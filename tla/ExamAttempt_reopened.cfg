SPECIFICATION FairSpec
CONSTANTS
    q1 = q1
    q2 = q2
    x = x
    y = y
    Questions = {q1}
    Asked = {q1}
    Answers = {x}
    Lower <- MCLower
    Type <- MCType
    Keys <- MCKeys
    Points <- MCPoints
    Attempts = {a1, a2}
    Owners = {o1}
    Owner <- MCOwner
    Notes = {}
    NoNote = NoNote
    NoResponse = NoResponse
    NoScore = NoScore
    Sessions = {s1, s2}
    OnePerAttempt = FALSE
    Faults = FALSE
    Expiring = {}
    MaxEnds = 1
CHECK_DEADLOCK FALSE
INVARIANTS
    OneActive
