SPECIFICATION ServicesSpec
CONSTANTS
    Files = {f}
    MaxUses = 2
    MaxFileFaults = 1
    Ids = {i}
    Nobody = Nobody
    Identifiers = {x, y}
    NoIdentifier = NoIdentifier
    Roles = {student}
    Student = student
    Commands = {c, d}
    MaxSaves = 4
    Refreshes = {r1}
    AccessSeconds = 1
    RefreshSeconds = 3
    Parts = 2
    MaxOverlap = 2
    MaxSecond = 4
    Resources = {resource1}
    Creators = {u, v}
    NoOwner = NoOwner
    Guarded = {q}
    MaxCreations = 2
    MaxLosses = 1
    MaxRoom = 5
    Limit = 2
    MaxReads = 4
    Results = {grade}
    NoComment = NoComment
    MaxRetries = 3
    MaxRedelivered = 2
INVARIANTS
    CountIsUses
    StoredFilesHaveObjects
    ObjectsAccountedFor
    CredentialsKept
    LoggedOutStaysOut
    OwnersAreCreators
    OwnershipSettles
    MissesAreBlind
    BackIsInverse
    NoResultLost
PROPERTIES
    UsedFilesNotChosen
    UnusedFilesRemoved
    SavesApplyToCopies
    SessionsStayOver
    CreatedGetOwners
    WalkMovesOn
    ResultsEnd
CHECK_DEADLOCK FALSE
