SPECIFICATION Spec
CONSTANTS
    Users = {u1}
    Handlers = {h1, h2, h3}
    AttemptLevels = {1, 2}
    LoginLevels = {1, 2, 3}
    AwardedDays = {1, 3}
    Faults = TRUE
    NoRow = NoRow
    MaxDay = 2
    MaxPublished = 3
    MaxCrashes = 1
SYMMETRY Symmetric
CHECK_DEADLOCK FALSE
INVARIANTS
    TypeOK
    BadgesMatchProgress
    LossesBounded
PROPERTIES
    ProgressMonotone
