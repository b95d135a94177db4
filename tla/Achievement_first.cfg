SPECIFICATION Spec
CONSTANTS
    Users = {u1}
    Handlers = {h1, h2}
    AttemptLevels = {1, 2}
    LoginLevels = {1, 2}
    AwardedDays = {1, 2}
    Faults = FALSE
    NoRow = NoRow
    MaxDay = 2
    MaxPublished = 2
    MaxCrashes = 1

CHECK_DEADLOCK FALSE
INVARIANTS
    FirstAttemptRewarded
