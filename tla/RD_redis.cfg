SPECIFICATION RedisSpec
CONSTANTS
    a1 = a1
    a2 = a2
    Attempts = {a1, a2}
    Max = 2
    MaxCrashes = 1
    h1 = h1
    h2 = h2
    Hitters = {h1, h2}
    Limit = 3
    MaxOrphans = 1
    v1 = v1
    v2 = v2
    Verifies = {v1, v2}
    MaxSecrets = 3
INVARIANTS
    TypeOK
    GuessesAreBounded
    CounterHasDeadline
    LockoutIsBounded
    AdmittedWithinLimit
    WindowWillClose
    OnlyConfirmedIsStored
    EnrolmentIsNotLost
    LastConfirmedIsStored
PROPERTIES
    RefusalEnds
