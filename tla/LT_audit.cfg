SPECIFICATION Spec
CONSTANTS
    a1 = a1
    a2 = a2
    Attempts = {a1}
    Max = 2
    MaxCrashes = 0
INVARIANTS
    FailedLoginsAreAudited
