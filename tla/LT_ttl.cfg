SPECIFICATION Spec
CONSTANTS
    a1 = a1
    a2 = a2
    Attempts = {a1}
    Max = 3
    MaxCrashes = 1
INVARIANTS
    IncrSetsDeadline
