SPECIFICATION Spec
CONSTANTS
    c1 = c1
    c2 = c2
    Calls = {c1, c2}
    MaxPairs = 3
    MaxLosses = 1
INVARIANTS
    TypeOK
    BrowserKeepsItsSession
    RetryRepeatsNothing
    AcceptedLogoutIsFinal
SYMMETRY CallSymmetry
