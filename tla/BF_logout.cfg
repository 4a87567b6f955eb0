SPECIFICATION Spec
CONSTANTS
    c1 = c1
    c2 = c2
    Calls = {c1}
    MaxPairs = 3
    MaxLosses = 0
INVARIANTS
    LogoutRevokesThenClears
