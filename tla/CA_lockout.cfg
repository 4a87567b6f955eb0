SPECIFICATION Spec
CONSTANTS
    r1 = r1
    r2 = r2
    first = first
    second = second
    owner = owner
    admin = admin
    none = none
    Requests = {r1, r2}
    Emails = {first, second}
    First = first
    Roles = {owner, admin}
    Owner = owner
    None = none
    MaxPasswords = 1
    MaxCrashes = 0
INVARIANTS
    TenantIsNeverLockedOut
SYMMETRY RequestSymmetry
