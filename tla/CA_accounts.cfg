SPECIFICATION Spec
CONSTANTS
    r1 = r1
    r2 = r2
    first = first
    second = second
    owner = owner
    admin = admin
    none = none
    Requests = {r1, r2}
    Emails = {first, second}
    First = first
    Roles = {owner, admin}
    Owner = owner
    None = none
    MaxPasswords = 2
    MaxCrashes = 1
INVARIANTS
    TypeOK
    OwnerUnlessRaced
    TrailGivesTable
    InviteOpensAccount
PROPERTIES
    AccountIsCreatedOnce
SYMMETRY RequestSymmetry
