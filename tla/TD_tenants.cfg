SPECIFICATION TenantsSpec
CONSTANTS
    k1 = k1
    k2 = k2
    acme = acme
    zeta = zeta
    x = x
    y = y
    none = none
    Connections = {k1, k2}
    Slugs = {acme, zeta}
    Columns = {x, y}
    Values = {0, 1}
    Default = 0
    None = none
    MaxWrites = 3
    r1 = r1
    admin = admin
    root = root
    Requests = {r1}
    Accounts = {admin, root}
    FirstRole <- FirstRoles
    Ttl = 2
    Patience = 1
    MaxTokens = 2
    Horizon = 4
    Processes = {p1, p2}
    Keys = {a, b, c}
    Missing = missing
    Empty = empty
INVARIANTS
    TypeOK
    TenantIsolation
    ConfigIsNeverMissing
    InviteOpensTenant
    UpdatesMerge
    TotalCoversPage
    AuthorityIsRecent
    PairMatches
    TokensSurviveRestart
SYMMETRY Symmetry
