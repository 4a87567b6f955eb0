SPECIFICATION FairSpec
CONSTANTS
    r1 = r1
    r2 = r2
    admin = admin
    root = root
    acme = acme
    Platform = Platform
    NoAdmin = NoAdmin
    Requests = {r1, r2}
    MaxTokens = 3
    Admins = {root}
    Companies = {}
    Scope <- PlatformOnly
INVARIANTS
    LogoutRevokesFamily
