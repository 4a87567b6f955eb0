SPECIFICATION ForkFairSpec
CONSTANTS
    r1 = r1
    r2 = r2
    admin = admin
    root = root
    acme = acme
    Platform = Platform
    NoAdmin = NoAdmin
    Requests = {r1, r2}
    MaxTokens = 4
    Admins = {root}
    Companies = {}
    Scope <- PlatformOnly
PROPERTIES
    EveryRequestEnds
