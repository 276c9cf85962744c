\* Two handlers at once in each service, one database fault; three tokens
\* at once; three connections of a helper; three helpers of two slugs.
SPECIFICATION Spec
CONSTANTS
    h1 = h1
    h2 = h2
    Handler = {h1, h2}
    Client = {"k1"}
    Scope = {"s"}
    MaxAttempts = 2
    MaxSecrets = 2
    MaxFaults = 1
    UHandler = {h1, h2}
    Email = {1, 2, 3}
    p1 = p1
    p2 = p2
    Password = {p1, p2}
    MaxFailures = 1
    MaxRegs = 1
    MaxLogins = 0
    MaxUFaults = 1
    NoPassword = NoPassword
    LHandler = {h1, h2}
    u1 = u1
    u2 = u2
    o1 = o1
    o2 = o2
    Org = {o1, o2}
    User = {u1, u2}
    HomeOrg <- Homes
    MayCreate = {u1}
    Code = {1, 2, 3, 4}
    Patch <- Patches
    Limit = 2
    Retries = 3
    m1 = m1
    m2 = m2
    Person = {u1, u2}
    GRoom = {m1, m2}
    CreatorOf <- Creators
    OrgOf <- Orgs
    External = {m2}
    Off <- Offsets
    Skew = 1
    Leeway = 1
    TokenExpiry = 3
    AskedTtl = 3
    MaxTtl = 2
    GMaxTime = 6
    GMaxTokens = 3
    Conn = {1, 2, 3}
    MaxConns = 2
    MaxCommands = 2
    Nobody = Nobody
    Slug = {1, 2}
    NumSlots = 2
    PreferredIndex <- LastSlot
    MaxPid = 3
SYMMETRY Symmetry
CONSTRAINT Bounded
ACTION_CONSTRAINT InOrder
INVARIANTS ClientsCorrect UsersCorrect LobbyCorrect GateCorrect ToolsCorrect
PROPERTY TokenAsSettings
