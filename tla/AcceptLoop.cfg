CONSTANTS
    app = app
    admin = admin
    other1 = other1
    other2 = other2
    nopolicy = nopolicy
    Peers <- MCPeers
    Cred <- MCCred
    Policies <- MCPolicies
    NoPolicy = nopolicy
    Window = 2
    BackoffUnit = 1
    BackoffCap = 2
    MaxTime = 3
    None = None
SPECIFICATION FairSpec
INVARIANTS
    RefusalsAccounted
    OneLinePerWindow
    NoSpin
PROPERTIES
    LoopProgresses
