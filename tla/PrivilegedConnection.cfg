CONSTANTS
    Majors = {1, 2}
    Minors = {0, 1, 2}
    MaxRequests = 2
    MaxStrange = 2
    WireCap = 1
    None = None
SPECIFICATION FairSpec
INVARIANTS
    NoCommandBeforeHandshake
    MinorAgreement
    VerdictTruthful
    ResponsesInOrder
PROPERTIES
    ImplementsSession
    ConversationSettles
