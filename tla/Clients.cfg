CONSTANTS
    IdSpace = 8
    MaxAuthenticate = 3
    MaxAttempts = 7
    IpcpIdSpace = 3
    Addresses = {1, 2}
    MaxConfigure = 2
    RequestedLocal = 0
    PreferredPeer = 2
    PeerOptionLists <- PeerLists
SPECIFICATION ClientsSpec
INVARIANTS
    IpcpNegotiationAgrees
    TypeOK
    BudgetAccounts
PROPERTIES
    LatestAttemptDecides
    PhaseEnds
    IpcpImplementsHandshake
    SilenceEndsNegotiation
CHECK_DEADLOCK FALSE
