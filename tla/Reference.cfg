CONSTANTS
    SendAccm = {0, 1}
    ReceiveAccm = {0, 1}
    Maximum = 5
    RingSize = 2
    MaxFaults = 2
    Noise <- LineNoise
    Traffic <- MCTraffic
    Block = 8
    LengthOctets = 2
    MaxPart = 40
    Times <- MCTimes
    Servers <- MCServers
    Buffers = {47, 48}
    MagicSpace = 3
    MagicIncrement = 1
    DefaultMru = 1500
    DefaultAccm = 9
    None = None
    IdSpace = 3
    MaxConfigure = 2
    MaxTerminate = 2
    Policy <- MCPolicy
    LocalOptions <- MCLocalOptions
    PeerOptionLists <- MCPeerOptionLists
SPECIFICATION ReferenceSpec
CHECK_DEADLOCK FALSE
INVARIANTS
    LineDelivers
    ControlPacketsExact
    IpPacketsExact
    TimeIsExact
    NamesAreExact
    EncoderMatchesBatch
    DigestExact
    TypeOK
    LayerAgreement
    TimerCoversWaiting
    AckedConfigurationInForce
    OwnMagicIsAcknowledged
PROPERTY ImplementsHandshake
