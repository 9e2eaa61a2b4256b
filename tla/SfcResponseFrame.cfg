CONSTANTS
    None = None
    MaxConfigure = 1
    MaxTerminate = 1
    MaxAuthenticate = 1
    PeerFrames <- PlainFrames
    HostCommands <- LineCommands
SPECIFICATION Spec
INVARIANTS
    LcpResponseOwnsFrame
