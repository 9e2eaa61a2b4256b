CONSTANTS
    None = None
    MaxConfigure = 1
    MaxTerminate = 1
    MaxAuthenticate = 1
    PeerFrames <- LossFrames
    HostCommands <- LossCommands
SPECIFICATION ProgressSpec
PROPERTIES
    CloseCompletes
    LossEndsWaiting
    LossIsNoticed
