CONSTANTS
    None = None
    MaxConfigure = 1
    MaxTerminate = 1
    MaxAuthenticate = 1
    PeerFrames <- ChapFrames
    HostCommands <- LineCommands
SPECIFICATION Spec
PROPERTIES
    LowerDownAbortsItsOwn
