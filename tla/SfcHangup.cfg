CONSTANTS
    None = None
    MaxConfigure = 1
    MaxTerminate = 1
    MaxAuthenticate = 1
    PeerFrames <- CloseFrames
    HostCommands <- CloseCommands
SPECIFICATION FairSpec
PROPERTIES
    HangupNoticed
