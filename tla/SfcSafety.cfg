CONSTANTS
    None = None
    MaxConfigure = 2
    MaxTerminate = 2
    MaxAuthenticate = 2
    PeerFrames <- PlainFrames
    HostCommands <- PlainCommands
    RingSize = 3
    SequenceSpace = 16
    MaxBytes = 4
    MaxSections = 5
    MaxSession = 1
    Protocols = {"ICMP", "NTP", "DNS"}
    ClockSpace = 8
    Timeout = 2
    MaxStall = 1
    TagSpace = 4
    Destinations = {1, 2}
    MaxCalls = 2
    Short = 4
    Long = 5
    Idle = Idle
SPECIFICATION SafetySpec
CHECK_DEADLOCK FALSE
INVARIANTS
    RingBytesExact
    RequestsKept
    FollowedIsSafe
    TypeOK
    NoLayerWaitsSilently
    NetworkFramesNeedNetwork
    LineLossCleansUp
    NetworkNeedsApproval
PROPERTIES
    CloseIsFinal
    TerminateAckSurvives
    OnlyOwnAnswerOrTimeEnds
