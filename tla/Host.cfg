CONSTANTS
    Half = 2
    MaxCalls = 2
    MaxAborts = 1
    SetupCommands = 5
    Idle = Idle
SPECIFICATION JointSpec
CHECK_DEADLOCK FALSE
INVARIANTS
    CommandsExact
    CleanupReachesSfc
PROPERTIES
    DialOnceEquipped
    CallAnswered
    SentRequestEnds
    NetworkIsClosed
