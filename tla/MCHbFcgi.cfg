CONSTANTS
    N = 2
    Lazy <- MCLazy
    Flows <- MCFlows
    Limits <- MCLimits
    MaxCalls = 2
    MaxStops = 1
SPECIFICATION Spec
INVARIANTS
    NoCrossRequestData
    OneFullResponse
    CountAccounting
    KillAnswersDown
    HookOrder
PROPERTIES
    StopsAtLimit
    ErrorIsAnswered
    ImplementsProtocol
CHECK_DEADLOCK FALSE
