CONSTANTS
    N = 2
    Lazy <- MCLazy
    Flows <- NoFlows
    Limits <- MCLimits
    MaxCalls = 1
    MaxStops = 1
SPECIFICATION Spec
INVARIANT NoUseOfFreedEnvironment
CHECK_DEADLOCK FALSE
