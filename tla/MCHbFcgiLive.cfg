CONSTANTS
    N = 3
    Lazy <- MCLazy
    Flows <- NoFlows
    Limits <- LiveLimits
    MaxCalls = 1
    MaxStops = 1
SPECIFICATION Spec
PROPERTIES
    EveryRequestSettles
    StopsWhenAsked
CHECK_DEADLOCK FALSE
