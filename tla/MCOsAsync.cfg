CONSTANTS
    MaxDescriptor = 1
    FirstSize = 2
    MaxCalls = 2
SPECIFICATION Spec
INVARIANTS
    TableMatchesSets
PROPERTIES
    DispatchedWasReady
    CalledBack
CHECK_DEADLOCK FALSE
