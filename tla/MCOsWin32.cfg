CONSTANTS
    OpenMax = 5
    MaxClients = 4
    Requests <- MCRequests
SPECIFICATION Spec
INVARIANTS
    MutexGivenBack
    EntriesAccounted
    OnePlace
PROPERTIES
    ShutdownStops
CHECK_DEADLOCK FALSE
