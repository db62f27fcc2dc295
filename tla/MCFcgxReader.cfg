CONSTANTS
    HEADER = 2
    BODY = 2
    Pair = 2
    BuffLen = 3
    Ids <- MCIds
    Shapes <- MCShapes
    Pads <- MCPads
    Extras <- MCExtras
    Reads <- MCReads
    Window = 4
    MaxRecords = 6
    MaxExtras = 1
    MaxConns = 1
SPECIFICATION Spec
INVARIANTS
    NothingLost
    ParamsWhole
PROPERTIES
    WholeRequestProceeds
    ClosedForLeftovers
CHECK_DEADLOCK FALSE
