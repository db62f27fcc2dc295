CONSTANTS
    HEADER = 2
    BODY = 2
    Pair = 2
    BuffLen = 8
    Ids <- MCIds
    Shapes <- Plain
    Pads <- NoPads
    Extras <- NoExtras
    Reads <- MCReads
    Window = 4
    MaxRecords = 8
    MaxExtras = 0
    MaxConns = 1
SPECIFICATION Spec
INVARIANT AcceptedWhole
CHECK_DEADLOCK FALSE
