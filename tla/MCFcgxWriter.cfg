CONSTANTS
    Cap <- MCCap
    Sizes <- MCSizes
    MaxBytes = 48
SPECIFICATION Spec
INVARIANTS
    TypeOK
    ResponseWellFormed
    InOrder
PROPERTIES
    CallReturns
    SilentAfterError
CHECK_DEADLOCK FALSE
