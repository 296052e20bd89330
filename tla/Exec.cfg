SPECIFICATION Spec
CONSTANTS
    Unset = Unset
    Capacity = 2
    Calls <- MCCalls
INVARIANTS
    TypeOK
    CaptureComplete
    StuckExplained
PROPERTY
    FittingReturns
CHECK_DEADLOCK FALSE
