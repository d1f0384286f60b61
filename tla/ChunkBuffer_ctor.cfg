SPECIFICATION Spec
CONSTANTS
    Endpoints = {e1, e2}
    MaxBatches = 1
    MayFail = TRUE
    Capacity = 2
    UseExtended = FALSE
    ExtFactor = 1
    MaxPushes = 12
    NoThread = NoThread
    NoItem = NoItem
    EndOfItems = EndOfItems
SYMMETRY Symmetry
CHECK_DEADLOCK FALSE
INVARIANT ConstructorThrowsCleanly
