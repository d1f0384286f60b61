SPECIFICATION FairSpec
CONSTANTS
    Endpoints = {e1, e2}
    MaxBatches = 2
    MayFail = TRUE
    Capacity = 2
    UseExtended = FALSE
    ExtFactor = 1
    MaxPushes = 12
    NoThread = NoThread
    NoItem = NoItem
    EndOfItems = EndOfItems
CHECK_DEADLOCK FALSE
INVARIANTS NoSilentTruncation
PROPERTIES CloseAlwaysReturns ImplementsSource
