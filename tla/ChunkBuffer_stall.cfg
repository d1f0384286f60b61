SPECIFICATION FairSpec
CONSTANTS
    Endpoints = {e1, e2}
    MaxBatches = 1
    MayFail = FALSE
    Capacity = 1
    UseExtended = FALSE
    ExtFactor = 1
    MaxPushes = 12
    NoThread = NoThread
    NoItem = NoItem
    EndOfItems = EndOfItems
CHECK_DEADLOCK FALSE
PROPERTY FetchingEnds
