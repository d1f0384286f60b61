SPECIFICATION Spec
CONSTANTS
    Producers = {p1, p2}
    Items = {a, b}
    Capacity = 1
    UseExtended = TRUE
    ExtFactor = 2
    MaxPushes = 5
    NoThread = NoThread
    NoItem = NoItem
    EndOfItems = EndOfItems
INVARIANT NeverOverfull
