SPECIFICATION Spec
CONSTANTS
    Producers = {p1, p2}
    Items = {a, b}
    Capacity = 2
    UseExtended = TRUE
    ExtFactor = 2
    MaxPushes = 7
    NoThread = NoThread
    NoItem = NoItem
    EndOfItems = EndOfItems
SYMMETRY Symmetry
INVARIANT OvershootBound
