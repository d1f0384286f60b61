SPECIFICATION FairSpec
CONSTANTS
    Producers = {p1, p2, p3}
    Items = {a, b}
    Capacity = 3
    UseExtended = FALSE
    ExtFactor = 2
    MaxPushes = 5
    NoThread = NoThread
    NoItem = NoItem
    EndOfItems = EndOfItems
INVARIANTS
    NoStrandedProducer
    CloseJoins
PROPERTIES ImplementsChannel PopAnswers
