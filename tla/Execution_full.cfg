SPECIFICATION Spec
CONSTANTS
  Stmts = {s1}
  Values = {0, 1}
  MaxSets = 2
  MaxRequests = 2
  MaxConnects = 2
INVARIANTS AttributesAsAsked CancelIsOfTheResult NoPreparedLeft
CHECK_DEADLOCK FALSE
