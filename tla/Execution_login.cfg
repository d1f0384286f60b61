SPECIFICATION Spec
CONSTANTS
  Stmts = {s1}
  Values = {0, 1}
  MaxSets = 2
  MaxRequests = 3
  MaxConnects = 2
PROPERTY LoginTimeoutHonoured
CHECK_DEADLOCK FALSE
