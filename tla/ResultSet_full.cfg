SPECIFICATION Spec
CONSTANTS
  NumColumns = 2
  Types = {t1,t2}
  None = None
  BindTypes = {"column"}
  NoAccessor = {t2}
  MayFail = TRUE
  MaxRowset = 2
  MaxBatches = 2
  MaxRows = 3
INVARIANTS BindingsHonoured OffsetsAreCurrent StatusTellsRows
PROPERTY ImplementsCursor
CHECK_DEADLOCK FALSE
