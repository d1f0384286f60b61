SPECIFICATION Spec
CONSTANTS
  NumColumns = 2
  Types = {t1}
  None = None
  BindTypes = {"row"}
  NoAccessor = {}
  MayFail = TRUE
  MaxRowset = 2
  MaxBatches = 2
  MaxRows = 2
INVARIANT StatusInBounds
CHECK_DEADLOCK FALSE
