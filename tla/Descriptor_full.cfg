SPECIFICATION Spec
CONSTANTS
  Buffers = {a, b}
  Null = null
  MaxRecords = 2
  MaxCalls = 6
INVARIANTS CountCoversBound RecordsAreBindings FetchWritesBindings
CHECK_DEADLOCK FALSE
