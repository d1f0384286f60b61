SPECIFICATION Spec
CONSTANTS
    Characters = {"a", "b"}
    WcharSizes = {2, 4}
    MaxLength = 5
    MaxBuffer = 12
    IntMax = 127
    Milli = 3
    Micro = 6
    Nano = 12
    DaySeconds = 7
    Torn = Torn
    Modes <- MCModes
    Precisions = {0, 5}
    Scales = {2}
    DecimalDigits = {1, 38}
    ColumnLengths = {1}
    MaxColumnLength = 536870911
    Rows <- MCRows
INVARIANTS ColumnsDescribed CatalogAgrees PatternsAreObeyed ServerInfoHolds PiecesReassemble TimestampIsTheInstant TextReadsBack ConnectsAsWritten
CHECK_DEADLOCK FALSE
