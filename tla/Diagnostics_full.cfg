SPECIFICATION DiagnosticsSpec
CONSTANTS
  WcharSize = 2
  MaxShort = 15
  Texts <- MCTexts
  Sizes = {0, 1, 4}
  MaxExecuted = 3
INVARIANTS FirstRecordExplains CutTextIsTold RetryGetsAll
CHECK_DEADLOCK FALSE
