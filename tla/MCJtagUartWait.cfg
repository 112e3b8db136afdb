SPECIFICATION Spec
CONSTANTS
  BufLen = 2
  WriteDepth = 1
  WriteThreshold = 0
  ReadDepth = 1
  ReadThreshold = 0
  IntMax = 4
  DefaultTimeout = 2
  Timeouts <- MCTimeouts
  MaxCall = 1
  MaxChars = 3
  MaxPlugs = 1
PROPERTIES CallsEnd TypedIsRead AllHeard
CHECK_DEADLOCK FALSE
