SPECIFICATION UartSpec
CONSTANTS
  RingLen = 3
  MaxBlock = 2
  MaxLine = 5
  MaxErrors = 1
INVARIANT FullRingKept
CHECK_DEADLOCK FALSE
