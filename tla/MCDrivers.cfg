SPECIFICATION DriversSpec
CONSTANTS
  BufLen = 3
  WriteDepth = 1
  WriteThreshold = 0
  ReadDepth = 1
  ReadThreshold = 0
  IntMax = 4
  DefaultTimeout = 2
  Timeouts <- MCTimeouts
  MaxCall = 2
  MaxChars = 4
  MaxPlugs = 0
  RingLen = 3
  MaxBlock = 2
  MaxLine = 4
  MaxErrors = 1
  Alarms = {one, two, three}
  TickRange = 4
  Delays = {0, 2}
  Periods = {0, 1, 3}
INVARIANTS DriversTypeOK TransmitInOrder ReceiveInOrder NoLostWakeup UartTransmits UartReceives UartNoLostWakeup OnTime
PROPERTIES DriversChannels
CHECK_DEADLOCK FALSE
