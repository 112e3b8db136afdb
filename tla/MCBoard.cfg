SPECIFICATION BoardSpec
CONSTANTS
  AddrSize = 256
  WordSize = 65536
  Programs <- ProgramMif
  Xor <- XorW
  Or <- OrW
  And <- AndW
  ClkDiv = 25000000
  LcdDiv = 380000
  MaxToggles = 1
  time1 = 3
  time2 = 5
  CountRange = 8
  MaxRun = 9
  char_buffer_x = 79
  char_buffer_y = 59
  blue_x1 = 28
  blue_x2 = 52
  blue_y1 = 26
  blue_y2 = 34
  PortWords = 3
  ReadLevel = 1
  BufferSize = 4
  KeyPresses = 3
INVARIANTS BoardTypeOK ProgramResults InPlace OnScreen MessageIntact
PROPERTIES ImplementsClockSpec EverySecondShown Debounced NameSettlesOnBoard WordKeepsCrossing RecordEnds
