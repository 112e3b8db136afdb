SPECIFICATION Spec
CONSTANTS
  Bytes <- MCBytes
  FifoSize = 2
  MaxBytes = 3
INVARIANTS NotTorn
