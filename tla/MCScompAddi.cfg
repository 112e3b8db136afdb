SPECIFICATION Spec
CONSTANTS
  AddrSize = 256
  WordSize = 65536
  Programs <- ProgramMif
  Xor <- XorW
  Or <- OrW
  And <- AndW
INVARIANTS AddiResult
