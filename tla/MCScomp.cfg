SPECIFICATION Spec
CONSTANTS
  AddrSize = 4
  WordSize = 64
  Programs <- MCPrograms
  Xor <- MCXor
  Or <- MCOr
  And <- MCAnd
INVARIANTS TypeOK PortInv
PROPERTIES OnlyStoresWrite ImplementsISA InstructionsComplete
