SPECIFICATION Spec
CONSTANTS
  B = 4
  WordBits = 8
  JRegion = 32
  Regs = {0, 28, 29, 31}
  BitOp <- MCBitOp
  MemSz = 28
  StkSz = 12
  LowBase = 4
  InsnOf <- MCInsnOf
  Enc <- MCEnc
  Dec <- MCDec
  Programs <- CpuPrograms
  Menu <- CpuMenu
INVARIANTS TypeOK InternalErrorFree DelaySlotFollowsBranch UnalignedWordAccess
PROPERTIES FailedStepIsAtomic ControlBlockIntact ImplementsArch
