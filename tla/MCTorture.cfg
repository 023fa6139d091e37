SPECIFICATION TortureSpec
CONSTANTS
  B = 4
  WordBits = 8
  JRegion = 32
  Regs = {0, 28, 29, 31}
  BitOp <- MCBitOp
  MemSz = 28
  StkSz = 4
  LowBase = 4
  InsnOf <- MCInsnOf
  Enc <- MCEnc
  Dec <- MCDec
  Programs <- TorturePrograms
  EhdrSize = 8
  PhdrEnd <- MCPhdrEnd
  ShdrEnd <- MCShdrEnd
  SymEnd <- MCSymEnd
  Menu <- TortureMenu
  Levels = {0, 1}
  CommonPrefix <- MCPrefix
INVARIANT LastBranchExact
PROPERTY TortureProgress
