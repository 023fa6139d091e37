SPECIFICATION CryptSpec
CONSTANTS
  B = 4
  WordBits = 8
  JRegion = 32
  Regs = {0, 28, 29, 31}
  BitOp <- MCBitOp
  MemSz = 28
  StkSz = 8
  LowBase = 4
  InsnOf <- MCInsnOf
  Enc <- MCEnc
  Dec <- MCDec
  Programs = {}
  EhdrSize = 8
  PhdrEnd <- MCPhdrEnd
  ShdrEnd <- MCShdrEnd
  SymEnd <- MCSymEnd
  Menu <- ElfMenu
  ElfFiles <- MCElfFiles
  PlainFiles <- MCCryptFiles
  PhdrSize = 4
  Stale = {77}
INVARIANTS LoadTypeOK ReadyIsLoaded MemoryAsLinked ChecksSuffice NearestSymbolFound StartFromGlobals
  EncryptionIsTransparent
