SPECIFICATION HarnessSpec
CONSTANTS
  B = 4
  WordBits = 8
  JRegion = 64
  Regs = {0, 2, 3, 4, 5, 6, 28, 29, 31}
  BitOp <- MCBitOp
  MemSz = 60
  StkSz = 12
  LowBase = 4
  InsnOf <- MCInsnOf
  Enc <- Plain
  Dec <- Plain
  Menu <- HarnessMenu
  Programs <- PlainPrograms
  SpimCode = 0
  MaxFds = 4
  NameMax = 3
  HostFds = {0, 1, 2, 3}
  HostOpen = {0, 1, 2}
  HostWords = {0, 200}
  Lines = {}
  Files <- LoopFiles
  Calls = {}
  Missing = Missing
  CommandLines <- PlainCommands
INVARIANT SymbolsSuffice
PROPERTY DataDelivered
