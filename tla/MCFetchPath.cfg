SPECIFICATION FetchSpec
CONSTANTS
  B = 4
  WordBits = 8
  JRegion = 32
  Regs = {0, 31}
  BitOp <- MCBitOp
  WSZ = 4
  Pow <- MCPow
  R = 3
  KEYLEN = 3
  P = 11
  Q = 9
  Radix = 2
  KeyTexts <- AllTexts
  Blocks <- Word
  InsnWords <- MCInsnWords
INVARIANTS Rc5TypeOK DecryptRetraces RoundTrip DecodedIsDispatched
PROPERTY DecodeIsExact
