----------------------------- MODULE WordLemmas ----------------------------
(***************************************************************************)
(* What the operators of Words return, for every width of a byte.          *)
(***************************************************************************)
EXTENDS Words, WellFoundedInduction, TLAPS

\* The sizes of a half word and a word are numbers, in the order of C.
LEMMA Sizes == /\ B \in Nat /\ B >= 2
               /\ Half \in Nat /\ Half >= 4
               /\ W \in Nat /\ W >= 16 /\ W = Half * Half
               /\ Half <= W /\ B <= Half
<1>1. B \in Nat /\ B >= 2
  BY ByteAssumption
<1>2. Half \in Nat /\ Half >= 4 /\ B <= Half
  BY <1>1 DEF Half
<1>3. W = Half * Half
  BY <1>1 DEF W, Half
<1>4. W \in Nat /\ W >= 16 /\ Half <= W
  BY <1>2, <1>3
<1> QED
  BY <1>1, <1>2, <1>3, <1>4

\* The conversion to mips_uword yields a word and is the identity on words.
LEMMA UnsignedWord == ASSUME NEW z \in Int
                      PROVE  /\ Unsigned(z) \in Word
                             /\ z \in Word => Unsigned(z) = z
BY Sizes DEF Unsigned, Word

\* A sign extension is an integer.
LEMMA SExtInt == ASSUME NEW v \in Int, NEW n \in Int
                 PROVE  SExt(v, n) \in Int
BY DEF SExt

\* Words are integers, and so is their signed view.
LEMMA WordInt == ASSUME NEW x \in Word
                 PROVE  x \in Int /\ x >= 0 /\ x < W /\ Signed(x) \in Int
BY Sizes, SExtInt DEF Word, Signed

\* A flag is a word.
LEMMA FlagWord == ASSUME NEW b \in BOOLEAN PROVE Flag(b) \in Word
BY Sizes DEF Flag, Word

\* The immediate operands have the types their names say.
LEMMA ImmediateTypes ==
  ASSUME NEW i \in Insns
  PROVE  uIMM(i) \in Word /\ sIMM(i) \in Int /\ zIMM(i) \in Word
<1>1. i.imm \in 0 .. (Half - 1)
  BY DEF Insns
<1>2. sIMM(i) \in Int
  BY <1>1, Sizes DEF sIMM, SExt
<1>3. uIMM(i) \in Word
  BY <1>2, UnsignedWord DEF uIMM, sIMM
<1>4. zIMM(i) \in Word
  BY <1>1, Sizes DEF zIMM, Word
<1> QED
  BY <1>2, <1>3, <1>4

\* The operands of an instruction are registers.
LEMMA InsnFields ==
  ASSUME NEW i \in Insns
  PROVE  /\ i.rs \in Regs /\ i.rt \in Regs /\ i.rd \in Regs
         /\ i.sa \in 0 .. (WordBits - 1) /\ i.target \in Nat
         /\ i.op \in Opcodes \cup {"NONE"}
BY JRegionAssumption DEF Insns

\* The logical operators and shifts return words.
LEMMA BitOpWord ==
  /\ \A o \in LogicOps : \A x, y \in Word : BitOp(o, x, y) \in Word
  /\ \A o \in ShiftOps : \A x \in Word : \A n \in 0 .. (WordBits - 1) :
       BitOp(o, x, n) \in Word
BY BitOpAssumption

\* The ALU with an immediate operand returns a word.
LEMMA AluiResultWord ==
  ASSUME NEW i \in Insns, i.op \in AluiOps, NEW x \in Word
  PROVE  AluiResult(i, x) \in Word
<1>1. uIMM(i) \in Word /\ sIMM(i) \in Int /\ zIMM(i) \in Word
  BY ImmediateTypes
<1>2. x + uIMM(i) \in Int
  BY <1>1, WordInt
<1>3. Unsigned(x + uIMM(i)) \in Word
  BY <1>2, UnsignedWord
<1>4. /\ Flag(Signed(x) < sIMM(i)) \in Word
      /\ Flag(x < uIMM(i)) \in Word
  BY Sizes DEF Flag, Word
<1>5. \A o \in {"AND", "OR", "XOR"} : BitOp(o, x, zIMM(i)) \in Word
  BY <1>1, BitOpWord DEF LogicOps
<1> QED
  BY <1>3, <1>4, <1>5 DEF AluiResult, AluiOps

\* The register ALU returns a word.
LEMMA Alu3ResultWord ==
  ASSUME NEW i \in Insns, i.op \in Alu3Ops, NEW x \in Word, NEW y \in Word
  PROVE  Alu3Result(i, x, y) \in Word
<1>1. i.sa \in 0 .. (WordBits - 1)
  BY InsnFields
<1>2. x % WordBits \in 0 .. (WordBits - 1)
  BY WordInt, WordBitsAssumption
<1>3. \A o \in ShiftOps : /\ BitOp(o, y, i.sa) \in Word
                          /\ BitOp(o, y, x % WordBits) \in Word
  BY <1>1, <1>2, BitOpWord
<1>4. \A o \in LogicOps : BitOp(o, x, y) \in Word
  BY BitOpWord
<1>5. x + y \in Int /\ x - y \in Int
  BY WordInt
<1>6. Unsigned(x + y) \in Word /\ Unsigned(x - y) \in Word
  BY <1>5, UnsignedWord
<1>7. Flag(Signed(x) < Signed(y)) \in Word /\ Flag(x < y) \in Word
  BY Sizes DEF Flag, Word
<1> QED
  BY <1>3, <1>4, <1>6, <1>7 DEF Alu3Result, Alu3Ops, ShiftOps, LogicOps

\* LUI returns a word.
LEMMA LuiResultWord == ASSUME NEW i \in Insns PROVE LuiResult(i) \in Word
<1>1. zIMM(i) * Half \in Int
  BY ImmediateTypes, WordInt, Sizes
<1> QED
  BY <1>1, UnsignedWord DEF LuiResult
\* The truncating division of C stays within the integers.
LEMMA DivisionInt ==
  ASSUME NEW x \in Int, NEW y \in Int, y # 0
  PROVE  Quotient(x, y) \in Int /\ Remainder(x, y) \in Int
<1>1. Magnitude(x) \in Nat /\ Magnitude(y) \in Nat /\ Magnitude(y) > 0
  BY DEF Magnitude
<1>2. Magnitude(x) \div Magnitude(y) \in Int
  BY <1>1
<1>3. Quotient(x, y) \in Int
  BY <1>2 DEF Quotient
<1>4. y * Quotient(x, y) \in Int
  BY <1>3
<1> QED
  BY <1>3, <1>4 DEF Remainder

\* The two halves of a product are words.
LEMMA ProductWords == ASSUME NEW z \in Int
                      PROVE  Product(z).hi \in Word /\ Product(z).lo \in Word
<1>1. z \div W \in Int
  BY Sizes
<1> QED
  BY <1>1, UnsignedWord DEF Product

\* The results of a division, by zero included, are words.
LEMMA DivisionWords ==
  ASSUME NEW x \in Int, NEW y \in Int
  PROVE  Division(x, y).hi \in Word /\ Division(x, y).lo \in Word
<1>1. CASE y = 0
  BY <1>1, Sizes DEF Division, Word
<1>2. CASE y # 0
  BY <1>2, DivisionInt, UnsignedWord DEF Division
<1> QED
  BY <1>1, <1>2

\* hi and lo are words after every instruction that sets them.
LEMMA DivMultWords ==
  ASSUME NEW op \in DivMultOps \ {"MFHI", "MFLO"},
         NEW x \in Word, NEW y \in Word, NEW h \in Word, NEW l \in Word
  PROVE  /\ DivMultResult(op, x, y, h, l).hi \in Word
         /\ DivMultResult(op, x, y, h, l).lo \in Word
<1>1. x \in Int /\ y \in Int /\ Signed(x) \in Int /\ Signed(y) \in Int
  BY WordInt
<1>2. Signed(x) * Signed(y) \in Int /\ x * y \in Int
  BY <1>1
<1>3. CASE op = "MULT"
  BY <1>2, <1>3, ProductWords DEF DivMultResult
<1>4. CASE op = "MULTU"
  BY <1>2, <1>4, ProductWords DEF DivMultResult
<1>5. CASE op = "DIV"
  BY <1>1, <1>5, DivisionWords DEF DivMultResult
<1>6. CASE op = "DIVU"
  BY <1>1, <1>6, DivisionWords DEF DivMultResult
<1>7. CASE op \in {"MTHI", "MTLO"}
  BY <1>7 DEF DivMultResult
<1> QED
  BY <1>3, <1>4, <1>5, <1>6, <1>7 DEF DivMultOps

\* A word has four bytes.
LEMMA BytesType == ASSUME NEW w \in Word PROVE Bytes(w) \in [0 .. 3 -> Byte]
<1>1. w \in Nat /\ B \in Nat /\ B > 0 /\ Half \in Nat /\ Half > 0
  BY WordInt, Sizes
<1>2. Half * B \in Nat /\ Half * B > 0
  BY <1>1, Sizes
<1>3. /\ w \div B \in Int
      /\ w \div Half \in Int
      /\ w \div (Half * B) \in Int
  BY <1>1, <1>2
<1>4. \A z \in Int : z % B \in Byte
  BY Sizes DEF Byte
<1>5. /\ w % B \in Byte
      /\ (w \div B) % B \in Byte
      /\ (w \div Half) % B \in Byte
      /\ (w \div (Half * B)) % B \in Byte
  BY <1>1, <1>3, <1>4
<1> QED
  BY <1>5 DEF Bytes

\* Four bytes, put together in little-endian order, are a word.
LEMMA FromBytesWord == ASSUME NEW b \in [0 .. 3 -> Byte]
                       PROVE  FromBytes(b) \in Word
<1>1. /\ b[0] \in 0 .. (B - 1) /\ b[1] \in 0 .. (B - 1)
      /\ b[2] \in 0 .. (B - 1) /\ b[3] \in 0 .. (B - 1)
  BY DEF Byte
<1>2. ASSUME NEW x \in 0 .. (B - 1), NEW n \in Nat, n > 0, NEW y \in 0 .. (n - 1)
      PROVE  x + B * y \in 0 .. (B * n - 1)
  BY <1>2, Sizes
<1>3. B > 0 /\ B * B \in Nat /\ B * B > 0 /\ B * (B * B) \in Nat /\ B * (B * B) > 0
  BY Sizes
<1>4. b[2] + B * b[3] \in 0 .. (B * B - 1)
  BY <1>1, <1>2, Sizes
<1>5. b[1] + B * (b[2] + B * b[3]) \in 0 .. (B * (B * B) - 1)
  BY <1>1, <1>2, <1>3, <1>4
<1>6. b[0] + B * (b[1] + B * (b[2] + B * b[3])) \in 0 .. (B * (B * (B * B)) - 1)
  BY <1>1, <1>2, <1>3, <1>5
<1>7. B * (B * (B * B)) = W
  BY Sizes DEF W
<1> QED
  BY <1>6, <1>7 DEF FromBytes, Word

\* Every load puts a word in its register.
LEMMA LoadResultWord ==
  ASSUME NEW op \in LoadOps, NEW s \in 0 .. 3, NEW w \in Word, NEW old \in Word
  PROVE  LoadResult(op, s, w, old) \in Word
<1> DEFINE b == Bytes(w)
           o == Bytes(old)
           half == b[s] + B * b[(s + 1) % 4]
<1>1. b \in [0 .. 3 -> Byte] /\ o \in [0 .. 3 -> Byte]
  BY BytesType
<1>2. (s + 1) % 4 \in 0 .. 3
  OBVIOUS
<1>3. b[s] \in Byte /\ b[(s + 1) % 4] \in Byte
  BY <1>1, <1>2
<1>4. Byte \subseteq Word
  BY Sizes DEF Byte, Word
<1>5. half \in Word
  <2>1. half \in 0 .. (B * B - 1)
    BY <1>3, Sizes DEF Byte
  <2> QED
    BY <2>1, Sizes DEF Half, Word
<1>6. SExt(b[s], B) \in Int /\ SExt(half, Half) \in Int
  <2>1. b[s] \in Int /\ half \in Int
    BY <1>3, <1>4, <1>5, WordInt
  <2> HIDE DEF b, half
  <2> QED
    BY <2>1, Sizes DEF SExt
<1>7. /\ Unsigned(SExt(b[s], B)) \in Word
      /\ Unsigned(SExt(half, Half)) \in Word
  BY <1>6, UnsignedWord
<1>8. [k \in 0 .. 3 |-> IF k >= 3 - s THEN b[k - (3 - s)] ELSE o[k]]
        \in [0 .. 3 -> Byte]
  BY <1>1
<1>9. [k \in 0 .. 3 |-> IF k < 4 - s THEN b[k + s] ELSE o[k]]
        \in [0 .. 3 -> Byte]
  BY <1>1
<1>10. /\ FromBytes([k \in 0 .. 3 |-> IF k >= 3 - s THEN b[k - (3 - s)] ELSE o[k]])
             \in Word
       /\ FromBytes([k \in 0 .. 3 |-> IF k < 4 - s THEN b[k + s] ELSE o[k]])
             \in Word
  BY <1>8, <1>9, FromBytesWord
<1> HIDE DEF b, o, half
<1> QED
  BY <1>3, <1>4, <1>5, <1>7, <1>10 DEF LoadResult, MergeLeft, LoadOps, b, o, half

\* Every store writes a word.
LEMMA StoreResultWord ==
  ASSUME NEW op \in StoreOps, NEW s \in 0 .. 3, NEW w \in Word, NEW v \in Word
  PROVE  StoreResult(op, s, w, v) \in Word
<1> DEFINE b == Bytes(w)
           n == Bytes(v)
           sb == [b EXCEPT ![s] = n[0]]
           sh == [b EXCEPT ![s] = n[0], ![(s + 1) % 4] = n[1]]
           swl == [k \in 0 .. 3 |-> IF k > s THEN b[k] ELSE n[k + (3 - s)]]
           swr == [k \in 0 .. 3 |-> IF k < s THEN b[k] ELSE n[k - s]]
<1>1. b \in [0 .. 3 -> Byte] /\ n \in [0 .. 3 -> Byte]
  BY BytesType
<1>2. (s + 1) % 4 \in 0 .. 3
  OBVIOUS
<1>3. sb \in [0 .. 3 -> Byte] /\ sh \in [0 .. 3 -> Byte]
  BY <1>1, <1>2
<1>4. swl \in [0 .. 3 -> Byte] /\ swr \in [0 .. 3 -> Byte]
  BY <1>1
<1>5. /\ FromBytes(sb) \in Word /\ FromBytes(sh) \in Word
      /\ FromBytes(swl) \in Word /\ FromBytes(swr) \in Word
  BY <1>3, <1>4, FromBytesWord
<1> HIDE DEF sb, sh, swl, swr
<1>6. /\ op = "SB" => StoreResult(op, s, w, v) = FromBytes(sb)
      /\ op = "SH" => StoreResult(op, s, w, v) = FromBytes(sh)
      /\ op = "SW" => StoreResult(op, s, w, v) = v
      /\ op = "SWL" => StoreResult(op, s, w, v) = FromBytes(swl)
      /\ op = "SWR" => StoreResult(op, s, w, v) = FromBytes(swr)
  BY DEF StoreResult, sb, sh, swl, swr
<1> QED
  BY <1>5, <1>6 DEF StoreOps

\* The offset of an address in its word.
LEMMA OffsetType == ASSUME NEW x \in Int PROVE x % 4 \in 0 .. 3
OBVIOUS

----------------------------------------------------------------------------
(* Bytes and words are the same information.                               *)

\* Quotient and remainder of a number written in base n.
LEMMA DivMod ==
  ASSUME NEW n \in Nat, n > 0, NEW x \in 0 .. (n - 1), NEW y \in Int
  PROVE  (x + n * y) % n = x /\ (x + n * y) \div n = y
<1>1. n * y \in Int /\ x + n * y \in Int
  OBVIOUS
<1> DEFINE q == (x + n * y) \div n
           m == (x + n * y) % n
<1>2. q \in Int /\ m \in 0 .. (n - 1) /\ x + n * y = n * q + m
  BY <1>1
<1> HIDE DEF q, m
<1>3. n * (y - q) = m - x
  BY <1>2
<1>4. y - q = 0
  <2>1. CASE y - q >= 1
    <3>1. n * (y - q) >= n * 1
      BY <1>2, <2>1
    <3> QED
      BY <1>2, <1>3, <3>1
  <2>2. CASE y - q <= -1
    <3>1. n * (y - q) <= n * (-1)
      BY <1>2, <2>2
    <3> QED
      BY <1>2, <1>3, <3>1
  <2> QED
    BY <1>2, <2>1, <2>2
<1>5. m = x /\ q = y
  BY <1>2, <1>3, <1>4
<1> QED
  BY <1>5 DEF q, m

\* A number divided twice is divided by the product.
LEMMA DivDiv ==
  ASSUME NEW n \in Nat, n > 0, NEW m \in Nat, m > 0, NEW x \in Nat
  PROVE  x \div (n * m) = (x \div n) \div m
<1> DEFINE q == x \div n
           p == q \div m
<1>1. q \in Nat /\ x % n \in 0 .. (n - 1) /\ x = n * q + (x % n)
  OBVIOUS
<1>2. p \in Nat /\ q % m \in 0 .. (m - 1) /\ q = m * p + (q % m)
  BY <1>1
<1> HIDE DEF q, p
<1> DEFINE rest == (x % n) + n * (q % m)
<1>3. n * (q % m) <= n * (m - 1) /\ n * (q % m) >= 0
  BY <1>2
<1>4. n * (m - 1) = n * m - n
  OBVIOUS
<1>5. n * m \in Nat /\ n * m > 0
  OBVIOUS
<1>6. n * (q % m) \in Int
  BY <1>2
<1>7. rest \in 0 .. (n * m - 1)
  BY <1>1, <1>3, <1>4, <1>5, <1>6
<1>8. n * q = n * (m * p) + n * (q % m)
  BY <1>2
<1>9. n * (m * p) = (n * m) * p
  BY <1>2
<1>10. n * (m * p) \in Int
  BY <1>2
<1>11. x = rest + (n * m) * p
  BY <1>1, <1>6, <1>8, <1>9, <1>10
<1> HIDE DEF rest
<1>12. x \div (n * m) = p
  BY <1>2, <1>5, <1>7, <1>11, DivMod
<1> QED
  BY <1>12 DEF p, q

\* The bytes of a word put together from four bytes are those bytes.
LEMMA BytesOfFromBytes == ASSUME NEW b \in [0 .. 3 -> Byte]
                          PROVE  Bytes(FromBytes(b)) = b
<1> DEFINE x3 == b[3]
           x2 == b[2] + B * x3
           x1 == b[1] + B * x2
           x0 == b[0] + B * x1
<1>1. /\ b[0] \in 0 .. (B - 1) /\ b[1] \in 0 .. (B - 1)
      /\ b[2] \in 0 .. (B - 1) /\ b[3] \in 0 .. (B - 1)
      /\ B \in Nat /\ B > 0
  BY Sizes DEF Byte
<1>2. x3 \in Nat /\ x3 = b[3] + B * 0
  BY <1>1
<1>3. x2 \in Nat /\ x2 % B = b[2] /\ x2 \div B = x3
  <2> HIDE DEF x3
  <2> QED
    BY <1>1, <1>2, DivMod
<1>4. x1 \in Nat /\ x1 % B = b[1] /\ x1 \div B = x2
  <2>1. x2 \in Nat /\ x2 \in Int
    BY <1>3
  <2> HIDE DEF x2
  <2>2. x1 \in Nat
    BY <1>1, <2>1
  <2>3. x1 % B = b[1] /\ x1 \div B = x2
    BY <1>1, <2>1, DivMod
  <2> QED
    BY <2>2, <2>3
<1>5. x0 \in Nat /\ x0 % B = b[0] /\ x0 \div B = x1
  <2>1. x1 \in Nat /\ x1 \in Int
    BY <1>4
  <2> HIDE DEF x1
  <2>2. x0 \in Nat
    BY <1>1, <2>1
  <2>3. x0 % B = b[0] /\ x0 \div B = x1
    BY <1>1, <2>1, DivMod
  <2> QED
    BY <2>2, <2>3
<1>6. x3 % B = b[3]
  BY <1>1
<1>7. FromBytes(b) = x0
  BY DEF FromBytes
<1> HIDE DEF x0, x1, x2, x3
<1>8. x0 \div Half = x2
  BY <1>1, <1>4, <1>5, DivDiv DEF Half
<1>9. x0 \div (Half * B) = x3
  <2>1. Half \in Nat /\ Half > 0
    BY Sizes
  <2>2. x0 \div (Half * B) = (x0 \div Half) \div B
    BY <1>1, <1>5, <2>1, DivDiv
  <2> QED
    BY <1>3, <1>8, <2>2
<1>10. /\ Bytes(FromBytes(b))[0] = b[0] /\ Bytes(FromBytes(b))[1] = b[1]
       /\ Bytes(FromBytes(b))[2] = b[2] /\ Bytes(FromBytes(b))[3] = b[3]
  BY <1>3, <1>4, <1>5, <1>6, <1>7, <1>8, <1>9 DEF Bytes
<1>11. Bytes(FromBytes(b)) = [k \in 0 .. 3 |-> Bytes(FromBytes(b))[k]]
  BY DEF Bytes
<1> QED
  BY <1>10, <1>11

\* A word is put together again from its bytes.
LEMMA FromBytesOfBytes == ASSUME NEW w \in Word
                          PROVE  FromBytes(Bytes(w)) = w
<1>1. B \in Nat /\ B > 0 /\ Half \in Nat /\ Half > 0 /\ Half = B * B
  BY Sizes DEF Half
<1> DEFINE q1 == w \div B
           q2 == q1 \div B
           q3 == q2 \div B
<1>2. w \in Nat /\ w < W
  BY WordInt
<1>3. q1 \in Nat /\ w = (w % B) + B * q1
  BY <1>1, <1>2
<1>4. q2 \in Nat /\ q1 = (q1 % B) + B * q2
  <2> HIDE DEF q1
  <2> QED
    BY <1>1, <1>3
<1>5. q3 \in Nat /\ q2 = (q2 % B) + B * q3
  <2> HIDE DEF q2
  <2> QED
    BY <1>1, <1>4
<1>6. w \div Half = q2
  BY <1>1, <1>2, DivDiv
<1>7. w \div (Half * B) = q3
  BY <1>1, <1>2, <1>6, DivDiv
<1>8. q3 \in 0 .. (B - 1)
  <2> HIDE DEF q1, q2, q3
  <2>1. B * q3 <= q2
    BY <1>1, <1>4, <1>5
  <2>2. B * q2 <= q1
    BY <1>1, <1>3, <1>4
  <2>3. B * q1 <= w
    BY <1>1, <1>2, <1>3
  <2>4. ASSUME q3 >= B PROVE FALSE
    <3>1. B * q3 >= B * B
      BY <1>1, <1>5, <2>4
    <3>2. q2 >= B * B
      BY <1>1, <1>4, <1>5, <2>1, <3>1
    <3>3. B * q2 >= B * (B * B)
      BY <1>1, <1>4, <3>2
    <3>4. q1 >= B * (B * B)
      BY <1>1, <1>3, <1>4, <2>2, <3>3
    <3>5. B * q1 >= B * (B * (B * B))
      <4>1. B * (B * B) \in Int
        BY <1>1
      <4> QED
        BY <1>1, <1>3, <3>4, <4>1
    <3>6. B * (B * (B * B)) = W
      BY <1>1 DEF W
    <3> QED
      BY <1>1, <1>2, <1>3, <2>3, <3>5, <3>6
  <2> QED
    BY <1>1, <1>5, <2>4
<1>9. q3 % B = q3
  BY <1>1, <1>8
<1>10. /\ Bytes(w)[0] = w % B /\ Bytes(w)[1] = q1 % B
       /\ Bytes(w)[2] = q2 % B /\ Bytes(w)[3] = q3
  BY <1>6, <1>7, <1>9 DEF Bytes
<1> HIDE DEF q1, q2, q3
<1> QED
  BY <1>3, <1>4, <1>5, <1>10 DEF FromBytes

----------------------------------------------------------------------------
(* Extremal elements of sets of numbers.                                   *)

\* A set of numbers that is not empty has a least element.
LEMMA LeastElement ==
  ASSUME NEW S \in SUBSET Nat, S # {}
  PROVE  \E x \in S : \A y \in S : x <= y
<1> DEFINE Less == {ss \in Nat \X Nat : ss[1] < ss[2]}
<1>1. IsWellFoundedOn(Less, Nat)
  BY NatLessThanWellFounded, Zenon DEF OpToRel
<1>2. \E x \in S : \A y \in S : ~(<<y, x>> \in Less)
  <2> HIDE DEF Less
  <2> QED
    BY <1>1, WFMin, Zenon
<1>3. PICK x \in S : \A y \in S : ~(<<y, x>> \in Less)
  BY <1>2
<1>4. ASSUME NEW y \in S, y < x PROVE FALSE
  <2>1. <<y, x>> \in Nat \X Nat /\ <<y, x>>[1] < <<y, x>>[2]
    BY <1>4
  <2> QED
    BY <1>3, <2>1
<1> QED
  BY <1>4

\* A bounded one has a greatest element.
LEMMA GreatestElement ==
  ASSUME NEW n \in Nat, NEW S \in SUBSET (0 .. n), S # {}
  PROVE  \E x \in S : \A y \in S : y <= x
<1> DEFINE D == {n - y : y \in S}
<1>1. D \in SUBSET Nat
  <2>1. \A y \in S : n - y \in Nat
    OBVIOUS
  <2> QED
    BY <2>1
<1>2. PICK d \in D : \A e \in D : d <= e
  <2>1. D # {}
    OBVIOUS
  <2> HIDE DEF D
  <2> QED
    BY <1>1, <2>1, LeastElement
<1>3. PICK x \in S : d = n - x
  BY <1>2
<1>4. \A y \in S : n - x <= n - y
  BY <1>2, <1>3
<1> QED
  BY <1>4

\* The bytes that the partial loads and stores leave in a word.
LEMMA PartialBytes ==
  ASSUME NEW s \in 0 .. 3, NEW w \in Word, NEW v \in Word
  PROVE  \A k \in 0 .. 3 :
    /\ Bytes(LoadResult("LWL", s, w, v))[k] =
         IF k >= 3 - s THEN Bytes(w)[k - (3 - s)] ELSE Bytes(v)[k]
    /\ Bytes(LoadResult("LWR", s, w, v))[k] =
         IF k < 4 - s THEN Bytes(w)[k + s] ELSE Bytes(v)[k]
    /\ Bytes(StoreResult("SWL", s, w, v))[k] =
         IF k > s THEN Bytes(w)[k] ELSE Bytes(v)[k + (3 - s)]
    /\ Bytes(StoreResult("SWR", s, w, v))[k] =
         IF k < s THEN Bytes(w)[k] ELSE Bytes(v)[k - s]
<1> DEFINE b == Bytes(w)
           o == Bytes(v)
           lwl == [k \in 0 .. 3 |-> IF k >= 3 - s THEN b[k - (3 - s)] ELSE o[k]]
           lwr == [k \in 0 .. 3 |-> IF k < 4 - s THEN b[k + s] ELSE o[k]]
           swl == [k \in 0 .. 3 |-> IF k > s THEN b[k] ELSE o[k + (3 - s)]]
           swr == [k \in 0 .. 3 |-> IF k < s THEN b[k] ELSE o[k - s]]
<1>1. b \in [0 .. 3 -> Byte] /\ o \in [0 .. 3 -> Byte]
  BY BytesType
<1>2. /\ LoadResult("LWL", s, w, v) = FromBytes(lwl)
      /\ LoadResult("LWR", s, w, v) = FromBytes(lwr)
      /\ StoreResult("SWL", s, w, v) = FromBytes(swl)
      /\ StoreResult("SWR", s, w, v) = FromBytes(swr)
  BY DEF LoadResult, StoreResult, MergeLeft
<1> HIDE DEF b, o
<1>3. /\ lwl \in [0 .. 3 -> Byte] /\ lwr \in [0 .. 3 -> Byte]
      /\ swl \in [0 .. 3 -> Byte] /\ swr \in [0 .. 3 -> Byte]
  <2>1. \A k \in 0 .. 3 :
          /\ k >= 3 - s => k - (3 - s) \in 0 .. 3
          /\ k < 4 - s => k + s \in 0 .. 3
          /\ ~(k > s) => k + (3 - s) \in 0 .. 3
          /\ ~(k < s) => k - s \in 0 .. 3
    OBVIOUS
  <2> QED
    BY <1>1, <2>1
<1> HIDE DEF lwl, lwr, swl, swr
<1>4. /\ Bytes(FromBytes(lwl)) = lwl /\ Bytes(FromBytes(lwr)) = lwr
      /\ Bytes(FromBytes(swl)) = swl /\ Bytes(FromBytes(swr)) = swr
  BY <1>3, BytesOfFromBytes
<1> QED
  BY <1>2, <1>4 DEF lwl, lwr, swl, swr, b, o
============================================================================
