-------------------------- MODULE FetchPathProofs --------------------------
(***************************************************************************)
(* The cipher and the decoder, proved for every key, number of rounds,     *)
(* word size and instruction.                                              *)
(***************************************************************************)
EXTENDS FetchPath, WordLemmas

----------------------------------------------------------------------------
(* The decoder.                                                            *)

\* The enumeration gives every opcode one number, in its group.
LEMMA EnumFacts ==
  /\ \A e \in Enum : /\ e = <<e[1], e[2]>> /\ e[2] \in 0 .. 159
                     /\ e[2] = 0 => e[1] = "SPECIAL"
                     /\ e[2] = 1 => e[1] = "REGIMM"
  /\ \A e, f \in Enum : e[1] = f[1] => e[2] = f[2]
  /\ \A e, f \in Enum : e[2] = f[2] => e[1] = f[1]
<1>1. \A e \in Enum : /\ e = <<e[1], e[2]>> /\ e[2] \in 0 .. 159
                      /\ e[2] = 0 => e[1] = "SPECIAL"
                      /\ e[2] = 1 => e[1] = "REGIMM"
  BY DEF Enum
<1>2. \A e, f \in Enum : e[1] = f[1] => e[2] = f[2]
  BY DEF Enum
<1>3. \A e, f \in Enum : e[2] = f[2] => e[1] = f[1]
  BY DEF Enum
<1> QED
  BY <1>1, <1>2, <1>3

\* The list is what the engine dispatches and the two group codes.
LEMMA ListFacts ==
  Gopcode_list = Opcodes \cup {"SPECIAL", "REGIMM"}
BY DEF Gopcode_list, Opcodes, JumpOps, BranchOps, AluiOps, Alu3Ops, LoadOps, StoreOps,
   DivMultOps, TrapOps

\* Every opcode of the list is in the enumeration.
LEMMA ListEnumerated == \A name \in Gopcode_list : \E e \in Enum : e[1] = name
BY DEF Gopcode_list, Enum

\* The number of an opcode of the list.
LEMMA CodeFacts ==
  ASSUME NEW name \in Gopcode_list
  PROVE  <<name, MIPS_I(name)>> \in Enum
<1> DEFINE e == CHOOSE f \in Enum : f[1] = name
<1>1. e \in Enum /\ e[1] = name
  BY ListEnumerated
<1>2. MIPS_I(name) = e[2]
  BY DEF MIPS_I
<1> HIDE DEF e
<1> QED
  BY <1>1, <1>2, EnumFacts

\* The numbers of the two groups, which are no instructions.
LEMMA GroupCodes == MIPS_I("SPECIAL") = 0 /\ MIPS_I("REGIMM") = 1
<1>1. <<"SPECIAL", 0>> \in Enum /\ <<"REGIMM", 1>> \in Enum
  BY DEF Enum
<1>2. "SPECIAL" \in Gopcode_list /\ "REGIMM" \in Gopcode_list
  BY DEF Gopcode_list
<1>3. /\ <<"SPECIAL", MIPS_I("SPECIAL")>> \in Enum
      /\ <<"REGIMM", MIPS_I("REGIMM")>> \in Enum
  BY <1>2, CodeFacts
<1> DEFINE s == MIPS_I("SPECIAL")
           g == MIPS_I("REGIMM")
<1> HIDE DEF s, g
<1>4. s = 0
  <2>1. <<"SPECIAL", s>>[1] = <<"SPECIAL", 0>>[1]
    OBVIOUS
  <2>2. <<"SPECIAL", s>>[2] = <<"SPECIAL", 0>>[2]
    BY <1>1, <1>3, <2>1, EnumFacts DEF s
  <2> QED
    BY <2>2
<1>5. g = 1
  <2>1. <<"REGIMM", g>>[1] = <<"REGIMM", 1>>[1]
    OBVIOUS
  <2>2. <<"REGIMM", g>>[2] = <<"REGIMM", 1>>[2]
    BY <1>1, <1>3, <2>1, EnumFacts DEF g
  <2> QED
    BY <2>2
<1> QED
  BY <1>4, <1>5 DEF s, g

\* No two opcodes have one number; those of instructions are not the groups'.
LEMMA CodesDiffer ==
  /\ \A n1, n2 \in Gopcode_list : MIPS_I(n1) = MIPS_I(n2) => n1 = n2
  /\ \A name \in Opcodes : MIPS_I(name) \in 2 .. 159
<1>1. ASSUME NEW n1 \in Gopcode_list, NEW n2 \in Gopcode_list,
             MIPS_I(n1) = MIPS_I(n2)
      PROVE  n1 = n2
  <2> DEFINE c == MIPS_I(n1)
  <2>1. <<n1, c>> \in Enum /\ <<n2, c>> \in Enum
    BY <1>1, CodeFacts
  <2> HIDE DEF c
  <2>2. <<n1, c>>[2] = <<n2, c>>[2]
    OBVIOUS
  <2>3. <<n1, c>>[1] = <<n2, c>>[1]
    BY <2>1, <2>2, EnumFacts
  <2> QED
    BY <2>3
<1>2. ASSUME NEW name \in Opcodes PROVE MIPS_I(name) \in 2 .. 159
  <2> DEFINE c == MIPS_I(name)
             e == <<name, c>>
  <2>1. e \in Enum
    BY ListFacts, CodeFacts
  <2> HIDE DEF c
  <2>2. e[1] = name /\ e[2] = c
    OBVIOUS
  <2>3. name # "SPECIAL" /\ name # "REGIMM"
    BY DEF Opcodes, JumpOps, BranchOps, AluiOps, Alu3Ops, LoadOps, StoreOps,
       DivMultOps, TrapOps
  <2> HIDE DEF e
  <2>4. c \in 0 .. 159 /\ c # 0 /\ c # 1
    BY <2>1, <2>2, <2>3, EnumFacts
  <2> QED
    BY <2>4 DEF c
<1> QED
  BY <1>1, <1>2

\* A word has the opcode of the instruction whose group and field it has.
LEMMA OpcodeEncodes ==
  ASSUME NEW w \in Fields, NEW name \in Opcodes
  PROVE  Encodes(w, name) <=> Opcode(w) = MIPS_I(name)
<1> DEFINE c == MIPS_I(name)
<1>1. c \in 2 .. 159
  BY CodesDiffer
<1>2. w.op \in 0 .. 63 /\ w.funct \in 0 .. 63 /\ w.rt \in 0 .. 31
  BY DEF Fields
<1>3. Opcode(w) = IF w.op = 0 THEN w.funct + 64
                  ELSE IF w.op = 1 THEN w.rt + 128 ELSE w.op
  BY GroupCodes DEF Opcode
<1>4. CASE c < 64
  <2>1. Encodes(w, name) <=> w.op = c
    BY <1>1, <1>4 DEF Encodes
  <2> HIDE DEF c
  <2>2. Encodes(w, name) <=> Opcode(w) = c
    BY <1>1, <1>2, <1>3, <1>4, <2>1
  <2> QED
    BY <2>2 DEF c
<1>5. CASE 64 <= c /\ c < 128
  <2>1. Encodes(w, name) <=> w.op = 0 /\ w.funct = c - 64
    BY <1>1, <1>5 DEF Encodes
  <2> HIDE DEF c
  <2>2. Encodes(w, name) <=> Opcode(w) = c
    BY <1>1, <1>2, <1>3, <1>5, <2>1
  <2> QED
    BY <2>2 DEF c
<1>6. CASE 128 <= c
  <2>1. Encodes(w, name) <=> w.op = 1 /\ w.rt = c - 128
    BY <1>1, <1>6 DEF Encodes
  <2> HIDE DEF c
  <2>2. Encodes(w, name) <=> Opcode(w) = c
    BY <1>1, <1>2, <1>3, <1>6, <2>1
  <2> QED
    BY <2>2 DEF c
<1> QED
  BY <1>1, <1>4, <1>5, <1>6

\* mips_decode never returns the number of a group.
LEMMA NoGroup ==
  ASSUME NEW w \in Fields
  PROVE  Opcode(w) # 0 /\ Opcode(w) # 1 /\ Opcode(w) # -1
<1>1. w.op \in 0 .. 63 /\ w.funct \in 0 .. 63 /\ w.rt \in 0 .. 31
  BY DEF Fields
<1>2. Opcode(w) = IF w.op = 0 THEN w.funct + 64
                  ELSE IF w.op = 1 THEN w.rt + 128 ELSE w.op
  BY GroupCodes DEF Opcode
<1> QED
  BY <1>1, <1>2

Codes == {MIPS_I(name) : name \in Gopcode_list}

\* What the decoder has returned is the opcode of the instruction, and listed.
DecodeInv ==
  /\ Gvalid_opcodes = {} \/ Gvalid_opcodes = Codes
  /\ insn \in Fields
  /\ opcode # -1 => opcode = Opcode(insn) /\ opcode \in Codes

\* The steps of the decoder keep it.
LEMMA DecodeStepInv == ASSUME DecodeInv, [DecodeNext]_dvars PROVE DecodeInv'
<1>1. CASE mips_init
  BY <1>1 DEF DecodeInv, mips_init, Codes
<1>2. CASE mips_decode
  <2>1. Gvalid_opcodes = Codes
    BY <1>2 DEF DecodeInv, mips_decode
  <2> HIDE DEF Codes
  <2> QED
    BY <1>2, <2>1 DEF DecodeInv, mips_decode
<1>3. CASE UNCHANGED dvars
  BY <1>3 DEF DecodeInv, dvars
<1> QED
  BY <1>1, <1>2, <1>3 DEF DecodeNext

\* The engine dispatches what the decoder has returned.
LEMMA DispatchedInv == DecodeInv => DecodedIsDispatched
<1> SUFFICES ASSUME DecodeInv, opcode # -1
             PROVE  \E name \in Opcodes : MIPS_I(name) = opcode
  BY DEF DecodedIsDispatched
<1>1. opcode = Opcode(insn) /\ insn \in Fields /\ opcode \in Codes
  BY DEF DecodeInv
<1>2. PICK name \in Gopcode_list : opcode = MIPS_I(name)
  BY <1>1 DEF Codes
<1>3. name # "SPECIAL" /\ name # "REGIMM"
  BY <1>1, <1>2, NoGroup, GroupCodes
<1> QED
  BY <1>2, <1>3, ListFacts

\* One call of mips_decode.
LEMMA DecodeStepExact ==
  ASSUME DecodeInv, mips_decode
  PROVE  LET encoded == {name \in Opcodes : Encodes(insn, name)}
         IN  IF encoded = {} THEN opcode' = -1
             ELSE \E name \in Opcodes : encoded = {name} /\ opcode' = MIPS_I(name)
<1> DEFINE encoded == {name \in Opcodes : Encodes(insn, name)}
           c == Opcode(insn)
<1>1. insn \in Fields /\ Gvalid_opcodes = Codes
  BY DEF DecodeInv, mips_decode
<1>2. opcode' = IF c \in Codes THEN c ELSE -1
  BY <1>1 DEF mips_decode
<1>3. encoded = {name \in Opcodes : MIPS_I(name) = c}
  BY <1>1, OpcodeEncodes
<1>4. Opcodes \subseteq Gopcode_list
  BY ListFacts
<1>5. c \in Codes => \E name \in Opcodes : MIPS_I(name) = c
  BY <1>1, NoGroup, GroupCodes, ListFacts DEF Codes
<1> HIDE DEF encoded, c
<1>6. CASE encoded = {}
  <2>1. c \notin Codes
    BY <1>3, <1>5, <1>6
  <2> QED
    BY <1>2, <1>6, <2>1 DEF encoded
<1>7. CASE encoded # {}
  <2>1. PICK name \in Opcodes : name \in encoded
    BY <1>3, <1>7
  <2>2. MIPS_I(name) = c
    BY <1>3, <2>1
  <2>3. encoded = {name}
    BY <1>3, <1>4, <2>1, <2>2, CodesDiffer
  <2>4. opcode' = c
    BY <1>2, <1>4, <2>2 DEF Codes
  <2> QED
    BY <1>7, <2>2, <2>3, <2>4 DEF encoded
<1> QED
  BY <1>6, <1>7

----------------------------------------------------------------------------
(* Half words.                                                             *)

\* The sizes of the cipher's words and arrays.
LEMMA Rc5Sizes ==
  /\ Half \in Nat /\ Half > 0 /\ W = Half * Half /\ WSZ \in Nat /\ WSZ > 0
  /\ R \in Nat /\ T \in Nat /\ T = 2 * R + 2
  /\ KEYLEN \in Nat /\ KEYLEN > 0
  /\ LL \in Nat /\ LL > 0 /\ 2 * (LL - 1) < KEYLEN
BY Sizes, Rc5Assumption DEF T, LL

\* What is cut off to an RC5_WORD is one.
LEMMA TruncType == ASSUME NEW z \in Int PROVE Trunc(z) \in RC5_WORD
BY Rc5Sizes DEF Trunc, RC5_WORD

\* An addition is undone by the subtraction, both cut off.
LEMMA AddUndone ==
  ASSUME NEW x \in RC5_WORD, NEW s \in RC5_WORD
  PROVE  Trunc(Trunc(x + s) - s) = x
<1> DEFINE z == x + s
           q == z \div Half
<1>1. x \in 0 .. (Half - 1) /\ x \in Int /\ s \in Int /\ z \in Int
      /\ Half \in Nat /\ Half > 0
  BY Rc5Sizes DEF RC5_WORD
<1>2. q \in Int /\ z % Half = z - Half * q
  BY <1>1
<1> HIDE DEF q
<1>3. (z % Half) - s = x + Half * (0 - q)
  BY <1>1, <1>2
<1>4. (x + Half * (0 - q)) % Half = x
  <2>1. 0 - q \in Int
    BY <1>2
  <2> HIDE DEF z
  <2> QED
    BY <1>1, <2>1, DivMod
<1> QED
  BY <1>3, <1>4 DEF Trunc

\* A rotation swaps the two parts of a half word.
LEMMA Rotation ==
  ASSUME NEW p \in Nat, p > 0, NEW q \in Nat, q > 0, p * q = Half,
         NEW x \in RC5_WORD
  PROVE  /\ Trunc(x * p) + (x \div q) = (x \div q) + p * (x % q)
         /\ x \div q \in 0 .. (p - 1) /\ x % q \in 0 .. (q - 1)
         /\ x = (x % q) + q * (x \div q)
<1> DEFINE d == x \div q
           m == x % q
<1>1. x \in Nat /\ x < p * q /\ Half \in Nat /\ Half > 0
  BY Rc5Sizes DEF RC5_WORD
<1>2. d \in Nat /\ m \in 0 .. (q - 1) /\ x = m + q * d
  BY <1>1
<1> HIDE DEF d, m
<1>3. d < p
  <2>1. SUFFICES ASSUME d >= p PROVE FALSE
    BY <1>2
  <2>2. q * d >= q * p
    BY <1>2, <2>1
  <2>3. q * p = p * q
    OBVIOUS
  <2> QED
    BY <1>1, <1>2, <2>2, <2>3
<1>4. x * p = (p * m) + Half * d
  <2>1. x * p = (m * p) + (q * d) * p
    BY <1>2
  <2>2. (q * d) * p = (p * q) * d /\ m * p = p * m
    BY <1>2
  <2> QED
    BY <2>1, <2>2
<1>5. p * m \in 0 .. (Half - 1)
  <2>1. p * m <= p * (q - 1) /\ p * m >= 0
    BY <1>2
  <2>2. p * (q - 1) = p * q - p
    OBVIOUS
  <2>3. p * m \in Int
    BY <1>2
  <2> QED
    BY <1>1, <2>1, <2>2, <2>3
<1>6. Trunc(x * p) = p * m
  <2> DEFINE y == p * m
  <2>1. y \in 0 .. (Half - 1)
    BY <1>5
  <2> HIDE DEF y
  <2>2. (y + Half * d) % Half = y
    BY <1>1, <1>2, <2>1, DivMod
  <2> QED
    BY <1>4, <2>2 DEF y, Trunc
<1>7. p * m \in Int
  BY <1>2
<1>8. Trunc(x * p) + d = d + p * m
  BY <1>2, <1>6, <1>7
<1> QED
  BY <1>2, <1>3, <1>8 DEF d, m

\* The two amounts that a rotation shifts by.
LEMMA Shifts ==
  ASSUME NEW n \in RC5_WORD
  PROVE  /\ Pow[n % WSZ] \in Nat /\ Pow[n % WSZ] > 0
         /\ Pow[WSZ - (n % WSZ)] \in Nat /\ Pow[WSZ - (n % WSZ)] > 0
         /\ Pow[n % WSZ] * Pow[WSZ - (n % WSZ)] = Half
<1> DEFINE s == n % WSZ
<1>1. s \in 0 .. WSZ /\ WSZ - s \in 0 .. WSZ
  BY Rc5Sizes DEF RC5_WORD
<1> HIDE DEF s
<1>2. Pow[s] \in Nat \ {0} /\ Pow[WSZ - s] \in Nat \ {0} /\ Pow[s] * Pow[WSZ - s] = Half
  BY <1>1, PowAssumption
<1> QED
  BY <1>2 DEF s

\* ror is the inverse of rol.
LEMMA RotateUndone ==
  ASSUME NEW x \in RC5_WORD, NEW n \in RC5_WORD
  PROVE  rol(x, n) \in RC5_WORD /\ ror(rol(x, n), n) = x
<1> DEFINE p == Pow[n % WSZ]
           q == Pow[WSZ - (n % WSZ)]
           d == x \div q
           m == x % q
           y == d + p * m
<1>1. p \in Nat /\ p > 0 /\ q \in Nat /\ q > 0 /\ p * q = Half /\ q * p = Half
  BY Shifts
<1>2. rol(x, n) = Trunc(x * p) + (x \div q)
  BY DEF rol
<1>3. \A z : ror(z, n) = (z \div p) + Trunc(z * q)
  BY DEF ror
<1> HIDE DEF p, q
<1>4. /\ Trunc(x * p) + (x \div q) = y
      /\ d \in 0 .. (p - 1) /\ m \in 0 .. (q - 1) /\ x = m + q * d
  BY <1>1, Rotation
<1> HIDE DEF d, m
<1>5. y \in RC5_WORD
  <2>1. p * m <= p * (q - 1) /\ p * m >= 0 /\ p * m \in Int
    BY <1>1, <1>4
  <2>2. p * (q - 1) = p * q - p
    BY <1>1
  <2> QED
    BY <1>1, <1>4, <2>1, <2>2, Rc5Sizes DEF RC5_WORD
<1>6. y % p = d /\ y \div p = m
  BY <1>1, <1>4, DivMod
<1> HIDE DEF y
<1>7. Trunc(y * q) + (y \div p) = (y \div p) + q * (y % p)
  BY <1>1, <1>5, Rotation
<1>8. Trunc(y * q) \in Int /\ y \div p \in Int
  <2>1. y * q \in Int
    BY <1>1, <1>5, Rc5Sizes DEF RC5_WORD
  <2>2. Trunc(y * q) \in Int
    BY <2>1, TruncType DEF RC5_WORD
  <2> QED
    BY <1>4, <1>6, <2>2
<1>9. (y \div p) + Trunc(y * q) = x
  BY <1>4, <1>6, <1>7, <1>8
<1> QED
  BY <1>2, <1>3, <1>4, <1>5, <1>9

\* The two halves of a word.
LEMMA Halves ==
  ASSUME NEW w \in Word
  PROVE  Low(w) \in RC5_WORD /\ High(w) \in RC5_WORD /\ Low(w) + Half * High(w) = w
<1>1. w \in Nat /\ w < Half * Half /\ Half \in Nat /\ Half > 0
  BY WordInt, Rc5Sizes
<1> DEFINE l == Low(w)
           h == High(w)
<1>2. l \in 0 .. (Half - 1) /\ h \in Nat /\ l + Half * h = w
  BY <1>1 DEF Low, High
<1> HIDE DEF l, h
<1>3. h < Half
  <2>1. SUFFICES ASSUME h >= Half PROVE FALSE
    BY <1>1, <1>2
  <2>2. Half * h >= Half * Half
    BY <1>1, <1>2, <2>1
  <2> QED
    BY <1>1, <1>2, <2>2
<1>4. l \in RC5_WORD /\ h \in RC5_WORD
  BY <1>1, <1>2, <1>3 DEF RC5_WORD
<1> QED
  BY <1>2, <1>4 DEF l, h

----------------------------------------------------------------------------
(* The key.                                                                *)

\* sscanf finds the first character that is not blank, or the end.
LEMMA NonBlankFound ==
  ASSUME NEW t \in Seq(0 .. Other), NEW n \in 1 .. (Len(t) + 1)
  PROVE  NonBlank(t, n) \in n .. (Len(t) + 1)
<1> DEFINE Stops == {m \in n .. (Len(t) + 1) : m <= Len(t) => t[m] # Blank}
<1>1. Len(t) \in Nat
  OBVIOUS
<1>2. Len(t) + 1 \in Stops
  BY <1>1
<1>3. Stops \in SUBSET Nat /\ Stops # {}
  BY <1>1, <1>2
<1>4. PICK m \in Stops : \A x \in Stops : m <= x
  BY <1>3, LeastElement
<1>5. \A q \in n .. (m - 1) : t[q] = Blank
  <2> SUFFICES ASSUME NEW q \in n .. (m - 1), t[q] # Blank PROVE FALSE
    OBVIOUS
  <2>1. q \in Stops
    BY <1>1
  <2> QED
    BY <1>1, <1>4, <2>1
<1>6. \E x \in n .. (Len(t) + 1) :
        (x <= Len(t) => t[x] # Blank) /\ \A q \in n .. (x - 1) : t[q] = Blank
  BY <1>4, <1>5
<1> QED
  BY <1>6 DEF NonBlank

\* A byte of the key, once every one of them has a digit.
LEMMA KeyByteType ==
  ASSUME text \in Seq(0 .. Other), Converts(text), NEW n \in 0 .. (KEYLEN - 1)
  PROVE  KeyByte(n) \in Int
<1> DEFINE m == NonBlank(text, 2 * n + 1)
<1>1. Len(text) = 2 * KEYLEN /\ Digit(text, m)
  BY DEF Converts
<1>2. 2 * n + 1 \in 1 .. (Len(text) + 1)
  BY <1>1, Rc5Sizes
<1>3. m \in (2 * n + 1) .. (Len(text) + 1)
  BY <1>2, NonBlankFound
<1>4. Radix \in Nat /\ Other = Radix + 1
  BY Rc5Assumption DEF Other
<1> HIDE DEF m
<1>5. \A x \in 1 .. Len(text) : text[x] \in Int
  BY <1>4
<1>6. Len(text) \in Nat
  OBVIOUS
<1>7. m \in Nat /\ m >= 1 /\ m <= Len(text)
  BY <1>1, <1>2, <1>3, <1>6 DEF Digit
<1>8. text[m] \in Int
  BY <1>5, <1>6, <1>7
<1>9. Digit(text, m + 1) => text[m + 1] \in Int
  BY <1>5, <1>6, <1>7 DEF Digit
<1>10. KeyByte(n) = IF Digit(text, m + 1) THEN Radix * text[m] + text[m + 1]
                    ELSE text[m]
  BY DEF KeyByte, Scan2x, m
<1> QED
  BY <1>4, <1>8, <1>9, <1>10

----------------------------------------------------------------------------
(* The cipher.                                                             *)

\* The round n of the encryption.
Round(n, s) ==
  LET x == Trunc(rol(XorWord(s[1], s[2]), s[2]) + S[2 * n])
  IN  <<x, Trunc(rol(XorWord(s[2], x), x) + S[2 * n + 1])>>

\* The block before the first round.
Whitened == <<Trunc(Low(pt) + S[0]), Trunc(High(pt) + S[1])>>

\* X and Y before the round n, when they now are what they are before round c.
Before(c, n) == IF n < c THEN trail[n] ELSE <<X, Y>>

\* The trail is that of the encryption of pt, up to round c.
Traced(c) ==
  /\ Before(c, 1) = Whitened
  /\ \A n \in 1 .. (c - 1) : Round(n, trail[n]) = Before(c, n + 1)

CipherInv ==
  /\ Rc5TypeOK /\ pt \in Word
  /\ phase \in {"convert", "expand"} => text \in Seq(0 .. Other)
  /\ phase = "expand" => Converts(text)
  /\ phase = "mix" => i < T
  /\ phase = "encrypt" => 1 <= i /\ i <= R + 1 /\ Traced(i)
  /\ phase = "decrypt" => i <= R /\ Traced(i + 1)
  /\ DecryptRetraces /\ RoundTrip

\* One half of a round is undone by the same half of a round of the decryption.
LEMMA HalfUndone ==
  ASSUME NEW x \in RC5_WORD, NEW y \in RC5_WORD, NEW s \in RC5_WORD
  PROVE  LET z == Trunc(rol(XorWord(x, y), y) + s)
         IN  z \in RC5_WORD /\ XorWord(ror(Trunc(z - s), y), y) = x
<1> DEFINE w == XorWord(x, y)
           u == rol(w, y)
           z == Trunc(u + s)
<1>1. w \in RC5_WORD /\ XorWord(w, y) = x
  BY XorAssumption DEF XorWord
<1> HIDE DEF w
<1>2. u \in RC5_WORD /\ ror(u, y) = w
  BY <1>1, RotateUndone
<1> HIDE DEF u
<1>3. z \in RC5_WORD
  BY <1>2, TruncType, Rc5Sizes DEF RC5_WORD
<1>4. Trunc(z - s) = u
  BY <1>2, AddUndone
<1> HIDE DEF z
<1> QED
  BY <1>1, <1>2, <1>3, <1>4 DEF z, u, w

\* The key table has an entry for each half of each round.
LEMMA TableEntries ==
  ASSUME Rc5TypeOK
  PROVE  /\ S[0] \in RC5_WORD /\ S[1] \in RC5_WORD
         /\ \A n \in 1 .. R : S[2 * n] \in RC5_WORD /\ S[2 * n + 1] \in RC5_WORD
<1>1. S \in [0 .. (T - 1) -> RC5_WORD] /\ T = 2 * R + 2 /\ R \in Nat
  BY Rc5Sizes DEF Rc5TypeOK
<1>2. 0 \in 0 .. (T - 1) /\ 1 \in 0 .. (T - 1)
  BY <1>1
<1>3. \A n \in 1 .. R : 2 * n \in 0 .. (T - 1) /\ 2 * n + 1 \in 0 .. (T - 1)
  BY <1>1
<1> QED
  BY <1>1, <1>2, <1>3

\* The start of the program.
LEMMA CipherStartInv == Rc5Init \/ CipherRests => CipherInv
<1> SUFFICES ASSUME Rc5Init \/ CipherRests PROVE CipherInv
  OBVIOUS
<1>1. 0 \in RC5_WORD /\ 0 \in 0 .. (LL - 1) /\ 0 \in 0 .. T /\ 0 \in Word
  BY Rc5Sizes, Sizes DEF RC5_WORD, Word
<1>2. <<0, 0>> \in RC5_WORD \X RC5_WORD
  BY <1>1
<1>3. Rc5TypeOK
  BY <1>1, <1>2 DEF Rc5Init, CipherRests, Rc5TypeOK
<1>4. CASE Rc5Init
  <2>1. pt \in Word /\ text \in Seq(0 .. Other) /\ phase = "convert"
    BY <1>4, Rc5Assumption DEF Rc5Init
  <2> QED
    BY <1>3, <2>1 DEF CipherInv, DecryptRetraces, RoundTrip
<1>5. CASE CipherRests
  BY <1>1, <1>3, <1>5 DEF CipherRests, CipherInv, DecryptRetraces, RoundTrip
<1> QED
  BY <1>4, <1>5

\* The key is converted.
LEMMA ConvertInv == ASSUME CipherInv, rc5_convert_key PROVE CipherInv'
BY DEF CipherInv, rc5_convert_key, Rc5TypeOK, DecryptRetraces, RoundTrip, Converts,
   Digit, NonBlank

\* The arrays are filled.
LEMMA ExpandInv == ASSUME CipherInv, Expand PROVE CipherInv'
<1>1. /\ text \in Seq(0 .. Other) /\ Converts(text) /\ pt \in Word
      /\ UNCHANGED <<text, pt, trail>>
      /\ trail \in [1 .. R -> RC5_WORD \X RC5_WORD]
  BY DEF CipherInv, Expand, Rc5TypeOK
<1>2. B \in Int /\ P \in Int /\ Q \in Int
  BY Sizes, Rc5Sizes, Rc5Assumption DEF RC5_WORD
<1>3. ASSUME NEW n \in 0 .. (LL - 1)
      PROVE  Trunc(KeyByte(2 * n) + (IF 2 * n + 1 < KEYLEN THEN B * KeyByte(2 * n + 1)
                                     ELSE 0)) \in RC5_WORD
  <2>1. 2 * n \in 0 .. (KEYLEN - 1)
    BY Rc5Sizes
  <2>2. KeyByte(2 * n) \in Int
    BY <1>1, <2>1, KeyByteType
  <2>3. 2 * n + 1 < KEYLEN => KeyByte(2 * n + 1) \in Int
    <3>1. 2 * n + 1 < KEYLEN => 2 * n + 1 \in 0 .. (KEYLEN - 1)
      BY Rc5Sizes
    <3> QED
      BY <1>1, <3>1, KeyByteType
  <2>4. (IF 2 * n + 1 < KEYLEN THEN B * KeyByte(2 * n + 1) ELSE 0) \in Int
    BY <1>2, <2>3
  <2> QED
    BY <2>2, <2>4, TruncType
<1>4. \A n \in 0 .. (T - 1) : Trunc(P + n * Q) \in RC5_WORD
  BY <1>2, TruncType
<1>5. L' \in [0 .. (LL - 1) -> RC5_WORD] /\ S' \in [0 .. (T - 1) -> RC5_WORD]
  BY <1>3, <1>4 DEF Expand
<1>6. /\ X' \in RC5_WORD /\ Y' \in RC5_WORD /\ i' \in 0 .. T /\ i' < T
      /\ j' \in 0 .. (LL - 1) /\ k' \in Nat /\ phase' = "mix"
  BY Rc5Sizes DEF Expand, RC5_WORD
<1> QED
  BY <1>1, <1>5, <1>6 DEF CipherInv, Rc5TypeOK, DecryptRetraces, RoundTrip

\* The key is mixed in.
LEMMA MixInv == ASSUME CipherInv, Mix PROVE CipherInv'
<1>1. /\ S \in [0 .. (T - 1) -> RC5_WORD] /\ L \in [0 .. (LL - 1) -> RC5_WORD]
      /\ X \in RC5_WORD /\ Y \in RC5_WORD /\ i \in 0 .. T /\ i < T
      /\ j \in 0 .. (LL - 1) /\ k \in Nat /\ k > 0 /\ phase = "mix" /\ phase' = "mix"
      /\ trail \in [1 .. R -> RC5_WORD \X RC5_WORD] /\ pt \in Word
      /\ UNCHANGED <<pt, trail>>
  BY DEF CipherInv, Mix, Rc5TypeOK
<1>2. S[i] \in RC5_WORD /\ L[j] \in RC5_WORD
  BY <1>1, Rc5Sizes
<1>3. \A x, y, z \in RC5_WORD : Trunc(x + y + z) \in RC5_WORD /\ Trunc(x + y) \in RC5_WORD
  BY TruncType DEF RC5_WORD
<1>4. 3 \in RC5_WORD
  BY Sizes DEF RC5_WORD
<1>5. X' \in RC5_WORD
  <2>1. X' = rol(Trunc(S[i] + X + Y), 3)
    BY DEF Mix
  <2> QED
    BY <1>1, <1>2, <1>3, <1>4, <2>1, RotateUndone
<1>6. Y' \in RC5_WORD
  <2>1. Y' = rol(Trunc(L[j] + X' + Y), Trunc(X' + Y))
    BY DEF Mix
  <2>2. Trunc(L[j] + X' + Y) \in RC5_WORD /\ Trunc(X' + Y) \in RC5_WORD
    BY <1>1, <1>2, <1>3, <1>5
  <2> QED
    BY <2>1, <2>2, RotateUndone
<1>7. S' \in [0 .. (T - 1) -> RC5_WORD] /\ L' \in [0 .. (LL - 1) -> RC5_WORD]
  BY <1>1, <1>5, <1>6 DEF Mix
<1>8. i' \in 0 .. T /\ i' < T /\ j' \in 0 .. (LL - 1) /\ k' \in Nat
  BY <1>1, Rc5Sizes DEF Mix
<1> QED
  BY <1>1, <1>5, <1>6, <1>7, <1>8 DEF CipherInv, Rc5TypeOK, DecryptRetraces, RoundTrip

\* What the phases of one block leave alone.
LEMMA BlockTypes ==
  ASSUME CipherInv
  PROVE  /\ S \in [0 .. (T - 1) -> RC5_WORD] /\ L \in [0 .. (LL - 1) -> RC5_WORD]
         /\ X \in RC5_WORD /\ Y \in RC5_WORD /\ i \in Nat
         /\ j \in 0 .. (LL - 1) /\ k \in Nat /\ pt \in Word
         /\ trail \in [1 .. R -> RC5_WORD \X RC5_WORD]
         /\ T = 2 * R + 2 /\ R \in Nat
BY Rc5Sizes DEF CipherInv, Rc5TypeOK

\* The block is read.
LEMMA EncryptInv == ASSUME CipherInv, Encrypt PROVE CipherInv'
<1>1. /\ phase' = "encrypt" /\ i' = 1 /\ <<X', Y'>> = Whitened
      /\ UNCHANGED <<S, L, j, k, pt, trail>>
  BY DEF Encrypt, Whitened
<1>2. X' \in RC5_WORD /\ Y' \in RC5_WORD
  <2>1. \A x, y \in RC5_WORD : Trunc(x + y) \in RC5_WORD
    BY TruncType, Rc5Sizes DEF RC5_WORD
  <2> QED
    BY <1>1, <2>1, BlockTypes, Halves, TableEntries DEF Encrypt, CipherInv
<1>3. Rc5TypeOK'
  BY <1>1, <1>2, BlockTypes DEF Rc5TypeOK
<1>4. Traced(1)'
  <2>1. Whitened' = Whitened /\ Before(1, 1)' = <<X', Y'>>
    BY <1>1 DEF Whitened, Before
  <2> QED
    BY <1>1, <2>1 DEF Traced
<1> QED
  BY <1>1, <1>3, <1>4, BlockTypes DEF CipherInv, DecryptRetraces, RoundTrip

\* A round of the encryption.
LEMMA EncryptRoundInv == ASSUME CipherInv, EncryptRound PROVE CipherInv'
<1>1. PICK c \in 1 .. R : c = i
  BY BlockTypes DEF EncryptRound, CipherInv
<1>2. /\ phase = "encrypt" /\ phase' = "encrypt" /\ i' = c + 1
      /\ trail' = [trail EXCEPT ![c] = <<X, Y>>] /\ Traced(c)
      /\ UNCHANGED <<S, L, j, k, pt>>
  BY <1>1 DEF EncryptRound, CipherInv
<1>3. <<X', Y'>> = Round(c, <<X, Y>>)
  BY <1>1 DEF EncryptRound, Round
<1>4. X' \in RC5_WORD /\ Y' \in RC5_WORD
  <2>1. S[2 * i] \in RC5_WORD /\ S[2 * i + 1] \in RC5_WORD
    BY <1>1, TableEntries DEF CipherInv
  <2>2. X' \in RC5_WORD
    BY <2>1, BlockTypes, HalfUndone DEF EncryptRound
  <2> QED
    BY <2>1, <2>2, BlockTypes, HalfUndone DEF EncryptRound
<1>5. trail' \in [1 .. R -> RC5_WORD \X RC5_WORD]
  BY <1>1, <1>2, BlockTypes
<1>6. Rc5TypeOK'
  BY <1>1, <1>2, <1>4, <1>5, BlockTypes DEF Rc5TypeOK
<1>7. \A n \in 1 .. c : trail'[n] = Before(c, n)
  BY <1>2, BlockTypes DEF Before
<1>8. \A n \in 1 .. c : Before(c + 1, n)' = Before(c, n)
  BY <1>7 DEF Before
<1>9. Before(c + 1, c + 1)' = Round(c, <<X, Y>>)
  BY <1>1, <1>3 DEF Before
<1>10. ASSUME NEW n \in 1 .. c
       PROVE  Round(n, trail[n])' = Before(c + 1, n + 1)'
  <2>1. Round(n, trail[n])' = Round(n, trail'[n])
    BY <1>2 DEF Round
  <2>2. CASE n = c
    <3>1. trail'[n] = <<X, Y>>
      BY <1>7, <2>2 DEF Before
    <3> QED
      BY <1>9, <2>1, <2>2, <3>1
  <2>3. CASE n < c
    <3>1. n \in 1 .. (c - 1) /\ n + 1 \in 1 .. c
      BY <1>1, <2>3
    <3>2. Round(n, trail[n]) = Before(c, n + 1) /\ trail'[n] = trail[n]
      BY <1>2, <1>7, <2>3, <3>1 DEF Traced, Before
    <3> QED
      BY <1>8, <2>1, <3>1, <3>2
  <2> QED
    BY <1>1, <2>2, <2>3
<1>11. Traced(c + 1)'
  <2>1. Before(c + 1, 1)' = Whitened'
    BY <1>1, <1>2, <1>8 DEF Traced, Whitened
  <2>2. (c + 1) - 1 = c
    BY <1>1
  <2> QED
    BY <1>10, <2>1, <2>2 DEF Traced
<1>12. Traced(i)'
  BY <1>2, <1>11 DEF Traced, Before
<1> QED
  BY <1>1, <1>2, <1>6, <1>12, BlockTypes DEF CipherInv, DecryptRetraces, RoundTrip

\* The decryption starts where the encryption has ended.
LEMMA DecryptInv == ASSUME CipherInv, Decrypt PROVE CipherInv'
<1>1. /\ phase' = "decrypt" /\ i = R + 1 /\ i' = R /\ Traced(R + 1)
      /\ UNCHANGED <<S, L, X, Y, j, k, pt, trail>>
  BY BlockTypes DEF Decrypt, CipherInv
<1>2. Rc5TypeOK'
  BY <1>1, BlockTypes DEF Rc5TypeOK
<1>3. Traced(R + 1)'
  BY <1>1 DEF Traced, Before, Whitened, Round
<1> QED
  BY <1>1, <1>2, <1>3, BlockTypes DEF CipherInv, DecryptRetraces, RoundTrip

\* A round of the decryption.
LEMMA DecryptRoundInv == ASSUME CipherInv, DecryptRound PROVE CipherInv'
<1>1. PICK c \in 1 .. R : c = i
  BY BlockTypes DEF DecryptRound, CipherInv
<1>2. /\ phase = "decrypt" /\ phase' = "decrypt" /\ i' = c - 1
      /\ Traced(c + 1) /\ UNCHANGED <<S, L, j, k, pt, trail>>
  BY <1>1 DEF DecryptRound, CipherInv
<1>3. PICK x \in RC5_WORD, y \in RC5_WORD : trail[c] = <<x, y>>
  BY <1>1, BlockTypes
<1>4. <<X, Y>> = Round(c, <<x, y>>)
  <2>1. c \in 1 .. ((c + 1) - 1) /\ ~(c + 1 < c + 1)
    BY <1>1
  <2>2. Round(c, trail[c]) = Before(c + 1, c + 1)
    BY <1>2, <2>1 DEF Traced
  <2> QED
    BY <1>3, <2>1, <2>2 DEF Before
<1>5. S[2 * i] \in RC5_WORD /\ S[2 * i + 1] \in RC5_WORD
  BY <1>1, TableEntries DEF CipherInv
<1>6. /\ X = Trunc(rol(XorWord(x, y), y) + S[2 * i])
      /\ Y = Trunc(rol(XorWord(y, X), X) + S[2 * i + 1])
  BY <1>1, <1>4 DEF Round
<1>7. Y' = y
  BY <1>5, <1>6, BlockTypes, HalfUndone DEF DecryptRound
<1>8. X' = x
  BY <1>5, <1>6, <1>7, HalfUndone DEF DecryptRound
<1>9. <<X', Y'>> = trail[c]
  BY <1>3, <1>7, <1>8
<1>10. Rc5TypeOK'
  BY <1>1, <1>2, <1>7, <1>8, BlockTypes DEF Rc5TypeOK
<1>11. \A n \in 1 .. c : Before(c, n)' = Before(c + 1, n)
  <2>1. ASSUME NEW n \in 1 .. c PROVE Before(c, n)' = trail[n]
    <3>1. n < c \/ n = c
      BY <1>1
    <3> QED
      BY <1>2, <1>9, <3>1 DEF Before
  <2>2. ASSUME NEW n \in 1 .. c PROVE Before(c + 1, n) = trail[n]
    BY <1>1 DEF Before
  <2> QED
    BY <2>1, <2>2
<1>12. Traced(c)'
  <2>1. Before(c, 1)' = Whitened'
    BY <1>1, <1>2, <1>11 DEF Traced, Whitened
  <2>2. ASSUME NEW n \in 1 .. (c - 1)
        PROVE  Round(n, trail[n])' = Before(c, n + 1)'
    <3>1. n \in 1 .. ((c + 1) - 1) /\ n + 1 \in 1 .. c
      BY <1>1
    <3>2. Round(n, trail[n]) = Before(c + 1, n + 1)
      BY <1>2, <3>1 DEF Traced
    <3>3. Round(n, trail[n])' = Round(n, trail[n])
      BY <1>2 DEF Round
    <3> QED
      BY <1>11, <3>1, <3>2, <3>3
  <2> QED
    BY <2>1, <2>2 DEF Traced
<1>13. i' + 1 = c
  BY <1>1, <1>2
<1>14. Traced(i + 1)'
  BY <1>12, <1>13 DEF Traced, Before
<1>15. DecryptRetraces'
  BY <1>2, <1>9, <1>13 DEF DecryptRetraces
<1> QED
  BY <1>1, <1>2, <1>10, <1>14, <1>15, BlockTypes DEF CipherInv, RoundTrip

\* The block is decrypted.
LEMMA DecryptEndInv == ASSUME CipherInv, DecryptEnd PROVE CipherInv'
<1>1. /\ phase = "decrypt" /\ phase' = "compare" /\ i = 0 /\ Traced(0 + 1)
      /\ UNCHANGED <<S, L, i, j, k, pt, trail>>
      /\ X' = Trunc(X - S[0]) /\ Y' = Trunc(Y - S[1])
  BY DEF DecryptEnd, CipherInv
<1>2. X = Trunc(Low(pt) + S[0]) /\ Y = Trunc(High(pt) + S[1])
  BY <1>1 DEF Traced, Before, Whitened
<1>3. /\ Low(pt) \in RC5_WORD /\ High(pt) \in RC5_WORD
      /\ Low(pt) + Half * High(pt) = pt
  BY BlockTypes, Halves
<1>4. X' = Low(pt) /\ Y' = High(pt)
  BY <1>1, <1>2, <1>3, AddUndone, TableEntries DEF CipherInv
<1>5. Rc5TypeOK'
  BY <1>1, <1>3, <1>4, BlockTypes DEF Rc5TypeOK, CipherInv
<1> QED
  BY <1>1, <1>3, <1>4, <1>5, BlockTypes DEF CipherInv, DecryptRetraces, RoundTrip

----------------------------------------------------------------------------
(* The two of them.                                                        *)

\* A step of the cipher, or none.
LEMMA CipherStepInv == ASSUME CipherInv, [Rc5Next]_rvars PROVE CipherInv'
<1>1. CASE UNCHANGED rvars
  BY <1>1 DEF rvars, CipherInv, Rc5TypeOK, Converts, Digit, NonBlank, Traced, Before,
     Whitened, Round, DecryptRetraces, RoundTrip
<1> QED
  BY <1>1, ConvertInv, ExpandInv, MixInv, EncryptInv, EncryptRoundInv, DecryptInv,
     DecryptRoundInv, DecryptEndInv DEF Rc5Next, Compared

FetchInv == CipherInv /\ DecodeInv

\* The invariants of the cipher and of the decoder hold on the fetch path.
THEOREM FetchInductive == FetchSpec => []FetchInv
<1>1. FetchInit => FetchInv
  <2>1. DecoderRests \/ DecodeInit => DecodeInv
    BY InsnWordsAssumption DEF DecoderRests, DecodeInit, DecodeInv, Fields
  <2> QED
    BY <2>1, CipherStartInv DEF FetchInit, FetchInv
<1>2. FetchInv /\ [FetchNext]_fvars => FetchInv'
  BY CipherStepInv, DecodeStepInv DEF FetchNext, fvars, FetchInv
<1> QED
  BY <1>1, <1>2, PTL DEF FetchSpec

\* The cipher's variables stay within RC5_WORD and its counters within its arrays,
\* for every key that converts.
THEOREM CipherTypeCorrect == FetchSpec => []Rc5TypeOK
<1>1. FetchInv => Rc5TypeOK
  BY DEF FetchInv, CipherInv
<1> QED
  BY <1>1, FetchInductive, PTL

\* The decryption goes back through the states of the encryption.
THEOREM DecryptionRetraces == FetchSpec => []DecryptRetraces
<1>1. FetchInv => DecryptRetraces
  BY DEF FetchInv, CipherInv
<1> QED
  BY <1>1, FetchInductive, PTL

\* rc5_ecb_decrypt is the inverse of rc5_ecb_encrypt, for every number of rounds,
\* every key and every word.
THEOREM CipherRoundTrip == FetchSpec => []RoundTrip
<1>1. FetchInv => RoundTrip
  BY DEF FetchInv, CipherInv
<1> QED
  BY <1>1, FetchInductive, PTL

\* The engine has a handler for whatever mips_decode accepts.
THEOREM DecodedDispatched == FetchSpec => []DecodedIsDispatched
<1>1. FetchInv => DecodedIsDispatched
  BY DispatchedInv DEF FetchInv
<1> QED
  BY <1>1, FetchInductive, PTL

\* mips_decode recognises each instruction the engine implements, by its group and
\* its field, and nothing else.
THEOREM DecodingExact == FetchSpec => DecodeIsExact
<1> DEFINE Exact == mips_decode =>
                      LET encoded == {name \in Opcodes : Encodes(insn, name)}
                      IN  IF encoded = {} THEN opcode' = -1
                          ELSE \E name \in Opcodes :
                                 encoded = {name} /\ opcode' = MIPS_I(name)
<1>1. FetchInv /\ [FetchNext]_fvars => [Exact]_dvars
  <2> SUFFICES ASSUME FetchInv PROVE Exact
    OBVIOUS
  <2> QED
    BY DecodeStepExact DEF FetchInv
<1> QED
  BY <1>1, FetchInductive, PTL DEF FetchSpec, DecodeIsExact
============================================================================
