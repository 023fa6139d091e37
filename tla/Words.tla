------------------------------- MODULE Words -------------------------------
(***************************************************************************)
(* The fixed-width integers of the simulator (types.h) and what the        *)
(* instructions compute from them (cpuemu.c), as pure operators.           *)
(*                                                                         *)
(* A byte has B values (256 in the code) and a word four bytes.  A         *)
(* register or memory cell holds a mips_uword, an element of Word; Signed  *)
(* is the view of it through the union's mips_sword member.                *)
(***************************************************************************)
EXTENDS Integers

CONSTANTS
  B,              \* how many values a byte has: 256
  WordBits,       \* how many bits a word has: 32
  JRegion,        \* granularity of the address bits J and JAL keep: 2^27
  Regs,           \* the general purpose registers, a subset of 0..31
  BitOp(_, _, _)  \* BitOp(o, x, y): the bitwise operators and shifts of C

RA == 31   \* the link register

LogicOps == {"AND", "OR", "XOR", "NOR"}
ShiftOps == {"SLL", "SRL", "SRA"}

W == B * B * B * B
Half == B * B
Byte == 0 .. (B - 1)
Word == 0 .. (W - 1)

ASSUME ByteAssumption == B \in Nat /\ B >= 2

ASSUME WordBitsAssumption == WordBits \in Nat \ {0}

ASSUME JRegionAssumption == JRegion \in Nat \ {0} /\ 4 * JRegion <= W

ASSUME RegsAssumption == Regs \subseteq 0 .. 31 /\ {0, RA} \subseteq Regs

ASSUME BitOpAssumption ==
  \A x \in Word :
    /\ \A o \in LogicOps : \A y \in Word : BitOp(o, x, y) \in Word
    /\ \A o \in ShiftOps : \A n \in 0 .. (WordBits - 1) : BitOp(o, x, n) \in Word

----------------------------------------------------------------------------
(* Conversions between the widths and between signed and unsigned.         *)

Unsigned(z) == z % W

\* (mips_sbyte)v, (mips_shalf)v and (mips_sword)v for a width of n values.
SExt(v, n) == IF 2 * v >= n THEN v - n ELSE v

Signed(x) == SExt(x, W)

Flag(b) == IF b THEN 1 ELSE 0

\* A word is stored little-endian; Bytes(w)[0] is the byte at its address.
Bytes(w) == [k \in 0 .. 3 |->
               CASE k = 0 -> w % B
                 [] k = 1 -> (w \div B) % B
                 [] k = 2 -> (w \div Half) % B
                 [] k = 3 -> (w \div (Half * B)) % B]

FromBytes(b) == b[0] + B * (b[1] + B * (b[2] + B * b[3]))

----------------------------------------------------------------------------
(* Instructions.  mips_decode and the field macros are abstracted to a     *)
(* record per instruction word: the opcode ("NONE" when mips_decode        *)
(* returns -1) and the fields it may have.                                 *)

JumpOps   == {"J", "JAL", "JR", "JALR"}
BranchOps == {"BEQ", "BNE", "BLEZ", "BGTZ", "BLTZ", "BGEZ", "BLTZAL", "BGEZAL"}
AluiOps   == {"ADDI", "ADDIU", "SLTI", "SLTIU", "ANDI", "ORI", "XORI"}
Alu3Ops   == {"SLL", "SRL", "SRA", "SLLV", "SRLV", "SRAV", "ADD", "ADDU",
              "SUB", "SUBU", "AND", "OR", "XOR", "NOR", "SLT", "SLTU"}
LoadOps   == {"LB", "LBU", "LH", "LHU", "LW", "LWL", "LWR"}
StoreOps  == {"SB", "SH", "SW", "SWL", "SWR"}
DivMultOps == {"MULT", "MULTU", "DIV", "DIVU", "MFHI", "MTHI", "MFLO", "MTLO"}
TrapOps   == {"SYSCALL", "BREAK"}

Opcodes == JumpOps \cup BranchOps \cup AluiOps \cup Alu3Ops \cup LoadOps
             \cup StoreOps \cup DivMultOps \cup TrapOps \cup {"LUI"}

Insns == [op : Opcodes \cup {"NONE"}, rs : Regs, rt : Regs, rd : Regs,
          sa : 0 .. (WordBits - 1), imm : 0 .. (Half - 1),
          target : 0 .. ((JRegion \div 2) - 1), code : Nat]

uIMM(i) == Unsigned(SExt(i.imm, Half))
sIMM(i) == SExt(i.imm, Half)
zIMM(i) == i.imm

(***************************************************************************)
(* The encodings that decode but have a field the instruction requires to  *)
(* be zero: do_jump, do_branch, do_loadstore, do_alu3 and do_divmult throw *)
(* MIPS_E_INVALID for them before they touch any register.                 *)
(***************************************************************************)
Malformed(i) ==
  \/ i.op \in {"JALR", "BLEZ", "BGTZ"} /\ i.rt # 0
  \/ i.op \in {"JR", "MTHI", "MTLO"} /\ (i.rt # 0 \/ i.rd # 0 \/ i.sa # 0)
  \/ i.op \in {"LUI", "SLL", "SRL", "SRA"} /\ i.rs # 0
  \/ i.op \in Alu3Ops \ {"SLL", "SRL", "SRA"} /\ i.sa # 0
  \/ i.op \in {"MULT", "MULTU", "DIV", "DIVU"} /\ (i.rd # 0 \/ i.sa # 0)
  \/ i.op \in {"MFHI", "MFLO"} /\ (i.rs # 0 \/ i.rt # 0 \/ i.sa # 0)

----------------------------------------------------------------------------
(* Control transfer.                                                       *)

\* (nds & 0xF8000000) | ((insn & 0x03FFFFFF) << 2)
JumpTarget(nds, target) ==
  LET region == nds - (nds % JRegion)
      low    == 4 * target
      shared == low >= JRegion /\ (region \div JRegion) % 2 = 1
  IN  Unsigned(region + low - (IF shared THEN JRegion ELSE 0))

BranchTarget(nds, i) == Unsigned(nds + 4 * sIMM(i))

BranchTaken(op, x, y) ==
  CASE op = "BEQ"                 -> x = y
    [] op = "BNE"                 -> x # y
    [] op = "BLEZ"                -> Signed(x) <= 0
    [] op = "BGTZ"                -> Signed(x) > 0
    [] op \in {"BLTZ", "BLTZAL"}  -> Signed(x) < 0
    [] op \in {"BGEZ", "BGEZAL"}  -> Signed(x) >= 0

----------------------------------------------------------------------------
(* Arithmetic and logic.  x and y are the values of rs and rt.             *)

Overflows(z) == 2 * z < -W \/ 2 * z >= W

\* The wide sum whose range add_ovf and sub_ovf check.
WideSum(i, x, y) ==
  CASE i.op = "ADDI" -> Signed(x) + sIMM(i)
    [] i.op = "ADD"  -> Signed(x) + Signed(y)
    [] i.op = "SUB"  -> Signed(x) - Signed(y)
    [] OTHER         -> 0

\* Mutant: the sum keeps its carry.
AluiResult_carry(i, x) ==
  IF i.op = "ADDIU" THEN x + uIMM(i) ELSE Unsigned(x + uIMM(i))

AluiResult(i, x) ==
  CASE i.op \in {"ADDI", "ADDIU"} -> Unsigned(x + uIMM(i))
    [] i.op = "SLTI"  -> Flag(Signed(x) < sIMM(i))
    [] i.op = "SLTIU" -> Flag(x < uIMM(i))
    [] i.op = "ANDI"  -> BitOp("AND", x, zIMM(i))
    [] i.op = "ORI"   -> BitOp("OR", x, zIMM(i))
    [] i.op = "XORI"  -> BitOp("XOR", x, zIMM(i))

Alu3Result(i, x, y) ==
  CASE i.op = "SLL"  -> BitOp("SLL", y, i.sa)
    [] i.op = "SRL"  -> BitOp("SRL", y, i.sa)
    [] i.op = "SRA"  -> BitOp("SRA", y, i.sa)
    [] i.op = "SLLV" -> BitOp("SLL", y, x % WordBits)
    [] i.op = "SRLV" -> BitOp("SRL", y, x % WordBits)
    [] i.op = "SRAV" -> BitOp("SRA", y, x % WordBits)
    [] i.op \in {"ADD", "ADDU"} -> Unsigned(x + y)
    [] i.op \in {"SUB", "SUBU"} -> Unsigned(x - y)
    [] i.op \in {"AND", "OR", "XOR", "NOR"} -> BitOp(i.op, x, y)
    [] i.op = "SLT"  -> Flag(Signed(x) < Signed(y))
    [] i.op = "SLTU" -> Flag(x < y)

LuiResult(i) == Unsigned(zIMM(i) * Half)

\* The division of C truncates towards zero.
Magnitude(z) == IF z < 0 THEN -z ELSE z
Quotient(x, y) == LET q == Magnitude(x) \div Magnitude(y)
                  IN  IF (x < 0) = (y < 0) THEN q ELSE -q
Remainder(x, y) == x - y * Quotient(x, y)

\* hi and lo after MULT, MULTU, DIV, DIVU, MTHI and MTLO.
Product(z) == [hi |-> Unsigned(z \div W), lo |-> Unsigned(z)]

Division(x, y) ==
  IF y = 0 THEN [hi |-> W - 1, lo |-> W - 1]
  ELSE [hi |-> Unsigned(Remainder(x, y)), lo |-> Unsigned(Quotient(x, y))]

DivMultResult(op, x, y, hi, lo) ==
  CASE op = "MULT"  -> Product(Signed(x) * Signed(y))
    [] op = "MULTU" -> Product(x * y)
    [] op = "DIV"   -> Division(Signed(x), Signed(y))
    [] op = "DIVU"  -> Division(x, y)
    [] op = "MTHI"  -> [hi |-> x, lo |-> lo]
    [] op = "MTLO"  -> [hi |-> hi, lo |-> x]

\* The one signed quotient that has no representation.
QuotientUnrepresentable(op, x, y) ==
  op = "DIV" /\ Signed(y) = -1 /\ Overflows(-Signed(x))

----------------------------------------------------------------------------
(* Loads and stores.  Each touches the one word w that contains the        *)
(* effective address; s is the offset of that address in the word.         *)

PartialOps == {"LWL", "LWR", "SWL", "SWR"}

\* The required alignment: the align argument of validate_address plus 1.
Alignment(op) ==
  CASE op \in {"LB", "LBU", "SB"} -> 1
    [] op \in {"LH", "LHU", "SH"} -> 2
    [] OTHER                      -> 4

WordOf(a) == a - (a % 4)

\* LWL, LWR, SWL and SWR access the enclosing word, which is aligned.
AccessAddress(op, ea) == IF op \in PartialOps THEN WordOf(ea) ELSE ea

\* Mutant: the register keeps one byte too many.
MergeLeft_keep(s, b, o) ==
  [k \in 0 .. 3 |-> IF k > 3 - s THEN b[k - (3 - s)] ELSE o[k]]

\* LWL: the bytes of the word up to offset s, above those the register keeps.
MergeLeft(s, b, o) ==
  [k \in 0 .. 3 |-> IF k >= 3 - s THEN b[k - (3 - s)] ELSE o[k]]

LoadResult(op, s, w, old) ==
  LET b == Bytes(w)
      o == Bytes(old)
      half == b[s] + B * b[(s + 1) % 4]
  IN CASE op = "LB"  -> Unsigned(SExt(b[s], B))
       [] op = "LBU" -> b[s]
       [] op = "LH"  -> Unsigned(SExt(half, Half))
       [] op = "LHU" -> half
       [] op = "LW"  -> w
       [] op = "LWL" -> FromBytes(MergeLeft(s, b, o))
       [] op = "LWR" -> FromBytes([k \in 0 .. 3 |->
                          IF k < 4 - s THEN b[k + s] ELSE o[k]])

StoreResult(op, s, w, v) ==
  LET b == Bytes(w)
      n == Bytes(v)
  IN CASE op = "SB"  -> FromBytes([b EXCEPT ![s] = n[0]])
       [] op = "SH"  -> FromBytes([b EXCEPT ![s] = n[0], ![(s + 1) % 4] = n[1]])
       [] op = "SW"  -> v
       [] op = "SWL" -> FromBytes([k \in 0 .. 3 |->
                          IF k > s THEN b[k] ELSE n[k + (3 - s)]])
       [] op = "SWR" -> FromBytes([k \in 0 .. 3 |->
                          IF k < s THEN b[k] ELSE n[k - s]])
============================================================================
