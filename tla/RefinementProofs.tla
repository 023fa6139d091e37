-------------------------- MODULE RefinementProofs -------------------------
(***************************************************************************)
(* mips_execute implements the architecture Arch, under the mapping of     *)
(* module Cpu, for every value of the constants.                           *)
(***************************************************************************)
EXTENDS CpuProofs

----------------------------------------------------------------------------
(* Arch has its own copy of the operators of Words: they are the same.     *)

\* The classes of opcodes, the sizes and the encodings agree.
LEMMA SameOps ==
  /\ A!RA = RA /\ A!W = W /\ A!Half = Half /\ A!Word = Word
  /\ A!JumpOps = JumpOps /\ A!BranchOps = BranchOps /\ A!TrapOps = TrapOps
  /\ A!LoadOps = LoadOps /\ A!StoreOps = StoreOps /\ A!AluiOps = AluiOps
  /\ A!Alu3Ops = Alu3Ops /\ A!DivMultOps = DivMultOps
  /\ A!PartialOps = PartialOps
BY DEF A!RA, RA, A!W, W, A!Half, Half, A!Word, Word, A!JumpOps, JumpOps,
       A!BranchOps, BranchOps, A!TrapOps, TrapOps, A!LoadOps, LoadOps,
       A!StoreOps, StoreOps, A!AluiOps, AluiOps, A!Alu3Ops, Alu3Ops,
       A!DivMultOps, DivMultOps, A!PartialOps, PartialOps

\* Conversions and immediate operands agree.
LEMMA SameConversions ==
  /\ \A z : A!Unsigned(z) = Unsigned(z)
  /\ \A i : A!uIMM(i) = uIMM(i)
  /\ \A a : A!WordOf(a) = WordOf(a)
  /\ \A z : A!Overflows(z) = Overflows(z)
BY DEF A!Unsigned, Unsigned, A!uIMM, uIMM, A!SExt, SExt, A!W, W, A!Half, Half,
       A!WordOf, WordOf, A!Overflows, Overflows

\* The malformed encodings agree.
LEMMA SameMalformed == \A i : A!Malformed(i) = Malformed(i)
BY DEF A!Malformed, Malformed, A!Alu3Ops, Alu3Ops

\* The conditions and the targets of branches agree.
LEMMA SameBranches ==
  /\ \A o, x, y : A!BranchTaken(o, x, y) = BranchTaken(o, x, y)
  /\ \A n, i : A!BranchTarget(n, i) = BranchTarget(n, i)
BY DEF A!BranchTaken, BranchTaken, A!BranchTarget, BranchTarget, A!Signed, Signed,
       A!SExt, SExt, A!sIMM, sIMM, A!Unsigned, Unsigned, A!W, W, A!Half, Half

\* The sums whose overflow traps agree.
LEMMA SameWideSum == \A i, x, y : A!WideSum(i, x, y) = WideSum(i, x, y)
BY DEF A!WideSum, WideSum, A!Signed, Signed, A!SExt, SExt, A!sIMM, sIMM,
       A!W, W, A!Half, Half

\* The results of the ALU agree.
LEMMA SameAlu ==
  /\ \A i, x : A!AluiResult(i, x) = AluiResult(i, x)
  /\ \A i, x, y : A!Alu3Result(i, x, y) = Alu3Result(i, x, y)
  /\ \A i : A!LuiResult(i) = LuiResult(i)
BY DEF A!AluiResult, AluiResult, A!Alu3Result, Alu3Result, A!LuiResult, LuiResult,
       A!Signed, Signed, A!SExt, SExt, A!sIMM, sIMM, A!uIMM, uIMM, A!zIMM, zIMM,
       A!Flag, Flag, A!Unsigned, Unsigned, A!W, W, A!Half, Half

\* Products and quotients agree.
LEMMA SameDivMult ==
  /\ \A o, x, y, h, l : A!DivMultResult(o, x, y, h, l) = DivMultResult(o, x, y, h, l)
  /\ \A o, x, y : A!QuotientUnrepresentable(o, x, y) = QuotientUnrepresentable(o, x, y)
BY DEF A!DivMultResult, DivMultResult, A!QuotientUnrepresentable,
       QuotientUnrepresentable, A!Overflows, Overflows, A!Product, Product,
       A!Division, Division, A!Quotient, Quotient, A!Remainder, Remainder,
       A!Magnitude, Magnitude, A!Signed, Signed, A!SExt, SExt,
       A!Unsigned, Unsigned, A!W, W

\* Loads and stores agree.
LEMMA SameMemory ==
  /\ \A o, s, w, x : A!LoadResult(o, s, w, x) = LoadResult(o, s, w, x)
  /\ \A o, s, w, x : A!StoreResult(o, s, w, x) = StoreResult(o, s, w, x)
  /\ \A o : A!Alignment(o) = Alignment(o)
  /\ \A o, a : A!AccessAddress(o, a) = AccessAddress(o, a)
<1>1. ASSUME NEW o, NEW s, NEW w, NEW x
      PROVE  A!LoadResult(o, s, w, x) = LoadResult(o, s, w, x)
  <2>1. /\ A!Bytes(w) = Bytes(w) /\ A!Bytes(x) = Bytes(x)
    BY Zenon DEF A!Bytes, Bytes, A!Half, Half
  <2>2. \A b : A!FromBytes(b) = FromBytes(b)
    BY Zenon DEF A!FromBytes, FromBytes
  <2>3. \A v, n : A!Unsigned(A!SExt(v, n)) = Unsigned(SExt(v, n))
    BY Zenon DEF A!Unsigned, Unsigned, A!SExt, SExt, A!W, W
  <2>4. \A b, c : A!MergeLeft(s, b, c) = MergeLeft(s, b, c)
    BY Zenon DEF A!MergeLeft, MergeLeft
  <2>5. A!Half = Half
    BY Zenon DEF A!Half, Half
  <2> DEFINE b == Bytes(w)
             c == Bytes(x)
             ab == A!Bytes(w)
             ac == A!Bytes(x)
             lwr == [k \in 0 .. 3 |-> IF k < 4 - s THEN b[k + s] ELSE c[k]]
             alwr == [k \in 0 .. 3 |-> IF k < 4 - s THEN ab[k + s] ELSE ac[k]]
  <2>6. alwr = lwr
    BY <2>1, Zenon
  <2> QED
    BY <2>1, <2>2, <2>3, <2>4, <2>5, <2>6, Zenon DEF A!LoadResult, LoadResult
<1>2. ASSUME NEW o, NEW s, NEW w, NEW x
      PROVE  A!StoreResult(o, s, w, x) = StoreResult(o, s, w, x)
  <2>1. /\ A!Bytes(w) = Bytes(w) /\ A!Bytes(x) = Bytes(x)
    BY Zenon DEF A!Bytes, Bytes, A!Half, Half
  <2>2. \A b : A!FromBytes(b) = FromBytes(b)
    BY Zenon DEF A!FromBytes, FromBytes
  <2> QED
    BY <2>1, <2>2, Zenon DEF A!StoreResult, StoreResult
<1>3. \A o : A!Alignment(o) = Alignment(o)
  BY DEF A!Alignment, Alignment
<1>4. \A o, a : A!AccessAddress(o, a) = AccessAddress(o, a)
  BY DEF A!AccessAddress, AccessAddress, A!PartialOps, PartialOps, A!WordOf, WordOf
<1> QED
  BY <1>1, <1>2, <1>3, <1>4

----------------------------------------------------------------------------
(* The mapping.                                                            *)

\* The architecture's registers are the physical ones, $0 included.
LEMMA RegView ==
  ASSUME IInv
  PROVE  \A n \in Regs : A!Reg(n) = r[n]
BY DEF A!Reg, IInv, CpuOK, InternalErrorFree

\* The architecture fetches the instruction mips_execute fetches.
LEMMA FetchView ==
  ASSUME IInv
  PROVE  /\ Current \in GuestAddrs <=> Valid(Current, 4)
         /\ Current \in GuestAddrs => A!I = Insn /\ Insn \in Insns
<1>1. Current \in Word /\ mem \in [WordAddrs -> Word]
  BY DEF IInv, CpuOK, TypeOK, Current
<1>2. Current \in GuestAddrs <=> Valid(Current, 4)
  BY <1>1, ValidAligned, GuestFacts
<1>3. ASSUME Current \in GuestAddrs PROVE A!I = Insn /\ Insn \in Insns
  <2>1. WordOf(Current) = Current /\ Current \in WordAddrs
    BY <1>3, GuestFacts
  <2>2. GuestView(mem)[Current] = Peek(Current)
    BY <1>3, <2>1 DEF GuestView, Peek
  <2>3. A!I = Insn
    BY <2>2 DEF A!I, Insn
  <2> QED
    BY <1>1, <2>1, <2>3, PeekWord, InsnAssumption DEF Insn
<1> QED
  BY <1>2, <1>3

\* Writing a register other than $0 is writing it in the view.
LEMMA WriteView ==
  ASSUME IInv, NEW n \in Regs, NEW v, r' = Write(n, v)
  PROVE  [k \in Regs \ {0} |-> r'[k]] = A!SetReg(n, v)
BY DEF Write, A!SetReg, IInv, CpuOK, TypeOK

\* Both sides compute the same effective address.
LEMMA AddressView ==
  ASSUME IInv, Current \in GuestAddrs
  PROVE  /\ A!Address(Insn) = AccessAddress(Insn.op, ea(Insn))
         /\ A!Offset(Insn) = ea(Insn) % 4
         /\ A!Accessible(Insn) <=>
              Valid(AccessAddress(Insn.op, ea(Insn)), Alignment(Insn.op))
<1> DEFINE i == Insn
           a == AccessAddress(i.op, ea(i))
<1>1. i \in Insns /\ i.rs \in Regs
  BY FetchView, InsnFields
<1>2. A!Reg(i.rs) = r[i.rs]
  BY <1>1, RegView
<1>3. A!Address(i) = a /\ A!Offset(i) = ea(i) % 4
  BY <1>2, SameConversions, SameMemory DEF A!Address, A!Offset, ea
<1>4. r \in [Regs -> Word]
  BY DEF IInv, CpuOK, TypeOK
<1>5. a \in Word /\ Alignment(i.op) \in {1, 2, 4}
  BY <1>1, <1>4, AddressWord
<1> HIDE DEF a, i
<1>6. WordOf(a) \in GuestAddrs => LowBase <= a /\ a < MemSz
  <2>1. a \in Nat
    BY <1>5, WordInt
  <2>2. WordOf(a) <= a /\ a < WordOf(a) + 4 /\ WordOf(a) \in Int
    BY <2>1 DEF WordOf
  <2> QED
    BY <2>1, <2>2, GuestFacts, MemFacts
<1>7. A!Accessible(i) <=> WordOf(a) \in GuestAddrs /\ a % Alignment(i.op) = 0
  BY <1>3, SameConversions, SameMemory DEF A!Accessible
<1>8. A!Accessible(i) <=> Valid(a, Alignment(i.op))
  BY <1>5, <1>6, <1>7, ValidGuest DEF Valid
<1> QED
  BY <1>3, <1>8 DEF a, i

----------------------------------------------------------------------------
(* The exceptions of mips_execute are the traps of the architecture.       *)

\* Only loads into $0 and trapping sums into $0 are discarded.
LEMMA DiscardsView ==
  ASSUME NEW i
  PROVE  A!Discards(i) <=>
           \/ i.op \in {"LB", "LBU", "LH", "LHU", "LW", "ADDI"} /\ i.rt = 0
           \/ i.op \in {"ADD", "SUB"} /\ i.rd = 0
BY DEF A!Discards

(***************************************************************************)
(* The cause the architecture finds, in the terms of mips_execute.         *)
(***************************************************************************)
LEMMA CauseView ==
  ASSUME IInv, Current \in GuestAddrs
  PROVE  LET i      == Insn
             slotted == delay_slot # 0 /\ i.op \in JumpOps \cup BranchOps
             bad    == i.op = "NONE" \/ Malformed(i) \/ slotted
             fault  == /\ i.op \in LoadOps \cup StoreOps /\ ~A!Discards(i)
                       /\ ~Valid(AccessAddress(i.op, ea(i)), Alignment(i.op))
             ovfl   == /\ i.op \in {"ADDI", "ADD", "SUB"} /\ ~A!Discards(i)
                       /\ Overflows(WideSum(i, r[i.rs], r[i.rt]))
         IN  /\ bad => A!Cause = "INVALID"
             /\ ~bad /\ i.op \in TrapOps => A!Cause = i.op
             /\ ~bad /\ fault => A!Cause = "ADDRESS"
             /\ ~bad /\ ovfl => A!Cause = "OVERFLOW"
             /\ ~bad /\ i.op \notin TrapOps /\ ~fault /\ ~ovfl => A!Cause = "OK"
<1> DEFINE i == Insn
           slotted == delay_slot # 0 /\ i.op \in JumpOps \cup BranchOps
           bad == i.op = "NONE" \/ Malformed(i) \/ slotted
           acc == Valid(AccessAddress(i.op, ea(i)), Alignment(i.op))
           ov == Overflows(WideSum(i, r[i.rs], r[i.rt]))
           fault == i.op \in LoadOps \cup StoreOps /\ ~A!Discards(i) /\ ~acc
           ovfl == i.op \in {"ADDI", "ADD", "SUB"} /\ ~A!Discards(i) /\ ov
<1>1. A!I = i /\ i \in Insns
  BY FetchView
<1>2. A!Reg(i.rs) = r[i.rs] /\ A!Reg(i.rt) = r[i.rt]
  BY <1>1, InsnFields, RegView
<1>3. A!Accessible(i) <=> acc
  BY AddressView
<1>4. A!Malformed(i) = Malformed(i)
  BY SameMalformed
<1>5. A!Overflows(A!WideSum(i, A!Reg(i.rs), A!Reg(i.rt))) <=> ov
  BY <1>2, SameWideSum, SameConversions
<1>6. /\ i.op \in TrapOps => i.op # "NONE" /\ i.op \notin JumpOps \cup BranchOps
      /\ i.op \in TrapOps => i.op \notin LoadOps \cup StoreOps
      /\ i.op \in TrapOps => i.op \notin {"ADDI", "ADD", "SUB"}
      /\ i.op \in LoadOps \cup StoreOps => i.op \notin {"ADDI", "ADD", "SUB"}
  BY DEF TrapOps, JumpOps, BranchOps, LoadOps, StoreOps
<1> HIDE DEF i, acc, ov
<1>7. bad => A!Cause = "INVALID"
  <2>1. bad => i.op \notin TrapOps \cup LoadOps \cup StoreOps
    BY DEF Malformed, TrapOps, JumpOps, BranchOps, LoadOps, StoreOps, Alu3Ops
  <2>2. bad => i.op \notin {"ADDI", "ADD", "SUB"} \/ Malformed(i)
    BY DEF JumpOps, BranchOps
  <2> QED
    BY <1>1, <1>4, <2>1, <2>2, SameOps DEF A!Cause
<1>8. ~bad /\ i.op \in TrapOps => A!Cause = i.op
  BY <1>1, <1>4, <1>6, SameOps DEF A!Cause
<1>9. ~bad /\ fault => A!Cause = "ADDRESS"
  BY <1>1, <1>3, <1>4, <1>6, SameOps DEF A!Cause
<1>10. ~bad /\ ovfl => A!Cause = "OVERFLOW"
  BY <1>1, <1>3, <1>4, <1>5, <1>6, SameOps DEF A!Cause
<1>11. ~bad /\ i.op \notin TrapOps /\ ~fault /\ ~ovfl => A!Cause = "OK"
  BY <1>1, <1>3, <1>4, <1>5, <1>6, SameOps DEF A!Cause
<1> QED
  BY <1>7, <1>8, <1>9, <1>10, <1>11 DEF i, acc, ov

\* An address that is not valid for a fetch is the first cause.
LEMMA FetchCause ==
  ASSUME IInv, Current \notin GuestAddrs
  PROVE  A!Cause = "ADDRESS"
BY DEF A!Cause

----------------------------------------------------------------------------
(* The ways a step ends.                                                   *)

\* A throw for the architecture's cause is the architecture's trap.
LEMMA ThrowSim ==
  ASSUME NEW e, e # "OK", A!Cause = e, Throw(e)
  PROVE  A!TakeTrap
BY DEF A!TakeTrap, Throw, Current, GuestView

\* Leaving PC and DELAY_SLOT to mips_execute goes on to the next instruction.
LEMMA ContinueSim ==
  ASSUME IInv, Return(delay_slot, pc), r'[0] = 0
  PROVE  A!Continue
BY SameConversions DEF A!Continue, Return, Current

\* Setting them to the next word and to t goes on to t after the slot.
LEMMA TransferSim ==
  ASSUME IInv, delay_slot = 0, pc \in GuestAddrs, NEW t,
         Return(Unsigned(pc + 4), t), r'[0] = 0
  PROVE  A!Transfer(t)
<1>1. pc + 4 \in Word /\ pc + 4 # 0 /\ pc + 4 \in Int
  BY GuestFacts, WordInt
<1>2. Unsigned(pc + 4) # 0
  BY <1>1, UnsignedWord
<1> QED
  BY <1>2 DEF A!Transfer, Return, Current

----------------------------------------------------------------------------
(* One lemma for each handler.                                             *)

\* A dispatched instruction is the one the architecture executes.
LEMMA DispatchedView ==
  ASSUME IInv, NEW ops, Dispatched(ops)
  PROVE  /\ Current \in GuestAddrs /\ A!I = Insn /\ Insn \in Insns
         /\ Insn.op \in ops /\ Insn.op # "NONE"
         /\ Insn.rs \in Regs /\ Insn.rt \in Regs /\ Insn.rd \in Regs
         /\ A!Reg(Insn.rs) = r[Insn.rs] /\ A!Reg(Insn.rt) = r[Insn.rt]
<1>1. Current \in GuestAddrs /\ Insn.op \in ops /\ Insn.op # "NONE"
  BY DispatchedInsn DEF IInv, CpuOK
<1>2. A!I = Insn /\ Insn \in Insns
  BY <1>1, FetchView
<1> QED
  BY <1>1, <1>2, InsnFields, RegView

\* What does not change memory does not change the guest's view of it.
LEMMA SameView == ASSUME mem' = mem PROVE GuestView(mem)' = GuestView(mem)
BY DEF GuestView

\* A throw before the dispatch, and SYSCALL and BREAK, are traps.
LEMMA FetchSim == ASSUME IInv, FetchThrow \/ Trap PROVE A!TakeTrap
<1>1. CASE FetchThrow
  <2>1. CASE ~Valid(Current, 4)
    <3>1. FetchException = "ADDRESS"
      BY <2>1 DEF FetchException
    <3>2. A!Cause = "ADDRESS"
      BY <2>1, FetchView, FetchCause
    <3> QED
      BY <1>1, <3>1, <3>2, ThrowSim DEF FetchThrow
  <2>2. CASE Valid(Current, 4)
    <3>1. Insn.op = "NONE" /\ FetchException = "INVALID"
      BY <1>1, <2>2 DEF FetchThrow, FetchException, IInv, CpuOK, InternalErrorFree
    <3>2. A!Cause = "INVALID"
      BY <2>2, <3>1, FetchView, CauseView
    <3> QED
      BY <1>1, <3>1, <3>2, ThrowSim DEF FetchThrow
  <2> QED
    BY <2>1, <2>2
<1>2. CASE Trap
  <2>1. Current \in GuestAddrs /\ Insn.op \in TrapOps
    BY <1>2, DispatchedView DEF Trap
  <2>2. /\ Insn.op # "NONE" /\ ~Malformed(Insn) /\ Insn.op # "OK"
        /\ Insn.op \notin JumpOps \cup BranchOps
    BY <2>1 DEF TrapOps, Malformed, Alu3Ops, JumpOps, BranchOps
  <2>3. A!Cause = Insn.op
    BY <2>1, <2>2, CauseView
  <2> QED
    BY <1>2, <2>2, <2>3, ThrowSim DEF Trap
<1> QED
  BY <1>1, <1>2

\* An instruction of a class that cannot trap, once its encoding is valid.
LEMMA NoCause ==
  ASSUME IInv, Current \in GuestAddrs, ~Malformed(Insn),
         Insn.op \in Opcodes, Insn.op \notin TrapOps \cup LoadOps \cup StoreOps,
         Insn.op \in JumpOps \cup BranchOps => delay_slot = 0,
         Insn.op \in {"ADDI", "ADD", "SUB"} =>
           A!Discards(Insn) \/ ~Overflows(WideSum(Insn, r[Insn.rs], r[Insn.rt]))
  PROVE  A!Cause = "OK"
<1>1. Insn.op # "NONE"
  BY DEF Opcodes, JumpOps, BranchOps, AluiOps, Alu3Ops, LoadOps, StoreOps,
     DivMultOps, TrapOps
<1> QED
  BY <1>1, CauseView

\* do_jump.
LEMMA JumpSim == ASSUME IInv, IInv', do_jump PROVE A!TakeTrap \/ A!Jump
<1> DEFINE i == Insn
           nds == Unsigned(pc + 4)
           npc == IF i.op \in {"J", "JAL"} THEN JumpTarget(nds, i.target)
                  ELSE r'[i.rs]
<1>1. /\ Current \in GuestAddrs /\ A!I = i /\ i \in Insns /\ i.op \in JumpOps
      /\ i.rs \in Regs /\ i.rd \in Regs
      /\ A!Reg(i.rs) = r[i.rs]
  BY DispatchedView DEF do_jump
<1>2. CASE (delay_slot # 0 \/ Malformed(i)) /\ Throw("INVALID")
  <2>1. A!Cause = "INVALID"
    BY <1>1, <1>2, CauseView
  <2> QED
    BY <1>2, <2>1, ThrowSim
<1>3. CASE /\ delay_slot = 0 /\ ~Malformed(i)
           /\ r' = CASE i.op = "JAL"  -> [r EXCEPT ![RA] = Unsigned(pc + 8)]
                      [] i.op = "JALR" -> Write(i.rd, Unsigned(pc + 8))
                      [] OTHER         -> r
           /\ Return(nds, npc)
           /\ UNCHANGED <<hi, lo, mem>>
  <2>1. A!Cause = "OK"
    <3>1. /\ i.op \in Opcodes /\ i.op \notin TrapOps \cup LoadOps \cup StoreOps
          /\ i.op \notin {"ADDI", "ADD", "SUB"}
      BY <1>1 DEF JumpOps, Opcodes, TrapOps, LoadOps, StoreOps
    <3> QED
      BY <1>1, <1>3, <3>1, NoCause
  <2>2. pc = Current /\ pc \in GuestAddrs /\ pc \in Word /\ r \in [Regs -> Word]
    BY <1>1, <1>3 DEF Current, IInv, CpuOK, TypeOK
  <2>3. r'[0] = 0
    BY DEF IInv, CpuOK, InternalErrorFree
  <2>4. A!Transfer(npc)
    BY <1>3, <2>2, <2>3, TransferSim
  <2>5. A!LinkReg(i) = IF i.op = "JAL" THEN RA ELSE IF i.op = "JALR" THEN i.rd ELSE 0
    BY <1>1, SameOps DEF A!LinkReg, JumpOps
  <2>6. r' = Write(A!LinkReg(i), Unsigned(pc + 8))
    <3>1. CASE i.op = "JAL"
      BY <1>3, <2>5, <3>1 DEF Write, RA
    <3>2. CASE i.op = "JALR"
      BY <1>3, <2>5, <3>2
    <3>3. CASE i.op \in {"J", "JR"}
      BY <1>3, <2>5, <3>3 DEF Write
    <3> QED
      BY <1>1, <3>1, <3>2, <3>3 DEF JumpOps
  <2>7. A!LinkReg(i) \in Regs
    BY <1>1, <2>5, RegsAssumption
  <2>8. [k \in Regs \ {0} |-> r'[k]] = A!SetReg(A!LinkReg(i), Unsigned(pc + 8))
    BY <2>6, <2>7, WriteView
  <2>9. A!Operand(i, i.rs) = r'[i.rs]
    <3>1. /\ i.rs = 0 => r'[i.rs] = 0
          /\ i.rs # 0 /\ i.rs = A!LinkReg(i) => r'[i.rs] = Unsigned(pc + 8)
          /\ i.rs # 0 /\ i.rs # A!LinkReg(i) => r'[i.rs] = r[i.rs]
      BY <1>1, <2>2, <2>3, <2>6, <2>7 DEF Write
    <3>2. i.rs = 0 => A!Reg(i.rs) = 0
      BY DEF A!Reg
    <3> QED
      BY <1>1, <2>2, <3>1, <3>2, SameConversions DEF A!Operand
  <2>10. JumpTarget(nds, i.target) = A!Unsigned((nds - (nds % (2 * JRegion))) + 4 * i.target)
    <3>1. /\ pc + 4 \in Word /\ pc + 4 \in Int /\ pc + 4 < JRegion /\ pc + 4 >= 0
      <4>1. pc \in Nat /\ pc < MemSz /\ pc % 4 = 0 /\ pc + 4 \in Word
        BY <2>2, GuestFacts
      <4>2. pc + 4 <= MemSz
        BY <4>1, MemFacts
      <4> QED
        BY <4>1, <4>2, MemFacts, JRegionAssumption
    <3>2. nds = pc + 4
      BY <3>1, UnsignedWord
    <3>3. JRegion \in Nat /\ JRegion > 0 /\ i.target \in Nat
      BY <1>1, InsnFields, JRegionAssumption
    <3>4. nds % JRegion = nds /\ nds % (2 * JRegion) = nds
      BY <3>1, <3>2, <3>3
    <3>5. nds - (nds % JRegion) = 0 /\ nds - (nds % (2 * JRegion)) = 0
      BY <3>1, <3>2, <3>4
    <3>6. (0 \div JRegion) % 2 = 0
      BY <3>3
    <3> HIDE DEF nds
    <3>7. JumpTarget(nds, i.target) = Unsigned(0 + 4 * i.target - 0)
      BY <3>5, <3>6 DEF JumpTarget
    <3> QED
      BY <3>3, <3>5, <3>7, SameConversions
  <2>11. nds = IF delay_slot # 0 THEN pc ELSE Unsigned(pc + 4)
    BY <1>3
  <2>12. GuestView(mem)' = GuestView(mem)
    BY <1>3, SameView
  <2> HIDE DEF nds, i
  <2> QED
    BY <1>1, <1>3, <2>1, <2>2, <2>4, <2>8, <2>9, <2>10, <2>11, <2>12,
       SameOps, SameConversions DEF A!Jump
<1> QED
  BY <1>2, <1>3 DEF do_jump

\* do_branch.
LEMMA BranchSim == ASSUME IInv, IInv', do_branch PROVE A!TakeTrap \/ A!Branch
<1> DEFINE i == Insn
           nds == Unsigned(pc + 4)
           taken == BranchTaken(i.op, r'[i.rs], r'[i.rt])
<1>1. /\ Current \in GuestAddrs /\ A!I = i /\ i \in Insns /\ i.op \in BranchOps
      /\ i.rs \in Regs /\ i.rt \in Regs
      /\ A!Reg(i.rs) = r[i.rs] /\ A!Reg(i.rt) = r[i.rt]
  BY DispatchedView DEF do_branch
<1>2. CASE (delay_slot # 0 \/ Malformed(i)) /\ Throw("INVALID")
  <2>1. A!Cause = "INVALID"
    BY <1>1, <1>2, CauseView
  <2> QED
    BY <1>2, <2>1, ThrowSim
<1>3. CASE /\ delay_slot = 0 /\ ~Malformed(i)
           /\ r' = IF i.op \in {"BLTZAL", "BGEZAL"}
                   THEN [r EXCEPT ![RA] = Unsigned(pc + 8)] ELSE r
           /\ IF taken THEN Return(nds, BranchTarget(nds, i))
              ELSE Return(delay_slot, pc)
           /\ UNCHANGED <<hi, lo, mem>>
  <2>1. A!Cause = "OK"
    <3>1. /\ i.op \in Opcodes /\ i.op \notin TrapOps \cup LoadOps \cup StoreOps
          /\ i.op \notin {"ADDI", "ADD", "SUB"}
      BY <1>1 DEF BranchOps, Opcodes, TrapOps, LoadOps, StoreOps
    <3> QED
      BY <1>1, <1>3, <3>1, NoCause
  <2>2. pc = Current /\ pc \in GuestAddrs /\ pc \in Word /\ r \in [Regs -> Word]
    BY <1>1, <1>3 DEF Current, IInv, CpuOK, TypeOK
  <2>3. r'[0] = 0 /\ r[0] = 0
    BY DEF IInv, CpuOK, InternalErrorFree
  <2>4. A!LinkReg(i) = IF i.op \in {"BLTZAL", "BGEZAL"} THEN RA ELSE 0
    BY <1>1, SameOps DEF A!LinkReg, BranchOps
  <2>5. r' = Write(A!LinkReg(i), Unsigned(pc + 8))
    <3>1. CASE i.op \in {"BLTZAL", "BGEZAL"}
      BY <1>3, <2>4, <3>1 DEF Write, RA
    <3>2. CASE i.op \notin {"BLTZAL", "BGEZAL"}
      BY <1>3, <2>4, <3>2 DEF Write
    <3> QED
      BY <3>1, <3>2
  <2>6. A!LinkReg(i) \in Regs
    BY <2>4, RegsAssumption
  <2>7. [k \in Regs \ {0} |-> r'[k]] = A!SetReg(A!LinkReg(i), Unsigned(pc + 8))
    BY <2>5, <2>6, WriteView
  <2>8. ASSUME NEW n \in Regs PROVE A!Operand(i, n) = r'[n]
    <3>1. /\ n = 0 => r'[n] = 0
          /\ n # 0 /\ n = A!LinkReg(i) => r'[n] = Unsigned(pc + 8)
          /\ n # 0 /\ n # A!LinkReg(i) => r'[n] = r[n]
      BY <2>2, <2>3, <2>5, <2>6 DEF Write
    <3>2. A!Reg(n) = r[n]
      BY RegView
    <3> QED
      BY <2>2, <2>3, <3>1, <3>2, SameConversions DEF A!Operand
  <2>9. BranchTaken(i.op, A!Operand(i, i.rs), A!Operand(i, i.rt)) = taken
    BY <1>1, <2>8
  <2>10. nds = IF delay_slot # 0 THEN pc ELSE Unsigned(pc + 4)
    BY <1>3
  <2>11. GuestView(mem)' = GuestView(mem)
    BY <1>3, SameView
  <2>12. CASE taken
    <3>1. A!Transfer(BranchTarget(nds, i))
      BY <1>3, <2>2, <2>3, <2>12, TransferSim
    <3> HIDE DEF nds, i, taken
    <3> QED
      BY <1>1, <1>3, <2>1, <2>2, <2>7, <2>9, <2>10, <2>11, <2>12, <3>1,
         SameOps, SameConversions, SameBranches DEF A!Branch
  <2>13. CASE ~taken
    <3>1. A!Continue
      BY <1>3, <2>3, <2>13, ContinueSim
    <3> HIDE DEF nds, i, taken
    <3> QED
      BY <1>1, <1>3, <2>1, <2>2, <2>7, <2>9, <2>10, <2>11, <2>13, <3>1,
         SameOps, SameConversions, SameBranches DEF A!Branch
  <2> QED
    BY <2>12, <2>13
<1> QED
  BY <1>2, <1>3 DEF do_branch

\* do_alui.
LEMMA AluiSim == ASSUME IInv, IInv', do_alui PROVE A!TakeTrap \/ A!Compute
<1> DEFINE i == Insn
           ovfl == i.op = "ADDI" /\ i.rt # 0 /\ Overflows(WideSum(i, r[i.rs], 0))
<1>1. /\ Current \in GuestAddrs /\ A!I = i /\ i \in Insns /\ i.op \in AluiOps
      /\ i.rt \in Regs /\ A!Reg(i.rs) = r[i.rs]
  BY DispatchedView DEF do_alui
<1>2. /\ i.op \in Opcodes /\ i.op \notin TrapOps \cup LoadOps \cup StoreOps
      /\ i.op \notin JumpOps \cup BranchOps /\ ~Malformed(i) /\ i.op # "NONE"
      /\ i.op \notin {"ADD", "SUB"}
  BY <1>1 DEF AluiOps, Opcodes, TrapOps, LoadOps, StoreOps, JumpOps, BranchOps,
     Malformed, Alu3Ops
<1>3. i.op = "ADDI" => WideSum(i, r[i.rs], r[i.rt]) = WideSum(i, r[i.rs], 0)
  BY DEF WideSum
<1>4. A!Discards(i) <=> i.op = "ADDI" /\ i.rt = 0
  BY <1>1, <1>2, DiscardsView DEF AluiOps
<1>5. CASE ovfl /\ Throw("OVERFLOW")
  <2>1. A!Cause = "OVERFLOW"
    BY <1>1, <1>2, <1>3, <1>4, <1>5, CauseView
  <2> QED
    BY <1>5, <2>1, ThrowSim
<1>6. CASE /\ ~ovfl
           /\ r' = Write(i.rt, AluiResult(i, r[i.rs]))
           /\ Return(delay_slot, pc)
           /\ UNCHANGED <<hi, lo, mem>>
  <2>1. A!Cause = "OK"
    BY <1>1, <1>2, <1>3, <1>4, <1>6, NoCause
  <2>2. [k \in Regs \ {0} |-> r'[k]] = A!SetReg(i.rt, AluiResult(i, r[i.rs]))
    BY <1>1, <1>6, WriteView
  <2>3. A!Continue /\ GuestView(mem)' = GuestView(mem)
    BY <1>6, ContinueSim, SameView DEF IInv, CpuOK, InternalErrorFree
  <2> QED
    BY <1>1, <1>6, <2>1, <2>2, <2>3, SameOps, SameAlu DEF A!Compute
<1> QED
  BY <1>5, <1>6 DEF do_alui

\* do_alu3.
LEMMA Alu3Sim == ASSUME IInv, IInv', do_alu3 PROVE A!TakeTrap \/ A!Compute
<1> DEFINE i == Insn
           ovfl == /\ i.op \in {"ADD", "SUB"} /\ i.rd # 0
                   /\ Overflows(WideSum(i, r[i.rs], r[i.rt]))
<1>1. /\ Current \in GuestAddrs /\ A!I = i /\ i \in Insns /\ i.op \in Alu3Ops
      /\ i.rd \in Regs /\ A!Reg(i.rs) = r[i.rs] /\ A!Reg(i.rt) = r[i.rt]
  BY DispatchedView DEF do_alu3
<1>2. /\ i.op \in Opcodes /\ i.op \notin TrapOps \cup LoadOps \cup StoreOps
      /\ i.op \notin JumpOps \cup BranchOps /\ i.op # "NONE" /\ i.op # "ADDI"
  BY <1>1 DEF Opcodes, TrapOps, LoadOps, StoreOps, JumpOps, BranchOps, Alu3Ops
<1>3. A!Discards(i) <=> i.op \in {"ADD", "SUB"} /\ i.rd = 0
  BY <1>1, <1>2, DiscardsView DEF Alu3Ops
<1>4. CASE Malformed(i) /\ Throw("INVALID")
  <2>1. A!Cause = "INVALID"
    BY <1>1, <1>4, CauseView
  <2> QED
    BY <1>4, <2>1, ThrowSim
<1>5. CASE ~Malformed(i) /\ ovfl /\ Throw("OVERFLOW")
  <2>1. A!Cause = "OVERFLOW"
    BY <1>1, <1>2, <1>3, <1>5, CauseView
  <2> QED
    BY <1>5, <2>1, ThrowSim
<1>6. CASE /\ ~Malformed(i) /\ ~ovfl
           /\ r' = Write(i.rd, Alu3Result(i, r[i.rs], r[i.rt]))
           /\ Return(delay_slot, pc)
           /\ UNCHANGED <<hi, lo, mem>>
  <2>1. A!Cause = "OK"
    BY <1>1, <1>2, <1>3, <1>6, NoCause
  <2>2. [k \in Regs \ {0} |-> r'[k]] = A!SetReg(i.rd, Alu3Result(i, r[i.rs], r[i.rt]))
    BY <1>1, <1>6, WriteView
  <2>3. A!Continue /\ GuestView(mem)' = GuestView(mem)
    BY <1>6, ContinueSim, SameView DEF IInv, CpuOK, InternalErrorFree
  <2> QED
    BY <1>1, <1>6, <2>1, <2>2, <2>3, SameOps, SameAlu DEF A!Compute
<1> QED
  BY <1>4, <1>5, <1>6 DEF do_alu3

\* LUI in do_loadstore.
LEMMA LuiSim == ASSUME IInv, IInv', do_lui PROVE A!TakeTrap \/ A!Compute
<1> DEFINE i == Insn
<1>1. /\ Current \in GuestAddrs /\ A!I = i /\ i.op = "LUI" /\ i.rt \in Regs
  BY DispatchedView DEF do_lui
<1>2. /\ i.op \in Opcodes /\ i.op \notin TrapOps \cup LoadOps \cup StoreOps
      /\ i.op \notin JumpOps \cup BranchOps
  BY <1>1 DEF Opcodes, TrapOps, LoadOps, StoreOps, JumpOps, BranchOps
<1>3. CASE Malformed(i) /\ Throw("INVALID")
  <2>1. A!Cause = "INVALID"
    BY <1>1, <1>3, CauseView
  <2> QED
    BY <1>3, <2>1, ThrowSim
<1>4. CASE /\ ~Malformed(i)
           /\ r' = Write(i.rt, LuiResult(i))
           /\ Return(delay_slot, pc)
           /\ UNCHANGED <<hi, lo, mem>>
  <2>1. A!Cause = "OK"
    BY <1>1, <1>2, <1>4, NoCause
  <2>2. [k \in Regs \ {0} |-> r'[k]] = A!SetReg(i.rt, LuiResult(i))
    BY <1>1, <1>4, WriteView
  <2>3. A!Continue /\ GuestView(mem)' = GuestView(mem)
    BY <1>4, ContinueSim, SameView DEF IInv, CpuOK, InternalErrorFree
  <2> QED
    BY <1>1, <1>4, <2>1, <2>2, <2>3, SameAlu DEF A!Compute
<1> QED
  BY <1>3, <1>4 DEF do_lui

\* The loads of do_loadstore.
LEMMA LoadSim == ASSUME IInv, IInv', do_load PROVE A!TakeTrap \/ A!Load
<1> DEFINE i == Insn
           a == AccessAddress(i.op, ea(i))
           ok == Valid(a, Alignment(i.op))
           skip == i.rt = 0 /\ i.op \notin PartialOps
<1>1. /\ Current \in GuestAddrs /\ A!I = i /\ i \in Insns /\ i.op \in LoadOps
      /\ i.rt \in Regs /\ r \in [Regs -> Word]
  BY DispatchedView DEF do_load, IInv, CpuOK, TypeOK
<1>2. /\ i.op \notin TrapOps /\ i.op # "NONE" /\ ~Malformed(i)
      /\ i.op \notin JumpOps \cup BranchOps /\ i.op \notin {"ADDI", "ADD", "SUB"}
  BY <1>1 DEF TrapOps, LoadOps, JumpOps, BranchOps, Malformed, Alu3Ops
<1>3. A!Discards(i) <=> skip
  BY <1>1, DiscardsView DEF LoadOps, PartialOps
<1>4. CASE ~skip /\ ~ok /\ Throw("ADDRESS")
  <2>1. A!Cause = "ADDRESS"
    BY <1>1, <1>2, <1>3, <1>4, CauseView
  <2> QED
    BY <1>4, <2>1, ThrowSim
<1>5. CASE /\ skip \/ ok
           /\ r' = IF i.rt = 0 THEN r
                   ELSE [r EXCEPT ![i.rt] =
                           LoadResult(i.op, ea(i) % 4, Peek(a), @)]
           /\ Return(delay_slot, pc)
           /\ UNCHANGED <<hi, lo, mem>>
  <2>1. A!Cause = "OK"
    BY <1>1, <1>2, <1>3, <1>5, CauseView
  <2>2. A!Continue /\ GuestView(mem)' = GuestView(mem)
    BY <1>5, ContinueSim, SameView DEF IInv, CpuOK, InternalErrorFree
  <2>3. A!Address(i) = a /\ A!Offset(i) = ea(i) % 4
    BY <1>1, AddressView
  <2>4. CASE i.rt = 0
    BY <1>1, <1>5, <2>1, <2>2, <2>4, SameOps DEF A!Load
  <2>5. CASE i.rt # 0
    <3>1. WordOf(a) \in GuestAddrs
      BY <1>1, <1>5, <2>5, AddressWord, ValidGuest
    <3>2. GuestView(mem)[WordOf(a)] = Peek(a)
      BY <3>1 DEF GuestView, Peek
    <3> DEFINE v == LoadResult(i.op, ea(i) % 4, Peek(a), r[i.rt])
    <3>3. r' = [r EXCEPT ![i.rt] = v]
      BY <1>5, <2>5
    <3>4. [k \in Regs \ {0} |-> r'[k]] =
            [[k \in Regs \ {0} |-> r[k]] EXCEPT ![i.rt] = v]
      <4> HIDE DEF v
      <4> QED
        BY <1>1, <2>5, <3>3
    <3>5. [k \in Regs \ {0} |-> r[k]][i.rt] = r[i.rt]
      BY <1>1, <2>5
    <3>6. A!LoadResult(i.op, A!Offset(i), GuestView(mem)[A!WordOf(A!Address(i))],
                       [k \in Regs \ {0} |-> r[k]][i.rt]) = v
      BY <2>3, <3>2, <3>5, SameMemory, SameConversions
    <3> HIDE DEF v, i, a
    <3> QED
      BY <1>1, <1>5, <2>1, <2>2, <2>5, <3>4, <3>6, SameOps DEF A!Load
  <2> QED
    BY <2>4, <2>5
<1> QED
  BY <1>4, <1>5 DEF do_load

\* The stores of do_loadstore: what the cipher hides, it also restores.
LEMMA StoreSim == ASSUME IInv, IInv', do_store PROVE A!TakeTrap \/ A!Store
<1> DEFINE i == Insn
           a == AccessAddress(i.op, ea(i))
           ok == Valid(a, Alignment(i.op))
           v == StoreResult(i.op, ea(i) % 4, Peek(a), r[i.rt])
<1>1. /\ Current \in GuestAddrs /\ A!I = i /\ i \in Insns /\ i.op \in StoreOps
      /\ i.rt \in Regs /\ A!Reg(i.rt) = r[i.rt]
      /\ r \in [Regs -> Word] /\ mem \in [WordAddrs -> Word]
  BY DispatchedView DEF do_store, IInv, CpuOK, TypeOK
<1>2. /\ i.op \notin TrapOps /\ i.op # "NONE" /\ ~Malformed(i)
      /\ i.op \notin JumpOps \cup BranchOps /\ i.op \notin {"ADDI", "ADD", "SUB"}
  BY <1>1 DEF TrapOps, StoreOps, JumpOps, BranchOps, Malformed, Alu3Ops
<1>3. ~A!Discards(i)
  BY <1>1, DiscardsView DEF StoreOps
<1>4. CASE ~ok /\ Throw("ADDRESS")
  <2>1. A!Cause = "ADDRESS"
    BY <1>1, <1>2, <1>3, <1>4, CauseView
  <2> QED
    BY <1>4, <2>1, ThrowSim
<1>5. CASE /\ ok /\ mem' = Poke(a, v)
           /\ UNCHANGED <<r, hi, lo>>
           /\ Return(delay_slot, pc)
  <2>1. A!Cause = "OK"
    BY <1>1, <1>2, <1>3, <1>5, CauseView
  <2>2. A!Continue
    BY <1>5, ContinueSim DEF IInv, CpuOK, InternalErrorFree
  <2>3. A!Address(i) = a /\ A!Offset(i) = ea(i) % 4
    BY <1>1, AddressView
  <2>4. /\ a \in Word /\ ea(i) % 4 \in 0 .. 3 /\ WordOf(a) \in GuestAddrs
    BY <1>1, <1>5, AddressWord, ValidGuest
  <2>5. WordOf(a) \in WordAddrs
    BY <2>4, GuestFacts
  <2>6. GuestView(mem)[WordOf(a)] = Peek(a) /\ Peek(a) \in Word
    BY <1>1, <2>4, <2>5, PeekWord DEF GuestView, Peek
  <2>7. v \in Word
    BY <1>1, <2>4, <2>6, StoreResultWord
  <2>8. Dec(Enc(v)) = v
    BY <2>7, CipherAssumption
  <2>9. GuestView(mem)' = [GuestView(mem) EXCEPT ![WordOf(a)] = v]
    <3> HIDE DEF v, a
    <3>1. \A b \in GuestAddrs : b \in WordAddrs
      BY GuestFacts
    <3>2. mem' = [mem EXCEPT ![WordOf(a)] = Enc(v)]
      BY <1>5 DEF Poke
    <3>3. \A b \in GuestAddrs :
            Dec(mem'[b]) = IF b = WordOf(a) THEN v ELSE Dec(mem[b])
      BY <1>1, <2>5, <2>8, <3>1, <3>2
    <3> QED
      BY <2>4, <3>3 DEF GuestView
  <2>10. A!StoreResult(i.op, A!Offset(i), GuestView(mem)[A!WordOf(A!Address(i))],
                       A!Reg(i.rt)) = v
    BY <1>1, <2>3, <2>6, SameMemory, SameConversions
  <2>11. A!WordOf(A!Address(i)) = WordOf(a)
    BY <2>3, SameConversions
  <2> HIDE DEF v, i, a
  <2> QED
    BY <1>1, <1>5, <2>1, <2>2, <2>9, <2>10, <2>11, SameOps DEF A!Store
<1> QED
  BY <1>4, <1>5 DEF do_store

\* do_divmult, with the undefined quotient.
LEMMA DivMultSim ==
  ASSUME IInv, IInv', do_divmult
  PROVE  A!TakeTrap \/ A!Compute \/ A!MulDiv
<1> DEFINE i == Insn
           res == DivMultResult(i.op, r[i.rs], r[i.rt], hi, lo)
<1>1. /\ Current \in GuestAddrs /\ A!I = i /\ i \in Insns /\ i.op \in DivMultOps
      /\ i.rd \in Regs /\ A!Reg(i.rs) = r[i.rs] /\ A!Reg(i.rt) = r[i.rt]
  BY DispatchedView DEF do_divmult
<1>2. /\ i.op \in Opcodes /\ i.op \notin TrapOps \cup LoadOps \cup StoreOps
      /\ i.op \notin JumpOps \cup BranchOps /\ i.op \notin {"ADDI", "ADD", "SUB"}
  BY <1>1 DEF Opcodes, TrapOps, LoadOps, StoreOps, JumpOps, BranchOps, DivMultOps
<1>3. CASE Malformed(i) /\ Throw("INVALID")
  <2>1. A!Cause = "INVALID"
    BY <1>1, <1>3, CauseView
  <2> QED
    BY <1>3, <2>1, ThrowSim
<1>4. ~Malformed(i) => A!Cause = "OK"
  BY <1>1, <1>2, NoCause
<1>5. CASE /\ ~Malformed(i) /\ i.op \in {"MFHI", "MFLO"}
           /\ r' = Write(i.rd, IF i.op = "MFHI" THEN hi ELSE lo)
           /\ Return(delay_slot, pc)
           /\ UNCHANGED <<hi, lo, mem>>
  <2>1. [k \in Regs \ {0} |-> r'[k]] =
          A!SetReg(i.rd, IF i.op = "MFHI" THEN hi ELSE lo)
    BY <1>1, <1>5, WriteView
  <2>2. A!Continue /\ GuestView(mem)' = GuestView(mem)
    BY <1>5, ContinueSim, SameView DEF IInv, CpuOK, InternalErrorFree
  <2> QED
    BY <1>1, <1>4, <1>5, <2>1, <2>2 DEF A!Compute
<1>6. CASE /\ ~Malformed(i) /\ i.op \notin {"MFHI", "MFLO"}
           /\ hi' = res.hi /\ lo' = res.lo
           /\ UNCHANGED <<r, mem>>
           /\ Return(delay_slot, pc)
  <2>1. A!Continue /\ GuestView(mem)' = GuestView(mem)
    BY <1>6, ContinueSim, SameView DEF IInv, CpuOK, InternalErrorFree
  <2> QED
    BY <1>1, <1>4, <1>6, <2>1, SameOps, SameDivMult DEF A!MulDiv
<1>7. CASE /\ ~Malformed(i) /\ QuotientUnrepresentable(i.op, r[i.rs], r[i.rt])
           /\ Throw("SIGFPE")
  <2>1. i.op \notin {"MFHI", "MFLO"}
    BY <1>7 DEF QuotientUnrepresentable
  <2> QED
    BY <1>1, <1>4, <1>7, <2>1, SameOps, SameDivMult
       DEF A!MulDiv, Throw, Current, GuestView
<1> QED
  BY <1>3, <1>5, <1>6, <1>7 DEF do_divmult

----------------------------------------------------------------------------
(* The refinement.                                                         *)

\* The state mips_elf_load leaves is a boot state of the architecture.
LEMMA BootSim == Init => A!Boot
<1> SUFFICES ASSUME Init PROVE A!Boot
  OBVIOUS
<1>1. IInv
  BY InitInv
<1>2. /\ delay_slot = 0 /\ hi = 0 /\ lo = 0 /\ exn = "OK"
      /\ \A n \in Regs \ {0, 28} : r[n] = IF n = 29 THEN MemSz - 4 ELSE 0
  BY DEF Init, Loaded
<1>3. [n \in Regs \ {0} |-> r[n]] \in [Regs \ {0} -> Word]
  BY <1>1 DEF IInv, CpuOK, TypeOK
<1>4. GuestView(mem) \in [GuestAddrs -> Word]
  BY <1>1, GuestFacts, CipherAssumption DEF IInv, CpuOK, TypeOK, GuestView
<1>5. Current = pc /\ Current \in Word
  BY <1>1, <1>2 DEF Current, IInv, CpuOK, TypeOK
<1> QED
  BY <1>2, <1>3, <1>4, <1>5, SameOps, SameConversions DEF A!Boot

\* Every step of mips_execute is a step of the architecture, or invisible.
LEMMA StepSim == IInv /\ IInv' /\ [Next]_vars => [A!ANext]_(A!avars)
<1> SUFFICES ASSUME IInv, IInv', [Next]_vars PROVE A!ANext \/ UNCHANGED A!avars
  OBVIOUS
<1>1. CASE FetchThrow \/ Trap
  BY <1>1, FetchSim DEF A!ANext
<1>2. CASE do_jump
  BY <1>2, JumpSim DEF A!ANext
<1>3. CASE do_branch
  BY <1>3, BranchSim DEF A!ANext
<1>4. CASE do_alui \/ do_alu3 \/ do_lui
  BY <1>4, AluiSim, Alu3Sim, LuiSim DEF A!ANext
<1>5. CASE do_load
  BY <1>5, LoadSim DEF A!ANext
<1>6. CASE do_store
  BY <1>6, StoreSim DEF A!ANext
<1>7. CASE do_divmult
  BY <1>7, DivMultSim DEF A!ANext
<1>8. CASE UNCHANGED vars
  BY <1>8 DEF vars, A!avars, Current, GuestView
<1> QED
  BY <1>1, <1>2, <1>3, <1>4, <1>5, <1>6, <1>7, <1>8 DEF Next, mips_execute, Killed

(***************************************************************************)
(* mips_execute implements the architecture: whatever the program, the     *)
(* cipher and the sizes, a guest cannot tell the delay_slot sentinel, the  *)
(* order of the writes in the handlers, the physical $0 and the encrypted  *)
(* memory from a processor with two program counters and precise traps.    *)
(***************************************************************************)
THEOREM Refinement == Spec => ImplementsArch
BY BootSim, StepSim, Inductive, PTL DEF Spec, ImplementsArch, A!ASpec
============================================================================
