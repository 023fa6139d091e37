----------------------------- MODULE CpuProofs -----------------------------
(***************************************************************************)
(* The invariants and action properties of Cpu, proved for every memory    *)
(* size, register set, width of a byte, cipher and program.                *)
(***************************************************************************)
EXTENDS Cpu, WordLemmas

(***************************************************************************)
(* The first two invariants are inductive together; they hold as well when *)
(* something other than the engine writes to the guest's memory.  The      *)
(* third needs them, and that only the engine writes.                      *)
(***************************************************************************)
CpuOK == TypeOK /\ InternalErrorFree

IInv == CpuOK /\ DelaySlotFollowsBranch

----------------------------------------------------------------------------
(* Memory and instructions.                                                *)

\* The size of memory bounds addresses well below the size of a word.
LEMMA MemFacts ==
  /\ MemSz \in Nat /\ LowBase \in Nat /\ 0 < LowBase /\ MemSz + 4 < W
  /\ LowBase % 4 = 0 /\ MemSz % 4 = 0
  /\ LowBase < MemSz - StkSz /\ StkSz \in Nat /\ MemSz < JRegion
BY MemAssumption

\* The word that contains a valid address is a guest word.
LEMMA ValidGuest ==
  ASSUME NEW a \in Word, NEW n \in {1, 2, 4}, Valid(a, n)
  PROVE  WordOf(a) \in GuestAddrs /\ WordOf(a) \in WordAddrs
<1>1. a \in Nat /\ LowBase <= a /\ a < MemSz
  BY WordInt DEF Valid
<1>2. WordOf(a) \in Nat /\ WordOf(a) % 4 = 0 /\ WordOf(a) <= a
  BY <1>1 DEF WordOf
<1>3. LowBase <= WordOf(a)
  BY <1>1, MemFacts DEF WordOf
<1> QED
  BY <1>1, <1>2, <1>3, MemFacts DEF GuestAddrs, WordAddrs

\* A valid aligned address is the address of its own word.
LEMMA ValidAligned ==
  ASSUME NEW a \in Word, Valid(a, 4)
  PROVE  WordOf(a) = a /\ a \in GuestAddrs /\ a \in WordAddrs
<1>1. a \in Nat /\ a % 4 = 0
  BY WordInt DEF Valid
<1>2. WordOf(a) = a
  BY <1>1 DEF WordOf
<1> QED
  BY <1>2, ValidGuest

\* Guest words are words of memory, aligned, and never at address 0.
LEMMA GuestFacts ==
  ASSUME NEW a \in GuestAddrs
  PROVE  /\ a \in WordAddrs /\ a \in Word /\ a \in Nat
         /\ a >= LowBase /\ a < MemSz /\ a % 4 = 0 /\ WordOf(a) = a
         /\ a + 4 \in Word /\ a + 4 # 0 /\ Valid(a, 4)
<1>1. a \in WordAddrs /\ a \in Nat /\ a >= LowBase /\ a < MemSz /\ a % 4 = 0
  BY MemFacts DEF GuestAddrs, WordAddrs
<1> QED
  BY <1>1, MemFacts, Sizes DEF Word, WordOf, Valid

\* What is peeked is a word.
LEMMA PeekWord ==
  ASSUME mem \in [WordAddrs -> Word], NEW a \in Word, WordOf(a) \in WordAddrs
  PROVE  Peek(a) \in Word
BY CipherAssumption DEF Peek

\* Poking a word keeps the memory well typed.
LEMMA PokeType ==
  ASSUME mem \in [WordAddrs -> Word], NEW a \in Word, WordOf(a) \in WordAddrs,
         NEW w \in Word
  PROVE  Poke(a, w) \in [WordAddrs -> Word]
BY CipherAssumption DEF Poke

\* An instruction that is dispatched lies in guest memory and decodes.
LEMMA DispatchedInsn ==
  ASSUME TypeOK, NEW ops, Dispatched(ops)
  PROVE  /\ Valid(Current, 4) /\ Current \in GuestAddrs /\ Current \in Word
         /\ Insn \in Insns /\ Insn.op \in ops /\ Insn.op # "NONE" /\ r[0] = 0
<1>1. Valid(Current, 4) /\ Insn.op # "NONE" /\ r[0] = 0
  BY DEF Dispatched, FetchException
<1>2. Current \in Word
  BY DEF Current, TypeOK
<1>3. Current \in GuestAddrs /\ WordOf(Current) \in WordAddrs
  BY <1>1, <1>2, ValidAligned
<1>4. Insn \in Insns
  BY <1>2, <1>3, PeekWord, InsnAssumption DEF Insn, TypeOK
<1> QED
  BY <1>1, <1>2, <1>3, <1>4 DEF Dispatched

----------------------------------------------------------------------------
(* What the parts of a step do.                                            *)

\* The register file after uW or sW.
LEMMA WriteType ==
  ASSUME r \in [Regs -> Word], r[0] = 0, NEW n \in Regs, NEW v \in Word
  PROVE  Write(n, v) \in [Regs -> Word] /\ Write(n, v)[0] = 0
BY RegsAssumption DEF Write

\* A throw preserves the inductive invariant.
LEMMA ThrowInv ==
  ASSUME CpuOK, NEW e \in {"OVERFLOW", "ADDRESS", "INVALID", "SYSCALL", "BREAK",
                          "SIGFPE"}, Throw(e)
  PROVE  CpuOK'
BY DEF CpuOK, TypeOK, InternalErrorFree, Throw, Exceptions

(***************************************************************************)
(* A handler that leaves PC and DELAY_SLOT alone preserves the invariant   *)
(* if it leaves the other variables well typed and $0 zero.                *)
(***************************************************************************)
LEMMA SequentialInv ==
  ASSUME CpuOK, Return(delay_slot, pc),
         r' \in [Regs -> Word], r'[0] = 0,
         hi' \in Word, lo' \in Word, mem' \in [WordAddrs -> Word]
  PROVE  CpuOK'
<1>1. pc \in Word /\ delay_slot \in Word
  BY DEF CpuOK, TypeOK
<1>2. Unsigned(pc + 4) \in Word
  BY <1>1, WordInt, UnsignedWord
<1>3. exn' = "OK" /\ delay_slot' = 0 /\ pc' \in Word
  BY <1>1, <1>2 DEF Return
<1>4. 0 \in Word
  BY Sizes DEF Word
<1> QED
  BY <1>3, <1>4 DEF CpuOK, TypeOK, InternalErrorFree

(***************************************************************************)
(* A handler that transfers control to npc leaves a pending delay slot:    *)
(* the word after the transfer, whose address is not 0.                    *)
(***************************************************************************)
LEMMA TransferSlot ==
  ASSUME CpuOK, delay_slot = 0, NEW npc,
         Dispatched(JumpOps \cup BranchOps),
         Return(Unsigned(pc + 4), npc), r'[0] = 0
  PROVE  /\ pc \in GuestAddrs /\ Insn = InsnOf(Peek(pc))
         /\ pc + 4 # 0 /\ pc + 4 \in Word
         /\ exn' = "OK" /\ delay_slot' = pc + 4 /\ pc' = npc
<1>1. pc \in GuestAddrs /\ Insn = InsnOf(Peek(pc))
  BY DispatchedInsn DEF CpuOK, Current, Insn
<1>2. Unsigned(pc + 4) = pc + 4 /\ pc + 4 # 0 /\ pc + 4 \in Word
  BY <1>1, GuestFacts, UnsignedWord, WordInt
<1> QED
  BY <1>1, <1>2 DEF Return

\* A handler that transfers control preserves the types.
LEMMA TransferInv ==
  ASSUME CpuOK, delay_slot = 0, NEW npc \in Word,
         Dispatched(JumpOps \cup BranchOps),
         Return(Unsigned(pc + 4), npc),
         r' \in [Regs -> Word], r'[0] = 0, UNCHANGED <<hi, lo, mem>>
  PROVE  CpuOK'
<1>1. exn' = "OK" /\ delay_slot' \in Word /\ pc' = npc
  BY TransferSlot
<1> QED
  BY <1>1 DEF CpuOK, TypeOK, InternalErrorFree

----------------------------------------------------------------------------
(* The inductive invariant.                                                *)

\* Effective addresses and the addresses accessed are words.
LEMMA AddressWord ==
  ASSUME r \in [Regs -> Word], NEW i \in Insns
  PROVE  /\ ea(i) \in Word /\ ea(i) % 4 \in 0 .. 3
         /\ AccessAddress(i.op, ea(i)) \in Word
         /\ Alignment(i.op) \in {1, 2, 4}
<1>1. r[i.rs] \in Word /\ uIMM(i) \in Word
  BY InsnFields, ImmediateTypes
<1>2. r[i.rs] + uIMM(i) \in Int
  BY <1>1, WordInt
<1>3. ea(i) \in Word
  BY <1>2, UnsignedWord DEF ea
<1>4. ea(i) \in Int /\ ea(i) >= 0
  BY <1>3, WordInt
<1>5. WordOf(ea(i)) \in Word /\ ea(i) % 4 \in 0 .. 3
  BY <1>3, <1>4, Sizes DEF WordOf, Word
<1> QED
  BY <1>3, <1>5 DEF AccessAddress, Alignment

\* A program that has been loaded satisfies the inductive invariant.
LEMMA LoadedInv == ASSUME NEW p \in Programs, Loaded(p) PROVE IInv
<1>1. /\ p.image \in [WordAddrs -> Word]
      /\ p.entry \in LowBase .. (MemSz - StkSz - 1)
      /\ p.gp \in LowBase .. (MemSz - StkSz - 1)
  BY ProgramsAssumption
<1>2. p.entry \in Word /\ p.gp \in Word /\ MemSz - 4 \in Word /\ 0 \in Word
  BY <1>1, MemFacts, Sizes DEF Word
<1>3. r \in [Regs -> Word] /\ r[0] = 0
  BY <1>2, RegsAssumption DEF Loaded
<1> QED
  BY <1>1, <1>2, <1>3
     DEF Loaded, IInv, CpuOK, TypeOK, InternalErrorFree, DelaySlotFollowsBranch

\* The link register holds a word, and linking does not touch $0.
LEMMA LinkType ==
  ASSUME TypeOK, r[0] = 0
  PROVE  /\ Unsigned(pc + 4) \in Word /\ Unsigned(pc + 8) \in Word
         /\ [r EXCEPT ![RA] = Unsigned(pc + 8)] \in [Regs -> Word]
         /\ [r EXCEPT ![RA] = Unsigned(pc + 8)][0] = 0
<1>1. pc + 4 \in Int /\ pc + 8 \in Int
  BY WordInt DEF TypeOK
<1>2. Unsigned(pc + 4) \in Word /\ Unsigned(pc + 8) \in Word
  BY <1>1, UnsignedWord
<1> QED
  BY <1>2, RegsAssumption DEF TypeOK, RA

\* A jump preserves the inductive invariant.
LEMMA JumpInv == ASSUME CpuOK, do_jump PROVE CpuOK'
<1> DEFINE i == Insn
           nds == Unsigned(pc + 4)
           npc == IF i.op \in {"J", "JAL"} THEN JumpTarget(nds, i.target)
                  ELSE r'[i.rs]
<1>1. Dispatched(JumpOps) /\ TypeOK /\ r[0] = 0
  BY DEF do_jump, CpuOK, InternalErrorFree
<1>2. i \in Insns /\ i.op \in JumpOps
  BY <1>1, DispatchedInsn
<1>3. CASE Throw("INVALID")
  BY <1>3, ThrowInv
<1>4. CASE /\ delay_slot = 0
           /\ r' = CASE i.op = "JAL"  -> [r EXCEPT ![RA] = Unsigned(pc + 8)]
                      [] i.op = "JALR" -> Write(i.rd, Unsigned(pc + 8))
                      [] OTHER         -> r
           /\ Return(nds, npc)
           /\ UNCHANGED <<hi, lo, mem>>
  <2>1. i.rd \in Regs /\ i.rs \in Regs /\ i.target \in Nat
    BY <1>2, InsnFields
  <2>2. r' \in [Regs -> Word] /\ r'[0] = 0
    BY <1>1, <1>4, <2>1, LinkType, WriteType DEF TypeOK
  <2>3. nds \in Word
    BY <1>1, LinkType
  <2>4. JumpTarget(nds, i.target) \in Word
    <3>1. nds \in Int /\ JRegion \in Nat /\ JRegion > 0 /\ i.target \in Nat
      BY <2>1, <2>3, WordInt, JRegionAssumption
    <3> HIDE DEF nds, i
    <3>2. /\ (nds - (nds % JRegion)) + 4 * i.target - JRegion \in Int
          /\ (nds - (nds % JRegion)) + 4 * i.target - 0 \in Int
      BY <3>1
    <3> QED
      BY <3>2, UnsignedWord DEF JumpTarget
  <2>5. npc \in Word
    BY <2>1, <2>2, <2>4
  <2>6. Dispatched(JumpOps \cup BranchOps)
    BY <1>1 DEF Dispatched
  <2> QED
    BY <1>4, <2>2, <2>5, <2>6, TransferInv
<1> QED
  BY <1>3, <1>4 DEF do_jump

\* A branch, taken or not, preserves the inductive invariant.
LEMMA BranchInv == ASSUME CpuOK, do_branch PROVE CpuOK'
<1> DEFINE i == Insn
           nds == Unsigned(pc + 4)
           taken == BranchTaken(i.op, r'[i.rs], r'[i.rt])
<1>1. Dispatched(BranchOps) /\ TypeOK /\ r[0] = 0
  BY DEF do_branch, CpuOK, InternalErrorFree
<1>2. i \in Insns
  BY <1>1, DispatchedInsn
<1>3. CASE Throw("INVALID")
  BY <1>3, ThrowInv
<1>4. CASE /\ delay_slot = 0
           /\ r' = IF i.op \in {"BLTZAL", "BGEZAL"}
                   THEN [r EXCEPT ![RA] = Unsigned(pc + 8)] ELSE r
           /\ IF taken THEN Return(nds, BranchTarget(nds, i))
              ELSE Return(delay_slot, pc)
           /\ UNCHANGED <<hi, lo, mem>>
  <2>1. r' \in [Regs -> Word] /\ r'[0] = 0
    BY <1>1, <1>4, LinkType DEF TypeOK
  <2>2. CASE taken
    <3>1. nds \in Word /\ sIMM(i) \in Int
      BY <1>1, <1>2, LinkType, ImmediateTypes
    <3>2. nds + 4 * sIMM(i) \in Int
      BY <3>1, WordInt
    <3>3. BranchTarget(nds, i) \in Word
      BY <3>2, UnsignedWord DEF BranchTarget
    <3>4. Dispatched(JumpOps \cup BranchOps)
      BY <1>1 DEF Dispatched
    <3> QED
      BY <1>4, <2>1, <2>2, <3>3, <3>4, TransferInv
  <2>3. CASE ~taken
    BY <1>1, <1>4, <2>1, <2>3, SequentialInv DEF TypeOK
  <2> QED
    BY <2>2, <2>3
<1> QED
  BY <1>3, <1>4 DEF do_branch

\* The ALU instructions and LUI preserve it.
LEMMA ComputeInv ==
  ASSUME CpuOK, do_alui \/ do_alu3 \/ do_lui
  PROVE  CpuOK'
<1> DEFINE i == Insn
<1>1. TypeOK /\ r[0] = 0
  BY DEF CpuOK, InternalErrorFree
<1>2. i \in Insns
  BY <1>1, DispatchedInsn DEF do_alui, do_alu3, do_lui
<1>3. /\ i.rs \in Regs /\ i.rt \in Regs /\ i.rd \in Regs
      /\ r[i.rs] \in Word /\ r[i.rt] \in Word
  BY <1>1, <1>2, InsnFields DEF TypeOK
<1>4. ASSUME NEW n \in Regs, NEW v \in Word, r' = Write(n, v),
             Return(delay_slot, pc), UNCHANGED <<hi, lo, mem>>
      PROVE  CpuOK'
  <2>1. r' \in [Regs -> Word] /\ r'[0] = 0
    BY <1>1, <1>4, WriteType DEF TypeOK
  <2> QED
    BY <1>1, <1>4, <2>1, SequentialInv DEF TypeOK
<1>5. CASE Throw("INVALID") \/ Throw("OVERFLOW")
  BY <1>5, ThrowInv
<1>6. CASE do_alui
  <2>1. i.op \in AluiOps
    BY <1>1, <1>6, DispatchedInsn DEF do_alui
  <2>2. AluiResult(i, r[i.rs]) \in Word
    BY <1>2, <1>3, <2>1, AluiResultWord
  <2> QED
    BY <1>3, <1>4, <1>5, <1>6, <2>2 DEF do_alui
<1>7. CASE do_alu3
  <2>1. i.op \in Alu3Ops
    BY <1>1, <1>7, DispatchedInsn DEF do_alu3
  <2>2. Alu3Result(i, r[i.rs], r[i.rt]) \in Word
    BY <1>2, <1>3, <2>1, Alu3ResultWord
  <2> QED
    BY <1>3, <1>4, <1>5, <1>7, <2>2 DEF do_alu3
<1>8. CASE do_lui
  <2>1. LuiResult(i) \in Word
    BY <1>2, LuiResultWord
  <2> QED
    BY <1>3, <1>4, <1>5, <1>8, <2>1 DEF do_lui
<1> QED
  BY <1>6, <1>7, <1>8
\* A load preserves it.
LEMMA LoadInv == ASSUME CpuOK, do_load PROVE CpuOK'
<1> DEFINE i == Insn
           a == AccessAddress(i.op, ea(i))
           skip == i.rt = 0 /\ i.op \notin PartialOps
<1>1. TypeOK /\ r[0] = 0 /\ r \in [Regs -> Word] /\ mem \in [WordAddrs -> Word]
  BY DEF CpuOK, TypeOK, InternalErrorFree
<1>2. i \in Insns /\ i.op \in LoadOps /\ i.rt \in Regs
  BY <1>1, DispatchedInsn, InsnFields DEF do_load
<1>3. CASE Throw("ADDRESS")
  BY <1>3, ThrowInv
<1>4. CASE /\ skip \/ Valid(a, Alignment(i.op))
           /\ r' = IF i.rt = 0 THEN r
                   ELSE [r EXCEPT ![i.rt] =
                           LoadResult(i.op, ea(i) % 4, Peek(a), @)]
           /\ Return(delay_slot, pc)
           /\ UNCHANGED <<hi, lo, mem>>
  <2>1. CASE i.rt = 0
    BY <1>1, <1>4, <2>1, SequentialInv DEF TypeOK
  <2>2. CASE i.rt # 0
    <3>1. Valid(a, Alignment(i.op))
      BY <1>4, <2>2
    <3>2. /\ a \in Word /\ ea(i) % 4 \in 0 .. 3
          /\ Alignment(i.op) \in {1, 2, 4}
      BY <1>1, <1>2, AddressWord
    <3>3. Peek(a) \in Word
      BY <1>1, <3>1, <3>2, ValidGuest, PeekWord
    <3>4. LoadResult(i.op, ea(i) % 4, Peek(a), r[i.rt]) \in Word
      BY <1>1, <1>2, <3>2, <3>3, LoadResultWord
    <3>5. r' \in [Regs -> Word] /\ r'[0] = 0
      BY <1>1, <1>2, <1>4, <2>2, <3>4, RegsAssumption
    <3> QED
      BY <1>1, <1>4, <3>5, SequentialInv DEF TypeOK
  <2> QED
    BY <2>1, <2>2
<1> QED
  BY <1>3, <1>4 DEF do_load

\* A store preserves it: it ends a delay slot, so no slot is pending after it.
LEMMA StoreInv == ASSUME CpuOK, do_store PROVE CpuOK'
<1> DEFINE i == Insn
           a == AccessAddress(i.op, ea(i))
<1>1. TypeOK /\ r[0] = 0 /\ r \in [Regs -> Word] /\ mem \in [WordAddrs -> Word]
  BY DEF CpuOK, TypeOK, InternalErrorFree
<1>2. i \in Insns /\ i.op \in StoreOps /\ i.rt \in Regs
  BY <1>1, DispatchedInsn, InsnFields DEF do_store
<1>3. CASE Throw("ADDRESS")
  BY <1>3, ThrowInv
<1>4. CASE /\ Valid(a, Alignment(i.op))
           /\ mem' = Poke(a, StoreResult(i.op, ea(i) % 4, Peek(a), r[i.rt]))
           /\ UNCHANGED <<r, hi, lo>>
           /\ Return(delay_slot, pc)
  <2>1. /\ a \in Word /\ ea(i) % 4 \in 0 .. 3
        /\ Alignment(i.op) \in {1, 2, 4}
    BY <1>1, <1>2, AddressWord
  <2>2. WordOf(a) \in WordAddrs /\ Peek(a) \in Word
    BY <1>1, <1>4, <2>1, ValidGuest, PeekWord
  <2>3. StoreResult(i.op, ea(i) % 4, Peek(a), r[i.rt]) \in Word
    BY <1>1, <1>2, <2>1, <2>2, StoreResultWord
  <2>4. mem' \in [WordAddrs -> Word]
    BY <1>1, <1>4, <2>1, <2>2, <2>3, PokeType
  <2> QED
    BY <1>1, <1>4, <2>4, SequentialInv DEF TypeOK
<1> QED
  BY <1>3, <1>4 DEF do_store

\* A multiplication, division or move preserves it, the undefined one too.
LEMMA DivMultInv == ASSUME CpuOK, do_divmult PROVE CpuOK'
<1> DEFINE i == Insn
           res == DivMultResult(i.op, r[i.rs], r[i.rt], hi, lo)
<1>1. /\ TypeOK /\ r[0] = 0 /\ r \in [Regs -> Word] /\ hi \in Word /\ lo \in Word
      /\ mem \in [WordAddrs -> Word]
  BY DEF CpuOK, TypeOK, InternalErrorFree
<1>2. /\ i \in Insns /\ i.op \in DivMultOps
      /\ i.rs \in Regs /\ i.rt \in Regs /\ i.rd \in Regs
  BY <1>1, DispatchedInsn, InsnFields DEF do_divmult
<1>3. CASE Throw("INVALID") \/ Throw("SIGFPE")
  BY <1>3, ThrowInv
<1>4. CASE /\ r' = Write(i.rd, IF i.op = "MFHI" THEN hi ELSE lo)
           /\ Return(delay_slot, pc)
           /\ UNCHANGED <<hi, lo, mem>>
  <2>1. (IF i.op = "MFHI" THEN hi ELSE lo) \in Word
    BY <1>1
  <2>2. r' \in [Regs -> Word] /\ r'[0] = 0
    BY <1>1, <1>2, <1>4, <2>1, WriteType
  <2> QED
    BY <1>1, <1>4, <2>2, SequentialInv
<1>5. CASE /\ i.op \notin {"MFHI", "MFLO"}
           /\ hi' = res.hi /\ lo' = res.lo
           /\ UNCHANGED <<r, mem>>
           /\ Return(delay_slot, pc)
  <2>1. res.hi \in Word /\ res.lo \in Word
    BY <1>1, <1>2, <1>5, DivMultWords
  <2> QED
    BY <1>1, <1>5, <2>1, SequentialInv
<1> QED
  BY <1>3, <1>4, <1>5 DEF do_divmult

\* Every call of mips_execute preserves the types, and $0.
LEMMA ExecuteOK == ASSUME CpuOK, mips_execute PROVE CpuOK'
<1>1. CASE FetchThrow
  <2>1. FetchException \in {"ADDRESS", "INVALID"}
    BY <1>1 DEF FetchThrow, FetchException, CpuOK, InternalErrorFree
  <2> QED
    BY <1>1, <2>1, ThrowInv DEF FetchThrow
<1>2. CASE Trap
  <2>1. Insn.op \in {"SYSCALL", "BREAK"}
    BY <1>2 DEF Trap, Dispatched, TrapOps
  <2> QED
    BY <1>2, <2>1, ThrowInv DEF Trap
<1>3. CASE do_jump
  BY <1>3, JumpInv
<1>4. CASE do_branch
  BY <1>4, BranchInv
<1>5. CASE do_alui \/ do_alu3 \/ do_lui
  BY <1>5, ComputeInv
<1>6. CASE do_load
  BY <1>6, LoadInv
<1>7. CASE do_store
  BY <1>7, StoreInv
<1>8. CASE do_divmult
  BY <1>8, DivMultInv
<1> QED
  BY <1>1, <1>2, <1>3, <1>4, <1>5, <1>6, <1>7, <1>8 DEF mips_execute

(***************************************************************************)
(* The three ends of a call: an exception before the first write, an       *)
(* instruction that leaves no slot pending, or a transfer of control.      *)
(***************************************************************************)
Failed    == exn' # "OK" /\ UNCHANGED <<r, hi, lo, pc, delay_slot, mem>>
Completed == exn' = "OK" /\ delay_slot' = 0
Branched  == /\ exn' = "OK" /\ delay_slot = 0 /\ delay_slot' = pc + 4
             /\ pc \in GuestAddrs /\ InsnOf(Peek(pc)).op \in JumpOps \cup BranchOps
             /\ mem' = mem

\* Every call of mips_execute ends in one of the three ways.
LEMMA ExecuteShape ==
  ASSUME CpuOK, mips_execute
  PROVE  Failed \/ Completed \/ Branched
<1>1. r'[0] = 0
  BY ExecuteOK DEF CpuOK, InternalErrorFree
<1>2. ASSUME NEW e, e # "OK", Throw(e) PROVE Failed
  BY <1>2 DEF Throw, Failed
<1>3. ASSUME Return(delay_slot, pc) PROVE Completed
  BY <1>1, <1>3 DEF Return, Completed
<1>4. ASSUME NEW npc, delay_slot = 0, Return(Unsigned(pc + 4), npc), mem' = mem,
             Dispatched(JumpOps \cup BranchOps)
      PROVE  Branched
  <2>1. /\ pc \in GuestAddrs /\ Insn = InsnOf(Peek(pc))
        /\ exn' = "OK" /\ delay_slot' = pc + 4
    BY <1>1, <1>4, TransferSlot
  <2>2. Insn.op \in JumpOps \cup BranchOps
    BY <1>4 DEF Dispatched
  <2> QED
    BY <1>4, <2>1, <2>2 DEF Branched
<1>5. CASE FetchThrow \/ Trap
  <2>1. FetchThrow => FetchException # "OK"
    BY DEF FetchThrow
  <2>2. Trap => Insn.op # "OK"
    BY DEF Trap, Dispatched, TrapOps
  <2> QED
    BY <1>2, <1>5, <2>1, <2>2 DEF FetchThrow, Trap
<1>6. CASE do_jump
  <2>1. Dispatched(JumpOps) => Dispatched(JumpOps \cup BranchOps)
    BY DEF Dispatched
  <2> QED
    BY <1>2, <1>4, <1>6, <2>1 DEF do_jump
<1>7. CASE do_branch
  <2>1. Dispatched(BranchOps) => Dispatched(JumpOps \cup BranchOps)
    BY DEF Dispatched
  <2> QED
    BY <1>2, <1>3, <1>4, <1>7, <2>1 DEF do_branch
<1>8. CASE do_alui \/ do_alu3 \/ do_lui
  BY <1>2, <1>3, <1>8 DEF do_alui, do_alu3, do_lui
<1>9. CASE do_load \/ do_store
  BY <1>2, <1>3, <1>9 DEF do_load, do_store
<1>10. CASE do_divmult
  BY <1>2, <1>3, <1>10 DEF do_divmult
<1> QED
  BY <1>5, <1>6, <1>7, <1>8, <1>9, <1>10 DEF mips_execute

\* Every call of mips_execute preserves the inductive invariant: a slot that
\* is pending after it follows the transfer it has just executed.
LEMMA ExecuteInv == ASSUME IInv, mips_execute PROVE IInv'
<1>1. CpuOK /\ CpuOK'
  BY ExecuteOK DEF IInv
<1>2. CASE Failed
  BY <1>1, <1>2 DEF IInv, DelaySlotFollowsBranch, Failed, Peek
<1>3. CASE Completed
  BY <1>1, <1>3 DEF IInv, DelaySlotFollowsBranch, Completed
<1>4. CASE Branched
  <2>1. pc \in Nat
    BY <1>4, GuestFacts DEF Branched
  <2>2. delay_slot' - 4 = pc
    BY <1>4, <2>1 DEF Branched
  <2>3. (Peek(delay_slot - 4))' = Peek(pc)
    BY <1>4, <2>2 DEF Peek, Branched
  <2> QED
    BY <1>1, <1>4, <2>2, <2>3 DEF IInv, DelaySlotFollowsBranch, Branched
<1> QED
  BY <1>1, <1>2, <1>3, <1>4, ExecuteShape

\* Every step preserves the inductive invariant.
LEMMA NextInv == IInv /\ [Next]_vars => IInv'
<1> SUFFICES ASSUME IInv, [Next]_vars PROVE IInv'
  OBVIOUS
<1>1. CASE UNCHANGED vars
  BY <1>1 DEF vars, IInv, CpuOK, TypeOK, InternalErrorFree, DelaySlotFollowsBranch,
     Peek
<1> QED
  BY <1>1, ExecuteInv DEF Next, Killed

\* The initial state satisfies the inductive invariant.
LEMMA InitInv == Init => IInv
BY LoadedInv DEF Init

\* The inductive invariant holds in every reachable state of the CPU.
THEOREM Inductive == Spec => []IInv
BY InitInv, NextInv, PTL DEF Spec

\* The CPU state keeps its types: no register, address or memory word leaves
\* the range of mips_uword whatever mips_execute runs.
THEOREM TypeCorrect == Spec => []TypeOK
<1>1. IInv => TypeOK
  BY DEF IInv, CpuOK
<1> QED
  BY <1>1, Inductive, PTL

\* mips_execute never returns MIPS_E_ABORT, and $0 stays zero.
THEOREM NoInternalError == Spec => []InternalErrorFree
<1>1. IInv => InternalErrorFree
  BY DEF IInv, CpuOK
<1> QED
  BY <1>1, Inductive, PTL

\* The sentinel is sound: a pending delay slot of mips_execute is always the
\* word after a transfer in guest memory.
THEOREM SentinelSound == Spec => []DelaySlotFollowsBranch
<1>1. IInv => DelaySlotFollowsBranch
  BY DEF IInv
<1> QED
  BY <1>1, Inductive, PTL
----------------------------------------------------------------------------
(* The action properties.                                                  *)

(***************************************************************************)
(* "If the instruction cannot be executed, the CPU's state is left         *)
(* unchanged": every throw of mips_execute comes before the first write.   *)
(***************************************************************************)
THEOREM FailureAtomic == Spec => FailedStepIsAtomic
<1> DEFINE P == exn' \in Exceptions =>
                  UNCHANGED <<r, hi, lo, pc, delay_slot, mem>>
<1>1. ASSUME IInv, [Next]_vars PROVE P
  <2>1. CASE mips_execute
    <3>1. Failed \/ exn' = "OK"
      BY <1>1, <2>1, ExecuteShape DEF IInv, Completed, Branched
    <3> QED
      BY <3>1 DEF Failed, Exceptions
  <2>2. CASE UNCHANGED vars
    BY <2>2 DEF vars
  <2> QED
    BY <1>1, <2>1, <2>2 DEF Next, Killed
<1>2. IInv /\ [Next]_vars => [P]_vars
  BY <1>1
<1> QED
  BY <1>2, Inductive, PTL DEF Spec, FailedStepIsAtomic

\* Only a store that completes changes memory, the word it addresses; SW stores
\* the register.
LEMMA StoreStep ==
  ASSUME CpuOK, mips_execute
  PROVE  \/ mem' = mem /\ (exn' = "OK" => Insn.op \notin StoreOps)
         \/ /\ Insn.op \in StoreOps /\ exn' = "OK"
            /\ WordOf(ea(Insn)) \in GuestAddrs
            /\ \E w \in Word :
                 /\ mem' = [mem EXCEPT ![WordOf(ea(Insn))] = Enc(w)]
                 /\ Insn.op = "SW" => w = r[Insn.rt]
<1>1. CASE do_store
  <2> DEFINE i == Insn
             e == ea(i)
             a == AccessAddress(i.op, e)
             w == StoreResult(i.op, e % 4, Peek(a), r[i.rt])
  <2>1. /\ TypeOK /\ r \in [Regs -> Word] /\ mem \in [WordAddrs -> Word]
        /\ r[0] = 0
    BY DEF CpuOK, TypeOK, InternalErrorFree
  <2>2. i \in Insns /\ i.op \in StoreOps /\ i.rt \in Regs
    BY <1>1, <2>1, DispatchedInsn, InsnFields DEF do_store
  <2>3. CASE Throw("ADDRESS")
    BY <2>3 DEF Throw
  <2>4. CASE /\ Valid(a, Alignment(i.op)) /\ mem' = Poke(a, w)
             /\ r' = r /\ Return(delay_slot, pc)
    <3>1. /\ e \in Word /\ a \in Word /\ e % 4 \in 0 .. 3
          /\ Alignment(i.op) \in {1, 2, 4}
      BY <2>1, <2>2, AddressWord
    <3>2. WordOf(a) \in GuestAddrs /\ WordOf(a) \in WordAddrs /\ Peek(a) \in Word
      BY <2>1, <2>4, <3>1, ValidGuest, PeekWord
    <3>3. w \in Word
      BY <2>1, <2>2, <3>1, <3>2, StoreResultWord
    <3>4. WordOf(a) = WordOf(e)
      <4> HIDE DEF e
      <4>1. e \in Int
        BY <3>1, WordInt
      <4>2. WordOf(WordOf(e)) = WordOf(e)
        BY <4>1 DEF WordOf
      <4> QED
        BY <4>2 DEF AccessAddress
    <3>5. i.op = "SW" => w = r[i.rt]
      BY DEF StoreResult
    <3>6. exn' = "OK"
      BY <2>1, <2>4 DEF Return
    <3> QED
      BY <2>2, <2>4, <3>2, <3>3, <3>4, <3>5, <3>6 DEF Poke
  <2> QED
    BY <1>1, <2>3, <2>4 DEF do_store
<1>2. CASE ~do_store
  <2>1. mem' = mem
    BY <1>2 DEF mips_execute, FetchThrow, Trap, Throw, do_jump, do_branch, do_alui,
       do_alu3, do_lui, do_load, do_divmult
  <2>2. exn' = "OK" => Insn.op \notin StoreOps
    BY <1>2 DEF mips_execute, FetchThrow, Trap, Throw, do_jump, do_branch, do_alui,
       do_alu3, do_lui, do_load, do_divmult, Dispatched, StoreOps, TrapOps, JumpOps,
       BranchOps, AluiOps, Alu3Ops, LoadOps, DivMultOps
  <2> QED
    BY <2>1, <2>2
<1> QED
  BY <1>1, <1>2

\* No step but a store changes memory, and a store changes one guest word.
LEMMA MemoryStep ==
  ASSUME IInv, [Next]_vars
  PROVE  \/ mem' = mem
         \/ \E a \in Word, w \in Word :
              WordOf(a) \in GuestAddrs /\ mem' = Poke(a, w)
<1>1. CASE mips_execute
  <2>1. \/ mem' = mem
        \/ /\ WordOf(ea(Insn)) \in GuestAddrs
           /\ \E w \in Word : mem' = [mem EXCEPT ![WordOf(ea(Insn))] = Enc(w)]
    BY <1>1, StoreStep DEF IInv
  <2>2. ASSUME NEW a \in GuestAddrs PROVE a \in Word /\ WordOf(a) = a
    BY <2>2, GuestFacts
  <2> QED
    BY <2>1, <2>2 DEF Poke
<1>2. CASE ~mips_execute
  BY <1>2 DEF Next, Killed, vars
<1> QED
  BY <1>1, <1>2

\* No store of a guest reaches the words below MIPS_LOWBASE, where struct
\* mips_cpu itself lies.
THEOREM ControlBlockSafe == Spec => ControlBlockIntact
<1> DEFINE P == \A a \in WordAddrs \ GuestAddrs : mem'[a] = mem[a]
<1>1. ASSUME IInv, [Next]_vars PROVE P
  <2>1. CASE mem' = mem
    BY <2>1
  <2>2. ASSUME NEW b \in Word, NEW w \in Word,
               WordOf(b) \in GuestAddrs, mem' = Poke(b, w)
        PROVE  P
    BY <1>1, <2>2 DEF IInv, CpuOK, TypeOK, Poke
  <2> QED
    BY <1>1, <2>1, <2>2, MemoryStep
<1>2. IInv /\ [Next]_vars => [P]_vars
  BY <1>1
<1> QED
  BY <1>2, Inductive, PTL DEF Spec, ControlBlockIntact

----------------------------------------------------------------------------
(* Unaligned words.                                                        *)

\* The one or two words that an unaligned word lies in.
LEMMA UnalignedAddresses ==
  ASSUME NEW a \in LowBase .. (MemSz - 4)
  PROVE  LET o == a % 4
             l == a - o
             h == IF o = 0 THEN l ELSE l + 4
         IN  /\ o \in 0 .. 3 /\ a \in Nat /\ l \in Nat /\ l % 4 = 0
             /\ AccessAddress("LWR", a) = l /\ WordOf(l) = l /\ l \in WordAddrs
             /\ AccessAddress("LWL", a + 3) = h /\ WordOf(h) = h /\ h \in WordAddrs
             /\ l \in Word /\ h \in Word
             /\ (a + 3) % 4 = IF o = 0 THEN 3 ELSE o - 1
<1> DEFINE o == a % 4
           l == a - o
           h == IF o = 0 THEN l ELSE l + 4
<1>1. a \in Nat /\ a <= MemSz - 4 /\ o \in 0 .. 3
  BY MemFacts
<1>2. /\ l \in Nat /\ l % 4 = 0 /\ a = l + o
      /\ WordOf(a) = l /\ WordOf(a + 3) = h
      /\ (a + 3) % 4 = IF o = 0 THEN 3 ELSE o - 1
  BY <1>1 DEF WordOf
<1> HIDE DEF o, l
<1>3. /\ h \in Nat /\ h % 4 = 0 /\ WordOf(l) = l /\ WordOf(h) = h
      /\ l < MemSz /\ h < MemSz
  BY <1>1, <1>2, MemFacts DEF WordOf
<1>4. l \in WordAddrs /\ h \in WordAddrs /\ l \in Word /\ h \in Word
  <2> HIDE DEF h
  <2> QED
    BY <1>2, <1>3, MemFacts, Sizes DEF WordAddrs, Word
<1>5. AccessAddress("LWR", a) = l /\ AccessAddress("LWL", a + 3) = h
  BY <1>2 DEF AccessAddress, PartialOps
<1> QED
  BY <1>1, <1>2, <1>3, <1>4, <1>5 DEF o, l

\* LWL and LWR together load the four bytes at an address, SWL and SWR together
\* store them and no others, at every alignment.
LEMMA UnalignedPairs == TypeOK => UnalignedWordAccess
<1> SUFFICES ASSUME TypeOK, NEW a \in LowBase .. (MemSz - 4), NEW n \in Regs
    PROVE LET v      == r[n]
              high   == AccessAddress("LWL", a + 3)
              low    == AccessAddress("LWR", a)
              loaded == LoadResult("LWR", a % 4, Peek(low),
                                   LoadResult("LWL", (a + 3) % 4, Peek(high), v))
              w1     == StoreResult("SWL", (a + 3) % 4, Peek(high), v)
              w2     == StoreResult("SWR", a % 4,
                                    IF low = high THEN w1 ELSE Peek(low), v)
              After(x) == Bytes(IF WordOf(x) = low THEN w2 ELSE w1)[x % 4]
          IN  /\ \A k \in 0 .. 3 : Bytes(loaded)[k] = MemByte(a + k)
              /\ \A x \in low .. (high + 3) :
                   After(x) = IF a <= x /\ x < a + 4 THEN Bytes(v)[x - a]
                              ELSE MemByte(x)
  BY DEF UnalignedWordAccess
<1> DEFINE o == a % 4
           l == a - o
           h == IF o = 0 THEN l ELSE l + 4
           s == IF o = 0 THEN 3 ELSE o - 1
           v == r[n]
           ml == Peek(l)
           mh == Peek(h)
           left == LoadResult("LWL", s, mh, v)
           loaded == LoadResult("LWR", o, ml, left)
           w1 == StoreResult("SWL", s, mh, v)
           base == IF l = h THEN w1 ELSE ml
           w2 == StoreResult("SWR", o, base, v)
<1>1. /\ o \in 0 .. 3 /\ a \in Nat /\ l \in Nat /\ l % 4 = 0 /\ a = l + o
      /\ AccessAddress("LWR", a) = l /\ WordOf(l) = l /\ l \in WordAddrs
      /\ AccessAddress("LWL", a + 3) = h /\ WordOf(h) = h /\ h \in WordAddrs
      /\ l \in Word /\ h \in Word /\ (a + 3) % 4 = s
  BY UnalignedAddresses
<1>2. v \in Word /\ mem \in [WordAddrs -> Word]
  BY DEF TypeOK
<1> HIDE DEF o, l, v, ml, mh, left, loaded, w1, base, w2
<1>3. ml \in Word /\ mh \in Word /\ s \in 0 .. 3
  <2>1. ml \in Word /\ mh \in Word
    BY <1>1, <1>2, PeekWord DEF ml, mh
  <2> QED
    BY <1>1, <2>1
<1> HIDE DEF h
<1>4. left \in Word /\ w1 \in Word /\ base \in Word
  BY <1>2, <1>3, LoadResultWord, StoreResultWord DEF left, w1, base, LoadOps, StoreOps
<1>5. \A k \in 0 .. 3 :
        /\ Bytes(left)[k] = IF k >= 3 - s THEN Bytes(mh)[k - (3 - s)] ELSE Bytes(v)[k]
        /\ Bytes(loaded)[k] = IF k < 4 - o THEN Bytes(ml)[k + o] ELSE Bytes(left)[k]
        /\ Bytes(w1)[k] = IF k > s THEN Bytes(mh)[k] ELSE Bytes(v)[k + (3 - s)]
        /\ Bytes(w2)[k] = IF k < o THEN Bytes(base)[k] ELSE Bytes(v)[k - o]
  <2> HIDE DEF s
  <2>1. o \in 0 .. 3 /\ v \in Word /\ ml \in Word /\ left \in Word
    BY <1>1, <1>2, <1>3, <1>4
  <2>2. /\ \A k \in 0 .. 3 : Bytes(left)[k] =
             IF k >= 3 - s THEN Bytes(mh)[k - (3 - s)] ELSE Bytes(v)[k]
        /\ \A k \in 0 .. 3 : Bytes(w1)[k] =
             IF k > s THEN Bytes(mh)[k] ELSE Bytes(v)[k + (3 - s)]
    <3>1. s \in 0 .. 3 /\ mh \in Word /\ v \in Word
      BY <1>3, <2>1
    <3>2. \A k \in 0 .. 3 : Bytes(left)[k] =
             IF k >= 3 - s THEN Bytes(mh)[k - (3 - s)] ELSE Bytes(v)[k]
      BY <3>1, PartialBytes, Zenon DEF left
    <3>3. \A k \in 0 .. 3 : Bytes(w1)[k] =
             IF k > s THEN Bytes(mh)[k] ELSE Bytes(v)[k + (3 - s)]
      BY <3>1, PartialBytes, Zenon DEF w1
    <3> QED
      BY <3>2, <3>3
  <2>3. \A k \in 0 .. 3 :
          Bytes(loaded)[k] = IF k < 4 - o THEN Bytes(ml)[k + o] ELSE Bytes(left)[k]
    BY <2>1, PartialBytes, Zenon DEF loaded
  <2>4. \A k \in 0 .. 3 :
          Bytes(w2)[k] = IF k < o THEN Bytes(base)[k] ELSE Bytes(v)[k - o]
    <3>1. o \in 0 .. 3 /\ base \in Word /\ v \in Word
      BY <1>4, <2>1
    <3> QED
      BY <3>1, PartialBytes, Zenon DEF w2
  <2> QED
    BY <2>2, <2>3, <2>4
<1>6. ASSUME NEW j \in 0 .. 3
      PROVE  /\ WordOf(l + j) = l /\ (l + j) % 4 = j
             /\ WordOf(l + 4 + j) = l + 4 /\ (l + 4 + j) % 4 = j
             /\ MemByte(l + j) = Bytes(ml)[j]
             /\ o # 0 => MemByte(l + 4 + j) = Bytes(mh)[j]
  <2>1. /\ WordOf(l + j) = l /\ (l + j) % 4 = j
        /\ WordOf(l + 4 + j) = l + 4 /\ (l + 4 + j) % 4 = j
    BY <1>1 DEF WordOf
  <2>2. Peek(l + j) = ml
    BY <1>1, <2>1 DEF Peek, ml
  <2>3. o # 0 => Peek(l + 4 + j) = mh
    BY <1>1, <2>1 DEF Peek, mh, h
  <2> QED
    BY <2>1, <2>2, <2>3 DEF MemByte
<1>7. ASSUME NEW k \in 0 .. 3 PROVE Bytes(loaded)[k] = MemByte(a + k)
  <2>1. CASE k < 4 - o
    <3>1. k + o \in 0 .. 3 /\ a + k = l + (k + o)
      BY <1>1, <2>1
    <3> QED
      BY <1>5, <1>6, <2>1, <3>1
  <2>2. CASE ~(k < 4 - o)
    <3>1. /\ o # 0 /\ k >= 3 - s /\ k - (3 - s) = k + o - 4
          /\ k + o - 4 \in 0 .. 3 /\ a + k = l + 4 + (k + o - 4)
      BY <1>1, <2>2
    <3> QED
      BY <1>5, <1>6, <2>2, <3>1
  <2> QED
    BY <2>1, <2>2
<1>8. ASSUME NEW x \in l .. (h + 3)
      PROVE  Bytes(IF WordOf(x) = l THEN w2 ELSE w1)[x % 4] =
               IF a <= x /\ x < a + 4 THEN Bytes(v)[x - a] ELSE MemByte(x)
  <2>1. CASE x < l + 4
    <3> DEFINE j == x - l
    <3>1. j \in 0 .. 3 /\ x = l + j
      BY <1>1, <2>1
    <3> HIDE DEF j
    <3>2. WordOf(x) = l /\ x % 4 = j /\ MemByte(x) = Bytes(ml)[j]
      BY <1>6, <3>1
    <3>3. (a <= x /\ x < a + 4) <=> ~(j < o)
      BY <1>1, <3>1
    <3>4. CASE j < o
      <4>1. base = ml
        BY <1>1, <3>1, <3>4 DEF base, h
      <4> QED
        BY <1>5, <3>1, <3>2, <3>3, <3>4, <4>1
    <3>5. CASE ~(j < o)
      <4>1. x - a = j - o
        BY <1>1, <3>1
      <4> QED
        BY <1>5, <3>1, <3>2, <3>3, <3>5, <4>1
    <3> QED
      BY <3>4, <3>5
  <2>2. CASE ~(x < l + 4)
    <3> DEFINE j == x - (l + 4)
    <3>1. j \in 0 .. 3 /\ x = l + 4 + j /\ o # 0
      BY <1>1, <2>2 DEF h
    <3> HIDE DEF j
    <3>2. WordOf(x) # l /\ x % 4 = j /\ MemByte(x) = Bytes(mh)[j]
      BY <1>1, <1>6, <3>1
    <3>3. ((a <= x /\ x < a + 4) <=> ~(j > s)) /\ x - a = j + (3 - s)
      BY <1>1, <3>1
    <3> QED
      BY <1>5, <3>1, <3>2, <3>3
  <2> QED
    BY <2>1, <2>2
<1> QED
  BY <1>1, <1>7, <1>8 DEF o, l, v, ml, mh, left, loaded, w1, base, w2

\* The unaligned accesses that the compiler puts together from two instructions
\* are exact in every state of every guest.
THEOREM UnalignedExact == Spec => []UnalignedWordAccess
BY TypeCorrect, UnalignedPairs, PTL
============================================================================
