-------------------------------- MODULE Cpu --------------------------------
(***************************************************************************)
(* The execution engine (vm/cpuemu.c): the CPU state, mips_execute with    *)
(* the handlers it dispatches to, mips_break_code and mips_resume.  One    *)
(* step of Next is one call of mips_execute, which either completes an     *)
(* instruction or throws an exception by longjmp out of the handler.       *)
(***************************************************************************)
EXTENDS Words

CONSTANTS
  MemSz,      \* memsz, the size of the memory in bytes
  StkSz,      \* stksz, the part of it reserved for the stack
  LowBase,    \* MIPS_LOWBASE; struct mips_cpu itself lies below it
  InsnOf(_),  \* the instruction a word encodes: mips_decode and the fields
  Enc(_),     \* the transformation poke_uw applies to a stored word ...
  Dec(_),     \* ... and the one peek_uw applies to a fetched word
  Programs    \* what mips_elf_load may leave in memory and registers

VARIABLES
  r,           \* r.ur, the general purpose registers
  hi, lo,      \* the multiply and divide registers
  pc,          \* pc
  delay_slot,  \* delay_slot: 0, or the address to be executed first
  mem,         \* the words at base, as stored (Enc'ed)
  exn          \* what the last mips_execute returned

vars == <<r, hi, lo, pc, delay_slot, mem, exn>>

Exceptions == {"OVERFLOW", "ADDRESS", "INVALID", "SYSCALL", "BREAK", "ABORT"}

\* The addresses of words in the simulated memory, and in the guest's part.
WordAddrs  == {a \in 0 .. (MemSz - 1) : a % 4 = 0}
GuestAddrs == {a \in WordAddrs : a >= LowBase}

ASSUME MemAssumption ==
  /\ MemSz \in Nat /\ MemSz % 4 = 0
  /\ LowBase \in Nat /\ LowBase % 4 = 0 /\ 0 < LowBase
  /\ StkSz \in Nat /\ LowBase < MemSz - StkSz
  \* Every caller of mips_init_cpu asks for a few megabytes.
  /\ MemSz < JRegion /\ MemSz + 4 < W

ASSUME InsnAssumption == \A w \in Word : InsnOf(w) \in Insns

ASSUME CipherAssumption ==
  \A w \in Word : Enc(w) \in Word /\ Dec(w) \in Word /\ Dec(Enc(w)) = w

\* The limits mips_elf_load checks: the entry point is not aligned by it.
ASSUME ProgramsAssumption ==
  \A p \in Programs :
    /\ p.image \in [WordAddrs -> Word]
    /\ p.entry \in LowBase .. (MemSz - StkSz - 1)
    /\ p.gp \in LowBase .. (MemSz - StkSz - 1)

----------------------------------------------------------------------------
(* Memory access.                                                          *)

\* Mutant: the lower limit is not checked.
Valid_nolow(a, n) == a < MemSz /\ a % n = 0

\* validate_address, for an alignment of n bytes.
Valid(a, n) == LowBase <= a /\ a < MemSz /\ a % n = 0

\* The word mips_peek_* reads through peek_uw; a must be a valid address.
Peek(a) == Dec(mem[WordOf(a)])

\* Mutant: the identity poke beside a transforming peek.
Poke_identity(a, w) == [mem EXCEPT ![WordOf(a)] = w]

\* mem after poke_uw has stored w in the word that contains a.
Poke(a, w) == [mem EXCEPT ![WordOf(a)] = Enc(w)]

----------------------------------------------------------------------------
(* mips_init_cpu followed by a successful mips_elf_load.                   *)

Loaded(p) ==
  /\ r = [n \in Regs |-> CASE n = 28 -> p.gp
                           [] n = 29 -> MemSz - 4
                           [] OTHER  -> 0]
  /\ hi = 0 /\ lo = 0
  /\ pc = p.entry /\ delay_slot = 0
  /\ mem = p.image
  /\ exn = "OK"

Init == \E p \in Programs : Loaded(p)

----------------------------------------------------------------------------
(* mips_execute: the fetch, and the end of a call.                         *)

Current == IF delay_slot # 0 THEN delay_slot ELSE pc

Insn == InsnOf(Peek(Current))

Throw(e) == exn' = e /\ UNCHANGED <<r, hi, lo, pc, delay_slot, mem>>

\* Why mips_execute throws before it dispatches, or "OK".
FetchException ==
  CASE ~Valid(Current, 4) -> "ADDRESS"
    [] Valid(Current, 4) /\ Insn.op = "NONE" -> "INVALID"
    [] Valid(Current, 4) /\ Insn.op # "NONE" /\ r[0] # 0 -> "ABORT"
    [] OTHER -> "OK"

\* do_dispatch selects the handler of the opcodes ops.
Dispatched(ops) ==
  exn # "SIGFPE" /\ FetchException = "OK" /\ Insn.op \in ops

\* Mutant: the handler assigns PC before it computes DELAY_SLOT from it.
Return_order(nds, npc) ==
  /\ exn' = "OK"
  /\ delay_slot' = IF delay_slot # 0 \/ nds = 0 THEN 0 ELSE Unsigned(npc + 4)
  /\ pc' = IF delay_slot = 0 /\ nds = 0 THEN Unsigned(npc + 4) ELSE npc

(***************************************************************************)
(* What mips_execute does after a handler returned: nds and npc are        *)
(* DELAY_SLOT and PC as the handler left them.  The test of fdelay is a    *)
(* test of delay_slot before the step, the test of !DELAY_SLOT one of nds. *)
(***************************************************************************)
Return(nds, npc) ==
  IF r'[0] # 0
  THEN exn' = "ABORT" /\ delay_slot' = nds /\ pc' = npc
  ELSE /\ exn' = "OK"
       /\ delay_slot' = IF delay_slot # 0 THEN 0 ELSE nds
       /\ pc' = IF delay_slot = 0 /\ nds = 0 THEN Unsigned(npc + 4) ELSE npc

\* Mutant: the write is not suppressed for $0.
Write_zero(n, v) == [r EXCEPT ![n] = v]

\* The macros uW and sW: a write to $0 is dropped.
Write(n, v) == IF n # 0 THEN [r EXCEPT ![n] = v] ELSE r

----------------------------------------------------------------------------
(* The steps.                                                              *)

\* The fetch throws, the word does not decode, or $0 was found overwritten.
FetchThrow ==
  /\ exn # "SIGFPE"
  /\ FetchException # "OK"
  /\ Throw(FetchException)

\* The link register is written before the target is read from rs.
do_jump ==
  LET i   == Insn
      nds == Unsigned(pc + 4)
      npc == IF i.op \in {"J", "JAL"} THEN JumpTarget(nds, i.target)
             ELSE r'[i.rs]
  IN  /\ Dispatched(JumpOps)
      /\ \/ /\ delay_slot # 0 \/ Malformed(i)
            /\ Throw("INVALID")
         \/ /\ delay_slot = 0 /\ ~Malformed(i)
            /\ r' = CASE i.op = "JAL"  -> [r EXCEPT ![RA] = Unsigned(pc + 8)]
                      [] i.op = "JALR" -> Write(i.rd, Unsigned(pc + 8))
                      [] OTHER         -> r
            /\ Return(nds, npc)
            /\ UNCHANGED <<hi, lo, mem>>

\* BLTZAL and BGEZAL link first, even when they do not branch.
do_branch ==
  LET i     == Insn
      nds   == Unsigned(pc + 4)
      taken == BranchTaken(i.op, r'[i.rs], r'[i.rt])
  IN  /\ Dispatched(BranchOps)
      /\ \/ /\ delay_slot # 0 \/ Malformed(i)
            /\ Throw("INVALID")
         \/ /\ delay_slot = 0 /\ ~Malformed(i)
            /\ r' = IF i.op \in {"BLTZAL", "BGEZAL"}
                    THEN [r EXCEPT ![RA] = Unsigned(pc + 8)] ELSE r
            /\ IF taken THEN Return(nds, BranchTarget(nds, i))
               ELSE Return(delay_slot, pc)
            /\ UNCHANGED <<hi, lo, mem>>

\* add_ovf is an argument of uW and sW: not evaluated when rt is $0.
do_alui ==
  LET i    == Insn
      ovfl == i.op = "ADDI" /\ i.rt # 0 /\ Overflows(WideSum(i, r[i.rs], 0))
  IN  /\ Dispatched(AluiOps)
      /\ \/ ovfl /\ Throw("OVERFLOW")
         \/ /\ ~ovfl
            /\ r' = Write(i.rt, AluiResult(i, r[i.rs]))
            /\ Return(delay_slot, pc)
            /\ UNCHANGED <<hi, lo, mem>>

\* Mutant: the overflowing sum is stored before the check throws.
do_alu3_late ==
  LET i == Insn
  IN  /\ Dispatched({"ADD", "SUB"}) /\ ~Malformed(i)
      /\ r' = Write(i.rd, Alu3Result(i, r[i.rs], r[i.rt]))
      /\ exn' = IF Overflows(WideSum(i, r[i.rs], r[i.rt])) THEN "OVERFLOW" ELSE "OK"
      /\ UNCHANGED <<hi, lo, pc, delay_slot, mem>>

do_alu3 ==
  LET i    == Insn
      ovfl == /\ i.op \in {"ADD", "SUB"} /\ i.rd # 0
              /\ Overflows(WideSum(i, r[i.rs], r[i.rt]))
  IN  /\ Dispatched(Alu3Ops)
      /\ \/ Malformed(i) /\ Throw("INVALID")
         \/ ~Malformed(i) /\ ovfl /\ Throw("OVERFLOW")
         \/ /\ ~Malformed(i) /\ ~ovfl
            /\ r' = Write(i.rd, Alu3Result(i, r[i.rs], r[i.rt]))
            /\ Return(delay_slot, pc)
            /\ UNCHANGED <<hi, lo, mem>>

do_lui ==
  LET i == Insn
  IN  /\ Dispatched({"LUI"})
      /\ \/ Malformed(i) /\ Throw("INVALID")
         \/ /\ ~Malformed(i)
            /\ r' = Write(i.rt, LuiResult(i))
            /\ Return(delay_slot, pc)
            /\ UNCHANGED <<hi, lo, mem>>

ea(i) == Unsigned(r[i.rs] + uIMM(i))

\* A load into $0 does not access memory, except LWL and LWR.
do_load ==
  LET i    == Insn
      a    == AccessAddress(i.op, ea(i))
      skip == i.rt = 0 /\ i.op \notin PartialOps
  IN  /\ Dispatched(LoadOps)
      /\ \/ ~skip /\ ~Valid(a, Alignment(i.op)) /\ Throw("ADDRESS")
         \/ /\ skip \/ Valid(a, Alignment(i.op))
            /\ r' = IF i.rt = 0 THEN r
                    ELSE [r EXCEPT ![i.rt] =
                            LoadResult(i.op, ea(i) % 4, Peek(a), @)]
            /\ Return(delay_slot, pc)
            /\ UNCHANGED <<hi, lo, mem>>

do_store ==
  LET i == Insn
      a == AccessAddress(i.op, ea(i))
  IN  /\ Dispatched(StoreOps)
      /\ \/ ~Valid(a, Alignment(i.op)) /\ Throw("ADDRESS")
         \/ /\ Valid(a, Alignment(i.op))
            /\ mem' = Poke(a, StoreResult(i.op, ea(i) % 4, Peek(a), r[i.rt]))
            /\ UNCHANGED <<r, hi, lo>>
            /\ Return(delay_slot, pc)

(***************************************************************************)
(* The quotient of the least number by -1 is undefined in C: a build       *)
(* wraps around or is killed by the host (the process has no later state). *)
(***************************************************************************)
do_divmult ==
  LET i   == Insn
      res == DivMultResult(i.op, r[i.rs], r[i.rt], hi, lo)
  IN  /\ Dispatched(DivMultOps)
      /\ \/ Malformed(i) /\ Throw("INVALID")
         \/ /\ ~Malformed(i) /\ i.op \in {"MFHI", "MFLO"}
            /\ r' = Write(i.rd, IF i.op = "MFHI" THEN hi ELSE lo)
            /\ Return(delay_slot, pc)
            /\ UNCHANGED <<hi, lo, mem>>
         \/ /\ ~Malformed(i) /\ i.op \notin {"MFHI", "MFLO"}
            /\ hi' = res.hi /\ lo' = res.lo
            /\ UNCHANGED <<r, mem>>
            /\ Return(delay_slot, pc)
         \/ /\ ~Malformed(i) /\ QuotientUnrepresentable(i.op, r[i.rs], r[i.rt])
            /\ Throw("SIGFPE")

\* SYSCALL and BREAK are thrown by do_dispatch itself.
Trap == Dispatched(TrapOps) /\ Throw(Insn.op)

\* A process killed by the host takes no further step.
Killed == exn = "SIGFPE" /\ UNCHANGED vars

mips_execute ==
  \/ FetchThrow \/ Trap
  \/ do_jump \/ do_branch
  \/ do_alui \/ do_alu3 \/ do_lui
  \/ do_load \/ do_store \/ do_divmult

Next == mips_execute \/ Killed

Spec == Init /\ [][Next]_vars

----------------------------------------------------------------------------
(* What the embedder calls between two calls of mips_execute.              *)

\* What mips_break_code decodes: the word at pc, whatever faulted.
OpAtPC == IF Valid(pc, 4) THEN InsnOf(Peek(pc)).op ELSE "NONE"

\* The code field of a SYSCALL or BREAK at pc, or -1.
mips_break_code == IF OpAtPC \in TrapOps THEN InsnOf(Peek(pc)).code ELSE -1

\* mips_resume: it returns -1 and leaves PC when no SYSCALL or BREAK is there.
Resumed == IF OpAtPC \in TrapOps THEN Unsigned(pc + 4) ELSE pc

----------------------------------------------------------------------------
(* The architecture it implements: the guest sees two program counters,    *)
(* registers without $0 and the decrypted words from LowBase up.           *)

GuestView(m) == [a \in GuestAddrs |-> Dec(m[a])]

A == INSTANCE Arch WITH
  Addrs <- GuestAddrs,
  StackTop <- MemSz - 4,
  R     <- [n \in Regs \ {0} |-> r[n]],
  HI    <- hi,
  LO    <- lo,
  PC    <- Current,
  nPC   <- IF delay_slot # 0 THEN pc ELSE Unsigned(pc + 4),
  slot  <- delay_slot # 0,
  M     <- GuestView(mem),
  trap  <- exn

----------------------------------------------------------------------------
(* Properties.                                                             *)

TypeOK ==
  /\ r \in [Regs -> Word]
  /\ hi \in Word /\ lo \in Word
  /\ pc \in Word /\ delay_slot \in Word
  /\ mem \in [WordAddrs -> Word]
  /\ exn \in Exceptions \cup {"OK", "SIGFPE"}

(***************************************************************************)
(* MIPS_E_ABORT, "Internal emulator error", is never returned: no handler  *)
(* writes $0, through the link register or any other way, so neither of    *)
(* the two tests of uR(0) in mips_execute ever fires.                      *)
(***************************************************************************)
InternalErrorFree == exn # "ABORT" /\ r[0] = 0

(***************************************************************************)
(* A pending delay slot is the word after a jump or a branch: that         *)
(* instruction lies in the guest's memory, so delay_slot can be neither 0  *)
(* by accident (the sentinel of mips_execute) nor unaligned, and a pending *)
(* slot is never confused with the slot of another instruction.            *)
(***************************************************************************)
DelaySlotFollowsBranch ==
  delay_slot # 0 =>
    /\ delay_slot - 4 \in GuestAddrs
    /\ InsnOf(Peek(delay_slot - 4)).op \in JumpOps \cup BranchOps

(***************************************************************************)
(* cpu.h of mips_execute: "If the instruction cannot be executed, the      *)
(* CPU's state is left unchanged, and an exception is raised".             *)
(***************************************************************************)
FailedStepIsAtomic ==
  [][exn' \in Exceptions =>
       UNCHANGED <<r, hi, lo, pc, delay_slot, mem>>]_vars

(***************************************************************************)
(* The CPU's own structure lies at base, below MIPS_LOWBASE: no store of   *)
(* the guest, whatever its size, alignment or wrapped address, reaches it. *)
(***************************************************************************)
ControlBlockIntact ==
  [][\A a \in WordAddrs \ GuestAddrs : mem'[a] = mem[a]]_vars

\* The byte the guest sees at x.
MemByte(x) == Bytes(Peek(x))[x % 4]

(***************************************************************************)
(* What the compiler relies on for unaligned data: LWL at a+3 and LWR at a *)
(* together load the four bytes at a, SWL and SWR together store them and  *)
(* change no other byte.  The shifts of do_loadstore that are not used at  *)
(* the offsets 0 and 3 make no difference.                                 *)
(***************************************************************************)
UnalignedWordAccess ==
  \A a \in LowBase .. (MemSz - 4) : \A n \in Regs :
    LET v      == r[n]
        high   == AccessAddress("LWL", a + 3)
        low    == AccessAddress("LWR", a)
        loaded == LoadResult("LWR", a % 4, Peek(low),
                             LoadResult("LWL", (a + 3) % 4, Peek(high), v))
        w1     == StoreResult("SWL", (a + 3) % 4, Peek(high), v)
        w2     == StoreResult("SWR", a % 4, IF low = high THEN w1 ELSE Peek(low), v)
        After(x) == Bytes(IF WordOf(x) = low THEN w2 ELSE w1)[x % 4]
    IN  /\ \A k \in 0 .. 3 : Bytes(loaded)[k] = MemByte(a + k)
        /\ \A x \in low .. (high + 3) :
             After(x) = IF a <= x /\ x < a + 4 THEN Bytes(v)[x - a] ELSE MemByte(x)

(***************************************************************************)
(* Every call of mips_execute is a step of the architecture: the encoding  *)
(* of the delay slot by pc, delay_slot and the sentinel 0, the order of    *)
(* the writes in the handlers, the physical $0 and the peek/poke vector    *)
(* are all invisible to the guest.                                         *)
(***************************************************************************)
ImplementsArch == A!ASpec
============================================================================
