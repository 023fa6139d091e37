-------------------------------- MODULE Arch -------------------------------
(***************************************************************************)
(* What mips_execute promises: a MIPS I processor with branch delay slots  *)
(* and precise exceptions, as the programmer of a guest sees it.  It has   *)
(* two program counters, no register $0, and a memory of plain words; it   *)
(* knows nothing of the delay_slot sentinel, of the control block below    *)
(* LowBase or of an encrypted memory.                                      *)
(***************************************************************************)
EXTENDS Words

CONSTANTS
  Addrs,      \* the addresses of the words of memory, multiples of 4
  InsnOf(_),  \* the instruction a word encodes
  StackTop    \* the initial stack pointer

VARIABLES
  R,       \* the registers other than $0
  HI, LO,  \* the multiply and divide registers
  PC,      \* the instruction to execute
  nPC,     \* the one after it
  slot,    \* PC is the delay slot of a transfer that was taken
  M,       \* the memory
  trap     \* the exception the last step raised, or "OK"

avars == <<R, HI, LO, PC, nPC, slot, M, trap>>

----------------------------------------------------------------------------
Reg(n) == IF n = 0 THEN 0 ELSE R[n]

SetReg(n, v) == IF n = 0 THEN R ELSE [R EXCEPT ![n] = v]

I == InsnOf(M[PC])

Address(i) == AccessAddress(i.op, Unsigned(Reg(i.rs) + uIMM(i)))

Offset(i) == Unsigned(Reg(i.rs) + uIMM(i)) % 4

Accessible(i) == /\ WordOf(Address(i)) \in Addrs
                 /\ Address(i) % Alignment(i.op) = 0

\* An instruction whose result would go to $0 neither traps nor loads.
Discards(i) ==
  \/ i.op \in {"LB", "LBU", "LH", "LHU", "LW", "ADDI"} /\ i.rt = 0
  \/ i.op \in {"ADD", "SUB"} /\ i.rd = 0

(***************************************************************************)
(* The cause of a trap.  A transfer in a delay slot is an invalid          *)
(* instruction (MIPS leaves it undefined).                                 *)
(***************************************************************************)
Cause ==
  CASE PC \notin Addrs -> "ADDRESS"
    [] PC \in Addrs /\ \/ I.op = "NONE"
                       \/ Malformed(I)
                       \/ slot /\ I.op \in JumpOps \cup BranchOps -> "INVALID"
    [] PC \in Addrs /\ I.op \in TrapOps -> I.op
    [] PC \in Addrs /\ I.op \in LoadOps \cup StoreOps /\ ~Discards(I)
         /\ ~Accessible(I) -> "ADDRESS"
    [] PC \in Addrs /\ ~Malformed(I) /\ ~Discards(I)
         /\ I.op \in {"ADDI", "ADD", "SUB"}
         /\ Overflows(WideSum(I, Reg(I.rs), Reg(I.rt))) -> "OVERFLOW"
    [] OTHER -> "OK"

----------------------------------------------------------------------------
\* Any program, entered with only the global and stack pointers set.
Boot ==
  /\ R \in [Regs \ {0} -> Word]
  /\ \A n \in Regs \ {0, 28} : R[n] = IF n = 29 THEN StackTop ELSE 0
  /\ HI = 0 /\ LO = 0
  /\ PC \in Word /\ nPC = Unsigned(PC + 4) /\ slot = FALSE
  /\ M \in [Addrs -> Word]
  /\ trap = "OK"

\* A trap is precise: nothing else changes, so the instruction can be rerun.
TakeTrap ==
  /\ Cause # "OK"
  /\ trap' = Cause
  /\ UNCHANGED <<R, HI, LO, PC, nPC, slot, M>>

\* The instructions that go on to the next one.
Continue ==
  /\ PC' = nPC /\ nPC' = Unsigned(nPC + 4) /\ slot' = FALSE /\ trap' = "OK"

\* The instructions that go on to t after the delay slot.
Transfer(t) ==
  /\ PC' = nPC /\ nPC' = t /\ slot' = TRUE /\ trap' = "OK"

LinkReg(i) == CASE i.op \in {"JAL", "BLTZAL", "BGEZAL"} -> RA
                [] i.op = "JALR" -> i.rd
                [] OTHER -> 0

\* A linking transfer that reads its own link register sees the new value.
Operand(i, n) == IF n # 0 /\ n = LinkReg(i) THEN Unsigned(PC + 8) ELSE Reg(n)

\* J and JAL keep the high four address bits of the delay slot.
Jump ==
  /\ Cause = "OK" /\ I.op \in JumpOps
  /\ R' = SetReg(LinkReg(I), Unsigned(PC + 8))
  /\ Transfer(IF I.op \in {"J", "JAL"}
              THEN Unsigned((nPC - (nPC % (2 * JRegion))) + 4 * I.target)
              ELSE Operand(I, I.rs))
  /\ UNCHANGED <<HI, LO, M>>

Branch ==
  /\ Cause = "OK" /\ I.op \in BranchOps
  /\ R' = SetReg(LinkReg(I), Unsigned(PC + 8))
  /\ \/ /\ BranchTaken(I.op, Operand(I, I.rs), Operand(I, I.rt))
        /\ Transfer(BranchTarget(nPC, I))
     \/ /\ ~BranchTaken(I.op, Operand(I, I.rs), Operand(I, I.rt))
        /\ Continue
  /\ UNCHANGED <<HI, LO, M>>

\* The instructions whose only result goes to a general purpose register.
Compute ==
  /\ Cause = "OK"
  /\ \/ /\ I.op \in AluiOps
        /\ R' = SetReg(I.rt, AluiResult(I, Reg(I.rs)))
     \/ /\ I.op \in Alu3Ops
        /\ R' = SetReg(I.rd, Alu3Result(I, Reg(I.rs), Reg(I.rt)))
     \/ /\ I.op = "LUI"
        /\ R' = SetReg(I.rt, LuiResult(I))
     \/ /\ I.op \in {"MFHI", "MFLO"}
        /\ R' = SetReg(I.rd, IF I.op = "MFHI" THEN HI ELSE LO)
  /\ Continue
  /\ UNCHANGED <<HI, LO, M>>

Load ==
  /\ Cause = "OK" /\ I.op \in LoadOps
  /\ R' = IF I.rt = 0 THEN R
          ELSE [R EXCEPT ![I.rt] =
                  LoadResult(I.op, Offset(I), M[WordOf(Address(I))], @)]
  /\ Continue
  /\ UNCHANGED <<HI, LO, M>>

Store ==
  /\ Cause = "OK" /\ I.op \in StoreOps
  /\ M' = [M EXCEPT ![WordOf(Address(I))] =
             StoreResult(I.op, Offset(I), @, Reg(I.rt))]
  /\ Continue
  /\ UNCHANGED <<R, HI, LO>>

\* The one quotient that does not exist is unpredictable and may be fatal.
MulDiv ==
  /\ Cause = "OK" /\ I.op \in DivMultOps \ {"MFHI", "MFLO"}
  /\ UNCHANGED <<R, M>>
  /\ \/ LET res == DivMultResult(I.op, Reg(I.rs), Reg(I.rt), HI, LO)
        IN  HI' = res.hi /\ LO' = res.lo /\ Continue
     \/ /\ QuotientUnrepresentable(I.op, Reg(I.rs), Reg(I.rt))
        /\ trap' = "SIGFPE"
        /\ UNCHANGED <<HI, LO, PC, nPC, slot>>

ANext == TakeTrap \/ Jump \/ Branch \/ Compute \/ Load \/ Store \/ MulDiv

ASpec == Boot /\ [][ANext]_avars
============================================================================
