---------------------------- MODULE TortureProofs ---------------------------
(***************************************************************************)
(* What the torture runners report of the last branch, for every test,     *)
(* every set of labels and both levels.                                    *)
(***************************************************************************)
EXTENDS Torture, CpuProofs

(***************************************************************************)
(* The branch whose slot is pending is the last one taken; when no slot is *)
(* pending the runner has already noted it, because the call of            *)
(* mips_execute that executed the slot came after a turn of the loop.      *)
(***************************************************************************)
BranchNoted ==
  /\ delay_slot # 0 => taken = delay_slot - 4
  /\ at \in {"start", "head"} /\ delay_slot = 0 => last_branch = taken
  /\ at \in {"execute", "check", "end"} => last_branch = taken

TortureInv == CpuOK /\ BranchNoted

\* The loaded test has taken no branch.
LEMMA TortureInitInv == TortureInit => TortureInv
<1> SUFFICES ASSUME TortureInit PROVE TortureInv
  OBVIOUS
<1>1. PICK p \in Programs : Loaded(p)
  BY DEF TortureInit
<1>2. CpuOK
  BY <1>1, LoadedInv DEF IInv
<1>3. delay_slot = 0
  BY <1>1 DEF Loaded
<1> QED
  BY <1>2, <1>3 DEF TortureInv, BranchNoted, TortureInit

\* A call of the engine: only a transfer that is taken leaves a slot pending.
LEMMA TortureExecuteInv == ASSUME TortureInv, Execute PROVE TortureInv'
<1>1. CpuOK /\ mips_execute /\ at = "execute" /\ last_branch = taken
  BY DEF Execute, TortureInv, BranchNoted
<1>2. CpuOK'
  BY <1>1, ExecuteOK
<1>3. at' \in {"head", "killed", "check"} /\ last_branch' = last_branch
  BY DEF Execute
<1>4. CASE Failed
  <2>1. at' \in {"killed", "check"} /\ taken' = taken /\ delay_slot' = delay_slot
    BY <1>4 DEF Failed, Execute
  <2> QED
    BY <1>1, <1>2, <1>3, <2>1 DEF TortureInv, BranchNoted
<1>5. CASE Completed
  <2>1. at' = "head" /\ taken' = taken /\ delay_slot' = 0
    BY <1>5 DEF Completed, Execute
  <2> QED
    BY <1>1, <1>2, <1>3, <2>1 DEF TortureInv, BranchNoted
<1>6. CASE Branched
  <2>1. pc \in Nat /\ pc + 4 # 0
    BY <1>6, GuestFacts DEF Branched
  <2>2. at' = "head" /\ taken' = pc /\ delay_slot' = pc + 4
    BY <1>6, <2>1 DEF Branched, Execute
  <2> QED
    BY <1>2, <2>1, <2>2 DEF TortureInv, BranchNoted
<1> QED
  BY <1>1, <1>4, <1>5, <1>6, ExecuteShape

\* The other steps leave the engine alone, or move its PC past two words.
LEMMA TortureNextInv == TortureInv /\ [TortureNext]_tvars => TortureInv'
<1> SUFFICES ASSUME TortureInv, [TortureNext]_tvars PROVE TortureInv'
  OBVIOUS
<1>1. UNCHANGED vars => CpuOK'
  BY DEF vars, TortureInv, CpuOK, TypeOK, InternalErrorFree
<1>2. CASE Start
  <2>1. at' \in {"head", "exit", "break2", "undefined"}
    BY <1>2 DEF Start
  <2> QED
    BY <1>1, <1>2, <2>1 DEF Start, vars, TortureInv, BranchNoted
<1>3. CASE LoopHead
  <2>1. at = "head" /\ at' \in {"execute", "undefined"} /\ UNCHANGED <<vars, taken>>
    BY <1>3 DEF LoopHead
  <2>2. last_branch' = IF delay_slot # 0 THEN delay_slot - 4 ELSE last_branch
    BY <1>3 DEF LoopHead
  <2> QED
    BY <1>1, <2>1, <2>2 DEF vars, TortureInv, BranchNoted
<1>4. CASE Execute
  BY <1>4, TortureExecuteInv
<1>5. CASE Check
  <2>1. pc' \in Word
    BY <1>5, WordInt, UnsignedWord DEF Check, TortureInv, CpuOK, TypeOK
  <2>2. CpuOK'
    BY <1>5, <2>1 DEF Check, TortureInv, CpuOK, TypeOK, InternalErrorFree
  <2>3. at' \in {"head", "end", "undefined"} /\ at = "check"
    BY <1>5 DEF Check
  <2> QED
    BY <1>5, <2>2, <2>3 DEF Check, TortureInv, BranchNoted
<1>6. CASE UNCHANGED tvars
  BY <1>1, <1>6 DEF tvars, vars, TortureInv, BranchNoted
<1> QED
  BY <1>2, <1>3, <1>4, <1>5, <1>6 DEF TortureNext, TortureDone

(***************************************************************************)
(* The address that runtorture and run-lvl1 print as the last branch is    *)
(* that of the last transfer the engine took.                              *)
(***************************************************************************)
THEOREM BranchReportExact == TortureSpec => []LastBranchExact
<1>1. TortureInv => LastBranchExact
  BY DEF TortureInv, BranchNoted, LastBranchExact
<1> QED
  BY <1>1, TortureInitInv, TortureNextInv, PTL DEF TortureSpec
============================================================================
