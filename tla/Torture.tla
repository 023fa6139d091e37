------------------------------ MODULE Torture ------------------------------
(***************************************************************************)
(* The two runners of the CPU torture test: hostapps/runtorture.c on the   *)
(* host (level 0), and mipsapps/run-lvl1.c (level 1), which is itself a    *)
(* MIPS program and simulates the test on a simulated machine.  Both run   *)
(* the engine, report the labels they meet, and go on behind an exception  *)
(* at a label EXNxxxx, which marks an instruction that should fail.        *)
(***************************************************************************)
EXTENDS Cpu, ElfFile

CONSTANTS
  Levels,       \* the runners: {0}, {1} or both
  CommonPrefix  \* how many characters a name has in common with "EXN"

VARIABLES
  level,        \* which runner this is
  sym,          \* the file, its shsymtab, and its shsymstr as the index of
                \* a section: [f, tab, str]
  at,           \* where the runner is
  last_branch,  \* its local variable, a size_t or an unsigned
  printed,      \* the last label it printed, or NULL
  taken         \* the branch last taken, by the steps of the engine

tvars == <<vars, level, sym, at, last_branch, printed, taken>>

----------------------------------------------------------------------------
(* Labels.                                                                 *)

Find(addr) == mips_elf_find_address(sym.f, sym.tab, MemSz, addr)

\* The name of the symbol at or before this address, NULL or BEHIND.
Nearest(addr) ==
  CASE Find(addr) = OUTSIDE -> BEHIND
    [] Find(addr) = 0       -> NULL
    [] OTHER                -> mips_elf_get_symname(sym.f, sym.str, Find(addr))

\* The name of a symbol at exactly this address, NULL or BEHIND.
Label(addr) ==
  IF Find(addr) > 0 /\ sym.f.sym[Find(addr)].value # addr THEN NULL
  ELSE Nearest(addr)

(***************************************************************************)
(* What beginswith(name, "EXN") of run-lvl1.c may return: it looks behind  *)
(* the first character that differs, for a name that has all three behind  *)
(* the end of "EXN".                                                       *)
(***************************************************************************)
beginswith(name) ==
  CASE CommonPrefix[name] < 2 -> {0}
    [] CommonPrefix[name] = 2 -> {1}
    [] CommonPrefix[name] = 3 -> {0, 1}

\* The outcomes of the test: strncmp(...) == 0, beginswith(...) == 0.
Tolerated(name) ==
  IF level = 0 THEN {CommonPrefix[name] = 3}
  ELSE {v = 0 : v \in beginswith(name)}

----------------------------------------------------------------------------
(* The runners.                                                            *)

TortureInit ==
  /\ \E p \in Programs : Loaded(p) /\ sym = p.sym
  /\ level \in Levels
  /\ at = "start"
  /\ last_branch = 0 /\ taken = 0
  /\ printed = NULL

(***************************************************************************)
(* Level 0 exits if there is no memory or prepare_cpu fails.  Level 1 asks *)
(* for its memory with sbrk, which fails with -1 and not with the 0 it     *)
(* tests for, and ends with BREAK(2) if mips_elf_load fails.               *)
(***************************************************************************)
Start ==
  /\ at = "start"
  /\ at' \in {"head"} \cup (IF level = 0 THEN {"exit"} ELSE {"break2", "undefined"})
  /\ UNCHANGED <<vars, level, sym, last_branch, printed, taken>>

\* printaddr of PC, which has a label, and of the last branch.
Prints(branch) == Label(pc) \notin {NULL, BEHIND} /\ Nearest(branch) # BEHIND

\* Mutant: the address of the slot, not of the branch.
LoopHead_slot ==
  /\ at = "head" /\ at' = "execute"
  /\ last_branch' = IF delay_slot # 0 THEN delay_slot ELSE last_branch
  /\ printed' = IF Label(pc) # NULL THEN Label(pc) ELSE printed
  /\ UNCHANGED <<vars, level, sym, taken>>

\* A label is printed; or there is none; or the look-ups read behind the file.
LoopHead ==
  /\ at = "head"
  /\ last_branch' = IF delay_slot # 0 THEN delay_slot - 4 ELSE last_branch
  /\ \/ Prints(last_branch') /\ at' = "execute" /\ printed' = Label(pc)
     \/ Label(pc) = NULL /\ at' = "execute" /\ UNCHANGED printed
     \/ /\ Label(pc) # NULL /\ ~Prints(last_branch')
        /\ at' = "undefined" /\ UNCHANGED printed
  /\ UNCHANGED <<vars, level, sym, taken>>

Execute ==
  /\ at = "execute"
  /\ mips_execute
  /\ at' = CASE exn' = "OK"     -> "head"
             [] exn' = "SIGFPE" -> "killed"
             [] OTHER           -> "check"
  /\ taken' = IF delay_slot = 0 /\ delay_slot' # 0 THEN pc ELSE taken
  /\ UNCHANGED <<level, sym, last_branch, printed>>

\* Mutant: PC is not moved.
Check_stay ==
  /\ at = "check"
  /\ at' = IF Label(pc) \notin {NULL, BEHIND} /\ TRUE \in Tolerated(Label(pc))
           THEN "head" ELSE "end"
  /\ UNCHANGED <<vars, level, sym, last_branch, printed, taken>>

(***************************************************************************)
(* A tolerated exception skips the instruction at PC and the BREAK behind  *)
(* it; after any other the runner reports PC and the last branch.          *)
(***************************************************************************)
Check ==
  LET reported == {Nearest(pc), Nearest(last_branch)}
      fails    == \/ level = 1 /\ exn = "BREAK"
                  \/ Label(pc) \in {NULL, BEHIND}
  IN  /\ at = "check"
      /\ \E yes \in IF fails THEN {FALSE} ELSE Tolerated(Label(pc)) :
           \/ yes /\ at' = "head" /\ pc' = Unsigned(pc + 8)
           \/ ~yes /\ BEHIND \notin reported /\ at' = "end" /\ UNCHANGED pc
           \/ ~yes /\ BEHIND \in reported /\ at' = "undefined" /\ UNCHANGED pc
      /\ UNCHANGED <<r, hi, lo, delay_slot, mem, exn>>
      /\ UNCHANGED <<level, sym, last_branch, printed, taken>>

TortureDone ==
  at \in {"end", "exit", "break2", "undefined", "killed"} /\ UNCHANGED tvars

TortureNext == Start \/ LoopHead \/ Execute \/ Check \/ TortureDone

\* The runner is a single thread.
TortureSpec == TortureInit /\ [][TortureNext]_tvars /\ WF_tvars(TortureNext)

----------------------------------------------------------------------------
(* Properties.                                                             *)

(***************************************************************************)
(* The last_branch the runner reports is the branch or jump that was taken *)
(* last, although it is only seen between two calls of mips_execute, and   *)
(* also when the exception came in its delay slot or was tolerated.        *)
(***************************************************************************)
LastBranchExact == at \in {"execute", "check", "end"} => last_branch = taken

(***************************************************************************)
(* The runner ends, or the test executes instructions for ever: it cannot  *)
(* tolerate the same exception over and over, not even one in a delay slot *)
(* whose branch goes to a label EXNxxxx, which it does not get past.       *)
(***************************************************************************)
TortureProgress == <>(at \notin {"start", "head", "execute", "check"})
                     \/ []<>(at = "head" /\ exn = "OK")
============================================================================
