---------------------------- MODULE ExecuteLoop ----------------------------
(***************************************************************************)
(* The driver of the simulator (hostapps/util.c, execute_loop): it calls   *)
(* mips_execute until that returns an exception, asks mips_break_code what *)
(* happened, lets mips_spim_syscall serve a SYSCALL and goes on behind it  *)
(* with mips_resume.  Each call is a step, stage is the place in the loop. *)
(***************************************************************************)
EXTENDS Syscalls

VARIABLES
  stage,    \* where execute_loop is
  opcode,   \* its local variable, uninitialised at first
  report    \* the "END" line it printed; "KILLED" if the process died

lvars == <<vars, svars, stage, opcode, report>>

Stages == {"execute", "switch", "service", "resume", "end"}

Reports == {"NONE", "BREAK", "INVALID_CODE", "FAULTED", "EXCEPTION", "KILLED"}

\* The switch tells BREAK, SYSCALL and everything else apart.
Garbage == {"BREAK", "SYSCALL", "NONE"}

LoopStart(p) ==
  /\ SysStart(p)
  /\ stage = "execute"
  /\ opcode \in Garbage
  /\ report = "NONE"

LoopInit == \E p \in Programs : LoopStart(p)

Stop(why) == stage' = "end" /\ report' = why

----------------------------------------------------------------------------
(* The steps.                                                              *)

LoopExecute ==
  /\ stage = "execute"
  /\ mips_execute
  /\ \/ exn' = "OK" /\ UNCHANGED <<stage, report>>
     \/ exn' \in Exceptions /\ stage' = "switch" /\ UNCHANGED report
     \/ exn' = "SIGFPE" /\ Stop("KILLED")
  /\ UNCHANGED <<svars, opcode>>

\* Mutant: the opcode is not set by mips_break_code.
FoundOpcode_stale == opcode

\* mips_break_code leaves *opcode alone when the word at pc cannot be read.
FoundOpcode == IF Valid(pc, 4) THEN OpAtPC ELSE opcode

\* Mutant: the code field is not compared.
LoopSwitch_nocode ==
  /\ stage = "switch"
  /\ opcode' = FoundOpcode
  /\ \/ opcode' = "SYSCALL" /\ stage' = "service" /\ UNCHANGED report
     \/ opcode' = "BREAK" /\ Stop("BREAK")
     \/ opcode' \notin TrapOps /\ Stop("EXCEPTION")
  /\ res' = "NONE"
  /\ UNCHANGED <<vars, brk, fds, open>>

LoopSwitch ==
  /\ stage = "switch"
  /\ opcode' = FoundOpcode
  /\ \/ opcode' = "BREAK" /\ Stop("BREAK") /\ UNCHANGED res
     \/ /\ opcode' = "SYSCALL" /\ mips_break_code # SpimCode
        /\ Stop("INVALID_CODE") /\ UNCHANGED res
     \/ /\ opcode' = "SYSCALL" /\ mips_break_code = SpimCode
        /\ stage' = "service" /\ res' = "NONE" /\ UNCHANGED report
     \/ opcode' \notin TrapOps /\ Stop("EXCEPTION") /\ UNCHANGED res
  /\ UNCHANGED <<vars, brk, fds, open>>

LoopService ==
  /\ stage = "service"
  /\ mips_spim_syscall
  /\ \/ res' = "OK" /\ stage' = "resume" /\ UNCHANGED report
     \/ res' \in {"FAIL", "ADDRESS", "ABORT"} /\ Stop("FAULTED")
     \/ res' \in {"ASSERT", "UNDEFINED"} /\ Stop("KILLED")
  /\ UNCHANGED opcode

\* Mutant: PC is left at the SYSCALL.
LoopResume_stay ==
  /\ stage = "resume" /\ stage' = "execute"
  /\ UNCHANGED <<vars, svars, opcode, report>>

\* The result of mips_resume is ignored.
LoopResume ==
  /\ stage = "resume"
  /\ pc' = Resumed
  /\ stage' = "execute"
  /\ UNCHANGED <<r, hi, lo, delay_slot, mem, exn, svars, opcode, report>>

LoopStep == LoopExecute \/ LoopSwitch \/ LoopService \/ LoopResume

LoopDone == stage = "end" /\ UNCHANGED lvars

LoopSpec == LoopInit /\ [][LoopStep \/ LoopDone]_lvars

----------------------------------------------------------------------------
(* Properties.                                                             *)

LoopTypeOK ==
  /\ SysTypeOK
  /\ stage \in Stages
  /\ opcode \in Opcodes \cup {"NONE"}
  /\ report \in Reports

(***************************************************************************)
(* A service is performed only when PC is at a SYSCALL with the SPIM code: *)
(* an opcode left over from an earlier exception, or never set, cannot     *)
(* start one, and between the test in execute_loop and the handler the     *)
(* instruction does not change.  If no delay slot is pending it is the     *)
(* SYSCALL the engine stopped at; if one is, the engine may have stopped   *)
(* in the slot for another reason: see ServiceForSyscall.                  *)
(***************************************************************************)
ServiceWasRequested ==
  stage = "service" =>
    /\ exn # "OK"
    /\ OpAtPC = "SYSCALL" /\ mips_break_code = SpimCode
    /\ delay_slot = 0 => exn = "SYSCALL"

(***************************************************************************)
(* cpu.h:235-237: the opcode mips_break_code gives is that "of the         *)
(* faulting instruction", and "If the faulting instruction is              *)
(* SYSCALL/BREAK, the code field is returned".  So a service is performed  *)
(* for a SYSCALL only, and not for an instruction that failed in the slot  *)
(* of a jump to one.                                                       *)
(***************************************************************************)
ServiceForSyscall == stage = "service" => exn = "SYSCALL"

(***************************************************************************)
(* mips_resume decodes the word at PC again, after the service has run:    *)
(* it goes behind a SYSCALL only if it is still there.  A service leaves   *)
(* its own SYSCALL in memory unless the guest named a buffer that contains *)
(* it, so mips_resume goes behind any other one.                           *)
(***************************************************************************)
SyscallIsKept ==
  [][stage = "service" /\ stage' = "resume" =>
       \/ OpAtPC' = "SYSCALL"
       \/ \E k \in 0 .. 3 : (pc + k) \in Buffer \cup EmptyBufferEnd]_lvars

(***************************************************************************)
(* Outside a delay slot, and when the instruction can be read, the loop    *)
(* reports what happened: BREAK for a BREAK, the code or the service for a *)
(* SYSCALL, and EXCEPTION for neither.                                     *)
(***************************************************************************)
ReportNamesException ==
  delay_slot = 0 /\ Valid(pc, 4) =>
    /\ report = "BREAK" => exn = "BREAK"
    /\ report \in {"INVALID_CODE", "FAULTED"} => exn = "SYSCALL"
    /\ report = "EXCEPTION" => exn \in Exceptions \ TrapOps

(***************************************************************************)
(* run.c:31-33: the code is printed "If the exception is caused by BREAK   *)
(* or unsupported SYSCALL instruction": not when the fetch at pc failed.   *)
(***************************************************************************)
FailedFetchIsException ==
  delay_slot = 0 /\ exn = "ADDRESS" /\ ~Valid(pc, 4) /\ stage = "end" =>
    report = "EXCEPTION"
============================================================================
