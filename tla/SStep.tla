------------------------------- MODULE SStep -------------------------------
(***************************************************************************)
(* The single stepper (hostapps/sstep.c): a parent that forks, waits for   *)
(* its child to stop and lets it run one instruction at a time, and a      *)
(* child that asks to be traced and becomes the target program.  The two   *)
(* interleave; fork, wait, ptrace and the target itself are the host's.    *)
(***************************************************************************)
EXTENDS Naturals

CONSTANTS
  MaxInsns,  \* how many instructions a target runs at most
  Signals    \* other than SIGTRAP, those that an instruction may cause

VARIABLES
  parent,  \* where main of the parent is
  status,  \* the parent's variable status
  child,   \* what the child is doing
  news,    \* the stop or the end of the child that wait has not reported
  insns,   \* history: the instructions the target has run
  seen     \* history: how many they were when wait last returned

ssvars == <<parent, status, child, news, insns, seen>>

ASSUME SStepAssumption ==
  MaxInsns \in Nat /\ Signals \cap {"SIGTRAP", "none", "ended"} = {}

ParentPlaces == {"fork", "wait", "test", "step", "exit"}

\* "stepping": it runs one instruction; "running": it runs without a tracer.
ChildStates == {"none", "forked", "traced", "stopped", "stepping", "running", "ended"}

Reports == {"none", "SIGTRAP", "ended"} \cup Signals

SStepInit ==
  /\ parent = "fork" /\ status = "none"
  /\ child = "none" /\ news = "none"
  /\ insns = 0 /\ seen = 0

Ends == child' = "ended" /\ news' = "ended"
StopsWith(s) == child' = "stopped" /\ news' = s

----------------------------------------------------------------------------
(* The parent: main, then do_step.                                         *)

Fork ==
  /\ parent = "fork"
  /\ \/ parent' = "exit" /\ UNCHANGED child
     \/ parent' = "wait" /\ child' = "forked"
  /\ UNCHANGED <<status, news, insns, seen>>

\* There always is a child, so wait does not fail.
Wait ==
  /\ parent = "wait" /\ news # "none"
  /\ status' = news /\ news' = "none"
  /\ seen' = insns
  /\ parent' = "test"
  /\ UNCHANGED <<child, insns>>

\* Mutant: the signal is not compared with SIGTRAP.
Test_anysignal ==
  /\ parent = "test"
  /\ parent' = IF status # "ended" THEN "step" ELSE "exit"
  /\ UNCHANGED <<status, child, news, insns, seen>>

\* The condition of the while loop.
Test ==
  /\ parent = "test"
  /\ parent' = IF status = "SIGTRAP" THEN "step" ELSE "exit"
  /\ UNCHANGED <<status, child, news, insns, seen>>

\* Mutant: PTRACE_CONT.
SingleStep_cont ==
  /\ parent = "step"
  /\ IF child = "stopped" THEN child' = "running" /\ parent' = "wait"
     ELSE parent' = "exit" /\ UNCHANGED child
  /\ UNCHANGED <<status, news, insns, seen>>

\* PTRACE_SINGLESTEP fails if somebody has killed the target meanwhile; the
\* signal that the target stopped with is not delivered to it.
SingleStep ==
  /\ parent = "step"
  /\ IF child = "stopped" THEN child' = "stepping" /\ parent' = "wait"
     ELSE parent' = "exit" /\ UNCHANGED child
  /\ UNCHANGED <<status, news, insns, seen>>

----------------------------------------------------------------------------
(* The child.                                                              *)

Traceme ==
  /\ child = "forked"
  /\ \/ child' = "traced" /\ UNCHANGED news
     \/ Ends
  /\ UNCHANGED <<parent, status, insns, seen>>

\* A traced child stops when execve has succeeded.
Execve ==
  /\ child = "traced"
  /\ StopsWith("SIGTRAP") \/ Ends
  /\ UNCHANGED <<parent, status, insns, seen>>

\* One instruction of the target: done, the last one, or the cause of a signal.
Step ==
  /\ child = "stepping"
  /\ \/ insns < MaxInsns /\ insns' = insns + 1 /\ StopsWith("SIGTRAP")
     \/ Ends /\ UNCHANGED insns
     \/ \E s \in Signals : StopsWith(s) /\ UNCHANGED insns
  /\ UNCHANGED <<parent, status, seen>>

\* Without a tracer nothing stops it.
Run ==
  /\ child = "running"
  /\ \/ insns < MaxInsns /\ insns' = insns + 1 /\ UNCHANGED <<child, news>>
     \/ Ends /\ UNCHANGED insns
  /\ UNCHANGED <<parent, status, seen>>

\* The tracer has exited: the target goes on, or dies of its pending signal.
Detach ==
  /\ parent = "exit" /\ child = "stopped"
  /\ \/ child' = "running" /\ UNCHANGED news
     \/ status \in Signals /\ Ends
  /\ UNCHANGED <<parent, status, insns, seen>>

\* Somebody else kills the target.
Kill ==
  /\ child \in {"stopped", "stepping", "running"}
  /\ Ends
  /\ UNCHANGED <<parent, status, insns, seen>>

----------------------------------------------------------------------------
ParentNext == Fork \/ Wait \/ Test \/ SingleStep
ChildNext == Traceme \/ Execve \/ Step \/ Run \/ Detach

SStepDone == parent = "exit" /\ child \in {"none", "ended"} /\ UNCHANGED ssvars

SStepNext == ParentNext \/ ChildNext \/ Kill \/ SStepDone

\* The host's scheduler runs both processes; a kill may never come.
SStepSpec == SStepInit /\ [][SStepNext]_ssvars
               /\ WF_ssvars(ParentNext) /\ WF_ssvars(ChildNext)

----------------------------------------------------------------------------
(* Properties.                                                             *)

(***************************************************************************)
(* While there is a stepper, the target never runs ahead of it: the        *)
(* parent has looked at the child after every instruction but the last     *)
(* one, and when it is about to step, the child has not moved since.       *)
(***************************************************************************)
NothingUnstepped ==
  parent # "exit" =>
    /\ insns <= seen + 1
    /\ parent \in {"test", "step"} => insns = seen

(***************************************************************************)
(* The stepper ends when its target does, in every order of the steps of   *)
(* the two processes: no end or stop of the child is missed, whether       *)
(* tracing or the target could not be started, the target faults for ever  *)
(* at one instruction or is killed between a wait and the next step.       *)
(***************************************************************************)
StepperEnds == <>(parent = "exit")
============================================================================
