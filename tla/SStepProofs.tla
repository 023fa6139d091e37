----------------------------- MODULE SStepProofs ----------------------------
(***************************************************************************)
(* The safety of the single stepper, for targets of any length, any        *)
(* signals and every order of the steps of the two processes.              *)
(***************************************************************************)
EXTENDS SStep, TLAPS

\* The child waits for the parent, or the parent has not heard of it yet.
Moving == child \in {"forked", "traced", "stepping"}
Resting == child \in {"stopped", "ended"}

(***************************************************************************)
(* What the two processes know of each other at each place of the parent.  *)
(* While it waits, either the child has work to do and nothing has         *)
(* happened since the last look, or there is news of at most one           *)
(* instruction.  While it looks, the child can at most be killed.          *)
(***************************************************************************)
InStep ==
  /\ parent \in ParentPlaces /\ insns \in Nat /\ seen \in Nat
  /\ parent = "fork" => child = "none" /\ news = "none" /\ insns = seen
  /\ parent = "wait" =>
       \/ Moving /\ news = "none" /\ insns = seen
       \/ Resting /\ news # "none" /\ insns <= seen + 1
  /\ parent \in {"test", "step"} =>
       Resting /\ insns = seen /\ (child = "stopped" => news = "none")

\* Before the fork there is no child and no news.
LEMMA InitInStep == SStepInit => InStep
BY DEF SStepInit, InStep, ParentPlaces

\* The parent's steps.
LEMMA ParentInStep == ASSUME InStep, ParentNext PROVE InStep'
<1>1. CASE Fork
  BY <1>1 DEF Fork, InStep, ParentPlaces, Moving
<1>2. CASE Wait
  <2>1. Resting /\ child' = child /\ parent' = "test" /\ news' = "none"
    BY <1>2 DEF Wait, InStep
  <2>2. insns' = insns /\ seen' = insns
    BY <1>2 DEF Wait
  <2> QED
    BY <2>1, <2>2 DEF InStep, ParentPlaces, Resting
<1>3. CASE Test
  BY <1>3 DEF Test, InStep, ParentPlaces, Resting
<1>4. CASE SingleStep
  BY <1>4 DEF SingleStep, InStep, ParentPlaces, Moving, Resting
<1> QED
  BY <1>1, <1>2, <1>3, <1>4 DEF ParentNext

\* The child's steps, and a kill, move it from Moving to Resting.
LEMMA ChildInStep == ASSUME InStep, ChildNext \/ Kill PROVE InStep'
<1>1. "none" \notin Signals
  BY SStepAssumption
<1>2. CASE Traceme
  BY <1>2 DEF Traceme, Ends, InStep, ParentPlaces, Moving, Resting
<1>3. CASE Execve
  BY <1>3 DEF Execve, StopsWith, Ends, InStep, ParentPlaces, Moving, Resting
<1>4. CASE Step
  BY <1>1, <1>4 DEF Step, StopsWith, Ends, InStep, ParentPlaces, Moving, Resting
<1>5. CASE Run
  BY <1>5 DEF Run, Ends, InStep, ParentPlaces, Moving, Resting
<1>6. CASE Detach
  BY <1>6 DEF Detach, Ends, InStep, ParentPlaces, Moving, Resting
<1>7. CASE Kill
  BY <1>7 DEF Kill, Ends, InStep, ParentPlaces, Moving, Resting
<1> QED
  BY <1>2, <1>3, <1>4, <1>5, <1>6, <1>7 DEF ChildNext

(***************************************************************************)
(* The target of sstep never runs ahead of the wait of its parent,         *)
(* whatever kills or stops it and in whatever order the two run.           *)
(***************************************************************************)
THEOREM NeverRunsAhead == SStepSpec => []NothingUnstepped
<1>1. InStep /\ [SStepNext]_ssvars => InStep'
  <2> SUFFICES ASSUME InStep, [SStepNext]_ssvars PROVE InStep'
    OBVIOUS
  <2>1. CASE UNCHANGED ssvars
    BY <2>1 DEF ssvars, InStep, Moving, Resting
  <2> QED
    BY <2>1, ParentInStep, ChildInStep DEF SStepNext, SStepDone
<1>2. InStep => NothingUnstepped
  BY DEF InStep, NothingUnstepped, ParentPlaces
<1> QED
  BY <1>1, <1>2, InitInStep, PTL DEF SStepSpec
============================================================================
