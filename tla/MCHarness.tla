----------------------------- MODULE MCHarness -----------------------------
(***************************************************************************)
(* Small instances of the host programs.  The benchmark is a guest of five *)
(* words that copies its first parameter, or what happens to be there, to  *)
(* one or both words of TIME, and ends in different ways; its data lie     *)
(* between the code and the stack.  run runs the guests of MCExecuteLoop.  *)
(***************************************************************************)
EXTENDS Harness, MCExecuteLoop

HarnessMenu == LoopMenu \o <<
  IType("LW", 2, 28, 8),                      \* 13: the first parameter, _gp - 8
  IType("LW", 2, 28, 12),                     \* 14: the second
  IType("SW", 2, 28, 0),                      \* 15: the low word of TIME
  IType("SW", 2, 28, 4),                      \* 16: the high word
  IType("SB", 2, 28, 5),                      \* 17: a byte of it
  JType("BREAK", 0),                          \* 18
  JType("SYSCALL", 0)>>                       \* 19: a service

At(v, n) == [value |-> v, size |-> n]

Bench(w, p, t) ==
  [image |-> Image(w), entry |-> 4, gp |-> 32, end |-> 40,
   sym |-> [PARAMS |-> p, TIME |-> t, l2_elf |-> p, l2_elf_size |-> t]]

\* PARAMS and TIME where the guest looks for them.
GoodGuests ==
  {Bench(<<x, y, z, u, 18>>, At(24, 8), At(32, 8)) :
     x \in {13, 14}, y \in {15, 16}, z \in 13 .. 19, u \in 15 .. 19}

\* Symbols that are missing, of a wrong size, unaligned or out of memory.
OddGuests ==
  {Bench(<<13, 15, 14, 16, 18>>, p, t) :
     p \in {Missing, At(24, 0), At(24, 6), At(26, 4), At(24, 4), At(0, 4), At(52, 8),
            At(56, 8), At(248, 12)},
     t \in {Missing, At(32, 4), At(32, 8), At(34, 8), At(33, 4), At(52, 8), At(56, 8),
            At(57, 4), At(58, 2), At(2, 4), At(24, 8)}}

CommandsOf(t, files, inputs) == [tool : {t}, file : files, input : inputs]

BenchInputs == {<<>>, <<7>>, <<7, 200>>, <<7, 200, 9>>}

FileInputs == {<<>>, <<1>>, <<3, 2, 1, 1, 2>>, <<1, 2, 3, 1, 2, 3, 1, 2, 3>>}

\* run and runbench take a key, load-lvl1 does not.
KeyCommands ==
  CommandsOf("run", LoopPrograms, {<<>>})
    \cup CommandsOf("runbench", GoodGuests \cup OddGuests, BenchInputs)

KeyPrograms == LoopPrograms \cup GoodGuests \cup OddGuests

PlainCommands == CommandsOf("load-lvl1", GoodGuests \cup OddGuests, FileInputs)

PlainPrograms == GoodGuests \cup OddGuests

Plain(w) == w
============================================================================
