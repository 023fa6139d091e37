--------------------------- MODULE MCExecuteLoop ---------------------------
(***************************************************************************)
(* Small instances of the whole simulator: programs of five words that     *)
(* call services, in and out of delay slots.                               *)
(***************************************************************************)
EXTENDS ExecuteLoop, MCGuest

LoopMenu == <<
  Nop,                                        \* 0
  JType("SYSCALL", 0),                        \* 1: a service
  [JType("SYSCALL", 0) EXCEPT !.code = 1],    \* 2: none
  JType("BREAK", 0),                          \* 3
  JType("J", 3),                              \* 4: to address 12
  RType("JR", 0, 28, 0),                      \* 5: to _gp
  RType("JR", 0, 31, 0),                      \* 6: to 0
  IType("LW", 31, 28, 1),                     \* 7: not aligned
  IType("ORI", 2, 0, 1),                      \* 8: print_int
  IType("ORI", 2, 0, 9),                      \* 9: sbrk
  IType("ORI", 2, 0, 14),                     \* 10: read ...
  IType("ORI", 5, 28, 0),                     \* 11: ... to _gp
  IType("ORI", 6, 0, 4)>>                     \* 12: ... four bytes

Image(w) ==
  [a \in WordAddrs |-> IF a < LowBase THEN 0
                       ELSE IF a <= 20 THEN Enc(w[a \div 4]) ELSE Enc(0)]

Started(w, e) == [image |-> Image(w), entry |-> e, gp |-> 16, end |-> 24]

\* Three free words between the choice of the service and a BREAK.
Services3 ==
  {Started(<<s, x, y, z, 3>>, 4) :
     s \in {8, 9}, x \in 0 .. 7, y \in 0 .. 7, z \in 0 .. 7}

\* A read of four bytes over the SYSCALL at 16 that asked for it.
ReadOver == {Started(<<10, 11, 12, 1, z>>, e) : z \in {0, 1, 3, 5}, e \in {4, 6}}

\* One that ends in front of it, and one that covers its first two bytes.
ReadBefore ==
  {[Started(<<10, 11, 12, 1, z>>, 4) EXCEPT !.gp = g] : z \in {0, 1, 3}, g \in {12, 14}}

LoopPrograms == Services3 \cup ReadOver \cup ReadBefore

LoopFiles == {<<>>, <<0, 0, 0, 0>>, <<1, 0, 0, 0>>, <<3, 0, 0, 0>>, <<2>>}
============================================================================
