----------------------------- MODULE MCSyscalls ----------------------------
(***************************************************************************)
(* Small instances of the services.  The guest's code is one SYSCALL at    *)
(* the entry point, after it comes a string of four characters.            *)
(***************************************************************************)
EXTENDS Syscalls, MCGuest

CONSTANT Ends   \* the values of the _end symbol, where the break starts

SysMenu == <<Nop, JType("SYSCALL", 0), [JType("SYSCALL", 0) EXCEPT !.code = 1],
             JType("BREAK", 0)>>

\* The word at 4 is a SYSCALL or a BREAK, the word at 8 holds bytes 1, 1, 1, 1.
SysPrograms ==
  {[image |-> [a \in WordAddrs |-> CASE a = 4 -> Enc(w)
                                     [] a = 8 -> Enc(1 + B + Half + B * Half)
                                     [] a < LowBase -> 0
                                     [] OTHER -> Enc(0)],
    entry |-> 4, gp |-> 20, end |-> d] :
     w \in {1, 3}, d \in Ends}

Call(s, x, y, z) == [v0 |-> s, a0 |-> x, a1 |-> y, a2 |-> z]

\* The services that use descriptors or the break, and two that do not exist.
FileCalls == {
  Call(13, 10, 0, 0), Call(13, 12, 2, 0), Call(13, 8, 1, 0), Call(13, 0, 1, 0),
  Call(13, 12, 3, 0),
  Call(14, 3, 13, 2), Call(14, 4, 13, 1), Call(14, 5, 13, 1),
  Call(15, 3, 8, 2), Call(15, 1, 58, 1), Call(15, 1, 58, 2), Call(15, 255, 8, 1),
  Call(16, 3, 0, 0), Call(16, 4, 0, 0), Call(16, 2, 0, 0), Call(16, 128, 0, 0),
  Call(2, 3, 1, 2), Call(2, 0, 1, 0), Call(2, 3, 1, 3), Call(2, 4, 0, 0),
  Call(9, 20, 0, 0), Call(3, 0, 0, 0), Call(7, 0, 0, 0), Call(17, 0, 0, 0)}

\* The services that read or write the guest's memory.
BufferCalls == {
  Call(1, 7, 0, 0), Call(4, 8, 0, 0), Call(4, 59, 0, 0), Call(4, 200, 0, 0),
  Call(5, 0, 0, 0), Call(11, 9, 0, 0), Call(12, 0, 0, 0),
  Call(8, 8, 3, 0), Call(8, 58, 5, 0), Call(8, 2, 3, 0), Call(8, 13, 0, 0),
  Call(8, 254, 9, 0),
  Call(14, 0, 13, 2), Call(14, 0, 57, 2), Call(14, 0, 58, 2), Call(14, 0, 3, 2),
  Call(14, 0, 250, 10), Call(14, 9, 13, 2),
  Call(15, 1, 57, 2), Call(15, 1, 2, 4), Call(15, 1, 250, 10)}

\* A full line, a line cut by the end of the input, and the end itself.
MCLines == {[chars |-> <<2, 3, 1>>, eof |-> FALSE], [chars |-> <<3>>, eof |-> TRUE],
            [chars |-> <<>>, eof |-> TRUE]}

MCFiles == {<<>>, <<3>>, <<1, 2, 3>>}

MCCalls == FileCalls \cup BufferCalls
============================================================================
