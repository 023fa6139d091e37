------------------------------ MODULE MCGuest ------------------------------
(***************************************************************************)
(* Small instances of the machine for TLC: bytes of two bits, words of     *)
(* eight.  The first word of the memory is the control block, the last     *)
(* StkSz bytes are the stack.  An instruction word is an index into Menu;  *)
(* a program is any choice from it in the words between.                   *)
(***************************************************************************)
EXTENDS Cpu, Bits, Sequences

CONSTANT Menu   \* the instructions words 0, 1, 2 ... encode; the rest are invalid

MCBitOp(o, x, y) == BitOpN(o, x, y, WordBits)

Nop == [op |-> "SLL", rs |-> 0, rt |-> 0, rd |-> 0, sa |-> 0, imm |-> 0,
        target |-> 0, code |-> 0]

MCInsnOf(w) == IF w < Len(Menu) THEN Menu[w + 1] ELSE [Nop EXCEPT !.op = "NONE"]

\* Any permutation of the words that moves all of them would do.
MCEnc(w) == (3 * w + 5) % 256
MCDec(w) == (171 * (w + 251)) % 256

Code == {a \in GuestAddrs : a < MemSz - StkSz}

\* Every program over the words n .. m of the menu.
ProgramsOf(n, m, entries, gps) ==
  {[image |-> [a \in WordAddrs |-> IF a \in Code THEN Enc(c[a]) ELSE 0],
    entry |-> e, gp |-> g] : c \in [Code -> n .. m], e \in entries, g \in gps}

RType(op, rd, rs, rt) == [Nop EXCEPT !.op = op, !.rd = rd, !.rs = rs, !.rt = rt]
IType(op, rt, rs, imm) == [Nop EXCEPT !.op = op, !.rt = rt, !.rs = rs, !.imm = imm]
JType(op, target) == [Nop EXCEPT !.op = op, !.target = target]
============================================================================
