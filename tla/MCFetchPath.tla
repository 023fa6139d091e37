---------------------------- MODULE MCFetchPath ----------------------------
(***************************************************************************)
(* The cipher on half words of four bits, with keys of three bytes of two  *)
(* bits each: every half word and every shift occurs.  The decoder with    *)
(* the field widths of the code: every opcode, every function of SPECIAL   *)
(* and every rt of REGIMM, with a few values in the other fields.          *)
(***************************************************************************)
EXTENDS FetchPath, Bits

MCBitOp(o, x, y) == BitOpN(o, x, y, WordBits)

MCPow == [n \in 0 .. WSZ |-> 2^n]

HexTexts == {<<0, 1, 1, 0, c, d>> : c \in 0 .. 1, d \in 0 .. 1}

\* Too short, too long, a digit missing, blanks, and no digit at all.
OddTexts == {<<0, 1>>, <<0, 1, 1, 0, 1, 1, 0>>, <<1, Other, 0, 1, 1, 1>>,
             <<Blank, 1, 0, Blank, 1, 1>>, <<Other, 1, 0, 1, 1, 1>>,
             <<0, 1, 1, 1, Blank, Blank>>}

AllTexts == HexTexts \cup OddTexts

MCInsnWords ==
  [op : {0}, funct : 0 .. 63, rt : {0, 1, 31}]
    \cup [op : {1}, funct : {0, 8, 63}, rt : 0 .. 31]
    \cup [op : 2 .. 63, funct : {0, 8, 63}, rt : {0, 1, 31}]
============================================================================
