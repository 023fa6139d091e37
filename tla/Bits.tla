-------------------------------- MODULE Bits -------------------------------
(***************************************************************************)
(* The bitwise operators and shifts of C on words of n bits, for the       *)
(* constant BitOp of module Words.  The community module Bitwise is        *)
(* recursive, which is why the provers' modules do not see this one.       *)
(***************************************************************************)
EXTENDS Integers, Bitwise

LeftShift(x, k, n) == (x * 2^k) % 2^n

RightShift(x, k) == x \div 2^k

\* x >> k of a negative number shifts in copies of the sign bit.
ArithmeticShift(x, k, n) ==
  IF x >= 2^(n - 1) THEN ((x - 2^n) \div 2^k) + 2^n ELSE RightShift(x, k)

BitOpN(o, x, y, n) ==
  CASE o = "AND" -> x & y
    [] o = "OR"  -> x | y
    [] o = "XOR" -> x ^^ y
    [] o = "NOR" -> (2^n - 1) - (x | y)
    [] o = "SLL" -> LeftShift(x, y, n)
    [] o = "SRL" -> RightShift(x, y)
    [] o = "SRA" -> ArithmeticShift(x, y, n)
============================================================================
