----------------------------- MODULE FetchPath -----------------------------
(***************************************************************************)
(* What mips_execute does with a word of an encrypted memory before it has *)
(* an instruction: the peek of the vector decrypts it (module Rc5), and    *)
(* mips_decode finds its opcode (module Decode).  Neither of the two uses  *)
(* the state of the other, so a behaviour follows one of them while the    *)
(* other rests: the cipher for a key and a word, or the decoder for the    *)
(* fields of an instruction.                                               *)
(***************************************************************************)
EXTENDS Decode, Rc5

VARIABLE part   \* the one that the behaviour follows: "cipher" or "decoder"

fvars == <<dvars, rvars, part>>

DecoderRests == insn = [op |-> 0, funct |-> 0, rt |-> 0] /\ opcode = -1 /\ Gvalid_opcodes = {}

CipherRests ==
  /\ text = <<>> /\ pt = 0
  /\ phase = "exit"
  /\ S = [n \in 0 .. (T - 1) |-> 0] /\ L = [n \in 0 .. (LL - 1) |-> 0]
  /\ X = 0 /\ Y = 0 /\ i = 0 /\ j = 0 /\ k = 0
  /\ trail = [n \in 1 .. R |-> <<0, 0>>]

FetchInit ==
  \/ part = "cipher"  /\ Rc5Init /\ DecoderRests
  \/ part = "decoder" /\ DecodeInit /\ CipherRests

FetchNext ==
  \/ part = "cipher"  /\ Rc5Next /\ UNCHANGED <<dvars, part>>
  \/ part = "decoder" /\ DecodeNext /\ UNCHANGED <<rvars, part>>

FetchSpec == FetchInit /\ [][FetchNext]_fvars
============================================================================
