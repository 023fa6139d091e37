-------------------------------- MODULE Rc5 --------------------------------
(***************************************************************************)
(* The cipher of the encrypted memory (hostapps/rc5-16.c): the conversion  *)
(* of the user's key, its expansion, and the encryption and decryption of  *)
(* one block, which is one word of the simulated machine.  An RC5_WORD is  *)
(* half a word.  A behaviour is one turn of the program's self-test, a     *)
(* step is one turn of one of its loops.                                   *)
(***************************************************************************)
EXTENDS Words, Sequences

CONSTANTS
  WSZ,        \* the number of bits of an RC5_WORD: 16
  Pow,        \* the powers of 2 up to WSZ
  R,          \* RC5_ROUNDS: 12
  KEYLEN,     \* RC5_KEYLEN, the bytes of a key: 16
  P, Q,       \* the magic constants
  Radix,      \* what a digit of the key's text counts: 16
  KeyTexts,   \* what the user may give as a key, sequences of characters
  Blocks      \* the plain texts, words of the simulated machine

VARIABLES
  phase,   \* the loop the program is in
  text,    \* the argument of rc5_convert_key
  S, L,    \* the expanded key and the helper array
  X, Y,    \* the variables A and B of the three functions
  i, j, k, \* the loop counters
  pt,      \* the plain text
  trail    \* X and Y before each round of the encryption

rvars == <<phase, text, S, L, X, Y, i, j, k, pt, trail>>

RC5_WORD == 0 .. (Half - 1)
T  == 2 * (R + 1)
LL == (KEYLEN + 1) \div 2

\* The characters of a text: the digits, a blank, and any other.
Blank == Radix
Other == Radix + 1

ASSUME Rc5Assumption ==
  /\ WSZ \in Nat \ {0} /\ R \in Nat /\ KEYLEN \in Nat \ {0}
  /\ P \in RC5_WORD /\ Q \in RC5_WORD
  /\ Radix \in Nat /\ Radix * Radix = B
  /\ \A t \in KeyTexts : t \in Seq(0 .. Other)
  /\ Blocks \subseteq Word

ASSUME PowAssumption ==
  /\ Pow \in [0 .. WSZ -> Nat \ {0}]
  /\ \A n \in 0 .. WSZ : Pow[n] * Pow[WSZ - n] = Half

ASSUME XorAssumption ==
  \A x, y \in RC5_WORD :
    /\ BitOp("XOR", x, y) \in RC5_WORD
    /\ BitOp("XOR", BitOp("XOR", x, y), y) = x

----------------------------------------------------------------------------
(* Arithmetic on RC5_WORDs.                                                *)

\* Mutant: the sums are kept in an int.
Trunc_wide(z) == z

Trunc(z) == z % Half

\* The two parts that | combines have no bit in common.
rol(x, n) == LET s == n % WSZ
             IN  Trunc(x * Pow[s]) + (x \div Pow[WSZ - s])

\* Mutant: the amount is not reduced from both sides.
ror_same(x, n) == LET s == n % WSZ
                  IN  Trunc(x * Pow[s]) + (x \div Pow[WSZ - s])

ror(x, n) == LET s == n % WSZ
             IN  (x \div Pow[s]) + Trunc(x * Pow[WSZ - s])

XorWord(x, y) == BitOp("XOR", x, y)

----------------------------------------------------------------------------
(* rc5_convert_key.                                                        *)

\* Where sscanf finds the first character that is not blank, from n on.
NonBlank(t, n) ==
  CHOOSE m \in n .. (Len(t) + 1) :
    /\ m <= Len(t) => t[m] # Blank
    /\ \A q \in n .. (m - 1) : t[q] = Blank

Digit(t, m) == m <= Len(t) /\ t[m] < Radix

\* sscanf(hex+n, "%2x"): one or two digits, whatever comes behind them.  The
\* texts have neither signs nor the prefix 0x, which it accepts too.
Scan2x(t, n) ==
  LET m == NonBlank(t, n)
  IN  IF Digit(t, m + 1) THEN Radix * t[m] + t[m + 1] ELSE t[m]

Converts(t) ==
  /\ Len(t) = 2 * KEYLEN
  /\ \A n \in 0 .. (KEYLEN - 1) : Digit(t, NonBlank(t, 2 * n + 1))

\* The n-th byte of the key.
KeyByte(n) == Scan2x(text, 2 * n + 1)

----------------------------------------------------------------------------
(* rc5_setup.                                                              *)

Rc5Init ==
  /\ text \in KeyTexts /\ pt \in Blocks
  /\ phase = "convert"
  /\ S = [n \in 0 .. (T - 1) |-> 0] /\ L = [n \in 0 .. (LL - 1) |-> 0]
  /\ X = 0 /\ Y = 0 /\ i = 0 /\ j = 0 /\ k = 0
  /\ trail = [n \in 1 .. R |-> <<0, 0>>]

\* A text that does not convert ends the program.
rc5_convert_key ==
  /\ phase = "convert"
  /\ phase' = IF Converts(text) THEN "expand" ELSE "exit"
  /\ UNCHANGED <<text, S, L, X, Y, i, j, k, pt, trail>>

\* The loops that fill L with the key and S with the magic constants.
Expand ==
  /\ phase = "expand" /\ phase' = "mix"
  /\ L' = [n \in 0 .. (LL - 1) |->
             Trunc(KeyByte(2 * n)
                     + (IF 2 * n + 1 < KEYLEN THEN B * KeyByte(2 * n + 1) ELSE 0))]
  /\ S' = [n \in 0 .. (T - 1) |-> Trunc(P + n * Q)]
  /\ X' = 0 /\ Y' = 0 /\ i' = 0 /\ j' = 0
  /\ k' = 3 * (IF LL > T THEN LL ELSE T)
  /\ UNCHANGED <<text, pt, trail>>

Mix ==
  /\ phase = "mix" /\ k > 0
  /\ X' = rol(Trunc(S[i] + X + Y), 3)
  /\ S' = [S EXCEPT ![i] = X']
  /\ Y' = rol(Trunc(L[j] + X' + Y), Trunc(X' + Y))
  /\ L' = [L EXCEPT ![j] = Y']
  /\ i' = (i + 1) % T /\ j' = (j + 1) % LL /\ k' = k - 1
  /\ UNCHANGED <<phase, text, pt, trail>>

----------------------------------------------------------------------------
(* rc5_ecb_encrypt and rc5_ecb_decrypt.                                    *)

\* The bytes src[0] and src[1] of a word are one half of it.
Low(w)  == w % Half
High(w) == w \div Half

\* The block is read before anything is written: src may be dst.
Encrypt ==
  /\ phase = "mix" /\ k = 0
  /\ phase' = "encrypt"
  /\ X' = Trunc(Low(pt) + S[0]) /\ Y' = Trunc(High(pt) + S[1])
  /\ i' = 1
  /\ UNCHANGED <<text, S, L, j, k, pt, trail>>

EncryptRound ==
  /\ phase = "encrypt" /\ i <= R
  /\ trail' = [trail EXCEPT ![i] = <<X, Y>>]
  /\ X' = Trunc(rol(XorWord(X, Y), Y) + S[2 * i])
  /\ Y' = Trunc(rol(XorWord(Y, X'), X') + S[2 * i + 1])
  /\ i' = i + 1
  /\ UNCHANGED <<phase, text, S, L, j, k, pt>>

\* X and Y are the encrypted block; decryption starts from it.
Decrypt ==
  /\ phase = "encrypt" /\ i = R + 1
  /\ phase' = "decrypt"
  /\ i' = R
  /\ UNCHANGED <<text, S, L, X, Y, j, k, pt, trail>>

\* Mutant: the halves are undone in the order they were made.
DecryptRound_order ==
  /\ phase = "decrypt" /\ i > 0
  /\ X' = XorWord(ror(Trunc(X - S[2 * i]), Y), Y)
  /\ Y' = XorWord(ror(Trunc(Y - S[2 * i + 1]), X'), X')
  /\ i' = i - 1
  /\ UNCHANGED <<phase, text, S, L, j, k, pt, trail>>

DecryptRound ==
  /\ phase = "decrypt" /\ i > 0
  /\ Y' = XorWord(ror(Trunc(Y - S[2 * i + 1]), X), X)
  /\ X' = XorWord(ror(Trunc(X - S[2 * i]), Y'), Y')
  /\ i' = i - 1
  /\ UNCHANGED <<phase, text, S, L, j, k, pt, trail>>

DecryptEnd ==
  /\ phase = "decrypt" /\ i = 0
  /\ phase' = "compare"
  /\ X' = Trunc(X - S[0]) /\ Y' = Trunc(Y - S[1])
  /\ UNCHANGED <<text, S, L, i, j, k, pt, trail>>

Compared == phase \in {"compare", "exit"} /\ UNCHANGED rvars

Rc5Next ==
  \/ rc5_convert_key \/ Expand \/ Mix
  \/ Encrypt \/ EncryptRound \/ Decrypt \/ DecryptRound \/ DecryptEnd
  \/ Compared

Rc5Spec == Rc5Init /\ [][Rc5Next]_rvars

----------------------------------------------------------------------------
(* Properties.                                                             *)

Rc5TypeOK ==
  /\ phase \in {"convert", "expand", "mix", "encrypt", "decrypt", "compare", "exit"}
  /\ S \in [0 .. (T - 1) -> RC5_WORD] /\ L \in [0 .. (LL - 1) -> RC5_WORD]
  /\ X \in RC5_WORD /\ Y \in RC5_WORD
  /\ i \in 0 .. T /\ j \in 0 .. (LL - 1) /\ k \in Nat
  /\ trail \in [1 .. R -> RC5_WORD \X RC5_WORD]

(***************************************************************************)
(* Decryption goes back through the states of the encryption: after it has *)
(* undone a round, X and Y are what they were before that round of the     *)
(* encryption.                                                             *)
(***************************************************************************)
DecryptRetraces ==
  phase = "decrypt" /\ i < R => <<X, Y>> = trail[i + 1]

(***************************************************************************)
(* The "DECRYPTION ERROR!" of the self-test is never printed: every word   *)
(* that rc5_poke encrypts is the word rc5_peek decrypts, for every key.    *)
(* This is what the engine assumes of the peek and poke vector.            *)
(***************************************************************************)
RoundTrip == phase = "compare" => X + Half * Y = pt
============================================================================
