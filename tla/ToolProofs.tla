----------------------------- MODULE ToolProofs ----------------------------
(***************************************************************************)
(* The services, the loop of the simulator and the host programs around    *)
(* it, proved for every guest, command line, cipher and size of memory.    *)
(***************************************************************************)
EXTENDS Harness, CpuProofs, SequenceTheorems

----------------------------------------------------------------------------
(* Sequences of pokes.                                                     *)

Pokes == Seq([a : Word, v : Byte])

\* Where the word of a byte of the guest's memory lies.
LEMMA WordOfByte ==
  ASSUME NEW a \in WordAddrs, NEW k \in 0 .. 3
  PROVE  WordOf(a + k) = a /\ (a + k) % 4 = k
BY MemFacts DEF WordAddrs, WordOf

\* A poke has an address and a byte.
LEMMA PokeFacts ==
  ASSUME NEW s \in Pokes
  PROVE  /\ Len(s) \in Nat
         /\ \A n \in 1 .. Len(s) : s[n].a \in Word /\ s[n].v \in Byte
         /\ \A n \in Done(s) : n \in 1 .. Len(s) /\ s[n].v \in Byte
                                 /\ s[n].a \in Word /\ Valid(s[n].a, 1)
<1>1. Len(s) \in Nat
  BY DEF Pokes
<1>2. \A n \in 1 .. Len(s) : s[n] \in [a : Word, v : Byte]
  BY ElementOfSeq, Zenon DEF Pokes
<1>3. \A n \in 1 .. Len(s) : s[n].a \in Word /\ s[n].v \in Byte
  BY <1>2
<1>4. \A n \in Done(s) : n \in 1 .. Len(s) /\ Valid(s[n].a, 1)
  BY <1>1 DEF Done
<1> QED
  BY <1>1, <1>3, <1>4

\* The pokes of a copy are pokes of bytes to addresses.
LEMMA CopyOutPokes ==
  ASSUME NEW x \in Word, NEW b \in Seq(Byte)
  PROVE  /\ CopyOut(x, b) \in Pokes /\ Len(CopyOut(x, b)) = Len(b)
         /\ \A n \in 1 .. Len(b) : CopyOut(x, b)[n].a = Unsigned(x + n - 1)
<1>1. Len(b) \in Nat
  OBVIOUS
<1>2. \A n \in 1 .. Len(b) : Unsigned(x + n - 1) \in Word
  BY <1>1, WordInt, UnsignedWord
<1>3. \A n \in 1 .. Len(b) :
        [a |-> Unsigned(x + n - 1), v |-> b[n]] \in [a : Word, v : Byte]
  BY <1>2
<1> QED
  BY <1>1, <1>3 DEF CopyOut, Pokes

\* The byte a sequence of pokes leaves is one of its bytes or the old one.
LEMMA ByteAfterCases ==
  ASSUME NEW s \in Pokes, NEW x
  PROVE  \/ /\ ByteAfter(s, x) = ByteAt(x)
            /\ \A n \in Done(s) : s[n].a # x
         \/ \E n \in Done(s) : s[n].a = x /\ ByteAfter(s, x) = s[n].v
<1> DEFINE hits == {n \in Done(s) : s[n].a = x}
<1>1. CASE hits = {}
  BY <1>1 DEF ByteAfter
<1>2. CASE hits # {}
  <2>1. hits \in SUBSET (0 .. Len(s)) /\ Len(s) \in Nat
    BY DEF Done, Pokes
  <2>2. \E n \in hits : \A m \in hits : m <= n
    BY <1>2, <2>1, GreatestElement
  <2>3. (CHOOSE n \in hits : \A m \in hits : m <= n) \in hits
    BY <2>2
  <2>4. ByteAfter(s, x) = s[CHOOSE n \in hits : \A m \in hits : m <= n].v
    BY <1>2 DEF ByteAfter
  <2> QED
    BY <2>3, <2>4
<1> QED
  BY <1>1, <1>2

\* It is a byte.
LEMMA ByteAfterType ==
  ASSUME mem \in [WordAddrs -> Word], NEW s \in Pokes,
         NEW a \in WordAddrs, NEW k \in 0 .. 3
  PROVE  ByteAfter(s, a + k) \in Byte /\ ByteAt(a + k) = Bytes(Dec(mem[a]))[k]
<1>1. ByteAt(a + k) = Bytes(Dec(mem[a]))[k]
  BY WordOfByte DEF ByteAt, Peek
<1>2. ByteAt(a + k) \in Byte
  BY <1>1, CipherAssumption, BytesType
<1>3. \A n \in Done(s) : s[n].v \in Byte
  BY PokeFacts
<1> QED
  BY <1>1, <1>2, <1>3, ByteAfterCases

\* After a sequence of pokes the memory holds words, the guest finds in it the
\* bytes poked, and a word that was not poked is as it was.
LEMMA PokeAllEffect ==
  ASSUME mem \in [WordAddrs -> Word], NEW s \in Pokes
  PROVE  /\ PokeAll(s) \in [WordAddrs -> Word]
         /\ \A a \in WordAddrs : \A k \in 0 .. 3 :
              Bytes(Dec(PokeAll(s)[a]))[k] = ByteAfter(s, a + k)
         /\ \A a \in WordAddrs : 
              (\A n \in Done(s) : WordOf(s[n].a) # a) => PokeAll(s)[a] = mem[a]
<1> DEFINE new(a) == [k \in 0 .. 3 |-> ByteAfter(s, a + k)]
           hit(a) == \E n \in Done(s) : WordOf(s[n].a) = a
<1>1. \A a \in WordAddrs : new(a) \in [0 .. 3 -> Byte]
  BY ByteAfterType
<1>2. ASSUME NEW a \in WordAddrs
      PROVE  FromBytes(new(a)) \in Word /\ Bytes(FromBytes(new(a))) = new(a)
  <2> HIDE DEF new
  <2> QED
    BY <1>1, FromBytesWord, BytesOfFromBytes
<1>3. \A a \in WordAddrs :
        PokeAll(s)[a] = IF hit(a) THEN Enc(FromBytes(new(a))) ELSE mem[a]
  BY DEF PokeAll
<1>4. \A a \in WordAddrs : PokeAll(s)[a] \in Word
  <2> HIDE DEF new, hit
  <2> QED
    BY <1>2, <1>3, CipherAssumption
<1>5. PokeAll(s) \in [WordAddrs -> Word]
  BY <1>4 DEF PokeAll
<1>6. ASSUME NEW a \in WordAddrs, NEW k \in 0 .. 3
      PROVE  Bytes(Dec(PokeAll(s)[a]))[k] = ByteAfter(s, a + k)
  <2>1. CASE hit(a)
    <3>1. PokeAll(s)[a] = Enc(FromBytes(new(a)))
      BY <1>3, <2>1
    <3>2. Dec(PokeAll(s)[a]) = FromBytes(new(a))
      <4> HIDE DEF new
      <4> QED
        BY <3>1, <1>2, CipherAssumption
    <3>3. Bytes(Dec(PokeAll(s)[a])) = new(a)
      BY <3>2, <1>2
    <3> QED
      BY <3>3
  <2>2. CASE ~hit(a)
    <3>1. \A n \in Done(s) : s[n].a # a + k
      BY <2>2, WordOfByte
    <3>2. ByteAfter(s, a + k) = ByteAt(a + k)
      BY <3>1, ByteAfterCases
    <3> QED
      BY <1>3, <2>2, <3>2, ByteAfterType
  <2> QED
    BY <2>1, <2>2
<1> QED
  BY <1>3, <1>5, <1>6

\* Only the guest's part of the memory can be poked.
LEMMA PokeAllGuest ==
  ASSUME mem \in [WordAddrs -> Word], NEW s \in Pokes,
         NEW a \in WordAddrs \ GuestAddrs
  PROVE  PokeAll(s)[a] = mem[a]
<1>1. ASSUME NEW n \in Done(s) PROVE WordOf(s[n].a) # a
  BY PokeFacts, ValidGuest
<1> QED
  BY <1>1, PokeAllEffect

----------------------------------------------------------------------------
(* What a service does to the CPU: v0, sometimes v1, and memory.           *)

\* The registers of a service are registers, and none of them is $0.
LEMMA ServiceRegs ==
  /\ {v0, v1, a0, a1, a2} \subseteq Regs /\ 0 \notin {v0, v1, a0, a1, a2}
  /\ MinusOne \in Word
BY SyscallAssumption, Sizes DEF v0, v1, a0, a1, a2, MinusOne, Word

\* A result in v0 keeps the registers well typed and $0 what it is.
LEMMA SetV0Type ==
  ASSUME r \in [Regs -> Word], NEW x \in Word, SetV0(x)
  PROVE  r' \in [Regs -> Word] /\ r'[0] = r[0] /\ r'[v0] = x
BY ServiceRegs, RegsAssumption DEF SetV0

\* A string read from the user is a sequence of pokes inside the buffer.
LEMMA ReadStringType ==
  ASSUME r \in [Regs -> Word], NEW line \in Lines
  PROVE  /\ ReadStringPokes(line) \in Pokes
         /\ \A m \in 1 .. Len(ReadStringPokes(line)) :
              \E k \in 0 .. (IF r[a1] = 0 THEN 0 ELSE r[a1] - 1) :
                ReadStringPokes(line)[m].a = Unsigned(r[a0] + k)
<1> DEFINE avail == Len(line.chars) + Flag(line.eof)
           n == IF r[a1] <= 1 THEN 0
                ELSE IF r[a1] - 1 < avail THEN r[a1] - 1 ELSE avail
           st == IF n < Len(line.chars) THEN n ELSE Len(line.chars)
           b == SubSeq(line.chars, 1, st)
           t == <<[a |-> Unsigned(r[a0] + n), v |-> 0]>>
<1>1. /\ line.chars \in Seq(Byte) /\ Len(line.chars) \in Nat
      /\ Flag(line.eof) \in 0 .. 1
  BY SyscallAssumption DEF Flag
<1>2. r[a0] \in Word /\ r[a1] \in Word /\ r[a0] \in Nat /\ r[a1] \in Nat
  BY ServiceRegs, WordInt
<1>3. /\ n \in Nat /\ st \in 0 .. n /\ st <= Len(line.chars)
      /\ n \in 0 .. (IF r[a1] = 0 THEN 0 ELSE r[a1] - 1)
  BY <1>1, <1>2
<1> HIDE DEF n, st
<1>4. b \in Seq(Byte) /\ Len(b) = st
  BY <1>1, <1>3
<1> HIDE DEF b
<1>5. /\ CopyOut(r[a0], b) \in Pokes /\ Len(CopyOut(r[a0], b)) = st
      /\ \A m \in 1 .. st : CopyOut(r[a0], b)[m].a = Unsigned(r[a0] + m - 1)
  BY <1>2, <1>4, CopyOutPokes
<1>6. t \in Pokes /\ Len(t) = 1 /\ t[1].a = Unsigned(r[a0] + n)
  <2>1. Unsigned(r[a0] + n) \in Word /\ 0 \in Byte
    BY <1>2, <1>3, UnsignedWord, Sizes DEF Byte
  <2>2. [a |-> Unsigned(r[a0] + n), v |-> 0] \in [a : Word, v : Byte]
    BY <2>1
  <2> QED
    BY <2>2 DEF Pokes
<1> HIDE DEF t
<1>7. ReadStringPokes(line) = CopyOut(r[a0], b) \o t
  BY DEF ReadStringPokes, n, st, b, t
<1>8. /\ CopyOut(r[a0], b) \o t \in Pokes
      /\ Len(CopyOut(r[a0], b) \o t) = st + 1
      /\ \A m \in 1 .. (st + 1) : (CopyOut(r[a0], b) \o t)[m] =
           IF m <= st THEN CopyOut(r[a0], b)[m] ELSE t[m - st]
  <2> DEFINE c == CopyOut(r[a0], b)
  <2> HIDE DEF c
  <2>1. c \in Pokes /\ t \in Pokes /\ Len(c) = st /\ Len(t) = 1
    BY <1>5, <1>6 DEF c
  <2>2. /\ c \o t \in Pokes /\ Len(c \o t) = Len(c) + Len(t)
        /\ \A m \in 1 .. (Len(c) + Len(t)) :
             (c \o t)[m] = IF m <= Len(c) THEN c[m] ELSE t[m - Len(c)]
    BY <2>1, ConcatProperties, Zenon DEF Pokes
  <2> QED
    BY <2>1, <2>2 DEF c
<1>9. ASSUME NEW m \in 1 .. (st + 1)
      PROVE  \E k \in 0 .. n : (CopyOut(r[a0], b) \o t)[m].a = Unsigned(r[a0] + k)
  <2>1. CASE m <= st
    <3>1. m - 1 \in 0 .. n /\ r[a0] + m - 1 = r[a0] + (m - 1)
      BY <1>2, <1>3, <2>1
    <3> QED
      BY <1>5, <1>8, <2>1, <3>1
  <2>2. CASE m = st + 1
    <3>1. ~(m <= st) /\ m - st = 1 /\ n \in 0 .. n
      BY <1>3, <2>2
    <3>2. (CopyOut(r[a0], b) \o t)[m] = t[m - st]
      BY <1>8, <3>1
    <3>3. (CopyOut(r[a0], b) \o t)[m].a = Unsigned(r[a0] + n)
      BY <1>6, <3>1, <3>2
    <3> QED
      BY <3>1, <3>3
  <2>3. m <= st \/ m = st + 1
    BY <1>3
  <2> QED
    BY <2>1, <2>2, <2>3, Zenon
<1>10. 0 .. n \subseteq 0 .. (IF r[a1] = 0 THEN 0 ELSE r[a1] - 1)
  BY <1>2, <1>3
<1> QED
  BY <1>7, <1>8, <1>9, <1>10

\* The buffer the guest has named, or the byte after an empty one.
Writable == Buffer \cup EmptyBufferEnd

\* What a service leaves in v0 is a word, what it writes to memory goes there.
Wrote ==
  /\ r' \in [Regs -> Word] /\ r'[0] = r[0] /\ res' \in Results
  /\ \/ mem' = mem
     \/ \E s \in Pokes : /\ mem' = PokeAll(s)
                         /\ \A m \in 1 .. Len(s) : s[m].a \in Writable

\* Services that only answer, or do nothing.
LEMMA AnswerWrote ==
  ASSUME r \in [Regs -> Word], NEW c \in Results,
         Refuse(c) \/ \E x \in Word : Answer(c, x)
  PROVE  Wrote /\ UNCHANGED <<brk, fds, open>>
<1>1. CASE Refuse(c)
  BY <1>1 DEF Refuse, Wrote
<1>2. ASSUME NEW x \in Word, Answer(c, x)
      PROVE  Wrote /\ UNCHANGED <<brk, fds, open>>
  BY <1>2, SetV0Type DEF Answer, Wrote
<1> QED
  BY <1>1, <1>2

\* The clock, the console and lseek do not touch memory.
LEMMA ConsoleWrote ==
  ASSUME r \in [Regs -> Word],
         \/ do_gettime \/ do_print_int \/ do_print_char \/ do_print_string
         \/ do_read_int \/ do_read_char \/ do_lseek
  PROVE  Wrote /\ UNCHANGED <<brk, fds, open>>
<1>1. /\ HostWords \subseteq Word /\ r[v0] \in Word /\ Byte \subseteq Word
      /\ MinusOne \in Word
  BY SyscallAssumption, ServiceRegs, Sizes DEF Byte, Word
<1>2. {"OK", "ADDRESS", "ABORT"} \subseteq Results
  BY DEF Results
<1>3. CASE do_gettime
  <2>1. CASE Refuse("ABORT")
    BY <1>2, <2>1, AnswerWrote
  <2>2. ASSUME NEW x \in HostWords, NEW y \in HostWords,
               r' = [r EXCEPT ![v0] = x, ![v1] = y],
               res' = "OK", UNCHANGED <<mem, brk, fds, open>>
        PROVE  Wrote
    <3>1. x \in Word /\ y \in Word /\ v0 \in Regs /\ v1 \in Regs
      BY <1>1, ServiceRegs
    <3>2. r' \in [Regs -> Word]
      BY <2>2, <3>1
    <3>3. r'[0] = r[0]
      BY <2>2, RegsAssumption DEF v0, v1
    <3> QED
      BY <1>2, <2>2, <3>2, <3>3 DEF Wrote
  <2> QED
    BY <1>3, <2>1, <2>2 DEF do_gettime
<1>4. CASE do_print_int \/ do_print_char \/ do_print_string
  BY <1>2, <1>4, AnswerWrote DEF do_print_int, do_print_char, do_print_string
<1>5. CASE do_read_int
  BY <1>1, <1>2, <1>5, AnswerWrote DEF do_read_int
<1>6. CASE do_read_char
  BY <1>1, <1>2, <1>6, AnswerWrote DEF do_read_char
<1>7. CASE do_lseek
  BY <1>1, <1>2, <1>7, AnswerWrote DEF do_lseek
<1> QED
  BY <1>3, <1>4, <1>5, <1>6, <1>7

\* A string the user types goes into the buffer.
LEMMA ReadStringWrote ==
  ASSUME r \in [Regs -> Word], do_read_string
  PROVE  Wrote /\ UNCHANGED <<brk, fds, open>>
<1>1. PICK line \in Lines :
        LET s == ReadStringPokes(line)
        IN  /\ mem' = PokeAll(s)
            /\ res' = IF Throws(s) THEN "ADDRESS" ELSE "OK"
  BY DEF do_read_string
<1> DEFINE s == ReadStringPokes(line)
<1>2. /\ s \in Pokes
      /\ \A m \in 1 .. Len(s) :
           \E k \in 0 .. (IF r[a1] = 0 THEN 0 ELSE r[a1] - 1) :
             s[m].a = Unsigned(r[a0] + k)
  BY ReadStringType
<1>3. ASSUME NEW k \in 0 .. (IF r[a1] = 0 THEN 0 ELSE r[a1] - 1)
      PROVE  Unsigned(r[a0] + k) \in Writable
  <2>1. r[v0] = 8
    BY DEF do_read_string
  <2>2. CASE r[a1] = 0
    <3>1. k = 0 /\ r[a0] \in Word
      BY <2>2, ServiceRegs
    <3>2. Unsigned(r[a0] + k) = r[a0]
      BY <3>1, WordInt, UnsignedWord
    <3> QED
      BY <2>1, <2>2, <3>2 DEF Writable, EmptyBufferEnd
  <2>3. CASE r[a1] # 0
    <3>1. Buffer = {Unsigned(r[a0] + j) : j \in 0 .. (r[a1] - 1)}
      BY <2>1 DEF Buffer
    <3> QED
      BY <2>3, <3>1 DEF Writable
  <2> QED
    BY <2>2, <2>3
<1>4. res' \in Results
  BY <1>1 DEF Results
<1>5. UNCHANGED <<r, brk, fds, open>>
  BY DEF do_read_string
<1> HIDE DEF s
<1>6. \A m \in 1 .. Len(s) : s[m].a \in Writable
  BY <1>2, <1>3
<1>7. mem' = PokeAll(s)
  BY <1>1 DEF s
<1> QED
  BY <1>2, <1>4, <1>5, <1>6, <1>7 DEF Wrote

\* So do the bytes read from a file.
LEMMA ReadWrote ==
  ASSUME r \in [Regs -> Word], do_read
  PROVE  Wrote /\ UNCHANGED <<brk, fds, open>>
<1>1. /\ r[a1] \in Word /\ r[a2] \in Word /\ r[a2] \in Nat /\ r[a2] < W
      /\ {"OK", "ADDRESS", "ABORT", "UNDEFINED"} \subseteq Results
      /\ MinusOne \in Word
  BY ServiceRegs, WordInt DEF Results
<1>2. CASE \/ Refuse("ADDRESS") \/ Refuse("ABORT") \/ Answer("OK", MinusOne)
  BY <1>1, <1>2, AnswerWrote
<1>3. ASSUME NEW f \in Files
      PROVE  LET b == SubSeq(f, 1, IF r[a2] < Len(f) THEN r[a2] ELSE Len(f))
                 s == IF OutOfBounds(r[a1], Len(b)) THEN <<>>
                      ELSE CopyOut(r[a1], b)
             IN  /\ SetV0(Len(b))
                 /\ mem' = PokeAll(s)
                 /\ res' = IF Throws(s) THEN "UNDEFINED" ELSE "OK"
                 /\ UNCHANGED <<brk, fds, open>>
                 => Wrote
  <2> DEFINE n == IF r[a2] < Len(f) THEN r[a2] ELSE Len(f)
             b == SubSeq(f, 1, n)
             s == IF OutOfBounds(r[a1], Len(b)) THEN <<>>
                  ELSE CopyOut(r[a1], b)
  <2>1. f \in Seq(Byte) /\ Len(f) \in Nat
    BY SyscallAssumption
  <2>2. n \in Nat /\ n <= r[a2] /\ n <= Len(f) /\ n \in Word
    BY <1>1, <2>1, Sizes DEF Word
  <2> HIDE DEF n
  <2>3. b \in Seq(Byte) /\ Len(b) = n
    BY <2>1, <2>2
  <2> HIDE DEF b
  <2>4. /\ s \in Pokes
        /\ \A m \in 1 .. Len(s) : m \in 1 .. n /\ s[m].a = Unsigned(r[a1] + m - 1)
    <3>1. s = <<>> \/ s = CopyOut(r[a1], b)
      OBVIOUS
    <3> HIDE DEF s
    <3>2. CASE s = <<>>
      <4>1. <<>> \in Pokes /\ Len(<<>>) = 0
        BY DEF Pokes
      <4> QED
        BY <3>2, <4>1
    <3>3. CASE s = CopyOut(r[a1], b)
      BY <1>1, <2>3, <3>3, CopyOutPokes
    <3> QED
      BY <3>1, <3>2, <3>3
  <2> HIDE DEF s
  <2>5. Buffer = {Unsigned(r[a1] + k) : k \in 0 .. (r[a2] - 1)}
    BY DEF do_read, Buffer
  <2>6. ASSUME NEW m \in 1 .. Len(s) PROVE s[m].a \in Writable
    <3>1. m - 1 \in 0 .. (r[a2] - 1) /\ r[a1] + m - 1 = r[a1] + (m - 1)
      BY <1>1, <2>2, <2>4, WordInt
    <3> QED
      BY <2>4, <2>5, <3>1 DEF Writable
  <2>7. SUFFICES ASSUME SetV0(n), mem' = PokeAll(s),
                        res' = IF Throws(s) THEN "UNDEFINED" ELSE "OK"
                 PROVE  Wrote
    BY <2>3 DEF s, b, n
  <2>8. r' \in [Regs -> Word] /\ r'[0] = r[0]
    BY <2>2, <2>7, SetV0Type
  <2>9. res' \in Results
    BY <1>1, <2>7
  <2> QED
    BY <2>4, <2>6, <2>7, <2>8, <2>9 DEF Wrote
<1> QED
  BY <1>2, <1>3 DEF do_read, Answer, Refuse

\* A write to a file reads memory only.
LEMMA WriteWrote ==
  ASSUME r \in [Regs -> Word], do_write
  PROVE  Wrote /\ UNCHANGED <<brk, fds, open>>
<1>1. /\ r[a2] \in Word /\ r[a2] \in Nat /\ r[a2] < W /\ MinusOne \in Word
      /\ {"OK", "ADDRESS", "ABORT", "UNDEFINED"} \subseteq Results
  BY ServiceRegs, WordInt DEF Results
<1>2. 0 .. r[a2] \subseteq Word
  BY <1>1, Sizes DEF Word
<1> QED
  BY <1>1, <1>2, AnswerWrote DEF do_write

----------------------------------------------------------------------------
(* The break and the table of descriptors.                                 *)

\* What holds of the services between two calls: the tables describe the
\* host's state, of which only the guest's part changes.
SysInv ==
  /\ SysTypeOK /\ InternalErrorFree
  /\ LowBase <= brk /\ brk < MemSz - StkSz
  /\ FdTableExact /\ HostOpen \subseteq open

\* do_sbrk moves the break up, or not at all, and never into the stack.
LEMMA SbrkEffect ==
  ASSUME r \in [Regs -> Word], brk \in Word,
         LowBase <= brk, brk < MemSz - StkSz, do_sbrk
  PROVE  /\ Wrote /\ UNCHANGED <<fds, open>>
         /\ brk <= brk' /\ brk' < MemSz - StkSz /\ brk' \in Word
         /\ brk' # brk => r'[v0] = brk
<1>1. CASE UNCHANGED <<brk, fds, open>> /\ Wrote
  BY <1>1, WordInt
<1>2. CASE Refuse("ASSERT") \/ Answer("OK", MinusOne)
  <2>1. {"OK", "ASSERT"} \subseteq Results
    BY DEF Results
  <2> QED
    BY <1>1, <1>2, <2>1, ServiceRegs, AnswerWrote
<1>3. CASE /\ brk % 4 = 0 /\ Unsigned(brk + 12) < MemSz - StkSz
           /\ brk' = Unsigned(brk + 12) /\ SetV0(brk)
           /\ res' = "OK" /\ UNCHANGED <<mem, fds, open>>
  <2>1. brk \in Nat /\ brk + 12 \in Nat /\ brk + 12 < W
    BY MemFacts, Sizes, JRegionAssumption, WordInt
  <2>2. Unsigned(brk + 12) = brk + 12 /\ brk + 12 \in Word
    BY <2>1, UnsignedWord, Sizes DEF Word
  <2>3. Wrote /\ r'[v0] = brk
    BY <1>3, SetV0Type DEF Wrote, Results
  <2> QED
    BY <1>3, <2>1, <2>2, <2>3
<1>4. r[v0] = 9 /\ 9 % 4 # 0 /\ 9 + (4 - (9 % 4)) = 12
  BY DEF do_sbrk
<1> QED
  BY <1>2, <1>3, <1>4 DEF do_sbrk

\* The slot do_open takes is free.
LEMMA SlotFacts ==
  \/ find_fd_slot = -1
  \/ find_fd_slot \in 0 .. (MaxFds - 1) /\ fds[find_fd_slot] = -1
<1> DEFINE free == {n \in 0 .. (MaxFds - 1) : fds[n] = -1}
<1>1. CASE free = {}
  BY <1>1 DEF find_fd_slot
<1>2. CASE free # {}
  <2>1. free \in SUBSET Nat
    BY SyscallAssumption
  <2>2. (CHOOSE n \in free : \A m \in free : n <= m) \in free
    BY <1>2, <2>1, LeastElement
  <2>3. find_fd_slot = CHOOSE n \in free : \A m \in free : n <= m
    BY <1>2 DEF find_fd_slot
  <2> QED
    BY <2>2, <2>3
<1> QED
  BY <1>1, <1>2

\* The effect of do_open on the table: none, or a free slot takes a descriptor
\* that was not open, or -1.
LEMMA OpenEffect ==
  ASSUME r \in [Regs -> Word], do_open
  PROVE  /\ Wrote /\ UNCHANGED brk
         /\ \/ UNCHANGED <<fds, open>>
            \/ \E n \in 0 .. (MaxFds - 1), h \in HostFds \cup {-1} :
                 /\ fds[n] = -1 /\ h \notin open \ {-1}
                 /\ fds' = [fds EXCEPT ![n] = h]
                 /\ open' = open \cup ({h} \ {-1})
<1>1. CASE Refuse("ADDRESS") \/ Answer("OK", MinusOne)
  <2>1. {"OK", "ADDRESS"} \subseteq Results
    BY DEF Results
  <2> QED
    BY <1>1, <2>1, ServiceRegs, AnswerWrote
<1>2. ASSUME find_fd_slot >= 0, NEW h \in HostOpens,
             fds' = [fds EXCEPT ![find_fd_slot] = h],
             open' = open \cup ({h} \ {-1}),
             SetV0(IF h > 0 THEN find_fd_slot ELSE MinusOne),
             res' = "OK", UNCHANGED <<mem, brk>>
      PROVE  /\ Wrote /\ UNCHANGED brk
             /\ \E n \in 0 .. (MaxFds - 1), g \in HostFds \cup {-1} :
                  /\ fds[n] = -1 /\ g \notin open \ {-1}
                  /\ fds' = [fds EXCEPT ![n] = g]
                  /\ open' = open \cup ({g} \ {-1})
  <2>1. find_fd_slot \in 0 .. (MaxFds - 1) /\ fds[find_fd_slot] = -1
    BY <1>2, SlotFacts
  <2>2. h \in HostFds \cup {-1} /\ h \notin open \ {-1}
    BY DEF HostOpens
  <2>3. (IF h > 0 THEN find_fd_slot ELSE MinusOne) \in Word
    BY <2>1, ServiceRegs, SyscallAssumption, Sizes DEF Word
  <2>4. Wrote
    BY <1>2, <2>3, SetV0Type DEF Wrote, Results
  <2> QED
    BY <1>2, <2>1, <2>2, <2>4
<1> QED
  BY <1>1, <1>2 DEF do_open

\* The effect of do_close on it.
LEMMA CloseEffect ==
  ASSUME r \in [Regs -> Word], do_close
  PROVE  /\ Wrote /\ UNCHANGED brk
         /\ \/ UNCHANGED <<fds, open>>
            \/ \E n \in 3 .. (MaxFds - 1) :
                 /\ fds[n] # -1 /\ fds' = [fds EXCEPT ![n] = -1]
                 /\ open' = open \ {fds[n]}
<1>1. CASE Answer("OK", MinusOne)
  BY <1>1, ServiceRegs, AnswerWrote DEF Results
<1>2. CASE /\ GuestFd > 2 /\ Usable(GuestFd)
           /\ \E v \in {0, MinusOne} : SetV0(v)
           /\ open' = open \ {fds[GuestFd]}
           /\ fds' = [fds EXCEPT ![GuestFd] = -1]
           /\ res' = "OK" /\ UNCHANGED <<mem, brk>>
  <2>1. GuestFd \in Int
    BY ServiceRegs, WordInt DEF GuestFd
  <2>2. GuestFd \in 3 .. (MaxFds - 1) /\ fds[GuestFd] # -1
    BY <1>2, <2>1, SyscallAssumption DEF Usable
  <2>3. 0 \in Word
    BY Sizes DEF Word
  <2>4. Wrote
    BY <1>2, <2>3, ServiceRegs, SetV0Type DEF Wrote, Results
  <2> QED
    BY <1>2, <2>2, <2>4
<1> QED
  BY <1>1, <1>2 DEF do_close

\* Every service: the CPU, the memory and the break.
LEMMA ServiceEffect ==
  ASSUME r \in [Regs -> Word], brk \in Word,
         LowBase <= brk, brk < MemSz - StkSz, mips_spim_syscall
  PROVE  /\ Wrote /\ KeepCpu
         /\ brk <= brk' /\ brk' < MemSz - StkSz /\ brk' \in Word
         /\ brk' # brk => r'[v0] = brk
         /\ UNCHANGED <<fds, open>> \/ do_open \/ do_close
<1>1. brk <= brk
  BY WordInt
<1>2. KeepCpu
  BY DEF mips_spim_syscall
<1>3. CASE Refuse("FAIL")
  BY <1>1, <1>2, <1>3, AnswerWrote DEF Results
<1>4. CASE \/ do_gettime \/ do_print_int \/ do_print_char \/ do_print_string
           \/ do_read_int \/ do_read_char \/ do_lseek
  BY <1>1, <1>2, <1>4, ConsoleWrote
<1>5. CASE do_read_string
  BY <1>1, <1>2, <1>5, ReadStringWrote
<1>6. CASE do_sbrk
  BY <1>2, <1>6, SbrkEffect
<1>7. CASE do_open
  BY <1>1, <1>2, <1>7, OpenEffect
<1>8. CASE do_read
  BY <1>1, <1>2, <1>8, ReadWrote
<1>9. CASE do_write
  BY <1>1, <1>2, <1>9, WriteWrote
<1>10. CASE do_close
  BY <1>1, <1>2, <1>10, CloseEffect
<1> QED
  BY <1>3, <1>4, <1>5, <1>6, <1>7, <1>8, <1>9, <1>10 DEF mips_spim_syscall

\* The table stays exact when a free slot takes a new descriptor.
LEMMA SlotTaken ==
  ASSUME SysInv, NEW n \in 0 .. (MaxFds - 1), NEW h \in HostFds \cup {-1},
         fds[n] = -1, h \notin open \ {-1},
         fds' = [fds EXCEPT ![n] = h], open' = open \cup ({h} \ {-1})
  PROVE  /\ FdTableExact' /\ HostOpen \subseteq open' /\ open' \subseteq HostFds
         /\ fds' \in [0 .. (MaxFds - 1) -> HostFds \cup {-1}]
<1>1. /\ fds \in [0 .. (MaxFds - 1) -> HostFds \cup {-1}]
      /\ open \subseteq HostFds /\ HostOpen \subseteq open
      /\ -1 \notin HostFds /\ MaxFds \in Nat /\ 3 <= MaxFds
      /\ 0 .. 2 \subseteq HostOpen
  BY SyscallAssumption, StandardStreams DEF SysInv, SysTypeOK
<1>2. /\ \A m \in 0 .. 2 : fds[m] = m
      /\ \A m \in 3 .. (MaxFds - 1) : fds[m] # -1 => fds[m] \in open \ HostOpen
      /\ \A m, l \in 0 .. (MaxFds - 1) : fds[m] # -1 /\ fds[m] = fds[l] => m = l
      /\ open \ HostOpen \subseteq {fds[m] : m \in 3 .. (MaxFds - 1)}
  BY DEF SysInv, FdTableExact
<1>3. n \in 3 .. (MaxFds - 1)
  BY <1>1, <1>2
<1>4. /\ fds' \in [0 .. (MaxFds - 1) -> HostFds \cup {-1}]
      /\ fds'[n] = h /\ \A m \in 0 .. (MaxFds - 1) : m # n => fds'[m] = fds[m]
  BY <1>1
<1>5. \A m \in 0 .. (MaxFds - 1) : fds[m] # -1 => fds[m] \in open
  <2> TAKE m \in 0 .. (MaxFds - 1)
  <2>1. CASE m \in 0 .. 2
    BY <1>1, <1>2, <2>1
  <2>2. CASE m \in 3 .. (MaxFds - 1)
    BY <1>2, <2>2
  <2> QED
    BY <1>1, <2>1, <2>2
<1>6. \A m \in 0 .. 2 : fds'[m] = m
  BY <1>1, <1>2, <1>3, <1>4
<1>7. ASSUME NEW m \in 3 .. (MaxFds - 1), fds'[m] # -1
      PROVE  fds'[m] \in open' \ HostOpen
  <2>1. CASE m = n
    BY <1>1, <1>4, <1>7, <2>1
  <2>2. CASE m # n
    BY <1>2, <1>4, <1>7, <2>2
  <2> QED
    BY <2>1, <2>2
<1>8. ASSUME NEW m \in 0 .. (MaxFds - 1), NEW l \in 0 .. (MaxFds - 1),
             fds'[m] # -1, fds'[m] = fds'[l]
      PROVE  m = l
  <2>1. CASE m # n /\ l # n
    BY <1>2, <1>4, <1>8, <2>1
  <2>2. CASE m = n /\ l # n
    <3>1. fds[l] = h /\ h # -1
      BY <1>4, <1>8, <2>2
    <3> QED
      BY <1>5, <3>1
  <2>3. CASE m # n /\ l = n
    <3>1. fds[m] = h /\ h # -1
      BY <1>4, <1>8, <2>3
    <3> QED
      BY <1>5, <3>1
  <2> QED
    BY <2>1, <2>2, <2>3
<1>9. ASSUME NEW g \in open' \ HostOpen
      PROVE  g \in {fds'[m] : m \in 3 .. (MaxFds - 1)}
  <2>1. CASE g = h
    BY <1>3, <1>4, <2>1
  <2>2. CASE g \in open
    <3>1. PICK m \in 3 .. (MaxFds - 1) : fds[m] = g
      BY <1>2, <1>9, <2>2
    <3>2. m # n
      BY <1>1, <2>2, <3>1
    <3>3. fds'[m] = g
      BY <1>4, <3>1, <3>2
    <3> QED
      BY <3>3
  <2> QED
    BY <1>9, <2>1, <2>2
<1>10. HostOpen \subseteq open' /\ open' \subseteq HostFds
  BY <1>1
<1> QED
  BY <1>4, <1>6, <1>7, <1>8, <1>9, <1>10 DEF FdTableExact

\* The table stays exact when a descriptor of the guest is closed.
LEMMA SlotFreed ==
  ASSUME SysInv, NEW n \in 3 .. (MaxFds - 1), fds[n] # -1,
         fds' = [fds EXCEPT ![n] = -1], open' = open \ {fds[n]}
  PROVE  /\ FdTableExact' /\ HostOpen \subseteq open' /\ open' \subseteq HostFds
         /\ fds' \in [0 .. (MaxFds - 1) -> HostFds \cup {-1}]
<1>1. /\ fds \in [0 .. (MaxFds - 1) -> HostFds \cup {-1}]
      /\ open \subseteq HostFds /\ HostOpen \subseteq open
      /\ -1 \notin HostFds /\ MaxFds \in Nat /\ 3 <= MaxFds
  BY SyscallAssumption DEF SysInv, SysTypeOK
<1>2. /\ \A m \in 0 .. 2 : fds[m] = m
      /\ \A m \in 3 .. (MaxFds - 1) : fds[m] # -1 => fds[m] \in open \ HostOpen
      /\ \A m, l \in 0 .. (MaxFds - 1) : fds[m] # -1 /\ fds[m] = fds[l] => m = l
      /\ open \ HostOpen \subseteq {fds[m] : m \in 3 .. (MaxFds - 1)}
  BY DEF SysInv, FdTableExact
<1>3. /\ fds' \in [0 .. (MaxFds - 1) -> HostFds \cup {-1}]
      /\ fds'[n] = -1 /\ \A m \in 0 .. (MaxFds - 1) : m # n => fds'[m] = fds[m]
  BY <1>1
<1>4. \A m \in 0 .. 2 : fds'[m] = m
  BY <1>1, <1>2, <1>3
<1>5. ASSUME NEW m \in 3 .. (MaxFds - 1), fds'[m] # -1
      PROVE  fds'[m] \in open' \ HostOpen
  <2>1. m # n /\ fds'[m] = fds[m] /\ m \in 0 .. (MaxFds - 1) /\ n \in 0 .. (MaxFds - 1)
    BY <1>1, <1>3, <1>5
  <2>2. fds[m] # fds[n]
    BY <1>2, <2>1
  <2> QED
    BY <1>2, <1>5, <2>1, <2>2
<1>6. \A m, l \in 0 .. (MaxFds - 1) : fds'[m] # -1 /\ fds'[m] = fds'[l] => m = l
  BY <1>2, <1>3
<1>7. ASSUME NEW g \in open' \ HostOpen
      PROVE  g \in {fds'[m] : m \in 3 .. (MaxFds - 1)}
  <2>1. PICK m \in 3 .. (MaxFds - 1) : fds[m] = g
    BY <1>2, <1>7
  <2>2. m # n
    BY <1>7, <2>1
  <2>3. fds'[m] = g
    BY <1>1, <1>3, <2>1, <2>2
  <2> QED
    BY <2>3
<1>8. HostOpen \subseteq open' /\ open' \subseteq HostFds
  BY <1>1, <1>2
<1> QED
  BY <1>3, <1>4, <1>5, <1>6, <1>7, <1>8 DEF FdTableExact

\* A service keeps the invariant.
LEMMA ServiceInv == ASSUME SysInv, mips_spim_syscall PROVE SysInv'
<1>1. /\ TypeOK /\ brk \in Word /\ LowBase <= brk /\ brk < MemSz - StkSz
      /\ r \in [Regs -> Word] /\ mem \in [WordAddrs -> Word] /\ InternalErrorFree
  BY DEF SysInv, SysTypeOK, TypeOK
<1>2. /\ Wrote /\ KeepCpu
      /\ brk <= brk' /\ brk' < MemSz - StkSz /\ brk' \in Word
      /\ UNCHANGED <<fds, open>> \/ do_open \/ do_close
  BY <1>1, ServiceEffect
<1>3. mem' \in [WordAddrs -> Word]
  BY <1>1, <1>2, PokeAllEffect DEF Wrote
<1>4. TypeOK' /\ InternalErrorFree'
  BY <1>1, <1>2, <1>3 DEF Wrote, KeepCpu, TypeOK, InternalErrorFree
<1>5. LowBase <= brk'
  BY <1>1, <1>2, WordInt, MemFacts
<1>6. /\ FdTableExact' /\ HostOpen \subseteq open' /\ open' \subseteq HostFds
      /\ fds' \in [0 .. (MaxFds - 1) -> HostFds \cup {-1}]
  <2>1. CASE UNCHANGED <<fds, open>>
    BY <2>1 DEF SysInv, SysTypeOK, FdTableExact
  <2>2. CASE do_open
    BY <1>1, <2>1, <2>2, OpenEffect, SlotTaken
  <2>3. CASE do_close
    BY <1>1, <2>1, <2>3, CloseEffect, SlotFreed
  <2> QED
    BY <1>2, <2>1, <2>2, <2>3
<1> QED
  BY <1>2, <1>4, <1>5, <1>6 DEF SysInv, SysTypeOK, Wrote

\* It holds when mips_elf_load has loaded a program.
LEMMA SysStartInv == ASSUME NEW p \in Programs, SysStart(p) PROVE SysInv
<1>1. TypeOK /\ InternalErrorFree
  BY LoadedInv DEF SysStart, IInv, CpuOK
<1>2. brk \in Word /\ LowBase <= brk /\ brk < MemSz - StkSz
  BY SyscallAssumption, MemFacts, Sizes DEF SysStart, Word
<1>3. /\ 0 .. 2 \subseteq HostFds /\ HostOpen \subseteq HostFds
      /\ MaxFds \in Nat /\ 3 <= MaxFds /\ -1 \notin HostFds
  BY SyscallAssumption
<1>4. /\ fds \in [0 .. (MaxFds - 1) -> HostFds \cup {-1}]
      /\ \A n \in 0 .. (MaxFds - 1) : fds[n] = IF n < 3 THEN n ELSE -1
  BY <1>3 DEF SysStart
<1>5. open = HostOpen /\ res = "OK"
  BY DEF SysStart
<1>6. FdTableExact
  BY <1>3, <1>4, <1>5 DEF FdTableExact
<1> QED
  BY <1>1, <1>2, <1>3, <1>4, <1>5, <1>6 DEF SysInv, SysTypeOK, Results

\* The guest only loads registers.
LEMMA GuestInv == ASSUME SysInv, Guest PROVE SysInv'
<1>1. PICK c \in Calls : r' = [r EXCEPT ![v0] = c.v0, ![a0] = c.a0,
                                        ![a1] = c.a1, ![a2] = c.a2]
  BY DEF Guest
<1>2. c.v0 \in Word /\ c.a0 \in Word /\ c.a1 \in Word /\ c.a2 \in Word
  BY SyscallAssumption
<1>3. r \in [Regs -> Word] /\ r' \in [Regs -> Word]
  BY <1>1, <1>2 DEF SysInv, SysTypeOK, TypeOK
<1>4. r'[0] = r[0]
  BY <1>1, <1>3, RegsAssumption DEF v0, a0, a1, a2
<1> QED
  BY <1>3, <1>4 DEF Guest, KeepCpu, SysInv, SysTypeOK, TypeOK, InternalErrorFree,
     FdTableExact

\* The invariant of the services, whatever the guest asks for.
THEOREM SysInductive == SysSpec => []SysInv
<1>1. SysInit => SysInv
  BY SysStartInv DEF SysInit
<1>2. SysInv /\ [SysNext]_<<vars, svars>> => SysInv'
  <2> SUFFICES ASSUME SysInv, [SysNext]_<<vars, svars>> PROVE SysInv'
    OBVIOUS
  <2>1. CASE Guest
    BY <2>1, GuestInv
  <2>2. CASE mips_spim_syscall
    BY <2>2, ServiceInv
  <2>3. CASE UNCHANGED <<vars, svars>>
    BY <2>3 DEF vars, svars, SysInv, SysTypeOK, TypeOK, InternalErrorFree,
       FdTableExact
  <2> QED
    BY <2>1, <2>2, <2>3 DEF SysNext, Ended
<1> QED
  BY <1>1, <1>2, PTL DEF SysSpec

\* Every service leaves the CPU, the break and the table well typed: what the
\* handlers compute, failures included, fits the registers.
THEOREM SysTypeCorrect == SysSpec => []SysTypeOK
<1>1. SysInv => SysTypeOK
  BY DEF SysInv
<1> QED
  BY <1>1, SysInductive, PTL

\* The table of descriptors never disagrees with the host, for any size of it.
THEOREM DescriptorsExact == SysSpec => []FdTableExact
<1>1. SysInv => FdTableExact
  BY DEF SysInv
<1> QED
  BY <1>1, SysInductive, PTL

\* do_sbrk keeps the break between MIPS_LOWBASE and the stack, never moves it
\* down, and tells the guest where it was; by how much it moves is not claimed.
THEOREM BreakSafe == SysSpec => BreakGrowsBelowStack
<1> DEFINE P == /\ brk' >= brk
                /\ LowBase <= brk' /\ brk' < MemSz - StkSz
                /\ brk' # brk => r'[v0] = brk
<1>1. ASSUME SysInv, SysNext PROVE P
  <2>1. /\ r \in [Regs -> Word] /\ brk \in Word
        /\ LowBase <= brk /\ brk < MemSz - StkSz
    BY <1>1 DEF SysInv, SysTypeOK, TypeOK
  <2>2. CASE UNCHANGED brk
    BY <2>1, <2>2, WordInt
  <2>3. CASE mips_spim_syscall
    <3>1. /\ brk <= brk' /\ brk' < MemSz - StkSz /\ brk' \in Word
          /\ brk' # brk => r'[v0] = brk
      BY <2>1, <2>3, ServiceEffect
    <3> QED
      BY <2>1, <3>1, WordInt, MemFacts
  <2> QED
    BY <1>1, <2>2, <2>3 DEF SysNext, Guest, Ended, svars
<1>2. SysInv /\ [SysNext]_<<vars, svars>> => [P]_<<vars, svars>>
  BY <1>1
<1> QED
  BY <1>2, SysInductive, PTL DEF SysSpec, BreakGrowsBelowStack

\* What pokes inside the buffer leave alone.
LEMMA BufferOnly ==
  ASSUME mem \in [WordAddrs -> Word], NEW s \in Pokes, mem' = PokeAll(s),
         \A m \in 1 .. Len(s) : s[m].a \in Writable,
         NEW a \in GuestAddrs, NEW k \in 0 .. 3, (a + k) \notin Writable
  PROVE  ByteAt(a + k)' = ByteAt(a + k)
<1>1. a \in WordAddrs
  BY GuestFacts
<1>2. \A n \in Done(s) : s[n].a # a + k
  BY PokeFacts
<1>3. ByteAfter(s, a + k) = ByteAt(a + k)
  BY <1>2, ByteAfterCases
<1>4. ByteAt(a + k)' = Bytes(Dec(mem'[a]))[k]
  BY <1>1, WordOfByte DEF ByteAt, Peek
<1>5. Bytes(Dec(PokeAll(s)[a]))[k] = ByteAfter(s, a + k)
  BY <1>1, PokeAllEffect
<1> QED
  BY <1>3, <1>4, <1>5

\* A service, from any state of the invariant.
LEMMA ServiceWrites ==
  ASSUME SysInv, mips_spim_syscall
  PROVE  /\ \A a \in GuestAddrs : \A k \in 0 .. 3 :
              (a + k) \notin Writable => ByteAt(a + k)' = ByteAt(a + k)
         /\ \A a \in WordAddrs \ GuestAddrs : mem'[a] = mem[a]
         /\ mem' \in [WordAddrs -> Word]
<1>1. /\ r \in [Regs -> Word] /\ mem \in [WordAddrs -> Word] /\ brk \in Word
      /\ LowBase <= brk /\ brk < MemSz - StkSz
  BY DEF SysInv, SysTypeOK, TypeOK
<1>2. Wrote
  BY <1>1, ServiceEffect
<1>3. mem' \in [WordAddrs -> Word]
  BY ServiceInv DEF SysInv, SysTypeOK, TypeOK
<1>4. CASE mem' = mem
  BY <1>3, <1>4 DEF ByteAt, Peek
<1>5. ASSUME NEW s \in Pokes, mem' = PokeAll(s),
             \A m \in 1 .. Len(s) : s[m].a \in Writable
      PROVE  /\ \A a \in GuestAddrs : \A k \in 0 .. 3 :
                  (a + k) \notin Writable => ByteAt(a + k)' = ByteAt(a + k)
             /\ \A a \in WordAddrs \ GuestAddrs : mem'[a] = mem[a]
  <2>1. \A a \in WordAddrs \ GuestAddrs : mem'[a] = mem[a]
    BY <1>1, <1>5, PokeAllGuest
  <2>2. \A a \in GuestAddrs : \A k \in 0 .. 3 :
          (a + k) \notin Writable => ByteAt(a + k)' = ByteAt(a + k)
    BY <1>1, <1>5, BufferOnly
  <2> QED
    BY <2>1, <2>2
<1> QED
  BY <1>2, <1>3, <1>4, <1>5 DEF Wrote

\* A service writes to the guest's memory only in the buffer it was given, but
\* for the terminator of read_string in a buffer of length 0.
THEOREM BufferOverflowFree == SysSpec => ServiceStaysInBuffer
<1> DEFINE P == res = "NONE" =>
       /\ \A a \in GuestAddrs : \A k \in 0 .. 3 :
            (a + k) \notin Writable => ByteAt(a + k)' = ByteAt(a + k)
       /\ \A a \in WordAddrs \ GuestAddrs : mem'[a] = mem[a]
<1>1. ASSUME SysInv, SysNext PROVE P
  <2>1. CASE mem' = mem
    BY <2>1 DEF ByteAt, Peek
  <2>2. CASE mips_spim_syscall
    BY <1>1, <2>2, ServiceWrites
  <2> QED
    BY <1>1, <2>1, <2>2 DEF SysNext, Guest, Ended, vars
<1>2. SysInv /\ [SysNext]_<<vars, svars>> => [P]_<<vars, svars>>
  BY <1>1
<1> QED
  BY <1>2, SysInductive, PTL DEF SysSpec, ServiceStaysInBuffer, Writable

----------------------------------------------------------------------------
(* The loop of the simulator.                                              *)

(***************************************************************************)
(* What makes the two invariants inductive: whenever the loop looks at an  *)
(* exception, the word at pc tells a trap from the other exceptions, if no *)
(* slot is pending and it can be read; nothing is reported before the end. *)
(***************************************************************************)
Named == delay_slot = 0 /\ Valid(pc, 4) =>
           \/ exn \in TrapOps /\ OpAtPC = exn
           \/ exn \notin TrapOps /\ OpAtPC \notin TrapOps

LoopInv ==
  /\ SysInv /\ LoopTypeOK
  /\ report = "NONE" <=> stage # "end"
  /\ stage = "switch" => exn \in Exceptions /\ Named
  /\ ServiceWasRequested /\ ReportNamesException

\* The word at pc has an opcode, or none.
LEMMA OpAtPCType ==
  ASSUME TypeOK
  PROVE  /\ OpAtPC \in Opcodes \cup {"NONE"}
         /\ OpAtPC \in TrapOps => Valid(pc, 4)
         /\ mips_break_code \in Nat \cup {-1}
         /\ mips_break_code # -1 => OpAtPC \in TrapOps
         /\ Resumed \in Word
<1>1. pc \in Word /\ mem \in [WordAddrs -> Word] /\ Unsigned(pc + 4) \in Word
  BY WordInt, UnsignedWord DEF TypeOK
<1>2. CASE Valid(pc, 4)
  <2>1. WordOf(pc) \in WordAddrs
    BY <1>1, <1>2, ValidAligned
  <2>2. InsnOf(Peek(pc)) \in Insns
    BY <1>1, <2>1, PeekWord, InsnAssumption
  <2> QED
    BY <1>1, <1>2, <2>2, InsnFields DEF OpAtPC, mips_break_code, Resumed, Insns
<1>3. CASE ~Valid(pc, 4)
  <2>1. OpAtPC = "NONE" /\ "NONE" \notin TrapOps
    BY <1>3 DEF OpAtPC, TrapOps
  <2> QED
    BY <1>1, <2>1 DEF mips_break_code, Resumed
<1> QED
  BY <1>2, <1>3

\* A handler never throws one of the exceptions of SYSCALL and BREAK.
LEMMA TrapsThrown ==
  ASSUME CpuOK, mips_execute, exn' \notin {"OK", "SIGFPE"}
  PROVE  \/ exn' = "ADDRESS" /\ ~Valid(Current, 4)
         \/ exn' \notin TrapOps /\ Insn.op \notin TrapOps
         \/ exn' \in TrapOps /\ Insn.op = exn'
<1>1. exn' # "ABORT" /\ r[0] = 0
  BY ExecuteOK DEF CpuOK, InternalErrorFree
<1>2. CASE FetchThrow
  <2>1. exn' = FetchException /\ FetchException # "OK"
    BY <1>2 DEF FetchThrow, Throw
  <2>2. \/ exn' = "ADDRESS" /\ ~Valid(Current, 4)
        \/ exn' = "INVALID" /\ Insn.op = "NONE"
    BY <1>1, <2>1 DEF FetchException
  <2> QED
    BY <2>2 DEF TrapOps
<1>3. CASE Trap
  BY <1>3 DEF Trap, Throw, Dispatched
<1>4. ASSUME NEW n, NEW p, Return(n, p) PROVE exn' \notin TrapOps
  BY <1>4 DEF Return, TrapOps
<1>5. ASSUME NEW e \in {"OVERFLOW", "ADDRESS", "INVALID", "SIGFPE"}, Throw(e)
      PROVE  exn' \notin TrapOps
  BY <1>5 DEF Throw, TrapOps
<1>6. CASE do_jump
  BY <1>4, <1>5, <1>6 DEF do_jump, Dispatched, JumpOps, TrapOps
<1>7. CASE do_branch
  BY <1>4, <1>5, <1>7 DEF do_branch, Dispatched, BranchOps, TrapOps
<1>8. CASE do_alui \/ do_alu3 \/ do_lui
  BY <1>4, <1>5, <1>8 DEF do_alui, do_alu3, do_lui, Dispatched, AluiOps, Alu3Ops,
     TrapOps
<1>9. CASE do_load \/ do_store
  BY <1>4, <1>5, <1>9 DEF do_load, do_store, Dispatched, LoadOps, StoreOps, TrapOps
<1>10. CASE do_divmult
  BY <1>4, <1>5, <1>10 DEF do_divmult, Dispatched, DivMultOps, TrapOps
<1> QED
  BY <1>2, <1>3, <1>6, <1>7, <1>8, <1>9, <1>10 DEF mips_execute

\* So the word at pc names the exception, if that word was the instruction.
LEMMA ExceptionNamed ==
  ASSUME CpuOK, mips_execute, exn' \in Exceptions
  PROVE  Named'
<1>1. exn' \notin {"OK", "SIGFPE"}
  BY DEF Exceptions
<1>2. Failed
  BY <1>1, ExecuteShape DEF Completed, Branched
<1>3. SUFFICES ASSUME delay_slot = 0, Valid(pc, 4)
               PROVE  \/ exn' \in TrapOps /\ OpAtPC = exn'
                      \/ exn' \notin TrapOps /\ OpAtPC \notin TrapOps
  BY <1>2 DEF Named, Failed, OpAtPC, Peek
<1>4. Current = pc /\ Valid(Current, 4) /\ OpAtPC = Insn.op
  BY <1>3 DEF Current, OpAtPC, Insn
<1> QED
  BY <1>1, <1>4, TrapsThrown

\* A call of mips_execute keeps the invariant of the loop.
LEMMA LoopExecuteInv == ASSUME LoopInv, LoopExecute PROVE LoopInv'
<1>1. CpuOK /\ stage = "execute" /\ mips_execute /\ UNCHANGED <<svars, opcode>>
  BY DEF LoopInv, SysInv, SysTypeOK, CpuOK, LoopExecute
<1>2. CpuOK'
  BY <1>1, ExecuteOK
<1>3. SysInv'
  BY <1>1, <1>2 DEF LoopInv, SysInv, SysTypeOK, CpuOK, svars, FdTableExact
<1>4. report = "NONE"
  BY <1>1 DEF LoopInv
<1>5. CASE exn' \in Exceptions /\ stage' = "switch" /\ UNCHANGED report
  BY <1>1, <1>2, <1>3, <1>4, <1>5, ExceptionNamed DEF LoopInv, LoopTypeOK, SysInv,
     Stages, ServiceWasRequested, ReportNamesException, CpuOK
<1>6. CASE exn' = "OK" /\ UNCHANGED <<stage, report>>
  BY <1>1, <1>2, <1>3, <1>4, <1>6 DEF LoopInv, LoopTypeOK, SysInv,
     Stages, ServiceWasRequested, ReportNamesException, CpuOK
<1>7. CASE exn' = "SIGFPE" /\ Stop("KILLED")
  BY <1>1, <1>2, <1>3, <1>4, <1>7 DEF LoopInv, LoopTypeOK, SysInv, Stop,
     Stages, Reports, ServiceWasRequested, ReportNamesException, CpuOK
<1> QED
  BY <1>5, <1>6, <1>7 DEF LoopExecute

\* So does the switch on what mips_break_code has found.
LEMMA LoopSwitchInv == ASSUME LoopInv, LoopSwitch PROVE LoopInv'
<1>1. /\ TypeOK /\ stage = "switch" /\ report = "NONE" /\ exn \in Exceptions /\ Named
      /\ UNCHANGED <<vars, brk, fds, open>> /\ opcode' = FoundOpcode
  BY DEF LoopInv, SysInv, SysTypeOK, LoopSwitch
<1>2. opcode' \in Opcodes \cup {"NONE"} /\ (Valid(pc, 4) => opcode' = OpAtPC)
  BY <1>1, OpAtPCType DEF FoundOpcode, LoopInv, LoopTypeOK
<1>3. ASSUME NEW n \in Results \cup {"NONE"}, res' = n PROVE SysInv'
  BY <1>1, <1>3 DEF vars, LoopInv, SysInv, SysTypeOK, TypeOK, InternalErrorFree,
     FdTableExact
<1>4. UNCHANGED <<pc, delay_slot, exn, OpAtPC, mips_break_code>>
  BY <1>1 DEF vars, OpAtPC, mips_break_code, Peek
<1>5. res \in Results \cup {"NONE"}
  BY DEF LoopInv, SysInv, SysTypeOK
<1>6. CASE opcode' = "BREAK" /\ Stop("BREAK") /\ UNCHANGED res
  <2>1. ReportNamesException'
    BY <1>1, <1>2, <1>4, <1>6 DEF Stop, Named, ReportNamesException, TrapOps, Valid
  <2> QED
    BY <1>2, <1>3, <1>5, <1>6, <2>1 DEF LoopInv, LoopTypeOK, SysInv, Stop, Stages,
       Reports, ServiceWasRequested
<1>7. CASE opcode' = "SYSCALL" /\ Stop("INVALID_CODE") /\ UNCHANGED res
  <2>1. ReportNamesException'
    BY <1>1, <1>2, <1>4, <1>7 DEF Stop, Named, ReportNamesException, TrapOps, Valid
  <2> QED
    BY <1>2, <1>3, <1>5, <1>7, <2>1 DEF LoopInv, LoopTypeOK, SysInv, Stop, Stages,
       Reports, ServiceWasRequested
<1>8. CASE /\ opcode' = "SYSCALL" /\ mips_break_code = SpimCode
           /\ stage' = "service" /\ res' = "NONE" /\ UNCHANGED report
  <2>1. OpAtPC = "SYSCALL" /\ Valid(pc, 4)
    BY <1>1, <1>2, <1>8, OpAtPCType, SyscallAssumption
  <2>2. ServiceWasRequested'
    BY <1>1, <1>4, <1>8, <2>1
       DEF ServiceWasRequested, Named, Exceptions, TrapOps, Valid
  <2>3. ReportNamesException'
    BY <1>1, <1>8 DEF ReportNamesException
  <2> QED
    BY <1>1, <1>2, <1>3, <1>8, <2>2, <2>3 DEF LoopInv, LoopTypeOK, SysInv, Stages
<1>9. CASE opcode' \notin TrapOps /\ Stop("EXCEPTION") /\ UNCHANGED res
  <2>1. ReportNamesException'
    BY <1>1, <1>2, <1>4, <1>9 DEF Stop, Named, ReportNamesException, TrapOps, Valid
  <2> QED
    BY <1>2, <1>3, <1>5, <1>9, <2>1 DEF LoopInv, LoopTypeOK, SysInv, Stop, Stages,
       Reports, ServiceWasRequested
<1> QED
  BY <1>6, <1>7, <1>8, <1>9 DEF LoopSwitch

\* A service, and mips_resume behind it.
LEMMA LoopServiceInv == ASSUME LoopInv, LoopService PROVE LoopInv'
<1>1. /\ stage = "service" /\ mips_spim_syscall /\ SysInv /\ ServiceWasRequested
      /\ report = "NONE" /\ opcode' = opcode
  BY DEF LoopInv, LoopService
<1>2. SysInv' /\ KeepCpu
  BY <1>1, ServiceInv DEF mips_spim_syscall
<1>3. delay_slot = 0 => exn = "SYSCALL"
  BY <1>1 DEF ServiceWasRequested
<1>4. CASE stage' = "resume" /\ UNCHANGED report
  BY <1>1, <1>2, <1>4 DEF LoopInv, LoopTypeOK, SysInv, Stages, ServiceWasRequested,
     ReportNamesException
<1>5. CASE Stop("FAULTED") \/ Stop("KILLED")
  BY <1>1, <1>2, <1>3, <1>5 DEF LoopInv, LoopTypeOK, SysInv, Stages, Reports, Stop,
     ServiceWasRequested, ReportNamesException, KeepCpu
<1> QED
  BY <1>4, <1>5 DEF LoopService

\* mips_resume.
LEMMA LoopResumeInv == ASSUME LoopInv, LoopResume PROVE LoopInv'
<1>1. TypeOK /\ report = "NONE"
  BY DEF LoopInv, SysInv, SysTypeOK, LoopResume
<1>2. pc' \in Word
  BY <1>1, OpAtPCType DEF LoopResume
<1>3. SysInv'
  BY <1>2 DEF LoopInv, LoopResume, SysInv, SysTypeOK, TypeOK, InternalErrorFree,
     FdTableExact, svars
<1> QED
  BY <1>1, <1>3 DEF LoopInv, LoopTypeOK, LoopResume, SysInv, Stages,
     ServiceWasRequested, ReportNamesException

\* Every step of the loop keeps the invariant.
LEMMA LoopStepInv == ASSUME LoopInv, LoopStep PROVE LoopInv'
BY LoopExecuteInv, LoopSwitchInv, LoopServiceInv, LoopResumeInv DEF LoopStep

\* The loop starts in it.
LEMMA LoopStartInv == ASSUME NEW p \in Programs, LoopStart(p) PROVE LoopInv
<1>1. SysInv
  BY SysStartInv DEF LoopStart
<1> QED
  BY <1>1 DEF LoopStart, LoopInv, LoopTypeOK, SysInv, Stages, Reports, Garbage,
     Opcodes, TrapOps, ServiceWasRequested, ReportNamesException

\* A step that changes nothing the invariant is about.
LEMMA LoopStutter == ASSUME LoopInv, UNCHANGED lvars PROVE LoopInv'
BY DEF LoopInv, lvars, svars, vars, LoopTypeOK, SysInv, SysTypeOK, TypeOK,
   InternalErrorFree, FdTableExact, ServiceWasRequested, ReportNamesException,
   Named, OpAtPC, mips_break_code, Peek

----------------------------------------------------------------------------
(* The host programs.                                                      *)

(***************************************************************************)
(* The memory while runbench pokes the parameters, the first i of which    *)
(* are there; no poke has reached the end of memory.  load-lvl1 copies in  *)
(* one step, and before it the memory is the file's.                       *)
(***************************************************************************)
PartlyDelivered ==
  /\ i > 0 => /\ tool = "runbench" /\ Target.value % 4 = 0
              /\ LowBase <= Target.value /\ Target.value + 4 * i <= MemSz
  /\ i <= Count(Target) /\ i <= Len(input)
  /\ \A a \in WordAddrs :
       \/ /\ Target.value <= a /\ a < Target.value + 4 * i
          /\ Dec(mem[a]) = input[((a - Target.value) \div 4) + 1]
       \/ /\ ~(Target.value <= a /\ a < Target.value + 4 * i)
          /\ mem[a] = file.image[a]

\* What the history says is in memory.
StoredExact ==
  /\ stored \in [GuestAddrs -> Word \cup {-1}]
  /\ \A a \in GuestAddrs : stored[a] # -1 => Dec(mem[a]) = stored[a]

\* Before execute_loop.
Preparing ==
  /\ tool # "run" /\ stage = "execute" /\ printed = <<>>
  /\ \A a \in GuestAddrs : stored[a] = -1

HarnessInv ==
  /\ LoopInv
  /\ \E c \in CommandLines : tool = c.tool /\ file = c.file /\ input = c.input
  /\ i \in Nat
  /\ StoredExact
  /\ at = "symbols" => Preparing /\ i = 0 /\ mem = file.image
  /\ at = "deliver" => Preparing /\ PartlyDelivered
  /\ at \in {"deliver", "run"} /\ tool # "run" => SymbolsFit
  /\ at # "end" => printed = <<>>
  /\ TimeIsGuests /\ SymbolsSuffice

\* What the two symbols and the input are, once the symbols are there.
LEMMA CommandFacts ==
  ASSUME HarnessInv
  PROVE  /\ file \in Programs /\ tool \in {"run", "runbench", "load-lvl1"}
         /\ tool = "runbench" => input \in Seq(Word)
         /\ tool = "load-lvl1" => /\ input \in Seq(Byte)
                                  /\ \A w \in Word : Enc(w) = w /\ Dec(w) = w
         /\ tool # "run" /\ Target # Missing =>
              Target.value \in Word /\ Target.size \in Word
         /\ tool # "run" /\ Second # Missing =>
              Second.value \in Word /\ Second.size \in Word
<1>1. PICK c \in CommandLines : tool = c.tool /\ file = c.file /\ input = c.input
  BY DEF HarnessInv
<1>2. file \in Programs /\ tool \in {"run", "runbench", "load-lvl1"}
  BY <1>1, CommandLinesAssumption
<1>3. CASE tool = "runbench"
  BY <1>1, <1>2, <1>3, CommandLinesAssumption DEF IsSymbol, Target, Second
<1>4. CASE tool = "load-lvl1"
  <2>1. /\ input \in Seq(Byte)
        /\ IsSymbol(file.sym.l2_elf) /\ IsSymbol(file.sym.l2_elf_size)
        /\ \A w \in Word : Enc(w) = w
    BY <1>1, <1>4, CommandLinesAssumption
  <2>2. \A w \in Word : Dec(w) = w
    BY <2>1, CipherAssumption
  <2> QED
    BY <1>2, <1>4, <2>1, <2>2 DEF IsSymbol, Target, Second
<1> QED
  BY <1>2, <1>3, <1>4

\* The host programs change the memory before the loop starts, not the CPU.
LEMMA HostStore ==
  ASSUME LoopInv, stage = "execute", mem' \in [WordAddrs -> Word],
         UNCHANGED <<r, hi, lo, pc, delay_slot, exn, svars, stage, opcode, report>>
  PROVE  LoopInv'
BY DEF LoopInv, LoopTypeOK, svars, SysInv, SysTypeOK, TypeOK, InternalErrorFree,
   FdTableExact, ServiceWasRequested, ReportNamesException

\* main, up to the symbols.
LEMMA HarnessStartInv == HarnessInit => HarnessInv
<1> SUFFICES ASSUME NEW c \in CommandLines, LoopStart(c.file),
                    tool = c.tool, file = c.file, input = c.input,
                    at = IF c.tool = "run" THEN "run" ELSE "symbols",
                    i = 0, stored = [a \in GuestAddrs |-> -1], printed = <<>>
             PROVE  HarnessInv
  BY DEF HarnessInit
<1>1. LoopInv
  BY LoopStartInv, CommandLinesAssumption
<1>2. stage = "execute" /\ mem = file.image
  BY DEF LoopStart, SysStart, Loaded
<1>3. StoredExact /\ \A a \in GuestAddrs : stored[a] = -1
  BY DEF StoredExact
<1>4. at = "symbols" => Preparing
  BY <1>2, <1>3 DEF Preparing
<1> QED
  BY <1>1, <1>2, <1>3, <1>4 DEF HarnessInv, TimeIsGuests, SymbolsSuffice

\* The symbols are looked up.
LEMMA FindSymbolsInv == ASSUME HarnessInv, FindSymbols PROVE HarnessInv'
<1>1. /\ at = "symbols" /\ Preparing /\ i = 0 /\ mem = file.image
      /\ UNCHANGED <<lvars, tool, file, input, stored, i, printed>>
  BY DEF HarnessInv, FindSymbols, KeepInput
<1>2. LoopInv'
  BY <1>1, LoopStutter DEF HarnessInv
<1>3. UNCHANGED <<mem, stage, Target, Second>>
  BY <1>1 DEF lvars, vars, Target, Second
<1>4. StoredExact' /\ Preparing' /\ TimeIsGuests'
  BY <1>1, <1>3 DEF HarnessInv, StoredExact, Preparing, TimeIsGuests
<1>5. CASE SymbolsFit /\ at' = "deliver"
  <2>1. SymbolsFit'
    BY <1>1, <1>3, <1>5 DEF SymbolsFit
  <2>2. PartlyDelivered'
    <3>1. /\ Target # Missing /\ Len(input) \in Nat
          /\ Target.value \in Int /\ Target.size \in Nat
      BY <1>1, <1>5, CommandFacts, WordInt DEF SymbolsFit, Preparing
    <3>2. 0 <= Count(Target)
      BY <3>1 DEF Count
    <3>3. \A a \in WordAddrs : ~(Target.value <= a /\ a < Target.value + 4 * 0)
      BY <3>1, MemFacts DEF WordAddrs
    <3> QED
      BY <1>1, <1>3, <3>1, <3>2, <3>3 DEF PartlyDelivered
  <2> QED
    BY <1>1, <1>2, <1>4, <1>5, <2>1, <2>2 DEF HarnessInv, SymbolsSuffice
<1>6. CASE at' = "exit"
  BY <1>1, <1>2, <1>4, <1>6 DEF HarnessInv, Preparing, SymbolsSuffice
<1> QED
  BY <1>5, <1>6 DEF FindSymbols

\* What runbench knows of its symbols once it has looked at their sizes.
LEMMA BenchFacts ==
  ASSUME HarnessInv, tool = "runbench", SymbolsFit
  PROVE  /\ input \in Seq(Word) /\ Len(input) \in Nat
         /\ Target.value \in Nat /\ Target.value < W
         /\ Second.value \in Word /\ Second.value \in Nat /\ Second.size = 8
         /\ Count(Target) \in Nat /\ 4 * Count(Target) = Target.size
<1>1. /\ input \in Seq(Word) /\ Target.value \in Word /\ Target.size \in Word
      /\ Second.value \in Word
  BY CommandFacts DEF SymbolsFit
<1>2. Target.size \in Nat /\ Target.size % 4 = 0 /\ Second.size = 8
  BY <1>1, WordInt DEF SymbolsFit
<1> QED
  BY <1>1, <1>2, WordInt DEF Count

\* The address of a parameter, when the poke there does not throw.
LEMMA ParameterAddress ==
  ASSUME HarnessInv, tool = "runbench", SymbolsFit, at = "deliver",
         Valid(Unsigned(Target.value + 4 * i), 4)
  PROVE  /\ Unsigned(Target.value + 4 * i) = Target.value + 4 * i
         /\ Target.value % 4 = 0 /\ LowBase <= Target.value
         /\ Target.value + 4 * i < MemSz /\ Target.value + 4 * i + 4 <= MemSz
<1> DEFINE v == Target.value
<1>1. v \in Nat /\ v < W /\ i \in Nat
  BY BenchFacts DEF HarnessInv
<1>2. v + 4 * i < W
  <2>1. CASE i = 0
    BY <1>1, <2>1
  <2>2. CASE i > 0
    <3>1. v + 4 * i <= MemSz
      BY <2>2 DEF HarnessInv, PartlyDelivered
    <3> HIDE DEF v
    <3> QED
      BY <1>1, <3>1, MemFacts, Sizes
  <2> QED
    BY <1>1, <2>1, <2>2
<1> HIDE DEF v
<1>3. Unsigned(v + 4 * i) = v + 4 * i
  BY <1>1, <1>2, UnsignedWord, Sizes DEF Word
<1>4. LowBase <= v + 4 * i /\ v + 4 * i < MemSz /\ (v + 4 * i) % 4 = 0
  BY <1>3 DEF Valid, v
<1>5. v % 4 = 0 /\ v + 4 * i + 4 <= MemSz
  BY <1>1, <1>4, MemFacts
<1>6. LowBase <= v
  <2>1. CASE i = 0
    BY <1>1, <1>4, <2>1
  <2>2. CASE i > 0
    BY <2>2 DEF HarnessInv, PartlyDelivered, v
  <2> QED
    BY <1>1, <2>1, <2>2
<1> QED
  BY <1>3, <1>4, <1>5, <1>6 DEF v

\* A poke of a parameter leaves the ones before it, and all else.
LEMMA ParameterPoked ==
  ASSUME HarnessInv, tool = "runbench", SymbolsFit, at = "deliver",
         i < Len(input), i < Count(Target),
         Valid(Unsigned(Target.value + 4 * i), 4),
         mem' = Put(Unsigned(Target.value + 4 * i), input[i + 1]), i' = i + 1,
         UNCHANGED <<tool, file, input>>
  PROVE  mem' \in [WordAddrs -> Word] /\ PartlyDelivered'
<1> DEFINE v == Target.value
           b == v + 4 * i
<1>1. /\ input \in Seq(Word) /\ Len(input) \in Nat /\ v \in Nat
      /\ Count(Target) \in Nat /\ i \in Nat
      /\ mem \in [WordAddrs -> Word] /\ PartlyDelivered
  BY BenchFacts DEF HarnessInv, Preparing, LoopInv, SysInv, SysTypeOK, TypeOK
<1>2. /\ Unsigned(b) = b /\ v % 4 = 0 /\ LowBase <= v /\ b < MemSz /\ b + 4 <= MemSz
  BY ParameterAddress
<1>3. b \in WordAddrs /\ WordOf(b) = b /\ b \in Nat /\ b % 4 = 0
  <2>1. b \in Nat /\ b % 4 = 0
    BY <1>1, <1>2
  <2> HIDE DEF b
  <2> QED
    BY <1>2, <2>1, MemFacts DEF WordAddrs, WordOf
<1>4. input[i + 1] \in Word
  <2>1. i + 1 \in 1 .. Len(input)
    BY <1>1
  <2> QED
    BY <1>1, <2>1
<1>5. mem' = [mem EXCEPT ![b] = Enc(input[i + 1])]
  BY <1>2, <1>3 DEF Put, Poke
<1>6. mem' \in [WordAddrs -> Word]
  BY <1>1, <1>3, <1>4, <1>5, CipherAssumption
<1>7. Target' = Target /\ Count(Target)' = Count(Target) /\ Len(input)' = Len(input)
  BY DEF Target, Count
<1>8. i' <= Count(Target) /\ i' <= Len(input) /\ v + 4 * i' <= MemSz
  BY <1>1, <1>2
<1>9. ASSUME NEW a \in WordAddrs
      PROVE  \/ /\ v <= a /\ a < v + 4 * (i + 1)
                /\ Dec(mem'[a]) = input[((a - v) \div 4) + 1]
             \/ /\ ~(v <= a /\ a < v + 4 * (i + 1))
                /\ mem'[a] = file.image[a]
  <2>1. a \in Nat /\ a % 4 = 0
    BY MemFacts DEF WordAddrs
  <2>2. CASE a = b
    <3>1. Dec(mem'[a]) = input[i + 1]
      BY <1>1, <1>3, <1>4, <1>5, <2>2, CipherAssumption
    <3>2. (a - v) \div 4 = i /\ v <= a /\ a < v + 4 * (i + 1)
      BY <1>1, <2>2
    <3> QED
      BY <3>1, <3>2
  <2>3. CASE a # b
    <3>1. mem'[a] = mem[a]
      BY <1>1, <1>5, <2>3
    <3>2. (v <= a /\ a < v + 4 * (i + 1)) <=> (v <= a /\ a < v + 4 * i)
      BY <1>1, <1>2, <2>1, <2>3
    <3> QED
      BY <1>1, <3>1, <3>2 DEF PartlyDelivered
  <2> QED
    BY <2>2, <2>3
<1> QED
  BY <1>2, <1>6, <1>7, <1>8, <1>9 DEF PartlyDelivered

\* parse_params.
LEMMA ParseParamsInv == ASSUME HarnessInv, parse_params PROVE HarnessInv'
<1>1. /\ at = "deliver" /\ tool = "runbench" /\ Preparing /\ PartlyDelivered
      /\ SymbolsFit /\ stage = "execute" /\ printed = <<>> /\ i \in Nat /\ LoopInv
      /\ mem \in [WordAddrs -> Word]
      /\ UNCHANGED <<r, hi, lo, pc, delay_slot, exn, svars, stage, opcode, report>>
      /\ UNCHANGED <<tool, file, input, stored, printed>>
  BY DEF HarnessInv, parse_params, Preparing, KeepInput, LoopInv, SysInv, SysTypeOK,
     TypeOK
<1>2. SymbolsFit' /\ Target' = Target /\ Second' = Second
  BY <1>1 DEF SymbolsFit, Target, Second
<1>3. StoredExact' /\ TimeIsGuests' /\ Preparing'
  BY <1>1 DEF HarnessInv, StoredExact, Preparing, TimeIsGuests
<1>4. CASE at' \in {"run", "exit"} /\ UNCHANGED <<mem, i>>
  <2>1. LoopInv'
    BY <1>1, <1>4, HostStore
  <2> QED
    BY <1>1, <1>2, <1>3, <1>4, <2>1 DEF HarnessInv, SymbolsSuffice
<1>5. CASE /\ ~Valid(Unsigned(Target.value + 4 * i), 4) /\ i < Count(Target)
           /\ at' = "undefined" /\ UNCHANGED <<mem, i>>
  <2>1. LoopInv'
    BY <1>1, <1>5, HostStore
  <2>2. \/ Target.value < LowBase \/ Target.value + Target.size > MemSz
        \/ Target.value % 4 # 0
    <3> DEFINE v == Target.value
               n == Count(Target)
    <3>1. v \in Nat /\ n \in Nat /\ 4 * n = Target.size
      BY <1>1, BenchFacts
    <3> HIDE DEF v, n
    <3>2. ASSUME LowBase <= v, v + 4 * n <= MemSz, v % 4 = 0 PROVE FALSE
      <4> DEFINE b == v + 4 * i
      <4>1. i \in Nat /\ i + 1 <= n
        BY <1>1, <1>5, <3>1 DEF n
      <4>2. b \in Nat /\ b % 4 = 0 /\ LowBase <= b /\ b + 4 <= v + 4 * n
        BY <3>1, <3>2, <4>1, MemFacts
      <4> HIDE DEF b
      <4>3. b < MemSz /\ b \in Word
        BY <3>1, <3>2, <4>2, MemFacts, Sizes DEF Word
      <4>4. Unsigned(b) = b
        BY <4>2, <4>3, UnsignedWord
      <4> QED
        BY <1>5, <4>2, <4>3, <4>4 DEF Valid, v, b
    <3> QED
      BY <3>1, <3>2, MemFacts DEF v
  <2>3. SymbolsSuffice'
    BY <1>1, <1>2, <2>2 DEF SymbolsSuffice
  <2> QED
    BY <1>1, <1>2, <1>3, <1>5, <2>1, <2>3 DEF HarnessInv
<1>6. CASE /\ i < Count(Target) /\ i < Len(input)
           /\ Valid(Unsigned(Target.value + 4 * i), 4)
           /\ mem' = Put(Unsigned(Target.value + 4 * i), input[i + 1])
           /\ i' = i + 1 /\ UNCHANGED at
  <2>1. mem' \in [WordAddrs -> Word] /\ PartlyDelivered'
    BY <1>1, <1>6, ParameterPoked
  <2>2. LoopInv'
    BY <1>1, <2>1, HostStore
  <2>3. StoredExact'
    BY <1>1 DEF HarnessInv, StoredExact, Preparing
  <2>4. i' \in Nat /\ at' = "deliver"
    BY <1>1, <1>6
  <2>5. SymbolsSuffice'
    BY <2>4 DEF SymbolsSuffice
  <2> QED
    BY <1>1, <1>2, <1>3, <2>1, <2>2, <2>3, <2>4, <2>5 DEF HarnessInv
<1> QED
  BY <1>4, <1>5, <1>6 DEF parse_params

\* A copy leaves words.
LEMMA CopiedType ==
  ASSUME NEW m \in [WordAddrs -> Word], NEW x \in Nat, NEW n \in Nat,
         NEW b \in [0 .. (n - 1) -> Byte]
  PROVE  /\ Copied(m, x, n, b) \in [WordAddrs -> Word]
         /\ \A a \in WordAddrs : \A k \in 0 .. 3 :
              Bytes(Copied(m, x, n, b)[a])[k] =
                IF x <= a + k /\ a + k < x + n THEN b[a + k - x] ELSE Bytes(m[a])[k]
<1> DEFINE bytes(a) == [k \in 0 .. 3 |->
             IF x <= a + k /\ a + k < x + n THEN b[a + k - x] ELSE Bytes(m[a])[k]]
<1>1. ASSUME NEW a \in WordAddrs PROVE bytes(a) \in [0 .. 3 -> Byte]
  <2>1. ASSUME NEW k \in 0 .. 3, x <= a + k /\ a + k < x + n
        PROVE  b[a + k - x] \in Byte
    <3>1. a + k - x \in 0 .. (n - 1)
      BY <2>1, MemFacts DEF WordAddrs
    <3> QED
      BY <3>1
  <2>2. \A k \in 0 .. 3 : Bytes(m[a])[k] \in Byte
    BY BytesType
  <2> QED
    BY <2>1, <2>2
<1>2. \A a \in WordAddrs : Copied(m, x, n, b)[a] = FromBytes(bytes(a))
  BY DEF Copied
<1>3. ASSUME NEW a \in WordAddrs
      PROVE  FromBytes(bytes(a)) \in Word /\ Bytes(FromBytes(bytes(a))) = bytes(a)
  <2>1. bytes(a) \in [0 .. 3 -> Byte]
    BY <1>1
  <2> HIDE DEF bytes
  <2> QED
    BY <2>1, FromBytesWord, BytesOfFromBytes
<1>4. Copied(m, x, n, b) \in [WordAddrs -> Word]
  <2>1. \A a \in WordAddrs : Copied(m, x, n, b)[a] \in Word
    BY <1>2, <1>3
  <2> QED
    BY <2>1 DEF Copied
<1>5. \A a \in WordAddrs : \A k \in 0 .. 3 : Bytes(Copied(m, x, n, b)[a])[k] = bytes(a)[k]
  BY <1>2, <1>3
<1> QED
  BY <1>4, <1>5

\* What the copies of load-lvl1 leave in memory.
LEMMA CopyEffect ==
  ASSUME HarnessInv, tool = "load-lvl1", SymbolsFit,
         mem' = Copied(Copied(mem, Target.value, Len(input),
                              [k \in 0 .. (Len(input) - 1) |-> input[k + 1]]),
                       Second.value, 4, Bytes(Len(input)))
  PROVE  /\ mem' \in [WordAddrs -> Word]
         /\ \A a \in WordAddrs : \A k \in 0 .. 3 : Bytes(mem'[a])[k] =
              IF Second.value <= a + k /\ a + k < Second.value + 4
              THEN Bytes(Len(input))[a + k - Second.value]
              ELSE IF Target.value <= a + k /\ a + k < Target.value + Len(input)
                   THEN input[a + k - Target.value + 1]
                   ELSE Bytes(mem[a])[k]
<1> DEFINE n == Len(input)
           b == [k \in 0 .. (n - 1) |-> input[k + 1]]
           m1 == Copied(mem, Target.value, n, b)
           m2 == Copied(m1, Second.value, 4, Bytes(n))
<1>1. /\ mem \in [WordAddrs -> Word] /\ input \in Seq(Byte) /\ n \in Nat
      /\ Target.value \in Nat /\ Target.size \in Word /\ Second.value \in Nat
  <2>1. mem \in [WordAddrs -> Word]
    BY DEF HarnessInv, LoopInv, SysInv, SysTypeOK, TypeOK
  <2>2. /\ input \in Seq(Byte) /\ Target.size \in Word
        /\ Target.value \in Word /\ Second.value \in Word
    BY CommandFacts DEF SymbolsFit
  <2> QED
    BY <2>1, <2>2, WordInt
<1>2. n <= Target.size /\ n \in Word
  <2>1. n <= Target.size
    BY DEF SymbolsFit
  <2> QED
    BY <1>1, <2>1, WordInt, Sizes DEF Word
<1>3. b \in [0 .. (n - 1) -> Byte]
  <2>1. ASSUME NEW k \in 0 .. (n - 1) PROVE input[k + 1] \in Byte
    <3>1. k + 1 \in 1 .. Len(input)
      BY <1>1
    <3> QED
      BY <1>1, <3>1
  <2> QED
    BY <2>1
<1>4. Bytes(n) \in [0 .. (4 - 1) -> Byte]
  BY <1>2, BytesType
<1> HIDE DEF n, b
<1>5. /\ m1 \in [WordAddrs -> Word]
      /\ \A a \in WordAddrs : \A k \in 0 .. 3 : Bytes(m1[a])[k] =
           IF Target.value <= a + k /\ a + k < Target.value + n
           THEN b[a + k - Target.value] ELSE Bytes(mem[a])[k]
  BY <1>1, <1>3, CopiedType
<1> HIDE DEF m1
<1>6. /\ m2 \in [WordAddrs -> Word]
      /\ \A a \in WordAddrs : \A k \in 0 .. 3 : Bytes(m2[a])[k] =
           IF Second.value <= a + k /\ a + k < Second.value + 4
           THEN Bytes(n)[a + k - Second.value] ELSE Bytes(m1[a])[k]
  <2>1. 4 \in Nat /\ Second.value \in Nat /\ m1 \in [WordAddrs -> Word]
    BY <1>1, <1>5
  <2> QED
    BY <1>4, <2>1, CopiedType, Zenon
<1>7. \A z \in Int : Target.value <= z /\ z < Target.value + n =>
        b[z - Target.value] = input[z - Target.value + 1]
  BY <1>1 DEF b
<1>8. \A a \in WordAddrs : \A k \in 0 .. 3 : a + k \in Int
  BY MemFacts DEF WordAddrs
<1>9. mem' = m2
  BY DEF m2, m1, b, n
<1> HIDE DEF m2
<1>10. ASSUME NEW a \in WordAddrs, NEW k \in 0 .. 3
       PROVE  Bytes(mem'[a])[k] =
                IF Second.value <= a + k /\ a + k < Second.value + 4
                THEN Bytes(n)[a + k - Second.value]
                ELSE IF Target.value <= a + k /\ a + k < Target.value + n
                     THEN input[a + k - Target.value + 1]
                     ELSE Bytes(mem[a])[k]
  <2>1. /\ Bytes(mem'[a])[k] =
             IF Second.value <= a + k /\ a + k < Second.value + 4
             THEN Bytes(n)[a + k - Second.value] ELSE Bytes(m1[a])[k]
        /\ Bytes(m1[a])[k] =
             IF Target.value <= a + k /\ a + k < Target.value + n
             THEN b[a + k - Target.value] ELSE Bytes(mem[a])[k]
    BY <1>5, <1>6, <1>9
  <2>2. Target.value <= a + k /\ a + k < Target.value + n =>
          b[a + k - Target.value] = input[a + k - Target.value + 1]
    <3> DEFINE z == a + k
    <3>1. z \in Int
      BY <1>8
    <3> HIDE DEF z
    <3>2. Target.value <= z /\ z < Target.value + n =>
            b[z - Target.value] = input[z - Target.value + 1]
      BY <1>7, <3>1
    <3>3. a \in Int /\ k \in Int
      BY MemFacts DEF WordAddrs
    <3>4. Target.value \in Int
      BY <1>1
    <3> DEFINE T == Target.value
    <3> HIDE DEF T
    <3>5. a + k - T = z - T
      BY <3>3, <3>4 DEF z, T
    <3> QED
      BY <3>2, <3>5 DEF z, T
  <2> QED
    BY <2>1, <2>2
<1> QED
  BY <1>6, <1>9, <1>10 DEF n

\* copy_level2.
LEMMA CopyLevel2Inv == ASSUME HarnessInv, copy_level2 PROVE HarnessInv'
<1>1. /\ at = "deliver" /\ tool = "load-lvl1" /\ Preparing
      /\ SymbolsFit /\ stage = "execute" /\ printed = <<>> /\ i \in Nat /\ LoopInv
      /\ mem \in [WordAddrs -> Word]
      /\ UNCHANGED <<r, hi, lo, pc, delay_slot, exn, svars, stage, opcode, report>>
      /\ UNCHANGED <<tool, file, input, stored, i, printed>>
  BY DEF HarnessInv, copy_level2, Preparing, KeepInput, LoopInv, SysInv, SysTypeOK,
     TypeOK
<1>2. SymbolsFit' /\ Target' = Target /\ Second' = Second
  BY <1>1 DEF SymbolsFit, Target, Second
<1>3. StoredExact' /\ TimeIsGuests'
  BY <1>1 DEF HarnessInv, StoredExact, Preparing, TimeIsGuests
<1>4. CASE at' = "run" /\ mem' \in [WordAddrs -> Word]
  <2>1. LoopInv'
    BY <1>1, <1>4, HostStore
  <2> QED
    BY <1>1, <1>2, <1>3, <1>4, <2>1 DEF HarnessInv, SymbolsSuffice
<1>5. CASE /\ \/ Target.value + Len(input) > MemSz \/ Second.value + 4 > MemSz
              \/ Second.value < LowBase
              \/ Len(input) > 0 /\ Target.value < LowBase
           /\ at' = "undefined" /\ UNCHANGED mem
  <2>1. LoopInv'
    BY <1>1, <1>5, HostStore
  <2>2. /\ Target.value \in Nat /\ Target.size \in Nat /\ Len(input) \in Nat
        /\ Len(input) <= Target.size /\ Second.value \in Nat /\ Second.size \in Nat
    BY <1>1, CommandFacts, WordInt DEF SymbolsFit
  <2>3. \/ Target.value < LowBase \/ Target.value + Target.size > MemSz
        \/ Second.value < LowBase \/ Second.value + Second.size > MemSz
        \/ Second.size < 4
    <3>1. /\ \A x, y, z \in Nat : x + y > MemSz /\ y <= z => x + z > MemSz
          /\ \A x, z \in Nat : x + 4 > MemSz => x + z > MemSz \/ z < 4
      BY MemFacts
    <3> QED
      BY <1>5, <2>2, <3>1
  <2>4. SymbolsSuffice'
    BY <1>1, <1>2, <2>3 DEF SymbolsSuffice
  <2> QED
    BY <1>1, <1>2, <1>3, <1>5, <2>1, <2>4 DEF HarnessInv
<1> QED
  BY <1>1, <1>4, <1>5, CopyEffect DEF copy_level2

\* The history follows the stores of the guest.
LEMMA StoredStep ==
  ASSUME LoopInv, StoredExact, LoopStep, stored' = Stored
  PROVE  StoredExact'
<1>1. CASE LoopExecute
  <2>1. stage = "execute" /\ CpuOK /\ mips_execute /\ mem \in [WordAddrs -> Word]
    BY <1>1 DEF LoopExecute, LoopInv, SysInv, SysTypeOK, TypeOK, CpuOK
  <2>2. CASE mem' = mem /\ (exn' = "OK" => Insn.op \notin StoreOps)
    BY <2>1, <2>2 DEF Stored, StoredExact
  <2>3. ASSUME Insn.op \in StoreOps, exn' = "OK", NEW a \in GuestAddrs,
               a = WordOf(ea(Insn)), NEW w \in Word,
               mem' = [mem EXCEPT ![a] = Enc(w)],
               Insn.op = "SW" => w = r[Insn.rt]
        PROVE  StoredExact'
    <3>1. stored' = [stored EXCEPT ![a] = IF Insn.op = "SW" THEN w ELSE -1]
      BY <2>1, <2>3 DEF Stored
    <3>2. a \in WordAddrs /\ Dec(Enc(w)) = w
      BY GuestFacts, CipherAssumption
    <3>3. stored' \in [GuestAddrs -> Word \cup {-1}]
      BY <3>1 DEF StoredExact
    <3>4. ASSUME NEW b \in GuestAddrs, stored'[b] # -1
          PROVE  Dec(mem'[b]) = stored'[b]
      <4>1. CASE b = a
        BY <2>1, <2>3, <3>1, <3>2, <3>4, <4>1 DEF StoredExact
      <4>2. CASE b # a
        <5>1. mem'[b] = mem[b] /\ stored'[b] = stored[b]
          BY <2>1, <2>3, <3>1, <3>2, <4>2, GuestFacts DEF StoredExact
        <5> QED
          BY <3>4, <5>1 DEF StoredExact
      <4> QED
        BY <4>1, <4>2
    <3> QED
      BY <3>3, <3>4 DEF StoredExact
  <2> QED
    BY <2>1, <2>2, <2>3, StoreStep
<1>2. CASE LoopService
  <2>1. stored' = [x \in GuestAddrs |-> -1]
    BY <1>2 DEF LoopService, Stored
  <2> QED
    BY <2>1 DEF StoredExact
<1>3. CASE LoopSwitch \/ LoopResume
  <2>1. mem' = mem /\ stored' = stored
    BY <1>3 DEF LoopSwitch, LoopResume, Stored, vars
  <2> QED
    BY <2>1 DEF StoredExact
<1> QED
  BY <1>1, <1>2, <1>3 DEF LoopStep

\* A step of execute_loop.
LEMMA RunLoopInv == ASSUME HarnessInv, RunLoop PROVE HarnessInv'
<1>1. /\ at = "run" /\ LoopStep /\ stored' = Stored /\ LoopInv /\ StoredExact
      /\ printed = <<>> /\ UNCHANGED <<tool, file, input, at, i, printed>>
  BY DEF HarnessInv, RunLoop
<1>2. LoopInv' /\ StoredExact'
  BY <1>1, LoopStepInv, StoredStep
<1>3. SymbolsFit => SymbolsFit'
  BY <1>1 DEF SymbolsFit, Target, Second
<1> QED
  BY <1>1, <1>2, <1>3 DEF HarnessInv, TimeIsGuests, SymbolsSuffice

\* The two words of TIME, when the peeks there do not throw.
LEMMA TimeWords ==
  ASSUME NEW t \in Word, Valid(t, 4), Valid(Unsigned(t + 4), 4)
  PROVE  /\ t \in GuestAddrs /\ WordOf(t) = t
         /\ Unsigned(t + 4) = t + 4 /\ t + 4 \in GuestAddrs /\ WordOf(t + 4) = t + 4
<1>1. t \in Nat /\ t < MemSz
  BY WordInt DEF Valid
<1>2. t + 4 \in Word
  BY <1>1, MemFacts, Sizes DEF Word
<1>3. Unsigned(t + 4) = t + 4
  BY <1>1, <1>2, UnsignedWord
<1> QED
  BY <1>2, <1>3, ValidAligned

\* A TIME of eight bytes in memory, aligned, can be peeked.
LEMMA TimeInMemory ==
  ASSUME NEW t \in Word, LowBase <= t, t + 8 <= MemSz, t % 4 = 0
  PROVE  Valid(t, 4) /\ Valid(Unsigned(t + 4), 4)
<1>1. t \in Nat /\ t + 4 \in Word
  BY WordInt, MemFacts, Sizes DEF Word
<1>2. Unsigned(t + 4) = t + 4
  BY <1>1, UnsignedWord
<1> QED
  BY <1>1, <1>2, MemFacts DEF Valid

\* What comes behind execute_loop.
LEMMA PrintTimeInv == ASSUME HarnessInv, PrintTime PROVE HarnessInv'
<1> DEFINE t == Second.value
<1>1. /\ at = "run" /\ printed = <<>> /\ LoopInv /\ StoredExact
      /\ tool # "run" => SymbolsFit
      /\ UNCHANGED <<lvars, tool, file, input, stored, i>>
  BY DEF HarnessInv, PrintTime, KeepInput
<1>2. LoopInv'
  BY <1>1, LoopStutter
<1>3. UNCHANGED <<mem, Target, Second>>
  BY <1>1 DEF lvars, vars, Target, Second
<1>4. StoredExact'
  BY <1>1, <1>3 DEF StoredExact
<1>5. CASE at' \in {"killed", "end"} /\ UNCHANGED printed
  BY <1>1, <1>2, <1>4, <1>5 DEF HarnessInv, TimeIsGuests, SymbolsSuffice
<1>6. CASE /\ tool = "runbench" /\ ~(Valid(t, 4) /\ Valid(Unsigned(t + 4), 4))
           /\ at' = "undefined" /\ UNCHANGED printed
  <2>1. t \in Word /\ Second.size = 8
    BY <1>1, <1>6, BenchFacts
  <2>2. ~(LowBase <= t /\ t + 8 <= MemSz /\ t % 4 = 0)
    BY <1>6, <2>1, TimeInMemory
  <2>3. t < LowBase \/ t + 8 > MemSz \/ t % 4 # 0
    BY <2>1, <2>2, WordInt, MemFacts
  <2>4. SymbolsSuffice'
    BY <1>1, <1>3, <1>6, <2>1, <2>3 DEF SymbolsSuffice
  <2> QED
    BY <1>1, <1>2, <1>4, <1>6, <2>4 DEF HarnessInv, TimeIsGuests
<1>7. CASE /\ tool = "runbench" /\ Valid(t, 4) /\ Valid(Unsigned(t + 4), 4)
           /\ at' = "end" /\ printed' = Time(t)
  <2>1. t \in Word
    BY <1>1, <1>7, BenchFacts
  <2>2. /\ t \in GuestAddrs /\ t + 4 \in GuestAddrs
        /\ Time(t) = <<Dec(mem[t + 4]), Dec(mem[t])>>
    <3>1. Peek(t) = Dec(mem[t]) /\ Peek(t + 4) = Dec(mem[t + 4])
      BY <1>7, <2>1, TimeWords DEF Peek
    <3> QED
      BY <1>7, <2>1, <3>1, TimeWords DEF Time
  <2>3. /\ stored[t] # -1 => Dec(mem[t]) = stored[t]
        /\ stored[t + 4] # -1 => Dec(mem[t + 4]) = stored[t + 4]
    BY <1>1, <2>2 DEF StoredExact
  <2>4. TimeIsGuests'
    <3>1. t \in Int /\ t' = t /\ t + 4 * 0 = t /\ t + 4 * 1 = t + 4
      BY <1>3, <2>1, WordInt
    <3>2. printed'[1] = Dec(mem[t + 4]) /\ printed'[2] = Dec(mem[t])
      BY <1>7, <2>2
    <3>3. stored' = stored
      BY <1>1
    <3> HIDE DEF t
    <3>4. ASSUME NEW k \in {0, 1}, stored[t + 4 * k] # -1
          PROVE  printed'[2 - k] = stored[t + 4 * k]
      BY <2>3, <3>1, <3>2, <3>4
    <3> QED
      BY <1>3, <3>3, <3>4 DEF TimeIsGuests, t
  <2> QED
    BY <1>1, <1>2, <1>4, <1>7, <2>4 DEF HarnessInv, SymbolsSuffice
<1> QED
  BY <1>5, <1>6, <1>7 DEF PrintTime

\* A state that a step leaves as it is.
LEMMA HarnessStutter == ASSUME HarnessInv, UNCHANGED hvars PROVE HarnessInv'
<1>1. UNCHANGED <<lvars, tool, file, input, at, i, stored, printed, mem, stage>>
  BY DEF hvars, lvars, vars
<1>2. LoopInv'
  BY <1>1, LoopStutter DEF HarnessInv
<1>3. Target' = Target /\ Second' = Second
  BY <1>1 DEF Target, Second
<1>4. /\ StoredExact' /\ (Preparing => Preparing') /\ TimeIsGuests'
      /\ SymbolsSuffice' /\ (SymbolsFit => SymbolsFit')
      /\ PartlyDelivered => PartlyDelivered'
  BY <1>1, <1>3 DEF HarnessInv, StoredExact, Preparing, TimeIsGuests, SymbolsSuffice,
     SymbolsFit, PartlyDelivered, Count
<1> QED
  BY <1>1, <1>2, <1>4 DEF HarnessInv

\* The invariant of the host programs, whatever the user starts.
THEOREM HarnessInductive == HarnessSpec => []HarnessInv
<1>1. HarnessInv /\ [HarnessNext]_hvars => HarnessInv'
  BY FindSymbolsInv, ParseParamsInv, CopyLevel2Inv, RunLoopInv, PrintTimeInv,
     HarnessStutter DEF HarnessNext, HarnessDone
<1> QED
  BY <1>1, HarnessStartInv, PTL DEF HarnessSpec

\* execute_loop keeps its types in every host program, and the last line it
\* prints is one of those its switch has.
THEOREM LoopTypeCorrect == HarnessSpec => []LoopTypeOK
<1>1. HarnessInv => LoopTypeOK
  BY DEF HarnessInv, LoopInv
<1> QED
  BY <1>1, HarnessInductive, PTL

\* A service runs only when a SYSCALL with the SPIM code is at pc, whatever
\* opcode held before mips_break_code was asked; and if no slot is pending that
\* SYSCALL is the exception.
THEOREM ServiceRequested == HarnessSpec => []ServiceWasRequested
<1>1. HarnessInv => ServiceWasRequested
  BY DEF HarnessInv, LoopInv
<1> QED
  BY <1>1, HarnessInductive, PTL

\* A word is the same if its bytes are.
LEMMA SameWord ==
  ASSUME mem \in [WordAddrs -> Word], mem' \in [WordAddrs -> Word],
         NEW a \in GuestAddrs,
         \A k \in 0 .. 3 : ByteAt(a + k)' = ByteAt(a + k)
  PROVE  Dec(mem'[a]) = Dec(mem[a])
<1>1. a \in WordAddrs /\ mem[a] \in Word /\ mem'[a] \in Word
  BY GuestFacts
<1>2. Dec(mem[a]) \in Word /\ Dec(mem'[a]) \in Word
  BY <1>1, CipherAssumption
<1>3. \A k \in 0 .. 3 : Bytes(Dec(mem'[a]))[k] = Bytes(Dec(mem[a]))[k]
  BY <1>1, WordOfByte DEF ByteAt, Peek
<1>4. Bytes(Dec(mem'[a])) = Bytes(Dec(mem[a]))
  BY <1>2, <1>3, BytesType
<1> QED
  BY <1>2, <1>4, FromBytesOfBytes

\* The SYSCALL that execute_loop serves is there for mips_resume, unless it lies
\* in the buffer the guest named.
THEOREM SyscallStays == HarnessSpec => SyscallIsKept
<1> DEFINE P == stage = "service" /\ stage' = "resume" =>
                  OpAtPC' = "SYSCALL" \/ \E k \in 0 .. 3 : (pc + k) \in Writable
<1>1. ASSUME LoopInv, LoopService, \A k \in 0 .. 3 : (pc + k) \notin Writable
      PROVE  OpAtPC' = "SYSCALL"
  <2>1. /\ SysInv /\ TypeOK /\ stage = "service" /\ mips_spim_syscall /\ pc' = pc
        /\ OpAtPC = "SYSCALL" /\ pc \in Word /\ mem \in [WordAddrs -> Word]
    BY <1>1 DEF LoopInv, LoopService, SysInv, SysTypeOK, TypeOK, ServiceWasRequested,
       mips_spim_syscall, KeepCpu
  <2>2. Valid(pc, 4)
    BY <2>1, OpAtPCType DEF TrapOps
  <2>3. pc \in GuestAddrs /\ WordOf(pc) = pc
    BY <2>1, <2>2, ValidAligned
  <2>4. Dec(mem'[pc]) = Dec(mem[pc])
    BY <1>1, <2>1, <2>3, ServiceWrites, SameWord
  <2> QED
    BY <2>1, <2>2, <2>3, <2>4 DEF OpAtPC, Peek
<1>2. ASSUME HarnessInv, HarnessNext PROVE P
  <2>1. CASE LoopService
    BY <1>1, <1>2, <2>1 DEF HarnessInv
  <2>2. CASE LoopExecute \/ LoopSwitch \/ LoopResume
    BY <2>2 DEF LoopExecute, LoopSwitch, LoopResume
  <2>3. CASE UNCHANGED stage
    BY <2>3
  <2> QED
    BY <1>2, <2>1, <2>2, <2>3 DEF HarnessNext, FindSymbols, parse_params, copy_level2,
       RunLoop, LoopStep, PrintTime, HarnessDone, hvars, lvars
<1>3. HarnessInv /\ [HarnessNext]_hvars => [P]_lvars
  BY <1>2 DEF hvars, lvars
<1> QED
  BY <1>3, HarnessInductive, PTL DEF HarnessSpec, SyscallIsKept, Writable

\* What execute_loop prints names the exception, when the word at pc can be read
\* and no delay slot is pending.
THEOREM ReportNames == HarnessSpec => []ReportNamesException
<1>1. HarnessInv => ReportNamesException
  BY DEF HarnessInv, LoopInv
<1> QED
  BY <1>1, HarnessInductive, PTL

\* The time that runbench prints is the one the guest stored.
THEOREM TimeExact == HarnessSpec => []TimeIsGuests
<1>1. HarnessInv => TimeIsGuests
  BY DEF HarnessInv
<1> QED
  BY <1>1, HarnessInductive, PTL

\* The unprotected accesses of the host programs are defined for every file
\* whose symbols lie in its memory, have their alignment and hold a word.
THEOREM SymbolsProtect == HarnessSpec => []SymbolsSuffice
<1>1. HarnessInv => SymbolsSuffice
  BY DEF HarnessInv
<1> QED
  BY <1>1, HarnessInductive, PTL

\* The word and the offset of a byte of the guest's.
LEMMA ByteOfWord ==
  ASSUME NEW x \in LowBase .. (MemSz - 1)
  PROVE  /\ WordOf(x) \in WordAddrs /\ x % 4 \in 0 .. 3 /\ x \in Nat
         /\ WordOf(x) + (x % 4) = x /\ WordOf(x) % 4 = 0 /\ WordOf(x) \in Nat
<1>1. x \in Nat /\ x < MemSz
  BY MemFacts
<1>2. /\ x % 4 \in 0 .. 3 /\ WordOf(x) + (x % 4) = x /\ WordOf(x) \in Nat
      /\ WordOf(x) % 4 = 0 /\ WordOf(x) <= x
  BY <1>1 DEF WordOf
<1>3. WordOf(x) \in WordAddrs
  <2> DEFINE a == WordOf(x)
  <2>1. a \in Nat /\ a % 4 = 0 /\ a <= x
    BY <1>2
  <2> HIDE DEF a
  <2>2. a \in WordAddrs
    BY <1>1, <2>1, MemFacts DEF WordAddrs
  <2> QED
    BY <2>2 DEF a
<1> QED
  BY <1>1, <1>2, <1>3

\* The parameters are delivered when no poke of them is left.
LEMMA ParametersDelivered ==
  ASSUME HarnessInv, parse_params, at' = "run",
         NEW x \in LowBase .. (MemSz - 1)
  PROVE  GuestByte(mem', x) = Delivered(x)
<1> DEFINE a == WordOf(x)
           v == Target.value
           k == x - v
<1>1. /\ at = "deliver" /\ tool = "runbench" /\ SymbolsFit /\ PartlyDelivered
      /\ mem' = mem /\ ~(i < Count(Target)) /\ i \in Nat
  BY DEF HarnessInv, parse_params
<1>2. /\ Count(Target) \in Nat /\ 4 * Count(Target) = Target.size /\ v \in Nat
      /\ Target.size # 0
  BY <1>1, BenchFacts DEF SymbolsFit
<1>3. i = Count(Target) /\ i > 0 /\ 4 * i = Target.size
  BY <1>1, <1>2 DEF PartlyDelivered
<1>4. v % 4 = 0
  BY <1>1, <1>3 DEF PartlyDelivered
<1>5. a \in WordAddrs /\ a \in Nat /\ a + (x % 4) = x /\ x % 4 \in 0 .. 3 /\ x \in Nat
      /\ a % 4 = 0
  BY ByteOfWord
<1>6. \/ v <= a /\ a < v + 4 * i /\ Dec(mem[a]) = input[((a - v) \div 4) + 1]
      \/ ~(v <= a /\ a < v + 4 * i) /\ mem[a] = file.image[a]
  BY <1>1, <1>5 DEF PartlyDelivered
<1>7. GuestByte(mem', x) = Bytes(Dec(mem[a]))[x % 4]
  BY <1>1 DEF GuestByte
<1>8. Delivered(x) = IF 0 <= k /\ k < Target.size
                     THEN Bytes(input[(k \div 4) + 1])[k % 4]
                     ELSE Bytes(Dec(file.image[a]))[x % 4]
  BY <1>1 DEF Delivered, GuestByte
<1>9. /\ (0 <= k /\ k < Target.size) <=> (v <= a /\ a < v + 4 * i)
      /\ v <= a => k \div 4 = (a - v) \div 4 /\ k % 4 = x % 4
  <2> DEFINE q == x % 4
  <2> HIDE DEF q, a, v
  <2>1. x = a + q /\ q \in 0 .. 3 /\ a \in Nat /\ v \in Nat /\ a % 4 = 0 /\ v % 4 = 0
        /\ i \in Nat /\ Target.size = 4 * i
    BY <1>1, <1>2, <1>3, <1>4, <1>5 DEF q
  <2>2. (0 <= k /\ k < 4 * i) <=> (v <= a /\ a < v + 4 * i)
    BY <2>1
  <2>3. v <= a => k \div 4 = (a - v) \div 4 /\ k % 4 = q
    BY <2>1
  <2> QED
    BY <2>1, <2>2, <2>3 DEF q
<1> HIDE DEF a, v, k
<1> QED
  BY <1>6, <1>7, <1>8, <1>9

\* The copies deliver the second file and its size.
LEMMA FileDelivered ==
  ASSUME HarnessInv, copy_level2, at' = "run",
         NEW x \in LowBase .. (MemSz - 1)
  PROVE  GuestByte(mem', x) = Delivered(x)
<1> DEFINE a == WordOf(x)
           q == x % 4
           n == Len(input)
           v == Target.value
           u == Second.value
<1>1. /\ at = "deliver" /\ tool = "load-lvl1" /\ SymbolsFit /\ PartlyDelivered
      /\ mem' = Copied(Copied(mem, v, n, [j \in 0 .. (n - 1) |-> input[j + 1]]),
                       u, 4, Bytes(n))
  BY DEF HarnessInv, copy_level2
<1>2. /\ a \in WordAddrs /\ q \in 0 .. 3 /\ x \in Nat /\ a + q = x /\ a \in Nat
  BY ByteOfWord
<1>3. /\ mem' \in [WordAddrs -> Word]
      /\ Bytes(mem'[a])[q] =
           IF u <= a + q /\ a + q < u + 4 THEN Bytes(n)[a + q - u]
           ELSE IF v <= a + q /\ a + q < v + n THEN input[a + q - v + 1]
                ELSE Bytes(mem[a])[q]
  BY <1>1, <1>2, CopyEffect
<1>4. i = 0 /\ v \in Nat /\ u \in Nat /\ n \in Nat
      /\ \A w \in Word : Dec(w) = w
  <2>1. i = 0
    BY <1>1 DEF HarnessInv, PartlyDelivered
  <2> QED
    BY <1>1, <2>1, CommandFacts, WordInt DEF SymbolsFit
<1>5. mem[a] = file.image[a] /\ mem[a] \in Word
  <2>1. ~(v <= a /\ a < v + 4 * i)
    BY <1>2, <1>4
  <2>2. mem[a] \in Word
    BY <1>2 DEF HarnessInv, LoopInv, SysInv, SysTypeOK, TypeOK
  <2> QED
    BY <1>1, <1>2, <2>1, <2>2 DEF PartlyDelivered
<1>6. GuestByte(mem', x) = Bytes(mem'[a])[q]
  BY <1>2, <1>3, <1>4 DEF GuestByte
<1>7. GuestByte(file.image, x) = Bytes(mem[a])[q]
  BY <1>4, <1>5 DEF GuestByte
<1>8. Delivered(x) =
        IF 0 <= x - u /\ x - u < 4 THEN Bytes(n)[x - u]
        ELSE IF 0 <= x - v /\ x - v < n THEN input[(x - v) + 1]
             ELSE GuestByte(file.image, x)
  BY <1>1 DEF Delivered
<1> HIDE DEF a, q, v, u, n
<1>9. /\ (u <= a + q /\ a + q < u + 4) <=> (0 <= x - u /\ x - u < 4)
      /\ (v <= a + q /\ a + q < v + n) <=> (0 <= x - v /\ x - v < n)
      /\ a + q - u = x - u /\ a + q - v + 1 = (x - v) + 1
  BY <1>2, <1>4
<1> QED
  BY <1>3, <1>6, <1>7, <1>8, <1>9

\* What runbench and load-lvl1 hand to the guest is what it finds, byte by byte,
\* through its own memory accesses, and nothing else has changed.
THEOREM DeliveryExact == HarnessSpec => DataDelivered
<1> DEFINE P == at # "run" /\ at' = "run" =>
                  \A x \in LowBase .. (MemSz - 1) : GuestByte(mem', x) = Delivered(x)
<1>1. ASSUME HarnessInv, HarnessNext PROVE P
  <2>1. CASE parse_params
    BY <1>1, <2>1, ParametersDelivered
  <2>2. CASE copy_level2
    BY <1>1, <2>2, FileDelivered
  <2>3. CASE FindSymbols \/ RunLoop \/ PrintTime \/ HarnessDone
    BY <2>3 DEF FindSymbols, RunLoop, PrintTime, HarnessDone, hvars
  <2> QED
    BY <1>1, <2>1, <2>2, <2>3 DEF HarnessNext
<1>2. HarnessInv /\ [HarnessNext]_hvars => [P]_hvars
  BY <1>1
<1> QED
  BY <1>2, HarnessInductive, PTL DEF HarnessSpec, DataDelivered
============================================================================
