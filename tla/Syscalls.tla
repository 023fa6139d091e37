------------------------------ MODULE Syscalls -----------------------------
(***************************************************************************)
(* The SPIM services (vm/hosted/syscalls.c): mips_spim_syscall and its     *)
(* thirteen handlers, the table of descriptors and the break, over the     *)
(* memory of module Cpu.  The guest is abstract here: between two services *)
(* it loads the registers with the arguments of one of Calls.  Output, the *)
(* names of files and the host's file positions are left out.              *)
(***************************************************************************)
EXTENDS Cpu, Sequences

CONSTANTS
  SpimCode,   \* MIPS_SPIM_SYSCALL
  MaxFds,     \* MIPS_MAXFDS
  NameMax,    \* the size of fname in do_open
  HostFds,    \* the descriptors the host may return
  HostOpen,   \* those it has open at the start
  HostWords,  \* what the clock, scanf and lseek may return
  Lines,      \* what a user may type: [chars, eof]
  Files,      \* what a read may find in a file, sequences of bytes
  Calls       \* the services the guest asks for: [v0, a0, a1, a2]

VARIABLES
  brk,   \* brk
  fds,   \* fds[]: host descriptors, -1 if free
  open,  \* the descriptors open in the host
  res    \* "NONE" while a service is wanted, or what the last one returned

svars == <<brk, fds, open, res>>

\* FAIL is -1; ASSERT and UNDEFINED end the process: a failed assertion, and
\* a longjmp to a function that has returned.
Results == {"OK", "FAIL", "ADDRESS", "ABORT", "ASSERT", "UNDEFINED"}

\* The registers of a service's arguments and results.
v0 == 2
v1 == 3
a0 == 4
a1 == 5
a2 == 6

ASSUME SyscallAssumption ==
  /\ {v0, v1, a0, a1, a2} \subseteq Regs
  /\ SpimCode \in Nat
  /\ MaxFds \in Nat /\ MaxFds >= 3 /\ MaxFds <= W \div 2
  /\ NameMax \in Nat
  /\ HostFds \subseteq Nat /\ 0 .. 2 \subseteq HostFds
  /\ HostOpen \subseteq HostFds
  /\ HostWords \subseteq Word
  /\ \A line \in Lines : line.chars \in Seq(Byte) /\ line.eof \in BOOLEAN
  /\ Files \subseteq Seq(Byte)
  /\ \A c \in Calls : {c.v0, c.a0, c.a1, c.a2} \subseteq Word
  /\ \A p \in Programs : p.end \in LowBase .. (MemSz - StkSz - 1)

\* A process starts with its standard streams; mips_init_cpu relies on it.
ASSUME StandardStreams == 0 .. 2 \subseteq HostOpen

----------------------------------------------------------------------------
(* Bytes of the guest's memory, and the effect of a loop of pokes.         *)

\* mips_peek_ub; x must be valid.
ByteAt(x) == Bytes(Peek(x))[x % 4]

\* mips_poke_ub is done for the pokes of s before the first that throws.
Done(s) == {n \in 1 .. Len(s) : \A k \in 1 .. n : Valid(s[k].a, 1)}

\* The byte at x then: the last one poked there, if any.
ByteAfter(s, x) ==
  LET hits == {n \in Done(s) : s[n].a = x}
  IN  IF hits = {} THEN ByteAt(x)
      ELSE s[CHOOSE n \in hits : \A m \in hits : m <= n].v

\* The memory then; every poke of a byte stores the word it lies in.
PokeAll(s) ==
  [a \in WordAddrs |->
     IF \E n \in Done(s) : WordOf(s[n].a) = a
     THEN Enc(FromBytes([k \in 0 .. 3 |-> ByteAfter(s, a + k)]))
     ELSE mem[a]]

Throws(s) == \E n \in 1 .. Len(s) : ~Valid(s[n].a, 1)

\* Mutant: one byte too high.
CopyOut_late(x, b) == [n \in 1 .. Len(b) |-> [a |-> Unsigned(x + n), v |-> b[n]]]

\* The pokes that copy the bytes b to x.
CopyOut(x, b) == [n \in 1 .. Len(b) |-> [a |-> Unsigned(x + n - 1), v |-> b[n]]]

\* The 0 that ends the string at x is among the first n bytes and is reached.
StringReadable(x, n) ==
  \E k \in 0 .. (n - 1) :
    /\ \A q \in 0 .. k : Valid(Unsigned(x + q), 1)
    /\ ByteAt(Unsigned(x + k)) = 0

----------------------------------------------------------------------------
(* The handlers.                                                           *)

KeepCpu == UNCHANGED <<hi, lo, pc, delay_slot, exn>>

SetV0(x) == r' = [r EXCEPT ![v0] = x]

MinusOne == W - 1

\* A handler that returns c and gives the guest x.
Answer(c, x) == res' = c /\ SetV0(x) /\ UNCHANGED <<mem, brk, fds, open>>

\* A handler that returns c and changes nothing.
Refuse(c) == res' = c /\ UNCHANGED <<r, mem, brk, fds, open>>

\* The clock goes to v0 and v1, or cannot be read.
do_gettime ==
  /\ r[v0] = 3
  /\ \/ /\ \E x, y \in HostWords : r' = [r EXCEPT ![v0] = x, ![v1] = y]
        /\ res' = "OK" /\ UNCHANGED <<mem, brk, fds, open>>
     \/ Refuse("ABORT")

do_print_int == r[v0] = 1 /\ Refuse("OK")

do_print_char == r[v0] = 11 /\ Refuse("OK")

do_print_string ==
  /\ r[v0] = 4
  /\ Refuse(IF StringReadable(r[a0], MemSz) THEN "OK" ELSE "ADDRESS")

\* v0 keeps the service number when no number was read.
do_read_int ==
  r[v0] = 5 /\ \E x \in HostWords \cup {r[v0]} : Answer("OK", x)

\* getchar() returns a byte or EOF, which is -1.
do_read_char ==
  r[v0] = 12 /\ \E c \in Byte \cup {MinusOne} : Answer("OK", c)

\* Mutant: the terminator goes after the buffer.
ReadStringPokes_long(line) ==
  LET n == IF r[a1] < Len(line.chars) THEN r[a1] ELSE Len(line.chars)
  IN  CopyOut(r[a0], SubSeq(line.chars, 1, n))
        \o <<[a |-> Unsigned(r[a0] + n), v |-> 0]>>

(***************************************************************************)
(* n is the number of times getchar is called; EOF counts but is not       *)
(* stored, so the byte before the terminator then keeps its old value.     *)
(***************************************************************************)
ReadStringPokes(line) ==
  LET avail == Len(line.chars) + Flag(line.eof)
      n == IF r[a1] <= 1 THEN 0
           ELSE IF r[a1] - 1 < avail THEN r[a1] - 1 ELSE avail
      stored == IF n < Len(line.chars) THEN n ELSE Len(line.chars)
  IN  CopyOut(r[a0], SubSeq(line.chars, 1, stored))
        \o <<[a |-> Unsigned(r[a0] + n), v |-> 0]>>

do_read_string ==
  /\ r[v0] = 8
  /\ \E line \in Lines :
       LET s == ReadStringPokes(line)
       IN  /\ mem' = PokeAll(s)
           /\ res' = IF Throws(s) THEN "ADDRESS" ELSE "OK"
  /\ UNCHANGED <<r, brk, fds, open>>

\* Mutant: the stack is not protected.
do_sbrk_nolimit ==
  /\ r[v0] = 9
  /\ brk' = brk + 12
  /\ SetV0(brk)
  /\ res' = "OK" /\ UNCHANGED <<mem, fds, open>>

\* The amount is taken from v0, the register that holds the service number.
do_sbrk ==
  LET amount == r[v0]
      rounded == IF amount % 4 # 0 THEN amount + (4 - (amount % 4)) ELSE amount
      newbrk == Unsigned(brk + rounded)
  IN  /\ r[v0] = 9
      /\ \/ brk % 4 # 0 /\ Refuse("ASSERT")
         \/ brk % 4 = 0 /\ newbrk >= MemSz - StkSz /\ Answer("OK", MinusOne)
         \/ /\ brk % 4 = 0 /\ newbrk < MemSz - StkSz
            /\ brk' = newbrk /\ SetV0(brk)
            /\ res' = "OK" /\ UNCHANGED <<mem, fds, open>>

\* The first free slot of the table, or -1.
find_fd_slot ==
  LET free == {i \in 0 .. (MaxFds - 1) : fds[i] = -1}
  IN  IF free = {} THEN -1 ELSE CHOOSE i \in free : \A j \in free : i <= j

\* open(2) returns the lowest descriptor that is free, or fails.
HostOpens ==
  LET free == HostFds \ open
  IN  {-1} \cup {h \in free : \A g \in free : h <= g}

\* Mutant: the file is opened before a slot is looked for.
do_open_leak ==
  /\ r[v0] = 13 /\ r[a1] \in 0 .. 2 /\ StringReadable(r[a0], NameMax)
  /\ \E h \in HostOpens :
       /\ open' = open \cup ({h} \ {-1})
       /\ IF find_fd_slot >= 0 /\ h > 0
          THEN fds' = [fds EXCEPT ![find_fd_slot] = h] /\ SetV0(find_fd_slot)
          ELSE fds' = fds /\ SetV0(MinusOne)
  /\ res' = "OK" /\ UNCHANGED <<mem, brk>>

\* The descriptor the host returns is stored even when it counts as failure.
do_open ==
  /\ r[v0] = 13
  /\ \/ r[a1] \notin 0 .. 2 /\ Answer("OK", MinusOne)
     \/ /\ r[a1] \in 0 .. 2 /\ ~StringReadable(r[a0], NameMax)
        /\ Refuse("ADDRESS")
     \/ /\ r[a1] \in 0 .. 2 /\ StringReadable(r[a0], NameMax)
        /\ find_fd_slot = -1 /\ Answer("OK", MinusOne)
     \/ /\ r[a1] \in 0 .. 2 /\ StringReadable(r[a0], NameMax)
        /\ find_fd_slot >= 0
        /\ \E h \in HostOpens :
             /\ fds' = [fds EXCEPT ![find_fd_slot] = h]
             /\ open' = open \cup ({h} \ {-1})
             /\ SetV0(IF h > 0 THEN find_fd_slot ELSE MinusOne)
        /\ res' = "OK" /\ UNCHANGED <<mem, brk>>

GuestFd == Signed(r[a0])

Usable(fd) == fd >= 0 /\ fd < MaxFds /\ fds[fd] >= 0

\* The check of do_read and do_write, the same as that of mips_copyout.
OutOfBounds(buf, n) == Unsigned(buf + n) >= MemSz

\* Mutant: the -1 of a failed read is stored without the conversion.
do_read_wide ==
  r[v0] = 14 /\ ~OutOfBounds(r[a1], r[a2]) /\ Usable(GuestFd) /\ Answer("OK", -1)

(***************************************************************************)
(* mips_copyout pokes with the jump buffer that mips_break_code left       *)
(* behind: a throw there returns into a function that has returned.        *)
(***************************************************************************)
do_read ==
  /\ r[v0] = 14
  /\ \/ OutOfBounds(r[a1], r[a2]) /\ Refuse("ADDRESS")
     \/ ~OutOfBounds(r[a1], r[a2]) /\ ~Usable(GuestFd) /\ Answer("OK", MinusOne)
     \/ /\ ~OutOfBounds(r[a1], r[a2]) /\ Usable(GuestFd)
        /\ \/ Refuse("ABORT")               \* malloc fails
           \/ Answer("OK", MinusOne)        \* read fails
           \/ \E f \in Files :
                LET b == SubSeq(f, 1, IF r[a2] < Len(f) THEN r[a2] ELSE Len(f))
                    s == IF OutOfBounds(r[a1], Len(b)) THEN <<>>
                         ELSE CopyOut(r[a1], b)
                IN  /\ SetV0(Len(b))
                    /\ mem' = PokeAll(s)
                    /\ res' = IF Throws(s) THEN "UNDEFINED" ELSE "OK"
                    /\ UNCHANGED <<brk, fds, open>>

\* The same for mips_copyin; a short or failing write is the host's affair.
do_write ==
  /\ r[v0] = 15
  /\ \/ OutOfBounds(r[a1], r[a2]) /\ Refuse("ADDRESS")
     \/ ~OutOfBounds(r[a1], r[a2]) /\ ~Usable(GuestFd) /\ Answer("OK", MinusOne)
     \/ /\ ~OutOfBounds(r[a1], r[a2]) /\ Usable(GuestFd)
        /\ \/ Refuse("ABORT")
           \/ IF \A k \in 0 .. (r[a2] - 1) : Valid(Unsigned(r[a1] + k), 1)
              THEN \E n \in (0 .. r[a2]) \cup {MinusOne} : Answer("OK", n)
              ELSE Refuse("UNDEFINED")

\* Whatever close(2) returns, the host descriptor is gone and the slot free.
do_close ==
  /\ r[v0] = 16
  /\ \/ (GuestFd <= 2 \/ ~Usable(GuestFd)) /\ Answer("OK", MinusOne)
     \/ /\ GuestFd > 2 /\ Usable(GuestFd)
        /\ \E v \in {0, MinusOne} : SetV0(v)
        /\ open' = open \ {fds[GuestFd]}
        /\ fds' = [fds EXCEPT ![GuestFd] = -1]
        /\ res' = "OK" /\ UNCHANGED <<mem, brk>>

do_lseek ==
  /\ r[v0] = 2
  /\ \/ /\ r[a2] \notin 0 .. 2 \/ GuestFd <= 2 \/ ~Usable(GuestFd)
        /\ Answer("OK", MinusOne)
     \/ /\ r[a2] \in 0 .. 2 /\ GuestFd > 2 /\ Usable(GuestFd)
        /\ \E v \in HostWords \cup {MinusOne} : Answer("OK", v)

Services == {1, 2, 3, 4, 5, 8, 9, 11, 12, 13, 14, 15, 16}

\* The code field is not looked at.
mips_spim_syscall ==
  /\ res = "NONE"
  /\ KeepCpu
  /\ \/ (OpAtPC # "SYSCALL" \/ r[v0] \notin Services) /\ Refuse("FAIL")
     \/ /\ OpAtPC = "SYSCALL"
        /\ \/ do_gettime \/ do_print_int \/ do_print_char \/ do_print_string
           \/ do_read_int \/ do_read_char \/ do_read_string \/ do_sbrk
           \/ do_open \/ do_read \/ do_write \/ do_close \/ do_lseek

----------------------------------------------------------------------------
(* The services with an abstract guest.                                    *)

\* mips_init_cpu opens descriptors 0 to 2; mips_elf_load sets the break.
SysStart(p) ==
  /\ Loaded(p) /\ brk = p.end
  /\ fds = [i \in 0 .. (MaxFds - 1) |-> IF i < 3 THEN i ELSE -1]
  /\ open = HostOpen
  /\ res = "OK"

SysInit == \E p \in Programs : SysStart(p)

\* The guest runs on and asks for a service.
Guest ==
  /\ res = "OK"
  /\ \E c \in Calls : r' = [r EXCEPT ![v0] = c.v0, ![a0] = c.a0,
                                     ![a1] = c.a1, ![a2] = c.a2]
  /\ res' = "NONE"
  /\ UNCHANGED <<mem, brk, fds, open>> /\ KeepCpu

\* A service that does not return 0 ends the simulation.
Ended == res \notin {"NONE", "OK"} /\ UNCHANGED <<vars, svars>>

SysNext == Guest \/ mips_spim_syscall \/ Ended

SysSpec == SysInit /\ [][SysNext]_<<vars, svars>>

----------------------------------------------------------------------------
(* Properties.                                                             *)

SysTypeOK ==
  /\ TypeOK
  /\ brk \in Word
  /\ fds \in [0 .. (MaxFds - 1) -> HostFds \cup {-1}]
  /\ open \subseteq HostFds
  /\ res \in Results \cup {"NONE"}

(***************************************************************************)
(* The descriptor table is exact: the guest keeps 0, 1 and 2, its other    *)
(* descriptors are open in the host and pairwise different, and the host   *)
(* has no descriptor open on the guest's behalf that the table forgot.     *)
(***************************************************************************)
FdTableExact ==
  /\ \A i \in 0 .. 2 : fds[i] = i
  /\ \A i \in 3 .. (MaxFds - 1) : fds[i] # -1 => fds[i] \in open \ HostOpen
  /\ \A i, j \in 0 .. (MaxFds - 1) : fds[i] # -1 /\ fds[i] = fds[j] => i = j
  /\ open \ HostOpen \subseteq {fds[i] : i \in 3 .. (MaxFds - 1)}

(***************************************************************************)
(* The break of do_sbrk stays between MIPS_LOWBASE and the stack, also     *)
(* when the sum wraps; it never moves down, and a call that moves it tells *)
(* the guest where it was.  How far it moves is not said here: see         *)
(* AmountGranted.                                                          *)
(***************************************************************************)
BreakGrowsBelowStack ==
  [][/\ brk' >= brk
     /\ LowBase <= brk' /\ brk' < MemSz - StkSz
     /\ brk' # brk => r'[v0] = brk]_<<vars, svars>>

(***************************************************************************)
(* syscalls.c:36 and :42: "args: $a0-$a3" and "void *sbrk(unsigned         *)
(* amount)".  A call that moves the break moves it by the amount asked     *)
(* for, or the next block overlaps this one.                               *)
(***************************************************************************)
AmountGranted == [][brk' # brk => brk' >= brk + r[a0]]_<<vars, svars>>

\* The bytes the guest lets a service write: the buffer of read, and that of
\* read_string with its terminator.
Buffer ==
  CASE r[v0] = 14 -> {Unsigned(r[a1] + k) : k \in 0 .. (r[a2] - 1)}
    [] r[v0] = 8  -> {Unsigned(r[a0] + k) : k \in 0 .. (r[a1] - 1)}
    [] OTHER      -> {}

\* The byte at which read_string ends a string in a buffer of length 0.
EmptyBufferEnd == IF r[v0] = 8 /\ r[a1] = 0 THEN {r[a0]} ELSE {}

(***************************************************************************)
(* A service writes guest memory only inside the buffer the guest named,   *)
(* whether it succeeds, fails half way or was given a wrapped address, and *)
(* never changes a word below MIPS_LOWBASE.  The one exception is the 0    *)
(* that read_string writes at the address of a buffer of length 0.         *)
(***************************************************************************)
ServiceStaysInBuffer ==
  [][res = "NONE" =>
       /\ \A a \in GuestAddrs : \A k \in 0 .. 3 :
            (a + k) \notin Buffer \cup EmptyBufferEnd => ByteAt(a + k)' = ByteAt(a + k)
       /\ \A a \in WordAddrs \ GuestAddrs : mem'[a] = mem[a]]_<<vars, svars>>

(***************************************************************************)
(* cpu.h of mips_copyout and mips_copyin: "-1 on failure (i.e. the         *)
(* transfer would access memory outside of MIPS segment)".  A transfer     *)
(* that fails must be reported, not leave through a dead jump buffer.      *)
(***************************************************************************)
TransferFailureIsReported == res # "UNDEFINED"
============================================================================
