------------------------------ MODULE Harness ------------------------------
(***************************************************************************)
(* The host programs around execute_loop.  run.c runs a guest.  Two others *)
(* hand data to it through its symbols: runbench.c pokes the parameters of *)
(* a benchmark into PARAMS and prints the TIME the guest left;             *)
(* load-lvl1.c copies a second ELF file into the buffer l2_elf of the      *)
(* simulator that it runs, and the size of it into l2_elf_size.            *)
(***************************************************************************)
EXTENDS ExecuteLoop

CONSTANTS
  CommandLines,  \* what the user may start: [tool, file, input]
  Missing        \* the symbol that mips_elf_find_symbol does not find

VARIABLES
  tool,     \* the program: "run", "runbench", "load-lvl1"
  file,     \* what mips_elf_load loaded, and its symbols, in file.sym
  input,    \* the parameters (words), or the second file (bytes)
  at,       \* where the program is
  i,        \* the counter of parse_params
  stored,   \* history: the word the guest stored last at an address, or -1
  printed   \* the high and the low word of TIME, or <<>>

hvars == <<lvars, tool, file, input, at, i, stored, printed>>

\* What mips_elf_find_symbol may return.
IsSymbol(s) == s = Missing \/ (s.value \in Word /\ s.size \in Word)

\* load-lvl1 takes no key: its memory is not encrypted.
ASSUME CommandLinesAssumption ==
  \A c \in CommandLines :
    /\ c.tool \in {"run", "runbench", "load-lvl1"} /\ c.file \in Programs
    /\ c.tool = "runbench" =>
         /\ c.input \in Seq(Word)
         /\ IsSymbol(c.file.sym.PARAMS) /\ IsSymbol(c.file.sym.TIME)
    /\ c.tool = "load-lvl1" =>
         /\ c.input \in Seq(Byte) /\ \A w \in Word : Enc(w) = w
         /\ IsSymbol(c.file.sym.l2_elf) /\ IsSymbol(c.file.sym.l2_elf_size)

----------------------------------------------------------------------------
(* main of the three programs, up to execute_loop.                         *)

HarnessInit ==
  \E c \in CommandLines :
    /\ LoopStart(c.file)
    /\ tool = c.tool /\ file = c.file /\ input = c.input
    /\ at = IF c.tool = "run" THEN "run" ELSE "symbols"
    /\ i = 0
    /\ stored = [a \in GuestAddrs |-> -1]
    /\ printed = <<>>

Target == IF tool = "runbench" THEN file.sym.PARAMS ELSE file.sym.l2_elf
Second == IF tool = "runbench" THEN file.sym.TIME ELSE file.sym.l2_elf_size

KeepInput == UNCHANGED <<tool, file, input, stored>>

\* Mutant: the size of the buffer is not compared with that of the file.
SymbolsFit_any ==
  /\ Target # Missing /\ Second # Missing
  /\ tool = "runbench" =>
       Target.size % 4 = 0 /\ Target.size # 0 /\ Second.size = 8

\* The symbols are there and have the sizes that the programs ask for.
SymbolsFit ==
  /\ Target # Missing /\ Second # Missing
  /\ tool = "runbench" =>
       Target.size % 4 = 0 /\ Target.size # 0 /\ Second.size = 8
  /\ tool = "load-lvl1" => Target.size >= Len(input)

FindSymbols ==
  /\ at = "symbols"
  /\ at' = IF SymbolsFit THEN "deliver" ELSE "exit"
  /\ KeepInput /\ UNCHANGED <<lvars, i, printed>>

\* Mutant: one parameter too many.
Count_long(s) == (s.size \div 4) + 1

\* The number of parameters.
Count(s) == s.size \div 4

\* Mutant: the parameter is stored past the vector.
Put_raw(a, w) == [mem EXCEPT ![a] = w]

\* mips_poke_uw.
Put(a, w) == Poke(a, w)

\* One turn of the loop; a poke that throws has no setjmp to return to.
parse_params ==
  LET a    == Unsigned(Target.value + 4 * i)
      more == i < Count(Target)
  IN  /\ tool = "runbench" /\ at = "deliver"
      /\ \/ ~more /\ at' = "run" /\ UNCHANGED <<mem, i>>
         \/ more /\ i >= Len(input) /\ at' = "exit" /\ UNCHANGED <<mem, i>>
         \/ /\ more /\ i < Len(input) /\ ~Valid(a, 4)
            /\ at' = "undefined" /\ UNCHANGED <<mem, i>>
         \/ /\ more /\ i < Len(input) /\ Valid(a, 4)
            /\ mem' = Put(a, input[i + 1]) /\ i' = i + 1 /\ UNCHANGED at
      /\ UNCHANGED <<r, hi, lo, pc, delay_slot, exn, svars, stage, opcode, report>>
      /\ KeepInput /\ UNCHANGED printed

\* Mutant: the last byte is not copied.
Copied_short(m, x, n, b) ==
  [a \in WordAddrs |-> FromBytes([k \in 0 .. 3 |->
     IF x <= a + k /\ a + k < x + n - 1 THEN b[a + k - x] ELSE Bytes(m[a])[k]])]

\* The memory after the n bytes b[0], b[1], ... have been copied to x.
Copied(m, x, n, b) ==
  [a \in WordAddrs |-> FromBytes([k \in 0 .. 3 |->
     IF x <= a + k /\ a + k < x + n THEN b[a + k - x] ELSE Bytes(m[a])[k]])]

\* Neither address is checked; below LowBase lies the CPU itself.
copy_level2 ==
  LET n       == Len(input)
      Outside == Target.value + n > MemSz \/ Second.value + 4 > MemSz
                   \/ Second.value < LowBase \/ (n > 0 /\ Target.value < LowBase)
  IN  /\ tool = "load-lvl1" /\ at = "deliver"
      /\ \/ Outside /\ at' = "undefined" /\ UNCHANGED mem
         \/ /\ ~Outside /\ at' = "run"
            /\ mem' = Copied(Copied(mem, Target.value, n, [k \in 0 .. (n - 1) |-> input[k + 1]]),
                             Second.value, 4, Bytes(n))
      /\ UNCHANGED <<r, hi, lo, pc, delay_slot, exn, svars, stage, opcode, report>>
      /\ KeepInput /\ UNCHANGED <<i, printed>>

----------------------------------------------------------------------------
(* execute_loop, and what comes behind it.                                 *)

\* The history after a step of the loop.
Stored ==
  LET a == WordOf(ea(Insn))
      store == stage = "execute" /\ exn' = "OK" /\ Insn.op \in StoreOps
  IN  CASE store /\ Insn.op = "SW" -> [stored EXCEPT ![a] = r[Insn.rt]]
        [] store /\ Insn.op # "SW" -> [stored EXCEPT ![a] = -1]
        [] stage = "service"       -> [x \in GuestAddrs |-> -1]
        [] OTHER                   -> stored

RunLoop ==
  /\ at = "run" /\ stage # "end"
  /\ LoopStep
  /\ stored' = Stored
  /\ UNCHANGED <<tool, file, input, at, i, printed>>

\* Mutant: the words of TIME in the order of their addresses.
Time_swapped(t) == <<Peek(t), Peek(t + 4)>>

\* The high word of TIME is at the higher address.
Time(t) == <<Peek(t + 4), Peek(t)>>

PrintTime ==
  LET t     == Second.value
      valid == Valid(t, 4) /\ Valid(Unsigned(t + 4), 4)
  IN  /\ at = "run" /\ stage = "end"
      /\ \/ report = "KILLED" /\ at' = "killed" /\ UNCHANGED printed
         \/ report # "KILLED" /\ tool # "runbench" /\ at' = "end" /\ UNCHANGED printed
         \/ /\ report # "KILLED" /\ tool = "runbench" /\ ~valid
            /\ at' = "undefined" /\ UNCHANGED printed
         \/ /\ report # "KILLED" /\ tool = "runbench" /\ valid
            /\ at' = "end" /\ printed' = Time(t)
      /\ KeepInput /\ UNCHANGED <<lvars, i>>

HarnessDone == at \in {"exit", "undefined", "killed", "end"} /\ UNCHANGED hvars

HarnessNext == FindSymbols \/ parse_params \/ copy_level2 \/ RunLoop
                 \/ PrintTime \/ HarnessDone

\* One thread, and no step waits for another process.
HarnessSpec == HarnessInit /\ [][HarnessNext]_hvars /\ WF_hvars(HarnessNext)

----------------------------------------------------------------------------
(* Properties.                                                             *)

\* The byte the guest reads at x, and the one it must find there.
GuestByte(m, x) == Bytes(Dec(m[WordOf(x)]))[x % 4]

Delivered(x) ==
  LET k == x - Target.value
      s == x - Second.value
  IN  CASE tool = "runbench" /\ 0 <= k /\ k < Target.size ->
             Bytes(input[(k \div 4) + 1])[k % 4]
        [] tool = "load-lvl1" /\ 0 <= s /\ s < 4 -> Bytes(Len(input))[s]
        [] tool = "load-lvl1" /\ 0 <= k /\ k < Len(input) /\ ~(0 <= s /\ s < 4) ->
             input[k + 1]
        [] OTHER -> GuestByte(file.image, x)

(***************************************************************************)
(* When the guest starts it finds, through its own memory accesses, the    *)
(* parameters or the second file in the place of the symbol, also in an    *)
(* encrypted memory, and no other byte of its memory has changed.          *)
(***************************************************************************)
DataDelivered ==
  [][at # "run" /\ at' = "run" =>
       \A x \in LowBase .. (MemSz - 1) : GuestByte(mem', x) = Delivered(x)]_hvars

(***************************************************************************)
(* The time that runbench prints is the one the guest stored: the words it *)
(* last stored in TIME, the second one as the high word, however the guest *)
(* ended.                                                                  *)
(***************************************************************************)
TimeIsGuests ==
  printed # <<>> =>
    \A k \in {0, 1} : LET w == stored[Second.value + 4 * k]
                      IN  w # -1 => printed[2 - k] = w

(***************************************************************************)
(* The pokes and peeks of runbench and the copies of load-lvl1, which no   *)
(* setjmp protects, stay defined for every file whose symbols lie in its   *)
(* memory, aligned where words are accessed, if l2_elf_size is a word: the *)
(* one size that is not checked.                                           *)
(***************************************************************************)
SymbolsSuffice ==
  at = "undefined" =>
    \E s \in {Target, Second} :
      \/ s.value < LowBase \/ s.value + s.size > MemSz
      \/ tool = "runbench" /\ s.value % 4 # 0
      \/ tool = "load-lvl1" /\ s = Second /\ s.size < 4

(***************************************************************************)
(* The program ends, or its guest completes instructions for ever:         *)
(* execute_loop comes back to mips_execute after every exception it does   *)
(* not end with, and cannot serve and resume over and over without that    *)
(* progress, not even at a SYSCALL in a delay slot, which every resume     *)
(* leaves pending and the engine then throws again.                        *)
(***************************************************************************)
ToolProgress ==
  \/ <>(at \in {"exit", "undefined", "killed", "end"})
  \/ []<>(stage = "execute" /\ exn = "OK")
============================================================================
