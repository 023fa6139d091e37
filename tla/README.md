# A TLA+ model of cspim

cspim (`src/`) is a simulator of a little-endian MIPS I processor: an engine
that executes one instruction per call, a loader for specially linked ELF
files, a small set of SPIM system services, and host programs that drive them.
This directory holds a model of it, the TLC runs that check the model on small
instances, and proofs, checked by TLAPS, for instances of any size.

## 1. The system

| part | source | state | operations |
|---|---|---|---|
| CPU engine | `vm/cpuemu.c`, `vm/cpu.h` | registers, `hi`, `lo`, `pc`, `delay_slot`, the memory, the jump buffer `exn` | `mips_init_cpu`, `mips_execute`, `mips_break_code`, `mips_resume`, `mips_peek_*`, `mips_poke_*`, `mips_copyin`, `mips_copyout` |
| decoder | `vm/opcodes.c` | a bit set of valid opcodes | `mips_init`, `mips_decode` |
| ELF loader | `vm/elfload.c`, `vm/elf.h` | the memory image, `pc`, `$gp`, `$sp`, `brk`, the symbol table | `mips_elf_load`, `mips_elf_find_symbol`, `mips_elf_find_address`, `mips_elf_get_symname` |
| SPIM services | `vm/hosted/syscalls.c` | `brk`, `fds`, the descriptors of the host | `mips_spim_syscall`, 13 handlers |
| driver | `hostapps/util.c`, `hostapps/run.c` | the locals of `prepare_cpu` and `execute_loop` | `prepare_cpu`, `execute_loop` |
| encryption | `hostapps/rc5-16.c`, `util.c` (`rc5_convert_key`, `rc5_peek`, `rc5_poke`) | the key schedule | `rc5_setup`, encrypt, decrypt |
| encryption tool | `hostapps/elfcrypt.c` | a file in memory | its `main` |
| torture runners | `hostapps/runtorture.c`, `mipsapps/run-lvl1.c` | `last_branch` | `execute`, `main`, `beginswith` |
| data runners | `hostapps/runbench.c`, `hostapps/load-lvl1.c` | parameters, a second file | `parse_params`, `main` |
| single stepper | `hostapps/sstep.c` | a parent and a child process | `main`, `do_step` |
| simulator on MIPS | `vm/cspim/*` | - | stubs, `setjmp`/`longjmp` |

How they interact. `prepare_cpu` reads a file, optionally replaces the pair
`peek_uw`/`poke_uw` by RC5 decryption and encryption, and calls the loader,
which copies segments into memory, pokes zeros behind them through that pair,
and sets registers and the break from symbols. `execute_loop` calls
`mips_execute` until it returns an exception, asks `mips_break_code` what the
instruction was, passes a SYSCALL to `mips_spim_syscall` and continues with
`mips_resume`. Handlers raise exceptions with `longjmp` to the most recent
`setjmp`, which each entry point of the engine, and some services, set anew.
`runbench` and `load-lvl1` find symbols and write to the guest's memory before
the loop and read from it afterwards. Everything but the single stepper, which
is two processes, is single threaded.

What is hard. The two program counters of MIPS (the instruction after a branch
is executed before its target) are encoded in `pc`, `delay_slot` and the
sentinel 0; every exception has to leave a restartable state; the control
structure of the CPU lies inside the memory that the guest addresses; the
questions asked after an exception (`mips_break_code`, `mips_resume`) look at
`pc` again, at a later time and not always at the instruction that faulted; a
`longjmp` may go to a function that has returned, or to no function at all;
sums of addresses and of fields of a file wrap, and of an entry of a table only
the first byte is compared with the size of the file; part of memory is written
encrypted through the vector and part verbatim, and both must agree.

What makes each part correct:

* engine: it is the MIPS I processor, for any program and any invertible
  transformation of memory; failing instructions change nothing; the control
  block is out of reach; the internal error never happens; LWL and LWR, and
  SWL and SWR, together move a word wherever it lies;
* decoder: a word decodes to the one instruction it encodes;
* loader: memory is what the program headers say, what it accepts is a state
  the engine may start from, symbols are the right ones, and its checks keep
  every access inside the file and memory. They do not for every file;
  `ChecksSuffice` lists what they leave open;
* services: the descriptor table matches the host's, the break stays below the
  stack and grants what was asked for, memory is written only in the buffer named
  by the guest, failures are reported. What was asked for is not granted, and
  the empty buffer of `read_string` is an exception (run `sbrk_amount`,
  `ServiceStaysInBuffer`);
* driver: services are performed only when asked for, the report names what
  happened, an instruction that was served is passed, and the loop never spins.
  The first holds while no delay slot is pending, and the third unless the
  guest let the service write over it (run `slot_fault`, `SyscallIsKept`);
* encryption: decryption undoes encryption, and a file that was encrypted and
  loaded reads as the plain one;
* runners: the guest finds the data it was given, what is printed is what the
  guest computed, a test cannot be tolerated for ever;
* single stepper: the target never runs ahead, and nobody waits for ever.

## 2. Modules

`Words` - the integers of `types.h` and the pure part of the instructions:
results of the arithmetic, branch conditions, the bytes loads and stores move,
and the encodings that are refused. A byte has `B` values and a word four
bytes, so that the same operators run with 8-bit words in TLC and stand for
32-bit words in the proofs. An instruction is a record with its opcode and
fields; the constant `InsnOf` of `Cpu` takes a word to it.

`Cpu` - `struct mips_cpu` and `mips_execute`. One step is one call. Each
handler (`do_jump`, `do_branch`, `do_alui`, `do_alu3`, `do_loadstore` as
`do_lui`, `do_load` and `do_store`, `do_divmult`) is an action, with the throws
as disjuncts; `Return` is the code after the dispatch (the update of `pc` and
`delay_slot`), `FetchThrow` and `Trap` are the throws before it and in
`do_dispatch`. `mem` holds words as stored; `Peek` and `Poke` go through `Dec`
and `Enc`, the vectored `peek_uw` and `poke_uw`. `exn` is the result of the
call; `"SIGFPE"` stands for a host that kills the process at the one quotient C
leaves undefined (a build may also wrap, both are in the model).

`Arch` - the abstract specification: MIPS I with `PC`, `nPC`, a flag for
"in a delay slot", registers without `$0` and only the guest's memory, in
plain. Traps leave it unchanged. `Cpu!ImplementsArch` is the claim that `Cpu`
implements it, with the mapping of the instance `A`.

`Decode` - `mips_init` and `mips_decode` over the fields of an instruction,
with the enumeration of `opcodes.h` and its two groups, at their real width.

`Rc5` - `rc5_convert_key`, `rc5_setup`, `rc5_ecb_encrypt` and
`rc5_ecb_decrypt` in the order of the self-test in `rc5-16.c`; a step is one
turn of a loop. The widths, the number of rounds and the magic numbers are
constants. `trail` is a history of the rounds of the encryption.

`FetchPath` - `Rc5` and `Decode` side by side: the two conversions between a
word of an encrypted memory and an instruction. They share no state, so a
behaviour follows one of them.

`ElfFile` - a file as `elfload.c` reads it: the header, the tables it points to
and the lookups (`get_phdr`, `get_shdr`, `get_sym`, `get_string`, the two
searches), with sums that wrap. A lookup answers whether an entry starts in the
file, as the code does; `PhdrHas`, `ShdrHas` and `SymHas` say whether a field of
it still ends there, from the offsets in `PhdrEnd`, `ShdrEnd` and `SymEnd`.
Strings are values, named by their section; a string that is not terminated
inside the file is not in the domain of its table, and `BEHIND` (`OUTSIDE` for a
symbol) is the answer of a search that has to look behind the file.

`ElfLoad` (extends `Cpu`, `ElfFile`) - `read_elf`, `prepare_cpu` and
`mips_elf_load`, one action for each stage, one step for each segment. The
outcome `"undefined"` is a `longjmp` to a buffer that was never set or an access
outside the file or the memory: a header that is not whole (`CheckHeader`, for a
file shorter than one), a field of an entry or a string behind the file
(`PhdrBehind`, `LoopBehind`, `SymtabBehind`, `SymbolBehind`), the copy of a
segment (`Escapes`) or its zeros (`ZeroThrows`). `"killed"` is the division by `sh_entsize` 0.
`ReadyIsLoaded` connects it with `Cpu`: a CPU it leaves ready is in a state that
satisfies `Loaded`, the predicate `Cpu` starts from.

`ElfCrypt` (extends `ElfLoad`) - `elfcrypt.c`, composed with the load of the file
it wrote. `TurnBehind` are the reads of a turn that leave the file. A file that
is not encrypted is loaded directly.

`Syscalls` (extends `Cpu`) - all services of `sys_dispatch`, `mips_spim_syscall`,
`find_fd_slot`, and the byte transfers of `mips_copyout` and `mips_copyin`. The
guest is abstract here: between services it puts any of `Calls` in its argument
registers, as the stubs of `mipsapps/spim.c` do. The host is external: `open(2)`
returns the lowest free descriptor or fails, input is any of `Lines` and `Files`,
`malloc` and the clock may fail. `"UNDEFINED"` is the result of a throw through a
dead jump buffer, `"ASSERT"` that of a failed `assert`.

`ExecuteLoop` (extends `Syscalls`) - `execute_loop` with the real engine as guest:
`LoopExecute`, `LoopSwitch`, `LoopService` and `LoopResume` are its four calls.
`opcode` is the C variable: any value at first, and unchanged when
`mips_break_code` could not read the instruction.

`Harness` (extends `ExecuteLoop`) - the programs around the loop: `run`;
`runbench` (`FindSymbols`, `parse_params`, `RunLoop`, `PrintTime`); `load-lvl1`
(`FindSymbols`, `copy_level2`, `RunLoop`). Writes outside memory, and pokes and
peeks that throw with no `setjmp` active, end in `"undefined"`. A symbol is
missing or has an address and a size; a search that reads behind the file is the
subject of `ElfFile`. `stored` is a history of the words the guest stored.

`Torture` (extends `Cpu`, `ElfFile`) - the runner on the host and the one that is
itself a MIPS program, as two levels of one specification: `LoopHead`,
`Execute`, `Check`. They differ in `beginswith`, in the test for BREAK and in
how they may fail to start. Every label is looked up in the file, so a table
that ends behind it may end the runner in `"undefined"`.

`SStep` - the parent and the child of the single stepper as two processes, with
the host's part of `fork`, `execve`, `wait` and `ptrace`, and a kill at any time.
`news` is the change of the child's state that `wait` has not reported yet.

`Bits` gives the bitwise operators to TLC, `MCGuest` the small machine: the
cipher and the instruction encoding. `MCCpu`, `MCSyscalls`, `MCExecuteLoop`,
`MCHarness`, `MCElfLoad`, `MCElfCrypt`, `MCFetchPath` and `MCTorture` are the
small instances. The theorems are in `WordLemmas` (the lemmas about words that
all the others use), `CpuProofs`, `RefinementProofs`, `ToolProofs` (`Syscalls`,
`ExecuteLoop` and `Harness`), `FetchPathProofs` (`Rc5` and `Decode`),
`LoadProofs` (`ElfLoad` and `ElfCrypt`), `TortureProofs` and `SStepProofs`.
Definitions named `x_y` under a comment "Mutant" are faulty variants of
`x`; no specification uses them.

## 3. Runs

| run | what it explores | what it shows |
|---|---|---|
| `cpu` | every program of 3 words over 12 jumps, branches, links and SYSCALL, from an aligned and an unaligned entry; over 12 loads, stores and address steps; over 16 arithmetic, `hi`/`lo` and malformed instructions | `TypeOK`, `InternalErrorFree`, `DelaySlotFollowsBranch`, `UnalignedWordAccess`, `FailedStepIsAtomic`, `ControlBlockIntact`, `ImplementsArch` |
| `services` | any sequence over 45 calls: descriptors, the break, buffers inside, across and outside memory, two values of `_end` | `SysTypeOK`, `FdTableExact`, `BreakGrowsBelowStack`, `ServiceStaysInBuffer` |
| `tools` | `run` with 1038 programs that call services in and out of delay slots, read over their own code and fail to fetch; `runbench` with 140 benchmarks and 99 pairs of symbols, under 4 command lines | `LoopTypeOK`, `ServiceWasRequested`, `ReportNamesException`, `TimeIsGuests`, `SymbolsSuffice`, `DataDelivered`, `SyscallIsKept`, `ToolProgress` |
| `level1` | `load-lvl1` with the benchmarks and pairs of symbols of `tools`, without a key, and files of 0 to 9 bytes | `SymbolsSuffice`, `DataDelivered` |
| `elf` | files with up to two of 22 segments, 15 headers, 44 sections, 2744 symbol tables, one whose end wraps, 3 values of `_end`, and 160 files with an entry or a string that starts in the file and may end behind it, with and without a key; 307 files that are encrypted first | `LoadTypeOK`, `ReadyIsLoaded`, `MemoryAsLinked`, `ChecksSuffice`, `NearestSymbolFound`, `StartFromGlobals`, `EncryptionIsTransparent` |
| `fetch_path` | every word under 4 key texts and 6 odd ones; every opcode, function and `rt` | `Rc5TypeOK`, `DecryptRetraces`, `RoundTrip`, `DecodedIsDispatched`, `DecodeIsExact` |
| `torture` | 512 tests of three free words with 4 choices of labels, and 48 with a symbol table that ends behind the file, at both levels | `LastBranchExact`, `TortureProgress` |
| `single_step` | a target of up to 20 instructions that may fault or be killed anywhere | `NothingUnstepped`, `StepperEnds` |
| `failed_fetch` | the programs of `tools` without the benchmarks | fails: `FailedFetchIsException` |
| `slot_fault` | as `failed_fetch` | fails: `ServiceForSyscall` |
| `transfer` | as `services` | fails: `TransferFailureIsReported` |
| `sbrk_amount` | as `services` | fails: `AmountGranted` |

The four runs that fail are disagreements between the code and its own
documentation:

* When the word at `pc` cannot be read, `execute_loop` switches on an opcode
  that was never set, or is left from the last service, and reports a BREAK or
  an invalid SYSCALL code (`run.c:31`). `ServiceWasRequested` shows that it
  never performs a service because of that: the break code is -1.
* `mips_break_code` looks at `pc`, which is the target of the jump when an
  instruction in a delay slot fails. If the target is a SYSCALL its service is
  performed, though the engine stopped for an unaligned load (`cpu.h:235`).
  `ServiceWasRequested` says what is left: there is a SYSCALL at `pc`, and with no
  slot pending it is the one the engine stopped at.
* `do_read` and `do_write` check only the upper bound of their buffer, as do
  `mips_copyout` and `mips_copyin`; below `MIPS_LOWBASE`, or with an address that
  wraps, the access throws to the `setjmp` of `mips_break_code`, which has
  returned (`cpu.h:287`).
* `do_sbrk` takes the amount from `$v0`, the number of the service, so that it
  always grants 12 bytes and larger blocks overlap (`syscalls.c:36` and `:42`).
  `BreakGrowsBelowStack` is what holds all the same.

Other oddities of the code are in the model, named here with the definition
that shows them, and no run states them as failures:

* the loop of `elfcrypt` tests the type of the first program header in every
  turn, so it finds nothing to encrypt when that one is not `PT_LOAD`, against
  `elfcrypt.c:31` (`CryptTurn`; `Encryptable` names such files);
* `beginswith` of `run-lvl1.c` is nonzero for a match and is compared with 0, so
  an exception at almost any label is skipped, against `run-lvl1.c:93`
  (`Tolerated`);
* `mips_resume` decodes `pc` again: a `read` that overwrote its own SYSCALL does
  not advance `pc`, against `cpu.h:242` (`Resumed`; `SyscallIsKept` says that
  nothing else loses it);
* `read_string` with `len` 0 writes its terminator at `buf`, behind a buffer
  without bytes (`ReadStringPokes`; `EmptyBufferEnd` is the one exception in
  `ServiceStaysInBuffer`);
* `do_sbrk` asserts at line 262 that the break is aligned; the loader accepts any
  `_end` (`Absolute`);
* the zeros of a segment that is not aligned throw, against `elfload.c:265`
  (`ZeroThrows`; `SegmentOpen` names it in `ChecksSuffice`);
* the torture runners, too, look at `pc` and not at the delay slot that faulted
  (`Check`);
* a SYSCALL in a delay slot is executed again after each resume, because `pc` is
  advanced and the slot stays pending (`Resumed`; `ToolProgress` shows that this
  ends or the guest goes on);
* the size of an entry is never compared with the structure that is read there,
  and a string table is never compared with the file (`PhdrsOpen`, `ShdrsOpen`,
  `SymbolsOpen`, `StringsOpen`);
* `mips_spim_syscall` itself does not look at the code field
  (`mips_spim_syscall`; `execute_loop` does);
* a host descriptor 0 would be stored and reported as a failure (`do_open`);
* a symbol table with `sh_entsize` 0 kills the process (`SetRegisters`);
* `mips_elf_find_address` answers NULL below the first global symbol, and for
  every address when the end of the symbol table wraps
  (`NearestSymbolFound` excludes that table; its proof showed the case);
* `load-lvl1` writes a word at `l2_elf_size` without looking at the size of that
  symbol (`copy_level2`; `SymbolsSuffice` names it);
* blanks, and digits followed by anything, pass as parts of a key (`Converts`);
* the single stepper leaves its target behind at the first stop by a signal
  other than SIGTRAP (`Test`, `Detach`).

### Bounds

A byte has 2 bits and a word 8 (`B = 4`), so every sum, shift, sign extension
and wrap happens within 256 values and addresses wrap. The memory has 7 words
in the runs of the engine, the loader and the torture test (one is the control
block) and 15 in the others. Three free words of code are enough for a branch,
its slot and a target that is either of them or lies outside memory; the
programs also store over their own code. `MemSz < JRegion` is the relation that
holds for every caller of `mips_init_cpu` (1 to 16 MB against 2^27). The cipher
is an affine permutation of the words without structure in common with the
bytes. `MaxFds = 5` leaves the guest two free slots, which can be exhausted
while the host still has a descriptor to give; `NameMax = 3` makes names that
fit, that just fit and that do not. The heap takes two blocks.

The files of the loader have 40 bytes (60 for the tool) and two segments, which
is enough for one to lie over the other; every field that is compared takes a
value at the limit, one beyond it, and one whose sum wraps to a small number.
The structures are as small as the word: a header of 8 bytes, entries of 4 and
symbols of 3, whose fields end at different bytes in the order of `elf.h`, so
that an entry at the end of the file is cut before, between and behind the fields
that are read; string tables are cut after each of their strings.
Symbol tables have five entries of which three are free: a local symbol before
the global one, two of the same value, and one without a name. `Rc5` runs with
half words of 4 bits, 3 rounds and keys of 3 bytes: every rotation and the half
byte at the end of an odd key occur. `Decode` has the widths of the code. The
target of the single stepper ends after `MaxInsns` instructions, so that
`StepperEnds` is about the stepper and not about a target that never ends.
Apart from that nothing grows without limit.

### Fairness

`HarnessSpec` and `TortureSpec` assume weak fairness of the whole next-state
relation: one thread runs, and it stops only at the end. This includes that
calls to the host return (`getchar` and `read` may wait for input: then the
simulator waits too, by design). `ToolProgress` and `TortureProgress` allow a
guest that runs for ever, but not a loop that goes on without executing
instructions. `SStepSpec` assumes weak fairness of the parent and of the child,
because the host schedules both, and none of `Kill`, which need not come. A stop
is the parent's to end and a step the child's: neither assumption lets one
process wait for the other.

## 4. Proofs

Every invariant and every action property that a passing run checks is also a
theorem, for all values of the constants that satisfy these assumptions, which
TLC evaluates in the runs:

* words (`Words`, `Cpu`): a byte has at least two values, and the four jump
  regions fit in a word; memory is a whole number of words, smaller than a jump
  region; `MIPS_LOWBASE` is a positive multiple of 4 below the stack; `InsnOf`
  yields well-typed instructions; `Dec` undoes `Enc`; what C's bitwise operators
  return is a word (`BitOp`; `Bits` defines it for TLC);
* programs satisfy the limits checked by `mips_elf_load`. The entry point need
  not be aligned, and nothing is assumed of the code;
* services: the table has room for the standard streams, which are open when
  the process starts (`StandardStreams`), and the host returns words and bytes;
* command lines: parameters are words, files are bytes, symbols are missing or
  have an address and a size; `load-lvl1` has no key;
* files (`Elf32_Ehdr`): the fields have the widths of `elf.h`, and the sequences
  are long enough for what the headers say they hold. Nothing else is
  assumed: offsets and sizes may lie anywhere, overlap or wrap, and entries may
  end behind the file. The fields of the structures lie in the order in which
  `elf.h` declares them (`FieldsAssumption`). Memory that was
  never written holds any words (`Stale`). The files given to the encryption
  tool keep their tables apart from their segments (`TablesApart`);
* cipher: exclusive or undoes itself, and `Pow` are the powers of two.

### Engine: `CpuProofs`, `RefinementProofs`

The inductive invariant `IInv` is the conjunction of `TypeOK`,
`InternalErrorFree` and `DelaySlotFollowsBranch`, proved together because each
step needs parts of all three: that an instruction leaves words behind needs
the types of its operands; that the handlers return normally needs `r[0] = 0`;
and that a slot follows a branch in guest memory rests on the fetch of that
branch, the bounds of memory (so that `pc + 4` cannot wrap to the sentinel 0)
and on the rule that nothing but the instruction in the slot runs while it is
pending. From it: `TypeCorrect`, `NoInternalError`, `SentinelSound`,
`FailureAtomic`, `ControlBlockSafe`. `UnalignedExact` reduces the pairs LWL, LWR
and SWL, SWR at each of the four offsets to the bytes they move.

`Refinement` is that `Cpu` implements `Arch`. Each handler maps to a step of the
architecture; the argument needs `IInv` (the slot address is `PC`, and `nPC` is
`pc`), that the decrypted memory changes as the architecture says (`Dec` of
`Enc`), and, for J and JAL, that `MemSz < JRegion`.

### Services, loop and host programs: `ToolProofs`

Three invariants, one for each layer. `SysInv` adds to `SysTypeOK` and
`FdTableExact` that the break lies between `MIPS_LOWBASE` and the stack, that
the descriptors the host started with stay open, and that `$0` is 0, for the engine that goes on afterwards. The table and the host agree after `open` and `close` because the
slot that is taken was free and its descriptor new to the host, and the slot
that is freed held a descriptor no other slot holds (`SlotTaken`, `SlotFreed`). A loop of pokes is
reduced once to its effect on each byte (`PokeAllEffect`), also when it throws
half way; `BufferOverflowFree` and the deliveries of the harness follow from it.

`LoopInv` adds what the properties of the loop rest on and do not state: when
the loop is about to switch on an exception that no delay slot raised, the word
at `pc` is a trap exactly if that trap is the exception (`Named`). The switch
looks at memory again, after the engine has returned, so this needs that an
instruction that throws has changed neither `pc` nor memory
(`ExceptionNamed`). `SyscallStays` joins the two layers: the loop serves a
SYSCALL that is at `pc`, and a service leaves every byte outside its buffer alone
(`ServiceWrites`).

`HarnessInv` says at each place of the host programs what they have delivered:
every parameter poked so far is in memory in the order it was given
(`PartlyDelivered`), and `stored` describes the memory wherever the guest stored
(`StoredExact`). `DeliveryExact`, `TimeExact` and `SymbolsProtect` follow.

### Cipher and decoder: `FetchPathProofs`

`CipherInv` ties the loop counters to the history `trail`: while it decrypts,
the state is the one before the round it has just undone (`Traced`). The step
is that each half of a round is undone (`HalfUndone`), which rests on rotation
by `n` and by the width less `n` being inverse (`RotateUndone`), for any width.
`DecodeInv` says that the valid bits are the codes of the list once `mips_init`
ran; `DecodingExact` needs that no two names of the enumeration share a code
(`CodesDiffer`).

### Loader and encryption tool: `LoadProofs`

`CryptInv` is `LoaderInv`, `ToolInv` and `BlocksSoFar`. `LoaderInv` says, stage
by stage, what was checked so far (`StagesOK`), that all loaded segments fit
(`SegmentsFit`), and that each byte of memory is what the last header over it
says (`MemorySoFar`). The step for a segment has one difficult case: a sum that
wraps passes the checks, and then the first word behind memory throws before
anything is lost (`CopiedFits`), so a load that succeeds had no such segment.
`ChecksProtect` goes through the places that read an entry: where the table does
not wrap and its entries are as large as what is read, an entry that starts in
the table ends in the file (`EntryInFile`, for the three kinds of table
`HeadersInFile`, `SectionFacts` and `SymbolInFile`), and so does the search for a
terminator where the string table lies in the file (`StringInFile`).
`ReadyCorrect` is the link to `Cpu`: what the loader leaves ready is a state the
engine's specification starts from. `BlocksSoFar` says which words of the file
the tool has encrypted; with segments that are aligned and disjoint
(`BlocksApart`) each word is encrypted once, and a word of memory comes from
one segment of the plain file (`WordFromSegment`): `EncryptionTransparent`.

`NearestExact` is about the recursive function that stands for the loop of
`mips_elf_find_address`. Its invariant, `ScanOK`, is proved for every index
without an induction rule: a least index at which it fails exists
(`LeastElement`, from the well-foundedness of `<` on the naturals), and the
turn before it (`TurnScan`) leads to a contradiction. That the function exists
at all is `ScanExists`, by the same argument.

### Runners and stepper: `TortureProofs`, `SStepProofs`

`BranchNoted` relates the branch whose slot is pending to the one the runner has
noted, at each place of its loop. `InStep` says what the parent and the child of
the stepper know of each other: while the parent waits, there is news of at most
one instruction.

### Only model-checked

* Liveness (`ToolProgress`, `TortureProgress`, `StepperEnds`) is out of the
  prover's reach, as is everything about `ENABLED`.
* The four properties that fail are refuted by TLC; a theorem cannot say that.
* The modules that use an assumption of another do not discharge it by proof:
  that `Dec` undoes `Enc` in `Cpu` is `CipherRoundTrip` about `Rc5`, and that a
  program starts within the limits of `ProgramsAssumption` is `ReadyCorrect`
  about `ElfLoad`, but no module instantiates the one with the other.

## 5. What is not modelled, and the plan

Proofs that could follow:

1. The two links just named: `Cpu` instantiated with the block operators of
   `Rc5`, and with the states `ElfLoad` leaves ready as its programs.
2. An abstract specification of the services (a finite map from guest to host
   descriptors, a break, a console) and that `Syscalls` implements it.
3. That `Decode` and the fields of an instruction satisfy `InsnAssumption`.

Not modelled:

* the printing of `mips_dump_cpu` and of the runners: nothing depends on it;
* the characters of strings, and the signs and `0x` that `sscanf` accepts in a
  key;
* in `ElfCrypt`, a segment that contains the tables of its own file;
* in `Harness`, symbol searches that read behind the file;
* what is read behind a file: the outcome is `"undefined"`, whatever lies there;
* the inner simulator executed by the outer one: `Harness` delivers the second
  file to it, and `Torture` runs the second runner, but not one inside the other;
* in `SStep`, a failing `wait`: there always is a child, and the parent has no
  signal handlers;
* `vm/cspim`: service stubs that do nothing, and `setjmp` and `longjmp` as
  straight-line guest code;
* `md.c`, a calculator without state, and the guest programs, which are data.
