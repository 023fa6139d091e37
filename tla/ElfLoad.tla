------------------------------ MODULE ElfLoad ------------------------------
(***************************************************************************)
(* From a file to a CPU that is ready to run: prepare_cpu of               *)
(* hostapps/util.c, which reads the file and sets the peek and poke vector *)
(* when a key is given, and mips_elf_load of vm/elfload.c.  The segments   *)
(* are copied verbatim, the zeros behind them through the vector.          *)
(***************************************************************************)
EXTENDS Cpu, ElfFile

CONSTANTS
  ElfFiles,  \* the files the user may name
  Stale      \* what malloc may leave in the memory

VARIABLES
  elf,     \* the file
  key,     \* the user's key: "none", "good", or "bad" if it does not convert
  stage,   \* where prepare_cpu is
  seg,     \* the program header load_segments looks at
  vector,  \* peek_uw and poke_uw: "identity" or "rc5"
  symtab,  \* shsymtab and ...
  symstr,  \* ... shsymstr, as indices of sections
  brk,     \* brk
  mem0     \* the memory before the load

evars == <<vars, elf, key, stage, seg, vector, symtab, symstr, brk, mem0>>

\* "exit": the program reports an error; "undefined": a longjmp to a buffer
\* never set, or an access outside the file or the memory; "killed": by the
\* host, for a division by 0.
Stages == {"read", "key", "header", "segments", "symbols", "ready",
           "exit", "undefined", "killed"}

SegmentLimit == MemSz - StkSz

ASSUME FilesAssumption == \A f \in ElfFiles : Elf32_Ehdr(f)

ASSUME StaleAssumption == Stale \subseteq Word

\* The loader sets gp and sp.
ASSUME LoaderRegs == {28, 29} \subseteq Regs

----------------------------------------------------------------------------
(* prepare_cpu up to mips_elf_load.                                        *)

\* mips_init_cpu clears its structure, the rest is as malloc left it.
LoadStart(f) ==
  /\ r = [n \in Regs |-> 0] /\ hi = 0 /\ lo = 0
  /\ pc = 0 /\ delay_slot = 0 /\ exn = "OK"
  /\ \E w \in Stale : mem = [a \in WordAddrs |-> IF a < LowBase THEN 0 ELSE w]
  /\ mem0 = mem
  /\ elf = f
  /\ key \in {"none", "good", "bad"}
  /\ stage = "read" /\ seg = 0
  /\ vector = "identity"
  /\ symtab = -1 /\ symstr = -1
  /\ brk = 0

LoadInit == \E f \in ElfFiles : LoadStart(f)

KeepFile == UNCHANGED <<elf, key, mem0>>

KeepRegisters == UNCHANGED <<r, hi, lo, pc, delay_slot, exn, brk>>

\* The file cannot be opened, measured or read, or there is no memory for it.
read_elf ==
  /\ stage = "read"
  /\ stage' \in {"key", "exit"}
  /\ UNCHANGED <<mem, seg, vector, symtab, symstr>>
  /\ KeepRegisters /\ KeepFile

\* Mutant: the vector stays the identity.
SetVector_identity ==
  /\ stage = "key"
  /\ stage' = IF key = "bad" THEN "exit" ELSE "header"
  /\ UNCHANGED <<mem, seg, vector, symtab, symstr>>
  /\ KeepRegisters /\ KeepFile

SetVector ==
  /\ stage = "key"
  /\ \/ key = "bad" /\ stage' = "exit" /\ UNCHANGED vector
     \/ key = "none" /\ stage' = "header" /\ UNCHANGED vector
     \/ key = "good" /\ stage' = "header" /\ vector' = "rc5"
  /\ UNCHANGED <<mem, seg, symtab, symstr>>
  /\ KeepRegisters /\ KeepFile

----------------------------------------------------------------------------
(* mips_elf_load.                                                          *)

\* The fields of the header are read before any size is looked at.
CheckHeader ==
  /\ stage = "header"
  /\ \/ elf.size >= EhdrSize /\ check_eh_limits(elf) /\ stage' = "segments"
     \/ elf.size >= EhdrSize /\ ~check_eh_limits(elf) /\ stage' = "exit"
     \/ elf.size < EhdrSize /\ stage' \in {"exit", "undefined"}
  /\ UNCHANGED <<mem, seg, vector, symtab, symstr>>
  /\ KeepRegisters /\ KeepFile

\* Program header k starts in the file, but a field that is read does not end
\* there; p_memsz is read if the segment's data is in the file.
PhdrBehind(k) ==
  LET h == elf.ph[k + 1]
  IN  \/ ~PhdrHas(elf, k, "type")
      \/ /\ h.type = "LOAD"
         /\ ~PhdrHas(elf, k, IF End(h.offset, h.filesz) <= elf.size
                             THEN "memsz" ELSE "filesz")

\* Mutant: the segment is not compared with the size of the file.
Accepted_nofile(h) ==
  /\ End(h.vaddr, h.memsz) <= SegmentLimit /\ h.vaddr >= LowBase
  /\ h.filesz % 4 = 0 /\ h.memsz % 4 = 0 /\ h.memsz >= h.filesz

Accepted(h) ==
  /\ End(h.offset, h.filesz) <= elf.size
  /\ End(h.vaddr, h.memsz) <= SegmentLimit
  /\ h.vaddr >= LowBase
  /\ h.filesz % 4 = 0 /\ h.memsz % 4 = 0 /\ h.memsz >= h.filesz

\* The verbatim copy reads behind the file or writes behind the memory.
Escapes(h) ==
  /\ h.filesz > 0
  /\ h.offset + h.filesz > elf.size \/ h.vaddr + h.filesz > MemSz

\* One of the zeros is poked at an address that is not valid.
ZeroThrows(h) ==
  \E k \in h.filesz .. (h.memsz - 1) :
    k % 4 = 0 /\ ~Valid(Unsigned(h.vaddr + k), 4)

\* What poke_uw stores for 0.
Zero == IF vector = "rc5" THEN Enc(0) ELSE 0

\* The memory with the segment; if there are zeros it is aligned.
WithSegment(h) ==
  LET ByteOf(x) ==
        LET k == x - h.vaddr
        IN  CASE 0 <= k /\ k < h.filesz -> elf.data[h.offset + k]
              [] h.filesz <= k /\ k < h.memsz -> Bytes(Zero)[x % 4]
              [] OTHER -> Bytes(mem[WordOf(x)])[x % 4]
  IN  [a \in WordAddrs |-> FromBytes([k \in 0 .. 3 |-> ByteOf(a + k)])]

\* One turn of load_segments.
load_segment ==
  LET h    == elf.ph[seg + 1]
      read == get_phdr(elf, seg) /\ ~PhdrBehind(seg)
      load == read /\ h.type = "LOAD" /\ Accepted(h)
      skip == read /\ h.type = "NULL"
  IN  /\ stage = "segments" /\ seg < phnum(elf)
      /\ \/ /\ get_phdr(elf, seg) /\ PhdrBehind(seg)
            /\ stage' = "undefined" /\ UNCHANGED <<mem, seg>>
         \/ /\ get_phdr(elf, seg) => read /\ ~load /\ ~skip
            /\ stage' = "exit" /\ UNCHANGED <<mem, seg>>
         \/ skip /\ seg' = seg + 1 /\ UNCHANGED <<mem, stage>>
         \/ /\ load /\ (Escapes(h) \/ ZeroThrows(h))
            /\ stage' = "undefined" /\ UNCHANGED <<mem, seg>>
         \/ /\ load /\ ~Escapes(h) /\ ~ZeroThrows(h)
            /\ mem' = WithSegment(h) /\ seg' = seg + 1 /\ UNCHANGED stage
      /\ UNCHANGED <<vector, symtab, symstr>>
      /\ KeepRegisters /\ KeepFile

\* The loop of get_symtab reads header k.
ShdrRead(k) ==
  get_shdr(elf, k) /\ (k # elf.shstrndx => ShdrHas(elf, k, "type"))

\* The first k sections that the loop takes for symbol tables.
SymtabsBelow(k) ==
  {m \in 0 .. (k - 1) : m # elf.shstrndx /\ elf.sh[m + 1].type = "SYMTAB"}

SymtabSections == SymtabsBelow(shnum(elf))

\* The loop gets to a header whose type lies behind the file.
LoopBehind ==
  \E k \in 0 .. (shnum(elf) - 1) :
    /\ get_shdr(elf, k) /\ ~ShdrRead(k)
    /\ \A m \in 0 .. (k - 1) : ShdrRead(m)
    /\ \A m, l \in SymtabsBelow(k) : m = l

\* The loop has read all headers, and n is the only symbol table.
OnlySymtab(n) ==
  /\ \A k \in 0 .. (shnum(elf) - 1) : ShdrRead(k)
  /\ SymtabSections = {n}

SectionName(n) == get_string(elf, elf.shstrndx, elf.sh[n + 1].name)

\* The checks of section n, an only symbol table, end behind the file.
SymtabBehind(n) ==
  LET link == elf.sh[n + 1].link
  IN  \/ SectionName(n) = BEHIND \/ ~ShdrHas(elf, n, "link")
      \/ /\ SectionName(n) = ".symtab"
         /\ get_shdr(elf, link) /\ SectionName(link) = BEHIND

\* Mutant: sh_link is not compared with e_shnum.
IsSymtab_link(n) ==
  OnlySymtab(n) /\ ShdrHas(elf, n, "link") /\ SectionName(n) = ".symtab"

\* n is the symbol table and get_symtab accepts it and its strings.
IsSymtab(n) ==
  LET link == elf.sh[n + 1].link
  IN  /\ OnlySymtab(n) /\ ShdrHas(elf, n, "link")
      /\ SectionName(n) = ".symtab"
      /\ get_shdr(elf, link)
      /\ elf.sh[link + 1].type = "STRTAB" /\ SectionName(link) = ".strtab"

get_symtab ==
  LET behind == LoopBehind
                  \/ \E n \in SymtabSections : OnlySymtab(n) /\ SymtabBehind(n)
  IN  /\ stage = "segments" /\ seg = phnum(elf)
      /\ \/ /\ \E n \in SymtabSections :
                 IsSymtab(n) /\ symtab' = n /\ symstr' = elf.sh[n + 1].link
            /\ stage' = "symbols"
         \/ behind /\ stage' = "undefined" /\ UNCHANGED <<symtab, symstr>>
         \/ /\ ~behind /\ \A n \in SymtabSections : ~IsSymtab(n)
            /\ stage' = "exit" /\ UNCHANGED <<symtab, symstr>>
      /\ UNCHANGED <<mem, seg, vector>>
      /\ KeepRegisters /\ KeepFile

Symtab == elf.sh[symtab + 1]

Symbol(name) == mips_elf_find_symbol(elf, Symtab, symstr, name)

\* st_shndx of a symbol that is found, or the search for it, is not in the file.
SymbolBehind(n) ==
  n = OUTSIDE \/ (n > 0 /\ ~SymHas(elf, Symtab, n - 1, "shndx"))

InProgram(v) == LowBase <= v /\ v < SegmentLimit

\* Mutant: the value of the symbol is not checked.
Absolute_any(n) == n > 0 /\ elf.sym[n].shndx = "ABS"

\* _gp and _end must be absolute symbols in the program's part of memory.
Absolute(n) == n > 0 /\ elf.sym[n].shndx = "ABS" /\ InProgram(elf.sym[n].value)

\* The entry point is compared with the upper limit first, and again at last.
SetRegisters ==
  LET gp     == Symbol("_gp")
      end    == Symbol("_end")
      counts == elf.entry < SegmentLimit /\ ShdrHas(elf, symtab, "entsize")
      finds  == counts /\ Symtab.entsize # 0
  IN  /\ stage = "symbols"
      /\ \/ /\ elf.entry >= SegmentLimit
            /\ stage' = "exit" /\ KeepRegisters
         \/ /\ elf.entry < SegmentLimit /\ ~ShdrHas(elf, symtab, "entsize")
            /\ stage' = "undefined" /\ KeepRegisters
         \/ /\ counts /\ Symtab.entsize = 0
            /\ stage' = "killed" /\ KeepRegisters
         \/ /\ finds
            /\ SymbolBehind(gp) \/ (Absolute(gp) /\ SymbolBehind(end))
            /\ stage' = "undefined" /\ KeepRegisters
         \/ /\ finds /\ ~SymbolBehind(gp)
            /\ Absolute(gp) => /\ ~SymbolBehind(end)
                               /\ ~(Absolute(end) /\ InProgram(elf.entry))
            /\ stage' = "exit" /\ KeepRegisters
         \/ /\ finds /\ ~SymbolBehind(gp) /\ ~SymbolBehind(end)
            /\ Absolute(gp) /\ Absolute(end) /\ InProgram(elf.entry)
            /\ stage' = "ready"
            /\ brk' = elf.sym[end].value
            /\ pc' = elf.entry
            /\ r' = [n \in Regs |-> CASE n = 28 -> elf.sym[gp].value
                                      [] n = 29 -> MemSz - 4
                                      [] n = RA -> 0
                                      [] OTHER  -> r[n]]
            /\ UNCHANGED <<hi, lo, delay_slot, exn>>
      /\ UNCHANGED <<mem, seg, vector, symtab, symstr>>
      /\ KeepFile

\* prepare_cpu returns, or the process has ended.
LoadDone == stage \in {"ready", "exit", "undefined", "killed"} /\ UNCHANGED evars

LoadNext ==
  \/ read_elf \/ SetVector \/ CheckHeader \/ load_segment \/ get_symtab
  \/ SetRegisters \/ LoadDone

LoadSpec == LoadInit /\ [][LoadNext]_evars

----------------------------------------------------------------------------
(* Properties.                                                             *)

LoadTypeOK ==
  /\ TypeOK
  /\ stage \in Stages /\ seg \in 0 .. phnum(elf)
  /\ vector \in {"identity", "rc5"}
  /\ symtab \in -1 .. (shnum(elf) - 1) /\ symstr \in -1 .. (shnum(elf) - 1)
  /\ brk \in Word

(***************************************************************************)
(* A CPU that prepare_cpu leaves ready is in a state the engine's own      *)
(* specification starts from: registers, delay slot and entry point are    *)
(* those of Loaded, and entry, _gp and the break are in the program's part *)
(* of memory, between the control block and the stack.                     *)
(***************************************************************************)
ReadyIsLoaded ==
  stage = "ready" =>
    /\ Loaded([image |-> mem, entry |-> elf.entry, gp |-> r[28]])
    /\ \A v \in {pc, r[28], brk} : v \in LowBase .. (MemSz - StkSz - 1)

\* The headers whose segment holds the byte at x, and the last of them.
Covering(x) ==
  {n \in 1 .. phnum(elf) :
     /\ elf.ph[n].type = "LOAD"
     /\ elf.ph[n].vaddr <= x /\ x < elf.ph[n].vaddr + elf.ph[n].memsz}

LastCovering(x) == CHOOSE n \in Covering(x) : \A k \in Covering(x) : k <= n

\* What the byte at x must be: data of the file, a zero of the vector, or old.
Linked(x) ==
  LET h == elf.ph[LastCovering(x)]
  IN  CASE Covering(x) = {} \/ ~InProgram(x) -> Bytes(mem0[WordOf(x)])[x % 4]
        [] Covering(x) # {} /\ InProgram(x) /\ x - h.vaddr < h.filesz ->
             elf.data[h.offset + (x - h.vaddr)]
        [] OTHER -> Bytes(IF key = "good" THEN Enc(0) ELSE 0)[x % 4]

(***************************************************************************)
(* The memory is the one the program headers describe, to the byte: data   *)
(* of the file verbatim, also at addresses that are not aligned; zeros     *)
(* that read as zeros through the vector the program runs with; a later    *)
(* segment over an earlier one; and nothing else, neither in the control   *)
(* block nor in the stack nor between segments, has been touched.          *)
(***************************************************************************)
MemoryAsLinked ==
  stage = "ready" => \A x \in 0 .. (MemSz - 1) : Bytes(mem[WordOf(x)])[x % 4] = Linked(x)

\* What the checks leave open: tables whose end wraps around or whose entries
\* are smaller than the structures that are read there,
PhdrsOpen == elf.phentsize < PhdrEnd.memsz
               \/ elf.phoff + phnum(elf) * elf.phentsize >= W
ShdrsOpen == elf.shentsize < ShdrEnd.entsize
               \/ elf.shoff + shnum(elf) * elf.shentsize >= W
SymbolsOpen == Symtab.entsize < SymEnd.shndx \/ Symtab.offset + Symtab.size >= W

\* a string table that is not compared with the file,
StringsOpen ==
  \E k \in 1 .. shnum(elf) :
    elf.sh[k].type = "STRTAB" /\ elf.sh[k].offset + elf.sh[k].size > elf.size

\* and a segment whose end wraps around, or with zeros that are not aligned.
SegmentOpen(h) ==
  \/ h.offset + h.filesz >= W \/ h.vaddr + h.memsz >= W
  \/ h.filesz < h.memsz /\ h.vaddr % 4 # 0

(***************************************************************************)
(* When the load leaves the file or the memory, or a poke throws, one of   *)
(* these is open at the very place: the program headers or the segment in  *)
(* load_segments, the sections, strings or symbols behind it.  Where none  *)
(* is, the checks of elfload.c suffice for a file of at least a header.    *)
(***************************************************************************)
ChecksSuffice ==
  stage = "undefined" =>
    \/ elf.size < EhdrSize
    \/ seg < phnum(elf) /\ (PhdrsOpen \/ SegmentOpen(elf.ph[seg + 1]))
    \/ /\ seg = phnum(elf)
       /\ ShdrsOpen \/ StringsOpen \/ (symtab # -1 /\ SymbolsOpen)

(***************************************************************************)
(* cpu.h:182-184 of mips_elf_find_address: the "nearest GLOBAL symbol      *)
(* whose address is less than or equal to addr", sections and files        *)
(* ignored, for every address of the memory, and NULL if there is none:    *)
(* the running minimum and the early end of the loop make no difference.   *)
(* This is of tables whose end does not wrap around, and whose entries are *)
(* as large as what is read of them: in others _gp and _end may be found,  *)
(* but the search for an address meets entries that lie behind the file.   *)
(***************************************************************************)
NearestSymbolFound ==
  /\ stage = "ready" /\ Symtab.offset + Symtab.size < W
  /\ Symtab.entsize >= SymEnd.info
  =>
    \A a \in 0 .. MemSz :
      LET n     == mips_elf_find_address(elf, Symtab, MemSz, a)
          below == {k \in 1 .. nsyms(Symtab) :
                      Locates(elf.sym[k]) /\ elf.sym[k].value <= a}
      IN  IF below = {} \/ a = MemSz THEN n = 0
          ELSE /\ n \in below
               /\ \A k \in below : elf.sym[k].value <= elf.sym[n].value

(***************************************************************************)
(* cpu.h:166 of mips_elf_find_symbol, "Find GLOBAL symbol by name": the    *)
(* break and the global pointer come from global symbols, although local   *)
(* ones of the same name may come first in the table.                      *)
(***************************************************************************)
StartFromGlobals ==
  stage = "ready" =>
    \A w \in {<<"_gp", r[28]>>, <<"_end", brk>>} :
      \E n \in 1 .. Len(elf.sym) :
        /\ elf.sym[n].bind = "GLOBAL" /\ elf.sym[n].value = w[2]
        /\ mips_elf_get_symname(elf, symstr, n) = w[1]
============================================================================
