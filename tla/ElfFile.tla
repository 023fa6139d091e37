------------------------------ MODULE ElfFile ------------------------------
(***************************************************************************)
(* An ELF file as the simulator reads it (vm/elf.h, vm/elfload.c): the     *)
(* header, the tables it points to, and the functions that look entries,   *)
(* strings and symbols up.  Sums of 32-bit fields wrap around.  A lookup   *)
(* checks only that an entry starts in the file, so what is read of it may *)
(* lie behind the file: then anything may follow.                          *)
(*                                                                         *)
(* A file is a record with the fields of its header, the entries ph, sh    *)
(* and sym of its tables and its bytes, data.  ident stands for the size,  *)
(* the magic and the kind in the header: "ok" if they are the supported    *)
(* ones, "machine" if only the machine is another.  A string table is a    *)
(* function from the indices of the strings that are terminated inside the *)
(* table and the file to these strings.                                    *)
(***************************************************************************)
EXTENDS Words, Sequences

CONSTANTS
  EhdrSize,  \* sizeof(Elf32_Ehdr)
  PhdrEnd,   \* where fields of an Elf32_Phdr end: offset and size of each
  ShdrEnd,   \* of an Elf32_Shdr
  SymEnd     \* of an Elf32_Sym

\* Only fields that are read before those in front of them are needed.
ASSUME FieldsAssumption ==
  /\ EhdrSize \in Nat
  /\ PhdrEnd \in [{"type", "filesz", "memsz"} -> Nat]
  /\ PhdrEnd.type <= PhdrEnd.filesz /\ PhdrEnd.filesz <= PhdrEnd.memsz
  /\ ShdrEnd \in [{"type", "offset", "size", "link", "entsize"} -> Nat]
  /\ ShdrEnd.type <= ShdrEnd.offset /\ ShdrEnd.offset <= ShdrEnd.size
  /\ ShdrEnd.size <= ShdrEnd.link /\ ShdrEnd.link <= ShdrEnd.entsize
  /\ SymEnd \in [{"info", "shndx"} -> Nat] /\ SymEnd.info <= SymEnd.shndx

NULL == "NULL"

\* A string, and a symbol, that cannot be told without reading behind the file.
BEHIND  == "BEHIND"
OUTSIDE == -1

Elf32_Phdr == [type : {"NULL", "LOAD", "OTHER"}, offset : Word, vaddr : Word,
               filesz : Word, memsz : Word]

Elf32_Sym == [name : Word, value : Word, size : Word,
              bind : {"LOCAL", "GLOBAL"}, shndx : {"ABS", "OTHER"},
              type : {"NONE", "OBJECT", "FUNC", "SECTION", "FILE"}]

\* s is a section header; strings is empty unless it is a string table, and
\* NULL and BEHIND are none of them.
Elf32_Shdr(s) ==
  /\ s.type \in {"SYMTAB", "STRTAB", "OTHER"}
  /\ {s.name, s.offset, s.size, s.entsize, s.link} \subseteq Word
  /\ DOMAIN s.strings \subseteq 0 .. (s.size - 1)
  /\ \A i \in DOMAIN s.strings : s.strings[i] \notin {NULL, BEHIND}

\* f is a file; its symbols are those of a table as long as its header says.
Elf32_Ehdr(f) ==
  /\ DOMAIN f = {"ident", "phoff", "shoff", "entry", "phentsize", "shentsize",
                 "shstrndx", "size", "data", "ph", "sh", "sym"}
  /\ f.ident \in {"ok", "machine", "bad"}
  /\ {f.phoff, f.shoff, f.entry} \subseteq Word
  /\ {f.phentsize, f.shentsize, f.shstrndx} \subseteq 0 .. (Half - 1)
  /\ f.size \in Word /\ f.data \in [0 .. (f.size - 1) -> Byte]
  /\ f.ph \in Seq(Elf32_Phdr) /\ f.sym \in Seq(Elf32_Sym)
  /\ Len(f.sh) \in Nat
  /\ \A k \in 1 .. Len(f.sh) :
       LET s == f.sh[k]
       IN  /\ Elf32_Shdr(s)
           /\ \A i \in DOMAIN s.strings : s.offset + i < f.size
           /\ s.type = "SYMTAB" /\ s.entsize # 0 =>
                s.size \div s.entsize <= Len(f.sym)

phnum(f) == Len(f.ph)
shnum(f) == Len(f.sh)

\* The end of a part of n bytes that starts at off, as the code computes it.
End(off, n) == Unsigned(off + n)

\* check_eh_limits of elfload.c: the header is accepted.
check_eh_limits(f) ==
  /\ f.ident = "ok"
  /\ End(f.phoff, phnum(f) * f.phentsize) <= f.size
  /\ End(f.shoff, shnum(f) * f.shentsize) <= f.size
  /\ f.shstrndx < shnum(f)

\* get_phdr, get_shdr and get_sym find an entry: its first byte is in the file.
get_phdr(f, ndx) == ndx < phnum(f) /\ End(f.phoff, ndx * f.phentsize) < f.size

get_shdr(f, ndx) == ndx < shnum(f) /\ End(f.shoff, ndx * f.shentsize) < f.size

get_sym(f, tab, ndx) ==
  /\ tab.type = "SYMTAB"
  /\ Unsigned(ndx * tab.entsize) < tab.size
  /\ End(tab.offset, Unsigned(ndx * tab.entsize)) < f.size

(***************************************************************************)
(* A field of an entry is in the file, and so are the fields before it.    *)
(* The size of an entry, which the file gives, is never compared with the  *)
(* size of the structure that is read there.                               *)
(***************************************************************************)
PhdrHas(f, ndx, field) ==
  End(f.phoff, ndx * f.phentsize) + PhdrEnd[field] <= f.size

ShdrHas(f, ndx, field) ==
  End(f.shoff, ndx * f.shentsize) + ShdrEnd[field] <= f.size

SymHas(f, tab, ndx, field) ==
  End(tab.offset, Unsigned(ndx * tab.entsize)) + SymEnd[field] <= f.size

(***************************************************************************)
(* The string at ndx of section k.  sh_offset and sh_type are read first,  *)
(* sh_size of a string table only.  The search for the terminator stops at *)
(* the end of the section, which may lie behind that of the file.          *)
(***************************************************************************)
get_string(f, k, ndx) ==
  LET sec    == f.sh[k + 1]
      table  == sec.type = "STRTAB"
      starts == table /\ ndx < sec.size /\ sec.offset < f.size
      ends   == ndx \in DOMAIN sec.strings
  IN  CASE \/ ~ShdrHas(f, k, IF table THEN "size" ELSE "offset")
           \/ starts /\ ~ends /\ sec.offset + sec.size > f.size -> BEHIND
        [] ShdrHas(f, k, "size") /\ starts /\ ends -> sec.strings[ndx]
        [] OTHER -> NULL

----------------------------------------------------------------------------
(* The symbol table.  Symbol n is f.sym[n]; 0 stands for a null pointer.   *)
(* tab is the header of the table, which can be read; str is the index of  *)
(* the section of its strings.                                             *)

\* sh_size / sh_entsize; the division fails if sh_entsize is 0.
nsyms(tab) == tab.size \div tab.entsize

InFile(f, tab) == End(tab.offset, tab.size) <= f.size

\* Mutant: local symbols are found too.
mips_elf_find_symbol_local(f, tab, str, name) ==
  LET found == {n \in 1 .. nsyms(tab) : get_string(f, str, f.sym[n].name) = name}
  IN  IF found = {} THEN 0 ELSE CHOOSE n \in found : \A k \in found : n <= k

(***************************************************************************)
(* The search ends at the first global symbol of that name; with NULL at   *)
(* an entry, or at a name of a global symbol, that is out of bounds; or    *)
(* behind the file.                                                        *)
(***************************************************************************)
mips_elf_find_symbol(f, tab, str, name) ==
  LET global(n)  == f.sym[n].bind = "GLOBAL"
      Named(n)   == get_string(f, str, f.sym[n].name)
      Fails(n)   == ~get_sym(f, tab, n - 1)
      Escapes(n) == \/ ~SymHas(f, tab, n - 1, "info")
                    \/ global(n) /\ Named(n) = BEHIND
      Stops(n)   == global(n) /\ Named(n) \in {NULL, name}
      ends       == {n \in 1 .. nsyms(tab) : Fails(n) \/ Escapes(n) \/ Stops(n)}
      first      == CHOOSE n \in ends : \A k \in ends : n <= k
  IN  CASE ~InFile(f, tab) \/ ends = {} \/ Fails(first) -> 0
        [] InFile(f, tab) /\ ends # {} /\ ~Fails(first) /\ Escapes(first) -> OUTSIDE
        [] OTHER -> IF Named(first) = name THEN first ELSE 0

\* Neither local, nor of type STT_SECTION, STT_FILE or above.
Locates(s) == s.bind = "GLOBAL" /\ s.type \notin {"SECTION", "FILE"}

\* Mutant: the least difference is not kept.
mips_elf_find_address_last(f, tab, memsz, addr) ==
  LET below == {n \in 1 .. nsyms(tab) : Locates(f.sym[n]) /\ f.sym[n].value <= addr}
  IN  IF below = {} THEN 0 ELSE CHOOSE n \in below : \A k \in below : n >= k

\* One turn of the loop, for symbol n: s is min, ret and whether it has ended.
find_address_turn(f, tab, addr, s, n) ==
  LET diff == addr - f.sym[n].value
  IN  CASE s.ended -> s
        [] ~s.ended /\ ~get_sym(f, tab, n - 1) ->
             [s EXCEPT !.ret = 0, !.ended = TRUE]
        [] ~s.ended /\ get_sym(f, tab, n - 1) /\ ~SymHas(f, tab, n - 1, "info") ->
             [s EXCEPT !.ret = OUTSIDE, !.ended = TRUE]
        [] /\ ~s.ended /\ get_sym(f, tab, n - 1) /\ SymHas(f, tab, n - 1, "info")
           /\ Locates(f.sym[n]) /\ 0 <= diff /\ diff < s.min ->
             [min |-> diff, ret |-> n, ended |-> diff = 0]
        [] OTHER -> s

\* scan[n] is what the loop has found after n symbols.
mips_elf_find_address(f, tab, memsz, addr) ==
  LET scan[n \in 0 .. nsyms(tab)] ==
        IF n = 0 THEN [min |-> W - 1, ret |-> 0, ended |-> FALSE]
        ELSE find_address_turn(f, tab, addr, scan[n - 1], n)
  IN  IF ~InFile(f, tab) \/ addr >= memsz THEN 0 ELSE scan[nsyms(tab)].ret

\* The symbol's name, NULL or BEHIND.
mips_elf_get_symname(f, str, n) == get_string(f, str, f.sym[n].name)
============================================================================
