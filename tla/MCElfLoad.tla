----------------------------- MODULE MCElfLoad -----------------------------
(***************************************************************************)
(* Small files for the loader: forty bytes, tables whose entries take four *)
(* bytes (three in the symbol table), and every field at, just beyond and  *)
(* far beyond the limit it is compared with.                               *)
(***************************************************************************)
EXTENDS ElfLoad, MCGuest

ElfMenu == <<Nop>>

MCPhdrEnd == [type |-> 2, filesz |-> 3, memsz |-> 4]
MCShdrEnd == [type |-> 2, offset |-> 2, size |-> 3, link |-> 3, entsize |-> 4]
MCSymEnd  == [info |-> 2, shndx |-> 3]

Seg(o, fs, va, ms) ==
  [type |-> "LOAD", offset |-> o, filesz |-> fs, vaddr |-> va, memsz |-> ms]

Sec(type, name, o, n, e, link) ==
  [type |-> type, name |-> name, offset |-> o, size |-> n, entsize |-> e,
   link |-> link, strings |-> <<>>]

Sym(name, bind, type, value, shndx) ==
  [name |-> name, bind |-> bind, type |-> type, value |-> value, size |-> 0,
   shndx |-> shndx]

\* Index 5 is inside the table, but the string there is not terminated.
Strtab == [Sec("STRTAB", 2, 24, 6, 0, 0) EXCEPT !.strings =
             [k \in 0 .. 4 |-> <<"", "_gp", "_end", "_start", "EXN1">>[k + 1]]]
Shstrtab == [Sec("STRTAB", 3, 30, 4, 0, 0) EXCEPT !.strings =
               [k \in 0 .. 3 |-> <<"", ".symtab", ".strtab", ".shstrtab">>[k + 1]]]

Symbols == <<
  Sym(1, "LOCAL", "NONE", 5, "ABS"), Sym(0, "GLOBAL", "SECTION", 9, "OTHER"),
  Sym(3, "GLOBAL", "FUNC", 4, "OTHER"), Sym(1, "GLOBAL", "NONE", 8, "ABS"),
  Sym(2, "GLOBAL", "NONE", 16, "ABS")>>

Sections(n) == <<Sec("OTHER", 0, 0, 0, 0, 0), Sec("SYMTAB", 1, 0, 3 * n, 3, 2),
                 Strtab, Shstrtab>>

Base == [ident |-> "ok", size |-> 40, phoff |-> 0, phentsize |-> 4,
         ph |-> <<Seg(8, 8, 4, 8)>>,
         shoff |-> 24, shentsize |-> 4, sh |-> Sections(5), shstrndx |-> 3,
         entry |-> 4, sym |-> Symbols,
         data |-> [x \in 0 .. 39 |-> (x + (x \div 4) + 1) % 4]]

----------------------------------------------------------------------------
(* Segments, alone and in pairs.                                           *)

Segs == {
  Seg(8, 8, 4, 8), Seg(20, 4, 8, 12), Seg(0, 4, 12, 4),
  Seg(36, 4, 16, 4), Seg(40, 0, 12, 8), Seg(16, 8, 8, 8), \* up to the limits
  Seg(37, 4, 8, 4), Seg(8, 4, 12, 12), Seg(8, 4, 0, 4),   \* beyond them
  Seg(8, 6, 4, 8), Seg(8, 4, 4, 6), Seg(8, 8, 4, 4),      \* bad sizes
  Seg(9, 4, 6, 4), Seg(7, 8, 9, 8),                       \* not aligned
  Seg(8, 4, 6, 8), Seg(8, 0, 5, 4),                       \* ... with a gap
  Seg(252, 8, 4, 8), Seg(8, 4, 252, 8), Seg(8, 0, 248, 12), \* wrapped sums
  Seg(8, 0, 12, 252),
  [Seg(0, 0, 0, 0) EXCEPT !.type = "NULL"],
  [Seg(0, 0, 0, 0) EXCEPT !.type = "OTHER"]}

SegmentFiles ==
  {[Base EXCEPT !.ph = ph] :
     ph \in {<<>>} \cup {<<g>> : g \in Segs} \cup {<<g, h>> : g \in Segs, h \in Segs}}

----------------------------------------------------------------------------
(* Headers, sections and symbols.                                          *)

HeaderFiles ==
  {[Base EXCEPT !.ident = "bad"], [Base EXCEPT !.ident = "machine"],
   [Base EXCEPT !.phoff = 37],
   [Base EXCEPT !.phoff = 254], [Base EXCEPT !.shoff = 25],
   [Base EXCEPT !.shoff = 250], [Base EXCEPT !.shstrndx = 4],
   [Base EXCEPT !.shstrndx = 1], [Base EXCEPT !.shstrndx = 2]}
  \cup {[Base EXCEPT !.entry = e] : e \in {0, 3, 6, 19, 20, 255}}

SectionFiles ==
  {[Base EXCEPT !.sh[k] = s] : k \in 1 .. 4,
     s \in {Sec("OTHER", 0, 0, 0, 0, 0), Sec("SYMTAB", 1, 0, 15, 3, 2),
            Sec("SYMTAB", 1, 0, 15, 3, 4), Sec("SYMTAB", 2, 0, 15, 3, 2),
            Sec("SYMTAB", 1, 0, 15, 0, 2), Sec("SYMTAB", 1, 26, 15, 3, 2),
            Sec("SYMTAB", 1, 250, 15, 3, 2), Sec("SYMTAB", 1, 0, 10, 3, 2),
            [Strtab EXCEPT !.name = 1], [Strtab EXCEPT !.name = 7],
            [Strtab EXCEPT !.offset = 40, !.strings = <<>>]}}

\* The end of the table wraps around: only its first three entries are in the
\* file.
WrappedTable ==
  [Base EXCEPT !.sh[2] = Sec("SYMTAB", 1, 20, 240, 8, 2),
               !.sym = SubSeq(Symbols, 3, 5) \o
                         [k \in 1 .. 27 |-> Sym(0, "LOCAL", "NONE", 0, "OTHER")]]

\* A symbol may be any of these; the two the loader needs come at the end.
Syms == {
  Sym(1, "LOCAL", "NONE", 5, "ABS"), Sym(2, "LOCAL", "NONE", 5, "ABS"),
  Sym(1, "GLOBAL", "NONE", 19, "ABS"), Sym(2, "GLOBAL", "NONE", 19, "OTHER"),
  Sym(2, "GLOBAL", "NONE", 20, "ABS"), Sym(1, "GLOBAL", "NONE", 3, "ABS"),
  Sym(0, "GLOBAL", "SECTION", 9, "OTHER"), Sym(0, "GLOBAL", "FILE", 10, "ABS"),
  Sym(5, "GLOBAL", "OBJECT", 12, "OTHER"), Sym(5, "LOCAL", "OBJECT", 13, "OTHER"),
  Sym(3, "GLOBAL", "FUNC", 0, "OTHER"), Sym(3, "GLOBAL", "FUNC", 4, "OTHER"),
  Sym(4, "GLOBAL", "FUNC", 8, "OTHER"), Sym(4, "GLOBAL", "FUNC", 27, "OTHER")}

SymbolFiles ==
  {[Base EXCEPT !.sym = <<x, y, z>> \o SubSeq(Symbols, 4, 5)] :
     x \in Syms, y \in Syms, z \in Syms}

\* A linker script that does not align _end.
UnalignedEnd == {[Base EXCEPT !.sym[5].value = v] : v \in {12, 15, 16}}

----------------------------------------------------------------------------
(* Entries and strings that start in the file and end behind it.           *)

\* The first n strings of table s, which starts n bytes before the end.
Cut(s, n) ==
  [s EXCEPT !.offset = 40 - n, !.strings = [k \in 0 .. (n - 1) |-> s.strings[k]]]

\* The symbol table is the last section.
SymtabLast(file) ==
  [file EXCEPT !.shstrndx = 0,
               !.sh = <<Shstrtab, Strtab, Sec("OTHER", 0, 0, 0, 0, 0),
                        Sec("SYMTAB", 1, 0, 15, 3, 1)>>]

\* Five symbols of one byte, and the names of _gp and _end in either order.
Tiny(o) == [Base EXCEPT !.sh[2] = Sec("SYMTAB", 1, o, 5, 1, 2)]

CutFiles ==
  {[Base EXCEPT !.size = 7, !.data = [x \in 0 .. 6 |-> 0], !.ph = <<>>, !.sh = <<>>]}
  \cup {[Base EXCEPT !.phoff = o, !.phentsize = 1, !.ph = ph] :
          o \in 36 .. 38, ph \in {<<g>> : g \in Segs} \cup {<<Seg(8, 8, 4, 8), g>> : g \in Segs}}
  \cup {[Base EXCEPT !.phoff = 39, !.phentsize = 1]}
  \cup {[Base EXCEPT !.shoff = o, !.shentsize = 1] : o \in 33 .. 36}
  \cup {[SymtabLast(Base) EXCEPT !.shoff = o, !.shentsize = 1] : o \in 33 .. 36}
  \cup {Tiny(o) : o \in 33 .. 35}
  \cup {[Tiny(o) EXCEPT !.sym[4].name = 2, !.sym[5].name = 1] : o \in 33 .. 35}
  \cup {[Tiny(35) EXCEPT !.sym[4].name = 0]}
  \cup {[Base EXCEPT !.sh[4] = Cut(Shstrtab, k)] : k \in 1 .. 3}
  \cup {[Base EXCEPT !.sh[3] = Cut(Strtab, k), !.sym[3] = y] :
          k \in 1 .. 4, y \in {Sym(3, "LOCAL", "FUNC", 4, "OTHER"),
                             Sym(3, "GLOBAL", "FUNC", 4, "OTHER")}}

MCElfFiles == SegmentFiles \cup HeaderFiles \cup SectionFiles \cup SymbolFiles
                \cup UnalignedEnd \cup {WrappedTable} \cup CutFiles
============================================================================
