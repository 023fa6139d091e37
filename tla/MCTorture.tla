----------------------------- MODULE MCTorture -----------------------------
(***************************************************************************)
(* Tests of five words: three free ones, of which the second and the       *)
(* fourth may have labels, then a BREAK that should be skipped.  And tests *)
(* of two words with a table whose last symbol ends behind the file.       *)
(***************************************************************************)
EXTENDS Torture, MCGuest, TLC

TortureMenu == <<
  Nop,
  JType("BREAK", 0),
  JType("J", 2),
  JType("J", 4),
  IType("BEQ", 0, 31, 1),
  RType("JR", 0, 28, 0),
  IType("LW", 31, 28, 1),
  JType("SYSCALL", 0)>>

MCPrefix == "" :> 0 @@ "_gp" :> 0 @@ "E1" :> 1 @@ "EXIT" :> 2 @@ "EXN1" :> 3

Names == <<"", "_gp", "E1", "EXIT", "EXN1">>

MCPhdrEnd == [type |-> 2, filesz |-> 3, memsz |-> 4]
MCShdrEnd == [type |-> 2, offset |-> 2, size |-> 3, link |-> 3, entsize |-> 4]
MCSymEnd  == [info |-> 2, shndx |-> 3]

Str == [type |-> "STRTAB", name |-> 0, offset |-> 0, size |-> 5, entsize |-> 0,
        link |-> 0, strings |-> [n \in 0 .. 4 |-> Names[n + 1]]]

\* Three symbols of one byte each, of which the first two bytes are read.
Tab(offset) == [type |-> "SYMTAB", name |-> 0, offset |-> offset, size |-> 3,
                entsize |-> 1, link |-> 0, strings |-> <<>>]

Global(name, value) ==
  [name |-> name, bind |-> "GLOBAL", type |-> "NONE", value |-> value, size |-> 0,
   shndx |-> "OTHER"]

\* Only the size of the file, the header of the strings and the symbols are
\* looked at.
SymbolsOf(offset, x, y) ==
  [f |-> [size |-> 8, shoff |-> 0, shentsize |-> 4, sh |-> <<Str>>,
          sym |-> <<Global(1, 20), Global(x, 8), Global(y, 16)>>],
   tab |-> Tab(offset), str |-> 0]

WholeTables ==
  {[image |-> [a \in WordAddrs |-> CASE a = 4 -> Enc(u) [] a = 8 -> Enc(v) [] a = 12 -> Enc(w)
                                     [] a \in {16, 20} -> Enc(1) [] OTHER -> 0],
    entry |-> 4, gp |-> g, sym |-> SymbolsOf(0, x, y)] :
     u \in 0 .. 7, v \in 0 .. 7, w \in 0 .. 7, g \in {8},
     x \in {2, 4}, y \in {3, 4}}

\* 9 is no index of Str: the symbol has no name.
CutTables ==
  {[image |-> [a \in WordAddrs |-> IF a = 8 THEN Enc(u) ELSE Enc(1)],
    entry |-> e, gp |-> 8, sym |-> SymbolsOf(5, x, 3)] :
     u \in 0 .. 7, e \in {4, 8}, x \in {2, 4, 9}}

TorturePrograms == WholeTables \cup CutTables
============================================================================
