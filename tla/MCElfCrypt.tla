----------------------------- MODULE MCElfCrypt ----------------------------
(***************************************************************************)
(* Files of sixty bytes: the program headers first, the segments between   *)
(* 12 and 40 or at the very end, the other tables between them.            *)
(***************************************************************************)
EXTENDS ElfCrypt, MCElfLoad

CryptSections == <<Sec("OTHER", 0, 0, 0, 0, 0), Sec("SYMTAB", 1, 40, 15, 3, 2),
                   [Strtab EXCEPT !.offset = 50], [Shstrtab EXCEPT !.offset = 50]>>

CryptBase == [Base EXCEPT !.size = 60, !.shoff = 40, !.sh = CryptSections,
                          !.data = [x \in 0 .. 59 |-> (x + (x \div 4) + 1) % 4]]

CryptSegs == {
  Seg(12, 8, 4, 8), Seg(20, 4, 8, 12), Seg(24, 8, 12, 8), Seg(28, 0, 12, 8),
  Seg(32, 4, 16, 4), Seg(16, 8, 8, 8),
  Seg(13, 8, 6, 8), Seg(16, 6, 4, 8), Seg(56, 4, 4, 4), Seg(58, 4, 4, 4),
  [Seg(36, 4, 0, 4) EXCEPT !.type = "NULL"],
  [Seg(0, 0, 0, 0) EXCEPT !.type = "OTHER"]}

MCCryptFiles ==
  {[CryptBase EXCEPT !.ph = ph] :
     ph \in {<<>>} \cup {<<g>> : g \in CryptSegs}
              \cup {<<g, h>> : g \in CryptSegs, h \in CryptSegs}
              \cup {<<Seg(12, 8, 4, 8), g, h>> : g \in CryptSegs, h \in CryptSegs}}
  \cup {[CryptBase EXCEPT !.ident = "bad"], [CryptBase EXCEPT !.ident = "machine"],
        [CryptBase EXCEPT !.phentsize = 8], [CryptBase EXCEPT !.phoff = 58],
        [CryptBase EXCEPT !.phoff = 254],
        [CryptBase EXCEPT !.size = 7, !.data = [x \in 0 .. 6 |-> 0],
                          !.ph = <<>>, !.sh = <<>>]}
============================================================================
