----------------------------- MODULE LoadProofs ----------------------------
(***************************************************************************)
(* The loader and the encryption tool, proved for every file that is well  *)
(* formed, every key, cipher, size of memory and old contents of it.       *)
(***************************************************************************)
EXTENDS ElfCrypt, CpuProofs, SequenceTheorems

----------------------------------------------------------------------------
(* Files.                                                                  *)

\* The entries of a file's tables and their fields.
LEMMA FileFacts ==
  ASSUME NEW f, Elf32_Ehdr(f)
  PROVE  /\ phnum(f) \in Nat /\ shnum(f) \in Nat /\ Len(f.sym) \in Nat
         /\ f.size \in Nat /\ f.size < W /\ f.entry \in Word
         /\ \A x \in 0 .. (f.size - 1) : f.data[x] \in Byte
         /\ \A k \in 1 .. phnum(f) :
              /\ f.ph[k].offset \in Word /\ f.ph[k].vaddr \in Word
              /\ f.ph[k].filesz \in Word /\ f.ph[k].memsz \in Word
         /\ \A k \in 1 .. Len(f.sym) : f.sym[k].value \in Word
         /\ \A k \in 1 .. shnum(f) :
              /\ f.sh[k].link \in Word /\ f.sh[k].size \in Word
              /\ f.sh[k].entsize \in Word
<1>1. f.ph \in Seq(Elf32_Phdr) /\ f.sym \in Seq(Elf32_Sym)
  BY DEF Elf32_Ehdr
<1>2. phnum(f) \in Nat /\ Len(f.sym) \in Nat
  BY <1>1 DEF phnum
<1>3. \A k \in 1 .. phnum(f) : f.ph[k] \in Elf32_Phdr
  BY <1>1, ElementOfSeq, Zenon DEF phnum
<1>4. \A k \in 1 .. Len(f.sym) : f.sym[k] \in Elf32_Sym
  BY <1>1, ElementOfSeq, Zenon
<1>5. \A k \in 1 .. phnum(f) :
        /\ f.ph[k].offset \in Word /\ f.ph[k].vaddr \in Word
        /\ f.ph[k].filesz \in Word /\ f.ph[k].memsz \in Word
  BY <1>3 DEF Elf32_Phdr
<1>6. \A k \in 1 .. Len(f.sym) : f.sym[k].value \in Word
  BY <1>4 DEF Elf32_Sym
<1>7. shnum(f) \in Nat
  BY DEF Elf32_Ehdr, shnum
<1>8. \A k \in 1 .. shnum(f) : Elf32_Shdr(f.sh[k])
  BY DEF Elf32_Ehdr, shnum
<1>9. \A k \in 1 .. shnum(f) :
        /\ f.sh[k].link \in Word /\ f.sh[k].size \in Word
        /\ f.sh[k].entsize \in Word
  BY <1>8 DEF Elf32_Shdr
<1>10. f.size \in Word /\ f.entry \in Word /\ f.data \in [0 .. (f.size - 1) -> Byte]
  BY DEF Elf32_Ehdr
<1>11. f.size \in Nat /\ f.size < W
  BY <1>10, WordInt
<1> QED
  BY <1>2, <1>5, <1>6, <1>7, <1>9, <1>10, <1>11

\* Where a file's tables are, and how large their entries.
LEMMA TableFacts ==
  ASSUME NEW f, Elf32_Ehdr(f)
  PROVE  /\ f.phoff \in Word /\ f.phentsize \in Nat
         /\ f.shoff \in Word /\ f.shentsize \in Nat
BY DEF Elf32_Ehdr

\* The numbers of a section header.
LEMMA SectionFacts ==
  ASSUME NEW f, Elf32_Ehdr(f), NEW t \in 1 .. shnum(f)
  PROVE  /\ f.sh[t].offset \in Word /\ f.sh[t].size \in Word
         /\ f.sh[t].offset \in Nat /\ f.sh[t].size \in Nat
         /\ f.sh[t].entsize \in Nat
<1>1. Elf32_Shdr(f.sh[t])
  BY DEF Elf32_Ehdr, shnum
<1>2. {f.sh[t].offset, f.sh[t].size, f.sh[t].entsize} \subseteq Word
  BY <1>1 DEF Elf32_Shdr
<1> QED
  BY <1>2, WordInt

\* A sum of two words that does not wrap is what the code computes.
LEMMA EndSum ==
  ASSUME NEW x \in Word, NEW y \in Word
  PROVE  /\ End(x, y) \in Word /\ x + y \in Nat
         /\ x + y < W => End(x, y) = x + y
<1>1. x \in Nat /\ y \in Nat /\ x + y \in Int
  BY WordInt
<1>2. x + y < W => x + y \in Word
  BY <1>1, Sizes DEF Word
<1> QED
  BY <1>1, <1>2, UnsignedWord DEF End

\* Sizes of tables are numbers.
LEMMA ProductNat == ASSUME NEW x \in Nat, NEW y \in Nat PROVE x * y \in Nat
OBVIOUS

\* The entries of a table take no more than its size.
LEMMA DivBelow ==
  ASSUME NEW x \in Nat, NEW e \in Nat, e > 0
  PROVE  x \div e \in Nat /\ (x \div e) * e <= x
<1>1. x \div e \in Nat /\ x % e \in Nat /\ x = e * (x \div e) + (x % e)
  OBVIOUS
<1> DEFINE q == x \div e
<1>2. q \in Nat /\ e * q = q * e
  BY <1>1
<1> QED
  BY <1>1, <1>2

\* The k-th of m entries of e bytes ends where, or before, all of them end.
LEMMA EntryEnd ==
  ASSUME NEW m \in Nat, NEW e \in Nat, NEW k \in Nat, k < m
  PROVE  k * e \in Nat /\ m * e \in Nat /\ k * e + e <= m * e
<1>1. PICK d \in Nat : m = (k + 1) + d
  <2>1. m - (k + 1) \in Nat /\ m = (k + 1) + (m - (k + 1))
    OBVIOUS
  <2> QED
    BY <2>1
<1>2. k * e \in Nat /\ d * e \in Nat /\ m * e \in Nat
  OBVIOUS
<1>3. ((k + 1) + d) * e = (k * e + e) + d * e
  OBVIOUS
<1> QED
  BY <1>1, <1>2, <1>3

\* What is read at an entry is in the file, if the end of the table is, no sum
\* wraps around, and entries are no smaller than what is read.
LEMMA EntryInFile ==
  ASSUME NEW off \in Word, NEW m \in Nat, NEW e \in Nat, NEW k \in Nat, k < m,
         NEW size \in Nat, off + m * e < W, End(off, m * e) <= size,
         NEW t \in Nat, t <= e
  PROVE  End(off, k * e) + t <= size
<1>1. k * e \in Nat /\ m * e \in Nat /\ k * e + e <= m * e
  BY EntryEnd
<1> DEFINE low == k * e
           all == m * e
<1>2. low \in Nat /\ all \in Nat /\ low + e <= all
  BY <1>1
<1>3. off \in Nat /\ off + all < W /\ End(off, all) <= size
  BY WordInt
<1> HIDE DEF low, all
<1>4. low \in Word /\ all \in Word
  BY <1>2, <1>3, Sizes DEF Word
<1>5. End(off, all) = off + all
  BY <1>3, <1>4, EndSum
<1>6. off + low < W
  BY <1>2, <1>3, Sizes
<1>7. End(off, low) = off + low
  BY <1>4, <1>6, EndSum
<1>8. End(off, low) + t <= size
  BY <1>2, <1>3, <1>5, <1>7
<1> QED
  BY <1>8 DEF low

\* The headers of a file that has been checked can be read, unless they are open.
LEMMA HeadersInFile ==
  ASSUME Elf32_Ehdr(elf), check_eh_limits(elf)
  PROVE  /\ \A k \in 0 .. (phnum(elf) - 1) : \A field \in {"type", "filesz", "memsz"} :
              PhdrHas(elf, k, field) \/ PhdrsOpen
         /\ \A k \in 0 .. (shnum(elf) - 1) :
              \A field \in {"type", "offset", "size", "link", "entsize"} :
                ShdrHas(elf, k, field) \/ ShdrsOpen
<1>1. /\ phnum(elf) \in Nat /\ shnum(elf) \in Nat /\ elf.size \in Nat
      /\ elf.phoff \in Word /\ elf.phentsize \in Nat
      /\ elf.shoff \in Word /\ elf.shentsize \in Nat
  BY FileFacts, TableFacts
<1>2. /\ End(elf.phoff, phnum(elf) * elf.phentsize) <= elf.size
      /\ End(elf.shoff, shnum(elf) * elf.shentsize) <= elf.size
  BY DEF check_eh_limits
<1>3. ASSUME NEW k \in 0 .. (phnum(elf) - 1), NEW field \in {"type", "filesz", "memsz"},
             ~PhdrsOpen
      PROVE  PhdrHas(elf, k, field)
  <2>1. PhdrEnd[field] \in Nat /\ PhdrEnd[field] <= PhdrEnd.memsz
    BY FieldsAssumption
  <2>2. PhdrEnd.memsz <= elf.phentsize /\ elf.phoff + phnum(elf) * elf.phentsize < W
    BY <1>1, <1>3, FieldsAssumption, ProductNat, WordInt, Sizes DEF PhdrsOpen
  <2>3. k \in Nat /\ k < phnum(elf) /\ PhdrEnd[field] <= elf.phentsize
    BY <1>1, <2>1, <2>2, FieldsAssumption
  <2>4. End(elf.phoff, k * elf.phentsize) + PhdrEnd[field] <= elf.size
    BY <1>1, <1>2, <2>1, <2>2, <2>3, EntryInFile
  <2> QED
    BY <2>4 DEF PhdrHas
<1>4. ASSUME NEW k \in 0 .. (shnum(elf) - 1),
             NEW field \in {"type", "offset", "size", "link", "entsize"}, ~ShdrsOpen
      PROVE  ShdrHas(elf, k, field)
  <2>1. ShdrEnd[field] \in Nat /\ ShdrEnd[field] <= ShdrEnd.entsize
    BY FieldsAssumption
  <2>2. ShdrEnd.entsize <= elf.shentsize /\ elf.shoff + shnum(elf) * elf.shentsize < W
    BY <1>1, <1>4, FieldsAssumption, ProductNat, WordInt, Sizes DEF ShdrsOpen
  <2>3. k \in Nat /\ k < shnum(elf) /\ ShdrEnd[field] <= elf.shentsize
    BY <1>1, <2>1, <2>2, FieldsAssumption
  <2>4. End(elf.shoff, k * elf.shentsize) + ShdrEnd[field] <= elf.size
    BY <1>1, <1>2, <2>1, <2>2, <2>3, EntryInFile
  <2> QED
    BY <2>4 DEF ShdrHas
<1> QED
  BY <1>3, <1>4

\* A string cannot be told only if headers or a string table are open.
LEMMA StringInFile ==
  ASSUME Elf32_Ehdr(elf), check_eh_limits(elf), NEW k \in 0 .. (shnum(elf) - 1),
         NEW x, get_string(elf, k, x) = BEHIND
  PROVE  ShdrsOpen \/ StringsOpen
<1> DEFINE sec == elf.sh[k + 1]
<1>1. shnum(elf) \in Nat /\ k + 1 \in 1 .. shnum(elf)
  BY FileFacts
<1>2. \A i \in DOMAIN sec.strings : sec.strings[i] # BEHIND
  BY <1>1 DEF Elf32_Ehdr, Elf32_Shdr, shnum
<1>3. \/ ~ShdrHas(elf, k, "size") \/ ~ShdrHas(elf, k, "offset")
      \/ sec.type = "STRTAB" /\ sec.offset + sec.size > elf.size
  <2>1. NULL # BEHIND
    BY DEF NULL, BEHIND
  <2> QED
    BY <1>2, <2>1 DEF get_string
<1>4. ShdrHas(elf, k, "size") \/ ShdrsOpen
  BY HeadersInFile
<1>5. ShdrHas(elf, k, "offset") \/ ShdrsOpen
  BY HeadersInFile
<1> QED
  BY <1>1, <1>3, <1>4, <1>5 DEF StringsOpen

\* A symbol of a table is one of the file's, and what is read of it is in the
\* file unless the table is open.
LEMMA SymbolInFile ==
  ASSUME NEW f, Elf32_Ehdr(f), NEW t \in 1 .. shnum(f), f.sh[t].type = "SYMTAB",
         f.sh[t].entsize # 0, NEW k \in 1 .. nsyms(f.sh[t])
  PROVE  /\ nsyms(f.sh[t]) \in Nat /\ k \in 1 .. Len(f.sym)
         /\ \A field \in {"info", "shndx"} :
              /\ InFile(f, f.sh[t]) /\ f.sh[t].offset + f.sh[t].size < W
              /\ SymEnd[field] <= f.sh[t].entsize
              => SymHas(f, f.sh[t], k - 1, field)
<1> DEFINE tab == f.sh[t]
<1>1. /\ tab.size \in Nat /\ tab.size < W /\ tab.entsize \in Nat /\ tab.entsize > 0
      /\ tab.offset \in Word /\ tab.offset \in Nat /\ tab.size \in Word
      /\ f.size \in Nat
  <2>1. f.size \in Nat
    BY FileFacts
  <2>2. \A x \in Word : x < W
    BY WordInt
  <2> QED
    BY <2>1, <2>2, SectionFacts
<1>2. nsyms(tab) \in Nat /\ nsyms(tab) * tab.entsize <= tab.size
  <2> HIDE DEF tab
  <2>1. nsyms(tab) = tab.size \div tab.entsize
    BY DEF nsyms
  <2> QED
    BY <1>1, <2>1, DivBelow
<1>3. nsyms(tab) <= Len(f.sym)
  BY DEF Elf32_Ehdr, nsyms, shnum
<1>4. k \in 1 .. Len(f.sym)
  BY <1>2, <1>3, FileFacts
<1>5. ASSUME NEW field \in {"info", "shndx"}, InFile(f, tab),
             tab.offset + tab.size < W, SymEnd[field] <= tab.entsize
      PROVE  SymHas(f, tab, k - 1, field)
  <2>1. SymEnd[field] \in Nat /\ k - 1 \in Nat /\ k - 1 < nsyms(tab)
    BY <1>2, FieldsAssumption
  <2> DEFINE low == (k - 1) * tab.entsize
             all == nsyms(tab) * tab.entsize
  <2>2. low \in Nat /\ all \in Nat /\ low + tab.entsize <= all /\ all <= tab.size
    <3> HIDE DEF tab
    <3> QED
      BY <1>1, <1>2, <2>1, EntryEnd
  <2>3. End(tab.offset, tab.size) = tab.offset + tab.size
    BY <1>1, <1>5, EndSum
  <2>4. tab.offset + tab.size <= f.size
    BY <1>5, <2>3 DEF InFile
  <2> HIDE DEF low, all, tab
  <2>5. low \in Word /\ tab.offset + low < W
    BY <1>1, <1>5, <2>2, Sizes DEF Word
  <2>6. Unsigned(low) = low
    BY <2>2, <2>5, UnsignedWord
  <2>8. End(tab.offset, low) = tab.offset + low
    BY <1>1, <2>5, EndSum
  <2>7. End(tab.offset, Unsigned(low)) + SymEnd[field] <= f.size
    BY <1>1, <1>5, <2>1, <2>2, <2>4, <2>6, <2>8
  <2> QED
    BY <2>7 DEF SymHas, low
<1> QED
  BY <1>2, <1>4, <1>5

\* A symbol that is found is a global one of the name that was looked up; and
\* where the search meets the end of the file.
LEMMA SymbolFound ==
  ASSUME NEW f, Elf32_Ehdr(f), NEW t \in 1 .. shnum(f), f.sh[t].type = "SYMTAB",
         f.sh[t].entsize # 0, NEW str, NEW name,
         mips_elf_find_symbol(f, f.sh[t], str, name) # 0
  PROVE  LET s == mips_elf_find_symbol(f, f.sh[t], str, name)
         IN  /\ InFile(f, f.sh[t])
             /\ s = OUTSIDE =>
                  \E k \in 1 .. nsyms(f.sh[t]) :
                    \/ ~SymHas(f, f.sh[t], k - 1, "info")
                    \/ get_string(f, str, f.sym[k].name) = BEHIND
             /\ s # OUTSIDE =>
                  /\ s \in 1 .. nsyms(f.sh[t])
                  /\ f.sym[s].bind = "GLOBAL"
                  /\ mips_elf_get_symname(f, str, s) = name
<1> DEFINE tab        == f.sh[t]
           global(k)  == f.sym[k].bind = "GLOBAL"
           Named(k)   == get_string(f, str, f.sym[k].name)
           Fails(k)   == ~get_sym(f, tab, k - 1)
           Behind(k)  == \/ ~SymHas(f, tab, k - 1, "info")
                         \/ global(k) /\ Named(k) = BEHIND
           Stops(k)   == global(k) /\ Named(k) \in {NULL, name}
           ends       == {k \in 1 .. nsyms(tab) : Fails(k) \/ Behind(k) \/ Stops(k)}
           first      == CHOOSE k \in ends : \A j \in ends : k <= j
           s          == mips_elf_find_symbol(f, tab, str, name)
<1>1. nsyms(tab) \in Nat
  <2>1. tab.size \in Nat /\ tab.entsize \in Nat /\ tab.entsize > 0
    BY SectionFacts
  <2> QED
    BY <2>1 DEF nsyms
<1>2. s = CASE ~InFile(f, tab) \/ ends = {} \/ Fails(first) -> 0
            [] InFile(f, tab) /\ ends # {} /\ ~Fails(first) /\ Behind(first) -> OUTSIDE
            [] OTHER -> IF Named(first) = name THEN first ELSE 0
  BY DEF mips_elf_find_symbol
<1>3. /\ InFile(f, tab) /\ ends # {} /\ ~Fails(first)
      /\ Behind(first) => s = OUTSIDE
      /\ ~Behind(first) => s = first /\ Named(first) = name
  <2> HIDE DEF first, Fails, Behind, Named, ends, s
  <2> QED
    BY <1>2 DEF s
<1>4. first \in ends
  <2>1. ends \in SUBSET Nat
    BY <1>1
  <2> HIDE DEF ends
  <2>2. \E k \in ends : \A j \in ends : k <= j
    BY <1>3, <2>1, LeastElement
  <2> QED
    BY <2>2
<1> HIDE DEF first
<1>5. first \in 1 .. nsyms(tab) /\ (Behind(first) \/ Stops(first))
  BY <1>3, <1>4
<1>6. first # OUTSIDE
  BY <1>1, <1>5 DEF OUTSIDE
<1> HIDE DEF s
<1>7. s = OUTSIDE =>
        \E k \in 1 .. nsyms(tab) : ~SymHas(f, tab, k - 1, "info") \/ Named(k) = BEHIND
  BY <1>3, <1>5, <1>6
<1>8. s # OUTSIDE => s \in 1 .. nsyms(tab) /\ global(s) /\ Named(s) = name
  BY <1>3, <1>5
<1> QED
  BY <1>3, <1>7, <1>8 DEF mips_elf_get_symname, s

----------------------------------------------------------------------------
(* One segment.                                                            *)

\* What the checks and the copy of segment h together guarantee.
Fits(h) ==
  /\ h.memsz >= h.filesz /\ h.filesz % 4 = 0 /\ h.memsz % 4 = 0
  /\ h.filesz > 0 => h.offset + h.filesz <= elf.size
  /\ h.memsz > 0 => h.vaddr >= LowBase /\ h.vaddr + h.memsz <= SegmentLimit
  /\ h.filesz < h.memsz => h.vaddr % 4 = 0

\* A segment whose sums do not wrap passes the checks only if it fits.
LEMMA NoWrapNoHarm ==
  ASSUME NEW h, Accepted(h), elf.size \in Nat,
         h.offset \in Word, h.vaddr \in Word, h.filesz \in Word, h.memsz \in Word,
         h.offset + h.filesz < W, h.vaddr + h.memsz < W,
         h.filesz < h.memsz => h.vaddr % 4 = 0
  PROVE  ~Escapes(h) /\ ~ZeroThrows(h)
<1>1. /\ h.offset + h.filesz <= elf.size /\ h.vaddr + h.memsz <= SegmentLimit
      /\ h.vaddr >= LowBase /\ h.memsz >= h.filesz
  BY EndSum DEF Accepted
<1>2. /\ h.offset \in Nat /\ h.vaddr \in Nat /\ h.filesz \in Nat /\ h.memsz \in Nat
      /\ SegmentLimit <= MemSz /\ MemSz \in Nat /\ SegmentLimit \in Int
      /\ LowBase \in Nat
  BY WordInt, MemFacts DEF SegmentLimit
<1>3. ~Escapes(h)
  BY <1>1, <1>2 DEF Escapes
<1>4. ASSUME NEW k \in h.filesz .. (h.memsz - 1), k % 4 = 0
      PROVE  Valid(Unsigned(h.vaddr + k), 4)
  <2>1. h.vaddr + k \in Nat /\ h.vaddr + k < MemSz /\ h.vaddr + k >= LowBase
    BY <1>1, <1>2
  <2>2. Unsigned(h.vaddr + k) = h.vaddr + k
    BY <2>1, MemFacts, Sizes, UnsignedWord DEF Word
  <2>3. h.vaddr % 4 = 0
    BY <1>2
  <2>4. (h.vaddr + k) % 4 = 0
    BY <1>2, <1>4, <2>3
  <2> QED
    BY <2>1, <2>2, <2>4 DEF Valid
<1> QED
  BY <1>3, <1>4 DEF ZeroThrows

(***************************************************************************)
(* A segment that is copied fits, whatever the fields are: if the sum of   *)
(* its address and its size wraps, one of its zeros is poked at the first  *)
(* word behind the memory, and that throws.                                *)
(***************************************************************************)
LEMMA CopiedFits ==
  ASSUME NEW h, Accepted(h), ~Escapes(h), ~ZeroThrows(h), elf.size \in Nat,
         h.offset \in Word, h.vaddr \in Word, h.filesz \in Word, h.memsz \in Word
  PROVE  Fits(h)
<1>1. /\ h.offset \in Nat /\ h.vaddr \in Nat /\ h.filesz \in Nat /\ h.memsz \in Nat
      /\ h.vaddr < W /\ h.memsz < W
      /\ SegmentLimit < MemSz + 1 /\ MemSz \in Nat /\ MemSz % 4 = 0
      /\ SegmentLimit \in Int /\ MemSz + 4 < W /\ W \in Nat
  BY WordInt, MemFacts, Sizes DEF SegmentLimit
<1>2. /\ h.memsz >= h.filesz /\ h.filesz % 4 = 0 /\ h.memsz % 4 = 0
      /\ h.vaddr >= LowBase
      /\ h.vaddr + h.memsz < W => h.vaddr + h.memsz <= SegmentLimit
  BY EndSum DEF Accepted
<1>3. h.filesz > 0 => /\ h.offset + h.filesz <= elf.size
                      /\ h.vaddr + h.filesz <= MemSz
  BY <1>1 DEF Escapes
<1>4. \A k \in h.filesz .. (h.memsz - 1) :
        k % 4 = 0 => Valid(Unsigned(h.vaddr + k), 4)
  BY DEF ZeroThrows
<1>5. \A z \in Nat : z < W => Unsigned(z) = z
  BY Sizes, UnsignedWord DEF Word
<1>6. ASSUME h.filesz < h.memsz
      PROVE  h.vaddr % 4 = 0 /\ h.vaddr + h.memsz < W
  <2>1. h.filesz \in h.filesz .. (h.memsz - 1)
    BY <1>1, <1>6
  <2>2. Valid(Unsigned(h.vaddr + h.filesz), 4)
    BY <1>2, <1>4, <2>1
  <2>3. h.vaddr + h.filesz < W
    BY <1>1, <1>3
  <2>4. h.vaddr + h.filesz < MemSz /\ (h.vaddr + h.filesz) % 4 = 0
    BY <1>1, <1>5, <2>2, <2>3 DEF Valid
  <2>5. h.vaddr % 4 = 0
    BY <1>1, <1>2, <2>4
  <2>6. ASSUME h.vaddr + h.memsz >= W PROVE FALSE
    <3> DEFINE k == MemSz - h.vaddr
    <3>1. k \in h.filesz .. (h.memsz - 1)
      BY <1>1, <2>4, <2>6
    <3>2. k % 4 = 0
      BY <1>1, <2>5
    <3>3. Valid(Unsigned(h.vaddr + k), 4)
      BY <1>4, <3>1, <3>2
    <3>4. h.vaddr + k = MemSz
      BY <1>1
    <3>5. Unsigned(h.vaddr + k) = MemSz
      BY <1>1, <1>5, <3>4
    <3> QED
      BY <1>1, <3>3, <3>5 DEF Valid
  <2> QED
    BY <1>1, <2>5, <2>6
<1>7. h.filesz = h.memsz /\ h.memsz > 0 => h.vaddr + h.memsz < W
  BY <1>1, <1>3
<1>8. h.memsz > 0 => h.vaddr + h.memsz <= SegmentLimit
  BY <1>1, <1>2, <1>6, <1>7
<1> QED
  BY <1>2, <1>3, <1>6, <1>8 DEF Fits

\* The byte of the memory at x, as it is stored.
Stored(x) == Bytes(mem[WordOf(x)])[x % 4]

\* A byte of the memory is the byte of a word.
LEMMA MemoryByte ==
  ASSUME NEW x \in 0 .. (MemSz - 1)
  PROVE  /\ WordOf(x) \in WordAddrs /\ x % 4 \in 0 .. 3
         /\ x = WordOf(x) + (x % 4)
         /\ mem \in [WordAddrs -> Word] => Stored(x) \in Byte
<1>1. WordOf(x) \in WordAddrs /\ x % 4 \in 0 .. 3 /\ x = WordOf(x) + (x % 4)
  BY MemFacts DEF WordOf, WordAddrs
<1>2. mem \in [WordAddrs -> Word] => Stored(x) \in Byte
  BY <1>1, BytesType DEF Stored
<1> QED
  BY <1>1, <1>2

\* What load_segment stores: the data of the file, zeros of the vector behind
\* it, and nothing else.
LEMMA SegmentBytes ==
  ASSUME NEW h, mem \in [WordAddrs -> Word], elf.size \in Nat,
         \A x \in 0 .. (elf.size - 1) : elf.data[x] \in Byte,
         h.offset \in Word, h.vaddr \in Word, h.filesz \in Word, h.memsz \in Word,
         h.filesz > 0 => h.offset + h.filesz <= elf.size
  PROVE  /\ WithSegment(h) \in [WordAddrs -> Word]
         /\ \A x \in 0 .. (MemSz - 1) :
              Bytes(WithSegment(h)[WordOf(x)])[x % 4] =
                LET k == x - h.vaddr
                IN  IF 0 <= k /\ k < h.filesz THEN elf.data[h.offset + k]
                    ELSE IF h.filesz <= k /\ k < h.memsz THEN Bytes(Zero)[x % 4]
                    ELSE Stored(x)
<1> DEFINE new(x) ==
             LET k == x - h.vaddr
             IN  IF 0 <= k /\ k < h.filesz THEN elf.data[h.offset + k]
                 ELSE IF h.filesz <= k /\ k < h.memsz THEN Bytes(Zero)[x % 4]
                 ELSE Stored(x)
           word(a) == [k \in 0 .. 3 |-> new(a + k)]
<1>1. /\ h.offset \in Nat /\ h.vaddr \in Nat /\ h.filesz \in Nat /\ h.memsz \in Nat
  BY WordInt
<1>2. Zero \in Word
  <2>1. 0 \in Word
    BY Sizes DEF Word
  <2> QED
    BY <2>1, CipherAssumption DEF Zero
<1>3. ASSUME NEW x \in 0 .. (MemSz - 1) PROVE new(x) \in Byte
  <2>1. Bytes(Zero)[x % 4] \in Byte
    BY <1>2, BytesType, OffsetType
  <2>2. Stored(x) \in Byte
    BY MemoryByte
  <2>3. 0 <= x - h.vaddr /\ x - h.vaddr < h.filesz
          => h.offset + (x - h.vaddr) \in 0 .. (elf.size - 1)
    BY <1>1, MemFacts
  <2> HIDE DEF Stored, Zero
  <2> QED
    BY <2>1, <2>2, <2>3
<1>4. \A a \in WordAddrs : WithSegment(h)[a] = FromBytes(word(a))
  <2> DEFINE ByteOf(x) ==
               LET k == x - h.vaddr
               IN  CASE 0 <= k /\ k < h.filesz -> elf.data[h.offset + k]
                     [] h.filesz <= k /\ k < h.memsz -> Bytes(Zero)[x % 4]
                     [] OTHER -> Bytes(mem[WordOf(x)])[x % 4]
  <2>1. \A a \in WordAddrs :
          WithSegment(h)[a] = FromBytes([k \in 0 .. 3 |-> ByteOf(a + k)])
    BY DEF WithSegment
  <2>2. \A x \in Int : ByteOf(x) = new(x)
    <3> HIDE DEF Zero
    <3> QED
      BY <1>1 DEF Stored
  <2>3. \A a \in WordAddrs : \A k \in 0 .. 3 : a + k \in Int
    BY DEF WordAddrs
  <2> HIDE DEF ByteOf, new
  <2>4. \A a \in WordAddrs : [k \in 0 .. 3 |-> ByteOf(a + k)] = word(a)
    BY <2>2, <2>3
  <2> HIDE DEF word
  <2> QED
    BY <2>1, <2>4
<1>5. ASSUME NEW a \in WordAddrs
      PROVE  word(a) \in [0 .. 3 -> Byte]
  <2>1. \A k \in 0 .. 3 : a + k \in 0 .. (MemSz - 1)
    BY MemFacts DEF WordAddrs
  <2> HIDE DEF new
  <2> QED
    BY <1>3, <2>1
<1>6. WithSegment(h) \in [WordAddrs -> Word]
  <2> HIDE DEF word
  <2>1. \A a \in WordAddrs : WithSegment(h)[a] \in Word
    BY <1>4, <1>5, FromBytesWord
  <2> QED
    BY <2>1 DEF WithSegment
<1>7. ASSUME NEW x \in 0 .. (MemSz - 1)
      PROVE  Bytes(WithSegment(h)[WordOf(x)])[x % 4] = new(x)
  <2>1. WordOf(x) \in WordAddrs /\ x % 4 \in 0 .. 3 /\ x = WordOf(x) + (x % 4)
    BY MemoryByte
  <2>2. Bytes(WithSegment(h)[WordOf(x)]) = word(WordOf(x))
    <3> HIDE DEF word
    <3> QED
      BY <1>4, <1>5, <2>1, BytesOfFromBytes
  <2> HIDE DEF new
  <2> QED
    BY <2>1, <2>2
<1> QED
  BY <1>6, <1>7

----------------------------------------------------------------------------
(* The inductive invariant of the loader.                                  *)

FileOK ==
  /\ Elf32_Ehdr(elf) /\ mem0 \in [WordAddrs -> Word]
  /\ key \in {"none", "good", "bad"}

\* Header k is of a segment that holds the byte at x, and what it holds.
Covers(k, x) ==
  /\ elf.ph[k].type = "LOAD"
  /\ elf.ph[k].vaddr <= x /\ x < elf.ph[k].vaddr + elf.ph[k].memsz

KeyZero == IF key = "good" THEN Enc(0) ELSE 0

SegmentByte(k, x) ==
  LET h == elf.ph[k]
  IN  IF x - h.vaddr < h.filesz THEN elf.data[h.offset + (x - h.vaddr)]
      ELSE Bytes(KeyZero)[x % 4]

\* The segments loaded so far fit, and the memory is what they make of it.
SegmentsFit == \A k \in 1 .. seg : elf.ph[k].type = "LOAD" => Fits(elf.ph[k])

MemorySoFar ==
  \A x \in 0 .. (MemSz - 1) :
    /\ (\A k \in 1 .. seg : ~Covers(k, x)) => Stored(x) = Bytes(mem0[WordOf(x)])[x % 4]
    /\ \A k \in 1 .. seg :
         Covers(k, x) /\ (\A j \in (k + 1) .. seg : ~Covers(j, x)) =>
           Stored(x) = SegmentByte(k, x)

SegmentsOK == SegmentsFit /\ MemorySoFar

\* What the steps before have left for the steps after them.
StagesOK ==
  /\ hi = 0 /\ lo = 0 /\ delay_slot = 0 /\ exn = "OK"
  /\ stage # "ready" => r = [k \in Regs |-> 0]
  /\ stage \in {"read", "key"} => vector = "identity"
  /\ stage \in {"read", "key", "header"} => seg = 0
  /\ stage \in {"header", "segments"} =>
       vector = IF key = "good" THEN "rc5" ELSE "identity"
  /\ stage \in {"segments", "symbols", "ready"} => check_eh_limits(elf)
  /\ stage \in {"symbols", "ready"} =>
       /\ seg = phnum(elf)
       /\ symtab \in 0 .. (shnum(elf) - 1) /\ Symtab.type = "SYMTAB"
       /\ symstr \in 0 .. (shnum(elf) - 1)
  /\ stage = "ready" => Symtab.entsize # 0 /\ InFile(elf, Symtab)

ReadyOK == ReadyIsLoaded /\ StartFromGlobals

LoaderInv ==
  FileOK /\ LoadTypeOK /\ SegmentsOK /\ StagesOK /\ ReadyOK /\ ChecksSuffice

\* The loader starts in the invariant.
LEMMA LoadStartInv ==
  ASSUME NEW f, Elf32_Ehdr(f), LoadStart(f) PROVE LoaderInv
<1>1. FileOK /\ LoadTypeOK
  <2>1. 0 \in Word
    BY Sizes DEF Word
  <2>2. mem \in [WordAddrs -> Word]
    BY <2>1, StaleAssumption DEF LoadStart
  <2>3. phnum(elf) \in Nat /\ shnum(elf) \in Nat
    BY FileFacts DEF LoadStart
  <2>4. TypeOK
    BY <2>1, <2>2 DEF TypeOK, LoadStart
  <2> QED
    BY <2>1, <2>2, <2>3, <2>4 DEF FileOK, LoadTypeOK, LoadStart, Stages
<1>2. SegmentsOK
  <2>1. seg = 0 /\ mem = mem0
    BY DEF LoadStart
  <2> QED
    BY <2>1 DEF SegmentsOK, SegmentsFit, MemorySoFar, Stored
<1>3. StagesOK /\ ReadyOK /\ ChecksSuffice
  BY DEF LoadStart, StagesOK, ReadyOK, ReadyIsLoaded, StartFromGlobals, ChecksSuffice
<1> QED
  BY <1>1, <1>2, <1>3 DEF LoaderInv

\* A step that only moves on, before the memory is touched, preserves it.
LEMMA MoveInv ==
  ASSUME LoaderInv, read_elf \/ SetVector \/ CheckHeader PROVE LoaderInv'
<1>1. UNCHANGED <<elf, key, mem0, mem, seg, symtab, symstr, r, hi, lo, pc,
                  delay_slot, exn, brk>>
  BY DEF read_elf, SetVector, CheckHeader, KeepRegisters, KeepFile
<1>2. /\ stage' \in {"key", "header", "segments", "exit", "undefined"}
      /\ stage \in {"read", "key", "header"}
      /\ vector' \in {"identity", "rc5"}
  BY DEF read_elf, SetVector, CheckHeader, LoaderInv, LoadTypeOK
<1>3. FileOK' /\ LoadTypeOK'
  BY <1>1, <1>2 DEF LoaderInv, FileOK, LoadTypeOK, TypeOK, Stages
<1>4. SegmentsOK'
  BY <1>1 DEF LoaderInv, SegmentsOK, SegmentsFit, MemorySoFar, Fits, Covers,
              SegmentByte, KeyZero, Stored
<1>5. StagesOK'
  <2>1. CASE read_elf
    BY <1>1, <2>1 DEF LoaderInv, StagesOK, read_elf
  <2>2. CASE SetVector
    BY <1>1, <2>2 DEF LoaderInv, StagesOK, SetVector
  <2>3. CASE CheckHeader
    BY <1>1, <2>3 DEF LoaderInv, StagesOK, CheckHeader
  <2> QED
    BY <2>1, <2>2, <2>3
<1>6. ReadyOK' /\ ChecksSuffice'
  <2>1. stage' = "undefined" => elf.size < EhdrSize
    BY DEF read_elf, SetVector, CheckHeader
  <2> QED
    BY <1>1, <1>2, <2>1 DEF ReadyOK, ReadyIsLoaded, StartFromGlobals, ChecksSuffice
<1> QED
  BY <1>3, <1>4, <1>5, <1>6 DEF LoaderInv

\* A segment that is copied extends the memory by what its header says.
LEMMA CopyInv ==
  ASSUME LoaderInv, stage = "segments", seg < phnum(elf),
         elf.ph[seg + 1].type = "LOAD", Fits(elf.ph[seg + 1]),
         mem' = WithSegment(elf.ph[seg + 1]), seg' = seg + 1,
         UNCHANGED <<elf, key, mem0>>
  PROVE  mem' \in [WordAddrs -> Word] /\ SegmentsOK'
<1> DEFINE h == elf.ph[seg + 1]
<1>1. /\ seg \in Nat /\ phnum(elf) \in Nat /\ seg + 1 \in 1 .. phnum(elf)
      /\ mem \in [WordAddrs -> Word] /\ elf.size \in Nat
  BY FileFacts DEF LoaderInv, LoadTypeOK, TypeOK, FileOK
<1>2. /\ h.offset \in Word /\ h.vaddr \in Word /\ h.filesz \in Word
      /\ h.memsz \in Word /\ \A x \in 0 .. (elf.size - 1) : elf.data[x] \in Byte
  BY <1>1, FileFacts DEF LoaderInv, FileOK
<1>3. /\ h.offset \in Nat /\ h.vaddr \in Nat /\ h.filesz \in Nat /\ h.memsz \in Nat
      /\ h.memsz >= h.filesz
      /\ h.filesz > 0 => h.offset + h.filesz <= elf.size
  BY <1>2, WordInt DEF Fits
<1>4. Zero = KeyZero /\ KeyZero' = KeyZero
  BY DEF Zero, KeyZero, LoaderInv, StagesOK
<1>5. /\ WithSegment(h) \in [WordAddrs -> Word]
      /\ \A x \in 0 .. (MemSz - 1) :
           Bytes(WithSegment(h)[WordOf(x)])[x % 4] =
             LET k == x - h.vaddr
             IN  IF 0 <= k /\ k < h.filesz THEN elf.data[h.offset + k]
                 ELSE IF h.filesz <= k /\ k < h.memsz THEN Bytes(Zero)[x % 4]
                 ELSE Stored(x)
  <2> HIDE DEF h
  <2> QED
    BY <1>1, <1>2, <1>3, SegmentBytes
<1>6. ASSUME NEW x \in 0 .. (MemSz - 1)
      PROVE  /\ Covers(seg + 1, x) => Stored(x)' = SegmentByte(seg + 1, x)
             /\ ~Covers(seg + 1, x) => Stored(x)' = Stored(x)
  <2> DEFINE k == x - h.vaddr
             new == IF 0 <= k /\ k < h.filesz THEN elf.data[h.offset + k]
                    ELSE IF h.filesz <= k /\ k < h.memsz THEN Bytes(Zero)[x % 4]
                    ELSE Stored(x)
  <2>1. Stored(x)' = new
    BY <1>5 DEF Stored
  <2>2. x \in Int /\ k \in Int /\ x = h.vaddr + k
    BY <1>3
  <2>3. Covers(seg + 1, x) <=> 0 <= k /\ k < h.memsz
    BY <1>3, <2>2 DEF Covers
  <2>4. SegmentByte(seg + 1, x) =
          IF k < h.filesz THEN elf.data[h.offset + k] ELSE Bytes(Zero)[x % 4]
    BY <1>4 DEF SegmentByte
  <2> HIDE DEF k, h
  <2> QED
    BY <1>3, <2>1, <2>2, <2>3, <2>4
<1>7. /\ \A k, x : Covers(k, x)' = Covers(k, x)
      /\ \A k, x : SegmentByte(k, x)' = SegmentByte(k, x)
  BY <1>4 DEF Covers, SegmentByte
<1>8. MemorySoFar'
  <2> SUFFICES ASSUME NEW x \in 0 .. (MemSz - 1)
               PROVE  /\ (\A k \in 1 .. (seg + 1) : ~Covers(k, x)) =>
                           Stored(x)' = Bytes(mem0[WordOf(x)])[x % 4]
                      /\ \A k \in 1 .. (seg + 1) :
                           Covers(k, x) /\ (\A j \in (k + 1) .. (seg + 1) : ~Covers(j, x))
                             => Stored(x)' = SegmentByte(k, x)
    BY <1>7 DEF MemorySoFar
  <2>1. /\ (\A k \in 1 .. seg : ~Covers(k, x)) =>
             Stored(x) = Bytes(mem0[WordOf(x)])[x % 4]
        /\ \A k \in 1 .. seg :
             Covers(k, x) /\ (\A j \in (k + 1) .. seg : ~Covers(j, x)) =>
               Stored(x) = SegmentByte(k, x)
    BY DEF LoaderInv, SegmentsOK, MemorySoFar
  <2>2. CASE Covers(seg + 1, x)
    <3>1. ASSUME NEW k \in 1 .. (seg + 1), \A j \in (k + 1) .. (seg + 1) : ~Covers(j, x)
          PROVE  k = seg + 1
      BY <1>1, <2>2, <3>1
    <3> QED
      BY <1>1, <1>6, <2>2, <3>1
  <2>3. CASE ~Covers(seg + 1, x)
    <3>1. Stored(x)' = Stored(x)
      BY <1>6, <2>3
    <3>2. ASSUME NEW k \in 1 .. (seg + 1), Covers(k, x),
                 \A j \in (k + 1) .. (seg + 1) : ~Covers(j, x)
          PROVE  k \in 1 .. seg /\ \A j \in (k + 1) .. seg : ~Covers(j, x)
      <4>1. k # seg + 1
        BY <2>3, <3>2
      <4> QED
        BY <1>1, <3>2, <4>1
    <3>3. (\A k \in 1 .. (seg + 1) : ~Covers(k, x)) => \A k \in 1 .. seg : ~Covers(k, x)
      BY <1>1
    <3> QED
      BY <2>1, <3>1, <3>2, <3>3
  <2> QED
    BY <2>2, <2>3
<1>9. SegmentsFit'
  <2>1. \A g : Fits(g)' = Fits(g)
    BY DEF Fits
  <2>2. \A k \in 1 .. seg : elf.ph[k].type = "LOAD" => Fits(elf.ph[k])
    BY DEF LoaderInv, SegmentsOK, SegmentsFit
  <2>3. \A k \in 1 .. (seg + 1) : k \in 1 .. seg \/ k = seg + 1
    BY <1>1
  <2>4. \A k \in 1 .. (seg + 1) : elf.ph[k].type = "LOAD" => Fits(elf.ph[k])
    BY <2>2, <2>3
  <2> QED
    BY <2>1, <2>4 DEF SegmentsFit
<1> QED
  BY <1>5, <1>8, <1>9 DEF SegmentsOK

\* One turn of load_segments preserves the invariant.
LEMMA SegmentInv == ASSUME LoaderInv, load_segment PROVE LoaderInv'
<1> DEFINE h == elf.ph[seg + 1]
<1>1. /\ stage = "segments" /\ seg < phnum(elf) /\ stage' \in {"segments", "exit", "undefined"}
      /\ UNCHANGED <<elf, key, mem0, vector, symtab, symstr, r, hi, lo, pc,
                     delay_slot, exn, brk>>
  BY DEF load_segment, KeepRegisters, KeepFile
<1>2. /\ seg \in Nat /\ phnum(elf) \in Nat /\ seg + 1 \in 1 .. phnum(elf)
      /\ elf.size \in Nat /\ mem \in [WordAddrs -> Word]
  BY <1>1, FileFacts DEF LoaderInv, LoadTypeOK, FileOK, TypeOK
<1>3. /\ h.offset \in Word /\ h.vaddr \in Word /\ h.filesz \in Word
      /\ h.memsz \in Word
  BY <1>2, FileFacts DEF LoaderInv, FileOK
<1>4. \/ stage' = "exit" /\ UNCHANGED <<mem, seg>>
      \/ h.type = "NULL" /\ seg' = seg + 1 /\ UNCHANGED <<mem, stage>>
      \/ /\ \/ PhdrBehind(seg)
            \/ Accepted(h) /\ (Escapes(h) \/ ZeroThrows(h))
         /\ stage' = "undefined" /\ UNCHANGED <<mem, seg>>
      \/ /\ h.type = "LOAD" /\ Accepted(h) /\ ~Escapes(h) /\ ~ZeroThrows(h)
         /\ mem' = WithSegment(h) /\ seg' = seg + 1 /\ UNCHANGED stage
  BY DEF load_segment
<1>5. mem' \in [WordAddrs -> Word] /\ SegmentsOK' /\ seg' \in 0 .. phnum(elf)
  <2>1. CASE UNCHANGED <<mem, seg>>
    BY <1>1, <1>2, <2>1 DEF LoaderInv, SegmentsOK, SegmentsFit, MemorySoFar, Fits,
                            Covers, SegmentByte, KeyZero, Stored, LoadTypeOK
  <2>2. CASE h.type = "NULL" /\ seg' = seg + 1 /\ UNCHANGED <<mem, stage>>
    <3>1. \A x : ~Covers(seg + 1, x)
      BY <2>2 DEF Covers
    <3>2. /\ \A k, x : Covers(k, x)' = Covers(k, x)
          /\ \A k, x : SegmentByte(k, x)' = SegmentByte(k, x)
          /\ \A x : Stored(x)' = Stored(x) /\ mem0' = mem0
          /\ \A g : Fits(g)' = Fits(g)
      BY <1>1, <2>2 DEF Covers, SegmentByte, KeyZero, Stored, Fits
    <3>3. SegmentsFit'
      BY <1>1, <1>2, <2>2, <3>2 DEF LoaderInv, SegmentsOK, SegmentsFit
    <3>4. MemorySoFar'
      <4> SUFFICES ASSUME NEW x \in 0 .. (MemSz - 1)
                   PROVE  /\ (\A k \in 1 .. (seg + 1) : ~Covers(k, x)) =>
                               Stored(x) = Bytes(mem0[WordOf(x)])[x % 4]
                          /\ \A k \in 1 .. (seg + 1) :
                               Covers(k, x) /\ (\A j \in (k + 1) .. (seg + 1) : ~Covers(j, x))
                                 => Stored(x) = SegmentByte(k, x)
        BY <2>2, <3>2 DEF MemorySoFar
      <4>1. \A k \in 1 .. (seg + 1) : Covers(k, x) => k \in 1 .. seg
        BY <1>2, <3>1
      <4>2. \A k \in 1 .. seg : k \in 1 .. (seg + 1)
        BY <1>2
      <4>3. \A k \in 1 .. seg : \A j \in (k + 1) .. seg : j \in (k + 1) .. (seg + 1)
        BY <1>2
      <4> QED
        BY <4>1, <4>2, <4>3 DEF LoaderInv, SegmentsOK, MemorySoFar
    <3> QED
      BY <1>2, <2>2, <3>3, <3>4, <1>1 DEF SegmentsOK
  <2>3. CASE /\ h.type = "LOAD" /\ Accepted(h) /\ ~Escapes(h) /\ ~ZeroThrows(h)
             /\ mem' = WithSegment(h) /\ seg' = seg + 1 /\ UNCHANGED stage
    <3>1. Fits(h)
      <4> HIDE DEF h
      <4> QED
        BY <1>2, <1>3, <2>3, CopiedFits
    <3> QED
      BY <1>1, <1>2, <2>3, <3>1, CopyInv
  <2> QED
    BY <1>4, <2>1, <2>2, <2>3
<1>6. FileOK' /\ LoadTypeOK'
  BY <1>1, <1>5 DEF LoaderInv, FileOK, LoadTypeOK, TypeOK, Stages
<1>7. StagesOK'
  BY <1>1 DEF LoaderInv, StagesOK
<1>8. ReadyOK'
  BY <1>1 DEF ReadyOK, ReadyIsLoaded, StartFromGlobals
<1>9. ChecksSuffice'
  <2>1. ASSUME Accepted(h), Escapes(h) \/ ZeroThrows(h)
        PROVE  SegmentOpen(h)
    <3>1. /\ h.offset + h.filesz \in Int /\ h.vaddr + h.memsz \in Int /\ W \in Int
      BY <1>3, WordInt, Sizes
    <3> HIDE DEF h
    <3> QED
      BY <1>2, <1>3, <2>1, <3>1, NoWrapNoHarm DEF SegmentOpen
  <2>2. ASSUME PhdrBehind(seg) PROVE PhdrsOpen
    <3>1. Elf32_Ehdr(elf) /\ check_eh_limits(elf) /\ seg \in 0 .. (phnum(elf) - 1)
      BY <1>1, <1>2 DEF LoaderInv, FileOK, StagesOK
    <3>2. \A field \in {"type", "filesz", "memsz"} : PhdrHas(elf, seg, field) \/ PhdrsOpen
      BY <3>1, HeadersInFile
    <3> QED
      BY <2>2, <3>2 DEF PhdrBehind
  <2>3. stage' = "undefined" => /\ UNCHANGED seg
                                /\ PhdrsOpen \/ SegmentOpen(h)
    BY <1>1, <1>4, <2>1, <2>2
  <2>4. PhdrsOpen' = PhdrsOpen
    BY <1>1 DEF PhdrsOpen
  <2>5. stage' = "undefined" => seg' < phnum(elf') /\ SegmentOpen(h)' = SegmentOpen(h)
    BY <1>1, <2>3 DEF SegmentOpen
  <2> QED
    BY <2>3, <2>4, <2>5 DEF ChecksSuffice
<1> QED
  BY <1>5, <1>6, <1>7, <1>8, <1>9 DEF LoaderInv

\* The symbol table and its strings are sections of the file.
LEMMA SymtabInv == ASSUME LoaderInv, get_symtab PROVE LoaderInv'
<1>1. /\ stage = "segments" /\ seg = phnum(elf)
      /\ stage' \in {"symbols", "exit", "undefined"}
      /\ UNCHANGED <<elf, key, mem0, mem, seg, vector, r, hi, lo, pc,
                     delay_slot, exn, brk>>
  BY DEF get_symtab, KeepRegisters, KeepFile
<1>2. shnum(elf) \in Nat
  BY FileFacts DEF LoaderInv, FileOK
<1>3. \/ /\ stage' = "symbols"
         /\ symtab' \in 0 .. (shnum(elf) - 1) /\ symstr' \in 0 .. (shnum(elf) - 1)
         /\ elf.sh[symtab' + 1].type = "SYMTAB"
      \/ stage' \in {"exit", "undefined"} /\ UNCHANGED <<symtab, symstr>>
  <2>1. ASSUME NEW k \in SymtabSections, IsSymtab(k), symtab' = k,
               symstr' = elf.sh[k + 1].link, stage' = "symbols"
        PROVE  /\ symtab' \in 0 .. (shnum(elf) - 1)
               /\ symstr' \in 0 .. (shnum(elf) - 1)
               /\ elf.sh[symtab' + 1].type = "SYMTAB"
    <3>1. k \in 0 .. (shnum(elf) - 1) /\ elf.sh[k + 1].type = "SYMTAB"
      BY DEF SymtabSections, SymtabsBelow
    <3>2. k + 1 \in 1 .. shnum(elf)
      BY <1>2, <3>1
    <3>3. elf.sh[k + 1].link \in Nat
      BY <3>2, FileFacts, WordInt DEF LoaderInv, FileOK
    <3>4. elf.sh[k + 1].link < shnum(elf)
      BY <2>1 DEF IsSymtab, get_shdr
    <3> QED
      BY <1>2, <2>1, <3>1, <3>3, <3>4
  <2> QED
    BY <2>1 DEF get_symtab
<1>4. FileOK' /\ LoadTypeOK'
  BY <1>1, <1>2, <1>3 DEF LoaderInv, FileOK, LoadTypeOK, TypeOK, Stages
<1>5. SegmentsOK'
  BY <1>1 DEF LoaderInv, SegmentsOK, SegmentsFit, MemorySoFar, Fits, Covers,
              SegmentByte, KeyZero, Stored
<1>6. StagesOK'
  BY <1>1, <1>3 DEF LoaderInv, StagesOK, Symtab
<1>7. Elf32_Ehdr(elf) /\ check_eh_limits(elf)
  BY <1>1 DEF LoaderInv, FileOK, StagesOK
<1>8. \A k \in 0 .. (shnum(elf) - 1) :
        \A field \in {"type", "link"} : ShdrHas(elf, k, field) \/ ShdrsOpen
  BY <1>7, HeadersInFile
<1>9. ASSUME LoopBehind PROVE ShdrsOpen
  BY <1>8, <1>9 DEF LoopBehind, ShdrRead
<1>10. ASSUME NEW k \in SymtabSections, SymtabBehind(k)
       PROVE  ShdrsOpen \/ StringsOpen
  <2>1. k \in 0 .. (shnum(elf) - 1) /\ elf.shstrndx \in 0 .. (shnum(elf) - 1)
    <3>1. elf.shstrndx \in Nat /\ elf.shstrndx < shnum(elf)
      BY <1>7 DEF Elf32_Ehdr, check_eh_limits
    <3> QED
      BY <1>2, <3>1 DEF SymtabSections, SymtabsBelow
  <2>2. ASSUME NEW m, SectionName(m) = BEHIND PROVE ShdrsOpen \/ StringsOpen
    BY <1>7, <2>1, <2>2, StringInFile DEF SectionName
  <2> QED
    BY <1>8, <1>10, <2>1, <2>2 DEF SymtabBehind
<1>11. ReadyOK' /\ ChecksSuffice'
  <2>1. stage' = "undefined" => ShdrsOpen \/ StringsOpen
    BY <1>9, <1>10 DEF get_symtab
  <2>2. ShdrsOpen' = ShdrsOpen /\ StringsOpen' = StringsOpen
    BY <1>1 DEF ShdrsOpen, StringsOpen
  <2> QED
    BY <1>1, <2>1, <2>2 DEF ReadyOK, ReadyIsLoaded, StartFromGlobals, ChecksSuffice
<1> QED
  BY <1>4, <1>5, <1>6, <1>11 DEF LoaderInv

\* A symbol cannot be told only if headers, strings or the table are open.
LEMMA SymbolOpen ==
  ASSUME LoaderInv, stage = "symbols", Symtab.entsize # 0,
         NEW name, SymbolBehind(Symbol(name))
  PROVE  ShdrsOpen \/ StringsOpen \/ SymbolsOpen
<1> DEFINE s == Symbol(name)
<1>1. /\ symtab \in 0 .. (shnum(elf) - 1) /\ symstr \in 0 .. (shnum(elf) - 1)
      /\ Symtab.type = "SYMTAB" /\ Elf32_Ehdr(elf) /\ check_eh_limits(elf)
  BY DEF LoaderInv, StagesOK, FileOK
<1>2. symtab + 1 \in 1 .. shnum(elf)
  BY <1>1, FileFacts
<1>3. Symtab = elf.sh[symtab + 1]
  BY DEF Symtab
<1>4. s # 0
  BY DEF SymbolBehind, OUTSIDE
<1>5. /\ InFile(elf, Symtab)
      /\ s = OUTSIDE =>
           \E k \in 1 .. nsyms(Symtab) :
             \/ ~SymHas(elf, Symtab, k - 1, "info")
             \/ get_string(elf, symstr, elf.sym[k].name) = BEHIND
      /\ s # OUTSIDE => s \in 1 .. nsyms(Symtab)
  <2>1. s = mips_elf_find_symbol(elf, elf.sh[symtab + 1], symstr, name)
    BY <1>3 DEF Symbol
  <2> HIDE DEF s
  <2>2. mips_elf_find_symbol(elf, elf.sh[symtab + 1], symstr, name) # 0
    BY <1>4, <2>1
  <2> QED
    BY <1>1, <1>2, <1>3, <2>1, <2>2, SymbolFound
<1>6. ASSUME NEW k \in 1 .. nsyms(Symtab), NEW field \in {"info", "shndx"},
             ~SymHas(elf, Symtab, k - 1, field)
      PROVE  SymbolsOpen
  <2>1. ~(Symtab.offset + Symtab.size < W) \/ ~(SymEnd[field] <= Symtab.entsize)
    BY <1>1, <1>2, <1>3, <1>5, <1>6, SymbolInFile
  <2>2. /\ Symtab.offset \in Nat /\ Symtab.size \in Nat /\ Symtab.entsize \in Nat
        /\ W \in Nat
    BY <1>1, <1>2, <1>3, SectionFacts, Sizes
  <2>3. SymEnd[field] \in Nat /\ SymEnd.shndx \in Nat /\ SymEnd[field] <= SymEnd.shndx
    BY FieldsAssumption
  <2> QED
    BY <2>1, <2>2, <2>3 DEF SymbolsOpen
<1>7. CASE s = OUTSIDE
  <2>1. PICK k \in 1 .. nsyms(Symtab) :
          \/ ~SymHas(elf, Symtab, k - 1, "info")
          \/ get_string(elf, symstr, elf.sym[k].name) = BEHIND
    BY <1>5, <1>7
  <2>2. CASE ~SymHas(elf, Symtab, k - 1, "info")
    BY <1>6, <2>2
  <2>3. CASE get_string(elf, symstr, elf.sym[k].name) = BEHIND
    BY <1>1, <2>3, StringInFile
  <2> QED
    BY <2>1, <2>2, <2>3
<1>8. CASE s # OUTSIDE
  <2>1. s \in 1 .. nsyms(Symtab) /\ ~SymHas(elf, Symtab, s - 1, "shndx")
    BY <1>5, <1>8 DEF SymbolBehind
  <2> QED
    BY <1>6, <2>1
<1> QED
  BY <1>7, <1>8

\* The registers of a CPU that is ready come from global symbols and are those
\* the engine starts with.
LEMMA RegistersInv == ASSUME LoaderInv, SetRegisters PROVE LoaderInv'
<1> DEFINE gp  == Symbol("_gp")
           end == Symbol("_end")
<1>1. /\ stage = "symbols" /\ stage' \in {"ready", "exit", "killed", "undefined"}
      /\ UNCHANGED <<elf, key, mem0, mem, seg, vector, symtab, symstr, hi, lo,
                     delay_slot, exn>>
  BY DEF SetRegisters, KeepRegisters, KeepFile
<1>2. \/ stage' # "ready" /\ UNCHANGED <<r, pc, brk>>
      \/ /\ stage' = "ready" /\ Symtab.entsize # 0
         /\ Absolute(gp) /\ Absolute(end) /\ InProgram(elf.entry)
         /\ brk' = elf.sym[end].value /\ pc' = elf.entry
         /\ r' = [k \in Regs |-> CASE k = 28 -> elf.sym[gp].value
                                   [] k = 29 -> MemSz - 4
                                   [] k = RA -> 0
                                   [] OTHER  -> r[k]]
  BY DEF SetRegisters, KeepRegisters
<1>3. /\ seg = phnum(elf) /\ symtab \in 0 .. (shnum(elf) - 1)
      /\ symstr \in 0 .. (shnum(elf) - 1)
      /\ Symtab.type = "SYMTAB" /\ r = [k \in Regs |-> 0]
      /\ hi = 0 /\ lo = 0 /\ delay_slot = 0 /\ exn = "OK"
  BY <1>1 DEF LoaderInv, StagesOK
<1>4. shnum(elf) \in Nat /\ Elf32_Ehdr(elf) /\ elf.entry \in Word
  BY FileFacts DEF LoaderInv, FileOK
<1>8. Elf32_Ehdr(elf) /\ check_eh_limits(elf)
  BY <1>1 DEF LoaderInv, FileOK, StagesOK
<1>5. ASSUME NEW name, Symtab.entsize # 0, Absolute(Symbol(name))
      PROVE  /\ Symbol(name) \in 1 .. Len(elf.sym)
             /\ elf.sym[Symbol(name)].bind = "GLOBAL"
             /\ mips_elf_get_symname(elf, symstr, Symbol(name)) = name
             /\ elf.sym[Symbol(name)].value \in Word
             /\ InProgram(elf.sym[Symbol(name)].value)
             /\ InFile(elf, Symtab)
  <2>1. symtab + 1 \in 1 .. shnum(elf)
    BY <1>3, <1>4
  <2>2. Symbol(name) # 0 /\ Symbol(name) # OUTSIDE
    BY <1>5 DEF Absolute, OUTSIDE
  <2>3. /\ Symbol(name) \in 1 .. Len(elf.sym)
        /\ elf.sym[Symbol(name)].bind = "GLOBAL"
        /\ mips_elf_get_symname(elf, symstr, Symbol(name)) = name
    <3>1. Symbol(name) = mips_elf_find_symbol(elf, elf.sh[symtab + 1], symstr, name)
      BY DEF Symbol, Symtab
    <3>2. elf.sh[symtab + 1].type = "SYMTAB" /\ elf.sh[symtab + 1].entsize # 0
      BY <1>3, <1>5 DEF Symtab
    <3>3. /\ Symbol(name) \in 1 .. nsyms(elf.sh[symtab + 1])
          /\ elf.sym[Symbol(name)].bind = "GLOBAL"
          /\ mips_elf_get_symname(elf, symstr, Symbol(name)) = name
      BY <1>4, <2>1, <2>2, <3>1, <3>2, SymbolFound
    <3> QED
      BY <1>4, <2>1, <3>2, <3>3, SymbolInFile
  <2>4. InFile(elf, Symtab)
    <3>1. Symbol(name) = mips_elf_find_symbol(elf, elf.sh[symtab + 1], symstr, name)
      BY DEF Symbol, Symtab
    <3>2. elf.sh[symtab + 1].type = "SYMTAB" /\ elf.sh[symtab + 1].entsize # 0
      BY <1>3, <1>5 DEF Symtab
    <3> QED
      BY <1>4, <2>1, <2>2, <3>1, <3>2, SymbolFound DEF Symtab
  <2> QED
    BY <1>4, <1>5, <2>3, <2>4, FileFacts DEF Absolute
<1>6. CASE stage' = "ready"
  <2> DEFINE gpv  == elf.sym[gp].value
             endv == elf.sym[end].value
  <2>1. /\ r' = [k \in Regs |-> CASE k = 28 -> gpv
                                  [] k = 29 -> MemSz - 4
                                  [] OTHER  -> 0]
        /\ brk' = endv /\ pc' = elf.entry
    <3>1. /\ brk' = endv /\ pc' = elf.entry
          /\ r' = [k \in Regs |-> CASE k = 28 -> gpv
                                    [] k = 29 -> MemSz - 4
                                    [] k = RA -> 0
                                    [] OTHER  -> r[k]]
      BY <1>2, <1>6
    <3> HIDE DEF gpv, endv
    <3> QED
      BY <1>3, <3>1 DEF RA
  <2>2. /\ gpv \in Word /\ InProgram(gpv) /\ endv \in Word /\ InProgram(endv)
        /\ InProgram(elf.entry)
    BY <1>2, <1>5, <1>6
  <2>3. r'[28] = gpv
    <3> HIDE DEF gpv
    <3> QED
      BY <2>1, LoaderRegs
  <2>4. 0 \in Word /\ MemSz - 4 \in Word
    <3>1. MemSz - 4 >= 0
      BY MemFacts
    <3> QED
      BY <3>1, MemFacts, Sizes DEF Word
  <2>5. LoadTypeOK'
    <3>1. r' \in [Regs -> Word]
      <4> HIDE DEF gpv
      <4> QED
        BY <2>1, <2>2, <2>4
    <3> QED
      BY <1>1, <1>4, <2>1, <2>2, <3>1 DEF LoaderInv, LoadTypeOK, TypeOK, Stages
  <2>6. ReadyIsLoaded'
    <3>1. \A v \in Word : InProgram(v) => v \in LowBase .. (MemSz - StkSz - 1)
      BY WordInt, MemFacts DEF InProgram, SegmentLimit
    <3>2. pc' \in LowBase .. (MemSz - StkSz - 1) /\ r'[28] \in LowBase .. (MemSz - StkSz - 1)
          /\ brk' \in LowBase .. (MemSz - StkSz - 1)
      <4> HIDE DEF gpv, endv
      <4> QED
        BY <1>4, <2>1, <2>2, <2>3, <3>1
    <3>3. Loaded([image |-> mem, entry |-> elf.entry, gp |-> r[28]])'
      <4> HIDE DEF gpv, endv
      <4> QED
        BY <1>1, <1>3, <2>1, <2>3 DEF Loaded
    <3> QED
      BY <3>2, <3>3 DEF ReadyIsLoaded
  <2>7. StartFromGlobals'
    <3>1. /\ gp \in 1 .. Len(elf.sym) /\ elf.sym[gp].bind = "GLOBAL"
          /\ mips_elf_get_symname(elf, symstr, gp) = "_gp"
          /\ end \in 1 .. Len(elf.sym) /\ elf.sym[end].bind = "GLOBAL"
          /\ mips_elf_get_symname(elf, symstr, end) = "_end"
      BY <1>2, <1>5, <1>6
    <3>2. symstr' = symstr
      BY <1>1
    <3> HIDE DEF gp, end
    <3> QED
      BY <1>1, <2>1, <2>3, <3>1, <3>2 DEF StartFromGlobals
  <2>8. StagesOK'
    <3>1. Symtab' = Symtab /\ elf' = elf
      BY <1>1 DEF Symtab
    <3>2. Symtab.entsize # 0 /\ InFile(elf, Symtab)
      BY <1>2, <1>5, <1>6
    <3> QED
      BY <1>1, <1>3, <1>6, <1>8, <3>1, <3>2 DEF StagesOK
  <2> QED
    BY <2>5, <2>6, <2>7, <2>8, <1>1, <1>6
    DEF LoaderInv, FileOK, SegmentsOK, SegmentsFit, MemorySoFar, Fits, Covers,
        SegmentByte, KeyZero, Stored, ReadyOK, ChecksSuffice
<1>7. CASE stage' # "ready"
  <2>1. UNCHANGED <<r, pc, brk>> /\ stage' \in {"exit", "killed", "undefined"}
    BY <1>1, <1>2, <1>7
  <2>2. FileOK' /\ LoadTypeOK' /\ SegmentsOK'
    BY <1>1, <2>1
    DEF LoaderInv, FileOK, LoadTypeOK, TypeOK, Stages, SegmentsOK, SegmentsFit,
        MemorySoFar, Fits, Covers, SegmentByte, KeyZero, Stored
  <2>3. StagesOK' /\ ReadyOK'
    BY <1>1, <1>3, <2>1
    DEF StagesOK, ReadyOK, ReadyIsLoaded, StartFromGlobals
  <2>4. stage' = "undefined" => ShdrsOpen \/ StringsOpen \/ SymbolsOpen
    <3>1. CASE ~ShdrHas(elf, symtab, "entsize")
      BY <1>3, <1>8, <3>1, HeadersInFile
    <3>2. CASE Symtab.entsize # 0 /\ (SymbolBehind(gp) \/ SymbolBehind(end))
      <4> HIDE DEF gp, end
      <4> QED
        BY <1>1, <3>2, SymbolOpen DEF gp, end
    <3> QED
      BY <3>1, <3>2 DEF SetRegisters
  <2>5. /\ ShdrsOpen' = ShdrsOpen /\ StringsOpen' = StringsOpen
        /\ SymbolsOpen' = SymbolsOpen
    BY <1>1 DEF ShdrsOpen, StringsOpen, SymbolsOpen, Symtab
  <2>6. ChecksSuffice'
    <3>1. symtab' # -1 /\ seg' = phnum(elf')
      BY <1>1, <1>3, <1>4
    <3> QED
      BY <2>4, <2>5, <3>1 DEF ChecksSuffice
  <2> QED
    BY <2>2, <2>3, <2>6 DEF LoaderInv
<1> QED
  BY <1>6, <1>7

\* Every step of the loader preserves the invariant.
LEMMA LoadNextInv == LoaderInv /\ [LoadNext]_evars => LoaderInv'
<1> SUFFICES ASSUME LoaderInv, [LoadNext]_evars PROVE LoaderInv'
  OBVIOUS
<1>1. CASE read_elf \/ SetVector \/ CheckHeader
  BY <1>1, MoveInv
<1>2. CASE load_segment
  BY <1>2, SegmentInv
<1>3. CASE get_symtab
  BY <1>3, SymtabInv
<1>4. CASE SetRegisters
  BY <1>4, RegistersInv
<1>5. CASE UNCHANGED evars
  BY <1>5 DEF evars, vars, LoaderInv, FileOK, LoadTypeOK, TypeOK, SegmentsOK,
              SegmentsFit, MemorySoFar, Fits, Covers, SegmentByte, KeyZero, Stored,
              StagesOK, Symtab, ReadyOK, ReadyIsLoaded, Loaded, StartFromGlobals,
              ChecksSuffice, PhdrsOpen, ShdrsOpen, StringsOpen, SymbolsOpen,
              SegmentOpen
<1> QED
  BY <1>1, <1>2, <1>3, <1>4, <1>5 DEF LoadNext, LoadDone

----------------------------------------------------------------------------
(* Encryption.                                                             *)

\* A block of a file is a word.
LEMMA FileWordType ==
  ASSUME NEW f, f.size \in Nat, \A x \in 0 .. (f.size - 1) : f.data[x] \in Byte,
         NEW q \in Nat, q + 4 <= f.size
  PROVE  /\ FileWord(f, q) \in Word
         /\ \A b \in 0 .. 3 : Bytes(FileWord(f, q))[b] = f.data[q + b]
<1> DEFINE w == [b \in 0 .. 3 |-> f.data[q + b]]
<1>1. \A b \in 0 .. 3 : q + b \in 0 .. (f.size - 1)
  OBVIOUS
<1>2. w \in [0 .. 3 -> Byte]
  BY <1>1
<1>3. \A b \in 0 .. 3 : w[b] = f.data[q + b]
  OBVIOUS
<1>4. FileWord(f, q) = FromBytes(w)
  BY DEF FileWord
<1> HIDE DEF w
<1> QED
  BY <1>2, <1>3, <1>4, FromBytesWord, BytesOfFromBytes

\* Blocks of a segment that starts at an offset are apart.
LEMMA BlocksApart ==
  ASSUME NEW h, h.offset \in Word, h.filesz \in Word
  PROVE  /\ \A q \in Blocks(h) : q \in Nat /\ q >= h.offset
                                   /\ q < h.offset + h.filesz
         /\ \A p, q \in Blocks(h) : p # q => p + 4 <= q \/ q + 4 <= p
         /\ h.filesz % 4 = 0 => \A q \in Blocks(h) : q + 4 <= h.offset + h.filesz
<1>1. h.offset \in Nat /\ h.filesz \in Nat
  BY WordInt
<1>2. ASSUME NEW q \in Blocks(h)
      PROVE  \E m \in Nat : q = h.offset + 4 * m /\ 4 * m < h.filesz
  BY WordInt DEF Blocks
<1>3. \A q \in Blocks(h) : q \in Nat /\ q >= h.offset /\ q < h.offset + h.filesz
  BY <1>1, <1>2
<1>4. ASSUME NEW p \in Blocks(h), NEW q \in Blocks(h), p # q
      PROVE  p + 4 <= q \/ q + 4 <= p
  <2>1. PICK m \in Nat : q = h.offset + 4 * m /\ 4 * m < h.filesz
    BY <1>2
  <2>2. PICK k \in Nat : p = h.offset + 4 * k /\ 4 * k < h.filesz
    BY <1>2
  <2> QED
    BY <1>1, <1>4, <2>1, <2>2
<1>5. ASSUME h.filesz % 4 = 0, NEW q \in Blocks(h)
      PROVE  q + 4 <= h.offset + h.filesz
  <2>1. PICK m \in Nat : q = h.offset + 4 * m /\ 4 * m < h.filesz
    BY <1>2
  <2> QED
    BY <1>1, <1>5, <2>1
<1> QED
  BY <1>3, <1>4, <1>5

\* crypt_segment encrypts the blocks of a segment and changes nothing else.
LEMMA CryptEffect ==
  ASSUME Elf32_Ehdr(elf), NEW k \in 1 .. phnum(elf),
         \A q \in Blocks(elf.ph[k]) : q + 4 <= elf.size
  PROVE  /\ crypt_segment(elf.ph[k]) \in [0 .. (elf.size - 1) -> Byte]
         /\ \A q \in Blocks(elf.ph[k]) : \A b \in 0 .. 3 :
              crypt_segment(elf.ph[k])[q + b] = Bytes(Enc(FileWord(elf, q)))[b]
         /\ \A x \in 0 .. (elf.size - 1) :
              (\A q \in Blocks(elf.ph[k]) : x < q \/ q + 4 <= x) =>
                crypt_segment(elf.ph[k])[x] = elf.data[x]
<1> DEFINE h == elf.ph[k]
           new(x) == IF \E q \in Blocks(h) : q <= x /\ x < q + 4
                     THEN LET q == CHOOSE q \in Blocks(h) : q <= x /\ x < q + 4
                          IN  Bytes(Enc(FileWord(elf, q)))[x - q]
                     ELSE elf.data[x]
<1>1. /\ elf.size \in Nat /\ \A x \in 0 .. (elf.size - 1) : elf.data[x] \in Byte
      /\ h.offset \in Word /\ h.filesz \in Word
      /\ DOMAIN elf.data = 0 .. (elf.size - 1)
  BY FileFacts DEF Elf32_Ehdr
<1>2. /\ \A q \in Blocks(h) : q \in Nat
      /\ \A p, q \in Blocks(h) : p # q => p + 4 <= q \/ q + 4 <= p
  <2> HIDE DEF h
  <2> QED
    BY <1>1, BlocksApart
<1>3. crypt_segment(h) = [x \in 0 .. (elf.size - 1) |-> new(x)]
  BY <1>1 DEF crypt_segment
<1>4. \A q \in Blocks(h) : Enc(FileWord(elf, q)) \in Word
  BY <1>1, <1>2, FileWordType, CipherAssumption
<1>5. ASSUME NEW x \in 0 .. (elf.size - 1), NEW q \in Blocks(h), q <= x, x < q + 4
      PROVE  new(x) = Bytes(Enc(FileWord(elf, q)))[x - q] /\ x - q \in 0 .. 3
  <2>1. \A p \in Blocks(h) : p <= x /\ x < p + 4 => p = q
    BY <1>2, <1>5
  <2>2. (CHOOSE p \in Blocks(h) : p <= x /\ x < p + 4) = q
    BY <1>5, <2>1
  <2>3. new(x) = Bytes(Enc(FileWord(elf, q)))[x - q]
    BY <1>5, <2>2
  <2> QED
    BY <1>2, <1>5, <2>3
<1>6. ASSUME NEW x \in 0 .. (elf.size - 1),
             \A q \in Blocks(h) : x < q \/ q + 4 <= x
      PROVE  new(x) = elf.data[x]
  <2>1. ~ \E q \in Blocks(h) : q <= x /\ x < q + 4
    BY <1>2, <1>6
  <2> QED
    BY <2>1
<1>7. ASSUME NEW x \in 0 .. (elf.size - 1) PROVE new(x) \in Byte
  <2>1. CASE \E q \in Blocks(h) : q <= x /\ x < q + 4
    <3>1. PICK q \in Blocks(h) : q <= x /\ x < q + 4
      BY <2>1
    <3>2. new(x) = Bytes(Enc(FileWord(elf, q)))[x - q] /\ x - q \in 0 .. 3
      BY <1>5, <3>1
    <3> HIDE DEF new
    <3> QED
      BY <1>4, <3>2, BytesType
  <2>2. CASE ~ \E q \in Blocks(h) : q <= x /\ x < q + 4
    BY <1>1, <2>2
  <2> QED
    BY <2>1, <2>2
<1>8. \A q \in Blocks(h) : \A b \in 0 .. 3 :
        /\ q + b \in 0 .. (elf.size - 1) /\ q <= q + b /\ q + b < q + 4
        /\ (q + b) - q = b
  BY <1>1, <1>2
<1> HIDE DEF new
<1>9. crypt_segment(h) \in [0 .. (elf.size - 1) -> Byte]
  BY <1>3, <1>7
<1>10. ASSUME NEW q \in Blocks(h), NEW b \in 0 .. 3
       PROVE  crypt_segment(h)[q + b] = Bytes(Enc(FileWord(elf, q)))[b]
  <2>1. /\ q + b \in 0 .. (elf.size - 1) /\ q <= q + b /\ q + b < q + 4
        /\ (q + b) - q = b
    BY <1>8
  <2>2. new(q + b) = Bytes(Enc(FileWord(elf, q)))[(q + b) - q]
    BY <1>5, <2>1
  <2>3. crypt_segment(h)[q + b] = new(q + b)
    BY <1>3, <2>1
  <2> QED
    BY <2>1, <2>2, <2>3
<1>11. ASSUME NEW x \in 0 .. (elf.size - 1),
              \A q \in Blocks(h) : x < q \/ q + 4 <= x
       PROVE  crypt_segment(h)[x] = elf.data[x]
  BY <1>3, <1>6, <1>11
<1> QED
  BY <1>9, <1>10, <1>11

\* Where the tool is, and what is left of the file it was given.
ToolInv ==
  /\ tool \in {"unused", "check", "crypt", "write", "written",
               "exit", "nothing", "undefined"}
  /\ n \in Nat /\ n <= phnum(elf)
  /\ Elf32_Ehdr(plain) /\ plain.ph = elf.ph /\ plain.size = elf.size
  /\ tool = "check" => n = 0
  /\ tool \in {"write", "written"} => n = phnum(elf)
  /\ tool \notin {"unused", "written"} => stage = "read"
  /\ tool # "unused" => key = "good"

Aligned == \A m \in 1 .. phnum(plain) : plain.ph[m].filesz % 4 = 0

\* The blocks of the segments before header n, and only they, are encrypted.
BlocksSoFar ==
  Encryptable /\ Aligned =>
    \A m \in 1 .. phnum(plain) : \A q \in Blocks(plain.ph[m]) :
      /\ m <= n => q + 4 <= plain.size
      /\ q + 4 <= plain.size =>
           FileWord(elf, q) = IF m <= n THEN Enc(FileWord(plain, q))
                              ELSE FileWord(plain, q)

CryptInv == LoaderInv /\ ToolInv /\ BlocksSoFar

\* The bytes of the file may change before the loader has read it.
LEMMA DataInv ==
  ASSUME LoaderInv, stage = "read", KeepLoader, NEW d \in [0 .. (elf.size - 1) -> Byte],
         elf' = [elf EXCEPT !.data = d]
  PROVE  /\ LoaderInv'
         /\ elf'.data = d /\ elf'.ph = elf.ph /\ elf'.size = elf.size
<1>1. /\ UNCHANGED <<r, hi, lo, pc, delay_slot, mem, exn, key, stage, seg, vector,
                     symtab, symstr, brk, mem0>>
  BY DEF KeepLoader, vars
<1>2. Elf32_Ehdr(elf)
  BY DEF LoaderInv, FileOK
<1>3. /\ elf'.data = d /\ elf'.ident = elf.ident /\ elf'.phoff = elf.phoff
      /\ elf'.shoff = elf.shoff /\ elf'.entry = elf.entry
      /\ elf'.phentsize = elf.phentsize /\ elf'.shentsize = elf.shentsize
      /\ elf'.shstrndx = elf.shstrndx /\ elf'.size = elf.size
      /\ elf'.ph = elf.ph /\ elf'.sh = elf.sh /\ elf'.sym = elf.sym
      /\ DOMAIN elf' = DOMAIN elf
  BY <1>2 DEF Elf32_Ehdr
<1>4. Elf32_Ehdr(elf')
  BY <1>2, <1>3 DEF Elf32_Ehdr
<1>5. FileOK' /\ LoadTypeOK'
  BY <1>1, <1>3, <1>4 DEF LoaderInv, FileOK, LoadTypeOK, TypeOK, phnum, shnum
<1>6. seg = 0 /\ seg' = 0
  BY <1>1 DEF LoaderInv, StagesOK
<1>7. SegmentsOK'
  BY <1>1, <1>6 DEF LoaderInv, SegmentsOK, SegmentsFit, MemorySoFar, Stored
<1>8. StagesOK'
  BY <1>1 DEF LoaderInv, StagesOK
<1>9. ReadyOK' /\ ChecksSuffice'
  BY <1>1 DEF ReadyOK, ReadyIsLoaded, StartFromGlobals, ChecksSuffice
<1> QED
  BY <1>3, <1>5, <1>7, <1>8, <1>9 DEF LoaderInv

\* A turn of the loop encrypts the blocks of header n, and no block of another
\* header if the segments are apart.
LEMMA TurnInv == ASSUME CryptInv, CryptTurn PROVE CryptInv'
<1> DEFINE h == elf.ph[n + 1]
<1>1. /\ tool = "crypt" /\ stage = "read" /\ n < phnum(elf)
      /\ KeepLoader /\ UNCHANGED <<plain, key, stage>>
  BY DEF CryptTurn, CryptInv, ToolInv, KeepLoader
<1>2. /\ Elf32_Ehdr(elf) /\ Elf32_Ehdr(plain) /\ plain.ph = elf.ph
      /\ plain.size = elf.size /\ n \in Nat /\ phnum(elf) \in Nat
      /\ phnum(plain) = phnum(elf) /\ n + 1 \in 1 .. phnum(elf)
  BY <1>1, FileFacts DEF CryptInv, ToolInv, LoaderInv, FileOK, phnum
<1>3. \/ elf.ph[1].type # "LOAD" /\ n' = n + 1 /\ UNCHANGED <<elf, tool>>
      \/ tool' \in {"exit", "undefined"} /\ UNCHANGED <<elf, n>>
      \/ /\ \A q \in Blocks(h) : q + 4 <= elf.size
         /\ elf' = [elf EXCEPT !.data = crypt_segment(h)]
         /\ n' = n + 1 /\ UNCHANGED tool
  <2>1. \A q \in Blocks(h) : q \in Nat
    <3>1. h.offset \in Word /\ h.filesz \in Word
      BY <1>2, FileFacts
    <3> HIDE DEF h
    <3> QED
      BY <3>1, BlocksApart
  <2>2. elf.size \in Nat
    BY <1>2, FileFacts
  <2>3. ASSUME ~TurnBehind, elf.ph[1].type = "LOAD",
               End(elf.ph[1].offset, elf.ph[1].filesz) < elf.size,
               elf.ph[1].filesz % 4 = 0, elf.ph[1].memsz % 4 = 0
        PROVE  \A q \in Blocks(h) : q + 4 <= elf.size
    <3>1. \A q \in Blocks(h) : ~(q + 4 > elf.size)
      BY <2>3 DEF TurnBehind
    <3> HIDE DEF h
    <3> QED
      BY <2>1, <2>2, <3>1
  <2> QED
    BY <2>3 DEF CryptTurn
<1>4. CASE \/ elf.ph[1].type # "LOAD" /\ n' = n + 1 /\ UNCHANGED <<elf, tool>>
           \/ tool' \in {"exit", "undefined"} /\ UNCHANGED <<elf, n>>
  <2>1. UNCHANGED evars
    BY <1>1, <1>4 DEF KeepLoader, evars
  <2>2. LoaderInv'
    BY <2>1, LoadNextInv DEF CryptInv
  <2>3. ToolInv'
    BY <1>1, <1>2, <1>4 DEF CryptInv, ToolInv
  <2>4. BlocksSoFar'
    <3>1. CASE UNCHANGED n
      BY <1>1, <1>4, <3>1
      DEF CryptInv, BlocksSoFar, Encryptable, Aligned, FileWord, Blocks
    <3>2. CASE elf.ph[1].type # "LOAD"
      <4>1. ~Encryptable
        BY <1>2, <3>2 DEF Encryptable
      <4> QED
        BY <1>1, <4>1 DEF BlocksSoFar, Encryptable
    <3> QED
      BY <1>4, <3>1, <3>2
  <2> QED
    BY <2>2, <2>3, <2>4 DEF CryptInv
<1>5. CASE /\ \A q \in Blocks(h) : q + 4 <= elf.size
           /\ elf' = [elf EXCEPT !.data = crypt_segment(h)]
           /\ n' = n + 1 /\ UNCHANGED tool
  <2>1. /\ crypt_segment(h) \in [0 .. (elf.size - 1) -> Byte]
        /\ \A q \in Blocks(h) : \A b \in 0 .. 3 :
             crypt_segment(h)[q + b] = Bytes(Enc(FileWord(elf, q)))[b]
        /\ \A x \in 0 .. (elf.size - 1) :
             (\A q \in Blocks(h) : x < q \/ q + 4 <= x) =>
               crypt_segment(h)[x] = elf.data[x]
    BY <1>2, <1>5, CryptEffect
  <2> DEFINE d == crypt_segment(h)
  <2>2. /\ LoaderInv' /\ elf'.data = d /\ elf'.ph = elf.ph /\ elf'.size = elf.size
    <3> HIDE DEF d
    <3>1. elf' = [elf EXCEPT !.data = d] /\ d \in [0 .. (elf.size - 1) -> Byte]
      BY <1>5, <2>1 DEF d
    <3> QED
      BY <1>1, <3>1, DataInv DEF CryptInv
  <2>3. ToolInv'
    BY <1>1, <1>2, <1>5, <2>2 DEF CryptInv, ToolInv, phnum
  <2>4. ASSUME Encryptable, Aligned,
               NEW m \in 1 .. phnum(plain), NEW q \in Blocks(plain.ph[m])
        PROVE  /\ m <= n + 1 => q + 4 <= plain.size
               /\ q + 4 <= plain.size =>
                    FileWord(elf', q) = IF m <= n + 1 THEN Enc(FileWord(plain, q))
                                        ELSE FileWord(plain, q)
    <3>1. /\ m <= n => q + 4 <= plain.size
          /\ q + 4 <= plain.size =>
               FileWord(elf, q) = IF m <= n THEN Enc(FileWord(plain, q))
                                  ELSE FileWord(plain, q)
      BY <2>4 DEF CryptInv, BlocksSoFar
    <3>2. \A k \in 1 .. phnum(plain) :
            plain.ph[k].offset \in Word /\ plain.ph[k].filesz \in Word
      BY <1>2, FileFacts
    <3>3. \A k \in 1 .. phnum(plain) :
            /\ plain.ph[k].filesz % 4 = 0
            /\ plain.ph[k].offset \in Nat /\ plain.ph[k].filesz \in Nat
            /\ \A p \in Blocks(plain.ph[k]) :
                 /\ p \in Nat /\ p >= plain.ph[k].offset
                 /\ p + 4 <= plain.ph[k].offset + plain.ph[k].filesz
      BY <2>4, <3>2, BlocksApart, WordInt DEF Aligned
    <3>4. q \in Nat /\ h = plain.ph[n + 1] /\ n + 1 \in 1 .. phnum(plain)
          /\ m \in Nat /\ elf.size \in Nat
      BY <1>2, <3>3, FileFacts
    <3>5. \A b \in 0 .. 3 : q + 4 <= plain.size => q + b \in 0 .. (elf.size - 1)
      BY <1>2, <3>4
    <3> HIDE DEF h, d
    <3>6. CASE m = n + 1
      <4>1. q + 4 <= plain.size /\ q \in Blocks(h)
        BY <1>2, <1>5, <2>4, <3>4, <3>6
      <4>2. FileWord(elf, q) = FileWord(plain, q)
        BY <3>1, <3>4, <3>6, <4>1, <1>2
      <4>3. FileWord(elf, q) \in Word
        BY <1>2, <3>4, <4>1, FileFacts, FileWordType
      <4>4. Enc(FileWord(elf, q)) \in Word
        BY <4>3, CipherAssumption
      <4>5. \A b \in 0 .. 3 : elf'.data[q + b] = Bytes(Enc(FileWord(elf, q)))[b]
        BY <2>1, <2>2, <4>1 DEF d
      <4>6. FileWord(elf', q) = FromBytes(Bytes(Enc(FileWord(elf, q))))
        BY <4>5 DEF FileWord, FromBytes
      <4>7. FileWord(elf', q) = Enc(FileWord(elf, q))
        BY <4>4, <4>6, FromBytesOfBytes
      <4> QED
        BY <1>2, <3>4, <3>6, <4>1, <4>2, <4>7
    <3>7. CASE m # n + 1
      <4>1. \A p \in Blocks(h) : q + 4 <= p \/ p + 4 <= q
        <5>1. \A p \in Blocks(h) :
                /\ p \in Nat /\ p >= plain.ph[n + 1].offset
                /\ p + 4 <= plain.ph[n + 1].offset + plain.ph[n + 1].filesz
          BY <3>3, <3>4
        <5>2. /\ q >= plain.ph[m].offset
              /\ q + 4 <= plain.ph[m].offset + plain.ph[m].filesz
          BY <3>3, <2>4
        <5>3. \/ plain.ph[m].offset + plain.ph[m].filesz <= plain.ph[n + 1].offset
              \/ plain.ph[n + 1].offset + plain.ph[n + 1].filesz <= plain.ph[m].offset
          <6>1. m < n + 1 \/ n + 1 < m
            BY <1>2, <3>4, <3>7
          <6> QED
            BY <2>4, <3>4, <6>1 DEF Encryptable
        <5>4. /\ plain.ph[m].offset \in Nat /\ plain.ph[n + 1].offset \in Nat
              /\ plain.ph[m].filesz \in Nat /\ plain.ph[n + 1].filesz \in Nat
          BY <3>3, <3>4
        <5> QED
          BY <3>4, <5>1, <5>2, <5>3, <5>4
      <4>2. ASSUME q + 4 <= plain.size
            PROVE  FileWord(elf', q) = FileWord(elf, q)
        <5>1. \A b \in 0 .. 3 : \A p \in Blocks(h) : q + b < p \/ p + 4 <= q + b
          <6>1. \A p \in Blocks(h) : p \in Nat
            BY <3>3, <3>4
          <6>2. \A x, y \in Nat : \A b \in 0 .. 3 :
                  x + 4 <= y \/ y + 4 <= x => x + b < y \/ y + 4 <= x + b
            OBVIOUS
          <6>3. q \in Nat
            BY <3>4
          <6> QED
            BY <4>1, <6>1, <6>2, <6>3
        <5>2. \A b \in 0 .. 3 : q + b \in 0 .. (elf.size - 1)
          BY <3>5, <4>2
        <5>3. \A b \in 0 .. 3 : elf'.data[q + b] = elf.data[q + b]
          BY <2>1, <2>2, <5>1, <5>2 DEF d
        <5> QED
          BY <5>3 DEF FileWord
      <4>3. m <= n + 1 <=> m <= n
        BY <1>2, <3>4, <3>7
      <4> QED
        BY <3>1, <4>2, <4>3
    <3> QED
      BY <3>6, <3>7
  <2>5. BlocksSoFar'
    BY <1>1, <1>5, <2>4 DEF BlocksSoFar, Encryptable, Aligned
  <2> QED
    BY <2>2, <2>3, <2>5 DEF CryptInv
<1> QED
  BY <1>3, <1>4, <1>5

\* The loader leaves the file and its copy alone.
LEMMA LoadFileInv == ASSUME CryptInv, LoadFile PROVE CryptInv'
<1>1. LoadNext /\ UNCHANGED <<plain, tool, n, cnt>> /\ tool \in {"unused", "written"}
  BY DEF LoadFile
<1>2. UNCHANGED <<elf, key>>
  BY <1>1 DEF LoadNext, read_elf, SetVector, CheckHeader, load_segment, get_symtab,
              SetRegisters, LoadDone, KeepFile, evars
<1>3. LoaderInv'
  BY <1>1, LoadNextInv DEF CryptInv
<1>4. ToolInv'
  BY <1>1, <1>2 DEF CryptInv, ToolInv
<1>5. BlocksSoFar'
  BY <1>1, <1>2 DEF CryptInv, BlocksSoFar, Encryptable, Aligned
<1> QED
  BY <1>3, <1>4, <1>5 DEF CryptInv

\* Every step of the tool and of the loader preserves the invariant.
LEMMA CryptNextInv == CryptInv /\ [CryptNext]_cvars => CryptInv'
<1> SUFFICES ASSUME CryptInv, [CryptNext]_cvars PROVE CryptInv'
  OBVIOUS
<1>1. CASE \/ UNCHANGED cvars
           \/ (CheckInput \/ CryptEnd \/ WriteOutput)
  <2>1. /\ UNCHANGED evars /\ UNCHANGED <<plain, n>>
        /\ UNCHANGED <<elf, key, stage>>
    BY <1>1 DEF cvars, evars, CheckInput, CryptEnd, WriteOutput, KeepLoader
  <2>2. LoaderInv'
    BY <2>1, LoadNextInv DEF CryptInv
  <2>3. ToolInv'
    BY <1>1, <2>1 DEF CryptInv, ToolInv, cvars, CheckInput, CryptEnd, WriteOutput
  <2>4. BlocksSoFar'
    BY <2>1 DEF CryptInv, BlocksSoFar, Encryptable, Aligned
  <2> QED
    BY <2>2, <2>3, <2>4 DEF CryptInv
<1>2. CASE CryptTurn
  BY <1>2, TurnInv
<1>3. CASE LoadFile
  BY <1>3, LoadFileInv
<1> QED
  BY <1>1, <1>2, <1>3 DEF CryptNext, CryptDone

\* The invariant holds at the start.
LEMMA CryptInitInv == CryptInit => CryptInv
<1> SUFFICES ASSUME CryptInit PROVE CryptInv
  OBVIOUS
<1>1. PICK f \in ElfFiles \cup PlainFiles : LoadStart(f)
  BY DEF CryptInit, LoadInit
<1>2. Elf32_Ehdr(f)
  BY FilesAssumption, PlainFilesAssumption
<1>3. LoaderInv
  BY <1>1, <1>2, LoadStartInv
<1>4. plain = elf /\ elf = f /\ stage = "read" /\ n = 0 /\ phnum(elf) \in Nat
  BY <1>1, <1>2, FileFacts DEF CryptInit, LoadStart
<1>5. tool \in {"unused", "check"} /\ (tool = "check" => key = "good")
  BY DEF CryptInit
<1>6. ToolInv
  BY <1>2, <1>4, <1>5 DEF ToolInv
<1>7. BlocksSoFar
  <2>1. \A m \in 1 .. phnum(plain) : ~(m <= n)
    BY <1>4
  <2> QED
    BY <1>4, <2>1 DEF BlocksSoFar
<1> QED
  BY <1>3, <1>6, <1>7 DEF CryptInv

(***************************************************************************)
(* The inductive invariant of elfcrypt and of prepare_cpu: what the file,  *)
(* the memory and the registers hold after every step of the two.          *)
(***************************************************************************)
THEOREM CryptInductive == CryptSpec => []CryptInv
BY CryptInitInv, CryptNextInv, PTL DEF CryptSpec

----------------------------------------------------------------------------
(* What it says of a CPU that is ready.                                    *)

\* LoadTypeOK, for every file.
THEOREM LoadTypeCorrect == CryptSpec => []LoadTypeOK
<1>1. CryptInv => LoadTypeOK
  BY DEF CryptInv, LoaderInv
<1> QED
  BY <1>1, CryptInductive, PTL

\* A CPU that prepare_cpu leaves ready is one the engine starts from.
THEOREM ReadyCorrect == CryptSpec => []ReadyIsLoaded
<1>1. CryptInv => ReadyIsLoaded
  BY DEF CryptInv, LoaderInv, ReadyOK
<1> QED
  BY <1>1, CryptInductive, PTL

\* The break and the global pointer come from global symbols of those names.
THEOREM SymbolsGlobal == CryptSpec => []StartFromGlobals
<1>1. CryptInv => StartFromGlobals
  BY DEF CryptInv, LoaderInv, ReadyOK
<1> QED
  BY <1>1, CryptInductive, PTL

\* The checks of the loader suffice for all but what ChecksSuffice lists.
THEOREM ChecksProtect == CryptSpec => []ChecksSuffice
<1>1. CryptInv => ChecksSuffice
  BY DEF CryptInv, LoaderInv
<1> QED
  BY <1>1, CryptInductive, PTL

\* The last header that covers a byte is the one the invariant names.
LEMMA LastCovers ==
  ASSUME LoaderInv, stage = "ready", NEW x \in 0 .. (MemSz - 1)
  PROVE  /\ Covering(x) = {k \in 1 .. phnum(elf) : Covers(k, x)}
         /\ Covering(x) = {} => Stored(x) = Bytes(mem0[WordOf(x)])[x % 4]
         /\ Covering(x) # {} =>
              /\ LastCovering(x) \in 1 .. phnum(elf) /\ Covers(LastCovering(x), x)
              /\ \A k \in Covering(x) : k <= LastCovering(x)
              /\ Fits(elf.ph[LastCovering(x)])
              /\ Stored(x) = SegmentByte(LastCovering(x), x)
<1>1. /\ seg = phnum(elf) /\ phnum(elf) \in Nat
      /\ SegmentsFit /\ MemorySoFar
  BY FileFacts DEF LoaderInv, StagesOK, FileOK, SegmentsOK
<1>2. Covering(x) = {k \in 1 .. phnum(elf) : Covers(k, x)}
  BY DEF Covering, Covers
<1>3. Covering(x) = {} => Stored(x) = Bytes(mem0[WordOf(x)])[x % 4]
  BY <1>1, <1>2 DEF MemorySoFar
<1>4. ASSUME Covering(x) # {}
      PROVE  /\ LastCovering(x) \in 1 .. phnum(elf) /\ Covers(LastCovering(x), x)
             /\ \A k \in Covering(x) : k <= LastCovering(x)
             /\ Fits(elf.ph[LastCovering(x)])
             /\ Stored(x) = SegmentByte(LastCovering(x), x)
  <2>1. Covering(x) \in SUBSET (0 .. phnum(elf))
    BY <1>1, <1>2
  <2>2. \E k \in Covering(x) : \A j \in Covering(x) : j <= k
    BY <1>1, <1>4, <2>1, GreatestElement
  <2>3. /\ LastCovering(x) \in Covering(x)
        /\ \A j \in Covering(x) : j <= LastCovering(x)
    BY <2>2 DEF LastCovering
  <2> DEFINE l == LastCovering(x)
  <2> HIDE DEF l
  <2>4. l \in Covering(x) /\ \A j \in Covering(x) : j <= l
    BY <2>3 DEF l
  <2>5. l \in 1 .. phnum(elf) /\ Covers(l, x)
    BY <1>2, <2>4
  <2>6. \A j \in (l + 1) .. seg : ~Covers(j, x)
    <3>1. \A j \in (l + 1) .. seg : j \in 1 .. phnum(elf) /\ ~(j <= l)
      BY <1>1, <2>5
    <3> QED
      BY <1>2, <2>4, <3>1
  <2>7. Stored(x) = SegmentByte(l, x)
    BY <1>1, <2>5, <2>6 DEF MemorySoFar
  <2>8. Fits(elf.ph[l])
    BY <1>1, <2>5 DEF SegmentsFit, Covers
  <2> QED
    BY <2>4, <2>5, <2>7, <2>8 DEF l
<1> QED
  BY <1>2, <1>3, <1>4

\* At the end the invariant says what Linked says.
LEMMA LinkedMemory == LoaderInv => MemoryAsLinked
<1> SUFFICES ASSUME LoaderInv, stage = "ready", NEW x \in 0 .. (MemSz - 1)
             PROVE  Stored(x) = Linked(x)
  BY DEF MemoryAsLinked, Stored
<1>1. CASE Covering(x) = {}
  BY <1>1, LastCovers DEF Linked
<1>2. CASE Covering(x) # {}
  <2> DEFINE h == elf.ph[LastCovering(x)]
  <2>1. /\ LastCovering(x) \in 1 .. phnum(elf) /\ Covers(LastCovering(x), x)
        /\ Fits(h) /\ Stored(x) = SegmentByte(LastCovering(x), x)
    BY <1>2, LastCovers
  <2>2. h.vaddr <= x /\ x < h.vaddr + h.memsz /\ h.vaddr \in Nat /\ h.memsz \in Nat
    BY <2>1, FileFacts, WordInt DEF Covers, LoaderInv, FileOK
  <2>3. InProgram(x)
    <3>1. h.memsz > 0
      BY <2>2
    <3>2. h.vaddr >= LowBase /\ h.vaddr + h.memsz <= SegmentLimit
      BY <2>1, <3>1 DEF Fits
    <3> HIDE DEF h
    <3> QED
      BY <2>2, <3>2, MemFacts DEF InProgram, SegmentLimit
  <2>4. Linked(x) = IF x - h.vaddr < h.filesz THEN elf.data[h.offset + (x - h.vaddr)]
                    ELSE Bytes(KeyZero)[x % 4]
    <3> HIDE DEF h
    <3>1. Linked(x) =
            CASE Covering(x) = {} \/ ~InProgram(x) -> Bytes(mem0[WordOf(x)])[x % 4]
              [] Covering(x) # {} /\ InProgram(x) /\ x - h.vaddr < h.filesz ->
                   elf.data[h.offset + (x - h.vaddr)]
              [] OTHER -> Bytes(KeyZero)[x % 4]
      BY DEF Linked, h, KeyZero
    <3> QED
      BY <1>2, <2>3, <3>1
  <2> QED
    BY <2>1, <2>4 DEF SegmentByte
<1> QED
  BY <1>1, <1>2

(***************************************************************************)
(* MemoryAsLinked: every byte of the memory of a CPU that is ready is the  *)
(* one the last header that covers it describes, or was never touched.     *)
(***************************************************************************)
THEOREM MemoryExact == CryptSpec => []MemoryAsLinked
BY CryptInductive, LinkedMemory, PTL DEF CryptInv

----------------------------------------------------------------------------
(* Encryption is transparent.                                              *)

\* Two words with the same bytes are the same.
LEMMA SameBytes ==
  ASSUME NEW v \in Word, NEW w \in Word, \A b \in 0 .. 3 : Bytes(v)[b] = Bytes(w)[b]
  PROVE  v = w
<1>1. FromBytes(Bytes(v)) = FromBytes(Bytes(w))
  BY DEF FromBytes
<1> QED
  BY <1>1, FromBytesOfBytes

\* The four bytes of a word come from one segment, and from one part of it, if
\* every segment is aligned.
LEMMA WordFromSegment ==
  ASSUME LoaderInv, stage = "ready", NEW a \in GuestAddrs, Covering(a) # {},
         \A k \in 1 .. phnum(elf) : elf.ph[k].type = "LOAD" /\ elf.ph[k].vaddr % 4 = 0
  PROVE  LET h == elf.ph[LastCovering(a)]
         IN  /\ LastCovering(a) \in 1 .. phnum(elf) /\ Fits(h)
             /\ h.vaddr <= a /\ a < h.vaddr + h.memsz
             /\ \A b \in 0 .. 3 : Bytes(mem[a])[b] =
                  IF a - h.vaddr < h.filesz THEN elf.data[h.offset + (a - h.vaddr) + b]
                  ELSE Bytes(KeyZero)[b]
<1> DEFINE l == LastCovering(a)
           h == elf.ph[l]
<1>1. a \in 0 .. (MemSz - 1) /\ a \in Nat /\ a % 4 = 0 /\ a \in WordAddrs
  BY GuestFacts, MemFacts
<1>2. l \in 1 .. phnum(elf) /\ Covers(l, a) /\ Fits(h)
  BY <1>1, LastCovers
<1>3. /\ h.vaddr <= a /\ a < h.vaddr + h.memsz
      /\ h.vaddr \in Nat /\ h.memsz \in Nat /\ h.filesz \in Nat /\ h.offset \in Nat
      /\ h.vaddr % 4 = 0 /\ h.filesz % 4 = 0
  <2>1. Elf32_Ehdr(elf) /\ h.vaddr % 4 = 0 /\ h.filesz % 4 = 0
    BY <1>2 DEF LoaderInv, FileOK, Fits
  <2>2. /\ h.offset \in Word /\ h.vaddr \in Word /\ h.filesz \in Word
        /\ h.memsz \in Word
    BY <1>2, <2>1, FileFacts
  <2>3. h.vaddr <= a /\ a < h.vaddr + h.memsz
    BY <1>2 DEF Covers
  <2> HIDE DEF h
  <2> QED
    BY <2>1, <2>2, <2>3, WordInt
<1>4. ASSUME NEW b \in 0 .. 3
      PROVE  /\ a + b \in 0 .. (MemSz - 1)
             /\ WordOf(a + b) = a /\ (a + b) % 4 = b
             /\ LastCovering(a + b) = l /\ Covering(a + b) # {}
  <2>1. a + b \in 0 .. (MemSz - 1) /\ WordOf(a + b) = a /\ (a + b) % 4 = b
    <3>1. a + b < MemSz
      BY <1>1, MemFacts
    <3> QED
      BY <1>1, <3>1, MemFacts DEF WordOf
  <2>2. ASSUME NEW k \in 1 .. phnum(elf) PROVE Covers(k, a + b) <=> Covers(k, a)
    <3>1. /\ elf.ph[k].vaddr \in Nat /\ elf.ph[k].memsz \in Nat
          /\ elf.ph[k].vaddr % 4 = 0
      BY FileFacts, WordInt DEF LoaderInv, FileOK
    <3>2. elf.ph[k].memsz % 4 = 0
      BY DEF LoaderInv, StagesOK, SegmentsOK, SegmentsFit, Fits
    <3>3. \A v, m \in Nat : v % 4 = 0 /\ m % 4 = 0 =>
            (v <= a + b /\ a + b < v + m <=> v <= a /\ a < v + m)
      BY <1>1
    <3> QED
      BY <3>1, <3>2, <3>3 DEF Covers
  <2>3. Covering(a + b) = Covering(a)
    BY <1>1, <2>1, <2>2, LastCovers
  <2>4. LastCovering(a + b) = l
    BY <2>3 DEF LastCovering
  <2> HIDE DEF l
  <2> QED
    BY <2>1, <2>3, <2>4
<1>5. ASSUME NEW b \in 0 .. 3
      PROVE  Bytes(mem[a])[b] =
               IF a - h.vaddr < h.filesz THEN elf.data[h.offset + (a - h.vaddr) + b]
               ELSE Bytes(KeyZero)[b]
  <2>1. Stored(a + b) = SegmentByte(l, a + b)
    <3> HIDE DEF l
    <3> QED
      BY <1>4, LastCovers
  <2>2. Stored(a + b) = Bytes(mem[a])[b]
    BY <1>4 DEF Stored
  <2>3. SegmentByte(l, a + b) =
          IF (a + b) - h.vaddr < h.filesz
          THEN elf.data[h.offset + ((a + b) - h.vaddr)] ELSE Bytes(KeyZero)[b]
    BY <1>4 DEF SegmentByte
  <2> HIDE DEF h
  <2>4. (a + b) - h.vaddr < h.filesz <=> a - h.vaddr < h.filesz
    <3>1. \A x, v, f \in Nat : x % 4 = 0 /\ v % 4 = 0 /\ f % 4 = 0 =>
            (x - v < f <=> (x + b) - v < f)
      OBVIOUS
    <3> QED
      BY <1>1, <1>3, <3>1
  <2>5. h.offset + ((a + b) - h.vaddr) = h.offset + (a - h.vaddr) + b
    <3>1. \A o, x, v \in Nat : o + ((x + b) - v) = o + (x - v) + b
      OBVIOUS
    <3> QED
      BY <1>1, <1>3, <3>1
  <2> QED
    BY <2>1, <2>2, <2>3, <2>4, <2>5
<1> QED
  BY <1>2, <1>3, <1>5

\* What the guest reads in a segment is what the unencrypted file says.
LEMMA TransparentMemory == CryptInv => EncryptionIsTransparent
<1> SUFFICES ASSUME CryptInv, tool = "written", stage = "ready", Encryptable,
                    NEW a \in GuestAddrs, Covering(a) # {}
             PROVE  Dec(mem[a]) = PlainWord(a)
  BY DEF EncryptionIsTransparent
<1> DEFINE l == LastCovering(a)
           h == plain.ph[l]
           q == h.offset + (a - h.vaddr)
<1>1. /\ LoaderInv /\ Elf32_Ehdr(plain) /\ plain.ph = elf.ph /\ plain.size = elf.size
      /\ n = phnum(elf) /\ phnum(plain) = phnum(elf) /\ phnum(elf) \in Nat
      /\ KeyZero = Enc(0) /\ seg = phnum(elf)
  BY FileFacts DEF CryptInv, ToolInv, phnum, KeyZero, LoaderInv, StagesOK
<1>2. \A k \in 1 .. phnum(elf) :
        elf.ph[k].type = "LOAD" /\ elf.ph[k].vaddr % 4 = 0
  BY <1>1 DEF Encryptable
<1>3. /\ l \in 1 .. phnum(elf) /\ Fits(h)
      /\ h.vaddr <= a /\ a < h.vaddr + h.memsz
      /\ \A b \in 0 .. 3 : Bytes(mem[a])[b] =
           IF a - h.vaddr < h.filesz THEN elf.data[h.offset + (a - h.vaddr) + b]
           ELSE Bytes(KeyZero)[b]
  BY <1>1, <1>2, WordFromSegment
<1>4. Aligned
  BY <1>1, <1>2 DEF Aligned, LoaderInv, SegmentsOK, SegmentsFit, Fits
<1>5. /\ mem[a] \in Word /\ a \in Nat /\ a % 4 = 0 /\ 0 \in Word
  BY <1>1, GuestFacts, Sizes DEF LoaderInv, LoadTypeOK, TypeOK, Word
<1>6. /\ h.offset \in Nat /\ h.vaddr \in Nat /\ h.filesz \in Nat /\ h.filesz < W
      /\ h.vaddr % 4 = 0 /\ h.filesz % 4 = 0
      /\ plain.size \in Nat /\ elf.size \in Nat
      /\ \A x \in 0 .. (plain.size - 1) : plain.data[x] \in Byte
      /\ \A x \in 0 .. (elf.size - 1) : elf.data[x] \in Byte
  <2>1. /\ Elf32_Ehdr(elf) /\ h.vaddr % 4 = 0 /\ h.filesz % 4 = 0
    BY <1>1, <1>2, <1>3 DEF LoaderInv, FileOK, Fits
  <2>2. h.offset \in Word /\ h.vaddr \in Word /\ h.filesz \in Word
    BY <1>1, <1>3, FileFacts
  <2>3. /\ plain.size \in Nat /\ elf.size \in Nat
        /\ \A x \in 0 .. (plain.size - 1) : plain.data[x] \in Byte
        /\ \A x \in 0 .. (elf.size - 1) : elf.data[x] \in Byte
    BY <1>1, <2>1, FileFacts
  <2> HIDE DEF h
  <2> QED
    BY <2>1, <2>2, <2>3, WordInt
<1>7. PlainWord(a) = IF a - h.vaddr < h.filesz THEN FileWord(plain, q) ELSE 0
  BY DEF PlainWord
<1>8. CASE a - h.vaddr < h.filesz
  <2>1. q \in Blocks(h)
    <3> DEFINE m == (a - h.vaddr) \div 4
    <3> HIDE DEF h
    <3>1. a - h.vaddr \in Nat /\ (a - h.vaddr) % 4 = 0
      BY <1>3, <1>5, <1>6
    <3>2. m \in Nat /\ 4 * m = a - h.vaddr
      BY <3>1
    <3> HIDE DEF m
    <3>3. m \in Word /\ 4 * m < h.filesz
      BY <1>6, <1>8, <3>2, Sizes DEF Word
    <3> QED
      BY <3>2, <3>3 DEF Blocks
  <2>2. l \in 1 .. phnum(plain) /\ l <= n
    BY <1>1, <1>3
  <2>3. /\ q + 4 <= plain.size
        /\ FileWord(elf, q) = Enc(FileWord(plain, q))
    <3> HIDE DEF q
    <3> QED
      BY <1>4, <2>1, <2>2 DEF CryptInv, BlocksSoFar
  <2>4. q \in Nat
    <3> HIDE DEF h
    <3> QED
      BY <1>3, <1>5, <1>6
  <2>5. \A b \in 0 .. 3 : Bytes(mem[a])[b] = elf.data[q + b]
    BY <1>3, <1>8
  <2> HIDE DEF q
  <2>6. FileWord(plain, q) \in Word
    BY <1>6, <2>3, <2>4, FileWordType
  <2>7. /\ FileWord(elf, q) \in Word
        /\ \A b \in 0 .. 3 : Bytes(FileWord(elf, q))[b] = elf.data[q + b]
    BY <1>1, <1>6, <2>3, <2>4, FileWordType
  <2>8. mem[a] = Enc(FileWord(plain, q))
    BY <1>5, <2>3, <2>5, <2>7, SameBytes
  <2> QED
    BY <1>7, <1>8, <2>6, <2>8, CipherAssumption
<1>9. CASE ~(a - h.vaddr < h.filesz)
  <2>1. \A b \in 0 .. 3 : Bytes(mem[a])[b] = Bytes(Enc(0))[b]
    BY <1>1, <1>3, <1>9
  <2>2. Enc(0) \in Word /\ Dec(Enc(0)) = 0
    BY <1>5, CipherAssumption
  <2>3. mem[a] = Enc(0)
    BY <1>5, <2>1, <2>2, SameBytes
  <2> QED
    BY <1>7, <1>9, <2>2, <2>3
<1> QED
  BY <1>8, <1>9

(***************************************************************************)
(* EncryptionIsTransparent: a file encrypted by elfcrypt and loaded with   *)
(* the same key is read by the guest as the file it was made from.         *)
(***************************************************************************)
THEOREM EncryptionTransparent == CryptSpec => []EncryptionIsTransparent
BY CryptInductive, TransparentMemory, PTL

----------------------------------------------------------------------------
(* The search for the nearest symbol.                                      *)

\* What the loop of mips_elf_find_address has found before the first symbol.
NothingFound == [min |-> W - 1, ret |-> 0, ended |-> FALSE]

\* g is the progress of the loop over the first m symbols.
Scans(g, f, tab, addr, m) ==
  g = [k \in 0 .. m |-> IF k = 0 THEN NothingFound
                        ELSE find_address_turn(f, tab, addr, g[k - 1], k)]

\* The loop has a progress: the recursive definition defines a function.
LEMMA ScanExists ==
  ASSUME NEW f, NEW tab, NEW addr, NEW m \in Nat
  PROVE  \E g : Scans(g, f, tab, addr, m)
<1> DEFINE turn(s, k) == find_address_turn(f, tab, addr, s, k)
           S == {k \in Nat : ~ \E g : Scans(g, f, tab, addr, k)}
<1> HIDE DEF turn
<1>1. CASE S = {}
  BY <1>1
<1>2. CASE S # {}
  <2>1. PICK k \in S : \A j \in S : k <= j
    <3>1. S \in SUBSET Nat
      OBVIOUS
    <3> HIDE DEF S
    <3> QED
      BY <1>2, <3>1, LeastElement
  <2>2. CASE k = 0
    <3> DEFINE g == [i \in 0 .. 0 |-> NothingFound]
    <3>1. Scans(g, f, tab, addr, 0)
      <4>1. \A i \in 0 .. 0 : i = 0
        OBVIOUS
      <4> QED
        BY <4>1 DEF Scans
    <3> QED
      BY <2>1, <2>2, <3>1
  <2>3. CASE k # 0
    <3>1. k - 1 \in Nat /\ k \in Nat /\ k - 1 \notin S
      BY <2>1, <2>3
    <3>2. PICK g : Scans(g, f, tab, addr, k - 1)
      BY <3>1
    <3> DEFINE h == [i \in 0 .. k |-> IF i = k THEN turn(g[k - 1], k) ELSE g[i]]
    <3>3. \A i \in 0 .. (k - 1) :
            g[i] = IF i = 0 THEN NothingFound ELSE turn(g[i - 1], i)
      BY <3>2 DEF Scans, turn
    <3>4. \A i \in 0 .. k :
            h[i] = IF i = 0 THEN NothingFound ELSE turn(h[i - 1], i)
      <4>1. \A i \in 0 .. (k - 1) : h[i] = g[i]
        BY <3>1
      <4>2. h[k] = turn(g[k - 1], k) /\ k - 1 \in 0 .. (k - 1)
        BY <3>1
      <4>3. h[k] = turn(h[k - 1], k)
        BY <4>1, <4>2
      <4> HIDE DEF h
      <4>4. ASSUME NEW i \in 0 .. k
            PROVE  h[i] = IF i = 0 THEN NothingFound ELSE turn(h[i - 1], i)
        <5>1. CASE i = k
          BY <2>3, <4>3, <5>1
        <5>2. CASE i # k
          <6>1. i \in 0 .. (k - 1) /\ (i # 0 => i - 1 \in 0 .. (k - 1))
            BY <3>1, <5>2
          <6> QED
            BY <3>3, <4>1, <6>1
        <5> QED
          BY <5>1, <5>2
      <4> QED
        BY <4>4
    <3>5. Scans(h, f, tab, addr, k)
      <4>1. h = [i \in 0 .. k |-> h[i]]
        OBVIOUS
      <4> HIDE DEF h
      <4>2. h = [i \in 0 .. k |-> IF i = 0 THEN NothingFound ELSE turn(h[i - 1], i)]
        BY <3>4, <4>1
      <4> QED
        BY <4>2 DEF Scans, turn
    <3> QED
      BY <2>1, <3>5
  <2> QED
    BY <2>2, <2>3
<1> QED
  BY <1>1, <1>2

\* What mips_elf_find_address returns, if the table is in the file.
LEMMA ScanResult ==
  ASSUME NEW f, NEW tab, nsyms(tab) \in Nat, InFile(f, tab),
         NEW memsz, NEW addr, ~(addr >= memsz)
  PROVE  \E g : /\ Scans(g, f, tab, addr, nsyms(tab))
                /\ mips_elf_find_address(f, tab, memsz, addr) = g[nsyms(tab)].ret
<1> DEFINE g == CHOOSE g : Scans(g, f, tab, addr, nsyms(tab))
<1>1. Scans(g, f, tab, addr, nsyms(tab))
  BY ScanExists
<1>2. mips_elf_find_address(f, tab, memsz, addr) = g[nsyms(tab)].ret
  BY DEF mips_elf_find_address, Scans, NothingFound
<1> QED
  BY <1>1, <1>2

\* Symbol j is one the search may return for addr.
Below(f, addr, j) == Locates(f.sym[j]) /\ f.sym[j].value <= addr

\* s is right after k symbols: the nearest of them, or none.
ScanOK(f, addr, s, k) ==
  /\ s.ret = 0 =>
       /\ s.min = W - 1 /\ ~s.ended
       /\ \A j \in 1 .. k : ~Below(f, addr, j)
  /\ s.ret # 0 =>
       /\ s.ret \in 1 .. k /\ Below(f, addr, s.ret)
       /\ s.min = addr - f.sym[s.ret].value
       /\ s.ended <=> s.min = 0
       /\ \A j \in 1 .. k : Below(f, addr, j) => f.sym[j].value <= f.sym[s.ret].value

\* A turn of the loop keeps it right.
LEMMA TurnScan ==
  ASSUME NEW f, NEW tab, NEW addr \in Nat, addr < W - 1, NEW k \in Nat, k # 0,
         \A j \in 1 .. k : f.sym[j].value \in Nat,
         get_sym(f, tab, k - 1), SymHas(f, tab, k - 1, "info"),
         NEW s, ScanOK(f, addr, s, k - 1)
  PROVE  ScanOK(f, addr, find_address_turn(f, tab, addr, s, k), k)
<1> DEFINE diff == addr - f.sym[k].value
           new  == [min |-> diff, ret |-> k, ended |-> diff = 0]
<1>1. /\ k \in 1 .. k /\ diff \in Int /\ f.sym[k].value \in Nat /\ W \in Nat
      /\ \A j \in 1 .. k : j \in 1 .. (k - 1) \/ j = k
      /\ \A j \in 1 .. (k - 1) : j \in 1 .. k
  BY Sizes
<1>2. CASE s.ended
  <2>1. find_address_turn(f, tab, addr, s, k) = s
    BY <1>2 DEF find_address_turn
  <2>2. s.ret # 0
    BY <1>2 DEF ScanOK
  <2>3. /\ s.ret \in 1 .. (k - 1) /\ Below(f, addr, s.ret) /\ s.min = 0
        /\ s.min = addr - f.sym[s.ret].value
        /\ \A j \in 1 .. (k - 1) : Below(f, addr, j) => f.sym[j].value <= f.sym[s.ret].value
    BY <1>2, <2>2 DEF ScanOK
  <2>4. f.sym[s.ret].value = addr
    BY <1>1, <2>3
  <2>5. \A j \in 1 .. k : Below(f, addr, j) => f.sym[j].value <= f.sym[s.ret].value
    BY <2>4 DEF Below
  <2> QED
    BY <1>1, <1>2, <2>1, <2>2, <2>3, <2>5 DEF ScanOK
<1>3. CASE ~s.ended /\ Locates(f.sym[k]) /\ 0 <= diff /\ diff < s.min
  <2>1. find_address_turn(f, tab, addr, s, k) = new
    BY <1>3 DEF find_address_turn
  <2>2. new.ret = k /\ new.min = diff /\ (new.ended <=> diff = 0)
    OBVIOUS
  <2>3. Below(f, addr, k)
    BY <1>1, <1>3 DEF Below
  <2>4. ASSUME NEW j \in 1 .. k, Below(f, addr, j)
        PROVE  f.sym[j].value <= f.sym[k].value
    <3>1. CASE j = k
      BY <1>1, <3>1
    <3>2. CASE j # k
      <4>1. j \in 1 .. (k - 1)
        BY <1>1, <3>2
      <4>2. s.ret # 0
        BY <2>4, <4>1 DEF ScanOK
      <4>3. /\ s.ret \in 1 .. (k - 1) /\ s.min = addr - f.sym[s.ret].value
            /\ f.sym[j].value <= f.sym[s.ret].value
        BY <2>4, <4>1, <4>2 DEF ScanOK
      <4>4. f.sym[s.ret].value \in Nat /\ f.sym[j].value \in Nat
        BY <1>1, <4>1, <4>3
      <4> QED
        BY <1>1, <1>3, <4>3, <4>4
    <3> QED
      BY <3>1, <3>2
  <2> HIDE DEF new, diff
  <2>5. ScanOK(f, addr, new, k)
    BY <1>1, <2>2, <2>3, <2>4 DEF ScanOK, diff
  <2> QED
    BY <2>1, <2>5
<1>4. CASE ~s.ended /\ ~(Locates(f.sym[k]) /\ 0 <= diff /\ diff < s.min)
  <2>1. find_address_turn(f, tab, addr, s, k) = s
    BY <1>4 DEF find_address_turn
  <2>2. CASE s.ret = 0
    <3>1. s.min = W - 1 /\ ~s.ended /\ \A j \in 1 .. (k - 1) : ~Below(f, addr, j)
      BY <2>2 DEF ScanOK
    <3>2. ~Below(f, addr, k)
      BY <1>1, <1>4, <3>1 DEF Below
    <3> QED
      BY <1>1, <2>1, <2>2, <3>1, <3>2 DEF ScanOK
  <2>3. CASE s.ret # 0
    <3>1. /\ s.ret \in 1 .. (k - 1) /\ Below(f, addr, s.ret)
          /\ s.min = addr - f.sym[s.ret].value /\ (s.ended <=> s.min = 0)
          /\ \A j \in 1 .. (k - 1) :
               Below(f, addr, j) => f.sym[j].value <= f.sym[s.ret].value
      BY <2>3 DEF ScanOK
    <3>2. f.sym[s.ret].value \in Nat
      BY <1>1, <3>1
    <3>3. Below(f, addr, k) => f.sym[k].value <= f.sym[s.ret].value
      BY <1>1, <1>4, <3>1, <3>2 DEF Below
    <3>4. \A j \in 1 .. k : Below(f, addr, j) => f.sym[j].value <= f.sym[s.ret].value
      BY <1>1, <3>1, <3>3
    <3> QED
      BY <1>1, <2>1, <2>3, <3>1, <3>4 DEF ScanOK
  <2> QED
    BY <2>2, <2>3
<1> QED
  BY <1>2, <1>3, <1>4

\* The entries of a table that lies in the file and does not wrap are found.
LEMMA SymsInFile ==
  ASSUME NEW f, NEW tab, tab.type = "SYMTAB", f.size \in Nat,
         tab.offset \in Word, tab.size \in Word, tab.entsize \in Word,
         tab.entsize # 0, InFile(f, tab), tab.offset + tab.size < W,
         NEW k \in 1 .. nsyms(tab)
  PROVE  get_sym(f, tab, k - 1)
<1> DEFINE e == tab.entsize
           at == (k - 1) * e
<1>1. /\ tab.offset \in Nat /\ tab.size \in Nat /\ e \in Nat /\ e > 0
      /\ tab.offset + tab.size <= f.size
  BY WordInt, EndSum DEF InFile
<1>2. nsyms(tab) \in Nat /\ e * nsyms(tab) <= tab.size
  BY <1>1 DEF nsyms
<1>3. k \in Nat /\ k - 1 \in Nat /\ k <= nsyms(tab)
  BY <1>2
<1>4. at \in Nat /\ at < tab.size
  <2>1. e * k <= e * nsyms(tab)
    BY <1>1, <1>2, <1>3
  <2>2. at = e * k - e
    BY <1>1, <1>3
  <2>3. at \in Nat
    BY <1>1, <1>3
  <2>4. e * k \in Int /\ e * nsyms(tab) \in Int
    BY <1>1, <1>2, <1>3
  <2> HIDE DEF at
  <2> QED
    BY <1>1, <1>2, <2>1, <2>2, <2>3, <2>4
<1> HIDE DEF at
<1>5. at \in Word /\ tab.offset + at < W /\ tab.offset + at < f.size
  BY <1>1, <1>4, Sizes, WordInt DEF Word
<1>6. Unsigned(at) = at /\ End(tab.offset, at) = tab.offset + at
  BY <1>5, UnsignedWord, EndSum, WordInt
<1> QED
  BY <1>4, <1>5, <1>6 DEF get_sym, at

\* mips_elf_find_address returns the nearest symbol of a table in the file.
LEMMA NearestFound ==
  ASSUME NEW f, Elf32_Ehdr(f), NEW t \in 1 .. shnum(f), f.sh[t].type = "SYMTAB",
         f.sh[t].entsize # 0, InFile(f, f.sh[t]), f.sh[t].offset + f.sh[t].size < W,
         f.sh[t].entsize >= SymEnd.info, f.sh[t].offset \in Word, NEW a \in 0 .. (MemSz - 1)
  PROVE  LET tab   == f.sh[t]
             s     == mips_elf_find_address(f, tab, MemSz, a)
             below == {k \in 1 .. nsyms(tab) : Below(f, a, k)}
         IN  IF below = {} THEN s = 0
             ELSE s \in below /\ \A k \in below : f.sym[k].value <= f.sym[s].value
<1> DEFINE tab == f.sh[t]
           m == nsyms(tab)
<1>1. tab.size \in Word /\ tab.entsize \in Word /\ f.size \in Nat
  BY FileFacts
<1>2. m \in Nat /\ m <= Len(f.sym) /\ Len(f.sym) \in Nat
  <2>1. tab.size \in Nat /\ tab.entsize \in Nat /\ tab.entsize > 0
    BY <1>1, WordInt
  <2>2. m \in Nat
    BY <2>1 DEF nsyms
  <2>3. m <= Len(f.sym)
    BY DEF Elf32_Ehdr, nsyms, shnum
  <2> QED
    BY <2>2, <2>3, FileFacts
<1>3. \A k \in 1 .. m : get_sym(f, tab, k - 1)
  <2> HIDE DEF tab
  <2>1. /\ tab.type = "SYMTAB" /\ tab.entsize # 0 /\ tab.offset \in Word
        /\ InFile(f, tab) /\ tab.offset + tab.size < W
    BY DEF tab
  <2> QED
    BY <1>1, <2>1, SymsInFile
<1>10. \A k \in 1 .. m : SymHas(f, tab, k - 1, "info")
  <2>1. SymEnd["info"] <= f.sh[t].entsize
    BY <1>1, FieldsAssumption, WordInt
  <2> QED
    BY <2>1, SymbolInFile
<1>4. \A k \in 1 .. m : f.sym[k].value \in Nat
  <2>1. \A k \in 1 .. m : k \in 1 .. Len(f.sym)
    BY <1>2
  <2>2. \A k \in 1 .. m : f.sym[k].value \in Word
    BY <2>1, FileFacts
  <2> QED
    BY <2>2, WordInt
<1>5. a \in Nat /\ a < W - 1 /\ ~(a >= MemSz)
  BY MemFacts, Sizes
<1>6. PICK g : /\ Scans(g, f, tab, a, m)
               /\ mips_elf_find_address(f, tab, MemSz, a) = g[m].ret
  BY <1>2, <1>5, ScanResult
<1>7. \A k \in 0 .. m : g[k] = IF k = 0 THEN NothingFound
                               ELSE find_address_turn(f, tab, a, g[k - 1], k)
  BY <1>6 DEF Scans
<1> DEFINE Bad == {k \in 0 .. m : ~ScanOK(f, a, g[k], k)}
<1>8. Bad = {}
  <2> SUFFICES ASSUME Bad # {} PROVE FALSE
    OBVIOUS
  <2>1. PICK k \in Bad : \A j \in Bad : k <= j
    <3>1. Bad \in SUBSET Nat
      BY <1>2
    <3> HIDE DEF Bad
    <3> QED
      BY <3>1, LeastElement
  <2>2. k \in 0 .. m /\ k \in Nat /\ ~ScanOK(f, a, g[k], k)
    BY <1>2, <2>1
  <2>3. CASE k = 0
    <3>1. g[0] = NothingFound
      BY <1>2, <1>7
    <3>2. ScanOK(f, a, NothingFound, 0)
      BY DEF ScanOK, NothingFound
    <3> QED
      BY <2>2, <2>3, <3>1, <3>2
  <2>4. CASE k # 0
    <3>1. k \in 1 .. m /\ k - 1 \in 0 .. m /\ k - 1 \in Nat
      BY <1>2, <2>2, <2>4
    <3>2. ~(k <= k - 1)
      BY <2>2
    <3>3. ScanOK(f, a, g[k - 1], k - 1)
      BY <2>1, <3>1, <3>2
    <3>4. g[k] = find_address_turn(f, tab, a, g[k - 1], k)
      BY <1>7, <2>2, <2>4
    <3>5. \A j \in 1 .. k : f.sym[j].value \in Nat
      BY <1>2, <1>4, <3>1
    <3>6. get_sym(f, tab, k - 1) /\ SymHas(f, tab, k - 1, "info")
      BY <1>3, <1>10, <3>1
    <3> HIDE DEF tab, Bad
    <3>7. ScanOK(f, a, find_address_turn(f, tab, a, g[k - 1], k), k)
      BY <1>5, <2>2, <2>4, <3>3, <3>5, <3>6, TurnScan
    <3> QED
      BY <2>2, <3>4, <3>7
  <2> QED
    BY <2>3, <2>4
<1>9. ScanOK(f, a, g[m], m)
  BY <1>2, <1>8
<1> HIDE DEF m, tab
<1> QED
  BY <1>6, <1>9 DEF ScanOK, m, tab

(***************************************************************************)
(* NearestSymbolFound: the symbol reported for an address of the memory is *)
(* the nearest global one, whatever the order of the table is.             *)
(***************************************************************************)
THEOREM NearestExact == CryptSpec => []NearestSymbolFound
<1>1. ASSUME LoaderInv, stage = "ready", Symtab.offset + Symtab.size < W,
             Symtab.entsize >= SymEnd.info, NEW a \in 0 .. MemSz
      PROVE  LET s     == mips_elf_find_address(elf, Symtab, MemSz, a)
                 below == {k \in 1 .. nsyms(Symtab) : Below(elf, a, k)}
             IN  IF below = {} \/ a = MemSz THEN s = 0
                 ELSE s \in below /\ \A k \in below : elf.sym[k].value <= elf.sym[s].value
  <2>1. /\ Elf32_Ehdr(elf) /\ symtab + 1 \in 1 .. shnum(elf)
        /\ Symtab = elf.sh[symtab + 1] /\ Symtab.type = "SYMTAB"
        /\ Symtab.entsize # 0 /\ InFile(elf, Symtab)
    BY <1>1, FileFacts DEF LoaderInv, FileOK, StagesOK, Symtab
  <2>2. Symtab.offset \in Word
    BY <2>1 DEF Elf32_Ehdr, Elf32_Shdr, shnum
  <2>3. CASE a = MemSz
    BY <2>3, MemFacts DEF mips_elf_find_address
  <2>4. CASE a # MemSz
    <3>1. a \in 0 .. (MemSz - 1)
      BY <1>1, <2>4, MemFacts
    <3> QED
      BY <1>1, <2>1, <2>2, <2>4, <3>1, NearestFound
  <2> QED
    BY <2>3, <2>4
<1>2. CryptInv => NearestSymbolFound
  BY <1>1 DEF CryptInv, NearestSymbolFound, Below
<1> QED
  BY <1>2, CryptInductive, PTL
============================================================================
