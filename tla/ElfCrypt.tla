------------------------------ MODULE ElfCrypt -----------------------------
(***************************************************************************)
(* hostapps/elfcrypt.c, and what it is for: a file is encrypted in place,  *)
(* written, and then loaded with the same key by module ElfLoad.  The loop *)
(* over the program headers never advances ph: it looks at the first       *)
(* header in every turn and encrypts the segment of header n.              *)
(*                                                                         *)
(* The tables of a file are kept apart from its bytes, so the files it is  *)
(* given have no segment that contains a table.  The other files are       *)
(* loaded as they are.                                                     *)
(***************************************************************************)
EXTENDS ElfLoad

CONSTANTS
  PhdrSize,   \* sizeof(Elf32_Phdr)
  PlainFiles  \* the files the user may encrypt before they are loaded

VARIABLES
  plain,  \* ELF-IN; elf is the copy in memory, and ELF-OUT at the end
  tool,   \* where elfcrypt is; "unused": the file is loaded as it is,
          \* "nothing": no PT_LOAD segments found
  n, cnt  \* its loop counter i and cnt

cvars == <<evars, plain, tool, n, cnt>>

ASSUME PlainFilesAssumption == \A f \in PlainFiles : Elf32_Ehdr(f)

ASSUME TablesApart ==
  \A f \in PlainFiles : \A m \in 1 .. phnum(f) :
    LET h == f.ph[m]
        Apart(off, len) ==
          h.filesz = 0 \/ off + len <= h.offset \/ h.offset + h.filesz <= off
    IN  /\ Apart(f.phoff, phnum(f) * f.phentsize)
        /\ Apart(f.shoff, shnum(f) * f.shentsize)

----------------------------------------------------------------------------
(* elfcrypt.                                                               *)

CryptInit ==
  /\ \/ LoadInit /\ tool = "unused"
     \/ \E f \in PlainFiles : LoadStart(f) /\ key = "good" /\ tool = "check"
  /\ plain = elf
  /\ n = 0 /\ cnt = 0

KeepLoader == UNCHANGED <<vars, key, stage, seg, vector, symtab, symstr, brk, mem0>>

\* Its own check_eh_limits: the machine may be any, the entry size may not.
Encrypts(f) ==
  /\ f.ident # "bad" /\ f.phentsize = PhdrSize
  /\ phnum(f) # 0
  /\ End(f.phoff, phnum(f) * f.phentsize) <= f.size

CheckInput ==
  /\ tool = "check"
  /\ \/ elf.size >= EhdrSize /\ Encrypts(elf) /\ tool' = "crypt"
     \/ elf.size >= EhdrSize /\ ~Encrypts(elf) /\ tool' = "exit"
     \/ elf.size < EhdrSize /\ tool' \in {"exit", "undefined"}
  /\ KeepLoader /\ UNCHANGED <<elf, plain, n, cnt>>

FileWord(f, x) == FromBytes([b \in 0 .. 3 |-> f.data[x + b]])

\* Mutant: one block too many.
Blocks_long(h) == {h.offset + 4 * m : m \in {m \in Word : 4 * m <= h.filesz}}

\* The offsets of the blocks crypt_segment encrypts.
Blocks(h) == {h.offset + 4 * m : m \in {m \in Word : 4 * m < h.filesz}}

\* The bytes of the file after crypt_segment.
crypt_segment(h) ==
  [x \in DOMAIN elf.data |->
     IF \E q \in Blocks(h) : q <= x /\ x < q + 4
     THEN LET q == CHOOSE q \in Blocks(h) : q <= x /\ x < q + 4
          IN  Bytes(Enc(FileWord(elf, q)))[x - q]
     ELSE elf.data[x]]

\* A field of program header m, at ph[m], is not in the file.
FieldBehind(m, field) == elf.phoff + m * PhdrSize + PhdrEnd[field] > elf.size

\* A turn of the loop reads behind the file: the first header, header n, or the
\* blocks of its segment.
TurnBehind ==
  LET first == elf.ph[1]
      inside == End(first.offset, first.filesz) < elf.size
  IN  \/ FieldBehind(0, "type")
      \/ /\ first.type = "LOAD"
         /\ FieldBehind(0, IF inside /\ first.filesz % 4 = 0 THEN "memsz" ELSE "filesz")
      \/ /\ first.type = "LOAD" /\ inside
         /\ first.filesz % 4 = 0 /\ first.memsz % 4 = 0
         /\ \/ FieldBehind(n, "filesz")
            \/ \E q \in Blocks(elf.ph[n + 1]) : q + 4 > elf.size

\* One turn of the loop: the tests are of the first header, not of header n.
CryptTurn ==
  LET first == elf.ph[1]
      fits  == /\ End(first.offset, first.filesz) < elf.size
               /\ first.filesz % 4 = 0 /\ first.memsz % 4 = 0
  IN  /\ tool = "crypt" /\ n < phnum(elf)
      /\ \/ TurnBehind /\ tool' = "undefined" /\ UNCHANGED <<elf, n, cnt>>
         \/ /\ ~TurnBehind /\ first.type # "LOAD"
            /\ n' = n + 1 /\ UNCHANGED <<elf, tool, cnt>>
         \/ /\ ~TurnBehind /\ first.type = "LOAD" /\ ~fits
            /\ tool' = "exit" /\ cnt' = cnt + 1 /\ UNCHANGED <<elf, n>>
         \/ /\ ~TurnBehind /\ first.type = "LOAD" /\ fits
            /\ elf' = [elf EXCEPT !.data = crypt_segment(elf.ph[n + 1])]
            /\ n' = n + 1 /\ cnt' = cnt + 1 /\ UNCHANGED tool
      /\ KeepLoader /\ UNCHANGED plain

CryptEnd ==
  /\ tool = "crypt" /\ n = phnum(elf)
  /\ tool' = IF cnt = 0 THEN "nothing" ELSE "write"
  /\ KeepLoader /\ UNCHANGED <<elf, plain, n, cnt>>

\* The output cannot be opened, written or closed; or it is complete.
WriteOutput ==
  /\ tool = "write"
  /\ tool' \in {"written", "exit"}
  /\ KeepLoader /\ UNCHANGED <<elf, plain, n, cnt>>

\* prepare_cpu, of ELF-OUT with the key it was made with or of any file.
LoadFile ==
  /\ tool \in {"unused", "written"}
  /\ LoadNext
  /\ UNCHANGED <<plain, tool, n, cnt>>

CryptDone == tool \in {"exit", "nothing", "undefined"} /\ UNCHANGED cvars

CryptNext == CheckInput \/ CryptTurn \/ CryptEnd \/ WriteOutput
               \/ LoadFile \/ CryptDone

CryptSpec == CryptInit /\ [][CryptNext]_cvars

----------------------------------------------------------------------------
(* Properties.                                                             *)

\* The headers are all of loadable, aligned segments that share no byte.
Encryptable ==
  /\ \A m \in 1 .. phnum(plain) :
       plain.ph[m].type = "LOAD" /\ plain.ph[m].vaddr % 4 = 0
  /\ \A m, k \in 1 .. phnum(plain) :
       LET g == plain.ph[m]  h == plain.ph[k]
       IN  m < k => g.offset + g.filesz <= h.offset \/ h.offset + h.filesz <= g.offset

\* The word at a as the unencrypted file defines it.
PlainWord(a) ==
  LET h == plain.ph[LastCovering(a)]
  IN  IF a - h.vaddr < h.filesz THEN FileWord(plain, h.offset + (a - h.vaddr)) ELSE 0

(***************************************************************************)
(* Encryption is transparent: what the program reads through the vector    *)
(* after elfcrypt and a load with the key is, in every word of every       *)
(* segment, its data and its zeros, what the unencrypted file says.        *)
(***************************************************************************)
EncryptionIsTransparent ==
  tool = "written" /\ stage = "ready" /\ Encryptable =>
    \A a \in GuestAddrs : Covering(a) # {} => Dec(mem[a]) = PlainWord(a)
============================================================================
