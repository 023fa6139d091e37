------------------------------- MODULE Decode ------------------------------
(***************************************************************************)
(* The instruction decoder (vm/opcodes.c): mips_init builds the bit set of *)
(* valid opcodes, mips_decode takes the opcode from the field of its group *)
(* and looks it up.  An instruction is its fields op, funct and rt.  The   *)
(* engine sees the decoder as the constant InsnOf of module Cpu.           *)
(***************************************************************************)
EXTENDS Words, FiniteSets

CONSTANT InsnWords   \* the instructions to decode

VARIABLES
  Gvalid_opcodes,  \* the bit set, as a set of opcodes
  insn,            \* the instruction last decoded
  opcode           \* what mips_decode returned for it

dvars == <<Gvalid_opcodes, insn, opcode>>

----------------------------------------------------------------------------
(* enum mips_opcode: 0nn main opcodes, 1nn SPECIAL, 2nn REGIMM.            *)

Enum == {
  <<"SPECIAL", \o000>>, <<"REGIMM", \o001>>, <<"J", \o002>>, <<"JAL", \o003>>,
  <<"BEQ", \o004>>, <<"BNE", \o005>>, <<"BLEZ", \o006>>, <<"BGTZ", \o007>>,
  <<"ADDI", \o010>>, <<"ADDIU", \o011>>, <<"SLTI", \o012>>, <<"SLTIU", \o013>>,
  <<"ANDI", \o014>>, <<"ORI", \o015>>, <<"XORI", \o016>>, <<"LUI", \o017>>,
  <<"LB", \o040>>, <<"LH", \o041>>, <<"LWL", \o042>>, <<"LW", \o043>>,
  <<"LBU", \o044>>, <<"LHU", \o045>>, <<"LWR", \o046>>, <<"SB", \o050>>,
  <<"SH", \o051>>, <<"SWL", \o052>>, <<"SW", \o053>>, <<"SWR", \o056>>,
  <<"SLL", \o100>>, <<"SRL", \o102>>, <<"SRA", \o103>>, <<"SLLV", \o104>>,
  <<"SRLV", \o106>>, <<"SRAV", \o107>>, <<"JR", \o110>>, <<"JALR", \o111>>,
  <<"SYSCALL", \o114>>, <<"BREAK", \o115>>, <<"MFHI", \o120>>, <<"MTHI", \o121>>,
  <<"MFLO", \o122>>, <<"MTLO", \o123>>, <<"MULT", \o130>>, <<"MULTU", \o131>>,
  <<"DIV", \o132>>, <<"DIVU", \o133>>, <<"ADD", \o140>>, <<"ADDU", \o141>>,
  <<"SUB", \o142>>, <<"SUBU", \o143>>, <<"AND", \o144>>, <<"OR", \o145>>,
  <<"XOR", \o146>>, <<"NOR", \o147>>, <<"SLT", \o152>>, <<"SLTU", \o153>>,
  <<"BLTZ", \o200>>, <<"BGEZ", \o201>>, <<"BLTZAL", \o220>>, <<"BGEZAL", \o221>>}

MIPS_I(name) == (CHOOSE e \in Enum : e[1] = name)[2]

\* Gopcode_list; the order of its elements does not matter.
Gopcode_list == {
  "SPECIAL", "REGIMM", "J", "JAL", "BEQ", "BNE", "BLEZ", "BGTZ", "ADDI", "ADDIU",
  "SLTI", "SLTIU", "ANDI", "ORI", "XORI", "LUI", "LB", "LH", "LWL", "LW", "LBU",
  "LHU", "LWR", "SB", "SH", "SWL", "SW", "SWR", "SLL", "SRL", "SRA", "SLLV",
  "SRLV", "SRAV", "JR", "JALR", "SYSCALL", "BREAK", "MFHI", "MTHI", "MFLO",
  "MTLO", "MULT", "MULTU", "DIV", "DIVU", "ADD", "ADDU", "SUB", "SUBU", "AND",
  "OR", "XOR", "NOR", "SLT", "SLTU", "BLTZ", "BGEZ", "BLTZAL", "BGEZAL"}

\* The array has exactly NINSN elements: none of them is left at 0.
NINSN == 60

ASSUME ListAssumption == Cardinality(Gopcode_list) = NINSN

----------------------------------------------------------------------------
(* The decoder.                                                            *)

Fields == [op : 0 .. 63, funct : 0 .. 63, rt : 0 .. 31]

ASSUME InsnWordsAssumption == InsnWords \subseteq Fields

DecodeInit ==
  /\ Gvalid_opcodes = {}
  /\ insn \in InsnWords /\ opcode = -1

mips_init ==
  /\ Gvalid_opcodes' = {MIPS_I(name) : name \in Gopcode_list}
  /\ UNCHANGED <<insn, opcode>>

\* Mutant: the group of REGIMM is not added.
Opcode_regimm(w) ==
  CASE w.op = MIPS_I("SPECIAL") -> w.funct + \o100
    [] w.op = MIPS_I("REGIMM")  -> w.rt
    [] OTHER                    -> w.op

\* Mutant: SPECIAL is not replaced by its function.
Opcode_special(w) ==
  IF w.op = MIPS_I("REGIMM") THEN w.rt + \o200 ELSE w.op

\* The opcode in the numbering of the enum; the fields are narrower than the
\* group bits | adds.
Opcode(w) ==
  CASE w.op = MIPS_I("SPECIAL") -> w.funct + \o100
    [] w.op = MIPS_I("REGIMM")  -> w.rt + \o200
    [] OTHER                    -> w.op

\* cpu.h: mips_init must be called before any other function.
mips_decode ==
  /\ Gvalid_opcodes # {}
  /\ opcode' = IF Opcode(insn) \in Gvalid_opcodes THEN Opcode(insn) ELSE -1
  /\ UNCHANGED <<Gvalid_opcodes, insn>>

DecodeNext == mips_init \/ mips_decode

DecodeSpec == DecodeInit /\ [][DecodeNext]_dvars

----------------------------------------------------------------------------
(* Properties.                                                             *)

(***************************************************************************)
(* Whatever mips_decode accepts, the engine has a handler for: the throws  *)
(* of MIPS_E_ABORT for SPECIAL and REGIMM in mips_execute, and the one in  *)
(* the default case of do_dispatch, are dead, because the two group codes, *)
(* which are in the list, are never returned.                              *)
(***************************************************************************)
DecodedIsDispatched ==
  opcode # -1 => \E name \in Opcodes : MIPS_I(name) = opcode

\* The fields that encode an instruction: the first octal digit is its group.
Encodes(w, name) ==
  LET c == MIPS_I(name)
  IN  \/ c < \o100 /\ w.op = c
      \/ \o100 <= c /\ c < \o200 /\ w.op = 0 /\ w.funct = c - \o100
      \/ \o200 <= c /\ w.op = 1 /\ w.rt = c - \o200

(***************************************************************************)
(* opcodes.h:37-38: "The MSD decides about the group to which the opcode   *)
(* belongs".  A word decodes to the instruction whose group and field it   *)
(* has, no two instructions share an encoding, and every instruction the   *)
(* engine implements is recognised.                                        *)
(***************************************************************************)
DecodeIsExact ==
  [][mips_decode =>
       LET encoded == {name \in Opcodes : Encodes(insn, name)}
       IN  IF encoded = {} THEN opcode' = -1
           ELSE \E name \in Opcodes : encoded = {name} /\ opcode' = MIPS_I(name)]_dvars
============================================================================
