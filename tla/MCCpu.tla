------------------------------- MODULE MCCpu -------------------------------
(***************************************************************************)
(* The programs the CPU engine is checked with, three menus of them.       *)
(***************************************************************************)
EXTENDS MCGuest

\* Transfers of control, into, out of and across delay slots.
ControlMenu == <<
  Nop,
  JType("JAL", 2),
  JType("J", 7),
  RType("JALR", 31, 31, 0),
  RType("JALR", 0, 28, 0),
  RType("JR", 0, 31, 0),
  IType("BEQ", 0, 0, 15),
  IType("BNE", 31, 28, 14),
  IType("BLTZAL", 0, 31, 1),
  IType("BGEZAL", 0, 28, 1),
  IType("ADDIU", 31, 31, 12),
  JType("SYSCALL", 0)>>

\* Loads and stores of every width around a moving address.
MemoryMenu == <<
  IType("ADDIU", 28, 28, 11),
  IType("ADDIU", 31, 31, 6),
  IType("LB", 31, 28, 0),
  IType("LHU", 31, 28, 2),
  IType("LW", 0, 29, 4),
  IType("LWL", 31, 28, 0),
  IType("LWR", 0, 28, 14),
  IType("SB", 31, 28, 0),
  IType("SH", 28, 28, 1),
  IType("SW", 31, 28, 14),
  IType("SWL", 28, 28, 0),
  IType("SWR", 31, 28, 12)>>

\* Overflow, the multiply and divide registers, malformed encodings.
ArithMenu == <<
  Nop,
  IType("LUI", 31, 0, 8),
  IType("LUI", 31, 28, 8),
  IType("ADDI", 31, 31, 15),
  IType("ADDI", 0, 31, 15),
  RType("SUB", 28, 0, 31),
  RType("ADD", 31, 31, 28),
  RType("NOR", 28, 0, 0),
  RType("DIV", 0, 31, 28),
  RType("MULT", 0, 31, 28),
  RType("MFLO", 31, 0, 0),
  RType("MTHI", 0, 28, 0),
  RType("MTLO", 0, 28, 31),
  RType("SRAV", 31, 28, 31),
  [Nop EXCEPT !.op = "SLTU", !.sa = 1],
  JType("BREAK", 0)>>

CpuMenu == ControlMenu \o MemoryMenu \o ArithMenu

\* Aligned and unaligned entry points for the first menu, two bases for the
\* second.
CpuPrograms ==
  ProgramsOf(0, 11, {4, 6}, {12}) \cup ProgramsOf(12, 23, {4}, {8, 11})
    \cup ProgramsOf(24, 39, {4}, {9})
============================================================================
