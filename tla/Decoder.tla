------------------------------- MODULE Decoder -------------------------------
(***************************************************************************)
(* The decoder (Decoder.c): from the bit fields of an instruction word to  *)
(* the handler that executes it.  An instruction word is a record of its   *)
(* six fields, op (bits 31 to 26), rs, rt, rd, sa (five bits each) and     *)
(* funct (5 to 0); other fields, as an immediate, may stand beside them.   *)
(* A handler is named by the opcode of ScalarOpcodes.md or                 *)
(* VectorOpcodes.md, without the RSP in front.                             *)
(***************************************************************************)
EXTENDS Integers, Sequences

Reserved == [n \in 0 .. 7 |-> "INV"]
VReserved == [n \in 0 .. 7 |-> "VINV"]

\* A table is written in rows of eight, as in the diagrams of Decoder.c.
Row(names) == [n \in 0 .. 7 |-> names[n + 1]]
Entry(rows, index) == rows[index \div 8 + 1][index % 8]

SpecialOpcodeTable ==
  <<Row(<<"SLL", "INV", "SRL", "SRA", "SLLV", "INV", "SRLV", "SRAV">>),
    Row(<<"JR", "JALR", "INV", "INV", "INV", "BREAK", "INV", "INV">>),
    Reserved, Reserved,
    Row(<<"ADD", "ADD", "SUB", "SUB", "AND", "OR", "XOR", "NOR">>),
    Row(<<"INV", "INV", "SLT", "SLTU", "INV", "INV", "INV", "INV">>),
    Reserved, Reserved>>

RegImmOpcodeTable ==
  <<Row(<<"BLTZ", "BGEZ", "INV", "INV", "INV", "INV", "INV", "INV">>),
    Reserved,
    Row(<<"BLTZAL", "BGEZAL", "INV", "INV", "INV", "INV", "INV", "INV">>),
    Reserved>>

COP0OpcodeTable ==
  <<Row(<<"MFC0", "INV", "INV", "INV", "MTC0", "INV", "INV", "INV">>),
    Reserved, Reserved, Reserved>>

COP2OpcodeTable ==
  <<Row(<<"MFC2", "INV", "CFC2", "INV", "MTC2", "INV", "CTC2", "INV">>),
    Reserved, [n \in 0 .. 7 |-> "VECT"], [n \in 0 .. 7 |-> "VECT"]>>

COP2VectorOpcodeTable ==
  <<Row(<<"VMULF", "VMULU", "VRNDP", "VMULQ", "VMUDL", "VMUDM", "VMUDN", "VMUDH">>),
    Row(<<"VMACF", "VMACU", "VRNDN", "VMACQ", "VMADL", "VMADM", "VMADN", "VMADH">>),
    Row(<<"VADD", "VSUB", "VINV", "VABS", "VADDC", "VSUBC", "VINV", "VINV">>),
    Row(<<"VINV", "VINV", "VINV", "VINV", "VINV", "VSAR", "VINV", "VINV">>),
    Row(<<"VLT", "VEQ", "VNE", "VGE", "VCL", "VCH", "VCR", "VMRG">>),
    Row(<<"VAND", "VNAND", "VOR", "VNOR", "VXOR", "VNXOR", "VINV", "VINV">>),
    Row(<<"VRCP", "VRCPL", "VRCPH", "VMOV", "VRSQ", "VRSQL", "VRSQH", "VNOP">>),
    VReserved>>

LWC2OpcodeTable ==
  <<Row(<<"LBV", "LSV", "LLV", "LDV", "LQV", "LRV", "LPV", "LUV">>),
    Row(<<"LHV", "LFV", "INV", "LTV", "INV", "INV", "INV", "INV">>),
    Reserved, Reserved>>

\* Mutant: the two packed stores change places.
SWC2OpcodeTableSwapped ==
  <<Row(<<"SBV", "SSV", "SLV", "SDV", "SQV", "SRV", "SUV", "SPV">>),
    Row(<<"SHV", "SFV", "SWV", "STV", "INV", "INV", "INV", "INV">>),
    Reserved, Reserved>>

SWC2OpcodeTable ==
  <<Row(<<"SBV", "SSV", "SLV", "SDV", "SQV", "SRV", "SPV", "SUV">>),
    Row(<<"SHV", "SFV", "SWV", "STV", "INV", "INV", "INV", "INV">>),
    Reserved, Reserved>>

OpcodeTable ==
  <<Row(<<"INV", "INV", "J", "JAL", "BEQ", "BNE", "BLEZ", "BGTZ">>),
    Row(<<"ADDI", "ADDI", "SLTI", "SLTIU", "ANDI", "ORI", "XORI", "LUI">>),
    Reserved, Reserved,
    Row(<<"LB", "LH", "INV", "LW", "LBU", "LHU", "INV", "INV">>),
    Row(<<"SB", "SH", "INV", "SW", "INV", "INV", "INV", "INV">>),
    Reserved, Reserved>>

\* EscapeTable: which table a major opcode leads to, and RSPDecodeInstruction.
RSPDecodeInstruction(iw) ==
  CASE iw.op = 0 -> Entry(SpecialOpcodeTable, iw.funct)
    [] iw.op = 1 -> Entry(RegImmOpcodeTable, iw.rt)
    [] iw.op = 16 -> Entry(COP0OpcodeTable, iw.rs)
    [] iw.op = 18 -> Entry(COP2OpcodeTable, iw.rs)
    [] iw.op = 50 -> Entry(LWC2OpcodeTable, iw.rd)
    [] iw.op = 58 -> Entry(SWC2OpcodeTable, iw.rd)
    [] OTHER -> Entry(OpcodeTable, iw.op)

\* Mutant: five bits of the function are looked at.
RSPDecodeVectorInstructionNarrow(iw) ==
  Entry(COP2VectorOpcodeTable, iw.funct % 32)

RSPDecodeVectorInstruction(iw) == Entry(COP2VectorOpcodeTable, iw.funct)
=============================================================================
