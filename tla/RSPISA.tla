------------------------------- MODULE RSPISA -------------------------------
(***************************************************************************)
(* The instruction set as the scalar pipeline sees it: instruction words,  *)
(* what the decoder tells the pipeline about them (the flags of Opcodes.h) *)
(* and the results that depend on operands alone.  RSPPipeline executes    *)
(* these operators stage by stage, RSPSequential in one step.              *)
(*                                                                         *)
(* Addresses count words: IMEM is IMemWords .. 2*IMemWords-1 (0x1000 to    *)
(* 0x1FFC in the code, where bit 12 selects IMEM).  DMEM is a set of cells *)
(* picked by an address; how wide and unaligned accesses touch its bytes   *)
(* is not the pipeline's business.                                         *)
(***************************************************************************)
EXTENDS Integers, SPRegisters

CONSTANTS
  NumRegs,     \* scalar registers (32); register 0 reads as zero
  LinkReg,     \* RSP_LINK_REGISTER (31)
  NumVRegs,    \* vector registers (32)
  WordSize,    \* values of a scalar register (2^32)
  IMemWords,   \* instruction words in IMEM (1024)
  DMemCells,   \* cells of DMEM
  Words,       \* the instruction words programs are made of
  Alu(_, _, _),    \* Alu(w, rs, rt): the result of an arithmetic word w
  Vec(_, _, _)     \* Vec(w, vs, vt): the result of a vector word w

Reg == 0 .. NumRegs - 1
VReg == 0 .. NumVRegs - 1
Value == 0 .. WordSize - 1
Cell == 0 .. DMemCells - 1

(***************************************************************************)
(* Opcodes, by what their handlers do.                                     *)
(***************************************************************************)
AluRd == {"ADD", "AND", "NOR", "OR", "SLL", "SLLV", "SLT", "SLTU", "SRA",
          "SRAV", "SRL", "SRLV", "SUB", "XOR"}
AluRt == {"ADDI", "ANDI", "LUI", "ORI", "SLTI", "SLTIU", "XORI"}
CondBranch == {"BEQ", "BGEZ", "BGEZAL", "BGTZ", "BLEZ", "BLTZ", "BLTZAL",
               "BNE"}
Jump == {"J", "JAL", "JALR", "JR"}
Link == {"BGEZAL", "BLTZAL", "JAL", "JALR"}
Move == {"MFC0", "MTC0", "MFC2", "MTC2"}
VectorMemory == {"LQV", "SQV"}

ScalarOp == AluRd \cup AluRt \cup CondBranch \cup Jump \cup Move
            \cup VectorMemory \cup {"BREAK", "LW", "SW"}
VectorOp == {"VECT"}

\* The flags of Opcodes.h the stall logic reads.
NeedRS(op) ==
  op \in (AluRd \ {"SLL", "SRA", "SRL"}) \cup (AluRt \ {"LUI"})
         \cup CondBranch \cup {"JALR", "JR", "LW", "SW"} \cup VectorMemory
NeedRT(op) == op \in AluRd \cup {"BEQ", "BNE", "SW", "SQV"}
IsLoad(op) == op = "LW"
IsVector(op) == op \in VectorOp

\* An instruction word: one record of the fields the handlers extract.  rd
\* and rt name a vector register in MFC2, MTC2, LQV, SQV and vector words,
\* imm the SP register in MFC0 and MTC0.
Field == Reg \cap VReg
InstructionWord ==
  [op : ScalarOp \cup VectorOp, rs : Field, rt : Field, rd : Field, imm : Int]

\* The word 0, which RSPInitPipeline leaves in the fetch latch: SLL r0,r0,0.
NopWord == [op |-> "SLL", rs |-> 0, rt |-> 0, rd |-> 0, imm |-> 0]

AnyWord == Words \cup {NopWord}

ASSUME SizesAssumption ==
  /\ NumRegs \in Nat /\ LinkReg \in 1 .. NumRegs - 1
  /\ NumVRegs \in Nat /\ WordSize \in Nat /\ IMemWords \in Nat
  /\ DMemCells \in Nat
  /\ NumVRegs > 0 /\ WordSize > 1 /\ IMemWords > 0 /\ DMemCells > 0

ASSUME WordsAssumption ==
  /\ Words \subseteq InstructionWord
  /\ \A w \in Words : w.op \in {"MFC0", "MTC0"} => w.imm \in SPRegister

ASSUME AluAssumption ==
  \A w \in AnyWord : \A a, b \in Value :
    Alu(w, a, b) \in Value /\ Vec(w, a, b) \in Value

(***************************************************************************)
(* Addresses.                                                              *)
(***************************************************************************)
InIMem(a) == IMemWords + (a % IMemWords)          \* (a & 0xFFC) | 0x1000
OrIMem(a) ==                                      \* a | 0x1000
  IF (a \div IMemWords) % 2 = 1 THEN a ELSE a + IMemWords
CellOfUnmasked(a) == a                   \* mutant: the address is not masked
CellOf(a) == a % DMemCells
Word(x) == x % WordSize                           \* a 32-bit register

(***************************************************************************)
(* Branches: the condition and the address of each handler of EXStage.c.   *)
(***************************************************************************)
Negative(x) == x >= WordSize \div 2

Taken(op, rs, rt) ==
  \/ op = "BEQ" /\ rs = rt
  \/ op = "BNE" /\ rs # rt
  \/ op \in {"BGEZ", "BGEZAL"} /\ ~Negative(rs)
  \/ op \in {"BLTZ", "BLTZAL"} /\ Negative(rs)
  \/ op = "BGTZ" /\ rs # 0 /\ ~Negative(rs)
  \/ op = "BLEZ" /\ (rs = 0 \/ Negative(rs))
  \/ op \in Jump

\* Where a taken branch goes; next is the address after its own.  JALR is
\* the only one that keeps the bits of rs above the IMEM bit.
Target(w, next, rs) ==
  CASE w.op \in CondBranch -> InIMem(next + w.imm)
    [] w.op \in {"J", "JAL"} -> InIMem(w.imm)
    [] w.op = "JR" -> InIMem(rs)
    [] w.op = "JALR" -> OrIMem(rs)
=============================================================================
