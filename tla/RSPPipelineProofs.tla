-------------------------- MODULE RSPPipelineProofs --------------------------
(***************************************************************************)
(* Theorems about RSPPipeline for every size of its memories and register  *)
(* files, every instruction vocabulary, every ALU and vector unit.         *)
(***************************************************************************)
EXTENDS RSPPipelineProperties, TLAPS

(***************************************************************************)
(* Arithmetic.                                                             *)
(***************************************************************************)

\* A remainder is below its divisor.
LEMMA ModRange ==
  ASSUME NEW x \in Int, NEW n \in Nat, n > 0
  PROVE  x % n \in 0 .. n - 1
OBVIOUS

\* A register wraps to its width.
LEMMA WordType == ASSUME NEW x \in Int PROVE Word(x) \in Value
BY ModRange, SizesAssumption DEF Word, Value

\* Data accesses stay inside DMEM.
LEMMA CellType == ASSUME NEW x \in Int PROVE CellOf(x) \in Cell
BY ModRange, SizesAssumption DEF CellOf, Cell

\* The code's (a & 0xFFC) | 0x1000 is an address of IMEM.
LEMMA InIMemRange ==
  ASSUME NEW a \in Int PROVE InIMem(a) \in IMemWords .. 2 * IMemWords - 1
<1>1. a % IMemWords \in 0 .. IMemWords - 1
  BY ModRange, SizesAssumption
<1>. QED BY <1>1, SizesAssumption DEF InIMem

\* Zero is a register and a value, and NOP an instruction.
LEMMA ZeroTypes ==
  /\ 0 \in Reg /\ 0 \in VReg /\ 0 \in Value /\ LinkReg \in Reg
  /\ NopWord \in InstructionWord
BY SizesAssumption DEF Reg, VReg, Value, NopWord, InstructionWord, Field,
   ScalarOp, AluRd

\* Whatever is fetched is an instruction word.
LEMMA AnyWordType == AnyWord \subseteq InstructionWord
BY ZeroTypes, WordsAssumption DEF AnyWord

\* MFC0 and MTC0 name an SP register that exists.
LEMMA MoveNamesRegister ==
  ASSUME NEW w \in AnyWord, w.op \in {"MFC0", "MTC0"}
  PROVE  w.imm \in SPRegister
BY WordsAssumption DEF AnyWord, NopWord

(***************************************************************************)
(* The SP registers.                                                       *)
(***************************************************************************)
LEMMA StatusWordType ==
  ASSUME NEW status PROVE StatusWord(status) \in Nat
<1>1. \A f \in StatusFlag : Flag(status, f) \in Nat
  BY DEF Flag, StatusFlag, Signals, StatusMask
<1>. QED BY <1>1 DEF StatusWord, StatusFlag, Signals

\* Reads of SP registers give numbers,
LEMMA SPRegReadType ==
  ASSUME NEW s \in SPRegs, NEW r \in SPRegister
  PROVE  /\ SPRegReadData(s, r) \in Int
         /\ SPRegReadEffect(s, r) \in SPRegs
BY StatusWordType
DEF SPRegs, SPRegReadData, SPRegReadEffect, SPRegister, SP_STATUS_REG,
    SP_SEMAPHORE_REG, SP_PC_REG

\* writes leave SP registers,
LEMMA SPRegWriteType ==
  ASSUME NEW s \in SPRegs, NEW r \in SPRegister, NEW data,
         r = SP_PC_REG => data \in Int
  PROVE  SPRegWrite(s, r, data) \in SPRegs
<1>1. CASE r = SP_STATUS_REG
  <2>1. StatusWrite(s.status, data) \subseteq StatusFlag
    BY DEF SPRegs, StatusWrite
  <2>2. InterruptWrite(s.intr, data) \in BOOLEAN
    BY DEF InterruptWrite
  <2>. QED BY <1>1, <2>1, <2>2 DEF SPRegs, SPRegWrite
<1>2. CASE r = SP_SEMAPHORE_REG
  BY <1>2 DEF SPRegs, SPRegWrite, SP_SEMAPHORE_REG, SP_STATUS_REG
<1>3. CASE r = SP_PC_REG
  BY <1>3 DEF SPRegs, SPRegWrite, SP_SEMAPHORE_REG, SP_STATUS_REG, SP_PC_REG
<1>. QED BY <1>1, <1>2, <1>3 DEF SPRegister

\* and a write of the status register goes through StatusWrite.
LEMMA StatusAfterWrite ==
  ASSUME NEW s \in SPRegs, NEW data
  PROVE  SPRegWrite(s, SP_STATUS_REG, data).status
           = StatusWrite(s.status, data)
<1>1. SPRegWrite(s, SP_STATUS_REG, data)
        = [s EXCEPT !.status = StatusWrite(@, data),
                    !.intr = InterruptWrite(@, data)]
  BY DEF SPRegWrite, SP_STATUS_REG, SP_SEMAPHORE_REG, SP_PC_REG
<1>. QED BY <1>1 DEF SPRegs

\* BREAK leaves SP registers.
LEMMA BreakType == ASSUME NEW s \in SPRegs PROVE Break(s) \in SPRegs
<1>1. (s.intr \/ "INTR_BREAK" \in s.status) \in BOOLEAN
  OBVIOUS
<1>. QED BY <1>1 DEF SPRegs, Break, StatusFlag

(***************************************************************************)
(* Type correctness.  The inductive invariant adds to TypeOK that the      *)
(* opcode in RD/EX, if it is not INV, is that of the word it came with:    *)
(* without it an MTC0 might name a register that does not exist.           *)
(***************************************************************************)
OpOfWord == rdex.op # "INV" => rdex.op = rdex.iw.op

TypeInv == TypeOK /\ OpOfWord

\* WB and DF.
LEMMA DFTypes ==
  ASSUME TypeOK
  PROVE  /\ WBRegs \in [Reg -> Value]
         /\ DFResult \in Result
         /\ DFDMem \in [Cell -> Value]
         /\ DFVRegs \in [VReg -> Value]
<1>. USE DEF TypeOK
<1>1. WBRegs \in [Reg -> Value]
  BY DEF WBRegs, Result
<1>2. exdf.mem.fn = "LW" => exdf.mem.cell \in Cell
  BY DEF MemoryData, NoAccess
<1>3. exdf.mem.fn = "SW" => exdf.mem.cell \in Cell /\ exdf.mem.data \in Value
  BY DEF MemoryData, NoAccess
<1>4. exdf.mem.fn \in {"LQV", "SQV"} =>
        exdf.mem.cell \in Cell /\ exdf.mem.target \in VReg
  BY DEF MemoryData, NoAccess
<1>5. DFResult \in Result
  BY <1>2 DEF DFResult, Result
<1>6. DFDMem \in [Cell -> Value]
  BY <1>3, <1>4 DEF DFDMem
<1>7. DFVRegs \in [VReg -> Value]
  BY <1>4 DEF DFVRegs
<1>. QED BY <1>1, <1>5, <1>6, <1>7

\* What RD hands to EX names registers that exist.
LEMMA FieldTypes ==
  ASSUME NEW w \in AnyWord
  PROVE  /\ w.rs \in Reg /\ w.rt \in Reg /\ w.rd \in Reg
         /\ w.rs \in VReg /\ w.rt \in VReg /\ w.rd \in VReg
         /\ w.imm \in Int
         /\ w.op \in ScalarOp \cup VectorOp
BY AnyWordType DEF InstructionWord, Field

\* Forwarded operands are values.
LEMMA OperandType ==
  ASSUME TypeOK, NEW r \in Reg
  PROVE  Operand(r) \in Value
BY DFTypes, ZeroTypes DEF Operand, Result

\* EX and the vector unit, for the word in RD/EX and the one in CP2.
LEMMA EXTypes ==
  ASSUME TypeInv
  PROVE  /\ EXRegs \in [Reg -> Value]
         /\ EXResult \in Result
         /\ EXAccess \in MemoryData
         /\ EXPC \in Int
         /\ EXSP \in SPRegs
         /\ CP2VRegs \in [VReg -> Value]
<1>. DEFINE w == rdex.iw
<1>1. w \in AnyWord /\ w.rs \in Reg /\ w.rt \in Reg /\ w.rd \in Reg
      /\ w.rs \in VReg /\ w.rt \in VReg /\ w.rd \in VReg /\ w.imm \in Int
  BY FieldTypes DEF TypeInv, TypeOK
<1>2. EXrs \in Value /\ EXrt \in Value
  BY OperandType, <1>1 DEF EXrs, EXrt, TypeInv
<1>3. EXRegs \in [Reg -> Value]
  BY DFTypes, ZeroTypes DEF EXRegs, TypeInv
<1>4. rdex.op \in {"MFC0", "MTC0"} => w.imm \in SPRegister
  BY MoveNamesRegister, <1>1 DEF TypeInv, OpOfWord
<1>5. EXResult \in Result
  <2>1. Alu(w, EXrs, EXrt) \in Value
    BY AluAssumption, <1>1, <1>2
  <2>2. Word(ifrd.pc) \in Value
    BY WordType DEF TypeInv, TypeOK
  <2>3. rdex.op = "MFC0" => Word(SPRegReadData(sp, w.imm)) \in Value
    BY SPRegReadType, WordType, <1>4 DEF TypeInv, TypeOK
  <2>4. DFVRegs[w.rd] \in Value
    BY DFTypes, <1>1 DEF TypeInv
  <2>5. exdf.result \in Result
    BY DEF TypeInv, TypeOK
  <2>. QED BY <2>1, <2>2, <2>3, <2>4, <2>5, <1>1, ZeroTypes
           DEF EXResult, Result
<1>6. EXAccess \in MemoryData
  <2>1. CellOf(EXrs + w.imm) \in Cell
    BY CellType, <1>1, <1>2, SizesAssumption DEF Value
  <2>. QED BY <2>1, <1>1, <1>2 DEF EXAccess, MemoryData, VectorMemory, NoAccess
<1>7. EXPC \in Int
  <2>1. rdex.op \in CondBranch \cup Jump => rdex.op = w.op
    BY DEF TypeInv, OpOfWord, CondBranch, Jump
  <2>2. EXrs \in Int /\ rdex.pc \in Int /\ ifrd.pc \in Int
    BY <1>2, SizesAssumption DEF Value, TypeInv, TypeOK
  <2>3. InIMem(rdex.pc + w.imm) \in Int /\ InIMem(w.imm) \in Int
        /\ InIMem(EXrs) \in Int
    BY InIMemRange, <2>2, <1>1, SizesAssumption
  <2>4. OrIMem(EXrs) \in Int
    BY <2>2, SizesAssumption DEF OrIMem
  <2>. QED BY <2>1, <2>2, <2>3, <2>4 DEF EXPC, Target, Jump
<1>8. EXSP \in SPRegs
  <2>1. sp \in SPRegs /\ EXrt \in Int
    BY <1>2, SizesAssumption DEF TypeInv, TypeOK, Value
  <2>2. Break(sp) \in SPRegs
    BY <2>1, BreakType
  <2>3. rdex.op = "MTC0" => SPRegWrite(sp, w.imm, EXrt) \in SPRegs
    BY <2>1, <1>4, SPRegWriteType
  <2>4. rdex.op = "MFC0" => SPRegReadEffect(sp, w.imm) \in SPRegs
    BY <2>1, <1>4, SPRegReadType
  <2>. QED BY <2>1, <2>2, <2>3, <2>4 DEF EXSP
<1>9. EXVRegs \in [VReg -> Value]
  BY DFTypes, <1>1, <1>2 DEF EXVRegs, TypeInv
<1>10. CP2VRegs \in [VReg -> Value]
  <2>1. cp2.iw \in AnyWord /\ cp2.iw.rs \in VReg /\ cp2.iw.rt \in VReg
        /\ cp2.iw.rd \in VReg
    BY FieldTypes DEF TypeInv, TypeOK
  <2>2. Vec(cp2.iw, EXVRegs[cp2.iw.rs], EXVRegs[cp2.iw.rt]) \in Value
    BY AluAssumption, <1>9, <2>1
  <2>. QED BY <1>9, <2>1, <2>2 DEF CP2VRegs
<1>. QED BY <1>3, <1>5, <1>6, <1>7, <1>8, <1>10

\* RD passes on the word in IF/RD and its opcode, or a bubble.
LEMMA RDTypes ==
  ASSUME TypeInv
  PROVE  /\ RDScalar \in [iw : AnyWord, pc : Int, op : ScalarOp \cup {"INV"}]
         /\ RDScalar.op # "INV" => RDScalar.op = RDScalar.iw.op
         /\ RDVector \in [iw : AnyWord, op : VectorOp \cup {"VINV"}]
<1>1. ifrd.firstIW.op \in ScalarOp \cup VectorOp
  BY FieldTypes DEF TypeInv, TypeOK
<1>. QED BY <1>1 DEF RDScalar, RDVector, IsVector, TypeInv, TypeOK

\* What a cycle does, stalled or not, keeps the types of everything up to EX.
LEMMA ExecuteTypes ==
  ASSUME TypeInv, Execute
  PROVE  /\ imem' \in [0 .. IMemWords - 1 -> Words]
         /\ dmem' \in [Cell -> Value]
         /\ regs' \in [Reg -> Value]
         /\ vregs' \in [VReg -> Value]
         /\ sp' \in SPRegs
         /\ exdf' \in [result : Result, mem : MemoryData]
         /\ dfwb' \in Result
         /\ stale' \subseteq StaleWord
<1>1. Aged \subseteq StaleWord
  BY DEF Aged, StaleWord, TypeInv, TypeOK
<1>. QED BY <1>1, EXTypes, DFTypes DEF Execute, TypeInv, TypeOK

\* Fetching finds a word, of the program or outside IMEM.
LEMMA FetchType ==
  ASSUME TypeInv, NEW pc \in Int, NEW iw \in Fetch(pc)
  PROVE  iw \in AnyWord
<1>1. CASE pc \in IMemWords .. 2 * IMemWords - 1
  <2>1. pc - IMemWords \in 0 .. IMemWords - 1
    BY <1>1, SizesAssumption
  <2>. QED BY <1>1, <2>1 DEF Fetch, AnyWord, TypeInv, TypeOK
<1>. QED BY <1>1 DEF Fetch

\* Every reachable state is well typed: no latch, register, SP register or
\* memory cell ever holds, and no step ever uses, a value out of its range,
\* wherever halts, restarts and redirections by the host fall.
THEOREM TypeInvariance == Spec => []TypeInv
<1>1. Init => TypeInv
  <2>. SUFFICES ASSUME Init PROVE TypeInv
    OBVIOUS
  <2>1. NopWord \in AnyWord
    BY DEF AnyWord
  <2>. QED BY <2>1, ZeroTypes, HostAssumption, SizesAssumption
       DEF Init, TypeInv, TypeOK, OpOfWord, InitPipeline, Result, MemoryData,
           SPRegs, StatusFlag
<1>2. TypeInv /\ [Next]_vars => TypeInv'
  <2>. SUFFICES ASSUME TypeInv, [Next]_vars PROVE TypeInv'
    OBVIOUS
  <2>1. CASE StallCycle
    <3>1. ifrd' \in [firstIW : AnyWord, fetchedPC : Int, pc : Int]
      BY <2>1, EXTypes DEF StallCycle, TypeInv, TypeOK
    <3>2. rdex' \in [iw : AnyWord, pc : Int, op : ScalarOp \cup {"INV"}]
          /\ OpOfWord'
      BY <2>1, RDTypes DEF StallCycle, OpOfWord
    <3>3. cp2' \in [iw : AnyWord, op : VectorOp \cup {"VINV"}]
      BY <2>1, RDTypes DEF StallCycle
    <3>4. at' \in [rd : Int, ex : Int]
      BY <2>1 DEF StallCycle, TypeInv, TypeOK
    <3>. QED BY <2>1, <3>1, <3>2, <3>3, <3>4, ExecuteTypes
         DEF StallCycle, TypeInv, TypeOK
  <2>2. CASE FetchCycle
    <3>1. ifrd' \in [firstIW : AnyWord, fetchedPC : Int, pc : Int]
      <4>1. PICK iw \in Fetch(EXPC) : ifrd' = IFStage(iw)
        BY <2>2 DEF FetchCycle
      <4>2. EXPC \in Int /\ iw \in AnyWord
        BY EXTypes, FetchType
      <4>3. InIMem(EXPC + 1) \in Int
        BY <4>2, InIMemRange, SizesAssumption
      <4>. QED BY <4>1, <4>2, <4>3 DEF IFStage
    <3>2. rdex' \in [iw : AnyWord, pc : Int, op : ScalarOp \cup {"INV"}]
          /\ OpOfWord'
      BY <2>2, RDTypes DEF FetchCycle, OpOfWord
    <3>3. cp2' \in [iw : AnyWord, op : VectorOp \cup {"VINV"}]
      BY <2>2, RDTypes DEF FetchCycle
    <3>4. at' \in [rd : Int, ex : Int]
      BY <2>2, EXTypes DEF FetchCycle, TypeInv, TypeOK
    <3>. QED BY <2>2, <3>1, <3>2, <3>3, <3>4, ExecuteTypes
         DEF FetchCycle, TypeInv, TypeOK
  <2>3. CASE HostWritesStatus
    <3>1. sp' \in SPRegs
      BY <2>3, SPRegWriteType
      DEF HostWritesStatus, TypeInv, TypeOK, SPRegister, SP_STATUS_REG,
          SP_PC_REG
    <3>. QED BY <2>3, <3>1
         DEF HostWritesStatus, UnchangedByHost, TypeInv, TypeOK, OpOfWord
  <2>4. CASE HostWritesPC
    <3>1. PICK pc \in HostPCs :
            /\ ifrd' = InitPipeline(InIMem(pc), ifrd.fetchedPC)
            /\ sp' = SPRegWrite(sp, SP_PC_REG, pc)
      BY <2>4 DEF HostWritesPC
    <3>2. pc \in Int
      BY HostAssumption
    <3>3. sp' \in SPRegs
      BY <3>1, <3>2, SPRegWriteType DEF TypeInv, TypeOK, SPRegister
    <3>4. ifrd' \in [firstIW : AnyWord, fetchedPC : Int, pc : Int]
      <4>1. InIMem(pc) \in Int
        BY <3>2, InIMemRange, SizesAssumption
      <4>. QED BY <3>1, <4>1 DEF InitPipeline, AnyWord, TypeInv, TypeOK
    <3>5. rdex' \in [iw : AnyWord, pc : Int, op : ScalarOp \cup {"INV"}]
          /\ OpOfWord'
      BY <2>4 DEF HostWritesPC, TypeInv, TypeOK, OpOfWord
    <3>6. at' \in [rd : Int, ex : Int]
      BY <2>4 DEF HostWritesPC
    <3>. QED BY <2>4, <3>3, <3>4, <3>5, <3>6
         DEF HostWritesPC, UnchangedByHost, TypeInv, TypeOK
  <2>5. CASE HostReadsSemaphore
    <3>1. sp' \in SPRegs
      BY <2>5, SPRegReadType
      DEF HostReadsSemaphore, TypeInv, TypeOK, SPRegister
    <3>. QED BY <2>5, <3>1
         DEF HostReadsSemaphore, UnchangedByHost, TypeInv, TypeOK, OpOfWord
  <2>6. CASE HostClearsSemaphore
    <3>1. sp' \in SPRegs
      BY <2>6, SPRegWriteType
      DEF HostClearsSemaphore, TypeInv, TypeOK, SPRegister
    <3>. QED BY <2>6, <3>1
         DEF HostClearsSemaphore, UnchangedByHost, TypeInv, TypeOK, OpOfWord
  <2>7. CASE HostWritesDMem
    <3>1. dmem' \in [Cell -> Value]
      BY <2>7, HostAssumption DEF HostWritesDMem, TypeInv, TypeOK
    <3>. QED BY <2>7, <3>1
         DEF HostWritesDMem, UnchangedByHost, TypeInv, TypeOK, OpOfWord
  <2>8. CASE HostWritesIMem
    <3>1. PICK d \in HostIMemData :
            /\ imem' = [imem EXCEPT ![d[1]] = d[2]]
            /\ stale' = stale \cup
                          {[at |-> d[1], word |-> imem[d[1]], left |-> 2]}
      BY <2>8 DEF HostWritesIMem
    <3>2. d[1] \in 0 .. IMemWords - 1 /\ d[2] \in Words
      BY HostAssumption
    <3>3. imem' \in [0 .. IMemWords - 1 -> Words]
          /\ stale' \subseteq StaleWord
      BY <3>1, <3>2 DEF StaleWord, TypeInv, TypeOK
    <3>. QED BY <2>8, <3>3 DEF HostWritesIMem, TypeInv, TypeOK, OpOfWord
  <2>9. CASE UNCHANGED vars
    BY <2>9 DEF vars, TypeInv, TypeOK, OpOfWord
  <2>. QED BY <2>1, <2>2, <2>3, <2>4, <2>5, <2>6, <2>7, <2>8, <2>9
       DEF Next, CycleRSP, Host
<1>. QED BY <1>1, <1>2, PTL DEF Spec

\* The part of it TLC checks.
THEOREM TypeCorrect == Spec => []TypeOK
BY TypeInvariance, PTL DEF TypeInv

(***************************************************************************)
(* Issue and fetch.                                                        *)
(***************************************************************************)

\* No cycle ever has both a scalar and a vector word to execute, so that the
\* order in which CycleRSP calls RSPEXStage and RSPCycleCP2 is immaterial,
\* also across stalls and redirections by the host.
THEOREM IssueIsExclusive == Spec => []ExclusiveIssue
<1>1. Init => ExclusiveIssue
  BY DEF Init, ExclusiveIssue
<1>2. TypeInv /\ ExclusiveIssue /\ [Next]_vars => ExclusiveIssue'
  <2>. SUFFICES ASSUME TypeInv, ExclusiveIssue, [Next]_vars
                PROVE  ExclusiveIssue'
    OBVIOUS
  <2>1. CASE StallCycle
    BY <2>1, RDTypes DEF StallCycle, ExclusiveIssue
  <2>2. CASE FetchCycle
    <3>1. RDScalar.op = "INV" \/ RDVector.op = "VINV"
      BY DEF RDScalar, RDVector, TypeInv, TypeOK
    <3>. QED BY <2>2, <3>1 DEF FetchCycle, ExclusiveIssue
  <2>3. CASE HostWritesPC
    BY <2>3 DEF HostWritesPC, ExclusiveIssue, TypeInv, TypeOK
  <2>4. CASE HostWritesStatus \/ HostReadsSemaphore \/ HostClearsSemaphore
             \/ HostWritesDMem \/ HostWritesIMem
    BY <2>4 DEF HostWritesStatus, HostReadsSemaphore, HostClearsSemaphore,
                HostWritesDMem, HostWritesIMem, UnchangedByHost, ExclusiveIssue
  <2>5. CASE UNCHANGED vars
    BY <2>5 DEF vars, ExclusiveIssue
  <2>. QED BY <2>1, <2>2, <2>3, <2>4, <2>5 DEF Next, CycleRSP, Host
<1>. QED BY <1>1, <1>2, TypeInvariance, PTL DEF Spec

\* Wherever branches, jumps and the host lead, the next fetch is from IMEM
\* in a program without JALR, the one handler that does not mask its target.
THEOREM FetchesFromIMem ==
  ASSUME \A w \in Words : w.op # "JALR"
  PROVE  Spec => []PCInIMem
<1>1. Init => PCInIMem
  BY SizesAssumption DEF Init, InitPipeline, PCInIMem
<1>2. TypeInv /\ PCInIMem /\ [Next]_vars => PCInIMem'
  <2>. SUFFICES ASSUME TypeInv, PCInIMem, [Next]_vars PROVE PCInIMem'
    OBVIOUS
  <2>1. EXPC \in IMemWords .. 2 * IMemWords - 1
    <3>1. rdex.op # "JALR"
      BY DEF TypeInv, TypeOK, OpOfWord, AnyWord, NopWord
    <3>2. rdex.iw \in AnyWord /\ rdex.iw.rs \in Reg /\ rdex.iw.imm \in Int
          /\ rdex.pc \in Int
      BY FieldTypes DEF TypeInv, TypeOK
    <3>3. EXrs \in Int
      BY <3>2, OperandType, SizesAssumption DEF EXrs, Value, TypeInv
    <3>4. InIMem(rdex.pc + rdex.iw.imm) \in IMemWords .. 2 * IMemWords - 1
          /\ InIMem(rdex.iw.imm) \in IMemWords .. 2 * IMemWords - 1
          /\ InIMem(EXrs) \in IMemWords .. 2 * IMemWords - 1
      BY <3>2, <3>3, InIMemRange
    <3>5. rdex.op \in CondBranch \cup Jump => rdex.op = rdex.iw.op
      BY DEF TypeInv, OpOfWord, CondBranch, Jump
    <3>. QED BY <3>1, <3>4, <3>5 DEF EXPC, Target, Jump, PCInIMem
  <2>2. CASE StallCycle
    BY <2>1, <2>2 DEF StallCycle, PCInIMem, TypeInv, TypeOK
  <2>3. CASE FetchCycle
    <3>1. PICK iw \in Fetch(EXPC) : ifrd' = IFStage(iw)
      BY <2>3 DEF FetchCycle
    <3>2. InIMem(EXPC + 1) \in IMemWords .. 2 * IMemWords - 1
      BY <2>1, InIMemRange, SizesAssumption
    <3>. QED BY <3>1, <3>2 DEF IFStage, PCInIMem
  <2>4. CASE HostWritesPC
    <3>1. PICK pc \in HostPCs :
            ifrd' = InitPipeline(InIMem(pc), ifrd.fetchedPC)
      BY <2>4 DEF HostWritesPC
    <3>2. InIMem(pc) \in IMemWords .. 2 * IMemWords - 1
      BY HostAssumption, InIMemRange
    <3>. QED BY <3>1, <3>2 DEF InitPipeline, PCInIMem
  <2>5. CASE HostWritesStatus \/ HostReadsSemaphore \/ HostClearsSemaphore
             \/ HostWritesDMem \/ HostWritesIMem
    BY <2>5 DEF HostWritesStatus, HostReadsSemaphore, HostClearsSemaphore,
                HostWritesDMem, HostWritesIMem, PCInIMem
  <2>6. CASE UNCHANGED vars
    BY <2>6 DEF vars, PCInIMem
  <2>. QED BY <2>2, <2>3, <2>4, <2>5, <2>6 DEF Next, CycleRSP, Host
<1>. QED BY <1>1, <1>2, TypeInvariance, PTL DEF Spec

(***************************************************************************)
(* Halting.                                                                *)
(***************************************************************************)

\* The word that halts the RSP leaves no access behind it, and no status
\* write can raise BROKE.
LEMMA HaltingWord ==
  ASSUME TypeInv
  PROVE  /\ ~Halted(sp) /\ Halted(EXSP) => EXAccess.fn = "NULL"
         /\ "BROKE" \in EXSP.status =>
              "BROKE" \in sp.status \/ (Halted(EXSP) /\ EXAccess.fn = "NULL")
<1>1. CASE rdex.op = "BREAK"
  BY <1>1 DEF EXSP, EXAccess, Break, Halted, NoAccess, VectorMemory, TypeInv,
              TypeOK, SPRegs
<1>2. CASE rdex.op = "MTC0"
  <2>1. EXAccess.fn = "NULL"
    BY <1>2 DEF EXAccess, NoAccess, VectorMemory
  <2>2. rdex.iw.imm \in SPRegister
    BY <1>2, MoveNamesRegister DEF TypeInv, TypeOK, OpOfWord
  <2>3. EXSP.status \in {sp.status, StatusWrite(sp.status, EXrt)}
    BY <1>2, <2>2 DEF EXSP, SPRegWrite, SPRegister, SP_STATUS_REG,
       SP_SEMAPHORE_REG, SP_PC_REG, TypeInv, TypeOK, SPRegs
  <2>4. "BROKE" \in EXSP.status => "BROKE" \in sp.status
    BY <2>3 DEF StatusWrite, Sets, SetBit
  <2>. QED BY <2>1, <2>4
<1>3. CASE rdex.op = "MFC0"
  BY <1>3 DEF EXSP, SPRegReadEffect, Halted, TypeInv, TypeOK, SPRegs
<1>4. CASE rdex.op \notin {"BREAK", "MTC0", "MFC0"}
  BY <1>4 DEF EXSP
<1>. QED BY <1>1, <1>2, <1>3, <1>4

\* The cycle in which the RSP halts itself leaves no memory access in EX/DF.
THEOREM HaltDrains == Spec => SelfHaltDrains
<1>1. TypeInv => (CycleRSP /\ Halted(sp)' => exdf'.mem.fn = "NULL")
  BY HaltingWord DEF CycleRSP, StallCycle, FetchCycle, Execute, Halted
<1>. QED BY <1>1, TypeInvariance, PTL DEF SelfHaltDrains

\* If every host write that clears HALT clears BROKE as well, BROKE means that
\* the RSP is halted with all its stores made.  The host may stop and resume it
\* at any cycle; only a BREAK of the program raises BROKE.
THEOREM BrokeIsFinal ==
  ASSUME \A data \in HostStatusData :
           "HALT" \in Clears(data) => "BROKE" \in Clears(data)
  PROVE  Spec => []BrokeMeansDone
<1>1. Init => BrokeMeansDone
  BY DEF Init, BrokeMeansDone
<1>2. TypeInv /\ BrokeMeansDone /\ [Next]_vars => BrokeMeansDone'
  <2>. SUFFICES ASSUME TypeInv, BrokeMeansDone, [Next]_vars
                PROVE  BrokeMeansDone'
    OBVIOUS
  <2>1. CASE CycleRSP
    <3>1. ~Halted(sp) /\ sp' = EXSP /\ exdf'.mem = EXAccess
      BY <2>1 DEF CycleRSP, StallCycle, FetchCycle, Execute
    <3>. QED BY <3>1, HaltingWord DEF BrokeMeansDone, Halted
  <2>2. CASE HostWritesStatus
    <3>1. PICK data \in HostStatusData :
            sp' = SPRegWrite(sp, SP_STATUS_REG, data)
      BY <2>2 DEF HostWritesStatus
    <3>2. sp'.status = StatusWrite(sp.status, data)
      BY <3>1, StatusAfterWrite DEF TypeInv, TypeOK
    <3>3. "BROKE" \in sp'.status => "BROKE" \in sp.status
          /\ "BROKE" \notin Clears(data)
      BY <3>2 DEF StatusWrite, Sets, SetBit
    <3>4. "BROKE" \in sp'.status => "HALT" \in sp'.status
      BY <3>2, <3>3 DEF StatusWrite, BrokeMeansDone, Halted
    <3>. QED BY <2>2, <3>3, <3>4
         DEF HostWritesStatus, UnchangedByHost, BrokeMeansDone, Halted
  <2>3. CASE HostWritesPC
    <3>1. sp'.status = sp.status
      BY <2>3 DEF HostWritesPC, SPRegWrite, SP_PC_REG, SP_STATUS_REG,
                  SP_SEMAPHORE_REG, TypeInv, TypeOK, SPRegs
    <3>. QED BY <2>3, <3>1
         DEF HostWritesPC, UnchangedByHost, BrokeMeansDone, Halted
  <2>4. CASE HostReadsSemaphore \/ HostClearsSemaphore
    <3>1. sp'.status = sp.status
      BY <2>4 DEF HostReadsSemaphore, HostClearsSemaphore, SPRegReadEffect,
                  SPRegWrite, SP_STATUS_REG, SP_SEMAPHORE_REG, TypeInv, TypeOK,
                  SPRegs
    <3>. QED BY <2>4, <3>1
         DEF HostReadsSemaphore, HostClearsSemaphore, UnchangedByHost,
             BrokeMeansDone, Halted
  <2>5. CASE HostWritesDMem \/ HostWritesIMem
    BY <2>5 DEF HostWritesDMem, HostWritesIMem, UnchangedByHost,
                BrokeMeansDone, Halted
  <2>6. CASE UNCHANGED vars
    BY <2>6 DEF vars, BrokeMeansDone, Halted
  <2>. QED BY <2>1, <2>2, <2>3, <2>4, <2>5, <2>6 DEF Next, Host
<1>. QED BY <1>1, <1>2, TypeInvariance, PTL DEF Spec

(***************************************************************************)
(* RSPPipeline implements RSPSequential: every step of the pipeline is,    *)
(* under the mapping of RSPPipelineProperties, one instruction, one action *)
(* of the host, or nothing.                                                *)
(***************************************************************************)

(***************************************************************************)
(* The inductive invariant: what the latches have to do with the addresses *)
(* recorded in at.  The word in IF/RD is the one at at.rd, and pc is the   *)
(* address after it; the word in RD/EX or in CP2, never in both, is the    *)
(* one at at.ex, and RSPRDStage has given it the address after it.  Where  *)
(* at has 0 there is no word, or the word 0 of RSPInitPipeline.  A word at *)
(* an address is the one IMEM has there or, if that was replaced since it  *)
(* was fetched, one stale still has, for as many instructions as it takes  *)
(* to come to execution: two from IF/RD, unless there is a bubble ahead.   *)
(***************************************************************************)
Replaced(a, k) == {s.word : s \in {t \in stale : t.at = a - IMemWords
                                                /\ t.left >= k}}
Held(a, k) == Fetch(a) \cup Replaced(a, k)

FetchedInv ==
  IF at.rd = 0 THEN ifrd.firstIW = NopWord
  ELSE /\ ifrd.firstIW \in Held(at.rd, IF at.ex = 0 THEN 1 ELSE 2)
       /\ ifrd.fetchedPC = at.rd
       /\ ifrd.pc = InIMem(at.rd + 1)

ScalarDecoded ==
  /\ rdex.op = rdex.iw.op /\ rdex.op # "INV" /\ rdex.iw \in Held(at.ex, 1)
  /\ ~IsVector(rdex.op)
  /\ rdex.pc = at.ex + 1
  /\ cp2.op = "VINV"

VectorDecoded ==
  /\ rdex.op = "INV"
  /\ cp2.op = cp2.iw.op /\ IsVector(cp2.op) /\ cp2.iw \in Held(at.ex, 1)

NothingDecoded ==
  /\ rdex.op = "INV" \/ (rdex.op = "SLL" /\ rdex.iw = NopWord)
  /\ cp2.op = "VINV"

DecodedInv ==
  IF at.ex = 0 THEN NothingDecoded
  ELSE at.rd # 0 /\ (ScalarDecoded \/ VectorDecoded)

FlowInv == ifrd.pc # 0 /\ FetchedInv /\ DecodedInv

\* A host that redirects the RSP only when it runs programs without vector
\* words: the vector word in CP2 is the one thing HostWritesPC leaves behind.
NoLeftovers == HostPCs = {} \/ \A w \in Words : ~IsVector(w.op)

\* Address 0 is never fetched from: the IMEM bit is set in every target.
LEMMA TargetNotZero ==
  ASSUME NEW a \in Int
  PROVE  /\ InIMem(a) # 0
         /\ a \in Nat => OrIMem(a) # 0
<1>1. InIMem(a) # 0
  BY InIMemRange, SizesAssumption
<1>2. ASSUME a = 0 PROVE OrIMem(a) # 0
  <2>1. a \div IMemWords = 0
    BY <1>2, SizesAssumption
  <2>. QED BY <1>2, <2>1, SizesAssumption DEF OrIMem
<1>3. ASSUME a \in Nat, a # 0 PROVE OrIMem(a) # 0
  BY <1>3, SizesAssumption DEF OrIMem
<1>. QED BY <1>1, <1>2, <1>3

\* The instruction about to execute has an address if the one behind it has.
LEMMA NextPCNotZero ==
  ASSUME TypeInv, ifrd.pc # 0
  PROVE  EXPC # 0
<1>1. rdex.iw \in AnyWord /\ rdex.iw.rs \in Reg /\ rdex.iw.imm \in Int
      /\ rdex.pc \in Int
  BY FieldTypes DEF TypeInv, TypeOK
<1>2. EXrs \in Nat
  BY <1>1, OperandType, SizesAssumption DEF EXrs, Value, TypeInv
<1>3. InIMem(rdex.pc + rdex.iw.imm) # 0 /\ InIMem(rdex.iw.imm) # 0
      /\ InIMem(EXrs) # 0 /\ OrIMem(EXrs) # 0
  BY <1>1, <1>2, TargetNotZero
<1>4. rdex.op \in CondBranch \cup Jump => rdex.op = rdex.iw.op
  BY DEF TypeInv, OpOfWord, CondBranch, Jump
<1>. QED BY <1>3, <1>4 DEF EXPC, Target, Jump

\* While IMEM does not change, neither do the words an address holds; those it
\* held age with the instructions executed.
LEMMA HeldInCycle ==
  ASSUME TypeInv, Execute
  PROVE  /\ \A pc : Fetch(pc)' = Fetch(pc)
         /\ at.ex = 0 => \A a : Held(a, 1) \subseteq Held(a, 1)'
         /\ at.ex # 0 => \A a : Held(a, 2) \subseteq Held(a, 1)'
<1>1. \A pc : Fetch(pc)' = Fetch(pc)
  BY DEF Execute, Fetch
<1>2. ASSUME at.ex = 0, NEW a PROVE Replaced(a, 1) \subseteq Replaced(a, 1)'
  BY <1>2 DEF Execute, Replaced
<1>3. ASSUME at.ex # 0, NEW a, NEW word \in Replaced(a, 2)
      PROVE  word \in Replaced(a, 1)'
  <2>1. PICK t \in stale : t.at = a - IMemWords /\ t.left >= 2 /\ t.word = word
    BY <1>3 DEF Replaced
  <2>2. t.left = 2 /\ t \in StaleWord
    BY <2>1 DEF StaleWord, TypeInv, TypeOK
  <2>3. [t EXCEPT !.left = 1] \in stale'
    BY <1>3, <2>1, <2>2 DEF Execute, Aged
  <2>. QED BY <2>1, <2>2, <2>3 DEF Replaced, StaleWord
<1>. QED BY <1>1, <1>2, <1>3 DEF Held

\* A write to IMEM leaves every word that was held where it was, in IMEM or
\* among the replaced ones.
LEMMA HeldAcrossWrite ==
  ASSUME TypeInv, HostWritesIMem
  PROVE  \A a : \A k \in 1 .. 2 : Held(a, k) \subseteq Held(a, k)'
<1>1. PICK d \in HostIMemData :
        /\ imem' = [imem EXCEPT ![d[1]] = d[2]]
        /\ stale' = stale \cup {[at |-> d[1], word |-> imem[d[1]], left |-> 2]}
  BY DEF HostWritesIMem
<1>. SUFFICES ASSUME NEW a, NEW k \in 1 .. 2, NEW word \in Held(a, k)
              PROVE  word \in Held(a, k)'
  OBVIOUS
<1>2. CASE word \in Replaced(a, k)
  BY <1>1, <1>2 DEF Held, Replaced
<1>3. CASE word \in Fetch(a)
  <2>1. CASE a \notin IMemWords .. 2 * IMemWords - 1
    BY <1>3, <2>1 DEF Held, Fetch, AnyWord
  <2>2. CASE a \in IMemWords .. 2 * IMemWords - 1
    <3>1. word = imem[a - IMemWords] /\ a - IMemWords \in 0 .. IMemWords - 1
      BY <1>3, <2>2, SizesAssumption DEF Fetch
    <3>2. CASE a - IMemWords # d[1]
      BY <1>1, <2>2, <3>1, <3>2 DEF Held, Fetch, TypeInv, TypeOK
    <3>3. CASE a - IMemWords = d[1]
      <4>1. [at |-> d[1], word |-> word, left |-> 2] \in stale'
        BY <1>1, <3>1, <3>3
      <4>. QED BY <3>3, <4>1 DEF Held, Replaced
    <3>. QED BY <3>2, <3>3
  <2>. QED BY <2>1, <2>2
<1>. QED BY <1>2, <1>3 DEF Held

\* Other steps leave it alone.
LEMMA HeldConstant ==
  ASSUME UNCHANGED <<imem, stale>>
  PROVE  \A a, k : Held(a, k)' = Held(a, k)
BY DEF Held, Replaced, Fetch

\* RD makes the word in IF/RD, and nothing else, the one to execute.
LEMMA Decoding ==
  ASSUME TypeInv
  PROVE  /\ RDScalar.op = ifrd.firstIW.op /\ RDScalar.iw = ifrd.firstIW
            /\ RDScalar.pc = ifrd.fetchedPC + 1
            /\ ~IsVector(RDScalar.op) /\ RDScalar.op # "INV"
            /\ RDVector.op = "VINV"
         \/ /\ RDScalar.op = "INV"
            /\ RDVector.op = ifrd.firstIW.op /\ RDVector.iw = ifrd.firstIW
            /\ IsVector(RDVector.op)
<1>1. ifrd.firstIW.op \in ScalarOp \cup VectorOp
  BY FieldTypes DEF TypeInv, TypeOK
<1>2. "INV" \notin ScalarOp
  BY DEF ScalarOp, AluRd, AluRt, CondBranch, Jump, Move, VectorMemory
<1>3. CASE IsVector(ifrd.firstIW.op)
  BY <1>3 DEF RDScalar, RDVector, TypeInv, TypeOK
<1>4. CASE ~IsVector(ifrd.firstIW.op)
  BY <1>1, <1>2, <1>4 DEF RDScalar, RDVector, IsVector, TypeInv, TypeOK
<1>. QED BY <1>3, <1>4

\* A stall needs a load in RD/EX.
LEMMA StallIsLoad ==
  ASSUME TypeInv, FlowInv, Stall
  PROVE  /\ rdex.op = "LW" /\ EXPC = ifrd.pc
         /\ at.ex # 0 /\ at.rd # 0
<1>1. rdex.op = "LW"
  BY DEF Stall, IsLoadUseStall, IsLoad
<1>2. EXPC = ifrd.pc
  BY <1>1 DEF EXPC, CondBranch, Jump
<1>. QED BY <1>1, <1>2 DEF FlowInv, DecodedInv, NothingDecoded

\* What the latches hold is what was fetched where at says (CycleRSP,
\* RSPInitPipeline), if the host leaves no vector word in CP2.
THEOREM FlowInvariance == ASSUME NoLeftovers PROVE Spec => []FlowInv
<1>1. Init => FlowInv
  BY SizesAssumption
  DEF Init, InitPipeline, FlowInv, FetchedInv, DecodedInv, NothingDecoded
<1>2. TypeInv /\ FlowInv /\ [Next]_vars => FlowInv'
  <2>. SUFFICES ASSUME TypeInv, FlowInv, [Next]_vars PROVE FlowInv'
    OBVIOUS
  <2>1. CASE StallCycle
    <3>1. at.rd # 0 /\ ifrd' = ifrd /\ at'.rd = at.rd /\ at'.ex = 0
          /\ rdex'.op = "INV" /\ cp2'.op = "VINV" /\ imem' = imem
      <4>1. at.rd # 0 /\ EXPC = ifrd.pc
        BY <2>1, StallIsLoad DEF StallCycle
      <4>. QED BY <2>1, <4>1, RDTypes
           DEF StallCycle, Execute, TypeInv, TypeOK
    <3>2. FetchedInv'
      <4>1. at.ex # 0
        BY <2>1, StallIsLoad DEF StallCycle
      <4>2. Held(at.rd, 2) \subseteq Held(at.rd, 1)'
        BY <2>1, <3>1, <4>1, HeldInCycle DEF StallCycle
      <4>. QED BY <3>1, <4>1, <4>2 DEF FlowInv, FetchedInv
    <3>3. DecodedInv'
      BY <3>1 DEF DecodedInv, NothingDecoded
    <3>. QED BY <3>1, <3>2, <3>3 DEF FlowInv
  <2>2. CASE FetchCycle
    <3>1. PICK iw \in Fetch(EXPC) : ifrd' = IFStage(iw)
      BY <2>2 DEF FetchCycle
    <3>2. imem' = imem /\ rdex' = RDScalar /\ cp2' = RDVector
          /\ at' = [rd |-> EXPC, ex |-> at.rd]
      BY <2>2 DEF FetchCycle, Execute
    <3>3. EXPC # 0 /\ EXPC \in Int
      BY NextPCNotZero, EXTypes DEF FlowInv
    <3>4. FetchedInv' /\ ifrd'.pc # 0
      <4>1. InIMem(EXPC + 1) # 0
        BY <3>3, TargetNotZero
      <4>2. iw \in Held(at.rd, IF at.ex = 0 THEN 1 ELSE 2)'
        BY <2>2, <3>1, <3>2, HeldInCycle DEF FetchCycle, Held
      <4>. QED BY <3>1, <3>2, <3>3, <4>1, <4>2 DEF FetchedInv, IFStage
    <3>5. DecodedInv'
      <4>1. CASE at.rd = 0
        <5>1. ifrd.firstIW = NopWord
          BY <4>1 DEF FlowInv, FetchedInv
        <5>2. RDScalar.op = "SLL" /\ RDScalar.iw = NopWord
              /\ RDVector.op = "VINV"
          BY <5>1, Decoding DEF NopWord, IsVector, VectorOp
        <5>. QED BY <3>2, <4>1, <5>2 DEF DecodedInv, NothingDecoded
      <4>2. CASE at.rd # 0
        <5>1. ifrd.firstIW \in Held(at.ex, 1)' /\ at'.ex = at.rd
              /\ ifrd.fetchedPC = at.rd
          <6>1. Held(at.rd, IF at.ex = 0 THEN 1 ELSE 2)
                  \subseteq Held(at.ex, 1)'
            BY <2>2, <3>2, HeldInCycle DEF FetchCycle
          <6>. QED BY <3>2, <4>2, <6>1 DEF FlowInv, FetchedInv
        <5>2. ScalarDecoded' \/ VectorDecoded'
          BY <3>2, <5>1, Decoding DEF ScalarDecoded, VectorDecoded
        <5>. QED BY <3>2, <3>3, <4>2, <5>2 DEF DecodedInv
      <4>. QED BY <4>1, <4>2
    <3>. QED BY <3>4, <3>5 DEF FlowInv
  <2>3. CASE HostWritesPC
    <3>1. PICK pc \in HostPCs :
            ifrd' = InitPipeline(InIMem(pc), ifrd.fetchedPC)
      BY <2>3 DEF HostWritesPC
    <3>2. cp2.op = "VINV"
      <4>1. \A w \in Words : ~IsVector(w.op)
        BY <3>1 DEF NoLeftovers
      <4>2. ~IsVector(cp2.iw.op)
        BY <4>1 DEF TypeInv, TypeOK, AnyWord, NopWord, IsVector, VectorOp
      <4>. QED BY <4>2 DEF FlowInv, DecodedInv, NothingDecoded, ScalarDecoded,
                           VectorDecoded
    <3>3. at' = [rd |-> 0, ex |-> 0] /\ rdex'.op = "INV" /\ cp2' = cp2
      BY <2>3 DEF HostWritesPC, UnchangedByHost, TypeInv, TypeOK
    <3>4. ifrd'.firstIW = NopWord /\ ifrd'.pc # 0
      BY <3>1, TargetNotZero, HostAssumption DEF InitPipeline
    <3>. QED BY <3>2, <3>3, <3>4
         DEF FlowInv, FetchedInv, DecodedInv, NothingDecoded
  <2>4. CASE HostWritesStatus \/ HostReadsSemaphore \/ HostClearsSemaphore
             \/ HostWritesDMem
    <3>1. UNCHANGED <<imem, ifrd, rdex, cp2, at, stale>>
      BY <2>4 DEF HostWritesStatus, HostReadsSemaphore, HostClearsSemaphore,
                  HostWritesDMem, UnchangedByHost
    <3>. QED BY <3>1, HeldConstant
         DEF FlowInv, FetchedInv, DecodedInv, NothingDecoded, ScalarDecoded,
             VectorDecoded
  <2>5. CASE HostWritesIMem
    <3>1. UNCHANGED <<ifrd, rdex, cp2, at>>
      BY <2>5 DEF HostWritesIMem
    <3>2. /\ Held(at.rd, IF at.ex = 0 THEN 1 ELSE 2)
               \subseteq Held(at.rd, IF at.ex = 0 THEN 1 ELSE 2)'
          /\ Held(at.ex, 1) \subseteq Held(at.ex, 1)'
      BY <2>5, <3>1, HeldAcrossWrite
    <3>3. FetchedInv'
      BY <3>1, <3>2 DEF FlowInv, FetchedInv
    <3>4. DecodedInv'
      BY <3>1, <3>2
      DEF FlowInv, DecodedInv, NothingDecoded, ScalarDecoded, VectorDecoded
    <3>. QED BY <3>1, <3>3, <3>4 DEF FlowInv
  <2>6. CASE UNCHANGED vars
    BY <2>6, HeldConstant
    DEF vars, FlowInv, FetchedInv, DecodedInv, NothingDecoded, ScalarDecoded,
        VectorDecoded
  <2>. QED BY <2>1, <2>2, <2>3, <2>4, <2>5, <2>6 DEF Next, CycleRSP, Host
<1>. QED BY <1>1, <1>2, TypeInvariance, PTL DEF Spec

(***************************************************************************)
(* The data a program sees, across one cycle.                              *)
(***************************************************************************)

\* The word a cycle executes.
Executed == IF rdex.op = "INV" THEN cp2.iw ELSE rdex.iw

\* Forwarding: EX reads what the program sees.
LEMMA OperandIsSeen ==
  ASSUME NEW r \in Reg
  PROVE  SeenRegs[r] = Operand(r)
BY DEF SeenRegs, Operand

\* The result that leaves EX is seen at once, and nothing else changes.
LEMMA SeenAfterExecute ==
  ASSUME TypeInv, Execute
  PROVE  /\ DFResult'.dest = EXResult.dest
         /\ DFResult'.data = IF EXAccess.fn = "LW" THEN DFDMem[EXAccess.cell]
                             ELSE EXResult.data
         /\ \A r \in Reg : SeenRegs'[r] =
              IF r = 0 THEN 0
              ELSE IF r = EXResult.dest THEN DFResult'.data ELSE SeenRegs[r]
<1>1. exdf'.result = EXResult /\ exdf'.mem = EXAccess /\ dmem' = DFDMem
      /\ regs' = EXRegs /\ dfwb' = DFResult
  BY DEF Execute
<1>2. EXResult \in Result
  BY EXTypes
<1>3. DFResult'.dest = EXResult.dest
      /\ DFResult'.data = IF EXAccess.fn = "LW" THEN DFDMem[EXAccess.cell]
                          ELSE EXResult.data
  BY <1>1, <1>2 DEF DFResult, Result
<1>4. \A r \in Reg : r # 0 =>
        WBRegs'[r] = IF r = DFResult.dest THEN DFResult.data ELSE WBRegs[r]
  <2>1. WBRegs \in [Reg -> Value] /\ DFResult \in Result
    BY DFTypes DEF TypeInv
  <2>2. EXRegs \in [Reg -> Value]
    BY EXTypes
  <2>3. WBRegs' = [EXRegs EXCEPT ![DFResult.dest] = DFResult.data]
    BY <1>1 DEF WBRegs
  <2>4. \A r \in Reg : r # 0 => EXRegs[r] = WBRegs[r]
    BY <2>1 DEF EXRegs
  <2>. QED BY <2>1, <2>2, <2>3, <2>4
<1>5. \A r \in Reg : SeenRegs'[r] =
        IF r = 0 THEN 0
        ELSE IF r = DFResult'.dest THEN DFResult'.data ELSE WBRegs'[r]
  BY DEF SeenRegs
<1>. QED BY <1>3, <1>4, <1>5 DEF SeenRegs

\* A cycle with nothing to execute changes nothing a program sees.
LEMMA BubbleChangesNothing ==
  ASSUME TypeInv, NothingDecoded, Execute
  PROVE  UNCHANGED <<imem, DFDMem, DFVRegs, SeenRegs, sp>>
<1>1. EXResult.dest = 0 /\ EXResult \in Result
  BY EXTypes
  DEF NothingDecoded, EXResult, NopWord, AluRd, AluRt, Link, TypeInv, TypeOK,
      Result
<1>2. EXAccess = NoAccess /\ EXSP = sp /\ CP2VRegs = DFVRegs
  BY DEF NothingDecoded, EXAccess, EXSP, CP2VRegs, EXVRegs, VectorMemory
<1>3. sp' = sp /\ imem' = imem /\ dmem' = DFDMem /\ vregs' = DFVRegs
      /\ exdf'.mem = NoAccess
  BY <1>2 DEF Execute
<1>4. DFDMem' = DFDMem /\ DFVRegs' = DFVRegs
  BY <1>3 DEF DFDMem, DFVRegs, NoAccess
<1>5. SeenRegs' = SeenRegs
  <2>1. \A r \in Reg : SeenRegs'[r] = SeenRegs[r]
    BY <1>1, SeenAfterExecute DEF SeenRegs
  <2>. QED BY <2>1 DEF SeenRegs
<1>. QED BY <1>3, <1>4, <1>5

\* The word that executes is a word held at its address.
LEMMA ExecutedType ==
  ASSUME TypeInv, FlowInv, at.ex # 0
  PROVE  /\ Executed \in AnyWord
         /\ Executed \in Held(at.ex, 1)
         /\ Executed.rs \in Reg /\ Executed.rt \in Reg /\ Executed.rd \in Reg
         /\ Executed.rs \in VReg /\ Executed.rt \in VReg
         /\ Executed.rd \in VReg /\ Executed.imm \in Int
         /\ \/ /\ rdex.op = Executed.op /\ Executed = rdex.iw
               /\ ~IsVector(Executed.op) /\ cp2.op = "VINV"
               /\ rdex.op # "INV" /\ rdex.pc = at.ex + 1
            \/ /\ rdex.op = "INV" /\ Executed = cp2.iw /\ cp2.op = Executed.op
               /\ IsVector(Executed.op) /\ cp2.op # "VINV"
<1>1. ScalarDecoded \/ VectorDecoded
  BY DEF FlowInv, DecodedInv
<1>2. Executed \in AnyWord
  BY DEF Executed, TypeInv, TypeOK
<1>. QED BY <1>1, <1>2, FieldTypes
     DEF Executed, ScalarDecoded, VectorDecoded, IsVector, VectorOp

\* The instruction set of the instance Seq is the one of the pipeline.
LEMMA SameWords ==
  /\ Seq!AluRd = AluRd /\ Seq!AluRt = AluRt /\ Seq!Link = Link
  /\ Seq!CondBranch = CondBranch /\ Seq!Jump = Jump
  /\ Seq!AnyWord = AnyWord /\ Seq!Reg = Reg /\ Seq!VReg = VReg
BY DEF Seq!AluRd, AluRd, Seq!AluRt, AluRt, Seq!Link, Link, Seq!CondBranch,
       CondBranch, Seq!Jump, Jump, Seq!AnyWord, AnyWord, Seq!NopWord, NopWord,
       Seq!Reg, Reg, Seq!VReg, VReg

\* The abstract machine has the same addresses and words,
LEMMA SameAddresses ==
  ASSUME NEW a
  PROVE  /\ Seq!InIMem(a) = InIMem(a) /\ Seq!OrIMem(a) = OrIMem(a)
         /\ Seq!CellOf(a) = CellOf(a) /\ Seq!Word(a) = Word(a)
BY DEF Seq!InIMem, InIMem, Seq!OrIMem, OrIMem, Seq!CellOf, CellOf, Seq!Word,
       Word

\* the same branch conditions and targets,
LEMMA SameBranches ==
  /\ \A op, a, b : Seq!Taken(op, a, b) = Taken(op, a, b)
  /\ \A w, next, a : w.op \in CondBranch \cup Jump =>
       Seq!Target(w, next, a) = Target(w, next, a)
<1>1. \A op, a, b : Seq!Taken(op, a, b) = Taken(op, a, b)
  BY SameWords DEF Seq!Taken, Taken, Seq!Negative, Negative
<1>2. \A w, next, a : w.op \in CondBranch \cup Jump =>
       Seq!Target(w, next, a) = Target(w, next, a)
  BY SameWords, SameAddresses DEF Seq!Target, Target, CondBranch, Jump
<1>. QED BY <1>1, <1>2

\* and the same SP registers.
LEMMA SameSPRegisters ==
  ASSUME NEW s, NEW r, NEW data
  PROVE  /\ Seq!SPRegWrite(s, r, data) = SPRegWrite(s, r, data)
         /\ Seq!SPRegReadData(s, r) = SPRegReadData(s, r)
         /\ Seq!SPRegReadEffect(s, r) = SPRegReadEffect(s, r)
         /\ Seq!Break(s) = Break(s) /\ Seq!Halted(s) = Halted(s)
         /\ Seq!SP_STATUS_REG = SP_STATUS_REG /\ Seq!SP_PC_REG = SP_PC_REG
         /\ Seq!SP_SEMAPHORE_REG = SP_SEMAPHORE_REG
<1>1. /\ Seq!SP_STATUS_REG = SP_STATUS_REG /\ Seq!SP_PC_REG = SP_PC_REG
      /\ Seq!SP_SEMAPHORE_REG = SP_SEMAPHORE_REG
  BY DEF Seq!SP_STATUS_REG, SP_STATUS_REG, Seq!SP_PC_REG, SP_PC_REG,
         Seq!SP_SEMAPHORE_REG, SP_SEMAPHORE_REG
<1>2. Seq!Clears(data) = Clears(data) /\ Seq!Sets(data) = Sets(data)
      /\ Seq!StatusFlag = StatusFlag
  BY DEF Seq!Clears, Clears, Seq!Sets, Sets, Seq!ClearBit, ClearBit,
         Seq!SetBit, SetBit, Seq!Bit, Bit, Seq!StatusFlag, StatusFlag,
         Seq!Signals, Signals
<1>3. Seq!StatusWrite(s.status, data) = StatusWrite(s.status, data)
      /\ Seq!InterruptWrite(s.intr, data) = InterruptWrite(s.intr, data)
  BY <1>2 DEF Seq!StatusWrite, StatusWrite, Seq!InterruptWrite, InterruptWrite
<1>4. Seq!SPRegWrite(s, r, data) = SPRegWrite(s, r, data)
  BY <1>1, <1>3 DEF Seq!SPRegWrite, SPRegWrite
<1>5. Seq!StatusWord(s.status) = StatusWord(s.status)
  <2>1. \A f : Seq!Flag(s.status, f) = Flag(s.status, f)
    BY DEF Seq!Flag, Flag, Seq!StatusMask, StatusMask
  <2>. QED BY <2>1 DEF Seq!StatusWord, StatusWord
<1>6. Seq!SPRegReadData(s, r) = SPRegReadData(s, r)
  BY <1>1, <1>5 DEF Seq!SPRegReadData, SPRegReadData
<1>. QED BY <1>1, <1>4, <1>6 DEF Seq!SPRegReadEffect, SPRegReadEffect,
         Seq!Break, Break, Seq!Halted, Halted

\* Registers: the destination and the data of the instruction.
LEMMA RegistersRefine ==
  ASSUME TypeInv, FlowInv, at.ex # 0, Execute, NEW w, w = Executed
  PROVE  SeenRegs' = IF Seq!Dest(w) = 0 THEN SeenRegs
                     ELSE [SeenRegs EXCEPT ![Seq!Dest(w)] =
                             Seq!Data(w, SeenRegs[w.rs], SeenRegs[w.rt])]
<1>1. w \in AnyWord /\ w.rs \in Reg /\ w.rt \in Reg /\ w.rd \in Reg
  BY ExecutedType
<1>2. SeenRegs[rdex.iw.rs] = EXrs /\ SeenRegs[rdex.iw.rt] = EXrt
  BY OperandIsSeen, FieldTypes DEF EXrs, EXrt, TypeInv, TypeOK
<1>3. EXResult \in Result /\ DFDMem \in [Cell -> Value]
  BY EXTypes, DFTypes DEF TypeInv
<1>4. EXResult.dest = Seq!Dest(w)
  BY <1>1, ExecutedType, SameWords
  DEF EXResult, Seq!Dest, AluRd, AluRt, Link, Result, TypeInv, TypeOK,
      IsVector, VectorOp
<1>5. Seq!Dest(w) # 0 =>
        DFResult'.data = Seq!Data(w, SeenRegs[w.rs], SeenRegs[w.rt])
  <2>. SUFFICES ASSUME Seq!Dest(w) # 0
                PROVE  DFResult'.data
                         = Seq!Data(w, SeenRegs[w.rs], SeenRegs[w.rt])
    OBVIOUS
  <2>1. w = rdex.iw /\ rdex.op = w.op
        /\ w.op \in AluRd \cup AluRt \cup {"LW", "MFC0", "MFC2"} \cup Link
    BY ExecutedType, SameWords
    DEF Seq!Dest, AluRd, AluRt, Link, IsVector, VectorOp
  <2>2. CASE w.op \in AluRd \cup AluRt
    <3>1. EXAccess = NoAccess /\ EXResult.data = Alu(w, EXrs, EXrt)
      BY <2>1, <2>2 DEF EXAccess, EXResult, AluRd, AluRt, Link, VectorMemory
    <3>. QED BY <1>2, <2>1, <2>2, <3>1, SeenAfterExecute, SameWords
         DEF Seq!Data, AluRd, AluRt, Link, NoAccess
  <2>3. CASE w.op = "LW"
    <3>1. EXAccess = [fn |-> "LW", cell |-> CellOf(EXrs + w.imm)]
      BY <2>1, <2>3 DEF EXAccess, VectorMemory
    <3>2. DFResult'.data = DFDMem[CellOf(EXrs + w.imm)]
      BY <3>1, SeenAfterExecute
    <3>. QED BY <1>2, <2>1, <2>3, <3>2, SameWords, SameAddresses
         DEF Seq!Data, AluRd, AluRt, Link
  <2>4. CASE w.op \in {"MFC0", "MFC2"}
    <3>1. EXAccess = NoAccess
          /\ EXResult.data = IF w.op = "MFC0"
                             THEN Word(SPRegReadData(sp, w.imm))
                             ELSE DFVRegs[w.rd]
      BY <2>1, <2>4 DEF EXAccess, EXResult, AluRd, AluRt, Link, VectorMemory
    <3>. QED BY <2>1, <2>4, <3>1, SeenAfterExecute, SameWords, SameAddresses,
             SameSPRegisters
         DEF Seq!Data, AluRd, AluRt, Link, NoAccess
  <2>5. CASE w.op \in Link
    <3>1. EXAccess = NoAccess /\ EXResult.data = Word(ifrd.pc)
      BY <2>1, <2>5 DEF EXAccess, EXResult, AluRd, AluRt, Link, VectorMemory
    <3>2. ifrd.pc = InIMem(at.rd + 1) /\ at.rd # 0
      BY DEF FlowInv, FetchedInv, DecodedInv
    <3>. QED BY <2>1, <2>5, <3>1, <3>2, SeenAfterExecute, SameWords,
             SameAddresses
         DEF Seq!Data, AluRd, AluRt, Link, NoAccess, NextFetched
  <2>. QED BY <2>1, <2>2, <2>3, <2>4, <2>5
<1>6. \A r \in Reg : SeenRegs'[r] =
        IF r = 0 THEN 0
        ELSE IF r = EXResult.dest THEN DFResult'.data ELSE SeenRegs[r]
  BY SeenAfterExecute
<1>7. SeenRegs[0] = 0 /\ Seq!Dest(w) \in Reg
  BY <1>3, <1>4, ZeroTypes DEF SeenRegs, Result
<1>. QED
  <2>1. CASE Seq!Dest(w) = 0
    BY <1>4, <1>6, <2>1 DEF SeenRegs
  <2>2. CASE Seq!Dest(w) # 0
    BY <1>4, <1>5, <1>6, <1>7, <2>2 DEF SeenRegs
  <2>. QED BY <2>1, <2>2

\* DMEM and the vector registers: the access and the vector result.
LEMMA MemoryRefines ==
  ASSUME TypeInv, FlowInv, at.ex # 0, Execute, NEW w, w = Executed,
         NEW cell, cell = CellOf(SeenRegs[w.rs] + w.imm)
  PROVE  /\ DFDMem' =
              CASE w.op = "SW" -> [DFDMem EXCEPT ![cell] = SeenRegs[w.rt]]
                [] w.op = "SQV" -> [DFDMem EXCEPT ![cell] = DFVRegs[w.rt]]
                [] OTHER -> DFDMem
         /\ DFVRegs' =
              CASE w.op = "LQV" -> [DFVRegs EXCEPT ![w.rt] = DFDMem[cell]]
                [] w.op = "MTC2" ->
                     [DFVRegs EXCEPT ![w.rd] = SeenRegs[w.rt]]
                [] w.op = "VECT" ->
                     [DFVRegs EXCEPT
                        ![w.rd] = Vec(w, DFVRegs[w.rs], DFVRegs[w.rt])]
                [] OTHER -> DFVRegs
<1>1. dmem' = DFDMem /\ vregs' = CP2VRegs /\ exdf'.mem = EXAccess
  BY DEF Execute
<1>2. CASE rdex.op = "INV"
  <2>1. w = cp2.iw /\ w.op = "VECT" /\ cp2.op # "VINV"
    BY <1>2, ExecutedType DEF IsVector, VectorOp
  <2>2. EXAccess = NoAccess /\ EXVRegs = DFVRegs
    BY <1>2 DEF EXAccess, EXVRegs, VectorMemory
  <2>3. CP2VRegs = [DFVRegs EXCEPT
                      ![w.rd] = Vec(w, DFVRegs[w.rs], DFVRegs[w.rt])]
    BY <2>1, <2>2 DEF CP2VRegs
  <2>4. DFDMem' = DFDMem /\ DFVRegs' = CP2VRegs
    BY <1>1, <2>2 DEF DFDMem, DFVRegs, NoAccess
  <2>. QED BY <2>1, <2>3, <2>4
<1>3. CASE rdex.op # "INV"
  <2>1. w = rdex.iw /\ rdex.op = w.op /\ w.op # "VECT" /\ cp2.op = "VINV"
    BY <1>3, ExecutedType DEF IsVector, VectorOp
  <2>2. SeenRegs[w.rs] = EXrs /\ SeenRegs[w.rt] = EXrt
    BY <2>1, OperandIsSeen, ExecutedType DEF EXrs, EXrt
  <2>3. cell = CellOf(EXrs + w.imm) /\ CP2VRegs = EXVRegs
    BY <2>1, <2>2 DEF CP2VRegs
  <2>4. CASE w.op \in {"LW", "SW", "LQV", "SQV"}
    <3>1. EXVRegs = DFVRegs
      BY <2>1, <2>4 DEF EXVRegs
    <3>2. EXAccess.fn = w.op /\ EXAccess.cell = cell
          /\ (w.op = "SW" => EXAccess.data = EXrt)
          /\ (w.op \in {"LQV", "SQV"} => EXAccess.target = w.rt)
      BY <2>1, <2>3, <2>4 DEF EXAccess, VectorMemory
    <3>3. DFDMem' = CASE w.op = "SW" -> [DFDMem EXCEPT ![cell] = EXrt]
                      [] w.op = "SQV" ->
                           [DFDMem EXCEPT ![cell] = DFVRegs[w.rt]]
                      [] OTHER -> DFDMem
      BY <1>1, <2>3, <2>4, <3>1, <3>2 DEF DFDMem
    <3>4. DFVRegs' = IF w.op = "LQV"
                     THEN [DFVRegs EXCEPT ![w.rt] = DFDMem[cell]] ELSE DFVRegs
      BY <1>1, <2>3, <2>4, <3>1, <3>2 DEF DFVRegs
    <3>. QED BY <2>2, <2>4, <3>3, <3>4
  <2>5. CASE w.op \notin {"LW", "SW", "LQV", "SQV"}
    <3>1. EXAccess = NoAccess
      BY <2>1, <2>5 DEF EXAccess, VectorMemory
    <3>2. DFDMem' = DFDMem /\ DFVRegs' = EXVRegs
      BY <1>1, <2>3, <3>1 DEF DFDMem, DFVRegs, NoAccess
    <3>. QED BY <2>1, <2>2, <2>5, <3>2 DEF EXVRegs
  <2>. QED BY <2>4, <2>5
<1>. QED BY <1>2, <1>3

\* The SP registers, and where a taken branch goes.
LEMMA ControlRefines ==
  ASSUME TypeInv, FlowInv, at.ex # 0, NEW w, w = Executed
  PROVE  /\ EXSP = CASE w.op = "BREAK" -> Break(sp)
                     [] w.op = "MTC0" ->
                          SPRegWrite(sp, w.imm, SeenRegs[w.rt])
                     [] w.op = "MFC0" -> SPRegReadEffect(sp, w.imm)
                     [] OTHER -> sp
         /\ EXPC = IF w.op \in CondBranch \cup Jump
                      /\ Taken(w.op, SeenRegs[w.rs], SeenRegs[w.rt])
                   THEN Target(w, at.ex + 1, SeenRegs[w.rs])
                   ELSE ifrd.pc
<1>1. CASE rdex.op = "INV"
  <2>1. w.op = "VECT"
    BY <1>1, ExecutedType DEF IsVector, VectorOp
  <2>. QED BY <1>1, <2>1 DEF EXSP, EXPC, CondBranch, Jump
<1>2. CASE rdex.op # "INV"
  <2>1. w = rdex.iw /\ rdex.op = w.op /\ rdex.pc = at.ex + 1
    BY <1>2, ExecutedType
  <2>2. SeenRegs[w.rs] = EXrs /\ SeenRegs[w.rt] = EXrt
    BY <2>1, OperandIsSeen, ExecutedType DEF EXrs, EXrt
  <2>. QED BY <2>1, <2>2 DEF EXSP, EXPC
<1>. QED BY <1>1, <1>2

(***************************************************************************)
(* The steps.                                                              *)
(***************************************************************************)
SeqPC == IF at.ex = 0 THEN NextFetched ELSE at.ex
SeqNPC == IF at.ex = 0 THEN AfterFetched ELSE NextFetched

\* A pipeline after CreateRSP has begun nothing.
LEMMA InitRefines == Init => Seq!Init
<1>. SUFFICES ASSUME Init PROVE Seq!Init
  OBVIOUS
<1>1. DFDMem = dmem /\ DFVRegs = vregs
  BY DEF Init, DFDMem, DFVRegs, NoAccess
<1>2. SeenRegs = [r \in Reg |-> 0]
  BY DEF Init, SeenRegs, DFResult, WBRegs, NoAccess
<1>3. SeqPC = IMemWords /\ SeqNPC = InIMem(IMemWords + 1)
  BY DEF Init, SeqPC, SeqNPC, NextFetched, AfterFetched, InitPipeline
<1>. QED BY <1>1, <1>2, <1>3, SameWords, SameAddresses
     DEF Init, Seq!Init, SeqPC, SeqNPC

\* A cycle with a word in EX or CP2 is one instruction of RSPSequential.
LEMMA ExecuteRefines ==
  ASSUME TypeInv, FlowInv, at.ex # 0, Execute, ~Halted(sp),
         SeqPC' = at.rd, SeqNPC' = EXPC
  PROVE  Seq!Step
<1>. DEFINE w == Executed
            cell == CellOf(SeenRegs[w.rs] + w.imm)
<1>1. at.rd # 0 /\ SeqPC = at.ex /\ SeqNPC = at.rd
      /\ ifrd.pc = InIMem(at.rd + 1)
  BY DEF FlowInv, DecodedInv, FetchedInv, SeqPC, SeqNPC, NextFetched
<1>2. w \in Seq!Instruction
  BY <1>1, ExecutedType, SameWords
  DEF Seq!Instruction, Held, Replaced, Fetch, SeqPC, TypeInv, TypeOK,
      StaleWord
<1>3. sp' = EXSP /\ imem' = imem /\ stale' = Aged
  BY DEF Execute
<1>4. Seq!Execute(w)
  <2>1. SeenRegs' = IF Seq!Dest(w) = 0 THEN SeenRegs
                    ELSE [SeenRegs EXCEPT ![Seq!Dest(w)] =
                            Seq!Data(w, SeenRegs[w.rs], SeenRegs[w.rt])]
    BY RegistersRefine
  <2>2. DFDMem' =
          CASE w.op = "SW" -> [DFDMem EXCEPT ![cell] = SeenRegs[w.rt]]
            [] w.op = "SQV" -> [DFDMem EXCEPT ![cell] = DFVRegs[w.rt]]
            [] OTHER -> DFDMem
    BY MemoryRefines
  <2>3. DFVRegs' =
          CASE w.op = "LQV" -> [DFVRegs EXCEPT ![w.rt] = DFDMem[cell]]
            [] w.op = "MTC2" -> [DFVRegs EXCEPT ![w.rd] = SeenRegs[w.rt]]
            [] w.op = "VECT" ->
                 [DFVRegs EXCEPT
                    ![w.rd] = Vec(w, DFVRegs[w.rs], DFVRegs[w.rt])]
            [] OTHER -> DFVRegs
    BY MemoryRefines
  <2>4. sp' = CASE w.op = "BREAK" -> Seq!Break(sp)
                [] w.op = "MTC0" -> Seq!SPRegWrite(sp, w.imm, SeenRegs[w.rt])
                [] w.op = "MFC0" -> Seq!SPRegReadEffect(sp, w.imm)
                [] OTHER -> sp
    BY <1>3, ControlRefines, SameSPRegisters
  <2>5. SeqNPC' =
          IF w.op \in Seq!CondBranch \cup Seq!Jump
             /\ Seq!Taken(w.op, SeenRegs[w.rs], SeenRegs[w.rt])
          THEN Seq!Target(w, SeqPC + 1, SeenRegs[w.rs])
          ELSE Seq!InIMem(SeqNPC + 1)
    BY <1>1, ControlRefines, SameBranches, SameWords, SameAddresses
  <2>6. Seq!CellOf(SeenRegs[w.rs] + w.imm) = cell
    BY SameAddresses
  <2>. QED BY <1>1, <1>3, <2>1, <2>2, <2>3, <2>4, <2>5, <2>6
       DEF Seq!Execute, SeqPC, SeqNPC, Aged
<1>. QED BY <1>2, <1>4, SameSPRegisters DEF Seq!Step

\* A cycle is an instruction or a stutter.
LEMMA CycleRefines ==
  ASSUME TypeInv, FlowInv, CycleRSP
  PROVE  [Seq!Next]_Seq!seqvars
<1>1. Execute /\ ~Halted(sp)
  BY DEF CycleRSP, StallCycle, FetchCycle
<1>2. CASE StallCycle
  <2>1. at.ex # 0 /\ at.rd # 0 /\ EXPC = ifrd.pc
    BY <1>2, StallIsLoad DEF StallCycle
  <2>2. at'.ex = 0 /\ at'.rd = at.rd /\ ifrd'.pc = EXPC
    BY <1>2 DEF StallCycle, TypeInv, TypeOK
  <2>3. SeqPC' = at.rd /\ SeqNPC' = EXPC
    BY <2>1, <2>2 DEF SeqPC, SeqNPC, NextFetched, AfterFetched
  <2>. QED BY <1>1, <2>1, <2>3, ExecuteRefines DEF Seq!Next
<1>3. CASE FetchCycle
  <2>1. PICK iw \in Fetch(EXPC) : ifrd' = IFStage(iw)
    BY <1>3 DEF FetchCycle
  <2>2. at' = [rd |-> EXPC, ex |-> at.rd] /\ ifrd'.pc = InIMem(EXPC + 1)
        /\ EXPC # 0
    BY <1>3, <2>1, NextPCNotZero DEF FetchCycle, IFStage, FlowInv
  <2>3. CASE at.ex # 0
    <3>1. SeqPC' = at.rd /\ SeqNPC' = EXPC
      BY <2>2, <2>3
      DEF SeqPC, SeqNPC, NextFetched, AfterFetched, FlowInv, DecodedInv
    <3>. QED BY <1>1, <2>3, <3>1, ExecuteRefines DEF Seq!Next
  <2>4. CASE at.ex = 0
    <3>1. NothingDecoded
      BY <2>4 DEF FlowInv, DecodedInv
    <3>2. UNCHANGED <<imem, DFDMem, DFVRegs, SeenRegs, sp, stale>>
      BY <1>1, <2>4, <3>1, BubbleChangesNothing DEF Execute
    <3>3. EXPC = ifrd.pc
      BY <3>1 DEF NothingDecoded, EXPC, CondBranch, Jump
    <3>4. SeqPC' = SeqPC /\ SeqNPC' = SeqNPC
      BY <2>2, <2>4, <3>3
      DEF SeqPC, SeqNPC, NextFetched, AfterFetched, FlowInv, FetchedInv
    <3>. QED BY <3>2, <3>4 DEF Seq!seqvars, SeqPC, SeqNPC
  <2>. QED BY <2>3, <2>4
<1>. QED BY <1>2, <1>3 DEF CycleRSP

\* What the program sees does not depend on the latches before EX or on the
\* SP registers, so that the host may write those.
LEMMA SeenUnchanged ==
  ASSUME UNCHANGED <<dmem, regs, vregs, exdf, dfwb>>
  PROVE  UNCHANGED <<DFDMem, DFVRegs, SeenRegs>>
BY DEF DFDMem, DFVRegs, SeenRegs, DFResult, WBRegs

\* Host accesses to SP registers are the same on both sides.
LEMMA HostRegisterRefines ==
  ASSUME TypeInv, HostWritesStatus \/ HostReadsSemaphore
                  \/ HostClearsSemaphore
  PROVE  Seq!Next
<1>1. UNCHANGED <<imem, DFDMem, DFVRegs, SeenRegs, SeqPC, SeqNPC, stale>>
  BY SeenUnchanged
  DEF HostWritesStatus, HostReadsSemaphore, HostClearsSemaphore,
      UnchangedByHost, SeqPC, SeqNPC, NextFetched, AfterFetched
<1>2. CASE HostWritesStatus
  BY <1>1, <1>2, SameSPRegisters
  DEF HostWritesStatus, Seq!HostWritesStatus, Seq!Next, SeqPC, SeqNPC
<1>3. CASE HostReadsSemaphore \/ HostClearsSemaphore
  BY <1>1, <1>3, SameSPRegisters
  DEF HostReadsSemaphore, HostClearsSemaphore, Seq!HostUsesTheSemaphore,
      Seq!Next, SeqPC, SeqNPC
<1>. QED BY <1>2, <1>3

\* RSPInitPipeline drops what was fetched: the next instruction is at the new
\* PC.
LEMMA HostPCRefines ==
  ASSUME TypeInv, HostWritesPC
  PROVE  Seq!Next
<1>1. PICK pc \in HostPCs :
        /\ ifrd' = InitPipeline(InIMem(pc), ifrd.fetchedPC)
        /\ sp' = SPRegWrite(sp, SP_PC_REG, pc)
  BY DEF HostWritesPC
<1>2. UNCHANGED <<imem, DFDMem, DFVRegs, SeenRegs>> /\ stale' = {}
  BY SeenUnchanged DEF HostWritesPC, UnchangedByHost
<1>3. SeqPC' = InIMem(pc) /\ SeqNPC' = InIMem(InIMem(pc) + 1)
  BY <1>1 DEF HostWritesPC, InitPipeline, SeqPC, SeqNPC, NextFetched,
              AfterFetched
<1>. QED BY <1>1, <1>2, <1>3, SameAddresses, SameSPRegisters
     DEF Seq!HostWritesPC, Seq!Next, SeqPC, SeqNPC

\* A host that writes DMEM only after a BREAK finds no access under way that
\* its write could overtake.
LEMMA HostDMemRefines ==
  ASSUME TypeInv, HostWritesDMem, HostAwaitsBreak, BrokeMeansDone
  PROVE  Seq!Next
<1>1. exdf.mem.fn = "NULL" /\ {"HALT", "BROKE"} \subseteq sp.status
  BY DEF HostWritesDMem, BrokeMeansDone
<1>2. UNCHANGED <<imem, regs, vregs, sp, ifrd, at, stale, exdf, dfwb>>
  BY DEF HostWritesDMem, UnchangedByHost
<1>3. DFDMem = dmem /\ DFDMem' = dmem' /\ DFVRegs' = DFVRegs
      /\ SeenRegs' = SeenRegs
  BY <1>1, <1>2 DEF DFDMem, DFVRegs, SeenRegs, DFResult, WBRegs
<1>4. SeqPC' = SeqPC /\ SeqNPC' = SeqNPC
  BY <1>2 DEF SeqPC, SeqNPC, NextFetched, AfterFetched
<1>5. \E d \in HostDMemData : dmem' = [dmem EXCEPT ![d[1]] = d[2]]
  BY DEF HostWritesDMem
<1>. QED BY <1>1, <1>2, <1>3, <1>4, <1>5
     DEF Seq!HostWritesDMem, Seq!Next, SeqPC, SeqNPC

\* A word of IMEM is replaced; a latch may still hold the old one.
LEMMA HostIMemRefines ==
  ASSUME TypeInv, HostWritesIMem
  PROVE  Seq!Next
<1>1. UNCHANGED <<dmem, regs, vregs, sp, ifrd, at, exdf, dfwb>>
  BY DEF HostWritesIMem
<1>2. UNCHANGED <<DFDMem, DFVRegs, SeenRegs, SeqPC, SeqNPC>>
  BY <1>1, SeenUnchanged DEF SeqPC, SeqNPC, NextFetched, AfterFetched
<1>. QED BY <1>1, <1>2
     DEF HostWritesIMem, Seq!HostWritesIMem, Seq!Next, SeqPC, SeqNPC

\* The pipeline executes a program one instruction after the other: for every
\* program, every ALU and vector unit and every size of the machine, with the
\* host halting and resuming it at any cycle, what it has in flight never shows,
\* except that a word replaced in IMEM may still be among the next two executed.
\* Two things the host must respect, or there must be no need to: it redirects
\* the RSP only if no vector word can be left in CP2, and writes DMEM only when
\* it finds BROKE, having cleared BROKE whenever it cleared HALT.
THEOREM PipelineIsSequential ==
  ASSUME NoLeftovers,
         \/ HostDMemData = {}
         \/ /\ HostAwaitsBreak
            /\ \A data \in HostStatusData :
                 "HALT" \in Clears(data) => "BROKE" \in Clears(data)
  PROVE  Spec => RefinesSequential
<1>1. Spec => [](HostDMemData = {} \/ (HostAwaitsBreak /\ BrokeMeansDone))
  <2>1. CASE HostDMemData = {}
    BY <2>1, PTL
  <2>2. CASE /\ HostAwaitsBreak
             /\ \A data \in HostStatusData :
                  "HALT" \in Clears(data) => "BROKE" \in Clears(data)
    BY <2>2, BrokeIsFinal, PTL
  <2>. QED BY <2>1, <2>2
<1>2. ASSUME TypeInv, FlowInv, [Next]_vars,
             HostDMemData = {} \/ (HostAwaitsBreak /\ BrokeMeansDone)
      PROVE  [Seq!Next]_Seq!seqvars
  <2>1. CASE CycleRSP
    BY <1>2, <2>1, CycleRefines
  <2>2. CASE HostWritesStatus \/ HostReadsSemaphore \/ HostClearsSemaphore
    BY <1>2, <2>2, HostRegisterRefines
  <2>3. CASE HostWritesPC
    BY <1>2, <2>3, HostPCRefines
  <2>4. CASE HostWritesDMem
    <3>1. HostDMemData # {}
      BY <2>4 DEF HostWritesDMem
    <3>. QED BY <1>2, <2>4, <3>1, HostDMemRefines
  <2>5. CASE HostWritesIMem
    BY <1>2, <2>5, HostIMemRefines
  <2>6. CASE UNCHANGED vars
    <3>1. UNCHANGED <<imem, sp, stale, DFDMem, DFVRegs, SeenRegs>>
      BY <2>6, SeenUnchanged DEF vars
    <3>2. SeqPC' = SeqPC /\ SeqNPC' = SeqNPC
      BY <2>6 DEF vars, SeqPC, SeqNPC, NextFetched, AfterFetched
    <3>. QED BY <3>1, <3>2 DEF Seq!seqvars, SeqPC, SeqNPC
  <2>. QED BY <1>2, <2>1, <2>2, <2>3, <2>4, <2>5, <2>6 DEF Next, Host
<1>. QED BY <1>1, <1>2, InitRefines, TypeInvariance, FlowInvariance, PTL
     DEF Spec, RefinesSequential, Seq!Spec

\* A load costs at most one cycle: the word a stall holds back is decoded in
\* the next cycle and, whatever it is, not held back again.
THEOREM LoadCostsOneCycle == ASSUME NoLeftovers PROVE Spec => OneBubble
<1>1. TypeInv /\ FlowInv => (StallCycle => at.ex # 0)
  BY StallIsLoad DEF StallCycle
<1>. QED BY <1>1, TypeInvariance, FlowInvariance, PTL DEF OneBubble
=============================================================================
