----------------------------- MODULE RSPPipeline -----------------------------
(***************************************************************************)
(* The five-stage scalar pipeline of the RSP with the vector unit behind   *)
(* it (Pipeline.c, IFStage.c, RDStage.c, EXStage.c, DFStage.c, WBStage.c,  *)
(* CP0.c, CP2.c), and the host that drives it: one CycleRSP per clock, and *)
(* between two clocks any of the bus accesses of Interface.c.              *)
(*                                                                         *)
(* CycleRSP runs the stages in reverse order, so each stage reads what the *)
(* one before it left in the previous cycle: WB, DF, EX, the vector unit,  *)
(* RD, and IF unless RD found a stall.  Below there is one section per     *)
(* stage; a stage's operators give the state it leaves, computed from the  *)
(* current state and from the operators of the stages already run.         *)
(***************************************************************************)
EXTENDS RSPISA

CONSTANTS
  Programs,        \* what the host may have loaded into IMEM
  HostStatusData,  \* what the host writes to SP_STATUS_REG
  HostPCs,         \* what the host writes to SP_PC_REG
  HostUsesSemaphore,
  HostDMemData,    \* <<cell, value>> pairs the host writes to DMEM ...
  HostAwaitsBreak, \* ... and whether it does so only after a BREAK
  HostIMemData,    \* <<address, word>> pairs it writes to IMEM
  DMemImages       \* what DMEM may hold when the RSP is started

ASSUME HostAssumption ==
  /\ Programs \subseteq [0 .. IMemWords - 1 -> Words]
  /\ HostPCs \subseteq Int
  /\ HostDMemData \subseteq Cell \X Value
  /\ HostIMemData \subseteq (0 .. IMemWords - 1) \X Words
  /\ DMemImages \subseteq [Cell -> Value]

VARIABLES
  imem, dmem,      \* the two memories
  regs, vregs,     \* scalar and vector register files
  sp,              \* cp0.regs and the SP interrupt line
  ifrd,            \* fetched: firstIW at fetchedPC; pc is fetched next
  rdex,            \* decoded scalar word; op is "INV" when there is none
  cp2,             \* decoded vector word; op is "VINV" when there is none
  exdf,            \* result of EX and the memory access it asks for
  dfwb,            \* result on its way to the register file
  at,              \* history: the address of the word in IF/RD and of the
                   \* one in RD/EX or CP2, 0 for a bubble
  stale            \* history: the words replaced in IMEM that may still be
                   \* executed, and within how many instructions

vars ==
  <<imem, dmem, regs, vregs, sp, ifrd, rdex, cp2, exdf, dfwb, at, stale>>

NoAccess == [fn |-> "NULL"]
MemoryData ==
  {NoAccess} \cup [fn : {"LW"}, cell : Cell]
             \cup [fn : {"SW"}, cell : Cell, data : Value]
             \cup [fn : {"LQV", "SQV"}, cell : Cell, target : VReg]

Result == [data : Value, dest : Reg]

StaleWord == [at : 0 .. IMemWords - 1, word : Words, left : 1 .. 2]

(***************************************************************************)
(* CreateRSP, after which the host has copied a program into IMEM and data *)
(* into DMEM: everything is zero, the RSP is halted.                       *)
(***************************************************************************)
InitPipeline(pc, fetchedPC) ==
  [firstIW |-> NopWord, fetchedPC |-> fetchedPC, pc |-> pc]

Init ==
  /\ imem \in Programs
  /\ dmem \in DMemImages
  /\ regs = [r \in Reg |-> 0]
  /\ vregs = [v \in VReg |-> 0]
  /\ sp = [status |-> {"HALT"}, sem |-> 0, pc |-> 0, intr |-> FALSE]
  /\ ifrd = InitPipeline(IMemWords, 0)
  /\ rdex = [iw |-> NopWord, pc |-> 0, op |-> "INV"]
  /\ cp2 = [iw |-> NopWord, op |-> "VINV"]
  /\ exdf = [result |-> [data |-> 0, dest |-> 0], mem |-> NoAccess]
  /\ dfwb = [data |-> 0, dest |-> 0]
  /\ at = [rd |-> 0, ex |-> 0]
  /\ stale = {}

(***************************************************************************)
(* WB: the result leaves the pipeline, whatever its destination, so that   *)
(* regs[0] may come to hold anything.                                      *)
(***************************************************************************)
WBRegs == [regs EXCEPT ![dfwb.dest] = dfwb.data]

(***************************************************************************)
(* DF: the result moves on; a pending access is made, once, a load         *)
(* replacing the data of the result on its way.                            *)
(***************************************************************************)
DFResult ==
  IF exdf.mem.fn = "LW" THEN [exdf.result EXCEPT !.data = dmem[exdf.mem.cell]]
                        ELSE exdf.result
DFDMem ==
  CASE exdf.mem.fn = "SW" -> [dmem EXCEPT ![exdf.mem.cell] = exdf.mem.data]
    [] exdf.mem.fn = "SQV" ->
         [dmem EXCEPT ![exdf.mem.cell] = vregs[exdf.mem.target]]
    [] OTHER -> dmem
DFVRegs ==
  IF exdf.mem.fn = "LQV"
  THEN [vregs EXCEPT ![exdf.mem.target] = dmem[exdf.mem.cell]] ELSE vregs

(***************************************************************************)
(* EX: operands are read with the result in DF/WB forwarded and register 0 *)
(* forced to zero; the forwarded register is then restored, unless it is   *)
(* not register 0, which keeps the zero.                                   *)
(***************************************************************************)
EXRegs == IF DFResult.dest = 0 THEN WBRegs ELSE [WBRegs EXCEPT ![0] = 0]

\* Mutant: no forwarding from DF/WB.
OperandUnforwarded(r) == IF r = 0 THEN 0 ELSE WBRegs[r]

Operand(r) ==
  IF r = 0 THEN 0
  ELSE IF r = DFResult.dest THEN DFResult.data ELSE WBRegs[r]

EXrs == Operand(rdex.iw.rs)
EXrt == Operand(rdex.iw.rt)

\* The scalar function called: the opcode in RD/EX, none in a bubble.
EXResult ==
  LET w == rdex.iw IN
  CASE rdex.op \in AluRd -> [data |-> Alu(w, EXrs, EXrt), dest |-> w.rd]
    [] rdex.op \in AluRt -> [data |-> Alu(w, EXrs, EXrt), dest |-> w.rt]
    [] rdex.op \in Link -> [data |-> Word(ifrd.pc), dest |-> LinkReg]
    [] rdex.op = "LW" -> [exdf.result EXCEPT !.dest = w.rt]
    [] rdex.op = "MFC0" ->
         [data |-> Word(SPRegReadData(sp, w.imm)), dest |-> w.rt]
    [] rdex.op = "MFC2" -> [data |-> DFVRegs[w.rd], dest |-> w.rt]
    [] rdex.op = "MTC0" -> [data |-> 0, dest |-> 0]
    [] OTHER -> [exdf.result EXCEPT !.dest = 0]

\* Mutant: a memory function once set stays set.
EXAccessKept ==
  LET w == rdex.iw
      cell == CellOf(EXrs + w.imm) IN
  CASE rdex.op = "LW" -> [fn |-> "LW", cell |-> cell]
    [] rdex.op = "SW" -> [fn |-> "SW", cell |-> cell, data |-> EXrt]
    [] rdex.op \in VectorMemory ->
         [fn |-> rdex.op, cell |-> cell, target |-> w.rt]
    [] OTHER -> exdf.mem

EXAccess ==
  LET w == rdex.iw
      cell == CellOf(EXrs + w.imm) IN
  CASE rdex.op = "LW" -> [fn |-> "LW", cell |-> cell]
    [] rdex.op = "SW" -> [fn |-> "SW", cell |-> cell, data |-> EXrt]
    [] rdex.op \in VectorMemory ->
         [fn |-> rdex.op, cell |-> cell, target |-> w.rt]
    [] OTHER -> NoAccess

\* Mutant: branches are relative to the fetch address.
EXPCFromFetch ==
  IF rdex.op \in CondBranch \cup Jump /\ Taken(rdex.op, EXrs, EXrt)
  THEN Target(rdex.iw, ifrd.pc, EXrs) ELSE ifrd.pc

EXPC ==
  IF rdex.op \in CondBranch \cup Jump /\ Taken(rdex.op, EXrs, EXrt)
  THEN Target(rdex.iw, rdex.pc, EXrs) ELSE ifrd.pc

EXSP ==
  CASE rdex.op = "BREAK" -> Break(sp)
    [] rdex.op = "MTC0" -> SPRegWrite(sp, rdex.iw.imm, EXrt)
    [] rdex.op = "MFC0" -> SPRegReadEffect(sp, rdex.iw.imm)
    [] OTHER -> sp

EXVRegs ==
  IF rdex.op = "MTC2" THEN [DFVRegs EXCEPT ![rdex.iw.rd] = EXrt] ELSE DFVRegs

(***************************************************************************)
(* RSPCycleCP2: the vector word decoded in the last cycle executes.        *)
(***************************************************************************)
\* Mutant: the vector unit runs before DF and EX.
CP2VRegsFirst ==
  LET w == cp2.iw IN
  IF cp2.op = "VINV" THEN EXVRegs
  ELSE [vregs EXCEPT ![w.rd] = Vec(w, vregs[w.rs], vregs[w.rt])]

CP2VRegs ==
  LET w == cp2.iw IN
  IF cp2.op = "VINV" THEN EXVRegs
  ELSE [EXVRegs EXCEPT ![w.rd] = Vec(w, EXVRegs[w.rs], EXVRegs[w.rt])]

(***************************************************************************)
(* RD: the fetched word goes to the scalar or to the vector side and       *)
(* invalidates the other.  (Dual issue is compiled out.)                   *)
(***************************************************************************)
RDScalar ==
  IF IsVector(ifrd.firstIW.op) THEN [rdex EXCEPT !.op = "INV"]
  ELSE [iw |-> ifrd.firstIW, pc |-> ifrd.fetchedPC + 1, op |-> ifrd.firstIW.op]

\* Mutant: a scalar word leaves the vector word in CP2.
RDVectorKept ==
  IF IsVector(ifrd.firstIW.op)
  THEN [iw |-> ifrd.firstIW, op |-> ifrd.firstIW.op] ELSE cp2

RDVector ==
  IF IsVector(ifrd.firstIW.op)
  THEN [iw |-> ifrd.firstIW, op |-> ifrd.firstIW.op]
  ELSE [cp2 EXCEPT !.op = "VINV"]

(***************************************************************************)
(* Stalls.  Both tests look at the opcode RD just produced.  IsLoadStore-  *)
(* Stall needs the flags of exdf.opcode, which nothing sets after          *)
(* RSPInitPipeline: they are those of INV, so it never fires.              *)
(* IsLoadUseStall is given the flags of the word that just executed for EX *)
(* and for DF alike, and the source registers of that word.                *)
(***************************************************************************)
\* Mutant: any word may be waited for, not only a load.
IsUseStall(rdOp, exOp, exDest, dfDest, rsSource, rtSource) ==
  \/ NeedRS(rdOp) /\ rsSource \in {exDest, dfDest}
  \/ NeedRT(rdOp) /\ rtSource \in {exDest, dfDest}

IsLoadUseStall(rdOp, exOp, exDest, dfDest, rsSource, rtSource) ==
  /\ IsLoad(exOp)
  /\ \/ NeedRS(rdOp) /\ rsSource \in {exDest, dfDest}
     \/ NeedRT(rdOp) /\ rtSource \in {exDest, dfDest}

Stall ==
  IsLoadUseStall(RDScalar.op, rdex.op, EXResult.dest, DFResult.dest,
                 rdex.iw.rs, rdex.iw.rt)

(***************************************************************************)
(* IF: fetch the word at pc, go on to the next one inside IMEM.  A pc      *)
(* outside IMEM, which only JALR can produce, reads whatever lies there.   *)
(***************************************************************************)
\* Mutant: a word that is in the latch is not fetched again.
FetchUnlessFetched(pc) ==
  IF pc = ifrd.fetchedPC THEN {ifrd.firstIW}
  ELSE IF pc \in IMemWords .. 2 * IMemWords - 1 THEN {imem[pc - IMemWords]}
  ELSE AnyWord

Fetch(pc) ==
  IF pc \in IMemWords .. 2 * IMemWords - 1 THEN {imem[pc - IMemWords]}
  ELSE AnyWord

\* Mutant: pc runs off the end of IMEM.
IFStageUnmasked(iw) == [firstIW |-> iw, fetchedPC |-> EXPC, pc |-> EXPC + 1]

IFStage(iw) == [firstIW |-> iw, fetchedPC |-> EXPC, pc |-> InIMem(EXPC + 1)]

\* One instruction later.
Aged == {[s EXCEPT !.left = 1] : s \in {t \in stale : t.left = 2}}

\* The part of a cycle before RD decides between fetching and stalling.
Execute ==
  /\ dmem' = DFDMem
  /\ regs' = EXRegs
  /\ vregs' = CP2VRegs
  /\ sp' = EXSP
  /\ exdf' = [result |-> EXResult, mem |-> EXAccess]
  /\ dfwb' = DFResult
  /\ stale' = IF at.ex = 0 THEN stale ELSE Aged
  /\ UNCHANGED imem

\* A stall drops the decoded word; it stays in IF/RD and is decoded again.
StallCycle ==
  /\ ~Halted(sp) /\ Stall
  /\ Execute
  /\ rdex' = [RDScalar EXCEPT !.op = "INV"]
  /\ cp2' = [RDVector EXCEPT !.op = "VINV"]
  /\ ifrd' = [ifrd EXCEPT !.pc = EXPC]
  /\ at' = [at EXCEPT !.ex = 0]

FetchCycle ==
  /\ ~Halted(sp) /\ ~Stall
  /\ Execute
  /\ rdex' = RDScalar
  /\ cp2' = RDVector
  /\ \E iw \in Fetch(EXPC) : ifrd' = IFStage(iw)
  /\ at' = [rd |-> EXPC, ex |-> at.rd]

\* A halted RSP ignores the clock: CycleRSP returns at once.
CycleRSP == StallCycle \/ FetchCycle

(***************************************************************************)
(* The host, between two cycles.                                           *)
(***************************************************************************)
UnchangedByHost == UNCHANGED <<imem, regs, vregs, cp2, exdf, dfwb>>

HostWritesStatus ==
  /\ \E data \in HostStatusData :
       sp' = SPRegWrite(sp, SP_STATUS_REG, data)
  /\ UNCHANGED <<dmem, ifrd, rdex, at, stale>> /\ UnchangedByHost

\* Mutant: RSPInitPipeline leaves the decoded word.
HostWritesPCKeepsDecoded ==
  /\ \E pc \in HostPCs :
       /\ ifrd' = InitPipeline(InIMem(pc), ifrd.fetchedPC)
       /\ sp' = SPRegWrite(sp, SP_PC_REG, pc)
  /\ at' = [rd |-> 0, ex |-> 0] /\ stale' = {}
  /\ UNCHANGED <<dmem, rdex>> /\ UnchangedByHost

\* SPRegWrite2 on the PC register: RSPInitPipeline, then the new pc.  The
\* words in IF/RD and RD/EX are discarded, and so they are in at; results
\* on their way, the pending access and the vector word are left in place.
HostWritesPC ==
  /\ \E pc \in HostPCs :
       /\ ifrd' = InitPipeline(InIMem(pc), ifrd.fetchedPC)
       /\ sp' = SPRegWrite(sp, SP_PC_REG, pc)
  /\ rdex' = [rdex EXCEPT !.op = "INV"]
  /\ at' = [rd |-> 0, ex |-> 0] /\ stale' = {}
  /\ UNCHANGED dmem /\ UnchangedByHost

HostReadsSemaphore ==
  /\ HostUsesSemaphore
  /\ sp' = SPRegReadEffect(sp, SP_SEMAPHORE_REG)
  /\ UNCHANGED <<dmem, ifrd, rdex, at, stale>> /\ UnchangedByHost

HostClearsSemaphore ==
  /\ HostUsesSemaphore
  /\ sp' = SPRegWrite(sp, SP_SEMAPHORE_REG, 0)
  /\ UNCHANGED <<dmem, ifrd, rdex, at, stale>> /\ UnchangedByHost

HostWritesDMem ==
  /\ HostAwaitsBreak => {"HALT", "BROKE"} \subseteq sp.status
  /\ \E d \in HostDMemData : dmem' = [dmem EXCEPT ![d[1]] = d[2]]
  /\ UNCHANGED <<sp, ifrd, rdex, at, stale>> /\ UnchangedByHost

\* RSPIMemWriteByte, RSPIMemWriteWord.  What the latches hold stays.  A DMA
\* into IMEM, also one the program starts, is a number of such writes: only IF
\* reads IMEM, after EX in a cycle, so that they may as well come just before
\* the cycle in which its MTC0 executes.
HostWritesIMem ==
  /\ \E d \in HostIMemData :
       /\ imem' = [imem EXCEPT ![d[1]] = d[2]]
       /\ stale' = stale \cup {[at |-> d[1], word |-> imem[d[1]], left |-> 2]}
  /\ UNCHANGED <<dmem, regs, vregs, sp, ifrd, rdex, cp2, exdf, dfwb, at>>

Host ==
  \/ HostWritesStatus
  \/ HostWritesPC
  \/ HostReadsSemaphore
  \/ HostClearsSemaphore
  \/ HostWritesDMem
  \/ HostWritesIMem

Next == CycleRSP \/ Host

Spec == Init /\ [][Next]_vars

\* The host emulator clocks the RSP for ever.
FairSpec == Spec /\ WF_vars(CycleRSP)
=============================================================================
