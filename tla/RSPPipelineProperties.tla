------------------------ MODULE RSPPipelineProperties ------------------------
(***************************************************************************)
(* What is claimed of RSPPipeline: the properties checked by TLC and, in   *)
(* RSPPipelineProofs, proved.                                              *)
(***************************************************************************)
EXTENDS RSPPipeline

\* Every latch, register and memory keeps values of its type; in particular
\* every address in a latch and every register index is a legal one.
TypeOK ==
  /\ imem \in [0 .. IMemWords - 1 -> Words]
  /\ dmem \in [Cell -> Value]
  /\ regs \in [Reg -> Value]
  /\ vregs \in [VReg -> Value]
  /\ sp \in SPRegs
  /\ ifrd \in [firstIW : AnyWord, fetchedPC : Int, pc : Int]
  /\ rdex \in [iw : AnyWord, pc : Int, op : ScalarOp \cup {"INV"}]
  /\ cp2 \in [iw : AnyWord, op : VectorOp \cup {"VINV"}]
  /\ exdf \in [result : Result, mem : MemoryData]
  /\ dfwb \in Result
  /\ at \in [rd : Int, ex : Int]
  /\ stale \subseteq StaleWord

(***************************************************************************)
(* The refinement mapping: the state the program sees.  Results in DF/WB   *)
(* and EX/DF are already in the registers, the pending access is already   *)
(* made, and the next instruction is the oldest one not yet executed.      *)
(***************************************************************************)
SeenRegs == [r \in Reg |-> IF r = 0 THEN 0
                           ELSE IF r = DFResult.dest THEN DFResult.data
                           ELSE WBRegs[r]]

NextFetched == IF at.rd = 0 THEN ifrd.pc ELSE at.rd
AfterFetched == IF at.rd = 0 THEN InIMem(ifrd.pc + 1) ELSE ifrd.pc

Seq == INSTANCE RSPSequential WITH
         dmem <- DFDMem, vregs <- DFVRegs, regs <- SeenRegs,
         pc <- IF at.ex = 0 THEN NextFetched ELSE at.ex,
         npc <- IF at.ex = 0 THEN AfterFetched ELSE NextFetched

\* The pipeline executes the program one instruction after the other
\* (RSPSequential), whatever it holds in flight: forwarding, delay slots,
\* stalls and re-decodes, halts and restarts in the middle of it all neither
\* lose, repeat nor reorder an instruction or a result.  A change of IMEM
\* reaches all but the next two instructions, however often the RSP stalls or
\* is halted in between, and all of them once the host has written the PC
\* register (RSPIFStage, SPRegWrite2).
RefinesSequential == Seq!Spec

\* An RSP that is not halted and keeps being clocked executes its next
\* instruction: stalls do not go on for ever.
ProgramAdvances == Seq!FairSpec

\* At most one of the scalar and the vector side holds a word to execute:
\* single issue, on which the order of a vector store and the vector word
\* after it rests (RSPRDStage).
ExclusiveIssue == rdex.op = "INV" \/ cp2.op = "VINV"

\* A bubble is followed by the word that was held back, never by another
\* bubble: a load costs at most one cycle.
OneBubble == [][StallCycle => at.ex # 0]_vars

\* When the RSP halts itself, by BREAK or by a status write of its own, no
\* memory access is left behind in EX/DF: the host that finds it halted finds
\* all its stores in DMEM.
SelfHaltDrains == [][CycleRSP /\ Halted(sp)' => exdf'.mem.fn = "NULL"]_vars

\* A host that clears BROKE whenever it clears HALT may take BROKE as the sign
\* that the program has ended: the RSP is then halted and no access is pending,
\* whatever halting and resuming by the host went before.
BrokeMeansDone ==
  "BROKE" \in sp.status => Halted(sp) /\ exdf.mem.fn = "NULL"

\* Instructions are fetched from IMEM, as long as no JALR goes elsewhere.
PCInIMem == ifrd.pc \in IMemWords .. 2 * IMemWords - 1

(***************************************************************************)
(* What the code says of itself and does not do.                           *)
(***************************************************************************)

\* "IsLoadUseStall: Determines a scalar load/use condition is present"
\* (Pipeline.c): when the word that follows a load uses what was loaded, it is
\* held back for a cycle.
LoadUseStalls ==
  [][CycleRSP /\ rdex.op = "LW" /\ rdex.iw.rt # 0
     /\ \/ NeedRS(RDScalar.op) /\ ifrd.firstIW.rs = rdex.iw.rt
        \/ NeedRT(RDScalar.op) /\ ifrd.firstIW.rt = rdex.iw.rt
     => Stall]_vars

\* "RSPInitPipeline: Initializes the pipeline" (Pipeline.c): a cycle with no
\* word to execute, as the first one after it, changes nothing a program sees.
BubbleIsIdle ==
  [][CycleRSP /\ at.ex = 0 => UNCHANGED <<SeenRegs, DFDMem, DFVRegs, sp>>]_vars
=============================================================================
