---------------------------- MODULE RSPSequential ----------------------------
(***************************************************************************)
(* What a program may rely on: the RSP executes one instruction after the  *)
(* other.  An instruction finds the results of all those before it, in     *)
(* registers, DMEM and vector registers alike; register 0 is zero; a taken *)
(* branch takes effect after the one instruction that follows it, and a    *)
(* link register gets the address after that instruction.  The host may    *)
(* stop, resume and redirect the RSP between two instructions.  Where it   *)
(* replaces a word of IMEM, the next two instructions may still be those   *)
(* that were there before; later ones, and those after a write of the PC   *)
(* register, are not.                                                      *)
(*                                                                         *)
(* This is a specification, not a model of code: RSPPipeline implements it *)
(* under the refinement mapping of RSPPipelineProperties.                  *)
(***************************************************************************)
EXTENDS RSPISA

CONSTANTS Programs, HostStatusData, HostPCs, HostUsesSemaphore,
          HostDMemData, HostAwaitsBreak, HostIMemData, DMemImages

VARIABLES imem, dmem, regs, vregs, sp,
          pc,    \* address of the instruction to execute
          npc,   \* address of the one after it
          stale  \* the words that were replaced and may still be executed:
                 \* where, which, and within how many instructions

seqvars == <<imem, dmem, regs, vregs, sp, pc, npc, stale>>

Init ==
  /\ imem \in Programs
  /\ dmem \in DMemImages
  /\ regs = [r \in Reg |-> 0]
  /\ vregs = [v \in VReg |-> 0]
  /\ sp = [status |-> {"HALT"}, sem |-> 0, pc |-> 0, intr |-> FALSE]
  /\ pc = IMemWords
  /\ npc = InIMem(IMemWords + 1)
  /\ stale = {}

\* The register an instruction writes, 0 if none, and what it writes there.
Dest(w) ==
  CASE w.op \in AluRd -> w.rd
    [] w.op \in AluRt \cup {"LW", "MFC0", "MFC2"} -> w.rt
    [] w.op \in Link -> LinkReg
    [] OTHER -> 0

Data(w, rs, rt) ==
  CASE w.op \in AluRd \cup AluRt -> Alu(w, rs, rt)
    [] w.op = "LW" -> dmem[CellOf(rs + w.imm)]
    [] w.op = "MFC0" -> Word(SPRegReadData(sp, w.imm))
    [] w.op = "MFC2" -> vregs[w.rd]
    [] w.op \in Link -> Word(InIMem(npc + 1))

Execute(w) ==
  LET rs == regs[w.rs]
      rt == regs[w.rt]
      cell == CellOf(rs + w.imm) IN
  /\ regs' = IF Dest(w) = 0 THEN regs
             ELSE [regs EXCEPT ![Dest(w)] = Data(w, rs, rt)]
  /\ dmem' = CASE w.op = "SW" -> [dmem EXCEPT ![cell] = rt]
               [] w.op = "SQV" -> [dmem EXCEPT ![cell] = vregs[w.rt]]
               [] OTHER -> dmem
  /\ vregs' = CASE w.op = "LQV" -> [vregs EXCEPT ![w.rt] = dmem[cell]]
                [] w.op = "MTC2" -> [vregs EXCEPT ![w.rd] = rt]
                [] w.op = "VECT" ->
                     [vregs EXCEPT ![w.rd] = Vec(w, vregs[w.rs], vregs[w.rt])]
                [] OTHER -> vregs
  /\ sp' = CASE w.op = "BREAK" -> Break(sp)
             [] w.op = "MTC0" -> SPRegWrite(sp, w.imm, rt)
             [] w.op = "MFC0" -> SPRegReadEffect(sp, w.imm)
             [] OTHER -> sp
  /\ pc' = npc
  /\ npc' = IF w.op \in CondBranch \cup Jump /\ Taken(w.op, rs, rt)
            THEN Target(w, pc + 1, rs) ELSE InIMem(npc + 1)
  /\ stale' = {[s EXCEPT !.left = 1] : s \in {t \in stale : t.left = 2}}
  /\ UNCHANGED imem

\* The instruction at pc, or one it has replaced; outside IMEM it may be any.
Instruction ==
  IF pc \in IMemWords .. 2 * IMemWords - 1
  THEN {imem[pc - IMemWords]}
       \cup {s.word : s \in {t \in stale : t.at = pc - IMemWords}}
  ELSE AnyWord

Step ==
  /\ ~Halted(sp)
  /\ \E w \in Instruction : Execute(w)

HostWritesStatus ==
  /\ \E data \in HostStatusData :
       sp' = SPRegWrite(sp, SP_STATUS_REG, data)
  /\ UNCHANGED <<imem, dmem, regs, vregs, pc, npc, stale>>

HostWritesPC ==
  /\ \E target \in HostPCs :
       /\ pc' = InIMem(target)
       /\ npc' = InIMem(pc' + 1)
       /\ sp' = SPRegWrite(sp, SP_PC_REG, target)
  /\ stale' = {}
  /\ UNCHANGED <<imem, dmem, regs, vregs>>

HostUsesTheSemaphore ==
  /\ HostUsesSemaphore
  /\ sp' \in {SPRegReadEffect(sp, SP_SEMAPHORE_REG),
              SPRegWrite(sp, SP_SEMAPHORE_REG, 0)}
  /\ UNCHANGED <<imem, dmem, regs, vregs, pc, npc, stale>>

HostWritesDMem ==
  /\ HostAwaitsBreak => {"HALT", "BROKE"} \subseteq sp.status
  /\ \E d \in HostDMemData : dmem' = [dmem EXCEPT ![d[1]] = d[2]]
  /\ UNCHANGED <<imem, regs, vregs, sp, pc, npc, stale>>

HostWritesIMem ==
  /\ \E d \in HostIMemData :
       /\ imem' = [imem EXCEPT ![d[1]] = d[2]]
       /\ stale' = stale \cup {[at |-> d[1], word |-> imem[d[1]], left |-> 2]}
  /\ UNCHANGED <<dmem, regs, vregs, sp, pc, npc>>

Next ==
  \/ Step
  \/ HostWritesStatus
  \/ HostWritesPC
  \/ HostUsesTheSemaphore
  \/ HostWritesDMem
  \/ HostWritesIMem

Spec == Init /\ [][Next]_seqvars

\* An RSP that is not halted gets on with its program.
FairSpec == Spec /\ WF_seqvars(Step)
=============================================================================
