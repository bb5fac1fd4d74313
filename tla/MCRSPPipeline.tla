--------------------------- MODULE MCRSPPipeline ---------------------------
(***************************************************************************)
(* Small instances of RSPPipeline.  Programs are all sequences of IMemWords *)
(* words of a small vocabulary, one or two vocabularies per question.      *)
(***************************************************************************)
EXTENDS RSPPipelineProperties

\* Arithmetic of the instances: three operations are enough to tell results
\* apart.
MCAlu(w, rs, rt) ==
  CASE w.op = "ADD" -> Word(rs + rt)
    [] w.op = "ADDI" -> Word(rs + w.imm)
    [] OTHER -> 0
MCVec(w, vs, vt) == Word(vs + vt + 1)

R(op, rs, rt, rd) == [op |-> op, rs |-> rs, rt |-> rt, rd |-> rd, imm |-> 0]
I(op, rs, rt, imm) ==
  [op |-> op, rs |-> rs, rt |-> rt, rd |-> 0, imm |-> imm]

\* Loads, stores, forwarding and register 0.
DataWords ==
  {I("ADDI", 1, 1, 1), I("ADDI", 1, 2, 2), R("ADD", 1, 2, 0),
   R("ADD", 0, 2, 1), I("LW", 0, 1, 0), I("LW", 1, 2, 1), I("LW", 2, 0, 0),
   I("SW", 0, 1, 1), I("SW", 1, 2, 0)}

\* Branches, links and delay slots.
BranchWords ==
  {I("ADDI", 1, 1, 1), I("LW", 0, 1, 0), I("BEQ", 1, 0, 1), I("BNE", 1, 2, -2),
   I("BGEZAL", 1, 0, 1), I("BLTZAL", 1, 0, 1), I("J", 0, 0, 3),
   I("JAL", 0, 0, 1), I("JR", 2, 0, 0), I("JALR", 1, 0, 0)}

DataOrBranchWords == DataWords \cup BranchWords

\* The vector unit and the SP registers, with loads to stall on.
UnitWords ==
  {I("ADDI", 1, 1, 2), I("LW", 0, 1, 0), R("VECT", 0, 1, 1), R("MTC2", 0, 1, 1),
   R("MFC2", 0, 1, 1), I("LQV", 0, 1, 0), I("SQV", 1, 1, 0), I("BREAK", 0, 0, 0),
   I("MTC0", 0, 1, 4), I("MFC0", 0, 1, 4), I("MFC0", 0, 1, 7)}

\* Halts and restarts, without vector words.
RestartWords ==
  {I("ADDI", 1, 1, 1), I("LW", 0, 1, 0), I("SW", 0, 1, 1), I("BREAK", 0, 0, 0),
   I("MTC0", 0, 1, 4), I("JR", 1, 0, 0)}

\* A few words each, for the questions that need no more.
LoadUseWords == {I("LW", 0, 1, 0), I("ADDI", 1, 2, 1)}
LeftoverWords == {I("BREAK", 0, 0, 0), R("VECT", 0, 1, 1)}

AllPrograms == [0 .. IMemWords - 1 -> Words]
DataOrBranchPrograms ==
  [0 .. IMemWords - 1 -> DataWords] \cup [0 .. IMemWords - 1 -> BranchWords]

NoData == {}
OneWrite == {<<0, 3>>}
OneReplacement == {<<1, I("JR", 1, 0, 0)>>}
Entries == {0, 6}
Distinct == {[c \in Cell |-> c + 1]}
=============================================================================
