------------------------------ MODULE ScalarUnit ------------------------------
(***************************************************************************)
(* The arithmetic of the scalar unit (the handlers RSPADD to RSPXORI of    *)
(* EXStage.c): what RSPPipeline takes as Alu, at any width.  A word has    *)
(* the fields op, imm, as it stands in the instruction, and sa.  Registers *)
(* are unsigned, as in the code.                                           *)
(***************************************************************************)
EXTENDS Binary

CONSTANTS
  Bits,       \* of a register (32), a power of two
  ImmBits     \* of an immediate (16), half of them

ASSUME WidthAssumption ==
  /\ ImmBits \in Nat \ {0} /\ Bits = 2 * ImmBits
  /\ \E k \in 0 .. Bits : Bits = Power[k]

Register == 0 .. Power[Bits] - 1               \* what a register holds
Wrap(x) == x % Power[Bits]
Signed(x) == IF x < Power[Bits - 1] THEN x ELSE x - Power[Bits]

\* (int16_t) of the instruction word, to a register's width.
SignedImm(imm) == IF imm < Power[ImmBits - 1] THEN imm ELSE imm - Power[ImmBits]

\* Mutant: immediates are never negative.
AddUnsigned(w, rs, rt) ==
  CASE w.op = "ADD" -> Wrap(rs + rt)
    [] w.op = "ADDI" -> Wrap(rs + w.imm)
    [] w.op = "SUB" -> Wrap(rs - rt)

Add(w, rs, rt) ==
  CASE w.op = "ADD" -> Wrap(rs + rt)
    [] w.op = "ADDI" -> Wrap(rs + SignedImm(w.imm))
    [] w.op = "SUB" -> Wrap(rs - rt)

\* Bit by bit: a bit of the sum counts where both have it, once too often for
\* the disjunction and twice for the exclusive one.
BitAnd(x, y) == And[Bits][x][y]
BitOr(x, y) == x + y - BitAnd(x, y)
BitXor(x, y) == x + y - 2 * BitAnd(x, y)

\* Mutant: XORI sign extends its immediate.
LogicSigned(w, rs, rt) ==
  CASE w.op = "AND" -> BitAnd(rs, rt)
    [] w.op = "ANDI" -> BitAnd(rs, w.imm)
    [] w.op = "OR" -> BitOr(rs, rt)
    [] w.op = "ORI" -> BitOr(rs, w.imm)
    [] w.op = "NOR" -> Power[Bits] - 1 - BitOr(rs, rt)
    [] w.op = "XOR" -> BitXor(rs, rt)
    [] w.op = "XORI" -> BitXor(rs, Wrap(SignedImm(w.imm)))
    [] w.op = "LUI" -> Wrap(w.imm * Power[ImmBits])

\* The immediates of the logical operations are not sign extended.
Logic(w, rs, rt) ==
  CASE w.op = "AND" -> BitAnd(rs, rt)
    [] w.op = "ANDI" -> BitAnd(rs, w.imm)
    [] w.op = "OR" -> BitOr(rs, rt)
    [] w.op = "ORI" -> BitOr(rs, w.imm)
    [] w.op = "NOR" -> Power[Bits] - 1 - BitOr(rs, rt)
    [] w.op = "XOR" -> BitXor(rs, rt)
    [] w.op = "XORI" -> BitXor(rs, w.imm)
    [] w.op = "LUI" -> Wrap(w.imm * Power[ImmBits])

\* Mutant: the amount of a variable shift is not cut.
AmountUncut(w, rs) == IF w.op \in {"SLLV", "SRLV", "SRAV"} THEN rs ELSE w.sa

\* Variable shifts take the amount from the low bits of rs.
Amount(w, rs) == IF w.op \in {"SLLV", "SRLV", "SRAV"} THEN rs % Bits ELSE w.sa

\* Mutant: SRA shifts in zeros.
ShiftUnsigned(w, rs, rt) ==
  IF w.op \in {"SLL", "SLLV"} THEN Wrap(rt * Power[Amount(w, rs)])
  ELSE rt \div Power[Amount(w, rs)]

Shift(w, rs, rt) ==
  CASE w.op \in {"SLL", "SLLV"} -> Wrap(rt * Power[Amount(w, rs)])
    [] w.op \in {"SRL", "SRLV"} -> rt \div Power[Amount(w, rs)]
    [] w.op \in {"SRA", "SRAV"} -> Wrap(Signed(rt) \div Power[Amount(w, rs)])

\* Mutant: SLTU compares as SLT does.
LessSigned(w, rs, rt) ==
  CASE w.op \in {"SLT", "SLTU"} -> Signed(rs) < Signed(rt)
    [] w.op \in {"SLTI", "SLTIU"} -> Signed(rs) < SignedImm(w.imm)

\* Mutant: SLTIU does not extend its immediate.
LessUnextended(w, rs, rt) ==
  CASE w.op = "SLT" -> Signed(rs) < Signed(rt)
    [] w.op = "SLTI" -> Signed(rs) < SignedImm(w.imm)
    [] w.op = "SLTU" -> rs < rt
    [] w.op = "SLTIU" -> rs < w.imm

\* SLTIU sign extends its immediate and then compares it unsigned.
Less(w, rs, rt) ==
  CASE w.op = "SLT" -> Signed(rs) < Signed(rt)
    [] w.op = "SLTI" -> Signed(rs) < SignedImm(w.imm)
    [] w.op = "SLTU" -> rs < rt
    [] w.op = "SLTIU" -> rs < Wrap(SignedImm(w.imm))

ScalarAlu(w, rs, rt) ==
  CASE w.op \in {"ADD", "ADDI", "SUB"} -> Add(w, rs, rt)
    [] w.op \in {"AND", "ANDI", "OR", "ORI", "NOR", "XOR", "XORI", "LUI"} ->
         Logic(w, rs, rt)
    [] w.op \in {"SLL", "SLLV", "SRL", "SRLV", "SRA", "SRAV"} ->
         Shift(w, rs, rt)
    [] OTHER -> IF Less(w, rs, rt) THEN 1 ELSE 0
=============================================================================
