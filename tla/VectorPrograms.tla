---------------------------- MODULE VectorPrograms ----------------------------
(***************************************************************************)
(* Short programs of the vector unit's instructions, one instruction a     *)
(* step: the sequences its instructions are made for.  They hand results   *)
(* on through the accumulator, the flags and the divider, so that what     *)
(* comes out depends on several handlers of CP2.c agreeing with each       *)
(* other.  Programs are instruction words as an assembler makes them; the  *)
(* decoder's tables choose the handlers.                                   *)
(***************************************************************************)
EXTENDS VectorUnit

CONSTANTS
  Pairs,       \* what registers 1 to 4 start with: in the programs that use
               \* two of them,
  Quadruples,  \* in those that use all four,
  Samples,     \* in those where lanes meet one another,
  Operands     \* and in those that divide one lane

ASSUME ProgramsAssumption ==
  /\ NumVRegs > 13
  /\ Pairs \cup Quadruples \cup Samples \cup Operands \subseteq [1 .. 4 -> Vector]

\* The function numbers of the vector instructions.
VectorFunction ==
  [VMULF |-> 0, VMULU |-> 1, VMUDL |-> 4, VMUDM |-> 5, VMUDN |-> 6, VMUDH |-> 7,
   VMACF |-> 8, VMACU |-> 9, VMADL |-> 12, VMADM |-> 13, VMADN |-> 14, VMADH |-> 15,
   VADD |-> 16, VSUB |-> 17, VABS |-> 19, VADDC |-> 20, VSUBC |-> 21, VSAR |-> 29,
   VLT |-> 32, VEQ |-> 33, VNE |-> 34, VGE |-> 35, VCL |-> 36, VCH |-> 37,
   VCR |-> 38, VMRG |-> 39, VAND |-> 40, VNAND |-> 41, VOR |-> 42, VNOR |-> 43,
   VXOR |-> 44, VNXOR |-> 45, VRCP |-> 48, VRCPL |-> 49, VRCPH |-> 50,
   VMOV |-> 51, VRSQL |-> 53, VRSQH |-> 54, VNOP |-> 55]

\* op vd, vs, vt[e]; for VMOV and the divider vs is the lane of vd.
V(op, vd, vs, vt, e) ==
  [op |-> 18, rs |-> 16 + e, rt |-> vt, rd |-> vs, sa |-> vd,
   funct |-> VectorFunction[op]]
CFC2(rt, flag) == [op |-> 18, rs |-> 2, rt |-> rt, rd |-> flag, sa |-> 0, funct |-> 0]
CTC2(rt, flag) == [op |-> 18, rs |-> 6, rt |-> rt, rd |-> flag, sa |-> 0, funct |-> 0]

(***************************************************************************)
(* The programs.  Registers 1 and 2 are numbers of two slices, low half    *)
(* first, 3 and 4 others; 0 stays zero.                                    *)
(***************************************************************************)
\* 6, 5: the sum, with its high half saturated; 7: a sum after it.
WideSum == <<V("VADDC", 5, 1, 3, 0), V("VADD", 6, 2, 4, 0), V("VADD", 7, 1, 3, 0)>>
WideDifference ==
  <<V("VSUBC", 5, 1, 3, 0), V("VSUB", 6, 2, 4, 0), V("VSUB", 7, 1, 3, 0)>>

\* VCC: the comparison; 6, 7: the number it selects.
Comparison(op) == <<V("VSUBC", 5, 1, 3, 0), V(op, 6, 2, 4, 0), V("VMRG", 7, 1, 3, 0)>>

Accumulator == <<V("VSAR", 7, 0, 0, 8), V("VSAR", 8, 0, 0, 9), V("VSAR", 9, 0, 0, 10)>>
\* 6, 5: the product of two fixed-point numbers; 7 to 9: the accumulator.
WideProduct ==
  <<V("VMUDL", 5, 1, 3, 0), V("VMADM", 5, 2, 3, 0), V("VMADN", 5, 1, 4, 0),
    V("VMADH", 6, 2, 4, 0), V("VMADN", 5, 0, 0, 0)>> \o Accumulator
\* The same the other way round; 5: the low half.
ProductFromTop ==
  <<V("VMUDH", 6, 2, 4, 0), V("VMADN", 5, 1, 4, 0), V("VMADM", 6, 2, 3, 0),
    V("VMADL", 5, 1, 3, 0)>> \o Accumulator
\* 6, 5: a number of two slices times a fraction, or times an integer.
TimesFraction == <<V("VMUDL", 5, 1, 3, 0), V("VMADM", 6, 2, 3, 0), V("VMADN", 5, 0, 0, 0)>>
TimesInteger == <<V("VMUDN", 5, 1, 3, 0), V("VMADH", 6, 2, 3, 0), V("VMADN", 5, 0, 0, 0)>>
\* 5: a product of fractions, 6: the sum of two.
FractionSum == <<V("VMULF", 5, 1, 3, 0), V("VMACF", 6, 2, 4, 0)>>
UnsignedFractionSum == <<V("VMULU", 5, 1, 3, 0), V("VMACU", 6, 2, 4, 0)>>
\* 5: signed times unsigned fraction, 6: the other way round.
MixedFractions == <<V("VMUDM", 5, 1, 3, 0), V("VMUDN", 7, 3, 1, 0), V("VSAR", 6, 0, 0, 9)>>

\* 6, 5: 2, 1 clipped by 4, 3; VCC: where it was.
Clip == <<V("VCH", 6, 2, 4, 0), V("VCL", 5, 1, 3, 0)>>
\* The same with another clip between the two, the flags saved around it.
ClipInterrupted ==
  <<V("VCH", 6, 2, 4, 0), CFC2(1, 0), CFC2(2, 1), CFC2(3, 2),
    V("VCH", 7, 1, 3, 0), V("VCL", 8, 2, 4, 0), V("VSUBC", 9, 1, 4, 0),
    CTC2(1, 0), CTC2(2, 1), CTC2(3, 2), V("VCL", 5, 1, 3, 0)>>
Crimp == <<V("VCR", 5, 1, 3, 0)>>
\* 6: the distance of 1 and 3.
Distance == <<V("VSUB", 5, 1, 3, 0), V("VABS", 6, 5, 5, 0)>>
\* 6: 1 again; 9 and 10: 1 or 3; 12 and 13: where they differ.
Logical ==
  <<V("VXOR", 5, 1, 3, 0), V("VXOR", 6, 5, 3, 0), V("VNOR", 7, 1, 0, 0),
    V("VNAND", 8, 3, 3, 0), V("VNAND", 9, 7, 8, 0), V("VOR", 10, 1, 3, 0),
    V("VAND", 11, 1, 3, 0), V("VSUBC", 12, 10, 11, 0), V("VNXOR", 13, 5, 0, 0),
    V("VNOR", 13, 13, 0, 0)>>

\* 5: in each half of the lanes, the products of four matrix columns with the
\* four lanes of 3 there; 1, 2, 4 and 3 itself are the columns.
Matrix ==
  <<V("VMUDH", 5, 1, 3, 4), V("VMADH", 5, 2, 3, 5), V("VMADH", 5, 4, 3, 6),
    V("VMADH", 5, 3, 3, 7)>>
\* 5, lane 0: the sum of all lanes of 1.
LaneSum == <<V("VADDC", 5, 1, 1, 3), V("VADDC", 5, 5, 5, 6), V("VADDC", 5, 5, 5, 12)>>
\* 5: the lanes of 1 backwards.
Backwards == [k \in 1 .. 8 |-> V("VMOV", 5, k - 1, 1, 16 - k)]

\* 7 and 6, lane 1: the reciprocal of lane 0 of 2, 1; 9 and 8: that of 4, 3,
\* whose high half goes in while the first result comes out.
Reciprocals ==
  <<V("VRCPH", 5, 1, 2, 8), V("VADD", 10, 1, 3, 0), V("VRCPL", 6, 1, 1, 8),
    V("VMUDH", 11, 1, 3, 0), V("VRCPH", 7, 1, 4, 8), V("VNOP", 0, 0, 0, 0),
    V("VRCPL", 8, 1, 3, 8), V("VRCPH", 9, 1, 0, 8)>>
\* 6 and 5: the reciprocal of lane 0 of 1; 8 and 7: that of 2, 1.
SingleThenDouble ==
  <<V("VRCP", 5, 1, 1, 8), V("VRCPH", 6, 1, 2, 8), V("VRCPL", 7, 1, 1, 8),
    V("VRCPH", 8, 1, 0, 8)>>
\* A single reciprocal between the halves of a double one.
DoubleInterrupted ==
  <<V("VRCPH", 5, 1, 2, 8), V("VRCP", 6, 1, 3, 8), V("VRCPL", 7, 1, 1, 8),
    V("VRCPH", 8, 1, 0, 8)>>
\* 7 and 6: the reciprocal root of 2, 1.
Root == <<V("VRSQH", 5, 1, 2, 8), V("VRSQL", 6, 1, 1, 8), V("VRSQH", 7, 1, 0, 8)>>

PairPrograms == {MixedFractions, Crimp, Distance, Logical}
SamplePrograms == {Matrix, LaneSum, Backwards, ClipInterrupted}
QuadruplePrograms ==
  {WideSum, WideDifference, WideProduct, ProductFromTop, TimesFraction, TimesInteger,
   FractionSum, UnsignedFractionSum, Clip}
  \cup {Comparison(op) : op \in SelectOp}
DividerPrograms == {Reciprocals, SingleThenDouble, DoubleInterrupted, Root}

(***************************************************************************)
(* The unit after RSPInitCP2, with registers 1 to 4 loaded.                *)
(***************************************************************************)
VARIABLES
  cp2,
  flags,     \* scalar registers 1 to 3, as far as they hold flags
  start, prog, pos

vars == <<cp2, flags, start, prog, pos>>

Init ==
  /\ \/ prog \in PairPrograms /\ start \in Pairs
     \/ prog \in SamplePrograms /\ start \in Samples
     \/ prog \in QuadruplePrograms /\ start \in Quadruples
     \/ prog \in DividerPrograms /\ start \in Operands
  /\ cp2 = [RSPInitCP2 EXCEPT
             !.regs = [v \in VReg |-> IF v \in 1 .. 4 THEN start[v] ELSE @[v]]]
  /\ flags = [r \in 1 .. 3 |-> <<{}, {}>>]
  /\ pos = 1

Vect ==
  /\ pos <= Len(prog) /\ RSPDecodeInstruction(prog[pos]) = "VECT"
  /\ cp2' = RSPCycleCP2(cp2, prog[pos])
  /\ pos' = pos + 1
  /\ UNCHANGED <<flags, start, prog>>

FlagsToScalar ==
  /\ pos <= Len(prog) /\ RSPDecodeInstruction(prog[pos]) = "CFC2"
  /\ flags' = [flags EXCEPT ![prog[pos].rt] = RSPCFC2(cp2, prog[pos].rd)]
  /\ pos' = pos + 1
  /\ UNCHANGED <<cp2, start, prog>>

FlagsFromScalar ==
  /\ pos <= Len(prog) /\ RSPDecodeInstruction(prog[pos]) = "CTC2"
  /\ cp2' = RSPCTC2(cp2, prog[pos].rd, flags[prog[pos].rt])
  /\ pos' = pos + 1
  /\ UNCHANGED <<flags, start, prog>>

Done == pos > Len(prog) /\ UNCHANGED vars

Next == Vect \/ FlagsToScalar \/ FlagsFromScalar \/ Done

Spec == Init /\ [][Next]_vars

(***************************************************************************)
(* Properties.                                                             *)
(***************************************************************************)
TypeOK ==
  /\ cp2.regs \in [VReg -> Vector]
  /\ cp2.accHigh \in Vector /\ cp2.accMid \in Vector /\ cp2.accLow \in Vector
  /\ cp2.vcolo \cup cp2.vcohi \cup cp2.vccLe \cup cp2.vccGe \cup cp2.vce \subseteq Lane
  /\ SignedPair(cp2.divIn) = cp2.divIn /\ SignedPair(cp2.divOut) = cp2.divOut
  /\ cp2.doublePrecision \in BOOLEAN
  /\ flags \in [1 .. 3 -> (SUBSET Lane) \X (SUBSET Lane)]

After(p) == prog = p /\ pos = Len(p) + 1
Reg(v, i) == cp2.regs[v][i]
\* The two numbers the programs start with.
A(i) == Pair(start[2][i], start[1][i])
B(i) == Pair(start[4][i], start[3][i])

\* Sums and differences of two slices (VADDC with VADD, VSUBC with VSUB) come
\* out right in every lane, the high half saturated once and not for the carry
\* again, and the carry is used up.
WideArithmetic ==
  \A i \in Lane :
    /\ After(WideSum) =>
         /\ Reg(5, i) = (A(i) + B(i)) % Base
         /\ Reg(6, i) = Wrap(Sat((A(i) + B(i)) \div Base))
         /\ Reg(7, i) = Wrap(Sat(Signed(start[1][i]) + Signed(start[3][i])))
    /\ After(WideDifference) =>
         /\ Reg(5, i) = (A(i) - B(i)) % Base
         /\ Reg(6, i) = Wrap(Sat((A(i) - B(i)) \div Base))
         /\ Reg(7, i) = Wrap(Sat(Signed(start[1][i]) - Signed(start[3][i])))

\* A comparison after VSUBC compares numbers of two slices (RSPVSUBC, RSPVLT,
\* RSPVGE, RSPVEQ, RSPVNE), and VMRG selects the low half of the same number.
WideComparison ==
  \A i \in Lane : \A op \in SelectOp :
    After(Comparison(op)) =>
      LET holds == CASE op = "VLT" -> A(i) < B(i)
                     [] op = "VGE" -> A(i) >= B(i)
                     [] op = "VEQ" -> A(i) = B(i)
                     [] op = "VNE" -> A(i) # B(i) IN
      /\ i \in cp2.vccLe <=> holds
      /\ op \in {"VLT", "VGE"} \/ A(i) = B(i) =>
           Pair(Reg(6, i), Reg(7, i)) = IF holds THEN A(i) ELSE B(i)

AccumulatorRead(i) == Pair(Reg(7, i), Reg(8, i)) * Base + Reg(9, i)

\* The four partial products of two fixed-point numbers (VMUDL, VMADM, VMADN,
\* VMADH) add up to their product in the accumulator, in either order; the
\* result is that where it fits, and the smallest number where it is below.
WideProducts ==
  \A i \in Lane :
    LET product == (A(i) * B(i)) \div Base
        fits == SignedPair(product) = product IN
    /\ After(WideProduct) =>
         /\ AccumulatorRead(i) = product
         /\ fits => Pair(Reg(6, i), Reg(5, i)) = product
         /\ ~fits /\ product < 0 => Pair(Reg(6, i), Reg(5, i)) = -(Half * Base)
         /\ ~fits /\ product > 0 => Reg(6, i) = Half - 1
    /\ After(ProductFromTop) =>
         /\ AccumulatorRead(i) = product
         /\ fits => Reg(5, i) = product % Base

\* A number of two slices times an unsigned fraction is never too large; times
\* an integer it is saturated (VMUDL, VMUDN, VMADM, VMADH, VMADN).
ScaledProducts ==
  \A i \in Lane :
    /\ After(TimesFraction) =>
         Pair(Reg(6, i), Reg(5, i)) = (A(i) * start[3][i]) \div Base
    /\ After(TimesInteger) =>
         LET product == A(i) * Signed(start[3][i]) IN
         /\ Reg(6, i) = Wrap(Sat(product \div Base))
         /\ SignedPair(product) = product => Reg(5, i) = product % Base
    /\ After(MixedFractions) =>
         /\ Reg(5, i) = Reg(6, i)
         /\ Signed(Reg(5, i)) = (Signed(start[1][i]) * start[3][i]) \div Base

\* The sum of two products of fractions is rounded once and saturated, to a
\* signed or to an unsigned slice (RSPVMULF, RSPVMACF, RSPVMULU, RSPVMACU), but
\* for the square of the smallest number, which is one.
FractionSums ==
  \A i \in Lane :
    LET product(s, t) == 2 * Signed(s[i]) * Signed(t[i])
        first == (product(start[1], start[3]) + Half) \div Base
        sum == (product(start[1], start[3]) + product(start[2], start[4]) + Half)
                 \div Base
        unsigned(x) == IF x < 0 THEN 0 ELSE IF x >= Half THEN Base - 1 ELSE x
        representable == /\ start[1][i] # Half \/ start[3][i] # Half
                         /\ start[2][i] # Half \/ start[4][i] # Half IN
    /\ After(FractionSum) /\ representable => Reg(6, i) = Wrap(Sat(sum))
    /\ After(UnsignedFractionSum) /\ representable =>
         /\ Reg(5, i) = unsigned(first)
         /\ Reg(6, i) = unsigned(sum)

\* VCH and VCL clip a number of two slices by a positive one: the low half is
\* that of the clipped number and VCC tells where it was clipped, also when
\* another clip came between the two and the flags were saved around it.
Clips ==
  \A i \in Lane :
    (After(Clip) \/ After(ClipInterrupted)) /\ B(i) >= 0 =>
        /\ i \in cp2.vccLe <=> A(i) < 0 /\ A(i) <= -B(i)
        /\ i \in cp2.vccGe <=> A(i) >= B(i)
        /\ Reg(5, i) = (IF A(i) <= -B(i) THEN -B(i)
                        ELSE IF A(i) >= B(i) THEN B(i) ELSE A(i)) % Base

\* VCR keeps a number whose sign is not that of the bound above the bound's
\* complement (RSPVCR).
CrimpsFromBelow ==
  \A i \in Lane :
    After(Crimp) /\ i \in SignsDiffer(start[1], start[3]) =>
      Signed(Reg(5, i)) = MaxOf(Signed(start[1][i]), -1 - Signed(start[3][i]))

\* The absolute value of a saturated difference (VSUB, VABS) is the distance,
\* cut at the largest number.
Distances ==
  \A i \in Lane :
    After(Distance) =>
      LET difference == Signed(start[1][i]) - Signed(start[3][i]) IN
      Reg(6, i) = MinOf(MaxOf(difference, -difference), Half - 1)

\* The logical operations agree with one another and with subtraction.
LogicAgrees ==
  After(Logical) =>
    /\ cp2.regs[6] = start[1]
    /\ cp2.regs[9] = cp2.regs[10]
    /\ cp2.regs[12] = cp2.regs[13]

\* Elements (RSPGetVectorOperands): products with one lane of each half are
\* those of a matrix and a vector, the three patterns add up all lanes, also
\* where source and target are one register, and VMOV brings any lane to any.
ElementsMeet ==
  /\ After(Matrix) =>
       \A i \in Lane :
         LET column == <<start[1], start[2], start[4], start[3]>>
             term(k) == Signed(column[k][i]) * Signed(start[3][4 * (i \div 4) + k - 1])
             sum == term(1) + term(2) + term(3) + term(4) IN
         SignedPair(sum) = sum => Reg(5, i) = Wrap(Sat(sum))
  /\ After(LaneSum) =>
       LET s == start[1] IN
       Reg(5, 0) = Wrap(s[0] + s[1] + s[2] + s[3] + s[4] + s[5] + s[6] + s[7])
  /\ After(Backwards) => \A i \in Lane : Reg(5, i) = start[1][7 - i]

\* A quotient is within one part in 2^TableBits, and one unit, of the true one;
\* a negative operand has the complement of the quotient of its magnitude.
IsReciprocal(quotient, x) ==
  LET one == 2 * Half * Half
      scale == Power[TableBits] IN
  CASE x = 0 -> quotient = one - 1
    [] x > 0 -> /\ scale * (quotient - 1) * x <= (scale + 1) * one
                /\ scale * (quotient + 1) * x >= (scale - 1) * one
    [] x < 0 -> /\ scale * (-2 - quotient) * (-x) <= (scale + 1) * one
                /\ scale * (-quotient) * (-x) >= (scale - 1) * one
Square(x) == x * x
IsRoot(root, x) ==
  LET one == 2 * Half * Half
      scale == Power[TableBits] IN
  CASE x = 0 -> root = one - 1
    [] x > 0 -> /\ Square(scale * (root - 1)) * x <= Square((scale + 1) * one)
                /\ Square(scale * (root + 1)) * x >= Square((scale - 1) * one)
    [] x < 0 -> TRUE

\* The operand and the result of two slices go in and come out over three
\* instructions with others between them; the high half of the next operand
\* takes the place of the last (RSPVRCPH, RSPVRCPL), and a single reciprocal
\* (RSPVRCP) ends what VRCPH began.
DividerHandsOver ==
  /\ After(Reciprocals) =>
       /\ IsReciprocal(Pair(Reg(7, 1), Reg(6, 1)), A(0))
       /\ IsReciprocal(Pair(Reg(9, 1), Reg(8, 1)), B(0))
  /\ After(SingleThenDouble) =>
       /\ IsReciprocal(Pair(Reg(6, 1), Reg(5, 1)), Signed(start[1][0]))
       /\ IsReciprocal(Pair(Reg(8, 1), Reg(7, 1)), A(0))
       /\ A(0) = Signed(start[1][0]) =>
            Reg(7, 1) = Reg(5, 1) /\ Reg(8, 1) = Reg(6, 1)
  /\ After(DoubleInterrupted) => IsReciprocal(Pair(Reg(8, 1), Reg(7, 1)), start[1][0])

\* VRSQH and VRSQL give the reciprocal of the root.
Roots == After(Root) => IsRoot(Pair(Reg(7, 1), Reg(6, 1)), A(0))

\* "Otherwise, clamp to ~0 if any high bits are set." (RSPClampLowToVal): the
\* low half of a product that is too large is all ones.
ClampsToOnes ==
  \A i \in Lane :
    After(WideProduct) /\ (A(i) * B(i)) \div Base >= Half * Base => Reg(5, i) = Base - 1
=============================================================================
