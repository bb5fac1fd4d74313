------------------------------ MODULE VectorUnit ------------------------------
(***************************************************************************)
(* The vector unit (CP2.c): eight lanes of registers, a three-part         *)
(* accumulator, the flag registers and the divider.  Each operator below   *)
(* is what the handlers of one or several instructions do to the unit,     *)
(* struct RSPCP2, as the build with USE_SSE and SSSE3_ONLY does it.        *)
(*                                                                         *)
(* Slices are unsigned.  A flag register is the set of the lanes whose bit *)
(* is set: VCO is vcolo and vcohi (as in the code), VCC is vccLe (its low  *)
(* byte) and vccGe (its high byte), VCE is vce.                            *)
(***************************************************************************)
EXTENDS Decoder, Binary

CONSTANTS
  NumVRegs,      \* vector registers (32); words name no others
  SliceBits,     \* of a slice (16)
  TableBits      \* of an index into one half of ReciprocalLUT (9)

Half == Power[SliceBits - 1]
Base == 2 * Half

ASSUME SliceAssumption ==
  NumVRegs \in Nat /\ SliceBits \in Nat /\ TableBits \in 1 .. SliceBits - 1

\* The bits that an entry of ReciprocalLUT is rounded to suffice for its index.
ASSUME TableAssumption == 2 * TableBits <= SliceBits + 8

VReg == 0 .. NumVRegs - 1
Lane == 0 .. 7
Slice == 0 .. Base - 1
Vector == [Lane -> Slice]

Wrap(x) == x % Base
Signed(x) == IF x < Half THEN x ELSE x - Base
\* Saturated to a signed slice (_mm_adds_epi16, _mm_packs_epi32).
Sat(x) == IF x < -Half THEN -Half ELSE IF x >= Half THEN Half - 1 ELSE x
\* Two slices as one signed number.
Pair(high, low) == Signed(high) * Base + low
SignedPair(x) == Pair((x \div Base) % Base, x % Base)

\* RSPInitCP2: everything is zero.
RSPInitCP2 ==
  LET zero == [i \in Lane |-> 0] IN
  [regs |-> [v \in VReg |-> zero],
   accHigh |-> zero, accMid |-> zero, accLow |-> zero,
   vcolo |-> {}, vcohi |-> {}, vccLe |-> {}, vccGe |-> {}, vce |-> {},
   divIn |-> 0, divOut |-> 0, doublePrecision |-> FALSE]

\* RSPGetVectorOperands: the lane of vt that lane i works with.
\* Mutant: the halves of e = 4 to 7 both take the lower half.
OperandLaneLow(e, i) ==
  CASE e < 2 -> i
    [] e \in 2 .. 3 -> 2 * (i \div 2) + (e - 2)
    [] e \in 4 .. 7 -> e - 4
    [] OTHER -> e - 8

OperandLane(e, i) ==
  CASE e < 2 -> i
    [] e \in 2 .. 3 -> 2 * (i \div 2) + (e - 2)
    [] e \in 4 .. 7 -> 4 * (i \div 4) + (e - 4)
    [] OTHER -> e - 8

RSPGetVectorOperands(vt, e) == [i \in Lane |-> vt[OperandLane(e, i)]]

\* What most instructions do with their result.
Writes(c, vd, result) == [c EXCEPT !.regs[vd] = result, !.accLow = result]
ClearsVCO(c) == [c EXCEPT !.vcolo = {}, !.vcohi = {}]

(***************************************************************************)
(* Sums and differences.                                                   *)
(***************************************************************************)
Carry(c, i) == IF i \in c.vcolo THEN 1 ELSE 0
MinOf(x, y) == IF x < y THEN x ELSE y
MaxOf(x, y) == IF x < y THEN y ELSE x

\* Mutant: the carry is added to the saturated sum.
SumSaturatedFirst(s, t, carry) == Sat(Sat(s + t) + carry)
\* The carry goes to the smaller operand first, so that the sum of all three
\* is saturated once.
SumSaturated(s, t, carry) == Sat(Sat(MinOf(s, t) + carry) + MaxOf(s, t))

\* Mutant: the borrow is always taken from the saturated difference.
DifferenceSaturatedTwice(s, t, borrow) == Sat(Sat(s - t) - borrow)
\* The borrow is left out where t is negative and the difference saturated.
DifferenceSaturated(s, t, borrow) ==
  IF t < 0 /\ s - t # Sat(s - t) THEN Sat(s - t) ELSE Sat(Sat(s - t) - borrow)

RSPVADD(c, vd, vs, vt) ==
  [ClearsVCO(c) EXCEPT
    !.regs[vd] = [i \in Lane |->
      Wrap(SumSaturated(Signed(vs[i]), Signed(vt[i]), Carry(c, i)))],
    !.accLow = [i \in Lane |-> Wrap(vs[i] + vt[i] + Carry(c, i))]]

RSPVSUB(c, vd, vs, vt) ==
  [ClearsVCO(c) EXCEPT
    !.regs[vd] = [i \in Lane |->
      Wrap(DifferenceSaturated(Signed(vs[i]), Signed(vt[i]), Carry(c, i)))],
    !.accLow = [i \in Lane |-> Wrap(vs[i] - vt[i] - Carry(c, i))]]

RSPVADDC(c, vd, vs, vt) ==
  [Writes(c, vd, [i \in Lane |-> Wrap(vs[i] + vt[i])]) EXCEPT
    !.vcolo = {i \in Lane : vs[i] + vt[i] >= Base},
    !.vcohi = {}]

\* Mutant: equal operands are not told from different ones.
RSPVSUBCBorrowOnly(c, vd, vs, vt) ==
  [Writes(c, vd, [i \in Lane |-> Wrap(vs[i] - vt[i])]) EXCEPT
    !.vcolo = {i \in Lane : vs[i] < vt[i]},
    !.vcohi = {}]

RSPVSUBC(c, vd, vs, vt) ==
  [Writes(c, vd, [i \in Lane |-> Wrap(vs[i] - vt[i])]) EXCEPT
    !.vcolo = {i \in Lane : vs[i] < vt[i]},
    !.vcohi = {i \in Lane : vs[i] # vt[i]}]

\* Mutant: the smallest number has no opposite.
AbsoluteWraps(s, t) ==
  IF s < 0 THEN Wrap(-t) ELSE IF s = 0 THEN 0 ELSE Wrap(t)
\* _mm_sign_epi16, and the fix for the smallest number.
Absolute(s, t) ==
  IF s < 0 THEN Wrap(IF t = -Half THEN Half - 1 ELSE -t)
  ELSE IF s = 0 THEN 0 ELSE Wrap(t)

RSPVABS(c, vd, vs, vt) ==
  Writes(c, vd, [i \in Lane |-> Absolute(Signed(vs[i]), Signed(vt[i]))])

(***************************************************************************)
(* Logic, bit by bit.                                                      *)
(***************************************************************************)
AndOf(x, y) == And[SliceBits][x][y]
\* Mutant: the opposite is taken for the complement.
NotByNegation(x) == Base - x
Not(x) == Base - 1 - x

LogicOp == {"VAND", "VNAND", "VOR", "VNOR", "VXOR", "VNXOR"}

\* Mutant: VNAND inverts its operands and not its result.
LogicOperandsInverted(op, x, y) ==
  LET both == AndOf(x, y) IN
  CASE op = "VAND" -> both
    [] op = "VNAND" -> AndOf(Not(x), Not(y))
    [] op = "VOR" -> x + y - both
    [] op = "VNOR" -> Not(x + y - both)
    [] op = "VXOR" -> x + y - 2 * both
    [] op = "VNXOR" -> Not(x + y - 2 * both)

Logic(op, x, y) ==
  LET both == AndOf(x, y) IN
  CASE op = "VAND" -> both
    [] op = "VNAND" -> Not(both)
    [] op = "VOR" -> x + y - both
    [] op = "VNOR" -> Not(x + y - both)
    [] op = "VXOR" -> x + y - 2 * both
    [] op = "VNXOR" -> Not(x + y - 2 * both)

LogicOf(c, op, vd, vs, vt) ==
  Writes(c, vd, [i \in Lane |-> Logic(op, vs[i], vt[i])])

(***************************************************************************)
(* Comparisons.  Those after VSUBC go on from its flags: equal lanes are   *)
(* decided by the borrow of the lower halves.                              *)
(***************************************************************************)
SelectOp == {"VLT", "VEQ", "VNE", "VGE"}

\* Mutant: VLT does not look at the flags of VSUBC.
SelectsAlone(c, op, s, t, i) ==
  CASE op = "VLT" -> s < t
    [] op = "VEQ" -> s = t /\ i \notin c.vcohi
    [] op = "VNE" -> s # t \/ i \in c.vcohi
    [] op = "VGE" -> s > t \/ (s = t /\ i \notin c.vcolo \cap c.vcohi)

\* Mutant: VEQ does not look at the flags of VSUBC.
SelectsEqualAlone(c, op, s, t, i) ==
  CASE op = "VLT" -> s < t \/ (s = t /\ i \in c.vcolo \cap c.vcohi)
    [] op = "VEQ" -> s = t
    [] op = "VNE" -> s # t \/ i \in c.vcohi
    [] op = "VGE" -> s > t \/ (s = t /\ i \notin c.vcolo \cap c.vcohi)

Selects(c, op, s, t, i) ==
  CASE op = "VLT" -> s < t \/ (s = t /\ i \in c.vcolo \cap c.vcohi)
    [] op = "VEQ" -> s = t /\ i \notin c.vcohi
    [] op = "VNE" -> s # t \/ i \in c.vcohi
    [] op = "VGE" -> s > t \/ (s = t /\ i \notin c.vcolo \cap c.vcohi)

\* RSPVLT, RSPVEQ, RSPVNE, RSPVGE: vs where it is selected, vt elsewhere (VEQ
\* and VNE write vt and vs in all lanes, which is the same).
Select(c, op, vd, vs, vt) ==
  LET selected ==
        {i \in Lane : Selects(c, op, Signed(vs[i]), Signed(vt[i]), i)} IN
  [Writes(ClearsVCO(c), vd,
          [i \in Lane |-> IF i \in selected THEN vs[i] ELSE vt[i]])
   EXCEPT !.vccLe = selected, !.vccGe = {}]

RSPVMRG(c, vd, vs, vt) ==
  Writes(c, vd, [i \in Lane |-> IF i \in c.vccLe THEN vs[i] ELSE vt[i]])

(***************************************************************************)
(* Clipping: vs is kept between -vt and vt, VCC tells where it was below   *)
(* (the low byte) and above (the high byte).  VCH does the high halves of  *)
(* numbers of two slices and leaves VCO and VCE for VCL and the low ones.  *)
(***************************************************************************)
SignsDiffer(vs, vt) ==
  {i \in Lane : (Signed(vs[i]) < 0) # (Signed(vt[i]) < 0)}

\* -vt where the signs differ and vs is below it, vt where they do not and vs
\* is above it, vs elsewhere.
Clipped(vs, vt, sn, le, ge) ==
  [i \in Lane |-> CASE i \in sn \cap le -> Wrap(-vt[i])
                    [] i \in ge \ sn -> vt[i]
                    [] OTHER -> vs[i]]

\* Mutant: VCE is left at zero.
RSPVCHWithoutVCE(c, vd, vs, vt) ==
  LET sn == SignsDiffer(vs, vt)
      sum(i) == Signed(vs[i]) + Signed(vt[i])
      ge == {i \in Lane : IF i \in sn THEN Signed(vt[i]) < 0
                          ELSE Signed(vs[i]) >= Signed(vt[i])}
      le == {i \in Lane : IF i \in sn THEN sum(i) <= 0 ELSE Signed(vt[i]) < 0} IN
  [Writes(c, vd, Clipped(vs, vt, sn, le, ge)) EXCEPT
    !.vccLe = le, !.vccGe = ge, !.vcolo = sn,
    !.vcohi = {i \in Lane : IF i \in sn THEN sum(i) \notin {0, -1} ELSE vs[i] # vt[i]},
    !.vce = {}]

RSPVCH(c, vd, vs, vt) ==
  LET sn == SignsDiffer(vs, vt)
      sum(i) == Signed(vs[i]) + Signed(vt[i])
      ge == {i \in Lane : IF i \in sn THEN Signed(vt[i]) < 0
                          ELSE Signed(vs[i]) >= Signed(vt[i])}
      le == {i \in Lane : IF i \in sn THEN sum(i) <= 0 ELSE Signed(vt[i]) < 0} IN
  [Writes(c, vd, Clipped(vs, vt, sn, le, ge)) EXCEPT
    !.vccLe = le, !.vccGe = ge, !.vcolo = sn,
    !.vcohi = {i \in Lane : IF i \in sn THEN sum(i) \notin {0, -1} ELSE vs[i] # vt[i]},
    !.vce = {i \in sn : sum(i) = -1}]

\* Where VCO says that the high halves did not decide, the unsigned low halves
\* do; elsewhere VCC stays as it was.
RSPVCL(c, vd, vs, vt) ==
  LET sn == c.vcolo
      eq == Lane \ c.vcohi
      sum(i) == vs[i] + vt[i]
      below(i) == IF i \in c.vce THEN sum(i) % Base = 0 \/ sum(i) < Base
                  ELSE sum(i) = 0
      le == {i \in Lane : IF i \in sn \cap eq THEN below(i) ELSE i \in c.vccLe}
      ge == {i \in Lane : IF i \in eq \ sn THEN vs[i] >= vt[i] ELSE i \in c.vccGe} IN
  [Writes(ClearsVCO(c), vd, Clipped(vs, vt, sn, le, ge)) EXCEPT
    !.vccLe = le, !.vccGe = ge, !.vce = {}]

\* Mutant: the complement is the opposite.
RSPVCRTwosComplement(c, vd, vs, vt) ==
  LET sn == SignsDiffer(vs, vt)
      ge == {i \in Lane : IF i \in sn THEN Signed(vt[i]) < 0
                          ELSE Signed(vs[i]) >= Signed(vt[i])}
      le == {i \in Lane : IF i \in sn THEN Signed(vs[i]) + Signed(vt[i]) < 0
                          ELSE Signed(vt[i]) < 0} IN
  [Writes(ClearsVCO(c), vd,
          [i \in Lane |-> CASE i \notin le -> vs[i]
                            [] i \in le \cap sn -> Wrap(-vt[i])
                            [] i \in le \ sn -> vt[i]])
   EXCEPT !.vccLe = le, !.vccGe = ge, !.vce = {}]

\* One's complement: -vt is ~vt.  In lanes of equal signs the code takes vt
\* where it is negative, whatever the comparison says.
RSPVCR(c, vd, vs, vt) ==
  LET sn == SignsDiffer(vs, vt)
      ge == {i \in Lane : IF i \in sn THEN Signed(vt[i]) < 0
                          ELSE Signed(vs[i]) >= Signed(vt[i])}
      le == {i \in Lane : IF i \in sn THEN Signed(vs[i]) + Signed(vt[i]) < 0
                          ELSE Signed(vt[i]) < 0} IN
  [Writes(ClearsVCO(c), vd,
          [i \in Lane |-> CASE i \notin le -> vs[i]
                            [] i \in le \cap sn -> Not(vt[i])
                            [] i \in le \ sn -> vt[i]])
   EXCEPT !.vccLe = le, !.vccGe = ge, !.vce = {}]

(***************************************************************************)
(* Products.  The accumulator has three parts; high and mid together are   *)
(* the upper part, a number of two slices that low carries into.           *)
(***************************************************************************)
MultiplyOp == {"VMULF", "VMULU", "VMUDL", "VMUDM", "VMUDN", "VMUDH"}
AccumulateOp == {"VMACF", "VMACU", "VMADL", "VMADM", "VMADN", "VMADH"}
FractionOp == {"VMULF", "VMULU", "VMACF", "VMACU"}

\* Mutant: VMUDN and VMADN take vs signed.
ProductSigned(op, s, t) ==
  CASE op \in FractionOp -> SignedPair(2 * Signed(s) * Signed(t))
    [] op \in {"VMUDL", "VMADL"} -> (s * t) \div Base
    [] op \in {"VMUDM", "VMADM"} -> Signed(s) * t
    [] op \in {"VMUDN", "VMADN"} -> Signed(s) * Signed(t)
    [] op \in {"VMUDH", "VMADH"} -> Signed(s) * Signed(t) * Base

\* Fractions: the doubled product is cut to 32 bits, so that the square of the
\* smallest number comes out negative.
Product(op, s, t) ==
  CASE op \in FractionOp -> SignedPair(2 * Signed(s) * Signed(t))
    [] op \in {"VMUDL", "VMADL"} -> (s * t) \div Base
    [] op \in {"VMUDM", "VMADM"} -> Signed(s) * t
    [] op \in {"VMUDN", "VMADN"} -> s * Signed(t)
    [] op \in {"VMUDH", "VMADH"} -> Signed(s) * Signed(t) * Base

Rounding(op) == IF op \in {"VMULF", "VMULU"} THEN Half ELSE 0

\* RSPClampLowToVal: low where high and mid are its sign extension, 0 elsewhere.
RSPClampLowToVal(low, mid, high) ==
  IF high = (IF mid < Half THEN 0 ELSE Base - 1) THEN low ELSE 0

\* Mutant: the upper part is wrapped and not saturated.
ResultUnsaturated(op, high, mid, low) ==
  CASE op = "VMULF" -> Wrap(IF mid < Half THEN mid ELSE mid - 1)
    [] op \in {"VMULU", "VMACU"} ->
         IF Signed(high) < 0 THEN 0
         ELSE IF Pair(high, mid) >= Half THEN Base - 1 ELSE mid
    [] op \in {"VMUDH", "VMADH", "VMADM", "VMACF"} -> mid
    [] op = "VMUDM" -> mid
    [] op \in {"VMUDL", "VMUDN"} -> low
    [] op \in {"VMADL", "VMADN"} -> RSPClampLowToVal(low, mid, high)

\* Mutant: the unsigned result is not cut at the top.
ResultUncut(op, high, mid, low) ==
  CASE op = "VMULF" -> Wrap(IF mid < Half THEN mid ELSE mid - 1)
    [] op \in {"VMULU", "VMACU"} -> IF Signed(high) < 0 THEN 0 ELSE mid
    [] op \in {"VMUDH", "VMADH", "VMADM", "VMACF"} -> Wrap(Sat(Pair(high, mid)))
    [] op = "VMUDM" -> mid
    [] op \in {"VMUDL", "VMUDN"} -> low
    [] op \in {"VMADL", "VMADN"} -> RSPClampLowToVal(low, mid, high)

\* What goes to vd.  VMULF adds the sign of mid, VMULU and VMACU cut to 0 and
\* to all ones.
ResultOf(op, high, mid, low) ==
  CASE op = "VMULF" -> Wrap(IF mid < Half THEN mid ELSE mid - 1)
    [] op \in {"VMULU", "VMACU"} ->
         IF Signed(high) < 0 THEN 0
         ELSE IF Pair(high, mid) >= Half THEN Base - 1 ELSE mid
    [] op \in {"VMUDH", "VMADH", "VMADM", "VMACF"} -> Wrap(Sat(Pair(high, mid)))
    [] op = "VMUDM" -> mid
    [] op \in {"VMUDL", "VMUDN"} -> low
    [] op \in {"VMADL", "VMADN"} -> RSPClampLowToVal(low, mid, high)

\* Mutant: low does not carry.
SumWithoutCarry(low, upper, product) ==
  LET newLow == low + (product % Base) IN
  <<newLow % Base, upper + product \div Base>>

\* <<low, upper>> after a product is added: low is added by itself and carries.
AccumulatorSum(low, upper, product) ==
  LET newLow == low + (product % Base) IN
  <<newLow % Base, upper + product \div Base + newLow \div Base>>

\* A multiplication starts from an accumulator of zero, an accumulation goes on.
MultiplyOf(c, op, vd, vs, vt) ==
  LET product(i) == Product(op, vs[i], vt[i])
      sum == [i \in Lane |->
        IF op \in MultiplyOp THEN AccumulatorSum(0, 0, product(i) + Rounding(op))
        ELSE AccumulatorSum(c.accLow[i], Pair(c.accHigh[i], c.accMid[i]), product(i))]
      low == [i \in Lane |-> sum[i][1]]
      mid == [i \in Lane |-> Wrap(sum[i][2])]
      high == [i \in Lane |-> Wrap(sum[i][2] \div Base)] IN
  [c EXCEPT !.accLow = low, !.accMid = mid, !.accHigh = high,
            !.regs[vd] = [i \in Lane |-> ResultOf(op, high[i], mid[i], low[i])]]

\* VMOV moves one lane; the accumulator takes all of them.
RSPVMOV(c, vd, de, operands) ==
  [c EXCEPT !.regs[vd][de] = operands[de], !.accLow = operands]

RSPVSAR(c, vd, e) ==
  [c EXCEPT !.regs[vd] = CASE e = 8 -> c.accHigh
                           [] e = 9 -> c.accMid
                           [] e = 10 -> c.accLow
                           [] OTHER -> [i \in Lane |-> 0]]

(***************************************************************************)
(* The divider.  A number of two slices goes in over two instructions,     *)
(* high half first, and its reciprocal, or that of its root, comes out     *)
(* over two: the high half with the instruction after.                     *)
(***************************************************************************)
\* ReciprocalLUT: the bits below the leading one of the reciprocal of a number
\* and, in the second half, of the reciprocal of its root, by the bits below
\* its own leading one; there the lowest bit of the index is that of the
\* exponent.
ReciprocalLUT ==
  [n \in 0 .. Power[TableBits + 1] - 1 |->
     IF n < Power[TableBits]
     THEN LET quotient == Power[SliceBits + TableBits + 9] \div (Power[TableBits] + n) IN
          MinOf(Base - 1, (quotient + 1) \div 256 - Base)
     ELSE LET number == n \div (1 + (n % 2))
              limit == Power[2 * SliceBits + TableBits + 3]
              root == CHOOSE r \in 0 .. 8 * Base :
                        number * r * r < limit /\ number * (r + 1) * (r + 1) >= limit
          IN (root \div 2) % Base]

\* -x, and ~x below the smallest slice.
Magnitude(x) == IF x < -Half THEN -x - 1 ELSE IF x < 0 THEN -x ELSE x

LeadingBit(m) == CHOOSE k \in 0 .. 2 * SliceBits - 1 : Power[k] <= m /\ m < Power[k + 1]

\* The bits of m below its leading one, k.
TableIndex(m, k) ==
  ((m * Power[2 * SliceBits - 1 - k]) \div Power[2 * SliceBits - 1 - TableBits]) % Power[TableBits]

\* Mutant: the lowest bit of the index is not that of the exponent.
RootEntryEven(index, k) == ReciprocalLUT[Power[TableBits] + 2 * (index \div 2)]
RootEntry(index, k) ==
  ReciprocalLUT[Power[TableBits] + 2 * (index \div 2) + ((2 * SliceBits - 1 - k) % 2)]

\* Mutant: the quotient of a root is shifted by the whole exponent.
DivideByWholeExponent(x, root) ==
  LET m == Magnitude(x)
      k == LeadingBit(m)
      fetch == IF root THEN RootEntry(TableIndex(m, k), k)
               ELSE ReciprocalLUT[TableIndex(m, k)]
      quotient == (Half * Half + fetch * (Half \div 2)) \div Power[k] IN
  IF x = 0 THEN 2 * Half * Half - 1 ELSE IF x < 0 THEN -1 - quotient ELSE quotient

\* cp2.divOut for cp2.divIn: a leading one and the entry behind it, shifted.
Divide(x, root) ==
  LET m == Magnitude(x)
      k == LeadingBit(m)
      fetch == IF root THEN RootEntry(TableIndex(m, k), k)
               ELSE ReciprocalLUT[TableIndex(m, k)]
      quotient == (Half * Half + fetch * (Half \div 2))
                    \div Power[IF root THEN k \div 2 ELSE k] IN
  IF x = 0 THEN 2 * Half * Half - 1 ELSE IF x < 0 THEN -1 - quotient ELSE quotient

\* What VRCP, VRCPL and VRSQL have in common; number is the operand.
Divides(c, vd, de, operands, number, root) ==
  LET quotient == Divide(number, root) IN
  [c EXCEPT !.divIn = number, !.divOut = quotient, !.doublePrecision = FALSE,
            !.accLow = operands, !.regs[vd][de] = Wrap(quotient)]

\* VRCPH and VRSQH: the high half of the next operand and of the last result.
RSPVRCPH(c, vd, de, operands, slice) ==
  [c EXCEPT !.divIn = Signed(slice) * Base, !.doublePrecision = TRUE,
            !.accLow = operands, !.regs[vd][de] = Wrap(c.divOut \div Base)]

\* Mutant: the high half is used though no VRCPH came before.
LowOperandAlways(c, slice) == (c.divIn \div Base) * Base + slice
\* The operand of VRCPL and VRSQL.
LowOperand(c, slice) == IF c.doublePrecision THEN c.divIn + slice ELSE slice

(***************************************************************************)
(* RSPCycleCP2: one vector instruction.  Those the code leaves             *)
(* unimplemented (VMACQ, VMULQ, VRNDN, VRNDP, VRSQ) change nothing.        *)
(***************************************************************************)
RSPCycleCP2(c, iw) ==
  LET op == RSPDecodeVectorInstruction(iw)
      vd == iw.sa
      e == iw.rs % 16
      de == iw.rd % 8
      vs == c.regs[iw.rd]
      vt == RSPGetVectorOperands(c.regs[iw.rt], e)
      slice == c.regs[iw.rt][e % 8] IN
  CASE op = "VADD" -> RSPVADD(c, vd, vs, vt)
    [] op = "VSUB" -> RSPVSUB(c, vd, vs, vt)
    [] op = "VADDC" -> RSPVADDC(c, vd, vs, vt)
    [] op = "VSUBC" -> RSPVSUBC(c, vd, vs, vt)
    [] op = "VABS" -> RSPVABS(c, vd, vs, vt)
    [] op \in LogicOp -> LogicOf(c, op, vd, vs, vt)
    [] op \in SelectOp -> Select(c, op, vd, vs, vt)
    [] op = "VMRG" -> RSPVMRG(c, vd, vs, vt)
    [] op = "VCH" -> RSPVCH(c, vd, vs, vt)
    [] op = "VCL" -> RSPVCL(c, vd, vs, vt)
    [] op = "VCR" -> RSPVCR(c, vd, vs, vt)
    [] op \in MultiplyOp \cup AccumulateOp -> MultiplyOf(c, op, vd, vs, vt)
    [] op = "VMOV" -> RSPVMOV(c, vd, de, vt)
    [] op = "VSAR" -> RSPVSAR(c, vd, e)
    [] op = "VRCP" -> Divides(c, vd, de, vt, Signed(slice), FALSE)
    [] op = "VRCPL" -> Divides(c, vd, de, vt, LowOperand(c, slice), FALSE)
    [] op = "VRSQL" -> Divides(c, vd, de, vt, LowOperand(c, slice), TRUE)
    [] op \in {"VRCPH", "VRSQH"} -> RSPVRCPH(c, vd, de, vt, slice)
    [] OTHER -> c

(***************************************************************************)
(* The flags from and to scalar registers (CFC2 and CTC2): two sets of     *)
(* lanes, the low byte and the high byte.                                  *)
(***************************************************************************)
RSPCFC2(c, source) ==
  CASE source % 4 = 0 -> <<c.vcolo, c.vcohi>>
    [] source % 4 = 1 -> <<c.vccLe, c.vccGe>>
    [] OTHER -> <<c.vce, {}>>

\* Mutant: the bytes of VCO change places.
RSPCTC2Swapped(c, dest, flags) ==
  CASE dest % 4 = 0 -> [c EXCEPT !.vcolo = flags[2], !.vcohi = flags[1]]
    [] dest % 4 = 1 -> [c EXCEPT !.vccLe = flags[1], !.vccGe = flags[2]]
    [] OTHER -> [c EXCEPT !.vce = flags[1]]

RSPCTC2(c, dest, flags) ==
  CASE dest % 4 = 0 -> [c EXCEPT !.vcolo = flags[1], !.vcohi = flags[2]]
    [] dest % 4 = 1 -> [c EXCEPT !.vccLe = flags[1], !.vccGe = flags[2]]
    [] OTHER -> [c EXCEPT !.vce = flags[1]]
=============================================================================
