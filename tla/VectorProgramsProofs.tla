------------------------- MODULE VectorProgramsProofs -------------------------
(***************************************************************************)
(* The programs of VectorPrograms come out right whatever the width of a   *)
(* slice, the registers they start with and the number of registers:       *)
(* numbers of two slices added, subtracted, compared, multiplied and       *)
(* clipped, sums of fractions, distances and crimped slices, logical       *)
(* operations, lanes that meet one another, reciprocals and roots.  First  *)
(* the facts about the handlers of VectorUnit they rest on, then each      *)
(* instruction, then the histories of the programs, then the divider.      *)
(***************************************************************************)
EXTENDS VectorPrograms, BinaryProofs

(***************************************************************************)
(* The handlers of VectorUnit: slices as digits of numbers, saturation,    *)
(* what the handlers do to the registers and the flags.                    *)
(***************************************************************************)

\* The powers of two that occur; half the range of a slice is even.
LEMMA SliceSizes ==
  /\ SliceBits \in Nat /\ TableBits \in Nat /\ SliceBits - 1 \in Nat /\ SliceBits - 2 \in Nat
  /\ Half \in Nat \ {0} /\ Half = 2 * Power[SliceBits - 2] /\ Power[SliceBits - 2] \in Nat \ {0}
  /\ Base = Power[SliceBits]
<1>1. /\ SliceBits \in Nat /\ TableBits \in Nat /\ SliceBits - 1 \in Nat
      /\ SliceBits - 2 \in Nat /\ (SliceBits - 2) + 1 = SliceBits - 1
      /\ (SliceBits - 1) + 1 = SliceBits
  BY SliceAssumption
<1>2. /\ Power[SliceBits - 1] \in Nat \ {0} /\ Power[SliceBits - 2] \in Nat \ {0}
      /\ Power[SliceBits - 1] = 2 * Power[SliceBits - 2]
      /\ Power[SliceBits] = 2 * Power[SliceBits - 1]
  BY <1>1, PowerSteps
<1>. QED BY <1>1, <1>2 DEF Half, Base

\* There are slices.
LEMMA HalfPositive == Half \in Nat \ {0}
BY SliceSizes

\* A quotient and a remainder put together come apart again.
LEMMA DivMod ==
  ASSUME NEW n \in Nat, n > 0, NEW q \in Int, NEW r \in 0 .. n - 1
  PROVE  (q * n + r) \div n = q /\ (q * n + r) % n = r
OBVIOUS

\* Numbers of two digits are ordered by the high digit first.
LEMMA PairsOrder ==
  ASSUME NEW n \in Nat, n > 0, NEW x \in Int, NEW y \in Int,
         NEW p \in 0 .. n - 1, NEW q \in 0 .. n - 1
  PROVE  /\ x * n + p < y * n + q <=> x < y \/ (x = y /\ p < q)
         /\ x * n + p = y * n + q <=> x = y /\ p = q
<1>1. ASSUME x < y PROVE x * n + p < y * n + q
  <2>1. (x + 1) * n <= y * n
    BY <1>1
  <2>2. (x + 1) * n = x * n + n
    OBVIOUS
  <2>. QED BY <2>1, <2>2
<1>2. ASSUME y < x PROVE y * n + q < x * n + p
  <2>1. (y + 1) * n <= x * n
    BY <1>2
  <2>2. (y + 1) * n = y * n + n
    OBVIOUS
  <2>. QED BY <2>1, <2>2
<1>3. x < y \/ x = y \/ y < x
  OBVIOUS
<1>4. x * n \in Int /\ y * n \in Int
  OBVIOUS
<1>. QED BY <1>1, <1>2, <1>3, <1>4

\* Slices: their range, signed and unsigned, and what fits already.
LEMMA SliceTypes ==
  /\ Base \in Nat /\ Base = 2 * Half /\ Base > 1
  /\ \A x \in Slice : x \in 0 .. Base - 1 /\ Signed(x) \in -Half .. Half - 1
  /\ \A x \in Int : Wrap(x) \in Slice
  /\ \A x \in Slice : Wrap(x) = x
BY HalfPositive DEF Base, Slice, Signed, Wrap

\* RSPVADD's two saturating steps saturate the sum with its carry once.
LEMMA SumSaturatedOnce ==
  ASSUME NEW s \in -Half .. Half - 1, NEW t \in -Half .. Half - 1,
         NEW carry \in 0 .. 1
  PROVE  SumSaturated(s, t, carry) = Sat(s + t + carry)
BY HalfPositive DEF SumSaturated, Sat, MinOf, MaxOf

\* RSPVSUB's steps saturate the difference with its borrow once.
LEMMA DifferenceSaturatedOnce ==
  ASSUME NEW s \in -Half .. Half - 1, NEW t \in -Half .. Half - 1,
         NEW borrow \in 0 .. 1
  PROVE  DifferenceSaturated(s, t, borrow) = Sat(s - t - borrow)
BY HalfPositive DEF DifferenceSaturated, Sat

\* A sum of two slices each: the low halves, and the high halves with the carry.
LEMMA WideSumOfSlices ==
  ASSUME NEW ah \in Slice, NEW al \in Slice, NEW bh \in Slice, NEW bl \in Slice,
         NEW carry, carry = IF al + bl >= Base THEN 1 ELSE 0
  PROVE  /\ (Pair(ah, al) + Pair(bh, bl)) % Base = Wrap(al + bl)
         /\ (Pair(ah, al) + Pair(bh, bl)) \div Base
              = Signed(ah) + Signed(bh) + carry
<1>. DEFINE r == al + bl - carry * Base
            q == Signed(ah) + Signed(bh) + carry
<1>1. r \in 0 .. Base - 1 /\ q \in Int /\ carry \in 0 .. 1
  BY SliceTypes
<1>2. Pair(ah, al) + Pair(bh, bl) = q * Base + r
  <2>1. (Signed(ah) + Signed(bh) + carry) * Base
          = Signed(ah) * Base + Signed(bh) * Base + carry * Base
    BY SliceTypes, <1>1
  <2>2. Signed(ah) * Base \in Int /\ Signed(bh) * Base \in Int
        /\ carry * Base \in Int /\ al \in Int /\ bl \in Int
    BY SliceTypes, <1>1
  <2>. QED BY <2>1, <2>2 DEF Pair
<1>3. al + bl = carry * Base + r
  BY SliceTypes, <1>1
<1>. HIDE DEF q, r
<1>4. (q * Base + r) \div Base = q /\ (q * Base + r) % Base = r
  BY DivMod, SliceTypes, <1>1
<1>5. (carry * Base + r) % Base = r
  BY DivMod, SliceTypes, <1>1
<1>. QED BY <1>2, <1>3, <1>4, <1>5 DEF Wrap, q

\* The same of a difference and its borrow.
LEMMA WideDifferenceOfSlices ==
  ASSUME NEW ah \in Slice, NEW al \in Slice, NEW bh \in Slice, NEW bl \in Slice,
         NEW borrow, borrow = IF al < bl THEN 1 ELSE 0
  PROVE  /\ (Pair(ah, al) - Pair(bh, bl)) % Base = Wrap(al - bl)
         /\ (Pair(ah, al) - Pair(bh, bl)) \div Base
              = Signed(ah) - Signed(bh) - borrow
<1>. DEFINE r == al - bl + borrow * Base
            q == Signed(ah) - Signed(bh) - borrow
<1>1. r \in 0 .. Base - 1 /\ q \in Int /\ borrow \in 0 .. 1
  BY SliceTypes
<1>2. Pair(ah, al) - Pair(bh, bl) = q * Base + r
  <2>1. (Signed(ah) - Signed(bh) - borrow) * Base
          = Signed(ah) * Base - Signed(bh) * Base - borrow * Base
    BY SliceTypes, <1>1
  <2>2. Signed(ah) * Base \in Int /\ Signed(bh) * Base \in Int
        /\ borrow * Base \in Int /\ al \in Int /\ bl \in Int
    BY SliceTypes, <1>1
  <2>. QED BY <2>1, <2>2 DEF Pair
<1>3. al - bl = (-borrow) * Base + r
  BY SliceTypes, <1>1
<1>. HIDE DEF q, r
<1>4. (q * Base + r) \div Base = q /\ (q * Base + r) % Base = r
  BY DivMod, SliceTypes, <1>1
<1>5. ((-borrow) * Base + r) % Base = r
  BY DivMod, SliceTypes, <1>1
<1>. QED BY <1>2, <1>3, <1>4, <1>5 DEF Wrap, q

\* The states of the unit.
Unit == [regs : [VReg -> Vector],
         accHigh : Vector, accMid : Vector, accLow : Vector,
         vcolo : SUBSET Lane, vcohi : SUBSET Lane,
         vccLe : SUBSET Lane, vccGe : SUBSET Lane, vce : SUBSET Lane,
         divIn : Int, divOut : Int, doublePrecision : BOOLEAN]

\* Element specifier 0 is the vector itself (RSPGetVectorOperands).
LEMMA WholeVector == ASSUME NEW vt \in Vector PROVE RSPGetVectorOperands(vt, 0) = vt
BY DEF RSPGetVectorOperands, OperandLane, Vector, Lane

\* A lane of a vector is a slice.
LEMMA VectorTypes ==
  ASSUME NEW v \in Vector, NEW i \in Lane
  PROVE  v[i] \in Slice /\ v[i] \in Int /\ Signed(v[i]) \in -Half .. Half - 1
BY SliceTypes DEF Vector

\* RSPVADDC: the sum and its carry-outs.
LEMMA AddCarry ==
  ASSUME NEW c \in Unit, NEW vd \in VReg, NEW vs \in Vector, NEW vt \in Vector,
         NEW d, d = RSPVADDC(c, vd, vs, vt)
  PROVE  /\ d \in Unit
         /\ d.regs = [c.regs EXCEPT ![vd] = [i \in Lane |-> Wrap(vs[i] + vt[i])]]
         /\ d.vcolo = {i \in Lane : vs[i] + vt[i] >= Base} /\ d.vcohi = {}
<1>1. [i \in Lane |-> Wrap(vs[i] + vt[i])] \in Vector
  BY VectorTypes, SliceTypes DEF Vector
<1>. QED BY <1>1 DEF RSPVADDC, Writes, Unit

\* RSPVSUBC: the difference, its borrows, and where there is one at all.
LEMMA SubtractBorrow ==
  ASSUME NEW c \in Unit, NEW vd \in VReg, NEW vs \in Vector, NEW vt \in Vector,
         NEW d, d = RSPVSUBC(c, vd, vs, vt)
  PROVE  /\ d \in Unit
         /\ d.regs = [c.regs EXCEPT ![vd] = [i \in Lane |-> Wrap(vs[i] - vt[i])]]
         /\ d.vcolo = {i \in Lane : vs[i] < vt[i]}
         /\ d.vcohi = {i \in Lane : vs[i] # vt[i]}
<1>1. [i \in Lane |-> Wrap(vs[i] - vt[i])] \in Vector
  BY VectorTypes, SliceTypes DEF Vector
<1>. QED BY <1>1 DEF RSPVSUBC, Writes, Unit

\* RSPVADD: the sum with the carry, saturated once; the carry is gone.
LEMMA Add ==
  ASSUME NEW c \in Unit, NEW vd \in VReg, NEW vs \in Vector, NEW vt \in Vector,
         NEW d, d = RSPVADD(c, vd, vs, vt)
  PROVE  /\ d \in Unit
         /\ d.regs = [c.regs EXCEPT ![vd] = [i \in Lane |->
              Wrap(Sat(Signed(vs[i]) + Signed(vt[i]) + Carry(c, i)))]]
         /\ d.vcolo = {} /\ d.vcohi = {}
<1>1. \A i \in Lane : Carry(c, i) \in 0 .. 1
  BY DEF Carry
<1>2. \A i \in Lane : SumSaturated(Signed(vs[i]), Signed(vt[i]), Carry(c, i))
                        = Sat(Signed(vs[i]) + Signed(vt[i]) + Carry(c, i))
  BY <1>1, VectorTypes, SumSaturatedOnce
<1>3. \A i \in Lane : Sat(Signed(vs[i]) + Signed(vt[i]) + Carry(c, i)) \in Int
  BY <1>1, VectorTypes, HalfPositive DEF Sat
<1>4. [i \in Lane |-> Wrap(Sat(Signed(vs[i]) + Signed(vt[i]) + Carry(c, i)))]
        \in Vector
      /\ [i \in Lane |-> Wrap(vs[i] + vt[i] + Carry(c, i))] \in Vector
  BY <1>1, <1>3, VectorTypes, SliceTypes DEF Vector
<1>5. [i \in Lane |-> Wrap(SumSaturated(Signed(vs[i]), Signed(vt[i]), Carry(c, i)))]
       = [i \in Lane |-> Wrap(Sat(Signed(vs[i]) + Signed(vt[i]) + Carry(c, i)))]
  BY <1>2
<1>. QED BY <1>4, <1>5 DEF RSPVADD, ClearsVCO, Unit

\* RSPVSUB: the difference with the borrow, saturated once; the borrow is gone.
LEMMA Subtract ==
  ASSUME NEW c \in Unit, NEW vd \in VReg, NEW vs \in Vector, NEW vt \in Vector,
         NEW d, d = RSPVSUB(c, vd, vs, vt)
  PROVE  /\ d \in Unit
         /\ d.regs = [c.regs EXCEPT ![vd] = [i \in Lane |->
              Wrap(Sat(Signed(vs[i]) - Signed(vt[i]) - Carry(c, i)))]]
         /\ d.vcolo = {} /\ d.vcohi = {}
<1>1. \A i \in Lane : Carry(c, i) \in 0 .. 1
  BY DEF Carry
<1>2. \A i \in Lane : DifferenceSaturated(Signed(vs[i]), Signed(vt[i]), Carry(c, i))
                        = Sat(Signed(vs[i]) - Signed(vt[i]) - Carry(c, i))
  BY <1>1, VectorTypes, DifferenceSaturatedOnce
<1>3. \A i \in Lane : Sat(Signed(vs[i]) - Signed(vt[i]) - Carry(c, i)) \in Int
  BY <1>1, VectorTypes, HalfPositive DEF Sat
<1>4. [i \in Lane |-> Wrap(Sat(Signed(vs[i]) - Signed(vt[i]) - Carry(c, i)))]
        \in Vector
      /\ [i \in Lane |-> Wrap(vs[i] - vt[i] - Carry(c, i))] \in Vector
  BY <1>1, <1>3, VectorTypes, SliceTypes DEF Vector
<1>5. [i \in Lane |->
         Wrap(DifferenceSaturated(Signed(vs[i]), Signed(vt[i]), Carry(c, i)))]
       = [i \in Lane |-> Wrap(Sat(Signed(vs[i]) - Signed(vt[i]) - Carry(c, i)))]
  BY <1>2
<1>. QED BY <1>4, <1>5 DEF RSPVSUB, ClearsVCO, Unit

\* RSPVLT, RSPVEQ, RSPVNE, RSPVGE: VCC says which operand each lane got.
LEMMA Compare ==
  ASSUME NEW c \in Unit, NEW op \in SelectOp, NEW vd \in VReg,
         NEW vs \in Vector, NEW vt \in Vector,
         NEW d, d = Select(c, op, vd, vs, vt)
  PROVE  /\ d \in Unit
         /\ d.vccLe = {i \in Lane :
              Selects(c, op, Signed(vs[i]), Signed(vt[i]), i)}
         /\ d.regs = [c.regs EXCEPT ![vd] =
              [i \in Lane |-> IF i \in d.vccLe THEN vs[i] ELSE vt[i]]]
<1>. DEFINE le == {i \in Lane : Selects(c, op, Signed(vs[i]), Signed(vt[i]), i)}
<1>1. le \in SUBSET Lane
  OBVIOUS
<1>. HIDE DEF le
<1>2. [i \in Lane |-> IF i \in le THEN vs[i] ELSE vt[i]] \in Vector
  BY DEF Vector
<1>3. d = [Writes(ClearsVCO(c), vd,
                  [i \in Lane |-> IF i \in le THEN vs[i] ELSE vt[i]])
           EXCEPT !.vccLe = le, !.vccGe = {}]
  BY DEF Select, le
<1>4. d \in Unit /\ d.vccLe = le
      /\ d.regs = [c.regs EXCEPT ![vd] =
              [i \in Lane |-> IF i \in le THEN vs[i] ELSE vt[i]]]
  <2>1. Writes(ClearsVCO(c), vd, [i \in Lane |-> IF i \in le THEN vs[i] ELSE vt[i]])
          \in Unit
    BY <1>2 DEF Writes, ClearsVCO, Unit
  <2>2. Writes(ClearsVCO(c), vd,
               [i \in Lane |-> IF i \in le THEN vs[i] ELSE vt[i]]).regs
          = [c.regs EXCEPT ![vd] = [i \in Lane |-> IF i \in le THEN vs[i] ELSE vt[i]]]
    BY DEF Writes, ClearsVCO, Unit
  <2>. QED BY <1>1, <1>3, <2>1, <2>2 DEF Unit
<1>. QED BY <1>4 DEF le

\* RSPVMRG selects by VCC and keeps it.
LEMMA Merge ==
  ASSUME NEW c \in Unit, NEW vd \in VReg, NEW vs \in Vector, NEW vt \in Vector,
         NEW d, d = RSPVMRG(c, vd, vs, vt)
  PROVE  /\ d \in Unit /\ d.vccLe = c.vccLe
         /\ d.regs = [c.regs EXCEPT ![vd] =
              [i \in Lane |-> IF i \in c.vccLe THEN vs[i] ELSE vt[i]]]
<1>2. [i \in Lane |-> IF i \in c.vccLe THEN vs[i] ELSE vt[i]] \in Vector
  BY DEF Vector
<1>. QED BY <1>2 DEF RSPVMRG, Writes, Unit

(***************************************************************************)
(* The accumulator.  Its three parts are the digits of one number, and as  *)
(* long as that fits, what the instructions add up in it is a sum.         *)
(***************************************************************************)
Total(c, i) == Pair(c.accHigh[i], c.accMid[i]) * Base + c.accLow[i]

\* What the accumulator is to hold after a multiplication or accumulation.
NewTotal(c, op, s, t, i) ==
  IF op \in MultiplyOp THEN Product(op, s, t) + Rounding(op)
  ELSE Total(c, i) + Product(op, s, t)

UpperRange == -(Half * Base) .. Half * Base - 1

\* A number has a quotient and a remainder.
LEMMA Digits ==
  ASSUME NEW x \in Int
  PROVE  /\ x \div Base \in Int /\ x % Base \in 0 .. Base - 1
         /\ x % Base \in Slice
         /\ x = (x \div Base) * Base + (x % Base)
<1>1. Base \in Nat /\ Base > 0
  BY SliceTypes
<1>. HIDE DEF Base
<1>. QED BY <1>1 DEF Slice

\* AccumulatorSum adds: low by itself, and its carry to the rest.
LEMMA SumAdds ==
  ASSUME NEW low \in Slice, NEW upper \in Int, NEW p \in Int,
         NEW total, total = upper * Base + low + p
  PROVE  AccumulatorSum(low, upper, p) = <<total % Base, total \div Base>>
<1>. DEFINE n == Base
            q == p \div n
            r == p % n
            l == low + r
            k == l \div n
            m == l % n
<1>1. n \in Nat /\ n > 0 /\ low \in Int
  BY SliceTypes
<1>2. q \in Int /\ r \in Int /\ p = q * n + r
  BY Digits
<1>3. l \in Int
  BY <1>1, <1>2
<1>4. k \in Int /\ m \in 0 .. n - 1 /\ l = k * n + m
  BY <1>3, Digits
<1>5. AccumulatorSum(low, upper, p) = <<m, upper + q + k>>
  BY DEF AccumulatorSum
<1>6. l = low + r
  OBVIOUS
<1>. HIDE DEF n, q, r, l, k, m
<1>7. total = (upper + q + k) * n + m
  <2>1. (upper + q + k) * n = upper * n + q * n + k * n
    BY <1>1, <1>2, <1>4
  <2>2. upper * n \in Int /\ q * n \in Int /\ k * n \in Int
    BY <1>1, <1>2, <1>4
  <2>. QED BY <1>1, <1>2, <1>4, <1>6, <2>1, <2>2 DEF n
<1>8. upper + q + k \in Int
  BY <1>2, <1>4
<1>9. total \div n = upper + q + k /\ total % n = m
  BY <1>1, <1>4, <1>7, <1>8, DivMod
<1>. QED BY <1>5, <1>9 DEF n

\* A signed slice comes back.
LEMMA SignedSlice ==
  ASSUME NEW x \in Int, -Half <= x, x < Half
  PROVE  Signed(Wrap(x)) = x
<1>1. Half \in Nat \ {0} /\ Base = 2 * Half
  BY SliceTypes, HalfPositive
<1>2. CASE x >= 0
  <2>1. x \in Slice
    BY <1>1, <1>2 DEF Slice
  <2>. QED BY <1>1, <1>2, <2>1, SliceTypes DEF Signed
<1>3. CASE x < 0
  <2>1. x + Base \in 0 .. Base - 1 /\ x = (-1) * Base + (x + Base) /\ Base \in Nat
    BY <1>1, <1>3
  <2>. HIDE DEF Base
  <2>2. x % Base = x + Base
    BY <1>1, <2>1, DivMod
  <2>. QED BY <1>1, <1>3, <2>2 DEF Signed, Wrap
<1>. QED BY <1>2, <1>3

\* Two slices that hold an upper part are that number.
LEMMA UpperParts ==
  ASSUME NEW x \in UpperRange
  PROVE  Pair(Wrap(x \div Base), Wrap(x)) = x
<1>. DEFINE n == Base
            q == x \div n
            r == x % n
<1>1. /\ Half \in Nat \ {0} /\ n = 2 * Half /\ n \in Nat
      /\ x \in Int /\ -(Half * n) <= x /\ x < Half * n
  BY SliceTypes, HalfPositive DEF UpperRange
<1>2. q \in Int /\ r \in 0 .. n - 1 /\ x = q * n + r
  BY Digits DEF UpperRange
<1>. HIDE DEF n, q, r
<1>3. q < Half
  <2>. SUFFICES ASSUME q >= Half PROVE FALSE
    BY <1>1, <1>2
  <2>1. q * n >= Half * n
    BY <1>1, <1>2
  <2>. QED BY <1>1, <1>2, <2>1
<1>4. q >= -Half
  <2>. SUFFICES ASSUME q + 1 <= -Half PROVE FALSE
    BY <1>1, <1>2
  <2>1. (q + 1) * n <= (-Half) * n
    BY <1>1, <1>2
  <2>2. (q + 1) * n = q * n + n /\ (-Half) * n = -(Half * n)
    BY <1>1, <1>2
  <2>. QED BY <1>1, <1>2, <2>1, <2>2
<1>5. Signed(Wrap(q)) = q
  BY <1>2, <1>3, <1>4, SignedSlice
<1>. QED BY <1>2, <1>5 DEF Pair, Wrap, q, r, n

\* Products and sums of products are integers,
LEMMA ProductTypes ==
  ASSUME NEW op \in MultiplyOp \cup AccumulateOp, NEW s \in Slice, NEW t \in Slice
  PROVE  Product(op, s, t) \in Int /\ Rounding(op) \in Int
<1>1. /\ Signed(s) \in Int /\ Signed(t) \in Int /\ s \in Int /\ t \in Int
      /\ Base \in Nat /\ Half \in Nat
  BY SliceTypes, HalfPositive
<1>2. \A x \in Int : x \div Base \in Int /\ x % Base \in Slice
  BY Digits
<1>3. \A x \in Slice : Signed(x) \in Int
  BY SliceTypes
<1>4. \A x \in Int : SignedPair(x) \in Int
  <2>. SUFFICES ASSUME NEW x \in Int PROVE SignedPair(x) \in Int
    OBVIOUS
  <2>. DEFINE q == (x \div Base) % Base  r == x % Base
  <2>1. q \in Slice /\ r \in Slice
    BY <1>2
  <2>2. SignedPair(x) = Signed(q) * Base + r
    BY DEF SignedPair, Pair
  <2>. HIDE DEF q, r
  <2>3. Signed(q) \in Int /\ r \in Int
    BY <2>1, SliceTypes
  <2>. QED BY <1>1, <2>2, <2>3
<1>. HIDE DEF Base, Half, Slice
<1>5. Rounding(op) \in Int
  BY <1>1 DEF Rounding
<1>6. 2 * Signed(s) * Signed(t) \in Int /\ Signed(s) * t \in Int /\ s * t \in Int
      /\ s * Signed(t) \in Int /\ Signed(s) * Signed(t) * Base \in Int
  BY <1>1
<1>7. Product(op, s, t) \in Int
  BY <1>2, <1>4, <1>6 DEF Product, MultiplyOp, AccumulateOp, FractionOp
<1>. QED BY <1>5, <1>7

\* and so is what the accumulator is to hold.
LEMMA TotalTypes ==
  ASSUME NEW c \in Unit, NEW i \in Lane
  PROVE  /\ Total(c, i) \in Int /\ c.accLow[i] \in Slice
         /\ Pair(c.accHigh[i], c.accMid[i]) \in Int
         /\ \A op \in MultiplyOp \cup AccumulateOp : \A s, t \in Slice :
              NewTotal(c, op, s, t, i) \in Int
<1>1. c.accHigh \in Vector /\ c.accMid \in Vector /\ c.accLow \in Vector
  BY DEF Unit
<1>2. /\ c.accLow[i] \in Slice /\ c.accLow[i] \in Int
      /\ c.accMid[i] \in Int /\ Signed(c.accHigh[i]) \in Int
  BY <1>1, VectorTypes
<1>3. Base \in Int
  BY SliceTypes
<1>4. Pair(c.accHigh[i], c.accMid[i]) \in Int
  BY <1>2, <1>3 DEF Pair
<1>5. Total(c, i) \in Int
  BY <1>2, <1>3, <1>4 DEF Total
<1>6. ASSUME NEW op \in MultiplyOp \cup AccumulateOp, NEW s \in Slice, NEW t \in Slice
      PROVE  NewTotal(c, op, s, t, i) \in Int
  BY <1>5, ProductTypes DEF NewTotal
<1>. QED BY <1>2, <1>4, <1>5, <1>6

\* What is written is a slice.
LEMMA ResultTypes ==
  ASSUME NEW op \in MultiplyOp \cup AccumulateOp,
         NEW high \in Slice, NEW mid \in Slice, NEW low \in Slice
  PROVE  ResultOf(op, high, mid, low) \in Slice
<1>1. /\ Half \in Nat \ {0} /\ Base = 2 * Half /\ mid \in Int /\ low \in Int
      /\ Signed(high) \in Int /\ 0 \in Slice /\ Base - 1 \in Slice
  BY SliceTypes, HalfPositive DEF Slice
<1>2. \A x \in Int : Wrap(x) \in Slice
  BY SliceTypes
<1>3. Pair(high, mid) \in Int
  BY <1>1 DEF Pair
<1>4. Sat(Pair(high, mid)) \in Int
  BY <1>1, <1>3 DEF Sat
<1>5. RSPClampLowToVal(low, mid, high) \in Slice
  BY <1>1 DEF RSPClampLowToVal
<1>6. (IF mid < Half THEN mid ELSE mid - 1) \in Int
  BY <1>1
<1>7. Wrap(IF mid < Half THEN mid ELSE mid - 1) \in Slice
      /\ Wrap(Sat(Pair(high, mid))) \in Slice
  BY <1>2, <1>4, <1>6
<1>. HIDE DEF Base, Half, Slice
<1>. QED BY <1>1, <1>5, <1>7 DEF ResultOf, MultiplyOp, AccumulateOp, FractionOp

\* A multiplication or accumulation leaves the sum in the accumulator, and in
\* vd what ResultOf makes of its digits.
Multiplied(c, d, op, s, t, vd, i) ==
  LET total == NewTotal(c, op, s, t, i)
      upper == total \div Base IN
  /\ d.accLow[i] = total % Base
  /\ d.accMid[i] = Wrap(upper) /\ d.accHigh[i] = Wrap(upper \div Base)
  /\ d.regs[vd][i] = ResultOf(op, Wrap(upper \div Base), Wrap(upper), total % Base)

\* The handlers of the multiplications and accumulations do that.
LEMMA Multiply ==
  ASSUME NEW c \in Unit, NEW op \in MultiplyOp \cup AccumulateOp, NEW vd \in VReg,
         NEW vs \in Vector, NEW vt \in Vector,
         NEW d, d = MultiplyOf(c, op, vd, vs, vt)
  PROVE  /\ d \in Unit
         /\ \A v \in VReg : v # vd => d.regs[v] = c.regs[v]
         /\ \A i \in Lane : Multiplied(c, d, op, vs[i], vt[i], vd, i)
<1>. DEFINE product(i) == Product(op, vs[i], vt[i])
            sum == [i \in Lane |->
              IF op \in MultiplyOp THEN AccumulatorSum(0, 0, product(i) + Rounding(op))
              ELSE AccumulatorSum(c.accLow[i], Pair(c.accHigh[i], c.accMid[i]), product(i))]
            low == [i \in Lane |-> sum[i][1]]
            mid == [i \in Lane |-> Wrap(sum[i][2])]
            high == [i \in Lane |-> Wrap(sum[i][2] \div Base)]
            result == [i \in Lane |-> ResultOf(op, high[i], mid[i], low[i])]
            total(i) == NewTotal(c, op, vs[i], vt[i], i)
<1>1. d = [c EXCEPT !.accLow = low, !.accMid = mid, !.accHigh = high, !.regs[vd] = result]
  BY DEF MultiplyOf
<1>2. ASSUME NEW i \in Lane
      PROVE  /\ total(i) \in Int
             /\ sum[i] = <<total(i) % Base, total(i) \div Base>>
  <2>. DEFINE s == vs[i]  t == vt[i]  tt == NewTotal(c, op, s, t, i)
              l == c.accLow[i]  u == Pair(c.accHigh[i], c.accMid[i])
              p == Product(op, s, t)
  <2>1. s \in Slice /\ t \in Slice
    BY VectorTypes
  <2>2. tt \in Int /\ l \in Slice /\ u \in Int
    BY <2>1, TotalTypes
  <2>3. p \in Int /\ Rounding(op) \in Int
    BY <2>1, ProductTypes
  <2>4. CASE op \in MultiplyOp
    <3>1. tt = p + Rounding(op)
      BY <2>4 DEF NewTotal
    <3>2. 0 \in Slice /\ 0 * Base + 0 + tt = tt /\ tt = 0 * Base + 0 + (p + Rounding(op))
      BY <2>2, <2>3, <3>1, SliceTypes DEF Slice
    <3>. HIDE DEF tt, p
    <3>3. AccumulatorSum(0, 0, p + Rounding(op)) = <<tt % Base, tt \div Base>>
      BY <2>2, <2>3, <3>2, SumAdds
    <3>4. sum[i] = AccumulatorSum(0, 0, p + Rounding(op))
      BY <2>4 DEF p
    <3>. QED BY <2>2, <3>3, <3>4 DEF tt
  <2>5. CASE op \notin MultiplyOp
    <3>1. tt = u * Base + l + p
      BY <2>5 DEF NewTotal, Total
    <3>. HIDE DEF tt, p, l, u
    <3>2. AccumulatorSum(l, u, p) = <<tt % Base, tt \div Base>>
      BY <2>2, <2>3, <3>1, SumAdds
    <3>3. sum[i] = AccumulatorSum(l, u, p)
      BY <2>5 DEF l, u, p
    <3>. QED BY <2>2, <3>2, <3>3 DEF tt
  <2>. QED BY <2>4, <2>5
<1>. HIDE DEF sum, total
<1>3. ASSUME NEW i \in Lane
      PROVE  /\ low[i] = total(i) % Base /\ low[i] \in Slice
             /\ mid[i] = Wrap(total(i) \div Base) /\ mid[i] \in Slice
             /\ high[i] = Wrap((total(i) \div Base) \div Base) /\ high[i] \in Slice
             /\ result[i] \in Slice
  <2>1. /\ low[i] = total(i) % Base
        /\ mid[i] = Wrap(total(i) \div Base)
        /\ high[i] = Wrap((total(i) \div Base) \div Base)
    BY <1>2
  <2>2. total(i) \div Base \in Int /\ total(i) % Base \in Slice
        /\ (total(i) \div Base) \div Base \in Int
    BY <1>2, Digits
  <2>3. low[i] \in Slice /\ mid[i] \in Slice /\ high[i] \in Slice
    BY <2>1, <2>2, SliceTypes
  <2>4. result[i] = ResultOf(op, high[i], mid[i], low[i])
    OBVIOUS
  <2>. HIDE DEF low, mid, high, result
  <2>5. result[i] \in Slice
    BY <2>3, <2>4, ResultTypes
  <2>. QED BY <2>1, <2>3, <2>5
<1>4. \A i \in Lane : result[i] = ResultOf(op, high[i], mid[i], low[i])
  OBVIOUS
<1>5. /\ DOMAIN low = Lane /\ DOMAIN mid = Lane /\ DOMAIN high = Lane
      /\ DOMAIN result = Lane
      /\ low = [i \in Lane |-> low[i]] /\ mid = [i \in Lane |-> mid[i]]
      /\ high = [i \in Lane |-> high[i]] /\ result = [i \in Lane |-> result[i]]
  OBVIOUS
<1>. HIDE DEF low, mid, high, result
<1>6. low \in Vector /\ mid \in Vector /\ high \in Vector /\ result \in Vector
  BY <1>3, <1>5 DEF Vector
<1>7. /\ d \in Unit /\ d.accLow = low /\ d.accMid = mid /\ d.accHigh = high
      /\ d.regs = [c.regs EXCEPT ![vd] = result] /\ c.regs \in [VReg -> Vector]
  <2>. DEFINE regs == [c.regs EXCEPT ![vd] = result]
  <2>1. c.regs \in [VReg -> Vector]
    BY DEF Unit
  <2>2. regs \in [VReg -> Vector]
    BY <1>6, <2>1
  <2>3. d = [c EXCEPT !.accLow = low, !.accMid = mid, !.accHigh = high, !.regs = regs]
    BY <1>1
  <2>. HIDE DEF regs
  <2>4. d \in Unit /\ d.accLow = low /\ d.accMid = mid /\ d.accHigh = high
        /\ d.regs = regs
    BY <1>6, <2>2, <2>3 DEF Unit
  <2>. QED BY <2>1, <2>4 DEF regs
<1>8. d.regs[vd] = result /\ \A v \in VReg : v # vd => d.regs[v] = c.regs[v]
  BY <1>7
<1>9. ASSUME NEW i \in Lane PROVE Multiplied(c, d, op, vs[i], vt[i], vd, i)
  BY <1>3, <1>4, <1>7, <1>8 DEF Multiplied, total
<1>. QED BY <1>7, <1>8, <1>9

\* The digits of an upper part: the high one is its sign where it fits a slice.
LEMMA UpperDigits ==
  ASSUME NEW x \in UpperRange, NEW q, q = x \div Base, NEW r, r = x % Base
  PROVE  /\ q \in Int /\ -Half <= q /\ q < Half /\ r \in 0 .. Base - 1
         /\ x = q * Base + r /\ Signed(Wrap(q)) = q
         /\ x < 0 <=> q < 0
         /\ -Half <= x /\ x < Half
              <=> (q = 0 /\ r < Half) \/ (q + 1 = 0 /\ r >= Half)
<1>. DEFINE n == Base
<1>1. /\ Half \in Nat \ {0} /\ n = 2 * Half /\ n \in Nat
      /\ x \in Int /\ -(Half * n) <= x /\ x < Half * n
  BY SliceTypes, HalfPositive DEF UpperRange
<1>2. q \in Int /\ r \in 0 .. n - 1 /\ x = q * n + r
  BY Digits DEF UpperRange
<1>. HIDE DEF n
<1>3. q < Half
  <2>. SUFFICES ASSUME q >= Half PROVE FALSE
    BY <1>1, <1>2
  <2>1. q * n >= Half * n
    BY <1>1, <1>2
  <2>. QED BY <1>1, <1>2, <2>1
<1>4. q >= -Half
  <2>. SUFFICES ASSUME q + 1 <= -Half PROVE FALSE
    BY <1>1, <1>2
  <2>1. (q + 1) * n <= (-Half) * n
    BY <1>1, <1>2
  <2>2. (q + 1) * n = q * n + n /\ (-Half) * n = -(Half * n)
    BY <1>1, <1>2
  <2>. QED BY <1>1, <1>2, <2>1, <2>2
<1>5. Signed(Wrap(q)) = q
  BY <1>2, <1>3, <1>4, SignedSlice
<1>6. CASE q = 0
  <2>1. x = r
    BY <1>2, <1>6, <1>1
  <2>. QED BY <1>1, <1>2, <1>3, <1>4, <1>5, <1>6, <2>1 DEF n
<1>7. CASE q + 1 = 0
  <2>1. q * n = -n
    BY <1>1, <1>2, <1>7
  <2>2. x = r - n
    BY <1>1, <1>2, <2>1
  <2>. QED BY <1>1, <1>2, <1>3, <1>4, <1>5, <1>7, <2>2 DEF n
<1>8. CASE q >= 1
  <2>1. q * n >= n
    BY <1>1, <1>2, <1>8
  <2>2. x >= n
    BY <1>1, <1>2, <2>1
  <2>. QED BY <1>1, <1>2, <1>3, <1>4, <1>5, <1>8, <2>2 DEF n
<1>9. CASE q <= -2
  <2>1. q * n <= (-2) * n
    BY <1>1, <1>2, <1>9
  <2>2. x < -n
    BY <1>1, <1>2, <2>1
  <2>. QED BY <1>1, <1>2, <1>3, <1>4, <1>5, <1>9, <2>2 DEF n
<1>. QED BY <1>2, <1>6, <1>7, <1>8, <1>9

\* What goes to vd, for an upper part that the accumulator can hold: saturated
\* (VMUDH, VMADH, VMADM, VMACF), cut (VMULU, VMACU), or the low part where the
\* number fits (RSPClampLowToVal).
Unsigned(x) == IF x < 0 THEN 0 ELSE IF x >= Half THEN Base - 1 ELSE x
FitsSlice(x) == -Half <= x /\ x < Half

\* ResultOf makes of the digits of x and low what these say of the numbers.
LEMMA Results ==
  ASSUME NEW x \in UpperRange, NEW low \in Slice,
         NEW high, high = Wrap(x \div Base), NEW mid, mid = Wrap(x)
  PROVE  /\ \A op \in {"VMUDH", "VMADH", "VMADM", "VMACF"} :
              ResultOf(op, high, mid, low) = Wrap(Sat(x))
         /\ \A op \in {"VMADL", "VMADN"} :
              ResultOf(op, high, mid, low) = IF FitsSlice(x) THEN low ELSE 0
         /\ \A op \in {"VMULU", "VMACU"} :
              ResultOf(op, high, mid, low) = Unsigned(x)
<1>. DEFINE q == x \div Base
            r == x % Base
<1>1. /\ q \in Int /\ -Half <= q /\ q < Half /\ r \in 0 .. Base - 1
      /\ x = q * Base + r /\ Signed(Wrap(q)) = q
      /\ x < 0 <=> q < 0
      /\ FitsSlice(x) <=> (q = 0 /\ r < Half) \/ (q + 1 = 0 /\ r >= Half)
  BY UpperDigits DEF FitsSlice
<1>2. high = Wrap(q) /\ mid = r
  BY DEF Wrap
<1>3. Pair(high, mid) = x
  BY UpperParts
<1>4. Half \in Nat \ {0} /\ Base = 2 * Half /\ x \in Int
  BY SliceTypes, HalfPositive DEF UpperRange
<1>. HIDE DEF q, r
<1>5. ASSUME NEW op \in {"VMUDH", "VMADH", "VMADM", "VMACF"}
      PROVE  ResultOf(op, high, mid, low) = Wrap(Sat(x))
  BY <1>3 DEF ResultOf
<1>6. high \in Slice /\ Signed(high) = q
  BY <1>1, <1>2, SliceTypes
<1>7. (high = 0 <=> q = 0) /\ (high = Base - 1 <=> q + 1 = 0)
  BY <1>4, <1>6, SliceTypes DEF Signed, Slice
<1>8. RSPClampLowToVal(low, mid, high) = IF FitsSlice(x) THEN low ELSE 0
  BY <1>1, <1>2, <1>4, <1>7 DEF RSPClampLowToVal
<1>9. ASSUME NEW op \in {"VMADL", "VMADN"}
      PROVE  ResultOf(op, high, mid, low) = IF FitsSlice(x) THEN low ELSE 0
  BY <1>8 DEF ResultOf
<1>10. 0 <= x /\ x < Half => x = r
  BY <1>1, <1>4 DEF FitsSlice
<1>11. ASSUME NEW op \in {"VMULU", "VMACU"}
       PROVE  ResultOf(op, high, mid, low) = Unsigned(x)
  BY <1>1, <1>2, <1>3, <1>4, <1>6, <1>10 DEF ResultOf, Unsigned
<1>. QED BY <1>5, <1>9, <1>11


(***************************************************************************)
(* Absolute values and clipping.                                           *)
(***************************************************************************)
\* RSPVABS: each lane by itself, no flags.
LEMMA TakeAbsolute ==
  ASSUME NEW c \in Unit, NEW vd \in VReg, NEW vs \in Vector, NEW vt \in Vector,
         NEW d, d = RSPVABS(c, vd, vs, vt)
  PROVE  /\ d \in Unit
         /\ d.regs = [c.regs EXCEPT ![vd] =
              [i \in Lane |-> Absolute(Signed(vs[i]), Signed(vt[i]))]]
<1>. DEFINE result == [i \in Lane |-> Absolute(Signed(vs[i]), Signed(vt[i]))]
<1>1. ASSUME NEW x \in Int, NEW y \in Int PROVE Absolute(x, y) \in Slice
  <2>1. (IF y = -Half THEN Half - 1 ELSE -y) \in Int /\ 0 \in Slice
    BY HalfPositive, SliceTypes DEF Slice
  <2>. QED BY <2>1, SliceTypes DEF Absolute
<1>2. \A i \in Lane : Signed(vs[i]) \in Int /\ Signed(vt[i]) \in Int
  BY VectorTypes, HalfPositive
<1>3. result \in Vector
  BY <1>1, <1>2 DEF Vector
<1>4. d = Writes(c, vd, result)
  BY DEF RSPVABS
<1>. HIDE DEF result
<1>5. d \in Unit /\ d.regs = [c.regs EXCEPT ![vd] = result]
  BY <1>3, <1>4 DEF Writes, Unit
<1>. QED BY <1>5 DEF result

\* The three values clipping chooses from are slices.
LEMMA ClippedTypes ==
  ASSUME NEW vs \in Vector, NEW vt \in Vector, NEW sn, NEW le, NEW ge
  PROVE  Clipped(vs, vt, sn, le, ge) \in Vector
<1>1. \A i \in Lane : vs[i] \in Slice /\ vt[i] \in Slice /\ Wrap(-vt[i]) \in Slice
  BY VectorTypes, SliceTypes
<1>2. \A i \in Lane : (CASE i \in sn \cap le -> Wrap(-vt[i])
                         [] i \in ge \ sn -> vt[i]
                         [] OTHER -> vs[i]) \in Slice
  BY <1>1
<1>. QED BY <1>2 DEF Clipped, Vector

\* What RSPVCH finds out of the high halves s and t of lane i.
ClipsHigh(d, s, t, i) ==
  LET differ == (s < 0) # (t < 0) IN
  /\ i \in d.vcolo <=> differ
  /\ i \in d.vcohi <=> IF differ THEN s + t \notin {0, -1} ELSE s # t
  /\ i \in d.vccLe <=> IF differ THEN s + t <= 0 ELSE t < 0
  /\ i \in d.vccGe <=> IF differ THEN t < 0 ELSE s >= t
  /\ i \in d.vce <=> differ /\ s + t = -1

\* RSPVCH: its five flags.
LEMMA ClipHigh ==
  ASSUME NEW c \in Unit, NEW vd \in VReg, NEW vs \in Vector, NEW vt \in Vector,
         NEW d, d = RSPVCH(c, vd, vs, vt)
  PROVE  /\ d \in Unit
         /\ \A v \in VReg : v # vd => d.regs[v] = c.regs[v]
         /\ \A i \in Lane : ClipsHigh(d, Signed(vs[i]), Signed(vt[i]), i)
<1>. DEFINE sn == SignsDiffer(vs, vt)
            sum(i) == Signed(vs[i]) + Signed(vt[i])
            ge == {i \in Lane : IF i \in sn THEN Signed(vt[i]) < 0
                                ELSE Signed(vs[i]) >= Signed(vt[i])}
            le == {i \in Lane : IF i \in sn THEN sum(i) <= 0 ELSE Signed(vt[i]) < 0}
            ne == {i \in Lane :
                     IF i \in sn THEN sum(i) \notin {0, -1} ELSE vs[i] # vt[i]}
            ce == {i \in sn : sum(i) = -1}
            result == Clipped(vs, vt, sn, le, ge)
<1>1. /\ sn \in SUBSET Lane /\ ge \in SUBSET Lane /\ le \in SUBSET Lane
      /\ ne \in SUBSET Lane /\ ce \in SUBSET Lane /\ result \in Vector
  BY ClippedTypes DEF SignsDiffer
<1>2. d = [Writes(c, vd, result) EXCEPT !.vccLe = le, !.vccGe = ge, !.vcolo = sn,
                                        !.vcohi = ne, !.vce = ce]
  BY DEF RSPVCH
<1>3. ASSUME NEW i \in Lane
      PROVE  /\ i \in sn <=> (Signed(vs[i]) < 0) # (Signed(vt[i]) < 0)
             /\ i \in ge <=> IF i \in sn THEN Signed(vt[i]) < 0
                             ELSE Signed(vs[i]) >= Signed(vt[i])
             /\ i \in le <=> IF i \in sn THEN sum(i) <= 0 ELSE Signed(vt[i]) < 0
             /\ i \in ne <=> IF i \in sn THEN sum(i) \notin {0, -1} ELSE vs[i] # vt[i]
             /\ i \in ce <=> i \in sn /\ sum(i) = -1
  BY DEF SignsDiffer
<1>. HIDE DEF sn, ge, le, ne, ce, result
<1>4. Writes(c, vd, result) \in Unit
      /\ Writes(c, vd, result).regs = [c.regs EXCEPT ![vd] = result]
  BY <1>1 DEF Writes, Unit
<1>5. /\ d \in Unit /\ d.regs = [c.regs EXCEPT ![vd] = result]
      /\ d.vccLe = le /\ d.vccGe = ge /\ d.vcolo = sn /\ d.vcohi = ne /\ d.vce = ce
  BY <1>1, <1>2, <1>4 DEF Unit
<1>6. \A i \in Lane : vs[i] # vt[i] <=> Signed(vs[i]) # Signed(vt[i])
  <2>. SUFFICES ASSUME NEW i \in Lane
                PROVE  vs[i] # vt[i] <=> Signed(vs[i]) # Signed(vt[i])
    OBVIOUS
  <2>1. vs[i] \in 0 .. Base - 1 /\ vt[i] \in 0 .. Base - 1
    BY VectorTypes, SliceTypes
  <2>. QED BY <2>1, SliceTypes, HalfPositive DEF Signed
<1>7. \A i \in Lane : ClipsHigh(d, Signed(vs[i]), Signed(vt[i]), i)
  BY <1>3, <1>5, <1>6 DEF ClipsHigh
<1>8. \A v \in VReg : v # vd => d.regs[v] = c.regs[v]
  BY <1>5 DEF Unit
<1>. QED BY <1>5, <1>7, <1>8


\* What RSPVCL makes of the low halves x and y of lane i, and the r it writes.
ClipsLow(c, d, x, y, r, i) ==
  LET differ == i \in c.vcolo
      undecided == i \notin c.vcohi
      below == IF i \in c.vce THEN x + y <= Base ELSE x + y = 0 IN
  /\ i \in d.vccLe <=> IF differ /\ undecided THEN below ELSE i \in c.vccLe
  /\ i \in d.vccGe <=> IF ~differ /\ undecided THEN x >= y ELSE i \in c.vccGe
  /\ r = IF differ THEN (IF i \in d.vccLe THEN Wrap(-y) ELSE x)
         ELSE (IF i \in d.vccGe THEN y ELSE x)

\* RSPVCL: what VCH found decides where the high halves do not.
LEMMA ClipLow ==
  ASSUME NEW c \in Unit, NEW vd \in VReg, NEW vs \in Vector, NEW vt \in Vector,
         NEW d, d = RSPVCL(c, vd, vs, vt)
  PROVE  /\ d \in Unit
         /\ \A v \in VReg : v # vd => d.regs[v] = c.regs[v]
         /\ \A i \in Lane : ClipsLow(c, d, vs[i], vt[i], d.regs[vd][i], i)
<1>. DEFINE sn == c.vcolo
            eq == Lane \ c.vcohi
            sum(i) == vs[i] + vt[i]
            below(i) == IF i \in c.vce THEN sum(i) % Base = 0 \/ sum(i) < Base
                        ELSE sum(i) = 0
            le == {i \in Lane : IF i \in sn \cap eq THEN below(i) ELSE i \in c.vccLe}
            ge == {i \in Lane :
                     IF i \in eq \ sn THEN vs[i] >= vt[i] ELSE i \in c.vccGe}
            result == Clipped(vs, vt, sn, le, ge)
<1>1. le \in SUBSET Lane /\ ge \in SUBSET Lane /\ result \in Vector
  BY ClippedTypes
<1>2. d = [Writes(ClearsVCO(c), vd, result)
             EXCEPT !.vccLe = le, !.vccGe = ge, !.vce = {}]
  BY DEF RSPVCL
<1>3. ASSUME NEW i \in Lane
      PROVE  below(i) <=> IF i \in c.vce THEN vs[i] + vt[i] <= Base
                          ELSE vs[i] + vt[i] = 0
  <2>1. vs[i] \in 0 .. Base - 1 /\ vt[i] \in 0 .. Base - 1 /\ Base \in Nat /\ Base > 1
    BY VectorTypes, SliceTypes
  <2>. DEFINE x == sum(i)  n == Base
  <2>2. x \in 0 .. 2 * n - 2 /\ n \in Nat /\ n > 1
    BY <2>1
  <2>. HIDE DEF x, n
  <2>3. CASE x < n
    BY <2>2, <2>3 DEF x, n
  <2>4. CASE x >= n
    <3>1. x = 1 * n + (x - n) /\ x - n \in 0 .. n - 1
      BY <2>2, <2>4
    <3>2. x % n = x - n
      BY <2>2, <3>1, DivMod
    <3>. QED BY <2>2, <2>4, <3>2 DEF x, n
  <2>. QED BY <2>2, <2>3, <2>4
<1>4. ASSUME NEW i \in Lane
      PROVE  /\ i \in le <=> IF i \in sn /\ i \notin c.vcohi
                             THEN IF i \in c.vce THEN vs[i] + vt[i] <= Base
                                  ELSE vs[i] + vt[i] = 0
                             ELSE i \in c.vccLe
             /\ i \in ge <=> IF i \notin sn /\ i \notin c.vcohi THEN vs[i] >= vt[i]
                             ELSE i \in c.vccGe
  <2>. HIDE DEF below
  <2>. QED BY <1>3
<1>. HIDE DEF le, ge
<1>5. \A i \in Lane :
        result[i] = IF i \in sn THEN (IF i \in le THEN Wrap(-vt[i]) ELSE vs[i])
                    ELSE (IF i \in ge THEN vt[i] ELSE vs[i])
  BY DEF Clipped
<1>. HIDE DEF result
<1>6. Writes(ClearsVCO(c), vd, result) \in Unit
      /\ Writes(ClearsVCO(c), vd, result).regs = [c.regs EXCEPT ![vd] = result]
  BY <1>1 DEF Writes, ClearsVCO, Unit
<1>7. /\ d \in Unit /\ d.regs = [c.regs EXCEPT ![vd] = result]
      /\ d.vccLe = le /\ d.vccGe = ge
  BY <1>1, <1>2, <1>6 DEF Unit
<1>8. d.regs[vd] = result /\ \A v \in VReg : v # vd => d.regs[v] = c.regs[v]
  BY <1>7 DEF Unit
<1>9. ASSUME NEW i \in Lane PROVE ClipsLow(c, d, vs[i], vt[i], d.regs[vd][i], i)
  BY <1>4, <1>5, <1>7, <1>8 DEF ClipsLow
<1>. QED BY <1>7, <1>8, <1>9

\* r is the low digit of x, and -r stands for that of -x.
LowDigit(x, n, r) == x % n = r /\ (-x) % n = (-r) % n

\* The low digit of a number of two, and of its opposite.
LEMMA LowDigits ==
  ASSUME NEW n \in Nat, n > 0, NEW q \in Int, NEW r \in 0 .. n - 1
  PROVE  LowDigit(q * n + r, n, r)
<1>. DEFINE x == q * n + r
<1>1. x % n = r
  BY DivMod
<1>2. ASSUME r = 0 PROVE x % n = r /\ (-x) % n = (-r) % n
  <2>1. (-q) * n = -(q * n) /\ (-q) \in Int /\ 0 \in 0 .. n - 1 /\ q * n \in Int
    OBVIOUS
  <2>2. ((-q) * n + 0) % n = 0 /\ (0 * n + 0) % n = 0
    BY <2>1, DivMod
  <2>3. -x = (-q) * n + 0 /\ -r = 0 * n + 0
    BY <1>2, <2>1
  <2>. QED BY <1>1, <2>2, <2>3
<1>3. ASSUME r > 0 PROVE x % n = r /\ (-x) % n = (-r) % n
  <2>1. (-q - 1) * n = -(q * n) - n /\ (-q - 1) \in Int /\ n - r \in 0 .. n - 1
        /\ q * n \in Int
    BY <1>3
  <2>2. PICK p, g : p = n - r /\ g = -q - 1
    OBVIOUS
  <2>3. p \in 0 .. n - 1 /\ g \in Int
    BY <2>1, <2>2
  <2>4. (g * n + p) % n = p /\ ((-1) * n + p) % n = p
    BY <2>3, DivMod
  <2>5. -x = g * n + p /\ -r = (-1) * n + p
    BY <2>1, <2>2
  <2>. QED BY <1>1, <2>4, <2>5
<1>. QED BY <1>2, <1>3 DEF LowDigit

\* RSPVCH of the high halves and RSPVCL of the low ones clip a by b, whatever
\* came between: the flags c that VCL begins with are those VCH left in h.
LEMMA ClipsPair ==
  ASSUME NEW h, NEW c, NEW d, NEW i, NEW r,
         NEW s \in Int, NEW t \in Int, NEW x \in Slice, NEW y \in Slice,
         NEW a, a = s * Base + x, NEW b, b = t * Base + y, b >= 0,
         ClipsHigh(h, s, t, i), ClipsLow(c, d, x, y, r, i),
         i \in c.vcolo <=> i \in h.vcolo, i \in c.vcohi <=> i \in h.vcohi,
         i \in c.vccLe <=> i \in h.vccLe, i \in c.vccGe <=> i \in h.vccGe,
         i \in c.vce <=> i \in h.vce
  PROVE  /\ i \in d.vccLe <=> a < 0 /\ a <= -b
         /\ i \in d.vccGe <=> a >= b
         /\ r = (IF a <= -b THEN -b ELSE IF a >= b THEN b ELSE a) % Base
<1>. DEFINE n == Base
<1>1. n \in Nat /\ n > 1 /\ x \in 0 .. n - 1 /\ y \in 0 .. n - 1
  BY SliceTypes
<1>2. /\ a = s * n + x /\ b = t * n + y
      /\ a \in Int /\ b \in Int
  BY <1>1
<1>3. Wrap(-y) = (-y) % n
  BY DEF Wrap
<1>. HIDE DEF n
<1>4. a % n = x /\ b % n = y /\ (-b) % n = (-y) % n
  <2>0. n > 0
    BY <1>1
  <2>1. LowDigit(s * n + x, n, x) /\ LowDigit(t * n + y, n, y)
    BY <1>1, <2>0, LowDigits
  <2>. QED BY <1>2, <2>1 DEF LowDigit
<1>5. t >= 0
  <2>1. CASE t < 0
    <3>1. t * n <= (-1) * n
      BY <1>1, <2>1
    <3>. QED BY <1>1, <1>2, <3>1
  <2>. QED BY <2>1
<1>6. a < 0 <=> s < 0
  <2>1. CASE s < 0
    <3>1. s * n <= (-1) * n
      BY <1>1, <2>1
    <3>. QED BY <1>1, <1>2, <2>1, <3>1
  <2>2. CASE s >= 0
    <3>1. s * n >= 0
      BY <1>1, <2>2
    <3>. QED BY <1>1, <1>2, <2>2, <3>1
  <2>. QED BY <2>1, <2>2
<1>. DEFINE k == s + t
            v == x + y
<1>7. /\ i \in c.vcolo <=> s < 0
      /\ i \in c.vcohi <=> IF s < 0 THEN k # 0 /\ k # -1 ELSE s # t
      /\ i \in c.vccLe <=> s < 0 /\ k <= 0
      /\ i \in c.vccGe <=> ~(s < 0) /\ s >= t
      /\ i \in c.vce <=> s < 0 /\ k = -1
  BY <1>5 DEF ClipsHigh
<1>8. /\ i \in d.vccLe <=> IF i \in c.vcolo /\ i \notin c.vcohi
                           THEN (IF i \in c.vce THEN v <= n ELSE v = 0)
                           ELSE i \in c.vccLe
      /\ i \in d.vccGe <=> IF i \notin c.vcolo /\ i \notin c.vcohi THEN x >= y
                           ELSE i \in c.vccGe
      /\ r = IF i \in c.vcolo THEN (IF i \in d.vccLe THEN (-y) % n ELSE x)
             ELSE (IF i \in d.vccGe THEN y ELSE x)
  BY <1>3 DEF ClipsLow, n
<1>9. a + b = k * n + v /\ k \in Int /\ v \in Int /\ 0 <= v /\ v <= 2 * n - 2
      /\ k * n \in Int
  <2>1. k * n = s * n + t * n
    BY <1>1
  <2>. QED BY <1>1, <1>2, <2>1
<1>10. /\ k = 0 => (a <= -b <=> v = 0)
       /\ k = -1 => (a <= -b <=> v <= n)
       /\ k < -1 => a <= -b
       /\ k > 0 => ~(a <= -b)
  <2>. HIDE DEF k, v
  <2>1. a <= -b <=> k * n + v <= 0
    BY <1>2, <1>9
  <2>2. CASE k = 0
    <3>1. k * n = 0
      BY <1>1, <2>2
    <3>2. a <= -b <=> v = 0
      BY <1>9, <2>1, <3>1
    <3>. QED BY <2>2, <3>2
  <2>3. CASE k = -1
    BY <1>1, <1>9, <2>1, <2>3
  <2>4. CASE k < -1
    <3>1. k * n <= (-2) * n
      BY <1>1, <1>9, <2>4
    <3>. QED BY <1>1, <1>9, <2>1, <2>4, <3>1
  <2>5. CASE k > 0
    <3>1. k * n >= 1 * n
      BY <1>1, <1>9, <2>5
    <3>. QED BY <1>1, <1>9, <2>1, <2>5, <3>1
  <2>. QED BY <1>9, <2>2, <2>3, <2>4, <2>5
<1>11. a >= b <=> s > t \/ (s = t /\ x >= y)
  <2>1. a < b <=> s < t \/ (s = t /\ x < y)
    BY <1>1, <1>2, PairsOrder
  <2>. QED BY <1>1, <1>2, <2>1
<1>12. CASE s < 0
  <2>1. i \in d.vccLe <=> a <= -b
    <3>. HIDE DEF k, v
    <3>. QED BY <1>7, <1>8, <1>9, <1>10, <1>12
  <2>2. ~(a >= b) /\ i \notin d.vccGe /\ i \in c.vcolo
    BY <1>5, <1>7, <1>8, <1>11, <1>12
  <2>. QED BY <1>4, <1>6, <1>8, <1>12, <2>1, <2>2 DEF n
<1>13. CASE ~(s < 0)
  <2>1. (i \in d.vccGe <=> a >= b) /\ i \notin d.vccLe /\ i \notin c.vcolo
    BY <1>5, <1>7, <1>8, <1>11, <1>13
  <2>2. ASSUME a <= -b PROVE a = 0 /\ b = 0
    BY <1>2, <1>6, <1>13, <2>2
  <2>3. ASSUME b = 0 PROVE -b = b
    BY <2>3
  <2>. QED BY <1>4, <1>6, <1>8, <1>13, <2>1, <2>2, <2>3 DEF n
<1>. QED BY <1>12, <1>13

\* RSPVCR: the value it writes.
LEMMA ClipComplement ==
  ASSUME NEW c \in Unit, NEW vd \in VReg, NEW vs \in Vector, NEW vt \in Vector,
         NEW d, d = RSPVCR(c, vd, vs, vt)
  PROVE  \A i \in SignsDiffer(vs, vt) :
           d.regs[vd][i] = IF Signed(vs[i]) + Signed(vt[i]) < 0 THEN Not(vt[i])
                           ELSE vs[i]
<1>. DEFINE sn == SignsDiffer(vs, vt)
            ge == {i \in Lane : IF i \in sn THEN Signed(vt[i]) < 0
                                ELSE Signed(vs[i]) >= Signed(vt[i])}
            le == {i \in Lane : IF i \in sn THEN Signed(vs[i]) + Signed(vt[i]) < 0
                                ELSE Signed(vt[i]) < 0}
            result == [i \in Lane |-> CASE i \notin le -> vs[i]
                                        [] i \in le \cap sn -> Not(vt[i])
                                        [] i \in le \ sn -> vt[i]]
<1>1. d = [Writes(ClearsVCO(c), vd, result)
             EXCEPT !.vccLe = le, !.vccGe = ge, !.vce = {}]
  BY DEF RSPVCR
<1>2. sn \subseteq Lane
  BY DEF SignsDiffer
<1>3. \A i \in sn : i \in le <=> Signed(vs[i]) + Signed(vt[i]) < 0
  BY <1>2
<1>. HIDE DEF sn, le, ge
<1>4. \A i \in sn : result[i] = IF i \in le THEN Not(vt[i]) ELSE vs[i]
  BY <1>2
<1>. HIDE DEF result
<1>5. Writes(ClearsVCO(c), vd, result).regs = [c.regs EXCEPT ![vd] = result]
  BY DEF Writes, ClearsVCO, Unit
<1>6. d.regs = [c.regs EXCEPT ![vd] = result]
  BY <1>1, <1>5 DEF Writes, ClearsVCO, Unit
<1>7. d.regs[vd] = result
  BY <1>6 DEF Unit
<1>. QED BY <1>3, <1>4, <1>7 DEF sn

(***************************************************************************)
(* Products of numbers of two slices.                                      *)
(***************************************************************************)
\* Bounds of a product of a signed and an unsigned factor.
LEMMA MixedBounds ==
  ASSUME NEW h \in Nat, NEW s \in Int, -h <= s, s + 1 <= h, NEW n \in Nat,
         NEW b \in Int, 0 <= b, b + 1 <= n
  PROVE  /\ s * b \in Int /\ -(h * (n - 1)) <= s * b
         /\ s * b <= (h - 1) * (n - 1)
<1>1. (-h) * b <= s * b
  OBVIOUS
<1>2. h * b <= h * (n - 1)
  OBVIOUS
<1>3. (-h) * b = -(h * b) /\ h * b \in Int /\ s * b \in Int /\ h * (n - 1) \in Int
      /\ (h - 1) * b \in Int /\ (h - 1) * (n - 1) \in Int
  OBVIOUS
<1>4. s * b <= (h - 1) * b
  OBVIOUS
<1>5. h - 1 >= 0
  OBVIOUS
<1>6. (h - 1) * b <= (h - 1) * (n - 1)
  BY <1>5
<1>. QED BY <1>1, <1>2, <1>3, <1>4, <1>6

\* Bounds of a product of two signed factors.
LEMMA SignedBounds ==
  ASSUME NEW h \in Nat, NEW s \in Int, -h <= s, s + 1 <= h,
         NEW t \in Int, -h <= t, t + 1 <= h
  PROVE  s * t \in Int /\ -(h * (h - 1)) <= s * t /\ s * t <= h * h
<1>1. h - 1 >= 0 /\ h * h \in Int /\ h * (h - 1) \in Int /\ s * t \in Int
      /\ h * t \in Int /\ h * (-t) \in Int
  OBVIOUS
<1>2. CASE t >= 0
  <2>1. (-h) * t <= s * t /\ s * t <= (h - 1) * t
    BY <1>2
  <2>2. (-h) * t = -(h * t) /\ h * t <= h * (h - 1)
    BY <1>1, <1>2
  <2>3. (h - 1) * t <= h * t /\ h * (h - 1) <= h * h
    BY <1>1, <1>2
  <2>. QED BY <1>1, <2>1, <2>2, <2>3
<1>3. CASE t < 0
  <2>1. (h - 1) * t <= s * t /\ s * t <= (-h) * t
    BY <1>3
  <2>2. (-h) * t = h * (-t) /\ h * (-t) <= h * h
    BY <1>1, <1>3
  <2>3. (h - 1) * t >= (h - 1) * (-h)
    BY <1>1, <1>3
  <2>4. (h - 1) * (-h) = -(h * (h - 1))
    OBVIOUS
  <2>. QED BY <1>1, <2>1, <2>2, <2>3, <2>4
<1>. QED BY <1>2, <1>3

\* A quotient lies between the quotients of bounds.
LEMMA QuotientBounds ==
  ASSUME NEW n \in Nat, n > 0, NEW x \in Int, NEW lo \in Int, NEW hi \in Int,
         lo * n <= x, x < hi * n
  PROVE  x \div n \in Int /\ lo <= x \div n /\ x \div n < hi
<1>. DEFINE q == x \div n
            r == x % n
<1>1. q \in Int /\ r \in 0 .. n - 1 /\ x = q * n + r
  OBVIOUS
<1>. HIDE DEF q, r
<1>2. ASSUME q >= hi PROVE FALSE
  <2>1. q * n >= hi * n
    BY <1>1, <1>2
  <2>. QED BY <1>1, <2>1
<1>3. ASSUME q + 1 <= lo PROVE FALSE
  <2>1. (q + 1) * n <= lo * n
    BY <1>1, <1>3
  <2>2. (q + 1) * n = q * n + n
    BY <1>1
  <2>. QED BY <1>1, <2>1, <2>2
<1>. QED BY <1>1, <1>2, <1>3 DEF q

\* What the accumulator can hold.
Capacity == Half * Base * Base

\* Its upper part is then in range.
LEMMA Capable ==
  ASSUME NEW x \in Int, -Capacity <= x, x < Capacity
  PROVE  x \div Base \in UpperRange
<1>. DEFINE n == Base
            m == Half * n
<1>1. n \in Nat /\ n > 0 /\ m \in Int /\ -m \in Int
  BY SliceTypes, HalfPositive
<1>2. Capacity = m * n /\ (-m) * n = -(m * n)
  BY <1>1 DEF Capacity
<1>3. UpperRange = -m .. m - 1
  BY DEF UpperRange
<1>. HIDE DEF n, m
<1>4. (-m) * n <= x /\ x < m * n
  BY <1>1, <1>2
<1>5. x \div n \in Int /\ -m <= x \div n /\ x \div n < m
  BY <1>1, <1>4, QuotientBounds
<1>. QED BY <1>1, <1>3, <1>5 DEF n

\* The high half of a product of two slices is one.
LEMMA HighProduct ==
  ASSUME NEW a \in Slice, NEW b \in Slice, NEW p, p = (a * b) \div Base
  PROVE  p \in Int /\ 0 <= p /\ p < Base /\ a * b \in Int
<1>. DEFINE n == Base
            ab == a * b
<1>1. /\ n \in Nat /\ n > 0
      /\ a \in Int /\ 0 <= a /\ a + 1 <= n /\ b \in Int /\ 0 <= b /\ b + 1 <= n
  BY SliceTypes DEF Slice
<1>. HIDE DEF n
<1>2. 0 <= ab /\ ab <= (n - 1) * b /\ ab \in Int
  BY <1>1
<1>3. (n - 1) * b <= (n - 1) * n
  BY <1>1
<1>4. (n - 1) * n = n * n - n /\ n * n \in Int /\ (n - 1) * b \in Int
  BY <1>1
<1>. HIDE DEF ab
<1>5. 0 * n <= ab /\ ab < n * n
  BY <1>1, <1>2, <1>3, <1>4
<1>6. ab \div n \in Int /\ 0 <= ab \div n /\ ab \div n < n
  BY <1>1, <1>2, <1>5, QuotientBounds
<1>. QED BY <1>2, <1>6 DEF ab, n

\* A product of two numbers of two slices is the sum of four products of
\* slices, and the accumulator can hold the sum of any of them.
LEMMA PartialProducts ==
  ASSUME NEW s \in Int, -Half <= s, s < Half, NEW t \in Int, -Half <= t, t < Half,
         NEW a \in Slice, NEW b \in Slice,
         NEW p1, p1 = s * t * Base, NEW p2, p2 = a * t, NEW p3, p3 = s * b,
         NEW p4, p4 = (a * b) \div Base
  PROVE  /\ p1 \in Int /\ p2 \in Int /\ p3 \in Int /\ p4 \in Int
         /\ ((s * Base + a) * (t * Base + b)) \div Base = p1 + p2 + p3 + p4
         /\ \A w1 \in {0, p1}, w2 \in {0, p2}, w3 \in {0, p3}, w4 \in {0, p4} :
              -Capacity <= w1 + w2 + w3 + w4 /\ w1 + w2 + w3 + w4 < Capacity
<1>. DEFINE h == Half
            n == Base
<1>1. /\ h \in Nat /\ h >= 1 /\ n = 2 * h /\ n \in Nat
      /\ a \in Int /\ 0 <= a /\ a + 1 <= n /\ b \in Int /\ 0 <= b /\ b + 1 <= n
      /\ -h <= s /\ s + 1 <= h /\ -h <= t /\ t + 1 <= h
  BY SliceTypes, HalfPositive DEF Slice
<1>2. Capacity = h * n * n /\ p1 = s * t * n /\ p4 = (a * b) \div n
  BY DEF Capacity
<1>. HIDE DEF h, n
<1>. DEFINE hn == h * n
            hhn == h * h * n
            st == s * t
<1>3. hn \in Int /\ hhn \in Int /\ st \in Int /\ h * h \in Int /\ h * (h - 1) \in Int
  BY <1>1
<1>4. p3 \in Int /\ -(hn - h) <= p3 /\ p3 <= hn - h - n + 1
  <2>1. p3 \in Int /\ -(h * (n - 1)) <= p3 /\ p3 <= (h - 1) * (n - 1)
    BY <1>1, MixedBounds
  <2>2. h * (n - 1) = hn - h /\ (h - 1) * (n - 1) = hn - h - n + 1
    BY <1>1
  <2>. QED BY <2>1, <2>2
<1>5. p2 \in Int /\ -(hn - h) <= p2 /\ p2 <= hn - h - n + 1
  <2>1. t * a \in Int /\ -(h * (n - 1)) <= t * a /\ t * a <= (h - 1) * (n - 1)
    BY <1>1, MixedBounds
  <2>2. h * (n - 1) = hn - h /\ (h - 1) * (n - 1) = hn - h - n + 1 /\ p2 = t * a
    BY <1>1
  <2>. QED BY <2>1, <2>2
<1>6. p1 \in Int /\ -(hhn - hn) <= p1 /\ p1 <= hhn
  <2>1. -(h * (h - 1)) <= st /\ st <= h * h
    BY <1>1, SignedBounds
  <2>2. (-(h * (h - 1))) * n <= st * n /\ st * n <= (h * h) * n
    BY <1>1, <1>3, <2>1
  <2>3. (-(h * (h - 1))) * n = -(hhn - hn) /\ (h * h) * n = hhn /\ p1 = st * n
        /\ st * n \in Int
    BY <1>1, <1>2, <1>3
  <2>. QED BY <2>2, <2>3
<1>7. p4 \in Int /\ 0 <= p4 /\ p4 <= n - 1 /\ a * b \in Int
  <2>1. p4 \in Int /\ 0 <= p4 /\ p4 < n /\ a * b \in Int
    BY HighProduct DEF n
  <2>. QED BY <1>1, <2>1
<1>8. ((s * n + a) * (t * n + b)) \div n = p1 + p2 + p3 + p4
  <2>. DEFINE q == p1 + p2 + p3 + p4
              r == (a * b) % n
  <2>1. (s * n + a) * (t * n + b) = (s * t * n + a * t + s * b) * n + a * b
    BY <1>1
  <2>2. a * b = p4 * n + r /\ r \in 0 .. n - 1 /\ q \in Int
    <3>1. n > 0 /\ p1 + p2 + p3 + p4 \in Int
      BY <1>1, <1>4, <1>5, <1>6, <1>7
    <3>2. \A y \in Int : y = (y \div n) * n + (y % n) /\ y % n \in 0 .. n - 1
      BY <1>1, <3>1
    <3>. QED BY <1>2, <1>7, <3>1, <3>2
  <2>. HIDE DEF r
  <2>3. (p1 + p2 + p3) * n + p4 * n = q * n
    BY <1>1, <1>4, <1>5, <1>6, <1>7
  <2>4. (p1 + p2 + p3) * n \in Int /\ p4 * n \in Int
    BY <1>1, <1>4, <1>5, <1>6, <1>7
  <2>. HIDE DEF q
  <2>5. (s * n + a) * (t * n + b) = q * n + r
    BY <1>2, <2>1, <2>2, <2>3, <2>4
  <2>6. (q * n + r) \div n = q
    <3>1. n \in Nat /\ n > 0 /\ q \in Int /\ r \in 0 .. n - 1
      BY <1>1, <2>2 DEF q
    <3>. QED BY <3>1, DivMod
  <2>. QED BY <2>5, <2>6 DEF q
<1>9. Capacity = 2 * hhn
  BY <1>1, <1>2
<1>10. hhn - 2 * hn + n >= 0
  <2>1. (h - 1) * (h - 1) >= 0 /\ (h - 1) * (h - 1) \in Int
    BY <1>1
  <2>2. ((h - 1) * (h - 1)) * n >= 0
    BY <1>1, <2>1
  <2>3. ((h - 1) * (h - 1)) * n = hhn - 2 * hn + n
    BY <1>1
  <2>. QED BY <2>2, <2>3
<1>11. hn >= n /\ hhn >= hn
  <2>1. (h - 1) * n >= 0 /\ (h - 1) * n = hn - n
    BY <1>1
  <2>2. (h - 1) * hn >= 0 /\ (h - 1) * hn = hhn - hn
    BY <1>1, <2>1
  <2>. QED BY <1>1, <1>3, <2>1, <2>2
<1>. HIDE DEF hn, hhn
<1>12. ASSUME NEW w1 \in {0, p1}, NEW w2 \in {0, p2}, NEW w3 \in {0, p3},
              NEW w4 \in {0, p4}
       PROVE  -Capacity <= w1 + w2 + w3 + w4 /\ w1 + w2 + w3 + w4 < Capacity
  <2>1. w1 \in Int /\ -(hhn - hn) <= w1 /\ w1 <= hhn
    BY <1>1, <1>3, <1>6, <1>11
  <2>2. w2 \in Int /\ -(hn - h) <= w2 /\ w2 <= hn - h - n + 1
    <3>1. 0 <= hn - h - n + 1
      <4>1. (h - 1) * (n - 1) >= 0 /\ (h - 1) * (n - 1) = hn - h - n + 1
        BY <1>1 DEF hn
      <4>. QED BY <4>1
    <3>. QED BY <1>1, <1>3, <1>5, <1>11, <3>1
  <2>3. w3 \in Int /\ -(hn - h) <= w3 /\ w3 <= hn - h - n + 1
    <3>1. 0 <= hn - h - n + 1
      <4>1. (h - 1) * (n - 1) >= 0 /\ (h - 1) * (n - 1) = hn - h - n + 1
        BY <1>1 DEF hn
      <4>. QED BY <4>1
    <3>. QED BY <1>1, <1>3, <1>4, <1>11, <3>1
  <2>4. w4 \in Int /\ 0 <= w4 /\ w4 <= n - 1
    BY <1>1, <1>7
  <2>. QED BY <1>1, <1>3, <1>9, <1>10, <1>11, <2>1, <2>2, <2>3, <2>4
<1>. QED BY <1>4, <1>5, <1>6, <1>7, <1>8, <1>12 DEF n

\* A number of two slices times an unsigned fraction: two products, and their
\* sum has no more slices than the number.
LEMMA FractionProduct ==
  ASSUME NEW s \in Int, -Half <= s, s < Half, NEW a \in Slice, NEW b \in Slice,
         NEW p3, p3 = s * b, NEW p4, p4 = (a * b) \div Base
  PROVE  /\ p3 \in Int /\ p4 \in Int
         /\ ((s * Base + a) * b) \div Base = p3 + p4
         /\ -Capacity <= p4 /\ p4 < Capacity
         /\ -Capacity <= p3 + p4 /\ p3 + p4 < Capacity
         /\ (p3 + p4) \div Base \in Int
         /\ -Half <= (p3 + p4) \div Base /\ (p3 + p4) \div Base < Half
<1>. DEFINE h == Half
            n == Base
            hn == h * n
            q == p3 + p4
            ab == a * b
            r == ab % n
<1>1. /\ h \in Nat /\ h >= 1 /\ n = 2 * h /\ n \in Nat /\ n > 0
      /\ a \in Int /\ 0 <= a /\ a + 1 <= n /\ b \in Int /\ 0 <= b /\ b + 1 <= n
      /\ -h <= s /\ s + 1 <= h
  BY SliceTypes, HalfPositive DEF Slice
<1>2. p4 \in Int /\ 0 <= p4 /\ p4 < n /\ ab \in Int
  BY HighProduct
<1>3. ab = p4 * n + r /\ r \in 0 .. n - 1
  <2>1. \A y \in Int : y = (y \div Base) * Base + (y % Base) /\ y % Base \in 0 .. Base - 1
    BY Digits
  <2>. HIDE DEF ab
  <2>2. p4 = ab \div Base
    BY DEF ab
  <2>. QED BY <1>2, <2>1, <2>2
<1>4. Capacity = hn * n /\ hn \in Int
  BY <1>1 DEF Capacity
<1>. HIDE DEF h, n, r
<1>5. p3 \in Int /\ -(h * (n - 1)) <= p3 /\ p3 <= (h - 1) * (n - 1)
  BY <1>1, MixedBounds
<1>6. h * (n - 1) = hn - h /\ (h - 1) * (n - 1) = hn - h - n + 1 /\ (-h) * n = -hn
  BY <1>1
<1>7. hn * n >= hn
  <2>1. hn >= 0 /\ hn * (n - 1) >= 0
    BY <1>1
  <2>2. hn * (n - 1) = hn * n - hn
    BY <1>1
  <2>. QED BY <1>1, <2>1, <2>2
<1>8. hn >= n
  <2>1. (h - 1) * n >= 0 /\ (h - 1) * n = hn - n
    BY <1>1
  <2>. QED BY <1>1, <1>4, <2>1
<1>9. (s * n + a) * b = q * n + r
  <2>1. (s * n + a) * b = s * b * n + ab
    BY <1>1
  <2>2. s * b * n = p3 * n
    OBVIOUS
  <2>3. q * n = p3 * n + p4 * n /\ p3 * n \in Int /\ p4 * n \in Int /\ r \in Int
    BY <1>1, <1>2, <1>3, <1>5
  <2>4. (s * n + a) * b = p3 * n + ab
    BY <2>1, <2>2
  <2>. HIDE DEF q, ab
  <2>. QED BY <1>3, <2>3, <2>4
<1>. HIDE DEF hn
<1>10. q \in Int /\ (-h) * n <= q /\ q < h * n
  <2>1. h * n = hn
    BY DEF hn
  <2>. QED BY <1>1, <1>2, <1>4, <1>5, <1>6, <2>1
<1>11. -Capacity <= p4 /\ p4 < Capacity /\ -Capacity <= q /\ q < Capacity
  <2>1. h * n = hn /\ hn * n \in Int
    BY <1>1, <1>4 DEF hn
  <2>. QED BY <1>1, <1>2, <1>4, <1>6, <1>7, <1>8, <1>10, <2>1
<1>. HIDE DEF q
<1>12. (q * n + r) \div n = q
  BY <1>1, <1>3, <1>10, DivMod
<1>13. q \div n \in Int /\ -h <= q \div n /\ q \div n < h
  <2>1. -h \in Int /\ h \in Int
    BY <1>1
  <2>. QED BY <1>1, <1>10, <2>1, QuotientBounds
<1>. QED BY <1>2, <1>5, <1>9, <1>11, <1>12, <1>13 DEF q, n, h

\* A number of two slices times a signed slice: two products.
LEMMA IntegerProduct ==
  ASSUME NEW s \in Int, -Half <= s, s < Half, NEW t \in Int, -Half <= t, t < Half,
         NEW a \in Slice, NEW p1, p1 = s * t * Base, NEW p2, p2 = a * t
  PROVE  /\ p1 \in Int /\ p2 \in Int
         /\ (s * Base + a) * t = p1 + p2
         /\ -Capacity <= p2 /\ p2 < Capacity
         /\ -Capacity <= p1 + p2 /\ p1 + p2 < Capacity
<1>. DEFINE p3 == s * 0
            p4 == (a * 0) \div Base
<1>1. a \in Int /\ Base \in Int /\ 0 \in Slice
  BY SliceTypes DEF Slice
<1>2. /\ p1 \in Int /\ p2 \in Int
      /\ \A w1 \in {0, p1}, w2 \in {0, p2}, w3 \in {0, p3}, w4 \in {0, p4} :
              -Capacity <= w1 + w2 + w3 + w4 /\ w1 + w2 + w3 + w4 < Capacity
  BY <1>1, PartialProducts
<1>. HIDE DEF p3, p4
<1>3. -Capacity <= 0 + p2 + 0 + 0 /\ 0 + p2 + 0 + 0 < Capacity
      /\ -Capacity <= p1 + p2 + 0 + 0 /\ p1 + p2 + 0 + 0 < Capacity
  BY <1>2
<1>4. 0 + p2 + 0 + 0 = p2 /\ p1 + p2 + 0 + 0 = p1 + p2
  BY <1>2
<1>5. (s * Base + a) * t = s * t * Base + a * t
  BY <1>1
<1>. QED BY <1>2, <1>3, <1>4, <1>5

\* A number fits two slices where its upper part fits one.
LEMMA PairFits ==
  ASSUME NEW x \in Int
  PROVE  SignedPair(x) = x <=> FitsSlice(x \div Base)
<1>. DEFINE n == Base
            q == x \div n
            r == x % n
<1>1. n \in Nat /\ n > 0 /\ q \in Int /\ r \in 0 .. n - 1 /\ x = q * n + r
  <2>1. n \in Nat /\ n > 0
    BY SliceTypes
  <2>2. q \in Int /\ r \in 0 .. n - 1 /\ x = q * n + r
    BY Digits
  <2>. QED BY <2>1, <2>2
<1>2. SignedPair(x) = Signed(Wrap(q)) * n + r
  BY DEF SignedPair, Pair, Wrap
<1>3. Signed(Wrap(q)) \in Int /\ -Half <= Signed(Wrap(q)) /\ Signed(Wrap(q)) < Half
  BY <1>1, SliceTypes, HalfPositive
<1>4. FitsSlice(q) => Signed(Wrap(q)) = q
  BY <1>1, SignedSlice DEF FitsSlice
<1>. HIDE DEF n, q, r
<1>5. Signed(Wrap(q)) * n + r = q * n + r => Signed(Wrap(q)) = q
  BY <1>1, <1>3, PairsOrder
<1>. QED BY <1>1, <1>2, <1>3, <1>4, <1>5 DEF FitsSlice, q, n

\* Unless both factors are the smallest number, the doubled product of two
\* fractions keeps its value when it is cut to two slices.
LEMMA FractionFits ==
  ASSUME NEW s \in Int, -Half <= s, s < Half, NEW t \in Int, -Half <= t, t < Half,
         s # -Half \/ t # -Half, NEW p, p = 2 * s * t
  PROVE  /\ p \in Int /\ SignedPair(p) = p
         /\ -(Half * Base) < p /\ p < Half * Base
<1>. DEFINE h == Half
            n == Base
            st == s * t
            hh == h * h
<1>1. /\ h \in Nat /\ h >= 1 /\ n = 2 * h /\ n \in Nat /\ n > 0
      /\ -h <= s /\ s + 1 <= h /\ -h <= t /\ t + 1 <= h
      /\ (s # -h \/ t # -h)
  BY SliceTypes, HalfPositive
<1>. HIDE DEF h, n
<1>2. st \in Int /\ hh \in Int /\ -(h * (h - 1)) <= st
  BY <1>1, SignedBounds
<1>3. h * (h - 1) = hh - h /\ (h - 1) * h = hh - h
  BY <1>1
<1>4. st <= hh - h
  <2>1. CASE s = -h
    <3>1. h * (-t) <= h * (h - 1)
      BY <1>1, <2>1
    <3>2. st = h * (-t) /\ h * (-t) \in Int
      BY <1>1, <2>1
    <3>. HIDE DEF st, hh
    <3>. QED BY <1>2, <1>3, <3>1, <3>2
  <2>2. CASE s # -h /\ t >= 0
    <3>1. s * t <= (h - 1) * t
      BY <1>1, <2>2
    <3>2. h - 1 >= 0
      BY <1>1
    <3>3. (h - 1) * t <= (h - 1) * h
      BY <1>1, <2>2, <3>2
    <3>4. (h - 1) * t \in Int /\ s * t = st
      BY <1>1
    <3>. HIDE DEF st, hh
    <3>. QED BY <1>1, <1>2, <1>3, <3>1, <3>3, <3>4
  <2>3. CASE s # -h /\ t < 0
    <3>1. -(h - 1) <= s
      BY <1>1, <2>3
    <3>2. s * t <= (-(h - 1)) * t
      BY <1>1, <2>3, <3>1
    <3>3. (-(h - 1)) * t = (h - 1) * (-t) /\ (h - 1) * (-t) \in Int
      BY <1>1
    <3>4. (h - 1) * (-t) <= (h - 1) * h /\ s * t = st
      BY <1>1
    <3>. HIDE DEF st, hh
    <3>. QED BY <1>1, <1>2, <1>3, <3>2, <3>3, <3>4
  <2>. QED BY <2>1, <2>2, <2>3
<1>5. p = 2 * st /\ h * n = 2 * hh
  BY <1>1
<1>. HIDE DEF st, hh
<1>6. p \in Int /\ -(h * n) < p /\ p < h * n
  BY <1>1, <1>2, <1>3, <1>4, <1>5
<1>7. p \div n \in Int /\ -h <= p \div n /\ p \div n < h
  <2>1. (-h) * n = -(h * n) /\ h * n \in Int /\ -h \in Int
    BY <1>1
  <2>. QED BY <1>1, <1>6, <2>1, QuotientBounds
<1>8. SignedPair(p) = p
  BY <1>6, <1>7, PairFits DEF FitsSlice, h, n
<1>. QED BY <1>6, <1>8 DEF h, n

\* A number with its high half saturated and its low half clamped: itself where
\* it fits two slices, the smallest number where it is below.
LEMMA SaturatedDigits ==
  ASSUME NEW x \in Int, NEW high, high = Wrap(Sat(x \div Base)),
         NEW low, low = IF FitsSlice(x \div Base) THEN x % Base ELSE 0
  PROVE  /\ SignedPair(x) = x => Pair(high, low) = x /\ low = x % Base
         /\ SignedPair(x) # x /\ x < 0 => Pair(high, low) = -(Half * Base)
         /\ SignedPair(x) # x /\ x > 0 => high = Half - 1
<1>. DEFINE n == Base
            q == x \div n
            r == x % n
<1>1. q \in Int /\ r \in 0 .. n - 1 /\ x = q * n + r
  BY Digits
<1>2. n \in Nat /\ n > 0 /\ Half \in Nat /\ Half >= 1 /\ n = 2 * Half
  BY SliceTypes, HalfPositive
<1>3. SignedPair(x) = x <=> FitsSlice(q)
  BY PairFits
<1>4. high = Wrap(Sat(q)) /\ low = IF FitsSlice(q) THEN r ELSE 0
  OBVIOUS
<1>. HIDE DEF n, q, r
<1>5. ASSUME FitsSlice(q) PROVE Pair(high, low) = x
  <2>1. Sat(q) = q /\ Signed(Wrap(q)) = q
    BY <1>1, <1>2, <1>5, SignedSlice DEF FitsSlice, Sat
  <2>. QED BY <1>1, <1>4, <1>5, <2>1 DEF Pair, n
<1>6. ASSUME ~FitsSlice(q), x < 0 PROVE Pair(high, low) = -(Half * Base)
  <2>1. q < 0
    <3>1. q >= 0 => q * n >= 0
      BY <1>1, <1>2
    <3>2. q * n \in Int
      BY <1>1, <1>2
    <3>. QED BY <1>1, <1>2, <1>6, <3>1, <3>2
  <2>2. Sat(q) = -Half
    BY <1>1, <1>2, <1>6, <2>1 DEF FitsSlice, Sat
  <2>3. Signed(Wrap(-Half)) = -Half
    BY <1>2, SignedSlice
  <2>4. (-Half) * n + 0 = -(Half * n)
    BY <1>2
  <2>. QED BY <1>4, <1>6, <2>2, <2>3, <2>4 DEF Pair, n
<1>7. ASSUME ~FitsSlice(q), x > 0 PROVE high = Half - 1
  <2>1. q >= 0
    <3>1. q + 1 <= 0 => (q + 1) * n <= 0
      BY <1>1, <1>2
    <3>2. (q + 1) * n = q * n + n /\ q * n \in Int
      BY <1>1, <1>2
    <3>. QED BY <1>1, <1>2, <1>7, <3>1, <3>2
  <2>2. Sat(q) = Half - 1
    BY <1>1, <1>2, <1>7, <2>1 DEF FitsSlice, Sat
  <2>3. Half - 1 \in Slice
    BY <1>2 DEF Slice, n
  <2>. QED BY <1>4, <2>2, <2>3, SliceTypes
<1>. QED BY <1>3, <1>4, <1>5, <1>6, <1>7 DEF r, n

(***************************************************************************)
(* The instructions as they are assembled, decoded and executed.           *)
(***************************************************************************)

\* The instructions of two registers that the proved programs consist of.
ProvedOp ==
  {"VADDC", "VADD", "VSUBC", "VSUB", "VABS", "VMRG", "VCH", "VCL", "VCR"}
  \cup SelectOp \cup MultiplyOp \cup AccumulateOp

\* The decoder finds the instruction that was assembled.
LEMMA Assembled ==
  ASSUME NEW op \in ProvedOp \cup {"VSAR"}, NEW vd, NEW vs, NEW vt, NEW e \in 0 .. 15
  PROVE  /\ RSPDecodeVectorInstruction(V(op, vd, vs, vt, e)) = op
         /\ RSPDecodeInstruction(V(op, vd, vs, vt, e)) = "VECT"
<1>. DEFINE iw == V(op, vd, vs, vt, e)
<1>1. iw.funct = VectorFunction[op] /\ iw.op = 18 /\ iw.rs = 16 + e
  BY DEF V
<1>. HIDE DEF iw
<1>2. ASSUME op \in SelectOp \cup {"VCH", "VCL", "VCR", "VMRG"}
      PROVE  RSPDecodeVectorInstruction(iw) = op
  BY <1>1, <1>2 DEF SelectOp, VectorFunction, RSPDecodeVectorInstruction, Entry,
                    COP2VectorOpcodeTable, Row
<1>3. ASSUME op \in MultiplyOp
      PROVE  RSPDecodeVectorInstruction(iw) = op
  BY <1>1, <1>3 DEF MultiplyOp, VectorFunction, RSPDecodeVectorInstruction, Entry,
                    COP2VectorOpcodeTable, Row
<1>4. ASSUME op \in AccumulateOp
      PROVE  RSPDecodeVectorInstruction(iw) = op
  BY <1>1, <1>4 DEF AccumulateOp, VectorFunction, RSPDecodeVectorInstruction, Entry,
                    COP2VectorOpcodeTable, Row
<1>5. ASSUME op \in {"VADDC", "VADD", "VSUBC", "VSUB", "VABS", "VSAR"}
      PROVE  RSPDecodeVectorInstruction(iw) = op
  BY <1>1, <1>5 DEF VectorFunction, RSPDecodeVectorInstruction, Entry,
                    COP2VectorOpcodeTable, Row
<1>6. RSPDecodeVectorInstruction(iw) = op
  BY <1>2, <1>3, <1>4, <1>5 DEF ProvedOp
<1>7. RSPDecodeInstruction(iw) = "VECT"
  <2>1. CASE e < 8
    <3>1. iw.rs \div 8 = 2 /\ iw.rs % 8 = e
      BY <1>1, <2>1
    <3>2. RSPDecodeInstruction(iw) = [n \in 0 .. 7 |-> "VECT"][e]
      BY <1>1, <3>1 DEF RSPDecodeInstruction, Entry, COP2OpcodeTable
    <3>. QED BY <2>1, <3>2
  <2>2. CASE e >= 8
    <3>1. iw.rs \div 8 = 3 /\ iw.rs % 8 = e - 8
      BY <1>1, <2>2
    <3>2. RSPDecodeInstruction(iw) = [n \in 0 .. 7 |-> "VECT"][e - 8]
      BY <1>1, <3>1 DEF RSPDecodeInstruction, Entry, COP2OpcodeTable
    <3>. QED BY <2>2, <3>2
  <2>. QED BY <2>1, <2>2
<1>. QED BY <1>6, <1>7 DEF iw

\* One cycle runs that instruction's handler on the registers it names.
LEMMA Cycle ==
  ASSUME NEW c \in Unit, NEW vd \in VReg, NEW vs \in VReg, NEW vt \in VReg,
         NEW op \in ProvedOp,
         NEW d, d = RSPCycleCP2(c, V(op, vd, vs, vt, 0))
  PROVE  /\ op = "VADDC" => d = RSPVADDC(c, vd, c.regs[vs], c.regs[vt])
         /\ op = "VADD" => d = RSPVADD(c, vd, c.regs[vs], c.regs[vt])
         /\ op = "VSUBC" => d = RSPVSUBC(c, vd, c.regs[vs], c.regs[vt])
         /\ op = "VSUB" => d = RSPVSUB(c, vd, c.regs[vs], c.regs[vt])
         /\ op = "VABS" => d = RSPVABS(c, vd, c.regs[vs], c.regs[vt])
         /\ op = "VMRG" => d = RSPVMRG(c, vd, c.regs[vs], c.regs[vt])
         /\ op = "VCH" => d = RSPVCH(c, vd, c.regs[vs], c.regs[vt])
         /\ op = "VCL" => d = RSPVCL(c, vd, c.regs[vs], c.regs[vt])
         /\ op = "VCR" => d = RSPVCR(c, vd, c.regs[vs], c.regs[vt])
         /\ op \in SelectOp => d = Select(c, op, vd, c.regs[vs], c.regs[vt])
         /\ op \in MultiplyOp \cup AccumulateOp =>
              d = MultiplyOf(c, op, vd, c.regs[vs], c.regs[vt])
<1>. DEFINE iw == V(op, vd, vs, vt, 0)
<1>1. iw.sa = vd /\ iw.rd = vs /\ iw.rt = vt /\ iw.rs % 16 = 0
  BY DEF V
<1>2. RSPDecodeVectorInstruction(iw) = op
  BY Assembled
<1>3. RSPGetVectorOperands(c.regs[vt], 0) = c.regs[vt]
  BY WholeVector DEF Unit
<1>4. d = RSPCycleCP2(c, iw)
  OBVIOUS
<1>. HIDE DEF iw
<1>. USE <1>1, <1>2, <1>3, <1>4 DEF RSPCycleCP2, LogicOp, SelectOp, MultiplyOp,
             AccumulateOp
<1>5. op = "VADDC" => d = RSPVADDC(c, vd, c.regs[vs], c.regs[vt])
  OBVIOUS
<1>6. op = "VADD" => d = RSPVADD(c, vd, c.regs[vs], c.regs[vt])
  OBVIOUS
<1>7. op = "VSUBC" => d = RSPVSUBC(c, vd, c.regs[vs], c.regs[vt])
  OBVIOUS
<1>8. op = "VSUB" => d = RSPVSUB(c, vd, c.regs[vs], c.regs[vt])
  OBVIOUS
<1>9. op = "VABS" => d = RSPVABS(c, vd, c.regs[vs], c.regs[vt])
  OBVIOUS
<1>10. op = "VMRG" => d = RSPVMRG(c, vd, c.regs[vs], c.regs[vt])
  OBVIOUS
<1>11. op = "VCH" => d = RSPVCH(c, vd, c.regs[vs], c.regs[vt])
  OBVIOUS
<1>12. op = "VCL" => d = RSPVCL(c, vd, c.regs[vs], c.regs[vt])
  OBVIOUS
<1>13. op = "VCR" => d = RSPVCR(c, vd, c.regs[vs], c.regs[vt])
  OBVIOUS
<1>14. op \in SelectOp => d = Select(c, op, vd, c.regs[vs], c.regs[vt])
  OBVIOUS
<1>15. op \in MultiplyOp \cup AccumulateOp =>
         d = MultiplyOf(c, op, vd, c.regs[vs], c.regs[vt])
  OBVIOUS
<1>. QED BY <1>5, <1>6, <1>7, <1>8, <1>9, <1>10, <1>11, <1>12, <1>13, <1>14, <1>15

(***************************************************************************)
(* What each instruction does, lane by lane: d is the unit after a cycle   *)
(* that it began in c.                                                     *)
(***************************************************************************)
AddsLow(c, d, vd, vs, vt) ==
  /\ d \in Unit
  /\ \A v \in VReg : v # vd => d.regs[v] = c.regs[v]
  /\ \A i \in Lane :
       /\ d.regs[vd][i] = Wrap(c.regs[vs][i] + c.regs[vt][i])
       /\ (i \in d.vcolo <=> c.regs[vs][i] + c.regs[vt][i] >= Base)

SubtractsLow(c, d, vd, vs, vt) ==
  /\ d \in Unit
  /\ \A v \in VReg : v # vd => d.regs[v] = c.regs[v]
  /\ \A i \in Lane :
       /\ d.regs[vd][i] = Wrap(c.regs[vs][i] - c.regs[vt][i])
       /\ (i \in d.vcolo <=> c.regs[vs][i] < c.regs[vt][i])
       /\ (i \in d.vcohi <=> c.regs[vs][i] # c.regs[vt][i])

AddsHigh(c, d, vd, vs, vt) ==
  /\ d \in Unit
  /\ \A v \in VReg : v # vd => d.regs[v] = c.regs[v]
  /\ \A i \in Lane :
       /\ d.regs[vd][i] = Wrap(Sat(Signed(c.regs[vs][i]) + Signed(c.regs[vt][i])
                                    + Carry(c, i)))
       /\ i \notin d.vcolo

SubtractsHigh(c, d, vd, vs, vt) ==
  /\ d \in Unit
  /\ \A v \in VReg : v # vd => d.regs[v] = c.regs[v]
  /\ \A i \in Lane :
       /\ d.regs[vd][i] = Wrap(Sat(Signed(c.regs[vs][i]) - Signed(c.regs[vt][i])
                                    - Carry(c, i)))
       /\ i \notin d.vcolo

Compares(c, d, op, vd, vs, vt) ==
  /\ d \in Unit
  /\ \A v \in VReg : v # vd => d.regs[v] = c.regs[v]
  /\ \A i \in Lane :
       /\ d.regs[vd][i] = (IF i \in d.vccLe THEN c.regs[vs][i] ELSE c.regs[vt][i])
       /\ (i \in d.vccLe
             <=> Selects(c, op, Signed(c.regs[vs][i]), Signed(c.regs[vt][i]), i))

Merges(c, d, vd, vs, vt) ==
  /\ d \in Unit
  /\ \A v \in VReg : v # vd => d.regs[v] = c.regs[v]
  /\ \A i \in Lane :
       /\ d.regs[vd][i] = (IF i \in c.vccLe THEN c.regs[vs][i] ELSE c.regs[vt][i])
       /\ (i \in d.vccLe <=> i \in c.vccLe)

\* A cycle with VADDC; and so on for each instruction of the programs.
LEMMA CycleVADDC ==
  ASSUME NEW c \in Unit, NEW vd \in VReg, NEW vs \in VReg, NEW vt \in VReg,
         NEW d, d = RSPCycleCP2(c, V("VADDC", vd, vs, vt, 0))
  PROVE  AddsLow(c, d, vd, vs, vt)
<1>. DEFINE x == c.regs[vs]
            y == c.regs[vt]
<1>1. x \in Vector /\ y \in Vector /\ c.regs \in [VReg -> Vector]
  BY DEF Unit
<1>2. d = RSPVADDC(c, vd, x, y)
  BY Cycle DEF ProvedOp
<1>. HIDE DEF x, y
<1>3. /\ d \in Unit
      /\ d.regs = [c.regs EXCEPT ![vd] = [i \in Lane |-> Wrap(x[i] + y[i])]]
      /\ d.vcolo = {i \in Lane : x[i] + y[i] >= Base}
  BY <1>1, <1>2, AddCarry
<1>4. /\ d \in Unit
      /\ \A v \in VReg : v # vd => d.regs[v] = c.regs[v]
      /\ \A i \in Lane :
           /\ d.regs[vd][i] = Wrap(x[i] + y[i])
           /\ (i \in d.vcolo <=> x[i] + y[i] >= Base)
  BY <1>1, <1>3
<1>. QED BY <1>4 DEF AddsLow, x, y

\* A cycle with VSUBC.
LEMMA CycleVSUBC ==
  ASSUME NEW c \in Unit, NEW vd \in VReg, NEW vs \in VReg, NEW vt \in VReg,
         NEW d, d = RSPCycleCP2(c, V("VSUBC", vd, vs, vt, 0))
  PROVE  SubtractsLow(c, d, vd, vs, vt)
<1>. DEFINE x == c.regs[vs]
            y == c.regs[vt]
<1>1. x \in Vector /\ y \in Vector /\ c.regs \in [VReg -> Vector]
  BY DEF Unit
<1>2. d = RSPVSUBC(c, vd, x, y)
  BY Cycle DEF ProvedOp
<1>. HIDE DEF x, y
<1>3. /\ d \in Unit
      /\ d.regs = [c.regs EXCEPT ![vd] = [i \in Lane |-> Wrap(x[i] - y[i])]]
      /\ d.vcolo = {i \in Lane : x[i] < y[i]}
      /\ d.vcohi = {i \in Lane : x[i] # y[i]}
  BY <1>1, <1>2, SubtractBorrow
<1>4. /\ d \in Unit
      /\ \A v \in VReg : v # vd => d.regs[v] = c.regs[v]
      /\ \A i \in Lane :
           /\ d.regs[vd][i] = Wrap(x[i] - y[i])
           /\ (i \in d.vcolo <=> x[i] < y[i])
           /\ (i \in d.vcohi <=> x[i] # y[i])
  BY <1>1, <1>3
<1>. QED BY <1>4 DEF SubtractsLow, x, y

\* A cycle with VADD.
LEMMA CycleVADD ==
  ASSUME NEW c \in Unit, NEW vd \in VReg, NEW vs \in VReg, NEW vt \in VReg,
         NEW d, d = RSPCycleCP2(c, V("VADD", vd, vs, vt, 0))
  PROVE  AddsHigh(c, d, vd, vs, vt)
<1>. DEFINE x == c.regs[vs]
            y == c.regs[vt]
<1>1. x \in Vector /\ y \in Vector /\ c.regs \in [VReg -> Vector]
  BY DEF Unit
<1>2. d = RSPVADD(c, vd, x, y)
  BY Cycle DEF ProvedOp
<1>. HIDE DEF x, y
<1>3. /\ d \in Unit
      /\ d.regs = [c.regs EXCEPT ![vd] = [i \in Lane |-> 
              Wrap(Sat(Signed(x[i]) + Signed(y[i]) + Carry(c, i)))]]
      /\ d.vcolo = {}
  BY <1>1, <1>2, Add
<1>4. /\ d \in Unit
      /\ \A v \in VReg : v # vd => d.regs[v] = c.regs[v]
      /\ \A i \in Lane :
           /\ d.regs[vd][i] = Wrap(Sat(Signed(x[i]) + Signed(y[i]) + Carry(c, i)))
           /\ i \notin d.vcolo
  BY <1>1, <1>3
<1>. QED BY <1>4 DEF AddsHigh, x, y

\* A cycle with VSUB.
LEMMA CycleVSUB ==
  ASSUME NEW c \in Unit, NEW vd \in VReg, NEW vs \in VReg, NEW vt \in VReg,
         NEW d, d = RSPCycleCP2(c, V("VSUB", vd, vs, vt, 0))
  PROVE  SubtractsHigh(c, d, vd, vs, vt)
<1>. DEFINE x == c.regs[vs]
            y == c.regs[vt]
<1>1. x \in Vector /\ y \in Vector /\ c.regs \in [VReg -> Vector]
  BY DEF Unit
<1>2. d = RSPVSUB(c, vd, x, y)
  BY Cycle DEF ProvedOp
<1>. HIDE DEF x, y
<1>3. /\ d \in Unit
      /\ d.regs = [c.regs EXCEPT ![vd] = [i \in Lane |-> 
              Wrap(Sat(Signed(x[i]) - Signed(y[i]) - Carry(c, i)))]]
      /\ d.vcolo = {}
  BY <1>1, <1>2, Subtract
<1>4. /\ d \in Unit
      /\ \A v \in VReg : v # vd => d.regs[v] = c.regs[v]
      /\ \A i \in Lane :
           /\ d.regs[vd][i] = Wrap(Sat(Signed(x[i]) - Signed(y[i]) - Carry(c, i)))
           /\ i \notin d.vcolo
  BY <1>1, <1>3
<1>. QED BY <1>4 DEF SubtractsHigh, x, y

\* A cycle with one of the comparisons.
LEMMA CycleSelect ==
  ASSUME NEW c \in Unit, NEW vd \in VReg, NEW vs \in VReg, NEW vt \in VReg,
         NEW op \in SelectOp,
         NEW d, d = RSPCycleCP2(c, V(op, vd, vs, vt, 0))
  PROVE  Compares(c, d, op, vd, vs, vt)
<1>. DEFINE x == c.regs[vs]
            y == c.regs[vt]
<1>1. x \in Vector /\ y \in Vector /\ c.regs \in [VReg -> Vector]
  BY DEF Unit
<1>2. d = Select(c, op, vd, x, y)
  <2>1. op \in ProvedOp
    BY DEF ProvedOp
  <2>2. op \in SelectOp => d = Select(c, op, vd, c.regs[vs], c.regs[vt])
    BY <2>1, Cycle
  <2>. QED BY <2>2
<1>. HIDE DEF x, y
<1>3. /\ d \in Unit
      /\ d.vccLe = {i \in Lane : Selects(c, op, Signed(x[i]), Signed(y[i]), i)}
      /\ d.regs = [c.regs EXCEPT ![vd] =
              [i \in Lane |-> IF i \in d.vccLe THEN x[i] ELSE y[i]]]
  BY <1>1, <1>2, Compare
<1>4. /\ d \in Unit
      /\ \A v \in VReg : v # vd => d.regs[v] = c.regs[v]
      /\ \A i \in Lane :
           /\ d.regs[vd][i] = (IF i \in d.vccLe THEN x[i] ELSE y[i])
           /\ (i \in d.vccLe <=> Selects(c, op, Signed(x[i]), Signed(y[i]), i))
  BY <1>1, <1>3
<1>. QED BY <1>4 DEF Compares, x, y

\* A cycle with VMRG.
LEMMA CycleVMRG ==
  ASSUME NEW c \in Unit, NEW vd \in VReg, NEW vs \in VReg, NEW vt \in VReg,
         NEW d, d = RSPCycleCP2(c, V("VMRG", vd, vs, vt, 0))
  PROVE  Merges(c, d, vd, vs, vt)
<1>. DEFINE x == c.regs[vs]
            y == c.regs[vt]
<1>1. x \in Vector /\ y \in Vector /\ c.regs \in [VReg -> Vector]
  BY DEF Unit
<1>2. d = RSPVMRG(c, vd, x, y)
  BY Cycle DEF ProvedOp
<1>. HIDE DEF x, y
<1>3. /\ d \in Unit /\ d.vccLe = c.vccLe
      /\ d.regs = [c.regs EXCEPT ![vd] =
              [i \in Lane |-> IF i \in c.vccLe THEN x[i] ELSE y[i]]]
  BY <1>1, <1>2, Merge
<1>4. /\ d \in Unit
      /\ \A v \in VReg : v # vd => d.regs[v] = c.regs[v]
      /\ \A i \in Lane :
           /\ d.regs[vd][i] = (IF i \in c.vccLe THEN x[i] ELSE y[i])
           /\ (i \in d.vccLe <=> i \in c.vccLe)
  BY <1>1, <1>3
<1>. QED BY <1>4 DEF Merges, x, y

\* A cycle with VABS.
LEMMA CycleVABS ==
  ASSUME NEW c \in Unit, NEW vd \in VReg, NEW vs \in VReg, NEW vt \in VReg,
         NEW d, d = RSPCycleCP2(c, V("VABS", vd, vs, vt, 0))
  PROVE  \A i \in Lane :
           d.regs[vd][i] = Absolute(Signed(c.regs[vs][i]), Signed(c.regs[vt][i]))
<1>1. c.regs[vs] \in Vector /\ c.regs[vt] \in Vector /\ c.regs \in [VReg -> Vector]
  BY DEF Unit
<1>2. d = RSPVABS(c, vd, c.regs[vs], c.regs[vt])
  BY Cycle DEF ProvedOp
<1>3. d.regs = [c.regs EXCEPT ![vd] = [i \in Lane |->
        Absolute(Signed(c.regs[vs][i]), Signed(c.regs[vt][i]))]]
  BY <1>1, <1>2, TakeAbsolute
<1>. QED BY <1>1, <1>3

\* A cycle with VCR.
LEMMA CycleVCR ==
  ASSUME NEW c \in Unit, NEW vd \in VReg, NEW vs \in VReg, NEW vt \in VReg,
         NEW d, d = RSPCycleCP2(c, V("VCR", vd, vs, vt, 0))
  PROVE  \A i \in SignsDiffer(c.regs[vs], c.regs[vt]) :
           d.regs[vd][i] = IF Signed(c.regs[vs][i]) + Signed(c.regs[vt][i]) < 0
                           THEN Not(c.regs[vt][i]) ELSE c.regs[vs][i]
<1>1. c.regs[vs] \in Vector /\ c.regs[vt] \in Vector
  BY DEF Unit
<1>2. d = RSPVCR(c, vd, c.regs[vs], c.regs[vt])
  BY Cycle DEF ProvedOp
<1>. QED BY <1>1, <1>2, ClipComplement

ClipsHighHalves(c, d, vd, vs, vt) ==
  /\ d \in Unit
  /\ \A v \in VReg : v # vd => d.regs[v] = c.regs[v]
  /\ \A i \in Lane : ClipsHigh(d, Signed(c.regs[vs][i]), Signed(c.regs[vt][i]), i)

ClipsLowHalves(c, d, vd, vs, vt) ==
  /\ d \in Unit
  /\ \A v \in VReg : v # vd => d.regs[v] = c.regs[v]
  /\ \A i \in Lane : ClipsLow(c, d, c.regs[vs][i], c.regs[vt][i], d.regs[vd][i], i)

\* A cycle with VCH.
LEMMA CycleVCH ==
  ASSUME NEW c \in Unit, NEW vd \in VReg, NEW vs \in VReg, NEW vt \in VReg,
         NEW d, d = RSPCycleCP2(c, V("VCH", vd, vs, vt, 0))
  PROVE  ClipsHighHalves(c, d, vd, vs, vt)
<1>1. c.regs[vs] \in Vector /\ c.regs[vt] \in Vector
  BY DEF Unit
<1>2. d = RSPVCH(c, vd, c.regs[vs], c.regs[vt])
  BY Cycle DEF ProvedOp
<1>. QED BY <1>1, <1>2, ClipHigh DEF ClipsHighHalves

\* A cycle with VCL.
LEMMA CycleVCL ==
  ASSUME NEW c \in Unit, NEW vd \in VReg, NEW vs \in VReg, NEW vt \in VReg,
         NEW d, d = RSPCycleCP2(c, V("VCL", vd, vs, vt, 0))
  PROVE  ClipsLowHalves(c, d, vd, vs, vt)
<1>1. c.regs[vs] \in Vector /\ c.regs[vt] \in Vector
  BY DEF Unit
<1>2. d = RSPVCL(c, vd, c.regs[vs], c.regs[vt])
  BY Cycle DEF ProvedOp
<1>. QED BY <1>1, <1>2, ClipLow DEF ClipsLowHalves

\* What a multiplication or accumulation whose sum the accumulator can hold
\* leaves there and in vd.
Accumulated(c, d, op, total, vd, i) ==
  /\ d \in Unit /\ \A v \in VReg : v # vd => d.regs[v] = c.regs[v]
  /\ Total(d, i) = total
  /\ d.accLow[i] = total % Base
  /\ d.accMid[i] = Wrap(total \div Base)
  /\ d.accHigh[i] = Wrap((total \div Base) \div Base)
  /\ op \in {"VMUDH", "VMADH", "VMADM", "VMACF"} =>
       d.regs[vd][i] = Wrap(Sat(total \div Base))
  /\ op \in {"VMADL", "VMADN"} =>
       d.regs[vd][i] = IF FitsSlice(total \div Base) THEN total % Base ELSE 0
  /\ op \in {"VMULU", "VMACU"} => d.regs[vd][i] = Unsigned(total \div Base)
  /\ op = "VMUDM" => d.regs[vd][i] = Wrap(total \div Base)

\* A cycle with one of them.
LEMMA CycleMultiply ==
  ASSUME NEW c \in Unit, NEW vd \in VReg, NEW vs \in VReg, NEW vt \in VReg,
         NEW op \in MultiplyOp \cup AccumulateOp,
         NEW d, d = RSPCycleCP2(c, V(op, vd, vs, vt, 0)), NEW i \in Lane,
         NEW total, total = NewTotal(c, op, c.regs[vs][i], c.regs[vt][i], i),
         total \div Base \in UpperRange
  PROVE  Accumulated(c, d, op, total, vd, i)
<1>. DEFINE x == c.regs[vs]
            y == c.regs[vt]
            upper == total \div Base
            low == total % Base
            mid == Wrap(upper)
            high == Wrap(upper \div Base)
<1>1. x \in Vector /\ y \in Vector
  BY DEF Unit
<1>2. op \in ProvedOp
  BY DEF ProvedOp
<1>3. op \in MultiplyOp \cup AccumulateOp => d = MultiplyOf(c, op, vd, x, y)
  BY <1>2, Cycle
<1>4. total \in Int
  <2>1. x[i] \in Slice /\ y[i] \in Slice
    BY <1>1, VectorTypes
  <2>. QED BY <2>1, TotalTypes
<1>5. upper \in UpperRange /\ low \in Slice /\ total = upper * Base + low
  BY <1>4, Digits
<1>6. total = NewTotal(c, op, x[i], y[i], i)
  OBVIOUS
<1>7. d = MultiplyOf(c, op, vd, x, y)
  BY <1>3
<1>. HIDE DEF x, y
<1>8. /\ d \in Unit
      /\ \A v \in VReg : v # vd => d.regs[v] = c.regs[v]
      /\ Multiplied(c, d, op, x[i], y[i], vd, i)
  BY <1>1, <1>7, Multiply
<1>9. /\ d.accLow[i] = low /\ d.accMid[i] = mid /\ d.accHigh[i] = high
      /\ d.regs[vd][i] = ResultOf(op, high, mid, low)
  BY <1>6, <1>8 DEF Multiplied
<1>. HIDE DEF upper, low, mid, high
<1>10. high = Wrap(upper \div Base) /\ mid = Wrap(upper)
  BY DEF high, mid
<1>11. Pair(high, mid) = upper
  BY <1>5, <1>10, UpperParts
<1>12. Total(d, i) = total
  BY <1>5, <1>9, <1>11 DEF Total
<1>13. /\ \A o \in {"VMUDH", "VMADH", "VMADM", "VMACF"} :
              ResultOf(o, high, mid, low) = Wrap(Sat(upper))
       /\ \A o \in {"VMADL", "VMADN"} :
              ResultOf(o, high, mid, low) = IF FitsSlice(upper) THEN low ELSE 0
       /\ \A o \in {"VMULU", "VMACU"} :
              ResultOf(o, high, mid, low) = Unsigned(upper)
  BY <1>5, <1>10, Results
<1>14. ResultOf("VMUDM", high, mid, low) = mid
  BY DEF ResultOf
<1>. QED BY <1>8, <1>9, <1>12, <1>13, <1>14 DEF Accumulated, upper, low, mid, high

\* The sums of a multiplication and of an accumulation of the slices x and y
\* that the accumulator can hold.
Holdable(total) == total \in Int /\ -Capacity <= total /\ total < Capacity
FirstSum(op, x, y, total) ==
  Holdable(total) /\ total = Product(op, x, y) + Rounding(op)
NextSum(c, i, op, x, y, total) ==
  Holdable(total) /\ total = Total(c, i) + Product(op, x, y)

\* A cycle with a multiplication of that sum,
LEMMA CycleFirstProduct ==
  ASSUME NEW c \in Unit, NEW vd \in VReg, NEW vs \in VReg, NEW vt \in VReg,
         NEW op \in MultiplyOp,
         NEW d, d = RSPCycleCP2(c, V(op, vd, vs, vt, 0)), NEW i \in Lane,
         NEW total, FirstSum(op, c.regs[vs][i], c.regs[vt][i], total)
  PROVE  Accumulated(c, d, op, total, vd, i)
<1>1. total \div Base \in UpperRange
  BY Capable DEF FirstSum, Holdable
<1>2. total = NewTotal(c, op, c.regs[vs][i], c.regs[vt][i], i)
  BY DEF NewTotal, FirstSum
<1>3. op \in MultiplyOp \cup AccumulateOp
  OBVIOUS
<1>. QED BY <1>1, <1>2, <1>3, CycleMultiply

\* and with an accumulation.
LEMMA CycleNextProduct ==
  ASSUME NEW c \in Unit, NEW vd \in VReg, NEW vs \in VReg, NEW vt \in VReg,
         NEW op \in AccumulateOp,
         NEW d, d = RSPCycleCP2(c, V(op, vd, vs, vt, 0)), NEW i \in Lane,
         NEW total, NextSum(c, i, op, c.regs[vs][i], c.regs[vt][i], total)
  PROVE  Accumulated(c, d, op, total, vd, i)
<1>1. total \div Base \in UpperRange
  BY Capable DEF NextSum, Holdable
<1>2. op \notin MultiplyOp
  BY DEF MultiplyOp, AccumulateOp
<1>3. total = NewTotal(c, op, c.regs[vs][i], c.regs[vt][i], i)
  BY <1>2 DEF NewTotal, NextSum
<1>4. op \in MultiplyOp \cup AccumulateOp
  OBVIOUS
<1>. QED BY <1>1, <1>3, <1>4, CycleMultiply

\* One part of the accumulator is read, and stays as it is.
ReadsPart(c, d, vd, part) ==
  /\ d \in Unit
  /\ d.regs[vd] = part /\ \A v \in VReg : v # vd => d.regs[v] = c.regs[v]
  /\ d.accHigh = c.accHigh /\ d.accMid = c.accMid /\ d.accLow = c.accLow

\* A cycle with VSAR.
LEMMA CycleVSAR ==
  ASSUME NEW c \in Unit, NEW vd \in VReg, NEW e \in 8 .. 10,
         NEW d, d = RSPCycleCP2(c, V("VSAR", vd, 0, 0, e))
  PROVE  /\ e = 8 => ReadsPart(c, d, vd, c.accHigh)
         /\ e = 9 => ReadsPart(c, d, vd, c.accMid)
         /\ e = 10 => ReadsPart(c, d, vd, c.accLow)
<1>. DEFINE iw == V("VSAR", vd, 0, 0, e)
            part == CASE e = 8 -> c.accHigh
                      [] e = 9 -> c.accMid
                      [] e = 10 -> c.accLow
<1>1. iw.sa = vd /\ iw.rs % 16 = e
  BY DEF V
<1>2. RSPDecodeVectorInstruction(iw) = "VSAR"
  BY Assembled
<1>3. d = RSPCycleCP2(c, iw)
  OBVIOUS
<1>. HIDE DEF iw
<1>4. d = RSPVSAR(c, vd, e)
  BY <1>1, <1>2, <1>3 DEF RSPCycleCP2, LogicOp, SelectOp, MultiplyOp, AccumulateOp
<1>5. part \in Vector
  BY DEF Unit
<1>6. d = [c EXCEPT !.regs = [c.regs EXCEPT ![vd] = part]]
  BY <1>4 DEF RSPVSAR
<1>. HIDE DEF part
<1>7. d \in Unit /\ d.regs = [c.regs EXCEPT ![vd] = part]
      /\ d.accHigh = c.accHigh /\ d.accMid = c.accMid /\ d.accLow = c.accLow
  BY <1>5, <1>6 DEF Unit
<1>8. d.regs[vd] = part /\ \A v \in VReg : v # vd => d.regs[v] = c.regs[v]
  BY <1>7 DEF Unit
<1>. QED BY <1>7, <1>8 DEF part, ReadsPart

\* The registers the programs name exist.
LEMMA Registers ==
  /\ 0 \in VReg /\ 1 \in VReg /\ 2 \in VReg /\ 3 \in VReg /\ 4 \in VReg
  /\ 5 \in VReg /\ 6 \in VReg /\ 7 \in VReg /\ 8 \in VReg /\ 9 \in VReg
BY ProgramsAssumption, SliceAssumption DEF VReg

\* The three instructions of WideSum, from any state of the unit.
LEMMA WideSumResult ==
  ASSUME NEW c0 \in Unit, NEW c1, NEW c2, NEW c3, NEW i \in Lane,
         c1 = RSPCycleCP2(c0, V("VADDC", 5, 1, 3, 0)),
         c2 = RSPCycleCP2(c1, V("VADD", 6, 2, 4, 0)),
         c3 = RSPCycleCP2(c2, V("VADD", 7, 1, 3, 0)),
         NEW a, a = Pair(c0.regs[2][i], c0.regs[1][i]),
         NEW b, b = Pair(c0.regs[4][i], c0.regs[3][i])
  PROVE  /\ c3.regs[5][i] = (a + b) % Base
         /\ c3.regs[6][i] = Wrap(Sat((a + b) \div Base))
         /\ c3.regs[7][i]
              = Wrap(Sat(Signed(c0.regs[1][i]) + Signed(c0.regs[3][i])))
<1>. DEFINE x(v) == c0.regs[v][i]
<1>1. c0.regs \in [VReg -> Vector]
  BY DEF Unit
<1>2. \A v \in 1 .. 4 : x(v) \in Slice /\ Signed(x(v)) \in -Half .. Half - 1
  <2>1. \A v \in 1 .. 4 : v \in VReg
    BY Registers
  <2>. QED BY <1>1, <2>1, VectorTypes
<1>3. c1 \in Unit /\ (i \in c1.vcolo <=> x(1) + x(3) >= Base)
      /\ c1.regs[5][i] = Wrap(x(1) + x(3))
      /\ \A v \in VReg : v # 5 => c1.regs[v] = c0.regs[v]
  <2>1. AddsLow(c0, c1, 5, 1, 3)
    BY Registers, CycleVADDC
  <2>. QED BY Registers, <2>1 DEF AddsLow
<1>4. c2 \in Unit /\ i \notin c2.vcolo
      /\ c2.regs[6][i] = Wrap(Sat(Signed(x(2)) + Signed(x(4)) + Carry(c1, i)))
      /\ \A v \in VReg : v # 6 => c2.regs[v] = c1.regs[v]
  <2>1. c2.regs[6][i]
          = Wrap(Sat(Signed(c1.regs[2][i]) + Signed(c1.regs[4][i]) + Carry(c1, i)))
        /\ c2 \in Unit /\ i \notin c2.vcolo
        /\ \A v \in VReg : v # 6 => c2.regs[v] = c1.regs[v]
    <3>1. AddsHigh(c1, c2, 6, 2, 4)
      BY Registers, <1>3, CycleVADD
    <3>. QED BY Registers, <3>1 DEF AddsHigh
  <2>. QED BY Registers, <1>3, <2>1
<1>5. c3.regs[7][i] = Wrap(Sat(Signed(x(1)) + Signed(x(3)) + Carry(c2, i)))
      /\ \A v \in VReg : v # 7 => c3.regs[v] = c2.regs[v]
  <2>1. c3.regs[7][i]
          = Wrap(Sat(Signed(c2.regs[1][i]) + Signed(c2.regs[3][i]) + Carry(c2, i)))
        /\ \A v \in VReg : v # 7 => c3.regs[v] = c2.regs[v]
    <3>1. AddsHigh(c2, c3, 7, 1, 3)
      BY Registers, <1>4, CycleVADD
    <3>. QED BY Registers, <3>1 DEF AddsHigh
  <2>. QED BY Registers, <1>3, <1>4, <2>1
<1>6. c3.regs[5][i] = Wrap(x(1) + x(3)) /\ c3.regs[6][i] = c2.regs[6][i]
  BY Registers, <1>3, <1>4, <1>5
<1>7. Carry(c1, i) = (IF x(1) + x(3) >= Base THEN 1 ELSE 0) /\ Carry(c2, i) = 0
  BY <1>3, <1>4 DEF Carry
<1>8. (a + b) % Base = Wrap(x(1) + x(3))
      /\ (a + b) \div Base = Signed(x(2)) + Signed(x(4)) + Carry(c1, i)
  BY <1>2, <1>7, WideSumOfSlices
<1>9. Signed(x(1)) + Signed(x(3)) + 0 = Signed(x(1)) + Signed(x(3))
  BY <1>2, HalfPositive
<1>. QED BY <1>4, <1>5, <1>6, <1>7, <1>8, <1>9

\* The three of WideDifference.
LEMMA WideDifferenceResult ==
  ASSUME NEW c0 \in Unit, NEW c1, NEW c2, NEW c3, NEW i \in Lane,
         c1 = RSPCycleCP2(c0, V("VSUBC", 5, 1, 3, 0)),
         c2 = RSPCycleCP2(c1, V("VSUB", 6, 2, 4, 0)),
         c3 = RSPCycleCP2(c2, V("VSUB", 7, 1, 3, 0)),
         NEW a, a = Pair(c0.regs[2][i], c0.regs[1][i]),
         NEW b, b = Pair(c0.regs[4][i], c0.regs[3][i])
  PROVE  /\ c3.regs[5][i] = (a - b) % Base
         /\ c3.regs[6][i] = Wrap(Sat((a - b) \div Base))
         /\ c3.regs[7][i]
              = Wrap(Sat(Signed(c0.regs[1][i]) - Signed(c0.regs[3][i])))
<1>. DEFINE x(v) == c0.regs[v][i]
<1>1. c0.regs \in [VReg -> Vector]
  BY DEF Unit
<1>2. \A v \in 1 .. 4 : x(v) \in Slice /\ Signed(x(v)) \in -Half .. Half - 1
  <2>1. \A v \in 1 .. 4 : v \in VReg
    BY Registers
  <2>. QED BY <1>1, <2>1, VectorTypes
<1>3. c1 \in Unit /\ (i \in c1.vcolo <=> x(1) < x(3))
      /\ c1.regs[5][i] = Wrap(x(1) - x(3))
      /\ \A v \in VReg : v # 5 => c1.regs[v] = c0.regs[v]
  <2>1. SubtractsLow(c0, c1, 5, 1, 3)
    BY Registers, CycleVSUBC
  <2>. QED BY Registers, <2>1 DEF SubtractsLow
<1>4. c2 \in Unit /\ i \notin c2.vcolo
      /\ c2.regs[6][i] = Wrap(Sat(Signed(x(2)) - Signed(x(4)) - Carry(c1, i)))
      /\ \A v \in VReg : v # 6 => c2.regs[v] = c1.regs[v]
  <2>1. c2.regs[6][i]
          = Wrap(Sat(Signed(c1.regs[2][i]) - Signed(c1.regs[4][i]) - Carry(c1, i)))
        /\ c2 \in Unit /\ i \notin c2.vcolo
        /\ \A v \in VReg : v # 6 => c2.regs[v] = c1.regs[v]
    <3>1. SubtractsHigh(c1, c2, 6, 2, 4)
      BY Registers, <1>3, CycleVSUB
    <3>. QED BY Registers, <3>1 DEF SubtractsHigh
  <2>. QED BY Registers, <1>3, <2>1
<1>5. c3.regs[7][i] = Wrap(Sat(Signed(x(1)) - Signed(x(3)) - Carry(c2, i)))
      /\ \A v \in VReg : v # 7 => c3.regs[v] = c2.regs[v]
  <2>1. c3.regs[7][i]
          = Wrap(Sat(Signed(c2.regs[1][i]) - Signed(c2.regs[3][i]) - Carry(c2, i)))
        /\ \A v \in VReg : v # 7 => c3.regs[v] = c2.regs[v]
    <3>1. SubtractsHigh(c2, c3, 7, 1, 3)
      BY Registers, <1>4, CycleVSUB
    <3>. QED BY Registers, <3>1 DEF SubtractsHigh
  <2>. QED BY Registers, <1>3, <1>4, <2>1
<1>6. c3.regs[5][i] = Wrap(x(1) - x(3)) /\ c3.regs[6][i] = c2.regs[6][i]
  BY Registers, <1>3, <1>4, <1>5
<1>7. Carry(c1, i) = (IF x(1) < x(3) THEN 1 ELSE 0) /\ Carry(c2, i) = 0
  BY <1>3, <1>4 DEF Carry
<1>8. (a - b) % Base = Wrap(x(1) - x(3))
      /\ (a - b) \div Base = Signed(x(2)) - Signed(x(4)) - Carry(c1, i)
  BY <1>2, <1>7, WideDifferenceOfSlices
<1>9. Signed(x(1)) - Signed(x(3)) - 0 = Signed(x(1)) - Signed(x(3))
  BY <1>2, HalfPositive
<1>. QED BY <1>4, <1>5, <1>6, <1>7, <1>8, <1>9

\* What the comparison op says of two numbers.
Holds(op, a, b) ==
  CASE op = "VLT" -> a < b
    [] op = "VGE" -> a >= b
    [] op = "VEQ" -> a = b
    [] op = "VNE" -> a # b

\* The three of a comparison.
LEMMA ComparisonResult ==
  ASSUME NEW c0 \in Unit, NEW c1, NEW c2, NEW c3, NEW i \in Lane,
         NEW op \in SelectOp,
         c1 = RSPCycleCP2(c0, V("VSUBC", 5, 1, 3, 0)),
         c2 = RSPCycleCP2(c1, V(op, 6, 2, 4, 0)),
         c3 = RSPCycleCP2(c2, V("VMRG", 7, 1, 3, 0)),
         NEW a, a = Pair(c0.regs[2][i], c0.regs[1][i]),
         NEW b, b = Pair(c0.regs[4][i], c0.regs[3][i])
  PROVE  /\ i \in c3.vccLe <=> Holds(op, a, b)
         /\ Pair(c3.regs[6][i], c3.regs[7][i]) = IF Holds(op, a, b) THEN a ELSE b
<1>. DEFINE x(v) == c0.regs[v][i]
            s == Signed(x(2))
            t == Signed(x(4))
<1>1. c0.regs \in [VReg -> Vector]
  BY DEF Unit
<1>2. \A v \in 1 .. 4 : x(v) \in Slice /\ Signed(x(v)) \in -Half .. Half - 1
  <2>1. \A v \in 1 .. 4 : v \in VReg
    BY Registers
  <2>. QED BY <1>1, <2>1, VectorTypes
<1>3. c1 \in Unit /\ (i \in c1.vcolo <=> x(1) < x(3)) /\ (i \in c1.vcohi <=> x(1) # x(3))
      /\ \A v \in VReg : v # 5 => c1.regs[v] = c0.regs[v]
  <2>1. SubtractsLow(c0, c1, 5, 1, 3)
    BY Registers, CycleVSUBC
  <2>. QED BY Registers, <2>1 DEF SubtractsLow
<1>4. c2 \in Unit /\ (i \in c2.vccLe <=> Selects(c1, op, s, t, i))
      /\ c2.regs[6][i] = (IF i \in c2.vccLe THEN x(2) ELSE x(4))
      /\ \A v \in VReg : v # 6 => c2.regs[v] = c1.regs[v]
  <2>1. c1.regs[2] = c0.regs[2] /\ c1.regs[4] = c0.regs[4]
    BY Registers, <1>3
  <2>2. c2 \in Unit
        /\ (i \in c2.vccLe
              <=> Selects(c1, op, Signed(c1.regs[2][i]), Signed(c1.regs[4][i]), i))
        /\ c2.regs[6][i] = (IF i \in c2.vccLe THEN c1.regs[2][i] ELSE c1.regs[4][i])
        /\ \A v \in VReg : v # 6 => c2.regs[v] = c1.regs[v]
    <3>1. Compares(c1, c2, op, 6, 2, 4)
      BY Registers, <1>3, CycleSelect
    <3>. QED BY Registers, <3>1 DEF Compares
  <2>. QED BY <2>1, <2>2
<1>5. (i \in c3.vccLe <=> i \in c2.vccLe)
      /\ c3.regs[7][i] = (IF i \in c2.vccLe THEN x(1) ELSE x(3))
      /\ \A v \in VReg : v # 7 => c3.regs[v] = c2.regs[v]
  <2>1. c2.regs[1] = c0.regs[1] /\ c2.regs[3] = c0.regs[3]
    BY Registers, <1>3, <1>4
  <2>2. (i \in c3.vccLe <=> i \in c2.vccLe)
        /\ c3.regs[7][i] = (IF i \in c2.vccLe THEN c2.regs[1][i] ELSE c2.regs[3][i])
        /\ \A v \in VReg : v # 7 => c3.regs[v] = c2.regs[v]
    <3>1. Merges(c2, c3, 7, 1, 3)
      BY Registers, <1>4, CycleVMRG
    <3>. QED BY Registers, <3>1 DEF Merges
  <2>. QED BY <2>1, <2>2
<1>6. c3.regs[6][i] = c2.regs[6][i]
  BY Registers, <1>5
<1>7. a = s * Base + x(1) /\ b = t * Base + x(3)
  BY DEF Pair
<1>8. (a < b <=> s < t \/ (s = t /\ x(1) < x(3))) /\ (a = b <=> s = t /\ x(1) = x(3))
  BY <1>2, <1>7, SliceTypes, PairsOrder
<1>9. a \in Int /\ b \in Int /\ s \in Int /\ t \in Int /\ x(1) \in Int /\ x(3) \in Int
  BY <1>2, <1>7, SliceTypes
<1>. DEFINE p == x(1)
            q == x(3)
<1>10. i \in c2.vccLe <=> Holds(op, a, b)
  <2>. HIDE DEF s, t, p, q
  <2>1. Selects(c1, op, s, t, i) <=> Holds(op, a, b)
    <3>1. i \in c1.vcolo \cap c1.vcohi <=> p < q
      BY <1>3, <1>9 DEF p, q
    <3>2. i \in c1.vcohi <=> p # q
      BY <1>3 DEF p, q
    <3>3. (a < b <=> s < t \/ (s = t /\ p < q)) /\ (a = b <=> s = t /\ p = q)
          /\ p \in Int /\ q \in Int
      BY <1>8, <1>9 DEF p, q
    <3>4. CASE op = "VLT"
      BY <3>1, <3>3, <3>4 DEF Selects, Holds
    <3>5. CASE op = "VGE"
      <4>1. a >= b <=> ~(a < b)
        BY <1>9
      <4>2. s > t \/ (s = t /\ ~(p < q)) <=> ~(s < t \/ (s = t /\ p < q))
        BY <1>9
      <4>3. Holds(op, a, b) <=> a >= b
        BY <3>5 DEF Holds
      <4>4. Selects(c1, op, s, t, i) <=> s > t \/ (s = t /\ ~(p < q))
        BY <3>1, <3>5 DEF Selects
      <4>. QED BY <3>3, <4>1, <4>2, <4>3, <4>4
    <3>6. CASE op = "VEQ"
      BY <3>2, <3>3, <3>6 DEF Selects, Holds
    <3>7. CASE op = "VNE"
      BY <3>2, <3>3, <3>7 DEF Selects, Holds
    <3>. QED BY <3>4, <3>5, <3>6, <3>7 DEF SelectOp
  <2>. QED BY <1>4, <2>1
<1>. QED BY <1>4, <1>5, <1>6, <1>7, <1>10 DEF Pair

\* A lane of a register of zeros adds nothing (VMADN of register 0).
LEMMA ZeroProduct == Product("VMADN", 0, 0) = 0
<1>1. Signed(0) \in Int
  BY SliceTypes DEF Slice
<1>2. Product("VMADN", 0, 0) = 0 * Signed(0)
  BY DEF Product, FractionOp
<1>. QED BY <1>1, <1>2

\* The three of TimesFraction, from any state of the unit with zeros in 0.
LEMMA TimesFractionResult ==
  ASSUME NEW c0 \in Unit, NEW c1, NEW c2, NEW c3, NEW i \in Lane,
         c0.regs[0] = [j \in Lane |-> 0],
         c1 = RSPCycleCP2(c0, V("VMUDL", 5, 1, 3, 0)),
         c2 = RSPCycleCP2(c1, V("VMADM", 6, 2, 3, 0)),
         c3 = RSPCycleCP2(c2, V("VMADN", 5, 0, 0, 0)),
         NEW x, x = Pair(c0.regs[2][i], c0.regs[1][i])
  PROVE  Pair(c3.regs[6][i], c3.regs[5][i]) = (x * c0.regs[3][i]) \div Base
<1>. DEFINE a == c0.regs[1][i]
            b == c0.regs[3][i]
            s == Signed(c0.regs[2][i])
            p4 == (a * b) \div Base
            p3 == s * b
            q == (p3 + p4) \div Base
<1>1. /\ a \in Slice /\ b \in Slice /\ a \in Int /\ b \in Int
      /\ s \in Int /\ -Half <= s /\ s < Half
  <2>1. c0.regs[1] \in Vector /\ c0.regs[2] \in Vector /\ c0.regs[3] \in Vector
    BY Registers DEF Unit
  <2>. QED BY <2>1, VectorTypes, HalfPositive
<1>2. /\ p3 \in Int /\ p4 \in Int
      /\ ((s * Base + a) * b) \div Base = p3 + p4
      /\ -Capacity <= p4 /\ p4 < Capacity
      /\ -Capacity <= p3 + p4 /\ p3 + p4 < Capacity
      /\ q \in Int /\ -Half <= q /\ q < Half
  BY <1>1, FractionProduct
<1>3. p3 + p4 = (x * b) \div Base
  BY <1>2 DEF Pair
<1>. HIDE DEF p3, p4
<1>5. /\ c1 \in Unit /\ Total(c1, i) = p4
      /\ \A v \in VReg : v # 5 => c1.regs[v] = c0.regs[v]
  <2>1. Product("VMUDL", a, b) + Rounding("VMUDL") = p4
    <3>1. Product("VMUDL", a, b) = p4 /\ Rounding("VMUDL") = 0
      BY DEF Product, Rounding, FractionOp, p4
    <3>. QED BY <1>2, <3>1
  <2>2. Accumulated(c0, c1, "VMUDL", p4, 5, i)
    <3>1. FirstSum("VMUDL", c0.regs[1][i], c0.regs[3][i], p4)
      BY <1>2, <2>1 DEF FirstSum, Holdable
    <3>2. "VMUDL" \in MultiplyOp
      BY DEF MultiplyOp
    <3>. QED BY <3>1, <3>2, Registers, CycleFirstProduct
  <2>. QED BY <2>2 DEF Accumulated
<1>6. /\ c2 \in Unit /\ Total(c2, i) = p3 + p4 /\ c2.regs[6][i] = Wrap(Sat(q))
      /\ \A v \in VReg : v # 6 => c2.regs[v] = c1.regs[v]
  <2>1. Total(c1, i) + Product("VMADM", c1.regs[2][i], c1.regs[3][i]) = p3 + p4
    <3>1. c1.regs[2] = c0.regs[2] /\ c1.regs[3] = c0.regs[3]
      BY <1>5, Registers
    <3>2. Product("VMADM", c1.regs[2][i], c1.regs[3][i]) = p3
      BY <3>1 DEF Product, FractionOp, p3
    <3>. QED BY <1>2, <1>5, <3>2
  <2>2. p3 + p4 \in Int
    BY <1>2
  <2>3. Accumulated(c1, c2, "VMADM", p3 + p4, 6, i)
    <3>1. NextSum(c1, i, "VMADM", c1.regs[2][i], c1.regs[3][i], p3 + p4)
      BY <1>2, <1>5, <2>1, <2>2 DEF NextSum, Holdable
    <3>2. "VMADM" \in AccumulateOp
      BY DEF AccumulateOp
    <3>. QED BY <1>5, <3>1, <3>2, Registers, CycleNextProduct
  <2>. QED BY <2>3 DEF Accumulated
<1>7. /\ c3.regs[5][i] = IF FitsSlice(q) THEN (p3 + p4) % Base ELSE 0
      /\ \A v \in VReg : v # 5 => c3.regs[v] = c2.regs[v]
  <2>1. c2.regs[0][i] = 0
    BY <1>5, <1>6, Registers
  <2>2. p3 + p4 \in Int /\ p3 + p4 = Total(c2, i) + Product("VMADN", 0, 0)
    BY <1>2, <1>6, ZeroProduct
  <2>3. Accumulated(c2, c3, "VMADN", p3 + p4, 5, i)
    <3>1. NextSum(c2, i, "VMADN", c2.regs[0][i], c2.regs[0][i], p3 + p4)
      BY <1>2, <1>6, <2>1, <2>2 DEF NextSum, Holdable
    <3>2. "VMADN" \in AccumulateOp
      BY DEF AccumulateOp
    <3>. QED BY <1>6, <3>1, <3>2, Registers, CycleNextProduct
  <2>. QED BY <2>3 DEF Accumulated
<1>8. c3.regs[5][i] = (p3 + p4) % Base /\ c3.regs[6][i] = Wrap(q)
  <2>1. FitsSlice(q) /\ Sat(q) = q
    BY <1>2, HalfPositive DEF FitsSlice, Sat
  <2>. QED BY <1>6, <1>7, <2>1, Registers
<1>9. Signed(Wrap(q)) = q
  BY <1>2, SignedSlice
<1>10. q * Base + ((p3 + p4) % Base) = p3 + p4
  <2>1. p3 + p4 \in Int
    BY <1>2
  <2>. QED BY <2>1, Digits
<1>. QED BY <1>3, <1>8, <1>9, <1>10 DEF Pair

\* The three of TimesInteger.
LEMMA TimesIntegerResult ==
  ASSUME NEW c0 \in Unit, NEW c1, NEW c2, NEW c3, NEW i \in Lane,
         c0.regs[0] = [j \in Lane |-> 0],
         c1 = RSPCycleCP2(c0, V("VMUDN", 5, 1, 3, 0)),
         c2 = RSPCycleCP2(c1, V("VMADH", 6, 2, 3, 0)),
         c3 = RSPCycleCP2(c2, V("VMADN", 5, 0, 0, 0)),
         NEW x, x = Pair(c0.regs[2][i], c0.regs[1][i]),
         NEW product, product = x * Signed(c0.regs[3][i])
  PROVE  /\ product \in Int
         /\ c3.regs[6][i] = Wrap(Sat(product \div Base))
         /\ SignedPair(product) = product => c3.regs[5][i] = product % Base
<1>. DEFINE a == c0.regs[1][i]
            t == Signed(c0.regs[3][i])
            s == Signed(c0.regs[2][i])
            p1 == s * t * Base
            p2 == a * t
<1>1. /\ a \in Slice /\ s \in Int /\ -Half <= s /\ s < Half
      /\ t \in Int /\ -Half <= t /\ t < Half
  <2>1. c0.regs[1] \in Vector /\ c0.regs[2] \in Vector /\ c0.regs[3] \in Vector
    BY Registers DEF Unit
  <2>. QED BY <2>1, VectorTypes, HalfPositive
<1>2. /\ p1 \in Int /\ p2 \in Int /\ (s * Base + a) * t = p1 + p2
      /\ -Capacity <= p2 /\ p2 < Capacity
      /\ -Capacity <= p1 + p2 /\ p1 + p2 < Capacity
  BY <1>1, IntegerProduct
<1>3. product = p1 + p2
  BY <1>2 DEF Pair
<1>. HIDE DEF p1, p2
<1>4. p2 \in Int /\ product \in Int /\ product = p2 + p1
      /\ -Capacity <= product /\ product < Capacity
  BY <1>2, <1>3
<1>5. /\ c1 \in Unit /\ Total(c1, i) = p2
      /\ \A v \in VReg : v # 5 => c1.regs[v] = c0.regs[v]
  <2>1. Product("VMUDN", a, c0.regs[3][i]) + Rounding("VMUDN") = p2
    <3>1. Product("VMUDN", a, c0.regs[3][i]) = p2 /\ Rounding("VMUDN") = 0
      BY DEF Product, Rounding, FractionOp, p2
    <3>. QED BY <1>2, <3>1
  <2>2. Accumulated(c0, c1, "VMUDN", p2, 5, i)
    <3>1. FirstSum("VMUDN", c0.regs[1][i], c0.regs[3][i], p2)
      BY <1>2, <2>1 DEF FirstSum, Holdable
    <3>2. "VMUDN" \in MultiplyOp
      BY DEF MultiplyOp
    <3>. QED BY <3>1, <3>2, Registers, CycleFirstProduct
  <2>. QED BY <2>2 DEF Accumulated
<1>6. /\ c2 \in Unit /\ Total(c2, i) = product
      /\ c2.regs[6][i] = Wrap(Sat(product \div Base))
      /\ \A v \in VReg : v # 6 => c2.regs[v] = c1.regs[v]
  <2>1. Total(c1, i) + Product("VMADH", c1.regs[2][i], c1.regs[3][i]) = product
    <3>1. c1.regs[2] = c0.regs[2] /\ c1.regs[3] = c0.regs[3]
      BY <1>5, Registers
    <3>2. Product("VMADH", c1.regs[2][i], c1.regs[3][i]) = p1
      BY <3>1 DEF Product, FractionOp, p1
    <3>. QED BY <1>4, <1>5, <3>2
  <2>2. Accumulated(c1, c2, "VMADH", product, 6, i)
    <3>1. NextSum(c1, i, "VMADH", c1.regs[2][i], c1.regs[3][i], product)
      BY <1>4, <2>1 DEF NextSum, Holdable
    <3>2. "VMADH" \in AccumulateOp
      BY DEF AccumulateOp
    <3>. QED BY <1>5, <3>1, <3>2, Registers, CycleNextProduct
  <2>. QED BY <2>2 DEF Accumulated
<1>7. /\ c3.regs[5][i] = IF FitsSlice(product \div Base) THEN product % Base ELSE 0
      /\ \A v \in VReg : v # 5 => c3.regs[v] = c2.regs[v]
  <2>1. c2.regs[0][i] = 0
    BY <1>5, <1>6, Registers
  <2>2. product = Total(c2, i) + Product("VMADN", 0, 0)
    BY <1>4, <1>6, ZeroProduct
  <2>3. Accumulated(c2, c3, "VMADN", product, 5, i)
    <3>1. NextSum(c2, i, "VMADN", c2.regs[0][i], c2.regs[0][i], product)
      BY <1>4, <1>6, <2>1, <2>2 DEF NextSum, Holdable
    <3>2. "VMADN" \in AccumulateOp
      BY DEF AccumulateOp
    <3>. QED BY <1>6, <3>1, <3>2, Registers, CycleNextProduct
  <2>. QED BY <2>3 DEF Accumulated
<1>8. SignedPair(product) = product => FitsSlice(product \div Base)
  BY <1>4, PairFits
<1>. QED BY <1>4, <1>6, <1>7, <1>8, Registers

\* The three of MixedFractions.
LEMMA MixedFractionsResult ==
  ASSUME NEW c0 \in Unit, NEW c1, NEW c2, NEW c3, NEW i \in Lane,
         c1 = RSPCycleCP2(c0, V("VMUDM", 5, 1, 3, 0)),
         c2 = RSPCycleCP2(c1, V("VMUDN", 7, 3, 1, 0)),
         c3 = RSPCycleCP2(c2, V("VSAR", 6, 0, 0, 9))
  PROVE  /\ c3.regs[5][i] = c3.regs[6][i]
         /\ Signed(c3.regs[5][i])
              = (Signed(c0.regs[1][i]) * c0.regs[3][i]) \div Base
<1>. DEFINE s == Signed(c0.regs[1][i])
            b == c0.regs[3][i]
            p == s * b
            q == p \div Base
<1>1. /\ b \in Slice /\ b \in Int /\ s \in Int /\ -Half <= s /\ s < Half
  <2>1. c0.regs[1] \in Vector /\ c0.regs[3] \in Vector
    BY Registers DEF Unit
  <2>. QED BY <2>1, VectorTypes, HalfPositive
<1>2. /\ p \in Int /\ -Capacity <= p /\ p < Capacity
      /\ q \in Int /\ -Half <= q /\ q < Half
  <2>0. PICK a \in Slice : a = 0
    BY SliceTypes DEF Slice
  <2>. DEFINE p4 == (a * b) \div Base
  <2>1. p4 = 0
    BY <1>1, <2>0, SliceTypes
  <2>2. /\ p \in Int /\ p4 \in Int
        /\ -Capacity <= p + p4 /\ p + p4 < Capacity
        /\ (p + p4) \div Base \in Int
        /\ -Half <= (p + p4) \div Base /\ (p + p4) \div Base < Half
    BY <1>1, <2>1, FractionProduct
  <2>. HIDE DEF p, p4
  <2>3. p + p4 = p
    BY <2>1, <2>2
  <2>. QED BY <2>2, <2>3
<1>. HIDE DEF p
<1>3. /\ c1 \in Unit /\ c1.regs[5][i] = Wrap(q)
      /\ \A v \in VReg : v # 5 => c1.regs[v] = c0.regs[v]
  <2>1. Product("VMUDM", c0.regs[1][i], b) + Rounding("VMUDM") = p
    <3>1. Product("VMUDM", c0.regs[1][i], b) = p /\ Rounding("VMUDM") = 0
      BY DEF Product, Rounding, FractionOp, p
    <3>. QED BY <1>2, <3>1
  <2>2. Accumulated(c0, c1, "VMUDM", p, 5, i)
    <3>1. FirstSum("VMUDM", c0.regs[1][i], c0.regs[3][i], p)
      BY <1>2, <2>1 DEF FirstSum, Holdable
    <3>2. "VMUDM" \in MultiplyOp
      BY DEF MultiplyOp
    <3>. QED BY <3>1, <3>2, Registers, CycleFirstProduct
  <2>. QED BY <2>2 DEF Accumulated
<1>4. /\ c2 \in Unit /\ c2.accMid[i] = Wrap(q)
      /\ \A v \in VReg : v # 7 => c2.regs[v] = c1.regs[v]
  <2>1. Product("VMUDN", c1.regs[3][i], c1.regs[1][i]) + Rounding("VMUDN") = p
    <3>1. c1.regs[1] = c0.regs[1] /\ c1.regs[3] = c0.regs[3]
      BY <1>3, Registers
    <3>2. Product("VMUDN", c1.regs[3][i], c1.regs[1][i]) = b * s
          /\ Rounding("VMUDN") = 0
      BY <3>1 DEF Product, Rounding, FractionOp
    <3>3. b * s = p
      BY <1>1 DEF p
    <3>. QED BY <1>2, <3>2, <3>3
  <2>2. Accumulated(c1, c2, "VMUDN", p, 7, i)
    <3>1. FirstSum("VMUDN", c1.regs[3][i], c1.regs[1][i], p)
      BY <1>2, <1>3, <2>1 DEF FirstSum, Holdable
    <3>2. "VMUDN" \in MultiplyOp
      BY DEF MultiplyOp
    <3>. QED BY <1>3, <3>1, <3>2, Registers, CycleFirstProduct
  <2>. QED BY <2>2 DEF Accumulated
<1>5. c3.regs[6] = c2.accMid /\ \A v \in VReg : v # 6 => c3.regs[v] = c2.regs[v]
  <2>1. 6 \in VReg
    BY Registers
  <2>2. c2 \in Unit /\ 9 \in 8 .. 10
    BY <1>4
  <2>3. ReadsPart(c2, c3, 6, c2.accMid)
    BY <2>1, <2>2, CycleVSAR
  <2>. QED BY <2>3 DEF ReadsPart
<1>6. c3.regs[6][i] = Wrap(q) /\ c3.regs[5][i] = Wrap(q)
  BY <1>3, <1>4, <1>5, Registers
<1>7. Signed(Wrap(q)) = q
  BY <1>2, SignedSlice
<1>. QED BY <1>6, <1>7 DEF p

\* A rounded product of fractions and another one added to it, for the three
\* pairs of results: first and second.
LEMMA FractionSumResult ==
  ASSUME NEW c0 \in Unit, NEW c1, NEW c2, NEW i \in Lane,
         NEW first \in {"VMULF", "VMULU"}, NEW second \in {"VMACF", "VMACU"},
         c1 = RSPCycleCP2(c0, V(first, 5, 1, 3, 0)),
         c2 = RSPCycleCP2(c1, V(second, 6, 2, 4, 0)),
         c0.regs[1][i] # Half \/ c0.regs[3][i] # Half,
         c0.regs[2][i] # Half \/ c0.regs[4][i] # Half,
         NEW p, p = 2 * Signed(c0.regs[1][i]) * Signed(c0.regs[3][i]),
         NEW q, q = 2 * Signed(c0.regs[2][i]) * Signed(c0.regs[4][i])
  PROVE  /\ first = "VMULU" => c2.regs[5][i] = Unsigned((p + Half) \div Base)
         /\ second = "VMACU" => c2.regs[6][i] = Unsigned((p + q + Half) \div Base)
         /\ second = "VMACF" => c2.regs[6][i] = Wrap(Sat((p + q + Half) \div Base))
<1>. DEFINE x(v) == c0.regs[v][i]
<1>1. \A v \in 1 .. 4 : /\ x(v) \in Slice /\ Signed(x(v)) \in Int
                        /\ -Half <= Signed(x(v)) /\ Signed(x(v)) < Half
                        /\ (Signed(x(v)) = -Half <=> x(v) = Half)
  <2>. SUFFICES ASSUME NEW v \in 1 .. 4
                PROVE  /\ x(v) \in Slice /\ Signed(x(v)) \in Int
                       /\ -Half <= Signed(x(v)) /\ Signed(x(v)) < Half
                       /\ (Signed(x(v)) = -Half <=> x(v) = Half)
    OBVIOUS
  <2>1. v \in VReg
    BY Registers
  <2>2. c0.regs[v] \in Vector
    BY <2>1 DEF Unit
  <2>3. x(v) \in Slice /\ Signed(x(v)) \in -Half .. Half - 1
    BY <2>2, VectorTypes
  <2>4. Half \in Nat \ {0} /\ Base = 2 * Half /\ x(v) \in 0 .. Base - 1
    BY <2>3, SliceTypes, HalfPositive
  <2>. QED BY <2>3, <2>4 DEF Signed
<1>. HIDE DEF x
<1>2. /\ p \in Int /\ SignedPair(p) = p
      /\ -(Half * Base) < p /\ p < Half * Base
  <2>1. p = 2 * Signed(x(1)) * Signed(x(3)) /\ (x(1) # Half \/ x(3) # Half)
    BY DEF x
  <2>. QED BY <1>1, <2>1, FractionFits
<1>3. /\ q \in Int /\ SignedPair(q) = q
      /\ -(Half * Base) < q /\ q < Half * Base
  <2>1. q = 2 * Signed(x(2)) * Signed(x(4)) /\ (x(2) # Half \/ x(4) # Half)
    BY DEF x
  <2>. QED BY <1>1, <2>1, FractionFits
<1>. DEFINE one == p + Half
            two == p + q + Half
<1>4. /\ one \in Int /\ -Capacity <= one /\ one < Capacity
      /\ two \in Int /\ -Capacity <= two /\ two < Capacity
  <2>. DEFINE h == Half  n == Base  hn == h * n
  <2>1. /\ h \in Nat /\ h >= 1 /\ n = 2 * h /\ n \in Nat
        /\ p \in Int /\ -hn < p /\ p < hn /\ q \in Int /\ -hn < q /\ q < hn
    BY <1>2, <1>3, SliceTypes, HalfPositive
  <2>2. Capacity = hn * n
    BY DEF Capacity
  <2>. HIDE DEF h, n
  <2>3. hn \in Int /\ hn = 2 * (h * h) /\ h * h \in Int /\ h * h >= h
    <3>1. (h - 1) * h >= 0 /\ (h - 1) * h = h * h - h
      BY <2>1
    <3>. QED BY <2>1, <3>1
  <2>4. p = 2 * (Signed(x(1)) * Signed(x(3))) /\ Signed(x(1)) * Signed(x(3)) \in Int
        /\ q = 2 * (Signed(x(2)) * Signed(x(4))) /\ Signed(x(2)) * Signed(x(4)) \in Int
    BY <1>1 DEF x
  <2>5. hn * n = 2 * (hn * h) /\ hn * h \in Int
    BY <2>1, <2>3
  <2>6. CASE h = 1
    <3>1. hn = 2 /\ hn * n = 4
      BY <2>1, <2>6
    <3>2. -2 < p /\ p < 2 /\ -2 < q /\ q < 2
      BY <2>1, <3>1
    <3>3. p + q <= 2 /\ p + q >= -2 /\ p + q \in Int
      BY <2>1, <3>2
    <3>. HIDE DEF hn
    <3>. QED BY <2>1, <2>2, <2>6, <3>1, <3>2, <3>3 DEF h
  <2>7. CASE h >= 2
    <3>1. hn >= h /\ hn >= 1
      BY <2>1, <2>3
    <3>2. (h - 2) * hn >= 0 /\ (h - 2) * hn = hn * h - 2 * hn
      <4>. HIDE DEF hn
      <4>. QED BY <2>1, <2>3, <2>7, <3>1
    <3>3. hn * n >= 4 * hn
      <4>. HIDE DEF hn
      <4>. QED BY <2>3, <2>5, <3>2
    <3>4. hn * n \in Int
      BY <2>1, <2>3
    <3>5. Half = h
      BY DEF h
    <3>. HIDE DEF hn
    <3>. QED BY <2>1, <2>2, <2>3, <3>1, <3>3, <3>4, <3>5
  <2>. QED BY <2>1, <2>6, <2>7
<1>5. two = one + q
  BY <1>2, <1>3, HalfPositive
<1>. HIDE DEF one, two
<1>6. /\ c1 \in Unit
      /\ \A v \in VReg : v # 5 => c1.regs[v] = c0.regs[v]
      /\ Total(c1, i) = one
      /\ (first = "VMULU" => c1.regs[5][i] = Unsigned(one \div Base))
  <2>1. one = Product(first, x(1), x(3)) + Rounding(first)
    <3>1. Product(first, x(1), x(3)) = p /\ Rounding(first) = Half
      BY <1>2 DEF Product, Rounding, FractionOp, x
    <3>. QED BY <3>1 DEF one
  <2>2. first \in MultiplyOp
    BY DEF MultiplyOp
  <2>3. Accumulated(c0, c1, first, one, 5, i)
    <3>1. FirstSum(first, c0.regs[1][i], c0.regs[3][i], one)
      BY <1>4, <2>1 DEF FirstSum, Holdable, x
    <3>2. first \in MultiplyOp
      BY DEF MultiplyOp
    <3>. QED BY <3>1, <3>2, Registers, CycleFirstProduct
  <2>. QED BY <2>3 DEF Accumulated
<1>7. /\ \A v \in VReg : v # 6 => c2.regs[v] = c1.regs[v]
      /\ second = "VMACU" => c2.regs[6][i] = Unsigned(two \div Base)
      /\ second = "VMACF" => c2.regs[6][i] = Wrap(Sat(two \div Base))
  <2>1. two = Total(c1, i) + Product(second, x(2), x(4))
    <3>1. Product(second, x(2), x(4)) = q
      BY <1>3 DEF Product, FractionOp, x
    <3>. QED BY <1>5, <1>6, <3>1
  <2>2. second \in AccumulateOp
    BY DEF AccumulateOp
  <2>3. Accumulated(c1, c2, second, two, 6, i)
    <3>1. NextSum(c1, i, second, c1.regs[2][i], c1.regs[4][i], two)
      BY <1>4, <1>6, <2>1, Registers DEF NextSum, Holdable, x
    <3>2. second \in AccumulateOp
      BY DEF AccumulateOp
    <3>. QED BY <1>6, <3>1, <3>2, Registers, CycleNextProduct
  <2>. QED BY <2>3 DEF Accumulated
<1>8. c2.regs[5][i] = c1.regs[5][i]
  BY <1>7, Registers
<1>. QED BY <1>6, <1>7, <1>8 DEF one, two

\* The first five of WideProduct: its four products add up to the product.
LEMMA WideProductResult ==
  ASSUME NEW c0 \in Unit, NEW c1, NEW c2, NEW c3, NEW c4, NEW c5, NEW i \in Lane,
         c0.regs[0] = [j \in Lane |-> 0],
         c1 = RSPCycleCP2(c0, V("VMUDL", 5, 1, 3, 0)),
         c2 = RSPCycleCP2(c1, V("VMADM", 5, 2, 3, 0)),
         c3 = RSPCycleCP2(c2, V("VMADN", 5, 1, 4, 0)),
         c4 = RSPCycleCP2(c3, V("VMADH", 6, 2, 4, 0)),
         c5 = RSPCycleCP2(c4, V("VMADN", 5, 0, 0, 0)),
         NEW x, x = Pair(c0.regs[2][i], c0.regs[1][i]),
         NEW y, y = Pair(c0.regs[4][i], c0.regs[3][i]),
         NEW product, product = (x * y) \div Base
  PROVE  /\ c5 \in Unit /\ product \in Int /\ Total(c5, i) = product
         /\ c5.regs[6][i] = Wrap(Sat(product \div Base))
         /\ c5.regs[5][i]
              = IF FitsSlice(product \div Base) THEN product % Base ELSE 0
<1>. DEFINE a == c0.regs[1][i]
            b == c0.regs[3][i]
            s == Signed(c0.regs[2][i])
            t == Signed(c0.regs[4][i])
            p1 == s * t * Base
            p2 == a * t
            p3 == s * b
            p4 == (a * b) \div Base
<1>1. /\ a \in Slice /\ b \in Slice
      /\ s \in Int /\ -Half <= s /\ s < Half /\ t \in Int /\ -Half <= t /\ t < Half
  <2>1. c0.regs[1] \in Vector /\ c0.regs[2] \in Vector
        /\ c0.regs[3] \in Vector /\ c0.regs[4] \in Vector
    BY Registers DEF Unit
  <2>. QED BY <2>1, VectorTypes, HalfPositive
<1>2. /\ p1 \in Int /\ p2 \in Int /\ p3 \in Int /\ p4 \in Int
      /\ ((s * Base + a) * (t * Base + b)) \div Base = p1 + p2 + p3 + p4
      /\ \A w1 \in {0, p1}, w2 \in {0, p2}, w3 \in {0, p3}, w4 \in {0, p4} :
              -Capacity <= w1 + w2 + w3 + w4 /\ w1 + w2 + w3 + w4 < Capacity
  BY <1>1, PartialProducts
<1>3. Product("VMUDL", a, b) = p4 /\ Rounding("VMUDL") = 0
      /\ Product("VMADM", c0.regs[2][i], b) = p3
      /\ Product("VMADN", a, c0.regs[4][i]) = p2
      /\ Product("VMADH", c0.regs[2][i], c0.regs[4][i]) = p1
  BY DEF Product, Rounding, FractionOp
<1>4. product = p1 + p2 + p3 + p4
  BY <1>2 DEF Pair
<1>. HIDE DEF p1, p2, p3, p4
<1>. DEFINE q1 == p4
            q2 == q1 + p3
            q3 == q2 + p2
<1>5. /\ q1 \in Int /\ -Capacity <= q1 /\ q1 < Capacity
      /\ q2 \in Int /\ -Capacity <= q2 /\ q2 < Capacity
      /\ q3 \in Int /\ -Capacity <= q3 /\ q3 < Capacity
      /\ product \in Int /\ -Capacity <= product /\ product < Capacity
      /\ product = q3 + p1
  <2>1. /\ -Capacity <= 0 + 0 + 0 + p4 /\ 0 + 0 + 0 + p4 < Capacity
        /\ -Capacity <= 0 + 0 + p3 + p4 /\ 0 + 0 + p3 + p4 < Capacity
        /\ -Capacity <= 0 + p2 + p3 + p4 /\ 0 + p2 + p3 + p4 < Capacity
        /\ -Capacity <= p1 + p2 + p3 + p4 /\ p1 + p2 + p3 + p4 < Capacity
    BY <1>2
  <2>2. /\ 0 + 0 + 0 + p4 = q1 /\ 0 + 0 + p3 + p4 = q2 /\ 0 + p2 + p3 + p4 = q3
        /\ p1 + p2 + p3 + p4 = q3 + p1
    BY <1>2
  <2>3. q1 \in Int /\ q2 \in Int /\ q3 \in Int /\ product \in Int
    BY <1>2, <1>4
  <2>. HIDE DEF q1, q2, q3
  <2>. QED BY <1>4, <2>1, <2>2, <2>3
<1>6. q2 = q1 + p3 /\ q3 = q2 + p2 /\ q1 = p4 + 0
  BY <1>2
<1>. HIDE DEF q1, q2, q3
<1>7. 0 \in VReg /\ 1 \in VReg /\ 2 \in VReg /\ 3 \in VReg /\ 4 \in VReg
      /\ 5 \in VReg /\ 6 \in VReg
  BY Registers
<1>8. "VMUDL" \in MultiplyOp /\ "VMADM" \in AccumulateOp
      /\ "VMADN" \in AccumulateOp /\ "VMADH" \in AccumulateOp
  BY DEF MultiplyOp, AccumulateOp
<1>9. /\ c1 \in Unit /\ Total(c1, i) = q1
      /\ \A v \in VReg : v # 5 => c1.regs[v] = c0.regs[v]
  <2>1. q1 = Product("VMUDL", a, b) + Rounding("VMUDL")
    BY <1>3, <1>6
  <2>2. Accumulated(c0, c1, "VMUDL", q1, 5, i)
    <3>1. FirstSum("VMUDL", c0.regs[1][i], c0.regs[3][i], q1)
      BY <1>5, <1>7, <1>8, <2>1 DEF FirstSum, Holdable
    <3>2. "VMUDL" \in MultiplyOp
      BY DEF MultiplyOp
    <3>. QED BY <3>1, <3>2, Registers, CycleFirstProduct
  <2>. QED BY <2>2 DEF Accumulated
<1>10. /\ c2 \in Unit /\ Total(c2, i) = q2
       /\ \A v \in VReg : v # 5 => c2.regs[v] = c1.regs[v]
  <2>1. c1.regs[2] = c0.regs[2] /\ c1.regs[3] = c0.regs[3]
    BY <1>7, <1>9
  <2>2. q2 = Total(c1, i) + Product("VMADM", c1.regs[2][i], c1.regs[3][i])
    BY <1>3, <1>6, <1>9, <2>1
  <2>3. Accumulated(c1, c2, "VMADM", q2, 5, i)
    <3>1. NextSum(c1, i, "VMADM", c1.regs[2][i], c1.regs[3][i], q2)
      BY <1>5, <1>7, <1>8, <1>9, <2>2 DEF NextSum, Holdable
    <3>2. "VMADM" \in AccumulateOp
      BY DEF AccumulateOp
    <3>. QED BY <1>9, <3>1, <3>2, Registers, CycleNextProduct
  <2>. QED BY <2>3 DEF Accumulated
<1>11. /\ c3 \in Unit /\ Total(c3, i) = q3
       /\ \A v \in VReg : v # 5 => c3.regs[v] = c2.regs[v]
  <2>1. c2.regs[1] = c0.regs[1] /\ c2.regs[4] = c0.regs[4]
    BY <1>7, <1>9, <1>10
  <2>2. q3 = Total(c2, i) + Product("VMADN", c2.regs[1][i], c2.regs[4][i])
    BY <1>3, <1>6, <1>10, <2>1
  <2>3. Accumulated(c2, c3, "VMADN", q3, 5, i)
    <3>1. NextSum(c2, i, "VMADN", c2.regs[1][i], c2.regs[4][i], q3)
      BY <1>5, <1>7, <1>8, <1>10, <2>2 DEF NextSum, Holdable
    <3>2. "VMADN" \in AccumulateOp
      BY DEF AccumulateOp
    <3>. QED BY <1>10, <3>1, <3>2, Registers, CycleNextProduct
  <2>. QED BY <2>3 DEF Accumulated
<1>12. /\ c4 \in Unit /\ Total(c4, i) = product
       /\ c4.regs[6][i] = Wrap(Sat(product \div Base))
       /\ \A v \in VReg : v # 6 => c4.regs[v] = c3.regs[v]
  <2>1. c3.regs[2] = c0.regs[2] /\ c3.regs[4] = c0.regs[4]
    BY <1>7, <1>9, <1>10, <1>11
  <2>2. product = Total(c3, i) + Product("VMADH", c3.regs[2][i], c3.regs[4][i])
    BY <1>3, <1>5, <1>11, <2>1
  <2>3. Accumulated(c3, c4, "VMADH", product, 6, i)
    <3>1. NextSum(c3, i, "VMADH", c3.regs[2][i], c3.regs[4][i], product)
      BY <1>5, <2>2 DEF NextSum, Holdable
    <3>2. "VMADH" \in AccumulateOp
      BY DEF AccumulateOp
    <3>. QED BY <1>11, <3>1, <3>2, Registers, CycleNextProduct
  <2>. QED BY <2>3 DEF Accumulated
<1>13. /\ c5 \in Unit /\ Total(c5, i) = product
       /\ c5.regs[5][i]
            = IF FitsSlice(product \div Base) THEN product % Base ELSE 0
       /\ \A v \in VReg : v # 5 => c5.regs[v] = c4.regs[v]
  <2>1. c4.regs[0][i] = 0
    BY <1>7, <1>9, <1>10, <1>11, <1>12
  <2>2. product = Total(c4, i) + Product("VMADN", 0, 0)
    BY <1>5, <1>12, ZeroProduct
  <2>3. Accumulated(c4, c5, "VMADN", product, 5, i)
    <3>1. NextSum(c4, i, "VMADN", c4.regs[0][i], c4.regs[0][i], product)
      BY <1>5, <2>1, <2>2 DEF NextSum, Holdable
    <3>2. "VMADN" \in AccumulateOp
      BY DEF AccumulateOp
    <3>. QED BY <1>12, <3>1, <3>2, Registers, CycleNextProduct
  <2>. QED BY <2>3 DEF Accumulated
<1>. QED BY <1>5, <1>7, <1>12, <1>13

\* The four of ProductFromTop.
LEMMA ProductFromTopResult ==
  ASSUME NEW c0 \in Unit, NEW c1, NEW c2, NEW c3, NEW c4, NEW i \in Lane,
         c1 = RSPCycleCP2(c0, V("VMUDH", 6, 2, 4, 0)),
         c2 = RSPCycleCP2(c1, V("VMADN", 5, 1, 4, 0)),
         c3 = RSPCycleCP2(c2, V("VMADM", 6, 2, 3, 0)),
         c4 = RSPCycleCP2(c3, V("VMADL", 5, 1, 3, 0)),
         NEW x, x = Pair(c0.regs[2][i], c0.regs[1][i]),
         NEW y, y = Pair(c0.regs[4][i], c0.regs[3][i]),
         NEW product, product = (x * y) \div Base
  PROVE  /\ c4 \in Unit /\ product \in Int /\ Total(c4, i) = product
         /\ c4.regs[5][i]
              = IF FitsSlice(product \div Base) THEN product % Base ELSE 0
<1>. DEFINE a == c0.regs[1][i]
            b == c0.regs[3][i]
            s == Signed(c0.regs[2][i])
            t == Signed(c0.regs[4][i])
            p1 == s * t * Base
            p2 == a * t
            p3 == s * b
            p4 == (a * b) \div Base
<1>1. /\ a \in Slice /\ b \in Slice
      /\ s \in Int /\ -Half <= s /\ s < Half /\ t \in Int /\ -Half <= t /\ t < Half
  <2>1. c0.regs[1] \in Vector /\ c0.regs[2] \in Vector
        /\ c0.regs[3] \in Vector /\ c0.regs[4] \in Vector
    BY Registers DEF Unit
  <2>. QED BY <2>1, VectorTypes, HalfPositive
<1>2. /\ p1 \in Int /\ p2 \in Int /\ p3 \in Int /\ p4 \in Int
      /\ ((s * Base + a) * (t * Base + b)) \div Base = p1 + p2 + p3 + p4
      /\ \A w1 \in {0, p1}, w2 \in {0, p2}, w3 \in {0, p3}, w4 \in {0, p4} :
              -Capacity <= w1 + w2 + w3 + w4 /\ w1 + w2 + w3 + w4 < Capacity
  BY <1>1, PartialProducts
<1>3. Product("VMUDH", c0.regs[2][i], c0.regs[4][i]) = p1 /\ Rounding("VMUDH") = 0
      /\ Product("VMADN", a, c0.regs[4][i]) = p2
      /\ Product("VMADM", c0.regs[2][i], b) = p3
      /\ Product("VMADL", a, b) = p4
  BY DEF Product, Rounding, FractionOp
<1>4. product = p1 + p2 + p3 + p4
  BY <1>2 DEF Pair
<1>. HIDE DEF p1, p2, p3, p4
<1>. DEFINE q1 == p1
            q2 == q1 + p2
            q3 == q2 + p3
<1>5. /\ q1 \in Int /\ -Capacity <= q1 /\ q1 < Capacity
      /\ q2 \in Int /\ -Capacity <= q2 /\ q2 < Capacity
      /\ q3 \in Int /\ -Capacity <= q3 /\ q3 < Capacity
      /\ product \in Int /\ -Capacity <= product /\ product < Capacity
      /\ product = q3 + p4
  <2>1. /\ -Capacity <= p1 + 0 + 0 + 0 /\ p1 + 0 + 0 + 0 < Capacity
        /\ -Capacity <= p1 + p2 + 0 + 0 /\ p1 + p2 + 0 + 0 < Capacity
        /\ -Capacity <= p1 + p2 + p3 + 0 /\ p1 + p2 + p3 + 0 < Capacity
        /\ -Capacity <= p1 + p2 + p3 + p4 /\ p1 + p2 + p3 + p4 < Capacity
    BY <1>2
  <2>2. /\ p1 + 0 + 0 + 0 = q1 /\ p1 + p2 + 0 + 0 = q2 /\ p1 + p2 + p3 + 0 = q3
        /\ p1 + p2 + p3 + p4 = q3 + p4
    BY <1>2
  <2>3. q1 \in Int /\ q2 \in Int /\ q3 \in Int /\ product \in Int
    BY <1>2, <1>4
  <2>. HIDE DEF q1, q2, q3
  <2>. QED BY <1>4, <2>1, <2>2, <2>3
<1>6. q2 = q1 + p2 /\ q3 = q2 + p3 /\ q1 = p1 + 0
  BY <1>2
<1>. HIDE DEF q1, q2, q3
<1>7. 1 \in VReg /\ 2 \in VReg /\ 3 \in VReg /\ 4 \in VReg
      /\ 5 \in VReg /\ 6 \in VReg
  BY Registers
<1>8. "VMUDH" \in MultiplyOp /\ "VMADN" \in AccumulateOp
      /\ "VMADM" \in AccumulateOp /\ "VMADL" \in AccumulateOp
  BY DEF MultiplyOp, AccumulateOp
<1>9. /\ c1 \in Unit /\ Total(c1, i) = q1
      /\ \A v \in VReg : v # 6 => c1.regs[v] = c0.regs[v]
  <2>1. q1 = Product("VMUDH", c0.regs[2][i], c0.regs[4][i]) + Rounding("VMUDH")
    BY <1>3, <1>6
  <2>2. Accumulated(c0, c1, "VMUDH", q1, 6, i)
    <3>1. FirstSum("VMUDH", c0.regs[2][i], c0.regs[4][i], q1)
      BY <1>5, <1>7, <1>8, <2>1 DEF FirstSum, Holdable
    <3>2. "VMUDH" \in MultiplyOp
      BY DEF MultiplyOp
    <3>. QED BY <3>1, <3>2, Registers, CycleFirstProduct
  <2>. QED BY <2>2 DEF Accumulated
<1>10. /\ c2 \in Unit /\ Total(c2, i) = q2
       /\ \A v \in VReg : v # 5 => c2.regs[v] = c1.regs[v]
  <2>1. c1.regs[1] = c0.regs[1] /\ c1.regs[4] = c0.regs[4]
    BY <1>7, <1>9
  <2>2. q2 = Total(c1, i) + Product("VMADN", c1.regs[1][i], c1.regs[4][i])
    BY <1>3, <1>6, <1>9, <2>1
  <2>3. Accumulated(c1, c2, "VMADN", q2, 5, i)
    <3>1. NextSum(c1, i, "VMADN", c1.regs[1][i], c1.regs[4][i], q2)
      BY <1>5, <1>7, <1>8, <1>9, <2>2 DEF NextSum, Holdable
    <3>2. "VMADN" \in AccumulateOp
      BY DEF AccumulateOp
    <3>. QED BY <1>9, <3>1, <3>2, Registers, CycleNextProduct
  <2>. QED BY <2>3 DEF Accumulated
<1>11. /\ c3 \in Unit /\ Total(c3, i) = q3
       /\ \A v \in VReg : v # 6 => c3.regs[v] = c2.regs[v]
  <2>1. c2.regs[2] = c0.regs[2] /\ c2.regs[3] = c0.regs[3]
    BY <1>7, <1>9, <1>10
  <2>2. q3 = Total(c2, i) + Product("VMADM", c2.regs[2][i], c2.regs[3][i])
    BY <1>3, <1>6, <1>10, <2>1
  <2>3. Accumulated(c2, c3, "VMADM", q3, 6, i)
    <3>1. NextSum(c2, i, "VMADM", c2.regs[2][i], c2.regs[3][i], q3)
      BY <1>5, <1>7, <1>8, <1>10, <2>2 DEF NextSum, Holdable
    <3>2. "VMADM" \in AccumulateOp
      BY DEF AccumulateOp
    <3>. QED BY <1>10, <3>1, <3>2, Registers, CycleNextProduct
  <2>. QED BY <2>3 DEF Accumulated
<1>12. /\ c4 \in Unit /\ Total(c4, i) = product
       /\ c4.regs[5][i]
            = IF FitsSlice(product \div Base) THEN product % Base ELSE 0
  <2>1. c3.regs[1] = c0.regs[1] /\ c3.regs[3] = c0.regs[3]
    BY <1>7, <1>9, <1>10, <1>11
  <2>2. product = Total(c3, i) + Product("VMADL", c3.regs[1][i], c3.regs[3][i])
    BY <1>3, <1>5, <1>11, <2>1
  <2>3. Accumulated(c3, c4, "VMADL", product, 5, i)
    <3>1. NextSum(c3, i, "VMADL", c3.regs[1][i], c3.regs[3][i], product)
      BY <1>5, <1>7, <1>8, <1>11, <2>2 DEF NextSum, Holdable
    <3>2. "VMADL" \in AccumulateOp
      BY DEF AccumulateOp
    <3>. QED BY <1>11, <3>1, <3>2, Registers, CycleNextProduct
  <2>. QED BY <2>3 DEF Accumulated
<1>. QED BY <1>5, <1>12

\* The three of Accumulator, which read it out, high part first.
LEMMA AccumulatorResult ==
  ASSUME NEW c0 \in Unit, NEW c1, NEW c2, NEW c3, NEW i \in Lane,
         c1 = RSPCycleCP2(c0, V("VSAR", 7, 0, 0, 8)),
         c2 = RSPCycleCP2(c1, V("VSAR", 8, 0, 0, 9)),
         c3 = RSPCycleCP2(c2, V("VSAR", 9, 0, 0, 10))
  PROVE  /\ Pair(c3.regs[7][i], c3.regs[8][i]) * Base + c3.regs[9][i] = Total(c0, i)
         /\ c3.regs[5] = c0.regs[5] /\ c3.regs[6] = c0.regs[6]
<1>1. /\ 5 \in VReg /\ 6 \in VReg /\ 7 \in VReg /\ 8 \in VReg /\ 9 \in VReg
      /\ 8 \in 8 .. 10 /\ 9 \in 8 .. 10 /\ 10 \in 8 .. 10
  BY Registers
<1>2. ReadsPart(c0, c1, 7, c0.accHigh)
  BY <1>1, CycleVSAR
<1>3. c1 \in Unit
  BY <1>2 DEF ReadsPart
<1>4. ReadsPart(c1, c2, 8, c1.accMid)
  BY <1>1, <1>3, CycleVSAR
<1>5. c2 \in Unit
  BY <1>4 DEF ReadsPart
<1>6. ReadsPart(c2, c3, 9, c2.accLow)
  BY <1>1, <1>5, CycleVSAR
<1>7. c3.regs[7] = c0.accHigh /\ c3.regs[8] = c0.accMid /\ c3.regs[9] = c0.accLow
      /\ c3.regs[5] = c0.regs[5] /\ c3.regs[6] = c0.regs[6]
  BY <1>1, <1>2, <1>4, <1>6 DEF ReadsPart
<1>. QED BY <1>7 DEF Total

(***************************************************************************)
(* The history of a program: the unit and the flags before each of its     *)
(* instructions.  That there is one is the invariant; of a program that is *)
(* done it gives the states its results are read off.                      *)
(***************************************************************************)
Loaded ==
  [RSPInitCP2 EXCEPT
     !.regs = [v \in VReg |-> IF v \in 1 .. 4 THEN start[v] ELSE @[v]]]

Executed(s, iw) ==
  CASE RSPDecodeInstruction(iw) = "VECT" ->
         [cp2 |-> RSPCycleCP2(s.cp2, iw), flags |-> s.flags]
    [] RSPDecodeInstruction(iw) = "CFC2" ->
         [cp2 |-> s.cp2, flags |-> [s.flags EXCEPT ![iw.rt] = RSPCFC2(s.cp2, iw.rd)]]
    [] RSPDecodeInstruction(iw) = "CTC2" ->
         [cp2 |-> RSPCTC2(s.cp2, iw.rd, s.flags[iw.rt]), flags |-> s.flags]

State == [cp2 |-> cp2, flags |-> flags]

History(h, p, n) ==
  /\ h[1] = [cp2 |-> Loaded, flags |-> [r \in 1 .. 3 |-> <<{}, {}>>]]
  /\ \A k \in 1 .. n - 1 : h[k + 1] = Executed(h[k], p[k])

Progress ==
  /\ start \in [1 .. 4 -> Vector] /\ pos \in Nat \ {0}
  /\ \E h : History(h, prog, pos) /\ h[pos] = State

\* The state a program starts in is a state of the unit.
LEMMA LoadedTypes ==
  ASSUME start \in [1 .. 4 -> Vector]
  PROVE  /\ Loaded \in Unit /\ Loaded.vcolo = {}
         /\ \A v \in 1 .. 4 : Loaded.regs[v] = start[v]
         /\ Loaded.regs[0] = [i \in Lane |-> 0]
<1>1. \A v \in 1 .. 4 : v \in VReg
  BY Registers
<1>2. [i \in Lane |-> 0] \in Vector
  BY SliceTypes DEF Vector, Slice
<1>3. RSPInitCP2 \in Unit
  BY <1>2 DEF RSPInitCP2, Unit
<1>4. [v \in VReg |-> IF v \in 1 .. 4 THEN start[v] ELSE RSPInitCP2.regs[v]]
        \in [VReg -> Vector]
  BY <1>3 DEF Unit
<1>5. Loaded = [RSPInitCP2 EXCEPT !.regs =
        [v \in VReg |-> IF v \in 1 .. 4 THEN start[v] ELSE RSPInitCP2.regs[v]]]
  BY DEF Loaded
<1>6. Loaded.regs =
        [v \in VReg |-> IF v \in 1 .. 4 THEN start[v] ELSE RSPInitCP2.regs[v]]
  BY <1>3, <1>5 DEF Unit
<1>7. Loaded \in Unit
  BY <1>3, <1>4, <1>5 DEF Unit
<1>8. Loaded.vcolo = {} /\ RSPInitCP2.regs[0] = [i \in Lane |-> 0]
  BY <1>3, <1>5, Registers DEF RSPInitCP2, Unit
<1>. QED BY <1>1, <1>6, <1>7, <1>8, Registers

\* Init is a history of one state.
LEMMA ProgressInit == Init => Progress
<1>. SUFFICES ASSUME Init PROVE Progress
  OBVIOUS
<1>1. start \in [1 .. 4 -> Vector] /\ pos = 1
  BY ProgramsAssumption DEF Init
<1>2. cp2 = Loaded /\ flags = [r \in 1 .. 3 |-> <<{}, {}>>]
  BY DEF Init, Loaded
<1>. DEFINE h == [k \in {1} |-> State]
<1>3. h[1] = State
  OBVIOUS
<1>4. History(h, prog, 1)
  BY <1>2, <1>3 DEF History, State
<1>. QED BY <1>1, <1>3, <1>4 DEF Progress

\* Every instruction that is executed is added to it.
LEMMA ProgressStep == Progress /\ [Next]_vars => Progress'
<1>. SUFFICES ASSUME Progress, [Next]_vars PROVE Progress'
  OBVIOUS
<1>1. start' = start /\ prog' = prog /\ pos \in Nat \ {0} /\ start \in [1 .. 4 -> Vector]
  BY DEF Progress, Next, Vect, FlagsToScalar, FlagsFromScalar, Done, vars
<1>2. PICK h : History(h, prog, pos) /\ h[pos] = State
  BY DEF Progress
<1>3. Loaded' = Loaded
  BY <1>1 DEF Loaded
<1>4. CASE Done \/ UNCHANGED vars
  <2>1. pos' = pos /\ State' = State
    BY <1>4 DEF Done, vars, State
  <2>2. History(h, prog, pos)'
    BY <1>1, <1>2, <1>3, <2>1 DEF History
  <2>. QED BY <1>1, <1>2, <2>1, <2>2 DEF Progress
<1>5. ASSUME pos' = pos + 1, State' = Executed(State, prog[pos])
      PROVE  Progress'
  <2>1. PICK g : g[pos + 1] = State' /\ \A k \in 1 .. pos : g[k] = h[k]
    <3>. DEFINE g == [k \in 1 .. pos + 1 |-> IF k = pos + 1 THEN State' ELSE h[k]]
    <3>1. g[pos + 1] = State' /\ \A k \in 1 .. pos : g[k] = h[k]
      BY <1>1
    <3>. QED BY <3>1
  <2>2. g[1] = h[1]
    BY <1>1, <2>1
  <2>3. ASSUME NEW k \in 1 .. pos PROVE g[k + 1] = Executed(g[k], prog[k])
    <3>1. CASE k = pos
      <4>1. g[pos] = State
        BY <1>1, <1>2, <2>1
      <4>. QED BY <1>5, <2>1, <3>1, <4>1
    <3>2. CASE k < pos
      <4>1. k \in 1 .. pos - 1 /\ k + 1 \in 1 .. pos /\ k \in 1 .. pos
        BY <1>1, <3>2
      <4>. QED BY <1>2, <2>1, <4>1 DEF History
    <3>. QED BY <1>1, <3>1, <3>2
  <2>4. History(g, prog, pos + 1)
    <3>1. (pos + 1) - 1 = pos
      BY <1>1
    <3>. QED BY <1>2, <2>2, <2>3, <3>1 DEF History
  <2>5. History(g, prog, pos)'
    BY <1>1, <1>3, <1>5, <2>4 DEF History
  <2>6. pos' \in Nat \ {0}
    BY <1>1, <1>5
  <2>. QED BY <1>1, <1>5, <2>1, <2>5, <2>6 DEF Progress
<1>6. CASE Vect
  <2>1. /\ State' = [cp2 |-> RSPCycleCP2(cp2, prog[pos]), flags |-> flags]
        /\ State.cp2 = cp2 /\ State.flags = flags
    BY <1>6 DEF Vect, State
  <2>. QED BY <1>5, <1>6, <2>1 DEF Vect, Executed
<1>7. CASE FlagsToScalar
  <2>1. /\ State' = [cp2 |-> cp2, flags |->
                     [flags EXCEPT ![prog[pos].rt] = RSPCFC2(cp2, prog[pos].rd)]]
        /\ State.cp2 = cp2 /\ State.flags = flags
    BY <1>7 DEF FlagsToScalar, State
  <2>. QED BY <1>5, <1>7, <2>1 DEF FlagsToScalar, Executed
<1>8. CASE FlagsFromScalar
  <2>1. /\ State' = [cp2 |-> RSPCTC2(cp2, prog[pos].rd, flags[prog[pos].rt]),
                     flags |-> flags]
        /\ State.cp2 = cp2 /\ State.flags = flags
    BY <1>8 DEF FlagsFromScalar, State
  <2>. QED BY <1>5, <1>8, <2>1 DEF FlagsFromScalar, Executed
<1>. QED BY <1>4, <1>6, <1>7, <1>8 DEF Next

\* The invariant.
LEMMA ProgressHolds == Spec => []Progress
BY ProgressInit, ProgressStep, PTL DEF Spec

\* A program of vector instructions only is a chain of cycles.
Chain(c, p) ==
  /\ c[1] = Loaded
  /\ \A k \in 1 .. Len(p) : c[k + 1] = RSPCycleCP2(c[k], p[k])
  /\ c[Len(p) + 1] = cp2

\* A program that has ended was such a chain, from the registers of start.
LEMMA Finished ==
  ASSUME Progress, NEW p, After(p), Len(p) \in Nat,
         \A k \in 1 .. Len(p) : RSPDecodeInstruction(p[k]) = "VECT"
  PROVE  /\ start \in [1 .. 4 -> Vector] /\ Loaded \in Unit
         /\ \A v \in 1 .. 4 : Loaded.regs[v] = start[v]
         /\ \E c : Chain(c, p)
<1>1. start \in [1 .. 4 -> Vector] /\ prog = p /\ pos = Len(p) + 1
  BY DEF Progress, After
<1>2. PICK h : History(h, p, Len(p) + 1) /\ h[Len(p) + 1] = State
  BY <1>1 DEF Progress
<1>. DEFINE n == Len(p)
            c == [k \in 1 .. n + 1 |-> h[k].cp2]
<1>3. n \in Nat /\ (n + 1) - 1 = n
  OBVIOUS
<1>4. h[1].cp2 = Loaded
  BY <1>2 DEF History
<1>5. ASSUME NEW k \in 1 .. n PROVE h[k + 1].cp2 = RSPCycleCP2(h[k].cp2, p[k])
  <2>1. h[k + 1] = Executed(h[k], p[k])
    BY <1>2, <1>3 DEF History
  <2>. QED BY <2>1 DEF Executed
<1>6. h[n + 1].cp2 = cp2
  BY <1>2 DEF State
<1>. HIDE DEF n
<1>7. c[1] = Loaded /\ c[n + 1] = cp2
  BY <1>3, <1>4, <1>6
<1>8. \A k \in 1 .. n : c[k + 1] = RSPCycleCP2(c[k], p[k])
  BY <1>3, <1>5
<1>. QED BY <1>1, <1>7, <1>8, LoadedTypes DEF Chain, n

\* Programs of two instructions.
LEMMA TwoCycles ==
  ASSUME Progress, NEW p, After(p), NEW x, NEW y, p = <<x, y>>,
         \A iw \in {x, y} : RSPDecodeInstruction(iw) = "VECT"
  PROVE  /\ start \in [1 .. 4 -> Vector] /\ Loaded \in Unit
         /\ \A v \in 1 .. 4 : Loaded.regs[v] = start[v]
         /\ \E c1 : c1 = RSPCycleCP2(Loaded, x) /\ cp2 = RSPCycleCP2(c1, y)
<1>1. Len(p) = 2 /\ p[1] = x /\ p[2] = y
  OBVIOUS
<1>2. \A k \in 1 .. 2 : RSPDecodeInstruction(p[k]) = "VECT"
  BY <1>1
<1>3. /\ start \in [1 .. 4 -> Vector] /\ Loaded \in Unit
      /\ \A v \in 1 .. 4 : Loaded.regs[v] = start[v]
      /\ \E c : Chain(c, p)
  BY <1>1, <1>2, Finished
<1>4. PICK c : Chain(c, p)
  BY <1>3
<1>5. c[2] = RSPCycleCP2(Loaded, x) /\ cp2 = RSPCycleCP2(c[2], y)
  BY <1>1, <1>4 DEF Chain
<1>. QED BY <1>3, <1>5

\* Programs of three instructions.
LEMMA ThreeCycles ==
  ASSUME Progress, NEW p, After(p), NEW x, NEW y, NEW z, p = <<x, y, z>>,
         \A iw \in {x, y, z} : RSPDecodeInstruction(iw) = "VECT"
  PROVE  /\ start \in [1 .. 4 -> Vector] /\ Loaded \in Unit
         /\ \A v \in 1 .. 4 : Loaded.regs[v] = start[v]
         /\ \E c1, c2 : /\ c1 = RSPCycleCP2(Loaded, x)
                        /\ c2 = RSPCycleCP2(c1, y)
                        /\ cp2 = RSPCycleCP2(c2, z)
<1>1. Len(p) = 3 /\ p[1] = x /\ p[2] = y /\ p[3] = z
  OBVIOUS
<1>2. \A k \in 1 .. 3 : RSPDecodeInstruction(p[k]) = "VECT"
  BY <1>1
<1>3. /\ start \in [1 .. 4 -> Vector] /\ Loaded \in Unit
      /\ \A v \in 1 .. 4 : Loaded.regs[v] = start[v]
      /\ \E c : Chain(c, p)
  BY <1>1, <1>2, Finished
<1>4. PICK c : Chain(c, p)
  BY <1>3
<1>5. /\ c[2] = RSPCycleCP2(Loaded, x) /\ c[3] = RSPCycleCP2(c[2], y)
      /\ cp2 = RSPCycleCP2(c[3], z)
  BY <1>1, <1>4 DEF Chain
<1>. QED BY <1>3, <1>5

\* For every width of a slice and every start: VADDC with VADD and VSUBC with
\* VSUB add and subtract numbers of two slices, the high half saturated once,
\* and use the carry up (RSPVADDC, RSPVADD, RSPVSUBC, RSPVSUB).
THEOREM WideArithmeticProved == Spec => []WideArithmetic
<1>1. Progress => WideArithmetic
  <2>. SUFFICES ASSUME Progress, NEW i \in Lane
                PROVE  /\ After(WideSum) =>
                            /\ Reg(5, i) = (A(i) + B(i)) % Base
                            /\ Reg(6, i) = Wrap(Sat((A(i) + B(i)) \div Base))
                            /\ Reg(7, i)
                                 = Wrap(Sat(Signed(start[1][i]) + Signed(start[3][i])))
                       /\ After(WideDifference) =>
                            /\ Reg(5, i) = (A(i) - B(i)) % Base
                            /\ Reg(6, i) = Wrap(Sat((A(i) - B(i)) \div Base))
                            /\ Reg(7, i)
                                 = Wrap(Sat(Signed(start[1][i]) - Signed(start[3][i])))
    BY DEF WideArithmetic
  <2>1. ASSUME After(WideSum)
        PROVE  /\ Reg(5, i) = (A(i) + B(i)) % Base
               /\ Reg(6, i) = Wrap(Sat((A(i) + B(i)) \div Base))
               /\ Reg(7, i) = Wrap(Sat(Signed(start[1][i]) + Signed(start[3][i])))
    <3>. DEFINE x == V("VADDC", 5, 1, 3, 0)
                y == V("VADD", 6, 2, 4, 0)
                z == V("VADD", 7, 1, 3, 0)
    <3>1. WideSum = <<x, y, z>>
          /\ \A iw \in {x, y, z} : RSPDecodeInstruction(iw) = "VECT"
      BY Assembled DEF WideSum, ProvedOp
    <3>. HIDE DEF x, y, z
    <3>2. /\ start \in [1 .. 4 -> Vector] /\ Loaded \in Unit
          /\ \A v \in 1 .. 4 : Loaded.regs[v] = start[v]
          /\ \E c1, c2 : /\ c1 = RSPCycleCP2(Loaded, x) /\ c2 = RSPCycleCP2(c1, y)
                         /\ cp2 = RSPCycleCP2(c2, z)
      BY <2>1, <3>1, ThreeCycles
    <3>3. /\ A(i) = Pair(Loaded.regs[2][i], Loaded.regs[1][i])
          /\ B(i) = Pair(Loaded.regs[4][i], Loaded.regs[3][i])
      BY <3>2 DEF A, B
    <3>4. /\ cp2.regs[5][i] = (A(i) + B(i)) % Base
          /\ cp2.regs[6][i] = Wrap(Sat((A(i) + B(i)) \div Base))
          /\ cp2.regs[7][i]
               = Wrap(Sat(Signed(Loaded.regs[1][i]) + Signed(Loaded.regs[3][i])))
      BY <3>2, <3>3, WideSumResult DEF x, y, z
    <3>. QED BY <3>2, <3>4 DEF Reg
  <2>2. ASSUME After(WideDifference)
        PROVE  /\ Reg(5, i) = (A(i) - B(i)) % Base
               /\ Reg(6, i) = Wrap(Sat((A(i) - B(i)) \div Base))
               /\ Reg(7, i) = Wrap(Sat(Signed(start[1][i]) - Signed(start[3][i])))
    <3>. DEFINE x == V("VSUBC", 5, 1, 3, 0)
                y == V("VSUB", 6, 2, 4, 0)
                z == V("VSUB", 7, 1, 3, 0)
    <3>1. WideDifference = <<x, y, z>>
          /\ \A iw \in {x, y, z} : RSPDecodeInstruction(iw) = "VECT"
      BY Assembled DEF WideDifference, ProvedOp
    <3>. HIDE DEF x, y, z
    <3>2. /\ start \in [1 .. 4 -> Vector] /\ Loaded \in Unit
          /\ \A v \in 1 .. 4 : Loaded.regs[v] = start[v]
          /\ \E c1, c2 : /\ c1 = RSPCycleCP2(Loaded, x) /\ c2 = RSPCycleCP2(c1, y)
                         /\ cp2 = RSPCycleCP2(c2, z)
      BY <2>2, <3>1, ThreeCycles
    <3>3. /\ A(i) = Pair(Loaded.regs[2][i], Loaded.regs[1][i])
          /\ B(i) = Pair(Loaded.regs[4][i], Loaded.regs[3][i])
      BY <3>2 DEF A, B
    <3>4. /\ cp2.regs[5][i] = (A(i) - B(i)) % Base
          /\ cp2.regs[6][i] = Wrap(Sat((A(i) - B(i)) \div Base))
          /\ cp2.regs[7][i]
               = Wrap(Sat(Signed(Loaded.regs[1][i]) - Signed(Loaded.regs[3][i])))
      BY <3>2, <3>3, WideDifferenceResult DEF x, y, z
    <3>. QED BY <3>2, <3>4 DEF Reg
  <2>. QED BY <2>1, <2>2
<1>. QED BY <1>1, ProgressHolds, PTL

\* For every width of a slice and every start: a comparison after VSUBC compares
\* numbers of two slices, and VMRG selects the low half of the same number
\* (RSPVSUBC, RSPVLT, RSPVGE, RSPVEQ, RSPVNE, RSPVMRG).
THEOREM WideComparisonProved == Spec => []WideComparison
<1>1. Progress => WideComparison
  <2>. SUFFICES ASSUME Progress, NEW i \in Lane, NEW op \in SelectOp,
                       After(Comparison(op))
                PROVE  /\ i \in cp2.vccLe <=> Holds(op, A(i), B(i))
                       /\ Pair(Reg(6, i), Reg(7, i))
                            = IF Holds(op, A(i), B(i)) THEN A(i) ELSE B(i)
    BY DEF WideComparison, Holds
  <2>. DEFINE x == V("VSUBC", 5, 1, 3, 0)
              y == V(op, 6, 2, 4, 0)
              z == V("VMRG", 7, 1, 3, 0)
  <2>1. Comparison(op) = <<x, y, z>>
        /\ \A iw \in {x, y, z} : RSPDecodeInstruction(iw) = "VECT"
    <3>1. {"VSUBC", op, "VMRG"} \subseteq ProvedOp \cup {"VSAR"} /\ 0 \in 0 .. 15
      BY DEF ProvedOp
    <3>2. /\ RSPDecodeInstruction(x) = "VECT" /\ RSPDecodeInstruction(y) = "VECT"
          /\ RSPDecodeInstruction(z) = "VECT"
      BY <3>1, Assembled
    <3>3. Comparison(op) = <<x, y, z>>
      BY DEF Comparison
    <3>. HIDE DEF x, y, z
    <3>. QED BY <3>2, <3>3
  <2>. HIDE DEF x, y, z
  <2>2. /\ start \in [1 .. 4 -> Vector] /\ Loaded \in Unit
        /\ \A v \in 1 .. 4 : Loaded.regs[v] = start[v]
        /\ \E c1, c2 : /\ c1 = RSPCycleCP2(Loaded, x) /\ c2 = RSPCycleCP2(c1, y)
                       /\ cp2 = RSPCycleCP2(c2, z)
    BY <2>1, ThreeCycles
  <2>3. /\ A(i) = Pair(Loaded.regs[2][i], Loaded.regs[1][i])
        /\ B(i) = Pair(Loaded.regs[4][i], Loaded.regs[3][i])
    BY <2>2 DEF A, B
  <2>4. /\ i \in cp2.vccLe <=> Holds(op, A(i), B(i))
        /\ Pair(cp2.regs[6][i], cp2.regs[7][i])
             = IF Holds(op, A(i), B(i)) THEN A(i) ELSE B(i)
    BY <2>2, <2>3, ComparisonResult DEF x, y, z
  <2>. QED BY <2>4 DEF Reg
<1>. QED BY <1>1, ProgressHolds, PTL

\* For every width of a slice and every start: VABS after VSUB gives the
\* distance of two slices, cut at the largest number (RSPVSUB, RSPVABS).
THEOREM DistancesProved == Spec => []Distances
<1>1. Progress => Distances
  <2>. SUFFICES ASSUME Progress, NEW i \in Lane, After(Distance),
                       NEW s, s = Signed(start[1][i]), NEW t, t = Signed(start[3][i])
                PROVE  Reg(6, i) = MinOf(MaxOf(s - t, -(s - t)), Half - 1)
    BY DEF Distances
  <2>. DEFINE x == V("VSUB", 5, 1, 3, 0)
              y == V("VABS", 6, 5, 5, 0)
  <2>1. RSPDecodeInstruction(x) = "VECT" /\ RSPDecodeInstruction(y) = "VECT"
    BY Assembled DEF ProvedOp
  <2>2. Distance = <<x, y>>
    BY DEF Distance
  <2>. HIDE DEF x, y
  <2>3. \A iw \in {x, y} : RSPDecodeInstruction(iw) = "VECT"
    BY <2>1
  <2>4. /\ start \in [1 .. 4 -> Vector] /\ Loaded \in Unit
        /\ \A v \in 1 .. 4 : Loaded.regs[v] = start[v]
        /\ \E c1 : c1 = RSPCycleCP2(Loaded, x) /\ cp2 = RSPCycleCP2(c1, y)
    BY <2>2, <2>3, TwoCycles
  <2>5. PICK c1 : c1 = RSPCycleCP2(Loaded, x) /\ cp2 = RSPCycleCP2(c1, y)
    BY <2>4
  <2>6. /\ s \in Int /\ -Half <= s /\ s < Half /\ t \in Int /\ -Half <= t /\ t < Half
        /\ Half \in Nat \ {0}
    <3>1. start[1] \in Vector /\ start[3] \in Vector
      BY <2>4
    <3>. QED BY <3>1, VectorTypes, HalfPositive
  <2>. DEFINE z == Sat(s - t)
  <2>7. z \in Int /\ -Half <= z /\ z < Half
    BY <2>6 DEF Sat
  <2>8. c1 \in Unit /\ c1.regs[5][i] = Wrap(z)
    <3>1. SubtractsHigh(Loaded, c1, 5, 1, 3)
      BY <2>4, <2>5, Registers, CycleVSUB DEF x
    <3>2. Carry(Loaded, i) = 0
      BY <2>4, LoadedTypes DEF Carry
    <3>3. s - t - 0 = s - t
      BY <2>6
    <3>. QED BY <2>4, <3>1, <3>2, <3>3 DEF SubtractsHigh
  <2>9. cp2.regs[6][i] = Absolute(z, z)
    <3>1. cp2.regs[6][i] = Absolute(Signed(c1.regs[5][i]), Signed(c1.regs[5][i]))
      <4>1. cp2 = RSPCycleCP2(c1, V("VABS", 6, 5, 5, 0)) /\ c1 \in Unit
        BY <2>5, <2>8 DEF y
      <4>2. 5 \in VReg /\ 6 \in VReg
        BY Registers
      <4>. QED BY <4>1, <4>2, CycleVABS
    <3>. QED BY <2>7, <2>8, <3>1, SignedSlice
  <2>10. Absolute(z, z) = MinOf(MaxOf(z, -z), Half - 1)
    <3>. HIDE DEF z
    <3>1. \A k \in Int : 0 <= k /\ k < Half => Wrap(k) = k
      BY <2>6, SliceTypes DEF Slice
    <3>. QED BY <2>6, <2>7, <3>1 DEF Absolute, MinOf, MaxOf
  <2>11. MinOf(MaxOf(z, -z), Half - 1) = MinOf(MaxOf(s - t, -(s - t)), Half - 1)
    BY <2>6 DEF Sat, MinOf, MaxOf
  <2>. QED BY <2>9, <2>10, <2>11 DEF Reg
<1>. QED BY <1>1, ProgressHolds, PTL

\* For every width of a slice and every start: VCR keeps a number whose sign is
\* not that of the bound above the bound's complement (RSPVCR).
THEOREM CrimpsFromBelowProved == Spec => []CrimpsFromBelow
<1>1. Progress => CrimpsFromBelow
  <2>. SUFFICES ASSUME Progress, After(Crimp), NEW i \in Lane,
                       i \in SignsDiffer(start[1], start[3]),
                       NEW s, s = Signed(start[1][i]), NEW t, t = Signed(start[3][i])
                PROVE  Signed(Reg(5, i)) = MaxOf(s, -1 - t)
    BY DEF CrimpsFromBelow
  <2>. DEFINE x == V("VCR", 5, 1, 3, 0)
  <2>1. RSPDecodeInstruction(x) = "VECT"
    BY Assembled DEF ProvedOp
  <2>2. Crimp = <<x>>
    BY DEF Crimp
  <2>. HIDE DEF x
  <2>3. Len(Crimp) = 1 /\ Crimp[1] = x
    BY <2>2
  <2>4. /\ start \in [1 .. 4 -> Vector] /\ Loaded \in Unit
        /\ Loaded.regs[1] = start[1] /\ Loaded.regs[3] = start[3]
        /\ \E c : Chain(c, Crimp)
    <3>1. \A k \in 1 .. Len(Crimp) : RSPDecodeInstruction(Crimp[k]) = "VECT"
      BY <2>1, <2>3
    <3>. QED BY <2>3, <3>1, Finished
  <2>5. cp2 = RSPCycleCP2(Loaded, x)
    <3>1. PICK c : Chain(c, Crimp)
      BY <2>4
    <3>. QED BY <2>3, <3>1 DEF Chain
  <2>6. /\ s \in Int /\ -Half <= s /\ s < Half /\ t \in Int /\ -Half <= t /\ t < Half
        /\ start[3][i] \in Slice /\ start[1][i] \in Slice
        /\ Half \in Nat \ {0} /\ Base = 2 * Half
    <3>1. start[1] \in Vector /\ start[3] \in Vector
      BY <2>4
    <3>. QED BY <3>1, VectorTypes, HalfPositive, SliceTypes
  <2>7. Reg(5, i) = IF s + t < 0 THEN Not(start[3][i]) ELSE start[1][i]
    BY <2>4, <2>5, Registers, CycleVCR DEF x, Reg
  <2>8. Signed(Not(start[3][i])) = -1 - t
    BY <2>6 DEF Signed, Not, Slice
  <2>. QED BY <2>6, <2>7, <2>8 DEF MaxOf
<1>. QED BY <1>1, ProgressHolds, PTL

\* For every width of a slice and every start: a number of two slices times an
\* unsigned fraction is exact, times an integer its high half is saturated, and
\* a fraction times a signed slice comes out the same both ways round
\* (RSPVMUDL, RSPVMUDM, RSPVMUDN, RSPVMADM, RSPVMADN, RSPVMADH, RSPVSAR).
THEOREM ScaledProductsProved == Spec => []ScaledProducts
<1>1. Progress => ScaledProducts
  <2>. SUFFICES ASSUME Progress, NEW i \in Lane
                PROVE  /\ After(TimesFraction) =>
                            Pair(Reg(6, i), Reg(5, i)) = (A(i) * start[3][i]) \div Base
                       /\ After(TimesInteger) =>
                            LET product == A(i) * Signed(start[3][i]) IN
                            /\ Reg(6, i) = Wrap(Sat(product \div Base))
                            /\ SignedPair(product) = product =>
                                 Reg(5, i) = product % Base
                       /\ After(MixedFractions) =>
                            /\ Reg(5, i) = Reg(6, i)
                            /\ Signed(Reg(5, i))
                                 = (Signed(start[1][i]) * start[3][i]) \div Base
    BY DEF ScaledProducts
  <2>1. ASSUME After(TimesFraction)
        PROVE  Pair(Reg(6, i), Reg(5, i)) = (A(i) * start[3][i]) \div Base
    <3>. DEFINE x == V("VMUDL", 5, 1, 3, 0)
                y == V("VMADM", 6, 2, 3, 0)
                z == V("VMADN", 5, 0, 0, 0)
    <3>1. {"VMUDL", "VMADM", "VMADN"} \subseteq ProvedOp \cup {"VSAR"} /\ 0 \in 0 .. 15
      BY DEF ProvedOp, MultiplyOp, AccumulateOp
    <3>2. /\ RSPDecodeInstruction(x) = "VECT" /\ RSPDecodeInstruction(y) = "VECT"
          /\ RSPDecodeInstruction(z) = "VECT"
      BY <3>1, Assembled
    <3>3. TimesFraction = <<x, y, z>>
      BY DEF TimesFraction
    <3>. HIDE DEF x, y, z
    <3>4. \A iw \in {x, y, z} : RSPDecodeInstruction(iw) = "VECT"
      BY <3>2
    <3>5. /\ start \in [1 .. 4 -> Vector] /\ Loaded \in Unit
          /\ \A v \in 1 .. 4 : Loaded.regs[v] = start[v]
          /\ \E c1, c2 : /\ c1 = RSPCycleCP2(Loaded, x) /\ c2 = RSPCycleCP2(c1, y)
                         /\ cp2 = RSPCycleCP2(c2, z)
      BY <2>1, <3>3, <3>4, ThreeCycles
    <3>6. Loaded.regs[0] = [j \in Lane |-> 0]
      BY <3>5, LoadedTypes
    <3>7. A(i) = Pair(Loaded.regs[2][i], Loaded.regs[1][i])
          /\ start[3][i] = Loaded.regs[3][i]
      BY <3>5 DEF A
    <3>8. Pair(cp2.regs[6][i], cp2.regs[5][i]) = (A(i) * Loaded.regs[3][i]) \div Base
      BY <3>5, <3>6, <3>7, TimesFractionResult DEF x, y, z
    <3>. QED BY <3>7, <3>8 DEF Reg
  <2>2. ASSUME After(TimesInteger), NEW product,
               product = A(i) * Signed(start[3][i])
        PROVE  /\ Reg(6, i) = Wrap(Sat(product \div Base))
               /\ SignedPair(product) = product => Reg(5, i) = product % Base
    <3>. DEFINE x == V("VMUDN", 5, 1, 3, 0)
                y == V("VMADH", 6, 2, 3, 0)
                z == V("VMADN", 5, 0, 0, 0)
    <3>1. {"VMUDN", "VMADH", "VMADN"} \subseteq ProvedOp \cup {"VSAR"} /\ 0 \in 0 .. 15
      BY DEF ProvedOp, MultiplyOp, AccumulateOp
    <3>2. /\ RSPDecodeInstruction(x) = "VECT" /\ RSPDecodeInstruction(y) = "VECT"
          /\ RSPDecodeInstruction(z) = "VECT"
      BY <3>1, Assembled
    <3>3. TimesInteger = <<x, y, z>>
      BY DEF TimesInteger
    <3>. HIDE DEF x, y, z
    <3>4. \A iw \in {x, y, z} : RSPDecodeInstruction(iw) = "VECT"
      BY <3>2
    <3>5. /\ start \in [1 .. 4 -> Vector] /\ Loaded \in Unit
          /\ \A v \in 1 .. 4 : Loaded.regs[v] = start[v]
          /\ \E c1, c2 : /\ c1 = RSPCycleCP2(Loaded, x) /\ c2 = RSPCycleCP2(c1, y)
                         /\ cp2 = RSPCycleCP2(c2, z)
      BY <2>2, <3>3, <3>4, ThreeCycles
    <3>6. Loaded.regs[0] = [j \in Lane |-> 0]
      BY <3>5, LoadedTypes
    <3>7. product
            = Pair(Loaded.regs[2][i], Loaded.regs[1][i]) * Signed(Loaded.regs[3][i])
      BY <2>2, <3>5 DEF A
    <3>8. /\ cp2.regs[6][i] = Wrap(Sat(product \div Base))
          /\ SignedPair(product) = product => cp2.regs[5][i] = product % Base
      BY <3>5, <3>6, <3>7, TimesIntegerResult DEF x, y, z
    <3>. QED BY <3>8 DEF Reg
  <2>3. ASSUME After(MixedFractions)
        PROVE  /\ Reg(5, i) = Reg(6, i)
               /\ Signed(Reg(5, i)) = (Signed(start[1][i]) * start[3][i]) \div Base
    <3>. DEFINE x == V("VMUDM", 5, 1, 3, 0)
                y == V("VMUDN", 7, 3, 1, 0)
                z == V("VSAR", 6, 0, 0, 9)
    <3>1. {"VMUDM", "VMUDN", "VSAR"} \subseteq ProvedOp \cup {"VSAR"}
          /\ 0 \in 0 .. 15 /\ 9 \in 0 .. 15
      BY DEF ProvedOp, MultiplyOp, AccumulateOp
    <3>2. /\ RSPDecodeInstruction(x) = "VECT" /\ RSPDecodeInstruction(y) = "VECT"
          /\ RSPDecodeInstruction(z) = "VECT"
      BY <3>1, Assembled
    <3>3. MixedFractions = <<x, y, z>>
      BY DEF MixedFractions
    <3>. HIDE DEF x, y, z
    <3>4. \A iw \in {x, y, z} : RSPDecodeInstruction(iw) = "VECT"
      BY <3>2
    <3>5. /\ start \in [1 .. 4 -> Vector] /\ Loaded \in Unit
          /\ \A v \in 1 .. 4 : Loaded.regs[v] = start[v]
          /\ \E c1, c2 : /\ c1 = RSPCycleCP2(Loaded, x) /\ c2 = RSPCycleCP2(c1, y)
                         /\ cp2 = RSPCycleCP2(c2, z)
      BY <2>3, <3>3, <3>4, ThreeCycles
    <3>6. /\ cp2.regs[5][i] = cp2.regs[6][i]
          /\ Signed(cp2.regs[5][i])
               = (Signed(Loaded.regs[1][i]) * Loaded.regs[3][i]) \div Base
      BY <3>5, MixedFractionsResult DEF x, y, z
    <3>. QED BY <3>5, <3>6 DEF Reg
  <2>. QED BY <2>1, <2>2, <2>3
<1>. QED BY <1>1, ProgressHolds, PTL

\* For every width of a slice and every start: the sum of two products of
\* fractions is rounded once and saturated, to a signed or to an unsigned slice
\* (RSPVMULF, RSPVMACF, RSPVMULU, RSPVMACU).
THEOREM FractionSumsProved == Spec => []FractionSums
<1>1. Progress => FractionSums
  <2>. SUFFICES ASSUME Progress, NEW i \in Lane,
                       start[1][i] # Half \/ start[3][i] # Half,
                       start[2][i] # Half \/ start[4][i] # Half,
                       NEW p, p = 2 * Signed(start[1][i]) * Signed(start[3][i]),
                       NEW q, q = 2 * Signed(start[2][i]) * Signed(start[4][i])
                PROVE  /\ After(FractionSum) =>
                            Reg(6, i) = Wrap(Sat((p + q + Half) \div Base))
                       /\ After(UnsignedFractionSum) =>
                            /\ Reg(5, i) = Unsigned((p + Half) \div Base)
                            /\ Reg(6, i) = Unsigned((p + q + Half) \div Base)
    BY DEF FractionSums, Unsigned
  <2>0. {"VMULF", "VMACF", "VMULU", "VMACU"} \subseteq ProvedOp \cup {"VSAR"}
        /\ 0 \in 0 .. 15
    BY DEF ProvedOp, MultiplyOp, AccumulateOp
  <2>1. ASSUME After(FractionSum)
        PROVE  Reg(6, i) = Wrap(Sat((p + q + Half) \div Base))
    <3>. DEFINE x == V("VMULF", 5, 1, 3, 0)
                y == V("VMACF", 6, 2, 4, 0)
    <3>1. RSPDecodeInstruction(x) = "VECT" /\ RSPDecodeInstruction(y) = "VECT"
      BY <2>0, Assembled
    <3>2. FractionSum = <<x, y>>
      BY DEF FractionSum
    <3>. HIDE DEF x, y
    <3>3. \A iw \in {x, y} : RSPDecodeInstruction(iw) = "VECT"
      BY <3>1
    <3>4. /\ Loaded \in Unit
          /\ \A v \in 1 .. 4 : Loaded.regs[v] = start[v]
          /\ \E c1 : c1 = RSPCycleCP2(Loaded, x) /\ cp2 = RSPCycleCP2(c1, y)
      BY <2>1, <3>2, <3>3, TwoCycles
    <3>5. Loaded.regs[1] = start[1] /\ Loaded.regs[2] = start[2]
          /\ Loaded.regs[3] = start[3] /\ Loaded.regs[4] = start[4]
      BY <3>4
    <3>6. cp2.regs[6][i] = Wrap(Sat((p + q + Half) \div Base))
      BY <3>4, <3>5, FractionSumResult DEF x, y
    <3>. QED BY <3>6 DEF Reg
  <2>2. ASSUME After(UnsignedFractionSum)
        PROVE  /\ Reg(5, i) = Unsigned((p + Half) \div Base)
               /\ Reg(6, i) = Unsigned((p + q + Half) \div Base)
    <3>. DEFINE x == V("VMULU", 5, 1, 3, 0)
                y == V("VMACU", 6, 2, 4, 0)
    <3>1. RSPDecodeInstruction(x) = "VECT" /\ RSPDecodeInstruction(y) = "VECT"
      BY <2>0, Assembled
    <3>2. UnsignedFractionSum = <<x, y>>
      BY DEF UnsignedFractionSum
    <3>. HIDE DEF x, y
    <3>3. \A iw \in {x, y} : RSPDecodeInstruction(iw) = "VECT"
      BY <3>1
    <3>4. /\ Loaded \in Unit
          /\ \A v \in 1 .. 4 : Loaded.regs[v] = start[v]
          /\ \E c1 : c1 = RSPCycleCP2(Loaded, x) /\ cp2 = RSPCycleCP2(c1, y)
      BY <2>2, <3>2, <3>3, TwoCycles
    <3>5. Loaded.regs[1] = start[1] /\ Loaded.regs[2] = start[2]
          /\ Loaded.regs[3] = start[3] /\ Loaded.regs[4] = start[4]
      BY <3>4
    <3>6. /\ cp2.regs[5][i] = Unsigned((p + Half) \div Base)
          /\ cp2.regs[6][i] = Unsigned((p + q + Half) \div Base)
      BY <3>4, <3>5, FractionSumResult DEF x, y
    <3>. QED BY <3>6 DEF Reg
  <2>. QED BY <2>1, <2>2
<1>. QED BY <1>1, ProgressHolds, PTL

\* A sequence is another two put together.
IsAppended(w, s, t) ==
  /\ Len(w) = Len(s) + Len(t)
  /\ \A k \in 1 .. Len(s) : w[k] = s[k]
  /\ \A k \in 1 .. Len(t) : w[Len(s) + k] = t[k]

\* So is what puts them together.
LEMMA Appended ==
  ASSUME NEW S, NEW s \in Seq(S), NEW t \in Seq(S)
  PROVE  IsAppended(s \o t, s, t)
  BY DEF IsAppended

\* For every width of a slice and every start: the partial products of two
\* numbers of two slices add up to their product in the accumulator, in either
\* order, and the result is that, or saturated (RSPVMUDL, RSPVMADM, RSPVMADN,
\* RSPVMADH, RSPVMUDH, RSPVMADL, RSPClampLowToVal, RSPVSAR).
THEOREM WideProductsProved == Spec => []WideProducts
<1>. DEFINE r1 == V("VSAR", 7, 0, 0, 8)
            r2 == V("VSAR", 8, 0, 0, 9)
            r3 == V("VSAR", 9, 0, 0, 10)
<1>0. /\ {"VMUDL", "VMADM", "VMADN", "VMADH", "VMUDH", "VMADL", "VSAR"}
           \subseteq ProvedOp \cup {"VSAR"}
      /\ 0 \in 0 .. 15 /\ 8 \in 0 .. 15 /\ 9 \in 0 .. 15 /\ 10 \in 0 .. 15
  BY DEF ProvedOp, MultiplyOp, AccumulateOp
<1>1. /\ RSPDecodeInstruction(r1) = "VECT" /\ RSPDecodeInstruction(r2) = "VECT"
      /\ RSPDecodeInstruction(r3) = "VECT"
  BY <1>0, Assembled
<1>2. Accumulator = <<r1, r2, r3>>
  BY DEF Accumulator
<1>. HIDE DEF r1, r2, r3
<1>3. Progress => WideProducts
  <2>. SUFFICES ASSUME Progress, NEW i \in Lane,
                       NEW product, product = (A(i) * B(i)) \div Base
                PROVE  /\ After(WideProduct) =>
                            /\ AccumulatorRead(i) = product
                            /\ SignedPair(product) = product =>
                                 Pair(Reg(6, i), Reg(5, i)) = product
                            /\ SignedPair(product) # product /\ product < 0 =>
                                 Pair(Reg(6, i), Reg(5, i)) = -(Half * Base)
                            /\ SignedPair(product) # product /\ product > 0 =>
                                 Reg(6, i) = Half - 1
                       /\ After(ProductFromTop) =>
                            /\ AccumulatorRead(i) = product
                            /\ SignedPair(product) = product =>
                                 Reg(5, i) = product % Base
    BY DEF WideProducts
  <2>1. ASSUME After(WideProduct)
        PROVE  /\ AccumulatorRead(i) = product
               /\ SignedPair(product) = product =>
                    Pair(Reg(6, i), Reg(5, i)) = product
               /\ SignedPair(product) # product /\ product < 0 =>
                    Pair(Reg(6, i), Reg(5, i)) = -(Half * Base)
               /\ SignedPair(product) # product /\ product > 0 =>
                    Reg(6, i) = Half - 1
    <3>. DEFINE m1 == V("VMUDL", 5, 1, 3, 0)
                m2 == V("VMADM", 5, 2, 3, 0)
                m3 == V("VMADN", 5, 1, 4, 0)
                m4 == V("VMADH", 6, 2, 4, 0)
                m5 == V("VMADN", 5, 0, 0, 0)
                p == WideProduct
    <3>1. /\ RSPDecodeInstruction(m1) = "VECT" /\ RSPDecodeInstruction(m2) = "VECT"
          /\ RSPDecodeInstruction(m3) = "VECT" /\ RSPDecodeInstruction(m4) = "VECT"
          /\ RSPDecodeInstruction(m5) = "VECT"
      BY <1>0, Assembled
    <3>2. WideProduct = <<m1, m2, m3, m4, m5>> \o <<r1, r2, r3>>
      BY <1>2 DEF WideProduct
    <3>. HIDE DEF m1, m2, m3, m4, m5
    <3>3. /\ Len(p) = 8 /\ p[1] = m1 /\ p[2] = m2 /\ p[3] = m3 /\ p[4] = m4
          /\ p[5] = m5 /\ p[6] = r1 /\ p[7] = r2 /\ p[8] = r3
      <4>. DEFINE S == {m1, m2, m3, m4, m5, r1, r2, r3}
                  s == <<m1, m2, m3, m4, m5>>
                  t == <<r1, r2, r3>>
      <4>1. s \in Seq(S) /\ t \in Seq(S) /\ Len(s) = 5 /\ Len(t) = 3
        OBVIOUS
      <4>2. /\ s[1] = m1 /\ s[2] = m2 /\ s[3] = m3 /\ s[4] = m4 /\ s[5] = m5
            /\ t[1] = r1 /\ t[2] = r2 /\ t[3] = r3
        OBVIOUS
      <4>3. p = s \o t
        BY <3>2
      <4>. HIDE DEF S, s, t, p
      <4>4. /\ Len(p) = 5 + 3
            /\ \A k \in 1 .. 5 : p[k] = s[k]
            /\ \A k \in 1 .. 3 : p[5 + k] = t[k]
        <5>1. IsAppended(p, s, t)
          BY <4>1, <4>3, Appended
        <5>. QED BY <5>1, <4>1 DEF IsAppended
      <4>5. p[5 + 1] = t[1] /\ p[5 + 2] = t[2] /\ p[5 + 3] = t[3]
        BY <4>4
      <4>. QED BY <4>2, <4>4, <4>5
    <3>. HIDE DEF p
    <3>4. Len(p) = 8 /\ \A k \in 1 .. 8 : RSPDecodeInstruction(p[k]) = "VECT"
      <4>1. \A k \in 1 .. 8 : \/ k = 1 \/ k = 2 \/ k = 3 \/ k = 4
                            \/ k = 5 \/ k = 6 \/ k = 7 \/ k = 8
        OBVIOUS
      <4>. QED BY <1>1, <3>1, <3>3, <4>1
    <3>5. /\ start \in [1 .. 4 -> Vector] /\ Loaded \in Unit
          /\ \A v \in 1 .. 4 : Loaded.regs[v] = start[v]
          /\ \E c : Chain(c, p)
      BY <2>1, <3>4, Finished DEF p
    <3>6. PICK c : Chain(c, p)
      BY <3>5
    <3>7. /\ c[2] = RSPCycleCP2(Loaded, m1) /\ c[3] = RSPCycleCP2(c[2], m2)
          /\ c[4] = RSPCycleCP2(c[3], m3) /\ c[5] = RSPCycleCP2(c[4], m4)
          /\ c[6] = RSPCycleCP2(c[5], m5) /\ c[7] = RSPCycleCP2(c[6], r1)
          /\ c[8] = RSPCycleCP2(c[7], r2) /\ cp2 = RSPCycleCP2(c[8], r3)
      BY <3>3, <3>6 DEF Chain
    <3>8. Loaded.regs[0] = [j \in Lane |-> 0]
      BY <3>5, LoadedTypes
    <3>9. A(i) = Pair(Loaded.regs[2][i], Loaded.regs[1][i])
          /\ B(i) = Pair(Loaded.regs[4][i], Loaded.regs[3][i])
      BY <3>5 DEF A, B
    <3>10. /\ c[6] \in Unit /\ product \in Int /\ Total(c[6], i) = product
           /\ c[6].regs[6][i] = Wrap(Sat(product \div Base))
           /\ c[6].regs[5][i]
                = IF FitsSlice(product \div Base) THEN product % Base ELSE 0
      BY <3>5, <3>7, <3>8, <3>9, WideProductResult DEF m1, m2, m3, m4, m5
    <3>11. /\ AccumulatorRead(i) = product
           /\ Reg(5, i) = c[6].regs[5][i] /\ Reg(6, i) = c[6].regs[6][i]
      BY <3>7, <3>10, AccumulatorResult DEF r1, r2, r3, AccumulatorRead, Reg
    <3>. QED BY <3>10, <3>11, SaturatedDigits
  <2>2. ASSUME After(ProductFromTop)
        PROVE  /\ AccumulatorRead(i) = product
               /\ SignedPair(product) = product => Reg(5, i) = product % Base
    <3>. DEFINE m1 == V("VMUDH", 6, 2, 4, 0)
                m2 == V("VMADN", 5, 1, 4, 0)
                m3 == V("VMADM", 6, 2, 3, 0)
                m4 == V("VMADL", 5, 1, 3, 0)
                p == ProductFromTop
    <3>1. /\ RSPDecodeInstruction(m1) = "VECT" /\ RSPDecodeInstruction(m2) = "VECT"
          /\ RSPDecodeInstruction(m3) = "VECT" /\ RSPDecodeInstruction(m4) = "VECT"
      BY <1>0, Assembled
    <3>2. ProductFromTop = <<m1, m2, m3, m4>> \o <<r1, r2, r3>>
      BY <1>2 DEF ProductFromTop
    <3>. HIDE DEF m1, m2, m3, m4
    <3>3. /\ Len(p) = 7 /\ p[1] = m1 /\ p[2] = m2 /\ p[3] = m3 /\ p[4] = m4
          /\ p[5] = r1 /\ p[6] = r2 /\ p[7] = r3
      <4>. DEFINE S == {m1, m2, m3, m4, r1, r2, r3}
                  s == <<m1, m2, m3, m4>>
                  t == <<r1, r2, r3>>
      <4>1. s \in Seq(S) /\ t \in Seq(S) /\ Len(s) = 4 /\ Len(t) = 3
        OBVIOUS
      <4>2. /\ s[1] = m1 /\ s[2] = m2 /\ s[3] = m3 /\ s[4] = m4
            /\ t[1] = r1 /\ t[2] = r2 /\ t[3] = r3
        OBVIOUS
      <4>3. p = s \o t
        BY <3>2
      <4>. HIDE DEF S, s, t, p
      <4>4. /\ Len(p) = 4 + 3
            /\ \A k \in 1 .. 4 : p[k] = s[k]
            /\ \A k \in 1 .. 3 : p[4 + k] = t[k]
        <5>1. IsAppended(p, s, t)
          BY <4>1, <4>3, Appended
        <5>. QED BY <5>1, <4>1 DEF IsAppended
      <4>5. p[4 + 1] = t[1] /\ p[4 + 2] = t[2] /\ p[4 + 3] = t[3]
        BY <4>4
      <4>. QED BY <4>2, <4>4, <4>5
    <3>. HIDE DEF p
    <3>4. Len(p) = 7 /\ \A k \in 1 .. 7 : RSPDecodeInstruction(p[k]) = "VECT"
      <4>1. \A k \in 1 .. 7 : \/ k = 1 \/ k = 2 \/ k = 3 \/ k = 4
                            \/ k = 5 \/ k = 6 \/ k = 7
        OBVIOUS
      <4>. QED BY <1>1, <3>1, <3>3, <4>1
    <3>5. /\ start \in [1 .. 4 -> Vector] /\ Loaded \in Unit
          /\ \A v \in 1 .. 4 : Loaded.regs[v] = start[v]
          /\ \E c : Chain(c, p)
      BY <2>2, <3>4, Finished DEF p
    <3>6. PICK c : Chain(c, p)
      BY <3>5
    <3>7. /\ c[2] = RSPCycleCP2(Loaded, m1) /\ c[3] = RSPCycleCP2(c[2], m2)
          /\ c[4] = RSPCycleCP2(c[3], m3) /\ c[5] = RSPCycleCP2(c[4], m4)
          /\ c[6] = RSPCycleCP2(c[5], r1) /\ c[7] = RSPCycleCP2(c[6], r2)
          /\ cp2 = RSPCycleCP2(c[7], r3)
      BY <3>3, <3>6 DEF Chain
    <3>8. A(i) = Pair(Loaded.regs[2][i], Loaded.regs[1][i])
          /\ B(i) = Pair(Loaded.regs[4][i], Loaded.regs[3][i])
      BY <3>5 DEF A, B
    <3>9. /\ c[5] \in Unit /\ product \in Int /\ Total(c[5], i) = product
          /\ c[5].regs[5][i]
               = IF FitsSlice(product \div Base) THEN product % Base ELSE 0
      BY <3>5, <3>7, <3>8, ProductFromTopResult DEF m1, m2, m3, m4
    <3>10. AccumulatorRead(i) = product /\ Reg(5, i) = c[5].regs[5][i]
      BY <3>7, <3>9, AccumulatorResult DEF r1, r2, r3, AccumulatorRead, Reg
    <3>. QED BY <3>9, <3>10, PairFits
  <2>. QED BY <2>1, <2>2
<1>. QED BY <1>3, ProgressHolds, PTL

\* What clips a number of two slices leaves of it: the high halves first.
ClipsTo(c, i, a, b, r) ==
  /\ i \in c.vccLe <=> a < 0 /\ a <= -b
  /\ i \in c.vccGe <=> a >= b
  /\ r = (IF a <= -b THEN -b ELSE IF a >= b THEN b ELSE a) % Base

\* The two instructions of Clip, from any state of the unit.
LEMMA ClipResult ==
  ASSUME NEW c0 \in Unit, NEW c1, NEW c2, NEW i \in Lane,
         c1 = RSPCycleCP2(c0, V("VCH", 6, 2, 4, 0)),
         c2 = RSPCycleCP2(c1, V("VCL", 5, 1, 3, 0)),
         NEW a, a = Pair(c0.regs[2][i], c0.regs[1][i]),
         NEW b, b = Pair(c0.regs[4][i], c0.regs[3][i]), b >= 0
  PROVE  ClipsTo(c2, i, a, b, c2.regs[5][i])
<1>. DEFINE x(v) == c0.regs[v][i]
            s == Signed(x(2))
            t == Signed(x(4))
<1>1. \A v \in 1 .. 4 : v \in VReg /\ c0.regs[v] \in Vector
  BY Registers DEF Unit
<1>2. x(1) \in Slice /\ x(3) \in Slice /\ s \in Int /\ t \in Int
  BY <1>1, VectorTypes, HalfPositive
<1>3. c1 \in Unit /\ c1.regs[1] = c0.regs[1] /\ c1.regs[3] = c0.regs[3]
      /\ ClipsHigh(c1, s, t, i)
  <2>1. ClipsHighHalves(c0, c1, 6, 2, 4)
    BY Registers, CycleVCH
  <2>. QED BY <2>1, Registers DEF ClipsHighHalves
<1>4. ClipsLow(c1, c2, x(1), x(3), c2.regs[5][i], i)
  <2>1. ClipsLowHalves(c1, c2, 5, 1, 3)
    BY <1>3, Registers, CycleVCL
  <2>. QED BY <1>3, <2>1 DEF ClipsLowHalves
<1>5. a = s * Base + x(1) /\ b = t * Base + x(3)
  BY DEF Pair
<1>. HIDE DEF x, s, t
<1>. QED BY <1>2, <1>3, <1>4, <1>5, ClipsPair DEF ClipsTo

\* The decoder finds the two instructions that move flags.
LEMMA FlagMovesAssembled ==
  ASSUME NEW rt, NEW flag
  PROVE  /\ RSPDecodeInstruction(CFC2(rt, flag)) = "CFC2"
         /\ RSPDecodeInstruction(CTC2(rt, flag)) = "CTC2"
<1>1. CFC2(rt, flag).op = 18 /\ CFC2(rt, flag).rs = 2
      /\ CTC2(rt, flag).op = 18 /\ CTC2(rt, flag).rs = 6
  BY DEF CFC2, CTC2
<1>. DEFINE x == CFC2(rt, flag)
            y == CTC2(rt, flag)
<1>. HIDE DEF x, y
<1>2. RSPDecodeInstruction(x) = "CFC2"
  BY <1>1 DEF RSPDecodeInstruction, Entry, COP2OpcodeTable, Row, x
<1>3. RSPDecodeInstruction(y) = "CTC2"
  BY <1>1 DEF RSPDecodeInstruction, Entry, COP2OpcodeTable, Row, y
<1>. QED BY <1>2, <1>3 DEF x, y

\* What the three kinds of instructions do to the unit and the flags: s before
\* the instruction, s2 after it.
Runs(s, s2, iw) == s2.cp2 = RSPCycleCP2(s.cp2, iw) /\ s2.flags = s.flags
Saves(s, s2, rt, flag) ==
  s2.cp2 = s.cp2 /\ s2.flags = [s.flags EXCEPT ![rt] = RSPCFC2(s.cp2, flag)]
Restores(s, s2, rt, flag) ==
  s2.cp2 = RSPCTC2(s.cp2, flag, s.flags[rt]) /\ s2.flags = s.flags

\* Vector instructions,
LEMMA ExecutedRuns ==
  ASSUME NEW s, NEW iw, RSPDecodeInstruction(iw) = "VECT", NEW s2, s2 = Executed(s, iw)
  PROVE  Runs(s, s2, iw)
BY DEF Executed, Runs

\* CFC2,
LEMMA ExecutedSaves ==
  ASSUME NEW s, NEW rt, NEW flag, NEW s2, s2 = Executed(s, CFC2(rt, flag))
  PROVE  Saves(s, s2, rt, flag)
<1>. DEFINE iw == CFC2(rt, flag)
<1>1. RSPDecodeInstruction(iw) = "CFC2" /\ iw.rt = rt /\ iw.rd = flag
  BY FlagMovesAssembled DEF CFC2
<1>. HIDE DEF iw
<1>2. s2 = Executed(s, iw)
  BY DEF iw
<1>3. s2 = [cp2 |-> s.cp2, flags |-> [s.flags EXCEPT ![iw.rt] = RSPCFC2(s.cp2, iw.rd)]]
  BY <1>1, <1>2 DEF Executed
<1>. QED BY <1>1, <1>3 DEF Saves

\* and CTC2.
LEMMA ExecutedRestores ==
  ASSUME NEW s, NEW rt, NEW flag, NEW s2, s2 = Executed(s, CTC2(rt, flag))
  PROVE  Restores(s, s2, rt, flag)
<1>. DEFINE iw == CTC2(rt, flag)
<1>1. RSPDecodeInstruction(iw) = "CTC2" /\ iw.rt = rt /\ iw.rd = flag
  BY FlagMovesAssembled DEF CTC2
<1>. HIDE DEF iw
<1>2. s2 = Executed(s, iw)
  BY DEF iw
<1>3. s2 = [cp2 |-> RSPCTC2(s.cp2, iw.rd, s.flags[iw.rt]), flags |-> s.flags]
  BY <1>1, <1>2 DEF Executed
<1>. QED BY <1>1, <1>3 DEF Restores

\* The flags of d are those of c.
SameFlags(c, d) ==
  /\ d.vcolo = c.vcolo /\ d.vcohi = c.vcohi
  /\ d.vccLe = c.vccLe /\ d.vccGe = c.vccGe /\ d.vce = c.vce

\* What three CFC2 make of the scalar registers f, and three CTC2 of the unit d.
Saved(c, f) ==
  [[[f EXCEPT ![1] = RSPCFC2(c, 0)] EXCEPT ![2] = RSPCFC2(c, 1)]
     EXCEPT ![3] = RSPCFC2(c, 2)]
Restored(d, f) == RSPCTC2(RSPCTC2(RSPCTC2(d, 0, f[1]), 1, f[2]), 2, f[3])

\* Flags saved by three CFC2 are those a unit gets back from three CTC2,
\* whatever happened to it in between.
LEMMA FlagsRestored ==
  ASSUME NEW c \in Unit, NEW d \in Unit,
         NEW f \in [1 .. 3 -> (SUBSET Lane) \X (SUBSET Lane)],
         NEW d3, d3 = Restored(d, Saved(c, f))
  PROVE  d3 \in Unit /\ d3.regs = d.regs /\ SameFlags(c, d3)
<1>. DEFINE f3 == Saved(c, f)
            d1 == RSPCTC2(d, 0, f3[1])
            d2 == RSPCTC2(d1, 1, f3[2])
<1>1. RSPCFC2(c, 0) = <<c.vcolo, c.vcohi>> /\ RSPCFC2(c, 1) = <<c.vccLe, c.vccGe>>
      /\ RSPCFC2(c, 2) = <<c.vce, {}>>
  BY DEF RSPCFC2
<1>2. f3[1] = RSPCFC2(c, 0) /\ f3[2] = RSPCFC2(c, 1) /\ f3[3] = RSPCFC2(c, 2)
  BY DEF Saved
<1>0. /\ f3[1][1] = c.vcolo /\ f3[1][2] = c.vcohi
      /\ f3[2][1] = c.vccLe /\ f3[2][2] = c.vccGe /\ f3[3][1] = c.vce
  BY <1>1, <1>2
<1>. DEFINE g1 == f3[1]
            g2 == f3[2]
            g3 == f3[3]
<1>9. d3 = RSPCTC2(d2, 2, g3)
  BY DEF Restored
<1>. HIDE DEF f3
<1>3. d1 = [d EXCEPT !.vcolo = c.vcolo, !.vcohi = c.vcohi]
  <2>. HIDE DEF g1
  <2>1. d1 = [d EXCEPT !.vcolo = g1[1], !.vcohi = g1[2]]
    BY DEF RSPCTC2, g1
  <2>. QED BY <1>0, <2>1 DEF g1
<1>. HIDE DEF d1
<1>4. d2 = [d1 EXCEPT !.vccLe = c.vccLe, !.vccGe = c.vccGe]
  <2>. HIDE DEF g2
  <2>1. d2 = [d1 EXCEPT !.vccLe = g2[1], !.vccGe = g2[2]]
    BY DEF RSPCTC2, g2
  <2>. QED BY <1>0, <2>1 DEF g2
<1>. HIDE DEF d2
<1>5. d3 = [d2 EXCEPT !.vce = c.vce]
  <2>. HIDE DEF g3
  <2>1. d3 = [d2 EXCEPT !.vce = g3[1]]
    BY <1>9 DEF RSPCTC2
  <2>. QED BY <1>0, <2>1 DEF g3
<1>6. d1 \in Unit /\ d1.regs = d.regs /\ d1.vcolo = c.vcolo /\ d1.vcohi = c.vcohi
  BY <1>3 DEF Unit
<1>7. d2 \in Unit /\ d2.regs = d.regs /\ d2.vcolo = c.vcolo /\ d2.vcohi = c.vcohi
      /\ d2.vccLe = c.vccLe /\ d2.vccGe = c.vccGe
  BY <1>4, <1>6 DEF Unit
<1>. QED BY <1>5, <1>7 DEF Unit, SameFlags

\* The eleven instructions of ClipInterrupted.
LEMMA ClipInterruptedResult ==
  ASSUME NEW h, h[1].cp2 \in Unit,
         h[1].flags \in [1 .. 3 -> (SUBSET Lane) \X (SUBSET Lane)],
         \A k \in 1 .. 11 : h[k + 1] = Executed(h[k], ClipInterrupted[k]),
         NEW i \in Lane,
         NEW a, a = Pair(h[1].cp2.regs[2][i], h[1].cp2.regs[1][i]),
         NEW b, b = Pair(h[1].cp2.regs[4][i], h[1].cp2.regs[3][i]), b >= 0
  PROVE  ClipsTo(h[12].cp2, i, a, b, h[12].cp2.regs[5][i])
<1>. DEFINE c(k) == h[k].cp2
            f(k) == h[k].flags
            w1 == V("VCH", 6, 2, 4, 0)
            w5 == V("VCH", 7, 1, 3, 0)
            w6 == V("VCL", 8, 2, 4, 0)
            w7 == V("VSUBC", 9, 1, 4, 0)
            w11 == V("VCL", 5, 1, 3, 0)
<1>1. /\ ClipInterrupted[1] = w1
      /\ ClipInterrupted[2] = CFC2(1, 0) /\ ClipInterrupted[3] = CFC2(2, 1)
      /\ ClipInterrupted[4] = CFC2(3, 2)
      /\ ClipInterrupted[5] = w5 /\ ClipInterrupted[6] = w6 /\ ClipInterrupted[7] = w7
      /\ ClipInterrupted[8] = CTC2(1, 0) /\ ClipInterrupted[9] = CTC2(2, 1)
      /\ ClipInterrupted[10] = CTC2(3, 2)
      /\ ClipInterrupted[11] = w11
  BY DEF ClipInterrupted
<1>2. /\ RSPDecodeInstruction(w1) = "VECT" /\ RSPDecodeInstruction(w5) = "VECT"
      /\ RSPDecodeInstruction(w6) = "VECT" /\ RSPDecodeInstruction(w7) = "VECT"
      /\ RSPDecodeInstruction(w11) = "VECT"
  <2>1. "VCH" \in ProvedOp /\ "VCL" \in ProvedOp /\ "VSUBC" \in ProvedOp /\ 0 \in 0 .. 15
    BY DEF ProvedOp
  <2>. QED BY <2>1, Assembled
<1>. HIDE DEF w1, w5, w6, w7, w11
<1>3. /\ h[2] = Executed(h[1], w1)
      /\ h[3] = Executed(h[2], CFC2(1, 0)) /\ h[4] = Executed(h[3], CFC2(2, 1))
      /\ h[5] = Executed(h[4], CFC2(3, 2))
      /\ h[6] = Executed(h[5], w5) /\ h[7] = Executed(h[6], w6)
      /\ h[8] = Executed(h[7], w7)
      /\ h[9] = Executed(h[8], CTC2(1, 0)) /\ h[10] = Executed(h[9], CTC2(2, 1))
      /\ h[11] = Executed(h[10], CTC2(3, 2))
      /\ h[12] = Executed(h[11], w11)
  <2>1. /\ h[1 + 1] = Executed(h[1], w1)
        /\ h[2 + 1] = Executed(h[2], CFC2(1, 0)) /\ h[3 + 1] = Executed(h[3], CFC2(2, 1))
        /\ h[4 + 1] = Executed(h[4], CFC2(3, 2))
        /\ h[5 + 1] = Executed(h[5], w5) /\ h[6 + 1] = Executed(h[6], w6)
        /\ h[7 + 1] = Executed(h[7], w7)
        /\ h[8 + 1] = Executed(h[8], CTC2(1, 0)) /\ h[9 + 1] = Executed(h[9], CTC2(2, 1))
        /\ h[10 + 1] = Executed(h[10], CTC2(3, 2))
        /\ h[11 + 1] = Executed(h[11], w11)
    BY <1>1
  <2>. QED BY <2>1
<1>4. /\ c(2) = RSPCycleCP2(c(1), w1) /\ f(2) = f(1)
      /\ c(6) = RSPCycleCP2(c(5), w5) /\ f(6) = f(5)
      /\ c(7) = RSPCycleCP2(c(6), w6) /\ f(7) = f(6)
      /\ c(8) = RSPCycleCP2(c(7), w7) /\ f(8) = f(7)
      /\ c(12) = RSPCycleCP2(c(11), w11)
  <2>1. /\ Runs(h[1], h[2], w1) /\ Runs(h[5], h[6], w5) /\ Runs(h[6], h[7], w6)
        /\ Runs(h[7], h[8], w7) /\ Runs(h[11], h[12], w11)
    BY <1>2, <1>3, ExecutedRuns
  <2>. QED BY <2>1 DEF Runs
<1>5. /\ c(3) = c(2) /\ f(3) = [f(2) EXCEPT ![1] = RSPCFC2(c(2), 0)]
      /\ c(4) = c(3) /\ f(4) = [f(3) EXCEPT ![2] = RSPCFC2(c(3), 1)]
      /\ c(5) = c(4) /\ f(5) = [f(4) EXCEPT ![3] = RSPCFC2(c(4), 2)]
  <2>1. /\ Saves(h[2], h[3], 1, 0) /\ Saves(h[3], h[4], 2, 1)
        /\ Saves(h[4], h[5], 3, 2)
    BY <1>3, ExecutedSaves
  <2>. QED BY <2>1 DEF Saves
<1>6. /\ c(9) = RSPCTC2(c(8), 0, f(8)[1]) /\ f(9) = f(8)
      /\ c(10) = RSPCTC2(c(9), 1, f(9)[2]) /\ f(10) = f(9)
      /\ c(11) = RSPCTC2(c(10), 2, f(10)[3])
  <2>1. /\ Restores(h[8], h[9], 1, 0) /\ Restores(h[9], h[10], 2, 1)
        /\ Restores(h[10], h[11], 3, 2)
    BY <1>3, ExecutedRestores
  <2>. QED BY <2>1 DEF Restores
<1>. DEFINE x(v) == c(1).regs[v][i]
            s == Signed(x(2))
            t == Signed(x(4))
<1>7. x(1) \in Slice /\ x(3) \in Slice /\ s \in Int /\ t \in Int
      /\ a = s * Base + x(1) /\ b = t * Base + x(3)
  <2>1. \A v \in 1 .. 4 : v \in VReg /\ c(1).regs[v] \in Vector
    BY Registers DEF Unit
  <2>2. x(1) \in Slice /\ x(3) \in Slice /\ s \in Int /\ t \in Int
    BY <2>1, VectorTypes, HalfPositive
  <2>. QED BY <2>2 DEF Pair
<1>. HIDE DEF c, f
<1>8. /\ c(2) \in Unit /\ ClipsHigh(c(2), s, t, i)
      /\ c(2).regs[1] = c(1).regs[1] /\ c(2).regs[3] = c(1).regs[3]
  <2>1. c(1) \in Unit
    BY DEF c
  <2>2. ClipsHighHalves(c(1), c(2), 6, 2, 4)
    BY <1>4, <2>1, Registers, CycleVCH DEF w1
  <2>. QED BY <2>2, Registers DEF ClipsHighHalves
<1>9. c(5) = c(2) /\ c(5) \in Unit
  BY <1>5, <1>8
<1>10. /\ c(6) \in Unit
       /\ c(6).regs[1] = c(5).regs[1] /\ c(6).regs[3] = c(5).regs[3]
  <2>1. ClipsHighHalves(c(5), c(6), 7, 1, 3)
    BY <1>4, <1>9, Registers, CycleVCH DEF w5
  <2>. QED BY <2>1, Registers DEF ClipsHighHalves
<1>11. /\ c(7) \in Unit
       /\ c(7).regs[1] = c(6).regs[1] /\ c(7).regs[3] = c(6).regs[3]
  <2>1. ClipsLowHalves(c(6), c(7), 8, 2, 4)
    BY <1>4, <1>10, Registers, CycleVCL DEF w6
  <2>. QED BY <2>1, Registers DEF ClipsLowHalves
<1>12. /\ c(8) \in Unit
       /\ c(8).regs[1] = c(7).regs[1] /\ c(8).regs[3] = c(7).regs[3]
  <2>1. SubtractsLow(c(7), c(8), 9, 1, 4)
    BY <1>4, <1>11, Registers, CycleVSUBC DEF w7
  <2>. QED BY <2>1, Registers DEF SubtractsLow
<1>13. c(11) \in Unit /\ c(11).regs = c(8).regs /\ SameFlags(c(2), c(11))
  <2>1. f(2) \in [1 .. 3 -> (SUBSET Lane) \X (SUBSET Lane)]
    BY <1>4 DEF f
  <2>2. f(8) = f(5) /\ f(9) = f(5) /\ f(10) = f(5)
    BY <1>4, <1>6
  <2>3. /\ f(3) = [f(2) EXCEPT ![1] = RSPCFC2(c(2), 0)]
        /\ f(4) = [f(3) EXCEPT ![2] = RSPCFC2(c(2), 1)]
        /\ f(5) = [f(4) EXCEPT ![3] = RSPCFC2(c(2), 2)]
    BY <1>5
  <2>4. c(11) = Restored(c(8), f(5))
    BY <1>6, <2>2 DEF Restored
  <2>5. f(5) = Saved(c(2), f(2))
    BY <2>3 DEF Saved
  <2>. QED BY <1>8, <1>12, <2>1, <2>4, <2>5, FlagsRestored
<1>14. c(11).regs[1] = c(1).regs[1] /\ c(11).regs[3] = c(1).regs[3]
  BY <1>8, <1>9, <1>10, <1>11, <1>12, <1>13
<1>15. ClipsLow(c(11), c(12), x(1), x(3), c(12).regs[5][i], i)
  <2>1. ClipsLowHalves(c(11), c(12), 5, 1, 3)
    BY <1>4, <1>13, Registers, CycleVCL DEF w11
  <2>. QED BY <1>14, <2>1 DEF ClipsLowHalves
<1>. HIDE DEF x, s, t
<1>16. ClipsTo(c(12), i, a, b, c(12).regs[5][i])
  BY <1>7, <1>8, <1>13, <1>15, ClipsPair DEF ClipsTo, SameFlags
<1>. QED BY <1>16 DEF c

\* For every width of a slice and every start: VCH and VCL clip numbers of two
\* slices, also when another clip comes between and the flags are saved around
\* it (RSPVCH, RSPVCL, RSPCFC2, RSPCTC2).
THEOREM ClipsProved == Spec => []Clips
<1>1. Progress => Clips
  <2>. SUFFICES ASSUME Progress, NEW i \in Lane, B(i) >= 0,
                       After(Clip) \/ After(ClipInterrupted)
                PROVE  ClipsTo(cp2, i, A(i), B(i), Reg(5, i))
    BY DEF Clips, ClipsTo
  <2>1. CASE After(Clip)
    <3>. DEFINE x == V("VCH", 6, 2, 4, 0)
                y == V("VCL", 5, 1, 3, 0)
    <3>1. RSPDecodeInstruction(x) = "VECT" /\ RSPDecodeInstruction(y) = "VECT"
      <4>1. "VCH" \in ProvedOp /\ "VCL" \in ProvedOp /\ 0 \in 0 .. 15
        BY DEF ProvedOp
      <4>. QED BY <4>1, Assembled
    <3>2. Clip = <<x, y>>
      BY DEF Clip
    <3>. HIDE DEF x, y
    <3>3. \A iw \in {x, y} : RSPDecodeInstruction(iw) = "VECT"
      BY <3>1
    <3>4. /\ Loaded \in Unit
          /\ \A v \in 1 .. 4 : Loaded.regs[v] = start[v]
          /\ \E c1 : c1 = RSPCycleCP2(Loaded, x) /\ cp2 = RSPCycleCP2(c1, y)
      BY <2>1, <3>2, <3>3, TwoCycles
    <3>5. /\ A(i) = Pair(Loaded.regs[2][i], Loaded.regs[1][i])
          /\ B(i) = Pair(Loaded.regs[4][i], Loaded.regs[3][i])
      BY <3>4 DEF A, B
    <3>6. ClipsTo(cp2, i, A(i), B(i), cp2.regs[5][i])
      BY <3>4, <3>5, ClipResult DEF x, y
    <3>. QED BY <3>6 DEF Reg
  <2>2. CASE After(ClipInterrupted)
    <3>1. /\ start \in [1 .. 4 -> Vector] /\ prog = ClipInterrupted
          /\ pos = Len(ClipInterrupted) + 1
      BY <2>2 DEF Progress, After
    <3>2. Len(ClipInterrupted) = 11
      BY DEF ClipInterrupted
    <3>3. PICK h : History(h, ClipInterrupted, 12) /\ h[12] = State
      BY <3>1, <3>2 DEF Progress
    <3>4. /\ h[1].cp2 = Loaded /\ h[12].cp2 = cp2
          /\ h[1].flags = [r \in 1 .. 3 |-> <<{}, {}>>]
      BY <3>3 DEF History, State
    <3>5. \A k \in 1 .. 11 : h[k + 1] = Executed(h[k], ClipInterrupted[k])
      BY <3>3 DEF History
    <3>6. h[1].flags \in [1 .. 3 -> (SUBSET Lane) \X (SUBSET Lane)]
      BY <3>4
    <3>7. Loaded \in Unit /\ \A v \in 1 .. 4 : Loaded.regs[v] = start[v]
      BY <3>1, LoadedTypes
    <3>8. /\ A(i) = Pair(h[1].cp2.regs[2][i], h[1].cp2.regs[1][i])
          /\ B(i) = Pair(h[1].cp2.regs[4][i], h[1].cp2.regs[3][i])
      BY <3>4, <3>7 DEF A, B
    <3>9. ClipsTo(h[12].cp2, i, A(i), B(i), h[12].cp2.regs[5][i])
      BY <3>4, <3>5, <3>6, <3>7, <3>8, ClipInterruptedResult
    <3>. QED BY <3>4, <3>9 DEF Reg
  <2>. QED BY <2>1, <2>2
<1>. QED BY <1>1, ProgressHolds, PTL

(***************************************************************************)
(* The type invariant: every instruction, whatever its fields, takes a     *)
(* state of the unit to one.                                               *)
(***************************************************************************)

\* What the divider holds between instructions: two numbers of two slices, and
\* after VRCPH or VRSQH an operand whose low half is still zero.
DividerFits(c) ==
  /\ c.divIn \in UpperRange /\ c.divOut \in UpperRange
  /\ c.doublePrecision => c.divIn % Base = 0

SafeUnit == {c \in Unit : DividerFits(c)}

DividerKept(c, d) ==
  /\ d.divIn = c.divIn /\ d.divOut = c.divOut
  /\ d.doublePrecision = c.doublePrecision

\* The operands an instruction works with are vectors (RSPGetVectorOperands).
LEMMA OperandTypes ==
  ASSUME NEW v \in Vector, NEW e \in 0 .. 15
  PROVE  /\ RSPGetVectorOperands(v, e) \in Vector
         /\ \A i \in Lane : RSPGetVectorOperands(v, e)[i] = v[OperandLane(e, i)]
<1>1. ASSUME NEW i \in Lane PROVE OperandLane(e, i) \in Lane
  <2>1. CASE e < 2
    BY <2>1 DEF OperandLane
  <2>2. CASE e \in 2 .. 3
    BY <2>2 DEF OperandLane, Lane
  <2>3. CASE e \in 4 .. 7
    BY <2>3 DEF OperandLane, Lane
  <2>4. CASE e > 7
    BY <2>4 DEF OperandLane, Lane
  <2>. QED BY <2>1, <2>2, <2>3, <2>4
<1>2. \A i \in Lane : v[OperandLane(e, i)] \in Slice
  BY <1>1 DEF Vector
<1>. QED BY <1>2 DEF RSPGetVectorOperands, Vector

\* The bitwise operations on slices.
LEMMA SliceLogic ==
  ASSUME NEW x \in Slice, NEW y \in Slice
  PROVE  /\ AndOf(x, y) \in Slice /\ AndOf(x, y) <= x /\ AndOf(x, y) <= y
         /\ x + y - AndOf(x, y) \in Slice /\ x + y - 2 * AndOf(x, y) \in Slice
         /\ Not(x) \in Slice /\ Not(AndOf(x, y)) \in Slice
         /\ AndOf(y, x) = AndOf(x, y) /\ AndOf(x, 0) = 0 /\ AndOf(x, x) = x
         /\ AndOf(Not(x), y) = y - AndOf(x, y)
         /\ AndOf(x + y - 2 * AndOf(x, y), y) = y - AndOf(x, y)
         /\ AndOf(x + y - AndOf(x, y), AndOf(x, y)) = AndOf(x, y)
<1>1. SliceBits \in Nat /\ Base = Power[SliceBits] /\ Base \in Nat
  BY SliceSizes, SliceTypes
<1>2. x \in Word(SliceBits) /\ y \in Word(SliceBits)
  BY <1>1 DEF Word, Slice
<1>3. AndLaws(SliceBits, x, y)
  BY <1>1, <1>2, AndObeys
<1>. DEFINE a == AndOf(x, y)
<1>4. /\ a \in Nat /\ a <= x /\ a <= y /\ x + y - a <= Base - 1
      /\ AndOf(y, x) = a /\ AndOf(x, 0) = 0 /\ AndOf(x, x) = x
      /\ AndOf(Base - 1 - x, y) = y - a
      /\ AndOf(x + y - 2 * a, y) = y - a
      /\ AndOf(x + y - a, a) = a
  BY <1>1, <1>3 DEF AndLaws, AndOf
<1>5. x \in 0 .. Base - 1 /\ y \in 0 .. Base - 1
  BY SliceTypes
<1>. HIDE DEF a
<1>6. /\ a \in 0 .. Base - 1 /\ x + y - a \in 0 .. Base - 1
      /\ x + y - 2 * a \in 0 .. Base - 1
      /\ Base - 1 - x \in 0 .. Base - 1 /\ Base - 1 - a \in 0 .. Base - 1
  BY <1>1, <1>4, <1>5
<1>. QED BY <1>4, <1>6 DEF a, Not, Slice

\* so that their handlers write slices.
LEMMA LogicTypes ==
  ASSUME NEW op \in LogicOp, NEW x \in Slice, NEW y \in Slice
  PROVE  Logic(op, x, y) \in Slice
<1>. DEFINE a == AndOf(x, y)
<1>1. a \in Slice /\ Not(a) \in Slice /\ x + y - a \in Slice /\ x + y - 2 * a \in Slice
  BY SliceLogic
<1>2. \A z \in Slice : Not(z) \in Slice
  BY SliceLogic
<1>. HIDE DEF a
<1>3. Not(x + y - a) \in Slice /\ Not(x + y - 2 * a) \in Slice
  BY <1>1, <1>2
<1>. QED BY <1>1, <1>3 DEF Logic, LogicOp, a

\* What a logical operation does.
LEMMA DoLogic ==
  ASSUME NEW c \in Unit, NEW op \in LogicOp, NEW vd \in VReg,
         NEW vs \in Vector, NEW vt \in Vector, NEW d, d = LogicOf(c, op, vd, vs, vt)
  PROVE  /\ d \in Unit /\ DividerKept(c, d)
         /\ d.regs = [c.regs EXCEPT ![vd] = [i \in Lane |-> Logic(op, vs[i], vt[i])]]
<1>. DEFINE r == [i \in Lane |-> Logic(op, vs[i], vt[i])]
<1>1. r \in Vector
  BY VectorTypes, LogicTypes DEF Vector
<1>2. d = Writes(c, vd, r)
  BY DEF LogicOf
<1>. HIDE DEF r
<1>3. d \in Unit /\ DividerKept(c, d) /\ d.regs = [c.regs EXCEPT ![vd] = r]
  BY <1>1, <1>2 DEF Writes, Unit, DividerKept
<1>. QED BY <1>3 DEF r

\* RSPVMOV: one lane is written.
LEMMA Move ==
  ASSUME NEW c \in Unit, NEW vd \in VReg, NEW de \in Lane, NEW vt \in Vector,
         NEW d, d = RSPVMOV(c, vd, de, vt)
  PROVE  /\ d \in Unit /\ DividerKept(c, d)
         /\ \A v \in VReg : v # vd => d.regs[v] = c.regs[v]
         /\ \A i \in Lane : d.regs[vd][i] = IF i = de THEN vt[de] ELSE c.regs[vd][i]
<1>. DEFINE r == [c.regs[vd] EXCEPT ![de] = vt[de]]
            regs == [c.regs EXCEPT ![vd] = r]
<1>1. c.regs \in [VReg -> Vector] /\ c.regs[vd] \in Vector
  BY DEF Unit
<1>2. r \in Vector /\ \A i \in Lane : r[i] = IF i = de THEN vt[de] ELSE c.regs[vd][i]
  BY <1>1 DEF Vector
<1>3. d = [c EXCEPT !.regs = regs, !.accLow = vt]
  BY DEF RSPVMOV
<1>. HIDE DEF r
<1>4. /\ regs \in [VReg -> Vector] /\ regs[vd] = r
      /\ \A v \in VReg : v # vd => regs[v] = c.regs[v]
  BY <1>1, <1>2
<1>. HIDE DEF regs
<1>5. d \in Unit /\ DividerKept(c, d) /\ d.regs = regs
  BY <1>3, <1>4 DEF Unit, DividerKept
<1>. QED BY <1>2, <1>4, <1>5

\* The instructions that have nothing to do with the divider leave it alone,
\* and leave a state of the unit.
Safe(c, d) == d \in Unit /\ DividerKept(c, d)

\* Sums, differences, the selections by flags.
LEMMA SumsSafe ==
  ASSUME NEW c \in Unit, NEW vd \in VReg, NEW vs \in Vector, NEW vt \in Vector
  PROVE  /\ Safe(c, RSPVADD(c, vd, vs, vt)) /\ Safe(c, RSPVSUB(c, vd, vs, vt))
         /\ Safe(c, RSPVADDC(c, vd, vs, vt)) /\ Safe(c, RSPVSUBC(c, vd, vs, vt))
         /\ Safe(c, RSPVABS(c, vd, vs, vt)) /\ Safe(c, RSPVMRG(c, vd, vs, vt))
<1>1. /\ RSPVADD(c, vd, vs, vt) \in Unit /\ RSPVSUB(c, vd, vs, vt) \in Unit
      /\ RSPVADDC(c, vd, vs, vt) \in Unit /\ RSPVSUBC(c, vd, vs, vt) \in Unit
      /\ RSPVABS(c, vd, vs, vt) \in Unit /\ RSPVMRG(c, vd, vs, vt) \in Unit
  BY Add, Subtract, AddCarry, SubtractBorrow, TakeAbsolute, Merge
<1>2. /\ DividerKept(c, RSPVADD(c, vd, vs, vt)) /\ DividerKept(c, RSPVSUB(c, vd, vs, vt))
  BY DEF DividerKept, Unit, RSPVADD, RSPVSUB, ClearsVCO
<1>3. /\ DividerKept(c, RSPVADDC(c, vd, vs, vt)) /\ DividerKept(c, RSPVSUBC(c, vd, vs, vt))
  BY DEF DividerKept, Unit, RSPVADDC, RSPVSUBC, Writes
<1>4. /\ DividerKept(c, RSPVABS(c, vd, vs, vt)) /\ DividerKept(c, RSPVMRG(c, vd, vs, vt))
  BY DEF DividerKept, Unit, RSPVABS, RSPVMRG, Writes
<1>. QED BY <1>1, <1>2, <1>3, <1>4 DEF Safe

\* Comparisons.
LEMMA SelectSafe ==
  ASSUME NEW c \in Unit, NEW op \in SelectOp, NEW vd \in VReg,
         NEW vs \in Vector, NEW vt \in Vector
  PROVE  Safe(c, Select(c, op, vd, vs, vt))
<1>1. Select(c, op, vd, vs, vt) \in Unit
  BY Compare
<1>2. DividerKept(c, Select(c, op, vd, vs, vt))
  BY DEF DividerKept, Unit, Select, Writes, ClearsVCO
<1>. QED BY <1>1, <1>2 DEF Safe

\* Clips.
LEMMA ClipsSafe ==
  ASSUME NEW c \in Unit, NEW vd \in VReg, NEW vs \in Vector, NEW vt \in Vector
  PROVE  /\ Safe(c, RSPVCH(c, vd, vs, vt)) /\ Safe(c, RSPVCL(c, vd, vs, vt))
         /\ Safe(c, RSPVCR(c, vd, vs, vt))
<1>1. RSPVCH(c, vd, vs, vt) \in Unit /\ RSPVCL(c, vd, vs, vt) \in Unit
  BY ClipHigh, ClipLow
<1>2. DividerKept(c, RSPVCH(c, vd, vs, vt))
  BY DEF DividerKept, Unit, RSPVCH, Writes
<1>3. DividerKept(c, RSPVCL(c, vd, vs, vt))
  BY DEF DividerKept, Unit, RSPVCL, Writes, ClearsVCO
<1>4. Safe(c, RSPVCR(c, vd, vs, vt))
  <2>. DEFINE sn == SignsDiffer(vs, vt)
              ge == {i \in Lane : IF i \in sn THEN Signed(vt[i]) < 0
                                  ELSE Signed(vs[i]) >= Signed(vt[i])}
              le == {i \in Lane : IF i \in sn THEN Signed(vs[i]) + Signed(vt[i]) < 0
                                  ELSE Signed(vt[i]) < 0}
              r == [i \in Lane |-> CASE i \notin le -> vs[i]
                                     [] i \in le \cap sn -> Not(vt[i])
                                     [] i \in le \ sn -> vt[i]]
              d == RSPVCR(c, vd, vs, vt)
  <2>1. \A i \in Lane : vs[i] \in Slice /\ vt[i] \in Slice /\ Not(vt[i]) \in Slice
    BY VectorTypes, SliceLogic
  <2>2. le \in SUBSET Lane /\ ge \in SUBSET Lane
    OBVIOUS
  <2>3. d = [Writes(ClearsVCO(c), vd, r) EXCEPT !.vccLe = le, !.vccGe = ge, !.vce = {}]
    BY DEF RSPVCR
  <2>. HIDE DEF le, ge, sn
  <2>4. r \in Vector
    BY <2>1 DEF Vector
  <2>. HIDE DEF r, d
  <2>5. d \in Unit /\ DividerKept(c, d)
    BY <2>2, <2>3, <2>4 DEF Unit, DividerKept, Writes, ClearsVCO
  <2>. QED BY <2>5 DEF d, Safe
<1>. QED BY <1>1, <1>2, <1>3, <1>4 DEF Safe

\* Products, the accumulator read.
LEMMA AccumulatorSafe ==
  ASSUME NEW c \in Unit, NEW vd \in VReg, NEW vs \in Vector, NEW vt \in Vector,
         NEW e \in Int
  PROVE  /\ Safe(c, RSPVSAR(c, vd, e))
         /\ \A op \in MultiplyOp \cup AccumulateOp : Safe(c, MultiplyOf(c, op, vd, vs, vt))
<1>1. ASSUME NEW op \in MultiplyOp \cup AccumulateOp
      PROVE  Safe(c, MultiplyOf(c, op, vd, vs, vt))
  <2>1. MultiplyOf(c, op, vd, vs, vt) \in Unit
    BY Multiply
  <2>2. DividerKept(c, MultiplyOf(c, op, vd, vs, vt))
    BY DEF DividerKept, Unit, MultiplyOf
  <2>. QED BY <2>1, <2>2 DEF Safe
<1>2. Safe(c, RSPVSAR(c, vd, e))
  <2>. DEFINE r == CASE e = 8 -> c.accHigh [] e = 9 -> c.accMid [] e = 10 -> c.accLow
                     [] OTHER -> [i \in Lane |-> 0]
              d == RSPVSAR(c, vd, e)
  <2>1. [i \in Lane |-> 0] \in Vector
    BY SliceTypes DEF Vector, Slice
  <2>2. r \in Vector
    BY <2>1 DEF Unit
  <2>3. d = [c EXCEPT !.regs[vd] = r]
    BY DEF RSPVSAR
  <2>. HIDE DEF r, d
  <2>4. d \in Unit /\ DividerKept(c, d)
    BY <2>2, <2>3 DEF Unit, DividerKept
  <2>. QED BY <2>4 DEF d, Safe
<1>. QED BY <1>1, <1>2

(***************************************************************************)
(* The divider.                                                            *)
(***************************************************************************)
Range == Half * Base              \* the numbers of two slices below zero
Index == Power[TableBits]         \* entries of one half of ReciprocalLUT

\* More powers of two.
LEMMA DividerSizes ==
  /\ Range \in Nat \ {0} /\ Range = 2 * Half * Half /\ Range = Power[2 * SliceBits - 1]
  /\ 2 * SliceBits - 1 \in Nat /\ Half \div 2 \in Nat \ {0} /\ Half = 2 * (Half \div 2)
  /\ Index \in Nat \ {0} /\ Index % 2 = 0 /\ Power[TableBits + 1] = 2 * Index
  /\ Index <= Half
<1>1. /\ SliceBits \in Nat /\ SliceBits - 1 \in Nat /\ TableBits \in Nat
      /\ TableBits - 1 \in Nat /\ (TableBits - 1) + 1 = TableBits
      /\ TableBits <= SliceBits - 1
      /\ 2 * SliceBits - 1 = (SliceBits - 1) + SliceBits /\ 2 * SliceBits - 1 \in Nat
  BY SliceAssumption
<1>2. Half \in Nat \ {0} /\ Base = 2 * Half /\ Base = Power[SliceBits]
  BY SliceSizes DEF Base
<1>3. Half \div 2 \in Nat \ {0} /\ Half = 2 * (Half \div 2)
  BY SliceSizes
<1>4. Range = Power[2 * SliceBits - 1]
  BY <1>1, <1>2, PowerAdd DEF Range, Half
<1>5. /\ Index = 2 * Power[TableBits - 1] /\ Power[TableBits - 1] \in Nat \ {0}
      /\ Power[TableBits + 1] = 2 * Index
  BY <1>1, PowerSteps DEF Index
<1>6. Index <= Half
  BY <1>1, PowerSplit DEF Index, Half
<1>7. Range \in Nat \ {0} /\ Range = 2 * Half * Half
  <2>1. Half * Half \in Nat \ {0} /\ Half * (2 * Half) = 2 * Half * Half
    BY <1>2
  <2>. HIDE DEF Base, Half
  <2>2. Range = 2 * Half * Half
    BY <1>2, <2>1 DEF Range
  <2>3. 2 * Half * Half = 2 * (Half * Half)
    BY <1>2
  <2>. QED BY <2>1, <2>2, <2>3
<1>8. Index \in Nat \ {0} /\ Index % 2 = 0
  BY <1>5
<1>. QED BY <1>1, <1>3, <1>4, <1>5, <1>6, <1>7, <1>8

\* Numbers of two slices are what SignedPair makes of them.
LEMMA UpperPairs ==
  /\ UpperRange = -Range .. Range - 1
  /\ \A x \in Int : x \in UpperRange => SignedPair(x) = x
<1>1. ASSUME NEW x \in Int, x \in UpperRange PROVE SignedPair(x) = x
  <2>. DEFINE q == x \div Base
              r == x % Base
  <2>1. q \in Int /\ -Half <= q /\ q < Half
    BY <1>1, UpperDigits
  <2>. HIDE DEF q
  <2>2. FitsSlice(q)
    BY <2>1 DEF FitsSlice
  <2>. QED BY <2>2, PairFits DEF q
<1>. QED BY <1>1 DEF UpperRange, Range

\* Quotients.
LEMMA DivBounds ==
  ASSUME NEW n \in Nat \ {0}, NEW x \in Int
  PROVE  /\ x \div n \in Int /\ x % n \in 0 .. n - 1 /\ x = n * (x \div n) + (x % n)
         /\ n * (x \div n) <= x /\ x < n * (x \div n) + n
         /\ x >= 0 => x \div n \in 0 .. x
<1>. DEFINE q == x \div n
            r == x % n
<1>1. q \in Int /\ r \in 0 .. n - 1 /\ x = n * q + r
  OBVIOUS
<1>. HIDE DEF q, r
<1>2. ASSUME x >= 0 PROVE q \in 0 .. x
  <2>1. \A m \in Int : m < 0 => n * m <= -n
    OBVIOUS
  <2>2. \A m \in Nat : m <= n * m
    OBVIOUS
  <2>3. q >= 0
    BY <1>1, <1>2, <2>1
  <2>. QED BY <1>1, <2>2, <2>3
<1>3. n * q \in Int
  BY <1>1
<1>. QED BY <1>1, <1>2, <1>3 DEF q, r

\* The first half of the table: the reciprocal of a number between Index and
\* twice that is at least Base, in units a half of which are rounded away.
Quotient(n) == Power[SliceBits + TableBits + 9] \div (Index + n)
\* Its entries are that quotient, rounded, without their leading bit.
LEMMA ReciprocalEntry ==
  ASSUME NEW n \in 0 .. Index - 1
  PROVE  /\ ReciprocalLUT[n] = MinOf(Base - 1, (Quotient(n) + 1) \div 256 - Base)
         /\ ReciprocalLUT[n] \in Slice /\ Quotient(n) \in Nat
         /\ (Quotient(n) + 1) \div 256 \in Nat /\ (Quotient(n) + 1) \div 256 >= Base
<1>. DEFINE q == Quotient(n)
            P == Power[SliceBits + 8]
            N == Index + n
<1>1. /\ Index \in Nat \ {0} /\ Power[TableBits + 1] = 2 * Index
      /\ Base \in Nat \ {0} /\ Base = Power[SliceBits]
      /\ SliceBits \in Nat /\ TableBits \in Nat /\ SliceBits + 8 \in Nat
  BY DividerSizes, SliceSizes, SliceTypes
<1>2. Power[8] = 256
  BY PowerEight
<1>3. P = 256 * Base /\ P \in Nat \ {0}
  <2>1. P = Power[SliceBits] * Power[8]
    BY <1>1, PowerAdd
  <2>. QED BY <1>1, <1>2, <2>1, PowerSteps
<1>4. Power[SliceBits + TableBits + 9] = P * (2 * Index)
  <2>1. SliceBits + TableBits + 9 = (SliceBits + 8) + (TableBits + 1) /\ TableBits + 1 \in Nat
    BY <1>1
  <2>2. Power[(SliceBits + 8) + (TableBits + 1)] = P * Power[TableBits + 1]
    BY <1>1, <2>1, PowerAdd
  <2>. QED BY <1>1, <2>1, <2>2
<1>. HIDE DEF P
<1>5. N \in Nat \ {0} /\ N <= 2 * Index - 1
  BY <1>1
<1>. HIDE DEF N
<1>6. q = (P * (2 * Index)) \div N
  BY <1>4 DEF Quotient, N
<1>7. q \in Nat /\ q >= P
  <2>. DEFINE X == P * (2 * Index)
  <2>1. X \in Nat
    BY <1>1, <1>3
  <2>2. \A m \in Int : m < P => N * m + N <= N * P
    <3>. SUFFICES ASSUME NEW m \in Int, m < P PROVE N * m + N <= N * P
      OBVIOUS
    <3>1. N * (m + 1) <= N * P
      BY <1>3, <1>5
    <3>2. N * (m + 1) = N * m + N
      BY <1>5
    <3>. QED BY <3>1, <3>2
  <2>3. N * P <= X
    <3>1. P * N <= P * (2 * Index)
      BY <1>1, <1>3, <1>5
    <3>2. P * N = N * P
      BY <1>3, <1>5
    <3>. QED BY <3>1, <3>2
  <2>4. q = X \div N
    BY <1>6
  <2>. HIDE DEF X, q
  <2>5. q \in Int /\ X < N * q + N
    BY <1>5, <2>1, <2>4, DivBounds
  <2>6. N * q \in Int /\ N * P \in Int /\ X \in Int
    BY <1>3, <1>5, <2>1, <2>5
  <2>7. q >= P
    <3>. SUFFICES ASSUME q < P PROVE FALSE
      BY <1>3, <2>5
    <3>1. N * q + N <= N * P
      BY <2>2, <2>5
    <3>. QED BY <1>5, <2>3, <2>5, <2>6, <3>1
  <2>. QED BY <1>3, <2>5, <2>7
<1>. DEFINE z == (q + 1) \div 256
<1>8. z \in Nat /\ z >= Base
  <2>. HIDE DEF q
  <2>. QED BY <1>1, <1>3, <1>7
<1>9. ReciprocalLUT[n] = MinOf(Base - 1, z - Base)
  <2>1. n \in 0 .. Power[TableBits + 1] - 1 /\ n < Power[TableBits]
    BY <1>1 DEF Index
  <2>. QED BY <2>1 DEF ReciprocalLUT, Quotient, Index
<1>. HIDE DEF z, q
<1>10. MinOf(Base - 1, z - Base) \in Slice
  BY <1>1, <1>8 DEF MinOf, Slice
<1>. QED BY <1>7, <1>8, <1>9, <1>10 DEF z, q
\* A root rounded down exists.
LEMMA RootExists ==
  ASSUME NEW m \in Nat, NEW limit \in Nat \ {0}, NEW top \in Nat,
         m * (top + 1) * (top + 1) >= limit
  PROVE  \E r \in 0 .. top : m * r * r < limit /\ m * (r + 1) * (r + 1) >= limit
<1>. DEFINE T == {r \in Nat : m * (r + 1) * (r + 1) >= limit}
<1>1. top \in T
  OBVIOUS
<1>2. PICK r \in T : \A s \in T : r <= s
  BY <1>1, LeastNatural
<1>3. r \in 0 .. top
  BY <1>1, <1>2
<1>4. m * r * r < limit
  <2>1. CASE r = 0
    <3>1. m * r * r = 0
      BY <2>1
    <3>. QED BY <3>1
  <2>2. CASE r # 0
    <3>1. r - 1 \in Nat /\ ~(r <= r - 1) /\ (r - 1) + 1 = r
      BY <1>2, <2>2
    <3>2. ~(m * ((r - 1) + 1) * ((r - 1) + 1) >= limit)
      BY <1>2, <3>1
    <3>3. m * r * r \in Int
      BY <1>2
    <3>. QED BY <3>1, <3>2, <3>3
  <2>. QED BY <2>1, <2>2
<1>. QED BY <1>2, <1>3, <1>4

\* The second half: twice the root of the reciprocal of a number, rounded down.
RootNumber(n) == n \div (1 + (n % 2))
RootLimit == Power[2 * SliceBits + TableBits + 3]
IsRootOf(r, n) == /\ RootNumber(n) * r * r < RootLimit
                  /\ RootNumber(n) * (r + 1) * (r + 1) >= RootLimit
\* Roots of numbers between Index and twice that: their squares stay in bounds
\* that depend on the width only.
LEMMA RootSizes ==
  ASSUME NEW n \in Index .. 2 * Index - 1
  PROVE  /\ RootNumber(n) \in Nat /\ 2 * RootNumber(n) >= Index
         /\ RootNumber(n) < 2 * Index
         /\ RootLimit \in Nat \ {0} /\ RootLimit = 8 * (Base * Base * Index)
<1>1. /\ Index \in Nat \ {0} /\ Index % 2 = 0 /\ Base \in Nat \ {0} /\ Base = Power[SliceBits]
      /\ SliceBits \in Nat /\ TableBits \in Nat
  BY DividerSizes, SliceSizes, SliceTypes
<1>2. RootNumber(n) \in Nat /\ 2 * RootNumber(n) >= Index /\ RootNumber(n) < 2 * Index
  <2>1. CASE n % 2 = 0
    <3>1. RootNumber(n) = n
      BY <2>1 DEF RootNumber
    <3>. QED BY <1>1, <3>1
  <2>2. CASE n % 2 = 1
    <3>1. RootNumber(n) = n \div 2
      BY <2>2 DEF RootNumber
    <3>. QED BY <1>1, <3>1
  <2>. QED BY <1>1, <2>1, <2>2
<1>3. RootLimit = 8 * (Base * Base * Index)
  <2>. DEFINE three == 3
              b == Base * Base
  <2>1. Power[three] = 8 /\ three \in Nat
    BY PowerEight
  <2>2. /\ 2 * SliceBits + TableBits + 3 = (SliceBits + SliceBits) + (TableBits + three)
        /\ SliceBits + SliceBits \in Nat /\ TableBits + three \in Nat
    BY <1>1
  <2>. HIDE DEF three
  <2>3. RootLimit = Power[SliceBits + SliceBits] * Power[TableBits + three]
    BY <2>2, PowerAdd DEF RootLimit
  <2>4. Power[SliceBits + SliceBits] = b
    BY <1>1, PowerAdd
  <2>5. Power[TableBits + three] = Index * 8
    BY <1>1, <2>1, PowerAdd DEF Index
  <2>6. b \in Nat
    BY <1>1
  <2>. HIDE DEF b
  <2>7. b * (Index * 8) = 8 * (b * Index)
    BY <1>1, <2>6
  <2>8. RootLimit = 8 * (b * Index)
    BY <2>3, <2>4, <2>5, <2>7
  <2>. QED BY <2>8 DEF b
<1>4. Base * Base \in Nat \ {0}
  BY <1>1
<1>5. Base * Base * Index \in Nat \ {0}
  <2>. DEFINE b == Base * Base
  <2>. HIDE DEF b
  <2>1. b * Index \in Nat \ {0}
    BY <1>1, <1>4 DEF b
  <2>. QED BY <2>1 DEF b
<1>. QED BY <1>2, <1>3, <1>5

\* Every entry of the second half is half such a root, without its leading bit.
LEMMA RootEntryIs ==
  ASSUME NEW n \in Index .. 2 * Index - 1
  PROVE  \E r \in 0 .. 8 * Base : IsRootOf(r, n) /\ ReciprocalLUT[n] = (r \div 2) % Base
<1>. DEFINE m == RootNumber(n)
            top == 8 * Base
<1>1. /\ Index \in Nat \ {0} /\ Power[TableBits + 1] = 2 * Index /\ Base \in Nat \ {0}
  BY DividerSizes, SliceTypes
<1>2. /\ m \in Nat /\ 2 * m >= Index /\ RootLimit \in Nat \ {0}
      /\ RootLimit = 8 * (Base * Base * Index)
  BY RootSizes
<1>3. top \in Nat
  BY <1>1
<1>. HIDE DEF m
<1>4. m * (top + 1) * (top + 1) >= RootLimit
  <2>. DEFINE b == Base * Base
  <2>1. b \in Nat \ {0} /\ (top + 1) * (top + 1) \in Nat /\ (top + 1) * (top + 1) >= 64 * b
    <3>1. (top + 1) * (top + 1) = 64 * (Base * Base) + 16 * Base + 1
      BY <1>1
    <3>. QED BY <1>1, <3>1
  <2>. DEFINE u == (top + 1) * (top + 1)
  <2>2. m * (top + 1) * (top + 1) = m * u
    BY <1>2, <1>3
  <2>. HIDE DEF u, b
  <2>3. m * u >= m * (64 * b)
    BY <1>2, <2>1 DEF u
  <2>4. m * (64 * b) = 32 * ((2 * m) * b)
    BY <1>2, <2>1
  <2>5. (2 * m) * b >= Index * b
    BY <1>1, <1>2, <2>1
  <2>6. Index * b = Base * Base * Index
    BY <1>1 DEF b
  <2>7. m * u \in Int /\ (2 * m) * b \in Int /\ m * (64 * b) \in Int /\ Index * b \in Nat
    BY <1>1, <1>2, <2>1 DEF u
  <2>. QED BY <1>2, <2>2, <2>3, <2>4, <2>5, <2>6, <2>7
<1>5. \E r \in 0 .. top : IsRootOf(r, n)
  BY <1>2, <1>3, <1>4, RootExists DEF IsRootOf, m
<1>. DEFINE root == CHOOSE r \in 0 .. 8 * Base : IsRootOf(r, n)
<1>6. root \in 0 .. 8 * Base /\ IsRootOf(root, n)
  BY <1>5
<1>7. ReciprocalLUT[n] = (root \div 2) % Base
  <2>1. n \in 0 .. Power[TableBits + 1] - 1 /\ ~(n < Power[TableBits])
    BY <1>1 DEF Index
  <2>. QED BY <2>1 DEF ReciprocalLUT, IsRootOf, RootNumber, RootLimit
<1>. QED BY <1>6, <1>7

\* Every entry is a slice.
LEMMA EntryTypes ==
  ASSUME NEW n \in 0 .. 2 * Index - 1
  PROVE  ReciprocalLUT[n] \in Slice
<1>1. Index \in Nat \ {0} /\ Base \in Nat \ {0}
  BY DividerSizes, SliceTypes
<1>2. CASE n < Index
  BY <1>1, <1>2, ReciprocalEntry
<1>3. CASE n >= Index
  <2>1. PICK r \in 0 .. 8 * Base : ReciprocalLUT[n] = (r \div 2) % Base
    BY <1>1, <1>3, RootEntryIs
  <2>. QED BY <1>1, <2>1 DEF Slice
<1>. QED BY <1>1, <1>2, <1>3
\* The magnitude of a number, its leading bit and the index behind that.
LEMMA MagnitudeTypes ==
  ASSUME NEW x \in UpperRange \ {0}
  PROVE  Magnitude(x) \in 1 .. Range - 1
<1>1. x \in -Range .. Range - 1 /\ x # 0 /\ Half \in Nat \ {0} /\ Range = 2 * (Half * Half)
  <2>1. Half \in Nat \ {0} /\ Range = 2 * Half * Half
    BY DividerSizes, SliceTypes
  <2>. HIDE DEF Range
  <2>2. 2 * Half * Half = 2 * (Half * Half)
    BY <2>1
  <2>. QED BY <2>1, <2>2, UpperPairs
<1>2. Half * Half \in Nat /\ Half * Half >= Half
  BY <1>1
<1>. DEFINE b == Half * Half
<1>. HIDE DEF b, Range
<1>3. Half < Range /\ Range \in Nat
  BY <1>1, <1>2 DEF b
<1>. QED BY <1>1, <1>3 DEF Magnitude

\* LeadingBit finds the power of two below a number of two slices.
LEMMA LeadingBitIs ==
  ASSUME NEW m \in 1 .. Range - 1
  PROVE  /\ LeadingBit(m) \in 0 .. 2 * SliceBits - 2
         /\ Power[LeadingBit(m)] \in Nat \ {0}
         /\ Power[LeadingBit(m)] <= m /\ m < 2 * Power[LeadingBit(m)]
<1>. DEFINE n == 2 * SliceBits - 1
            Leads(k) == Power[k] <= m /\ m < Power[k + 1]
            k == CHOOSE j \in 0 .. n : Leads(j)
<1>1. n \in Nat /\ Range = Power[n] /\ n - 1 = 2 * SliceBits - 2 /\ SliceBits \in Nat
  BY DividerSizes, SliceAssumption
<1>2. k = LeadingBit(m)
  BY DEF LeadingBit
<1>. HIDE DEF n
<1>3. \E j \in 0 .. n - 1 : Leads(j)
  BY <1>1, LeadingPower
<1>4. \E j \in 0 .. n : Leads(j)
  BY <1>1, <1>3
<1>. HIDE DEF Leads
<1>5. k \in 0 .. n /\ Leads(k)
  BY <1>4
<1>. HIDE DEF k
<1>6. Power[k] <= m /\ m < Power[k + 1] /\ k \in Nat
  BY <1>5 DEF Leads
<1>7. Power[k] \in Nat \ {0} /\ Power[k + 1] = 2 * Power[k]
  BY <1>6, PowerSteps
<1>8. k # n
  BY <1>1, <1>6, <1>7
<1>. QED BY <1>1, <1>2, <1>5, <1>6, <1>7, <1>8

\* The index into the table made of a number is in it, for roots as well.
LEMMA IndexTypes ==
  ASSUME NEW m \in Nat, NEW k \in 0 .. 2 * SliceBits - 2
  PROVE  /\ TableIndex(m, k) \in 0 .. Index - 1
         /\ ReciprocalLUT[TableIndex(m, k)] \in Slice
         /\ RootEntry(TableIndex(m, k), k) \in Slice
<1>1. /\ Index \in Nat \ {0} /\ Index % 2 = 0
      /\ SliceBits \in Nat /\ TableBits \in Nat /\ TableBits <= SliceBits - 1
  BY DividerSizes, SliceAssumption
<1>. DEFINE t == TableIndex(m, k)
            bit == (2 * SliceBits - 1 - k) % 2
<1>2. t \in 0 .. Index - 1
  <2>. DEFINE p == Power[2 * SliceBits - 1 - k]
              q == Power[2 * SliceBits - 1 - TableBits]
  <2>1. 2 * SliceBits - 1 - k \in Nat /\ 2 * SliceBits - 1 - TableBits \in Nat
    BY <1>1
  <2>2. p \in Nat /\ q \in Nat \ {0}
    BY <2>1, PowerSteps
  <2>3. t = ((m * p) \div q) % Index
    BY DEF TableIndex, Index
  <2>. HIDE DEF p, q, t
  <2>4. m * p \in Int
    BY <2>2
  <2>. DEFINE v == m * p
  <2>. HIDE DEF v
  <2>5. v \div q \in Int
    BY <2>2, <2>4, DivBounds DEF v
  <2>. QED BY <1>1, <2>3, <2>5 DEF v
<1>. HIDE DEF t
<1>3. bit \in 0 .. 1
  BY <1>1
<1>. HIDE DEF bit
<1>4. /\ t \in 0 .. 2 * Index - 1
      /\ Index + 2 * (t \div 2) + bit \in 0 .. 2 * Index - 1
  BY <1>1, <1>2, <1>3
<1>5. RootEntry(t, k) = ReciprocalLUT[Index + 2 * (t \div 2) + bit]
  BY DEF RootEntry, Index, bit
<1>. QED BY <1>2, <1>4, <1>5, EntryTypes DEF t

\* A quotient: a leading one with a table entry behind it, shifted down.
Mantissa(f) == Half * Half + f * (Half \div 2)
\* It is below the sign bit.
LEMMA MantissaTypes ==
  ASSUME NEW f \in Slice
  PROVE  Mantissa(f) \in Half * Half .. Range - 1
<1>. DEFINE h == Half \div 2
            b == Half * Half
<1>1. /\ h \in Nat \ {0} /\ Half = 2 * h /\ Half \in Nat \ {0}
      /\ Range = 2 * Half * Half
  BY DividerSizes, SliceTypes
<1>2. b \in Nat \ {0} /\ Range = 2 * b /\ b = 2 * Half * h /\ Base = 2 * Half
  <2>. HIDE DEF h, Range
  <2>1. b \in Nat \ {0} /\ 2 * Half * Half = 2 * b /\ Half * (2 * h) = 2 * Half * h
    BY <1>1
  <2>. QED BY <1>1, <2>1 DEF Base
<1>3. f \in 0 .. 2 * Half - 1
  BY <1>2 DEF Slice
<1>. HIDE DEF h, Range
<1>4. f * h \in Nat /\ f * h <= (2 * Half - 1) * h
  BY <1>1, <1>3
<1>5. (2 * Half - 1) * h = 2 * Half * h - h
  BY <1>1
<1>. HIDE DEF b
<1>. DEFINE u == f * h
            w == 2 * Half * h
<1>6. Mantissa(f) = b + u
  BY DEF Mantissa, h, b
<1>7. u \in Nat /\ u <= w - h
  BY <1>4, <1>5
<1>. HIDE DEF u, w
<1>8. b + u \in b .. Range - 1
  BY <1>1, <1>2, <1>7 DEF w
<1>. QED BY <1>6, <1>8 DEF b

\* What Divide is for a number that is not zero.
LEMMA DivideIs ==
  ASSUME NEW x \in UpperRange \ {0}, NEW root \in BOOLEAN, NEW m, m = Magnitude(x)
  PROVE  \E k \in 0 .. 2 * SliceBits - 2 :
           LET f == IF root THEN RootEntry(TableIndex(m, k), k)
                    ELSE ReciprocalLUT[TableIndex(m, k)]
               q == Mantissa(f) \div Power[IF root THEN k \div 2 ELSE k] IN
           /\ m \in 1 .. Range - 1 /\ Power[k] \in Nat \ {0}
           /\ Power[k] <= m /\ m < 2 * Power[k]
           /\ TableIndex(m, k) \in 0 .. Index - 1 /\ f \in Slice
           /\ q \in 0 .. Range - 1
           /\ Divide(x, root) = IF x < 0 THEN -1 - q ELSE q
<1>. DEFINE k == LeadingBit(m)
            f == IF root THEN RootEntry(TableIndex(m, k), k)
                 ELSE ReciprocalLUT[TableIndex(m, k)]
            e == IF root THEN k \div 2 ELSE k
            q == Mantissa(f) \div Power[e]
<1>1. m \in 1 .. Range - 1 /\ Range \in Nat /\ SliceBits \in Nat
  BY MagnitudeTypes, DividerSizes, SliceAssumption
<1>2. /\ k \in 0 .. 2 * SliceBits - 2 /\ Power[k] \in Nat \ {0}
      /\ Power[k] <= m /\ m < 2 * Power[k]
  BY <1>1, LeadingBitIs
<1>3. TableIndex(m, k) \in 0 .. Index - 1 /\ f \in Slice
  <2>1. m \in Nat
    BY <1>1
  <2>. HIDE DEF k
  <2>. QED BY <1>2, <2>1, IndexTypes
<1>4. e \in Nat
  <2>. HIDE DEF k
  <2>. QED BY <1>1, <1>2
<1>5. Divide(x, root) = IF x < 0 THEN -1 - q ELSE q
  BY DEF Divide, Mantissa
<1>. HIDE DEF f, e
<1>6. q \in 0 .. Range - 1
  <2>1. Power[e] \in Nat \ {0} /\ Mantissa(f) \in Half * Half .. Range - 1
    BY <1>3, <1>4, PowerSteps, MantissaTypes
  <2>2. Mantissa(f) \in Nat /\ Mantissa(f) <= Range - 1
    <3>1. Half \in Nat /\ (Half \in Nat => Half * Half \in Nat)
      BY SliceSizes
    <3>. QED BY <1>1, <2>1, <3>1
  <2>. DEFINE p == Power[e]
              y == Mantissa(f)
  <2>3. p \in Nat \ {0} /\ y \in Int /\ y >= 0 /\ y <= Range - 1
    BY <2>1, <2>2
  <2>. HIDE DEF p, y
  <2>4. y \div p \in 0 .. y
    BY <2>3, DivBounds
  <2>. QED BY <1>1, <2>3, <2>4 DEF p, y
<1>. QED BY <1>1, <1>2, <1>3, <1>5, <1>6 DEF f, e

\* So what the divider holds after an instruction fits in two slices.
LEMMA DivideTypes ==
  ASSUME NEW x \in UpperRange, NEW root \in BOOLEAN
  PROVE  Divide(x, root) \in UpperRange
<1>1. UpperRange = -Range .. Range - 1 /\ Range \in Nat \ {0} /\ Range = 2 * Half * Half
  BY UpperPairs, DividerSizes
<1>2. CASE x = 0
  <2>1. Divide(x, root) = 2 * Half * Half - 1
    BY <1>2 DEF Divide
  <2>2. Divide(x, root) = Range - 1
    BY <1>1, <2>1
  <2>. HIDE DEF Range
  <2>. QED BY <1>1, <2>2
<1>3. CASE x # 0
  <2>1. PICK q \in 0 .. Range - 1 : Divide(x, root) = IF x < 0 THEN -1 - q ELSE q
    BY <1>3, DivideIs
  <2>. HIDE DEF Range
  <2>. QED BY <1>1, <2>1
<1>. QED BY <1>2, <1>3
\* One lane of a register is written.
LEMMA LaneWritten ==
  ASSUME NEW regs \in [VReg -> Vector], NEW vd \in VReg, NEW de \in Lane, NEW s \in Slice
  PROVE  [regs EXCEPT ![vd][de] = s] \in [VReg -> Vector]
<1>1. [regs[vd] EXCEPT ![de] = s] \in Vector
  BY DEF Vector
<1>. QED BY <1>1

\* VRCP, VRCPL and VRSQL.
LEMMA DividesSafe ==
  ASSUME NEW c \in SafeUnit, NEW vd \in VReg, NEW de \in Lane, NEW vt \in Vector,
         NEW number \in UpperRange, NEW root \in BOOLEAN
  PROVE  Divides(c, vd, de, vt, number, root) \in SafeUnit
<1>. DEFINE q == Divide(number, root)
            regs == [c.regs EXCEPT ![vd][de] = Wrap(q)]
            d == Divides(c, vd, de, vt, number, root)
<1>1. q \in UpperRange /\ q \in Int /\ number \in Int
  BY DivideTypes DEF UpperRange
<1>. HIDE DEF q
<1>2. c \in Unit
  BY DEF SafeUnit
<1>3. regs \in [VReg -> Vector]
  <2>1. Wrap(q) \in Slice
    BY <1>1, SliceTypes
  <2>. QED BY <1>2, <2>1, LaneWritten DEF Unit
<1>4. d = [c EXCEPT !.divIn = number, !.divOut = q, !.doublePrecision = FALSE,
                    !.accLow = vt, !.regs = regs]
  BY <1>2 DEF Divides, q, Unit
<1>. HIDE DEF regs, d
<1>5. d \in Unit /\ d.divIn = number /\ d.divOut = q /\ d.doublePrecision = FALSE
  BY <1>1, <1>2, <1>3, <1>4 DEF Unit
<1>. QED BY <1>1, <1>5 DEF SafeUnit, DividerFits, d

\* VRCPH and VRSQH.
LEMMA HighSafe ==
  ASSUME NEW c \in SafeUnit, NEW vd \in VReg, NEW de \in Lane, NEW vt \in Vector,
         NEW slice \in Slice
  PROVE  RSPVRCPH(c, vd, de, vt, slice) \in SafeUnit
<1>. DEFINE s == Signed(slice)
            h == Wrap(c.divOut \div Base)
            regs == [c.regs EXCEPT ![vd][de] = h]
            d == RSPVRCPH(c, vd, de, vt, slice)
<1>1. c \in Unit /\ c.divOut \in UpperRange
  BY DEF SafeUnit, DividerFits
<1>2. s * Base \in UpperRange /\ s * Base \in Int /\ (s * Base) % Base = 0
  <2>1. s \in -Half .. Half - 1 /\ Base \in Nat \ {0} /\ Half \in Nat \ {0}
    BY SliceTypes, SliceSizes
  <2>. HIDE DEF s
  <2>2. s * Base <= (Half - 1) * Base /\ (-Half) * Base <= s * Base
    BY <2>1
  <2>3. (Half - 1) * Base = Half * Base - Base /\ (-Half) * Base = -(Half * Base)
    BY <2>1
  <2>4. s * Base \in Int /\ Half * Base \in Int
    BY <2>1
  <2>5. s * Base \in UpperRange
    BY <2>1, <2>2, <2>3, <2>4 DEF UpperRange
  <2>6. (s * Base) % Base = 0
    <3>. DEFINE b == Base
    <3>1. b \in Nat \ {0} /\ s \in Int
      BY <2>1
    <3>. HIDE DEF b
    <3>2. (s * b + 0) % b = 0
      BY <3>1, DivMod
    <3>3. s * b + 0 = s * b
      BY <3>1
    <3>. QED BY <3>2, <3>3 DEF b
  <2>. QED BY <2>4, <2>5, <2>6
<1>3. h \in Slice
  BY <1>1, UpperDigits, SliceTypes
<1>. HIDE DEF h, s
<1>4. regs \in [VReg -> Vector]
  BY <1>1, <1>3, LaneWritten DEF Unit
<1>5. d = [c EXCEPT !.divIn = s * Base, !.doublePrecision = TRUE,
                    !.accLow = vt, !.regs = regs]
  BY <1>1 DEF RSPVRCPH, h, s, Unit
<1>. HIDE DEF regs, d
<1>6. d \in Unit /\ d.divIn = s * Base /\ d.divOut = c.divOut
  BY <1>1, <1>2, <1>4, <1>5 DEF Unit
<1>. QED BY <1>1, <1>2, <1>6 DEF SafeUnit, DividerFits, d

\* What is divided fits two slices.
LEMMA OperandsFit ==
  ASSUME NEW c \in SafeUnit, NEW slice \in Slice
  PROVE  Signed(slice) \in UpperRange /\ LowOperand(c, slice) \in UpperRange
<1>1. /\ slice \in 0 .. Base - 1 /\ Signed(slice) \in -Half .. Half - 1
      /\ Base = 2 * Half /\ Half \in Nat \ {0} /\ Half >= 2 /\ Base \in Nat
  BY SliceTypes, SliceSizes
<1>2. Half * Base \in Nat /\ Half * Base >= 2 * Half
  <2>1. Half * Base \in Nat /\ Half * Base >= Half * 2
    BY <1>1
  <2>. QED BY <1>1, <2>1
<1>3. Signed(slice) \in UpperRange /\ slice \in UpperRange
  <2>. DEFINE p == Half * Base
  <2>. HIDE DEF p
  <2>. QED BY <1>1, <1>2 DEF UpperRange, p
<1>4. ASSUME c.doublePrecision PROVE c.divIn + slice \in UpperRange
  <2>. DEFINE q == c.divIn \div Base
  <2>1. c.divIn % Base = 0 /\ c.divIn \in UpperRange
    BY <1>4 DEF SafeUnit, DividerFits
  <2>2. q \in Int /\ -Half <= q /\ q < Half /\ c.divIn = q * Base + 0
    BY <2>1, UpperDigits
  <2>. HIDE DEF q
  <2>3. q * Base <= (Half - 1) * Base /\ (-Half) * Base <= q * Base
    BY <1>1, <2>2
  <2>4. (Half - 1) * Base = Half * Base - Base /\ (-Half) * Base = -(Half * Base)
    BY <1>1
  <2>5. q * Base \in Int /\ Half * Base \in Int
    BY <1>1, <2>2
  <2>. QED BY <1>1, <2>2, <2>3, <2>4, <2>5 DEF UpperRange
<1>. QED BY <1>3, <1>4 DEF LowOperand
\* The fields of a word name registers of the unit.
FieldsFit(iw) == iw.sa \in VReg /\ iw.rd \in VReg /\ iw.rt \in VReg /\ iw.rs \in Nat

\* RSPCycleCP2 leaves a state of the unit, whatever the word.
LEMMA CycleTypes ==
  ASSUME NEW c \in SafeUnit, NEW iw, FieldsFit(iw)
  PROVE  RSPCycleCP2(c, iw) \in SafeUnit
<1>. DEFINE op == RSPDecodeVectorInstruction(iw)
            vd == iw.sa
            e == iw.rs % 16
            de == iw.rd % 8
            vs == c.regs[iw.rd]
            vt == RSPGetVectorOperands(c.regs[iw.rt], e)
            slice == c.regs[iw.rt][e % 8]
            d == RSPCycleCP2(c, iw)
<1>1. c \in Unit /\ vd \in VReg /\ iw.rt \in VReg /\ vs \in Vector /\ c.regs[iw.rt] \in Vector
  BY DEF SafeUnit, FieldsFit, Unit
<1>2. e \in 0 .. 15 /\ e % 8 \in Lane /\ de \in Lane
  <2>1. iw.rs \in Nat /\ iw.rd \in Nat
    BY SliceAssumption DEF FieldsFit, VReg
  <2>. QED BY <2>1 DEF Lane
<1>3. vt \in Vector
  BY <1>1, <1>2, OperandTypes
<1>4. slice \in Slice
  BY <1>1, <1>2 DEF Vector
<1>5. ASSUME NEW b, Safe(c, b) PROVE b \in SafeUnit
  BY <1>5 DEF Safe, SafeUnit, DividerFits, DividerKept
<1>6. /\ op = "VADD" => d = RSPVADD(c, vd, vs, vt)
      /\ op = "VSUB" => d = RSPVSUB(c, vd, vs, vt)
      /\ op = "VADDC" => d = RSPVADDC(c, vd, vs, vt)
      /\ op = "VSUBC" => d = RSPVSUBC(c, vd, vs, vt)
      /\ op = "VABS" => d = RSPVABS(c, vd, vs, vt)
  BY DEF RSPCycleCP2, LogicOp, SelectOp, MultiplyOp, AccumulateOp
<1>7. op \in LogicOp => d = LogicOf(c, op, vd, vs, vt)
  BY DEF RSPCycleCP2, LogicOp, SelectOp, MultiplyOp, AccumulateOp
<1>8. op \in SelectOp => d = Select(c, op, vd, vs, vt)
  BY DEF RSPCycleCP2, SelectOp, LogicOp, MultiplyOp, AccumulateOp
<1>9. /\ op = "VMRG" => d = RSPVMRG(c, vd, vs, vt)
      /\ op = "VCH" => d = RSPVCH(c, vd, vs, vt)
      /\ op = "VCL" => d = RSPVCL(c, vd, vs, vt)
      /\ op = "VCR" => d = RSPVCR(c, vd, vs, vt)
  BY DEF RSPCycleCP2, SelectOp, LogicOp, MultiplyOp, AccumulateOp
<1>10. op \in MultiplyOp \cup AccumulateOp => d = MultiplyOf(c, op, vd, vs, vt)
  BY DEF RSPCycleCP2, SelectOp, LogicOp, MultiplyOp, AccumulateOp
<1>11. /\ op = "VMOV" => d = RSPVMOV(c, vd, de, vt)
       /\ op = "VSAR" => d = RSPVSAR(c, vd, e)
       /\ op = "VRCP" => d = Divides(c, vd, de, vt, Signed(slice), FALSE)
  BY DEF RSPCycleCP2, SelectOp, LogicOp, MultiplyOp, AccumulateOp
<1>12. /\ op = "VRCPL" => d = Divides(c, vd, de, vt, LowOperand(c, slice), FALSE)
       /\ op = "VRSQL" => d = Divides(c, vd, de, vt, LowOperand(c, slice), TRUE)
       /\ op \in {"VRCPH", "VRSQH"} => d = RSPVRCPH(c, vd, de, vt, slice)
  BY DEF RSPCycleCP2, SelectOp, LogicOp, MultiplyOp, AccumulateOp
<1>13. op \notin ({"VADD", "VSUB", "VADDC", "VSUBC", "VABS", "VMRG", "VCH", "VCL", "VCR",
                   "VMOV", "VSAR", "VRCP", "VRCPL", "VRSQL", "VRCPH", "VRSQH"}
                  \cup LogicOp \cup SelectOp \cup MultiplyOp \cup AccumulateOp) => d = c
  BY DEF RSPCycleCP2, SelectOp, LogicOp, MultiplyOp, AccumulateOp
<1>14. Signed(slice) \in UpperRange /\ LowOperand(c, slice) \in UpperRange
  BY <1>4, OperandsFit
<1>. HIDE DEF op, vd, e, de, vs, vt, slice, d
<1>15. op \in {"VADD", "VSUB", "VADDC", "VSUBC", "VABS", "VMRG"} => d \in SafeUnit
  BY <1>1, <1>3, <1>5, <1>6, <1>9, SumsSafe
<1>16. op \in {"VCH", "VCL", "VCR"} => d \in SafeUnit
  BY <1>1, <1>3, <1>5, <1>9, ClipsSafe
<1>17. op \in LogicOp => d \in SafeUnit
  BY <1>1, <1>3, <1>5, <1>7, DoLogic DEF Safe
<1>18. op \in SelectOp => d \in SafeUnit
  BY <1>1, <1>3, <1>5, <1>8, SelectSafe
<1>19. op = "VSAR" \/ op \in MultiplyOp \cup AccumulateOp => d \in SafeUnit
  BY <1>1, <1>2, <1>3, <1>5, <1>10, <1>11, AccumulatorSafe
<1>20. op = "VMOV" => d \in SafeUnit
  BY <1>1, <1>2, <1>3, <1>5, <1>11, Move DEF Safe
<1>21. op \in {"VRCP", "VRCPL", "VRSQL"} => d \in SafeUnit
  BY <1>1, <1>2, <1>3, <1>11, <1>12, <1>14, DividesSafe
<1>22. op \in {"VRCPH", "VRSQH"} => d \in SafeUnit
  BY <1>1, <1>2, <1>3, <1>4, <1>12, HighSafe
<1>. QED
  BY <1>13, <1>15, <1>16, <1>17, <1>18, <1>19, <1>20, <1>21, <1>22 DEF d
\* The words the programs are made of: their fields fit, and those that move
\* flags name a register that holds flags.
Fits(iw) ==
  /\ RSPDecodeInstruction(iw) = "VECT" => FieldsFit(iw)
  /\ RSPDecodeInstruction(iw) \in {"CFC2", "CTC2"} => iw.rt \in 1 .. 3
Fit(p) == Len(p) \in Nat /\ \A k \in 1 .. Len(p) : Fits(p[k])

\* More registers than Registers names, and elements.
LEMMA AllRegisters ==
  /\ 0 \in VReg /\ 1 \in VReg /\ 2 \in VReg /\ 3 \in VReg /\ 4 \in VReg
  /\ 5 \in VReg /\ 6 \in VReg /\ 7 \in VReg /\ 8 \in VReg /\ 9 \in VReg
  /\ 10 \in VReg /\ 11 \in VReg /\ 12 \in VReg /\ 13 \in VReg
BY ProgramsAssumption, SliceAssumption DEF VReg

Element == 0 .. 15
\* The elements the programs use.
LEMMA Elements ==
  /\ 0 \in Element /\ 3 \in Element /\ 4 \in Element /\ 5 \in Element /\ 6 \in Element
  /\ 7 \in Element /\ 8 \in Element /\ 9 \in Element /\ 10 \in Element /\ 12 \in Element
BY DEF Element

\* The instructions of the unit do,
LEMMA FittingV ==
  ASSUME NEW op, NEW vd \in VReg, NEW vs \in VReg, NEW vt \in VReg, NEW e \in Element
  PROVE  Fits(V(op, vd, vs, vt, e))
<1>. DEFINE iw == V(op, vd, vs, vt, e)
<1>1. iw.sa = vd /\ iw.rd = vs /\ iw.rt = vt /\ iw.rs = 16 + e /\ iw.op = 18
  BY DEF V
<1>. HIDE DEF iw
<1>2. FieldsFit(iw)
  BY <1>1 DEF FieldsFit, Element
<1>3. RSPDecodeInstruction(iw) = "VECT"
  BY <1>1 DEF RSPDecodeInstruction, Entry, COP2OpcodeTable, Row, Reserved, Element
<1>. QED BY <1>2, <1>3 DEF Fits, iw

\* and those that move the flags.
LEMMA FittingFlags ==
  ASSUME NEW rt \in 1 .. 3, NEW flag
  PROVE  Fits(CFC2(rt, flag)) /\ Fits(CTC2(rt, flag))
<1>1. ASSUME NEW iw, iw.rt = rt, iw.op = 18, iw.rs \in {2, 6} PROVE Fits(iw)
  <2>1. RSPDecodeInstruction(iw) # "VECT"
    BY <1>1 DEF RSPDecodeInstruction, Entry, COP2OpcodeTable, Row, Reserved
  <2>. QED BY <1>1, <2>1 DEF Fits
<1>. QED BY <1>1 DEF CFC2, CTC2

\* and so the programs consist of them.
LEMMA PairsFit == \A p \in PairPrograms : Fit(p)
<1>. USE FittingV, AllRegisters, Elements DEF Fit
<1>1. Fit(MixedFractions)
  BY DEF MixedFractions
<1>2. Fit(Crimp)
  BY DEF Crimp
<1>3. Fit(Distance)
  BY DEF Distance
<1>4. Fit(Logical)
  BY DEF Logical
<1>. QED BY <1>1, <1>2, <1>3, <1>4 DEF PairPrograms

\* Those of QuadruplePrograms,
LEMMA QuadruplesFit == \A p \in QuadruplePrograms : Fit(p)
<1>. USE FittingV, AllRegisters, Elements DEF Fit
<1>1. Fit(WideSum) /\ Fit(WideDifference)
  BY DEF WideSum, WideDifference
<1>2. Fit(TimesFraction) /\ Fit(TimesInteger)
  BY DEF TimesFraction, TimesInteger
<1>3. Fit(FractionSum) /\ Fit(UnsignedFractionSum) /\ Fit(Clip)
  BY DEF FractionSum, UnsignedFractionSum, Clip
<1>4. Fit(WideProduct)
  BY DEF WideProduct, Accumulator
<1>5. Fit(ProductFromTop)
  BY DEF ProductFromTop, Accumulator
<1>6. \A op \in SelectOp : Fit(Comparison(op))
  BY DEF Comparison
<1>. QED BY <1>1, <1>2, <1>3, <1>4, <1>5, <1>6 DEF QuadruplePrograms

\* of SamplePrograms,
LEMMA SamplesFit == \A p \in SamplePrograms : Fit(p)
<1>. USE FittingV, FittingFlags, AllRegisters, Elements DEF Fit
<1>1. Fit(Matrix) /\ Fit(LaneSum)
  BY DEF Matrix, LaneSum
<1>2. Fit(ClipInterrupted)
  BY DEF ClipInterrupted
<1>3. Fit(Backwards)
  <2>1. Len(Backwards) = 8 /\ \A k \in 1 .. 8 : Backwards[k] = V("VMOV", 5, k - 1, 1, 16 - k)
    BY DEF Backwards
  <2>2. \A k \in 1 .. 8 : k - 1 \in VReg /\ 16 - k \in Element
    BY ProgramsAssumption, SliceAssumption DEF VReg, Element
  <2>3. \A k \in 1 .. 8 : Fits(Backwards[k])
    BY <2>1, <2>2
  <2>. QED BY <2>1, <2>3
<1>. QED BY <1>1, <1>2, <1>3 DEF SamplePrograms

\* and of DividerPrograms.
LEMMA DividersFit == \A p \in DividerPrograms : Fit(p)
<1>. USE FittingV, AllRegisters, Elements DEF Fit
<1>1. Fit(Reciprocals)
  BY DEF Reciprocals
<1>2. Fit(SingleThenDouble) /\ Fit(DoubleInterrupted)
  BY DEF SingleThenDouble, DoubleInterrupted
<1>3. Fit(Root)
  BY DEF Root
<1>. QED BY <1>1, <1>2, <1>3 DEF DividerPrograms

\* The inductive invariant.
Sound ==
  /\ cp2 \in SafeUnit
  /\ flags \in [1 .. 3 -> (SUBSET Lane) \X (SUBSET Lane)]
  /\ Fit(prog) /\ pos \in Nat \ {0}

\* It holds at the start:
LEMMA SoundInit == Init => Sound
<1>. SUFFICES ASSUME Init PROVE Sound
  OBVIOUS
<1>1. start \in [1 .. 4 -> Vector] /\ pos = 1 /\ cp2 = Loaded
  BY ProgramsAssumption DEF Init, Loaded
<1>2. Fit(prog)
  BY PairsFit, QuadruplesFit, SamplesFit, DividersFit DEF Init
<1>3. Loaded \in SafeUnit
  <2>1. Loaded \in Unit
    BY <1>1, LoadedTypes
  <2>2. Loaded.divIn = 0 /\ Loaded.divOut = 0 /\ Loaded.doublePrecision = FALSE
    BY DEF Loaded, RSPInitCP2
  <2>3. 0 \in UpperRange
    BY UpperPairs, DividerSizes
  <2>. QED BY <2>1, <2>2, <2>3 DEF SafeUnit, DividerFits
<1>4. flags = [r \in 1 .. 3 |-> <<{}, {}>>]
  BY DEF Init
<1>. QED BY <1>1, <1>2, <1>3, <1>4 DEF Sound

\* The flags that go to a scalar register and come from one.
LEMMA FlagTypes ==
  ASSUME NEW c \in SafeUnit, NEW r, NEW f \in (SUBSET Lane) \X (SUBSET Lane)
  PROVE  RSPCFC2(c, r) \in (SUBSET Lane) \X (SUBSET Lane) /\ RSPCTC2(c, r, f) \in SafeUnit
<1>1. c \in Unit
  BY DEF SafeUnit
<1>2. RSPCFC2(c, r) \in (SUBSET Lane) \X (SUBSET Lane)
  BY <1>1 DEF RSPCFC2, Unit
<1>. DEFINE d == RSPCTC2(c, r, f)
<1>3. f[1] \in SUBSET Lane /\ f[2] \in SUBSET Lane
  OBVIOUS
<1>4. \/ d = [c EXCEPT !.vcolo = f[1], !.vcohi = f[2]]
      \/ d = [c EXCEPT !.vccLe = f[1], !.vccGe = f[2]]
      \/ d = [c EXCEPT !.vce = f[1]]
  BY DEF RSPCTC2
<1>. HIDE DEF d
<1>5. d \in Unit /\ DividerKept(c, d)
  BY <1>1, <1>3, <1>4 DEF Unit, DividerKept
<1>6. d \in SafeUnit
  BY <1>5 DEF SafeUnit, DividerFits, DividerKept
<1>. QED BY <1>2, <1>6 DEF d

\* no step breaks it.
LEMMA SoundStep == Sound /\ [Next]_vars => Sound'
<1>. SUFFICES ASSUME Sound, [Next]_vars PROVE Sound'
  OBVIOUS
<1>. USE DEF Sound
<1>1. pos <= Len(prog) => Fits(prog[pos])
  BY DEF Fit
<1>2. CASE Vect
  <2>1. FieldsFit(prog[pos])
    BY <1>1, <1>2 DEF Vect, Fits
  <2>2. cp2' \in SafeUnit
    BY <1>2, <2>1, CycleTypes DEF Vect
  <2>. QED BY <1>2, <2>2 DEF Vect
<1>3. CASE FlagsToScalar
  <2>1. {} \in SUBSET Lane
    OBVIOUS
  <2>2. RSPCFC2(cp2, prog[pos].rd) \in (SUBSET Lane) \X (SUBSET Lane)
    BY <2>1, FlagTypes
  <2>3. flags' \in [1 .. 3 -> (SUBSET Lane) \X (SUBSET Lane)]
    BY <1>3, <2>2 DEF FlagsToScalar
  <2>. QED BY <1>3, <2>3 DEF FlagsToScalar
<1>4. CASE FlagsFromScalar
  <2>1. prog[pos].rt \in 1 .. 3
    BY <1>1, <1>4 DEF FlagsFromScalar, Fits
  <2>2. flags[prog[pos].rt] \in (SUBSET Lane) \X (SUBSET Lane)
    BY <2>1
  <2>3. cp2' \in SafeUnit
    BY <1>4, <2>2, FlagTypes DEF FlagsFromScalar
  <2>. QED BY <1>4, <2>3 DEF FlagsFromScalar
<1>5. CASE Done \/ UNCHANGED vars
  BY <1>5 DEF Done, vars
<1>. QED BY <1>2, <1>3, <1>4, <1>5 DEF Next

\* The unit stays one: registers and accumulator hold slices, flags lanes, the
\* divider numbers of two slices (struct RSPCP2), whatever a program does.
THEOREM TypeOKProved == Spec => []TypeOK
<1>1. Sound => TypeOK
  <2>. SUFFICES ASSUME Sound PROVE TypeOK
    OBVIOUS
  <2>1. cp2 \in Unit /\ cp2.divIn \in UpperRange /\ cp2.divOut \in UpperRange
    BY DEF Sound, SafeUnit, DividerFits
  <2>2. SignedPair(cp2.divIn) = cp2.divIn /\ SignedPair(cp2.divOut) = cp2.divOut
    BY <2>1, UpperPairs DEF Unit
  <2>. QED BY <2>1, <2>2 DEF TypeOK, Sound, Unit
<1>. QED BY <1>1, SoundInit, SoundStep, PTL DEF Spec
(***************************************************************************)
(* The program of logical operations.                                      *)
(***************************************************************************)
\* The decoder finds those, VMOV and the divider's instructions.
LEMMA AssembledToo ==
  ASSUME NEW op \in LogicOp
           \cup {"VMOV", "VRCP", "VRCPL", "VRCPH", "VRSQL", "VRSQH", "VNOP"},
         NEW vd, NEW vs, NEW vt, NEW e \in 0 .. 15
  PROVE  /\ RSPDecodeVectorInstruction(V(op, vd, vs, vt, e)) = op
         /\ RSPDecodeInstruction(V(op, vd, vs, vt, e)) = "VECT"
<1>. DEFINE iw == V(op, vd, vs, vt, e)
<1>1. iw.funct = VectorFunction[op] /\ iw.op = 18 /\ iw.rs = 16 + e
  BY DEF V
<1>. HIDE DEF iw
<1>2. ASSUME op \in LogicOp
      PROVE  RSPDecodeVectorInstruction(iw) = op
  BY <1>1, <1>2 DEF LogicOp, VectorFunction, RSPDecodeVectorInstruction, Entry,
                    COP2VectorOpcodeTable, Row
<1>3. ASSUME op \notin LogicOp
      PROVE  RSPDecodeVectorInstruction(iw) = op
  BY <1>1, <1>3 DEF VectorFunction, RSPDecodeVectorInstruction, Entry,
                    COP2VectorOpcodeTable, Row
<1>4. RSPDecodeInstruction(iw) = "VECT"
  BY <1>1 DEF RSPDecodeInstruction, Entry, COP2OpcodeTable, Row, Reserved
<1>. QED BY <1>2, <1>3, <1>4 DEF iw

\* A cycle with one of them.
Operates(c, d, op, vd, vs, vt) ==
  /\ d \in Unit
  /\ \A v \in VReg : v # vd => d.regs[v] = c.regs[v]
  /\ \A i \in Lane : d.regs[vd][i] = Logic(op, c.regs[vs][i], c.regs[vt][i])

\* Logical instructions read both operands before they write vd.
LEMMA CycleLogic ==
  ASSUME NEW c \in Unit, NEW vd \in VReg, NEW vs \in VReg, NEW vt \in VReg,
         NEW op \in LogicOp, NEW d, d = RSPCycleCP2(c, V(op, vd, vs, vt, 0))
  PROVE  Operates(c, d, op, vd, vs, vt)
<1>. DEFINE iw == V(op, vd, vs, vt, 0)
            x == c.regs[vs]
            y == c.regs[vt]
<1>1. iw.sa = vd /\ iw.rd = vs /\ iw.rt = vt /\ iw.rs % 16 = 0
  BY DEF V
<1>2. RSPDecodeVectorInstruction(iw) = op
  BY AssembledToo
<1>3. x \in Vector /\ y \in Vector /\ c.regs \in [VReg -> Vector]
  BY DEF Unit
<1>4. RSPGetVectorOperands(y, 0) = y
  BY <1>3, WholeVector
<1>5. d = RSPCycleCP2(c, iw)
  OBVIOUS
<1>. HIDE DEF iw
<1>6. d = LogicOf(c, op, vd, x, y)
  BY <1>1, <1>2, <1>4, <1>5
  DEF RSPCycleCP2, LogicOp, SelectOp, MultiplyOp, AccumulateOp, x, y
<1>. HIDE DEF x, y
<1>7. d \in Unit /\ d.regs = [c.regs EXCEPT ![vd] = [i \in Lane |-> Logic(op, x[i], y[i])]]
  BY <1>3, <1>6, DoLogic
<1>8. \A v \in VReg : v # vd => d.regs[v] = c.regs[v]
  BY <1>3, <1>7
<1>9. \A i \in Lane : d.regs[vd][i] = Logic(op, x[i], y[i])
  BY <1>3, <1>7
<1>. QED BY <1>7, <1>8, <1>9 DEF Operates, x, y

\* The laws the program relies on.
LEMMA LogicLaws ==
  ASSUME NEW x \in Slice, NEW y \in Slice
  PROVE  LET either == Logic("VOR", x, y)
             differ == Logic("VXOR", x, y) IN
         /\ 0 \in Slice /\ Logic("VNOR", x, 0) \in Slice /\ Logic("VNAND", y, y) \in Slice
         /\ Logic("VXOR", differ, y) = x
         /\ Logic("VNAND", Logic("VNOR", x, 0), Logic("VNAND", y, y)) = either
         /\ Logic("VNOR", Logic("VNXOR", differ, 0), 0) = Wrap(either - Logic("VAND", x, y))
<1>. DEFINE a == AndOf(x, y)
            w == x + y - 2 * a
<1>1. /\ x \in 0 .. Base - 1 /\ y \in 0 .. Base - 1 /\ 0 \in Slice /\ Base \in Nat
      /\ \A z \in Slice : Wrap(z) = z /\ z \in Int
  BY SliceTypes DEF Slice
<1>2. /\ a \in Slice /\ a \in Int /\ w \in Slice /\ Not(x) \in Slice /\ Not(y) \in Slice
      /\ AndOf(w, y) = y - a /\ AndOf(x, 0) = 0 /\ AndOf(y, y) = y /\ AndOf(y, x) = a
      /\ AndOf(y, Not(x)) = y - a
      /\ \A z \in Slice : AndOf(z, 0) = 0 /\ Not(z) \in Slice
  <2>1. /\ a \in Slice /\ w \in Slice /\ Not(x) \in Slice /\ Not(y) \in Slice
        /\ AndOf(w, y) = y - a /\ AndOf(x, 0) = 0 /\ AndOf(y, x) = a
        /\ AndOf(Not(x), y) = y - a
    BY SliceLogic
  <2>2. AndOf(y, y) = y /\ AndOf(y, Not(x)) = AndOf(Not(x), y)
    BY <2>1, SliceLogic
  <2>3. \A z \in Slice : AndOf(z, 0) = 0 /\ Not(z) \in Slice
    BY <1>1, SliceLogic
  <2>. QED BY <1>1, <2>1, <2>2, <2>3
<1>3. AndOf(Not(y), Not(x)) = Not(x) - (y - a)
  BY <1>2, SliceLogic
<1>4. AndOf(Not(x), Not(y)) = Not(x) - (y - a)
  BY <1>2, <1>3, SliceLogic
<1>. HIDE DEF a
<1>5. /\ Logic("VOR", x, y) = x + y - a /\ Logic("VXOR", x, y) = w
      /\ Logic("VAND", x, y) = a
  BY DEF Logic, a
<1>. HIDE DEF w
<1>6. w \in Int /\ w = x + y - 2 * a
  BY <1>1, <1>2 DEF w
<1>7. Logic("VXOR", w, y) = x
  <2>1. Logic("VXOR", w, y) = w + y - 2 * AndOf(w, y)
    BY DEF Logic
  <2>. QED BY <1>1, <1>2, <1>6, <2>1
<1>8. Logic("VNOR", x, 0) = Not(x) /\ Logic("VNAND", y, y) = Not(y)
  <2>1. Logic("VNOR", x, 0) = Not(x + 0 - AndOf(x, 0)) /\ Logic("VNAND", y, y) = Not(AndOf(y, y))
    BY DEF Logic
  <2>2. x + 0 - 0 = x
    BY <1>1
  <2>. QED BY <1>2, <2>1, <2>2
<1>9. Logic("VNAND", Not(x), Not(y)) = x + y - a
  <2>1. Logic("VNAND", Not(x), Not(y)) = Not(AndOf(Not(x), Not(y)))
    BY DEF Logic
  <2>2. Not(Not(x) - (y - a)) = x + y - a
    BY <1>1, <1>2 DEF Not
  <2>. QED BY <1>4, <2>1, <2>2
<1>10. Logic("VNOR", Logic("VNXOR", w, 0), 0) = w
  <2>1. Logic("VNXOR", w, 0) = Not(w + 0 - 2 * AndOf(w, 0))
    BY DEF Logic
  <2>2. w + 0 - 2 * 0 = w /\ AndOf(w, 0) = 0
    BY <1>2, <1>6
  <2>3. Logic("VNXOR", w, 0) = Not(w)
    BY <2>1, <2>2
  <2>4. Logic("VNOR", Not(w), 0) = Not(Not(w) + 0 - AndOf(Not(w), 0))
    BY DEF Logic
  <2>5. AndOf(Not(w), 0) = 0 /\ Not(w) \in Int
    BY <1>1, <1>2
  <2>6. Not(Not(w) + 0 - 0) = w
    BY <1>1, <1>6 DEF Not
  <2>. QED BY <2>3, <2>4, <2>5, <2>6
<1>11. Wrap(x + y - a - a) = w
  <2>1. x + y - a - a = w
    BY <1>1, <1>2, <1>6
  <2>. QED BY <1>1, <1>2, <2>1
<1>. QED BY <1>1, <1>2, <1>5, <1>7, <1>8, <1>9, <1>10, <1>11
\* The ten instructions of Logical, from any state of the unit.
LEMMA LogicalResult ==
  ASSUME NEW c, c[1] \in Unit, c[1].regs[0] = [j \in Lane |-> 0], NEW i \in Lane,
         c[2] = RSPCycleCP2(c[1], V("VXOR", 5, 1, 3, 0)),
         c[3] = RSPCycleCP2(c[2], V("VXOR", 6, 5, 3, 0)),
         c[4] = RSPCycleCP2(c[3], V("VNOR", 7, 1, 0, 0)),
         c[5] = RSPCycleCP2(c[4], V("VNAND", 8, 3, 3, 0)),
         c[6] = RSPCycleCP2(c[5], V("VNAND", 9, 7, 8, 0)),
         c[7] = RSPCycleCP2(c[6], V("VOR", 10, 1, 3, 0)),
         c[8] = RSPCycleCP2(c[7], V("VAND", 11, 1, 3, 0)),
         c[9] = RSPCycleCP2(c[8], V("VSUBC", 12, 10, 11, 0)),
         c[10] = RSPCycleCP2(c[9], V("VNXOR", 13, 5, 0, 0)),
         c[11] = RSPCycleCP2(c[10], V("VNOR", 13, 13, 0, 0))
  PROVE  /\ c[11] \in Unit
         /\ c[11].regs[6][i] = c[1].regs[1][i]
         /\ c[11].regs[9][i] = c[11].regs[10][i]
         /\ c[11].regs[12][i] = c[11].regs[13][i]
<1>. DEFINE x == c[1].regs[1][i]
            y == c[1].regs[3][i]
            differ == Logic("VXOR", x, y)
            either == Logic("VOR", x, y)
            both == Logic("VAND", x, y)
            notX == Logic("VNOR", x, 0)
            notY == Logic("VNAND", y, y)
            R(k, v) == c[k].regs[v][i]
<1>1. x \in Slice /\ y \in Slice
  BY Registers DEF Unit, Vector
<1>2. /\ Logic("VXOR", differ, y) = x /\ Logic("VNAND", notX, notY) = either
      /\ Logic("VNOR", Logic("VNXOR", differ, 0), 0) = Wrap(either - both)
  BY <1>1, LogicLaws
<1>3. c[1] \in Unit /\ R(1, 0) = 0 /\ R(1, 1) = x /\ R(1, 3) = y
  OBVIOUS
<1>. HIDE DEF x, y, differ, either, both, notX, notY
<1>. USE AllRegisters
<1>4. /\ "VXOR" \in LogicOp /\ "VNOR" \in LogicOp /\ "VNAND" \in LogicOp /\ "VOR" \in LogicOp
      /\ "VAND" \in LogicOp /\ "VNXOR" \in LogicOp
  BY DEF LogicOp
<1>5. /\ c[2] \in Unit /\ R(2, 0) = 0 /\ R(2, 1) = x /\ R(2, 3) = y /\ R(2, 5) = differ
  <2>1. Operates(c[1], c[2], "VXOR", 5, 1, 3)
    BY <1>3, <1>4, CycleLogic
  <2>. QED BY <1>3, <2>1 DEF Operates, differ
<1>6. /\ c[3] \in Unit /\ R(3, 0) = 0 /\ R(3, 1) = x /\ R(3, 3) = y /\ R(3, 5) = differ
      /\ R(3, 6) = x
  <2>1. Operates(c[2], c[3], "VXOR", 6, 5, 3)
    BY <1>4, <1>5, CycleLogic
  <2>. QED BY <1>2, <1>5, <2>1 DEF Operates
<1>7. /\ c[4] \in Unit /\ R(4, 0) = 0 /\ R(4, 1) = x /\ R(4, 3) = y /\ R(4, 5) = differ
      /\ R(4, 6) = x /\ R(4, 7) = notX
  <2>1. Operates(c[3], c[4], "VNOR", 7, 1, 0)
    BY <1>4, <1>6, CycleLogic
  <2>. QED BY <1>6, <2>1 DEF Operates, notX
<1>8. /\ c[5] \in Unit /\ R(5, 0) = 0 /\ R(5, 1) = x /\ R(5, 3) = y /\ R(5, 5) = differ
      /\ R(5, 6) = x /\ R(5, 7) = notX /\ R(5, 8) = notY
  <2>1. Operates(c[4], c[5], "VNAND", 8, 3, 3)
    BY <1>4, <1>7, CycleLogic
  <2>. QED BY <1>7, <2>1 DEF Operates, notY
<1>9. /\ c[6] \in Unit /\ R(6, 0) = 0 /\ R(6, 1) = x /\ R(6, 3) = y /\ R(6, 5) = differ
      /\ R(6, 6) = x /\ R(6, 9) = either
  <2>1. Operates(c[5], c[6], "VNAND", 9, 7, 8)
    BY <1>4, <1>8, CycleLogic
  <2>. QED BY <1>2, <1>8, <2>1 DEF Operates
<1>10. /\ c[7] \in Unit /\ R(7, 0) = 0 /\ R(7, 1) = x /\ R(7, 3) = y /\ R(7, 5) = differ
       /\ R(7, 6) = x /\ R(7, 9) = either /\ R(7, 10) = either
  <2>1. Operates(c[6], c[7], "VOR", 10, 1, 3)
    BY <1>4, <1>9, CycleLogic
  <2>. QED BY <1>9, <2>1 DEF Operates, either
<1>11. /\ c[8] \in Unit /\ R(8, 0) = 0 /\ R(8, 5) = differ
       /\ R(8, 6) = x /\ R(8, 9) = either /\ R(8, 10) = either /\ R(8, 11) = both
  <2>1. Operates(c[7], c[8], "VAND", 11, 1, 3)
    BY <1>4, <1>10, CycleLogic
  <2>. QED BY <1>10, <2>1 DEF Operates, both
<1>12. /\ c[9] \in Unit /\ R(9, 0) = 0 /\ R(9, 5) = differ
       /\ R(9, 6) = x /\ R(9, 9) = either /\ R(9, 10) = either
       /\ R(9, 12) = Wrap(either - both)
  <2>1. SubtractsLow(c[8], c[9], 12, 10, 11)
    BY <1>11, CycleVSUBC
  <2>. QED BY <1>11, <2>1 DEF SubtractsLow
<1>13. /\ c[10] \in Unit /\ R(10, 0) = 0
       /\ R(10, 6) = x /\ R(10, 9) = either /\ R(10, 10) = either
       /\ R(10, 12) = Wrap(either - both) /\ R(10, 13) = Logic("VNXOR", differ, 0)
  <2>1. Operates(c[9], c[10], "VNXOR", 13, 5, 0)
    BY <1>4, <1>12, CycleLogic
  <2>. QED BY <1>12, <2>1 DEF Operates
<1>14. /\ c[11] \in Unit
       /\ R(11, 6) = x /\ R(11, 9) = either /\ R(11, 10) = either
       /\ R(11, 12) = Wrap(either - both) /\ R(11, 13) = Wrap(either - both)
  <2>1. Operates(c[10], c[11], "VNOR", 13, 13, 0)
    BY <1>4, <1>13, CycleLogic
  <2>. QED BY <1>2, <1>13, <2>1 DEF Operates
<1>. QED BY <1>14 DEF x

\* The logical operations undo one another and agree with subtraction
\* (RSPVAND, RSPVNAND, RSPVOR, RSPVNOR, RSPVXOR, RSPVNXOR).
THEOREM LogicAgreesProved == Spec => []LogicAgrees
<1>1. Progress => LogicAgrees
  <2>. SUFFICES ASSUME Progress, After(Logical)
                PROVE  /\ cp2.regs[6] = start[1] /\ cp2.regs[9] = cp2.regs[10]
                       /\ cp2.regs[12] = cp2.regs[13]
    BY DEF LogicAgrees
  <2>. DEFINE p == Logical
              w1 == V("VXOR", 5, 1, 3, 0)
              w2 == V("VXOR", 6, 5, 3, 0)
              w3 == V("VNOR", 7, 1, 0, 0)
              w4 == V("VNAND", 8, 3, 3, 0)
              w5 == V("VNAND", 9, 7, 8, 0)
              w6 == V("VOR", 10, 1, 3, 0)
              w7 == V("VAND", 11, 1, 3, 0)
              w8 == V("VSUBC", 12, 10, 11, 0)
              w9 == V("VNXOR", 13, 5, 0, 0)
              w10 == V("VNOR", 13, 13, 0, 0)
  <2>1. /\ RSPDecodeInstruction(w1) = "VECT" /\ RSPDecodeInstruction(w2) = "VECT"
        /\ RSPDecodeInstruction(w3) = "VECT" /\ RSPDecodeInstruction(w4) = "VECT"
        /\ RSPDecodeInstruction(w5) = "VECT" /\ RSPDecodeInstruction(w6) = "VECT"
        /\ RSPDecodeInstruction(w7) = "VECT" /\ RSPDecodeInstruction(w9) = "VECT"
        /\ RSPDecodeInstruction(w10) = "VECT"
    BY AssembledToo DEF LogicOp
  <2>2. RSPDecodeInstruction(w8) = "VECT"
    BY Assembled DEF ProvedOp
  <2>3. p = <<w1, w2, w3, w4, w5, w6, w7, w8, w9, w10>>
    BY DEF Logical
  <2>. HIDE DEF p, w1, w2, w3, w4, w5, w6, w7, w8, w9, w10
  <2>4. /\ Len(p) = 10 /\ p[1] = w1 /\ p[2] = w2 /\ p[3] = w3 /\ p[4] = w4 /\ p[5] = w5
        /\ p[6] = w6 /\ p[7] = w7 /\ p[8] = w8 /\ p[9] = w9 /\ p[10] = w10
    BY <2>3
  <2>5. \A k \in 1 .. 10 : RSPDecodeInstruction(p[k]) = "VECT"
    <3>1. \A k \in 1 .. 10 : \/ k = 1 \/ k = 2 \/ k = 3 \/ k = 4 \/ k = 5
                             \/ k = 6 \/ k = 7 \/ k = 8 \/ k = 9 \/ k = 10
      OBVIOUS
    <3>. QED BY <2>1, <2>2, <2>4, <3>1
  <2>6. /\ start \in [1 .. 4 -> Vector] /\ Loaded \in Unit
        /\ \A v \in 1 .. 4 : Loaded.regs[v] = start[v]
        /\ \E c : Chain(c, p)
    BY <2>4, <2>5, Finished DEF p
  <2>7. PICK c : Chain(c, p)
    BY <2>6
  <2>8. /\ c[1] = Loaded /\ c[11] = cp2
        /\ c[2] = RSPCycleCP2(c[1], w1) /\ c[3] = RSPCycleCP2(c[2], w2)
        /\ c[4] = RSPCycleCP2(c[3], w3) /\ c[5] = RSPCycleCP2(c[4], w4)
        /\ c[6] = RSPCycleCP2(c[5], w5) /\ c[7] = RSPCycleCP2(c[6], w6)
        /\ c[8] = RSPCycleCP2(c[7], w7) /\ c[9] = RSPCycleCP2(c[8], w8)
        /\ c[10] = RSPCycleCP2(c[9], w9) /\ c[11] = RSPCycleCP2(c[10], w10)
    BY <2>4, <2>7 DEF Chain
  <2>9. c[1] \in Unit /\ c[1].regs[0] = [j \in Lane |-> 0] /\ c[1].regs[1] = start[1]
    BY <2>6, <2>8, LoadedTypes
  <2>10. ASSUME NEW i \in Lane
         PROVE  /\ cp2 \in Unit /\ cp2.regs[6][i] = start[1][i]
                /\ cp2.regs[9][i] = cp2.regs[10][i] /\ cp2.regs[12][i] = cp2.regs[13][i]
    BY <2>8, <2>9, LogicalResult DEF w1, w2, w3, w4, w5, w6, w7, w8, w9, w10
  <2>11. 0 \in Lane /\ start[1] \in Vector
    BY <2>6 DEF Lane
  <2>12. /\ cp2.regs[6] \in Vector /\ cp2.regs[9] \in Vector /\ cp2.regs[10] \in Vector
         /\ cp2.regs[12] \in Vector /\ cp2.regs[13] \in Vector
    BY <2>10, <2>11, AllRegisters DEF Unit
  <2>. QED BY <2>10, <2>11, <2>12 DEF Vector
<1>. QED BY <1>1, ProgressHolds, PTL
(***************************************************************************)
(* Elements: the programs in which lanes meet one another.                 *)
(***************************************************************************)
\* A cycle with an element specifier: the lanes of vt are those OperandLane
\* names, and VMOV moves one of them.
LEMMA CycleElement ==
  ASSUME NEW c \in Unit, NEW vd \in VReg, NEW vs \in VReg, NEW vt \in VReg,
         NEW e \in Element, NEW op \in {"VADDC", "VMUDH", "VMADH", "VMOV"},
         NEW d, d = RSPCycleCP2(c, V(op, vd, vs, vt, e))
  PROVE  \E w \in Vector :
           /\ \A i \in Lane : w[i] = c.regs[vt][OperandLane(e, i)]
           /\ op = "VADDC" => d = RSPVADDC(c, vd, c.regs[vs], w)
           /\ op \in {"VMUDH", "VMADH"} => d = MultiplyOf(c, op, vd, c.regs[vs], w)
           /\ op = "VMOV" => d = RSPVMOV(c, vd, vs % 8, w)
<1>. DEFINE iw == V(op, vd, vs, vt, e)
            y == c.regs[vt]
            w == RSPGetVectorOperands(y, e)
<1>1. iw.sa = vd /\ iw.rd = vs /\ iw.rt = vt /\ iw.rs % 16 = e
  BY DEF V, Element
<1>2. RSPDecodeVectorInstruction(iw) = op
  BY Assembled, AssembledToo DEF ProvedOp, MultiplyOp, AccumulateOp, Element
<1>3. y \in Vector
  BY DEF Unit
<1>4. w \in Vector /\ \A i \in Lane : w[i] = y[OperandLane(e, i)]
  BY <1>3, OperandTypes DEF Element
<1>5. d = RSPCycleCP2(c, iw)
  OBVIOUS
<1>. HIDE DEF iw
<1>6. w = RSPGetVectorOperands(c.regs[iw.rt], iw.rs % 16)
  BY <1>1
<1>. HIDE DEF w
<1>. USE DEF RSPCycleCP2, LogicOp, SelectOp, MultiplyOp, AccumulateOp
<1>7. op = "VADDC" => d = RSPVADDC(c, vd, c.regs[vs], w)
  BY <1>1, <1>2, <1>5, <1>6
<1>8. op \in {"VMUDH", "VMADH"} => d = MultiplyOf(c, op, vd, c.regs[vs], w)
  BY <1>1, <1>2, <1>5, <1>6
<1>9. op = "VMOV" => d = RSPVMOV(c, vd, vs % 8, w)
  BY <1>1, <1>2, <1>5, <1>6
<1>. QED BY <1>4, <1>7, <1>8, <1>9

\* VMOV brings lane e - 8 of vt to a lane of vd.
Moves(c, d, vd, de, vt, e) ==
  /\ d \in Unit /\ \A v \in VReg : v # vd => d.regs[v] = c.regs[v]
  /\ \A i \in Lane : d.regs[vd][i] = IF i = de THEN c.regs[vt][e - 8] ELSE c.regs[vd][i]

\* That is all it does to the registers.
LEMMA CycleVMOV ==
  ASSUME NEW c \in Unit, NEW vd \in VReg, NEW de \in Lane, NEW vt \in VReg,
         NEW e \in 8 .. 15, NEW d, d = RSPCycleCP2(c, V("VMOV", vd, de, vt, e))
  PROVE  Moves(c, d, vd, de, vt, e)
<1>1. de \in VReg /\ e \in Element /\ de % 8 = de
  BY ProgramsAssumption, SliceAssumption DEF Lane, VReg, Element
<1>2. PICK w \in Vector : /\ \A i \in Lane : w[i] = c.regs[vt][OperandLane(e, i)]
                          /\ d = RSPVMOV(c, vd, de, w)
  BY <1>1, CycleElement
<1>3. \A i \in Lane : OperandLane(e, i) = e - 8
  BY DEF OperandLane
<1>. QED BY <1>2, <1>3, Move DEF Moves

\* Backwards, instruction by instruction.
LEMMA BackwardsResult ==
  ASSUME NEW c, c[1] \in Unit, NEW v, v = c[1].regs[1],
         \A k \in 1 .. 8 : c[k + 1] = RSPCycleCP2(c[k], V("VMOV", 5, k - 1, 1, 16 - k))
  PROVE  \A i \in Lane : c[9].regs[5][i] = v[7 - i]
<1>. DEFINE Moved(k) == /\ c[k] \in Unit /\ c[k].regs[1] = v
                        /\ \A i \in Lane : i + 1 < k => c[k].regs[5][i] = v[7 - i]
            T == {n \in Nat : n <= 8 => Moved(n + 1)}
<1>1. 0 \in T
  BY DEF Lane
<1>2. ASSUME NEW n \in T PROVE n + 1 \in T
  <2>. SUFFICES ASSUME n + 1 <= 8 PROVE Moved((n + 1) + 1)
    OBVIOUS
  <2>. DEFINE k == n + 1
              e == 16 - k
  <2>1. k \in 1 .. 8 /\ Moved(k) /\ n \in Lane /\ k - 1 = n /\ e \in 8 .. 15 /\ e - 8 = 7 - n
    BY DEF Lane
  <2>2. c[k + 1] = RSPCycleCP2(c[k], V("VMOV", 5, n, 1, e))
    BY <2>1
  <2>. HIDE DEF e
  <2>3. Moves(c[k], c[k + 1], 5, n, 1, e)
    BY <2>1, <2>2, Registers, CycleVMOV
  <2>. HIDE DEF k
  <2>4. c[k + 1] \in Unit /\ c[k + 1].regs[1] = v
    BY <2>1, <2>3, Registers DEF Moves
  <2>5. ASSUME NEW i \in Lane, i + 1 < k + 1 PROVE c[k + 1].regs[5][i] = v[7 - i]
    <3>1. c[k + 1].regs[5][i] = IF i = n THEN v[7 - n] ELSE c[k].regs[5][i]
      BY <2>1, <2>3 DEF Moves
    <3>2. i = n \/ i + 1 < k
      BY <2>1, <2>5 DEF Lane
    <3>. QED BY <2>1, <3>1, <3>2
  <2>. QED BY <2>4, <2>5 DEF k
<1>3. \A n \in Nat : n \in T
  <2>. HIDE DEF T
  <2>. QED BY <1>1, <1>2, Induction DEF T
<1>4. Moved(9)
  <2>. HIDE DEF Moved
  <2>1. 8 \in Nat /\ 8 + 1 = 9
    OBVIOUS
  <2>2. 8 \in T
    BY <1>3, <2>1
  <2>. QED BY <2>1, <2>2
<1>. QED BY <1>4 DEF Lane

\* VADDC with an element specifier.
AddsElements(c, d, vd, vs, vt, e) ==
  /\ d \in Unit /\ \A v \in VReg : v # vd => d.regs[v] = c.regs[v]
  /\ \A i \in Lane : d.regs[vd][i] = Wrap(c.regs[vs][i] + c.regs[vt][OperandLane(e, i)])

\* It adds the lanes OperandLane picks, as they were before the cycle.
LEMMA CycleAddElement ==
  ASSUME NEW c \in Unit, NEW vd \in VReg, NEW vs \in VReg, NEW vt \in VReg,
         NEW e \in Element, NEW d, d = RSPCycleCP2(c, V("VADDC", vd, vs, vt, e))
  PROVE  AddsElements(c, d, vd, vs, vt, e)
<1>. DEFINE x == c.regs[vs]
<1>1. x \in Vector /\ c.regs \in [VReg -> Vector]
  BY DEF Unit
<1>2. PICK w \in Vector : /\ \A i \in Lane : w[i] = c.regs[vt][OperandLane(e, i)]
                          /\ d = RSPVADDC(c, vd, x, w)
  BY CycleElement
<1>. HIDE DEF x
<1>3. /\ d \in Unit
      /\ d.regs = [c.regs EXCEPT ![vd] = [i \in Lane |-> Wrap(x[i] + w[i])]]
  BY <1>1, <1>2, AddCarry
<1>. QED BY <1>1, <1>2, <1>3 DEF AddsElements, x
\* Whole multiples of the base do not show in the lowest digit.
LEMMA ModShift ==
  ASSUME NEW n \in Nat \ {0}, NEW z \in Int, NEW k \in Int
  PROVE  (z + k * n) % n = z % n /\ (z + k * n) \div n = z \div n + k
<1>. DEFINE q == z \div n
            r == z % n
<1>1. q \in Int /\ r \in 0 .. n - 1 /\ z = n * q + r
  BY DivBounds
<1>. HIDE DEF q, r
<1>2. z + k * n = (q + k) * n + r
  <2>1. n * q = q * n /\ (q + k) * n = q * n + k * n /\ q * n \in Int /\ k * n \in Int
    BY <1>1
  <2>. QED BY <1>1, <2>1
<1>3. q + k \in Int /\ n > 0
  BY <1>1
<1>. DEFINE p == q + k
<1>. HIDE DEF p
<1>4. (p * n + r) \div n = p /\ (p * n + r) % n = r
  BY <1>1, <1>3, DivMod DEF p
<1>5. (q * n + r) \div n = q /\ (q * n + r) % n = r
  BY <1>1, <1>3, DivMod
<1>. QED BY <1>1, <1>2, <1>4, <1>5 DEF p, q, r

\* Sums can be wrapped on the way.
LEMMA WrapSum ==
  ASSUME NEW x \in Int, NEW y \in Int
  PROVE  Wrap(Wrap(x) + Wrap(y)) = Wrap(x + y)
<1>. DEFINE n == Base
            q == x \div n
            r == x % n
            p == y \div n
            s == y % n
<1>1. n \in Nat \ {0}
  BY SliceTypes
<1>. HIDE DEF n
<1>2. /\ q \in Int /\ r \in Int /\ x = n * q + r
      /\ p \in Int /\ s \in Int /\ y = n * p + s
  BY <1>1, DivBounds
<1>3. Wrap(x) = r /\ Wrap(y) = s /\ Wrap(r + s) = (r + s) % n /\ Wrap(x + y) = (x + y) % n
  BY DEF Wrap, n
<1>. HIDE DEF q, r, p, s
<1>4. x + y = (r + s) + (q + p) * n
  <2>1. (q + p) * n = n * q + n * p /\ n * q \in Int /\ n * p \in Int
    BY <1>1, <1>2
  <2>. QED BY <1>2, <2>1
<1>5. r + s \in Int /\ q + p \in Int
  BY <1>2
<1>. DEFINE z == r + s
            k == q + p
<1>. HIDE DEF z, k
<1>6. (z + k * n) % n = z % n
  BY <1>1, <1>5, ModShift DEF z, k
<1>. QED BY <1>3, <1>4, <1>6 DEF z, k

\* LaneSum, instruction by instruction.
LEMMA LaneSumResult ==
  ASSUME NEW c0 \in Unit, NEW c1, NEW c2, NEW c3, NEW s, s = c0.regs[1],
         c1 = RSPCycleCP2(c0, V("VADDC", 5, 1, 1, 3)),
         c2 = RSPCycleCP2(c1, V("VADDC", 5, 5, 5, 6)),
         c3 = RSPCycleCP2(c2, V("VADDC", 5, 5, 5, 12))
  PROVE  c3.regs[5][0] = Wrap(s[0] + s[1] + s[2] + s[3] + s[4] + s[5] + s[6] + s[7])
<1>1. /\ 0 \in Lane /\ 1 \in Lane /\ 2 \in Lane /\ 3 \in Lane /\ 4 \in Lane
      /\ 5 \in Lane /\ 6 \in Lane /\ 7 \in Lane
  BY DEF Lane
<1>2. /\ OperandLane(3, 0) = 1 /\ OperandLane(3, 2) = 3 /\ OperandLane(3, 4) = 5
      /\ OperandLane(3, 6) = 7 /\ OperandLane(6, 0) = 2 /\ OperandLane(6, 4) = 6
      /\ OperandLane(12, 0) = 4
  BY DEF OperandLane
<1>3. AddsElements(c0, c1, 5, 1, 1, 3)
  BY Registers, Elements, CycleAddElement
<1>4. AddsElements(c1, c2, 5, 5, 5, 6)
  <2>1. c1 \in Unit
    BY <1>3 DEF AddsElements
  <2>. QED BY <2>1, Registers, Elements, CycleAddElement
<1>5. AddsElements(c2, c3, 5, 5, 5, 12)
  <2>1. c2 \in Unit
    BY <1>4 DEF AddsElements
  <2>. QED BY <2>1, Registers, Elements, CycleAddElement
<1>6. /\ s[0] \in Int /\ s[1] \in Int /\ s[2] \in Int /\ s[3] \in Int
      /\ s[4] \in Int /\ s[5] \in Int /\ s[6] \in Int /\ s[7] \in Int
  <2>1. s \in Vector
    BY Registers DEF Unit
  <2>. QED BY <1>1, <2>1, VectorTypes
<1>7. /\ c1.regs[5][0] = Wrap(s[0] + s[1]) /\ c1.regs[5][2] = Wrap(s[2] + s[3])
      /\ c1.regs[5][4] = Wrap(s[4] + s[5]) /\ c1.regs[5][6] = Wrap(s[6] + s[7])
  BY <1>1, <1>2, <1>3 DEF AddsElements
<1>8. /\ c2.regs[5][0] = Wrap(c1.regs[5][0] + c1.regs[5][2])
      /\ c2.regs[5][4] = Wrap(c1.regs[5][4] + c1.regs[5][6])
  BY <1>1, <1>2, <1>4 DEF AddsElements
<1>9. c3.regs[5][0] = Wrap(c2.regs[5][0] + c2.regs[5][4])
  BY <1>1, <1>2, <1>5 DEF AddsElements
<1>. DEFINE p == s[0] + s[1]
            q == s[2] + s[3]
            u == s[4] + s[5]
            v == s[6] + s[7]
<1>10. p \in Int /\ q \in Int /\ u \in Int /\ v \in Int
  BY <1>6
<1>11. p + q + (u + v) = s[0] + s[1] + s[2] + s[3] + s[4] + s[5] + s[6] + s[7]
  BY <1>6
<1>. HIDE DEF p, q, u, v
<1>12. /\ Wrap(Wrap(p) + Wrap(q)) = Wrap(p + q) /\ Wrap(Wrap(u) + Wrap(v)) = Wrap(u + v)
       /\ Wrap(Wrap(p + q) + Wrap(u + v)) = Wrap(p + q + (u + v))
  <2>1. Wrap(Wrap(p) + Wrap(q)) = Wrap(p + q)
    BY <1>10, WrapSum
  <2>2. Wrap(Wrap(u) + Wrap(v)) = Wrap(u + v)
    BY <1>10, WrapSum
  <2>. DEFINE pq == p + q
              uv == u + v
  <2>3. pq \in Int /\ uv \in Int
    BY <1>10
  <2>. HIDE DEF pq, uv
  <2>4. Wrap(Wrap(pq) + Wrap(uv)) = Wrap(pq + uv)
    BY <2>3, WrapSum
  <2>. QED BY <2>1, <2>2, <2>4 DEF pq, uv
<1>. QED BY <1>7, <1>8, <1>9, <1>11, <1>12 DEF p, q, u, v

\* Numbers that differ by whole squares of the base are one number of two
\* slices, so that these can be added up one by one.
LEMMA PairAdds ==
  ASSUME NEW a \in Int, NEW b \in Int
  PROVE  /\ SignedPair(a) \in Int
         /\ SignedPair(SignedPair(a) + b) = SignedPair(a + b)
<1>. DEFINE n == Base
            Q(x) == x \div n
            D(x) == (x \div n) % n
            R(x) == x % n
<1>1. n \in Nat \ {0}
  BY SliceTypes
<1>2. \A x \in Int : SignedPair(x) = Signed(D(x)) * n + R(x)
  BY DEF SignedPair, Pair
<1>3. \A d \in Int : Signed(d) = d \/ Signed(d) = d - n
  BY DEF Signed
<1>. HIDE DEF n
<1>4. ASSUME NEW x \in Int
      PROVE  /\ Q(x) \in Int /\ D(x) \in Int /\ R(x) \in Int /\ x = n * Q(x) + R(x)
             /\ \E j \in Int : Q(x) = n * j + D(x)
  <2>. DEFINE q == x \div n
  <2>1. q \in Int /\ x % n \in Int /\ x = n * q + (x % n)
    BY <1>1, DivBounds
  <2>. HIDE DEF q
  <2>2. q \div n \in Int /\ q % n \in Int /\ q = n * (q \div n) + (q % n)
    BY <1>1, <2>1, DivBounds
  <2>. QED BY <2>1, <2>2 DEF q
<1>5. ASSUME NEW x \in Int, NEW k \in Int
      PROVE  SignedPair(x + (k * n) * n) = SignedPair(x)
  <2>. DEFINE y == x + (k * n) * n
              m == k * n
  <2>1. m \in Int /\ y \in Int
    BY <1>1
  <2>2. Q(y) = Q(x) + m /\ R(y) = R(x)
    <3>. HIDE DEF m
    <3>1. (x + m * n) % n = x % n /\ (x + m * n) \div n = x \div n + m
      BY <1>1, <2>1, ModShift
    <3>. QED BY <3>1 DEF m
  <2>3. D(y) = D(x)
    <3>. DEFINE q == Q(x)
    <3>1. q \in Int
      BY <1>4
    <3>. HIDE DEF q, Q, y
    <3>2. (q + k * n) % n = q % n
      BY <1>1, <3>1, ModShift
    <3>. QED BY <2>2, <3>2 DEF q, Q
  <2>4. SignedPair(y) = Signed(D(y)) * n + R(y) /\ SignedPair(x) = Signed(D(x)) * n + R(x)
    BY <1>2, <2>1
  <2>. HIDE DEF D, R, y
  <2>. QED BY <2>2, <2>3, <2>4 DEF y
<1>6. ASSUME NEW x \in Int
      PROVE  SignedPair(x) \in Int /\ \E k \in Int : SignedPair(x) = x + (k * n) * n
  <2>1. /\ Q(x) \in Int /\ D(x) \in Int /\ R(x) \in Int /\ x = n * Q(x) + R(x)
        /\ SignedPair(x) = Signed(D(x)) * n + R(x)
    BY <1>2, <1>4
  <2>2. PICK j \in Int : Q(x) = n * j + D(x)
    BY <1>4
  <2>3. PICK t \in {0, 1} : Signed(D(x)) = D(x) - t * n
    <3>1. Signed(D(x)) = D(x) \/ Signed(D(x)) = D(x) - n
      BY <1>3, <2>1
    <3>2. D(x) = D(x) - 0 * n /\ D(x) - n = D(x) - 1 * n
      BY <1>1, <2>1
    <3>. QED BY <3>1, <3>2
  <2>. DEFINE d == D(x)
              r == R(x)
              k == -j - t
  <2>. HIDE DEF D, R, Q
  <2>4. d \in Int /\ r \in Int /\ t \in Int /\ k \in Int /\ x = n * (n * j + d) + r
        /\ SignedPair(x) = (d - t * n) * n + r
    BY <2>1, <2>2, <2>3
  <2>. HIDE DEF d, r
  <2>5. (d - t * n) * n + r = n * (n * j + d) + r + ((-j - t) * n) * n
    <3>1. (d - t * n) * n = d * n - (t * n) * n /\ n * (n * j + d) = (j * n) * n + d * n
          /\ ((-j - t) * n) * n = -((j * n) * n) - (t * n) * n
      BY <1>1, <2>4
    <3>2. d * n \in Int /\ (t * n) * n \in Int /\ (j * n) * n \in Int
      BY <1>1, <2>4
    <3>. QED BY <2>4, <3>1, <3>2
  <2>6. SignedPair(x) = x + (k * n) * n
    BY <2>4, <2>5
  <2>7. SignedPair(x) \in Int
    <3>1. (k * n) * n \in Int
      BY <1>1, <2>4
    <3>. HIDE DEF k
    <3>. QED BY <2>6, <3>1
  <2>. QED BY <2>4, <2>6, <2>7
<1>7. PICK k \in Int : SignedPair(a) = a + (k * n) * n
  BY <1>6
<1>8. SignedPair(a) \in Int
  BY <1>6
<1>9. SignedPair(a) + b = (a + b) + (k * n) * n /\ a + b \in Int
  <2>1. (k * n) * n \in Int
    BY <1>1
  <2>. QED BY <1>7, <2>1
<1>. QED BY <1>5, <1>8, <1>9
\* Products of whole slices (VMUDH, VMADH): the upper part of the accumulator
\* is the sum, as a number of two slices, and what goes to vd is that saturated.
SumsHigh(c, d, op, vd, s, t, i) ==
  /\ d \in Unit /\ \A v \in VReg : v # vd => d.regs[v] = c.regs[v]
  /\ op = "VMUDH" \/ c.accLow[i] = 0 =>
       LET before == IF op = "VMUDH" THEN 0 ELSE Pair(c.accHigh[i], c.accMid[i])
           after == SignedPair(before + Signed(s) * Signed(t)) IN
       /\ d.accLow[i] = 0 /\ Pair(d.accHigh[i], d.accMid[i]) = after
       /\ d.regs[vd][i] = Wrap(Sat(after))

\* These instructions do so in each lane.
LEMMA CycleHigh ==
  ASSUME NEW c \in Unit, NEW vd \in VReg, NEW vs \in VReg, NEW vt \in VReg,
         NEW e \in Element, NEW op \in {"VMUDH", "VMADH"}, NEW i \in Lane,
         NEW d, d = RSPCycleCP2(c, V(op, vd, vs, vt, e))
  PROVE  SumsHigh(c, d, op, vd, c.regs[vs][i], c.regs[vt][OperandLane(e, i)], i)
<1>. DEFINE x == c.regs[vs]
<1>1. x \in Vector
  BY DEF Unit
<1>2. PICK w \in Vector : /\ \A j \in Lane : w[j] = c.regs[vt][OperandLane(e, j)]
                          /\ d = MultiplyOf(c, op, vd, x, w)
  BY CycleElement
<1>3. op \in MultiplyOp \cup AccumulateOp
  BY DEF MultiplyOp, AccumulateOp
<1>. DEFINE s == Signed(x[i])
            t == Signed(w[i])
            b == IF op = "VMUDH" THEN 0 ELSE Pair(c.accHigh[i], c.accMid[i])
            u == b + s * t
            n == Base
<1>. HIDE DEF x
<1>4. /\ d \in Unit /\ \A v \in VReg : v # vd => d.regs[v] = c.regs[v]
      /\ Multiplied(c, d, op, x[i], w[i], vd, i)
  BY <1>1, <1>2, <1>3, Multiply
<1>5. s \in Int /\ t \in Int /\ s * t \in Int /\ b \in Int /\ u \in Int
  <2>1. s \in Int /\ t \in Int
    BY <1>1, VectorTypes
  <2>2. s * t \in Int
    BY <2>1
  <2>3. b \in Int
    BY TotalTypes
  <2>. HIDE DEF s, t, b
  <2>. QED BY <2>1, <2>2, <2>3
<1>6. ASSUME op = "VMUDH" \/ c.accLow[i] = 0
      PROVE  /\ d.accLow[i] = 0 /\ Pair(d.accHigh[i], d.accMid[i]) = SignedPair(u)
             /\ d.regs[vd][i] = Wrap(Sat(SignedPair(u)))
  <2>. DEFINE total == NewTotal(c, op, x[i], w[i], i)
  <2>1. n \in Nat /\ n > 0
    BY SliceTypes
  <2>2. total = u * n + 0
    <3>1. Product(op, x[i], w[i]) = s * t * n
      BY DEF Product, FractionOp
    <3>2. CASE op = "VMUDH"
      <4>1. total = s * t * n + 0
        BY <3>1, <3>2 DEF NewTotal, MultiplyOp, Rounding
      <4>2. b = 0
        BY <3>2
      <4>. HIDE DEF s, t, n, b, total
      <4>. QED BY <1>5, <2>1, <4>1, <4>2
    <3>3. CASE op = "VMADH"
      <4>1. total = Total(c, i) + s * t * n
        BY <3>1, <3>3 DEF NewTotal, MultiplyOp
      <4>2. Total(c, i) = b * n + 0
        BY <1>6, <3>3 DEF Total
      <4>. DEFINE m == s * t
      <4>. HIDE DEF s, t, n, b, total
      <4>3. total = (b * n + 0) + m * n /\ m \in Int
        BY <1>5, <4>1, <4>2
      <4>. HIDE DEF m
      <4>. QED BY <1>5, <2>1, <4>3 DEF m
    <3>. QED BY <3>2, <3>3
  <2>. HIDE DEF total, u, n
  <2>3. (u * n + 0) \div n = u /\ (u * n + 0) % n = 0
    BY <1>5, <2>1, DivMod
  <2>4. /\ d.accLow[i] = 0 /\ d.accMid[i] = Wrap(u) /\ d.accHigh[i] = Wrap(u \div n)
        /\ d.regs[vd][i] = ResultOf(op, Wrap(u \div n), Wrap(u), 0)
    BY <1>4, <2>2, <2>3 DEF Multiplied, total, n
  <2>5. Pair(Wrap(u \div n), Wrap(u)) = SignedPair(u)
    BY DEF SignedPair, Wrap, n
  <2>6. ResultOf(op, Wrap(u \div n), Wrap(u), 0) = Wrap(Sat(Pair(Wrap(u \div n), Wrap(u))))
    BY DEF ResultOf
  <2>. QED BY <2>4, <2>5, <2>6
<1>. QED BY <1>2, <1>4, <1>6 DEF SumsHigh, x

\* Matrix, instruction by instruction, in one lane.
LEMMA MatrixResult ==
  ASSUME NEW c0 \in Unit, NEW c1, NEW c2, NEW c3, NEW c4, NEW i \in Lane,
         c1 = RSPCycleCP2(c0, V("VMUDH", 5, 1, 3, 4)),
         c2 = RSPCycleCP2(c1, V("VMADH", 5, 2, 3, 5)),
         c3 = RSPCycleCP2(c2, V("VMADH", 5, 4, 3, 6)),
         c4 = RSPCycleCP2(c3, V("VMADH", 5, 3, 3, 7)),
         NEW r, r = c0.regs, NEW f, f = 4 * (i \div 4),
         NEW sum,
         sum = Signed(r[1][i]) * Signed(r[3][f]) + Signed(r[2][i]) * Signed(r[3][f + 1])
                        + Signed(r[4][i]) * Signed(r[3][f + 2])
                        + Signed(r[3][i]) * Signed(r[3][f + 3]),
         SignedPair(sum) = sum
  PROVE  c4.regs[5][i] = Wrap(Sat(sum))
<1>1. /\ f \in Lane /\ f + 1 \in Lane /\ f + 2 \in Lane /\ f + 3 \in Lane
      /\ OperandLane(4, i) = f /\ OperandLane(5, i) = f + 1
      /\ OperandLane(6, i) = f + 2 /\ OperandLane(7, i) = f + 3
  BY DEF Lane, OperandLane
<1>2. r \in [VReg -> Vector]
  BY DEF Unit
<1>. DEFINE t1 == Signed(r[1][i]) * Signed(r[3][f])
            t2 == Signed(r[2][i]) * Signed(r[3][f + 1])
            t3 == Signed(r[4][i]) * Signed(r[3][f + 2])
            t4 == Signed(r[3][i]) * Signed(r[3][f + 3])
            P(c) == Pair(c.accHigh[i], c.accMid[i])
            K(c) == /\ c \in Unit /\ c.accLow[i] = 0
                    /\ \A v \in VReg : v # 5 => c.regs[v] = r[v]
<1>3. t1 \in Int /\ t2 \in Int /\ t3 \in Int /\ t4 \in Int
  <2>1. \A v \in VReg, j \in Lane : Signed(r[v][j]) \in Int
    BY <1>2, VectorTypes
  <2>2. \A x, y \in Int : x * y \in Int
    OBVIOUS
  <2>. QED BY <1>1, <2>1, <2>2, Registers
<1>4. K(c1) /\ P(c1) = SignedPair(0 + t1)
  <2>1. SumsHigh(c0, c1, "VMUDH", 5, r[1][i], r[3][f], i)
    BY <1>1, Registers, Elements, CycleHigh
  <2>. QED BY <2>1 DEF SumsHigh
<1>5. K(c2) /\ P(c2) = SignedPair(P(c1) + t2)
  <2>1. SumsHigh(c1, c2, "VMADH", 5, c1.regs[2][i], c1.regs[3][f + 1], i)
    <3>1. c1 \in Unit
      BY <1>4
    <3>. QED BY <1>1, <3>1, Registers, Elements, CycleHigh
  <2>2. c1.regs[2] = r[2] /\ c1.regs[3] = r[3]
    BY <1>4, Registers
  <2>. QED BY <1>4, <2>1, <2>2 DEF SumsHigh
<1>6. K(c3) /\ P(c3) = SignedPair(P(c2) + t3)
  <2>1. SumsHigh(c2, c3, "VMADH", 5, c2.regs[4][i], c2.regs[3][f + 2], i)
    <3>1. c2 \in Unit
      BY <1>5
    <3>. QED BY <1>1, <3>1, Registers, Elements, CycleHigh
  <2>2. c2.regs[4] = r[4] /\ c2.regs[3] = r[3]
    BY <1>5, Registers
  <2>. QED BY <1>5, <2>1, <2>2 DEF SumsHigh
<1>7. c4.regs[5][i] = Wrap(Sat(SignedPair(P(c3) + t4)))
  <2>1. SumsHigh(c3, c4, "VMADH", 5, c3.regs[3][i], c3.regs[3][f + 3], i)
    <3>1. c3 \in Unit
      BY <1>6
    <3>. QED BY <1>1, <3>1, Registers, Elements, CycleHigh
  <2>2. c3.regs[3] = r[3]
    BY <1>6, Registers
  <2>. QED BY <1>6, <2>1, <2>2 DEF SumsHigh
<1>8. sum = t1 + t2 + t3 + t4
  OBVIOUS
<1>. DEFINE p1 == P(c1)
            p2 == P(c2)
            p3 == P(c3)
            s2 == t1 + t2
            s3 == s2 + t3
            s4 == s3 + t4
<1>9. /\ p1 = SignedPair(t1) /\ p2 = SignedPair(p1 + t2) /\ p3 = SignedPair(p2 + t3)
      /\ c4.regs[5][i] = Wrap(Sat(SignedPair(p3 + t4)))
  <2>1. 0 + t1 = t1
    BY <1>3
  <2>. HIDE DEF t1
  <2>. QED BY <1>4, <1>5, <1>6, <1>7, <2>1
<1>. HIDE DEF p1, p2, p3, t1, t2, t3, t4, K
<1>10. p2 = SignedPair(s2)
  BY <1>3, <1>9, PairAdds
<1>11. s2 \in Int /\ s3 \in Int /\ s4 \in Int /\ s4 = sum
  BY <1>3, <1>8
<1>. HIDE DEF s2
<1>12. p3 = SignedPair(s3)
  BY <1>3, <1>9, <1>10, <1>11, PairAdds
<1>. HIDE DEF s3
<1>13. SignedPair(p3 + t4) = SignedPair(s4)
  BY <1>3, <1>11, <1>12, PairAdds
<1>. QED BY <1>9, <1>11, <1>13
\* A program of four instructions.
LEMMA FourCycles ==
  ASSUME Progress, NEW p, After(p), NEW w1, NEW w2, NEW w3, NEW w4, p = <<w1, w2, w3, w4>>,
         \A iw \in {w1, w2, w3, w4} : RSPDecodeInstruction(iw) = "VECT"
  PROVE  /\ start \in [1 .. 4 -> Vector] /\ Loaded \in Unit
         /\ \A v \in 1 .. 4 : Loaded.regs[v] = start[v]
         /\ \E c1, c2, c3 :
              /\ c1 = RSPCycleCP2(Loaded, w1) /\ c2 = RSPCycleCP2(c1, w2)
              /\ c3 = RSPCycleCP2(c2, w3) /\ cp2 = RSPCycleCP2(c3, w4)
<1>1. Len(p) = 4 /\ p[1] = w1 /\ p[2] = w2 /\ p[3] = w3 /\ p[4] = w4
  OBVIOUS
<1>2. \A k \in 1 .. 4 : RSPDecodeInstruction(p[k]) = "VECT"
  BY <1>1
<1>3. /\ start \in [1 .. 4 -> Vector] /\ Loaded \in Unit
      /\ \A v \in 1 .. 4 : Loaded.regs[v] = start[v]
      /\ \E c : Chain(c, p)
  BY <1>1, <1>2, Finished
<1>4. PICK c : Chain(c, p)
  BY <1>3
<1>5. /\ c[2] = RSPCycleCP2(Loaded, w1) /\ c[3] = RSPCycleCP2(c[2], w2)
      /\ c[4] = RSPCycleCP2(c[3], w3) /\ cp2 = RSPCycleCP2(c[4], w4)
  BY <1>1, <1>4 DEF Chain
<1>. QED BY <1>3, <1>5

\* Elements (RSPGetVectorOperands) come out right: in the products of a matrix
\* and a vector, in a sum over the lanes, and where VMOV turns a vector around.
THEOREM ElementsMeetProved == Spec => []ElementsMeet
<1>1. Progress => ElementsMeet
  <2>. SUFFICES ASSUME Progress PROVE ElementsMeet
    OBVIOUS
  <2>1. ASSUME After(Matrix), NEW i \in Lane,
               NEW column, column = <<start[1], start[2], start[4], start[3]>>,
               NEW f, f = 4 * (i \div 4),
               NEW sum, sum = Signed(column[1][i]) * Signed(start[3][f + 1 - 1])
                              + Signed(column[2][i]) * Signed(start[3][f + 2 - 1])
                              + Signed(column[3][i]) * Signed(start[3][f + 3 - 1])
                              + Signed(column[4][i]) * Signed(start[3][f + 4 - 1]),
               SignedPair(sum) = sum
        PROVE  Reg(5, i) = Wrap(Sat(sum))
    <3>. DEFINE w1 == V("VMUDH", 5, 1, 3, 4)
                w2 == V("VMADH", 5, 2, 3, 5)
                w3 == V("VMADH", 5, 4, 3, 6)
                w4 == V("VMADH", 5, 3, 3, 7)
    <3>1. \A iw \in {w1, w2, w3, w4} : RSPDecodeInstruction(iw) = "VECT"
      BY Assembled DEF ProvedOp, MultiplyOp, AccumulateOp
    <3>2. Matrix = <<w1, w2, w3, w4>>
      BY DEF Matrix
    <3>. HIDE DEF w1, w2, w3, w4
    <3>3. /\ start \in [1 .. 4 -> Vector] /\ Loaded \in Unit
          /\ \A v \in 1 .. 4 : Loaded.regs[v] = start[v]
          /\ \E c1, c2, c3 :
               /\ c1 = RSPCycleCP2(Loaded, w1) /\ c2 = RSPCycleCP2(c1, w2)
               /\ c3 = RSPCycleCP2(c2, w3) /\ cp2 = RSPCycleCP2(c3, w4)
      BY <2>1, <3>1, <3>2, FourCycles
    <3>4. PICK c1, c2, c3 :
            /\ c1 = RSPCycleCP2(Loaded, w1) /\ c2 = RSPCycleCP2(c1, w2)
            /\ c3 = RSPCycleCP2(c2, w3) /\ cp2 = RSPCycleCP2(c3, w4)
      BY <3>3
    <3>. DEFINE r == Loaded.regs
    <3>5. r[1] = start[1] /\ r[2] = start[2] /\ r[3] = start[3] /\ r[4] = start[4]
      BY <3>3
    <3>6. f \in Nat /\ f + 1 - 1 = f /\ f + 2 - 1 = f + 1 /\ f + 3 - 1 = f + 2
          /\ f + 4 - 1 = f + 3
      BY <2>1 DEF Lane
    <3>7. column[1] = start[1] /\ column[2] = start[2] /\ column[3] = start[4]
          /\ column[4] = start[3]
      BY <2>1
    <3>8. sum = Signed(r[1][i]) * Signed(r[3][f]) + Signed(r[2][i]) * Signed(r[3][f + 1])
                + Signed(r[4][i]) * Signed(r[3][f + 2]) + Signed(r[3][i]) * Signed(r[3][f + 3])
      BY <2>1, <3>5, <3>6, <3>7
    <3>. HIDE DEF r
    <3>9. cp2.regs[5][i] = Wrap(Sat(sum))
      BY <2>1, <3>3, <3>4, <3>8, MatrixResult DEF r, w1, w2, w3, w4
    <3>. QED BY <3>9 DEF Reg
  <2>2. ASSUME After(LaneSum), NEW s, s = start[1]
        PROVE  Reg(5, 0) = Wrap(s[0] + s[1] + s[2] + s[3] + s[4] + s[5] + s[6] + s[7])
    <3>. DEFINE w1 == V("VADDC", 5, 1, 1, 3)
                w2 == V("VADDC", 5, 5, 5, 6)
                w3 == V("VADDC", 5, 5, 5, 12)
    <3>1. \A iw \in {w1, w2, w3} : RSPDecodeInstruction(iw) = "VECT"
      BY Assembled DEF ProvedOp
    <3>2. LaneSum = <<w1, w2, w3>>
      BY DEF LaneSum
    <3>. HIDE DEF w1, w2, w3
    <3>3. /\ Loaded \in Unit /\ Loaded.regs[1] = start[1]
          /\ \E c1, c2 : /\ c1 = RSPCycleCP2(Loaded, w1) /\ c2 = RSPCycleCP2(c1, w2)
                         /\ cp2 = RSPCycleCP2(c2, w3)
      BY <2>2, <3>1, <3>2, ThreeCycles
    <3>. QED BY <2>2, <3>3, LaneSumResult DEF Reg, w1, w2, w3
  <2>3. ASSUME After(Backwards), NEW i \in Lane
        PROVE  Reg(5, i) = start[1][7 - i]
    <3>. DEFINE w(k) == V("VMOV", 5, k - 1, 1, 16 - k)
                p == Backwards
    <3>1. Len(p) = 8 /\ \A k \in 1 .. 8 : p[k] = w(k)
      BY DEF Backwards
    <3>2. \A k \in 1 .. 8 : RSPDecodeInstruction(w(k)) = "VECT"
      <4>. TAKE k \in 1 .. 8
      <4>. DEFINE e == 16 - k
                  de == k - 1
      <4>1. e \in 0 .. 15
        OBVIOUS
      <4>. HIDE DEF e, de
      <4>2. RSPDecodeInstruction(V("VMOV", 5, de, 1, e)) = "VECT"
        BY <4>1, AssembledToo
      <4>. QED BY <4>2 DEF e, de
    <3>. HIDE DEF w, p
    <3>3. \A k \in 1 .. 8 : RSPDecodeInstruction(p[k]) = "VECT"
      BY <3>1, <3>2
    <3>4. /\ start \in [1 .. 4 -> Vector] /\ Loaded \in Unit
          /\ \A v \in 1 .. 4 : Loaded.regs[v] = start[v]
          /\ \E c : Chain(c, p)
      BY <2>3, <3>1, <3>3, Finished DEF p
    <3>5. PICK c : Chain(c, p)
      BY <3>4
    <3>6. /\ c[1] = Loaded /\ c[9] = cp2
          /\ \A k \in 1 .. 8 : c[k + 1] = RSPCycleCP2(c[k], w(k))
      BY <3>1, <3>5 DEF Chain
    <3>7. c[1] \in Unit /\ c[1].regs[1] = start[1]
      BY <3>4, <3>6
    <3>8. \A j \in Lane : c[9].regs[5][j] = start[1][7 - j]
      BY <3>6, <3>7, BackwardsResult DEF w
    <3>. QED BY <2>3, <3>6, <3>8 DEF Reg
  <2>. QED BY <2>1, <2>2, <2>3 DEF ElementsMeet
<1>. QED BY <1>1, ProgressHolds, PTL
(***************************************************************************)
(* The divider's precision.                                                *)
(***************************************************************************)
\* Products grow with their factors.
LEMMA Times ==
  ASSUME NEW a \in Int, NEW b \in Int, NEW c \in Nat, a <= b
  PROVE  a * c \in Int /\ b * c \in Int /\ a * c <= b * c /\ c * a <= c * b
<1>1. a * c \in Int /\ b * c \in Int /\ c * a = a * c /\ c * b = b * c
  OBVIOUS
<1>2. a * c <= b * c
  <2>1. (b - a) * c >= 0
    OBVIOUS
  <2>2. (b - a) * c = b * c - a * c
    OBVIOUS
  <2>. QED BY <1>1, <2>1, <2>2
<1>. QED BY <1>1, <1>2

\* and a factor can be taken from both sides.
LEMMA Cancel ==
  ASSUME NEW a \in Int, NEW b \in Int, NEW c \in Nat \ {0}
  PROVE  /\ c * a <= c * b => a <= b
         /\ c * a < c * b => a < b
<1>1. ASSUME a > b PROVE c * b + c <= c * a
  <2>1. (b + 1) * c <= a * c
    BY <1>1, Times
  <2>2. (b + 1) * c = c * b + c /\ a * c = c * a
    OBVIOUS
  <2>. QED BY <2>1, <2>2
<1>2. c * a \in Int /\ c * b \in Int
  OBVIOUS
<1>3. ASSUME c * a <= c * b PROVE a <= b
  <2>. SUFFICES ASSUME a > b PROVE FALSE
    OBVIOUS
  <2>. QED BY <1>1, <1>2, <1>3
<1>4. ASSUME c * a < c * b PROVE a < b
  <2>1. a <= b
    BY <1>2, <1>3, <1>4
  <2>2. a # b
    BY <1>4
  <2>. QED BY <2>1, <2>2
<1>. QED BY <1>3, <1>4

\* A number of k + 1 bits against the number N = Index + t that its index makes.
Indexed(m, p, N) ==
  /\ N * p <= m * Index /\ m * Index < (N + 1) * p
  /\ p >= Half => (m + 1) * Index <= (N + 1) * p

\* TableIndex makes such a number of the bits below the leading one.
LEMMA IndexBounds ==
  ASSUME NEW k \in 0 .. 2 * SliceBits - 2, NEW p, p = Power[k],
         NEW m \in 1 .. Range - 1, p <= m, m < 2 * p,
         NEW N, N = Index + TableIndex(m, k)
  PROVE  N \in Index .. 2 * Index - 1 /\ Indexed(m, p, N)
<1>. DEFINE R == Range
            a == Power[2 * SliceBits - 1 - k]
            b == Power[2 * SliceBits - 1 - TableBits]
            q == (m * a) \div b
            I == Index
<1>1. /\ SliceBits \in Nat /\ TableBits \in Nat /\ TableBits <= SliceBits - 1 /\ k \in Nat
      /\ 2 * SliceBits - 1 \in Nat /\ k <= 2 * SliceBits - 1
      /\ TableBits <= 2 * SliceBits - 1
  BY SliceAssumption
<1>2. R = Power[2 * SliceBits - 1] /\ R \in Nat \ {0} /\ I \in Nat \ {0} /\ m \in Nat
  BY DividerSizes
<1>3. p \in Nat \ {0} /\ a \in Nat \ {0} /\ R = a * p
  BY <1>1, <1>2, PowerSplit
<1>4. b \in Nat \ {0} /\ R = b * I
  BY <1>1, <1>2, PowerSplit DEF Index
<1>5. TableIndex(m, k) = q % I
  BY DEF TableIndex, Index
<1>. DEFINE x == m * a
<1>6. x \in Nat /\ R <= x /\ x < 2 * R
  <2>1. p * a <= m * a /\ m * a \in Int /\ (m + 1) * a <= (2 * p) * a
    BY <1>2, <1>3, Times
  <2>2. p * a = R /\ (m + 1) * a = m * a + a /\ (2 * p) * a = 2 * R
    BY <1>2, <1>3
  <2>. QED BY <1>2, <1>3, <2>1, <2>2
<1>. HIDE DEF a, b, R, I, x
<1>7. q = x \div b
  BY DEF x
<1>. HIDE DEF q
<1>8. q \in Int /\ b * q <= x /\ x < b * q + b
  BY <1>4, <1>6, <1>7, DivBounds
<1>9. I <= q /\ q < 2 * I
  <2>1. b * (q + 1) = b * q + b /\ b * q \in Int /\ b * (2 * I) = 2 * R /\ b * I = R
        /\ b * (q + 1) \in Int
    BY <1>2, <1>4, <1>8
  <2>2. b * I < b * (q + 1) /\ b * q < b * (2 * I)
    BY <1>2, <1>6, <1>8, <2>1
  <2>3. I < q + 1 /\ q < 2 * I
    <3>1. I \in Int /\ q + 1 \in Int /\ 2 * I \in Int
      BY <1>2, <1>8
    <3>2. I < q + 1
      BY <1>4, <2>2, <3>1, Cancel
    <3>3. q < 2 * I
      BY <1>4, <1>8, <2>2, <3>1, Cancel
    <3>. QED BY <3>2, <3>3
  <2>. QED BY <1>2, <1>8, <2>3
<1>10. N = q
  <2>1. q = 1 * I + (q - I) /\ q - I \in 0 .. I - 1
    BY <1>2, <1>8, <1>9
  <2>2. q % I = q - I
    <3>. DEFINE r == q - I
    <3>1. r \in 0 .. I - 1 /\ I > 0 /\ 1 \in Int
      BY <1>2, <2>1
    <3>. HIDE DEF r
    <3>2. (1 * I + r) % I = r
      BY <1>2, <3>1, DivMod
    <3>. QED BY <2>1, <3>2 DEF r
  <2>. QED BY <1>2, <1>5, <1>8, <2>2 DEF I
<1>11. N * p <= m * I /\ m * I < (N + 1) * p
  <2>. DEFINE P == p * I
  <2>1. P \in Nat \ {0}
    BY <1>2, <1>3
  <2>2. R * (N * p) = (b * N) * P /\ R * ((N + 1) * p) = (b * N + b) * P
    BY <1>2, <1>3, <1>4, <1>8, <1>10
  <2>3. R * (m * I) = x * P
    BY <1>2, <1>3 DEF x
  <2>. HIDE DEF P
  <2>4. (b * N) * P <= x * P
    BY <1>4, <1>6, <1>8, <1>10, <2>1, Times
  <2>5. x * P < (b * N + b) * P
    <3>. DEFINE y == b * N + b
    <3>1. y \in Int /\ x < y
      BY <1>4, <1>6, <1>8, <1>10
    <3>. HIDE DEF y
    <3>2. (x + 1) * P <= y * P
      BY <1>6, <2>1, <3>1, Times
    <3>3. (x + 1) * P = x * P + P /\ x * P \in Int /\ y * P \in Int
      BY <1>6, <2>1, <3>1
    <3>. QED BY <2>1, <3>2, <3>3 DEF y
  <2>6. N * p \in Int /\ m * I \in Int /\ (N + 1) * p \in Int
    BY <1>2, <1>3, <1>8, <1>10
  <2>7. R * (N * p) <= R * (m * I) /\ R * (m * I) < R * ((N + 1) * p)
    BY <2>2, <2>3, <2>4, <2>5
  <2>8. N * p <= m * I
    BY <1>2, <2>6, <2>7, Cancel
  <2>9. m * I < (N + 1) * p
    BY <1>2, <2>6, <2>7, Cancel
  <2>. QED BY <2>8, <2>9
<1>12. ASSUME p >= Half PROVE (m + 1) * I <= (N + 1) * p
  <2>1. TableBits <= k
    <3>. SUFFICES ASSUME k + 1 <= TableBits PROVE FALSE
      BY <1>1
    <3>1. k + 1 \in Nat /\ Power[k + 1] = 2 * p
      BY <1>1, PowerSteps
    <3>2. 2 * p <= I
      BY <1>1, <3>1, PowerSplit DEF I, Index
    <3>3. I <= Half /\ Half \in Nat
      BY DividerSizes, SliceSizes DEF I
    <3>. QED BY <1>2, <1>3, <1>12, <3>2, <3>3
  <2>. DEFINE c == Power[k - TableBits]
  <2>2. c \in Nat \ {0} /\ p = c * I
    BY <1>1, <2>1, PowerSplit DEF I, Index
  <2>. HIDE DEF c
  <2>3. (N + 1) * p = I * ((N + 1) * c) /\ m * I = I * m /\ (N + 1) * c \in Int
    BY <1>2, <1>8, <1>10, <2>2
  <2>4. m < (N + 1) * c
    BY <1>2, <1>11, <2>3, Cancel
  <2>5. I * (m + 1) <= I * ((N + 1) * c)
    BY <1>2, <2>3, <2>4, Times
  <2>6. I * (m + 1) = (m + 1) * I
    BY <1>2
  <2>. QED BY <2>3, <2>5, <2>6
<1>. QED BY <1>2, <1>8, <1>9, <1>10, <1>11, <1>12 DEF Indexed, I

(***************************************************************************)
(* How far a quotient of the divider may be off: the table's entries, the  *)
(* number an index stands for, and the shift of the result.                *)
(***************************************************************************)

\* A table entry with the one before it, g, against the number N that it is the
\* reciprocal of: it is too small by no more than one in its last place, and
\* not much too large.
InverseOf(g, N) ==
  /\ g \in Base .. 2 * Base - 1
  /\ 2 * (Base * Index) <= (g + 1) * N
  /\ g * (N + 1) <= 2 * (Base * (Index + 1))

\* The numbers that go with an index other than the first are large enough for
\* what a quotient by them is rounded by.
LEMMA SquareFits ==
  ASSUME NEW I \in Nat \ {0}, NEW b \in Nat, NEW t \in 1 .. I - 1,
         I * I <= 256 * b, I <= b, NEW N, N = I + t
  PROVE  N * N + N <= 512 * (b * t)
<1>1. t \in Nat /\ b * t \in Nat /\ I * t \in Nat /\ t * t \in Nat /\ I * I \in Nat
  OBVIOUS
<1>2. N * N + N = I * I + 2 * (I * t) + t * t + I + t
  OBVIOUS
<1>3. t * t <= I * t
  BY Times
<1>4. I * t <= b * t
  BY Times
<1>5. I <= I * t /\ t <= I * t /\ b <= b * t
  <2>1. 1 * I <= t * I /\ 1 * t <= I * t /\ 1 * b <= t * b
    BY Times
  <2>. QED BY <2>1
<1>. DEFINE x == I * t
            y == b * t
            z == I * I
            w == t * t
<1>6. N * N + N = z + 2 * x + w + I + t
  BY <1>2
<1>. HIDE DEF x, y, z, w
<1>7. /\ x \in Nat /\ y \in Nat /\ z \in Nat /\ w \in Nat
      /\ w <= x /\ x <= y /\ I <= x /\ t <= x /\ b <= y /\ z <= 256 * b
  BY <1>1, <1>3, <1>4, <1>5 DEF x, y, z, w
<1>8. z + 2 * x + w + I + t <= 512 * y
  BY <1>7
<1>. QED BY <1>6, <1>8 DEF y

\* A quotient rounded to a unit of 1/256 is close to the reciprocal.
LEMMA RoundedNear ==
  ASSUME NEW I \in Nat \ {0}, NEW b \in Nat \ {0}, NEW t \in 0 .. I - 1,
         I * I <= 256 * b, I <= b, NEW N, N = I + t,
         NEW g \in Nat, g <= 2 * b - 1, 256 * (g * N) <= 512 * (b * I) + N
  PROVE  g * (N + 1) <= 2 * (b * (I + 1))
<1>1. N \in Nat \ {0} /\ g * N \in Nat /\ b * I \in Nat /\ b * (I + 1) = b * I + b
      /\ g * (N + 1) = g * N + g
  OBVIOUS
<1>2. CASE t = 0
  <2>1. g * (I + 1) <= (2 * b) * (I + 1)
    BY Times
  <2>2. (2 * b) * (I + 1) = 2 * (b * (I + 1)) /\ N = I
    BY <1>2
  <2>. QED BY <2>1, <2>2
<1>3. CASE t # 0
  <2>. DEFINE G == g * N
              c == b * I
              d == b * t
              s == N * N
  <2>1. s + N <= 512 * d
    BY <1>3, SquareFits
  <2>2. b * N = c + d
    OBVIOUS
  <2>3. N * (256 * (G + g)) = (256 * G) * N + 256 * G
    <3>1. N * (256 * (G + g)) = (256 * G) * N + 256 * (g * N)
      BY <1>1
    <3>. QED BY <3>1
  <2>4. (256 * G) * N <= (512 * c + N) * N
    BY <1>1, Times
  <2>5. (512 * c + N) * N = 512 * (c * N) + s
    BY <1>1
  <2>6. N * (512 * (c + b)) = 512 * (c * N) + 512 * (b * N)
    BY <1>1
  <2>7. /\ G \in Nat /\ c \in Nat /\ d \in Nat /\ s \in Nat /\ c * N \in Nat
        /\ (256 * G) * N \in Nat
    BY <1>1
  <2>. HIDE DEF G, c, d, s
  <2>. DEFINE u == c * N
              v == (256 * G) * N
              l == 256 * (G + g)
              r == 512 * (c + b)
  <2>8. N * l = v + 256 * G /\ v <= 512 * u + s /\ N * r = 512 * u + 512 * (c + d)
    BY <2>2, <2>3, <2>4, <2>5, <2>6
  <2>9. 256 * G <= 512 * c + N
    BY DEF G, c
  <2>10. l \in Int /\ r \in Int /\ u \in Nat /\ v \in Nat
    BY <2>7
  <2>. HIDE DEF u, v, l, r
  <2>11. N * l <= N * r
    BY <1>1, <2>1, <2>7, <2>8, <2>9, <2>10
  <2>12. l <= r
    BY <1>1, <2>10, <2>11, Cancel
  <2>. QED BY <1>1, <2>7, <2>12 DEF l, r, G, c
<1>. QED BY <1>2, <1>3

\* The entries of the first half of the table are such reciprocals.
LEMMA EntryInverse ==
  ASSUME NEW n \in 0 .. Index - 1
  PROVE  InverseOf(Base + ReciprocalLUT[n], Index + n)
<1>. DEFINE R == Base
            I == Index
            N == I + n
            Q == Quotient(n)
            z == (Q + 1) \div 256
            g == R + ReciprocalLUT[n]
<1>1. /\ I \in Nat \ {0} /\ R \in Nat \ {0} /\ 2 * I <= R /\ I * I <= 256 * R
      /\ Q = (512 * (R * I)) \div N
  <2>1. /\ I \in Nat \ {0} /\ R \in Nat \ {0} /\ I <= Half /\ R = 2 * Half /\ R = Power[SliceBits]
        /\ Half \in Nat /\ Power[TableBits + 1] = 2 * I
    BY DividerSizes, SliceSizes, SliceTypes DEF Base
  <2>2. SliceBits \in Nat /\ TableBits \in Nat /\ TableBits + 1 \in Nat /\ SliceBits + 8 \in Nat
        /\ TableBits + TableBits \in Nat /\ TableBits + TableBits <= SliceBits + 8
        /\ SliceBits + TableBits + 9 = (SliceBits + 8) + (TableBits + 1)
    BY SliceAssumption, TableAssumption
  <2>3. Power[SliceBits + 8] = R * 256
    <3>1. Power[SliceBits + 8] = Power[SliceBits] * Power[8]
      BY <2>2, PowerAdd
    <3>. QED BY <2>1, <3>1, PowerEight
  <2>4. Power[TableBits + TableBits] = I * I
    BY <2>2, PowerAdd DEF Index
  <2>5. Power[TableBits + TableBits] <= Power[SliceBits + 8]
    BY <2>2, PowerSplit
  <2>6. Power[SliceBits + TableBits + 9] = (R * 256) * (2 * I)
    BY <2>1, <2>2, <2>3, PowerAdd
  <2>7. (R * 256) * (2 * I) = 512 * (R * I) /\ R * 256 = 256 * R
    BY <2>1
  <2>. QED BY <2>1, <2>3, <2>4, <2>5, <2>6, <2>7 DEF Quotient
<1>2. ReciprocalLUT[n] = MinOf(R - 1, z - R) /\ Q \in Nat /\ z \in Nat /\ z >= R
  BY ReciprocalEntry
<1>. HIDE DEF R, I
<1>3. N \in Nat \ {0} /\ N >= I /\ N <= 2 * I - 1 /\ I + n = N
  BY <1>1 DEF I
<1>. DEFINE X == 512 * (R * I)
<1>4. X \in Nat /\ R * I \in Nat
  BY <1>1
<1>5. Q \in Int /\ N * Q <= X /\ X < N * Q + N
  <2>1. Q = X \div N
    BY <1>1
  <2>. HIDE DEF X, N, Q
  <2>. QED BY <1>3, <1>4, <2>1, DivBounds
<1>6. 256 * z <= Q + 1 /\ Q + 2 <= 256 * (z + 1)
  <2>. HIDE DEF Q
  <2>. QED BY <1>2
<1>. HIDE DEF Q, z, N
<1>7. g \in Nat /\ g <= 2 * R - 1 /\ g >= R /\ g <= z /\ (g = z \/ g = 2 * R - 1)
  <2>. HIDE DEF N
  <2>. QED BY <1>1, <1>2 DEF MinOf
<1>. HIDE DEF g
<1>8. 256 * (g * N) <= X + N
  <2>1. (256 * z) * N <= (Q + 1) * N
    BY <1>2, <1>3, <1>6, Times
  <2>2. (Q + 1) * N = N * Q + N /\ (256 * z) * N = 256 * (z * N) /\ z * N \in Nat /\ N * Q \in Nat
    BY <1>2, <1>3
  <2>3. g * N <= z * N /\ g * N \in Int
    BY <1>2, <1>3, <1>7, Times
  <2>. HIDE DEF X
  <2>. QED BY <1>3, <1>4, <1>5, <2>1, <2>2, <2>3
<1>9. 2 * (R * I) <= (g + 1) * N
  <2>1. CASE g = z
    <3>1. (Q + 1) * N <= (256 * (z + 1)) * N
      BY <1>2, <1>3, <1>6, Times
    <3>2. (256 * (z + 1)) * N = 256 * ((z + 1) * N) /\ (z + 1) * N \in Nat
          /\ (Q + 1) * N = N * Q + N /\ N * Q \in Nat
      BY <1>2, <1>3
    <3>. DEFINE u == (z + 1) * N
                y == R * I
    <3>. HIDE DEF u, y
    <3>3. 512 * y <= 256 * u
      BY <1>3, <1>4, <1>5, <3>1, <3>2 DEF u, y
    <3>4. u \in Nat /\ y \in Nat
      BY <1>4, <3>2 DEF u, y
    <3>5. 2 * y <= u
      BY <3>3, <3>4
    <3>. QED BY <2>1, <3>5 DEF u, y
  <2>2. CASE g = 2 * R - 1
    <3>1. I * (2 * R) <= N * (2 * R) /\ g + 1 = 2 * R
      BY <1>1, <1>3, <2>2, Times
    <3>2. I * (2 * R) = 2 * (R * I) /\ N * (2 * R) = (2 * R) * N
      BY <1>1, <1>3
    <3>. QED BY <3>1, <3>2
  <2>. QED BY <1>7, <2>1, <2>2
<1>10. g * (N + 1) <= 2 * (R * (I + 1))
  <2>1. n \in 0 .. I - 1 /\ N = I + n /\ I <= R
    BY <1>1, <1>3 DEF I
  <2>. QED BY <1>1, <1>7, <1>8, <2>1, RoundedNear
<1>11. g \in R .. 2 * R - 1
  BY <1>1, <1>7
<1>. QED BY <1>9, <1>10, <1>11 DEF InverseOf, g, R, I, N

\* A quotient shifted down against a number that the index bounds.
LEMMA QuotientNear ==
  ASSUME NEW h \in Nat, NEW b \in Nat \ {0}, NEW I \in Nat \ {0}, NEW N \in Nat, N <= 2 * b,
         NEW g \in Nat, g * (N + 1) <= 2 * (b * (I + 1)), 2 * (b * I) <= (g + 1) * N,
         NEW p \in Nat \ {0}, NEW q \in Nat, q * p <= h * g, h * g < (q + 1) * p,
         NEW M \in Nat, N * p <= M * I, M * I <= (N + 1) * p
  PROVE  /\ q * (M * I) <= (I + 1) * (2 * (h * b))
         /\ (I - 1) * (2 * (h * b)) <= (q + 1) * (M * I)
<1>. DEFINE y == M * I
<1>1. y \in Nat
  OBVIOUS
<1>2. q * y <= (I + 1) * (2 * (h * b))
  <2>1. q * y <= q * ((N + 1) * p)
    BY <1>1, Times
  <2>2. q * ((N + 1) * p) = (q * p) * (N + 1)
    OBVIOUS
  <2>3. (q * p) * (N + 1) <= (h * g) * (N + 1)
    BY Times
  <2>4. (h * g) * (N + 1) = h * (g * (N + 1))
    OBVIOUS
  <2>5. h * (g * (N + 1)) <= h * (2 * (b * (I + 1)))
    BY Times
  <2>6. h * (2 * (b * (I + 1))) = (I + 1) * (2 * (h * b))
    OBVIOUS
  <2>7. /\ q * y \in Int /\ (q * p) * (N + 1) \in Int /\ h * (g * (N + 1)) \in Int
        /\ (I + 1) * (2 * (h * b)) \in Int
    BY <1>1
  <2>. QED BY <2>1, <2>2, <2>3, <2>4, <2>5, <2>6, <2>7
<1>3. (I - 1) * (2 * (h * b)) <= (q + 1) * y
  <2>1. (q + 1) * (N * p) <= (q + 1) * y
    BY <1>1, Times
  <2>2. (q + 1) * (N * p) = ((q + 1) * p) * N
    OBVIOUS
  <2>3. (h * g) * N <= ((q + 1) * p) * N
    BY Times
  <2>4. (h * g) * N = h * (g * N)
    OBVIOUS
  <2>. DEFINE c == 2 * (b * I) - 2 * b
  <2>5. c \in Int /\ c <= g * N
    BY DEF c
  <2>6. h * c <= h * (g * N)
    BY <2>5, Times
  <2>7. h * c = (I - 1) * (2 * (h * b))
    OBVIOUS
  <2>8. /\ (q + 1) * y \in Int /\ ((q + 1) * p) * N \in Int /\ h * (g * N) \in Int
        /\ (I - 1) * (2 * (h * b)) \in Int
    BY <1>1
  <2>. QED BY <2>1, <2>2, <2>3, <2>4, <2>6, <2>7, <2>8
<1>. QED BY <1>2, <1>3

\* From there to the form that IsReciprocal states.
LEMMA QuotientForm ==
  ASSUME NEW I \in Nat \ {0}, NEW q \in Nat, NEW M \in Nat, NEW one \in Nat,
         q * (M * I) <= (I + 1) * one, (I - 1) * one <= (q + 1) * (M * I)
  PROVE  I * (q - 1) * M <= (I + 1) * one /\ I * (q + 1) * M >= (I - 1) * one
<1>. DEFINE y == M * I
<1>1. y \in Nat /\ q * y \in Nat
  OBVIOUS
<1>2. I * (q - 1) * M = q * y - y /\ I * (q + 1) * M = (q + 1) * y
  OBVIOUS
<1>3. (I + 1) * one \in Int /\ (I - 1) * one \in Int /\ (q + 1) * y \in Int
  BY <1>1
<1>. HIDE DEF y
<1>4. q * y - y <= (I + 1) * one
  BY <1>1, <1>3 DEF y
<1>. QED BY <1>2, <1>3, <1>4 DEF y

\* The divider's quotient is a reciprocal (RSPVRCP, RSPVRCPL).
LEMMA DivideNear ==
  ASSUME NEW x \in UpperRange
  PROVE  IsReciprocal(Divide(x, FALSE), x)
<1>. DEFINE I == Index
            R == Base
            h == Half \div 2
            one == 2 * Half * Half
            m == Magnitude(x)
            M == IF x < 0 THEN -x ELSE x
<1>1. /\ I \in Nat \ {0} /\ R \in Nat \ {0} /\ I <= Half /\ R = 2 * Half /\ Half \in Nat \ {0}
      /\ h \in Nat \ {0} /\ Half = 2 * h /\ one = Range /\ Range \in Nat \ {0}
  BY DividerSizes, SliceSizes, SliceTypes DEF Base
<1>2. x \in Int /\ x >= -Range /\ x < Range
  BY <1>1, UpperPairs
<1>3. CASE x = 0
  <2>1. Divide(x, FALSE) = one - 1
    BY <1>3 DEF Divide
  <2>2. ~(0 < 0) /\ ~(0 > 0)
    OBVIOUS
  <2>3. IsReciprocal(one - 1, 0)
    BY <2>2, Zenon DEF IsReciprocal
  <2>. QED BY <1>3, <2>1, <2>3
<1>4. CASE x # 0
  <2>1. PICK k \in 0 .. 2 * SliceBits - 2 :
           LET f == ReciprocalLUT[TableIndex(m, k)]
               q == Mantissa(f) \div Power[k] IN
           /\ m \in 1 .. Range - 1 /\ Power[k] \in Nat \ {0}
           /\ Power[k] <= m /\ m < 2 * Power[k]
           /\ TableIndex(m, k) \in 0 .. Index - 1 /\ f \in Slice
           /\ q \in 0 .. Range - 1
           /\ Divide(x, FALSE) = IF x < 0 THEN -1 - q ELSE q
    <3>1. x \in UpperRange \ {0} /\ FALSE \in BOOLEAN
      BY <1>4
    <3>. HIDE DEF m
    <3>2. m = Magnitude(x)
      BY DEF m
    <3>. QED BY <3>1, <3>2, DivideIs
  <2>. DEFINE t == TableIndex(m, k)
              f == ReciprocalLUT[t]
              p == Power[k]
              q == Mantissa(f) \div p
              N == I + t
              g == R + f
  <2>2. /\ m \in 1 .. Range - 1 /\ p \in Nat \ {0} /\ p <= m /\ m < 2 * p
        /\ t \in 0 .. I - 1 /\ f \in Slice /\ q \in 0 .. Range - 1
        /\ Divide(x, FALSE) = IF x < 0 THEN -1 - q ELSE q
    BY <2>1
  <2>3. N \in Index .. 2 * Index - 1 /\ Indexed(m, p, N)
    <3>. HIDE DEF p, N, m
    <3>1. p = Power[k] /\ N = Index + TableIndex(m, k)
      BY DEF p, N, m
    <3>. QED BY <2>2, <3>1, IndexBounds
  <2>4. InverseOf(g, N)
    BY <2>2, EntryInverse
  <2>5. N \in Nat /\ N <= 2 * R
    BY <1>1, <2>2, <2>3
  <2>6. /\ M \in Nat /\ N * p <= M * I /\ M * I <= (N + 1) * p
    <3>1. CASE M = m
      <4>1. m * I \in Int /\ (N + 1) * p \in Int
        BY <1>1, <2>2, <2>5
      <4>. QED BY <2>2, <2>3, <3>1, <4>1 DEF Indexed
    <3>2. CASE M # m
      <4>1. x < -Half /\ m = M - 1 /\ M = m + 1
        BY <1>1, <1>2, <3>2 DEF Magnitude
      <4>2. m >= Half
        BY <1>1, <1>2, <4>1
      <4>3. p >= Half
        <5>. SUFFICES ASSUME k + 1 <= SliceBits - 1 PROVE 2 * p <= Half
          <6>1. CASE k + 1 <= SliceBits - 1
            BY <1>1, <2>2, <4>2, <6>1
          <6>2. CASE SliceBits - 1 <= k
            <7>1. SliceBits - 1 \in Nat /\ k \in Nat
              BY SliceAssumption
            <7>. QED BY <6>2, <7>1, PowerSplit DEF Half
          <6>. QED BY <6>1, <6>2, SliceAssumption
        <5>1. SliceBits - 1 \in Nat /\ k \in Nat /\ k + 1 \in Nat
          BY SliceAssumption
        <5>2. Power[k + 1] = 2 * p
          BY <5>1, PowerSteps
        <5>. QED BY <5>1, <5>2, PowerSplit DEF Half
      <4>4. (m + 1) * I <= (N + 1) * p /\ N * p <= m * I
        BY <2>3, <4>3 DEF Indexed
      <4>5. m * I <= (m + 1) * I /\ m * I \in Int /\ (m + 1) * I \in Int /\ N * p \in Int
        BY <1>1, <2>2, <2>5, Times
      <4>. HIDE DEF m, M
      <4>. QED BY <2>2, <4>1, <4>4, <4>5
    <3>. QED BY <3>1, <3>2
  <2>7. q * p <= h * g /\ h * g < (q + 1) * p
    <3>. DEFINE y == h * g
    <3>1. Mantissa(f) = y
      <4>1. f \in Nat
        BY <1>1, <2>2 DEF Slice
      <4>. HIDE DEF f, h
      <4>2. Half * Half = h * (2 * Half)
        BY <1>1
      <4>3. h * (2 * Half + f) = h * (2 * Half) + f * h
        BY <1>1, <4>1
      <4>. QED BY <1>1, <4>2, <4>3 DEF Mantissa, h
    <3>2. y \in Nat
      BY <1>1, <2>2 DEF Slice
    <3>3. q = y \div p
      BY <3>1
    <3>. HIDE DEF y, p, q
    <3>4. q \in Int /\ p * q <= y /\ y < p * q + p
      BY <2>2, <3>2, <3>3, DivBounds
    <3>5. p * q = q * p /\ p * q + p = (q + 1) * p
      BY <2>2, <3>4
    <3>. QED BY <3>4, <3>5 DEF y
  <2>8. q \in Nat /\ g \in Nat
    BY <1>1, <2>2 DEF Slice
  <2>9. 2 * (h * R) = one
    <3>. HIDE DEF h
    <3>1. 2 * (h * (2 * Half)) = (2 * (2 * h)) * Half
      BY <1>1
    <3>. QED BY <1>1, <3>1
  <2>. HIDE DEF q, p, N, g, f, t, M, m, h, I, R
  <2>10. q * (M * I) <= (I + 1) * one /\ (I - 1) * one <= (q + 1) * (M * I)
    <3>1. g * (N + 1) <= 2 * (R * (I + 1)) /\ 2 * (R * I) <= (g + 1) * N
      BY <2>4 DEF InverseOf, I, R
    <3>. QED BY <1>1, <2>2, <2>5, <2>6, <2>7, <2>8, <2>9, <3>1, QuotientNear
  <2>11. I * (q - 1) * M <= (I + 1) * one /\ I * (q + 1) * M >= (I - 1) * one
    <3>1. one \in Nat
      BY <1>1
    <3>. HIDE DEF one
    <3>. QED BY <1>1, <2>6, <2>8, <2>10, <3>1, QuotientForm
  <2>12. Divide(x, FALSE) = IF x < 0 THEN -1 - q ELSE q
    BY <2>2
  <2>. HIDE DEF one
  <2>13. CASE x > 0
    <3>1. M = x /\ Divide(x, FALSE) = q /\ x # 0 /\ ~(x < 0)
      <4>1. ~(x < 0)
        BY <1>2, <2>13
      <4>. QED BY <1>2, <2>12, <2>13, <4>1 DEF M
    <3>2. I * (q - 1) * x <= (I + 1) * one /\ I * (q + 1) * x >= (I - 1) * one
      BY <2>11, <3>1
    <3>3. IsReciprocal(q, x)
      BY <2>13, <3>1, <3>2, Zenon DEF IsReciprocal, I, Index, one
    <3>. QED BY <3>1, <3>3
  <2>14. CASE x < 0
    <3>1. M = -x /\ Divide(x, FALSE) = -1 - q /\ x # 0 /\ ~(x > 0)
      <4>1. x # 0 /\ ~(x > 0)
        BY <1>2, <2>14
      <4>. QED BY <1>2, <2>12, <2>14, <4>1 DEF M
    <3>. DEFINE s == -1 - q
    <3>2. -2 - s = q - 1 /\ -s = q + 1
      BY <2>8
    <3>. HIDE DEF s
    <3>3. I * (-2 - s) * (-x) <= (I + 1) * one /\ I * (-s) * (-x) >= (I - 1) * one
      BY <2>11, <3>1, <3>2
    <3>4. IsReciprocal(s, x)
      BY <2>14, <3>1, <3>3, Zenon DEF IsReciprocal, I, Index, one
    <3>. QED BY <3>1, <3>4 DEF s
  <2>15. x > 0 \/ x < 0
    BY <1>2, <1>4
  <2>. QED BY <2>13, <2>14, <2>15
<1>. QED BY <1>3, <1>4

(***************************************************************************)
(* The programs of the divider, instruction by instruction.                *)
(***************************************************************************)
\* VRCPH and VRSQH: the high half of the last result comes out, that of the
\* next operand goes in.
TakesHigh(c, d, vd, slice) ==
  /\ d \in SafeUnit /\ \A v \in VReg : v # vd => d.regs[v] = c.regs[v]
  /\ d.regs[vd][1] = Wrap(c.divOut \div Base)
  /\ d.divIn = Signed(slice) * Base /\ d.divOut = c.divOut /\ d.doublePrecision

\* VRCP, VRCPL and VRSQL: the low half of the result comes out.
TakesLow(c, d, vd, number, root) ==
  /\ d \in SafeUnit /\ \A v \in VReg : v # vd => d.regs[v] = c.regs[v]
  /\ d.regs[vd][1] = Wrap(Divide(number, root))
  /\ d.divOut = Divide(number, root) /\ ~d.doublePrecision

\* A cycle with one of them, for lane 0 of vt and lane 1 of vd.
LEMMA CycleDivider ==
  ASSUME NEW c \in SafeUnit, NEW vd \in VReg, NEW vt \in VReg,
         NEW op \in {"VRCP", "VRCPL", "VRCPH", "VRSQL", "VRSQH"},
         NEW d, d = RSPCycleCP2(c, V(op, vd, 1, vt, 8)),
         NEW slice, slice = c.regs[vt][0]
  PROVE  /\ op \in {"VRCPH", "VRSQH"} => TakesHigh(c, d, vd, slice)
         /\ op = "VRCP" => TakesLow(c, d, vd, Signed(slice), FALSE)
         /\ op = "VRCPL" => TakesLow(c, d, vd, LowOperand(c, slice), FALSE)
         /\ op = "VRSQL" => TakesLow(c, d, vd, LowOperand(c, slice), TRUE)
<1>. DEFINE iw == V(op, vd, 1, vt, 8)
            w == RSPGetVectorOperands(c.regs[vt], 8)
<1>1. /\ iw.sa = vd /\ iw.rd = 1 /\ iw.rt = vt /\ iw.rs = 24 /\ iw.rs % 16 = 8
      /\ iw.rd % 8 = 1 /\ 8 % 8 = 0
  BY DEF V
<1>2. RSPDecodeVectorInstruction(iw) = op
  <2>1. 8 \in 0 .. 15
    OBVIOUS
  <2>. QED BY <2>1, AssembledToo
<1>3. c \in Unit /\ c.regs \in [VReg -> Vector] /\ 1 \in Lane /\ 1 \in VReg
  BY AllRegisters DEF SafeUnit, Unit, Lane
<1>4. d \in SafeUnit
  <2>. HIDE DEF iw
  <2>1. FieldsFit(iw)
    BY <1>1, <1>3 DEF FieldsFit
  <2>. QED BY <2>1, CycleTypes DEF iw
<1>5. d = RSPCycleCP2(c, iw)
  OBVIOUS
<1>. HIDE DEF iw
<1>6. w = RSPGetVectorOperands(c.regs[iw.rt], iw.rs % 16)
  BY <1>1
<1>. HIDE DEF w
<1>7. op \in {"VRCPH", "VRSQH"} => d = RSPVRCPH(c, vd, 1, w, slice)
  BY <1>1, <1>2, <1>5, <1>6 DEF RSPCycleCP2, LogicOp, SelectOp, MultiplyOp, AccumulateOp
<1>8. op = "VRCP" => d = Divides(c, vd, 1, w, Signed(slice), FALSE)
  BY <1>1, <1>2, <1>5, <1>6 DEF RSPCycleCP2, LogicOp, SelectOp, MultiplyOp, AccumulateOp
<1>9. op = "VRCPL" => d = Divides(c, vd, 1, w, LowOperand(c, slice), FALSE)
  BY <1>1, <1>2, <1>5, <1>6 DEF RSPCycleCP2, LogicOp, SelectOp, MultiplyOp, AccumulateOp
<1>10. op = "VRSQL" => d = Divides(c, vd, 1, w, LowOperand(c, slice), TRUE)
  BY <1>1, <1>2, <1>5, <1>6 DEF RSPCycleCP2, LogicOp, SelectOp, MultiplyOp, AccumulateOp
<1>11. ASSUME op \in {"VRCPH", "VRSQH"} PROVE TakesHigh(c, d, vd, slice)
  <2>. DEFINE s == Wrap(c.divOut \div Base)
  <2>1. d = RSPVRCPH(c, vd, 1, w, slice)
    BY <1>7, <1>11
  <2>2. /\ d.regs = [c.regs EXCEPT ![vd][1] = s]
        /\ d.divIn = Signed(slice) * Base /\ d.divOut = c.divOut /\ d.doublePrecision
    BY <1>3, <2>1 DEF RSPVRCPH, Unit
  <2>. HIDE DEF s
  <2>3. d.regs[vd][1] = s /\ \A v \in VReg : v # vd => d.regs[v] = c.regs[v]
    BY <1>3, <2>2 DEF Vector
  <2>. QED BY <1>4, <2>2, <2>3 DEF TakesHigh, s
<1>12. ASSUME NEW number, NEW root, d = Divides(c, vd, 1, w, number, root)
       PROVE  TakesLow(c, d, vd, number, root)
  <2>. DEFINE s == Wrap(Divide(number, root))
  <2>2. /\ d.regs = [c.regs EXCEPT ![vd][1] = s]
        /\ d.divOut = Divide(number, root) /\ ~d.doublePrecision
    BY <1>3, <1>12 DEF Divides, Unit
  <2>. HIDE DEF s
  <2>3. d.regs[vd][1] = s /\ \A v \in VReg : v # vd => d.regs[v] = c.regs[v]
    BY <1>3, <2>2 DEF Vector
  <2>. QED BY <1>4, <2>2, <2>3 DEF TakesLow, s
<1>13. op = "VRCP" => TakesLow(c, d, vd, Signed(slice), FALSE)
  BY <1>8, <1>12
<1>14. op = "VRCPL" => TakesLow(c, d, vd, LowOperand(c, slice), FALSE)
  BY <1>9, <1>12
<1>15. op = "VRSQL" => TakesLow(c, d, vd, LowOperand(c, slice), TRUE)
  BY <1>10, <1>12
<1>. QED BY <1>11, <1>13, <1>14, <1>15

\* An instruction between them, which leaves the divider alone.
Passes(c, d, vd) ==
  /\ d \in SafeUnit /\ DividerKept(c, d)
  /\ \A v \in VReg : v # vd => d.regs[v] = c.regs[v]

\* A cycle with such a one.
LEMMA CyclePasses ==
  ASSUME NEW c \in SafeUnit, NEW vd \in VReg, NEW vs \in VReg, NEW vt \in VReg, NEW d
  PROVE  /\ d = RSPCycleCP2(c, V("VADD", vd, vs, vt, 0)) => Passes(c, d, vd)
         /\ d = RSPCycleCP2(c, V("VMUDH", vd, vs, vt, 0)) => Passes(c, d, vd)
         /\ d = RSPCycleCP2(c, V("VNOP", 0, 0, 0, 0)) => d = c
<1>. DEFINE x == c.regs[vs]
            y == c.regs[vt]
<1>1. c \in Unit /\ x \in Vector /\ y \in Vector /\ c.regs \in [VReg -> Vector]
  BY DEF SafeUnit, Unit
<1>2. ASSUME d \in Unit, DividerKept(c, d) PROVE d \in SafeUnit
  BY <1>2 DEF SafeUnit, DividerFits, DividerKept
<1>3. ASSUME d = RSPCycleCP2(c, V("VADD", vd, vs, vt, 0)) PROVE Passes(c, d, vd)
  <2>1. "VADD" \in ProvedOp
    BY DEF ProvedOp
  <2>2. d = RSPVADD(c, vd, x, y)
    BY <1>1, <1>3, <2>1, Cycle
  <2>. HIDE DEF x, y
  <2>3. d \in Unit /\ DividerKept(c, d)
    BY <1>1, <2>2, SumsSafe DEF Safe
  <2>4. \A v \in VReg : v # vd => d.regs[v] = c.regs[v]
    BY <1>1, <2>2 DEF RSPVADD, ClearsVCO, Unit
  <2>. QED BY <1>2, <2>3, <2>4 DEF Passes
<1>4. ASSUME d = RSPCycleCP2(c, V("VMUDH", vd, vs, vt, 0)) PROVE Passes(c, d, vd)
  <2>1. "VMUDH" \in ProvedOp /\ "VMUDH" \in MultiplyOp
    BY DEF ProvedOp, MultiplyOp
  <2>2. d = MultiplyOf(c, "VMUDH", vd, x, y)
    BY <1>1, <1>4, <2>1, Cycle
  <2>. HIDE DEF x, y
  <2>3. d \in Unit /\ DividerKept(c, d)
    BY <1>1, <2>1, <2>2, AccumulatorSafe DEF Safe
  <2>4. \A v \in VReg : v # vd => d.regs[v] = c.regs[v]
    BY <1>1, <2>2 DEF MultiplyOf, Unit
  <2>. QED BY <1>2, <2>3, <2>4 DEF Passes
<1>5. ASSUME d = RSPCycleCP2(c, V("VNOP", 0, 0, 0, 0)) PROVE d = c
  <2>1. 0 \in 0 .. 15
    OBVIOUS
  <2>2. RSPDecodeVectorInstruction(V("VNOP", 0, 0, 0, 0)) = "VNOP"
    BY <2>1, AssembledToo
  <2>. QED BY <1>5, <2>2 DEF RSPCycleCP2, LogicOp, SelectOp, MultiplyOp, AccumulateOp
<1>. QED BY <1>3, <1>4, <1>5

\* The two halves of a result put together are the result.
LEMMA HalvesMeet ==
  ASSUME NEW x \in UpperRange, NEW root \in BOOLEAN, NEW q, q = Divide(x, root)
  PROVE  Pair(Wrap(q \div Base), Wrap(q)) = q
<1>1. q \in UpperRange /\ q \in Int
  BY DivideTypes DEF UpperRange
<1>2. SignedPair(q) = q
  BY <1>1, UpperPairs
<1>. QED BY <1>2 DEF SignedPair, Wrap

\* An operand of two slices, and one of one slice.
LEMMA OperandIs ==
  ASSUME NEW c \in SafeUnit, NEW high \in Slice, NEW low \in Slice
  PROVE  /\ Signed(low) \in UpperRange /\ LowOperand(c, low) \in UpperRange
         /\ c.doublePrecision /\ c.divIn = Signed(high) * Base =>
              LowOperand(c, low) = Pair(high, low)
         /\ ~c.doublePrecision => LowOperand(c, low) = low
BY OperandsFit DEF LowOperand, Pair

\* The unit that a program starts with.
LEMMA LoadedSafe ==
  ASSUME start \in [1 .. 4 -> Vector]
  PROVE  Loaded \in SafeUnit
<1>1. Loaded \in Unit
  BY LoadedTypes
<1>2. Loaded.divIn = 0 /\ Loaded.divOut = 0 /\ Loaded.doublePrecision = FALSE
  BY DEF Loaded, RSPInitCP2
<1>3. 0 \in UpperRange
  BY UpperPairs, DividerSizes
<1>. QED BY <1>1, <1>2, <1>3 DEF SafeUnit, DividerFits

\* A high half and a low half read from two registers.
HalvesIn(c, high, low, q) ==
  c.regs[high][1] = Wrap(q \div Base) /\ c.regs[low][1] = Wrap(q)

\* The instructions of Reciprocals, from any state of the unit.
LEMMA ReciprocalsResult ==
  ASSUME NEW c, c[1] \in SafeUnit,
         NEW a \in Vector, NEW b \in Vector, NEW a2 \in Vector, NEW b2 \in Vector,
         c[1].regs[1] = a, c[1].regs[2] = a2, c[1].regs[3] = b, c[1].regs[4] = b2,
         c[2] = RSPCycleCP2(c[1], V("VRCPH", 5, 1, 2, 8)),
         c[3] = RSPCycleCP2(c[2], V("VADD", 10, 1, 3, 0)),
         c[4] = RSPCycleCP2(c[3], V("VRCPL", 6, 1, 1, 8)),
         c[5] = RSPCycleCP2(c[4], V("VMUDH", 11, 1, 3, 0)),
         c[6] = RSPCycleCP2(c[5], V("VRCPH", 7, 1, 4, 8)),
         c[7] = RSPCycleCP2(c[6], V("VNOP", 0, 0, 0, 0)),
         c[8] = RSPCycleCP2(c[7], V("VRCPL", 8, 1, 3, 8)),
         c[9] = RSPCycleCP2(c[8], V("VRCPH", 9, 1, 0, 8))
  PROVE  LET x == Pair(a2[0], a[0])
             y == Pair(b2[0], b[0]) IN
         /\ x \in UpperRange /\ y \in UpperRange
         /\ HalvesIn(c[9], 7, 6, Divide(x, FALSE)) /\ HalvesIn(c[9], 9, 8, Divide(y, FALSE))
<1>. DEFINE x == Pair(a2[0], a[0])
            y == Pair(b2[0], b[0])
            p == Divide(x, FALSE)
            q == Divide(y, FALSE)
            R(k, v) == c[k].regs[v]
            O(k) == R(k, 1) = a /\ R(k, 3) = b /\ R(k, 4) = b2
<1>. USE AllRegisters
<1>1. a[0] \in Slice /\ a2[0] \in Slice /\ b[0] \in Slice /\ b2[0] \in Slice
  BY DEF Vector, Lane
<1>2. O(1) /\ R(1, 2) = a2 /\ c[1] \in SafeUnit
  OBVIOUS
<1>. HIDE DEF x, y, p, q
<1>3. c[2] \in SafeUnit /\ O(2) /\ c[2].divIn = Signed(a2[0]) * Base /\ c[2].doublePrecision
  <2>1. TakesHigh(c[1], c[2], 5, a2[0])
    BY <1>2, CycleDivider
  <2>. QED BY <1>2, <2>1 DEF TakesHigh
<1>4. c[3] \in SafeUnit /\ O(3) /\ c[3].divIn = Signed(a2[0]) * Base /\ c[3].doublePrecision
  <2>1. Passes(c[2], c[3], 10)
    BY <1>3, CyclePasses
  <2>. QED BY <1>3, <2>1 DEF Passes, DividerKept
<1>5. LowOperand(c[3], a[0]) = x /\ x \in UpperRange
  BY <1>1, <1>4, OperandIs DEF x
<1>6. c[4] \in SafeUnit /\ O(4) /\ R(4, 6)[1] = Wrap(p) /\ c[4].divOut = p
  <2>1. TakesLow(c[3], c[4], 6, LowOperand(c[3], a[0]), FALSE)
    BY <1>4, CycleDivider
  <2>2. c[4].regs[6][1] = Wrap(p) /\ c[4].divOut = p /\ c[4] \in SafeUnit
    BY <1>5, <2>1 DEF TakesLow, p
  <2>3. O(4)
    BY <1>4, <2>1 DEF TakesLow
  <2>. QED BY <2>2, <2>3
<1>7. c[5] \in SafeUnit /\ O(5) /\ R(5, 6)[1] = Wrap(p) /\ c[5].divOut = p
  <2>1. Passes(c[4], c[5], 11)
    BY <1>6, CyclePasses
  <2>. QED BY <1>6, <2>1 DEF Passes, DividerKept
<1>8. /\ c[6] \in SafeUnit /\ O(6) /\ R(6, 6)[1] = Wrap(p) /\ R(6, 7)[1] = Wrap(p \div Base)
      /\ c[6].divIn = Signed(b2[0]) * Base /\ c[6].doublePrecision
  <2>1. TakesHigh(c[5], c[6], 7, b2[0])
    BY <1>7, CycleDivider
  <2>. QED BY <1>7, <2>1 DEF TakesHigh
<1>9. c[7] = c[6]
  BY <1>8, CyclePasses
<1>10. LowOperand(c[7], b[0]) = y /\ y \in UpperRange
  BY <1>1, <1>8, <1>9, OperandIs DEF y
<1>11. /\ c[8] \in SafeUnit /\ R(8, 6)[1] = Wrap(p) /\ R(8, 7)[1] = Wrap(p \div Base)
       /\ R(8, 8)[1] = Wrap(q) /\ c[8].divOut = q
  <2>1. c[7] \in SafeUnit /\ b[0] = c[7].regs[3][0]
    BY <1>8, <1>9
  <2>2. TakesLow(c[7], c[8], 8, LowOperand(c[7], b[0]), FALSE)
    BY <2>1, CycleDivider
  <2>3. c[8].regs[8][1] = Wrap(q) /\ c[8].divOut = q /\ c[8] \in SafeUnit
    BY <1>10, <2>2 DEF TakesLow, q
  <2>4. R(8, 6)[1] = Wrap(p) /\ R(8, 7)[1] = Wrap(p \div Base)
    BY <1>8, <1>9, <2>2 DEF TakesLow
  <2>. QED BY <2>3, <2>4
<1>12. /\ R(9, 6)[1] = Wrap(p) /\ R(9, 7)[1] = Wrap(p \div Base)
       /\ R(9, 8)[1] = Wrap(q) /\ R(9, 9)[1] = Wrap(q \div Base)
  <2>1. TakesHigh(c[8], c[9], 9, c[8].regs[0][0])
    BY <1>11, CycleDivider
  <2>. QED BY <1>11, <2>1 DEF TakesHigh
<1>. QED BY <1>5, <1>10, <1>12 DEF HalvesIn, x, y, p, q

\* Those of SingleThenDouble.
LEMMA SingleThenDoubleResult ==
  ASSUME NEW c1 \in SafeUnit, NEW a \in Vector, NEW a2 \in Vector,
         c1.regs[1] = a, c1.regs[2] = a2,
         NEW c2, c2 = RSPCycleCP2(c1, V("VRCP", 5, 1, 1, 8)),
         NEW c3, c3 = RSPCycleCP2(c2, V("VRCPH", 6, 1, 2, 8)),
         NEW c4, c4 = RSPCycleCP2(c3, V("VRCPL", 7, 1, 1, 8)),
         NEW c5, c5 = RSPCycleCP2(c4, V("VRCPH", 8, 1, 0, 8))
  PROVE  LET x == Signed(a[0])
             y == Pair(a2[0], a[0]) IN
         /\ x \in UpperRange /\ y \in UpperRange
         /\ HalvesIn(c5, 6, 5, Divide(x, FALSE)) /\ HalvesIn(c5, 8, 7, Divide(y, FALSE))
<1>. DEFINE x == Signed(a[0])
            y == Pair(a2[0], a[0])
            p == Divide(x, FALSE)
            q == Divide(y, FALSE)
<1>. USE AllRegisters
<1>1. a[0] \in Slice /\ a2[0] \in Slice
  BY DEF Vector, Lane
<1>2. x \in UpperRange
  BY <1>1, OperandIs
<1>3. TakesLow(c1, c2, 5, x, FALSE)
  BY CycleDivider
<1>. HIDE DEF x, y, p, q
<1>4. /\ c2 \in SafeUnit /\ c2.regs[1] = a /\ c2.regs[2] = a2 /\ c2.regs[5][1] = Wrap(p)
      /\ c2.divOut = p
  <2>1. c2.regs[5][1] = Wrap(p) /\ c2.divOut = p /\ c2 \in SafeUnit
    BY <1>3 DEF TakesLow, p
  <2>2. c2.regs[1] = a /\ c2.regs[2] = a2
    BY <1>3 DEF TakesLow
  <2>. QED BY <2>1, <2>2
<1>5. /\ c3 \in SafeUnit /\ c3.regs[1] = a /\ c3.regs[5][1] = Wrap(p)
      /\ c3.regs[6][1] = Wrap(p \div Base)
      /\ c3.divIn = Signed(a2[0]) * Base /\ c3.doublePrecision
  <2>1. TakesHigh(c2, c3, 6, a2[0])
    BY <1>4, CycleDivider
  <2>. QED BY <1>4, <2>1 DEF TakesHigh
<1>6. LowOperand(c3, a[0]) = y /\ y \in UpperRange
  BY <1>1, <1>5, OperandIs DEF y
<1>7. /\ c4 \in SafeUnit /\ c4.regs[5][1] = Wrap(p) /\ c4.regs[6][1] = Wrap(p \div Base)
      /\ c4.regs[7][1] = Wrap(q) /\ c4.divOut = q
  <2>1. TakesLow(c3, c4, 7, LowOperand(c3, a[0]), FALSE)
    BY <1>5, CycleDivider
  <2>2. c4.regs[7][1] = Wrap(q) /\ c4.divOut = q /\ c4 \in SafeUnit
    BY <1>6, <2>1 DEF TakesLow, q
  <2>3. c4.regs[5][1] = Wrap(p) /\ c4.regs[6][1] = Wrap(p \div Base)
    BY <1>5, <2>1 DEF TakesLow
  <2>. QED BY <2>2, <2>3
<1>8. /\ c5.regs[5][1] = Wrap(p) /\ c5.regs[6][1] = Wrap(p \div Base)
      /\ c5.regs[7][1] = Wrap(q) /\ c5.regs[8][1] = Wrap(q \div Base)
  <2>1. TakesHigh(c4, c5, 8, c4.regs[0][0])
    BY <1>7, CycleDivider
  <2>. QED BY <1>7, <2>1 DEF TakesHigh
<1>. QED BY <1>2, <1>6, <1>8 DEF HalvesIn, x, y, p, q

\* Those of DoubleInterrupted.
LEMMA DoubleInterruptedResult ==
  ASSUME NEW c1 \in SafeUnit, NEW a \in Vector, c1.regs[1] = a,
         NEW c2, c2 = RSPCycleCP2(c1, V("VRCPH", 5, 1, 2, 8)),
         NEW c3, c3 = RSPCycleCP2(c2, V("VRCP", 6, 1, 3, 8)),
         NEW c4, c4 = RSPCycleCP2(c3, V("VRCPL", 7, 1, 1, 8)),
         NEW c5, c5 = RSPCycleCP2(c4, V("VRCPH", 8, 1, 0, 8))
  PROVE  a[0] \in UpperRange /\ HalvesIn(c5, 8, 7, Divide(a[0], FALSE))
<1>. DEFINE x == a[0]
            p == Divide(x, FALSE)
<1>. USE AllRegisters
<1>1. x \in Slice
  BY DEF Vector, Lane
<1>. HIDE DEF x, p
<1>2. c2 \in SafeUnit /\ c2.regs[1] = a
  <2>1. TakesHigh(c1, c2, 5, c1.regs[2][0])
    BY CycleDivider
  <2>. QED BY <2>1 DEF TakesHigh
<1>3. c3 \in SafeUnit /\ c3.regs[1] = a /\ ~c3.doublePrecision
  <2>1. TakesLow(c2, c3, 6, Signed(c2.regs[3][0]), FALSE)
    BY <1>2, CycleDivider
  <2>. QED BY <1>2, <2>1 DEF TakesLow
<1>4. LowOperand(c3, x) = x /\ x \in UpperRange
  <2>1. LowOperand(c3, x) \in UpperRange /\ LowOperand(c3, x) = x
    BY <1>1, <1>3, OperandIs
  <2>. QED BY <2>1
<1>5. c4 \in SafeUnit /\ c4.regs[7][1] = Wrap(p) /\ c4.divOut = p
  <2>1. TakesLow(c3, c4, 7, LowOperand(c3, x), FALSE)
    BY <1>3, CycleDivider DEF x
  <2>. QED BY <1>4, <2>1 DEF TakesLow, p
<1>6. c5.regs[7][1] = Wrap(p) /\ c5.regs[8][1] = Wrap(p \div Base)
  <2>1. TakesHigh(c4, c5, 8, c4.regs[0][0])
    BY <1>5, CycleDivider
  <2>. QED BY <1>5, <2>1 DEF TakesHigh
<1>. QED BY <1>4, <1>6 DEF HalvesIn, x, p

\* The divider hands operands and results on in halves, over instructions in
\* between, and every result is a reciprocal to the precision of the table
\* (RSPVRCP, RSPVRCPL, RSPVRCPH).
THEOREM DividerHandsOverProved == Spec => []DividerHandsOver
<1>1. ASSUME Progress, After(Reciprocals)
      PROVE  /\ IsReciprocal(Pair(Reg(7, 1), Reg(6, 1)), A(0))
             /\ IsReciprocal(Pair(Reg(9, 1), Reg(8, 1)), B(0))
  <2>. DEFINE p == Reciprocals
              w1 == V("VRCPH", 5, 1, 2, 8)
              w2 == V("VADD", 10, 1, 3, 0)
              w3 == V("VRCPL", 6, 1, 1, 8)
              w4 == V("VMUDH", 11, 1, 3, 0)
              w5 == V("VRCPH", 7, 1, 4, 8)
              w6 == V("VNOP", 0, 0, 0, 0)
              w7 == V("VRCPL", 8, 1, 3, 8)
              w8 == V("VRCPH", 9, 1, 0, 8)
  <2>1. /\ RSPDecodeInstruction(w1) = "VECT" /\ RSPDecodeInstruction(w3) = "VECT"
        /\ RSPDecodeInstruction(w5) = "VECT" /\ RSPDecodeInstruction(w6) = "VECT"
        /\ RSPDecodeInstruction(w7) = "VECT" /\ RSPDecodeInstruction(w8) = "VECT"
    BY AssembledToo
  <2>2. RSPDecodeInstruction(w2) = "VECT" /\ RSPDecodeInstruction(w4) = "VECT"
    BY Assembled DEF ProvedOp, MultiplyOp
  <2>3. p = <<w1, w2, w3, w4, w5, w6, w7, w8>>
    BY DEF Reciprocals
  <2>. HIDE DEF p, w1, w2, w3, w4, w5, w6, w7, w8
  <2>4. /\ Len(p) = 8 /\ p[1] = w1 /\ p[2] = w2 /\ p[3] = w3 /\ p[4] = w4
        /\ p[5] = w5 /\ p[6] = w6 /\ p[7] = w7 /\ p[8] = w8
    BY <2>3
  <2>5. \A k \in 1 .. 8 : RSPDecodeInstruction(p[k]) = "VECT"
    <3>1. \A k \in 1 .. 8 : \/ k = 1 \/ k = 2 \/ k = 3 \/ k = 4
                            \/ k = 5 \/ k = 6 \/ k = 7 \/ k = 8
      OBVIOUS
    <3>. QED BY <2>1, <2>2, <2>4, <3>1
  <2>6. /\ start \in [1 .. 4 -> Vector] /\ Loaded \in Unit
        /\ \A v \in 1 .. 4 : Loaded.regs[v] = start[v]
        /\ \E c : Chain(c, p)
    BY <1>1, <2>4, <2>5, Finished DEF p
  <2>7. PICK c : Chain(c, p)
    BY <2>6
  <2>8. /\ c[1] = Loaded /\ c[9] = cp2
        /\ c[2] = RSPCycleCP2(c[1], w1) /\ c[3] = RSPCycleCP2(c[2], w2)
        /\ c[4] = RSPCycleCP2(c[3], w3) /\ c[5] = RSPCycleCP2(c[4], w4)
        /\ c[6] = RSPCycleCP2(c[5], w5) /\ c[7] = RSPCycleCP2(c[6], w6)
        /\ c[8] = RSPCycleCP2(c[7], w7) /\ c[9] = RSPCycleCP2(c[8], w8)
    BY <2>4, <2>7 DEF Chain
  <2>9. /\ c[1] \in SafeUnit /\ c[1].regs[1] = start[1] /\ c[1].regs[2] = start[2]
        /\ c[1].regs[3] = start[3] /\ c[1].regs[4] = start[4]
        /\ start[1] \in Vector /\ start[2] \in Vector
        /\ start[3] \in Vector /\ start[4] \in Vector
    BY <2>6, <2>8, LoadedSafe
  <2>10. /\ A(0) \in UpperRange /\ B(0) \in UpperRange
         /\ HalvesIn(cp2, 7, 6, Divide(A(0), FALSE)) /\ HalvesIn(cp2, 9, 8, Divide(B(0), FALSE))
    BY <2>8, <2>9, ReciprocalsResult DEF w1, w2, w3, w4, w5, w6, w7, w8, A, B
  <2>. HIDE DEF A, B
  <2>11. /\ Pair(Reg(7, 1), Reg(6, 1)) = Divide(A(0), FALSE)
         /\ Pair(Reg(9, 1), Reg(8, 1)) = Divide(B(0), FALSE)
    BY <2>10, HalvesMeet DEF HalvesIn, Reg
  <2>. QED BY <2>10, <2>11, DivideNear
<1>2. ASSUME Progress, After(SingleThenDouble)
      PROVE  /\ IsReciprocal(Pair(Reg(6, 1), Reg(5, 1)), Signed(start[1][0]))
             /\ IsReciprocal(Pair(Reg(8, 1), Reg(7, 1)), A(0))
             /\ A(0) = Signed(start[1][0]) =>
                  Reg(7, 1) = Reg(5, 1) /\ Reg(8, 1) = Reg(6, 1)
  <2>. DEFINE w1 == V("VRCP", 5, 1, 1, 8)
              w2 == V("VRCPH", 6, 1, 2, 8)
              w3 == V("VRCPL", 7, 1, 1, 8)
              w4 == V("VRCPH", 8, 1, 0, 8)
              x == Signed(start[1][0])
  <2>1. \A iw \in {w1, w2, w3, w4} : RSPDecodeInstruction(iw) = "VECT"
    BY AssembledToo
  <2>2. SingleThenDouble = <<w1, w2, w3, w4>>
    BY DEF SingleThenDouble
  <2>. HIDE DEF w1, w2, w3, w4
  <2>3. /\ start \in [1 .. 4 -> Vector] /\ Loaded \in Unit
        /\ \A v \in 1 .. 4 : Loaded.regs[v] = start[v]
        /\ \E c1, c2, c3 :
             /\ c1 = RSPCycleCP2(Loaded, w1) /\ c2 = RSPCycleCP2(c1, w2)
             /\ c3 = RSPCycleCP2(c2, w3) /\ cp2 = RSPCycleCP2(c3, w4)
    BY <1>2, <2>1, <2>2, FourCycles
  <2>4. PICK c1, c2, c3 :
          /\ c1 = RSPCycleCP2(Loaded, w1) /\ c2 = RSPCycleCP2(c1, w2)
          /\ c3 = RSPCycleCP2(c2, w3) /\ cp2 = RSPCycleCP2(c3, w4)
    BY <2>3
  <2>5. /\ Loaded \in SafeUnit /\ start[1] \in Vector /\ start[2] \in Vector
        /\ Loaded.regs[1] = start[1] /\ Loaded.regs[2] = start[2]
    BY <2>3, LoadedSafe
  <2>6. /\ x \in UpperRange /\ A(0) \in UpperRange
        /\ HalvesIn(cp2, 6, 5, Divide(x, FALSE)) /\ HalvesIn(cp2, 8, 7, Divide(A(0), FALSE))
    BY <2>4, <2>5, SingleThenDoubleResult DEF w1, w2, w3, w4, A
  <2>. HIDE DEF A, x
  <2>7. /\ Pair(Reg(6, 1), Reg(5, 1)) = Divide(x, FALSE)
        /\ Pair(Reg(8, 1), Reg(7, 1)) = Divide(A(0), FALSE)
    BY <2>6, HalvesMeet DEF HalvesIn, Reg
  <2>8. IsReciprocal(Divide(x, FALSE), x) /\ IsReciprocal(Divide(A(0), FALSE), A(0))
    BY <2>6, DivideNear
  <2>9. A(0) = x => Reg(7, 1) = Reg(5, 1) /\ Reg(8, 1) = Reg(6, 1)
    BY <2>6 DEF HalvesIn, Reg
  <2>. QED BY <2>7, <2>8, <2>9 DEF x
<1>3. ASSUME Progress, After(DoubleInterrupted)
      PROVE  IsReciprocal(Pair(Reg(8, 1), Reg(7, 1)), start[1][0])
  <2>. DEFINE w1 == V("VRCPH", 5, 1, 2, 8)
              w2 == V("VRCP", 6, 1, 3, 8)
              w3 == V("VRCPL", 7, 1, 1, 8)
              w4 == V("VRCPH", 8, 1, 0, 8)
              x == start[1][0]
  <2>1. \A iw \in {w1, w2, w3, w4} : RSPDecodeInstruction(iw) = "VECT"
    <3>1. ASSUME NEW op \in {"VRCP", "VRCPL", "VRCPH"}, NEW vd, NEW vt
          PROVE  RSPDecodeInstruction(V(op, vd, 1, vt, 8)) = "VECT"
      <4>1. 8 \in 0 .. 15
        OBVIOUS
      <4>. QED BY <4>1, AssembledToo
    <3>. QED BY <3>1
  <2>2. DoubleInterrupted = <<w1, w2, w3, w4>>
    BY DEF DoubleInterrupted
  <2>. HIDE DEF w1, w2, w3, w4
  <2>3. /\ start \in [1 .. 4 -> Vector] /\ Loaded \in Unit
        /\ \A v \in 1 .. 4 : Loaded.regs[v] = start[v]
        /\ \E c1, c2, c3 :
             /\ c1 = RSPCycleCP2(Loaded, w1) /\ c2 = RSPCycleCP2(c1, w2)
             /\ c3 = RSPCycleCP2(c2, w3) /\ cp2 = RSPCycleCP2(c3, w4)
    BY <1>3, <2>1, <2>2, FourCycles
  <2>4. PICK c1, c2, c3 :
          /\ c1 = RSPCycleCP2(Loaded, w1) /\ c2 = RSPCycleCP2(c1, w2)
          /\ c3 = RSPCycleCP2(c2, w3) /\ cp2 = RSPCycleCP2(c3, w4)
    BY <2>3
  <2>5. Loaded \in SafeUnit /\ start[1] \in Vector /\ Loaded.regs[1] = start[1]
    BY <2>3, LoadedSafe
  <2>6. x \in UpperRange /\ HalvesIn(cp2, 8, 7, Divide(x, FALSE))
    BY <2>4, <2>5, DoubleInterruptedResult DEF w1, w2, w3, w4
  <2>. HIDE DEF x
  <2>7. Pair(Reg(8, 1), Reg(7, 1)) = Divide(x, FALSE)
    BY <2>6, HalvesMeet DEF HalvesIn, Reg
  <2>. QED BY <2>6, <2>7, DivideNear DEF x
<1>4. Progress => DividerHandsOver
  BY <1>1, <1>2, <1>3 DEF DividerHandsOver
<1>. QED BY <1>4, ProgressHolds, PTL

(***************************************************************************)
(* Roots.                                                                  *)
(***************************************************************************)
\* Squares are ordered as their roots.
LEMMA Squares ==
  ASSUME NEW a \in Nat, NEW b \in Nat
  PROVE  /\ a * a \in Nat /\ (a <= b => a * a <= b * b)
         /\ (a * a < b * b => a < b)
<1>1. ASSUME NEW c \in Nat, NEW d \in Nat, c <= d PROVE c * c <= d * d
  <2>1. c * c <= c * d /\ c * d <= d * d /\ c * c \in Int /\ c * d \in Int /\ d * d \in Int
    BY <1>1, Times
  <2>. QED BY <2>1
<1>2. ASSUME a * a < b * b PROVE a < b
  <2>. SUFFICES ASSUME b <= a PROVE FALSE
    OBVIOUS
  <2>1. b * b <= a * a /\ a * a \in Int /\ b * b \in Int
    BY <1>1
  <2>. QED BY <1>2, <2>1
<1>. QED BY <1>1, <1>2

\* A root rounded down to a half, against the number it is the reciprocal root
\* of.
RootInverse(g, n) ==
  /\ g \in Base .. 2 * Base - 1
  /\ n * (g * g) <= 2 * (Base * Base * Index)
  /\ 2 * (Base * Base * Index) <= n * ((g + 1) * (g + 1))

\* Half a root is between one and two units.
LEMMA RootBetween ==
  ASSUME NEW I \in Nat \ {0}, NEW b \in Nat \ {0}, NEW n \in Nat, I <= 2 * n, n < 2 * I,
         NEW r \in Nat, n * (r * r) < 8 * (b * b * I),
         8 * (b * b * I) <= n * ((r + 1) * (r + 1))
  PROVE  2 * b <= r /\ r < 4 * b
<1>. DEFINE s == r * r
            u == (r + 1) * (r + 1)
            c == b * b
<1>1. s \in Nat /\ u \in Nat /\ c \in Nat /\ (4 * b) * (4 * b) = 16 * c
      /\ (2 * b) * (2 * b) = 4 * c
  OBVIOUS
<1>2. b * b * I = I * c
  OBVIOUS
<1>. HIDE DEF s, u, c
<1>3. n * s < 8 * (I * c) /\ 8 * (I * c) <= n * u
  BY <1>2 DEF s, u
<1>4. s < 16 * c
  <2>1. I * s <= (2 * n) * s /\ (2 * n) * s = 2 * (n * s) /\ n * s \in Nat /\ I * c \in Nat
        /\ I * s \in Int /\ I * (16 * c) = 16 * (I * c)
    BY <1>1, Times
  <2>2. I * s < I * (16 * c)
    BY <1>3, <2>1
  <2>. QED BY <1>1, <2>2, Cancel
<1>5. r < 4 * b
  BY <1>1, <1>4, Squares DEF s
<1>6. 4 * c < u
  <2>1. n * u <= (2 * I - 1) * u /\ (2 * I - 1) * u = (2 * I) * u - u
        /\ n * u \in Nat /\ I * c \in Nat /\ (2 * I) * u \in Nat
        /\ (2 * I) * (4 * c) = 8 * (I * c)
    BY <1>1, Times
  <2>2. u >= 1
    <3>1. u = s + 2 * r + 1
      BY DEF u, s
    <3>. QED BY <1>1, <3>1
  <2>3. (2 * I) * (4 * c) < (2 * I) * u
    BY <1>1, <1>3, <2>1, <2>2
  <2>4. 2 * I \in Nat \ {0} /\ 4 * c \in Int
    BY <1>1
  <2>. QED BY <1>1, <2>3, <2>4, Cancel
<1>7. 2 * b < r + 1
  BY <1>1, <1>6, Squares DEF u
<1>. QED BY <1>5, <1>7

\* The entries of the second half of the table are such roots.
LEMMA EntryRoot ==
  ASSUME NEW n \in Index .. 2 * Index - 1
  PROVE  RootInverse(Base + ReciprocalLUT[n], RootNumber(n))
<1>. DEFINE b == Base
            I == Index
            m == RootNumber(n)
<1>1. /\ I \in Nat \ {0} /\ b \in Nat \ {0} /\ m \in Nat /\ I <= 2 * m /\ m < 2 * I
      /\ RootLimit = 8 * (b * b * I)
  BY DividerSizes, SliceTypes, RootSizes
<1>2. PICK r \in 0 .. 8 * b : IsRootOf(r, n) /\ ReciprocalLUT[n] = (r \div 2) % b
  BY RootEntryIs
<1>. HIDE DEF b, I, m
<1>3. r \in Nat /\ m * (r * r) < 8 * (b * b * I)
      /\ 8 * (b * b * I) <= m * ((r + 1) * (r + 1))
  <2>1. m * r * r < RootLimit /\ m * (r + 1) * (r + 1) >= RootLimit
    BY <1>2 DEF IsRootOf, m
  <2>2. r \in Nat
    BY <1>1
  <2>3. m * r * r = m * (r * r) /\ m * (r + 1) * (r + 1) = m * ((r + 1) * (r + 1))
    BY <1>1, <2>2
  <2>. QED BY <1>1, <2>1, <2>2, <2>3
<1>4. 2 * b <= r /\ r < 4 * b
  BY <1>1, <1>3, RootBetween
<1>. DEFINE g == r \div 2
<1>5. g \in Nat /\ b <= g /\ g < 2 * b /\ 2 * g <= r /\ r <= 2 * g + 1
  BY <1>1, <1>3, <1>4
<1>. HIDE DEF g
<1>6. b + ReciprocalLUT[n] = g
  <2>1. g = 1 * b + (g - b) /\ g - b \in 0 .. b - 1 /\ 1 \in Int
    BY <1>1, <1>5
  <2>. DEFINE d == g - b
  <2>. HIDE DEF d
  <2>2. (1 * b + d) % b = d
    BY <1>1, <2>1, DivMod DEF d
  <2>3. ReciprocalLUT[n] = d
    BY <1>2, <2>1, <2>2 DEF g, d
  <2>. QED BY <1>1, <1>5, <2>3 DEF d
<1>. DEFINE c == b * b * I
            s == g * g
            u == (g + 1) * (g + 1)
<1>7. c \in Nat /\ s \in Nat /\ u \in Nat
  <2>1. b * b \in Nat
    BY <1>1
  <2>. QED BY <1>1, <1>5, <2>1
<1>8. m * s <= 2 * c
  <2>1. (2 * g) * (2 * g) <= r * r /\ r * r \in Nat /\ (2 * g) * (2 * g) \in Nat
    BY <1>3, <1>5, Squares
  <2>2. m * ((2 * g) * (2 * g)) <= m * (r * r)
    BY <1>1, <2>1, Times
  <2>3. m * ((2 * g) * (2 * g)) = 4 * (m * s) /\ m * s \in Nat /\ m * (r * r) \in Nat
    BY <1>1, <1>3, <1>5
  <2>. HIDE DEF c, s
  <2>4. m * (r * r) < 8 * c
    BY <1>3 DEF c
  <2>. QED BY <1>7, <2>2, <2>3, <2>4
<1>9. 2 * c <= m * u
  <2>0. r + 1 \in Nat /\ 2 * (g + 1) \in Nat /\ r + 1 <= 2 * (g + 1)
    BY <1>3, <1>5
  <2>1. (r + 1) * (r + 1) <= (2 * (g + 1)) * (2 * (g + 1)) /\ (r + 1) * (r + 1) \in Nat
        /\ (2 * (g + 1)) * (2 * (g + 1)) \in Nat
    BY <2>0, Squares
  <2>2. m * ((r + 1) * (r + 1)) <= m * ((2 * (g + 1)) * (2 * (g + 1)))
    BY <1>1, <2>1, Times
  <2>3. m * ((2 * (g + 1)) * (2 * (g + 1))) = 4 * (m * u) /\ m * u \in Nat
        /\ m * ((r + 1) * (r + 1)) \in Nat
    BY <1>1, <1>3, <1>5
  <2>. HIDE DEF c, u
  <2>4. 8 * c <= m * ((r + 1) * (r + 1))
    BY <1>3 DEF c
  <2>. QED BY <1>7, <2>2, <2>3, <2>4
<1>. QED BY <1>1, <1>5, <1>6, <1>8, <1>9 DEF RootInverse, b, I, m

\* The square of a quotient against a number that the index bounds.
LEMMA RootQuotientNear ==
  ASSUME NEW h \in Nat, NEW b \in Nat \ {0}, NEW I \in Nat \ {0}, I <= b,
         NEW g \in Nat, b <= g, NEW n \in Nat,
         n * (g * g) <= 2 * (b * b * I), 2 * (b * b * I) <= n * ((g + 1) * (g + 1)),
         NEW p \in Nat \ {0}, NEW q \in Nat, q * p <= h * g, h * g < (q + 1) * p,
         NEW x \in Nat, NEW e \in Nat, I * e <= 2 * n,
         2 * (n * (p * p)) <= x * I, x * I <= 2 * ((n + e) * (p * p)),
         NEW one, one = 2 * (h * b)
  PROVE  /\ (I * q) * (I * q) * x <= ((I + 1) * one) * ((I + 1) * one)
         /\ ((I - 1) * one) * ((I - 1) * one) <= (I * (q + 1)) * (I * (q + 1)) * x
<1>. DEFINE P == p * p
            s == g * g
            u == (g + 1) * (g + 1)
            c == b * b
            H == h * h
            y == x * I
<1>1. P \in Nat /\ s \in Nat /\ u \in Nat /\ c \in Nat \ {0} /\ H \in Nat /\ y \in Nat
      /\ c * I \in Nat /\ b * b * I = c * I
  <2>1. c \in Nat \ {0}
    OBVIOUS
  <2>. HIDE DEF c
  <2>. QED BY <2>1 DEF c
<1>2. n * s <= 2 * (c * I) /\ 2 * (c * I) <= n * u
  BY <1>1
<1>3. 2 * (n * P) <= y /\ y <= 2 * ((n + e) * P)
  OBVIOUS
<1>4. one \in Nat /\ one * one = 4 * (H * c)
  OBVIOUS
<1>. DEFINE O == one * one
            Q == q * q
            U == (q + 1) * (q + 1)
<1>5. Q \in Nat /\ U \in Nat /\ O \in Nat
  BY <1>4
<1>6. /\ (I * q) * (I * q) * x = I * (Q * y)
      /\ (I * (q + 1)) * (I * (q + 1)) * x = I * (U * y)
      /\ ((I + 1) * one) * ((I + 1) * one) = ((I + 1) * (I + 1)) * O
      /\ ((I - 1) * one) * ((I - 1) * one) = ((I - 1) * (I - 1)) * O
  BY <1>4
<1>7. Q * P <= H * s /\ H * s <= U * P
  <2>1. /\ q * p \in Nat /\ h * g \in Nat /\ (q + 1) * p \in Nat /\ h * g <= (q + 1) * p
    OBVIOUS
  <2>2. (q * p) * (q * p) <= (h * g) * (h * g)
    BY <2>1, Squares
  <2>3. (h * g) * (h * g) <= ((q + 1) * p) * ((q + 1) * p)
    BY <2>1, Squares
  <2>4. /\ (q * p) * (q * p) = Q * P /\ (h * g) * (h * g) = H * s
        /\ ((q + 1) * p) * ((q + 1) * p) = U * P
    OBVIOUS
  <2>. QED BY <2>2, <2>3, <2>4
<1>8. I * (Q * y) <= ((I + 1) * (I + 1)) * O
  <2>1. (n + e) * s <= 2 * (c * I) + 4 * c
    <3>1. (I * e) * s <= (2 * n) * s
      BY <1>1, Times
    <3>2. (I * e) * s = I * (e * s) /\ (2 * n) * s = 2 * (n * s) /\ e * s \in Nat
          /\ n * s \in Nat /\ (n + e) * s = n * s + e * s /\ c * I = I * c
          /\ I * (4 * c) = 4 * (I * c)
      BY <1>1
    <3>3. I * (e * s) <= I * (4 * c)
      BY <1>1, <1>2, <3>1, <3>2
    <3>4. e * s <= 4 * c
      BY <1>1, <3>2, <3>3, Cancel
    <3>. QED BY <1>1, <1>2, <3>2, <3>4
  <2>. HIDE DEF P, s, u, c, H, y, Q, U
  <2>2. Q * y <= Q * (2 * ((n + e) * P)) /\ Q * y \in Int
    <3>. DEFINE z == 2 * ((n + e) * P)
    <3>1. z \in Int /\ y <= z
      BY <1>1, <1>3
    <3>. HIDE DEF z
    <3>2. Q * y <= Q * z /\ Q * y \in Int
      BY <1>1, <1>5, <3>1, Times
    <3>. QED BY <3>2 DEF z
  <2>3. Q * (2 * ((n + e) * P)) = (2 * (n + e)) * (Q * P)
    BY <1>1, <1>5
  <2>4. (2 * (n + e)) * (Q * P) <= (2 * (n + e)) * (H * s)
    <3>1. Q * P \in Int /\ H * s \in Int /\ 2 * (n + e) \in Nat
      BY <1>1, <1>5
    <3>. QED BY <1>7, <3>1, Times
  <2>5. (2 * (n + e)) * (H * s) = (2 * H) * ((n + e) * s)
    BY <1>1
  <2>6. (2 * H) * ((n + e) * s) <= (2 * H) * (2 * (c * I) + 4 * c)
    <3>. DEFINE z == 2 * (c * I) + 4 * c
    <3>1. z \in Int /\ (n + e) * s \in Int /\ 2 * H \in Nat /\ (n + e) * s <= z
      BY <1>1, <2>1
    <3>. HIDE DEF z
    <3>2. (2 * H) * ((n + e) * s) <= (2 * H) * z
      BY <3>1, Times
    <3>. QED BY <3>2 DEF z
  <2>7. (2 * H) * (2 * (c * I) + 4 * c) = (I + 2) * (4 * (H * c))
    BY <1>1
  <2>8. Q * y <= (I + 2) * O
    <3>. DEFINE a1 == Q * y
                a2 == Q * (2 * ((n + e) * P))
                a3 == (2 * (n + e)) * (H * s)
                a4 == (2 * H) * (2 * (c * I) + 4 * c)
    <3>1. a1 \in Int /\ a2 \in Int /\ a3 \in Int /\ a4 \in Int
      BY <1>1, <1>5
    <3>2. a1 <= a2 /\ a2 <= a3 /\ a3 <= a4 /\ a4 = (I + 2) * O
      BY <1>4, <2>2, <2>3, <2>4, <2>5, <2>6, <2>7
    <3>. HIDE DEF a1, a2, a3, a4, O
    <3>3. a1 <= a4
      BY <3>1, <3>2
    <3>. QED BY <3>2, <3>3 DEF a1
  <2>. HIDE DEF O
  <2>9. I * (Q * y) <= I * ((I + 2) * O)
    BY <1>5, <2>2, <2>8, Times
  <2>10. I * ((I + 2) * O) = ((I + 1) * (I + 1)) * O - O
    BY <1>5
  <2>11. I * (Q * y) \in Int /\ ((I + 1) * (I + 1)) * O \in Int
    BY <1>5, <2>2
  <2>. QED BY <1>5, <2>9, <2>10, <2>11
<1>9. ((I - 1) * (I - 1)) * O <= I * (U * y)
  <2>1. 2 * (((I - 1) * (I - 1)) * c) <= I * (n * s)
    <3>1. (I - 1) * (g + 1) <= I * g /\ (I - 1) * (g + 1) \in Nat /\ I * g \in Nat
      <4>1. (I - 1) * (g + 1) = I * g + I - g - 1
        OBVIOUS
      <4>. QED BY <4>1
    <3>2. ((I - 1) * (g + 1)) * ((I - 1) * (g + 1)) <= (I * g) * (I * g)
      BY <3>1, Squares
    <3>. DEFINE k == (I - 1) * (I - 1)
                l == I * I
    <3>3. /\ ((I - 1) * (g + 1)) * ((I - 1) * (g + 1)) = k * u /\ (I * g) * (I * g) = l * s
          /\ k \in Nat /\ l \in Nat
      OBVIOUS
    <3>. HIDE DEF k, u, s, c
    <3>4. n * (k * u) <= n * (l * s)
      <4>1. k * u <= l * s /\ k * u \in Int /\ l * s \in Int
        BY <1>1, <3>2, <3>3
      <4>. QED BY <4>1, Times
    <3>5. k * (2 * (c * I)) <= k * (n * u)
      <4>1. 2 * (c * I) \in Int /\ n * u \in Int
        BY <1>1
      <4>. QED BY <1>2, <3>3, <4>1, Times
    <3>6. n * (k * u) = k * (n * u) /\ n * (l * s) = I * (I * (n * s))
          /\ k * (2 * (c * I)) = I * (2 * (k * c))
      <4>1. n * (k * u) = k * (n * u)
        BY <1>1, <3>3
      <4>2. n * (l * s) = I * (I * (n * s))
        BY <1>1 DEF l
      <4>3. k * (2 * (c * I)) = I * (2 * (k * c))
        BY <1>1, <3>3
      <4>. QED BY <4>1, <4>2, <4>3
    <3>7. 2 * (k * c) \in Int /\ I * (n * s) \in Int /\ k * (n * u) \in Int
          /\ I * (2 * (k * c)) \in Int /\ I * (I * (n * s)) \in Int
      <4>1. k * c \in Int /\ n * s \in Int /\ n * u \in Int
        BY <1>1, <3>3
      <4>. QED BY <3>3, <4>1
    <3>8. I * (2 * (k * c)) <= I * (I * (n * s))
      BY <3>4, <3>5, <3>6, <3>7
    <3>9. 2 * (k * c) <= I * (n * s)
      BY <3>7, <3>8, Cancel
    <3>. QED BY <3>9 DEF k
  <2>. HIDE DEF P, s, u, c, H, y, Q, U
  <2>. DEFINE k == (I - 1) * (I - 1)
  <2>2. k \in Nat
    OBVIOUS
  <2>. HIDE DEF k
  <2>3. U * (2 * (n * P)) <= U * y /\ U * y \in Int
    <3>. DEFINE z == 2 * (n * P)
    <3>1. z \in Int /\ z <= y
      BY <1>1, <1>3
    <3>. HIDE DEF z
    <3>2. U * z <= U * y /\ U * y \in Int
      BY <1>1, <1>5, <3>1, Times
    <3>. QED BY <3>2 DEF z
  <2>4. U * (2 * (n * P)) = (2 * n) * (U * P)
    BY <1>1, <1>5
  <2>5. (2 * n) * (H * s) <= (2 * n) * (U * P)
    <3>1. U * P \in Int /\ H * s \in Int /\ 2 * n \in Nat
      BY <1>1, <1>5
    <3>. QED BY <1>7, <3>1, Times
  <2>6. (2 * n) * (H * s) <= U * y /\ (2 * n) * (H * s) \in Int
    <3>1. U * P \in Int /\ H * s \in Int
      BY <1>1, <1>5
    <3>2. (2 * n) * (H * s) \in Int /\ (2 * n) * (U * P) \in Int
      BY <3>1
    <3>. QED BY <2>3, <2>4, <2>5, <3>2
  <2>7. I * ((2 * n) * (H * s)) <= I * (U * y)
    BY <2>3, <2>6, Times
  <2>8. I * ((2 * n) * (H * s)) = (2 * H) * (I * (n * s))
    BY <1>1
  <2>9. (2 * H) * (2 * (k * c)) <= (2 * H) * (I * (n * s))
    <3>1. 2 * (k * c) \in Int /\ I * (n * s) \in Int /\ 2 * H \in Nat
      <4>1. k * c \in Int /\ n * s \in Int
        BY <1>1, <2>2
      <4>. QED BY <1>1, <4>1
    <3>2. 2 * (k * c) <= I * (n * s)
      BY <2>1 DEF k
    <3>. QED BY <3>1, <3>2, Times
  <2>10. (2 * H) * (2 * (k * c)) = k * (4 * (H * c))
    BY <1>1, <2>2
  <2>11. k * O <= I * (U * y)
    <3>. DEFINE a1 == (2 * H) * (2 * (k * c))
                a2 == (2 * H) * (I * (n * s))
                a3 == I * (U * y)
    <3>1. a1 \in Int /\ a2 \in Int /\ a3 \in Int
      BY <1>1, <2>2, <2>3
    <3>2. a1 <= a2 /\ a2 <= a3 /\ a1 = k * O
      BY <1>4, <2>7, <2>8, <2>9, <2>10
    <3>. HIDE DEF a1, a2, a3, O
    <3>3. a1 <= a3
      BY <3>1, <3>2
    <3>. QED BY <3>2, <3>3 DEF a3
  <2>. QED BY <2>11 DEF k
<1>. QED BY <1>6, <1>8, <1>9

\* What the entry of a number's index is the root of, against the number: half
\* the exponent goes into the shift, its lowest bit into the index.
RootIndexed(m, n, P) ==
  \E e \in Nat : /\ Index * e <= 2 * n
                 /\ 2 * (n * (P * P)) <= m * Index
                 /\ m * Index <= 2 * ((n + e) * (P * P))

\* The index of a root (RSPVRSQL).
LEMMA RootIndexBounds ==
  ASSUME NEW k \in 0 .. 2 * SliceBits - 2, NEW p, p = Power[k],
         NEW m \in 1 .. Range - 1, p <= m, m < 2 * p, NEW P, P = Power[k \div 2],
         NEW t, t = TableIndex(m, k)
  PROVE  /\ P \in Nat \ {0}
         /\ \E n \in Index .. 2 * Index - 1 :
              /\ RootEntry(t, k) = ReciprocalLUT[n] /\ RootNumber(n) \in Nat
              /\ RootIndexed(m, RootNumber(n), P)
<1>. DEFINE I == Index
            bit == (2 * SliceBits - 1 - k) % 2
            a == t \div 2
            j == k \div 2
            n == I + 2 * a + bit
            N == I + t
            M == m * I
            R == P * P
<1>1. /\ I \in Nat \ {0} /\ I % 2 = 0 /\ SliceBits \in Nat /\ m \in Nat
      /\ I = Power[TableBits]
  BY DividerSizes, SliceAssumption DEF Index
<1>2. /\ k \in Nat /\ j \in Nat /\ bit \in 0 .. 1
      /\ bit = 1 => k = j + j
      /\ bit = 0 => k = (j + j) + 1
  BY <1>1
<1>3. p \in Nat \ {0} /\ P \in Nat \ {0} /\ Power[j + j] = R /\ j + j \in Nat
  <2>1. j + j \in Nat /\ P = Power[j]
    BY <1>2
  <2>2. p \in Nat \ {0} /\ P \in Nat \ {0}
    BY <1>2, <2>1, PowerSteps
  <2>. HIDE DEF j
  <2>3. Power[j + j] = Power[j] * Power[j]
    BY <1>2, PowerAdd
  <2>. QED BY <2>1, <2>2, <2>3
<1>4. N \in I .. 2 * I - 1 /\ N * p <= M /\ M < (N + 1) * p
  <2>1. N = Index + TableIndex(m, k)
    OBVIOUS
  <2>. HIDE DEF N
  <2>2. N \in Index .. 2 * Index - 1 /\ Indexed(m, p, N)
    BY <2>1, IndexBounds
  <2>. QED BY <2>2 DEF Indexed
<1>5. t \in 0 .. I - 1
  BY <1>1, IndexTypes
<1>6. RootEntry(t, k) = ReciprocalLUT[n]
  BY DEF RootEntry, Index
<1>. HIDE DEF I, bit, j
<1>7. a \in Nat /\ 2 * a <= t /\ t <= 2 * a + 1 /\ n \in I .. 2 * I - 1
  BY <1>1, <1>2, <1>5
<1>. HIDE DEF a
<1>8. M \in Nat /\ R \in Nat /\ N \in Nat
  BY <1>1, <1>3, <1>4
<1>9. CASE bit = 1
  <2>. DEFINE c == n \div 2
  <2>1. c \in Nat /\ 2 * c = I + 2 * a /\ n % 2 = 1
    BY <1>1, <1>7, <1>9
  <2>. HIDE DEF n
  <2>2. RootNumber(n) = c
    BY <2>1 DEF RootNumber
  <2>3. p = R
    BY <1>2, <1>3, <1>9
  <2>. HIDE DEF c, R, M, N
  <2>4. 2 * c <= N /\ N + 1 <= 2 * (c + 1)
    BY <1>1, <1>5, <1>7, <2>1 DEF N
  <2>5. (2 * c) * R <= N * R /\ (N + 1) * R <= (2 * (c + 1)) * R
    BY <1>8, <2>1, <2>4, Times
  <2>6. (2 * c) * R = 2 * (c * R) /\ (2 * (c + 1)) * R = 2 * ((c + 1) * R)
        /\ N * R \in Int /\ (N + 1) * R \in Int /\ c * R \in Int /\ (c + 1) * R \in Int
    BY <1>8, <2>1
  <2>7. 2 * (c * R) <= M /\ M <= 2 * ((c + 1) * R)
    BY <1>4, <1>8, <2>3, <2>5, <2>6
  <2>8. I * 1 <= 2 * c /\ 1 \in Nat
    BY <1>1, <1>7, <2>1
  <2>9. RootIndexed(m, c, P)
    BY <2>7, <2>8 DEF RootIndexed, I, M, R
  <2>. QED BY <1>3, <1>6, <1>7, <2>1, <2>2, <2>9 DEF I
<1>10. CASE bit = 0
  <2>1. n = I + 2 * a /\ n % 2 = 0 /\ n \in Nat
    BY <1>1, <1>7, <1>10
  <2>. HIDE DEF n
  <2>2. RootNumber(n) = n
    BY <2>1 DEF RootNumber
  <2>3. p = 2 * R
    BY <1>2, <1>3, <1>10, PowerSteps
  <2>. HIDE DEF R, M, N
  <2>4. n <= N /\ N + 1 <= n + 2
    BY <1>1, <1>5, <1>7, <2>1 DEF N
  <2>5. n * p <= N * p /\ (N + 1) * p <= (n + 2) * p
    BY <1>3, <1>8, <2>1, <2>4, Times
  <2>6. n * p = 2 * (n * R) /\ (n + 2) * p = 2 * ((n + 2) * R)
        /\ N * p \in Int /\ (N + 1) * p \in Int /\ n * R \in Int /\ (n + 2) * R \in Int
    BY <1>3, <1>8, <2>1, <2>3
  <2>7. 2 * (n * R) <= M /\ M <= 2 * ((n + 2) * R)
    BY <1>4, <1>8, <2>5, <2>6
  <2>8. I * 2 <= 2 * n /\ 2 \in Nat
    BY <1>1, <1>7, <2>1
  <2>9. RootIndexed(m, n, P)
    BY <2>7, <2>8 DEF RootIndexed, I, M, R
  <2>. QED BY <1>3, <1>6, <1>7, <2>1, <2>2, <2>9 DEF I
<1>. QED BY <1>2, <1>9, <1>10

\* From there to the form that IsRoot states; a quotient of zero is a root
\* because the number is less than one.
LEMMA RootForm ==
  ASSUME NEW I \in Nat \ {0}, NEW q \in Nat, NEW x \in Nat, NEW one \in Nat \ {0}, x <= one,
         (I * q) * (I * q) * x <= ((I + 1) * one) * ((I + 1) * one)
  PROVE  (I * (q - 1)) * (I * (q - 1)) * x <= ((I + 1) * one) * ((I + 1) * one)
<1>. DEFINE s == (I * (q - 1)) * (I * (q - 1))
            u == (I * q) * (I * q)
            v == ((I + 1) * one) * ((I + 1) * one)
<1>1. v \in Nat /\ u \in Nat /\ u * x \in Nat
  BY Squares
<1>2. CASE q >= 1
  <2>1. I * (q - 1) \in Nat /\ I * q \in Nat /\ I * (q - 1) <= I * q
    BY <1>2, Times
  <2>2. s <= u /\ s \in Nat
    BY <2>1, Squares
  <2>. HIDE DEF s, u, v
  <2>3. s * x <= u * x /\ s * x \in Int
    BY <1>1, <2>2, Times
  <2>. QED BY <1>1, <2>3 DEF s, u, v
<1>3. CASE q = 0
  <2>1. s = I * I
    BY <1>3
  <2>. DEFINE w == I * I
              o == one * one
  <2>2. w \in Nat /\ o \in Nat /\ one <= o
    <3>1. 1 * one <= one * one /\ 1 * one = one
      BY Times
    <3>. QED BY <3>1
  <2>3. w * x <= w * o /\ w * x \in Int /\ w * o \in Int
    <3>. HIDE DEF w, o
    <3>1. x <= o
      BY <2>2
    <3>. QED BY <2>2, <3>1, Times
  <2>4. v = ((I + 1) * (I + 1)) * o /\ w <= (I + 1) * (I + 1) /\ (I + 1) * (I + 1) \in Nat
    OBVIOUS
  <2>. DEFINE w2 == (I + 1) * (I + 1)
  <2>. HIDE DEF w, o, w2, s, v
  <2>5. w * o <= w2 * o /\ w2 * o \in Int
    BY <2>2, <2>4, Times DEF w2
  <2>6. s * x <= v
    BY <2>1, <2>3, <2>4, <2>5 DEF w2, w
  <2>. QED BY <2>6 DEF s, v
<1>. QED BY <1>2, <1>3

\* The divider's quotient is the reciprocal of a root (RSPVRSQL).
LEMMA DivideRoot ==
  ASSUME NEW x \in UpperRange
  PROVE  IsRoot(Divide(x, TRUE), x)
<1>. DEFINE I == Index
            R == Base
            h == Half \div 2
            one == 2 * Half * Half
            m == Magnitude(x)
<1>1. /\ I \in Nat \ {0} /\ R \in Nat \ {0} /\ I <= Half /\ R = 2 * Half /\ Half \in Nat \ {0}
      /\ h \in Nat \ {0} /\ Half = 2 * h /\ one = Range /\ Range \in Nat \ {0}
  BY DividerSizes, SliceSizes, SliceTypes DEF Base
<1>2. x \in Int /\ x >= -Range /\ x < Range
  BY <1>1, UpperPairs
<1>3. CASE x = 0
  <2>1. Divide(x, TRUE) = one - 1
    BY <1>3 DEF Divide
  <2>2. ~(0 < 0) /\ ~(0 > 0)
    OBVIOUS
  <2>3. IsRoot(one - 1, 0)
    BY <2>2, Zenon DEF IsRoot
  <2>. QED BY <1>3, <2>1, <2>3
<1>4. CASE x < 0
  <2>1. x # 0 /\ ~(x > 0)
    BY <1>2, <1>4
  <2>. QED BY <1>4, <2>1, Zenon DEF IsRoot
<1>5. CASE x > 0
  <2>0. m = x /\ x # 0 /\ ~(x < 0) /\ x \in Nat
    <3>1. x # 0 /\ ~(x < 0) /\ x \in Nat
      BY <1>2, <1>5
    <3>2. ~(x < -Half)
      BY <1>1, <1>2, <1>5
    <3>. QED BY <3>1, <3>2 DEF Magnitude
  <2>1. PICK k \in 0 .. 2 * SliceBits - 2 :
           LET f == RootEntry(TableIndex(m, k), k)
               q == Mantissa(f) \div Power[k \div 2] IN
           /\ m \in 1 .. Range - 1 /\ Power[k] \in Nat \ {0}
           /\ Power[k] <= m /\ m < 2 * Power[k]
           /\ TableIndex(m, k) \in 0 .. Index - 1 /\ f \in Slice
           /\ q \in 0 .. Range - 1
           /\ Divide(x, TRUE) = IF x < 0 THEN -1 - q ELSE q
    <3>1. x \in UpperRange \ {0} /\ TRUE \in BOOLEAN
      BY <2>0
    <3>. HIDE DEF m
    <3>2. m = Magnitude(x)
      BY DEF m
    <3>. QED BY <3>1, <3>2, DivideIs
  <2>. DEFINE t == TableIndex(m, k)
              f == RootEntry(t, k)
              p == Power[k]
              P == Power[k \div 2]
              q == Mantissa(f) \div P
              g == R + f
  <2>2. /\ m \in 1 .. Range - 1 /\ p \in Nat \ {0} /\ p <= m /\ m < 2 * p
        /\ f \in Slice /\ q \in 0 .. Range - 1 /\ Divide(x, TRUE) = q
    BY <2>0, <2>1
  <2>3. /\ P \in Nat \ {0}
        /\ \E n \in Index .. 2 * Index - 1 :
             /\ f = ReciprocalLUT[n] /\ RootNumber(n) \in Nat
             /\ RootIndexed(m, RootNumber(n), P)
    <3>. HIDE DEF p, P, t, m
    <3>1. p = Power[k] /\ P = Power[k \div 2] /\ t = TableIndex(m, k)
      BY DEF p, P, t
    <3>. QED BY <2>2, <3>1, RootIndexBounds
  <2>4. PICK n \in Index .. 2 * Index - 1 :
          /\ f = ReciprocalLUT[n] /\ RootNumber(n) \in Nat
          /\ RootIndexed(m, RootNumber(n), P)
    BY <2>3
  <2>. DEFINE w == RootNumber(n)
  <2>5. RootInverse(g, w)
    BY <2>4, EntryRoot
  <2>6. q * P <= h * g /\ h * g < (q + 1) * P
    <3>. DEFINE y == h * g
    <3>1. Mantissa(f) = y
      <4>1. f \in Nat
        BY <1>1, <2>2 DEF Slice
      <4>. HIDE DEF f, h
      <4>2. Half * Half = h * (2 * Half)
        BY <1>1
      <4>3. h * (2 * Half + f) = h * (2 * Half) + f * h
        BY <1>1, <4>1
      <4>. QED BY <1>1, <4>2, <4>3 DEF Mantissa, h
    <3>2. y \in Nat
      BY <1>1, <2>2 DEF Slice
    <3>3. q = y \div P
      BY <3>1
    <3>. HIDE DEF y, P, q
    <3>4. q \in Int /\ P * q <= y /\ y < P * q + P
      BY <2>3, <3>2, <3>3, DivBounds
    <3>5. P * q = q * P /\ P * q + P = (q + 1) * P
      BY <2>3, <3>4
    <3>. QED BY <3>4, <3>5 DEF y
  <2>7. q \in Nat /\ g \in Nat /\ R <= g /\ I <= R
    BY <1>1, <2>2 DEF Slice
  <2>8. one = 2 * (h * R)
    <3>. HIDE DEF h
    <3>1. 2 * (h * (2 * Half)) = (2 * (2 * h)) * Half
      BY <1>1
    <3>. QED BY <1>1, <3>1
  <2>9. /\ h \in Nat /\ one \in Nat \ {0} /\ x <= one
    BY <1>1, <1>2
  <2>. HIDE DEF q, p, P, g, f, t, h, I, R, w, one
  <2>10. PICK e \in Nat : /\ I * e <= 2 * w /\ 2 * (w * (P * P)) <= x * I
                          /\ x * I <= 2 * ((w + e) * (P * P))
    BY <2>0, <2>4 DEF RootIndexed, I, w
  <2>11. w * (g * g) <= 2 * (R * R * I) /\ 2 * (R * R * I) <= w * ((g + 1) * (g + 1)) /\ w \in Nat
    BY <2>4, <2>5 DEF RootInverse, I, R, w
  <2>12. /\ (I * q) * (I * q) * x <= ((I + 1) * one) * ((I + 1) * one)
         /\ ((I - 1) * one) * ((I - 1) * one) <= (I * (q + 1)) * (I * (q + 1)) * x
    BY <1>1, <2>0, <2>3, <2>6, <2>7, <2>8, <2>9, <2>10, <2>11, RootQuotientNear
  <2>13. (I * (q - 1)) * (I * (q - 1)) * x <= ((I + 1) * one) * ((I + 1) * one)
    BY <1>1, <2>0, <2>7, <2>9, <2>12, RootForm
  <2>14. /\ Square(I * (q - 1)) * x <= Square((I + 1) * one)
         /\ Square(I * (q + 1)) * x >= Square((I - 1) * one)
    <3>1. \A y : Square(y) = y * y
      BY DEF Square
    <3>2. /\ (I * (q + 1)) * (I * (q + 1)) * x \in Int
          /\ ((I - 1) * one) * ((I - 1) * one) \in Int
      BY <1>1, <2>0, <2>7, <2>9
    <3>. QED BY <2>12, <2>13, <3>1, <3>2
  <2>15. IsRoot(q, x)
    BY <1>5, <2>0, <2>14, Zenon DEF IsRoot, I, Index, one
  <2>. QED BY <2>2, <2>15
<1>. QED
  <2>1. x = 0 \/ x < 0 \/ x > 0
    BY <1>2
  <2>. QED BY <1>3, <1>4, <1>5, <2>1

\* The instructions of Root.
LEMMA RootResult ==
  ASSUME NEW c1 \in SafeUnit, NEW a \in Vector, NEW a2 \in Vector,
         c1.regs[1] = a, c1.regs[2] = a2,
         NEW c2, c2 = RSPCycleCP2(c1, V("VRSQH", 5, 1, 2, 8)),
         NEW c3, c3 = RSPCycleCP2(c2, V("VRSQL", 6, 1, 1, 8)),
         NEW c4, c4 = RSPCycleCP2(c3, V("VRSQH", 7, 1, 0, 8))
  PROVE  LET x == Pair(a2[0], a[0]) IN
         x \in UpperRange /\ HalvesIn(c4, 7, 6, Divide(x, TRUE))
<1>. DEFINE x == Pair(a2[0], a[0])
            p == Divide(x, TRUE)
<1>. USE AllRegisters
<1>1. a[0] \in Slice /\ a2[0] \in Slice
  BY DEF Vector, Lane
<1>. HIDE DEF x, p
<1>2. c2 \in SafeUnit /\ c2.regs[1] = a /\ c2.divIn = Signed(a2[0]) * Base /\ c2.doublePrecision
  <2>1. TakesHigh(c1, c2, 5, a2[0])
    BY CycleDivider
  <2>. QED BY <2>1 DEF TakesHigh
<1>3. LowOperand(c2, a[0]) = x /\ x \in UpperRange
  BY <1>1, <1>2, OperandIs DEF x
<1>4. c3 \in SafeUnit /\ c3.regs[6][1] = Wrap(p) /\ c3.divOut = p
  <2>1. TakesLow(c2, c3, 6, LowOperand(c2, a[0]), TRUE)
    BY <1>2, CycleDivider
  <2>. QED BY <1>3, <2>1 DEF TakesLow, p
<1>5. c4.regs[6][1] = Wrap(p) /\ c4.regs[7][1] = Wrap(p \div Base)
  <2>1. TakesHigh(c3, c4, 7, c3.regs[0][0])
    BY <1>4, CycleDivider
  <2>. QED BY <1>4, <2>1 DEF TakesHigh
<1>. QED BY <1>3, <1>5 DEF HalvesIn, x, p

\* The result of VRSQH and VRSQL is the reciprocal of the operand's root, to
\* the precision of the table.
THEOREM RootsProved == Spec => []Roots
<1>1. ASSUME Progress, After(Root) PROVE IsRoot(Pair(Reg(7, 1), Reg(6, 1)), A(0))
  <2>. DEFINE w1 == V("VRSQH", 5, 1, 2, 8)
              w2 == V("VRSQL", 6, 1, 1, 8)
              w3 == V("VRSQH", 7, 1, 0, 8)
  <2>1. \A iw \in {w1, w2, w3} : RSPDecodeInstruction(iw) = "VECT"
    <3>1. ASSUME NEW op \in {"VRSQL", "VRSQH"}, NEW vd, NEW vt
          PROVE  RSPDecodeInstruction(V(op, vd, 1, vt, 8)) = "VECT"
      <4>1. 8 \in 0 .. 15
        OBVIOUS
      <4>. QED BY <4>1, AssembledToo
    <3>. QED BY <3>1
  <2>2. Root = <<w1, w2, w3>>
    BY DEF Root
  <2>. HIDE DEF w1, w2, w3
  <2>3. /\ start \in [1 .. 4 -> Vector] /\ Loaded \in Unit
        /\ \A v \in 1 .. 4 : Loaded.regs[v] = start[v]
        /\ \E c1, c2 : /\ c1 = RSPCycleCP2(Loaded, w1) /\ c2 = RSPCycleCP2(c1, w2)
                       /\ cp2 = RSPCycleCP2(c2, w3)
    BY <1>1, <2>1, <2>2, ThreeCycles
  <2>4. PICK c1, c2 : /\ c1 = RSPCycleCP2(Loaded, w1) /\ c2 = RSPCycleCP2(c1, w2)
                      /\ cp2 = RSPCycleCP2(c2, w3)
    BY <2>3
  <2>5. /\ Loaded \in SafeUnit /\ start[1] \in Vector /\ start[2] \in Vector
        /\ Loaded.regs[1] = start[1] /\ Loaded.regs[2] = start[2]
    BY <2>3, LoadedSafe
  <2>6. A(0) \in UpperRange /\ HalvesIn(cp2, 7, 6, Divide(A(0), TRUE))
    BY <2>4, <2>5, RootResult DEF w1, w2, w3, A
  <2>. HIDE DEF A
  <2>7. Pair(Reg(7, 1), Reg(6, 1)) = Divide(A(0), TRUE)
    BY <2>6, HalvesMeet DEF HalvesIn, Reg
  <2>. QED BY <2>6, <2>7, DivideRoot
<1>2. Progress => Roots
  BY <1>1 DEF Roots
<1>. QED BY <1>2, ProgressHolds, PTL
=============================================================================
