----------------------------- MODULE BinaryProofs -----------------------------
(***************************************************************************)
(* What Power and And return, for every width: the laws of exponents, the  *)
(* digits of a number, and how And goes with sums.                         *)
(***************************************************************************)
EXTENDS Binary, WellFoundedInduction, TLAPS

(***************************************************************************)
(* Induction, in the forms that speak of sets and functions.               *)
(***************************************************************************)

\* A set of natural numbers has a least element.
LEMMA LeastNatural ==
  ASSUME NEW T \in SUBSET Nat, T # {}
  PROVE  \E n \in T : \A m \in T : n <= m
<1>1. PICK n \in T : \A m \in T : <<m, n>> \notin OpToRel(<, Nat)
  BY WFMin, NatLessThanWellFounded, Zenon
<1>2. \A m \in T : ~(m < n)
  BY <1>1, Zenon DEF OpToRel
<1>. QED BY <1>2

\* A set with zero and the successor of each of its elements has them all.
LEMMA Induction ==
  ASSUME NEW S \in SUBSET Nat, 0 \in S, \A n \in S : n + 1 \in S
  PROVE  \A n \in Nat : n \in S
<1>. SUFFICES ASSUME Nat \ S # {} PROVE FALSE
  OBVIOUS
<1>1. PICK n \in Nat \ S : \A m \in Nat \ S : n <= m
  BY LeastNatural
<1>2. n - 1 \in Nat /\ ~(n <= n - 1) /\ (n - 1) + 1 = n
  BY <1>1
<1>. QED BY <1>1, <1>2

\* Where a recursion starts and how it goes on.
Recursive(f, base, step) ==
  f[0] = base /\ \A n \in Nat : f[n + 1] = step[f[n]]

\* A recursion over the natural numbers defines a function: its first n values
\* exist for every n, and are always the same ones.
LEMMA Recursion ==
  ASSUME NEW S, NEW base \in S, NEW step \in [S -> S]
  PROVE  \E f \in [Nat -> S] : Recursive(f, base, step)
<1>. DEFINE Start(n, f) == /\ f \in [0 .. n -> S] /\ f[0] = base
                           /\ \A k \in 0 .. n - 1 : f[k + 1] = step[f[k]]
<1>1. \A n \in Nat : \E f : Start(n, f)
  <2>. DEFINE T == {n \in Nat : \E f : Start(n, f)}
  <2>1. 0 \in T
    <3>1. Start(0, [k \in 0 .. 0 |-> base])
      OBVIOUS
    <3>. QED BY <3>1
  <2>2. ASSUME NEW n \in T PROVE n + 1 \in T
    <3>1. PICK f : Start(n, f)
      OBVIOUS
    <3>2. n \in Nat /\ n \in 0 .. n
      OBVIOUS
    <3>. DEFINE g == [k \in 0 .. n + 1 |-> IF k = n + 1 THEN step[f[n]] ELSE f[k]]
    <3>3. step[f[n]] \in S
      BY <3>1, <3>2
    <3>4. g \in [0 .. n + 1 -> S]
      BY <3>1, <3>3
    <3>5. g[0] = base
      BY <3>1
    <3>6. ASSUME NEW k \in 0 .. (n + 1) - 1 PROVE g[k + 1] = step[g[k]]
      <4>1. k \in 0 .. n + 1 /\ k + 1 \in 0 .. n + 1 /\ k # n + 1 /\ k \in 0 .. n
        BY <3>2
      <4>2. CASE k = n
        BY <4>1, <4>2
      <4>3. CASE k # n
        BY <4>1, <4>3, <3>1, <3>2
      <4>. QED BY <4>2, <4>3
    <3>7. Start(n + 1, g)
      BY <3>4, <3>5, <3>6
    <3>. HIDE DEF Start
    <3>. QED BY <3>2, <3>7
  <2>. HIDE DEF Start
  <2>3. \A n \in Nat : n \in T
    BY <2>1, <2>2, Induction, Zenon
  <2>. QED BY <2>3
<1>2. ASSUME NEW n \in Nat, NEW m \in Nat, n <= m, NEW f, Start(n, f), NEW g, Start(m, g)
      PROVE  f[n] = g[n]
  <2>. DEFINE T == {k \in Nat : k <= n => f[k] = g[k]}
  <2>1. 0 \in T
    BY <1>2
  <2>2. ASSUME NEW k \in T PROVE k + 1 \in T
    BY <1>2
  <2>3. n \in T
    BY <2>1, <2>2, Induction
  <2>. QED BY <2>3
<1>. DEFINE f == [n \in Nat |-> CHOOSE g : Start(n, g)]
            h == [n \in Nat |-> f[n][n]]
<1>3. \A n \in Nat : Start(n, f[n])
  <2>. HIDE DEF Start
  <2>. QED BY <1>1
<1>. HIDE DEF f
<1>4. h \in [Nat -> S]
  BY <1>3
<1>5. h[0] = base
  BY <1>3
<1>6. ASSUME NEW n \in Nat PROVE h[n + 1] = step[h[n]]
  <2>1. f[n + 1][n + 1] = step[f[n + 1][n]]
    <3>1. Start(n + 1, f[n + 1]) /\ n \in 0 .. (n + 1) - 1
      BY <1>3
    <3>. QED BY <3>1
  <2>2. f[n][n] = f[n + 1][n]
    <3>1. n \in Nat /\ n + 1 \in Nat /\ n <= n + 1
      OBVIOUS
    <3>. HIDE DEF Start
    <3>. QED BY <3>1, <1>2, <1>3
  <2>. QED BY <2>1, <2>2
<1>. QED BY <1>4, <1>5, <1>6 DEF Recursive

(***************************************************************************)
(* Powers of two.                                                          *)
(***************************************************************************)

\* The equations of the definition.
LEMMA PowerIs ==
  /\ Power \in [Nat -> Nat] /\ Power[0] = 1
  /\ \A n \in Nat : Power[n + 1] = 2 * Power[n]
<1>. DEFINE IsPower(f) == f = [n \in Nat |-> IF n = 0 THEN 1 ELSE 2 * f[n - 1]]
            step == [v \in Nat |-> 2 * v]
<1>1. Power = CHOOSE f : IsPower(f)
  BY DEF Power
<1>2. step \in [Nat -> Nat] /\ 1 \in Nat
  OBVIOUS
<1>3. PICK f \in [Nat -> Nat] : Recursive(f, 1, step)
  BY <1>2, Recursion
<1>4. IsPower(f)
  <2>1. \A n \in Nat : f[n] = IF n = 0 THEN 1 ELSE 2 * f[n - 1]
    <3>. TAKE n \in Nat
    <3>1. n # 0 => n - 1 \in Nat /\ (n - 1) + 1 = n
      OBVIOUS
    <3>. QED BY <3>1, <1>3 DEF Recursive
  <2>. QED BY <2>1
<1>5. IsPower(Power)
  <2>. HIDE DEF IsPower
  <2>. QED BY <1>1, <1>4
<1>6. Power[0] = 1
  BY <1>5
<1>7. ASSUME NEW n \in Nat PROVE Power[n + 1] = 2 * Power[n]
  <2>1. n + 1 \in Nat /\ n + 1 # 0 /\ (n + 1) - 1 = n
    OBVIOUS
  <2>2. Power[n + 1] = IF n + 1 = 0 THEN 1 ELSE 2 * Power[(n + 1) - 1]
    BY <2>1, <1>5
  <2>. QED BY <2>1, <2>2
<1>8. \A n \in Nat : n \in {k \in Nat : Power[k] \in Nat}
  <2>. DEFINE T == {k \in Nat : Power[k] \in Nat}
  <2>1. 0 \in T
    BY <1>6
  <2>2. \A n \in T : n + 1 \in T
    BY <1>7
  <2>. HIDE DEF T
  <2>3. \A n \in Nat : n \in T
    BY <2>1, <2>2, Induction DEF T
  <2>. QED BY <2>3 DEF T
<1>9. DOMAIN Power = Nat /\ Power = [n \in Nat |-> Power[n]]
  BY <1>5
<1>. QED BY <1>6, <1>7, <1>8, <1>9

\* What an induction over the exponent begins and goes on with.
LEMMA PowerSteps ==
  /\ Power[0] = 1
  /\ \A n \in Nat : /\ n + 1 \in Nat /\ Power[n] \in Nat \ {0}
                    /\ Power[n + 1] \in Nat /\ Power[n + 1] = 2 * Power[n]
<1>. DEFINE T == {n \in Nat : Power[n] # 0}
<1>1. 0 \in T /\ \A n \in T : n + 1 \in T
  BY PowerIs
<1>2. \A n \in Nat : n \in T
  <2>. HIDE DEF T
  <2>. QED BY <1>1, Induction DEF T
<1>. QED BY <1>2, PowerIs

\* A power of two is above its exponent.
LEMMA PowerAbove ==
  ASSUME NEW n \in Nat
  PROVE  Power[n] \in Nat \ {0} /\ n < Power[n]
<1>. DEFINE T == {k \in Nat : k < Power[k]}
<1>1. 0 \in T /\ \A k \in T : k + 1 \in T
  BY PowerSteps
<1>2. n \in T
  <2>. HIDE DEF T
  <2>1. \A k \in Nat : k \in T
    BY <1>1, Induction DEF T
  <2>. QED BY <2>1
<1>. QED BY <1>2, PowerSteps

\* Exponents add up.
LEMMA PowerAdd ==
  ASSUME NEW m \in Nat, NEW n \in Nat
  PROVE  Power[m + n] = Power[m] * Power[n]
<1>. DEFINE T == {k \in Nat : Power[m + k] = Power[m] * Power[k]}
<1>1. 0 \in T
  BY PowerSteps
<1>2. ASSUME NEW k \in T PROVE k + 1 \in T
  <2>. DEFINE p == Power[m]
              q == Power[k]
  <2>1. /\ m + k \in Nat /\ m + (k + 1) = (m + k) + 1
        /\ p \in Nat /\ q \in Nat /\ Power[m + k] = p * q
        /\ Power[(m + k) + 1] = 2 * Power[m + k] /\ Power[k + 1] = 2 * q
    BY PowerSteps
  <2>. HIDE DEF p, q
  <2>2. 2 * (p * q) = p * (2 * q)
    BY <2>1
  <2>3. Power[m + (k + 1)] = p * Power[k + 1]
    BY <2>1, <2>2
  <2>. QED BY <2>3 DEF p
<1>3. n \in T
  <2>. HIDE DEF T
  <2>1. \A k \in Nat : k \in T
    BY <1>1, <1>2, Induction DEF T
  <2>. QED BY <2>1
<1>. QED BY <1>3

\* A power divides the powers above it.
LEMMA PowerSplit ==
  ASSUME NEW m \in Nat, NEW n \in Nat, m <= n
  PROVE  /\ n - m \in Nat /\ Power[m] \in Nat \ {0} /\ Power[n - m] \in Nat \ {0}
         /\ Power[n] = Power[n - m] * Power[m] /\ Power[m] <= Power[n]
<1>1. n - m \in Nat /\ (n - m) + m = n
  OBVIOUS
<1>2. Power[n] = Power[n - m] * Power[m]
  BY <1>1, PowerAdd
<1>3. /\ Power[m] \in Nat \ {0} /\ Power[n - m] \in Nat \ {0}
      /\ \A p, q \in Nat \ {0} : p <= q * p
  BY <1>1, PowerSteps
<1>. QED BY <1>1, <1>2, <1>3

\* Every number has a leading bit.
LEMMA LeadingPower ==
  ASSUME NEW n \in Nat, NEW x \in 1 .. Power[n] - 1
  PROVE  \E k \in 0 .. n - 1 : Power[k] <= x /\ x < Power[k + 1]
<1>. DEFINE T == {k \in Nat : x < Power[k]}
<1>1. n \in T
  BY PowerSteps
<1>2. PICK k \in T : \A m \in T : k <= m
  BY <1>1, LeastNatural
<1>3. k # 0
  BY PowerSteps
<1>4. k - 1 \in Nat /\ ~(k <= k - 1) /\ (k - 1) + 1 = k /\ k - 1 \in 0 .. n - 1
  BY <1>1, <1>2, <1>3
<1>5. ~(x < Power[k - 1]) /\ x < Power[k]
  BY <1>2, <1>4
<1>. QED BY <1>4, <1>5, PowerSteps

(***************************************************************************)
(* And.                                                                    *)
(***************************************************************************)

\* A number is its lowest bit and the number the others make.
LEMMA Halves ==
  ASSUME NEW x \in Nat, NEW y \in Nat
  PROVE  /\ x \div 2 \in Nat /\ x % 2 \in 0 .. 1 /\ x = 2 * (x \div 2) + (x % 2)
         /\ (x % 2) * (y % 2) \in 0 .. 1
         /\ (x % 2) * (y % 2) = IF x % 2 = 1 /\ y % 2 = 1 THEN 1 ELSE 0
<1>1. x % 2 \in {0, 1} /\ y % 2 \in {0, 1}
  OBVIOUS
<1>2. \A a, b \in {0, 1} : a * b = IF a = 1 /\ b = 1 THEN 1 ELSE 0
  OBVIOUS
<1>. QED BY <1>1, <1>2

AndTable == [Nat -> [Nat -> Nat]]

\* The equations of the definition.
LEMMA AndIs ==
  ASSUME NEW x \in Nat, NEW y \in Nat, NEW n \in Nat
  PROVE  /\ And[n][x][y] \in Nat /\ And[0][x][y] = 0
         /\ And[n + 1][x][y] = 2 * And[n][x \div 2][y \div 2] + (x % 2) * (y % 2)
<1>. DEFINE IsAnd(f) ==
       f = [k \in Nat |-> [v \in Nat |-> [w \in Nat |->
              IF k = 0 THEN 0 ELSE 2 * f[k - 1][v \div 2][w \div 2] + (v % 2) * (w % 2)]]]
            base == [v \in Nat |-> [w \in Nat |-> 0]]
            step == [g \in AndTable |-> [v \in Nat |-> [w \in Nat |->
                       2 * g[v \div 2][w \div 2] + (v % 2) * (w % 2)]]]
<1>1. And = CHOOSE f : IsAnd(f)
  BY DEF And
<1>2. base \in AndTable
  BY DEF AndTable
<1>3. step \in [AndTable -> AndTable]
  <2>1. ASSUME NEW g \in AndTable, NEW v \in Nat, NEW w \in Nat
        PROVE  2 * g[v \div 2][w \div 2] + (v % 2) * (w % 2) \in Nat
    <3>. DEFINE p == (v % 2) * (w % 2)
                q == g[v \div 2][w \div 2]
    <3>1. v \div 2 \in Nat /\ w \div 2 \in Nat /\ p \in 0 .. 1
      BY Halves
    <3>2. q \in Nat
      BY <3>1 DEF AndTable
    <3>. HIDE DEF p, q
    <3>3. 2 * q + p \in Nat
      BY <3>1, <3>2
    <3>. QED BY <3>3 DEF p, q
  <2>. QED BY <2>1 DEF AndTable
<1>4. PICK f \in [Nat -> AndTable] : Recursive(f, base, step)
  <2>. HIDE DEF base, step
  <2>. QED BY <1>2, <1>3, Recursion
<1>5. IsAnd(f)
  <2>. DEFINE F(k) == [v \in Nat |-> [w \in Nat |->
                IF k = 0 THEN 0
                ELSE 2 * f[k - 1][v \div 2][w \div 2] + (v % 2) * (w % 2)]]
  <2>1. \A k \in Nat : f[k] = F(k)
    <3>. TAKE k \in Nat
    <3>1. CASE k = 0
      BY <3>1, <1>4 DEF Recursive
    <3>2. CASE k # 0
      <4>1. k - 1 \in Nat /\ (k - 1) + 1 = k
        BY <3>2
      <4>2. f[k] = step[f[k - 1]] /\ f[k - 1] \in AndTable
        BY <4>1, <1>4 DEF Recursive
      <4>. QED BY <3>2, <4>2
    <3>. QED BY <3>1, <3>2
  <2>2. f = [k \in Nat |-> f[k]]
    OBVIOUS
  <2>. HIDE DEF F
  <2>3. f = [k \in Nat |-> F(k)]
    BY <2>1, <2>2
  <2>. QED BY <2>3 DEF F
<1>6. IsAnd(And)
  <2>. HIDE DEF IsAnd
  <2>. QED BY <1>1, <1>5
<1>. HIDE DEF base, step
<1>7. \A v, w \in Nat : And[0][v][w] = 0
  BY <1>6
<1>8. \A k, v, w \in Nat :
        And[k + 1][v][w] = 2 * And[k][v \div 2][w \div 2] + (v % 2) * (w % 2)
  <2>. TAKE k, v, w \in Nat
  <2>1. k + 1 \in Nat /\ k + 1 # 0 /\ (k + 1) - 1 = k
    OBVIOUS
  <2>2. And[k + 1] = [r \in Nat |-> [t \in Nat |->
           IF k + 1 = 0 THEN 0
           ELSE 2 * And[(k + 1) - 1][r \div 2][t \div 2] + (r % 2) * (t % 2)]]
    BY <1>6, <2>1
  <2>3. And[k + 1] = [r \in Nat |-> [t \in Nat |->
           2 * And[k][r \div 2][t \div 2] + (r % 2) * (t % 2)]]
    BY <2>1, <2>2
  <2>. QED BY <2>3
<1>. HIDE DEF IsAnd
<1>9. And[n][x][y] \in Nat
  <2>. DEFINE T == {k \in Nat : \A v, w \in Nat : And[k][v][w] \in Nat}
  <2>1. 0 \in T
    BY <1>7
  <2>2. ASSUME NEW k \in T PROVE k + 1 \in T
    <3>1. ASSUME NEW v \in Nat, NEW w \in Nat PROVE And[k + 1][v][w] \in Nat
      <4>. DEFINE p == (v % 2) * (w % 2)
                  q == And[k][v \div 2][w \div 2]
      <4>1. v \div 2 \in Nat /\ w \div 2 \in Nat /\ p \in 0 .. 1
        BY Halves
      <4>2. q \in Nat
        BY <4>1
      <4>3. And[k + 1][v][w] = 2 * q + p
        BY <1>8
      <4>. HIDE DEF p, q
      <4>. QED BY <4>1, <4>2, <4>3
    <3>. QED BY <3>1
  <2>3. \A k \in Nat : k \in T
    <3>. HIDE DEF T
    <3>. QED BY <2>1, <2>2, Induction DEF T
  <2>. QED BY <2>3
<1>. QED BY <1>7, <1>8, <1>9

\* The conjunction of two numbers written as half and lowest bit.
LEMMA AndDoubled ==
  ASSUME NEW n \in Nat, NEW X \in Nat, NEW Y \in Nat, NEW b \in 0 .. 1, NEW c \in 0 .. 1
  PROVE  And[n + 1][2 * X + b][2 * Y + c]
           = 2 * And[n][X][Y] + (IF b = 1 /\ c = 1 THEN 1 ELSE 0)
<1>1. /\ 2 * X + b \in Nat /\ (2 * X + b) \div 2 = X /\ (2 * X + b) % 2 = b
      /\ 2 * Y + c \in Nat /\ (2 * Y + c) \div 2 = Y /\ (2 * Y + c) % 2 = c
  OBVIOUS
<1>. DEFINE x == 2 * X + b
            y == 2 * Y + c
<1>2. (x % 2) * (y % 2) = IF b = 1 /\ c = 1 THEN 1 ELSE 0
  BY <1>1, Halves
<1>3. x \in Nat /\ y \in Nat /\ x \div 2 = X /\ y \div 2 = Y
  BY <1>1
<1>. HIDE DEF x, y
<1>4. And[n + 1][x][y] = 2 * And[n][x \div 2][y \div 2] + (x % 2) * (y % 2)
  BY <1>3, AndIs
<1>5. And[n + 1][x][y] = 2 * And[n][X][Y] + (IF b = 1 /\ c = 1 THEN 1 ELSE 0)
  BY <1>2, <1>3, <1>4
<1>. QED BY <1>5 DEF x, y

\* The numbers of n bits.
Word(n) == 0 .. Power[n] - 1

\* How And goes with order, with itself and zero, with complement, with the
\* exclusive and the inclusive disjunction.
AndLaws(n, x, y) ==
  LET a == And[n][x][y]
      ones == Power[n] - 1 IN
  /\ a \in Nat /\ a <= x /\ a <= y /\ x + y - a <= ones
  /\ And[n][y][x] = a
  /\ And[n][x][0] = 0 /\ And[n][x][x] = x
  /\ And[n][ones - x][y] = y - a
  /\ And[n][x + y - 2 * a][y] = y - a
  /\ And[n][x + y - a][a] = a

\* They hold of numbers if they hold of their halves.
LEMMA AndLawsStep ==
  ASSUME NEW n \in Nat, NEW X \in Word(n), NEW Y \in Word(n), AndLaws(n, X, Y),
         NEW b \in 0 .. 1, NEW c \in 0 .. 1
  PROVE  AndLaws(n + 1, 2 * X + b, 2 * Y + c)
<1>. DEFINE A == And[n][X][Y]
            P == Power[n]
            p == IF b = 1 /\ c = 1 THEN 1 ELSE 0
            x == 2 * X + b
            y == 2 * Y + c
            a == 2 * A + p
            F(v, w) == And[n + 1][v][w]
<1>1. P \in Nat \ {0} /\ Power[n + 1] = 2 * P /\ X \in 0 .. P - 1 /\ Y \in 0 .. P - 1
  BY PowerSteps DEF Word
<1>2. /\ A \in Nat /\ A <= X /\ A <= Y /\ X + Y - A <= P - 1
      /\ And[n][Y][X] = A /\ And[n][X][0] = 0 /\ And[n][X][X] = X
      /\ And[n][(P - 1) - X][Y] = Y - A
      /\ And[n][X + Y - 2 * A][Y] = Y - A /\ And[n][X + Y - A][A] = A
  BY DEF AndLaws
<1>3. \A V, W \in Nat : \A d, e \in 0 .. 1 :
        F(2 * V + d, 2 * W + e) = 2 * And[n][V][W] + (IF d = 1 /\ e = 1 THEN 1 ELSE 0)
  BY AndDoubled
<1>. HIDE DEF A, P, F
<1>4. F(x, y) = a
  BY <1>1, <1>3 DEF A
<1>5. a \in Nat /\ a <= x /\ a <= y /\ x + y - a <= 2 * P - 1
  BY <1>1, <1>2
<1>6. F(y, x) = a
  <2>1. F(2 * Y + c, 2 * X + b) = 2 * And[n][Y][X] + (IF c = 1 /\ b = 1 THEN 1 ELSE 0)
    BY <1>1, <1>3
  <2>. QED BY <2>1, <1>2
<1>7. F(x, 0) = 0
  <2>1. F(x, 2 * 0 + 0) = 2 * And[n][X][0] + 0
    BY <1>1, <1>3
  <2>. QED BY <2>1, <1>2
<1>8. F(x, x) = x
  <2>1. F(2 * X + b, 2 * X + b) = 2 * And[n][X][X] + (IF b = 1 /\ b = 1 THEN 1 ELSE 0)
    BY <1>1, <1>3
  <2>. QED BY <2>1, <1>2
<1>9. F((2 * P - 1) - x, y) = y - a
  <2>. DEFINE Z == (P - 1) - X
              z == 1 - b
  <2>1. (2 * P - 1) - x = 2 * Z + z /\ Z \in Nat /\ z \in 0 .. 1
    BY <1>1
  <2>2. And[n][Z][Y] = Y - A
    BY <1>2
  <2>3. z = 1 /\ c = 1 <=> b = 0 /\ c = 1
    OBVIOUS
  <2>. HIDE DEF Z, z
  <2>4. F(2 * Z + z, 2 * Y + c) = 2 * (Y - A) + (IF z = 1 /\ c = 1 THEN 1 ELSE 0)
    BY <2>1, <2>2, <1>1, <1>3
  <2>. QED BY <2>1, <2>3, <2>4, <1>1, <1>2
<1>10. F(x + y - 2 * a, y) = y - a
  <2>. DEFINE Z == X + Y - 2 * A
              z == b + c - 2 * p
  <2>1. x + y - 2 * a = 2 * Z + z /\ Z \in Nat /\ z \in 0 .. 1
    BY <1>1, <1>2
  <2>2. And[n][Z][Y] = Y - A
    BY <1>2
  <2>3. z = 1 /\ c = 1 <=> b = 0 /\ c = 1
    OBVIOUS
  <2>. HIDE DEF Z, z
  <2>4. F(2 * Z + z, 2 * Y + c) = 2 * (Y - A) + (IF z = 1 /\ c = 1 THEN 1 ELSE 0)
    <3>1. Y \in Nat /\ c \in 0 .. 1
      BY <1>1
    <3>2. F(2 * Z + z, 2 * Y + c) = 2 * And[n][Z][Y] + (IF z = 1 /\ c = 1 THEN 1 ELSE 0)
      BY <2>1, <3>1, <1>3
    <3>. QED BY <2>2, <3>2
  <2>. QED BY <2>1, <2>3, <2>4, <1>1, <1>2
<1>11. F(x + y - a, a) = a
  <2>. DEFINE Z == X + Y - A
              z == b + c - p
  <2>1. x + y - a = 2 * Z + z /\ Z \in Nat /\ z \in 0 .. 1
    BY <1>1, <1>2
  <2>2. And[n][Z][A] = A
    BY <1>2
  <2>3. p \in 0 .. 1 /\ (z = 1 /\ p = 1 <=> p = 1)
    OBVIOUS
  <2>. HIDE DEF Z, z, p
  <2>4. F(2 * Z + z, 2 * A + p) = 2 * A + (IF z = 1 /\ p = 1 THEN 1 ELSE 0)
    BY <2>1, <2>2, <2>3, <1>2, <1>3
  <2>. QED BY <2>1, <2>3, <2>4, <1>1, <1>2
<1>. HIDE DEF a, x, y
<1>12. AndLaws(n + 1, x, y)
  BY <1>1, <1>4, <1>5, <1>6, <1>7, <1>8, <1>9, <1>10, <1>11 DEF AndLaws, F
<1>. QED BY <1>12 DEF x, y

\* They hold of all numbers.
LEMMA AndObeys ==
  ASSUME NEW n \in Nat, NEW x \in Word(n), NEW y \in Word(n)
  PROVE  AndLaws(n, x, y)
<1>. DEFINE T == {k \in Nat : \A v, w \in Word(k) : AndLaws(k, v, w)}
<1>1. 0 \in T
  <2>1. \A v, w \in Nat : And[0][v][w] = 0
    BY AndIs
  <2>2. Power[0] = 1
    BY PowerSteps
  <2>3. ASSUME NEW v \in Word(0), NEW w \in Word(0) PROVE AndLaws(0, v, w)
    <3>1. v = 0 /\ w = 0
      BY <2>2, <2>3 DEF Word
    <3>2. And[0][0][0] = 0 /\ Power[0] - 1 = 0
      BY <2>1, <2>2
    <3>3. AndLaws(0, 0, 0)
      BY <3>2 DEF AndLaws
    <3>. QED BY <3>1, <3>3
  <2>4. 0 \in Nat
    OBVIOUS
  <2>. QED BY <2>3, <2>4, Zenon
<1>2. ASSUME NEW k \in T PROVE k + 1 \in T
  <2>1. ASSUME NEW v \in Word(k + 1), NEW w \in Word(k + 1)
        PROVE  AndLaws(k + 1, v, w)
    <3>. DEFINE V == v \div 2
                W == w \div 2
                d == v % 2
                e == w % 2
    <3>1. /\ Power[k] \in Nat \ {0} /\ v \in 0 .. 2 * Power[k] - 1
          /\ w \in 0 .. 2 * Power[k] - 1
      BY PowerSteps DEF Word
    <3>2. /\ v = 2 * V + d /\ w = 2 * W + e /\ d \in 0 .. 1 /\ e \in 0 .. 1
          /\ V \in Nat /\ W \in Nat
      BY <3>1, Halves
    <3>. HIDE DEF V, W, d, e
    <3>3. V \in Word(k) /\ W \in Word(k)
      BY <3>1, <3>2 DEF Word
    <3>4. AndLaws(k + 1, 2 * V + d, 2 * W + e)
      BY <3>2, <3>3, AndLawsStep
    <3>. QED BY <3>2, <3>4
  <2>. QED BY <2>1
<1>3. \A k \in Nat : k \in T
  <2>. HIDE DEF T
  <2>. QED BY <1>1, <1>2, Induction DEF T
<1>. QED BY <1>3

Even(n, X, Y, c) == And[n + 1][2 * X][2 * Y + c] = 2 * And[n][X][Y]

\* Where the lowest digit of a number is zero, that of the conjunction is.
LEMMA AndEven ==
  ASSUME NEW n \in Nat, NEW X \in Nat, NEW Y \in Nat, NEW c \in 0 .. 1
  PROVE  Even(n, X, Y, c)
<1>. DEFINE x == 2 * X
            y == 2 * Y + c
<1>1. x \in Nat /\ y \in Nat /\ x \div 2 = X /\ y \div 2 = Y /\ x % 2 = 0 /\ y % 2 = c
  OBVIOUS
<1>. HIDE DEF x, y
<1>2. And[n + 1][x][y] = 2 * And[n][x \div 2][y \div 2] + (x % 2) * (y % 2)
  BY <1>1, AndIs
<1>3. And[n + 1][x][y] = 2 * And[n][X][Y] + 0 * c
  BY <1>1, <1>2
<1>4. And[n][X][Y] \in Nat
  BY AndIs
<1>5. And[n + 1][x][y] = 2 * And[n][X][Y]
  BY <1>3, <1>4
<1>. QED BY <1>5 DEF x, y, Even

\* A number and one shifted past it have no bit in common.
LEMMA AndShifted ==
  ASSUME NEW k \in Nat, NEW n \in Nat, k <= n, NEW q \in Nat, NEW r \in Word(k),
         q * Power[k] \in Word(n)
  PROVE  And[n][q * Power[k]][r] = 0
<1>. DEFINE T == {j \in Nat : \A m \in Nat : \A v \in Word(j) :
                    j <= m /\ q * Power[j] \in Word(m) => And[m][q * Power[j]][v] = 0}
<1>1. 0 \in T
  <2>1. ASSUME NEW m \in Nat, NEW v \in Word(0), q * Power[0] \in Word(m)
        PROVE  And[m][q * Power[0]][v] = 0
    <3>1. v = 0 /\ v \in Word(m) /\ q * Power[0] = q
      BY PowerSteps DEF Word
    <3>2. AndLaws(m, q, v)
      BY <2>1, <3>1, AndObeys
    <3>. QED BY <3>1, <3>2 DEF AndLaws
  <2>. QED BY <2>1
<1>2. ASSUME NEW j \in T PROVE j + 1 \in T
  <2>1. ASSUME NEW m \in Nat, NEW v \in Word(j + 1), j + 1 <= m,
               q * Power[j + 1] \in Word(m)
        PROVE  And[m][q * Power[j + 1]][v] = 0
    <3>. DEFINE i == m - 1
                V == v \div 2
                e == v % 2
                P == Power[j]
                x == q * P
    <3>1. i \in Nat /\ m = i + 1 /\ j \in Nat /\ j <= i
      BY <2>1
    <3>2. /\ P \in Nat \ {0} /\ Power[i] \in Nat \ {0}
          /\ Power[j + 1] = 2 * P /\ Power[m] = 2 * Power[i]
      BY <3>1, PowerSteps
    <3>3. x \in Nat /\ q * (2 * P) = 2 * x
      BY <3>2
    <3>4. v \in Nat /\ v = 2 * V + e /\ V \in Word(j) /\ e \in 0 .. 1
      BY <3>2, Halves DEF Word
    <3>. HIDE DEF i, V, e, P, x
    <3>5. x \in Word(i)
      BY <2>1, <3>2, <3>3 DEF Word
    <3>6. And[i][x][V] = 0
      BY <3>1, <3>4, <3>5 DEF x, P
    <3>7. And[i + 1][2 * x][2 * V + e] = 2 * And[i][x][V]
      <4>1. i \in Nat /\ x \in Nat /\ V \in Nat /\ e \in 0 .. 1
        BY <3>1, <3>3, <3>4 DEF Word
      <4>2. Even(i, x, V, e)
        BY <4>1, AndEven
      <4>. QED BY <4>2 DEF Even
    <3>. QED BY <3>1, <3>2, <3>3, <3>4, <3>6, <3>7
  <2>. QED BY <2>1
<1>3. \A j \in Nat : j \in T
  <2>. HIDE DEF T
  <2>. QED BY <1>1, <1>2, Induction DEF T
<1>. QED BY <1>3
\* 2^m is twice 2^n.
Doubles(n, m) == Power[m] = 2 * Power[n]
\* The third and the eighth power of two.
LEMMA PowerEight == Power[3] = 8 /\ Power[8] = 256
<1>1. \A n, m \in Nat : m = n + 1 => Doubles(n, m)
  BY PowerSteps DEF Doubles
<1>2. /\ Doubles(0, 1) /\ Doubles(1, 2) /\ Doubles(2, 3) /\ Doubles(3, 4) /\ Doubles(4, 5)
      /\ Doubles(5, 6) /\ Doubles(6, 7) /\ Doubles(7, 8)
  <2>1. /\ 0 \in Nat /\ 1 \in Nat /\ 2 \in Nat /\ 3 \in Nat /\ 4 \in Nat /\ 5 \in Nat
        /\ 6 \in Nat /\ 7 \in Nat /\ 8 \in Nat
        /\ 1 = 0 + 1 /\ 2 = 1 + 1 /\ 3 = 2 + 1 /\ 4 = 3 + 1 /\ 5 = 4 + 1 /\ 6 = 5 + 1
        /\ 7 = 6 + 1 /\ 8 = 7 + 1
    OBVIOUS
  <2>. QED BY <1>1, <2>1, Zenon
<1>. QED BY <1>2, PowerSteps DEF Doubles
=============================================================================
