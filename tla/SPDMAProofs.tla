----------------------------- MODULE SPDMAProofs -----------------------------
(***************************************************************************)
(* What the copying loop of HandleDMARead and HandleDMAWrite does, for any *)
(* number of words: of the words copied to one place the last one stays,   *)
(* and every other place keeps what it had.  And where the words of a      *)
(* transfer lie.                                                           *)
(***************************************************************************)
EXTENDS SPDMA, WellFoundedInduction, TLAPS

(***************************************************************************)
(* Natural numbers.                                                        *)
(***************************************************************************)

\* A set of natural numbers has a least element.
LEMMA NatMin ==
  ASSUME NEW T \in SUBSET Nat, T # {}
  PROVE  \E n \in T : \A m \in T : n <= m
<1>1. PICK n \in T : \A m \in T : <<m, n>> \notin OpToRel(<, Nat)
  BY WFMin, NatLessThanWellFounded, Zenon
<1>2. \A m \in T : ~(m < n)
  BY <1>1, Zenon DEF OpToRel
<1>. QED BY <1>2

IsLast(i, S) == i \in S /\ \A k \in S : k <= i

\* A bounded set of them has a greatest one: as far below the bound as can be.
LEMMA BoundedMax ==
  ASSUME NEW N \in Nat, NEW S \in SUBSET (0 .. N - 1), S # {}
  PROVE  \E i \in S : IsLast(i, S)
<1>. DEFINE T == {d \in Nat : N - d \in S}
<1>1. T # {}
  <2>1. PICK i \in S : TRUE
    OBVIOUS
  <2>2. i \in Nat /\ N - i \in Nat /\ N - (N - i) = i
    BY <2>1
  <2>3. N - i \in T
    BY <2>1, <2>2
  <2>. QED BY <2>3
<1>2. PICK d \in T : \A e \in T : d <= e
  BY <1>1, NatMin
<1>3. ASSUME NEW k \in S PROVE k <= N - d
  <2>1. k \in Nat /\ N - k \in Nat /\ N - (N - k) = k
    OBVIOUS
  <2>2. N - k \in T
    BY <2>1, <1>3
  <2>. QED BY <1>2, <2>1, <2>2
<1>. QED BY <1>2, <1>3 DEF IsLast

\* What \div and % return, and how little it takes to tell.
LEMMA DivMod ==
  ASSUME NEW m \in Int, NEW n \in Nat \ {0}
  PROVE  /\ m \div n \in Int /\ m % n \in 0 .. n - 1
         /\ m = n * (m \div n) + (m % n)
         /\ m \in Nat => m \div n \in Nat
OBVIOUS

\* Division of numbers that go into the divisor once.
LEMMA SecondHalf ==
  ASSUME NEW n \in Nat \ {0}, NEW x \in n .. 2 * n - 1
  PROVE  x \div n = 1 /\ x % n = x - n
<1>1. /\ x \div n \in Int /\ x % n \in 0 .. n - 1
      /\ x = n * (x \div n) + (x % n)
  OBVIOUS
<1>. DEFINE q == x \div n  r == x % n
<1>. HIDE DEF q, r
<1>2. q \in Int /\ r \in 0 .. n - 1 /\ x = n * q + r
  BY <1>1 DEF q, r
<1>3. q > 0
  <2>1. SUFFICES ASSUME q <= 0 PROVE FALSE
    BY <1>2
  <2>2. n * q <= 0
    BY <1>2, <2>1
  <2>. QED BY <1>2, <2>2
<1>4. q < 2
  <2>1. SUFFICES ASSUME q >= 2 PROVE FALSE
    BY <1>2
  <2>2. n * q >= n * 2
    BY <1>2, <2>1
  <2>. QED BY <1>2, <2>2
<1>5. q = 1
  BY <1>2, <1>3, <1>4
<1>. QED BY <1>2, <1>5 DEF q, r

\* Quotient and remainder are the only ones there are.
LEMMA DivModIs ==
  ASSUME NEW n \in Nat \ {0}, NEW x, NEW q \in Int, NEW r \in 0 .. n - 1,
         x = n * q + r
  PROVE  x \div n = q /\ x % n = r
OBVIOUS

\* Multiplication keeps the order.
LEMMA TimesOrder ==
  ASSUME NEW n \in Nat, NEW a \in Nat, NEW b \in Nat, a <= b
  PROVE  a * n <= b * n /\ a * n \in Nat /\ b * n \in Nat
<1>1. PICK c \in Nat : b = a + c
  <2>1. b - a \in Nat /\ b = a + (b - a)
    OBVIOUS
  <2>. QED BY <2>1
<1>2. b * n = a * n + c * n /\ c * n >= 0 /\ a * n \in Nat
  BY <1>1
<1>. QED BY <1>2

\* Two blocks of w numbers that start n apart, or more, have none in common.
LEMMA BlocksApart ==
  ASSUME NEW n \in Nat, NEW w \in Nat, w <= n,
         NEW q \in Nat, NEW i \in 0 .. w - 1, NEW p \in Nat, NEW j \in 0 .. w - 1,
         q * n + i = p * n + j
  PROVE  q = p /\ i = j
<1>1. ASSUME NEW a \in Nat, NEW b \in Nat, a < b PROVE a * n + n <= b * n
  <2>1. a + 1 \in Nat /\ a + 1 <= b
    BY <1>1
  <2>2. (a + 1) * n <= b * n
    BY <2>1, TimesOrder
  <2>. QED BY <2>2
<1>2. ~(q < p)
  <2>1. SUFFICES ASSUME q < p PROVE FALSE
    OBVIOUS
  <2>2. q * n + n <= p * n
    BY <1>1, <2>1
  <2>3. q * n \in Nat /\ p * n \in Nat
    OBVIOUS
  <2>. QED BY <2>2, <2>3
<1>3. ~(p < q)
  <2>1. SUFFICES ASSUME p < q PROVE FALSE
    OBVIOUS
  <2>2. p * n + n <= q * n
    BY <1>1, <2>1
  <2>3. q * n \in Nat /\ p * n \in Nat
    OBVIOUS
  <2>. QED BY <2>2, <2>3
<1>4. q = p
  BY <1>2, <1>3
<1>. QED BY <1>4

\* Fewer than n numbers in a row differ modulo n.
LEMMA ModDiffers ==
  ASSUME NEW n \in Nat \ {0}, NEW a \in Nat, NEW i \in 0 .. n - 1,
         NEW j \in 0 .. n - 1, (a + i) % n = (a + j) % n
  PROVE  i = j
<1>. DEFINE q == (a + i) \div n  p == (a + j) \div n
<1>1. /\ q \in Int /\ p \in Int
      /\ a + i = n * q + ((a + i) % n) /\ a + j = n * p + ((a + i) % n)
      /\ (a + i) % n \in 0 .. n - 1
  <2>1. a + i \in Int /\ a + j \in Int
    OBVIOUS
  <2>2. q \in Int /\ a + i = n * q + ((a + i) % n) /\ (a + i) % n \in 0 .. n - 1
    BY <2>1, DivMod
  <2>3. p \in Int /\ a + j = n * p + ((a + j) % n)
    BY <2>1, DivMod
  <2>. QED BY <2>2, <2>3
<1>. HIDE DEF q, p
<1>2. i - j = n * q - n * p
  BY <1>1
<1>3. n * q - n * p = n * (q - p)
  BY <1>1
<1>4. n * (q - p) < n /\ n * (q - p) > -n
  BY <1>2, <1>3
<1>5. q - p < 1
  <2>1. SUFFICES ASSUME q - p >= 1 PROVE FALSE
    BY <1>1
  <2>2. n * (q - p) >= n
    BY <1>1, <2>1
  <2>. QED BY <2>2, <1>4, <1>1
<1>6. q - p > -1
  <2>1. SUFFICES ASSUME p - q >= 1 PROVE FALSE
    BY <1>1
  <2>2. n * (p - q) >= n
    BY <1>1, <2>1
  <2>3. n * (q - p) = -(n * (p - q))
    BY <1>1
  <2>. QED BY <2>2, <2>3, <1>4, <1>1
<1>7. q = p
  BY <1>5, <1>6, <1>1
<1>. QED BY <1>7, <1>1
(***************************************************************************)
(* The copying loop.                                                       *)
(***************************************************************************)
Writers(to, n, a) == {k \in 0 .. n - 1 : to[k] = a}

LastOf(S) == CHOOSE i : IsLast(i, S)

\* The first n copies at once: the last one to a place stays there.
LastCopies(dest, source, to, from, n) ==
  [a \in DOMAIN dest |->
     IF Writers(to, n, a) = {} THEN dest[a]
     ELSE source[from[LastOf(Writers(to, n, a))]]]

\* One more copy.
LEMMA LastCopiesStep ==
  ASSUME NEW D, NEW dest, dest = [a \in D |-> dest[a]],
         NEW source, NEW to, NEW from, NEW n \in Nat \ {0}
  PROVE  LastCopies(dest, source, to, from, n)
           = [LastCopies(dest, source, to, from, n - 1)
                EXCEPT ![to[n - 1]] = source[from[n - 1]]]
<1>. DEFINE old == LastCopies(dest, source, to, from, n - 1)
            new == LastCopies(dest, source, to, from, n)
<1>1. ASSUME NEW a \in D, to[n - 1] = a
      PROVE  new[a] = source[from[n - 1]]
  <2>1. IsLast(n - 1, Writers(to, n, a))
    BY <1>1 DEF IsLast, Writers
  <2>2. \A i : IsLast(i, Writers(to, n, a)) => i = n - 1
    BY <2>1 DEF IsLast, Writers
  <2>3. LastOf(Writers(to, n, a)) = n - 1
    BY <2>1, <2>2, Zenon DEF LastOf
  <2>. QED BY <2>1, <2>3 DEF LastCopies, IsLast
<1>2. ASSUME NEW a \in D, to[n - 1] # a
      PROVE  new[a] = old[a]
  <2>1. Writers(to, n, a) = Writers(to, n - 1, a)
    BY <1>2 DEF Writers
  <2>. QED BY <2>1, Zenon DEF LastCopies
<1>3. DOMAIN old = D /\ DOMAIN new = D
  BY Zenon DEF LastCopies
<1>4. new = [a \in D |-> new[a]] /\ old = [a \in D |-> old[a]]
  BY Zenon DEF LastCopies
<1>. HIDE DEF old, new
<1>5. new = [old EXCEPT ![to[n - 1]] = source[from[n - 1]]]
  BY <1>1, <1>2, <1>3, <1>4
<1>. QED BY <1>5 DEF old, new

\* The loop does just that: the two agree before the first copy, and a first
\* copy after which they did not would be preceded by one after which they do.
LEMMA CopiesAreLast ==
  ASSUME NEW D, NEW dest, dest = [a \in D |-> dest[a]],
         NEW source, NEW to, NEW from, NEW passes \in Nat
  PROVE  Copies(dest, source, to, from, passes)
           = LastCopies(dest, source, to, from, passes)
<1>. DEFINE IsLoop(f) ==
       f = [n \in 0 .. passes |->
              IF n = 0 THEN dest
              ELSE [f[n - 1] EXCEPT ![to[n - 1]] = source[from[n - 1]]]]
            After(n) == LastCopies(dest, source, to, from, n)
            last == [n \in 0 .. passes |-> After(n)]
            loop == CHOOSE f : IsLoop(f)
<1>1. Copies(dest, source, to, from, passes) = loop[passes]
  BY DEF Copies
<1>2. After(0) = dest
  <2>1. \A a : Writers(to, 0, a) = {}
    BY DEF Writers
  <2>2. After(0) = [a \in D |-> dest[a]]
    BY <2>1, Zenon DEF LastCopies
  <2>. QED BY <2>2, Zenon
<1>3. \A n \in 1 .. passes :
        After(n) = [After(n - 1) EXCEPT ![to[n - 1]] = source[from[n - 1]]]
  BY LastCopiesStep
<1>. HIDE DEF After
<1>4. IsLoop(last)
  BY <1>2, <1>3
<1>5. IsLoop(loop)
  <2>. HIDE DEF IsLoop
  <2>. QED BY <1>4, Zenon
<1>. DEFINE Bad == {n \in 0 .. passes : loop[n] # After(n)}
<1>6. Bad = {}
  <2>1. SUFFICES ASSUME Bad # {} PROVE FALSE
    OBVIOUS
  <2>2. PICK n \in Bad : \A m \in Bad : n <= m
    <3>1. Bad \in SUBSET Nat
      OBVIOUS
    <3>. HIDE DEF Bad
    <3>. QED BY <2>1, <3>1, NatMin
  <2>. HIDE DEF loop
  <2>3. n # 0
    BY <2>2, <1>2, <1>5
  <2>4. n - 1 \in 0 .. passes /\ n \in 1 .. passes /\ ~(n <= n - 1)
    BY <2>3
  <2>5. loop[n - 1] = After(n - 1)
    BY <2>2, <2>4
  <2>6. loop[n] = [loop[n - 1] EXCEPT ![to[n - 1]] = source[from[n - 1]]]
    BY <1>5, <2>4
  <2>7. loop[n] = After(n)
    BY <2>4, <2>5, <2>6, <1>3
  <2>. QED BY <2>7
<1>7. passes \in 0 .. passes
  OBVIOUS
<1>8. loop[passes] = After(passes)
  <2>. HIDE DEF loop
  <2>. QED BY <1>6, <1>7
<1>. QED BY <1>1, <1>8, Zenon DEF After

\* What a reader of the loop needs: every place has either what the last of
\* its copies brought or what it had.
Copied(a, c, dest, source, to, from, passes) ==
  \/ \E n \in 0 .. passes - 1 : to[n] = a /\ c[a] = source[from[n]]
  \/ (\A n \in 0 .. passes - 1 : to[n] # a) /\ c[a] = dest[a]

\* The copying loop: every word of dest holds what the last pass that went
\* there brought.
LEMMA CopiesMove ==
  ASSUME NEW D, NEW dest, dest = [a \in D |-> dest[a]],
         NEW source, NEW to, NEW from, NEW passes \in Nat,
         NEW c, c = Copies(dest, source, to, from, passes)
  PROVE  /\ c = [a \in D |-> c[a]]
         /\ \A a \in D : Copied(a, c, dest, source, to, from, passes)
<1>1. c = LastCopies(dest, source, to, from, passes)
  BY CopiesAreLast
<1>2. DOMAIN dest = D
  OBVIOUS
<1>3. c = [a \in D |-> c[a]]
  BY <1>1, <1>2, Zenon DEF LastCopies
<1>4. ASSUME NEW a \in D PROVE Copied(a, c, dest, source, to, from, passes)
  <2>. DEFINE W == Writers(to, passes, a)
  <2>1. W \in SUBSET (0 .. passes - 1) /\ \A n \in W : to[n] = a
    BY DEF Writers
  <2>2. CASE W = {}
    <3>1. c[a] = dest[a]
      BY <1>1, <1>2, <2>2, Zenon DEF LastCopies
    <3>. QED BY <3>1, <2>2 DEF Copied, Writers
  <2>3. CASE W # {}
    <3>1. \E i : IsLast(i, W)
      <4>. HIDE DEF W
      <4>. QED BY <2>1, <2>3, BoundedMax
    <3>2. IsLast(LastOf(W), W)
      BY <3>1, Zenon DEF LastOf
    <3>3. LastOf(W) \in W
      BY <3>2, Zenon DEF IsLast
    <3>4. c[a] = source[from[LastOf(W)]]
      BY <1>1, <1>2, <2>3, Zenon DEF LastCopies
    <3>. QED BY <2>1, <3>3, <3>4, Zenon DEF Copied
  <2>. QED BY <2>2, <2>3
<1>. QED BY <1>3, <1>4

\* When no place is written twice, every copy stays.
LEMMA CopiesStay ==
  ASSUME NEW D, NEW dest, dest = [a \in D |-> dest[a]],
         NEW source, NEW to, NEW from, NEW passes \in Nat,
         \A n \in 0 .. passes - 1 : to[n] \in D,
         \A n, k \in 0 .. passes - 1 : to[n] = to[k] => n = k,
         NEW c, c = Copies(dest, source, to, from, passes)
  PROVE  \A n \in 0 .. passes - 1 : c[to[n]] = source[from[n]]
<1>. TAKE n \in 0 .. passes - 1
<1>1. Copied(to[n], c, dest, source, to, from, passes)
  BY CopiesMove
<1>. QED BY <1>1, Zenon DEF Copied

\* The loop brings no value that neither memory had.
LEMMA CopiesTyped ==
  ASSUME NEW D, NEW E, NEW V, NEW dest \in [D -> V], NEW source \in [E -> V],
         NEW to, NEW from, NEW passes \in Nat,
         \A n \in 0 .. passes - 1 : from[n] \in E
  PROVE  Copies(dest, source, to, from, passes) \in [D -> V]
<1>. DEFINE c == Copies(dest, source, to, from, passes)
<1>1. /\ c = [a \in D |-> c[a]]
      /\ \A a \in D : Copied(a, c, dest, source, to, from, passes)
  <2>1. dest = [a \in D |-> dest[a]]
    OBVIOUS
  <2>. HIDE DEF c
  <2>. QED BY <2>1, CopiesMove DEF c
<1>. HIDE DEF c
<1>2. \A a \in D : c[a] \in V
  BY <1>1 DEF Copied
<1>. QED BY <1>1, <1>2 DEF c
(***************************************************************************)
(* Where the words of a transfer lie.                                      *)
(***************************************************************************)

\* The memories hold whole doublewords.
LEMMA MemSize ==
  \E m \in Nat \ {0} : /\ MemBytes = 8 * m
                       /\ (2 * MemBytes) \div 4 = 4 * m
                       /\ MemWord = 0 .. 4 * m - 1
<1>. DEFINE m == MemBytes \div 8
<1>1. MemBytes = 8 * m /\ m \in Nat \ {0}
  BY DMASizesAssumption
<1>. HIDE DEF m
<1>2. (2 * MemBytes) \div 4 = 4 * m
  BY <1>1
<1>. QED BY <1>1, <1>2 DEF MemWord

\* RDRAM is a whole number of doublewords.
LEMMA DramSize ==
  \E d \in Nat \ {0} : /\ DramBytes = 8 * d
                       /\ DramBytes \div 4 = 2 * d
                       /\ DramWord = 0 .. 2 * d - 1
<1>. DEFINE d == DramBytes \div 8
<1>1. DramBytes = 8 * d /\ d \in Nat \ {0}
  BY DMASizesAssumption
<1>. HIDE DEF d
<1>2. DramBytes \div 4 = 2 * d
  BY <1>1
<1>. QED BY <1>1, <1>2 DEF DramWord

\* Aligned addresses.
LEMMA Aligned ==
  ASSUME NEW a \in Nat
  PROVE  /\ Align(a, 4) = 4 * (a \div 4) /\ a \div 4 \in Nat
         /\ Align(a, 8) = 8 * (a \div 8) /\ a \div 8 \in Nat
BY DEF Align

\* "Check length": a row is a whole number of words, at least one, and ends
\* in the memory it starts in.
LEMMA RowFits ==
  ASSUME NEW a \in Nat, NEW len \in Lengths
  PROVE  /\ Row(a, len) \div 4 \in Nat \ {0}
         /\ Row(a, len) = 4 * (Row(a, len) \div 4)
         /\ (Align(a, 4) % MemBytes) + Row(a, len) <= MemBytes
<1>1. PICK m \in Nat \ {0} : MemBytes = 8 * m
  BY MemSize
<1>. DEFINE bytes == Align(len.length + 8, 8)
            first == Align(a, 4) % MemBytes
            b == (len.length + 8) \div 8
            q == Align(a, 4) \div MemBytes
            f == a \div 4 - 2 * m * q
<1>2. len.length \in Nat
  BY <1>1 DEF Lengths
<1>3. bytes = 8 * b /\ b \in Nat \ {0}
  BY <1>2 DEF Align
<1>4. first = 4 * f /\ f \in Nat /\ f < 2 * m
  <2>1. /\ Align(a, 4) = MemBytes * q + first
        /\ q \in Int /\ first \in 0 .. MemBytes - 1
    <3>1. Align(a, 4) \in Int /\ MemBytes \in Nat \ {0}
      BY <1>1, Aligned
    <3>. QED BY <3>1, DivMod
  <2>2. Align(a, 4) = 4 * (a \div 4) /\ a \div 4 \in Nat
    BY Aligned
  <2>. HIDE DEF q, first
  <2>3. first = 4 * f /\ f \in Int
    BY <1>1, <2>1, <2>2
  <2>. HIDE DEF f
  <2>. QED BY <1>1, <2>1, <2>3
<1>. HIDE DEF bytes, first, b, q, f
<1>5. Row(a, len) = IF first + bytes > MemBytes THEN MemBytes - first ELSE bytes
  BY DEF Row, first, bytes
<1>6. CASE first + bytes > MemBytes
  <2>1. Row(a, len) = 4 * (2 * m - f) /\ 2 * m - f \in Nat \ {0}
    BY <1>1, <1>4, <1>5, <1>6
  <2>2. Row(a, len) \div 4 = 2 * m - f
    BY <2>1
  <2>. QED BY <1>1, <1>4, <2>1, <2>2 DEF first
<1>7. CASE ~(first + bytes > MemBytes)
  <2>. Row(a, len) = bytes
    BY <1>5, <1>7
  <2>1. Row(a, len) = 4 * (2 * b) /\ 2 * b \in Nat \ {0}
    BY <1>3
  <2>2. Row(a, len) \div 4 = 2 * b
    BY <2>1
  <2>3. first + Row(a, len) <= MemBytes
    BY <1>1, <1>3, <1>4, <1>7
  <2>. QED BY <2>1, <2>2, <2>3 DEF first
<1>. QED BY <1>6, <1>7

\* The words of a transfer lie in the memories.
LEMMA WordsInMemories ==
  ASSUME NEW at \in [mem : Nat, dram : Nat], NEW len \in Lengths, NEW pitch \in Nat
  PROVE  /\ Passes(at, len) \in Nat
         /\ \A n \in 0 .. Passes(at, len) - 1 :
              /\ MemWords(at, len, pitch)[n] \in MemWord
              /\ DramWords(at, len, pitch)[n] \in DramWord
<1>. DEFINE words == Row(at.mem, len) \div 4
<1>1. words \in Nat \ {0}
  BY RowFits
<1>. HIDE DEF words
<1>2. Passes(at, len) \in Nat
  <2>1. Passes(at, len) = (len.count + 1) * words /\ len.count \in Nat
    BY DEF Passes, words, Lengths
  <2>. QED BY <1>1, <2>1
<1>3. ASSUME NEW n \in 0 .. Passes(at, len) - 1
      PROVE  /\ MemWords(at, len, pitch)[n] \in MemWord
             /\ DramWords(at, len, pitch)[n] \in DramWord
  <2>1. n \in Nat /\ n \div words \in Nat /\ n % words \in Nat
    BY <1>1, <1>2
  <2>2. (n \div words) * pitch \in Nat
    BY <2>1
  <2>. DEFINE m == Align(at.mem, 4) + (n \div words) * pitch
              d == Align(at.dram, 8) + (n \div words) * pitch
  <2>3. Align(at.mem, 4) \in Nat /\ Align(at.dram, 8) \in Nat
    BY Aligned
  <2>4. m \in Nat /\ d \in Nat
    BY <2>2, <2>3
  <2>5. /\ MemWords(at, len, pitch)[n] = MemIndex(m, n % words)
        /\ DramWords(at, len, pitch)[n] = DramIndex(d, n % words)
    BY DEF MemWords, DramWords, words
  <2>. HIDE DEF m, d
  <2>6. MemIndex(m, n % words) \in MemWord
    BY <2>1, <2>4, MemSize DEF MemIndex
  <2>7. DramIndex(d, n % words) \in DramWord
    BY <2>1, <2>4, DramSize DEF DramIndex
  <2>. QED BY <2>5, <2>6, <2>7
<1>. QED BY <1>2, <1>3

\* Where word n of a transfer is, if its rows start a whole number of words
\* apart; and if there is nothing between them.
WordAt(at, len, pitch, p, words, n) ==
  /\ MemWords(at, len, pitch)[n]
       = MemIndex(at.mem, (n \div words) * p + (n % words))
  /\ DramWords(at, len, pitch)[n]
       = DramIndex(Align(at.dram, 8), (n \div words) * p + (n % words))

\* Word n of a transfer, by row and place in the row.
LEMMA WordPlace ==
  ASSUME NEW at \in [mem : Nat, dram : Nat], NEW len \in Lengths, NEW p \in Nat,
         NEW pitch, pitch = 4 * p,
         NEW words, words = Row(at.mem, len) \div 4,
         NEW n \in 0 .. Passes(at, len) - 1
  PROVE  WordAt(at, len, pitch, p, words, n)
<1>1. words \in Nat \ {0} /\ Passes(at, len) \in Nat
  BY RowFits, WordsInMemories
<1>. DEFINE A == at.mem \div 4  B == 2 * (at.dram \div 8)
            i == (n \div words) * p  j == n % words
<1>2. i \in Nat /\ j \in Nat /\ (n \div words) * pitch = 4 * i
  <2>1. n \div words \in Nat /\ n % words \in Nat
    BY <1>1
  <2>. QED BY <2>1
<1>3. A \in Nat /\ Align(at.mem, 4) = 4 * A /\ B \in Nat /\ Align(at.dram, 8) = 4 * B
  BY Aligned
<1>4. /\ MemWords(at, len, pitch)[n]
           = MemIndex(Align(at.mem, 4) + (n \div words) * pitch, j)
      /\ DramWords(at, len, pitch)[n]
           = DramIndex(Align(at.dram, 8) + (n \div words) * pitch, j)
  BY DEF MemWords, DramWords
<1>. HIDE DEF i, j, A, B
<1>5. (4 * A + 4 * i) \div 4 = A + i /\ (4 * B + 4 * i) \div 4 = B + i
      /\ (4 * B) \div 4 = B
  BY <1>2, <1>3
<1>6. MemIndex(4 * A + 4 * i, j) = MemIndex(at.mem, i + j)
  <2>1. A + i + j = A + (i + j)
    BY <1>2, <1>3
  <2>. QED BY <1>5, <2>1 DEF MemIndex, A
<1>7. DramIndex(4 * B + 4 * i, j) = DramIndex(4 * B, i + j)
  <2>1. B + i + j = B + (i + j)
    BY <1>2, <1>3
  <2>. QED BY <1>5, <2>1 DEF DramIndex
<1>. QED BY <1>2, <1>3, <1>4, <1>6, <1>7 DEF i, j, WordAt

\* Rows without skip are one run of words.
LEMMA UnspacedPlace ==
  ASSUME NEW at \in [mem : Nat, dram : Nat], NEW len \in Lengths,
         NEW n \in 0 .. Passes(at, len) - 1
  PROVE  /\ MemWords(at, len, Row(at.mem, len))[n] = MemIndex(at.mem, n)
         /\ DramWords(at, len, Row(at.mem, len))[n]
              = DramIndex(Align(at.dram, 8), n)
<1>. DEFINE words == Row(at.mem, len) \div 4
<1>1. words \in Nat \ {0} /\ Row(at.mem, len) = 4 * words
  BY RowFits
<1>2. Passes(at, len) \in Nat
  BY WordsInMemories
<1>3. (n \div words) * words + (n % words) = n
  <2>. HIDE DEF words
  <2>1. n \in Int
    BY <1>2
  <2>2. n = words * (n \div words) + (n % words) /\ n \div words \in Int
    BY <1>1, <2>1, DivMod
  <2>. QED BY <1>1, <2>2
<1>4. WordAt(at, len, Row(at.mem, len), words, words, n)
  BY <1>1, WordPlace
<1>. QED BY <1>3, <1>4 DEF WordAt

\* A transfer leaves memories that hold what memories can hold, and address
\* registers that hold numbers.
LEMMA TransferTyped ==
  ASSUME NEW V, NEW mem \in [MemWord -> V], NEW dram \in [DramWord -> V],
         NEW at \in [mem : Nat, dram : Nat], NEW len \in Lengths
  PROVE  /\ DMARead(mem, dram, at, len) \in [MemWord -> V]
         /\ DMAWrite(mem, dram, at, len) \in [DramWord -> V]
         /\ AfterRead(at, len) \in [mem : Nat, dram : Nat]
         /\ AfterWrite(at, len) \in [mem : Nat, dram : Nat]
<1>. DEFINE row == Row(at.mem, len)
<1>1. row \in Nat /\ len.skip \in Nat /\ len.count \in Nat
  BY RowFits DEF Lengths
<1>2. DMARead(mem, dram, at, len)
        = Copies(mem, dram, MemWords(at, len, row + len.skip),
                 DramWords(at, len, row), Passes(at, len))
  BY DEF DMARead
<1>3. DMAWrite(mem, dram, at, len)
        = Copies(dram, mem, DramWords(at, len, row + len.skip),
                 MemWords(at, len, row), Passes(at, len))
  BY DEF DMAWrite
<1>4. /\ AfterRead(at, len)
           = [mem |-> Align(at.mem, 4) + (len.count + 1) * (row + len.skip),
              dram |-> Align(at.dram, 8) + (len.count + 1) * row]
      /\ AfterWrite(at, len)
           = [mem |-> Align(at.mem, 4) + (len.count + 1) * row,
              dram |-> Align(at.dram, 8) + (len.count + 1) * (row + len.skip)]
  BY DEF AfterRead, AfterWrite
<1>5. Align(at.mem, 4) \in Nat /\ Align(at.dram, 8) \in Nat
  BY Aligned
<1>. HIDE DEF row
<1>6. row + len.skip \in Nat
  BY <1>1
<1>7. DMARead(mem, dram, at, len) \in [MemWord -> V]
  <2>. DEFINE to == MemWords(at, len, row + len.skip)
              from == DramWords(at, len, row)
  <2>1. /\ Passes(at, len) \in Nat
        /\ \A n \in 0 .. Passes(at, len) - 1 : from[n] \in DramWord
    BY <1>1, WordsInMemories
  <2>. HIDE DEF to, from
  <2>2. Copies(mem, dram, to, from, Passes(at, len)) \in [MemWord -> V]
    BY <2>1, CopiesTyped
  <2>. QED BY <1>2, <2>2 DEF to, from
<1>8. DMAWrite(mem, dram, at, len) \in [DramWord -> V]
  <2>. DEFINE to == DramWords(at, len, row + len.skip)
              from == MemWords(at, len, row)
  <2>1. /\ Passes(at, len) \in Nat
        /\ \A n \in 0 .. Passes(at, len) - 1 : from[n] \in MemWord
    BY <1>1, WordsInMemories
  <2>. HIDE DEF to, from
  <2>2. Copies(dram, mem, to, from, Passes(at, len)) \in [DramWord -> V]
    BY <2>1, CopiesTyped
  <2>. QED BY <1>3, <2>2 DEF to, from
<1>9. (len.count + 1) * (row + len.skip) \in Nat /\ (len.count + 1) * row \in Nat
  BY <1>1, <1>6
<1>. QED BY <1>4, <1>5, <1>7, <1>8, <1>9

=============================================================================
