-------------------------- MODULE VectorMemoryProofs --------------------------
(***************************************************************************)
(* The properties of VectorMemoryProperties for memories and register      *)
(* files of any size, with any contents, and for any programs.             *)
(***************************************************************************)
EXTENDS VectorMemoryProperties, TLAPS

(***************************************************************************)
(* Numbers.                                                                *)
(***************************************************************************)
LEMMA DivMod ==
  ASSUME NEW m \in Int, NEW n \in Nat \ {0}
  PROVE  /\ m \div n \in Int /\ m % n \in 0 .. n - 1
         /\ m = n * (m \div n) + (m % n)
         /\ m \in Nat => m \div n \in Nat
OBVIOUS

\* Addresses of DMEM.
DMemByte == 0 .. DMemBytes - 1

\* What the assumption says of the sizes.
LEMMA Sizes ==
  /\ \E c \in Nat \ {0} : DMemBytes = 16 * c
  /\ DMemBytes \in Nat /\ DMemBytes >= 16
  /\ \E c \in Nat \ {0} : NumVRegs = 8 * c
  /\ NumVRegs \in Nat /\ NumVRegs >= 8
<1>1. PICK c \in Int : DMemBytes = 16 * c
  <2>1. DMemBytes = 16 * (DMemBytes \div 16) /\ DMemBytes \div 16 \in Int
    BY VectorMemoryAssumption
  <2>. QED BY <2>1
<1>2. PICK d \in Int : NumVRegs = 8 * d
  <2>1. NumVRegs = 8 * (NumVRegs \div 8) /\ NumVRegs \div 8 \in Int
    BY VectorMemoryAssumption
  <2>. QED BY <2>1
<1>3. c \in Nat \ {0} /\ d \in Nat \ {0}
  BY <1>1, <1>2, VectorMemoryAssumption
<1>. QED BY <1>1, <1>2, <1>3

\* Addresses lie in DMEM.
LEMMA AddressTyped ==
  ASSUME NEW w \in Instruction
  PROVE  Address(w) \in DMemByte
<1>1. Unit(w.op) \in Nat
  BY DEF Unit
<1>2. w.at \in Int /\ w.offset \in Int
  BY DEF Instruction
<1>3. w.at + w.offset * Unit(w.op) \in Int
  BY <1>1, <1>2
<1>. QED BY <1>3, Sizes DEF Address, DMemByte

\* The line an address lies in.
LEMMA LineOf ==
  ASSUME NEW a \in DMemByte
  PROVE  /\ Line(a) \in DMemByte /\ Line(a) + 15 \in DMemByte
         /\ Start(a, 16) \in 0 .. 15 /\ a = Line(a) + Start(a, 16)
         /\ Line(a) % 16 = 0
<1>1. PICK c \in Nat \ {0} : DMemBytes = 16 * c
  BY Sizes
<1>. DEFINE q == a \div 16  r == a % 16
<1>2. a \in Nat /\ a < 16 * c
  BY <1>1 DEF DMemByte
<1>3. q \in Nat /\ r \in 0 .. 15 /\ a = 16 * q + r
  BY <1>2
<1>4. Line(a) = 16 * q /\ Start(a, 16) = r
  BY <1>2, <1>3 DEF Line, Start
<1>. HIDE DEF q, r
<1>5. q < c
  BY <1>1, <1>2, <1>3
<1>6. (16 * q) % 16 = 0
  BY <1>3
<1>. QED BY <1>1, <1>3, <1>4, <1>5, <1>6 DEF DMemByte

(***************************************************************************)
(* Copies.                                                                 *)
(***************************************************************************)
LEMMA OtherInside ==
  ASSUME NEW k \in 0 .. 15
  PROVE  Other(k) \in 0 .. 15 /\ Other(Other(k)) = k
BY DEF Other

\* Sixteen bytes, swapped or not, are sixteen bytes.
LEMMA SwappedTyped ==
  ASSUME NEW S, NEW src \in [S -> Byte], NEW s \in Nat, s .. s + 15 \subseteq S
  PROVE  Swapped(src, s) \in [0 .. 15 -> Byte]
<1>1. \A k \in 0 .. 15 : s + Other(k) \in s .. s + 15
  BY OtherInside
<1>2. \A k \in 0 .. 15 : src[s + Other(k)] \in Byte
  BY <1>1
<1>. QED BY <1>2 DEF Swapped

\* A copy from inside its source leaves bytes.
LEMMA CopyTyped ==
  ASSUME NEW S, NEW dest \in [S -> Byte], S \subseteq Int,
         NEW src \in [0 .. 15 -> Byte], NEW d \in Int, NEW s \in Nat, NEW n \in Int,
         s + n <= 16
  PROVE  Copy(dest, d, src, s, n) \in [S -> Byte]
<1>1. ASSUME NEW k \in S, k \in d .. d + n - 1 PROVE src[s + k - d] \in Byte
  <2>1. s + k - d \in 0 .. 15
    BY <1>1
  <2>. QED BY <2>1
<1>. QED BY <1>1 DEF Copy

\* Memory and registers are indexed by integers.
LEMMA IndexSets == VRegByte \subseteq Int /\ MemByte \subseteq Int
BY Sizes DEF VRegByte, MemByte

\* The same for whole registers.
LEMMA WholeCopyTyped ==
  ASSUME NEW dest \in [VRegByte -> Byte], NEW src \in [0 .. 15 -> Byte], NEW d \in Int
  PROVE  Copy(dest, d, src, 0, 16) \in [VRegByte -> Byte]
<1>. DEFINE s == 0  n == 16
<1>1. s \in Nat /\ n \in Int /\ s + n <= 16
  OBVIOUS
<1>. HIDE DEF s, n
<1>2. Copy(dest, d, src, s, n) \in [VRegByte -> Byte]
  BY <1>1, IndexSets, CopyTyped
<1>. QED BY <1>2 DEF s, n

\* A register is sixteen bytes.
LEMMA RegisterTyped ==
  ASSUME vr \in [VRegByte -> Byte], NEW v \in 0 .. NumVRegs
  PROVE  Register(v) \in [0 .. 15 -> Byte]
<1>1. 16 * v \in Nat /\ 16 * v .. 16 * v + 15 \subseteq VRegByte
  BY Sizes DEF VRegByte
<1>. QED BY <1>1, SwappedTyped DEF Register

(***************************************************************************)
(* Types: no access reads outside the memories and registers, or leaves    *)
(* something in them that is not a byte.                                   *)
(***************************************************************************)
Memories ==
  mem \in [MemByte -> Byte] /\ vr \in [VRegByte -> Byte] /\ rt \in Word32

\* An access from DMEM may reach into IMEM, not beyond.
LEMMA LinesInMemory ==
  ASSUME NEW a \in DMemByte
  PROVE  /\ a \in Nat /\ a .. a + 15 \subseteq MemByte
         /\ Line(a) \in Nat /\ Line(a) .. Line(a) + 15 \subseteq MemByte
BY Sizes, LineOf DEF DMemByte, MemByte

\* STV collects its slices from the registers of one group.
LEMMA TransposedTyped ==
  ASSUME vr \in [VRegByte -> Byte], NEW w, w.v \in 0 .. NumVRegs - 1,
         w.e \in 0 .. 15, w.v % 8 = 0
  PROVE  Transposed(w) \in [0 .. 15 -> Byte]
<1>. DEFINE r(k) == (w.e \div 2 + k \div 2) % 8
<1>1. \A k \in 0 .. 15 : r(k) \in 0 .. 7
  <2>1. SUFFICES ASSUME NEW k \in 0 .. 15 PROVE r(k) \in 0 .. 7
    OBVIOUS
  <2>. DEFINE x == w.e \div 2 + k \div 2
  <2>2. x \in Int
    OBVIOUS
  <2>. HIDE DEF x
  <2>3. x % 8 \in 0 .. 7
    BY <2>2, SMT
  <2>. QED BY <2>3 DEF x
<1>2. w.v + 7 < NumVRegs
  BY Sizes
<1>. HIDE DEF r
<1>3. \A k \in 0 .. 15 : 16 * (w.v + r(k)) + k \in VRegByte
  <2>. DEFINE v == w.v
  <2>1. v \in Nat
    BY Sizes
  <2>2. ASSUME NEW k \in Nat, k < 16, NEW q \in Nat, q < 8, v \in Nat, v + 7 < NumVRegs
        PROVE  16 * (v + q) + k \in VRegByte
    <3>. HIDE DEF v
    <3>1. 16 * (v + q) + k \in Nat /\ 16 * (v + q) + k < 16 * (v + 8)
      BY <2>2
    <3>. QED BY <2>2, <3>1, Sizes DEF VRegByte
  <2>3. \A k \in 0 .. 15 : k \in Nat /\ k < 16 /\ r(k) \in Nat /\ r(k) < 8
    BY <1>1
  <2>. HIDE DEF v
  <2>4. \A k \in 0 .. 15 : 16 * (v + r(k)) + k \in VRegByte
    BY <1>2, <2>1, <2>2, <2>3 DEF v
  <2>. QED BY <2>4 DEF v
<1>4. \A k \in 0 .. 15 : vr[16 * (w.v + r(k)) + k] \in Byte
  BY <1>3
<1>. QED BY <1>4 DEF Transposed, r

\* Some slice of those LTV writes is the last.
LEMMA LastOfEight ==
  ASSUME NEW Q \in SUBSET (0 .. 7), Q # {}
  PROVE  \E i \in 0 .. 7 : i \in Q /\ \A j \in i + 1 .. 7 : j \notin Q
<1>. DEFINE Last(i) == i \in Q /\ \A j \in i + 1 .. 7 : j \notin Q
<1>1. Last(7) \/ 7 \notin Q
  OBVIOUS
<1>2. 7 \notin Q => Last(6) \/ 6 \notin Q
  OBVIOUS
<1>3. 7 \notin Q /\ 6 \notin Q => Last(5) \/ 5 \notin Q
  OBVIOUS
<1>4. 7 \notin Q /\ 6 \notin Q /\ 5 \notin Q => Last(4) \/ 4 \notin Q
  OBVIOUS
<1>5. 7 \notin Q /\ 6 \notin Q /\ 5 \notin Q /\ 4 \notin Q => Last(3) \/ 3 \notin Q
  OBVIOUS
<1>6. Q \subseteq 0 .. 2 => Last(2) \/ 2 \notin Q
  OBVIOUS
<1>7. Q \subseteq 0 .. 1 => Last(1) \/ 1 \notin Q
  OBVIOUS
<1>8. Q \subseteq {0} => Last(0)
  <2>1. SUFFICES ASSUME Q \subseteq {0} PROVE Last(0)
    OBVIOUS
  <2>2. 0 \in Q
    BY <2>1, Zenon
  <2>3. \A j \in 1 .. 7 : j \notin Q
    BY <2>1
  <2>. QED BY <2>2, <2>3
<1>9. \E i \in 0 .. 7 : Last(i)
  <2>. HIDE DEF Last
  <2>. QED BY <1>1, <1>2, <1>3, <1>4, <1>5, <1>6, <1>7, <1>8
<1>. QED BY <1>9

\* The vector loads leave bytes in the registers.
LEMMA LoadVectorTyped ==
  ASSUME Memories, NEW w \in Instruction, w.op \in VectorLoad, Accepts(w),
         NEW a \in DMemByte, a = Address(w)
  PROVE  LoadedVRegs(w, a) \in [VRegByte -> Byte]
<1>1. /\ w.v \in 0 .. NumVRegs - 1 /\ w.e \in 0 .. 15
      /\ 16 * w.v \in Int /\ 16 * w.v + w.e \in Int
  BY Sizes DEF Instruction
<1>2. mem \in [MemByte -> Byte] /\ vr \in [VRegByte -> Byte]
  BY DEF Memories
<1>3. /\ Swapped(mem, a) \in [0 .. 15 -> Byte]
      /\ Swapped(mem, Line(a)) \in [0 .. 15 -> Byte]
  BY <1>2, LinesInMemory, SwappedTyped
<1>4. CASE w.op = "LBV"
  <2>1. mem[a] \in Byte
    BY <1>2, Sizes DEF DMemByte, MemByte
  <2>. QED BY <1>2, <1>4, <2>1 DEF LoadedVRegs, LoadByteVector
<1>5. CASE w.op \in {"LSV", "LLV", "LDV"}
  <2>1. ASSUME NEW size \in {2, 4, 8} PROVE LoadPart(w, a, size) \in [VRegByte -> Byte]
    <3>. DEFINE s == IF size = 8 THEN 0 ELSE Start(a, size)
    <3>1. s \in 0 .. 3
      BY <2>1 DEF Start, DMemByte
    <3>2. s + size <= 16 /\ s \in Nat /\ size \in Int
      BY <2>1, <3>1
    <3>. HIDE DEF s
    <3>3. Copy(vr, 16 * w.v + w.e, Swapped(mem, a), s, size) \in [VRegByte -> Byte]
      BY <1>1, <1>2, <1>3, <3>2, IndexSets, CopyTyped
    <3>. QED BY <3>3 DEF LoadPart, s
  <2>. QED BY <1>5, <2>1 DEF LoadedVRegs
<1>6. CASE w.op = "LQV"
  <2>. DEFINE s == Slice(Start(a, 16))  n == 16 - Start(a, 16)
  <2>1. s \in Nat /\ n \in Int /\ s + n <= 16
    BY LineOf DEF Slice
  <2>. HIDE DEF s, n
  <2>2. Copy(vr, 16 * w.v, Swapped(mem, Line(a)), s, n) \in [VRegByte -> Byte]
    BY <1>1, <1>2, <1>3, <2>1, IndexSets, CopyTyped
  <2>. QED BY <1>6, <2>2 DEF LoadedVRegs, LoadQuadVector, s, n
<1>7. CASE w.op = "LRV"
  <2>. DEFINE d == 16 * w.v + 16 - Slice(Start(a, 16))  n == Start(a, 16)
  <2>1. Start(a, 16) \in 0 .. 15 /\ Slice(Start(a, 16)) \in Int
    BY LineOf DEF Slice
  <2>2. d \in Int /\ n \in Int /\ 0 + n <= 16
    BY <1>1, <2>1
  <2>. HIDE DEF d, n
  <2>3. Copy(vr, d, Swapped(mem, Line(a)), 0, n) \in [VRegByte -> Byte]
    BY <1>2, <1>3, <2>2, IndexSets, CopyTyped
  <2>. QED BY <1>7, <2>3 DEF LoadedVRegs, LoadRestVector, d, n
<1>8. CASE w.op \in {"LPV", "LUV"}
  <2>1. \A k \in 0 .. 15 : k \div 2 \in 0 .. 15
    OBVIOUS
  <2>2. \A k \in 0 .. 15 : a + k \div 2 \in MemByte
    BY <2>1, LinesInMemory
  <2>3. \A k \in 0 .. 15 : mem[a + k \div 2] \in Byte
    BY <1>2, <2>2
  <2>. DEFINE p == [k \in 0 .. 15 |-> IF k % 2 = 0 THEN 0 ELSE mem[a + k \div 2]]
              u == [k \in 0 .. 15 |-> IF k % 2 = 0 THEN (mem[a + k \div 2] % 2) * 128
                                                   ELSE mem[a + k \div 2] \div 2]
  <2>4. p \in [0 .. 15 -> Byte]
    BY <2>3 DEF Byte
  <2>5. u \in [0 .. 15 -> Byte]
    <3>1. \A b \in Byte : (b % 2) * 128 \in Byte /\ b \div 2 \in Byte
      BY DEF Byte
    <3>. QED BY <2>3, <3>1
  <2>. HIDE DEF p, u
  <2>6. /\ Copy(vr, 16 * w.v, p, 0, 16) \in [VRegByte -> Byte]
        /\ Copy(vr, 16 * w.v, u, 0, 16) \in [VRegByte -> Byte]
    BY <1>1, <1>2, <2>4, <2>5, WholeCopyTyped
  <2>. QED BY <1>8, <2>6 DEF LoadedVRegs, LoadPackedBytes, LoadPackedUBytes, p, u
<1>9. CASE w.op = "LTV"
  <2>. DEFINE line == Swapped(mem, Line(a))
              At(i) == 16 * (w.v + i) + 2 * Lane(w, i)
              Is(i, k) == /\ k \in {At(i), At(i) + 1}
                          /\ \A j \in i + 1 .. 7 : k \notin {At(j), At(j) + 1}
              I(k) == CHOOSE i \in 0 .. 7 : Is(i, k)
  <2>1. \A i \in 0 .. 7 : At(i) \in Int
    BY <1>1 DEF Lane
  <2>2. ASSUME NEW k \in VRegByte, \E i \in 0 .. 7 : k \in {At(i), At(i) + 1}
        PROVE  I(k) \in 0 .. 7 /\ Is(I(k), k)
    <3>. DEFINE Q == {i \in 0 .. 7 : k \in {At(i), At(i) + 1}}
    <3>1. Q \in SUBSET (0 .. 7) /\ Q # {}
      BY <2>2
    <3>. HIDE DEF Q
    <3>2. \E i \in 0 .. 7 : i \in Q /\ \A j \in i + 1 .. 7 : j \notin Q
      BY <3>1, LastOfEight
    <3>3. \E i \in 0 .. 7 : Is(i, k)
      BY <3>2 DEF Q
    <3>. HIDE DEF Is
    <3>. QED BY <3>3
  <2>3. ASSUME NEW k \in VRegByte, \E i \in 0 .. 7 : k \in {At(i), At(i) + 1}
        PROVE  line[2 * I(k) + k - At(I(k))] \in Byte
    <3>1. I(k) \in 0 .. 7 /\ k \in {At(I(k)), At(I(k)) + 1}
      BY <2>2, <2>3
    <3>. DEFINE i == I(k)
    <3>. HIDE DEF I
    <3>2. 2 * i + k - At(i) \in {2 * i, 2 * i + 1}
      <4>1. At(i) \in Int
        BY <2>1, <3>1
      <4>. HIDE DEF At
      <4>. QED BY <3>1, <4>1
    <3>3. 2 * i + k - At(i) \in 0 .. 15
      BY <3>1, <3>2
    <3>. HIDE DEF line, At
    <3>. QED BY <1>3, <3>3 DEF line
  <2>4. LoadTransposeVector(w, a)
          = [k \in VRegByte |->
               IF \E i \in 0 .. 7 : k \in {At(i), At(i) + 1}
               THEN line[2 * I(k) + k - At(I(k))] ELSE vr[k]]
    BY Zenon DEF LoadTransposeVector
  <2>. HIDE DEF line, I, At
  <2>5. LoadTransposeVector(w, a) \in [VRegByte -> Byte]
    BY <1>2, <2>3, <2>4
  <2>. QED BY <1>9, <2>5 DEF LoadedVRegs
<1>. QED BY <1>4, <1>5, <1>6, <1>7, <1>8, <1>9 DEF VectorLoad

\* Words are integers.
LEMMA WordInt == \A x \in Word32 : x \in Int
BY SMT DEF Word32

\* Numbers of 16 bits, and pairs of them, are words.
LEMMA WordIs ==
  /\ \A x \in Int : -32768 <= x /\ x < 65536 => x \in Word32
  /\ \A x \in Int : \A y \in Nat :
       -32768 <= x /\ x < 32768 /\ y < 65536 => 65536 * x + y \in Word32
BY SMT DEF Word32

\* A byte, in a form the provers do not take apart value by value.
LEMMA ByteIs ==
  \A x : x \in Byte <=> x \in Nat /\ x < 256
<1>. DEFINE n == 255
<1>1. n = 255
  OBVIOUS
<1>. HIDE DEF n
<1>2. \A x : x \in 0 .. n <=> x \in Nat /\ x < 256
  BY <1>1
<1>3. Byte = 0 .. n
  BY <1>1 DEF Byte
<1>. QED BY <1>2, <1>3

IsHalf(x) == x \in Int /\ -32768 <= x /\ x < 32768

\* Two bytes make a half.
LEMMA HalfRange ==
  ASSUME NEW x \in Byte, NEW y \in Byte
  PROVE  IsHalf(Half(x, y))
BY ByteIs, SMT DEF Half, IsHalf

\* Writing one or two bytes leaves bytes.
LEMMA OneByte ==
  \A S : \A f \in [S -> Byte] : \A i : \A x \in Byte : [f EXCEPT ![i] = x] \in [S -> Byte]
OBVIOUS

\* Two bytes replaced.
LEMMA TwoBytes ==
  \A S : \A f \in [S -> Byte] : \A i, j : \A x, y \in Byte :
    [f EXCEPT ![i] = x, ![j] = y] \in [S -> Byte]
<1>. SUFFICES ASSUME NEW S, NEW f \in [S -> Byte], NEW i, NEW j,
                     NEW x \in Byte, NEW y \in Byte
              PROVE  [f EXCEPT ![i] = x, ![j] = y] \in [S -> Byte]
  OBVIOUS
<1>. DEFINE h == [f EXCEPT ![i] = x]
<1>1. h \in [S -> Byte]
  OBVIOUS
<1>2. [f EXCEPT ![i] = x, ![j] = y] = [h EXCEPT ![j] = y]
  BY Zenon
<1>. HIDE DEF h
<1>3. [h EXCEPT ![j] = y] \in [S -> Byte]
  BY <1>1
<1>. QED BY <1>2, <1>3, Zenon

\* The stores leave bytes in memory.
LEMMA StoredTyped ==
  ASSUME Memories, NEW w \in Instruction, w.op \in VectorStore \cup ScalarStore,
         Accepts(w), NEW a \in DMemByte, a = Address(w)
  PROVE  StoredMem(w, a) \in [MemByte -> Byte]
<1>1. w.v \in 0 .. NumVRegs - 1 /\ w.e \in 0 .. 15 /\ rt \in Int
  <2>1. rt \in Int
    BY WordInt, Zenon DEF Memories
  <2>. QED BY <2>1 DEF Instruction
<1>2. mem \in [MemByte -> Byte] /\ vr \in [VRegByte -> Byte] /\ MemByte \subseteq Int
  BY IndexSets DEF Memories
<1>3. Register(w.v) \in [0 .. 15 -> Byte]
  BY <1>1, <1>2, Sizes, RegisterTyped
<1>4. a \in Int
  BY Sizes DEF DMemByte
<1>5. ASSUME NEW n \in {2, 4, 8}, NEW src \in [0 .. 15 -> Byte], w.e + n <= 16
      PROVE  Copy(mem, a, src, w.e, n) \in [MemByte -> Byte]
  <2>1. w.e \in Nat /\ n \in Int
    BY <1>1
  <2>. QED BY <1>2, <1>4, <1>5, <2>1, CopyTyped
<1>6. CASE w.op = "SBV"
  BY <1>1, <1>2, <1>3, <1>6 DEF StoredMem
<1>7. CASE w.op \in {"SSV", "SLV", "SDV"}
  <2>1. w.e + Unit(w.op) <= 16 /\ Unit(w.op) \in {2, 4, 8}
    BY <1>1, <1>7 DEF Accepts, Unit
  <2>2. StoredMem(w, a) = Copy(mem, a, Register(w.v), w.e, Unit(w.op))
    BY <1>7 DEF StoredMem, Unit
  <2>. QED BY <1>3, <1>5, <2>1, <2>2
<1>8. CASE w.op = "SQV"
  <2>. DEFINE n == 16 - Start(a, 16)  s == 0
  <2>1. n \in Int /\ s \in Nat /\ s + n <= 16
    BY LineOf
  <2>. HIDE DEF n, s
  <2>2. Copy(mem, a, Register(w.v), s, n) \in [MemByte -> Byte]
    BY <1>2, <1>3, <1>4, <2>1, CopyTyped
  <2>. QED BY <1>8, <2>2 DEF StoredMem, StoreQuadVector, s, n
<1>9. CASE w.op \in {"SPV", "SUV"}
  <2>1. \A i \in 0 .. 7 : 16 * w.v + 2 * i \in VRegByte /\ 16 * w.v + 2 * i + 1 \in VRegByte
    BY <1>1, Sizes DEF VRegByte
  <2>2. \A i \in 0 .. 7 : vr[16 * w.v + 2 * i] \in Byte /\ vr[16 * w.v + 2 * i + 1] \in Byte
    BY <1>2, <2>1
  <2>3. \A b, c \in Byte : (b % 128) * 2 + c \div 128 \in Byte
    BY DEF Byte
  <2>4. ASSUME NEW src \in [0 .. 7 -> Byte]
        PROVE  Copy(mem, a, src, 0, 8) \in [MemByte -> Byte]
    <3>1. \A k \in MemByte : k \in a .. a + 8 - 1 => 0 + k - a \in 0 .. 7
      BY <1>2, <1>4
    <3>2. \A k \in MemByte : k \in a .. a + 8 - 1 => src[0 + k - a] \in Byte
      BY <3>1
    <3>. QED BY <1>2, <3>2 DEF Copy
  <2>5. CASE w.op = "SPV"
    BY <2>2, <2>4, <2>5 DEF StoredMem, StorePackedBytes
  <2>6. CASE w.op = "SUV"
    BY <2>2, <2>3, <2>4, <2>6 DEF StoredMem, StorePackedUBytes
  <2>. QED BY <1>9, <2>5, <2>6
<1>10. CASE w.op = "STV"
  <2>. DEFINE src == Swapped(Transposed(w), 0)
  <2>1. Transposed(w) \in [0 .. 15 -> Byte]
    BY <1>1, <1>2, <1>10, TransposedTyped DEF Accepts
  <2>2. src \in [0 .. 15 -> Byte]
    BY <2>1, OtherInside DEF Swapped
  <2>. DEFINE n == 16  s == 0
  <2>3. n \in Int /\ s \in Nat /\ s + n <= 16
    OBVIOUS
  <2>. HIDE DEF n, s, src
  <2>4. Copy(mem, a, src, s, n) \in [MemByte -> Byte]
    BY <1>2, <1>4, <2>2, <2>3, CopyTyped
  <2>. QED BY <1>10, <2>4 DEF StoredMem, s, n, src
<1>11. rt % 256 \in Byte /\ (rt \div 256) % 256 \in Byte
  BY <1>1, ByteIs
<1>12. CASE w.op = "SB"
  <2>1. StoredMem(w, a) = [mem EXCEPT ![a] = rt % 256]
    BY <1>12 DEF StoredMem
  <2>2. [mem EXCEPT ![a] = rt % 256] \in [MemByte -> Byte]
    BY <1>2, <1>11, OneByte, Zenon
  <2>. QED BY <2>1, <2>2, Zenon
<1>13. CASE w.op = "SH"
  <2>1. StoredMem(w, a) = StoreHalf(a)
    BY <1>13 DEF StoredMem
  <2>2. [mem EXCEPT ![a] = (rt \div 256) % 256, ![a + 1] = rt % 256] \in [MemByte -> Byte]
    BY <1>2, <1>11, TwoBytes, Zenon
  <2>. QED BY <2>1, <2>2, Zenon DEF StoreHalf
<1>14. CASE w.op = "SW"
  <2>1. \A n \in 1 .. 4 : WordBytes[n] \in Byte
    <3>1. \A x \in Int : x % 256 \in Byte
      BY ByteIs
    <3>2. /\ rt \div 16777216 \in Int /\ rt \div 65536 \in Int
          /\ rt \div 256 \in Int /\ rt \in Int
      BY <1>1, SMT
    <3>. QED BY <3>1, <3>2, SMT DEF WordBytes
  <2>2. \A k \in MemByte : k \in a .. a + 4 - 1 => 1 + k - a \in 1 .. 4
    BY <1>2, <1>4
  <2>3. \A k \in MemByte : k \in a .. a + 4 - 1 => WordBytes[1 + k - a] \in Byte
    BY <2>1, <2>2
  <2>4. Copy(mem, a, WordBytes, 1, 4) \in [MemByte -> Byte]
    BY <1>2, <2>3 DEF Copy
  <2>. QED BY <1>14, <2>4 DEF StoredMem
<1>15. w.op \in {"SBV", "SSV", "SLV", "SDV", "SQV", "SPV", "SUV", "STV", "SB", "SH", "SW"}
  BY DEF VectorStore, ScalarStore
<1>. QED BY <1>6, <1>7, <1>8, <1>9, <1>10, <1>12, <1>13, <1>14, <1>15

\* The scalar loads leave a word in rt.
LEMMA LoadedTyped ==
  ASSUME Memories, NEW w \in Instruction, w.op \in ScalarLoad, NEW a \in DMemByte
  PROVE  Loaded(w, a) \in Word32
<1>1. /\ mem[a + 0] \in Byte /\ mem[a + 1] \in Byte
      /\ mem[a + 2] \in Byte /\ mem[a + 3] \in Byte
  <2>1. \A k \in 0 .. 3 : a + k \in MemByte
    BY Sizes DEF DMemByte, MemByte
  <2>. QED BY <2>1 DEF Memories
<1>. DEFINE b0 == mem[a + 0]  b1 == mem[a + 1]  b2 == mem[a + 2]  b3 == mem[a + 3]
            h == Half(b0, b1)
<1>2. /\ b0 \in Nat /\ b0 < 256 /\ b1 \in Nat /\ b1 < 256
      /\ b2 \in Nat /\ b2 < 256 /\ b3 \in Nat /\ b3 < 256
  BY <1>1, ByteIs
<1>3. h \in Int /\ -32768 <= h /\ h < 32768
  <2>1. IsHalf(h)
    BY <1>1, HalfRange, Zenon
  <2>. QED BY <2>1 DEF IsHalf
<1>4. CASE w.op = "LW"
  <2>1. Loaded(w, a) = 65536 * h + 256 * b2 + b3
    BY <1>4 DEF Loaded
  <2>. HIDE DEF h, b0, b1, b2, b3
  <2>2. 65536 * h + 256 * b2 + b3 = 65536 * h + (256 * b2 + b3)
    BY <1>2, <1>3, SMT
  <2>3. 256 * b2 + b3 \in Nat /\ 256 * b2 + b3 < 65536
    BY <1>2, SMT
  <2>. DEFINE y == 256 * b2 + b3
  <2>4. y \in Nat /\ y < 65536
    BY <2>3
  <2>. HIDE DEF y
  <2>5. 65536 * h + y \in Word32
    BY <1>3, <2>4, WordIs, SMT
  <2>. QED BY <2>1, <2>2, <2>5 DEF y
<1>5. CASE w.op = "LH"
  <2>1. Loaded(w, a) = h
    BY <1>5 DEF Loaded
  <2>. HIDE DEF h
  <2>. QED BY <1>3, <2>1, WordIs, SMT
<1>6. CASE w.op = "LHU"
  <2>1. Loaded(w, a) = 256 * b0 + b1
    BY <1>6 DEF Loaded
  <2>. HIDE DEF b0, b1
  <2>. QED BY <1>2, <2>1, WordIs, SMT
<1>7. CASE w.op \in {"LB", "LBU"}
  <2>1. Loaded(w, a) \in {b0, b0 - 256}
    BY <1>7 DEF Loaded
  <2>. HIDE DEF b0
  <2>2. Loaded(w, a) \in Int /\ -32768 <= Loaded(w, a) /\ Loaded(w, a) < 65536
    BY <1>2, <2>1, SMT
  <2>. QED BY <2>2, WordIs, SMT
<1>. QED BY <1>4, <1>5, <1>6, <1>7 DEF ScalarLoad

\* So do the moves.
LEMMA MovedTyped ==
  ASSUME Memories, NEW w \in Instruction, Accepts(w)
  PROVE  /\ w.op = "MFC2" => MovedFrom(w) \in Word32
         /\ w.op = "MTC2" => MovedTo(w) \in [VRegByte -> Byte]
<1>1. w.v \in 0 .. NumVRegs /\ w.e \in 0 .. 15
  BY Sizes DEF Instruction
<1>2. vr \in [VRegByte -> Byte] /\ rt \in Int
  BY WordInt, Zenon DEF Memories
<1>3. Register(w.v) \in [0 .. 15 -> Byte]
  BY <1>1, <1>2, RegisterTyped
<1>4. Register(w.v)[w.e] \in Byte /\ Register(w.v)[(w.e + 1) % 16] \in Byte
  <2>1. w.e \in 0 .. 15 /\ (w.e + 1) % 16 \in 0 .. 15
    BY <1>1
  <2>. QED BY <1>3, <2>1
<1>5. MovedFrom(w) \in Word32
  <2>. DEFINE h == Half(Register(w.v)[w.e], Register(w.v)[(w.e + 1) % 16])
  <2>1. MovedFrom(w) = h
    BY DEF MovedFrom
  <2>2. IsHalf(h)
    BY <1>4, HalfRange, Zenon
  <2>. HIDE DEF h
  <2>. QED BY <2>1, <2>2, WordIs, SMT DEF IsHalf
<1>6. MovedTo(w) \in [VRegByte -> Byte]
  <2>1. rt % 256 \in Byte /\ (rt \div 256) % 256 \in Byte
    BY <1>2, ByteIs
  <2>2. [vr EXCEPT ![16 * w.v + w.e] = rt % 256,
                  ![16 * w.v + w.e + 1] = (rt \div 256) % 256] \in [VRegByte -> Byte]
    BY <1>2, <2>1, TwoBytes, Zenon
  <2>. QED BY <2>2, Zenon DEF MovedTo
<1>. QED BY <1>5, <1>6

(***************************************************************************)
(* The type invariant: every instruction a handler accepts leaves bytes in *)
(* the memories and registers, and 32 bits in the scalar register.         *)
(***************************************************************************)
LEMMA ProgramTyped ==
  ASSUME prog \in Seq(Instruction), pos \in 1 .. Len(prog) + 1, pos \in DOMAIN prog
  PROVE  /\ prog[pos] \in Instruction /\ Address(prog[pos]) \in DMemByte
         /\ pos + 1 \in 1 .. Len(prog) + 1
<1>1. prog[pos] \in Instruction
  OBVIOUS
<1>2. pos + 1 \in 1 .. Len(prog) + 1
  OBVIOUS
<1>. QED BY <1>1, <1>2, AddressTyped

\* Init has memories and registers of bytes.
LEMMA TypeInit == Init => TypeOK
<1>. SUFFICES ASSUME Init PROVE TypeOK
  OBVIOUS
<1>1. prog \in Seq(Instruction)
  BY ProgramsAssumption, Zenon DEF Init
<1>2. pos \in 1 .. Len(prog) + 1
  BY <1>1 DEF Init
<1>3. rt \in Word32
  BY WordIs, SMT DEF Init
<1>. QED BY <1>1, <1>2, <1>3, VectorMemoryAssumption, Zenon DEF Init, TypeOK

\* Every load, store and move keeps the types.
LEMMA TypeStep == TypeOK /\ [Next]_vars => TypeOK'
<1>. SUFFICES ASSUME TypeOK, [Next]_vars PROVE TypeOK'
  OBVIOUS
<1>. DEFINE w == prog[pos]  a == Address(w)
<1>1. Memories /\ prog \in Seq(Instruction) /\ pos \in 1 .. Len(prog) + 1
  BY Zenon DEF TypeOK, Memories
<1>2. mem \in [MemByte -> Byte] /\ vr \in [VRegByte -> Byte] /\ rt \in Word32
  BY Zenon DEF TypeOK
<1>3. pos \in DOMAIN prog =>
        w \in Instruction /\ a \in DMemByte /\ pos + 1 \in 1 .. Len(prog) + 1
  BY <1>1, ProgramTyped, Zenon
<1>4. ASSUME NEW ops, Executes(ops)
      PROVE  /\ pos \in DOMAIN prog /\ w.op \in ops /\ Accepts(w)
             /\ w \in Instruction /\ a \in DMemByte /\ pos + 1 \in 1 .. Len(prog) + 1
  BY <1>3, <1>4, Zenon DEF Executes
<1>5. CASE LoadVector
  <2>1. vr' \in [VRegByte -> Byte]
    BY <1>1, <1>4, <1>5, LoadVectorTyped, Zenon DEF LoadVector
  <2>2. pos' \in 1 .. Len(prog) + 1
    BY <1>4, <1>5, Zenon DEF LoadVector
  <2>. QED BY <1>1, <1>2, <1>5, <2>1, <2>2, Zenon DEF LoadVector, TypeOK
<1>6. CASE StoreVector
  <2>. DEFINE d == 16 * NumVRegs
  <2>1. w.op \in VectorStore \cup ScalarStore
    BY <1>4, <1>6, Zenon DEF StoreVector
  <2>2. mem' \in [MemByte -> Byte]
    BY <1>1, <1>4, <1>6, <2>1, StoredTyped, Zenon DEF StoreVector
  <2>3. w.op = "STV" => Copy(vr, d, Transposed(w), 0, 16) \in [VRegByte -> Byte]
    <3>1. SUFFICES ASSUME w.op = "STV"
                   PROVE  Copy(vr, d, Transposed(w), 0, 16) \in [VRegByte -> Byte]
      OBVIOUS
    <3>2. w \in Instruction /\ Accepts(w)
      BY <1>4, <1>6, Zenon DEF StoreVector
    <3>. HIDE DEF w, d
    <3>3. w.v \in 0 .. NumVRegs - 1 /\ w.e \in 0 .. 15 /\ w.v % 8 = 0
      BY <3>1, <3>2 DEF Instruction, Accepts
    <3>4. Transposed(w) \in [0 .. 15 -> Byte]
      BY <1>2, <3>3, TransposedTyped
    <3>5. d \in Int
      BY Sizes DEF d
    <3>. QED BY <1>2, <3>4, <3>5, WholeCopyTyped, Zenon
  <2>4. vr' \in [VRegByte -> Byte]
    BY <1>2, <1>6, <2>3, Zenon DEF StoreVector
  <2>5. pos' \in 1 .. Len(prog) + 1
    BY <1>4, <1>6, Zenon DEF StoreVector
  <2>. QED BY <1>1, <1>2, <1>6, <2>2, <2>4, <2>5, Zenon DEF StoreVector, TypeOK
<1>7. CASE LoadScalar
  <2>1. rt' \in Word32
    BY <1>1, <1>4, <1>7, LoadedTyped, Zenon DEF LoadScalar
  <2>2. pos' \in 1 .. Len(prog) + 1
    BY <1>4, <1>7, Zenon DEF LoadScalar
  <2>. QED BY <1>1, <1>2, <1>7, <2>1, <2>2, Zenon DEF LoadScalar, TypeOK
<1>8. CASE StoreScalar
  <2>1. w.op \in VectorStore \cup ScalarStore
    BY <1>4, <1>8, Zenon DEF StoreScalar
  <2>2. mem' \in [MemByte -> Byte]
    BY <1>1, <1>4, <1>8, <2>1, StoredTyped, Zenon DEF StoreScalar
  <2>3. pos' \in 1 .. Len(prog) + 1
    BY <1>4, <1>8, Zenon DEF StoreScalar
  <2>. QED BY <1>1, <1>2, <1>8, <2>2, <2>3, Zenon DEF StoreScalar, TypeOK
<1>9. CASE MoveFrom
  <2>1. w.op = "MFC2"
    <3>1. w.op \in {"MFC2"}
      BY <1>4, <1>9, Zenon DEF MoveFrom
    <3>. QED BY <3>1
  <2>2. rt' \in Word32
    BY <1>1, <1>4, <1>9, <2>1, MovedTyped, Zenon DEF MoveFrom
  <2>3. pos' \in 1 .. Len(prog) + 1
    BY <1>4, <1>9, Zenon DEF MoveFrom
  <2>. QED BY <1>1, <1>2, <1>9, <2>2, <2>3, Zenon DEF MoveFrom, TypeOK
<1>10. CASE MoveTo
  <2>1. w.op = "MTC2"
    <3>1. w.op \in {"MTC2"}
      BY <1>4, <1>10, Zenon DEF MoveTo
    <3>. QED BY <3>1
  <2>2. vr' \in [VRegByte -> Byte]
    BY <1>1, <1>4, <1>10, <2>1, MovedTyped, Zenon DEF MoveTo
  <2>3. pos' \in 1 .. Len(prog) + 1
    BY <1>4, <1>10, Zenon DEF MoveTo
  <2>. QED BY <1>1, <1>2, <1>10, <2>2, <2>3, Zenon DEF MoveTo, TypeOK
<1>11. CASE UNCHANGED vars
  BY <1>1, <1>2, <1>11, Zenon DEF vars, TypeOK
<1>. QED BY <1>5, <1>6, <1>7, <1>8, <1>9, <1>10, <1>11, Zenon DEF Next, Stop

\* TypeOK holds of every program (all handlers of Memory.c): no access indexes
\* outside the memories or registers, and none leaves anything but bytes there.
THEOREM MemoryTyped == Spec => []TypeOK
BY TypeInit, TypeStep, PTL DEF Spec

(***************************************************************************)
(* How far an access reaches.                                              *)
(***************************************************************************)
\* A copy changes what it is to change.
LEMMA CopyChanges ==
  ASSUME NEW dest, NEW d, NEW src, NEW t, NEW n, NEW k \in DOMAIN dest,
         Copy(dest, d, src, t, n)[k] # dest[k]
  PROVE  k \in d .. d + n - 1
BY DEF Copy

\* The sixteen bytes from 16 * q on.
LEMMA SixteenBytes ==
  ASSUME NEW q \in Int, NEW k \in Int, 16 * q <= k, k < 16 * q + 16
  PROVE  Line(k) = 16 * q /\ k \div 16 = q
<1>1. k = 16 * (k \div 16) + (k % 16) /\ k % 16 \in 0 .. 15 /\ k \div 16 \in Int
  OBVIOUS
<1>2. k \div 16 = q
  BY <1>1
<1>. QED BY <1>1, <1>2 DEF Line

\* An aligned access of n bytes stays in its line.
LEMMA AlignedFits ==
  ASSUME NEW a \in Nat, NEW n \in {1, 2, 4, 8, 16}, a % n = 0
  PROVE  Start(a, 16) + n <= 16
<1>. DEFINE q == a \div 16  r == a % 16
<1>1. a = 16 * q + r /\ q \in Int /\ r \in Int /\ 0 <= r /\ r < 16
  OBVIOUS
<1>2. a = n * (a \div n) /\ a \div n \in Int
  BY DivMod
<1>. DEFINE m == a \div n
<1>3. a = n * m /\ m \in Int
  BY <1>2
<1>. HIDE DEF q, r, m
<1>4. r + n <= 16
  BY <1>1, <1>3
<1>. QED BY <1>4 DEF Start, r

\* What a store changes in memory.
LEMMA StoreChanges ==
  ASSUME Memories, NEW w \in Instruction, w.op \in VectorStore \cup ScalarStore,
         Accepts(w), NEW a \in DMemByte, a = Address(w),
         NEW k \in MemByte, StoredMem(w, a)[k] # mem[k]
  PROVE  /\ a <= k
         /\ k < IF w.op = "SQV" THEN a + 16 - Start(a, 16) ELSE a + Size(w.op)
<1>1. mem \in [MemByte -> Byte] /\ k \in Int /\ a \in Nat /\ k \in DOMAIN mem
  BY IndexSets, LinesInMemory DEF Memories
<1>2. CASE w.op \in {"SBV", "SB"}
  <2>1. k = a
    BY <1>1, <1>2 DEF StoredMem
  <2>2. Size(w.op) = 1
    BY <1>2 DEF Size
  <2>. QED BY <1>1, <1>2, <2>1, <2>2
<1>3. ASSUME NEW src, NEW t, NEW n \in Int, StoredMem(w, a) = Copy(mem, a, src, t, n)
      PROVE  a <= k /\ k < a + n
  <2>1. k \in a .. a + n - 1
    BY <1>1, <1>3, CopyChanges
  <2>. QED BY <1>1, <1>3, <2>1
<1>4. CASE w.op = "SSV"
  <2>1. StoredMem(w, a) = Copy(mem, a, Register(w.v), w.e, 2) /\ Size(w.op) = 2
    BY <1>4 DEF StoredMem, Size, Unit
  <2>. QED BY <1>3, <1>4, <2>1
<1>5. CASE w.op = "SLV"
  <2>1. StoredMem(w, a) = Copy(mem, a, Register(w.v), w.e, 4) /\ Size(w.op) = 4
    BY <1>5 DEF StoredMem, Size, Unit
  <2>. QED BY <1>3, <1>5, <2>1
<1>6. CASE w.op = "SDV"
  <2>1. StoredMem(w, a) = Copy(mem, a, Register(w.v), w.e, 8) /\ Size(w.op) = 8
    BY <1>6 DEF StoredMem, Size, Unit
  <2>. QED BY <1>3, <1>6, <2>1
<1>7. CASE w.op = "SQV"
  <2>. DEFINE n == 16 - Start(a, 16)
  <2>1. StoredMem(w, a) = Copy(mem, a, Register(w.v), 0, n)
    BY <1>7 DEF StoredMem, StoreQuadVector
  <2>2. n \in Int /\ Start(a, 16) \in Int
    BY LineOf
  <2>3. a <= k /\ k < a + n
    BY <1>3, <2>1, <2>2
  <2>. QED BY <1>1, <1>7, <2>2, <2>3
<1>8. CASE w.op \in {"SPV", "SUV"}
  <2>1. /\ \E src : StoredMem(w, a) = Copy(mem, a, src, 0, 8)
        /\ Size(w.op) = 8
    BY <1>8 DEF StoredMem, StorePackedBytes, StorePackedUBytes, Size, Unit
  <2>. QED BY <1>3, <1>8, <2>1
<1>9. CASE w.op = "STV"
  <2>1. /\ StoredMem(w, a) = Copy(mem, a, Swapped(Transposed(w), 0), 0, 16)
        /\ Size(w.op) = 16
    BY <1>9 DEF StoredMem, Size, Unit
  <2>. QED BY <1>3, <1>9, <2>1
<1>10. CASE w.op = "SH"
  <2>1. StoredMem(w, a) = StoreHalf(a) /\ Size(w.op) = 2
    BY <1>10 DEF StoredMem, Size
  <2>2. k \in {a, a + 1}
    BY <1>1, <2>1 DEF StoreHalf
  <2>. QED BY <1>1, <1>10, <2>1, <2>2
<1>11. CASE w.op = "SW"
  <2>1. StoredMem(w, a) = Copy(mem, a, WordBytes, 1, 4) /\ Size(w.op) = 4
    BY <1>11 DEF StoredMem, Size
  <2>. QED BY <1>3, <1>11, <2>1
<1>. QED BY <1>2, <1>4, <1>5, <1>6, <1>7, <1>8, <1>9, <1>10, <1>11
         DEF VectorStore, ScalarStore

\* A store that is aligned, or SQV, stays in the line of its address.
LEMMA StoreInLine ==
  ASSUME Memories, NEW w \in Instruction, w.op \in VectorStore \cup ScalarStore,
         Accepts(w), Aligned(w) \/ w.op = "SQV",
         NEW a \in DMemByte, a = Address(w),
         NEW k \in MemByte, StoredMem(w, a)[k] # mem[k]
  PROVE  Line(k) = Line(a)
<1>1. /\ a <= k
      /\ k < IF w.op = "SQV" THEN a + 16 - Start(a, 16) ELSE a + Size(w.op)
  BY StoreChanges
<1>2. Size(w.op) \in {1, 2, 4, 8, 16}
  BY DEF Size, Unit, VectorStore, ScalarStore
<1>3. a \in Nat /\ k \in Int /\ Start(a, 16) \in Int
  BY IndexSets, LinesInMemory, LineOf
<1>4. w.op # "SQV" => Start(a, 16) + Size(w.op) <= 16
  BY <1>2, <1>3, AlignedFits DEF Aligned
<1>5. a <= k /\ k < a - Start(a, 16) + 16
  BY <1>1, <1>2, <1>3, <1>4
<1>. DEFINE q == a \div 16
<1>6. q \in Int /\ a - Start(a, 16) = 16 * q /\ Start(a, 16) >= 0 /\ Line(a) = 16 * q
  BY <1>3 DEF Start, Line
<1>. HIDE DEF q
<1>7. 16 * q <= k /\ k < 16 * q + 16
  BY <1>3, <1>5, <1>6
<1>. QED BY <1>3, <1>6, <1>7, SixteenBytes

\* What a load from an even address changes in the vector registers.
LEMMA LoadChanges ==
  ASSUME Memories, NEW w \in Instruction, w.op \in VectorLoad, Accepts(w),
         NEW a \in DMemByte, a = Address(w), a % 2 = 0,
         NEW k \in VRegByte, LoadedVRegs(w, a)[k] # vr[k]
  PROVE  /\ 16 * w.v <= k
         /\ k < IF w.op = "LTV" THEN 16 * (w.v + 8) ELSE 16 * w.v + 16
<1>1. /\ vr \in [VRegByte -> Byte] /\ k \in Int /\ k \in DOMAIN vr
      /\ w.v \in Int /\ w.e \in 0 .. 15 /\ a \in Nat
  BY IndexSets, LinesInMemory, Sizes DEF Memories, Instruction
<1>. DEFINE d == 16 * w.v
<1>2. d \in Int
  BY <1>1
<1>3. ASSUME NEW x \in Int, NEW src, NEW t, NEW n \in Int, d <= x, x + n <= d + 16,
             LoadedVRegs(w, a) = Copy(vr, x, src, t, n)
      PROVE  d <= k /\ k < d + 16
  <2>1. k \in x .. x + n - 1
    BY <1>1, <1>3, CopyChanges
  <2>. HIDE DEF d
  <2>. QED BY <1>1, <1>2, <1>3, <2>1
<1>4. CASE w.op = "LBV"
  <2>1. k = d + Other(w.e)
    BY <1>1, <1>4 DEF LoadedVRegs, LoadByteVector
  <2>. QED BY <1>1, <1>2, <1>4, <2>1, OtherInside
<1>5. CASE w.op \in {"LSV", "LLV", "LDV"}
  <2>1. \E src, t : LoadedVRegs(w, a) = Copy(vr, d + w.e, src, t, Unit(w.op))
    BY <1>5 DEF LoadedVRegs, LoadPart, Unit
  <2>2. Unit(w.op) \in Int /\ w.e + Unit(w.op) <= 16 /\ 0 <= w.e
    BY <1>1, <1>5 DEF Unit, Accepts
  <2>3. d + w.e \in Int /\ d <= d + w.e /\ (d + w.e) + Unit(w.op) <= d + 16
    BY <1>1, <1>2, <2>2
  <2>4. d <= k /\ k < d + 16
    BY <1>3, <2>1, <2>2, <2>3
  <2>. QED BY <1>5, <2>4
<1>6. CASE w.op = "LQV"
  <2>. DEFINE n == 16 - Start(a, 16)
  <2>1. LoadedVRegs(w, a) = Copy(vr, d, Swapped(mem, Line(a)), Slice(Start(a, 16)), n)
    BY <1>6 DEF LoadedVRegs, LoadQuadVector
  <2>2. n \in Int /\ n <= 16
    BY LineOf
  <2>3. d <= k /\ k < d + 16
    BY <1>2, <1>3, <2>1, <2>2
  <2>. QED BY <1>6, <2>3
<1>7. CASE w.op = "LRV"
  <2>. DEFINE n == Start(a, 16)  x == d + 16 - Slice(n)
  <2>1. LoadedVRegs(w, a) = Copy(vr, x, Swapped(mem, Line(a)), 0, n)
    BY <1>7 DEF LoadedVRegs, LoadRestVector
  <2>2. n \in 0 .. 15 /\ n % 2 = 0
    BY <1>1, LineOf DEF Start
  <2>3. Slice(n) = n
    BY <2>2 DEF Slice
  <2>. HIDE DEF d
  <2>4. x \in Int /\ d <= x /\ x + n <= d + 16 /\ n \in Int
    BY <1>2, <2>2, <2>3
  <2>5. d <= k /\ k < d + 16
    BY <1>3, <2>1, <2>4
  <2>. QED BY <1>7, <2>5 DEF d
<1>8. CASE w.op \in {"LPV", "LUV"}
  <2>. DEFINE n == 16
  <2>1. n \in Int /\ d + n <= d + 16
    BY <1>2
  <2>2. \E src : LoadedVRegs(w, a) = Copy(vr, d, src, 0, n)
    BY <1>8 DEF LoadedVRegs, LoadPackedBytes, LoadPackedUBytes
  <2>. HIDE DEF n
  <2>3. d <= k /\ k < d + 16
    BY <1>2, <1>3, <2>1, <2>2
  <2>. QED BY <1>8, <2>3
<1>9. CASE w.op = "LTV"
  <2>. DEFINE At(i) == 16 * (w.v + i) + 2 * Lane(w, i)
  <2>1. PICK i \in 0 .. 7 : k \in {At(i), At(i) + 1}
    BY <1>1, <1>9 DEF LoadedVRegs, LoadTransposeVector
  <2>2. Lane(w, i) \in Int /\ 0 <= Lane(w, i) /\ Lane(w, i) <= IF i = 0 THEN 8 ELSE 7
    <3>. DEFINE e == w.e \div 2  x == 8 - e + i
    <3>1. e \in Int /\ 0 <= e /\ e <= 7
      BY <1>1
    <3>. HIDE DEF e
    <3>2. x \in Int /\ (i = 0 => 0 <= 8 - e /\ 8 - e <= 8 /\ 8 - e \in Int)
      BY <2>1, <3>1
    <3>. HIDE DEF x
    <3>3. x % 8 \in Int /\ 0 <= x % 8 /\ x % 8 <= 7
      BY <3>2
    <3>4. Lane(w, i) = IF i = 0 THEN 8 - e ELSE x % 8
      BY DEF Lane, e, x
    <3>. QED BY <3>2, <3>3, <3>4
  <2>. DEFINE l == Lane(w, i)  v == w.v
  <2>3. k = 16 * (v + i) + 2 * l \/ k = 16 * (v + i) + 2 * l + 1
    BY <2>1
  <2>4. v \in Int /\ l \in Int /\ i \in Int /\ 0 <= i /\ i <= 7
        /\ 0 <= l /\ l <= IF i = 0 THEN 8 ELSE 7
    BY <1>1, <2>1, <2>2
  <2>. HIDE DEF l, v
  <2>5. 16 * v <= k /\ k < 16 * (v + 8)
    BY <2>3, <2>4
  <2>. QED BY <1>9, <2>5 DEF v
<1>. QED BY <1>4, <1>5, <1>6, <1>7, <1>8, <1>9 DEF VectorLoad

\* The register a byte of the register file belongs to.
LEMMA RegisterOf ==
  ASSUME NEW v \in Int, NEW n \in Nat, NEW k \in Int,
         16 * v <= k, k < 16 * (v + n)
  PROVE  k \div 16 \in v .. v + n - 1
<1>1. k = 16 * (k \div 16) + (k % 16) /\ k % 16 \in 0 .. 15 /\ k \div 16 \in Int
  OBVIOUS
<1>. DEFINE q == k \div 16  r == k % 16
<1>2. k = 16 * q + r /\ 0 <= r /\ r <= 15 /\ q \in Int /\ r \in Int
  BY <1>1
<1>. HIDE DEF q, r
<1>3. v <= q /\ q <= v + n - 1
  BY <1>2
<1>4. q \in v .. v + n - 1
  BY <1>2, <1>3
<1>. QED BY <1>4 DEF q

\* AccessStaysInside of one instruction w, at address a.
StaysInside(w, a) ==
  LET target == IF w.op = "LTV" THEN w.v .. w.v + 7
                ELSE IF w.op = "STV" THEN {NumVRegs} ELSE {w.v} IN
  /\ Aligned(w) \/ w.op = "SQV" =>
       \A k \in MemByte : mem'[k] # mem[k] => Line(k) = Line(a)
  /\ a % 2 = 0 =>
       \A k \in VRegByte : vr'[k] # vr[k] => k \div 16 \in target

\* No step reaches further than its access.
LEMMA StepStaysInside ==
  ASSUME TypeOK, Next, NEW w, w = prog[pos], pos \in DOMAIN prog,
         NEW a, a = Address(w)
  PROVE  StaysInside(w, a)
<1>1. Memories /\ w \in Instruction /\ a \in DMemByte
  BY ProgramTyped, Zenon DEF TypeOK, Memories
<1>2. w.v \in Int
  BY <1>1, Sizes DEF Instruction
<1>3. CASE LoadVector
  <2>1. w.op \in VectorLoad /\ Accepts(w) /\ mem' = mem /\ vr' = LoadedVRegs(w, a)
    BY <1>3, Zenon DEF LoadVector, Executes
  <2>2. w.op # "STV"
    BY <2>1 DEF VectorLoad
  <2>3. ASSUME a % 2 = 0, NEW k \in VRegByte, vr'[k] # vr[k]
        PROVE  k \div 16 \in IF w.op = "LTV" THEN w.v .. w.v + 7 ELSE {w.v}
    <3>1. /\ 16 * w.v <= k
          /\ k < IF w.op = "LTV" THEN 16 * (w.v + 8) ELSE 16 * w.v + 16
      BY <1>1, <2>1, <2>3, LoadChanges
    <3>. DEFINE n == IF w.op = "LTV" THEN 8 ELSE 1  v == w.v
    <3>2. n \in Nat /\ v \in Int /\ k \in Int /\ 16 * v <= k
      BY <1>2, <3>1, IndexSets
    <3>3. k < 16 * (v + n)
      BY <1>2, <3>1
    <3>. HIDE DEF v, n
    <3>4. k \div 16 \in v .. v + n - 1
      BY <3>2, <3>3, RegisterOf
    <3>5. n = 8 => v + n - 1 = v + 7
      BY <3>2
    <3>6. n = 1 => v .. v + n - 1 = {v}
      BY <3>2
    <3>. QED BY <3>4, <3>5, <3>6 DEF v, n
  <2>. QED BY <2>1, <2>2, <2>3 DEF StaysInside
<1>4. CASE StoreVector
  <2>1. w.op \in VectorStore /\ Accepts(w) /\ mem' = StoredMem(w, a)
    BY <1>4, Zenon DEF StoreVector, Executes
  <2>2. vr' = IF w.op = "STV"
              THEN Copy(vr, 16 * NumVRegs, Transposed(w), 0, 16) ELSE vr
    BY <1>4, Zenon DEF StoreVector
  <2>3. w.op # "LTV"
    BY <2>1 DEF VectorStore
  <2>4. ASSUME NEW k \in VRegByte, vr'[k] # vr[k]
        PROVE  w.op = "STV" /\ k \div 16 = NumVRegs
    <3>1. w.op = "STV"
      BY <2>2, <2>4, Zenon
    <3>. DEFINE d == 16 * NumVRegs  n == 16
    <3>2. vr' = Copy(vr, d, Transposed(w), 0, n)
      BY <2>2, <3>1, Zenon
    <3>3. k \in DOMAIN vr
      BY <1>1 DEF Memories
    <3>. HIDE DEF d, n
    <3>4. k \in d .. d + n - 1
      BY <2>4, <3>2, <3>3, CopyChanges, Zenon
    <3>5. k \in Int /\ NumVRegs \in Int /\ 16 * NumVRegs <= k /\ k < 16 * NumVRegs + 16
      BY <3>4, IndexSets, Sizes DEF d, n
    <3>. QED BY <3>1, <3>5, SixteenBytes
  <2>5. ASSUME Aligned(w) \/ w.op = "SQV", NEW k \in MemByte, mem'[k] # mem[k]
        PROVE  Line(k) = Line(a)
    BY <1>1, <2>1, <2>5, StoreInLine
  <2>. QED BY <2>3, <2>4, <2>5 DEF StaysInside
<1>5. CASE StoreScalar
  <2>1. w.op \in ScalarStore /\ Accepts(w) /\ mem' = StoredMem(w, a) /\ vr' = vr
    BY <1>5, Zenon DEF StoreScalar, Executes
  <2>2. ASSUME Aligned(w) \/ w.op = "SQV", NEW k \in MemByte, mem'[k] # mem[k]
        PROVE  Line(k) = Line(a)
    BY <1>1, <2>1, <2>2, StoreInLine
  <2>. QED BY <2>1, <2>2 DEF StaysInside
<1>6. CASE MoveTo
  <2>1. w.op \in {"MTC2"} /\ Accepts(w) /\ mem' = mem /\ vr' = MovedTo(w)
    BY <1>6, Zenon DEF MoveTo, Executes
  <2>2. w.op = "MTC2" /\ w.e % 2 = 0 /\ w.e \in 0 .. 15
    BY <1>1, <2>1 DEF Accepts, Instruction
  <2>3. ASSUME NEW k \in VRegByte, vr'[k] # vr[k] PROVE k \div 16 = w.v
    <3>1. k \in {16 * w.v + w.e, 16 * w.v + w.e + 1}
      BY <1>1, <2>1, <2>3 DEF MovedTo, Memories
    <3>. DEFINE v == w.v  e == w.e
    <3>2. e \in Int /\ 0 <= e /\ e + 1 <= 15 /\ v \in Int
      BY <1>2, <2>2
    <3>. HIDE DEF v, e
    <3>3. k \in {16 * v + e, 16 * v + e + 1}
      BY <3>1, Zenon DEF v, e
    <3>4. k \in Int /\ 16 * v <= k /\ k < 16 * v + 16
      BY <3>2, <3>3
    <3>. QED BY <3>2, <3>4, SixteenBytes DEF v
  <2>. QED BY <2>1, <2>2, <2>3 DEF StaysInside
<1>7. CASE LoadScalar \/ MoveFrom \/ Stop
  <2>1. mem' = mem /\ vr' = vr
    BY <1>7, Zenon DEF LoadScalar, MoveFrom, Stop, vars
  <2>. QED BY <2>1 DEF StaysInside
<1>. QED BY <1>3, <1>4, <1>5, <1>6, <1>7, Zenon DEF Next

\* AccessStaysInside holds of every program: no store reaches out of its line,
\* no load out of its register or group, wherever in DMEM they are.
THEOREM AccessesConfined == Spec => AccessStaysInside
<1>1. TypeOK /\ [Next]_vars
        => [LET w == prog[pos]
                target == IF w.op = "LTV" THEN w.v .. w.v + 7
                          ELSE IF w.op = "STV" THEN {NumVRegs} ELSE {w.v} IN
            pos \in DOMAIN prog =>
              /\ Aligned(w) \/ w.op = "SQV" =>
                   \A k \in MemByte : mem'[k] # mem[k] => Line(k) = Line(Address(w))
              /\ Address(w) % 2 = 0 =>
                   \A k \in VRegByte : vr'[k] # vr[k] => k \div 16 \in target]_vars
  BY StepStaysInside DEF StaysInside
<1>. QED BY <1>1, MemoryTyped, PTL DEF Spec, AccessStaysInside

(***************************************************************************)
(* Programs of two and three instructions.  First, which store belongs to  *)
(* which load.                                                             *)
(***************************************************************************)
\* The tables of the decoder, as far as StoreOf reads them.
LEMMA DecodedLoads ==
  /\ Load(0) = "LBV" /\ Load(1) = "LSV" /\ Load(2) = "LLV" /\ Load(3) = "LDV"
  /\ Load(4) = "LQV" /\ Load(5) = "LRV" /\ Load(6) = "LPV" /\ Load(7) = "LUV"
  /\ \A f \in 8 .. 31 : Load(f) \in {"LHV", "LFV", "LTV", "INV"}
<1>1. \A f : Load(f) = Entry(LWC2OpcodeTable, f)
  BY DEF Load, RSPDecodeInstruction, VectorMemoryWord
<1>. DEFINE N == <<"LBV", "LSV", "LLV", "LDV", "LQV", "LRV", "LPV", "LUV">>
            O == <<"LHV", "LFV", "INV", "LTV", "INV", "INV", "INV", "INV">>
<1>2. /\ LWC2OpcodeTable[1] = Row(N) /\ LWC2OpcodeTable[2] = Row(O)
      /\ LWC2OpcodeTable[3] = Reserved /\ LWC2OpcodeTable[4] = Reserved
  BY DEF LWC2OpcodeTable
<1>3. \A n \in 0 .. 7 : Row(N)[n] = N[n + 1] /\ Row(O)[n] = O[n + 1] /\ Reserved[n] = "INV"
  BY DEF Row, Reserved
<1>4. /\ \A f \in 0 .. 7 : f \div 8 + 1 = 1 /\ f % 8 = f
      /\ \A f \in 8 .. 31 : f \div 8 + 1 \in {2, 3, 4} /\ f % 8 \in 0 .. 7
  OBVIOUS
<1>5. \A f \in 0 .. 7 : Load(f) = N[f + 1]
  <2>. HIDE DEF N
  <2>. QED BY <1>1, <1>2, <1>3, <1>4 DEF Entry
<1>6. \A n \in 0 .. 7 : O[n + 1] \in {"LHV", "LFV", "LTV", "INV"}
  OBVIOUS
<1>7. \A f \in 8 .. 31 : Load(f) \in {"LHV", "LFV", "LTV", "INV"}
  <2>. HIDE DEF O
  <2>1. SUFFICES ASSUME NEW f \in 8 .. 31
                 PROVE  Load(f) \in {"LHV", "LFV", "LTV", "INV"}
    OBVIOUS
  <2>. DEFINE r == f \div 8 + 1  n == f % 8
  <2>2. r \in {2, 3, 4} /\ n \in 0 .. 7 /\ Load(f) = LWC2OpcodeTable[r][n]
    BY <1>1, <1>4 DEF Entry
  <2>. HIDE DEF r, n
  <2>3. Load(f) = Row(O)[n] \/ Load(f) = Reserved[n]
    BY <1>2, <2>2
  <2>. QED BY <1>3, <1>6, <2>2, <2>3
<1>. QED BY <1>5, <1>7

\* The stores by their function numbers.
LEMMA DecodedStores ==
  /\ Store(0) = "SBV" /\ Store(1) = "SSV" /\ Store(2) = "SLV" /\ Store(3) = "SDV"
  /\ Store(4) = "SQV" /\ Store(6) = "SPV" /\ Store(7) = "SUV"
<1>1. \A f : Store(f) = Entry(SWC2OpcodeTable, f)
  BY DEF Store, RSPDecodeInstruction, VectorMemoryWord
<1>. DEFINE N == <<"SBV", "SSV", "SLV", "SDV", "SQV", "SRV", "SPV", "SUV">>
<1>2. SWC2OpcodeTable[1] = Row(N)
  BY DEF SWC2OpcodeTable
<1>3. \A n \in 0 .. 7 : Row(N)[n] = N[n + 1]
  BY DEF Row
<1>4. \A f \in 0 .. 7 : f \div 8 + 1 = 1 /\ f % 8 = f
  OBVIOUS
<1>5. \A f \in 0 .. 7 : Store(f) = N[f + 1]
  <2>. HIDE DEF N
  <2>. QED BY <1>1, <1>2, <1>3, <1>4 DEF Entry
<1>. QED BY <1>5

\* Each load and its store have the same function number.
LEMMA StoreOfIs ==
  /\ StoreOf["LBV"] = "SBV" /\ StoreOf["LSV"] = "SSV" /\ StoreOf["LLV"] = "SLV"
  /\ StoreOf["LDV"] = "SDV" /\ StoreOf["LQV"] = "SQV" /\ StoreOf["LPV"] = "SPV"
  /\ StoreOf["LUV"] = "SUV" /\ StoreOf["LB"] = "SB" /\ StoreOf["LBU"] = "SB"
  /\ StoreOf["LH"] = "SH" /\ StoreOf["LHU"] = "SH" /\ StoreOf["LW"] = "SW"
  /\ DOMAIN StoreOf = {"LBV", "LSV", "LLV", "LDV", "LQV", "LPV", "LUV",
                       "LB", "LBU", "LH", "LHU", "LW"}
<1>1. ASSUME NEW f \in 0 .. 7, NEW load, load = Load(f)
      PROVE  VectorStoreOf(load) = Store(f)
  <2>. DEFINE c == CHOOSE g \in 0 .. 31 : Load(g) = load
  <2>1. c \in 0 .. 31 /\ Load(c) = load
    BY <1>1
  <2>. HIDE DEF c
  <2>2. c \in 0 .. 7
    <3>1. Load(c) \notin {"LHV", "LFV", "LTV", "INV"}
      BY <1>1, <2>1, DecodedLoads
    <3>. QED BY <2>1, <3>1, DecodedLoads
  <2>3. c = f
    BY <1>1, <2>1, <2>2, DecodedLoads
  <2>. QED BY <2>3 DEF VectorStoreOf, c
<1>2. /\ VectorStoreOf("LBV") = "SBV" /\ VectorStoreOf("LSV") = "SSV"
      /\ VectorStoreOf("LLV") = "SLV" /\ VectorStoreOf("LDV") = "SDV"
      /\ VectorStoreOf("LQV") = "SQV" /\ VectorStoreOf("LPV") = "SPV"
      /\ VectorStoreOf("LUV") = "SUV"
  BY <1>1, DecodedLoads, DecodedStores
<1>. QED BY <1>2 DEF StoreOf, ScalarStoreOf

(***************************************************************************)
(* Registers in the order of DMEM.                                         *)
(***************************************************************************)
\* A copy of whole slices, seen in the order of DMEM: bytes of memory, in order.
CopiedAt(V, M, d, l, e, t, n, k) ==
  Swapped(Copy(V, d + e, Swapped(M, l), t, n), d)[k]
    = IF e <= k /\ k < e + n THEN M[l + t + k - e] ELSE Swapped(V, d)[k]

\* Bytes copied into a register from memory, both in the order of DMEM.
LEMMA SwappedCopy ==
  ASSUME NEW S, NEW V \in [S -> Byte], NEW M, NEW d \in Int, NEW l \in Int,
         NEW e \in Nat, NEW t \in Nat, NEW n \in Nat,
         e % 2 = 0, t % 2 = 0, n % 2 = 0, e + n <= 16, t + n <= 16,
         d .. d + 15 \subseteq S, NEW k \in 0 .. 15
  PROVE  CopiedAt(V, M, d, l, e, t, n, k)
<1>. DEFINE o == Other(k)  W == Copy(V, d + e, Swapped(M, l), t, n)
<1>1. o \in Int /\ o \in 0 .. 15 /\ k \in Int
  BY DEF Other
<1>2. (e <= k /\ k < e + n) <=> (e <= o /\ o < e + n)
  BY DEF Other
<1>3. Swapped(W, d)[k] = W[d + o] /\ Swapped(V, d)[k] = V[d + o]
  BY DEF Swapped
<1>4. d + o \in S
  BY <1>1
<1>5. W[d + o] = IF d + o \in (d + e) .. (d + e) + n - 1
                 THEN Swapped(M, l)[t + (d + o) - (d + e)] ELSE V[d + o]
  BY <1>4 DEF Copy
<1>6. d + o \in (d + e) .. (d + e) + n - 1 <=> e <= o /\ o < e + n
  <2>. HIDE DEF o
  <2>. QED BY <1>1
<1>7. t + (d + o) - (d + e) = t + o - e
  <2>. HIDE DEF o
  <2>. QED BY <1>1
<1>8. ASSUME e <= k, k < e + n PROVE Swapped(M, l)[t + o - e] = M[l + t + k - e]
  <2>1. t + o - e \in 0 .. 15
    <3>. HIDE DEF o
    <3>. QED BY <1>1, <1>2, <1>8
  <2>2. Other(t + o - e) = t + k - e
    BY <1>8 DEF Other
  <2>3. Swapped(M, l)[t + o - e] = M[l + Other(t + o - e)]
    <3>. HIDE DEF o
    <3>. QED BY <2>1 DEF Swapped
  <2>4. l + (t + k - e) = l + t + k - e
    BY <1>1
  <2>. QED BY <2>2, <2>3, <2>4
<1>. HIDE DEF o, W
<1>9. CASE e <= k /\ k < e + n
  BY <1>2, <1>3, <1>5, <1>6, <1>7, <1>8, <1>9 DEF W, CopiedAt
<1>10. CASE ~(e <= k /\ k < e + n)
  BY <1>2, <1>3, <1>5, <1>6, <1>10 DEF W, CopiedAt
<1>. QED BY <1>9, <1>10

(***************************************************************************)
(* What a load leaves in a register, and a store in memory: that the bytes *)
(* of memory at the address and those of the register agree.               *)
(***************************************************************************)
PlainLoad == {"LBV", "LSV", "LLV", "LDV", "LQV"}
PlainStore == {"SBV", "SSV", "SLV", "SDV", "SQV"}

\* The bytes an instruction with op is about, at address a.
Part(op, a) ==
  CASE op \in {"LBV", "SBV"} -> 1
    [] op \in {"LSV", "SSV"} -> 2
    [] op \in {"LLV", "SLV"} -> 4
    [] op \in {"LDV", "SDV"} -> 8
    [] op \in {"LQV", "SQV"} -> 16 - Start(a, 16)

Agree(M, V, w, a) ==
  \A i \in 0 .. Part(w.op, a) - 1 : Swapped(V, 16 * w.v)[w.e + i] = M[a + i]

Fits(w) ==
  /\ w.op \in {"LSV", "LLV"} => Aligned(w)
  /\ w.op = "LQV" => Address(w) % 2 = 0

\* The part an access is about lies in its register and in memory.
LEMMA PartIs ==
  ASSUME NEW w \in Instruction, w.op \in PlainLoad \cup PlainStore, Accepts(w),
         NEW a \in DMemByte, a = Address(w)
  PROVE  /\ Part(w.op, a) \in 1 .. 16 /\ w.e \in 0 .. 15
         /\ w.op # "SBV" => w.e + Part(w.op, a) <= 16
         /\ \A i \in 0 .. Part(w.op, a) - 1 : a + i \in MemByte /\ a + i \in Int
<1>1. w.e \in 0 .. 15 /\ Start(a, 16) \in 0 .. 15
  BY LineOf DEF Instruction
<1>2. Part(w.op, a) \in 1 .. 16
  <2>1. 16 - Start(a, 16) \in 1 .. 16
    BY <1>1
  <2>. QED BY <2>1 DEF Part, PlainLoad, PlainStore
<1>3. w.e + Part(w.op, a) <= 16
  BY <1>1 DEF Part, PlainLoad, PlainStore, Accepts
<1>4. \A i \in 0 .. Part(w.op, a) - 1 : a + i \in a .. a + 15
  <2>1. a \in Int
    BY LinesInMemory
  <2>. DEFINE n == Part(w.op, a)
  <2>2. n \in Int /\ n <= 16
    BY <1>2
  <2>. HIDE DEF n
  <2>3. \A i \in 0 .. n - 1 : a + i \in a .. a + 15
    BY <2>1, <2>2
  <2>. QED BY <2>3 DEF n
<1>. QED BY <1>1, <1>2, <1>3, <1>4, LinesInMemory, IndexSets

\* A load puts the bytes of memory in the register it loads, in order, and
\* leaves the rest of it.
LEMMA LoadGives ==
  ASSUME Memories, NEW w \in Instruction, w.op \in PlainLoad, Accepts(w), Fits(w),
         NEW a \in DMemByte, a = Address(w), NEW k \in 0 .. 15
  PROVE  Swapped(LoadedVRegs(w, a), 16 * w.v)[k]
           = IF w.e <= k /\ k < w.e + Part(w.op, a) THEN mem[a + (k - w.e)]
             ELSE Register(w.v)[k]
<1>. DEFINE d == 16 * w.v
<1>1. /\ vr \in [VRegByte -> Byte] /\ mem \in [MemByte -> Byte]
      /\ w.v \in 0 .. NumVRegs - 1 /\ w.e \in 0 .. 15 /\ d \in Int /\ a \in Nat
      /\ d .. d + 15 \subseteq VRegByte /\ w.e \in Nat
  <2>1. w.v \in 0 .. NumVRegs - 1 /\ w.e \in 0 .. 15
    BY DEF Instruction
  <2>2. d \in Int /\ d .. d + 15 \subseteq VRegByte
    BY <2>1, Sizes DEF VRegByte
  <2>. QED BY <2>1, <2>2, LinesInMemory DEF Memories
<1>2. ASSUME NEW l \in Int, NEW t \in Nat, NEW n \in Nat, NEW e \in Nat, e = w.e,
             e % 2 = 0, t % 2 = 0, n % 2 = 0, e + n <= 16, t + n <= 16,
             l + t = a, LoadedVRegs(w, a) = Copy(vr, d + e, Swapped(mem, l), t, n)
      PROVE  Swapped(LoadedVRegs(w, a), d)[k]
               = IF e <= k /\ k < e + n THEN mem[a + (k - e)] ELSE Register(w.v)[k]
  <2>1. l + t + k - e = a + (k - e)
    BY <1>2
  <2>2. Swapped(LoadedVRegs(w, a), d)[k]
          = IF e <= k /\ k < e + n THEN mem[l + t + k - e] ELSE Swapped(vr, d)[k]
    <3>. HIDE DEF d
    <3>1. CopiedAt(vr, mem, d, l, e, t, n, k)
      BY <1>1, <1>2, SwappedCopy
    <3>. QED BY <1>2, <3>1 DEF CopiedAt
  <2>. QED BY <2>1, <2>2 DEF Register
<1>3. CASE w.op = "LBV"
  <2>1. LoadedVRegs(w, a) = [vr EXCEPT ![d + Other(w.e)] = mem[a]] /\ Part(w.op, a) = 1
    BY <1>3 DEF LoadedVRegs, LoadByteVector, Part
  <2>2. /\ Other(k) \in 0 .. 15 /\ Other(w.e) \in 0 .. 15
        /\ Other(k) = Other(w.e) <=> k = w.e
    BY <1>1, OtherInside
  <2>3. d + Other(k) \in VRegByte
    BY <1>1, <2>2
  <2>4. d + Other(k) = d + Other(w.e) <=> k = w.e
    <3>. HIDE DEF d
    <3>. QED BY <1>1, <2>2
  <2>5. Swapped(LoadedVRegs(w, a), d)[k] = IF k = w.e THEN mem[a] ELSE vr[d + Other(k)]
    <3>. HIDE DEF d
    <3>. QED BY <1>1, <2>1, <2>3, <2>4 DEF Swapped
  <2>6. Register(w.v)[k] = vr[d + Other(k)]
    BY DEF Register, Swapped
  <2>7. w.e <= k /\ k < w.e + 1 <=> k = w.e
    BY <1>1
  <2>8. k = w.e => a + (k - w.e) = a
    BY <1>1
  <2>. HIDE DEF d
  <2>. QED BY <2>1, <2>5, <2>6, <2>7, <2>8 DEF d
<1>4. CASE w.op \in {"LSV", "LLV", "LDV"}
  <2>. DEFINE n == Unit(w.op)  t == 0  e == w.e
  <2>1. /\ n = Part(w.op, a) /\ n = Size(w.op) /\ n \in {2, 4, 8}
        /\ e % 2 = 0 /\ e + n <= 16 /\ e \in Nat
    BY <1>1, <1>4 DEF Unit, Part, Accepts, Size
  <2>2. w.op # "LDV" => Start(a, n) = 0
    BY <1>4, <2>1 DEF Fits, Aligned, Start
  <2>3. LoadedVRegs(w, a)
          = Copy(vr, d + e, Swapped(mem, a), IF n = 8 THEN 0 ELSE Start(a, n), n)
    BY <1>4 DEF LoadedVRegs, LoadPart, Unit
  <2>4. n = 8 <=> w.op = "LDV"
    BY <1>4 DEF Unit
  <2>5. (IF n = 8 THEN 0 ELSE Start(a, n)) = t
    BY <2>2, <2>4
  <2>6. LoadedVRegs(w, a) = Copy(vr, d + e, Swapped(mem, a), t, n)
    BY <2>3, <2>5, Zenon
  <2>7. t \in Nat /\ t % 2 = 0 /\ n \in Nat /\ n % 2 = 0 /\ t + n <= 16 /\ a + t = a
        /\ a \in Int
    <3>1. n \in {2, 4, 8}
      BY <2>1
    <3>. HIDE DEF n
    <3>2. n \in Nat /\ n % 2 = 0 /\ 0 + n <= 16
      BY <3>1
    <3>. QED BY <1>1, <3>2
  <2>. HIDE DEF n, t, d, e
  <2>8. Swapped(LoadedVRegs(w, a), d)[k]
          = IF e <= k /\ k < e + n THEN mem[a + (k - e)] ELSE Register(w.v)[k]
    BY <1>2, <2>1, <2>6, <2>7 DEF e
  <2>. QED BY <2>1, <2>8 DEF e, d
<1>5. CASE w.op = "LQV"
  <2>. DEFINE n == 16 - Start(a, 16)  t == Start(a, 16)  e == w.e  l == Line(a)
  <2>1. t \in 0 .. 15 /\ l \in Int /\ a = l + t
    BY LineOf, LinesInMemory
  <2>2. t % 2 = 0
    BY <1>1, <1>5 DEF Fits, Start
  <2>3. Slice(t) = t /\ n = Part(w.op, a) /\ e = 0
    BY <1>5, <2>1, <2>2 DEF Slice, Part, Accepts
  <2>4. d + e = d
    BY <1>1, <2>3
  <2>5. LoadedVRegs(w, a) = Copy(vr, d + e, Swapped(mem, l), t, n)
    BY <1>5, <2>3, <2>4 DEF LoadedVRegs, LoadQuadVector
  <2>6. n = 16 - t /\ e % 2 = 0 /\ e \in Nat
    BY <2>3
  <2>. HIDE DEF n, t, d, e, l
  <2>7. n \in Nat /\ n % 2 = 0 /\ t \in Nat /\ t + n <= 16 /\ e + n <= 16 /\ l + t = a
    BY <2>1, <2>2, <2>3, <2>6
  <2>8. Swapped(LoadedVRegs(w, a), d)[k]
          = IF e <= k /\ k < e + n THEN mem[a + (k - e)] ELSE Register(w.v)[k]
    BY <1>2, <2>1, <2>2, <2>5, <2>6, <2>7 DEF e
  <2>. QED BY <2>3, <2>8 DEF e, d
<1>. QED BY <1>3, <1>4, <1>5 DEF PlainLoad

\* After a load, the register agrees with memory.
LEMMA LoadAgrees ==
  ASSUME Memories, NEW w \in Instruction, w.op \in PlainLoad, Accepts(w), Fits(w),
         NEW a \in DMemByte, a = Address(w)
  PROVE  Agree(mem, LoadedVRegs(w, a), w, a)
<1>. DEFINE n == Part(w.op, a)  e == w.e
<1>1. n \in 1 .. 16 /\ e \in 0 .. 15 /\ e + n <= 16
  <2>1. w.op # "SBV"
    BY DEF PlainLoad
  <2>. QED BY <2>1, PartIs
<1>2. ASSUME NEW i \in 0 .. n - 1
      PROVE  Swapped(LoadedVRegs(w, a), 16 * w.v)[e + i] = mem[a + i]
  <2>. DEFINE k == e + i
  <2>. HIDE DEF n, e
  <2>1. k \in 0 .. 15 /\ e <= k /\ k < e + n /\ k - e = i
    BY <1>1, <1>2
  <2>. HIDE DEF k
  <2>2. Swapped(LoadedVRegs(w, a), 16 * w.v)[k] = mem[a + (k - e)]
    BY <2>1, LoadGives DEF n, e
  <2>. QED BY <2>1, <2>2 DEF k
<1>. QED BY <1>2 DEF Agree

\* A plain store copies a part of the register.
LEMMA PlainStored ==
  ASSUME Memories, NEW w \in Instruction, w.op \in PlainStore, Accepts(w),
         NEW a \in DMemByte, a = Address(w)
  PROVE  StoredMem(w, a) = Copy(mem, a, Register(w.v), w.e, Part(w.op, a))
<1>1. mem \in [MemByte -> Byte] /\ a \in Nat /\ w.e \in 0 .. 15
  BY LinesInMemory DEF Memories, Instruction
<1>2. CASE w.op = "SBV"
  <2>1. StoredMem(w, a) = [mem EXCEPT ![a] = Register(w.v)[w.e]] /\ Part(w.op, a) = 1
    BY <1>2 DEF StoredMem, Part
  <2>2. \A k \in MemByte : k \in a .. a + 1 - 1 <=> k = a
    BY <1>1, IndexSets
  <2>3. w.e + a - a = w.e
    BY <1>1
  <2>. QED BY <1>1, <2>1, <2>2, <2>3 DEF Copy
<1>3. CASE w.op \in {"SSV", "SLV", "SDV"}
  BY <1>3 DEF StoredMem, Part
<1>4. CASE w.op = "SQV"
  BY <1>4 DEF StoredMem, Part, StoreQuadVector, Accepts
<1>. QED BY <1>2, <1>3, <1>4 DEF PlainStore

\* After a store, memory agrees with the register.
LEMMA StoreAgrees ==
  ASSUME Memories, NEW w \in Instruction, w.op \in PlainStore, Accepts(w),
         NEW a \in DMemByte, a = Address(w)
  PROVE  Agree(StoredMem(w, a), vr, w, a)
<1>. DEFINE n == Part(w.op, a)  e == w.e
<1>1. /\ n \in 1 .. 16 /\ e \in 0 .. 15 /\ a \in Nat /\ DOMAIN mem = MemByte
      /\ \A i \in 0 .. n - 1 : a + i \in MemByte
  <2>1. w.op \in PlainLoad \cup PlainStore
    OBVIOUS
  <2>. QED BY <2>1, PartIs, LinesInMemory DEF Memories
<1>2. StoredMem(w, a) = Copy(mem, a, Register(w.v), e, n)
  BY PlainStored
<1>3. ASSUME NEW i \in 0 .. n - 1
      PROVE  StoredMem(w, a)[a + i] = Register(w.v)[e + i]
  <2>. HIDE DEF n, e
  <2>1. a + i \in a .. a + n - 1 /\ e + (a + i) - a = e + i
    BY <1>1, <1>3
  <2>2. a + i \in DOMAIN mem
    BY <1>1, <1>3
  <2>. QED BY <1>2, <2>1, <2>2 DEF Copy
<1>. QED BY <1>3 DEF Agree, Register

\* A store of bytes that agree with memory changes nothing.
LEMMA StoreBack ==
  ASSUME Memories, NEW w \in Instruction, w.op \in PlainStore, Accepts(w),
         NEW a \in DMemByte, a = Address(w), Agree(mem, vr, w, a)
  PROVE  StoredMem(w, a) = mem
<1>. DEFINE n == Part(w.op, a)  e == w.e
<1>1. mem \in [MemByte -> Byte] /\ a \in Nat /\ n \in 1 .. 16 /\ e \in 0 .. 15
  <2>1. w.op \in PlainLoad \cup PlainStore
    OBVIOUS
  <2>. QED BY <2>1, PartIs, LinesInMemory DEF Memories
<1>2. StoredMem(w, a) = Copy(mem, a, Register(w.v), e, n)
  BY PlainStored
<1>3. \A i \in 0 .. n - 1 : Register(w.v)[e + i] = mem[a + i]
  BY DEF Agree, Register
<1>4. ASSUME NEW k \in MemByte, k \in a .. a + n - 1
      PROVE  Register(w.v)[e + k - a] = mem[k]
  <2>. DEFINE i == k - a
  <2>. HIDE DEF n, e
  <2>1. i \in 0 .. n - 1 /\ e + k - a = e + i /\ a + i = k
    BY <1>1, <1>4, IndexSets
  <2>. HIDE DEF i
  <2>. QED BY <1>3, <2>1
<1>. HIDE DEF n, e
<1>. QED BY <1>1, <1>2, <1>4 DEF Copy

\* The bytes SH and SW store are those LH, LHU and LW made a number of.
IsByte(b) == b \in Nat /\ b < 256

\* A half falls apart into the bytes it was made of,
LEMMA BytesOfHalf ==
  ASSUME NEW b0, NEW b1, IsByte(b0), IsByte(b1), NEW t,
         t = Half(b0, b1) \/ t = 256 * b0 + b1
  PROVE  (t \div 256) % 256 = b0 /\ t % 256 = b1
<1>1. \E c \in {b0, b0 - 256} : t = 256 * c + b1
  BY SMT DEF Half, IsByte
<1>2. PICK c \in {b0, b0 - 256} : t = 256 * c + b1
  BY <1>1
<1>3. c \in Int /\ c % 256 = b0
  BY <1>2, SMT DEF IsByte
<1>4. t \div 256 = c /\ t % 256 = b1
  BY <1>2, <1>3, SMT DEF IsByte
<1>. QED BY <1>3, <1>4

\* and so does a word.
LEMMA BytesOfWord ==
  ASSUME NEW b0, NEW b1, NEW b2, NEW b3,
         IsByte(b0), IsByte(b1), IsByte(b2), IsByte(b3),
         NEW t, t = 65536 * Half(b0, b1) + 256 * b2 + b3
  PROVE  /\ (t \div 16777216) % 256 = b0 /\ (t \div 65536) % 256 = b1
         /\ (t \div 256) % 256 = b2 /\ t % 256 = b3
<1>1. \E c \in {b0, b0 - 256} : Half(b0, b1) = 256 * c + b1
  BY SMT DEF Half, IsByte
<1>2. PICK c \in {b0, b0 - 256} : Half(b0, b1) = 256 * c + b1
  BY <1>1
<1>3. c \in Int /\ c % 256 = b0
  BY <1>2, SMT DEF IsByte
<1>4. t = 16777216 * c + 65536 * b1 + 256 * b2 + b3
  BY <1>2, <1>3, SMT DEF IsByte
<1>5. t \div 16777216 = c
  BY <1>3, <1>4, SMT DEF IsByte
<1>6. t \div 65536 = 256 * c + b1
  BY <1>3, <1>4, SMT DEF IsByte
<1>7. t \div 256 = 65536 * c + 256 * b1 + b2
  BY <1>3, <1>4, SMT DEF IsByte
<1>8. (256 * c + b1) % 256 = b1
  BY <1>3, SMT DEF IsByte
<1>9. (65536 * c + 256 * b1 + b2) % 256 = b2
  BY <1>3, SMT DEF IsByte
<1>10. t % 256 = b3
  BY <1>3, <1>4, SMT DEF IsByte
<1>. QED BY <1>3, <1>5, <1>6, <1>7, <1>8, <1>9, <1>10, SMT

\* The same of the loads of which the store makes the bytes out of something
\* else: what the store would make of the register or of rt.
AgreePacked(M, V, w, a) ==
  /\ w.op = "LPV" => \A i \in 0 .. 7 : V[16 * w.v + 2 * i + 1] = M[a + i]
  /\ w.op = "LUV" =>
       \A i \in 0 .. 7 :
         (V[16 * w.v + 2 * i + 1] % 128) * 2 + V[16 * w.v + 2 * i] \div 128 = M[a + i]

AgreeScalar(M, t, w, a) ==
  /\ w.op \in {"LB", "LBU"} => t % 256 = M[a]
  /\ w.op \in {"LH", "LHU"} => (t \div 256) % 256 = M[a] /\ t % 256 = M[a + 1]
  /\ w.op = "LW" =>
       /\ (t \div 16777216) % 256 = M[a] /\ (t \div 65536) % 256 = M[a + 1]
       /\ (t \div 256) % 256 = M[a + 2] /\ t % 256 = M[a + 3]

\* After LPV and LUV each slice is the byte of memory it came from, shifted,
LEMMA LoadAgreesPacked ==
  ASSUME Memories, NEW w \in Instruction, w.op \in {"LPV", "LUV"},
         NEW a \in DMemByte, a = Address(w)
  PROVE  AgreePacked(mem, LoadedVRegs(w, a), w, a)
<1>. DEFINE d == 16 * w.v
<1>1. /\ vr \in [VRegByte -> Byte] /\ d \in Int /\ a \in Nat
      /\ \A i \in 0 .. 15 : d + i \in VRegByte
      /\ \A i \in 0 .. 7 : mem[a + i] \in Byte
  <2>1. w.v \in 0 .. NumVRegs - 1
    BY DEF Instruction
  <2>2. d \in Int /\ \A i \in 0 .. 15 : d + i \in VRegByte
    BY <2>1, Sizes DEF VRegByte
  <2>3. \A i \in 0 .. 7 : a + i \in MemByte
    BY LinesInMemory
  <2>. QED BY <2>2, <2>3, LinesInMemory DEF Memories
<1>. HIDE DEF d
<1>2. ASSUME NEW src, LoadedVRegs(w, a) = Copy(vr, d, src, 0, 16), NEW i \in 0 .. 15
      PROVE  LoadedVRegs(w, a)[d + i] = src[i]
  <2>. DEFINE n == 16  k == d + i
  <2>1. k \in d .. d + n - 1 /\ 0 + k - d = i /\ k \in DOMAIN vr
    BY <1>1
  <2>. HIDE DEF n, k
  <2>2. Copy(vr, d, src, 0, n)[k] = src[0 + k - d]
    BY <2>1 DEF Copy
  <2>. QED BY <1>2, <2>1, <2>2 DEF n, k
<1>3. \A i \in 0 .. 7 : /\ 2 * i \in 0 .. 15 /\ 2 * i + 1 \in 0 .. 15
                        /\ (2 * i) % 2 = 0 /\ (2 * i + 1) % 2 # 0
                        /\ (2 * i) \div 2 = i /\ (2 * i + 1) \div 2 = i
                        /\ d + (2 * i + 1) = d + 2 * i + 1
  BY <1>1
<1>4. CASE w.op = "LPV"
  <2>. DEFINE src == [k \in 0 .. 15 |-> IF k % 2 = 0 THEN 0 ELSE mem[a + k \div 2]]
  <2>1. LoadedVRegs(w, a) = Copy(vr, d, src, 0, 16)
    BY <1>4 DEF LoadedVRegs, LoadPackedBytes, d
  <2>2. \A i \in 0 .. 7 : src[2 * i + 1] = mem[a + i]
    BY <1>3
  <2>. HIDE DEF src
  <2>3. \A i \in 0 .. 7 : LoadedVRegs(w, a)[d + 2 * i + 1] = mem[a + i]
    BY <1>2, <1>3, <2>1, <2>2
  <2>. QED BY <1>4, <2>3 DEF AgreePacked, d
<1>5. CASE w.op = "LUV"
  <2>. DEFINE src == [k \in 0 .. 15 |-> IF k % 2 = 0 THEN (mem[a + k \div 2] % 2) * 128
                                                    ELSE mem[a + k \div 2] \div 2]
  <2>1. LoadedVRegs(w, a) = Copy(vr, d, src, 0, 16)
    BY <1>5 DEF LoadedVRegs, LoadPackedUBytes, d
  <2>2. \A i \in 0 .. 7 : /\ src[2 * i + 1] = mem[a + i] \div 2
                          /\ src[2 * i] = (mem[a + i] % 2) * 128
    BY <1>3
  <2>. HIDE DEF src
  <2>3. \A i \in 0 .. 7 : /\ LoadedVRegs(w, a)[d + 2 * i + 1] = mem[a + i] \div 2
                          /\ LoadedVRegs(w, a)[d + 2 * i] = (mem[a + i] % 2) * 128
    BY <1>2, <1>3, <2>1, <2>2
  <2>4. \A b \in Byte : ((b \div 2) % 128) * 2 + ((b % 2) * 128) \div 128 = b
    BY ByteIs
  <2>5. \A i \in 0 .. 7 :
          (LoadedVRegs(w, a)[d + 2 * i + 1] % 128) * 2
            + LoadedVRegs(w, a)[d + 2 * i] \div 128 = mem[a + i]
    BY <1>1, <2>3, <2>4
  <2>. QED BY <1>5, <2>5 DEF AgreePacked, d
<1>. QED BY <1>4, <1>5

\* and after a scalar load rt is the bytes of memory.
LEMMA LoadAgreesScalar ==
  ASSUME Memories, NEW w \in Instruction, w.op \in ScalarLoad, NEW a \in DMemByte
  PROVE  AgreeScalar(mem, Loaded(w, a), w, a)
<1>1. /\ IsByte(mem[a]) /\ IsByte(mem[a + 1]) /\ IsByte(mem[a + 2]) /\ IsByte(mem[a + 3])
      /\ a + 0 = a
  <2>1. a \in Int /\ \A k \in 0 .. 3 : a + k \in MemByte
    BY LinesInMemory, Sizes DEF DMemByte, MemByte
  <2>2. \A k \in 0 .. 3 : IsByte(mem[a + k])
    BY <2>1, ByteIs DEF Memories, IsByte
  <2>. QED BY <2>1, <2>2
<1>. DEFINE b0 == mem[a]  b1 == mem[a + 1]  b2 == mem[a + 2]  b3 == mem[a + 3]
            t == Loaded(w, a)
<1>2. /\ w.op = "LW" => t = 65536 * Half(b0, b1) + 256 * b2 + b3
      /\ w.op = "LH" => t = Half(b0, b1)
      /\ w.op = "LHU" => t = 256 * b0 + b1
      /\ w.op \in {"LB", "LBU"} => t \in {b0, b0 - 256}
  BY <1>1 DEF Loaded
<1>3. AgreeScalar(mem, t, w, a)
        <=> /\ w.op \in {"LB", "LBU"} => t % 256 = b0
            /\ w.op \in {"LH", "LHU"} => (t \div 256) % 256 = b0 /\ t % 256 = b1
            /\ w.op = "LW" =>
                 /\ (t \div 16777216) % 256 = b0 /\ (t \div 65536) % 256 = b1
                 /\ (t \div 256) % 256 = b2 /\ t % 256 = b3
  BY SMT DEF AgreeScalar
<1>. HIDE DEF t, b0, b1, b2, b3
<1>4. IsByte(b0) /\ IsByte(b1) /\ IsByte(b2) /\ IsByte(b3)
  BY <1>1 DEF b0, b1, b2, b3
<1>5. w.op \in {"LB", "LBU"} => t % 256 = b0
  BY <1>2, <1>4, SMT DEF IsByte
<1>6. w.op \in {"LH", "LHU"} => (t \div 256) % 256 = b0 /\ t % 256 = b1
  BY <1>2, <1>4, BytesOfHalf, SMT
<1>7. w.op = "LW" =>
        /\ (t \div 16777216) % 256 = b0 /\ (t \div 65536) % 256 = b1
        /\ (t \div 256) % 256 = b2 /\ t % 256 = b3
  BY <1>2, <1>4, BytesOfWord, SMT
<1>. QED BY <1>3, <1>5, <1>6, <1>7, SMT DEF t

\* Agreement of any load with its store.
Agreed(M, V, t, w, a) ==
  /\ w.op \in PlainLoad => Agree(M, V, w, a)
  /\ AgreePacked(M, V, w, a) /\ AgreeScalar(M, t, w, a)

\* A copy of what is there already changes nothing.
LEMMA CopySame ==
  ASSUME NEW S, NEW M \in [S -> Byte], S \subseteq Int, NEW a \in Int, NEW n \in Int,
         NEW src, NEW b \in Int, \A i \in 0 .. n - 1 : src[b + i] = M[a + i]
  PROVE  Copy(M, a, src, b, n) = M
<1>1. ASSUME NEW k \in S, k \in a .. a + n - 1 PROVE src[b + k - a] = M[k]
  <2>. DEFINE i == k - a
  <2>1. i \in 0 .. n - 1 /\ b + k - a = b + i /\ a + i = k
    BY <1>1
  <2>. HIDE DEF i
  <2>. QED BY <2>1
<1>. QED BY <1>1 DEF Copy

\* The store of a load changes nothing where the load left agreement.
LEMMA StoreRestores ==
  ASSUME Memories, NEW w \in Instruction, w.op \in DOMAIN StoreOf,
         NEW x \in Instruction, x = [w EXCEPT !.op = StoreOf[w.op]], Accepts(x),
         NEW a \in DMemByte, a = Address(w), Agreed(mem, vr, rt, w, a)
  PROVE  Address(x) = a /\ StoredMem(x, a) = mem
<1>1. x.op = StoreOf[w.op] /\ x.v = w.v /\ x.e = w.e /\ x.at = w.at /\ x.offset = w.offset
  BY DEF Instruction
<1>2. mem \in [MemByte -> Byte] /\ a \in Int /\ MemByte \subseteq Int
  BY LinesInMemory, IndexSets DEF Memories
<1>3. Unit(x.op) = Unit(w.op)
  BY <1>1, StoreOfIs DEF Unit
<1>4. Address(x) = a
  BY <1>1, <1>3 DEF Address
<1>5. CASE w.op \in PlainLoad
  <2>1. x.op \in PlainStore /\ Part(x.op, a) = Part(w.op, a)
    BY <1>1, <1>5, StoreOfIs DEF PlainStore, PlainLoad, Part
  <2>2. Agree(mem, vr, x, a)
    BY <1>1, <1>5, <2>1 DEF Agree, Agreed
  <2>. QED BY <1>4, <2>1, <2>2, StoreBack
<1>6. ASSUME NEW src, NEW n \in Int, NEW b \in Int,
             StoredMem(x, a) = Copy(mem, a, src, b, n),
             \A i \in 0 .. n - 1 : src[b + i] = mem[a + i]
      PROVE  StoredMem(x, a) = mem
  BY <1>2, <1>6, CopySame
<1>7. CASE w.op = "LPV"
  <2>. DEFINE src == [i \in 0 .. 7 |-> vr[16 * w.v + 2 * i + 1]]  n == 8  b == 0
  <2>1. x.op = "SPV"
    BY <1>1, <1>7, StoreOfIs
  <2>2. StoredMem(x, a) = Copy(mem, a, src, b, n)
    BY <1>1, <2>1 DEF StoredMem, StorePackedBytes
  <2>3. \A i \in 0 .. 7 : src[0 + i] = mem[a + i]
    BY <1>7 DEF Agreed, AgreePacked
  <2>4. n \in Int /\ b \in Int /\ \A i \in 0 .. n - 1 : src[b + i] = mem[a + i]
    BY <2>3
  <2>. HIDE DEF src, n, b
  <2>5. StoredMem(x, a) = mem
    BY <1>6, <2>2, <2>4, Zenon
  <2>. QED BY <1>4, <2>5, Zenon
<1>8. CASE w.op = "LUV"
  <2>. DEFINE src == [i \in 0 .. 7 |-> (vr[16 * w.v + 2 * i + 1] % 128) * 2
                                        + vr[16 * w.v + 2 * i] \div 128]
              n == 8  b == 0
  <2>1. x.op = "SUV"
    BY <1>1, <1>8, StoreOfIs
  <2>2. StoredMem(x, a) = Copy(mem, a, src, b, n)
    BY <1>1, <2>1 DEF StoredMem, StorePackedUBytes
  <2>3. \A i \in 0 .. 7 : src[0 + i] = mem[a + i]
    BY <1>8 DEF Agreed, AgreePacked
  <2>4. n \in Int /\ b \in Int /\ \A i \in 0 .. n - 1 : src[b + i] = mem[a + i]
    BY <2>3
  <2>. HIDE DEF src, n, b
  <2>5. StoredMem(x, a) = mem
    BY <1>6, <2>2, <2>4, Zenon
  <2>. QED BY <1>4, <2>5, Zenon
<1>9. CASE w.op \in {"LB", "LBU"}
  <2>1. StoredMem(x, a) = [mem EXCEPT ![a] = rt % 256]
    BY <1>1, <1>9, StoreOfIs DEF StoredMem
  <2>2. rt % 256 = mem[a]
    BY <1>9 DEF Agreed, AgreeScalar
  <2>. QED BY <1>2, <1>4, <2>1, <2>2
<1>10. CASE w.op \in {"LH", "LHU"}
  <2>1. StoredMem(x, a) = StoreHalf(a)
    BY <1>1, <1>10, StoreOfIs DEF StoredMem
  <2>. DEFINE h == (rt \div 256) % 256  l == rt % 256
  <2>2. h = mem[a] /\ l = mem[a + 1]
    BY <1>10 DEF Agreed, AgreeScalar
  <2>3. StoreHalf(a) = [mem EXCEPT ![a] = h, ![a + 1] = l]
    BY Zenon DEF StoreHalf
  <2>. HIDE DEF h, l
  <2>4. [mem EXCEPT ![a] = h, ![a + 1] = l] = mem
    BY <1>2, <2>2
  <2>. QED BY <1>4, <2>1, <2>3, <2>4
<1>11. CASE w.op = "LW"
  <2>. DEFINE n == 4  b == 1
  <2>1. StoredMem(x, a) = Copy(mem, a, WordBytes, b, n)
    BY <1>1, <1>11, StoreOfIs DEF StoredMem
  <2>2. /\ WordBytes[1] = mem[a] /\ WordBytes[2] = mem[a + 1]
        /\ WordBytes[3] = mem[a + 2] /\ WordBytes[4] = mem[a + 3]
    BY <1>11, SMT DEF WordBytes, Agreed, AgreeScalar
  <2>3. \A i \in 0 .. 3 : WordBytes[1 + i] = mem[a + i]
    <3>1. a + 0 = a
      BY <1>2
    <3>. QED BY <2>2, <3>1
  <2>4. n \in Int /\ b \in Int /\ \A i \in 0 .. n - 1 : WordBytes[b + i] = mem[a + i]
    BY <2>3
  <2>. HIDE DEF n, b
  <2>5. StoredMem(x, a) = mem
    BY <1>6, <2>1, <2>4, Zenon
  <2>. QED BY <1>4, <2>5, Zenon
<1>. QED BY <1>5, <1>7, <1>8, <1>9, <1>10, <1>11, StoreOfIs DEF PlainLoad

(***************************************************************************)
(* What holds after the first instruction of a program, and the second.    *)
(***************************************************************************)
\* What an instruction w at address a does.
Effect(w, a) ==
  /\ pos \in DOMAIN prog /\ pos' = pos + 1 /\ prog' = prog
  /\ Accepts(w) /\ w \in Instruction /\ a \in DMemByte
  /\ w.op \in VectorLoad => vr' = LoadedVRegs(w, a) /\ mem' = mem /\ rt' = rt
  /\ w.op \in VectorStore =>
       /\ mem' = StoredMem(w, a) /\ rt' = rt
       /\ vr' = IF w.op = "STV" THEN Copy(vr, 16 * NumVRegs, Transposed(w), 0, 16) ELSE vr
  /\ w.op \in ScalarLoad => rt' = Loaded(w, a) /\ mem' = mem /\ vr' = vr
  /\ w.op \in ScalarStore => mem' = StoredMem(w, a) /\ vr' = vr /\ rt' = rt
  /\ w.op = "MTC2" => vr' = MovedTo(w) /\ mem' = mem /\ rt' = rt

\* A step executes the instruction at pos, if any.
LEMMA StepEffect ==
  ASSUME TypeOK, [Next]_vars, NEW w, w = prog[pos], NEW a, a = Address(w)
  PROVE  UNCHANGED vars \/ Effect(w, a)
<1>1. pos \in DOMAIN prog => w \in Instruction /\ a \in DMemByte
  BY ProgramTyped, Zenon DEF TypeOK
<1>2. CASE LoadVector
  <2>1. w.op \in VectorLoad /\ pos \in DOMAIN prog /\ Accepts(w)
    BY <1>2, Zenon DEF LoadVector, Executes
  <2>2. w.op \notin VectorStore \cup ScalarLoad \cup ScalarStore \cup {"MTC2"}
    BY <2>1 DEF VectorLoad, VectorStore, ScalarLoad, ScalarStore
  <2>. QED BY <1>1, <1>2, <2>1, <2>2 DEF LoadVector, Effect
<1>3. CASE StoreVector
  <2>1. w.op \in VectorStore /\ pos \in DOMAIN prog /\ Accepts(w)
    BY <1>3, Zenon DEF StoreVector, Executes
  <2>2. w.op \notin VectorLoad \cup ScalarLoad \cup ScalarStore \cup {"MTC2"}
    BY <2>1 DEF VectorLoad, VectorStore, ScalarLoad, ScalarStore
  <2>. QED BY <1>1, <1>3, <2>1, <2>2 DEF StoreVector, Effect
<1>4. CASE LoadScalar
  <2>1. w.op \in ScalarLoad /\ pos \in DOMAIN prog /\ Accepts(w)
    BY <1>4, Zenon DEF LoadScalar, Executes
  <2>2. w.op \notin VectorLoad \cup VectorStore \cup ScalarStore \cup {"MTC2"}
    BY <2>1 DEF VectorLoad, VectorStore, ScalarLoad, ScalarStore
  <2>. QED BY <1>1, <1>4, <2>1, <2>2 DEF LoadScalar, Effect
<1>5. CASE StoreScalar
  <2>1. w.op \in ScalarStore /\ pos \in DOMAIN prog /\ Accepts(w)
    BY <1>5, Zenon DEF StoreScalar, Executes
  <2>2. w.op \notin VectorLoad \cup VectorStore \cup ScalarLoad \cup {"MTC2"}
    BY <2>1 DEF VectorLoad, VectorStore, ScalarLoad, ScalarStore
  <2>. QED BY <1>1, <1>5, <2>1, <2>2 DEF StoreScalar, Effect
<1>6. CASE MoveFrom
  <2>1. w.op = "MFC2" /\ pos \in DOMAIN prog /\ Accepts(w)
    BY <1>6 DEF MoveFrom, Executes
  <2>2. w.op \notin VectorLoad \cup VectorStore \cup ScalarLoad \cup ScalarStore
                     \cup {"MTC2"}
    BY <2>1 DEF VectorLoad, VectorStore, ScalarLoad, ScalarStore
  <2>. QED BY <1>1, <1>6, <2>1, <2>2 DEF MoveFrom, Effect
<1>7. CASE MoveTo
  <2>1. w.op = "MTC2" /\ pos \in DOMAIN prog /\ Accepts(w)
    BY <1>7 DEF MoveTo, Executes
  <2>2. w.op \notin VectorLoad \cup VectorStore \cup ScalarLoad \cup ScalarStore
    BY <2>1 DEF VectorLoad, VectorStore, ScalarLoad, ScalarStore
  <2>. QED BY <1>1, <1>7, <2>1, <2>2 DEF MoveTo, Effect
<1>. QED BY <1>2, <1>3, <1>4, <1>5, <1>6, <1>7, Zenon DEF Next, Stop

\* After instruction w at address a: memory M, registers V and rt = t.
AfterOneOf(w, a, M, V, t) ==
  /\ w \in Instruction /\ Accepts(w) /\ a \in DMemByte
  /\ w.op \in DOMAIN StoreOf => M = StartMem /\ (Fits(w) => Agreed(M, V, t, w, a))
  /\ w.op \in PlainStore => V = StartVRegs /\ Agree(M, V, w, a)
  /\ w.op = "MTC2" =>
       /\ t = -2
       /\ Swapped(V, 16 * w.v)[w.e] = 255 /\ Swapped(V, 16 * w.v)[w.e + 1] = 254

Beginning == pos = 1 => mem = StartMem /\ vr = StartVRegs /\ rt = -2

AfterOne == pos = 2 => AfterOneOf(prog[1], Address(prog[1]), mem, vr, rt)

\* After MTC2 and SSV of the same element.
MovedAndStored ==
  /\ prog[1].op = "MTC2" /\ prog[2].op = "SSV"
  /\ prog[2].v = prog[1].v /\ prog[2].e = prog[1].e

AfterTwo ==
  pos = 3 /\ MovedAndStored =>
    mem[Address(prog[2])] = 255 /\ mem[Address(prog[2]) + 1] = 254

Inv == TypeOK /\ Beginning /\ AfterOne /\ AfterTwo

\* After the first instruction memory and register agree about its part,
LEMMA FirstStep ==
  ASSUME Memories, mem = StartMem, vr = StartVRegs, rt = -2,
         NEW w, NEW a, a = Address(w), Effect(w, a)
  PROVE  AfterOneOf(w, a, mem', vr', rt')
<1>1. w \in Instruction /\ Accepts(w) /\ a \in DMemByte
  BY DEF Effect
<1>2. CASE w.op \in PlainLoad \cup {"LPV", "LUV"}
  <2>1. w.op \in VectorLoad /\ w.op \notin ScalarLoad
    BY <1>2 DEF VectorLoad, ScalarLoad, PlainLoad
  <2>2. vr' = LoadedVRegs(w, a) /\ mem' = mem
    BY <2>1 DEF Effect
  <2>3. Fits(w) /\ w.op \in PlainLoad => Agree(mem, LoadedVRegs(w, a), w, a)
    BY <1>1, LoadAgrees
  <2>4. AgreePacked(mem, LoadedVRegs(w, a), w, a)
    <3>1. CASE w.op \in {"LPV", "LUV"}
      BY <1>1, <3>1, LoadAgreesPacked
    <3>2. CASE w.op \notin {"LPV", "LUV"}
      BY <3>2 DEF AgreePacked
    <3>. QED BY <3>1, <3>2
  <2>5. AgreeScalar(mem, rt', w, a)
    BY <2>1, SMT DEF AgreeScalar, ScalarLoad
  <2>6. Fits(w) => Agreed(mem', vr', rt', w, a)
    BY <2>2, <2>3, <2>4, <2>5, Zenon DEF Agreed
  <2>7. w.op \notin PlainStore \cup {"MTC2"}
    BY <1>2 DEF PlainStore, PlainLoad
  <2>. QED BY <1>1, <2>2, <2>6, <2>7, Zenon DEF AfterOneOf
<1>3. CASE w.op \in ScalarLoad
  <2>1. rt' = Loaded(w, a) /\ mem' = mem
    BY <1>3 DEF Effect
  <2>2. AgreeScalar(mem, Loaded(w, a), w, a)
    BY <1>1, <1>3, LoadAgreesScalar
  <2>3. w.op \notin PlainLoad \cup {"LPV", "LUV"} \cup PlainStore \cup {"MTC2"}
    BY <1>3 DEF PlainStore, PlainLoad, ScalarLoad
  <2>4. AgreePacked(mem, vr', w, a)
    BY <2>3 DEF AgreePacked
  <2>5. Agreed(mem', vr', rt', w, a)
    BY <2>1, <2>2, <2>3, <2>4, Zenon DEF Agreed
  <2>6. w.op \notin PlainStore \cup {"MTC2"}
    BY <2>3
  <2>. QED BY <1>1, <2>1, <2>5, <2>6, Zenon DEF AfterOneOf
<1>4. CASE w.op \in PlainStore
  <2>1. w.op \in VectorStore /\ w.op # "STV" /\ w.op # "MTC2" /\ w.op \notin DOMAIN StoreOf
    BY <1>4, StoreOfIs DEF PlainStore, VectorStore
  <2>2. mem' = StoredMem(w, a) /\ vr' = vr
    BY <2>1 DEF Effect
  <2>3. Agree(StoredMem(w, a), vr, w, a)
    BY <1>1, <1>4, StoreAgrees
  <2>. QED BY <1>1, <2>1, <2>2, <2>3, Zenon DEF AfterOneOf
<1>5. CASE w.op = "MTC2"
  <2>1. vr' = MovedTo(w) /\ rt' = -2
    BY <1>5 DEF Effect
  <2>. DEFINE d == 16 * w.v  e == w.e
  <2>2. e \in 0 .. 15 /\ e % 2 = 0 /\ w.v \in 0 .. NumVRegs - 1
    BY <1>1, <1>5 DEF Accepts, Instruction
  <2>3. d \in Int /\ d + e \in VRegByte /\ d + e + 1 \in VRegByte
    BY <2>2, Sizes DEF VRegByte
  <2>. HIDE DEF d, e
  <2>4. /\ Other(e) = e + 1 /\ Other(e + 1) = e /\ e + 1 \in 0 .. 15
        /\ d + (e + 1) = d + e + 1 /\ d + e # d + e + 1
    BY <2>2, <2>3 DEF Other
  <2>5. rt % 256 = 254 /\ (rt \div 256) % 256 = 255
    <3>1. \A x \in Int : x + 2 = 0 => x % 256 = 254 /\ x \div 256 + 1 = 0
      OBVIOUS
    <3>2. \A x \in Int : x + 1 = 0 => x % 256 = 255
      OBVIOUS
    <3>3. rt \in Int /\ rt + 2 = 0
      OBVIOUS
    <3>4. rt % 256 = 254 /\ rt \div 256 + 1 = 0
      BY <3>1, <3>3, Zenon
    <3>5. rt \div 256 \in Int
      BY <3>3
    <3>. QED BY <3>2, <3>4, <3>5, Zenon
  <2>6. DOMAIN vr = VRegByte
    BY DEF Memories
  <2>7. MovedTo(w)[d + e] = 254 /\ MovedTo(w)[d + e + 1] = 255
    <3>1. MovedTo(w) = [vr EXCEPT ![d + e] = 254, ![d + e + 1] = 255]
      BY <2>5, Zenon DEF MovedTo, d, e
    <3>. QED BY <2>3, <2>4, <2>6, <3>1
  <2>8. Swapped(MovedTo(w), d)[e] = 255 /\ Swapped(MovedTo(w), d)[e + 1] = 254
    BY <2>2, <2>4, <2>7 DEF Swapped
  <2>9. w.op \notin PlainStore \cup DOMAIN StoreOf
    BY <1>5, StoreOfIs DEF PlainStore
  <2>. QED BY <1>1, <2>1, <2>8, <2>9 DEF AfterOneOf, d, e
<1>6. CASE w.op \notin PlainLoad \cup {"LPV", "LUV", "MTC2"} \cup ScalarLoad \cup PlainStore
  <2>1. w.op \notin DOMAIN StoreOf
    BY <1>6, StoreOfIs DEF PlainLoad, ScalarLoad
  <2>. QED BY <1>1, <1>6, <2>1 DEF AfterOneOf
<1>. QED BY <1>2, <1>3, <1>4, <1>5, <1>6

\* The store of the element MTC2 wrote.
LEMMA SecondStep ==
  ASSUME Memories, MovedAndStored, pos = 2,
         AfterOneOf(prog[1], Address(prog[1]), mem, vr, rt),
         NEW w, w = prog[2], NEW a, a = Address(w), Effect(w, a)
  PROVE  mem'[a] = 255 /\ mem'[a + 1] = 254
<1>1. /\ w.op = "SSV" /\ w \in Instruction /\ Accepts(w) /\ a \in DMemByte
      /\ w.op \in PlainStore /\ w.op \in VectorStore
  BY DEF MovedAndStored, Effect, PlainStore, VectorStore
<1>2. Swapped(vr, 16 * w.v)[w.e] = 255 /\ Swapped(vr, 16 * w.v)[w.e + 1] = 254
  BY DEF AfterOneOf, MovedAndStored
<1>3. mem' = StoredMem(w, a)
  BY <1>1 DEF Effect
<1>4. Agree(StoredMem(w, a), vr, w, a)
  BY <1>1, StoreAgrees
<1>5. Part(w.op, a) = 2
  BY <1>1 DEF Part
<1>6. \A i \in 0 .. 1 : Swapped(vr, 16 * w.v)[w.e + i] = StoredMem(w, a)[a + i]
  BY <1>4, <1>5 DEF Agree
<1>7. w.e + 0 = w.e /\ a + 0 = a
  <2>1. w.e \in Int /\ a \in Int
    BY <1>1, LinesInMemory DEF Instruction
  <2>. QED BY <2>1
<1>8. 0 \in 0 .. 1 /\ 1 \in 0 .. 1
  OBVIOUS
<1>9. /\ Swapped(vr, 16 * w.v)[w.e + 0] = StoredMem(w, a)[a + 0]
      /\ Swapped(vr, 16 * w.v)[w.e + 1] = StoredMem(w, a)[a + 1]
  BY <1>6, <1>8, Zenon
<1>. QED BY <1>2, <1>3, <1>7, <1>9

\* The invariant holds at the start,
LEMMA InvInit == Init => Inv
<1>. SUFFICES ASSUME Init PROVE Inv
  OBVIOUS
<1>1. TypeOK
  BY TypeInit
<1>2. pos = 1 /\ Beginning
  BY Zenon DEF Init, Beginning
<1>3. pos # 2 /\ pos # 3
  BY <1>2
<1>. QED BY <1>1, <1>2, <1>3, Zenon DEF Inv, AfterOne, AfterTwo

\* and every step keeps it.
LEMMA InvStep == Inv /\ [Next]_vars => Inv'
<1>. SUFFICES ASSUME Inv, [Next]_vars PROVE Inv'
  OBVIOUS
<1>1. TypeOK' /\ TypeOK /\ Memories
  BY TypeStep, Zenon DEF Inv, TypeOK, Memories
<1>2. CASE UNCHANGED vars
  BY <1>1, <1>2, Zenon DEF Inv, vars, Beginning, AfterOne, AfterTwo, MovedAndStored
<1>3. CASE Effect(prog[pos], Address(prog[pos]))
  <2>1. pos \in Int /\ pos >= 1 /\ pos' = pos + 1 /\ prog' = prog
    BY <1>1, <1>3 DEF TypeOK, Effect
  <2>2. Beginning'
    BY <2>1 DEF Beginning
  <2>3. AfterOne'
    <3>1. SUFFICES ASSUME pos = 1
                   PROVE  AfterOneOf(prog[1], Address(prog[1]), mem', vr', rt')
      BY <2>1 DEF AfterOne
    <3>2. mem = StartMem /\ vr = StartVRegs /\ rt = -2
      BY <3>1, Zenon DEF Inv, Beginning
    <3>. QED BY <1>1, <1>3, <3>1, <3>2, FirstStep
  <2>4. AfterTwo'
    <3>1. SUFFICES ASSUME pos = 2, MovedAndStored
                   PROVE  mem'[Address(prog[2])] = 255 /\ mem'[Address(prog[2]) + 1] = 254
      BY <2>1 DEF AfterTwo, MovedAndStored
    <3>2. AfterOneOf(prog[1], Address(prog[1]), mem, vr, rt)
      BY <3>1, Zenon DEF Inv, AfterOne
    <3>. QED BY <1>1, <1>3, <3>1, <3>2, SecondStep
  <2>. QED BY <1>1, <2>2, <2>3, <2>4, Zenon DEF Inv
<1>. QED BY <1>1, <1>2, <1>3, StepEffect

\* Programs are numbered from 1.
LEMMA SeqDomain ==
  ASSUME NEW p \in Seq(Instruction)
  PROVE  DOMAIN p = 1 .. Len(p) /\ Len(p) \in Nat
OBVIOUS

\* A program that consists of these two, or three, instructions.
LEMMA TwoOps ==
  ASSUME NEW p \in Seq(Instruction), NEW x, NEW y,
         [n \in DOMAIN p |-> p[n].op] = <<x, y>>
  PROVE  Len(p) = 2 /\ p[1].op = x /\ p[2].op = y
<1>. DEFINE f == [n \in DOMAIN p |-> p[n].op]
<1>1. f = <<x, y>>
  OBVIOUS
<1>2. DOMAIN f = 1 .. Len(p) /\ DOMAIN <<x, y>> = 1 .. 2
  <2>1. DOMAIN f = DOMAIN p
    BY Zenon
  <2>2. DOMAIN p = 1 .. Len(p)
    BY SeqDomain
  <2>3. DOMAIN <<x, y>> = 1 .. 2
    OBVIOUS
  <2>. QED BY <2>1, <2>2, <2>3, Zenon
<1>3. 1 .. Len(p) = 1 .. 2
  BY <1>1, <1>2, Zenon
<1>4. Len(p) \in Nat
  OBVIOUS
<1>5. Len(p) = 2
  <2>1. 2 \in 1 .. Len(p) /\ 3 \notin 1 .. Len(p)
    BY <1>3
  <2>. QED BY <1>4, <2>1
<1>6. f[1] = p[1].op /\ f[2] = p[2].op
  BY <1>5
<1>7. f[1] = x /\ f[2] = y
  <2>. HIDE DEF f
  <2>. QED BY <1>1
<1>. QED BY <1>5, <1>6, <1>7

\* The same for three.
LEMMA ThreeOps ==
  ASSUME NEW p \in Seq(Instruction), NEW x, NEW y, NEW z,
         [n \in DOMAIN p |-> p[n].op] = <<x, y, z>>
  PROVE  Len(p) = 3 /\ p[1].op = x /\ p[2].op = y /\ p[3].op = z
<1>. DEFINE f == [n \in DOMAIN p |-> p[n].op]
<1>1. f = <<x, y, z>>
  OBVIOUS
<1>2. DOMAIN f = 1 .. Len(p) /\ DOMAIN <<x, y, z>> = 1 .. 3
  <2>1. DOMAIN f = DOMAIN p
    BY Zenon
  <2>2. DOMAIN p = 1 .. Len(p)
    BY SeqDomain
  <2>3. DOMAIN <<x, y, z>> = 1 .. 3
    OBVIOUS
  <2>. QED BY <2>1, <2>2, <2>3, Zenon
<1>3. 1 .. Len(p) = 1 .. 3
  BY <1>1, <1>2, Zenon
<1>4. Len(p) \in Nat
  OBVIOUS
<1>5. Len(p) = 3
  <2>1. 3 \in 1 .. Len(p) /\ 4 \notin 1 .. Len(p)
    BY <1>3
  <2>. QED BY <1>4, <2>1
<1>6. f[1] = p[1].op /\ f[2] = p[2].op /\ f[3] = p[3].op
  BY <1>5
<1>7. f[1] = x /\ f[2] = y /\ f[3] = z
  <2>. HIDE DEF f
  <2>. QED BY <1>1
<1>. QED BY <1>5, <1>6, <1>7

\* The store of what was just loaded changes nothing.
LEMMA RestoredStep == Inv /\ MemoryRestored /\ [Next]_vars => MemoryRestored'
<1>. SUFFICES ASSUME Inv, MemoryRestored, [Next]_vars PROVE MemoryRestored'
  OBVIOUS
<1>1. TypeOK /\ Memories
  BY Zenon DEF Inv, TypeOK, Memories
<1>2. CASE UNCHANGED vars
  BY <1>2, Zenon DEF vars, MemoryRestored, Ended, Aligned
<1>3. CASE Effect(prog[pos], Address(prog[pos]))
  <2>. DEFINE w == prog[1]  x == prog[2]  a == Address(w)
  <2>1. pos \in Int /\ pos' = pos + 1 /\ prog' = prog /\ prog \in Seq(Instruction)
    BY <1>1, <1>3 DEF TypeOK, Effect
  <2>2. ASSUME NEW load \in DOMAIN StoreOf,
               [n \in DOMAIN prog |-> prog[n].op] = <<load, StoreOf[load]>>,
               pos' = Len(prog) + 1, x = [w EXCEPT !.op = StoreOf[load]],
               load \in {"LSV", "LLV"} => Aligned(w), load = "LQV" => a % 2 = 0
        PROVE  mem' = StartMem
    <3>1. Len(prog) = 2 /\ w.op = load /\ x.op = StoreOf[load]
      BY <2>1, <2>2, TwoOps
    <3>2. pos = 2
      BY <2>1, <2>2, <3>1
    <3>3. AfterOneOf(w, a, mem, vr, rt)
      BY <3>2, Zenon DEF Inv, AfterOne
    <3>4. mem = StartMem /\ Agreed(mem, vr, rt, w, a) /\ w \in Instruction /\ a \in DMemByte
      BY <2>2, <3>1, <3>3, Zenon DEF AfterOneOf, Fits
    <3>5. x \in Instruction /\ Accepts(x) /\ Effect(x, Address(x))
      BY <1>3, <3>2, Zenon DEF Effect
    <3>6. Address(x) = a /\ StoredMem(x, a) = mem
      BY <1>1, <2>2, <3>1, <3>4, <3>5, StoreRestores, Zenon
    <3>7. x.op \in VectorStore \cup ScalarStore
      BY <3>1, StoreOfIs DEF VectorStore, ScalarStore
    <3>8. mem' = StoredMem(x, Address(x))
      BY <3>5, <3>7, Zenon DEF Effect
    <3>. QED BY <3>4, <3>6, <3>8, Zenon
  <2>. QED BY <2>1, <2>2 DEF MemoryRestored, Ended, Aligned
<1>. QED BY <1>1, <1>2, <1>3, StepEffect

\* SSV and LH, and LH after MTC2 and SSV, give what the moves give.
LEMMA MovesStep == Inv /\ MovesMatchMemory /\ [Next]_vars => MovesMatchMemory'
<1>. SUFFICES ASSUME Inv, MovesMatchMemory, [Next]_vars PROVE MovesMatchMemory'
  OBVIOUS
<1>1. TypeOK /\ Memories
  BY Zenon DEF Inv, TypeOK, Memories
<1>2. CASE UNCHANGED vars
  BY <1>2, Zenon DEF vars, MovesMatchMemory, Ended, MovedFrom, Register
<1>3. CASE Effect(prog[pos], Address(prog[pos]))
  <2>1. pos \in Int /\ pos' = pos + 1 /\ prog' = prog /\ prog \in Seq(Instruction)
    BY <1>1, <1>3 DEF TypeOK, Effect
  <2>2. ASSUME NEW y, y \in Instruction, y.op = "LH", NEW a \in DMemByte, Effect(y, a)
        PROVE  vr' = vr /\ rt' = Half(mem[a], mem[a + 1])
    <3>1. y.op \in ScalarLoad /\ a + 0 = a
      BY <2>2, LinesInMemory DEF ScalarLoad
    <3>2. vr' = vr /\ rt' = Loaded(y, a)
      BY <2>2, <3>1, Zenon DEF Effect
    <3>. QED BY <2>2, <3>1, <3>2 DEF Loaded
  <2>3. ASSUME [n \in DOMAIN prog |-> prog[n].op] = <<"SSV", "LH">>,
               pos' = Len(prog) + 1, Address(prog[2]) = Address(prog[1])
        PROVE  rt' = MovedFrom(prog[1])'
    <3>. DEFINE w == prog[1]  a == Address(w)  r == Register(w.v)
    <3>1. Len(prog) = 2 /\ w.op = "SSV" /\ prog[2].op = "LH"
      BY <2>1, <2>3, TwoOps
    <3>2. pos = 2
      BY <2>1, <2>3, <3>1
    <3>3. AfterOneOf(w, a, mem, vr, rt)
      BY <3>2, Zenon DEF Inv, AfterOne
    <3>4. w.op \in PlainStore /\ Part(w.op, a) = 2
      BY <3>1 DEF PlainStore, Part
    <3>5. Agree(mem, vr, w, a) /\ w \in Instruction /\ Accepts(w) /\ a \in DMemByte
      BY <3>3, <3>4, Zenon DEF AfterOneOf
    <3>6. \A i \in 0 .. 1 : r[w.e + i] = mem[a + i]
      BY <3>4, <3>5 DEF Agree, Register
    <3>7. w.e \in 0 .. 14 /\ a \in Int
      BY <3>1, <3>5, LinesInMemory DEF Accepts, Instruction
    <3>8. w.e + 0 = w.e /\ a + 0 = a /\ (w.e + 1) % 16 = w.e + 1
      BY <3>7
    <3>9. r[w.e] = mem[a] /\ r[(w.e + 1) % 16] = mem[a + 1]
      <4>. HIDE DEF r, a, w
      <4>1. r[w.e + 0] = mem[a + 0] /\ r[w.e + 1] = mem[a + 1]
        BY <3>6
      <4>. QED BY <3>8, <4>1
    <3>10. Effect(prog[2], a) /\ prog[2] \in Instruction
      BY <1>3, <2>3, <3>2, Zenon DEF Effect
    <3>11. vr' = vr /\ rt' = Half(mem[a], mem[a + 1])
      BY <2>2, <3>1, <3>5, <3>10, Zenon
    <3>12. MovedFrom(w) = rt'
      BY <3>9, <3>11 DEF MovedFrom
    <3>. QED BY <2>1, <3>11, <3>12 DEF MovedFrom, Register
  <2>4. ASSUME [n \in DOMAIN prog |-> prog[n].op] = <<"MTC2", "SSV", "LH">>,
               pos' = Len(prog) + 1, prog[2].v = prog[1].v, prog[2].e = prog[1].e,
               Address(prog[3]) = Address(prog[2])
        PROVE  rt' = -2
    <3>. DEFINE a == Address(prog[3])
    <3>1. /\ Len(prog) = 3 /\ prog[1].op = "MTC2" /\ prog[2].op = "SSV"
          /\ prog[3].op = "LH"
      BY <2>1, <2>4, ThreeOps
    <3>2. pos = 3
      BY <2>1, <2>4, <3>1
    <3>3. Effect(prog[3], a) /\ prog[3] \in Instruction /\ a \in DMemByte
      BY <1>3, <3>2, Zenon DEF Effect
    <3>4. mem[a] = 255 /\ mem[a + 1] = 254
      BY <2>4, <3>1, <3>2, Zenon DEF Inv, AfterTwo, MovedAndStored
    <3>5. rt' = Half(mem[a], mem[a + 1])
      BY <2>2, <3>1, <3>3, Zenon
    <3>6. Half(255, 254) = -2
      BY DEF Half
    <3>. QED BY <3>4, <3>5, <3>6, Zenon
  <2>. QED BY <2>1, <2>3, <2>4 DEF MovesMatchMemory, Ended, Address
<1>. QED BY <1>1, <1>2, <1>3, StepEffect

\* The load of what a store left: the register it is loaded into.
LEMMA LoadCopies ==
  ASSUME Memories, NEW from \in Instruction, from.op \in PlainStore,
         NEW y \in Instruction, y.op \in PlainLoad, from.op = StoreOf[y.op],
         Accepts(y), Fits(y), y.e = from.e, NEW a \in DMemByte, a = Address(y),
         Agree(mem, vr, from, a)
  PROVE  Swapped(LoadedVRegs(y, a), 16 * y.v)
           = Copy(Register(y.v), from.e, Register(from.v), from.e, Part(y.op, a))
<1>. DEFINE n == Part(y.op, a)  e == y.e  L == Swapped(LoadedVRegs(y, a), 16 * y.v)
<1>1. Part(from.op, a) = n
  BY StoreOfIs DEF Part, PlainLoad
<1>2. n \in 1 .. 16 /\ e \in 0 .. 15
  BY PartIs
<1>3. \A i \in 0 .. n - 1 : Register(from.v)[e + i] = mem[a + i]
  BY <1>1 DEF Agree, Register
<1>4. ASSUME NEW k \in 0 .. 15
      PROVE  L[k] = IF e <= k /\ k < e + n THEN mem[a + (k - e)] ELSE Register(y.v)[k]
  BY LoadGives
<1>5. DOMAIN L = 0 .. 15 /\ L = [k \in 0 .. 15 |-> L[k]] /\ DOMAIN Register(y.v) = 0 .. 15
  BY Zenon DEF Register, Swapped
<1>. HIDE DEF n, e, L
<1>6. ASSUME NEW k \in 0 .. 15
      PROVE  L[k] = IF k \in e .. e + n - 1 THEN Register(from.v)[e + k - e]
                    ELSE Register(y.v)[k]
  <2>1. CASE e <= k /\ k < e + n
    <3>. DEFINE i == k - e
    <3>1. i \in 0 .. n - 1 /\ k \in e .. e + n - 1 /\ e + k - e = e + i
      BY <1>2, <2>1
    <3>2. L[k] = mem[a + i]
      BY <1>4, <2>1
    <3>. HIDE DEF i
    <3>. QED BY <1>3, <3>1, <3>2
  <2>2. CASE ~(e <= k /\ k < e + n)
    <3>1. k \notin e .. e + n - 1
      BY <1>2, <2>2
    <3>. QED BY <1>4, <2>2, <3>1
  <2>. QED BY <2>1, <2>2
<1>7. L = Copy(Register(y.v), e, Register(from.v), e, n)
  BY <1>5, <1>6 DEF Copy
<1>. QED BY <1>7 DEF L, e, n

\* The load brings the part that the store has put into memory.
LEMMA CopiedStep == Inv /\ RegisterCopied /\ [Next]_vars => RegisterCopied'
<1>. SUFFICES ASSUME Inv, RegisterCopied, [Next]_vars PROVE RegisterCopied'
  OBVIOUS
<1>1. TypeOK /\ Memories
  BY Zenon DEF Inv, TypeOK, Memories
<1>2. CASE UNCHANGED vars
  BY <1>2, Zenon DEF vars, RegisterCopied, Ended, Aligned, Register
<1>3. CASE Effect(prog[pos], Address(prog[pos]))
  <2>. DEFINE from == prog[1]  y == prog[2]  a == Address(from)
              bytes(load) == IF load = "LQV" THEN 16 - Start(a, 16) ELSE Size(load)
  <2>1. pos \in Int /\ pos' = pos + 1 /\ prog' = prog /\ prog \in Seq(Instruction)
    BY <1>1, <1>3 DEF TypeOK, Effect
  <2>2. ASSUME NEW load \in PlainLoad,
               [n \in DOMAIN prog |-> prog[n].op] = <<StoreOf[load], load>>,
               pos' = Len(prog) + 1, y = [from EXCEPT !.op = load, !.v = y.v],
               load \in {"LSV", "LLV"} => Aligned(from), load = "LQV" => a % 2 = 0
        PROVE  Register(y.v)'
                 = Copy(StartRegister(y.v), from.e, StartRegister(from.v), from.e,
                        bytes(load))
    <3>1. Len(prog) = 2 /\ from.op = StoreOf[load] /\ y.op = load
      BY <2>1, <2>2, TwoOps
    <3>2. pos = 2
      BY <2>1, <2>2, <3>1
    <3>3. AfterOneOf(from, a, mem, vr, rt)
      BY <3>2, Zenon DEF Inv, AfterOne
    <3>4. from.op \in PlainStore
      BY <3>1, StoreOfIs DEF PlainStore, PlainLoad
    <3>5. /\ vr = StartVRegs /\ Agree(mem, vr, from, a)
          /\ from \in Instruction /\ a \in DMemByte
      BY <3>3, <3>4, Zenon DEF AfterOneOf
    <3>6. y \in Instruction /\ Accepts(y) /\ Effect(y, Address(y))
      BY <1>3, <3>2, Zenon DEF Effect
    <3>7. y.e = from.e /\ y.at = from.at /\ y.offset = from.offset
      BY <2>2, <3>5 DEF Instruction
    <3>8. Unit(y.op) = Unit(from.op) /\ Size(y.op) = Size(from.op)
      BY <3>1, StoreOfIs DEF Unit, Size, PlainLoad
    <3>9. Address(y) = a
      BY <3>7, <3>8 DEF Address
    <3>10. Fits(y)
      BY <2>2, <3>1, <3>8, <3>9 DEF Fits, Aligned
    <3>11. y.op \in VectorLoad
      BY <3>1 DEF PlainLoad, VectorLoad
    <3>12. vr' = LoadedVRegs(y, a)
      BY <3>6, <3>9, <3>11, Zenon DEF Effect
    <3>13. Swapped(LoadedVRegs(y, a), 16 * y.v)
             = Copy(Register(y.v), from.e, Register(from.v), from.e, Part(y.op, a))
      BY <1>1, <3>1, <3>4, <3>5, <3>6, <3>7, <3>9, <3>10, LoadCopies
    <3>14. Part(y.op, a) = bytes(load)
      BY <3>1 DEF Part, Size, Unit, PlainLoad
    <3>15. Register(y.v)' = Swapped(vr', 16 * y.v)
      BY <2>1, Zenon DEF Register
    <3>. QED BY <3>5, <3>12, <3>13, <3>14, <3>15, Zenon DEF Register, StartRegister
  <2>3. PlainLoad = {"LBV", "LSV", "LLV", "LDV", "LQV"}
    BY DEF PlainLoad
  <2>4. \A v : Register(v)' = Swapped(vr', 16 * v)
    BY DEF Register
  <2>. QED BY <2>1, <2>2, <2>3, <2>4 DEF RegisterCopied, Ended, Aligned, Register
<1>. QED BY <1>1, <1>2, <1>3, StepEffect

(***************************************************************************)
(* LQV and LRV.                                                            *)
(***************************************************************************)
LEMMA ModIs ==
  ASSUME NEW n \in Nat \ {0}, NEW q \in Int, NEW r \in 0 .. n - 1,
         NEW m, m = n * q + r
  PROVE  m % n = r
<1>. DEFINE x == m \div n  y == m % n
<1>1. m \in Int
  OBVIOUS
<1>2. x \in Int /\ y \in 0 .. n - 1 /\ m = n * x + y
  BY <1>1, DivMod
<1>. HIDE DEF x, y
<1>. DEFINE z == x - q
<1>3. z \in Int /\ n * z = r - y /\ -n < r - y /\ r - y < n
  BY <1>2
<1>. HIDE DEF z
<1>4. z = 0
  <2>1. CASE z >= 1
    <3>1. n * z >= n
      BY <1>3, <2>1
    <3>. QED BY <1>3, <3>1
  <2>2. CASE z <= -1
    <3>1. n * z <= -n
      BY <1>3, <2>2
    <3>. QED BY <1>3, <3>1
  <2>. QED BY <1>3, <2>1, <2>2
<1>5. n * z = 0
  BY <1>4
<1>6. r = y
  BY <1>2, <1>3, <1>5
<1>. QED BY <1>6 DEF y

\* Addresses further on, as long as they do not go round the end of DMEM.
LEMMA Further ==
  ASSUME NEW x \in Int, NEW j \in Int,
         0 <= (x % DMemBytes) + j, (x % DMemBytes) + j < DMemBytes
  PROVE  (x + j) % DMemBytes = (x % DMemBytes) + j
<1>. DEFINE n == DMemBytes  q == x \div n  r == x % n
<1>1. n \in Nat \ {0}
  BY Sizes
<1>2. q \in Int /\ r \in Int /\ x = n * q + r
  BY <1>1, DivMod
<1>3. r + j \in 0 .. n - 1
  BY <1>1, <1>2
<1>. HIDE DEF n, q, r
<1>4. x + j = n * q + (r + j)
  <2>1. n * q \in Int
    BY <1>1, <1>2
  <2>. QED BY <1>2, <2>1
<1>5. (x + j) % n = r + j
  BY <1>1, <1>2, <1>3, <1>4, ModIs
<1>. QED BY <1>5 DEF n, r

\* An address keeps its place in its line.
LEMMA PlaceInLine ==
  ASSUME NEW x \in Int
  PROVE  (x % DMemBytes) % 16 = x % 16 /\ x % DMemBytes \in DMemByte
<1>1. PICK c \in Nat \ {0} : DMemBytes = 16 * c
  BY Sizes
<1>. DEFINE n == DMemBytes  q == x \div n  r == x % n
<1>2. n \in Nat \ {0}
  BY Sizes
<1>3. q \in Int /\ r \in 0 .. n - 1 /\ x = n * q + r
  BY <1>2, DivMod
<1>. DEFINE m == c * q
<1>4. m \in Int /\ n * q = 16 * m
  BY <1>1, <1>3
<1>. HIDE DEF n, q, r, m
<1>5. x = 16 * m + r /\ r \in Int
  BY <1>2, <1>3, <1>4
<1>6. r % 16 = x % 16
  BY <1>4, <1>5
<1>. QED BY <1>3, <1>6 DEF r, n, DMemByte

\* What LRV puts in its register: the bytes before its address, at the end.
LEMMA RestGives ==
  ASSUME Memories, NEW w \in Instruction, w.op = "LRV",
         NEW a \in DMemByte, NEW s \in Nat, s = Start(a, 16), s % 2 = 0,
         NEW k \in 0 .. 15
  PROVE  Swapped(LoadedVRegs(w, a), 16 * w.v)[k]
           = IF k >= 16 - s THEN mem[a + (k - 16)] ELSE Register(w.v)[k]
<1>. DEFINE d == 16 * w.v  e == 16 - s  l == Line(a)  t == 0
<1>1. /\ vr \in [VRegByte -> Byte] /\ d \in Int /\ d .. d + 15 \subseteq VRegByte
  <2>1. w.v \in 0 .. NumVRegs - 1
    BY DEF Instruction
  <2>2. d \in Int /\ d .. d + 15 \subseteq VRegByte
    BY <2>1, Sizes DEF VRegByte
  <2>. QED BY <2>2 DEF Memories
<1>2. l \in Int /\ s <= 15 /\ a = l + s
  <2>1. l \in Nat
    BY LinesInMemory
  <2>2. Start(a, 16) \in 0 .. 15 /\ a = l + Start(a, 16)
    BY LineOf
  <2>. QED BY <2>1, <2>2
<1>3. e \in Nat /\ e % 2 = 0 /\ e + s <= 16 /\ t \in Nat /\ t % 2 = 0 /\ t + s <= 16
  BY <1>2
<1>4. Slice(s) = s /\ d + 16 - s = d + e
  BY <1>1 DEF Slice
<1>5. LoadedVRegs(w, a) = Copy(vr, d + e, Swapped(mem, l), t, s)
  BY <1>4 DEF LoadedVRegs, LoadRestVector
<1>6. e = 16 - s /\ t = 0
  OBVIOUS
<1>. HIDE DEF d, e, l, t
<1>7. CopiedAt(vr, mem, d, l, e, t, s, k)
  BY <1>1, <1>2, <1>3, SwappedCopy
<1>8. Swapped(LoadedVRegs(w, a), d)[k]
        = IF e <= k /\ k < e + s THEN mem[l + t + k - e] ELSE Swapped(vr, d)[k]
  BY <1>5, <1>7 DEF CopiedAt
<1>9. l + t + k - e = a + (k - 16)
  <2>1. k \in Int /\ s \in Int /\ l \in Int
    BY <1>2
  <2>2. e = 16 - s /\ t = 0 /\ a = l + s
    BY <1>2, <1>6
  <2>3. l + t + k - e = l + 0 + k - (16 - s)
    BY <2>2
  <2>4. l + 0 + k - (16 - s) = (l + s) + (k - 16)
    BY <2>1
  <2>. QED BY <2>2, <2>3, <2>4
<1>10. (e <= k /\ k < e + s) <=> k >= 16 - s
  BY <1>6
<1>. QED BY <1>8, <1>9, <1>10 DEF d, Register

\* LRV completes what LQV began: the parts meet at the end of the line.
LEMMA QuadStep == Inv /\ UnalignedQuad /\ [Next]_vars => UnalignedQuad'
<1>. SUFFICES ASSUME Inv, UnalignedQuad, [Next]_vars PROVE UnalignedQuad'
  OBVIOUS
<1>1. TypeOK /\ Memories
  BY Zenon DEF Inv, TypeOK, Memories
<1>2. CASE UNCHANGED vars
  BY <1>2, Zenon DEF vars, UnalignedQuad, Ended, Register
<1>3. CASE Effect(prog[pos], Address(prog[pos]))
  <2>. DEFINE w == prog[1]  y == prog[2]  a == Address(w)  b == Address(y)
              quad == w.at + 16 * w.offset
  <2>1. pos \in Int /\ pos' = pos + 1 /\ prog' = prog /\ prog \in Seq(Instruction)
    BY <1>1, <1>3 DEF TypeOK, Effect
  <2>2. ASSUME [n \in DOMAIN prog |-> prog[n].op] = <<"LQV", "LRV">>,
               pos' = Len(prog) + 1, quad % 2 = 0,
               y = [w EXCEPT !.op = "LRV", !.offset = w.offset + 1],
               NEW k \in 0 .. 15
        PROVE  Swapped(vr', 16 * w.v)[k] = StartMem[(quad + k) % DMemBytes]
    <3>1. Len(prog) = 2 /\ w.op = "LQV" /\ y.op = "LRV"
      BY <2>1, <2>2, TwoOps
    <3>2. pos = 2
      BY <2>1, <2>2, <3>1
    <3>3. AfterOneOf(w, a, mem, vr, rt)
      BY <3>2, Zenon DEF Inv, AfterOne
    <3>4. w.op \in DOMAIN StoreOf /\ w.op \in PlainLoad
      BY <3>1, StoreOfIs DEF PlainLoad
    <3>5. /\ mem = StartMem /\ w \in Instruction /\ a \in DMemByte /\ Accepts(w)
          /\ Fits(w) => Agree(mem, vr, w, a)
      BY <3>3, <3>4, Zenon DEF AfterOneOf, Agreed
    <3>6. w.e = 0 /\ w.at \in Nat /\ w.offset \in Int
      BY <3>1, <3>5 DEF Accepts, Instruction
    <3>7. quad \in Int /\ a = quad % DMemBytes
      BY <3>1, <3>6 DEF Address, Unit
    <3>8. y.v = w.v /\ y.at = w.at /\ y.offset = w.offset + 1
      BY <2>2, <3>5 DEF Instruction
    <3>9. y \in Instruction /\ Accepts(y) /\ b \in DMemByte /\ Effect(y, b)
      BY <1>3, <3>2, Zenon DEF Effect
    <3>10. b = (quad + 16) % DMemBytes
      <4>1. y.at + y.offset * 16 = quad + 16
        BY <3>6, <3>8
      <4>. QED BY <3>1, <4>1 DEF Address, Unit
    <3>. DEFINE s == Start(a, 16)
    <3>11. s = quad % 16 /\ s = Start(b, 16)
      <4>1. (quad + 16) % 16 = quad % 16
        BY <3>7
      <4>. QED BY <3>7, <3>10, <4>1, PlaceInLine DEF Start
    <3>. HIDE DEF quad
    <3>12. s \in Nat /\ s <= 15 /\ s % 2 = 0
      BY <2>2, <3>7, <3>11
    <3>. HIDE DEF s
    <3>13. vr' = LoadedVRegs(y, b)
      <4>1. y.op \in VectorLoad
        BY <3>1 DEF VectorLoad
      <4>. QED BY <3>9, <4>1, Zenon DEF Effect
    <3>14. Swapped(LoadedVRegs(y, b), 16 * w.v)[k]
             = IF k >= 16 - s THEN mem[b + (k - 16)] ELSE Register(w.v)[k]
      <4>. HIDE DEF w, y, b
      <4>1. Swapped(LoadedVRegs(y, b), 16 * y.v)[k]
              = IF k >= 16 - s THEN mem[b + (k - 16)] ELSE Register(y.v)[k]
        BY <1>1, <3>1, <3>9, <3>11, <3>12, RestGives
      <4>. QED BY <3>8, <4>1
    <3>15. CASE k >= 16 - s
      <4>1. b >= s /\ b \in Nat /\ b < DMemBytes
        <5>. HIDE DEF b
        <5>1. b \in Nat /\ Line(b) \in Nat
          BY <3>9, LinesInMemory
        <5>2. b = Line(b) + Start(b, 16)
          BY <3>9, LineOf
        <5>3. b < DMemBytes
          BY <3>9, Sizes DEF DMemByte
        <5>. QED BY <3>11, <3>12, <5>1, <5>2, <5>3
      <4>. DEFINE x == quad + 16  j == k - 16
      <4>2. x \in Int /\ j \in Int /\ x + j = quad + k /\ b = x % DMemBytes
        BY <3>7, <3>10
      <4>3. 0 <= b + j /\ b + j < DMemBytes
        BY <3>12, <3>15, <4>1, Sizes
      <4>. HIDE DEF x, j
      <4>4. (x + j) % DMemBytes = b + j
        BY <4>2, <4>3, Further
      <4>. QED BY <3>5, <3>13, <3>14, <3>15, <4>2, <4>4 DEF j
    <3>16. CASE k < 16 - s
      <4>1. a \in Nat /\ a + k < DMemBytes
        <5>. HIDE DEF a
        <5>1. a \in Nat /\ Line(a) \in Nat
          BY <3>5, LinesInMemory
        <5>2. a = Line(a) + s
          BY <3>5, LineOf DEF s
        <5>3. Line(a) + 15 < DMemBytes
          BY <3>5, LineOf, Sizes DEF DMemByte
        <5>. QED BY <3>12, <3>16, <5>1, <5>2, <5>3, Sizes
      <4>2. Fits(w)
        <5>1. a % 2 = 0
          <6>1. a = Line(a) + s /\ Line(a) % 16 = 0 /\ Line(a) \in Nat
            BY <3>5, LinesInMemory, LineOf DEF s
          <6>. QED BY <3>12, <6>1
        <5>. QED BY <3>1, <5>1 DEF Fits
      <4>3. Part(w.op, a) = 16 - s
        BY <3>1 DEF Part, s
      <4>4. k \in 0 .. Part(w.op, a) - 1 /\ w.e + k = k
        BY <3>6, <3>12, <3>16, <4>3
      <4>5. Register(w.v)[k] = mem[a + k]
        BY <3>5, <4>2, <4>4 DEF Agree, Register
      <4>6. (quad + k) % DMemBytes = a + k
        BY <3>7, <4>1, Further
      <4>. QED BY <3>5, <3>12, <3>13, <3>14, <3>16, <4>5, <4>6
    <3>. QED BY <3>12, <3>15, <3>16
  <2>3. \A v : Register(v)' = Swapped(vr', 16 * v)
    BY DEF Register
  <2>. QED BY <2>1, <2>2, <2>3 DEF UnalignedQuad, Ended
<1>. QED BY <1>1, <1>2, <1>3, StepEffect


(***************************************************************************)
(* A program that ends is not at its first instruction, so that nothing    *)
(* is claimed of it yet at the start.                                      *)
(***************************************************************************)
LEMMA NotEnded ==
  ASSUME TypeOK, pos = 1
  PROVE  /\ \A x, y : ~ Ended(<<x, y>>)
         /\ \A x, y, z : ~ Ended(<<x, y, z>>)
<1>1. prog \in Seq(Instruction)
  BY DEF TypeOK
<1>2. ASSUME NEW x, NEW y, Ended(<<x, y>>) PROVE FALSE
  <2>1. pos = Len(prog) + 1 /\ [n \in DOMAIN prog |-> prog[n].op] = <<x, y>>
    BY <1>2, Zenon DEF Ended
  <2>2. Len(prog) = 2
    BY <1>1, <2>1, TwoOps
  <2>. QED BY <2>1, <2>2
<1>3. ASSUME NEW x, NEW y, NEW z, Ended(<<x, y, z>>) PROVE FALSE
  <2>1. pos = Len(prog) + 1 /\ [n \in DOMAIN prog |-> prog[n].op] = <<x, y, z>>
    BY <1>3, Zenon DEF Ended
  <2>2. Len(prog) = 3
    BY <1>1, <2>1, ThreeOps
  <2>. QED BY <2>1, <2>2
<1>. QED BY <1>2, <1>3, Zenon

\* What is claimed of programs that ended holds of those that have not begun.
LEMMA NothingClaimed ==
  Init => MemoryRestored /\ RegisterCopied /\ MovesMatchMemory /\ UnalignedQuad
<1>. SUFFICES ASSUME Init
              PROVE  MemoryRestored /\ RegisterCopied /\ MovesMatchMemory /\ UnalignedQuad
  OBVIOUS
<1>1. TypeOK /\ pos = 1
  BY TypeInit, Zenon DEF Init
<1>2. /\ \A x, y : ~ Ended(<<x, y>>)
      /\ \A x, y, z : ~ Ended(<<x, y, z>>)
  BY <1>1, NotEnded, Zenon
<1>3. MemoryRestored
  BY <1>2, Zenon DEF MemoryRestored
<1>4. RegisterCopied
  BY <1>2, Zenon DEF RegisterCopied
<1>5. MovesMatchMemory
  BY <1>2, Zenon DEF MovesMatchMemory
<1>6. UnalignedQuad
  BY <1>2, Zenon DEF UnalignedQuad
<1>. QED BY <1>3, <1>4, <1>5, <1>6

\* Whatever the memories, the sizes and the programs are: to load a register
\* and to store it at the same place leaves memory as it was, for every pair of
\* a load and its store (LoadHalf and StoreHalf, LoadPackedUBytes and
\* StorePackedUBytes, and the others).
THEOREM LoadStoreRestores == Spec => []MemoryRestored
<1>1. Init => Inv /\ MemoryRestored
  BY InvInit, NothingClaimed, Zenon
<1>2. (Inv /\ MemoryRestored) /\ [Next]_vars => (Inv /\ MemoryRestored)'
  BY InvStep, RestoredStep, Zenon
<1>. QED BY <1>1, <1>2, PTL DEF Spec

\* To store a vector register and to load another one from there copies the
\* part that both are about, and nothing else (StoreQuadVector, LoadQuadVector
\* and the parts of a register).
THEOREM StoreLoadCopies == Spec => []RegisterCopied
<1>1. Init => Inv /\ RegisterCopied
  BY InvInit, NothingClaimed, Zenon
<1>2. (Inv /\ RegisterCopied) /\ [Next]_vars => (Inv /\ RegisterCopied)'
  BY InvStep, CopiedStep, Zenon
<1>. QED BY <1>1, <1>2, PTL DEF Spec

\* The moves between the two register files agree with going through memory
\* (RSPMFC2, RSPMTC2).
THEOREM MovesAgree == Spec => []MovesMatchMemory
<1>1. Init => Inv /\ MovesMatchMemory
  BY InvInit, NothingClaimed, Zenon
<1>2. (Inv /\ MovesMatchMemory) /\ [Next]_vars => (Inv /\ MovesMatchMemory)'
  BY InvStep, MovesStep, Zenon
<1>. QED BY <1>1, <1>2, PTL DEF Spec

\* LQV and LRV together load any sixteen bytes from an even address, round the
\* end of DMEM as well (LoadQuadVector, LoadRestVector).
THEOREM QuadsLoaded == Spec => []UnalignedQuad
<1>1. Init => Inv /\ UnalignedQuad
  BY InvInit, NothingClaimed, Zenon
<1>2. (Inv /\ UnalignedQuad) /\ [Next]_vars => (Inv /\ UnalignedQuad)'
  BY InvStep, QuadStep, Zenon
<1>. QED BY <1>1, <1>2, PTL DEF Spec


(***************************************************************************)
(* The transposition of a group in place.                                  *)
(***************************************************************************)

\* Where line e of the buffer begins, and the line the n-th STV stores.
LineAt(base, e) == (base + e * 16) % DMemBytes
Stores(n, turn) == (n - 1 + turn) % 8

\* Where the bytes of slice j of register i of a group lie; slice 8 is slice 0
\* of the next register.
Place(v, i, j) == 16 * (v + i) + 2 * j

\* What of it is done before the instruction at p, of the group from v on, with
\* memory M and registers V: the lines that are stored and the slices that are
\* turned, slice 0 of the first register among them from the start.
LineStored(M, v, a, e) ==
  \A c \in 0 .. 15 : M[a + c] = StartVRegs[16 * (v + ((e + c \div 2) % 8)) + Other(c)]
SliceTurned(V, v, i, j) ==
  \A b \in 0 .. 1 : V[Place(v, i, j) + b] = StartVRegs[Place(v, j, i) + b]
SlicesTurned(V, v, d) ==
  \A i, j \in 0 .. 7 : (j - i) % 8 < d => SliceTurned(V, v, i, j)

TurnedBefore(p, M, V, v, base, turn) ==
  /\ v \in 0 .. NumVRegs - 1 /\ base \in Nat /\ turn \in 0 .. 7
  /\ p > 1 => v % 8 = 0 /\ base % 16 = 0
  /\ \A n \in 1 .. 8 : n < p =>
       LineStored(M, v, LineAt(base, Stores(n, turn)), Stores(n, turn))
  /\ p <= 9 => \A k \in 0 .. 16 * NumVRegs - 1 : V[k] = StartVRegs[k]
  /\ SliceTurned(V, v, 0, 0)
  /\ p > 9 => SlicesTurned(V, v, p - 9)

IsTransposition(v, base, turn) == prog = Transposition(v, v, base, turn)

TurnInv ==
  LET first == prog[1]  v == first.v  base == first.at  turn == first.e \div 2 IN
  prog # <<>> /\ IsTransposition(v, base, turn) =>
    TurnedBefore(pos, mem, vr, v, base, turn)

\* The lines of the buffer are eight different ones.
LEMMA LinesApart ==
  ASSUME DMemBytes >= 128, NEW base \in Nat, base % 16 = 0,
         NEW e \in 0 .. 7, NEW f \in 0 .. 7
  PROVE  /\ LineAt(base, e) \in DMemByte /\ LineAt(base, e) % 16 = 0
         /\ e # f => \A c, d \in 0 .. 15 : LineAt(base, e) + c # LineAt(base, f) + d
<1>. DEFINE n == DMemBytes
            x(g) == base + g * 16
            r(g) == x(g) % n
            q(g) == x(g) \div n
<1>1. n \in Nat \ {0} /\ n >= 128
  BY Sizes
<1>2. ASSUME NEW g \in 0 .. 7
      PROVE  /\ r(g) \in DMemByte /\ r(g) \in 0 .. n - 1 /\ q(g) \in Int
             /\ r(g) % 16 = 0 /\ x(g) = n * q(g) + r(g) /\ n * q(g) \in Int
  <2>1. x(g) \in Int /\ x(g) % 16 = 0
    OBVIOUS
  <2>. HIDE DEF x
  <2>2. r(g) % 16 = 0 /\ r(g) \in DMemByte
    BY <2>1, PlaceInLine
  <2>3. r(g) \in 0 .. n - 1 /\ q(g) \in Int /\ x(g) = n * q(g) + r(g)
    BY <1>1, <2>1, DivMod
  <2>. HIDE DEF n, r, q
  <2>4. n * q(g) \in Int
    BY <1>1, <2>3
  <2>. QED BY <2>2, <2>3, <2>4
<1>3. ASSUME e # f, NEW c \in 0 .. 15, NEW d \in 0 .. 15, r(e) + c = r(f) + d
      PROVE  FALSE
  <2>. DEFINE y == r(e)  z == r(f)  p == q(e)  s == q(f)
  <2>1. r(e) \in Nat /\ r(f) \in Nat /\ r(e) % 16 = 0 /\ r(f) % 16 = 0
    <3>. HIDE DEF r, n, q, x
    <3>. QED BY <1>2 DEF DMemByte
  <2>2. /\ p \in Int /\ s \in Int /\ x(e) = n * p + y /\ x(f) = n * s + z
        /\ n * p \in Int /\ n * s \in Int /\ x(e) - x(f) = 16 * (e - f)
    <3>1. x(e) - x(f) = 16 * (e - f)
      OBVIOUS
    <3>. HIDE DEF r, n, q, x
    <3>. QED BY <1>2, <3>1
  <2>. HIDE DEF r, n, q, x
  <2>3. y = z /\ y \in Int
    <3>1. y \in Nat /\ z \in Nat /\ y % 16 = 0 /\ z % 16 = 0 /\ y + c = z + d
      BY <1>3, <2>1
    <3>. HIDE DEF y, z
    <3>. DEFINE k == y \div 16  l == z \div 16
    <3>2. y = 16 * k /\ z = 16 * l /\ k \in Int /\ l \in Int
      BY <3>1
    <3>. HIDE DEF k, l
    <3>. QED BY <3>1, <3>2
  <2>. HIDE DEF y, z, p, s
  <2>. DEFINE t == p - s
  <2>4. t \in Int /\ n * t = n * p - n * s
    BY <1>1, <2>2
  <2>5. n * t = 16 * (e - f)
    BY <2>2, <2>3, <2>4
  <2>6. -112 <= n * t /\ n * t <= 112 /\ n * t # 0 /\ n * t \in Int
    BY <1>3, <2>5
  <2>. HIDE DEF t
  <2>7. t # 0
    BY <1>1, <2>6
  <2>8. CASE t >= 1
    <3>1. n * t >= n
      BY <1>1, <2>4, <2>8
    <3>. QED BY <1>1, <2>6, <3>1
  <2>9. CASE t <= -1
    <3>1. n * t <= -n
      BY <1>1, <2>4, <2>9
    <3>. QED BY <1>1, <2>6, <3>1
  <2>. QED BY <2>4, <2>7, <2>8, <2>9
<1>4. LineAt(base, e) = r(e) /\ LineAt(base, f) = r(f)
  BY DEF LineAt
<1>. HIDE DEF r, n, q, x
<1>. QED BY <1>2, <1>3, <1>4

\* What an STV of the group leaves in memory: its line, and the others as they
\* were.
StoresLine(w, a, v, e) ==
  /\ LineStored(StoredMem(w, a), v, a, e)
  /\ \A k \in MemByte : k \notin a .. a + 15 => StoredMem(w, a)[k] = mem[k]

\* It is in the order of DMEM what its lane of the group was.
LEMMA TransposeStored ==
  ASSUME Memories, NEW v \in 0 .. NumVRegs - 1, v % 8 = 0, NEW e \in 0 .. 7,
         NEW w, w.op = "STV", w.v = v, w.e = 2 * e, NEW a \in DMemByte,
         \A k \in 0 .. 16 * NumVRegs - 1 : vr[k] = StartVRegs[k]
  PROVE  StoresLine(w, a, v, e)
<1>. DEFINE s == Swapped(Transposed(w), 0)
<1>1. StoredMem(w, a) = Copy(mem, a, s, 0, 16)
  BY DEF StoredMem
<1>2. a \in Nat /\ a .. a + 15 \subseteq MemByte /\ DOMAIN mem = MemByte
  BY LinesInMemory DEF Memories
<1>3. \A c \in 0 .. 15 : s[c] = Transposed(w)[Other(c)]
  <2>1. \A c \in 0 .. 15 : 0 + Other(c) = Other(c)
    BY DEF Other
  <2>. QED BY <2>1 DEF Swapped
<1>4. ASSUME NEW c \in 0 .. 15
      PROVE  s[c] = StartVRegs[16 * (v + ((e + c \div 2) % 8)) + Other(c)]
  <2>1. Other(c) \in 0 .. 15 /\ Other(c) \div 2 = c \div 2
    BY DEF Other
  <2>2. w.e \div 2 = e
    OBVIOUS
  <2>. DEFINE i == (e + c \div 2) % 8  d == Other(c)
  <2>3. i \in 0 .. 7
    OBVIOUS
  <2>4. Transposed(w)[d] = vr[16 * (v + i) + d]
    BY <2>1, <2>2 DEF Transposed
  <2>5. 16 * (v + i) + d \in 0 .. 16 * NumVRegs - 1
    <3>1. v + 7 < NumVRegs
      BY Sizes
    <3>2. d \in 0 .. 15 /\ v \in Nat
      BY <2>1, Sizes
    <3>. HIDE DEF i, d
    <3>. QED BY <2>3, <3>1, <3>2, Sizes
  <2>. QED BY <1>3, <2>4, <2>5
<1>. HIDE DEF s
<1>5. ASSUME NEW c \in 0 .. 15 PROVE Copy(mem, a, s, 0, 16)[a + c] = s[c]
  <2>1. a + c \in MemByte /\ a + c \in a .. a + 16 - 1 /\ 0 + (a + c) - a = c
    BY <1>2
  <2>. QED BY <1>2, <2>1 DEF Copy
<1>6. ASSUME NEW k \in MemByte, k \notin a .. a + 15
      PROVE  Copy(mem, a, s, 0, 16)[k] = mem[k]
  <2>1. a + 16 - 1 = a + 15
    BY <1>2
  <2>. QED BY <1>2, <1>6, <2>1 DEF Copy
<1>. QED BY <1>1, <1>4, <1>5, <1>6 DEF StoresLine, LineStored

\* The slice that LTV writes in each register of the group.
TurnedSlice(e, i) == IF e = 0 /\ i = 0 THEN 8 ELSE (e + i) % 8

\* The lane of an LTV of the group is that slice.
LEMMA LaneIs ==
  ASSUME NEW w, NEW e \in 0 .. 7, w.e = (16 - 2 * e) % 16, NEW i \in 0 .. 7
  PROVE  Lane(w, i) = TurnedSlice(e, i) /\ Lane(w, i) \in 0 .. 8
<1>1. CASE e = 0
  <2>1. w.e \div 2 = 0
    BY <1>1
  <2>2. i # 0 => (8 - 0 + i) % 8 = (e + i) % 8
    BY <1>1
  <2>. QED BY <1>1, <2>1, <2>2 DEF Lane, TurnedSlice
<1>2. CASE e # 0
  <2>1. w.e \div 2 = 8 - e
    <3>1. w.e = 16 - 2 * e
      BY <1>2
    <3>. QED BY <3>1
  <2>2. 8 - (8 - e) = e /\ e % 8 = e /\ e + 0 = e /\ (e + i) % 8 \in 0 .. 7
    OBVIOUS
  <2>. QED BY <1>2, <2>1, <2>2 DEF Lane, TurnedSlice
<1>. QED BY <1>1, <1>2

\* What an LTV of the group does to a slice: it turns it, or keeps it.
LoadsSlice(w, a, v, e, i, j) ==
  \A b \in 0 .. 1 :
    /\ TurnedSlice(e, i) = j =>
         LoadedVRegs(w, a)[Place(v, i, j) + b] = mem[a + Other(2 * i + b)]
    /\ TurnedSlice(e, i) # j /\ ~ (e = 0 /\ i = 1 /\ j = 0) =>
         LoadedVRegs(w, a)[Place(v, i, j) + b] = vr[Place(v, i, j) + b]

\* Slice 0 of the second register alone is neither turned nor kept, if the
\* element is 0.
LEMMA TransposeLoaded ==
  ASSUME Memories, NEW v \in 0 .. NumVRegs - 1, v % 8 = 0, NEW e \in 0 .. 7,
         NEW w, w.op = "LTV", w.v = v, w.e = (16 - 2 * e) % 16,
         NEW a \in DMemByte, a % 16 = 0,
         NEW i \in 0 .. 7, NEW j \in 0 .. 7
  PROVE  LoadsSlice(w, a, v, e, i, j)
<1>. SUFFICES ASSUME NEW b \in 0 .. 1
              PROVE  LET k == Place(v, i, j) + b IN
                     /\ TurnedSlice(e, i) = j =>
                          LoadedVRegs(w, a)[k] = mem[a + Other(2 * i + b)]
                     /\ TurnedSlice(e, i) # j /\ ~ (e = 0 /\ i = 1 /\ j = 0) =>
                          LoadedVRegs(w, a)[k] = vr[k]
  BY Zenon DEF LoadsSlice
<1>. DEFINE k == Place(v, i, j) + b
            line == Swapped(mem, Line(a))
            At(n) == 16 * (w.v + n) + 2 * Lane(w, n)
            Hits(n) == k \in {At(n), At(n) + 1}
            Last(n) == Hits(n) /\ \A m \in n + 1 .. 7 : k \notin {At(m), At(m) + 1}
            I == CHOOSE n \in 0 .. 7 : Last(n)
<1>1. /\ LoadedVRegs(w, a) = LoadTransposeVector(w, a)
      /\ v \in Nat /\ v + 7 < NumVRegs
  <2>1. LoadedVRegs(w, a) = LoadTransposeVector(w, a)
    BY DEF LoadedVRegs
  <2>. QED BY <2>1, Sizes
<1>2. k \in VRegByte
  <2>1. i \in Int /\ j \in Int /\ b \in Int
    OBVIOUS
  <2>. QED BY <1>1, <2>1, Sizes DEF VRegByte, Place
<1>3. LoadTransposeVector(w, a)[k]
        = IF \E n \in 0 .. 7 : Hits(n) THEN line[2 * I + k - At(I)] ELSE vr[k]
  BY <1>2, Zenon DEF LoadTransposeVector
<1>4. ASSUME NEW n \in 0 .. 7, NEW d \in 0 .. 1, k = At(n) + d
      PROVE  /\ d = b
             /\ TurnedSlice(e, n) # 8 => n = i /\ TurnedSlice(e, n) = j
             /\ TurnedSlice(e, n) = 8 => i = n + 1 /\ j = 0 /\ e = 0 /\ n = 0
  <2>. DEFINE l == Lane(w, n)
  <2>1. l = TurnedSlice(e, n) /\ l \in 0 .. 8
    BY LaneIs
  <2>2. At(n) = Place(v, n, l)
    BY DEF Place
  <2>. HIDE DEF l, At
  <2>3. Place(v, i, j) + b = Place(v, n, l) + d
    BY <1>4, <2>2
  <2>4. TurnedSlice(e, n) = 8 => e = 0 /\ n = 0
    BY DEF TurnedSlice
  <2>5. d = b /\ (l # 8 => n = i /\ l = j) /\ (l = 8 => i = n + 1 /\ j = 0)
    <3>. HIDE DEF k
    <3>1. l \in Int /\ 0 <= l /\ l <= 8
      BY <2>1
    <3>. QED BY <1>1, <2>3, <3>1 DEF Place
  <2>. QED BY <2>1, <2>4, <2>5
<1>5. \A n \in 0 .. 7 : At(n) \in Int
  <2>1. \A n \in 0 .. 7 : Lane(w, n) \in 0 .. 8
    BY LaneIs
  <2>. QED BY <1>1, <2>1
<1>6. \A n \in 0 .. 7 : Hits(n) => \E d \in 0 .. 1 : k = At(n) + d
  <2>. HIDE DEF At, k
  <2>1. \A n \in 0 .. 7 : At(n) + 0 = At(n)
    BY <1>5
  <2>. QED BY <2>1
<1>. HIDE DEF k, At, line
<1>7. ASSUME TurnedSlice(e, i) # j, ~ (e = 0 /\ i = 1 /\ j = 0)
      PROVE  LoadedVRegs(w, a)[k] = vr[k]
  <2>1. ASSUME NEW n \in 0 .. 7, Hits(n) PROVE FALSE
    <3>1. PICK d \in 0 .. 1 : k = At(n) + d
      BY <1>6, <2>1
    <3>. QED BY <1>4, <1>7, <3>1
  <2>. QED BY <1>1, <1>3, <2>1
<1>8. ASSUME TurnedSlice(e, i) = j
      PROVE  LoadedVRegs(w, a)[k] = mem[a + Other(2 * i + b)]
  <2>1. Lane(w, i) = j /\ k = At(i) + b
    BY <1>8, LaneIs DEF k, At, Place
  <2>2. Hits(i)
    <3>1. At(i) + 0 = At(i)
      BY <1>5
    <3>. QED BY <2>1, <3>1
  <2>3. TurnedSlice(e, i) # 8
    BY <1>8
  <2>4. ASSUME NEW n \in 0 .. 7, Hits(n) PROVE n = i
    <3>1. PICK d \in 0 .. 1 : k = At(n) + d
      BY <1>6, <2>4
    <3>2. TurnedSlice(e, n) # 8 => n = i
      BY <1>4, <3>1
    <3>3. TurnedSlice(e, n) = 8 => i = 1 /\ j = 0 /\ e = 0
      BY <1>4, <3>1
    <3>4. i = 1 /\ e = 0 => TurnedSlice(e, i) = 1
      BY DEF TurnedSlice
    <3>. QED BY <1>8, <3>2, <3>3, <3>4
  <2>5. Last(i)
    <3>1. \A m \in i + 1 .. 7 : m \in 0 .. 7 /\ m # i
      OBVIOUS
    <3>. QED BY <2>2, <2>4, <3>1
  <2>6. I \in 0 .. 7 /\ Last(I)
    <3>. HIDE DEF Last
    <3>. QED BY <2>5
  <2>7. I = i
    <3>. HIDE DEF I
    <3>. QED BY <2>4, <2>6
  <2>8. 2 * I + k - At(I) = 2 * i + b
    <3>1. At(i) \in Int
      BY <1>5
    <3>. HIDE DEF I
    <3>. QED BY <2>1, <2>7, <3>1
  <2>9. 2 * i + b \in 0 .. 15
    OBVIOUS
  <2>10. Line(a) = a
    <3>1. a \in Nat
      BY LinesInMemory
    <3>. QED BY <3>1 DEF Line
  <2>. HIDE DEF I, Hits
  <2>11. line[2 * i + b] = mem[a + Other(2 * i + b)]
    BY <2>9, <2>10 DEF line, Swapped
  <2>12. LoadTransposeVector(w, a)[k] = line[2 * I + k - At(I)]
    BY <1>3, <2>2
  <2>. QED BY <1>1, <2>8, <2>11, <2>12
<1>. QED BY <1>7, <1>8 DEF k

\* The instructions of the program.
LEMMA TranspositionIs ==
  ASSUME TypeOK, NEW v, NEW base, NEW turn, IsTransposition(v, base, turn)
  PROVE  /\ Len(prog) = 16 /\ pos \in 1 .. 17 /\ DOMAIN prog = 1 .. 16
         /\ \A n \in 1 .. 8 :
              /\ prog[n].op = "STV" /\ prog[n].v = v
              /\ prog[n].e = 2 * Stores(n, turn)
              /\ Address(prog[n]) = LineAt(base, Stores(n, turn))
         /\ \A n \in 9 .. 16 :
              /\ prog[n].op = "LTV" /\ prog[n].v = v
              /\ prog[n].e = (16 - 2 * (n - 9)) % 16
              /\ Address(prog[n]) = LineAt(base, n - 9)
<1>1. DOMAIN prog = 1 .. 16
  BY DEF IsTransposition, Transposition
<1>2. Len(prog) = 16 /\ pos \in 1 .. 17
  <2>1. DOMAIN prog = 1 .. Len(prog) /\ Len(prog) \in Nat /\ pos \in 1 .. Len(prog) + 1
    BY SeqDomain DEF TypeOK
  <2>2. Len(prog) = 16
    <3>1. 16 \in 1 .. Len(prog) /\ 17 \notin 1 .. Len(prog)
      BY <1>1, <2>1
    <3>. QED BY <2>1, <3>1
  <2>. QED BY <2>1, <2>2
<1>3. ASSUME NEW n \in 1 .. 8
      PROVE  /\ prog[n].op = "STV" /\ prog[n].v = v
             /\ prog[n].e = 2 * Stores(n, turn)
             /\ Address(prog[n]) = LineAt(base, Stores(n, turn))
  <2>1. n \in 1 .. 16 /\ n <= 8
    OBVIOUS
  <2>2. prog[n] = [op |-> "STV", v |-> v, e |-> 2 * Stores(n, turn), at |-> base,
                   offset |-> Stores(n, turn)]
    BY <2>1 DEF IsTransposition, Transposition, Stores
  <2>3. Unit("STV") = 16
    BY DEF Unit
  <2>. QED BY <2>2, <2>3 DEF Address, LineAt
<1>4. ASSUME NEW n \in 9 .. 16
      PROVE  /\ prog[n].op = "LTV" /\ prog[n].v = v
             /\ prog[n].e = (16 - 2 * (n - 9)) % 16
             /\ Address(prog[n]) = LineAt(base, n - 9)
  <2>1. n \in 1 .. 16 /\ ~ (n <= 8)
    OBVIOUS
  <2>2. prog[n] = [op |-> "LTV", v |-> v, e |-> (16 - 2 * (n - 9)) % 16, at |-> base,
                   offset |-> n - 9]
    BY <2>1 DEF IsTransposition, Transposition
  <2>3. Unit("LTV") = 16
    BY DEF Unit
  <2>. QED BY <2>2, <2>3 DEF Address, LineAt
<1>. QED BY <1>1, <1>2, <1>3, <1>4

\* The STVs store one line after the other, and every line is stored.
LEMMA EveryLine ==
  ASSUME NEW turn \in 0 .. 7
  PROVE  /\ \A n \in 1 .. 8 : Stores(n, turn) \in 0 .. 7
         /\ \A n, m \in 1 .. 8 : n # m => Stores(n, turn) # Stores(m, turn)
         /\ \A e \in 0 .. 7 : \E n \in 1 .. 8 : Stores(n, turn) = e
<1>1. \A n \in 1 .. 8 :
        /\ n - 1 + turn < 8 => Stores(n, turn) = n - 1 + turn
        /\ n - 1 + turn >= 8 => Stores(n, turn) = n - 1 + turn - 8
  BY DEF Stores
<1>2. ASSUME NEW e \in 0 .. 7 PROVE \E n \in 1 .. 8 : Stores(n, turn) = e
  <2>1. CASE e >= turn
    <3>1. e - turn + 1 \in 1 .. 8 /\ (e - turn + 1) - 1 + turn = e
      BY <2>1
    <3>. QED BY <1>1, <3>1
  <2>2. CASE e < turn
    <3>1. e - turn + 9 \in 1 .. 8 /\ (e - turn + 9) - 1 + turn - 8 = e
      BY <2>2
    <3>. QED BY <1>1, <3>1
  <2>. QED BY <2>1, <2>2
<1>3. \A n \in 1 .. 8 : Stores(n, turn) \in 0 .. 7
  BY <1>1
<1>4. \A n, m \in 1 .. 8 : n # m => Stores(n, turn) # Stores(m, turn)
  BY <1>1
<1>. QED BY <1>2, <1>3, <1>4

\* An STV stores its line and keeps what was stored before.
LEMMA StoreTurns ==
  ASSUME DMemBytes >= 128, TypeOK, NEW v, NEW base, NEW turn,
         IsTransposition(v, base, turn), TurnedBefore(pos, mem, vr, v, base, turn),
         Effect(prog[pos], Address(prog[pos])), pos <= 8
  PROVE  TurnedBefore(pos + 1, mem', vr', v, base, turn)
<1>. DEFINE w == prog[pos]
            e == Stores(pos, turn)
            a == LineAt(base, e)
<1>1. /\ v \in 0 .. NumVRegs - 1 /\ base \in Nat /\ turn \in 0 .. 7
      /\ \A n \in 1 .. 8 : n < pos =>
           LineStored(mem, v, LineAt(base, Stores(n, turn)), Stores(n, turn))
      /\ \A k \in 0 .. 16 * NumVRegs - 1 : vr[k] = StartVRegs[k]
      /\ SliceTurned(vr, v, 0, 0)
  <2>1. pos <= 9
    BY TranspositionIs
  <2>. QED BY <2>1, Zenon DEF TurnedBefore
<1>2. /\ pos \in 1 .. 8 /\ w.op = "STV" /\ w.v = v /\ w.e = 2 * e /\ Address(w) = a
      /\ e \in 0 .. 7
  <2>1. pos \in 1 .. 8
    BY TranspositionIs
  <2>. QED BY <1>1, <2>1, TranspositionIs, EveryLine
<1>3. /\ Accepts(w) /\ a \in DMemByte /\ mem' = StoredMem(w, a)
      /\ vr' = Copy(vr, 16 * NumVRegs, Transposed(w), 0, 16)
  <2>1. w.op \in VectorStore
    BY <1>2 DEF VectorStore
  <2>. QED BY <1>2, <2>1, Zenon DEF Effect
<1>4. v % 8 = 0 /\ a % 16 = 0
  BY <1>2, <1>3 DEF Accepts, Start
<1>. HIDE DEF w
<1>5. base % 16 = 0
  <2>. DEFINE x == base + e * 16
  <2>1. x \in Int /\ x % 16 = base % 16
    BY <1>1, <1>2
  <2>. HIDE DEF x
  <2>2. (x % DMemBytes) % 16 = x % 16
    BY <2>1, PlaceInLine
  <2>. QED BY <1>4, <2>1, <2>2 DEF LineAt, x
<1>6. /\ Memories /\ LineStored(mem', v, a, e)
      /\ \A k \in MemByte : k \notin a .. a + 15 => mem'[k] = mem[k]
  <2>1. Memories
    BY Zenon DEF TypeOK, Memories
  <2>. HIDE DEF e, a
  <2>2. StoresLine(w, a, v, e)
    BY <1>1, <1>2, <1>3, <1>4, <2>1, TransposeStored
  <2>. QED BY <1>3, <2>1, <2>2 DEF StoresLine
<1>7. ASSUME NEW n \in 1 .. 8, n < pos + 1
      PROVE  LineStored(mem', v, LineAt(base, Stores(n, turn)), Stores(n, turn))
  <2>1. CASE n = pos
    BY <1>6, <2>1
  <2>2. CASE n # pos
    <3>. DEFINE f == Stores(n, turn)  l == LineAt(base, f)
    <3>1. n < pos /\ f \in 0 .. 7 /\ f # e
      BY <1>1, <1>2, <1>7, <2>2, EveryLine
    <3>2. l \in DMemByte /\ \A c, d \in 0 .. 15 : l + c # a + d
      BY <1>1, <1>2, <1>5, <3>1, LinesApart
    <3>3. LineStored(mem, v, l, f)
      BY <1>1, <3>1
    <3>. HIDE DEF f, l, e, a
    <3>4. ASSUME NEW c \in 0 .. 15 PROVE mem'[l + c] = mem[l + c]
      <4>1. l \in Nat /\ l + c \in MemByte /\ a \in Nat
        BY <1>3, <3>2, LinesInMemory
      <4>2. l + c \notin a .. a + 15
        <5>1. SUFFICES ASSUME l + c \in a .. a + 15 PROVE FALSE
          OBVIOUS
        <5>2. (l + c) - a \in 0 .. 15 /\ l + c = a + ((l + c) - a)
          BY <4>1, <5>1
        <5>. QED BY <3>2, <5>2
      <4>. QED BY <1>6, <4>1, <4>2
    <3>5. LineStored(mem', v, l, f)
      BY <3>3, <3>4 DEF LineStored
    <3>. QED BY <3>5 DEF f, l
  <2>. QED BY <2>1, <2>2
<1>8. \A k \in 0 .. 16 * NumVRegs - 1 : vr'[k] = vr[k]
  <2>1. ASSUME NEW k \in 0 .. 16 * NumVRegs - 1 PROVE vr'[k] = vr[k]
    <3>1. k \in VRegByte /\ k \notin 16 * NumVRegs .. 16 * NumVRegs + 16 - 1
      BY Sizes DEF VRegByte
    <3>2. DOMAIN vr = VRegByte
      BY DEF TypeOK
    <3>. QED BY <1>3, <3>1, <3>2 DEF Copy
  <2>. QED BY <2>1
<1>9. SliceTurned(vr', v, 0, 0)
  <2>1. \A b \in 0 .. 1 : Place(v, 0, 0) + b \in 0 .. 16 * NumVRegs - 1
    BY <1>1, Sizes DEF Place
  <2>. QED BY <1>1, <1>8, <2>1 DEF SliceTurned
<1>10. ~ (pos + 1 > 9)
  BY <1>2
<1>11. \A k \in 0 .. 16 * NumVRegs - 1 : vr'[k] = StartVRegs[k]
  BY <1>1, <1>8
<1>. QED BY <1>1, <1>4, <1>5, <1>7, <1>9, <1>10, <1>11, Zenon DEF TurnedBefore

\* An LTV turns the slices its number away from the diagonal and keeps those
\* nearer to it.
LEMMA LoadTurns ==
  ASSUME DMemBytes >= 128, TypeOK, NEW v, NEW base, NEW turn,
         IsTransposition(v, base, turn), TurnedBefore(pos, mem, vr, v, base, turn),
         Effect(prog[pos], Address(prog[pos])), pos > 8
  PROVE  TurnedBefore(pos + 1, mem', vr', v, base, turn)
<1>. DEFINE w == prog[pos]
            e == pos - 9
            a == LineAt(base, e)
<1>1. /\ pos \in 9 .. 16 /\ w.op = "LTV" /\ w.v = v /\ w.e = (16 - 2 * e) % 16
      /\ Address(w) = a /\ e \in 0 .. 7
  <2>1. pos \in 9 .. 16
    BY TranspositionIs DEF Effect
  <2>. QED BY <2>1, TranspositionIs
<1>2. /\ v \in 0 .. NumVRegs - 1 /\ base \in Nat /\ turn \in 0 .. 7
      /\ v % 8 = 0 /\ base % 16 = 0
      /\ \A n \in 1 .. 8 :
           LineStored(mem, v, LineAt(base, Stores(n, turn)), Stores(n, turn))
      /\ SliceTurned(vr, v, 0, 0)
      /\ SlicesTurned(vr, v, e)
  <2>1. pos > 1 /\ (\A n \in 1 .. 8 : n < pos) /\ (pos > 9 \/ e = 0)
    BY <1>1
  <2>2. e = 0 => SlicesTurned(vr, v, e)
    <3>1. e = 0 => \A i, j \in 0 .. 7 : ~ ((j - i) % 8 < e)
      OBVIOUS
    <3>. QED BY <3>1, Zenon DEF SlicesTurned
  <2>. QED BY <2>1, <2>2 DEF TurnedBefore
<1>3. mem' = mem /\ vr' = LoadedVRegs(w, a)
  <2>1. w.op \in VectorLoad
    BY <1>1 DEF VectorLoad
  <2>. QED BY <1>1, <2>1, Zenon DEF Effect
<1>. HIDE DEF w
<1>4. a \in DMemByte /\ a % 16 = 0
  BY <1>1, <1>2, LinesApart
<1>5. LineStored(mem, v, a, e)
  <2>1. PICK n \in 1 .. 8 : Stores(n, turn) = e
    BY <1>1, <1>2, EveryLine
  <2>. QED BY <1>2, <2>1
<1>. HIDE DEF e, a
<1>6. ASSUME NEW i \in 0 .. 7, NEW j \in 0 .. 7
      PROVE  \A b \in 0 .. 1 :
             /\ TurnedSlice(e, i) = j =>
                  vr'[Place(v, i, j) + b] = mem[a + Other(2 * i + b)]
             /\ TurnedSlice(e, i) # j /\ ~ (e = 0 /\ i = 1 /\ j = 0) =>
                  vr'[Place(v, i, j) + b] = vr[Place(v, i, j) + b]
  <2>1. Memories
    BY Zenon DEF TypeOK, Memories
  <2>2. LoadsSlice(w, a, v, e, i, j)
    BY <1>1, <1>2, <1>4, <2>1, TransposeLoaded
  <2>. QED BY <1>3, <2>2 DEF LoadsSlice
<1>7. ASSUME NEW i \in 0 .. 7, NEW j \in 0 .. 7, SliceTurned(vr, v, i, j),
             TurnedSlice(e, i) # j, ~ (e = 0 /\ i = 1 /\ j = 0)
      PROVE  SliceTurned(vr', v, i, j)
  BY <1>6, <1>7 DEF SliceTurned
<1>8. ASSUME NEW i \in 0 .. 7, NEW j \in 0 .. 7, TurnedSlice(e, i) = j
      PROVE  SliceTurned(vr', v, i, j)
  <2>1. ASSUME NEW b \in 0 .. 1
        PROVE  mem[a + Other(2 * i + b)] = StartVRegs[Place(v, j, i) + b]
    <3>. DEFINE c == Other(2 * i + b)
    <3>1. c \in 0 .. 15 /\ c \div 2 = i /\ Other(c) = 2 * i + b
      BY DEF Other
    <3>2. (e + i) % 8 = j
      BY <1>8 DEF TurnedSlice
    <3>. HIDE DEF c
    <3>3. mem[a + c] = StartVRegs[16 * (v + ((e + c \div 2) % 8)) + Other(c)]
      BY <1>5, <3>1 DEF LineStored
    <3>4. mem[a + c] = StartVRegs[16 * (v + j) + (2 * i + b)]
      BY <3>1, <3>2, <3>3
    <3>5. 16 * (v + j) + (2 * i + b) = Place(v, j, i) + b
      BY <1>2, Sizes DEF Place
    <3>. QED BY <3>4, <3>5 DEF c
  <2>. QED BY <1>6, <1>8, <2>1 DEF SliceTurned
<1>9. TurnedSlice(e, 0) # 0
  BY <1>1 DEF TurnedSlice
<1>10. SliceTurned(vr', v, 0, 0)
  BY <1>2, <1>7, <1>9
<1>11. ASSUME NEW i \in 0 .. 7, NEW j \in 0 .. 7, (j - i) % 8 < e + 1
       PROVE  SliceTurned(vr', v, i, j)
  <2>1. CASE e = 0 /\ i = 0
    <3>1. j = 0
      BY <1>11, <2>1
    <3>. QED BY <1>10, <2>1, <3>1
  <2>2. CASE (e # 0 \/ i # 0) /\ (j - i) % 8 = e
    <3>1. TurnedSlice(e, i) = j
      BY <1>1, <2>2 DEF TurnedSlice
    <3>. QED BY <1>8, <3>1
  <2>3. CASE (j - i) % 8 < e
    <3>1. TurnedSlice(e, i) # j /\ e # 0
      BY <1>1, <2>3 DEF TurnedSlice
    <3>. QED BY <1>2, <1>7, <2>3, <3>1 DEF SlicesTurned
  <2>4. (j - i) % 8 = e \/ (j - i) % 8 < e
    BY <1>1, <1>11
  <2>. QED BY <2>1, <2>2, <2>3, <2>4
<1>12. ~ (pos + 1 <= 9) /\ (pos + 1) - 9 = e + 1
  BY <1>1 DEF e
<1>13. \A n \in 1 .. 8 :
         LineStored(mem', v, LineAt(base, Stores(n, turn)), Stores(n, turn))
  BY <1>2, <1>3, Zenon
<1>14. SlicesTurned(vr', v, (pos + 1) - 9)
  BY <1>11, <1>12, Zenon DEF SlicesTurned
<1>. QED BY ONLY <1>2, <1>10, <1>12, <1>13, <1>14, Zenon DEF TurnedBefore

\* Nothing is turned at first but what lies on the diagonal,
LEMMA TurnInit == Init => TurnInv
<1>. SUFFICES ASSUME Init, prog # <<>> PROVE
       TurnedBefore(pos, mem, vr, prog[1].v, prog[1].at, prog[1].e \div 2)
  BY DEF TurnInv
<1>1. pos = 1 /\ vr = StartVRegs
  BY Zenon DEF Init
<1>2. prog \in Seq(Instruction)
  BY TypeInit, Zenon DEF TypeOK
<1>3. prog[1] \in Instruction
  <2>1. Len(prog) # 0 /\ DOMAIN prog = 1 .. Len(prog) /\ Len(prog) \in Nat
    BY <1>2
  <2>2. 1 \in DOMAIN prog
    BY <2>1
  <2>. QED BY <1>2, <2>2
<1>4. /\ prog[1].v \in 0 .. NumVRegs - 1 /\ prog[1].at \in Nat
      /\ prog[1].e \div 2 \in 0 .. 7
  <2>1. prog[1].e \in 0 .. 15
    BY <1>3 DEF Instruction
  <2>. QED BY <1>3, <2>1 DEF Instruction
<1>5. SliceTurned(vr, prog[1].v, 0, 0)
  BY <1>1 DEF SliceTurned
<1>6. ~ (pos > 1) /\ ~ (pos > 9) /\ \A n \in 1 .. 8 : ~ (n < pos)
  BY <1>1
<1>7. \A k \in 0 .. 16 * NumVRegs - 1 : vr[k] = StartVRegs[k]
  BY <1>1
<1>. QED BY ONLY <1>4, <1>5, <1>6, <1>7, Zenon DEF TurnedBefore

\* and every instruction does its part.
LEMMA TurnStep ==
  ASSUME DMemBytes >= 128
  PROVE  TypeOK /\ TurnInv /\ [Next]_vars => TurnInv'
<1>. SUFFICES ASSUME TypeOK, TurnInv, [Next]_vars PROVE TurnInv'
  OBVIOUS
<1>1. CASE UNCHANGED vars
  BY <1>1, Zenon DEF vars, TurnInv, IsTransposition
<1>2. CASE Effect(prog[pos], Address(prog[pos]))
  <2>. DEFINE v == prog[1].v
              base == prog[1].at
              turn == prog[1].e \div 2
  <2>1. pos' = pos + 1 /\ prog' = prog
    BY <1>2, Zenon DEF Effect
  <2>2. SUFFICES ASSUME prog # <<>>, IsTransposition(v, base, turn)
                 PROVE  TurnedBefore(pos + 1, mem', vr', v, base, turn)
    BY <2>1, Zenon DEF TurnInv, IsTransposition
  <2>3. TurnedBefore(pos, mem, vr, v, base, turn)
    BY <2>2, Zenon DEF TurnInv
  <2>4. pos \in 1 .. 17
    BY <2>2, TranspositionIs
  <2>. HIDE DEF v, base, turn
  <2>5. CASE pos <= 8
    BY <1>2, <2>2, <2>3, <2>5, StoreTurns
  <2>6. CASE pos > 8
    BY <1>2, <2>2, <2>3, <2>6, LoadTurns
  <2>. QED BY <2>4, <2>5, <2>6
<1>. QED BY <1>1, <1>2, StepEffect

\* After the last instruction every slice is turned.
LEMMA AllTurned == TurnInv => TransposesInPlace
<1>. SUFFICES ASSUME TurnInv, prog # <<>>, pos = 17,
                     prog = Transposition(prog[1].v, prog[1].v, prog[1].at,
                                          prog[1].e \div 2),
                     NEW i \in 0 .. 7, NEW j \in 0 .. 7
              PROVE  SliceOf(prog[1].v + i, j) = StartSliceOf(prog[1].v + j, i)
  BY Zenon DEF TransposesInPlace, Transposes
<1>. DEFINE v == prog[1].v
<1>1. TurnedBefore(pos, mem, vr, v, prog[1].at, prog[1].e \div 2)
  BY Zenon DEF TurnInv, IsTransposition
<1>2. v \in Nat /\ SlicesTurned(vr, v, pos - 9)
  BY <1>1, Sizes DEF TurnedBefore
<1>3. (j - i) % 8 < pos - 9
  OBVIOUS
<1>4. SliceTurned(vr, v, i, j)
  BY <1>2, <1>3 DEF SlicesTurned
<1>. HIDE DEF v
<1>5. /\ Place(v, i, j) + 0 = 16 * (v + i) + 2 * j
      /\ Place(v, i, j) + 1 = 16 * (v + i) + 2 * j + 1
      /\ Place(v, j, i) + 0 = 16 * (v + j) + 2 * i
      /\ Place(v, j, i) + 1 = 16 * (v + j) + 2 * i + 1
  BY <1>2 DEF Place
<1>6. /\ vr[Place(v, i, j) + 0] = StartVRegs[Place(v, j, i) + 0]
      /\ vr[Place(v, i, j) + 1] = StartVRegs[Place(v, j, i) + 1]
  BY <1>4 DEF SliceTurned
<1>7. SliceOf(v + i, j) = StartSliceOf(v + j, i)
  BY <1>5, <1>6 DEF SliceOf, StartSliceOf
<1>. QED BY <1>7 DEF v

\* Eight STVs and eight LTVs of what they stored transpose any group of vector
\* registers in place, whatever they hold, wherever in a DMEM of eight lines or
\* more the buffer is, also round the end, and with whatever line the stores
\* begin (RSPSTV, StoreTransposeVector, LoadTransposeVector).
THEOREM TransposedInPlace ==
  ASSUME DMemBytes >= 128
  PROVE  Spec => []TransposesInPlace
<1>1. Init => TypeOK /\ TurnInv
  BY TypeInit, TurnInit, Zenon
<1>2. (TypeOK /\ TurnInv) /\ [Next]_vars => (TypeOK /\ TurnInv)'
  BY TypeStep, TurnStep, Zenon
<1>3. TypeOK /\ TurnInv => TransposesInPlace
  BY AllTurned, Zenon
<1>. QED BY <1>1, <1>2, <1>3, PTL DEF Spec
=============================================================================
