-------------------------- MODULE DMAGeometryProofs --------------------------
(***************************************************************************)
(* The properties of DMAGeometry, for memories and RDRAM of any size, any  *)
(* addresses, and rows of any length, number and spacing.                  *)
(***************************************************************************)
EXTENDS DMAGeometry, SPDMAProofs, FiniteSetTheorems, TLAPS

(***************************************************************************)
(* The inductive invariant: the memories are what the transfers made so    *)
(* far leave of the initial ones.                                          *)
(***************************************************************************)
Zeros == [a \in MemWord |-> 0]
Blank == [a \in DramWord |-> 0]

RegistersTyped ==
  /\ at \in [mem : 0 .. 2 * MemBytes - 1, dram : 0 .. 2 * DramBytes - 1]
  /\ len \in Lengths
  /\ step \in {"read", "write", "done"}

MemHolds ==
  mem = IF step = "read" THEN Zeros ELSE DMARead(Zeros, Fresh, at, len)

DramHolds ==
  dram = IF step = "done" THEN DMAWrite(mem, Blank, at, len) ELSE Fresh

Inv == RegistersTyped /\ MemHolds /\ DramHolds

\* No transfer has been made yet.
LEMMA InitInv == Init => Inv
<1>. SUFFICES ASSUME Init PROVE Inv
  OBVIOUS
<1>1. at.mem \in 0 .. 2 * MemBytes - 1 /\ at.dram \in 0 .. 2 * DramBytes - 1
  <2>1. /\ 2 * MemBytes \in Nat \ {0} /\ 2 * DramBytes \in Nat \ {0}
        /\ \A a \in Nat : a % (2 * MemBytes) \in 0 .. 2 * MemBytes - 1
        /\ \A a \in Nat : a % (2 * DramBytes) \in 0 .. 2 * DramBytes - 1
    BY DMASizesAssumption
  <2>2. /\ at.mem \in {a % (2 * MemBytes) : a \in MemAddrs}
        /\ at.dram \in {a % (2 * DramBytes) : a \in DramAddrs}
    BY DEF Init, MemAddr, DramAddr
  <2>. QED BY <2>1, <2>2, GeometryAssumption
<1>2. at = [mem |-> at.mem, dram |-> at.dram]
  BY DEF Init
<1>. QED BY <1>1, <1>2, GeometryAssumption
     DEF Init, Inv, RegistersTyped, MemHolds, DramHolds, Zeros

\* Each of the two transfers keeps the invariant: it copies words as its loop
\* says.
LEMMA StepInv == Inv /\ [Next]_vars => Inv'
<1>. SUFFICES ASSUME Inv, [Next]_vars PROVE Inv'
  OBVIOUS
<1>. USE DEF Inv, RegistersTyped, MemHolds, DramHolds
<1>1. CASE Read
  BY <1>1, Zenon DEF Read
<1>2. CASE Write
  BY <1>2, Zenon DEF Write, Blank
<1>3. CASE Done
  BY <1>3, Zenon DEF Done, vars
<1>4. CASE UNCHANGED vars
  BY <1>4, Zenon DEF vars
<1>. QED BY <1>1, <1>2, <1>3, <1>4 DEF Next

(***************************************************************************)
(* What the transfer into the RSP did.                                     *)
(***************************************************************************)
To == MemWords(at, len, RowBytes + len.skip)
From == DramWords(at, len, RowBytes)
Words == 0 .. Passes(at, len) - 1

\* A word is touched if and only if it was written, and what is in it tells
\* the word of RDRAM it came from.
Brought(a) ==
  \/ \E n \in Words : To[n] = a /\ mem[a] = From[n] + 1
  \/ (\A n \in Words : To[n] # a) /\ mem[a] = 0

\* After the read every word of the memory of the RSP is what the read left
\* there.
LEMMA AfterTheRead ==
  ASSUME Inv, step # "read"
  PROVE  /\ Passes(at, len) \in Nat
         /\ \A n \in Words : To[n] \in MemWord /\ From[n] \in DramWord
         /\ mem = [a \in MemWord |-> mem[a]]
         /\ \A a \in MemWord : Brought(a)
<1>1. at \in [mem : Nat, dram : Nat] /\ len \in Lengths
  BY DEF Inv, RegistersTyped
<1>2. RowBytes \in Nat /\ RowBytes + len.skip \in Nat
  BY <1>1, RowFits DEF RowBytes, Lengths
<1>3. /\ Passes(at, len) \in Nat
      /\ \A n \in Words : To[n] \in MemWord /\ From[n] \in DramWord
  BY <1>1, <1>2, WordsInMemories DEF Words, To, From
<1>4. mem = Copies(Zeros, Fresh, To, From, Passes(at, len))
  BY Zenon DEF Inv, MemHolds, DMARead, To, From, RowBytes
<1>5. Zeros = [a \in MemWord |-> Zeros[a]]
  BY DEF Zeros
<1>6. /\ mem = [a \in MemWord |-> mem[a]]
      /\ \A a \in MemWord : Copied(a, mem, Zeros, Fresh, To, From, Passes(at, len))
  BY <1>3, <1>4, <1>5, CopiesMove
<1>7. ASSUME NEW a \in MemWord PROVE Brought(a)
  <2>1. Copied(a, mem, Zeros, Fresh, To, From, Passes(at, len))
    BY <1>6
  <2>. QED BY <1>3, <2>1 DEF Copied, Brought, Zeros, Fresh, Words
<1>. QED BY <1>3, <1>6, <1>7

\* No word of Fresh is zero, so the words that changed are those copied to.
LEMMA TouchedMeansWritten ==
  ASSUME Inv, step # "read"
  PROVE  Touched = {a \in MemWord : \E n \in Words : To[n] = a}
<1>1. \A d \in DramWord : d + 1 # 0
  BY DEF DramWord
<1>2. ASSUME NEW a \in MemWord
      PROVE  mem[a] # 0 <=> \E n \in Words : To[n] = a
  <2>1. Brought(a) /\ \A n \in Words : From[n] \in DramWord
    BY AfterTheRead
  <2>. QED BY <1>1, <2>1 DEF Brought
<1>. QED BY <1>2 DEF Touched
(***************************************************************************)
(* SingleRowStaysInside.  "Check length" ends the row where the memory     *)
(* ends, and a row that is all there is does not wrap.                     *)
(***************************************************************************)

\* Word n of the only row of a transfer.
LEMMA SingleRowPlace ==
  ASSUME Inv, Rows = 1, NEW n \in Words
  PROVE  To[n] \in Nat /\ (4 * To[n]) \div MemBytes = at.mem \div MemBytes
<1>. DEFINE words == RowBytes \div 4
            A == at.mem \div 4
            first == Align(at.mem, 4) % MemBytes
            half == at.mem \div MemBytes
<1>1. PICK m \in Nat \ {0} : MemBytes = 8 * m /\ (2 * MemBytes) \div 4 = 4 * m
  BY MemSize
<1>2. at \in [mem : Nat, dram : Nat] /\ len \in Lengths /\ at.mem < 16 * m
  BY <1>1 DEF Inv, RegistersTyped
<1>3. /\ words \in Nat \ {0} /\ RowBytes = 4 * words
      /\ first + RowBytes <= MemBytes
  BY <1>2, RowFits DEF RowBytes
<1>4. Align(at.mem, 4) = 4 * A /\ A \in Nat
  BY <1>2, Aligned
<1>5. Passes(at, len) = words
  <2>1. len.count + 1 = 1
    BY DEF Rows
  <2>. QED BY <1>3, <2>1 DEF Passes, RowBytes
<1>6. n \in Nat /\ n < words /\ n \div words = 0 /\ n % words = n
  <2>1. n \in Nat /\ n < words
    BY <1>3, <1>5 DEF Words
  <2>. HIDE DEF words
  <2>. QED BY <1>3, <2>1
<1>7. To[n] = (A + n) % (4 * m)
  <2>. DEFINE pitch == RowBytes + len.skip
  <2>1. pitch \in Nat
    BY <1>2, <1>3 DEF Lengths
  <2>2. To[n] = MemIndex(Align(at.mem, 4) + (n \div words) * pitch, n % words)
    BY DEF To, MemWords, RowBytes, Words
  <2>. HIDE DEF pitch
  <2>3. Align(at.mem, 4) + (n \div words) * pitch = 4 * A
    BY <1>4, <1>6, <2>1
  <2>4. (4 * A) \div 4 = A
    BY <1>4
  <2>. QED BY <1>1, <1>6, <2>2, <2>3, <2>4 DEF MemIndex
<1>8. 4 * A <= at.mem /\ at.mem < 4 * A + 4
  BY <1>2
<1>. HIDE DEF words, A
<1>9. CASE at.mem < 8 * m
  <2>1. A < 2 * m
    BY <1>1, <1>2, <1>4, <1>8, <1>9
  <2>2. first = 4 * A
    BY <1>1, <1>4, <2>1
  <2>3. A + n < 2 * m
    BY <1>1, <1>3, <1>4, <1>6, <2>2
  <2>4. To[n] = A + n
    BY <1>1, <1>4, <1>6, <1>7, <2>3
  <2>5. (4 * To[n]) \div MemBytes = 0
    BY <1>1, <1>4, <1>6, <2>3, <2>4
  <2>6. at.mem \div MemBytes = 0
    BY <1>1, <1>2, <1>9
  <2>. QED BY <1>4, <1>6, <2>4, <2>5, <2>6
<1>10. CASE ~(at.mem < 8 * m)
  <2>1. 2 * m <= A /\ A < 4 * m
    BY <1>1, <1>2, <1>4, <1>8, <1>10
  <2>2. first = 4 * A - 8 * m
    <3>1. 4 * A \in MemBytes .. 2 * MemBytes - 1 /\ MemBytes \in Nat \ {0}
      BY <1>1, <1>4, <2>1
    <3>. QED BY <1>1, <1>4, <3>1, SecondHalf
  <2>3. A + n < 4 * m
    BY <1>1, <1>3, <1>4, <1>6, <2>2
  <2>4. To[n] = A + n
    BY <1>1, <1>4, <1>6, <1>7, <2>3
  <2>5. (4 * To[n]) \div MemBytes = 1
    <3>1. 4 * To[n] \in MemBytes .. 2 * MemBytes - 1 /\ MemBytes \in Nat \ {0}
      BY <1>1, <1>4, <1>6, <2>1, <2>3, <2>4
    <3>. QED BY <3>1, SecondHalf
  <2>6. at.mem \div MemBytes = 1
    <3>1. at.mem \in MemBytes .. 2 * MemBytes - 1 /\ MemBytes \in Nat \ {0}
      BY <1>1, <1>2, <1>10
    <3>. QED BY <3>1, SecondHalf
  <2>. QED BY <1>4, <1>6, <2>4, <2>5, <2>6
<1>. QED BY <1>9, <1>10

\* Row is cut where its memory ends, so its words lie on the same side of
\* MemBytes.
LEMMA InvSingleRow == Inv => SingleRowStaysInside
<1>. SUFFICES ASSUME Inv, Rows = 1, NEW a \in Touched
              PROVE  (4 * a) \div MemBytes = at.mem \div MemBytes
  BY DEF SingleRowStaysInside
<1>1. step # "read"
  BY DEF Inv, MemHolds, Touched, Zeros
<1>2. PICK n \in Words : To[n] = a
  BY <1>1, TouchedMeansWritten
<1>. QED BY <1>2, SingleRowPlace

\* A transfer of one row, at whatever address it starts and however long it
\* claims to be, stays in the memory of the RSP it starts in.
THEOREM RowsConfined == Spec => []SingleRowStaysInside
BY InitInv, StepInv, InvSingleRow, PTL DEF Spec
(***************************************************************************)
(* RoundTrip.  Without skip the words of a transfer are consecutive in     *)
(* both memories; as long as there are no more of them than the RSP has,   *)
(* none is overwritten, and the transfer back copies each to where it      *)
(* came from.                                                              *)
(***************************************************************************)
LEMMA AfterTheWrite ==
  ASSUME Inv, step = "done", len.skip = 0
  PROVE  \A d \in DramWord :
           Copied(d, dram, Blank, mem, From, To, Passes(at, len))
<1>1. RowBytes + len.skip = RowBytes
  BY RowFits DEF Inv, RegistersTyped, RowBytes
<1>2. dram = Copies(Blank, mem, From, To, Passes(at, len))
  <2>1. dram = DMAWrite(mem, Blank, at, len)
    BY DEF Inv, DramHolds
  <2>. QED BY <1>1, <2>1, Zenon DEF DMAWrite, From, To, RowBytes
<1>3. Passes(at, len) \in Nat
  BY AfterTheRead
<1>4. Blank = [d \in DramWord |-> Blank[d]]
  BY DEF Blank
<1>. QED BY <1>2, <1>3, <1>4, CopiesMove

\* Rows that fit into both memories together go to words all different.
LEMMA NoneOverwritten ==
  ASSUME Inv, step # "read", len.skip = 0, Rows * RowBytes <= 2 * MemBytes
  PROVE  \A n \in Words : mem[To[n]] = From[n] + 1
<1>. DEFINE words == RowBytes \div 4
            A == at.mem \div 4
            W == (2 * MemBytes) \div 4
<1>1. at \in [mem : Nat, dram : Nat] /\ len \in Lengths
  BY DEF Inv, RegistersTyped
<1>2. words \in Nat \ {0} /\ RowBytes = 4 * words
  BY <1>1, RowFits DEF RowBytes
<1>3. RowBytes + len.skip = RowBytes
  BY <1>2
<1>4. A \in Nat /\ W \in Nat \ {0} /\ 4 * W = 2 * MemBytes
  <2>1. PICK m \in Nat \ {0} : MemBytes = 8 * m /\ W = 4 * m
    BY MemSize
  <2>. QED BY <1>1, <2>1, Aligned
<1>5. Passes(at, len) \in Nat /\ Passes(at, len) <= W
  <2>1. Passes(at, len) = Rows * words /\ Rows \in Nat
    BY <1>1 DEF Passes, Rows, RowBytes, Lengths
  <2>. HIDE DEF words, W
  <2>2. Rows * RowBytes = 4 * (Rows * words)
    BY <1>2, <2>1
  <2>. QED BY <1>2, <1>4, <2>1, <2>2
<1>6. \A n \in Words : To[n] = (A + n) % W
  BY <1>1, <1>3, UnspacedPlace DEF To, Words, RowBytes, MemIndex
<1>. HIDE DEF words, A, W
<1>7. \A n, k \in Words : To[n] = To[k] => n = k
  <2>1. SUFFICES ASSUME NEW n \in Words, NEW k \in Words, To[n] = To[k]
                 PROVE  n = k
    OBVIOUS
  <2>2. n \in 0 .. W - 1 /\ k \in 0 .. W - 1 /\ (A + n) % W = (A + k) % W
    BY <1>4, <1>5, <1>6, <2>1 DEF Words
  <2>. QED BY <1>4, <2>2, ModDiffers
<1>8. mem = Copies(Zeros, Fresh, To, From, Passes(at, len))
  BY Zenon DEF Inv, MemHolds, DMARead, To, From, RowBytes
<1>9. \A n \in Words : To[n] \in MemWord /\ From[n] \in DramWord
  BY AfterTheRead
<1>10. Zeros = [a \in MemWord |-> Zeros[a]]
  BY DEF Zeros
<1>11. \A n \in Words : mem[To[n]] = Fresh[From[n]]
  BY <1>5, <1>7, <1>8, <1>9, <1>10, CopiesStay DEF Words
<1>. QED BY <1>9, <1>11 DEF Fresh

\* What the write copies back is what the read copied from there.
LEMMA InvRoundTrip == Inv => RoundTrip
<1>. SUFFICES ASSUME Inv, step = "done", len.skip = 0,
                     Rows * RowBytes <= 2 * MemBytes, NEW d \in DramWord
              PROVE  dram[d] = IF \E a \in Touched : mem[a] = Fresh[d]
                               THEN Fresh[d] ELSE 0
  BY DEF RoundTrip
<1>1. d \in Int /\ Fresh[d] = d + 1
  BY DEF Fresh, DramWord
<1>2. \A n \in Words : To[n] \in MemWord /\ From[n] \in DramWord
  BY AfterTheRead
<1>3. \A n \in Words : mem[To[n]] = From[n] + 1
  BY NoneOverwritten
<1>4. Touched = {a \in MemWord : \E n \in Words : To[n] = a}
  BY TouchedMeansWritten
<1>5. CASE \E n \in Words : From[n] = d /\ dram[d] = mem[To[n]]
  <2>1. PICK n \in Words : From[n] = d /\ dram[d] = mem[To[n]]
    BY <1>5
  <2>2. To[n] \in Touched /\ mem[To[n]] = Fresh[d] /\ dram[d] = Fresh[d]
    BY <1>1, <1>2, <1>3, <1>4, <2>1
  <2>. QED BY <2>2
<1>6. CASE (\A n \in Words : From[n] # d) /\ dram[d] = 0
  <2>1. ASSUME NEW a \in Touched, mem[a] = Fresh[d] PROVE FALSE
    <3>1. PICK n \in Words : To[n] = a
      BY <1>4
    <3>2. From[n] + 1 = d + 1 /\ From[n] \in Int
      BY <1>1, <1>2, <1>3, <2>1, <3>1 DEF DramWord
    <3>. QED BY <1>1, <1>6, <3>2
  <2>. QED BY <1>6, <2>1
<1>7. Copied(d, dram, Blank, mem, From, To, Passes(at, len))
  BY AfterTheWrite
<1>. QED BY <1>5, <1>6, <1>7 DEF Copied, Blank, Words

\* What one transfer without skip brings in, from wherever and however often
\* its addresses wrap, the same registers take back to where it was; unless
\* it is more than the two memories hold.
THEOREM TransfersReturn == Spec => []RoundTrip
BY InitInv, StepInv, InvRoundTrip, PTL DEF Spec
(***************************************************************************)
(* BlockArrives.  A block that fits is not cut off and its addresses do    *)
(* not wrap; its rows do not overlap, so each word of it stays.            *)
(***************************************************************************)
Bytes == Align(len.length + 8, 8)
Pitch == Bytes + len.skip

Fits ==
  /\ at.mem % 8 = 0 /\ at.dram % 8 = 0 /\ len.skip % 8 = 0
  /\ (at.mem % MemBytes) + (Rows - 1) * Pitch + Bytes <= MemBytes
  /\ at.dram + Rows * Bytes <= DramBytes

\* The geometry of such a block in words: w in a row, rows p apart, from word
\* A of the RSP and word B of RDRAM on.
BlockShape(w, p, A, B) ==
  /\ w \in Nat \ {0} /\ p \in Nat /\ w <= p /\ A \in Nat /\ B \in Nat
  /\ RowBytes = 4 * w /\ Bytes = 4 * w /\ Pitch = 4 * p
  /\ at.mem = 4 * A /\ at.dram = 4 * B /\ Align(at.dram, 8) = 4 * B
  /\ Rows \in Nat \ {0}
  /\ A + ((Rows - 1) * p + w) <= (2 * MemBytes) \div 4
  /\ B + Rows * w <= DramBytes \div 4

\* A block that fits has a shape: w words to a row, rows p words apart.
LEMMA FittingBlock ==
  ASSUME Inv, Fits
  PROVE  \E w, p, A, B : BlockShape(w, p, A, B)
<1>. DEFINE w == Bytes \div 4
            s == len.skip \div 4
            p == w + s
            A == at.mem \div 4
            B == at.dram \div 4
            half == at.mem \div MemBytes
            first == at.mem % MemBytes
<1>1. /\ at \in [mem : Nat, dram : Nat] /\ len \in Lengths
      /\ at.mem < 2 * MemBytes
      /\ len.length \in Nat /\ len.skip \in Nat /\ len.count \in Nat
  BY DMASizesAssumption DEF Inv, RegistersTyped, Lengths
<1>2. PICK m \in Nat \ {0} : MemBytes = 8 * m /\ (2 * MemBytes) \div 4 = 4 * m
  BY MemSize
<1>3. PICK d \in Nat \ {0} : DramBytes = 8 * d /\ DramBytes \div 4 = 2 * d
  BY DramSize
<1>4. Bytes = 4 * w /\ w \in Nat \ {0}
  BY <1>1 DEF Bytes, Align
<1>5. len.skip = 4 * s /\ s \in Nat
  BY <1>1 DEF Fits
<1>6. at.mem = 4 * A /\ A \in Nat /\ at.dram = 4 * B /\ B \in Nat
  BY <1>1 DEF Fits
<1>7. Align(at.mem, 4) = 4 * A /\ Align(at.dram, 8) = 4 * B
  BY <1>1, <1>6 DEF Fits, Align
<1>8. Pitch = 4 * p /\ p \in Nat /\ w <= p
  BY <1>4, <1>5 DEF Pitch
<1>9. Rows \in Nat \ {0} /\ Rows - 1 \in Nat
  BY <1>1 DEF Rows
<1>10. /\ at.mem = MemBytes * half + first
       /\ half \in Int /\ first \in 0 .. MemBytes - 1
  <2>1. at.mem \in Int /\ MemBytes \in Nat \ {0}
    BY <1>1, <1>2
  <2>. QED BY <2>1, DivMod
<1>. HIDE DEF w, s, p, A, B, half
<1>11. (Rows - 1) * Pitch = 4 * ((Rows - 1) * p) /\ (Rows - 1) * p \in Nat
       /\ Rows * Bytes = 4 * (Rows * w) /\ Rows * w \in Nat
  BY <1>4, <1>8, <1>9
<1>12. first + 4 * ((Rows - 1) * p) + 4 * w <= MemBytes
       /\ 4 * B + 4 * (Rows * w) <= DramBytes
  BY <1>4, <1>6, <1>11 DEF Fits
<1>13. RowBytes = Bytes
  <2>1. Row(at.mem, len) = IF first + Bytes > MemBytes THEN MemBytes - first ELSE Bytes
    BY <1>6, <1>7 DEF Row, Bytes
  <2>. HIDE DEF first
  <2>2. first + Bytes <= MemBytes
    BY <1>2, <1>4, <1>10, <1>11, <1>12
  <2>. QED BY <1>2, <1>4, <1>10, <2>1, <2>2 DEF RowBytes
<1>. HIDE DEF first
<1>14. half < 2
  <2>1. SUFFICES ASSUME half >= 2 PROVE FALSE
    BY <1>10
  <2>2. MemBytes * half >= MemBytes * 2
    BY <1>2, <1>10, <2>1
  <2>. QED BY <1>1, <1>2, <1>10, <2>2
<1>15. MemBytes * half <= MemBytes
  <2>1. half <= 1
    BY <1>10, <1>14
  <2>. QED BY <1>2, <1>10, <2>1
<1>16. A + ((Rows - 1) * p + w) <= (2 * MemBytes) \div 4
  <2>. DEFINE z == (Rows - 1) * p  h == MemBytes * half
  <2>1. z \in Nat /\ h \in Int
    BY <1>2, <1>10, <1>11
  <2>. HIDE DEF z, h
  <2>2. first + 4 * z + 4 * w <= MemBytes
    BY <1>12 DEF z
  <2>3. 4 * A = h + first /\ h <= MemBytes
    BY <1>6, <1>10, <1>15 DEF h
  <2>4. A + (z + w) <= 4 * m
    BY <1>2, <1>4, <1>6, <1>10, <2>1, <2>2, <2>3
  <2>. QED BY <1>2, <2>4 DEF z
<1>17. B + Rows * w <= DramBytes \div 4
  <2>. DEFINE z == Rows * w
  <2>1. z \in Nat /\ 4 * B + 4 * z <= DramBytes
    BY <1>11, <1>12
  <2>. HIDE DEF z
  <2>2. B + z <= 2 * d
    BY <1>3, <1>6, <2>1
  <2>. QED BY <1>3, <2>2 DEF z
<1>18. BlockShape(w, p, A, B)
  BY <1>4, <1>6, <1>7, <1>8, <1>9, <1>13, <1>16, <1>17 DEF BlockShape
<1>. QED BY <1>18
\* Word n of the block is word n % w of row n \div w; none wraps.
BlockWord(n, w, p, A, B) ==
  /\ n \div w \in 0 .. Rows - 1 /\ n % w \in 0 .. w - 1
  /\ n = (n \div w) * w + (n % w)
  /\ To[n] = A + ((n \div w) * p + (n % w))
  /\ From[n] = B + n

\* Where the words of a block go, by row and place in the row.
LEMMA BlockWords ==
  ASSUME Inv, NEW w, NEW p, NEW A, NEW B, BlockShape(w, p, A, B)
  PROVE  /\ Passes(at, len) = Rows * w /\ Rows * w \in Nat
         /\ \A n \in Words : BlockWord(n, w, p, A, B)
<1>1. at \in [mem : Nat, dram : Nat] /\ len \in Lengths
  BY DEF Inv, RegistersTyped
<1>2. Row(at.mem, len) \div 4 = w
  BY DEF BlockShape, RowBytes
<1>3. Passes(at, len) = Rows * w /\ Rows * w \in Nat
  BY <1>2 DEF Passes, Rows, BlockShape
<1>4. To = MemWords(at, len, Pitch) /\ From = DramWords(at, len, RowBytes)
  BY DEF To, From, BlockShape, Pitch
<1>5. ASSUME NEW n \in Words PROVE BlockWord(n, w, p, A, B)
  <2>. DEFINE r == n \div w  j == n % w
  <2>1. /\ n \in Nat /\ n < Rows * w /\ w \in Nat \ {0} /\ p \in Nat /\ w <= p
        /\ Rows \in Nat \ {0} /\ A \in Nat /\ B \in Nat
    BY <1>3 DEF Words, BlockShape
  <2>2. r \in Nat /\ j \in 0 .. w - 1 /\ n = w * r + j
    <3>1. n \in Int
      BY <2>1
    <3>2. n \div w \in Int /\ n % w \in 0 .. w - 1 /\ n = w * (n \div w) + (n % w)
      BY <2>1, <3>1, DivMod
    <3>3. n \div w \in Nat
      BY <2>1
    <3>. QED BY <3>2, <3>3
  <2>. HIDE DEF r, j
  <2>3. n = r * w + j
    BY <2>1, <2>2
  <2>4. r < Rows
    <3>1. SUFFICES ASSUME r >= Rows PROVE FALSE
      BY <2>1, <2>2
    <3>2. Rows * w <= r * w
      BY <2>1, <2>2, <3>1, TimesOrder
    <3>3. r * w \in Nat
      BY <2>1, <2>2
    <3>. QED BY <1>3, <2>1, <2>2, <2>3, <3>2, <3>3
  <2>5. r * p <= (Rows - 1) * p /\ r * p \in Nat
    <3>1. Rows - 1 \in Nat /\ r <= Rows - 1
      BY <2>1, <2>2, <2>4
    <3>. QED BY <2>1, <2>2, <3>1, TimesOrder
  <2>6. /\ To[n] = MemIndex(at.mem, r * p + j)
        /\ From[n] = DramIndex(Align(at.dram, 8), r * w + j)
    <3>. n \in 0 .. Passes(at, len) - 1
      BY DEF Words
    <3>. Pitch = 4 * p /\ RowBytes = 4 * w /\ p \in Nat /\ w \in Nat
      BY DEF BlockShape
    <3>1. WordAt(at, len, Pitch, p, w, n)
      BY <1>1, <1>2, WordPlace, Zenon
    <3>2. WordAt(at, len, RowBytes, w, w, n)
      BY <1>1, <1>2, WordPlace, Zenon
    <3>. QED BY <1>4, <3>1, <3>2 DEF r, j, WordAt
  <2>7. at.mem \div 4 = A /\ Align(at.dram, 8) \div 4 = B
    BY <2>1 DEF BlockShape
  <2>8. To[n] = A + (r * p + j)
    <3>1. (Rows - 1) * p \in Nat
      BY <2>1
    <3>2. A + (r * p + j) \in 0 .. (2 * MemBytes) \div 4 - 1
      <4>. DEFINE y == r * p  z == (Rows - 1) * p  W == (2 * MemBytes) \div 4
      <4>1. y \in Nat /\ z \in Nat /\ y <= z /\ A + (z + w) <= W /\ W \in Int
        BY <2>5, <3>1, DMASizesAssumption DEF BlockShape
      <4>. HIDE DEF y, z, W
      <4>2. A + (y + j) \in 0 .. W - 1
        BY <2>1, <2>2, <4>1
      <4>. QED BY <4>2 DEF y, W
    <3>3. (A + (r * p + j)) % ((2 * MemBytes) \div 4) = A + (r * p + j)
      <4>. DEFINE x == A + (r * p + j)  W == (2 * MemBytes) \div 4
      <4>1. x \in 0 .. W - 1 /\ W \in Int
        BY <3>2, DMASizesAssumption
      <4>. HIDE DEF x, W
      <4>2. x % W = x
        BY <4>1
      <4>. QED BY <4>2 DEF x, W
    <3>. QED BY <2>6, <2>7, <3>3 DEF MemIndex
  <2>9. From[n] = B + n
    <3>1. B + n \in 0 .. DramBytes \div 4 - 1
      <4>. DEFINE z == Rows * w  W == DramBytes \div 4
      <4>1. z \in Nat /\ n < z /\ B + z <= W /\ W \in Int
        BY <1>3, <2>1, DMASizesAssumption DEF BlockShape
      <4>. HIDE DEF z, W
      <4>2. B + n \in 0 .. W - 1
        BY <2>1, <4>1
      <4>. QED BY <4>2 DEF W
    <3>2. (B + n) % (DramBytes \div 4) = B + n
      <4>. DEFINE W == DramBytes \div 4
      <4>1. B + n \in 0 .. W - 1 /\ W \in Int
        BY <3>1, DMASizesAssumption
      <4>. HIDE DEF W
      <4>2. (B + n) % W = B + n
        BY <2>1, <4>1
      <4>. QED BY <4>2 DEF W
    <3>. QED BY <2>3, <2>6, <2>7, <3>2 DEF DramIndex
  <2>10. r \in 0 .. Rows - 1
    BY <2>1, <2>2, <2>4
  <2>. QED BY <2>2, <2>3, <2>8, <2>9, <2>10 DEF BlockWord, r, j
<1>. QED BY <1>3, <1>5

\* No two words of the block have the same place, so all of them are there.
LEMMA BlockWhole ==
  ASSUME Inv, step = "write", NEW w, NEW p, NEW A, NEW B, BlockShape(w, p, A, B)
  PROVE  /\ \A n, k \in Words : To[n] = To[k] => n = k
         /\ \A n \in Words : mem[To[n]] = Fresh[From[n]]
<1>1. Passes(at, len) \in Nat
      /\ \A n \in Words : To[n] \in MemWord /\ From[n] \in DramWord
  BY AfterTheRead
<1>2. ASSUME NEW n \in Words, NEW k \in Words, To[n] = To[k]
      PROVE  n = k
  <2>1. BlockWord(n, w, p, A, B) /\ BlockWord(k, w, p, A, B)
    BY BlockWords
  <2>. DEFINE r == n \div w  i == n % w  q == k \div w  j == k % w
  <2>2. /\ r \in 0 .. Rows - 1 /\ i \in 0 .. w - 1 /\ n = r * w + i
        /\ q \in 0 .. Rows - 1 /\ j \in 0 .. w - 1 /\ k = q * w + j
        /\ A + (r * p + i) = A + (q * p + j)
    BY <1>2, <2>1 DEF BlockWord
  <2>. HIDE DEF r, i, q, j
  <2>3. /\ w \in Nat /\ p \in Nat /\ w <= p /\ A \in Nat
        /\ r \in Nat /\ q \in Nat
    BY <2>2 DEF BlockShape
  <2>4. r * p + i = q * p + j
    <3>1. r * p \in Nat /\ q * p \in Nat
      BY <2>3
    <3>. QED BY <2>2, <2>3, <3>1
  <2>5. r = q /\ i = j
    BY <2>2, <2>3, <2>4, BlocksApart
  <2>. QED BY <2>2, <2>5
<1>3. mem = Copies(Zeros, Fresh, To, From, Passes(at, len))
  BY Zenon DEF Inv, MemHolds, DMARead, To, From, RowBytes
<1>4. Zeros = [a \in MemWord |-> Zeros[a]]
  BY DEF Zeros
<1>5. \A n \in Words : mem[To[n]] = Fresh[From[n]]
  BY <1>1, <1>2, <1>3, <1>4, CopiesStay DEF Words
<1>. QED BY <1>2, <1>5

\* As many words change as the block has.
LEMMA BlockCounted ==
  ASSUME Inv, step = "write", NEW w, NEW p, NEW A, NEW B, BlockShape(w, p, A, B)
  PROVE  Cardinality(Touched) = Rows * w
<1>. DEFINE N == Passes(at, len)
            f == [k \in 1 .. N |-> To[k - 1]]
<1>1. N \in Nat /\ \A n \in Words : To[n] \in MemWord
  BY AfterTheRead
<1>2. \A n, k \in Words : To[n] = To[k] => n = k
  BY BlockWhole
<1>3. Touched = {a \in MemWord : \E n \in Words : To[n] = a}
  BY TouchedMeansWritten
<1>4. \A k \in 1 .. N : k - 1 \in Words
  BY <1>1 DEF Words
<1>5. \A n \in Words : n + 1 \in 1 .. N /\ (n + 1) - 1 = n
  BY <1>1 DEF Words
<1>. HIDE DEF N
<1>6. f \in [1 .. N -> Touched]
  BY <1>1, <1>3, <1>4
<1>7. \A i, j \in 1 .. N : f[i] = f[j] => i = j
  <2>1. ASSUME NEW i \in 1 .. N, NEW j \in 1 .. N, f[i] = f[j] PROVE i = j
    <3>1. i - 1 = j - 1
      BY <1>2, <1>4, <2>1
    <3>. QED BY <3>1
  <2>. QED BY <2>1
<1>8. \A a \in Touched : \E k \in 1 .. N : f[k] = a
  <2>1. ASSUME NEW a \in Touched PROVE \E k \in 1 .. N : f[k] = a
    <3>1. PICK n \in Words : To[n] = a
      BY <1>3
    <3>2. f[n + 1] = a
      BY <1>5, <3>1
    <3>. QED BY <1>5, <3>2
  <2>. QED BY <2>1
<1>. HIDE DEF f
<1>9. f \in Bijection(1 .. N, Touched)
  BY <1>6, <1>7, <1>8 DEF Bijection, Injection, Surjection, IsInjective
<1>10. ExistsBijection(1 .. N, Touched)
  BY <1>9 DEF ExistsBijection
<1>11. Cardinality(Touched) = N
  BY <1>1, <1>10, FS_CountingElements
<1>12. N = Rows * w
  BY BlockWords DEF N
<1>. QED BY <1>11, <1>12

\* Word j of a row arrives at word j of the row in the memory.
LEMMA BlockInPlace ==
  ASSUME Inv, step = "write", NEW w, NEW p, NEW A, NEW B, BlockShape(w, p, A, B),
         NEW row \in 0 .. Rows - 1, NEW j \in 0 .. Bytes \div 4 - 1
  PROVE  mem[(at.mem + row * Pitch) \div 4 + j]
           = Fresh[(at.dram + row * Bytes) \div 4 + j]
<1>1. /\ w \in Nat \ {0} /\ p \in Nat /\ A \in Nat /\ B \in Nat
      /\ Rows \in Nat \ {0} /\ Bytes = 4 * w /\ Pitch = 4 * p
      /\ at.mem = 4 * A /\ at.dram = 4 * B
  BY DEF BlockShape
<1>2. row \in Nat /\ j \in 0 .. w - 1 /\ row <= Rows - 1
  BY <1>1
<1>. DEFINE n == row * w + j
<1>3. n \in Words /\ n \div w = row /\ n % w = j
  <2>1. row * w <= (Rows - 1) * w /\ row * w \in Nat /\ (Rows - 1) * w \in Nat
    BY <1>1, <1>2, TimesOrder
  <2>2. (Rows - 1) * w + w = Rows * w /\ Rows * w \in Nat
    BY <1>1
  <2>3. n \in Nat /\ n < Rows * w
    BY <1>1, <1>2, <2>1, <2>2
  <2>4. n = w * row + j
    BY <1>1, <1>2
  <2>. HIDE DEF n
  <2>5. n \div w = row /\ n % w = j
    <3>1. row \in Int
      BY <1>2
    <3>. QED BY <1>1, <1>2, <2>4, <3>1, DivModIs, Zenon
  <2>6. Passes(at, len) = Rows * w
    BY BlockWords
  <2>7. n \in Words
    BY <2>2, <2>3, <2>6 DEF Words
  <2>. QED BY <2>5, <2>7
<1>4. row * w \in Nat /\ row * p \in Nat
  BY <1>1, <1>2
<1>5. (at.mem + row * Pitch) \div 4 = A + row * p
  <2>1. at.mem + row * Pitch = 4 * (A + row * p)
    BY <1>1, <1>2
  <2>. QED BY <1>1, <1>4, <2>1
<1>6. (at.dram + row * Bytes) \div 4 = B + row * w
  <2>1. at.dram + row * Bytes = 4 * (B + row * w)
    BY <1>1, <1>2
  <2>. QED BY <1>1, <1>4, <2>1
<1>7. BlockWord(n, w, p, A, B)
  BY <1>3, BlockWords
<1>8. mem[To[n]] = Fresh[From[n]]
  BY <1>3, BlockWhole
<1>9. To[n] = A + (row * p + j) /\ From[n] = B + n
  BY <1>3, <1>7 DEF BlockWord
<1>10. A + (row * p + j) = A + row * p + j /\ B + n = B + row * w + j
  BY <1>1, <1>2, <1>4
<1>. QED BY <1>5, <1>6, <1>8, <1>9, <1>10

\* So a block arrives whole and in order.
LEMMA InvBlockArrives == Inv => BlockArrives
<1>. SUFFICES ASSUME Inv, step = "write", Fits
              PROVE  /\ \A row \in 0 .. Rows - 1 : \A j \in 0 .. Bytes \div 4 - 1 :
                          mem[(at.mem + row * Pitch) \div 4 + j]
                            = Fresh[(at.dram + row * Bytes) \div 4 + j]
                     /\ Cardinality(Touched) = Rows * (Bytes \div 4)
  BY DEF BlockArrives, Fits, Bytes, Pitch
<1>1. PICK w, p, A, B : BlockShape(w, p, A, B)
  BY FittingBlock
<1>2. Cardinality(Touched) = Rows * w
  BY <1>1, BlockCounted
<1>3. Bytes \div 4 = w
  BY <1>1 DEF BlockShape
<1>4. ASSUME NEW row \in 0 .. Rows - 1, NEW j \in 0 .. Bytes \div 4 - 1
      PROVE  mem[(at.mem + row * Pitch) \div 4 + j]
               = Fresh[(at.dram + row * Bytes) \div 4 + j]
  BY <1>1, BlockInPlace
<1>. QED BY <1>2, <1>3, <1>4

\* Any doubleword-aligned block that fits into the memory it starts in, of any
\* number of rows any distance apart, arrives word for word where software
\* asked for it, and nothing else of the RSP's memories changes.
THEOREM BlocksArrive == Spec => []BlockArrives
BY InitInv, StepInv, InvBlockArrives, PTL DEF Spec

=============================================================================
