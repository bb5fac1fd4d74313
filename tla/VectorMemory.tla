----------------------------- MODULE VectorMemory -----------------------------
(***************************************************************************)
(* Loads, stores and moves, byte by byte (Memory.c, and the handlers of    *)
(* EXStage.c that ask for them): programs of a few of these instructions,  *)
(* each executed in one step.  RSPPipeline shows that this is how they     *)
(* execute and treats what they move as one cell.                          *)
(*                                                                         *)
(* Memory is DMEM followed by IMEM, as in struct RSP.  DMEM is big endian, *)
(* the slices of a vector register are kept in the order of the host, low  *)
(* byte first: the register file is the bytes of the host, one register    *)
(* behind the other, and after them those of transposeVector.              *)
(* An access an assertion of the handler rules out has no step; neither    *)
(* have LFV, LHV, SFV, SHV and SRV, which always fail one, and SWV, LPV,   *)
(* LUV, SPV and SUV where they are not implemented.                        *)
(***************************************************************************)
EXTENDS Integers, Sequences

CONSTANTS
  DMemBytes,   \* bytes of DMEM and of IMEM (0x1000)
  NumVRegs,    \* vector registers (32)
  StartMem,    \* what the memories hold at first
  StartVRegs,  \* what the vector registers hold at first
  Programs     \* sequences of instructions

Byte == 0 .. 255
MemByte == 0 .. 2 * DMemBytes - 1
VRegByte == 0 .. 16 * (NumVRegs + 1) - 1

ASSUME VectorMemoryAssumption ==
  /\ DMemBytes \in Nat /\ DMemBytes > 0 /\ DMemBytes % 16 = 0
  /\ NumVRegs \in Nat /\ NumVRegs > 0 /\ NumVRegs % 8 = 0
  /\ StartMem \in [MemByte -> Byte]
  /\ StartVRegs \in [VRegByte -> Byte]

\* v is the vector register, e the element, at the value of rs and offset the
\* immediate; the scalar register is always rt.
VectorLoad == {"LBV", "LSV", "LLV", "LDV", "LQV", "LRV", "LPV", "LUV", "LTV"}
VectorStore == {"SBV", "SSV", "SLV", "SDV", "SQV", "SPV", "SUV", "STV"}
ScalarLoad == {"LB", "LBU", "LH", "LHU", "LW"}
ScalarStore == {"SB", "SH", "SW"}
Instruction ==
  [op : VectorLoad \cup VectorStore \cup ScalarLoad \cup ScalarStore
        \cup {"MFC2", "MTC2"},
   v : 0 .. NumVRegs - 1, e : 0 .. 15, at : Nat, offset : -64 .. 63]

ASSUME ProgramsAssumption == Programs \subseteq Seq(Instruction)

\* The immediate of a vector access counts in units of its size.
Unit(op) ==
  CASE op \in {"LSV", "SSV"} -> 2
    [] op \in {"LLV", "SLV"} -> 4
    [] op \in {"LDV", "SDV", "LPV", "SPV", "LUV", "SUV"} -> 8
    [] op \in {"LQV", "SQV", "LRV", "LTV", "STV"} -> 16
    [] OTHER -> 1

\* Mutant: it always counts bytes.
AddressInBytes(w) == (w.at + w.offset) % DMemBytes

Address(w) == (w.at + w.offset * Unit(w.op)) % DMemBytes

Start(a, size) == a % size
Line(a) == a - (a % 16)
Slice(e) == e - (e % 2)             \* the first byte of element e's slice
Other(k) == IF k % 2 = 0 THEN k + 1 ELSE k - 1                   \* k ^ 1
Half(high, low) ==
  LET x == 256 * high + low IN IF x < 32768 THEN x ELSE x - 65536

\* memcpy(dest + d, src + s, n)
Copy(dest, d, src, s, n) ==
  [k \in DOMAIN dest |-> IF k \in d .. d + n - 1 THEN src[s + k - d]
                                                 ELSE dest[k]]

\* CopyVectorSlices: sixteen bytes, every two of them swapped.
Swapped(src, s) == [k \in 0 .. 15 |-> src[s + Other(k)]]

\* What the assertions let through; for LPV, SPV, LUV and SUV, the aligned
\* case only.
Accepts(w) ==
  LET a == Address(w) IN
  CASE w.op \in {"LSV"} -> w.e % 2 = 0
    [] w.op = "SSV" -> w.e <= 14
    [] w.op \in {"LLV", "SLV"} -> w.e % 2 = 0 /\ w.e <= 12
    [] w.op \in {"LDV", "SDV"} -> w.e % 2 = 0 /\ w.e <= 8
    [] w.op = "LQV" -> w.e = 0
    [] w.op = "SQV" -> w.e = 0 /\ Start(a, 16) < 8
    [] w.op \in {"LPV", "SPV", "LUV", "SUV"} -> w.e = 0 /\ Start(a, 8) = 0
    [] w.op = "LTV" -> w.e % 2 = 0 /\ w.v % 8 = 0
    [] w.op = "STV" -> w.e % 2 = 0 /\ w.v % 8 = 0 /\ Start(a, 16) = 0
    [] w.op = "MFC2" -> w.e # 15
    [] w.op = "MTC2" -> w.e % 2 = 0
    [] OTHER -> TRUE

VARIABLES mem, vr,   \* the bytes of the memories and of the vector registers
          rt,        \* a scalar register, as a signed number
          prog, pos  \* the program and the place of the next instruction

vars == <<mem, vr, rt, prog, pos>>

Init ==
  /\ mem = StartMem /\ vr = StartVRegs /\ rt = -2
  /\ prog \in Programs /\ pos = 1

(***************************************************************************)
(* Loads.                                                                  *)
(***************************************************************************)
LoadByteVector(w, a) == [vr EXCEPT ![16 * w.v + Other(w.e)] = mem[a]]

\* LSV, LLV, LDV.  Start moves the two smaller ones on by the part of the
\* address that is already in a.
LoadPart(w, a, size) ==
  Copy(vr, 16 * w.v + w.e, Swapped(mem, a),
       IF size = 8 THEN 0 ELSE Start(a, size), size)

\* Mutant: LQV starts at the line.
LoadQuadVectorFromLine(w, a) ==
  Copy(vr, 16 * w.v, Swapped(mem, Line(a)), 0, 16 - Start(a, 16))

\* LQV: from the address to the end of its line, in whole slices.
LoadQuadVector(w, a) ==
  Copy(vr, 16 * w.v, Swapped(mem, Line(a)), Slice(Start(a, 16)),
       16 - Start(a, 16))

\* LRV: from the start of the line to the address, into the slices LQV left.
LoadRestVector(w, a) ==
  Copy(vr, 16 * w.v + 16 - Slice(Start(a, 16)), Swapped(mem, Line(a)), 0,
       Start(a, 16))

\* Mutant: LUV does not clear what it shifts out of the lower half.
LoadPackedUBytesUncut(w, a) ==
  Copy(vr, 16 * w.v,
       [k \in 0 .. 15 |-> IF k % 2 = 0 THEN mem[a + k \div 2] * 128
                                       ELSE mem[a + k \div 2] \div 2], 0, 16)

\* LPV: bytes to the upper halves of the slices; LUV: one bit lower.
LoadPackedBytes(w, a) ==
  Copy(vr, 16 * w.v,
       [k \in 0 .. 15 |-> IF k % 2 = 0 THEN 0 ELSE mem[a + k \div 2]], 0, 16)
LoadPackedUBytes(w, a) ==
  Copy(vr, 16 * w.v,
       [k \in 0 .. 15 |-> IF k % 2 = 0 THEN (mem[a + k \div 2] % 2) * 128
                                       ELSE mem[a + k \div 2] \div 2], 0, 16)

\* Mutant: the lanes turn the other way.
LaneBackwards(w, i) == (w.e \div 2 + i) % 8

\* LTV: slice i of the line goes to register i of the group, to slice
\* i - element of it.  For i = 0 and element 0 that is slice 8, which is
\* slice 0 of the next register.
Lane(w, i) == IF i = 0 THEN 8 - w.e \div 2 ELSE (8 - w.e \div 2 + i) % 8

LoadTransposeVector(w, a) ==
  LET line == Swapped(mem, Line(a))
      At(i) == 16 * (w.v + i) + 2 * Lane(w, i) IN
  [k \in VRegByte |->
     IF \E i \in 0 .. 7 : k \in {At(i), At(i) + 1}
     THEN LET i == CHOOSE i \in 0 .. 7 :
                     /\ k \in {At(i), At(i) + 1}
                     /\ \A j \in i + 1 .. 7 : k \notin {At(j), At(j) + 1}
          IN line[2 * i + k - At(i)]
     ELSE vr[k]]

LoadedVRegs(w, a) ==
  CASE w.op = "LBV" -> LoadByteVector(w, a)
    [] w.op = "LSV" -> LoadPart(w, a, 2)
    [] w.op = "LLV" -> LoadPart(w, a, 4)
    [] w.op = "LDV" -> LoadPart(w, a, 8)
    [] w.op = "LQV" -> LoadQuadVector(w, a)
    [] w.op = "LRV" -> LoadRestVector(w, a)
    [] w.op = "LPV" -> LoadPackedBytes(w, a)
    [] w.op = "LUV" -> LoadPackedUBytes(w, a)
    [] w.op = "LTV" -> LoadTransposeVector(w, a)

\* LB, LBU, LH, LHU, LW.
Loaded(w, a) ==
  LET b(k) == mem[a + k]
      signed(x) == IF x < 128 THEN x ELSE x - 256 IN
  CASE w.op = "LB" -> signed(b(0))
    [] w.op = "LBU" -> b(0)
    [] w.op = "LH" -> Half(b(0), b(1))
    [] w.op = "LHU" -> 256 * b(0) + b(1)
    [] w.op = "LW" -> 65536 * Half(b(0), b(1)) + 256 * b(2) + b(3)

(***************************************************************************)
(* Stores.                                                                 *)
(***************************************************************************)
Register(v) == Swapped(vr, 16 * v)      \* in the order of DMEM

\* Mutant: an unaligned SQV stores a whole register.
StoreQuadVectorWhole(w, a) == Copy(mem, a, Register(w.v), 0, 16)

\* SQV: as many bytes as there are up to the end of the line.
StoreQuadVector(w, a) == Copy(mem, a, Register(w.v), 0, 16 - Start(a, 16))

\* SPV, SUV: bits 15 to 8 of every slice, bits 14 to 7.
StorePackedBytes(w, a) ==
  Copy(mem, a, [i \in 0 .. 7 |-> vr[16 * w.v + 2 * i + 1]], 0, 8)

\* Mutant: the lowest of the bits is lost.
StorePackedUBytesHigh(w, a) ==
  Copy(mem, a, [i \in 0 .. 7 |-> (vr[16 * w.v + 2 * i + 1] % 128) * 2], 0, 8)

StorePackedUBytes(w, a) ==
  Copy(mem, a,
       [i \in 0 .. 7 |-> (vr[16 * w.v + 2 * i + 1] % 128) * 2
                         + vr[16 * w.v + 2 * i] \div 128], 0, 8)

\* STV: EX collects slice i from register element + i of the group in
\* transposeVector, and DF stores that.
Transposed(w) ==
  [k \in 0 .. 15 |-> vr[16 * (w.v + ((w.e \div 2 + k \div 2) % 8)) + k]]

StoreHalf(a) == [mem EXCEPT ![a] = (rt \div 256) % 256, ![a + 1] = rt % 256]

\* SW: the bytes of rt.
WordBytes ==
  <<(rt \div 16777216) % 256, (rt \div 65536) % 256, (rt \div 256) % 256, rt % 256>>

StoredMem(w, a) ==
  CASE w.op = "SBV" -> [mem EXCEPT ![a] = Register(w.v)[w.e]]
    [] w.op = "SSV" -> Copy(mem, a, Register(w.v), w.e, 2)
    [] w.op = "SLV" -> Copy(mem, a, Register(w.v), w.e, 4)
    [] w.op = "SDV" -> Copy(mem, a, Register(w.v), w.e, 8)
    [] w.op = "SQV" -> StoreQuadVector(w, a)
    [] w.op = "SPV" -> StorePackedBytes(w, a)
    [] w.op = "SUV" -> StorePackedUBytes(w, a)
    [] w.op = "STV" -> Copy(mem, a, Swapped(Transposed(w), 0), 0, 16)
    [] w.op = "SB" -> [mem EXCEPT ![a] = rt % 256]
    [] w.op = "SH" -> StoreHalf(a)
    [] w.op = "SW" -> Copy(mem, a, WordBytes, 1, 4)

(***************************************************************************)
(* Moves: MFC2 reads two bytes wherever they lie, MTC2 writes a slice.     *)
(***************************************************************************)
\* Mutant: MFC2 reads the slice the element lies in.
MovedFromSlice(w) ==
  LET r == Register(w.v) IN Half(r[Slice(w.e)], r[Slice(w.e) + 1])

MovedFrom(w) ==
  LET r == Register(w.v) IN Half(r[w.e], r[(w.e + 1) % 16])
MovedTo(w) ==
  [vr EXCEPT ![16 * w.v + w.e] = rt % 256,
             ![16 * w.v + w.e + 1] = (rt \div 256) % 256]

(***************************************************************************)
(* One instruction: EX works out the address, DF makes the access.         *)
(***************************************************************************)
Executes(op) == pos \in DOMAIN prog /\ prog[pos].op \in op /\ Accepts(prog[pos])

LoadVector ==
  /\ Executes(VectorLoad)
  /\ vr' = LoadedVRegs(prog[pos], Address(prog[pos]))
  /\ pos' = pos + 1
  /\ UNCHANGED <<mem, rt, prog>>

StoreVector ==
  /\ Executes(VectorStore)
  /\ mem' = StoredMem(prog[pos], Address(prog[pos]))
  /\ vr' = IF prog[pos].op = "STV"
           THEN Copy(vr, 16 * NumVRegs, Transposed(prog[pos]), 0, 16) ELSE vr
  /\ pos' = pos + 1
  /\ UNCHANGED <<rt, prog>>

LoadScalar ==
  /\ Executes(ScalarLoad)
  /\ rt' = Loaded(prog[pos], Address(prog[pos]))
  /\ pos' = pos + 1
  /\ UNCHANGED <<mem, vr, prog>>

StoreScalar ==
  /\ Executes(ScalarStore)
  /\ mem' = StoredMem(prog[pos], Address(prog[pos]))
  /\ pos' = pos + 1
  /\ UNCHANGED <<vr, rt, prog>>

MoveFrom ==
  /\ Executes({"MFC2"})
  /\ rt' = MovedFrom(prog[pos])
  /\ pos' = pos + 1
  /\ UNCHANGED <<mem, vr, prog>>

MoveTo ==
  /\ Executes({"MTC2"})
  /\ vr' = MovedTo(prog[pos])
  /\ pos' = pos + 1
  /\ UNCHANGED <<mem, rt, prog>>

\* A program that is over, or stopped by an assertion.
Stop ==
  /\ pos \in DOMAIN prog => ~Accepts(prog[pos])
  /\ UNCHANGED vars

Next ==
  \/ LoadVector \/ StoreVector \/ LoadScalar \/ StoreScalar
  \/ MoveFrom \/ MoveTo
  \/ Stop

Spec == Init /\ [][Next]_vars
=============================================================================
