------------------------ MODULE VectorMemoryProperties ------------------------
(***************************************************************************)
(* What is claimed of the loads, stores and moves of VectorMemory: how     *)
(* those that belong together fit together.                                *)
(***************************************************************************)
EXTENDS VectorMemory, Decoder

\* The memories and registers hold bytes, and rt is a 32-bit number, whatever
\* the loads and moves (LoadHalf, LoadWord, RSPMFC2) put there.
Word32 == {x \in Int : -32768 <= x \div 65536 /\ x \div 65536 < 32768}

TypeOK ==
  /\ mem \in [MemByte -> Byte]
  /\ vr \in [VRegByte -> Byte]
  /\ rt \in Word32
  /\ prog \in Seq(Instruction)
  /\ pos \in 1 .. Len(prog) + 1

Ended(ops) ==
  /\ pos = Len(prog) + 1
  /\ [n \in DOMAIN prog |-> prog[n].op] = ops

StartRegister(v) == Swapped(StartVRegs, 16 * v)

Size(op) ==
  CASE op \in {"LB", "LBU", "SB", "LBV", "SBV"} -> 1
    [] op \in {"LH", "LHU", "SH"} -> 2
    [] op \in {"LW", "SW"} -> 4
    [] OTHER -> Unit(op)

Aligned(w) == Address(w) % Size(w.op) = 0

\* No access reaches further than it should (StoreQuadVector, LoadRestVector,
\* LoadTransposeVector and the others): an aligned store, and an SQV wherever
\* it is, changes nothing outside the sixteen bytes its address lies in, and so
\* never IMEM; a load from an even address changes no vector register but its
\* own, and LTV none but the eight of its group.
AccessStaysInside ==
  [][LET w == prog[pos]
         target == IF w.op = "LTV" THEN w.v .. w.v + 7
                   ELSE IF w.op = "STV" THEN {NumVRegs} ELSE {w.v} IN
     pos \in DOMAIN prog =>
       /\ Aligned(w) \/ w.op = "SQV" =>
            \A k \in MemByte : mem'[k] # mem[k] => Line(k) = Line(Address(w))
       /\ Address(w) % 2 = 0 =>
            \A k \in VRegByte : vr'[k] # vr[k] => k \div 16 \in target]_vars

\* LQV and LRV together (LoadQuadVector, LoadRestVector) load the sixteen bytes
\* at any even address, round the end of DMEM as well: each takes the part of
\* its own line, and they meet without a gap.
UnalignedQuad ==
  LET quad == prog[1].at + 16 * prog[1].offset IN
  /\ Ended(<<"LQV", "LRV">>) /\ quad % 2 = 0
  /\ prog[2] = [prog[1] EXCEPT !.op = "LRV", !.offset = @ + 1]
  => \A k \in 0 .. 15 :
       Register(prog[1].v)[k] = StartMem[(quad + k) % DMemBytes]

\* The store of a load: of those of the vector unit, the one that has the same
\* function number in SWC2 words as the load has in LWC2 words.
VectorMemoryWord(op, function) == [op |-> op, rs |-> 0, rt |-> 0, rd |-> function]
Load(function) == RSPDecodeInstruction(VectorMemoryWord(50, function))
Store(function) == RSPDecodeInstruction(VectorMemoryWord(58, function))

ScalarStoreOf == [LB |-> "SB", LBU |-> "SB", LH |-> "SH", LHU |-> "SH", LW |-> "SW"]
VectorStoreOf(load) == Store(CHOOSE f \in 0 .. 31 : Load(f) = load)
StoreOf ==
  [load \in DOMAIN ScalarStoreOf
             \cup {"LBV", "LSV", "LLV", "LDV", "LQV", "LPV", "LUV"} |->
     IF load \in DOMAIN ScalarStoreOf THEN ScalarStoreOf[load]
     ELSE VectorStoreOf(load)]

\* To load and then store the same register at the same place leaves memory as
\* it was: byte order, sign extension, packing and the parts of unaligned
\* accesses of each load agree with those of its store.  For LSV and LLV only
\* where aligned, for LQV at even addresses.
MemoryRestored ==
  \A load \in DOMAIN StoreOf :
    /\ Ended(<<load, StoreOf[load]>>)
    /\ prog[2] = [prog[1] EXCEPT !.op = StoreOf[load]]
    /\ load \in {"LSV", "LLV"} => Aligned(prog[1])
    /\ load = "LQV" => Address(prog[1]) % 2 = 0
    => mem = StartMem

\* To store a vector register and load another one from there copies the part
\* both are about, and nothing else.
RegisterCopied ==
  \A load \in {"LBV", "LSV", "LLV", "LDV", "LQV"} :
    LET from == prog[1]
        to == prog[2].v
        bytes == IF load = "LQV" THEN 16 - Start(Address(from), 16)
                 ELSE Size(load) IN
    /\ Ended(<<StoreOf[load], load>>)
    /\ prog[2] = [from EXCEPT !.op = load, !.v = to]
    /\ load \in {"LSV", "LLV"} => Aligned(from)
    /\ load = "LQV" => Address(from) % 2 = 0
    => Register(to)
         = Copy(StartRegister(to), from.e, StartRegister(from.v), from.e, bytes)

\* A move reads and writes an element as a store or a load through memory does:
\* MFC2 gives what SSV and LH at the same place would, also where the element
\* lies across two slices, and what MTC2 wrote comes back that way.
MovesMatchMemory ==
  /\ /\ Ended(<<"SSV", "LH">>)
     /\ Address(prog[2]) = Address(prog[1])
     => rt = MovedFrom(prog[1])
  /\ /\ Ended(<<"MTC2", "SSV", "LH">>)
     /\ prog[2].v = prog[1].v /\ prog[2].e = prog[1].e
     /\ Address(prog[3]) = Address(prog[2])
     => rt = -2

\* Eight STVs of the registers of a group, and eight LTVs of what they stored,
\* with the elements the other way round, into another; turn is the line where
\* the STVs start, the LTVs take the lines from that of element 0 on.
Transposition(from, into, base, turn) ==
  [n \in 1 .. 16 |->
     IF n <= 8
     THEN LET e == (n - 1 + turn) % 8 IN
          [op |-> "STV", v |-> from, e |-> 2 * e, at |-> base, offset |-> e]
     ELSE LET e == n - 9 IN
          [op |-> "LTV", v |-> into, e |-> (16 - 2 * e) % 16, at |-> base, offset |-> e]]

SliceOf(v, i) == <<vr[16 * v + 2 * i], vr[16 * v + 2 * i + 1]>>
StartSliceOf(v, i) == <<StartVRegs[16 * v + 2 * i], StartVRegs[16 * v + 2 * i + 1]>>

Transposes(into) ==
  LET first == prog[1] IN
  pos = 17 /\ prog = Transposition(first.v, into, first.at, first.e \div 2)
  => \A i, j \in 0 .. 7 : SliceOf(into + i, j) = StartSliceOf(first.v + j, i)

\* They transpose a group in place: slice j of register i gets slice i of
\* register j (RSPSTV, LoadTransposeVector).  This needs the LTV of element 0 to
\* come before that of element 2: it writes slice 0 of the second register, and
\* the other one puts that right.
TransposesInPlace == prog # <<>> => Transposes(prog[1].v)

\* "Instruction: LTV (Load Transpose into Vector Register)" (EXStage.c): the
\* same eight LTVs into another group give it the transposed registers.
TransposesElsewhere ==
  \A into \in 0 .. NumVRegs - 1 : prog # <<>> => Transposes(into)
=============================================================================
