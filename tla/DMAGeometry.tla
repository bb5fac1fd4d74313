----------------------------- MODULE DMAGeometry -----------------------------
(***************************************************************************)
(* One transfer into the RSP and the same registers written again for the  *)
(* transfer back, for every address and length in a small machine: what    *)
(* HandleDMARead and HandleDMAWrite do at the edges of the memories.       *)
(***************************************************************************)
EXTENDS SPDMA, FiniteSets

CONSTANTS
  MemAddrs, DramAddrs,  \* what is written to the address registers
  LengthWords           \* and to a length register

ASSUME GeometryAssumption ==
  MemAddrs \subseteq Nat /\ DramAddrs \subseteq Nat /\ LengthWords \subseteq Lengths

VARIABLES mem, dram, at, len, step

vars == <<mem, dram, at, len, step>>

Fresh == [a \in DramWord |-> a + 1]

Init ==
  /\ mem = [a \in MemWord |-> 0]
  /\ dram = Fresh
  /\ at \in [mem : {MemAddr(a) : a \in MemAddrs},
             dram : {DramAddr(a) : a \in DramAddrs}]
  /\ len \in LengthWords
  /\ step = "read"

Read ==
  /\ step = "read" /\ step' = "write"
  /\ mem' = DMARead(mem, dram, at, len)
  /\ UNCHANGED <<dram, at, len>>

\* The host destroys what was read, the transfer back restores it.
Write ==
  /\ step = "write" /\ step' = "done"
  /\ dram' = DMAWrite(mem, [a \in DramWord |-> 0], at, len)
  /\ UNCHANGED <<mem, at, len>>

Done == step = "done" /\ UNCHANGED vars

Next == Read \/ Write \/ Done

Spec == Init /\ [][Next]_vars

Rows == len.count + 1
RowBytes == Row(at.mem, len)
Touched == {a \in MemWord : mem[a] # 0}

(***************************************************************************)
(* Properties.                                                             *)
(***************************************************************************)

\* What software asks of HandleDMARead in the cases the interface is meant
\* for: a doubleword-aligned block that fits into the memory it starts in
\* arrives there, whole and in order, and nothing else in either memory
\* changes; the rows of a longer transfer are skip bytes apart.
BlockArrives ==
  LET bytes == Align(len.length + 8, 8)
      pitch == bytes + len.skip
      Place(row, j) == (at.mem + row * pitch) \div 4 + j IN
  step = "write" /\ at.mem % 8 = 0 /\ at.dram % 8 = 0 /\ len.skip % 8 = 0
    /\ (at.mem % MemBytes) + (Rows - 1) * pitch + bytes <= MemBytes
    /\ at.dram + Rows * bytes <= DramBytes
  => /\ \A row \in 0 .. Rows - 1 : \A j \in 0 .. bytes \div 4 - 1 :
          mem[Place(row, j)]
            = Fresh[(at.dram + row * bytes) \div 4 + j]
     /\ Cardinality(Touched) = Rows * (bytes \div 4)

\* A single row never leaves the memory it starts in ("Check length"): a
\* transfer to DMEM cannot reach the program in IMEM, nor the other way round.
SingleRowStaysInside ==
  Rows = 1 => \A a \in Touched : (4 * a) \div MemBytes = at.mem \div MemBytes

\* The transfer back with the same registers restores all that was read, at
\* whatever address and wherever rows wrap, unless they are spaced (skip counts
\* on the RSP side one way and on the RDRAM side the other) or there is more
\* than the two memories hold.
RoundTrip ==
  step = "done" /\ len.skip = 0 /\ Rows * RowBytes <= 2 * MemBytes =>
    \A d \in DramWord :
      dram[d] = IF \E a \in Touched : mem[a] = Fresh[d] THEN Fresh[d] ELSE 0
=============================================================================
