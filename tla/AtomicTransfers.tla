--------------------------- MODULE AtomicTransfers ---------------------------
(***************************************************************************)
(* What the users of the DMA engine rely on: a transfer is one step, and   *)
(* it is the one that was asked for.  A specification, not a model of      *)
(* code: SPTransfers implements it.  What a transfer moves where is a      *)
(* parameter (SPDMA gives it).                                             *)
(***************************************************************************)
EXTENDS Integers

CONSTANTS
  MemWord, DramWord,    \* the words of the two memories
  MemAddr(_), DramAddr(_),    \* what the address registers keep
  DMARead(_, _, _, _),  \* DMARead(mem, dram, at, len): mem after a transfer
  DMAWrite(_, _, _, _), \* DMAWrite(mem, dram, at, len): dram after one back
  Requests,    \* transfers: direction, addresses and length register
  HostWrites   \* <<word index, value>> pairs the host writes to the RSP

VARIABLES mem, dram

Transfer(r) ==
  LET at == [mem |-> MemAddr(r.mem), dram |-> DramAddr(r.dram)] IN
  \/ /\ r.dir = "read"
     /\ mem' = DMARead(mem, dram, at, r.len)
     /\ UNCHANGED dram
  \/ /\ r.dir = "write"
     /\ dram' = DMAWrite(mem, dram, at, r.len)
     /\ UNCHANGED mem

HostWritesWord ==
  /\ \E w \in HostWrites : mem' = [mem EXCEPT ![w[1]] = w[2]]
  /\ UNCHANGED dram

Init ==
  /\ mem = [a \in MemWord |-> 0]
  /\ dram = [a \in DramWord |-> a + 1]

Next == HostWritesWord \/ \E r \in Requests : Transfer(r)

Spec == Init /\ [][Next]_<<mem, dram>>
=============================================================================
