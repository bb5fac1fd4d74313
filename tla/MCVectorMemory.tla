---------------------------- MODULE MCVectorMemory ----------------------------
(***************************************************************************)
(* A small instance of VectorMemory: sixteen vector registers and DMEM of  *)
(* eight lines, of which single accesses use the first and the last.       *)
(***************************************************************************)
EXTENDS VectorMemoryProperties

\* Bytes of both signs, neighbours different, no period a power of two.
MCMem == [k \in MemByte |-> (5 + 91 * k) % 251]
MCVRegs == [k \in VRegByte |-> (200 + 37 * k) % 253]

I(op, v, e, at, offset) ==
  [op |-> op, v |-> v, e |-> e, at |-> at, offset |-> offset]

Elements == 0 .. 15
Places == (0 .. 15) \cup (DMemBytes - 16 .. DMemBytes - 1)
Ops == VectorLoad \cup VectorStore \cup ScalarLoad \cup ScalarStore
       \cup {"MFC2", "MTC2"}

\* Every instruction on its own, everywhere.
Singles == {<<I(op, 8, e, at, 0)>> : op \in Ops, e \in Elements, at \in Places}

LoadStores ==
  {<<I(load, 1, e, at, 0), I(StoreOf[load], 1, e, at, 0)>> :
     load \in DOMAIN StoreOf, e \in Elements, at \in Places}
StoreLoads ==
  {<<I(StoreOf[load], 1, e, at, 0), I(load, 3, e, at, 0)>> :
     load \in {"LBV", "LSV", "LLV", "LDV", "LQV"}, e \in Elements, at \in Places}
Quads ==
  {<<I("LQV", v, 0, at, offset), I("LRV", v, 0, at, offset + 1)>> :
     v \in {0, 15}, at \in DMemBytes - 16 .. DMemBytes + 15, offset \in {-1, 0, 1}}
Moves ==
  {<<I("SSV", 2, e, at, 0), I("LH", 0, 0, at, 0)>> :
     e \in Elements, at \in Places}
  \cup {<<I("MTC2", 2, e, 0, 0), I("SSV", 2, e, at, 0), I("LH", 0, 0, at, 0)>> :
          e \in Elements, at \in Places}
InPlace ==
  {Transposition(v, v, base, turn) :
     v \in {0, 8}, base \in {0, 48}, turn \in 0 .. 3}

MCPrograms ==
  Singles \cup LoadStores \cup StoreLoads \cup Quads \cup Moves \cup InPlace
Elsewhere == {Transposition(0, 8, 0, 0)}
=============================================================================
