---------------------------- MODULE MCDMAGeometry ----------------------------
(***************************************************************************)
(* Memories of 8 words, RDRAM of 16: every byte address of both memories   *)
(* and beyond, rows of up to a whole memory, one to four of them.          *)
(***************************************************************************)
EXTENDS DMAGeometry

SomeMemAddrs == 0 .. 67
SomeDramAddrs == {0, 3, 8, 48, 63, 72}
SomeLengths ==
  [length : {0, 7, 8, 31}, count : {0, 1, 3}, skip : {0, 4, 8}]
=============================================================================
