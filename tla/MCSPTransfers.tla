---------------------------- MODULE MCSPTransfers ----------------------------
(***************************************************************************)
(* Small instances of SPTransfers: DMEM and IMEM of four words, RDRAM of   *)
(* eight.                                                                  *)
(***************************************************************************)
EXTENDS SPTransfers

L(length, count, skip) == [length |-> length, count |-> count, skip |-> skip]
Rq(dir, m, d, len) == [dir |-> dir, mem |-> m, dram |-> d, len |-> len]

Two == {"host", "rsp"}
Rsp == {"rsp"}

\* A request of each direction with nothing in common, and one across the end
\* of DMEM with addresses that need the masks.
FewRequests ==
  {Rq("read", 0, 8, L(7, 0, 0)), Rq("write", 4, 0, L(3, 1, 8)),
   Rq("read", 45, 67, L(11, 0, 0))}

OneHostWrite == {<<0, -1>>}
=============================================================================
