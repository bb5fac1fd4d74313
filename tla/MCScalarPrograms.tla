--------------------------- MODULE MCScalarPrograms ---------------------------
(***************************************************************************)
(* Registers of four bits, immediates of two, every value in every input.  *)
(***************************************************************************)
EXTENDS ScalarPrograms

AllValues == Register
=============================================================================
