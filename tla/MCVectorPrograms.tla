--------------------------- MODULE MCVectorPrograms ---------------------------
(***************************************************************************)
(* Slices of four bits, an index of three: every pair and every quadruple  *)
(* of slices occurs in some lane of some start.                            *)
(***************************************************************************)
EXTENDS VectorPrograms

Turned(x, step) == [i \in Lane |-> (x + step * i) % Base]
\* The lanes of the last register a program uses count through all slices.
Counting(half) == [i \in Lane |-> 8 * half + i]

MCPairs ==
  {<<Turned(x, 1), Turned(0, 0), Counting(half), Turned(0, 0)>> :
     x \in Slice, half \in 0 .. 1}
MCQuadruples ==
  {<<Turned(x, 1), Turned(y, 3), Turned(z, 5), Counting(half)>> :
     x, y, z \in Slice, half \in 0 .. 1}
MCSamples ==
  {<<Turned(x, 3), Turned(y, 5), Turned(y - x, 7), Turned(x + 5, 11)>> : x, y \in Slice}
MCOperands ==
  {<<Turned(x, 1), Turned(y, 1), Turned(5 * x + y, 1), Turned(3 * y + x, 1)>> :
     x, y \in Slice}
=============================================================================
