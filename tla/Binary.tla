-------------------------------- MODULE Binary --------------------------------
(***************************************************************************)
(* Powers of two and the bitwise conjunction, as recursive functions: what *)
(* 2^n and & are in the code, in a form that can be reasoned about.        *)
(***************************************************************************)
EXTENDS Integers

\* 2^n
Power[n \in Nat] == IF n = 0 THEN 1 ELSE 2 * Power[n - 1]

\* x & y in the lowest n bits, from the lowest bit up.
And[n \in Nat] ==
  [x \in Nat |-> [y \in Nat |->
     IF n = 0 THEN 0
     ELSE 2 * And[n - 1][x \div 2][y \div 2] + (x % 2) * (y % 2)]]
=============================================================================
