------------------------------ MODULE Broadword ------------------------------
(***************************************************************************)
(* The arithmetic on words that the sequences of include/ds2i share.       *)
(***************************************************************************)
EXTENDS Integers

Shifted(v, bits) == v \div 2 ^ bits

\* succinct::broadword::msb, a library function
Msb(v) == CHOOSE k \in 0..v : 2 ^ k <= v /\ v < 2 ^ (k + 1)

CeilLog2(v) == IF v > 1 THEN Msb(v - 1) + 1 ELSE 0
=============================================================================
