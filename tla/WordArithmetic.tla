--------------------------- MODULE WordArithmetic ---------------------------
(***************************************************************************)
(* Integer arithmetic of the learned vectors, the macros of                *)
(* lib/adapted_code/la_vector.hpp:29-33 among it.                          *)
(***************************************************************************)
EXTENDS Integers

\* C++ division of an integer by a positive one
TruncatedDiv(a, b) == IF a >= 0 THEN a \div b ELSE -((-a) \div b)

\* std::ceil(std::log2(n)), n >= 1
CeilLog2(n) == CHOOSE k \in 0..n : 2 ^ k >= n /\ \A j \in 0..k - 1 : 2 ^ j < n

\* the integral part of std::log2(n), n >= 1
FloorLog2(n) == CHOOSE k \in 0..n : 2 ^ k <= n /\ n < 2 ^ (k + 1)

CeilDiv(a, b) == (a + b - 1) \div b

BitCeil(x) == IF x < 2 THEN 1 ELSE 2 ^ CeilLog2(x)

\* BPC_TO_EPSILON
BpcToEpsilon(bpc) == (2 ^ bpc + 1) \div 2 - 1
=============================================================================
