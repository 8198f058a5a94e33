---------------------------- MODULE IntegerCodes ----------------------------
(***************************************************************************)
(* The gamma and delta codes of include/ds2i/integer_codes.hpp.  Bits are  *)
(* a sequence of 0 and 1 in the order they are appended, the low bit of a  *)
(* value first; a reader is a record of the value read and of the number   *)
(* of bits behind it.                                                      *)
(***************************************************************************)
EXTENDS Broadword, Sequences, FiniteSetsExt

\* append_bits and take, of the bit vector library
Bits(v, width) == [k \in 1..width |-> (v \div 2 ^ (k - 1)) % 2]

Take(bits, at, width) ==
  [value |-> SumSet({2 ^ k : k \in {j \in 0..width - 1 : bits[at + j + 1] = 1}}), at |-> at + width]

-----------------------------------------------------------------------------
\* zeros up to the highest bit of n + 1, then the bits below it
Gamma(n) == LET l == Msb(n + 1) IN Bits(2 ^ l, l + 1) \o Bits(n + 1 - 2 ^ l, l)

GammaNonzero(n) == Gamma(n - 1)

ReadGamma(bits, at) ==
  LET l    == Min({k \in 0..Len(bits) - at - 1 : bits[at + k + 1] = 1})
      tail == Take(bits, at + l + 1, l)
  IN [tail EXCEPT !.value = @ + 2 ^ l - 1]

ReadGammaNonzero(bits, at) ==
  LET read == ReadGamma(bits, at) IN [read EXCEPT !.value = @ + 1]

Delta(n) == LET l == Msb(n + 1) IN Gamma(l) \o Bits(n + 1 - 2 ^ l, l)

ReadDelta(bits, at) ==
  LET l    == ReadGamma(bits, at)
      tail == Take(bits, l.at, l.value)
  IN [tail EXCEPT !.value = @ + 2 ^ l.value - 1]
=============================================================================
