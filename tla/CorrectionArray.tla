--------------------------- MODULE CorrectionArray ---------------------------
(***************************************************************************)
(* The corrections of a learned vector, lib/adapted_code/la_vector.hpp:    *)
(* 521-544 and its copies.  Where each segment has a bpc of its own, the   *)
(* correction of element i is bpc bits from the offset of its segment on;  *)
(* otherwise the elements at multiples of Density come first.              *)
(***************************************************************************)
EXTENDS Integers, FiniteSetsExt

CONSTANTS
  n,          (* the number of elements                          *)
  Density,    (* extraction_density                              *)
  AutoBpc,    (* whether each segment has a bpc of its own       *)
  bits        (* the positions of the bits that are 1            *)

\* mutant: the samples are not counted out of the second part
OverlappingSlot(i) == IF i % Density = 0 THEN i \div Density ELSE i + n \div Density - i

\* get_correction_bit_offset
SampledSlot(i) ==
  IF i % Density = 0 THEN i \div Density ELSE i + n \div Density - i \div Density

BitOffset(s, i) == IF AutoBpc THEN s.offset + (i - s.first) * s.bpc ELSE s.bpc * SampledSlot(i)

\* sdsl::bits::write_int and read_int
Field(s, i) == BitOffset(s, i)..BitOffset(s, i) + s.bpc - 1
BitsOf(s, i, value) == {b \in Field(s, i) : (value \div 2 ^ (b - BitOffset(s, i))) % 2 = 1}
Correction(s, i) ==
  SumSet({2 ^ (b - BitOffset(s, i)) : b \in Field(s, i) \cap bits})
=============================================================================
