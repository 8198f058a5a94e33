-------------------------- MODULE BucketingTopLevel --------------------------
(***************************************************************************)
(* bucketing_top_level, lib/adapted_code/la_vector.hpp:687-757, and its    *)
(* copies: the segment of a position and of a value, found in the range of *)
(* segments that a bucket of positions or of values names.                 *)
(*                                                                         *)
(* Segments are numbered from 0, as segments.begin() + s: the last one is  *)
(* the sentinel.                                                           *)
(***************************************************************************)
EXTENDS WordArithmetic, FiniteSetsExt, Sequences

CONSTANTS
  n, BackKey,      (* the number of elements and the last of them *)
  segments,        (* the segments, with the sentinel             *)
  TopLevelCap,     (* the largest top level (2^16)                *)
  Key(_),          (* an element                                  *)
  FirstKey(_)      (* first_key of a segment                      *)

Segment(s) == segments[s + 1]
SentinelIndex == Len(segments) - 1
RealSegments == 0..SentinelIndex - 1

TopLevelSize == Min({TopLevelCap, BitCeil(SentinelIndex)})
ValStep == CeilDiv(BackKey, TopLevelSize)
PosStep == CeilDiv(n, TopLevelSize)

\* val_top_level[k] and pos_top_level[k].  The entry after the last is read for
\* the greatest value and for position n when the step divides them: the array
\* is padded with zeros or with copies of its default.
ValTopLevel(k, padding) ==
  CASE k < TopLevelSize - 1 ->
         Cardinality({s \in RealSegments : Key(Segment(s).first) < (k + 1) * ValStep})
    [] k = TopLevelSize - 1 -> SentinelIndex
    [] OTHER -> padding

\* mutant: the entry of a bucket counts up to its beginning instead of its end
PosTopLevelEarly(k, padding) ==
  CASE k < TopLevelSize - 1 ->
         Cardinality({s \in RealSegments : Segment(s).first < k * PosStep})
    [] k = TopLevelSize - 1 -> SentinelIndex
    [] OTHER -> padding

PosTopLevel(k, padding) ==
  CASE k < TopLevelSize - 1 ->
         Cardinality({s \in RealSegments : Segment(s).first < (k + 1) * PosStep})
    [] k = TopLevelSize - 1 -> SentinelIndex
    [] OTHER -> padding

Paddings == {0, SentinelIndex}

\* upper_bound_branchless over segments first..last - 1, where above is the set of
\* the segments that begin above the value.
UpperBound(above, first, last) ==
  LET bound[r \in Nat \X Int] ==      \* the first segment left, and how many are
        LET half == r[2] \div 2
        IN IF r[2] <= 1 THEN r[1] + (IF r[1] \in above THEN 0 ELSE 1)
           ELSE bound[<<IF r[1] + half \in above THEN r[1] ELSE r[1] + half, r[2] - half>>]
  IN bound[<<first, last - first>>]

SegmentForPosition(i, padding) ==
  LET k     == i \div PosStep
      above == {s \in 0..SentinelIndex : i < Segment(s).first}
      first == IF i < PosStep THEN 0 ELSE PosTopLevel(k - 1, padding)
  IN UpperBound(above, first, PosTopLevel(k, padding)) - 1

SegmentForValue(value, padding) ==
  LET k     == value \div ValStep
      above == {s \in 0..SentinelIndex : value < FirstKey(Segment(s))}
      first == IF value < ValStep THEN 0 ELSE ValTopLevel(k - 1, padding)
      s     == UpperBound(above, first, ValTopLevel(k, padding))
  IN IF s = 0 THEN 0 ELSE s - 1
=============================================================================
