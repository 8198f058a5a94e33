---------------------------- MODULE SegmentSearch ----------------------------
(***************************************************************************)
(* The search of lower_bound within a segment,                             *)
(* lib/adapted_code/la_vector.hpp:140-230, and its copies: around the      *)
(* guess of approximate_position, on the samples and by halving, or by a   *)
(* scan or interpolation where each segment has a bpc of its own.          *)
(***************************************************************************)
EXTENDS WordArithmetic, FiniteSetsExt

CONSTANTS
  AutoBpc,                    (* whether each segment has a bpc of its own          *)
  Density,                    (* extraction_density                                 *)
  LinearThreshold,            (* linear_threshold, up to which it scans (256)       *)
  Wrapped(_),                 (* to the width of position_type                      *)
  Decompress(_, _),           (* the element of a segment at a position             *)
  ApproximatePosition(_, _)   (* the guess pos for a value, and the bound around it *)

Middle(lo, hi) == lo + (hi - lo) \div 2

\* The first position from lo on, and before hi, whose element is not below value.
\* r is <<lo, hi>>.
BinarySearch(s, value, from, to) ==
  LET search[r \in Nat \X Nat] ==
        LET mid == Middle(r[1], r[2])
        IN IF r[1] >= r[2] THEN r[1]
           ELSE search[IF Decompress(s, mid) < value THEN <<mid + 1, r[2]>> ELSE <<r[1], mid>>]
  IN search[<<from, to>>]

\* The same on the positions that are multiples of Density: where it leaves lo and hi.
\* r is <<lo, hi, sample_lo, sample_hi>>.
SampleSearch(s, value, from, to) ==
  LET search[r \in Nat \X Nat \X Nat \X Nat] ==
        LET mid    == Middle(r[3], r[4])
            sample == mid * Density
        IN IF r[3] >= r[4] THEN <<r[1], r[2]>>
           ELSE search[IF Decompress(s, sample) < value THEN <<sample, r[2], mid + 1, r[4]>>
                       ELSE <<r[1], sample, r[3], mid>>]
  IN search[<<from, to, CeilDiv(from, Density), Wrapped(to - 1) \div Density + 1>>]

ScanForward(s, value, from, to) ==
  LET scan[p \in Nat] == IF p < to /\ Decompress(s, p) < value THEN scan[p + 1] ELSE p
  IN scan[from]

\* mutant: the backward scan stops one position too late
ScanBelow(s, value, from) ==
  LET scan[p \in Nat] == IF p > s.first /\ Decompress(s, p) >= value THEN scan[p - 1] ELSE p
  IN scan[from]

ScanBackward(s, value, from) ==
  LET scan[p \in Nat] == IF p > s.first /\ Decompress(s, p - 1) >= value THEN scan[p - 1] ELSE p
  IN scan[from]

\* the loop of interpolation steps and the scan of what it leaves
InterpolationSearch(s, value, from, to, valueAtTo) ==
  LET search[lo \in Nat, hi \in Nat, count \in Nat, low \in Nat, high \in Nat] ==
        IF count <= LinearThreshold THEN ScanForward(s, value, lo, hi)
        ELSE LET step == TruncatedDiv((value - low) * (count - 1), Wrapped(high - low))
                 p    == lo + step
                 next == Decompress(s, p + 1)
             IN IF value <= Decompress(s, p) THEN search[lo, p, Wrapped(step), low, Decompress(s, p)]
                ELSE IF next >= value THEN p + 1
                ELSE search[p + 1, hi, Wrapped(count - step - 1), next, high]
  IN search[from, to, Wrapped(to - from), Decompress(s, from), valueAtTo]

\* where the search starts, and the positions it is confined to
Reach(s, last, value) ==
  LET guess == ApproximatePosition(s, value)
      pos   == Min({Max({guess.pos, s.first}), last - 1})
  IN [pos |-> pos,
      lo |-> IF pos <= Wrapped(guess.bound + s.first) THEN s.first ELSE Wrapped(pos - guess.bound),
      hi |-> Min({Wrapped(pos + guess.bound + 1), last})]

Scans(reach) == AutoBpc /\ Wrapped(reach.hi - reach.lo) <= LinearThreshold

\* where lower_bound stops within segment s, which ends before position last
LowerBoundIn(s, last, value) ==
  LET reach == Reach(s, last, value)
      pos   == reach.pos
      lo    == reach.lo
      hi    == reach.hi
      found == Decompress(s, pos) <= value
  IN CASE ~AutoBpc ->
            LET sampled == SampleSearch(s, value, lo, hi)
            IN BinarySearch(s, value, sampled[1], sampled[2])
       [] Scans(reach) ->
            IF found THEN ScanForward(s, value, pos, last) ELSE ScanBackward(s, value, pos)
       [] AutoBpc /\ ~Scans(reach) /\ found ->
            IF hi = last /\ value > Decompress(s, hi - 1) THEN last
            ELSE InterpolationSearch(s, value, pos, hi, Decompress(s, hi - 1))
       [] OTHER -> InterpolationSearch(s, value, lo, pos, Decompress(s, pos))
=============================================================================
