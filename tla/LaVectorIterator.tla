-------------------------- MODULE LaVectorIterator --------------------------
(***************************************************************************)
(* lower_bound and la_iterator of a constructed la_vector,                 *)
(* lib/adapted_code/la_vector.hpp:131-231 and 579-671.  An iterator is a   *)
(* position and a cursor into the segments that moves along with it.       *)
(***************************************************************************)
EXTENDS LaVector

CONSTANTS
  LinearThreshold,  (* linear_threshold, up to which lower_bound scans (256)  *)
  Steps             (* the distances that += and + are given                  *)

ASSUME LaVectorIteratorAssumption == LinearThreshold \in Nat \ {0} /\ Steps \subseteq Int

VARIABLES
  at,      (* i                                                              *)
  cursor   (* s_it, the number of a segment; EndIndex for segments.end()     *)

vars == <<buildVars, at, cursor>>

Keys == 0..2 ^ KeyBits - 1

-----------------------------------------------------------------------------
(* lower_bound                                                             *)

\* approximate_position: the expected position and the error around it
ApproximatePosition(s, value) ==
  LET significand == IF s.significand = 0 THEN 1 ELSE s.significand
      p     == TruncatedDiv((value - s.intercept) * 2 ^ s.exponent, significand) + s.first
      bound == 1 + (BpcToEpsilon(s.bpc) * 2 ^ s.exponent) \div significand
  IN [pos |-> Wrapped(Max({0, p})), bound |-> Wrapped(bound)]

INSTANCE SegmentSearch

LowerBound(value, padding) ==
  IF value > BackKey THEN [at |-> n, cursor |-> EndIndex]
  ELSE IF value <= FrontKey THEN [at |-> 0, cursor |-> 0]
  ELSE LET s    == SegmentForValue(value, padding)
           last == Segment(s + 1).first
           i    == LowerBoundIn(Segment(s), last, value)
       IN [at |-> i, cursor |-> IF i = last THEN s + 1 ELSE s]

-----------------------------------------------------------------------------
(* la_iterator                                                             *)

\* mutant: the cursor steps back only once the position has left the segment by two
LateStepBack(i, c) == IF c > 0 /\ i + 1 < Segment(c).first THEN c - 1 ELSE c

StepForward(i, c) == IF i >= Segment(c + 1).first THEN c + 1 ELSE c
StepBack(i, c) == IF c > 0 /\ i < Segment(c).first THEN c - 1 ELSE c

\* move_segment_cursor: any step from segments.end() looks position i up
Moved(next, i, padding) == IF cursor = EndIndex THEN SegmentForPosition(i, padding) ELSE next

MoveTo(i, c) ==
  /\ pc = "built"
  /\ at' = i /\ cursor' = c
  /\ UNCHANGED buildVars

Init == BuildInit /\ at = 0 /\ cursor = 0

BuildStep == Build /\ UNCHANGED <<at, cursor>>

Begin == MoveTo(0, 0)
End == MoveTo(n, EndIndex)

Seek(value) ==
  \E padding \in Paddings :
    LET found == LowerBound(value, padding) IN MoveTo(found.at, found.cursor)

Increment ==
  /\ at < n
  /\ \E padding \in Paddings : MoveTo(at + 1, Moved(StepForward(at + 1, cursor), at + 1, padding))

Decrement ==
  /\ at > 0
  /\ \E padding \in Paddings : MoveTo(at - 1, Moved(StepBack(at - 1, cursor), at - 1, padding))

\* operator+ and operator-: a new iterator, whose segment is looked up
Plus(d) ==
  /\ at + d \in 0..n
  /\ \E padding \in Paddings : MoveTo(at + d, SegmentForPosition(at + d, padding))

\* operator+= and operator-=.  On the sentinel the code compares with the first
\* field of the element after the last one, which may have any value.  On end() it
\* would read that of the cursor too: no outcome is modelled.
Advance(d) ==
  /\ at + d \in 0..n
  /\ cursor # EndIndex
  /\ \/ /\ \/ at + d < Segment(cursor).first
           \/ cursor = SentinelIndex
           \/ cursor # SentinelIndex /\ at + d >= Segment(cursor + 1).first
        /\ \E padding \in Paddings : MoveTo(at + d, SegmentForPosition(at + d, padding))
     \/ /\ at + d >= Segment(cursor).first
        /\ cursor # SentinelIndex => at + d < Segment(cursor + 1).first
        /\ MoveTo(at + d, cursor)

Next ==
  \/ BuildStep
  \/ Begin \/ End \/ Increment \/ Decrement
  \/ \E value \in Keys : pc = "built" /\ Seek(value)
  \/ \E d \in Steps : pc = "built" /\ (Plus(d) \/ Advance(d))

Spec == Init /\ [][Next]_vars

\* the construction alone, whose result lower_bound can be asked
BuildSpec == Init /\ [][BuildStep]_vars

-----------------------------------------------------------------------------
(* The fields of the vector have their types, and the iterator is at a      *)
(* position of the vector or at its end, with a cursor that is a segment,   *)
(* the sentinel or segments.end().                                          *)
TypeOK ==
  /\ BuildTypeOK
  /\ at \in 0..n
  /\ cursor \in 0..Len(segments)

(* lower_bound returns the number of elements below the value, which rank   *)
(* answers too, with the segment of that position (:131-239): the segment   *)
(* looked up, the interval around the guess, the sampled and the            *)
(* interpolation search all have to contain the answer.  It reads nothing   *)
(* of an iterator, so one position of the iterator stands for all.          *)
LowerBoundIsExact ==
  pc = "built" /\ at = 0 =>
    \A value \in Keys, padding \in Paddings :
      LET found == LowerBound(value, padding)
      IN /\ found.at = Cardinality({i \in 0..n - 1 : Key(i) < value})
         /\ found.at < n => found.cursor = SegmentOf(found.at)

(* However an iterator was moved, dereferencing it before the end gives the *)
(* element of its position: the cursor has followed it to the segment that  *)
(* encodes it, back from the sentinel and from the end too (:588-661).      *)
IteratorOnItsSegment ==
  pc = "built" /\ at < n =>
    /\ cursor \in RealSegments
    /\ Decompress(Segment(cursor), at) = Key(at)
=============================================================================
