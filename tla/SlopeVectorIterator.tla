------------------------- MODULE SlopeVectorIterator -------------------------
(***************************************************************************)
(* lower_bound and la_iterator of a constructed la_vector_slope or         *)
(* la_vector_bs, include/la_vector_slope.hpp:291-405 and 680-781.  The end *)
(* of the vector is one cursor here, the sentinel behind the segments.     *)
(***************************************************************************)
EXTENDS SlopeVector

CONSTANTS
  LinearThreshold,  (* linear_threshold, up to which lower_bound scans (256)  *)
  Steps,            (* the distances that += and + are given                  *)
  Sought            (* bound: the keys an iterator is sought with             *)

ASSUME SlopeVectorIteratorAssumption == LinearThreshold \in Nat \ {0} /\ Steps \cup Sought \subseteq Int

VARIABLES
  at,      (* i                              *)
  cursor   (* s_it, the number of a segment  *)

vars == <<buildVars, at, cursor>>

Keys == 0..2 ^ KeyBits - 1

-----------------------------------------------------------------------------
(* lower_bound                                                             *)

\* approximate_position: the distance from the intercept is multiplied by the slope
ApproximatePosition(s, value) ==
  LET p     == TruncatedDiv((value * s.den - s.intercept) * s.slope + s.first * s.den * s.den,
                            s.den * s.den)
      bound == TruncatedDiv(s.den + BpcToEpsilon(s.bpc) * s.slope, s.den)
  IN [pos |-> Wrapped(Max({0, p})), bound |-> Wrapped(bound)]

INSTANCE SegmentSearch

\* the number of elements below value
Below(value) == Cardinality({i \in 0..n - 1 : Key(i) < value})

\* The search in segment s ends at the answer: it scans, or the answer is among the
\* positions it is confined to.
WithinReach(s, last, value) ==
  LET reach  == Reach(s, last, value)
      answer == Below(value)
  IN \/ Scans(reach)
     \/ reach.lo <= answer /\ (answer < reach.hi \/ (answer = last /\ reach.hi = last))

LowerBound(value, padding) ==
  IF value > BackKey THEN [at |-> n, cursor |-> SentinelIndex]
  ELSE IF value <= FrontKey THEN [at |-> 0, cursor |-> 0]
  ELSE LET s    == SegmentForValue(value, padding)
           last == Segment(s + 1).first
           i    == LowerBoundIn(Segment(s), last, value)
       IN [at |-> i, cursor |-> IF i = last THEN s + 1 ELSE s]

\* no segment of la_vector_bs was left without a line
AllAssigned == \A k \in DOMAIN segments : ~Uninitialized(segments[k])

-----------------------------------------------------------------------------
(* la_iterator                                                             *)

\* mutant: the cursor steps back only once the position has left the segment by two
LateStepBack(i, c) == IF c > 0 /\ i + 1 < Segment(c).first THEN c - 1 ELSE c

StepForward(i, c) == IF i >= Segment(c + 1).first THEN c + 1 ELSE c
StepBack(i, c) == IF c > 0 /\ i < Segment(c).first THEN c - 1 ELSE c

MoveTo(i, c) ==
  /\ pc = "built"
  /\ at' = i /\ cursor' = c
  /\ UNCHANGED buildVars

Init == BuildInit /\ at = 0 /\ cursor = 0

BuildStep == Build /\ UNCHANGED <<at, cursor>>

Begin == MoveTo(0, 0)
End == MoveTo(n, SentinelIndex)

LookUp(i) == \E padding \in Paddings : MoveTo(i, SegmentForPosition(i, padding))

\* move_segment_cursor looks the position up when the cursor is at the end
Increment ==
  /\ at < n
  /\ \/ cursor = SentinelIndex /\ LookUp(at + 1)
     \/ cursor # SentinelIndex /\ MoveTo(at + 1, StepForward(at + 1, cursor))

Decrement ==
  /\ at > 0
  /\ \/ cursor = SentinelIndex /\ LookUp(at - 1)
     \/ cursor # SentinelIndex /\ MoveTo(at - 1, StepBack(at - 1, cursor))

\* operator+ and operator-: a new iterator, whose segment is looked up
Plus(d) == at + d \in 0..n /\ LookUp(at + d)

\* operator+= and operator-=.  At the end with d = 0 the code compares with the field
\* after the sentinel, which may have any value.
Advance(d) ==
  /\ at + d \in 0..n
  /\ \/ at + d < Segment(cursor).first /\ LookUp(at + d)
     \/ cursor # SentinelIndex /\ at + d >= Segment(cursor + 1).first /\ LookUp(at + d)
     \/ cursor = SentinelIndex /\ at + d >= Segment(cursor).first /\ LookUp(at + d)
     \/ /\ at + d >= Segment(cursor).first
        /\ cursor # SentinelIndex => at + d < Segment(cursor + 1).first
        /\ MoveTo(at + d, cursor)

\* the iterator that lower_bound returns
Seek(value) ==
  \E padding \in Paddings :
    LET found == LowerBound(value, padding) IN MoveTo(found.at, found.cursor)

\* Outside the reach of its search lower_bound may return any iterator, one behind the
\* end among them: LowerBoundIsExact is about those values.
SeekWithinReach(value) ==
  /\ FrontKey < value /\ value <= BackKey =>
       \A padding \in Paddings :
         LET c == SegmentForValue(value, padding)
         IN WithinReach(Segment(c), Segment(c + 1).first, value)
  /\ Seek(value)

Next ==
  \/ BuildStep
  \/ Begin \/ End \/ Increment \/ Decrement
  \/ \E d \in Steps : pc = "built" /\ (Plus(d) \/ Advance(d))
  \/ \E value \in Sought : pc = "built" /\ AllAssigned /\ SeekWithinReach(value)

Spec == Init /\ [][Next]_vars

\* the construction alone, whose result lower_bound can be asked
BuildSpec == Init /\ [][BuildStep]_vars

-----------------------------------------------------------------------------
(* The iterator is at a position of the vector or at its end, and what a    *)
(* segment stores of its first correction is in the range of its bit field, *)
(* as the types of the fields demand (la_vector_slope.hpp:557-585).         *)
TypeOK ==
  /\ pc \in {"pushing", "built", "failed"}
  /\ \A k \in DOMAIN segments :
       segments[k].firstCorrection \in 0..2 ^ segments[k].bpc - 1 /\ segments[k].den > 0
  /\ at \in 0..n /\ cursor \in 0..Len(segments)

(* lower_bound returns the number of elements below the value, as its       *)
(* comment says (la_vector_slope.hpp:292-296).                              *)
LowerBoundIsExact ==
  pc = "built" /\ at = 0 /\ AllAssigned =>
    \A value \in Keys, padding \in Paddings : LowerBound(value, padding).at = Below(value)

(* lower_bound does return the number of elements below the value whenever  *)
(* it scans the segment or that number is among the positions it searches;  *)
(* and the segment it has looked up holds the answer, unless the first key  *)
(* of the segment, on a line that starts below zero, was truncated to one   *)
(* less than its first element (la_vector_slope.hpp:297-397, 665-669).      *)
LowerBoundFindsWithinReach ==
  pc = "built" /\ at = 0 /\ AllAssigned =>
    \A value \in FrontKey + 1..BackKey, padding \in Paddings :
      LET c      == SegmentForValue(value, padding)
          s      == Segment(c)
          last   == Segment(c + 1).first
          answer == Below(value)
      IN \/ /\ answer \in s.first..last
            /\ WithinReach(s, last, value) => LowerBound(value, padding).at = answer
         \/ /\ answer = s.first - 1
            /\ s.intercept < 0 /\ FirstKey(s) = Key(s.first) - 1

(* However an iterator was moved, dereferencing it before the end gives the *)
(* element of its position, += and -= on end() included: the sentinel is    *)
(* what end() points to (la_vector_slope.hpp:688-760).                      *)
IteratorOnItsSegment ==
  pc = "built" /\ at < n /\ AllAssigned =>
    cursor \in RealSegments /\ Decompress(Segment(cursor), at) = Key(at)
=============================================================================
