------------------------ MODULE PiecewiseLinearModel ------------------------
(***************************************************************************)
(* OptimalPiecewiseLinearModel, lib/adapted_code/piecewise_linear_model.hpp.*)
(* The streaming algorithm behind every learned structure of the           *)
(* repository: points arrive with increasing x, and the model keeps the    *)
(* set of lines that pass within epsilon of every point of the current     *)
(* segment, represented by two extreme lines ("rectangle") and two hulls.  *)
(*                                                                         *)
(* The model object is a record, so that the segmentations that drive one  *)
(* or many models (make_segmentation, la_vector::make_segmentation) reuse  *)
(* the operators of this module.  Hull indices are 1-based here.           *)
(***************************************************************************)
EXTENDS Integers, Sequences, FiniteSetsExt

-----------------------------------------------------------------------------
(* Points, slopes and their comparison by cross multiplication: slopes are *)
(* never divided, so a comparison means what it says only when the two dx  *)
(* have the same sign.                                                     *)

Point(x, y) == [x |-> x, y |-> y]

Minus(p, q) == [dx |-> p.x - q.x, dy |-> p.y - q.y]

SlopeLT(s, t) == s.dy * t.dx < s.dx * t.dy
SlopeGT(s, t) == s.dy * t.dx > s.dx * t.dy
SlopeEQ(s, t) == s.dy * t.dx = s.dx * t.dy

Cross(o, a, b) == Minus(a, o).dx * Minus(b, o).dy - Minus(a, o).dy * Minus(b, o).dx

-----------------------------------------------------------------------------
(* The object.  upper and lower hold unshifted points; reading a hull      *)
(* entry shifts its y by +epsilon or -epsilon.                             *)

Origin == Point(0, 0)

NewModel(eps) ==
  [epsilon |-> eps, lower |-> <<>>, upper |-> <<>>, lowerStart |-> 1, upperStart |-> 1,
   pointsInHull |-> 0, firstX |-> 0, lastX |-> 0, rectangle |-> [k \in 0..3 |-> Origin]]

UpperAt(m, i) == Point(m.upper[i].x, m.upper[i].y + m.epsilon)
LowerAt(m, i) == Point(m.lower[i].x, m.lower[i].y - m.epsilon)

Slope1(m) == Minus(m.rectangle[2], m.rectangle[0])   \* the minimum slope
Slope2(m) == Minus(m.rectangle[3], m.rectangle[1])   \* the maximum slope

\* The scans for the extreme slope stop at the first hull entry that makes
\* the slope worse than its predecessor did.
LowerTangent(m, p) ==
  Min({i \in m.lowerStart + 1 .. Len(m.lower) :
         SlopeGT(Minus(LowerAt(m, i), p), Minus(LowerAt(m, i - 1), p))}
      \cup {Len(m.lower) + 1}) - 1

\* mutant: the scan has lost its break and ends on the newest entry
NewestUpper(m, p) == Len(m.upper)

UpperTangent(m, p) ==
  Min({i \in m.upperStart + 1 .. Len(m.upper) :
         SlopeLT(Minus(UpperAt(m, i), p), Minus(UpperAt(m, i - 1), p))}
      \cup {Len(m.upper) + 1}) - 1

\* mutant: the hull update pops nothing
NothingPopped(m, p) == Len(m.upper)

\* Hull updates pop entries from the back while the last turn is not strict,
\* never below the start of the hull, then push the new point.
UpperHullEnd(m, p) ==
  Max({e \in m.upperStart + 1 .. Len(m.upper) : Cross(UpperAt(m, e - 1), UpperAt(m, e), p) > 0}
      \cup {m.upperStart})

LowerHullEnd(m, p) ==
  Max({e \in m.lowerStart + 1 .. Len(m.lower) : Cross(LowerAt(m, e - 1), LowerAt(m, e), p) < 0}
      \cup {m.lowerStart})

-----------------------------------------------------------------------------
(* add_point, one operator per branch.                                     *)

\* mutant: the hulls of a new segment keep the starts of the last one
HullsKeepStarts(m, p) == [m EXCEPT !.upper = <<p>>, !.lower = <<p>>]

RestartHulls(m, p) ==
  [m EXCEPT !.upper = <<p>>, !.lower = <<p>>, !.upperStart = 1, !.lowerStart = 1]

FirstPoint(m, x, y) ==
  [RestartHulls(m, Point(x, y)) EXCEPT
     !.firstX = x, !.lastX = x, !.pointsInHull = 1,
     !.rectangle[0] = Point(x, y + m.epsilon), !.rectangle[1] = Point(x, y - m.epsilon)]

SecondPoint(m, x, y) ==
  [m EXCEPT !.lastX = x,
            !.rectangle[2] = Point(x, y - m.epsilon), !.rectangle[3] = Point(x, y + m.epsilon),
            !.upper = Append(@, Point(x, y)), !.lower = Append(@, Point(x, y)),
            !.pointsInHull = 2]

OnLine(m, x, y) == SlopeEQ(Minus(Point(x, y), m.rectangle[0]), Slope1(m))

\* mutant: only one of the two extreme lines is consulted
OutsideLine1(m, x, y) == SlopeLT(Minus(Point(x, y + m.epsilon), m.rectangle[2]), Slope1(m))

\* mutant: a point that touches an extreme line is refused
OutsideOrTouching(m, x, y) ==
  \/ ~SlopeGT(Minus(Point(x, y + m.epsilon), m.rectangle[2]), Slope1(m))
  \/ ~SlopeLT(Minus(Point(x, y - m.epsilon), m.rectangle[3]), Slope2(m))

Outside(m, x, y) ==
  \/ SlopeLT(Minus(Point(x, y + m.epsilon), m.rectangle[2]), Slope1(m))
  \/ SlopeGT(Minus(Point(x, y - m.epsilon), m.rectangle[3]), Slope2(m))

Accepts(m, x, y) ==
  \/ m.pointsInHull < 2
  \/ m.epsilon = 0 /\ OnLine(m, x, y)
  \/ m.epsilon # 0 /\ ~Outside(m, x, y)

\* The upper end p1 of the point lies below the maximum-slope line.
NarrowMaxSlope(m, x, y) ==
  LET p1 == Point(x, y + m.epsilon)
      k  == LowerTangent(m, p1)
  IN [m EXCEPT !.rectangle[1] = LowerAt(m, k), !.rectangle[3] = p1, !.lowerStart = k,
               !.upper = Append(SubSeq(@, 1, UpperHullEnd(m, p1)), Point(x, y))]

\* The lower end p2 of the point lies above the minimum-slope line.
NarrowMinSlope(m, x, y) ==
  LET p2 == Point(x, y - m.epsilon)
      k  == UpperTangent(m, p2)
  IN [m EXCEPT !.rectangle[0] = UpperAt(m, k), !.rectangle[2] = p2, !.upperStart = k,
               !.lower = Append(SubSeq(@, 1, LowerHullEnd(m, p2)), Point(x, y))]

MaxSlopeStep(m, x, y) ==
  IF SlopeLT(Minus(Point(x, y + m.epsilon), m.rectangle[1]), Slope2(m))
  THEN NarrowMaxSlope(m, x, y) ELSE m

MinSlopeStep(m, x, y) ==
  IF SlopeGT(Minus(Point(x, y - m.epsilon), m.rectangle[0]), Slope1(m))
  THEN NarrowMinSlope(m, x, y) ELSE m

InnerPoint(m, x, y) ==
  LET narrowed == IF m.epsilon = 0 THEN m ELSE MinSlopeStep(MaxSlopeStep(m, x, y), x, y)
  IN [narrowed EXCEPT !.lastX = x, !.pointsInHull = @ + 1]

Refuse(m, x) == [m EXCEPT !.lastX = x, !.pointsInHull = 0]

AddPoint(m, x, y) ==
  CASE m.pointsInHull = 0 -> FirstPoint(m, x, y)
    [] m.pointsInHull = 1 -> SecondPoint(m, x, y)
    [] m.pointsInHull >= 2 /\ Accepts(m, x, y) -> InnerPoint(m, x, y)
    [] OTHER -> Refuse(m, x)

\* reset(): the rectangle and the hull starts are left as they are.
ResetModel(m) == [m EXCEPT !.pointsInHull = 0, !.lower = <<>>, !.upper = <<>>]

\* get_segment(): with a single point the last two corners repeat the first.
GetSegment(m) ==
  [first |-> m.firstX,
   rectangle |-> IF m.pointsInHull = 1 THEN [k \in 0..3 |-> m.rectangle[k % 2]] ELSE m.rectangle]

-----------------------------------------------------------------------------
(* What an object consists of.                                             *)

StoredPoints == [x : Nat, y : Nat]
Corners == [x : Nat, y : Int]

Models ==
  [epsilon : Nat, lower : Seq(StoredPoints), upper : Seq(StoredPoints),
   lowerStart : Nat \ {0}, upperStart : Nat \ {0}, pointsInHull : Nat,
   firstX : Nat, lastX : Nat, rectangle : [0..3 -> Corners]]

-----------------------------------------------------------------------------
(* Reference: a line within epsilon of every point exists iff every lower  *)
(* bound that a pair of points puts on the slope is at most every upper    *)
(* bound that a pair of points puts on it.                                 *)

Pairs(pts) == {q \in (DOMAIN pts) \X (DOMAIN pts) : q[1] < q[2]}

\* the smallest and the largest slope of a line within eps of points i and j
LeastSlope(pts, eps, q) ==
  [dx |-> pts[q[2]].x - pts[q[1]].x, dy |-> pts[q[2]].y - pts[q[1]].y - 2 * eps]
GreatestSlope(pts, eps, q) ==
  [dx |-> pts[q[2]].x - pts[q[1]].x, dy |-> pts[q[2]].y - pts[q[1]].y + 2 * eps]

Feasible(pts, eps) ==
  \A q, r \in Pairs(pts) : ~SlopeGT(LeastSlope(pts, eps, q), GreatestSlope(pts, eps, r))

\* the line through p and q passes within eps of every point of pts
LineFits(p, q, pts, eps) ==
  LET s == Minus(q, p)
  IN \A k \in DOMAIN pts :
       LET error == (pts[k].y - p.y) * s.dx - (pts[k].x - p.x) * s.dy
       IN error <= eps * s.dx /\ error >= -(eps * s.dx)

=============================================================================
