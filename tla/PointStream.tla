----------------------------- MODULE PointStream -----------------------------
(***************************************************************************)
(* One OptimalPiecewiseLinearModel object fed point by point, the way its  *)
(* callers feed it: x increases within a segment, and a refused point is   *)
(* the next one added, which opens a new segment.                          *)
(***************************************************************************)
EXTENDS PiecewiseLinearModel

CONSTANTS
  Epsilons,  (* the error bounds given to the constructor              *)
  Xs,        (* the x of the points a caller adds                      *)
  Ys         (* the y of the points a caller adds                      *)

ASSUME StreamAssumption ==
  /\ Epsilons \subseteq Nat
  /\ Xs \subseteq Nat
  /\ Ys \subseteq Nat

VARIABLES
  opt,       (* the object                                                  *)
  pts,       (* history: the points of the segment the rectangle describes  *)
  refused    (* history: the sequence holding the point just refused, if any*)

vars == <<opt, pts, refused>>

Init ==
  /\ opt \in {NewModel(eps) : eps \in Epsilons}
  /\ pts = <<>>
  /\ refused = <<>>

\* add_point throws, and changes nothing, unless x exceeds last_x.
Addable(x, y) ==
  /\ opt.pointsInHull > 0 => x > opt.lastX
  /\ refused # <<>> => refused = <<Point(x, y)>>

Accept(x, y) ==
  /\ Addable(x, y)
  /\ Accepts(opt, x, y)
  /\ opt' = AddPoint(opt, x, y)
  /\ pts' = Append(IF opt.pointsInHull = 0 THEN <<>> ELSE pts, Point(x, y))
  /\ refused' = <<>>

Reject(x, y) ==
  /\ Addable(x, y)
  /\ ~Accepts(opt, x, y)
  /\ opt' = AddPoint(opt, x, y)
  /\ refused' = <<Point(x, y)>>
  /\ UNCHANGED pts

Reset ==
  /\ opt' = ResetModel(opt)
  /\ pts' = <<>>
  /\ refused' = <<>>

Next ==
  \/ \E x \in Xs, y \in Ys : Accept(x, y) \/ Reject(x, y)
  \/ Reset

Spec == Init /\ [][Next]_vars

-----------------------------------------------------------------------------
\* Both hulls hold at least the entry their start index points to whenever
\* points are in the hull: reading lower[lower_start] and upper[upper_start]
\* (piecewise_linear_model.hpp:176 and :199) is in range.
TypeOK ==
  /\ opt \in Models
  /\ pts \in Seq(StoredPoints)
  /\ refused \in Seq(StoredPoints)
  /\ opt.pointsInHull > 0 => /\ opt.lowerStart <= Len(opt.lower)
                             /\ opt.upperStart <= Len(opt.upper)

\* Slopes are compared by cross multiplication, which is the order of the
\* slopes only if every dx has the expected sign: the x of each hull strictly
\* increase up to the last point, and the two extreme lines run left to right.
SlopesWellFormed ==
  opt.pointsInHull >= 2 =>
    /\ Slope1(opt).dx > 0
    /\ Slope2(opt).dx > 0
    /\ opt.rectangle[2].x <= opt.lastX
    /\ opt.rectangle[3].x <= opt.lastX
    /\ \A hull \in {opt.lower, opt.upper} :
         /\ \A i, j \in DOMAIN hull : i < j => hull[i].x < hull[j].x
         /\ \A i \in DOMAIN hull : hull[i].x <= opt.lastX

\* The two lines of the rectangle, which get_segment hands out, pass within
\* epsilon of every point of the segment, also those popped from the hulls.
ExtremeLinesFit ==
  Len(pts) >= 2 =>
    /\ LineFits(opt.rectangle[0], opt.rectangle[2], pts, opt.epsilon)
    /\ LineFits(opt.rectangle[1], opt.rectangle[3], pts, opt.epsilon)

\* Their slopes are exactly the least and the greatest slope of any line
\* within epsilon of every point: no tangent scan stops early, no hull entry
\* that still matters is popped.
ExtremeSlopesExact ==
  Len(pts) >= 2 =>
    /\ \E q \in Pairs(pts) : SlopeEQ(Slope1(opt), LeastSlope(pts, opt.epsilon, q))
    /\ \E q \in Pairs(pts) : SlopeEQ(Slope2(opt), GreatestSlope(pts, opt.epsilon, q))
    /\ \A q \in Pairs(pts) : /\ ~SlopeLT(Slope1(opt), LeastSlope(pts, opt.epsilon, q))
                             /\ ~SlopeGT(Slope2(opt), GreatestSlope(pts, opt.epsilon, q))

\* The model is optimal: a point is refused exactly when no line passes
\* within epsilon of the segment's points and of the new one.
RefusesOnlyInfeasible ==
  [][/\ refused' # <<>> => ~Feasible(pts \o refused', opt.epsilon)
     /\ refused' = <<>> => Feasible(pts', opt.epsilon)]_vars

=============================================================================
