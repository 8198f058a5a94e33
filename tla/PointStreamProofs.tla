-------------------------- MODULE PointStreamProofs --------------------------
(***************************************************************************)
(* One object under every stream of points: its types, its slopes, and     *)
(* the exactness of its extreme lines.                                     *)
(***************************************************************************)
EXTENDS PointStream, ModelTheorems

-----------------------------------------------------------------------------
(* Types and slopes.                                                       *)

\* The inductive invariant of these two: a predicate on the object alone.
IInv ==
  /\ WellFormed(opt)
  /\ pts \in Seq(StoredPoints)
  /\ refused \in Seq(StoredPoints)

\* The invariant gives the two properties that the runs check.
LEMMA IInvImplies == IInv => TypeOK /\ SlopesWellFormed
<1> SUFFICES ASSUME IInv PROVE TypeOK /\ SlopesWellFormed
  OBVIOUS
<1>1. TypeOK
  BY DEF IInv, WellFormed, StartsInRange, TypeOK
<1>2. ASSUME opt.pointsInHull >= 2
      PROVE  LinesUpTo(opt, opt.lastX) /\ HullUpTo(opt.lower, opt.lastX)
                                       /\ HullUpTo(opt.upper, opt.lastX)
  BY <1>2 DEF IInv, WellFormed, Models
<1>3. SlopesWellFormed
  <2> SUFFICES ASSUME opt.pointsInHull >= 2 PROVE SlopesWellFormed
    BY DEF SlopesWellFormed
  <2>1. Slope1(opt).dx > 0 /\ Slope2(opt).dx > 0
    <3>1. opt \in Models
      BY DEF IInv, WellFormed
    <3> QED
      BY SMTT(30), <1>2, <3>1, ModelParts DEF LinesUpTo, Slope1, Slope2, Minus
  <2> QED
    BY <1>2, <2>1 DEF SlopesWellFormed, LinesUpTo, HullUpTo
<1> QED
  BY <1>1, <1>3

\* A new object satisfies the inductive invariant.
LEMMA InitEstablishes == Init => IInv
<1> SUFFICES ASSUME Init PROVE IInv
  OBVIOUS
<1>1. PICK eps \in Epsilons : opt = NewModel(eps)
  BY DEF Init
<1>2. Origin \in Corners /\ eps \in Nat
  BY StreamAssumption, CornerPoint DEF Origin
<1>3. opt \in Models /\ opt.pointsInHull = 0
  BY <1>1, <1>2 DEF NewModel, Models
<1> QED
  BY <1>3 DEF Init, IInv, WellFormed

\* Every call keeps the inductive invariant.
LEMMA NextPreserves == IInv /\ [Next]_vars => IInv'
<1> SUFFICES ASSUME IInv, [Next]_vars PROVE IInv'
  OBVIOUS
<1>1. opt \in Models /\ WellFormed(opt)
  BY DEF IInv, WellFormed
<1>2. ASSUME NEW x \in Xs, NEW y \in Ys, Accept(x, y) PROVE IInv'
  <2>1. x \in Nat /\ y \in Nat /\ Point(x, y) \in StoredPoints
    BY StreamAssumption DEF Point, StoredPoints
  <2>2. WellFormed(AddPoint(opt, x, y))
    BY <1>1, <1>2, <2>1, AddPointWellFormed DEF Accept, Addable
  <2>3. WellFormed(opt')
    BY <1>2, <2>2 DEF Accept
  <2>4. pts' \in Seq(StoredPoints) /\ refused' \in Seq(StoredPoints)
    BY <1>2, <2>1 DEF Accept, IInv
  <2> QED
    BY <2>3, <2>4 DEF IInv, WellFormed, StartsInRange, HullUpTo, LinesUpTo, Models,
                      StoredPoints, Corners
<1>3. ASSUME NEW x \in Xs, NEW y \in Ys, Reject(x, y) PROVE IInv'
  <2>1. x \in Nat /\ y \in Nat /\ Point(x, y) \in StoredPoints
    BY StreamAssumption DEF Point, StoredPoints
  <2>2. WellFormed(AddPoint(opt, x, y))
    BY <1>1, <1>3, <2>1, AddPointWellFormed DEF Reject, Addable
  <2>3. WellFormed(opt')
    BY <1>3, <2>2 DEF Reject
  <2>4. pts' \in Seq(StoredPoints) /\ refused' \in Seq(StoredPoints)
    BY <1>3, <2>1 DEF Reject, IInv
  <2> QED
    BY <2>3, <2>4 DEF IInv
<1>4. ASSUME Reset PROVE IInv'
  <2>1. WellFormed(ResetModel(opt))
    BY <1>1, EmptiedWellFormed
  <2> QED
    BY <1>4, <2>1 DEF Reset, IInv
<1>5. CASE UNCHANGED vars
  BY <1>5 DEF vars, IInv
<1> QED
  BY <1>2, <1>3, <1>4, <1>5 DEF Next

\* Every reachable object has in-range hull starts and fields of their types,
\* whatever the error bound and the points: lower[lower_start] and
\* upper[upper_start] are never read out of bounds.
THEOREM TypeCorrect == Spec => []TypeOK
<1>1. IInv => TypeOK
  BY IInvImplies
<1> QED
  BY <1>1, InitEstablishes, NextPreserves, PTL DEF Spec

\* Every slope that is compared by cross multiplication has a positive run,
\* and hulls stay sorted, for every error bound and every stream of points.
THEOREM SlopesAlwaysWellFormed == Spec => []SlopesWellFormed
<1>1. IInv => SlopesWellFormed
  BY IInvImplies
<1> QED
  BY <1>1, InitEstablishes, NextPreserves, PTL DEF Spec

-----------------------------------------------------------------------------
(* Exactness.                                                              *)

\* The inductive invariant: the object is well formed and describes pts.
OInv == IInv /\ Tracks(opt, pts)

\* A new object describes the empty segment.
LEMMA OInitEstablishes == Init => OInv
<1> SUFFICES ASSUME Init PROVE OInv
  OBVIOUS
<1>1. IInv
  BY InitEstablishes
<1>2. opt.pointsInHull = 0 /\ pts = <<>>
  BY DEF Init, NewModel
<1>3. DOMAIN <<>> = {} /\ Len(<<>>) = 0
  OBVIOUS
<1>4. Tracks(opt, pts)
  BY <1>2, <1>3 DEF Tracks
<1> QED
  BY <1>1, <1>4 DEF OInv

\* What the actions do, in terms of add_point and reset.
LEMMA AddedPoint ==
  ASSUME OInv, NEW x \in Xs, NEW y \in Ys, Accept(x, y) \/ Reject(x, y)
  PROVE  /\ opt'.epsilon = opt.epsilon /\ Tracks(opt', pts')
         /\ x \in Nat /\ y \in Nat /\ opt \in Models /\ pts \in Seq(StoredPoints)
<1>1. /\ x \in Nat /\ y \in Nat /\ WellFormed(opt) /\ opt \in Models /\ pts \in Seq(StoredPoints)
      /\ Tracks(opt, pts)
  BY StreamAssumption DEF OInv, IInv, WellFormed
<1>2. opt.pointsInHull > 0 => x > opt.lastX
  BY DEF Accept, Reject, Addable
<1> DEFINE r == AddPoint(opt, x, y)
           start == IF opt.pointsInHull = 0 THEN <<>> ELSE pts
           ps == IF Accepts(opt, x, y) THEN Append(start, Point(x, y)) ELSE pts
<1>3. r.epsilon = opt.epsilon /\ Tracks(r, ps)
  BY <1>1, <1>2, AddPointTracks
<1>4. opt' = r /\ pts' = ps
  BY DEF Accept, Reject
<1> HIDE DEF r, ps
<1> QED
  BY <1>1, <1>3, <1>4

\* Every call keeps the invariant, and the error bound.
LEMMA ONextPreserves == OInv /\ [Next]_vars => OInv' /\ opt'.epsilon = opt.epsilon
<1> SUFFICES ASSUME OInv, [Next]_vars PROVE OInv' /\ opt'.epsilon = opt.epsilon
  OBVIOUS
<1>1. IInv /\ IInv'
  BY NextPreserves DEF OInv
<1>2. ASSUME NEW x \in Xs, NEW y \in Ys, Accept(x, y) \/ Reject(x, y)
      PROVE  Tracks(opt', pts') /\ opt'.epsilon = opt.epsilon
  BY <1>2, AddedPoint
<1>3. ASSUME Reset PROVE Tracks(opt', pts') /\ opt'.epsilon = opt.epsilon
  <2>1. opt \in Models /\ Tracks(opt, pts)
    BY DEF OInv, IInv, WellFormed
  <2>2. Tracks(ResetModel(opt), <<>>) /\ ResetModel(opt).epsilon = opt.epsilon
    BY <2>1, EmptiedTracks
  <2> QED
    BY <1>3, <2>2 DEF Reset
<1>4. CASE UNCHANGED vars
  <2>1. opt' = opt /\ pts' = pts
    BY <1>4 DEF vars
  <2> QED
    BY <1>1, <2>1 DEF OInv
<1>5. Tracks(opt', pts') /\ opt'.epsilon = opt.epsilon
  <2>1. CASE UNCHANGED vars
    <3>1. opt' = opt /\ pts' = pts
      BY <2>1 DEF vars
    <3> QED
      BY <3>1 DEF OInv
  <2> QED
    BY <1>2, <1>3, <2>1 DEF Next
<1>6. (Tracks(opt, pts))' = Tracks(opt', pts')
  BY DEF Tracks, Extreme, Between, Below, Lows, Highs, Exact, LowerView, UpperView, LowerAt, UpperAt,
         Enclosed, Covers, LeftToRight, RightTurns, UnderChain, Point, Mirror, Cross, Minus, Plane
<1> QED
  BY <1>1, <1>5, <1>6 DEF OInv

\* The invariant gives the two properties that the runs check.
LEMMA OInvImplies == OInv => ExtremeLinesFit /\ ExtremeSlopesExact
<1> SUFFICES ASSUME OInv PROVE ExtremeLinesFit /\ ExtremeSlopesExact
  OBVIOUS
<1>1. opt \in Models /\ pts \in Seq(StoredPoints) /\ Tracks(opt, pts)
  BY DEF OInv, IInv, WellFormed
<1>2. ExtremeLinesFit
  BY <1>1, TracksFits DEF ExtremeLinesFit
<1>3. ASSUME Len(pts) >= 2
      PROVE  /\ \E q \in Pairs(pts) : SlopeEQ(Slope1(opt), LeastSlope(pts, opt.epsilon, q))
             /\ \E q \in Pairs(pts) : SlopeEQ(Slope2(opt), GreatestSlope(pts, opt.epsilon, q))
             /\ \A q \in Pairs(pts) : /\ ~SlopeLT(Slope1(opt), LeastSlope(pts, opt.epsilon, q))
                                      /\ ~SlopeGT(Slope2(opt), GreatestSlope(pts, opt.epsilon, q))
  <2> DEFINE eps == opt.epsilon
  <2>0. eps \in Nat
    BY <1>1, ModelParts
  <2>1. PICK q, p \in Pairs(pts) : /\ Slope1(opt) = LeastSlope(pts, eps, q)
                                   /\ Slope2(opt) = GreatestSlope(pts, eps, p)
    BY <1>1, <1>3, TracksExact
  <2>2. /\ LineFits(opt.rectangle[0], opt.rectangle[2], pts, eps)
        /\ LineFits(opt.rectangle[1], opt.rectangle[3], pts, eps)
        /\ opt.rectangle[0] \in Plane /\ opt.rectangle[2] \in Plane
        /\ opt.rectangle[1] \in Plane /\ opt.rectangle[3] \in Plane
    BY <1>1, <1>3, TracksFits, CornersOfModel
  <2>3. ASSUME NEW f \in Pairs(pts)
        PROVE  /\ ~SlopeLT(Slope1(opt), LeastSlope(pts, eps, f))
               /\ ~SlopeGT(Slope2(opt), GreatestSlope(pts, eps, f))
    BY <1>1, <2>0, <2>2, FittingSlope DEF Slope1, Slope2
  <2>4. \A s : s.dx \in Int /\ s.dy \in Int => SlopeEQ(s, s)
    BY DEF SlopeEQ
  <2>5. /\ SlopeEQ(LeastSlope(pts, eps, q), LeastSlope(pts, eps, q))
        /\ SlopeEQ(GreatestSlope(pts, eps, p), GreatestSlope(pts, eps, p))
    BY <1>1, <2>0, <2>4, BoundsAreEnds
  <2> HIDE DEF eps
  <2>6. /\ \E f \in Pairs(pts) : SlopeEQ(Slope1(opt), LeastSlope(pts, eps, f))
        /\ \E f \in Pairs(pts) : SlopeEQ(Slope2(opt), GreatestSlope(pts, eps, f))
    BY <2>1, <2>5
  <2> QED
    BY <2>3, <2>6 DEF eps
<1>4. ExtremeSlopesExact
  BY <1>3 DEF ExtremeSlopesExact
<1> QED
  BY <1>2, <1>4

\* What a step refuses, and what it leaves.
LEMMA StepRefusesOnlyInfeasible ==
  ASSUME OInv, OInv', Next, opt'.epsilon = opt.epsilon
  PROVE  /\ refused' # <<>> => ~Feasible(pts \o refused', opt.epsilon)
         /\ refused' = <<>> => Feasible(pts', opt.epsilon)
<1>1. ASSUME refused' # <<>> PROVE ~Feasible(pts \o refused', opt.epsilon)
  <2>1. PICK x \in Xs, y \in Ys : Reject(x, y)
    BY <1>1 DEF Next, Accept, Reset
  <2>2. x \in Nat /\ y \in Nat /\ Point(x, y) \in StoredPoints
    BY StreamAssumption DEF Point, StoredPoints
  <2>3. WellFormed(opt) /\ pts \in Seq(StoredPoints) /\ Tracks(opt, pts)
    BY DEF OInv, IInv
  <2>4. ~Feasible(Append(pts, Point(x, y)), opt.epsilon)
    BY <2>1, <2>2, <2>3, RefusedInfeasible DEF Reject
  <2>5. refused' = <<Point(x, y)>>
    BY <2>1 DEF Reject
  <2>6. pts \o <<Point(x, y)>> = Append(pts, Point(x, y))
    BY <2>2, <2>3
  <2> QED
    BY <2>4, <2>5, <2>6
<1>2. Feasible(pts', opt.epsilon)
  <2>1. opt' \in Models /\ pts' \in Seq(StoredPoints)
    BY DEF OInv, IInv, WellFormed, Models, StoredPoints, Corners
  <2>2. Tracks(opt', pts')
    BY DEF OInv, Tracks, Extreme, Between, Below, Lows, Highs, Exact, LowerView, UpperView, LowerAt,
           UpperAt, Enclosed, Covers, LeftToRight, RightTurns, UnderChain, Point, Mirror, Cross, Minus, Plane
  <2>3. Feasible(pts', opt'.epsilon)
    BY <2>1, <2>2, TracksFeasible
  <2> QED
    BY <2>3
<1> QED
  BY <1>1, <1>2

\* Both lines that get_segment hands out pass within epsilon of every point
\* of the segment, whatever the error bound and the stream: also of the points
\* that the pops and the moved starts have taken out of the hulls.
THEOREM ExtremeLinesAlwaysFit == Spec => []ExtremeLinesFit
<1>1. OInv => ExtremeLinesFit
  BY OInvImplies
<1> QED
  BY <1>1, OInitEstablishes, ONextPreserves, PTL DEF Spec

\* Their slopes are exactly the least and the greatest slope of all lines that
\* fit: no tangent scan that breaks early, and no pop, loses a binding point.
THEOREM ExtremeSlopesAlwaysExact == Spec => []ExtremeSlopesExact
<1>1. OInv => ExtremeSlopesExact
  BY OInvImplies
<1> QED
  BY <1>1, OInitEstablishes, ONextPreserves, PTL DEF Spec

\* add_point refuses a point exactly when no line passes within epsilon of the
\* segment and of the point: greedy segments are as long as they can be.
THEOREM RefusalIsOptimal == Spec => RefusesOnlyInfeasible
<1> DEFINE A == /\ refused' # <<>> => ~Feasible(pts \o refused', opt.epsilon)
                /\ refused' = <<>> => Feasible(pts', opt.epsilon)
<1>1. OInv /\ [Next]_vars => [A]_vars
  <2> SUFFICES ASSUME OInv, Next PROVE A
    OBVIOUS
  <2>1. OInv' /\ opt'.epsilon = opt.epsilon
    BY ONextPreserves
  <2> QED
    BY <2>1, StepRefusesOnlyInfeasible
<1>2. Spec => [][A]_vars
  <2> HIDE DEF A
  <2> QED
    BY <1>1, OInitEstablishes, ONextPreserves, PTL DEF Spec
<1> QED
  BY <1>2 DEF RefusesOnlyInfeasible
=============================================================================
