---------------------- MODULE SlopePiecewiseLinearModel ----------------------
(***************************************************************************)
(* Slope_OptimalPiecewiseLinearModel, include/slope_piecewise_linear_model *)
(* .hpp.  It builds the rectangle as OptimalPiecewiseLinearModel does, but *)
(* without a case of its own for epsilon = 0, and hands out a line between *)
(* the two extreme ones, with real parameters.  These are exact here: the  *)
(* code computes them in long double.                                      *)
(***************************************************************************)
EXTENDS CanonicalSegment

SlopeAccepts(m, x, y) == m.pointsInHull < 2 \/ ~Outside(m, x, y)

SlopeInnerPoint(m, x, y) ==
  [MinSlopeStep(MaxSlopeStep(m, x, y), x, y) EXCEPT !.lastX = x, !.pointsInHull = @ + 1]

SlopeAddPoint(m, x, y) ==
  CASE m.pointsInHull = 0 -> FirstPoint(m, x, y)
    [] m.pointsInHull = 1 -> SecondPoint(m, x, y)
    [] m.pointsInHull >= 2 /\ SlopeAccepts(m, x, y) -> SlopeInnerPoint(m, x, y)
    [] OTHER -> Refuse(m, x)

\* slope_make_segmentation over the points (k, data[k]) with begin <= k < end
SlopeMakeSegmentation(data, eps, begin, end) ==
  LET Read(scan, k) ==
        LET opt == SlopeAddPoint(scan.opt, k, data[k + 1])
        IN IF SlopeAccepts(scan.opt, k, data[k + 1])
           THEN [scan EXCEPT !.opt = opt]
           ELSE [opt |-> SlopeAddPoint(opt, k, data[k + 1]),
                 out |-> Append(scan.out, GetSegment(opt))]
      last == FoldLeft(Read, [opt |-> NewModel(eps), out |-> <<>>],
                       [k \in 1..end - begin |-> begin + k - 1])
  IN Append(last.out, GetSegment(last.opt))

\* slope_make_segmentation_par: the segments of each chunk, one chunk after the other
SlopeMakeSegmentationPar(data, eps, chunks) ==
  LET size   == Len(data) \div chunks
      end(c) == IF c = chunks THEN Len(data) ELSE c * size
  IN FlattenSeq([c \in 1..chunks |-> SlopeMakeSegmentation(data, eps, (c - 1) * size, end(c))])

-----------------------------------------------------------------------------
(* The lines of a segment.  A line has the height                          *)
(* (slope * (x - origin) + intercept) / den at x.                          *)

\* get_fixed_point_segment<S>: S / 8 of the way from the line of maximum slope to
\* the one of minimum slope, its height at origin moved half a unit away from zero.
SlopeLine(cs, origin, S) ==
  IF OnePoint(cs) THEN [slope |-> 0, intercept |-> cs.rectangle[0].y + cs.rectangle[1].y, den |-> 2]
  ELSE LET max == Minus(cs.rectangle[3], cs.rectangle[1])
           min == Minus(cs.rectangle[2], cs.rectangle[0])
           dx  == (8 - S) * max.dx + S * min.dx
           dy  == (8 - S) * max.dy + S * min.dy
           px  == (8 - S) * cs.rectangle[1].x + S * cs.rectangle[0].x
           py  == (8 - S) * cs.rectangle[1].y + S * cs.rectangle[0].y
           rise == dy * (8 * origin - px)
       IN [slope |-> 8 * dy,
           intercept |-> rise + (IF rise < 0 THEN -4 * dx ELSE 4 * dx) + dx * py,
           den |-> 8 * dx]
=============================================================================
