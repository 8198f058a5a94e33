-------------------------- MODULE CanonicalSegment --------------------------
(***************************************************************************)
(* OptimalPiecewiseLinearModel::CanonicalSegment: the rectangle a model    *)
(* hands out and the line with integer parameters that is stored for it,   *)
(* lib/adapted_code/piecewise_linear_model.hpp.                            *)
(***************************************************************************)
EXTENDS PiecewiseLinearModel, WordArithmetic, SequencesExt

\* copy(): the same lines, for positions from x on
CopyFrom(cs, x) == [cs EXCEPT !.first = x]

OnePoint(cs) == cs.rectangle[0] = cs.rectangle[2] /\ cs.rectangle[1] = cs.rectangle[3]

MaxSlope(cs) == Minus(cs.rectangle[3], cs.rectangle[1])

\* the height of the maximum-slope line at origin, rounded to the nearest
\* integer, halves away from zero
RoundedIntercept(cs, origin) ==
  LET s     == MaxSlope(cs)
      n     == s.dy * (origin - cs.rectangle[1].x)
      round == TruncatedDiv(IF n < 0 THEN -s.dx ELSE s.dx, 2)
  IN TruncatedDiv(n + round, s.dx) + cs.rectangle[1].y

\* get_fixed_point_segment
FixedPointSegment(cs, origin, maxInput) ==
  IF OnePoint(cs)
  THEN [significand |-> 0, exponent |-> 0,
        intercept |-> TruncatedDiv(cs.rectangle[0].y + cs.rectangle[1].y, 2)]
  ELSE LET s        == MaxSlope(cs)
           integral == s.dy % s.dx = 0
           exponent == IF integral THEN 0 ELSE CeilLog2(maxInput) + 1
       IN [significand |-> TruncatedDiv(s.dy * 2 ^ exponent, s.dx), exponent |-> exponent,
           intercept |-> RoundedIntercept(cs, origin)]

\* get_fixed_point_segment_PEF does not round the intercept
FixedPointSegmentPEF(cs, origin, maxInput) ==
  LET s == MaxSlope(cs)
  IN [FixedPointSegment(cs, origin, maxInput) EXCEPT !.intercept =
        IF OnePoint(cs) THEN @
        ELSE TruncatedDiv(s.dy * (origin - cs.rectangle[1].x), s.dx) + cs.rectangle[1].y]

-----------------------------------------------------------------------------
\* make_segmentation over the points (k, data[k]) with begin <= k < end, whose
\* x never repeats: the segments the greedy scan emits.
GreedySegments(data, eps, begin, end) ==
  LET Read(scan, k) ==
        LET opt == AddPoint(scan.opt, k, data[k + 1])
        IN IF Accepts(scan.opt, k, data[k + 1])
           THEN [scan EXCEPT !.opt = opt]
           ELSE [opt |-> AddPoint(opt, k, data[k + 1]), out |-> Append(scan.out, GetSegment(opt))]
      last == FoldLeft(Read, [opt |-> NewModel(eps), out |-> <<>>],
                       [k \in 1..end - begin |-> begin + k - 1])
  IN Append(last.out, GetSegment(last.opt))
=============================================================================
