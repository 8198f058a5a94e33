-------------------------- MODULE MCSegmentation --------------------------
(* Sorted sequences of up to NMax keys, each at the x of its predecessor or at *)
(* the next one; the last key is far enough from the others to force a cut.    *)
EXTENDS Segmentation

CONSTANTS NMax, MaxRepeats, Heights

\* the positions whose x is that of their predecessor, and the x they make
XSteps(n) == {[k \in 1..n |-> k - 1 - Cardinality({r \in repeats : r <= k})] :
                repeats \in UNION {kSubset(c, 2..n) : c \in 0..MaxRepeats}}
Sorted(n) == {ys \in [1..n -> Heights] : \A k \in 2..n : ys[k - 1] <= ys[k]}

MCInputs ==
  {<<>>} \cup UNION {{[k \in 1..n |-> Point(xs[k], ys[k])] : xs \in XSteps(n), ys \in Sorted(n)}
                       : n \in 1..NMax}
===========================================================================
