----------------------- MODULE MCPartitionedSequences -----------------------
(***************************************************************************)
(* The increasing sequences of up to MaxSize elements below MaxUniverse,   *)
(* and those of three runs of up to MaxRun elements, far from each other;  *)
(* each with the smallest universe it fits and with a larger one.          *)
(***************************************************************************)
EXTENDS PartitionedSequences, FiniteSetsExt

CONSTANTS MaxUniverse, MaxSize, MaxRun, RunGap

Sorted(S) == [i \in 1..Cardinality(S) |-> CHOOSE v \in S : Cardinality({w \in S : w < v}) = i - 1]

Small == UNION {kSubset(k, 0..MaxUniverse - 1) : k \in 1..MaxSize}

Runs ==
  {UNION {{run * RunGap + k : k \in 0..length[run] - 1} : run \in 1..3} :
     length \in [1..3 -> 0..MaxRun]} \ {{}}

MCInputs ==
  UNION {{[elements |-> Sorted(S), universe |-> u] : u \in {Max(S) + 1, Max(S) + 3}} :
           S \in Small \cup Runs}

MCEps1 == [num |-> 3, den |-> 100]
MCEps2 == [num |-> 3, den |-> 10]
=============================================================================
