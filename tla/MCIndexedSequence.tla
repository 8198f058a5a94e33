-------------------------- MODULE MCIndexedSequence --------------------------
(***************************************************************************)
(* The increasing sequences of up to MaxSize elements below MaxUniverse    *)
(* and the sorted ones below MaxRepeated, each with the smallest universe  *)
(* it fits and with MaxUniverse.                                           *)
(***************************************************************************)
EXTENDS IndexedSequence, FiniteSetsExt

CONSTANTS MaxUniverse, MaxRepeated, MaxSize

Sorted(S) == [i \in 1..Cardinality(S) |-> CHOOSE v \in S : Cardinality({w \in S : w < v}) = i - 1]

IncreasingSequences ==
  {Sorted(S) : S \in UNION {kSubset(k, 0..MaxUniverse - 1) : k \in 1..MaxSize}}

\* element i of an increasing sequence, less i - 1
SortedSequences ==
  UNION {{[i \in 1..k |-> Sorted(S)[i] - i + 1] : S \in kSubset(k, 0..MaxRepeated + k - 2)} :
           k \in 1..MaxSize}

MCInputs ==
  UNION {{[elements |-> seq, universe |-> u] : u \in {seq[Len(seq)] + 1, MaxUniverse}} :
           seq \in IncreasingSequences \cup SortedSequences}
=============================================================================
