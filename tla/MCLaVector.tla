----------------------------- MODULE MCLaVector -----------------------------
(***************************************************************************)
(* Small vectors for TLC: the increasing sequences of keys from a few      *)
(* heights.                                                                *)
(***************************************************************************)
EXTENDS LaVectorIterator

CONSTANTS
  HeightSets,        (* the keys of a vector come from one of these sets *)
  MinKeys, MaxKeys   (* bounds on the length of a vector                 *)

Increasing(keys) ==
  [k \in 1..Cardinality(keys) |-> CHOOSE x \in keys : Cardinality({y \in keys : y <= x}) = k]

MCDatasets ==
  {Increasing(keys) : keys \in {S \in UNION {SUBSET heights : heights \in HeightSets} :
                                  Cardinality(S) \in MinKeys..MaxKeys /\ S # {0}}}

MCSteps == -3..3
=============================================================================
