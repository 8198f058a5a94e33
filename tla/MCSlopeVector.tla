---------------------------- MODULE MCSlopeVector ----------------------------
(***************************************************************************)
(* Small vectors for TLC: the increasing sequences of keys from a few      *)
(* heights.                                                                *)
(***************************************************************************)
EXTENDS SlopeVectorIterator

CONSTANTS
  HeightSets,        (* the keys of a vector come from one of these sets       *)
  MinKeys, MaxKeys   (* bounds on the length of a vector                       *)

Increasing(keys) ==
  [k \in 1..Cardinality(keys) |-> CHOOSE x \in keys : Cardinality({y \in keys : y <= x}) = k]

MCDatasets ==
  {Increasing(keys) : keys \in {K \in UNION {SUBSET heights : heights \in HeightSets} :
                                  Cardinality(K) \in MinKeys..MaxKeys /\ \E x \in K : x >= 8}}

MCSteps == -3..3
=============================================================================
