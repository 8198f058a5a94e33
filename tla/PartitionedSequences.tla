------------------------ MODULE PartitionedSequences ------------------------
(***************************************************************************)
(* An enumerator of a partitioned_sequence or of a                         *)
(* uniform_partitioned_sequence, moved by every sequence of calls.         *)
(***************************************************************************)
EXTENDS Integers, Sequences, FiniteSets

CONSTANTS
  Hybrids,      (* the values of the template parameter                     *)
  Inputs,       (* the increasing sequences that are written, with the
                   universe of each: records with elements and universe     *)
  EfLogSampling0, EfLogSampling1, RbLogRank1Sampling, RbLogSampling1,
  LinearScanThreshold, LogPartitionSize, FixCost, Eps1, Eps2

ASSUME PartitionedSequencesAssumption ==
  /\ Hybrids \subseteq {0, 1}
  /\ \A s \in Inputs :
       /\ s.elements # <<>> /\ s.elements[Len(s.elements)] < s.universe
       /\ \A j, k \in DOMAIN s.elements : j < k => s.elements[j] < s.elements[k]
  /\ {EfLogSampling0, EfLogSampling1, RbLogRank1Sampling, RbLogSampling1,
      LinearScanThreshold, LogPartitionSize} \subseteq Nat
  \* or the bounds of the windows would never grow
  /\ FixCost \in Nat /\ FixCost * Eps2.num >= Eps2.den

VARIABLES
  layout,                       (* which of the two classes it is            *)
  hybrid, elements, universe,   (* the template parameter and the sequence   *)
  bv,         (* what write leaves                                           *)
  enumerator, (* the cursor: the fields of the enumerator                    *)
  call        (* history: the last call                                      *)

vars == <<layout, hybrid, elements, universe, bv, enumerator, call>>

n == Len(elements)

Optimal == INSTANCE PartitionedSequence
Uniform == INSTANCE UniformPartitionedSequence

Init ==
  /\ layout \in {"optimal", "uniform"}
  /\ hybrid \in Hybrids
  /\ \E s \in Inputs : elements = s.elements /\ universe = s.universe
  /\ bv = IF layout = "optimal" THEN Optimal!WriteAll(hybrid, elements, universe)
          ELSE Uniform!WriteAll(hybrid, elements, universe)
  /\ enumerator = IF layout = "optimal" THEN Optimal!Open(bv) ELSE Uniform!Open(bv)
  /\ call = [method |-> "enumerator", argument |-> 0]

Called(method, argument) ==
  /\ call' = [method |-> method, argument |-> argument]
  /\ UNCHANGED <<layout, hybrid, elements, universe, bv>>

Move(p) ==
  /\ enumerator' = IF layout = "optimal" THEN Optimal!P!MoveTo(bv, enumerator, p)
                   ELSE Uniform!MoveTo(bv, enumerator, p)
  /\ Called("move", p)

NextGeq(bound) ==
  /\ enumerator' = IF layout = "optimal" THEN Optimal!P!LowerBound(bv, enumerator, bound)
                   ELSE Uniform!LowerBound(bv, enumerator, bound)
  /\ Called("next_geq", bound)

Following ==
  /\ enumerator.position < n
  /\ enumerator' = IF layout = "optimal" THEN Optimal!P!Advance(bv, enumerator)
                   ELSE Uniform!Advance(bv, enumerator)
  /\ Called("next", 0)

Next ==
  \/ \E p \in 0..n : Move(p)
  \/ \E bound \in 0..universe : NextGeq(bound)
  \/ Following

Spec == Init /\ [][Next]_vars

-----------------------------------------------------------------------------
(* Whatever was called before, and whichever partition that led to, move,  *)
(* next_geq and next answer what a search of the whole sequence answers    *)
(* (partitioned_sequence.hpp:286-316).                                     *)
Promised == INSTANCE SequenceCursor
              WITH position <- enumerator.position, value <- enumerator.value
SequenceCursorSpec == Promised!Spec

(* The fields that a call relies on when it stays in the partition agree:  *)
(* the elements from begin to end are those from base to upper, the        *)
(* enumerator of the partition is at the position, and the cursors that    *)
(* partitions are found with are at it, or before the first, and never at  *)
(* their end, where next_geq would read on (partitioned_sequence.hpp:286,  *)
(* 299, 393, compact_elias_fano.hpp:194).                                  *)
CursorInItsPartition ==
  LET e == enumerator IN
  /\ e.partition \in 0..e.partitions - 1 /\ e.begin < e.end
  /\ {k \in 1..n : e.base <= elements[k] /\ elements[k] <= e.upper} = e.begin + 1..e.end
  /\ e.position \in e.begin..e.end /\ (e.position = e.end => e.position = n)
  /\ e.within.at.position = e.position - e.begin
  /\ e.partitions > 1 =>
       /\ e.upperBounds.position \in {e.partition + 1} \cup (IF e.partition = 0 THEN {0} ELSE {})
       /\ layout = "optimal" => e.sizes.position = e.partition

(* prev_value is the element before the position, which may be the last of *)
(* the partition before (partitioned_sequence.hpp:322).                    *)
PrevValueIsPredecessor ==
  LET predecessor == IF layout = "optimal" THEN Optimal!P!Predecessor(bv, enumerator)
                     ELSE Uniform!Predecessor(bv, enumerator)
  IN predecessor = IF enumerator.position = 0 THEN 0 ELSE elements[enumerator.position]

(* The partitions cost at most (1 + eps1)(1 + eps2) times the cheapest, and *)
(* cost_opt is what they cost when no prefix costs more than the sequence   *)
(* whole.  Elias-Fano does not grow with the universe: then an end keeps    *)
(* the cost it started from, which is no partition's                        *)
(* (optimal_partition.hpp:243-291).                                         *)
PartitionsNearCheapest ==
  layout = "optimal" /\ call.method = "enumerator" =>
    LET found == Optimal!Partition(hybrid, elements, universe)
        cost  == Optimal!PartitionsCost(hybrid, elements, found.ends)
        whole == Optimal!CostFun(hybrid, universe, n)
    IN /\ cost * Eps1.den * Eps2.den
            <= (Eps1.den + Eps1.num) * (Eps2.den + Eps2.num) * Optimal!CheapestCost(hybrid, elements)
       /\ (\A k \in 1..n : Optimal!WrittenCost(hybrid, elements, 0, k) <= whole) => found.cost = cost
=============================================================================
