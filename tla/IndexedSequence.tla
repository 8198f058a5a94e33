--------------------------- MODULE IndexedSequence ---------------------------
(***************************************************************************)
(* An enumerator of an indexed_sequence, include/ds2i/indexed_sequence.hpp, *)
(* moved by every sequence of calls.                                       *)
(***************************************************************************)
EXTENDS Integers, Sequences, FiniteSets

CONSTANTS
  Hybrids,      (* the values of the template parameter                     *)
  Inputs,       (* the sorted sequences that are written, with the universe
                   of each: records with elements and universe              *)
  SegmentBpcs,  (* the bits per correction of a segment, with hybrid 2      *)
  EfLogSampling0, EfLogSampling1, RbLogRank1Sampling, RbLogSampling1,
  LinearScanThreshold

ASSUME IndexedSequenceAssumption ==
  /\ Hybrids \subseteq {0, 1, 2} /\ SegmentBpcs \subseteq Nat \ {1}
  /\ \A s \in Inputs :
       /\ s.elements \in Seq(Nat) /\ s.elements # <<>>
       /\ s.universe \in Nat /\ s.elements[Len(s.elements)] < s.universe
       /\ \A j, k \in DOMAIN s.elements : j < k => s.elements[j] <= s.elements[k]
  /\ {EfLogSampling0, EfLogSampling1, RbLogRank1Sampling, RbLogSampling1} \subseteq Nat
  /\ LinearScanThreshold \in Nat

VARIABLES
  hybrid, elements, universe,   (* the template parameter and the sequence   *)
  c,          (* the last argument of write: the bits per correction         *)
  bv,         (* what write leaves: the type written, if any, and the data   *)
  enumerator, (* m_type and the enumerator of that type                      *)
  call        (* history: the last call                                      *)

vars == <<hybrid, elements, universe, c, bv, enumerator, call>>

n == Len(elements)

Encoding == INSTANCE IndexedEncoding

\* for the proofs: the provers know nothing of a power with a variable exponent
ASSUME PowersOfTwo ==
  /\ \A log \in {EfLogSampling0, EfLogSampling1, RbLogRank1Sampling, RbLogSampling1} :
       2 ^ log \in Nat \ {0}
  /\ \A s \in Inputs : 2 ^ Encoding!EF!LowerBits(s.universe, Len(s.elements)) \in Nat \ {0}

Increasing(seq) == \A j, k \in DOMAIN seq : j < k => seq[j] < seq[k]

\* What cost_fun of optimal_partition has found out before it gives c: not all
\* ones, and a segment covers the elements, of which the universe ends with the last.
CallableWith(bpc) ==
  /\ Increasing(elements) /\ universe = elements[n] + 1
  /\ ~Encoding!AllOnesFits(universe, n)
  /\ Encoding!SE!Covered(elements, bpc)

\* Only Elias-Fano accepts repeated elements.
Init ==
  /\ hybrid \in Hybrids
  /\ \E s \in Inputs : elements = s.elements /\ universe = s.universe
  /\ hybrid # 0 => Increasing(elements)
  /\ c \in {Encoding!NoBpc} \cup {bpc \in SegmentBpcs : hybrid = 2 /\ CallableWith(bpc)}
  /\ bv = Encoding!Write(hybrid, elements, universe, c)
  /\ enumerator = Encoding!Enumerator(hybrid, bv, universe, n)
  /\ call = [method |-> "enumerator", argument |-> 0]

Called(method, argument) ==
  /\ call' = [method |-> method, argument |-> argument]
  /\ UNCHANGED <<hybrid, elements, universe, c, bv>>

Move(p) ==
  /\ p \in 0..n
  /\ enumerator' = Encoding!Move(bv, enumerator, p)
  /\ Called("move", p)

NextGeq(bound) ==
  /\ bound \in 0..universe
  /\ enumerator' = Encoding!NextGeq(bv, enumerator, bound)
  /\ Called("next_geq", bound)

Following ==
  /\ enumerator.at.position < n
  /\ enumerator' = Encoding!Following(bv, enumerator)
  /\ Called("next", 0)

Next ==
  \/ \E p \in 0..n : Move(p)
  \/ \E bound \in 0..universe : NextGeq(bound)
  \/ Following

Spec == Init /\ [][Next]_vars

-----------------------------------------------------------------------------
(* The enumerator has found the type that was written, and its reader has  *)
(* just read the one of its position, which every call that starts from    *)
(* the reader rather than from a sample relies on                          *)
(* (compact_elias_fano.hpp:167-173, compact_ranked_bitvector.hpp:152-157). *)
ReaderInStep ==
  LET cursor == enumerator.at IN
  /\ enumerator.type = bv.type
  /\ enumerator.type \notin {"all_ones", "segment"} /\ cursor.position < n =>
       /\ cursor.reader.consumed
       /\ cursor.reader.at \in bv.data.ones
       /\ Cardinality({b \in bv.data.ones : b < cursor.reader.at}) = cursor.position

(* Whatever was called before, move, next_geq and next answer what a search *)
(* of the sequence answers (compact_elias_fano.hpp:155-232,                 *)
(* compact_ranked_bitvector.hpp:131-201, all_ones_sequence.hpp:39-57).      *)
(* A segment answers otherwise: see SegmentAnswersAsTested.                 *)
IsSegment == bv.type = "segment"

Promised == INSTANCE SequenceCursor
              WITH position <- enumerator.at.position, value <- enumerator.at.value
SequenceCursorSpec ==
  /\ IsSegment \/ Promised!Init
  /\ [][IsSegment \/ Promised!Next]_<<elements, universe, enumerator, call>>

\* the intercept, whose sign write leaves out, is what a reader takes it for
SignKept == IsSegment => Encoding!SE!Line(elements, c).intercept <= 0

(* prev_value is the element before the position, whichever call led there; *)
(* it relies on the reader too, and at the end on the bits after the last   *)
(* element (compact_elias_fano.hpp:246, compact_ranked_bitvector.hpp:218).  *)
PrevValueIsPredecessor ==
  SignKept =>
    Encoding!PrevValue(bv, enumerator) =
      IF enumerator.at.position = 0 THEN 0 ELSE elements[enumerator.at.position]

(* The line that write rounds leaves corrections of c bits: none is refused. *)
(* The elements come back exactly if the line begins at or below zero, where *)
(* the c bits of the intercept, written without its sign, suffice            *)
(* (segment_sequence.hpp:73-87, 107-112, 199).                               *)
SegmentDecodes ==
  IsSegment =>
    /\ ~bv.data.thrown
    /\ SignKept <=> \A i \in 0..n - 1 : Encoding!SE!Decompress(bv.data, i) = elements[i + 1]

RankOf(bound) == Cardinality({k \in DOMAIN elements : elements[k] < bound})

(* Then the search inside next_geq ends at the first element not below the  *)
(* bound, or behind the last: the guess on the line that was read back is   *)
(* close enough, and the interval around it is not cut short                *)
(* (segment_sequence.hpp:132-159, 192-197).                                 *)
SegmentSearchFinds ==
  IsSegment /\ SignKept =>
    \A bound \in 0..universe : Encoding!SE!Search(bv.data, bound) = RankOf(bound)

(* The tests of the sequences want move(p) to answer element p, and next_geq *)
(* to go to the rank of the bound, from a segment too: partitioned_sequence  *)
(* hands on what the enumerator of the partition answers                     *)
(* (tests/test.cpp:20-25, partitioned_sequence.hpp:291, 301-303).            *)
SegmentAnswersAsTested ==
  LET answer == enumerator.at IN
  IsSegment /\ SignKept /\ answer.position < n =>
    /\ call.method = "move" => answer.value = elements[answer.position + 1]
    /\ call.method = "next_geq" /\ RankOf(call.argument) < n =>
         answer.position = RankOf(call.argument)
=============================================================================
