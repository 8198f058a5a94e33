------------------------- MODULE PartitionedEncoding -------------------------
(***************************************************************************)
(* What partitioned_sequence.hpp and uniform_partitioned_sequence.hpp      *)
(* share: a sequence split into partitions, each an indexed sequence of    *)
(* the differences from its base, and the enumerator, which keeps the      *)
(* bounds of the partition it is in and an enumerator of that partition.   *)
(*                                                                         *)
(* A cursor is a record: partition, begin, end, base and upper are the     *)
(* m_cur_ fields, within is m_partition_enum, offset the bit it was opened *)
(* at, and value the value last returned.                                  *)
(***************************************************************************)
EXTENDS IndexedEncoding, IntegerCodes, SequencesExt

CONSTANTS
  FindPartition(_, _, _),   (* the partition of a position, and the cursor
                               after it: a record of partition and cursor     *)
  Extent(_, _, _)           (* the cursor with the begin and end of a partition *)

-----------------------------------------------------------------------------
(* write                                                                   *)

\* One partition.  Its last element is not written when it is alone, nor when
\* it is the last below the universe.
Single(h, seq, u) ==
  LET diffs == [k \in DOMAIN seq |-> seq[k] - seq[1]]
      tight == Last(seq) + 1 = u
      ub    == IF Len(seq) = 1 THEN <<>> ELSE Delta(IF tight THEN 0 ELSE Last(diffs))
  IN [hybrid |-> h, size |-> Len(seq), universe |-> u,
      header |-> GammaNonzero(1) \o Bits(seq[1], CeilLog2(u)) \o ub,
      sequences |-> [offset \in {0} |-> Write(h, diffs, Last(diffs) + 1, NoBpc)]]

\* Several, of the elements up to each end.  Offsets count from the first
\* sequence; a sequence that takes no bits is at the offset of the next one.
Split(h, seq, u, ends) ==
  LET P         == Len(ends)
      begin(p)  == IF p = 1 THEN 0 ELSE ends[p - 1]
      base(p)   == IF p = 1 THEN seq[1] ELSE seq[begin(p)] + 1
      diffs(p)  == [k \in 1..ends[p] - begin(p) |-> seq[begin(p) + k] - base(p)]
      bits(p)   == Bitsize(h, Last(diffs(p)) + 1, Len(diffs(p)))
      offset[p \in 1..P + 1] == IF p = 1 THEN 0 ELSE offset[p - 1] + bits(p - 1)
      width     == CeilLog2(offset[P + 1] + 1)
      stored    == {p \in 1..P : bits(p) > 0}
  IN [hybrid |-> h, size |-> Len(seq), universe |-> u,
      header |-> GammaNonzero(P) \o Gamma(width),
      upperBounds |-> EF!Written(<<seq[1]>> \o [p \in 1..P |-> seq[ends[p]]], u),
      endpoints |-> FlattenSeq([p \in 1..P - 1 |-> Bits(offset[p + 1], width)]),
      sequences |-> [o \in {offset[p] : p \in stored} |->
                       LET p == CHOOSE q \in stored : offset[q] = o
                       IN Write(h, diffs(p), Last(diffs(p)) + 1, NoBpc)]]

SequenceAt(bv, offset) ==
  IF offset \in DOMAIN bv.sequences THEN bv.sequences[offset] ELSE <<>>

-----------------------------------------------------------------------------
(* The private methods: another partition.                                 *)

SwitchPartition(bv, e, partition) ==
  LET extent == Extent(bv, e, partition)
      upper  == EF!Move(bv.upperBounds, e.upperBounds, partition + 1)
      base   == EF!PrevValue(bv.upperBounds, upper) + (IF partition = 0 THEN 0 ELSE 1)
      offset == IF partition = 0 THEN 0
                ELSE Take(bv.endpoints, (partition - 1) * e.endpointBits, e.endpointBits).value
  IN [extent EXCEPT !.partition = partition, !.upperBounds = upper,
                    !.upper = upper.value, !.base = base, !.offset = offset,
                    !.within = Enumerator(bv.hybrid, SequenceAt(bv, offset),
                                          upper.value - base + 1, extent.end - extent.begin)]

\* the cursor after a call to the enumerator of its partition
Within(e, position, within) ==
  [e EXCEPT !.position = position, !.within = within, !.value = e.base + within.at.value]

MoveWithin(bv, e, position) ==
  Within(e, position, Move(SequenceAt(bv, e.offset), e.within, position - e.begin))

SlowMove(bv, e, position) ==
  IF position = bv.size
  THEN LET last == IF e.partitions > 1 THEN SwitchPartition(bv, e, e.partitions - 1) ELSE e
       IN [last EXCEPT !.position = position, !.value = bv.universe,
                       !.within = Move(SequenceAt(bv, last.offset), @, last.end - last.begin)]
  ELSE LET found == FindPartition(bv, e, position)
       IN MoveWithin(bv, SwitchPartition(bv, found.cursor, found.partition), position)

\* mutant: the enumerator of the last partition is not moved past its end
StayAtLast(bv, e) ==
  IF e.position + 1 = bv.size
  THEN [e EXCEPT !.position = bv.size, !.value = bv.universe]
  ELSE MoveWithin(bv, SwitchPartition(bv, e, e.partition + 1), e.position + 1)

SlowNext(bv, e) ==
  IF e.position + 1 = bv.size
  THEN [e EXCEPT !.position = bv.size, !.value = bv.universe,
                 !.within = Following(SequenceAt(bv, e.offset), @)]
  ELSE MoveWithin(bv, SwitchPartition(bv, e, e.partition + 1), e.position + 1)

-----------------------------------------------------------------------------
(* enumerator: the constructor and the public methods.  sizes is the       *)
(* m_sizes cursor, of the class that has one.                              *)

OpenSingle(bv, read) ==
  LET base == Take(bv.header, read.at, CeilLog2(bv.universe))
      ub   == IF bv.size = 1 THEN [base EXCEPT !.value = 0] ELSE ReadDelta(bv.header, base.at)
      upper == IF bv.size = 1 \/ ub.value # 0 THEN base.value + ub.value ELSE bv.universe - 1
      offset == ub.at - Len(bv.header)
  IN [partitions |-> 1, partition |-> 0, begin |-> 0, end |-> bv.size,
      base |-> base.value, upper |-> upper, offset |-> offset,
      within |-> Enumerator(bv.hybrid, SequenceAt(bv, offset), upper - base.value + 1, bv.size),
      position |-> bv.size, value |-> bv.universe]

\* The fields of a partition are set by the slow_move that ends the constructor.
OpenSplit(bv, read, sizes) ==
  [partitions |-> read.value, endpointBits |-> ReadGamma(bv.header, read.at).value,
   sizes |-> sizes, upperBounds |-> EF!Enumerator(bv.upperBounds),
   partition |-> 0, begin |-> 0, end |-> 0, base |-> 0, upper |-> 0, offset |-> 0, within |-> 0,
   position |-> bv.size, value |-> bv.universe]

Open(bv, sizes) ==
  LET read == ReadGammaNonzero(bv.header, 0)
  IN SlowMove(bv, IF read.value = 1 THEN OpenSingle(bv, read) ELSE OpenSplit(bv, read, sizes), bv.size)

\* mutant: the end of the partition is taken to be in it
MoveInto(bv, e, position) ==
  IF e.begin <= position /\ position <= e.end THEN MoveWithin(bv, e, position)
  ELSE SlowMove(bv, e, position)

MoveTo(bv, e, position) ==
  IF e.begin <= position /\ position < e.end THEN MoveWithin(bv, e, position)
  ELSE SlowMove(bv, e, position)

\* next_geq when the bound is between the base and the upper bound
NextGeqWithin(bv, e, bound) ==
  LET within == NextGeq(SequenceAt(bv, e.offset), e.within, bound - e.base)
  IN Within(e, e.begin + within.at.position, within)

SlowNextGeq(bv, e, bound) ==
  IF e.partitions = 1 THEN MoveTo(bv, e, IF bound < e.base THEN 0 ELSE bv.size)
  ELSE LET upper == EF!NextGeq(bv.upperBounds, e.upperBounds, bound)
           found == [e EXCEPT !.upperBounds = upper]
       IN CASE upper.position = 0 -> MoveTo(bv, found, 0)
            [] upper.position = e.partitions + 1 -> MoveTo(bv, found, bv.size)
            [] OTHER -> NextGeqWithin(bv, SwitchPartition(bv, found, upper.position - 1), bound)

LowerBound(bv, e, bound) ==
  IF e.base <= bound /\ bound <= e.upper THEN NextGeqWithin(bv, e, bound)
  ELSE SlowNextGeq(bv, e, bound)

Advance(bv, e) ==
  IF e.position + 1 < e.end
  THEN Within(e, e.position + 1, Following(SequenceAt(bv, e.offset), e.within))
  ELSE SlowNext(bv, e)

\* mutant: the partition before is forgotten
PredecessorHere(bv, e) ==
  IF e.position = e.begin THEN 0 ELSE e.base + PrevValue(SequenceAt(bv, e.offset), e.within)

Predecessor(bv, e) ==
  IF e.position = e.begin THEN IF e.partition = 0 THEN 0 ELSE e.base - 1
  ELSE e.base + PrevValue(SequenceAt(bv, e.offset), e.within)
=============================================================================
