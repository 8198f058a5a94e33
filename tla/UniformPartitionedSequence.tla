--------------------- MODULE UniformPartitionedSequence ---------------------
(***************************************************************************)
(* uniform_partitioned_sequence,                                           *)
(* include/ds2i/uniform_partitioned_sequence.hpp: partitions of            *)
(* 2^log_partition_size elements, the last one of what remains.            *)
(***************************************************************************)
EXTENDS IndexedEncoding, SequencesExt

CONSTANT LogPartitionSize   (* log_partition_size (7) *)

PartitionSize == 2 ^ LogPartitionSize

FindPartition(bv, e, position) == [partition |-> position \div PartitionSize, cursor |-> e]

Extent(bv, e, partition) ==
  LET end == (partition + 1) * PartitionSize
  IN [e EXCEPT !.begin = partition * PartitionSize,
               !.end = IF end > bv.size THEN bv.size ELSE end]

P == INSTANCE PartitionedEncoding

WriteAll(h, seq, u) ==
  LET full  == Len(seq) \div PartitionSize
      whole == [p \in 1..full |-> p * PartitionSize]
      ends  == IF Len(seq) % PartitionSize = 0 THEN whole ELSE Append(whole, Len(seq))
  IN IF Len(ends) = 1 THEN P!Single(h, seq, u) ELSE P!Split(h, seq, u, ends)

\* The methods are those of partitioned_sequence.
Open(bv)                  == P!Open(bv, <<>>)
MoveTo(bv, e, position)         == P!MoveTo(bv, e, position)
LowerBound(bv, e, bound)        == P!LowerBound(bv, e, bound)
Advance(bv, e)            == P!Advance(bv, e)
Predecessor(bv, e)              == P!Predecessor(bv, e)
=============================================================================
