------------------------- MODULE PartitionedSequence -------------------------
(***************************************************************************)
(* partitioned_sequence, include/ds2i/partitioned_sequence.hpp: partitions *)
(* of the least cost, whose ends are kept in one more sequence, m_sizes.   *)
(***************************************************************************)
EXTENDS OptimalPartition

FindPartition(bv, e, position) ==
  LET sizes == EF!NextGeq(bv.sizes, e.sizes, position + 1)
  IN [partition |-> sizes.position, cursor |-> [e EXCEPT !.sizes = sizes]]

Extent(bv, e, partition) ==
  LET sizes == EF!Move(bv.sizes, e.sizes, partition)
  IN [e EXCEPT !.sizes = sizes, !.end = sizes.value, !.begin = EF!PrevValue(bv.sizes, sizes)]

P == INSTANCE PartitionedEncoding

WriteAll(h, seq, u) ==
  LET ends == Partition(h, seq, u).ends
  IN IF Len(ends) = 1 THEN P!Single(h, seq, u)
     ELSE P!Split(h, seq, u, ends) @@ ("sizes" :> EF!Written(Front(ends), Len(seq)))

Open(bv) == P!Open(bv, IF "sizes" \in DOMAIN bv THEN EF!Enumerator(bv.sizes) ELSE <<>>)
=============================================================================
