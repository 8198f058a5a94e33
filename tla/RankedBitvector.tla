--------------------------- MODULE RankedBitvector ---------------------------
(***************************************************************************)
(* compact_ranked_bitvector, include/ds2i/compact_ranked_bitvector.hpp:    *)
(* element v is the one at v.  The rank is sampled at the blocks and the   *)
(* position of every 2^log_sampling1-th one.  The enumerator keeps a       *)
(* reader of the bits that has just read the one of its position.          *)
(***************************************************************************)
EXTENDS Broadword, UnaryEnumerator, Sequences

CONSTANTS
  LogRank1Sampling, LogSampling1,   (* rb_log_rank1_sampling, rb_log_sampling1 (9, 8) *)
  LinearScanThreshold               (* linear_scan_threshold (8)                      *)

-----------------------------------------------------------------------------
(* offsets and write                                                       *)

Rank1Samples(universe) == Shifted(universe, LogRank1Sampling)
Pointers1(n) == Shifted(n, LogSampling1)

Bitsize(universe, n) ==
  Rank1Samples(universe) * CeilLog2(n + 1) + Pointers1(n) * CeilLog2(universe) + universe

\* set_rank1_samples: the samples in the run of bits up to element i, that
\* element included, are i; those after the last element are n.
Rank1Sample(elements, universe, bit) ==
  LET n         == Len(elements)
      begins(i) == (IF i = 0 THEN 0 ELSE elements[i]) + 1
      ends(i)   == IF i = n THEN universe ELSE elements[i + 1] + 1
      runs      == {i \in 0..n : begins(i) <= bit /\ bit < ends(i)}
  IN IF runs = {} THEN 0 ELSE Max(runs)

Written(elements, universe) ==
  LET n == Len(elements)
  IN [size |-> n, universe |-> universe,
      ones |-> {elements[k] : k \in DOMAIN elements},
      rank1Samples |-> [k \in 1..Rank1Samples(universe) |->
                          Rank1Sample(elements, universe, k * 2 ^ LogRank1Sampling)],
      pointers1 |-> [k \in 1..Pointers1(n) |->
                       IF k * 2 ^ LogSampling1 < n THEN elements[k * 2 ^ LogSampling1 + 1] ELSE 0]]

Pointer(pointers, k) == IF k = 0 THEN 0 ELSE pointers[k]

-----------------------------------------------------------------------------
(* enumerator: a record of m_position, m_value and m_enumerator.           *)

Enumerator(bv) == [position |-> bv.size, value |-> bv.universe, reader |-> ReaderAt(0)]

At(i, reader) == [position |-> i, value |-> reader.at, reader |-> reader]

AtEnd(bv, c) == [position |-> bv.size, value |-> bv.universe, reader |-> c.reader]

SmallMove(bv, c, p) ==
  IF p = bv.size THEN AtEnd(bv, c) ELSE At(p, NextOne(bv.ones, c.reader, p - c.position))

\* mutant: a near move skips the one of the position it leaves once more
LongSkip(bv, c, p) ==
  LET near == p > c.position /\ Shifted(p - c.position, LogSampling1) = 0
      from == IF near THEN SkipOnes(bv.ones, c.reader, p - c.position)
              ELSE SkipOnes(bv.ones, ReaderAt(Pointer(bv.pointers1, Shifted(p, LogSampling1))),
                            p % 2 ^ LogSampling1)
  IN IF p = bv.size THEN AtEnd(bv, c) ELSE At(p, NextOne(bv.ones, from, 1))

\* from the reader when it is less than a sample behind, else from the sample
SlowMove(bv, c, p) ==
  LET near == p > c.position /\ Shifted(p - c.position, LogSampling1) = 0
      from == IF near THEN SkipOnes(bv.ones, c.reader, p - c.position - 1)
              ELSE SkipOnes(bv.ones, ReaderAt(Pointer(bv.pointers1, Shifted(p, LogSampling1))),
                            p % 2 ^ LogSampling1)
  IN IF p = bv.size THEN AtEnd(bv, c) ELSE At(p, NextOne(bv.ones, from, 1))

Move(bv, c, p) ==
  IF p = c.position THEN c
  ELSE IF p > c.position /\ p - c.position <= LinearScanThreshold THEN SmallMove(bv, c, p)
  ELSE SlowMove(bv, c, p)

\* the loop of next_geq over the elements after the position
ScanForward(bv, c, bound) ==
  LET read(j) == NextOne(bv.ones, c.reader, j - c.position)
      stop    == Min({bv.size} \cup {j \in c.position + 1..bv.size - 1 : read(j).at >= bound})
  IN IF stop = bv.size
     THEN [position |-> stop, value |-> bv.universe, reader |-> read(stop - 1)]
     ELSE At(stop, read(stop))

\* The ones before the bound, counted from the position when it is less than a
\* sample behind and from the sample of the block otherwise.
SlowNextGeq(bv, c, bound) ==
  LET near  == bound > c.value /\ Shifted(bound - c.value, LogRank1Sampling) = 0
      block == Shifted(bound, LogRank1Sampling)
      begin == IF near THEN c.value ELSE block * 2 ^ LogRank1Sampling
      p     == (IF near THEN c.position ELSE Pointer(bv.rank1Samples, block))
                 + Cardinality(bv.ones \cap begin..bound - 1)
      reader == ReaderAt(bound)
  IN IF bound >= bv.universe THEN Move(bv, c, bv.size)
     ELSE IF p < bv.size THEN At(p, NextOne(bv.ones, reader, 1))
     ELSE [position |-> p, value |-> bv.universe, reader |-> reader]

NextGeq(bv, c, bound) ==
  IF bound = c.value THEN c
  ELSE IF bound > c.value /\ bound - c.value <= LinearScanThreshold THEN ScanForward(bv, c, bound)
  ELSE SlowNextGeq(bv, c, bound)

Following(bv, c) ==
  IF c.position + 1 < bv.size
  THEN At(c.position + 1, NextOne(bv.ones, c.reader, 1))
  ELSE [position |-> c.position + 1, value |-> bv.universe, reader |-> c.reader]

PrevValue(bv, c) ==
  IF c.position = 0 THEN 0
  ELSE Max(IF c.position < bv.size THEN {b \in bv.ones : b < c.reader.at} ELSE bv.ones)
=============================================================================
