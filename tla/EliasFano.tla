----------------------------- MODULE EliasFano -----------------------------
(***************************************************************************)
(* compact_elias_fano, include/ds2i/compact_elias_fano.hpp.  The lower     *)
(* bits of an element are stored as they are, the higher bits h of element *)
(* i as the one at h + i + 1; some zeros and ones have their positions     *)
(* sampled.  The enumerator keeps a reader of the higher bits that has     *)
(* just read the one of its position.                                      *)
(***************************************************************************)
EXTENDS Broadword, UnaryEnumerator, Sequences

CONSTANTS
  LogSampling0, LogSampling1,   (* ef_log_sampling0 and ef_log_sampling1 (9, 8) *)
  LinearScanThreshold           (* linear_scan_threshold (8)                    *)

-----------------------------------------------------------------------------
(* offsets and write                                                       *)

LowerBits(universe, n) == IF universe > n THEN Msb(universe \div n) ELSE 0
HigherBitsLength(universe, n) == n + Shifted(universe, LowerBits(universe, n)) + 2
Pointers0(universe, n) == Shifted(HigherBitsLength(universe, n) - n, LogSampling0)
Pointers1(n) == Shifted(n, LogSampling1)

Bitsize(universe, n) ==
  LET length == HigherBitsLength(universe, n)
  IN (Pointers0(universe, n) + Pointers1(n)) * CeilLog2(length) + length + n * LowerBits(universe, n)

\* set_ptr0s: the zeros of the run before element i come after i ones.  A
\* pointer that no run sets stays 0.
Pointer0(high, n, length, zero) ==
  LET begins(i) == (IF i = 0 THEN 0 ELSE high[i - 1]) + 1
      ends(i)   == IF i = n THEN length ELSE high[i]
      runs      == {i \in 0..n : begins(i) - i <= zero /\ zero < ends(i) - i}
  IN IF runs = {} THEN 0 ELSE zero + Max(runs)

Written(elements, universe) ==
  LET n      == Len(elements)
      lower  == LowerBits(universe, n)
      length == HigherBitsLength(universe, n)
      high   == [i \in 0..n - 1 |-> Shifted(elements[i + 1], lower) + i + 1]
  IN [size |-> n, universe |-> universe, lowerBits |-> lower,
      ones |-> {high[i] : i \in 0..n - 1},
      low  |-> [i \in 0..n - 1 |-> elements[i + 1] % 2 ^ lower],
      pointers0 |-> [k \in 1..Pointers0(universe, n) |->
                       Pointer0(high, n, length, k * 2 ^ LogSampling0)],
      pointers1 |-> [k \in 1..Pointers1(n) |->
                       IF k * 2 ^ LogSampling1 < n THEN high[k * 2 ^ LogSampling1] ELSE 0]]

Pointer(pointers, k) == IF k = 0 THEN 0 ELSE pointers[k]

-----------------------------------------------------------------------------
(* enumerator: a record of m_position, m_value and m_high_enumerator.      *)

Enumerator(bv) == [position |-> bv.size, value |-> bv.universe, reader |-> ReaderAt(0)]

\* the element of position i, whose higher bits are the one at bit
Decode(bv, i, bit) == (bit - i - 1) * 2 ^ bv.lowerBits + bv.low[i]

At(bv, i, reader) == [position |-> i, value |-> Decode(bv, i, reader.at), reader |-> reader]

AtEnd(bv, c) == [position |-> bv.size, value |-> bv.universe, reader |-> c.reader]

SmallMove(bv, c, p) ==
  IF p = bv.size THEN AtEnd(bv, c)
  ELSE At(bv, p, NextOne(bv.ones, c.reader, p - c.position))

\* from the reader when it is less than a sample behind, else from the sample
SlowMove(bv, c, p) ==
  LET near == p > c.position /\ Shifted(p - c.position, LogSampling1) = 0
      from == IF near THEN SkipOnes(bv.ones, c.reader, p - c.position - 1)
              ELSE SkipOnes(bv.ones, ReaderAt(Pointer(bv.pointers1, Shifted(p, LogSampling1))),
                            p % 2 ^ LogSampling1)
  IN IF p = bv.size THEN AtEnd(bv, c) ELSE At(bv, p, NextOne(bv.ones, from, 1))

Move(bv, c, p) ==
  IF p = c.position THEN c
  ELSE IF p > c.position /\ p - c.position <= LinearScanThreshold THEN SmallMove(bv, c, p)
  ELSE SlowMove(bv, c, p)

\* mutant: the reader of the scan is not handed back
StaleScan(bv, reader, from, bound) ==
  LET read(j) == Decode(bv, j, NextOne(bv.ones, reader, j - from + 1).at)
      stop    == Min({bv.size} \cup {j \in from..bv.size - 1 : read(j) >= bound})
  IN [position |-> stop, value |-> IF stop = bv.size THEN bv.universe ELSE read(stop),
      reader |-> reader]

\* The loops of next_geq: elements from position from on, until one is not
\* below bound, through a next_reader that hands its reader back at the end.
Scan(bv, reader, from, bound) ==
  LET read(j) == Decode(bv, j, NextOne(bv.ones, reader, j - from + 1).at)
      stop    == Min({bv.size} \cup {j \in from..bv.size - 1 : read(j) >= bound})
      reads   == IF stop = bv.size THEN stop - from ELSE stop - from + 1
  IN [position |-> stop, value |-> IF stop = bv.size THEN bv.universe ELSE read(stop),
      reader |-> NextOne(bv.ones, reader, reads)]

\* After as many zeros as the bound has higher bits, the elements before are
\* those with less.
SlowNextGeq(bv, c, bound) ==
  LET high == Shifted(bound, bv.lowerBits)
      diff == high - Shifted(c.value, bv.lowerBits)
      near == bound > c.value /\ Shifted(diff, LogSampling0) = 0
      zero == IF near THEN SkipZeros(bv.ones, c.reader, diff)
              ELSE SkipZeros(bv.ones, ReaderAt(Pointer(bv.pointers0, Shifted(high, LogSampling0))),
                             high % 2 ^ LogSampling0)
  IN IF bound >= bv.universe THEN Move(bv, c, bv.size) ELSE Scan(bv, zero, zero.at - high, bound)

NextGeq(bv, c, bound) ==
  IF bound = c.value THEN c
  ELSE IF /\ bound > c.value
          /\ Shifted(bound, bv.lowerBits) - Shifted(c.value, bv.lowerBits) <= LinearScanThreshold
       THEN Scan(bv, c.reader, c.position + 1, bound)
  ELSE SlowNextGeq(bv, c, bound)

Following(bv, c) ==
  IF c.position + 1 < bv.size
  THEN At(bv, c.position + 1, NextOne(bv.ones, c.reader, 1))
  ELSE [position |-> c.position + 1, value |-> bv.universe, reader |-> c.reader]

\* mutant: the predecessor of the reader's bit is taken to include that bit
OwnValue(bv, c) ==
  IF c.position = 0 THEN 0
  ELSE LET bits == IF c.position < bv.size THEN {b \in bv.ones : b <= c.reader.at} ELSE bv.ones
       IN Decode(bv, c.position - 1, Max(bits))

PrevValue(bv, c) ==
  IF c.position = 0 THEN 0
  ELSE LET bits == IF c.position < bv.size THEN {b \in bv.ones : b < c.reader.at} ELSE bv.ones
       IN Decode(bv, c.position - 1, Max(bits))
=============================================================================
