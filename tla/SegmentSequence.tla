-------------------------- MODULE SegmentSequence --------------------------
(***************************************************************************)
(* segment_sequence, include/ds2i/segment_sequence.hpp: an increasing      *)
(* sequence as one line, and corrections of c bits.  What write leaves is  *)
(* a record of the fields of the line and of the ones among the bits from  *)
(* intercept_offset on.  The enumerator is a record of m_position and of   *)
(* the value last returned.                                                *)
(***************************************************************************)
EXTENDS CanonicalSegment

ValueBits == 20     \* bound: of a decoded value (32)

-----------------------------------------------------------------------------
(* write                                                                   *)

\* append_bits as it is without assertions: the bits that do not fit the
\* width are ored into those appended next
Appended(v, offset) == {offset + b : b \in {d \in 0..v : (v \div 2 ^ d) % 2 = 1}}

Cover(seq, c) == GreedySegments(seq, BpcToEpsilon(c), 0, Len(seq))

\* what write asserts, and its caller has looked up: one segment covers seq
Covered(seq, c) == Len(Cover(seq, c)) = 1

Line(seq, c) == FixedPointSegmentPEF(Cover(seq, c)[1], 0, Len(seq))

Approximate(line, i) == (line.significand * i) \div 2 ^ line.exponent + line.intercept

\* Without bits for the corrections there are none for the intercept.  An
\* overflow_error is thrown for a correction of more than c bits.
WrittenOn(line, seq, u, c) ==
  LET indices       == 0..Len(seq) - 1
      correction(k) == seq[k + 1] - Approximate(line, k) + BpcToEpsilon(c)
      magnitude     == IF line.intercept < 0 THEN -line.intercept ELSE line.intercept
  IN [size |-> Len(seq), universe |-> u, c |-> c,
      significand |-> line.significand, exponent |-> line.exponent,
      thrown |-> c # 0 /\ \E k \in indices : correction(k) \notin 0..2 ^ c - 1,
      ones |-> IF c = 0 THEN {}
               ELSE Appended(magnitude, 0) \cup UNION {Appended(correction(k), c + k * c) : k \in indices}]

Written(seq, u, c) == WrittenOn(Line(seq, c), seq, u, c)

-----------------------------------------------------------------------------
(* enumerator                                                              *)

\* get_bits
Bits(bv, offset, width) ==
  SumSet({2 ^ k : k \in {d \in 0..width - 1 : offset + d \in bv.ones}})

\* mutant: the intercept is read as it was written
SignlessIntercept(bv) == Bits(bv, 0, bv.c)

\* The sign was not written: the intercept is taken for one below zero.
Intercept(bv) == -Bits(bv, 0, bv.c)

ReadLine(bv) ==
  [significand |-> bv.significand, exponent |-> bv.exponent, intercept |-> Intercept(bv)]

\* At the size the correction is read from what follows: no caller uses it.
Decompress(bv, i) ==
  (Approximate(ReadLine(bv), i) + Bits(bv, bv.c + i * bv.c, bv.c) - BpcToEpsilon(bv.c)) % 2 ^ ValueBits

Enumerator(bv) == [position |-> bv.size, value |-> bv.universe]

\* move and next_geq answer one more than the value, next the value
OneMore(bv, i) == [position |-> i, value |-> Decompress(bv, i) + 1]

Move(bv, p) == OneMore(bv, p)

ApproximatePosition(bv, value) ==
  LET line   == ReadLine(bv)
      factor == 2 ^ line.exponent
      slope  == IF line.significand = 0 THEN 1 ELSE line.significand
  IN [position |-> Min({bv.size, Max({0, TruncatedDiv((value - line.intercept) * factor, slope)})}),
      bound    |-> 1 + (BpcToEpsilon(bv.c) * factor) \div slope]

\* mutant: the interval ends before the bound
ShortSearch(bv, lowerBound) ==
  LET guess == ApproximatePosition(bv, lowerBound)
      first == Max({0, guess.position - guess.bound})
      last  == Min({guess.position + 1, bv.size})
  IN Min({last} \cup {i \in first..last - 1 : Decompress(bv, i) >= lowerBound})

\* the binary search around the guess
Search(bv, lowerBound) ==
  LET guess == ApproximatePosition(bv, lowerBound)
      search[lo \in 0..bv.size, hi \in 0..bv.size] ==
        LET mid == (lo + hi) \div 2
        IN IF lo >= hi THEN lo
           ELSE IF Decompress(bv, mid) < lowerBound THEN search[mid + 1, hi] ELSE search[lo, mid]
  IN search[Max({0, guess.position - guess.bound}), Min({guess.position + guess.bound + 1, bv.size})]

\* next_geq goes to the position before the one it has found
NextGeq(bv, lowerBound) == OneMore(bv, Max({0, Search(bv, lowerBound) - 1}))

Following(bv, e) == [position |-> e.position + 1, value |-> Decompress(bv, e.position + 1)]

PrevValue(bv, e) == IF e.position = 0 THEN 0 ELSE Decompress(bv, e.position - 1)
=============================================================================
