------------------------ MODULE LaVectorIteratorProofs ------------------------
(***************************************************************************)
(* Theorems about the specification of a la_vector with one bpc, for every *)
(* data and widths of its fields.                                          *)
(*                                                                         *)
(* Of the construction: the invariant BuildInv, that a finished vector     *)
(* gives every element back through the top level and through decode(),    *)
(* and that the recursion of push_segment ends, unless one element cannot  *)
(* be stored at all.                                                       *)
(* Of lower_bound: the search by halving finds the bucket of a value and   *)
(* in it the segment, the guess of approximate_position is within its      *)
(* bound of the answer, and both searches within the segment keep it.      *)
(* Of the iterator: CursorInv, that its cursor is the segment that holds   *)
(* its position whichever way it was moved.                                *)
(*                                                                         *)
(* RoomAbove, in the last two: the greatest key is more than Eps + 2 below *)
(* the range of the key type.  The sentinel stands for a key near that     *)
(* end of the range, and the bound around a guess may wrap behind it.      *)
(***************************************************************************)
EXTENDS LaVectorIterator, LaVectorProofs

-----------------------------------------------------------------------------
(* What the construction leaves behind                                     *)

\* The corrections of a finished vector are apart and in their words.
LEMMA FinishedApart ==
  ASSUME ~AutoBpc, BuildInv
  PROVE  CorrectionsApart
<1> SUFFICES ASSUME pc = "built" PROVE CorrectionsApart
  BY DEF CorrectionsApart
<1>1. Finished /\ GoodPath(data, path) /\ data \in Datasets
  BY BuiltFinished DEF BuildInv
<1>2. /\ n \in Nat /\ TBpc \in 0..WordBits /\ Density \in Nat \ {0} /\ WordBits \in Nat \ {0}
  <2>1. n \in Nat
    BY <1>1 DEF Finished
  <2>2. /\ TBpc \in Nat /\ KeyBits \in Nat /\ Density \in Nat \ {0} /\ WordBits \in Nat \ {0}
        /\ TBpc < KeyBits /\ KeyBits <= WordBits
    BY LaVectorAssumption
  <2> QED
    BY <2>1, <2>2
<1>3. BitSize = n * TBpc
  BY <1>1, BitSizeConstant
<1> DEFINE words == CeilDiv(BitSize, WordBits) + 1
           field == [i \in 0..n - 1 |-> Field(Segment(SegmentOf(i)), i)]
<1>4. ASSUME NEW i \in 0..n - 1
      PROVE  Segment(SegmentOf(i)).bpc = TBpc
  BY <1>1, SegmentOfHolds DEF Holds, Finished, GoodSegment
<1>5. ASSUME NEW i \in 0..n - 1, NEW j \in 0..n - 1, i # j
      PROVE  field[i] \cap field[j] = {}
  <2>1. PICK s, t : s = Segment(SegmentOf(i)) /\ t = Segment(SegmentOf(j))
    OBVIOUS
  <2>2. s.bpc = TBpc /\ t.bpc = TBpc /\ TBpc \in Nat
    BY <1>2, <1>4, <2>1
  <2>3. Field(s, i) \cap Field(t, j) = {}
    BY <1>2, <1>5, <2>2, FieldsApart
  <2> QED
    BY <2>1, <2>3
<1>6. ASSUME NEW s, s.bpc = TBpc, NEW i \in 0..n
      PROVE  Field(s, i) \subseteq 0..words * WordBits - 1
  <2>1. Field(s, i) \subseteq 0..(CeilDiv(n * s.bpc, WordBits) + 1) * WordBits - 1
    BY <1>2, <1>6, FieldsAllocated
  <2> QED
    BY <1>3, <1>6, <2>1
<1>7. \A i \in 0..n - 1 : field[i] \subseteq 0..words * WordBits - 1
  <2> SUFFICES ASSUME NEW i \in 0..n - 1 PROVE field[i] \subseteq 0..words * WordBits - 1
    OBVIOUS
  <2>1. i \in 0..n
    BY <1>2
  <2>2. Field(Segment(SegmentOf(i)), i) \subseteq 0..words * WordBits - 1
    BY <1>4, <1>6, <2>1
  <2> QED
    BY <2>2
<1>8. ASSUME NEW s \in RealSegments
      PROVE  Field(Segment(s), Segment(s + 1).first) \subseteq 0..words * WordBits - 1
  <2>1. Segment(s).bpc = TBpc
    BY <1>1 DEF Finished, GoodSegment
  <2>2. Segment(s + 1).first \in 0..n
    <3>1. PICK m : m = SentinelIndex
      OBVIOUS
    <3>2. m \in Nat /\ s \in 0..m - 1
      BY <1>1, <3>1 DEF RealSegments, Finished
    <3>3. s + 1 \in 0..m
      BY <3>2
    <3>4. Segment(s + 1).first \in Nat /\ Segment(s + 1).first <= n
      BY <1>1, <3>1, <3>3 DEF Finished
    <3> QED
      BY <1>2, <3>4
  <2> QED
    BY <1>6, <2>1, <2>2
<1> HIDE DEF words, field
<1>9. /\ \A i, j \in 0..n - 1 : i # j => field[i] \cap field[j] = {}
      /\ \A i \in 0..n - 1 : field[i] \subseteq 0..words * WordBits - 1
      /\ \A s \in RealSegments : Field(Segment(s), Segment(s + 1).first) \subseteq 0..words * WordBits - 1
  BY <1>5, <1>7, <1>8
<1> QED
  BY <1>9 DEF CorrectionsApart, words, field

LEMMA BuildTyped ==
  ASSUME BuildInv
  PROVE  BuildTypeOK
<1>1. pc \in {"pushing", "built", "overflow"}
  BY DEF BuildInv
<1>2. \A k \in DOMAIN segments : segments[k] \in Pieces
  BY DEF BuildInv
<1>3. \A k \in DOMAIN todo : todo[k].i <= todo[k].j /\ todo[k].depth \in 1..StackLimit
  BY DEF BuildInv, GoodCalls, GoodCall
<1>4. IsFiniteSet(bits)
  <2>1. BitBound - 1 \in Int
    <3>1. n \in Nat /\ TBpc \in Nat
      BY DataTyped, LaVectorAssumption DEF BuildInv
    <3> QED
      BY <3>1 DEF BitBound
  <2>2. IsFiniteSet(0..BitBound - 1)
    BY <2>1, FS_Interval
  <2> QED
    BY <2>2, FS_Subset DEF BuildInv
<1> QED
  BY <1>1, <1>2, <1>3, <1>4 DEF BuildTypeOK

-----------------------------------------------------------------------------
(* upper_bound_branchless                                                  *)

\* The recursion of UpperBound, for a fixed set of segments above.
BoundRecursion(f, above) ==
  f = [r \in Nat \X Int |->
        LET half == r[2] \div 2
        IN IF r[2] <= 1 THEN r[1] + (IF r[1] \in above THEN 0 ELSE 1)
           ELSE f[<<IF r[1] + half \in above THEN r[1] ELSE r[1] + half, r[2] - half>>]]

LEMMA HalfOf ==
  ASSUME NEW k \in Nat, k >= 2
  PROVE  k \div 2 \in Nat /\ k \div 2 >= 1 /\ k \div 2 <= k - k \div 2 /\ k - k \div 2 < k
         /\ k - k \div 2 \in Nat /\ k - k \div 2 >= 1
OBVIOUS

LEMMA BoundExists ==
  ASSUME NEW above
  PROVE  \E f : BoundRecursion(f, above)
<1> DEFINE D == Nat \X Int
           S == {r \in D : r[2] <= 1}
           out == [r \in D |-> r[1] + (IF r[1] \in above THEN 0 ELSE 1)]
           hand(r) == <<IF r[1] + r[2] \div 2 \in above THEN r[1] ELSE r[1] + r[2] \div 2,
                        r[2] - r[2] \div 2>>
           next == [r \in D |-> hand(r)]
           measure == [r \in D |-> IF r[2] <= 0 THEN 0 ELSE r[2]]
<1>1. \A r \in D : r[1] \in Nat /\ r[2] \in Int
  OBVIOUS
<1>2. \A r \in D : measure[r] \in Nat
  BY <1>1
<1>3. ASSUME NEW r \in D, r \notin S
      PROVE  next[r] \in D /\ measure[next[r]] < measure[r]
  <2>1. PICK a \in Nat, k \in Int : a = r[1] /\ k = r[2]
    BY <1>1
  <2>2. k \in Nat /\ k >= 2
    BY <1>3, <2>1
  <2>3. PICK h : h = k \div 2
    OBVIOUS
  <2>4. h \in Nat /\ k - h \in Nat /\ k - h < k /\ k - h >= 1
    BY <2>2, <2>3, HalfOf
  <2>5. next[r] = <<IF a + h \in above THEN a ELSE a + h, k - h>>
    BY <2>1, <2>3
  <2>6. next[r] \in D /\ next[r][2] = k - h
    BY <2>4, <2>5
  <2>7. measure[r] = k /\ measure[next[r]] = k - h
    BY <2>1, <2>2, <2>4, <2>6
  <2> QED
    BY <2>4, <2>6, <2>7
<1> HIDE DEF measure, next, S, D
<1>4. Descends(D, S, next, measure)
  BY <1>2, <1>3 DEF Descends
<1>5. PICK f : HandsOn(f, D, S, out, next)
  BY <1>4, HandingOnExists
<1>6. /\ f = [r \in D |-> f[r]]
      /\ \A r \in D : f[r] = IF r \in S THEN out[r] ELSE f[next[r]]
  BY <1>5 DEF HandsOn
<1>7. ASSUME NEW r \in Nat \X Int
      PROVE  f[r] = LET half == r[2] \div 2
                    IN IF r[2] <= 1 THEN r[1] + (IF r[1] \in above THEN 0 ELSE 1)
                       ELSE f[<<IF r[1] + half \in above THEN r[1] ELSE r[1] + half, r[2] - half>>]
  <2>1. r \in S <=> r[2] <= 1
    BY DEF S, D
  <2>2. out[r] = r[1] + (IF r[1] \in above THEN 0 ELSE 1) /\ next[r] = hand(r)
    BY DEF D, next
  <2>3. f[r] = IF r[2] <= 1 THEN out[r] ELSE f[next[r]]
    BY <1>6, <2>1 DEF D
  <2> HIDE DEF out
  <2> QED
    BY <2>2, <2>3
<1>8. BoundRecursion(f, above)
  BY <1>6, <1>7 DEF BoundRecursion, D
<1> QED
  BY <1>8

LEMMA BoundUnfolds ==
  ASSUME NEW above
  PROVE  \E f : /\ BoundRecursion(f, above)
                /\ \A first, last : UpperBound(above, first, last) = f[<<first, last - first>>]
<1> DEFINE g == CHOOSE f : BoundRecursion(f, above)
<1>1. BoundRecursion(g, above)
  BY BoundExists
<1>2. \A first, last : UpperBound(above, first, last) = g[<<first, last - first>>]
  BY DEF UpperBound, BoundRecursion
<1> QED
  BY <1>1, <1>2

\* From a range that is empty or has one segment, the answer is read off.
LEMMA UpperBoundAtOnce ==
  ASSUME NEW above, NEW first \in Nat, NEW last \in Int, last - first <= 1
  PROVE  UpperBound(above, first, last) = first + (IF first \in above THEN 0 ELSE 1)
<1>1. PICK f : /\ BoundRecursion(f, above)
               /\ \A x, y : UpperBound(above, x, y) = f[<<x, y - x>>]
  BY BoundUnfolds
<1>2. PICK k \in Int : k = last - first
  OBVIOUS
<1>3. <<first, k>> \in Nat \X Int /\ k <= 1
  BY <1>2
<1>4. f[<<first, k>>] = first + (IF first \in above THEN 0 ELSE 1)
  BY <1>1, <1>3 DEF BoundRecursion
<1> QED
  BY <1>1, <1>2, <1>4

\* The segments from the m-th on are those above: the search stops there.
LEMMA UpperBoundFinds ==
  ASSUME NEW above, NEW first \in Nat, NEW last \in Nat, NEW m \in Nat, first < last,
         first <= m, m <= last,
         \A s \in first..last - 1 : s \in above <=> s >= m
  PROVE  UpperBound(above, first, last) = m
<1>1. PICK f : /\ BoundRecursion(f, above)
               /\ \A x, y : UpperBound(above, x, y) = f[<<x, y - x>>]
  BY BoundUnfolds
<1> DEFINE Splits(a, b) == \A s \in a..b - 1 : s \in above <=> s >= m
           K == {d \in Nat : \A a \in Nat, k \in Nat :
                   k <= d /\ k >= 1 /\ a <= m /\ m <= a + k /\ Splits(a, a + k) => f[<<a, k>>] = m}
<1>2. ASSUME NEW a \in Nat, NEW k \in Nat
      PROVE  f[<<a, k>>] = IF k <= 1 THEN a + (IF a \in above THEN 0 ELSE 1)
                           ELSE f[<<IF a + k \div 2 \in above THEN a ELSE a + k \div 2, k - k \div 2>>]
  <2>1. <<a, k>> \in Nat \X Int
    OBVIOUS
  <2> QED
    BY <1>1, <2>1 DEF BoundRecursion
<1>3. 0 \in K
  OBVIOUS
<1>4. ASSUME NEW d \in 0..last - 1, d \in K PROVE d + 1 \in K
  <2> SUFFICES ASSUME NEW a \in Nat, NEW k \in Nat,
                      k <= d + 1, k >= 1, a <= m, m <= a + k, Splits(a, a + k)
               PROVE  f[<<a, k>>] = m
    OBVIOUS
  <2>1. CASE k <= 1
    <3>1. k = 1 /\ a \in a..a + k - 1
      BY <2>1
    <3>2. a \in above <=> a >= m
      BY <3>1
    <3>3. f[<<a, k>>] = a + (IF a \in above THEN 0 ELSE 1)
      BY <1>2, <2>1
    <3> QED
      BY <3>1, <3>2, <3>3
  <2>2. CASE k > 1
    <3>1. PICK h : h = k \div 2
      OBVIOUS
    <3>2. h \in Nat /\ h >= 1 /\ h <= k - h /\ k - h < k /\ k - h \in Nat /\ k - h >= 1
      BY <2>2, <3>1, HalfOf
    <3>3. f[<<a, k>>] = f[<<IF a + h \in above THEN a ELSE a + h, k - h>>]
      <4>1. ~(k <= 1)
        BY <2>2
      <4>2. f[<<a, k>>] = f[<<IF a + k \div 2 \in above THEN a ELSE a + k \div 2, k - k \div 2>>]
        BY <1>2, <4>1, Zenon
      <4> QED
        BY <3>1, <4>2, Zenon
    <3>4. a + h \in a..a + k - 1 /\ k - h <= d /\ a + h \in Nat
      BY <3>2
    <3>5. a + h \in above <=> a + h >= m
      BY <3>4
    <3>6. CASE a + h >= m
      <4>1. m <= a + (k - h) /\ Splits(a, a + (k - h))
        BY <3>2, <3>6
      <4>2. f[<<a, k - h>>] = m
        <5> PICK l : l = k - h
          OBVIOUS
        <5>1. l \in Nat /\ l <= d /\ l >= 1 /\ m <= a + l /\ Splits(a, a + l)
          BY <3>2, <3>4, <4>1
        <5> QED
          BY <1>4, <5>1
      <4>3. a + h \in above
        BY <3>5, <3>6
      <4> QED
        BY <3>3, <4>2, <4>3
    <3>7. CASE a + h < m
      <4>1. a + h <= m /\ m <= (a + h) + (k - h) /\ Splits(a + h, (a + h) + (k - h))
        BY <3>2, <3>7
      <4>2. f[<<a + h, k - h>>] = m
        <5> PICK e, l : e = a + h /\ l = k - h
          OBVIOUS
        <5>1. e \in Nat /\ l \in Nat /\ l <= d /\ l >= 1 /\ e <= m /\ m <= e + l /\ Splits(e, e + l)
          BY <3>2, <3>4, <4>1
        <5> QED
          BY <1>4, <5>1
      <4>3. a + h \notin above
        BY <3>4, <3>5, <3>7
      <4> QED
        BY <3>3, <4>2, <4>3
    <3> QED
      BY <3>4, <3>6, <3>7
  <2> QED
    BY <2>1, <2>2
<1>5. last \in K
  <2> HIDE DEF K
  <2>1. \A d \in 0..last : d \in K
    BY <1>3, <1>4, IntervalInduction
  <2> QED
    BY <2>1
<1>6. PICK k \in Nat : k = last - first
  OBVIOUS
<1>7. k <= last /\ k >= 1 /\ m <= first + k /\ Splits(first, first + k)
  BY <1>6
<1>8. f[<<first, k>>] = m
  BY <1>5, <1>7
<1> QED
  BY <1>1, <1>6, <1>8

-----------------------------------------------------------------------------
(* bucketing_top_level                                                     *)

LEMMA CountAtLeast ==
  ASSUME NEW m \in Nat, NEW A, A \subseteq 0..m - 1, NEW h \in Nat, 0..h - 1 \subseteq A
  PROVE  Cardinality(A) \in Nat /\ h <= Cardinality(A) /\ Cardinality(A) <= m
<1>1. /\ IsFiniteSet(0..m - 1) /\ Cardinality(0..m - 1) = m
      /\ IsFiniteSet(0..h - 1) /\ Cardinality(0..h - 1) = h
  <2>1. /\ 0 \in Int /\ m - 1 \in Int /\ h - 1 \in Int
        /\ (IF 0 > m - 1 THEN 0 ELSE (m - 1) - 0 + 1) = m
        /\ (IF 0 > h - 1 THEN 0 ELSE (h - 1) - 0 + 1) = h
    OBVIOUS
  <2> QED
    BY <2>1, FS_Interval
<1>2. IsFiniteSet(A) /\ Cardinality(A) \in Nat
  BY <1>1, FS_Subset, FS_CardinalityType
<1>3. Cardinality(A) <= m
  <2>1. Cardinality(A) <= Cardinality(0..m - 1)
    BY <1>1, FS_Subset
  <2> QED
    BY <1>1, <2>1
<1>4. h <= Cardinality(A)
  BY <1>1, <1>2, FS_Subset
<1> QED
  BY <1>2, <1>3, <1>4

LEMMA CountAtMost ==
  ASSUME NEW h \in Nat, NEW A, A \subseteq 0..h - 1
  PROVE  Cardinality(A) \in Nat /\ Cardinality(A) <= h
<1>1. 0..0 - 1 \subseteq A
  OBVIOUS
<1> QED
  BY <1>1, CountAtLeast

\* The number of a segment is not above its first position.
LEMMA SegmentsCounted ==
  ASSUME Finished
  PROVE  SentinelIndex \in 1..n
<1>0. PICK m : m = SentinelIndex
  OBVIOUS
<1>1. /\ m \in Nat \ {0} /\ \A i \in 0..m : Segment(i).first \in Nat
      /\ \A i \in 0..m - 1 : Segment(i).first < Segment(i + 1).first
      /\ Segment(m).first = n /\ Segment(0).first = 0
  BY <1>0 DEF Finished, RealSegments
<1> DEFINE T == {i \in 0..m : Segment(i).first >= i}
<1>2. 0 \in T
  BY <1>1
<1>3. ASSUME NEW i \in 0..m - 1, i \in T PROVE i + 1 \in T
  <2>1. i + 1 \in 0..m /\ i \in 0..m
    BY <1>1
  <2>2. PICK a \in Nat, b \in Nat : a = Segment(i).first /\ b = Segment(i + 1).first
    BY <1>1, <2>1
  <2>3. a < b /\ a >= i
    BY <1>1, <1>3, <2>2
  <2>4. b >= i + 1
    BY <2>1, <2>3
  <2> QED
    BY <2>1, <2>2, <2>4
<1>4. m \in T
  <2> HIDE DEF T
  <2>1. m \in Nat
    BY <1>1
  <2>2. \A i \in 0..m : i \in T
    BY <1>2, <1>3, <2>1, IntervalInduction
  <2> QED
    BY <2>1, <2>2
<1>5. m <= n /\ n \in Nat
  BY <1>1, <1>4 DEF Finished
<1> QED
  BY <1>0, <1>1, <1>5

LEMMA TopLevelTyped ==
  ASSUME Finished
  PROVE  TopLevelSize \in Nat \ {0}
<1>1. n \in Nat /\ SentinelIndex \in 1..n /\ n + 2 \in Powers
  BY SegmentsCounted, DataTyped DEF Finished
<1>2. BitCeil(SentinelIndex) \in Nat \ {0}
  <2>1. PICK x : x = SentinelIndex
    OBVIOUS
  <2>2. CASE x < 2
    BY <2>1, <2>2 DEF BitCeil
  <2>3. CASE ~(x < 2)
    <3>1. n + 2 \in Nat /\ x \in 1..(n + 2) + 1
      BY <1>1, <2>1
    <3>2. CeilLog2(x) \in 0..x
      BY <1>1, <3>1, PowersDouble, CeilLog2InRange
    <3>3. CeilLog2(x) \in 0..n + 2
      BY <1>1, <2>1, <3>2
    <3>4. 2 ^ CeilLog2(x) \in Nat \ {0}
      BY <1>1, <3>1, <3>3, PowerNatural
    <3> QED
      BY <2>1, <2>3, <3>4 DEF BitCeil
  <2> QED
    BY <2>2, <2>3
<1>3. TopLevelCap \in Nat \ {0}
  BY LaVectorAssumption
<1>4. {TopLevelCap, BitCeil(SentinelIndex)} \subseteq Nat \ {0}
  BY <1>2, <1>3
<1>5. TopLevelSize \in {TopLevelCap, BitCeil(SentinelIndex)}
  <2> DEFINE pair == {TopLevelCap, BitCeil(SentinelIndex)}
  <2>1. pair \subseteq Nat /\ pair # {}
    BY <1>4
  <2>2. Min(pair) \in pair
    <3> HIDE DEF pair
    <3> QED
      BY <2>1, MinOfNaturals
  <2> QED
    BY <2>2 DEF TopLevelSize
<1> QED
  BY <1>4, <1>5

\* The steps of the top level reach over all that it is made for.
LEMMA StepCovers ==
  ASSUME NEW a \in Nat \ {0}, NEW d \in Nat \ {0}
  PROVE  CeilDiv(a, d) \in Nat \ {0} /\ a <= d * CeilDiv(a, d)
<1> DEFINE b == a + d - 1
<1>1. b \in Nat
  OBVIOUS
<1> HIDE DEF b
<1>2. b \div d \in Nat /\ b % d \in 0..d - 1 /\ b = d * (b \div d) + (b % d)
  BY <1>1, Division
<1>3. PICK q \in Nat, r \in 0..d - 1 : q = b \div d /\ r = b % d
  BY <1>2
<1>4. b = d * q + r
  BY <1>2, <1>3
<1>5. d * q \in Nat
  BY <1>3, Z3
<1>6. a <= d * q
  BY <1>3, <1>4, <1>5 DEF b
<1>7. q # 0
  <2>1. q = 0 => d * q = 0
    OBVIOUS
  <2> QED
    BY <1>6, <2>1
<1> QED
  BY <1>3, <1>6, <1>7 DEF CeilDiv, b

\* The bucket of a value: it lies in it, and not after the last one.
LEMMA BucketOf ==
  ASSUME NEW v \in Nat, NEW step \in Nat \ {0}, NEW k, k = v \div step
  PROVE  /\ k \in Nat /\ k * step <= v /\ v < (k + 1) * step /\ k * step \in Nat
         /\ (k + 1) * step \in Nat
         /\ v < step => k = 0
         /\ v >= step => k - 1 \in Nat
         /\ \A d \in Nat : v < d * step => k <= d - 1
         /\ \A d \in Nat : v <= d * step => k <= d
<1>1. v \div step \in Nat /\ v % step \in 0..step - 1 /\ v = step * (v \div step) + (v % step)
  BY Division
<1>2. PICK r \in 0..step - 1 : r = v % step
  BY <1>1
<1>3. k \in Nat /\ v = step * k + r
  BY <1>1, <1>2
<1>4. step * k \in Nat /\ k * step = step * k /\ (k + 1) * step = step * k + step
  BY <1>3, Z3
<1>5. step * k <= v /\ v < step * k + step
  BY <1>2, <1>3, <1>4
<1>6. \A d \in Nat : d < k => d * step + step <= k * step
  BY <1>3, BlocksApart, <1>4
<1>7. v < step => k = 0
  <2> SUFFICES ASSUME v < step, k # 0 PROVE FALSE
    OBVIOUS
  <2>1. 0 * step + step <= k * step
    BY <1>3, <1>6
  <2> QED
    BY <1>4, <1>5, <2>1
<1>8. v >= step => k - 1 \in Nat
  <2> SUFFICES ASSUME v >= step, k = 0 PROVE FALSE
    BY <1>3
  <2>1. step * k = 0
    BY Z3
  <2> QED
    BY <1>5, <2>1
<1>9. ASSUME NEW d \in Nat, v < d * step PROVE k <= d - 1
  <2> SUFFICES ASSUME d <= k PROVE FALSE
    BY <1>3
  <2>1. d * step <= k * step
    BY <1>3, Z3
  <2>2. d * step \in Nat
    BY Z3
  <2> QED
    BY <1>4, <1>5, <1>9, <2>1, <2>2
<1>10. ASSUME NEW d \in Nat, v <= d * step PROVE k <= d
  <2> SUFFICES ASSUME d < k PROVE FALSE
    BY <1>3
  <2>1. d * step + step <= k * step /\ d * step \in Nat
    BY <1>6, Z3
  <2> QED
    BY <1>4, <1>5, <1>10, <2>1
<1> QED
  BY <1>3, <1>4, <1>5, <1>7, <1>8, <1>9, <1>10

\* The segments of a finished vector up to the holder of a position are those
\* that begin up to it.
LEMMA HeldOrder ==
  ASSUME Finished, NEW i \in Nat, NEW h, Holds(h, i)
  PROVE  /\ h \in Nat /\ h + 1 <= SentinelIndex
         /\ \A s \in 0..SentinelIndex : Segment(s).first <= i <=> s <= h
<1>0. PICK m : m = SentinelIndex
  OBVIOUS
<1>1. /\ m \in Nat /\ h \in 0..m - 1 /\ Segment(h).first <= i /\ i < Segment(h + 1).first
      /\ \A s \in 0..m : Segment(s).first \in Nat
  BY <1>0 DEF Finished, Holds, RealSegments
<1>2. h \in 0..m /\ h + 1 \in 0..m
  BY <1>1
<1>3. ASSUME NEW s \in 0..m PROVE Segment(s).first <= i <=> s <= h
  <2>1. Segment(s).first \in Nat /\ Segment(h).first \in Nat /\ Segment(h + 1).first \in Nat
    BY <1>1, <1>2
  <2>2. CASE s < h
    <3>1. Segment(s).first < Segment(h).first
      BY <1>0, <1>2, <2>2, FirstsIncrease
    <3> QED
      BY <1>1, <2>1, <2>2, <3>1
  <2>3. CASE s = h
    BY <1>1, <2>3
  <2>4. CASE s = h + 1
    BY <1>1, <2>1, <2>4
  <2>5. CASE s > h + 1
    <3>1. Segment(h + 1).first < Segment(s).first
      BY <1>0, <1>2, <2>5, FirstsIncrease
    <3> QED
      BY <1>1, <2>1, <2>5, <3>1
  <2> QED
    BY <1>1, <2>2, <2>3, <2>4, <2>5
<1> QED
  BY <1>0, <1>1, <1>3

\* What the entries of the top level say of a number of segments.
LEMMA PosTopLevelBounds ==
  ASSUME Finished, NEW k \in 0..TopLevelSize - 1, NEW padding, NEW h \in 0..SentinelIndex
  PROVE  /\ PosTopLevel(k, padding) \in 0..SentinelIndex
         /\ k = TopLevelSize - 1 => PosTopLevel(k, padding) = SentinelIndex
         /\ (\A s \in 0..h - 1 : Segment(s).first < (k + 1) * PosStep)
              => h <= PosTopLevel(k, padding)
         /\ k < TopLevelSize - 1
              /\ (\A s \in RealSegments : Segment(s).first < (k + 1) * PosStep => s < h)
              => PosTopLevel(k, padding) <= h
<1>0. PICK m, d : m = SentinelIndex /\ d = TopLevelSize
  OBVIOUS
<1>1. m \in Nat /\ d \in Nat \ {0} /\ h \in Nat /\ h <= m /\ k \in Nat /\ k <= d - 1
  BY <1>0, TopLevelTyped DEF Finished
<1> DEFINE A == {s \in RealSegments : Segment(s).first < (k + 1) * PosStep}
<1>2. A \subseteq 0..m - 1
  BY <1>0 DEF RealSegments
<1>3. CASE k = d - 1
  <2>1. PosTopLevel(k, padding) = m
    BY <1>0, <1>1, <1>3 DEF PosTopLevel
  <2> QED
    BY <1>0, <1>1, <1>3, <2>1
<1>4. CASE k < d - 1
  <2>1. PosTopLevel(k, padding) = Cardinality(A)
    BY <1>0, <1>1, <1>4 DEF PosTopLevel
  <2>2. ASSUME \A s \in 0..h - 1 : Segment(s).first < (k + 1) * PosStep
        PROVE  h <= Cardinality(A)
    <3>1. 0..h - 1 \subseteq A
      <4>1. 0..h - 1 \subseteq 0..m - 1
        BY <1>1
      <4> QED
        BY <1>0, <2>2, <4>1 DEF RealSegments
    <3> HIDE DEF A
    <3> QED
      BY <1>1, <1>2, <3>1, CountAtLeast
  <2>3. ASSUME \A s \in RealSegments : Segment(s).first < (k + 1) * PosStep => s < h
        PROVE  Cardinality(A) <= h
    <3>1. A \subseteq 0..h - 1
      <4>1. \A s \in 0..m - 1 : s < h => s \in 0..h - 1
        BY <1>1
      <4> QED
        BY <1>0, <2>3, <4>1 DEF RealSegments
    <3> HIDE DEF A
    <3> QED
      BY <1>1, <3>1, CountAtMost
  <2>4. Cardinality(A) \in 0..m
    <3>1. Cardinality(A) \in Nat /\ Cardinality(A) <= m
      <4> HIDE DEF A
      <4> QED
        BY <1>1, <1>2, CountAtMost
    <3> QED
      BY <1>1, <3>1
  <2> HIDE DEF A
  <2> QED
    BY <1>0, <1>1, <1>4, <2>1, <2>2, <2>3, <2>4
<1> QED
  BY <1>1, <1>3, <1>4

\* A position is found in the segment that holds it.
LEMMA PositionFound ==
  ASSUME Finished, NEW i \in 0..n - 1, NEW padding
  PROVE  Holds(SegmentForPosition(i, padding), i)
<1>0. PICK h : Holds(h, i)
  BY HolderExists
<1>1. PICK m, d, p : m = SentinelIndex /\ d = TopLevelSize /\ p = PosStep
  OBVIOUS
<1>2. n \in Nat \ {0} /\ i \in Nat /\ i < n
  BY DEF Finished
<1>3. d \in Nat \ {0} /\ p \in Nat \ {0} /\ n <= d * p
  BY <1>1, <1>2, TopLevelTyped, StepCovers DEF PosStep
<1>4. /\ m \in Nat \ {0} /\ h \in Nat /\ h + 1 <= m
      /\ \A s \in 0..m : Segment(s).first <= i <=> s <= h
      /\ \A s \in 0..m : Segment(s).first \in Nat
  BY <1>0, <1>1, <1>2, HeldOrder DEF Finished
<1> DEFINE k == i \div p
           above == {s \in 0..m : i < Segment(s).first}
           first == IF i < p THEN 0 ELSE PosTopLevel(k - 1, padding)
           last == PosTopLevel(k, padding)
<1>5. SegmentForPosition(i, padding) = UpperBound(above, first, last) - 1
  BY <1>1 DEF SegmentForPosition
<1>6. \A s \in 0..m : s \in above <=> s >= h + 1
  BY <1>4
<1>7. PICK j : j = k
  OBVIOUS
<1>8. /\ j \in Nat /\ j * p <= i /\ i < (j + 1) * p /\ j * p \in Nat /\ (j + 1) * p \in Nat
      /\ (i >= p => j - 1 \in Nat) /\ j <= d - 1
  <2>1. i < d * p
    <3>1. d * p \in Nat
      BY <1>3, Z3
    <3> QED
      BY <1>2, <1>3, <3>1
  <2>2. /\ j \in Nat /\ j * p <= i /\ i < (j + 1) * p /\ j * p \in Nat /\ (j + 1) * p \in Nat
        /\ (i >= p => j - 1 \in Nat)
        /\ \A e \in Nat : i < e * p => j <= e - 1
    BY <1>2, <1>3, <1>7, BucketOf
  <2> QED
    BY <1>3, <2>1, <2>2
<1>9. last \in 0..m /\ h + 1 <= last
  <2>1. j \in 0..d - 1 /\ h + 1 \in 0..m
    BY <1>3, <1>4, <1>8
  <2>2. \A s \in 0..(h + 1) - 1 : Segment(s).first < (j + 1) * p
    <3> SUFFICES ASSUME NEW s \in 0..(h + 1) - 1 PROVE Segment(s).first < (j + 1) * p
      OBVIOUS
    <3>1. s \in 0..m /\ s <= h
      BY <1>4
    <3>2. Segment(s).first \in Nat /\ Segment(s).first <= i
      BY <1>4, <3>1
    <3> QED
      BY <1>2, <1>8, <3>2
  <2> QED
    BY <1>1, <1>7, <2>1, <2>2, PosTopLevelBounds
<1>10. first \in 0..m /\ first <= h + 1
  <2>1. CASE i < p
    BY <1>4, <2>1
  <2>2. CASE ~(i < p)
    <3>1. j - 1 \in Nat /\ j - 1 \in 0..d - 1 /\ j - 1 < d - 1 /\ (j - 1) + 1 = j /\ h + 1 \in 0..m
      BY <1>2, <1>3, <1>4, <1>8, <2>2
    <3>2. \A s \in RealSegments : Segment(s).first < ((j - 1) + 1) * p => s < h + 1
      <4> SUFFICES ASSUME NEW s \in RealSegments, Segment(s).first < j * p PROVE s < h + 1
        BY <3>1
      <4>1. s \in 0..m
        BY <1>1, <1>4 DEF RealSegments
      <4>2. Segment(s).first \in Nat /\ (Segment(s).first <= i <=> s <= h)
        BY <1>4, <4>1
      <4>3. Segment(s).first <= i
        BY <1>2, <1>8, <4>2
      <4> QED
        BY <1>4, <4>1, <4>2, <4>3
    <3>3. PosTopLevel(j - 1, padding) \in 0..m /\ PosTopLevel(j - 1, padding) <= h + 1
      BY <1>1, <3>1, <3>2, PosTopLevelBounds
    <3> QED
      BY <1>7, <2>2, <3>3
  <2> QED
    BY <2>1, <2>2
<1> HIDE DEF above, first, last, k
<1>11. PICK a \in Nat, z \in Nat : a = first /\ z = last
  BY <1>4, <1>9, <1>10
<1>12. a <= h + 1 /\ h + 1 <= z /\ z <= m
  BY <1>4, <1>9, <1>10, <1>11
<1>13. UpperBound(above, a, z) = h + 1
  <2>1. CASE a < z
    <3>1. \A s \in a..z - 1 : s \in above <=> s >= h + 1
      <4>1. a..z - 1 \subseteq 0..m
        BY <1>4, <1>12
      <4> QED
        BY <1>6, <4>1
    <3>2. h + 1 \in Nat
      BY <1>4
    <3> QED
      BY <1>12, <2>1, <3>1, <3>2, UpperBoundFinds
  <2>2. CASE ~(a < z)
    <3>1. a = h + 1 /\ z \in Int /\ z - a <= 1 /\ a \in 0..m
      BY <1>4, <1>12, <2>2
    <3>2. a \in above
      BY <1>6, <3>1
    <3> QED
      BY <3>1, <3>2, UpperBoundAtOnce
  <2> QED
    BY <2>1, <2>2
<1>14. SegmentForPosition(i, padding) = h
  BY <1>4, <1>5, <1>11, <1>13
<1> QED
  BY <1>0, <1>14

\* The end is looked up in the last segment or in the sentinel.
LEMMA EndFound ==
  ASSUME Finished, NEW padding \in Paddings
  PROVE  SegmentForPosition(n, padding) \in {SentinelIndex - 1, SentinelIndex}
<1>1. PICK m, d, p : m = SentinelIndex /\ d = TopLevelSize /\ p = PosStep
  OBVIOUS
<1>2. n \in Nat \ {0} /\ padding \in {0, m}
  BY <1>1 DEF Finished, Paddings
<1>3. d \in Nat \ {0} /\ p \in Nat \ {0} /\ n <= d * p
  BY <1>1, <1>2, TopLevelTyped, StepCovers DEF PosStep
<1>4. m \in Nat \ {0} /\ \A s \in 0..m : Segment(s).first \in Nat /\ Segment(s).first <= n
  BY <1>1 DEF Finished
<1> DEFINE k == n \div p
           above == {s \in 0..m : n < Segment(s).first}
           first == IF n < p THEN 0 ELSE PosTopLevel(k - 1, padding)
           last == PosTopLevel(k, padding)
<1>5. SegmentForPosition(n, padding) = UpperBound(above, first, last) - 1
  BY <1>1 DEF SegmentForPosition
<1>6. above = {}
  BY <1>2, <1>4
<1>7. PICK j : j = k
  OBVIOUS
<1>8. /\ j \in Nat /\ n < (j + 1) * p /\ (j + 1) * p \in Nat
      /\ (n >= p => j - 1 \in Nat) /\ (n < p => j = 0) /\ j <= d
  <2>1. /\ j \in Nat /\ n < (j + 1) * p /\ (j + 1) * p \in Nat
        /\ (n >= p => j - 1 \in Nat) /\ (n < p => j = 0)
        /\ \A e \in Nat : n <= e * p => j <= e
    BY <1>2, <1>3, <1>7, BucketOf
  <2> QED
    BY <1>3, <2>1
<1>9. first \in 0..m /\ (j = d => first = m)
  <2>1. CASE n < p
    BY <1>3, <1>4, <1>8, <2>1
  <2>2. CASE ~(n < p)
    <3>1. j - 1 \in 0..d - 1 /\ 0 \in 0..m /\ (j = d => j - 1 = d - 1)
      BY <1>2, <1>3, <1>4, <1>8, <2>2
    <3>2. PosTopLevel(j - 1, padding) \in 0..m /\ (j = d => PosTopLevel(j - 1, padding) = m)
      BY <1>1, <3>1, PosTopLevelBounds
    <3> QED
      BY <1>7, <2>2, <3>2
  <2> QED
    BY <2>1, <2>2
<1>10. j < d => last = m
  <2> SUFFICES ASSUME j < d PROVE last = m
    OBVIOUS
  <2>1. j \in 0..d - 1 /\ m \in 0..m
    BY <1>3, <1>4, <1>8
  <2>2. \A s \in 0..m - 1 : Segment(s).first < (j + 1) * p
    <3> SUFFICES ASSUME NEW s \in 0..m - 1 PROVE Segment(s).first < (j + 1) * p
      OBVIOUS
    <3>1. s \in 0..m
      BY <1>4
    <3>2. Segment(s).first \in Nat /\ Segment(s).first <= n
      BY <1>4, <3>1
    <3> QED
      BY <1>2, <1>8, <3>2
  <2>3. PosTopLevel(j, padding) \in 0..m /\ m <= PosTopLevel(j, padding)
    BY <1>1, <2>1, <2>2, PosTopLevelBounds
  <2> QED
    BY <1>4, <1>7, <2>3
<1>11. j = d => last \in {0, m}
  <2> SUFFICES ASSUME j = d PROVE last \in {0, m}
    OBVIOUS
  <2>1. ~(j < d - 1) /\ j # d - 1
    BY <1>3
  <2>2. PosTopLevel(j, padding) = padding
    BY <1>1, <2>1 DEF PosTopLevel
  <2> QED
    BY <1>2, <1>7, <2>2
<1> HIDE DEF above, first, last, k
<1>12. PICK a \in Nat, z \in Nat : a = first /\ z = last
  BY <1>3, <1>4, <1>8, <1>9, <1>10, <1>11
<1>13. a <= m /\ (z = m \/ (a = m /\ z = 0))
  BY <1>3, <1>4, <1>8, <1>9, <1>10, <1>11, <1>12
<1>14. UpperBound(above, a, z) \in {m, m + 1}
  <2>1. CASE a < z
    <3>1. z = m /\ \A s \in a..z - 1 : s \in above <=> s >= m
      BY <1>4, <1>6, <1>13, <2>1
    <3> QED
      BY <1>4, <1>13, <2>1, <3>1, UpperBoundFinds
  <2>2. CASE ~(a < z)
    <3>1. a = m /\ z \in Int /\ z - a <= 1
      BY <1>4, <1>13, <2>2
    <3> QED
      BY <1>4, <1>6, <3>1, UpperBoundAtOnce
  <2> QED
    BY <2>1, <2>2
<1>15. SegmentForPosition(n, padding) \in {m - 1, m}
  <2>1. PICK u : u = UpperBound(above, a, z)
    OBVIOUS
  <2>2. u \in {m, m + 1}
    BY <1>14, <2>1
  <2>3. u - 1 \in {m - 1, m}
    BY <1>4, <2>2
  <2> QED
    BY <1>5, <1>12, <2>1, <2>3
<1> QED
  BY <1>1, <1>15

LEMMA ElementsDecode ==
  ASSUME ~AutoBpc, BuildInv
  PROVE  EveryElementDecodes
<1> SUFFICES ASSUME pc = "built" PROVE EveryElementDecodes
  BY DEF EveryElementDecodes
<1>1. Finished
  BY BuiltFinished
<1>2. Decoded = data
  BY <1>1, DecodedData
<1>3. ASSUME NEW i \in 0..n - 1, NEW padding \in Paddings
      PROVE  At(i, padding) = Key(i)
  <2>1. i \in Nat
    BY <1>1 DEF Finished
  <2>2. PICK s : s = SegmentForPosition(i, padding)
    OBVIOUS
  <2>3. Holds(s, i)
    BY <1>1, <2>2, PositionFound
  <2>4. Decompress(Segment(s), i) = Key(i)
    BY <1>1, <2>1, <2>3, HolderDecodes DEF Holds
  <2> QED
    BY <2>2, <2>4 DEF At
<1> QED
  BY <1>2, <1>3 DEF EveryElementDecodes

-----------------------------------------------------------------------------
(* The construction                                                        *)

LEMMA ConstructionStep ==
  ASSUME ~AutoBpc, BuildInv, [Next]_vars
  PROVE  BuildInv'
<1>1. [Build]_buildVars
  BY DEF Next, BuildStep, Begin, End, Increment, Decrement, Seek, Plus, Advance, MoveTo, vars
<1> QED
  BY <1>1, BuildPreserved

(* The calls of push_segment to come and the segments stored tile the       *)
(* positions, and every stored segment decodes its elements, whatever was   *)
(* written after it (la_vector.hpp:78-119, 446-458, 491-527).               *)
THEOREM ConstructionInvariant ==
  ASSUME ~AutoBpc
  PROVE  Spec => []BuildInv
<1>1. Init => BuildInv
  BY BuildInitially DEF Init
<1>2. BuildInv /\ [Next]_vars => BuildInv'
  BY ConstructionStep
<1> QED
  BY <1>1, <1>2, PTL DEF Spec

(* The fields of a segment fit the widths they are packed in               *)
(* (la_vector.hpp:463-488).                                                *)
THEOREM ConstructionTyped ==
  ASSUME ~AutoBpc
  PROVE  Spec => []BuildTypeOK
<1>1. BuildInv => BuildTypeOK
  BY BuildTyped
<1> QED
  BY <1>1, ConstructionInvariant, PTL

(* In a finished vector the corrections of two elements share no bit, and  *)
(* all of them are in the allocated words, together with what a scan of    *)
(* lower_bound reads behind a segment (la_vector.hpp:95-99, 521-527).      *)
THEOREM CorrectionsStayApart ==
  ASSUME ~AutoBpc
  PROVE  Spec => []CorrectionsApart
<1>1. BuildInv => CorrectionsApart
  BY FinishedApart
<1> QED
  BY <1>1, ConstructionInvariant, PTL

(* A finished vector gives every element back, through operator[] and the  *)
(* top level, whatever its padding, and through decode()                   *)
(* (la_vector.hpp:121-124, 255-272).                                       *)
THEOREM ElementsComeBack ==
  ASSUME ~AutoBpc
  PROVE  Spec => []EveryElementDecodes
<1>1. BuildInv => EveryElementDecodes
  BY ElementsDecode
<1> QED
  BY <1>1, ConstructionInvariant, PTL

(* The recursion of push_segment halves the positions of its call, so with  *)
(* a stack of as many calls as the data can be halved it gives out only    *)
(* where it cannot shrink any more: at one element that its own line does  *)
(* not fit (la_vector.hpp:446-458, 499-504).                               *)
THEOREM RecursionEndsOnlyTooSteep ==
  ASSUME ~AutoBpc, DeepEnough
  PROVE  Spec => []OverflowOnlyTooSteep
<1> DEFINE Explained == pc = "overflow" => TooSteep
           DepthInv == BuildInv /\ CallsDescend /\ Explained
<1>1. Init => DepthInv
  <2>1. Init => BuildInv /\ CallsDescend
    BY BuildInitially, DescentInitially DEF Init
  <2>2. Init => Explained
    BY DEF Init, BuildInit
  <2> QED
    BY <2>1, <2>2
<1>2. DepthInv /\ [Next]_vars => DepthInv'
  <2> SUFFICES ASSUME DepthInv, [Next]_vars PROVE DepthInv'
    OBVIOUS
  <2>1. BuildInv'
    BY ConstructionStep
  <2>2. [Build]_buildVars
    BY DEF Next, BuildStep, Begin, End, Increment, Decrement, Seek, Plus, Advance, MoveTo, vars
  <2>3. CallsDescend'
    BY <2>2, DescentPreserved
  <2>4. Explained'
    BY <2>2, OverflowPreserved
  <2> QED
    BY <2>1, <2>3, <2>4
<1>3. DepthInv => OverflowOnlyTooSteep
  BY DEF TooSteep, OverflowOnlyTooSteep
<1> QED
  BY <1>1, <1>2, <1>3, PTL DEF Spec

-----------------------------------------------------------------------------
(* binary_search and sample_search                                         *)

\* Position stop is where the elements of a segment reach a value, among the
\* positions lo..hi.
Reaches(s, value, stop, lo, hi) ==
  \A p \in lo..hi - 1 : Decompress(s, p) < value <=> p < stop

LEMMA MiddleBetween ==
  ASSUME NEW lo \in Nat, NEW hi \in Nat, lo < hi
  PROVE  Middle(lo, hi) \in Nat /\ lo <= Middle(lo, hi) /\ Middle(lo, hi) < hi
BY DEF Middle

SearchRecursion(f, s, value) ==
  f = [r \in Nat \X Nat |->
        LET mid == Middle(r[1], r[2])
        IN IF r[1] >= r[2] THEN r[1]
           ELSE f[IF Decompress(s, mid) < value THEN <<mid + 1, r[2]>> ELSE <<r[1], mid>>]]

LEMMA SearchExists ==
  ASSUME NEW s, NEW value
  PROVE  \E f : SearchRecursion(f, s, value)
<1> DEFINE D == Nat \X Nat
           S == {r \in D : r[1] >= r[2]}
           out == [r \in D |-> r[1]]
           hand(r) == IF Decompress(s, Middle(r[1], r[2])) < value
                      THEN <<Middle(r[1], r[2]) + 1, r[2]>> ELSE <<r[1], Middle(r[1], r[2])>>
           next == [r \in D |-> hand(r)]
           measure == [r \in D |-> IF r[1] >= r[2] THEN 0 ELSE r[2] - r[1]]
<1>1. \A r \in D : r[1] \in Nat /\ r[2] \in Nat
  OBVIOUS
<1>2. \A r \in D : measure[r] \in Nat
  BY <1>1
<1>3. ASSUME NEW r \in D, r \notin S
      PROVE  next[r] \in D /\ measure[next[r]] < measure[r]
  <2>1. PICK a \in Nat, b \in Nat : a = r[1] /\ b = r[2]
    BY <1>1
  <2>2. a < b
    BY <1>3, <2>1
  <2>3. PICK m : m = Middle(a, b)
    OBVIOUS
  <2>4. m \in Nat /\ a <= m /\ m < b
    BY <2>2, <2>3, MiddleBetween
  <2>5. next[r] \in {<<m + 1, b>>, <<a, m>>}
    BY <2>1, <2>3
  <2>6. measure[r] = b - a
    BY <2>1, <2>2
  <2>7. \A x, y \in Nat : <<x, y>> \in D /\ measure[<<x, y>>] = IF x >= y THEN 0 ELSE y - x
    OBVIOUS
  <2>8. m + 1 \in Nat
    BY <2>4
  <2> HIDE DEF measure, next, D
  <2>9. CASE next[r] = <<m + 1, b>>
    BY <2>2, <2>4, <2>6, <2>7, <2>8, <2>9
  <2>10. CASE next[r] = <<a, m>>
    BY <2>2, <2>4, <2>6, <2>7, <2>10
  <2> QED
    BY <2>5, <2>9, <2>10
<1> HIDE DEF measure, next, S, D
<1>4. Descends(D, S, next, measure)
  BY <1>2, <1>3 DEF Descends
<1>5. PICK f : HandsOn(f, D, S, out, next)
  BY <1>4, HandingOnExists
<1>6. /\ f = [r \in D |-> f[r]]
      /\ \A r \in D : f[r] = IF r \in S THEN out[r] ELSE f[next[r]]
  BY <1>5 DEF HandsOn
<1>7. ASSUME NEW r \in Nat \X Nat
      PROVE  f[r] = LET mid == Middle(r[1], r[2])
                    IN IF r[1] >= r[2] THEN r[1]
                       ELSE f[IF Decompress(s, mid) < value THEN <<mid + 1, r[2]>> ELSE <<r[1], mid>>]
  <2>1. r \in S <=> r[1] >= r[2]
    BY DEF S, D
  <2>2. out[r] = r[1] /\ next[r] = hand(r)
    BY DEF D, next
  <2>3. f[r] = IF r[1] >= r[2] THEN out[r] ELSE f[next[r]]
    BY <1>6, <2>1 DEF D
  <2> HIDE DEF out
  <2> QED
    BY <2>2, <2>3
<1>8. SearchRecursion(f, s, value)
  BY <1>6, <1>7 DEF SearchRecursion, D
<1> QED
  BY <1>8

\* Halving ends where the elements reach the value.
LEMMA BinarySearchFinds ==
  ASSUME NEW s, NEW value, NEW lo \in Nat, NEW hi \in Nat, NEW stop \in Nat,
         lo <= stop, stop <= hi, Reaches(s, value, stop, lo, hi)
  PROVE  BinarySearch(s, value, lo, hi) = stop
<1> DEFINE g == CHOOSE f : SearchRecursion(f, s, value)
<1>1. SearchRecursion(g, s, value)
  BY SearchExists
<1>2. BinarySearch(s, value, lo, hi) = g[<<lo, hi>>]
  BY DEF BinarySearch, SearchRecursion
<1> HIDE DEF g
<1>3. ASSUME NEW a \in Nat, NEW b \in Nat
      PROVE  /\ a >= b => g[<<a, b>>] = a
             /\ ~(a >= b) /\ Decompress(s, Middle(a, b)) < value
                  => g[<<a, b>>] = g[<<Middle(a, b) + 1, b>>]
             /\ ~(a >= b) /\ ~(Decompress(s, Middle(a, b)) < value)
                  => g[<<a, b>>] = g[<<a, Middle(a, b)>>]
  <2>1. <<a, b>> \in Nat \X Nat
    OBVIOUS
  <2>2. g[<<a, b>>] = IF a >= b THEN a
           ELSE g[IF Decompress(s, Middle(a, b)) < value THEN <<Middle(a, b) + 1, b>>
                  ELSE <<a, Middle(a, b)>>]
    BY <1>1, <2>1 DEF SearchRecursion
  <2> QED
    BY <2>2, Zenon
<1> DEFINE K == {d \in Nat : \A a \in Nat, b \in Nat :
                   b <= a + d /\ a <= stop /\ stop <= b /\ Reaches(s, value, stop, a, b)
                     => g[<<a, b>>] = stop}
<1>4. 0 \in K
  <2> SUFFICES ASSUME NEW a \in Nat, NEW b \in Nat, b <= a + 0, a <= stop, stop <= b
               PROVE  g[<<a, b>>] = stop
    OBVIOUS
  <2>1. a >= b /\ a = stop
    OBVIOUS
  <2> QED
    BY <1>3, <2>1
<1>5. ASSUME NEW d \in 0..hi - 1, d \in K PROVE d + 1 \in K
  <2> SUFFICES ASSUME NEW a \in Nat, NEW b \in Nat, b <= a + (d + 1), a <= stop, stop <= b,
                      Reaches(s, value, stop, a, b)
               PROVE  g[<<a, b>>] = stop
    OBVIOUS
  <2>1. CASE a >= b
    <3>1. a = stop
      BY <2>1
    <3> QED
      BY <1>3, <2>1, <3>1
  <2>2. CASE ~(a >= b)
    <3>1. PICK m : m = Middle(a, b)
      OBVIOUS
    <3>2. m \in Nat /\ a <= m /\ m < b /\ m \in a..b - 1
      <4>1. m \in Nat /\ a <= m /\ m < b
        BY <2>2, <3>1, MiddleBetween
      <4> QED
        BY <4>1
    <3>3. Decompress(s, m) < value <=> m < stop
      BY <3>2 DEF Reaches
    <3>4. CASE m < stop
      <4>1. PICK e : e = m + 1
        OBVIOUS
      <4>2. e \in Nat /\ b <= e + d /\ e <= stop
        BY <3>2, <3>4, <4>1
      <4>3. Reaches(s, value, stop, e, b)
        <5>1. e..b - 1 \subseteq a..b - 1
          BY <3>2, <4>1
        <5> QED
          BY <5>1 DEF Reaches
      <4>4. g[<<e, b>>] = stop
        BY <1>5, <4>2, <4>3
      <4>5. Decompress(s, m) < value
        BY <3>3, <3>4
      <4> QED
        BY <1>3, <2>2, <3>1, <4>1, <4>4, <4>5
    <3>5. CASE ~(m < stop)
      <4>1. m <= a + d /\ stop <= m
        BY <3>2, <3>5
      <4>2. Reaches(s, value, stop, a, m)
        <5>1. a..m - 1 \subseteq a..b - 1
          BY <3>2
        <5> QED
          BY <5>1 DEF Reaches
      <4>3. g[<<a, m>>] = stop
        BY <1>5, <3>2, <4>1, <4>2
      <4>4. ~(Decompress(s, m) < value)
        BY <3>3, <3>5
      <4> QED
        BY <1>3, <2>2, <3>1, <4>3, <4>4
    <3> QED
      BY <3>4, <3>5
  <2> QED
    BY <2>1, <2>2
<1>6. hi \in K
  <2> HIDE DEF K
  <2>1. \A d \in 0..hi : d \in K
    BY <1>4, <1>5, IntervalInduction
  <2> QED
    BY <2>1
<1>7. hi <= lo + hi
  OBVIOUS
<1>8. g[<<lo, hi>>] = stop
  BY <1>6, <1>7
<1> QED
  BY <1>2, <1>8

SampleRecursion(f, s, value) ==
  f = [r \in Nat \X Nat \X Nat \X Nat |->
        LET mid    == Middle(r[3], r[4])
            sample == mid * Density
        IN IF r[3] >= r[4] THEN <<r[1], r[2]>>
           ELSE f[IF Decompress(s, sample) < value THEN <<sample, r[2], mid + 1, r[4]>>
                  ELSE <<r[1], sample, r[3], mid>>]]

LEMMA SampleSearchExists ==
  ASSUME NEW s, NEW value
  PROVE  \E f : SampleRecursion(f, s, value)
<1> DEFINE D == Nat \X Nat \X Nat \X Nat
           S == {r \in D : r[3] >= r[4]}
           out == [r \in D |-> <<r[1], r[2]>>]
           hand(r) == IF Decompress(s, Middle(r[3], r[4]) * Density) < value
                      THEN <<Middle(r[3], r[4]) * Density, r[2], Middle(r[3], r[4]) + 1, r[4]>>
                      ELSE <<r[1], Middle(r[3], r[4]) * Density, r[3], Middle(r[3], r[4])>>
           next == [r \in D |-> hand(r)]
           measure == [r \in D |-> IF r[3] >= r[4] THEN 0 ELSE r[4] - r[3]]
<1>1. \A r \in D : r[1] \in Nat /\ r[2] \in Nat /\ r[3] \in Nat /\ r[4] \in Nat
  OBVIOUS
<1>2. \A r \in D : measure[r] \in Nat
  BY <1>1
<1>3. ASSUME NEW r \in D, r \notin S
      PROVE  next[r] \in D /\ measure[next[r]] < measure[r]
  <2>1. PICK v \in Nat, w \in Nat, a \in Nat, b \in Nat : v = r[1] /\ w = r[2] /\ a = r[3] /\ b = r[4]
    BY <1>1
  <2>2. a < b
    BY <1>3, <2>1
  <2>3. PICK m : m = Middle(a, b)
    OBVIOUS
  <2>4. m \in Nat /\ a <= m /\ m < b
    BY <2>2, <2>3, MiddleBetween
  <2>5. PICK z : z = m * Density
    OBVIOUS
  <2>6. z \in Nat
    <3>1. Density \in Nat
      BY LaVectorAssumption
    <3> QED
      BY <2>4, <2>5, <3>1
  <2>7. next[r] \in {<<z, w, m + 1, b>>, <<v, z, a, m>>}
    BY <2>1, <2>3, <2>5
  <2>8. measure[r] = b - a
    BY <2>1, <2>2
  <2>9. \A x1, x2, x, y \in Nat : /\ <<x1, x2, x, y>> \in D
                                  /\ measure[<<x1, x2, x, y>>] = IF x >= y THEN 0 ELSE y - x
    OBVIOUS
  <2>10. m + 1 \in Nat
    BY <2>4
  <2> HIDE DEF measure, next, D
  <2>11. CASE next[r] = <<z, w, m + 1, b>>
    BY <2>2, <2>4, <2>6, <2>8, <2>9, <2>10, <2>11
  <2>12. CASE next[r] = <<v, z, a, m>>
    BY <2>2, <2>4, <2>6, <2>8, <2>9, <2>12
  <2> QED
    BY <2>7, <2>11, <2>12
<1> HIDE DEF measure, next, S, D
<1>4. Descends(D, S, next, measure)
  BY <1>2, <1>3 DEF Descends
<1>5. PICK f : HandsOn(f, D, S, out, next)
  BY <1>4, HandingOnExists
<1>6. /\ f = [r \in D |-> f[r]]
      /\ \A r \in D : f[r] = IF r \in S THEN out[r] ELSE f[next[r]]
  BY <1>5 DEF HandsOn
<1>7. ASSUME NEW r \in Nat \X Nat \X Nat \X Nat
      PROVE  f[r] = LET mid    == Middle(r[3], r[4])
                        sample == mid * Density
                    IN IF r[3] >= r[4] THEN <<r[1], r[2]>>
                       ELSE f[IF Decompress(s, sample) < value THEN <<sample, r[2], mid + 1, r[4]>>
                              ELSE <<r[1], sample, r[3], mid>>]
  <2>1. r \in S <=> r[3] >= r[4]
    BY DEF S, D
  <2>2. out[r] = <<r[1], r[2]>> /\ next[r] = hand(r)
    BY DEF D, next
  <2>3. f[r] = IF r[3] >= r[4] THEN out[r] ELSE f[next[r]]
    BY <1>6, <2>1 DEF D
  <2> HIDE DEF out
  <2> QED
    BY <2>2, <2>3
<1>8. SampleRecursion(f, s, value)
  BY <1>6, <1>7 DEF SampleRecursion, D
<1> QED
  BY <1>8

\* A part of lo..hi that has position stop, or ends there.
Narrowed(r, lo, hi, stop) ==
  \E a, b \in Nat : r = <<a, b>> /\ lo <= a /\ a <= stop /\ stop <= b /\ b <= hi

SamplesInside(a, b, lo, hi) == \A x \in a..b - 1 : x * Density \in lo..hi - 1

\* The search on the samples leaves a part that still reaches the value there.
LEMMA SampleSearchNarrows ==
  ASSUME NEW s, NEW value, NEW lo \in Nat, NEW hi \in Nat \ {0}, NEW stop \in Nat,
         lo <= stop, stop <= hi, Reaches(s, value, stop, lo, hi), Wrapped(hi - 1) = hi - 1
  PROVE  Narrowed(SampleSearch(s, value, lo, hi), lo, hi, stop)
<1> DEFINE from == CeilDiv(lo, Density)
           to == (hi - 1) \div Density + 1
<1>1. PICK g : /\ SampleRecursion(g, s, value)
               /\ SampleSearch(s, value, lo, hi) = g[<<lo, hi, from, to>>]
  <2> DEFINE g == CHOOSE f : SampleRecursion(f, s, value)
  <2>1. SampleRecursion(g, s, value)
    BY SampleSearchExists
  <2>2. SampleSearch(s, value, lo, hi) = g[<<lo, hi, from, to>>]
    BY DEF SampleSearch, SampleRecursion
  <2> HIDE DEF g
  <2> QED
    BY <2>1, <2>2
<1>2. Density \in Nat \ {0}
  BY LaVectorAssumption
<1> DEFINE K == {d \in Nat : \A v \in Nat, w \in Nat, a \in Nat, b \in Nat :
                   /\ b <= a + d /\ lo <= v /\ v <= stop /\ stop <= w /\ w <= hi
                   /\ SamplesInside(a, b, lo, hi)
                   => Narrowed(g[<<v, w, a, b>>], lo, hi, stop)}
<1>3. 0 \in K
  <2> SUFFICES ASSUME NEW v \in Nat, NEW w \in Nat, NEW a \in Nat, NEW b \in Nat,
                      b <= a + 0, lo <= v, v <= stop, stop <= w, w <= hi
               PROVE  Narrowed(g[<<v, w, a, b>>], lo, hi, stop)
    OBVIOUS
  <2>1. a >= b
    OBVIOUS
  <2>2. g[<<v, w, a, b>>] = <<v, w>>
    <3>1. <<v, w, a, b>> \in Nat \X Nat \X Nat \X Nat
      OBVIOUS
    <3> QED
      BY <1>1, <2>1, <3>1 DEF SampleRecursion
  <2>3. Narrowed(<<v, w>>, lo, hi, stop)
    BY DEF Narrowed
  <2> QED
    BY <2>2, <2>3
<1>4. ASSUME NEW d \in 0..to - 1, d \in K PROVE d + 1 \in K
  <2> SUFFICES ASSUME NEW v \in Nat, NEW w \in Nat, NEW a \in Nat, NEW b \in Nat,
                      b <= a + (d + 1), lo <= v, v <= stop, stop <= w, w <= hi, SamplesInside(a, b, lo, hi)
               PROVE  Narrowed(g[<<v, w, a, b>>], lo, hi, stop)
    BY <1>4
  <2>1. CASE a >= b
    <3>1. g[<<v, w, a, b>>] = <<v, w>>
      <4>1. <<v, w, a, b>> \in Nat \X Nat \X Nat \X Nat
        OBVIOUS
      <4> QED
        BY <1>1, <2>1, <4>1 DEF SampleRecursion
    <3>2. Narrowed(<<v, w>>, lo, hi, stop)
      BY DEF Narrowed
    <3> QED
      BY <3>1, <3>2
  <2>2. CASE ~(a >= b)
    <3>1. PICK m : m = Middle(a, b)
      OBVIOUS
    <3>2. m \in Nat /\ a <= m /\ m < b /\ m \in a..b - 1
      <4>1. m \in Nat /\ a <= m /\ m < b
        BY <2>2, <3>1, MiddleBetween
      <4> QED
        BY <4>1
    <3>3. PICK z : z = m * Density
      OBVIOUS
    <3>4. /\ Decompress(s, z) < value => g[<<v, w, a, b>>] = g[<<z, w, m + 1, b>>]
          /\ ~(Decompress(s, z) < value) => g[<<v, w, a, b>>] = g[<<v, z, a, m>>]
      <4>1. <<v, w, a, b>> \in Nat \X Nat \X Nat \X Nat
        OBVIOUS
      <4>2. g[<<v, w, a, b>>] = IF a >= b THEN <<v, w>>
               ELSE g[IF Decompress(s, Middle(a, b) * Density) < value
                      THEN <<Middle(a, b) * Density, w, Middle(a, b) + 1, b>>
                      ELSE <<v, Middle(a, b) * Density, a, Middle(a, b)>>]
        BY <1>1, <4>1 DEF SampleRecursion
      <4> QED
        BY <2>2, <3>1, <3>3, <4>2, Zenon
    <3>5. z \in lo..hi - 1
      BY <3>2, <3>3 DEF SamplesInside
    <3>6. z \in Nat /\ lo <= z /\ z < hi /\ (Decompress(s, z) < value <=> z < stop)
      BY <3>5 DEF Reaches
    <3>7. CASE z < stop
      <4>1. PICK e : e = m + 1
        OBVIOUS
      <4>2. e \in Nat /\ b <= e + d /\ z <= stop
        BY <3>2, <3>6, <3>7, <4>1
      <4>3. SamplesInside(e, b, lo, hi)
        <5>1. e..b - 1 \subseteq a..b - 1
          BY <3>2, <4>1
        <5> QED
          BY <5>1 DEF SamplesInside
      <4>4. Narrowed(g[<<z, w, e, b>>], lo, hi, stop)
        BY <1>4, <3>6, <4>2, <4>3
      <4>5. Decompress(s, z) < value
        BY <3>6, <3>7
      <4>6. g[<<v, w, a, b>>] = g[<<z, w, e, b>>]
        BY <3>4, <4>1, <4>5
      <4> QED
        BY <4>4, <4>6
    <3>8. CASE ~(z < stop)
      <4>1. m <= a + d /\ stop <= z /\ z <= hi
        BY <3>2, <3>6, <3>8
      <4>2. SamplesInside(a, m, lo, hi)
        <5>1. a..m - 1 \subseteq a..b - 1
          BY <3>2
        <5> QED
          BY <5>1 DEF SamplesInside
      <4>3. Narrowed(g[<<v, z, a, m>>], lo, hi, stop)
        BY <1>4, <3>2, <3>6, <4>1, <4>2
      <4>4. ~(Decompress(s, z) < value)
        BY <3>6, <3>8
      <4>5. g[<<v, w, a, b>>] = g[<<v, z, a, m>>]
        BY <3>4, <4>4
      <4> QED
        BY <4>3, <4>5
    <3> QED
      BY <3>7, <3>8
  <2> QED
    BY <2>1, <2>2
<1>5. from \in Nat /\ to \in Nat /\ SamplesInside(from, to, lo, hi)
  <2>1. PICK q : q = (hi - 1) \div Density
    OBVIOUS
  <2>2. hi - 1 \in Nat
    OBVIOUS
  <2>3. q \in Nat /\ q * Density <= hi - 1 /\ q * Density \in Nat
    <3> PICK v : v = hi - 1
      OBVIOUS
    <3>1. v \in Nat /\ q = v \div Density
      BY <2>1, <2>2
    <3>2. q \in Nat /\ q * Density <= v /\ q * Density \in Nat
      BY <1>2, <3>1, BucketOf
    <3> QED
      BY <3>2
  <2>4. from \in Nat /\ lo <= Density * from
    <3>1. CASE lo = 0
      <4>1. Density - 1 \in Nat /\ CeilDiv(0, Density) = (Density - 1) \div Density
        BY <1>2 DEF CeilDiv
      <4>2. CeilDiv(0, Density) \in Nat
        BY <1>2, <4>1, Division
      <4>3. Density * CeilDiv(0, Density) \in Nat
        BY <1>2, <4>2
      <4> QED
        BY <3>1, <4>2, <4>3
    <3>2. CASE lo # 0
      BY <1>2, <3>2, StepCovers
    <3> QED
      BY <3>1, <3>2
  <2> HIDE DEF from
  <2>5. to = q + 1
    BY <2>1
  <2>6. ASSUME NEW x \in from..to - 1 PROVE x * Density \in lo..hi - 1
    <3>1. x \in Nat /\ from <= x /\ x <= q
      BY <2>3, <2>4, <2>5
    <3>2. Density * from <= Density * x /\ Density * x <= Density * q
      BY <1>2, <2>3, <2>4, <3>1, ProductMonotonic
    <3>3. x * Density = Density * x /\ q * Density = Density * q /\ x * Density \in Nat
          /\ Density * from \in Nat
      BY <1>2, <2>3, <2>4, <3>1
    <3> QED
      BY <2>2, <2>3, <2>4, <3>2, <3>3
  <2> QED
    BY <2>3, <2>4, <2>5, <2>6 DEF SamplesInside
<1>6. to \in K
  <2> HIDE DEF K, from, to
  <2>1. \A d \in 0..to : d \in K
    BY <1>3, <1>4, <1>5, IntervalInduction
  <2> QED
    BY <1>5, <2>1
<1> HIDE DEF from, to
<1>7. to <= from + to
  BY <1>5
<1>8. Narrowed(g[<<lo, hi, from, to>>], lo, hi, stop)
  <2>1. hi \in Nat /\ lo <= lo /\ hi <= hi
    OBVIOUS
  <2> QED
    BY <1>5, <1>6, <1>7, <2>1
<1> QED
  BY <1>1, <1>8 DEF from, to

-----------------------------------------------------------------------------
(* approximate_position                                                    *)

\* The quotient of the guess falls short of the truth by less than one.
LEMMA TruncatedBounds ==
  ASSUME NEW a \in Int, NEW d \in Nat \ {0}, NEW q, q = TruncatedDiv(a, d)
  PROVE  /\ q \in Int /\ a < d * q + d
         /\ a >= 0 => q \in Nat /\ d * q <= a
         /\ a < 0 => q <= 0
<1>1. CASE a >= 0
  <2>1. a \in Nat /\ q = a \div d
    BY <1>1 DEF TruncatedDiv
  <2>2. a \div d \in Nat /\ a % d \in 0..d - 1 /\ a = d * (a \div d) + (a % d)
    BY <2>1, Division
  <2>3. PICK r \in 0..d - 1 : r = a % d
    BY <2>2
  <2>4. q \in Nat /\ a = d * q + r /\ d * q \in Nat
    BY <2>1, <2>2, <2>3
  <2> QED
    BY <1>1, <2>3, <2>4
<1>2. CASE a < 0
  <2>1. PICK b : b = -a
    OBVIOUS
  <2>2. b \in Nat /\ a = -b
    BY <1>2, <2>1
  <2>3. PICK p : p = b \div d
    OBVIOUS
  <2>4. q = -p
    BY <1>2, <2>1, <2>3 DEF TruncatedDiv
  <2>5. p \in Nat /\ d * p <= b /\ d * p \in Nat
    <3>1. b \div d \in Nat /\ b % d \in 0..d - 1 /\ b = d * (b \div d) + (b % d)
      BY <2>2, Division
    <3>2. PICK r \in 0..d - 1 : r = b % d
      BY <3>1
    <3>3. p \in Nat /\ b = d * p + r
      BY <2>3, <3>1, <3>2
    <3>4. d * p \in Nat
      BY <3>3
    <3> QED
      BY <3>2, <3>3, <3>4
  <2>6. d * q = -(d * p)
    BY <2>4, <2>5
  <2> QED
    BY <1>2, <2>2, <2>4, <2>5, <2>6
<1> QED
  BY <1>1, <1>2

\* A line with a slope S / E of at least 1, whose value j positions on is a, that is
\* above v - eps - 2: the guess for v is not more than the bound too far on.
LEMMA GuessNotTooHigh ==
  ASSUME NEW E \in Nat \ {0}, NEW S \in Nat, E <= S, NEW eps \in Nat, NEW b \in Nat,
         E * eps < S * b + S,
         NEW v \in Int, NEW q \in Nat, S * q <= v * E,
         NEW j \in Nat, NEW a \in Nat, E * a <= S * j, v <= a + eps + 1
  PROVE  q <= j + b + 1
<1>1. E * v <= E * (a + eps + 1)
  BY ProductMonotonic
<1>2. E * (a + eps + 1) = E * a + E * eps + E /\ v * E = E * v
  OBVIOUS
<1>3. /\ E * a \in Nat /\ E * eps \in Nat /\ S * j \in Nat /\ S * q \in Nat /\ S * b \in Nat
      /\ E * v \in Int
  OBVIOUS
<1>4. S * q < S * j + S * b + S + S
  BY <1>1, <1>2, <1>3
<1>5. S * (j + b + 2) = S * j + S * b + S + S
  OBVIOUS
<1> SUFFICES ASSUME j + b + 2 <= q PROVE FALSE
  OBVIOUS
<1>6. S * (j + b + 2) <= S * q
  BY ProductMonotonic
<1> QED
  BY <1>3, <1>4, <1>5, <1>6

LEMMA GuessNotTooLow ==
  ASSUME NEW E \in Nat \ {0}, NEW S \in Nat, E <= S, NEW eps \in Nat, NEW b \in Nat,
         E * eps < S * b + S,
         NEW v \in Int, NEW q \in Int, v * E < S * q + S,
         NEW j \in Nat, NEW a \in Nat, S * j < E * a + E, v >= a - eps + 1
  PROVE  j <= q + b + 1
<1>1. E * (a - eps + 1) <= E * v
  BY ProductMonotonic
<1>2. E * (a - eps + 1) = E * a - E * eps + E /\ v * E = E * v
  OBVIOUS
<1>3. /\ E * a \in Nat /\ E * eps \in Nat /\ S * j \in Nat /\ S * q \in Int /\ S * b \in Nat
      /\ E * v \in Int
  OBVIOUS
<1>4. S * j < S * q + S + S * b + S
  BY <1>1, <1>2, <1>3
<1>5. S * (q + b + 2) = S * q + S * b + S + S
  OBVIOUS
<1> SUFFICES ASSUME q + b + 2 <= j PROVE FALSE
  OBVIOUS
<1>6. S * (q + b + 2) <= S * j
  BY ProductMonotonic
<1> QED
  BY <1>3, <1>4, <1>5, <1>6

LEMMA PairExtrema ==
  ASSUME NEW x \in Int, NEW y \in Int
  PROVE  /\ Max({x, y}) = IF x >= y THEN x ELSE y
         /\ Min({x, y}) = IF x <= y THEN x ELSE y
<1>1. Max({x, y}) = IF x >= y THEN x ELSE y
  BY DEF Max
<1>2. Min({x, y}) = IF x <= y THEN x ELSE y
  BY DEF Min
<1> QED
  BY <1>1, <1>2

\* The keys leave room for the key of the sentinel, and for the guesses around a
\* position, below the greatest number of their type.
RoomAbove == \A keys \in Datasets : keys[Len(keys)] + Eps + 2 < 2 ^ KeyBits

LEMMA RoomForGuesses ==
  ASSUME ~AutoBpc, Finished, RoomAbove
  PROVE  /\ BackKey \in Nat /\ BackKey + Eps + 2 < 2 ^ KeyBits /\ n + Eps + 1 < 2 ^ KeyBits
         /\ \A i \in 0..n - 1 : Key(i) \in Nat /\ i <= Key(i) /\ Key(i) <= BackKey
         /\ \A i, j \in 0..n - 1 : i < j => Key(i) < Key(j)
<1> DEFINE B == 2 ^ KeyBits
<1>1. /\ data \in Datasets /\ n \in Nat \ {0} /\ StrictKeys(data) /\ DOMAIN data = 1..n
      /\ \A k \in 0..n - 1 : Key(k) \in Nat
  BY DataTyped DEF Finished
<1>2. B \in Nat /\ Eps \in Nat
  BY WordPowers, EpsilonNatural
<1>3. BackKey = Key(n - 1) /\ n - 1 \in 0..n - 1
  BY <1>1 DEF BackKey, Key
<1>4. BackKey \in Nat /\ BackKey + Eps + 2 < B
  BY <1>1, <1>3 DEF RoomAbove, BackKey, n
<1>5. ASSUME NEW i \in 0..n - 1, NEW j \in 0..n - 1, i <= j
      PROVE  Key(j) - Key(i) >= j - i
  <2>1. PICK N \in Nat : N = n
    BY <1>1
  <2>2. i + 1 \in 1..N /\ j + 1 \in (i + 1)..N
    BY <1>5, <2>1
  <2>3. data[j + 1] - data[i + 1] >= (j + 1) - (i + 1)
    BY <1>1, <2>1, <2>2, KeysSpread DEF n
  <2>4. (j + 1) - (i + 1) = j - i
    BY <2>1
  <2> QED
    BY <2>3, <2>4 DEF Key
<1>6. ASSUME NEW i \in 0..n - 1
      PROVE  Key(i) \in Nat /\ i <= Key(i) /\ Key(i) <= BackKey
  <2>1. Key(i) \in Nat /\ Key(0) \in Nat /\ Key(n - 1) \in Nat /\ 0 \in 0..n - 1 /\ 0 <= i /\ i <= n - 1
    BY <1>1
  <2>2. Key(i) - Key(0) >= i - 0 /\ Key(n - 1) - Key(i) >= (n - 1) - i
    BY <1>3, <1>5, <2>1
  <2>3. PICK N \in Nat, k0 \in Nat, ki \in Nat, kn \in Nat :
          N = n /\ k0 = Key(0) /\ ki = Key(i) /\ kn = Key(n - 1)
    BY <1>1, <2>1
  <2>4. ki - k0 >= i - 0 /\ kn - ki >= (N - 1) - i /\ i \in 0..N - 1
    BY <2>2, <2>3
  <2>5. i <= ki /\ ki <= kn
    BY <2>3, <2>4
  <2> QED
    BY <1>3, <2>3, <2>5
<1>7. n + Eps + 1 < B
  <2>1. n - 1 <= BackKey
    BY <1>3, <1>6
  <2>2. PICK N \in Nat, k \in Nat : N = n /\ k = BackKey
    BY <1>1, <1>4
  <2> QED
    BY <1>2, <1>4, <2>1, <2>2
<1>8. ASSUME NEW i \in 0..n - 1, NEW j \in 0..n - 1, i < j
      PROVE  Key(i) < Key(j)
  <2>1. i \in Nat /\ j \in Nat
    BY <1>1
  <2>2. Key(j) - Key(i) >= j - i
    BY <1>5, <1>8, <2>1
  <2>3. Key(i) \in Nat /\ Key(j) \in Nat
    BY <1>1
  <2> QED
    BY <1>8, <2>1, <2>2, <2>3
<1> QED
  BY <1>4, <1>6, <1>7, <1>8

\* The line of a segment passes its keys at most as far off as they can be corrected.
LEMMA LineNearKeys ==
  ASSUME ~AutoBpc, Finished, NEW s \in RealSegments,
         NEW i \in Segment(s).first..Segment(s + 1).first - 1,
         NEW g, g = Segment(s), NEW a, a = (g.significand * (i - g.first)) \div 2 ^ g.exponent
  PROVE  /\ a \in Nat
         /\ 2 ^ g.exponent * a <= g.significand * (i - g.first)
         /\ g.significand * (i - g.first) < 2 ^ g.exponent * a + 2 ^ g.exponent
         /\ Key(i) <= g.intercept + a + Eps + 1 /\ Key(i) >= g.intercept + a - Eps
<1>1. /\ GoodSegment(bits, g, Segment(s + 1).first) /\ data \in Datasets
  BY DEF Finished
<1>2. /\ g.first \in Nat /\ g.significand \in Nat /\ g.intercept \in Int
      /\ 2 ^ g.exponent \in Nat \ {0} /\ Segment(s + 1).first \in Nat /\ Segment(s + 1).first <= n
      /\ n \in Nat
  BY <1>1, PiecesTyped, DataTyped DEF GoodSegment
<1>3. PICK E \in Nat \ {0}, d \in Nat, T \in Int, sig \in Nat :
        E = 2 ^ g.exponent /\ d = i - g.first /\ T = g.intercept /\ sig = g.significand
  <2>1. i \in g.first..Segment(s + 1).first - 1
    OBVIOUS
  <2>2. i - g.first \in Nat
    BY <1>2, <2>1
  <2> QED
    BY <1>2, <2>2
<1>4. sig * d \in Nat
  OBVIOUS
<1>5. PICK x \in Nat : x = sig * d
  BY <1>4
<1>6. a = x \div E
  BY <1>3, <1>5
<1>7. x \div E \in Nat /\ x % E \in 0..E - 1 /\ x = E * (x \div E) + (x % E)
  BY Division
<1>8. PICK r \in 0..E - 1 : r = x % E
  BY <1>7
<1>9. a \in Nat /\ x = E * a + r
  BY <1>6, <1>7, <1>8
<1>10. E * a \in Nat
  BY <1>9
<1>11. E * a <= x /\ x < E * a + E
  BY <1>8, <1>9, <1>10
<1>12. Approximate(g, i) = a + T
  BY <1>3, <1>5, <1>6 DEF Approximate
<1>13. i \in g.first..Segment(s + 1).first - 1 /\ i \in 0..n - 1
  BY <1>2
<1>14. Key(i) - (a + T) + Eps \in 0..2 ^ TBpc - 1
  BY <1>1, <1>12, <1>13 DEF GoodSegment, Encoded, Needed
<1>15. 2 ^ TBpc = 2 * Eps + 2 /\ Eps \in Nat /\ Key(i) \in Nat
  BY <1>1, <1>13, EpsilonNatural, DataTyped
<1>16. Key(i) <= T + a + Eps + 1 /\ Key(i) >= T + a - Eps
  <2>1. PICK k \in Nat, e \in Nat : k = Key(i) /\ e = Eps
    BY <1>15
  <2>2. k - (a + T) + e \in 0..(2 * e + 2) - 1
    BY <1>14, <1>15, <2>1
  <2>3. k <= T + a + e + 1 /\ k >= T + a - e
    BY <1>9, <2>2
  <2> QED
    BY <2>1, <2>3
<1> QED
  BY <1>3, <1>5, <1>9, <1>11, <1>16

\* The numbers that the guess for a value in segment g is made of: E / S is the
\* inverse of the slope, q the truncated distance from the first position, and b + 1
\* the bound.
GuessParts(g, value, E, S, q, b) ==
  /\ E = 2 ^ g.exponent /\ S = (IF g.significand = 0 THEN 1 ELSE g.significand)
  /\ q = TruncatedDiv((value - g.intercept) * E, S)
  /\ b = (Eps * E) \div S

LEMMA GuessTyped ==
  ASSUME ~AutoBpc, Finished, NEW s \in RealSegments, NEW value \in Nat,
         NEW g, g = Segment(s), NEW E, NEW S, NEW q, NEW b, GuessParts(g, value, E, S, q, b)
  PROVE  /\ E \in Nat \ {0} /\ S \in Nat \ {0} /\ E <= S /\ b \in Nat /\ b <= Eps
         /\ Eps * E < S * b + S
         /\ q \in Int /\ (value - g.intercept) * E < S * q + S
         /\ value - g.intercept >= 0 =>
              q \in Nat /\ S * q <= (value - g.intercept) * E /\ q <= value - g.intercept
         /\ value - g.intercept < 0 => q <= 0
         /\ g.intercept \in Int
         /\ Segment(s + 1).first > g.first + 1 => S = g.significand
<1>1. /\ GoodSegment(bits, g, Segment(s + 1).first) /\ data \in Datasets
  BY DEF Finished
<1>2. /\ g.first \in Nat /\ g.significand \in Nat /\ g.intercept \in Int
      /\ 2 ^ g.exponent \in Nat \ {0} /\ Segment(s + 1).first \in Nat
  BY <1>1, PiecesTyped DEF GoodSegment
<1>3. /\ \/ g.significand >= 2 ^ g.exponent
         \/ g.significand = 0 /\ g.exponent = 0 /\ Segment(s + 1).first <= g.first + 1
  BY <1>1 DEF GoodSegment
<1>4. E \in Nat \ {0} /\ S \in Nat \ {0} /\ E <= S
  <2>1. E \in Nat \ {0} /\ E = 2 ^ g.exponent
    BY <1>2 DEF GuessParts
  <2>2. CASE g.significand = 0
    <3>1. g.exponent = 0
      BY <1>2, <1>3, <2>2
    <3>2. 2 ^ 0 = 1
      OBVIOUS
    <3>3. E = 1 /\ S = 1
      BY <2>1, <2>2, <3>1, <3>2 DEF GuessParts
    <3> QED
      BY <3>3
  <2>3. CASE g.significand # 0
    <3>1. S = g.significand /\ S \in Nat \ {0}
      BY <1>2, <2>3 DEF GuessParts
    <3> QED
      BY <1>3, <2>1, <2>3, <3>1
  <2> QED
    BY <2>2, <2>3
<1>5. Segment(s + 1).first > g.first + 1 => S = g.significand
  <2> SUFFICES ASSUME Segment(s + 1).first > g.first + 1 PROVE S = g.significand
    OBVIOUS
  <2>1. ~(Segment(s + 1).first <= g.first + 1)
    BY <1>2
  <2>2. g.significand # 0
    BY <1>2, <1>3, <2>1
  <2> QED
    BY <2>2 DEF GuessParts
<1>6. PICK v \in Int : v = value - g.intercept
  BY <1>2
<1>7. PICK eps \in Nat : eps = Eps
  BY EpsilonNatural
<1>8. b \in Nat /\ b <= eps /\ eps * E < S * b + S
  <2>1. eps * E \in Nat
    BY <1>4
  <2>2. PICK x \in Nat : x = eps * E
    BY <2>1
  <2>3. b = x \div S
    BY <1>7, <2>2 DEF GuessParts
  <2>4. x \div S \in Nat /\ x % S \in 0..S - 1 /\ x = S * (x \div S) + (x % S)
    BY <1>4, Division
  <2>5. PICK r \in 0..S - 1 : r = x % S
    BY <2>4
  <2>6. b \in Nat /\ x = S * b + r
    BY <2>3, <2>4, <2>5
  <2>7. S * b \in Nat
    BY <1>4, <2>6
  <2>8. x < S * b + S /\ S * b <= x
    BY <1>4, <2>5, <2>6, <2>7
  <2>9. b <= eps
    <3> SUFFICES ASSUME eps + 1 <= b PROVE FALSE
      BY <2>6
    <3>1. S * (eps + 1) <= S * b
      BY <1>4, <2>6, ProductMonotonic
    <3>2. eps * E <= eps * S
      BY <1>4, ProductMonotonic
    <3>3. S * (eps + 1) = eps * S + S /\ eps * S \in Nat
      BY <1>4
    <3> QED
      BY <1>4, <2>2, <2>7, <2>8, <3>1, <3>2, <3>3
  <2> QED
    BY <2>2, <2>6, <2>8, <2>9
<1>9. v * E \in Int
  BY <1>4
<1>10. PICK y \in Int : y = v * E
  BY <1>9
<1>11. q = TruncatedDiv(y, S)
  BY <1>6, <1>10 DEF GuessParts
<1>12. /\ q \in Int /\ y < S * q + S
       /\ y >= 0 => q \in Nat /\ S * q <= y
       /\ y < 0 => q <= 0
  BY <1>4, <1>11, TruncatedBounds
<1>13. v >= 0 => q \in Nat /\ S * q <= y /\ q <= v
  <2> SUFFICES ASSUME v >= 0 PROVE q \in Nat /\ S * q <= y /\ q <= v
    OBVIOUS
  <2>1. y >= 0
    BY <1>4, <1>10
  <2>2. q \in Nat /\ S * q <= y
    BY <1>12, <2>1
  <2>3. q <= v
    <3> SUFFICES ASSUME v + 1 <= q PROVE FALSE
      BY <2>2
    <3>1. S * (v + 1) <= S * q
      BY <1>4, <2>2, ProductMonotonic
    <3>2. v * E <= v * S
      BY <1>4, ProductMonotonic
    <3>3. S * (v + 1) = v * S + S /\ v * S \in Int /\ S * q \in Nat
      BY <1>4, <2>2
    <3> QED
      BY <1>4, <1>10, <2>2, <3>1, <3>2, <3>3
  <2> QED
    BY <2>2, <2>3
<1>14. v < 0 => q <= 0
  <2> SUFFICES ASSUME v < 0 PROVE q <= 0
    OBVIOUS
  <2>1. y < 0
    BY <1>4, <1>10
  <2> QED
    BY <1>12, <2>1
<1> QED
  BY <1>2, <1>4, <1>5, <1>6, <1>7, <1>8, <1>10, <1>12, <1>13, <1>14

\* The guess does not wrap around.
LEMMA GuessUnwrapped ==
  ASSUME ~AutoBpc, Finished, RoomAbove, NEW s \in RealSegments,
         NEW value \in Nat, value <= BackKey,
         NEW g, g = Segment(s), NEW E, NEW S, NEW q, NEW b, GuessParts(g, value, E, S, q, b)
  PROVE  ApproximatePosition(g, value) =
           [pos |-> IF q + g.first >= 0 THEN q + g.first ELSE 0, bound |-> 1 + b]
<1> DEFINE B == 2 ^ KeyBits
<1>0. PICK F : F = g.first
  OBVIOUS
<1>1. /\ GoodSegment(bits, g, Segment(s + 1).first) /\ F \in Nat
      /\ Segment(s + 1).first \in Nat /\ F < Segment(s + 1).first /\ Segment(s + 1).first <= n
      /\ n \in Nat /\ g.bpc = TBpc
  <2>1. GoodSegment(bits, g, Segment(s + 1).first) /\ g.first < Segment(s + 1).first
    BY DEF Finished
  <2>2. n \in Nat
    BY DEF Finished
  <2> QED
    BY <1>0, <2>1, <2>2, PiecesTyped DEF GoodSegment
<1>2. /\ q \in Int /\ b \in Nat /\ b <= Eps /\ g.intercept \in Int /\ Eps \in Nat
      /\ value - g.intercept >= 0 => q <= value - g.intercept
      /\ value - g.intercept < 0 => q <= 0
  BY GuessTyped, EpsilonNatural
<1>3. /\ BackKey \in Nat /\ BackKey + Eps + 2 < B /\ n + Eps + 1 < B
      /\ Key(F) \in Nat /\ F <= Key(F) /\ F < n /\ B \in Nat
  <2>1. F \in 0..n - 1
    BY <1>1
  <2>2. BackKey \in Nat /\ BackKey + Eps + 2 < B /\ n + Eps + 1 < B
    BY RoomForGuesses
  <2>3. Key(F) \in Nat /\ F <= Key(F)
    BY <2>1, RoomForGuesses
  <2>4. F < n /\ B \in Nat
    BY <1>1, WordPowers
  <2> QED
    BY <2>2, <2>3, <2>4
<1>4. Key(F) <= g.intercept + 0 + Eps + 1
  <2>1. F \in Segment(s).first..Segment(s + 1).first - 1
    BY <1>0, <1>1
  <2>2. g.significand * (F - g.first) = 0 /\ 0 \div 2 ^ g.exponent = 0
    <3>1. g.significand \in Nat /\ 2 ^ g.exponent \in Nat \ {0}
      BY <1>1, PiecesTyped DEF GoodSegment
    <3>2. F - g.first = 0
      BY <1>0, <1>1
    <3>3. PICK x \in Nat \ {0} : x = 2 ^ g.exponent
      BY <3>1
    <3>4. 0 \div x = 0
      BY Z3
    <3> QED
      BY <3>1, <3>2, <3>3, <3>4
  <2>3. 0 = (g.significand * (F - g.first)) \div 2 ^ g.exponent
    BY <2>2
  <2> QED
    BY <2>1, <2>3, LineNearKeys
<1>5. q + F < B
  <2>1. PICK T \in Int, k \in Nat, e \in Nat, top \in Nat, N \in Nat, C \in Nat :
          T = g.intercept /\ k = Key(F) /\ e = Eps /\ top = BackKey /\ N = n /\ C = B
    BY <1>1, <1>2, <1>3
  <2>2. /\ top + e + 2 < C /\ N + e + 1 < C /\ F < N /\ F <= k /\ k <= T + e + 1 /\ value <= top
        /\ (value - T >= 0 => q <= value - T) /\ (value - T < 0 => q <= 0)
    BY <1>2, <1>3, <1>4, <2>1
  <2>3. q + F < C
    BY <1>1, <1>2, <2>2
  <2> QED
    BY <2>1, <2>3
<1>6. PICK p \in Int : p = q + F
  BY <1>1, <1>2
<1>7. Max({0, p}) = IF p >= 0 THEN p ELSE 0
  BY PairExtrema
<1>8. (IF p >= 0 THEN p ELSE 0) \in 0..B - 1 /\ 1 + b \in 0..B - 1
  BY <1>1, <1>2, <1>3, <1>5, <1>6
<1>9. Wrapped(Max({0, p})) = (IF p >= 0 THEN p ELSE 0) /\ Wrapped(1 + b) = 1 + b
  BY <1>7, <1>8, WrappedKey
<1>10. ApproximatePosition(g, value) = [pos |-> Wrapped(Max({0, p})), bound |-> Wrapped(1 + b)]
  BY <1>0, <1>1, <1>6 DEF ApproximatePosition, GuessParts, Eps
<1> QED
  BY <1>0, <1>6, <1>9, <1>10

\* The interval around the guess has the position where the keys reach the value.
LEMMA ReachHasStop ==
  ASSUME ~AutoBpc, Finished, RoomAbove, NEW s \in RealSegments,
         NEW value \in Nat, value <= BackKey,
         NEW stop \in Segment(s).first..Segment(s + 1).first,
         \A p \in Segment(s).first..Segment(s + 1).first - 1 : Key(p) < value <=> p < stop
  PROVE  \E lo \in Nat, hi \in Nat \ {0} :
           /\ Reach(Segment(s), Segment(s + 1).first, value).lo = lo
           /\ Reach(Segment(s), Segment(s + 1).first, value).hi = hi
           /\ Segment(s).first <= lo /\ lo <= stop /\ stop <= hi /\ hi <= Segment(s + 1).first
           /\ Wrapped(hi - 1) = hi - 1
<1> DEFINE B == 2 ^ KeyBits
<1>1. PICK g, F, L : g = Segment(s) /\ F = g.first /\ L = Segment(s + 1).first
  OBVIOUS
<1>2. F \in Nat /\ L \in Nat /\ F < L /\ L <= n /\ n \in Nat
  <2>1. GoodSegment(bits, g, L) /\ F < L
    BY <1>1 DEF Finished
  <2>2. n \in Nat
    BY DEF Finished
  <2> QED
    BY <1>1, <2>1, <2>2, PiecesTyped DEF GoodSegment
<1>3. PICK E, S, q, b : GuessParts(g, value, E, S, q, b)
  BY DEF GuessParts
<1>4. /\ E \in Nat \ {0} /\ S \in Nat \ {0} /\ E <= S /\ b \in Nat /\ b <= Eps
      /\ Eps * E < S * b + S
      /\ q \in Int /\ (value - g.intercept) * E < S * q + S
      /\ value - g.intercept >= 0 =>
           q \in Nat /\ S * q <= (value - g.intercept) * E /\ q <= value - g.intercept
      /\ value - g.intercept < 0 => q <= 0
      /\ g.intercept \in Int /\ Eps \in Nat
      /\ L > F + 1 => S = g.significand
  BY <1>1, <1>3, GuessTyped, EpsilonNatural
<1>5. n + Eps + 1 < B /\ B \in Nat
  BY RoomForGuesses, WordPowers
<1>6. PICK e \in Nat, T \in Int, N \in Nat, C \in Nat : e = Eps /\ T = g.intercept /\ N = n /\ C = B
  BY <1>2, <1>4, <1>5
<1>7. b <= e /\ N + e + 1 < C /\ L <= N
  BY <1>2, <1>4, <1>5, <1>6
<1>8. PICK guess \in Nat : guess = IF q + F >= 0 THEN q + F ELSE 0
  BY <1>2, <1>4
<1>9. ApproximatePosition(g, value) = [pos |-> guess, bound |-> 1 + b]
  BY <1>1, <1>3, <1>8, GuessUnwrapped
<1>10. PICK pos \in Int : pos = Min({Max({guess, F}), L - 1})
  <2>1. PICK x \in Int : x = Max({guess, F})
    <3>1. Max({guess, F}) = IF guess >= F THEN guess ELSE F
      BY <1>2, PairExtrema
    <3> QED
      BY <1>2, <3>1
  <2>2. PICK y \in Int : y = L - 1
    BY <1>2
  <2>3. Min({x, y}) = IF x <= y THEN x ELSE y
    BY PairExtrema
  <2> QED
    BY <2>1, <2>2, <2>3
<1>11. /\ pos \in Nat /\ F <= pos /\ pos <= L - 1
       /\ guess <= F => pos = F
       /\ F < guess /\ guess <= L - 1 => pos = guess
       /\ guess > L - 1 => pos = L - 1
  <2>1. PICK x \in Int : x = Max({guess, F})
    <3>1. Max({guess, F}) = IF guess >= F THEN guess ELSE F
      BY <1>2, PairExtrema
    <3> QED
      BY <1>2, <3>1
  <2>2. x = IF guess >= F THEN guess ELSE F
    BY <1>2, <2>1, PairExtrema
  <2>3. PICK y \in Int : y = L - 1
    BY <1>2
  <2>4. Min({x, y}) = IF x <= y THEN x ELSE y
    BY PairExtrema
  <2>5. pos = IF x <= L - 1 THEN x ELSE L - 1
    BY <1>10, <2>1, <2>3, <2>4
  <2> QED
    BY <1>2, <2>2, <2>5
<1>12. stop \in Nat /\ F <= stop /\ stop <= L
  <2>1. stop \in F..L
    BY <1>1
  <2> QED
    BY <1>2, <2>1
<1>13. ASSUME pos > F + (1 + b) PROVE pos - (1 + b) <= stop
  <2>1. guess > F /\ pos <= guess /\ guess = q + F /\ q > 0 /\ L > F + 1
    BY <1>2, <1>4, <1>8, <1>11, <1>13
  <2>2. CASE stop = L
    BY <1>2, <1>4, <1>11, <2>2
  <2>3. CASE stop # L
    <3>1. stop \in F..L - 1
      BY <1>2, <1>12, <2>3
    <3>2. PICK a : a = (g.significand * (stop - g.first)) \div 2 ^ g.exponent
      OBVIOUS
    <3>3. /\ a \in Nat /\ 2 ^ g.exponent * a <= g.significand * (stop - g.first)
          /\ Key(stop) <= g.intercept + a + Eps + 1
      BY <1>1, <3>1, <3>2, LineNearKeys
    <3>4. PICK j \in Nat : j = stop - F
      BY <1>2, <1>12
    <3>5. E * a <= S * j
      BY <1>1, <1>3, <1>4, <2>1, <3>3, <3>4 DEF GuessParts
    <3>6. Key(stop) \in Nat /\ value <= Key(stop)
      <4>1. stop \in 0..n - 1
        BY <1>2, <3>1
      <4>2. Key(stop) \in Nat
        BY <4>1, RoomForGuesses
      <4>3. ~(Key(stop) < value)
        BY <1>1, <1>12, <3>1
      <4> QED
        BY <4>2, <4>3
    <3>7. PICK v \in Int : v = value - T
      OBVIOUS
    <3>8. v <= a + e + 1
      BY <1>6, <3>3, <3>6, <3>7
    <3>9. v >= 0
      BY <1>4, <1>6, <2>1, <3>7
    <3>10. q \in Nat /\ S * q <= v * E
      BY <1>4, <1>6, <3>7, <3>9
    <3>11. E * e < S * b + S
      <4>1. E * e = e * E
        BY <1>4
      <4> QED
        BY <1>4, <1>6, <4>1
    <3>12. S \in Nat
      BY <1>4
    <3>13. q <= j + b + 1
      BY <1>4, <3>3, <3>5, <3>8, <3>10, <3>11, <3>12, GuessNotTooHigh
    <3> QED
      BY <1>2, <1>4, <1>11, <1>12, <2>1, <3>4, <3>13
  <2> QED
    BY <2>2, <2>3
<1>14. stop <= pos + (1 + b) + 1
  <2>1. CASE stop <= F + 1
    BY <1>2, <1>4, <1>11, <1>12, <2>1
  <2>2. CASE pos >= L - 1
    BY <1>2, <1>4, <1>11, <1>12, <2>2
  <2>3. CASE stop > F + 1 /\ pos < L - 1
    <3>1. L > F + 1 /\ stop - 1 \in F..L - 1 /\ guess <= L - 1 /\ guess <= pos
      BY <1>2, <1>8, <1>11, <1>12, <2>3
    <3>2. PICK i \in Nat : i = stop - 1
      BY <1>2, <1>12, <2>3
    <3>3. PICK a : a = (g.significand * (i - g.first)) \div 2 ^ g.exponent
      OBVIOUS
    <3>4. /\ a \in Nat
          /\ g.significand * (i - g.first) < 2 ^ g.exponent * a + 2 ^ g.exponent
          /\ Key(i) >= g.intercept + a - Eps
      BY <1>1, <3>1, <3>2, <3>3, LineNearKeys
    <3>5. PICK j \in Nat : j = i - F
      BY <1>2, <2>3, <3>2
    <3>6. S * j < E * a + E
      BY <1>1, <1>3, <1>4, <3>1, <3>4, <3>5 DEF GuessParts
    <3>7. Key(i) \in Nat /\ Key(i) < value
      <4>1. i \in 0..n - 1 /\ i < stop
        BY <1>2, <1>12, <3>1, <3>2
      <4>2. Key(i) \in Nat
        BY <4>1, RoomForGuesses
      <4> QED
        BY <1>1, <3>1, <3>2, <4>1, <4>2
    <3>8. PICK v \in Int : v = value - T
      OBVIOUS
    <3>9. v >= a - e + 1
      BY <1>6, <3>4, <3>7, <3>8
    <3>10. v * E < S * q + S
      BY <1>4, <1>6, <3>8
    <3>11. E * e < S * b + S
      <4>1. E * e = e * E
        BY <1>4
      <4> QED
        BY <1>4, <1>6, <4>1
    <3>12. S \in Nat
      BY <1>4
    <3>13. j <= q + b + 1
      BY <1>4, <3>4, <3>6, <3>9, <3>10, <3>11, <3>12, GuessNotTooLow
    <3>14. q + F <= guess
      BY <1>2, <1>4, <1>8
    <3> QED
      BY <1>2, <1>4, <1>11, <1>12, <3>1, <3>2, <3>5, <3>13, <3>14
  <2> QED
    BY <1>2, <1>11, <1>12, <2>1, <2>2, <2>3
<1> DEFINE lo == IF pos <= F + (1 + b) THEN F ELSE pos - (1 + b)
           hi == IF pos + (1 + b) + 1 <= L THEN pos + (1 + b) + 1 ELSE L
<1>15. /\ (1 + b) + F \in 0..C - 1 /\ pos + (1 + b) + 1 \in 0..C - 1
       /\ pos > F + (1 + b) => pos - (1 + b) \in 0..C - 1
  BY <1>2, <1>4, <1>7, <1>11
<1>16. /\ Wrapped((1 + b) + F) = F + (1 + b) /\ Wrapped(pos + (1 + b) + 1) = pos + (1 + b) + 1
       /\ pos > F + (1 + b) => Wrapped(pos - (1 + b)) = pos - (1 + b)
  <2>1. (1 + b) + F = F + (1 + b)
    BY <1>2, <1>4
  <2> QED
    BY <1>6, <1>15, <2>1, WrappedKey
<1>17. Reach(g, L, value) = [pos |-> pos, lo |-> lo, hi |-> hi]
  <2>1. PICK w \in Int : w = pos + (1 + b) + 1
    BY <1>4
  <2>2. Min({w, L}) = hi
    <3>1. L \in Int
      BY <1>2
    <3>2. Min({w, L}) = IF w <= L THEN w ELSE L
      BY <3>1, PairExtrema
    <3> QED
      BY <2>1, <3>2
  <2>3. Reach(g, L, value) =
          [pos |-> pos,
           lo |-> IF pos <= Wrapped((1 + b) + F) THEN F ELSE Wrapped(pos - (1 + b)),
           hi |-> Min({Wrapped(pos + (1 + b) + 1), L})]
    BY <1>1, <1>9, <1>10 DEF Reach
  <2>4. (IF pos <= Wrapped((1 + b) + F) THEN F ELSE Wrapped(pos - (1 + b))) = lo
    <3>1. pos <= F + (1 + b) \/ pos > F + (1 + b)
      BY <1>2, <1>4, <1>11
    <3> QED
      BY <1>2, <1>4, <1>11, <1>16, <3>1
  <2> HIDE DEF lo, hi
  <2> QED
    BY <1>16, <2>1, <2>2, <2>3, <2>4
<1>18. lo \in Nat /\ F <= lo /\ lo <= stop
  BY <1>2, <1>4, <1>11, <1>12, <1>13
<1>19. hi \in Nat \ {0} /\ stop <= hi /\ hi <= L /\ hi - 1 \in 0..C - 1
  BY <1>2, <1>4, <1>7, <1>11, <1>12, <1>14
<1> HIDE DEF lo, hi
<1>20. Wrapped(hi - 1) = hi - 1
  BY <1>6, <1>19, WrappedKey
<1> QED
  BY <1>1, <1>17, <1>18, <1>19, <1>20

-----------------------------------------------------------------------------
(* The segment of a value                                                  *)

\* first_key of a segment is its first element, and that of the sentinel is above all.
LEMMA FirstKeys ==
  ASSUME ~AutoBpc, Finished, RoomAbove
  PROVE  /\ \A s \in RealSegments : FirstKey(Segment(s)) = Key(Segment(s).first)
                                    /\ Segment(s).first \in 0..n - 1
         /\ FirstKey(Segment(SentinelIndex)) > BackKey
         /\ FirstKey(Segment(SentinelIndex)) \in Nat
<1>1. ASSUME NEW s \in RealSegments
      PROVE  FirstKey(Segment(s)) = Key(Segment(s).first) /\ Segment(s).first \in 0..n - 1
  <2>1. PICK g, F : g = Segment(s) /\ F = g.first
    OBVIOUS
  <2>2. /\ GoodSegment(bits, g, Segment(s + 1).first) /\ F < Segment(s + 1).first
        /\ data \in Datasets
    BY <2>1 DEF Finished
  <2>3. /\ F \in Nat /\ F \in 0..n - 1 /\ n \in Nat /\ g.bpc = TBpc /\ g.intercept \in Int
        /\ g.significand \in Nat /\ 2 ^ g.exponent \in Nat \ {0} /\ g.firstCorrection = Needed(g, F)
    <3>1. n \in Nat
      BY DEF Finished
    <3>2. /\ g.first \in Nat /\ Segment(s + 1).first \in Nat /\ Segment(s + 1).first <= n
          /\ g.bpc = TBpc /\ g.intercept \in Int
          /\ g.significand \in Nat /\ 2 ^ g.exponent \in Nat \ {0}
      BY <2>2, PiecesTyped DEF GoodSegment
    <3>3. g.firstCorrection = Needed(g, F)
      BY <2>1, <2>2 DEF GoodSegment
    <3> QED
      BY <2>1, <2>2, <3>1, <3>2, <3>3
  <2>4. Approximate(g, F) = g.intercept
    <3>1. PICK x \in Nat \ {0} : x = 2 ^ g.exponent
      BY <2>3
    <3>2. 0 \div x = 0
      BY Z3
    <3>3. g.significand * (F - g.first) = 0
      BY <2>1, <2>3
    <3>4. Approximate(g, F) = 0 + g.intercept
      BY <3>1, <3>2, <3>3 DEF Approximate
    <3> QED
      BY <2>3, <3>4
  <2>5. Key(F) \in 0..2 ^ KeyBits - 1 /\ Key(F) \in Nat /\ Eps \in Nat
    BY <2>2, <2>3, DataTyped, EpsilonNatural
  <2>6. g.intercept + g.firstCorrection - Eps = Key(F)
    BY <2>3, <2>4, <2>5 DEF Needed
  <2>7. FirstKey(g) = Wrapped(Key(F))
    BY <2>3, <2>6 DEF FirstKey, Eps
  <2>8. FirstKey(g) = Key(F)
    BY <2>5, <2>7, WrappedKey
  <2> QED
    BY <2>1, <2>3, <2>8
<1>2. /\ FirstKey(Segment(SentinelIndex)) > BackKey
      /\ FirstKey(Segment(SentinelIndex)) \in Nat
  <2>1. Segment(SentinelIndex) = Sentinel /\ data \in Datasets
    BY DEF Finished
  <2>2. Sentinel.intercept = -1 /\ Sentinel.firstCorrection = 0 /\ Sentinel.bpc = TBpc
    BY <2>1, SentinelTyped
  <2>3. FirstKey(Sentinel) = Wrapped(-1 + 0 - Eps)
    <3>1. PICK z : z = Sentinel
      OBVIOUS
    <3>2. z.intercept = -1 /\ z.firstCorrection = 0 /\ z.bpc = TBpc
      BY <2>2, <3>1
    <3>3. FirstKey(z) = Wrapped(z.intercept + z.firstCorrection - BpcToEpsilon(z.bpc))
      BY Zenon DEF FirstKey
    <3>4. FirstKey(z) = Wrapped(-1 + 0 - BpcToEpsilon(TBpc))
      BY <3>2, <3>3
    <3> QED
      BY <3>1, <3>4 DEF Eps
  <2>4. PICK B \in Nat, e \in Nat, top \in Nat : B = 2 ^ KeyBits /\ e = Eps /\ top = BackKey
    BY RoomForGuesses, WordPowers, EpsilonNatural
  <2>5. top + e + 2 < B
    BY <2>4, RoomForGuesses
  <2>6. (-1 + 0 - e) % B = B - 1 - e
    <3>1. PICK w \in Int : w = -1 + 0 - e
      OBVIOUS
    <3>2. B - 1 - e \in 0..B - 1 /\ w = B * (-1) + (B - 1 - e)
      BY <2>5, <3>1
    <3>3. w % B = B - 1 - e
      BY <2>5, <3>2, Z3
    <3> QED
      BY <3>1, <3>3
  <2>7. FirstKey(Sentinel) = B - 1 - e
    BY <2>3, <2>4, <2>6 DEF Wrapped
  <2> QED
    BY <2>1, <2>4, <2>5, <2>7
<1> QED
  BY <1>1, <1>2

\* the last position whose element is not above a value
LastUpTo(value, i) == i \in 0..n - 1 /\ \A p \in 0..n - 1 : Key(p) <= value <=> p <= i

LEMMA LastUpToExists ==
  ASSUME ~AutoBpc, Finished, RoomAbove, NEW value \in Nat, FrontKey < value
  PROVE  \E i : LastUpTo(value, i)
<1>1. PICK N : N = n
  OBVIOUS
<1>2. N \in Nat \ {0}
  BY <1>1 DEF Finished
<1>3. /\ \A p \in 0..N - 1 : Key(p) \in Nat
      /\ \A p, r \in 0..N - 1 : p < r => Key(p) < Key(r)
      /\ Key(0) < value
  BY <1>1, RoomForGuesses DEF FrontKey, Key
<1> DEFINE A == {p \in 0..N - 1 : Key(p) <= value}
<1>4. 0 \in 0..N - 1 /\ Key(0) <= value
  <2>1. 0 \in 0..N - 1
    BY <1>2
  <2> QED
    BY <1>3, <2>1
<1>5. A \subseteq 0..N - 1 /\ A # {} /\ N - 1 \in Nat
  BY <1>2, <1>4
<1>6. Max(A) \in A /\ \A p \in A : p <= Max(A)
  <2> HIDE DEF A
  <2> QED
    BY <1>5, MaxOfNaturals
<1>7. PICK i : i = Max(A)
  OBVIOUS
<1>8. i \in 0..N - 1 /\ Key(i) <= value /\ \A p \in 0..N - 1 : Key(p) <= value => p <= i
  BY <1>6, <1>7
<1>9. ASSUME NEW p \in 0..N - 1, p <= i PROVE Key(p) <= value
  <2>1. CASE p = i
    BY <1>8, <2>1
  <2>2. CASE p # i
    <3>1. p < i
      BY <1>2, <1>8, <1>9, <2>2
    <3>2. Key(p) < Key(i) /\ Key(p) \in Nat /\ Key(i) \in Nat
      BY <1>3, <1>8, <3>1
    <3> QED
      BY <1>8, <3>2
  <2> QED
    BY <2>1, <2>2
<1>10. LastUpTo(value, i)
  BY <1>1, <1>8, <1>9 DEF LastUpTo
<1> QED
  BY <1>10

LEMMA ValTopLevelBounds ==
  ASSUME Finished, NEW k \in 0..TopLevelSize - 1, NEW padding, NEW h \in 0..SentinelIndex
  PROVE  /\ ValTopLevel(k, padding) \in 0..SentinelIndex
         /\ k = TopLevelSize - 1 => ValTopLevel(k, padding) = SentinelIndex
         /\ (\A s \in 0..h - 1 : Key(Segment(s).first) < (k + 1) * ValStep)
              => h <= ValTopLevel(k, padding)
         /\ k < TopLevelSize - 1
              /\ (\A s \in RealSegments : Key(Segment(s).first) < (k + 1) * ValStep => s < h)
              => ValTopLevel(k, padding) <= h
<1>0. PICK m, d : m = SentinelIndex /\ d = TopLevelSize
  OBVIOUS
<1>1. m \in Nat /\ d \in Nat \ {0} /\ h \in Nat /\ h <= m /\ k \in Nat /\ k <= d - 1
  BY <1>0, TopLevelTyped DEF Finished
<1> DEFINE A == {s \in RealSegments : Key(Segment(s).first) < (k + 1) * ValStep}
<1>2. A \subseteq 0..m - 1
  BY <1>0 DEF RealSegments
<1>3. CASE k = d - 1
  <2>1. ValTopLevel(k, padding) = m
    BY <1>0, <1>1, <1>3 DEF ValTopLevel
  <2> QED
    BY <1>0, <1>1, <1>3, <2>1
<1>4. CASE k < d - 1
  <2>1. ValTopLevel(k, padding) = Cardinality(A)
    BY <1>0, <1>1, <1>4 DEF ValTopLevel
  <2>2. ASSUME \A s \in 0..h - 1 : Key(Segment(s).first) < (k + 1) * ValStep
        PROVE  h <= Cardinality(A)
    <3>1. 0..h - 1 \subseteq A
      <4>1. 0..h - 1 \subseteq 0..m - 1
        BY <1>1
      <4> QED
        BY <1>0, <2>2, <4>1 DEF RealSegments
    <3> HIDE DEF A
    <3> QED
      BY <1>1, <1>2, <3>1, CountAtLeast
  <2>3. ASSUME \A s \in RealSegments : Key(Segment(s).first) < (k + 1) * ValStep => s < h
        PROVE  Cardinality(A) <= h
    <3>1. A \subseteq 0..h - 1
      <4>1. \A s \in 0..m - 1 : s < h => s \in 0..h - 1
        BY <1>1
      <4> QED
        BY <1>0, <2>3, <4>1 DEF RealSegments
    <3> HIDE DEF A
    <3> QED
      BY <1>1, <3>1, CountAtMost
  <2>4. Cardinality(A) \in 0..m
    <3>1. Cardinality(A) \in Nat /\ Cardinality(A) <= m
      <4> HIDE DEF A
      <4> QED
        BY <1>1, <1>2, CountAtMost
    <3> QED
      BY <1>1, <3>1
  <2> HIDE DEF A
  <2> QED
    BY <1>0, <1>1, <1>4, <2>1, <2>2, <2>3, <2>4
<1> QED
  BY <1>1, <1>3, <1>4

\* A value is found in the segment that holds the last position up to it.
LEMMA ValueFound ==
  ASSUME ~AutoBpc, Finished, RoomAbove, NEW value \in Nat, FrontKey < value, value <= BackKey,
         NEW padding \in Paddings, NEW i, LastUpTo(value, i)
  PROVE  Holds(SegmentForValue(value, padding), i)
<1>0. i \in 0..n - 1 /\ \A p \in 0..n - 1 : Key(p) <= value <=> p <= i
  BY DEF LastUpTo
<1>1. PICK h : Holds(h, i)
  BY <1>0, HolderExists
<1>2. PICK m, d, w, N : m = SentinelIndex /\ d = TopLevelSize /\ w = ValStep /\ N = n
  OBVIOUS
<1>3. N \in Nat \ {0} /\ i \in Nat /\ padding \in {0, m} /\ BackKey \in Nat \ {0}
  <2>1. N \in Nat \ {0}
    BY <1>2 DEF Finished
  <2>2. BackKey \in Nat /\ FrontKey \in Nat
    <3>1. 0 \in 0..n - 1
      BY <1>2, <2>1
    <3> QED
      BY <3>1, RoomForGuesses DEF FrontKey, Key
  <2>3. BackKey # 0
    BY <2>2
  <2> QED
    BY <1>0, <1>2, <2>1, <2>2, <2>3 DEF Paddings
<1>4. d \in Nat \ {0} /\ w \in Nat \ {0} /\ BackKey <= d * w
  BY <1>2, <1>3, TopLevelTyped, StepCovers DEF ValStep
<1>5. /\ m \in Nat \ {0} /\ h \in Nat /\ h + 1 <= m
      /\ \A s \in 0..m : Segment(s).first <= i <=> s <= h
  BY <1>1, <1>2, <1>3, HeldOrder DEF Finished
<1> DEFINE k == value \div w
           above == {s \in 0..m : value < FirstKey(Segment(s))}
           first == IF value < w THEN 0 ELSE ValTopLevel(k - 1, padding)
           last == ValTopLevel(k, padding)
<1>6. SegmentForValue(value, padding) =
        IF UpperBound(above, first, last) = 0 THEN 0 ELSE UpperBound(above, first, last) - 1
  BY <1>2 DEF SegmentForValue
<1>7. ASSUME NEW s \in 0..m - 1
      PROVE  /\ Key(Segment(s).first) \in Nat
             /\ Key(Segment(s).first) <= value <=> s <= h
             /\ FirstKey(Segment(s)) = Key(Segment(s).first)
             /\ Key(Segment(s).first) <= BackKey
  <2>1. s \in RealSegments /\ s \in 0..m
    BY <1>2, <1>5 DEF RealSegments
  <2>2. FirstKey(Segment(s)) = Key(Segment(s).first) /\ Segment(s).first \in 0..n - 1
    BY <2>1, FirstKeys
  <2>3. Key(Segment(s).first) \in Nat /\ Key(Segment(s).first) <= BackKey
    BY <2>2, RoomForGuesses
  <2>4. Key(Segment(s).first) <= value <=> Segment(s).first <= i
    BY <1>0, <2>2
  <2> QED
    BY <1>5, <2>1, <2>2, <2>3, <2>4
<1>8. \A s \in 0..m : s \in above <=> s >= h + 1
  <2> SUFFICES ASSUME NEW s \in 0..m PROVE s \in above <=> s >= h + 1
    OBVIOUS
  <2>1. CASE s = m
    <3>1. FirstKey(Segment(s)) > BackKey /\ FirstKey(Segment(s)) \in Nat
      BY <1>2, <2>1, FirstKeys
    <3>2. value < FirstKey(Segment(s))
      BY <1>3, <3>1
    <3> QED
      BY <1>5, <2>1, <3>2
  <2>2. CASE s # m
    <3>1. s \in 0..m - 1
      BY <1>5, <2>2
    <3>2. /\ Key(Segment(s).first) \in Nat
          /\ (Key(Segment(s).first) <= value <=> s <= h)
          /\ FirstKey(Segment(s)) = Key(Segment(s).first)
      BY <1>7, <3>1
    <3>3. value < FirstKey(Segment(s)) <=> ~(s <= h)
      BY <3>2
    <3> QED
      BY <1>5, <3>1, <3>3
  <2> QED
    BY <2>1, <2>2
<1>9. PICK j : j = k
  OBVIOUS
<1>10. /\ j \in Nat /\ j * w <= value /\ value < (j + 1) * w /\ j * w \in Nat /\ (j + 1) * w \in Nat
       /\ (value >= w => j - 1 \in Nat) /\ (value < w => j = 0) /\ j <= d
       /\ j = d => value = BackKey
  <2>1. /\ j \in Nat /\ j * w <= value /\ value < (j + 1) * w /\ j * w \in Nat /\ (j + 1) * w \in Nat
        /\ (value >= w => j - 1 \in Nat) /\ (value < w => j = 0)
        /\ \A e \in Nat : value <= e * w => j <= e
    BY <1>4, <1>9, BucketOf
  <2>2. d * w \in Nat
    BY <1>4
  <2>3. j <= d
    BY <1>3, <1>4, <2>1, <2>2
  <2>4. j = d => value = BackKey
    BY <1>3, <1>4, <2>1, <2>2
  <2> QED
    BY <2>1, <2>3, <2>4
<1>11. j < d => last \in 0..m /\ h + 1 <= last
  <2> SUFFICES ASSUME j < d PROVE last \in 0..m /\ h + 1 <= last
    OBVIOUS
  <2>1. j \in 0..d - 1 /\ h + 1 \in 0..m
    BY <1>4, <1>5, <1>10
  <2>2. \A s \in 0..(h + 1) - 1 : Key(Segment(s).first) < (j + 1) * w
    <3> SUFFICES ASSUME NEW s \in 0..(h + 1) - 1 PROVE Key(Segment(s).first) < (j + 1) * w
      OBVIOUS
    <3>1. s \in 0..m - 1 /\ s <= h
      BY <1>5
    <3>2. Key(Segment(s).first) \in Nat /\ Key(Segment(s).first) <= value
      BY <1>7, <3>1
    <3> QED
      BY <1>10, <3>2
  <2> QED
    BY <1>2, <1>9, <2>1, <2>2, ValTopLevelBounds
<1>12. first \in 0..m /\ first <= h + 1 /\ (j = d => first = m)
  <2>1. CASE value < w
    BY <1>4, <1>5, <1>10, <2>1
  <2>2. CASE ~(value < w)
    <3>1. j - 1 \in Nat /\ j - 1 \in 0..d - 1 /\ (j - 1) + 1 = j /\ h + 1 \in 0..m
          /\ (j = d => j - 1 = d - 1) /\ (j # d => j - 1 < d - 1)
      BY <1>3, <1>4, <1>5, <1>10, <2>2
    <3>2. ValTopLevel(j - 1, padding) \in 0..m
          /\ (j = d => ValTopLevel(j - 1, padding) = m)
      BY <1>2, <3>1, ValTopLevelBounds
    <3>3. ASSUME j # d PROVE ValTopLevel(j - 1, padding) <= h + 1
      <4>1. \A s \in RealSegments : Key(Segment(s).first) < ((j - 1) + 1) * w => s < h + 1
        <5> SUFFICES ASSUME NEW s \in RealSegments, Key(Segment(s).first) < j * w PROVE s < h + 1
          BY <3>1
        <5>1. s \in 0..m - 1
          BY <1>2 DEF RealSegments
        <5>2. Key(Segment(s).first) \in Nat /\ (Key(Segment(s).first) <= value <=> s <= h)
          BY <1>7, <5>1
        <5>3. Key(Segment(s).first) <= value
          BY <1>10, <5>2
        <5> QED
          BY <1>5, <5>1, <5>2, <5>3
      <4> QED
        BY <1>2, <3>1, <3>3, <4>1, ValTopLevelBounds
    <3>4. ASSUME j = d PROVE m <= h + 1
      <4>1. m - 1 \in 0..m - 1
        BY <1>5
      <4>2. Key(Segment(m - 1).first) <= BackKey /\ (Key(Segment(m - 1).first) <= value <=> m - 1 <= h)
        BY <1>7, <4>1
      <4>3. m - 1 <= h
        BY <1>10, <3>4, <4>2
      <4> QED
        BY <1>5, <4>3
    <3> QED
      BY <1>9, <2>2, <3>2, <3>3, <3>4
  <2> QED
    BY <2>1, <2>2
<1>13. j = d => last \in {0, m}
  <2> SUFFICES ASSUME j = d PROVE last \in {0, m}
    OBVIOUS
  <2>1. ~(j < d - 1) /\ j # d - 1
    BY <1>4
  <2>2. ValTopLevel(j, padding) = padding
    BY <1>2, <2>1 DEF ValTopLevel
  <2> QED
    BY <1>3, <1>9, <2>2
<1> HIDE DEF above, first, last, k
<1>14. PICK a \in Nat, z \in Nat : a = first /\ z = last
  BY <1>4, <1>5, <1>10, <1>11, <1>12, <1>13
<1>15. /\ a <= h + 1 /\ z <= m /\ a <= m
       /\ h + 1 <= z \/ (a = m /\ m = h + 1 /\ z <= a)
  BY <1>4, <1>5, <1>10, <1>11, <1>12, <1>13, <1>14
<1>16. UpperBound(above, a, z) = h + 1
  <2>1. CASE a < z
    <3>1. \A s \in a..z - 1 : s \in above <=> s >= h + 1
      <4>1. a..z - 1 \subseteq 0..m
        BY <1>5, <1>15
      <4> QED
        BY <1>8, <4>1
    <3>2. h + 1 \in Nat /\ h + 1 <= z
      BY <1>5, <1>15, <2>1
    <3> QED
      BY <1>15, <2>1, <3>1, <3>2, UpperBoundFinds
  <2>2. CASE ~(a < z)
    <3>1. a = h + 1 /\ z \in Int /\ z - a <= 1 /\ a \in 0..m
      BY <1>5, <1>15, <2>2
    <3>2. a \in above
      BY <1>8, <3>1
    <3> QED
      BY <3>1, <3>2, UpperBoundAtOnce
  <2> QED
    BY <2>1, <2>2
<1>17. SegmentForValue(value, padding) = h
  <2>1. h + 1 # 0 /\ (h + 1) - 1 = h
    BY <1>5
  <2> QED
    BY <1>6, <1>14, <1>16, <2>1
<1> QED
  BY <1>1, <1>17

-----------------------------------------------------------------------------
(* lower_bound                                                             *)

LEMMA SampledSearch ==
  ASSUME ~AutoBpc, NEW g, NEW L, NEW value, NEW reach, reach = Reach(g, L, value)
  PROVE  LowerBoundIn(g, L, value) =
           BinarySearch(g, value, SampleSearch(g, value, reach.lo, reach.hi)[1],
                                  SampleSearch(g, value, reach.lo, reach.hi)[2])
BY DEF LowerBoundIn, Scans

LEMMA FoundInSegment ==
  ASSUME ~AutoBpc, Finished, RoomAbove, NEW s \in RealSegments,
         NEW value \in Nat, value <= BackKey,
         NEW stop \in Segment(s).first..Segment(s + 1).first,
         \A p \in Segment(s).first..Segment(s + 1).first - 1 : Key(p) < value <=> p < stop
  PROVE  LowerBoundIn(Segment(s), Segment(s + 1).first, value) = stop
<1>1. PICK g, F, L : g = Segment(s) /\ F = g.first /\ L = Segment(s + 1).first
  OBVIOUS
<1>2. F \in Nat /\ L \in Nat /\ stop \in Nat
  <2>1. GoodSegment(bits, g, L)
    BY <1>1 DEF Finished
  <2>2. F \in Nat /\ L \in Nat
    BY <1>1, <2>1, PiecesTyped DEF GoodSegment
  <2> QED
    BY <1>1, <2>2
<1>3. PICK reach : reach = Reach(g, L, value)
  OBVIOUS
<1>4. PICK lo \in Nat, hi \in Nat \ {0} :
        /\ reach.lo = lo /\ reach.hi = hi
        /\ F <= lo /\ lo <= stop /\ stop <= hi /\ hi <= L
        /\ Wrapped(hi - 1) = hi - 1
  <2>1. \E lo \in Nat, hi \in Nat \ {0} :
           /\ Reach(Segment(s), Segment(s + 1).first, value).lo = lo
           /\ Reach(Segment(s), Segment(s + 1).first, value).hi = hi
           /\ Segment(s).first <= lo /\ lo <= stop /\ stop <= hi /\ hi <= Segment(s + 1).first
           /\ Wrapped(hi - 1) = hi - 1
    BY ReachHasStop
  <2> QED
    BY <1>1, <1>3, <2>1
<1>5. \A p \in F..L - 1 : Decompress(g, p) < value <=> p < stop
  <2> SUFFICES ASSUME NEW p \in F..L - 1 PROVE Decompress(g, p) < value <=> p < stop
    OBVIOUS
  <2>1. p \in Nat /\ Segment(s).first <= p /\ p < Segment(s + 1).first
    BY <1>1, <1>2
  <2>2. Decompress(g, p) = Key(p)
    BY <1>1, <2>1, HolderDecodes
  <2> QED
    BY <1>1, <2>2
<1>6. Reaches(g, value, stop, lo, hi)
  <2>1. lo..hi - 1 \subseteq F..L - 1
    BY <1>2, <1>4
  <2> QED
    BY <1>5, <2>1 DEF Reaches
<1>7. Narrowed(SampleSearch(g, value, lo, hi), lo, hi, stop)
  BY <1>2, <1>4, <1>6, SampleSearchNarrows
<1>8. PICK a \in Nat, b \in Nat : /\ SampleSearch(g, value, lo, hi) = <<a, b>>
                                 /\ lo <= a /\ a <= stop /\ stop <= b /\ b <= hi
  BY <1>7 DEF Narrowed
<1>9. Reaches(g, value, stop, a, b)
  <2>1. a..b - 1 \subseteq lo..hi - 1
    BY <1>4, <1>8
  <2> QED
    BY <1>6, <2>1 DEF Reaches
<1>10. BinarySearch(g, value, a, b) = stop
  BY <1>2, <1>8, <1>9, BinarySearchFinds
<1>11. LowerBoundIn(g, L, value) =
         BinarySearch(g, value, SampleSearch(g, value, reach.lo, reach.hi)[1],
                                SampleSearch(g, value, reach.lo, reach.hi)[2])
  BY <1>3, SampledSearch
<1>12. LowerBoundIn(g, L, value) = BinarySearch(g, value, a, b)
  BY <1>4, <1>8, <1>11
<1> QED
  BY <1>1, <1>10, <1>12

\* An iterator on position i whose cursor is c: before the end it is on the segment
\* that holds the position; at the end on the last one, on the sentinel or past it.
CursorAt(c, i) ==
  /\ i \in 0..n
  /\ i < n => Holds(c, i)
  /\ i = n => c \in {SentinelIndex - 1, SentinelIndex, EndIndex}

LEMMA FirstSegmentHolds ==
  ASSUME Finished
  PROVE  Holds(0, 0) /\ 0 < n /\ CursorAt(0, 0)
<1>1. PICK m, N : m = SentinelIndex /\ N = n
  OBVIOUS
<1>2. m \in Nat \ {0} /\ N \in Nat \ {0} /\ Segment(0).first = 0
  BY <1>1 DEF Finished
<1>3. 0 \in RealSegments
  <2>1. 0 \in 0..m - 1
    BY <1>2
  <2> QED
    BY <1>1, <2>1 DEF RealSegments
<1>4. 0 < Segment(1).first
  <2>1. Segment(0).first < Segment(0 + 1).first
    BY <1>3 DEF Finished
  <2> QED
    BY <1>2, <2>1
<1>5. 0 + 1 = 1
  OBVIOUS
<1>6. Holds(0, 0)
  BY <1>2, <1>3, <1>4, <1>5 DEF Holds
<1>7. 0 \in 0..N /\ 0 < N /\ 0 # N
  BY <1>2
<1> QED
  BY <1>1, <1>6, <1>7 DEF CursorAt

\* Where lower_bound stops.
LEMMA LowerBoundFound ==
  ASSUME ~AutoBpc, Finished, RoomAbove, NEW value \in Nat, NEW padding \in Paddings,
         NEW found, found = LowerBound(value, padding)
  PROVE  /\ CursorAt(found.cursor, found.at)
         /\ \A p \in 0..n - 1 : Key(p) < value <=> p < found.at
<1>1. PICK m, N, top, bottom : m = SentinelIndex /\ N = n /\ top = BackKey /\ bottom = FrontKey
  OBVIOUS
<1>2. /\ m \in Nat \ {0} /\ N \in Nat \ {0}
      /\ \A p \in 0..N - 1 : Key(p) \in Nat /\ Key(p) <= top
      /\ \A p, r \in 0..N - 1 : p < r => Key(p) < Key(r)
      /\ bottom = Key(0) /\ top \in Nat
  <2>1. m \in Nat \ {0} /\ N \in Nat \ {0}
    BY <1>1 DEF Finished
  <2>2. bottom = Key(0)
    BY <1>1 DEF FrontKey, Key
  <2> QED
    BY <1>1, <2>1, <2>2, RoomForGuesses
<1>3. CASE value > top
  <2>1. found = [at |-> n, cursor |-> EndIndex]
    BY <1>1, <1>3 DEF LowerBound
  <2>2. CursorAt(EndIndex, n)
    <3>1. N \in 0..N /\ ~(N < N)
      BY <1>2
    <3> QED
      BY <1>1, <3>1 DEF CursorAt
  <2>3. \A p \in 0..N - 1 : Key(p) < value /\ p < N
    BY <1>2, <1>3
  <2> QED
    BY <1>1, <2>1, <2>2, <2>3
<1>4. CASE value <= top /\ value <= bottom
  <2>1. ~(value > top)
    BY <1>2, <1>4
  <2>2. found = [at |-> 0, cursor |-> 0]
    BY <1>1, <1>4, <2>1 DEF LowerBound
  <2>3. ASSUME NEW p \in 0..N - 1 PROVE ~(Key(p) < value) /\ ~(p < 0)
    <3>1. 0 \in 0..N - 1 /\ Key(0) \in Nat /\ Key(p) \in Nat /\ p \in Nat
      BY <1>2
    <3>2. Key(0) <= Key(p)
      <4>1. CASE p = 0
        BY <3>1, <4>1
      <4>2. CASE p # 0
        <5>1. 0 < p
          BY <3>1, <4>2
        <5>2. Key(0) < Key(p)
          BY <1>2, <3>1, <5>1
        <5> QED
          BY <3>1, <5>2
      <4> QED
        BY <4>1, <4>2
    <3> QED
      BY <1>2, <1>4, <3>1, <3>2
  <2> QED
    BY <1>1, <2>2, <2>3, FirstSegmentHolds
<1>5. CASE value <= top /\ ~(value <= bottom)
  <2>1. ~(value > top) /\ bottom < value /\ bottom \in Nat
    <3>1. 0 \in 0..N - 1
      BY <1>2
    <3>2. bottom \in Nat
      BY <1>2, <3>1
    <3> QED
      BY <1>2, <1>5, <3>2
  <2>2. PICK i : LastUpTo(value, i)
    BY <1>1, <2>1, LastUpToExists
  <2>3. i \in 0..N - 1 /\ (\A p \in 0..N - 1 : Key(p) <= value <=> p <= i)
    BY <1>1, <2>2 DEF LastUpTo
  <2>4. PICK s : s = SegmentForValue(value, padding)
    OBVIOUS
  <2>5. Holds(s, i)
    BY <1>1, <1>5, <2>1, <2>2, <2>4, ValueFound
  <2>6. PICK F, L : F = Segment(s).first /\ L = Segment(s + 1).first
    OBVIOUS
  <2>7. /\ F \in Nat /\ L \in Nat /\ F <= i /\ i < L /\ L <= N /\ s \in RealSegments
        /\ s \in 0..m - 1 /\ s + 1 \in 0..m
    <3>1. s \in RealSegments /\ F <= i /\ i < L
      BY <2>5, <2>6 DEF Holds
    <3>2. s \in 0..m - 1
      BY <1>1, <3>1 DEF RealSegments
    <3>3. s \in 0..m /\ s + 1 \in 0..m
      BY <1>2, <3>2
    <3>4. F \in Nat /\ L \in Nat /\ L <= N
      BY <1>1, <2>6, <3>3 DEF Finished
    <3> QED
      BY <3>1, <3>2, <3>3, <3>4
  <2>8. Key(i) \in Nat /\ Key(i) <= value
    BY <1>2, <2>3
  <2> DEFINE stop == IF Key(i) < value THEN i + 1 ELSE i
  <2>9. stop \in F..L /\ stop \in Nat
    BY <2>3, <2>7
  <2>10. ASSUME NEW p \in 0..N - 1 PROVE Key(p) < value <=> p < stop
    <3>1. Key(p) \in Nat /\ (Key(p) <= value <=> p <= i) /\ p \in Nat /\ i \in Nat
      BY <1>2, <2>3
    <3>2. CASE p > i
      <4>1. ~(Key(p) < value)
        BY <3>1, <3>2
      <4>2. ~(p < stop)
        BY <3>1, <3>2
      <4> QED
        BY <4>1, <4>2
    <3>3. CASE p = i
      BY <3>1, <3>3
    <3>4. CASE p < i
      <4>1. Key(p) < Key(i)
        BY <1>2, <2>3, <3>4
      <4>2. Key(p) < value
        BY <2>8, <3>1, <4>1
      <4>3. p < stop
        BY <3>1, <3>4
      <4> QED
        BY <4>2, <4>3
    <3> QED
      BY <3>1, <3>2, <3>3, <3>4
  <2> HIDE DEF stop
  <2>11. LowerBoundIn(Segment(s), L, value) = stop
    <3>1. \A p \in F..L - 1 : p \in 0..N - 1
      BY <1>2, <2>7
    <3>2. \A p \in Segment(s).first..Segment(s + 1).first - 1 : Key(p) < value <=> p < stop
      BY <2>6, <2>10, <3>1
    <3>3. stop \in Segment(s).first..Segment(s + 1).first
      BY <2>6, <2>9
    <3>4. value <= BackKey
      BY <1>1, <1>5
    <3>5. LowerBoundIn(Segment(s), Segment(s + 1).first, value) = stop
      BY <2>7, <3>2, <3>3, <3>4, FoundInSegment
    <3> QED
      BY <2>6, <3>5
  <2>12. found = [at |-> stop, cursor |-> IF stop = L THEN s + 1 ELSE s]
    BY <1>1, <1>5, <2>1, <2>4, <2>6, <2>11 DEF LowerBound
  <2>13. CursorAt(IF stop = L THEN s + 1 ELSE s, stop)
    <3>1. stop \in 0..N
      BY <1>2, <2>7, <2>9
    <3>2. CASE stop # L
      <4>1. F <= stop /\ stop < L /\ stop < N /\ stop # N
        BY <1>2, <2>7, <2>9, <3>2
      <4>2. Holds(s, stop)
        BY <2>6, <2>7, <4>1 DEF Holds
      <4> QED
        BY <1>1, <3>1, <3>2, <4>1, <4>2 DEF CursorAt
    <3>3. CASE stop = L /\ s + 1 = m
      <4>1. L = N
        BY <1>1, <2>6, <3>3 DEF Finished
      <4>2. ~(N < N)
        BY <1>2
      <4> QED
        BY <1>1, <3>1, <3>3, <4>1, <4>2 DEF CursorAt
    <3>4. CASE stop = L /\ s + 1 # m
      <4>1. s + 1 \in RealSegments
        <5>1. s + 1 \in 0..m - 1
          BY <1>2, <2>7, <3>4
        <5> QED
          BY <1>1, <5>1 DEF RealSegments
      <4>2. L < Segment((s + 1) + 1).first
        BY <2>6, <4>1 DEF Finished
      <4>3. Holds(s + 1, L)
        BY <2>6, <2>7, <4>1, <4>2 DEF Holds
      <4>4. L < N /\ L # N
        <5>1. s + 1 \in 0..SentinelIndex /\ SentinelIndex \in 0..SentinelIndex /\ s + 1 < SentinelIndex
          BY <1>1, <1>2, <2>7, <3>4
        <5>2. Segment(s + 1).first < Segment(SentinelIndex).first
          BY <5>1, FirstsIncrease
        <5>3. Segment(SentinelIndex).first = N
          BY <1>1 DEF Finished
        <5> QED
          BY <1>2, <2>6, <2>7, <5>2, <5>3
      <4> QED
        BY <1>1, <3>1, <3>4, <4>3, <4>4 DEF CursorAt
    <3> QED
      BY <3>2, <3>3, <3>4
  <2> QED
    BY <1>1, <2>10, <2>12, <2>13
<1> QED
  BY <1>2, <1>3, <1>4, <1>5

-----------------------------------------------------------------------------
(* la_iterator                                                             *)

\* The position and the cursor of an iterator while the vector is under
\* construction, and from then on.
CursorInv ==
  \/ at = 0 /\ cursor = 0
  \/ pc = "built" /\ CursorAt(cursor, at)

LEMMA CursorSet ==
  ASSUME NEW i, NEW c, MoveTo(i, c), CursorAt(c, i)
  PROVE  CursorInv'
<1>1. /\ pc = "built" /\ at' = i /\ cursor' = c
      /\ pc' = pc /\ data' = data /\ segments' = segments
  BY DEF MoveTo, buildVars
<1>2. CursorAt(cursor', at')
  BY <1>1
<1>3. CursorAt(cursor, at)'
  BY <1>1, <1>2 DEF CursorAt, Holds, n, SentinelIndex, EndIndex, RealSegments, Segment
<1> QED
  BY <1>1, <1>3 DEF CursorInv

LEMMA LookedUp ==
  ASSUME Finished, NEW i \in 0..n, NEW padding \in Paddings
  PROVE  CursorAt(SegmentForPosition(i, padding), i)
<1>1. n \in Nat
  BY DEF Finished
<1>2. CASE i = n
  <2>1. SegmentForPosition(i, padding) \in {SentinelIndex - 1, SentinelIndex}
    BY <1>2, EndFound
  <2>2. ~(i < n)
    BY <1>1, <1>2
  <2> QED
    BY <2>1, <2>2 DEF CursorAt
<1>3. CASE i # n
  <2>1. i \in 0..n - 1
    BY <1>1, <1>3
  <2> QED
    BY <1>3, <2>1, PositionFound DEF CursorAt
<1> QED
  BY <1>2, <1>3

\* ++ of an iterator before the end
LEMMA SteppedForward ==
  ASSUME Finished, NEW i \in 0..n, i < n, NEW c, Holds(c, i)
  PROVE  CursorAt(StepForward(i + 1, c), i + 1) /\ c # EndIndex
<1>1. PICK m, N, l : m = SentinelIndex /\ N = n /\ l = Len(segments)
  OBVIOUS
<1>2. m \in Nat \ {0} /\ N \in Nat \ {0} /\ l = m + 1
  BY <1>1 DEF Finished
<1>3. PICK F, L : F = Segment(c).first /\ L = Segment(c + 1).first
  OBVIOUS
<1>4. /\ c \in 0..m - 1 /\ c + 1 \in 0..m /\ F <= i /\ i < L
      /\ F \in Nat /\ L \in Nat /\ L <= N
  <2>1. c \in 0..m - 1 /\ F <= i /\ i < L
    BY <1>1, <1>3 DEF Holds, RealSegments
  <2>2. c \in 0..m /\ c + 1 \in 0..m
    BY <1>2, <2>1
  <2> QED
    BY <1>1, <1>3, <2>1, <2>2 DEF Finished
<1>5. c # EndIndex
  <2>1. c # l
    BY <1>2, <1>4
  <2> QED
    BY <1>1, <2>1 DEF EndIndex
<1>6. i + 1 \in 0..N
  BY <1>1, <1>2
<1>7. CASE i + 1 < L
  <2>1. StepForward(i + 1, c) = c
    <3>1. ~(i + 1 >= L)
      BY <1>4, <1>6, <1>7
    <3> QED
      BY <1>3, <3>1 DEF StepForward
  <2>2. F <= i + 1 /\ i + 1 # N
    BY <1>4, <1>6, <1>7
  <2>3. Holds(c, i + 1)
    BY <1>1, <1>3, <1>4, <1>7, <2>2 DEF Holds, RealSegments
  <2> QED
    BY <1>1, <1>5, <1>6, <2>1, <2>2, <2>3 DEF CursorAt
<1>8. CASE ~(i + 1 < L)
  <2>1. i + 1 = L
    BY <1>2, <1>4, <1>8
  <2>2. StepForward(i + 1, c) = c + 1
    <3>1. i + 1 >= L
      BY <1>4, <2>1
    <3> QED
      BY <1>3, <3>1 DEF StepForward
  <2>3. CASE c + 1 = m
    <3>1. L = N
      BY <1>1, <1>3, <2>3 DEF Finished
    <3>2. i + 1 = N /\ ~(i + 1 < N)
      BY <1>2, <2>1, <3>1
    <3> QED
      BY <1>1, <1>5, <1>6, <2>2, <2>3, <3>2 DEF CursorAt
  <2>4. CASE c + 1 # m
    <3>1. c + 1 \in 0..m - 1 /\ (c + 1) + 1 \in 0..m
      BY <1>2, <1>4, <2>4
    <3>2. PICK K : K = Segment((c + 1) + 1).first
      OBVIOUS
    <3>3. K \in Nat /\ K <= N
      BY <1>1, <3>1, <3>2 DEF Finished
    <3>4. L < K
      BY <1>1, <1>3, <3>1, <3>2 DEF Finished, RealSegments
    <3>5. L <= i + 1 /\ i + 1 < K /\ i + 1 # N
      BY <1>2, <1>4, <2>1, <3>3, <3>4
    <3>6. Holds(c + 1, i + 1)
      BY <1>1, <1>3, <3>1, <3>2, <3>5 DEF Holds, RealSegments
    <3> QED
      BY <1>1, <1>5, <1>6, <2>2, <3>5, <3>6 DEF CursorAt
  <2> QED
    BY <2>3, <2>4
<1> QED
  BY <1>5, <1>7, <1>8

\* -- of an iterator whose cursor is not segments.end()
LEMMA SteppedBack ==
  ASSUME Finished, NEW i \in 0..n, i > 0, NEW c, CursorAt(c, i), c # EndIndex
  PROVE  CursorAt(StepBack(i - 1, c), i - 1)
<1>1. PICK m, N : m = SentinelIndex /\ N = n
  OBVIOUS
<1>2. m \in Nat \ {0} /\ N \in Nat \ {0}
  BY <1>1 DEF Finished
<1>3. i \in Nat /\ i - 1 \in 0..N - 1 /\ i - 1 \in 0..N /\ i - 1 # N
  BY <1>1, <1>2
<1>4. Segment(0).first = 0 /\ Segment(m).first = N
  BY <1>1 DEF Finished
<1>5. \A s \in 0..m : Segment(s).first \in Nat
  BY <1>1 DEF Finished
<1>6. \A s \in 0..m - 1 : Segment(s).first < Segment(s + 1).first
  BY <1>1 DEF Finished, RealSegments
<1>7. SUFFICES Holds(StepBack(i - 1, c), i - 1)
  BY <1>1, <1>3 DEF CursorAt
<1>8. CASE Holds(c, i)
  <2>1. PICK F, L : F = Segment(c).first /\ L = Segment(c + 1).first
    OBVIOUS
  <2>2. c \in 0..m - 1 /\ F <= i /\ i < L
    BY <1>1, <1>8, <2>1 DEF Holds, RealSegments
  <2>3. c \in 0..m /\ c + 1 \in 0..m
    BY <1>2, <2>2
  <2>4. F \in Nat /\ L \in Nat
    BY <1>5, <2>1, <2>3
  <2>5. CASE F <= i - 1
    <3>1. i - 1 < L /\ ~(i - 1 < F)
      BY <1>3, <2>2, <2>4, <2>5
    <3>2. StepBack(i - 1, c) = c
      BY <2>1, <3>1 DEF StepBack
    <3> QED
      BY <1>1, <2>1, <2>2, <2>5, <3>1, <3>2 DEF Holds, RealSegments
  <2>6. CASE ~(F <= i - 1)
    <3>1. F = i /\ i - 1 < F /\ F # 0
      BY <1>3, <2>2, <2>4, <2>6
    <3>2. c # 0
      BY <1>4, <2>1, <3>1
    <3>3. c > 0 /\ c - 1 \in 0..m - 1 /\ c - 1 \in 0..m /\ (c - 1) + 1 = c
      BY <1>2, <2>2, <3>2
    <3>4. StepBack(i - 1, c) = c - 1
      BY <2>1, <3>1, <3>3 DEF StepBack
    <3>5. PICK E : E = Segment(c - 1).first
      OBVIOUS
    <3>6. E \in Nat /\ E < F
      BY <1>5, <1>6, <2>1, <3>3, <3>5
    <3>7. E <= i - 1
      BY <1>3, <3>1, <3>6
    <3> QED
      BY <1>1, <2>1, <3>1, <3>3, <3>4, <3>5, <3>7 DEF Holds, RealSegments
  <2> QED
    BY <2>5, <2>6
<1>9. CASE ~Holds(c, i)
  <2>1. i = N /\ c \in {m - 1, m}
    <3>1. ~(i < N) /\ i \in 0..N
      BY <1>1, <1>9 DEF CursorAt
    <3>2. i = N
      BY <1>2, <3>1
    <3> QED
      BY <1>1, <3>2 DEF CursorAt
  <2>2. PICK E : E = Segment(m - 1).first
    OBVIOUS
  <2>3. m - 1 \in 0..m - 1 /\ m - 1 \in 0..m /\ (m - 1) + 1 = m /\ m - 1 # m
    BY <1>2
  <2>4. E \in Nat /\ E < N
    BY <1>4, <1>5, <1>6, <2>2, <2>3
  <2>5. E <= i - 1 /\ ~(i - 1 < E) /\ i - 1 < N
    BY <1>2, <2>1, <2>4
  <2>6. StepBack(i - 1, c) = m - 1
    <3>1. CASE c = m - 1
      BY <2>2, <2>5, <3>1 DEF StepBack
    <3>2. CASE c = m
      <4>1. m > 0
        BY <1>2
      <4> QED
        BY <1>4, <2>5, <3>2, <4>1 DEF StepBack
    <3> QED
      BY <2>1, <3>1, <3>2
  <2> QED
    BY <1>1, <1>4, <2>2, <2>3, <2>5, <2>6 DEF Holds, RealSegments
<1> QED
  BY <1>8, <1>9

\* += that leaves the cursor where it is
LEMMA StayedOn ==
  ASSUME Finished, NEW i, NEW j \in 0..n, NEW c, CursorAt(c, i), c # EndIndex,
         j >= Segment(c).first, c # SentinelIndex => j < Segment(c + 1).first
  PROVE  CursorAt(c, j)
<1>1. PICK m, N : m = SentinelIndex /\ N = n
  OBVIOUS
<1>2. m \in Nat \ {0} /\ N \in Nat \ {0} /\ Segment(m).first = N
  BY <1>1 DEF Finished
<1>3. c \in 0..m
  <2>1. i \in 0..N /\ (i < N => c \in 0..m - 1) /\ (i = N => c \in {m - 1, m})
    BY <1>1 DEF CursorAt, Holds, RealSegments
  <2>2. CASE i < N
    BY <1>2, <2>1, <2>2
  <2>3. CASE ~(i < N)
    <3>1. i = N
      BY <1>2, <2>1, <2>3
    <3>2. m - 1 \in 0..m /\ m \in 0..m
      BY <1>2
    <3> QED
      BY <2>1, <3>1, <3>2
  <2> QED
    BY <2>2, <2>3
<1>4. CASE c = m
  <2>1. j = N /\ ~(j < N)
    <3>1. j >= N
      BY <1>2, <1>4
    <3> QED
      BY <1>1, <1>2, <3>1
  <2> QED
    BY <1>1, <1>4, <2>1 DEF CursorAt
<1>5. CASE c # m
  <2>1. c \in 0..m - 1 /\ c + 1 \in 0..m /\ c \in 0..m
    BY <1>2, <1>3, <1>5
  <2>2. PICK F, L : F = Segment(c).first /\ L = Segment(c + 1).first
    OBVIOUS
  <2>3. F \in Nat /\ L \in Nat /\ L <= N
    BY <1>1, <2>1, <2>2 DEF Finished
  <2>4. j >= F /\ j < L
    BY <1>1, <1>5, <2>2
  <2>5. F <= j /\ j # N
    BY <1>1, <1>2, <2>3, <2>4
  <2>6. Holds(c, j)
    BY <1>1, <2>1, <2>2, <2>4, <2>5 DEF Holds, RealSegments
  <2> QED
    BY <1>1, <2>5, <2>6 DEF CursorAt
<1> QED
  BY <1>4, <1>5

LEMMA Readable ==
  ASSUME ~AutoBpc, BuildInv, CursorInv, pc = "built"
  PROVE  Finished /\ CursorAt(cursor, at) /\ at \in 0..n
<1>1. Finished
  BY BuiltFinished
<1>2. CursorAt(cursor, at)
  BY <1>1, FirstSegmentHolds DEF CursorInv
<1> QED
  BY <1>1, <1>2 DEF CursorAt

LEMMA CursorStep ==
  ASSUME ~AutoBpc, RoomAbove, BuildInv, CursorInv, [Next]_vars
  PROVE  CursorInv'
<1>1. ASSUME pc = "built"
      PROVE  Finished /\ CursorAt(cursor, at) /\ at \in 0..n /\ n \in Nat
  BY <1>1, Readable DEF Finished
<1>2. CASE UNCHANGED vars
  BY <1>2 DEF vars, buildVars, CursorInv, CursorAt, Holds, n, SentinelIndex, EndIndex,
              RealSegments, Segment
<1>3. CASE BuildStep
  <2>1. pc = "pushing" /\ at' = at /\ cursor' = cursor
    BY <1>3 DEF BuildStep, Build, PushSegment, SplitSegment, OverflowStack, FinishBuild
  <2> QED
    BY <2>1 DEF CursorInv
<1>4. CASE Begin
  <2>1. pc = "built"
    BY <1>4 DEF Begin, MoveTo
  <2> QED
    BY <1>1, <1>4, <2>1, FirstSegmentHolds, CursorSet DEF Begin
<1>5. CASE End
  <2>1. pc = "built"
    BY <1>5 DEF End, MoveTo
  <2>2. n \in Nat /\ n \in 0..n /\ ~(n < n)
    BY <1>1, <2>1
  <2>3. CursorAt(EndIndex, n)
    BY <2>2 DEF CursorAt
  <2> QED
    BY <1>5, <2>3, CursorSet DEF End
<1>6. CASE Increment
  <2>1. PICK padding \in Paddings :
          /\ at < n
          /\ MoveTo(at + 1, Moved(StepForward(at + 1, cursor), at + 1, padding))
    BY <1>6 DEF Increment
  <2>2. pc = "built"
    BY <2>1 DEF MoveTo
  <2>3. Finished /\ CursorAt(cursor, at) /\ at \in 0..n /\ Holds(cursor, at)
    BY <1>1, <2>1, <2>2 DEF CursorAt
  <2>4. CursorAt(StepForward(at + 1, cursor), at + 1) /\ cursor # EndIndex
    BY <2>1, <2>3, SteppedForward
  <2>5. Moved(StepForward(at + 1, cursor), at + 1, padding) = StepForward(at + 1, cursor)
    BY <2>4 DEF Moved
  <2> QED
    BY <2>1, <2>4, <2>5, CursorSet
<1>7. CASE Decrement
  <2>1. PICK padding \in Paddings :
          /\ at > 0
          /\ MoveTo(at - 1, Moved(StepBack(at - 1, cursor), at - 1, padding))
    BY <1>7 DEF Decrement
  <2>2. pc = "built"
    BY <2>1 DEF MoveTo
  <2>3. Finished /\ CursorAt(cursor, at) /\ at \in 0..n /\ n \in Nat
    BY <1>1, <2>2
  <2>4. CASE cursor = EndIndex
    <3>1. at - 1 \in 0..n
      BY <2>1, <2>3
    <3>2. Moved(StepBack(at - 1, cursor), at - 1, padding) = SegmentForPosition(at - 1, padding)
      BY <2>4 DEF Moved
    <3> QED
      BY <2>1, <2>3, <3>1, <3>2, LookedUp, CursorSet
  <2>5. CASE cursor # EndIndex
    <3>1. Moved(StepBack(at - 1, cursor), at - 1, padding) = StepBack(at - 1, cursor)
      BY <2>5 DEF Moved
    <3>2. CursorAt(StepBack(at - 1, cursor), at - 1)
      BY <2>1, <2>3, <2>5, SteppedBack
    <3> QED
      BY <2>1, <3>1, <3>2, CursorSet
  <2> QED
    BY <2>4, <2>5
<1>8. ASSUME NEW value \in Keys, pc = "built", Seek(value)
      PROVE  CursorInv'
  <2>1. PICK padding \in Paddings :
          LET found == LowerBound(value, padding) IN MoveTo(found.at, found.cursor)
    BY <1>8 DEF Seek
  <2>2. PICK found : found = LowerBound(value, padding)
    OBVIOUS
  <2>3. value \in Nat
    BY WordPowers DEF Keys
  <2>4. CursorAt(found.cursor, found.at)
    BY <1>1, <1>8, <2>2, <2>3, LowerBoundFound
  <2> QED
    BY <2>1, <2>2, <2>4, CursorSet
<1>9. ASSUME NEW d \in Steps, pc = "built", Plus(d)
      PROVE  CursorInv'
  <2>1. PICK padding \in Paddings :
          at + d \in 0..n /\ MoveTo(at + d, SegmentForPosition(at + d, padding))
    BY <1>9 DEF Plus
  <2> QED
    BY <1>1, <1>9, <2>1, LookedUp, CursorSet
<1>10. ASSUME NEW d \in Steps, pc = "built", Advance(d)
       PROVE  CursorInv'
  <2>1. Finished /\ CursorAt(cursor, at) /\ at + d \in 0..n /\ cursor # EndIndex
    BY <1>1, <1>10 DEF Advance
  <2>2. ASSUME NEW padding \in Paddings, MoveTo(at + d, SegmentForPosition(at + d, padding))
        PROVE  CursorInv'
    BY <2>1, <2>2, LookedUp, CursorSet
  <2>3. ASSUME at + d >= Segment(cursor).first,
               cursor # SentinelIndex => at + d < Segment(cursor + 1).first,
               MoveTo(at + d, cursor)
        PROVE  CursorInv'
    BY <2>1, <2>3, StayedOn, CursorSet
  <2> QED
    BY <1>10, <2>2, <2>3 DEF Advance
<1> QED
  BY <1>2, <1>3, <1>4, <1>5, <1>6, <1>7, <1>8, <1>9, <1>10 DEF Next

LEMMA CursorAlways ==
  ASSUME ~AutoBpc, RoomAbove
  PROVE  Spec => [](BuildInv /\ CursorInv)
<1>1. Init => BuildInv /\ CursorInv
  BY BuildInitially DEF Init, CursorInv
<1>2. BuildInv /\ CursorInv /\ [Next]_vars => BuildInv' /\ CursorInv'
  BY ConstructionStep, CursorStep
<1> QED
  BY <1>1, <1>2, PTL DEF Spec

LEMMA IteratorTyped ==
  ASSUME ~AutoBpc, BuildInv, CursorInv
  PROVE  TypeOK
<1>1. BuildTypeOK
  BY BuildTyped
<1>2. PICK N, l : N = n /\ l = Len(segments)
  OBVIOUS
<1>3. N \in Nat /\ l \in Nat
  <2>1. segments \in Seq(Pieces) /\ data \in Datasets
    BY DEF BuildInv
  <2>2. l \in Nat
    BY <1>2, <2>1
  <2>3. N \in Nat
    BY <1>2, <2>1, DataTyped
  <2> QED
    BY <2>2, <2>3
<1>4. CASE at = 0 /\ cursor = 0
  BY <1>1, <1>2, <1>3, <1>4 DEF TypeOK
<1>5. CASE pc = "built" /\ CursorAt(cursor, at)
  <2>1. PICK m : m = SentinelIndex
    OBVIOUS
  <2>2. m \in Nat \ {0} /\ l = m + 1
    BY <1>2, <1>5, <2>1, BuiltFinished DEF Finished
  <2>3. at \in 0..N /\ (at < N => cursor \in 0..m - 1) /\ (at = N => cursor \in {m - 1, m, l})
    BY <1>2, <1>5, <2>1 DEF CursorAt, Holds, RealSegments, EndIndex
  <2>4. cursor \in 0..l
    <3>1. CASE at < N
      BY <2>2, <2>3, <3>1
    <3>2. CASE ~(at < N)
      <4>1. at = N
        BY <1>3, <2>3, <3>2
      <4>2. m - 1 \in 0..l /\ m \in 0..l /\ l \in 0..l
        BY <2>2
      <4> QED
        BY <2>3, <4>1, <4>2
    <3> QED
      BY <3>1, <3>2
  <2> QED
    BY <1>1, <1>2, <2>3, <2>4 DEF TypeOK
<1> QED
  BY <1>4, <1>5 DEF CursorInv

(* The fields of a finished segment fit the widths the code packs them in,  *)
(* and an iterator never leaves the vector: however it is moved, it is at   *)
(* one of the positions or at the end, with a cursor that is a segment, the *)
(* sentinel or segments.end() (la_vector.hpp:463-488, 588-661).             *)
THEOREM IteratorTypeCorrect ==
  ASSUME ~AutoBpc, RoomAbove
  PROVE  Spec => []TypeOK
<1>1. BuildInv /\ CursorInv => TypeOK
  BY IteratorTyped
<1> QED
  BY <1>1, CursorAlways, PTL

(* Whatever sequence of ++, --, +, -, +=, -=, lower_bound, begin and end an *)
(* iterator went through, its cursor is the segment that holds its          *)
(* position, and what it points at is the element of that position.  Not so *)
(* with += and -= on end(), which Spec leaves out (la_vector.hpp:588-661).  *)
THEOREM IteratorFollowsItsSegment ==
  ASSUME ~AutoBpc, RoomAbove
  PROVE  Spec => []IteratorOnItsSegment
<1>1. ASSUME BuildInv, CursorInv PROVE IteratorOnItsSegment
  <2> SUFFICES ASSUME pc = "built", at < n PROVE IteratorOnItsSegment
    BY DEF IteratorOnItsSegment
  <2>1. Finished /\ at \in 0..n /\ Holds(cursor, at)
    BY <1>1, Readable DEF CursorAt
  <2>2. /\ cursor \in RealSegments /\ Segment(cursor).first <= at
        /\ at < Segment(cursor + 1).first /\ at \in Nat
    BY <2>1 DEF Holds
  <2>3. Decompress(Segment(cursor), at) = Key(at)
    BY <2>1, <2>2, HolderDecodes
  <2> QED
    BY <2>2, <2>3 DEF IteratorOnItsSegment
<1> QED
  BY <1>1, CursorAlways, PTL

\* A finished vector answers lower_bound exactly.
LEMMA LowerBoundExact ==
  ASSUME ~AutoBpc, RoomAbove, BuildInv
  PROVE  LowerBoundIsExact
<1> SUFFICES ASSUME pc = "built", NEW value \in Keys, NEW padding \in Paddings,
                    NEW found, found = LowerBound(value, padding)
             PROVE  /\ found.at = Cardinality({p \in 0..n - 1 : Key(p) < value})
                    /\ found.at < n => found.cursor = SegmentOf(found.at)
  BY DEF LowerBoundIsExact
<1>1. Finished /\ n \in Nat /\ value \in Nat
  BY BuiltFinished, WordPowers DEF Finished, Keys
<1>2. /\ CursorAt(found.cursor, found.at)
      /\ \A p \in 0..n - 1 : Key(p) < value <=> p < found.at
  BY <1>1, LowerBoundFound
<1>3. PICK r, N : r = found.at /\ N = n
  OBVIOUS
<1>4. N \in Nat /\ r \in 0..N /\ r \in Nat
  BY <1>1, <1>2, <1>3 DEF CursorAt
<1>5. {p \in 0..N - 1 : Key(p) < value} = 0..r - 1
  <2>1. \A p : p \in 0..N - 1 /\ p < r <=> p \in 0..r - 1
    BY <1>4
  <2>2. \A p \in 0..N - 1 : Key(p) < value <=> p < r
    BY <1>2, <1>3
  <2> QED
    BY <2>1, <2>2
<1>6. Cardinality(0..r - 1) = r
  <2>1. 0 \in Int /\ r - 1 \in Int
    BY <1>4
  <2>2. Cardinality(0..r - 1) = IF 0 > r - 1 THEN 0 ELSE (r - 1) - 0 + 1
    BY <2>1, FS_Interval
  <2> QED
    BY <1>4, <2>2
<1>7. found.at < n => found.cursor = SegmentOf(found.at)
  <2> SUFFICES ASSUME found.at < n PROVE found.cursor = SegmentOf(found.at)
    OBVIOUS
  <2>1. Holds(found.cursor, found.at)
    BY <1>2 DEF CursorAt
  <2>2. r \in 0..N - 1
    BY <1>3, <1>4
  <2> QED
    BY <1>1, <1>3, <2>1, <2>2, SegmentOfHolds
<1> QED
  BY <1>3, <1>5, <1>6, <1>7

(* lower_bound, and with it rank, stops at the number of elements below     *)
(* the value, on the segment of that position: the interval around the      *)
(* guess of approximate_position contains the answer and the searches on    *)
(* the samples and by halving keep it (la_vector.hpp:131-238).              *)
THEOREM LowerBoundAlwaysExact ==
  ASSUME ~AutoBpc, RoomAbove
  PROVE  Spec => []LowerBoundIsExact
<1>1. BuildInv => LowerBoundIsExact
  BY LowerBoundExact
<1> QED
  BY <1>1, ConstructionInvariant, PTL
===============================================================================
