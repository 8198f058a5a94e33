------------------------- MODULE SegmentationProofs -------------------------
(***************************************************************************)
(* The parallel segmentation, for every input, error bound and number of   *)
(* threads: the segments that the caller receives serve all points of the  *)
(* input, however the threads are interleaved and wherever the chunks end, *)
(* and they are at most one more per boundary of chunks than the fewest    *)
(* possible.  Each segment that is cut off before the end of a chunk was   *)
(* cut because no line fits its points and the next one, so any            *)
(* segmentation cuts in between.                                           *)
(***************************************************************************)
EXTENDS Segmentation, ModelTheorems, FiniteSetTheorems

-----------------------------------------------------------------------------
(* Segments of a range of positions, of an input that is sorted by x.      *)

SortedPoints(ins) ==
  /\ ins \in Seq(StoredPoints)
  /\ \A j, k \in DOMAIN ins : j <= k => ins[j].x <= ins[k].x

NewAt(ins, k) == k = 0 \/ ins[k + 1].x # ins[k].x

\* Segment h of rs is the one responsible for the point at position k, and
\* passes within eps of it.
ServedBy(ins, eps, rs, k, h) ==
  /\ rs[h].first <= ins[k + 1].x
  /\ h < Len(rs) => ins[k + 1].x < rs[h + 1].first
  /\ Fits(rs[h], ins[k + 1], eps)

\* The segments rs serve the points with a new x at positions a to e - 1.
Serves(ins, eps, rs, a, e) ==
  /\ \A h, l \in 1..Len(rs) : h < l => rs[h].first < rs[l].first
  /\ \A h \in 1..Len(rs) : \E k \in a..e - 1 : NewAt(ins, k) /\ rs[h].first = ins[k + 1].x
  /\ \A k \in a..e - 1 : NewAt(ins, k) => \E h \in 1..Len(rs) : ServedBy(ins, eps, rs, k, h)

\* A new x is greater than all before it.
LEMMA NewBeyond ==
  ASSUME NEW ins, SortedPoints(ins), NEW j \in Nat, NEW k \in Nat, j < k, k < Len(ins)
  PROVE  /\ ins[j + 1].x \in Nat /\ ins[k + 1].x \in Nat /\ ins[k].x \in Nat
         /\ ins[j + 1].x <= ins[k].x /\ ins[k].x <= ins[k + 1].x
         /\ NewAt(ins, k) => ins[j + 1].x < ins[k + 1].x
<1>1. ins \in Seq(StoredPoints) /\ Len(ins) \in Nat /\ DOMAIN ins = 1..Len(ins)
  BY DEF SortedPoints
<1>2. j + 1 \in 1..Len(ins) /\ k + 1 \in 1..Len(ins) /\ k \in 1..Len(ins) /\ j + 1 <= k /\ k <= k + 1
  BY <1>1
<1>3. ins[j + 1].x \in Nat /\ ins[k + 1].x \in Nat /\ ins[k].x \in Nat
  BY <1>1, <1>2, StoredPointParts
<1>4. ins[j + 1].x <= ins[k].x /\ ins[k].x <= ins[k + 1].x
  BY <1>1, <1>2 DEF SortedPoints
<1>5. ASSUME NewAt(ins, k) PROVE ins[j + 1].x < ins[k + 1].x
  <2>1. ins[k + 1].x # ins[k].x
    BY <1>5 DEF NewAt
  <2> QED
    BY <1>3, <1>4, <2>1
<1> QED
  BY <1>3, <1>4, <1>5

\* No segment serves a range without new x.
LEMMA ServesNothing ==
  ASSUME NEW ins, NEW eps, NEW a \in Nat, NEW e \in Nat, \A k \in a..e - 1 : ~NewAt(ins, k)
  PROVE  Serves(ins, eps, <<>>, a, e)
<1>1. Len(<<>>) = 0 /\ 1..0 = {}
  OBVIOUS
<1> QED
  BY <1>1 DEF Serves

\* One segment serves a range whose new points it all fits.
LEMMA ServesAlone ==
  ASSUME NEW ins, SortedPoints(ins), NEW eps, NEW a \in Nat, NEW e \in Nat, a < e, e <= Len(ins),
         NEW s, NewAt(ins, a), s.first = ins[a + 1].x,
         \A k \in a..e - 1 : NewAt(ins, k) => Fits(s, ins[k + 1], eps)
  PROVE  Serves(ins, eps, <<s>>, a, e)
<1>1. Len(<<s>>) = 1 /\ <<s>>[1] = s /\ 1..1 = {1}
  OBVIOUS
<1>2. a \in a..e - 1 /\ Len(ins) \in Nat
  BY DEF SortedPoints
<1>3. ASSUME NEW k \in a..e - 1, NewAt(ins, k) PROVE ServedBy(ins, eps, <<s>>, k, 1)
  <2>1. ins[a + 1].x <= ins[k + 1].x
    <3>1. k \in Nat /\ k < Len(ins) /\ (k = a \/ a < k)
      BY <1>2
    <3>2. CASE a < k
      <4>1. ins[a + 1].x < ins[k + 1].x /\ ins[a + 1].x \in Nat /\ ins[k + 1].x \in Nat
        BY <1>3, <3>1, <3>2, NewBeyond
      <4> QED
        BY <4>1
    <3>3. CASE k = a
      <4>1. a + 1 \in 1..Len(ins)
        BY <3>1, <3>3
      <4>2. ins[a + 1].x \in Nat
        BY <4>1, StoredPointParts DEF SortedPoints
      <4> QED
        BY <3>3, <4>2
    <3> QED
      BY <3>1, <3>2, <3>3
  <2>2. Fits(s, ins[k + 1], eps)
    BY <1>3
  <2> QED
    BY <1>1, <2>1, <2>2 DEF ServedBy
<1>4. \E k \in a..e - 1 : NewAt(ins, k) /\ s.first = ins[k + 1].x
  BY <1>2
<1> QED
  BY <1>1, <1>3, <1>4 DEF Serves

\* Segments of adjacent ranges, one after the other.
LEMMA ServesTogether ==
  ASSUME NEW ins, SortedPoints(ins), NEW eps, NEW a \in Nat, NEW b \in Nat, NEW e \in Nat,
         a <= b, b <= e, e <= Len(ins), NEW rs \in Seq(SegmentRecords), NEW ss \in Seq(SegmentRecords),
         Serves(ins, eps, rs, a, b), Serves(ins, eps, ss, b, e)
  PROVE  Serves(ins, eps, rs \o ss, a, e)
<1> DEFINE ts == rs \o ss
           m == Len(rs)
           n == Len(ss)
<1>1. /\ m \in Nat /\ n \in Nat /\ Len(ts) = m + n
      /\ \A h \in 1..m : ts[h] = rs[h]
      /\ \A h \in 1..n : ts[m + h] = ss[h]
  OBVIOUS
<1>2. Len(ins) \in Nat
  BY DEF SortedPoints
<1>3. \A h \in 1..m + n : h \in 1..m \/ (h - m \in 1..n /\ h = m + (h - m))
  BY <1>1
<1> HIDE DEF ts, m, n
<1>4. ASSUME NEW h \in 1..m PROVE \E k \in a..b - 1 : NewAt(ins, k) /\ ts[h].first = ins[k + 1].x
  <2>1. \E k \in a..b - 1 : NewAt(ins, k) /\ rs[h].first = ins[k + 1].x
    BY Zenon DEF Serves, m
  <2> QED
    BY <1>1, <2>1
<1>5. ASSUME NEW h \in 1..n PROVE \E k \in b..e - 1 : NewAt(ins, k) /\ ts[m + h].first = ins[k + 1].x
  <2>1. \E k \in b..e - 1 : NewAt(ins, k) /\ ss[h].first = ins[k + 1].x
    BY Zenon DEF Serves, n
  <2> QED
    BY <1>1, <2>1
<1>6. ASSUME NEW j \in a..b - 1, NEW h \in 1..n
      PROVE  ins[j + 1].x < ts[m + h].first
  <2>1. PICK k \in b..e - 1 : NewAt(ins, k) /\ ts[m + h].first = ins[k + 1].x
    BY <1>5
  <2>2. j \in Nat /\ k \in Nat /\ j < k /\ k < Len(ins)
    BY <1>2
  <2> QED
    BY <2>1, <2>2, NewBeyond
<1>7. ASSUME NEW h \in 1..m + n, NEW l \in 1..m + n, h < l PROVE ts[h].first < ts[l].first
  <2>1. CASE l \in 1..m
    <3>1. h \in 1..m
      BY <1>1, <1>7, <2>1
    <3> QED
      BY <1>1, <1>7, <2>1, <3>1 DEF Serves, m
  <2>2. CASE h \in 1..m /\ l - m \in 1..n
    <3>1. PICK k \in a..b - 1 : ts[h].first = ins[k + 1].x
      BY <1>4, <2>2
    <3>2. l = m + (l - m)
      BY <1>1
    <3> QED
      BY <1>6, <2>2, <3>1, <3>2
  <2>3. CASE h - m \in 1..n /\ l - m \in 1..n
    <3>1. h - m < l - m /\ h = m + (h - m) /\ l = m + (l - m)
      BY <1>1, <1>7
    <3>2. ss[h - m].first < ss[l - m].first
      BY <2>3, <3>1 DEF Serves, n
    <3>3. ts[h] = ss[h - m] /\ ts[l] = ss[l - m]
      BY <1>1, <2>3, <3>1
    <3> QED
      BY <3>2, <3>3
  <2>4. ~(h - m \in 1..n /\ l \in 1..m)
    BY <1>1, <1>7
  <2> QED
    BY <1>3, <2>1, <2>2, <2>3, <2>4
<1>8. ASSUME NEW h \in 1..m + n PROVE \E k \in a..e - 1 : NewAt(ins, k) /\ ts[h].first = ins[k + 1].x
  <2>1. a..b - 1 \subseteq a..e - 1 /\ b..e - 1 \subseteq a..e - 1
    OBVIOUS
  <2>2. CASE h \in 1..m
    BY <1>4, <2>1, <2>2
  <2>3. CASE h - m \in 1..n /\ h = m + (h - m)
    BY <1>5, <2>1, <2>3
  <2> QED
    BY <1>3, <2>2, <2>3
<1>9. ASSUME NEW k \in a..e - 1, NewAt(ins, k) PROVE \E h \in 1..m + n : ServedBy(ins, eps, ts, k, h)
  <2>1. CASE k \in a..b - 1
    <3>1. PICK h \in 1..m : ServedBy(ins, eps, rs, k, h)
      BY <1>9, <2>1 DEF Serves, m
    <3>2. h \in 1..m + n /\ ts[h] = rs[h]
      BY <1>1
    <3>3. ASSUME h < m + n PROVE ins[k + 1].x < ts[h + 1].first
      <4>1. CASE h < m
        <5>1. h + 1 \in 1..m
          BY <1>1, <4>1
        <5> QED
          BY <1>1, <3>1, <4>1, <5>1 DEF ServedBy, m
      <4>2. CASE h = m
        <5>1. 1 \in 1..n
          BY <1>1, <3>3, <4>2
        <5> QED
          BY <1>6, <2>1, <4>2, <5>1
      <4> QED
        BY <1>1, <4>1, <4>2
    <3>4. ServedBy(ins, eps, ts, k, h)
      BY <1>1, <3>1, <3>2, <3>3 DEF ServedBy
    <3> QED
      BY <3>2, <3>4
  <2>2. CASE k \in b..e - 1
    <3>1. PICK h \in 1..n : ServedBy(ins, eps, ss, k, h)
      BY <1>9, <2>2 DEF Serves, n
    <3>2. m + h \in 1..m + n /\ ts[m + h] = ss[h] /\ (m + h) + 1 = m + (h + 1)
      BY SMTT(30), <1>1
    <3>3. ASSUME m + h < m + n PROVE ins[k + 1].x < ts[(m + h) + 1].first
      <4>1. h + 1 \in 1..n /\ h < n
        BY <1>1, <3>3
      <4> QED
        BY <1>1, <3>1, <3>2, <4>1 DEF ServedBy, n
    <3>4. ServedBy(ins, eps, ts, k, m + h)
      BY <1>1, <3>1, <3>2, <3>3 DEF ServedBy
    <3> QED
      BY <3>2, <3>4
  <2> QED
    BY <2>1, <2>2
<1>10. Serves(ins, eps, ts, a, e)
  BY <1>1, <1>7, <1>8, <1>9 DEF Serves
<1> QED
  BY <1>10 DEF ts

-----------------------------------------------------------------------------
(* A thread inside its chunk.                                              *)

\* The positions the model counts, from the first of the segment.
NewSpan(ins, a, c) == {k \in a..c - 1 : k = a \/ NewAt(ins, k)}

\* The points ps include all new points of a range of positions.
Include(ins, ps, a, c) ==
  \A k \in a..c - 1 : NewAt(ins, k) => \E j \in DOMAIN ps : ps[j] = ins[k + 1]

\* They are no others.
Within(ins, ps, a, c) ==
  \A j \in DOMAIN ps : \E k \in a..c - 1 : NewAt(ins, k) /\ ps[j] = ins[k + 1]

\* In the chunk b..e the segment open since s0 has read the positions before
\* nx: what was emitted serves the chunk up to s0, and the model describes the
\* points of the open segment.
Scanning(ins, eps, b, e, s0, nx, m, rs) ==
  /\ s0 \in b..e - 1 /\ nx \in s0..e /\ NewAt(ins, s0)
  /\ rs \in Seq(SegmentRecords) /\ Serves(ins, eps, rs, b, s0)
  /\ WellFormed(m) /\ m.epsilon = eps
  /\ m.pointsInHull = Cardinality(NewSpan(ins, s0, nx))
  /\ nx > s0 => m.pointsInHull > 0 /\ m.lastX = ins[nx].x /\ m.firstX = ins[s0 + 1].x
  /\ \E ps \in Seq(StoredPoints) :
       Tracks(m, ps) /\ Include(ins, ps, s0, nx) /\ (nx > s0 => Within(ins, ps, s0, nx))

\* One more position is counted when its x is new, or it is the first.
LEMMA SpanGrows ==
  ASSUME NEW ins, NEW a \in Nat, NEW c \in Nat, a <= c
  PROVE  /\ Cardinality(NewSpan(ins, a, a)) = 0
         /\ c = a \/ NewAt(ins, c) =>
              Cardinality(NewSpan(ins, a, c + 1)) = Cardinality(NewSpan(ins, a, c)) + 1
         /\ ~(c = a \/ NewAt(ins, c)) => NewSpan(ins, a, c + 1) = NewSpan(ins, a, c)
<1>1. NewSpan(ins, a, a) = {}
  BY DEF NewSpan
<1>2. IsFiniteSet(NewSpan(ins, a, c))
  <2>1. IsFiniteSet(a..c - 1) /\ NewSpan(ins, a, c) \in SUBSET (a..c - 1)
    BY FS_Interval DEF NewSpan
  <2> QED
    BY <2>1, FS_Subset
<1>3. c \notin NewSpan(ins, a, c)
  BY DEF NewSpan
<1>4. a..(c + 1) - 1 = (a..c - 1) \cup {c}
  OBVIOUS
<1>5. ASSUME c = a \/ NewAt(ins, c) PROVE NewSpan(ins, a, c + 1) = NewSpan(ins, a, c) \cup {c}
  BY <1>4, <1>5 DEF NewSpan
<1>6. ASSUME ~(c = a \/ NewAt(ins, c)) PROVE NewSpan(ins, a, c + 1) = NewSpan(ins, a, c)
  BY <1>4, <1>6 DEF NewSpan
<1>7. Cardinality(NewSpan(ins, a, a)) = 0
  BY <1>1, FS_EmptySet
<1>8. ASSUME c = a \/ NewAt(ins, c)
      PROVE  Cardinality(NewSpan(ins, a, c + 1)) = Cardinality(NewSpan(ins, a, c)) + 1
  BY <1>2, <1>3, <1>5, <1>8, FS_AddElement
<1> QED
  BY <1>6, <1>7, <1>8

\* The point that a thread reads next lies to the right of its model.
LEMMA NextPoint ==
  ASSUME NEW ins, SortedPoints(ins), NEW eps, NEW b \in Nat, NEW e \in Nat, e <= Len(ins),
         NEW s0, NEW nx, NEW m, NEW rs,
         Scanning(ins, eps, b, e, s0, nx, m, rs), nx < e, nx = s0 \/ NewAt(ins, nx)
  PROVE  /\ s0 \in Nat /\ nx \in Nat /\ nx + 1 \in 1..Len(ins)
         /\ ins[nx + 1] \in StoredPoints
         /\ ins[nx + 1].x \in Nat /\ ins[nx + 1].y \in Nat
         /\ ins[nx + 1] = Point(ins[nx + 1].x, ins[nx + 1].y)
         /\ m.pointsInHull > 0 => nx > s0 /\ ins[nx + 1].x > m.lastX
<1>1. s0 \in b..e - 1 /\ nx \in s0..e
  BY DEF Scanning
<1>2. s0 \in Nat /\ nx \in Nat /\ nx + 1 \in 1..Len(ins) /\ s0 <= nx
  BY <1>1 DEF SortedPoints
<1>3. ins[nx + 1] \in StoredPoints /\ ins[nx + 1].x \in Nat /\ ins[nx + 1].y \in Nat
  BY <1>2, StoredPointParts DEF SortedPoints
<1>4. ins[nx + 1] = Point(ins[nx + 1].x, ins[nx + 1].y)
  BY <1>3 DEF StoredPoints, Point
<1>5. ASSUME m.pointsInHull > 0 PROVE nx > s0 /\ ins[nx + 1].x > m.lastX
  <2>1. nx # s0
    BY <1>2, <1>5, SpanGrows DEF Scanning
  <2>2. nx > s0 /\ m.lastX = ins[nx].x /\ NewAt(ins, nx)
    BY <1>2, <2>1 DEF Scanning
  <2>3. nx - 1 \in Nat /\ nx - 1 < nx /\ nx < Len(ins) /\ (nx - 1) + 1 = nx
    BY <1>2, <2>2 DEF SortedPoints
  <2>4. ins[(nx - 1) + 1].x \in Nat /\ ins[(nx - 1) + 1].x < ins[nx + 1].x
    BY <1>2, <2>2, <2>3, NewBeyond
  <2> QED
    BY <1>3, <2>2, <2>3, <2>4
<1> QED
  BY <1>2, <1>3, <1>4, <1>5

\* An accepted point joins the segment.
LEMMA TakeKeeps ==
  ASSUME NEW ins, SortedPoints(ins), NEW eps, NEW b \in Nat, NEW e \in Nat, e <= Len(ins),
         NEW s0, NEW nx, NEW m, NEW rs,
         Scanning(ins, eps, b, e, s0, nx, m, rs), nx < e, nx = s0 \/ NewAt(ins, nx),
         Accepts(m, ins[nx + 1].x, ins[nx + 1].y)
  PROVE  Scanning(ins, eps, b, e, s0, nx + 1, AddPoint(m, ins[nx + 1].x, ins[nx + 1].y), rs)
<1> DEFINE q == ins[nx + 1]
           x == q.x
           y == q.y
           r == AddPoint(m, x, y)
<1>1. /\ s0 \in Nat /\ nx \in Nat /\ q \in StoredPoints /\ x \in Nat /\ y \in Nat /\ q = Point(x, y)
      /\ m.pointsInHull > 0 => nx > s0 /\ x > m.lastX
  BY NextPoint
<1>2. /\ s0 \in b..e - 1 /\ nx \in s0..e /\ NewAt(ins, s0) /\ WellFormed(m) /\ m.epsilon = eps
      /\ rs \in Seq(SegmentRecords) /\ Serves(ins, eps, rs, b, s0)
      /\ m.pointsInHull = Cardinality(NewSpan(ins, s0, nx))
      /\ nx > s0 => m.pointsInHull > 0 /\ m.lastX = ins[nx].x /\ m.firstX = ins[s0 + 1].x
  BY DEF Scanning
<1>3. PICK ps \in Seq(StoredPoints) :
        Tracks(m, ps) /\ Include(ins, ps, s0, nx) /\ (nx > s0 => Within(ins, ps, s0, nx))
  BY DEF Scanning
<1>4. Accepts(m, x, y)
  OBVIOUS
<1>5. m.pointsInHull \in Nat
  BY <1>2, ModelParts DEF WellFormed
<1> HIDE DEF q, r, x, y
<1>6. WellFormed(r)
  BY <1>1, <1>2, AddPointWellFormed DEF r
<1>7. /\ r.lastX = x /\ r.pointsInHull = m.pointsInHull + 1
      /\ r.firstX = IF m.pointsInHull = 0 THEN x ELSE m.firstX
  BY <1>1, <1>2, <1>4, AddPointCounters DEF r
<1> DEFINE begun == IF m.pointsInHull = 0 THEN <<>> ELSE ps
<1>8. r.epsilon = m.epsilon /\ Tracks(r, Append(begun, Point(x, y)))
  BY <1>1, <1>2, <1>3, <1>4, AddPointTracks DEF r
<1>9. r.pointsInHull = Cardinality(NewSpan(ins, s0, nx + 1))
  <2>1. s0 <= nx
    BY <1>1, <1>2
  <2>2. Cardinality(NewSpan(ins, s0, nx + 1)) = Cardinality(NewSpan(ins, s0, nx)) + 1
    BY <1>1, <2>1, SpanGrows
  <2> QED
    BY <1>2, <1>7, <2>2
<1>10. r.firstX = ins[s0 + 1].x
  <2>1. CASE nx = s0
    BY <1>1, <1>2, <1>5, <1>7, <2>1 DEF q, x
  <2>2. CASE nx > s0
    BY <1>2, <1>7, <2>2
  <2> QED
    BY <1>1, <1>2, <2>1, <2>2
<1>11. begun \in Seq(StoredPoints) /\ <<>> \in Seq(StoredPoints)
  BY <1>3
<1>12. Include(ins, begun, s0, nx)
  <2>1. CASE m.pointsInHull = 0
    <3>1. s0..nx - 1 = {}
      BY <1>1, <1>2, <2>1
    <3> QED
      BY <3>1 DEF Include
  <2>2. CASE m.pointsInHull # 0
    BY <1>3, <2>2
  <2> QED
    BY <2>1, <2>2
<1> HIDE DEF begun
<1> DEFINE full == Append(begun, q)
<1>13. /\ full \in Seq(StoredPoints) /\ DOMAIN begun \subseteq DOMAIN full
       /\ \A j \in DOMAIN begun : full[j] = begun[j]
       /\ \E j \in DOMAIN full : full[j] = q
       /\ \A j \in DOMAIN full : j \in DOMAIN begun \/ full[j] = q
  <2>1. full \in Seq(StoredPoints) /\ Len(full) = Len(begun) + 1 /\ full[Len(begun) + 1] = q
    BY <1>1, <1>11
  <2>2. \A j \in 1..Len(begun) : full[j] = begun[j]
    BY <1>1, <1>11
  <2>3. Len(begun) \in Nat /\ DOMAIN begun = 1..Len(begun) /\ DOMAIN full = 1..Len(begun) + 1
    BY <1>11, <2>1
  <2> QED
    BY SMTT(30), <2>1, <2>2, <2>3
<1> HIDE DEF full
<1>14. Include(ins, full, s0, nx + 1)
  <2> SUFFICES ASSUME NEW k \in s0..(nx + 1) - 1, NewAt(ins, k)
               PROVE  \E j \in DOMAIN full : full[j] = ins[k + 1]
    BY DEF Include
  <2>1. CASE k = nx
    BY <1>13, <2>1 DEF q
  <2>2. CASE k \in s0..nx - 1
    BY <1>12, <1>13, <2>2 DEF Include
  <2> QED
    BY <1>1, <2>1, <2>2
<1>15. Tracks(r, full)
  BY <1>1, <1>8 DEF full
<1>16. Within(ins, begun, s0, nx)
  <2>1. CASE m.pointsInHull = 0
    <3>1. DOMAIN begun = {}
      BY <2>1 DEF begun
    <3> QED
      BY <3>1 DEF Within
  <2>2. CASE m.pointsInHull # 0
    <3>1. nx > s0 /\ begun = ps
      BY <1>1, <1>5, <2>2 DEF begun
    <3> QED
      BY <1>3, <3>1
  <2> QED
    BY <2>1, <2>2
<1>17. NewAt(ins, nx)
  BY <1>2
<1>18. Within(ins, full, s0, nx + 1)
  <2> SUFFICES ASSUME NEW j \in DOMAIN full
               PROVE  \E k \in s0..(nx + 1) - 1 : NewAt(ins, k) /\ full[j] = ins[k + 1]
    BY DEF Within
  <2>1. CASE j \in DOMAIN begun
    <3>1. PICK k \in s0..nx - 1 : NewAt(ins, k) /\ begun[j] = ins[k + 1]
      BY <1>16, <2>1 DEF Within
    <3>2. k \in s0..(nx + 1) - 1 /\ full[j] = begun[j]
      BY <1>1, <1>13, <2>1, <3>1
    <3> QED
      BY <3>1, <3>2
  <2>2. CASE j \notin DOMAIN begun
    <3>1. full[j] = q
      BY <1>13, <2>2
    <3>2. nx \in s0..(nx + 1) - 1
      BY <1>1, <1>2
    <3> QED
      BY <1>17, <3>1, <3>2 DEF q
  <2> QED
    BY <2>1, <2>2
<1>19. nx + 1 \in s0..e /\ nx + 1 > s0 /\ r.pointsInHull > 0 /\ ins[nx + 1].x = x
  BY <1>1, <1>2, <1>5, <1>7 DEF x, q
<1>20. Scanning(ins, eps, b, e, s0, nx + 1, r, rs)
  BY <1>2, <1>6, <1>7, <1>8, <1>9, <1>10, <1>13, <1>14, <1>15, <1>19, <1>18 DEF Scanning
<1> QED
  BY <1>20 DEF r, x, y, q

\* A point with the x of the one before it is passed over.
LEMMA SkipKeeps ==
  ASSUME NEW ins, NEW eps, NEW b \in Nat, NEW e \in Nat, NEW s0, NEW nx, NEW m, NEW rs,
         Scanning(ins, eps, b, e, s0, nx, m, rs), nx < e, nx # s0, ~NewAt(ins, nx)
  PROVE  Scanning(ins, eps, b, e, s0, nx + 1, m, rs)
<1>1. /\ s0 \in b..e - 1 /\ nx \in s0..e /\ NewAt(ins, s0) /\ WellFormed(m) /\ m.epsilon = eps
      /\ rs \in Seq(SegmentRecords) /\ Serves(ins, eps, rs, b, s0)
      /\ m.pointsInHull = Cardinality(NewSpan(ins, s0, nx))
      /\ nx > s0 => m.pointsInHull > 0 /\ m.lastX = ins[nx].x /\ m.firstX = ins[s0 + 1].x
  BY DEF Scanning
<1>2. PICK ps \in Seq(StoredPoints) :
        Tracks(m, ps) /\ Include(ins, ps, s0, nx) /\ (nx > s0 => Within(ins, ps, s0, nx))
  BY DEF Scanning
<1>3. s0 \in Nat /\ nx \in Nat /\ nx > s0 /\ s0 <= nx /\ nx + 1 \in s0..e
  BY <1>1
<1>4. NewSpan(ins, s0, nx + 1) = NewSpan(ins, s0, nx)
  BY <1>3, SpanGrows
<1>5. Include(ins, ps, s0, nx + 1)
  <2> SUFFICES ASSUME NEW k \in s0..(nx + 1) - 1, NewAt(ins, k)
               PROVE  \E j \in DOMAIN ps : ps[j] = ins[k + 1]
    BY DEF Include
  <2>1. k # nx
    OBVIOUS
  <2>2. k \in s0..nx - 1
    BY <1>3, <2>1
  <2> QED
    BY <1>2, <2>2 DEF Include
<1>6. ins[nx + 1].x = ins[nx].x
  BY DEF NewAt
<1>7. Within(ins, ps, s0, nx + 1)
  <2>1. s0..nx - 1 \subseteq s0..(nx + 1) - 1
    BY <1>3
  <2>2. Within(ins, ps, s0, nx)
    BY <1>2, <1>3
  <2> QED
    BY <2>1, <2>2 DEF Within
<1> QED
  BY <1>1, <1>2, <1>3, <1>4, <1>5, <1>6, <1>7 DEF Scanning

\* The segment of a model that has taken all points of a range serves it.
LEMMA SegmentAdded ==
  ASSUME NEW ins, SortedPoints(ins), NEW eps, NEW b \in Nat, NEW e \in Nat, e <= Len(ins),
         NEW s0, NEW nx, NEW m, NEW rs, Scanning(ins, eps, b, e, s0, nx, m, rs), nx > s0,
         NEW s \in SegmentRecords, s.first = m.firstX,
         \A ps \in Seq(StoredPoints) : Tracks(m, ps) /\ Include(ins, ps, s0, nx) =>
           \A k \in s0..nx - 1 : NewAt(ins, k) => Fits(s, ins[k + 1], eps)
  PROVE  Append(rs, s) \in Seq(SegmentRecords) /\ Serves(ins, eps, Append(rs, s), b, nx)
<1>1. /\ s0 \in b..e - 1 /\ nx \in s0..e /\ NewAt(ins, s0) /\ s.first = ins[s0 + 1].x
      /\ rs \in Seq(SegmentRecords) /\ Serves(ins, eps, rs, b, s0)
  BY DEF Scanning
<1>2. \A k \in s0..nx - 1 : NewAt(ins, k) => Fits(s, ins[k + 1], eps)
  BY DEF Scanning
<1>3. s0 \in Nat /\ nx \in Nat /\ b <= s0 /\ s0 < nx /\ s0 <= nx /\ nx <= Len(ins)
  BY <1>1 DEF SortedPoints
<1>4. Serves(ins, eps, <<s>>, s0, nx)
  BY <1>1, <1>2, <1>3, ServesAlone
<1>5. <<s>> \in Seq(SegmentRecords) /\ Append(rs, s) = rs \o <<s>>
  BY <1>1
<1>6. Serves(ins, eps, rs \o <<s>>, b, nx)
  BY <1>1, <1>3, <1>4, <1>5, ServesTogether
<1> QED
  BY <1>1, <1>5, <1>6

\* With two points or more the lines of the model fit what it has taken.
LEMMA LinesFit ==
  ASSUME NEW m \in Models, NEW ps \in Seq(StoredPoints), Tracks(m, ps), m.pointsInHull >= 2,
         NEW s, s.rectangle = m.rectangle, NEW j \in DOMAIN ps
  PROVE  Fits(s, ps[j], m.epsilon)
<1> DEFINE r == m.rectangle
           q == ps[j]
<1>1. Len(ps) >= 2
  BY DEF Tracks
<1>2. /\ r[0] \in Plane /\ r[2] \in Plane /\ r[0].x < r[2].x
      /\ LineFits(r[0], r[2], ps, m.epsilon) /\ LineFits(r[1], r[3], ps, m.epsilon)
  BY <1>1, TracksFits
<1>3. DOMAIN <<q>> = {1} /\ <<q>>[1] = q
  OBVIOUS
<1>4. LineFits(r[0], r[2], <<q>>, m.epsilon) /\ LineFits(r[1], r[3], <<q>>, m.epsilon)
  <2> HIDE DEF r
  <2>1. LineFits(r[0], r[2], <<q>>, m.epsilon)
    BY <1>2, <1>3 DEF LineFits
  <2>2. LineFits(r[1], r[3], <<q>>, m.epsilon)
    BY <1>2, <1>3 DEF LineFits
  <2> QED
    BY <2>1, <2>2
<1>5. ~OnePoint(s)
  <2>1. r[0] # r[2]
    BY <1>2 DEF Plane
  <2> QED
    BY <2>1 DEF OnePoint
<1> QED
  BY <1>4, <1>5 DEF Fits

\* A refused point closes the segment, and opens the next one.
LEMMA CutKeeps ==
  ASSUME NEW ins, SortedPoints(ins), NEW eps, NEW b \in Nat, NEW e \in Nat, e <= Len(ins),
         NEW s0, NEW nx, NEW m, NEW rs,
         Scanning(ins, eps, b, e, s0, nx, m, rs), nx < e, nx = s0 \/ NewAt(ins, nx),
         ~Accepts(m, ins[nx + 1].x, ins[nx + 1].y),
         NEW r, r = AddPoint(m, ins[nx + 1].x, ins[nx + 1].y)
  PROVE  Scanning(ins, eps, b, e, nx, nx, r, Append(rs, GetSegment(r)))
<1> DEFINE x == ins[nx + 1].x
           s == GetSegment(r)
<1>1. /\ s0 \in Nat /\ nx \in Nat /\ x \in Nat /\ ins[nx + 1].y \in Nat
      /\ m.pointsInHull > 0 => nx > s0 /\ x > m.lastX
  BY NextPoint
<1>2. /\ s0 \in b..e - 1 /\ nx \in s0..e /\ NewAt(ins, s0) /\ WellFormed(m) /\ m.epsilon = eps
      /\ m \in Models
  BY DEF Scanning, WellFormed
<1>3. r = Refuse(m, x) /\ m.pointsInHull >= 2
  BY SMTT(30), <1>1, <1>2, AddPointCounters
<1>4. nx > s0 /\ NewAt(ins, nx)
  <2>1. nx > s0
    BY <1>1, <1>2, <1>3, ModelParts
  <2> QED
    BY <1>1, <2>1
<1> HIDE DEF x
<1>5. WellFormed(r) /\ r \in Models
  <2>1. WellFormed(r)
    BY <1>1, <1>2, <1>3, EmptiedWellFormed
  <2> QED
    BY <2>1 DEF WellFormed
<1>6. r.pointsInHull = 0 /\ r.firstX = m.firstX /\ r.rectangle = m.rectangle /\ r.epsilon = eps
  BY <1>2, <1>3 DEF Refuse, Models
<1>7. s \in SegmentRecords /\ s.first = m.firstX /\ s.rectangle = m.rectangle
  BY <1>5, <1>6, SegmentTyped DEF GetSegment
<1> HIDE DEF s
<1>8. ASSUME NEW ps \in Seq(StoredPoints), Tracks(m, ps), Include(ins, ps, s0, nx),
             NEW k \in s0..nx - 1, NewAt(ins, k)
      PROVE  Fits(s, ins[k + 1], eps)
  <2>1. PICK j \in DOMAIN ps : ps[j] = ins[k + 1]
    BY <1>8 DEF Include
  <2> QED
    BY <1>2, <1>3, <1>7, <1>8, <2>1, LinesFit
<1>9. Append(rs, s) \in Seq(SegmentRecords) /\ Serves(ins, eps, Append(rs, s), b, nx)
  BY <1>4, <1>7, <1>8, SegmentAdded
<1>10. PICK ps \in Seq(StoredPoints) : Tracks(m, ps)
  BY DEF Scanning
<1>11. Tracks(r, ps)
  BY <1>1, <1>2, <1>3, <1>10, EmptiedTracks
<1>12. Include(ins, ps, nx, nx)
  <2>1. nx..nx - 1 = {}
    BY <1>1
  <2> QED
    BY <2>1 DEF Include
<1>13. r.pointsInHull = Cardinality(NewSpan(ins, nx, nx))
  BY <1>1, <1>6, SpanGrows
<1>14. nx \in b..e - 1 /\ nx \in nx..e /\ ~(nx > nx)
  BY <1>1, <1>2, <1>4
<1> QED
  BY <1>4, <1>5, <1>6, <1>9, <1>11, <1>12, <1>13, <1>14 DEF Scanning, s

\* At the end of the chunk the open segment is emitted.
LEMMA CloseKeeps ==
  ASSUME NEW ins, SortedPoints(ins), NEW eps, NEW b \in Nat, NEW e \in Nat, e <= Len(ins),
         NEW s0, NEW m, NEW rs, Scanning(ins, eps, b, e, s0, e, m, rs)
  PROVE  /\ Append(rs, GetSegment(m)) \in Seq(SegmentRecords)
         /\ Serves(ins, eps, Append(rs, GetSegment(m)), b, e)
<1> DEFINE s == GetSegment(m)
<1>1. /\ s0 \in b..e - 1 /\ NewAt(ins, s0) /\ WellFormed(m) /\ m.epsilon = eps /\ m \in Models
      /\ e > s0 => m.pointsInHull > 0 /\ m.lastX = ins[e].x /\ m.firstX = ins[s0 + 1].x
  BY DEF Scanning, WellFormed
<1>2. /\ s0 \in Nat /\ e > s0 /\ s0 \in s0..e - 1 /\ m.pointsInHull \in Nat /\ eps \in Nat
      /\ m.pointsInHull > 0
  BY <1>1, ModelParts
<1>3. s \in SegmentRecords /\ s.first = m.firstX
  BY <1>1, SegmentTyped
<1>4. ASSUME NEW ps \in Seq(StoredPoints), Tracks(m, ps), Include(ins, ps, s0, e),
             NEW k \in s0..e - 1, NewAt(ins, k)
      PROVE  Fits(s, ins[k + 1], eps)
  <2>1. PICK j \in DOMAIN ps : ps[j] = ins[k + 1]
    BY <1>4 DEF Include
  <2>2. CASE m.pointsInHull = 1
    <3>1. /\ Len(ps) = 1
          /\ m.rectangle[0] = Point(ps[1].x, ps[1].y + eps)
          /\ m.rectangle[1] = Point(ps[1].x, ps[1].y - eps)
      BY <1>1, <1>4, <2>2 DEF Tracks
    <3>2. j = 1
      BY <2>1, <3>1
    <3>3. PICK l \in DOMAIN ps : ps[l] = ins[s0 + 1]
      BY <1>1, <1>2, <1>4 DEF Include
    <3>4. l = 1
      BY <3>1, <3>3
    <3> DEFINE q == ps[1]
    <3>5. q = ins[k + 1] /\ s.first = q.x
      BY <1>1, <1>2, <1>3, <2>1, <3>2, <3>3, <3>4
    <3>6. q \in StoredPoints /\ q.x \in Nat /\ q.y \in Nat
      <4>1. 1 \in 1..Len(ps)
        BY <3>1
      <4> QED
        BY <4>1, StoredPointParts
    <3>7. /\ s.rectangle = [c \in 0..3 |-> m.rectangle[c % 2]]
          /\ 0 % 2 = 0 /\ 1 % 2 = 1 /\ 2 % 2 = 0 /\ 3 % 2 = 1
      BY <2>2 DEF GetSegment
    <3>8. /\ s.rectangle[0] = m.rectangle[0] /\ s.rectangle[2] = m.rectangle[0]
          /\ s.rectangle[1] = m.rectangle[1] /\ s.rectangle[3] = m.rectangle[1]
      BY <3>7
    <3> HIDE DEF q, s
    <3>9. OnePoint(s)
      BY <3>8 DEF OnePoint
    <3>10. s.rectangle[0].y - eps = q.y
      BY <1>2, <3>1, <3>6, <3>8 DEF Point, q
    <3>11. q = Point(s.first, s.rectangle[0].y - eps)
      BY <3>5, <3>6, <3>10 DEF Point, StoredPoints
    <3> QED
      BY <3>5, <3>9, <3>11 DEF Fits
  <2>3. CASE m.pointsInHull >= 2
    <3>1. s.rectangle = m.rectangle
      BY <2>3 DEF GetSegment
    <3> HIDE DEF s
    <3> QED
      BY <1>1, <1>4, <2>1, <2>3, <3>1, LinesFit
  <2> QED
    BY <1>2, <2>2, <2>3
<1> HIDE DEF s
<1>5. Append(rs, s) \in Seq(SegmentRecords) /\ Serves(ins, eps, Append(rs, s), b, e)
  BY <1>2, <1>3, <1>4, SegmentAdded
<1> QED
  BY <1>5 DEF s

-----------------------------------------------------------------------------
(* Chunks.                                                                 *)

\* n shares of a number divided by n are at most the number.
LEMMA Shares ==
  ASSUME NEW a \in Nat, NEW n \in Nat \ {0}
  PROVE  a \div n \in Nat /\ n * (a \div n) <= a
OBVIOUS

\* t of n equal shares, and one more, are at most n of them.
LEMMA SharesBelow ==
  ASSUME NEW c \in Nat, NEW n \in Nat \ {0}, NEW t \in 0..n - 1
  PROVE  t * c \in Nat /\ t * c + c <= n * c /\ (t + 1) * c = t * c + c
<1>1. t * c \in Nat /\ (t + 1) * c = t * c + c
  OBVIOUS
<1>2. n - (t + 1) \in Nat
  OBVIOUS
<1>3. (n - (t + 1)) * c >= 0
  BY <1>2
<1>4. n * c = (n - (t + 1)) * c + (t + 1) * c
  BY <1>2
<1>5. (n - (t + 1)) * c \in Int /\ (t + 1) * c \in Int
  BY <1>2
<1> QED
  BY <1>1, <1>3, <1>4, <1>5

\* The threads are numbered from 0.
LEMMA ThreadsNumbered ==
  ASSUME parallelism \in Parallelisms
  PROVE  Cardinality(Threads) \in Nat \ {0} /\ Threads = 0..Cardinality(Threads) - 1
<1>1. parallelism \in Nat \ {0}
  BY SegmentationAssumption DEF MaxThreads
<1>2. CASE N < SequentialBelow
  <2>1. Threads = {0} /\ Cardinality(Threads) = 1
    BY <1>2, FS_Singleton DEF Threads
  <2> QED
    BY <2>1
<1>3. CASE ~(N < SequentialBelow)
  <2>1. Threads = 0..parallelism - 1
    BY <1>3 DEF Threads
  <2>2. Cardinality(0..parallelism - 1) = parallelism
    BY <1>1, FS_Interval
  <2> QED
    BY <1>1, <2>1, <2>2
<1> QED
  BY <1>2, <1>3

\* The chunks are adjacent, and reach from the first position to the last.
LEMMA ChunksAdjacent ==
  ASSUME parallelism \in Parallelisms, SortedPoints(input), NEW t \in Threads
  PROVE  /\ t \in Nat /\ N \in Nat
         /\ ChunkBegin(t) \in Nat /\ ChunkEnd(t) \in Nat
         /\ ChunkBegin(t) <= ChunkEnd(t) /\ ChunkEnd(t) <= N
         /\ t + 1 = Cardinality(Threads) => ChunkEnd(t) = N
         /\ t + 1 # Cardinality(Threads) => t + 1 \in Threads /\ ChunkEnd(t) = ChunkBegin(t + 1)
         /\ 0 \in Threads /\ ChunkBegin(0) = 0
<1> DEFINE n == Cardinality(Threads)
           c == ChunkSize
<1>1. n \in Nat \ {0} /\ Threads = 0..n - 1
  BY ThreadsNumbered
<1>2. N \in Nat
  BY DEF SortedPoints, N
<1>3. c \in Nat /\ n * c <= N
  BY <1>1, <1>2, Shares DEF ChunkSize
<1>4. /\ ChunkBegin(t) = t * c /\ ChunkBegin(t + 1) = (t + 1) * c /\ ChunkBegin(0) = 0 * c
      /\ ChunkEnd(t) = IF t + 1 = n THEN N ELSE ChunkBegin(t) + c
  BY DEF ChunkBegin, ChunkEnd
<1> HIDE DEF n, c
<1>5. t \in 0..n - 1 /\ t \in Nat
  BY <1>1
<1>6. t * c \in Nat /\ t * c + c <= n * c /\ (t + 1) * c = t * c + c /\ n * c \in Nat
  BY <1>1, <1>3, <1>5, SharesBelow
<1>7. 0 * c = 0
  BY <1>3
<1>8. ChunkBegin(t) \in Nat /\ ChunkBegin(t) + c <= N
  BY <1>2, <1>3, <1>4, <1>6
<1>9. ChunkEnd(t) \in Nat /\ ChunkBegin(t) <= ChunkEnd(t) /\ ChunkEnd(t) <= N
  BY <1>2, <1>3, <1>4, <1>8
<1>10. ASSUME t + 1 # n PROVE t + 1 \in Threads /\ ChunkEnd(t) = ChunkBegin(t + 1)
  <2>1. t + 1 \in 0..n - 1
    BY <1>1, <1>5, <1>10
  <2> QED
    BY <1>1, <1>4, <1>6, <1>10, <2>1
<1>11. t + 1 = n => ChunkEnd(t) = N
  BY <1>4
<1>12. 0 \in Threads
  BY <1>1
<1> QED
  BY <1>2, <1>4, <1>5, <1>7, <1>8, <1>9, <1>10, <1>11, <1>12 DEF n

\* A position of the input with a new x.
LEMMA NewXIsNewAt ==
  ASSUME NEW k \in Nat
  PROVE  NewX(k) <=> NewAt(input, k)
<1>1. (k - 1) + 1 = k
  OBVIOUS
<1> QED
  BY <1>1 DEF NewX, NewAt, In

\* A thread begins at the first new x of its chunk, if there is one.
LEMMA BeginAligned ==
  ASSUME parallelism \in Parallelisms, SortedPoints(input), NEW t \in Threads
  PROVE  /\ AlignedBegin(t) \in ChunkBegin(t)..ChunkEnd(t)
         /\ \A k \in ChunkBegin(t)..AlignedBegin(t) - 1 : ~NewAt(input, k)
         /\ AlignedBegin(t) < ChunkEnd(t) => NewAt(input, AlignedBegin(t))
<1> DEFINE b == ChunkBegin(t)
           e == ChunkEnd(t)
           S == {k \in b..e - 1 : NewX(k)} \cup {e}
           first == Min(S)
<1>1. b \in Nat /\ e \in Nat /\ b <= e
  BY ChunksAdjacent
<1>2. AlignedBegin(t) = first
  BY DEF AlignedBegin
<1>3. S \subseteq Nat /\ S # {} /\ S \subseteq b..e
  BY <1>1
<1>4. first \in S /\ \A k \in S : first <= k
  <2> HIDE DEF S
  <2> QED
    BY <1>3, MinOfNaturals
<1>5. ASSUME NEW k \in b..first - 1 PROVE ~NewAt(input, k)
  <2>1. k \in Nat /\ k \in b..e - 1 /\ ~(first <= k)
    BY <1>1, <1>3, <1>4
  <2>2. k \notin S
    BY <1>4, <2>1
  <2> QED
    BY <2>1, <2>2, NewXIsNewAt
<1>6. ASSUME first < e PROVE NewAt(input, first)
  <2>1. first \in Nat /\ first # e
    BY <1>1, <1>3, <1>4, <1>6
  <2>2. NewX(first)
    BY <1>4, <2>1
  <2> QED
    BY <2>1, <2>2, NewXIsNewAt
<1> HIDE DEF S, first
<1> QED
  BY <1>2, <1>3, <1>4, <1>5, <1>6

-----------------------------------------------------------------------------
(* The inductive invariant: each thread at its place in its chunk.         *)

States == {"ready", "scanning", "done"}

\* A thread in state st, with the chunk b..e of ins: what it emitted serves
\* what it has finished, and its model describes what it has open.
ThreadStands(ins, eps, b, e, st, s0, nx, q, m, rs, c) ==
  /\ st \in States /\ s0 \in Nat /\ nx \in Nat /\ q \in StoredPoints /\ m \in Models
  /\ rs \in Seq(SegmentRecords) /\ c = Len(rs)
  /\ st = "ready" => rs = <<>> /\ m = NewModel(eps)
  /\ st = "scanning" => /\ Scanning(ins, eps, b, e, s0, nx, m, rs)
                        /\ q.x = IF nx = s0 THEN ins[nx + 1].x ELSE ins[nx].x
  /\ st = "done" => Serves(ins, eps, rs, b, e)

Stands(t) ==
  ThreadStands(input, epsilon, ChunkBegin(t), ChunkEnd(t),
               pc[t], start[t], i[t], p[t], opt[t], results[t], count[t])

TInv ==
  /\ SortedPoints(input) /\ epsilon \in Nat /\ parallelism \in Parallelisms
  /\ pc \in [Threads -> States] /\ start \in [Threads -> Nat] /\ i \in [Threads -> Nat]
  /\ p \in [Threads -> StoredPoints] /\ opt \in [Threads -> Models]
  /\ results \in [Threads -> Seq(SegmentRecords)] /\ count \in [Threads -> Nat]
  /\ \A t \in Threads : Stands(t)
  /\ returned \in BOOLEAN
  /\ returned => out \in Seq(SegmentRecords) /\ Serves(input, epsilon, out, 0, N)

\* The function begins with every thread ready.
LEMMA TInitEstablishes == Init => TInv
<1> SUFFICES ASSUME Init PROVE TInv
  OBVIOUS
<1>1. input \in Inputs /\ epsilon \in Nat /\ parallelism \in Parallelisms /\ SortedPoints(input)
  BY SegmentationAssumption DEF Init, SortedPoints
<1>2. NewModel(epsilon) \in Models
  BY <1>1, NewModelEmpty
<1>3. Origin \in StoredPoints /\ <<>> \in Seq(SegmentRecords) /\ Len(<<>>) = 0
  BY DEF Origin, Point, StoredPoints
<1>4. /\ pc \in [Threads -> States] /\ start \in [Threads -> Nat] /\ i \in [Threads -> Nat]
      /\ p \in [Threads -> StoredPoints] /\ opt \in [Threads -> Models]
      /\ results \in [Threads -> Seq(SegmentRecords)] /\ count \in [Threads -> Nat]
  BY <1>2, <1>3 DEF Init, States
<1>5. ASSUME NEW t \in Threads PROVE Stands(t)
  <2>1. /\ pc[t] = "ready" /\ start[t] = 0 /\ i[t] = 0 /\ p[t] = Origin
        /\ opt[t] = NewModel(epsilon) /\ results[t] = <<>> /\ count[t] = 0
    BY DEF Init
  <2> QED
    BY <1>2, <1>3, <2>1 DEF Stands, ThreadStands, States
<1>6. returned = FALSE
  BY DEF Init
<1> QED
  BY <1>1, <1>4, <1>5, <1>6 DEF TInv

\* The chunks do not move.
LEMMA ChunksStay ==
  ASSUME UNCHANGED args
  PROVE  /\ input' = input /\ epsilon' = epsilon /\ parallelism' = parallelism
         /\ Threads' = Threads /\ N' = N
         /\ \A t : ChunkBegin(t)' = ChunkBegin(t) /\ ChunkEnd(t)' = ChunkEnd(t)
<1>1. input' = input /\ epsilon' = epsilon /\ parallelism' = parallelism
  BY DEF args
<1>2. N' = N /\ Threads' = Threads
  BY <1>1 DEF N, Threads
<1>3. ChunkSize' = ChunkSize
  BY <1>2 DEF ChunkSize
<1>4. \A t : ChunkBegin(t)' = ChunkBegin(t)
  BY <1>3 DEF ChunkBegin
<1>5. \A t : ChunkEnd(t)' = ChunkEnd(t)
  BY <1>2, <1>3, <1>4 DEF ChunkEnd
<1> QED
  BY <1>1, <1>2, <1>4, <1>5

\* A step that changes the variables of one thread only.
Moves(t, st, s0, nx, q, m, rs, c) ==
  /\ pc' = [pc EXCEPT ![t] = st] /\ start' = [start EXCEPT ![t] = s0]
  /\ i' = [i EXCEPT ![t] = nx] /\ p' = [p EXCEPT ![t] = q] /\ opt' = [opt EXCEPT ![t] = m]
  /\ results' = [results EXCEPT ![t] = rs] /\ count' = [count EXCEPT ![t] = c]
  /\ UNCHANGED <<args, out, returned>>

\* A step of one thread leaves the others where they stand.
LEMMA OneThreadMoves ==
  ASSUME TInv, NEW t \in Threads,
         NEW st, NEW s0, NEW nx, NEW q, NEW m, NEW rs, NEW c,
         ThreadStands(input, epsilon, ChunkBegin(t), ChunkEnd(t), st, s0, nx, q, m, rs, c),
         Moves(t, st, s0, nx, q, m, rs, c)
  PROVE  TInv'
<1>1. /\ st \in States /\ s0 \in Nat /\ nx \in Nat /\ q \in StoredPoints /\ m \in Models
      /\ rs \in Seq(SegmentRecords) /\ c \in Nat
  BY DEF ThreadStands
<1>2. /\ input' = input /\ epsilon' = epsilon /\ parallelism' = parallelism
      /\ Threads' = Threads /\ N' = N /\ out' = out /\ returned' = returned
      /\ \A u : ChunkBegin(u)' = ChunkBegin(u) /\ ChunkEnd(u)' = ChunkEnd(u)
  BY ChunksStay DEF Moves
<1>3. /\ pc \in [Threads -> States] /\ start \in [Threads -> Nat] /\ i \in [Threads -> Nat]
      /\ p \in [Threads -> StoredPoints] /\ opt \in [Threads -> Models]
      /\ results \in [Threads -> Seq(SegmentRecords)] /\ count \in [Threads -> Nat]
  BY DEF TInv
<1>4. /\ pc' \in [Threads -> States] /\ start' \in [Threads -> Nat] /\ i' \in [Threads -> Nat]
      /\ p' \in [Threads -> StoredPoints] /\ opt' \in [Threads -> Models]
      /\ results' \in [Threads -> Seq(SegmentRecords)] /\ count' \in [Threads -> Nat]
  BY <1>1, <1>3 DEF Moves
<1>5. ASSUME NEW u \in Threads PROVE Stands(u)'
  <2>1. CASE u = t
    <3>1. /\ pc'[u] = st /\ start'[u] = s0 /\ i'[u] = nx /\ p'[u] = q /\ opt'[u] = m
          /\ results'[u] = rs /\ count'[u] = c
      BY <1>3, <2>1 DEF Moves
    <3>2. ThreadStands(input', epsilon', ChunkBegin(u)', ChunkEnd(u)',
                       pc'[u], start'[u], i'[u], p'[u], opt'[u], results'[u], count'[u])
      BY <1>2, <2>1, <3>1
    <3> QED
      BY <3>2 DEF Stands
  <2>2. CASE u # t
    <3>1. /\ pc'[u] = pc[u] /\ start'[u] = start[u] /\ i'[u] = i[u] /\ p'[u] = p[u]
          /\ opt'[u] = opt[u] /\ results'[u] = results[u] /\ count'[u] = count[u]
      BY <1>3, <2>2 DEF Moves
    <3>2. ThreadStands(input, epsilon, ChunkBegin(u), ChunkEnd(u),
                       pc[u], start[u], i[u], p[u], opt[u], results[u], count[u])
      BY DEF TInv, Stands
    <3>3. ThreadStands(input', epsilon', ChunkBegin(u)', ChunkEnd(u)',
                       pc'[u], start'[u], i'[u], p'[u], opt'[u], results'[u], count'[u])
      BY <1>2, <3>1, <3>2
    <3> QED
      BY <3>3 DEF Stands
  <2> QED
    BY <2>1, <2>2
<1>6. SortedPoints(input)' /\ epsilon' \in Nat /\ parallelism' \in Parallelisms
  BY <1>2 DEF TInv, SortedPoints
<1>7. returned' \in BOOLEAN
  BY <1>2 DEF TInv
<1>8. returned' => out' \in Seq(SegmentRecords) /\ Serves(input', epsilon', out', 0, N')
  BY <1>2 DEF TInv
<1> QED
  BY <1>2, <1>4, <1>5, <1>6, <1>7, <1>8 DEF TInv, SortedPoints

\* What the invariant says of one thread.
LEMMA ThreadFacts ==
  ASSUME TInv, NEW t \in Threads
  PROVE  /\ SortedPoints(input) /\ epsilon \in Nat /\ parallelism \in Parallelisms
         /\ ChunkBegin(t) \in Nat /\ ChunkEnd(t) \in Nat /\ ChunkBegin(t) <= ChunkEnd(t)
         /\ ChunkEnd(t) <= Len(input)
         /\ ThreadStands(input, epsilon, ChunkBegin(t), ChunkEnd(t),
                         pc[t], start[t], i[t], p[t], opt[t], results[t], count[t])
         /\ pc[t] \in States /\ start[t] \in Nat /\ i[t] \in Nat /\ p[t] \in StoredPoints
         /\ opt[t] \in Models /\ results[t] \in Seq(SegmentRecords) /\ count[t] = Len(results[t])
<1>1. SortedPoints(input) /\ epsilon \in Nat /\ parallelism \in Parallelisms
  BY DEF TInv
<1>2. /\ ChunkBegin(t) \in Nat /\ ChunkEnd(t) \in Nat /\ ChunkBegin(t) <= ChunkEnd(t)
      /\ ChunkEnd(t) <= Len(input)
  BY <1>1, ChunksAdjacent DEF N
<1>3. ThreadStands(input, epsilon, ChunkBegin(t), ChunkEnd(t),
                   pc[t], start[t], i[t], p[t], opt[t], results[t], count[t])
  BY DEF TInv, Stands
<1> QED
  BY <1>1, <1>2, <1>3 DEF ThreadStands

\* What an action leaves alone is assigned its own value.
LEMMA SameAt ==
  ASSUME TInv, NEW t \in Threads
  PROVE  /\ start = [start EXCEPT ![t] = start[t]] /\ i = [i EXCEPT ![t] = i[t]]
         /\ p = [p EXCEPT ![t] = p[t]] /\ opt = [opt EXCEPT ![t] = opt[t]]
         /\ results = [results EXCEPT ![t] = results[t]] /\ count = [count EXCEPT ![t] = count[t]]
         /\ pc = [pc EXCEPT ![t] = pc[t]]
BY DEF TInv

\* EmptyChunk keeps the invariant.
LEMMA EmptyChunkKeeps ==
  ASSUME TInv, NEW t \in Threads, EmptyChunk(t)
  PROVE  TInv'
<1> DEFINE b == ChunkBegin(t)
           e == ChunkEnd(t)
<1>1. /\ SortedPoints(input) /\ parallelism \in Parallelisms /\ b \in Nat /\ e \in Nat
      /\ ThreadStands(input, epsilon, b, e,
                      pc[t], start[t], i[t], p[t], opt[t], results[t], count[t])
  BY ThreadFacts
<1>2. pc[t] = "ready" /\ AlignedBegin(t) = e
  BY DEF EmptyChunk
<1>3. results[t] = <<>>
  BY <1>1, <1>2 DEF ThreadStands
<1>4. \A k \in b..e - 1 : ~NewAt(input, k)
  BY <1>1, <1>2, BeginAligned
<1> HIDE DEF b, e
<1>5. Serves(input, epsilon, results[t], b, e)
  BY <1>1, <1>3, <1>4, ServesNothing
<1>6. ThreadStands(input, epsilon, b, e,
                   "done", start[t], i[t], p[t], opt[t], results[t], count[t])
  BY <1>1, <1>5 DEF ThreadStands, States
<1>7. /\ pc' = [pc EXCEPT ![t] = "done"] /\ UNCHANGED <<args, out, returned>>
      /\ start' = start /\ i' = i /\ p' = p /\ opt' = opt /\ results' = results /\ count' = count
  BY DEF EmptyChunk
<1>8. Moves(t, "done", start[t], i[t], p[t], opt[t], results[t], count[t])
  BY <1>7, SameAt DEF Moves
<1> QED
  BY <1>8, <1>6, OneThreadMoves DEF b, e

\* Open keeps the invariant.
LEMMA OpenKeeps ==
  ASSUME TInv, NEW t \in Threads, Open(t)
  PROVE  TInv'
<1> DEFINE b == ChunkBegin(t)
           e == ChunkEnd(t)
           first == AlignedBegin(t)
           q == input[first + 1]
           m == NewModel(epsilon)
           r == AddPoint(m, q.x, q.y)
<1>1. /\ SortedPoints(input) /\ parallelism \in Parallelisms /\ epsilon \in Nat
      /\ b \in Nat /\ e \in Nat /\ b <= e /\ e <= Len(input)
      /\ ThreadStands(input, epsilon, b, e,
                      pc[t], start[t], i[t], p[t], opt[t], results[t], count[t])
  BY ThreadFacts
<1>2. pc[t] = "ready" /\ first < e
  BY DEF Open
<1>3. results[t] = <<>> /\ opt[t] = m /\ count[t] = Len(results[t])
  BY <1>1, <1>2 DEF ThreadStands
<1>4. first \in b..e /\ (\A k \in b..first - 1 : ~NewAt(input, k)) /\ NewAt(input, first)
  BY <1>1, <1>2, BeginAligned
<1>5. /\ m \in Models /\ WellFormed(m) /\ m.epsilon = epsilon /\ m.pointsInHull = 0
      /\ Tracks(m, <<>>)
  BY <1>1, NewModelEmpty
<1>6. /\ pc' = [pc EXCEPT ![t] = "scanning"] /\ start' = [start EXCEPT ![t] = first]
      /\ i' = [i EXCEPT ![t] = first + 1] /\ p' = [p EXCEPT ![t] = q]
      /\ opt' = [opt EXCEPT ![t] = r] /\ UNCHANGED <<args, out, returned>>
      /\ results' = results /\ count' = count
  BY <1>3 DEF Open, In
<1>7. Accepts(m, q.x, q.y)
  BY <1>5 DEF Accepts
<1> HIDE DEF b, e, first, q, m, r
<1>8. first \in Nat /\ first \in b..e - 1 /\ first \in first..e /\ first..first - 1 = {}
  BY <1>1, <1>2, <1>4
<1>9. Serves(input, epsilon, <<>>, b, first) /\ <<>> \in Seq(SegmentRecords)
  BY <1>1, <1>4, <1>8, ServesNothing
<1>10. Scanning(input, epsilon, b, e, first, first, m, <<>>)
  <2>1. m.pointsInHull = Cardinality(NewSpan(input, first, first))
    BY <1>5, <1>8, SpanGrows
  <2>2. \E ps \in Seq(StoredPoints) : Tracks(m, ps) /\ Include(input, ps, first, first)
    <3>1. <<>> \in Seq(StoredPoints) /\ Include(input, <<>>, first, first)
      BY <1>8 DEF Include
    <3> QED
      BY <1>5, <3>1
  <2>3. ~(first > first)
    BY <1>8
  <2> QED
    BY <1>4, <1>5, <1>8, <1>9, <2>1, <2>2, <2>3 DEF Scanning
<1>11. Scanning(input, epsilon, b, e, first, first + 1, r, <<>>)
  BY <1>1, <1>2, <1>7, <1>10, TakeKeeps DEF q, r
<1>12. q \in StoredPoints
  BY <1>1, <1>2, <1>10, NextPoint DEF q
<1>13. r \in Models
  BY <1>11 DEF Scanning, WellFormed
<1>14. ThreadStands(input, epsilon, b, e,
                    "scanning", first, first + 1, q, r, results[t], count[t])
  <2>1. first + 1 \in Nat /\ first + 1 # first
    BY <1>8
  <2>2. q.x = input[first + 1].x
    BY DEF q
  <2> QED
    BY <1>3, <1>8, <1>9, <1>11, <1>12, <1>13, <2>1, <2>2 DEF ThreadStands, States
<1>15. Moves(t, "scanning", first, first + 1, q, r, results[t], count[t])
  BY <1>6, SameAt DEF Moves
<1> QED
  BY <1>15, <1>14, OneThreadMoves DEF b, e

\* A thread that reads is inside its chunk, before its end.
LEMMA Scans ==
  ASSUME TInv, NEW t \in Threads, Reading(t)
  PROVE  /\ Scanning(input, epsilon, ChunkBegin(t), ChunkEnd(t), start[t], i[t], opt[t], results[t])
         /\ i[t] < ChunkEnd(t) /\ start[t] <= i[t] /\ start[t] \in Nat /\ i[t] \in Nat
         /\ Repeated(t) => i[t] # start[t] /\ ~NewAt(input, i[t]) /\ p[t].x = input[i[t] + 1].x
         /\ ~Repeated(t) => i[t] = start[t] \/ NewAt(input, i[t])
<1>1. /\ ThreadStands(input, epsilon, ChunkBegin(t), ChunkEnd(t),
                      pc[t], start[t], i[t], p[t], opt[t], results[t], count[t])
      /\ start[t] \in Nat /\ i[t] \in Nat /\ ChunkBegin(t) \in Nat
  BY ThreadFacts
<1>2. pc[t] = "scanning" /\ i[t] < ChunkEnd(t)
  BY DEF Reading
<1>3. /\ Scanning(input, epsilon, ChunkBegin(t), ChunkEnd(t), start[t], i[t], opt[t], results[t])
      /\ p[t].x = IF i[t] = start[t] THEN input[i[t] + 1].x ELSE input[i[t]].x
  BY <1>1, <1>2 DEF ThreadStands
<1>4. start[t] <= i[t]
  <2>1. i[t] \in start[t]..ChunkEnd(t)
    BY <1>3 DEF Scanning
  <2> QED
    BY <1>1, <2>1
<1>5. Repeated(t) <=> i[t] # start[t] /\ input[i[t] + 1].x = p[t].x
  BY DEF Repeated, In
<1>6. i[t] # start[t] => i[t] # 0 /\ p[t].x = input[i[t]].x
  BY <1>1, <1>3, <1>4
<1> QED
  BY <1>1, <1>2, <1>3, <1>4, <1>5, <1>6 DEF NewAt

\* Skip keeps the invariant.
LEMMA SkipsKeep ==
  ASSUME TInv, NEW t \in Threads, Skip(t)
  PROVE  TInv'
<1> DEFINE b == ChunkBegin(t)
           e == ChunkEnd(t)
           nx == i[t] + 1
<1>1. /\ ThreadStands(input, epsilon, b, e,
                      pc[t], start[t], i[t], p[t], opt[t], results[t], count[t])
      /\ b \in Nat /\ e \in Nat
  BY ThreadFacts
<1>2. Reading(t) /\ Repeated(t) /\ pc[t] = "scanning"
  BY DEF Skip, Reading
<1>3. /\ Scanning(input, epsilon, b, e, start[t], i[t], opt[t], results[t]) /\ i[t] < e
      /\ start[t] <= i[t] /\ start[t] \in Nat /\ i[t] \in Nat
      /\ i[t] # start[t] /\ ~NewAt(input, i[t]) /\ p[t].x = input[nx].x
  BY <1>2, Scans
<1>4. /\ i' = [i EXCEPT ![t] = nx] /\ UNCHANGED <<args, out, returned>>
      /\ pc' = pc /\ start' = start /\ p' = p /\ opt' = opt /\ results' = results /\ count' = count
  BY DEF Skip
<1> HIDE DEF b, e
<1>5. Scanning(input, epsilon, b, e, start[t], nx, opt[t], results[t])
  BY <1>1, <1>3, SkipKeeps
<1>6. nx \in Nat /\ nx # start[t]
  BY <1>3
<1> HIDE DEF nx
<1>7. ThreadStands(input, epsilon, b, e,
                   pc[t], start[t], nx, p[t], opt[t], results[t], count[t])
  BY <1>1, <1>2, <1>3, <1>5, <1>6 DEF ThreadStands
<1>8. Moves(t, pc[t], start[t], nx, p[t], opt[t], results[t], count[t])
  BY <1>4, SameAt DEF Moves
<1> QED
  BY <1>8, <1>7, OneThreadMoves DEF b, e

\* Take keeps the invariant.
LEMMA TakesKeep ==
  ASSUME TInv, NEW t \in Threads, Take(t)
  PROVE  TInv'
<1> DEFINE b == ChunkBegin(t)
           e == ChunkEnd(t)
           nx == i[t] + 1
           q == input[nx]
           r == AddPoint(opt[t], q.x, q.y)
<1>1. /\ ThreadStands(input, epsilon, b, e,
                      pc[t], start[t], i[t], p[t], opt[t], results[t], count[t])
      /\ SortedPoints(input) /\ b \in Nat /\ e \in Nat /\ e <= Len(input)
  BY ThreadFacts
<1>2. Reading(t) /\ ~Repeated(t) /\ pc[t] = "scanning" /\ Accepts(opt[t], q.x, q.y)
  BY DEF Take, Reading, In
<1>3. /\ Scanning(input, epsilon, b, e, start[t], i[t], opt[t], results[t]) /\ i[t] < e
      /\ start[t] <= i[t] /\ start[t] \in Nat /\ i[t] \in Nat
      /\ i[t] = start[t] \/ NewAt(input, i[t])
  BY <1>2, Scans
<1>4. /\ i' = [i EXCEPT ![t] = nx] /\ p' = [p EXCEPT ![t] = q] /\ opt' = [opt EXCEPT ![t] = r]
      /\ UNCHANGED <<args, out, returned>>
      /\ pc' = pc /\ start' = start /\ results' = results /\ count' = count
  BY DEF Take, In
<1> HIDE DEF b, e
<1>5. Scanning(input, epsilon, b, e, start[t], nx, r, results[t])
  BY <1>1, <1>2, <1>3, TakeKeeps
<1>6. q \in StoredPoints
  BY <1>1, <1>3, NextPoint
<1>7. r \in Models
  BY <1>5 DEF Scanning, WellFormed
<1>8. nx \in Nat /\ nx # start[t]
  BY <1>3
<1>9. q.x = input[nx].x
  OBVIOUS
<1> HIDE DEF nx, q, r
<1>10. ThreadStands(input, epsilon, b, e,
                    pc[t], start[t], nx, q, r, results[t], count[t])
  BY <1>1, <1>2, <1>5, <1>6, <1>7, <1>8, <1>9 DEF ThreadStands
<1>11. Moves(t, pc[t], start[t], nx, q, r, results[t], count[t])
  BY <1>4, SameAt DEF Moves
<1> QED
  BY <1>11, <1>10, OneThreadMoves DEF b, e

\* Cut keeps the invariant.
LEMMA CutsKeep ==
  ASSUME TInv, NEW t \in Threads, Cut(t)
  PROVE  TInv'
<1> DEFINE b == ChunkBegin(t)
           e == ChunkEnd(t)
           q == input[i[t] + 1]
           r == AddPoint(opt[t], q.x, q.y)
           rs == Append(results[t], GetSegment(r))
           c == count[t] + 1
<1>1. /\ ThreadStands(input, epsilon, b, e,
                      pc[t], start[t], i[t], p[t], opt[t], results[t], count[t])
      /\ SortedPoints(input) /\ b \in Nat /\ e \in Nat /\ e <= Len(input)
      /\ results[t] \in Seq(SegmentRecords) /\ count[t] = Len(results[t])
  BY ThreadFacts
<1>2. Reading(t) /\ ~Repeated(t) /\ pc[t] = "scanning" /\ ~Accepts(opt[t], q.x, q.y)
  BY DEF Cut, Reading, In
<1>3. /\ Scanning(input, epsilon, b, e, start[t], i[t], opt[t], results[t]) /\ i[t] < e
      /\ start[t] <= i[t] /\ start[t] \in Nat /\ i[t] \in Nat
      /\ i[t] = start[t] \/ NewAt(input, i[t])
  BY <1>2, Scans
<1>4. /\ start' = [start EXCEPT ![t] = i[t]] /\ p' = [p EXCEPT ![t] = q]
      /\ opt' = [opt EXCEPT ![t] = r] /\ count' = [count EXCEPT ![t] = c]
      /\ UNCHANGED <<args, out, returned>> /\ pc' = pc /\ i' = i
  BY DEF Cut, In
<1>5. results' = [results EXCEPT ![t] = rs]
  <2>1. opt'[t] = r
    BY <1>4 DEF TInv
  <2>2. results' = [results EXCEPT ![t] = Append(@, GetSegment(opt'[t]))]
    BY DEF Cut
  <2> QED
    BY <2>1, <2>2
<1> HIDE DEF b, e
<1>6. Scanning(input, epsilon, b, e, i[t], i[t], r, rs)
  BY <1>1, <1>2, <1>3, CutKeeps
<1>7. q \in StoredPoints
  BY <1>1, <1>3, NextPoint
<1>8. r \in Models /\ rs \in Seq(SegmentRecords) /\ GetSegment(r) \in SegmentRecords
  BY <1>6, SegmentTyped DEF Scanning, WellFormed
<1>9. c = Len(rs)
  BY <1>1, <1>8
<1>10. q.x = input[i[t] + 1].x
  OBVIOUS
<1> HIDE DEF q, r, rs, c
<1>11. ThreadStands(input, epsilon, b, e, pc[t], i[t], i[t], q, r, rs, c)
  BY <1>1, <1>2, <1>3, <1>6, <1>7, <1>8, <1>9, <1>10 DEF ThreadStands
<1>12. Moves(t, pc[t], i[t], i[t], q, r, rs, c)
  BY <1>4, <1>5, SameAt DEF Moves
<1> QED
  BY <1>12, <1>11, OneThreadMoves DEF b, e

\* Close keeps the invariant.
LEMMA ClosesKeep ==
  ASSUME TInv, NEW t \in Threads, Close(t)
  PROVE  TInv'
<1> DEFINE b == ChunkBegin(t)
           e == ChunkEnd(t)
           rs == Append(results[t], GetSegment(opt[t]))
           c == count[t] + 1
<1>1. /\ ThreadStands(input, epsilon, b, e,
                      pc[t], start[t], i[t], p[t], opt[t], results[t], count[t])
      /\ SortedPoints(input) /\ b \in Nat /\ e \in Nat /\ e <= Len(input) /\ opt[t] \in Models
      /\ results[t] \in Seq(SegmentRecords) /\ count[t] = Len(results[t])
  BY ThreadFacts
<1>2. pc[t] = "scanning" /\ i[t] = e
  BY DEF Close
<1>3. Scanning(input, epsilon, b, e, start[t], e, opt[t], results[t])
  BY <1>1, <1>2 DEF ThreadStands
<1>4. /\ pc' = [pc EXCEPT ![t] = "done"] /\ results' = [results EXCEPT ![t] = rs]
      /\ count' = [count EXCEPT ![t] = c] /\ UNCHANGED <<args, out, returned>>
      /\ start' = start /\ i' = i /\ p' = p /\ opt' = opt
  BY DEF Close, FinalCount
<1> HIDE DEF b, e
<1>5. rs \in Seq(SegmentRecords) /\ Serves(input, epsilon, rs, b, e)
  BY <1>1, <1>3, CloseKeeps
<1>6. c = Len(rs)
  BY <1>1
<1> HIDE DEF rs, c
<1>7. ThreadStands(input, epsilon, b, e, "done", start[t], i[t], p[t], opt[t], rs, c)
  BY <1>1, <1>5, <1>6 DEF ThreadStands, States
<1>8. Moves(t, "done", start[t], i[t], p[t], opt[t], rs, c)
  BY <1>4, SameAt DEF Moves
<1> QED
  BY <1>8, <1>7, OneThreadMoves DEF b, e

-----------------------------------------------------------------------------
(* The result.                                                             *)

\* The segments of all chunks, taken in chunk order, serve the whole input.
LEMMA JoinedServe ==
  ASSUME TInv, AllJoined
  PROVE  LET all == FlattenSeq([k \in 1..Cardinality(Threads) |-> results[k - 1]])
         IN all \in Seq(SegmentRecords) /\ Serves(input, epsilon, all, 0, N)
<1> DEFINE n == Cardinality(Threads)
           seqs == [k \in 1..n |-> results[k - 1]]
<1>1. SortedPoints(input) /\ parallelism \in Parallelisms /\ n \in Nat \ {0} /\ Threads = 0..n - 1
  BY ThreadsNumbered DEF TInv
<1>2. ASSUME NEW t \in Threads
      PROVE  results[t] \in Seq(SegmentRecords)
             /\ Serves(input, epsilon, results[t], ChunkBegin(t), ChunkEnd(t))
  BY ThreadFacts DEF AllJoined, ThreadStands
<1>3. Len(seqs) = n
  BY <1>1
<1>4. \A k \in 1..n : seqs[k] = results[k - 1] /\ k - 1 \in Threads
  BY <1>1
<1> HIDE DEF seqs, n
<1>5. PICK f : Concatenates(f, seqs, n) /\ FlattenSeq(seqs) = f[n]
  BY <1>1, <1>3, Flattened
<1>6. f[1] = seqs[1] /\ \A k \in 2..n : f[k] = f[k - 1] \o seqs[k]
  <2>1. n \in Nat \ {0}
    BY <1>1
  <2>2. Concatenates(f, seqs, n)
    BY <1>5
  <2> QED
    BY ZenonT(30), <2>1, <2>2, ConcatenationSteps
<1> DEFINE S == {k \in 1..n : f[k] \in Seq(SegmentRecords)
                              /\ Serves(input, epsilon, f[k], 0, ChunkEnd(k - 1))}
<1>7. 1 \in S
  <2>1. 1 \in 1..n /\ 1 - 1 = 0 /\ 0 \in Threads
    BY <1>1
  <2>2. ChunkBegin(0) = 0
    BY <1>1, <2>1, ChunksAdjacent
  <2>3. f[1] = results[0]
    BY <1>4, <1>6, <2>1
  <2> QED
    BY <1>2, <2>1, <2>2, <2>3
<1>8. ASSUME NEW k \in 1..n - 1, k \in S PROVE k + 1 \in S
  <2>1. /\ k + 1 \in 2..n /\ k + 1 \in 1..n /\ (k + 1) - 1 = k /\ k \in Threads /\ k - 1 \in Threads
        /\ (k - 1) + 1 = k /\ k # n
    BY <1>1
  <2>2. f[k + 1] = f[k] \o results[k]
    BY <1>4, <1>6, <2>1
  <2>3. ChunkEnd(k - 1) = ChunkBegin(k) /\ ChunkEnd(k - 1) \in Nat
    BY <1>1, <2>1, ChunksAdjacent DEF n
  <2>4. ChunkBegin(k) <= ChunkEnd(k) /\ ChunkEnd(k) \in Nat /\ ChunkEnd(k) <= Len(input)
    BY <1>1, <2>1, ChunksAdjacent DEF N
  <2>5. f[k] \in Seq(SegmentRecords) /\ Serves(input, epsilon, f[k], 0, ChunkBegin(k))
    BY <1>8, <2>3
  <2>6. results[k] \in Seq(SegmentRecords)
        /\ Serves(input, epsilon, results[k], ChunkBegin(k), ChunkEnd(k))
    BY <1>2, <2>1
  <2>7. ChunkBegin(k) \in Nat /\ 0 <= ChunkBegin(k)
    BY <2>3
  <2>8. Serves(input, epsilon, f[k] \o results[k], 0, ChunkEnd(k))
    BY <1>1, <2>4, <2>5, <2>6, <2>7, ServesTogether
  <2>9. f[k] \o results[k] \in Seq(SegmentRecords)
    BY <2>5, <2>6
  <2> QED
    BY <2>1, <2>2, <2>8, <2>9
<1>9. n \in S
  <2> HIDE DEF S
  <2>1. \A k \in 1..n : k \in S
    BY <1>1, <1>7, <1>8, IntervalInduction
  <2> QED
    BY <1>1, <2>1
<1>10. ChunkEnd(n - 1) = N
  <2>1. n - 1 \in Threads /\ (n - 1) + 1 = n
    BY <1>1
  <2> QED
    BY <1>1, <2>1, ChunksAdjacent DEF n
<1>11. FlattenSeq(seqs) \in Seq(SegmentRecords) /\ Serves(input, epsilon, FlattenSeq(seqs), 0, N)
  BY <1>5, <1>9, <1>10
<1> QED
  BY <1>11 DEF seqs, n

\* Join keeps the invariant.
LEMMA JoinKeeps ==
  ASSUME TInv, Join
  PROVE  TInv'
<1> DEFINE all == FlattenSeq([k \in 1..Cardinality(Threads) |-> results[k - 1]])
<1>1. /\ AllJoined /\ out' = all /\ returned' = TRUE /\ UNCHANGED args
      /\ pc' = pc /\ start' = start /\ i' = i /\ p' = p /\ opt' = opt
      /\ results' = results /\ count' = count
  BY DEF Join
<1>2. all \in Seq(SegmentRecords) /\ Serves(input, epsilon, all, 0, N)
  BY <1>1, JoinedServe
<1> HIDE DEF all
<1>3. /\ input' = input /\ epsilon' = epsilon /\ parallelism' = parallelism
      /\ Threads' = Threads /\ N' = N
      /\ \A u : ChunkBegin(u)' = ChunkBegin(u) /\ ChunkEnd(u)' = ChunkEnd(u)
  BY <1>1, ChunksStay
<1>4. ASSUME NEW u \in Threads PROVE Stands(u)'
  <2>1. ThreadStands(input, epsilon, ChunkBegin(u), ChunkEnd(u),
                     pc[u], start[u], i[u], p[u], opt[u], results[u], count[u])
    BY DEF TInv, Stands
  <2>2. ThreadStands(input', epsilon', ChunkBegin(u)', ChunkEnd(u)',
                     pc'[u], start'[u], i'[u], p'[u], opt'[u], results'[u], count'[u])
    BY <1>1, <1>3, <2>1
  <2> QED
    BY <2>2 DEF Stands
<1>5. SortedPoints(input') /\ epsilon' \in Nat /\ parallelism' \in Parallelisms
  BY <1>3 DEF TInv
<1>6. /\ pc' \in [Threads' -> States] /\ start' \in [Threads' -> Nat] /\ i' \in [Threads' -> Nat]
      /\ p' \in [Threads' -> StoredPoints] /\ opt' \in [Threads' -> Models]
      /\ results' \in [Threads' -> Seq(SegmentRecords)] /\ count' \in [Threads' -> Nat]
  BY <1>1, <1>3 DEF TInv
<1>7. out' \in Seq(SegmentRecords) /\ Serves(input', epsilon', out', 0, N')
  BY <1>1, <1>2, <1>3
<1> QED
  BY <1>1, <1>3, <1>4, <1>5, <1>6, <1>7 DEF TInv, SortedPoints

\* Every step keeps the invariant.
LEMMA TNextPreserves == TInv /\ [Next]_vars => TInv'
<1> SUFFICES ASSUME TInv, [Next]_vars PROVE TInv'
  OBVIOUS
<1>1. ASSUME NEW t \in Threads, Step(t) PROVE TInv'
  BY <1>1, EmptyChunkKeeps, OpenKeeps, SkipsKeep, TakesKeep, CutsKeep, ClosesKeep DEF Step
<1>2. CASE Join
  BY <1>2, JoinKeeps
<1>3. CASE UNCHANGED vars
  <2>1. /\ UNCHANGED args /\ out' = out /\ returned' = returned
        /\ pc' = pc /\ start' = start /\ i' = i /\ p' = p /\ opt' = opt
        /\ results' = results /\ count' = count
    BY <1>3 DEF vars
  <2>2. /\ input' = input /\ epsilon' = epsilon /\ parallelism' = parallelism
        /\ Threads' = Threads /\ N' = N
        /\ \A u : ChunkBegin(u)' = ChunkBegin(u) /\ ChunkEnd(u)' = ChunkEnd(u)
    BY <2>1, ChunksStay
  <2>3. \A u \in Threads' : Stands(u)'
    BY <2>1, <2>2 DEF TInv, Stands
  <2> QED
    BY <2>1, <2>2, <2>3 DEF TInv, SortedPoints
<1> QED
  BY <1>1, <1>2, <1>3 DEF Next

-----------------------------------------------------------------------------
(* The properties of the specification.                                    *)

\* The invariant gives the types and the counters of every thread.
LEMMA TInvTypes == TInv => TypeOK
<1> SUFFICES ASSUME TInv PROVE TypeOK
  OBVIOUS
<1>1. ASSUME NEW t \in Threads, pc[t] = "scanning"
      PROVE  /\ start[t] \in Positions(t) /\ i[t] \in Positions(t) /\ start[t] <= i[t]
             /\ opt[t].pointsInHull = NewXsIn(start[t], i[t] - 1)
  <2>1. /\ ChunkBegin(t) \in Nat /\ ChunkEnd(t) \in Nat /\ start[t] \in Nat /\ i[t] \in Nat
        /\ Scanning(input, epsilon, ChunkBegin(t), ChunkEnd(t), start[t], i[t], opt[t], results[t])
    BY <1>1, ThreadFacts DEF ThreadStands
  <2>2. /\ start[t] \in ChunkBegin(t)..ChunkEnd(t) - 1 /\ i[t] \in start[t]..ChunkEnd(t)
        /\ opt[t].pointsInHull = Cardinality(NewSpan(input, start[t], i[t]))
    BY <2>1 DEF Scanning
  <2>3. NewSpan(input, start[t], i[t]) = {k \in start[t]..i[t] - 1 : k = start[t] \/ NewX(k)}
    <3>1. \A k \in start[t]..i[t] - 1 : NewAt(input, k) <=> NewX(k)
      BY <2>1, NewXIsNewAt
    <3> QED
      BY <3>1 DEF NewSpan
  <2>4. opt[t].pointsInHull = NewXsIn(start[t], i[t] - 1)
    BY <2>2, <2>3 DEF NewXsIn
  <2> QED
    BY <2>1, <2>2, <2>4 DEF Positions
<1>2. \A t \in Threads : count[t] = Len(results[t])
  BY ThreadFacts
<1>3. pc \in [Threads -> {"ready", "scanning", "done"}] /\ returned \in BOOLEAN
  BY DEF TInv, States
<1> QED
  BY <1>1, <1>2, <1>3 DEF TypeOK

\* What serves the whole input begins with its first point, and the segment
\* with the greatest first x at most a point's is the one that serves it.
LEMMA ServedByTheLast ==
  ASSUME NEW ins, SortedPoints(ins), NEW eps, NEW rs \in Seq(SegmentRecords),
         Serves(ins, eps, rs, 0, Len(ins)), Len(ins) > 0
  PROVE  /\ rs # <<>> /\ rs[1].first = ins[1].x
         /\ \A k \in 1..Len(rs) - 1 : rs[k].first < rs[k + 1].first
         /\ \A k \in 0..Len(ins) - 1 : NewAt(ins, k) =>
              Fits(rs[Max({h \in DOMAIN rs : rs[h].first <= ins[k + 1].x})], ins[k + 1], eps)
<1>1. Len(ins) \in Nat /\ Len(rs) \in Nat /\ DOMAIN rs = 1..Len(rs) /\ 0 \in 0..Len(ins) - 1
  BY DEF SortedPoints
<1>2. \A h \in 1..Len(rs) : rs[h].first \in Nat
  <2> SUFFICES ASSUME NEW h \in 1..Len(rs) PROVE rs[h].first \in Nat
    OBVIOUS
  <2>1. rs[h] \in SegmentRecords
    OBVIOUS
  <2> QED
    BY <2>1 DEF SegmentRecords
<1>3. \A k \in 0..Len(ins) - 1 : ins[k + 1].x \in Nat
  <2> SUFFICES ASSUME NEW k \in 0..Len(ins) - 1 PROVE ins[k + 1].x \in Nat
    OBVIOUS
  <2>1. k + 1 \in 1..Len(ins)
    BY <1>1
  <2> QED
    BY <2>1, StoredPointParts DEF SortedPoints
<1>4. \A h, l \in 1..Len(rs) : h < l => rs[h].first < rs[l].first
  BY DEF Serves
<1>5. rs # <<>> /\ 1 \in 1..Len(rs) /\ rs[1].first = ins[1].x
  <2>1. NewAt(ins, 0) /\ 0 + 1 = 1
    BY DEF NewAt
  <2>2. PICK h \in 1..Len(rs) : ServedBy(ins, eps, rs, 0, h)
    BY <1>1, <2>1 DEF Serves
  <2>3. 1 \in 1..Len(rs) /\ rs # <<>>
    BY <1>1, <2>2
  <2>4. rs[1].first <= ins[1].x
    <3>1. rs[h].first <= ins[1].x
      BY <2>1, <2>2 DEF ServedBy
    <3>2. h = 1 \/ 1 < h
      BY <1>1
    <3>3. rs[1].first <= rs[h].first
      BY <1>2, <1>4, <2>3, <3>2
    <3>4. rs[1].first \in Nat /\ rs[h].first \in Nat /\ ins[1].x \in Nat
      BY <1>1, <1>2, <1>3, <2>1, <2>3
    <3> QED
      BY <3>1, <3>3, <3>4
  <2>5. PICK k \in 0..Len(ins) - 1 : rs[1].first = ins[k + 1].x
    BY <2>3 DEF Serves
  <2>6. ins[1].x <= ins[k + 1].x
    <3>1. 1 \in DOMAIN ins /\ k + 1 \in DOMAIN ins /\ 1 <= k + 1
      BY <1>1 DEF SortedPoints
    <3> QED
      BY <3>1 DEF SortedPoints
  <2>7. ins[1].x \in Nat /\ ins[k + 1].x \in Nat
    BY <1>1, <1>3, <2>1
  <2> QED
    BY <2>3, <2>4, <2>5, <2>6, <2>7
<1>6. \A k \in 1..Len(rs) - 1 : rs[k].first < rs[k + 1].first
  <2> SUFFICES ASSUME NEW k \in 1..Len(rs) - 1 PROVE rs[k].first < rs[k + 1].first
    OBVIOUS
  <2>1. k \in 1..Len(rs) /\ k + 1 \in 1..Len(rs) /\ k < k + 1
    BY <1>1
  <2> QED
    BY <1>4, <2>1
<1>7. ASSUME NEW k \in 0..Len(ins) - 1, NewAt(ins, k)
      PROVE  Fits(rs[Max({h \in DOMAIN rs : rs[h].first <= ins[k + 1].x})], ins[k + 1], eps)
  <2> DEFINE S == {h \in DOMAIN rs : rs[h].first <= ins[k + 1].x}
             g == Max(S)
  <2>1. PICK h \in 1..Len(rs) : ServedBy(ins, eps, rs, k, h)
    BY <1>7 DEF Serves
  <2>2. /\ rs[h].first <= ins[k + 1].x /\ Fits(rs[h], ins[k + 1], eps)
        /\ h < Len(rs) => ins[k + 1].x < rs[h + 1].first
    BY <2>1 DEF ServedBy
  <2>3. h \in S /\ S \subseteq 0..Len(rs) /\ S # {}
    BY <1>1, <2>2
  <2>4. g \in S /\ \A y \in S : y <= g
    <3> HIDE DEF S
    <3> QED
      BY <1>1, <2>3, MaxOfNaturals
  <2>5. h <= g /\ g \in 1..Len(rs) /\ rs[g].first <= ins[k + 1].x
    BY <1>1, <2>3, <2>4
  <2> HIDE DEF g
  <2>6. ASSUME h < g PROVE FALSE
    <3>1. h < Len(rs) /\ h + 1 \in 1..Len(rs) /\ (h + 1 = g \/ h + 1 < g)
      BY <1>1, <2>5, <2>6
    <3>2. rs[h + 1].first <= rs[g].first
      BY <1>2, <1>4, <2>5, <3>1
    <3>3. rs[h + 1].first \in Nat /\ rs[g].first \in Nat /\ ins[k + 1].x \in Nat
      BY <1>2, <1>3, <2>5, <3>1
    <3>4. ins[k + 1].x < rs[h + 1].first
      BY <2>2, <3>1
    <3>5. rs[g].first <= ins[k + 1].x
      BY <2>5
    <3> QED
      BY SMTT(30), <3>2, <3>3, <3>4, <3>5
  <2>7. g = h
    BY <2>5, <2>6
  <2> QED
    BY <2>2, <2>7 DEF g
<1> QED
  BY <1>5, <1>6, <1>7

\* The invariant gives what the callers rely on.
LEMMA TInvFits == TInv => EveryPointFits
<1> SUFFICES ASSUME TInv, returned, N > 0 PROVE EveryPointFits
  BY DEF EveryPointFits
<1>1. /\ SortedPoints(input) /\ out \in Seq(SegmentRecords) /\ N = Len(input)
      /\ Serves(input, epsilon, out, 0, Len(input)) /\ Len(input) > 0
  BY DEF TInv, N
<1>2. /\ out # <<>> /\ out[1].first = input[1].x
      /\ \A k \in 1..Len(out) - 1 : out[k].first < out[k + 1].first
      /\ \A k \in 0..Len(input) - 1 : NewAt(input, k) =>
           Fits(out[Max({h \in DOMAIN out : out[h].first <= input[k + 1].x})], input[k + 1], epsilon)
  BY <1>1, ServedByTheLast
<1>3. In(0) = input[1]
  BY DEF In
<1>4. ASSUME NEW k \in 0..N - 1, NewX(k) PROVE Fits(Responsible(In(k)), In(k), epsilon)
  <2>1. NewAt(input, k) /\ k \in 0..Len(input) - 1
    BY <1>1, <1>4, NewXIsNewAt
  <2> QED
    BY <1>2, <2>1 DEF Responsible, In
<1> QED
  BY <1>2, <1>3, <1>4 DEF EveryPointFits

\* Whatever the input, the number of threads and the order of their steps: no
\* cursor of make_segmentation leaves its chunk, a model counts exactly the new
\* x it has read since its segment began, and c counts the segments emitted.
THEOREM TypesAndCounts == Spec => []TypeOK
<1> QED
  BY TInvTypes, TInitEstablishes, TNextPreserves, PTL DEF Spec

\* Whatever the input, the number of threads and the order of their steps: the
\* segments that make_segmentation_par returns begin with the first point, have
\* increasing first x, and the one a lookup selects for a point passes within
\* epsilon of it.
THEOREM EveryPointAlwaysFits == Spec => []EveryPointFits
<1> QED
  BY TInvFits, TInitEstablishes, TNextPreserves, PTL DEF Spec

-----------------------------------------------------------------------------
(* The reference, as a function of the prefix of an input.                 *)

PointsAt(ins, h, c) == [k \in {j \in h..c - 1 : NewAt(ins, j)} |-> ins[k + 1]]

\* The begins of a last range of the prefix of length c that one line fits.
LastBegins(ins, eps, c) == {h \in 0..c - 1 : NewAt(ins, h) /\ Feasible(PointsAt(ins, h, c), eps)}

\* f is the function of FewestSegments up to n.
CountsFewest(f, ins, eps, n) ==
  f = [c \in 0..n |-> IF c = 0 THEN 0 ELSE 1 + Min({f[h] : h \in LastBegins(ins, eps, c)})]

Fewest(ins, eps) == CHOOSE f : CountsFewest(f, ins, eps, Len(ins))

\* A range can always begin at the last new x.
LEMMA LastBeginExists ==
  ASSUME NEW ins, NEW eps, NEW c \in Nat \ {0}
  PROVE  LastBegins(ins, eps, c) # {}
<1> DEFINE S == {j \in 0..c - 1 : NewAt(ins, j)}
           h == Max(S)
<1>1. 0 \in S
  BY DEF NewAt
<1>2. h \in S /\ \A j \in S : j <= h
  <2>1. c - 1 \in Nat /\ S \subseteq 0..c - 1 /\ S # {}
    BY <1>1
  <2> HIDE DEF S
  <2> QED
    BY <2>1, MaxOfNaturals
<1> HIDE DEF h
<1>3. h \in 0..c - 1 /\ NewAt(ins, h)
  BY <1>2
<1>4. \A j \in h..c - 1 : NewAt(ins, j) => j = h
  BY <1>2, <1>3
<1>5. DOMAIN PointsAt(ins, h, c) \subseteq {h}
  BY <1>4 DEF PointsAt
<1>6. Pairs(PointsAt(ins, h, c)) = {}
  BY <1>3, <1>5 DEF Pairs
<1>7. Feasible(PointsAt(ins, h, c), eps)
  BY <1>6 DEF Feasible
<1> QED
  BY <1>3, <1>7 DEF LastBegins

\* There is such a function for every input.
LEMMA FewestExists ==
  ASSUME NEW n \in Nat, NEW ins, NEW eps
  PROVE  \E f : CountsFewest(f, ins, eps, n)
<1> DEFINE S == {m \in 0..n : \E f : CountsFewest(f, ins, eps, m)}
           B(c) == LastBegins(ins, eps, c)
<1>1. 0 \in S
  <2> DEFINE f == [c \in 0..0 |-> 0]
  <2>1. f = [c \in 0..0 |-> IF c = 0 THEN 0 ELSE 1 + Min({f[h] : h \in LastBegins(ins, eps, c)})]
    OBVIOUS
  <2> HIDE DEF f
  <2>2. CountsFewest(f, ins, eps, 0)
    BY <2>1 DEF CountsFewest
  <2>3. 0 \in 0..n
    OBVIOUS
  <2> QED
    BY <2>2, <2>3
<1>2. ASSUME NEW m \in 0..n - 1, m \in S PROVE m + 1 \in S
  <2>1. PICK f : CountsFewest(f, ins, eps, m)
    BY <1>2
  <2> DEFINE last == 1 + Min({f[h] : h \in B(m + 1)})
             g == [c \in 0..m + 1 |-> IF c <= m THEN f[c] ELSE last]
  <2>2. \A c \in 0..m : g[c] = f[c]
    <3> SUFFICES ASSUME NEW c \in 0..m PROVE g[c] = f[c]
      OBVIOUS
    <3>1. c \in 0..m + 1 /\ c <= m
      OBVIOUS
    <3> HIDE DEF last
    <3> QED
      BY <3>1
  <2>3. g[m + 1] = last /\ g = [c \in 0..m + 1 |-> g[c]]
    <3>1. m + 1 \in 0..m + 1 /\ ~(m + 1 <= m)
      OBVIOUS
    <3> HIDE DEF last
    <3>2. g[m + 1] = last
      BY <3>1
    <3>3. g = [c \in 0..m + 1 |-> g[c]]
      BY Zenon
    <3> QED
      BY <3>2, <3>3
  <2> HIDE DEF g
  <2>4. \A c \in 0..m + 1 : {g[h] : h \in B(c)} = {f[h] : h \in B(c)}
    <3> SUFFICES ASSUME NEW c \in 0..m + 1 PROVE {g[h] : h \in B(c)} = {f[h] : h \in B(c)}
      OBVIOUS
    <3>1. \A h \in B(c) : h \in 0..m
      BY DEF LastBegins
    <3> HIDE DEF B
    <3> QED
      BY <2>2, <3>1
  <2>5. ASSUME NEW c \in 0..m + 1
        PROVE  g[c] = IF c = 0 THEN 0 ELSE 1 + Min({g[h] : h \in B(c)})
    <3>1. {g[h] : h \in B(c)} = {f[h] : h \in B(c)}
      BY <2>4
    <3> HIDE DEF B
    <3>2. CASE c \in 0..m
      <4>1. f[c] = IF c = 0 THEN 0 ELSE 1 + Min({f[h] : h \in B(c)})
        BY <2>1, <3>2 DEF CountsFewest, B
      <4> QED
        BY <2>2, <3>1, <3>2, <4>1
    <3>3. CASE c = m + 1
      <4>1. c # 0
        BY <3>3
      <4> QED
        BY <2>3, <3>1, <3>3, <4>1
    <3> QED
      BY <3>2, <3>3
  <2>6. CountsFewest(g, ins, eps, m + 1)
    BY <2>3, <2>5 DEF CountsFewest
  <2>7. m + 1 \in 0..n
    OBVIOUS
  <2> QED
    BY <2>6, <2>7
<1>3. \A m \in 0..n : m \in S
  <2> HIDE DEF S
  <2> QED
    BY <1>1, <1>2, IntervalInduction
<1> QED
  BY <1>3

\* Its values.
LEMMA FewestValues ==
  ASSUME NEW ins, Len(ins) \in Nat, NEW eps
  PROVE  /\ Fewest(ins, eps)[0] = 0
         /\ \A c \in 1..Len(ins) :
              Fewest(ins, eps)[c] = 1 + Min({Fewest(ins, eps)[h] : h \in LastBegins(ins, eps, c)})
<1> DEFINE f == Fewest(ins, eps)
<1>1. CountsFewest(f, ins, eps, Len(ins))
  BY FewestExists DEF Fewest
<1> HIDE DEF f
<1>2. f = [c \in 0..Len(ins) |->
             IF c = 0 THEN 0 ELSE 1 + Min({f[h] : h \in LastBegins(ins, eps, c)})]
  BY <1>1 DEF CountsFewest
<1>3. 0 \in 0..Len(ins)
  OBVIOUS
<1>4. f[0] = 0
  BY <1>2, <1>3
<1>5. ASSUME NEW c \in 1..Len(ins) PROVE f[c] = 1 + Min({f[h] : h \in LastBegins(ins, eps, c)})
  <2>1. c \in 0..Len(ins) /\ c # 0
    OBVIOUS
  <2> QED
    BY <1>2, <2>1
<1> QED
  BY <1>4, <1>5 DEF f

\* f gives the fewest ranges for each prefix of an input of length n: a number,
\* one more than that for the least begin of the last range.
Minimises(f, ins, eps, n) ==
  /\ \A c \in 0..n : f[c] \in Nat
  /\ \A c \in 1..n : \E h \in LastBegins(ins, eps, c) : f[c] = 1 + f[h]
  /\ \A c \in 1..n : \A h \in LastBegins(ins, eps, c) : f[c] <= 1 + f[h]

\* The reference does.
LEMMA FewestMinimises ==
  ASSUME NEW ins, Len(ins) \in Nat, NEW eps
  PROVE  Minimises(Fewest(ins, eps), ins, eps, Len(ins))
<1> DEFINE f == Fewest(ins, eps)
           V(c) == {f[h] : h \in LastBegins(ins, eps, c)}
           S == {c \in 0..Len(ins) : \A h \in 0..c : f[h] \in Nat}
<1>1. f[0] = 0 /\ \A c \in 1..Len(ins) : f[c] = 1 + Min(V(c))
  BY FewestValues
<1> HIDE DEF f
<1>2. ASSUME NEW c \in 1..Len(ins), \A h \in 0..c - 1 : f[h] \in Nat
      PROVE  Min(V(c)) \in V(c) /\ \A v \in V(c) : Min(V(c)) <= v
  <2>1. LastBegins(ins, eps, c) # {} /\ LastBegins(ins, eps, c) \subseteq 0..c - 1
    <3>1. c \in Nat \ {0}
      OBVIOUS
    <3>2. LastBegins(ins, eps, c) # {}
      BY <3>1, LastBeginExists
    <3> QED
      BY <3>2 DEF LastBegins
  <2>2. V(c) \subseteq Nat /\ V(c) # {}
    BY <1>2, <2>1
  <2> HIDE DEF V
  <2> QED
    BY <2>2, MinOfNaturals
<1>3. \A c \in 0..Len(ins) : c \in S
  <2>1. 0 \in S
    BY <1>1
  <2>2. ASSUME NEW c \in 0..Len(ins) - 1, c \in S PROVE c + 1 \in S
    <3>1. c + 1 \in 1..Len(ins) /\ (c + 1) - 1 = c /\ \A h \in 0..c : f[h] \in Nat
      BY <2>2
    <3>2. Min(V(c + 1)) \in V(c + 1)
      BY <1>2, <3>1
    <3>3. \A h \in LastBegins(ins, eps, c + 1) : h \in 0..c
      BY <3>1 DEF LastBegins
    <3>4. Min(V(c + 1)) \in Nat
      BY <3>1, <3>2, <3>3
    <3> HIDE DEF V
    <3>5. f[c + 1] \in Nat
      BY <1>1, <3>1, <3>4
    <3> QED
      BY <3>1, <3>5
  <2> HIDE DEF S
  <2> QED
    BY <2>1, <2>2, IntervalInduction
<1>4. \A c \in 0..Len(ins) : f[c] \in Nat
  <2> SUFFICES ASSUME NEW c \in 0..Len(ins) PROVE f[c] \in Nat
    OBVIOUS
  <2>1. c \in S /\ c \in 0..c
    BY <1>3
  <2> QED
    BY <2>1
<1>5. ASSUME NEW c \in 1..Len(ins)
      PROVE  /\ \E h \in LastBegins(ins, eps, c) : f[c] = 1 + f[h]
             /\ \A h \in LastBegins(ins, eps, c) : f[c] <= 1 + f[h]
  <2>1. \A h \in 0..c - 1 : f[h] \in Nat
    BY <1>4
  <2>2. Min(V(c)) \in V(c) /\ \A v \in V(c) : Min(V(c)) <= v
    BY <1>2, <2>1
  <2>3. f[c] = 1 + Min(V(c))
    BY <1>1
  <2>4. PICK h \in LastBegins(ins, eps, c) : Min(V(c)) = f[h]
    BY <2>2
  <2>5. \A l \in LastBegins(ins, eps, c) : f[l] \in V(c) /\ f[l] \in Nat
    BY <2>1 DEF LastBegins
  <2>6. Min(V(c)) \in Nat
    BY <2>4, <2>5
  <2> DEFINE least == Min(V(c))
  <2>7. f[c] = 1 + least /\ least = f[h] /\ least \in Nat
    BY <2>3, <2>4, <2>6
  <2>8. ASSUME NEW l \in LastBegins(ins, eps, c) PROVE f[c] <= 1 + f[l]
    <3>1. least <= f[l] /\ f[l] \in Nat
      BY <2>2, <2>5
    <3> HIDE DEF least
    <3> QED
      BY <2>7, <3>1
  <2> QED
    BY <2>7, <2>8
<1> QED
  BY <1>4, <1>5 DEF f, Minimises

\* A line that fits a range fits the range without its last position.
LEMMA ShorterFeasible ==
  ASSUME NEW ins, NEW eps, NEW c \in Nat, NEW h \in 0..c - 1, h \in LastBegins(ins, eps, c + 1)
  PROVE  h \in LastBegins(ins, eps, c)
<1> DEFINE pts == PointsAt(ins, h, c)
           all == PointsAt(ins, h, c + 1)
<1>1. NewAt(ins, h) /\ Feasible(all, eps)
  BY DEF LastBegins
<1>2. h..c - 1 \subseteq h..(c + 1) - 1
  OBVIOUS
<1>3. DOMAIN pts \subseteq DOMAIN all /\ \A k \in DOMAIN pts : pts[k] = all[k]
  BY <1>2 DEF PointsAt
<1> HIDE DEF pts, all
<1>4. Feasible(pts, eps)
  <2> SUFFICES ASSUME NEW q \in Pairs(pts), NEW r \in Pairs(pts)
               PROVE  ~SlopeGT(LeastSlope(pts, eps, q), GreatestSlope(pts, eps, r))
    BY DEF Feasible
  <2>1. q \in Pairs(all) /\ r \in Pairs(all)
    BY <1>3 DEF Pairs
  <2>2. /\ q[1] \in DOMAIN pts /\ q[2] \in DOMAIN pts
        /\ r[1] \in DOMAIN pts /\ r[2] \in DOMAIN pts
    BY DEF Pairs
  <2>3. /\ LeastSlope(pts, eps, q) = LeastSlope(all, eps, q)
        /\ GreatestSlope(pts, eps, r) = GreatestSlope(all, eps, r)
    BY <1>3, <2>2 DEF LeastSlope, GreatestSlope
  <2> QED
    BY <1>1, <2>1, <2>3 DEF Feasible
<1> QED
  BY <1>1, <1>4 DEF LastBegins, pts

\* A longer prefix never needs fewer ranges.
LEMMA FewestGrows ==
  ASSUME NEW ins, Len(ins) \in Nat, NEW eps, NEW b \in 0..Len(ins), NEW e \in b..Len(ins)
  PROVE  /\ Fewest(ins, eps)[b] \in Nat /\ Fewest(ins, eps)[e] \in Nat
         /\ Fewest(ins, eps)[b] <= Fewest(ins, eps)[e]
<1> DEFINE f == Fewest(ins, eps)
           S == {c \in b..Len(ins) : f[b] <= f[c]}
<1>1. Minimises(f, ins, eps, Len(ins))
  BY FewestMinimises
<1>6. \A c \in 0..Len(ins) : f[c] \in Nat
  BY <1>1 DEF Minimises
<1>2. ASSUME NEW c \in 0..Len(ins) - 1 PROVE f[c] <= f[c + 1]
  <2>1. c + 1 \in 1..Len(ins) /\ c \in 0..Len(ins) /\ c \in Nat
    OBVIOUS
  <2>2. PICK h \in LastBegins(ins, eps, c + 1) : f[c + 1] = 1 + f[h]
    <3> HIDE DEF f
    <3> QED
      BY <1>1, <2>1 DEF Minimises
  <2>3. h \in 0..c
    BY <2>1 DEF LastBegins
  <2>4. f[c] \in Nat /\ f[h] \in Nat
    BY <1>6, <2>1, <2>3
  <2> HIDE DEF f
  <2>5. CASE h = c
    BY <2>2, <2>4, <2>5
  <2>6. CASE h # c
    <3>1. h \in 0..c - 1 /\ c \in 1..Len(ins)
      BY <2>1, <2>3, <2>6
    <3>2. h \in LastBegins(ins, eps, c)
      BY <2>1, <2>2, <3>1, ShorterFeasible
    <3>3. f[c] <= 1 + f[h]
      BY <1>1, <3>1, <3>2 DEF Minimises
    <3> QED
      BY <2>2, <3>3
  <2> QED
    BY <2>5, <2>6
<1> HIDE DEF f
<1>3. b \in S /\ b \in Nat
  BY <1>6
<1>4. ASSUME NEW c \in b..Len(ins) - 1, c \in S PROVE c + 1 \in S
  <2>1. c \in 0..Len(ins) - 1 /\ c \in 0..Len(ins) /\ c + 1 \in 0..Len(ins) /\ c + 1 \in b..Len(ins)
    BY <1>3
  <2>2. f[b] <= f[c] /\ f[c] <= f[c + 1]
    BY <1>2, <1>4, <2>1
  <2>3. f[b] \in Nat /\ f[c] \in Nat /\ f[c + 1] \in Nat
    BY <1>6, <2>1
  <2> QED
    BY <2>1, <2>2, <2>3
<1>5. e \in S
  <2>1. \A c \in b..Len(ins) : c \in S
    <3> HIDE DEF S
    <3> QED
      BY <1>3, <1>4, IntervalInduction
  <2> QED
    BY <2>1
<1> QED
  BY <1>5, <1>6 DEF f

\* Points at new x between positions a and d, which no line fits, are not in
\* one range: the last of the ranges up to d begins behind a.
LEMMA ConflictCosts ==
  ASSUME NEW ins, SortedPoints(ins), NEW eps, NEW a \in Nat, NEW d \in Nat, a < d, d < Len(ins),
         NEW qs \in Seq(StoredPoints), \A j, l \in DOMAIN qs : j < l => qs[j].x < qs[l].x,
         ~Feasible(qs, eps), Within(ins, qs, a, d + 1)
  PROVE  Fewest(ins, eps)[a + 1] + 1 <= Fewest(ins, eps)[d + 1]
<1> DEFINE f == Fewest(ins, eps)
<1>1. Len(ins) \in Nat /\ d + 1 \in 1..Len(ins) /\ a + 1 \in 0..Len(ins)
  BY DEF SortedPoints
<1>2. PICK h \in LastBegins(ins, eps, d + 1) : f[d + 1] = 1 + f[h]
  <2>1. Minimises(f, ins, eps, Len(ins))
    BY <1>1, FewestMinimises
  <2> HIDE DEF f
  <2> QED
    BY <1>1, <2>1 DEF Minimises
<1> DEFINE pts == PointsAt(ins, h, d + 1)
<1>3. h \in 0..d /\ Feasible(pts, eps)
  BY DEF LastBegins
<1>4. ASSUME h <= a PROVE FALSE
  <2>1. ASSUME NEW j \in DOMAIN qs
        PROVE  \E k \in DOMAIN pts : k \in Nat /\ k < Len(ins) /\ pts[k] = qs[j] /\ qs[j] = ins[k + 1]
    <3>1. PICK k \in a..(d + 1) - 1 : NewAt(ins, k) /\ qs[j] = ins[k + 1]
      BY DEF Within
    <3>2. k \in h..(d + 1) - 1 /\ k \in Nat /\ k < Len(ins)
      BY <1>1, <1>3, <1>4
    <3>3. k \in DOMAIN pts /\ pts[k] = ins[k + 1]
      BY <3>1, <3>2 DEF PointsAt
    <3> QED
      BY <3>1, <3>2, <3>3
  <2>2. ASSUME NEW q \in Pairs(qs)
        PROVE  \E r \in Pairs(pts) : pts[r[1]] = qs[q[1]] /\ pts[r[2]] = qs[q[2]]
    <3>1. q[1] \in DOMAIN qs /\ q[2] \in DOMAIN qs /\ q[1] < q[2]
      BY DEF Pairs
    <3>2. PICK k \in DOMAIN pts : /\ k \in Nat /\ k < Len(ins) /\ pts[k] = qs[q[1]]
                                  /\ qs[q[1]] = ins[k + 1]
      BY <2>1, <3>1
    <3>3. PICK l \in DOMAIN pts : /\ l \in Nat /\ l < Len(ins) /\ pts[l] = qs[q[2]]
                                  /\ qs[q[2]] = ins[l + 1]
      BY <2>1, <3>1
    <3>4. ins[k + 1].x < ins[l + 1].x
      BY <3>1, <3>2, <3>3
    <3>5. ~(l < k)
      <4> SUFFICES ASSUME l < k PROVE FALSE
        OBVIOUS
      <4>1. /\ ins[l + 1].x \in Nat /\ ins[k + 1].x \in Nat /\ ins[k].x \in Nat
            /\ ins[l + 1].x <= ins[k].x /\ ins[k].x <= ins[k + 1].x
        BY <3>2, <3>3, NewBeyond
      <4> QED
        BY <3>4, <4>1
    <3>6. k # l
      <4>1. ins[k + 1].x \in Nat
        <5>1. k + 1 \in 1..Len(ins)
          BY <1>1, <3>2
        <5> QED
          BY <5>1, StoredPointParts DEF SortedPoints
      <4> QED
        BY <3>4, <4>1
    <3>7. k < l
      BY <3>2, <3>3, <3>5, <3>6
    <3> DEFINE r == <<k, l>>
    <3>8. r \in Pairs(pts) /\ r[1] = k /\ r[2] = l
      BY <3>2, <3>3, <3>7 DEF Pairs
    <3> HIDE DEF r, pts
    <3> QED
      BY <3>2, <3>3, <3>8
  <2> HIDE DEF pts
  <2>3. Feasible(qs, eps)
    <3> SUFFICES ASSUME NEW q \in Pairs(qs), NEW r \in Pairs(qs)
                 PROVE  ~SlopeGT(LeastSlope(qs, eps, q), GreatestSlope(qs, eps, r))
      BY DEF Feasible
    <3>1. PICK u \in Pairs(pts) : pts[u[1]] = qs[q[1]] /\ pts[u[2]] = qs[q[2]]
      BY <2>2
    <3>2. PICK v \in Pairs(pts) : pts[v[1]] = qs[r[1]] /\ pts[v[2]] = qs[r[2]]
      BY <2>2
    <3>3. /\ LeastSlope(qs, eps, q) = LeastSlope(pts, eps, u)
          /\ GreatestSlope(qs, eps, r) = GreatestSlope(pts, eps, v)
      BY <3>1, <3>2 DEF LeastSlope, GreatestSlope
    <3> QED
      BY <1>3, <3>3 DEF Feasible
  <2> QED
    BY <2>3
<1>5. a + 1 \in 0..Len(ins) /\ h \in a + 1..Len(ins)
  BY <1>1, <1>3, <1>4
<1>6. f[a + 1] \in Nat /\ f[h] \in Nat /\ f[a + 1] <= f[h]
  BY <1>1, <1>5, FewestGrows
<1> HIDE DEF f
<1>7. f[a + 1] + 1 <= f[d + 1]
  BY <1>2, <1>6
<1> QED
  BY <1>7 DEF f

-----------------------------------------------------------------------------
(* The inductive invariant: what the segments of a thread cost.            *)

\* A thread in state st, with the chunk b..e of ins: each segment it emitted
\* took one more range to the position s0 where the next one began.
ThreadCounts(ins, eps, b, e, st, s0, rs) ==
  /\ st = "scanning" => Len(rs) + Fewest(ins, eps)[b + 1] <= Fewest(ins, eps)[s0 + 1]
  /\ st = "done" => rs = <<>> \/ Len(rs) + Fewest(ins, eps)[b + 1] <= Fewest(ins, eps)[e] + 1

Counts(t) ==
  ThreadCounts(input, epsilon, ChunkBegin(t), ChunkEnd(t), pc[t], start[t], results[t])

CInv ==
  /\ TInv
  /\ \A t \in Threads : Counts(t)
  /\ returned => Len(out) + 1 <= Fewest(input, epsilon)[N] + Cardinality(Threads)

\* The function begins without segments.
LEMMA CInitEstablishes == Init => CInv
<1> SUFFICES ASSUME Init PROVE CInv
  OBVIOUS
<1>1. TInv
  BY TInitEstablishes
<1>2. ASSUME NEW t \in Threads PROVE Counts(t)
  <2>1. pc[t] = "ready"
    BY DEF Init
  <2> QED
    BY <2>1 DEF Counts, ThreadCounts
<1>3. ~returned
  BY DEF Init
<1> QED
  BY <1>1, <1>2, <1>3 DEF CInv

\* A refused point costs any algorithm one more range.
LEMMA CutCosts ==
  ASSUME NEW ins, SortedPoints(ins), NEW eps, NEW b \in Nat, NEW e \in Nat, e <= Len(ins),
         NEW s0, NEW nx, NEW m, NEW rs,
         Scanning(ins, eps, b, e, s0, nx, m, rs), nx < e, nx = s0 \/ NewAt(ins, nx),
         ~Accepts(m, ins[nx + 1].x, ins[nx + 1].y)
  PROVE  Fewest(ins, eps)[s0 + 1] + 1 <= Fewest(ins, eps)[nx + 1]
<1> DEFINE q == ins[nx + 1]
<1>1. /\ s0 \in Nat /\ nx \in Nat /\ q \in StoredPoints /\ q.x \in Nat /\ q.y \in Nat
      /\ q = Point(q.x, q.y)
      /\ m.pointsInHull > 0 => nx > s0 /\ q.x > m.lastX
  BY NextPoint
<1>2. /\ s0 \in b..e - 1 /\ NewAt(ins, s0) /\ WellFormed(m) /\ m.epsilon = eps /\ m \in Models
      /\ m.pointsInHull \in Nat /\ eps \in Nat
  BY ModelParts DEF Scanning, WellFormed
<1>3. PICK ps \in Seq(StoredPoints) :
        Tracks(m, ps) /\ Include(ins, ps, s0, nx) /\ (nx > s0 => Within(ins, ps, s0, nx))
  BY DEF Scanning
<1> HIDE DEF q
<1>4. ~Accepts(m, q.x, q.y)
  BY DEF q
<1>5. m.pointsInHull > 0
  BY <1>2, <1>4 DEF Accepts
<1>6. nx > s0 /\ q.x > m.lastX /\ Within(ins, ps, s0, nx) /\ NewAt(ins, nx) /\ nx < Len(ins)
  <2>1. nx > s0 /\ q.x > m.lastX
    BY <1>1, <1>5
  <2> QED
    BY <1>1, <1>2, <1>3, <2>1 DEF SortedPoints
<1> DEFINE qs == Append(ps, q)
           n == Len(ps)
<1>7. ~Feasible(qs, eps)
  <2>1. ~Feasible(Append(ps, Point(q.x, q.y)), eps)
    BY <1>1, <1>2, <1>3, <1>4, RefusedInfeasible
  <2> QED
    BY <1>1, <2>1
<1>8. /\ qs \in Seq(StoredPoints) /\ DOMAIN ps = 1..n /\ DOMAIN qs = 1..n + 1
      /\ n \in Nat /\ qs[n + 1] = q /\ \A j \in 1..n : qs[j] = ps[j]
  BY <1>1, <1>3
<1>9. n > 0 /\ ps[n].x = m.lastX /\ \A j, l \in 1..n : j < l => ps[j].x < ps[l].x
  BY <1>3, <1>5, <1>8 DEF Tracks
<1>10. \A j \in 1..n : ps[j] \in StoredPoints /\ ps[j].x \in Nat
  BY <1>8, StoredPointParts
<1> HIDE DEF qs, n
<1>11. ASSUME NEW j \in DOMAIN qs, NEW l \in DOMAIN qs, j < l PROVE qs[j].x < qs[l].x
  <2>1. j \in 1..n /\ l \in 1..n + 1 /\ j \in Nat /\ l \in Nat
    BY <1>8, <1>11
  <2>2. CASE l \in 1..n
    BY <1>8, <1>9, <1>11, <2>1, <2>2
  <2>3. CASE l = n + 1
    <3>1. ps[j].x <= ps[n].x
      <4>1. n \in 1..n /\ (j = n \/ j < n)
        BY <1>8, <1>9, <2>1
      <4> QED
        BY <1>9, <1>10, <2>1, <4>1
    <3>2. /\ qs[j] = ps[j] /\ qs[l] = q /\ ps[j].x \in Nat /\ ps[n].x \in Nat
          /\ q.x \in Nat /\ q.x > ps[n].x
      BY <1>1, <1>6, <1>8, <1>9, <1>10, <2>1, <2>3
    <3>3. ps[j].x < q.x
      BY <3>1, <3>2
    <3> QED
      BY <3>2, <3>3
  <2> QED
    BY <1>8, <2>1, <2>2, <2>3
<1>12. Within(ins, qs, s0, nx + 1)
  <2> SUFFICES ASSUME NEW j \in DOMAIN qs
               PROVE  \E k \in s0..(nx + 1) - 1 : NewAt(ins, k) /\ qs[j] = ins[k + 1]
    BY DEF Within
  <2>1. CASE j \in 1..n
    <3>1. PICK k \in s0..nx - 1 : NewAt(ins, k) /\ ps[j] = ins[k + 1]
      BY <1>6, <1>8, <2>1 DEF Within
    <3>2. k \in s0..(nx + 1) - 1 /\ qs[j] = ps[j]
      BY <1>1, <1>8, <2>1
    <3> QED
      BY <3>1, <3>2
  <2>2. CASE j = n + 1
    <3>1. nx \in s0..(nx + 1) - 1 /\ qs[j] = ins[nx + 1]
      BY <1>1, <1>6, <1>8, <2>2 DEF q
    <3> QED
      BY <1>6, <3>1
  <2> QED
    BY <1>8, <2>1, <2>2
<1> QED
  BY <1>1, <1>6, <1>7, <1>8, <1>11, <1>12, ConflictCosts

\* A step of one thread leaves the counts of the others.
LEMMA OneThreadCounts ==
  ASSUME CInv, TInv', UNCHANGED <<args, out, returned>>, NEW t \in Threads,
         NEW st, NEW s0, NEW rs, pc' = [pc EXCEPT ![t] = st], start' = [start EXCEPT ![t] = s0],
         results' = [results EXCEPT ![t] = rs],
         ThreadCounts(input, epsilon, ChunkBegin(t), ChunkEnd(t), st, s0, rs)
  PROVE  CInv'
<1>1. /\ input' = input /\ epsilon' = epsilon /\ Threads' = Threads /\ N' = N
      /\ out' = out /\ returned' = returned
      /\ \A u : ChunkBegin(u)' = ChunkBegin(u) /\ ChunkEnd(u)' = ChunkEnd(u)
  BY ChunksStay
<1>2. /\ pc \in [Threads -> States] /\ start \in [Threads -> Nat]
      /\ results \in [Threads -> Seq(SegmentRecords)]
  BY DEF CInv, TInv
<1>3. ASSUME NEW u \in Threads PROVE Counts(u)'
  <2>1. CASE u = t
    <3>1. pc'[u] = st /\ start'[u] = s0 /\ results'[u] = rs
      BY <1>2, <2>1
    <3>2. ThreadCounts(input', epsilon', ChunkBegin(u)', ChunkEnd(u)', pc'[u], start'[u], results'[u])
      BY <1>1, <2>1, <3>1
    <3> QED
      BY <3>2 DEF Counts
  <2>2. CASE u # t
    <3>1. pc'[u] = pc[u] /\ start'[u] = start[u] /\ results'[u] = results[u]
      BY <1>2, <2>2
    <3>2. ThreadCounts(input, epsilon, ChunkBegin(u), ChunkEnd(u), pc[u], start[u], results[u])
      BY DEF CInv, Counts
    <3>3. ThreadCounts(input', epsilon', ChunkBegin(u)', ChunkEnd(u)', pc'[u], start'[u], results'[u])
      BY <1>1, <3>1, <3>2
    <3> QED
      BY <3>3 DEF Counts
  <2> QED
    BY <2>1, <2>2
<1>4. returned' => Len(out') + 1 <= Fewest(input', epsilon')[N'] + Cardinality(Threads')
  BY <1>1 DEF CInv
<1> QED
  BY <1>1, <1>3, <1>4 DEF CInv

\* What the invariant says of one thread, and of the fewest ranges.
LEMMA CountFacts ==
  ASSUME CInv, NEW t \in Threads
  PROVE  /\ ThreadCounts(input, epsilon, ChunkBegin(t), ChunkEnd(t), pc[t], start[t], results[t])
         /\ ThreadStands(input, epsilon, ChunkBegin(t), ChunkEnd(t),
                         pc[t], start[t], i[t], p[t], opt[t], results[t], count[t])
         /\ SortedPoints(input) /\ Len(input) \in Nat /\ results[t] \in Seq(SegmentRecords)
         /\ ChunkBegin(t) \in Nat /\ ChunkEnd(t) \in Nat /\ ChunkBegin(t) <= ChunkEnd(t)
         /\ ChunkEnd(t) <= Len(input)
<1>1. TInv /\ SortedPoints(input)
  BY DEF CInv, TInv
<1> QED
  BY <1>1, ThreadFacts DEF CInv, Counts, SortedPoints

\* Every step of a thread keeps the invariant.
LEMMA StepCounts ==
  ASSUME CInv, NEW t \in Threads, Step(t)
  PROVE  CInv'
<1> DEFINE b == ChunkBegin(t)
           e == ChunkEnd(t)
           f == Fewest(input, epsilon)
           rs == results[t]
<1>1. TInv /\ TInv'
  BY TNextPreserves DEF CInv, Next
<1>2. /\ ThreadCounts(input, epsilon, b, e, pc[t], start[t], rs)
      /\ ThreadStands(input, epsilon, b, e, pc[t], start[t], i[t], p[t], opt[t], rs, count[t])
      /\ SortedPoints(input) /\ Len(input) \in Nat /\ rs \in Seq(SegmentRecords)
      /\ b \in Nat /\ e \in Nat /\ b <= e /\ e <= Len(input)
  BY CountFacts
<1>3. /\ start = [start EXCEPT ![t] = start[t]] /\ results = [results EXCEPT ![t] = rs]
      /\ pc = [pc EXCEPT ![t] = pc[t]]
  BY <1>1, SameAt
<1>4. \A c, d \in 0..Len(input) : c <= d => f[c] \in Nat /\ f[d] \in Nat /\ f[c] <= f[d]
  <2> SUFFICES ASSUME NEW c \in 0..Len(input), NEW d \in 0..Len(input), c <= d
               PROVE  f[c] \in Nat /\ f[d] \in Nat /\ f[c] <= f[d]
    OBVIOUS
  <2>1. d \in c..Len(input)
    OBVIOUS
  <2> QED
    BY <1>2, <2>1, FewestGrows
<1>5. Len(rs) \in Nat /\ Len(<<>>) = 0
  BY <1>2
<1>6. CASE EmptyChunk(t)
  <2>1. /\ pc[t] = "ready" /\ pc' = [pc EXCEPT ![t] = "done"]
        /\ start' = start /\ results' = results /\ UNCHANGED <<args, out, returned>>
    BY <1>6 DEF EmptyChunk
  <2>2. rs = <<>>
    BY <1>2, <2>1 DEF ThreadStands
  <2> HIDE DEF b, e, rs
  <2>3. ThreadCounts(input, epsilon, b, e, "done", start[t], rs)
    BY <2>2 DEF ThreadCounts
  <2> QED
    BY <1>1, <1>3, <2>1, <2>3, OneThreadCounts DEF b, e
<1>7. CASE Open(t)
  <2> DEFINE first == AlignedBegin(t)
  <2>1. /\ pc[t] = "ready" /\ first < e /\ pc' = [pc EXCEPT ![t] = "scanning"]
        /\ start' = [start EXCEPT ![t] = first] /\ results' = results
        /\ UNCHANGED <<args, out, returned>>
    BY <1>7 DEF Open
  <2>2. rs = <<>>
    BY <1>2, <2>1 DEF ThreadStands
  <2>3. first \in b..e
    BY <1>1, BeginAligned DEF TInv
  <2> HIDE DEF first, b, e, f, rs
  <2>4. b + 1 \in 0..Len(input) /\ first + 1 \in 0..Len(input) /\ b + 1 <= first + 1
    BY <1>2, <2>1, <2>3
  <2>5. Len(rs) + f[b + 1] <= f[first + 1]
    BY <1>4, <1>5, <2>2, <2>4
  <2>6. ThreadCounts(input, epsilon, b, e, "scanning", first, rs)
    BY <2>5 DEF ThreadCounts, f
  <2> QED
    BY <1>1, <1>3, <2>1, <2>6, OneThreadCounts DEF b, e
<1>8. CASE Skip(t) \/ Take(t)
  <2>1. /\ pc' = pc /\ start' = start /\ results' = results /\ UNCHANGED <<args, out, returned>>
    BY <1>8 DEF Skip, Take
  <2> QED
    BY <1>1, <1>2, <1>3, <2>1, OneThreadCounts
<1>9. CASE Cut(t)
  <2> DEFINE ss == results'[t]
  <2>1. /\ Reading(t) /\ ~Repeated(t) /\ pc[t] = "scanning"
        /\ ~Accepts(opt[t], input[i[t] + 1].x, input[i[t] + 1].y)
        /\ pc' = pc /\ start' = [start EXCEPT ![t] = i[t]] /\ UNCHANGED <<args, out, returned>>
    BY <1>9 DEF Cut, Reading, In
  <2>2. results' = [results EXCEPT ![t] = ss] /\ Len(ss) = Len(rs) + 1
    <3>1. results' = [results EXCEPT ![t] = Append(rs, GetSegment(opt'[t]))]
      BY <1>9 DEF Cut
    <3>2. ss = Append(rs, GetSegment(opt'[t]))
      BY <1>1, <3>1 DEF TInv
    <3>3. Len(ss) = Len(rs) + 1
      BY <1>2, <3>2
    <3>4. results' = [results EXCEPT ![t] = ss]
      BY <3>1, <3>2, Zenon
    <3> QED
      BY <3>3, <3>4
  <2>3. /\ Scanning(input, epsilon, b, e, start[t], i[t], opt[t], rs) /\ i[t] < e
        /\ start[t] <= i[t] /\ start[t] \in Nat /\ i[t] \in Nat
        /\ i[t] = start[t] \/ NewAt(input, i[t])
    BY <1>1, <2>1, Scans
  <2>10. start[t] \in b..e - 1
    BY <2>3 DEF Scanning
  <2>4. f[start[t] + 1] + 1 <= f[i[t] + 1]
    BY <1>2, <2>1, <2>3, CutCosts
  <2>5. Len(rs) + f[b + 1] <= f[start[t] + 1]
    BY <1>2, <2>1 DEF ThreadCounts
  <2> HIDE DEF b, e, f, rs, ss
  <2>6. /\ b + 1 \in 0..Len(input) /\ start[t] + 1 \in 0..Len(input) /\ i[t] + 1 \in 0..Len(input)
        /\ b + 1 <= b + 1 /\ start[t] + 1 <= i[t] + 1
    BY <1>2, <2>3, <2>10
  <2>7. f[b + 1] \in Nat /\ f[start[t] + 1] \in Nat /\ f[i[t] + 1] \in Nat
    BY <1>4, <2>6
  <2>8. Len(ss) + f[b + 1] <= f[i[t] + 1]
    BY <1>5, <2>2, <2>4, <2>5, <2>7
  <2>9. ThreadCounts(input, epsilon, b, e, pc[t], i[t], ss)
    BY <2>1, <2>8 DEF ThreadCounts, f
  <2> QED
    BY <1>1, <1>3, <2>1, <2>2, <2>9, OneThreadCounts DEF b, e
<1>10. CASE Close(t)
  <2> DEFINE ss == Append(rs, GetSegment(opt[t]))
  <2>1. /\ pc[t] = "scanning" /\ i[t] = e /\ pc' = [pc EXCEPT ![t] = "done"] /\ start' = start
        /\ results' = [results EXCEPT ![t] = ss] /\ UNCHANGED <<args, out, returned>>
    BY <1>10 DEF Close
  <2>2. Len(ss) = Len(rs) + 1
    BY <1>2
  <2>3. start[t] \in b..e - 1
    BY <1>2, <2>1 DEF ThreadStands, Scanning
  <2>5. Len(rs) + f[b + 1] <= f[start[t] + 1]
    BY <1>2, <2>1 DEF ThreadCounts
  <2> HIDE DEF b, e, f, rs, ss
  <2>6. /\ b + 1 \in 0..Len(input) /\ start[t] + 1 \in 0..Len(input) /\ e \in 0..Len(input)
        /\ b + 1 <= b + 1 /\ start[t] + 1 <= e
    BY <1>2, <2>3
  <2>7. f[b + 1] \in Nat /\ f[start[t] + 1] \in Nat /\ f[e] \in Nat /\ f[start[t] + 1] <= f[e]
    BY <1>4, <2>6
  <2>8. Len(ss) + f[b + 1] <= f[e] + 1
    BY <1>5, <2>2, <2>5, <2>7
  <2>9. ThreadCounts(input, epsilon, b, e, "done", start[t], ss)
    BY <2>8 DEF ThreadCounts, f
  <2> QED
    BY <1>1, <1>3, <2>1, <2>9, OneThreadCounts DEF b, e
<1> QED
  BY <1>6, <1>7, <1>8, <1>9, <1>10 DEF Step

\* The first chunks, k of them, cost at most one segment each, but for the
\* first, beyond the fewest ranges of the positions they cover.
LEMMA JoinedCount ==
  ASSUME CInv, AllJoined, N > 0
  PROVE  LET all == FlattenSeq([k \in 1..Cardinality(Threads) |-> results[k - 1]])
         IN Len(all) + 1 <= Fewest(input, epsilon)[N] + Cardinality(Threads)
<1> DEFINE n == Cardinality(Threads)
           seqs == [k \in 1..n |-> results[k - 1]]
           g == Fewest(input, epsilon)
<1>1. /\ SortedPoints(input) /\ parallelism \in Parallelisms /\ n \in Nat \ {0}
      /\ Threads = 0..n - 1 /\ N = Len(input) /\ Len(input) \in Nat
  BY ThreadsNumbered DEF CInv, TInv, N, SortedPoints
<1>2. ASSUME NEW t \in Threads
      PROVE  /\ results[t] \in Seq(SegmentRecords) /\ Len(results[t]) \in Nat
             /\ results[t] = <<>> \/ Len(results[t]) + g[ChunkBegin(t) + 1] <= g[ChunkEnd(t)] + 1
             /\ ChunkBegin(t) \in Nat /\ ChunkEnd(t) \in Nat
             /\ ChunkBegin(t) <= ChunkEnd(t) /\ ChunkEnd(t) <= N
             /\ results[t] # <<>> => ChunkBegin(t) < ChunkEnd(t)
  <2> DEFINE b == ChunkBegin(t)
             e == ChunkEnd(t)
             rs == results[t]
  <2>1. /\ ThreadCounts(input, epsilon, b, e, "done", start[t], rs)
        /\ ThreadStands(input, epsilon, b, e, "done", start[t], i[t], p[t], opt[t], rs, count[t])
        /\ rs \in Seq(SegmentRecords)
        /\ b \in Nat /\ e \in Nat /\ b <= e /\ e <= Len(input)
    BY CountFacts DEF AllJoined
  <2> HIDE DEF b, e, rs
  <2>2. Len(rs) \in Nat /\ (rs # <<>> => 1 \in 1..Len(rs))
    BY <2>1
  <2>3. rs = <<>> \/ Len(rs) + g[b + 1] <= g[e] + 1
    BY <2>1 DEF ThreadCounts
  <2>4. ASSUME rs # <<>> PROVE b < e
    <3>1. Serves(input, epsilon, rs, b, e)
      BY <2>1 DEF ThreadStands
    <3>2. \E k \in b..e - 1 : rs[1].first = input[k + 1].x
      BY <2>2, <2>4, <3>1 DEF Serves
    <3> QED
      BY <2>1, <3>2
  <2> QED
    BY <1>1, <2>1, <2>2, <2>3, <2>4 DEF b, e, rs
<1>3. Len(seqs) = n
  BY <1>1
<1>4. \A k \in 1..n : seqs[k] = results[k - 1] /\ k - 1 \in Threads
  BY <1>1
<1> HIDE DEF seqs, n, g
<1>5. PICK f : Concatenates(f, seqs, n) /\ FlattenSeq(seqs) = f[n]
  BY <1>1, <1>3, Flattened
<1>6. f[1] = seqs[1] /\ \A k \in 2..n : f[k] = f[k - 1] \o seqs[k]
  <2>1. n \in Nat \ {0}
    BY <1>1
  <2>2. Concatenates(f, seqs, n)
    BY <1>5
  <2> QED
    BY ZenonT(30), <2>1, <2>2, ConcatenationSteps
<1>7. \A c, d \in 0..Len(input) : c <= d => g[c] \in Nat /\ g[d] \in Nat /\ g[c] <= g[d]
  <2> SUFFICES ASSUME NEW c \in 0..Len(input), NEW d \in 0..Len(input), c <= d
               PROVE  g[c] \in Nat /\ g[d] \in Nat /\ g[c] <= g[d]
    OBVIOUS
  <2>1. d \in c..Len(input)
    OBVIOUS
  <2> QED
    BY <1>1, <2>1, FewestGrows DEF g
<1>8. g[0] = 0 /\ g[1] >= 1
  <2>1. Minimises(g, input, epsilon, Len(input)) /\ g[0] = 0
    BY <1>1, FewestMinimises, FewestValues DEF g
  <2>2. 1 \in 1..Len(input) /\ 1 \in 0..Len(input)
    BY <1>1
  <2>3. PICK h \in LastBegins(input, epsilon, 1) : g[1] = 1 + g[h]
    BY <2>1, <2>2 DEF Minimises
  <2>4. h = 0
    BY DEF LastBegins
  <2> QED
    BY <2>1, <2>3, <2>4
<1> DEFINE S == {k \in 1..n : /\ f[k] \in Seq(SegmentRecords)
                              /\ Len(f[k]) + 1 <= g[ChunkEnd(k - 1)] + k}
<1>9. 1 \in S
  <2>1. 1 \in 1..n /\ 1 - 1 = 0 /\ 0 \in Threads
    BY <1>1
  <2>2. ChunkBegin(0) = 0
    BY <1>1, <2>1, ChunksAdjacent
  <2>3. f[1] = results[0]
    BY <1>4, <1>6, <2>1
  <2> DEFINE e == ChunkEnd(0)
             rs == results[0]
  <2>4. /\ rs \in Seq(SegmentRecords) /\ Len(rs) \in Nat
        /\ rs = <<>> \/ Len(rs) + g[0 + 1] <= g[e] + 1
        /\ e \in Nat /\ e <= N
    BY <1>2, <2>1, <2>2
  <2> HIDE DEF e, rs
  <2>5. g[e] \in Nat /\ g[1] \in Nat
    BY <1>1, <1>7, <2>4
  <2>6. Len(rs) <= g[e]
    <3>1. CASE rs = <<>>
      BY <2>5, <3>1
    <3>2. CASE rs # <<>>
      BY <1>8, <2>4, <2>5, <3>2
    <3> QED
      BY <3>1, <3>2
  <2>7. f[1] \in Seq(SegmentRecords) /\ Len(f[1]) + 1 <= g[ChunkEnd(1 - 1)] + 1
    BY <2>1, <2>3, <2>4, <2>5, <2>6 DEF e, rs
  <2> QED
    BY <2>1, <2>7
<1>10. ASSUME NEW k \in 1..n - 1, k \in S PROVE k + 1 \in S
  <2>1. /\ k + 1 \in 2..n /\ k + 1 \in 1..n /\ (k + 1) - 1 = k /\ k \in Threads /\ k - 1 \in Threads
        /\ (k - 1) + 1 = k /\ k # n /\ k \in Nat
    BY <1>1
  <2>2. f[k + 1] = f[k] \o results[k]
    BY <1>4, <1>6, <2>1
  <2>3. ChunkEnd(k - 1) = ChunkBegin(k)
    BY <1>1, <2>1, ChunksAdjacent DEF n
  <2> DEFINE b == ChunkBegin(k)
             e == ChunkEnd(k)
             rs == results[k]
             all == f[k]
  <2>4. /\ rs \in Seq(SegmentRecords) /\ Len(rs) \in Nat
        /\ rs = <<>> \/ Len(rs) + g[b + 1] <= g[e] + 1
        /\ b \in Nat /\ e \in Nat /\ b <= e /\ e <= N /\ (rs # <<>> => b < e)
    BY <1>2, <2>1
  <2>5. all \in Seq(SegmentRecords) /\ Len(all) + 1 <= g[b] + k
    BY <1>10, <2>3
  <2> HIDE DEF b, e, rs, all
  <2>6. g[b] \in Nat /\ g[e] \in Nat /\ g[b] <= g[e]
    BY <1>1, <1>7, <2>4
  <2>7. Len(all) \in Nat /\ all \o rs \in Seq(SegmentRecords) /\ Len(all \o rs) = Len(all) + Len(rs)
    BY <2>4, <2>5
  <2>8. Len(all \o rs) + 1 <= g[e] + (k + 1)
    <3>1. CASE rs = <<>>
      <4>1. Len(rs) = 0
        BY <3>1
      <4> QED
        BY <2>1, <2>5, <2>6, <2>7, <4>1
    <3>2. CASE rs # <<>>
      <4>1. g[b + 1] \in Nat /\ g[b] <= g[b + 1]
        <5>1. b \in 0..Len(input) /\ b + 1 \in 0..Len(input) /\ b <= b + 1
          BY <1>1, <2>4, <3>2
        <5> QED
          BY <1>7, <5>1
      <4>2. Len(rs) + g[b + 1] <= g[e] + 1
        BY <2>4, <3>2
      <4>3. Len(all) + Len(rs) + 1 <= g[e] + (k + 1)
        <5> DEFINE u == Len(all)
                   v == Len(rs)
                   x == g[b]
                   y == g[b + 1]
                   z == g[e]
        <5>1. /\ u \in Nat /\ v \in Nat /\ x \in Nat /\ y \in Nat /\ z \in Nat /\ k \in Nat
              /\ u + 1 <= x + k /\ x <= y /\ v + y <= z + 1
          BY <2>1, <2>4, <2>5, <2>6, <2>7, <4>1, <4>2
        <5> HIDE DEF u, v, x, y, z
        <5>2. u + v + 1 <= z + (k + 1)
          BY <5>1
        <5> QED
          BY <5>2 DEF u, v, z
      <4> QED
        BY <2>7, <4>3
    <3> QED
      BY <3>1, <3>2
  <2>9. f[k + 1] \in Seq(SegmentRecords) /\ Len(f[k + 1]) + 1 <= g[ChunkEnd((k + 1) - 1)] + (k + 1)
    BY <2>1, <2>2, <2>7, <2>8 DEF e, rs, all
  <2> QED
    BY <2>1, <2>9
<1>11. n \in S
  <2> HIDE DEF S
  <2>1. \A k \in 1..n : k \in S
    BY <1>1, <1>9, <1>10, IntervalInduction
  <2> QED
    BY <1>1, <2>1
<1>12. ChunkEnd(n - 1) = N
  <2>1. n - 1 \in Threads /\ (n - 1) + 1 = n
    BY <1>1
  <2> QED
    BY <1>1, <2>1, ChunksAdjacent DEF n
<1>13. Len(FlattenSeq(seqs)) + 1 <= g[N] + n
  BY <1>5, <1>11, <1>12
<1> QED
  BY <1>13 DEF seqs, n, g

\* Join keeps the invariant.
LEMMA JoinCounts ==
  ASSUME CInv, Join
  PROVE  CInv'
<1> DEFINE all == FlattenSeq([k \in 1..Cardinality(Threads) |-> results[k - 1]])
<1>1. /\ AllJoined /\ out' = all /\ UNCHANGED args
      /\ pc' = pc /\ start' = start /\ results' = results
  BY DEF Join
<1>2. /\ input' = input /\ epsilon' = epsilon /\ Threads' = Threads /\ N' = N
      /\ \A u : ChunkBegin(u)' = ChunkBegin(u) /\ ChunkEnd(u)' = ChunkEnd(u)
  BY <1>1, ChunksStay
<1>3. TInv'
  BY JoinKeeps DEF CInv
<1>4. \A u \in Threads' : Counts(u)'
  BY <1>1, <1>2 DEF CInv, Counts
<1>5. Len(all) + 1 <= Fewest(input, epsilon)[N] + Cardinality(Threads)
  <2>1. N \in Nat /\ SortedPoints(input) /\ parallelism \in Parallelisms
    BY DEF CInv, TInv, N, SortedPoints
  <2>2. CASE N > 0
    BY <1>1, <2>2, JoinedCount
  <2>3. CASE N = 0
    <3>1. all \in Seq(SegmentRecords) /\ Serves(input, epsilon, all, 0, 0)
      BY <1>1, <2>3, JoinedServe DEF CInv
    <3> HIDE DEF all
    <3>2. Len(all) = 0
      <4>1. Len(all) \in Nat /\ 0..0 - 1 = {}
        BY <3>1
      <4>2. ASSUME Len(all) # 0 PROVE FALSE
        <5>1. 1 \in 1..Len(all)
          BY <4>1, <4>2
        <5> QED
          BY <3>1, <4>1, <5>1 DEF Serves
      <4> QED
        BY <4>2
    <3>3. Fewest(input, epsilon)[N] = 0
      BY <2>1, <2>3, FewestValues DEF N
    <3>4. Cardinality(Threads) \in Nat \ {0}
      BY <2>1, ThreadsNumbered
    <3> QED
      BY <3>2, <3>3, <3>4
  <2> QED
    BY <2>1, <2>2, <2>3
<1> HIDE DEF all
<1>6. returned' => Len(out') + 1 <= Fewest(input', epsilon')[N'] + Cardinality(Threads')
  BY <1>1, <1>2, <1>5
<1> QED
  BY <1>3, <1>4, <1>6 DEF CInv

\* Every step keeps the invariant.
LEMMA CNextPreserves == CInv /\ [Next]_vars => CInv'
<1> SUFFICES ASSUME CInv, [Next]_vars PROVE CInv'
  OBVIOUS
<1>1. ASSUME NEW t \in Threads, Step(t) PROVE CInv'
  BY <1>1, StepCounts
<1>2. CASE Join
  BY <1>2, JoinCounts
<1>3. CASE UNCHANGED vars
  <2>1. /\ UNCHANGED args /\ out' = out /\ returned' = returned
        /\ pc' = pc /\ start' = start /\ results' = results
    BY <1>3 DEF vars
  <2>2. /\ input' = input /\ epsilon' = epsilon /\ Threads' = Threads /\ N' = N
        /\ \A u : ChunkBegin(u)' = ChunkBegin(u) /\ ChunkEnd(u)' = ChunkEnd(u)
    BY <2>1, ChunksStay
  <2>3. TInv'
    BY TNextPreserves DEF CInv
  <2>4. \A u \in Threads' : Counts(u)'
    BY <2>1, <2>2 DEF CInv, Counts
  <2>5. returned' => Len(out') + 1 <= Fewest(input', epsilon')[N'] + Cardinality(Threads')
    BY <2>1, <2>2 DEF CInv
  <2> QED
    BY <2>3, <2>4, <2>5 DEF CInv
<1> QED
  BY <1>1, <1>2, <1>3 DEF Next

\* The reference of the specification is the function of this module.
LEMMA FewestIsReference ==
  ASSUME SortedPoints(input)
  PROVE  FewestSegments = Fewest(input, epsilon)[N]
<1> DEFINE F(f) == f = [c \in 0..N |->
                          IF c = 0 THEN 0
                          ELSE 1 + Min({f[h] : h \in {j \in 0..c - 1 :
                                         NewX(j) /\ Feasible(NewPoints(j, c), epsilon)}})]
<1>1. FewestSegments = (CHOOSE f : F(f))[N]
  BY DEF FewestSegments
<1>2. \A j \in Nat : NewX(j) <=> NewAt(input, j)
  BY NewXIsNewAt
<1>3. ASSUME NEW c \in 0..N, NEW j \in 0..c - 1 PROVE NewPoints(j, c) = PointsAt(input, j, c)
  <2>1. {k \in j..c - 1 : NewX(k)} = {k \in j..c - 1 : NewAt(input, k)}
    BY <1>2
  <2> QED
    BY <2>1 DEF NewPoints, PointsAt, In
<1>4. ASSUME NEW c \in 0..N
      PROVE  {j \in 0..c - 1 : NewX(j) /\ Feasible(NewPoints(j, c), epsilon)}
               = LastBegins(input, epsilon, c)
  BY <1>2, <1>3 DEF LastBegins
<1>5. \A f : F(f) <=> CountsFewest(f, input, epsilon, Len(input))
  BY <1>4 DEF CountsFewest, N
<1> HIDE DEF F
<1>6. (CHOOSE f : F(f)) = (CHOOSE f : CountsFewest(f, input, epsilon, Len(input)))
  BY <1>5
<1> QED
  BY <1>1, <1>6 DEF Fewest

\* The invariant gives the bound on the segments returned.
LEMMA CInvBounds == CInv => AtMostOneMorePerBoundary
<1> SUFFICES ASSUME CInv, returned PROVE Len(out) <= FewestSegments + Cardinality(Threads) - 1
  BY DEF AtMostOneMorePerBoundary
<1>1. /\ SortedPoints(input) /\ parallelism \in Parallelisms /\ out \in Seq(SegmentRecords)
      /\ Len(out) + 1 <= Fewest(input, epsilon)[N] + Cardinality(Threads) /\ N \in Nat
  BY DEF CInv, TInv, SortedPoints, N
<1>2. Cardinality(Threads) \in Nat
  BY <1>1, ThreadsNumbered
<1>3. FewestSegments = Fewest(input, epsilon)[N]
  BY <1>1, FewestIsReference
<1>4. FewestSegments \in Nat
  <2>1. N = Len(input) /\ 0 \in 0..Len(input) /\ Len(input) \in 0..Len(input)
    BY <1>1 DEF N
  <2>2. Fewest(input, epsilon)[Len(input)] \in Nat
    BY <1>1, <2>1, FewestGrows
  <2> QED
    BY <1>3, <2>1, <2>2
<1>5. Len(out) \in Nat
  BY <1>1
<1> QED
  BY <1>1, <1>2, <1>3, <1>4, <1>5

\* Whatever the input, the number of threads and the order of their steps:
\* make_segmentation_par returns at most one segment per chunk boundary more
\* than the fewest with which any algorithm can fit the points, so that
\* make_segmentation, with one thread, returns the fewest.
THEOREM AtMostOneMoreAlways == Spec => []AtMostOneMorePerBoundary
<1> QED
  BY CInvBounds, CInitEstablishes, CNextPreserves, PTL DEF Spec
=============================================================================
