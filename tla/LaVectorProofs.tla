--------------------------- MODULE LaVectorProofs ---------------------------
(***************************************************************************)
(* The construction of a la_vector with one bpc, for every data and widths *)
(* of its fields: an invariant of push_segment and its splits, and what it *)
(* says of the finished vector.                                            *)
(*                                                                         *)
(* The segmentation comes first: the greedy segments of the keys continue  *)
(* each other, and only the last may have one point.  Then the integer     *)
(* line of a segment, which is flat or at least as steep as the diagonal,  *)
(* the layout of the corrections, and what a call of push_segment stores.  *)
(* Some calls may be empty, after a split of a single element that cannot  *)
(* be stored: then another call is bound to throw for ever, and no vector  *)
(* is finished.  Where one is, the segments partition the positions.  Each *)
(* split halves its call (CallsDescend), which bounds the recursion.       *)
(***************************************************************************)
EXTENDS LaVector, ModelTheorems

-----------------------------------------------------------------------------
(* The greedy segmentation of keys that strictly increase.                 *)

StrictKeys(keys) ==
  /\ keys \in Seq(Nat)
  /\ \A j, k \in DOMAIN keys : j < k => keys[j] < keys[k]

\* Such keys rise by at least one per position.
LEMMA KeysSpread ==
  ASSUME NEW keys, StrictKeys(keys), NEW j \in 1..Len(keys), NEW k \in j..Len(keys)
  PROVE  keys[k] - keys[j] >= k - j
<1> DEFINE T == {i \in j..k : keys[i] - keys[j] >= i - j}
<1>1. /\ j \in Nat /\ k \in Nat
      /\ \A i \in j..k : i \in DOMAIN keys /\ keys[i] \in Nat
  <2>1. Len(keys) \in Nat /\ DOMAIN keys = 1..Len(keys) /\ \A i \in DOMAIN keys : keys[i] \in Nat
    BY DEF StrictKeys
  <2>2. j \in Nat /\ k \in Nat /\ \A i \in j..k : i \in 1..Len(keys)
    BY <2>1
  <2> QED
    BY <2>1, <2>2
<1>2. j \in T
  <2>1. keys[j] \in Nat /\ j \in j..k
    BY <1>1
  <2> QED
    BY <1>1, <2>1
<1>3. ASSUME NEW i \in j..k - 1, i \in T PROVE i + 1 \in T
  <2>1. i \in j..k /\ i + 1 \in j..k /\ i < i + 1
    BY <1>1
  <2>2. keys[i] < keys[i + 1]
    BY <1>1, <2>1 DEF StrictKeys
  <2>3. keys[i] \in Nat /\ keys[i + 1] \in Nat /\ keys[j] \in Nat
    <3>1. j \in j..k
      BY <1>1
    <3> QED
      BY <1>1, <2>1, <3>1
  <2>4. keys[i] - keys[j] >= i - j
    BY <1>3
  <2> QED
    BY <1>1, <2>1, <2>2, <2>3, <2>4
<1>4. \A i \in j..k : i \in T
  <2> HIDE DEF T
  <2> QED
    BY <1>1, <1>2, <1>3, IntervalInduction
<1>5. k \in j..k
  BY <1>1
<1> QED
  BY <1>4, <1>5

\* The line of steepest slope rises at least as fast, unless there is but one point.
Rising(cs) ==
  /\ cs \in SegmentRecords
  /\ OnePoint(cs) \/ /\ MaxSlope(cs).dx \in Nat \ {0} /\ MaxSlope(cs).dy \in Nat
                     /\ MaxSlope(cs).dy >= MaxSlope(cs).dx

PointsOf(keys, ps) ==
  /\ ps \in Seq(StoredPoints)
  /\ \A j \in DOMAIN ps : ps[j].x < Len(keys) /\ ps[j].y = keys[ps[j].x + 1]

LEMMA PointsRise ==
  ASSUME NEW keys, StrictKeys(keys), NEW ps, PointsOf(keys, ps), NEW m, Tracks(m, ps),
         NEW i \in 1..Len(ps), NEW j \in 1..Len(ps), i < j
  PROVE  /\ ps[i].x \in Nat /\ ps[j].x \in Nat /\ ps[i].y \in Nat /\ ps[j].y \in Nat
         /\ ps[i].x < ps[j].x /\ ps[j].y - ps[i].y >= ps[j].x - ps[i].x
<1>1. ps \in Seq(StoredPoints) /\ i \in DOMAIN ps /\ j \in DOMAIN ps
  BY DEF PointsOf
<1>2. ps[i] \in StoredPoints /\ ps[j] \in StoredPoints
  BY <1>1
<1>3. /\ ps[i].x \in Nat /\ ps[j].x \in Nat /\ ps[i].y \in Nat /\ ps[j].y \in Nat
  BY <1>2 DEF StoredPoints
<1>4. ps[i].x < ps[j].x
  BY <1>1 DEF Tracks
<1>5. /\ ps[i].x < Len(keys) /\ ps[i].y = keys[ps[i].x + 1]
      /\ ps[j].x < Len(keys) /\ ps[j].y = keys[ps[j].x + 1]
  BY <1>1 DEF PointsOf
<1>6. Len(keys) \in Nat
  BY DEF StrictKeys
<1>7. ps[i].x + 1 \in 1..Len(keys) /\ ps[j].x + 1 \in ps[i].x + 1..Len(keys)
  BY <1>3, <1>4, <1>5, <1>6
<1>8. keys[ps[j].x + 1] - keys[ps[i].x + 1] >= (ps[j].x + 1) - (ps[i].x + 1)
  BY <1>7, KeysSpread
<1>9. (ps[j].x + 1) - (ps[i].x + 1) = ps[j].x - ps[i].x
  BY <1>3
<1> QED
  BY <1>3, <1>4, <1>5, <1>8, <1>9

LEMMA ManyPointsRise ==
  ASSUME NEW keys, StrictKeys(keys), NEW m \in Models, NEW ps, PointsOf(keys, ps), Tracks(m, ps),
         Len(ps) >= 2, m.pointsInHull # 1
  PROVE  Rising(GetSegment(m)) /\ ~OnePoint(GetSegment(m))
<1> DEFINE cs == GetSegment(m)
<1>1. cs \in SegmentRecords
  BY SegmentTyped
<1>2. cs.rectangle = m.rectangle
  BY DEF GetSegment
<1>3. ps \in Seq(StoredPoints) /\ m.epsilon \in Nat
  BY ModelParts DEF PointsOf
<1>4. ~OnePoint(cs)
  BY <1>2, <1>3, TracksFits DEF OnePoint, Plane
<1>5. PICK p \in Pairs(ps) : Slope2(m) = GreatestSlope(ps, m.epsilon, p)
  BY <1>3, TracksExact
<1>6. MaxSlope(cs) = GreatestSlope(ps, m.epsilon, p)
  BY <1>2, <1>5 DEF MaxSlope, Slope2
<1>7. /\ p[1] \in 1..Len(ps) /\ p[2] \in 1..Len(ps) /\ p[1] < p[2]
  BY <1>3 DEF Pairs
<1>8. PICK u, v : /\ u.x \in Nat /\ v.x \in Nat /\ u.y \in Nat /\ v.y \in Nat
                  /\ u.x < v.x /\ v.y - u.y >= v.x - u.x
                  /\ MaxSlope(cs).dx = v.x - u.x
                  /\ MaxSlope(cs).dy = v.y - u.y + 2 * m.epsilon
  <2>1. PICK i \in 1..Len(ps), j \in 1..Len(ps) : i = p[1] /\ j = p[2] /\ i < j
    BY <1>7
  <2>2. /\ ps[i].x \in Nat /\ ps[j].x \in Nat /\ ps[i].y \in Nat /\ ps[j].y \in Nat
        /\ ps[i].x < ps[j].x /\ ps[j].y - ps[i].y >= ps[j].x - ps[i].x
    BY <2>1, PointsRise
  <2>3. /\ MaxSlope(cs).dx = ps[j].x - ps[i].x
        /\ MaxSlope(cs).dy = ps[j].y - ps[i].y + 2 * m.epsilon
    BY <1>6, <2>1 DEF GreatestSlope
  <2> HIDE DEF cs
  <2> QED
    BY <2>2, <2>3, Zenon
<1> HIDE DEF cs
<1>11. /\ MaxSlope(cs).dx \in Nat \ {0} /\ MaxSlope(cs).dy \in Nat
       /\ MaxSlope(cs).dy >= MaxSlope(cs).dx
  BY <1>3, <1>8
<1> QED
  BY <1>1, <1>4, <1>11 DEF Rising, cs

LEMMA SinglePoint ==
  ASSUME NEW m \in Models, m.pointsInHull = 1
  PROVE  Rising(GetSegment(m)) /\ OnePoint(GetSegment(m))
<1>1. GetSegment(m) \in SegmentRecords
  BY SegmentTyped
<1>2. GetSegment(m).rectangle = [k \in 0..3 |-> m.rectangle[k % 2]]
  BY DEF GetSegment
<1>3. 0 % 2 = 0 /\ 1 % 2 = 1 /\ 2 % 2 = 0 /\ 3 % 2 = 1
  OBVIOUS
<1>4. OnePoint(GetSegment(m))
  BY <1>2, <1>3 DEF OnePoint
<1> QED
  BY <1>1, <1>4 DEF Rising

\* Segments that start in order between b and x, the first of them at b.
Starts(out, b, x) ==
  /\ out \in Seq(SegmentRecords)
  /\ out = <<>> => x = b
  /\ out # <<>> => out[1].first = b
  /\ \A k \in DOMAIN out : Rising(out[k]) /\ b <= out[k].first /\ out[k].first < x
  /\ \A j, k \in DOMAIN out : j < k => out[j].first < out[k].first

LEMMA StartsAppended ==
  ASSUME NEW b \in Nat, NEW x \in Nat, b <= x, NEW out, Starts(out, b, x),
         NEW cs, Rising(cs), cs.first = x, NEW y \in Nat, x < y
  PROVE  /\ Starts(Append(out, cs), b, y)
         /\ Append(out, cs)[Len(out) + 1] = cs /\ Len(Append(out, cs)) = Len(out) + 1
         /\ \A k \in DOMAIN out : Append(out, cs)[k] = out[k]
<1> DEFINE all == Append(out, cs)
<1>1. out \in Seq(SegmentRecords) /\ cs \in SegmentRecords
  BY DEF Starts, Rising
<1>2. /\ all \in Seq(SegmentRecords) /\ Len(all) = Len(out) + 1 /\ all[Len(out) + 1] = cs
      /\ \A k \in DOMAIN out : all[k] = out[k]
      /\ \A k \in DOMAIN all : k \in DOMAIN out \/ k = Len(out) + 1
      /\ all # <<>> /\ Len(out) \in Nat /\ DOMAIN out = 1..Len(out)
  BY <1>1
<1> HIDE DEF all
<1>3. ASSUME NEW k \in DOMAIN all PROVE Rising(all[k]) /\ b <= all[k].first /\ all[k].first < y
  <2>1. CASE k = Len(out) + 1
    BY <1>2, <2>1
  <2>2. CASE k \in DOMAIN out
    <3>1. all[k] = out[k] /\ out[k] \in SegmentRecords
      BY <1>1, <1>2, <2>2
    <3>2. out[k].first \in Nat
      BY <3>1 DEF SegmentRecords
    <3> QED
      BY <2>2, <3>1, <3>2 DEF Starts
  <2> QED
    BY <1>2, <2>1, <2>2
<1>4. ASSUME NEW j \in DOMAIN all, NEW k \in DOMAIN all, j < k PROVE all[j].first < all[k].first
  <2>1. j \in DOMAIN out
    BY <1>2, <1>4
  <2>2. CASE k \in DOMAIN out
    BY <1>2, <1>4, <2>1, <2>2 DEF Starts
  <2>3. CASE k = Len(out) + 1
    BY <1>2, <2>1, <2>3 DEF Starts
  <2> QED
    BY <1>2, <2>2, <2>3
<1>5. all[1].first = b
  <2>1. CASE out = <<>>
    <3>1. Len(out) = 0
      BY <2>1
    <3> QED
      BY <1>2, <2>1, <3>1 DEF Starts
  <2>2. CASE out # <<>>
    <3>1. 1 \in DOMAIN out
      BY <1>1, <2>2
    <3> QED
      BY <1>2, <2>2, <3>1 DEF Starts
  <2> QED
    BY <2>1, <2>2
<1>6. Starts(all, b, y)
  BY <1>2, <1>3, <1>4, <1>5 DEF Starts
<1> QED
  BY <1>2, <1>6 DEF all

-----------------------------------------------------------------------------
(* The scan of GreedySegments.                                             *)

ScanStep(keys, scan, k) ==
  LET opt == AddPoint(scan.opt, k, keys[k + 1])
  IN IF Accepts(scan.opt, k, keys[k + 1])
     THEN [scan EXCEPT !.opt = opt]
     ELSE [opt |-> AddPoint(opt, k, keys[k + 1]), out |-> Append(scan.out, GetSegment(opt))]

\* after the points from position b to x
Scanned(keys, eps, b, scan, x) ==
  /\ scan = [opt |-> scan.opt, out |-> scan.out]
  /\ WellFormed(scan.opt) /\ scan.opt.epsilon = eps
  /\ scan.opt.pointsInHull >= 1 /\ scan.opt.lastX = x
  /\ scan.opt.firstX \in b..x /\ (scan.opt.pointsInHull = 1 => scan.opt.firstX = x)
  /\ \E ps : PointsOf(keys, ps) /\ Tracks(scan.opt, ps)
  /\ Starts(scan.out, b, scan.opt.firstX)
  /\ \A k \in DOMAIN scan.out : ~OnePoint(scan.out[k])

\* A model that has just read the first point of a segment, at position x.
Started(keys, eps, r, x) ==
  /\ WellFormed(r) /\ r.epsilon = eps /\ r.pointsInHull = 1 /\ r.lastX = x /\ r.firstX = x
  /\ \E ps : PointsOf(keys, ps) /\ Tracks(r, ps)

LEMMA FirstPointRead ==
  ASSUME NEW keys, StrictKeys(keys), NEW x \in Nat, x < Len(keys),
         NEW m, WellFormed(m), m.pointsInHull = 0, NEW old, old \in Seq(StoredPoints), Tracks(m, old)
  PROVE  Started(keys, m.epsilon, AddPoint(m, x, keys[x + 1]), x)
<1> DEFINE y == keys[x + 1]  r == AddPoint(m, x, y)  ps == Append(<<>>, Point(x, y))
<1>1. y \in Nat
  <2>1. x + 1 \in DOMAIN keys
    BY DEF StrictKeys
  <2> QED
    BY <2>1 DEF StrictKeys
<1>2. Accepts(m, x, y)
  BY DEF Accepts
<1>3. WellFormed(r)
  BY <1>1, AddPointWellFormed
<1>4. r.lastX = x /\ r.pointsInHull = 1 /\ r.firstX = x
  BY <1>1, <1>2, AddPointCounters
<1>5. r.epsilon = m.epsilon /\ Tracks(r, ps)
  <2> DEFINE start == IF m.pointsInHull = 0 THEN <<>> ELSE old
  <2>1. ~(m.pointsInHull > 0)
    OBVIOUS
  <2> HIDE DEF y
  <2>2. r.epsilon = m.epsilon /\ Tracks(r, IF Accepts(m, x, y) THEN Append(start, Point(x, y)) ELSE old)
    BY <1>1, <2>1, AddPointTracks, Zenon
  <2>3. start = <<>>
    OBVIOUS
  <2> HIDE DEF start, r
  <2> QED
    BY <1>2, <2>2, <2>3
<1>6. PointsOf(keys, ps)
  <2>1. Point(x, y) \in StoredPoints /\ Point(x, y).x = x /\ Point(x, y).y = y
    BY <1>1 DEF Point, StoredPoints
  <2>2. ps \in Seq(StoredPoints) /\ DOMAIN ps = {1} /\ ps[1] = Point(x, y)
    BY <2>1
  <2> QED
    BY <2>1, <2>2 DEF PointsOf
<1> HIDE DEF r, ps
<1> QED
  BY <1>3, <1>4, <1>5, <1>6 DEF r, Started

LEMMA ScanBegins ==
  ASSUME NEW keys, StrictKeys(keys), NEW eps \in Nat, NEW b \in Nat, b < Len(keys)
  PROVE  Scanned(keys, eps, b, ScanStep(keys, [opt |-> NewModel(eps), out |-> <<>>], b), b)
<1> DEFINE m == NewModel(eps)  y == keys[b + 1]  r == AddPoint(m, b, y)
           scan == ScanStep(keys, [opt |-> m, out |-> <<>>], b)
<1>1. /\ m \in Models /\ WellFormed(m) /\ m.epsilon = eps /\ m.pointsInHull = 0
      /\ Tracks(m, <<>>) /\ <<>> \in Seq(StoredPoints)
  BY NewModelEmpty
<1>2. Started(keys, eps, r, b)
  BY <1>1, FirstPointRead
<1>3. Accepts(m, b, y)
  BY <1>1 DEF Accepts
<1>4. scan = [opt |-> r, out |-> <<>>]
  BY <1>3 DEF ScanStep
<1>5. Starts(<<>>, b, b) /\ DOMAIN <<>> = {}
  BY DEF Starts
<1> HIDE DEF scan, r, m
<1>6. scan.opt = r /\ scan.out = <<>> /\ scan = [opt |-> scan.opt, out |-> scan.out]
  BY <1>4
<1>7. b \in b..b
  OBVIOUS
<1> QED
  BY <1>2, <1>5, <1>6, <1>7 DEF Scanned, Started, scan, m

LEMMA ScanContinues ==
  ASSUME NEW keys, StrictKeys(keys), NEW eps \in Nat, NEW b \in Nat, NEW scan,
         NEW x \in Nat, b <= x, x + 1 < Len(keys), Scanned(keys, eps, b, scan, x)
  PROVE  Scanned(keys, eps, b, ScanStep(keys, scan, x + 1), x + 1)
<1> DEFINE m == scan.opt  z == x + 1  y == keys[z + 1]  r == AddPoint(m, z, y)
           next == ScanStep(keys, scan, z)
<1>1. /\ WellFormed(m) /\ m \in Models /\ m.epsilon = eps /\ m.pointsInHull \in Nat /\ m.pointsInHull >= 1
      /\ m.lastX = x /\ m.firstX \in Nat /\ m.firstX \in b..x /\ z \in Nat /\ z > m.lastX
  BY ModelParts DEF Scanned, WellFormed
<1>2. y \in Nat
  <2>1. z + 1 \in DOMAIN keys
    BY DEF StrictKeys
  <2> QED
    BY <2>1 DEF StrictKeys
<1>3. PICK ps : PointsOf(keys, ps) /\ Tracks(m, ps)
  BY DEF Scanned
<1>4. ps \in Seq(StoredPoints)
  BY <1>3 DEF PointsOf
<1>5. Starts(scan.out, b, m.firstX) /\ \A k \in DOMAIN scan.out : ~OnePoint(scan.out[k])
  BY DEF Scanned
<1>6. WellFormed(r)
  BY <1>1, <1>2, AddPointWellFormed
<1>7. CASE Accepts(m, z, y)
  <2>1. next = [opt |-> r, out |-> scan.out]
    <3>1. scan = [opt |-> m, out |-> scan.out]
      BY DEF Scanned
    <3>2. next = [scan EXCEPT !.opt = r]
      BY <1>7 DEF ScanStep
    <3> QED
      BY <3>1, <3>2
  <2>2. r.lastX = z /\ r.pointsInHull = m.pointsInHull + 1 /\ r.firstX = m.firstX
    <3>1. m.pointsInHull # 0
      BY <1>1
    <3> QED
      BY <1>1, <1>2, <1>7, <3>1, AddPointCounters
  <2> DEFINE qs == Append(ps, Point(z, y))
  <2>3. r.epsilon = eps /\ Tracks(r, qs)
    <3>1. m.pointsInHull # 0
      BY <1>1
    <3> QED
      BY <1>1, <1>2, <1>3, <1>4, <1>7, <3>1, AddPointTracks
  <2>4. PointsOf(keys, qs)
    <3>1. Point(z, y) \in StoredPoints /\ Point(z, y).x = z /\ Point(z, y).y = y
      BY <1>1, <1>2 DEF Point, StoredPoints
    <3>2. /\ qs \in Seq(StoredPoints) /\ DOMAIN qs = 1..Len(ps) + 1 /\ qs[Len(ps) + 1] = Point(z, y)
          /\ \A j \in 1..Len(ps) : qs[j] = ps[j] /\ j \in DOMAIN ps
      BY <1>4, <3>1
    <3>3. \A j \in DOMAIN qs : j \in 1..Len(ps) \/ j = Len(ps) + 1
      BY <1>4, <3>2
    <3> HIDE DEF qs
    <3>4. z < Len(keys)
      OBVIOUS
    <3> QED
      BY <1>3, <3>1, <3>2, <3>3, <3>4 DEF PointsOf
  <2> HIDE DEF next, r, m, qs
  <2>5. next.opt = r /\ next.out = scan.out /\ next = [opt |-> next.opt, out |-> next.out]
    BY <2>1
  <2>6. r.pointsInHull >= 1 /\ r.pointsInHull # 1 /\ r.firstX \in b..z
    BY <1>1, <2>2
  <2> QED
    BY <1>5, <1>6, <2>2, <2>3, <2>4, <2>5, <2>6 DEF Scanned, next, m
<1>8. CASE ~Accepts(m, z, y)
  <2> DEFINE cs == GetSegment(r)  s == AddPoint(r, z, y)
  <2>1. next = [opt |-> s, out |-> Append(scan.out, cs)]
    BY <1>8 DEF ScanStep
  <2>2. r.lastX = z /\ r = Refuse(m, z) /\ m.pointsInHull >= 2
    <3>1. m.pointsInHull > 0 => z > m.lastX
      BY <1>1
    <3> HIDE DEF m, y, z
    <3> QED
      BY <1>1, <1>2, <1>8, <3>1, AddPointCounters
  <2>3. /\ r.pointsInHull = 0 /\ r.firstX = m.firstX /\ r.rectangle = m.rectangle
        /\ r.epsilon = m.epsilon
    BY <1>1, <2>2 DEF Refuse, Models
  <2>4. Tracks(r, ps)
    BY <1>1, <1>3, <2>2, EmptiedTracks
  <2>5. Len(ps) >= 2
    BY <1>3, <2>2 DEF Tracks
  <2>6. r \in Models
    BY <1>6 DEF WellFormed
  <2>7. Rising(cs) /\ ~OnePoint(cs) /\ cs.first = m.firstX
    <3>1. Rising(cs) /\ ~OnePoint(cs)
      BY <1>3, <2>3, <2>4, <2>5, <2>6, ManyPointsRise
    <3>2. cs.first = r.firstX
      BY <2>6, SegmentTyped
    <3> QED
      BY <2>3, <3>1, <3>2
  <2>8. Started(keys, eps, s, z)
    <3>1. z < Len(keys)
      OBVIOUS
    <3> HIDE DEF r
    <3>2. Started(keys, r.epsilon, s, z)
      BY <1>1, <1>4, <1>6, <2>3, <2>4, <3>1, FirstPointRead
    <3> QED
      BY <1>1, <2>3, <3>2
  <2> HIDE DEF next, r, m, cs, s
  <2>9. /\ Starts(Append(scan.out, cs), b, z)
        /\ Append(scan.out, cs)[Len(scan.out) + 1] = cs /\ Len(Append(scan.out, cs)) = Len(scan.out) + 1
        /\ \A k \in DOMAIN scan.out : Append(scan.out, cs)[k] = scan.out[k]
    <3>1. b <= m.firstX /\ m.firstX < z
      BY <1>1
    <3> QED
      BY <1>1, <1>5, <2>7, <3>1, StartsAppended
  <2>10. \A k \in DOMAIN Append(scan.out, cs) : ~OnePoint(Append(scan.out, cs)[k])
    <3>1. scan.out \in Seq(SegmentRecords) /\ Append(scan.out, cs) \in Seq(SegmentRecords)
      BY <1>5, <2>9 DEF Starts
    <3>2. \A k \in DOMAIN Append(scan.out, cs) : k \in DOMAIN scan.out \/ k = Len(scan.out) + 1
      BY <2>9, <3>1
    <3> QED
      BY <1>5, <2>7, <2>9, <3>2
  <2>11. /\ next.opt = s /\ next.out = Append(scan.out, cs)
         /\ next = [opt |-> next.opt, out |-> next.out]
    BY <2>1
  <2>12. s.pointsInHull >= 1 /\ s.firstX \in b..z
    BY <1>1, <2>8 DEF Started
  <2> QED
    BY <2>8, <2>9, <2>10, <2>11, <2>12 DEF Scanned, Started, next
<1> QED
  BY <1>7, <1>8

\* f folds ScanStep over the numbers of a sequence.
ScanChain(f, N, seq, keys, eps) ==
  f = [t \in SUBSET (1..N) |->
         IF t = {} THEN [opt |-> NewModel(eps), out |-> <<>>]
         ELSE LET x == Max(t) IN ScanStep(keys, f[t \ {x}], seq[x])]

LEMMA ScansExist ==
  ASSUME NEW N \in Nat, NEW seq, NEW keys, NEW eps
  PROVE  \E f : ScanChain(f, N, seq, keys, eps)
<1> DEFINE T == {k \in 0..N : \E f : ScanChain(f, k, seq, keys, eps)}
           base == [opt |-> NewModel(eps), out |-> <<>>]
<1>1. 0 \in T
  <2> DEFINE f == [t \in SUBSET (1..0) |-> base]
  <2>1. \A t \in SUBSET (1..0) : t = {}
    OBVIOUS
  <2>2. ScanChain(f, 0, seq, keys, eps)
    BY <2>1 DEF ScanChain
  <2> QED
    BY <2>2
<1>2. ASSUME NEW k \in 0..N - 1, k \in T PROVE k + 1 \in T
  <2>1. PICK f : ScanChain(f, k, seq, keys, eps)
    BY <1>2
  <2> DEFINE h == [t \in SUBSET (1..k + 1) |->
                     IF k + 1 \in t THEN ScanStep(keys, f[t \ {k + 1}], seq[k + 1]) ELSE f[t]]
  <2>2. \A t \in SUBSET (1..k) : /\ t \in SUBSET (1..k + 1) /\ k + 1 \notin t
                                 /\ h[t] = f[t]
    OBVIOUS
  <2>3. ASSUME NEW t \in SUBSET (1..k + 1)
        PROVE  h[t] = IF t = {} THEN base ELSE LET x == Max(t) IN ScanStep(keys, h[t \ {x}], seq[x])
    <3>1. CASE k + 1 \in t
      <4>0. k \in Nat /\ k + 1 \in Nat /\ t \subseteq 1..k + 1 /\ t # {}
        BY <3>1
      <4>01. Max(t) = k + 1
        BY <3>1, <4>0, MaxOfPrefix
      <4>02. t \ {k + 1} \in SUBSET (1..k)
        BY <4>0
      <4>1. Max(t) = k + 1 /\ t \ {k + 1} \in SUBSET (1..k) /\ t # {}
        BY <4>0, <4>01, <4>02
      <4>2. h[t] = ScanStep(keys, f[t \ {k + 1}], seq[k + 1])
        BY <3>1
      <4>3. h[t \ {k + 1}] = f[t \ {k + 1}]
        BY <2>2, <4>1
      <4> HIDE DEF h
      <4> QED
        BY <4>1, <4>2, <4>3
    <3>2. CASE k + 1 \notin t /\ t # {}
      <4>0. k \in Nat /\ k + 1 \in Nat /\ t \subseteq 1..k /\ t # {}
        BY <3>2
      <4>01. Max(t) \in t
        BY <4>0, MaxOfPrefix
      <4>1. t \in SUBSET (1..k) /\ Max(t) \in t /\ t \ {Max(t)} \in SUBSET (1..k)
        BY <4>0, <4>01
      <4>2. f[t] = IF t = {} THEN base ELSE LET x == Max(t) IN ScanStep(keys, f[t \ {x}], seq[x])
        BY <2>1, <4>1 DEF ScanChain
      <4>3. h[t] = f[t] /\ h[t \ {Max(t)}] = f[t \ {Max(t)}]
        BY <2>2, <4>1
      <4> HIDE DEF h
      <4> QED
        BY <3>2, <4>2, <4>3
    <3>3. CASE t = {}
      <4>1. t \in SUBSET (1..k)
        BY <3>3
      <4>2. f[t] = IF t = {} THEN base ELSE LET x == Max(t) IN ScanStep(keys, f[t \ {x}], seq[x])
        BY <2>1, <4>1 DEF ScanChain
      <4>3. h[t] = f[t]
        BY <2>2, <4>1
      <4> HIDE DEF h
      <4> QED
        BY <3>3, <4>2, <4>3
    <3> QED
      BY <3>1, <3>2, <3>3
  <2>4. h = [t \in SUBSET (1..k + 1) |-> h[t]]
    OBVIOUS
  <2> HIDE DEF h
  <2>5. ScanChain(h, k + 1, seq, keys, eps)
    BY <2>3, <2>4 DEF ScanChain
  <2>6. k + 1 \in 0..N
    OBVIOUS
  <2> QED
    BY <2>5, <2>6
<1>3. N \in T
  <2> HIDE DEF T
  <2>1. \A j \in 0..N : j \in T
    BY <1>1, <1>2, IntervalInduction
  <2> QED
    BY <2>1
<1> QED
  BY <1>3

LEMMA ScanValues ==
  ASSUME NEW N \in Nat, NEW seq, NEW keys, NEW eps, NEW f, ScanChain(f, N, seq, keys, eps)
  PROVE  /\ f[{}] = [opt |-> NewModel(eps), out |-> <<>>]
         /\ \A k \in 0..N - 1 : f[1..k + 1] = ScanStep(keys, f[1..k], seq[k + 1])
<1>1. \A t \in SUBSET (1..N) :
        f[t] = IF t = {} THEN [opt |-> NewModel(eps), out |-> <<>>]
               ELSE LET x == Max(t) IN ScanStep(keys, f[t \ {x}], seq[x])
  BY DEF ScanChain
<1>2. ASSUME NEW k \in 0..N - 1 PROVE f[1..k + 1] = ScanStep(keys, f[1..k], seq[k + 1])
  <2> DEFINE t == 1..k + 1
  <2>1. t \in SUBSET (1..N) /\ t # {} /\ k + 1 \in t /\ t \ {k + 1} = 1..k /\ k \in Nat
    OBVIOUS
  <2>2. Max(t) = k + 1
    BY <2>1, MaxOfPrefix
  <2> QED
    BY <1>1, <2>1, <2>2
<1>3. f[{}] = [opt |-> NewModel(eps), out |-> <<>>]
  <2>1. {} \in SUBSET (1..N)
    OBVIOUS
  <2> QED
    BY <1>1, <2>1
<1>4. \A k \in 0..N - 1 : f[1..k + 1] = ScanStep(keys, f[1..k], seq[k + 1])
  BY <1>2
<1> QED
  BY <1>3, <1>4

\* What GreedySegments returns for the positions b, ..., e - 1.
Segmented(out, b, e) ==
  /\ Starts(out, b, e) /\ out # <<>>
  /\ \A k \in DOMAIN out : OnePoint(out[k]) => k = Len(out) /\ out[k].first = e - 1

LEMMA GreedySegmented ==
  ASSUME NEW keys, StrictKeys(keys), NEW eps \in Nat, NEW b \in Nat, NEW e \in Nat,
         b < e, e <= Len(keys)
  PROVE  Segmented(GreedySegments(keys, eps, b, e), b, e)
<1> DEFINE N == e - b
           seq == [k \in 1..e - b |-> b + k - 1]
           f == CHOOSE g : ScanChain(g, N, seq, keys, eps)
           last == f[1..N]
<1>1. N \in Nat /\ N >= 1 /\ DOMAIN seq = 1..N /\ \A k \in 1..N : seq[k] = b + k - 1
  OBVIOUS
<1>2. Len(keys) \in Nat
  BY DEF StrictKeys
<1>3. ScanChain(f, N, seq, keys, eps)
  BY <1>1, ScansExist
<1>4. GreedySegments(keys, eps, b, e) = Append(last.out, GetSegment(last.opt))
  BY DEF GreedySegments, FoldLeft, MapThenFoldSet, ScanChain, ScanStep
<1> HIDE DEF f, seq, N
<1>5. /\ f[{}] = [opt |-> NewModel(eps), out |-> <<>>]
      /\ \A k \in 0..N - 1 : f[1..k + 1] = ScanStep(keys, f[1..k], seq[k + 1])
  <2>1. N \in Nat
    BY <1>1
  <2> QED
    BY <1>3, <2>1, ScanValues
<1> DEFINE T == {k \in 1..N : Scanned(keys, eps, b, f[1..k], b + k - 1)}
<1>6. 1 \in T
  <2>1. 0 \in 0..N - 1 /\ 1 \in 1..N /\ 1..0 = {} /\ 0 + 1 = 1 /\ b + 1 - 1 = b
    BY <1>1
  <2>2. f[1..1] = ScanStep(keys, [opt |-> NewModel(eps), out |-> <<>>], b)
    <3>1. f[1..0 + 1] = ScanStep(keys, f[1..0], seq[0 + 1])
      BY <1>5, <2>1
    <3>2. seq[1] = b
      BY <1>1, <2>1
    <3> QED
      BY <1>5, <2>1, <3>1, <3>2
  <2>3. b < Len(keys)
    BY <1>2
  <2>4. Scanned(keys, eps, b, f[1..1], b)
    BY <2>2, <2>3, ScanBegins
  <2> QED
    BY <2>1, <2>4
<1>7. ASSUME NEW k \in 1..N - 1, k \in T PROVE k + 1 \in T
  <2>1. k \in 0..N - 1 /\ k + 1 \in 1..N /\ k \in Nat
    BY <1>1
  <2> DEFINE x == b + k - 1
  <2>2. x \in Nat /\ b <= x /\ x + 1 < Len(keys) /\ seq[k + 1] = x + 1 /\ b + (k + 1) - 1 = x + 1
    BY <1>1, <1>2, <2>1 DEF N
  <2>3. f[1..k + 1] = ScanStep(keys, f[1..k], x + 1)
    BY <1>5, <2>1, <2>2
  <2>4. Scanned(keys, eps, b, f[1..k], x)
    BY <1>7
  <2> HIDE DEF x
  <2>5. Scanned(keys, eps, b, f[1..k + 1], x + 1)
    BY <2>2, <2>3, <2>4, ScanContinues
  <2> QED
    BY <2>1, <2>2, <2>5
<1>8. Scanned(keys, eps, b, last, e - 1)
  <2> HIDE DEF T
  <2>1. \A j \in 1..N : j \in T
    BY <1>1, <1>6, <1>7, IntervalInduction
  <2>2. N \in T
    BY <1>1, <2>1
  <2>3. b + N - 1 = e - 1
    BY DEF N
  <2> QED
    BY <2>2, <2>3 DEF T
<1> DEFINE m == last.opt  cs == GetSegment(m)  out == Append(last.out, cs)
<1> HIDE DEF last
<1>9. /\ WellFormed(m) /\ m \in Models /\ m.pointsInHull \in Nat /\ m.pointsInHull >= 1
      /\ m.firstX \in b..e - 1 /\ (m.pointsInHull = 1 => m.firstX = e - 1)
      /\ Starts(last.out, b, m.firstX)
  BY <1>8, ModelParts DEF Scanned, WellFormed
<1>10. PICK ps : PointsOf(keys, ps) /\ Tracks(m, ps)
  BY <1>8 DEF Scanned
<1>11. Rising(cs) /\ (OnePoint(cs) => m.pointsInHull = 1)
  <2>1. CASE m.pointsInHull = 1
    BY <1>9, <2>1, SinglePoint
  <2>2. CASE m.pointsInHull # 1
    <3>1. Len(ps) >= 2
      BY <1>9, <1>10, <2>2 DEF Tracks
    <3> QED
      BY <1>9, <1>10, <2>2, <3>1, ManyPointsRise
  <2> QED
    BY <2>1, <2>2
<1>12. cs.first = m.firstX
  BY <1>9, SegmentTyped
<1> HIDE DEF cs, m
<1>13. /\ Starts(out, b, e)
       /\ out[Len(last.out) + 1] = cs /\ Len(out) = Len(last.out) + 1
       /\ \A k \in DOMAIN last.out : out[k] = last.out[k]
  <2>1. m.firstX \in Nat /\ b <= m.firstX /\ m.firstX < e
    BY <1>9
  <2> QED
    BY <1>9, <1>11, <1>12, <2>1, StartsAppended
<1>14. ASSUME NEW k \in DOMAIN out, OnePoint(out[k]) PROVE k = Len(out) /\ out[k].first = e - 1
  <2>1. last.out \in Seq(SegmentRecords) /\ out \in Seq(SegmentRecords)
    BY <1>9, <1>13 DEF Starts
  <2>2. k \in DOMAIN last.out \/ k = Len(last.out) + 1
    BY <1>13, <2>1
  <2>3. k \notin DOMAIN last.out
    BY <1>8, <1>13, <1>14 DEF Scanned
  <2> QED
    BY <1>9, <1>11, <1>12, <1>13, <1>14, <2>2, <2>3
<1>15. out # <<>>
  <2>1. last.out \in Seq(SegmentRecords)
    BY <1>9 DEF Starts
  <2>2. Len(out) >= 1
    BY <1>13, <2>1
  <2> QED
    BY <2>2
<1>16. Segmented(out, b, e)
  BY <1>13, <1>14, <1>15 DEF Segmented
<1> QED
  BY <1>4, <1>16 DEF cs, m

\* Segments that start in order between b and e; one that is a single point
\* ends behind it.
Chained(out, b, e) ==
  /\ Starts(out, b, e) /\ out # <<>>
  /\ \A k \in DOMAIN out : OnePoint(out[k]) =>
       IF k = Len(out) THEN out[k].first = e - 1 ELSE out[k + 1].first = out[k].first + 1

LEMMA SegmentedChained ==
  ASSUME NEW out, NEW b, NEW e, Segmented(out, b, e)
  PROVE  Chained(out, b, e)
  BY DEF Segmented, Chained

LEMMA ChainsConcatenate ==
  ASSUME NEW b \in Nat, NEW x \in Nat, NEW e \in Nat, b <= x, x <= e,
         NEW left, Chained(left, b, x), NEW right, Chained(right, x, e)
  PROVE  Chained(left \o right, b, e)
<1> DEFINE out == left \o right  l == Len(left)  r == Len(right)
<1>1. /\ left \in Seq(SegmentRecords) /\ right \in Seq(SegmentRecords)
      /\ left # <<>> /\ right # <<>>
  BY DEF Chained, Starts
<1>2. /\ l \in Nat /\ r \in Nat /\ l >= 1 /\ r >= 1
      /\ DOMAIN left = 1..l /\ DOMAIN right = 1..r
      /\ out \in Seq(SegmentRecords) /\ Len(out) = l + r /\ DOMAIN out = 1..l + r
      /\ \A k \in 1..l + r : out[k] = IF k <= l THEN left[k] ELSE right[k - l]
  BY <1>1
<1>3. /\ \A k \in 1..l : out[k] = left[k]
      /\ \A k \in 1..r : out[l + k] = right[k]
      /\ \A k \in 1..l + r : k \in 1..l \/ \E m \in 1..r : k = l + m
  <2> HIDE DEF out, l, r
  <2>1. \A k \in 1..l : out[k] = left[k]
    BY <1>2
  <2>2. ASSUME NEW k \in 1..r PROVE out[l + k] = right[k]
    <3>1. l + k \in 1..l + r /\ ~(l + k <= l) /\ (l + k) - l = k
      BY <1>2
    <3> QED
      BY <1>2, <3>1
  <2>3. ASSUME NEW k \in 1..l + r, k \notin 1..l PROVE \E m \in 1..r : k = l + m
    <3>1. k - l \in 1..r /\ k = l + (k - l)
      BY <1>2, <2>3
    <3> QED
      BY <3>1
  <2> QED
    BY <2>1, <2>2, <2>3
<1>4. /\ left[1].first = b /\ right[1].first = x
      /\ \A k \in 1..l : Rising(left[k]) /\ left[k].first \in Nat
                         /\ b <= left[k].first /\ left[k].first < x
      /\ \A k \in 1..r : Rising(right[k]) /\ right[k].first \in Nat
                         /\ x <= right[k].first /\ right[k].first < e
      /\ \A j, k \in 1..l : j < k => left[j].first < left[k].first
      /\ \A j, k \in 1..r : j < k => right[j].first < right[k].first
  <2>1. ASSUME NEW k \in 1..l PROVE left[k].first \in Nat
    <3>1. left[k] \in SegmentRecords
      <4>1. \A i \in DOMAIN left : left[i] \in SegmentRecords
        BY <1>1
      <4> QED
        BY <1>2, <4>1
    <3> QED
      BY <3>1 DEF SegmentRecords
  <2>2. ASSUME NEW k \in 1..r PROVE right[k].first \in Nat
    <3>1. right[k] \in SegmentRecords
      <4>1. \A i \in DOMAIN right : right[i] \in SegmentRecords
        BY <1>1
      <4> QED
        BY <1>2, <4>1
    <3> QED
      BY <3>1 DEF SegmentRecords
  <2> QED
    BY <1>1, <1>2, <2>1, <2>2 DEF Chained, Starts
<1>5. /\ \A k \in 1..l : OnePoint(left[k]) =>
           IF k = l THEN left[k].first = x - 1 ELSE left[k + 1].first = left[k].first + 1
      /\ \A k \in 1..r : OnePoint(right[k]) =>
           IF k = r THEN right[k].first = e - 1 ELSE right[k + 1].first = right[k].first + 1
  BY <1>2 DEF Chained
<1> HIDE DEF out, l, r
<1>6. out # <<>> /\ out[1] = left[1]
  <2>1. 1 \in 1..l /\ 1 \in 1..l + r
    BY <1>2
  <2> QED
    BY <1>2, <1>3, <2>1
<1>7. ASSUME NEW k \in 1..l + r
      PROVE  Rising(out[k]) /\ b <= out[k].first /\ out[k].first < e
  <2>1. CASE k \in 1..l
    BY <1>3, <1>4, <2>1
  <2>2. CASE \E m \in 1..r : k = l + m
    <3>1. PICK m \in 1..r : k = l + m
      BY <2>2
    <3>2. out[k] = right[m]
      BY <1>3, <3>1
    <3>3. Rising(right[m]) /\ right[m].first \in Nat /\ x <= right[m].first /\ right[m].first < e
      BY <1>4
    <3> QED
      BY <3>2, <3>3
  <2> QED
    BY <1>3, <2>1, <2>2
<1>8. ASSUME NEW j \in 1..l + r, NEW k \in 1..l + r, j < k
      PROVE  out[j].first < out[k].first
  <2>1. CASE j \in 1..l /\ k \in 1..l
    BY <1>3, <1>4, <1>8, <2>1
  <2>2. CASE j \in 1..l /\ k \notin 1..l
    <3>1. PICK m \in 1..r : k = l + m
      BY <1>3, <2>2
    <3>2. out[k] = right[m] /\ out[j] = left[j]
      BY <1>3, <2>2, <3>1
    <3>3. right[m].first \in Nat /\ x <= right[m].first /\ left[j].first \in Nat /\ left[j].first < x
      BY <1>4, <2>2
    <3> QED
      BY <3>2, <3>3
  <2>3. CASE j \notin 1..l
    <3>1. PICK m \in 1..r : j = l + m
      BY <1>3, <2>3
    <3>2. k \notin 1..l
      BY <1>2, <1>8, <2>3
    <3>3. PICK i \in 1..r : k = l + i
      BY <1>3, <3>2
    <3>4. m < i
      BY <1>2, <1>8, <3>1, <3>3
    <3> QED
      BY <1>3, <1>4, <3>1, <3>3, <3>4
  <2> QED
    BY <2>1, <2>2, <2>3
<1>9. ASSUME NEW k \in 1..l + r, OnePoint(out[k])
      PROVE  IF k = l + r THEN out[k].first = e - 1 ELSE out[k + 1].first = out[k].first + 1
  <2>1. CASE k \in 1..l /\ k # l
    <3>1. k + 1 \in 1..l /\ k # l + r
      BY <1>2, <2>1
    <3>2. out[k] = left[k] /\ out[k + 1] = left[k + 1]
      BY <1>3, <2>1, <3>1
    <3> QED
      BY <1>5, <1>9, <2>1, <3>1, <3>2
  <2>2. CASE k = l
    <3>1. k \in 1..l /\ k # l + r /\ 1 \in 1..r
      BY <1>2, <2>2
    <3>2. out[k] = left[k] /\ out[k + 1] = right[1]
      BY <1>3, <2>2, <3>1
    <3>3. left[k].first = x - 1 /\ left[k].first \in Nat
      BY <1>4, <1>5, <1>9, <2>2, <3>1, <3>2
    <3> QED
      BY <1>4, <3>1, <3>2, <3>3
  <2>3. CASE k \notin 1..l
    <3>1. PICK m \in 1..r : k = l + m
      BY <1>3, <2>3
    <3>2. out[k] = right[m]
      BY <1>3, <3>1
    <3>3. CASE m = r
      BY <1>2, <1>5, <1>9, <3>1, <3>2, <3>3
    <3>4. CASE m # r
      <4>1. m + 1 \in 1..r /\ k + 1 = l + (m + 1) /\ k # l + r
        BY <1>2, <3>1, <3>4
      <4>2. out[k + 1] = right[m + 1]
        BY <1>3, <4>1
      <4> QED
        BY <1>5, <1>9, <3>2, <3>4, <4>1, <4>2
    <3> QED
      BY <3>3, <3>4
  <2> QED
    BY <2>1, <2>2, <2>3
<1>10. Starts(out, b, e)
  BY <1>2, <1>4, <1>6, <1>7, <1>8 DEF Starts
<1>11. Chained(out, b, e)
  BY <1>2, <1>6, <1>9, <1>10 DEF Chained
<1> QED
  BY <1>11 DEF out

-----------------------------------------------------------------------------
(* The constants.                                                          *)

Powers == {KeyBits, SignificandBits, ExponentBits} \cup {Len(keys) + 2 : keys \in Datasets}

LEMMA PowerNatural ==
  ASSUME NEW m \in Powers, m \in Nat, NEW k \in 0..m
  PROVE  2 ^ k \in Nat \ {0} /\ 2 ^ (k + 1) = 2 * 2 ^ k
<1>1. k \in UNION {0..i : i \in Powers}
  OBVIOUS
<1> QED
  BY <1>1, PowersOfTwo DEF Powers

Eps == BpcToEpsilon(TBpc)

\* One correction reaches eps above and eps + 1 below, with the bits of t_bpc.
LEMMA EpsilonNatural ==
  ASSUME ~AutoBpc
  PROVE  /\ TBpc \in Nat /\ TBpc >= 2 /\ TBpc < KeyBits /\ KeyBits \in Nat
         /\ Eps \in Nat /\ 2 ^ TBpc = 2 * Eps + 2
<1>1. TBpc \in Nat /\ TBpc >= 2 /\ TBpc < KeyBits /\ KeyBits \in Nat
  BY LaVectorAssumption DEF AutoBpc
<1> DEFINE h == 2 ^ (TBpc - 1)
<1>2. h \in Nat \ {0} /\ 2 ^ TBpc = 2 * h
  <2>1. KeyBits \in Powers /\ TBpc - 1 \in 0..KeyBits /\ (TBpc - 1) + 1 = TBpc
    BY <1>1 DEF Powers
  <2> HIDE DEF h
  <2>2. h \in Nat \ {0} /\ 2 ^ ((TBpc - 1) + 1) = 2 * h
    BY <1>1, <2>1, PowerNatural DEF h
  <2> QED
    BY <2>1, <2>2
<1> HIDE DEF h
<1>3. (2 * h + 1) \div 2 = h
  BY <1>2
<1>4. Eps = h - 1
  BY <1>2, <1>3 DEF Eps, BpcToEpsilon
<1> QED
  BY <1>1, <1>2, <1>4

LEMMA DatasetStrict ==
  ASSUME NEW keys \in Datasets
  PROVE  /\ StrictKeys(keys) /\ Len(keys) \in Nat \ {0} /\ DOMAIN keys = 1..Len(keys)
         /\ \A k \in 1..Len(keys) : keys[k] \in 0..2 ^ KeyBits - 1
<1>1. /\ keys \in Seq(0..2 ^ KeyBits - 1) /\ keys # <<>>
      /\ \A j, k \in DOMAIN keys : j < k => keys[j] < keys[k]
  BY LaVectorAssumption
<1>2. Len(keys) \in Nat \ {0} /\ DOMAIN keys = 1..Len(keys)
  BY <1>1
<1>3. \A k \in DOMAIN keys : keys[k] \in 0..2 ^ KeyBits - 1
  <2> DEFINE B == 0..2 ^ KeyBits - 1
  <2>1. keys \in Seq(B)
    BY <1>1
  <2> HIDE DEF B
  <2>2. \A k \in DOMAIN keys : keys[k] \in B
    BY <2>1
  <2> QED
    BY <2>2 DEF B
<1>4. 2 ^ KeyBits \in Nat \ {0} /\ KeyBits \in Nat
  <2>1. KeyBits \in Powers /\ KeyBits \in Nat
    BY LaVectorAssumption DEF Powers
  <2> QED
    BY <2>1, PowerNatural
<1>5. \A k \in DOMAIN keys : keys[k] \in Nat
  BY <1>3, <1>4
<1>6. keys \in Seq(Nat)
  <2>1. keys = [k \in 1..Len(keys) |-> keys[k]]
    BY <1>1, <1>2
  <2> QED
    BY <1>2, <1>5, <2>1
<1> QED
  BY <1>1, <1>2, <1>3, <1>6 DEF StrictKeys

-----------------------------------------------------------------------------
(* make_segmentation.                                                      *)

\* The canonical segments have one bpc and continue each other up to the end.
GoodPath(keys, p) ==
  /\ Len(p) \in Nat \ {0} /\ DOMAIN p = 1..Len(p)
  /\ \A k \in DOMAIN p : p[k].bpc = TBpc
  /\ Chained([k \in DOMAIN p |-> p[k].cs], 0, Len(keys))

LEMMA PathConstant ==
  ASSUME ~AutoBpc, NEW keys \in Datasets, NEW chunks \in Chunks, chunks <= Len(keys)
  PROVE  GoodPath(keys, ConstantBpcPath(keys, chunks))
<1> DEFINE N == Len(keys)  size == N \div chunks
           end(c) == IF c = chunks THEN N ELSE c * size
           parts == [c \in 1..chunks |-> GreedySegments(keys, Eps, (c - 1) * size, end(c))]
           out == FlattenSeq(parts)
           p == [k \in DOMAIN out |-> [cs |-> out[k], bpc |-> TBpc]]
<1>1. ConstantBpcPath(keys, chunks) = p
  BY DEF ConstantBpcPath, Eps
<1>2. /\ N \in Nat \ {0} /\ chunks \in Nat \ {0} /\ chunks <= N /\ StrictKeys(keys) /\ Eps \in Nat
  BY DatasetStrict, EpsilonNatural, LaVectorAssumption
<1> HIDE DEF N
<1>3. size \in Nat \ {0} /\ chunks * size <= N
  <2>1. /\ size \in Nat /\ N % chunks \in 0..chunks - 1 /\ N = chunks * size + (N % chunks)
    BY <1>2, Division
  <2>2. size # 0
    <3> SUFFICES ASSUME size = 0 PROVE FALSE
      OBVIOUS
    <3>1. N = N % chunks
      BY <1>2, <2>1
    <3> QED
      BY <1>2, <2>1, <3>1
  <2> HIDE DEF size
  <2>3. chunks * size \in Nat
    BY <1>2, <2>1
  <2> QED
    BY <1>2, <2>1, <2>2, <2>3
<1> HIDE DEF size
<1>4. ASSUME NEW c \in 1..chunks
      PROVE  /\ (c - 1) * size \in Nat /\ c * size \in Nat /\ end(c) \in Nat
             /\ (c - 1) * size + size = c * size /\ c * size <= end(c) /\ end(c) <= N
             /\ (c - 1) * size < end(c)
  <2>1. c \in Nat /\ c - 1 \in Nat /\ c <= chunks
    BY <1>2
  <2>2. (c - 1) * size \in Nat /\ c * size \in Nat /\ (c - 1) * size + size = c * size
    BY <1>3, <2>1
  <2>3. size * c <= size * chunks
    BY <1>2, <1>3, <2>1, ProductMonotonic
  <2>4. size * c = c * size /\ size * chunks = chunks * size
    BY <1>2, <1>3, <2>1
  <2>5. chunks * size \in Nat
    BY <1>2, <1>3
  <2>6. c * size <= N
    <3> DEFINE a == c * size  t == chunks * size
    <3>1. a <= t /\ t <= N /\ a \in Nat /\ t \in Nat
      BY <1>3, <2>2, <2>3, <2>4, <2>5
    <3> HIDE DEF a, t
    <3>2. a <= N
      BY <1>2, <3>1
    <3> QED
      BY <3>2 DEF a
  <2>7. c * size <= end(c) /\ end(c) <= N /\ end(c) \in Nat
    BY <1>2, <2>2, <2>6
  <2> HIDE DEF end
  <2> QED
    BY <1>3, <2>2, <2>7
<1>5. ASSUME NEW c \in 1..chunks
      PROVE  Chained(parts[c], (c - 1) * size, end(c))
  <2>1. parts[c] = GreedySegments(keys, Eps, (c - 1) * size, end(c))
    OBVIOUS
  <2> HIDE DEF parts, end
  <2>2. Segmented(parts[c], (c - 1) * size, end(c))
    <3>1. end(c) <= Len(keys)
      BY <1>4 DEF N
    <3> QED
      BY <1>2, <1>4, <2>1, <3>1, GreedySegmented
  <2> QED
    BY <2>2, SegmentedChained
<1>6. Len(parts) = chunks
  BY <1>2
<1>7. PICK f : Concatenates(f, parts, chunks) /\ out = f[chunks]
  <2> HIDE DEF parts
  <2> QED
    BY <1>2, <1>6, Flattened
<1>8. f[1] = parts[1] /\ \A k \in 2..chunks : f[k] = f[k - 1] \o parts[k]
  <2>1. Concatenates(f, parts, chunks)
    BY <1>7
  <2>2. chunks \in Nat \ {0}
    BY <1>2
  <2> HIDE DEF parts
  <2> QED
    BY <2>1, <2>2, ConcatenationSteps, Zenon
<1> HIDE DEF parts, out, end
<1> DEFINE T == {c \in 1..chunks : Chained(f[c], 0, end(c))}
<1>9. 1 \in T
  <2>1. 1 \in 1..chunks /\ (1 - 1) * size = 0
    BY <1>2, <1>3
  <2> QED
    BY <1>5, <1>8, <2>1
<1>10. ASSUME NEW c \in 1..chunks - 1, c \in T PROVE c + 1 \in T
  <2>1. c + 1 \in 1..chunks /\ c \in 1..chunks /\ c # chunks /\ c + 1 \in 2..chunks /\ (c + 1) - 1 = c
    BY <1>2
  <2>2. f[c + 1] = f[c] \o parts[c + 1]
    BY <1>8, <2>1
  <2>3. end(c) = c * size
    BY <2>1 DEF end
  <2>4. Chained(parts[c + 1], end(c), end(c + 1)) /\ end(c) < end(c + 1)
    <3>1. Chained(parts[c + 1], ((c + 1) - 1) * size, end(c + 1)) /\ ((c + 1) - 1) * size < end(c + 1)
      BY <1>4, <1>5, <2>1
    <3> QED
      BY <2>1, <2>3, <3>1
  <2>5. end(c) \in Nat /\ end(c + 1) \in Nat /\ 0 <= end(c) /\ end(c) <= end(c + 1)
    BY <1>4, <2>1, <2>4
  <2>6. Chained(f[c + 1], 0, end(c + 1))
    BY <1>10, <2>2, <2>4, <2>5, ChainsConcatenate
  <2> QED
    BY <2>1, <2>6
<1>11. Chained(out, 0, N)
  <2>1. chunks \in 1..chunks /\ chunks \in Nat
    BY <1>2
  <2>2. chunks \in T
    <3> HIDE DEF T
    <3>1. \A c \in 1..chunks : c \in T
      BY <1>2, <1>9, <1>10, IntervalInduction
    <3> QED
      BY <2>1, <3>1
  <2> QED
    BY <1>7, <2>2 DEF end
<1>12. out \in Seq(SegmentRecords) /\ out # <<>>
  BY <1>11 DEF Chained, Starts
<1>13. /\ Len(out) \in Nat \ {0} /\ DOMAIN out = 1..Len(out)
       /\ out = [k \in DOMAIN out |-> out[k]]
  BY <1>12
<1>14. /\ Len(p) = Len(out) /\ DOMAIN p = 1..Len(out)
       /\ \A k \in DOMAIN p : p[k].bpc = TBpc
       /\ out = [k \in DOMAIN p |-> p[k].cs]
  BY <1>13
<1> QED
  BY <1>1, <1>11, <1>13, <1>14 DEF GoodPath, N

\* The powers of two as a function, for the lemmas about such functions.
PowersUpTo(m) == [k \in 0..m + 1 |-> 2 ^ k]

LEMMA PowersDouble ==
  ASSUME NEW m \in Powers, m \in Nat
  PROVE  /\ Doubles(PowersUpTo(m), m)
         /\ \A k \in 0..m + 1 : PowersUpTo(m)[k] = 2 ^ k /\ 2 ^ k \in Nat \ {0}
<1> DEFINE pow == PowersUpTo(m)
<1>1. \A k \in 0..m + 1 : pow[k] = 2 ^ k
  BY DEF PowersUpTo
<1>2. \A k \in 0..m : 2 ^ k \in Nat \ {0} /\ 2 ^ (k + 1) = 2 * 2 ^ k
  BY PowerNatural
<1>3. 2 ^ 0 = 1
  OBVIOUS
<1>4. pow[0] = 1
  <2>1. 0 \in 0..m + 1
    OBVIOUS
  <2> QED
    BY <1>1, <1>3, <2>1
<1>5. ASSUME NEW k \in 0..m PROVE pow[k + 1] = 2 * pow[k]
  <2>1. k \in 0..m + 1 /\ k + 1 \in 0..m + 1
    OBVIOUS
  <2> QED
    BY <1>1, <1>2, <2>1
<1>6. Doubles(pow, m)
  BY <1>4, <1>5 DEF Doubles
<1>7. ASSUME NEW k \in 0..m + 1 PROVE pow[k] \in Nat \ {0}
  BY <1>6, PowersGrow
<1> QED
  BY <1>1, <1>6, <1>7

-----------------------------------------------------------------------------
(* The calls of push_segment.                                              *)

\* A call of push_segment for the positions c.i, ..., c.j - 1.
GoodCall(c) ==
  /\ c.bpc = TBpc /\ c.offset \in 0..2 ^ KeyBits - 1 /\ c.depth \in 1..StackLimit
  /\ Rising(c.cs) /\ c.cs.first = c.i
  /\ c.i \in Nat /\ c.j \in Nat /\ c.i <= c.j /\ c.j <= n
  /\ OnePoint(c.cs) => c.j <= c.i + 1

\* The number of elements, and the powers it bounds.
LEMMA DataTyped ==
  ASSUME data \in Datasets
  PROVE  /\ n \in Nat \ {0} /\ StrictKeys(data) /\ DOMAIN data = 1..n
         /\ \A k \in 0..n - 1 : Key(k) \in Nat /\ Key(k) \in 0..2 ^ KeyBits - 1
         /\ n + 2 \in Powers
<1>1. /\ n \in Nat \ {0} /\ StrictKeys(data) /\ DOMAIN data = 1..n
      /\ \A k \in 1..n : data[k] \in 0..2 ^ KeyBits - 1
  BY DatasetStrict DEF n
<1>2. ASSUME NEW k \in 0..n - 1 PROVE Key(k) \in Nat /\ Key(k) \in 0..2 ^ KeyBits - 1
  <2>1. k + 1 \in 1..n
    BY <1>1
  <2>2. data[k + 1] \in Nat
    BY <1>1, <2>1 DEF StrictKeys
  <2> QED
    BY <1>1, <2>1, <2>2 DEF Key
<1>3. n + 2 \in Powers
  BY DEF Powers, n
<1> QED
  BY <1>1, <1>2, <1>3

\* A stored line: the slope is at least one, unless there is but one position.
GoodLine(line) ==
  /\ line.significand \in Nat /\ line.exponent \in 0..n + 2 /\ line.intercept \in Int
  /\ 2 ^ line.exponent \in Nat \ {0}
  /\ \/ line.significand >= 2 ^ line.exponent
     \/ line.significand = 0 /\ line.exponent = 0

LEMMA CornersTyped ==
  ASSUME NEW cs, Rising(cs)
  PROVE  /\ cs.first \in Nat
         /\ \A k \in 0..3 : cs.rectangle[k].x \in Nat /\ cs.rectangle[k].y \in Int
<1>1. cs \in SegmentRecords
  BY DEF Rising
<1>2. cs.first \in Nat /\ cs.rectangle \in [0..3 -> Corners]
  BY <1>1 DEF SegmentRecords
<1>3. \A k \in 0..3 : cs.rectangle[k] \in Corners
  BY <1>2
<1> QED
  BY <1>2, <1>3 DEF Corners

LEMMA InterceptTyped ==
  ASSUME NEW cs, Rising(cs), ~OnePoint(cs), NEW origin \in Nat
  PROVE  RoundedIntercept(cs, origin) \in Int
<1> DEFINE d == MaxSlope(cs)
           rise == d.dy * (origin - cs.rectangle[1].x)
           round == TruncatedDiv(IF rise < 0 THEN -d.dx ELSE d.dx, 2)
<1>1. d.dx \in Nat \ {0} /\ d.dy \in Nat
  BY DEF Rising
<1>2. cs.rectangle[1].x \in Nat /\ cs.rectangle[1].y \in Int
  BY CornersTyped
<1> HIDE DEF d
<1>3. rise \in Int
  <2>1. origin - cs.rectangle[1].x \in Int
    BY <1>2
  <2> QED
    BY <1>1, <2>1
<1> HIDE DEF rise
<1>4. round \in Int
  <2>1. (IF rise < 0 THEN -d.dx ELSE d.dx) \in Int
    BY <1>1
  <2> QED
    BY <2>1, TruncatedDivision
<1> HIDE DEF round
<1>5. TruncatedDiv(rise + round, d.dx) \in Int
  <2>1. rise + round \in Int
    BY <1>3, <1>4
  <2> QED
    BY <1>1, <2>1, TruncatedDivision
<1>6. TruncatedDiv(rise + round, d.dx) + cs.rectangle[1].y \in Int
  BY <1>2, <1>5
<1> QED
  BY <1>6 DEF RoundedIntercept, d, rise, round

LEMMA LineTyped ==
  ASSUME ~AutoBpc, data \in Datasets, NEW c, GoodCall(c)
  PROVE  /\ GoodLine(Line(c))
         /\ Line(c).significand < 2 ^ Line(c).exponent => OnePoint(c.cs)
<1> DEFINE cs == c.cs  top == c.j - c.i + 1  line == Line(c)
<1>1. /\ n \in Nat \ {0} /\ n + 2 \in Powers
      /\ Rising(cs) /\ cs.first = c.i /\ c.i \in Nat /\ top \in 1..n + 1
  BY DataTyped DEF GoodCall
<1>2. line = FixedPointSegment(cs, c.i, top)
  BY <1>1 DEF Line
<1> HIDE DEF line, top, cs
<1>3. CASE OnePoint(cs)
  <2>1. /\ cs.rectangle[0].y + cs.rectangle[1].y \in Int
    BY <1>1, CornersTyped
  <2>2. TruncatedDiv(cs.rectangle[0].y + cs.rectangle[1].y, 2) \in Int
    BY <2>1, TruncatedDivision
  <2>3. line.significand = 0 /\ line.exponent = 0 /\ line.intercept \in Int
    BY <1>2, <1>3, <2>2 DEF FixedPointSegment
  <2>4. 2 ^ 0 = 1
    OBVIOUS
  <2>5. GoodLine(line)
    BY <1>1, <2>3, <2>4 DEF GoodLine
  <2> QED
    BY <1>3, <2>5 DEF line, cs
<1>4. CASE ~OnePoint(cs)
  <2> DEFINE d == MaxSlope(cs)
             e == IF d.dy % d.dx = 0 THEN 0 ELSE CeilLog2(top) + 1
             p == 2 ^ e
  <2>1. /\ line.significand = TruncatedDiv(d.dy * p, d.dx) /\ line.exponent = e
        /\ line.intercept = RoundedIntercept(cs, c.i)
    BY <1>2, <1>4 DEF FixedPointSegment
  <2>2. d.dx \in Nat \ {0} /\ d.dy \in Nat /\ d.dy >= d.dx
    BY <1>1, <1>4 DEF Rising
  <2> HIDE DEF d
  <2>3. e \in 0..n + 2
    <3>1. CeilLog2(top) \in 0..top
      <4>1. Doubles(PowersUpTo(n + 2), n + 2) /\ \A k \in 0..n + 2 + 1 : PowersUpTo(n + 2)[k] = 2 ^ k
        BY <1>1, PowersDouble
      <4>2. n + 2 \in Nat /\ top \in 1..n + 2 + 1
        BY <1>1
      <4> QED
        BY <4>1, <4>2, CeilLog2InRange
    <3> QED
      BY <1>1, <3>1
  <2> HIDE DEF e
  <2>4. p \in Nat \ {0}
    BY <1>1, <2>3, PowerNatural
  <2> HIDE DEF p
  <2>5. /\ d.dy * p \in Nat /\ TruncatedDiv(d.dy * p, d.dx) = (d.dy * p) \div d.dx
    BY <2>2, <2>4 DEF TruncatedDiv
  <2>6. (d.dy * p) \div d.dx >= p
    <3>1. p * d.dx <= p * d.dy
      BY <2>2, <2>4, ProductMonotonic
    <3>2. p * d.dx = d.dx * p /\ p * d.dy = d.dy * p /\ d.dx * p \in Nat
      BY <2>2, <2>4
    <3>3. (d.dx * p) \div d.dx <= (d.dy * p) \div d.dx
      BY <2>2, <2>5, <3>1, <3>2, QuotientMonotonic
    <3>4. (d.dx * p) \div d.dx = p
      <4>1. /\ (d.dx * p) \div d.dx \in Nat /\ (d.dx * p) % d.dx \in 0..d.dx - 1
            /\ d.dx * p = d.dx * ((d.dx * p) \div d.dx) + ((d.dx * p) % d.dx)
        BY <2>2, <3>2, Division
      <4> QED
        BY <2>2, <2>4, <4>1
    <3> QED
      BY <3>3, <3>4
  <2>7. (d.dy * p) \div d.dx \in Nat
    BY <2>2, <2>5, Division
  <2>8. line.intercept \in Int
    BY <1>1, <1>4, <2>1, InterceptTyped
  <2>9. GoodLine(line) /\ line.significand >= 2 ^ line.exponent
    BY <2>1, <2>3, <2>4, <2>5, <2>6, <2>7, <2>8 DEF GoodLine, p
  <2>10. ~(line.significand < 2 ^ line.exponent)
    <3>1. line.significand \in Nat /\ 2 ^ line.exponent \in Nat
      BY <2>9 DEF GoodLine
    <3> QED
      BY <2>9, <3>1
  <2> QED
    BY <2>9, <2>10 DEF line
<1> QED
  BY <1>3, <1>4

-----------------------------------------------------------------------------
(* The layout of the corrections.                                          *)

(* The slot of every element, and the one behind the last, is at most n.   *)
LEMMA SlotInRange ==
  ASSUME n \in Nat, Density \in Nat \ {0}, NEW i \in 0..n
  PROVE  SampledSlot(i) \in 0..n
  <1> DEFINE d == Density
  <1>1. /\ i \in Nat /\ i \div d \in Nat /\ n \div d \in Nat /\ i = d * (i \div d) + (i % d)
        /\ i % d \in 0..d - 1
    <2>1. i \in Nat
      OBVIOUS
    <2>2. /\ i \div d \in Nat /\ i % d \in 0..d - 1
          /\ i = d * (i \div d) + (i % d)
      BY <2>1, Division
    <2>3. n \div d \in Nat
      BY Division
    <2> QED BY <2>1, <2>2, <2>3
  <1>2. i \div d <= d * (i \div d)
    BY <1>1, ProductGrows
  <1>3. i \div d <= n \div d
    BY <1>1, QuotientMonotonic
  <1>4. n \div d - i \div d <= n - i
    <2>1. CASE i = n
      BY <1>1, <2>1
    <2>2. CASE i < n
      BY <1>1, <2>2, QuotientGrowsSlower
    <2> QED BY <2>1, <2>2
  <1>5. CASE i % d = 0
    BY <1>1, <1>2, <1>5 DEF SampledSlot
  <1>6. CASE i % d # 0
    BY <1>1, <1>3, <1>4, <1>6 DEF SampledSlot
  <1> QED BY <1>5, <1>6

(* The samples come first: behind the slot of any of them are those of the *)
(* elements that are none.                                                 *)
LEMMA SamplesFirst ==
  ASSUME n \in Nat, Density \in Nat \ {0}, NEW i \in 0..n - 1, NEW j \in 0..n - 1,
         i % Density = 0, j % Density # 0
  PROVE  SampledSlot(i) < SampledSlot(j)
  <1> DEFINE d == Density
  <1>1. /\ i \in Nat /\ i \div d \in Nat /\ n \div d \in Nat
        /\ j \in Nat /\ j \div d \in Nat /\ j % d \in 0..d - 1
        /\ j = d * (j \div d) + (j % d)
    <2>1. i \in Nat /\ j \in Nat
      OBVIOUS
    <2>2. i \div d \in Nat /\ n \div d \in Nat
      BY <2>1, Division
    <2>3. /\ j \div d \in Nat /\ j % d \in 0..d - 1
          /\ j = d * (j \div d) + (j % d)
      BY <2>1, Division
    <2> QED BY <2>1, <2>2, <2>3
  <1>2. i \div d <= n \div d
    BY <1>1, QuotientMonotonic
  <1>3. j \div d < j
    <2>1. j \div d <= d * (j \div d)
      BY <1>1, ProductGrows
    <2> QED BY <1>1, <2>1
  <1> QED BY <1>1, <1>2, <1>3 DEF SampledSlot

(* The elements that are samples keep their order, and so do the others.   *)
LEMMA SlotsInOrder ==
  ASSUME n \in Nat, Density \in Nat \ {0}, NEW i \in 0..n - 1, NEW j \in 0..n - 1,
         i < j, i % Density = 0 <=> j % Density = 0
  PROVE  SampledSlot(i) < SampledSlot(j)
  <1> DEFINE d == Density
  <1>1. /\ i \in Nat /\ i \div d \in Nat /\ n \div d \in Nat /\ i = d * (i \div d) + (i % d)
        /\ j \in Nat /\ j \div d \in Nat /\ j = d * (j \div d) + (j % d)
    <2>1. i \in Nat /\ j \in Nat
      OBVIOUS
    <2>2. /\ i \div d \in Nat /\ n \div d \in Nat
          /\ i = d * (i \div d) + (i % d)
      BY <2>1, Division
    <2>3. /\ j \div d \in Nat
          /\ j = d * (j \div d) + (j % d)
      BY <2>1, Division
    <2> QED BY <2>1, <2>2, <2>3
  <1>2. CASE i % d = 0 /\ j % d = 0
    <2>1. i \div d <= j \div d
      BY <1>1, QuotientMonotonic
    <2>2. i \div d # j \div d
      BY <1>1, <1>2
    <2> QED BY <1>1, <1>2, <2>1, <2>2 DEF SampledSlot
  <1>3. CASE i % d # 0 /\ j % d # 0
    <2>1. j \div d - i \div d < j - i
      BY <1>1, <1>3, QuotientGrowsSlower
    <2> QED BY <1>1, <1>3, <2>1 DEF SampledSlot
  <1> QED BY <1>2, <1>3

(* Different elements have different slots.                                *)
LEMMA SlotsDistinct ==
  ASSUME n \in Nat, Density \in Nat \ {0}, NEW i \in 0..n - 1, NEW j \in 0..n - 1, i # j
  PROVE  SampledSlot(i) # SampledSlot(j)
  <1>1. /\ SampledSlot(i) \in 0..n /\ SampledSlot(j) \in 0..n
    BY SlotInRange
  <1>2. CASE i % Density = 0 <=> j % Density = 0
    <2>1. CASE i < j
      BY <1>1, <1>2, <2>1, SlotsInOrder
    <2>2. CASE j < i
      BY <1>1, <1>2, <2>2, SlotsInOrder
    <2> QED BY <2>1, <2>2
  <1>3. CASE i % Density = 0 /\ j % Density # 0
    BY <1>1, <1>3, SamplesFirst
  <1>4. CASE i % Density # 0 /\ j % Density = 0
    BY <1>1, <1>4, SamplesFirst
  <1> QED BY <1>2, <1>3, <1>4

(* The corrections of different elements share no bit, when every segment  *)
(* has the same bpc (la_vector.hpp:521-527).                               *)
THEOREM FieldsApart ==
  ASSUME ~AutoBpc, n \in Nat, Density \in Nat \ {0},
         NEW s, NEW t, s.bpc \in Nat, t.bpc = s.bpc,
         NEW i \in 0..n - 1, NEW j \in 0..n - 1, i # j
  PROVE  Field(s, i) \cap Field(t, j) = {}
  <1> DEFINE a == SampledSlot(i)  b == SampledSlot(j)  width == s.bpc
  <1>1. a \in Nat /\ b \in Nat /\ a # b
    BY SlotInRange, SlotsDistinct
  <1>2. /\ Field(s, i) = width * a..width * a + width - 1
        /\ Field(t, j) = width * b..width * b + width - 1
    BY DEF Field, BitOffset
  <1>3. width * a \in Nat /\ width * b \in Nat
    BY <1>1, Z3
  <1>4. CASE a < b
    <2>1. width * a + width <= width * b
      BY <1>1, <1>4, BlocksApart
    <2> QED BY <1>2, <1>3, <2>1
  <1>5. CASE b < a
    <2>1. width * b + width <= width * a
      BY <1>1, <1>5, BlocksApart
    <2> QED BY <1>2, <1>3, <2>1
  <1> QED BY <1>1, <1>4, <1>5

(* The words that are allocated, one more than the corrections take, hold  *)
(* the correction of every element and the one behind the last, which a    *)
(* scan of lower_bound reads (la_vector.hpp:95-99, 182-183).               *)
THEOREM FieldsAllocated ==
  ASSUME ~AutoBpc, n \in Nat, Density \in Nat \ {0}, NEW wordBits \in Nat \ {0},
         NEW s, s.bpc \in 0..wordBits, NEW i \in 0..n
  PROVE  Field(s, i) \subseteq 0..(CeilDiv(n * s.bpc, wordBits) + 1) * wordBits - 1
  <1> DEFINE width == s.bpc  words == CeilDiv(n * width, wordBits)
             rounded == n * width + wordBits - 1
  <1>1. width \in Nat /\ SampledSlot(i) \in 0..n
    BY SlotInRange
  <1>2. /\ width * SampledSlot(i) \in Nat /\ n * width \in Nat
        /\ width * SampledSlot(i) <= n * width
    <2>1. width * SampledSlot(i) <= width * n
      BY <1>1, ProductMonotonic
    <2> QED BY <1>1, <2>1, Z3
  <1>3. words \in Nat /\ n * width <= words * wordBits
    <2>1. rounded \in Nat
      BY <1>2
    <2>2. /\ rounded \div wordBits \in Nat /\ rounded % wordBits \in 0..wordBits - 1
          /\ rounded = wordBits * (rounded \div wordBits) + (rounded % wordBits)
      BY <2>1, Division
    <2>3. words = rounded \div wordBits
      BY DEF CeilDiv
    <2>4. wordBits * words = words * wordBits
      BY <2>2, <2>3, Z3
    <2> QED BY <1>2, <2>2, <2>3, <2>4
  <1>4. (words + 1) * wordBits = words * wordBits + wordBits
    BY <1>3, Z3
  <1>5. Field(s, i) = width * SampledSlot(i)..width * SampledSlot(i) + width - 1
    BY DEF Field, BitOffset
  <1>6. words * wordBits \in Nat
    BY <1>3, Z3
  <1>7. width * SampledSlot(i) + width - 1 <= (words + 1) * wordBits - 1
    BY <1>1, <1>2, <1>3, <1>4, <1>6
  <1>8. (words + 1) * wordBits \in Nat
    BY <1>4, <1>6
  <1> HIDE DEF words
  <1>9. \A b \in Field(s, i) : b \in 0..(words + 1) * wordBits - 1
    BY <1>1, <1>2, <1>5, <1>7, <1>8
  <1>10. Field(s, i) \subseteq 0..(words + 1) * wordBits - 1
    BY <1>9
  <1> QED BY <1>10 DEF words

\* Every correction lies below this bit.
BitBound == (n + 1) * TBpc

LEMMA FieldPlace ==
  ASSUME ~AutoBpc, n \in Nat, NEW s, s.bpc = TBpc, NEW i \in 0..n
  PROVE  /\ BitOffset(s, i) \in Nat
         /\ Field(s, i) = BitOffset(s, i)..BitOffset(s, i) + TBpc - 1
         /\ Field(s, i) \subseteq 0..BitBound - 1
<1> DEFINE slot == SampledSlot(i)
<1>1. slot \in 0..n /\ TBpc \in Nat
  BY SlotInRange, LaVectorAssumption
<1>2. BitOffset(s, i) = TBpc * slot
  BY DEF BitOffset
<1> HIDE DEF slot
<1>3. TBpc * slot \in Nat /\ TBpc * slot + TBpc <= BitBound
  <2>1. slot \in Nat /\ slot <= n
    BY <1>1
  <2>2. TBpc * (slot + 1) <= TBpc * (n + 1)
    BY <1>1, <2>1, ProductMonotonic
  <2>3. TBpc * slot \in Nat /\ TBpc * (slot + 1) = TBpc * slot + TBpc
    BY <1>1, <2>1
  <2>4. TBpc * (n + 1) = BitBound
    BY <1>1 DEF BitBound
  <2> QED
    BY <2>2, <2>3, <2>4
<1>4. Field(s, i) = TBpc * slot..TBpc * slot + TBpc - 1
  BY <1>2 DEF Field
<1> QED
  <2> DEFINE o == TBpc * slot
  <2>1. o \in Nat /\ o + TBpc <= BitBound /\ BitBound \in Int
    BY <1>1, <1>3 DEF BitBound
  <2>2. BitOffset(s, i) = o /\ Field(s, i) = o..o + TBpc - 1
    BY <1>2, <1>4
  <2> HIDE DEF o
  <2>3. o..o + TBpc - 1 \subseteq 0..BitBound - 1
    BY <1>1, <2>1
  <2> QED
    BY <2>1, <2>2, <2>3

\* What was written into the bits of a correction is what is read from them.
LEMMA CorrectionRead ==
  ASSUME ~AutoBpc, n \in Nat, NEW s, s.bpc = TBpc, NEW i \in 0..n,
         NEW v \in 0..2 ^ TBpc - 1, Field(s, i) \cap bits = BitsOf(s, i, v)
  PROVE  Correction(s, i) = v
<1> DEFINE o == BitOffset(s, i)  pow == PowersUpTo(KeyBits)
           digits == {pow[k] : k \in DigitsOf(v, TBpc, pow)}
           written == {2 ^ (b - o) : b \in BitsOf(s, i, v)}
<1>1. TBpc \in Nat /\ TBpc < KeyBits /\ KeyBits \in Nat /\ KeyBits \in Powers
  BY EpsilonNatural DEF Powers
<1>2. Doubles(pow, KeyBits) /\ \A k \in 0..KeyBits + 1 : pow[k] = 2 ^ k
  BY <1>1, PowersDouble
<1>3. o \in Nat /\ Field(s, i) = o..o + TBpc - 1
  BY FieldPlace
<1> HIDE DEF o, pow
<1>4. SumSet(digits) = v
  <2>1. v \in 0..pow[TBpc] - 1
    <3>1. TBpc \in 0..KeyBits + 1
      BY <1>1
    <3> QED
      BY <1>2, <3>1
  <2>2. TBpc \in 0..KeyBits + 1
    BY <1>1
  <2> QED
    BY <1>1, <1>2, <2>1, <2>2, DigitsSum
<1>5. BitsOf(s, i, v) = {b \in o..o + TBpc - 1 : (v \div 2 ^ (b - o)) % 2 = 1}
  BY <1>3 DEF BitsOf, o
<1>6. DigitsOf(v, TBpc, pow) = {k \in 0..TBpc - 1 : (v \div 2 ^ k) % 2 = 1}
  <2>1. \A k \in 0..TBpc - 1 : pow[k] = 2 ^ k
    <3>1. \A k \in 0..TBpc - 1 : k \in 0..KeyBits + 1
      BY <1>1
    <3> QED
      BY <1>2, <3>1
  <2> QED
    BY <2>1 DEF DigitsOf
<1>7. digits \subseteq written
  <2> SUFFICES ASSUME NEW k \in DigitsOf(v, TBpc, pow) PROVE pow[k] \in written
    OBVIOUS
  <2>1. k \in 0..TBpc - 1 /\ (v \div 2 ^ k) % 2 = 1
    BY <1>6
  <2>2. pow[k] = 2 ^ k
    <3>1. k \in 0..KeyBits + 1
      BY <1>1, <2>1
    <3> QED
      BY <1>2, <3>1
  <2>3. o + k \in o..o + TBpc - 1 /\ (o + k) - o = k
    BY <1>1, <1>3, <2>1
  <2>4. o + k \in BitsOf(s, i, v)
    BY <1>5, <2>1, <2>3
  <2> QED
    BY <2>2, <2>3, <2>4
<1>8. written \subseteq digits
  <2> SUFFICES ASSUME NEW b \in BitsOf(s, i, v) PROVE 2 ^ (b - o) \in digits
    OBVIOUS
  <2>1. b \in o..o + TBpc - 1 /\ (v \div 2 ^ (b - o)) % 2 = 1
    BY <1>5
  <2>2. b - o \in 0..TBpc - 1 /\ b - o \in 0..KeyBits + 1
    BY <1>1, <1>3, <2>1
  <2>3. b - o \in DigitsOf(v, TBpc, pow)
    BY <1>6, <2>1, <2>2
  <2>4. pow[b - o] = 2 ^ (b - o)
    BY <1>2, <2>2
  <2> QED
    BY <2>3, <2>4
<1>9. Correction(s, i) = SumSet(written)
  BY DEF Correction, o
<1>10. written = digits
  BY <1>7, <1>8
<1> QED
  BY <1>4, <1>9, <1>10

-----------------------------------------------------------------------------
(* A stored segment and the corrections of its elements.                   *)

\* the correction that turns the line of the segment into the key
Needed(s, k) == Key(k) - Approximate(s, k) + Eps

Encoded(written, s, k) ==
  /\ Needed(s, k) \in 0..2 ^ TBpc - 1
  /\ Field(s, k) \cap written = BitsOf(s, k, Needed(s, k))

\* A stored segment that holds the positions before stop.
GoodSegment(written, s, stop) ==
  /\ s \in Pieces /\ s.bpc = TBpc /\ stop \in Nat /\ s.first <= stop /\ stop <= n
  /\ 2 ^ s.exponent \in Nat \ {0}
  /\ \/ s.significand >= 2 ^ s.exponent
     \/ s.significand = 0 /\ s.exponent = 0 /\ stop <= s.first + 1
  /\ s.first < stop => s.firstCorrection = Needed(s, s.first)
  /\ \A k \in s.first..stop - 1 : Encoded(written, s, k)

LEMMA PiecesTyped ==
  ASSUME NEW s \in Pieces
  PROVE  /\ s.first \in Nat /\ s.bpc \in Nat /\ s.exponent \in 0..2 ^ ExponentBits - 1
         /\ s.significand \in 0..2 ^ SignificandBits - 1
         /\ s.significand \in Nat /\ s.exponent \in Nat /\ s.intercept \in Int
         /\ s.intercept \in -(2 ^ (KeyBits - 1))..2 ^ (KeyBits - 1) - 1
         /\ s.firstCorrection \in 0..2 ^ KeyBits - 1
<1> DEFINE E == 0..2 ^ ExponentBits - 1  S == 0..2 ^ SignificandBits - 1
           I == -(2 ^ (KeyBits - 1))..2 ^ (KeyBits - 1) - 1  F == 0..2 ^ KeyBits - 1
<1>1. s \in [first : Nat, bpc : Nat, offset : F, exponent : E, significand : S, intercept : I,
             firstCorrection : F]
  BY DEF Pieces
<1>2. \A k \in E : k \in Nat
  OBVIOUS
<1>3. \A k \in S : k \in Nat
  OBVIOUS
<1>4. \A k \in I : k \in Int
  OBVIOUS
<1> HIDE DEF E, S, I, F
<1>5. /\ s.first \in Nat /\ s.bpc \in Nat /\ s.exponent \in E /\ s.significand \in S
      /\ s.intercept \in I /\ s.firstCorrection \in F
  BY <1>1
<1> QED
  BY <1>2, <1>3, <1>4, <1>5 DEF E, S, I, F

LEMMA ApproximateTyped ==
  ASSUME NEW s, s.significand \in Nat, 2 ^ s.exponent \in Nat \ {0}, s.first \in Nat,
         s.intercept \in Int, NEW k \in Nat, s.first <= k
  PROVE  /\ (s.significand * (k - s.first)) \div 2 ^ s.exponent \in Nat
         /\ Approximate(s, k) \in Int
<1>1. s.significand * (k - s.first) \in Nat
  <2>1. k - s.first \in Nat
    OBVIOUS
  <2> QED
    BY <2>1
<1>2. (s.significand * (k - s.first)) \div 2 ^ s.exponent \in Nat
  BY <1>1, Division
<1> QED
  BY <1>2 DEF Approximate

LEMMA WordPowers ==
  /\ KeyBits \in Nat /\ 2 ^ KeyBits \in Nat \ {0}
  /\ SignificandBits \in Nat /\ 2 ^ SignificandBits \in Nat \ {0}
  /\ ExponentBits \in Nat /\ 2 ^ ExponentBits \in Nat \ {0}
<1>1. /\ {KeyBits, SignificandBits, ExponentBits} \subseteq Powers
      /\ {KeyBits, SignificandBits, ExponentBits} \subseteq Nat
  BY LaVectorAssumption DEF Powers
<1> QED
  BY <1>1, PowerNatural

\* With a constant bpc a half power of the key width exists.
LEMMA KeyPowers ==
  ASSUME ~AutoBpc
  PROVE  /\ 2 ^ (KeyBits - 1) \in Nat \ {0} /\ 2 ^ KeyBits = 2 * 2 ^ (KeyBits - 1)
         /\ 2 ^ TBpc \in Nat \ {0} /\ 2 ^ TBpc <= 2 ^ (KeyBits - 1)
<1>1. TBpc \in Nat /\ TBpc < KeyBits /\ KeyBits \in Nat /\ KeyBits \in Powers
  BY EpsilonNatural DEF Powers
<1>2. KeyBits - 1 \in 0..KeyBits /\ (KeyBits - 1) + 1 = KeyBits
  BY <1>1
<1>3. 2 ^ (KeyBits - 1) \in Nat \ {0} /\ 2 ^ ((KeyBits - 1) + 1) = 2 * 2 ^ (KeyBits - 1)
  BY <1>1, <1>2, PowerNatural
<1>4. 2 ^ TBpc \in Nat \ {0}
  BY <1>1, PowerNatural
<1>5. 2 ^ TBpc <= 2 ^ (KeyBits - 1)
  <2> DEFINE pow == PowersUpTo(KeyBits)
  <2>1. Doubles(pow, KeyBits) /\ \A k \in 0..KeyBits + 1 : pow[k] = 2 ^ k
    BY <1>1, PowersDouble
  <2>2. TBpc \in 0..KeyBits + 1 /\ KeyBits - 1 \in 0..KeyBits + 1 /\ TBpc <= KeyBits - 1
    BY <1>1
  <2> HIDE DEF pow
  <2>3. pow[TBpc] <= pow[KeyBits - 1]
    BY <1>1, <2>1, <2>2, PowersGrow
  <2> QED
    BY <2>1, <2>2, <2>3
<1> QED
  BY <1>2, <1>3, <1>4, <1>5

LEMMA WrappedKey ==
  ASSUME NEW v \in 0..2 ^ KeyBits - 1
  PROVE  Wrapped(v) = v
<1> DEFINE B == 2 ^ KeyBits
<1>1. B \in Nat \ {0}
  BY WordPowers
<1> HIDE DEF B
<1>2. ASSUME v \in 0..B - 1 PROVE v % B = v
  BY <1>1, <1>2
<1> QED
  BY <1>2 DEF Wrapped, B

\* An encoded element decodes.
LEMMA ElementDecodes ==
  ASSUME ~AutoBpc, data \in Datasets, NEW s, NEW stop, GoodSegment(bits, s, stop),
         NEW k \in s.first..stop - 1
  PROVE  Decompress(s, k) = Key(k)
<1>1. /\ s \in Pieces /\ s.bpc = TBpc /\ s.first <= stop /\ stop <= n /\ 2 ^ s.exponent \in Nat \ {0}
      /\ Encoded(bits, s, k) /\ stop \in Nat
  BY DEF GoodSegment
<1>2. n \in Nat /\ s.first \in Nat /\ s.significand \in Nat /\ s.intercept \in Int
  BY <1>1, DataTyped, PiecesTyped
<1>3. k \in Nat /\ s.first <= k /\ k \in 0..n - 1 /\ k \in 0..n
  BY <1>1, <1>2
<1>4. Approximate(s, k) \in Int
  BY <1>1, <1>2, <1>3, ApproximateTyped
<1>5. Correction(s, k) = Needed(s, k)
  BY <1>1, <1>2, <1>3, CorrectionRead DEF Encoded
<1>6. Key(k) \in Nat /\ Key(k) \in 0..2 ^ KeyBits - 1 /\ Eps \in Nat
  BY <1>3, DataTyped, EpsilonNatural
<1>7. Approximate(s, k) + Correction(s, k) - Eps = Key(k)
  BY <1>4, <1>5, <1>6 DEF Needed
<1>8. Decompress(s, k) = Wrapped(Key(k))
  BY <1>1, <1>7 DEF Decompress, Eps
<1> QED
  BY <1>6, <1>8, WrappedKey

LEMMA SignedInRange ==
  ASSUME ~AutoBpc, NEW v \in Int
  PROVE  Signed(v) \in -(2 ^ (KeyBits - 1))..2 ^ (KeyBits - 1) - 1
<1> DEFINE B == 2 ^ KeyBits  H == 2 ^ (KeyBits - 1)
<1>1. H \in Nat \ {0} /\ B = 2 * H
  BY KeyPowers
<1> HIDE DEF B, H
<1>2. v % B \in 0..B - 1
  BY <1>1
<1>3. (IF v % B < H THEN v % B ELSE (v % B) - B) \in -H..H - 1
  BY <1>1, <1>2
<1> QED
  BY <1>3 DEF Signed, Wrapped, B, H

\* What the constructor of a segment needs and stores.
LEMMA UnfilledParts ==
  ASSUME NEW c, c.bpc = TBpc, c.cs.first = c.i
  PROVE  /\ Unfilled(c).bpc = TBpc /\ Unfilled(c).first = c.i
         /\ Unfilled(c).exponent = Line(c).exponent
         /\ Unfilled(c).significand = Line(c).significand
         /\ Unfilled(c).intercept = Signed(Line(c).intercept)
         /\ Unfilled(c).offset = c.offset
         /\ Stored(c) = [Unfilled(c) EXCEPT !.firstCorrection = Stored(c).firstCorrection]
         /\ Stored(c).firstCorrection = IF c.bpc = 0 \/ Positions(c) = {} THEN 0
                                        ELSE NeededCorrection(c, c.i)
         /\ \A k : Needed(Stored(c), k) = NeededCorrection(c, k)
<1>1. /\ Unfilled(c).bpc = TBpc /\ Unfilled(c).first = c.i
      /\ Unfilled(c).exponent = Line(c).exponent
      /\ Unfilled(c).significand = Line(c).significand
      /\ Unfilled(c).intercept = Signed(Line(c).intercept)
      /\ Unfilled(c).offset = c.offset
  BY DEF Unfilled
<1>2. Stored(c).firstCorrection = IF c.bpc = 0 \/ Positions(c) = {} THEN 0
                                  ELSE NeededCorrection(c, c.i)
  BY DEF Stored, Unfilled
<1>3. Stored(c) = [Unfilled(c) EXCEPT !.firstCorrection = Stored(c).firstCorrection]
  BY <1>2 DEF Stored
<1>4. /\ Stored(c).significand = Unfilled(c).significand /\ Stored(c).first = Unfilled(c).first
      /\ Stored(c).exponent = Unfilled(c).exponent /\ Stored(c).intercept = Unfilled(c).intercept
  BY DEF Stored, Unfilled
<1>5. \A k : Approximate(Stored(c), k) = Approximate(Unfilled(c), k)
  BY <1>4 DEF Approximate
<1>6. \A k : Needed(Stored(c), k) = NeededCorrection(c, k)
  BY <1>5 DEF Needed, NeededCorrection, Eps
<1> QED
  BY <1>1, <1>2, <1>3, <1>6

\* The bits that constructing a segment leaves alone.
LEMMA WrittenElsewhere ==
  ASSUME ~AutoBpc, data \in Datasets, NEW c, GoodCall(c),
         NEW k \in 0..n - 1, k \notin Positions(c), NEW s, s.bpc = TBpc
  PROVE  Field(s, k) \cap WrittenBits(c) = Field(s, k) \cap bits
<1> DEFINE u == Unfilled(c)
<1>1. n \in Nat /\ Density \in Nat \ {0} /\ TBpc \in Nat /\ u.bpc = TBpc
  BY DataTyped, LaVectorAssumption, UnfilledParts DEF GoodCall
<1>2. ASSUME NEW l \in Filled(c)
      PROVE  Field(s, k) \cap Field(u, l) = {} /\ BitsOf(u, l, NeededCorrection(c, l)) \subseteq Field(u, l)
  <2>1. l \in Positions(c)
    BY DEF Filled
  <2>2. l \in 0..n - 1 /\ l # k
    BY <1>1, <2>1 DEF Positions, GoodCall
  <2>3. Field(s, k) \cap Field(u, l) = {}
    BY <1>1, <2>2, FieldsApart
  <2>4. BitsOf(u, l, NeededCorrection(c, l)) \subseteq Field(u, l)
    BY DEF BitsOf
  <2> QED
    BY <2>3, <2>4
<1>3. WrittenBits(c) = (bits \ UNION {Field(u, l) : l \in Filled(c)})
                         \cup UNION {BitsOf(u, l, NeededCorrection(c, l)) : l \in Filled(c)}
  BY DEF WrittenBits
<1> HIDE DEF u
<1>4. ASSUME NEW b \in Field(s, k) PROVE b \in WrittenBits(c) <=> b \in bits
  <2>1. \A l \in Filled(c) : b \notin Field(u, l) /\ b \notin BitsOf(u, l, NeededCorrection(c, l))
    BY <1>2, <1>4
  <2> QED
    BY <1>3, <2>1
<1> QED
  BY <1>4

LEMMA WrittenWithin ==
  ASSUME ~AutoBpc, data \in Datasets, NEW c, GoodCall(c), bits \subseteq 0..BitBound - 1
  PROVE  WrittenBits(c) \subseteq 0..BitBound - 1
<1> DEFINE u == Unfilled(c)
<1>1. n \in Nat /\ TBpc \in Nat /\ u.bpc = TBpc
  BY DataTyped, LaVectorAssumption, UnfilledParts DEF GoodCall
<1>2. ASSUME NEW l \in Filled(c)
      PROVE  BitsOf(u, l, NeededCorrection(c, l)) \subseteq 0..BitBound - 1
  <2>1. l \in Positions(c)
    BY DEF Filled
  <2>2. l \in 0..n
    BY <1>1, <2>1 DEF Positions, GoodCall
  <2>3. Field(u, l) \subseteq 0..BitBound - 1
    BY <1>1, <2>2, FieldPlace
  <2>4. BitsOf(u, l, NeededCorrection(c, l)) \subseteq Field(u, l)
    BY DEF BitsOf
  <2> QED
    BY <2>3, <2>4
<1>3. WrittenBits(c) = (bits \ UNION {Field(u, l) : l \in Filled(c)})
                         \cup UNION {BitsOf(u, l, NeededCorrection(c, l)) : l \in Filled(c)}
  BY DEF WrittenBits
<1> HIDE DEF u
<1> DEFINE B == 0..BitBound - 1
<1>4. ASSUME NEW b \in WrittenBits(c) PROVE b \in B
  <2> HIDE DEF B
  <2>1. b \in bits \/ \E l \in Filled(c) : b \in BitsOf(u, l, NeededCorrection(c, l))
    BY <1>3, <1>4
  <2> QED
    BY <1>2, <2>1 DEF B
<1> QED
  BY <1>4

\* The constructor that does not throw stores a segment whose elements are encoded.
LEMMA CallStored ==
  ASSUME ~AutoBpc, data \in Datasets, NEW c, GoodCall(c), ~Throws(c)
  PROVE  GoodSegment(WrittenBits(c), Stored(c), c.j) /\ Stored(c).first = c.i
<1> DEFINE u == Unfilled(c)  s == Stored(c)  line == Line(c)
<1>1. /\ n \in Nat /\ Density \in Nat \ {0} /\ TBpc \in Nat /\ TBpc >= 2
      /\ c.bpc = TBpc /\ c.i \in Nat /\ c.j \in Nat /\ c.i <= c.j /\ c.j <= n
      /\ c.cs.first = c.i /\ c.offset \in 0..2 ^ KeyBits - 1
  BY DataTyped, LaVectorAssumption, EpsilonNatural DEF GoodCall
<1>2. /\ u.bpc = TBpc /\ u.first = c.i /\ u.exponent = line.exponent
      /\ u.significand = line.significand /\ u.intercept = Signed(line.intercept)
      /\ u.offset = c.offset
      /\ s = [u EXCEPT !.firstCorrection = s.firstCorrection]
      /\ s.firstCorrection = IF c.bpc = 0 \/ Positions(c) = {} THEN 0 ELSE NeededCorrection(c, c.i)
      /\ \A k : Needed(s, k) = NeededCorrection(c, k)
  BY <1>1, UnfilledParts
<1>3. GoodLine(line) /\ (line.significand < 2 ^ line.exponent => OnePoint(c.cs))
  BY LineTyped
<1>4. FieldsFit(line) /\ TooLarge(c) = {}
  BY DEF Throws
<1>5. \A k \in Positions(c) : NeededCorrection(c, k) \in 0..2 ^ TBpc - 1
  BY <1>1, <1>4 DEF TooLarge
<1>6. /\ s.bpc = TBpc /\ s.first = c.i /\ s.exponent = line.exponent
      /\ s.significand = line.significand /\ s.intercept = Signed(line.intercept)
      /\ s.offset = c.offset
  <2>1. u = [bpc |-> c.bpc, offset |-> c.offset, firstCorrection |-> 0, first |-> c.cs.first,
             intercept |-> Signed(line.intercept), exponent |-> line.exponent,
             significand |-> line.significand]
    BY DEF Unfilled
  <2> HIDE DEF u, s, line
  <2> QED
    BY <1>1, <1>2, <2>1
<1>7. s.firstCorrection \in 0..2 ^ KeyBits - 1
  <2>1. c.i \in Positions(c) \/ Positions(c) = {}
    BY <1>1 DEF Positions
  <2>2. s.firstCorrection = 0 \/ s.firstCorrection \in 0..2 ^ TBpc - 1
    BY <1>1, <1>2, <1>5, <2>1
  <2> HIDE DEF s
  <2> QED
    BY <2>2, KeyPowers
<1>8. s \in Pieces
  <2>1. line.exponent \in Nat /\ line.significand \in Nat /\ line.intercept \in Int
    BY <1>1, <1>3 DEF GoodLine
  <2>2. line.exponent \in 0..2 ^ ExponentBits - 1 /\ line.significand \in 0..2 ^ SignificandBits - 1
    BY <1>4, <2>1, WordPowers DEF FieldsFit
  <2>3. Signed(line.intercept) \in -(2 ^ (KeyBits - 1))..2 ^ (KeyBits - 1) - 1
    BY <2>1, SignedInRange
  <2>4. u = [bpc |-> c.bpc, offset |-> c.offset, firstCorrection |-> 0, first |-> c.cs.first,
             intercept |-> Signed(line.intercept), exponent |-> line.exponent,
             significand |-> line.significand]
    BY DEF Unfilled
  <2> HIDE DEF line, u, s
  <2>5. s = [bpc |-> TBpc, offset |-> c.offset, firstCorrection |-> s.firstCorrection, first |-> c.i,
             intercept |-> Signed(line.intercept), exponent |-> line.exponent,
             significand |-> line.significand]
    BY <1>1, <1>2, <2>4
  <2> QED
    BY <1>1, <1>7, <2>2, <2>3, <2>5 DEF Pieces
<1>9. Filled(c) = Positions(c)
  BY <1>1, <1>4 DEF Filled
<1>10. ASSUME NEW k \in Positions(c)
       PROVE  Encoded(WrittenBits(c), s, k)
  <2>1. k \in 0..n - 1
    BY <1>1 DEF Positions
  <2>2. Field(s, k) = Field(u, k) /\ \A v : BitsOf(s, k, v) = BitsOf(u, k, v)
    <3>1. BitOffset(s, k) = BitOffset(u, k)
      BY <1>2, <1>6 DEF BitOffset
    <3> HIDE DEF s, u
    <3>2. Field(s, k) = Field(u, k)
      BY <1>2, <1>6, <3>1 DEF Field
    <3> QED
      BY <3>1, <3>2 DEF BitsOf
  <2>3. ASSUME NEW l \in Positions(c), l # k
        PROVE  Field(u, k) \cap Field(u, l) = {}
    <3>1. l \in 0..n - 1
      BY <1>1 DEF Positions
    <3> QED
      BY <1>1, <1>2, <2>1, <2>3, <3>1, FieldsApart
  <2>4. \A l : BitsOf(u, l, NeededCorrection(c, l)) \subseteq Field(u, l)
    BY DEF BitsOf
  <2>5. WrittenBits(c) = (bits \ UNION {Field(u, l) : l \in Positions(c)})
                           \cup UNION {BitsOf(u, l, NeededCorrection(c, l)) : l \in Positions(c)}
    BY <1>9 DEF WrittenBits
  <2> HIDE DEF u, s, line
  <2>6. ASSUME NEW b \in Field(u, k)
        PROVE  b \in WrittenBits(c) <=> b \in BitsOf(u, k, NeededCorrection(c, k))
    <3>1. b \in UNION {Field(u, l) : l \in Positions(c)}
      OBVIOUS
    <3>2. \A l \in Positions(c) : l # k => b \notin Field(u, l)
      BY <2>3
    <3>3. \A l \in Positions(c) : l # k => b \notin BitsOf(u, l, NeededCorrection(c, l))
      BY <2>4, <3>2
    <3> QED
      BY <2>5, <3>1, <3>3
  <2>7. Field(u, k) \cap WrittenBits(c) = BitsOf(u, k, NeededCorrection(c, k))
    BY <2>4, <2>6
  <2>8. Needed(s, k) = NeededCorrection(c, k)
    BY <1>2
  <2>9. Field(s, k) \cap WrittenBits(c) = BitsOf(s, k, Needed(s, k))
    BY <2>2, <2>7, <2>8
  <2> QED
    BY <1>5, <2>8, <2>9 DEF Encoded
<1>11. /\ 2 ^ s.exponent \in Nat \ {0}
       /\ \/ s.significand >= 2 ^ s.exponent
          \/ s.significand = 0 /\ s.exponent = 0 /\ c.j <= s.first + 1
  <2>1. /\ line.significand \in Nat /\ 2 ^ line.exponent \in Nat \ {0}
        /\ \/ line.significand >= 2 ^ line.exponent
           \/ line.significand = 0 /\ line.exponent = 0
    BY <1>3 DEF GoodLine
  <2>2. OnePoint(c.cs) => c.j <= c.i + 1
    BY DEF GoodCall
  <2> HIDE DEF s, line, u
  <2> QED
    BY <1>3, <1>6, <2>1, <2>2
<1>12. s.first < c.j => s.firstCorrection = Needed(s, s.first)
  <2>1. s.first < c.j => Positions(c) # {}
    BY <1>1, <1>6 DEF Positions
  <2> HIDE DEF s, u, line
  <2> QED
    BY <1>1, <1>2, <1>6, <2>1
<1>13. \A k \in s.first..c.j - 1 : Encoded(WrittenBits(c), s, k)
  <2> HIDE DEF s, u, line
  <2> QED
    BY <1>6, <1>10 DEF Positions
<1> HIDE DEF s, u, line
<1>14. GoodSegment(WrittenBits(c), s, c.j)
  BY <1>1, <1>6, <1>8, <1>11, <1>12, <1>13 DEF GoodSegment
<1> QED
  BY <1>6, <1>14 DEF s

-----------------------------------------------------------------------------
(* The construction.                                                       *)

CallRecords ==
  [cs : SegmentRecords, bpc : {TBpc}, offset : 0..2 ^ KeyBits - 1, i : Nat, j : Nat,
   depth : 1..StackLimit]

\* The calls to come continue each other up to the end of the data.
GoodCalls(calls) ==
  /\ calls \in Seq(CallRecords)
  /\ \A k \in DOMAIN calls : GoodCall(calls[k])
  /\ \A k \in DOMAIN calls :
       calls[k].j = IF k = Len(calls) THEN n ELSE calls[k + 1].i

LEMMA WrappedInRange ==
  ASSUME NEW v \in Int
  PROVE  Wrapped(v) \in 0..2 ^ KeyBits - 1
<1> DEFINE B == 2 ^ KeyBits
<1>1. B \in Nat \ {0}
  BY WordPowers
<1> HIDE DEF B
<1>2. v % B \in 0..B - 1
  BY <1>1
<1> QED
  BY <1>2 DEF Wrapped, B

LEMMA PathParts ==
  ASSUME data \in Datasets, NEW p, GoodPath(data, p), NEW k \in DOMAIN p
  PROVE  /\ p[k].bpc = TBpc /\ p[k].cs \in SegmentRecords /\ Rising(p[k].cs)
         /\ p[k].cs.first \in Nat /\ PathEnd(p, k) \in Nat
         /\ p[k].cs.first < PathEnd(p, k) /\ PathEnd(p, k) <= n
         /\ OnePoint(p[k].cs) => PathEnd(p, k) = p[k].cs.first + 1
         /\ k = 1 => p[k].cs.first = 0
<1> DEFINE out == [i \in DOMAIN p |-> p[i].cs]  l == Len(p)
<1>1. /\ l \in Nat \ {0} /\ DOMAIN p = 1..l /\ p[k].bpc = TBpc /\ Chained(out, 0, n) /\ n \in Nat
  BY DataTyped DEF GoodPath, n
<1>2. /\ DOMAIN out = 1..l /\ \A i \in 1..l : out[i] = p[i].cs
  BY <1>1
<1>3. out \in Seq(SegmentRecords)
  BY <1>1 DEF Chained, Starts
<1> HIDE DEF out
<1>4. Len(out) = l
  <2>1. Len(out) \in Nat /\ DOMAIN out = 1..Len(out)
    BY <1>3
  <2> HIDE DEF l
  <2>2. PICK m \in Nat : m = Len(out)
    BY <2>1
  <2>3. 1..m = 1..l
    BY <1>2, <2>1, <2>2
  <2>4. m = l
    BY <1>1, <2>3
  <2> QED
    BY <2>2, <2>4
<1>5. /\ \A i \in 1..l : Rising(out[i]) /\ 0 <= out[i].first /\ out[i].first < n
      /\ \A i, j \in 1..l : i < j => out[i].first < out[j].first
      /\ out # <<>> => out[1].first = 0
      /\ out # <<>>
      /\ \A i \in 1..l : OnePoint(out[i]) =>
           IF i = l THEN out[i].first = n - 1 ELSE out[i + 1].first = out[i].first + 1
  BY <1>1, <1>2, <1>4 DEF Chained, Starts
<1>6. \A i \in 1..l : out[i] \in SegmentRecords /\ out[i].first \in Nat
  <2>1. \A i \in 1..l : out[i] \in SegmentRecords
    BY <1>2, <1>3
  <2> QED
    BY <2>1 DEF SegmentRecords
<1> HIDE DEF l
<1>7. k \in 1..l
  BY <1>1
<1>8. CASE k = l
  <2>1. PathEnd(p, k) = n
    BY <1>8 DEF PathEnd, l
  <2> QED
    BY <1>1, <1>2, <1>5, <1>6, <1>7, <1>8, <2>1
<1>9. CASE k # l
  <2>1. PathEnd(p, k) = p[k + 1].cs.first
    BY <1>9 DEF PathEnd, l
  <2>2. k + 1 \in 1..l /\ k < k + 1
    BY <1>1, <1>7, <1>9
  <2> QED
    BY <1>1, <1>2, <1>5, <1>6, <1>7, <1>9, <2>1, <2>2
<1> QED
  BY <1>8, <1>9

\* make_segmentation's segments as calls.
LEMMA CallsGood ==
  ASSUME ~AutoBpc, data \in Datasets, NEW p, GoodPath(data, p)
  PROVE  /\ GoodCalls(Calls(p)) /\ Calls(p) # <<>> /\ Calls(p)[1].i = 0
         /\ \A k \in DOMAIN Calls(p) : Calls(p)[k].i < Calls(p)[k].j
<1> DEFINE l == Len(p)
           w == [k \in 2..l |-> p[k - 1].bpc * (p[k].cs.first - p[k - 1].cs.first)]
           Offsets(f) == f = [k \in 1..l |->
             IF k = 1 THEN 0
             ELSE f[k - 1] + p[k - 1].bpc * (p[k].cs.first - p[k - 1].cs.first)]
           offset == CHOOSE f : Offsets(f)
           calls == Calls(p)
<1>1. /\ l \in Nat \ {0} /\ DOMAIN p = 1..l
      /\ \A k \in 1..l :
           /\ p[k].bpc = TBpc /\ p[k].cs \in SegmentRecords /\ Rising(p[k].cs)
           /\ p[k].cs.first \in Nat /\ PathEnd(p, k) \in Nat
           /\ p[k].cs.first < PathEnd(p, k) /\ PathEnd(p, k) <= n
           /\ OnePoint(p[k].cs) => PathEnd(p, k) = p[k].cs.first + 1
           /\ k = 1 => p[k].cs.first = 0
  BY PathParts DEF GoodPath
<1>2. calls = [k \in 1..l |->
                 Call(p[k].cs, p[k].bpc, Wrapped(offset[k]), p[k].cs.first, PathEnd(p, k), 1)]
  BY <1>1 DEF Calls
<1> HIDE DEF l, calls
<1>3. \A k \in 2..l : w[k] \in Int
  <2> SUFFICES ASSUME NEW k \in 2..l
               PROVE  p[k - 1].bpc * (p[k].cs.first - p[k - 1].cs.first) \in Int
    OBVIOUS
  <2>1. k - 1 \in 1..l /\ k \in 1..l
    BY <1>1
  <2>2. p[k - 1].bpc = TBpc /\ TBpc \in Nat /\ p[k].cs.first \in Nat /\ p[k - 1].cs.first \in Nat
    BY <1>1, <2>1, LaVectorAssumption
  <2>3. p[k].cs.first - p[k - 1].cs.first \in Int
    BY <2>2
  <2> QED
    BY <2>2, <2>3
<1>4. PICK f : RunningSum(f, w, l) /\ \A k \in 1..l : f[k] \in Int
  <2> HIDE DEF w
  <2> QED
    BY <1>1, <1>3, RunningSumExists
<1>5. Offsets(f)
  <2>1. ASSUME NEW k \in 1..l
        PROVE  f[k] = IF k = 1 THEN 0
                      ELSE f[k - 1] + p[k - 1].bpc * (p[k].cs.first - p[k - 1].cs.first)
    <3>1. f[k] = IF k = 1 THEN 0 ELSE f[k - 1] + w[k]
      <4> HIDE DEF w
      <4> QED
        BY <1>4 DEF RunningSum
    <3>2. k # 1 => w[k] = p[k - 1].bpc * (p[k].cs.first - p[k - 1].cs.first)
      <4>1. k # 1 => k \in 2..l
        BY <1>1
      <4> QED
        BY <4>1
    <3> HIDE DEF w
    <3> QED
      BY <3>1, <3>2
  <2>2. f = [k \in 1..l |-> f[k]]
    <3> HIDE DEF w
    <3> QED
      BY <1>4 DEF RunningSum
  <2> QED
    BY <2>1, <2>2
<1>6. Offsets(offset)
  BY <1>5
<1> HIDE DEF offset
<1>7. \A k \in 1..l : offset[k] \in Int
  <2> DEFINE T == {k \in 1..l : offset[k] \in Int}
  <2>1. /\ offset[1] = 0
        /\ \A k \in 2..l : offset[k] = offset[k - 1] + w[k]
    <3>1. 1 \in 1..l /\ \A k \in 2..l : k \in 1..l /\ k # 1
      BY <1>1
    <3> QED
      BY <1>6, <3>1
  <2> HIDE DEF w
  <2>2. 1 \in T
    BY <1>1, <2>1
  <2>3. ASSUME NEW k \in 1..l - 1, k \in T PROVE k + 1 \in T
    <3>1. k + 1 \in 2..l /\ (k + 1) - 1 = k /\ k + 1 \in 1..l
      BY <1>1
    <3>2. offset[k + 1] = offset[k] + w[k + 1] /\ w[k + 1] \in Int /\ offset[k] \in Int
      <4>1. offset[k + 1] = offset[(k + 1) - 1] + w[k + 1] /\ w[k + 1] \in Int
        BY <1>3, <2>1, <3>1
      <4> QED
        BY <2>3, <3>1, <4>1
    <3> QED
      BY <3>1, <3>2
  <2> HIDE DEF T
  <2>4. \A k \in 1..l : k \in T
    BY <1>1, <2>2, <2>3, IntervalInduction
  <2> QED
    BY <2>4 DEF T
<1>8. DOMAIN calls = 1..l /\ calls = [k \in 1..l |-> calls[k]]
  BY <1>2
<1>9. ASSUME NEW k \in 1..l
      PROVE  /\ calls[k] \in CallRecords /\ GoodCall(calls[k])
             /\ calls[k].i = p[k].cs.first /\ calls[k].j = PathEnd(p, k)
             /\ calls[k].i < calls[k].j
  <2>1. calls[k] = Call(p[k].cs, p[k].bpc, Wrapped(offset[k]), p[k].cs.first, PathEnd(p, k), 1)
    BY <1>2
  <2>2. Wrapped(offset[k]) \in 0..2 ^ KeyBits - 1
    BY <1>7, WrappedInRange
  <2>3. 1 \in 1..StackLimit
    BY LaVectorAssumption
  <2> DEFINE c == calls[k]
  <2>4. /\ c.cs = p[k].cs /\ c.bpc = TBpc /\ c.offset \in 0..2 ^ KeyBits - 1
        /\ c.i = p[k].cs.first /\ c.j = PathEnd(p, k) /\ c.depth = 1
        /\ c = [cs |-> c.cs, bpc |-> c.bpc, offset |-> c.offset, i |-> c.i, j |-> c.j,
                depth |-> c.depth]
    BY <1>1, <2>1, <2>2 DEF Call
  <2> HIDE DEF c
  <2>5. c \in CallRecords
    BY <1>1, <2>3, <2>4 DEF CallRecords
  <2>6. GoodCall(c)
    BY <1>1, <2>3, <2>4 DEF GoodCall
  <2> QED
    BY <1>1, <2>4, <2>5, <2>6 DEF c
<1>10. calls \in Seq(CallRecords) /\ Len(calls) = l
  BY <1>1, <1>8, <1>9
<1>11. ASSUME NEW k \in 1..l
       PROVE  calls[k].j = IF k = l THEN n ELSE calls[k + 1].i
  <2>1. CASE k = l
    BY <1>9, <2>1 DEF PathEnd, l
  <2>2. CASE k # l
    <3>1. k + 1 \in 1..l
      BY <1>1, <2>2
    <3>2. PathEnd(p, k) = p[k + 1].cs.first
      BY <2>2 DEF PathEnd, l
    <3> QED
      BY <1>9, <2>2, <3>1, <3>2
  <2> QED
    BY <2>1, <2>2
<1>12. 1 \in 1..l /\ calls # <<>> /\ calls[1].i = 0
  <2>1. 1 \in 1..l
    BY <1>1
  <2> QED
    BY <1>1, <1>9, <1>10, <2>1
<1>13. GoodCalls(calls)
  BY <1>8, <1>9, <1>10, <1>11 DEF GoodCalls
<1> QED
  BY <1>8, <1>9, <1>12, <1>13 DEF calls

\* What does not change with the data.
LEMMA Frozen ==
  ASSUME data' = data
  PROVE  /\ n' = n /\ BitBound' = BitBound
         /\ \A k : Key(k)' = Key(k)
  BY DEF n, Key, BitBound

LEMMA CallFrozen ==
  ASSUME data' = data, NEW c
  PROVE  /\ GoodCall(c)' <=> GoodCall(c)
         /\ Throws(c)' <=> Throws(c)
<1>1. n' = n
  BY Frozen
<1>2. GoodCall(c)' <=> GoodCall(c)
  BY <1>1 DEF GoodCall
<1>3. \A k : NeededCorrection(c, k)' = NeededCorrection(c, k)
  BY DEF NeededCorrection, Key
<1>4. TooLarge(c)' = TooLarge(c)
  BY <1>3 DEF TooLarge
<1>5. Throws(c)' <=> Throws(c)
  BY <1>4 DEF Throws
<1> QED
  BY <1>2, <1>5

LEMMA SegmentFrozen ==
  ASSUME data' = data, NEW written, NEW s, NEW stop, GoodSegment(written, s, stop)
  PROVE  GoodSegment(written, s, stop)'
<1>1. n' = n /\ AutoBpc' = AutoBpc
  BY Frozen DEF AutoBpc
<1>2. ASSUME NEW k PROVE Encoded(written, s, k)' <=> Encoded(written, s, k)
  <2>1. Needed(s, k)' = Needed(s, k)
    BY DEF Needed, Key
  <2>2. BitOffset(s, k)' = BitOffset(s, k)
    BY <1>1 DEF BitOffset, SampledSlot
  <2>3. Field(s, k)' = Field(s, k)
    BY <2>2 DEF Field
  <2>4. BitsOf(s, k, Needed(s, k))' = BitsOf(s, k, Needed(s, k))
    BY <2>1, <2>2, <2>3 DEF BitsOf
  <2> QED
    BY <2>1, <2>3, <2>4 DEF Encoded
<1>3. (s.first < stop => s.firstCorrection = Needed(s, s.first))'
  BY DEF GoodSegment, Needed, Key
<1> QED
  BY <1>1, <1>2, <1>3 DEF GoodSegment

\* A segment is not disturbed by bits that change outside its corrections.
LEMMA SegmentKept ==
  ASSUME NEW old, NEW new, NEW s, NEW stop, GoodSegment(old, s, stop),
         \A k \in s.first..stop - 1 : Field(s, k) \cap new = Field(s, k) \cap old
  PROVE  GoodSegment(new, s, stop)
  BY DEF GoodSegment, Encoded

\* The two halves of a call.
LEMMA HalvesGood ==
  ASSUME ~AutoBpc, data \in Datasets, NEW c \in CallRecords, GoodCall(c), c.depth < StackLimit
  PROVE  \E a, b \in CallRecords :
           /\ Halves(c) = <<a, b>> /\ GoodCall(a) /\ GoodCall(b)
           /\ a.i = c.i /\ a.j = b.i /\ b.j = c.j
           /\ c.j = c.i + 1 /\ Throws(c) => b.j = b.i + 1 /\ Throws(b)
           /\ c.i + 2 <= c.j => a.i < a.j /\ b.i < b.j
<1> DEFINE half == (c.i + c.j) \div 2
           a == Call(c.cs, c.bpc, c.offset, c.i, half, c.depth + 1)
           b == Call(CopyFrom(c.cs, half), c.bpc, Wrapped(c.offset + half * c.bpc),
                     half, c.j, c.depth + 1)
<1>1. /\ c.bpc = TBpc /\ c.offset \in 0..2 ^ KeyBits - 1 /\ c.depth \in 1..StackLimit
      /\ Rising(c.cs) /\ c.cs.first = c.i /\ c.cs \in SegmentRecords
      /\ c.i \in Nat /\ c.j \in Nat /\ c.i <= c.j /\ c.j <= n
      /\ OnePoint(c.cs) => c.j <= c.i + 1
      /\ n \in Nat /\ TBpc \in Nat /\ StackLimit \in Nat
  BY DataTyped, LaVectorAssumption DEF GoodCall, Rising
<1>2. Halves(c) = <<a, b>>
  BY DEF Halves
<1>3. half \in Nat /\ c.i <= half /\ half <= c.j /\ (c.i < c.j => half < c.j)
      /\ (c.i + 2 <= c.j => c.i < half) /\ (c.j = c.i + 1 => half = c.i)
  BY <1>1
<1> HIDE DEF half
<1>4. c.depth + 1 \in 1..StackLimit
  BY <1>1
<1>5. Wrapped(c.offset + half * c.bpc) \in 0..2 ^ KeyBits - 1
  <2>1. c.offset \in Int
    BY <1>1
  <2>2. half * c.bpc \in Int
    BY <1>1, <1>3
  <2> QED
    BY <2>1, <2>2, WrappedInRange
<1>6. /\ CopyFrom(c.cs, half) \in SegmentRecords /\ CopyFrom(c.cs, half).first = half
      /\ Rising(CopyFrom(c.cs, half)) /\ (OnePoint(CopyFrom(c.cs, half)) <=> OnePoint(c.cs))
      /\ half = c.i => CopyFrom(c.cs, half) = c.cs
  <2> DEFINE d == CopyFrom(c.cs, half)
  <2>1. c.cs = [first |-> c.cs.first, rectangle |-> c.cs.rectangle]
        /\ c.cs.rectangle \in [0..3 -> Corners]
    BY <1>1 DEF SegmentRecords
  <2>2. d = [first |-> half, rectangle |-> c.cs.rectangle]
    BY <2>1 DEF CopyFrom
  <2> HIDE DEF d
  <2>3. d \in SegmentRecords /\ d.rectangle = c.cs.rectangle /\ d.first = half
    BY <1>3, <2>1, <2>2 DEF SegmentRecords
  <2>4. MaxSlope(d) = MaxSlope(c.cs) /\ (OnePoint(d) <=> OnePoint(c.cs))
    BY <2>3 DEF MaxSlope, OnePoint
  <2>5. Rising(d)
    BY <1>1, <2>3, <2>4 DEF Rising
  <2>6. half = c.i => d = c.cs
    BY <1>1, <2>1, <2>2
  <2> QED
    BY <2>3, <2>4, <2>5, <2>6 DEF d
<1>7. /\ a.cs = c.cs /\ a.bpc = c.bpc /\ a.offset = c.offset /\ a.i = c.i /\ a.j = half
      /\ a.depth = c.depth + 1 /\ a \in CallRecords
  BY <1>1, <1>3, <1>4 DEF Call, CallRecords
<1>8. /\ b.cs = CopyFrom(c.cs, half) /\ b.bpc = c.bpc
      /\ b.offset = Wrapped(c.offset + half * c.bpc) /\ b.i = half /\ b.j = c.j
      /\ b.depth = c.depth + 1 /\ b \in CallRecords
  BY <1>1, <1>3, <1>4, <1>5, <1>6 DEF Call, CallRecords
<1> HIDE DEF a, b
<1>9. GoodCall(a)
  BY <1>1, <1>3, <1>4, <1>7 DEF GoodCall
<1>10. GoodCall(b)
  BY <1>1, <1>3, <1>4, <1>5, <1>6, <1>8 DEF GoodCall
<1>11. ASSUME c.j = c.i + 1, Throws(c) PROVE b.j = b.i + 1 /\ Throws(b)
  <2>1. half = c.i /\ b.cs = c.cs /\ b.i = c.i /\ b.j = c.j /\ b.bpc = c.bpc
    BY <1>3, <1>6, <1>8, <1>11
  <2>2. Line(b) = Line(c) /\ Positions(b) = Positions(c)
    BY <2>1 DEF Line, Positions
  <2>3. \A k : Approximate(Unfilled(b), k) = Approximate(Unfilled(c), k)
    BY <2>1, <2>2 DEF Approximate, Unfilled
  <2>4. \A k : NeededCorrection(b, k) = NeededCorrection(c, k)
    BY <2>1, <2>3 DEF NeededCorrection
  <2>5. TooLarge(b) = TooLarge(c)
    BY <2>1, <2>2, <2>4 DEF TooLarge
  <2>6. Throws(b)
    BY <1>11, <2>2, <2>5 DEF Throws
  <2> QED
    BY <1>11, <2>1, <2>6
<1>12. c.i + 2 <= c.j => a.i < a.j /\ b.i < b.j
  BY <1>1, <1>3, <1>7, <1>8
<1>13. a.i = c.i /\ a.j = b.i /\ b.j = c.j
  BY <1>7, <1>8
<1>14. /\ Halves(c) = <<a, b>> /\ GoodCall(a) /\ GoodCall(b)
       /\ a.i = c.i /\ a.j = b.i /\ b.j = c.j
       /\ c.j = c.i + 1 /\ Throws(c) => b.j = b.i + 1 /\ Throws(b)
       /\ c.i + 2 <= c.j => a.i < a.j /\ b.i < b.j
  BY <1>2, <1>9, <1>10, <1>11, <1>12, <1>13
<1> QED
  BY <1>7, <1>8, <1>14

\* where the first call to come begins, and how many segments are stored, the
\* sentinel not counted
Frontier == IF todo = <<>> THEN n ELSE todo[1].i
Pushed == IF pc = "built" THEN Len(segments) - 1 ELSE Len(segments)

\* where the k-th stored segment ends
Stop(k) == IF k = Pushed THEN Frontier ELSE segments[k + 1].first

\* The stored segments cover the positions before Frontier.
Tiles ==
  /\ \A k \in 1..Pushed : GoodSegment(bits, segments[k], Stop(k))
  /\ IF Pushed = 0 THEN Frontier = 0 ELSE segments[1].first = 0

\* an element that cannot be stored even as a segment of its own
Doomed == \E k \in DOMAIN todo : todo[k].j = todo[k].i + 1 /\ Throws(todo[k])

\* a call without positions, or a segment stored by one
Idle ==
  \/ \E k \in DOMAIN todo : todo[k].i = todo[k].j
  \/ \E k \in 1..Pushed : segments[k].first = Stop(k)

\* The invariant of the construction.
BuildInv ==
  /\ data \in Datasets /\ GoodPath(data, path)
  /\ pc \in {"pushing", "built", "overflow"}
  /\ GoodCalls(todo)
  /\ segments \in Seq(Pieces) /\ bits \subseteq 0..BitBound - 1
  /\ Tiles
  /\ pc = "built" => /\ todo = <<>> /\ segments # <<>>
                     /\ segments[Len(segments)] = Sentinel
  /\ Idle => Doomed

LEMMA BuildInitially ==
  ASSUME ~AutoBpc, BuildInit
  PROVE  BuildInv
<1>1. data \in Datasets /\ segments = <<>> /\ bits = {} /\ pc = "pushing" /\ todo = Calls(path)
  BY DEF BuildInit
<1>2. GoodPath(data, path)
  <2>1. PICK chunks \in Chunks : chunks <= n /\ path = ConstantBpcPath(data, chunks)
    BY DEF BuildInit
  <2> QED
    BY <1>1, <2>1, PathConstant DEF n
<1>3. /\ GoodCalls(todo) /\ todo # <<>> /\ todo[1].i = 0
      /\ \A k \in DOMAIN todo : todo[k].i < todo[k].j
  BY <1>1, <1>2, CallsGood
<1>4. Pushed = 0 /\ Frontier = 0 /\ segments \in Seq(Pieces)
  BY <1>1, <1>3 DEF Pushed, Frontier
<1>5. Tiles
  <2>1. 1..Pushed = {}
    BY <1>4
  <2> QED
    BY <1>4, <2>1 DEF Tiles
<1>6. ~Idle
  <2>1. 1..Pushed = {}
    BY <1>4
  <2>2. \A k \in DOMAIN todo : todo[k].i \in Nat /\ todo[k].j \in Nat
    BY <1>3 DEF GoodCalls, GoodCall
  <2> QED
    BY <1>3, <2>1, <2>2 DEF Idle
<1> QED
  BY <1>1, <1>2, <1>3, <1>4, <1>5, <1>6 DEF BuildInv

\* The head of the calls, and what the stored segments say of it.
LEMMA HeadParts ==
  ASSUME ~AutoBpc, BuildInv, pc = "pushing", todo # <<>>
  PROVE  /\ Head(todo) = todo[1] /\ Head(todo) \in CallRecords /\ GoodCall(Head(todo))
         /\ Frontier = Head(todo).i /\ Pushed = Len(segments) /\ Len(segments) \in Nat
         /\ Len(todo) \in Nat \ {0} /\ DOMAIN todo = 1..Len(todo)
         /\ \A k \in 1..Len(segments) :
              /\ GoodSegment(bits, segments[k], Stop(k)) /\ Stop(k) <= Frontier
              /\ \A c \in {Head(todo)}, l \in segments[k].first..Stop(k) - 1 :
                   l \in 0..n - 1 /\ l \notin Positions(c)
<1>1. todo \in Seq(CallRecords) /\ \A k \in DOMAIN todo : GoodCall(todo[k])
  BY DEF BuildInv, GoodCalls
<1>2. /\ Len(todo) \in Nat \ {0} /\ DOMAIN todo = 1..Len(todo) /\ Head(todo) = todo[1]
  BY <1>1, HeadAndTail
<1>3. 1 \in DOMAIN todo
  BY <1>2
<1>4. Head(todo) \in CallRecords /\ GoodCall(Head(todo)) /\ Frontier = Head(todo).i
  BY <1>1, <1>2, <1>3 DEF Frontier
<1>5. Pushed = Len(segments) /\ Len(segments) \in Nat
  BY DEF Pushed, BuildInv
<1> DEFINE m == Len(segments)
<1>6. ASSUME NEW k \in 1..m
      PROVE  /\ GoodSegment(bits, segments[k], Stop(k)) /\ segments[k].first \in Nat
             /\ Stop(k) \in Nat /\ segments[k].first <= Stop(k) /\ Stop(k) <= n
  <2>1. GoodSegment(bits, segments[k], Stop(k))
    BY <1>5 DEF BuildInv, Tiles
  <2>2. segments[k] \in Pieces
    BY <2>1 DEF GoodSegment
  <2>3. segments[k].first \in Nat
    BY <2>2, PiecesTyped
  <2> QED
    BY <2>1, <2>3 DEF GoodSegment
<1> HIDE DEF m
<1>7. n \in Nat /\ Frontier \in Nat
  BY <1>4, DataTyped DEF GoodCall, BuildInv
<1>8. m \in Nat /\ Pushed = m
  BY <1>5 DEF m
<1>9. \A k \in 1..m : Stop(k) <= Frontier
  <2> DEFINE T == {k \in 1..m : Stop(k) <= Frontier}
  <2>1. CASE m = 0
    BY <2>1
  <2>2. CASE m # 0
    <3>1. m \in T
      <4>1. Stop(m) = Frontier
        BY <1>8 DEF Stop
      <4> QED
        BY <1>7, <1>8, <2>2, <4>1
    <3>2. ASSUME NEW k \in 1 + 1..m, k \in T PROVE k - 1 \in T
      <4>1. k - 1 \in 1..m /\ k - 1 # m /\ (k - 1) + 1 = k /\ k \in 1..m
        BY <1>8
      <4>2. Stop(k - 1) = segments[k].first
        BY <1>8, <4>1 DEF Stop
      <4>3. segments[k].first <= Stop(k) /\ segments[k].first \in Nat /\ Stop(k) \in Nat /\ Stop(k) <= Frontier
        BY <1>6, <3>2, <4>1
      <4> QED
        BY <1>7, <4>1, <4>2, <4>3
    <3> HIDE DEF T
    <3>3. \A k \in 1..m : k \in T
      <4>1. m \in Nat /\ 1 \in Nat
        BY <1>8
      <4> QED
        BY <3>1, <3>2, <4>1, IntervalInductionDown
    <3> QED
      BY <3>3 DEF T
  <2> QED
    BY <2>1, <2>2
<1>10. ASSUME NEW k \in 1..m, NEW c \in {Head(todo)}, NEW l \in segments[k].first..Stop(k) - 1
       PROVE  l \in 0..n - 1 /\ l \notin Positions(c)
  <2>1. /\ segments[k].first \in Nat /\ Stop(k) \in Nat /\ Stop(k) <= n /\ Stop(k) <= Frontier
        /\ c.i = Frontier /\ c.j \in Nat
    BY <1>4, <1>6, <1>9 DEF GoodCall
  <2> QED
    BY <1>7, <2>1 DEF Positions
<1> QED
  BY <1>2, <1>4, <1>5, <1>6, <1>9, <1>10 DEF m

\* Constructing a segment, or trying to, disturbs none of the stored ones.
LEMMA StoredKept ==
  ASSUME ~AutoBpc, BuildInv, pc = "pushing", todo # <<>>, data' = data,
         bits' = WrittenBits(Head(todo)),
         NEW k \in 1..Len(segments), NEW s, s = segments[k], NEW stop, stop = Stop(k)
  PROVE  GoodSegment(bits, s, stop)'
<1>0. PICK c : c = Head(todo)
  OBVIOUS
<1>1. /\ GoodCall(c) /\ GoodSegment(bits, s, stop)
      /\ \A l \in s.first..stop - 1 : l \in 0..n - 1 /\ l \notin Positions(c)
  BY <1>0, HeadParts
<1>2. data \in Datasets /\ s.bpc = TBpc
  BY <1>1 DEF BuildInv, GoodSegment
<1>3. \A l \in s.first..stop - 1 : Field(s, l) \cap WrittenBits(c) = Field(s, l) \cap bits
  BY <1>1, <1>2, WrittenElsewhere
<1>4. GoodSegment(WrittenBits(c), s, stop)
  BY <1>1, <1>3, SegmentKept
<1>5. PICK written : written = bits'
  OBVIOUS
<1>6. GoodSegment(written, s, stop)'
  BY <1>0, <1>4, <1>5, SegmentFrozen
<1> QED
  BY <1>5, <1>6

LEMMA CallsFrozen ==
  ASSUME data' = data, NEW k, NEW c, c = todo'[k], GoodCall(c)
  PROVE  GoodCall(todo[k])'
  BY CallFrozen

LEMMA PushStep ==
  ASSUME ~AutoBpc, BuildInv, PushSegment
  PROVE  BuildInv'
<1>0. PICK c, m, l : c = Head(todo) /\ m = Len(segments) /\ l = Len(todo)
  OBVIOUS
<1>1. /\ pc = "pushing" /\ todo # <<>> /\ ~Throws(c) /\ segments' = Append(segments, Stored(c))
      /\ bits' = WrittenBits(c) /\ todo' = Tail(todo) /\ data' = data /\ path' = path /\ pc' = pc
  BY <1>0 DEF PushSegment
<1>2. /\ c = todo[1] /\ c \in CallRecords /\ GoodCall(c) /\ Frontier = c.i /\ Pushed = m /\ m \in Nat
      /\ l \in Nat \ {0} /\ DOMAIN todo = 1..l
  BY <1>0, <1>1, HeadParts
<1>3. GoodSegment(WrittenBits(c), Stored(c), c.j) /\ Stored(c).first = c.i
  BY <1>1, <1>2, CallStored DEF BuildInv
<1>4. /\ todo \in Seq(CallRecords)
      /\ \A k \in 1..l : GoodCall(todo[k]) /\ todo[k].j = IF k = l THEN n ELSE todo[k + 1].i
  BY <1>0, <1>2 DEF BuildInv, GoodCalls
<1>5. /\ todo' \in Seq(CallRecords) /\ Len(todo') = l - 1 /\ DOMAIN todo' = 1..l - 1
      /\ \A k \in 1..l - 1 : todo'[k] = todo[k + 1]
  BY <1>0, <1>1, <1>4, HeadAndTail
<1>6. /\ segments' \in Seq(Pieces) /\ Len(segments') = m + 1
      /\ segments'[m + 1] = Stored(c) /\ \A k \in 1..m : segments'[k] = segments[k]
  <2>1. Stored(c) \in Pieces /\ segments \in Seq(Pieces)
    BY <1>3 DEF GoodSegment, BuildInv
  <2> QED
    BY <1>0, <1>1, <2>1, Appended
<1>7. /\ n' = n /\ BitBound' = BitBound /\ n \in Nat
      /\ c.i \in Nat /\ c.j \in Nat /\ c.i <= c.j
  BY <1>1, <1>2, Frozen, DataTyped DEF BuildInv, GoodCall
<1>8. GoodCalls(todo)'
  <2>1. ASSUME NEW k \in 1..l - 1
        PROVE  GoodCall(todo[k])' /\ todo'[k].j = IF k = l - 1 THEN n ELSE todo'[k + 1].i
    <3>1. k + 1 \in 1..l /\ (k + 1 = l <=> k = l - 1) /\ (k # l - 1 => k + 1 \in 1..l - 1)
      BY <1>2
    <3>2. GoodCall(todo[k + 1]) /\ todo'[k] = todo[k + 1]
      BY <1>4, <1>5, <3>1
    <3>3. GoodCall(todo[k])'
      BY <1>1, <3>2, CallsFrozen
    <3>4. todo[k + 1].j = IF k + 1 = l THEN n ELSE todo[(k + 1) + 1].i
      BY <1>4, <3>1
    <3>5. k # l - 1 => todo'[k + 1] = todo[(k + 1) + 1]
      BY <1>5, <3>1
    <3> QED
      BY <3>1, <3>2, <3>3, <3>4, <3>5
  <2> QED
    BY <1>5, <1>7, <2>1 DEF GoodCalls, CallRecords
<1>9. Frontier' = c.j /\ Pushed' = m + 1
  <2>1. CASE l = 1
    <3>1. todo' = <<>>
      BY <1>5, <2>1
    <3>2. c.j = n
      BY <1>2, <1>4, <2>1
    <3> QED
      BY <1>1, <1>6, <1>7, <3>1, <3>2 DEF Frontier, Pushed
  <2>2. CASE l # 1
    <3>1. 1 \in 1..l - 1 /\ 1 \in 1..l
      BY <1>2, <2>2
    <3>2. todo' # <<>> /\ todo'[1] = todo[1 + 1]
      <4>1. Len(todo') >= 1
        BY <1>2, <1>5, <2>2
      <4> QED
        BY <1>5, <3>1, <4>1
    <3>3. c.j = todo[1 + 1].i
      BY <1>2, <1>4, <2>2, <3>1
    <3> QED
      BY <1>1, <1>6, <3>2, <3>3 DEF Frontier, Pushed
  <2> QED
    BY <2>1, <2>2
<1>10. /\ \A k \in 1..m : Stop(k)' = Stop(k)
       /\ Stop(m + 1)' = c.j
  <2>1. Stop(m + 1)' = c.j
    BY <1>9 DEF Stop
  <2>2. ASSUME NEW k \in 1..m PROVE Stop(k)' = Stop(k)
    <3>1. k # m + 1 /\ k \in Nat
      BY <1>2
    <3>2. Stop(k)' = segments'[k + 1].first
      BY <1>9, <3>1 DEF Stop
    <3>3. CASE k = m
      BY <1>2, <1>3, <1>6, <3>2, <3>3 DEF Stop
    <3>4. CASE k # m
      <4>1. k + 1 \in 1..m
        BY <1>2, <3>4
      <4> QED
        BY <1>2, <1>6, <3>2, <3>4, <4>1 DEF Stop
    <3> QED
      BY <3>3, <3>4
  <2> QED
    BY <2>1, <2>2
<1>11. Tiles'
  <2>1. ASSUME NEW k \in 1..m + 1 PROVE GoodSegment(bits, segments[k], Stop(k))'
    <3>1. CASE k \in 1..m
      <4>1. PICK s, stop : s = segments[k] /\ stop = Stop(k)
        OBVIOUS
      <4>2. GoodSegment(bits, s, stop)'
        BY <1>0, <1>1, <3>1, <4>1, StoredKept
      <4>3. segments'[k] = s /\ Stop(k)' = stop
        BY <1>6, <1>10, <3>1, <4>1
      <4> QED
        BY <4>2, <4>3
    <3>2. CASE k = m + 1
      <4>1. PICK s, stop, written : s = Stored(c) /\ stop = c.j /\ written = WrittenBits(c)
        OBVIOUS
      <4>2. GoodSegment(written, s, stop)'
        BY <1>1, <1>3, <4>1, SegmentFrozen
      <4>3. bits' = written /\ segments'[k] = s /\ Stop(k)' = stop
        BY <1>1, <1>6, <1>10, <3>2, <4>1
      <4> QED
        BY <4>2, <4>3
    <3> QED
      BY <1>2, <3>1, <3>2
  <2>2. segments'[1].first = 0
    <3>1. CASE m = 0
      <4>1. Frontier = 0
        BY <1>2, <3>1 DEF BuildInv, Tiles
      <4> QED
        BY <1>2, <1>3, <1>6, <3>1, <4>1
    <3>2. CASE m # 0
      <4>1. segments[1].first = 0 /\ 1 \in 1..m
        BY <1>2, <3>2 DEF BuildInv, Tiles
      <4> QED
        BY <1>6, <4>1
    <3> QED
      BY <3>1, <3>2
  <2>3. m + 1 # 0
    BY <1>2
  <2> QED
    BY <1>9, <2>1, <2>2, <2>3 DEF Tiles
<1>12. (Idle => Doomed)'
  <2>1. CASE Doomed
    <3>1. PICK k \in 1..l : todo[k].j = todo[k].i + 1 /\ Throws(todo[k])
      BY <1>2, <2>1 DEF Doomed
    <3>2. k # 1
      BY <1>1, <1>2, <3>1
    <3>3. k - 1 \in 1..l - 1 /\ (k - 1) + 1 = k
      BY <1>2, <3>2
    <3>4. todo'[k - 1] = todo[k] /\ k - 1 \in DOMAIN todo'
      BY <1>5, <3>3
    <3>5. Throws(todo[k - 1])'
      BY <1>1, <3>1, <3>4, CallFrozen
    <3> QED
      BY <3>1, <3>4, <3>5 DEF Doomed
  <2>2. CASE ~Doomed
    <3>1. ~Idle
      BY <2>2 DEF BuildInv
    <3>2. \A k \in 1..l - 1 : todo'[k].i # todo'[k].j
      <4>1. \A k \in 1..l - 1 : k + 1 \in 1..l
        BY <1>2
      <4> QED
        BY <1>2, <1>5, <3>1, <4>1 DEF Idle
    <3>3. ASSUME NEW k \in 1..m + 1 PROVE segments'[k].first # Stop(k)'
      <4>1. CASE k \in 1..m
        BY <1>2, <1>6, <1>10, <3>1, <4>1 DEF Idle
      <4>2. CASE k = m + 1
        <5>1. c.i # c.j
          <6>1. 1 \in DOMAIN todo
            BY <1>2
          <6> QED
            BY <1>2, <3>1, <6>1 DEF Idle
        <5> QED
          BY <1>3, <1>6, <1>10, <4>2, <5>1
      <4> QED
        BY <1>2, <4>1, <4>2
    <3> QED
      BY <1>5, <1>9, <3>2, <3>3 DEF Idle
  <2> QED
    BY <2>1, <2>2
<1>13. bits' \subseteq 0..BitBound - 1
  BY <1>1, <1>2, WrittenWithin DEF BuildInv
<1>14. pc' # "built"
  BY <1>1
<1> QED
  BY <1>1, <1>6, <1>7, <1>8, <1>11, <1>12, <1>13, <1>14 DEF BuildInv

LEMMA SplitStep ==
  ASSUME ~AutoBpc, BuildInv, SplitSegment
  PROVE  BuildInv'
<1>0. PICK c, m, l : c = Head(todo) /\ m = Len(segments) /\ l = Len(todo)
  OBVIOUS
<1>1. /\ pc = "pushing" /\ todo # <<>> /\ Throws(c) /\ c.depth < StackLimit
      /\ segments' = segments /\ bits' = WrittenBits(c) /\ todo' = Halves(c) \o Tail(todo)
      /\ data' = data /\ path' = path /\ pc' = pc
  BY <1>0 DEF SplitSegment
<1>2. /\ c = todo[1] /\ c \in CallRecords /\ GoodCall(c) /\ Frontier = c.i /\ Pushed = m /\ m \in Nat
      /\ l \in Nat \ {0} /\ DOMAIN todo = 1..l
  BY <1>0, <1>1, HeadParts
<1>3. PICK a, b \in CallRecords :
        /\ Halves(c) = <<a, b>> /\ GoodCall(a) /\ GoodCall(b)
        /\ a.i = c.i /\ a.j = b.i /\ b.j = c.j
        /\ c.j = c.i + 1 /\ Throws(c) => b.j = b.i + 1 /\ Throws(b)
        /\ c.i + 2 <= c.j => a.i < a.j /\ b.i < b.j
  BY <1>1, <1>2, HalvesGood DEF BuildInv
<1>4. /\ todo \in Seq(CallRecords)
      /\ \A k \in 1..l : GoodCall(todo[k]) /\ todo[k].j = IF k = l THEN n ELSE todo[k + 1].i
  BY <1>0, <1>2 DEF BuildInv, GoodCalls
<1>5. /\ todo' \in Seq(CallRecords) /\ Len(todo') = l + 1 /\ DOMAIN todo' = 1..l + 1
      /\ todo'[1] = a /\ todo'[2] = b /\ \A k \in 2..l : todo'[k + 1] = todo[k]
  <2>1. todo' = <<a, b>> \o Tail(todo)
    BY <1>1, <1>3
  <2>2. PICK t : t = <<a, b>> \o Tail(todo)
    OBVIOUS
  <2>3. /\ t \in Seq(CallRecords) /\ Len(t) = Len(todo) + 1 /\ DOMAIN t = 1..Len(todo) + 1
        /\ t[1] = a /\ t[2] = b /\ \A k \in 2..Len(todo) : t[k + 1] = todo[k]
    BY <1>1, <1>4, <2>2, HeadReplaced
  <2> QED
    BY <1>0, <2>1, <2>2, <2>3
<1>6. /\ n' = n /\ BitBound' = BitBound /\ n \in Nat
      /\ c.i \in Nat /\ c.j \in Nat /\ c.i <= c.j
  BY <1>1, <1>2, Frozen, DataTyped DEF BuildInv, GoodCall
<1>7. ASSUME NEW k \in 1..l + 1 PROVE k = 1 \/ k = 2 \/ \E i \in 2..l : k = i + 1
  <2>1. k \in Nat /\ (k # 1 /\ k # 2 => k - 1 \in 2..l /\ k = (k - 1) + 1)
    BY <1>2
  <2> QED
    BY <2>1
<1>8. GoodCalls(todo)'
  <2>1. ASSUME NEW k \in 1..l + 1
        PROVE  GoodCall(todo[k])' /\ todo'[k].j = IF k = l + 1 THEN n ELSE todo'[k + 1].i
    <3>1. CASE k = 1
      <4>1. 1 # l + 1 /\ 1 + 1 = 2
        BY <1>2
      <4>2. GoodCall(todo[k])'
        BY <1>1, <1>3, <1>5, <3>1, CallsFrozen
      <4> QED
        BY <1>3, <1>5, <3>1, <4>1, <4>2
    <3>2. CASE k = 2
      <4>1. GoodCall(todo[k])'
        BY <1>1, <1>3, <1>5, <3>2, CallsFrozen
      <4>2. CASE l = 1
        <5>1. c.j = n /\ 1 + 1 = 2
          BY <1>2, <1>4, <4>2
        <5> QED
          BY <1>3, <1>5, <3>2, <4>1, <4>2, <5>1
      <4>3. CASE l # 1
        <5>1. 1 \in 1..l /\ 1 + 1 \in 2..l /\ 2 # l + 1 /\ 1 + 1 = 2
          BY <1>2, <4>3
        <5>2. c.j = todo[1 + 1].i /\ todo'[2 + 1] = todo[2]
          BY <1>2, <1>4, <1>5, <4>3, <5>1
        <5> QED
          BY <1>3, <1>5, <3>2, <4>1, <5>1, <5>2
      <4> QED
        BY <4>2, <4>3
    <3>3. CASE \E i \in 2..l : k = i + 1
      <4>1. PICK i \in 2..l : k = i + 1
        BY <3>3
      <4>2. i \in 1..l /\ (k = l + 1 <=> i = l) /\ (i # l => i + 1 \in 2..l)
        BY <1>2, <4>1
      <4>3. GoodCall(todo[i]) /\ todo'[k] = todo[i] /\ todo[i].j = IF i = l THEN n ELSE todo[i + 1].i
        BY <1>4, <1>5, <4>1, <4>2
      <4>4. GoodCall(todo[k])'
        BY <1>1, <4>3, CallsFrozen
      <4>5. i # l => todo'[k + 1] = todo[i + 1]
        BY <1>5, <4>1, <4>2
      <4> QED
        BY <4>2, <4>3, <4>4, <4>5
    <3> QED
      BY <1>7, <3>1, <3>2, <3>3
  <2> QED
    BY <1>5, <1>6, <2>1 DEF GoodCalls, CallRecords
<1>9. Frontier' = Frontier /\ Pushed' = m
  <2>1. todo' # <<>>
    <3>1. Len(todo') >= 1
      BY <1>2, <1>5
    <3> QED
      BY <1>5, <3>1
  <2>2. Pushed' = m
    BY <1>0, <1>1 DEF Pushed
  <2> QED
    BY <1>2, <1>3, <1>5, <2>1, <2>2 DEF Frontier
<1>10. ASSUME NEW k PROVE Stop(k)' = Stop(k)
  BY <1>1, <1>2, <1>9 DEF Stop
<1>11. Tiles'
  <2>1. ASSUME NEW k \in 1..m PROVE GoodSegment(bits, segments[k], Stop(k))'
    <3>1. PICK s, stop : s = segments[k] /\ stop = Stop(k)
      OBVIOUS
    <3>2. GoodSegment(bits, s, stop)'
      BY <1>0, <1>1, <3>1, StoredKept
    <3>3. segments'[k] = s /\ Stop(k)' = stop
      BY <1>1, <1>10, <3>1
    <3> QED
      BY <3>2, <3>3
  <2> QED
    BY <1>1, <1>2, <1>9, <2>1 DEF Tiles, BuildInv
<1>12. (Idle => Doomed)'
  <2>1. CASE \E k \in 2..l : todo[k].j = todo[k].i + 1 /\ Throws(todo[k])
    <3>1. PICK k \in 2..l : todo[k].j = todo[k].i + 1 /\ Throws(todo[k])
      BY <2>1
    <3>2. todo'[k + 1] = todo[k] /\ k + 1 \in DOMAIN todo'
      <4>1. k + 1 \in 1..l + 1
        BY <1>2
      <4> QED
        BY <1>5, <4>1
    <3>3. Throws(todo[k + 1])'
      BY <1>1, <3>1, <3>2, CallFrozen
    <3> QED
      BY <3>1, <3>2, <3>3 DEF Doomed
  <2>2. CASE c.j = c.i + 1
    <3>1. 2 \in DOMAIN todo'
      BY <1>2, <1>5
    <3>2. Throws(todo[2])'
      BY <1>1, <1>3, <1>5, <2>2, CallFrozen
    <3> QED
      BY <1>1, <1>3, <1>5, <2>2, <3>1, <3>2 DEF Doomed
  <2>3. CASE c.j # c.i + 1 /\ ~(\E k \in 2..l : todo[k].j = todo[k].i + 1 /\ Throws(todo[k]))
    <3>1. ~Doomed
      <4>1. \A k \in 1..l : k = 1 \/ k \in 2..l
        OBVIOUS
      <4> QED
        BY <1>2, <2>3, <4>1 DEF Doomed
    <3>2. ~Idle
      BY <3>1 DEF BuildInv
    <3>3. c.i # c.j
      <4>1. 1 \in DOMAIN todo
        BY <1>2
      <4> QED
        BY <1>2, <3>2, <4>1 DEF Idle
    <3>4. c.i + 2 <= c.j
      BY <1>6, <2>3, <3>3
    <3>5. a.i # a.j /\ b.i # b.j
      <4>1. a.i < a.j /\ b.i < b.j /\ a.i \in Nat /\ a.j \in Nat /\ b.i \in Nat /\ b.j \in Nat
        BY <1>3, <3>4 DEF GoodCall
      <4> QED
        BY <4>1
    <3>6. ASSUME NEW k \in 1..l + 1 PROVE todo'[k].i # todo'[k].j
      <4>1. CASE \E i \in 2..l : k = i + 1
        <5>1. PICK i \in 2..l : k = i + 1
          BY <4>1
        <5>2. i \in 1..l
          BY <1>2
        <5> QED
          BY <1>2, <1>5, <3>2, <5>1, <5>2 DEF Idle
      <4> QED
        BY <1>5, <1>7, <3>5, <4>1
    <3>7. \A k \in 1..m : segments'[k].first # Stop(k)'
      BY <1>1, <1>2, <1>10, <3>2 DEF Idle
    <3> QED
      BY <1>5, <1>9, <3>6, <3>7 DEF Idle
  <2> QED
    BY <2>1, <2>2, <2>3
<1>13. bits' \subseteq 0..BitBound - 1
  BY <1>1, <1>2, WrittenWithin DEF BuildInv
<1>14. pc' # "built"
  BY <1>1
<1> QED
  BY <1>1, <1>6, <1>8, <1>11, <1>12, <1>13, <1>14 DEF BuildInv

\* The same data, calls and segments, in another phase but "built".
LEMMA PhaseStep ==
  ASSUME BuildInv, data' = data, path' = path, todo' = todo, segments' = segments, bits' = bits,
         \/ pc' = pc
         \/ pc = "pushing" /\ pc' = "overflow"
  PROVE  BuildInv'
<1>1. n' = n /\ BitBound' = BitBound
  BY Frozen
<1>2. Frontier' = Frontier /\ Pushed' = Pushed
  BY <1>1 DEF Frontier, Pushed
<1>3. \A k : Stop(k)' = Stop(k)
  BY <1>2 DEF Stop
<1>4. Tiles'
  <2>1. ASSUME NEW k \in 1..Pushed PROVE GoodSegment(bits, segments[k], Stop(k))'
    <3>1. PICK s, stop, written : s = segments[k] /\ stop = Stop(k) /\ written = bits
      OBVIOUS
    <3>2. GoodSegment(written, s, stop)
      BY <3>1 DEF BuildInv, Tiles
    <3>3. GoodSegment(written, s, stop)'
      BY <3>2, SegmentFrozen
    <3> QED
      BY <1>3, <3>1, <3>3
  <2> QED
    BY <1>2, <2>1 DEF Tiles, BuildInv
<1>5. GoodCalls(todo)'
  <2>1. ASSUME NEW k \in DOMAIN todo PROVE GoodCall(todo[k])'
    <3>1. PICK c : c = todo[k]
      OBVIOUS
    <3>2. GoodCall(c)
      BY <3>1 DEF BuildInv, GoodCalls
    <3> QED
      BY <3>1, <3>2, CallsFrozen
  <2> QED
    BY <1>1, <2>1 DEF GoodCalls, BuildInv, CallRecords
<1>6. Idle' <=> Idle
  BY <1>2, <1>3 DEF Idle
<1>7. Doomed => Doomed'
  <2> SUFFICES ASSUME Doomed PROVE Doomed'
    OBVIOUS
  <2>1. PICK k \in DOMAIN todo : todo[k].j = todo[k].i + 1 /\ Throws(todo[k])
    BY DEF Doomed
  <2>2. PICK c : c = todo[k]
    OBVIOUS
  <2>3. Throws(c)'
    BY <2>1, <2>2, CallFrozen
  <2> QED
    BY <2>1, <2>2, <2>3 DEF Doomed
<1>8. Sentinel' = Sentinel
  BY <1>1 DEF Sentinel, AutoBpc
<1> QED
  BY <1>1, <1>4, <1>5, <1>6, <1>7, <1>8 DEF BuildInv

LEMMA SentinelTyped ==
  ASSUME ~AutoBpc, data \in Datasets
  PROVE  /\ Sentinel \in Pieces /\ Sentinel.bpc = TBpc /\ Sentinel.first = n
         /\ Sentinel.exponent = 0 /\ Sentinel.significand = 0 /\ Sentinel.firstCorrection = 0
         /\ Sentinel.offset = 0 /\ Sentinel.intercept = -1
<1> DEFINE B == 2 ^ KeyBits  H == 2 ^ (KeyBits - 1)
<1>1. H \in Nat \ {0} /\ B = 2 * H
  BY KeyPowers
<1>2. Signed(B - 1) = -1
  <2> HIDE DEF B, H
  <2>1. (B - 1) % B = B - 1 /\ ~(B - 1 < H) /\ (B - 1) - B = -1
    BY <1>1
  <2>2. Signed(B - 1) = IF (B - 1) % B < H THEN (B - 1) % B ELSE ((B - 1) % B) - B
    BY DEF Signed, Wrapped, B, H
  <2> QED
    BY <2>1, <2>2
<1>3. /\ 0 \in 0..2 ^ KeyBits - 1 /\ 0 \in 0..2 ^ ExponentBits - 1
      /\ 0 \in 0..2 ^ SignificandBits - 1 /\ TBpc \in Nat /\ n \in Nat
  BY WordPowers, DataTyped, LaVectorAssumption
<1>4. -1 \in -H..H - 1
  <2> HIDE DEF H
  <2> QED
    BY <1>1
<1>5. Sentinel = [bpc |-> TBpc, offset |-> 0, firstCorrection |-> 0, first |-> n,
                  intercept |-> -1, exponent |-> 0, significand |-> 0]
  BY <1>2 DEF Sentinel
<1> QED
  BY <1>3, <1>4, <1>5 DEF Pieces

LEMMA FinishStep ==
  ASSUME ~AutoBpc, BuildInv, FinishBuild
  PROVE  BuildInv'
<1>0. PICK m, e : m = Len(segments) /\ e = Sentinel
  OBVIOUS
<1>1. /\ pc = "pushing" /\ todo = <<>> /\ segments' = Append(segments, e) /\ pc' = "built"
      /\ data' = data /\ path' = path /\ todo' = todo /\ bits' = bits
  BY <1>0 DEF FinishBuild
<1>2. e \in Pieces /\ e.first = n
  BY <1>0, SentinelTyped DEF BuildInv
<1>3. /\ segments' \in Seq(Pieces) /\ Len(segments') = m + 1 /\ m \in Nat
      /\ segments'[m + 1] = e /\ \A k \in 1..m : segments'[k] = segments[k]
  BY <1>0, <1>1, <1>2, Appended DEF BuildInv
<1>4. /\ n' = n /\ BitBound' = BitBound /\ Frontier = n /\ Frontier' = n /\ Pushed = m /\ Pushed' = m
  <2>1. n' = n /\ BitBound' = BitBound
    BY <1>1, Frozen
  <2>2. (m + 1) - 1 = m
    BY <1>3
  <2> QED
    BY <1>0, <1>1, <1>3, <2>1, <2>2 DEF Frontier, Pushed
<1>5. ASSUME NEW k \in 1..m PROVE Stop(k)' = Stop(k)
  <2>1. CASE k = m
    BY <1>4, <2>1 DEF Stop
  <2>2. CASE k # m
    <3>1. k + 1 \in 1..m
      BY <1>3, <2>2
    <3> QED
      BY <1>3, <1>4, <2>2, <3>1 DEF Stop
  <2> QED
    BY <2>1, <2>2
<1>6. Tiles'
  <2>1. ASSUME NEW k \in 1..m PROVE GoodSegment(bits, segments[k], Stop(k))'
    <3>1. PICK s, stop, written : s = segments[k] /\ stop = Stop(k) /\ written = bits
      OBVIOUS
    <3>2. GoodSegment(written, s, stop)
      BY <1>4, <3>1 DEF BuildInv, Tiles
    <3>3. GoodSegment(written, s, stop)'
      BY <1>1, <3>2, SegmentFrozen
    <3> QED
      BY <1>1, <1>3, <1>5, <3>1, <3>3
  <2>2. IF m = 0 THEN Frontier' = 0 ELSE segments'[1].first = 0
    <3>1. IF m = 0 THEN Frontier = 0 ELSE segments[1].first = 0
      BY <1>4 DEF BuildInv, Tiles
    <3>2. m # 0 => 1 \in 1..m
      BY <1>3
    <3> QED
      BY <1>3, <1>4, <3>1, <3>2
  <2> QED
    BY <1>4, <2>1, <2>2 DEF Tiles
<1>7. GoodCalls(todo)'
  <2>1. todo' = <<>>
    BY <1>1
  <2> QED
    BY <2>1 DEF GoodCalls
<1>8. ~Doomed
  BY <1>1 DEF Doomed
<1>9. ~Idle
  BY <1>8 DEF BuildInv
<1>10. ~Idle'
  <2>1. \A k \in 1..m : segments'[k].first # Stop(k)'
    BY <1>3, <1>4, <1>5, <1>9 DEF Idle
  <2>2. todo' = <<>>
    BY <1>1
  <2> QED
    BY <1>4, <2>1, <2>2 DEF Idle
<1>11. segments' # <<>> /\ segments'[Len(segments')] = Sentinel'
  <2>1. Sentinel' = e
    BY <1>0, <1>4 DEF Sentinel, AutoBpc
  <2>2. Len(segments') >= 1
    BY <1>3
  <2> QED
    BY <1>3, <2>1, <2>2
<1> QED
  BY <1>1, <1>3, <1>4, <1>6, <1>7, <1>10, <1>11 DEF BuildInv

LEMMA BuildPreserved ==
  ASSUME ~AutoBpc, BuildInv, [Build]_buildVars
  PROVE  BuildInv'
<1>1. CASE PushSegment
  BY <1>1, PushStep
<1>2. CASE SplitSegment
  BY <1>2, SplitStep
<1>3. CASE OverflowStack
  BY <1>3, PhaseStep DEF OverflowStack
<1>4. CASE FinishBuild
  BY <1>4, FinishStep
<1>5. CASE UNCHANGED buildVars
  BY <1>5, PhaseStep DEF buildVars
<1> QED
  BY <1>1, <1>2, <1>3, <1>4, <1>5 DEF Build

-----------------------------------------------------------------------------
(* The depth of the recursion.                                             *)

\* A call has the lines of the canonical segment it was split from, and its
\* positions are among those of that segment.
SplitFrom(c) ==
  \E k \in DOMAIN path :
    /\ c.cs = CopyFrom(path[k].cs, c.i)
    /\ path[k].cs.first <= c.i /\ c.j <= PathEnd(path, k)

\* Each call halves the positions of the one it was made by.
Short(c) ==
  \/ c.j - c.i <= 1
  \/ c.depth - 1 < n /\ (c.j - c.i - 1) * 2 ^ (c.depth - 1) < n

CallsDescend == \A k \in DOMAIN todo : SplitFrom(todo[k]) /\ Short(todo[k])

LEMMA HalfShort ==
  ASSUME NEW L \in Nat, L >= 2, NEW M \in Nat, 2 * M <= L + 1, M >= 2,
         NEW P \in Nat \ {0}, NEW N \in Nat, (L - 1) * P < N
  PROVE  (M - 1) * (2 * P) < N /\ 2 * P < N
<1>1. P * (2 * (M - 1)) <= P * (L - 1)
  BY ProductMonotonic
<1>2. (M - 1) * (2 * P) = P * (2 * (M - 1)) /\ (L - 1) * P = P * (L - 1)
  BY Z3
<1>3. (2 * P) * 1 <= (2 * P) * (M - 1)
  BY ProductMonotonic
<1>4. (2 * P) * (M - 1) = (M - 1) * (2 * P) /\ (2 * P) * 1 = 2 * P
  BY Z3
<1>5. P * (2 * (M - 1)) \in Int /\ P * (L - 1) \in Int
  BY Z3
<1> QED
  BY <1>1, <1>2, <1>3, <1>4, <1>5

LEMMA ShortHalves ==
  ASSUME data \in Datasets, NEW c, GoodCall(c), Short(c), NEW d,
         d.i \in Nat, d.j \in Nat, d.depth = c.depth + 1, d.i <= d.j,
         2 * (d.j - d.i) <= c.j - c.i + 1
  PROVE  Short(d)
<1>1. PICK L, M, N, e : L = c.j - c.i /\ M = d.j - d.i /\ N = n /\ e = c.depth
  OBVIOUS
<1>2. /\ L \in Nat /\ M \in Nat /\ N \in Nat /\ e \in Nat \ {0} /\ 2 * M <= L + 1
      /\ N + 2 \in Powers
  <2>1. c.i \in Nat /\ c.j \in Nat /\ c.i <= c.j /\ c.depth \in Nat \ {0}
    BY DEF GoodCall
  <2>2. PICK i, j, k, l \in Nat : i = c.i /\ j = c.j /\ k = d.i /\ l = d.j
    BY <2>1
  <2>3. L = j - i /\ M = l - k /\ i <= j /\ k <= l /\ 2 * (l - k) <= j - i + 1
    BY <1>1, <2>1, <2>2
  <2>4. N \in Nat /\ N + 2 \in Powers
    BY <1>1, DataTyped
  <2> QED
    BY <1>1, <2>1, <2>2, <2>3, <2>4
<1>3. CASE M <= 1
  BY <1>1, <1>3 DEF Short
<1>4. CASE ~(M <= 1)
  <2>1. L >= 2 /\ M >= 2 /\ ~(L <= 1)
    BY <1>2, <1>4
  <2>2. e - 1 < N /\ (L - 1) * 2 ^ (e - 1) < N
    BY <1>1, <2>1 DEF Short
  <2> DEFINE pow == PowersUpTo(N + 2)
  <2>3. Doubles(pow, N + 2) /\ \A k \in 0..(N + 2) + 1 : pow[k] = 2 ^ k
    BY <1>2, PowersDouble
  <2> HIDE DEF pow
  <2>4. e - 1 \in 0..N + 2 /\ e - 1 \in 0..(N + 2) + 1 /\ e \in 0..(N + 2) + 1 /\ (e - 1) + 1 = e
    BY <1>2, <2>2
  <2>5. pow[e] = 2 * pow[e - 1] /\ pow[e - 1] \in Nat \ {0} /\ pow[e] > e
    <3>1. pow[(e - 1) + 1] = 2 * pow[e - 1]
      BY <2>3, <2>4 DEF Doubles
    <3> QED
      BY <1>2, <2>3, <2>4, <3>1, PowersGrow
  <2>6. (M - 1) * pow[e] < N /\ pow[e] < N
    <3>1. PICK P \in Nat \ {0} : P = pow[e - 1]
      BY <2>5
    <3>2. (L - 1) * P < N
      BY <2>2, <2>3, <2>4, <3>1
    <3>3. (M - 1) * (2 * P) < N /\ 2 * P < N
      BY <1>2, <2>1, <3>2, HalfShort
    <3> QED
      BY <2>5, <3>1, <3>3
  <2>7. e < N
    <3>1. PICK Q \in Nat : Q = pow[e]
      BY <2>5
    <3> QED
      BY <1>2, <2>5, <2>6, <3>1
  <2>8. d.depth - 1 = e
    BY <1>1, <1>2
  <2>9. pow[e] = 2 ^ e
    BY <2>3, <2>4
  <2> QED
    BY <1>1, <2>6, <2>7, <2>8, <2>9 DEF Short
<1> QED
  BY <1>3, <1>4

\* The calls that two halves make.
LEMMA HalvesDescend ==
  ASSUME ~AutoBpc, data \in Datasets, GoodPath(data, path),
         NEW c, c \in CallRecords, GoodCall(c), SplitFrom(c), Short(c),
         NEW d, d \in {Halves(c)[1], Halves(c)[2]}
  PROVE  SplitFrom(d) /\ Short(d)
<1> DEFINE half == (c.i + c.j) \div 2
<1>1. c.i \in Nat /\ c.j \in Nat /\ c.i <= c.j
  BY DEF GoodCall
<1>2. /\ half \in Nat /\ c.i <= half /\ half <= c.j
      /\ 2 * (half - c.i) <= c.j - c.i + 1 /\ 2 * (c.j - half) <= c.j - c.i + 1
  BY <1>1
<1>3. \/ d = Call(c.cs, c.bpc, c.offset, c.i, half, c.depth + 1)
      \/ d = Call(CopyFrom(c.cs, half), c.bpc, Wrapped(c.offset + half * c.bpc), half, c.j,
                  c.depth + 1)
  BY DEF Halves
<1> HIDE DEF half
<1>4. PICK k \in DOMAIN path :
        /\ c.cs = CopyFrom(path[k].cs, c.i)
        /\ path[k].cs.first <= c.i /\ c.j <= PathEnd(path, k)
  BY DEF SplitFrom
<1>5. path[k].cs \in SegmentRecords /\ path[k].cs.first \in Nat /\ PathEnd(path, k) \in Nat
  BY PathParts
<1>6. CopyFrom(c.cs, half) = CopyFrom(path[k].cs, half)
  <2> DEFINE s == path[k].cs
  <2>1. s = [first |-> s.first, rectangle |-> s.rectangle]
    BY <1>5 DEF SegmentRecords
  <2> HIDE DEF s
  <2>2. \A x : CopyFrom(s, x) = [first |-> x, rectangle |-> s.rectangle]
    BY <2>1 DEF CopyFrom
  <2>3. c.cs = [first |-> c.i, rectangle |-> s.rectangle]
    BY <1>4, <2>2 DEF s
  <2>4. CopyFrom(c.cs, half) = [first |-> half, rectangle |-> s.rectangle]
    BY <2>3 DEF CopyFrom
  <2> QED
    BY <2>2, <2>4 DEF s
<1>7. CASE d = Call(c.cs, c.bpc, c.offset, c.i, half, c.depth + 1)
  <2>1. d.cs = c.cs /\ d.i = c.i /\ d.j = half /\ d.depth = c.depth + 1
    BY <1>7 DEF Call
  <2>2. Short(d)
    BY <1>1, <1>2, <2>1, ShortHalves
  <2>3. d.cs = CopyFrom(path[k].cs, d.i) /\ path[k].cs.first <= d.i /\ d.j <= PathEnd(path, k)
    BY <1>1, <1>2, <1>4, <1>5, <2>1
  <2> QED
    BY <2>2, <2>3 DEF SplitFrom
<1>8. CASE d = Call(CopyFrom(c.cs, half), c.bpc, Wrapped(c.offset + half * c.bpc), half, c.j,
                    c.depth + 1)
  <2>1. d.cs = CopyFrom(c.cs, half) /\ d.i = half /\ d.j = c.j /\ d.depth = c.depth + 1
    BY <1>8 DEF Call
  <2>2. Short(d)
    BY <1>1, <1>2, <2>1, ShortHalves
  <2>3. d.cs = CopyFrom(path[k].cs, d.i) /\ path[k].cs.first <= d.i /\ d.j <= PathEnd(path, k)
    BY <1>1, <1>2, <1>4, <1>5, <1>6, <2>1
  <2> QED
    BY <2>2, <2>3 DEF SplitFrom
<1> QED
  BY <1>3, <1>7, <1>8

LEMMA DescentInitially ==
  ASSUME ~AutoBpc, BuildInit
  PROVE  CallsDescend
<1>1. data \in Datasets /\ todo = Calls(path) /\ GoodPath(data, path)
  BY BuildInitially DEF BuildInit, BuildInv
<1>2. SUFFICES ASSUME NEW k \in DOMAIN path PROVE SplitFrom(todo[k]) /\ Short(todo[k])
  BY <1>1 DEF Calls, CallsDescend
<1>3. PICK c : c = todo[k]
  OBVIOUS
<1>4. c.cs = path[k].cs /\ c.i = path[k].cs.first /\ c.j = PathEnd(path, k) /\ c.depth = 1
  BY <1>1, <1>3 DEF Calls, Call
<1>5. /\ path[k].cs \in SegmentRecords /\ path[k].cs.first \in Nat /\ PathEnd(path, k) \in Nat
      /\ path[k].cs.first < PathEnd(path, k) /\ PathEnd(path, k) <= n /\ n \in Nat \ {0}
  BY <1>1, PathParts, DataTyped
<1>6. CopyFrom(path[k].cs, path[k].cs.first) = path[k].cs
  BY <1>5 DEF CopyFrom, SegmentRecords
<1>7. SplitFrom(c)
  <2>1. c.cs = CopyFrom(path[k].cs, c.i) /\ path[k].cs.first <= c.i /\ c.j <= PathEnd(path, k)
    BY <1>4, <1>5, <1>6
  <2> QED
    BY <2>1 DEF SplitFrom
<1>8. Short(c)
  <2>1. PICK F, E, N : F = path[k].cs.first /\ E = PathEnd(path, k) /\ N = n
    OBVIOUS
  <2>2. 1 - 1 < N /\ (E - F - 1) * 1 < N
    BY <1>5, <2>1
  <2>3. 2 ^ (1 - 1) = 1
    OBVIOUS
  <2> QED
    BY <1>4, <2>1, <2>2, <2>3 DEF Short
<1> QED
  BY <1>3, <1>7, <1>8

LEMMA DescentFrozen ==
  ASSUME data' = data, path' = path, NEW c
  PROVE  (SplitFrom(c)' <=> SplitFrom(c)) /\ (Short(c)' <=> Short(c))
BY DEF SplitFrom, Short, PathEnd, n

LEMMA DescentPreserved ==
  ASSUME ~AutoBpc, BuildInv, CallsDescend, [Build]_buildVars
  PROVE  CallsDescend'
<1>1. CASE PushSegment
  <2>1. todo # <<>> /\ todo' = Tail(todo) /\ data' = data /\ path' = path
    BY <1>1 DEF PushSegment
  <2>2. PICK l : l = Len(todo)
    OBVIOUS
  <2>3. todo \in Seq(CallRecords)
    BY DEF BuildInv, GoodCalls
  <2>4. /\ l \in Nat \ {0} /\ DOMAIN todo = 1..l /\ DOMAIN todo' = 1..l - 1
        /\ \A k \in 1..l - 1 : todo'[k] = todo[k + 1]
    BY <2>1, <2>2, <2>3, HeadAndTail
  <2>5. ASSUME NEW k \in 1..l - 1 PROVE (SplitFrom(todo[k]) /\ Short(todo[k]))'
    <3>1. PICK c : c = todo[k + 1]
      OBVIOUS
    <3>2. k + 1 \in 1..l
      BY <2>4
    <3>3. SplitFrom(c) /\ Short(c) /\ todo'[k] = c
      BY <2>4, <3>1, <3>2 DEF CallsDescend
    <3>4. SplitFrom(c)' /\ Short(c)'
      BY <2>1, <3>3, DescentFrozen
    <3> QED
      BY <3>3, <3>4
  <2> QED
    BY <2>4, <2>5 DEF CallsDescend
<1>2. CASE SplitSegment
  <2>1. PICK c, l : c = Head(todo) /\ l = Len(todo)
    OBVIOUS
  <2>2. /\ todo # <<>> /\ todo' = Halves(c) \o Tail(todo) /\ data' = data /\ path' = path
        /\ pc = "pushing" /\ c.depth < StackLimit
    BY <1>2, <2>1 DEF SplitSegment
  <2>3. /\ c = todo[1] /\ c \in CallRecords /\ GoodCall(c)
        /\ l \in Nat \ {0} /\ DOMAIN todo = 1..l /\ todo \in Seq(CallRecords)
        /\ data \in Datasets /\ GoodPath(data, path)
    BY <2>1, <2>2, HeadParts DEF BuildInv, GoodCalls
  <2>4. PICK a, b \in CallRecords : Halves(c) = <<a, b>>
    BY <2>2, <2>3, HalvesGood
  <2>5. /\ DOMAIN todo' = 1..l + 1
        /\ todo'[1] = a /\ todo'[2] = b /\ \A k \in 2..l : todo'[k + 1] = todo[k]
    <3>1. todo' = <<a, b>> \o Tail(todo)
      BY <2>2, <2>4
    <3>2. PICK t : t = <<a, b>> \o Tail(todo)
      OBVIOUS
    <3>3. /\ DOMAIN t = 1..Len(todo) + 1
          /\ t[1] = a /\ t[2] = b /\ \A k \in 2..Len(todo) : t[k + 1] = todo[k]
      BY <2>2, <2>3, <3>2, HeadReplaced
    <3> QED
      BY <2>1, <3>1, <3>2, <3>3
  <2>6. SplitFrom(c) /\ Short(c)
    <3>1. 1 \in 1..l
      BY <2>3
    <3> QED
      BY <2>3, <3>1 DEF CallsDescend
  <2>7. ASSUME NEW d \in {a, b} PROVE SplitFrom(d)' /\ Short(d)'
    <3>1. d \in {Halves(c)[1], Halves(c)[2]}
      BY <2>4
    <3>2. SplitFrom(d) /\ Short(d)
      BY <2>3, <2>6, <3>1, HalvesDescend
    <3> QED
      BY <2>2, <3>2, DescentFrozen
  <2>8. ASSUME NEW k \in 1..l + 1 PROVE (SplitFrom(todo[k]) /\ Short(todo[k]))'
    <3>1. k = 1 \/ k = 2 \/ (k - 1 \in 2..l /\ (k - 1) + 1 = k)
      BY <2>3
    <3>2. CASE k = 1 \/ k = 2
      BY <2>5, <2>7, <3>2
    <3>3. CASE k - 1 \in 2..l /\ (k - 1) + 1 = k
      <4>1. PICK d : d = todo[k - 1]
        OBVIOUS
      <4>2. k - 1 \in 1..l
        BY <2>3, <3>3
      <4>3. SplitFrom(d) /\ Short(d) /\ todo'[k] = d
        BY <2>3, <2>5, <3>3, <4>1, <4>2 DEF CallsDescend
      <4>4. SplitFrom(d)' /\ Short(d)'
        BY <2>2, <4>3, DescentFrozen
      <4> QED
        BY <4>3, <4>4
    <3> QED
      BY <3>1, <3>2, <3>3
  <2> QED
    BY <2>5, <2>8 DEF CallsDescend
<1>3. CASE OverflowStack \/ FinishBuild \/ UNCHANGED buildVars
  <2>1. todo' = todo /\ data' = data /\ path' = path
    BY <1>3 DEF OverflowStack, FinishBuild, buildVars
  <2>2. ASSUME NEW k \in DOMAIN todo PROVE (SplitFrom(todo[k]) /\ Short(todo[k]))'
    <3>1. PICK c : c = todo[k]
      OBVIOUS
    <3>2. SplitFrom(c) /\ Short(c)
      BY <3>1 DEF CallsDescend
    <3>3. SplitFrom(c)' /\ Short(c)'
      BY <2>1, <3>2, DescentFrozen
    <3> QED
      BY <2>1, <3>1, <3>3
  <2> QED
    BY <2>1, <2>2 DEF CallsDescend
<1> QED
  BY <1>1, <1>2, <1>3 DEF Build

\* Whether a call throws is decided by its line, its bpc and its positions.
LEMMA ThrowsAlike ==
  ASSUME NEW c, NEW d, c.cs = d.cs, c.bpc = d.bpc, c.i = d.i, c.j = d.j, Throws(c)
  PROVE  Throws(d)
<1>1. Line(d) = Line(c) /\ Positions(d) = Positions(c)
  BY DEF Line, Positions
<1>2. \A k : Approximate(Unfilled(d), k) = Approximate(Unfilled(c), k)
  BY <1>1 DEF Approximate, Unfilled
<1>3. \A k : NeededCorrection(d, k) = NeededCorrection(c, k)
  BY <1>2 DEF NeededCorrection
<1>4. TooLarge(d) = TooLarge(c)
  BY <1>1, <1>3 DEF TooLarge
<1> QED
  BY <1>1, <1>4 DEF Throws

\* The stack holds a call for each halving of the data.
DeepEnough ==
  \A keys \in Datasets : \E k \in 0..Len(keys) : Len(keys) <= 2 ^ k /\ k < StackLimit

\* the single element that OverflowOnlyTooSteep is about
TooSteep ==
  \E k \in DOMAIN path : \E i \in path[k].cs.first..PathEnd(path, k) - 1 :
    Throws(Call(CopyFrom(path[k].cs, i), path[k].bpc, 0, i, i + 1, StackLimit))

LEMMA SingleTooSteep ==
  ASSUME ~AutoBpc, BuildInv, CallsDescend,
         NEW k \in DOMAIN todo, todo[k].j = todo[k].i + 1, Throws(todo[k])
  PROVE  TooSteep
<1>1. PICK c : c = todo[k]
  OBVIOUS
<1>2. GoodCall(c) /\ SplitFrom(c) /\ GoodPath(data, path) /\ data \in Datasets
  BY <1>1 DEF BuildInv, GoodCalls, CallsDescend
<1>3. PICK p \in DOMAIN path :
        /\ c.cs = CopyFrom(path[p].cs, c.i)
        /\ path[p].cs.first <= c.i /\ c.j <= PathEnd(path, p)
  BY <1>2 DEF SplitFrom
<1>4. /\ path[p].bpc = TBpc /\ c.bpc = TBpc /\ path[p].cs.first \in Nat
      /\ PathEnd(path, p) \in Nat /\ c.i \in Nat /\ c.j = c.i + 1
  BY <1>1, <1>2, PathParts DEF GoodCall
<1> DEFINE d == Call(CopyFrom(path[p].cs, c.i), path[p].bpc, 0, c.i, c.i + 1, StackLimit)
<1>5. d.cs = c.cs /\ d.bpc = c.bpc /\ d.i = c.i /\ d.j = c.j
  BY <1>3, <1>4 DEF Call
<1> HIDE DEF d
<1>6. Throws(d)
  BY <1>1, <1>5, ThrowsAlike
<1>7. c.i \in path[p].cs.first..PathEnd(path, p) - 1
  BY <1>3, <1>4
<1> QED
  BY <1>6, <1>7 DEF TooSteep, d

\* A call at the limit has one position at most.
LEMMA DeepestShort ==
  ASSUME ~AutoBpc, DeepEnough, data \in Datasets, NEW c, GoodCall(c), Short(c),
         c.depth >= StackLimit
  PROVE  c.j = c.i \/ c.j = c.i + 1
<1>1. PICK L, N, e : L = c.j - c.i /\ N = n /\ e = c.depth
  OBVIOUS
<1>2. /\ L \in Nat /\ c.i \in Nat /\ c.j \in Nat /\ N \in Nat /\ e \in Nat \ {0}
      /\ e = StackLimit /\ N + 2 \in Powers
  <2>1. c.i \in Nat /\ c.j \in Nat /\ c.i <= c.j /\ c.depth \in 1..StackLimit
    BY DEF GoodCall
  <2>2. PICK i, j \in Nat : i = c.i /\ j = c.j
    BY <2>1
  <2>3. L \in Nat
    BY <1>1, <2>1, <2>2
  <2>4. e \in Nat \ {0} /\ e = StackLimit
    <3>1. PICK l \in Nat : l = StackLimit
      BY LaVectorAssumption
    <3> QED
      BY <1>1, <2>1, <3>1
  <2>5. N \in Nat /\ N + 2 \in Powers
    BY <1>1, DataTyped
  <2> QED
    BY <2>1, <2>3, <2>4, <2>5
<1>3. CASE L <= 1
  BY <1>1, <1>2, <1>3
<1>4. CASE ~(L <= 1)
  <2>1. e - 1 < N /\ (L - 1) * 2 ^ (e - 1) < N
    BY <1>1, <1>4 DEF Short
  <2>2. PICK k \in 0..N : N <= 2 ^ k /\ k < StackLimit
    BY <1>1 DEF DeepEnough, n
  <2> DEFINE pow == PowersUpTo(N + 2)
  <2>3. Doubles(pow, N + 2) /\ \A i \in 0..(N + 2) + 1 : pow[i] = 2 ^ i
    BY <1>2, PowersDouble
  <2> HIDE DEF pow
  <2>4. e - 1 \in 0..(N + 2) + 1 /\ k \in 0..(N + 2) + 1 /\ k <= e - 1
    BY <1>2, <2>1, <2>2
  <2>5. pow[k] <= pow[e - 1] /\ pow[e - 1] \in Nat \ {0} /\ pow[k] \in Nat
    BY <1>2, <2>3, <2>4, PowersGrow
  <2>6. PICK P, Q \in Nat : P = pow[e - 1] /\ Q = pow[k]
    BY <2>5
  <2>7. N <= Q /\ Q <= P /\ (L - 1) * P < N
    BY <2>1, <2>2, <2>3, <2>4, <2>5, <2>6
  <2>8. P * 1 <= P * (L - 1)
    <3>1. 1 <= L - 1 /\ L - 1 \in Int
      BY <1>2, <1>4
    <3> QED
      BY <3>1, ProductMonotonic
  <2>9. P * (L - 1) = (L - 1) * P /\ P * 1 = P /\ (L - 1) * P \in Int
    BY <1>2, Z3
  <2> QED
    BY <1>2, <2>7, <2>8, <2>9
<1> QED
  BY <1>3, <1>4

LEMMA OverflowTooSteep ==
  ASSUME ~AutoBpc, DeepEnough, BuildInv, CallsDescend, OverflowStack
  PROVE  TooSteep
<1>1. PICK c : c = Head(todo)
  OBVIOUS
<1>2. pc = "pushing" /\ todo # <<>> /\ Throws(c) /\ c.depth >= StackLimit
  BY <1>1 DEF OverflowStack
<1>3. c = todo[1] /\ GoodCall(c) /\ 1 \in DOMAIN todo /\ data \in Datasets
  BY <1>1, <1>2, HeadParts DEF BuildInv
<1>4. Short(c)
  BY <1>3 DEF CallsDescend
<1>5. c.j = c.i \/ c.j = c.i + 1
  BY <1>2, <1>3, <1>4, DeepestShort
<1>6. Doomed
  <2>1. CASE c.j = c.i
    <3>1. Idle
      BY <1>3, <2>1 DEF Idle
    <3> QED
      BY <3>1 DEF BuildInv
  <2>2. CASE c.j = c.i + 1
    BY <1>2, <1>3, <2>2 DEF Doomed
  <2> QED
    BY <1>5, <2>1, <2>2
<1> QED
  BY <1>6, SingleTooSteep DEF Doomed

LEMMA OverflowPreserved ==
  ASSUME ~AutoBpc, DeepEnough, BuildInv, CallsDescend, pc = "overflow" => TooSteep,
         [Build]_buildVars
  PROVE  (pc = "overflow" => TooSteep)'
<1>1. ASSUME data' = data, path' = path PROVE TooSteep => TooSteep'
  <2> SUFFICES ASSUME TooSteep PROVE TooSteep'
    OBVIOUS
  <2>0. PICK k \in DOMAIN path : \E i \in path[k].cs.first..PathEnd(path, k) - 1 :
          Throws(Call(CopyFrom(path[k].cs, i), path[k].bpc, 0, i, i + 1, StackLimit))
    BY DEF TooSteep
  <2>1. PICK i \in path[k].cs.first..PathEnd(path, k) - 1 :
          Throws(Call(CopyFrom(path[k].cs, i), path[k].bpc, 0, i, i + 1, StackLimit))
    BY <2>0
  <2>2. PICK d : d = Call(CopyFrom(path[k].cs, i), path[k].bpc, 0, i, i + 1, StackLimit)
    OBVIOUS
  <2>3. Throws(d)'
    BY <1>1, <2>1, <2>2, CallFrozen
  <2>4. Throws(Call(CopyFrom(path[k].cs, i), path[k].bpc, 0, i, i + 1, StackLimit))'
    BY <1>1, <2>2, <2>3
  <2>5. PathEnd(path, k)' = PathEnd(path, k)
    BY <1>1 DEF PathEnd, n
  <2> QED
    BY <1>1, <2>1, <2>4, <2>5 DEF TooSteep
<1>2. data' = data /\ path' = path
  BY DEF Build, PushSegment, SplitSegment, OverflowStack, FinishBuild, buildVars
<1>3. CASE OverflowStack
  BY <1>1, <1>2, <1>3, OverflowTooSteep
<1>4. CASE ~OverflowStack
  <2>1. pc' = "overflow" => pc = "overflow"
    BY <1>4 DEF Build, PushSegment, SplitSegment, FinishBuild, buildVars
  <2> QED
    BY <1>1, <1>2, <2>1
<1> QED
  BY <1>3, <1>4

-----------------------------------------------------------------------------
(* The finished vector.                                                    *)

\* The real segments follow each other, none of them empty, and the sentinel
\* comes behind the last.
Finished ==
  /\ data \in Datasets /\ n \in Nat \ {0}
  /\ SentinelIndex \in Nat \ {0} /\ Len(segments) = SentinelIndex + 1
  /\ Segment(0).first = 0 /\ Segment(SentinelIndex) = Sentinel /\ Segment(SentinelIndex).first = n
  /\ \A k \in 0..SentinelIndex : Segment(k).first \in Nat /\ Segment(k).first <= n
  /\ \A k \in RealSegments :
       /\ GoodSegment(bits, Segment(k), Segment(k + 1).first)
       /\ Segment(k).first < Segment(k + 1).first

LEMMA BuiltFinished ==
  ASSUME ~AutoBpc, BuildInv, pc = "built"
  PROVE  Finished
<1>0. PICK m : m = SentinelIndex
  OBVIOUS
<1>1. /\ data \in Datasets /\ n \in Nat \ {0} /\ todo = <<>> /\ segments # <<>>
      /\ segments[Len(segments)] = Sentinel /\ segments \in Seq(Pieces)
      /\ Sentinel.first = n
  BY DataTyped, SentinelTyped DEF BuildInv
<1>2. Len(segments) = m + 1 /\ m \in Nat /\ Pushed = m /\ Frontier = n
  <2>1. Len(segments) \in Nat \ {0}
    BY <1>1
  <2>2. PICK l \in Nat \ {0} : l = Len(segments)
    BY <2>1
  <2>3. m = l - 1 /\ l = m + 1 /\ m \in Nat
    BY <1>0, <2>2 DEF SentinelIndex
  <2> QED
    BY <1>1, <2>2, <2>3 DEF Pushed, Frontier
<1>3. m # 0
  <2>1. m = 0 => Frontier = 0
    BY <1>2 DEF BuildInv, Tiles
  <2> QED
    BY <1>1, <1>2, <2>1
<1>4. ~Idle
  BY <1>1 DEF BuildInv, Doomed
<1>5. Segment(m) = Sentinel /\ Segment(m).first = n /\ Segment(0).first = 0
  <2>1. segments[1].first = 0
    BY <1>2, <1>3 DEF BuildInv, Tiles
  <2>2. 0 + 1 = 1
    OBVIOUS
  <2> QED
    BY <1>1, <1>2, <2>1, <2>2 DEF Segment
<1>6. ASSUME NEW k \in 0..m - 1
      PROVE  /\ GoodSegment(bits, Segment(k), Segment(k + 1).first)
             /\ Segment(k).first < Segment(k + 1).first
             /\ Segment(k).first \in Nat /\ Segment(k).first <= n
  <2>1. k + 1 \in 1..m /\ (k + 1) + 1 = k + 2
    BY <1>2
  <2>2. Stop(k + 1) = Segment(k + 1).first
    <3>1. CASE k + 1 = m
      BY <1>2, <1>5, <3>1 DEF Stop
    <3>2. CASE k + 1 # m
      BY <1>2, <3>2 DEF Stop, Segment
    <3> QED
      BY <3>1, <3>2
  <2>3. GoodSegment(bits, Segment(k), Segment(k + 1).first)
    BY <1>2, <2>1, <2>2 DEF BuildInv, Tiles, Segment
  <2>4. Segment(k).first # Segment(k + 1).first
    BY <1>2, <1>4, <2>1, <2>2 DEF Idle, Segment
  <2>5. Segment(k).first \in Nat
    BY <2>3, PiecesTyped DEF GoodSegment
  <2> QED
    BY <1>1, <2>3, <2>4, <2>5 DEF GoodSegment
<1>7. \A k \in 0..m : k \in 0..m - 1 \/ k = m
  BY <1>2
<1>8. \A k \in 0..m : Segment(k).first \in Nat /\ Segment(k).first <= n
  BY <1>1, <1>5, <1>6, <1>7
<1> QED
  BY <1>0, <1>1, <1>2, <1>3, <1>5, <1>6, <1>8 DEF Finished, RealSegments

LEMMA FirstsIncrease ==
  ASSUME Finished, NEW j \in 0..SentinelIndex, NEW k \in 0..SentinelIndex, j < k
  PROVE  Segment(j).first < Segment(k).first
<1>0. PICK m : m = SentinelIndex
  OBVIOUS
<1>1. /\ m \in Nat /\ \A i \in 0..m : Segment(i).first \in Nat
      /\ \A i \in 0..m - 1 : Segment(i).first < Segment(i + 1).first
      /\ j \in 0..m /\ k \in 0..m
  BY <1>0 DEF Finished, RealSegments
<1> DEFINE T == {i \in j + 1..k : Segment(j).first < Segment(i).first}
<1>2. j + 1 \in T
  <2>1. j \in 0..m - 1 /\ j + 1 \in j + 1..k
    BY <1>1
  <2> QED
    BY <1>1, <2>1
<1>3. ASSUME NEW i \in j + 1..k - 1, i \in T PROVE i + 1 \in T
  <2>1. i \in 0..m - 1 /\ i \in 0..m /\ i + 1 \in 0..m /\ i + 1 \in j + 1..k
    BY <1>1
  <2>2. Segment(j).first < Segment(i).first
    BY <1>3
  <2>3. /\ Segment(j).first \in Nat /\ Segment(i).first \in Nat /\ Segment(i + 1).first \in Nat
        /\ Segment(i).first < Segment(i + 1).first
    BY <1>1, <2>1
  <2>4. Segment(j).first < Segment(i + 1).first
    BY <2>2, <2>3
  <2> QED
    BY <2>1, <2>4
<1>4. \A i \in j + 1..k : i \in T
  <2>1. j + 1 \in Nat /\ k \in Nat
    BY <1>1
  <2> HIDE DEF T
  <2> QED
    BY <1>2, <1>3, <2>1, IntervalInduction
<1>5. k \in j + 1..k
  BY <1>1
<1> QED
  BY <1>4, <1>5

\* s is the segment that holds position i.
Holds(s, i) ==
  /\ s \in RealSegments /\ Segment(s).first <= i /\ i < Segment(s + 1).first

LEMMA HolderUnique ==
  ASSUME Finished, NEW i \in 0..n - 1, NEW s, Holds(s, i), NEW t, Holds(t, i)
  PROVE  s = t
<1>0. PICK m : m = SentinelIndex
  OBVIOUS
<1>1. m \in Nat /\ s \in 0..m - 1 /\ t \in 0..m - 1
  BY <1>0 DEF Finished, Holds, RealSegments
<1>2. /\ Segment(s).first \in Nat /\ Segment(s + 1).first \in Nat
      /\ Segment(t).first \in Nat /\ Segment(t + 1).first \in Nat
  <2>1. s \in 0..m /\ s + 1 \in 0..m /\ t \in 0..m /\ t + 1 \in 0..m
    BY <1>1
  <2> QED
    BY <1>0, <2>1 DEF Finished
<1>3. ASSUME NEW x \in 0..m - 1, NEW y \in 0..m - 1, x < y
      PROVE  Segment(x + 1).first <= Segment(y).first
  <2>1. CASE x + 1 = y
    <3>1. Segment(y).first \in Nat
      BY <1>0, <1>1 DEF Finished
    <3> QED
      BY <2>1, <3>1
  <2>2. CASE x + 1 # y
    <3>1. x + 1 \in 0..m /\ y \in 0..m /\ x + 1 < y
      BY <1>1, <1>3, <2>2
    <3>2. Segment(x + 1).first \in Nat /\ Segment(y).first \in Nat
      BY <1>0, <3>1 DEF Finished
    <3> QED
      BY <1>0, <3>1, <3>2, FirstsIncrease
  <2> QED
    BY <2>1, <2>2
<1>4. n \in Nat /\ i \in Nat
  BY DEF Finished
<1>5. ~(s < t)
  <2> SUFFICES ASSUME s < t PROVE FALSE
    OBVIOUS
  <2>1. Segment(s + 1).first <= Segment(t).first
    BY <1>1, <1>3
  <2> QED
    BY <1>2, <1>4, <2>1 DEF Holds
<1>6. ~(t < s)
  <2> SUFFICES ASSUME t < s PROVE FALSE
    OBVIOUS
  <2>1. Segment(t + 1).first <= Segment(s).first
    BY <1>1, <1>3
  <2> QED
    BY <1>2, <1>4, <2>1 DEF Holds
<1> QED
  BY <1>1, <1>5, <1>6

\* Every position is in a segment.
LEMMA HolderExists ==
  ASSUME Finished, NEW i \in 0..n - 1
  PROVE  \E s : Holds(s, i)
<1>0. PICK m : m = SentinelIndex
  OBVIOUS
<1>1. /\ m \in Nat \ {0} /\ n \in Nat /\ i \in Nat /\ i < n
      /\ Segment(0).first = 0 /\ Segment(m).first = n
      /\ \A k \in 0..m : Segment(k).first \in Nat
  BY <1>0 DEF Finished
<1> DEFINE A == {k \in 0..m : Segment(k).first <= i}  s == Max(A)
<1>2. s \in A /\ \A k \in A : k <= s
  <2>1. 0 \in A
    BY <1>1
  <2>2. A \subseteq 0..m /\ A # {}
    BY <2>1
  <2> HIDE DEF A
  <2> QED
    BY <1>1, <2>2, MaxOfNaturals
<1> HIDE DEF s
<1>3. s \in 0..m /\ Segment(s).first <= i
  BY <1>2
<1>4. s # m
  BY <1>1, <1>3
<1>5. s + 1 \in 0..m /\ s \in 0..m - 1
  BY <1>1, <1>3, <1>4
<1>6. i < Segment(s + 1).first
  <2> SUFFICES ASSUME ~(i < Segment(s + 1).first) PROVE FALSE
    OBVIOUS
  <2>1. s + 1 \in A
    BY <1>1, <1>5
  <2>2. s + 1 <= s
    BY <1>2, <2>1
  <2> QED
    BY <1>3, <2>2
<1>7. Holds(s, i)
  BY <1>0, <1>3, <1>5, <1>6 DEF Holds, RealSegments
<1> QED
  BY <1>7

LEMMA SegmentOfHolds ==
  ASSUME Finished, NEW i \in 0..n - 1
  PROVE  Holds(SegmentOf(i), i) /\ \A s : Holds(s, i) => s = SegmentOf(i)
<1>1. PICK s : Holds(s, i)
  BY HolderExists
<1>2. \E t \in RealSegments : Segment(t).first <= i /\ i < Segment(t + 1).first
  BY <1>1 DEF Holds
<1>3. Holds(SegmentOf(i), i)
  BY <1>2 DEF SegmentOf, Holds
<1> QED
  BY <1>3, HolderUnique

\* What the segment that holds a position decodes there.
LEMMA HolderDecodes ==
  ASSUME ~AutoBpc, Finished, NEW s \in RealSegments, NEW i \in Nat,
         Segment(s).first <= i, i < Segment(s + 1).first
  PROVE  Decompress(Segment(s), i) = Key(i) /\ i < n
<1>1. GoodSegment(bits, Segment(s), Segment(s + 1).first) /\ data \in Datasets
  BY DEF Finished
<1>2. Segment(s).first \in Nat /\ Segment(s + 1).first \in Nat /\ Segment(s + 1).first <= n
      /\ n \in Nat
  <2>1. s \in 0..SentinelIndex /\ s + 1 \in 0..SentinelIndex
    <3>1. PICK m : m = SentinelIndex
      OBVIOUS
    <3>2. m \in Nat /\ s \in 0..m - 1
      BY <3>1 DEF RealSegments, Finished
    <3> QED
      BY <3>1, <3>2
  <2> QED
    BY <2>1 DEF Finished
<1>3. i \in Segment(s).first..Segment(s + 1).first - 1 /\ i < n
  BY <1>2
<1> QED
  BY <1>1, <1>3, ElementDecodes

\* decode() gives the data back.
LEMMA DecodedData ==
  ASSUME ~AutoBpc, Finished
  PROVE  Decoded = data
<1>0. PICK m : m = SentinelIndex
  OBVIOUS
<1> DEFINE parts == [k \in 1..m |->
             LET s == segments[k]
             IN [l \in 1..segments[k + 1].first - s.first |-> Decompress(s, s.first + l - 1)]]
           DecodedTo(k) == [l \in 1..Segment(k).first |-> data[l]]
<1>1. Decoded = FlattenSeq(parts)
  BY <1>0 DEF Decoded
<1>2. /\ m \in Nat \ {0} /\ data \in Datasets /\ n \in Nat
      /\ \A k \in 0..m : Segment(k).first \in Nat
      /\ Segment(0).first = 0 /\ Segment(m).first = n
      /\ \A k \in 0..m - 1 : Segment(k).first < Segment(k + 1).first
  BY <1>0 DEF Finished, RealSegments
<1>3. ASSUME NEW k \in 1..m
      PROVE  /\ Segment(k - 1).first \in Nat /\ Segment(k).first \in Nat
             /\ Segment(k - 1).first < Segment(k).first
             /\ parts[k] = [l \in 1..Segment(k).first - Segment(k - 1).first |->
                              data[Segment(k - 1).first + l]]
  <2>1. k \in Nat /\ k - 1 \in 0..m - 1 /\ k - 1 \in 0..m /\ (k - 1) + 1 = k /\ k \in 0..m
    BY <1>2
  <2>2. PICK a, b : a = Segment(k - 1).first /\ b = Segment(k).first
    OBVIOUS
  <2>3. a \in Nat /\ b \in Nat /\ a < b
    BY <1>2, <2>1, <2>2
  <2>4. Segment(k - 1) = segments[k] /\ Segment(k) = segments[k + 1]
    BY <2>1 DEF Segment
  <2>5. parts[k] = [l \in 1..b - a |-> Decompress(Segment(k - 1), a + l - 1)]
    BY <2>2, <2>4
  <2>6. ASSUME NEW l \in 1..b - a
        PROVE  Decompress(Segment(k - 1), a + l - 1) = data[a + l]
    <3>1. a + l - 1 \in Nat /\ a <= a + l - 1 /\ a + l - 1 < b /\ (a + l - 1) + 1 = a + l
      BY <2>3
    <3>2. k - 1 \in RealSegments
      BY <1>0, <2>1 DEF RealSegments
    <3>3. Decompress(Segment(k - 1), a + l - 1) = Key(a + l - 1)
      BY <2>1, <2>2, <3>1, <3>2, HolderDecodes
    <3> QED
      BY <3>1, <3>3 DEF Key
  <2> HIDE DEF parts
  <2>7. parts[k] = [l \in 1..b - a |-> data[a + l]]
    BY <2>5, <2>6
  <2> QED
    BY <2>2, <2>3, <2>7
<1>4. Len(parts) = m
  BY <1>2
<1> HIDE DEF parts
<1>5. PICK f : Concatenates(f, parts, m) /\ FlattenSeq(parts) = f[m]
  BY <1>2, <1>4, Flattened
<1>6. f[1] = parts[1] /\ \A k \in 2..m : f[k] = f[k - 1] \o parts[k]
  <2>1. m \in Nat \ {0}
    BY <1>2
  <2>2. Concatenates(f, parts, m)
    BY <1>5
  <2> QED
    BY <2>1, <2>2, ConcatenationSteps
<1> DEFINE T == {k \in 1..m : f[k] = DecodedTo(k)}
<1>7. 1 \in T
  <2>1. 1 \in 1..m /\ 1 - 1 = 0
    BY <1>2
  <2>2. PICK b : b = Segment(1).first
    OBVIOUS
  <2>9. b \in Nat
    BY <1>3, <2>1, <2>2
  <2>3. b \in Nat /\ b - 0 = b /\ \A l \in 1..b : 0 + l = l
    BY <2>9
  <2>4. parts[1] = [l \in 1..b - 0 |-> data[0 + l]]
    BY <1>2, <1>3, <2>1, <2>2
  <2>5. parts[1] = [l \in 1..b |-> data[l]]
    BY <2>3, <2>4
  <2> QED
    BY <1>6, <2>1, <2>2, <2>5
<1>8. ASSUME NEW k \in 1..m - 1, k \in T PROVE k + 1 \in T
  <2>1. k + 1 \in 1..m /\ k + 1 \in 2..m /\ (k + 1) - 1 = k /\ k \in 1..m
    BY <1>2
  <2>2. PICK a, b : a = Segment(k).first /\ b = Segment(k + 1).first
    OBVIOUS
  <2>9. a \in Nat /\ b \in Nat /\ a < b
    <3>1. /\ Segment((k + 1) - 1).first \in Nat /\ Segment(k + 1).first \in Nat
          /\ Segment((k + 1) - 1).first < Segment(k + 1).first
      BY <1>3, <2>1, Zenon
    <3> QED
      BY <2>1, <2>2, <3>1
  <2>3. a \in Nat /\ b \in Nat /\ b - a \in Nat /\ a + (b - a) = b
    BY <2>9
  <2>4. f[k] = [l \in 1..a |-> data[l]]
    BY <1>8, <2>2
  <2>5. parts[k + 1] = [l \in 1..b - a |-> data[a + l]]
    BY <1>3, <2>1, <2>2
  <2>6. f[k + 1] = f[k] \o parts[k + 1]
    BY <1>6, <2>1
  <2>8. PICK d : d = b - a
    OBVIOUS
  <2>10. [l \in 1..a |-> data[l]] \o [l \in 1..d |-> data[a + l]] = [l \in 1..a + d |-> data[l]]
    BY <2>3, <2>8, PrefixExtended
  <2>7. f[k + 1] = [l \in 1..a + (b - a) |-> data[l]]
    BY <2>4, <2>5, <2>6, <2>8, <2>10
  <2> QED
    BY <2>1, <2>2, <2>3, <2>7
<1>9. f[m] = DecodedTo(m)
  <2> HIDE DEF T
  <2>1. \A k \in 1..m : k \in T
    BY <1>2, <1>7, <1>8, IntervalInduction
  <2>2. m \in T
    BY <1>2, <2>1
  <2> QED
    BY <2>2 DEF T
<1>10. [l \in 1..n |-> data[l]] = data
  <2>1. data \in Seq(Nat) /\ DOMAIN data = 1..n
    BY <1>2, DataTyped DEF StrictKeys
  <2>2. data = [l \in DOMAIN data |-> data[l]]
    BY <2>1
  <2> QED
    BY <2>1, <2>2
<1> QED
  BY <1>1, <1>2, <1>5, <1>9, <1>10

\* The allocated size: every element has as many bits.
LEMMA BitSizeConstant ==
  ASSUME ~AutoBpc, data \in Datasets, GoodPath(data, path)
  PROVE  BitSize = n * TBpc
<1> DEFINE N == Len(path)
           seq == [k \in DOMAIN path |-> k]
           CostSums(f) == f = [t \in SUBSET (DOMAIN seq) |->
             IF t = {} THEN 0
             ELSE LET x == Max(t)
                  IN f[t \ {x}] + path[seq[x]].bpc * (PathEnd(path, seq[x]) - path[seq[x]].cs.first)]
           w == [k \in 1..N |-> path[k].bpc * (PathEnd(path, k) - path[k].cs.first)]
           g == CHOOSE f : CostSums(f)
<1>1. BitSize = g[DOMAIN seq]
  BY DEF BitSize, FoldLeft, MapThenFoldSet
<1>2. N \in Nat \ {0} /\ DOMAIN path = 1..N
  BY DEF GoodPath
<1>3. DOMAIN seq = 1..N /\ \A k \in 1..N : seq[k] = k
  BY <1>2
<1> HIDE DEF seq, N
<1>4. PICK h : PrefixSums(h, w, N)
  <2>1. N \in Nat
    BY <1>2
  <2> HIDE DEF w
  <2> QED
    BY <2>1, PrefixSumsExist
<1>5. CostSums(h)
  <2>1. ASSUME NEW t \in SUBSET (1..N)
        PROVE  h[t] = IF t = {} THEN 0
             ELSE LET x == Max(t)
                  IN h[t \ {x}] + path[seq[x]].bpc * (PathEnd(path, seq[x]) - path[seq[x]].cs.first)
    <3>1. h[t] = IF t = {} THEN 0 ELSE LET x == Max(t) IN h[t \ {x}] + w[x]
      <4> HIDE DEF w
      <4> QED
        BY <1>4 DEF PrefixSums
    <3>2. t # {} => Max(t) \in 1..N
      <4> SUFFICES ASSUME t # {} PROVE Max(t) \in 1..N
        OBVIOUS
      <4>1. t \subseteq 0..N /\ N \in Nat
        BY <1>2
      <4>2. Max(t) \in t
        BY <4>1, MaxOfNaturals
      <4> QED
        BY <4>2
    <3>3. \A x \in 1..N : w[x] = path[seq[x]].bpc * (PathEnd(path, seq[x]) - path[seq[x]].cs.first)
      BY <1>3
    <3> HIDE DEF w
    <3> QED
      BY <3>1, <3>2, <3>3
  <2>2. h = [t \in SUBSET (1..N) |-> h[t]]
    <3> HIDE DEF w
    <3> QED
      BY <1>4 DEF PrefixSums
  <2> QED
    BY <1>3, <2>1, <2>2
<1>6. CostSums(g)
  BY <1>5
<1> HIDE DEF g
<1>7. g[{}] = 0
  <2>1. {} \in SUBSET (DOMAIN seq)
    OBVIOUS
  <2> QED
    BY <1>6, <2>1
<1>8. ASSUME NEW k \in 0..N - 1
      PROVE  g[1..k + 1] = g[1..k] + TBpc * (PathEnd(path, k + 1) - path[k + 1].cs.first)
  <2> DEFINE t == 1..k + 1
  <2>7. k \in Nat /\ k + 1 \in 1..N
    BY <1>2
  <2>8. t \in SUBSET (1..N) /\ k + 1 \in t /\ t \ {k + 1} = 1..k
    BY <1>2, <2>7
  <2>9. k + 1 \in DOMAIN path
    BY <1>2, <2>7
  <2>1. t \in SUBSET (1..N) /\ t # {} /\ k + 1 \in t /\ t \ {k + 1} = 1..k /\ k \in Nat
        /\ k + 1 \in 1..N /\ k + 1 \in DOMAIN path
    BY <2>7, <2>8, <2>9
  <2>2. Max(t) = k + 1
    BY <2>1, MaxOfPrefix
  <2>3. g[t] = g[t \ {k + 1}] + path[k + 1].bpc * (PathEnd(path, k + 1) - path[k + 1].cs.first)
    <3>1. g[t] = IF t = {} THEN 0
             ELSE LET x == Max(t)
                  IN g[t \ {x}] + path[seq[x]].bpc * (PathEnd(path, seq[x]) - path[seq[x]].cs.first)
      BY <1>3, <1>6, <2>1
    <3>2. seq[k + 1] = k + 1
      BY <1>3, <2>1
    <3> HIDE DEF t
    <3> QED
      BY <2>1, <2>2, <3>1, <3>2
  <2>4. path[k + 1].bpc = TBpc
    BY <2>1, PathParts
  <2> QED
    BY <2>1, <2>3, <2>4
<1> DEFINE end(k) == IF k = 0 THEN 0 ELSE PathEnd(path, k)
           T == {k \in 0..N : g[1..k] = TBpc * end(k)}
<1>9. TBpc \in Nat /\ n \in Nat
  BY LaVectorAssumption, DataTyped
<1>10. 0 \in T
  <2>1. 1..0 = {} /\ 0 \in 0..N /\ TBpc * 0 = 0
    BY <1>2, <1>9
  <2> QED
    BY <1>7, <2>1
<1>11. ASSUME NEW k \in 0..N - 1, k \in T PROVE k + 1 \in T
  <2>1. k + 1 \in 0..N /\ k + 1 # 0 /\ k + 1 \in DOMAIN path /\ (k # 0 => k \in DOMAIN path /\ k # N)
    BY <1>2
  <2>2. PICK a, b : a = end(k) /\ b = PathEnd(path, k + 1)
    OBVIOUS
  <2>3. path[k + 1].cs.first = a
    <3>1. CASE k = 0
      BY <2>1, <2>2, <3>1, PathParts
    <3>2. CASE k # 0
      BY <2>1, <2>2, <3>2 DEF PathEnd, N
    <3> QED
      BY <3>1, <3>2
  <2>4. a \in Nat /\ b \in Nat
    BY <2>1, <2>2, <2>3, PathParts
  <2>5. g[1..k + 1] = TBpc * a + TBpc * (b - a)
    BY <1>8, <1>11, <2>2, <2>3
  <2>6. TBpc * a + TBpc * (b - a) = TBpc * b
    BY <1>9, <2>4
  <2> QED
    BY <2>1, <2>2, <2>5, <2>6
<1>12. g[1..N] = TBpc * n
  <2>1. N \in T
    <3> HIDE DEF T
    <3>1. \A k \in 0..N : k \in T
      <4>1. N \in Nat
        BY <1>2
      <4> QED
        BY <1>10, <1>11, <4>1, IntervalInduction
    <3> QED
      BY <1>2, <3>1
  <2>2. end(N) = n
    BY <1>2 DEF PathEnd, N
  <2> QED
    BY <2>1, <2>2
<1>13. TBpc * n = n * TBpc
  BY <1>9
<1> QED
  BY <1>1, <1>3, <1>12, <1>13
=============================================================================
