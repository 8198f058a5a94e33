---------------------------- MODULE ModelTheorems ----------------------------
(***************************************************************************)
(* The model object of lib/adapted_code/piecewise_linear_model.hpp, for    *)
(* every error bound and all points with increasing x.                     *)
(*                                                                         *)
(* First the geometry.  Lines and points of the plane are compared by      *)
(* cross products, as in the code.  For a to the left of b, q is below the *)
(* line through a and b when Cross(a, b, q) < 0, on it when that is 0, and *)
(* above it when positive.  Hulls are chains of points h[s], ..., h[n]     *)
(* from left to right that turn right at each inner point.  Two things are *)
(* done with one: the scan for the tangent from a point, and the pops      *)
(* before a push.                                                          *)
(*                                                                         *)
(* Then the object: add_point keeps it well formed, and keeps its extreme  *)
(* lines exact.  Both lines fit all points of the segment, no line that    *)
(* fits is steeper or flatter than they are, and a point is refused        *)
(* exactly when no line fits it and the segment.                           *)
(***************************************************************************)
EXTENDS PiecewiseLinearModel, BasicTheorems, SequenceTheorems

-----------------------------------------------------------------------------
(* Lines.                                                                  *)

Plane == [x : Int, y : Int]

\* Points of the plane have integer coordinates.
LEMMA Coordinates ==
  \A p \in Plane : p.x \in Int /\ p.y \in Int
BY DEF Plane

\* The cross product, written out; it is an integer.
LEMMA CrossValue ==
  ASSUME NEW o \in Plane, NEW a \in Plane, NEW b \in Plane
  PROVE  /\ Cross(o, a, b) = (a.x - o.x) * (b.y - o.y) - (a.y - o.y) * (b.x - o.x)
         /\ Cross(o, a, b) \in Int
BY DEF Cross, Minus, Plane

\* A cross product keeps its value when the points rotate, changes its sign
\* when two are exchanged, and is 0 when two coincide.
LEMMA CrossPermuted ==
  ASSUME NEW a \in Plane, NEW b \in Plane, NEW c \in Plane
  PROVE  /\ Cross(a, b, c) = Cross(b, c, a) /\ Cross(a, b, c) = Cross(c, a, b)
         /\ Cross(a, b, c) = -Cross(a, c, b) /\ Cross(a, b, c) = -Cross(b, a, c)
         /\ Cross(a, b, c) = -Cross(c, b, a)
         /\ Cross(a, b, a) = 0 /\ Cross(a, b, b) = 0
BY Coordinates, CrossValue

\* The height over the line ab of a point q, from the heights of p and r and
\* from how far q is off the line pr.
LEMMA CrossAffine ==
  ASSUME NEW a \in Plane, NEW b \in Plane, NEW p \in Plane, NEW q \in Plane, NEW r \in Plane
  PROVE  (r.x - p.x) * Cross(a, b, q)
           = (r.x - q.x) * Cross(a, b, p) + (q.x - p.x) * Cross(a, b, r)
             - (b.x - a.x) * Cross(p, q, r)
BY Coordinates, CrossValue

\* The signs that the equation above can have.
LEMMA SignsBetween ==
  ASSUME NEW w \in Int, w > 0, NEW s \in Int, s >= 0, NEW t \in Int, t >= 0, NEW d \in Int, d > 0,
         NEW p \in Int, NEW q \in Int, NEW r \in Int, NEW c \in Int,
         w * q = s * p + t * r - d * c
  PROVE  /\ p <= 0 /\ r <= 0 /\ c >= 0 => q <= 0
         /\ p <= 0 /\ r <= 0 /\ q >= 0 => c <= 0
         /\ p >= 0 /\ r >= 0 /\ q <= 0 => c >= 0
         /\ p <= 0 /\ r < 0 /\ q = 0 /\ t > 0 => c < 0
         /\ p = 0 /\ r > 0 /\ q < 0 /\ t > 0 => c > 0
         /\ p = 0 /\ r >= 0 /\ q <= 0 => c >= 0
<1>1. /\ p <= 0 => s * p <= 0
      /\ p >= 0 => s * p >= 0
      /\ p = 0 => s * p = 0
  OBVIOUS
<1>2. /\ r <= 0 => t * r <= 0
      /\ r >= 0 => t * r >= 0
      /\ r < 0 /\ t > 0 => t * r < 0
      /\ r > 0 /\ t > 0 => t * r > 0
  OBVIOUS
<1>3. /\ c >= 0 => d * c >= 0
      /\ d * c <= 0 => c <= 0
      /\ d * c >= 0 => c >= 0
      /\ d * c < 0 => c < 0
      /\ d * c > 0 => c > 0
  OBVIOUS
<1>4. /\ w * q <= 0 => q <= 0
      /\ q >= 0 => w * q >= 0
      /\ q <= 0 => w * q <= 0
      /\ q = 0 => w * q = 0
      /\ q < 0 => w * q < 0
  OBVIOUS
<1> DEFINE wq == w * q  sp == s * p  tr == t * r  dc == d * c
<1>5. wq = sp + tr - dc /\ wq \in Int /\ sp \in Int /\ tr \in Int /\ dc \in Int
  OBVIOUS
<1> HIDE DEF wq, sp, tr, dc
<1> QED
  BY <1>1, <1>2, <1>3, <1>4, <1>5 DEF wq, sp, tr, dc

\* On which side of the line ab the middle one of three points is, from the
\* sides of the outer two and the turn the three make.
LEMMA HeightSigns ==
  ASSUME NEW a \in Plane, NEW b \in Plane, a.x < b.x,
         NEW p \in Plane, NEW q \in Plane, NEW r \in Plane, p.x < q.x, q.x < r.x
  PROVE  /\ Cross(a, b, p) <= 0 /\ Cross(a, b, r) <= 0 /\ Cross(p, q, r) >= 0 => Cross(a, b, q) <= 0
         /\ Cross(a, b, p) <= 0 /\ Cross(a, b, r) <= 0 /\ Cross(a, b, q) >= 0 => Cross(p, q, r) <= 0
         /\ Cross(a, b, p) >= 0 /\ Cross(a, b, r) >= 0 /\ Cross(a, b, q) <= 0 => Cross(p, q, r) >= 0
         /\ Cross(a, b, p) = 0 /\ Cross(a, b, r) > 0 /\ Cross(a, b, q) < 0 => Cross(p, q, r) > 0
<1> DEFINE w == r.x - p.x
           s == r.x - q.x
           t == q.x - p.x
           d == b.x - a.x
           hp == Cross(a, b, p)
           hq == Cross(a, b, q)
           hr == Cross(a, b, r)
           c == Cross(p, q, r)
<1>1. /\ w \in Int /\ w > 0 /\ s \in Int /\ s >= 0 /\ t \in Int /\ t > 0 /\ d \in Int /\ d > 0
  BY Coordinates
<1>2. hp \in Int /\ hq \in Int /\ hr \in Int /\ c \in Int
  BY CrossValue
<1>3. w * hq = s * hp + t * hr - d * c
  BY CrossAffine
<1> HIDE DEF w, s, t, d, hp, hq, hr, c
<1>4. /\ hp <= 0 /\ hr <= 0 /\ c >= 0 => hq <= 0
      /\ hp <= 0 /\ hr <= 0 /\ hq >= 0 => c <= 0
      /\ hp >= 0 /\ hr >= 0 /\ hq <= 0 => c >= 0
      /\ hp = 0 /\ hr > 0 /\ hq < 0 => c > 0
  BY <1>1, <1>2, <1>3, SignsBetween
<1> QED
  BY <1>4 DEF hp, hq, hr, c

\* Seen from p, to the right of all: what a hides of b, and b of c, a hides of c.
LEMMA BelowTransitive ==
  ASSUME NEW p \in Plane, NEW a \in Plane, NEW b \in Plane, NEW c \in Plane,
         a.x < p.x, b.x < p.x, c.x < p.x,
         Cross(a, p, b) <= 0, Cross(b, p, c) <= 0
  PROVE  Cross(a, p, c) <= 0
<1>1. (p.x - b.x) * Cross(a, p, c) = (p.x - c.x) * Cross(a, p, b) + (p.x - a.x) * Cross(b, p, c)
  <2>1. /\ Cross(a, p, c) = (p.x - a.x) * (c.y - a.y) - (p.y - a.y) * (c.x - a.x)
        /\ Cross(a, p, b) = (p.x - a.x) * (b.y - a.y) - (p.y - a.y) * (b.x - a.x)
        /\ Cross(b, p, c) = (p.x - b.x) * (c.y - b.y) - (p.y - b.y) * (c.x - b.x)
    BY CrossValue
  <2>2. /\ a.x \in Int /\ a.y \in Int /\ b.x \in Int /\ b.y \in Int
        /\ c.x \in Int /\ c.y \in Int /\ p.x \in Int /\ p.y \in Int
    BY Coordinates
  <2> QED
    BY <2>1, <2>2
<1> DEFINE u == Cross(a, p, b)
           v == Cross(b, p, c)
           w == Cross(a, p, c)
<1>2. u \in Int /\ v \in Int /\ w \in Int
  BY CrossValue
<1>3. /\ p.x - b.x \in Int /\ p.x - b.x > 0
      /\ p.x - c.x \in Int /\ p.x - c.x > 0
      /\ p.x - a.x \in Int /\ p.x - a.x > 0
  BY Coordinates
<1> HIDE DEF u, v, w
<1>4. \A s, t, d \in Int : s > 0 /\ t > 0 /\ d > 0 /\ u <= 0 /\ v <= 0 /\ d * w = s * u + t * v => w <= 0
  <2> SUFFICES ASSUME NEW s \in Int, NEW t \in Int, NEW d \in Int,
                      s > 0, t > 0, d > 0, u <= 0, v <= 0, d * w = s * u + t * v
               PROVE  w <= 0
    OBVIOUS
  <2>1. s * u <= 0 /\ t * v <= 0 /\ s * u \in Int /\ t * v \in Int
    BY <1>2
  <2>2. d * w <= 0
    BY <2>1
  <2> QED
    BY <1>2, <2>2
<1> QED
  BY <1>1, <1>2, <1>3, <1>4 DEF u, v, w

\* Behind a strict right turn at b, p being above the line ab: c is hidden by b.
LEMMA BelowNext ==
  ASSUME NEW p \in Plane, NEW a \in Plane, NEW b \in Plane, NEW c \in Plane,
         a.x < b.x, b.x < c.x, c.x < p.x,
         Cross(a, p, b) < 0, Cross(a, b, c) < 0
  PROVE  Cross(b, p, c) < 0
<1>1. Cross(a, b, b) = 0 /\ Cross(a, b, p) > 0
  BY CrossPermuted, CrossValue
<1>2. Cross(b, c, p) > 0
  BY <1>1, HeightSigns
<1> QED
  BY <1>2, CrossPermuted, CrossValue

\* A point on or below the chord of two points below a line is below the line.
LEMMA BelowUnderChord ==
  ASSUME NEW a \in Plane, NEW b \in Plane, a.x < b.x,
         NEW p \in Plane, NEW q \in Plane, NEW r \in Plane, p.x < q.x, q.x < r.x,
         Cross(a, b, p) <= 0, Cross(a, b, r) <= 0, Cross(p, r, q) <= 0
  PROVE  Cross(a, b, q) <= 0
<1>1. Cross(p, q, r) >= 0
  BY CrossPermuted, CrossValue
<1> QED
  BY <1>1, HeightSigns

\* The line ht passes above q and p.  Then, from p, h hides q, to its left.
LEMMA BelowOnTheLeft ==
  ASSUME NEW h \in Plane, NEW t \in Plane, NEW q \in Plane, NEW p \in Plane,
         q.x < h.x, h.x < p.x, h.x < t.x,
         Cross(h, t, q) <= 0, Cross(h, t, p) <= 0
  PROVE  Cross(h, p, q) <= 0
<1>1. Cross(h, t, h) = 0
  BY CrossPermuted
<1>2. Cross(q, h, p) <= 0
  BY <1>1, HeightSigns
<1> QED
  BY <1>2, CrossPermuted, CrossValue

\* The line lh passes above q but not above p: from p, h hides q, to its right.
LEMMA BelowOnTheRight ==
  ASSUME NEW l \in Plane, NEW h \in Plane, NEW q \in Plane, NEW p \in Plane,
         l.x < h.x, h.x < q.x, q.x < p.x,
         Cross(l, h, q) <= 0, Cross(l, h, p) >= 0
  PROVE  Cross(h, p, q) <= 0
<1>1. Cross(l, h, h) = 0
  BY CrossPermuted
<1>2. Cross(h, q, p) >= 0
  BY <1>1, HeightSigns
<1> QED
  BY <1>2, CrossPermuted, CrossValue

\* Two lines pass above h and below u, and p is between them.  Then the line
\* from h to p, to the right of both, passes below u too.
LEMMA BetweenLines ==
  ASSUME NEW a \in Plane, NEW b \in Plane, a.x < b.x,
         NEW c \in Plane, NEW d \in Plane, c.x < d.x,
         NEW h \in Plane, NEW p \in Plane, NEW u \in Plane, h.x < p.x, u.x < p.x,
         Cross(a, b, h) <= 0, Cross(a, b, u) >= 0, Cross(a, b, p) >= 0,
         Cross(c, d, h) <= 0, Cross(c, d, u) >= 0, Cross(c, d, p) <= 0
  PROVE  Cross(h, p, u) >= 0
<1>1. CASE h.x < u.x
  <2>1. Cross(h, u, p) <= 0
    BY <1>1, HeightSigns
  <2> QED
    BY <2>1, CrossPermuted, CrossValue
<1>2. CASE u.x < h.x
  <2>1. Cross(u, h, p) >= 0
    BY <1>2, HeightSigns
  <2> QED
    BY <2>1, CrossPermuted, CrossValue
<1>3. CASE h.x = u.x
  <2>1. /\ Cross(c, d, u) - Cross(c, d, h) = (d.x - c.x) * (u.y - h.y)
        /\ Cross(h, p, u) = (p.x - h.x) * (u.y - h.y)
    <3>1. /\ Cross(c, d, u) = (d.x - c.x) * (u.y - c.y) - (d.y - c.y) * (u.x - c.x)
          /\ Cross(c, d, h) = (d.x - c.x) * (h.y - c.y) - (d.y - c.y) * (h.x - c.x)
          /\ Cross(h, p, u) = (p.x - h.x) * (u.y - h.y) - (p.y - h.y) * (u.x - h.x)
      BY CrossValue
    <3>2. /\ c.x \in Int /\ c.y \in Int /\ d.x \in Int /\ d.y \in Int /\ h.x \in Int /\ h.y \in Int
          /\ p.x \in Int /\ p.y \in Int /\ u.x \in Int /\ u.y \in Int
      BY Coordinates
    <3> QED
      BY <1>3, <3>1, <3>2
  <2>2. (d.x - c.x) * (u.y - h.y) >= 0
    BY <2>1, CrossValue
  <2>3. u.y - h.y >= 0
    BY <2>2, Coordinates
  <2> QED
    BY <2>1, <2>3, Coordinates
<1> QED
  BY <1>1, <1>2, <1>3, Coordinates

\* Below p, at its x, is below every line that ends in p.
LEMMA BelowAtTheEnd ==
  ASSUME NEW h \in Plane, NEW p \in Plane, NEW q \in Plane, h.x < p.x, q.x = p.x
  PROVE  /\ q.y <= p.y => Cross(h, p, q) <= 0
         /\ q.y >= p.y => Cross(h, p, q) >= 0
<1>1. Cross(h, p, q) = (p.x - h.x) * (q.y - p.y)
  BY Coordinates, CrossValue
<1> QED
  BY <1>1, Coordinates

\* The same at the other end.
LEMMA BelowAtTheStart ==
  ASSUME NEW h \in Plane, NEW p \in Plane, NEW q \in Plane, h.x < p.x, q.x = h.x
  PROVE  /\ q.y <= h.y => Cross(h, p, q) <= 0
         /\ q.y >= h.y => Cross(h, p, q) >= 0
<1>1. Cross(h, p, q) = (p.x - h.x) * (q.y - h.y)
  BY Coordinates, CrossValue
<1> QED
  BY <1>1, Coordinates

-----------------------------------------------------------------------------
(* What is true of points below lines is true of points above them, turned *)
(* upside down.                                                            *)

Mirror(p) == [x |-> p.x, y |-> -p.y]

\* Turning the plane upside down changes the sign of every cross product.
LEMMA Mirrored ==
  ASSUME NEW a \in Plane, NEW b \in Plane, NEW c \in Plane
  PROVE  /\ Mirror(a) \in Plane /\ Mirror(a).x = a.x /\ Mirror(a).y = -a.y
         /\ Mirror(Mirror(a)) = a
         /\ Cross(Mirror(a), Mirror(b), Mirror(c)) = -Cross(a, b, c)
<1>1. \A p \in Plane : Mirror(p) \in Plane /\ Mirror(p).x = p.x /\ Mirror(p).y = -p.y
  BY DEF Mirror, Plane
<1>2. Mirror(Mirror(a)) = a
  BY DEF Mirror, Plane
<1>3. /\ Cross(a, b, c) = (b.x - a.x) * (c.y - a.y) - (b.y - a.y) * (c.x - a.x)
      /\ Cross(Mirror(a), Mirror(b), Mirror(c)) = (b.x - a.x) * (-c.y - -a.y) - (-b.y - -a.y) * (c.x - a.x)
  BY <1>1, CrossValue
<1>4. Cross(Mirror(a), Mirror(b), Mirror(c)) = -Cross(a, b, c)
  <2>1. a.x \in Int /\ a.y \in Int /\ b.x \in Int /\ b.y \in Int /\ c.x \in Int /\ c.y \in Int
    BY Coordinates
  <2>2. -c.y - -a.y = -(c.y - a.y) /\ -b.y - -a.y = -(b.y - a.y)
    BY <2>1
  <2>3. \A u, v, w, t \in Int : u * (-v) - (-w) * t = -(u * v - w * t)
    OBVIOUS
  <2> QED
    BY <1>3, <2>1, <2>2, <2>3
<1> QED
  BY <1>1, <1>2, <1>4

-----------------------------------------------------------------------------
(* Hulls.                                                                  *)

\* q is a point of the chain, or on or below one of its edges
UnderChain(h, s, n, q) ==
  \/ \E j \in s..n : q = h[j]
  \/ \E j \in s..n - 1 : h[j].x < q.x /\ q.x < h[j + 1].x /\ Cross(h[j], h[j + 1], q) <= 0

LeftToRight(h, s, n) == \A i, j \in s..n : i < j => h[i].x < h[j].x

RightTurns(h, s, n) == \A j \in s + 1..n - 1 : Cross(h[j - 1], h[j], h[j + 1]) < 0

\* The chain covers the points of E from its first x to its last.
Covers(h, s, n, E) ==
  /\ \A j \in s..n : h[j] \in E
  /\ LeftToRight(h, s, n)
  /\ RightTurns(h, s, n)
  /\ \A q \in E : h[s].x <= q.x /\ q.x <= h[n].x => UnderChain(h, s, n, q)

\* A line above the points of a chain is above all that is under the chain.
LEMMA ChainBelowLine ==
  ASSUME NEW s \in Nat, NEW n \in Nat, NEW h, \A j \in s..n : h[j] \in Plane,
         NEW a \in Plane, NEW b \in Plane, a.x < b.x,
         \A j \in s..n : Cross(a, b, h[j]) <= 0,
         NEW q \in Plane, UnderChain(h, s, n, q)
  PROVE  Cross(a, b, q) <= 0
<1>1. ASSUME NEW j \in s..n - 1, h[j].x < q.x, q.x < h[j + 1].x, Cross(h[j], h[j + 1], q) <= 0
      PROVE  Cross(a, b, q) <= 0
  <2>1. j \in s..n /\ j + 1 \in s..n
    OBVIOUS
  <2> QED
    BY <1>1, <2>1, BelowUnderChord
<1> QED
  BY <1>1 DEF UnderChain

\* The scan for the tangent from p goes on while the next entry does not lie
\* below the line from the entry to p.  Where it ends, every entry is below.
LEMMA TangentAboveChain ==
  ASSUME NEW s \in Nat, NEW n \in Nat, NEW h, \A j \in s..n : h[j] \in Plane,
         LeftToRight(h, s, n), RightTurns(h, s, n),
         NEW p \in Plane, \A j \in s..n : h[j].x < p.x,
         NEW k \in s..n, \A i \in s + 1..k : Cross(h[i - 1], p, h[i]) >= 0,
         k < n => Cross(h[k], p, h[k + 1]) < 0
  PROVE  \A j \in s..n : Cross(h[k], p, h[j]) <= 0
<1> DEFINE Hidden == {j \in s..n : Cross(h[k], p, h[j]) <= 0}
           Next2 == {j \in s..n : j < n => Cross(h[j], p, h[j + 1]) < 0}
<1>1. k \in Nat /\ k \in Hidden
  BY CrossPermuted
<1>2. \A j \in s + 1..k : j \in Hidden => j - 1 \in Hidden
  <2> SUFFICES ASSUME NEW j \in s + 1..k, Cross(h[k], p, h[j]) <= 0
               PROVE  Cross(h[k], p, h[j - 1]) <= 0
    OBVIOUS
  <2>1. j \in s..n /\ j - 1 \in s..n
    OBVIOUS
  <2>2. Cross(h[j], p, h[j - 1]) <= 0
    BY <2>1, CrossPermuted, CrossValue
  <2> QED
    BY <2>1, <2>2, BelowTransitive
<1>3. \A j \in s..k : j \in Hidden
  <2> HIDE DEF Hidden
  <2> QED
    BY <1>1, <1>2, IntervalInductionDown
<1>4. \A j \in k..n - 1 : j \in Next2 => j + 1 \in Next2
  <2> SUFFICES ASSUME NEW j \in k..n - 1, Cross(h[j], p, h[j + 1]) < 0, j + 1 < n
               PROVE  Cross(h[j + 1], p, h[(j + 1) + 1]) < 0
    OBVIOUS
  <2>1. j \in s..n /\ j + 1 \in s..n /\ (j + 1) + 1 \in s..n /\ j + 1 \in s + 1..n - 1
        /\ (j + 1) - 1 = j
    OBVIOUS
  <2>2. h[j].x < h[j + 1].x /\ h[j + 1].x < h[(j + 1) + 1].x /\ Cross(h[j], h[j + 1], h[(j + 1) + 1]) < 0
    BY <2>1 DEF LeftToRight, RightTurns
  <2> QED
    BY <2>1, <2>2, BelowNext
<1>5. \A j \in k..n : j \in Next2
  <2>1. k \in Next2
    OBVIOUS
  <2> HIDE DEF Next2
  <2> QED
    BY <1>1, <1>4, <2>1, IntervalInduction
<1>6. \A j \in k..n - 1 : j \in Hidden => j + 1 \in Hidden
  <2> SUFFICES ASSUME NEW j \in k..n - 1, Cross(h[k], p, h[j]) <= 0
               PROVE  Cross(h[k], p, h[j + 1]) <= 0
    OBVIOUS
  <2>1. j \in s..n /\ j + 1 \in s..n /\ j \in k..n /\ j < n
    OBVIOUS
  <2>2. Cross(h[j], p, h[j + 1]) < 0
    BY <1>5, <2>1
  <2>3. Cross(h[j], p, h[j + 1]) <= 0
    BY <2>1, <2>2, CrossValue
  <2> QED
    BY <2>1, <2>3, BelowTransitive
<1>7. \A j \in k..n : j \in Hidden
  <2> HIDE DEF Hidden
  <2> QED
    BY <1>1, <1>6, IntervalInduction
<1>8. \A j \in s..n : j \in s..k \/ j \in k..n
  OBVIOUS
<1> QED
  BY <1>3, <1>7, <1>8

\* The tangent is above everything the hull is about: what the chain covers,
\* what lies left of it, below a line through its first entry that p is not
\* above, and what lies right of it, below a line through its last entry that
\* p is not below.
LEMMA TangentAboveAll ==
  ASSUME NEW s \in Nat, NEW n \in Nat, s <= n, NEW h, NEW E, E \subseteq Plane, Covers(h, s, n, E),
         NEW p \in Plane, NEW k \in s..n, h[k].x < p.x,
         \A j \in s..n : Cross(h[k], p, h[j]) <= 0,
         h[s].x < p.x,
         NEW t \in Plane, h[s].x < t.x, \A q \in E : Cross(h[s], t, q) <= 0, Cross(h[s], t, p) <= 0,
         NEW l \in Plane, l.x < h[n].x, \A q \in E : Cross(l, h[n], q) <= 0, Cross(l, h[n], p) >= 0,
         NEW q \in E, q.x < p.x \/ q.x <= h[n].x
  PROVE  Cross(h[k], p, q) <= 0
<1>1. /\ \A j \in s..n : h[j] \in Plane
      /\ q \in Plane /\ s \in s..n /\ n \in s..n
  BY DEF Covers
<1>2. CASE q.x < h[s].x
  <2>1. Cross(h[s], p, q) <= 0
    BY <1>1, <1>2, BelowOnTheLeft
  <2>2. q.x < p.x
    BY <1>1, <1>2, Coordinates
  <2> QED
    BY <1>1, <2>1, <2>2, BelowTransitive
<1>3. CASE h[s].x <= q.x /\ q.x <= h[n].x
  <2>1. UnderChain(h, s, n, q)
    BY <1>3 DEF Covers
  <2> QED
    BY <1>1, <2>1, ChainBelowLine
<1>4. CASE h[n].x < q.x
  <2>1. q.x < p.x /\ h[n].x < p.x
    BY <1>1, <1>4, Coordinates
  <2>2. Cross(h[n], p, q) <= 0
    BY <1>1, <1>4, <2>1, BelowOnTheRight
  <2>3. Cross(h[k], p, h[n]) <= 0
    BY <1>1
  <2> QED
    BY <1>1, <2>1, <2>2, <2>3, BelowTransitive
<1> QED
  BY <1>1, <1>2, <1>3, <1>4, Coordinates

\* The entries before the tangent's are given up.
LEMMA CoversFrom ==
  ASSUME NEW s \in Nat, NEW n \in Nat, NEW h, NEW E, E \subseteq Plane, Covers(h, s, n, E),
         NEW k \in s..n
  PROVE  Covers(h, k, n, E)
<1>1. \A j \in s..n : h[j].x \in Int
  BY Coordinates DEF Covers
<1>2. \A i \in k..n : i \in s..n
  OBVIOUS
<1>3. LeftToRight(h, k, n)
  BY <1>2 DEF Covers, LeftToRight
<1>4. RightTurns(h, k, n)
  BY DEF Covers, RightTurns
<1>5. ASSUME NEW q \in E, h[k].x <= q.x, q.x <= h[n].x
      PROVE  UnderChain(h, k, n, q)
  <2>0. q.x \in Int
    BY Coordinates
  <2>1. s \in s..n /\ (s = k \/ h[s].x < h[k].x)
    BY DEF Covers, LeftToRight
  <2>2. h[s].x <= q.x
    BY <1>1, <1>5, <2>0, <2>1
  <2>3. UnderChain(h, s, n, q)
    BY <1>5, <2>2 DEF Covers
  <2>4. ASSUME NEW j \in s..n, q = h[j]
        PROVE  j \in k..n
    <3>1. ~(h[j].x < h[k].x)
      BY <1>1, <1>5, <2>4
    <3>2. ~(j < k)
      BY <3>1 DEF Covers, LeftToRight
    <3> QED
      BY <3>2
  <2>5. ASSUME NEW j \in s..n - 1, h[j].x < q.x, q.x < h[j + 1].x
        PROVE  j \in k..n - 1
    <3>1. j + 1 \in s..n
      OBVIOUS
    <3>2. ~(h[j + 1].x < h[k].x) /\ h[j + 1].x # h[k].x
      BY <1>1, <1>5, <2>0, <2>5, <3>1
    <3>3. ~(j + 1 < k) /\ j + 1 # k
      BY <3>1, <3>2 DEF Covers, LeftToRight
    <3> QED
      BY <3>3
  <2> QED
    BY <2>3, <2>4, <2>5 DEF UnderChain
<1> QED
  BY <1>2, <1>3, <1>4, <1>5 DEF Covers

\* Before p is pushed, entries are popped down to e as long as the line
\* through the last two does not pass above p: they lie below the line ep.
LEMMA PoppedBelowEdge ==
  ASSUME NEW s \in Nat, NEW n \in Nat, NEW h, \A j \in s..n : h[j] \in Plane,
         NEW p \in Plane, \A j \in s..n : h[j].x < p.x,
         NEW e \in s..n, \A j \in e + 1..n : Cross(h[j - 1], h[j], p) >= 0
  PROVE  \A j \in e..n : Cross(h[e], p, h[j]) <= 0
<1> DEFINE Hidden == {j \in e..n : Cross(h[e], p, h[j]) <= 0}
<1>1. e \in Nat /\ e \in Hidden
  BY CrossPermuted
<1>2. \A j \in e..n - 1 : j \in Hidden => j + 1 \in Hidden
  <2> SUFFICES ASSUME NEW j \in e..n - 1, Cross(h[e], p, h[j]) <= 0
               PROVE  Cross(h[e], p, h[j + 1]) <= 0
    OBVIOUS
  <2>1. j \in s..n /\ j + 1 \in s..n /\ j + 1 \in e + 1..n /\ (j + 1) - 1 = j
    OBVIOUS
  <2>2. Cross(h[j], h[j + 1], p) >= 0
    BY <2>1
  <2>3. Cross(h[j], p, h[j + 1]) <= 0
    BY <2>1, <2>2, CrossPermuted, CrossValue
  <2> QED
    BY <2>1, <2>3, BelowTransitive
<1> HIDE DEF Hidden
<1>3. \A j \in e..n : j \in Hidden
  BY <1>1, <1>2, IntervalInduction
<1> QED
  BY <1>3 DEF Hidden

\* The pops and the push make a chain again, that covers p as well.
LEMMA CoversPushed ==
  ASSUME NEW s \in Nat, NEW n \in Nat, s <= n, NEW h, NEW E, E \subseteq Plane, Covers(h, s, n, E),
         NEW p \in Plane, \A q \in E : q.x < p.x,
         NEW l \in Plane, l.x < h[n].x, \A q \in E : Cross(l, h[n], q) <= 0, Cross(l, h[n], p) >= 0,
         NEW e \in s..n, \A j \in e + 1..n : Cross(h[j - 1], h[j], p) >= 0,
         e > s => Cross(h[e - 1], h[e], p) < 0,
         NEW g, \A j \in s..e : g[j] = h[j], g[e + 1] = p
  PROVE  Covers(g, s, e + 1, E \cup {p})
<1>1. /\ \A j \in s..n : h[j] \in Plane /\ h[j].x < p.x /\ h[j].x \in Int
      /\ s \in s..n /\ n \in s..n /\ p.x \in Int
  BY Coordinates DEF Covers
<1>2. \A j \in s..e + 1 : g[j] \in E \cup {p}
  <2>1. \A j \in s..e + 1 : j = e + 1 \/ (j \in s..e /\ j \in s..n)
    OBVIOUS
  <2> QED
    BY <2>1 DEF Covers
<1>3. LeftToRight(g, s, e + 1)
  <2> SUFFICES ASSUME NEW i \in s..e + 1, NEW j \in s..e + 1, i < j
               PROVE  g[i].x < g[j].x
    BY DEF LeftToRight
  <2>1. i \in s..e /\ i \in s..n /\ g[i] = h[i]
    OBVIOUS
  <2>2. CASE j = e + 1
    BY <1>1, <2>1, <2>2
  <2>3. CASE j # e + 1
    BY <2>1, <2>3 DEF Covers, LeftToRight
  <2> QED
    BY <2>2, <2>3
<1>4. RightTurns(g, s, e + 1)
  <2> SUFFICES ASSUME NEW j \in s + 1..(e + 1) - 1
               PROVE  Cross(g[j - 1], g[j], g[j + 1]) < 0
    BY DEF RightTurns
  <2>1. j \in s..e /\ j - 1 \in s..e /\ g[j] = h[j] /\ g[j - 1] = h[j - 1]
    OBVIOUS
  <2>2. CASE j = e
    BY <2>1, <2>2
  <2>3. CASE j # e
    <3>1. j \in s + 1..n - 1 /\ j + 1 \in s..e
      BY <2>3
    <3> QED
      BY <2>1, <3>1 DEF Covers, RightTurns
  <2> QED
    BY <2>2, <2>3
<1>5. \A j \in e..n : Cross(h[e], p, h[j]) <= 0
  BY <1>1, PoppedBelowEdge
<1>6. ASSUME NEW q \in E \cup {p}, g[s].x <= q.x, q.x <= g[e + 1].x
      PROVE  UnderChain(g, s, e + 1, q)
  <2>1. CASE q = p
    <3>1. e + 1 \in s..e + 1
      OBVIOUS
    <3> QED
      BY <2>1, <3>1 DEF UnderChain
  \* below the new edge
  <2>2. ASSUME q \in E, h[e].x < q.x, Cross(h[e], p, q) <= 0
        PROVE  UnderChain(g, s, e + 1, q)
    <3>1. e \in s..(e + 1) - 1 /\ e \in s..e
      OBVIOUS
    <3>2. g[e] = h[e] /\ g[e + 1] = p /\ q.x < p.x
      BY <2>2, <3>1
    <3> QED
      BY <2>2, <3>1, <3>2 DEF UnderChain
  <2>3. CASE q \in E /\ q.x <= h[n].x
    <3>1. s \in s..e /\ g[s] = h[s]
      OBVIOUS
    <3>2. UnderChain(h, s, n, q)
      BY <1>6, <2>3, <3>1 DEF Covers
    <3>3. ASSUME NEW j \in s..n, q = h[j]
          PROVE  UnderChain(g, s, e + 1, q)
      <4>1. CASE j <= e
        <5>1. j \in s..e /\ j \in s..e + 1
          BY <4>1
        <5> QED
          BY <3>3, <5>1 DEF UnderChain
      <4>2. CASE j > e
        <5>1. j \in e..n /\ h[e].x < h[j].x
          BY <4>2 DEF Covers, LeftToRight
        <5> QED
          BY <1>5, <2>2, <2>3, <3>3, <5>1
      <4> QED
        BY <4>1, <4>2
    <3>4. ASSUME NEW j \in s..n - 1, h[j].x < q.x, q.x < h[j + 1].x, Cross(h[j], h[j + 1], q) <= 0
          PROVE  UnderChain(g, s, e + 1, q)
      <4>1. CASE j < e
        <5>1. j \in s..e /\ j + 1 \in s..e /\ j \in s..(e + 1) - 1
          BY <4>1
        <5>2. g[j] = h[j] /\ g[j + 1] = h[j + 1]
          BY <5>1
        <5> QED
          BY <3>4, <5>1, <5>2 DEF UnderChain
      <4>2. CASE j >= e
        <5>1. j \in e..n /\ j + 1 \in e..n /\ j \in s..n /\ j + 1 \in s..n
          BY <4>2
        <5>2. e = j \/ h[e].x < h[j].x
          BY <4>2, <5>1 DEF Covers, LeftToRight
        <5>3. h[e].x < q.x
          BY <1>1, <2>3, <3>4, <5>1, <5>2, Coordinates
        <5>4. Cross(h[e], p, h[j]) <= 0 /\ Cross(h[e], p, h[j + 1]) <= 0
          BY <1>5, <5>1
        <5>5. q \in Plane
          BY <2>3
        <5>6. Cross(h[e], p, q) <= 0
          BY <1>1, <3>4, <5>1, <5>4, <5>5, BelowUnderChord
        <5> QED
          BY <2>2, <2>3, <5>3, <5>6
      <4> QED
        BY <4>1, <4>2
    <3> QED
      BY <3>2, <3>3, <3>4 DEF UnderChain
  <2>4. CASE q \in E /\ h[n].x < q.x
    <3>1. q \in Plane /\ q.x < p.x
      BY <2>4
    <3>2. Cross(h[n], p, q) <= 0
      BY <1>1, <2>4, <3>1, BelowOnTheRight
    <3>3. n \in e..n
      OBVIOUS
    <3>4. Cross(h[e], p, q) <= 0
      BY <1>1, <1>5, <3>1, <3>2, <3>3, BelowTransitive
    <3>5. e = n \/ h[e].x < h[n].x
      BY DEF Covers, LeftToRight
    <3>6. h[e].x < q.x
      BY <1>1, <2>4, <3>1, <3>5, Coordinates
    <3> QED
      BY <2>2, <2>4, <3>4, <3>6
  <2>5. q.x \in Int /\ h[n].x \in Int
    BY <1>1, Coordinates
  <2> QED
    BY <2>1, <2>3, <2>4, <2>5
<1> QED
  BY <1>2, <1>3, <1>4, <1>6 DEF Covers

\* A point beyond the hull does not concern it.
LEMMA CoversBeyond ==
  ASSUME NEW s \in Nat, NEW n \in Nat, s <= n, NEW h, NEW E, E \subseteq Plane, Covers(h, s, n, E),
         NEW p \in Plane, h[n].x < p.x
  PROVE  Covers(h, s, n, E \cup {p})
<1>1. h[n].x \in Int /\ p.x \in Int
  BY Coordinates DEF Covers
<1>2. ~(p.x <= h[n].x)
  BY <1>1
<1> QED
  BY <1>2 DEF Covers

-----------------------------------------------------------------------------
(* A line between two sets of points: above those of E, and below those of *)
(* F, which are given upside down.                                         *)

Below(a, b, E) == \A q \in E : Cross(a, b, q) <= 0

Between(a, b, E, F) == Below(a, b, E) /\ Below(Mirror(a), Mirror(b), F)

\* The points of E are left of p, or straight below it.
UpTo(E, p) == \A q \in E : q.x < p.x \/ (q.x = p.x /\ q.y <= p.y)

\* One more point above or below the line.
LEMMA BetweenMore ==
  ASSUME NEW a \in Plane, NEW b \in Plane, NEW E, NEW F, Between(a, b, E, F), NEW p \in Plane
  PROVE  /\ Cross(a, b, p) >= 0 => Between(a, b, E, F \cup {Mirror(p)})
         /\ Cross(a, b, p) <= 0 => Between(a, b, E \cup {p}, F)
<1>1. Cross(Mirror(a), Mirror(b), Mirror(p)) = -Cross(a, b, p) /\ Cross(a, b, p) \in Int
  BY Mirrored, CrossValue
<1> QED
  BY <1>1 DEF Between, Below

\* The scan as before, when the last entry of the chain may be straight below
\* p: the scan has then ended before it.
LEMMA TangentAboveChainUpTo ==
  ASSUME NEW s \in Nat, NEW n \in Nat, NEW h, \A j \in s..n : h[j] \in Plane,
         LeftToRight(h, s, n), RightTurns(h, s, n),
         NEW p \in Plane, \A j \in s..n : h[j].x < p.x \/ (h[j].x = p.x /\ h[j].y <= p.y),
         NEW k \in s..n, h[k].x < p.x, \A i \in s + 1..k : Cross(h[i - 1], p, h[i]) >= 0,
         k < n => Cross(h[k], p, h[k + 1]) < 0
  PROVE  \A j \in s..n : Cross(h[k], p, h[j]) <= 0
<1>1. CASE \A j \in s..n : h[j].x < p.x
  BY <1>1, TangentAboveChain
<1>2. CASE \E j \in s..n : ~(h[j].x < p.x)
  <2>1. PICK e \in s..n : ~(h[e].x < p.x)
    BY <1>2
  <2>2. h[e].x = p.x /\ p.x \in Int /\ \A j \in s..n : h[j].x \in Int
    BY <2>1, Coordinates
  <2>3. e = n
    <3>1. ASSUME e < n PROVE FALSE
      <4>1. n \in s..n /\ h[e].x < h[n].x
        BY <3>1 DEF LeftToRight
      <4> QED
        BY <2>2, <4>1
    <3> QED
      BY <3>1
  <2>4. k < n /\ n \in s..n
    BY <2>2, <2>3
  <2>5. n - 1 \in Nat /\ k \in s..n - 1 /\ \A j \in s..n - 1 : j \in s..n /\ j < n
    BY <2>4
  <2>6. \A j \in s..n - 1 : h[j].x < p.x
    BY <2>2, <2>3, <2>5 DEF LeftToRight
  <2>7. LeftToRight(h, s, n - 1) /\ RightTurns(h, s, n - 1)
    BY <2>5 DEF LeftToRight, RightTurns
  <2> DEFINE l == n - 1
  <2>8. l \in Nat /\ k \in s..l /\ (\A j \in s..l : h[j] \in Plane /\ h[j].x < p.x)
        /\ LeftToRight(h, s, l) /\ RightTurns(h, s, l) /\ (k < l => Cross(h[k], p, h[k + 1]) < 0)
    BY <2>5, <2>6, <2>7
  <2> HIDE DEF l
  <2>9. \A j \in s..l : Cross(h[k], p, h[j]) <= 0
    BY <2>8, TangentAboveChain
  <2>10. h[n].y <= p.y /\ h[n] \in Plane /\ h[k] \in Plane /\ h[n].x = p.x
    BY <2>2, <2>3
  <2>11. Cross(h[k], p, h[n]) <= 0
    BY <2>10, BelowAtTheEnd
  <2>12. \A j \in s..n : j = n \/ j \in s..l
    BY DEF l
  <2> QED
    BY <2>9, <2>11, <2>12
<1> QED
  BY <1>1, <1>2

\* The scan for the tangent from p ends at k.
TangentScan(h, s, n, p, k) ==
  /\ k \in s..n
  /\ \A i \in s + 1..k : Cross(h[i - 1], p, h[i]) >= 0
  /\ k < n => Cross(h[k], p, h[k + 1]) < 0

\* The pops before p is pushed end at e, and f is the chain that is left.
Pops(h, s, n, p, e) ==
  /\ e \in s..n
  /\ \A j \in e + 1..n : Cross(h[j - 1], h[j], p) >= 0
  /\ e > s => Cross(h[e - 1], h[e], p) < 0

Pushes(f, h, s, e, p) == (\A j \in s..e : f[j] = h[j]) /\ f[e + 1] = p

-----------------------------------------------------------------------------
(* Two hulls with a line between them that rests on the first entry of one *)
(* and the last of the other, and one that does the reverse: the hull h is *)
(* below the lines, and the hull g, upside down, above them.               *)

Enclosed(a, b, c, d, h, s, n, g, t, o, E, F) ==
  /\ s \in Nat /\ n \in Nat /\ s <= n /\ E \subseteq Plane /\ Covers(h, s, n, E)
  /\ t \in Nat /\ o \in Nat /\ t <= o /\ F \subseteq Plane /\ Covers(g, t, o, F)
  /\ a \in Plane /\ b \in Plane /\ a.x < b.x /\ Mirror(a) = g[t] /\ b = h[n]
  /\ c \in Plane /\ d \in Plane /\ c.x < d.x /\ c = h[s] /\ Mirror(d) = g[o]
  /\ Between(a, b, E, F) /\ Between(c, d, E, F)

\* The same, upside down.
LEMMA EnclosedMirrored ==
  ASSUME NEW a, NEW b, NEW c, NEW d, NEW h, NEW s, NEW n, NEW g, NEW t, NEW o, NEW E, NEW F,
         Enclosed(a, b, c, d, h, s, n, g, t, o, E, F)
  PROVE  Enclosed(Mirror(c), Mirror(d), Mirror(a), Mirror(b), g, t, o, h, s, n, F, E)
<1>1. a \in Plane /\ b \in Plane /\ c \in Plane /\ d \in Plane
  BY DEF Enclosed
<1>2. \A p \in {a, b, c, d} : Mirror(p) \in Plane /\ Mirror(p).x = p.x /\ Mirror(Mirror(p)) = p
  BY <1>1, Mirrored
<1>3. /\ Between(Mirror(c), Mirror(d), F, E)
      /\ Between(Mirror(a), Mirror(b), F, E)
  BY <1>2 DEF Enclosed, Between
<1> QED
  BY <1>2, <1>3 DEF Enclosed

\* A point above both lines changes nothing.
LEMMA PointBeyond ==
  ASSUME NEW a, NEW b, NEW c, NEW d, NEW h, NEW s, NEW n, NEW g, NEW t, NEW o, NEW E, NEW F,
         Enclosed(a, b, c, d, h, s, n, g, t, o, E, F),
         NEW p \in Plane, \A q \in F : q.x < p.x, Cross(a, b, p) >= 0, Cross(c, d, p) >= 0
  PROVE  Enclosed(a, b, c, d, h, s, n, g, t, o, E, F \cup {Mirror(p)})
<1>1. Between(a, b, E, F \cup {Mirror(p)}) /\ Between(c, d, E, F \cup {Mirror(p)})
  BY BetweenMore DEF Enclosed
<1>2. Mirror(p) \in Plane /\ Mirror(p).x = p.x
  BY Mirrored
<1>3. g[o].x < Mirror(p).x /\ t \in Nat /\ o \in Nat /\ t <= o /\ F \subseteq Plane /\ Covers(g, t, o, F)
  <2>1. o \in t..o
    BY DEF Enclosed
  <2> QED
    BY <1>2, <2>1 DEF Enclosed, Covers
<1>4. Covers(g, t, o, F \cup {Mirror(p)})
  BY <1>2, <1>3, CoversBeyond
<1> QED
  BY <1>1, <1>2, <1>4 DEF Enclosed

\* A point p arrives between the lines.  The line cd moves: it now runs from
\* the tangent's entry to p.  It passes between all points, and both hulls
\* still cover them.
LEMMA PointNarrows ==
  ASSUME NEW a, NEW b, NEW c, NEW d, NEW h, NEW s, NEW n, NEW g, NEW t, NEW o, NEW E, NEW F,
         Enclosed(a, b, c, d, h, s, n, g, t, o, E, F),
         NEW p \in Plane, UpTo(E, p), \A q \in F : q.x < p.x, Cross(a, b, p) >= 0, Cross(c, d, p) <= 0,
         NEW k, TangentScan(h, s, n, p, k), h[k].x < p.x,
         NEW e, Pops(g, t, o, Mirror(p), e), NEW f, Pushes(f, g, t, e, Mirror(p))
  PROVE  Enclosed(a, b, h[k], p, h, k, n, f, t, e + 1, E, F \cup {Mirror(p)})
<1> DEFINE mp == Mirror(p)
<1>. /\ s \in Nat /\ n \in Nat /\ s <= n /\ E \subseteq Plane /\ Covers(h, s, n, E)
     /\ t \in Nat /\ o \in Nat /\ t <= o /\ F \subseteq Plane /\ Covers(g, t, o, F)
     /\ a \in Plane /\ b \in Plane /\ a.x < b.x /\ Mirror(a) = g[t] /\ b = h[n]
     /\ c \in Plane /\ d \in Plane /\ c.x < d.x /\ c = h[s] /\ Mirror(d) = g[o]
     /\ Between(a, b, E, F) /\ Between(c, d, E, F)
  BY DEF Enclosed
<1>0. /\ k \in s..n /\ (\A i \in s + 1..k : Cross(h[i - 1], p, h[i]) >= 0)
      /\ k < n => Cross(h[k], p, h[k + 1]) < 0
      /\ e \in t..o /\ (\A j \in e + 1..o : Cross(g[j - 1], g[j], mp) >= 0)
      /\ e > t => Cross(g[e - 1], g[e], mp) < 0
      /\ (\A j \in t..e : f[j] = g[j]) /\ f[e + 1] = mp
  BY DEF TangentScan, Pops, Pushes
<1>1. Covers(h, k, n, E)
  BY <1>0, CoversFrom
<1>2. /\ mp \in Plane /\ mp.x = p.x /\ Mirror(mp) = p
      /\ Mirror(c) \in Plane /\ Mirror(c).x = c.x /\ Mirror(d) \in Plane /\ Mirror(d).x = d.x
      /\ Cross(Mirror(c), Mirror(d), mp) = -Cross(c, d, p) /\ Cross(c, d, p) \in Int
  BY Mirrored, CrossValue
<1>3. /\ \A j \in s..n : h[j] \in Plane /\ h[j] \in E
      /\ s \in s..n /\ n \in s..n /\ o \in t..o /\ g[o] \in F
  BY DEF Covers
<1>4. Covers(f, t, e + 1, F \cup {mp})
  <2> HIDE DEF mp
  <2>1. Mirror(c).x < g[o].x /\ (\A q \in F : Cross(Mirror(c), g[o], q) <= 0)
        /\ Cross(Mirror(c), g[o], mp) >= 0
    BY <1>2 DEF Between, Below
  <2>2. (\A q \in F : q.x < mp.x) /\ f[e + 1] = mp
        /\ (\A j \in e + 1..o : Cross(g[j - 1], g[j], mp) >= 0)
        /\ (e > t => Cross(g[e - 1], g[e], mp) < 0)
    BY <1>0, <1>2
  <2> DEFINE l == Mirror(c)
  <2>3. l \in Plane /\ l.x < g[o].x /\ (\A q \in F : Cross(l, g[o], q) <= 0) /\ Cross(l, g[o], mp) >= 0
    BY <1>2, <2>1
  <2> HIDE DEF l
  <2> QED
    BY <1>0, <1>2, <2>2, <2>3, CoversPushed
<1>5. \A j \in s..n : Cross(h[k], p, h[j]) <= 0
  BY <1>0, <1>3, TangentAboveChainUpTo DEF Covers, UpTo
<1>6. c.x < p.x
  BY <1>2, <1>3, Coordinates
<1>7. Below(h[k], p, E)
  <2> SUFFICES ASSUME NEW q \in E PROVE Cross(h[k], p, q) <= 0
    BY DEF Below
  <2>1. CASE q.x < p.x \/ q.x <= h[n].x
    <3>1. /\ h[s].x < d.x /\ (\A r \in E : Cross(h[s], d, r) <= 0) /\ Cross(h[s], d, p) <= 0
          /\ a.x < h[n].x /\ (\A r \in E : Cross(a, h[n], r) <= 0) /\ Cross(a, h[n], p) >= 0
          /\ h[s].x < p.x
      BY <1>6 DEF Between, Below
    <3>2. k \in s..n
      BY <1>0
    <3> QED
      BY <1>5, <2>1, <3>1, <3>2, TangentAboveAll
  <2>2. CASE q.x = p.x
    <3>1. q.y <= p.y /\ q \in Plane /\ h[k] \in Plane
      BY <1>0, <1>3, <2>2, Coordinates DEF UpTo
    <3> QED
      BY <2>2, <3>1, BelowAtTheEnd
  <2> QED
    BY <2>1, <2>2 DEF UpTo
<1>8. Below(Mirror(h[k]), mp, F \cup {mp})
  <2> SUFFICES ASSUME NEW q \in F \cup {mp} PROVE Cross(Mirror(h[k]), mp, q) <= 0
    BY DEF Below
  <2>0. h[k] \in Plane /\ h[k] \in E /\ Mirror(h[k]) \in Plane
    BY <1>0, <1>3, Mirrored
  <2>1. CASE q = mp
    BY <1>2, <2>0, <2>1, CrossPermuted
  <2>2. CASE q \in F
    <3> DEFINE u == Mirror(q)
    <3>1. q \in Plane /\ u \in Plane /\ u.x = q.x /\ Mirror(u) = q
      BY <2>2, Mirrored
    <3>2. /\ Cross(Mirror(a), Mirror(b), q) = -Cross(a, b, u) /\ Cross(a, b, u) \in Int
          /\ Cross(Mirror(c), Mirror(d), q) = -Cross(c, d, u) /\ Cross(c, d, u) \in Int
          /\ Cross(Mirror(h[k]), mp, q) = -Cross(h[k], p, u) /\ Cross(h[k], p, u) \in Int
      <4> HIDE DEF u
      <4>1. \A v, w \in Plane : Cross(Mirror(v), Mirror(w), Mirror(u)) = -Cross(v, w, u)
                                /\ Cross(v, w, u) \in Int
        BY <3>1, Mirrored, CrossValue
      <4> QED
        BY <2>0, <3>1, <4>1
    <3>3. Cross(a, b, u) >= 0 /\ Cross(c, d, u) >= 0 /\ u.x < p.x
      BY <2>2, <3>1, <3>2 DEF Between, Below
    <3>4. Cross(a, b, h[k]) <= 0 /\ Cross(c, d, h[k]) <= 0
      BY <2>0 DEF Between, Below
    <3> HIDE DEF u, mp
    <3>5. Cross(h[k], p, u) >= 0
      BY SMTT(30), <2>0, <3>1, <3>3, <3>4, BetweenLines
    <3> QED
      BY <3>2, <3>5
  <2> QED
    BY <2>1, <2>2
<1>9. Between(h[k], p, E, F \cup {mp})
  BY <1>7, <1>8 DEF Between
<1>10. Between(a, b, E, F \cup {mp})
  BY BetweenMore
<1>11. /\ k \in Nat /\ k <= n /\ e + 1 \in Nat /\ t <= e + 1 /\ f[t] = g[t] /\ f[e + 1] = mp
       /\ h[k] \in Plane /\ F \cup {mp} \subseteq Plane
  <2>1. t \in t..e
    BY <1>0
  <2> HIDE DEF mp
  <2> QED
    BY <1>0, <1>2, <1>3, <2>1
<1> HIDE DEF mp
<1>12. Enclosed(a, b, h[k], p, h, k, n, f, t, e + 1, E, F \cup {mp})
  BY <1>1, <1>4, <1>9, <1>10, <1>11 DEF Enclosed, mp
<1> QED
  BY <1>12 DEF mp

-----------------------------------------------------------------------------
(* Well-formed objects.                                                    *)

\* The x of a hull strictly increase and stay at most b.
HullUpTo(hull, b) ==
  /\ \A i, j \in DOMAIN hull : i < j => hull[i].x < hull[j].x
  /\ \A i \in DOMAIN hull : hull[i].x <= b

StartsInRange(m) == m.lowerStart <= Len(m.lower) /\ m.upperStart <= Len(m.upper)

\* The two extreme lines run left to right and end at most at b.
LinesUpTo(m, b) ==
  /\ m.rectangle[0].x < m.rectangle[2].x /\ m.rectangle[2].x <= b
  /\ m.rectangle[1].x < m.rectangle[3].x /\ m.rectangle[3].x <= b

WellFormed(m) ==
  /\ m \in Models
  /\ m.pointsInHull > 0 => /\ StartsInRange(m)
                           /\ HullUpTo(m.lower, m.lastX)
                           /\ HullUpTo(m.upper, m.lastX)
  /\ m.pointsInHull = 1 => m.rectangle[0].x = m.lastX /\ m.rectangle[1].x = m.lastX
  /\ m.pointsInHull >= 2 => LinesUpTo(m, m.lastX)

\* The fields of an object have their types.
LEMMA ModelParts ==
  ASSUME NEW m \in Models
  PROVE  /\ m.epsilon \in Nat /\ m.pointsInHull \in Nat /\ m.firstX \in Nat /\ m.lastX \in Nat
         /\ m.lowerStart \in Nat \ {0} /\ m.upperStart \in Nat \ {0}
         /\ m.lower \in Seq(StoredPoints) /\ m.upper \in Seq(StoredPoints)
         /\ m.rectangle \in [0..3 -> Corners]
         /\ \A k \in 0..3 : m.rectangle[k].x \in Nat /\ m.rectangle[k].y \in Int
<1>1. m.rectangle \in [0..3 -> Corners]
  BY DEF Models
<1>2. \A k \in 0..3 : m.rectangle[k] \in Corners
  BY <1>1
<1>3. \A c \in Corners : c.x \in Nat /\ c.y \in Int
  BY DEF Corners
<1> QED
  BY <1>1, <1>2, <1>3 DEF Models

\* An x of a point and an integer y make a corner of the rectangle.
LEMMA CornerPoint ==
  ASSUME NEW x \in Nat, NEW y \in Int
  PROVE  Point(x, y) \in Corners /\ Point(x, y).x = x
BY DEF Point, Corners

\* The entries of a hull are points with natural coordinates.
LEMMA StoredPointParts ==
  ASSUME NEW hull \in Seq(StoredPoints), NEW i \in 1..Len(hull)
  PROVE  hull[i] \in StoredPoints /\ hull[i].x \in Nat /\ hull[i].y \in Nat
<1>1. hull[i] \in StoredPoints
  OBVIOUS
<1> QED
  BY <1>1 DEF StoredPoints

-----------------------------------------------------------------------------
(* Hulls.                                                                  *)

\* A hull up to a is a hull up to any greater x.
LEMMA HullWiden ==
  ASSUME NEW hull \in Seq(StoredPoints), NEW a \in Nat, NEW b \in Nat, a <= b, HullUpTo(hull, a)
  PROVE  HullUpTo(hull, b)
<1>1. \A i \in DOMAIN hull : hull[i].x \in Nat
  BY StoredPointParts
<1> QED
  BY <1>1 DEF HullUpTo

\* Keeping a nonempty prefix of a hull and pushing a point to the right of
\* all of it yields a hull.
LEMMA HullPush ==
  ASSUME NEW hull \in Seq(StoredPoints), NEW b \in Nat, HullUpTo(hull, b),
         NEW e \in Nat, e <= Len(hull), NEW x \in Nat, x > b, NEW y \in Nat
  PROVE  LET h == Append(SubSeq(hull, 1, e), Point(x, y))
         IN /\ h \in Seq(StoredPoints)
            /\ Len(h) = e + 1
            /\ \A i \in 1..e : h[i] = hull[i]
            /\ h[e + 1] = Point(x, y)
            /\ HullUpTo(h, x)
<1> DEFINE k == SubSeq(hull, 1, e)
           h == Append(k, Point(x, y))
<1>1. k \in Seq(StoredPoints) /\ Len(k) = e /\ \A i \in 1..e : k[i] = hull[i]
  BY SubSeqProperties
<1>2. Point(x, y) \in StoredPoints /\ Point(x, y).x = x
  BY DEF Point, StoredPoints
<1> HIDE DEF k
<1>3. h \in Seq(StoredPoints) /\ Len(h) = e + 1 /\ h[e + 1] = Point(x, y)
      /\ \A i \in 1..e : h[i] = hull[i]
  BY SMTT(30), <1>1, <1>2
<1>4. DOMAIN h = 1..(e + 1) /\ DOMAIN hull = 1..Len(hull)
  BY <1>3
<1>5. \A i \in 1..e : hull[i].x < x /\ hull[i].x \in Nat
  BY SMTT(30), <1>4, StoredPointParts DEF HullUpTo
<1>6. HullUpTo(h, x)
  <2> HIDE DEF h
  <2>1. ASSUME NEW i \in 1..(e + 1), NEW j \in 1..(e + 1), i < j
        PROVE  h[i].x < h[j].x
    <3>1. i \in 1..e /\ h[i].x = hull[i].x
      BY <1>3, <2>1
    <3>2. CASE j = e + 1
      BY <3>1, <3>2, <1>2, <1>3, <1>5
    <3>3. CASE j # e + 1
      BY SMTT(30), <3>1, <3>3, <2>1, <1>3, <1>4 DEF HullUpTo
    <3> QED
      BY <3>2, <3>3
  <2>2. ASSUME NEW i \in 1..(e + 1) PROVE h[i].x <= x
    BY <1>2, <1>3, <1>5
  <2> QED
    BY <2>1, <2>2, <1>4 DEF HullUpTo
<1> QED
  BY <1>1, <1>3, <1>6 DEF k

-----------------------------------------------------------------------------
(* The scans.                                                              *)

\* The scan of the lower hull ends on an entry of the hull.
LEMMA LowerTangentInRange ==
  ASSUME NEW m \in Models, m.lowerStart <= Len(m.lower), NEW p
  PROVE  LowerTangent(m, p) \in m.lowerStart .. Len(m.lower)
<1> DEFINE S == {i \in m.lowerStart + 1 .. Len(m.lower) :
                   SlopeGT(Minus(LowerAt(m, i), p), Minus(LowerAt(m, i - 1), p))}
                \cup {Len(m.lower) + 1}
<1>1. m.lowerStart \in Nat /\ Len(m.lower) \in Nat
  BY ModelParts
<1>2. S \subseteq m.lowerStart + 1 .. Len(m.lower) + 1
  BY <1>1
<1>3. S \subseteq Nat /\ S # {}
  BY <1>1, <1>2
<1> HIDE DEF S
<1>4. Min(S) \in S
  BY <1>3, MinOfNaturals
<1>5. LowerTangent(m, p) = Min(S) - 1
  BY DEF LowerTangent, S
<1>6. Min(S) \in m.lowerStart + 1 .. Len(m.lower) + 1
  BY <1>2, <1>4
<1> QED
  BY <1>1, <1>5, <1>6

\* The scan of the upper hull ends on an entry of the hull, and never on the
\* entry just pushed at the x of p: seen from p that entry is vertical, and
\* compares as worse than any entry to the left.
LEMMA UpperTangentInRange ==
  ASSUME NEW m \in Models, m.upperStart <= Len(m.upper),
         NEW x \in Nat, NEW y \in Nat, m.epsilon # 0,
         m.upperStart < Len(m.upper) => m.upper[Len(m.upper) - 1].x < x,
         m.upper[Len(m.upper)].x = x => /\ m.upperStart < Len(m.upper)
                                        /\ m.upper[Len(m.upper)].y = y
  PROVE  LET k == UpperTangent(m, Point(x, y - m.epsilon))
         IN /\ k \in m.upperStart .. Len(m.upper)
            /\ m.upper[Len(m.upper)].x = x => k # Len(m.upper)
<1> DEFINE p == Point(x, y - m.epsilon)
           S == {i \in m.upperStart + 1 .. Len(m.upper) :
                   SlopeLT(Minus(UpperAt(m, i), p), Minus(UpperAt(m, i - 1), p))}
                \cup {Len(m.upper) + 1}
           n == Len(m.upper)
<1>1. m.upperStart \in Nat \ {0} /\ n \in Nat /\ m.epsilon \in Nat
  BY ModelParts
<1>2. S \subseteq m.upperStart + 1 .. n + 1
  BY <1>1
<1>3. S \subseteq Nat /\ S # {}
  BY <1>1, <1>2
<1>4. ASSUME m.upper[n].x = x PROVE n \in S
  <2>1. n \in m.upperStart + 1 .. n /\ n - 1 \in 1..n /\ n \in 1..n
    BY SMTT(30), <1>1, <1>4
  <2>2. m.upper \in Seq(StoredPoints)
    BY ModelParts
  <2>3. m.upper[n - 1].x \in Nat /\ m.upper[n - 1].y \in Nat /\ m.upper[n].y \in Nat
    BY <2>1, <2>2, StoredPointParts
  <2>4. m.upper[n - 1].x < x /\ m.upper[n].y = y
    BY <1>1, <1>4, <2>1
  <2> DEFINE s == Minus(UpperAt(m, n), p)
             t == Minus(UpperAt(m, n - 1), p)
  <2>5. s.dx = 0 /\ s.dy = 2 * m.epsilon /\ t.dx \in Int /\ t.dx < 0 /\ t.dy \in Int
    <3>1. /\ s = [dx |-> m.upper[n].x - x, dy |-> (m.upper[n].y + m.epsilon) - (y - m.epsilon)]
          /\ t = [dx |-> m.upper[n - 1].x - x,
                  dy |-> (m.upper[n - 1].y + m.epsilon) - (y - m.epsilon)]
      BY DEF Minus, UpperAt, Point
    <3>2. s = [dx |-> x - x, dy |-> (y + m.epsilon) - (y - m.epsilon)]
      BY <3>1, <1>4, <2>4
    <3> HIDE DEF s, t
    <3>3. s.dx = x - x /\ s.dy = (y + m.epsilon) - (y - m.epsilon)
      BY <3>2
    <3>4. t.dx = m.upper[n - 1].x - x /\ t.dy = (m.upper[n - 1].y + m.epsilon) - (y - m.epsilon)
      BY <3>1
    <3>5. s.dx = 0 /\ s.dy = 2 * m.epsilon
      BY <1>1, <3>3
    <3>6. t.dx \in Int /\ t.dx < 0
      BY SMTT(30), <2>3, <2>4, <3>4
    <3>7. t.dy \in Int
      BY SMTT(30), <1>1, <2>3, <3>4
    <3> QED
      BY <3>5, <3>6, <3>7
  <2> HIDE DEF s, t
  <2>6. s.dx * t.dy = 0
    BY <2>5
  <2>7. s.dy * t.dx < 0
    <3> DEFINE a == m.epsilon
               b == t.dx
    <3>1. a \in Nat /\ a > 0 /\ b \in Int /\ b < 0
      BY <1>1, <2>5
    <3> HIDE DEF a, b
    <3>2. (2 * a) * b < 0
      BY <3>1
    <3> QED
      BY <2>5, <3>2 DEF a, b
  <2>8. SlopeLT(s, t)
    BY <2>6, <2>7 DEF SlopeLT
  <2> QED
    BY <2>1, <2>8 DEF s, t
<1> HIDE DEF S
<1>5. Min(S) \in S /\ \A i \in S : Min(S) <= i
  BY <1>3, MinOfNaturals
<1>6. UpperTangent(m, p) = Min(S) - 1
  BY DEF UpperTangent, S
<1>7. Min(S) \in m.upperStart + 1 .. n + 1
  BY <1>2, <1>5
<1> HIDE DEF n, p
<1>8. UpperTangent(m, p) \in m.upperStart .. n
  BY <1>1, <1>6, <1>7
<1>9. ASSUME m.upper[n].x = x PROVE UpperTangent(m, p) # n
  <2>1. Min(S) <= n
    BY <1>4, <1>5, <1>9
  <2> QED
    BY <1>1, <1>6, <1>7, <2>1
<1> QED
  BY <1>8, <1>9 DEF n, p

\* Popping never goes below the start of the hull.
LEMMA HullEndsInRange ==
  ASSUME NEW m \in Models, NEW p
  PROVE  /\ m.upperStart <= Len(m.upper) => UpperHullEnd(m, p) \in m.upperStart .. Len(m.upper)
         /\ m.lowerStart <= Len(m.lower) => LowerHullEnd(m, p) \in m.lowerStart .. Len(m.lower)
<1> DEFINE U == {e \in m.upperStart + 1 .. Len(m.upper) :
                   Cross(UpperAt(m, e - 1), UpperAt(m, e), p) > 0} \cup {m.upperStart}
           L == {e \in m.lowerStart + 1 .. Len(m.lower) :
                   Cross(LowerAt(m, e - 1), LowerAt(m, e), p) < 0} \cup {m.lowerStart}
<1>1. /\ m.upperStart \in Nat /\ Len(m.upper) \in Nat
      /\ m.lowerStart \in Nat /\ Len(m.lower) \in Nat
  BY ModelParts
<1>2. ASSUME m.upperStart <= Len(m.upper)
      PROVE  UpperHullEnd(m, p) \in m.upperStart .. Len(m.upper)
  <2>1. U \subseteq m.upperStart .. Len(m.upper) /\ U # {}
    BY <1>1, <1>2
  <2>2. U \subseteq 0 .. Len(m.upper)
    BY <1>1, <2>1
  <2> HIDE DEF U
  <2>3. Max(U) \in U
    BY <1>1, <2>1, <2>2, MaxOfNaturals
  <2> QED
    BY <2>1, <2>3 DEF UpperHullEnd, U
<1>3. ASSUME m.lowerStart <= Len(m.lower)
      PROVE  LowerHullEnd(m, p) \in m.lowerStart .. Len(m.lower)
  <2>1. L \subseteq m.lowerStart .. Len(m.lower) /\ L # {}
    BY <1>1, <1>3
  <2>2. L \subseteq 0 .. Len(m.lower)
    BY <1>1, <2>1
  <2> HIDE DEF L
  <2>3. Max(L) \in L
    BY <1>1, <2>1, <2>2, MaxOfNaturals
  <2> QED
    BY <2>1, <2>3 DEF LowerHullEnd, L
<1> QED
  BY <1>2, <1>3

-----------------------------------------------------------------------------
(* add_point, branch by branch.                                            *)

\* Overwriting the two corners of a line, or the left or the right end of both.
LEMMA LeftCorners ==
  ASSUME NEW f \in [0..3 -> Corners], NEW a \in Corners, NEW b \in Corners
  PROVE  LET g == [f EXCEPT ![0] = a, ![1] = b]
         IN g \in [0..3 -> Corners] /\ g[0] = a /\ g[1] = b
OBVIOUS

\* SecondPoint sets corners 2 and 3.
LEMMA RightCorners ==
  ASSUME NEW f \in [0..3 -> Corners], NEW a \in Corners, NEW b \in Corners
  PROVE  LET g == [f EXCEPT ![2] = a, ![3] = b]
         IN /\ g \in [0..3 -> Corners] /\ g[2] = a /\ g[3] = b
            /\ g[0] = f[0] /\ g[1] = f[1]
OBVIOUS

\* NarrowMaxSlope moves corners 1 and 3.
LEMMA MaxSlopeCorners ==
  ASSUME NEW f \in [0..3 -> Corners], NEW a \in Corners, NEW b \in Corners
  PROVE  LET g == [f EXCEPT ![1] = a, ![3] = b]
         IN g[1] = a /\ g[3] = b /\ g[0] = f[0] /\ g[2] = f[2]
OBVIOUS

\* NarrowMinSlope moves corners 0 and 2.
LEMMA MinSlopeCorners ==
  ASSUME NEW f \in [0..3 -> Corners], NEW a \in Corners, NEW b \in Corners
  PROVE  LET g == [f EXCEPT ![0] = a, ![2] = b]
         IN g[0] = a /\ g[2] = b /\ g[1] = f[1] /\ g[3] = f[3]
OBVIOUS

\* Updates of one or several fields of a model object.
LEMMA HullUpdate ==
  ASSUME NEW m \in Models, NEW u \in Seq(StoredPoints), NEW l \in Seq(StoredPoints),
         NEW us \in Nat \ {0}, NEW ls \in Nat \ {0}
  PROVE  [m EXCEPT !.upper = u, !.lower = l, !.upperStart = us, !.lowerStart = ls] \in Models
BY DEF Models

\* Setting the counters and the left corners leaves an object.
LEMMA CornerUpdate ==
  ASSUME NEW m \in Models, NEW f \in Nat, NEW l \in Nat, NEW n \in Nat,
         NEW a \in Corners, NEW b \in Corners
  PROVE  [m EXCEPT !.firstX = f, !.lastX = l, !.pointsInHull = n,
                   !.rectangle[0] = a, !.rectangle[1] = b] \in Models
BY DEF Models

\* So does advancing last_x and the number of points.
LEMMA CountUpdate ==
  ASSUME NEW m \in Models, NEW l \in Nat, NEW n \in Nat
  PROVE  [m EXCEPT !.lastX = l, !.pointsInHull = n] \in Models
BY DEF Models

\* So does emptying the hulls.
LEMMA ClearUpdate ==
  ASSUME NEW m \in Models, NEW s \in Seq(StoredPoints)
  PROVE  [m EXCEPT !.pointsInHull = 0, !.lower = s, !.upper = s] \in Models
BY DEF Models

\* The first point of a segment makes both hulls and the left corners.
LEMMA FirstPointWellFormed ==
  ASSUME NEW m \in Models, NEW x \in Nat, NEW y \in Nat
  PROVE  WellFormed(FirstPoint(m, x, y))
<1> DEFINE r == FirstPoint(m, x, y)
           pt == Point(x, y)
<1>1. pt \in StoredPoints /\ pt.x = x
  BY DEF Point, StoredPoints
<1>2. Point(x, y + m.epsilon) \in Corners /\ Point(x, y - m.epsilon) \in Corners
      /\ Point(x, y + m.epsilon).x = x /\ Point(x, y - m.epsilon).x = x
  BY ModelParts DEF Point, Corners
<1> DEFINE h == RestartHulls(m, pt)
<1>a. <<pt>> \in Seq(StoredPoints)
  BY <1>1
<1>b. h \in Models
  <2>1. 1 \in Nat \ {0}
    OBVIOUS
  <2>2. [m EXCEPT !.upper = <<pt>>, !.lower = <<pt>>, !.upperStart = 1, !.lowerStart = 1] \in Models
    BY <1>a, <2>1, HullUpdate
  <2> QED
    BY <2>2 DEF RestartHulls
<1>h. /\ h.rectangle = m.rectangle /\ h.epsilon = m.epsilon
      /\ h.upper = <<pt>> /\ h.lower = <<pt>> /\ h.upperStart = 1 /\ h.lowerStart = 1
  BY DEF RestartHulls, Models
<1>3. /\ r.epsilon = m.epsilon /\ r.firstX = x /\ r.lastX = x /\ r.pointsInHull = 1
      /\ r.upper = <<pt>> /\ r.lower = <<pt>> /\ r.upperStart = 1 /\ r.lowerStart = 1
      /\ r.rectangle = [m.rectangle EXCEPT ![0] = Point(x, y + m.epsilon),
                                           ![1] = Point(x, y - m.epsilon)]
  BY DEF FirstPoint, RestartHulls, Models
<1>4. r.rectangle \in [0..3 -> Corners] /\ r.rectangle[0].x = x /\ r.rectangle[1].x = x
  <2>1. m.rectangle \in [0..3 -> Corners]
    BY ModelParts
  <2> DEFINE a == Point(x, y + m.epsilon)
             b == Point(x, y - m.epsilon)
             g == [m.rectangle EXCEPT ![0] = a, ![1] = b]
  <2>2. r.rectangle = g /\ a \in Corners /\ b \in Corners /\ a.x = x /\ b.x = x
    BY <1>2, <1>3
  <2> HIDE DEF r, a, b
  <2>3. g \in [0..3 -> Corners] /\ g[0] = a /\ g[1] = b
    BY <2>1, <2>2, LeftCorners
  <2> HIDE DEF g
  <2> QED
    BY <2>2, <2>3
<1>5. r \in Models
  BY <1>2, <1>b, CornerUpdate DEF FirstPoint
<1>6. HullUpTo(<<pt>>, x)
  BY <1>1 DEF HullUpTo
<1> QED
  BY <1>3, <1>4, <1>5, <1>6 DEF WellFormed, StartsInRange

\* The second point makes both extreme lines, from left to right.
LEMMA SecondPointWellFormed ==
  ASSUME NEW m, WellFormed(m), m.pointsInHull = 1,
         NEW x \in Nat, NEW y \in Nat, x > m.lastX
  PROVE  WellFormed(SecondPoint(m, x, y))
<1> DEFINE r == SecondPoint(m, x, y)
           pt == Point(x, y)
<1>1. m \in Models /\ StartsInRange(m) /\ HullUpTo(m.lower, m.lastX) /\ HullUpTo(m.upper, m.lastX)
      /\ m.rectangle[0].x = m.lastX /\ m.rectangle[1].x = m.lastX
  BY DEF WellFormed
<1>2. Point(x, y + m.epsilon) \in Corners /\ Point(x, y - m.epsilon) \in Corners
      /\ Point(x, y + m.epsilon).x = x /\ Point(x, y - m.epsilon).x = x
  BY SMTT(30), <1>1, ModelParts DEF Point, Corners
<1>3. /\ r.epsilon = m.epsilon /\ r.firstX = m.firstX /\ r.lastX = x /\ r.pointsInHull = 2
      /\ r.upper = Append(m.upper, pt) /\ r.lower = Append(m.lower, pt)
      /\ r.upperStart = m.upperStart /\ r.lowerStart = m.lowerStart
      /\ r.rectangle = [m.rectangle EXCEPT ![2] = Point(x, y - m.epsilon),
                                           ![3] = Point(x, y + m.epsilon)]
  BY <1>1 DEF SecondPoint, Models
<1>4. r.rectangle \in [0..3 -> Corners] /\ LinesUpTo(r, x)
  <2>1. m.rectangle \in [0..3 -> Corners] /\ m.lastX \in Nat
    BY <1>1, ModelParts
  <2> DEFINE a == Point(x, y - m.epsilon)
             b == Point(x, y + m.epsilon)
             g == [m.rectangle EXCEPT ![2] = a, ![3] = b]
  <2>2. r.rectangle = g /\ a \in Corners /\ b \in Corners /\ a.x = x /\ b.x = x
    BY <1>2, <1>3
  <2> HIDE DEF r, a, b
  <2>3. /\ g \in [0..3 -> Corners] /\ g[2] = a /\ g[3] = b
        /\ g[0] = m.rectangle[0] /\ g[1] = m.rectangle[1]
    BY <2>1, <2>2, RightCorners
  <2> HIDE DEF g
  <2> QED
    BY <1>1, <2>1, <2>2, <2>3 DEF LinesUpTo
<1>5. ASSUME NEW h \in {m.upper, m.lower}
      PROVE  /\ Append(h, pt) \in Seq(StoredPoints)
             /\ Len(Append(h, pt)) = Len(h) + 1
             /\ HullUpTo(Append(h, pt), x)
  <2>1. h \in Seq(StoredPoints) /\ HullUpTo(h, m.lastX) /\ Len(h) \in Nat /\ m.lastX \in Nat
    BY <1>1, <1>5, ModelParts
  <2>2. SubSeq(h, 1, Len(h)) = h
    BY <2>1, SubSeqFull
  <2>3. /\ Append(SubSeq(h, 1, Len(h)), pt) \in Seq(StoredPoints)
        /\ Len(Append(SubSeq(h, 1, Len(h)), pt)) = Len(h) + 1
        /\ HullUpTo(Append(SubSeq(h, 1, Len(h)), pt), x)
    BY <2>1, HullPush
  <2> QED
    BY <2>2, <2>3
<1>6. r \in Models
  BY <1>1, <1>2, <1>5 DEF SecondPoint, Models
<1>7. StartsInRange(r)
  <2> HIDE DEF r, pt
  <2>1. Len(r.lower) = Len(m.lower) + 1 /\ Len(r.upper) = Len(m.upper) + 1
    BY <1>3, <1>5
  <2>2. /\ m.lower \in Seq(StoredPoints) /\ m.upper \in Seq(StoredPoints)
        /\ m.lowerStart \in Nat /\ m.upperStart \in Nat
    BY <1>1, ModelParts
  <2>3. Len(m.lower) \in Nat /\ Len(m.upper) \in Nat
    BY <2>2
  <2>4. m.lowerStart <= Len(m.lower) /\ m.upperStart <= Len(m.upper)
    BY <1>1 DEF StartsInRange
  <2>5. r.lowerStart = m.lowerStart /\ r.upperStart = m.upperStart
    BY <1>3
  <2> QED
    BY <2>1, <2>2, <2>3, <2>4, <2>5 DEF StartsInRange
<1> QED
  BY <1>3, <1>4, <1>5, <1>6, <1>7 DEF WellFormed

\* Moving the two corners of one extreme line, the start of the hull it rests
\* on, and the other hull.
LEMMA NarrowUpdate ==
  ASSUME NEW m \in Models, NEW a \in Corners, NEW b \in Corners,
         NEW k \in Nat \ {0}, NEW h \in Seq(StoredPoints)
  PROVE  /\ [m EXCEPT !.rectangle[1] = a, !.rectangle[3] = b, !.lowerStart = k, !.upper = h]
              \in Models
         /\ [m EXCEPT !.rectangle[0] = a, !.rectangle[2] = b, !.upperStart = k, !.lower = h]
              \in Models
<1>1. [m EXCEPT !.rectangle[1] = a, !.rectangle[3] = b, !.lowerStart = k, !.upper = h] \in Models
  BY DEF Models
<1>2. [m EXCEPT !.rectangle[0] = a, !.rectangle[2] = b, !.upperStart = k, !.lower = h] \in Models
  BY DEF Models
<1> QED
  BY <1>1, <1>2

\* A hull entry, shifted by epsilon, is a corner at the x of the entry.
LEMMA HullCorner ==
  ASSUME NEW m \in Models, NEW i
  PROVE  /\ i \in 1..Len(m.lower) => /\ LowerAt(m, i) \in Corners
                                     /\ LowerAt(m, i).x = m.lower[i].x
         /\ i \in 1..Len(m.upper) => /\ UpperAt(m, i) \in Corners
                                     /\ UpperAt(m, i).x = m.upper[i].x
<1>1. m.epsilon \in Nat /\ m.lower \in Seq(StoredPoints) /\ m.upper \in Seq(StoredPoints)
  BY ModelParts
<1>2. ASSUME i \in 1..Len(m.lower)
      PROVE  LowerAt(m, i) \in Corners /\ LowerAt(m, i).x = m.lower[i].x
  <2>1. m.lower[i].x \in Nat /\ m.lower[i].y \in Nat
    BY <1>1, <1>2, StoredPointParts
  <2> QED
    BY <1>1, <2>1 DEF LowerAt, Point, Corners
<1>3. ASSUME i \in 1..Len(m.upper)
      PROVE  UpperAt(m, i) \in Corners /\ UpperAt(m, i).x = m.upper[i].x
  <2>1. m.upper[i].x \in Nat /\ m.upper[i].y \in Nat
    BY <1>1, <1>3, StoredPointParts
  <2> QED
    BY <1>1, <2>1 DEF UpperAt, Point, Corners
<1> QED
  BY <1>2, <1>3

\* Between the two steps of an inner point the upper hull may already hold
\* the new point, whose x is beyond lastX.
Narrowing(m, x, y) ==
  /\ m \in Models
  /\ m.epsilon # 0
  /\ StartsInRange(m)
  /\ m.lastX < x
  /\ HullUpTo(m.lower, m.lastX)
  /\ \/ HullUpTo(m.upper, m.lastX)
     \/ /\ HullUpTo(m.upper, x)
        /\ m.upperStart < Len(m.upper)
        /\ m.upper[Len(m.upper)] = Point(x, y)
        /\ m.upper[Len(m.upper) - 1].x < x
  /\ LinesUpTo(m, x)

\* What moving the maximum-slope line leaves in each field of the object.
MaxNarrowed(m, x, y, r, k, e) ==
  /\ k \in m.lowerStart..Len(m.lower) /\ e \in m.upperStart..Len(m.upper)
  /\ r \in Models
  /\ r.epsilon = m.epsilon /\ r.lastX = m.lastX /\ r.pointsInHull = m.pointsInHull
  /\ r.lower = m.lower /\ r.lowerStart = k /\ r.upperStart = m.upperStart
  /\ Len(r.upper) = e + 1 /\ r.upper[e + 1] = Point(x, y)
  /\ \A i \in 1..e : r.upper[i] = m.upper[i]
  /\ HullUpTo(r.upper, x)
  /\ r.rectangle[1] = LowerAt(m, k) /\ r.rectangle[3] = Point(x, y + m.epsilon)
  /\ r.rectangle[0] = m.rectangle[0] /\ r.rectangle[2] = m.rectangle[2]
  /\ r.rectangle[1].x < x /\ r.rectangle[3].x = x /\ m.upper[e].x < x

\* What moving the maximum-slope line leaves in the object.
LEMMA NarrowMaxSlopeParts ==
  ASSUME NEW m, NEW x \in Nat, NEW y \in Nat,
         Narrowing(m, x, y), HullUpTo(m.upper, m.lastX),
         NEW p1, p1 = Point(x, y + m.epsilon)
  PROVE  MaxNarrowed(m, x, y, NarrowMaxSlope(m, x, y), LowerTangent(m, p1), UpperHullEnd(m, p1))
<1> DEFINE r  == NarrowMaxSlope(m, x, y)
           k  == LowerTangent(m, p1)
           e  == UpperHullEnd(m, p1)
           h  == Append(SubSeq(m.upper, 1, e), Point(x, y))
           g  == [m.rectangle EXCEPT ![1] = LowerAt(m, k), ![3] = p1]
<1>1. /\ m \in Models /\ m.epsilon # 0 /\ StartsInRange(m) /\ m.lastX < x
      /\ HullUpTo(m.lower, m.lastX) /\ LinesUpTo(m, x)
  BY DEF Narrowing
<1>2. k \in m.lowerStart .. Len(m.lower) /\ e \in m.upperStart .. Len(m.upper)
  BY <1>1, LowerTangentInRange, HullEndsInRange DEF StartsInRange
<1>3. /\ m.lowerStart \in Nat \ {0} /\ m.upperStart \in Nat \ {0} /\ m.epsilon \in Nat
      /\ m.lastX \in Nat /\ Len(m.lower) \in Nat /\ Len(m.upper) \in Nat
      /\ m.upper \in Seq(StoredPoints) /\ m.rectangle \in [0..3 -> Corners]
  BY <1>1, ModelParts
<1> HIDE DEF k, e
<1>4. /\ k \in Nat \ {0} /\ k \in 1..Len(m.lower)
      /\ e \in Nat \ {0} /\ e <= Len(m.upper) /\ m.upperStart <= e
  BY SMTT(30), <1>2, <1>3
<1>5. /\ h \in Seq(StoredPoints) /\ Len(h) = e + 1 /\ h[e + 1] = Point(x, y)
      /\ (\A i \in 1..e : h[i] = m.upper[i]) /\ HullUpTo(h, x)
  BY SMTT(30), <1>1, <1>3, <1>4, HullPush
<1>6. p1 \in Corners /\ p1.x = x /\ LowerAt(m, k) \in Corners /\ LowerAt(m, k).x = m.lower[k].x
  <2>1. y + m.epsilon \in Int
    BY <1>3
  <2>2. p1 \in Corners /\ p1.x = x
    BY <2>1, CornerPoint
  <2>3. LowerAt(m, k) \in Corners /\ LowerAt(m, k).x = m.lower[k].x
    BY <1>1, <1>4, HullCorner
  <2> QED
    BY <2>2, <2>3
<1>7. m.lower[k].x < x /\ m.upper[e].x < x
  <2>1. m.lower[k].x <= m.lastX /\ m.upper[e].x <= m.lastX
        /\ m.lower[k].x \in Nat /\ m.upper[e].x \in Nat
    BY SMTT(30), <1>1, <1>3, <1>4, StoredPointParts, ModelParts DEF HullUpTo
  <2> DEFINE c == m.lower[k].x
             d == m.upper[e].x
             b == m.lastX
  <2>2. b < x /\ b \in Nat
    BY <1>1, <1>3
  <2>3. c <= b /\ d <= b /\ c \in Nat /\ d \in Nat
    BY <2>1
  <2> HIDE DEF b, c, d
  <2>4. c < x /\ d < x
    BY <2>2, <2>3
  <2> QED
    BY <2>4 DEF c, d
<1> HIDE DEF h
<1>8. r = [m EXCEPT !.rectangle[1] = LowerAt(m, k), !.rectangle[3] = p1, !.lowerStart = k, !.upper = h]
  BY SMTT(30) DEF NarrowMaxSlope, k, e, h
<1> HIDE DEF r
<1>9. r \in Models
  <2> DEFINE a == LowerAt(m, k)
  <2>1. a \in Corners
    BY <1>6
  <2> HIDE DEF a
  <2>2. [m EXCEPT !.rectangle[1] = a, !.rectangle[3] = p1, !.lowerStart = k, !.upper = h] \in Models
    BY <1>1, <1>4, <1>5, <1>6, <2>1, NarrowUpdate
  <2> QED
    BY <1>8, <2>2 DEF a
<1>10. /\ r.epsilon = m.epsilon /\ r.lower = m.lower /\ r.upper = h /\ r.lowerStart = k
       /\ r.upperStart = m.upperStart /\ r.lastX = m.lastX /\ r.pointsInHull = m.pointsInHull
       /\ r.rectangle = g
  BY <1>1, <1>8 DEF Models
<1>11. g[1] = LowerAt(m, k) /\ g[3] = p1 /\ g[0] = m.rectangle[0] /\ g[2] = m.rectangle[2]
  BY SMTT(30), <1>3, <1>6, MaxSlopeCorners
<1> HIDE DEF g
<1>12. MaxNarrowed(m, x, y, r, k, e)
  BY <1>2, <1>5, <1>6, <1>7, <1>9, <1>10, <1>11 DEF MaxNarrowed
<1> QED
  BY <1>12 DEF r, k, e

\* After it, or when it was not needed, the other line may still be moved.
LEMMA MaxSlopeStepNarrows ==
  ASSUME NEW m, NEW x \in Nat, NEW y \in Nat,
         Narrowing(m, x, y), HullUpTo(m.upper, m.lastX)
  PROVE  LET r == MaxSlopeStep(m, x, y)
         IN Narrowing(r, x, y) /\ r.pointsInHull = m.pointsInHull /\ r.lastX = m.lastX
<1> DEFINE r  == NarrowMaxSlope(m, x, y)
           p1 == Point(x, y + m.epsilon)
           k  == LowerTangent(m, p1)
           e  == UpperHullEnd(m, p1)
<1>0. MaxNarrowed(m, x, y, r, k, e)
  BY NarrowMaxSlopeParts
<1> HIDE DEF r, p1, k, e
<1>1. /\ m \in Models /\ m.epsilon # 0 /\ StartsInRange(m) /\ m.lastX < x
      /\ HullUpTo(m.lower, m.lastX) /\ LinesUpTo(m, x)
  BY DEF Narrowing
<1>2. /\ k \in m.lowerStart..Len(m.lower) /\ e \in m.upperStart..Len(m.upper)
      /\ r \in Models
      /\ r.epsilon = m.epsilon /\ r.lastX = m.lastX /\ r.pointsInHull = m.pointsInHull
      /\ r.lower = m.lower /\ r.lowerStart = k /\ r.upperStart = m.upperStart
      /\ Len(r.upper) = e + 1 /\ r.upper[e + 1] = Point(x, y)
      /\ \A i \in 1..e : r.upper[i] = m.upper[i]
      /\ HullUpTo(r.upper, x)
      /\ r.rectangle[0] = m.rectangle[0] /\ r.rectangle[2] = m.rectangle[2]
      /\ r.rectangle[1].x < x /\ r.rectangle[3].x = x /\ m.upper[e].x < x
  BY <1>0 DEF MaxNarrowed
<1>3. /\ m.lowerStart \in Nat \ {0} /\ m.upperStart \in Nat \ {0}
      /\ Len(m.lower) \in Nat /\ Len(m.upper) \in Nat
  BY <1>1, ModelParts
<1>4. e \in 1..e /\ m.upperStart < e + 1 /\ (e + 1) - 1 = e
  <2>1. /\ e \in m.upperStart..Len(m.upper) /\ m.upperStart \in Nat \ {0}
        /\ Len(m.upper) \in Nat
    BY <1>2, <1>3
  <2> QED
    BY <2>1
<1>5. LinesUpTo(r, x)
  BY <1>1, <1>2 DEF LinesUpTo
<1>6. StartsInRange(r)
  BY <1>2, <1>3, <1>4 DEF StartsInRange
<1>7. /\ r.upperStart < Len(r.upper) /\ r.upper[Len(r.upper)] = Point(x, y)
      /\ r.upper[Len(r.upper) - 1].x < x
  BY <1>2, <1>4
<1>8. Narrowing(r, x, y)
  BY <1>1, <1>2, <1>5, <1>6, <1>7 DEF Narrowing
<1> QED
  BY <1>2, <1>8 DEF MaxSlopeStep, r

\* What moving the minimum-slope line leaves in each field of the object.
MinNarrowed(m, x, y, r, k, e) ==
  /\ k \in m.upperStart..Len(m.upper) /\ e \in m.lowerStart..Len(m.lower)
  /\ r \in Models
  /\ r.epsilon = m.epsilon /\ r.lastX = m.lastX /\ r.pointsInHull = m.pointsInHull
  /\ r.upper = m.upper /\ r.upperStart = k /\ r.lowerStart = m.lowerStart
  /\ Len(r.lower) = e + 1 /\ r.lower[e + 1] = Point(x, y)
  /\ \A i \in 1..e : r.lower[i] = m.lower[i]
  /\ HullUpTo(r.lower, x)
  /\ r.rectangle[0] = UpperAt(m, k) /\ r.rectangle[2] = Point(x, y - m.epsilon)
  /\ r.rectangle[1] = m.rectangle[1] /\ r.rectangle[3] = m.rectangle[3]
  /\ r.rectangle[0].x < x /\ r.rectangle[2].x = x

\* What moving the minimum-slope line leaves in the object.
LEMMA NarrowMinSlopeParts ==
  ASSUME NEW m, NEW x \in Nat, NEW y \in Nat, Narrowing(m, x, y),
         NEW p2, p2 = Point(x, y - m.epsilon)
  PROVE  MinNarrowed(m, x, y, NarrowMinSlope(m, x, y), UpperTangent(m, p2), LowerHullEnd(m, p2))
<1> DEFINE r  == NarrowMinSlope(m, x, y)
           k  == UpperTangent(m, p2)
           e  == LowerHullEnd(m, p2)
           h  == Append(SubSeq(m.lower, 1, e), Point(x, y))
           n  == Len(m.upper)
           g  == [m.rectangle EXCEPT ![0] = UpperAt(m, k), ![2] = p2]
<1>1. /\ m \in Models /\ m.epsilon # 0 /\ StartsInRange(m) /\ m.lastX < x
      /\ HullUpTo(m.lower, m.lastX) /\ LinesUpTo(m, x)
  BY DEF Narrowing
<1>2. /\ m.lowerStart \in Nat \ {0} /\ m.upperStart \in Nat \ {0} /\ m.epsilon \in Nat
      /\ m.lastX \in Nat /\ Len(m.lower) \in Nat /\ n \in Nat
      /\ m.lower \in Seq(StoredPoints) /\ m.upper \in Seq(StoredPoints)
      /\ m.rectangle \in [0..3 -> Corners]
      /\ m.lowerStart <= Len(m.lower) /\ m.upperStart <= n
      /\ \A i \in 1..n : m.upper[i].x \in Nat
  BY <1>1, ModelParts, StoredPointParts DEF StartsInRange
<1>3. HullUpTo(m.upper, x)
  <2>1. HullUpTo(m.upper, m.lastX) \/ HullUpTo(m.upper, x)
    BY DEF Narrowing
  <2> QED
    BY <1>1, <1>2, <2>1, HullWiden
\* The last upper entry is either the new point or to the left of it.
<1>4. /\ m.upperStart < n => m.upper[n - 1].x < x
      /\ m.upper[n].x = x => m.upperStart < n /\ m.upper[n].y = y
  <2>1. CASE HullUpTo(m.upper, m.lastX)
    <3>1. \A i \in 1..n : m.upper[i].x < x
      BY SMTT(30), <1>1, <1>2, <2>1 DEF HullUpTo
    <3>2. n \in 1..n /\ (m.upperStart < n => n - 1 \in 1..n)
      BY SMTT(30), <1>2
    <3>3. m.upper[n].x < x /\ m.upper[n].x \in Nat
      BY <1>2, <3>1, <3>2
    <3>4. m.upper[n].x # x
      BY <3>3
    <3>5. m.upperStart < n => m.upper[n - 1].x < x
      BY <3>1, <3>2
    <3> QED
      BY <3>4, <3>5
  <2>2. CASE /\ m.upperStart < n /\ m.upper[n] = Point(x, y) /\ m.upper[n - 1].x < x
    BY <2>2 DEF Point
  <2> QED
    BY <2>1, <2>2 DEF Narrowing
<1>5. k \in m.upperStart .. n /\ (m.upper[n].x = x => k # n)
  BY <1>1, <1>2, <1>4, UpperTangentInRange
<1>6. e \in m.lowerStart .. Len(m.lower)
  BY <1>1, <1>2, HullEndsInRange
<1> HIDE DEF k, e
<1>7. /\ k \in Nat \ {0} /\ k \in 1..n
      /\ e \in Nat \ {0} /\ e <= Len(m.lower) /\ m.lowerStart <= e
  BY SMTT(30), <1>2, <1>5, <1>6
\* Hence the extreme line keeps a positive run.
<1>8. m.upper[k].x < x /\ m.upper[k].x \in Nat
  <2>1. m.upper[n].x <= x /\ n \in 1..n /\ DOMAIN m.upper = 1..n
    BY SMTT(30), <1>2, <1>3 DEF HullUpTo
  <2>2. CASE k = n
    BY SMTT(30), <1>2, <1>5, <2>1, <2>2
  <2>3. CASE k < n
    <3>1. m.upper[k].x < m.upper[n].x
      BY <1>3, <1>7, <2>1, <2>3 DEF HullUpTo
    <3>2. m.upper[k].x \in Nat /\ m.upper[n].x \in Nat
      BY <1>2, <1>7, <2>1
    <3> QED
      BY <2>1, <3>1, <3>2
  <2> QED
    BY <1>2, <1>7, <2>2, <2>3
<1>9. /\ h \in Seq(StoredPoints) /\ Len(h) = e + 1 /\ h[e + 1] = Point(x, y)
      /\ (\A i \in 1..e : h[i] = m.lower[i]) /\ HullUpTo(h, x)
  BY SMTT(30), <1>1, <1>2, <1>7, HullPush
<1>10. p2 \in Corners /\ p2.x = x /\ UpperAt(m, k) \in Corners /\ UpperAt(m, k).x = m.upper[k].x
  <2>1. y - m.epsilon \in Int
    BY SMTT(30), <1>2
  <2>2. p2 \in Corners /\ p2.x = x
    BY SMTT(30), <2>1, CornerPoint
  <2>3. UpperAt(m, k) \in Corners /\ UpperAt(m, k).x = m.upper[k].x
    BY SMTT(30), <1>1, <1>7, HullCorner
  <2> QED
    BY <2>2, <2>3
<1> HIDE DEF h
<1>11. r = [m EXCEPT !.rectangle[0] = UpperAt(m, k), !.rectangle[2] = p2, !.upperStart = k, !.lower = h]
  BY DEF NarrowMinSlope, k, e, h
<1> HIDE DEF r
<1>12. r \in Models
  <2> DEFINE a == UpperAt(m, k)
  <2>1. a \in Corners
    BY <1>10
  <2> HIDE DEF a
  <2>2. [m EXCEPT !.rectangle[0] = a, !.rectangle[2] = p2, !.upperStart = k, !.lower = h] \in Models
    BY <1>1, <1>7, <1>9, <1>10, <2>1, NarrowUpdate
  <2> QED
    BY <1>11, <2>2 DEF a
<1>13. /\ r.epsilon = m.epsilon /\ r.upper = m.upper /\ r.lower = h /\ r.upperStart = k
       /\ r.lowerStart = m.lowerStart /\ r.lastX = m.lastX /\ r.pointsInHull = m.pointsInHull
       /\ r.rectangle = g
  BY <1>1, <1>11 DEF Models
<1>14. g[0] = UpperAt(m, k) /\ g[2] = p2 /\ g[1] = m.rectangle[1] /\ g[3] = m.rectangle[3]
  BY SMTT(30), <1>2, <1>10, MinSlopeCorners
<1> HIDE DEF g
<1>15. MinNarrowed(m, x, y, r, k, e)
  BY <1>5, <1>6, <1>8, <1>9, <1>10, <1>12, <1>13, <1>14 DEF MinNarrowed
<1> QED
  BY <1>15 DEF r, k, e

\* After it, or when it was not needed, the object is well formed up to x.
LEMMA MinSlopeStepNarrows ==
  ASSUME NEW m, NEW x \in Nat, NEW y \in Nat, Narrowing(m, x, y)
  PROVE  LET r == MinSlopeStep(m, x, y)
         IN /\ r \in Models /\ StartsInRange(r) /\ LinesUpTo(r, x)
            /\ HullUpTo(r.lower, x) /\ HullUpTo(r.upper, x)
            /\ r.pointsInHull = m.pointsInHull /\ r.lastX = m.lastX
<1> DEFINE r  == NarrowMinSlope(m, x, y)
           p2 == Point(x, y - m.epsilon)
           k  == UpperTangent(m, p2)
           e  == LowerHullEnd(m, p2)
<1>0. MinNarrowed(m, x, y, r, k, e)
  BY NarrowMinSlopeParts
<1> HIDE DEF r, p2, k, e
<1>1. /\ m \in Models /\ StartsInRange(m) /\ m.lastX < x
      /\ HullUpTo(m.lower, m.lastX) /\ LinesUpTo(m, x)
  BY DEF Narrowing
<1>2. /\ k \in m.upperStart..Len(m.upper) /\ e \in m.lowerStart..Len(m.lower)
      /\ r \in Models
      /\ r.lastX = m.lastX /\ r.pointsInHull = m.pointsInHull
      /\ r.upper = m.upper /\ r.upperStart = k /\ r.lowerStart = m.lowerStart
      /\ Len(r.lower) = e + 1 /\ HullUpTo(r.lower, x)
      /\ r.rectangle[1] = m.rectangle[1] /\ r.rectangle[3] = m.rectangle[3]
      /\ r.rectangle[0].x < x /\ r.rectangle[2].x = x
  BY <1>0 DEF MinNarrowed
<1>3. /\ m.lowerStart \in Nat /\ m.upperStart \in Nat /\ m.lastX \in Nat
      /\ Len(m.lower) \in Nat /\ Len(m.upper) \in Nat
      /\ m.lower \in Seq(StoredPoints) /\ m.upper \in Seq(StoredPoints)
  BY <1>1, ModelParts
<1>4. HullUpTo(m.upper, x) /\ HullUpTo(m.lower, x)
  <2>1. HullUpTo(m.upper, m.lastX) \/ HullUpTo(m.upper, x)
    BY DEF Narrowing
  <2> QED
    BY <1>1, <1>3, <2>1, HullWiden
<1>5. LinesUpTo(r, x)
  BY <1>1, <1>2 DEF LinesUpTo
<1>6. StartsInRange(r)
  BY <1>2, <1>3 DEF StartsInRange
<1> QED
  BY <1>1, <1>2, <1>4, <1>5, <1>6 DEF MinSlopeStep, r

\* An accepted point beyond the second keeps the object well formed.
LEMMA InnerPointWellFormed ==
  ASSUME NEW m, WellFormed(m), m.pointsInHull >= 2,
         NEW x \in Nat, NEW y \in Nat, x > m.lastX
  PROVE  WellFormed(InnerPoint(m, x, y))
<1> DEFINE narrowed == IF m.epsilon = 0 THEN m ELSE MinSlopeStep(MaxSlopeStep(m, x, y), x, y)
           r == [narrowed EXCEPT !.lastX = x, !.pointsInHull = @ + 1]
<1>1. m \in Models /\ m.pointsInHull \in Nat /\ m.lastX \in Nat
      /\ m.lower \in Seq(StoredPoints) /\ m.upper \in Seq(StoredPoints)
      /\ m.rectangle \in [0..3 -> Corners] /\ (\A k \in 0..3 : m.rectangle[k].x \in Nat)
  BY ModelParts DEF WellFormed
<1>2. StartsInRange(m) /\ HullUpTo(m.lower, m.lastX) /\ HullUpTo(m.upper, m.lastX)
      /\ LinesUpTo(m, m.lastX)
  BY <1>1 DEF WellFormed
<1>3. LinesUpTo(m, x)
  BY SMTT(30), <1>1, <1>2 DEF LinesUpTo
<1>4. /\ narrowed \in Models /\ StartsInRange(narrowed) /\ LinesUpTo(narrowed, x)
      /\ HullUpTo(narrowed.lower, x) /\ HullUpTo(narrowed.upper, x)
      /\ narrowed.pointsInHull = m.pointsInHull
  <2>1. CASE m.epsilon = 0
    <3>1. HullUpTo(m.lower, x) /\ HullUpTo(m.upper, x)
      BY SMTT(30), <1>1, <1>2, HullWiden
    <3> QED
      BY <1>1, <1>2, <1>3, <2>1, <3>1
  <2>2. CASE m.epsilon # 0
    <3>1. Narrowing(m, x, y)
      BY <1>1, <1>2, <1>3, <2>2 DEF Narrowing
    <3>2. /\ Narrowing(MaxSlopeStep(m, x, y), x, y)
          /\ MaxSlopeStep(m, x, y).pointsInHull = m.pointsInHull
      BY <1>2, <3>1, MaxSlopeStepNarrows
    <3> QED
      BY <2>2, <3>2, MinSlopeStepNarrows
  <2> QED
    BY <2>1, <2>2
<1> HIDE DEF narrowed
<1>5. /\ r.lastX = x /\ r.pointsInHull = m.pointsInHull + 1
      /\ r.lower = narrowed.lower /\ r.upper = narrowed.upper /\ r.rectangle = narrowed.rectangle
      /\ r.lowerStart = narrowed.lowerStart /\ r.upperStart = narrowed.upperStart
  BY <1>1, <1>4 DEF Models
<1>a. r \in Models
  <2>1. narrowed.pointsInHull + 1 \in Nat
    BY <1>1, <1>4
  <2> QED
    BY <1>4, <2>1, CountUpdate
<1> HIDE DEF r
<1>6. StartsInRange(r) /\ LinesUpTo(r, x)
  BY <1>4, <1>5 DEF StartsInRange, LinesUpTo
<1>7. WellFormed(r)
  BY <1>1, <1>4, <1>5, <1>a, <1>6 DEF WellFormed
<1> QED
  BY <1>7 DEF InnerPoint, r, narrowed

\* So do a refusal and a reset, which leave no point in the hulls.
LEMMA EmptiedWellFormed ==
  ASSUME NEW m \in Models, NEW x \in Nat
  PROVE  WellFormed(Refuse(m, x)) /\ WellFormed(ResetModel(m))
<1>1. Refuse(m, x) \in Models /\ Refuse(m, x).pointsInHull = 0
  BY DEF Refuse, Models
<1>2. ResetModel(m) \in Models /\ ResetModel(m).pointsInHull = 0
  <2>1. <<>> \in Seq(StoredPoints)
    OBVIOUS
  <2>2. ResetModel(m) \in Models
    BY <2>1, ClearUpdate DEF ResetModel
  <2> QED
    BY <2>2 DEF ResetModel, Models
<1> QED
  BY <1>1, <1>2 DEF WellFormed

\* add_point keeps a well-formed object well formed, whatever branch it takes.
LEMMA AddPointWellFormed ==
  ASSUME NEW m, WellFormed(m), NEW x \in Nat, NEW y \in Nat,
         m.pointsInHull > 0 => x > m.lastX
  PROVE  WellFormed(AddPoint(m, x, y))
<1>1. m \in Models /\ m.pointsInHull \in Nat
  BY ModelParts DEF WellFormed
<1>2. CASE m.pointsInHull = 0
  BY <1>1, <1>2, FirstPointWellFormed DEF AddPoint
<1>3. CASE m.pointsInHull = 1
  BY <1>3, SecondPointWellFormed DEF AddPoint
<1>4. CASE m.pointsInHull >= 2 /\ Accepts(m, x, y)
  BY <1>1, <1>4, InnerPointWellFormed DEF AddPoint
<1>5. CASE m.pointsInHull >= 2 /\ ~Accepts(m, x, y)
  BY <1>1, <1>5, EmptiedWellFormed DEF AddPoint
<1> QED
  BY <1>1, <1>2, <1>3, <1>4, <1>5

\* What add_point leaves in the counters of the object.
LEMMA AddPointCounters ==
  ASSUME NEW m, WellFormed(m), NEW x \in Nat, NEW y \in Nat,
         m.pointsInHull > 0 => x > m.lastX
  PROVE  LET r == AddPoint(m, x, y)
         IN /\ r.lastX = x
            /\ Accepts(m, x, y) => /\ r.pointsInHull = m.pointsInHull + 1
                                   /\ r.firstX = IF m.pointsInHull = 0 THEN x ELSE m.firstX
            /\ ~Accepts(m, x, y) => r = Refuse(m, x) /\ m.pointsInHull >= 2
<1> DEFINE r == AddPoint(m, x, y)
<1>1. m \in Models /\ m.pointsInHull \in Nat
  BY ModelParts DEF WellFormed
<1>2. CASE m.pointsInHull = 0
  <2>1. Accepts(m, x, y) /\ r = FirstPoint(m, x, y)
    BY <1>2 DEF Accepts, AddPoint
  <2>2. /\ FirstPoint(m, x, y).lastX = x /\ FirstPoint(m, x, y).pointsInHull = 1
        /\ FirstPoint(m, x, y).firstX = x
    BY <1>1 DEF FirstPoint, RestartHulls, Models
  <2> QED
    BY <1>2, <2>1, <2>2
<1>3. CASE m.pointsInHull = 1
  <2>1. Accepts(m, x, y) /\ r = SecondPoint(m, x, y)
    BY <1>3 DEF Accepts, AddPoint
  <2>2. /\ SecondPoint(m, x, y).lastX = x /\ SecondPoint(m, x, y).pointsInHull = 2
        /\ SecondPoint(m, x, y).firstX = m.firstX
    BY <1>1 DEF SecondPoint, Models
  <2> QED
    BY <1>3, <2>1, <2>2
<1>4. CASE m.pointsInHull >= 2 /\ Accepts(m, x, y)
  <2> DEFINE w == MaxSlopeStep(m, x, y)
             n == IF m.epsilon = 0 THEN m ELSE MinSlopeStep(w, x, y)
  <2>1. r = [n EXCEPT !.lastX = x, !.pointsInHull = @ + 1]
    BY <1>1, <1>4 DEF AddPoint, InnerPoint
  <2>2. n \in Models /\ n.pointsInHull = m.pointsInHull /\ n.firstX = m.firstX
    <3>1. CASE m.epsilon = 0
      BY <1>1, <3>1
    <3>2. CASE m.epsilon # 0
      <4>1. StartsInRange(m) /\ HullUpTo(m.lower, m.lastX) /\ HullUpTo(m.upper, m.lastX)
            /\ LinesUpTo(m, m.lastX)
        BY <1>1, <1>4, ModelParts DEF WellFormed
      <4>2. LinesUpTo(m, x) /\ m.lastX < x
        BY SMTT(30), <1>1, <1>4, <4>1, ModelParts DEF LinesUpTo
      <4>3. Narrowing(m, x, y)
        BY <1>1, <3>2, <4>1, <4>2 DEF Narrowing
      <4>4. Narrowing(w, x, y) /\ w.pointsInHull = m.pointsInHull /\ w \in Models
        BY <4>1, <4>3, MaxSlopeStepNarrows DEF Narrowing
      <4>5. w.firstX = m.firstX
        BY <1>1 DEF MaxSlopeStep, NarrowMaxSlope, Models
      <4> HIDE DEF w
      <4>6. n = MinSlopeStep(w, x, y) /\ n \in Models /\ n.pointsInHull = w.pointsInHull
        BY <3>2, <4>4, MinSlopeStepNarrows
      <4>7. MinSlopeStep(w, x, y).firstX = w.firstX
        BY <4>4 DEF MinSlopeStep, NarrowMinSlope, Models
      <4> QED
        BY <4>4, <4>5, <4>6, <4>7
    <3> QED
      BY <3>1, <3>2
  <2> HIDE DEF n
  <2>3. r.lastX = x /\ r.pointsInHull = m.pointsInHull + 1 /\ r.firstX = m.firstX
    BY <2>1, <2>2 DEF Models
  <2> QED
    BY <1>1, <1>4, <2>3
<1>5. CASE m.pointsInHull >= 2 /\ ~Accepts(m, x, y)
  <2>1. r = Refuse(m, x)
    BY <1>1, <1>5 DEF AddPoint
  <2>2. Refuse(m, x).lastX = x
    BY <1>1 DEF Refuse, Models
  <2> QED
    BY <1>1, <1>5, <2>1, <2>2
<1> QED
  BY <1>1, <1>2, <1>3, <1>4, <1>5

-----------------------------------------------------------------------------
(* The comparisons of the code, as cross products.                         *)

\* Each comparison of two slopes in add_point asks on which side of the line
\* oa the point q is.
LEMMA SlopesAsCross ==
  ASSUME NEW o \in Plane, NEW a \in Plane, NEW q \in Plane
  PROVE  /\ SlopeLT(Minus(q, o), Minus(a, o)) <=> Cross(o, a, q) < 0
         /\ SlopeGT(Minus(q, o), Minus(a, o)) <=> Cross(o, a, q) > 0
         /\ SlopeEQ(Minus(q, o), Minus(a, o)) <=> Cross(o, a, q) = 0
         /\ SlopeLT(Minus(q, a), Minus(a, o)) <=> Cross(o, a, q) < 0
         /\ SlopeGT(Minus(q, a), Minus(a, o)) <=> Cross(o, a, q) > 0
<1> DEFINE u == a.x - o.x
           v == a.y - o.y
           s == q.x - o.x
           t == q.y - o.y
<1>1. /\ Minus(q, o) = [dx |-> s, dy |-> t] /\ Minus(a, o) = [dx |-> u, dy |-> v]
      /\ Minus(q, a) = [dx |-> q.x - a.x, dy |-> q.y - a.y]
  BY DEF Minus
<1>2. q.x - a.x = s - u /\ q.y - a.y = t - v /\ u \in Int /\ v \in Int /\ s \in Int /\ t \in Int
  BY Coordinates
<1>3. Cross(o, a, q) = u * t - v * s
  BY CrossValue
<1> HIDE DEF u, v, s, t
<1>4. Minus(q, a) = [dx |-> s - u, dy |-> t - v]
  BY <1>1, <1>2
<1>5. (t - v) * u - (s - u) * v = u * t - v * s
  BY <1>2
<1>6. /\ t * u \in Int /\ s * v \in Int /\ u * t = t * u /\ v * s = s * v
      /\ (t - v) * u \in Int /\ (s - u) * v \in Int
  BY <1>2
<1>7. /\ SlopeLT(Minus(q, o), Minus(a, o)) <=> t * u < s * v
      /\ SlopeGT(Minus(q, o), Minus(a, o)) <=> t * u > s * v
      /\ SlopeEQ(Minus(q, o), Minus(a, o)) <=> t * u = s * v
  BY <1>1 DEF SlopeLT, SlopeGT, SlopeEQ
<1>8. /\ SlopeLT(Minus(q, a), Minus(a, o)) <=> (t - v) * u < (s - u) * v
      /\ SlopeGT(Minus(q, a), Minus(a, o)) <=> (t - v) * u > (s - u) * v
  BY <1>1, <1>4 DEF SlopeLT, SlopeGT
<1> DEFINE tu == t * u  sv == s * v  tv == (t - v) * u  su == (s - u) * v
<1>9. /\ tv - su = tu - sv /\ Cross(o, a, q) = tu - sv
      /\ tu \in Int /\ sv \in Int /\ tv \in Int /\ su \in Int
  BY <1>3, <1>5, <1>6
<1> HIDE DEF tu, sv, tv, su
<1> QED
  BY <1>7, <1>8, <1>9 DEF tu, sv, tv, su

\* Corners, and points with integer coordinates, are points of the plane.
LEMMA CornersInPlane ==
  /\ Corners \subseteq Plane
  /\ \A x, y \in Int : Point(x, y) \in Plane /\ Point(x, y).x = x /\ Point(x, y).y = y
BY DEF Corners, Plane, Point

-----------------------------------------------------------------------------
(* The hulls of an object, the upper one upside down: both then turn right *)
(* and lie below the lines that matter.                                    *)

LowerView(m) == [j \in 1..Len(m.lower) |-> LowerAt(m, j)]
UpperView(m) == [j \in 1..Len(m.upper) |-> Mirror(UpperAt(m, j))]

\* The entries of the two views.
LEMMA Views ==
  ASSUME NEW m \in Models
  PROVE  /\ Len(m.lower) \in Nat /\ Len(m.upper) \in Nat
         /\ \A j \in 1..Len(m.lower) : /\ LowerView(m)[j] = LowerAt(m, j) /\ LowerAt(m, j) \in Plane
                                       /\ LowerAt(m, j) \in Corners
                                       /\ LowerView(m)[j] \in Plane /\ LowerView(m)[j].x = m.lower[j].x
         /\ \A j \in 1..Len(m.upper) : /\ UpperView(m)[j] = Mirror(UpperAt(m, j)) /\ UpperAt(m, j) \in Plane
                                       /\ UpperAt(m, j) \in Corners
                                       /\ UpperView(m)[j] \in Plane /\ UpperView(m)[j].x = m.upper[j].x
<1>1. Len(m.lower) \in Nat /\ Len(m.upper) \in Nat
  BY ModelParts
<1>2. ASSUME NEW j \in 1..Len(m.lower)
      PROVE  /\ LowerView(m)[j] = LowerAt(m, j) /\ LowerAt(m, j) \in Corners
             /\ LowerAt(m, j) \in Plane /\ LowerAt(m, j).x = m.lower[j].x
  BY HullCorner, CornersInPlane DEF LowerView
<1>3. ASSUME NEW j \in 1..Len(m.upper)
      PROVE  /\ UpperView(m)[j] = Mirror(UpperAt(m, j)) /\ UpperAt(m, j) \in Corners
             /\ UpperAt(m, j) \in Plane /\ UpperAt(m, j).x = m.upper[j].x
             /\ Mirror(UpperAt(m, j)) \in Plane /\ Mirror(UpperAt(m, j)).x = m.upper[j].x
  <2>1. UpperAt(m, j) \in Corners /\ UpperAt(m, j) \in Plane /\ UpperAt(m, j).x = m.upper[j].x
    BY HullCorner, CornersInPlane
  <2> QED
    BY <2>1, Mirrored DEF UpperView
<1> QED
  BY <1>1, <1>2, <1>3

\* What the scan of the lower hull has compared when it ends at k.
LEMMA LowerTangentScanned ==
  ASSUME NEW m \in Models, m.lowerStart <= Len(m.lower), NEW p \in Plane, NEW h, h = LowerView(m),
         NEW k, k = LowerTangent(m, p)
  PROVE  TangentScan(h, m.lowerStart, Len(m.lower), p, k)
<1> DEFINE s == m.lowerStart
           n == Len(m.lower)
           S == {i \in s + 1 .. n : SlopeGT(Minus(LowerAt(m, i), p), Minus(LowerAt(m, i - 1), p))}
<1>1. s \in Nat /\ s > 0 /\ n \in Nat /\ s <= n
  BY ModelParts
<1>2. k = Min(S \cup {n + 1}) - 1 /\ S \subseteq s + 1..n
  BY DEF LowerTangent
<1>3. ASSUME NEW i \in s + 1..n
      PROVE  (i \in S <=> Cross(h[i - 1], p, h[i]) < 0) /\ Cross(h[i - 1], p, h[i]) \in Int
  <2>1. i \in 1..n /\ i - 1 \in 1..n
    BY <1>1
  <2> DEFINE a == LowerAt(m, i - 1)
             b == LowerAt(m, i)
  <2>2. h[i] = b /\ h[i - 1] = a /\ a \in Plane /\ b \in Plane
    BY <2>1, Views
  <2>3. i \in S <=> Cross(p, a, b) > 0
    BY <2>2, SlopesAsCross
  <2>4. Cross(p, a, b) = -Cross(a, p, b) /\ Cross(a, p, b) \in Int
    BY <2>2, CrossPermuted, CrossValue
  <2> HIDE DEF S, a, b
  <2> QED
    BY <2>2, <2>3, <2>4
<1> HIDE DEF S, s, n
<1>4. k \in s..n /\ (\A i \in s + 1..k : i \notin S) /\ (k < n => k + 1 \in S)
  BY <1>1, <1>2, ScanEnd
<1>5. ASSUME NEW i \in s + 1..k PROVE Cross(h[i - 1], p, h[i]) >= 0
  <2>1. i \in s + 1..n
    BY <1>1, <1>4
  <2> QED
    BY <1>3, <1>4, <2>1
<1>6. ASSUME k < n PROVE Cross(h[k], p, h[k + 1]) < 0
  <2>1. k + 1 \in s + 1..n /\ (k + 1) - 1 = k
    BY <1>1, <1>4, <1>6
  <2> QED
    BY <1>3, <1>4, <1>6, <2>1
<1> QED
  BY <1>4, <1>5, <1>6 DEF TangentScan, s, n

\* What the scan of the upper hull has compared when it ends at k.
LEMMA UpperTangentScanned ==
  ASSUME NEW m \in Models, m.upperStart <= Len(m.upper), NEW p \in Plane, NEW h, h = UpperView(m),
         NEW k, k = UpperTangent(m, p)
  PROVE  TangentScan(h, m.upperStart, Len(m.upper), Mirror(p), k)
<1> DEFINE s == m.upperStart
           n == Len(m.upper)
           S == {i \in s + 1 .. n : SlopeLT(Minus(UpperAt(m, i), p), Minus(UpperAt(m, i - 1), p))}
<1>1. s \in Nat /\ s > 0 /\ n \in Nat /\ s <= n
  BY ModelParts
<1>2. k = Min(S \cup {n + 1}) - 1 /\ S \subseteq s + 1..n
  BY DEF UpperTangent
<1>3. ASSUME NEW i \in s + 1..n
      PROVE  (i \in S <=> Cross(h[i - 1], Mirror(p), h[i]) < 0) /\ Cross(h[i - 1], Mirror(p), h[i]) \in Int
  <2>1. i \in 1..n /\ i - 1 \in 1..n
    BY <1>1
  <2> DEFINE a == UpperAt(m, i - 1)
             b == UpperAt(m, i)
  <2>2. h[i] = Mirror(b) /\ h[i - 1] = Mirror(a) /\ a \in Plane /\ b \in Plane
    BY <2>1, Views
  <2>3. i \in S <=> Cross(p, a, b) < 0
    BY <2>2, SlopesAsCross
  <2>4. Cross(p, a, b) = -Cross(a, p, b) /\ Cross(a, p, b) \in Int
        /\ Cross(Mirror(a), Mirror(p), Mirror(b)) = -Cross(a, p, b)
    BY <2>2, CrossPermuted, CrossValue, Mirrored
  <2> HIDE DEF S, a, b
  <2> QED
    BY <2>2, <2>3, <2>4
<1> HIDE DEF S, s, n
<1>4. k \in s..n /\ (\A i \in s + 1..k : i \notin S) /\ (k < n => k + 1 \in S)
  BY <1>1, <1>2, ScanEnd
<1>5. ASSUME NEW i \in s + 1..k PROVE Cross(h[i - 1], Mirror(p), h[i]) >= 0
  <2>1. i \in s + 1..n
    BY <1>1, <1>4
  <2> QED
    BY <1>3, <1>4, <2>1
<1>6. ASSUME k < n PROVE Cross(h[k], Mirror(p), h[k + 1]) < 0
  <2>1. k + 1 \in s + 1..n /\ (k + 1) - 1 = k
    BY <1>1, <1>4, <1>6
  <2> QED
    BY <1>3, <1>4, <1>6, <2>1
<1> QED
  BY <1>4, <1>5, <1>6 DEF TangentScan, s, n

\* What the pops of the lower hull have compared when they end at e.
LEMMA LowerHullEndScanned ==
  ASSUME NEW m \in Models, m.lowerStart <= Len(m.lower), NEW p \in Plane, NEW h, h = LowerView(m),
         NEW e, e = LowerHullEnd(m, p)
  PROVE  Pops(h, m.lowerStart, Len(m.lower), p, e)
<1> DEFINE s == m.lowerStart
           n == Len(m.lower)
           S == {i \in s + 1 .. n : Cross(LowerAt(m, i - 1), LowerAt(m, i), p) < 0}
<1>1. s \in Nat /\ s > 0 /\ n \in Nat /\ s <= n
  BY ModelParts
<1>2. e = Max(S \cup {s}) /\ S \subseteq s + 1..n
  BY DEF LowerHullEnd
<1>3. ASSUME NEW i \in s + 1..n
      PROVE  (i \in S <=> Cross(h[i - 1], h[i], p) < 0) /\ Cross(h[i - 1], h[i], p) \in Int
  <2>1. i \in 1..n /\ i - 1 \in 1..n
    BY <1>1
  <2> DEFINE a == LowerAt(m, i - 1)
             b == LowerAt(m, i)
  <2>2. h[i] = b /\ h[i - 1] = a /\ a \in Plane /\ b \in Plane
    BY <2>1, Views
  <2>3. (i \in S <=> Cross(a, b, p) < 0) /\ Cross(a, b, p) \in Int
    BY <2>2, CrossValue
  <2> HIDE DEF S, a, b
  <2> QED
    BY <2>2, <2>3
<1> HIDE DEF S, s, n
<1>4. e \in s..n /\ (\A j \in e + 1..n : j \notin S) /\ (e > s => e \in S)
  BY <1>1, <1>2, PopEnd
<1>5. ASSUME NEW j \in e + 1..n PROVE Cross(h[j - 1], h[j], p) >= 0
  <2>1. j \in s + 1..n
    BY <1>1, <1>4
  <2> QED
    BY <1>3, <1>4, <2>1
<1>6. ASSUME e > s PROVE Cross(h[e - 1], h[e], p) < 0
  <2>1. e \in s + 1..n
    BY <1>1, <1>4, <1>6
  <2> QED
    BY <1>3, <1>4, <1>6, <2>1
<1> QED
  BY <1>4, <1>5, <1>6 DEF Pops, s, n

\* What the pops of the upper hull have compared when they end at e.
LEMMA UpperHullEndScanned ==
  ASSUME NEW m \in Models, m.upperStart <= Len(m.upper), NEW p \in Plane, NEW h, h = UpperView(m),
         NEW e, e = UpperHullEnd(m, p)
  PROVE  Pops(h, m.upperStart, Len(m.upper), Mirror(p), e)
<1> DEFINE s == m.upperStart
           n == Len(m.upper)
           S == {i \in s + 1 .. n : Cross(UpperAt(m, i - 1), UpperAt(m, i), p) > 0}
<1>1. s \in Nat /\ s > 0 /\ n \in Nat /\ s <= n
  BY ModelParts
<1>2. e = Max(S \cup {s}) /\ S \subseteq s + 1..n
  BY DEF UpperHullEnd
<1>3. ASSUME NEW i \in s + 1..n
      PROVE  (i \in S <=> Cross(h[i - 1], h[i], Mirror(p)) < 0) /\ Cross(h[i - 1], h[i], Mirror(p)) \in Int
  <2>1. i \in 1..n /\ i - 1 \in 1..n
    BY <1>1
  <2> DEFINE a == UpperAt(m, i - 1)
             b == UpperAt(m, i)
  <2>2. h[i] = Mirror(b) /\ h[i - 1] = Mirror(a) /\ a \in Plane /\ b \in Plane
    BY <2>1, Views
  <2>3. Cross(Mirror(a), Mirror(b), Mirror(p)) = -Cross(a, b, p) /\ Cross(a, b, p) \in Int
    BY <2>2, CrossValue, Mirrored
  <2>4. i \in S <=> Cross(a, b, p) > 0
    OBVIOUS
  <2> HIDE DEF S, a, b
  <2> QED
    BY <2>2, <2>3, <2>4
<1> HIDE DEF S, s, n
<1>4. e \in s..n /\ (\A j \in e + 1..n : j \notin S) /\ (e > s => e \in S)
  BY <1>1, <1>2, PopEnd
<1>5. ASSUME NEW j \in e + 1..n PROVE Cross(h[j - 1], h[j], Mirror(p)) >= 0
  <2>1. j \in s + 1..n
    BY <1>1, <1>4
  <2> QED
    BY <1>3, <1>4, <2>1
<1>6. ASSUME e > s PROVE Cross(h[e - 1], h[e], Mirror(p)) < 0
  <2>1. e \in s + 1..n
    BY <1>1, <1>4, <1>6
  <2> QED
    BY <1>3, <1>4, <1>6, <2>1
<1> QED
  BY <1>4, <1>5, <1>6 DEF Pops, s, n

-----------------------------------------------------------------------------
(* What is true of an object whose points have the lower ends E and, upside *)
(* down, the upper ends F: the hulls cover the ends, and the extreme lines *)
(* rest on the hulls and pass between the ends.                            *)

Exact(m, E, F) ==
  Enclosed(m.rectangle[0], m.rectangle[2], m.rectangle[1], m.rectangle[3],
           LowerView(m), m.lowerStart, Len(m.lower), UpperView(m), m.upperStart, Len(m.upper), E, F)

\* The corners of the rectangle are points of the plane.
LEMMA CornersOfModel ==
  ASSUME NEW m \in Models, NEW i \in 0..3
  PROVE  m.rectangle[i] \in Plane /\ Mirror(Mirror(m.rectangle[i])) = m.rectangle[i]
<1>1. m.rectangle[i] \in Plane
  BY ModelParts, CornersInPlane
<1> QED
  BY <1>1, Mirrored

\* The two ends of a point.
LEMMA EndsInPlane ==
  ASSUME NEW eps \in Nat, NEW x \in Nat, NEW y \in Nat
  PROVE  /\ Point(x, y + eps) \in Plane /\ Point(x, y + eps).x = x /\ Point(x, y + eps).y = y + eps
         /\ Point(x, y - eps) \in Plane /\ Point(x, y - eps).x = x /\ Point(x, y - eps).y = y - eps
<1>1. y + eps \in Int /\ y - eps \in Int
  OBVIOUS
<1> QED
  BY <1>1, CornersInPlane

\* Moving the maximum-slope line down to the upper end of the new point.
LEMMA NarrowMaxSlopeExact ==
  ASSUME NEW m, NEW x \in Nat, NEW y \in Nat, Narrowing(m, x, y), HullUpTo(m.upper, m.lastX),
         NEW E, NEW F, \A q \in E \cup F : q.x < x, Exact(m, E, F),
         NEW u, u = Point(x, y + m.epsilon),
         Cross(m.rectangle[0], m.rectangle[2], u) >= 0, Cross(m.rectangle[1], m.rectangle[3], u) <= 0
  PROVE  LET r == NarrowMaxSlope(m, x, y)
         IN /\ Exact(r, E, F \cup {Mirror(u)})
            /\ r.rectangle[0] = m.rectangle[0] /\ r.rectangle[2] = m.rectangle[2]
            /\ r.rectangle[1] \in Plane /\ r.rectangle[1].x < x /\ r.rectangle[3] = u
            /\ r.epsilon = m.epsilon
<1> DEFINE r == NarrowMaxSlope(m, x, y)
           k == LowerTangent(m, u)
           e == UpperHullEnd(m, u)
           h == LowerView(m)
           g == UpperView(m)
           f == UpperView(r)
           s == m.lowerStart
           n == Len(m.lower)
           t == m.upperStart
           o == Len(m.upper)
<1>1. MaxNarrowed(m, x, y, r, k, e)
  BY NarrowMaxSlopeParts
<1>2. /\ m \in Models /\ s \in Nat /\ s > 0 /\ n \in Nat /\ s <= n
      /\ t \in Nat /\ t > 0 /\ o \in Nat /\ t <= o
  BY ModelParts DEF Narrowing, StartsInRange
<1>3. u \in Plane /\ u.x = x
  <2>1. m.epsilon \in Nat
    BY <1>2, ModelParts
  <2> QED
    BY ZenonT(60), <2>1, EndsInPlane
<1>4. TangentScan(h, s, n, u, k) /\ k \in s..n
  BY <1>2, <1>3, LowerTangentScanned DEF TangentScan
<1>5. Pops(g, t, o, Mirror(u), e) /\ e \in t..o
  BY <1>2, <1>3, UpperHullEndScanned DEF Pops
<1> HIDE DEF r, k, e
<1>6. /\ r \in Models /\ r.epsilon = m.epsilon /\ r.lower = m.lower /\ r.lowerStart = k /\ r.upperStart = t
      /\ Len(r.upper) = e + 1 /\ r.upper[e + 1] = Point(x, y)
      /\ \A i \in 1..e : r.upper[i] = m.upper[i]
      /\ r.rectangle[1] = LowerAt(m, k) /\ r.rectangle[3] = u
      /\ r.rectangle[0] = m.rectangle[0] /\ r.rectangle[2] = m.rectangle[2]
      /\ r.rectangle[1].x < x
  BY <1>1 DEF MaxNarrowed
<1>7. LowerView(r) = h
  BY <1>6 DEF LowerView, LowerAt
<1>8. Pushes(f, g, t, e, Mirror(u))
  <2>1. ASSUME NEW j \in t..e PROVE f[j] = g[j]
    <3>1. j \in 1..e /\ j \in 1..o /\ j \in 1..e + 1
      BY <1>2, <1>5
    <3>2. UpperAt(r, j) = UpperAt(m, j)
      BY <1>6, <3>1 DEF UpperAt
    <3> QED
      BY <1>6, <3>1, <3>2 DEF UpperView
  <2>2. e + 1 \in 1..e + 1
    BY <1>2, <1>5
  <2>3. UpperAt(r, e + 1) = u
    BY <1>6 DEF UpperAt, Point
  <2> QED
    BY <1>6, <2>1, <2>2, <2>3 DEF UpperView, Pushes
<1>9. h[k] = r.rectangle[1] /\ h[k] \in Plane /\ h[k].x < u.x
  <2>1. k \in 1..n
    BY <1>2, <1>4
  <2> QED
    BY <1>2, <1>3, <1>6, <2>1, Views
<1>10. UpTo(E, u) /\ \A q \in F : q.x < u.x
  BY <1>3 DEF UpTo
<1> DEFINE a == m.rectangle[0]
           b == m.rectangle[2]
           c == m.rectangle[1]
           d == m.rectangle[3]
<1>11. Enclosed(a, b, c, d, h, s, n, g, t, o, E, F) /\ Cross(a, b, u) >= 0 /\ Cross(c, d, u) <= 0
  BY DEF Exact
<1> HIDE DEF h, g, f, s, n, t, o, a, b, c, d
<1>12. Enclosed(a, b, h[k], u, h, k, n, f, t, e + 1, E, F \cup {Mirror(u)})
  BY <1>3, <1>4, <1>5, <1>8, <1>9, <1>10, <1>11, PointNarrows
<1>13. Exact(r, E, F \cup {Mirror(u)})
  BY <1>6, <1>7, <1>9, <1>12 DEF Exact, a, b, f, n
<1> QED
  BY <1>3, <1>6, <1>9, <1>13 DEF r

\* The test before it: if the line need not move, it already passes below
\* the upper end of the new point.
LEMMA MaxSlopeStepExact ==
  ASSUME NEW m, NEW x \in Nat, NEW y \in Nat, Narrowing(m, x, y), HullUpTo(m.upper, m.lastX),
         NEW E, NEW F, \A q \in E \cup F : q.x < x, Exact(m, E, F),
         NEW u, u = Point(x, y + m.epsilon), NEW l, l = Point(x, y - m.epsilon),
         Cross(m.rectangle[0], m.rectangle[2], u) >= 0, Cross(m.rectangle[1], m.rectangle[3], l) <= 0
  PROVE  LET r == MaxSlopeStep(m, x, y)
         IN /\ Exact(r, E, F \cup {Mirror(u)})
            /\ Cross(r.rectangle[1], r.rectangle[3], l) <= 0
            /\ r.epsilon = m.epsilon
<1>1. m \in Models /\ m.epsilon \in Nat
  BY ModelParts DEF Narrowing
<1>2. /\ u \in Plane /\ u.x = x /\ u.y = y + m.epsilon
      /\ l \in Plane /\ l.x = x /\ l.y = y - m.epsilon
  BY <1>1, EndsInPlane
<1> DEFINE c == m.rectangle[1]
           d == m.rectangle[3]
           r == NarrowMaxSlope(m, x, y)
<1>3. c \in Plane /\ d \in Plane
  BY <1>1, CornersOfModel
<1>4. SlopeLT(Minus(u, c), Slope2(m)) <=> Cross(c, d, u) < 0
  <2> HIDE DEF c, d
  <2>1. SlopeLT(Minus(u, c), Minus(d, c)) <=> Cross(c, d, u) < 0
    BY <1>2, <1>3, SlopesAsCross
  <2> QED
    BY <2>1 DEF Slope2, c, d
<1>5. CASE Cross(c, d, u) < 0
  <2>1. MaxSlopeStep(m, x, y) = r
    BY <1>4, <1>5 DEF MaxSlopeStep
  <2>2. /\ Exact(r, E, F \cup {Mirror(u)})
        /\ r.rectangle[1] \in Plane /\ r.rectangle[1].x < x /\ r.rectangle[3] = u
        /\ r.epsilon = m.epsilon
    <3>1. Cross(m.rectangle[1], m.rectangle[3], u) <= 0
      BY <1>2, <1>3, <1>5, CrossValue
    <3> QED
      BY SMTT(30), <3>1, NarrowMaxSlopeExact
  <2>3. l.y <= u.y
    BY <1>1, <1>2
  <2> HIDE DEF r
  <2>4. Cross(r.rectangle[1], u, l) <= 0
    BY <1>2, <2>2, <2>3, BelowAtTheEnd
  <2> QED
    BY <2>1, <2>2, <2>4
<1>6. CASE ~(Cross(c, d, u) < 0)
  <2>1. MaxSlopeStep(m, x, y) = m
    BY <1>4, <1>6 DEF MaxSlopeStep
  <2>2. Cross(m.rectangle[1], m.rectangle[3], u) >= 0
    BY <1>2, <1>3, <1>6, CrossValue
  <2>3. Exact(m, E, F \cup {Mirror(u)})
    BY <1>2, <2>2, PointBeyond DEF Exact
  <2> QED
    BY <2>1, <2>3
<1> QED
  BY <1>5, <1>6

\* Moving the minimum-slope line up to the lower end of the new point, whose
\* upper end may already be in the upper hull.
LEMMA NarrowMinSlopeExact ==
  ASSUME NEW m, NEW x \in Nat, NEW y \in Nat, Narrowing(m, x, y),
         NEW l, l = Point(x, y - m.epsilon),
         NEW E, NEW F, \A q \in E : q.x < x, UpTo(F, Mirror(l)), Exact(m, E, F),
         Cross(m.rectangle[0], m.rectangle[2], l) >= 0, Cross(m.rectangle[1], m.rectangle[3], l) <= 0
  PROVE  LET r == NarrowMinSlope(m, x, y)
         IN Exact(r, E \cup {l}, F) /\ r.epsilon = m.epsilon
<1> DEFINE r == NarrowMinSlope(m, x, y)
           k == UpperTangent(m, l)
           e == LowerHullEnd(m, l)
           h == LowerView(m)
           g == UpperView(m)
           f == LowerView(r)
           s == m.lowerStart
           n == Len(m.lower)
           t == m.upperStart
           o == Len(m.upper)
           ml == Mirror(l)
<1>1. MinNarrowed(m, x, y, r, k, e)
  BY NarrowMinSlopeParts
<1>2. /\ m \in Models /\ s \in Nat /\ s > 0 /\ n \in Nat /\ s <= n
      /\ t \in Nat /\ t > 0 /\ o \in Nat /\ t <= o
  BY ModelParts DEF Narrowing, StartsInRange
<1>3. l \in Plane /\ l.x = x
  <2>1. m.epsilon \in Nat
    BY <1>2, ModelParts
  <2> QED
    BY <2>1, EndsInPlane
<1>4. ml \in Plane /\ ml.x = x /\ Mirror(ml) = l
  BY <1>3, Mirrored
<1>5. TangentScan(g, t, o, ml, k) /\ k \in t..o
  BY <1>2, <1>3, UpperTangentScanned DEF TangentScan
<1>6. Pops(h, s, n, l, e) /\ e \in s..n
  BY <1>2, <1>3, LowerHullEndScanned DEF Pops
<1> HIDE DEF r, k, e
<1>7. /\ r \in Models /\ r.epsilon = m.epsilon /\ r.upper = m.upper /\ r.upperStart = k /\ r.lowerStart = s
      /\ Len(r.lower) = e + 1 /\ r.lower[e + 1] = Point(x, y)
      /\ \A i \in 1..e : r.lower[i] = m.lower[i]
      /\ r.rectangle[0] = UpperAt(m, k) /\ r.rectangle[2] = l
      /\ r.rectangle[1] = m.rectangle[1] /\ r.rectangle[3] = m.rectangle[3]
      /\ r.rectangle[0].x < x
  BY <1>1 DEF MinNarrowed
<1>8. UpperView(r) = g
  BY <1>7 DEF UpperView, UpperAt
<1>9. Pushes(f, h, s, e, l)
  <2>1. ASSUME NEW j \in s..e PROVE f[j] = h[j]
    <3>1. j \in 1..e /\ j \in 1..n /\ j \in 1..e + 1
      BY <1>2, <1>6
    <3>2. LowerAt(r, j) = LowerAt(m, j)
      BY <1>7, <3>1 DEF LowerAt
    <3> QED
      BY <1>7, <3>1, <3>2 DEF LowerView
  <2>2. e + 1 \in 1..e + 1
    BY <1>2, <1>6
  <2>3. LowerAt(r, e + 1) = l
    BY <1>7 DEF LowerAt, Point
  <2> QED
    BY <1>7, <2>1, <2>2, <2>3 DEF LowerView, Pushes
<1>10. Mirror(g[k]) = r.rectangle[0] /\ g[k] \in Plane /\ g[k].x < ml.x
  <2>1. k \in 1..o
    BY <1>2, <1>5
  <2>2. g[k] = Mirror(UpperAt(m, k)) /\ UpperAt(m, k) \in Plane
    BY <1>2, <2>1, Views
  <2> QED
    BY <1>4, <1>7, <2>2, Mirrored
<1> DEFINE a == m.rectangle[0]
           b == m.rectangle[2]
           c == m.rectangle[1]
           d == m.rectangle[3]
<1>11. Enclosed(a, b, c, d, h, s, n, g, t, o, E, F) /\ Cross(a, b, l) >= 0 /\ Cross(c, d, l) <= 0
       /\ a \in Plane /\ b \in Plane /\ c \in Plane /\ d \in Plane
  BY <1>2, CornersOfModel DEF Exact
<1> HIDE DEF h, g, f, s, n, t, o, a, b, c, d, ml
<1>12. Enclosed(Mirror(c), Mirror(d), Mirror(a), Mirror(b), g, t, o, h, s, n, F, E)
  BY <1>11, EnclosedMirrored
<1>13. Cross(Mirror(c), Mirror(d), ml) >= 0 /\ Cross(Mirror(a), Mirror(b), ml) <= 0
  BY <1>3, <1>11, Mirrored, CrossValue DEF ml
<1>14. UpTo(F, ml) /\ \A q \in E : q.x < ml.x
  BY <1>4 DEF ml
<1>15. Pops(h, s, n, Mirror(ml), e) /\ Pushes(f, h, s, e, Mirror(ml))
  BY <1>4, <1>6, <1>9
<1>16. Enclosed(Mirror(c), Mirror(d), g[k], ml, g, k, o, f, s, e + 1, F, E \cup {Mirror(ml)})
  BY <1>4, <1>5, <1>10, <1>12, <1>13, <1>14, <1>15, PointNarrows
<1>17. Enclosed(Mirror(g[k]), Mirror(ml), Mirror(Mirror(c)), Mirror(Mirror(d)),
                f, s, e + 1, g, k, o, E \cup {Mirror(ml)}, F)
  BY <1>16, EnclosedMirrored
<1>18. Mirror(Mirror(c)) = c /\ Mirror(Mirror(d)) = d
  BY <1>11, Mirrored
<1>19. Exact(r, E \cup {l}, F)
  BY <1>4, <1>7, <1>8, <1>10, <1>17, <1>18 DEF Exact, c, d, f, o
<1> QED
  BY <1>7, <1>19 DEF r

\* The test before it, for the minimum-slope line.
LEMMA MinSlopeStepExact ==
  ASSUME NEW m, NEW x \in Nat, NEW y \in Nat, Narrowing(m, x, y),
         NEW l, l = Point(x, y - m.epsilon),
         NEW E, NEW F, \A q \in E : q.x < x, UpTo(F, Mirror(l)), Exact(m, E, F),
         Cross(m.rectangle[1], m.rectangle[3], l) <= 0
  PROVE  LET r == MinSlopeStep(m, x, y)
         IN Exact(r, E \cup {l}, F) /\ r.epsilon = m.epsilon
<1>1. m \in Models /\ m.epsilon \in Nat
  BY ModelParts DEF Narrowing
<1>2. l \in Plane /\ l.x = x
  BY <1>1, EndsInPlane
<1> DEFINE a == m.rectangle[0]
           b == m.rectangle[2]
           c == m.rectangle[1]
           d == m.rectangle[3]
           r == NarrowMinSlope(m, x, y)
<1>3. a \in Plane /\ b \in Plane /\ c \in Plane /\ d \in Plane
  BY <1>1, CornersOfModel
<1>4. SlopeGT(Minus(l, a), Slope1(m)) <=> Cross(a, b, l) > 0
  <2> HIDE DEF a, b
  <2>1. SlopeGT(Minus(l, a), Minus(b, a)) <=> Cross(a, b, l) > 0
    BY <1>2, <1>3, SlopesAsCross
  <2> QED
    BY <2>1 DEF Slope1, a, b
<1>5. CASE Cross(a, b, l) > 0
  <2>1. MinSlopeStep(m, x, y) = r
    BY <1>4, <1>5 DEF MinSlopeStep
  <2>2. Cross(m.rectangle[0], m.rectangle[2], l) >= 0
    BY <1>2, <1>3, <1>5, CrossValue
  <2> QED
    BY <2>1, <2>2, NarrowMinSlopeExact
<1>6. CASE ~(Cross(a, b, l) > 0)
  <2>1. MinSlopeStep(m, x, y) = m
    BY <1>4, <1>6 DEF MinSlopeStep
  <2> DEFINE h == LowerView(m)
             g == UpperView(m)
             s == m.lowerStart
             n == Len(m.lower)
             t == m.upperStart
             o == Len(m.upper)
             ml == Mirror(l)
  <2>2. Enclosed(a, b, c, d, h, s, n, g, t, o, E, F) /\ Cross(c, d, l) <= 0
    BY DEF Exact
  <2>3. Cross(a, b, l) \in Int /\ Cross(c, d, l) \in Int
    BY <1>2, <1>3, CrossValue
  <2> HIDE DEF a, b, c, d, h, g, s, n, t, o, ml
  <2>4. ml \in Plane /\ ml.x = x /\ Mirror(ml) = l
        /\ Cross(Mirror(c), Mirror(d), ml) = -Cross(c, d, l)
        /\ Cross(Mirror(a), Mirror(b), ml) = -Cross(a, b, l)
    BY <1>2, <1>3, Mirrored DEF ml
  <2>5. Enclosed(Mirror(c), Mirror(d), Mirror(a), Mirror(b), g, t, o, h, s, n, F, E)
    BY <2>2, EnclosedMirrored
  <2>6. Cross(Mirror(c), Mirror(d), ml) >= 0 /\ Cross(Mirror(a), Mirror(b), ml) >= 0
        /\ \A q \in E : q.x < ml.x
    BY <1>6, <2>2, <2>3, <2>4
  <2>7. Enclosed(Mirror(c), Mirror(d), Mirror(a), Mirror(b), g, t, o, h, s, n, F, E \cup {Mirror(ml)})
    BY <2>4, <2>5, <2>6, PointBeyond
  <2>8. Enclosed(Mirror(Mirror(a)), Mirror(Mirror(b)), Mirror(Mirror(c)), Mirror(Mirror(d)),
                 h, s, n, g, t, o, E \cup {Mirror(ml)}, F)
    BY <2>7, EnclosedMirrored
  <2>9. Mirror(Mirror(a)) = a /\ Mirror(Mirror(b)) = b /\ Mirror(Mirror(c)) = c /\ Mirror(Mirror(d)) = d
    BY <1>3, Mirrored
  <2>10. Exact(m, E \cup {l}, F)
    BY <2>4, <2>8, <2>9 DEF Exact, a, b, c, d, h, g, s, n, t, o
  <2> QED
    BY <2>1, <2>10
<1> QED
  BY <1>5, <1>6

-----------------------------------------------------------------------------
(* The ends of the points of a segment, and what the object keeps of them. *)

Lows(ps, eps) == {Point(ps[i].x, ps[i].y - eps) : i \in DOMAIN ps}
Highs(ps, eps) == {Mirror(Point(ps[i].x, ps[i].y + eps)) : i \in DOMAIN ps}

\* Both lines of the rectangle pass between the ends and touch one of each
\* kind, the minimum-slope line an upper end first.
Extreme(r, E, F) ==
  /\ r[0] \in Plane /\ r[2] \in Plane /\ r[0].x < r[2].x /\ Mirror(r[0]) \in F /\ r[2] \in E
  /\ r[1] \in Plane /\ r[3] \in Plane /\ r[1].x < r[3].x /\ Mirror(r[3]) \in F /\ r[1] \in E
  /\ Between(r[0], r[2], E, F) /\ Between(r[1], r[3], E, F)

\* The object describes the points ps, added since its hulls were empty.
Tracks(m, ps) ==
  /\ \A i, j \in DOMAIN ps : i < j => ps[i].x < ps[j].x
  /\ Len(ps) >= 2 => Extreme(m.rectangle, Lows(ps, m.epsilon), Highs(ps, m.epsilon))
  /\ m.pointsInHull > 0 => Len(ps) > 0 /\ ps[Len(ps)].x = m.lastX
  /\ m.pointsInHull = 1 =>
       /\ Len(ps) = 1
       /\ m.lower = ps /\ m.upper = ps /\ m.lowerStart = 1 /\ m.upperStart = 1
       /\ m.rectangle[0] = Point(ps[1].x, ps[1].y + m.epsilon)
       /\ m.rectangle[1] = Point(ps[1].x, ps[1].y - m.epsilon)
  /\ m.pointsInHull >= 2 =>
       /\ Len(ps) >= 2
       /\ Exact(m, Lows(ps, m.epsilon), Highs(ps, m.epsilon))
       /\ m.epsilon = 0 => m.rectangle[0] = m.rectangle[1] /\ m.rectangle[2] = m.rectangle[3]

\* What Exact says of the lines alone, which outlives the hulls.
LEMMA ExactIsExtreme ==
  ASSUME NEW m, NEW E, NEW F, Exact(m, E, F)
  PROVE  Extreme(m.rectangle, E, F)
<1> DEFINE s == m.lowerStart
           n == Len(m.lower)
           t == m.upperStart
           o == Len(m.upper)
<1>1. Enclosed(m.rectangle[0], m.rectangle[2], m.rectangle[1], m.rectangle[3],
               LowerView(m), s, n, UpperView(m), t, o, E, F)
  BY DEF Exact
<1> HIDE DEF s, n, t, o
<1>2. s \in s..n /\ n \in s..n /\ t \in t..o /\ o \in t..o
  BY <1>1 DEF Enclosed
<1> QED
  BY <1>1, <1>2 DEF Enclosed, Covers, Extreme

\* The ends of a segment and of one more point.
LEMMA EndsAppended ==
  ASSUME NEW ps \in Seq(StoredPoints), NEW eps \in Nat, NEW x \in Nat, NEW y \in Nat
  PROVE  LET qs == Append(ps, Point(x, y))
         IN /\ Lows(qs, eps) = Lows(ps, eps) \cup {Point(x, y - eps)}
            /\ Highs(qs, eps) = Highs(ps, eps) \cup {Mirror(Point(x, y + eps))}
            /\ qs \in Seq(StoredPoints) /\ Len(qs) = Len(ps) + 1
            /\ \A i \in 1..Len(ps) : qs[i] = ps[i]
            /\ qs[Len(ps) + 1] = Point(x, y)
<1> DEFINE q == Point(x, y)
           qs == Append(ps, q)
           n == Len(ps)
<1>1. q \in StoredPoints /\ q.x = x /\ q.y = y
  BY DEF Point, StoredPoints
<1> HIDE DEF q
<1>2. qs \in Seq(StoredPoints) /\ Len(qs) = n + 1 /\ n \in Nat /\ (\A i \in 1..n : qs[i] = ps[i])
      /\ qs[n + 1] = q /\ DOMAIN qs = 1..n + 1 /\ DOMAIN ps = 1..n
  BY <1>1
<1> HIDE DEF qs, n
<1>3. Lows(qs, eps) = Lows(ps, eps) \cup {Point(x, y - eps)}
  BY <1>1, <1>2 DEF Lows
<1>4. Highs(qs, eps) = Highs(ps, eps) \cup {Mirror(Point(x, y + eps))}
  BY <1>1, <1>2 DEF Highs
<1> QED
  BY <1>2, <1>3, <1>4 DEF qs, q, n

\* The ends are points of the plane, at the x of the points.
LEMMA EndsTyped ==
  ASSUME NEW ps \in Seq(StoredPoints), NEW eps \in Nat
  PROVE  /\ Lows(ps, eps) \subseteq Plane /\ Highs(ps, eps) \subseteq Plane
         /\ \A i \in 1..Len(ps) : /\ Point(ps[i].x, ps[i].y - eps) \in Plane
                                  /\ Point(ps[i].x, ps[i].y + eps) \in Plane
         /\ \A q \in Lows(ps, eps) \cup Highs(ps, eps) : \E i \in 1..Len(ps) : q.x = ps[i].x
<1>1. DOMAIN ps = 1..Len(ps)
  OBVIOUS
<1>2. ASSUME NEW i \in 1..Len(ps)
      PROVE  /\ Point(ps[i].x, ps[i].y - eps) \in Plane /\ Point(ps[i].x, ps[i].y - eps).x = ps[i].x
             /\ Point(ps[i].x, ps[i].y + eps) \in Plane /\ Point(ps[i].x, ps[i].y + eps).x = ps[i].x
             /\ Mirror(Point(ps[i].x, ps[i].y + eps)) \in Plane
             /\ Mirror(Point(ps[i].x, ps[i].y + eps)).x = ps[i].x
  <2> DEFINE a == ps[i].x
             b == ps[i].y
  <2>1. a \in Nat /\ b \in Nat
    BY StoredPointParts
  <2> HIDE DEF a, b
  <2>2. /\ Point(a, b - eps) \in Plane /\ Point(a, b - eps).x = a
        /\ Point(a, b + eps) \in Plane /\ Point(a, b + eps).x = a
    BY <2>1, EndsInPlane
  <2>3. Mirror(Point(a, b + eps)) \in Plane /\ Mirror(Point(a, b + eps)).x = a
    BY <2>2, Mirrored
  <2> QED
    BY <2>2, <2>3 DEF a, b
<1> QED
  BY <1>1, <1>2 DEF Lows, Highs

\* The new point keeps the x increasing, and is right of all ends so far.
LEMMA PointAppended ==
  ASSUME NEW ps \in Seq(StoredPoints), NEW eps \in Nat, NEW x \in Nat, NEW y \in Nat,
         Len(ps) > 0, ps[Len(ps)].x < x, \A i, j \in DOMAIN ps : i < j => ps[i].x < ps[j].x
  PROVE  LET qs == Append(ps, Point(x, y))
         IN /\ \A i, j \in DOMAIN qs : i < j => qs[i].x < qs[j].x
            /\ \A q \in Lows(ps, eps) \cup Highs(ps, eps) : q.x < x
            /\ Len(qs) = Len(ps) + 1 /\ qs[Len(qs)].x = x
<1> DEFINE qs == Append(ps, Point(x, y))
           n == Len(ps)
<1>1. /\ qs \in Seq(StoredPoints) /\ Len(qs) = n + 1 /\ n \in Nat /\ n \in 1..n
      /\ \A i \in 1..n : qs[i] = ps[i]
      /\ qs[n + 1] = Point(x, y)
  BY EndsAppended
<1>2. DOMAIN qs = 1..n + 1 /\ DOMAIN ps = 1..n /\ Point(x, y).x = x
  BY <1>1 DEF Point
<1>3. ASSUME NEW i \in 1..n PROVE ps[i].x < x /\ ps[i].x \in Nat
  <2>1. ps[i].x \in Nat /\ ps[n].x \in Nat
    BY <1>1, StoredPointParts
  <2>2. i = n \/ ps[i].x < ps[n].x
    <3> HIDE DEF qs, n
    <3>1. i \in DOMAIN ps /\ n \in DOMAIN ps /\ (i = n \/ i < n)
      BY <1>1, <1>2
    <3> QED
      BY <3>1
  <2> QED
    BY <2>1, <2>2
<1> HIDE DEF qs, n
<1>4. \A i, j \in DOMAIN qs : i < j => qs[i].x < qs[j].x
  <2> SUFFICES ASSUME NEW i \in 1..n + 1, NEW j \in 1..n + 1, i < j
               PROVE  qs[i].x < qs[j].x
    BY <1>2
  <2>1. i \in 1..n
    BY <1>1
  <2>2. CASE j = n + 1
    BY <1>1, <1>2, <1>3, <2>1, <2>2
  <2>3. CASE j # n + 1
    BY <1>1, <1>2, <2>1, <2>3
  <2> QED
    BY <2>2, <2>3
<1>5. \A q \in Lows(ps, eps) \cup Highs(ps, eps) : q.x < x
  BY <1>3, EndsTyped DEF n
<1> QED
  BY <1>1, <1>2, <1>4, <1>5 DEF qs, n

-----------------------------------------------------------------------------
(* add_point once more, branch by branch: the lines stay exact.            *)

\* One point: both hulls hold it, and the left corners are its ends.
LEMMA FirstPointTracks ==
  ASSUME NEW m \in Models, NEW x \in Nat, NEW y \in Nat
  PROVE  Tracks(FirstPoint(m, x, y), <<Point(x, y)>>) /\ FirstPoint(m, x, y).epsilon = m.epsilon
<1> DEFINE r == FirstPoint(m, x, y)
           q == Point(x, y)
           a == Point(x, y + m.epsilon)
           b == Point(x, y - m.epsilon)
           g == [m.rectangle EXCEPT ![0] = a, ![1] = b]
<1>1. /\ r.epsilon = m.epsilon /\ r.lastX = x /\ r.pointsInHull = 1
      /\ r.upper = <<q>> /\ r.lower = <<q>> /\ r.upperStart = 1 /\ r.lowerStart = 1
      /\ r.rectangle = g
  BY DEF FirstPoint, RestartHulls, Models
<1>2. q.x = x /\ q.y = y
  BY DEF Point
<1>3. a \in Corners /\ b \in Corners
  <2>1. y + m.epsilon \in Int /\ y - m.epsilon \in Int
    BY ModelParts
  <2> QED
    BY <2>1, CornerPoint
<1>4. g[0] = a /\ g[1] = b
  <2>1. m.rectangle \in [0..3 -> Corners]
    BY ModelParts
  <2> HIDE DEF a, b
  <2> QED
    BY <1>3, <2>1, LeftCorners
<1>5. a = Point(q.x, q.y + r.epsilon) /\ b = Point(q.x, q.y - r.epsilon)
  BY <1>1, <1>2
<1> HIDE DEF r, q, a, b, g
<1>6. Len(<<q>>) = 1 /\ <<q>>[1] = q /\ DOMAIN <<q>> = 1..1
  OBVIOUS
<1>7. Tracks(r, <<q>>)
  BY <1>1, <1>2, <1>4, <1>5, <1>6 DEF Tracks
<1> QED
  BY <1>1, <1>7 DEF r, q

\* With two points every end is in a hull, and the lines are the diagonals.
LEMMA TwoPointsEnclosed ==
  ASSUME NEW h1 \in Plane, NEW l1 \in Plane, h1.x = l1.x, h1.y >= l1.y,
         NEW h2 \in Plane, NEW l2 \in Plane, h2.x = l2.x, h2.y >= l2.y, l1.x < l2.x,
         NEW h, h[1] = l1, h[2] = l2, NEW g, g[1] = Mirror(h1), g[2] = Mirror(h2)
  PROVE  Enclosed(h1, l2, l1, h2, h, 1, 2, g, 1, 2, {l1, l2}, {Mirror(h1), Mirror(h2)})
<1>1. ASSUME NEW f, f[1] \in Plane, f[2] \in Plane, f[1].x < f[2].x
      PROVE  Covers(f, 1, 2, {f[1], f[2]})
  <2>1. 1..2 = {1, 2} /\ 1 + 1..2 - 1 = {}
    OBVIOUS
  <2> QED
    BY <1>1, <2>1 DEF Covers, LeftToRight, RightTurns, UnderChain
<1>2. /\ Mirror(h1) \in Plane /\ Mirror(h2) \in Plane /\ Mirror(h1).x = h1.x /\ Mirror(h2).x = h2.x
      /\ Mirror(l1) \in Plane /\ Mirror(l2) \in Plane
  BY Mirrored
<1>3. Covers(h, 1, 2, {l1, l2})
  BY <1>1
<1>4. Covers(g, 1, 2, {Mirror(h1), Mirror(h2)})
  BY <1>1, <1>2
<1>5. Between(h1, l2, {l1, l2}, {Mirror(h1), Mirror(h2)})
  <2>1. Cross(h1, l2, l1) <= 0 /\ Cross(h1, l2, l2) = 0
    BY BelowAtTheStart, CrossPermuted, Coordinates
  <2>2. Cross(h1, l2, h1) = 0 /\ Cross(h1, l2, h2) >= 0 /\ Cross(h1, l2, h2) \in Int
    BY BelowAtTheEnd, CrossPermuted, CrossValue
  <2>3. Cross(Mirror(h1), Mirror(l2), Mirror(h1)) = -Cross(h1, l2, h1)
        /\ Cross(Mirror(h1), Mirror(l2), Mirror(h2)) = -Cross(h1, l2, h2)
    BY Mirrored
  <2> QED
    BY <2>1, <2>2, <2>3 DEF Between, Below
<1>6. Between(l1, h2, {l1, l2}, {Mirror(h1), Mirror(h2)})
  <2>1. Cross(l1, h2, l1) = 0 /\ Cross(l1, h2, l2) <= 0
    BY BelowAtTheEnd, CrossPermuted, Coordinates
  <2>2. Cross(l1, h2, h2) = 0 /\ Cross(l1, h2, h1) >= 0 /\ Cross(l1, h2, h1) \in Int
    BY BelowAtTheStart, CrossPermuted, CrossValue
  <2>3. Cross(Mirror(l1), Mirror(h2), Mirror(h1)) = -Cross(l1, h2, h1)
        /\ Cross(Mirror(l1), Mirror(h2), Mirror(h2)) = -Cross(l1, h2, h2)
    BY Mirrored
  <2> QED
    BY <2>1, <2>2, <2>3 DEF Between, Below
<1> QED
  BY <1>2, <1>3, <1>4, <1>5, <1>6 DEF Enclosed

\* Two points: the extreme lines are the diagonals of their ends.
LEMMA SecondPointTracks ==
  ASSUME NEW m, WellFormed(m), m.pointsInHull = 1, NEW ps \in Seq(StoredPoints), Tracks(m, ps),
         NEW x \in Nat, NEW y \in Nat, x > m.lastX
  PROVE  /\ Tracks(SecondPoint(m, x, y), Append(ps, Point(x, y)))
         /\ SecondPoint(m, x, y).epsilon = m.epsilon
<1> DEFINE r == SecondPoint(m, x, y)
           q == Point(x, y)
           p == ps[1]
           qs == Append(ps, q)
           eps == m.epsilon
           h1 == Point(p.x, p.y + eps)
           l1 == Point(p.x, p.y - eps)
           h2 == Point(x, y + eps)
           l2 == Point(x, y - eps)
           g == [m.rectangle EXCEPT ![2] = l2, ![3] = h2]
<1>1. m \in Models /\ eps \in Nat /\ m.rectangle \in [0..3 -> Corners]
  BY ModelParts DEF WellFormed
<1>e. eps = m.epsilon /\ eps \in Nat
  BY <1>1
<1> HIDE DEF eps
<1>2. /\ Len(ps) = 1 /\ ps[Len(ps)].x = m.lastX /\ m.lower = ps /\ m.upper = ps
      /\ m.lowerStart = 1 /\ m.upperStart = 1
      /\ m.rectangle[0] = h1 /\ m.rectangle[1] = l1
      /\ \A i, j \in DOMAIN ps : i < j => ps[i].x < ps[j].x
  BY <1>e DEF Tracks
<1>3. p.x \in Nat /\ p.y \in Nat /\ p.x < x
  <2>0. 1 \in 1..Len(ps)
    BY <1>2
  <2>1. p.x \in Nat /\ p.y \in Nat
    BY <2>0, StoredPointParts
  <2>2. p.x = m.lastX
    BY <1>2
  <2> QED
    BY <2>1, <2>2
<1>4. /\ r.epsilon = eps /\ r.lastX = x /\ r.pointsInHull = 2
      /\ r.upper = qs /\ r.lower = qs /\ r.upperStart = 1 /\ r.lowerStart = 1
      /\ r.rectangle = g
  BY <1>1, <1>2, <1>e DEF SecondPoint, Models
<1>5. /\ qs \in Seq(StoredPoints) /\ Len(qs) = 2 /\ qs[1] = p /\ qs[2] = q
      /\ Lows(qs, eps) = Lows(ps, eps) \cup {l2}
      /\ Highs(qs, eps) = Highs(ps, eps) \cup {Mirror(h2)}
  <2>1. /\ qs \in Seq(StoredPoints) /\ Len(qs) = Len(ps) + 1
        /\ (\A i \in 1..Len(ps) : qs[i] = ps[i]) /\ qs[Len(ps) + 1] = q
        /\ Lows(qs, eps) = Lows(ps, eps) \cup {l2}
        /\ Highs(qs, eps) = Highs(ps, eps) \cup {Mirror(h2)}
    BY <1>e, EndsAppended
  <2> HIDE DEF qs, q, l2, h2
  <2> QED
    BY <1>2, <2>1
<1>6. Lows(ps, eps) = {l1} /\ Highs(ps, eps) = {Mirror(h1)}
  <2>1. DOMAIN ps = {1}
    BY <1>2
  <2> QED
    BY <2>1 DEF Lows, Highs
<1>7. (\A i, j \in DOMAIN qs : i < j => qs[i].x < qs[j].x) /\ qs[Len(qs)].x = x
  <2>1. Len(ps) > 0 /\ ps[Len(ps)].x < x
    BY <1>2, <1>3
  <2> HIDE DEF qs
  <2> QED
    BY ZenonT(30), <1>1, <1>2, <2>1, PointAppended DEF qs
<1> HIDE DEF p
<1>8. /\ h1 \in Plane /\ h1.x = p.x /\ h1.y = p.y + eps /\ l1 \in Plane /\ l1.x = p.x /\ l1.y = p.y - eps
      /\ h2 \in Plane /\ h2.x = x /\ h2.y = y + eps /\ l2 \in Plane /\ l2.x = x /\ l2.y = y - eps
      /\ h2 \in Corners /\ l2 \in Corners
  <2>1. y + eps \in Int /\ y - eps \in Int
    BY <1>1
  <2>2. h2 \in Corners /\ l2 \in Corners
    BY <2>1, CornerPoint
  <2>3. h2 \in Plane /\ h2.x = x /\ h2.y = y + eps /\ l2 \in Plane /\ l2.x = x /\ l2.y = y - eps
    BY <1>e, EndsInPlane
  <2> DEFINE px == p.x
             py == p.y
  <2>4. px \in Nat /\ py \in Nat
    BY <1>3
  <2> HIDE DEF px, py
  <2>5. /\ Point(px, py + eps) \in Plane /\ Point(px, py + eps).x = px /\ Point(px, py + eps).y = py + eps
        /\ Point(px, py - eps) \in Plane /\ Point(px, py - eps).x = px /\ Point(px, py - eps).y = py - eps
    BY SMTT(30), <1>e, <2>4, EndsInPlane
  <2> QED
    BY <2>2, <2>3, <2>5 DEF px, py
<1>9. q.x = x /\ q.y = y
  BY DEF Point
<1>10. /\ LowerView(r)[1] = l1 /\ LowerView(r)[2] = l2
       /\ UpperView(r)[1] = Mirror(h1) /\ UpperView(r)[2] = Mirror(h2)
  BY <1>4, <1>5, <1>9 DEF LowerView, UpperView, LowerAt, UpperAt
<1> HIDE DEF h1, l1, h2, l2, qs, r, g
<1>11. g[0] = h1 /\ g[1] = l1 /\ g[2] = l2 /\ g[3] = h2
  BY <1>1, <1>2, <1>8, RightCorners DEF g
<1>12. h1.x = l1.x /\ h1.y >= l1.y /\ h2.x = l2.x /\ h2.y >= l2.y /\ l1.x < l2.x
  BY <1>1, <1>3, <1>8
<1>13. Enclosed(h1, l2, l1, h2, LowerView(r), 1, 2, UpperView(r), 1, 2,
                {l1, l2}, {Mirror(h1), Mirror(h2)})
  BY <1>8, <1>10, <1>12, TwoPointsEnclosed
<1>14. Lows(qs, eps) = {l1, l2} /\ Highs(qs, eps) = {Mirror(h1), Mirror(h2)}
  BY <1>5, <1>6
<1>15. Exact(r, Lows(qs, eps), Highs(qs, eps))
  BY <1>4, <1>5, <1>11, <1>13, <1>14 DEF Exact
<1>16. Extreme(r.rectangle, Lows(qs, eps), Highs(qs, eps))
  BY <1>15, ExactIsExtreme
<1>17. eps = 0 => h1 = l1 /\ h2 = l2
  <2>1. p.y + 0 = p.y - 0 /\ y + 0 = y - 0
    BY <1>3
  <2> QED
    BY <2>1 DEF h1, l1, h2, l2
<1>18. Tracks(r, qs)
  BY <1>4, <1>5, <1>7, <1>11, <1>15, <1>16, <1>17 DEF Tracks
<1> QED
  BY <1>4, <1>18, <1>e DEF r, qs

\* An accepted point between the lines, its ends apart: both lines may move.
LEMMA NarrowedExact ==
  ASSUME NEW m, WellFormed(m), m.pointsInHull >= 2, m.epsilon # 0,
         NEW x \in Nat, NEW y \in Nat, x > m.lastX, ~Outside(m, x, y),
         NEW E, NEW F, \A q \in E \cup F : q.x < x, Exact(m, E, F),
         NEW u, u = Point(x, y + m.epsilon), NEW l, l = Point(x, y - m.epsilon)
  PROVE  LET r == MinSlopeStep(MaxSlopeStep(m, x, y), x, y)
         IN Exact(r, E \cup {l}, F \cup {Mirror(u)}) /\ r.epsilon = m.epsilon
<1> DEFINE w == MaxSlopeStep(m, x, y)
           G == F \cup {Mirror(u)}
           a == m.rectangle[0]
           b == m.rectangle[2]
           c == m.rectangle[1]
           d == m.rectangle[3]
<1>1. m \in Models /\ m.epsilon \in Nat /\ m.lastX \in Nat
  BY ModelParts DEF WellFormed
<1>2. Narrowing(m, x, y) /\ HullUpTo(m.upper, m.lastX)
  <2>1. StartsInRange(m) /\ HullUpTo(m.lower, m.lastX) /\ HullUpTo(m.upper, m.lastX)
        /\ LinesUpTo(m, m.lastX)
    BY <1>1, ModelParts DEF WellFormed
  <2>2. LinesUpTo(m, x)
    BY SMTT(30), <1>1, <2>1, ModelParts DEF LinesUpTo
  <2> QED
    BY <1>1, <2>1, <2>2 DEF Narrowing
<1>3. /\ u \in Plane /\ u.x = x /\ u.y = y + m.epsilon
      /\ l \in Plane /\ l.x = x /\ l.y = y - m.epsilon
  BY <1>1, EndsInPlane
<1>4. a \in Plane /\ b \in Plane /\ c \in Plane /\ d \in Plane
  BY <1>1, CornersOfModel
<1>5. Cross(a, b, u) >= 0 /\ Cross(c, d, l) <= 0
  <2>1. ~SlopeLT(Minus(u, b), Minus(b, a)) /\ ~SlopeGT(Minus(l, d), Minus(d, c))
    BY DEF Outside, Slope1, Slope2
  <2> HIDE DEF a, b, c, d
  <2>2. ~(Cross(a, b, u) < 0) /\ ~(Cross(c, d, l) > 0)
    BY <1>3, <1>4, <2>1, SlopesAsCross
  <2> QED
    BY <1>3, <1>4, <2>2, CrossValue
<1>6. Narrowing(w, x, y)
  BY <1>2, MaxSlopeStepNarrows
<1>7. Exact(w, E, G) /\ Cross(w.rectangle[1], w.rectangle[3], l) <= 0 /\ w.epsilon = m.epsilon
  BY <1>2, <1>5, MaxSlopeStepExact
<1>8. UpTo(G, Mirror(l))
  <2>1. /\ Mirror(l).x = x /\ Mirror(l).y = -(y - m.epsilon)
        /\ Mirror(u).x = x /\ Mirror(u).y = -(y + m.epsilon)
    BY <1>3, Mirrored
  <2>2. -(y + m.epsilon) <= -(y - m.epsilon)
    BY <1>1
  <2> QED
    BY <2>1, <2>2 DEF UpTo
<1> HIDE DEF w, G
<1>9. l = Point(x, y - w.epsilon) /\ \A q \in E : q.x < x
  BY <1>7
<1>10. Exact(MinSlopeStep(w, x, y), E \cup {l}, G) /\ MinSlopeStep(w, x, y).epsilon = w.epsilon
  BY <1>6, <1>7, <1>8, <1>9, MinSlopeStepExact
<1> QED
  BY <1>7, <1>10 DEF w, G

\* With epsilon 0 an accepted point lies on the line of all others.
LEMMA OnLineExact ==
  ASSUME NEW m \in Models, m.epsilon = 0, m.rectangle[0] = m.rectangle[1], m.rectangle[2] = m.rectangle[3],
         NEW x \in Nat, NEW y \in Nat, OnLine(m, x, y),
         NEW E, NEW F, \A q \in E \cup F : q.x < x, Exact(m, E, F),
         NEW u, u = Point(x, y)
  PROVE  Exact(m, E \cup {u}, F \cup {Mirror(u)})
<1> DEFINE a == m.rectangle[0]
           b == m.rectangle[2]
           h == LowerView(m)
           g == UpperView(m)
           s == m.lowerStart
           n == Len(m.lower)
           t == m.upperStart
           o == Len(m.upper)
           mu == Mirror(u)
<1>1. a \in Plane /\ b \in Plane /\ u \in Plane /\ u.x = x
  BY CornersOfModel, CornersInPlane
<1>2. Cross(a, b, u) = 0
  <2>1. SlopeEQ(Minus(u, a), Minus(b, a))
    BY DEF OnLine, Slope1
  <2> HIDE DEF a, b
  <2> QED
    BY <1>1, <2>1, SlopesAsCross
<1>3. Enclosed(a, b, a, b, h, s, n, g, t, o, E, F)
  BY DEF Exact
<1> HIDE DEF a, b, h, g, s, n, t, o, mu
<1>4. mu \in Plane /\ mu.x = x /\ Mirror(mu) = u /\ Cross(Mirror(a), Mirror(b), mu) = -Cross(a, b, u)
      /\ Mirror(Mirror(a)) = a /\ Mirror(Mirror(b)) = b
  BY <1>1, Mirrored DEF mu
<1>5. Enclosed(a, b, a, b, h, s, n, g, t, o, E, F \cup {mu})
  BY <1>1, <1>2, <1>3, PointBeyond DEF mu
<1>6. Enclosed(Mirror(a), Mirror(b), Mirror(a), Mirror(b), g, t, o, h, s, n, F \cup {mu}, E)
  BY <1>5, EnclosedMirrored
<1>7. Cross(Mirror(a), Mirror(b), mu) >= 0 /\ \A q \in E : q.x < mu.x
  BY <1>2, <1>4
<1>8. Enclosed(Mirror(a), Mirror(b), Mirror(a), Mirror(b), g, t, o, h, s, n, F \cup {mu}, E \cup {u})
  <2>1. Enclosed(Mirror(a), Mirror(b), Mirror(a), Mirror(b), g, t, o, h, s, n,
                 F \cup {mu}, E \cup {Mirror(mu)})
    BY <1>4, <1>6, <1>7, PointBeyond
  <2> QED
    BY <1>4, <2>1
<1>9. Enclosed(Mirror(Mirror(a)), Mirror(Mirror(b)), Mirror(Mirror(a)), Mirror(Mirror(b)),
               h, s, n, g, t, o, E \cup {u}, F \cup {mu})
  BY <1>8, EnclosedMirrored
<1>10. Enclosed(a, b, a, b, h, s, n, g, t, o, E \cup {u}, F \cup {mu})
  BY <1>4, <1>9
<1> QED
  BY <1>10 DEF Exact, a, b, h, g, s, n, t, o, mu

\* An accepted point beyond the second.
LEMMA InnerPointTracks ==
  ASSUME NEW m, WellFormed(m), m.pointsInHull >= 2, NEW ps \in Seq(StoredPoints), Tracks(m, ps),
         NEW x \in Nat, NEW y \in Nat, x > m.lastX, Accepts(m, x, y)
  PROVE  /\ Tracks(InnerPoint(m, x, y), Append(ps, Point(x, y)))
         /\ InnerPoint(m, x, y).epsilon = m.epsilon
<1> DEFINE eps == m.epsilon
           narrowed == IF eps = 0 THEN m ELSE MinSlopeStep(MaxSlopeStep(m, x, y), x, y)
           r == [narrowed EXCEPT !.lastX = x, !.pointsInHull = @ + 1]
           qs == Append(ps, Point(x, y))
           u == Point(x, y + eps)
           l == Point(x, y - eps)
           E == Lows(ps, eps)
           F == Highs(ps, eps)
<1>1. m \in Models /\ eps \in Nat /\ m.pointsInHull \in Nat /\ m.lastX \in Nat
  BY ModelParts DEF WellFormed
<1>2. /\ Len(ps) >= 2 /\ Exact(m, E, F)
      /\ eps = 0 => m.rectangle[0] = m.rectangle[1] /\ m.rectangle[2] = m.rectangle[3]
      /\ Len(ps) > 0 /\ ps[Len(ps)].x < x /\ \A i, j \in DOMAIN ps : i < j => ps[i].x < ps[j].x
  <2>1. Len(ps) >= 2 /\ Len(ps) > 0 /\ ps[Len(ps)].x = m.lastX
    BY <1>1 DEF Tracks
  <2> QED
    BY <1>1, <2>1 DEF Tracks
<1>3. (eps = 0 /\ OnLine(m, x, y)) \/ (eps # 0 /\ ~Outside(m, x, y))
  BY <1>1 DEF Accepts
<1>4. /\ \A i, j \in DOMAIN qs : i < j => qs[i].x < qs[j].x
      /\ \A q \in E \cup F : q.x < x
      /\ Len(qs) = Len(ps) + 1 /\ qs[Len(qs)].x = x
  BY <1>1, <1>2, PointAppended
<1>5. Lows(qs, eps) = E \cup {l} /\ Highs(qs, eps) = F \cup {Mirror(u)}
  BY <1>1, EndsAppended
<1>6. /\ Exact(narrowed, E \cup {l}, F \cup {Mirror(u)}) /\ narrowed.epsilon = eps
      /\ eps = 0 => /\ narrowed.rectangle[0] = narrowed.rectangle[1]
                    /\ narrowed.rectangle[2] = narrowed.rectangle[3]
  <2>1. CASE eps = 0
    <3>1. u = Point(x, y) /\ l = Point(x, y) /\ narrowed = m
      BY <2>1
    <3> HIDE DEF u, l, E, F, narrowed
    <3>2. Exact(m, E \cup {Point(x, y)}, F \cup {Mirror(Point(x, y))})
      BY <1>1, <1>2, <1>3, <1>4, <2>1, OnLineExact
    <3> QED
      BY <1>2, <2>1, <3>1, <3>2
  <2>2. CASE eps # 0
    <3>1. narrowed = MinSlopeStep(MaxSlopeStep(m, x, y), x, y)
      BY <2>2
    <3>2. ~Outside(m, x, y)
      BY <1>3, <2>2
    <3> HIDE DEF E, F, narrowed
    <3> QED
      BY <1>2, <1>4, <2>2, <3>1, <3>2, NarrowedExact
  <2> QED
    BY <2>1, <2>2
<1>7. /\ narrowed \in Models /\ narrowed.pointsInHull = m.pointsInHull
  <2>1. CASE eps = 0
    BY <1>1, <2>1
  <2>2. CASE eps # 0
    <3>1. StartsInRange(m) /\ HullUpTo(m.lower, m.lastX) /\ HullUpTo(m.upper, m.lastX)
          /\ LinesUpTo(m, m.lastX)
      BY <1>1, ModelParts DEF WellFormed
    <3>2. LinesUpTo(m, x)
      BY SMTT(30), <1>1, <3>1, ModelParts DEF LinesUpTo
    <3>3. Narrowing(m, x, y)
      BY <1>1, <2>2, <3>1, <3>2 DEF Narrowing
    <3>4. /\ Narrowing(MaxSlopeStep(m, x, y), x, y)
          /\ MaxSlopeStep(m, x, y).pointsInHull = m.pointsInHull
      BY <3>1, <3>3, MaxSlopeStepNarrows
    <3> QED
      BY <2>2, <3>4, MinSlopeStepNarrows
  <2> QED
    BY <2>1, <2>2
<1>8. InnerPoint(m, x, y) = r
  BY DEF InnerPoint
<1> HIDE DEF narrowed
<1>9. /\ r.epsilon = narrowed.epsilon /\ r.rectangle = narrowed.rectangle
      /\ r.lower = narrowed.lower /\ r.upper = narrowed.upper
      /\ r.lowerStart = narrowed.lowerStart /\ r.upperStart = narrowed.upperStart
      /\ r.lastX = x /\ r.pointsInHull = m.pointsInHull + 1
  BY <1>7 DEF Models
<1> HIDE DEF r, qs, u, l, E, F, eps
<1>10. Exact(r, Lows(qs, eps), Highs(qs, eps))
  BY <1>5, <1>6, <1>9 DEF Exact, LowerView, UpperView, LowerAt, UpperAt
<1>11. Extreme(r.rectangle, Lows(qs, eps), Highs(qs, eps))
  BY <1>10, ExactIsExtreme
<1>12. r.pointsInHull > 0 /\ r.pointsInHull # 1 /\ r.pointsInHull >= 2 /\ Len(qs) >= 2 /\ Len(qs) > 0
  BY <1>1, <1>2, <1>4, <1>9
<1>13. Tracks(r, qs)
  BY <1>4, <1>6, <1>9, <1>10, <1>11, <1>12 DEF Tracks
<1> QED
  BY <1>6, <1>8, <1>9, <1>13 DEF qs, eps

\* Refusing and resetting leave the rectangle, and what it describes.
LEMMA EmptiedTracks ==
  ASSUME NEW m \in Models, NEW x \in Nat, NEW ps, Tracks(m, ps)
  PROVE  /\ Tracks(Refuse(m, x), ps) /\ Refuse(m, x).epsilon = m.epsilon
         /\ Tracks(ResetModel(m), <<>>) /\ ResetModel(m).epsilon = m.epsilon
<1>1. /\ Refuse(m, x).pointsInHull = 0 /\ Refuse(m, x).epsilon = m.epsilon
      /\ Refuse(m, x).rectangle = m.rectangle
  BY DEF Refuse, Models
<1>2. ResetModel(m).pointsInHull = 0 /\ ResetModel(m).epsilon = m.epsilon
  BY DEF ResetModel, Models
<1>3. Tracks(Refuse(m, x), ps)
  BY <1>1 DEF Tracks
<1>4. Tracks(ResetModel(m), <<>>)
  <2>1. DOMAIN <<>> = {} /\ Len(<<>>) = 0
    OBVIOUS
  <2> QED
    BY <1>2, <2>1 DEF Tracks
<1> QED
  BY <1>1, <1>2, <1>3, <1>4

\* add_point: the object goes on describing the points of its segment.
LEMMA AddPointTracks ==
  ASSUME NEW m, WellFormed(m), NEW ps \in Seq(StoredPoints), Tracks(m, ps),
         NEW x \in Nat, NEW y \in Nat, m.pointsInHull > 0 => x > m.lastX
  PROVE  LET r == AddPoint(m, x, y)
             start == IF m.pointsInHull = 0 THEN <<>> ELSE ps
         IN /\ r.epsilon = m.epsilon
            /\ Tracks(r, IF Accepts(m, x, y) THEN Append(start, Point(x, y)) ELSE ps)
<1> DEFINE r == AddPoint(m, x, y)
           q == Point(x, y)
<1>1. m \in Models /\ m.pointsInHull \in Nat
  BY ModelParts DEF WellFormed
<1>2. CASE m.pointsInHull = 0
  <2>1. Accepts(m, x, y) /\ r = FirstPoint(m, x, y) /\ Append(<<>>, q) = <<q>>
    BY <1>2 DEF Accepts, AddPoint
  <2> QED
    BY <1>1, <1>2, <2>1, FirstPointTracks
<1>3. CASE m.pointsInHull = 1
  <2>1. Accepts(m, x, y) /\ r = SecondPoint(m, x, y)
    BY <1>3 DEF Accepts, AddPoint
  <2> QED
    BY <1>3, <2>1, SecondPointTracks
<1>4. CASE m.pointsInHull >= 2 /\ Accepts(m, x, y)
  <2>1. r = InnerPoint(m, x, y) /\ m.pointsInHull # 0 /\ m.pointsInHull > 0
    BY <1>1, <1>4 DEF AddPoint
  <2> QED
    BY <1>4, <2>1, InnerPointTracks
<1>5. CASE m.pointsInHull >= 2 /\ ~Accepts(m, x, y)
  <2>1. r = Refuse(m, x)
    BY <1>1, <1>5 DEF AddPoint
  <2> QED
    BY <1>1, <1>5, <2>1, EmptiedTracks
<1> QED
  BY <1>1, <1>2, <1>3, <1>4, <1>5

-----------------------------------------------------------------------------
(* What the extreme lines say of the points.                               *)

\* How far above the line ab the point is, times the run of the line.
ErrorOf(a, b, x, y) == (y - a.y) * Minus(b, a).dx - (x - a.x) * Minus(b, a).dy

\* The cross products of the two ends of a point are epsilon off that error.
EndsOff(a, b, eps, x, y) ==
  /\ Cross(a, b, Point(x, y - eps)) = ErrorOf(a, b, x, y) - eps * Minus(b, a).dx
  /\ Cross(a, b, Point(x, y + eps)) = ErrorOf(a, b, x, y) + eps * Minus(b, a).dx
  /\ ErrorOf(a, b, x, y) \in Int /\ eps * Minus(b, a).dx \in Int

\* The cross products of the two ends of a point, for every line.
LEMMA EndsOfPoint ==
  ASSUME NEW a \in Plane, NEW b \in Plane, NEW eps \in Nat, NEW x \in Nat, NEW y \in Nat
  PROVE  EndsOff(a, b, eps, x, y)
<1> DEFINE e == ErrorOf(a, b, x, y)
           s == Minus(b, a)
           l == Point(x, y - eps)
           h == Point(x, y + eps)
<1>1. l \in Plane /\ l.x = x /\ l.y = y - eps /\ h \in Plane /\ h.x = x /\ h.y = y + eps
  BY EndsInPlane
<1> DEFINE u == b.x - a.x
           v == b.y - a.y
           w == x - a.x
           t == y - a.y
<1>2. u \in Int /\ v \in Int /\ w \in Int /\ t \in Int
  BY Coordinates
<1>3. l.y - a.y = t - eps /\ h.y - a.y = t + eps /\ l.x - a.x = w /\ h.x - a.x = w
  BY <1>1, Coordinates
<1>4. Cross(a, b, l) = u * (l.y - a.y) - v * (l.x - a.x) /\ Cross(a, b, h) = u * (h.y - a.y) - v * (h.x - a.x)
  BY <1>1, CrossValue
<1>5. e = t * u - w * v /\ s.dx = u
  BY DEF Minus, ErrorOf
<1> HIDE DEF e, s, l, h, u, v, w, t
<1>6. Cross(a, b, l) = u * (t - eps) - v * w /\ Cross(a, b, h) = u * (t + eps) - v * w
  BY <1>3, <1>4
<1> QED
  <2>1. Cross(a, b, l) = e - eps * s.dx /\ Cross(a, b, h) = e + eps * s.dx
        /\ e \in Int /\ eps * s.dx \in Int
    BY <1>2, <1>5, <1>6
  <2> QED
    BY <2>1 DEF EndsOff, l, h, e, s

\* A line between the ends passes within epsilon of the points.
LEMMA BetweenFits ==
  ASSUME NEW ps \in Seq(StoredPoints), NEW eps \in Nat, NEW a \in Plane, NEW b \in Plane,
         Between(a, b, Lows(ps, eps), Highs(ps, eps))
  PROVE  LineFits(a, b, ps, eps)
<1>1. ASSUME NEW k \in DOMAIN ps
      PROVE  LET e == ErrorOf(a, b, ps[k].x, ps[k].y)
                 s == Minus(b, a)
             IN e <= eps * s.dx /\ e >= -(eps * s.dx)
  <2> DEFINE x == ps[k].x
             y == ps[k].y
             l == Point(x, y - eps)
             h == Point(x, y + eps)
             e == ErrorOf(a, b, x, y)
             c == eps * Minus(b, a).dx
  <2>1. x \in Nat /\ y \in Nat
    BY StoredPointParts
  <2>3. l \in Lows(ps, eps) /\ Mirror(h) \in Highs(ps, eps)
    BY DEF Lows, Highs
  <2> HIDE DEF x, y
  <2>4. h \in Plane
    BY <2>1, EndsInPlane
  <2>5. Cross(a, b, l) = e - c /\ Cross(a, b, h) = e + c /\ e \in Int /\ c \in Int
    <3>1. EndsOff(a, b, eps, x, y)
      BY <2>1, EndsOfPoint
    <3> QED
      BY <3>1 DEF EndsOff
  <2>6. Cross(a, b, l) <= 0 /\ Cross(Mirror(a), Mirror(b), Mirror(h)) <= 0
    BY <2>3 DEF Between, Below
  <2>7. Cross(Mirror(a), Mirror(b), Mirror(h)) = -Cross(a, b, h)
    BY <2>4, Mirrored
  <2> HIDE DEF l, h, e, c
  <2>8. e <= c /\ e >= -c
    BY <2>5, <2>6, <2>7
  <2> QED
    BY <2>8 DEF e, c, x, y
<1> QED
  BY <1>1 DEF LineFits, ErrorOf

\* The slope of a line that fits is between the bounds that any two points
\* put on it.
LEMMA FittingSlope ==
  ASSUME NEW ps \in Seq(StoredPoints), NEW eps \in Nat, NEW a \in Plane, NEW b \in Plane,
         LineFits(a, b, ps, eps), NEW q \in Pairs(ps)
  PROVE  /\ ~SlopeLT(Minus(b, a), LeastSlope(ps, eps, q))
         /\ ~SlopeGT(Minus(b, a), GreatestSlope(ps, eps, q))
<1> DEFINE u == b.x - a.x
           v == b.y - a.y
           i == q[1]
           j == q[2]
           x1 == ps[i].x
           y1 == ps[i].y
           x2 == ps[j].x
           y2 == ps[j].y
<1>1. i \in 1..Len(ps) /\ j \in 1..Len(ps)
  BY DEF Pairs
<1>2. x1 \in Nat /\ y1 \in Nat /\ x2 \in Nat /\ y2 \in Nat
  <2> HIDE DEF i, j
  <2> QED
    BY <1>1, StoredPointParts
<1>3. a.x \in Int /\ a.y \in Int /\ u \in Int /\ v \in Int
  BY Coordinates
<1>4. Minus(b, a) = [dx |-> u, dy |-> v]
  BY DEF Minus
<1>5. /\ (y1 - a.y) * u - (x1 - a.x) * v <= eps * u
      /\ (y1 - a.y) * u - (x1 - a.x) * v >= -(eps * u)
      /\ (y2 - a.y) * u - (x2 - a.x) * v <= eps * u
      /\ (y2 - a.y) * u - (x2 - a.x) * v >= -(eps * u)
  BY <1>1, <1>4 DEF LineFits
<1>6. /\ LeastSlope(ps, eps, q) = [dx |-> x2 - x1, dy |-> y2 - y1 - 2 * eps]
      /\ GreatestSlope(ps, eps, q) = [dx |-> x2 - x1, dy |-> y2 - y1 + 2 * eps]
  BY DEF LeastSlope, GreatestSlope
<1> DEFINE c == a.x
           d == a.y
<1>7. c \in Int /\ d \in Int
  BY <1>3
<1> HIDE DEF u, v, i, j, x1, y1, x2, y2
<1>8. /\ (y1 - d) * u - (x1 - c) * v <= eps * u
      /\ (y1 - d) * u - (x1 - c) * v >= -(eps * u)
      /\ (y2 - d) * u - (x2 - c) * v <= eps * u
      /\ (y2 - d) * u - (x2 - c) * v >= -(eps * u)
  BY <1>5
<1> HIDE DEF c, d
<1>9. /\ (y2 - y1 - 2 * eps) * u <= (x2 - x1) * v
      /\ (y2 - y1 + 2 * eps) * u >= (x2 - x1) * v
  <2>1. /\ (y1 - d) * u = y1 * u - d * u /\ (y2 - d) * u = y2 * u - d * u
        /\ (x1 - c) * v = x1 * v - c * v /\ (x2 - c) * v = x2 * v - c * v
        /\ (y2 - y1 - 2 * eps) * u = y2 * u - y1 * u - 2 * (eps * u)
        /\ (y2 - y1 + 2 * eps) * u = y2 * u - y1 * u + 2 * (eps * u)
        /\ (x2 - x1) * v = x2 * v - x1 * v
    BY <1>2, <1>3, <1>7
  <2> QED
    BY <1>2, <1>3, <1>7, <1>8, <2>1
<1> DEFINE w == x2 - x1
           g == y2 - y1 - 2 * eps
           h == y2 - y1 + 2 * eps
<1>10. w \in Int /\ g \in Int /\ h \in Int /\ g * u <= w * v /\ h * u >= w * v
  BY <1>2, <1>9
<1>11. LeastSlope(ps, eps, q) = [dx |-> w, dy |-> g] /\ GreatestSlope(ps, eps, q) = [dx |-> w, dy |-> h]
  BY <1>6
<1> HIDE DEF w, g, h
<1>12. /\ SlopeLT(Minus(b, a), LeastSlope(ps, eps, q)) <=> v * w < u * g
       /\ SlopeGT(Minus(b, a), GreatestSlope(ps, eps, q)) <=> v * w > u * h
  BY <1>4, <1>11 DEF SlopeLT, SlopeGT
<1>13. v * w = w * v /\ u * g = g * u /\ u * h = h * u /\ v * w \in Int /\ u * g \in Int /\ u * h \in Int
  BY <1>3, <1>10
<1> QED
  BY <1>10, <1>12, <1>13

\* A slope between two others: the bounds on it are in order.
LEMMA SlopeTransitive ==
  ASSUME NEW u \in Int, u > 0, NEW v \in Int, NEW w \in Int, w > 0, NEW g \in Int,
         NEW t \in Int, t > 0, NEW h \in Int,
         ~SlopeLT([dx |-> u, dy |-> v], [dx |-> w, dy |-> g]),
         ~SlopeGT([dx |-> u, dy |-> v], [dx |-> t, dy |-> h])
  PROVE  ~SlopeGT([dx |-> w, dy |-> g], [dx |-> t, dy |-> h])
<1>1. v * w >= u * g /\ v * t <= u * h
  BY DEF SlopeLT, SlopeGT
<1>2. (u * g) * t <= (v * w) * t /\ (v * t) * w <= (u * h) * w
  BY <1>1
<1>3. (v * w) * t = (v * t) * w /\ (u * g) * t = u * (g * t) /\ (u * h) * w = u * (w * h)
  OBVIOUS
<1> DEFINE gt == g * t
           wh == w * h
<1>4. gt \in Int /\ wh \in Int /\ u * gt <= u * wh
  BY <1>2, <1>3
<1> HIDE DEF gt, wh
<1>5. gt <= wh
  BY <1>4
<1> QED
  BY <1>4, <1>5 DEF SlopeGT, gt, wh

\* Where one line fits, no two bounds on the slope exclude each other.
LEMMA FittingLineFeasible ==
  ASSUME NEW ps \in Seq(StoredPoints), NEW eps \in Nat, NEW a \in Plane, NEW b \in Plane, a.x < b.x,
         LineFits(a, b, ps, eps), \A i, j \in DOMAIN ps : i < j => ps[i].x < ps[j].x
  PROVE  Feasible(ps, eps)
<1> DEFINE u == b.x - a.x
           v == b.y - a.y
<1>1. u \in Int /\ u > 0 /\ v \in Int /\ Minus(b, a) = [dx |-> u, dy |-> v]
  BY Coordinates DEF Minus
<1> HIDE DEF u, v
<1>2. ASSUME NEW q \in Pairs(ps)
      PROVE  \E w, g, h \in Int : w > 0 /\ LeastSlope(ps, eps, q) = [dx |-> w, dy |-> g]
                                        /\ GreatestSlope(ps, eps, q) = [dx |-> w, dy |-> h]
  <2>1. q[1] \in 1..Len(ps) /\ q[2] \in 1..Len(ps) /\ ps[q[1]].x < ps[q[2]].x
    BY DEF Pairs
  <2> DEFINE x1 == ps[q[1]].x
             y1 == ps[q[1]].y
             x2 == ps[q[2]].x
             y2 == ps[q[2]].y
  <2>2. x1 \in Nat /\ y1 \in Nat /\ x2 \in Nat /\ y2 \in Nat /\ x1 < x2
    BY <2>1, StoredPointParts
  <2>3. /\ LeastSlope(ps, eps, q) = [dx |-> x2 - x1, dy |-> y2 - y1 - 2 * eps]
        /\ GreatestSlope(ps, eps, q) = [dx |-> x2 - x1, dy |-> y2 - y1 + 2 * eps]
    BY DEF LeastSlope, GreatestSlope
  <2> HIDE DEF x1, y1, x2, y2
  <2>4. /\ x2 - x1 \in Int /\ x2 - x1 > 0
        /\ y2 - y1 - 2 * eps \in Int /\ y2 - y1 + 2 * eps \in Int
    BY <2>2
  <2> QED
    BY <2>3, <2>4
<1>3. ASSUME NEW q \in Pairs(ps), NEW r \in Pairs(ps)
      PROVE  ~SlopeGT(LeastSlope(ps, eps, q), GreatestSlope(ps, eps, r))
  <2>1. PICK w \in Int, g \in Int : w > 0 /\ LeastSlope(ps, eps, q) = [dx |-> w, dy |-> g]
    BY <1>2
  <2>2. PICK t \in Int, h \in Int : t > 0 /\ GreatestSlope(ps, eps, r) = [dx |-> t, dy |-> h]
    BY <1>2
  <2>3. /\ ~SlopeLT(Minus(b, a), LeastSlope(ps, eps, q))
        /\ ~SlopeGT(Minus(b, a), GreatestSlope(ps, eps, r))
    BY FittingSlope
  <2> QED
    BY <1>1, <2>1, <2>2, <2>3, SlopeTransitive
<1> QED
  BY <1>3 DEF Feasible

\* The ends of the points, and which points they are the ends of.
HighEnd(p, eps) == Point(p.x, p.y + eps)
LowEnd(p, eps) == Point(p.x, p.y - eps)

\* The minimum-slope line runs from an upper to a lower end, the maximum-slope
\* line from a lower to an upper end, of points in that order.
Rests(r, ps, eps, q, p) ==
  /\ q \in Pairs(ps) /\ r[0] = HighEnd(ps[q[1]], eps) /\ r[2] = LowEnd(ps[q[2]], eps)
  /\ p \in Pairs(ps) /\ r[1] = LowEnd(ps[p[1]], eps) /\ r[3] = HighEnd(ps[p[2]], eps)

\* The coordinates of the ends of a point of the segment.
LEMMA EndsOfSegment ==
  ASSUME NEW ps \in Seq(StoredPoints), NEW eps \in Nat, NEW i \in 1..Len(ps)
  PROVE  /\ HighEnd(ps[i], eps) \in Plane /\ HighEnd(ps[i], eps).x = ps[i].x
         /\ HighEnd(ps[i], eps).y = ps[i].y + eps
         /\ LowEnd(ps[i], eps) \in Plane /\ LowEnd(ps[i], eps).x = ps[i].x
         /\ LowEnd(ps[i], eps).y = ps[i].y - eps
         /\ ps[i].x \in Nat /\ ps[i].y \in Nat
<1> DEFINE x == ps[i].x
           y == ps[i].y
<1>1. x \in Nat /\ y \in Nat
  BY StoredPointParts
<1> HIDE DEF x, y
<1>2. /\ Point(x, y + eps) \in Plane /\ Point(x, y + eps).x = x /\ Point(x, y + eps).y = y + eps
      /\ Point(x, y - eps) \in Plane /\ Point(x, y - eps).x = x /\ Point(x, y - eps).y = y - eps
  BY <1>1, EndsInPlane
<1> QED
  BY <1>1, <1>2 DEF HighEnd, LowEnd, x, y

\* An element of Lows or Highs is an end of one of the points.
LEMMA EndsNamed ==
  ASSUME NEW ps \in Seq(StoredPoints), NEW eps \in Nat, NEW a \in Plane
  PROVE  /\ a \in Lows(ps, eps) => \E i \in 1..Len(ps) : a = LowEnd(ps[i], eps)
         /\ Mirror(a) \in Highs(ps, eps) => \E i \in 1..Len(ps) : a = HighEnd(ps[i], eps)
<1>1. DOMAIN ps = 1..Len(ps)
  OBVIOUS
<1>2. a \in Lows(ps, eps) => \E i \in 1..Len(ps) : a = LowEnd(ps[i], eps)
  BY <1>1 DEF Lows, LowEnd
<1>3. ASSUME Mirror(a) \in Highs(ps, eps)
      PROVE  \E i \in 1..Len(ps) : a = HighEnd(ps[i], eps)
  <2>1. PICK i \in 1..Len(ps) : Mirror(a) = Mirror(HighEnd(ps[i], eps))
    BY <1>1, <1>3 DEF Highs, HighEnd
  <2>2. Mirror(Mirror(a)) = a /\ Mirror(Mirror(HighEnd(ps[i], eps))) = HighEnd(ps[i], eps)
    BY EndsOfSegment, Mirrored
  <2> QED
    BY <2>1, <2>2
<1> QED
  BY <1>2, <1>3

\* An extreme line runs from one point to a later one.
LEMMA ExtremeRests ==
  ASSUME NEW ps \in Seq(StoredPoints), NEW eps \in Nat, NEW r,
         Extreme(r, Lows(ps, eps), Highs(ps, eps)), \A i, j \in DOMAIN ps : i < j => ps[i].x < ps[j].x
  PROVE  \E q, p \in Pairs(ps) : Rests(r, ps, eps, q, p)
<1>1. DOMAIN ps = 1..Len(ps) /\ Len(ps) \in Nat
  OBVIOUS
<1>2. /\ r[0] \in Plane /\ r[2] \in Plane /\ r[0].x < r[2].x
      /\ r[1] \in Plane /\ r[3] \in Plane /\ r[1].x < r[3].x
  BY DEF Extreme
<1>3. PICK i \in 1..Len(ps) : r[0] = HighEnd(ps[i], eps)
  BY <1>2, EndsNamed DEF Extreme
<1>4. PICK j \in 1..Len(ps) : r[2] = LowEnd(ps[j], eps)
  BY <1>2, EndsNamed DEF Extreme
<1>5. PICK k \in 1..Len(ps) : r[1] = LowEnd(ps[k], eps)
  BY <1>2, EndsNamed DEF Extreme
<1>6. PICK l \in 1..Len(ps) : r[3] = HighEnd(ps[l], eps)
  BY <1>2, EndsNamed DEF Extreme
<1>7. ASSUME NEW f \in 1..Len(ps), NEW g \in 1..Len(ps), ps[f].x < ps[g].x
      PROVE  f < g /\ <<f, g>> \in Pairs(ps)
  <2>1. ps[f].x \in Nat /\ ps[g].x \in Nat
    BY StoredPointParts
  <2>2. ~(g < f) /\ f # g
    BY SMTT(30), <1>1, <1>7, <2>1
  <2> QED
    BY <1>1, <2>2 DEF Pairs
<1>8. ps[i].x < ps[j].x /\ ps[k].x < ps[l].x
  BY <1>2, <1>3, <1>4, <1>5, <1>6, EndsOfSegment
<1>9. <<i, j>> \in Pairs(ps) /\ <<k, l>> \in Pairs(ps)
  BY <1>7, <1>8
<1>10. Rests(r, ps, eps, <<i, j>>, <<k, l>>)
  BY <1>3, <1>4, <1>5, <1>6, <1>9 DEF Rests
<1> QED
  BY <1>9, <1>10

\* The bounds on the slope, as differences of ends.
LEMMA BoundsAreEnds ==
  ASSUME NEW ps \in Seq(StoredPoints), NEW eps \in Nat, NEW q \in Pairs(ps)
  PROVE  /\ LeastSlope(ps, eps, q) = Minus(LowEnd(ps[q[2]], eps), HighEnd(ps[q[1]], eps))
         /\ GreatestSlope(ps, eps, q) = Minus(HighEnd(ps[q[2]], eps), LowEnd(ps[q[1]], eps))
         /\ LeastSlope(ps, eps, q).dx \in Int /\ LeastSlope(ps, eps, q).dy \in Int
         /\ GreatestSlope(ps, eps, q).dx \in Int /\ GreatestSlope(ps, eps, q).dy \in Int
<1> DEFINE i == q[1]
           j == q[2]
<1>1. i \in 1..Len(ps) /\ j \in 1..Len(ps)
  BY DEF Pairs
<1> DEFINE x1 == ps[i].x
           y1 == ps[i].y
           x2 == ps[j].x
           y2 == ps[j].y
<1>2. /\ LeastSlope(ps, eps, q) = [dx |-> x2 - x1, dy |-> y2 - y1 - 2 * eps]
      /\ GreatestSlope(ps, eps, q) = [dx |-> x2 - x1, dy |-> y2 - y1 + 2 * eps]
  BY DEF LeastSlope, GreatestSlope
<1> HIDE DEF i, j
<1>3. /\ HighEnd(ps[i], eps).x = x1 /\ HighEnd(ps[i], eps).y = y1 + eps
      /\ LowEnd(ps[i], eps).x = x1 /\ LowEnd(ps[i], eps).y = y1 - eps
      /\ HighEnd(ps[j], eps).x = x2 /\ HighEnd(ps[j], eps).y = y2 + eps
      /\ LowEnd(ps[j], eps).x = x2 /\ LowEnd(ps[j], eps).y = y2 - eps
      /\ x1 \in Nat /\ y1 \in Nat /\ x2 \in Nat /\ y2 \in Nat
  BY <1>1, EndsOfSegment
<1> HIDE DEF x1, y1, x2, y2
<1>4. /\ Minus(LowEnd(ps[j], eps), HighEnd(ps[i], eps)) = [dx |-> x2 - x1, dy |-> (y2 - eps) - (y1 + eps)]
      /\ Minus(HighEnd(ps[j], eps), LowEnd(ps[i], eps)) = [dx |-> x2 - x1, dy |-> (y2 + eps) - (y1 - eps)]
  BY <1>3 DEF Minus
<1>5. (y2 - eps) - (y1 + eps) = y2 - y1 - 2 * eps /\ (y2 + eps) - (y1 - eps) = y2 - y1 + 2 * eps
  BY <1>3
<1>6. /\ LeastSlope(ps, eps, q) = Minus(LowEnd(ps[j], eps), HighEnd(ps[i], eps))
      /\ GreatestSlope(ps, eps, q) = Minus(HighEnd(ps[j], eps), LowEnd(ps[i], eps))
  BY <1>2, <1>4, <1>5
<1>7. x2 - x1 \in Int /\ y2 - y1 - 2 * eps \in Int /\ y2 - y1 + 2 * eps \in Int
  BY <1>3
<1> QED
  BY <1>2, <1>6, <1>7 DEF i, j

\* Both extreme lines fit the points that the object describes.
LEMMA TracksFits ==
  ASSUME NEW m \in Models, NEW ps \in Seq(StoredPoints), Tracks(m, ps), Len(ps) >= 2
  PROVE  /\ m.rectangle[0] \in Plane /\ m.rectangle[2] \in Plane /\ m.rectangle[0].x < m.rectangle[2].x
         /\ LineFits(m.rectangle[0], m.rectangle[2], ps, m.epsilon)
         /\ LineFits(m.rectangle[1], m.rectangle[3], ps, m.epsilon)
<1>1. Extreme(m.rectangle, Lows(ps, m.epsilon), Highs(ps, m.epsilon)) /\ m.epsilon \in Nat
  BY ModelParts DEF Tracks
<1> QED
  BY <1>1, BetweenFits DEF Extreme

\* Their slopes are bounds that two of the points put on the slope of a line.
LEMMA TracksExact ==
  ASSUME NEW m \in Models, NEW ps \in Seq(StoredPoints), Tracks(m, ps), Len(ps) >= 2
  PROVE  \E q, p \in Pairs(ps) : /\ Rests(m.rectangle, ps, m.epsilon, q, p)
                                 /\ Slope1(m) = LeastSlope(ps, m.epsilon, q)
                                 /\ Slope2(m) = GreatestSlope(ps, m.epsilon, p)
<1> DEFINE eps == m.epsilon
           r == m.rectangle
<1>1. /\ Extreme(r, Lows(ps, eps), Highs(ps, eps)) /\ eps \in Nat
      /\ \A i, j \in DOMAIN ps : i < j => ps[i].x < ps[j].x
  BY ModelParts DEF Tracks
<1>2. Slope1(m) = Minus(r[2], r[0]) /\ Slope2(m) = Minus(r[3], r[1])
  BY DEF Slope1, Slope2
<1> HIDE DEF eps, r
<1>3. PICK q, p \in Pairs(ps) : Rests(r, ps, eps, q, p)
  BY <1>1, ExtremeRests
<1>4. Minus(r[2], r[0]) = LeastSlope(ps, eps, q) /\ Minus(r[3], r[1]) = GreatestSlope(ps, eps, p)
  BY <1>1, <1>3, BoundsAreEnds DEF Rests
<1> QED
  BY <1>2, <1>3, <1>4 DEF eps, r

\* The points of a segment can be fitted by one line.
LEMMA TracksFeasible ==
  ASSUME NEW m \in Models, NEW ps \in Seq(StoredPoints), Tracks(m, ps)
  PROVE  Feasible(ps, m.epsilon)
<1>1. CASE Len(ps) >= 2
  <2>1. m.epsilon \in Nat /\ \A i, j \in DOMAIN ps : i < j => ps[i].x < ps[j].x
    BY ModelParts DEF Tracks
  <2> QED
    BY <1>1, <2>1, TracksFits, FittingLineFeasible
<1>2. CASE ~(Len(ps) >= 2)
  <2>1. \A i, j \in DOMAIN ps : ~(i < j)
    BY <1>2
  <2>2. Pairs(ps) = {}
    BY <2>1 DEF Pairs
  <2> QED
    BY <2>2 DEF Feasible
<1> QED
  BY <1>1, <1>2

\* Of two slopes, one is the lesser exactly when the other is the greater.
LEMMA SlopesCompared ==
  ASSUME NEW s, NEW t, s.dx \in Int, s.dy \in Int, t.dx \in Int, t.dy \in Int
  PROVE  /\ SlopeLT(s, t) <=> SlopeGT(t, s)
         /\ SlopeEQ(s, t) \/ SlopeGT(s, t) \/ SlopeGT(t, s)
<1> DEFINE u == s.dy * t.dx
           v == s.dx * t.dy
<1>1. u \in Int /\ v \in Int /\ t.dy * s.dx = v /\ t.dx * s.dy = u
  OBVIOUS
<1>2. /\ SlopeLT(s, t) <=> u < v
      /\ SlopeEQ(s, t) <=> u = v
      /\ SlopeGT(s, t) <=> u > v
      /\ SlopeGT(t, s) <=> v > u
  BY <1>1 DEF SlopeLT, SlopeEQ, SlopeGT
<1> HIDE DEF u, v
<1> QED
  BY <1>1, <1>2

\* A refused point: two bounds on the slope exclude each other.
LEMMA RefusedInfeasible ==
  ASSUME NEW m, WellFormed(m), NEW ps \in Seq(StoredPoints), Tracks(m, ps),
         NEW x \in Nat, NEW y \in Nat, ~Accepts(m, x, y)
  PROVE  ~Feasible(Append(ps, Point(x, y)), m.epsilon)
<1> DEFINE eps == m.epsilon
           qs == Append(ps, Point(x, y))
           n == Len(ps)
           r == m.rectangle
<1>1. m \in Models /\ eps \in Nat /\ m.pointsInHull \in Nat
  BY ModelParts DEF WellFormed
<1>2. m.pointsInHull >= 2 /\ (eps = 0 => ~OnLine(m, x, y)) /\ (eps # 0 => Outside(m, x, y))
  BY <1>1 DEF Accepts
<1>3. n >= 2 /\ n \in Nat /\ (eps = 0 => r[0] = r[1] /\ r[2] = r[3])
  BY <1>2 DEF Tracks
<1>4. /\ qs \in Seq(StoredPoints) /\ Len(qs) = n + 1 /\ (\A i \in 1..n : qs[i] = ps[i])
      /\ qs[n + 1] = Point(x, y)
  BY <1>1, EndsAppended
<1>5. PICK q, p \in Pairs(ps) : /\ Rests(r, ps, eps, q, p)
                                /\ Slope1(m) = LeastSlope(ps, eps, q)
                                /\ Slope2(m) = GreatestSlope(ps, eps, p)
  BY <1>1, <1>3, TracksExact
<1> HIDE DEF qs, n
<1>6. DOMAIN ps = 1..n /\ DOMAIN qs = 1..n + 1
  BY <1>4 DEF n
<1> DEFINE i == q[1]
           j == q[2]
           k == p[1]
           l == p[2]
<1>7. /\ i \in 1..n /\ j \in 1..n /\ i < j /\ q = <<i, j>>
      /\ k \in 1..n /\ l \in 1..n /\ k < l /\ p = <<k, l>>
  BY <1>6 DEF Pairs
<1> HIDE DEF i, j, k, l, r
<1>8. /\ q \in Pairs(qs) /\ p \in Pairs(qs) /\ <<i, n + 1>> \in Pairs(qs)
      /\ <<j, n + 1>> \in Pairs(qs) /\ <<l, n + 1>> \in Pairs(qs)
  BY <1>3, <1>6, <1>7 DEF Pairs
<1>9. /\ Slope1(m) = LeastSlope(qs, eps, q) /\ Slope2(m) = GreatestSlope(qs, eps, p)
  BY <1>4, <1>5, <1>7 DEF LeastSlope, GreatestSlope, i, j, k, l
<1>10. /\ r[0] = HighEnd(qs[i], eps) /\ r[2] = LowEnd(qs[j], eps)
       /\ r[1] = LowEnd(qs[k], eps) /\ r[3] = HighEnd(qs[l], eps)
  BY <1>4, <1>5, <1>7 DEF Rests, i, j, k, l
<1>11. HighEnd(qs[n + 1], eps) = Point(x, y + eps) /\ LowEnd(qs[n + 1], eps) = Point(x, y - eps)
  BY <1>4 DEF HighEnd, LowEnd, Point
<1>12. ASSUME NEW f, <<f, n + 1>> \in Pairs(qs)
       PROVE  /\ LeastSlope(qs, eps, <<f, n + 1>>) = Minus(LowEnd(qs[n + 1], eps), HighEnd(qs[f], eps))
              /\ GreatestSlope(qs, eps, <<f, n + 1>>) = Minus(HighEnd(qs[n + 1], eps), LowEnd(qs[f], eps))
  <2> DEFINE g == <<f, n + 1>>
  <2>1. g \in Pairs(qs) /\ g[1] = f /\ g[2] = n + 1
    BY <1>12
  <2> HIDE DEF g
  <2>2. /\ LeastSlope(qs, eps, g) = Minus(LowEnd(qs[g[2]], eps), HighEnd(qs[g[1]], eps))
        /\ GreatestSlope(qs, eps, g) = Minus(HighEnd(qs[g[2]], eps), LowEnd(qs[g[1]], eps))
    BY <1>1, <1>4, <2>1, BoundsAreEnds
  <2> QED
    BY <2>1, <2>2 DEF g
<1>13. CASE eps # 0 /\ SlopeLT(Minus(Point(x, y + eps), r[2]), Slope1(m))
  <2>1. GreatestSlope(qs, eps, <<j, n + 1>>) = Minus(Point(x, y + eps), r[2])
    BY <1>8, <1>10, <1>11, <1>12
  <2>2. SlopeGT(LeastSlope(qs, eps, q), GreatestSlope(qs, eps, <<j, n + 1>>))
    <3> DEFINE g == GreatestSlope(qs, eps, <<j, n + 1>>)
               s == LeastSlope(qs, eps, q)
    <3>1. SlopeLT(g, s)
      BY <1>9, <1>13, <2>1
    <3>2. g.dx \in Int /\ g.dy \in Int /\ s.dx \in Int /\ s.dy \in Int
      BY <1>1, <1>4, <1>8, BoundsAreEnds
    <3> HIDE DEF g, s
    <3>3. SlopeGT(s, g)
      BY <3>1, <3>2, SlopesCompared
    <3> QED
      BY <3>3 DEF g, s
  <2> QED
    BY <1>8, <2>2 DEF Feasible, qs
<1>14. CASE eps # 0 /\ SlopeGT(Minus(Point(x, y - eps), r[3]), Slope2(m))
  <2>1. LeastSlope(qs, eps, <<l, n + 1>>) = Minus(Point(x, y - eps), r[3])
    BY <1>8, <1>10, <1>11, <1>12
  <2>2. SlopeGT(LeastSlope(qs, eps, <<l, n + 1>>), GreatestSlope(qs, eps, p))
    BY <1>9, <1>14, <2>1
  <2> QED
    BY <1>8, <2>2 DEF Feasible, qs
<1>15. CASE eps = 0
  <2> DEFINE g == <<i, n + 1>>
             s == LeastSlope(qs, eps, q)
             t == LeastSlope(qs, eps, g)
  <2>1. ASSUME NEW f \in Pairs(qs) PROVE GreatestSlope(qs, eps, f) = LeastSlope(qs, eps, f)
    <3>1. f[1] \in 1..Len(qs) /\ f[2] \in 1..Len(qs)
      BY DEF Pairs
    <3> DEFINE y1 == qs[f[1]].y
               y2 == qs[f[2]].y
    <3>2. y1 \in Nat /\ y2 \in Nat
      BY <1>4, <3>1, StoredPointParts
    <3> HIDE DEF y1, y2
    <3>3. y2 - y1 - 2 * eps = y2 - y1 + 2 * eps
      BY <1>15, <3>2
    <3> QED
      BY <3>3 DEF LeastSlope, GreatestSlope, y1, y2
  <2>2. Point(x, y) = Point(x, y - eps)
    BY <1>15 DEF Point
  <2>3. t = Minus(Point(x, y), r[0])
    BY <1>8, <1>10, <1>11, <1>12, <2>2
  <2>4. ~SlopeEQ(t, s)
    BY <1>2, <1>9, <1>15, <2>3 DEF OnLine, r
  <2>5. s.dx \in Int /\ s.dy \in Int /\ t.dx \in Int /\ t.dy \in Int
    BY <1>1, <1>4, <1>8, BoundsAreEnds
  <2>6. GreatestSlope(qs, eps, q) = s /\ GreatestSlope(qs, eps, g) = t
    BY <1>8, <2>1
  <2> HIDE DEF s, t, g
  <2>7. SlopeGT(s, t) \/ SlopeGT(t, s)
    BY <2>4, <2>5, SlopesCompared
  <2> QED
    BY <1>8, <2>6, <2>7 DEF Feasible, s, t, g, qs
<1> QED
  BY <1>2, <1>13, <1>14, <1>15 DEF Outside, r

-----------------------------------------------------------------------------
(* The ends of a segment.                                                  *)

\* A new object is empty and well formed.
LEMMA NewModelEmpty ==
  ASSUME NEW eps \in Nat
  PROVE  /\ NewModel(eps) \in Models /\ WellFormed(NewModel(eps))
         /\ NewModel(eps).epsilon = eps /\ NewModel(eps).pointsInHull = 0
         /\ Tracks(NewModel(eps), <<>>)
<1>1. Origin \in Corners
  BY CornerPoint DEF Origin
<1>2. /\ NewModel(eps) \in Models /\ NewModel(eps).epsilon = eps
      /\ NewModel(eps).pointsInHull = 0
  BY <1>1 DEF NewModel, Models
<1>3. DOMAIN <<>> = {} /\ Len(<<>>) = 0
  OBVIOUS
<1>4. Tracks(NewModel(eps), <<>>)
  BY <1>2, <1>3 DEF Tracks
<1> QED
  BY <1>2, <1>4 DEF WellFormed

\* What get_segment returns.
SegmentRecords == [first : Nat, rectangle : [0..3 -> Corners]]

\* What get_segment returns is a segment.
LEMMA SegmentTyped ==
  ASSUME NEW m \in Models
  PROVE  GetSegment(m) \in SegmentRecords /\ GetSegment(m).first = m.firstX
<1>1. m.firstX \in Nat /\ m.rectangle \in [0..3 -> Corners]
  BY ModelParts
<1>2. \A k \in 0..3 : k % 2 \in 0..3
  OBVIOUS
<1>3. [k \in 0..3 |-> m.rectangle[k % 2]] \in [0..3 -> Corners]
  BY <1>1, <1>2
<1> QED
  BY <1>1, <1>3 DEF GetSegment, SegmentRecords
=============================================================================
