---------------------------- MODULE BasicTheorems ----------------------------
(***************************************************************************)
(* What the proofs share: Min and Max of the community modules on sets of  *)
(* naturals, with the first index at which a scan stops and the last one a *)
(* backward scan keeps; induction on an interval; recursion that ends;     *)
(* the concatenation of sequences; quotients, powers of two, binary digits *)
(* and logarithms; sums, and sequences that grow at one end.               *)
(***************************************************************************)
EXTENDS FiniteSetTheorems, WellFoundedInduction, WordArithmetic, SequencesExt, TLAPS

-----------------------------------------------------------------------------
(* Extrema and intervals.                                                  *)

\* A nonempty set of naturals has a least element, and Min denotes it.
LEMMA MinOfNaturals ==
  ASSUME NEW S, S \subseteq Nat, S # {}
  PROVE  Min(S) \in S /\ \A y \in S : Min(S) <= y
<1>1. PICK m \in S : \A y \in S : ~(<<y, m>> \in OpToRel(<, Nat))
  BY WFMin, NatLessThanWellFounded
<1>2. \A y \in S : m <= y
  <2> SUFFICES ASSUME NEW y \in S PROVE m <= y
    OBVIOUS
  <2>1. ~(y < m)
    BY <1>1 DEF OpToRel
  <2> QED
    BY <2>1
<1> QED
  BY <1>1, <1>2 DEF Min

\* A bounded nonempty set of naturals has a greatest element, Max denotes it.
LEMMA MaxOfNaturals ==
  ASSUME NEW b \in Nat, NEW S, S \subseteq 0..b, S # {}
  PROVE  Max(S) \in S /\ \A y \in S : y <= Max(S)
<1> DEFINE T == {b - y : y \in S}
<1>1. T \subseteq Nat
  BY SMT
<1>2. T # {}
  <2>1. PICK y \in S : TRUE
    OBVIOUS
  <2> QED
    BY <2>1
<1>3. Min(T) \in T /\ \A t \in T : Min(T) <= t
  <2> HIDE DEF T
  <2> QED BY <1>1, <1>2, MinOfNaturals
<1>4. PICK m \in S : Min(T) = b - m
  BY <1>3
<1>5. \A y \in S : y <= m
  <2> SUFFICES ASSUME NEW y \in S PROVE y <= m
    OBVIOUS
  <2>1. b - y \in T
    OBVIOUS
  <2>2. b - m <= b - y
    BY <1>3, <1>4, <2>1
  <2> QED
    BY <2>2
<1>6. \A z \in S : (\A y \in S : z >= y) => z = m
  BY <1>5
<1> QED
  BY <1>5, <1>6 DEF Max

\* The greatest element of a set that ends with k, and of one that ends before.
LEMMA MaxOfPrefix ==
  ASSUME NEW k \in Nat, NEW S, S \subseteq 1..k + 1, S # {}
  PROVE  /\ k + 1 \in S => Max(S) = k + 1 /\ S \ {k + 1} \subseteq 1..k
         /\ k + 1 \notin S => S \subseteq 1..k /\ Max(S) \in 1..k
         /\ Max(S) \in S
<1>1. k + 1 \in Nat /\ S \subseteq 0..k + 1
  OBVIOUS
<1>2. Max(S) \in S /\ \A y \in S : y <= Max(S)
  BY <1>1, MaxOfNaturals
<1>11. Max(S) \in Nat /\ Max(S) <= k + 1
  <2>1. \A y \in S : y \in Nat /\ y <= k + 1
    OBVIOUS
  <2> QED
    BY <1>2, <2>1
<1>12. k + 1 \in S => Max(S) = k + 1
  BY <1>2, <1>11
<1>13. S \ {k + 1} \subseteq 1..k
  OBVIOUS
<1>3. k + 1 \in S => Max(S) = k + 1 /\ S \ {k + 1} \subseteq 1..k
  BY <1>12, <1>13
<1>4. k + 1 \notin S => S \subseteq 1..k
  OBVIOUS
<1> QED
  BY <1>2, <1>3, <1>4

\* What holds at a, and at each index if at the one before, holds up to b.
LEMMA IntervalInduction ==
  ASSUME NEW a \in Nat, NEW b \in Nat, NEW S, a \in S, \A j \in a..b - 1 : j \in S => j + 1 \in S
  PROVE  \A j \in a..b : j \in S
<1> DEFINE T == {j \in a..b : j \notin S}
<1> SUFFICES ASSUME T # {} PROVE FALSE
  OBVIOUS
<1>1. T \subseteq Nat
  OBVIOUS
<1>2. Min(T) \in T /\ \A j \in T : Min(T) <= j
  <2> HIDE DEF T
  <2> QED
    BY <1>1, MinOfNaturals
<1> DEFINE m == Min(T)
<1>3. m \in a..b /\ m \notin S /\ m # a
  BY <1>2
<1>4. m - 1 \in a..b - 1 /\ m - 1 \notin T
  BY <1>2, <1>3
<1>5. m - 1 \in S
  BY <1>4
<1> HIDE DEF m, T
<1>6. (m - 1) + 1 \in S
  BY <1>4, <1>5
<1>7. (m - 1) + 1 = m
  BY <1>3
<1> QED
  BY <1>3, <1>6, <1>7

\* The same downwards.
LEMMA IntervalInductionDown ==
  ASSUME NEW a \in Nat, NEW b \in Nat, NEW S, b \in S, \A j \in a + 1..b : j \in S => j - 1 \in S
  PROVE  \A j \in a..b : j \in S
<1> DEFINE T == {d \in 0..b - a : b - d \in S}
<1> SUFFICES ASSUME NEW j \in a..b PROVE j \in S
  OBVIOUS
<1>1. b - a \in Nat /\ 0 \in T
  OBVIOUS
<1>2. \A d \in 0..(b - a) - 1 : d \in T => d + 1 \in T
  <2> SUFFICES ASSUME NEW d \in 0..(b - a) - 1, b - d \in S PROVE b - (d + 1) \in S /\ d + 1 \in 0..b - a
    OBVIOUS
  <2>1. b - d \in a + 1..b /\ (b - d) - 1 = b - (d + 1)
    OBVIOUS
  <2> QED
    BY <2>1
<1>3. b - j \in 0..b - a /\ b - (b - j) = j
  OBVIOUS
<1>4. \A d \in 0..b - a : d \in T
  <2> HIDE DEF T
  <2> QED
    BY <1>1, <1>2, IntervalInduction
<1> QED
  BY <1>3, <1>4
\* A scan of s + 1, ..., n that stops before the first index in S: it ends on
\* an index of s..n, saw nothing of S, and stops early only because of S.
LEMMA ScanEnd ==
  ASSUME NEW s \in Nat, NEW n \in Nat, s <= n, NEW S, S \subseteq s + 1..n,
         NEW k, k = Min(S \cup {n + 1}) - 1
  PROVE  /\ k \in s..n
         /\ \A i \in s + 1..k : i \notin S
         /\ k < n => k + 1 \in S
<1> DEFINE T == S \cup {n + 1}
           m == Min(T)
<1>1. T \subseteq Nat /\ T # {} /\ T \subseteq s + 1..n + 1
  OBVIOUS
<1>2. m \in T /\ \A i \in T : m <= i
  <2> HIDE DEF T
  <2> QED
    BY <1>1, MinOfNaturals
<1>3. m \in s + 1..n + 1 /\ k = m - 1
  BY <1>1, <1>2
<1>4. ASSUME NEW i \in s + 1..k PROVE i \notin S
  <2>1. ~(m <= i)
    BY <1>3
  <2> QED
    BY <1>2, <2>1
<1>5. ASSUME k < n PROVE k + 1 \in S
  <2>1. k + 1 = m /\ m # n + 1
    BY <1>3, <1>5
  <2> QED
    BY <1>2, <2>1
<1>6. k \in s..n
  <2> HIDE DEF m
  <2> QED
    BY <1>3
<1> QED
  BY <1>4, <1>5, <1>6

\* Pops from n down to the last index in S, or to s when there is none.
LEMMA PopEnd ==
  ASSUME NEW s \in Nat, NEW n \in Nat, s <= n, NEW S, S \subseteq s + 1..n,
         NEW e, e = Max(S \cup {s})
  PROVE  /\ e \in s..n
         /\ \A j \in e + 1..n : j \notin S
         /\ e > s => e \in S
<1> DEFINE T == S \cup {s}
<1>1. T \subseteq 0..n /\ T # {} /\ T \subseteq s..n
  OBVIOUS
<1>2. e \in T /\ \A i \in T : i <= e
  <2> HIDE DEF T
  <2>1. e = Max(T)
    BY DEF T
  <2> QED
    BY <1>1, <2>1, MaxOfNaturals
<1>3. e \in s..n
  BY <1>1, <1>2
<1>4. ASSUME NEW j \in e + 1..n PROVE j \notin S
  <2>1. ~(j <= e)
    BY <1>3
  <2> QED
    BY <1>2, <2>1
<1> QED
  BY <1>2, <1>3, <1>4

-----------------------------------------------------------------------------
(* Recursion.  Of r outside S, the value is a step from the value of       *)
(* next[r], whose measure is less.                                         *)

Recursive(f, D, S, out, step, next) ==
  f = [r \in D |-> IF r \in S THEN out[r] ELSE step[r][f[next[r]]]]

Descends(D, S, next, measure) ==
  /\ \A r \in D : measure[r] \in Nat
  /\ \A r \in D \ S : next[r] \in D /\ measure[next[r]] < measure[r]

\* the arguments of at most a measure
Upto(D, measure, k) == {r \in D : measure[r] <= k}

LEMMA RecursionUpto ==
  ASSUME NEW D, NEW S, NEW out, NEW step, NEW next, NEW measure,
         Descends(D, S, next, measure), NEW k \in Nat
  PROVE  \E g : Recursive(g, Upto(D, measure, k), S, out, step, next)
<1> DEFINE U(j) == Upto(D, measure, j)
           T == {j \in Nat : \E g : Recursive(g, U(j), S, out, step, next)}
<1>1. ASSUME NEW r \in D \ S, NEW j \in Nat, r \in U(j + 1)
      PROVE  next[r] \in U(j) /\ next[r] \in U(j + 1)
  BY <1>1 DEF Descends, Upto
<1>2. 0 \in T
  <2> DEFINE g == [r \in U(0) |-> out[r]]
  <2>1. ASSUME NEW r \in U(0) PROVE r \in S
    BY DEF Descends, Upto
  <2>2. \A r \in U(0) : g[r] = IF r \in S THEN out[r] ELSE step[r][g[next[r]]]
    BY <2>1
  <2>3. g = [r \in U(0) |-> g[r]]
    OBVIOUS
  <2> HIDE DEF g
  <2>4. Recursive(g, U(0), S, out, step, next)
    BY <2>2, <2>3 DEF Recursive
  <2> QED
    BY <2>4
<1>3. ASSUME NEW j \in Nat, j \in T PROVE j + 1 \in T
  <2>1. PICK g : Recursive(g, U(j), S, out, step, next)
    BY <1>3
  <2> DEFINE h == [r \in U(j + 1) |-> IF r \in S THEN out[r] ELSE step[r][g[next[r]]]]
  <2>2. /\ \A r \in U(j + 1) : h[r] = IF r \in S THEN out[r] ELSE step[r][g[next[r]]]
        /\ h = [r \in U(j + 1) |-> h[r]]
    OBVIOUS
  <2> HIDE DEF h
  <2>3. ASSUME NEW r \in U(j) PROVE r \in U(j + 1) /\ h[r] = g[r]
    <3>1. r \in U(j + 1)
      BY DEF Descends, Upto
    <3>2. g[r] = IF r \in S THEN out[r] ELSE step[r][g[next[r]]]
      BY <2>1 DEF Recursive
    <3> QED
      BY <2>2, <3>1, <3>2
  <2>4. ASSUME NEW r \in U(j + 1), r \notin S PROVE h[next[r]] = g[next[r]]
    <3>1. r \in D \ S
      BY <2>4 DEF Upto
    <3> QED
      BY <1>1, <2>3, <3>1
  <2>5. \A r \in U(j + 1) : h[r] = IF r \in S THEN out[r] ELSE step[r][h[next[r]]]
    BY <2>2, <2>4
  <2>6. Recursive(h, U(j + 1), S, out, step, next)
    BY <2>2, <2>5 DEF Recursive
  <2> QED
    BY <2>6
<1>4. k \in T
  <2> HIDE DEF T
  <2>1. \A j \in 0..k : j \in T
    BY <1>2, <1>3, IntervalInduction
  <2> QED
    BY <2>1
<1> QED
  BY <1>4

\* Two such functions agree where both are defined.
LEMMA RecursionAgrees ==
  ASSUME NEW D, NEW S, NEW out, NEW step, NEW next, NEW measure,
         Descends(D, S, next, measure), NEW j \in Nat, NEW k \in Nat,
         NEW g, Recursive(g, Upto(D, measure, j), S, out, step, next),
         NEW h, Recursive(h, Upto(D, measure, k), S, out, step, next),
         NEW r \in D, measure[r] <= j, measure[r] <= k
  PROVE  g[r] = h[r]
<1> DEFINE T == {i \in 0..measure[r] : \A q \in D : measure[q] <= i => g[q] = h[q]}
<1>1. measure[r] \in Nat
  BY DEF Descends
<1>2. ASSUME NEW q \in D, measure[q] <= measure[r],
             q \notin S => g[next[q]] = h[next[q]]
      PROVE  g[q] = h[q]
  <2>1. q \in Upto(D, measure, j) /\ q \in Upto(D, measure, k)
    BY <1>1, <1>2 DEF Upto, Descends
  <2>2. /\ g[q] = IF q \in S THEN out[q] ELSE step[q][g[next[q]]]
        /\ h[q] = IF q \in S THEN out[q] ELSE step[q][h[next[q]]]
    BY <2>1 DEF Recursive
  <2> QED
    BY <1>2, <2>2
<1>3. 0 \in T
  <2>1. ASSUME NEW q \in D, measure[q] <= 0 PROVE g[q] = h[q]
    <3>1. q \in S
      BY <2>1 DEF Descends
    <3>2. measure[q] <= measure[r]
      BY <1>1, <2>1 DEF Descends
    <3> QED
      BY <1>2, <3>1, <3>2
  <2> QED
    BY <1>1, <2>1
<1>4. ASSUME NEW i \in 0..measure[r] - 1, i \in T PROVE i + 1 \in T
  <2>1. ASSUME NEW q \in D, measure[q] <= i + 1, q \notin S
        PROVE  next[q] \in D /\ measure[next[q]] <= i
    BY <2>1, <1>1 DEF Descends
  <2>2. ASSUME NEW q \in D, measure[q] <= i + 1 PROVE g[q] = h[q]
    <3>1. measure[q] <= measure[r]
      BY <1>1, <2>2 DEF Descends
    <3>2. q \notin S => g[next[q]] = h[next[q]]
      BY <1>4, <2>1, <2>2
    <3> QED
      BY <1>2, <3>1, <3>2
  <2> QED
    BY <1>1, <2>2
<1>5. measure[r] \in T
  <2> HIDE DEF T
  <2>1. \A i \in 0..measure[r] : i \in T
    BY <1>1, <1>3, <1>4, IntervalInduction
  <2> QED
    BY <1>1, <2>1
<1> QED
  BY <1>1, <1>5

LEMMA RecursionExists ==
  ASSUME NEW D, NEW S, NEW out, NEW step, NEW next, NEW measure,
         Descends(D, S, next, measure)
  PROVE  \E f : Recursive(f, D, S, out, step, next)
<1> DEFINE G(k) == CHOOSE g : Recursive(g, Upto(D, measure, k), S, out, step, next)
           f == [r \in D |-> G(measure[r])[r]]
<1>1. \A k \in Nat : Recursive(G(k), Upto(D, measure, k), S, out, step, next)
  BY RecursionUpto
<1> HIDE DEF G
<1>2. ASSUME NEW r \in D PROVE f[r] = IF r \in S THEN out[r] ELSE step[r][f[next[r]]]
  <2>1. measure[r] \in Nat /\ r \in Upto(D, measure, measure[r])
    BY DEF Descends, Upto
  <2>2. Recursive(G(measure[r]), Upto(D, measure, measure[r]), S, out, step, next)
    BY <1>1, <2>1
  <2>3. G(measure[r])[r] = IF r \in S THEN out[r] ELSE step[r][G(measure[r])[next[r]]]
    BY <2>1, <2>2 DEF Recursive
  <2>4. ASSUME r \notin S PROVE G(measure[r])[next[r]] = f[next[r]]
    <3>1. next[r] \in D /\ measure[next[r]] \in Nat /\ measure[next[r]] <= measure[r]
      BY <2>4 DEF Descends
    <3>2. Recursive(G(measure[next[r]]), Upto(D, measure, measure[next[r]]), S, out, step, next)
      BY <1>1, <3>1
    <3>3. G(measure[r])[next[r]] = G(measure[next[r]])[next[r]]
      <4>1. measure[next[r]] <= measure[next[r]]
        BY <3>1
      <4> QED
        BY <2>1, <2>2, <3>1, <3>2, <4>1, RecursionAgrees
    <3> QED
      BY <3>1, <3>3
  <2> QED
    BY <2>3, <2>4
<1>3. f = [r \in D |-> f[r]]
  OBVIOUS
<1> HIDE DEF f
<1>4. Recursive(f, D, S, out, step, next)
  BY <1>2, <1>3 DEF Recursive
<1> QED
  BY <1>4

-----------------------------------------------------------------------------
(* Concatenation.                                                          *)

\* f concatenates longer and longer prefixes of the sequences seqs.
Concatenates(f, seqs, n) ==
  f = [k \in 1..n |-> IF k = 1 THEN seqs[k] ELSE f[k - 1] \o seqs[k]]

\* There is such a function for every number of sequences.
LEMMA ConcatenationExists ==
  ASSUME NEW n \in Nat \ {0}, NEW seqs
  PROVE  \E f : Concatenates(f, seqs, n)
<1> DEFINE S == {m \in 1..n : \E f : Concatenates(f, seqs, m)}
<1>1. 1 \in S
  <2> DEFINE f == [k \in 1..1 |-> seqs[k]]
  <2>1. Concatenates(f, seqs, 1)
    BY DEF Concatenates
  <2> QED
    BY <2>1
<1>2. ASSUME NEW m \in 1..n - 1, m \in S PROVE m + 1 \in S
  <2>1. PICK f : Concatenates(f, seqs, m)
    BY <1>2
  <2> DEFINE g == [k \in 1..m + 1 |-> IF k <= m THEN f[k] ELSE f[m] \o seqs[m + 1]]
  <2>2. /\ \A k \in 1..m : g[k] = f[k]
        /\ g[m + 1] = f[m] \o seqs[m + 1]
        /\ g = [k \in 1..m + 1 |-> g[k]]
    <3>1. m \in Nat /\ m + 1 \in 1..m + 1 /\ ~(m + 1 <= m)
      OBVIOUS
    <3>2. ASSUME NEW k \in 1..m PROVE g[k] = f[k]
      <4>1. k \in 1..m + 1 /\ k <= m
        OBVIOUS
      <4> QED
        BY <4>1
    <3>3. g[m + 1] = f[m] \o seqs[m + 1]
      BY <3>1
    <3>4. g = [k \in 1..m + 1 |-> g[k]]
      BY Zenon
    <3> QED
      BY <3>2, <3>3, <3>4
  <2> HIDE DEF g
  <2>3. ASSUME NEW k \in 1..m + 1
        PROVE  g[k] = IF k = 1 THEN seqs[k] ELSE g[k - 1] \o seqs[k]
    <3>1. CASE k = 1
      <4>1. f[1] = seqs[1] /\ 1 \in 1..m
        BY <2>1 DEF Concatenates
      <4> QED
        BY <2>2, <3>1, <4>1
    <3>2. CASE k # 1 /\ k <= m
      <4>1. k \in 1..m /\ k - 1 \in 1..m
        BY <3>2
      <4>2. f[k] = f[k - 1] \o seqs[k]
        BY <2>1, <3>2, <4>1 DEF Concatenates
      <4> QED
        BY <2>2, <3>2, <4>1, <4>2
    <3>3. CASE k = m + 1
      <4>1. (m + 1) - 1 = m /\ m \in 1..m /\ m + 1 # 1
        OBVIOUS
      <4>2. g[m] = f[m]
        BY <2>2, <4>1
      <4> QED
        BY <2>2, <3>3, <4>1, <4>2
    <3> QED
      BY <3>1, <3>2, <3>3
  <2>4. Concatenates(g, seqs, m + 1)
    BY <2>2, <2>3 DEF Concatenates
  <2>5. m + 1 \in 1..n
    OBVIOUS
  <2> QED
    BY <2>4, <2>5
<1>3. n \in S
  <2> HIDE DEF S
  <2>1. \A j \in 1..n : j \in S
    BY <1>1, <1>2, IntervalInduction
  <2> QED
    BY <2>1
<1> QED
  BY <1>3

\* Its values.
LEMMA ConcatenationSteps ==
  ASSUME NEW n \in Nat \ {0}, NEW seqs, NEW f, Concatenates(f, seqs, n)
  PROVE  f[1] = seqs[1] /\ \A k \in 2..n : f[k] = f[k - 1] \o seqs[k]
<1>1. f = [k \in 1..n |-> IF k = 1 THEN seqs[k] ELSE f[k - 1] \o seqs[k]]
  BY DEF Concatenates
<1>2. 1 \in 1..n /\ \A k \in 2..n : k \in 1..n /\ k # 1
  OBVIOUS
<1>3. f[1] = seqs[1]
  BY <1>1, <1>2
<1>4. ASSUME NEW k \in 2..n PROVE f[k] = f[k - 1] \o seqs[k]
  <2>1. k \in 1..n /\ k # 1
    BY <1>2
  <2> QED
    BY <1>1, <2>1
<1> QED
  BY <1>3, <1>4

\* FlattenSeq is the last value of such a function.
LEMMA Flattened ==
  ASSUME NEW n \in Nat \ {0}, NEW seqs, Len(seqs) = n
  PROVE  \E f : Concatenates(f, seqs, n) /\ FlattenSeq(seqs) = f[n]
<1> DEFINE f == CHOOSE g : Concatenates(g, seqs, n)
<1>1. Concatenates(f, seqs, n)
  BY ConcatenationExists
<1>2. FlattenSeq(seqs) = f[n]
  BY DEF FlattenSeq, Concatenates
<1> QED
  BY <1>1, <1>2

-----------------------------------------------------------------------------
(* Quotients.                                                              *)

(* Quotient and remainder.                                                 *)
LEMMA Division ==
  ASSUME NEW a \in Nat, NEW d \in Nat \ {0}
  PROVE  /\ a \div d \in Nat /\ a % d \in 0..d - 1
         /\ a = d * (a \div d) + (a % d)
  BY Z3

(* A product grows with its second factor.                                 *)
LEMMA ProductMonotonic ==
  ASSUME NEW d \in Nat, NEW a \in Int, NEW b \in Int, a <= b
  PROVE  d * a <= d * b
  BY Z3

(* The quotient grows with the dividend.                                   *)
LEMMA QuotientMonotonic ==
  ASSUME NEW a \in Nat, NEW b \in Nat, NEW d \in Nat \ {0}, a <= b
  PROVE  a \div d <= b \div d
  <1> DEFINE p == a \div d  q == b \div d
  <1>1. /\ p \in Nat /\ q \in Nat /\ a % d \in 0..d - 1 /\ b % d \in 0..d - 1
        /\ a = d * p + (a % d) /\ b = d * q + (b % d)
    BY Division
  <1>2. CASE q + 1 <= p
    <2>1. d * (q + 1) <= d * p
      BY <1>1, <1>2, ProductMonotonic
    <2>2. d * (q + 1) = d * q + d
      BY <1>1, Z3
    <2> QED BY <1>1, <2>1, <2>2
  <1> QED BY <1>1, <1>2

(* A product is not below its second factor.                               *)
LEMMA ProductGrows ==
  ASSUME NEW d \in Nat \ {0}, NEW a \in Nat
  PROVE  a <= d * a
  <1>1. a * 1 <= a * d
    BY ProductMonotonic
  <1> QED BY <1>1, Z3

(* From one number to a greater one the quotient does not grow by more;    *)
(* and by less where neither is a multiple of the divisor.                 *)
LEMMA QuotientGrowsSlower ==
  ASSUME NEW a \in Nat, NEW b \in Nat, NEW d \in Nat \ {0}, a < b
  PROVE  /\ b \div d - a \div d <= b - a
         /\ b % d # 0 => b \div d - a \div d < b - a
  <1> DEFINE p == a \div d  q == b \div d
  <1>1. /\ p \in Nat /\ q \in Nat /\ a % d \in 0..d - 1 /\ b % d \in 0..d - 1
        /\ a = d * p + (a % d) /\ b = d * q + (b % d)
    BY Division
  <1>2. p <= q
    BY QuotientMonotonic
  <1>3. CASE p = q
    BY <1>1, <1>3
  <1>4. CASE p < q
    <2> DEFINE k == q - p - 1
    <2>1. k \in Nat
      BY <1>1, <1>4
    <2>2. k <= d * k
      BY <2>1, ProductGrows
    <2>3. d * q = d * p + d * k + d
      BY <1>1, <2>1, Z3
    <2>4. b - a >= k + 1 /\ (b % d # 0 => b - a >= k + 2)
      BY <1>1, <2>1, <2>2, <2>3
    <2> QED BY <1>1, <2>1, <2>4
  <1> QED BY <1>1, <1>2, <1>3, <1>4

(* Blocks of one width that start at different multiples of it share       *)
(* nothing.                                                                *)
LEMMA BlocksApart ==
  ASSUME NEW width \in Nat, NEW a \in Nat, NEW b \in Nat, a < b
  PROVE  width * a + width <= width * b
  <1>1. width * (a + 1) <= width * b
    BY ProductMonotonic
  <1> QED BY <1>1, Z3


-----------------------------------------------------------------------------
(* Sums.                                                                   *)

\* f sums every part of S.
Sums(f, S) ==
  f = [s \in SUBSET S |-> IF s = {} THEN 0
                          ELSE LET x == CHOOSE x \in s : TRUE IN x + f[s \ {x}]]

\* What holds of a part whenever it holds of all those with one element less
\* holds of every part.
LEMMA PartsInduction ==
  ASSUME NEW S, IsFiniteSet(S), NEW T,
         \A s \in SUBSET S : (\A x \in s : s \ {x} \in T) => s \in T
  PROVE  \A s \in SUBSET S : s \in T
<1> DEFINE U == {k \in Nat : \A s \in SUBSET S : Cardinality(s) = k => s \in T}
<1>1. \A s \in SUBSET S : IsFiniteSet(s) /\ Cardinality(s) \in Nat
  BY FS_Subset, FS_CardinalityType
<1>2. ASSUME NEW s \in SUBSET S, NEW x \in s
      PROVE  s \ {x} \in SUBSET S /\ Cardinality(s \ {x}) = Cardinality(s) - 1
  BY <1>1, FS_RemoveElement
<1>3. 0 \in U
  <2>1. ASSUME NEW s \in SUBSET S, Cardinality(s) = 0 PROVE s \in T
    <3>1. s = {}
      BY <1>1, <2>1, FS_EmptySet
    <3> QED
      BY <3>1
  <2> QED
    BY <2>1
<1>4. ASSUME NEW k \in Nat, k \in U PROVE k + 1 \in U
  <2>1. ASSUME NEW s \in SUBSET S, Cardinality(s) = k + 1 PROVE s \in T
    <3>1. ASSUME NEW x \in s PROVE s \ {x} \in T
      <4>1. s \ {x} \in SUBSET S /\ Cardinality(s \ {x}) = k
        BY <1>2, <2>1
      <4> QED
        BY <1>4, <4>1
    <3> QED
      BY <3>1
  <2>2. k + 1 \in Nat
    OBVIOUS
  <2> QED
    BY <2>1, <2>2
<1>5. ASSUME NEW s \in SUBSET S PROVE s \in T
  <2>1. Cardinality(s) \in U
    <3> HIDE DEF U
    <3>1. \A j \in 0..Cardinality(s) : j \in U
      BY <1>1, <1>3, <1>4, IntervalInduction
    <3> QED
      BY <1>1, <3>1
  <2> QED
    BY <2>1
<1> QED
  BY <1>5

SumStep(f, s) ==
  /\ s = {} => f[s] = 0
  /\ s # {} => \E x \in s : x = (CHOOSE y \in s : TRUE) /\ f[s] = x + f[s \ {x}]

LEMMA SumsTyped ==
  ASSUME NEW S, S \subseteq Int, IsFiniteSet(S), NEW f, Sums(f, S)
  PROVE  \A s \in SUBSET S : f[s] \in Int /\ SumStep(f, s)
<1>1. ASSUME NEW s \in SUBSET S
      PROVE  /\ s = {} => f[s] = 0
             /\ s # {} => \E x \in s : x = (CHOOSE y \in s : TRUE) /\ f[s] = x + f[s \ {x}]
  <2>1. f[s] = IF s = {} THEN 0 ELSE LET x == CHOOSE x \in s : TRUE IN x + f[s \ {x}]
    BY DEF Sums
  <2> DEFINE x == CHOOSE y \in s : TRUE
  <2>2. s # {} => x \in s
    OBVIOUS
  <2>3. s # {} => f[s] = x + f[s \ {x}]
    BY <2>1
  <2> QED
    BY <2>1, <2>2, <2>3
<1>2. \A s \in SUBSET S : SumStep(f, s)
  BY <1>1 DEF SumStep
<1> DEFINE T == {s \in SUBSET S : f[s] \in Int}
<1>3. ASSUME NEW s \in SUBSET S, \A x \in s : s \ {x} \in T PROVE s \in T
  <2>1. CASE s = {}
    BY <1>1, <2>1
  <2>2. CASE s # {}
    <3>1. PICK x \in s : f[s] = x + f[s \ {x}]
      BY <1>1, <2>2
    <3>2. x \in Int /\ f[s \ {x}] \in Int
      BY <1>3
    <3> QED
      BY <3>1, <3>2
  <2> QED
    BY <2>1, <2>2
<1>4. \A s \in SUBSET S : s \in T
  <2> HIDE DEF T
  <2> QED
    BY <1>3, PartsInduction
<1> QED
  BY <1>2, <1>4

LEMMA SumsExist ==
  ASSUME NEW S, S \subseteq Int, IsFiniteSet(S)
  PROVE  \E f : Sums(f, S) /\ f[S] = SumSet(S)
<1> DEFINE D == SUBSET S
           measure == [s \in D |-> Cardinality(s)]
           pick == [s \in D |-> CHOOSE x \in s : TRUE]
           next == [s \in D |-> s \ {pick[s]}]
           step == [s \in D |-> [v \in Int |-> pick[s] + v]]
           out == [s \in D |-> 0]
<1>1. ASSUME NEW s \in D
      PROVE  /\ IsFiniteSet(s) /\ measure[s] \in Nat
             /\ s # {} => pick[s] \in s /\ pick[s] \in Int /\ next[s] \in D
                          /\ measure[next[s]] = measure[s] - 1
  <2>1. IsFiniteSet(s)
    BY FS_Subset
  <2>2. measure[s] \in Nat
    BY <2>1, FS_CardinalityType
  <2>3. ASSUME s # {} PROVE pick[s] \in s
    BY <2>3
  <2>4. ASSUME NEW x \in s PROVE Cardinality(s \ {x}) = Cardinality(s) - 1
    BY <2>1, FS_RemoveElement
  <2> QED
    BY <2>1, <2>2, <2>3, <2>4
<1>2. /\ \A s \in D : next[s] = s \ {pick[s]} /\ out[s] = 0
      /\ \A s \in D, v \in Int : step[s][v] = pick[s] + v
      /\ \A s \in D : pick[s] = CHOOSE x \in s : TRUE
  OBVIOUS
<1>3. Descends(D, {{}}, next, measure)
  <2> HIDE DEF measure, next, pick
  <2>1. \A s \in D : measure[s] - 1 < measure[s]
    BY <1>1
  <2> QED
    BY <1>1, <2>1 DEF Descends
<1> HIDE DEF measure, pick, next, step, out
<1>4. PICK f : Recursive(f, D, {{}}, out, step, next)
  BY <1>3, RecursionExists
<1>5. \A s \in D : f[s] = IF s \in {{}} THEN out[s] ELSE step[s][f[next[s]]]
  BY <1>4 DEF Recursive
<1> DEFINE T == {s \in D : f[s] \in Int}
<1>6. ASSUME NEW s \in SUBSET S, \A x \in s : s \ {x} \in T PROVE s \in T
  <2>1. CASE s = {}
    BY <1>2, <1>5, <2>1
  <2>2. CASE s # {}
    <3>1. pick[s] \in s /\ next[s] = s \ {pick[s]} /\ pick[s] \in Int
      BY <1>1, <1>2, <2>2
    <3>2. f[next[s]] \in Int
      BY <1>6, <3>1
    <3>3. f[s] = pick[s] + f[next[s]]
      BY <1>2, <1>5, <2>2, <3>2
    <3> QED
      BY <3>1, <3>2, <3>3
  <2> QED
    BY <2>1, <2>2
<1>7. \A s \in SUBSET S : s \in T
  <2> HIDE DEF T
  <2> QED
    BY <1>6, PartsInduction
<1>8. ASSUME NEW s \in D
      PROVE  f[s] = IF s = {} THEN 0 ELSE LET x == CHOOSE x \in s : TRUE IN x + f[s \ {x}]
  <2>1. CASE s = {}
    BY <1>2, <1>5, <2>1
  <2>2. CASE s # {}
    <3>1. next[s] = s \ {pick[s]} /\ next[s] \in D
      BY <1>1, <1>2, <2>2
    <3>2. f[s] = pick[s] + f[s \ {pick[s]}]
      <4>1. f[next[s]] \in Int
        BY <1>7, <3>1
      <4>2. f[s] = step[s][f[next[s]]]
        BY <1>5, <2>2
      <4> QED
        BY <1>2, <3>1, <4>1, <4>2
    <3> QED
      BY <1>2, <2>2, <3>2
  <2> QED
    BY <2>1, <2>2
<1>9. Sums(f, S)
  <2>1. f = [s \in D |-> f[s]]
    BY <1>4 DEF Recursive
  <2> QED
    BY <1>8, <2>1 DEF Sums
<1> DEFINE g == CHOOSE g : Sums(g, S)
<1>10. Sums(g, S)
  BY <1>9
<1>11. g[S] = SumSet(S)
  BY DEF SumSet, FoldSet, MapThenFoldSet, Sums
<1> QED
  BY <1>10, <1>11

\* The sum of a set takes out a chosen element.
LEMMA SumOfPart ==
  ASSUME NEW S, S \subseteq Int, IsFiniteSet(S), NEW f, Sums(f, S)
  PROVE  \A s \in SUBSET S : f[s] = SumSet(s)
<1>1. ASSUME NEW s \in SUBSET S PROVE f[s] = SumSet(s)
  <2>1. s \subseteq Int /\ IsFiniteSet(s)
    BY FS_Subset
  <2>2. PICK g : Sums(g, s) /\ g[s] = SumSet(s)
    BY <2>1, SumsExist
  <2> DEFINE T == {t \in SUBSET s : f[t] = g[t]}
  <2>3. ASSUME NEW t \in SUBSET s, \A x \in t : t \ {x} \in T PROVE t \in T
    <3>1. SumStep(f, t)
      BY SumsTyped
    <3>2. SumStep(g, t)
      BY <2>1, <2>2, SumsTyped
    <3> QED
      BY <2>3, <3>1, <3>2 DEF SumStep
  <2>4. \A t \in SUBSET s : t \in T
    <3> HIDE DEF T
    <3> QED
      BY <2>1, <2>3, PartsInduction
  <2> QED
    BY <2>2, <2>4
<1> QED
  BY <1>1

LEMMA SumUnfolds ==
  ASSUME NEW S, S \subseteq Int, IsFiniteSet(S)
  PROVE  /\ SumSet(S) \in Int
         /\ S = {} => SumSet(S) = 0
         /\ S # {} => \E x \in S : SumSet(S) = x + SumSet(S \ {x})
<1>1. PICK f : Sums(f, S)
  BY SumsExist
<1>2. \A s \in SUBSET S : f[s] = SumSet(s)
  BY <1>1, SumOfPart
<1>3. f[S] \in Int /\ SumStep(f, S)
  BY <1>1, SumsTyped
<1> QED
  BY <1>2, <1>3 DEF SumStep

\* It does not matter which element that is.
LEMMA SumWithout ==
  ASSUME NEW S, S \subseteq Int, IsFiniteSet(S), NEW x \in S
  PROVE  SumSet(S) = x + SumSet(S \ {x})
<1> DEFINE T == {s \in SUBSET S : \A y \in s : SumSet(s) = y + SumSet(s \ {y})}
<1>1. ASSUME NEW s \in SUBSET S, \A y \in s : s \ {y} \in T PROVE s \in T
  <2>1. s \subseteq Int /\ IsFiniteSet(s)
    BY FS_Subset
  <2>2. ASSUME NEW y \in s PROVE SumSet(s) = y + SumSet(s \ {y})
    <3>1. PICK z \in s : SumSet(s) = z + SumSet(s \ {z})
      BY <2>1, SumUnfolds
    <3>2. CASE z = y
      BY <3>1, <3>2
    <3>3. CASE z # y
      <4> DEFINE r == (s \ {z}) \ {y}
      <4>1. r = (s \ {y}) \ {z} /\ r \subseteq Int /\ IsFiniteSet(r)
        BY <2>1, FS_Subset
      <4>2. SumSet(r) \in Int
        BY <4>1, SumUnfolds
      <4>3. SumSet(s \ {z}) = y + SumSet(r)
        <5>1. s \ {z} \in T /\ y \in s \ {z}
          BY <1>1, <3>3
        <5> QED
          BY <5>1
      <4>4. SumSet(s \ {y}) = z + SumSet(r)
        <5>1. s \ {y} \in T /\ z \in s \ {y}
          BY <1>1, <3>3
        <5>2. SumSet(s \ {y}) = z + SumSet((s \ {y}) \ {z})
          BY <5>1
        <5> QED
          BY <4>1, <5>2
      <4> HIDE DEF r
      <4>5. y \in Int /\ z \in Int
        BY <2>1
      <4> QED
        BY <3>1, <4>2, <4>3, <4>4, <4>5
    <3> QED
      BY <3>2, <3>3
  <2> QED
    BY <2>2
<1>2. \A s \in SUBSET S : s \in T
  <2> HIDE DEF T
  <2> QED
    BY <1>1, PartsInduction
<1> QED
  BY <1>2

-----------------------------------------------------------------------------
(* Powers of two, up to the exponent m + 1, as a function pow.            *)

Doubles(pow, m) ==
  /\ pow[0] = 1
  /\ \A k \in 0..m : pow[k + 1] = 2 * pow[k]

LEMMA PowersGrow ==
  ASSUME NEW m \in Nat, NEW pow, Doubles(pow, m)
  PROVE  /\ \A k \in 0..m + 1 : pow[k] \in Nat \ {0} /\ pow[k] > k
         /\ \A j, k \in 0..m + 1 : j <= k => pow[j] <= pow[k]
<1> DEFINE T == {k \in 0..m + 1 : /\ pow[k] \in Nat \ {0} /\ pow[k] > k
                                  /\ \A j \in 0..k : pow[j] \in Int /\ pow[j] <= pow[k]}
<1>1. 0 \in T
  BY DEF Doubles
<1>2. ASSUME NEW k \in 0..m, k \in T PROVE k + 1 \in T
  <2>1. pow[k] \in Nat \ {0} /\ pow[k] > k /\ pow[k + 1] = 2 * pow[k]
    BY <1>2 DEF Doubles
  <2>2. pow[k + 1] \in Nat \ {0} /\ pow[k + 1] > k + 1 /\ pow[k] <= pow[k + 1]
    BY <2>1
  <2>3. ASSUME NEW j \in 0..k + 1 PROVE pow[j] \in Int /\ pow[j] <= pow[k + 1]
    <3>1. CASE j = k + 1
      BY <2>2, <3>1
    <3>2. CASE j # k + 1
      <4>1. pow[j] <= pow[k] /\ pow[j] \in Int
        <5>1. j \in 0..k
          BY <3>2
        <5> QED
          BY <1>2, <5>1
      <4> QED
        BY <2>1, <2>2, <4>1
    <3> QED
      BY <3>1, <3>2
  <2> QED
    BY <2>2, <2>3
<1>3. \A k \in 0..m + 1 : k \in T
  <2> HIDE DEF T
  <2> QED
    BY <1>1, <1>2, IntervalInduction
<1> QED
  BY <1>3

EvenMultiple(a, b) == \E q \in Nat : a = b * (2 * q)

\* A greater power is an even multiple of a smaller one.
LEMMA PowerMultiple ==
  ASSUME NEW m \in Nat, NEW pow, Doubles(pow, m), NEW j \in 0..m, NEW k \in j + 1..m + 1
  PROVE  EvenMultiple(pow[k], pow[j])
<1> DEFINE T == {i \in j + 1..m + 1 : EvenMultiple(pow[i], pow[j])}
<1>1. pow[j] \in Nat \ {0} /\ pow[j + 1] = 2 * pow[j]
  BY PowersGrow DEF Doubles
<1>2. j + 1 \in T
  <2>1. pow[j + 1] = pow[j] * (2 * 1)
    BY <1>1
  <2>2. EvenMultiple(pow[j + 1], pow[j])
    BY <2>1 DEF EvenMultiple
  <2> QED
    BY <2>2
<1>3. ASSUME NEW i \in j + 1..m, i \in T PROVE i + 1 \in T
  <2>1. PICK q \in Nat : pow[i] = pow[j] * (2 * q)
    BY <1>3 DEF EvenMultiple
  <2>2. pow[i + 1] = 2 * pow[i]
    BY DEF Doubles
  <2>3. \A a \in Nat : 2 * (a * (2 * q)) = a * (2 * (2 * q))
    BY Z3
  <2>4. pow[i + 1] = pow[j] * (2 * (2 * q))
    BY <1>1, <2>1, <2>2, <2>3
  <2>5. EvenMultiple(pow[i + 1], pow[j])
    <3>1. 2 * q \in Nat
      OBVIOUS
    <3> QED
      BY <2>4, <3>1 DEF EvenMultiple
  <2> QED
    BY <2>5
<1>4. \A i \in j + 1..m + 1 : i \in T
  <2> HIDE DEF T
  <2> QED
    BY <1>2, <1>3, IntervalInduction
<1> QED
  BY <1>4

-----------------------------------------------------------------------------
(* Binary digits.                                                          *)

DigitsOf(v, w, pow) == {k \in 0..w - 1 : (v \div pow[k]) % 2 = 1}

LEMMA DigitOfRest ==
  ASSUME NEW p \in Nat \ {0}, NEW q \in Nat, NEW v \in Nat
  PROVE  ((v + p * (2 * q)) \div p) % 2 = (v \div p) % 2
<1> DEFINE a == v \div p
<1>1. a \in Nat /\ v % p \in 0..p - 1 /\ v = p * a + (v % p)
  BY Division
<1>2. p * (2 * q) \in Nat /\ p * (a + 2 * q) = p * a + p * (2 * q) /\ p * a \in Nat
  BY <1>1, Z3
<1> DEFINE u == v + p * (2 * q)  b == u \div p
<1>3. u \in Nat
  BY <1>2
<1>4. b \in Nat /\ u % p \in 0..p - 1 /\ u = p * b + (u % p)
  BY <1>3, Division
<1>5. p * b \in Nat
  BY <1>4, Z3
<1>6. b = a + 2 * q
  <2>1. CASE b < a + 2 * q
    <3>1. p * (b + 1) <= p * (a + 2 * q)
      BY <1>1, <1>4, <2>1, ProductMonotonic
    <3>2. p * (b + 1) = p * b + p
      BY <1>4, Z3
    <3> HIDE DEF a, b
    <3> QED
      BY <1>1, <1>2, <1>4, <1>5, <3>1, <3>2
  <2>2. CASE b > a + 2 * q
    <3>1. p * ((a + 2 * q) + 1) <= p * b
      BY <1>1, <1>4, <2>2, ProductMonotonic
    <3>2. p * ((a + 2 * q) + 1) = p * (a + 2 * q) + p
      BY <1>1, Z3
    <3> HIDE DEF a, b
    <3> QED
      BY <1>1, <1>2, <1>4, <1>5, <3>1, <3>2
  <2> QED
    BY <1>1, <1>4, <2>1, <2>2
<1> HIDE DEF a, b, u
<1>7. (a + 2 * q) % 2 = a % 2
  BY <1>1
<1> QED
  BY <1>6, <1>7 DEF a, b, u

\* The topmost digit of a number of j + 1 digits, and the others.
LEMMA TopDigit ==
  ASSUME NEW m \in Nat, NEW pow, Doubles(pow, m), NEW j \in 0..m, NEW u \in 0..2 * pow[j] - 1
  PROVE  /\ u < pow[j] => DigitsOf(u, j + 1, pow) = DigitsOf(u, j, pow)
         /\ u >= pow[j] => DigitsOf(u, j + 1, pow) = DigitsOf(u - pow[j], j, pow) \cup {j}
<1>1. \A k \in 0..m + 1 : pow[k] \in Nat \ {0}
  BY PowersGrow
<1>2. ASSUME u < pow[j] PROVE DigitsOf(u, j + 1, pow) = DigitsOf(u, j, pow)
  <2>1. \A p \in Nat \ {0} : \A x \in 0..p - 1 : x \div p = 0
    BY Z3
  <2>2. u \in 0..pow[j] - 1 /\ pow[j] \in Nat \ {0}
    BY <1>1, <1>2
  <2>3. (u \div pow[j]) % 2 = 0
    BY <2>1, <2>2
  <2>4. \A k : k \in 0..j <=> (k \in 0..j - 1 \/ k = j)
    OBVIOUS
  <2>5. (j + 1) - 1 = j
    OBVIOUS
  <2> QED
    BY <2>3, <2>4, <2>5 DEF DigitsOf
<1>3. ASSUME u >= pow[j] PROVE DigitsOf(u, j + 1, pow) = DigitsOf(u - pow[j], j, pow) \cup {j}
  <2> DEFINE r == u - pow[j]
  <2>1. r \in 0..pow[j] - 1 /\ r \in Nat /\ u = r + pow[j] /\ pow[j] \in Nat \ {0}
    BY <1>1, <1>3
  <2> HIDE DEF r
  <2>2. (u \div pow[j]) % 2 = 1
    <3>1. \A p \in Nat \ {0} : \A x \in 0..p - 1 : (x + p) \div p = 1
      BY Z3
    <3>2. u \div pow[j] = 1
      BY <2>1, <3>1
    <3> QED
      BY <3>2
  <2>3. ASSUME NEW k \in 0..j - 1 PROVE (u \div pow[k]) % 2 = (r \div pow[k]) % 2
    <3>1. PICK q \in Nat : pow[j] = pow[k] * (2 * q)
      <4>1. k \in 0..m /\ j \in k + 1..m + 1
        OBVIOUS
      <4>2. EvenMultiple(pow[j], pow[k])
        BY <4>1, PowerMultiple
      <4> QED
        BY <4>2 DEF EvenMultiple
    <3>2. pow[k] \in Nat \ {0}
      BY <1>1
    <3>3. ((r + pow[k] * (2 * q)) \div pow[k]) % 2 = (r \div pow[k]) % 2
      BY <2>1, <3>2, DigitOfRest
    <3> QED
      BY <2>1, <3>1, <3>3
  <2>4. \A k : k \in 0..j <=> (k \in 0..j - 1 \/ k = j)
    OBVIOUS
  <2>5. (j + 1) - 1 = j
    OBVIOUS
  <2>6. DigitsOf(u, j + 1, pow) = DigitsOf(r, j, pow) \cup {j}
    BY <2>2, <2>3, <2>4, <2>5 DEF DigitsOf
  <2> QED
    BY <2>6 DEF r
<1> QED
  BY <1>2, <1>3

\* The powers at the digits of a number add up to it.
LEMMA DigitsSum ==
  ASSUME NEW m \in Nat, NEW pow, Doubles(pow, m), NEW w \in 0..m + 1, NEW v \in 0..pow[w] - 1
  PROVE  SumSet({pow[k] : k \in DigitsOf(v, w, pow)}) = v
<1> DEFINE P(u, j) == {pow[k] : k \in DigitsOf(u, j, pow)}
           T == {j \in 0..m + 1 : \A u \in 0..pow[j] - 1 : SumSet(P(u, j)) = u}
<1>1. /\ \A k \in 0..m + 1 : pow[k] \in Nat \ {0}
      /\ \A j, k \in 0..m + 1 : j <= k => pow[j] <= pow[k]
      /\ pow[0] = 1 /\ \A k \in 0..m : pow[k + 1] = 2 * pow[k]
  BY PowersGrow DEF Doubles
<1>2. 0 \in T
  <2>1. ASSUME NEW u PROVE P(u, 0) = {}
    BY DEF DigitsOf
  <2>2. SumSet({}) = 0
    BY FS_EmptySet, SumUnfolds
  <2> HIDE DEF P
  <2> QED
    BY <1>1, <2>1, <2>2
<1>3. ASSUME NEW j \in 0..m, j \in T PROVE j + 1 \in T
  <2>1. pow[j] \in Nat \ {0} /\ pow[j + 1] = 2 * pow[j]
    BY <1>1
  <2>2. ASSUME NEW u \in 0..pow[j + 1] - 1 PROVE SumSet(P(u, j + 1)) = u
    <3>1. u \in 0..2 * pow[j] - 1 /\ u \in Nat
      BY <2>1
    <3>2. CASE u < pow[j]
      <4>1. u \in 0..pow[j] - 1
        BY <2>1, <3>2
      <4>2. DigitsOf(u, j + 1, pow) = DigitsOf(u, j, pow)
        BY <3>1, <3>2, TopDigit
      <4> QED
        BY <1>3, <4>1, <4>2
    <3>3. CASE u >= pow[j]
      <4> DEFINE r == u - pow[j]
      <4>1. r \in 0..pow[j] - 1 /\ u = r + pow[j]
        BY <2>1, <3>1, <3>3
      <4>2. DigitsOf(u, j + 1, pow) = DigitsOf(r, j, pow) \cup {j}
        BY <3>1, <3>3, TopDigit
      <4> HIDE DEF r
      <4>3. P(u, j + 1) = P(r, j) \cup {pow[j]}
        BY <4>2
      <4>4. P(r, j) \subseteq 1..pow[j] - 1
        <5>1. ASSUME NEW k \in DigitsOf(r, j, pow) PROVE pow[k] \in 1..pow[j] - 1
          <6>1. k \in 0..j - 1
            BY DEF DigitsOf
          <6>2. /\ k \in 0..m /\ k \in 0..m + 1 /\ k + 1 \in 0..m + 1 /\ j \in 0..m + 1
                /\ k + 1 <= j
            BY <6>1
          <6>3. pow[k + 1] <= pow[j] /\ pow[k] \in Nat \ {0} /\ pow[k + 1] = 2 * pow[k]
            BY <1>1, <6>2
          <6> QED
            BY <2>1, <6>3
        <5> QED
          BY <5>1
      <4> HIDE DEF P
      <4>5. P(u, j + 1) \subseteq Int /\ IsFiniteSet(P(u, j + 1))
        <5>1. P(u, j + 1) \subseteq 1..pow[j]
          BY <2>1, <4>3, <4>4
        <5>2. IsFiniteSet(1..pow[j])
          <6>1. 1 \in Int /\ pow[j] \in Int
            BY <2>1
          <6> QED
            BY <6>1, FS_Interval, Zenon
        <5> QED
          BY <2>1, <5>1, <5>2, FS_Subset
      <4>6. SumSet(P(u, j + 1)) = pow[j] + SumSet(P(u, j + 1) \ {pow[j]})
        BY <4>3, <4>5, SumWithout
      <4>7. P(u, j + 1) \ {pow[j]} = P(r, j)
        BY <2>1, <4>3, <4>4
      <4>8. SumSet(P(r, j)) = r
        BY <1>3, <4>1
      <4> QED
        BY <2>1, <4>1, <4>6, <4>7, <4>8
    <3> QED
      BY <2>1, <3>1, <3>2, <3>3
  <2> HIDE DEF P
  <2> QED
    BY <2>2
<1>4. \A j \in 0..m + 1 : j \in T
  <2> HIDE DEF T
  <2> QED
    BY <1>2, <1>3, IntervalInduction
<1> QED
  BY <1>4

-----------------------------------------------------------------------------
(* The logarithm, and division as in C++.                                  *)

LEMMA CeilLog2InRange ==
  ASSUME NEW m \in Nat, NEW pow, Doubles(pow, m), \A k \in 0..m + 1 : pow[k] = 2 ^ k,
         NEW x \in 1..m + 1
  PROVE  CeilLog2(x) \in 0..x /\ 2 ^ CeilLog2(x) >= x
<1> DEFINE S == {k \in 0..x : pow[k] >= x}
<1>1. \A k \in 0..x : pow[k] \in Nat /\ pow[k] > k /\ pow[k] = 2 ^ k
  BY PowersGrow
<1>2. Min(S) \in S /\ \A y \in S : Min(S) <= y
  <2>1. S \subseteq Nat /\ x \in S
    BY <1>1
  <2> QED
    BY <2>1, MinOfNaturals
<1> DEFINE l == Min(S)
<1>3. l \in 0..x /\ pow[l] >= x /\ \A j \in 0..l - 1 : pow[j] < x
  BY <1>1, <1>2
<1> HIDE DEF l
<1>4. 2 ^ l >= x /\ \A j \in 0..l - 1 : 2 ^ j < x
  <2>1. \A j \in 0..l - 1 : j \in 0..x
    BY <1>3
  <2> QED
    BY <1>1, <1>3, <2>1
<1>5. \E k \in 0..x : 2 ^ k >= x /\ \A j \in 0..k - 1 : 2 ^ j < x
  BY <1>3, <1>4, Zenon
<1> QED
  BY <1>5, Zenon DEF CeilLog2

LEMMA TruncatedDivision ==
  ASSUME NEW a \in Int, NEW d \in Nat \ {0}
  PROVE  /\ TruncatedDiv(a, d) \in Int
         /\ a >= 0 => TruncatedDiv(a, d) \in Nat
         /\ a <= 0 => TruncatedDiv(a, d) <= 0
<1>1. CASE a >= 0
  <2>1. a \div d \in Nat
    BY <1>1, Division
  <2>2. a = 0 => a \div d = 0
    BY Z3
  <2> QED
    BY <1>1, <2>1, <2>2 DEF TruncatedDiv
<1>2. CASE a < 0
  <2>1. -a \in Nat
    BY <1>2
  <2>2. (-a) \div d \in Nat
    BY <2>1, Division
  <2> QED
    BY <1>2, <2>2 DEF TruncatedDiv
<1> QED
  BY <1>1, <1>2

-----------------------------------------------------------------------------
(* Running sums, and sequences whose head is taken off or replaced.        *)

RunningSum(f, w, n) == f = [k \in 1..n |-> IF k = 1 THEN 0 ELSE f[k - 1] + w[k]]

LEMMA RunningSumExists ==
  ASSUME NEW n \in Nat \ {0}, NEW w, \A k \in 2..n : w[k] \in Int
  PROVE  \E f : RunningSum(f, w, n) /\ \A k \in 1..n : f[k] \in Int
<1> DEFINE D == 1..n  S == {1}
           out == [k \in D |-> 0]
           step == [k \in D |-> [v \in Int |-> v + w[k]]]
           next == [k \in D |-> k - 1]
           measure == [k \in D |-> k]
<1>1. Descends(D, S, next, measure)
  <2>1. \A k \in D : measure[k] = k /\ k \in Nat
    OBVIOUS
  <2>2. \A k \in D \ S : next[k] = k - 1 /\ k - 1 \in D /\ k - 1 < k
    OBVIOUS
  <2> HIDE DEF D, S, next, measure
  <2> QED
    BY <2>1, <2>2 DEF Descends
<1>2. PICK f : Recursive(f, D, S, out, step, next)
  BY <1>1, RecursionExists
<1>3. /\ f[1] = 0
      /\ \A k \in 2..n : f[k] = step[k][f[k - 1]]
      /\ f = [k \in D |-> f[k]]
  <2>1. \A k \in D : f[k] = IF k \in S THEN out[k] ELSE step[k][f[next[k]]]
    BY <1>2 DEF Recursive
  <2>2. f = [k \in D |-> f[k]]
    BY <1>2 DEF Recursive
  <2>3. 1 \in D /\ 1 \in S /\ out[1] = 0
    OBVIOUS
  <2>4. \A k \in 2..n : k \in D /\ k \notin S /\ next[k] = k - 1
    OBVIOUS
  <2> HIDE DEF D, S, out, next, step
  <2> QED
    BY <2>1, <2>2, <2>3, <2>4
<1>4. \A k \in 2..n, v \in Int : step[k][v] = v + w[k]
  OBVIOUS
<1> HIDE DEF step, D, out, S, next, measure
<1> DEFINE T == {k \in 1..n : f[k] \in Int}
<1>5. 1 \in T
  BY <1>3
<1>6. ASSUME NEW k \in 1..n - 1, k \in T PROVE k + 1 \in T
  <2>1. k + 1 \in 2..n /\ (k + 1) - 1 = k /\ f[k] \in Int /\ w[k + 1] \in Int
    BY <1>6
  <2> HIDE DEF T
  <2>2. f[k + 1] = f[k] + w[k + 1]
    <3>1. f[k + 1] = step[k + 1][f[(k + 1) - 1]]
      BY <1>3, <2>1
    <3>2. step[k + 1][f[k]] = f[k] + w[k + 1]
      BY <1>4, <2>1
    <3> QED
      BY <2>1, <3>1, <3>2
  <2> QED
    BY <2>1, <2>2 DEF T
<1>7. \A k \in 1..n : f[k] \in Int
  <2> HIDE DEF T
  <2>1. \A k \in 1..n : k \in T
    BY <1>5, <1>6, IntervalInduction
  <2> QED
    BY <2>1 DEF T
<1>8. ASSUME NEW k \in 1..n PROVE f[k] = IF k = 1 THEN 0 ELSE f[k - 1] + w[k]
  <2>1. CASE k = 1
    BY <1>3, <2>1
  <2>2. CASE k # 1
    <3>1. k \in 2..n /\ k - 1 \in 1..n
      BY <2>2
    <3> QED
      BY <1>3, <1>4, <1>7, <2>2, <3>1
  <2> QED
    BY <2>1, <2>2
<1>9. RunningSum(f, w, n)
  BY <1>3, <1>8 DEF RunningSum, D
<1> QED
  BY <1>7, <1>9

\* f sums w over every part of 1..n, from the greatest number down.
PrefixSums(f, w, n) ==
  f = [t \in SUBSET (1..n) |->
         IF t = {} THEN 0 ELSE LET x == Max(t) IN f[t \ {x}] + w[x]]

LEMMA PrefixSumsExist ==
  ASSUME NEW n \in Nat, NEW w
  PROVE  \E f : PrefixSums(f, w, n)
<1> DEFINE T == {k \in 0..n : \E f : PrefixSums(f, w, k)}
<1>1. 0 \in T
  <2> DEFINE f == [t \in SUBSET (1..0) |-> 0]
  <2>1. \A t \in SUBSET (1..0) : t = {}
    OBVIOUS
  <2>2. PrefixSums(f, w, 0)
    BY <2>1 DEF PrefixSums
  <2> QED
    BY <2>2
<1>2. ASSUME NEW k \in 0..n - 1, k \in T PROVE k + 1 \in T
  <2>1. PICK f : PrefixSums(f, w, k)
    BY <1>2
  <2> DEFINE h == [t \in SUBSET (1..k + 1) |->
                     IF k + 1 \in t THEN f[t \ {k + 1}] + w[k + 1] ELSE f[t]]
  <2>2. \A t \in SUBSET (1..k) : /\ t \in SUBSET (1..k + 1) /\ k + 1 \notin t
                                 /\ h[t] = f[t]
    OBVIOUS
  <2>3. ASSUME NEW t \in SUBSET (1..k + 1)
        PROVE  h[t] = IF t = {} THEN 0 ELSE LET x == Max(t) IN h[t \ {x}] + w[x]
    <3>1. CASE k + 1 \in t
      <4>1. k \in Nat /\ k + 1 \in Nat /\ t \subseteq 1..k + 1 /\ t # {}
        BY <3>1
      <4>2. Max(t) = k + 1
        BY <3>1, <4>1, MaxOfPrefix
      <4>3. t \ {k + 1} \in SUBSET (1..k)
        BY <4>1
      <4>4. h[t] = f[t \ {k + 1}] + w[k + 1]
        BY <3>1
      <4>5. h[t \ {k + 1}] = f[t \ {k + 1}]
        BY <2>2, <4>3
      <4> HIDE DEF h
      <4> QED
        BY <4>1, <4>2, <4>4, <4>5
    <3>2. CASE k + 1 \notin t /\ t # {}
      <4>1. k \in Nat /\ k + 1 \in Nat /\ t \subseteq 1..k /\ t # {}
        BY <3>2
      <4>2. Max(t) \in t
        BY <4>1, MaxOfPrefix
      <4>3. t \in SUBSET (1..k) /\ t \ {Max(t)} \in SUBSET (1..k)
        BY <4>1
      <4>4. f[t] = IF t = {} THEN 0 ELSE LET x == Max(t) IN f[t \ {x}] + w[x]
        BY <2>1, <4>3 DEF PrefixSums
      <4>5. h[t] = f[t] /\ h[t \ {Max(t)}] = f[t \ {Max(t)}]
        BY <2>2, <4>3
      <4> HIDE DEF h
      <4> QED
        BY <3>2, <4>4, <4>5
    <3>3. CASE t = {}
      <4>1. t \in SUBSET (1..k)
        BY <3>3
      <4>2. f[t] = IF t = {} THEN 0 ELSE LET x == Max(t) IN f[t \ {x}] + w[x]
        BY <2>1, <4>1 DEF PrefixSums
      <4>3. h[t] = f[t]
        BY <2>2, <4>1
      <4> HIDE DEF h
      <4> QED
        BY <3>3, <4>2, <4>3
    <3> QED
      BY <3>1, <3>2, <3>3
  <2>4. h = [t \in SUBSET (1..k + 1) |-> h[t]]
    OBVIOUS
  <2> HIDE DEF h
  <2>5. PrefixSums(h, w, k + 1)
    BY <2>3, <2>4 DEF PrefixSums
  <2>6. k + 1 \in 0..n
    OBVIOUS
  <2> QED
    BY <2>5, <2>6
<1>3. n \in T
  <2> HIDE DEF T
  <2>1. \A j \in 0..n : j \in T
    BY <1>1, <1>2, IntervalInduction
  <2> QED
    BY <2>1
<1> QED
  BY <1>3

LEMMA HeadAndTail ==
  ASSUME NEW S, NEW s \in Seq(S), s # <<>>
  PROVE  /\ Len(s) \in Nat \ {0} /\ DOMAIN s = 1..Len(s) /\ Head(s) = s[1]
         /\ Tail(s) \in Seq(S) /\ Len(Tail(s)) = Len(s) - 1 /\ DOMAIN Tail(s) = 1..Len(s) - 1
         /\ \A k \in 1..Len(s) - 1 : Tail(s)[k] = s[k + 1]
  OBVIOUS

LEMMA Appended ==
  ASSUME NEW S, NEW s \in Seq(S), NEW e \in S
  PROVE  /\ Append(s, e) \in Seq(S) /\ Len(s) \in Nat /\ Len(Append(s, e)) = Len(s) + 1
         /\ DOMAIN s = 1..Len(s) /\ DOMAIN Append(s, e) = 1..Len(s) + 1
         /\ Append(s, e)[Len(s) + 1] = e /\ \A k \in 1..Len(s) : Append(s, e)[k] = s[k]
  OBVIOUS

LEMMA HeadReplaced ==
  ASSUME NEW S, NEW s \in Seq(S), s # <<>>, NEW a \in S, NEW b \in S
  PROVE  /\ <<a, b>> \o Tail(s) \in Seq(S) /\ Len(<<a, b>> \o Tail(s)) = Len(s) + 1
         /\ DOMAIN (<<a, b>> \o Tail(s)) = 1..Len(s) + 1
         /\ (<<a, b>> \o Tail(s))[1] = a /\ (<<a, b>> \o Tail(s))[2] = b
         /\ \A k \in 2..Len(s) : (<<a, b>> \o Tail(s))[k + 1] = s[k]
<1> DEFINE t == Tail(s)  l == Len(s)  r == <<a, b>> \o t
<1>1. /\ l \in Nat \ {0} /\ t \in Seq(S) /\ Len(t) = l - 1
      /\ \A k \in 1..l - 1 : t[k] = s[k + 1]
  BY HeadAndTail
<1>2. <<a, b>> \in Seq(S) /\ Len(<<a, b>>) = 2 /\ <<a, b>>[1] = a /\ <<a, b>>[2] = b
  OBVIOUS
<1> HIDE DEF t, l
<1>3. /\ r \in Seq(S) /\ Len(r) = 2 + (l - 1) /\ DOMAIN r = 1..2 + (l - 1)
      /\ \A k \in 1..2 + (l - 1) : r[k] = IF k <= 2 THEN <<a, b>>[k] ELSE t[k - 2]
  BY <1>1, <1>2
<1> HIDE DEF r
<1>4. r[1] = a /\ r[2] = b
  <2>1. 1 \in 1..2 + (l - 1) /\ 2 \in 1..2 + (l - 1)
    BY <1>1
  <2> QED
    BY <1>2, <1>3, <2>1
<1>5. ASSUME NEW k \in 2..l PROVE r[k + 1] = s[k]
  <2>1. k + 1 \in 1..2 + (l - 1) /\ ~(k + 1 <= 2) /\ (k + 1) - 2 = k - 1 /\ k - 1 \in 1..l - 1
        /\ (k - 1) + 1 = k
    BY <1>1
  <2> QED
    BY <1>1, <1>3, <2>1
<1>6. 2 + (l - 1) = l + 1
  BY <1>1
<1> QED
  BY <1>3, <1>4, <1>5, <1>6 DEF r, l, t

\* A recursion that only hands on: its value is that of next[r].
HandsOn(f, D, S, out, next) ==
  f = [r \in D |-> IF r \in S THEN out[r] ELSE f[next[r]]]

\* What holds where the recursion stops, and of an argument whenever it holds
\* of the next one, holds of every argument.
LEMMA DescentInduction ==
  ASSUME NEW D, NEW S, NEW next, NEW measure, Descends(D, S, next, measure), NEW T,
         \A r \in D : (r \in S \/ next[r] \in T) => r \in T
  PROVE  \A r \in D : r \in T
<1> DEFINE M == {k \in Nat : \A r \in D : measure[r] <= k => r \in T}
<1>1. /\ \A r \in D : measure[r] \in Nat
      /\ \A r \in D : r \notin S => next[r] \in D /\ measure[next[r]] < measure[r]
  BY DEF Descends
<1>2. ASSUME NEW b \in Nat PROVE \A k \in 0..b : k \in M
  <2>1. 0 \in M
    <3> SUFFICES ASSUME NEW r \in D, measure[r] <= 0 PROVE r \in T
      OBVIOUS
    <3>1. r \in S
      <4> SUFFICES ASSUME r \notin S PROVE FALSE
        OBVIOUS
      <4>1. measure[r] \in Nat /\ measure[next[r]] \in Nat /\ measure[next[r]] < measure[r]
        BY <1>1
      <4> QED
        BY <4>1
    <3> QED
      BY <3>1
  <2>2. ASSUME NEW k \in 0..b - 1, k \in M PROVE k + 1 \in M
    <3> SUFFICES ASSUME NEW r \in D, measure[r] <= k + 1 PROVE r \in T
      OBVIOUS
    <3>1. CASE r \notin S
      <4>1. measure[r] \in Nat /\ next[r] \in D /\ measure[next[r]] \in Nat
            /\ measure[next[r]] < measure[r]
        BY <1>1, <3>1
      <4>2. measure[next[r]] <= k
        BY <4>1
      <4>3. next[r] \in T
        BY <2>2, <4>1, <4>2
      <4> QED
        BY <4>3
    <3> QED
      BY <3>1
  <2> HIDE DEF M
  <2> QED
    BY <2>1, <2>2, IntervalInduction
<1>3. ASSUME NEW r \in D PROVE r \in T
  <2>1. measure[r] \in Nat /\ measure[r] \in 0..measure[r]
    BY <1>1
  <2>2. measure[r] \in M
    BY <1>2, <2>1
  <2> QED
    BY <2>1, <2>2
<1> QED
  BY <1>3

LEMMA HandingOnExists ==
  ASSUME NEW D, NEW S, NEW out, NEW next, NEW measure, Descends(D, S, next, measure)
  PROVE  \E f : HandsOn(f, D, S, out, next)
<1> DEFINE V == {out[r] : r \in D}
           step == [r \in D |-> [v \in V |-> v]]
<1>1. PICK f : Recursive(f, D, S, out, step, next)
  BY RecursionExists
<1>2. /\ f = [r \in D |-> f[r]]
      /\ \A r \in D : f[r] = IF r \in S THEN out[r] ELSE step[r][f[next[r]]]
  <2> HIDE DEF step
  <2> QED
    BY <1>1 DEF Recursive
<1>3. \A r \in D, v \in V : step[r][v] = v
  OBVIOUS
<1>4. \A r \in D : out[r] \in V
  OBVIOUS
<1> HIDE DEF V, step
<1> DEFINE T == {r \in D : f[r] \in V}
<1>5. \A r \in D : r \notin S => next[r] \in D
  BY DEF Descends
<1>6. ASSUME NEW r \in D, r \in S \/ next[r] \in T PROVE r \in T
  <2>1. CASE r \in S
    BY <1>2, <1>4, <2>1
  <2>2. CASE r \notin S
    BY <1>2, <1>3, <1>6, <2>2
  <2> QED
    BY <2>1, <2>2
<1>7. \A r \in D : f[r] \in V
  <2> HIDE DEF T
  <2>1. \A r \in D : r \in T
    BY <1>6, DescentInduction
  <2> QED
    BY <2>1 DEF T
<1>8. ASSUME NEW r \in D PROVE f[r] = IF r \in S THEN out[r] ELSE f[next[r]]
  BY <1>2, <1>3, <1>5, <1>7
<1>9. HandsOn(f, D, S, out, next)
  BY <1>2, <1>8 DEF HandsOn
<1> QED
  BY <1>9

LEMMA PrefixExtended ==
  ASSUME NEW s, NEW a \in Nat, NEW d \in Nat
  PROVE  [l \in 1..a |-> s[l]] \o [l \in 1..d |-> s[a + l]] = [l \in 1..a + d |-> s[l]]
<1> DEFINE f == [l \in 1..a |-> s[l]]  g == [l \in 1..d |-> s[a + l]]  h == f \o g
           S == {s[l] : l \in 1..a + d}
<1>1. f \in Seq(S) /\ g \in Seq(S) /\ Len(f) = a /\ Len(g) = d
  <2>1. \A l \in 1..a : s[l] \in S
    <3>1. \A l \in 1..a : l \in 1..a + d
      OBVIOUS
    <3> QED
      BY <3>1
  <2>2. \A l \in 1..d : s[a + l] \in S
    <3>1. \A l \in 1..d : a + l \in 1..a + d
      OBVIOUS
    <3> QED
      BY <3>1
  <2> HIDE DEF S
  <2> QED
    BY <2>1, <2>2
<1>2. /\ \A l \in 1..a : f[l] = s[l]
      /\ \A l \in 1..d : g[l] = s[a + l]
  OBVIOUS
<1> HIDE DEF f, g, S
<1>3. /\ h \in Seq(S) /\ Len(h) = a + d /\ DOMAIN h = 1..a + d
      /\ \A l \in 1..a + d : h[l] = IF l <= a THEN f[l] ELSE g[l - a]
  BY <1>1
<1>4. ASSUME NEW l \in 1..a + d PROVE h[l] = s[l]
  <2>1. CASE l <= a
    <3>1. l \in 1..a
      BY <2>1
    <3> QED
      BY <1>2, <1>3, <2>1, <3>1
  <2>2. CASE ~(l <= a)
    <3>1. l - a \in 1..d /\ a + (l - a) = l
      BY <2>2
    <3> QED
      BY <1>2, <1>3, <2>2, <3>1
  <2> QED
    BY <2>1, <2>2
<1> HIDE DEF h
<1>5. h = [l \in 1..a + d |-> h[l]]
  <2>1. h = [l \in DOMAIN h |-> h[l]]
    BY <1>3
  <2> QED
    BY <1>3, <2>1
<1>6. h = [l \in 1..a + d |-> s[l]]
  BY <1>4, <1>5
<1> QED
  BY <1>6 DEF h, f, g
=============================================================================
