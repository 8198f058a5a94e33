------------------------ MODULE IndexedSequenceProofs ------------------------
(***************************************************************************)
(* The enumerator of an indexed sequence answers what a search of the      *)
(* sequence answers, for every sequence, encoding and sampling rate.       *)
(***************************************************************************)
EXTENDS IndexedSequence, UnaryEnumerator, BasicTheorems

-----------------------------------------------------------------------------
(* What a reader of bits answers when the ones are the values of a rising  *)
(* function: counts of ones, the k-th one and the k-th zero from a reader. *)

\* f rises from 0 to N - 1
Rising(f, N) ==
  /\ f \in [0..N - 1 -> Nat]
  /\ \A i, j \in 0..N - 1 : i < j => f[i] < f[j]

\* the reader that has just read the bit
HasRead(bit) == [at |-> bit, consumed |-> TRUE]

\* the values from index a to before b
Values(f, a, b) == {f[i] : i \in a..b - 1}

\* the reader is before the one of index a and behind those of lower indices
Before(f, N, reader, a) == Ahead(Values(f, 0, N), reader) = Values(f, a, N)

\* k zeros, and the ones from index a to before m, come before the bit z
ZerosUpTo(f, N, reader, k, a, m, z) ==
  /\ Before(f, N, reader, a) /\ reader.at \in Nat
  /\ a \in 0..N /\ m \in a..N /\ z \in Nat /\ k \in Nat
  /\ k = z - reader.at - (m - a) /\ reader.at <= z
  /\ \A i \in a..m - 1 : reader.at <= f[i] /\ f[i] < z
  /\ \A i \in m..N - 1 : z < f[i]
  /\ m = a \/ z - f[m - 1] <= k + 1

-----------------------------------------------------------------------------
(* Quotient and remainder.                                                 *)
LEMMA DivisionOfNaturals ==
  ASSUME NEW a \in Nat, NEW d \in Nat \ {0}
  PROVE  /\ a \div d \in Nat /\ a % d \in 0..d - 1
         /\ a = (a \div d) * d + (a % d)
  BY Z3

LEMMA MultipleBelow ==
  ASSUME NEW a \in Nat, NEW d \in Nat \ {0}
  PROVE  (a \div d) * d \in 0..a /\ a \div d \in Nat
<1> DEFINE q == a \div d
           rest == a % d
<1>1. q \in Nat /\ rest \in 0..d - 1 /\ a = q * d + rest
  BY DivisionOfNaturals
<1> HIDE DEF q, rest
<1>2. q * d \in Nat
  BY <1>1, Z3
<1> DEFINE multiple == q * d
<1>3. multiple \in Nat /\ a = multiple + rest
  BY <1>1, <1>2
<1> HIDE DEF multiple
<1>4. multiple \in 0..a
  BY <1>1, <1>3
<1> QED
  BY <1>1, <1>4 DEF multiple, q

(* The quotient grows with the dividend.                                   *)
LEMMA QuotientGrows ==
  ASSUME NEW a \in Nat, NEW b \in Nat, NEW d \in Nat \ {0}, a <= b
  PROVE  a \div d <= b \div d
<1> DEFINE p == a \div d  q == b \div d
<1>1. /\ p \in Nat /\ q \in Nat /\ a % d \in 0..d - 1 /\ b % d \in 0..d - 1
      /\ a = p * d + (a % d) /\ b = q * d + (b % d)
  BY DivisionOfNaturals
<1>2. CASE q + 1 <= p
  <2> HIDE DEF p, q
  <2>1. (q + 1) * d <= p * d
    BY <1>1, <1>2, Z3
  <2>2. (q + 1) * d = q * d + d
    BY <1>1, Z3
  <2> QED
    BY <1>1, <2>1, <2>2
<1> QED
  BY <1>1, <1>2

(* A nondecreasing sequence splits at any bound: the elements below it     *)
(* come first.                                                             *)
LEMMA SplitAtBound ==
  ASSUME NEW g, NEW N \in Nat, NEW b \in Int,
         \A i \in 0..N - 1 : g[i] \in Int,
         \A i, j \in 0..N - 1 : i < j => g[i] <= g[j]
  PROVE  \E m \in 0..N : \A i \in 0..N - 1 : g[i] < b <=> i < m
<1> DEFINE S == {i \in 0..N - 1 : g[i] >= b} \cup {N}
<1>1. S \subseteq Nat /\ S # {} /\ S \subseteq 0..N
  OBVIOUS
<1>2. Min(S) \in S /\ \A y \in S : Min(S) <= y
  <2> HIDE DEF S
  <2> QED
    BY <1>1, MinOfNaturals
<1>3. PICK m \in S : \A y \in S : m <= y
  BY <1>2
<1>4. m \in 0..N
  BY <1>1
<1>5. ASSUME NEW i \in 0..N - 1 PROVE g[i] < b <=> i < m
  <2>1. CASE i < m
    <3>1. i \notin S
      BY <1>3, <1>4, <2>1
    <3> QED
      BY <2>1, <3>1
  <2>2. CASE i = m
    BY <2>2, <1>4
  <2>3. CASE m < i
    <3>1. g[m] >= b
      BY <1>4, <2>3
    <3>2. m \in 0..N - 1 /\ g[m] <= g[i]
      BY <1>4, <2>3
    <3> QED
      BY <3>1, <3>2, <2>3, <1>4
  <2> QED
    BY <1>4, <2>1, <2>2, <2>3
<1> QED
  BY <1>4, <1>5

-----------------------------------------------------------------------------
(* Every value occurs once.                                                *)
LEMMA CountOfValues ==
  ASSUME NEW N \in Nat, NEW f, Rising(f, N), NEW a \in 0..N, NEW b \in a..N
  PROVE  /\ IsFiniteSet(Values(f, a, b))
         /\ Cardinality(Values(f, a, b)) = b - a
<1> DEFINE g == [i \in a..b - 1 |-> f[i]]
<1>1. \A i, j \in a..b - 1 : g[i] = g[j] => i = j
  <2> SUFFICES ASSUME NEW i \in a..b - 1, NEW j \in a..b - 1, i < j PROVE g[i] # g[j]
    OBVIOUS
  <2>1. f[i] < f[j] /\ f[i] \in Nat /\ f[j] \in Nat
    BY DEF Rising
  <2> QED
    BY <2>1
<1>2. g \in Bijection(a..b - 1, Values(f, a, b))
  <2>1. g \in Injection(a..b - 1, Values(f, a, b))
    BY <1>1 DEF Injection, IsInjective, Values
  <2>2. g \in Surjection(a..b - 1, Values(f, a, b))
    BY DEF Surjection, Values
  <2> QED
    BY <2>1, <2>2 DEF Bijection
<1>3. ExistsBijection(a..b - 1, Values(f, a, b))
  BY <1>2 DEF ExistsBijection
<1>4. IsFiniteSet(a..b - 1) /\ Cardinality(a..b - 1) = b - a
  <2>1. a \in Int /\ b - 1 \in Int /\ a <= b
    OBVIOUS
  <2>2. /\ IsFiniteSet(a..b - 1)
        /\ Cardinality(a..b - 1) = IF a > b - 1 THEN 0 ELSE (b - 1) - a + 1
    BY <2>1, FS_Interval
  <2> QED
    BY <2>1, <2>2
<1> QED
  BY <1>3, <1>4, FS_Bijection

(* The k-th of a set is its element with k others below.                   *)
LEMMA NthIs ==
  ASSUME NEW S, S \subseteq Int, IsFiniteSet(S), NEW z \in S, NEW k \in Nat,
         Cardinality({e \in S : e < z}) = k
  PROVE  Nth(S, k) = z
<1> DEFINE below(b) == {e \in S : e < b}
<1>1. \A b \in S : IsFiniteSet(below(b)) /\ Cardinality(below(b)) \in Nat
  BY FS_Subset, FS_CardinalityType
<1>2. k < Cardinality(S)
  <2>1. below(z) \in SUBSET S /\ below(z) # S
    OBVIOUS
  <2>2. Cardinality(S) \in Nat
    BY FS_CardinalityType
  <2>3. Cardinality(below(z)) <= Cardinality(S) /\ Cardinality(S) # Cardinality(below(z))
    <3> HIDE DEF below
    <3> QED
      BY <2>1, FS_Subset
  <2> QED
    BY <2>2, <2>3
<1>3. ASSUME NEW b \in S, NEW d \in S, b < d
      PROVE  Cardinality(below(b)) # Cardinality(below(d))
  <2>1. below(b) \in SUBSET below(d) /\ b \in below(d) /\ b \notin below(b)
    <3>1. \A e \in S : e < b => e < d
      BY <1>3
    <3>2. b \in Int /\ ~(b < b)
      OBVIOUS
    <3> QED
      BY <1>3, <3>1, <3>2
  <2>2. IsFiniteSet(below(d))
    BY <1>1
  <2> HIDE DEF below
  <2> QED
    BY <2>1, <2>2, FS_Subset
<1>4. \A b \in S : Cardinality(below(b)) = k => b = z
  <2> SUFFICES ASSUME NEW b \in S, b # z PROVE Cardinality(below(b)) # k
    OBVIOUS
  <2>1. b \in Int /\ z \in Int /\ (b < z \/ z < b)
    OBVIOUS
  <2>2. Cardinality(below(z)) = k
    OBVIOUS
  <2> HIDE DEF below
  <2> QED
    BY <1>3, <2>1, <2>2
<1>5. (CHOOSE b \in S : Cardinality(below(b)) = k) = z
  <2>1. Cardinality(below(z)) = k
    OBVIOUS
  <2> HIDE DEF below
  <2> QED
    BY <1>4, <2>1
<1> QED
  BY <1>2, <1>5 DEF Nth

(* The k-th of the values from a on.                                       *)
LEMMA NthOfValues ==
  ASSUME NEW N \in Nat, NEW f, Rising(f, N), NEW a \in 0..N, NEW k \in 0..N - a - 1
  PROVE  Nth(Values(f, a, N), k) = f[a + k]
<1> DEFINE S == Values(f, a, N)
<1>1. IsFiniteSet(S) /\ S \subseteq Int
  <2>1. N \in a..N
    OBVIOUS
  <2>2. IsFiniteSet(Values(f, a, N))
    BY <2>1, CountOfValues
  <2>3. Values(f, a, N) \subseteq Int
    BY DEF Rising, Values
  <2> QED
    BY <2>2, <2>3
<1>2. a + k \in a..N - 1 /\ f[a + k] \in S
  BY DEF Values
<1>3. {e \in S : e < f[a + k]} = Values(f, a, a + k)
  <2>1. \A i \in a..N - 1 : f[i] < f[a + k] <=> i < a + k
    <3> SUFFICES ASSUME NEW i \in a..N - 1 PROVE f[i] < f[a + k] <=> i < a + k
      OBVIOUS
    <3>1. /\ i \in 0..N - 1 /\ a + k \in 0..N - 1 /\ f[i] \in Nat /\ f[a + k] \in Nat
          /\ i < a + k => f[i] < f[a + k]
          /\ a + k < i => f[a + k] < f[i]
      BY DEF Rising
    <3> QED
      BY <3>1
  <2> QED
    BY <2>1 DEF Values
<1>4. Cardinality(Values(f, a, a + k)) = k
  <2>1. a + k \in a..N
    OBVIOUS
  <2> QED
    BY <2>1, CountOfValues
<1> HIDE DEF S
<1>5. k \in Nat /\ Cardinality({e \in S : e < f[a + k]}) = k
  BY <1>3, <1>4
<1>6. Nth(S, k) = f[a + k]
  BY <1>1, <1>2, <1>5, NthIs
<1> QED
  BY <1>6 DEF S

-----------------------------------------------------------------------------
(* A reader that has just read the bit z is before the first one above z.  *)
LEMMA BehindABit ==
  ASSUME NEW N \in Nat, NEW f, Rising(f, N), NEW a \in 0..N, NEW z,
         \A i \in 0..N - 1 : f[i] > z <=> i >= a
  PROVE  Before(f, N, HasRead(z), a)
<1> DEFINE reader == HasRead(z)
<1>1. Ahead(Values(f, 0, N), reader) = {b \in Values(f, 0, N) : b > z}
  BY DEF Ahead, HasRead
<1>2. {b \in Values(f, 0, N) : b > z} = Values(f, a, N)
  <2>1. \A i \in a..N - 1 : i \in 0..N - 1 /\ f[i] > z
    OBVIOUS
  <2>2. \A i \in 0..N - 1 : f[i] > z => i \in a..N - 1
    OBVIOUS
  <2> QED
    BY <2>1, <2>2 DEF Values
<1> QED
  BY <1>1, <1>2 DEF Before

(* One that has just read a one is before the next.                        *)
LEMMA BehindAOne ==
  ASSUME NEW N \in Nat, NEW f, Rising(f, N), NEW p \in 0..N - 1
  PROVE  Before(f, N, HasRead(f[p]), p + 1)
<1>1. ASSUME NEW i \in 0..N - 1 PROVE f[i] > f[p] <=> i >= p + 1
  <2>1. /\ f[i] \in Nat /\ f[p] \in Nat
        /\ i < p => f[i] < f[p]
        /\ p < i => f[p] < f[i]
    BY DEF Rising
  <2> QED
    BY <2>1
<1>2. p + 1 \in 0..N
  OBVIOUS
<1> QED
  BY <1>1, <1>2, BehindABit

(* A reader opened at a bit is before the first one from that bit on.      *)
LEMMA OpenedAtABit ==
  ASSUME NEW N \in Nat, NEW f, Rising(f, N), NEW a \in 0..N, NEW z \in Int,
         \A i \in 0..N - 1 : f[i] >= z <=> i >= a
  PROVE  Before(f, N, ReaderAt(z), a)
<1>1. \A b \in Values(f, 0, N) : b \in Int
  BY DEF Values, Rising
<1>2. Ahead(Values(f, 0, N), ReaderAt(z)) = {b \in Values(f, 0, N) : b >= z}
  BY <1>1 DEF Ahead, ReaderAt
<1>3. {b \in Values(f, 0, N) : b >= z} = Values(f, a, N)
  <2>1. \A i \in a..N - 1 : i \in 0..N - 1 /\ f[i] >= z
    OBVIOUS
  <2>2. \A i \in 0..N - 1 : f[i] >= z => i \in a..N - 1
    OBVIOUS
  <2> QED
    BY <2>1, <2>2 DEF Values
<1> QED
  BY <1>2, <1>3 DEF Before

(* The k-th call of next() from there reads the k-th one.                  *)
LEMMA NextOneReads ==
  ASSUME NEW N \in Nat, NEW f, Rising(f, N), NEW a \in 0..N, NEW reader,
         Before(f, N, reader, a), NEW k \in 1..N - a
  PROVE  NextOne(Values(f, 0, N), reader, k) = HasRead(f[a + k - 1])
<1>1. k - 1 \in 0..N - a - 1 /\ a + (k - 1) = a + k - 1 /\ k # 0
  OBVIOUS
<1>2. Nth(Values(f, a, N), k - 1) = f[a + (k - 1)]
  BY <1>1, NthOfValues
<1> QED
  BY <1>1, <1>2 DEF NextOne, Before, HasRead

(* skip(k) stops before the one after k more.                              *)
LEMMA SkipOnesSkips ==
  ASSUME NEW N \in Nat, NEW f, Rising(f, N), NEW a \in 0..N, NEW reader,
         Before(f, N, reader, a), NEW k \in 0..N - a - 1
  PROVE  Before(f, N, SkipOnes(Values(f, 0, N), reader, k), a + k)
<1>1. SkipOnes(Values(f, 0, N), reader, k) = ReaderAt(f[a + k])
  BY NthOfValues DEF SkipOnes, Before
<1>2. a + k \in 0..N - 1
  OBVIOUS
<1>3. ASSUME NEW i \in 0..N - 1 PROVE f[i] >= f[a + k] <=> i >= a + k
  <2>1. /\ f[i] \in Nat /\ f[a + k] \in Nat
        /\ i < a + k => f[i] < f[a + k]
        /\ a + k < i => f[a + k] < f[i]
    BY <1>2 DEF Rising
  <2> QED
    BY <2>1, <1>2
<1>4. f[a + k] \in Int /\ a + k \in 0..N
  BY <1>2 DEF Rising
<1>5. Before(f, N, ReaderAt(f[a + k]), a + k)
  BY <1>3, <1>4, OpenedAtABit
<1> QED
  BY <1>1, <1>5

(* skip0(k) stops at the bit behind k zeros, whatever ones are between.    *)
LEMMA SkipZerosSkips ==
  ASSUME NEW N \in Nat, NEW f, Rising(f, N), NEW reader, NEW k, NEW a, NEW m, NEW z,
         ZerosUpTo(f, N, reader, k, a, m, z)
  PROVE  SkipZeros(Values(f, 0, N), reader, k) = HasRead(z)
<1>0. /\ Before(f, N, reader, a) /\ reader.at \in Nat
      /\ a \in 0..N /\ m \in a..N /\ z \in Nat /\ k \in Nat
      /\ k = z - reader.at - (m - a) /\ reader.at <= z
      /\ \A i \in a..m - 1 : reader.at <= f[i] /\ f[i] < z
      /\ \A i \in m..N - 1 : z < f[i]
      /\ m = a \/ z - f[m - 1] <= k + 1
  BY DEF ZerosUpTo
<1> USE <1>0
<1> DEFINE ones  == Values(f, 0, N)
           most  == Max({reader.at} \cup ones)
           last  == most + k + 1
           zeros == (reader.at..last) \ Values(f, a, N)
<1>1. /\ most \in Nat /\ reader.at <= most
      /\ \A i \in 0..N - 1 : f[i] <= most
  <2> DEFINE S == {reader.at} \cup ones
             top == IF N = 0 THEN reader.at ELSE reader.at + f[N - 1]
  <2>1. \A i \in 0..N - 1 : f[i] \in Nat /\ f[i] <= f[N - 1]
    <3> SUFFICES ASSUME NEW i \in 0..N - 1 PROVE f[i] \in Nat /\ f[i] <= f[N - 1]
      OBVIOUS
    <3>1. N - 1 \in 0..N - 1 /\ f[i] \in Nat /\ f[N - 1] \in Nat /\ (i < N - 1 => f[i] < f[N - 1])
      BY DEF Rising
    <3> QED
      BY <3>1
  <2>2. top \in Nat /\ S \subseteq 0..top /\ S # {}
    <3>1. CASE N = 0
      BY <3>1 DEF Values
    <3>2. CASE N # 0
      <4>1. N - 1 \in 0..N - 1
        BY <3>2
      <4>2. top = reader.at + f[N - 1] /\ f[N - 1] \in Nat
        BY <3>2, <4>1, <2>1
      <4>3. \A i \in 0..N - 1 : f[i] \in 0..top
        BY <2>1, <4>2
      <4> HIDE DEF top
      <4> QED
        BY <4>2, <4>3 DEF Values
    <3> QED
      BY <3>1, <3>2
  <2>3. Max(S) \in S /\ \A y \in S : y <= Max(S)
    <3> HIDE DEF S, top
    <3> QED
      BY <2>2, MaxOfNaturals
  <2>4. reader.at \in S /\ S \subseteq Nat /\ \A i \in 0..N - 1 : f[i] \in S
    BY <2>1 DEF Values
  <2> HIDE DEF S
  <2>5. Max(S) \in Nat /\ reader.at <= Max(S) /\ \A i \in 0..N - 1 : f[i] <= Max(S)
    BY <2>3, <2>4
  <2> QED
    BY <2>5 DEF S
<1>2. z <= last /\ last \in Nat
  <2>1. CASE m = a
    BY <1>1, <2>1
  <2>2. CASE m # a
    <3>1. m - 1 \in 0..N - 1 /\ f[m - 1] \in Nat
      BY <2>2 DEF Rising
    <3>2. z - f[m - 1] <= k + 1 /\ f[m - 1] <= most
      BY <1>1, <2>2, <3>1
    <3> HIDE DEF most
    <3> QED
      BY <1>1, <3>1, <3>2
  <2> QED
    BY <2>1, <2>2
<1>3. z \in zeros
  <2>1. \A i \in a..N - 1 : f[i] # z
    <3> SUFFICES ASSUME NEW i \in a..N - 1 PROVE f[i] # z
      OBVIOUS
    <3>1. f[i] \in Nat /\ (i \in a..m - 1 \/ i \in m..N - 1)
      BY DEF Rising
    <3> QED
      BY <3>1
  <2>2. z \in reader.at..last
    <3> HIDE DEF last
    <3> QED
      BY <1>2
  <2> QED
    BY <2>1, <2>2 DEF Values
<1>4. IsFiniteSet(zeros) /\ zeros \subseteq Int
  <2> HIDE DEF last
  <2>1. reader.at \in Int /\ last \in Int
    BY <1>2
  <2>2. IsFiniteSet(reader.at..last)
    BY <2>1, FS_Interval
  <2>3. IsFiniteSet((reader.at..last) \ Values(f, a, N))
    BY <2>2, FS_Difference
  <2> QED
    BY <2>1, <2>3
<1>5. {e \in zeros : e < z} = (reader.at..z - 1) \ Values(f, a, m)
  <2>1. \A i \in m..N - 1 : f[i] \notin reader.at..z - 1
    <3> SUFFICES ASSUME NEW i \in m..N - 1 PROVE f[i] \notin reader.at..z - 1
      OBVIOUS
    <3>1. f[i] \in Nat
      BY DEF Rising
    <3> QED
      BY <3>1
  <2>2. \A e \in reader.at..z - 1 : e \in Values(f, a, N) <=> e \in Values(f, a, m)
    <3>1. \A i \in a..N - 1 : i \in a..m - 1 \/ i \in m..N - 1
      OBVIOUS
    <3>2. \A i \in a..m - 1 : i \in a..N - 1
      OBVIOUS
    <3> QED
      BY <3>1, <3>2, <2>1 DEF Values
  <2> HIDE DEF last
  <2>3. \A e : e \in reader.at..last /\ e < z <=> e \in reader.at..z - 1
    BY <1>2
  <2> QED
    BY <2>2, <2>3
<1>6. Cardinality((reader.at..z - 1) \ Values(f, a, m)) = k
  <2>1. IsFiniteSet(reader.at..z - 1) /\ Cardinality(reader.at..z - 1) = z - reader.at
    <3>1. reader.at \in Int /\ z - 1 \in Int
      OBVIOUS
    <3>2. /\ IsFiniteSet(reader.at..z - 1)
          /\ Cardinality(reader.at..z - 1) = IF reader.at > z - 1 THEN 0 ELSE (z - 1) - reader.at + 1
      BY <3>1, FS_Interval
    <3>3. reader.at \in Nat /\ z \in Nat /\ reader.at <= z
      OBVIOUS
    <3> HIDE <1>0
    <3> QED
      BY <3>2, <3>3
  <2>2. Values(f, a, m) \subseteq reader.at..z - 1
    <3>1. ASSUME NEW i \in a..m - 1 PROVE f[i] \in reader.at..z - 1
      <4>1. i \in 0..N - 1 /\ reader.at <= f[i] /\ f[i] < z
        OBVIOUS
      <4>2. f[i] \in Nat /\ reader.at \in Nat /\ z \in Nat
        BY <4>1 DEF Rising
      <4> HIDE <1>0
      <4> QED
        BY <4>1, <4>2
    <3> QED
      BY <3>1 DEF Values
  <2>3. (reader.at..z - 1) \cap Values(f, a, m) = Values(f, a, m)
    BY <2>2
  <2>4. Cardinality(Values(f, a, m)) = m - a
    BY CountOfValues
  <2> DEFINE between == reader.at..z - 1
  <2>5. Cardinality(between \ Values(f, a, m)) = Cardinality(between) - Cardinality(between \cap Values(f, a, m))
    <3> HIDE DEF between
    <3> QED
      BY <2>1, FS_Difference DEF between
  <2> QED
    BY <2>1, <2>3, <2>4, <2>5
<1>7. Nth(zeros, k) = z
  <2>1. Cardinality({e \in zeros : e < z}) = k
    BY <1>5, <1>6
  <2> HIDE DEF zeros
  <2> QED
    BY <1>3, <1>4, <2>1, NthIs
<1>8. Ahead(ones, reader) = Values(f, a, N)
  BY DEF Before
<1>9. SkipZeros(ones, reader, k) =
        [at |-> Nth((reader.at..last) \ Ahead(ones, reader), k), consumed |-> TRUE]
  BY DEF SkipZeros
<1> QED
  BY <1>7, <1>8, <1>9 DEF HasRead

-----------------------------------------------------------------------------
(* The ones before a one, and the greatest of the first ones.              *)
LEMMA OnesBefore ==
  ASSUME NEW N \in Nat, NEW f, Rising(f, N), NEW p \in 0..N - 1
  PROVE  {b \in Values(f, 0, N) : b < f[p]} = Values(f, 0, p)
<1>1. \A i \in 0..N - 1 : f[i] < f[p] <=> i < p
  <2> SUFFICES ASSUME NEW i \in 0..N - 1 PROVE f[i] < f[p] <=> i < p
    OBVIOUS
  <2>1. /\ f[i] \in Nat /\ f[p] \in Nat
        /\ i < p => f[i] < f[p]
        /\ p < i => f[p] < f[i]
    BY DEF Rising
  <2> QED
    BY <2>1
<1>2. \A i \in 0..p - 1 : i \in 0..N - 1 /\ i < p
  OBVIOUS
<1>3. \A i \in 0..N - 1 : i < p => i \in 0..p - 1
  OBVIOUS
<1> QED
  BY <1>1, <1>2, <1>3 DEF Values

LEMMA LastOne ==
  ASSUME NEW N \in Nat, NEW f, Rising(f, N), NEW p \in 1..N
  PROVE  Max(Values(f, 0, p)) = f[p - 1]
<1> DEFINE S == Values(f, 0, p)
<1>1. p - 1 \in 0..p - 1 /\ p - 1 \in 0..N - 1
  OBVIOUS
<1>2. \A i \in 0..p - 1 : f[i] \in Nat /\ f[i] <= f[p - 1]
  <2> SUFFICES ASSUME NEW i \in 0..p - 1 PROVE f[i] \in Nat /\ f[i] <= f[p - 1]
    OBVIOUS
  <2>1. i \in 0..N - 1 /\ f[i] \in Nat /\ f[p - 1] \in Nat /\ (i < p - 1 => f[i] < f[p - 1])
    BY <1>1 DEF Rising
  <2> QED
    BY <2>1
<1>3. f[p - 1] \in S /\ f[p - 1] \in Nat /\ \A y \in S : y \in 0..f[p - 1]
  BY <1>1, <1>2 DEF Values
<1> HIDE DEF S
<1>4. Max(S) \in S /\ \A y \in S : y <= Max(S)
  <2>1. S \subseteq 0..f[p - 1] /\ S # {}
    BY <1>3
  <2> QED
    BY <1>3, <2>1, MaxOfNaturals
<1>5. Max(S) \in 0..f[p - 1] /\ f[p - 1] <= Max(S)
  BY <1>3, <1>4
<1>6. Max(S) = f[p - 1]
  BY <1>3, <1>5
<1> QED
  BY <1>6 DEF S

-----------------------------------------------------------------------------
\* only each S-th one has its position sampled, the first at 0
Sampled(f, p, S) == IF p \div S = 0 THEN 0 ELSE f[(p \div S) * S]

(* The samples that are taken are those of indices below N.                *)
LEMMA SampleInside ==
  ASSUME NEW N \in Nat, NEW S \in Nat \ {0}, NEW p \in 0..N - 1, p \div S # 0
  PROVE  (p \div S) * S < N /\ p \div S \in 1..N \div S
<1> DEFINE k == p \div S
           top == N \div S
           a == k * S
           rest == p % S
<1>1. p \in Nat /\ p < N /\ p <= N
  OBVIOUS
<1>2. k \in Nat /\ rest \in 0..S - 1 /\ p = a + rest
  BY <1>1, DivisionOfNaturals
<1>3. top \in Nat
  BY DivisionOfNaturals
<1>4. k <= top
  BY <1>1, QuotientGrows
<1>5. a \in Nat
  <2> HIDE DEF k
  <2> QED
    BY <1>2, Z3
<1>6. k # 0
  OBVIOUS
<1> HIDE DEF k, top, a, rest
<1>7. a < N /\ k \in 1..top
  BY <1>1, <1>2, <1>3, <1>4, <1>5, <1>6
<1> QED
  BY <1>7 DEF a, k, top

(* The sample of a position is not behind it.                              *)
LEMMA SampledOne ==
  ASSUME NEW N \in Nat, NEW f, Rising(f, N), NEW S \in Nat \ {0}, NEW p \in 0..N - 1
  PROVE  /\ (p \div S) * S \in 0..p
         /\ p % S = p - (p \div S) * S
         /\ Before(f, N, ReaderAt(Sampled(f, p, S)), (p \div S) * S)
<1> DEFINE k == p \div S
           a == k * S
           bit == Sampled(f, p, S)
<1>1. k \in Nat /\ p % S \in Nat /\ p = a + (p % S)
  <2>1. p \in Nat
    OBVIOUS
  <2>2. k \in Nat /\ p % S \in 0..S - 1 /\ p = a + (p % S)
    BY <2>1, DivisionOfNaturals
  <2> DEFINE rest == p % S
  <2> HIDE DEF k, a, rest
  <2>3. rest \in 0..S - 1 => rest \in Nat
    OBVIOUS
  <2> QED
    BY <2>2, <2>3 DEF rest
<1>2. a \in Nat /\ (k = 0 => a = 0)
  <2> HIDE DEF k
  <2> QED
    BY <1>1, Z3
<1>3. a \in 0..p /\ p % S = p - a /\ a \in 0..N /\ a \in 0..N - 1
  <2> HIDE DEF a, k
  <2> QED
    BY <1>1, <1>2
<1>4. bit = IF k = 0 THEN 0 ELSE f[a]
  BY DEF Sampled
<1>5. \A i \in 0..N - 1 : f[i] \in Nat
  BY DEF Rising
<1>6. bit \in Int
  BY <1>3, <1>4, <1>5
<1>7. ASSUME NEW i \in 0..N - 1 PROVE f[i] >= bit <=> i >= a
  <2>1. f[i] \in Nat
    BY <1>5
  <2>2. CASE k = 0
    <3>1. a = 0 /\ bit = 0
      BY <1>2, <1>4, <2>2
    <3> HIDE DEF a, bit
    <3> QED
      BY <2>1, <3>1
  <2>3. CASE k # 0
    <3>1. bit = f[a] /\ f[a] \in Nat
      BY <1>3, <1>4, <1>5, <2>3
    <3>2. (i < a => f[i] < f[a]) /\ (a < i => f[a] < f[i])
      BY <1>3 DEF Rising
    <3> HIDE DEF a, bit
    <3> QED
      BY <1>3, <2>1, <3>1, <3>2
  <2> QED
    BY <2>2, <2>3
<1>8. Before(f, N, ReaderAt(bit), a)
  <2> HIDE DEF a, bit
  <2> QED
    BY <1>3, <1>6, <1>7, OpenedAtABit
<1> QED
  BY <1>3, <1>8

(* The ways to read the one of index p: by the next call, from a one before *)
(* it, and from its sample.                                                *)
LEMMA OneReached ==
  ASSUME NEW N \in Nat, NEW f, Rising(f, N), NEW p \in 0..N - 1
  PROVE  /\ \A reader : Before(f, N, reader, p) =>
              NextOne(Values(f, 0, N), reader, 1) = HasRead(f[p])
         /\ \A q \in 0..p - 1 :
              /\ NextOne(Values(f, 0, N), HasRead(f[q]), p - q) = HasRead(f[p])
              /\ Before(f, N, SkipOnes(Values(f, 0, N), HasRead(f[q]), p - q - 1), p)
         /\ \A S \in Nat \ {0} :
              Before(f, N, SkipOnes(Values(f, 0, N), ReaderAt(Sampled(f, p, S)), p % S), p)
<1>1. ASSUME NEW reader, Before(f, N, reader, p)
      PROVE  NextOne(Values(f, 0, N), reader, 1) = HasRead(f[p])
  <2>1. 1 \in 1..N - p /\ p + 1 - 1 = p
    OBVIOUS
  <2> QED
    BY <1>1, <2>1, NextOneReads
<1>2. ASSUME NEW q \in 0..p - 1
      PROVE  /\ NextOne(Values(f, 0, N), HasRead(f[q]), p - q) = HasRead(f[p])
             /\ Before(f, N, SkipOnes(Values(f, 0, N), HasRead(f[q]), p - q - 1), p)
  <2> DEFINE a == q + 1  k == p - q  l == p - q - 1
  <2>1. q \in 0..N - 1 /\ a \in 0..N /\ k \in 1..N - a /\ a + k - 1 = p
        /\ l \in 0..N - a - 1 /\ a + l = p
    OBVIOUS
  <2>2. Before(f, N, HasRead(f[q]), a)
    BY <2>1, BehindAOne
  <2> HIDE DEF a, k, l
  <2>3. NextOne(Values(f, 0, N), HasRead(f[q]), k) = HasRead(f[a + k - 1])
    BY <2>1, <2>2, NextOneReads
  <2>4. Before(f, N, SkipOnes(Values(f, 0, N), HasRead(f[q]), l), a + l)
    BY <2>1, <2>2, SkipOnesSkips
  <2> QED
    BY <2>1, <2>3, <2>4 DEF k, l
<1>3. ASSUME NEW S \in Nat \ {0}
      PROVE  Before(f, N, SkipOnes(Values(f, 0, N), ReaderAt(Sampled(f, p, S)), p % S), p)
  <2> DEFINE a == (p \div S) * S  reader == ReaderAt(Sampled(f, p, S))
  <2>1. a \in 0..p /\ p % S = p - a /\ Before(f, N, reader, a)
    BY SampledOne
  <2> HIDE DEF a, reader
  <2>2. a \in 0..N /\ p - a \in 0..N - a - 1 /\ a + (p - a) = p
    BY <2>1
  <2>3. Before(f, N, SkipOnes(Values(f, 0, N), reader, p - a), a + (p - a))
    BY <2>1, <2>2, SkipOnesSkips
  <2> QED
    BY <2>1, <2>2, <2>3 DEF reader
<1> QED
  BY <1>1, <1>2, <1>3

-----------------------------------------------------------------------------
(* The sequences and their encodings.                                      *)

\* the sequences Elias-Fano accepts, and what their higher bits are divided by
Unit(seq, u) == 2 ^ Encoding!EF!LowerBits(u, Len(seq))

SortedBelow(seq, u) ==
  /\ seq \in Seq(Nat) /\ seq # <<>> /\ u \in Nat /\ seq[Len(seq)] < u
  /\ \A j, k \in DOMAIN seq : j < k => seq[j] <= seq[k]
  /\ Unit(seq, u) \in Nat \ {0}

ValueAt(seq, u, p) == IF p < Len(seq) THEN seq[p + 1] ELSE u

\* the position a search of the sequence finds
Below(seq, bound) == Cardinality({k \in DOMAIN seq : seq[k] < bound})

\* a cursor has the value of its position
Cursor(cursor, seq, u) ==
  /\ cursor.position \in 0..Len(seq)
  /\ cursor.value = ValueAt(seq, u, cursor.position)

\* the positions of the ones of the higher bits
High(seq, u) == [i \in 0..Len(seq) - 1 |-> (seq[i + 1] \div Unit(seq, u)) + i + 1]

\* before the end the reader has just read the one of the position
InStep(cursor, seq, u, f) ==
  /\ Cursor(cursor, seq, u)
  /\ cursor.position < Len(seq) => cursor.reader = HasRead(f[cursor.position])

\* The zero of index base is at the reader, behind the a elements with less
\* higher bits than base; m elements have less than high.
ReaderAtZero(seq, u, reader, base, a, high, m) ==
  /\ high \in Nat /\ base \in 0..high /\ m \in 0..Len(seq) /\ a \in 0..m
  /\ Before(High(seq, u), Len(seq), reader, a) /\ reader.at = base + a
  /\ \A i \in 0..Len(seq) - 1 :
       /\ seq[i + 1] \div Unit(seq, u) < high <=> i < m
       /\ i >= a => seq[i + 1] \div Unit(seq, u) >= base

-----------------------------------------------------------------------------
(* A sorted sequence lies below its universe.                              *)
LEMMA SortedValues ==
  ASSUME NEW seq, NEW u, SortedBelow(seq, u)
  PROVE  /\ Len(seq) \in Nat \ {0} /\ DOMAIN seq = 1..Len(seq)
         /\ \A k \in 1..Len(seq) : seq[k] \in Nat /\ seq[k] < u
         /\ \A j, k \in 1..Len(seq) : j <= k => seq[j] <= seq[k]
<1>1. Len(seq) \in Nat \ {0} /\ DOMAIN seq = 1..Len(seq) /\ \A k \in 1..Len(seq) : seq[k] \in Nat
  BY DEF SortedBelow
<1>2. \A j, k \in 1..Len(seq) : j <= k => seq[j] <= seq[k]
  <2> SUFFICES ASSUME NEW j \in 1..Len(seq), NEW k \in 1..Len(seq), j <= k PROVE seq[j] <= seq[k]
    OBVIOUS
  <2>1. CASE j = k
    BY <1>1, <2>1
  <2>2. CASE j < k
    BY <1>1, <2>2 DEF SortedBelow
  <2> QED
    BY <1>1, <2>1, <2>2
<1>3. \A k \in 1..Len(seq) : seq[k] < u
  <2> SUFFICES ASSUME NEW k \in 1..Len(seq) PROVE seq[k] < u
    OBVIOUS
  <2>1. /\ Len(seq) \in 1..Len(seq) /\ k <= Len(seq) /\ seq[k] \in Nat /\ seq[Len(seq)] \in Nat
        /\ u \in Nat /\ seq[Len(seq)] < u
    BY <1>1 DEF SortedBelow
  <2>2. seq[k] <= seq[Len(seq)]
    BY <1>2, <2>1
  <2> QED
    BY <2>1, <2>2
<1> QED
  BY <1>1, <1>2, <1>3

(* The elements below a bound are those before the position searched for.  *)
LEMMA BelowSplits ==
  ASSUME NEW seq, NEW u, SortedBelow(seq, u), NEW bound \in Int
  PROVE  /\ Below(seq, bound) \in 0..Len(seq)
         /\ \A i \in 0..Len(seq) - 1 : seq[i + 1] < bound <=> i < Below(seq, bound)
<1> DEFINE n0 == Len(seq)
           g == [i \in 0..n0 - 1 |-> seq[i + 1]]
<1>1. n0 \in Nat /\ DOMAIN seq = 1..n0
  BY SortedValues
<1>2. \A i \in 0..n0 - 1 : i + 1 \in 1..n0 /\ g[i] = seq[i + 1]
  BY <1>1
<1>3. \A i \in 0..n0 - 1 : g[i] \in Int
  <2>1. \A k \in 1..n0 : seq[k] \in Int
    BY SortedValues
  <2> QED
    BY <1>2, <2>1
<1>4. \A i, j \in 0..n0 - 1 : i < j => g[i] <= g[j]
  <2> SUFFICES ASSUME NEW i \in 0..n0 - 1, NEW j \in 0..n0 - 1, i < j PROVE g[i] <= g[j]
    OBVIOUS
  <2>1. seq[i + 1] <= seq[j + 1]
    <3>1. i + 1 \in 1..n0 /\ j + 1 \in 1..n0 /\ i + 1 <= j + 1
      BY <1>1, <1>2
    <3> QED
      BY <3>1, SortedValues
  <2> QED
    BY <1>2, <2>1
<1>5. PICK m \in 0..n0 : \A i \in 0..n0 - 1 : g[i] < bound <=> i < m
  <2> HIDE DEF g, n0
  <2> QED
    BY <1>1, <1>3, <1>4, SplitAtBound
<1>6. \A k \in 1..n0 : seq[k] < bound <=> k <= m
  <2> SUFFICES ASSUME NEW k \in 1..n0 PROVE seq[k] < bound <=> k <= m
    OBVIOUS
  <2>1. k - 1 \in 0..n0 - 1 /\ (k - 1) + 1 = k /\ (k - 1 < m <=> k <= m)
    BY <1>1
  <2>2. g[k - 1] = seq[k]
    BY <1>2, <2>1
  <2> QED
    BY <1>5, <2>1, <2>2
<1> HIDE DEF n0, g
<1>7. {k \in DOMAIN seq : seq[k] < bound} = 1..m
  BY <1>1, <1>5, <1>6
<1>8. Cardinality(1..m) = m
  <2>1. 1 \in Int /\ m \in Int /\ m \in Nat
    BY <1>1
  <2>2. Cardinality(1..m) = IF 1 > m THEN 0 ELSE m - 1 + 1
    BY <2>1, FS_Interval
  <2> QED
    BY <2>1, <2>2
<1>9. Below(seq, bound) = m
  BY <1>7, <1>8 DEF Below
<1> QED
  BY <1>2, <1>5, <1>9 DEF n0

(* The library's readers are the same under the names of either encoding.  *)
LEMMA ReadersOfEliasFano ==
  /\ \A bit : Encoding!EF!ReaderAt(bit) = ReaderAt(bit)
  /\ \A ones, reader, k : Encoding!EF!NextOne(ones, reader, k) = NextOne(ones, reader, k)
  /\ \A ones, reader, k : Encoding!EF!SkipOnes(ones, reader, k) = SkipOnes(ones, reader, k)
  /\ \A ones, reader, k : Encoding!EF!SkipZeros(ones, reader, k) = SkipZeros(ones, reader, k)
  /\ \A S : Encoding!EF!Min(S) = Min(S)
  /\ \A S : Encoding!EF!Max(S) = Max(S)
<1>2. \A S : Encoding!EF!Min(S) = Min(S) /\ Encoding!EF!Max(S) = Max(S)
  BY DEF Encoding!EF!Min, Encoding!EF!Max, Min, Max
<1>3. \A bit : Encoding!EF!ReaderAt(bit) = ReaderAt(bit)
  BY DEF Encoding!EF!ReaderAt, ReaderAt
<1>4. \A ones, reader : Encoding!EF!Ahead(ones, reader) = Ahead(ones, reader)
  BY DEF Encoding!EF!Ahead, Ahead
<1>5. \A S, k : Encoding!EF!Nth(S, k) = Nth(S, k)
  BY DEF Encoding!EF!Nth, Nth, Encoding!EF!Max, Max, Encoding!EF!Cardinality, Cardinality
<1>6. \A ones, reader, k : Encoding!EF!NextOne(ones, reader, k) = NextOne(ones, reader, k)
  BY <1>4, <1>5 DEF Encoding!EF!NextOne, NextOne
<1>7. \A ones, reader, k : Encoding!EF!SkipOnes(ones, reader, k) = SkipOnes(ones, reader, k)
  BY <1>3, <1>4, <1>5 DEF Encoding!EF!SkipOnes, SkipOnes
<1>8. \A ones, reader, k : Encoding!EF!SkipZeros(ones, reader, k) = SkipZeros(ones, reader, k)
  BY <1>2, <1>4, <1>5 DEF Encoding!EF!SkipZeros, SkipZeros
<1> QED
  BY <1>2, <1>3, <1>6, <1>7, <1>8

-----------------------------------------------------------------------------
(* What the Elias-Fano encoding of a sequence consists of.                 *)
LEMMA EfWritten ==
  ASSUME NEW seq, NEW u, SortedBelow(seq, u), NEW w, w = Encoding!EF!Written(seq, u)
  PROVE  /\ w.size = Len(seq) /\ w.universe = u
         /\ w.lowerBits = Encoding!EF!LowerBits(u, Len(seq))
         /\ w.ones = Values(High(seq, u), 0, Len(seq))
         /\ \A i \in 0..Len(seq) - 1 : w.low[i] = seq[i + 1] % Unit(seq, u)
         /\ \A k \in 1..Encoding!EF!Pointers1(Len(seq)) :
              k * 2 ^ EfLogSampling1 < Len(seq) =>
                w.pointers1[k] = High(seq, u)[k * 2 ^ EfLogSampling1]
         /\ \A k \in 1..Encoding!EF!Pointers0(u, Len(seq)) :
              w.pointers0[k] =
                Encoding!EF!Pointer0(High(seq, u), Len(seq),
                                     Encoding!EF!HigherBitsLength(u, Len(seq)), k * 2 ^ EfLogSampling0)
<1> DEFINE high == [i \in 0..Len(seq) - 1 |->
                      Encoding!EF!Shifted(seq[i + 1], Encoding!EF!LowerBits(u, Len(seq))) + i + 1]
<1>1. high = High(seq, u)
  BY DEF High, Unit, Encoding!EF!Shifted
<1>2. /\ w.size = Len(seq) /\ w.universe = u
      /\ w.lowerBits = Encoding!EF!LowerBits(u, Len(seq))
      /\ w.ones = {high[i] : i \in 0..Len(seq) - 1}
      /\ w.low = [i \in 0..Len(seq) - 1 |-> seq[i + 1] % Unit(seq, u)]
      /\ w.pointers0 = [k \in 1..Encoding!EF!Pointers0(u, Len(seq)) |->
                           Encoding!EF!Pointer0(high, Len(seq),
                             Encoding!EF!HigherBitsLength(u, Len(seq)), k * 2 ^ EfLogSampling0)]
      /\ w.pointers1 = [k \in 1..Encoding!EF!Pointers1(Len(seq)) |->
                           IF k * 2 ^ EfLogSampling1 < Len(seq)
                           THEN high[k * 2 ^ EfLogSampling1] ELSE 0]
  BY DEF Encoding!EF!Written, Unit
<1> HIDE DEF high
<1> QED
  BY <1>1, <1>2 DEF Values

(* The ones of the higher bits rise, and each gives its element back.      *)
LEMMA HighRises ==
  ASSUME NEW seq, NEW u, SortedBelow(seq, u)
  PROVE  /\ Rising(High(seq, u), Len(seq))
         /\ \A i \in 0..Len(seq) - 1 :
              /\ High(seq, u)[i] = (seq[i + 1] \div Unit(seq, u)) + i + 1
              /\ seq[i + 1] \div Unit(seq, u) \in Nat
         /\ \A i, j \in 0..Len(seq) - 1 :
              i <= j => seq[i + 1] \div Unit(seq, u) <= seq[j + 1] \div Unit(seq, u)
<1>1. Len(seq) \in Nat /\ \A i \in 0..Len(seq) - 1 : i + 1 \in 1..Len(seq) /\ seq[i + 1] \in Nat
  BY SortedValues
<1>2. Unit(seq, u) \in Nat \ {0}
  BY DEF SortedBelow
<1>3. \A i \in 0..Len(seq) - 1 : seq[i + 1] \div Unit(seq, u) \in Nat
  BY <1>1, <1>2, DivisionOfNaturals
<1>4. \A i, j \in 0..Len(seq) - 1 :
        i <= j => seq[i + 1] \div Unit(seq, u) <= seq[j + 1] \div Unit(seq, u)
  <2> SUFFICES ASSUME NEW i \in 0..Len(seq) - 1, NEW j \in 0..Len(seq) - 1, i <= j
               PROVE  seq[i + 1] \div Unit(seq, u) <= seq[j + 1] \div Unit(seq, u)
    OBVIOUS
  <2>1. seq[i + 1] <= seq[j + 1]
    <3>1. i + 1 \in 1..Len(seq) /\ j + 1 \in 1..Len(seq) /\ i + 1 <= j + 1
      BY <1>1
    <3> QED
      BY <3>1, SortedValues
  <2> QED
    BY <1>1, <1>2, <2>1, QuotientGrows
<1>5. \A i \in 0..Len(seq) - 1 : High(seq, u)[i] = (seq[i + 1] \div Unit(seq, u)) + i + 1
  BY DEF High
<1>6. High(seq, u) \in [0..Len(seq) - 1 -> Nat]
  <2>1. \A i \in 0..Len(seq) - 1 : (seq[i + 1] \div Unit(seq, u)) + i + 1 \in Nat
    BY <1>1, <1>3
  <2> QED
    BY <2>1 DEF High
<1>7. \A i, j \in 0..Len(seq) - 1 : i < j => High(seq, u)[i] < High(seq, u)[j]
  <2> SUFFICES ASSUME NEW i \in 0..Len(seq) - 1, NEW j \in 0..Len(seq) - 1, i < j
               PROVE  High(seq, u)[i] < High(seq, u)[j]
    OBVIOUS
  <2> DEFINE q(l) == seq[l + 1] \div Unit(seq, u)
  <2>1. q(i) \in Nat /\ q(j) \in Nat /\ q(i) <= q(j)
    BY <1>1, <1>3, <1>4
  <2>2. High(seq, u)[i] = q(i) + i + 1 /\ High(seq, u)[j] = q(j) + j + 1
    BY <1>5
  <2> HIDE DEF q
  <2> QED
    BY <1>1, <2>1, <2>2
<1> QED
  BY <1>3, <1>4, <1>5, <1>6, <1>7 DEF Rising

LEMMA HighDecodes ==
  ASSUME NEW seq, NEW u, SortedBelow(seq, u), NEW w, w = Encoding!EF!Written(seq, u),
         NEW i \in 0..Len(seq) - 1
  PROVE  Encoding!EF!Decode(w, i, High(seq, u)[i]) = seq[i + 1]
<1> DEFINE q == seq[i + 1] \div Unit(seq, u)  r == seq[i + 1] % Unit(seq, u)
<1>1. i \in Nat /\ seq[i + 1] \in Nat /\ Unit(seq, u) \in Nat \ {0}
  <2>1. i \in Nat /\ i + 1 \in 1..Len(seq)
    BY SortedValues
  <2> QED
    BY <2>1, SortedValues DEF SortedBelow
<1>2. q \in Nat /\ seq[i + 1] = q * Unit(seq, u) + r
  BY <1>1, DivisionOfNaturals
<1>3. High(seq, u)[i] = q + i + 1
  BY DEF High
<1>4. Encoding!EF!Decode(w, i, High(seq, u)[i]) = (High(seq, u)[i] - i - 1) * Unit(seq, u) + r
  BY EfWritten DEF Encoding!EF!Decode, Unit
<1> HIDE DEF q, r
<1>5. High(seq, u)[i] - i - 1 = q
  BY <1>1, <1>2, <1>3
<1> QED
  BY <1>2, <1>4, <1>5

(* A cursor, given by its fields.                                          *)
LEMMA InStepOf ==
  ASSUME NEW seq, NEW u, NEW f, NEW p \in 0..Len(seq), NEW reader,
         p < Len(seq) => reader = HasRead(f[p])
  PROVE  InStep([position |-> p, value |-> ValueAt(seq, u, p), reader |-> reader], seq, u, f)
<1> DEFINE v == ValueAt(seq, u, p)
           c0 == [position |-> p, value |-> v, reader |-> reader]
<1>1. c0.position = p /\ c0.value = v /\ c0.reader = reader
  OBVIOUS
<1>2. v = ValueAt(seq, u, p)
  OBVIOUS
<1>3. InStep(c0, seq, u, f)
  <2> HIDE DEF c0, v
  <2> QED
    BY <1>1, <1>2 DEF InStep, Cursor
<1> QED
  BY <1>3

LEMMA EfInStepOf ==
  ASSUME NEW seq, NEW u, NEW p \in 0..Len(seq), NEW reader,
         p < Len(seq) => reader = HasRead(High(seq, u)[p])
  PROVE  InStep([position |-> p, value |-> ValueAt(seq, u, p), reader |-> reader], seq, u, High(seq, u))
<1> DEFINE f == High(seq, u)
<1>1. p < Len(seq) => reader = HasRead(f[p])
  OBVIOUS
<1> HIDE DEF f
<1>2. InStep([position |-> p, value |-> ValueAt(seq, u, p), reader |-> reader], seq, u, f)
  BY <1>1, InStepOf
<1> QED
  BY <1>2 DEF f

(* A cursor made from a reader that has just read the one of a position.   *)
LEMMA EfAtPosition ==
  ASSUME NEW seq, NEW u, SortedBelow(seq, u), NEW w, w = Encoding!EF!Written(seq, u),
         NEW p \in 0..Len(seq) - 1, NEW reader,
         reader = HasRead(High(seq, u)[p])
  PROVE  /\ InStep(Encoding!EF!At(w, p, reader), seq, u, High(seq, u))
         /\ Encoding!EF!At(w, p, reader).position = p
<1>1. p \in 0..Len(seq) /\ p < Len(seq)
  BY SortedValues
<1>2. Encoding!EF!Decode(w, p, reader.at) = seq[p + 1]
  BY HighDecodes DEF HasRead
<1>3. Encoding!EF!At(w, p, reader) = [position |-> p, value |-> ValueAt(seq, u, p), reader |-> reader]
  BY <1>1, <1>2 DEF Encoding!EF!At, ValueAt
<1> QED
  BY <1>1, <1>3, EfInStepOf

LEMMA EfAtEnd ==
  ASSUME NEW seq, NEW u, SortedBelow(seq, u), NEW w, w = Encoding!EF!Written(seq, u), NEW c0
  PROVE  /\ InStep(Encoding!EF!AtEnd(w, c0), seq, u, High(seq, u))
         /\ Encoding!EF!AtEnd(w, c0).position = Len(seq)
<1>1. Len(seq) \in 0..Len(seq) /\ ~(Len(seq) < Len(seq))
  BY SortedValues
<1>2. Encoding!EF!AtEnd(w, c0) =
        [position |-> Len(seq), value |-> ValueAt(seq, u, Len(seq)), reader |-> c0.reader]
  <2>1. w.size = Len(seq) /\ w.universe = ValueAt(seq, u, Len(seq))
    BY <1>1, EfWritten DEF ValueAt
  <2> QED
    BY <2>1 DEF Encoding!EF!AtEnd
<1> QED
  BY <1>1, <1>2, EfInStepOf

(* The reader of a cursor before the end.                                  *)
LEMMA EfReader ==
  ASSUME NEW seq, NEW u, SortedBelow(seq, u), NEW c0, InStep(c0, seq, u, High(seq, u)), c0.position < Len(seq)
  PROVE  /\ Before(High(seq, u), Len(seq), c0.reader, c0.position + 1)
         /\ c0.position + 1 \in 0..Len(seq)
<1>1. Len(seq) \in Nat /\ c0.position \in 0..Len(seq) - 1
  BY SortedValues DEF InStep, Cursor
<1>2. c0.reader = HasRead(High(seq, u)[c0.position])
  BY DEF InStep
<1> QED
  BY <1>1, <1>2, HighRises, BehindAOne

(* The samples of the ones.                                                *)
LEMMA EfSampledOne ==
  ASSUME NEW seq, NEW u, SortedBelow(seq, u), NEW w, w = Encoding!EF!Written(seq, u),
         2 ^ EfLogSampling1 \in Nat \ {0}, NEW p \in 0..Len(seq) - 1
  PROVE  Encoding!EF!Pointer(w.pointers1, p \div 2 ^ EfLogSampling1) =
           Sampled(High(seq, u), p, 2 ^ EfLogSampling1)
<1> DEFINE S == 2 ^ EfLogSampling1
           k == p \div S
<1>1. CASE k = 0
  BY <1>1 DEF Encoding!EF!Pointer, Sampled
<1>2. CASE k # 0
  <2>1. k * S < Len(seq) /\ k \in 1..Len(seq) \div S
    <3>1. Len(seq) \in Nat /\ S \in Nat \ {0} /\ p \div S # 0
      BY <1>2, SortedValues
    <3> HIDE DEF S
    <3> QED
      BY <3>1, SampleInside
  <2>2. Encoding!EF!Pointers1(Len(seq)) = Len(seq) \div S
    BY DEF Encoding!EF!Pointers1, Encoding!EF!Shifted
  <2>3. w.pointers1[k] = High(seq, u)[k * S]
    BY <2>1, <2>2, EfWritten
  <2> QED
    BY <1>2, <2>3 DEF Encoding!EF!Pointer, Sampled
<1> QED
  BY <1>1, <1>2

(* move, over the elements, from the reader or from a sample.              *)
LEMMA EfMove ==
  ASSUME NEW seq, NEW u, SortedBelow(seq, u), NEW w, w = Encoding!EF!Written(seq, u),
         2 ^ EfLogSampling1 \in Nat \ {0},
         NEW c0, InStep(c0, seq, u, High(seq, u)), NEW p \in 0..Len(seq)
  PROVE  /\ InStep(Encoding!EF!Move(w, c0, p), seq, u, High(seq, u))
         /\ Encoding!EF!Move(w, c0, p).position = p
<1> DEFINE f == High(seq, u)
           n0 == Len(seq)
           pos == c0.position
<1>1. /\ n0 \in Nat /\ pos \in 0..n0 /\ Rising(f, n0)
      /\ w.size = n0 /\ w.ones = Values(f, 0, n0)
  BY SortedValues, HighRises, EfWritten DEF InStep, Cursor
<1>2. CASE p = pos
  BY <1>2 DEF Encoding!EF!Move
<1>3. CASE p # pos /\ p = n0
  <2>1. Encoding!EF!SmallMove(w, c0, p) = Encoding!EF!AtEnd(w, c0)
    BY <1>1, <1>3 DEF Encoding!EF!SmallMove
  <2>2. Encoding!EF!SlowMove(w, c0, p) = Encoding!EF!AtEnd(w, c0)
    BY <1>1, <1>3 DEF Encoding!EF!SlowMove
  <2>3. Encoding!EF!Move(w, c0, p) = Encoding!EF!AtEnd(w, c0)
    BY <1>3, <2>1, <2>2 DEF Encoding!EF!Move
  <2> QED
    BY <1>3, <2>3, EfAtEnd
<1>4. CASE p # pos /\ p # n0
  <2> DEFINE sample == ReaderAt(Encoding!EF!Pointer(w.pointers1, p \div 2 ^ EfLogSampling1))
             near == p > pos /\ Encoding!EF!Shifted(p - pos, EfLogSampling1) = 0
             from == IF near THEN SkipOnes(w.ones, c0.reader, p - pos - 1)
                     ELSE SkipOnes(w.ones, sample, p % 2 ^ EfLogSampling1)
  <2>1. p \in 0..n0 - 1
    BY <1>1, <1>4
  <2>2. ASSUME p > pos
        PROVE  /\ NextOne(w.ones, c0.reader, p - pos) = HasRead(f[p])
               /\ Before(f, n0, SkipOnes(w.ones, c0.reader, p - pos - 1), p)
    <3>1. pos \in 0..p - 1 /\ c0.reader = HasRead(f[pos])
      BY <1>1, <2>1, <2>2 DEF InStep
    <3> HIDE DEF f, n0, pos
    <3> QED
      BY <1>1, <2>1, <3>1, OneReached
  <2>3. Before(f, n0, from, p)
    <3>1. Before(f, n0, SkipOnes(w.ones, sample, p % 2 ^ EfLogSampling1), p)
      <4>1. sample = ReaderAt(Sampled(f, p, 2 ^ EfLogSampling1))
        BY <2>1, EfSampledOne
      <4> HIDE DEF f, n0, sample
      <4> QED
        BY <1>1, <2>1, <4>1, OneReached
    <3> QED
      BY <2>2, <3>1
  <2>4. NextOne(w.ones, from, 1) = HasRead(f[p])
    <3> HIDE DEF from, f, n0
    <3> QED
      BY <1>1, <2>1, <2>3, OneReached
  <2>5. ASSUME p > pos
        PROVE  Encoding!EF!SmallMove(w, c0, p) = Encoding!EF!At(w, p, HasRead(f[p]))
    BY <1>1, <1>4, <2>2, <2>5, ReadersOfEliasFano DEF Encoding!EF!SmallMove
  <2>6. Encoding!EF!SlowMove(w, c0, p) = Encoding!EF!At(w, p, HasRead(f[p]))
    <3>1. Encoding!EF!SlowMove(w, c0, p) = Encoding!EF!At(w, p, NextOne(w.ones, from, 1))
      BY <1>1, <1>4, ReadersOfEliasFano DEF Encoding!EF!SlowMove, Encoding!EF!Shifted
    <3> QED
      BY <2>4, <3>1
  <2>7. Encoding!EF!Move(w, c0, p) = Encoding!EF!At(w, p, HasRead(f[p]))
    BY <1>4, <2>5, <2>6 DEF Encoding!EF!Move
  <2> QED
    BY <2>1, <2>7, EfAtPosition
<1> QED
  BY <1>2, <1>3, <1>4

(* The loop of next_geq, from an element that is not behind the answer.    *)
LEMMA EfScan ==
  ASSUME NEW seq, NEW u, SortedBelow(seq, u), NEW w, w = Encoding!EF!Written(seq, u),
         NEW from \in 0..Len(seq), NEW reader, Before(High(seq, u), Len(seq), reader, from),
         NEW bound \in Int, from <= Below(seq, bound)
  PROVE  /\ InStep(Encoding!EF!Scan(w, reader, from, bound), seq, u, High(seq, u))
         /\ Encoding!EF!Scan(w, reader, from, bound).position = Below(seq, bound)
<1> DEFINE f == High(seq, u)
           n0 == Len(seq)
           m == Below(seq, bound)
           read(j) == Encoding!EF!Decode(w, j, NextOne(w.ones, reader, j - from + 1).at)
           found == {n0} \cup {j \in from..n0 - 1 : read(j) >= bound}
           reads == IF m = n0 THEN m - from ELSE m - from + 1
<1>1. /\ n0 \in Nat /\ Rising(f, n0) /\ w.size = n0 /\ w.universe = u /\ w.ones = Values(f, 0, n0)
      /\ m \in 0..n0 /\ \A i \in 0..n0 - 1 : seq[i + 1] < bound <=> i < m
  <2>1. n0 \in Nat /\ Rising(f, n0) /\ w.size = n0 /\ w.universe = u /\ w.ones = Values(f, 0, n0)
    BY SortedValues, HighRises, EfWritten
  <2>2. m \in 0..n0 /\ \A i \in 0..n0 - 1 : seq[i + 1] < bound <=> i < m
    BY BelowSplits
  <2> QED
    BY <2>1, <2>2
<1>2. ASSUME NEW j \in from..n0 - 1
      PROVE  NextOne(w.ones, reader, j - from + 1) = HasRead(f[j])
  <2> DEFINE k == j - from + 1
  <2>1. k \in 1..n0 - from /\ from + k - 1 = j
    BY <1>1
  <2> HIDE DEF f, n0, k
  <2>2. NextOne(Values(f, 0, n0), reader, k) = HasRead(f[from + k - 1])
    BY <1>1, <2>1, NextOneReads DEF f, n0
  <2> QED
    BY <1>1, <2>1, <2>2 DEF k
<1>3. \A j \in from..n0 - 1 : read(j) = seq[j + 1]
  <2> SUFFICES ASSUME NEW j \in from..n0 - 1 PROVE read(j) = seq[j + 1]
    OBVIOUS
  <2>1. j \in 0..n0 - 1
    BY <1>1
  <2>2. NextOne(w.ones, reader, j - from + 1) = HasRead(f[j])
    BY <1>2
  <2>3. HasRead(f[j]).at = f[j]
    BY DEF HasRead
  <2>4. Encoding!EF!Decode(w, j, f[j]) = seq[j + 1]
    BY <2>1, HighDecodes
  <2> HIDE DEF f
  <2> QED
    BY <2>2, <2>3, <2>4
<1>4. \A j \in from..n0 - 1 : read(j) >= bound <=> j >= m
  <2> SUFFICES ASSUME NEW j \in from..n0 - 1 PROVE read(j) >= bound <=> j >= m
    OBVIOUS
  <2>1. j \in 0..n0 - 1 /\ j + 1 \in 1..n0
    BY <1>1
  <2>2. seq[j + 1] \in Nat /\ read(j) = seq[j + 1] /\ (seq[j + 1] < bound <=> j < m)
    BY <1>1, <1>3, <2>1, SortedValues
  <2> HIDE DEF read, m
  <2> QED
    BY <1>1, <2>1, <2>2
<1>5. Min(found) = m
  <2>1. found \subseteq Nat /\ found # {}
    BY <1>1
  <2>2. Min(found) \in found /\ \A y \in found : Min(found) <= y
    <3> HIDE DEF found
    <3> QED
      BY <2>1, MinOfNaturals
  <2>3. m \in found
    <3>1. m = n0 \/ (m \in from..n0 - 1 /\ read(m) >= bound)
      <4>1. m = n0 \/ m \in from..n0 - 1
        BY <1>1
      <4>2. m \in from..n0 - 1 => read(m) >= bound
        <5> HIDE DEF read, m
        <5> QED
          BY <1>1, <1>4
      <4> QED
        BY <4>1, <4>2
    <3> HIDE DEF read, m, n0
    <3> QED
      BY <3>1
  <2>4. \A y \in found : m <= y
    <3> HIDE DEF read, m
    <3> QED
      BY <1>1, <1>4
  <2>5. Min(found) <= m /\ m <= Min(found)
    BY <2>2, <2>3, <2>4
  <2>6. Min(found) \in Nat /\ m \in Nat
    BY <1>1, <2>1, <2>2
  <2> HIDE DEF found, m
  <2> QED
    BY <2>5, <2>6
<1>6. Encoding!EF!Scan(w, reader, from, bound) =
        [position |-> m, value |-> IF m = n0 THEN u ELSE read(m),
         reader |-> NextOne(w.ones, reader, reads)]
  <2>1. Encoding!EF!Scan(w, reader, from, bound) =
          LET stop == Min(found)
              calls == IF stop = n0 THEN stop - from ELSE stop - from + 1
          IN [position |-> stop, value |-> IF stop = n0 THEN u ELSE read(stop),
              reader |-> NextOne(w.ones, reader, calls)]
    BY <1>1, ReadersOfEliasFano DEF Encoding!EF!Scan
  <2> HIDE DEF found, read, m, n0
  <2> QED
    BY <1>5, <2>1
<1>7. (IF m = n0 THEN u ELSE read(m)) = ValueAt(seq, u, m)
  <2>1. m # n0 => m \in from..n0 - 1 /\ m < n0
    BY <1>1
  <2>2. m = n0 => ~(m < n0)
    BY <1>1
  <2> HIDE DEF read, m
  <2> QED
    BY <1>3, <2>1, <2>2 DEF ValueAt
<1>8. m < n0 => NextOne(w.ones, reader, reads) = HasRead(f[m])
  <2> SUFFICES ASSUME m < n0 PROVE NextOne(w.ones, reader, reads) = HasRead(f[m])
    OBVIOUS
  <2>1. m \in from..n0 - 1 /\ reads = m - from + 1
    BY <1>1
  <2> HIDE DEF m, reads, f
  <2> QED
    BY <1>2, <2>1
<1> HIDE DEF m, read, reads
<1> QED
  BY <1>1, <1>6, <1>7, <1>8, EfInStepOf DEF m

(* The k-th sample of the zeros is the zero of that index: as many ones    *)
(* come before it as elements have less higher bits.                       *)
LEMMA EfSampledZero ==
  ASSUME NEW seq, NEW u, SortedBelow(seq, u), NEW w, w = Encoding!EF!Written(seq, u),
         2 ^ EfLogSampling0 \in Nat \ {0}, NEW high \in 0..u \div Unit(seq, u)
  PROVE  LET k    == high \div 2 ^ EfLogSampling0
             zero == k * 2 ^ EfLogSampling0
             bit  == Encoding!EF!Pointer(w.pointers0, k)
         IN /\ zero \in 0..high /\ high % 2 ^ EfLogSampling0 = high - zero
            /\ \E m \in 0..Len(seq) :
                 /\ bit = zero + m
                 /\ \A i \in 0..Len(seq) - 1 : seq[i + 1] \div Unit(seq, u) < zero <=> i < m
                 /\ Before(High(seq, u), Len(seq), ReaderAt(bit), m)
<1> DEFINE S == 2 ^ EfLogSampling0
           k == high \div S
           zero == k * S
           f == High(seq, u)
           n0 == Len(seq)
           g == [i \in 0..n0 - 1 |-> seq[i + 1] \div Unit(seq, u)]
           top == u \div Unit(seq, u)
           bit == Encoding!EF!Pointer(w.pointers0, k)
<1>1. S \in Nat \ {0} /\ n0 \in Nat /\ top \in Nat /\ high \in Nat /\ high <= top
  <2>1. u \in Nat /\ Unit(seq, u) \in Nat \ {0}
    BY DEF SortedBelow
  <2>2. top \in Nat
    BY <2>1, DivisionOfNaturals
  <2> HIDE DEF top
  <2> QED
    BY <2>2, SortedValues DEF top
<1>2. k \in Nat /\ high % S \in Nat /\ high = zero + (high % S)
  <2> HIDE DEF S
  <2>1. k \in Nat /\ high % S \in 0..S - 1 /\ high = zero + (high % S)
    BY <1>1, DivisionOfNaturals
  <2> DEFINE rest == high % S
  <2> HIDE DEF k, zero, rest
  <2>2. rest \in 0..S - 1 => rest \in Nat
    BY <1>1
  <2> QED
    BY <2>1, <2>2 DEF rest
<1>3. zero \in Nat /\ (k = 0 => zero = 0) /\ (k # 0 => zero >= 1)
  <2> HIDE DEF S, k
  <2>1. zero \in Nat /\ (k = 0 => zero = 0)
    BY <1>1, <1>2, Z3
  <2>2. ASSUME k # 0 PROVE zero # 0
    BY <1>1, <1>2, <2>2, Z3
  <2> HIDE DEF zero
  <2> QED
    BY <2>1, <2>2
<1>4. zero \in 0..high /\ high % S = high - zero
  <2> DEFINE rest == high % S
  <2>1. rest \in Nat /\ high = zero + rest
    BY <1>2
  <2> HIDE DEF zero, k, rest
  <2>2. zero \in 0..high /\ rest = high - zero
    BY <1>1, <1>3, <2>1
  <2> QED
    BY <2>2 DEF rest
<1>5. /\ Rising(f, n0)
      /\ \A i \in 0..n0 - 1 : g[i] \in Nat /\ f[i] = g[i] + i + 1
      /\ \A i, j \in 0..n0 - 1 : i < j => g[i] <= g[j]
  <2>1. \A i \in 0..n0 - 1 : g[i] = seq[i + 1] \div Unit(seq, u)
    OBVIOUS
  <2>2. \A i, j \in 0..n0 - 1 : i < j => i <= j
    BY <1>1
  <2>3. \A i \in 0..n0 - 1 : g[i] \in Nat /\ f[i] = g[i] + i + 1
    BY <2>1, HighRises
  <2>4. \A i, j \in 0..n0 - 1 : i < j => g[i] <= g[j]
    <3> SUFFICES ASSUME NEW i \in 0..n0 - 1, NEW j \in 0..n0 - 1, i < j PROVE g[i] <= g[j]
      OBVIOUS
    <3>1. seq[i + 1] \div Unit(seq, u) <= seq[j + 1] \div Unit(seq, u)
      BY <2>2, HighRises
    <3> QED
      BY <2>1, <3>1
  <2>5. Rising(f, n0)
    BY HighRises
  <2> QED
    BY <2>3, <2>4, <2>5
<1> HIDE DEF g, f, zero, k, bit
<1>6. PICK m \in 0..n0 : \A i \in 0..n0 - 1 : g[i] < zero <=> i < m
  <2>1. \A i \in 0..n0 - 1 : g[i] \in Int
    BY <1>5
  <2>2. zero \in Int
    BY <1>3
  <2> HIDE DEF n0
  <2> QED
    BY <1>1, <1>5, <2>1, <2>2, SplitAtBound
<1>7. bit = zero + m
  <2>1. CASE k = 0
    <3>1. zero = 0 /\ bit = 0
      BY <1>3, <2>1 DEF bit, Encoding!EF!Pointer
    <3>2. m = 0
      <4> SUFFICES ASSUME m # 0 PROVE FALSE
        OBVIOUS
      <4>1. 0 \in 0..n0 - 1 /\ 0 < m
        BY <1>1, <1>6
      <4> QED
        BY <1>5, <1>6, <3>1, <4>1
    <3> QED
      BY <3>1, <3>2
  <2>2. CASE k # 0
    <3> DEFINE length == Encoding!EF!HigherBitsLength(u, n0)
               begins(i) == (IF i = 0 THEN 0 ELSE f[i - 1]) + 1
               ends(i) == IF i = n0 THEN length ELSE f[i]
               runs == {i \in 0..n0 : begins(i) - i <= zero /\ zero < ends(i) - i}
    <3>1. length = n0 + top + 2
      BY DEF Encoding!EF!HigherBitsLength, Encoding!EF!Shifted, Unit
    <3>2. Encoding!EF!Pointers0(u, n0) = (length - n0) \div S
      BY DEF Encoding!EF!Pointers0, Encoding!EF!Shifted
    <3> HIDE DEF length
    <3>3. length - n0 \in Nat /\ high <= length - n0 /\ zero < length - n0
      BY <1>1, <1>4, <3>1
    <3>4. k \in 1..Encoding!EF!Pointers0(u, n0)
      <4> HIDE DEF S
      <4>1. k <= (length - n0) \div S
        BY <1>1, <3>3, QuotientGrows DEF k
      <4>2. (length - n0) \div S \in Nat
        BY <1>1, <3>3, DivisionOfNaturals
      <4> QED
        BY <1>2, <2>2, <3>2, <4>1, <4>2
    <3>5. w.pointers0[k] = Encoding!EF!Pointer0(f, n0, length, zero)
      BY <3>4, EfWritten DEF f, length, zero
    <3>6. bit = Encoding!EF!Pointer0(f, n0, length, zero)
      BY <2>2, <3>5 DEF bit, Encoding!EF!Pointer
    <3>7. Encoding!EF!Pointer0(f, n0, length, zero) = IF runs = {} THEN 0 ELSE zero + Max(runs)
      BY ReadersOfEliasFano DEF Encoding!EF!Pointer0
    <3>8. ASSUME NEW i \in 0..n0
          PROVE  begins(i) - i <= zero /\ zero < ends(i) - i <=> i = m
      <4>1. begins(i) - i <= zero <=> i <= m
        <5>1. CASE i = 0
          BY <1>3, <1>6, <2>2, <5>1
        <5>2. CASE i # 0
          <6>1. i - 1 \in 0..n0 - 1 /\ begins(i) = f[i - 1] + 1
            BY <1>1, <5>2
          <6>2. f[i - 1] = g[i - 1] + (i - 1) + 1 /\ g[i - 1] \in Nat /\ (g[i - 1] < zero <=> i - 1 < m)
            BY <1>5, <1>6, <6>1
          <6> HIDE DEF begins
          <6> QED
            BY <1>1, <1>3, <1>6, <6>1, <6>2
        <5> QED
          BY <5>1, <5>2
      <4>2. zero < ends(i) - i <=> i >= m
        <5>1. CASE i = n0
          BY <1>1, <1>6, <3>3, <5>1
        <5>2. CASE i # n0
          <6>1. i \in 0..n0 - 1 /\ ends(i) = f[i]
            BY <1>1, <5>2
          <6>2. f[i] = g[i] + i + 1 /\ g[i] \in Nat /\ (g[i] < zero <=> i < m)
            BY <1>5, <1>6, <6>1
          <6> HIDE DEF ends
          <6> QED
            BY <1>1, <1>3, <1>6, <6>1, <6>2
        <5> QED
          BY <5>1, <5>2
      <4> HIDE DEF begins, ends
      <4> QED
        BY <1>1, <1>6, <4>1, <4>2
    <3>9. runs = {m}
      <4> HIDE DEF begins, ends
      <4> QED
        BY <1>6, <3>8
    <3>10. Max({m}) = m
      <4>1. m \in Nat /\ {m} \subseteq 0..m /\ {m} # {}
        BY <1>1, <1>6
      <4>2. Max({m}) \in {m}
        BY <4>1, MaxOfNaturals
      <4> QED
        BY <4>2
    <3> HIDE DEF runs
    <3> QED
      BY <3>6, <3>7, <3>9, <3>10
  <2> QED
    BY <2>1, <2>2
<1>8. Before(f, n0, ReaderAt(bit), m)
  <2>1. ASSUME NEW i \in 0..n0 - 1 PROVE f[i] >= bit <=> i >= m
    <3>1. f[i] = g[i] + i + 1 /\ g[i] \in Nat /\ (g[i] < zero <=> i < m)
      BY <1>5, <1>6
    <3> QED
      BY <1>1, <1>3, <1>6, <1>7, <3>1
  <2>2. bit \in Int
    BY <1>3, <1>6, <1>7
  <2> QED
    BY <1>1, <1>5, <1>6, <2>1, <2>2, OpenedAtABit
<1>9. \A i \in 0..n0 - 1 : seq[i + 1] \div Unit(seq, u) < zero <=> i < m
  BY <1>6 DEF g
<1> QED
  BY <1>4, <1>6, <1>7, <1>8, <1>9 DEF zero, k, bit, f

(* From a bit that comes after base zeros and a ones, as many zeros more   *)
(* as a bound has higher bits end behind the elements with less.           *)
LEMMA EfSkipZeros ==
  ASSUME NEW seq, NEW u, SortedBelow(seq, u), NEW reader, NEW base, NEW a, NEW high, NEW m,
         ReaderAtZero(seq, u, reader, base, a, high, m)
  PROVE  /\ SkipZeros(Values(High(seq, u), 0, Len(seq)), reader, high - base) = HasRead(high + m)
         /\ Before(High(seq, u), Len(seq), HasRead(high + m), m)
<1> DEFINE f == High(seq, u)
           n0 == Len(seq)
           q(i) == seq[i + 1] \div Unit(seq, u)
           z == high + m
           k == high - base
<1>0. /\ high \in Nat /\ base \in 0..high /\ m \in 0..n0 /\ a \in 0..m
      /\ Before(f, n0, reader, a) /\ reader.at = base + a
      /\ \A i \in 0..n0 - 1 : (q(i) < high <=> i < m) /\ (i >= a => q(i) >= base)
  BY DEF ReaderAtZero
<1> USE <1>0
<1>1. /\ n0 \in Nat /\ Rising(f, n0)
      /\ \A i \in 0..n0 - 1 : q(i) \in Nat /\ f[i] = q(i) + i + 1 /\ (q(i) < high <=> i < m)
  <2>1. n0 \in Nat /\ Rising(f, n0)
    BY SortedValues, HighRises
  <2>2. \A i \in 0..n0 - 1 : q(i) \in Nat /\ f[i] = q(i) + i + 1
    BY HighRises
  <2> QED
    BY <2>1, <2>2
<1>2. \A i \in 0..n0 - 1 : i >= a => q(i) >= base
  OBVIOUS
<1>3. m \in 0..n0 /\ a \in 0..m
  OBVIOUS
<1> HIDE DEF f, n0, q
<1>4. /\ a \in 0..n0 /\ m \in a..n0 /\ z \in Nat /\ k \in Nat /\ reader.at \in Nat
      /\ k = z - reader.at - (m - a) /\ reader.at <= z
  BY <1>1, <1>3
<1>5. \A i \in a..m - 1 : reader.at <= f[i] /\ f[i] < z
  <2> SUFFICES ASSUME NEW i \in a..m - 1 PROVE reader.at <= f[i] /\ f[i] < z
    OBVIOUS
  <2>1. i \in 0..n0 - 1 /\ i >= a /\ i < m
    BY <1>1, <1>3
  <2>2. q(i) \in Nat /\ f[i] = q(i) + i + 1 /\ q(i) < high /\ q(i) >= base
    BY <1>1, <1>2, <2>1
  <2> QED
    BY <1>1, <1>3, <2>1, <2>2
<1>6. \A i \in 0..n0 - 1 : z < f[i] <=> i >= m
  <2> SUFFICES ASSUME NEW i \in 0..n0 - 1 PROVE z < f[i] <=> i >= m
    OBVIOUS
  <2>1. q(i) \in Nat /\ f[i] = q(i) + i + 1 /\ (q(i) < high <=> i < m)
    BY <1>1
  <2> QED
    BY <1>1, <1>3, <2>1
<1>7. m = a \/ z - f[m - 1] <= k + 1
  <2> SUFFICES ASSUME m # a PROVE z - f[m - 1] <= k + 1
    OBVIOUS
  <2>1. m - 1 \in 0..n0 - 1 /\ m - 1 >= a
    BY <1>1, <1>3
  <2>2. q(m - 1) \in Nat /\ f[m - 1] = q(m - 1) + (m - 1) + 1 /\ q(m - 1) >= base
    BY <1>1, <1>2, <2>1
  <2> QED
    BY <1>1, <1>3, <2>1, <2>2
<1>8. Before(f, n0, reader, a)
  BY DEF f, n0
<1> HIDE DEF z, k
<1>9. \A i \in m..n0 - 1 : z < f[i]
  BY <1>1, <1>3, <1>6
<1>10. SkipZeros(Values(f, 0, n0), reader, k) = HasRead(z)
  <2>1. ZerosUpTo(f, n0, reader, k, a, m, z)
    BY <1>4, <1>5, <1>7, <1>8, <1>9 DEF ZerosUpTo
  <2> QED
    BY <1>1, <2>1, SkipZerosSkips
<1>11. Before(f, n0, HasRead(z), m)
  <2>1. \A i \in 0..n0 - 1 : f[i] > z <=> i >= m
    BY <1>6
  <2> QED
    BY <1>1, <1>3, <2>1, BehindABit
<1> QED
  BY <1>10, <1>11 DEF z, k, f, n0

(* The elements with less higher bits than the bound are below it.         *)
LEMMA HigherBitsBelow ==
  ASSUME NEW seq, NEW u, SortedBelow(seq, u), NEW bound \in Nat
  PROVE  \E m \in 0..Below(seq, bound) :
           \A i \in 0..Len(seq) - 1 :
             seq[i + 1] \div Unit(seq, u) < bound \div Unit(seq, u) <=> i < m
<1> DEFINE n0 == Len(seq)
           B == Unit(seq, u)
           g == [i \in 0..n0 - 1 |-> seq[i + 1] \div B]
           high == bound \div B
<1>1. n0 \in Nat /\ B \in Nat \ {0} /\ \A i \in 0..n0 - 1 : i + 1 \in 1..n0 /\ seq[i + 1] \in Nat
  BY SortedValues DEF SortedBelow
<1>2. high \in Nat
  BY <1>1, DivisionOfNaturals
<1>3. /\ \A i \in 0..n0 - 1 : g[i] \in Int
      /\ \A i, j \in 0..n0 - 1 : i < j => g[i] <= g[j]
  <2>1. \A i \in 0..n0 - 1 : g[i] = seq[i + 1] \div B
    OBVIOUS
  <2>2. \A i \in 0..n0 - 1 : g[i] \in Int
    <3>1. \A i \in 0..n0 - 1 : seq[i + 1] \div B \in Nat
      BY HighRises
    <3> HIDE DEF g
    <3> QED
      BY <2>1, <3>1
  <2>3. \A i, j \in 0..n0 - 1 : i < j => g[i] <= g[j]
    <3> SUFFICES ASSUME NEW i \in 0..n0 - 1, NEW j \in 0..n0 - 1, i < j PROVE g[i] <= g[j]
      OBVIOUS
    <3>1. i <= j
      BY <1>1
    <3>2. seq[i + 1] \div B <= seq[j + 1] \div B
      BY <3>1, HighRises
    <3> QED
      BY <2>1, <3>2
  <2> QED
    BY <2>2, <2>3
<1> HIDE DEF g, high
<1>4. PICK m \in 0..n0 : \A i \in 0..n0 - 1 : g[i] < high <=> i < m
  <2>1. high \in Int
    BY <1>2
  <2> HIDE DEF n0
  <2> QED
    BY <1>1, <1>3, <2>1, SplitAtBound
<1>5. \A i \in 0..n0 - 1 : seq[i + 1] \div B < bound \div B <=> i < m
  BY <1>4 DEF g, high
<1>6. m <= Below(seq, bound)
  <2> SUFFICES ASSUME m > 0 PROVE m - 1 < Below(seq, bound)
    <3>1. Below(seq, bound) \in Nat
      BY BelowSplits
    <3> QED
      BY <1>4, <3>1
  <2>1. m - 1 \in 0..n0 - 1 /\ m - 1 < m
    BY <1>1, <1>4
  <2>2. seq[(m - 1) + 1] \div B < bound \div B
    BY <1>5, <2>1
  <2>3. seq[(m - 1) + 1] \in Nat
    BY <1>1, <2>1
  <2>4. ASSUME bound <= seq[(m - 1) + 1] PROVE FALSE
    <3>1. bound \div B <= seq[(m - 1) + 1] \div B
      <4> HIDE DEF B
      <4> QED
        BY <1>1, <2>3, <2>4, QuotientGrows
    <3>2. bound \div B \in Nat /\ seq[(m - 1) + 1] \div B \in Nat
      <4> HIDE DEF B
      <4> QED
        BY <1>1, <2>3, DivisionOfNaturals
    <3> DEFINE x == bound \div B  y == seq[(m - 1) + 1] \div B
    <3> HIDE DEF x, y
    <3> QED
      BY <2>2, <3>1, <3>2 DEF x, y
  <2>5. seq[(m - 1) + 1] < bound
    BY <2>3, <2>4
  <2>6. \A i \in 0..n0 - 1 : seq[i + 1] < bound => i < Below(seq, bound)
    <3>1. bound \in Int
      OBVIOUS
    <3> QED
      BY <3>1, BelowSplits
  <2> QED
    BY <2>1, <2>5, <2>6
<1>7. m \in 0..Below(seq, bound)
  <2>1. Below(seq, bound) \in Nat
    BY BelowSplits
  <2> QED
    BY <1>4, <1>6, <2>1
<1> QED
  BY <1>5, <1>7

(* A cursor whose value is below the universe is before the end.           *)
LEMMA BeforeTheEnd ==
  ASSUME NEW seq, NEW u, SortedBelow(seq, u), NEW c0, Cursor(c0, seq, u), c0.value < u
  PROVE  c0.position \in 0..Len(seq) - 1 /\ c0.value = seq[c0.position + 1]
<1>1. Len(seq) \in Nat /\ c0.position \in 0..Len(seq) /\ u \in Nat
  BY SortedValues DEF Cursor, SortedBelow
<1>2. c0.position < Len(seq)
  <2> SUFFICES ASSUME ~(c0.position < Len(seq)) PROVE FALSE
    OBVIOUS
  <2>1. c0.value = u
    BY DEF Cursor, ValueAt
  <2> QED
    BY <1>1, <2>1
<1> QED
  BY <1>1, <1>2 DEF Cursor, ValueAt

(* next_geq on Elias-Fano: the loop from the reader, or zeros skipped from *)
(* the reader or from a sample, all end at the element searched for.       *)
LEMMA EfNextGeq ==
  ASSUME NEW seq, NEW u, SortedBelow(seq, u), NEW w, w = Encoding!EF!Written(seq, u),
         2 ^ EfLogSampling0 \in Nat \ {0}, 2 ^ EfLogSampling1 \in Nat \ {0},
         LinearScanThreshold \in Nat,
         NEW c0, InStep(c0, seq, u, High(seq, u)), NEW bound \in 0..u
  PROVE  /\ InStep(Encoding!EF!NextGeq(w, c0, bound), seq, u, High(seq, u))
         /\ Encoding!EF!NextGeq(w, c0, bound).position =
              IF c0.value = bound THEN c0.position ELSE Below(seq, bound)
<1> DEFINE f == High(seq, u)
           n0 == Len(seq)
           pos == c0.position
           B == Unit(seq, u)
           m1 == Below(seq, bound)
           high == bound \div B
           S0 == 2 ^ EfLogSampling0
<1>1. /\ n0 \in Nat /\ pos \in 0..n0 /\ Rising(f, n0) /\ u \in Nat /\ bound \in Nat
      /\ w.size = n0 /\ w.universe = u /\ w.ones = Values(f, 0, n0)
      /\ w.lowerBits = Encoding!EF!LowerBits(u, n0)
      /\ Cursor(c0, seq, u) /\ B \in Nat \ {0}
  <2>1. n0 \in Nat /\ Rising(f, n0)
    BY SortedValues, HighRises
  <2>2. w.size = n0 /\ w.universe = u /\ w.ones = Values(f, 0, n0) /\ w.lowerBits = Encoding!EF!LowerBits(u, n0)
    BY EfWritten
  <2>3. u \in Nat /\ B \in Nat \ {0}
    BY DEF SortedBelow
  <2> QED
    BY <2>1, <2>2, <2>3 DEF InStep, Cursor
<1>2. CASE bound = c0.value
  BY <1>2 DEF Encoding!EF!NextGeq
<1>3. ASSUME bound > c0.value
      PROVE  /\ pos \in 0..n0 - 1 /\ c0.value = seq[pos + 1] /\ c0.value \in Nat
             /\ Before(f, n0, c0.reader, pos + 1) /\ pos + 1 \in 0..n0 /\ pos < m1
  <2>1. c0.value \in Nat
    <3>1. CASE pos < n0
      <4>1. c0.value = seq[pos + 1] /\ pos + 1 \in 1..n0
        BY <1>1, <3>1 DEF Cursor, ValueAt
      <4> QED
        BY <4>1, SortedValues
    <3>2. CASE ~(pos < n0)
      BY <1>1, <3>2 DEF Cursor, ValueAt
    <3> QED
      BY <3>1, <3>2
  <2>2. c0.value < u
    BY <1>1, <1>3, <2>1
  <2>3. pos \in 0..n0 - 1 /\ c0.value = seq[pos + 1]
    BY <1>1, <2>2, BeforeTheEnd
  <2>4. pos < n0
    BY <1>1, <2>3
  <2>5. Before(f, n0, c0.reader, pos + 1) /\ pos + 1 \in 0..n0
    BY <2>4, EfReader
  <2>6. pos < m1
    <3>1. seq[pos + 1] < bound
      BY <1>1, <1>3, <2>1, <2>3
    <3>2. bound \in Int
      BY <1>1
    <3> QED
      BY <2>3, <3>1, <3>2, BelowSplits
  <2> QED
    BY <2>1, <2>3, <2>5, <2>6
<1>4. ASSUME bound > c0.value
      PROVE  /\ InStep(Encoding!EF!Scan(w, c0.reader, pos + 1, bound), seq, u, High(seq, u))
             /\ Encoding!EF!Scan(w, c0.reader, pos + 1, bound).position = m1
  <2>1. pos + 1 <= m1 /\ bound \in Int
    <3>0. bound \in Int
      BY <1>1
    <3>1. m1 \in Nat
      BY <3>0, BelowSplits
    <3> HIDE DEF m1, pos
    <3> QED
      BY <1>1, <1>3, <1>4, <3>1
  <2> QED
    BY <1>3, <1>4, <2>1, EfScan
<1>5. CASE bound # c0.value /\ bound = u
  <2>1. Encoding!EF!SlowNextGeq(w, c0, bound) = Encoding!EF!Move(w, c0, n0)
    BY <1>1, <1>5 DEF Encoding!EF!SlowNextGeq
  <2>2. n0 \in 0..n0
    BY <1>1
  <2>3. InStep(Encoding!EF!Move(w, c0, n0), seq, u, High(seq, u)) /\ Encoding!EF!Move(w, c0, n0).position = n0
    BY <2>2, EfMove
  <2>4. m1 = n0
    <3>0. bound \in Int
      BY <1>1
    <3>1. m1 \in 0..n0
      BY <3>0, BelowSplits
    <3>2. n0 - 1 \in 0..n0 - 1 /\ n0 \in 1..n0 /\ (n0 - 1) + 1 = n0
      BY SortedValues
    <3>3. seq[n0] < bound
      BY <1>5, <3>2, SortedValues
    <3>4. \A i \in 0..n0 - 1 : seq[i + 1] < bound => i < m1
      BY <3>0, BelowSplits
    <3>5. seq[(n0 - 1) + 1] < bound
      BY <3>2, <3>3
    <3>6. n0 - 1 < m1
      BY <3>2, <3>4, <3>5
    <3> HIDE DEF m1, n0
    <3> QED
      BY <1>1, <3>1, <3>6
  <2>5. CASE bound > c0.value /\ Encoding!EF!Shifted(bound, w.lowerBits)
                                   - Encoding!EF!Shifted(c0.value, w.lowerBits) <= LinearScanThreshold
    <3>1. Encoding!EF!NextGeq(w, c0, bound) = Encoding!EF!Scan(w, c0.reader, pos + 1, bound)
      BY <1>5, <2>5 DEF Encoding!EF!NextGeq
    <3> QED
      BY <1>4, <1>5, <2>5, <3>1
  <2>6. CASE ~(bound > c0.value /\ Encoding!EF!Shifted(bound, w.lowerBits)
                                   - Encoding!EF!Shifted(c0.value, w.lowerBits) <= LinearScanThreshold)
    <3>1. Encoding!EF!NextGeq(w, c0, bound) = Encoding!EF!Move(w, c0, n0)
      BY <1>5, <2>1, <2>6 DEF Encoding!EF!NextGeq
    <3> QED
      BY <1>5, <2>3, <2>4, <3>1
  <2> QED
    BY <2>5, <2>6
<1>6. CASE bound # c0.value /\ bound # u
  <2>1. bound < u
    BY <1>1, <1>6
  <2>2. high \in 0..u \div B /\ high \in Nat
    <3> HIDE DEF B
    <3>1. high \in Nat /\ u \div B \in Nat
      BY <1>1, DivisionOfNaturals
    <3>2. bound <= u
      BY <1>1, <2>1
    <3>3. high <= u \div B
      BY <1>1, <3>2, QuotientGrows
    <3> DEFINE top == u \div B
    <3> HIDE DEF high, top
    <3>4. high \in 0..top
      BY <3>1, <3>3 DEF top
    <3> QED
      BY <3>1, <3>4 DEF top
  <2>3. PICK m \in 0..m1 : \A i \in 0..n0 - 1 : seq[i + 1] \div B < high <=> i < m
    BY <1>1, HigherBitsBelow
  <2>4. m \in 0..n0 /\ m <= m1 /\ bound \in Int
    <3>0. bound \in Int
      BY <1>1
    <3>1. m1 \in 0..n0
      BY <3>0, BelowSplits
    <3> HIDE DEF m1, n0
    <3> QED
      BY <1>1, <2>3, <3>1
  <2> DEFINE zhigh == Encoding!EF!Shifted(bound, w.lowerBits)
             diff == zhigh - Encoding!EF!Shifted(c0.value, w.lowerBits)
             near == bound > c0.value /\ Encoding!EF!Shifted(diff, EfLogSampling0) = 0
             start == ReaderAt(Encoding!EF!Pointer(w.pointers0, high \div S0))
             zero == IF near THEN SkipZeros(w.ones, c0.reader, diff)
                     ELSE SkipZeros(w.ones, start, high % S0)
  <2>5. zhigh = high /\ Encoding!EF!Shifted(c0.value, w.lowerBits) = c0.value \div B
    BY <1>1 DEF Encoding!EF!Shifted, Unit
  <2>6. ASSUME bound > c0.value, ~(diff <= LinearScanThreshold)
        PROVE  /\ SkipZeros(w.ones, c0.reader, diff) = HasRead(high + m)
               /\ Before(f, n0, HasRead(high + m), m)
    <3> DEFINE base == c0.value \div B
               a == pos + 1
    <3>1. pos \in 0..n0 - 1 /\ c0.value = seq[pos + 1] /\ Before(f, n0, c0.reader, a) /\ a \in 0..n0
      BY <1>3, <2>6
    <3>2. f[pos] = base + a /\ base \in Nat
      BY <3>1, HighRises
    <3>3. base < high /\ diff = high - base
      <4>1. diff = high - base
        BY <2>5
      <4> HIDE DEF base, high, diff
      <4> QED
        BY <2>2, <2>6, <3>2, <4>1
    <3>4. pos < m
      <4>1. seq[pos + 1] \div B < high
        BY <3>1, <3>3
      <4> QED
        BY <2>3, <3>1, <4>1
    <3>5. base \in 0..high /\ a \in 0..m
      <4> HIDE DEF base, high, pos
      <4> QED
        BY <1>1, <2>2, <2>4, <3>2, <3>3, <3>4
    <3>6. c0.reader.at = base + a
      <4>1. c0.reader = HasRead(f[pos])
        BY <1>1, <3>1 DEF InStep
      <4>2. HasRead(f[pos]).at = f[pos]
        BY DEF HasRead
      <4> HIDE DEF f
      <4> QED
        BY <3>2, <4>1, <4>2
    <3>7. \A i \in 0..n0 - 1 : i >= a => seq[i + 1] \div B >= base
      <4> SUFFICES ASSUME NEW i \in 0..n0 - 1, i >= a PROVE seq[i + 1] \div B >= base
        OBVIOUS
      <4>1. pos <= i
        BY <1>1
      <4>2. seq[pos + 1] \div B <= seq[i + 1] \div B
        BY <3>1, <4>1, HighRises
      <4>3. seq[i + 1] \div B \in Nat
        BY HighRises
      <4> DEFINE x == seq[i + 1] \div B
      <4> HIDE DEF base, x
      <4>4. base <= x
        BY <3>1, <4>2 DEF base, x
      <4> QED
        BY <3>2, <4>3, <4>4 DEF x
    <3> HIDE DEF base, a, high, diff
    <3>8. ReaderAtZero(seq, u, c0.reader, base, a, high, m)
      BY <2>2, <2>3, <2>4, <3>1, <3>5, <3>6, <3>7 DEF ReaderAtZero
    <3>9. /\ SkipZeros(Values(f, 0, n0), c0.reader, high - base) = HasRead(high + m)
          /\ Before(f, n0, HasRead(high + m), m)
      BY <3>8, EfSkipZeros
    <3> QED
      BY <1>1, <3>3, <3>9
  <2>7. /\ SkipZeros(w.ones, start, high % S0) = HasRead(high + m)
        /\ Before(f, n0, HasRead(high + m), m)
    <3> DEFINE k == high \div S0
               base == k * S0
               bit == Encoding!EF!Pointer(w.pointers0, k)
    <3>1. /\ base \in 0..high /\ high % S0 = high - base
          /\ \E a \in 0..n0 :
               /\ bit = base + a
               /\ \A i \in 0..n0 - 1 : seq[i + 1] \div B < base <=> i < a
               /\ Before(f, n0, ReaderAt(bit), a)
      BY <2>2, EfSampledZero
    <3>2. PICK a \in 0..n0 : /\ bit = base + a
                             /\ \A i \in 0..n0 - 1 : seq[i + 1] \div B < base <=> i < a
                             /\ Before(f, n0, ReaderAt(bit), a)
      BY <3>1
    <3>3. \A i \in 0..n0 - 1 : seq[i + 1] \div B \in Nat
      BY HighRises
    <3> HIDE DEF k, base, bit, high
    <3>4. a \in 0..m
      <4> SUFFICES ASSUME m < a PROVE FALSE
        BY <1>1, <2>4
      <4>1. m \in 0..n0 - 1
        BY <1>1, <2>4
      <4>2. seq[m + 1] \div B < base /\ ~(seq[m + 1] \div B < high) /\ seq[m + 1] \div B \in Nat
        BY <1>1, <2>3, <3>2, <3>3, <4>1
      <4> DEFINE x == seq[m + 1] \div B
      <4> HIDE DEF x
      <4>3. x < base /\ ~(x < high) /\ x \in Nat
        BY <4>2 DEF x
      <4> QED
        BY <2>2, <3>1, <4>3
    <3>5. \A i \in 0..n0 - 1 : i >= a => seq[i + 1] \div B >= base
      <4> SUFFICES ASSUME NEW i \in 0..n0 - 1, i >= a PROVE seq[i + 1] \div B >= base
        OBVIOUS
      <4>1. ~(seq[i + 1] \div B < base) /\ seq[i + 1] \div B \in Nat
        BY <1>1, <3>2, <3>3
      <4> DEFINE x == seq[i + 1] \div B
      <4> HIDE DEF x
      <4>2. ~(x < base) /\ x \in Nat
        BY <4>1 DEF x
      <4>3. x >= base
        BY <2>2, <3>1, <4>2
      <4> QED
        BY <4>3 DEF x
    <3>6. ReaderAt(bit).at = base + a
      BY <3>2 DEF ReaderAt
    <3>7. /\ SkipZeros(Values(f, 0, n0), ReaderAt(bit), high - base) = HasRead(high + m)
          /\ Before(f, n0, HasRead(high + m), m)
      <4>1. ReaderAtZero(seq, u, ReaderAt(bit), base, a, high, m)
        BY <2>2, <2>3, <2>4, <3>1, <3>2, <3>4, <3>5, <3>6 DEF ReaderAtZero
      <4> QED
        BY <4>1, EfSkipZeros
    <3> QED
      BY <1>1, <3>1, <3>7 DEF bit, k
  <2>8. ASSUME bound > c0.value => ~(diff <= LinearScanThreshold)
        PROVE  zero = HasRead(high + m) /\ Before(f, n0, zero, m)
    BY <2>6, <2>7, <2>8
  <2>9. ASSUME bound > c0.value => ~(diff <= LinearScanThreshold)
        PROVE  Encoding!EF!SlowNextGeq(w, c0, bound) =
                 Encoding!EF!Scan(w, HasRead(high + m), m, bound)
    <3>1. Encoding!EF!SlowNextGeq(w, c0, bound) =
            Encoding!EF!Scan(w, zero, zero.at - high, bound)
      <4>1. ~(bound >= w.universe)
        BY <1>1, <2>1
      <4> QED
        BY <2>5, <4>1, ReadersOfEliasFano DEF Encoding!EF!SlowNextGeq, Encoding!EF!Shifted
    <3>2. HasRead(high + m).at - high = m
      <4>1. HasRead(high + m).at = high + m
        BY DEF HasRead
      <4> HIDE DEF high
      <4> QED
        BY <2>2, <2>4, <4>1
    <3>3. zero = HasRead(high + m)
      BY <2>8, <2>9
    <3> HIDE DEF zero, high
    <3> QED
      BY <3>1, <3>2, <3>3
  <2>10. /\ InStep(Encoding!EF!Scan(w, HasRead(high + m), m, bound), seq, u, High(seq, u))
         /\ Encoding!EF!Scan(w, HasRead(high + m), m, bound).position = m1
    BY <2>4, <2>7, EfScan
  <2>11. CASE bound > c0.value /\ diff <= LinearScanThreshold
    <3>1. Encoding!EF!NextGeq(w, c0, bound) = Encoding!EF!Scan(w, c0.reader, pos + 1, bound)
      BY <1>6, <2>11 DEF Encoding!EF!NextGeq
    <3> QED
      BY <1>4, <1>6, <2>11, <3>1
  <2>12. CASE ~(bound > c0.value /\ diff <= LinearScanThreshold)
    <3>1. Encoding!EF!NextGeq(w, c0, bound) = Encoding!EF!SlowNextGeq(w, c0, bound)
      BY <1>6, <2>12 DEF Encoding!EF!NextGeq
    <3>2. Encoding!EF!NextGeq(w, c0, bound) = Encoding!EF!Scan(w, HasRead(high + m), m, bound)
      BY <2>9, <2>12, <3>1
    <3> QED
      BY <1>6, <2>10, <3>2
  <2> QED
    BY <2>11, <2>12
<1> QED
  BY <1>2, <1>5, <1>6

(* next, and prev_value, which reads the ones before the reader.           *)
LEMMA EfFollowing ==
  ASSUME NEW seq, NEW u, SortedBelow(seq, u), NEW w, w = Encoding!EF!Written(seq, u),
         NEW c0, InStep(c0, seq, u, High(seq, u)), c0.position < Len(seq)
  PROVE  /\ InStep(Encoding!EF!Following(w, c0), seq, u, High(seq, u))
         /\ Encoding!EF!Following(w, c0).position = c0.position + 1
<1> DEFINE f == High(seq, u)
           n0 == Len(seq)
           pos == c0.position
<1>1. /\ n0 \in Nat /\ pos \in 0..n0 - 1 /\ Rising(f, n0)
      /\ w.size = n0 /\ w.universe = u /\ w.ones = Values(f, 0, n0)
  <2>1. n0 \in Nat /\ Rising(f, n0) /\ w.size = n0 /\ w.universe = u /\ w.ones = Values(f, 0, n0)
    BY SortedValues, HighRises, EfWritten
  <2> QED
    BY <2>1 DEF InStep, Cursor
<1>2. CASE pos + 1 < n0
  <2>1. Before(f, n0, c0.reader, pos + 1) /\ pos + 1 \in 0..n0
    BY EfReader
  <2>2. 1 \in 1..n0 - (pos + 1) /\ (pos + 1) + 1 - 1 = pos + 1 /\ pos + 1 \in 0..n0 - 1
    BY <1>1, <1>2
  <2>3. NextOne(Values(f, 0, n0), c0.reader, 1) = HasRead(f[pos + 1])
    <3> HIDE DEF pos, n0, f
    <3>1. NextOne(Values(f, 0, n0), c0.reader, 1) = HasRead(f[(pos + 1) + 1 - 1])
      BY <1>1, <2>1, <2>2, NextOneReads
    <3> QED
      BY <2>2, <3>1
  <2>4. Encoding!EF!Following(w, c0) = Encoding!EF!At(w, pos + 1, HasRead(f[pos + 1]))
    BY <1>1, <1>2, <2>3, ReadersOfEliasFano DEF Encoding!EF!Following
  <2> QED
    BY <2>2, <2>4, EfAtPosition
<1>3. CASE ~(pos + 1 < n0)
  <2>1. pos + 1 = n0 /\ ~(n0 < n0)
    BY <1>1, <1>3
  <2>2. Encoding!EF!Following(w, c0) =
          [position |-> n0, value |-> ValueAt(seq, u, n0), reader |-> c0.reader]
    BY <1>1, <1>3, <2>1 DEF Encoding!EF!Following, ValueAt
  <2>3. n0 \in 0..n0
    BY <1>1
  <2> QED
    BY <2>1, <2>2, <2>3, EfInStepOf
<1> QED
  BY <1>2, <1>3

LEMMA EfPrevValue ==
  ASSUME NEW seq, NEW u, SortedBelow(seq, u), NEW w, w = Encoding!EF!Written(seq, u),
         NEW c0, InStep(c0, seq, u, High(seq, u))
  PROVE  Encoding!EF!PrevValue(w, c0) = IF c0.position = 0 THEN 0 ELSE seq[c0.position]
<1> DEFINE f == High(seq, u)
           n0 == Len(seq)
           pos == c0.position
           bits == IF pos < n0 THEN {b \in w.ones : b < c0.reader.at} ELSE w.ones
<1>1. /\ n0 \in Nat /\ pos \in 0..n0 /\ Rising(f, n0) /\ w.size = n0 /\ w.ones = Values(f, 0, n0)
  <2>1. n0 \in Nat /\ Rising(f, n0) /\ w.size = n0 /\ w.ones = Values(f, 0, n0)
    BY SortedValues, HighRises, EfWritten
  <2> QED
    BY <2>1 DEF InStep, Cursor
<1>2. CASE pos = 0
  BY <1>2 DEF Encoding!EF!PrevValue
<1>3. CASE pos # 0
  <2>1. bits = Values(f, 0, pos)
    <3>1. CASE pos < n0
      <4>1. pos \in 0..n0 - 1 /\ c0.reader = HasRead(f[pos])
        BY <1>1, <3>1 DEF InStep
      <4>2. c0.reader.at = f[pos]
        BY <4>1 DEF HasRead
      <4> HIDE DEF f
      <4> QED
        BY <1>1, <3>1, <4>1, <4>2, OnesBefore
    <3>2. CASE ~(pos < n0)
      BY <1>1, <3>2
    <3> QED
      BY <3>1, <3>2
  <2>2. pos \in 1..n0 /\ pos - 1 \in 0..n0 - 1 /\ (pos - 1) + 1 = pos
    BY <1>1, <1>3
  <2>3. Max(bits) = f[pos - 1]
    <3> HIDE DEF bits, f, pos, n0
    <3> QED
      BY <1>1, <2>1, <2>2, LastOne
  <2>4. Encoding!EF!PrevValue(w, c0) = Encoding!EF!Decode(w, pos - 1, f[pos - 1])
    <3>1. Encoding!EF!PrevValue(w, c0) = Encoding!EF!Decode(w, pos - 1, Max(bits))
      BY <1>1, <1>3, ReadersOfEliasFano DEF Encoding!EF!PrevValue
    <3> HIDE DEF bits
    <3> QED
      BY <2>3, <3>1
  <2>5. Encoding!EF!Decode(w, pos - 1, f[pos - 1]) = seq[(pos - 1) + 1]
    BY <2>2, HighDecodes
  <2> QED
    BY <1>3, <2>2, <2>4, <2>5
<1> QED
  BY <1>2, <1>3

-----------------------------------------------------------------------------
(* The same for the ranked bit vector, whose ones are the elements.        *)
Strict(seq, u) ==
  /\ SortedBelow(seq, u)
  /\ \A j, k \in DOMAIN seq : j < k => seq[j] < seq[k]

Ones(seq) == [i \in 0..Len(seq) - 1 |-> seq[i + 1]]

LEMMA ReadersOfRankedBitvector ==
  /\ \A bit : Encoding!RB!ReaderAt(bit) = ReaderAt(bit)
  /\ \A ones, reader, k : Encoding!RB!NextOne(ones, reader, k) = NextOne(ones, reader, k)
  /\ \A ones, reader, k : Encoding!RB!SkipOnes(ones, reader, k) = SkipOnes(ones, reader, k)
  /\ \A S : Encoding!RB!Min(S) = Min(S)
  /\ \A S : Encoding!RB!Max(S) = Max(S)
  /\ \A S : Encoding!RB!Cardinality(S) = Cardinality(S)
<1>1. \A S : Encoding!RB!Min(S) = Min(S) /\ Encoding!RB!Max(S) = Max(S)
  BY DEF Encoding!RB!Min, Encoding!RB!Max, Min, Max
<1>2. \A bit : Encoding!RB!ReaderAt(bit) = ReaderAt(bit)
  BY DEF Encoding!RB!ReaderAt, ReaderAt
<1>3. \A ones, reader : Encoding!RB!Ahead(ones, reader) = Ahead(ones, reader)
  BY DEF Encoding!RB!Ahead, Ahead
<1>4. \A S, k : Encoding!RB!Nth(S, k) = Nth(S, k)
  BY DEF Encoding!RB!Nth, Nth, Encoding!RB!Max, Max, Encoding!RB!Cardinality, Cardinality
<1>5. \A ones, reader, k : Encoding!RB!NextOne(ones, reader, k) = NextOne(ones, reader, k)
  BY <1>3, <1>4 DEF Encoding!RB!NextOne, NextOne
<1>6. \A ones, reader, k : Encoding!RB!SkipOnes(ones, reader, k) = SkipOnes(ones, reader, k)
  BY <1>2, <1>3, <1>4 DEF Encoding!RB!SkipOnes, SkipOnes
<1>7. \A S : Encoding!RB!Cardinality(S) = Cardinality(S)
  BY DEF Encoding!RB!Cardinality, Cardinality
<1> QED
  BY <1>1, <1>2, <1>5, <1>6, <1>7

(* The elements rise, and are the ones.                                    *)
LEMMA OnesRise ==
  ASSUME NEW seq, NEW u, Strict(seq, u)
  PROVE  /\ SortedBelow(seq, u) /\ Len(seq) \in Nat
         /\ Rising(Ones(seq), Len(seq))
         /\ \A i \in 0..Len(seq) - 1 : Ones(seq)[i] = seq[i + 1] /\ seq[i + 1] \in Nat
<1>1. SortedBelow(seq, u)
  BY DEF Strict
<1>2. /\ Len(seq) \in Nat /\ DOMAIN seq = 1..Len(seq)
      /\ \A i \in 0..Len(seq) - 1 : i + 1 \in 1..Len(seq) /\ seq[i + 1] \in Nat
  BY <1>1, SortedValues
<1>3. \A i \in 0..Len(seq) - 1 : Ones(seq)[i] = seq[i + 1]
  BY DEF Ones
<1>4. Ones(seq) \in [0..Len(seq) - 1 -> Nat]
  BY <1>2 DEF Ones
<1>5. \A i, j \in 0..Len(seq) - 1 : i < j => Ones(seq)[i] < Ones(seq)[j]
  <2> SUFFICES ASSUME NEW i \in 0..Len(seq) - 1, NEW j \in 0..Len(seq) - 1, i < j
               PROVE  Ones(seq)[i] < Ones(seq)[j]
    OBVIOUS
  <2>1. i + 1 \in DOMAIN seq /\ j + 1 \in DOMAIN seq /\ i + 1 < j + 1
    BY <1>2
  <2>2. seq[i + 1] < seq[j + 1]
    BY <2>1 DEF Strict
  <2> QED
    BY <1>3, <2>2
<1> QED
  BY <1>1, <1>2, <1>3, <1>4, <1>5 DEF Rising

LEMMA RbWritten ==
  ASSUME NEW seq, NEW u, Strict(seq, u), NEW w, w = Encoding!RB!Written(seq, u)
  PROVE  /\ w.size = Len(seq) /\ w.universe = u
         /\ w.ones = Values(Ones(seq), 0, Len(seq))
         /\ \A k \in 1..Len(seq) \div 2 ^ RbLogSampling1 :
              k * 2 ^ RbLogSampling1 < Len(seq) =>
                w.pointers1[k] = seq[k * 2 ^ RbLogSampling1 + 1]
         /\ \A k \in 1..u \div 2 ^ RbLogRank1Sampling :
              w.rank1Samples[k] = Encoding!RB!Rank1Sample(seq, u, k * 2 ^ RbLogRank1Sampling)
<1>1. DOMAIN seq = 1..Len(seq) /\ Len(seq) \in Nat
  BY OnesRise, SortedValues
<1>2. /\ w.size = Len(seq) /\ w.universe = u
      /\ w.ones = {seq[k] : k \in DOMAIN seq}
      /\ w.rank1Samples = [k \in 1..u \div 2 ^ RbLogRank1Sampling |->
                              Encoding!RB!Rank1Sample(seq, u, k * 2 ^ RbLogRank1Sampling)]
      /\ w.pointers1 = [k \in 1..Len(seq) \div 2 ^ RbLogSampling1 |->
                           IF k * 2 ^ RbLogSampling1 < Len(seq)
                           THEN seq[k * 2 ^ RbLogSampling1 + 1] ELSE 0]
  BY DEF Encoding!RB!Written, Encoding!RB!Rank1Samples, Encoding!RB!Pointers1, Encoding!RB!Shifted
<1>3. {seq[k] : k \in DOMAIN seq} = Values(Ones(seq), 0, Len(seq))
  <2>1. \A k \in 1..Len(seq) : k - 1 \in 0..Len(seq) - 1 /\ (k - 1) + 1 = k
    BY <1>1
  <2>2. \A i \in 0..Len(seq) - 1 : i + 1 \in 1..Len(seq)
    BY <1>1
  <2>3. Values(Ones(seq), 0, Len(seq)) = {seq[i + 1] : i \in 0..Len(seq) - 1}
    BY DEF Values, Ones
  <2>4. \A k \in 1..Len(seq) : \E i \in 0..Len(seq) - 1 : seq[k] = seq[i + 1]
    BY <2>1
  <2> QED
    BY <1>1, <2>2, <2>3, <2>4
<1> QED
  BY <1>2, <1>3

LEMMA RbInStepOf ==
  ASSUME NEW seq, NEW u, NEW p \in 0..Len(seq), NEW reader,
         p < Len(seq) => reader = HasRead(Ones(seq)[p])
  PROVE  InStep([position |-> p, value |-> ValueAt(seq, u, p), reader |-> reader], seq, u, Ones(seq))
<1> DEFINE f == Ones(seq)
<1>1. p < Len(seq) => reader = HasRead(f[p])
  OBVIOUS
<1> HIDE DEF f
<1>2. InStep([position |-> p, value |-> ValueAt(seq, u, p), reader |-> reader], seq, u, f)
  BY <1>1, InStepOf
<1> QED
  BY <1>2 DEF f

LEMMA RbAtPosition ==
  ASSUME NEW seq, NEW u, Strict(seq, u), NEW p \in 0..Len(seq) - 1, NEW reader,
         reader = HasRead(Ones(seq)[p])
  PROVE  /\ InStep(Encoding!RB!At(p, reader), seq, u, Ones(seq))
         /\ Encoding!RB!At(p, reader).position = p
<1>1. p \in 0..Len(seq) /\ p < Len(seq) /\ Ones(seq)[p] = seq[p + 1]
  BY OnesRise
<1>2. Encoding!RB!At(p, reader) = [position |-> p, value |-> ValueAt(seq, u, p), reader |-> reader]
  <2>1. reader.at = seq[p + 1]
    BY <1>1 DEF HasRead
  <2> QED
    BY <1>1, <2>1 DEF Encoding!RB!At, ValueAt
<1> QED
  BY <1>1, <1>2, RbInStepOf

LEMMA RbAtEnd ==
  ASSUME NEW seq, NEW u, Strict(seq, u), NEW reader
  PROVE  InStep([position |-> Len(seq), value |-> u, reader |-> reader], seq, u, Ones(seq))
<1>1. Len(seq) \in 0..Len(seq) /\ ~(Len(seq) < Len(seq)) /\ u = ValueAt(seq, u, Len(seq))
  BY OnesRise DEF ValueAt
<1> QED
  BY <1>1, RbInStepOf

LEMMA RbSampledOne ==
  ASSUME NEW seq, NEW u, Strict(seq, u), NEW w, w = Encoding!RB!Written(seq, u),
         2 ^ RbLogSampling1 \in Nat \ {0}, NEW p \in 0..Len(seq) - 1
  PROVE  Encoding!RB!Pointer(w.pointers1, p \div 2 ^ RbLogSampling1) =
           Sampled(Ones(seq), p, 2 ^ RbLogSampling1)
<1> DEFINE S == 2 ^ RbLogSampling1
           k == p \div S
<1>1. CASE k = 0
  BY <1>1 DEF Encoding!RB!Pointer, Sampled
<1>2. CASE k # 0
  <2>1. k * S < Len(seq) /\ k \in 1..Len(seq) \div S
    <3>1. Len(seq) \in Nat /\ S \in Nat \ {0} /\ p \div S # 0
      BY <1>2, OnesRise
    <3> HIDE DEF S
    <3> QED
      BY <3>1, SampleInside
  <2>2. w.pointers1[k] = seq[k * S + 1]
    BY <2>1, RbWritten
  <2>3. k * S \in 0..Len(seq) - 1
    <3>1. Len(seq) \in Nat /\ S \in Nat \ {0}
      BY OnesRise
    <3>2. k * S \in 0..p
      <4> HIDE DEF S
      <4> QED
        BY <3>1, OnesRise, SampledOne
    <3> DEFINE a == k * S
    <3> HIDE DEF a
    <3>3. a \in 0..p
      BY <3>2 DEF a
    <3>4. a \in 0..Len(seq) - 1
      BY <3>1, <3>3
    <3> QED
      BY <3>4 DEF a
  <2>4. seq[k * S + 1] = Ones(seq)[k * S]
    BY <2>3 DEF Ones
  <2> QED
    BY <1>2, <2>2, <2>4 DEF Encoding!RB!Pointer, Sampled
<1> QED
  BY <1>1, <1>2

LEMMA RbMove ==
  ASSUME NEW seq, NEW u, Strict(seq, u), NEW w, w = Encoding!RB!Written(seq, u),
         2 ^ RbLogSampling1 \in Nat \ {0},
         NEW c0, InStep(c0, seq, u, Ones(seq)), NEW p \in 0..Len(seq)
  PROVE  /\ InStep(Encoding!RB!Move(w, c0, p), seq, u, Ones(seq))
         /\ Encoding!RB!Move(w, c0, p).position = p
<1> DEFINE f == Ones(seq)
           n0 == Len(seq)
           pos == c0.position
<1>1. /\ n0 \in Nat /\ pos \in 0..n0 /\ Rising(f, n0)
      /\ w.size = n0 /\ w.universe = u /\ w.ones = Values(f, 0, n0)
  <2>1. n0 \in Nat /\ Rising(f, n0)
    BY OnesRise
  <2>2. w.size = n0 /\ w.universe = u /\ w.ones = Values(f, 0, n0)
    BY RbWritten
  <2> QED
    BY <2>1, <2>2 DEF InStep, Cursor
<1>2. CASE p = pos
  BY <1>2 DEF Encoding!RB!Move
<1>3. CASE p # pos /\ p = n0
  <2>1. Encoding!RB!Move(w, c0, p) = [position |-> n0, value |-> u, reader |-> c0.reader]
    BY <1>1, <1>3 DEF Encoding!RB!Move, Encoding!RB!SmallMove, Encoding!RB!SlowMove, Encoding!RB!AtEnd
  <2> QED
    BY <1>3, <2>1, RbAtEnd
<1>4. CASE p # pos /\ p # n0
  <2> DEFINE sample == ReaderAt(Encoding!RB!Pointer(w.pointers1, p \div 2 ^ RbLogSampling1))
             near == p > pos /\ Encoding!RB!Shifted(p - pos, RbLogSampling1) = 0
             from == IF near THEN SkipOnes(w.ones, c0.reader, p - pos - 1)
                     ELSE SkipOnes(w.ones, sample, p % 2 ^ RbLogSampling1)
  <2>1. p \in 0..n0 - 1
    BY <1>1, <1>4
  <2>2. ASSUME p > pos
        PROVE  /\ NextOne(w.ones, c0.reader, p - pos) = HasRead(f[p])
               /\ Before(f, n0, SkipOnes(w.ones, c0.reader, p - pos - 1), p)
    <3>1. pos \in 0..p - 1 /\ c0.reader = HasRead(f[pos])
      BY <1>1, <2>1, <2>2 DEF InStep
    <3> HIDE DEF f, n0, pos
    <3> QED
      BY <1>1, <2>1, <3>1, OneReached
  <2>3. Before(f, n0, from, p)
    <3>1. Before(f, n0, SkipOnes(w.ones, sample, p % 2 ^ RbLogSampling1), p)
      <4>1. sample = ReaderAt(Sampled(f, p, 2 ^ RbLogSampling1))
        BY <2>1, RbSampledOne
      <4> HIDE DEF f, n0, sample
      <4> QED
        BY <1>1, <2>1, <4>1, OneReached
    <3> QED
      BY <2>2, <3>1
  <2>4. NextOne(w.ones, from, 1) = HasRead(f[p])
    <3> HIDE DEF from, f, n0
    <3> QED
      BY <1>1, <2>1, <2>3, OneReached
  <2>5. ASSUME p > pos
        PROVE  Encoding!RB!SmallMove(w, c0, p) = Encoding!RB!At(p, HasRead(f[p]))
    BY <1>1, <1>4, <2>2, <2>5, ReadersOfRankedBitvector DEF Encoding!RB!SmallMove
  <2>6. Encoding!RB!SlowMove(w, c0, p) = Encoding!RB!At(p, HasRead(f[p]))
    <3>1. Encoding!RB!SlowMove(w, c0, p) = Encoding!RB!At(p, NextOne(w.ones, from, 1))
      BY <1>1, <1>4, ReadersOfRankedBitvector DEF Encoding!RB!SlowMove, Encoding!RB!Shifted
    <3> QED
      BY <2>4, <3>1
  <2>7. Encoding!RB!Move(w, c0, p) = Encoding!RB!At(p, HasRead(f[p]))
    BY <1>4, <2>5, <2>6 DEF Encoding!RB!Move
  <2> QED
    BY <2>1, <2>7, RbAtPosition
<1> QED
  BY <1>2, <1>3, <1>4

(* The loop of next_geq.                                                   *)
LEMMA RbScan ==
  ASSUME NEW seq, NEW u, Strict(seq, u), NEW w, w = Encoding!RB!Written(seq, u),
         NEW c0, InStep(c0, seq, u, Ones(seq)), NEW bound \in Int,
         c0.position < Below(seq, bound)
  PROVE  /\ InStep(Encoding!RB!ScanForward(w, c0, bound), seq, u, Ones(seq))
         /\ Encoding!RB!ScanForward(w, c0, bound).position = Below(seq, bound)
<1> DEFINE f == Ones(seq)
           n0 == Len(seq)
           m == Below(seq, bound)
           pos == c0.position
           read(j) == NextOne(w.ones, c0.reader, j - pos)
           found == {n0} \cup {j \in pos + 1..n0 - 1 : read(j).at >= bound}
<1>1. /\ n0 \in Nat /\ Rising(f, n0) /\ w.size = n0 /\ w.universe = u /\ w.ones = Values(f, 0, n0)
      /\ m \in 0..n0 /\ \A i \in 0..n0 - 1 : seq[i + 1] \in Nat /\ f[i] = seq[i + 1] /\ (seq[i + 1] < bound <=> i < m)
      /\ pos \in 0..n0 - 1 /\ pos < m /\ c0.reader = HasRead(f[pos])
  <2>1. n0 \in Nat /\ Rising(f, n0) /\ SortedBelow(seq, u)
        /\ \A i \in 0..n0 - 1 : f[i] = seq[i + 1] /\ seq[i + 1] \in Nat
    BY OnesRise
  <2>2. w.size = n0 /\ w.universe = u /\ w.ones = Values(f, 0, n0)
    BY RbWritten
  <2>3. m \in 0..n0 /\ \A i \in 0..n0 - 1 : seq[i + 1] < bound <=> i < m
    BY <2>1, BelowSplits
  <2>4. pos \in 0..n0 - 1 /\ pos < n0
    <3>1. pos \in 0..n0
      BY DEF InStep, Cursor
    <3> HIDE DEF m, pos, n0
    <3>2. pos < m
      BY DEF m, pos
    <3> QED
      BY <2>1, <2>3, <3>1, <3>2
  <2>5. c0.reader = HasRead(f[pos])
    BY <2>4 DEF InStep
  <2> QED
    BY <2>1, <2>2, <2>3, <2>4, <2>5
<1>2. ASSUME NEW j \in pos + 1..n0 - 1 PROVE read(j) = HasRead(f[j]) /\ read(j).at = seq[j + 1]
  <2> HIDE DEF f, n0, pos, m
  <2>1. j \in 0..n0 - 1 /\ pos \in 0..j - 1
    BY <1>1
  <2>2. read(j) = HasRead(f[j])
    BY <1>1, <2>1, OneReached
  <2> HIDE DEF read
  <2> QED
    BY <1>1, <2>1, <2>2 DEF HasRead
<1>3. \A j \in pos + 1..n0 - 1 : read(j).at >= bound <=> j >= m
  <2> SUFFICES ASSUME NEW j \in pos + 1..n0 - 1 PROVE read(j).at >= bound <=> j >= m
    OBVIOUS
  <2>1. j \in 0..n0 - 1
    BY <1>1
  <2>2. seq[j + 1] \in Nat /\ read(j).at = seq[j + 1] /\ (seq[j + 1] < bound <=> j < m)
    BY <1>1, <1>2, <2>1
  <2> HIDE DEF read, m, n0
  <2> QED
    BY <1>1, <2>1, <2>2
<1>4. Min(found) = m
  <2>1. found \subseteq Nat /\ found # {}
    BY <1>1
  <2>2. Min(found) \in found /\ \A y \in found : Min(found) <= y
    <3> HIDE DEF found
    <3> QED
      BY <2>1, MinOfNaturals
  <2>3. m = n0 \/ m \in pos + 1..n0 - 1
    <3> HIDE DEF m, n0, pos
    <3> QED
      BY <1>1
  <2>4. m \in found
    <3>1. m \in pos + 1..n0 - 1 => read(m).at >= bound
      <4> HIDE DEF m, n0, pos, read
      <4> QED
        BY <1>1, <1>3
    <3> HIDE DEF m, n0, pos, read
    <3> QED
      BY <2>3, <3>1
  <2>5. \A y \in found : m <= y
    <3> HIDE DEF m, n0, pos, read
    <3> QED
      BY <1>1, <1>3
  <2>6. Min(found) <= m /\ m <= Min(found)
    BY <2>2, <2>4, <2>5
  <2>7. Min(found) \in Nat /\ m \in Nat
    BY <1>1, <2>1, <2>2
  <2> HIDE DEF found, m
  <2> QED
    BY <2>6, <2>7
<1>5. Encoding!RB!ScanForward(w, c0, bound) =
        IF m = n0 THEN [position |-> m, value |-> u, reader |-> read(m - 1)]
        ELSE Encoding!RB!At(m, read(m))
  <2>1. Encoding!RB!ScanForward(w, c0, bound) =
          LET stop == Min(found)
          IN IF stop = n0 THEN [position |-> stop, value |-> u, reader |-> read(stop - 1)]
             ELSE Encoding!RB!At(stop, read(stop))
    BY <1>1, ReadersOfRankedBitvector DEF Encoding!RB!ScanForward
  <2> HIDE DEF found, read, m, n0
  <2> QED
    BY <1>4, <2>1
<1>6. CASE m = n0
  <2> HIDE DEF m, read
  <2> QED
    BY <1>5, <1>6, RbAtEnd DEF m
<1>7. CASE m # n0
  <2>1. m \in pos + 1..n0 - 1 /\ m \in 0..n0 - 1
    <3> HIDE DEF m, n0, pos
    <3> QED
      BY <1>1, <1>7
  <2>2. read(m) = HasRead(f[m])
    <3> HIDE DEF m, read, f
    <3> QED
      BY <1>2, <2>1
  <2>3. Encoding!RB!ScanForward(w, c0, bound) = Encoding!RB!At(m, HasRead(f[m]))
    <3> HIDE DEF m, read, f, n0
    <3> QED
      BY <1>5, <1>7, <2>2
  <2> HIDE DEF m
  <2>4. InStep(Encoding!RB!At(m, HasRead(f[m])), seq, u, Ones(seq)) /\ Encoding!RB!At(m, HasRead(f[m])).position = m
    BY <2>1, RbAtPosition
  <2> QED
    BY <2>3, <2>4 DEF m
<1> QED
  BY <1>6, <1>7

(* The rank samples count the ones below their bits, and the ones counted  *)
(* on from a bit make the rank of the bound.                               *)
LEMMA RbSampledRank ==
  ASSUME NEW seq, NEW u, Strict(seq, u), NEW w, w = Encoding!RB!Written(seq, u),
         2 ^ RbLogRank1Sampling \in Nat \ {0}, NEW bound \in 0..u - 1
  PROVE  /\ (bound \div 2 ^ RbLogRank1Sampling) * 2 ^ RbLogRank1Sampling \in 0..bound
         /\ Encoding!RB!Pointer(w.rank1Samples, bound \div 2 ^ RbLogRank1Sampling) =
              Below(seq, (bound \div 2 ^ RbLogRank1Sampling) * 2 ^ RbLogRank1Sampling)
<1> DEFINE S == 2 ^ RbLogRank1Sampling
           k == bound \div S
           bit == k * S
           n0 == Len(seq)
           m == Below(seq, bit)
           begins(i) == (IF i = 0 THEN 0 ELSE seq[i]) + 1
           ends(i)   == IF i = n0 THEN u ELSE seq[i + 1] + 1
           runs      == {i \in 0..n0 : begins(i) <= bit /\ bit < ends(i)}
<1>1. /\ n0 \in Nat /\ SortedBelow(seq, u) /\ u \in Nat /\ S \in Nat \ {0} /\ bound \in Nat /\ bound < u
      /\ \A i \in 0..n0 - 1 : seq[i + 1] \in Nat
      /\ \A i \in 1..n0 : seq[i] \in Nat
  <2>1. n0 \in Nat /\ SortedBelow(seq, u) /\ \A i \in 0..n0 - 1 : seq[i + 1] \in Nat
    BY OnesRise
  <2>2. u \in Nat /\ \A i \in 1..n0 : seq[i] \in Nat
    BY <2>1, SortedValues DEF SortedBelow
  <2> QED
    BY <2>1, <2>2
<1>2. /\ bit \in 0..bound /\ k \in Nat /\ (k = 0 => bit = 0)
      /\ k # 0 => bit >= 1
  <2> HIDE DEF S
  <2>1. bit \in 0..bound /\ k \in Nat
    BY <1>1, MultipleBelow
  <2>2. k = 0 => bit = 0
    BY <1>1, Z3
  <2>3. ASSUME k # 0 PROVE bit # 0
    <3> HIDE DEF k
    <3> QED
      BY <1>1, <2>1, <2>3, Z3 DEF bit
  <2> HIDE DEF bit, k
  <2> QED
    BY <1>1, <2>1, <2>2, <2>3
<1>3. bit \in Int /\ bit < u
  <2> HIDE DEF bit
  <2> QED
    BY <1>1, <1>2
<1>4. m \in 0..n0 /\ \A i \in 0..n0 - 1 : seq[i + 1] < bit <=> i < m
  <2> HIDE DEF bit
  <2> QED
    BY <1>1, <1>3, BelowSplits
<1>5. CASE k = 0
  <2>1. m = 0
    <3>1. m # 0 => 0 \in 0..n0 - 1 /\ 0 < m
      <4> HIDE DEF m
      <4> QED
        BY <1>1, <1>4
    <3>2. 0 \in 0..n0 - 1 /\ 0 < m => seq[0 + 1] < 0 /\ seq[0 + 1] \in Nat
      <4> HIDE DEF m, bit
      <4> QED
        BY <1>1, <1>2, <1>4, <1>5
    <3> HIDE DEF m
    <3> QED
      BY <3>1, <3>2
  <2> HIDE DEF m
  <2> QED
    BY <1>2, <1>5, <2>1 DEF Encoding!RB!Pointer, m
<1>6. CASE k # 0
  <2>1. w.rank1Samples[k] = Encoding!RB!Rank1Sample(seq, u, bit)
    <3>1. k \in 1..u \div S
      <4> HIDE DEF S
      <4>1. k <= u \div S /\ u \div S \in Nat
        <5>1. bound <= u
          BY <1>1
        <5> QED
          BY <1>1, <5>1, QuotientGrows, DivisionOfNaturals
      <4> DEFINE top == u \div S
      <4> HIDE DEF top, k
      <4>2. k \in 1..top
        BY <1>2, <1>6, <4>1 DEF top
      <4> QED
        BY <4>2 DEF top
    <3> QED
      BY <3>1, RbWritten
  <2>2. ASSUME NEW i \in 0..n0 PROVE begins(i) <= bit <=> i <= m
    <3> HIDE DEF m, bit, n0
    <3>1. CASE i = 0
      BY <1>1, <1>2, <1>4, <1>6, <3>1
    <3>2. CASE i # 0
      <4>1. i - 1 \in 0..n0 - 1 /\ (i - 1) + 1 = i /\ i \in 1..n0
        BY <1>1, <3>2
      <4>2. seq[i] < bit <=> i - 1 < m
        BY <1>4, <4>1
      <4>3. seq[i] \in Nat /\ begins(i) = seq[i] + 1
        BY <1>1, <3>2, <4>1
      <4> HIDE DEF begins
      <4> QED
        BY <1>1, <1>3, <1>4, <4>1, <4>2, <4>3
    <3> QED
      BY <3>1, <3>2
  <2>3. ASSUME NEW i \in 0..n0 PROVE bit < ends(i) <=> i >= m
    <3> HIDE DEF m, bit
    <3>1. CASE i = n0
      <4> HIDE DEF n0
      <4> QED
        BY <1>1, <1>3, <1>4, <3>1
    <3>2. CASE i # n0
      <4>1. i \in 0..n0 - 1
        BY <1>1, <3>2
      <4>2. seq[i + 1] \in Nat /\ (seq[i + 1] < bit <=> i < m) /\ ends(i) = seq[i + 1] + 1
        BY <1>1, <1>4, <3>2, <4>1
      <4> HIDE DEF ends, n0
      <4> QED
        BY <1>1, <1>3, <1>4, <4>1, <4>2
    <3> QED
      BY <3>1, <3>2
  <2>4. runs = {m}
    <3> HIDE DEF m, bit, n0, begins, ends
    <3> QED
      BY <1>1, <1>4, <2>2, <2>3
  <2>5. Max(runs) = m
    <3> HIDE DEF m, runs
    <3>1. m \in Nat /\ runs \subseteq 0..m /\ runs # {}
      BY <1>1, <1>4, <2>4
    <3>2. Max(runs) \in runs
      BY <3>1, MaxOfNaturals
    <3> QED
      BY <2>4, <3>2
  <2>6. Encoding!RB!Rank1Sample(seq, u, bit) = (IF runs = {} THEN 0 ELSE Max(runs))
    BY ReadersOfRankedBitvector DEF Encoding!RB!Rank1Sample
  <2>7. w.rank1Samples[k] = m
    <3> HIDE DEF m, runs
    <3> QED
      BY <2>1, <2>4, <2>5, <2>6
  <2> HIDE DEF m
  <2> QED
    BY <1>2, <1>6, <2>7 DEF Encoding!RB!Pointer, m
<1> QED
  BY <1>5, <1>6

LEMMA RbCounted ==
  ASSUME NEW seq, NEW u, Strict(seq, u), NEW bound \in Nat, NEW begin \in 0..bound
  PROVE  /\ Below(seq, begin) \in Nat /\ Below(seq, bound) \in Nat
         /\ Below(seq, begin) + Cardinality(Values(Ones(seq), 0, Len(seq)) \cap begin..bound - 1) =
              Below(seq, bound)
<1> DEFINE f == Ones(seq)
           n0 == Len(seq)
           a == Below(seq, begin)
           m == Below(seq, bound)
<1>1. /\ n0 \in Nat /\ SortedBelow(seq, u) /\ Rising(f, n0)
      /\ \A i \in 0..n0 - 1 : f[i] = seq[i + 1] /\ seq[i + 1] \in Nat
  BY OnesRise
<1>2. begin \in Int /\ bound \in Int
  OBVIOUS
<1>3. /\ a \in 0..n0 /\ m \in 0..n0
      /\ \A i \in 0..n0 - 1 : (seq[i + 1] < begin <=> i < a) /\ (seq[i + 1] < bound <=> i < m)
  <2>1. a \in 0..n0 /\ \A i \in 0..n0 - 1 : seq[i + 1] < begin <=> i < a
    BY <1>1, <1>2, BelowSplits
  <2>2. m \in 0..n0 /\ \A i \in 0..n0 - 1 : seq[i + 1] < bound <=> i < m
    BY <1>1, <1>2, BelowSplits
  <2> QED
    BY <2>1, <2>2
<1> HIDE DEF f, n0, a, m
<1>4. a <= m
  <2> SUFFICES ASSUME m < a PROVE FALSE
    BY <1>1, <1>3
  <2>1. m \in 0..n0 - 1
    BY <1>1, <1>3
  <2>2. seq[m + 1] < begin /\ ~(seq[m + 1] < bound) /\ seq[m + 1] \in Nat
    BY <1>1, <1>3, <2>1
  <2> QED
    BY <2>2
<1>5. Values(f, 0, n0) \cap begin..bound - 1 = Values(f, a, m)
  <2>1. \A i \in 0..n0 - 1 : f[i] \in begin..bound - 1 <=> i \in a..m - 1
    <3> SUFFICES ASSUME NEW i \in 0..n0 - 1 PROVE f[i] \in begin..bound - 1 <=> i \in a..m - 1
      OBVIOUS
    <3>1. f[i] \in Nat /\ (f[i] < begin <=> i < a) /\ (f[i] < bound <=> i < m)
      BY <1>1, <1>3
    <3> QED
      BY <1>1, <1>3, <3>1
  <2>2. \A i \in a..m - 1 : i \in 0..n0 - 1
    BY <1>1, <1>3
  <2> QED
    BY <2>1, <2>2 DEF Values
<1>6. Cardinality(Values(f, a, m)) = m - a
  <2>1. a \in 0..n0 /\ m \in a..n0
    BY <1>1, <1>3, <1>4
  <2> QED
    BY <1>1, <2>1, CountOfValues
<1>7. a \in Nat /\ m \in Nat /\ a + (m - a) = m
  BY <1>1, <1>3
<1> QED
  BY <1>5, <1>6, <1>7 DEF a, m, f, n0

LEMMA RbNextGeq ==
  ASSUME NEW seq, NEW u, Strict(seq, u), NEW w, w = Encoding!RB!Written(seq, u),
         2 ^ RbLogRank1Sampling \in Nat \ {0}, 2 ^ RbLogSampling1 \in Nat \ {0},
         LinearScanThreshold \in Nat,
         NEW c0, InStep(c0, seq, u, Ones(seq)), NEW bound \in 0..u
  PROVE  /\ InStep(Encoding!RB!NextGeq(w, c0, bound), seq, u, Ones(seq))
         /\ Encoding!RB!NextGeq(w, c0, bound).position =
              IF c0.value = bound THEN c0.position ELSE Below(seq, bound)
<1> DEFINE f == Ones(seq)
           n0 == Len(seq)
           pos == c0.position
           m == Below(seq, bound)
           S == 2 ^ RbLogRank1Sampling
<1>1. /\ n0 \in Nat /\ SortedBelow(seq, u) /\ Rising(f, n0)
      /\ \A i \in 0..n0 - 1 : f[i] = seq[i + 1] /\ seq[i + 1] \in Nat
      /\ w.size = n0 /\ w.universe = u /\ w.ones = Values(f, 0, n0)
      /\ u \in Nat /\ bound \in Nat /\ bound \in Int /\ Cursor(c0, seq, u) /\ pos \in 0..n0
  <2>1. /\ n0 \in Nat /\ SortedBelow(seq, u) /\ Rising(f, n0)
        /\ \A i \in 0..n0 - 1 : f[i] = seq[i + 1] /\ seq[i + 1] \in Nat
    BY OnesRise
  <2>2. w.size = n0 /\ w.universe = u /\ w.ones = Values(f, 0, n0)
    BY RbWritten
  <2>3. u \in Nat
    BY <2>1 DEF SortedBelow
  <2>4. Cursor(c0, seq, u) /\ pos \in 0..n0
    BY DEF InStep, Cursor
  <2> QED
    BY <2>1, <2>2, <2>3, <2>4
<1>2. m \in 0..n0 /\ \A i \in 0..n0 - 1 : seq[i + 1] < bound <=> i < m
  BY <1>1, BelowSplits
<1>3. CASE bound = c0.value
  BY <1>3 DEF Encoding!RB!NextGeq
<1>4. ASSUME bound > c0.value
      PROVE  pos \in 0..n0 - 1 /\ c0.value = seq[pos + 1] /\ c0.value \in Nat /\ pos < m
  <2>1. c0.value \in Nat
    <3>1. CASE pos < n0
      <4>1. pos \in 0..n0 - 1
        BY <1>1, <3>1
      <4> QED
        BY <1>1, <3>1, <4>1 DEF Cursor, ValueAt
    <3>2. CASE ~(pos < n0)
      BY <1>1, <3>2 DEF Cursor, ValueAt
    <3> QED
      BY <3>1, <3>2
  <2>2. c0.value < u
    BY <1>1, <1>4, <2>1
  <2>3. pos \in 0..n0 - 1 /\ c0.value = seq[pos + 1]
    BY <1>1, <2>2, BeforeTheEnd
  <2>4. pos < m
    BY <1>1, <1>2, <1>4, <2>1, <2>3
  <2> QED
    BY <2>1, <2>3, <2>4
<1>5. CASE bound > c0.value /\ bound - c0.value <= LinearScanThreshold
  <2>1. bound # c0.value
    BY <1>1, <1>4, <1>5
  <2>2. Encoding!RB!NextGeq(w, c0, bound) = Encoding!RB!ScanForward(w, c0, bound)
    BY <1>5, <2>1 DEF Encoding!RB!NextGeq
  <2>3. pos < m
    BY <1>4, <1>5
  <2> QED
    BY <1>1, <2>1, <2>2, <2>3, RbScan
<1>6. CASE bound # c0.value /\ ~(bound > c0.value /\ bound - c0.value <= LinearScanThreshold)
  <2>1. Encoding!RB!NextGeq(w, c0, bound) = Encoding!RB!SlowNextGeq(w, c0, bound)
    BY <1>6 DEF Encoding!RB!NextGeq
  <2>2. CASE bound = u
    <3>1. Encoding!RB!SlowNextGeq(w, c0, bound) = Encoding!RB!Move(w, c0, n0)
      BY <1>1, <2>2 DEF Encoding!RB!SlowNextGeq
    <3>2. n0 \in 0..n0
      BY <1>1
    <3>3. InStep(Encoding!RB!Move(w, c0, n0), seq, u, Ones(seq)) /\ Encoding!RB!Move(w, c0, n0).position = n0
      BY <3>2, RbMove
    <3>4. m = n0
      <4>1. n0 # 0
        BY <1>1, SortedValues
      <4>2. n0 - 1 \in 0..n0 - 1 /\ n0 \in 1..n0 /\ (n0 - 1) + 1 = n0
        BY <1>1, <4>1
      <4>3. seq[n0] < u
        BY <1>1, <4>2, SortedValues
      <4>4. n0 - 1 < m
        BY <1>2, <2>2, <4>2, <4>3
      <4> HIDE DEF m, n0
      <4> QED
        BY <1>1, <1>2, <4>4
    <3> QED
      BY <1>6, <2>1, <3>1, <3>3, <3>4
  <2>3. CASE bound # u
    <3> DEFINE near  == bound > c0.value /\ Encoding!RB!Shifted(bound - c0.value, RbLogRank1Sampling) = 0
               block == bound \div S
               begin == IF near THEN c0.value ELSE block * S
               rank  == IF near THEN pos ELSE Encoding!RB!Pointer(w.rank1Samples, block)
               p     == rank + Cardinality(w.ones \cap begin..bound - 1)
    <3>1. bound \in 0..u - 1 /\ ~(bound >= u)
      BY <1>1, <2>3
    <3>2. begin \in 0..bound /\ rank = Below(seq, begin)
      <4>1. CASE near
        <5>1. pos \in 0..n0 - 1 /\ c0.value = seq[pos + 1] /\ c0.value \in Nat /\ c0.value < bound
          BY <1>4, <4>1
        <5>2. begin = c0.value /\ rank = pos
          BY <4>1
        <5>3. Below(seq, c0.value) = pos
          <6> DEFINE a == Below(seq, c0.value)
          <6>1. c0.value \in Int
            BY <5>1
          <6>2. a \in 0..n0 /\ \A i \in 0..n0 - 1 : seq[i + 1] < c0.value <=> i < a
            BY <1>1, <6>1, BelowSplits
          <6> HIDE DEF a, pos
          <6>3. ~(pos < a)
            <7>1. ~(seq[pos + 1] < c0.value)
              BY <5>1
            <7> QED
              BY <5>1, <6>2, <7>1
          <6>4. ~(a < pos)
            <7> SUFFICES ASSUME a < pos PROVE FALSE
              OBVIOUS
            <7>1. a \in 0..n0 - 1 /\ ~(a < a)
              BY <1>1, <5>1, <6>2
            <7>2. f[a] < f[pos]
              BY <1>1, <5>1, <7>1 DEF Rising
            <7>3. f[a] = seq[a + 1] /\ f[pos] = seq[pos + 1]
              BY <1>1, <5>1, <7>1
            <7> HIDE DEF f
            <7>4. seq[a + 1] < c0.value
              BY <5>1, <7>2, <7>3
            <7> QED
              BY <6>2, <7>1, <7>4
          <6> QED
            BY <1>1, <5>1, <6>2, <6>3, <6>4 DEF a
        <5> HIDE DEF begin, rank, near
        <5> QED
          BY <1>1, <5>1, <5>2, <5>3
      <4>2. CASE ~near
        <5>1. begin = block * S /\ rank = Encoding!RB!Pointer(w.rank1Samples, block)
          BY <4>2
        <5> HIDE DEF begin, rank
        <5> QED
          BY <3>1, <5>1, RbSampledRank
      <4> QED
        BY <4>1, <4>2
    <3>3. p = m
      <4> HIDE DEF begin, rank, f, n0, m
      <4> QED
        BY <1>1, <3>2, RbCounted DEF f, n0, m
    <3> HIDE DEF near, block, begin, rank
    <3>4. Encoding!RB!SlowNextGeq(w, c0, bound) =
            IF m < n0 THEN Encoding!RB!At(m, NextOne(w.ones, ReaderAt(bound), 1))
            ELSE [position |-> m, value |-> u, reader |-> ReaderAt(bound)]
      <4>1. Encoding!RB!SlowNextGeq(w, c0, bound) =
              IF p < n0 THEN Encoding!RB!At(p, NextOne(w.ones, ReaderAt(bound), 1))
              ELSE [position |-> p, value |-> u, reader |-> ReaderAt(bound)]
        BY <1>1, <3>1, ReadersOfRankedBitvector
           DEF Encoding!RB!SlowNextGeq, Encoding!RB!Shifted, near, block, begin, rank
      <4> HIDE DEF p, m
      <4> QED
        BY <3>3, <4>1
    <3>5. CASE m < n0
      <4>1. m \in 0..n0 - 1
        BY <1>1, <1>2, <3>5
      <4>2. Before(f, n0, ReaderAt(bound), m)
        <5>1. \A i \in 0..n0 - 1 : f[i] >= bound <=> i >= m
          <6> HIDE DEF f, m, n0
          <6> QED
            BY <1>1, <1>2
        <5> HIDE DEF f, m, n0
        <5> QED
          BY <1>1, <1>2, <5>1, OpenedAtABit
      <4>3. NextOne(w.ones, ReaderAt(bound), 1) = HasRead(f[m])
        <5> HIDE DEF f, m, n0
        <5> QED
          BY <1>1, <4>1, <4>2, OneReached
      <4> HIDE DEF m
      <4>4. /\ InStep(Encoding!RB!At(m, HasRead(f[m])), seq, u, Ones(seq))
            /\ Encoding!RB!At(m, HasRead(f[m])).position = m
        BY <4>1, RbAtPosition
      <4> QED
        BY <1>6, <2>1, <3>4, <3>5, <4>3, <4>4 DEF m
    <3>6. CASE ~(m < n0)
      <4> HIDE DEF m
      <4>1. m = n0
        BY <1>1, <1>2, <3>6
      <4>2. InStep([position |-> n0, value |-> u, reader |-> ReaderAt(bound)], seq, u, Ones(seq))
        BY RbAtEnd
      <4> QED
        BY <1>6, <2>1, <3>4, <3>6, <4>1, <4>2 DEF m
    <3> QED
      BY <3>5, <3>6
  <2> QED
    BY <2>2, <2>3
<1> QED
  BY <1>3, <1>5, <1>6

LEMMA RbFollowing ==
  ASSUME NEW seq, NEW u, Strict(seq, u), NEW w, w = Encoding!RB!Written(seq, u),
         NEW c0, InStep(c0, seq, u, Ones(seq)), c0.position < Len(seq)
  PROVE  /\ InStep(Encoding!RB!Following(w, c0), seq, u, Ones(seq))
         /\ Encoding!RB!Following(w, c0).position = c0.position + 1
<1> DEFINE f == Ones(seq)
           n0 == Len(seq)
           pos == c0.position
<1>1. /\ n0 \in Nat /\ pos \in 0..n0 - 1 /\ Rising(f, n0) /\ c0.reader = HasRead(f[pos])
      /\ w.size = n0 /\ w.universe = u /\ w.ones = Values(f, 0, n0)
  <2>1. n0 \in Nat /\ Rising(f, n0)
    BY OnesRise
  <2>2. w.size = n0 /\ w.universe = u /\ w.ones = Values(f, 0, n0)
    BY RbWritten
  <2> QED
    BY <2>1, <2>2 DEF InStep, Cursor
<1>2. CASE pos + 1 < n0
  <2>1. pos + 1 \in 0..n0 - 1 /\ pos \in 0..(pos + 1) - 1 /\ (pos + 1) - pos = 1
    BY <1>1, <1>2
  <2>2. NextOne(w.ones, c0.reader, 1) = HasRead(f[pos + 1])
    <3> DEFINE p == pos + 1
    <3>1. p \in 0..n0 - 1 /\ pos \in 0..p - 1 /\ p - pos = 1
      BY <2>1
    <3> HIDE DEF f, n0, pos, p
    <3>2. NextOne(Values(f, 0, n0), HasRead(f[pos]), p - pos) = HasRead(f[p])
      BY <1>1, <3>1, OneReached
    <3> QED
      BY <1>1, <3>1, <3>2 DEF p
  <2>3. Encoding!RB!Following(w, c0) = Encoding!RB!At(pos + 1, HasRead(f[pos + 1]))
    BY <1>1, <1>2, <2>2, ReadersOfRankedBitvector DEF Encoding!RB!Following
  <2> DEFINE p == pos + 1
  <2>4. p \in 0..n0 - 1
    BY <2>1
  <2> HIDE DEF p
  <2>5. /\ InStep(Encoding!RB!At(p, HasRead(f[p])), seq, u, Ones(seq))
        /\ Encoding!RB!At(p, HasRead(f[p])).position = p
    BY <2>4, RbAtPosition
  <2> QED
    BY <2>3, <2>5 DEF p
<1>3. CASE ~(pos + 1 < n0)
  <2>1. pos + 1 = n0
    BY <1>1, <1>3
  <2>2. Encoding!RB!Following(w, c0) = [position |-> n0, value |-> u, reader |-> c0.reader]
    BY <1>1, <1>3, <2>1 DEF Encoding!RB!Following
  <2> QED
    BY <2>1, <2>2, RbAtEnd
<1> QED
  BY <1>2, <1>3

LEMMA RbPrevValue ==
  ASSUME NEW seq, NEW u, Strict(seq, u), NEW w, w = Encoding!RB!Written(seq, u),
         NEW c0, InStep(c0, seq, u, Ones(seq))
  PROVE  Encoding!RB!PrevValue(w, c0) = IF c0.position = 0 THEN 0 ELSE seq[c0.position]
<1> DEFINE f == Ones(seq)
           n0 == Len(seq)
           pos == c0.position
           bits == IF pos < n0 THEN {b \in w.ones : b < c0.reader.at} ELSE w.ones
<1>1. /\ n0 \in Nat /\ pos \in 0..n0 /\ Rising(f, n0) /\ w.size = n0 /\ w.ones = Values(f, 0, n0)
      /\ \A i \in 0..n0 - 1 : f[i] = seq[i + 1]
  <2>1. n0 \in Nat /\ Rising(f, n0) /\ \A i \in 0..n0 - 1 : f[i] = seq[i + 1]
    BY OnesRise
  <2>2. w.size = n0 /\ w.ones = Values(f, 0, n0)
    BY RbWritten
  <2> QED
    BY <2>1, <2>2 DEF InStep, Cursor
<1>2. CASE pos = 0
  BY <1>2 DEF Encoding!RB!PrevValue
<1>3. CASE pos # 0
  <2>1. bits = Values(f, 0, pos)
    <3>1. CASE pos < n0
      <4>1. pos \in 0..n0 - 1 /\ c0.reader = HasRead(f[pos])
        BY <1>1, <3>1 DEF InStep
      <4>2. c0.reader.at = f[pos]
        BY <4>1 DEF HasRead
      <4> HIDE DEF f
      <4> QED
        BY <1>1, <3>1, <4>1, <4>2, OnesBefore
    <3>2. CASE ~(pos < n0)
      BY <1>1, <3>2
    <3> QED
      BY <3>1, <3>2
  <2>2. pos \in 1..n0 /\ pos - 1 \in 0..n0 - 1 /\ (pos - 1) + 1 = pos
    BY <1>1, <1>3
  <2>3. Max(bits) = f[pos - 1]
    <3> HIDE DEF bits, f, pos, n0
    <3> QED
      BY <1>1, <2>1, <2>2, LastOne
  <2>4. Encoding!RB!PrevValue(w, c0) = Max(bits)
    BY <1>1, <1>3, ReadersOfRankedBitvector DEF Encoding!RB!PrevValue
  <2>5. f[pos - 1] = seq[pos]
    BY <1>1, <2>2
  <2> HIDE DEF bits, f
  <2> QED
    BY <1>3, <2>3, <2>4, <2>5
<1> QED
  BY <1>2, <1>3

-----------------------------------------------------------------------------
(* Increasing elements below their number are all the numbers below it.    *)
LEMMA AllOnesElements ==
  ASSUME NEW seq, NEW u, Strict(seq, u), u = Len(seq)
  PROVE  \A i \in 0..Len(seq) - 1 : seq[i + 1] = i
<1> DEFINE f == Ones(seq)
           n0 == Len(seq)
           V == Values(f, 0, n0)
<1>1. /\ n0 \in Nat /\ Rising(f, n0)
      /\ \A i \in 0..n0 - 1 : f[i] = seq[i + 1] /\ seq[i + 1] \in 0..n0 - 1
  <2>1. /\ n0 \in Nat /\ Rising(f, n0) /\ SortedBelow(seq, u)
        /\ \A i \in 0..n0 - 1 : f[i] = seq[i + 1] /\ seq[i + 1] \in Nat
    BY OnesRise
  <2>2. \A i \in 0..n0 - 1 : i + 1 \in 1..n0
    BY <2>1
  <2>3. \A i \in 0..n0 - 1 : seq[i + 1] < n0
    BY <2>1, <2>2, SortedValues
  <2> HIDE DEF f, n0
  <2>4. ASSUME NEW i \in 0..n0 - 1 PROVE seq[i + 1] \in 0..n0 - 1
    <3>1. seq[i + 1] \in Nat /\ seq[i + 1] < n0
      BY <2>1, <2>3
    <3> QED
      BY <2>1, <3>1
  <2> QED
    BY <2>1, <2>4
<1> HIDE DEF f, n0
<1>2. V = 0..n0 - 1
  <2>1. IsFiniteSet(0..n0 - 1) /\ Cardinality(0..n0 - 1) = n0
    <3>1. 0 \in Int /\ n0 - 1 \in Int
      BY <1>1
    <3>2. /\ IsFiniteSet(0..n0 - 1)
          /\ Cardinality(0..n0 - 1) = IF 0 > n0 - 1 THEN 0 ELSE (n0 - 1) - 0 + 1
      BY <3>1, FS_Interval
    <3> QED
      BY <1>1, <3>2
  <2>2. Cardinality(V) = n0
    <3>1. 0 \in 0..n0 /\ n0 \in 0..n0 /\ n0 - 0 = n0
      BY <1>1
    <3>2. Cardinality(V) = n0 - 0
      BY <1>1, <3>1, CountOfValues
    <3> QED
      BY <3>1, <3>2
  <2>3. V \in SUBSET (0..n0 - 1)
    BY <1>1 DEF Values
  <2> HIDE DEF V
  <2> QED
    BY <2>1, <2>2, <2>3, FS_Subset
<1>3. ASSUME NEW i \in 0..n0 - 1 PROVE f[i] = i
  <2>1. f[i] \in 0..n0 - 1
    BY <1>1
  <2>2. {b \in V : b < f[i]} = Values(f, 0, i)
    BY <1>1, OnesBefore
  <2>3. Cardinality(Values(f, 0, i)) = i
    <3>1. 0 \in 0..n0 /\ i \in 0..n0 /\ i - 0 = i
      BY <1>1
    <3>2. Cardinality(Values(f, 0, i)) = i - 0
      BY <1>1, <3>1, CountOfValues
    <3> QED
      BY <3>1, <3>2
  <2>4. {b \in V : b < f[i]} = 0..f[i] - 1
    <3> HIDE DEF V
    <3> QED
      BY <1>1, <1>2, <2>1
  <2>5. Cardinality(0..f[i] - 1) = f[i]
    <3>1. 0 \in Int /\ f[i] - 1 \in Int /\ f[i] \in Nat
      BY <1>1, <2>1
    <3>2. Cardinality(0..f[i] - 1) = IF 0 > f[i] - 1 THEN 0 ELSE (f[i] - 1) - 0 + 1
      BY <3>1, FS_Interval
    <3> QED
      BY <3>1, <3>2
  <2> QED
    BY <2>2, <2>3, <2>4, <2>5
<1> QED
  BY <1>1, <1>3 DEF n0

LEMMA AllOnesValue ==
  ASSUME NEW seq, NEW u, Strict(seq, u), u = Len(seq), NEW p \in 0..Len(seq)
  PROVE  ValueAt(seq, u, p) = p /\ Below(seq, p) = p
<1> DEFINE n0 == Len(seq)  m == Below(seq, p)
<1>1. n0 \in Nat /\ \A i \in 0..n0 - 1 : seq[i + 1] = i
  BY OnesRise, AllOnesElements
<1>2. ValueAt(seq, u, p) = p
  BY <1>1 DEF ValueAt
<1>3. SortedBelow(seq, u) /\ p \in Int
  BY OnesRise
<1>4. m \in 0..n0 /\ \A i \in 0..n0 - 1 : seq[i + 1] < p <=> i < m
  BY <1>3, BelowSplits
<1>5. \A i \in 0..n0 - 1 : i < p <=> i < m
  BY <1>1, <1>4
<1> HIDE DEF n0, m
<1>6. p \in 0..n0
  BY DEF n0
<1>7. ~(p < m)
  <2> SUFFICES ASSUME p < m PROVE FALSE
    OBVIOUS
  <2>1. p \in 0..n0 - 1
    BY <1>1, <1>4, <1>6
  <2> QED
    BY <1>5, <2>1
<1>8. ~(m < p)
  <2> SUFFICES ASSUME m < p PROVE FALSE
    OBVIOUS
  <2>1. m \in 0..n0 - 1
    BY <1>1, <1>4, <1>6
  <2> QED
    BY <1>4, <1>5, <2>1
<1>9. m = p
  BY <1>1, <1>4, <1>6, <1>7, <1>8
<1> QED
  BY <1>2, <1>9 DEF m

-----------------------------------------------------------------------------
(* What the calls rely on: the enumerator is of the type that was written, *)
(* and its cursor is in step with the data of that type.  Of a segment     *)
(* only the type is said.                                                  *)
Types == {"elias_fano", "ranked_bitvector", "all_ones", "segment"}

EliasFanoInStep ==
  /\ bv.data = Encoding!EF!Written(elements, universe)
  /\ InStep(enumerator.at, elements, universe, High(elements, universe))

RankedBitvectorInStep ==
  /\ Strict(elements, universe)
  /\ bv.data = Encoding!RB!Written(elements, universe)
  /\ InStep(enumerator.at, elements, universe, Ones(elements))

AllOnesInStep ==
  /\ Strict(elements, universe) /\ universe = n
  /\ \E p \in 0..n : enumerator.at = Encoding!AllOnesAt(p)

EnumeratorInStep ==
  /\ bv.type \in Types
  /\ enumerator = [type |-> bv.type, at |-> enumerator.at]
  /\ SortedBelow(elements, universe)
  /\ bv.type = "elias_fano" => EliasFanoInStep
  /\ bv.type = "ranked_bitvector" => RankedBitvectorInStep
  /\ bv.type = "all_ones" => AllOnesInStep

\* a call has answered with the position p
AnsweredWith(p) ==
  /\ enumerator'.at.position = p
  /\ enumerator'.at.value = ValueAt(elements, universe, p)

(* The sampling rates are powers of two.                                   *)
LEMMA SamplingRates ==
  /\ 2 ^ EfLogSampling0 \in Nat \ {0} /\ 2 ^ EfLogSampling1 \in Nat \ {0}
  /\ 2 ^ RbLogRank1Sampling \in Nat \ {0} /\ 2 ^ RbLogSampling1 \in Nat \ {0}
  /\ LinearScanThreshold \in Nat
<1> DEFINE power(log) == 2 ^ log
<1>1. \A log \in {EfLogSampling0, EfLogSampling1, RbLogRank1Sampling, RbLogSampling1} :
        power(log) \in Nat \ {0}
  BY PowersOfTwo
<1> HIDE DEF power
<1>2. /\ power(EfLogSampling0) \in Nat \ {0} /\ power(EfLogSampling1) \in Nat \ {0}
      /\ power(RbLogRank1Sampling) \in Nat \ {0} /\ power(RbLogSampling1) \in Nat \ {0}
  BY <1>1
<1> QED
  BY <1>2, IndexedSequenceAssumption DEF power

(* Write and the constructor agree on the type, and begin at the end.      *)
LEMMA InitInStep ==
  ASSUME Init
  PROVE  /\ EnumeratorInStep
         /\ bv.type = "segment" \/ (enumerator.at.position = n /\ enumerator.at.value = universe)
<1> DEFINE best == Encoding!BestType(hybrid, universe, n)
<1>1. SortedBelow(elements, universe)
  <2>1. PICK s \in Inputs : elements = s.elements /\ universe = s.universe
    BY DEF Init
  <2>2. 2 ^ Encoding!EF!LowerBits(s.universe, Len(s.elements)) \in Nat \ {0}
    BY PowersOfTwo
  <2> QED
    BY <2>1, <2>2, IndexedSequenceAssumption DEF SortedBelow, Unit
<1>2. hybrid # 0 => Strict(elements, universe)
  BY <1>1 DEF Init, Increasing, Strict
<1>3. /\ best \in {"elias_fano", "ranked_bitvector", "all_ones"}
      /\ best = "all_ones" <=> hybrid # 0 /\ Encoding!AllOnesFits(universe, n)
      /\ best = "ranked_bitvector" => hybrid # 0
  BY DEF Encoding!BestType
<1>4. bv.type = (IF hybrid = 2 /\ c # Encoding!NoBpc THEN "segment" ELSE best)
  BY DEF Init, Encoding!Write, n
<1>5. /\ bv.type = "elias_fano" => bv.data = Encoding!EF!Written(elements, universe)
      /\ bv.type = "ranked_bitvector" => bv.data = Encoding!RB!Written(elements, universe)
  BY <1>3, <1>4 DEF Init, Encoding!Write, n
<1>6. c # Encoding!NoBpc => hybrid = 2 /\ ~Encoding!AllOnesFits(universe, n)
  BY DEF Init, CallableWith
<1>7. Encoding!FoundType(hybrid, bv, universe, n) = bv.type
  BY <1>3, <1>4, <1>6 DEF Encoding!FoundType
<1>8. /\ enumerator.type = bv.type
      /\ enumerator = [type |-> bv.type, at |-> enumerator.at]
      /\ bv.type = "elias_fano" => enumerator.at = Encoding!EF!Enumerator(bv.data)
      /\ bv.type = "ranked_bitvector" => enumerator.at = Encoding!RB!Enumerator(bv.data)
      /\ bv.type = "all_ones" => enumerator.at = Encoding!AllOnesAt(n)
  BY <1>7 DEF Init, Encoding!Enumerator
<1>9. n \in Nat /\ n \in 0..n
  BY <1>1, SortedValues DEF n
<1>10. bv.type = "elias_fano" =>
         EliasFanoInStep /\ enumerator.at.position = n /\ enumerator.at.value = universe
  <2> SUFFICES ASSUME bv.type = "elias_fano"
               PROVE  EliasFanoInStep /\ enumerator.at.position = n /\ enumerator.at.value = universe
    OBVIOUS
  <2>1. bv.data = Encoding!EF!Written(elements, universe) /\ enumerator.at = Encoding!EF!Enumerator(bv.data)
    BY <1>5, <1>8
  <2>2. bv.data.size = n /\ bv.data.universe = universe
    BY <1>1, <2>1, EfWritten DEF n
  <2>3. n \in 0..Len(elements) /\ ~(n < Len(elements)) /\ universe = ValueAt(elements, universe, n)
    BY <1>9 DEF n, ValueAt
  <2>4. enumerator.at = [position |-> n, value |-> ValueAt(elements, universe, n), reader |-> ReaderAt(0)]
    BY <2>1, <2>2, <2>3, ReadersOfEliasFano DEF Encoding!EF!Enumerator
  <2>5. InStep(enumerator.at, elements, universe, High(elements, universe))
    BY <2>3, <2>4, EfInStepOf
  <2> QED
    BY <2>1, <2>3, <2>4, <2>5 DEF EliasFanoInStep
<1>11. bv.type = "ranked_bitvector" =>
         RankedBitvectorInStep /\ enumerator.at.position = n /\ enumerator.at.value = universe
  <2> SUFFICES ASSUME bv.type = "ranked_bitvector"
               PROVE  RankedBitvectorInStep /\ enumerator.at.position = n /\ enumerator.at.value = universe
    OBVIOUS
  <2>1. /\ bv.data = Encoding!RB!Written(elements, universe)
        /\ enumerator.at = Encoding!RB!Enumerator(bv.data) /\ Strict(elements, universe)
    BY <1>2, <1>3, <1>4, <1>5, <1>8
  <2>2. bv.data.size = n /\ bv.data.universe = universe
    BY <2>1, RbWritten DEF n
  <2>3. enumerator.at = [position |-> Len(elements), value |-> universe, reader |-> ReaderAt(0)]
    BY <2>1, <2>2, ReadersOfRankedBitvector DEF Encoding!RB!Enumerator, n
  <2>4. InStep(enumerator.at, elements, universe, Ones(elements))
    BY <2>1, <2>3, RbAtEnd
  <2> QED
    BY <2>1, <2>3, <2>4 DEF RankedBitvectorInStep, n
<1>12. bv.type = "all_ones" =>
         AllOnesInStep /\ enumerator.at.position = n /\ enumerator.at.value = universe
  BY <1>2, <1>3, <1>4, <1>8, <1>9 DEF AllOnesInStep, Encoding!AllOnesFits, Encoding!AllOnesAt
<1>13. bv.type \in Types
  BY <1>3, <1>4 DEF Types
<1> QED
  BY <1>1, <1>8, <1>10, <1>11, <1>12, <1>13 DEF EnumeratorInStep, Types

(* A call whose encoding answers well leaves the enumerator in step.       *)
LEMMA CallAnswers ==
  ASSUME NEW at, NEW p, EnumeratorInStep, enumerator' = [enumerator EXCEPT !.at = at],
         UNCHANGED <<elements, universe, bv>>,
         bv.type = "elias_fano" =>
           InStep(at, elements, universe, High(elements, universe)) /\ at.position = p,
         bv.type = "ranked_bitvector" =>
           InStep(at, elements, universe, Ones(elements)) /\ at.position = p,
         bv.type = "all_ones" => p \in 0..n /\ at = Encoding!AllOnesAt(p)
  PROVE  EnumeratorInStep' /\ (bv.type = "segment" \/ AnsweredWith(p))
<1>1. enumerator' = [type |-> bv.type, at |-> at]
  <2>1. enumerator = [type |-> bv.type, at |-> enumerator.at]
    BY DEF EnumeratorInStep
  <2> QED
    BY <2>1
<1>2. enumerator'.at = at
  BY <1>1
<1>3. EnumeratorInStep'
  BY <1>1, <1>2 DEF EnumeratorInStep, EliasFanoInStep, RankedBitvectorInStep, AllOnesInStep, n
<1>4. bv.type \in {"elias_fano", "ranked_bitvector"} => AnsweredWith(p)
  BY <1>2 DEF AnsweredWith, InStep, Cursor
<1>5. bv.type = "all_ones" => AnsweredWith(p)
  <2> SUFFICES ASSUME bv.type = "all_ones" PROVE AnsweredWith(p)
    OBVIOUS
  <2>1. Strict(elements, universe) /\ universe = Len(elements) /\ p \in 0..Len(elements)
    BY DEF EnumeratorInStep, AllOnesInStep, n
  <2>2. ValueAt(elements, universe, p) = p
    BY <2>1, AllOnesValue
  <2> QED
    BY <1>2, <2>2 DEF AnsweredWith, Encoding!AllOnesAt
<1> QED
  BY <1>3, <1>4, <1>5 DEF EnumeratorInStep, Types

LEMMA MoveAnswers ==
  ASSUME EnumeratorInStep, NEW p \in 0..n, Move(p)
  PROVE  EnumeratorInStep' /\ (bv.type = "segment" \/ AnsweredWith(p))
<1> DEFINE at == CASE enumerator.type = "elias_fano" -> Encoding!EF!Move(bv.data, enumerator.at, p)
                   [] enumerator.type = "ranked_bitvector" -> Encoding!RB!Move(bv.data, enumerator.at, p)
                   [] enumerator.type = "all_ones" -> Encoding!AllOnesAt(p)
                   [] enumerator.type = "segment" -> Encoding!SE!Move(bv.data, p)
<1>1. enumerator' = [enumerator EXCEPT !.at = at] /\ UNCHANGED <<elements, universe, bv>>
  BY DEF Move, Called, Encoding!Move
<1>2. enumerator.type = bv.type
  BY DEF EnumeratorInStep
<1>3. p \in 0..Len(elements)
  BY DEF n
<1>4. bv.type = "elias_fano" =>
        InStep(at, elements, universe, High(elements, universe)) /\ at.position = p
  <2> SUFFICES ASSUME bv.type = "elias_fano"
               PROVE  InStep(at, elements, universe, High(elements, universe)) /\ at.position = p
    OBVIOUS
  <2>1. at = Encoding!EF!Move(bv.data, enumerator.at, p)
    BY <1>2
  <2> HIDE DEF at
  <2> QED
    BY <1>3, <2>1, EfMove, SamplingRates DEF EnumeratorInStep, EliasFanoInStep
<1>5. bv.type = "ranked_bitvector" => InStep(at, elements, universe, Ones(elements)) /\ at.position = p
  <2> SUFFICES ASSUME bv.type = "ranked_bitvector"
               PROVE  InStep(at, elements, universe, Ones(elements)) /\ at.position = p
    OBVIOUS
  <2>1. at = Encoding!RB!Move(bv.data, enumerator.at, p)
    BY <1>2
  <2> HIDE DEF at
  <2> QED
    BY <1>3, <2>1, RbMove, SamplingRates DEF EnumeratorInStep, RankedBitvectorInStep
<1>6. bv.type = "all_ones" => p \in 0..n /\ at = Encoding!AllOnesAt(p)
  BY <1>2
<1> HIDE DEF at
<1> QED
  BY <1>1, <1>4, <1>5, <1>6, CallAnswers

\* the position that next_geq promises
Found(bound) ==
  IF enumerator.at.value = bound THEN enumerator.at.position ELSE Below(elements, bound)

LEMMA NextGeqAnswers ==
  ASSUME EnumeratorInStep, NEW bound \in 0..universe, NextGeq(bound)
  PROVE  EnumeratorInStep' /\ (bv.type = "segment" \/ AnsweredWith(Found(bound)))
<1> DEFINE at == CASE enumerator.type = "elias_fano" -> Encoding!EF!NextGeq(bv.data, enumerator.at, bound)
                   [] enumerator.type = "ranked_bitvector" -> Encoding!RB!NextGeq(bv.data, enumerator.at, bound)
                   [] enumerator.type = "all_ones" -> Encoding!AllOnesAt(bound)
                   [] enumerator.type = "segment" -> Encoding!SE!NextGeq(bv.data, bound)
           p == Found(bound)
<1>1. enumerator' = [enumerator EXCEPT !.at = at] /\ UNCHANGED <<elements, universe, bv>>
  BY DEF NextGeq, Called, Encoding!NextGeq
<1>2. enumerator.type = bv.type
  BY DEF EnumeratorInStep
<1>3. bv.type = "elias_fano" =>
        InStep(at, elements, universe, High(elements, universe)) /\ at.position = p
  <2> SUFFICES ASSUME bv.type = "elias_fano"
               PROVE  InStep(at, elements, universe, High(elements, universe)) /\ at.position = p
    OBVIOUS
  <2>1. at = Encoding!EF!NextGeq(bv.data, enumerator.at, bound)
    BY <1>2
  <2> HIDE DEF at
  <2> QED
    BY <2>1, EfNextGeq, SamplingRates DEF EnumeratorInStep, EliasFanoInStep, Found
<1>4. bv.type = "ranked_bitvector" => InStep(at, elements, universe, Ones(elements)) /\ at.position = p
  <2> SUFFICES ASSUME bv.type = "ranked_bitvector"
               PROVE  InStep(at, elements, universe, Ones(elements)) /\ at.position = p
    OBVIOUS
  <2>1. at = Encoding!RB!NextGeq(bv.data, enumerator.at, bound)
    BY <1>2
  <2> HIDE DEF at
  <2> QED
    BY <2>1, RbNextGeq, SamplingRates DEF EnumeratorInStep, RankedBitvectorInStep, Found
<1>5. bv.type = "all_ones" => p \in 0..n /\ at = Encoding!AllOnesAt(p)
  <2> SUFFICES ASSUME bv.type = "all_ones" PROVE p \in 0..n /\ at = Encoding!AllOnesAt(p)
    OBVIOUS
  <2>1. Strict(elements, universe) /\ universe = Len(elements) /\ bound \in 0..Len(elements)
    BY DEF EnumeratorInStep, AllOnesInStep, n
  <2>2. enumerator.at.value = enumerator.at.position
    BY DEF EnumeratorInStep, AllOnesInStep, Encoding!AllOnesAt
  <2>3. Below(elements, bound) = bound
    BY <2>1, AllOnesValue
  <2>4. p = bound
    BY <2>2, <2>3 DEF Found
  <2> QED
    BY <1>2, <2>1, <2>4 DEF n
<1> HIDE DEF at, p
<1>6. EnumeratorInStep' /\ (bv.type = "segment" \/ AnsweredWith(p))
  BY <1>1, <1>3, <1>4, <1>5, CallAnswers
<1> QED
  BY <1>6 DEF p

LEMMA FollowingAnswers ==
  ASSUME EnumeratorInStep, Following
  PROVE  EnumeratorInStep' /\ (bv.type = "segment" \/ AnsweredWith(enumerator.at.position + 1))
<1> DEFINE at == CASE enumerator.type = "elias_fano" -> Encoding!EF!Following(bv.data, enumerator.at)
                   [] enumerator.type = "ranked_bitvector" -> Encoding!RB!Following(bv.data, enumerator.at)
                   [] enumerator.type = "all_ones" -> Encoding!AllOnesAt(enumerator.at.position + 1)
                   [] enumerator.type = "segment" -> Encoding!SE!Following(bv.data, enumerator.at)
           p == enumerator.at.position + 1
<1>1. /\ enumerator' = [enumerator EXCEPT !.at = at] /\ UNCHANGED <<elements, universe, bv>>
      /\ enumerator.at.position < Len(elements)
  BY DEF Following, Called, Encoding!Following, n
<1>2. enumerator.type = bv.type
  BY DEF EnumeratorInStep
<1>3. bv.type = "elias_fano" =>
        InStep(at, elements, universe, High(elements, universe)) /\ at.position = p
  <2> SUFFICES ASSUME bv.type = "elias_fano"
               PROVE  InStep(at, elements, universe, High(elements, universe)) /\ at.position = p
    OBVIOUS
  <2>1. at = Encoding!EF!Following(bv.data, enumerator.at)
    BY <1>2
  <2> HIDE DEF at
  <2> QED
    BY <1>1, <2>1, EfFollowing DEF EnumeratorInStep, EliasFanoInStep
<1>4. bv.type = "ranked_bitvector" => InStep(at, elements, universe, Ones(elements)) /\ at.position = p
  <2> SUFFICES ASSUME bv.type = "ranked_bitvector"
               PROVE  InStep(at, elements, universe, Ones(elements)) /\ at.position = p
    OBVIOUS
  <2>1. at = Encoding!RB!Following(bv.data, enumerator.at)
    BY <1>2
  <2> HIDE DEF at
  <2> QED
    BY <1>1, <2>1, RbFollowing DEF EnumeratorInStep, RankedBitvectorInStep
<1>5. bv.type = "all_ones" => p \in 0..n /\ at = Encoding!AllOnesAt(p)
  <2> SUFFICES ASSUME bv.type = "all_ones" PROVE p \in 0..n /\ at = Encoding!AllOnesAt(p)
    OBVIOUS
  <2>1. n \in Nat /\ enumerator.at.position \in 0..n
    BY SortedValues DEF EnumeratorInStep, AllOnesInStep, Encoding!AllOnesAt, n
  <2>2. p \in 0..n
    <3> DEFINE q == enumerator.at.position
    <3>1. q \in 0..n /\ q < n
      BY <1>1, <2>1 DEF n
    <3> HIDE DEF q
    <3>2. q + 1 \in 0..n
      BY <2>1, <3>1
    <3> QED
      BY <3>2 DEF q
  <2> QED
    BY <1>2, <2>2
<1> HIDE DEF at, p
<1>6. EnumeratorInStep' /\ (bv.type = "segment" \/ AnsweredWith(p))
  BY <1>1, <1>3, <1>4, <1>5, CallAnswers
<1> QED
  BY <1>6 DEF p

(* The inductive step.                                                     *)
LEMMA NextInStep == EnumeratorInStep /\ [Next]_vars => EnumeratorInStep'
<1> SUFFICES ASSUME EnumeratorInStep, [Next]_vars PROVE EnumeratorInStep'
  OBVIOUS
<1>1. ASSUME NEW p \in 0..n, Move(p) PROVE EnumeratorInStep'
  BY <1>1, MoveAnswers
<1>2. ASSUME NEW bound \in 0..universe, NextGeq(bound) PROVE EnumeratorInStep'
  BY <1>2, NextGeqAnswers
<1>3. CASE Following
  BY <1>3, FollowingAnswers
<1>4. CASE UNCHANGED vars
  BY <1>4 DEF vars, EnumeratorInStep, EliasFanoInStep, RankedBitvectorInStep, AllOnesInStep, n
<1> QED
  BY <1>1, <1>2, <1>3, <1>4 DEF Next

LEMMA AlwaysInStep == Spec => []EnumeratorInStep
<1>1. Init => EnumeratorInStep
  BY InitInStep
<1> QED
  BY <1>1, NextInStep, PTL DEF Spec

-----------------------------------------------------------------------------
(* What a reader of the bits finds is what its position says: after every  *)
(* sequence of calls the enumerator is of the type that was written and    *)
(* its reader has just read the one of its position.                       *)
THEOREM ReaderStaysInStep == Spec => []ReaderInStep
<1>1. EnumeratorInStep => ReaderInStep
  <2> SUFFICES ASSUME EnumeratorInStep PROVE ReaderInStep
    OBVIOUS
  <2> DEFINE pos == enumerator.at.position
  <2>1. ASSUME NEW f, Rising(f, Len(elements)), bv.data.ones = Values(f, 0, Len(elements)),
               InStep(enumerator.at, elements, universe, f), pos < n
        PROVE  /\ enumerator.at.reader.consumed
               /\ enumerator.at.reader.at \in bv.data.ones
               /\ Cardinality({b \in bv.data.ones : b < enumerator.at.reader.at}) = pos
    <3>1. Len(elements) \in Nat /\ pos \in 0..Len(elements)
      BY <2>1, SortedValues DEF EnumeratorInStep, InStep, Cursor
    <3>2. enumerator.at.reader = HasRead(f[pos])
      BY <2>1 DEF InStep, n
    <3> HIDE DEF pos
    <3>3. pos \in 0..Len(elements) - 1 /\ 0 \in 0..Len(elements) /\ pos - 0 = pos
      BY <2>1, <3>1 DEF n
    <3>4. {b \in bv.data.ones : b < f[pos]} = Values(f, 0, pos)
      BY <2>1, <3>1, <3>3, OnesBefore
    <3>5. Cardinality(Values(f, 0, pos)) = pos - 0
      BY <2>1, <3>1, <3>3, CountOfValues
    <3>6. f[pos] \in bv.data.ones
      BY <2>1, <3>3 DEF Values
    <3>7. enumerator.at.reader.at = f[pos] /\ enumerator.at.reader.consumed
      BY <3>2 DEF HasRead
    <3> QED
      BY <3>3, <3>4, <3>5, <3>6, <3>7
  <2>2. CASE bv.type = "elias_fano"
    <3> DEFINE f == High(elements, universe)
    <3>1. Rising(f, Len(elements)) /\ bv.data.ones = Values(f, 0, Len(elements))
      BY <2>2, HighRises, EfWritten DEF EnumeratorInStep, EliasFanoInStep
    <3>2. InStep(enumerator.at, elements, universe, f) /\ enumerator.type = bv.type
      BY <2>2 DEF EnumeratorInStep, EliasFanoInStep
    <3> HIDE DEF f
    <3> QED
      BY <2>1, <3>1, <3>2 DEF ReaderInStep
  <2>3. CASE bv.type = "ranked_bitvector"
    <3> DEFINE f == Ones(elements)
    <3>1. Rising(f, Len(elements)) /\ bv.data.ones = Values(f, 0, Len(elements))
      BY <2>3, OnesRise, RbWritten DEF EnumeratorInStep, RankedBitvectorInStep
    <3>2. InStep(enumerator.at, elements, universe, f) /\ enumerator.type = bv.type
      BY <2>3 DEF EnumeratorInStep, RankedBitvectorInStep
    <3> HIDE DEF f
    <3> QED
      BY <2>1, <3>1, <3>2 DEF ReaderInStep
  <2>4. CASE bv.type \in {"all_ones", "segment"}
    BY <2>4 DEF EnumeratorInStep, ReaderInStep
  <2> QED
    BY <2>2, <2>3, <2>4 DEF EnumeratorInStep, Types
<1> QED
  BY <1>1, AlwaysInStep, PTL

(* Every call answers what a search of the sequence answers, in each       *)
(* encoding but the segment: the enumerators implement the abstract cursor. *)
THEOREM EnumeratorsAnswerAsASearch == Spec => SequenceCursorSpec
<1>1. Init => IsSegment \/ Promised!Init
  BY InitInStep DEF Init, IsSegment, Promised!Init, Promised!n, n
<1>2. EnumeratorInStep /\ [Next]_vars =>
        [IsSegment \/ Promised!Next]_<<elements, universe, enumerator, call>>
  <2> SUFFICES ASSUME EnumeratorInStep, [Next]_vars, ~IsSegment
               PROVE  Promised!Next \/ UNCHANGED <<elements, universe, enumerator, call>>
    OBVIOUS
  <2>1. ASSUME NEW p, NEW method, NEW argument, AnsweredWith(p), Called(method, argument)
        PROVE  Promised!Answer(method, argument, p)
    BY <2>1 DEF AnsweredWith, Called, ValueAt, Promised!Answer, Promised!n
  <2>2. ASSUME NEW p \in 0..n, Move(p) PROVE Promised!Next
    <3>1. AnsweredWith(p) /\ Called("move", p)
      BY <2>2, MoveAnswers DEF Move, IsSegment
    <3> QED
      BY <2>1, <2>2, <3>1 DEF Promised!Next, Promised!Move, Promised!n, n
  <2>3. ASSUME NEW bound \in 0..universe, NextGeq(bound) PROVE Promised!Next
    <3>1. AnsweredWith(Found(bound)) /\ Called("next_geq", bound)
      BY <2>3, NextGeqAnswers DEF NextGeq, IsSegment
    <3>2. Promised!Answer("next_geq", bound, Found(bound))
      BY <2>1, <3>1
    <3>3. Promised!NextGeq(bound)
      BY <3>2 DEF Promised!NextGeq, Found, Below, Promised!Cardinality, Cardinality
    <3> QED
      BY <2>3, <3>3 DEF Promised!Next
  <2>4. CASE Following
    <3>1. AnsweredWith(enumerator.at.position + 1) /\ Called("next", 0) /\ enumerator.at.position < n
      BY <2>4, FollowingAnswers DEF Following, IsSegment
    <3> QED
      BY <2>1, <3>1 DEF Promised!Next, Promised!Following, Promised!n, n
  <2>5. CASE UNCHANGED vars
    BY <2>5 DEF vars
  <2> QED
    BY <2>2, <2>3, <2>4, <2>5 DEF Next
<1> QED
  BY <1>1, <1>2, AlwaysInStep, PTL DEF Spec, SequenceCursorSpec

(* prev_value is the element before the position, wherever the calls have  *)
(* led, in each encoding but the segment.                                  *)
THEOREM PrevValueStaysPredecessor == Spec => [](IsSegment \/ PrevValueIsPredecessor)
<1>1. EnumeratorInStep => IsSegment \/ PrevValueIsPredecessor
  <2> SUFFICES ASSUME EnumeratorInStep, ~IsSegment PROVE PrevValueIsPredecessor
    OBVIOUS
  <2>1. enumerator.type = bv.type
    BY DEF EnumeratorInStep
  <2>2. CASE bv.type = "elias_fano"
    <3>1. Encoding!EF!PrevValue(bv.data, enumerator.at) =
            IF enumerator.at.position = 0 THEN 0 ELSE elements[enumerator.at.position]
      BY <2>2, EfPrevValue DEF EnumeratorInStep, EliasFanoInStep
    <3> QED
      BY <2>1, <2>2, <3>1 DEF PrevValueIsPredecessor, Encoding!PrevValue
  <2>3. CASE bv.type = "ranked_bitvector"
    <3>1. Encoding!RB!PrevValue(bv.data, enumerator.at) =
            IF enumerator.at.position = 0 THEN 0 ELSE elements[enumerator.at.position]
      BY <2>3, RbPrevValue DEF EnumeratorInStep, RankedBitvectorInStep
    <3> QED
      BY <2>1, <2>3, <3>1 DEF PrevValueIsPredecessor, Encoding!PrevValue
  <2>4. CASE bv.type = "all_ones"
    <3>1. PICK p \in 0..n : enumerator.at = Encoding!AllOnesAt(p)
      BY <2>4 DEF EnumeratorInStep, AllOnesInStep
    <3>2. enumerator.at.position = p
      BY <3>1 DEF Encoding!AllOnesAt
    <3>3. p # 0 => elements[p] = p - 1
      <4> SUFFICES ASSUME p # 0 PROVE elements[p] = p - 1
        OBVIOUS
      <4>1. Strict(elements, universe) /\ universe = Len(elements)
        BY <2>4 DEF EnumeratorInStep, AllOnesInStep, n
      <4>2. p - 1 \in 0..Len(elements) - 1 /\ (p - 1) + 1 = p
        BY <3>1 DEF n
      <4> QED
        BY <4>1, <4>2, AllOnesElements
    <3> QED
      BY <2>1, <2>4, <3>2, <3>3 DEF PrevValueIsPredecessor, Encoding!PrevValue
  <2> QED
    BY <2>2, <2>3, <2>4 DEF EnumeratorInStep, Types, IsSegment
<1> QED
  BY <1>1, AlwaysInStep, PTL
=============================================================================
