---------------------------- MODULE Segmentation ----------------------------
(***************************************************************************)
(* make_segmentation and make_segmentation_par,                            *)
(* lib/adapted_code/piecewise_linear_model.hpp: the input is cut into one  *)
(* chunk per OpenMP thread, each thread segments its chunk greedily with a *)
(* model of its own, and the master concatenates the results.              *)
(*                                                                         *)
(* Positions are 0-based as in the code; in(i) is Input[i + 1].  One step  *)
(* of a thread is one turn of its loop: the turns of different threads     *)
(* share nothing but the input, and are interleaved in every order.        *)
(***************************************************************************)
EXTENDS PiecewiseLinearModel, SequencesExt

CONSTANTS
  Inputs,           (* the sequences of points handed to the function         *)
  Epsilons,         (* the error bounds                                       *)
  Parallelisms,     (* the values min(omp_get_max_threads(), 20) may take     *)
  SequentialBelow   (* below this many points there is one thread: 1ull << 15 *)

MaxThreads == 20

\* The points come sorted by x, since add_point throws otherwise.  A chunk is
\* never empty: at most 20 threads share at least 2^15 points.
ASSUME SegmentationAssumption ==
  /\ \A points \in Inputs :
       /\ points \in Seq(StoredPoints)
       /\ \A j, k \in DOMAIN points : j <= k => points[j].x <= points[k].x
  /\ Epsilons \subseteq Nat
  /\ Parallelisms \subseteq 1..MaxThreads
  /\ SequentialBelow \in Nat
  /\ \A k \in Parallelisms : k <= SequentialBelow

VARIABLES
  input, epsilon, parallelism,  (* the arguments                              *)
  pc,        (* of each thread: "ready", "scanning" or "done"                 *)
  start,     (* where its current segment began                               *)
  i,         (* the next position it reads                                    *)
  p,         (* the last point it took                                        *)
  opt,       (* its model                                                     *)
  results,   (* the segments it emitted                                       *)
  count,     (* its share of the reduction variable c                         *)
  out,       (* what the caller received through its callback                 *)
  returned   (* the function has returned                                     *)

args == <<input, epsilon, parallelism>>
vars == <<args, pc, start, i, p, opt, results, count, out, returned>>

N == Len(input)
In(k) == input[k + 1]

Threads == IF N < SequentialBelow THEN {0} ELSE 0..parallelism - 1

ChunkSize == N \div Cardinality(Threads)
ChunkBegin(t) == t * ChunkSize
ChunkEnd(t) == IF t + 1 = Cardinality(Threads) THEN N ELSE ChunkBegin(t) + ChunkSize

\* mutant: a chunk starts wherever the division put it
UnalignedBegin(t) == ChunkBegin(t)

NewX(k) == k = 0 \/ In(k).x # In(k - 1).x

\* A chunk after the first leaves the repetitions of the last x of the
\* previous chunk out.
AlignedBegin(t) ==
  Min({k \in ChunkBegin(t)..ChunkEnd(t) - 1 : NewX(k)} \cup {ChunkEnd(t)})

Init ==
  /\ input \in Inputs
  /\ epsilon \in Epsilons
  /\ parallelism \in Parallelisms
  /\ pc = [t \in Threads |-> "ready"]
  /\ start = [t \in Threads |-> 0]
  /\ i = [t \in Threads |-> 0]
  /\ p = [t \in Threads |-> Origin]
  /\ opt = [t \in Threads |-> NewModel(epsilon)]
  /\ results = [t \in Threads |-> <<>>]
  /\ count = [t \in Threads |-> 0]
  /\ out = <<>>
  /\ returned = FALSE

\* nothing to segment: no point at all, or only repetitions of an earlier x
EmptyChunk(t) ==
  /\ pc[t] = "ready"
  /\ AlignedBegin(t) = ChunkEnd(t)
  /\ pc' = [pc EXCEPT ![t] = "done"]
  /\ UNCHANGED <<args, start, i, p, opt, results, count, out, returned>>

Open(t) ==
  LET first == AlignedBegin(t) IN
  /\ pc[t] = "ready"
  /\ first < ChunkEnd(t)
  /\ pc' = [pc EXCEPT ![t] = "scanning"]
  /\ start' = [start EXCEPT ![t] = first]
  /\ i' = [i EXCEPT ![t] = first + 1]
  /\ p' = [p EXCEPT ![t] = In(first)]
  /\ opt' = [opt EXCEPT ![t] = AddPoint(@, In(first).x, In(first).y)]
  /\ UNCHANGED <<args, results, count, out, returned>>

Reading(t) == pc[t] = "scanning" /\ i[t] < ChunkEnd(t)

Repeated(t) == i[t] # start[t] /\ In(i[t]).x = p[t].x

Skip(t) ==
  /\ Reading(t)
  /\ Repeated(t)
  /\ i' = [i EXCEPT ![t] = @ + 1]
  /\ UNCHANGED <<args, pc, start, p, opt, results, count, out, returned>>

Take(t) ==
  LET q == In(i[t]) IN
  /\ Reading(t)
  /\ ~Repeated(t)
  /\ Accepts(opt[t], q.x, q.y)
  /\ opt' = [opt EXCEPT ![t] = AddPoint(@, q.x, q.y)]
  /\ p' = [p EXCEPT ![t] = q]
  /\ i' = [i EXCEPT ![t] = @ + 1]
  /\ UNCHANGED <<args, pc, start, results, count, out, returned>>

\* The refused point is read again, as the first of the next segment.
Cut(t) ==
  LET q == In(i[t]) IN
  /\ Reading(t)
  /\ ~Repeated(t)
  /\ ~Accepts(opt[t], q.x, q.y)
  /\ opt' = [opt EXCEPT ![t] = AddPoint(@, q.x, q.y)]
  /\ results' = [results EXCEPT ![t] = Append(@, GetSegment(opt'[t]))]
  /\ count' = [count EXCEPT ![t] = @ + 1]
  /\ p' = [p EXCEPT ![t] = q]
  /\ start' = [start EXCEPT ![t] = i[t]]
  /\ UNCHANGED <<args, pc, i, out, returned>>

\* mutant: the last segment of a chunk is not counted
CountUnchanged(t) == count[t]
FinalCount(t) == count[t] + 1

Close(t) ==
  /\ pc[t] = "scanning"
  /\ i[t] = ChunkEnd(t)
  /\ results' = [results EXCEPT ![t] = Append(@, GetSegment(opt[t]))]
  /\ count' = [count EXCEPT ![t] = FinalCount(t)]
  /\ pc' = [pc EXCEPT ![t] = "done"]
  /\ UNCHANGED <<args, start, i, p, opt, out, returned>>

\* mutant: the master waits for a segment from every thread
EverySegmented == \A t \in Threads : results[t] # <<>>
AllJoined == \A t \in Threads : pc[t] = "done"

\* Threads are joined in any order, their segments taken in chunk order.
Join ==
  /\ ~returned
  /\ AllJoined
  /\ out' = FlattenSeq([k \in 1..Cardinality(Threads) |-> results[k - 1]])
  /\ returned' = TRUE
  /\ UNCHANGED <<args, pc, start, i, p, opt, results, count>>

Step(t) == EmptyChunk(t) \/ Open(t) \/ Skip(t) \/ Take(t) \/ Cut(t) \/ Close(t)

Next == (\E t \in Threads : Step(t)) \/ Join

\* OpenMP runs every thread of the region to its end, and the master goes on
\* once all have reached the implicit barrier.  A thread's steps are finite, so
\* it is enough that some step is taken while any can.
Spec == Init /\ [][Next]_vars /\ WF_vars(Next)

-----------------------------------------------------------------------------
(* Reference: the fewest ranges any algorithm can cut the positions below  *)
(* c into, so that one line fits the points with a new x of each.          *)

\* the points with a new x at positions h to c - 1, by their positions
NewPoints(h, c) == [k \in {j \in h..c - 1 : NewX(j)} |-> In(k)]

FewestSegments ==
  LET fewest[c \in 0..N] ==
        IF c = 0 THEN 0
        ELSE 1 + Min({fewest[h] : h \in {j \in 0..c - 1 :
                                            NewX(j) /\ Feasible(NewPoints(j, c), epsilon)}})
  IN fewest[N]

-----------------------------------------------------------------------------
Positions(t) == ChunkBegin(t)..ChunkEnd(t)
NewXsIn(a, b) == Cardinality({k \in a..b : k = a \/ NewX(k)})

\* The cursors of a thread stay in its chunk, its model holds exactly the points
\* with a new x between them, and c counts exactly the segments emitted.
TypeOK ==
  /\ pc \in [Threads -> {"ready", "scanning", "done"}]
  /\ \A t \in Threads :
       /\ pc[t] = "scanning" => /\ start[t] \in Positions(t) /\ i[t] \in Positions(t)
                                /\ start[t] <= i[t]
                                /\ opt[t].pointsInHull = NewXsIn(start[t], i[t] - 1)
       /\ count[t] = Len(results[t])
  /\ returned \in BOOLEAN

OnePoint(s) == s.rectangle[0] = s.rectangle[2] /\ s.rectangle[1] = s.rectangle[3]

\* the segment passes within eps of the point
Fits(s, q, eps) ==
  IF OnePoint(s)
  THEN q = Point(s.first, s.rectangle[0].y - eps)
  ELSE /\ LineFits(s.rectangle[0], s.rectangle[2], <<q>>, eps)
       /\ LineFits(s.rectangle[1], s.rectangle[3], <<q>>, eps)

\* the segment with the greatest first x that is at most the point's
Responsible(q) == out[Max({k \in DOMAIN out : out[k].first <= q.x})]

\* What the callers rely on when they store a segment from its first x to the
\* next one's (la_vector.hpp:102): the segments begin with the first point and
\* at increasing x, and the one responsible for a point passes within epsilon
\* of it, wherever the chunks were cut and whatever repetitions were skipped.
EveryPointFits ==
  returned /\ N > 0 =>
    /\ out # <<>> /\ out[1].first = In(0).x
    /\ \A k \in 1..Len(out) - 1 : out[k].first < out[k + 1].first
    /\ \A k \in 0..N - 1 : NewX(k) => Fits(Responsible(In(k)), In(k), epsilon)

\* Segmenting in parallel costs at most one segment per chunk boundary over the
\* fewest possible, and a single thread attains the fewest.
AtMostOneMorePerBoundary ==
  returned => Len(out) <= FewestSegments + Cardinality(Threads) - 1

\* The function returns: a refused point is accepted when it is read again.
Returns == <>returned
=============================================================================
