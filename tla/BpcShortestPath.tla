--------------------------- MODULE BpcShortestPath ---------------------------
(***************************************************************************)
(* la_vector::make_segmentation of the space-optimised vector,             *)
(* lib/adapted_code/la_vector.hpp:379-444.  A segment costs its header and *)
(* bpc bits per element.  One greedy scan per bpc runs ahead of position i *)
(* ("frontier"); a prefix of its current segment is an edge into i, the    *)
(* rest of the segment an edge out of i, and the segmentation is a         *)
(* shortest path from 0 to n.                                              *)
(***************************************************************************)
EXTENDS CanonicalSegment

CONSTANT SegmentBits   \* CHAR_BIT * sizeof(segment)

\* one bit per correction is never tried
Bpcs(data) == {bpc \in 0..(1 + FloorLog2(data[Len(data)])) \div 2 : bpc # 1}
BpcOrder(data) == SetToSortSeq(Bpcs(data), <)

Unreached == -1      \* the distance size_t(-1)

\* NewModel, its rectangle written out: TLC then evaluates it at once
FreshModel(eps) ==
  [NewModel(eps) EXCEPT !.rectangle = 0 :> Origin @@ 1 :> Origin @@ 2 :> Origin @@ 3 :> Origin]

\* The scans, the distance of each position and the edge it was reached by.
PathStart(data) ==
  [scan |-> [b \in Bpcs(data) |-> [begin |-> 0, end |-> 0, opt |-> FreshModel(BpcToEpsilon(b))]],
   distance |-> [i \in 0..Len(data) |-> IF i = 0 THEN 0 ELSE Unreached],
   parent |-> [i \in 0..Len(data) |-> <<>>]]

\* mutant: the scan forgets where the new segment begins
StaleBegin(data, st, b) ==
  LET Take(scan, k) ==
        IF scan.end < k THEN scan
        ELSE [scan EXCEPT !.opt = AddPoint(@, k, data[k + 1]),
                          !.end = IF Accepts(scan.opt, k, data[k + 1]) THEN k + 1 ELSE k]
      from == st.scan[b].end
  IN [st EXCEPT !.scan[b] = FoldLeft(Take, @, [k \in 1..Len(data) - from |-> from + k - 1])]

\* advance_frontier: take points until one is refused
AdvanceFrontier(data, st, b) ==
  LET Take(scan, k) ==
        IF scan.end < k THEN scan
        ELSE [scan EXCEPT !.opt = AddPoint(@, k, data[k + 1]),
                          !.end = IF Accepts(scan.opt, k, data[k + 1]) THEN k + 1 ELSE k]
      from == st.scan[b].end
  IN [st EXCEPT !.scan[b] = FoldLeft(Take, [@ EXCEPT !.begin = from],
                                     [k \in 1..Len(data) - from |-> from + k - 1])]

\* mutant: a segment costs nothing but its corrections
FreeHeaders(st, i, j, b) ==
  LET length == st.distance[i] + b * (j - i)
      edge   == [cs |-> CopyFrom(GetSegment(st.scan[b].opt), i), bpc |-> b]
  IN IF st.distance[j] = Unreached \/ st.distance[j] > length
     THEN [st EXCEPT !.distance[j] = length, !.parent[j] = <<edge>>]
     ELSE st

\* the edge of bpc b from position i to j, along the line of the whole segment
Relax(st, i, j, b) ==
  LET length == st.distance[i] + b * (j - i) + SegmentBits
      edge   == [cs |-> CopyFrom(GetSegment(st.scan[b].opt), i), bpc |-> b]
  IN IF st.distance[j] = Unreached \/ st.distance[j] > length
     THEN [st EXCEPT !.distance[j] = length, !.parent[j] = <<edge>>]
     ELSE st

PrefixEdge(data, st, i, b) ==
  IF st.scan[b].end <= i THEN AdvanceFrontier(data, st, b) ELSE Relax(st, st.scan[b].begin, i, b)

SuffixEdge(st, i, b) == Relax(st, i, st.scan[b].end, b)

VisitPosition(data, st, i) ==
  LET prefixes == FoldLeft(LAMBDA s, b : PrefixEdge(data, s, i, b), st, BpcOrder(data))
  IN FoldLeft(LAMBDA s, b : SuffixEdge(s, i, b), prefixes, BpcOrder(data))

ShortestPaths(data) ==
  FoldLeft(LAMBDA s, i : VisitPosition(data, s, i - 1), PathStart(data), [i \in DOMAIN data |-> i])

\* the segments from 0 to n, read back from the parents
PathSegments(data) ==
  LET parent == ShortestPaths(data).parent
      to[j \in 0..Len(data)] ==
        IF j = 0 THEN <<>> ELSE to[parent[j][1].cs.first] \o parent[j]
  IN to[Len(data)]

-----------------------------------------------------------------------------
(* Reference: the greedy segments of each bpc, their prefixes and suffixes *)
(* as edges, and the least cost of a path.                                 *)

GreedyStarts(data, b) ==
  {s.first : s \in ToSet(GreedySegments(data, BpcToEpsilon(b), 0, Len(data)))}
SegmentEnd(data, b, i) ==
  Min({k \in GreedyStarts(data, b) : k > i} \cup {Len(data)})
SegmentStart(data, b, i) == Max({k \in GreedyStarts(data, b) : k <= i})

IsEdge(data, b, i, j) ==
  /\ i < j /\ j <= SegmentEnd(data, b, i)
  /\ i = SegmentStart(data, b, i) \/ j = SegmentEnd(data, b, i)

LeastCost(data) ==
  LET cost[j \in 0..Len(data)] ==
        IF j = 0 THEN 0
        ELSE Min({cost[e[1]] + e[2] * (j - e[1]) + SegmentBits :
                    e \in {f \in (0..j - 1) \X Bpcs(data) : IsEdge(data, f[2], f[1], j)}})
  IN cost[Len(data)]

PathCost(path, n) ==
  FoldLeft(LAMBDA c, k : c + SegmentBits
             + path[k].bpc * ((IF k = Len(path) THEN n ELSE path[k + 1].cs.first) - path[k].cs.first),
           0, [k \in DOMAIN path |-> k])
=============================================================================
