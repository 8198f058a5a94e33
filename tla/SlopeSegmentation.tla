-------------------------- MODULE SlopeSegmentation --------------------------
(***************************************************************************)
(* standard_segmentation and space_efficient_segmentation of               *)
(* la_vector_slope, include/la_vector_slope.hpp:117-199.  The second has   *)
(* one greedy segmentation per bpc and takes a shortest path from 0 to n   *)
(* whose edges are the segments and their suffixes.                        *)
(***************************************************************************)
EXTENDS SlopePiecewiseLinearModel

CONSTANT SegmentBits    \* CHAR_BIT * sizeof(segment)

StandardSegmentation(keys, bpc, chunks) == SlopeMakeSegmentationPar(keys, BpcToEpsilon(bpc), chunks)

\* one bit per correction is never tried
Bpcs(back) == {bpc \in 0..(1 + FloorLog2(back)) \div 2 : bpc # 1}

\* segmentations: the segments of each bpc, with the position after the last one
Segmentations(keys, chunks) ==
  [b \in Bpcs(keys[Len(keys)]) |->
     Append(StandardSegmentation(keys, b, chunks), [first |-> Len(keys)])]

\* Redundant segmentations are dropped from the largest bpc down, as long as the one
\* below has a single segment; that of bpc 1 is empty.
Needed(all) ==
  LET single(b) == b \in DOMAIN all /\ Len(all[b]) = 2
  IN {b \in DOMAIN all : \E c \in b - 1..Max(DOMAIN all) - 1 : ~single(c)}

Unreached == -1      \* the greatest size_t

\* cursors[bpc]: the segment that covers position i
CoveringSegment(segmentation, i) ==
  Max({k \in DOMAIN segmentation : k < Len(segmentation) /\ segmentation[k].first <= i})

\* mutant: a segment costs nothing but its corrections
FreeWeight(b, i, j) == b * (j - i)

Weight(b, i, j) == b * (j - i) + SegmentBits

\* The relaxation of the edges out of position st.i, and the move to the nearest end.
VisitPosition(all, st, needed) ==
  LET cover == [b \in needed |-> CoveringSegment(all[b], st.i)]
      end   == [b \in needed |-> all[b][cover[b] + 1].first]
      RelaxEdge(s, b) ==
        LET length == s.distance[st.i] + Weight(b, st.i, end[b])
        IN IF s.distance[end[b]] = Unreached \/ s.distance[end[b]] > length
           THEN [s EXCEPT !.distance[end[b]] = length,
                          !.predecessor[end[b]] =
                             <<[cs |-> CopyFrom(all[b][cover[b]], st.i), bpc |-> b]>>]
           ELSE s
      relaxed == FoldLeft(RelaxEdge, st, SetToSortSeq(needed, <))
  IN [relaxed EXCEPT !.i = Min({end[b] : b \in needed})]

ShortestPaths(keys, chunks) ==
  LET all    == Segmentations(keys, chunks)
      start  == [i |-> 0,
                 distance |-> [k \in 0..Len(keys) |-> IF k = 0 THEN 0 ELSE Unreached],
                 predecessor |-> [k \in 0..Len(keys) |-> <<>>]]
      Visit(st, k) == IF st.i < Len(keys) THEN VisitPosition(all, st, Needed(all)) ELSE st
  IN FoldLeft(Visit, start, keys)

\* the segments from 0 to n, read back from the predecessors
SpaceEfficientSegmentation(keys, chunks) ==
  LET predecessor == ShortestPaths(keys, chunks).predecessor
      to[j \in 0..Len(keys)] ==
        IF j = 0 THEN <<>> ELSE to[predecessor[j][1].cs.first] \o predecessor[j]
  IN to[Len(keys)]

-----------------------------------------------------------------------------
(* Reference: the least cost of a path from 0 to n over the segments of    *)
(* every bpc and their suffixes, from whatever position they start.        *)

EndAfter(segmentation, i) ==
  Min({segmentation[k].first : k \in {l \in DOMAIN segmentation : segmentation[l].first > i}})

LeastCost(keys, chunks) ==
  LET all == Segmentations(keys, chunks)
      cost[i \in 0..Len(keys)] ==
        IF i = Len(keys) THEN 0
        ELSE Min({LET j == EndAfter(all[b], i) IN b * (j - i) + SegmentBits + cost[j] :
                    b \in DOMAIN all})
  IN cost[0]

PathCost(path, size) ==
  FoldLeft(LAMBDA c, k : c + SegmentBits
             + path[k].bpc * ((IF k = Len(path) THEN size ELSE path[k + 1].cs.first) - path[k].cs.first),
           0, [k \in DOMAIN path |-> k])
=============================================================================
