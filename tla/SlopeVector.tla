----------------------------- MODULE SlopeVector -----------------------------
(***************************************************************************)
(* la_vector_slope<K, t_bpc, S>, include/la_vector_slope.hpp, and          *)
(* la_vector_bs<K, t_bpc>, include/la_vector_best_slope.hpp: construction  *)
(* and decoding.  They keep the parameters of a line as long double; the   *)
(* first takes the line S / 8 of the way from the maximum to the minimum   *)
(* slope, the second the one whose corrections have the least entropy.     *)
(*                                                                         *)
(* The sentinel is written behind segments.end(): segment SentinelIndex is *)
(* what segments.end() points to.                                          *)
(***************************************************************************)
EXTENDS SlopeSegmentation

CONSTANTS
  Datasets,         (* the strictly increasing sequences of keys, not empty     *)
  TBpcs,            (* the values of t_bpc; below 2 each segment has its own    *)
  Slopes,           (* the values of S, and Best for la_vector_bs               *)
  KeyBits,          (* the width of K and of position_type (32)                 *)
  Density,          (* extraction_density of a constant bpc                     *)
  TopLevelCap,      (* the largest top level (2^16)                             *)
  Chunks            (* the numbers of chunks of slope_make_segmentation_par     *)

Best == 9

\* With a back below 8 the search for redundant segmentations may read before them.
ASSUME SlopeVectorAssumption ==
  /\ \A data \in Datasets : data # <<>>
  /\ TBpcs \subseteq Nat /\ Slopes \subseteq 0..Best /\ KeyBits \in Nat
  /\ {Density, TopLevelCap} \subseteq Nat \ {0} /\ Chunks \subseteq Nat \ {0}
  /\ TBpcs \cap {0, 1} # {} => \A data \in Datasets : data[Len(data)] >= 8

VARIABLES
  data,       (* the elements, of which the object keeps front, back and n      *)
  tBpc,       (* t_bpc                                                          *)
  S,          (* S, or Best                                                     *)
  chunks,     (* the number of chunks of the segmentations                      *)
  path,       (* canonical_segments, each with its bpc                          *)
  segments,   (* the segments stored so far; with the sentinel once built       *)
  bits,       (* corrections: the positions of the bits that are 1              *)
  pc          (* "pushing"; "built"; "failed" when a correction does not fit    *)

buildVars == <<data, tBpc, S, chunks, path, segments, bits, pc>>

AutoBpc == tBpc < 2
n == Len(data)
FrontKey == data[1]
BackKey == data[n]
Key(k) == data[k + 1]      \* data[k] of the code

Wrapped(v) == v % 2 ^ KeyBits

INSTANCE CorrectionArray

-----------------------------------------------------------------------------
(* segment                                                                 *)

\* the height of the line of s at position i, times s.den
Height(s, i) == s.slope * (i - s.first) + s.intercept

Approximate(s, i) == TruncatedDiv(Height(s, i), s.den)

Decompress(s, i) == Wrapped(Approximate(s, i) + Correction(s, i) - BpcToEpsilon(s.bpc))

\* mutant: the first correction is not added
FirstKeyOnLine(s) == Wrapped(TruncatedDiv(s.intercept - BpcToEpsilon(s.bpc) * s.den, s.den))

FirstKey(s) ==
  Wrapped(TruncatedDiv(s.intercept + (s.firstCorrection - BpcToEpsilon(s.bpc)) * s.den, s.den))

Sentinel ==
  [bpc |-> IF AutoBpc THEN 0 ELSE tBpc, offset |-> 0, firstCorrection |-> 0, first |-> n,
   slope |-> 0, intercept |-> 2 ^ KeyBits - 1, den |-> 1]

-----------------------------------------------------------------------------
(* push_segment: one segment of path at a time.                            *)

PathEnd(k) == IF k = Len(path) THEN n ELSE path[k + 1].cs.first
Positions(k) == path[k].cs.first..PathEnd(k) - 1

\* mutant: the corrections of the segment before are not counted
BitSizeBefore(upTo) ==
  FoldLeft(LAMBDA sum, k : sum + path[k].bpc * (PathEnd(k) - path[k].cs.first), 0,
           [k \in 1..upTo - 1 |-> k])

\* the bits of the corrections of the first segments
BitSize(upTo) ==
  FoldLeft(LAMBDA sum, k : sum + path[k].bpc * (PathEnd(k) - path[k].cs.first), 0,
           [k \in 1..upTo |-> k])

\* segment k of path along a line, without its first correction
Unfilled(k, line) ==
  line @@ [bpc |-> path[k].bpc, offset |-> Wrapped(BitSize(k - 1)), firstCorrection |-> 0,
           first |-> path[k].cs.first]

OnSlope(k, w) == Unfilled(k, SlopeLine(path[k].cs, path[k].cs.first, w))

NeededCorrection(s, i) == Key(i) - Approximate(s, i) + BpcToEpsilon(s.bpc)

Fits(s, k) == \A i \in Positions(k) : NeededCorrection(s, i) \in 0..2 ^ s.bpc - 1

\* mutant: the line of S is kept whatever its corrections
OwnSlope(k) == OnSlope(k, S)

\* The line of S, or that of maximum slope when a correction is too wide for it.
SafeSlope(k) ==
  IF path[k].bpc = 0 \/ Fits(OnSlope(k, S), k) THEN OnSlope(k, S) ELSE OnSlope(k, 0)

\* la_vector_bs: the first line that fits in the order of their entropies, which is
\* not computed here.  Without corrections none is assigned, and the fields hold what
\* was in memory: the line of maximum slope stands for a lucky value, zero for others.
BestSlopes(k) ==
  IF path[k].bpc = 0
  THEN {OnSlope(k, 0), Unfilled(k, [slope |-> 0, intercept |-> 0, den |-> 1])}
  ELSE LET all == {OnSlope(k, w) : w \in 0..8}
           fitting == {s \in all : Fits(s, k)}
       IN IF fitting = {} THEN all ELSE fitting

LinesOf(k) == IF S = Best THEN BestSlopes(k) ELSE {SafeSlope(k)}

\* mutant: a first correction is stored without corrections too
AlwaysCorrected(s) == [s EXCEPT !.firstCorrection = NeededCorrection(s, s.first)]

Stored(s) ==
  [s EXCEPT !.firstCorrection = IF s.bpc = 0 THEN 0 ELSE NeededCorrection(s, s.first)]

BuildInit ==
  /\ data \in Datasets /\ tBpc \in TBpcs /\ S \in Slopes
  /\ chunks \in {c \in Chunks : c <= n}
  /\ path = IF AutoBpc THEN SpaceEfficientSegmentation(data, chunks)
            ELSE LET standard == StandardSegmentation(data, tBpc, chunks)
                 IN [k \in DOMAIN standard |-> [cs |-> standard[k], bpc |-> tBpc]]
  /\ segments = <<>> /\ bits = {} /\ pc = "pushing"

\* set_correction throws, and the constructor with it; or la_vector_bs has tried
\* every line and goes on behind the last one
Fails(s, k) == s.bpc # 0 /\ ~Fits(s, k)

PushSegment ==
  LET k == Len(segments) + 1
  IN /\ pc = "pushing" /\ k <= Len(path)
     /\ \E s \in LinesOf(k) :
          /\ pc' = IF Fails(s, k) THEN "failed" ELSE pc
          /\ segments' = IF Fails(s, k) THEN segments ELSE Append(segments, Stored(s))
          /\ bits' = IF Fails(s, k) \/ s.bpc = 0 THEN bits
                     ELSE (bits \ UNION {Field(s, i) : i \in Positions(k)})
                            \cup UNION {BitsOf(s, i, NeededCorrection(s, i)) : i \in Positions(k)}
     /\ UNCHANGED <<data, tBpc, S, chunks, path>>

FinishBuild ==
  /\ pc = "pushing" /\ Len(segments) = Len(path)
  /\ segments' = Append(segments, Sentinel)
  /\ pc' = "built"
  /\ UNCHANGED <<data, tBpc, S, chunks, path, bits>>

Build == PushSegment \/ FinishBuild

-----------------------------------------------------------------------------
(* Reading the elements back                                               *)

INSTANCE BucketingTopLevel

\* operator[]
At(i, padding) == Decompress(Segment(SegmentForPosition(i, padding)), i)

\* the segment that holds element i
SegmentOf(i) == CHOOSE s \in RealSegments : Segment(s).first <= i /\ i < Segment(s + 1).first

\* mutant: decode() counts the positions from the front, not from the segment
DecodedFromFront(s, i) ==
  Wrapped(TruncatedDiv(s.slope * i + s.intercept - BpcToEpsilon(s.bpc) * s.den, s.den) + Correction(s, i))

\* decode(): epsilon is taken off before the height is truncated
DecodedAt(s, i) ==
  Wrapped(TruncatedDiv(Height(s, i) - BpcToEpsilon(s.bpc) * s.den, s.den) + Correction(s, i))
Decoded == [k \in 1..n |-> DecodedAt(Segment(SegmentOf(k - 1)), k - 1)]

Uninitialized(s) == S = Best /\ s.bpc = 0

(* Every correction is stored: one of the lines tried, in the last resort   *)
(* that of maximum slope, fits in bpc bits at all positions of a segment,   *)
(* although its intercept was moved by half a unit and, for a suffix of a   *)
(* segment, taken at another origin (la_vector_slope.hpp:602-617; the       *)
(* comment la_vector_best_slope.hpp:654).                                   *)
CorrectionsFit == pc # "failed"

(* operator[] gives every element back, whatever slope its segment has got  *)
(* and whatever the padding of the top level holds, except where            *)
(* la_vector_bs has left the line unassigned (la_vector_slope.hpp:286-289). *)
EveryElementDecodes ==
  pc = "built" =>
    \A i \in 0..n - 1, padding \in Paddings :
      At(i, padding) = Key(i) \/ Uninitialized(Segment(SegmentOf(i)))

(* decode() gives an element where its line is above epsilon, and not at an *)
(* integer: taking epsilon off before the height is truncated, where        *)
(* operator[] does so after, changes nothing there, and the positions that  *)
(* it counts from each segment's own first match (la_vector_slope.hpp:423-440). *)
DecodesAboveEpsilon ==
  pc = "built" =>
    \A i \in 0..n - 1 :
      LET s == Segment(SegmentOf(i))
          above == Height(s, i) > BpcToEpsilon(s.bpc) * s.den /\ Height(s, i) % s.den # 0
      IN above => Decoded[i + 1] = Key(i) \/ Uninitialized(s)

(* decode() gives all the elements, as its comments say: below epsilon too, *)
(* where what is truncated may be below zero (la_vector_slope.hpp:418-443). *)
DecodeGivesElements ==
  pc = "built" =>
    \A i \in 0..n - 1 : Decoded[i + 1] = Key(i) \/ Uninitialized(Segment(SegmentOf(i)))

(* The segmentation of the space-efficient vector costs as little as any    *)
(* path over the segments of every bpc and their suffixes, those of the     *)
(* redundant segmentations among them (la_vector_slope.hpp:130-199).        *)
PathIsShortest ==
  AutoBpc /\ pc = "built" => PathCost(path, n) = LeastCost(data, chunks)
=============================================================================
