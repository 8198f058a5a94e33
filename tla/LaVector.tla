------------------------------ MODULE LaVector ------------------------------
(***************************************************************************)
(* la_vector<K, t_bpc>, lib/adapted_code/la_vector.hpp: its construction    *)
(* from the canonical segments on, decoding, and the top level.            *)
(*                                                                         *)
(* Segments are numbered from 0, as segments.begin() + s: the last one is  *)
(* the sentinel, and the number after it stands for segments.end().        *)
(***************************************************************************)
EXTENDS BpcShortestPath

CONSTANTS
  Datasets,         (* the strictly increasing sequences of keys, not empty     *)
  TBpc,             (* t_bpc; below 2 each segment has a bpc of its own         *)
  KeyBits,          (* the width of K and of position_type (32)                 *)
  SignificandBits,  (* of segment::slope_significand (27)                       *)
  ExponentBits,     (* of segment::slope_exponent (5)                           *)
  Density,          (* extraction_density                                       *)
  WordBits,         (* of a word of the corrections array (64)                  *)
  TopLevelCap,      (* the largest top level (2^16)                             *)
  Chunks,           (* the numbers of chunks make_segmentation_par may use      *)
  StackLimit        (* bound: the nested calls of push_segment the stack holds  *)

ASSUME LaVectorAssumption ==
  /\ {TBpc, KeyBits, SignificandBits, ExponentBits} \subseteq Nat
  /\ {Density, WordBits, TopLevelCap, StackLimit} \subseteq Nat \ {0}
  /\ Chunks \subseteq Nat \ {0}
  /\ TBpc < KeyBits /\ KeyBits <= WordBits      \* the first is asserted in the code
  /\ \A keys \in Datasets :
       /\ keys \in Seq(0..2 ^ KeyBits - 1) /\ keys # <<>>
       /\ \A j, k \in DOMAIN keys : j < k => keys[j] < keys[k]
       /\ TBpc < 2 => keys[Len(keys)] > 0       \* log2(0) is not defined

\* for the proofs: the provers know nothing of a power with a variable exponent
ASSUME PowersOfTwo ==
  \A k \in UNION {0..m : m \in {KeyBits, SignificandBits, ExponentBits}
                             \cup {Len(keys) + 2 : keys \in Datasets}} :
    2 ^ k \in Nat \ {0} /\ 2 ^ (k + 1) = 2 * 2 ^ k

VARIABLES
  data,       (* the elements, of which the object keeps front, back and n      *)
  path,       (* canonical_segments, each with its bpc                          *)
  todo,       (* the calls of push_segment to come, the innermost first         *)
  segments,   (* the segments stored so far; with the sentinel once built       *)
  bits,       (* corrections: the positions of the bits that are 1              *)
  pc          (* "pushing"; "built"; "overflow" when push_segment recurs too deeply *)

buildVars == <<data, path, todo, segments, bits, pc>>

AutoBpc == TBpc < 2
n == Len(data)
FrontKey == data[1]
BackKey == data[n]
Key(k) == data[k + 1]      \* data[k] of the code

Wrapped(v) == v % 2 ^ KeyBits
Signed(v) == LET w == Wrapped(v) IN IF w < 2 ^ (KeyBits - 1) THEN w ELSE w - 2 ^ KeyBits

-----------------------------------------------------------------------------
(* make_segmentation                                                       *)

ConstantBpcPath(keys, chunks) ==
  LET size  == Len(keys) \div chunks
      end(c) == IF c = chunks THEN Len(keys) ELSE c * size
      chunk(c) == GreedySegments(keys, BpcToEpsilon(TBpc), (c - 1) * size, end(c))
      out == FlattenSeq([c \in 1..chunks |-> chunk(c)])
  IN [k \in DOMAIN out |-> [cs |-> out[k], bpc |-> TBpc]]

PathEnd(p, k) == IF k = Len(p) THEN n ELSE p[k + 1].cs.first
BitSize == FoldLeft(LAMBDA sum, k : sum + path[k].bpc * (PathEnd(path, k) - path[k].cs.first),
                    0, [k \in DOMAIN path |-> k])

-----------------------------------------------------------------------------
(* segment                                                                 *)

INSTANCE CorrectionArray

Approximate(s, i) == (s.significand * (i - s.first)) \div 2 ^ s.exponent + s.intercept

Decompress(s, i) == Wrapped(Approximate(s, i) + Correction(s, i) - BpcToEpsilon(s.bpc))

\* mutant: the first correction is not added
FirstKeyOnLine(s) == Wrapped(s.intercept - BpcToEpsilon(s.bpc))

FirstKey(s) == Wrapped(s.intercept + s.firstCorrection - BpcToEpsilon(s.bpc))

Sentinel ==
  [bpc |-> IF AutoBpc THEN 0 ELSE TBpc, offset |-> 0, firstCorrection |-> 0, first |-> n,
   intercept |-> Signed(2 ^ KeyBits - 1), exponent |-> 0, significand |-> 0]

-----------------------------------------------------------------------------
(* push_segment: its calls, with the depth of the recursion.               *)

Call(cs, bpc, offset, i, j, depth) ==
  [cs |-> cs, bpc |-> bpc, offset |-> offset, i |-> i, j |-> j, depth |-> depth]

Calls(p) ==
  LET offset[k \in 1..Len(p)] ==
        IF k = 1 THEN 0
        ELSE offset[k - 1] + p[k - 1].bpc * (p[k].cs.first - p[k - 1].cs.first)
  IN [k \in DOMAIN p |->
        Call(p[k].cs, p[k].bpc, Wrapped(offset[k]), p[k].cs.first, PathEnd(p, k), 1)]

Line(call) == FixedPointSegment(call.cs, call.cs.first, call.j - call.i + 1)

\* mutant: only the exponent is checked
ExponentFits(line) == line.exponent < 2 ^ ExponentBits

FieldsFit(line) ==
  line.exponent < 2 ^ ExponentBits /\ line.significand < 2 ^ SignificandBits

\* the segment without its first correction
Unfilled(call) ==
  LET line == Line(call)
  IN [bpc |-> call.bpc, offset |-> call.offset, firstCorrection |-> 0, first |-> call.cs.first,
      intercept |-> Signed(line.intercept), exponent |-> line.exponent,
      significand |-> line.significand]

NeededCorrection(call, k) == Key(k) - Approximate(Unfilled(call), k) + BpcToEpsilon(call.bpc)

Positions(call) == call.i..call.j - 1

\* set_correction throws for these; it checks nothing when bpc is 0
TooLarge(call) ==
  {k \in Positions(call) : call.bpc # 0 /\ NeededCorrection(call, k) \notin 0..2 ^ call.bpc - 1}

Throws(call) == ~FieldsFit(Line(call)) \/ TooLarge(call) # {}

\* The corrections written before the constructor returns or throws.
Filled(call) ==
  IF ~FieldsFit(Line(call)) \/ call.bpc = 0 THEN {}
  ELSE {k \in Positions(call) : \A l \in TooLarge(call) : k < l}

WrittenBits(call) ==
  LET s == Unfilled(call)
  IN (bits \ UNION {Field(s, k) : k \in Filled(call)})
       \cup UNION {BitsOf(s, k, NeededCorrection(call, k)) : k \in Filled(call)}

Stored(call) ==
  [Unfilled(call) EXCEPT !.firstCorrection =
     IF call.bpc = 0 \/ Positions(call) = {} THEN 0 ELSE NeededCorrection(call, call.i)]

\* mutant: the second half starts where the first one does
HalvesRestart(call) ==
  LET half == (call.i + call.j) \div 2
  IN <<Call(call.cs, call.bpc, call.offset, call.i, half, call.depth + 1),
       Call(call.cs, call.bpc, call.offset, call.i, call.j, call.depth + 1)>>

\* The offset of the second half counts from position 0, not from i.
Halves(call) ==
  LET half == (call.i + call.j) \div 2
  IN <<Call(call.cs, call.bpc, call.offset, call.i, half, call.depth + 1),
       Call(CopyFrom(call.cs, half), call.bpc, Wrapped(call.offset + half * call.bpc),
            half, call.j, call.depth + 1)>>

BuildInit ==
  /\ data \in Datasets
  /\ IF AutoBpc THEN path = PathSegments(data)
     ELSE \E c \in Chunks : c <= n /\ path = ConstantBpcPath(data, c)
  /\ todo = Calls(path)
  /\ segments = <<>> /\ bits = {} /\ pc = "pushing"

PushSegment ==
  /\ pc = "pushing" /\ todo # <<>>
  /\ ~Throws(Head(todo))
  /\ segments' = Append(segments, Stored(Head(todo)))
  /\ bits' = WrittenBits(Head(todo))
  /\ todo' = Tail(todo)
  /\ UNCHANGED <<data, path, pc>>

SplitSegment ==
  /\ pc = "pushing" /\ todo # <<>>
  /\ Throws(Head(todo))
  /\ Head(todo).depth < StackLimit
  /\ bits' = WrittenBits(Head(todo))
  /\ todo' = Halves(Head(todo)) \o Tail(todo)
  /\ UNCHANGED <<data, path, segments, pc>>

OverflowStack ==
  /\ pc = "pushing" /\ todo # <<>>
  /\ Throws(Head(todo))
  /\ Head(todo).depth >= StackLimit
  /\ pc' = "overflow"
  /\ UNCHANGED <<data, path, todo, segments, bits>>

FinishBuild ==
  /\ pc = "pushing" /\ todo = <<>>
  /\ segments' = Append(segments, Sentinel)
  /\ pc' = "built"
  /\ UNCHANGED <<data, path, todo, bits>>

Build == PushSegment \/ SplitSegment \/ OverflowStack \/ FinishBuild

-----------------------------------------------------------------------------
(* bucketing_top_level                                                     *)

INSTANCE BucketingTopLevel

EndIndex == Len(segments)

-----------------------------------------------------------------------------
(* Reading the elements back                                               *)

\* operator[]
At(i, padding) == Decompress(Segment(SegmentForPosition(i, padding)), i)

\* decode(): every segment up to the first position of the next one
Decoded ==
  FlattenSeq([k \in 1..SentinelIndex |->
    LET s == segments[k]
    IN [l \in 1..segments[k + 1].first - s.first |-> Decompress(s, s.first + l - 1)]])

Pieces ==
  [first : Nat, bpc : Nat, offset : 0..2 ^ KeyBits - 1, exponent : 0..2 ^ ExponentBits - 1,
   significand : 0..2 ^ SignificandBits - 1, intercept : -(2 ^ (KeyBits - 1))..2 ^ (KeyBits - 1) - 1,
   firstCorrection : 0..2 ^ KeyBits - 1]

(* Every stored field of a segment is in the range of its bit field, and the *)
(* construction is in a known phase (segment, :463-488).                     *)
BuildTypeOK ==
  /\ pc \in {"pushing", "built", "overflow"}
  /\ \A k \in DOMAIN segments : segments[k] \in Pieces
  /\ \A k \in DOMAIN todo : todo[k].i <= todo[k].j /\ todo[k].depth \in 1..StackLimit
  /\ IsFiniteSet(bits)

(* The finished vector gives every element back, through operator[] and     *)
(* through decode(), whatever the padding of the top level holds            *)
(* (:121-124, :255-272).  It takes the segmentation, the splits of          *)
(* push_segment, the layout of the corrections and the top level to agree.  *)
EveryElementDecodes ==
  pc = "built" =>
    /\ Decoded = data
    /\ \A i \in 0..n - 1, padding \in Paddings : At(i, padding) = Key(i)

\* the segment that holds element i
SegmentOf(i) == CHOOSE s \in RealSegments : Segment(s).first <= i /\ i < Segment(s + 1).first

(* The corrections of different elements share no bit, and all of them, as  *)
(* well as the one a forward scan of lower_bound reads at the end of a      *)
(* segment (:182-183), lie in the words allocated for them (:99, :521-527). *)
CorrectionsApart ==
  pc = "built" =>
    LET words == CeilDiv(BitSize, WordBits) + 1
        field == [i \in 0..n - 1 |-> Field(Segment(SegmentOf(i)), i)]
    IN /\ \A i, j \in 0..n - 1 : i # j => field[i] \cap field[j] = {}
       /\ \A i \in 0..n - 1 : field[i] \subseteq 0..words * WordBits - 1
       /\ \A s \in RealSegments : Field(Segment(s), Segment(s + 1).first) \subseteq 0..words * WordBits - 1

(* push_segment gives up halving only when an element cannot be stored even *)
(* as a segment of its own: its line has too wide a slope, or an intercept  *)
(* that the signed field narrows to another number (:446-458, :499-504).    *)
OverflowOnlyTooSteep ==
  pc = "overflow" =>
    \E k \in DOMAIN path : \E i \in path[k].cs.first..PathEnd(path, k) - 1 :
      Throws(Call(CopyFrom(path[k].cs, i), path[k].bpc, 0, i, i + 1, StackLimit))

(* The segmentation of the space-optimised vector costs as little as any    *)
(* path whose edges are the greedy segments of one bpc, their prefixes and  *)
(* their suffixes, hence at most what the best single bpc costs (:379-444). *)
PathIsShortest ==
  AutoBpc /\ pc = "built" =>
    /\ PathCost(path, n) = LeastCost(data)
    /\ \A b \in Bpcs(data) :
         PathCost(path, n) <= b * n + SegmentBits * Len(GreedySegments(data, BpcToEpsilon(b), 0, n))
=============================================================================
