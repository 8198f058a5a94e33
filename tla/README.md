# Models of the learned and compressed rank/select structures

The repository implements and measures data structures that keep an increasing
sequence of integers in little space and answer *select* (the i-th element) and
*rank* (how many elements are below a value). The structure of its own is
`la_vector`: the points (i, data[i]) are covered by line segments, and an
element is its segment's value plus a correction of a few bits. The others are
partitioned Elias-Fano sequences (`include/ds2i`), to which it adds partitions
encoded as one segment, variants of `la_vector` that compress the slopes, and
wrappers around sdsl and sux.

Run everything from this directory: `tlc -config X.cfg M` for a run of
`PROJECT.json`, `tlapm M.tla` for the proofs.

## 1. Inventory

| component | source | state it keeps | operations | what makes it correct |
|---|---|---|---|---|
| optimal piecewise linear model | `lib/adapted_code/piecewise_linear_model.hpp` | a rectangle of two extreme lines, two hulls with start indices, `points_in_hull`, `first_x`, `last_x` | `add_point`, `reset`, `get_segment` | the extreme lines fit every point; a point is refused only when no line fits |
| canonical segment | same | a rectangle and its first x | `get_fixed_point_segment`, `copy` | the rounded line plus the correction gives every element |
| segmentation | same | per thread: chunk, cursor, model, results | `make_segmentation`, `make_segmentation_par` | every point fits its segment; segments in order; at most one more per chunk boundary |
| space-optimised segmentation | `lib/adapted_code/la_vector.hpp:379` | frontier and model per bpc, distances, parents | one function | the cheapest path; the greedy scans run ahead consistently |
| la_vector | `lib/adapted_code/la_vector.hpp` | segments, corrections, top level; `front`, `back`, `n` | construction, `operator[]`, `decode`, `lower_bound`, `rank`, iterator | every element comes back; `lower_bound` exact; cursor follows position |
| semiasync queue | `include/ds2i/semiasync_queue.hpp` | batch being collected, running batches with their threads, expected work | `add_job`, `complete` | jobs prepared once, committed in order, none left behind, no call waits for ever |
| slope-compressed vectors | `include/la_vector_slope.hpp`, `la_vector_best_slope.hpp`, `slope_*` | as la_vector, with lines of `long double` parameters; the sentinel behind `size()` | as la_vector | every correction fits, if need be at the maximum slope; decoding; `lower_bound`; cursor follows position |
| Elias-Fano, ranked bit vector, all-ones | `include/ds2i/compact_*.hpp`, `all_ones_sequence.hpp`, `indexed_sequence.hpp` | bits written by `write`; a cursor with position, value and a cached reader | `move`, `next_geq`, `next`, `prev_value` | the cursor equals a search of the sequence however it was moved |
| segment sequence | `include/ds2i/segment_sequence.hpp` | a segment and its corrections; a position | `write`, `move`, `next_geq`, `next`, `prev_value` | corrections fit; every element comes back |
| partitioned sequences | `include/ds2i/*partitioned_sequence.hpp`, `optimal_partition.hpp` | ends, sizes and upper bounds of the partitions; a cursor with the bounds of its partition, a cursor in it, and cursors of the ends and upper bounds | same, over partitions | answers are those of one sequence; cached bounds belong to the cursor's partition; cost near the least |
| parameters, codes | `global_parameters.hpp`, `integer_codes.hpp`, `index_types.hpp`, `util.hpp` | none | gamma/delta codes | decode is the inverse of encode |
| wrappers, plain array | `include/wrapper_sdsl.hpp`, `array.hpp` | an sdsl structure | `select`, `rank` | agree with the plain array |
| readers, generators, benchmarks, scripts | `index_reader.hpp`, `synthetic.hpp`, `*_utils.hpp`, `*.cpp`, `*.py`, `sux-bench` | files, clocks | input and output | not modelled |

**Interactions.** `la_vector` constructs its segments with
`make_segmentation_par` (constant bpc: bits per correction) or with its own
shortest path, which drives one model per bpc; both get a `CanonicalSegment`
from the model by value. `push_segment` turns it into an integer line, writing
the corrections into an array shared by all segments. `lower_bound` and
iterators share nothing but the constructed vector, which never changes. The
partitioned sequences call `write` of an indexed sequence for each partition and
keep a cursor of it, and keep their upper bounds and sizes in Elias-Fano
sequences with cursors of their own. The slope-compressed vectors take rectangles
from a model of their own, and copy everything else of `la_vector`. Threads
exist in two places only: the OpenMP region of `make_segmentation_par` and
`semiasync_queue`. The queue is not used by the rest of the repository, whose
index builder was left out of it.

**Hard behaviours.** The hulls' exactness over long streams; state that a model
keeps from one segment to the next; chunk boundaries within repetitions;
constructors that throw after writing some corrections, and the halving that
follows; searches whose interval is shrunk with unsigned arithmetic around a
truncated guess; a cursor cached beside a position, and a cursor in a cursor;
windows over a sequence that advance at different speeds; lines rounded to
another slope than they were fitted with; preparation in any order
with commits in one order. `PROJECT.json` lists them as hazards at their lines.

## 2. Modules

| module | models | extends |
|---|---|---|
| `PiecewiseLinearModel` | the model object as a record, `AddPoint` one operator per branch, and the reference `Feasible`/`LineFits` | |
| `PointStream` | one object under every stream of points | `PiecewiseLinearModel` |
| `Segmentation` | `make_segmentation(_par)`; one step is one turn of a thread's loop | `PiecewiseLinearModel` |
| `CanonicalSegment` | integer lines, and the greedy segmentation as one function | `PiecewiseLinearModel` |
| `BpcShortestPath` | the segmentation of the space-optimised vector, and its reference `LeastCost` | `CanonicalSegment` |
| `WordArithmetic` | divisions as the code rounds them, and logarithms | |
| `CorrectionArray`, `BucketingTopLevel`, `SegmentSearch` | the corrections, the top level and the lookup of a segment, which `la_vector` and the slope-compressed vectors have copies of | |
| `LaVector` | construction call by call of `push_segment`, corrections as a set of bit positions, decoding | `BpcShortestPath`; instances of the two |
| `LaVectorIterator` | `lower_bound`, on which `rank` counts, the iterator and its moves | `LaVector`; instance of `SegmentSearch` |
| `SlopePiecewiseLinearModel` | the model object of the slope-compressed vectors, and its lines between the extreme ones | `CanonicalSegment` |
| `SlopeSegmentation` | their two segmentations, with the shortest path over segments and suffixes | `SlopePiecewiseLinearModel` |
| `SlopeVector` | construction of `la_vector_slope` and `la_vector_bs`, segment by segment; decoding | `SlopeSegmentation`; instances of the shared ones |
| `SlopeVectorIterator` | their `lower_bound` and iterator | `SlopeVector` |
| `OrderedCommit` | what the queue promises (abstract) | |
| `SemiasyncQueue` | the queue, its owner and its threads; refines `OrderedCommit` | |
| `Broadword`, `UnaryEnumerator` | arithmetic on words; succinct's reader of the ones of a bit vector, from its use | |
| `IntegerCodes` | gamma and delta codes, as sequences of bits | `Broadword` |
| `SequenceCursor` | what an enumerator of a sequence promises (abstract) | |
| `EliasFano`, `RankedBitvector` | what `write` leaves and each cursor method, as operators on records | `Broadword`, `UnaryEnumerator` |
| `SegmentSequence` | the same for a segment, whose intercept loses its sign | `CanonicalSegment` |
| `IndexedEncoding` | the choice of the encoding with its size, all ones, and the dispatch of each method | instances of the three |
| `IndexedSequence` | one enumerator of it under every sequence of calls; refines `SequenceCursor` | `IndexedEncoding` |
| `OptimalPartition` | `optimal_partition`, and its reference, the least cost of any partition | `IndexedEncoding` |
| `PartitionedEncoding` | what both partitioned sequences share: `write`, and an enumerator over an enumerator. Parameters: how a partition is found, and its extent | `IndexedEncoding`, `IntegerCodes` |
| `PartitionedSequence`, `UniformPartitionedSequence` | the two classes: partitions from `optimal_partition`, or of a fixed size | instance of `PartitionedEncoding` |
| `PartitionedSequences` | an enumerator of either under every sequence of calls; refines `SequenceCursor` | instances of the two |
| `BasicTheorems` | lemmas: extrema of sets of indices, recursions that end, concatenation, quotients, powers of two, binary digits | `WordArithmetic` |
| `ModelTheorems` | lemmas: hulls in the plane; the model object and `AddPoint` | `PiecewiseLinearModel`, `BasicTheorems` |
| `PointStreamProofs`, `SegmentationProofs`, `IndexedSequenceProofs`, `SemiasyncQueueProofs` | proofs of the theorems of section 4; the third begins with the ones and zeros that a reader finds among ascending positions | the module they are about; the first two `ModelTheorems`, the third `BasicTheorems` |
| `LaVectorProofs` | the construction with one bpc: greedy segmentation, integer line, layout of the corrections, `push_segment` with its splits, the finished vector | `LaVector`, `ModelTheorems` |
| `LaVectorIteratorProofs` | top level, `lower_bound`, iterator, and the theorems | `LaVectorIterator`, `LaVectorProofs` |
| `MC...` | instances for TLC of the module named | |

**Correspondence.** Names are the code's where possible: `opt`, `rectangle`,
`lowerStart`; `in`, `p`, `start`, `count` for `c`; `segments`, `bits` for
`corrections`; `cursor` for `s_it`, `at` for `i`; `running` for
`m_running_threads`, `nextBatch` for `m_next_thread.first`. Positions are
0-based as in the code; hull indices are 1-based. `PROJECT.json` maps every
definition to its lines.

* In `PointStream`, `add_point` is an action `Accept` or `Reject`. `pts` and
  `refused` are history. Callers add the refused point again, as both
  segmentations do.
* In `Segmentation`, `Skip`, `Take` and `Cut` are the three ways through the
  loop body; `EmptyChunk` is the `continue` of an aligned chunk without points;
  `Join` is the implicit barrier with the loop over `results`. The serial entry
  is the case of one thread. The arguments are chosen in `Init`.
* In `LaVector`, `todo` is the pending calls of `push_segment`: a call that
  throws is replaced by its two halves. Corrections written before the throw
  stay (`WrittenBits`). `OverflowStack` is the recursion that does not end,
  cut at `StackLimit`. Segments live in a function of their own order, the
  sentinel last, and `EndIndex` stands for `segments.end()`.
* Fields keep their widths: positions, offsets and keys wrap at 2^`KeyBits`, the
  intercept is signed, slope fields too wide for their bits throw.
* Undefined outcomes are choices: an entry of the top level past its end may be
  0 or a copy of its default (`Paddings`), and the element after the sentinel
  may compare either way (`Advance`). `Advance` is not taken from `end()` (section 6).
* In `SemiasyncQueue`, work is counted in halves, so that adding a double to the
  `size_t` truncates. `add_job` and `complete` each span several steps (`pc`),
  interleaved with the threads' `PrepareJob`.
* In the slope-compressed vectors, a line is a slope and an intercept over one
  denominator: exact where the code rounds to `long double`. `PushSegment` stores
  one segment, on the line of S or, when a correction does not fit, on that of
  maximum slope (`SafeSlope`); the exception that nothing catches leaves `pc` =
  "failed". In `la_vector_bs` (S = `Best`) the order of the nine entropies is a
  choice, and with it which of the lines that fit is taken. A segment without corrections leaves its
  line unassigned there: its line is a choice too, and properties exempt it. Segment
  `SentinelIndex` is what `segments.end()` points to.
* `Seek` takes the iterator that `lower_bound` returns only for values within the
  reach of its search, because of the finding below.
* In `EliasFano` and `RankedBitvector`, a bit vector is the set of its ones, with lower bits and
  samples as functions; `reader` is `m_high_enumerator` or `m_enumerator`. A
  reader remembers whether the one at its position was read, because the code
  relies on it: a one that was read is a zero for `skip0`. The loops that read
  ones are one operator each (`Scan`, `ScanForward`); a `next_reader` hands its
  reader back when it is destroyed, which is the `reader` of the result.
* In `SegmentSequence`, the fields of the line are a record, the intercept and the
  corrections are the ones among their bits, so that an intercept too wide runs into
  what follows (the assertion of the bit vector against it is taken to be off); `c` is
  the argument of `write`, -1 (`NoBpc`) for none.
* In `PartitionedEncoding`, `header` is a sequence of bits, read back by decoding
  it; the sequences of the partitions are a function of the bit they start at, so
  that partitions without bits share one. `partition`, `begin`, `end`, `base` and
  `upper` are the `m_cur_` fields of the enumerator, `within` is
  `m_partition_enum`, `upperBounds` and `sizes` are the cursors of the ends.
* In `OptimalPartition`, a window is its cost bound and its end (`ends`); the
  windows of one start are taken in order, each from where the start before left it
  or from the end of the window before.

## 3. Runs

| run | question | properties |
|---|---|---|
| `point_stream` | are the hulls exact whatever the stream? | `TypeOK`: hull starts in range after any restart. `SlopesWellFormed`: cross products compare slopes. `ExtremeLinesFit`: both lines of the rectangle fit all points, also those popped. `ExtremeSlopesExact`: their slopes are the true extremes. `RefusesOnlyInfeasible`: a refusal means that no line fits, an acceptance that one does. |
| `segmentation` | do chunking and interleaving keep the segmentation right? | `TypeOK`: the model holds exactly the points with new x since the last cut. `EveryPointFits`; `AtMostOneMorePerBoundary` (against a dynamic program); `Returns` |
| `la_vector_const` | does a vector with constant bpc, built in chunks and with splits, give its keys back, and do iterators keep up? | `TypeOK`, `EveryElementDecodes`, `CorrectionsApart`, `OverflowOnlyTooSteep`, `LowerBoundIsExact`, `IteratorOnItsSegment` |
| `la_vector_auto` | the same for the space-optimised vector, whose search interpolates | `EveryElementDecodes`, `PathIsShortest`, `LowerBoundIsExact` |
| `semiasync_queue` | does the queue implement the ordered commit, and return? | `TypeOK`, `OrderedCommitSpec` (refinement), `CommitsOnlyFinishedBatches`, `CompleteLeavesNothing`, `CallsReturn` |
| `indexed_sequence` | does a cursor's answer depend on the calls before? | `ReaderInStep`: the cached reader has just read the one of the position. `SequenceCursorSpec` (refinement): every answer is that of a search, but for segments. `PrevValueIsPredecessor`. `SegmentDecodes`: the corrections of a segment always fit, and its elements come back exactly if its line begins at or below zero. `SegmentSearchFinds`: then the search in its `next_geq` ends at the rank of the bound |
| `partitioned_sequences` | does splitting a sequence show? | `SequenceCursorSpec` (refinement of the same cursor). `CursorInItsPartition`: the cached bounds are those of the elements, the cursor inside is at the same element, and the cursors of the ends are at the partition. `PrevValueIsPredecessor` across partitions. `PartitionsNearCheapest`: the cost is within (1 + eps1)(1 + eps2) of the least of all partitions |
| `slope_vector` | does a line of another slope than the fitted one still store its elements, and do search and iterators work on it? | `TypeOK`, `CorrectionsFit`: no constructor throws. `EveryElementDecodes`. `DecodesAboveEpsilon`: `decode()` agrees where the line is above epsilon. `PathIsShortest`. `LowerBoundFindsWithinReach`: the answer is right whenever it is among the positions searched, and the segment is right except for truncated first keys. `IteratorOnItsSegment`, `end() - d` included |
| `la_vector_offsets` | *violation*: a split of a segment that does not begin at 0 (`la_vector.hpp:456`) | `EveryElementDecodes` |
| `slope_lower_bound` | *violation*: the comment of `lower_bound` (`la_vector_slope.hpp:293`) | `LowerBoundIsExact` |
| `slope_decode` | *violation*: the comments of `decode` (`la_vector_slope.hpp:419`, `:442`) | `DecodeGivesElements` |
| `segment_answers` | *violation*: the tests of the cursors (`tests/test.cpp:21`, `:24`), on segments | `SegmentAnswersAsTested` |

**What the violations show.** `push_segment` counts the offset of a second half
from position 0. It is harmless when all segments have one bpc (the offset is
not used), which is why `la_vector_const`, with splits, passes. In the
space-optimised vector a segment that is halved writes its second half over
other corrections, or past them. It needs a slope wider than 27 bits, which is
rare: the run narrows the field to 4 bits to make it happen in five keys. In
0, 1, 3, 8, 12 the segment of the first three is halved, its half [1, 3) again, and
the second half of that, position 2, gets offset 2 + 2 * 2 = 6 in place of 4: bit 6 is
where the corrections of the next segment begin. With
`(half - i) * bpc` the same instance passes. `la_vector_auto` has a field wide
enough that nothing is split.

`approximate_position` of the slope-compressed vectors (`la_vector_slope.hpp:659`)
multiplies the distance of a value from the intercept by the slope, where the
position is the quotient, and scales epsilon in the same way. The positions that
`lower_bound` searches then need not hold the answer, and it returns one end of
them. Eight keys suffice, with the sampling of the code: 10, 12, 14, 17, 18, 20,
23, 24 make one segment of slope 2 and intercept 10, with two bits per correction,
epsilon 1. For 14 the guess is (14 - 10) * 2 = 8, hence the last
position, and the bound is 1 + 1 * 2 = 3: positions 4 to 7 are searched, and the
answer is 4 in place of 2. No number here is near the width of its type. A space-efficient vector scans the segments
of up to 256 elements from their first and is concerned in longer ones only.

`decode()` of a slope-compressed vector (`la_vector_slope.hpp:426-432`) takes epsilon
off the intercept and stores the height into an unsigned output, which truncates
towards zero; the corrections were computed for the height truncated first and
epsilon taken off after, as `operator[]` does. The two differ where the line runs
below epsilon: of the vector 1, 5, 8, 11 with two bits per correction the line is at
0.9 for the first, `decode()` truncates 0.9 - 1 = -0.1 to 0 and adds the correction 2,
and the first element comes back as 2. `DecodesAboveEpsilon`, of the run
`slope_vector`, says that all others come back, unless the line meets an
integer exactly: there the last bit of a `long double` may decide, which is not
modelled.

The cursor of a segment (`segment_sequence.hpp:124`, `:163`) answers one more than the
element to `move` and `next_geq`, and `next_geq` goes to the position before the one
found (`:160`). The tests ask `move(i - 1)` for element i and `next_geq` for the rank,
of `partitioned_sequence<2>` as well (`tests/test.cpp:119`, `:135`), which hands on what
the cursor of the partition answers (`partitioned_sequence.hpp:291`, `:301`). In the
run the elements are 0 and 2 with two bits per correction, both decode, and `move(0)`
answers 1. That the data is right and its search too is what `SegmentDecodes` and
`SegmentSearchFinds` say in `indexed_sequence`.

**What the passing runs show besides.** `optimal_partition` can
report a cost below that of what it returns: a prefix that costs more than
the sequence whole keeps the cost it was initialised with.
`PartitionsNearCheapest` says what is left of the promise.

A partition that is written as a segment (hybrid 2) gives its elements back only if
its line begins at or below zero, since the intercept is written without its sign
and read as negative, as the comment "this - may be the problem"
(`segment_sequence.hpp:109`) suspects: 0, 5, 6 with two bits per correction is read as
other numbers. `SegmentDecodes` says that this is the only reason.

**Bounds and why they are enough.**

* `point_stream`: all streams on a 6 x 5 grid with epsilon 0, 1 and 2, so up to
  six points in a segment: hulls of more than three entries, pops of several,
  gaps in x, scans that advance twice. `Reset` and refusals at any point cover
  what the object keeps from one segment to the next.
* `segmentation`: up to six points with up to two repetitions, two or three
  threads and `SequentialBelow` = 5 in place of 2^15, so that both entries, a
  chunk emptied by alignment, chunks of one point and uneven last chunks occur.
  Heights 0, 1 and 6 force a cut.
* `la_vector_*`: all increasing sequences of one to eight keys of the given
  heights. Keys take six bits instead of 32, words 8 instead of 64, samples
  every second element instead of every 2048 / t_bpc rounded up, a top level of
  two or four entries instead of 2^16, linear threshold 1 or 2 instead of 256,
  so that every branch is reached in eight keys. The significand has four bits
  where splits are wanted. Keys are below 32, half of the range: see section 6.
* `semiasync_queue`: up to eight jobs of half, one and one and a half units with
  two units per thread, so batches of two to four jobs, three at once, and a
  fourth that waits.
* `indexed_sequence`: every increasing sequence of one to six elements below 9 with
  each of the three hybrids, and every sorted one below 4 as Elias-Fano, which
  takes repetitions (the upper bounds of a partitioned sequence begin with one),
  each with the smallest universe it fits and with 9; and as a segment every
  increasing one that zero, two or three bits per correction cover, with lines that
  begin below, at and above zero. Samples are taken every
  four bits, ones or zeros instead of every 2^9 or 2^8, and the linear scan is of
  one instead of 8, so that the small skip, the near skip from the reader and the
  skip from a sample all occur, with zero, one and two samples; lower bits are
  zero to three.

* `partitioned_sequences`: every increasing sequence of up to five elements below 7
  and every three runs of up to three elements nine apart, with the smallest
  universe and one that is larger by two; samples every one to four bits, linear
  scan of one element, partitions of two elements instead of 128 in the uniform
  layout, a fixed cost of 4 bits instead of 64, eps1 and eps2 as in the code. Up to
  three partitions result in either layout, single elements, all ones and several
  partitions at one offset among them, and moves into the next, an earlier, a later
  partition and the end from everywhere. The fixed cost decides how many windows
  there are: with 4 there are several, of different ends.
* `slope_vector`: every vector of up to six keys from three
  sets of heights, chosen so that the cases occur: the middle slope does not fit and
  the maximum slope is taken; a line below zero whose first key truncates; lines of
  slope above and below one; redundant segmentations; paths of segments with
  different bpc and of suffixes; values outside the reach of the search; both the
  scan and the interpolation; three and more segments. Four bits per correction or
  each segment's own, S = 4 (halfway) and best-of-nine, one or two chunks. Keys have
  ten bits instead of 32, which no number of the instances reaches, samples are every
  second element, the top level has two entries, the scan goes up to two elements
  instead of 256, a segment costs 12 bits. An iterator is sought with five values and
  moved by at most three.
* `slope_lower_bound` and `slope_decode`: vectors of eight or more, and of four or more
  keys with two bits per correction, samples every 1024 elements as the code has for
  them (hence no sample but the first, and the search is the one by halving), ten
  bits per key. Only the key type and the top level are smaller, and neither shows.
* `segment_answers`: the segments of `indexed_sequence`.

Deadlock is not checked where the system really stops: a stream whose points are
used up, a function that has returned, an overflowed stack, a failed
constructor. `semiasync_queue`, `indexed_sequence` and `partitioned_sequences`
check it.

**Fairness.** `Segmentation` assumes `WF_vars(Next)`: OpenMP runs each thread to
its end and the barrier needs all of them; every behaviour is finite unless a
refused point could be refused again, which is what `Returns` excludes.
`SemiasyncQueue` assumes weak fairness of the steps inside a call of the owner
(`InCall`), since a call runs until it blocks, and of the thread of the oldest
batch, since the operating system runs it. The owner need not call anything, so
there is none for `AddJob` and `Complete`. The other modules state no liveness:
they are sequential, and each call is one step.

## 4. Proofs

| theorem | statement |
|---|---|
| `PointStreamProofs!TypeCorrect` | `Spec => []TypeOK` |
| `PointStreamProofs!SlopesAlwaysWellFormed` | `Spec => []SlopesWellFormed` |
| `PointStreamProofs!ExtremeLinesAlwaysFit` | `Spec => []ExtremeLinesFit` |
| `PointStreamProofs!ExtremeSlopesAlwaysExact` | `Spec => []ExtremeSlopesExact` |
| `PointStreamProofs!RefusalIsOptimal` | `Spec => RefusesOnlyInfeasible` |
| `SegmentationProofs!TypesAndCounts` | `Spec => []TypeOK` |
| `SegmentationProofs!EveryPointAlwaysFits` | `Spec => []EveryPointFits` |
| `SegmentationProofs!AtMostOneMoreAlways` | `Spec => []AtMostOneMorePerBoundary` |
| `IndexedSequenceProofs!ReaderStaysInStep` | `Spec => []ReaderInStep` |
| `IndexedSequenceProofs!EnumeratorsAnswerAsASearch` | `Spec => SequenceCursorSpec` |
| `IndexedSequenceProofs!PrevValueStaysPredecessor` | `Spec => [](IsSegment \/ PrevValueIsPredecessor)` |
| `SemiasyncQueueProofs!TypeCorrect` | `Spec => []TypeOK` |
| `SemiasyncQueueProofs!ImplementsOrderedCommit` | `Spec => OrderedCommitSpec` |
| `SemiasyncQueueProofs!NothingLeftBehind` | `Spec => CompleteLeavesNothing` |
| `SemiasyncQueueProofs!OnlyFinishedBatches` | `Spec => CommitsOnlyFinishedBatches` |
| `LaVectorProofs!FieldsApart` | with one bpc for all segments, corrections of different elements share no bit |
| `LaVectorProofs!FieldsAllocated` | all of them, and the one behind the last, lie in the allocated words |
| `LaVectorIteratorProofs!ConstructionInvariant` | `~AutoBpc` : `Spec => []BuildInv` |
| `LaVectorIteratorProofs!ConstructionTyped` | `~AutoBpc` : `Spec => []BuildTypeOK` |
| `LaVectorIteratorProofs!CorrectionsStayApart` | `~AutoBpc` : `Spec => []CorrectionsApart` |
| `LaVectorIteratorProofs!ElementsComeBack` | `~AutoBpc` : `Spec => []EveryElementDecodes` |
| `LaVectorIteratorProofs!RecursionEndsOnlyTooSteep` | `~AutoBpc`, `DeepEnough` : `Spec => []OverflowOnlyTooSteep` |
| `LaVectorIteratorProofs!IteratorTypeCorrect` | `~AutoBpc`, `RoomAbove` : `Spec => []TypeOK` |
| `LaVectorIteratorProofs!IteratorFollowsItsSegment` | `~AutoBpc`, `RoomAbove` : `Spec => []IteratorOnItsSegment` |
| `LaVectorIteratorProofs!LowerBoundAlwaysExact` | `~AutoBpc`, `RoomAbove` : `Spec => []LowerBoundIsExact` |

*Point stream.* For every set of natural x, y and epsilon
(`StreamAssumption`). The inductive invariant `WellFormed` speaks of the object:
both hulls strictly increase in x up to `last_x`, both starts are entries, and
the two lines run left to right. With one point only, the rectangle's left
corners are at `last_x`, which is why the second point makes lines of positive
dx; the hulls outlive a refusal, so the clause on them is under
`pointsInHull > 0`. The tangent scans and the pops are minima and maxima of sets
of indices (`BasicTheorems`), from which follows that they end in range.
One lemma per branch of `add_point` (`FirstPointWellFormed`,
`SecondPointWellFormed`, `MaxSlopeStepNarrows`, `MinSlopeStepNarrows`,
`InnerPointWellFormed`, `EmptiedWellFormed`) gives `AddPointWellFormed`.

*Exactness of the hulls.* That the rectangle's lines fit every point is not
inductive: the points are gone, only hulls are kept, and those are cut at their
front by every tangent scan and at their back by every pop. The invariant
(`Tracks`) says what is left of the points. Write the two ends of point q as
q - eps and q + eps. One hull, from its start index, is a chain of lower ends
turning right, under which all lower ends within its reach lie (`Covers`); the
other is the same of upper ends, upside down. The rectangle's left corners are the
entries at the start indices and its right corners the last ones, and both diagonals
run above all lower ends and below all upper ones, those left of the chains included
(`Between`; together `Exact`). So each diagonal leads from an end of one kind to an
end of the other, which makes it extreme.
`ModelTheorems` first proves of chains in the plane, by signs of cross products only:
the tangent that a scan stops at is above the whole chain
(`TangentAboveChain`), the corners a pop removes are below the new edge
(`PoppedBelowEdge`, `CoversPushed`), and what is said of a lower hull holds of an
upper one mirrored (`Mirrored`), so that each is proved once. It then
connects them to the record, one lemma per branch (`FirstPointTracks`,
`SecondPointTracks`, `InnerPointTracks`, `EmptiedTracks`). From `Exact` two points
bound the slope of every fitting line on either side; a refused point contradicts
one of the bounds (`RefusedInfeasible`), an accepted one leaves the diagonals
themselves as fitting lines (`TracksFeasible`). The scans and pops are not inducted
over: a tangent is the least index at which the scan's condition fails, so every
index before it satisfies it.

*Segmentation.* For every number of threads, size of the chunks, epsilon and
input sorted by x (`SegmentationAssumption`; `add_point` throws on any other).
The invariant `TInv` says of a thread that its model `Tracks` exactly the new x
between `start` and `i`, which is `TypeOK`'s count, and that what it emitted
`Serves` the positions from the begin of its chunk to `start`: the segments begin
with the first new x and at increasing x, and each new x in the range is fitted
by the last segment that begins at or before it. Segments that serve adjacent
ranges serve both (`ServesTogether`), which is used twice: when a thread emits a
segment, and when the chunks are joined. Chunks are adjacent (`ChunksAdjacent`)
although each leaves out the repetitions at its begin, because a range without a
new x is served by nothing. A thread's step changes nothing of another's
(`OneThreadMoves`), so there is one lemma per action about one thread.

*Number of segments.* A thread cuts because no line fits the points since `start`
and the refused one (`RefusedInfeasible`), so in any segmentation a segment begins
among them behind the first (`ConflictCosts`). Let F(c) be the fewest ranges for
the positions below c, the function of `FewestSegments`. It grows with c
(`FewestGrows`: the last range of a longer prefix, cut short, is one of the
shorter) and by one at least at each cut (`CutCosts`). The invariant `CInv` adds
to `TInv` that the segments a thread emitted number at most
F(start + 1) - F(begin of its chunk + 1), and one more when it is done; summed over
the chunks, that is F(N) and one per boundary. One optimal segmentation thus
bounds all threads, though none of them knows where its segments begin.

*Indexed sequence.* For every sorted sequence of naturals below its universe, hybrid,
sampling rate and threshold of the linear scans (`IndexedSequenceAssumption`,
`PowersOfTwo`). `SequenceCursorSpec` and the theorem on `prev_value` leave out the
segment, as the code does: it answers otherwise (the run `segment_answers`), and its decoding
stays with TLC. That an answer is right is not inductive: the next call may start
from the cached reader. The invariant `EnumeratorInStep` says that the enumerator is
of the type that was written, which for all ones is not stored but computed from
universe and size, that the data is what `write` left, and that before the end the
reader has just read the one of its position; at the end it may be anywhere
(`InStep`). Both encodings are the values of a rising function of the index:
element i is the one at `(element \div 2^l) + i + 1` of the higher bits (`HighRises`,
`HighDecodes`), or at the element itself (`OnesRise`). The first part of the module says
for any such function what a reader that is before the one of index a reads
(`NextOneReads`, `SkipOnesSkips`), that a sample and a reader behind a one are such
readers (`SampledOne`, `BehindAOne`), and at which bit a number of zeros ends,
whatever ones lie between (`SkipZerosSkips`). One lemma per method and encoding
follows. `next_geq` is the difficult one: `EfSampledZero` shows that the pointer which
`set_ptr0s` leaves for the k-th sample is that zero, with as many ones before it as
elements have fewer higher bits; from there, as from a reader less than a sample
behind, the skipped zeros end behind the elements with fewer higher bits than the
bound (`EfSkipZeros`), none of which is the answer (`HigherBitsBelow`), and the loop
stops at the first that is not below it (`EfScan`). The ranked bit vector counts
(`RbSampledRank`, `RbCounted`). All ones needs that n increasing numbers below n are
0, ..., n - 1 (`AllOnesElements`).

`PowersOfTwo`, of this module and of `LaVector`, is a fact of arithmetic that TLC checks of
each instance and the provers do not know: the powers of two by which the code shifts and
masks are positive, and in `LaVector` each is twice the one before. It holds of every
natural exponent.

*Queue.* For every number of threads, works and jobs (`QueueAssumption`). That
commits are in order is not inductive: it depends on where the uncommitted jobs
are. `Inv` says so. Batches hold consecutive jobs (`ChainInv`), a job of a batch
is prepared exactly if its thread has passed it (`BatchInv`), the batch being
collected holds the jobs after those, none of them prepared (`NextInv`), the
oldest batch is finished once it was joined and only it has committed jobs
(`OwnerInv`, `BatchInv`), and what was committed is 1, 2, 3, ... (`CommitInv`).
One lemma per action proves `Inv` inductive; the refinement maps `PrepareJob`
and `PrepareInline` to `Prepare`, `CommitJob` and `CommitInline` to `Commit`,
the two ways of adding to `Add` and every other step to a stutter.

*la_vector.* For every set of strictly increasing keys within the key type, every
width of the fields, density, size of the top level and chunking
(`LaVectorAssumption`), under three hypotheses. `~AutoBpc`: all segments have one bpc;
the vectors with a bpc each write the corrections of a split to a wrong place (the
finding of `la_vector_offsets`), so that nothing of this holds of them. `RoomAbove`, in
what asks for a value: the greatest key is more than epsilon + 2 below the end of its
type, since above that the sentinel is mistaken for a segment (`la_vector.hpp:751`).
`DeepEnough`: the stack has room for one call more than the data can be halved, where the
code has megabytes. `LaVectorAssumption` says besides that bpc is below the width of a
key, which the code asserts (`la_vector.hpp:45`), and a key no wider than a word.
TLC evaluates it and `PowersOfTwo` on the runs of `la_vector`.

*Construction.* `BuildInv` holds at every call of `push_segment`. The calls to come
continue each other (`GoodCalls`), the first of them where the stored segments end, and
these tile the positions before it (`Tiles`). A stored segment keeps, for each of its
positions, the correction that its line needs (`Encoded`). This has to outlive what is
written later, by a constructor that throws half way too: a call writes fields of its own
positions only (`WrittenBits`), and those share no bit with any other position's
(`FieldsApart`). That no segment is empty is true only of vectors that are finished:
splitting a single element gives a call without positions, which stores a segment without
elements, and in such a vector a lookup would find the wrong one. But the other half is
the same element again, which throws again. `Idle => Doomed` says so: where an empty call
or segment is, there is a call of one position that throws, hence a call to come, hence no
finished vector. The last segment of a chunk may have one point only, whose slope is zero;
every other is at least as steep as the diagonal, since keys are integers that increase
(`Rising`). The search needs this below. For the segmentation, that the greedy loop ends
and its pieces continue each other is shown of the recursive function by well-founded
induction on what is left of the data, and of `FlattenSeq` by induction on an interval:
both are inductions with a set, not with an operator, which the library allows.

*Layout.* The elements at multiples of the density come first, in order; element i that
is not one goes to slot i + n / density - i / density. The division is the difficulty: an
interval that ends at no multiple is longer than the number of multiples in it
(`QuotientGrowsSlower`), so the slots of the others increase too; and i / density is below
i there, so they lie behind those of all samples (`SamplesFirst`). Slots never exceed n,
from which the bound on the words follows.

*Depth of the recursion.* A call is split into two, the second of half its positions rounded
up, so that what halves is one less than their number (`Short`, in `CallsDescend`). At
the limit of the stack a call therefore has one position or none (`DeepestShort`), and if
it throws there, then by `BuildInv` some call of one position does. That call has the
line of the segment that it was split from, moved to its element (`SplitFrom`), which is
the one that `OverflowOnlyTooSteep` exhibits.

*Lookup.* Both tables of the top level are shown to hold, for the bucket of a position or a
value, a segment at or before the right one, and for the next bucket one at or behind it
(`PosTopLevelBounds`, `ValTopLevelBounds`), the padding included, for which `StepCovers` says
which bucket is the last. `UpperBoundFinds` is the branchless search between them, which
halves its interval rounding up whichever half it goes to: the first segment above the
value stays within it or at its end. That segments can be compared by their first
keys at all follows from the corrections: the first key of a segment is an element
(`FirstKeys`).

*Search.* The truncated guess of `approximate_position` is too low or too high by at most its
bound: the line is within epsilon of each element (`LineNearKeys`), and the slope, being one
at least, moves the guess by no more than that distance over the slope
(`GuessNotTooLow`, `GuessNotTooHigh`, by signs of products only). No step of it wraps
(`GuessUnwrapped`), and the interval that is left after clamping contains the answer
or ends at it (`ReachHasStop`). The search on the samples looks at none outside of it and
shrinks it around the answer (`SampleSearchNarrows`), and the search by halving ends there
(`BinarySearchFinds`). Both are recursive functions of a pair or four
positions; that they exist is proved by well-founded induction on the length of the interval.

*Iterator.* `CursorInv`: until the vector is built both are 0; from then on the cursor holds
the position, or at the end is the last segment, the sentinel or `segments.end()` (`CursorAt`).
A step over the end of a segment reaches the next, because none is empty (`SteppedForward`,
`SteppedBack`). `Advance` may take either way on the sentinel, whose successor does not exist,
and both are right (`StayedOn`).

**Only model-checked**: liveness (`Returns`, `CallsReturn`); `PathIsShortest`, and
everything of a vector with a bpc for each segment: its search interpolates, and its path
is a fold over the positions. Of the slope-compressed vectors, `OptimalPartition` and the
segment of an indexed sequence (`SegmentDecodes`, `SegmentSearchFinds`) too the state is what folds
over sequences compute. A recursive definition is not out of reach as such: that a function
with it exists can be proved for each one by well-founded induction (`ConcatenationExists`,
`FewestExists`, `SearchExists`), after which its values follow from its equation, but each takes
a proof of its own. `PartitionedSequences` composes cursors that are now proved, but what its
`write` leaves is a fold. The four violations are TLC's.

## 5. Plan

In order; the core came first.

1. *Done*: the model object, its segmentations, the canonical segment, the
   shortest path, la_vector with its iterator, the queue.
2. *Done*: `SequenceCursor`, the abstract cursor, and `EliasFano`,
   `RankedBitvector` and all ones as refinements of it, with the cached reader
   and the small skips (`IndexedSequence`), and the segment beside them (hybrid 2).
3. *Done*: the partitioned sequences, composing base cursors
   (`PartitionedSequences`), with `OptimalPartition` against the exact least cost.
4. *Done*: slope compression (`SlopeVector`, `SlopeVectorIterator`).
5. Hybrid 2 in `OptimalPartition`; `enc_vector_rank`; la_vector with high keys.
6. *Done*: the hulls are exact and refusals right for every stream; the parallel
   segmentation fits every point, with at most one segment more per boundary.
7. *Done*: each encoding of `IndexedSequence` but the segment implements
   `SequenceCursor`.
8. *Done*: la_vector with one bpc, from its segmentation to its iterator.
9. Theorems: the two-level cursor of `PartitionedSequences` implements `SequenceCursor`
   as well, from what its `write` leaves; the slope-compressed vectors, whose corrections,
   top level and iterator are those of la_vector.

## 6. Not modelled, and why

* Keys of la_vector above half of their range, in the instances: the intercept is
  stored signed, and an element that it cannot be narrowed for is one that no segment
  stores. The theorems admit such keys, and say that the vector then is not finished.
  The sentinel's key is near the greatest of the type: a last key within epsilon of it
  makes `segment_for_value` return the sentinel, which `RoomAbove` excludes.
* `+=` and `-=` on an iterator of la_vector at `end()`: they compare the new position with
  fields of `segments.end()` and of what follows it (`la_vector.hpp:647`), past the
  vector, and may leave the cursor there. What follows is not the code's to
  determine. The slope-compressed vectors store the sentinel there, and their
  `+=` from the end is modelled.
* `rank` of la_vector has no operator: it is the position of `lower_bound`, so the
  number of elements strictly below the value, where its comment
  (`la_vector.hpp:234`) says "less than or equal".
* `log2(data.back())` for a vector holding only 0: undefined before any modelled
  state exists, excluded by `LaVectorAssumption`. An empty vector: the
  constructor reads `*begin` before it tests for it.
* 64-bit overflow in the products of slopes: integers are unbounded in
  `PiecewiseLinearModel`. Offsets beyond 2^32 bits wrap in the model, but no
  instance is that large.
* `next_geq` of Elias-Fano beyond the universe: from the end it takes the way for
  small skips and leaves the position at n + 1. The tests and benchmarks ask below
  the last element. A partitioned sequence moves its cursor of upper bounds back
  to an entry after every search: `CursorInItsPartition` checks that it never asks
  from the end.
* Hybrid 2 of the partitioned sequences: the segmentations from which
  `optimal_partition` takes the cost of a segment. `IndexedSequence` takes the bits
  per correction as an input instead, where one segment covers the elements, which
  is what `cost_fun` looks up. The search there ends the last segment at the length
  of the window (`optimal_partition.hpp:220`), so that it is not found for a window
  that begins later, which costs space only.
* The costs that `write` of a partitioned sequence returns, and `bitsize_type`,
  which calls a tie a ranked bit vector (`indexed_sequence.hpp:55`).
* `auto ub = 0` (`partitioned_sequence.hpp:249`), an `int` that holds the universe
  of a single partition: no instance comes near 2^31.
* Bounds of windows that do not grow, when `fix_cost * eps2` is below 1
  (`optimal_partition.hpp:254`): the loop would not end; excluded by
  `PartitionedSequencesAssumption`, as the code's parameters are 64 and 0.3.
* Repetitions in a partitioned sequence: its partitions are sets of differences
  from a base above the element before, so the code takes increasing sequences.
* `long double` rounding in the slope-compressed vectors; the entropies by which
  `la_vector_bs` chooses, its assertion that they are not negative
  (`la_vector_best_slope.hpp:641`) and the counters it does not clear between
  slopes; copies of these vectors, which lose the sentinel behind `size()`
  (`la_vector_slope.hpp:271`). A last key below 8, with which the search for
  redundant segmentations reads before the first (`la_vector_slope.hpp:149`), is
  excluded by `SlopeVectorAssumption`.
* The words and shifts with which the ranked bit vector counts ones, and the
  widths of the pointers.
* `strict_sequence.hpp`: it includes a file that is not in the tree.
* The double arithmetic of the expected work beyond halves.
* Serialization, sizes in bytes, logging, argument parsing, timing, plots.
* sdsl, succinct and sux: git submodules whose sources are not in the tree.
* The remaining components of section 1, until their step of the plan.
