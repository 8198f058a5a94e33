-------------------------- MODULE OptimalPartition --------------------------
(***************************************************************************)
(* optimal_partition, include/ds2i/optimal_partition.hpp, with hybrid 0    *)
(* and 1: the ends of the partitions whose costs add up to the least, on a *)
(* graph that windows of growing cost bounds make sparse.                  *)
(***************************************************************************)
EXTENDS IndexedEncoding, SequencesExt, FiniteSetsExt

CONSTANTS
  FixCost,      (* fix_cost (64), in bits                                    *)
  Eps1, Eps2    (* eps1 and eps2 (0.03 and 0.3), records of num and den      *)

CostFun(h, u, size) ==
  FixCost + CASE h = 0 -> EF!Bitsize(u, size) + TypeBits(h)
              [] h = 1 /\ AllOnesFits(u, size) -> 0
              [] h = 1 /\ ~AllOnesFits(u, size) ->
                   Min({EF!Bitsize(u, size), RB!Bitsize(u, size)}) + TypeBits(h)

\* mutant: min_p is the element before the window
ElementBefore(seq, start) == IF start = 0 THEN seq[1] ELSE seq[start]

\* min_p of a window that starts at index start, and the cost of [start, end)
WindowBase(seq, start) == IF start = 0 THEN seq[1] ELSE seq[start] + 1
WindowCost(h, seq, start, end) == CostFun(h, seq[end] - WindowBase(seq, start) + 1, end - start)

\* The bounds of the windows: the least cost, growing by eps2 as long as it
\* is below 1 / eps1 times the least, until one window takes the sequence whole.
Bounds(h, single) ==
  LET least == CostFun(h, 1, 1)
      bounds[b \in Nat] ==
        CASE b * Eps1.num >= least * Eps1.den -> <<>>
          [] b * Eps1.num < least * Eps1.den /\ b >= single -> <<b>>
          [] OTHER -> <<b>> \o bounds[(b * (Eps2.den + Eps2.num)) \div Eps2.den]
  IN bounds[least]

\* The edge from start to end, kept when it is strictly shorter.
Improve(s, start, end, cost) ==
  IF s.min_cost[start] + cost < s.min_cost[end]
  THEN [s EXCEPT !.min_cost[end] = s.min_cost[start] + cost, !.path[end] = start]
  ELSE s

\* One window: the edges to from, from + 1, ... until the cost of one reaches
\* the bound.  The last one is where the window has its end.
Relax(h, seq, s, start, from, bound) ==
  LET last == Min({Len(seq)} \cup {end \in from..Len(seq) : WindowCost(h, seq, start, end) >= bound})
      step(r, k) == Improve(r, start, from + k - 1, WindowCost(h, seq, start, from + k - 1))
      relaxed == FoldLeft(step, s, [k \in 1..last - from + 1 |-> k])
  IN [relaxed EXCEPT !.ends = Append(@, last)]

\* One start: every window goes on from its own end, or from the last end of
\* the window before it.
FromStart(h, seq, bounds, s, start) ==
  LET step(r, w) ==
        Relax(h, seq, r, start,
              Max({s.ends[w], IF w = 1 THEN start + 1 ELSE r.ends[w - 1]}), bounds[w])
  IN FoldLeft(step, [s EXCEPT !.ends = <<>>], [w \in DOMAIN bounds |-> w])

PathEnds(path, size) ==
  LET back[end \in 0..size] == IF end = 0 THEN <<>> ELSE Append(back[path[end]], end)
  IN back[size]

\* partition and cost_opt.  Until an edge reaches it, every end has the cost
\* of the sequence whole, and 0 before it on its path.
Partition(h, seq, u) ==
  LET size   == Len(seq)
      single == CostFun(h, u, size)
      bounds == Bounds(h, single)
      s      == FoldLeft(LAMBDA r, start : FromStart(h, seq, bounds, r, start),
                         [min_cost |-> [end \in 0..size |-> IF end = 0 THEN 0 ELSE single],
                          path     |-> [end \in 0..size |-> 0],
                          ends     |-> [w \in DOMAIN bounds |-> 0]],
                         [k \in 1..size |-> k - 1])
  IN [ends |-> PathEnds(s.path, size), cost |-> s.min_cost[size]]

-----------------------------------------------------------------------------
(* Reference: the cost of what is written, and of the cheapest partitions. *)

WrittenCost(h, seq, start, end) ==
  FixCost + Bitsize(h, seq[end] - (IF start = 0 THEN seq[1] ELSE seq[start] + 1) + 1, end - start)

PartitionsCost(h, seq, ends) ==
  FoldLeft(LAMBDA c, p : c + WrittenCost(h, seq, IF p = 1 THEN 0 ELSE ends[p - 1], ends[p]),
           0, [p \in DOMAIN ends |-> p])

CheapestCost(h, seq) ==
  LET cost[end \in 0..Len(seq)] ==
        IF end = 0 THEN 0 ELSE Min({cost[k] + WrittenCost(h, seq, k, end) : k \in 0..end - 1})
  IN cost[Len(seq)]
=============================================================================
