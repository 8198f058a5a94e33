--------------------------- MODULE SequenceCursor ---------------------------
(***************************************************************************)
(* What an enumerator of a sequence of include/ds2i promises: a position   *)
(* and the value there, moved by calls whose answers are this pair.        *)
(* Position n has the universe as its value.  Among equal elements         *)
(* next_geq answers the first, unless the cursor is at one of them.        *)
(***************************************************************************)
EXTENDS Integers, Sequences, FiniteSets

VARIABLES
  elements, universe,   (* the sequence, which does not change *)
  position, value,      (* the cursor                          *)
  call                  (* the last call                       *)

vars == <<elements, universe, position, value, call>>

n == Len(elements)

Init ==
  /\ position = n
  /\ value = universe
  /\ call = [method |-> "enumerator", argument |-> 0]

Answer(method, argument, p) ==
  /\ call' = [method |-> method, argument |-> argument]
  /\ position' = p
  /\ value' = IF p < n THEN elements[p + 1] ELSE universe
  /\ UNCHANGED <<elements, universe>>

Move(p) == Answer("move", p, p)

NextGeq(bound) ==
  Answer("next_geq", bound,
         IF value = bound THEN position
         ELSE Cardinality({k \in DOMAIN elements : elements[k] < bound}))

Following == position < n /\ Answer("next", 0, position + 1)

Next ==
  \/ \E p \in 0..n : Move(p)
  \/ \E bound \in 0..universe : NextGeq(bound)
  \/ Following

Spec == Init /\ [][Next]_vars
=============================================================================
