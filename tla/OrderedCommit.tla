---------------------------- MODULE OrderedCommit ----------------------------
(***************************************************************************)
(* What semiasync_queue (include/ds2i/semiasync_queue.hpp) promises its    *)
(* callers: jobs may be prepared in any order and at any time after they   *)
(* were added, each exactly once, and are committed one at a time in the   *)
(* order in which they were added, each after its preparation.             *)
(***************************************************************************)
EXTENDS Naturals, Sequences

VARIABLES
  added,      (* jobs 1..added have been added     *)
  prepared,   (* the set of prepared jobs          *)
  committed   (* the jobs in the order of commit() *)

vars == <<added, prepared, committed>>

Init == added = 0 /\ prepared = {} /\ committed = <<>>

Add == added' = added + 1 /\ UNCHANGED <<prepared, committed>>

Prepare(j) ==
  /\ j \in 1..added
  /\ j \notin prepared
  /\ prepared' = prepared \cup {j}
  /\ UNCHANGED <<added, committed>>

Commit ==
  LET j == Len(committed) + 1 IN
  /\ j \in prepared
  /\ committed' = Append(committed, j)
  /\ UNCHANGED <<added, prepared>>

Next == Add \/ (\E j \in 1..added : Prepare(j)) \/ Commit

Spec == Init /\ [][Next]_vars
=============================================================================
