--------------------------- MODULE SemiasyncQueue ---------------------------
(***************************************************************************)
(* ds2i::semiasync_queue, include/ds2i/semiasync_queue.hpp.  Jobs collect  *)
(* in a batch until their expected work is enough for a thread; a thread   *)
(* prepares the jobs of its batch; the thread that owns the queue joins    *)
(* the oldest batch and commits its jobs whenever as many batches run as   *)
(* it may have threads, and joins them all in complete().                  *)
(*                                                                         *)
(* Jobs are numbered in the order in which they are added.  Work is        *)
(* counted in halves, the smallest fraction that shows the truncation of   *)
(* the double each job brings to the size_t the queue keeps.               *)
(***************************************************************************)
EXTENDS Integers, Sequences

CONSTANTS
  ThreadCounts,   (* the values configuration::get().worker_threads may take *)
  Works,          (* the expected work of a job, in halves                   *)
  WorkPerThread,  (* the constructor's argument, in halves                   *)
  MaxJobs         (* bound: the jobs the owner adds                          *)

ASSUME QueueAssumption ==
  /\ ThreadCounts \subseteq Nat
  /\ Works \subseteq Nat
  /\ WorkPerThread \in Nat
  /\ MaxJobs \in Nat

VARIABLES
  maxThreads,    (* m_max_threads                                            *)
  nextBatch,     (* m_next_thread.first                                      *)
  expectedWork,  (* m_expected_work, in units                                *)
  running,       (* m_running_threads: each batch with the number of jobs its
                    thread has prepared and the owner has committed          *)
  pc,            (* the owner: "idle" between calls, "inline" in add_job of a
                    queue without threads, "spawning" in spawn_next_thread,
                    "draining" in the loop of complete                       *)
  completing,    (* the owner is inside complete()                           *)
  joined,        (* commit_thread has joined the oldest thread               *)
  added, prepared, committed  (* history: see OrderedCommit                  *)

history == <<added, prepared, committed>>
vars == <<maxThreads, nextBatch, expectedWork, running, pc, completing, joined, history>>

Init ==
  /\ maxThreads \in ThreadCounts
  /\ nextBatch = <<>> /\ expectedWork = 0 /\ running = <<>>
  /\ pc = "idle" /\ completing = FALSE /\ joined = FALSE
  /\ added = 0 /\ prepared = {} /\ committed = <<>>

\* m_expected_work += expected_work: the sum of a double is truncated.
Truncated(units, halves) == (2 * units + halves) \div 2

EnoughWork(units) == 2 * units >= WorkPerThread

Adding ==
  /\ pc = "idle"
  /\ added < MaxJobs
  /\ added' = added + 1

AddJob(w) ==
  /\ Adding
  /\ maxThreads > 0
  /\ nextBatch' = Append(nextBatch, added')
  /\ expectedWork' = Truncated(expectedWork, w)
  /\ pc' = IF EnoughWork(expectedWork') THEN "spawning" ELSE "idle"
  /\ UNCHANGED <<maxThreads, running, completing, joined, prepared, committed>>

AddJobInline ==
  /\ Adding
  /\ maxThreads = 0
  /\ pc' = "inline"
  /\ UNCHANGED <<maxThreads, nextBatch, expectedWork, running, completing, joined, prepared, committed>>

PrepareInline ==
  /\ pc = "inline"
  /\ added \notin prepared
  /\ prepared' = prepared \cup {added}
  /\ UNCHANGED <<maxThreads, nextBatch, expectedWork, running, pc, completing, joined, added, committed>>

CommitInline ==
  /\ pc = "inline"
  /\ added \in prepared
  /\ committed' = Append(committed, added)
  /\ pc' = "idle"
  /\ UNCHANGED <<maxThreads, nextBatch, expectedWork, running, completing, joined, added, prepared>>

\* mutant: the batch being collected is forgotten
DrainOnly ==
  /\ pc = "idle"
  /\ completing' = TRUE
  /\ pc' = "draining"
  /\ UNCHANGED <<maxThreads, nextBatch, expectedWork, running, joined, history>>

Complete ==
  /\ pc = "idle"
  /\ completing' = TRUE
  /\ pc' = IF nextBatch # <<>> THEN "spawning" ELSE "draining"
  /\ UNCHANGED <<maxThreads, nextBatch, expectedWork, running, joined, history>>

CompleteReturns ==
  /\ pc = "draining"
  /\ running = <<>>
  /\ completing' = FALSE
  /\ pc' = "idle"
  /\ UNCHANGED <<maxThreads, nextBatch, expectedWork, running, joined, history>>

-----------------------------------------------------------------------------
(* spawn_next_thread                                                       *)

Batch(jobs) == [jobs |-> jobs, prepared |-> 0, committed |-> 0]

\* mutant: one thread too many
NoRoomLeft == Len(running) > maxThreads
Full == Len(running) = maxThreads

\* mutant: the jobs are copied to the thread instead of moved
SpawnCopy ==
  /\ pc = "spawning"
  /\ ~Full
  /\ running' = Append(running, Batch(nextBatch))
  /\ expectedWork' = 0
  /\ pc' = IF completing THEN "draining" ELSE "idle"
  /\ UNCHANGED <<maxThreads, nextBatch, completing, joined, history>>

SpawnNextThread ==
  /\ pc = "spawning"
  /\ ~Full
  /\ running' = Append(running, Batch(nextBatch))
  /\ nextBatch' = <<>>
  /\ expectedWork' = 0
  /\ pc' = IF completing THEN "draining" ELSE "idle"
  /\ UNCHANGED <<maxThreads, completing, joined, history>>

-----------------------------------------------------------------------------
(* commit_thread, called when there is no room for a thread and by the     *)
(* loop of complete: join the oldest thread, commit its jobs in their      *)
(* order, drop the batch.                                                  *)

CommitsOldest ==
  \/ pc = "spawning" /\ Full
  \/ pc = "draining" /\ running # <<>>

Finished(batch) == batch.prepared = Len(batch.jobs)

\* mutant: the batch is committed without waiting for its thread
NotWaiting(batch) == TRUE

\* mutant: the wait is for a job that does not exist
BeyondFinished(batch) == batch.prepared > Len(batch.jobs)

Joinable(batch) == Finished(batch)

JoinThread ==
  /\ CommitsOldest
  /\ ~joined
  /\ Joinable(Head(running))
  /\ joined' = TRUE
  /\ UNCHANGED <<maxThreads, nextBatch, expectedWork, running, pc, completing, history>>

CommitJob ==
  LET batch == Head(running) IN
  /\ joined
  /\ batch.committed < Len(batch.jobs)
  /\ committed' = Append(committed, batch.jobs[batch.committed + 1])
  /\ running' = [running EXCEPT ![1].committed = @ + 1]
  /\ UNCHANGED <<maxThreads, nextBatch, expectedWork, pc, completing, joined, added, prepared>>

PopThread ==
  /\ joined
  /\ Head(running).committed = Len(Head(running).jobs)
  /\ running' = Tail(running)
  /\ joined' = FALSE
  /\ UNCHANGED <<maxThreads, nextBatch, expectedWork, pc, completing, history>>

-----------------------------------------------------------------------------
(* The thread of the k-th batch.                                           *)

PrepareJob(k) ==
  LET batch == running[k] IN
  /\ batch.prepared < Len(batch.jobs)
  /\ running' = [running EXCEPT ![k].prepared = @ + 1]
  /\ prepared' = prepared \cup {batch.jobs[batch.prepared + 1]}
  /\ UNCHANGED <<maxThreads, nextBatch, expectedWork, pc, completing, joined, added, committed>>

-----------------------------------------------------------------------------
\* the steps a call of the owner makes before it returns
InCall ==
  \/ PrepareInline \/ CommitInline
  \/ SpawnNextThread \/ JoinThread \/ CommitJob \/ PopThread \/ CompleteReturns

Next ==
  \/ \E w \in Works : AddJob(w)
  \/ AddJobInline
  \/ Complete
  \/ InCall
  \/ \E k \in DOMAIN running : PrepareJob(k)

\* A call, once made, runs to its return, and the operating system runs every
\* thread.  The owner need not call anything.  The oldest batch is the only one
\* a call can wait for.
Spec ==
  /\ Init /\ [][Next]_vars
  /\ WF_vars(InCall)
  /\ WF_vars(running # <<>> /\ PrepareJob(1))

-----------------------------------------------------------------------------
Jobs == Nat \ {0}
Batches == [jobs : Seq(Jobs), prepared : Nat, committed : Nat]

\* Never more batches than threads, so the equality test that guards the spawn
\* (semiasync_queue.hpp:61) cannot be stepped over, and between calls the batch
\* being collected is worth less than a thread.
TypeOK ==
  /\ maxThreads \in ThreadCounts
  /\ nextBatch \in Seq(Jobs) /\ expectedWork \in Nat
  /\ running \in Seq(Batches)
  /\ pc \in {"idle", "inline", "spawning", "draining"}
  /\ completing \in BOOLEAN /\ joined \in BOOLEAN
  /\ added \in Nat /\ prepared \subseteq Jobs /\ committed \in Seq(Jobs)
  /\ Len(running) <= maxThreads
  /\ pc = "idle" /\ nextBatch # <<>> => ~EnoughWork(expectedWork)

\* Whatever the threads' speeds, the queue is an ordered commit: each job is
\* prepared once, before its commit, and jobs are committed in the order in
\* which they were added.
Promised == INSTANCE OrderedCommit
OrderedCommitSpec == Promised!Spec

\* No commit happens while a thread may still use the job: the batch a job is
\* committed from is finished, and that thread prepares nothing afterwards.
CommitsOnlyFinishedBatches ==
  [][committed' # committed /\ running # <<>> => Finished(Head(running))]_vars

\* complete() leaves nothing behind: when it returns every job added so far
\* has been committed and no thread runs.
CompleteLeavesNothing ==
  [][completing /\ ~completing' =>
       committed' = [j \in 1..added' |-> j] /\ running' = <<>> /\ nextBatch' = <<>>]_vars

\* complete() returns, and so does an add_job that has to wait for the oldest
\* thread.
CallsReturn == pc # "idle" ~> pc = "idle"
=============================================================================
