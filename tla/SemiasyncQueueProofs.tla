------------------------ MODULE SemiasyncQueueProofs ------------------------
(***************************************************************************)
(* For any number of threads, any work per thread and any expected works,  *)
(* semiasync_queue implements OrderedCommit.  The invariant says where in  *)
(* the queue every job that is not committed yet is: the batches of        *)
(* m_running_threads and then m_next_thread hold consecutive jobs, and a   *)
(* job of a batch is prepared exactly if its thread has passed it.         *)
(***************************************************************************)
EXTENDS SemiasyncQueue, TLAPS

First(b) == running[b].jobs[1]
NextFirst == added + 1 - Len(nextBatch)   \* the job after those in running

\* where the owner is, and what that says of the queue
OwnerInv ==
  /\ pc = "inline" => maxThreads = 0
  /\ maxThreads = 0 => running = <<>> /\ nextBatch = <<>>
  /\ pc = "spawning" => nextBatch # <<>>
  /\ pc = "draining" => nextBatch = <<>> /\ completing
  /\ completing => pc \in {"spawning", "draining"}
  /\ joined => CommitsOldest /\ running # <<>> /\ Finished(running[1])

\* what each batch holds
BatchInv ==
  \A b \in DOMAIN running :
    /\ Len(running[b].jobs) > 0
    /\ running[b].prepared <= Len(running[b].jobs)
    /\ running[b].committed <= Len(running[b].jobs)
    /\ b > 1 => running[b].committed = 0
    /\ \A k \in DOMAIN running[b].jobs :
         /\ running[b].jobs[k] = First(b) + k - 1
         /\ running[b].jobs[k] \in prepared <=> k <= running[b].prepared

\* the batches hold consecutive jobs, from the first uncommitted one on
ChainInv ==
  /\ \A b \in DOMAIN running :
       First(b) + Len(running[b].jobs) = IF b = Len(running) THEN NextFirst ELSE First(b + 1)
  /\ \A b, c \in DOMAIN running : b < c => First(b) + Len(running[b].jobs) <= First(c)
  /\ \A b \in DOMAIN running : First(b) + Len(running[b].jobs) <= NextFirst
  /\ running # <<>> => First(1) = Len(committed) + 1 - running[1].committed

\* the batch being collected and the job being run inline
NextInv ==
  /\ Len(nextBatch) <= added
  /\ \A k \in DOMAIN nextBatch : nextBatch[k] = NextFirst + k - 1
  /\ \A j \in prepared : j < NextFirst
  /\ running = <<>> => Len(committed) + 1 = NextFirst - (IF pc = "inline" THEN 1 ELSE 0)

CommitInv == \A k \in DOMAIN committed : committed[k] = k

Inv == TypeOK /\ OwnerInv /\ BatchInv /\ ChainInv /\ NextInv /\ CommitInv
-----------------------------------------------------------------------------
(* Facts about the updates of the queue.                                   *)

LEMMA BatchParts ==
  ASSUME NEW r \in Seq(Batches), NEW b \in DOMAIN r
  PROVE  /\ r[b] \in Batches
         /\ r[b].jobs \in Seq(Jobs) /\ r[b].prepared \in Nat /\ r[b].committed \in Nat
         /\ DOMAIN r[b].jobs = 1..Len(r[b].jobs) /\ Len(r[b].jobs) \in Nat
         /\ b \in 1..Len(r) /\ Len(r) \in Nat
<1>1. r[b] \in Batches
  OBVIOUS
<1>2. r[b].jobs \in Seq(Jobs) /\ r[b].prepared \in Nat /\ r[b].committed \in Nat
  BY <1>1 DEF Batches
<1> QED
  BY <1>1, <1>2

LEMMA SetPrepared ==
  ASSUME NEW batch \in Batches, NEW n \in Nat
  PROVE  LET new == [batch EXCEPT !.prepared = n]
         IN /\ new \in Batches
            /\ new.jobs = batch.jobs /\ new.prepared = n /\ new.committed = batch.committed
BY DEF Batches

LEMMA SetCommitted ==
  ASSUME NEW batch \in Batches, NEW n \in Nat
  PROVE  LET new == [batch EXCEPT !.committed = n]
         IN /\ new \in Batches
            /\ new.jobs = batch.jobs /\ new.prepared = batch.prepared /\ new.committed = n
BY DEF Batches

\* Replacing one batch by one with the same jobs.
LEMMA ReplaceBatch ==
  ASSUME NEW r \in Seq(Batches), NEW k \in DOMAIN r, NEW batch \in Batches,
         batch.jobs = r[k].jobs
  PROVE  LET new == [r EXCEPT ![k] = batch]
         IN /\ new \in Seq(Batches)
            /\ Len(new) = Len(r) /\ DOMAIN new = DOMAIN r
            /\ new[k] = batch
            /\ \A b \in DOMAIN r : new[b].jobs = r[b].jobs
            /\ \A b \in DOMAIN r \ {k} : new[b] = r[b]
OBVIOUS

LEMMA AppendBatch ==
  ASSUME NEW r \in Seq(Batches), NEW batch \in Batches
  PROVE  /\ Append(r, batch) \in Seq(Batches)
         /\ Len(Append(r, batch)) = Len(r) + 1
         /\ DOMAIN Append(r, batch) = DOMAIN r \cup {Len(r) + 1}
         /\ \A b \in DOMAIN r : Append(r, batch)[b] = r[b]
         /\ Append(r, batch)[Len(r) + 1] = batch
OBVIOUS

LEMMA DropBatch ==
  ASSUME NEW r \in Seq(Batches), r # <<>>
  PROVE  /\ Tail(r) \in Seq(Batches)
         /\ Len(Tail(r)) = Len(r) - 1
         /\ \A b \in DOMAIN Tail(r) : b \in DOMAIN r /\ b + 1 \in DOMAIN r /\ Tail(r)[b] = r[b + 1]
         /\ Head(r) = r[1] /\ 1 \in DOMAIN r
OBVIOUS

-----------------------------------------------------------------------------
LEMMA InitInv == Init => Inv
<1> SUFFICES ASSUME Init PROVE Inv
  OBVIOUS
<1> USE DEF Init
<1>1. TypeOK
  <2>1. maxThreads \in Nat /\ Len(running) <= maxThreads
    BY QueueAssumption
  <2>2. nextBatch \in Seq(Jobs) /\ running \in Seq(Batches) /\ committed \in Seq(Jobs)
    OBVIOUS
  <2> QED
    BY <2>1, <2>2 DEF TypeOK
<1>2. OwnerInv
  BY DEF OwnerInv
<1>3. BatchInv /\ ChainInv /\ CommitInv
  BY DEF BatchInv, ChainInv, CommitInv
<1>4. NextInv
  BY DEF NextInv, NextFirst
<1> QED
  BY <1>1, <1>2, <1>3, <1>4 DEF Inv

\* A step that leaves the batches and what is prepared as they are keeps what
\* is said of them alone.
LEMMA BatchesKept ==
  ASSUME BatchInv, UNCHANGED <<running, prepared>>
  PROVE  BatchInv'
BY DEF BatchInv, First

LEMMA ChainKept ==
  ASSUME ChainInv, UNCHANGED <<running, committed>>, NextFirst' = NextFirst
  PROVE  ChainInv'
BY DEF ChainInv, First

LEMMA AddJobInv == ASSUME Inv, NEW w \in Works, AddJob(w) PROVE Inv'
<1> USE DEF Inv, AddJob, Adding
<1>1. TypeOK'
  <2>1. expectedWork' \in Nat
    BY QueueAssumption DEF TypeOK, Truncated
  <2>2. nextBatch' \in Seq(Jobs)
    BY QueueAssumption DEF TypeOK, Jobs
  <2> QED
    BY <2>1, <2>2 DEF TypeOK
<1>2. nextBatch' # <<>> /\ Len(nextBatch') = Len(nextBatch) + 1
  BY DEF TypeOK
<1>3. NextFirst' = NextFirst
  BY <1>2 DEF NextFirst, TypeOK
<1>4. OwnerInv'
  BY <1>2 DEF OwnerInv, CommitsOldest, Full, Finished
<1>5. NextInv'
  <2>1. Len(nextBatch') <= added'
    BY <1>2 DEF NextInv, TypeOK
  <2>2. \A k \in DOMAIN nextBatch' : nextBatch'[k] = NextFirst' + k - 1
    <3>1. nextBatch' = Append(nextBatch, added + 1) /\ added' = added + 1
      OBVIOUS
    <3>2. nextBatch \in Seq(Jobs) /\ added \in Nat
      BY DEF TypeOK
    <3>3. \A k \in DOMAIN nextBatch : nextBatch[k] = added + 1 - Len(nextBatch) + k - 1
      BY DEF NextInv, NextFirst
    <3>4. \A k \in DOMAIN nextBatch' : nextBatch'[k] = added + 1 - Len(nextBatch) + k - 1
      BY <3>1, <3>2, <3>3
    <3> QED
      BY <1>3, <3>4 DEF NextFirst
  <2>3. running = <<>> => Len(committed) + 1 = NextFirst
    BY DEF NextInv, NextFirst, TypeOK
  <2>4. pc' # "inline"
    OBVIOUS
  <2> QED
    BY <2>1, <2>2, <2>3, <2>4, <1>3 DEF NextInv
<1>6. BatchInv' /\ ChainInv' /\ CommitInv'
  BY <1>3, BatchesKept, ChainKept DEF CommitInv
<1> QED
  BY <1>1, <1>4, <1>5, <1>6

LEMMA AddJobInlineInv == ASSUME Inv, AddJobInline PROVE Inv'
<1> USE DEF Inv, AddJobInline, Adding
<1>1. running = <<>> /\ nextBatch = <<>> /\ ~completing /\ ~joined
  BY DEF OwnerInv
<1>2. TypeOK'
  BY DEF TypeOK
<1>3. OwnerInv'
  BY <1>1 DEF OwnerInv
<1>4. NextInv'
  <2>1. added \in Nat /\ committed \in Seq(Jobs) /\ prepared \subseteq Nat
    BY DEF TypeOK, Jobs
  <2>2. NextFirst = added + 1 /\ NextFirst' = added + 2
    BY <1>1, <2>1 DEF NextFirst
  <2>3. \A j \in prepared' : j < NextFirst'
    BY <2>1, <2>2 DEF NextInv
  <2>4. Len(committed) + 1 = NextFirst
    BY <1>1, <2>1, <2>2 DEF NextInv
  <2> QED
    BY <1>1, <2>1, <2>2, <2>3, <2>4 DEF NextInv
<1>5. BatchInv' /\ ChainInv' /\ CommitInv'
  BY <1>1 DEF BatchInv, ChainInv, CommitInv
<1> QED
  BY <1>2, <1>3, <1>4, <1>5

LEMMA InlineParts ==
  ASSUME Inv, pc = "inline"
  PROVE  /\ running = <<>> /\ nextBatch = <<>> /\ ~completing /\ ~joined
         /\ added = Len(committed) + 1 /\ NextFirst = added + 1
<1> USE DEF Inv
<1>1. running = <<>> /\ nextBatch = <<>> /\ ~completing /\ ~joined
  BY DEF OwnerInv
<1>2. added \in Nat /\ committed \in Seq(Jobs)
  BY DEF TypeOK
<1>3. NextFirst = added + 1
  BY <1>1, <1>2 DEF NextFirst
<1> QED
  BY <1>1, <1>2, <1>3 DEF NextInv

LEMMA PrepareInlineInv == ASSUME Inv, PrepareInline PROVE Inv'
<1> USE DEF Inv, PrepareInline
<1>1. /\ running = <<>> /\ nextBatch = <<>> /\ ~completing /\ ~joined
      /\ added = Len(committed) + 1 /\ NextFirst = added + 1
  BY InlineParts
<1>2. added \in Jobs
  BY <1>1 DEF TypeOK, Jobs
<1>3. TypeOK'
  BY <1>2 DEF TypeOK
<1>4. OwnerInv'
  BY <1>1 DEF OwnerInv
<1>5. NextInv'
  <2>1. NextFirst' = NextFirst
    BY DEF NextFirst
  <2>2. \A j \in prepared' : j < NextFirst'
    BY <1>1, <1>2, <2>1 DEF NextInv, Jobs
  <2> QED
    BY <1>1, <2>1, <2>2 DEF NextInv
<1>6. BatchInv' /\ ChainInv' /\ CommitInv'
  BY <1>1 DEF BatchInv, ChainInv, CommitInv
<1> QED
  BY <1>3, <1>4, <1>5, <1>6

LEMMA CommitInlineInv == ASSUME Inv, CommitInline PROVE Inv'
<1> USE DEF Inv, CommitInline
<1>1. /\ running = <<>> /\ nextBatch = <<>> /\ ~completing /\ ~joined
      /\ added = Len(committed) + 1 /\ NextFirst = added + 1
  BY InlineParts
<1>2. committed \in Seq(Jobs) /\ added \in Jobs
  BY <1>1 DEF TypeOK, Jobs
<1>3. Len(committed') = Len(committed) + 1 /\ committed' \in Seq(Jobs)
  BY <1>2
<1>4. TypeOK'
  BY <1>1, <1>3 DEF TypeOK
<1>5. OwnerInv'
  BY <1>1 DEF OwnerInv
<1>6. NextInv'
  <2>1. NextFirst' = NextFirst
    BY DEF NextFirst
  <2>2. pc' # "inline" /\ Len(committed') + 1 = NextFirst'
    BY <1>1, <1>2, <1>3, <2>1 DEF Jobs
  <2> QED
    BY <1>1, <2>1, <2>2 DEF NextInv
<1>7. CommitInv'
  <2>1. \A k \in DOMAIN committed : committed[k] = k
    BY DEF CommitInv
  <2> QED
    BY <1>1, <1>2, <2>1 DEF CommitInv
<1>8. BatchInv' /\ ChainInv'
  BY <1>1 DEF BatchInv, ChainInv
<1> QED
  BY <1>4, <1>5, <1>6, <1>7, <1>8

\* A step of the owner between calls or at their ends: only pc and completing
\* change.
LEMMA OwnerMoves ==
  ASSUME Inv, pc # "inline", pc' # "inline", TypeOK', OwnerInv',
         UNCHANGED <<nextBatch, running, history>>
  PROVE  Inv'
<1> USE DEF Inv
<1>1. NextFirst' = NextFirst
  BY DEF NextFirst, history
<1>2. NextInv'
  BY <1>1 DEF NextInv, history
<1>3. BatchInv' /\ ChainInv' /\ CommitInv'
  BY <1>1, BatchesKept, ChainKept DEF CommitInv, history
<1> QED
  BY <1>2, <1>3

LEMMA CompleteInv == ASSUME Inv, Complete PROVE Inv'
<1> USE DEF Complete
<1>1. TypeOK'
  BY DEF Inv, TypeOK, history
<1>2. ~joined
  BY DEF Inv, OwnerInv, CommitsOldest
<1>3. OwnerInv'
  BY <1>2 DEF Inv, OwnerInv
<1> QED
  BY <1>1, <1>3, OwnerMoves

LEMMA CompleteReturnsInv == ASSUME Inv, CompleteReturns PROVE Inv'
<1> USE DEF CompleteReturns
<1>1. nextBatch = <<>> /\ ~joined
  BY DEF Inv, OwnerInv
<1>2. TypeOK'
  BY <1>1 DEF Inv, TypeOK, history
<1>3. OwnerInv'
  BY <1>1 DEF Inv, OwnerInv
<1> QED
  BY <1>2, <1>3, OwnerMoves

LEMMA JoinThreadInv == ASSUME Inv, JoinThread PROVE Inv'
<1> USE DEF JoinThread
<1>1. TypeOK'
  BY DEF Inv, TypeOK, history
<1>2. running # <<>>
  <2>1. CASE pc = "draining"
    BY <2>1 DEF CommitsOldest
  <2>2. CASE pc = "spawning" /\ Full
    <3>1. nextBatch # <<>> /\ maxThreads # 0
      BY <2>2 DEF Inv, OwnerInv
    <3> QED
      BY <2>2, <3>1 DEF Full
  <2> QED
    BY <2>1, <2>2 DEF CommitsOldest
<1>3. Finished(running[1])'
  BY <1>2 DEF Joinable, Finished
<1>4. CommitsOldest'
  BY DEF CommitsOldest, Full
<1>5. OwnerInv'
  BY <1>2, <1>3, <1>4 DEF Inv, OwnerInv
<1>6. pc # "inline"
  BY DEF CommitsOldest
<1> QED
  BY <1>1, <1>5, <1>6, OwnerMoves

LEMMA BatchFacts ==
  ASSUME Inv, NEW b \in DOMAIN running
  PROVE  /\ running[b] \in Batches
         /\ running[b].jobs \in Seq(Jobs) /\ DOMAIN running[b].jobs = 1..Len(running[b].jobs)
         /\ Len(running[b].jobs) \in Nat /\ Len(running[b].jobs) > 0
         /\ running[b].prepared \in Nat /\ running[b].committed \in Nat
         /\ First(b) \in Nat
         /\ b \in 1..Len(running) /\ Len(running) \in Nat
<1>1. running \in Seq(Batches)
  BY DEF Inv, TypeOK
<1>2. Len(running[b].jobs) > 0
  BY DEF Inv, BatchInv
<1>3. running[b].jobs \in Seq(Jobs) /\ 1 \in DOMAIN running[b].jobs
  BY <1>1, <1>2, BatchParts
<1>4. First(b) \in Nat
  BY <1>3 DEF First, Jobs
<1> QED
  BY <1>1, <1>2, <1>4, BatchParts

LEMMA SpawnInv == ASSUME Inv, SpawnNextThread PROVE Inv'
<1> DEFINE batch == Batch(nextBatch)
<1>0. PICK m \in Nat : m = Len(running)
  BY DEF Inv, TypeOK
<1>1. /\ running \in Seq(Batches) /\ nextBatch \in Seq(Jobs) /\ added \in Nat
      /\ committed \in Seq(Jobs) /\ maxThreads \in Nat /\ m <= maxThreads /\ m = Len(running)
  BY <1>0, QueueAssumption DEF Inv, TypeOK
<1>2. /\ running' = Append(running, batch) /\ nextBatch' = <<>> /\ expectedWork' = 0
      /\ pc' = IF completing THEN "draining" ELSE "idle"
      /\ UNCHANGED <<maxThreads, completing, joined, added, prepared, committed>>
      /\ pc = "spawning" /\ ~Full
  BY DEF SpawnNextThread, history
<1>3. ~joined /\ nextBatch # <<>>
  BY <1>2 DEF Inv, OwnerInv, CommitsOldest
<1>4. /\ batch \in Batches
      /\ batch.jobs = nextBatch /\ batch.prepared = 0 /\ batch.committed = 0
  BY <1>1 DEF Batch, Batches
<1> HIDE DEF batch
<1>5. /\ running' \in Seq(Batches) /\ Len(running') = m + 1
      /\ DOMAIN running' = DOMAIN running \cup {m + 1}
      /\ \A b \in DOMAIN running : running'[b] = running[b]
      /\ running'[m + 1] = batch
      /\ DOMAIN running = 1..m
  BY <1>0, <1>1, <1>2, <1>4, AppendBatch
<1>6. TypeOK'
  <2>1. Len(running') <= maxThreads
    BY <1>1, <1>2, <1>5 DEF Full
  <2> QED
    BY <1>2, <1>5, <2>1 DEF Inv, TypeOK
<1>7. OwnerInv'
  <2>1. maxThreads # 0 /\ running' # <<>>
    BY <1>1, <1>2, <1>3, <1>5 DEF Inv, OwnerInv
  <2> QED
    BY <1>2, <1>3, <2>1 DEF Inv, OwnerInv
<1>8. /\ NextFirst = added + 1 - Len(nextBatch) /\ NextFirst \in Int
      /\ NextFirst' = added + 1 /\ Len(nextBatch) > 0
      /\ nextBatch[1] = NextFirst /\ Len(nextBatch) \in Nat
      /\ DOMAIN nextBatch = 1..Len(nextBatch)
  BY <1>1, <1>2, <1>3 DEF Inv, NextInv, NextFirst
<1>9. /\ First(m + 1)' = NextFirst
      /\ \A b \in DOMAIN running : First(b)' = First(b)
  BY <1>4, <1>5, <1>8 DEF First
<1>10. BatchInv'
  <2>1. ASSUME NEW k \in DOMAIN nextBatch
        PROVE  nextBatch[k] = NextFirst + k - 1 /\ nextBatch[k] \notin prepared
    <3>1. nextBatch[k] = NextFirst + k - 1
      BY DEF Inv, NextInv
    <3>2. \A j \in prepared : j < NextFirst
      BY DEF Inv, NextInv
    <3> QED
      BY <1>8, <3>1, <3>2
  <2> SUFFICES ASSUME NEW b \in DOMAIN running'
               PROVE  /\ Len(running'[b].jobs) > 0
                      /\ running'[b].prepared <= Len(running'[b].jobs)
                      /\ running'[b].committed <= Len(running'[b].jobs)
                      /\ b > 1 => running'[b].committed = 0
                      /\ \A k \in DOMAIN running'[b].jobs :
                           /\ running'[b].jobs[k] = First(b)' + k - 1
                           /\ running'[b].jobs[k] \in prepared' <=> k <= running'[b].prepared
    BY DEF BatchInv
  <2>2. CASE b \in DOMAIN running
    BY <1>2, <1>5, <1>9, <2>2 DEF Inv, BatchInv
  <2>3. CASE b = m + 1
    <3>1. /\ running'[b].jobs = nextBatch /\ running'[b].prepared = 0
          /\ running'[b].committed = 0 /\ First(b)' = NextFirst
      BY <1>4, <1>5, <1>9, <2>3
    <3>2. \A k \in DOMAIN running'[b].jobs :
            /\ running'[b].jobs[k] = First(b)' + k - 1
            /\ running'[b].jobs[k] \in prepared' <=> k <= running'[b].prepared
      BY <1>2, <1>8, <2>1, <3>1
    <3> QED
      BY <1>8, <3>1, <3>2
  <2> QED
    BY <1>5, <2>2, <2>3
<1>11. ChainInv'
  <2>1. ASSUME NEW b \in DOMAIN running
        PROVE  /\ running'[b] = running[b] /\ First(b)' = First(b) /\ First(b) \in Nat
               /\ Len(running[b].jobs) \in Nat /\ b \in 1..m
               /\ First(b) + Len(running[b].jobs) = IF b = m THEN NextFirst ELSE First(b + 1)
               /\ First(b) + Len(running[b].jobs) <= NextFirst
    BY <1>1, <1>5, <1>9, BatchFacts DEF Inv, ChainInv
  <2>2. \A b \in DOMAIN running' :
          First(b)' + Len(running'[b].jobs)
            = IF b = Len(running') THEN NextFirst' ELSE First(b + 1)'
    <3>1. ASSUME NEW b \in DOMAIN running
          PROVE  First(b)' + Len(running'[b].jobs) = First(b + 1)' /\ b # m + 1
      <4>1. CASE b = m
        BY <1>9, <2>1, <4>1
      <4>2. CASE b # m
        <5>1. b + 1 \in DOMAIN running
          BY <1>5, <4>2
        <5> QED
          BY <1>9, <2>1, <4>2, <5>1
      <4> QED
        BY <4>1, <4>2
    <3>2. First(m + 1)' + Len(running'[m + 1].jobs) = NextFirst'
      BY <1>1, <1>4, <1>5, <1>8, <1>9
    <3> QED
      BY <1>5, <3>1, <3>2
  <2>3. \A b, c \in DOMAIN running' : b < c => First(b)' + Len(running'[b].jobs) <= First(c)'
    <3>1. ASSUME NEW b \in DOMAIN running, NEW c \in DOMAIN running, b < c
          PROVE  First(b)' + Len(running'[b].jobs) <= First(c)'
      BY <2>1, <3>1 DEF Inv, ChainInv
    <3> QED
      BY <1>1, <1>5, <1>9, <2>1, <3>1
  <2>4. \A b \in DOMAIN running' : First(b)' + Len(running'[b].jobs) <= NextFirst'
    BY SMTT(30), <1>1, <1>4, <1>5, <1>8, <1>9, <2>1
  <2>5. First(1)' = Len(committed') + 1 - running'[1].committed
    <3>1. CASE running = <<>>
      <4>1. Len(committed) + 1 = NextFirst /\ m = 0
        BY <1>1, <1>2, <1>8, <3>1 DEF Inv, NextInv
      <4> QED
        BY <1>1, <1>2, <1>4, <1>5, <1>8, <1>9, <4>1
    <3>2. CASE running # <<>>
      <4>1. 1 \in DOMAIN running /\ First(1) = Len(committed) + 1 - running[1].committed
        BY <1>1, <3>2 DEF Inv, ChainInv
      <4> QED
        BY <1>2, <2>1, <4>1
    <3> QED
      BY <3>1, <3>2
  <2> QED
    BY <2>2, <2>3, <2>4, <2>5 DEF ChainInv
<1>12. NextInv'
  <2>1. prepared \subseteq Nat /\ \A j \in prepared : j < NextFirst
    BY DEF Inv, NextInv, TypeOK, Jobs
  <2>2. \A j \in prepared' : j < NextFirst'
    BY <1>1, <1>2, <1>8, <2>1
  <2>3. running' # <<>>
    BY <1>1, <1>5
  <2> QED
    BY <1>1, <1>2, <2>2, <2>3 DEF NextInv
<1>13. CommitInv'
  BY <1>2 DEF Inv, CommitInv
<1> QED
  BY <1>6, <1>7, <1>10, <1>11, <1>12, <1>13 DEF Inv

\* The job about to be committed is the next one, and it is prepared.
LEMMA OldestJob ==
  ASSUME Inv, CommitJob
  PROVE  LET batch == running[1] IN
         /\ 1 \in DOMAIN running /\ Head(running) = batch
         /\ batch.committed + 1 \in DOMAIN batch.jobs
         /\ batch.jobs[batch.committed + 1] = Len(committed) + 1
         /\ batch.jobs[batch.committed + 1] \in prepared
<1>1. running # <<>> /\ Finished(running[1]) /\ running \in Seq(Batches)
  BY DEF CommitJob, Inv, OwnerInv, TypeOK
<1>2. 1 \in DOMAIN running /\ Head(running) = running[1]
  BY <1>1
<1>3. running[1].committed < Len(running[1].jobs)
  BY <1>2 DEF CommitJob
<1>4. running[1].committed + 1 \in DOMAIN running[1].jobs
  BY <1>2, <1>3, BatchFacts
<1>5. First(1) = Len(committed) + 1 - running[1].committed
  BY <1>1 DEF Inv, ChainInv
<1>6. /\ running[1].jobs[running[1].committed + 1] = First(1) + (running[1].committed + 1) - 1
      /\ running[1].jobs[running[1].committed + 1] \in prepared
           <=> running[1].committed + 1 <= running[1].prepared
  BY <1>2, <1>4 DEF Inv, BatchInv
<1>7. committed \in Seq(Jobs)
  BY DEF Inv, TypeOK
<1>8. running[1].jobs[running[1].committed + 1] = Len(committed) + 1
  BY <1>2, <1>5, <1>6, <1>7, BatchFacts
<1>9. running[1].committed + 1 <= running[1].prepared
  BY <1>1, <1>2, <1>3, BatchFacts DEF Finished
<1> QED
  BY <1>2, <1>4, <1>6, <1>8, <1>9

LEMMA CommitJobInv == ASSUME Inv, CommitJob PROVE Inv'
<1> DEFINE batch == [running[1] EXCEPT !.committed = running[1].committed + 1]
<1>1. /\ running \in Seq(Batches) /\ committed \in Seq(Jobs) /\ 1 \in DOMAIN running
      /\ running[1] \in Batches /\ running[1].committed + 1 \in DOMAIN running[1].jobs
      /\ running[1].committed \in Nat /\ Len(running[1].jobs) \in Nat
      /\ Head(running) = running[1]
  BY OldestJob, BatchFacts DEF Inv, TypeOK
<1>2. /\ running' = [running EXCEPT ![1] = batch]
      /\ committed' = Append(committed, Len(committed) + 1)
      /\ UNCHANGED <<maxThreads, nextBatch, expectedWork, pc, completing, joined, added, prepared>>
  BY OldestJob DEF CommitJob
<1>3. /\ batch \in Batches /\ batch.jobs = running[1].jobs
      /\ batch.prepared = running[1].prepared
      /\ batch.committed = running[1].committed + 1
  <2>1. running[1].committed + 1 \in Nat
    BY <1>1
  <2> QED
    BY <1>1, <2>1, SetCommitted
<1> HIDE DEF batch
<1>4. /\ running' \in Seq(Batches) /\ Len(running') = Len(running)
      /\ DOMAIN running' = DOMAIN running /\ running'[1] = batch
      /\ \A b \in DOMAIN running : running'[b].jobs = running[b].jobs
      /\ \A b \in DOMAIN running \ {1} : running'[b] = running[b]
  BY <1>1, <1>2, <1>3, ReplaceBatch
<1>5. Len(committed') = Len(committed) + 1 /\ committed' \in Seq(Jobs) /\ Len(committed) \in Nat
  BY <1>1, <1>2 DEF Jobs
<1>6. TypeOK'
  BY <1>2, <1>4, <1>5 DEF Inv, TypeOK
<1>7. OwnerInv'
  <2>1. joined /\ CommitsOldest /\ Finished(running[1]) /\ running # <<>>
    BY DEF CommitJob, Inv, OwnerInv
  <2>2. running' # <<>> /\ Finished(running'[1])
    BY <1>1, <1>3, <1>4, <2>1 DEF Finished
  <2>3. CommitsOldest'
    BY <1>2, <1>4, <2>1, <2>2 DEF CommitsOldest, Full
  <2>4. maxThreads # 0
    BY <2>1 DEF Inv, OwnerInv
  <2> QED
    BY <1>2, <2>2, <2>3, <2>4 DEF Inv, OwnerInv
<1>8. \A b \in DOMAIN running : First(b)' = First(b)
  BY <1>4 DEF First
<1>9. NextFirst' = NextFirst
  BY <1>2 DEF NextFirst
<1>10. BatchInv'
  <2> SUFFICES ASSUME NEW b \in DOMAIN running'
               PROVE  /\ Len(running'[b].jobs) > 0
                      /\ running'[b].prepared <= Len(running'[b].jobs)
                      /\ running'[b].committed <= Len(running'[b].jobs)
                      /\ b > 1 => running'[b].committed = 0
                      /\ \A k \in DOMAIN running'[b].jobs :
                           /\ running'[b].jobs[k] = First(b)' + k - 1
                           /\ running'[b].jobs[k] \in prepared' <=> k <= running'[b].prepared
    BY DEF BatchInv
  <2>1. CASE b = 1
    <3>1. /\ running[1].prepared <= Len(running[1].jobs)
          /\ \A k \in DOMAIN running[1].jobs :
               /\ running[1].jobs[k] = First(1) + k - 1
               /\ running[1].jobs[k] \in prepared <=> k <= running[1].prepared
      BY <1>1 DEF Inv, BatchInv
    <3>2. running[1].committed + 1 <= Len(running[1].jobs) /\ Len(running[1].jobs) > 0
      BY <1>1
    <3> QED
      BY SMTT(30), <1>1, <1>2, <1>3, <1>4, <1>8, <2>1, <3>1, <3>2
  <2>2. CASE b # 1
    BY <1>2, <1>4, <1>8, <2>2 DEF Inv, BatchInv
  <2> QED
    BY <2>1, <2>2
<1>11. ChainInv'
  <2>1. \A b \in DOMAIN running' :
          First(b)' + Len(running'[b].jobs)
            = IF b = Len(running') THEN NextFirst' ELSE First(b + 1)'
    <3> SUFFICES ASSUME NEW b \in DOMAIN running
                 PROVE  First(b)' + Len(running'[b].jobs)
                          = IF b = Len(running') THEN NextFirst' ELSE First(b + 1)'
      BY <1>4
    <3>1. First(b) + Len(running[b].jobs) = IF b = Len(running) THEN NextFirst ELSE First(b + 1)
      BY DEF Inv, ChainInv
    <3>2. b # Len(running) => b + 1 \in DOMAIN running
      BY <1>1
    <3>3. b \in DOMAIN running /\ Len(running') = Len(running)
          /\ running'[b].jobs = running[b].jobs
      BY <1>4
    <3>4. First(b)' = First(b) /\ NextFirst' = NextFirst
      BY <1>8, <1>9, <3>3
    <3>5. CASE b = Len(running)
      BY <3>1, <3>3, <3>4, <3>5
    <3>6. CASE b # Len(running)
      <4>1. First(b + 1)' = First(b + 1)
        BY <1>8, <3>2, <3>6
      <4> QED
        BY <3>1, <3>3, <3>4, <3>6, <4>1
    <3> QED
      BY <3>5, <3>6
  <2>2. /\ \A b, c \in DOMAIN running' : b < c => First(b)' + Len(running'[b].jobs) <= First(c)'
        /\ \A b \in DOMAIN running' : First(b)' + Len(running'[b].jobs) <= NextFirst'
    BY SMTT(30), <1>4, <1>8, <1>9 DEF Inv, ChainInv
  <2>3. First(1) = Len(committed) + 1 - running[1].committed
    BY <1>1 DEF Inv, ChainInv
  <2>4. First(1)' = Len(committed') + 1 - running'[1].committed
    <3>1. running'[1].committed = running[1].committed + 1 /\ First(1)' = First(1)
      <4>1. running'[1].committed = running[1].committed + 1
        BY <1>3, <1>4
      <4>2. First(1)' = First(1)
        BY <1>1, <1>8
      <4> QED
        BY <4>1, <4>2
    <3>2. First(1) = (Len(committed) + 1) + 1 - (running[1].committed + 1)
      <4>1. Len(committed) \in Nat /\ running[1].committed \in Nat
        BY <1>1, <1>5
      <4> HIDE DEF First
      <4> QED
        BY SMTT(30), <2>3, <4>1
    <3> QED
      BY <1>5, <3>1, <3>2
  <2> QED
    BY <2>1, <2>2, <2>4 DEF ChainInv
<1>12. NextInv'
  <2>1. running' # <<>>
    BY <1>1, <1>4
  <2> QED
    BY <1>2, <1>9, <2>1 DEF Inv, NextInv
<1>13. CommitInv'
  BY <1>1, <1>2 DEF Inv, CommitInv
<1> QED
  BY <1>6, <1>7, <1>10, <1>11, <1>12, <1>13 DEF Inv

LEMMA PrepareJobInv == ASSUME Inv, NEW t \in DOMAIN running, PrepareJob(t) PROVE Inv'
<1> DEFINE n == running[t].prepared + 1
           job == running[t].jobs[n]
           batch == [running[t] EXCEPT !.prepared = n]
<1>1. /\ running \in Seq(Batches) /\ running[t] \in Batches /\ n \in Nat
      /\ DOMAIN running[t].jobs = 1..Len(running[t].jobs) /\ Len(running[t].jobs) \in Nat
      /\ n \in DOMAIN running[t].jobs /\ running[t].prepared \in Nat
      /\ running[t].jobs \in Seq(Jobs) /\ Len(running) \in Nat
  BY SMTT(30), BatchFacts DEF PrepareJob, Inv, TypeOK
<1>2. /\ running' = [running EXCEPT ![t] = batch]
      /\ prepared' = prepared \cup {job}
      /\ UNCHANGED <<maxThreads, nextBatch, expectedWork, pc, completing, joined, added, committed>>
  BY DEF PrepareJob
<1>3. /\ batch \in Batches /\ batch.jobs = running[t].jobs
      /\ batch.prepared = n /\ batch.committed = running[t].committed
  BY <1>1, SetPrepared
<1>4. job \in Jobs /\ job = First(t) + n - 1
  BY <1>1 DEF Inv, BatchInv
<1>5. n <= Len(running[t].jobs) /\ n = running[t].prepared + 1
  BY <1>1
<1> HIDE DEF batch, n, job
<1>6. /\ running' \in Seq(Batches) /\ Len(running') = Len(running)
      /\ DOMAIN running' = DOMAIN running /\ running'[t] = batch
      /\ \A b \in DOMAIN running : running'[b].jobs = running[b].jobs
      /\ \A b \in DOMAIN running \ {t} : running'[b] = running[b]
  BY <1>1, <1>2, <1>3, ReplaceBatch
<1>7. TypeOK'
  BY <1>2, <1>4, <1>6 DEF Inv, TypeOK
<1>8. OwnerInv'
  <2>1. running # <<>> /\ running' # <<>>
    BY <1>1, <1>6
  <2>2. joined => CommitsOldest /\ Finished(running[1])
    BY DEF Inv, OwnerInv
  <2>3. joined => t # 1
    <3> HAVE joined
    <3> QED
      BY <1>1, <1>5, <2>2 DEF Finished
  <2>4. 1 \in DOMAIN running
    BY <1>1
  <2>5. joined => Finished(running'[1])
    BY <1>6, <2>2, <2>3, <2>4
  <2>6. CommitsOldest => CommitsOldest'
    BY <1>2, <1>6, <2>1 DEF CommitsOldest, Full
  <2> QED
    BY <1>2, <2>1, <2>2, <2>5, <2>6 DEF Inv, OwnerInv
<1>9. \A b \in DOMAIN running : First(b)' = First(b)
  BY <1>6 DEF First
<1>10. NextFirst' = NextFirst
  BY <1>2 DEF NextFirst
<1>11. \A b \in DOMAIN running \ {t} : \A k \in DOMAIN running[b].jobs : running[b].jobs[k] # job
  <2> SUFFICES ASSUME NEW b \in DOMAIN running \ {t}, NEW k \in DOMAIN running[b].jobs
               PROVE  running[b].jobs[k] # job
    OBVIOUS
  <2>1. running[b].jobs[k] = First(b) + k - 1
    BY DEF Inv, BatchInv
  <2>2. b < t => First(b) + Len(running[b].jobs) <= First(t)
    BY DEF Inv, ChainInv
  <2>3. t < b => First(t) + Len(running[t].jobs) <= First(b)
    BY DEF Inv, ChainInv
  <2>4. k \in 1..Len(running[b].jobs) /\ Len(running[b].jobs) \in Nat /\ First(b) \in Nat
        /\ First(t) \in Nat /\ b \in Nat /\ t \in Nat
    BY BatchFacts
  <2>5. n \in 1..Len(running[t].jobs)
    BY <1>1
  <2> QED
    <3>1. CASE b < t
      <4>1. running[b].jobs[k] < First(t)
        BY <2>1, <2>2, <2>4, <3>1
      <4> QED
        BY <1>4, <2>4, <2>5, <4>1
    <3>2. CASE t < b
      <4>1. job < First(b)
        BY SMTT(30), <1>1, <1>4, <2>3, <2>4, <2>5, <3>2
      <4> QED
        BY <1>4, <2>1, <2>4, <4>1
    <3>3. b < t \/ t < b
      BY <2>4
    <3> QED
      BY <3>1, <3>2, <3>3
<1>12. BatchInv'
  <2> SUFFICES ASSUME NEW b \in DOMAIN running
               PROVE  /\ Len(running'[b].jobs) > 0
                      /\ running'[b].prepared <= Len(running'[b].jobs)
                      /\ running'[b].committed <= Len(running'[b].jobs)
                      /\ b > 1 => running'[b].committed = 0
                      /\ \A k \in DOMAIN running'[b].jobs :
                           /\ running'[b].jobs[k] = First(b)' + k - 1
                           /\ running'[b].jobs[k] \in prepared' <=> k <= running'[b].prepared
    BY <1>6 DEF BatchInv
  <2>1. /\ Len(running[b].jobs) > 0
        /\ running[b].prepared <= Len(running[b].jobs)
        /\ running[b].committed <= Len(running[b].jobs)
        /\ b > 1 => running[b].committed = 0
        /\ \A k \in DOMAIN running[b].jobs :
             /\ running[b].jobs[k] = First(b) + k - 1
             /\ running[b].jobs[k] \in prepared <=> k <= running[b].prepared
    BY DEF Inv, BatchInv
  <2>2. CASE b = t
    <3>1. \A k \in DOMAIN running[t].jobs : running[t].jobs[k] = job <=> k = n
      <4> SUFFICES ASSUME NEW k \in DOMAIN running[t].jobs
                   PROVE  running[t].jobs[k] = job <=> k = n
        OBVIOUS
      <4>1. running[t].jobs[k] = First(t) + k - 1 /\ k \in Nat /\ First(t) \in Nat
        BY <1>1, <2>1, <2>2, BatchFacts
      <4> QED
        BY SMTT(30), <1>1, <1>4, <4>1
    <3>2. \A k \in DOMAIN running'[b].jobs :
            running'[b].jobs[k] \in prepared' <=> k <= running'[b].prepared
      <4> SUFFICES ASSUME NEW k \in DOMAIN running[t].jobs
                   PROVE  running[t].jobs[k] \in prepared' <=> k <= n
        BY <1>3, <1>6, <2>2
      <4>1. running[t].jobs[k] \in prepared' <=> k <= running[t].prepared \/ k = n
        BY <1>2, <2>1, <2>2, <3>1
      <4>2. k \in Nat
        BY <1>1
      <4> QED
        BY <1>1, <1>5, <4>1, <4>2
    <3>3. running'[b].prepared <= Len(running'[b].jobs)
      BY <1>3, <1>5, <1>6, <2>2
    <3> QED
      BY <1>3, <1>6, <1>9, <2>1, <2>2, <3>2, <3>3
  <2>3. CASE b # t
    <3>1. running'[b] = running[b] /\ First(b)' = First(b)
      BY <1>6, <1>9, <2>3
    <3>2. \A k \in DOMAIN running[b].jobs :
            running[b].jobs[k] \in prepared' <=> running[b].jobs[k] \in prepared
      BY <1>2, <1>11, <2>3
    <3> QED
      BY <2>1, <3>1, <3>2
  <2> QED
    BY <2>2, <2>3
<1>13. ChainInv'
  <2>1. \A b \in DOMAIN running' :
          First(b)' + Len(running'[b].jobs)
            = IF b = Len(running') THEN NextFirst' ELSE First(b + 1)'
    <3> SUFFICES ASSUME NEW b \in DOMAIN running
                 PROVE  First(b)' + Len(running'[b].jobs)
                          = IF b = Len(running') THEN NextFirst' ELSE First(b + 1)'
      BY <1>6
    <3>1. First(b) + Len(running[b].jobs) = IF b = Len(running) THEN NextFirst ELSE First(b + 1)
      BY DEF Inv, ChainInv
    <3>2. b # Len(running) => b + 1 \in DOMAIN running
      BY <1>1
    <3>3. b \in DOMAIN running /\ Len(running') = Len(running)
          /\ running'[b].jobs = running[b].jobs
      BY <1>6
    <3>4. First(b)' = First(b) /\ NextFirst' = NextFirst
      BY <1>9, <1>10, <3>3
    <3>5. CASE b = Len(running)
      BY <3>1, <3>3, <3>4, <3>5
    <3>6. CASE b # Len(running)
      <4>1. First(b + 1)' = First(b + 1)
        BY <1>9, <3>2, <3>6
      <4> QED
        BY <3>1, <3>3, <3>4, <3>6, <4>1
    <3> QED
      BY <3>5, <3>6
  <2>2. /\ \A b, c \in DOMAIN running' : b < c => First(b)' + Len(running'[b].jobs) <= First(c)'
        /\ \A b \in DOMAIN running' : First(b)' + Len(running'[b].jobs) <= NextFirst'
    BY ZenonT(30), <1>6, <1>9, <1>10 DEF Inv, ChainInv
  <2>3. 1 \in DOMAIN running /\ First(1) = Len(committed) + 1 - running[1].committed
    BY <1>1 DEF Inv, ChainInv
  <2>4. running'[1].committed = running[1].committed
    BY <1>3, <1>6, <2>3
  <2> QED
    BY <1>2, <1>9, <2>1, <2>2, <2>3, <2>4 DEF ChainInv
<1>14. NextInv'
  <2>1. running' # <<>>
    BY <1>1, <1>6
  <2>2. job < NextFirst
    <3>1. First(t) + Len(running[t].jobs) <= NextFirst /\ NextFirst \in Int
      BY DEF Inv, ChainInv, NextFirst, TypeOK
    <3>2. First(t) \in Int /\ Len(running[t].jobs) \in Int /\ n \in Int
      BY SMTT(30), <1>1, BatchFacts
    <3> QED
      BY <1>4, <1>5, <3>1, <3>2
  <2> QED
    BY <1>2, <1>10, <2>1, <2>2 DEF Inv, NextInv
<1>15. CommitInv'
  BY <1>2 DEF Inv, CommitInv
<1> QED
  BY <1>7, <1>8, <1>12, <1>13, <1>14, <1>15 DEF Inv

LEMMA PopThreadInv == ASSUME Inv, PopThread PROVE Inv'
<1>0. PICK m \in Nat : m = Len(running)
  BY DEF Inv, TypeOK
<1>1. /\ running \in Seq(Batches) /\ running # <<>> /\ committed \in Seq(Jobs)
      /\ running[1].committed = Len(running[1].jobs)
      /\ joined /\ CommitsOldest
  BY DEF PopThread, Inv, OwnerInv, TypeOK
<1>2. /\ running' = Tail(running) /\ joined' = FALSE
      /\ UNCHANGED <<maxThreads, nextBatch, expectedWork, pc, completing, added, prepared, committed>>
  BY DEF PopThread, history
<1>3. /\ running' \in Seq(Batches) /\ Len(running') = m - 1
      /\ DOMAIN running' = 1..m - 1 /\ DOMAIN running = 1..m /\ m > 0
      /\ \A b \in 1..m - 1 : running'[b] = running[b + 1] /\ b + 1 \in DOMAIN running
  BY <1>0, <1>1, <1>2, DropBatch
<1>4. TypeOK'
  <2>1. Len(running) <= maxThreads /\ maxThreads \in Nat
    BY QueueAssumption DEF Inv, TypeOK
  <2>2. Len(running') <= maxThreads
    BY <1>0, <1>3, <2>1
  <2> QED
    BY <1>2, <1>3, <2>2 DEF Inv, TypeOK
<1>5. OwnerInv'
  <2>1. maxThreads # 0
    BY <1>1 DEF Inv, OwnerInv
  <2> QED
    BY <1>2, <2>1 DEF Inv, OwnerInv
<1>6. \A b \in 1..m - 1 : First(b)' = First(b + 1)
  BY <1>3 DEF First
<1>7. NextFirst' = NextFirst
  BY <1>2 DEF NextFirst
<1>8. First(1) + Len(running[1].jobs) = Len(committed) + 1
  <2>1. First(1) = Len(committed) + 1 - running[1].committed
    BY <1>1 DEF Inv, ChainInv
  <2>2. 1 \in DOMAIN running /\ Len(committed) \in Nat
    BY <1>1, <1>3
  <2>3. Len(running[1].jobs) \in Nat
    BY <2>2, BatchFacts
  <2>4. First(1) = Len(committed) + 1 - Len(running[1].jobs)
    BY <1>1, <2>1
  <2> DEFINE l == Len(running[1].jobs)
             c == Len(committed)
  <2>5. First(1) = c + 1 - l /\ c \in Nat /\ l \in Nat
    BY <2>2, <2>3, <2>4
  <2> HIDE DEF l, c
  <2>6. First(1) + l = c + 1
    BY <2>5
  <2> QED
    BY <2>6 DEF l, c
<1>9. BatchInv'
  <2> SUFFICES ASSUME NEW b \in 1..m - 1
               PROVE  /\ Len(running'[b].jobs) > 0
                      /\ running'[b].prepared <= Len(running'[b].jobs)
                      /\ running'[b].committed <= Len(running'[b].jobs)
                      /\ running'[b].committed = 0
                      /\ \A k \in DOMAIN running'[b].jobs :
                           /\ running'[b].jobs[k] = First(b)' + k - 1
                           /\ running'[b].jobs[k] \in prepared' <=> k <= running'[b].prepared
    BY <1>3 DEF BatchInv
  <2>1. b + 1 \in DOMAIN running /\ b + 1 > 1
    BY <1>3
  <2> QED
    BY ZenonT(30), <1>2, <1>3, <1>6, <2>1 DEF Inv, BatchInv
<1>10. ChainInv'
  <2>1. ASSUME NEW b \in DOMAIN running'
        PROVE  First(b)' + Len(running'[b].jobs)
                 = IF b = Len(running') THEN NextFirst' ELSE First(b + 1)'
    <3>1. b \in 1..m - 1 /\ b + 1 \in DOMAIN running
      BY <1>3
    <3>2. First(b + 1) + Len(running[b + 1].jobs)
            = IF b + 1 = m THEN NextFirst ELSE First(b + 1 + 1)
      BY <1>0, <3>1 DEF Inv, ChainInv
    <3>3. First(b)' = First(b + 1) /\ running'[b] = running[b + 1]
      BY <1>3, <1>6, <3>1
    <3>4. b # m - 1 => First(b + 1)' = First(b + 1 + 1)
      BY <1>6, <3>1
    <3> QED
      BY <1>3, <1>7, <3>1, <3>2, <3>3, <3>4
  <2>2. \A b, c \in DOMAIN running' : b < c => First(b)' + Len(running'[b].jobs) <= First(c)'
    <3> SUFFICES ASSUME NEW b \in 1..m - 1, NEW c \in 1..m - 1, b < c
                 PROVE  First(b)' + Len(running'[b].jobs) <= First(c)'
      BY <1>3
    <3>1. b + 1 \in DOMAIN running /\ c + 1 \in DOMAIN running /\ b + 1 < c + 1
      BY <1>3
    <3>2. First(b + 1) + Len(running[b + 1].jobs) <= First(c + 1)
      BY <3>1 DEF Inv, ChainInv
    <3> QED
      BY <1>3, <1>6, <3>2
  <2>3. \A b \in DOMAIN running' : First(b)' + Len(running'[b].jobs) <= NextFirst'
    BY <1>3, <1>6, <1>7 DEF Inv, ChainInv
  <2>4. running' # <<>> => First(1)' = Len(committed') + 1 - running'[1].committed
    <3> HAVE running' # <<>>
    <3>1. 1 \in 1..m - 1 /\ 1 + 1 \in DOMAIN running
      BY <1>3
    <3>2. running'[1].committed = 0
      BY <1>3, <3>1 DEF Inv, BatchInv
    <3>3. First(1) + Len(running[1].jobs) = First(1 + 1)
      BY <1>0, <1>3, <3>1 DEF Inv, ChainInv
    <3>4. Len(committed) \in Nat
      BY <1>1
    <3> QED
      BY <1>2, <1>6, <1>8, <3>1, <3>2, <3>3, <3>4
  <2> QED
    BY <2>1, <2>2, <2>3, <2>4 DEF ChainInv
<1>11. NextInv'
  <2>1. running' = <<>> => Len(committed) + 1 = NextFirst
    <3> HAVE running' = <<>>
    <3>1. m = 1 /\ 1 \in DOMAIN running
      BY <1>3
    <3> QED
      BY <1>0, <1>8, <3>1 DEF Inv, ChainInv
  <2>2. pc' # "inline"
    BY <1>1, <1>2 DEF CommitsOldest
  <2>3. NextFirst \in Int
    BY DEF Inv, TypeOK, NextFirst
  <2> QED
    BY <1>2, <1>7, <2>1, <2>2, <2>3 DEF Inv, NextInv
<1>12. CommitInv'
  BY <1>2 DEF Inv, CommitInv
<1> QED
  BY <1>4, <1>5, <1>9, <1>10, <1>11, <1>12 DEF Inv

LEMMA StutterInv == ASSUME Inv, UNCHANGED vars PROVE Inv'
BY DEF vars, history, Inv, TypeOK, OwnerInv, CommitsOldest, Full, Finished, BatchInv, First,
       ChainInv, NextFirst, NextInv, CommitInv

LEMMA StepInv == Inv /\ [Next]_vars => Inv'
<1> SUFFICES ASSUME Inv, [Next]_vars PROVE Inv'
  OBVIOUS
<1>1. ASSUME NEW w \in Works, AddJob(w) PROVE Inv'
  BY <1>1, AddJobInv
<1>2. CASE AddJobInline
  BY <1>2, AddJobInlineInv
<1>3. CASE Complete
  BY <1>3, CompleteInv
<1>4. CASE InCall
  BY <1>4, PrepareInlineInv, CommitInlineInv, SpawnInv, JoinThreadInv, CommitJobInv,
     PopThreadInv, CompleteReturnsInv DEF InCall
<1>5. ASSUME NEW k \in DOMAIN running, PrepareJob(k) PROVE Inv'
  BY <1>5, PrepareJobInv
<1>6. CASE UNCHANGED vars
  BY <1>6, StutterInv
<1> QED
  BY <1>1, <1>2, <1>3, <1>4, <1>5, <1>6 DEF Next

LEMMA AlwaysInv == Spec => []Inv
<1>1. Init => Inv
  BY InitInv
<1>2. Inv /\ [Next]_vars => Inv'
  BY StepInv
<1> QED
  BY <1>1, <1>2, PTL DEF Spec

\* There are never more batches than threads, so the test for equality in
\* spawn_next_thread (semiasync_queue.hpp:61) is enough, and no batch worth a
\* thread is left waiting between two calls.
THEOREM TypeCorrect == Spec => []TypeOK
<1>1. Inv => TypeOK
  BY DEF Inv
<1> QED
  BY <1>1, AlwaysInv, PTL

-----------------------------------------------------------------------------
\* What each step of the queue is to a caller.
LEMMA StepPromised == Inv /\ [Next]_vars => [Promised!Next]_(Promised!vars)
<1> SUFFICES ASSUME Inv, [Next]_vars
             PROVE  Promised!Next \/ UNCHANGED Promised!vars
  OBVIOUS
<1> USE DEF Promised!Next, Promised!vars
<1>1. ASSUME NEW w \in Works, AddJob(w) PROVE Promised!Add
  BY <1>1 DEF AddJob, Adding, Promised!Add
<1>2. CASE AddJobInline
  BY <1>2 DEF AddJobInline, Adding, Promised!Add
<1>3. CASE Complete \/ SpawnNextThread \/ JoinThread \/ PopThread \/ CompleteReturns
  BY <1>3 DEF Complete, SpawnNextThread, JoinThread, PopThread, CompleteReturns, history
<1>4. CASE PrepareInline
  <2>1. added \in 1..added
    <3>1. added = Len(committed) + 1 /\ committed \in Seq(Jobs)
      BY <1>4, InlineParts DEF PrepareInline, Inv, TypeOK
    <3> QED
      BY <3>1
  <2>2. Promised!Prepare(added)
    BY <1>4, <2>1 DEF PrepareInline, Promised!Prepare
  <2> QED
    BY <2>1, <2>2
<1>5. CASE CommitInline
  <2>1. added = Len(committed) + 1
    BY <1>5, InlineParts DEF CommitInline
  <2>2. Promised!Commit
    BY <1>5, <2>1 DEF CommitInline, Promised!Commit
  <2> QED
    BY <2>2
<1>6. CASE CommitJob
  <2>1. Promised!Commit
    BY <1>6, OldestJob DEF CommitJob, Promised!Commit
  <2> QED
    BY <2>1
<1>7. ASSUME NEW t \in DOMAIN running, PrepareJob(t) PROVE Promised!Next
  <2> DEFINE n == running[t].prepared + 1
             job == running[t].jobs[n]
  <2>1. /\ n \in DOMAIN running[t].jobs /\ n \in 1..Len(running[t].jobs)
        /\ n > running[t].prepared
    BY <1>7, BatchFacts DEF PrepareJob
  <2>2. job \notin prepared /\ job = First(t) + n - 1
    BY <2>1, BatchFacts DEF Inv, BatchInv
  <2>3. job \in 1..added
    <3>1. First(t) + Len(running[t].jobs) <= NextFirst /\ job \in Jobs
      BY <2>1, BatchFacts DEF Inv, ChainInv
    <3>2. nextBatch \in Seq(Jobs) /\ added \in Nat
      BY DEF Inv, TypeOK
    <3>3. First(t) \in Nat /\ Len(running[t].jobs) \in Nat
      BY BatchFacts
    <3> HIDE DEF n, job
    <3> QED
      BY SMTT(30), <2>1, <2>2, <3>1, <3>2, <3>3 DEF NextFirst, Jobs
  <2>4. Promised!Prepare(job)
    BY <1>7, <2>2, <2>3 DEF PrepareJob, Promised!Prepare
  <2> QED
    BY <2>3, <2>4
<1>8. CASE UNCHANGED vars
  BY <1>8 DEF vars, history
<1> QED
  BY <1>1, <1>2, <1>3, <1>4, <1>5, <1>6, <1>7, <1>8 DEF Next, InCall

\* Whatever the threads' speeds, semiasync_queue prepares each job once, before
\* its commit, and commits the jobs in the order in which they were added.
THEOREM ImplementsOrderedCommit == Spec => OrderedCommitSpec
<1>1. Init => Promised!Init
  BY DEF Init, Promised!Init
<1>2. Inv /\ [Next]_vars => [Promised!Next]_(Promised!vars)
  BY StepPromised
<1> QED
  BY <1>1, <1>2, AlwaysInv, PTL DEF Spec, OrderedCommitSpec, Promised!Spec

\* When complete() returns, every job added so far has been committed and no
\* batch is left.
THEOREM NothingLeftBehind == Spec => CompleteLeavesNothing
<1>1. Inv /\ [Next]_vars => [completing /\ ~completing' =>
        committed' = [j \in 1..added' |-> j] /\ running' = <<>> /\ nextBatch' = <<>>]_vars
  <2> SUFFICES ASSUME Inv, Next, completing, ~completing'
               PROVE  /\ committed' = [j \in 1..added' |-> j]
                      /\ running' = <<>> /\ nextBatch' = <<>>
    OBVIOUS
  <2>1. CompleteReturns
    BY DEF Next, InCall, AddJob, AddJobInline, Adding, Complete, PrepareInline, CommitInline,
           SpawnNextThread, JoinThread, CommitJob, PopThread, PrepareJob
  <2>2. /\ running = <<>> /\ nextBatch = <<>>
        /\ UNCHANGED <<running, nextBatch, committed, added>>
    BY <2>1 DEF CompleteReturns, history, Inv, OwnerInv
  <2>3. committed \in Seq(Jobs) /\ added \in Nat
    BY DEF Inv, TypeOK
  <2>4. Len(committed) = added
    BY <2>1, <2>2, <2>3 DEF CompleteReturns, Inv, NextInv, NextFirst
  <2>5. \A k \in DOMAIN committed : committed[k] = k
    BY DEF Inv, CommitInv
  <2>6. committed = [j \in 1..added |-> j]
    BY <2>3, <2>4, <2>5
  <2> QED
    BY <2>2, <2>6
<1> QED
  BY <1>1, AlwaysInv, PTL DEF Spec, CompleteLeavesNothing

\* No job is committed from a batch whose thread has not ended.
THEOREM OnlyFinishedBatches == Spec => CommitsOnlyFinishedBatches
<1>1. Inv /\ [Next]_vars =>
        [committed' # committed /\ running # <<>> => Finished(Head(running))]_vars
  <2> SUFFICES ASSUME Inv, Next, committed' # committed, running # <<>>
               PROVE  Finished(Head(running))
    OBVIOUS
  <2>1. CASE CommitInline
    BY <2>1, InlineParts DEF CommitInline
  <2>2. CASE CommitJob
    BY <2>2, OldestJob DEF CommitJob, Inv, OwnerInv
  <2>3. CommitInline \/ CommitJob
    BY DEF Next, InCall, AddJob, AddJobInline, Adding, Complete, PrepareInline, history,
           SpawnNextThread, JoinThread, PopThread, PrepareJob, CompleteReturns
  <2> QED
    BY <2>1, <2>2, <2>3
<1> QED
  BY <1>1, AlwaysInv, PTL DEF Spec, CommitsOnlyFinishedBatches
=============================================================================
