-------------------------- MODULE JobQueueProofs --------------------------
(***************************************************************************)
(* Theorems about JobQueue, for any cases, flows, workers and bounds and   *)
(* over either store.                                                      *)
(***************************************************************************)
EXTENDS JobQueue, FiniteSetTheorems, TLAPS

USE DEF poolVars

\* The copies a worker holds are pending jobs, the one in its hands is
\* running; all of them are due.
Copies ==
  \A w \in Workers :
    /\ \A j \in batch[w] : j.status = "PENDING" /\ j.due
    /\ InHand(w) => job[w].status = "RUNNING" /\ job[w].due

\* A worker that is about to mark a job has used up its retries and written its
\* letter.
Buries ==
  \A w \in Workers :
    wpc[w] = "burying" => letters[job[w].flow] > 0 /\ job[w].retries = MaxRetries

\* A job is kept under the case of its flow.
Filed == \A c \in Cases : jobs[c] # NoJob => Case(jobs[c]) = c

IInv ==
  /\ TypeOK /\ Copies /\ Buries /\ Filed
  /\ DeadHasLetter /\ RunningIsHeld

----------------------------------------------------------------------------
\* Batches stay sets of copies.
LEMMA NoBatch == [w \in Workers |-> {}] \in [Workers -> SUBSET JobRecord]
  OBVIOUS

LEMMA OneBatch ==
  ASSUME NEW b \in [Workers -> SUBSET JobRecord], NEW w \in Workers, NEW S \in SUBSET JobRecord
  PROVE  [b EXCEPT ![w] = S] \in [Workers -> SUBSET JobRecord]
  OBVIOUS

\* One more call of the handler.
LEMMA OneMoreCall ==
  ASSUME NEW a \in [Flows -> [0..MaxRetries -> Nat]], NEW f \in Flows, NEW r \in 0..MaxRetries
  PROVE  /\ [a EXCEPT ![f][r] = @ + 1] \in [Flows -> [0..MaxRetries -> Nat]]
         /\ [a EXCEPT ![f][r] = @ + 1][f][r] = a[f][r] + 1
         /\ \A g \in Flows, q \in 0..MaxRetries :
              g # f \/ q # r => [a EXCEPT ![f][r] = @ + 1][g][q] = a[g][q]
<1>3. a[f] \in [0..MaxRetries -> Nat]
  OBVIOUS
<1>0. PICK b : b = [a[f] EXCEPT ![r] = @ + 1]
  OBVIOUS
<1>1. b \in [0..MaxRetries -> Nat] /\ b[r] = a[f][r] + 1 /\ \A q \in 0..MaxRetries : q # r => b[q] = a[f][q]
  BY <1>0, <1>3
<1>2. [a EXCEPT ![f][r] = @ + 1] = [a EXCEPT ![f] = b]
  BY <1>0
<1> QED BY <1>1, <1>2

LEMMA InitInv == ASSUME Init PROVE IInv
<1>1. TypeOK
  <2>1. StoreType /\ PoolType
    BY DEF Init, StoreType, PoolType
  <2>2. BatchType
    BY NoBatch, Zenon DEF Init, BatchType
  <2> QED BY <2>1, <2>2 DEF Init, TypeOK, CountType
<1>2. Copies /\ Buries /\ Filed
  BY DEF Init, Copies, Buries, Filed, InHand
<1>3. DeadHasLetter /\ RunningIsHeld
  BY DEF Init, DeadHasLetter, RunningIsHeld, Has
<1> QED BY <1>1, <1>2, <1>3 DEF IInv

\* The environment and the process.
LEMMA EnqueueInv == ASSUME IInv, NEW f \in Flows, Enqueue(f) PROVE IInv'
<1> USE DEF IInv
<1>1. CaseOf[f] \in Cases /\ NoJob \notin JobRecord
  BY QueueAssumption
<1>2. \/ UNCHANGED jobs
      \/ \E r \in JobRecord : /\ r.flow = f /\ r.status = "PENDING"
                             /\ jobs' = [jobs EXCEPT ![CaseOf[f]] = r]
  <2>1. ASSUME NEW d \in BOOLEAN
        PROVE  [flow |-> f, status |-> "PENDING", retries |-> 0, due |-> d] \in JobRecord
    BY QueueAssumption DEF JobRecord
  <2> QED BY <2>1 DEF Enqueue, UpdateJob, Case
<1>3. /\ UNCHANGED <<replaces, letters, wpc, batch, job, stopping, attempts, restarts>>
      /\ enqueued' = enqueued \cup {f} /\ faults' \in {faults, faults + 1}
  BY DEF Enqueue, StoreFails
<1>4. TypeOK'
  BY <1>1, <1>2, <1>3 DEF TypeOK, StoreType, PoolType, BatchType, CountType
<1>5. (Copies /\ Buries /\ Filed)'
  BY <1>1, <1>2, <1>3 DEF TypeOK, StoreType, PoolType, BatchType, CountType, Copies, Buries, Filed, Case, InHand
<1>6. DeadHasLetter'
  BY <1>1, <1>2, <1>3 DEF TypeOK, StoreType, PoolType, BatchType, CountType, DeadHasLetter, Has
<1>7. RunningIsHeld'
  BY <1>1, <1>2, <1>3 DEF TypeOK, StoreType, PoolType, BatchType, CountType, RunningIsHeld, Has, InHand, Case
<1> QED BY <1>4, <1>5, <1>6, <1>7

LEMMA ComesDueInv == ASSUME IInv, NEW c \in Cases, ComesDue(c) PROVE IInv'
<1> USE DEF ComesDue, IInv
<1>0. /\ jobs' = [jobs EXCEPT ![c] = [jobs[c] EXCEPT !.due = TRUE]]
      /\ jobs[c] \in JobRecord
  BY DEF TypeOK, StoreType, PoolType, BatchType, CountType
<1>1. TypeOK'
  <2>1. [jobs[c] EXCEPT !.due = TRUE] \in JobRecord
    BY <1>0 DEF JobRecord
  <2> QED BY <1>0, <2>1 DEF TypeOK, StoreType, PoolType, BatchType, CountType
<1>2. (Copies /\ Buries /\ Filed)'
  BY <1>0 DEF TypeOK, StoreType, PoolType, BatchType, CountType, JobRecord, Copies, Buries, Filed, Case, InHand
<1>3. DeadHasLetter'
  BY <1>0 DEF TypeOK, StoreType, PoolType, BatchType, CountType, JobRecord, DeadHasLetter, Has
<1>4. RunningIsHeld'
  BY <1>0 DEF TypeOK, StoreType, PoolType, BatchType, CountType, JobRecord, RunningIsHeld, Has, InHand, Case
<1> QED BY <1>1, <1>2, <1>3, <1>4

LEMMA StopInv == ASSUME IInv, Stop PROVE IInv'
  BY DEF Stop, IInv, TypeOK, StoreType, PoolType, BatchType, CountType, Copies, Buries, Filed, Case, DeadHasLetter, RunningIsHeld, Has,
         InHand

LEMMA RestartInv == ASSUME IInv, Restart PROVE IInv'
<1> USE DEF Restart, IInv
<1>1. TypeOK'
  <2>1. job' \in [Workers -> JobRecord \cup {NoJob}]
    OBVIOUS
  <2>2. batch' = [w \in Workers |-> {}]
    OBVIOUS
  <2>3. BatchType'
    BY <2>2, NoBatch, Zenon DEF BatchType
  <2>4. PoolType'
    BY <2>1 DEF PoolType
  <2>5. StoreType'
    BY DEF TypeOK, StoreType
  <2>6. restarts' \in Nat /\ faults' \in Nat
    BY DEF TypeOK, CountType
  <2>7. stopping' \in BOOLEAN /\ replaces' \in BOOLEAN
    BY Zenon DEF TypeOK, CountType
  <2>8. attempts' \in [Flows -> [0..MaxRetries -> Nat]] /\ enqueued' \subseteq Flows
    BY DEF TypeOK, CountType
  <2> QED BY <2>3, <2>4, <2>5, <2>6, <2>7, <2>8 DEF TypeOK, CountType
<1>2. (Copies /\ Buries /\ Filed)'
  BY DEF Copies, Buries, Filed, Case, InHand
<1>3. (DeadHasLetter /\ RunningIsHeld)'
  BY DEF TypeOK, StoreType, PoolType, BatchType, CountType, DeadHasLetter, RunningIsHeld, Has
<1> QED BY <1>1, <1>2, <1>3

----------------------------------------------------------------------------
\* A worker.
LEMMA PollInv == ASSUME IInv, NEW w \in Workers, Poll(w) PROVE IInv'
<1> USE DEF Poll, IInv, GetPendingJobs, Pending, Has
<1>1. \A v \in Workers : batch'[v] = batch[v] \/ \E S \in SUBSET Pending : batch'[v] = {jobs[c] : c \in S}
  BY DEF TypeOK, StoreType, PoolType, BatchType, CountType
<1>2. TypeOK'
  <2>1. ASSUME NEW S \in SUBSET Pending PROVE {jobs[c] : c \in S} \in SUBSET JobRecord
    BY DEF TypeOK, StoreType, PoolType, BatchType, CountType
  <2>2. \/ UNCHANGED batch
        \/ \E B \in SUBSET JobRecord : batch' = [batch EXCEPT ![w] = B]
    <3>1. ASSUME NEW S \in GetPendingJobs, batch' = [batch EXCEPT ![w] = {jobs[c] : c \in S}]
          PROVE  \E B \in SUBSET JobRecord : batch' = [batch EXCEPT ![w] = B]
      BY <3>1, <2>1
    <3> QED BY <3>1
  <2>3. BatchType'
    BY <2>2, OneBatch DEF TypeOK, StoreType, PoolType, BatchType, CountType
  <2>4. PoolType'
    BY DEF TypeOK, PoolType
  <2>5. StoreType' /\ CountType'
    BY DEF TypeOK, StoreType, CountType, StoreFails
  <2> QED BY <2>3, <2>4, <2>5 DEF TypeOK
<1>3. (Copies /\ Buries /\ Filed)'
  BY <1>1 DEF TypeOK, StoreType, PoolType, BatchType, CountType, Copies, Buries, Filed, Case, InHand
<1>4. (DeadHasLetter /\ RunningIsHeld)'
  BY DEF TypeOK, StoreType, PoolType, BatchType, CountType, StoreFails, DeadHasLetter, RunningIsHeld, InHand, Case
<1> QED BY <1>2, <1>3, <1>4

LEMMA EndBatchInv == ASSUME IInv, NEW w \in Workers, EndBatch(w) PROVE IInv'
  BY DEF EndBatch, IInv, TypeOK, StoreType, PoolType, BatchType, CountType, Copies, Buries, Filed, Case, DeadHasLetter, RunningIsHeld, Has,
         InHand

LEMMA LeaveInv == ASSUME IInv, NEW w \in Workers, Leave(w) PROVE IInv'
  BY DEF Leave, IInv, TypeOK, StoreType, PoolType, BatchType, CountType, Copies, Buries, Filed, Case, DeadHasLetter, RunningIsHeld, Has,
         InHand

LEMMA BeginInv == ASSUME IInv, NEW w \in Workers, Begin(w) PROVE IInv'
<1> USE DEF IInv
<1>0. PICK j \in batch[w] :
        /\ batch' = [batch EXCEPT ![w] = @ \ {j}]
        /\ \/ /\ UpdateJob(Marked(j))
              /\ job' = [job EXCEPT ![w] = [j EXCEPT !.status = "RUNNING"]]
              /\ wpc' = [wpc EXCEPT ![w] = "handling"]
              /\ attempts' = [attempts EXCEPT ![j.flow][j.retries] = @ + 1]
              /\ UNCHANGED faults
           \/ StoreFails /\ UNCHANGED <<jobs, job, wpc, attempts>>
  BY DEF Begin
<1>3. /\ j \in JobRecord /\ Case(j) \in Cases
      /\ Case([j EXCEPT !.status = "RUNNING"]) = Case(j)
      /\ [j EXCEPT !.status = "RUNNING"] \in JobRecord
  <2>1. j \in JobRecord
    BY <1>0 DEF TypeOK, BatchType
  <2> QED BY <2>1, QueueAssumption DEF Case, JobRecord
<1>1. /\ batch' = [batch EXCEPT ![w] = @ \ {j}]
      /\ \/ /\ jobs' = [jobs EXCEPT ![Case(j)] = [j EXCEPT !.status = "RUNNING"]]
            /\ job' = [job EXCEPT ![w] = [j EXCEPT !.status = "RUNNING"]]
            /\ wpc' = [wpc EXCEPT ![w] = "handling"]
            /\ attempts' = [attempts EXCEPT ![j.flow][j.retries] = @ + 1]
            /\ UNCHANGED faults
         \/ StoreFails /\ UNCHANGED <<jobs, job, wpc, attempts>>
  <2>1. UpdateJob(Marked(j)) => jobs' = [jobs EXCEPT ![Case(j)] = [j EXCEPT !.status = "RUNNING"]]
    BY <1>3 DEF UpdateJob, Marked
  <2> QED BY <1>0, <2>1, Zenon
<1>2. /\ UNCHANGED <<replaces, letters, stopping, enqueued, restarts>>
      /\ wpc[w] = "batch"
  BY DEF Begin
<1>4. TypeOK'
  <2>1. batch[w] \ {j} \in SUBSET JobRecord /\ batch \in [Workers -> SUBSET JobRecord]
    BY DEF TypeOK, StoreType, PoolType, BatchType, CountType
  <2>2. BatchType'
    BY <2>1, <1>1, OneBatch DEF BatchType
  <2>3. attempts' \in [Flows -> [0..MaxRetries -> Nat]]
    <3>1. attempts \in [Flows -> [0..MaxRetries -> Nat]] /\ j.flow \in Flows /\ j.retries \in 0..MaxRetries
      BY <1>3 DEF TypeOK, CountType, JobRecord
    <3>2. [attempts EXCEPT ![j.flow][j.retries] = @ + 1] \in [Flows -> [0..MaxRetries -> Nat]]
      BY <3>1, OneMoreCall
    <3> QED BY <3>1, <3>2, <1>1
  <2>4. StoreType'
    BY <1>1, <1>2, <1>3 DEF TypeOK, StoreType
  <2>5. PoolType'
    BY <1>1, <1>3, QueueAssumption DEF TypeOK, PoolType
  <2>6. CountType'
    BY <2>3, <1>1, <1>2 DEF TypeOK, StoreType, PoolType, BatchType, CountType, StoreFails
  <2> QED BY <2>2, <2>4, <2>5, <2>6 DEF TypeOK
<1>5. (Copies /\ Buries /\ Filed)'
  BY <1>1, <1>2, <1>3 DEF TypeOK, StoreType, PoolType, BatchType, JobRecord, Copies, Buries, Filed, Case, InHand
<1>6. DeadHasLetter'
  BY <1>1, <1>2, <1>3 DEF TypeOK, StoreType, JobRecord, DeadHasLetter, Has
<1>7. RunningIsHeld'
  <2> SUFFICES ASSUME faults' = 0, restarts' = 0, NEW c \in Cases, Has(c, {"RUNNING"})'
               PROVE  \E v \in Workers : InHand(v)' /\ Case(job'[v]) = c
    BY DEF RunningIsHeld, Case
  <2>1. UNCHANGED faults
    BY <1>1 DEF StoreFails, TypeOK, CountType
  <2>2. CASE c = Case(j) /\ jobs' # jobs
    BY <1>1, <1>2, <1>3, <2>2 DEF TypeOK, StoreType, PoolType, BatchType, CountType, JobRecord, InHand, Case, StoreFails
  <2>3. CASE c # Case(j) \/ jobs' = jobs
    <3>1. Has(c, {"RUNNING"})
      BY <1>1, <1>3, <2>3 DEF Has, TypeOK, StoreType
    <3>2. PICK v \in Workers : InHand(v) /\ Case(job[v]) = c
      BY <3>1, <2>1, <1>2 DEF RunningIsHeld
    <3>3. v # w
      BY <3>2, <1>2 DEF InHand
    <3> QED BY <3>2, <3>3, <1>1 DEF InHand, Case, TypeOK, PoolType
  <2> QED BY <2>2, <2>3
<1> QED BY <1>4, <1>5, <1>6, <1>7

\* The last write of a job takes it out of RUNNING and out of the hands of its
\* worker.
LEMMA SettleInv ==
  ASSUME IInv, NEW w \in Workers, InHand(w), NEW j \in JobRecord, j.flow = job[w].flow,
         j.status # "RUNNING", j.status = "DEAD" => letters[j.flow] > 0,
         Settle(w, j), UNCHANGED letters
  PROVE  IInv'
<1> USE DEF IInv
<1>1. /\ \/ jobs' = [jobs EXCEPT ![Case(j)] = j] /\ UNCHANGED faults
         \/ StoreFails /\ UNCHANGED jobs
      /\ wpc' = [wpc EXCEPT ![w] = "batch"]
      /\ job' = [job EXCEPT ![w] = NoJob]
      /\ UNCHANGED <<replaces, batch, stopping, enqueued, attempts, restarts, letters>>
  BY DEF Settle, UpdateJob
<1>2. Case(j) \in Cases /\ Case(job[w]) = Case(j) /\ NoJob \notin JobRecord
  BY QueueAssumption DEF Case, JobRecord
<1>3. TypeOK'
  BY <1>1, <1>2 DEF TypeOK, StoreType, PoolType, BatchType, CountType, StoreFails
<1>4. (Copies /\ Buries /\ Filed)'
  BY <1>1, <1>2 DEF TypeOK, StoreType, PoolType, BatchType, CountType, Copies, Buries, Filed, Case, InHand
<1>5. DeadHasLetter'
  BY <1>1, <1>2 DEF TypeOK, StoreType, PoolType, BatchType, CountType, DeadHasLetter, Has
<1>6. RunningIsHeld'
  <2> SUFFICES ASSUME faults' = 0, restarts' = 0, NEW c \in Cases, Has(c, {"RUNNING"})'
               PROVE  \E v \in Workers : InHand(v)' /\ Case(job'[v]) = c
    BY DEF RunningIsHeld, Case
  <2>1. jobs' = [jobs EXCEPT ![Case(j)] = j] /\ UNCHANGED faults
    BY <1>1 DEF StoreFails, TypeOK, CountType
  <2>2. c # Case(j) /\ Has(c, {"RUNNING"})
    BY <2>1, <1>2 DEF Has, TypeOK, StoreType
  <2>3. PICK v \in Workers : InHand(v) /\ Case(job[v]) = c
    BY <2>1, <2>2, <1>1 DEF RunningIsHeld
  <2>4. v # w
    BY <2>2, <2>3, <1>2
  <2> QED BY <2>3, <2>4, <1>1 DEF InHand, Case, TypeOK, PoolType
<1> QED BY <1>3, <1>4, <1>5, <1>6

LEMMA HeldRecord ==
  ASSUME IInv, NEW w \in Workers, InHand(w)
  PROVE  job[w] \in JobRecord /\ job[w].status = "RUNNING"
  BY DEF IInv, TypeOK, StoreType, PoolType, BatchType, CountType, InHand, Copies

LEMMA CompleteInv == ASSUME IInv, NEW w \in Workers, Complete(w) PROVE IInv'
<1> DEFINE j == [job[w] EXCEPT !.status = "COMPLETED"]
<1>1. InHand(w) /\ Settle(w, j) /\ UNCHANGED letters
  BY DEF Complete, InHand
<1>2. job[w] \in JobRecord
  BY <1>1, HeldRecord
<1>3. j \in JobRecord /\ j.flow = job[w].flow /\ j.status = "COMPLETED"
  BY <1>2 DEF JobRecord
<1> HIDE DEF j
<1> QED BY <1>1, <1>3, SettleInv

LEMMA RetryInv == ASSUME IInv, NEW w \in Workers, Retry(w) PROVE IInv'
<1> DEFINE j == ApplyRetry(job[w])
<1>1. InHand(w) /\ Settle(w, j) /\ UNCHANGED letters /\ job[w].retries < MaxRetries
  BY DEF Retry, InHand, ShouldRetry
<1>2. job[w] \in JobRecord
  BY <1>1, HeldRecord
<1>4. job[w].retries + 1 \in 0..MaxRetries
  BY <1>1, <1>2, QueueAssumption DEF JobRecord
<1>3. j \in JobRecord /\ j.flow = job[w].flow /\ j.status = "PENDING"
  BY <1>4, <1>2 DEF JobRecord, ApplyRetry
<1> HIDE DEF j
<1> QED BY <1>1, <1>3, SettleInv

LEMMA BuriedInv == ASSUME IInv, NEW w \in Workers, Buried(w) PROVE IInv'
<1> DEFINE j == [job[w] EXCEPT !.status = "DEAD"]
<1>1. InHand(w) /\ Settle(w, j) /\ UNCHANGED letters /\ letters[job[w].flow] > 0
  BY DEF Buried, InHand, IInv, Buries
<1>2. job[w] \in JobRecord
  BY <1>1, HeldRecord
<1>3. j \in JobRecord /\ j.flow = job[w].flow /\ j.status = "DEAD"
  BY <1>2 DEF JobRecord
<1> HIDE DEF j
<1> QED BY <1>1, <1>3, SettleInv

LEMMA BuryInv == ASSUME IInv, NEW w \in Workers, Bury(w) PROVE IInv'
<1> USE DEF IInv
<1>0. InHand(w) /\ wpc[w] = "handling"
  BY DEF Bury, InHand
<1>1. job[w] \in JobRecord /\ job[w].flow \in Flows
  BY <1>0, HeldRecord DEF JobRecord
<1>2. \A f \in Flows : letters[f] \in Nat /\ letters'[f] \in Nat /\ letters'[f] >= letters[f]
  BY <1>1 DEF Bury, TypeOK, StoreType, PoolType, BatchType, CountType
<1>3. TypeOK'
  <2>1. PoolType'
    BY <1>0, <1>1 DEF Bury, TypeOK, StoreType, PoolType, BatchType, CountType, PoolType
  <2>2. StoreType' /\ CountType' /\ BatchType'
    BY <1>1 DEF Bury, TypeOK, StoreType, PoolType, BatchType, CountType, StoreFails
  <2> QED BY <2>1, <2>2 DEF TypeOK
<1>4. (Copies /\ Filed)'
  BY DEF Bury, TypeOK, StoreType, PoolType, BatchType, CountType, Copies, Filed, Case, InHand
<1>5. Buries'
  <2>1. ~ShouldRetry(job[w]) => job[w].retries = MaxRetries
    BY <1>1, QueueAssumption DEF ShouldRetry, JobRecord
  <2> QED BY <2>1, <1>1, <1>2 DEF Bury, TypeOK, StoreType, PoolType, BatchType, CountType, Buries, JobRecord
<1>6. DeadHasLetter'
  BY <1>2 DEF Bury, TypeOK, StoreType, PoolType, BatchType, CountType, DeadHasLetter, Has, JobRecord
<1>7. RunningIsHeld'
  BY <1>0 DEF Bury, TypeOK, StoreType, PoolType, BatchType, CountType, RunningIsHeld, Has, InHand, Case, StoreFails
<1> QED BY <1>3, <1>4, <1>5, <1>6, <1>7

LEMMA NextInv == ASSUME IInv, [Next]_vars PROVE IInv'
<1>1. CASE UNCHANGED vars
  BY <1>1 DEF vars, IInv, TypeOK, StoreType, PoolType, BatchType, CountType, Copies, Buries, Filed, Case, DeadHasLetter, RunningIsHeld,
              Has, InHand
<1>2. CASE \E w \in Workers : Worker(w)
  BY <1>2, PollInv, EndBatchInv, LeaveInv, BeginInv, CompleteInv, RetryInv, BuryInv, BuriedInv
  DEF Worker
<1> QED BY <1>1, <1>2, EnqueueInv, ComesDueInv, StopInv, RestartInv DEF Next

\* The invariant of the queue.
THEOREM Invariance == Spec => []IInv
  BY InitInv, NextInv, PTL DEF Spec

\* Every variable keeps to its values: no record is written with more retries
\* than the policy allows.
THEOREM TypeCorrect == Spec => []TypeOK
  BY Invariance, PTL DEF IInv

\* A job marked DEAD has its dead letter.
THEOREM DeadLetterWritten == Spec => []DeadHasLetter
  BY Invariance, PTL DEF IInv

\* Without a fault or a crash a RUNNING job is in the hands of a worker.
THEOREM RunningHeld == Spec => []RunningIsHeld
  BY Invariance, PTL DEF IInv


----------------------------------------------------------------------------
(* The calls of the handler.                                               *)

PoolSize == Cardinality(Workers)

\* The workers with a copy of the job of a flow that has r retries.
Holding(f, r) == {w \in Workers : \E j \in batch[w] : j.flow = f /\ j.retries = r}

PendingJob(f, r) ==
  /\ jobs[CaseOf[f]] # NoJob /\ jobs[CaseOf[f]].status = "PENDING"
  /\ jobs[CaseOf[f]].flow = f /\ jobs[CaseOf[f]].retries = r

\* The calls the pool can still make of what is pending or polled: one of each
\* worker while the record is there to be polled, then one of each copy.
Claims(f, r) == IF PendingJob(f, r) THEN PoolSize ELSE Cardinality(Holding(f, r))

\* What was called and may still be called keeps within the grounds there are.
Budget ==
  \A f \in Flows, r \in 0..MaxRetries :
    attempts[f][r] + Claims(f, r) <= PoolSize * Calls!Grounds(f, r)

CallInv == IInv /\ Budget

LEMMA PoolSizeNat == PoolSize \in Nat /\ PoolSize > 0
<1>1. IsFiniteSet(Workers) /\ Workers # {}
  BY QueueAssumption
<1> QED BY <1>1, FS_CardinalityType, FS_EmptySet DEF PoolSize

\* A set of workers has at most as many elements as the pool.
LEMMA WorkerSets ==
  ASSUME NEW S \in SUBSET Workers
  PROVE  IsFiniteSet(S) /\ Cardinality(S) \in Nat /\ Cardinality(S) <= PoolSize
<1>1. IsFiniteSet(Workers)
  BY QueueAssumption
<1> QED BY <1>1, FS_Subset, FS_CardinalityType DEF PoolSize

LEMMA SmallerSets ==
  ASSUME NEW S \in SUBSET Workers, NEW T \in SUBSET S
  PROVE  Cardinality(T) <= Cardinality(S)
  BY WorkerSets, FS_Subset

LEMMA HandlingSets ==
  ASSUME NEW f, NEW r
  PROVE  /\ Handling(f, r) \in SUBSET Workers /\ Holding(f, r) \in SUBSET Workers
         /\ Handling(f, r)' \in SUBSET Workers /\ Holding(f, r)' \in SUBSET Workers
  BY DEF Handling, Holding

LEMMA CallTypes ==
  ASSUME IInv, NEW f \in Flows, NEW r \in 0..MaxRetries
  PROVE  /\ attempts[f][r] \in Nat
         /\ RunningCalls[f][r] = Cardinality(Handling(f, r)) /\ RunningCalls[f][r] \in Nat
         /\ Claims(f, r) \in Nat /\ Claims(f, r) <= PoolSize
         /\ Calls!Grounds(f, r) \in Int
<1>1. attempts \in [Flows -> [0..MaxRetries -> Nat]]
  BY DEF IInv, TypeOK, CountType
<1>2. ASSUME NEW q \in 0..MaxRetries
      PROVE  RunningCalls[f][q] = Cardinality(Handling(f, q)) /\ RunningCalls[f][q] \in Nat
  BY HandlingSets, WorkerSets DEF RunningCalls
<1>3. Claims(f, r) \in Nat /\ Claims(f, r) <= PoolSize
  BY HandlingSets, WorkerSets, PoolSizeNat DEF Claims
<1>4. r # 0 => r - 1 \in 0..MaxRetries
  BY QueueAssumption
<1>5. Calls!Grounds(f, r) \in Int
  <2>1. ASSUME r # 0 PROVE attempts[f][r - 1] \in Int /\ RunningCalls[f][r - 1] \in Int
    <3>1. r - 1 \in 0..MaxRetries
      BY <1>4, <2>1
    <3>2. RunningCalls[f][r - 1] \in Nat
      BY <1>2, <3>1
    <3>3. attempts[f][r - 1] \in Nat
      BY <1>1, <3>1
    <3> QED BY <3>2, <3>3
  <2> QED BY <2>1 DEF Calls!Grounds
<1> QED BY <1>1, <1>2, <1>3, <1>5

CallsTyped ==
  \A f \in Flows, r \in 0..MaxRetries :
    /\ attempts[f][r] \in Nat
    /\ RunningCalls[f][r] = Cardinality(Handling(f, r)) /\ RunningCalls[f][r] \in Nat
    /\ Claims(f, r) \in Nat /\ Claims(f, r) <= PoolSize
    /\ Calls!Grounds(f, r) \in Int

LEMMA CallsAreTyped == IInv => CallsTyped
  BY CallTypes DEF CallsTyped

LEMMA CallTypesNext ==
  ASSUME IInv', NEW f \in Flows, NEW r \in 0..MaxRetries
  PROVE  /\ attempts'[f][r] \in Nat
         /\ RunningCalls'[f][r] = Cardinality(Handling(f, r)') /\ RunningCalls'[f][r] \in Nat
         /\ Claims(f, r)' \in Nat /\ Claims(f, r)' <= PoolSize
         /\ Calls!Grounds(f, r)' \in Int
<1>1. CallsTyped'
  BY CallsAreTyped, PTL
<1> QED BY <1>1 DEF CallsTyped

LEMMA Times ==
  ASSUME NEW a \in Int, NEW b \in Int, a <= b
  PROVE  /\ PoolSize * a <= PoolSize * b
         /\ a + 1 <= b => PoolSize * a + PoolSize <= PoolSize * b
         /\ PoolSize * 0 = 0 /\ PoolSize * 1 = PoolSize
         /\ PoolSize * a \in Int /\ PoolSize * b \in Int
<1>1. PoolSize \in Nat
  BY PoolSizeNat
<1> HIDE DEF PoolSize
<1>2. ASSUME NEW x \in Int, NEW y \in Int, x <= y PROVE PoolSize * x <= PoolSize * y
  <2>1. PoolSize * (y - x) >= 0
    BY <1>1, <1>2
  <2> QED BY <1>1, <1>2, <2>1
<1>3. PoolSize * (a + 1) = PoolSize * a + PoolSize
  BY <1>1
<1> QED BY <1>1, <1>2, <1>3

\* A step that takes no call and no ground away leaves a budget that is kept.
LEMMA Relaxed ==
  ASSUME CallInv, IInv', NEW f \in Flows, NEW r \in 0..MaxRetries,
         Calls!Grounds(f, r)' >= Calls!Grounds(f, r),
         attempts'[f][r] + Claims(f, r)' <= attempts[f][r] + Claims(f, r)
  PROVE  attempts'[f][r] + Claims(f, r)' <= PoolSize * Calls!Grounds(f, r)'
<1>1. attempts[f][r] + Claims(f, r) <= PoolSize * Calls!Grounds(f, r)
  BY DEF CallInv, Budget
<1>2. /\ attempts[f][r] \in Nat /\ Claims(f, r) \in Nat /\ Calls!Grounds(f, r) \in Int
  BY CallTypes DEF CallInv
<1>3. /\ attempts'[f][r] \in Nat /\ Claims(f, r)' \in Nat /\ Calls!Grounds(f, r)' \in Int
  BY CallTypesNext
<1>4. PoolSize * Calls!Grounds(f, r) <= PoolSize * Calls!Grounds(f, r)'
  BY <1>2, <1>3, Times
<1>5. PoolSize * Calls!Grounds(f, r) \in Int /\ PoolSize * Calls!Grounds(f, r)' \in Int
  BY <1>2, <1>3, Times
<1> QED BY <1>1, <1>2, <1>3, <1>4, <1>5

\* Steps that call nothing, enqueue nothing and take nothing off the hands of a
\* worker.
LEMMA QuietCalls ==
  ASSUME \A w \in Workers : InHand(w)' = InHand(w) /\ (InHand(w) => job'[w] = job[w]),
         UNCHANGED <<attempts, enqueued>>
  PROVE  /\ UNCHANGED RunningCalls
         /\ \A f \in Flows, r \in 0..MaxRetries : Calls!Grounds(f, r)' = Calls!Grounds(f, r)
         /\ [Calls!Next]_(Calls!callVars)
<1>1. \A f, r : Handling(f, r)' = Handling(f, r)
  BY DEF Handling
<1>2. RunningCalls' = RunningCalls
  BY <1>1 DEF RunningCalls
<1>3. \A f \in Flows, r \in 0..MaxRetries : Calls!Grounds(f, r)' = Calls!Grounds(f, r)
  BY <1>2 DEF Calls!Grounds
<1> QED BY <1>2, <1>3 DEF Calls!callVars

\* The hands of the workers are as they were.
SameHands == \A w \in Workers : InHand(w)' = InHand(w) /\ (InHand(w) => job'[w] = job[w])

LEMMA EnqueueCalls ==
  ASSUME CallInv, IInv', NEW f \in Flows, Enqueue(f)
  PROVE  Budget' /\ [Calls!Next]_(Calls!callVars)
<1>1. /\ f \notin enqueued /\ enqueued' = enqueued \cup {f}
      /\ UNCHANGED <<batch, job, wpc, attempts>>
      /\ \/ UNCHANGED jobs
         \/ \E d \in BOOLEAN : UpdateJob([flow |-> f, status |-> "PENDING", retries |-> 0, due |-> d])
  BY DEF Enqueue
<1>2. UNCHANGED RunningCalls
  BY <1>1 DEF RunningCalls, Handling, InHand
<1>3. Calls!Create(f)
  BY <1>1, <1>2 DEF Calls!Create
<1>4. ASSUME NEW g \in Flows, NEW r \in 0..MaxRetries
      PROVE  attempts'[g][r] + Claims(g, r)' <= PoolSize * Calls!Grounds(g, r)'
  <2>1. /\ Calls!Grounds(g, r)' = IF r = 0 /\ g = f THEN 1 ELSE Calls!Grounds(g, r)
        /\ r = 0 /\ g = f => Calls!Grounds(g, r) = 0
    BY <1>1, <1>2 DEF Calls!Grounds
  <2>2. /\ attempts[g][r] \in Nat /\ Claims(g, r) \in Nat /\ Claims(g, r)' \in Nat
        /\ Claims(g, r)' <= PoolSize /\ Calls!Grounds(g, r) \in Int
    <3>1. Claims(g, r)' \in Nat /\ Claims(g, r)' <= PoolSize
      BY CallTypesNext
    <3> QED BY <3>1, CallTypes DEF CallInv
  <2>3. CASE r = 0 /\ g = f
    <3>1. attempts[g][r] + Claims(g, r) <= PoolSize * 0
      BY <2>1, <2>3 DEF CallInv, Budget
    <3>2. attempts'[g][r] = 0
      BY <3>1, <2>2, <1>1, Times
    <3>3. PoolSize * Calls!Grounds(g, r)' = PoolSize
      BY <2>1, <2>3, Times
    <3> QED BY <2>2, <3>2, <3>3, PoolSizeNat
  <2>4. CASE ~(r = 0 /\ g = f)
    <3>1. PendingJob(g, r)' => PendingJob(g, r)
      <4>1. CASE UNCHANGED jobs
        BY <4>1 DEF PendingJob
      <4>2. ASSUME NEW d \in BOOLEAN, UpdateJob([flow |-> f, status |-> "PENDING", retries |-> 0, due |-> d])
            PROVE  PendingJob(g, r)' => PendingJob(g, r)
        <5>1. jobs' = [jobs EXCEPT ![CaseOf[f]] = [flow |-> f, status |-> "PENDING", retries |-> 0, due |-> d]]
          BY <4>2 DEF UpdateJob, Case
        <5>2. CASE CaseOf[g] = CaseOf[f]
          BY <5>1, <5>2, <2>4, QueueAssumption DEF PendingJob, CallInv, IInv, TypeOK, StoreType
        <5>3. CASE CaseOf[g] # CaseOf[f]
          BY <5>1, <5>3 DEF PendingJob, CallInv, IInv, TypeOK, StoreType
        <5> QED BY <5>2, <5>3
      <4> QED BY <1>1, <4>1, <4>2
    <3>2. Cardinality(Holding(g, r)') = Cardinality(Holding(g, r))
      BY <1>1 DEF Holding
    <3>3. Claims(g, r)' <= Claims(g, r)
      BY <3>1, <3>2, <2>2, HandlingSets, WorkerSets DEF Claims
    <3> QED BY <1>1, <2>1, <2>2, <2>4, <3>3, Relaxed
  <2> QED BY <2>3, <2>4
<1> QED BY <1>3, <1>4 DEF Budget, Calls!Next

\* Steps that leave hands and counts alone: no worker gets a copy of what is not
\* pending, nothing becomes pending.
LEMMA QuietBudget ==
  ASSUME CallInv, IInv', SameHands, UNCHANGED <<attempts, enqueued>>,
         \A f \in Flows, r \in 0..MaxRetries :
           /\ PendingJob(f, r)' => PendingJob(f, r)
           /\ PendingJob(f, r)' \/ Holding(f, r)' \subseteq Holding(f, r)
  PROVE  Budget' /\ [Calls!Next]_(Calls!callVars)
<1>1. /\ \A f \in Flows, r \in 0..MaxRetries : Calls!Grounds(f, r)' = Calls!Grounds(f, r)
      /\ [Calls!Next]_(Calls!callVars)
  BY QuietCalls DEF SameHands
<1>2. ASSUME NEW f \in Flows, NEW r \in 0..MaxRetries
      PROVE  attempts'[f][r] + Claims(f, r)' <= PoolSize * Calls!Grounds(f, r)'
  <2>1. /\ attempts[f][r] \in Nat /\ Claims(f, r) \in Nat /\ Calls!Grounds(f, r) \in Int
    BY CallTypes DEF CallInv
  <2>2. Claims(f, r)' \in Nat /\ Claims(f, r)' <= Claims(f, r)
    <3>1. Claims(f, r)' \in Nat
      BY CallTypesNext
    <3>2. CASE PendingJob(f, r)'
      BY <3>1, <3>2 DEF Claims
    <3>3. CASE ~PendingJob(f, r)'
      <4>1. Cardinality(Holding(f, r)') <= Cardinality(Holding(f, r))
        BY <3>3, HandlingSets, SmallerSets
      <4>2. Cardinality(Holding(f, r)) <= PoolSize
        BY HandlingSets, WorkerSets
      <4>3. Cardinality(Holding(f, r)) \in Nat /\ Cardinality(Holding(f, r)') \in Nat
        BY HandlingSets, WorkerSets
      <4> QED BY <3>3, <4>1, <4>2, <4>3, PoolSizeNat DEF Claims
    <3> QED BY <3>1, <3>2, <3>3
  <2> QED BY <1>1, <2>1, <2>2, Relaxed
<1> QED BY <1>1, <1>2 DEF Budget

LEMMA ComesDueCalls ==
  ASSUME CallInv, IInv', NEW c \in Cases, ComesDue(c)
  PROVE  Budget' /\ [Calls!Next]_(Calls!callVars)
<1>1. /\ jobs' = [jobs EXCEPT ![c] = [jobs[c] EXCEPT !.due = TRUE]]
      /\ jobs[c] \in JobRecord /\ jobs[c] # NoJob
      /\ UNCHANGED <<wpc, batch, job, attempts, enqueued>>
  BY DEF ComesDue, CallInv, IInv, TypeOK, StoreType
<1>2. \A f \in Flows, r \in 0..MaxRetries : PendingJob(f, r)' => PendingJob(f, r)
  BY <1>1 DEF PendingJob, JobRecord, CallInv, IInv, TypeOK, StoreType
<1>3. \A f, r : Holding(f, r)' = Holding(f, r)
  BY <1>1 DEF Holding
<1>4. SameHands
  BY <1>1 DEF SameHands, InHand
<1> QED BY <1>1, <1>2, <1>3, <1>4, QuietBudget

\* Steps of a worker that is not at a job.
LEMMA IdleCalls ==
  ASSUME CallInv, IInv', NEW w \in Workers, Poll(w) \/ EndBatch(w) \/ Leave(w)
  PROVE  Budget' /\ [Calls!Next]_(Calls!callVars)
<1>1. UNCHANGED <<jobs, job, attempts, enqueued>>
  BY DEF Poll, EndBatch, Leave
<1>2. SameHands
  BY DEF Poll, EndBatch, Leave, SameHands, InHand, CallInv, IInv, TypeOK, PoolType
<1>3. \A v \in Workers :
        batch'[v] \subseteq batch[v] \/ \E S \in SUBSET Pending : batch'[v] = {jobs[c] : c \in S}
  <2>1. CASE Poll(w)
    BY <2>1 DEF Poll, GetPendingJobs, CallInv, IInv, TypeOK, BatchType
  <2>2. CASE ~Poll(w)
    BY <2>2 DEF EndBatch, Leave, CallInv, IInv, TypeOK, BatchType
  <2> QED BY <2>1, <2>2
<1>4. ASSUME NEW f \in Flows, NEW r \in 0..MaxRetries
      PROVE  PendingJob(f, r) \/ Holding(f, r)' \subseteq Holding(f, r)
  <2>1. ASSUME NEW v \in Workers, NEW j \in batch'[v], j.flow = f, j.retries = r, ~PendingJob(f, r)
        PROVE  j \in batch[v]
    <3>1. ASSUME NEW c \in Pending, j = jobs[c] PROVE FALSE
      <4>1. jobs[c] # NoJob /\ jobs[c].status = "PENDING" /\ c \in Cases
        BY DEF Pending, Has
      <4>2. CaseOf[f] = c
        BY <2>1, <3>1, <4>1 DEF CallInv, IInv, Filed, Case
      <4> QED BY <2>1, <3>1, <4>1, <4>2 DEF PendingJob
    <3> QED BY <1>3, <3>1
  <2> QED BY <2>1 DEF Holding
<1>5. \A f \in Flows, r \in 0..MaxRetries : PendingJob(f, r)' = PendingJob(f, r)
  BY <1>1 DEF PendingJob
<1> QED BY <1>1, <1>2, <1>4, <1>5, QuietBudget

LEMMA BeginCalls ==
  ASSUME CallInv, IInv', NEW w \in Workers, Begin(w)
  PROVE  Budget' /\ [Calls!Next]_(Calls!callVars)
<1>1. PICK j \in batch[w] :
        /\ batch' = [batch EXCEPT ![w] = @ \ {j}]
        /\ \/ /\ UpdateJob(Marked(j))
              /\ job' = [job EXCEPT ![w] = [j EXCEPT !.status = "RUNNING"]]
              /\ wpc' = [wpc EXCEPT ![w] = "handling"]
              /\ attempts' = [attempts EXCEPT ![j.flow][j.retries] = @ + 1]
           \/ UNCHANGED <<jobs, job, wpc, attempts>>
  BY DEF Begin
<1>2. /\ j \in JobRecord /\ j.status = "PENDING" /\ j.due /\ j.flow \in Flows
      /\ j.retries \in 0..MaxRetries /\ CaseOf[j.flow] \in Cases
      /\ wpc[w] = "batch" /\ UNCHANGED enqueued
  <2>1. j \in JobRecord /\ j.status = "PENDING" /\ j.due
    BY DEF CallInv, IInv, TypeOK, BatchType, Copies
  <2> QED BY <2>1, QueueAssumption DEF JobRecord, Begin
<1>3. \A f, r : Holding(f, r)' \subseteq Holding(f, r)
  BY <1>1 DEF Holding, CallInv, IInv, TypeOK, BatchType
<1>4. CASE UNCHANGED <<jobs, job, wpc, attempts>>
  <2>1. SameHands
    BY <1>4 DEF SameHands, InHand
  <2>2. \A f \in Flows, r \in 0..MaxRetries : PendingJob(f, r)' => PendingJob(f, r)
    BY <1>4 DEF PendingJob
  <2> QED BY <1>2, <1>3, <1>4, <2>1, <2>2, QuietBudget
<1>5. CASE ~UNCHANGED <<jobs, job, wpc, attempts>>
  <2> DEFINE F == j.flow
             R == j.retries
             k == [j EXCEPT !.status = "RUNNING"]
  <2>1. /\ k \in JobRecord /\ k.flow = F /\ k.retries = R /\ k.status = "RUNNING" /\ k # NoJob
    BY <1>2, QueueAssumption DEF JobRecord
  <2>2. /\ jobs' = [jobs EXCEPT ![CaseOf[F]] = k] /\ job' = [job EXCEPT ![w] = k]
        /\ wpc' = [wpc EXCEPT ![w] = "handling"]
        /\ attempts' = [attempts EXCEPT ![F][R] = @ + 1]
    BY <1>1, <1>5, <2>1 DEF UpdateJob, Case, Marked
  <2>3. F \in Flows /\ R \in 0..MaxRetries /\ R \in Nat
    BY <1>2, QueueAssumption
  <2> HIDE DEF k, F, R
  <2>4. /\ attempts \in [Flows -> [0..MaxRetries -> Nat]] /\ jobs \in [Cases -> JobRecord \cup {NoJob}]
        /\ job \in [Workers -> JobRecord \cup {NoJob}] /\ batch \in [Workers -> SUBSET JobRecord]
        /\ wpc \in [Workers -> {"idle", "batch", "handling", "burying", "gone"}]
    BY DEF CallInv, IInv, TypeOK, CountType, StoreType, PoolType, BatchType
  <2>5. /\ attempts'[F][R] = attempts[F][R] + 1
        /\ \A g \in Flows, q \in 0..MaxRetries : g # F \/ q # R => attempts'[g][q] = attempts[g][q]
    BY <2>2, <2>3, <2>4, OneMoreCall
  <2>6. /\ Handling(F, R)' = Handling(F, R) \cup {w} /\ w \notin Handling(F, R)
        /\ \A g, q : g # F \/ q # R => Handling(g, q)' = Handling(g, q)
    BY <1>2, <2>1, <2>2, <2>4 DEF Handling, InHand
  <2>7. RunningCalls' = [RunningCalls EXCEPT ![F][R] = @ + 1]
    <3>1. Cardinality(Handling(F, R)') = Cardinality(Handling(F, R)) + 1
      BY <2>6, HandlingSets, WorkerSets, FS_AddElement
    <3>2. \A g \in Flows, q \in 0..MaxRetries :
            Cardinality(Handling(g, q)') = IF g = F /\ q = R THEN Cardinality(Handling(g, q)) + 1
                                           ELSE Cardinality(Handling(g, q))
      BY <2>6, <3>1
    <3>3. RunningCalls' = [g \in Flows |-> [q \in 0..MaxRetries |->
                             IF g = F /\ q = R THEN Cardinality(Handling(g, q)) + 1
                             ELSE Cardinality(Handling(g, q))]]
      BY <3>2 DEF RunningCalls
    <3> QED BY <2>3, <3>3 DEF RunningCalls
  <2>8. \A g \in Flows, q \in 0..MaxRetries : Calls!Grounds(g, q)' = Calls!Grounds(g, q)
    <3> SUFFICES ASSUME NEW g \in Flows, NEW q \in 0..MaxRetries, q # 0
                 PROVE  attempts'[g][q-1] - RunningCalls'[g][q-1] = attempts[g][q-1] - RunningCalls[g][q-1]
      BY <1>2 DEF Calls!Grounds
    <3>1. q - 1 \in 0..MaxRetries
      BY QueueAssumption
    <3>2. /\ attempts[g][q-1] \in Nat /\ RunningCalls[g][q-1] = Cardinality(Handling(g, q-1))
          /\ Cardinality(Handling(g, q-1)) \in Nat
      BY <3>1, CallTypes, HandlingSets, WorkerSets DEF CallInv
    <3>3. RunningCalls'[g][q-1] = Cardinality(Handling(g, q-1)')
      BY <3>1, CallTypesNext
    <3>4. CASE g = F /\ q - 1 = R
      <4>1. Cardinality(Handling(F, R)') = Cardinality(Handling(F, R)) + 1
        BY <2>6, HandlingSets, WorkerSets, FS_AddElement
      <4> QED BY <3>2, <3>3, <3>4, <4>1, <2>5
    <3>5. CASE ~(g = F /\ q - 1 = R)
      <4>1. attempts'[g][q-1] = attempts[g][q-1] /\ Handling(g, q-1)' = Handling(g, q-1)
        BY <3>1, <3>5, <2>5, <2>6
      <4> QED BY <3>2, <3>3, <4>1
    <3> QED BY <3>4, <3>5
  <2>9. w \in Holding(F, R) /\ w \notin Holding(F, R)'
    <3>1. ASSUME NEW i \in batch'[w], i.flow = F, i.retries = R PROVE FALSE
      <4>1. i \in batch[w] /\ i # j
        BY <1>1, <3>1, <2>4
      <4>2. i \in JobRecord /\ i.status = "PENDING" /\ i.due
        BY <4>1 DEF CallInv, IInv, TypeOK, BatchType, Copies
      <4>3. i = j
        BY <4>2, <3>1, <1>2 DEF F, R, JobRecord
      <4> QED BY <4>1, <4>3
    <3> QED BY <3>1, <1>1 DEF Holding, F, R
  <2>10. PendingJob(F, R)' = FALSE /\ \A g \in Flows, q \in 0..MaxRetries : PendingJob(g, q)' => PendingJob(g, q)
    BY <1>2, <2>1, <2>2, <2>3, <2>4, QueueAssumption DEF PendingJob, F
  <2>11. \A g \in Flows, q \in 0..MaxRetries :
           Claims(g, q)' <= Claims(g, q) - (IF g = F /\ q = R THEN 1 ELSE 0)
    <3> SUFFICES ASSUME NEW g \in Flows, NEW q \in 0..MaxRetries
                 PROVE  Claims(g, q)' <= Claims(g, q) - (IF g = F /\ q = R THEN 1 ELSE 0)
      OBVIOUS
    <3>1. /\ Cardinality(Holding(g, q)) \in Nat /\ Cardinality(Holding(g, q)') \in Nat
          /\ Cardinality(Holding(g, q)) <= PoolSize /\ PoolSize \in Nat
          /\ Cardinality(Holding(g, q)') <= Cardinality(Holding(g, q))
      BY <1>3, HandlingSets, WorkerSets, SmallerSets, PoolSizeNat
    <3>2. CASE g = F /\ q = R
      <4>1. Cardinality(Holding(F, R)') <= Cardinality(Holding(F, R) \ {w})
        BY <1>3, <2>9, HandlingSets, SmallerSets
      <4>2. Cardinality(Holding(F, R) \ {w}) = Cardinality(Holding(F, R)) - 1
        BY <2>9, HandlingSets, WorkerSets, FS_RemoveElement
      <4> QED BY <3>1, <3>2, <4>1, <4>2, <2>10 DEF Claims
    <3>3. CASE ~(g = F /\ q = R)
      BY <3>1, <3>3, <2>10 DEF Claims
    <3> QED BY <3>2, <3>3
  <2>12. Budget'
    <3> SUFFICES ASSUME NEW g \in Flows, NEW q \in 0..MaxRetries
                 PROVE  attempts'[g][q] + Claims(g, q)' <= PoolSize * Calls!Grounds(g, q)'
      BY DEF Budget
    <3>1. attempts[g][q] \in Nat /\ Claims(g, q) \in Nat /\ Calls!Grounds(g, q) \in Int
      BY CallTypes DEF CallInv
    <3>2. Claims(g, q)' \in Nat
      BY CallTypesNext
    <3>3. attempts'[g][q] = attempts[g][q] + (IF g = F /\ q = R THEN 1 ELSE 0)
      BY <2>5, <3>1
    <3>4. attempts'[g][q] + Claims(g, q)' <= attempts[g][q] + Claims(g, q)
      BY <3>1, <3>2, <3>3, <2>11
    <3> QED BY <3>1, <3>4, <2>8, Relaxed
  <2>13. Calls!Call(F, R)
    <3>1. attempts[F][R] + Claims(F, R) <= PoolSize * Calls!Grounds(F, R)
      BY <2>3 DEF CallInv, Budget
    <3>2. /\ attempts[F][R] \in Nat /\ Claims(F, R) \in Nat /\ Claims(F, R) > 0
          /\ PoolSize * Calls!Grounds(F, R) \in Int
      <4>1. attempts[F][R] \in Nat /\ Claims(F, R) \in Nat /\ Calls!Grounds(F, R) \in Int
        BY <2>3, CallTypes DEF CallInv
      <4>2. Claims(F, R)' \in Nat
        BY <2>3, CallTypesNext
      <4>3. PoolSize * Calls!Grounds(F, R) \in Int
        BY <4>1, Times
      <4> QED BY <2>3, <2>11, <4>1, <4>2, <4>3
    <3>3. attempts[F][R] < PoolSize * Calls!Grounds(F, R)
      BY <3>1, <3>2
    <3> QED BY <3>3, <2>2, <2>7, <1>2 DEF Calls!Call, PoolSize
  <2> QED BY <2>3, <2>12, <2>13 DEF Calls!Next
<1> QED BY <1>4, <1>5

\* A worker is done with the job in its hands: it wrote the record back, pending
\* with one retry more or not pending, or wrote nothing.
LEMMA ReleaseCalls ==
  ASSUME CallInv, IInv', NEW w \in Workers, InHand(w),
         wpc' = [wpc EXCEPT ![w] = "batch"], job' = [job EXCEPT ![w] = NoJob],
         UNCHANGED <<batch, attempts, enqueued>>,
         \/ UNCHANGED jobs
         \/ \E j \in JobRecord :
              /\ j.flow = job[w].flow
              /\ j.status = "PENDING" => j.retries = job[w].retries + 1
              /\ jobs' = [jobs EXCEPT ![Case(j)] = j]
  PROVE  Budget' /\ [Calls!Next]_(Calls!callVars)
<1>0. PICK F \in Flows, R \in 0..MaxRetries : F = job[w].flow /\ R = job[w].retries
  BY HeldRecord DEF CallInv, JobRecord
<1>1. F \in Flows /\ R \in 0..MaxRetries /\ R \in Nat /\ CaseOf[F] \in Cases
  BY QueueAssumption
<1>2. /\ attempts \in [Flows -> [0..MaxRetries -> Nat]] /\ jobs \in [Cases -> JobRecord \cup {NoJob}]
      /\ job \in [Workers -> JobRecord \cup {NoJob}]
      /\ wpc \in [Workers -> {"idle", "batch", "handling", "burying", "gone"}]
  BY DEF CallInv, IInv, TypeOK, CountType, StoreType, PoolType, BatchType
<1>3. /\ Handling(F, R)' = Handling(F, R) \ {w} /\ w \in Handling(F, R)
      /\ \A g, q : g # F \/ q # R => Handling(g, q)' = Handling(g, q)
  <2>1. \A v \in Workers : v # w => InHand(v)' = InHand(v) /\ job'[v] = job[v]
    BY <1>2 DEF InHand
  <2>2. ~InHand(w)'
    BY <1>2 DEF InHand
  <2>3. \A g, q : Handling(g, q)' = Handling(g, q) \ {w}
    BY <2>1, <2>2 DEF Handling
  <2>4. ASSUME NEW g, NEW q PROVE w \in Handling(g, q) <=> g = F /\ q = R
    <3>1. w \in Handling(g, q) <=> InHand(w) /\ job[w].flow = g /\ job[w].retries = q
      BY Zenon DEF Handling
    <3> QED BY <3>1, <1>0
  <2>5. ASSUME NEW g, NEW q, g # F \/ q # R PROVE Handling(g, q)' = Handling(g, q)
    <3>1. Handling(g, q)' = Handling(g, q) \ {w}
      BY <2>3
    <3>2. w \notin Handling(g, q)
      BY <2>4, <2>5
    <3> QED BY <3>1, <3>2
  <2>6. Handling(F, R)' = Handling(F, R) \ {w} /\ w \in Handling(F, R)
    BY <2>3, <2>4
  <2> QED BY <2>5, <2>6
<1>4. Cardinality(Handling(F, R)') = Cardinality(Handling(F, R)) - 1
  BY <1>3, HandlingSets, WorkerSets, FS_RemoveElement
<1>5. RunningCalls' = [RunningCalls EXCEPT ![F][R] = @ - 1]
  <2>1. \A g \in Flows, q \in 0..MaxRetries :
          Cardinality(Handling(g, q)') = IF g = F /\ q = R THEN Cardinality(Handling(g, q)) - 1
                                         ELSE Cardinality(Handling(g, q))
    <3> SUFFICES ASSUME NEW g \in Flows, NEW q \in 0..MaxRetries
                 PROVE  Cardinality(Handling(g, q)') =
                          IF g = F /\ q = R THEN Cardinality(Handling(g, q)) - 1
                          ELSE Cardinality(Handling(g, q))
      OBVIOUS
    <3>1. CASE g = F /\ q = R
      BY <3>1, <1>4
    <3>2. CASE ~(g = F /\ q = R)
      <4>1. Handling(g, q)' = Handling(g, q)
        BY <3>2, <1>3
      <4> QED BY <3>2, <4>1
    <3> QED BY <3>1, <3>2
  <2>2. RunningCalls' = [g \in Flows |-> [q \in 0..MaxRetries |->
                           IF g = F /\ q = R THEN Cardinality(Handling(g, q)) - 1
                           ELSE Cardinality(Handling(g, q))]]
    BY <2>1 DEF RunningCalls
  <2> QED BY <1>1, <2>2 DEF RunningCalls
<1>6. Calls!Return(F, R)
  <2>1. RunningCalls[F][R] > 0
    <3>1. Cardinality(Handling(F, R)) \in Nat /\ Cardinality(Handling(F, R)') \in Nat
      BY HandlingSets, WorkerSets
    <3> QED BY <3>1, <1>1, <1>4, CallTypes DEF CallInv
  <2> QED BY <2>1, <1>5 DEF Calls!Return
<1>7. \A g \in Flows, q \in 0..MaxRetries :
        Calls!Grounds(g, q)' = Calls!Grounds(g, q) + (IF g = F /\ q = R + 1 THEN 1 ELSE 0)
  <2> SUFFICES ASSUME NEW g \in Flows, NEW q \in 0..MaxRetries
               PROVE  Calls!Grounds(g, q)' = Calls!Grounds(g, q) + (IF g = F /\ q = R + 1 THEN 1 ELSE 0)
    OBVIOUS
  <2>1. CASE q = 0
    BY <2>1, <1>1 DEF Calls!Grounds
  <2>2. CASE q # 0
    <3>1. q - 1 \in 0..MaxRetries
      BY <2>2, QueueAssumption
    <3>2. /\ attempts[g][q-1] \in Nat /\ RunningCalls[g][q-1] = Cardinality(Handling(g, q-1))
          /\ Cardinality(Handling(g, q-1)) \in Nat
      BY <3>1, CallTypes, HandlingSets, WorkerSets DEF CallInv
    <3>3. RunningCalls'[g][q-1] = Cardinality(Handling(g, q-1)')
      BY <3>1, CallTypesNext
    <3>4. RunningCalls'[g][q-1] = RunningCalls[g][q-1] - (IF g = F /\ q = R + 1 THEN 1 ELSE 0)
      <4>1. CASE g = F /\ q - 1 = R
        <5>1. Cardinality(Handling(g, q-1)') = Cardinality(Handling(g, q-1)) - 1
          BY <4>1, <1>4
        <5>2. q = R + 1
          BY <4>1, <1>1
        <5> QED BY <4>1, <5>1, <5>2, <3>2, <3>3
      <4>2. CASE ~(g = F /\ q - 1 = R)
        BY <4>2, <3>1, <3>2, <3>3, <1>1, <1>3
      <4> QED BY <4>1, <4>2
    <3> QED BY <2>2, <3>2, <3>4 DEF Calls!Grounds
  <2> QED BY <2>1, <2>2
<1>8. \A g, q : Holding(g, q)' = Holding(g, q)
  BY DEF Holding
<1>9. \A g \in Flows, q \in 0..MaxRetries :
        g # F \/ q # R + 1 => (PendingJob(g, q)' => PendingJob(g, q))
  <2>1. CASE UNCHANGED jobs
    BY <2>1 DEF PendingJob
  <2>2. ASSUME NEW j \in JobRecord, j.flow = F, j.status = "PENDING" => j.retries = R + 1,
               jobs' = [jobs EXCEPT ![Case(j)] = j]
        PROVE  \A g \in Flows, q \in 0..MaxRetries :
                 g # F \/ q # R + 1 => (PendingJob(g, q)' => PendingJob(g, q))
    <3>1. Case(j) = CaseOf[F]
      BY <2>2 DEF Case
    <3> QED BY <2>2, <3>1, <1>1, <1>2, QueueAssumption DEF PendingJob
  <2> QED BY <2>1, <2>2, <1>0
<1>10. ASSUME NEW g \in Flows, NEW q \in 0..MaxRetries
       PROVE  attempts'[g][q] + Claims(g, q)' <= PoolSize * Calls!Grounds(g, q)'
  <2>1. /\ attempts[g][q] \in Nat /\ Claims(g, q) \in Nat /\ Calls!Grounds(g, q) \in Int
    BY CallTypes DEF CallInv
  <2>2. Claims(g, q)' \in Nat /\ Claims(g, q)' <= PoolSize
    BY CallTypesNext
  <2>3. CASE g = F /\ q = R + 1
    <3>1. attempts[g][q] + Claims(g, q) <= PoolSize * Calls!Grounds(g, q)
      BY DEF CallInv, Budget
    <3>2. Calls!Grounds(g, q)' = Calls!Grounds(g, q) + 1
      BY <1>7, <2>3
    <3>3. PoolSize * Calls!Grounds(g, q) + PoolSize <= PoolSize * Calls!Grounds(g, q)'
      BY <2>1, <3>2, Times
    <3>4. PoolSize * Calls!Grounds(g, q) \in Int /\ PoolSize * Calls!Grounds(g, q)' \in Int
      BY <2>1, <3>2, Times
    <3> QED BY <2>1, <2>2, <3>1, <3>3, <3>4, PoolSizeNat
  <2>4. CASE ~(g = F /\ q = R + 1)
    <3>1. Claims(g, q)' <= Claims(g, q)
      <4>1. Cardinality(Holding(g, q)) <= PoolSize /\ Cardinality(Holding(g, q)) \in Nat /\ PoolSize \in Nat
        BY HandlingSets, WorkerSets, PoolSizeNat
      <4>2. Cardinality(Holding(g, q))' = Cardinality(Holding(g, q))
        BY <1>8
      <4> QED BY <4>1, <4>2, <2>4, <1>9 DEF Claims
    <3> QED BY <2>1, <2>2, <2>4, <3>1, <1>7, Relaxed
  <2> QED BY <2>3, <2>4
<1> QED BY <1>1, <1>6, <1>10 DEF Budget, Calls!Next

\* A worker that handles or buries a job.
LEMMA HandCalls ==
  ASSUME CallInv, IInv', NEW w \in Workers, Complete(w) \/ Retry(w) \/ Bury(w) \/ Buried(w)
  PROVE  Budget' /\ [Calls!Next]_(Calls!callVars)
<1>0. InHand(w) /\ job[w] \in JobRecord
  <2>1. InHand(w)
    BY DEF Complete, Retry, Bury, Buried, InHand
  <2> QED BY <2>1, HeldRecord DEF CallInv
<1>1. ASSUME NEW j \in JobRecord, j.flow = job[w].flow,
             j.status = "PENDING" => j.retries = job[w].retries + 1, Settle(w, j)
      PROVE  Budget' /\ [Calls!Next]_(Calls!callVars)
  <2>1. /\ wpc' = [wpc EXCEPT ![w] = "batch"] /\ job' = [job EXCEPT ![w] = NoJob]
        /\ UNCHANGED <<batch, attempts, enqueued>>
        /\ UNCHANGED jobs \/ jobs' = [jobs EXCEPT ![Case(j)] = j]
    BY <1>1 DEF Settle, UpdateJob
  <2> QED BY <1>0, <1>1, <2>1, ReleaseCalls
<1>2. CASE Complete(w)
  <2>1. [job[w] EXCEPT !.status = "COMPLETED"] \in JobRecord
    BY <1>0 DEF JobRecord
  <2>2. /\ [job[w] EXCEPT !.status = "COMPLETED"].flow = job[w].flow
        /\ [job[w] EXCEPT !.status = "COMPLETED"].status = "COMPLETED"
    BY <1>0 DEF JobRecord
  <2> QED BY <1>1, <1>2, <2>1, <2>2 DEF Complete
<1>3. CASE Buried(w)
  <2>1. [job[w] EXCEPT !.status = "DEAD"] \in JobRecord
    BY <1>0 DEF JobRecord
  <2>2. /\ [job[w] EXCEPT !.status = "DEAD"].flow = job[w].flow
        /\ [job[w] EXCEPT !.status = "DEAD"].status = "DEAD"
    BY <1>0 DEF JobRecord
  <2> QED BY <1>1, <1>3, <2>1, <2>2 DEF Buried
<1>4. CASE Retry(w)
  <2>1. job[w].retries + 1 \in 0..MaxRetries
    BY <1>0, <1>4, QueueAssumption DEF Retry, ShouldRetry, JobRecord
  <2>2. /\ ApplyRetry(job[w]) \in JobRecord /\ ApplyRetry(job[w]).flow = job[w].flow
        /\ ApplyRetry(job[w]).retries = job[w].retries + 1
    BY <1>0, <2>1 DEF ApplyRetry, JobRecord
  <2> QED BY <1>1, <1>4, <2>2 DEF Retry
<1>5. CASE Bury(w)
  <2>1. UNCHANGED <<jobs, batch, attempts, enqueued>>
    BY <1>5 DEF Bury
  <2>2. CASE wpc' = [wpc EXCEPT ![w] = "burying"] /\ UNCHANGED job
    <3>1. SameHands
      BY <1>5, <2>2 DEF Bury, SameHands, InHand, CallInv, IInv, TypeOK, PoolType
    <3>2. \A f, r : Holding(f, r)' = Holding(f, r) /\ PendingJob(f, r)' = PendingJob(f, r)
      BY <2>1 DEF Holding, PendingJob
    <3> QED BY <2>1, <3>1, <3>2, QuietBudget
  <2>3. CASE wpc' = [wpc EXCEPT ![w] = "batch"] /\ job' = [job EXCEPT ![w] = NoJob]
    BY <1>0, <2>1, <2>3, ReleaseCalls
  <2> QED BY <1>5, <2>2, <2>3 DEF Bury
<1> QED BY <1>2, <1>3, <1>4, <1>5

LEMMA RestartCalls ==
  ASSUME CallInv, IInv', Restart
  PROVE  Budget' /\ [Calls!Next]_(Calls!callVars)
<1>1. /\ wpc' = [w \in Workers |-> "idle"] /\ batch' = [w \in Workers |-> {}]
      /\ UNCHANGED <<jobs, enqueued, attempts>>
  BY DEF Restart
<1>2. \A f, r : Handling(f, r)' = {} /\ Holding(f, r)' = {} /\ PendingJob(f, r)' = PendingJob(f, r)
  BY <1>1 DEF Handling, Holding, InHand, PendingJob
<1>3. RunningCalls' = Calls!None
  <2>1. \A f, r : Cardinality(Handling(f, r)') = 0
    BY <1>2, FS_EmptySet
  <2> QED BY <2>1 DEF RunningCalls, Calls!None
<1>4. Calls!Restart
  BY <1>1, <1>3 DEF Calls!Restart
<1>5. ASSUME NEW f \in Flows, NEW r \in 0..MaxRetries
      PROVE  attempts'[f][r] + Claims(f, r)' <= PoolSize * Calls!Grounds(f, r)'
  <2>1. attempts[f][r] \in Nat /\ Claims(f, r) \in Nat
    BY CallTypes DEF CallInv
  <2>2. Calls!Grounds(f, r)' >= Calls!Grounds(f, r)
    <3>1. CASE r = 0
      BY <3>1, <1>1 DEF Calls!Grounds
    <3>2. CASE r # 0
      <4>1. r - 1 \in 0..MaxRetries
        BY <3>2, QueueAssumption
      <4>2. attempts[f][r-1] \in Nat /\ RunningCalls[f][r-1] \in Nat
        BY <4>1, CallTypes DEF CallInv
      <4>3. RunningCalls'[f][r-1] = 0
        BY <4>1, <1>3 DEF Calls!None
      <4> QED BY <3>2, <4>2, <4>3, <1>1 DEF Calls!Grounds
    <3> QED BY <3>1, <3>2
  <2>3. Claims(f, r)' <= Claims(f, r)
    <3>1. Cardinality(Holding(f, r)') = 0
      BY <1>2, FS_EmptySet
    <3>2. Cardinality(Holding(f, r)) \in Nat
      BY HandlingSets, WorkerSets
    <3> QED BY <3>1, <3>2, <1>2, PoolSizeNat DEF Claims
  <2>4. Claims(f, r)' \in Nat
    BY CallTypesNext
  <2> QED BY <1>1, <2>1, <2>2, <2>3, <2>4, Relaxed
<1> QED BY <1>4, <1>5 DEF Budget, Calls!Next

LEMMA InitCalls == ASSUME Init PROVE Budget /\ Calls!Init
<1>1. \A f, r : Handling(f, r) = {} /\ Holding(f, r) = {}
  BY DEF Init, Handling, Holding, InHand
<1>2. RunningCalls = Calls!None
  BY <1>1, FS_EmptySet DEF RunningCalls, Calls!None
<1>3. Calls!Init
  BY <1>2 DEF Init, Calls!Init, Calls!None
<1>4. ASSUME NEW f \in Flows, NEW r \in 0..MaxRetries
      PROVE  attempts[f][r] + Claims(f, r) <= PoolSize * Calls!Grounds(f, r)
  <2>1. ~PendingJob(f, r)
    BY QueueAssumption DEF Init, PendingJob
  <2>2. Claims(f, r) = 0
    BY <1>1, <2>1, FS_EmptySet DEF Claims
  <2>3. Calls!Grounds(f, r) = 0 /\ attempts[f][r] = 0
    <3>1. attempts[f][r] = 0 /\ enqueued = {}
      BY DEF Init
    <3>2. r # 0 => r - 1 \in 0..MaxRetries
      BY QueueAssumption
    <3>3. r # 0 => attempts[f][r - 1] = 0 /\ RunningCalls[f][r - 1] = 0
      BY <3>2, <1>2 DEF Init, Calls!None
    <3> QED BY <3>1, <3>3 DEF Calls!Grounds
  <2> QED BY <2>2, <2>3, Times
<1> QED BY <1>3, <1>4 DEF Budget

LEMMA NextCalls == ASSUME CallInv, [Next]_vars PROVE CallInv' /\ [Calls!Next]_(Calls!callVars)
<1>1. IInv'
  BY NextInv DEF CallInv
<1>2. Budget' /\ [Calls!Next]_(Calls!callVars)
  <2>1. CASE UNCHANGED vars \/ Stop
    <3>1. UNCHANGED <<jobs, batch, job, wpc, attempts, enqueued>>
      BY <2>1 DEF vars, Stop
    <3>2. SameHands
      BY <3>1 DEF SameHands, InHand
    <3>3. \A f, r : Holding(f, r)' = Holding(f, r) /\ PendingJob(f, r)' = PendingJob(f, r)
      BY <3>1 DEF Holding, PendingJob
    <3> QED BY <1>1, <3>1, <3>2, <3>3, QuietBudget
  <2>2. CASE \E w \in Workers : Worker(w)
    BY <1>1, <2>2, IdleCalls, BeginCalls, HandCalls DEF Worker
  <2>3. CASE Restart
    BY <1>1, <2>3, RestartCalls
  <2>4. CASE \E f \in Flows : Enqueue(f)
    BY <1>1, <2>4, EnqueueCalls
  <2>5. CASE \E c \in Cases : ComesDue(c)
    BY <1>1, <2>5, ComesDueCalls
  <2> QED BY <2>1, <2>2, <2>3, <2>4, <2>5 DEF Next
<1> QED BY <1>1, <1>2 DEF CallInv

LEMMA BudgetBounds == ASSUME CallInv PROVE AttemptsBounded
<1> SUFFICES ASSUME NEW f \in Flows
             PROVE  /\ attempts[f][0] <= PoolSize
                    /\ \A r \in 1..MaxRetries : attempts[f][r] <= PoolSize * attempts[f][r - 1]
  BY DEF AttemptsBounded, PoolSize
<1>1. ASSUME NEW r \in 0..MaxRetries, NEW b \in Int, Calls!Grounds(f, r) <= b
      PROVE  attempts[f][r] <= PoolSize * b
  <2>1. attempts[f][r] + Claims(f, r) <= PoolSize * Calls!Grounds(f, r)
    BY DEF CallInv, Budget
  <2>2. attempts[f][r] \in Nat /\ Claims(f, r) \in Nat /\ Calls!Grounds(f, r) \in Int
    BY CallTypes DEF CallInv
  <2>3. /\ PoolSize * Calls!Grounds(f, r) <= PoolSize * b
        /\ PoolSize * Calls!Grounds(f, r) \in Int /\ PoolSize * b \in Int
    BY <1>1, <2>2, Times
  <2> QED BY <2>1, <2>2, <2>3
<1>2. attempts[f][0] <= PoolSize
  <2>1. Calls!Grounds(f, 0) <= 1 /\ 0 \in 0..MaxRetries
    BY QueueAssumption DEF Calls!Grounds
  <2>2. attempts[f][0] <= PoolSize * 1
    BY <1>1, <2>1
  <2>3. PoolSize * 1 = PoolSize
    BY Times
  <2> QED BY <2>2, <2>3
<1>3. ASSUME NEW r \in 1..MaxRetries PROVE attempts[f][r] <= PoolSize * attempts[f][r - 1]
  <2>1. r \in 0..MaxRetries /\ r - 1 \in 0..MaxRetries /\ r # 0
    BY QueueAssumption
  <2>2. attempts[f][r - 1] \in Nat /\ RunningCalls[f][r - 1] \in Nat
    BY <2>1, CallTypes DEF CallInv
  <2>3. Calls!Grounds(f, r) <= attempts[f][r - 1]
    BY <2>1, <2>2 DEF Calls!Grounds
  <2> QED BY <1>1, <2>1, <2>2, <2>3
<1> QED BY <1>2, <1>3

\* The queue implements JobCalls: for any pool, over either store, with any stale
\* copies, failures and restarts, a call with one retry more needs the return of
\* a call before it, and each return allows one call of each worker at most.
THEOREM CallsAreAllowed == Spec => CallsAllowed
<1>1. Init => CallInv /\ Calls!Init
  BY InitInv, InitCalls DEF CallInv
<1>2. CallInv /\ [Next]_vars => CallInv' /\ [Calls!Next]_(Calls!callVars)
  BY NextCalls
<1> QED BY <1>1, <1>2, PTL DEF Spec, CallsAllowed, Calls!Spec

\* The handler is called for a flow at most once by each worker with no retries,
\* and by each worker once more for each call with one retry less.
THEOREM AttemptsAreBounded == Spec => []AttemptsBounded
<1>1. Init => CallInv
  BY InitInv, InitCalls DEF CallInv
<1>2. CallInv /\ [Next]_vars => CallInv'
  BY NextCalls
<1>3. CallInv => AttemptsBounded
  BY BudgetBounds
<1> QED BY <1>1, <1>2, <1>3, PTL DEF Spec
============================================================================
