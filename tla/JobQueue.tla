----------------------------- MODULE JobQueue -----------------------------
(***************************************************************************)
(* The job queue of internal/queue: a pool of workers polls the store for  *)
(* pending jobs that are due and processes the copies it gets one after    *)
(* the other.  Nothing claims a job when it is read: two workers, or two   *)
(* polls, may hold a copy of the same one, and every write puts the whole  *)
(* record of the writer's copy in the store.                               *)
(*                                                                         *)
(* The SQL store outlives a crash of the process, the workers and what     *)
(* they hold do not.  The memory store is gone with the process, so no     *)
(* restart is modelled over it.                                            *)
(***************************************************************************)
EXTENDS Naturals, FiniteSets

CONSTANTS Cases,        \* the instances: Enqueue derives the job id from the case
          Flows,        \* the flows jobs are created for
          CaseOf,       \* the case of each flow
          Workers,      \* the goroutines of the pool
          MaxRetries,   \* RetryPolicy.MaxRetries
          MaxFaults,    \* bound: store calls that fail
          MaxRestarts,  \* bound: restarts of the process
          NoJob         \* no record

\* store.JobRecord.  due says that ScheduledAt has passed.
JobRecord ==
  [flow : Flows, status : {"PENDING", "RUNNING", "COMPLETED", "DEAD"},
   retries : 0..MaxRetries, due : BOOLEAN]

ASSUME QueueAssumption ==
  /\ CaseOf \in [Flows -> Cases]
  /\ IsFiniteSet(Workers) /\ Workers # {}
  /\ MaxRetries \in Nat
  /\ MaxFaults \in Nat /\ MaxRestarts \in Nat
  /\ NoJob \notin JobRecord

VARIABLES
  replaces,  \* the store: CreateJob replaces a job of the same id (memory) or
             \* refuses it (SQL)
  jobs,      \* the job record of each case
  letters,   \* dead letters, by the flow of the job
  wpc,       \* where each worker is
  batch,     \* the copies it has polled and not yet processed
  job,       \* the copy it is processing
  stopping,  \* stopCh is closed
  enqueued,  \* history: flows Enqueue was called for
  attempts,  \* history: how often the handler was called for each flow, by
             \* the retries the copy had
  faults,    \* failed store calls
  restarts

poolVars == <<wpc, batch, job>>
vars == <<replaces, jobs, letters, poolVars, stopping, enqueued, attempts, faults, restarts>>

Init ==
  /\ replaces \in BOOLEAN
  /\ jobs = [c \in Cases |-> NoJob]
  /\ letters = [f \in Flows |-> 0]
  /\ wpc = [w \in Workers |-> "idle"]
  /\ batch = [w \in Workers |-> {}]
  /\ job = [w \in Workers |-> NoJob]
  /\ stopping = FALSE
  /\ enqueued = {} /\ attempts = [f \in Flows |-> [r \in 0..MaxRetries |-> 0]]
  /\ faults = 0 /\ restarts = 0

StoreFails == faults < MaxFaults /\ faults' = faults + 1

Case(j) == CaseOf[j.flow]

\* UpdateJob writes the whole record, whatever is there.
UpdateJob(j) == jobs' = [jobs EXCEPT ![Case(j)] = j]

\* Enqueue, from a run of the engine: a job that is due at once (a service
\* task) or later (a timer).
Enqueue(f) ==
  /\ f \notin enqueued
  /\ enqueued' = enqueued \cup {f}
  /\ \/ /\ replaces \/ jobs[CaseOf[f]] = NoJob
        /\ \E due \in BOOLEAN :
             UpdateJob([flow |-> f, status |-> "PENDING", retries |-> 0, due |-> due])
        /\ UNCHANGED faults
     \/ /\ ~replaces /\ jobs[CaseOf[f]] # NoJob
        /\ UNCHANGED <<jobs, faults>>
     \/ StoreFails /\ UNCHANGED jobs
  /\ UNCHANGED <<replaces, letters, poolVars, stopping, attempts, restarts>>

\* Time passes: ScheduledAt is reached.
ComesDue(c) ==
  /\ jobs[c] # NoJob /\ ~jobs[c].due
  /\ jobs' = [jobs EXCEPT ![c].due = TRUE]
  /\ UNCHANGED <<replaces, letters, poolVars, stopping, enqueued, attempts, faults, restarts>>

\* The job of a case has one of these states.
Has(c, states) == jobs[c] # NoJob /\ jobs[c].status \in states

----------------------------------------------------------------------------
(* A worker.                                                               *)

Pending == {c \in Cases : Has(c, {"PENDING"}) /\ jobs[c].due}

\* GetPendingJobs: as many as there are workers, any of them.
GetPendingJobs ==
  {S \in SUBSET Pending :
     IF Cardinality(Pending) <= Cardinality(Workers)
     THEN S = Pending ELSE Cardinality(S) = Cardinality(Workers)}

\* The ticker fires.
Poll(w) ==
  /\ wpc[w] = "idle"
  /\ \/ /\ \E S \in GetPendingJobs : batch' = [batch EXCEPT ![w] = {jobs[c] : c \in S}]
        /\ UNCHANGED faults
     \/ StoreFails /\ UNCHANGED batch
  /\ wpc' = [wpc EXCEPT ![w] = "batch"]
  /\ UNCHANGED <<replaces, jobs, letters, job, stopping, enqueued, attempts, restarts>>

\* The batch is done, or stopCh is closed: back to the ticker, or out.
EndBatch(w) ==
  /\ wpc[w] = "batch" /\ (batch[w] = {} \/ stopping)
  /\ wpc' = [wpc EXCEPT ![w] = "idle"]
  /\ batch' = [batch EXCEPT ![w] = {}]
  /\ UNCHANGED <<replaces, jobs, letters, job, stopping, enqueued, attempts, faults, restarts>>

Leave(w) ==
  /\ wpc[w] = "idle" /\ stopping
  /\ wpc' = [wpc EXCEPT ![w] = "gone"]
  /\ UNCHANGED <<replaces, jobs, letters, batch, job, stopping, enqueued, attempts, faults, restarts>>

\* A slip: the status is set on the copy that is handled only.
Unmarked(j) == j

Marked(j) == [j EXCEPT !.status = "RUNNING"]

\* processJob up to the call of the handler.  If the first write fails the job
\* is left for another poll.
Begin(w) ==
  /\ wpc[w] = "batch" /\ ~stopping
  /\ \E j \in batch[w] :
       /\ batch' = [batch EXCEPT ![w] = @ \ {j}]
       /\ \/ /\ UpdateJob(Marked(j))
             /\ job' = [job EXCEPT ![w] = [j EXCEPT !.status = "RUNNING"]]
             /\ wpc' = [wpc EXCEPT ![w] = "handling"]
             /\ attempts' = [attempts EXCEPT ![j.flow][j.retries] = @ + 1]
             /\ UNCHANGED faults
          \/ StoreFails /\ UNCHANGED <<jobs, job, wpc, attempts>>
  /\ UNCHANGED <<replaces, letters, stopping, enqueued, restarts>>

\* The last write of a job: it may fail, and the worker goes on regardless.
Settle(w, j) ==
  /\ \/ UpdateJob(j) /\ UNCHANGED faults
     \/ StoreFails /\ UNCHANGED jobs
  /\ wpc' = [wpc EXCEPT ![w] = "batch"]
  /\ job' = [job EXCEPT ![w] = NoJob]
  /\ UNCHANGED <<replaces, batch, stopping, enqueued, attempts, restarts>>

\* The handler returns nil.
Complete(w) ==
  /\ wpc[w] = "handling"
  /\ Settle(w, [job[w] EXCEPT !.status = "COMPLETED"])
  /\ UNCHANGED letters

\* A slip: the last attempt is retried as well.
RetriesOnceMore(j) == j.retries <= MaxRetries

ShouldRetry(j) == j.retries < MaxRetries

\* A slip: the retries are not counted.
Retried(j) == [j EXCEPT !.status = "PENDING", !.due = FALSE]

\* A slip: the status is left as it is.
RetriedRunning(j) == [j EXCEPT !.retries = @ + 1, !.due = FALSE]

\* ApplyRetry: the next attempt is scheduled for later.
ApplyRetry(j) == [j EXCEPT !.status = "PENDING", !.retries = @ + 1, !.due = FALSE]

\* The handler fails and the job is tried again.
Retry(w) ==
  /\ wpc[w] = "handling" /\ ShouldRetry(job[w])
  /\ Settle(w, ApplyRetry(job[w]))
  /\ UNCHANGED letters

\* A slip: a letter that could not be written does not keep the job from dying.
BuryRegardless(w) ==
  /\ wpc[w] = "handling" /\ ~ShouldRetry(job[w])
  /\ \/ letters' = [letters EXCEPT ![job[w].flow] = @ + 1] /\ UNCHANGED faults
     \/ StoreFails /\ UNCHANGED letters
  /\ wpc' = [wpc EXCEPT ![w] = "burying"]
  /\ UNCHANGED <<replaces, jobs, batch, job, stopping, enqueued, attempts, restarts>>

\* A slip: the letter is written and the job is left as it is.
BuryUnmarked(w) ==
  /\ wpc[w] = "handling" /\ ~ShouldRetry(job[w])
  /\ letters' = [letters EXCEPT ![job[w].flow] = @ + 1]
  /\ wpc' = [wpc EXCEPT ![w] = "batch"]
  /\ job' = [job EXCEPT ![w] = NoJob]
  /\ UNCHANGED <<replaces, jobs, batch, stopping, enqueued, attempts, faults, restarts>>

\* It fails for the last time: DeadLetterQueue.Add records the letter first.
Bury(w) ==
  /\ wpc[w] = "handling" /\ ~ShouldRetry(job[w])
  /\ \/ /\ letters' = [letters EXCEPT ![job[w].flow] = @ + 1]
        /\ wpc' = [wpc EXCEPT ![w] = "burying"]
        /\ UNCHANGED <<job, faults>>
     \/ /\ StoreFails
        /\ wpc' = [wpc EXCEPT ![w] = "batch"]
        /\ job' = [job EXCEPT ![w] = NoJob]
        /\ UNCHANGED letters
  /\ UNCHANGED <<replaces, jobs, batch, stopping, enqueued, attempts, restarts>>

\* ... and then marks the job.
Buried(w) ==
  /\ wpc[w] = "burying"
  /\ Settle(w, [job[w] EXCEPT !.status = "DEAD"])
  /\ UNCHANGED letters

----------------------------------------------------------------------------
(* The process.                                                            *)

Stop ==
  /\ ~stopping /\ stopping' = TRUE
  /\ UNCHANGED <<replaces, jobs, letters, poolVars, enqueued, attempts, faults, restarts>>

\* A crash, or the end of a stopped process, and a new start on the same store.
Restart ==
  /\ ~replaces /\ restarts < MaxRestarts /\ restarts' = restarts + 1
  /\ wpc' = [w \in Workers |-> "idle"]
  /\ batch' = [w \in Workers |-> {}]
  /\ job' = [w \in Workers |-> NoJob]
  /\ stopping' = FALSE
  /\ UNCHANGED <<replaces, jobs, letters, enqueued, attempts, faults>>

Worker(w) ==
  \/ Poll(w) \/ EndBatch(w) \/ Leave(w)
  \/ Begin(w) \/ Complete(w) \/ Retry(w) \/ Bury(w) \/ Buried(w)

Next ==
  \/ \E f \in Flows : Enqueue(f)
  \/ \E c \in Cases : ComesDue(c)
  \/ \E w \in Workers : Worker(w)
  \/ Stop \/ Restart

Spec == Init /\ [][Next]_vars

(***************************************************************************)
(* The workers are scheduled, and time passes.                             *)
(***************************************************************************)
Fairness ==
  /\ \A w \in Workers : WF_vars(Worker(w))
  /\ \A c \in Cases : WF_vars(ComesDue(c))

FairSpec == Spec /\ Fairness

----------------------------------------------------------------------------
(* Properties.                                                             *)

StoreType == jobs \in [Cases -> JobRecord \cup {NoJob}] /\ letters \in [Flows -> Nat]

PoolType ==
  /\ wpc \in [Workers -> {"idle", "batch", "handling", "burying", "gone"}]
  /\ job \in [Workers -> JobRecord \cup {NoJob}]
  /\ \A w \in Workers : wpc[w] \in {"handling", "burying"} => job[w] # NoJob

BatchType == batch \in [Workers -> SUBSET JobRecord]

CountType ==
  /\ replaces \in BOOLEAN /\ stopping \in BOOLEAN /\ enqueued \subseteq Flows
  /\ attempts \in [Flows -> [0..MaxRetries -> Nat]]
  /\ faults \in Nat /\ restarts \in Nat

\* Every variable keeps to its values: no copy, and no record written from one,
\* has more retries than the policy allows.
TypeOK == StoreType /\ PoolType /\ BatchType /\ CountType

InHand(w) == wpc[w] \in {"handling", "burying"}

\* A job marked DEAD has its dead letter, whichever store call failed and
\* whenever the process died.
DeadHasLetter ==
  \A c \in Cases : Has(c, {"DEAD"}) => letters[jobs[c].flow] > 0

\* Nothing ever looks for RUNNING jobs, so none may be left behind: without a
\* failed store call or a crash, a RUNNING job is in the hands of a worker,
\* however many copies of it are about and also while the pool stops.
RunningIsHeld ==
  faults = 0 /\ restarts = 0 =>
    \A c \in Cases : Has(c, {"RUNNING"}) => \E w \in Workers : InHand(w) /\ Case(job[w]) = c

\* How often the handler may be called for a flow: each return of a call with r
\* retries may put one pending record with r + 1 in the store, of which every
\* worker of the pool may poll a copy, but none of them two.
AttemptsBounded ==
  \A f \in Flows :
    /\ attempts[f][0] <= Cardinality(Workers)
    /\ \A r \in 1..MaxRetries :
         attempts[f][r] <= Cardinality(Workers) * attempts[f][r - 1]

\* The workers that handle the job of a flow whose copy has r retries.
Handling(f, r) == {w \in Workers : InHand(w) /\ job[w].flow = f /\ job[w].retries = r}

RunningCalls == [f \in Flows |-> [r \in 0..MaxRetries |-> Cardinality(Handling(f, r))]]

Calls == INSTANCE JobCalls
  WITH PoolSize <- Cardinality(Workers), created <- enqueued, calls <- attempts,
       running <- RunningCalls

\* The queue calls its handler as JobCalls allows: a call with one retry more
\* needs the return of one before it, over either store, with any stale copies.
CallsAllowed == Calls!Spec

\* The record of a case that is pending comes to an end, COMPLETED or DEAD,
\* unless the pool is stopped, a call of the store failed or the process died.
\* The job in it may by then be another one, which replaced the first.
JobsSettle ==
  \A c \in Cases :
    Has(c, {"PENDING"}) ~>
      Has(c, {"COMPLETED", "DEAD"}) \/ stopping \/ faults > 0 \/ restarts > 0

\* What the store holds, as the documents tell it.
StatusOf == [c \in Cases |-> IF jobs[c] = NoJob THEN "NONE" ELSE jobs[c].status]
RetriesOf == [c \in Cases |-> IF jobs[c] = NoJob THEN 0 ELSE jobs[c].retries]

Lifecycle == INSTANCE JobLifecycle WITH status <- StatusOf, retries <- RetriesOf

\* "Job states: PENDING -> RUNNING -> COMPLETED", with retries and DEAD
\* (docs/bpmn-and-bpmn-ai.md:281), and no other way.
JobStates == Lifecycle!Spec
============================================================================
