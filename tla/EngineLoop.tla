---------------------------- MODULE EngineLoop ----------------------------
(***************************************************************************)
(* The engine of internal/engine: one process instance, executed by        *)
(* runLoop.  The goroutine of the loop takes results, decides what they    *)
(* mean for the instance (handleResult) and sends the next flows to a pool *)
(* of workers over a bounded channel; the workers execute elements and     *)
(* send results back over another.  Run starts a case; Continue, called by *)
(* completeTask, by a timer job, by SendMessage or by SendSignal, takes it *)
(* up again in a new loop over a fresh copy of the instance.               *)
(*                                                                         *)
(* Runs of one case do not overlap here: Continue waits for the goroutines *)
(* of the previous loop to be quiet (Quiet).                               *)
(***************************************************************************)
EXTENDS ProcessGraph, InstanceState, Sequences

CONSTANTS Workers,    \* the goroutines of the pool, config.WorkerCount many
          Cap,        \* capacity of workCh and of resultCh (1024 in the code)
          MaxLoops,   \* config.MaxLoops
          MaxFaults,  \* bound: store calls that may fail under a live context
          Timeouts,   \* bound: whether a context may end before its run returns
          MaxRuns     \* bound: runs of the loop, the first one included

ASSUME EngineAssumption ==
  /\ IsFiniteSet(Workers) /\ Workers # {}
  /\ Cap \in Nat \ {0}
  /\ MaxLoops \in Nat \ {0}
  /\ MaxFaults \in Nat /\ Timeouts \in BOOLEAN
  /\ MaxRuns \in Nat

\* Continue must not block while it fills workCh, and an event-based gateway
\* that arms its branches is not part of these processes.
ASSUME ScopeAssumption ==
  /\ \A e \in Elements : Cardinality(Process[e].Outgoing) <= Cap
  /\ \A e \in Of("eventBasedGateway") : Cardinality(Process[e].Outgoing) <= 1

\* A boundary event is not attached to another boundary event: the record of one
\* that is cancelled with what it is attached to looks like that of one taken.
ASSUME BoundaryAssumption ==
  \A e \in Elements :
    Process[e].AttachedToRef # None =>
      Process[Process[e].AttachedToRef].AttachedToRef = None

VARIABLES
  \* the store
  stored,     \* status of the instance record
  flows,      \* flow records, a flow's id is its position
  threads,    \* status of the thread records, by thread index
  jobs,       \* flows whose job the queue may deliver
  \* process.Instance, the copy of this run
  istate,     \* State
  completed,  \* the sync.Once of TryComplete is used up
  threadSeq,  \* threadSeq
  \* locals of runLoop and handleResult
  pc,         \* where the goroutine of the loop is
  outcome,    \* what the last run returned
  cur,        \* the flow whose next flows are being created, 0 for none
  todo,       \* the next elements still to be enqueued
  forked,     \* each of them gets a thread of its own
  pending,    \* pending
  counts,     \* failsafe.elementCounts
  errs,       \* number of errors in errCh
  ctx,        \* execCtx
  workCh, resultCh,
  closed,     \* workCh is closed
  \* the workers
  wpc,        \* where each worker is
  holds,      \* the flow it has taken, 0 for none
  answer,     \* the result it has computed
  \* history of this run
  scheduled,  \* flows put on the pending account
  logged,     \* flows with an execution log entry
  faults,     \* failed store calls and contexts that ended too early
  runs        \* runs begun

storeVars == <<stored, flows, threads, jobs>>
instVars  == <<istate, completed, threadSeq>>
poolVars  == <<wpc, holds, answer>>
vars == <<storeVars, instVars, poolVars, pc, outcome, cur, todo, forked, pending,
          counts, errs, ctx, workCh, resultCh, closed, scheduled, logged, faults, runs>>

FlowStatus == {"ACTIVE", "COMPLETED", "ERROR"}
FlowRecord == [element : Elements, thread : Nat, status : FlowStatus]
FlowID == 1..Len(flows)
NoAnswer == Answer("ROUTE", {})

Quiescent == pc \in {"idle", "returned"}
Gone == \A w \in Workers : wpc[w] = "gone"

CreateFlowRecord(e, thread) == [element |-> e, thread |-> thread, status |-> "ACTIVE"]

Init ==
  /\ stored = "CREATED" /\ istate = "CREATED"
  /\ flows = <<>> /\ threads = <<>> /\ jobs = {}
  /\ completed = FALSE /\ threadSeq = 1
  /\ pc = "idle" /\ outcome = "none" /\ cur = 0 /\ todo = {} /\ forked = FALSE
  /\ pending = 0 /\ counts = [e \in Elements |-> 0] /\ errs = 0 /\ ctx = "live"
  /\ workCh = <<>> /\ resultCh = <<>> /\ closed = FALSE
  /\ wpc = [w \in Workers |-> "gone"]
  /\ holds = [w \in Workers |-> 0]
  /\ answer = [w \in Workers |-> NoAnswer]
  /\ scheduled = {} /\ logged = {}
  /\ faults = 0 /\ runs = 0

----------------------------------------------------------------------------
(* What a run is made of.                                                  *)

\* A store call fails: within the budget, or because its context is done.
CallFails(done) ==
  /\ faults < MaxFaults \/ done
  /\ faults' = faults + 1

StoreFails == CallFails(ctx # "live")

\* A slip: the deferred cancel is forgotten.
ReturnWithoutCancel(verdict) ==
  /\ pc' = "returned"
  /\ outcome' = verdict
  /\ UNCHANGED ctx
  /\ cur' = 0 /\ todo' = {}

\* runLoop returns; its deferred cancel ends execCtx.
Return(verdict) ==
  /\ pc' = "returned"
  /\ outcome' = verdict
  /\ ctx' = IF ctx = "live" THEN "cancelled" ELSE ctx
  /\ cur' = 0 /\ todo' = {}

\* runLoop begins: the pool is started and the initial flows are in workCh.
BeginLoop(items) ==
  /\ workCh' = items /\ resultCh' = <<>> /\ closed' = FALSE
  /\ pending' = Len(items)
  /\ scheduled' = {items[i] : i \in 1..Len(items)} /\ logged' = {}
  /\ wpc' = [w \in Workers |-> "idle"]
  /\ holds' = [w \in Workers |-> 0]
  /\ answer' = [w \in Workers |-> NoAnswer]
  /\ counts' = [e \in Elements |-> 0]
  /\ errs' = 0 /\ ctx' = "live" /\ outcome' = "none"
  /\ pc' = "select" /\ cur' = 0 /\ todo' = {} /\ forked' = FALSE
  /\ runs' = runs + 1

\* CreateThread inserts the record or takes over one with the same index.
CreateThread(index) ==
  IF index <= Len(threads)
  THEN [threads EXCEPT ![index] = "ACTIVE"]
  ELSE Append(threads, "ACTIVE")

----------------------------------------------------------------------------
(* Starting and resuming a case.                                           *)

\* Run: the start event's flow and the first thread; the store may refuse either.
Run ==
  /\ pc = "idle" /\ runs < MaxRuns
  /\ istate' = "IN_PROGRESS"
  /\ \/ /\ flows' = Append(flows, CreateFlowRecord(Start, 1))
        /\ threads' = CreateThread(1)
        /\ BeginLoop(<<Len(flows) + 1>>)
        /\ UNCHANGED faults
     \/ /\ StoreFails
        /\ flows' \in {flows, Append(flows, CreateFlowRecord(Start, 1))}
        /\ Return("error")
        /\ runs' = runs + 1
        /\ UNCHANGED <<threads, poolVars, forked, pending, counts, errs, workCh,
                       resultCh, closed, scheduled, logged>>
  /\ UNCHANGED <<stored, jobs, completed, threadSeq>>

\* A slip: cancelActivity is read the wrong way round.
CancelAttachedInverted(f, table) ==
  LET e == table[f].element IN
  IF Process[e].AttachedToRef # None /\ ~Process[e].CancelActivity
  THEN [i \in DOMAIN table |->
          IF table[i].element = Process[e].AttachedToRef /\ table[i].status = "ACTIVE"
          THEN [table[i] EXCEPT !.status = "COMPLETED"]
          ELSE table[i]]
  ELSE table

\* cancelAttachedFlows: the active flows of the attached activity are completed.
CancelAttached(f, table) ==
  LET e == table[f].element IN
  IF Process[e].AttachedToRef # None /\ Process[e].CancelActivity
  THEN [i \in DOMAIN table |->
          IF table[i].element = Process[e].AttachedToRef /\ table[i].status = "ACTIVE"
          THEN [table[i] EXCEPT !.status = "COMPLETED"]
          ELSE table[i]]
  ELSE table

\* What is left of that when the store refuses some of the updates.
PartlyCancelled(f, table) ==
  LET shut == CancelAttached(f, table) IN
  {[i \in DOMAIN table |-> IF i \in refused THEN table[i] ELSE shut[i]] :
     refused \in SUBSET {i \in DOMAIN table : table[i] # shut[i]}}

\* A flow record for each element of a sequence, all in one thread.
FlowRecords(s, thread) == [i \in DOMAIN s |-> CreateFlowRecord(s[i], thread)]

\* The orders in which the members of a set may be enqueued.
Orders(S) ==
  {s \in [1..Cardinality(S) -> S] : \A i, j \in DOMAIN s : s[i] = s[j] => i = j}

Quiet ==
  /\ pc = "returned" /\ runs < MaxRuns
  /\ \A w \in Workers : wpc[w] \in {"idle", "gone"}

\* Continue returns an error before it enters a loop.
NotResumed ==
  /\ outcome' = "error" /\ runs' = runs + 1
  /\ UNCHANGED <<stored, poolVars, pc, cur, todo, forked, pending, counts, errs, ctx,
                 workCh, resultCh, closed, scheduled, logged>>

\* A flow that leads nowhere: finalize at once.
ContinueAtEnd(f, fault) ==
  LET done == isEndEvent(flows[f].element) IN
  /\ istate' = IF done THEN "COMPLETED" ELSE "IN_PROGRESS"
  /\ completed' = done
  /\ \/ /\ stored' = istate' /\ outcome' = "ok" /\ runs' = runs + 1
        /\ scheduled' = {} /\ logged' = {} /\ pending' = 0
        /\ counts' = [e \in Elements |-> 0]
        /\ workCh' = <<>> /\ resultCh' = <<>>
        /\ wpc' = [w \in Workers |-> "gone"]
        /\ holds' = [w \in Workers |-> 0]
        /\ UNCHANGED <<pc, cur, todo, forked, errs, ctx, closed, answer>>
     \/ fault /\ NotResumed

\* The outgoing flows start a new loop; a failing CreateFlow leaves the records
\* created before it.
ContinueWith(f, table, next, fault) ==
  /\ istate' = "IN_PROGRESS" /\ completed' = FALSE
  /\ \E s \in Orders(next) :
       LET new == FlowRecords(s, table[f].thread) IN
       \/ /\ flows' = table \o new
          /\ BeginLoop([i \in DOMAIN s |-> Len(flows) + i])
          /\ UNCHANGED stored
       \/ /\ fault
          /\ \E k \in 0..(Len(s) - 1) : flows' = table \o SubSeq(new, 1, k)
          /\ NotResumed

(***************************************************************************)
(* Continue(f): the instance is loaded and made IN_PROGRESS, the activity  *)
(* of an interrupting boundary event is cancelled (an update the store     *)
(* refuses is ignored), and every outgoing flow of f's element starts the  *)
(* new loop.  table is the flow table as the caller left it.               *)
(***************************************************************************)
Continue(f, table) ==
  LET next == Process[flows[f].element].Outgoing IN
  /\ Quiet
  /\ threadSeq' = 1
  /\ \/ /\ ~IsValidTransition(stored, "IN_PROGRESS")
        /\ flows' = table /\ istate' = stored /\ completed' = FALSE
        /\ NotResumed
        /\ UNCHANGED faults
     \/ /\ IsValidTransition(stored, "IN_PROGRESS")
        /\ \E fault \in BOOLEAN : \E t \in PartlyCancelled(f, table) :
             /\ fault \/ t = CancelAttached(f, table)
             /\ IF fault THEN CallFails(FALSE) ELSE UNCHANGED faults
             /\ \/ next = {} /\ flows' = t /\ ContinueAtEnd(f, fault)
                \/ next # {} /\ ContinueWith(f, t, next, fault)
  /\ UNCHANGED <<threads, jobs>>

Completed(f) == [flows EXCEPT ![f].status = "COMPLETED"]

\* completeTask of the HTTP API: any active flow, whatever its element is.
CompleteTask(f) ==
  /\ flows[f].status = "ACTIVE"
  /\ Continue(f, Completed(f))

\* The job of a timer fires (JobHandler).  The job stays: the queue may
\* deliver it again.
TimerFires(f) ==
  /\ f \in jobs
  /\ Process[flows[f].element].Type = "timerEvent"
  /\ Continue(f, flows)

\* SendMessage finds an active message catch.
SendMessage(f) ==
  /\ Process[flows[f].element].Type = "messageCatch"
  /\ flows[f].status = "ACTIVE"
  /\ Continue(f, Completed(f))

\* SendSignal, for one of the flows it visits (the status of the case is the one
\* of this visit; the code lists the cases once per broadcast).
SendSignal(f) ==
  /\ Process[flows[f].element].Type = "signalCatch"
  /\ flows[f].status = "ACTIVE"
  /\ stored \notin {"COMPLETED", "TERMINATED", "ERROR"}
  /\ Continue(f, Completed(f))

----------------------------------------------------------------------------
(* A worker of the pool.                                                   *)

\* It takes an item; once execCtx is done it drops the item and leaves.
Take(w) ==
  /\ wpc[w] = "idle" /\ workCh # <<>>
  /\ workCh' = Tail(workCh)
  /\ holds' = [holds EXCEPT ![w] = Head(workCh)]
  /\ wpc' = [wpc EXCEPT ![w] = IF ctx = "live" THEN "executing" ELSE "gone"]
  /\ UNCHANGED <<storeVars, instVars, answer, pc, outcome, cur, todo, forked, pending,
                 counts, errs, ctx, resultCh, closed, scheduled, logged, faults, runs>>

\* A slip: the flow that is being executed, still ACTIVE, is not counted.
OthersIncomingComplete(e) ==
  Cardinality({i \in FlowID : flows[i].element = e /\ flows[i].status = "COMPLETED"})
    >= Process[e].Incoming

\* areAllIncomingComplete: the gateway's flow records that are not in error
\* are counted, whether they were executed or not.
AllIncomingComplete(e) ==
  Cardinality({i \in FlowID : flows[i].element = e /\ flows[i].status # "ERROR"})
    >= Process[e].Incoming

StatusAfter(e, ans) ==
  CASE ans.Action = "ERROR" -> "ERROR"
    [] LeavesActive(e)      -> "ACTIVE"
    [] OTHER                -> "COMPLETED"

\* executeElement.  A join whose flows cannot be read waits.
ExecuteElement(w) ==
  LET f == holds[w]
      e == flows[f].element
  IN
  /\ wpc[w] = "executing"
  /\ \/ /\ UNCHANGED faults
        /\ \E a \in Execute(e, AllIncomingComplete(e)) :
             /\ answer' = [answer EXCEPT ![w] = a]
             /\ flows' = [flows EXCEPT ![f].status = StatusAfter(e, a)]
     \/ /\ Process[e].Type = "parallelGateway" /\ Joins(e)
        /\ StoreFails
        /\ \E a \in Execute(e, FALSE) : answer' = [answer EXCEPT ![w] = a]
        /\ flows' = [flows EXCEPT ![f].status = "COMPLETED"]
  /\ wpc' = [wpc EXCEPT ![w] = "sending"]
  /\ UNCHANGED <<stored, threads, jobs, instVars, holds, pc, outcome, cur, todo, forked,
                 pending, counts, errs, ctx, workCh, resultCh, closed, scheduled, logged,
                 runs>>

\* The send blocks while resultCh is full, whatever becomes of execCtx.
Deliver(w) ==
  /\ wpc[w] = "sending" /\ Len(resultCh) < Cap
  /\ resultCh' = Append(resultCh, [flow |-> holds[w], ans |-> answer[w]])
  /\ holds' = [holds EXCEPT ![w] = 0]
  /\ wpc' = [wpc EXCEPT ![w] = "idle"]
  /\ UNCHANGED <<storeVars, instVars, answer, pc, outcome, cur, todo, forked, pending,
                 counts, errs, ctx, workCh, closed, scheduled, logged, faults, runs>>

\* workCh is closed and drained.
Leave(w) ==
  /\ wpc[w] = "idle" /\ workCh = <<>> /\ closed
  /\ wpc' = [wpc EXCEPT ![w] = "gone"]
  /\ UNCHANGED <<storeVars, instVars, holds, answer, pc, outcome, cur, todo, forked,
                 pending, counts, errs, ctx, workCh, resultCh, closed, scheduled, logged,
                 faults, runs>>

----------------------------------------------------------------------------
(* handleResult, one action per kind of result.                            *)

\* The result at the head of resultCh, its flow and its element.
result == Head(resultCh)
current == result.flow
element == flows[current].element

\* A slip: the limit is compared with > after the count.
ReceivedOneMore(actions) ==
  /\ pc = "select" /\ resultCh # <<>>
  /\ result.ans.Action \in actions
  /\ counts[element] <= MaxLoops
  /\ counts' = [counts EXCEPT ![element] = @ + 1]
  /\ resultCh' = Tail(resultCh)
  /\ UNCHANGED <<poolVars, workCh, runs>>

\* The loop takes the next result, its action is one of these, and FailSafe
\* lets it pass.
Received(actions) ==
  /\ pc = "select" /\ resultCh # <<>>
  /\ result.ans.Action \in actions
  /\ counts[element] < MaxLoops
  /\ counts' = [counts EXCEPT ![element] = @ + 1]
  /\ resultCh' = Tail(resultCh)
  /\ UNCHANGED <<poolVars, workCh, runs>>

\* A slip: the last pending flow is taken for none.
HandledTooEarly(f, left) ==
  /\ pending' = left
  /\ logged' = logged \cup {f}
  /\ cur' = 0 /\ todo' = {}
  /\ pc' = IF left <= 1 THEN "closing" ELSE "select"
  /\ closed' = (closed \/ left <= 1)
  /\ UNCHANGED <<outcome, ctx, scheduled, forked>>

\* handleResult returned nil: the entry is logged, and the loop ends when
\* nothing is pending.
Handled(f, left) ==
  /\ pending' = left
  /\ logged' = logged \cup {f}
  /\ cur' = 0 /\ todo' = {}
  /\ pc' = IF left = 0 THEN "closing" ELSE "select"
  /\ closed' = (closed \/ left = 0)
  /\ UNCHANGED <<outcome, ctx, scheduled, forked>>

\* A slip: pending is decremented by the loop and by handleResult.
EnqueuingCountedTwice(f, S, fork) ==
  /\ pending' = pending - 2
  /\ pc' = "create" /\ cur' = f /\ todo' = S /\ forked' = fork
  /\ UNCHANGED <<outcome, ctx, closed, scheduled, logged>>

\* A slip: the flow that was handled stays on the account.
EnqueuingUncounted(f, S, fork) ==
  /\ pc' = "create" /\ cur' = f /\ todo' = S /\ forked' = fork
  /\ UNCHANGED <<pending, outcome, ctx, closed, scheduled, logged>>

\* handleResult goes on to enqueue the flows in S.
Enqueuing(f, S, fork) ==
  /\ pending' = pending - 1
  /\ pc' = "create" /\ cur' = f /\ todo' = S /\ forked' = fork
  /\ UNCHANGED <<outcome, ctx, closed, scheduled, logged>>

\* handleResult returned an error: runLoop returns without closing workCh.
Failed ==
  /\ Return("error")
  /\ pending' = pending - 1
  /\ UNCHANGED <<closed, scheduled, logged, forked>>

TryComplete ==
  /\ completed' = TRUE
  /\ istate' = IF ~completed /\ IsValidTransition(istate, "COMPLETED")
               THEN "COMPLETED" ELSE istate
  /\ UNCHANGED threadSeq

HandleRoute ==
  LET next == Route(element, result.ans) IN
  /\ Received({"ROUTE"})
  /\ \/ /\ next # {}
        /\ Enqueuing(current, next, Cardinality(next) > 1)
        /\ UNCHANGED instVars
     \/ /\ next = {}
        /\ IF isEndEvent(element) THEN TryComplete ELSE UNCHANGED instVars
        /\ Handled(current, pending - 1)
  /\ UNCHANGED <<storeVars, errs, faults>>

\* Enqueue gives every job of a case the same id.  The new job replaces the old
\* one or is refused, depending on the store; while a worker of the queue holds
\* the old one, both may still be delivered.
Queued(due) ==
  IF due = {} THEN {jobs} ELSE {J \in SUBSET (jobs \cup due) : J # {}}

\* WAIT and FORM: the job of a timer, then the attached boundary events.  A
\* job or a boundary flow the store refuses is logged and forgotten.
HandleWait ==
  LET boundary == BoundaryTimers(element) \cup BoundaryMessages(element) IN
  /\ Received({"WAIT", "FORM"})
  /\ \/ /\ IsValidTransition(istate, "WAITING")
        /\ istate' = "WAITING"
        /\ \E unarmed \in SUBSET boundary : \E s \in Orders(boundary \ unarmed) :
             LET due == {Len(flows) + i : i \in {k \in DOMAIN s : s[k] \in Of("timerEvent")}}
                          \cup (IF result.ans.ContinueAt THEN {current} ELSE {})
             IN \E lost \in SUBSET due :
                  /\ flows' = flows \o FlowRecords(s, flows[current].thread)
                  /\ jobs' \in Queued(due \ lost)
                  /\ IF unarmed = {} /\ lost = {} THEN UNCHANGED faults ELSE StoreFails
        /\ Handled(current, pending - 1)
     \/ /\ ~IsValidTransition(istate, "WAITING")
        /\ Failed
        /\ UNCHANGED <<istate, flows, jobs, faults>>
  /\ UNCHANGED <<stored, threads, completed, threadSeq, errs>>

\* The error is put on errCh and read back by the loop, which returns it.
HandleError ==
  /\ Received({"ERROR"})
  /\ \/ /\ IsValidTransition(istate, "ERROR")
        /\ errs < Cardinality(Workers)
        /\ istate' = "ERROR"
        /\ Return("error")
        /\ pending' = pending - 1
        /\ logged' = logged \cup {current}
        /\ UNCHANGED <<closed, scheduled, forked>>
     \/ /\ ~IsValidTransition(istate, "ERROR")
        /\ Failed
        /\ UNCHANGED istate
  /\ UNCHANGED <<storeVars, completed, threadSeq, errs, faults>>

HandleComplete ==
  /\ Received({"COMPLETE"})
  /\ TryComplete
  /\ Handled(current, pending - 1)
  /\ UNCHANGED <<storeVars, errs, faults>>

\* An error event: its catch is enqueued; uncaught, the error goes to errCh
\* and the loop goes on.
HandleThrowError ==
  LET catch == findErrorCatch(element) IN
  /\ Received({"THROW_ERROR"})
  /\ \/ /\ \E c \in catch : Enqueuing(current, {c}, FALSE)
        /\ UNCHANGED <<istate, errs>>
     \/ /\ catch = {} /\ IsValidTransition(istate, "ERROR")
        /\ errs < Cardinality(Workers)
        /\ istate' = "ERROR" /\ errs' = errs + 1
        /\ Handled(current, pending - 1)
     \/ /\ catch = {} /\ ~IsValidTransition(istate, "ERROR")
        /\ Failed
        /\ UNCHANGED <<istate, errs>>
  /\ UNCHANGED <<storeVars, completed, threadSeq, faults>>

\* The threads are closed, but for those the store fails on, and the loop is
\* left with an error.
HandleTerminate ==
  /\ Received({"TERMINATE"})
  /\ Failed
  /\ \/ /\ IsValidTransition(istate, "TERMINATED")
        /\ istate' = "TERMINATED"
        /\ \E shut \in SUBSET DOMAIN threads :
             /\ threads' = [i \in DOMAIN threads |-> IF i \in shut THEN "CLOSED" ELSE threads[i]]
             /\ IF shut = DOMAIN threads THEN UNCHANGED faults ELSE StoreFails
     \/ /\ ~IsValidTransition(istate, "TERMINATED")
        /\ UNCHANGED <<istate, threads, faults>>
  /\ UNCHANGED <<stored, flows, jobs, completed, threadSeq, errs>>

\* The called process, flattened beside the caller, is entered at its start;
\* one that cannot be loaded or has no start fails.
HandleCallActivity ==
  /\ Received({"CALL_ACTIVITY"})
  /\ \/ /\ Process[element].CalledStart # None
        /\ Enqueuing(current, {Process[element].CalledStart}, FALSE)
        /\ UNCHANGED faults
     \/ StoreFails /\ Failed
  /\ UNCHANGED <<storeVars, instVars, errs>>

\* A job is created for the element and the flow goes on at once.
HandleQueue ==
  LET next == Route(element, result.ans) IN
  /\ Received({"QUEUE"})
  /\ \/ jobs' \in Queued({current}) /\ UNCHANGED faults
     \/ StoreFails /\ UNCHANGED jobs
  /\ IF next # {} THEN Enqueuing(current, next, FALSE)
                  ELSE Handled(current, pending - 1)
  /\ UNCHANGED <<stored, flows, threads, instVars, errs>>

\* enqueueFlow, first half: thread and flow record, then the pending account.
CreateFlow ==
  /\ pc = "create"
  /\ \E e \in todo :
       LET thread == IF forked THEN threadSeq + 1 ELSE flows[cur].thread IN
       /\ threadSeq' = IF forked THEN threadSeq + 1 ELSE threadSeq
       /\ \/ /\ flows' = Append(flows, CreateFlowRecord(e, thread))
             /\ threads' = IF forked THEN CreateThread(thread) ELSE threads
             /\ pending' = pending + 1
             /\ scheduled' = scheduled \cup {Len(flows) + 1}
             /\ todo' = todo \ {e}
             /\ pc' = "send"
             /\ UNCHANGED <<outcome, ctx, cur, faults>>
          \/ /\ StoreFails
             /\ threads' \in {threads, IF forked THEN CreateThread(thread) ELSE threads}
             /\ Return("error")
             /\ UNCHANGED <<flows, pending, scheduled>>
  /\ UNCHANGED <<stored, jobs, istate, completed, poolVars, forked, counts, errs, workCh,
                 resultCh, closed, logged, runs>>

\* enqueueFlow, second half: the newest flow goes to workCh, or execCtx ends.
SendFlow ==
  /\ pc = "send"
  /\ \/ /\ Len(workCh) < Cap
        /\ workCh' = Append(workCh, Len(flows))
        /\ IF todo = {}
           THEN Handled(cur, pending)
           ELSE /\ pc' = "create"
                /\ UNCHANGED <<outcome, cur, todo, forked, pending, ctx, closed,
                               scheduled, logged>>
     \/ /\ ctx # "live"
        /\ Return("error")
        /\ UNCHANGED <<workCh, forked, pending, closed, scheduled, logged>>
  /\ UNCHANGED <<storeVars, instVars, poolVars, counts, errs, resultCh, faults, runs>>

----------------------------------------------------------------------------
(* The other branches of the loop, and its ends.                           *)

\* FailSafe.Check refuses the result: too many executions, or too late.
FailSafe ==
  /\ pc = "select" /\ resultCh # <<>>
  /\ resultCh' = Tail(resultCh)
  /\ pending' = pending - 1
  /\ \/ ctx = "deadline" /\ UNCHANGED counts
     \/ counts[element] >= MaxLoops /\ counts' = [counts EXCEPT ![element] = @ + 1]
  /\ istate' = IF IsValidTransition(istate, "ERROR") THEN "ERROR" ELSE istate
  /\ pc' = "failsafe" /\ closed' = TRUE
  /\ UNCHANGED <<storeVars, completed, threadSeq, poolVars, outcome, cur, todo, forked,
                 errs, ctx, workCh, scheduled, logged, faults, runs>>

\* A slip: workCh is left open when execCtx ends.
ContextDoneStillOpen ==
  /\ pc = "select" /\ ctx # "live"
  /\ pc' = "ctxdone"
  /\ UNCHANGED <<storeVars, instVars, poolVars, outcome, cur, todo, forked, pending,
                 counts, errs, ctx, workCh, resultCh, closed, scheduled, logged, faults,
                 runs>>

\* case <-execCtx.Done()
ContextDone ==
  /\ pc = "select" /\ ctx # "live"
  /\ pc' = "ctxdone" /\ closed' = TRUE
  /\ UNCHANGED <<storeVars, instVars, poolVars, outcome, cur, todo, forked, pending,
                 counts, errs, ctx, workCh, resultCh, scheduled, logged, faults, runs>>

\* case err := <-errCh
ErrorReceived ==
  /\ pc = "select" /\ errs > 0
  /\ errs' = errs - 1
  /\ Return("error")
  /\ UNCHANGED <<storeVars, instVars, poolVars, forked, pending, counts, workCh, resultCh,
                 closed, scheduled, logged, faults, runs>>

\* wg.Wait is over: the instance is stored under the context of the caller, or
\* the run ends with the error of the store.
Finalize ==
  /\ pc = "closing" /\ Gone
  /\ \/ stored' = istate /\ Return("ok") /\ UNCHANGED faults
     \/ CallFails(ctx = "cancelled") /\ Return("error") /\ UNCHANGED stored
  /\ UNCHANGED <<flows, threads, jobs, instVars, poolVars, forked, pending, counts, errs,
                 workCh, resultCh, closed, scheduled, logged, runs>>

FailSafeReturn ==
  /\ pc = "failsafe" /\ Gone
  /\ Return("error")
  /\ UNCHANGED <<storeVars, instVars, poolVars, forked, pending, counts, errs, workCh,
                 resultCh, closed, scheduled, logged, faults, runs>>

ContextReturn ==
  /\ pc = "ctxdone" /\ Gone
  /\ istate' = IF ctx = "deadline" /\ IsValidTransition(istate, "ERROR")
               THEN "ERROR" ELSE istate
  /\ Return("error")
  /\ UNCHANGED <<storeVars, completed, threadSeq, poolVars, forked, pending, counts, errs,
                 workCh, resultCh, closed, scheduled, logged, faults, runs>>

----------------------------------------------------------------------------
(* The environment.                                                        *)

\* The execution timeout of the engine expires, or the caller gives up.
ContextEnds(how) ==
  /\ Timeouts /\ ~Quiescent /\ ctx = "live"
  /\ ctx' = how
  /\ faults' = faults + 1
  /\ UNCHANGED <<storeVars, instVars, poolVars, pc, outcome, cur, todo, forked, pending,
                 counts, errs, workCh, resultCh, closed, scheduled, logged, runs>>

Deadline == ContextEnds("deadline")
Cancel == ContextEnds("cancelled")

----------------------------------------------------------------------------
Resume ==
  \E f \in FlowID : CompleteTask(f) \/ TimerFires(f) \/ SendMessage(f) \/ SendSignal(f)

Worker(w) == Take(w) \/ ExecuteElement(w) \/ Deliver(w) \/ Leave(w)

HandleResult ==
  \/ HandleRoute \/ HandleWait \/ HandleError \/ HandleComplete \/ HandleThrowError
  \/ HandleTerminate \/ HandleCallActivity \/ HandleQueue \/ CreateFlow \/ SendFlow

Loop ==
  \/ HandleResult \/ FailSafe \/ ContextDone \/ ErrorReceived
  \/ Finalize \/ FailSafeReturn \/ ContextReturn

\* Nothing runs, and nobody has to come back to the case.
Rest == Quiescent /\ UNCHANGED vars

Next ==
  \/ Run \/ Resume \/ Rest
  \/ \E w \in Workers : Worker(w)
  \/ Loop
  \/ Deadline \/ Cancel

Spec == Init /\ [][Next]_vars

(***************************************************************************)
(* The goroutines are scheduled, and time passes: a live run meets its     *)
(* deadline unless it ends before.  Nobody has to cancel or to resume.     *)
(***************************************************************************)
Fairness ==
  /\ WF_vars(Loop) /\ WF_vars(Deadline)
  /\ \A w \in Workers : WF_vars(Worker(w))

FairSpec == Spec /\ Fairness

----------------------------------------------------------------------------
(* Properties.                                                             *)

StoreType ==
  /\ stored \in State
  /\ flows \in Seq(FlowRecord)
  /\ threads \in Seq({"ACTIVE", "CLOSED"})
  /\ jobs \subseteq FlowID

InstanceType ==
  istate \in State /\ completed \in BOOLEAN /\ threadSeq \in Nat

LoopType ==
  /\ pc \in {"idle", "select", "create", "send", "closing", "failsafe", "ctxdone", "returned"}
  /\ outcome \in {"none", "ok", "error"}
  /\ cur \in FlowID \cup {0} /\ todo \subseteq Elements /\ forked \in BOOLEAN
  /\ pending \in Nat /\ errs \in Nat
  /\ ctx \in {"live", "deadline", "cancelled"}
  /\ scheduled \subseteq FlowID /\ logged \subseteq FlowID

ChannelType ==
  /\ workCh \in Seq(FlowID) /\ closed \in BOOLEAN
  /\ resultCh \in Seq([flow : FlowID, ans : ExecutionResult])

PoolType ==
  /\ wpc \in [Workers -> {"idle", "executing", "sending", "gone"}]
  /\ holds \in [Workers -> FlowID \cup {0}]
  /\ answer \in [Workers -> ExecutionResult]

CounterType ==
  counts \in [Elements -> Nat] /\ faults \in Nat /\ runs \in Nat

\* Every variable keeps to its values: flow ids name records, and pending never
\* falls below 0.
TypeOK ==
  /\ StoreType /\ InstanceType /\ LoopType
  /\ ChannelType /\ PoolType /\ CounterType

\* The workers that hold a flow, dropped ones included.
Busy == {w \in Workers : holds[w] # 0}

\* While a loop runs, pending counts exactly the flows that are in one of the
\* channels, in the hands of a worker, or created and not yet sent: the test
\* pending = 0 that ends runLoop can neither come too early nor be missed.
PendingAccount ==
  ~Quiescent =>
    pending = Len(workCh) + Cardinality(Busy) + Len(resultCh)
                + (IF pc = "send" THEN 1 ELSE 0)

\* When Run or Continue returns nil, every flow record the run scheduled was
\* executed and has its execution log entry, and no goroutine is left with
\* work: neither an early close of workCh nor a dropped item loses a branch.
NoWorkLost ==
  outcome = "ok" =>
    /\ workCh = <<>> /\ resultCh = <<>> /\ Busy = {}
    /\ scheduled \subseteq logged

\* The loop is sender and receiver of errCh: an error is only ever sent when
\* no other one is unread, so the send in handleResult never blocks, however
\* many branches fail.
ErrorChannelHasRoom ==
  ~Quiescent /\ errs > 0 => errs = 1 /\ istate = "ERROR"

\* Once the loop has received as many results of a converging parallel gateway
\* as it has incoming flows, and nothing failed, one of them has routed on: no
\* order of arrivals, executions and results makes every one of them wait.
JoinFires ==
  faults = 0 /\ pc \notin {"create", "send"} =>
    \A e \in Of("parallelGateway") :
      /\ Joins(e) /\ Process[e].Outgoing # {}
      /\ Process[e].Incoming \in 1..counts[e] /\ counts[e] <= MaxLoops
      => \E i \in scheduled : flows[i].element \in Process[e].Outgoing

\* No element gets a logged execution beyond MaxLoops in one run, whichever
\* branches race to it.
LoopsBounded ==
  \A e \in Elements : Cardinality({i \in logged : flows[i].element = e}) <= MaxLoops

\* A case stored as COMPLETED stays COMPLETED, whoever tries to resume it: a
\* late boundary timer, a second completion, a signal.
CompletedIsFinal == [][stored = "COMPLETED" => stored' = "COMPLETED"]_vars

\* When the message of an interrupting boundary event was taken, no flow of its
\* activity that was open at the time can be continued any more: it is closed, or
\* the case cannot be taken up again.
InterruptedIsClosed ==
  faults = 0 /\ IsValidTransition(stored, "IN_PROGRESS") => \A b \in FlowID :
    LET e == flows[b].element IN
    /\ e \in Of("messageCatch") /\ Process[e].CancelActivity
    /\ flows[b].status = "COMPLETED"
    => \A i \in 1..b : flows[i].element = Process[e].AttachedToRef
                         => flows[i].status # "ACTIVE"

\* Once runLoop has returned, however it ended, no worker of its pool starts on
\* another element.
PoolStopsWithLoop ==
  [][pc = "returned" /\ pc' = "returned" =>
       \A w \in Workers : wpc'[w] = "executing" => wpc[w] = "executing"]_vars

\* e leads to x and nowhere else, directly or by a sequence flow.
LeadsTo(e, x) ==
  \/ Process[e].Outgoing = {x}
  \/ \E s \in Of("sequenceFlow") : Process[e].Outgoing = {s} /\ Process[s].Outgoing = {x}

\* The user tasks and the boundary events that interrupt them meet at one gateway,
\* which waits for no more flows than there are tasks and leads to an end event.
TasksMeetAt(join, end) ==
  /\ Process[join].Incoming <= Cardinality(Of("userTask"))
  /\ LeadsTo(join, end) /\ Process[end].Filter = {}
  /\ \A e \in Elements :
       \/ Process[e].Type = "userTask"
       \/ Process[e].AttachedToRef \in Of("userTask") /\ Process[e].CancelActivity
       => LeadsTo(e, join)

\* There is such a gateway, and only the ends of the process lead nowhere.  (An
\* error event must lead on: completeTask, called for one that an aborted run left
\* unexecuted and that leads nowhere, stores IN_PROGRESS, which nothing resumes.)
TasksMeet ==
  /\ Of("userTask") # {} /\ \A t \in Of("userTask") : Process[t].AttachedToRef = None
  /\ \E join \in Of("parallelGateway"), end \in Of("endEvent") : TasksMeetAt(join, end)
  /\ \A e \in Elements :
       \/ isEndEvent(e)
       \/ /\ Process[e].Outgoing # {}
          /\ Process[e].Filter # {} => Process[e].Filter \cap Process[e].Outgoing # {}

\* Once every user task was completed, with no fault on the way, a case whose
\* tasks meet is COMPLETED: the aborted first run of parallel user tasks (WAITING
\* cannot be entered twice) loses none of the branches.
TasksCompleteCase ==
  LET tasks == {i \in FlowID : flows[i].element \in Of("userTask")} IN
  /\ TasksMeet
  /\ Quiescent /\ faults = 0
  /\ {flows[i].element : i \in tasks} = Of("userTask")
  /\ \A i \in tasks : flows[i].status = "COMPLETED"
  => stored = "COMPLETED"

\* runLoop returns, however its select chooses and however many branches fail: it
\* reaches its end, its loop limit or its deadline.  (A worker may stay: after an
\* error return nobody closes workCh, and it waits there for ever.)
RunReturns == ~Quiescent ~> Quiescent

----------------------------------------------------------------------------
(* What the documents say and the code does not do.                        *)

\* A terminated case is terminal (docs/bpmn-and-bpmn-ai.md:235).
TerminatedIsFinal == [][istate = "TERMINATED" => istate' = "TERMINATED"]_vars

\* What a run decides about the case is the status of the case: TERMINATED for
\* a terminate event, ERROR for an error (docs/bpmn-and-bpmn-ai.md:167-168).
OutcomeIsStored ==
  pc = "returned" /\ istate \in {"TERMINATED", "ERROR"} => stored = istate

\* COMPLETED: all threads finished successfully (wiki/Architecture.md:72).
CompletedMeansFinished ==
  stored = "COMPLETED" =>
    \A i \in FlowID : flows[i].element \in Of("userTask") => flows[i].status # "ACTIVE"

\* A converging parallel gateway waits for all its incoming flows
\* (docs/bpmn-and-bpmn-ai.md:51), so it goes on once.
JoinRoutesOnce ==
  \A e \in Of("endEvent") : Cardinality({i \in FlowID : flows[i].element = e}) <= 1

\* The end event completes the case (docs/bpmn-and-bpmn-ai.md:165).
EndCompletes ==
  outcome = "ok" /\ (\E i \in logged : flows[i].element \in Of("endEvent"))
    => stored = "COMPLETED"

\* A timer goes on by the job queue once it fires (wiki/BPMN-Elements.md:29): a
\* run that parks one has left it a job.
TimersAreArmed ==
  outcome = "ok" /\ faults = 0 =>
    \A i \in logged : flows[i].element \in Of("timerEvent")
                      /\ Process[flows[i].element].TimerValue = "valid" => i \in jobs
============================================================================
