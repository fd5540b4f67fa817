---------------------------- MODULE Continuation ----------------------------
(***************************************************************************)
(* Several callers at one waiting case.  The handlers completeTask and     *)
(* claimTask (api/http/handlers.go), SendMessage, SendSignal and the timer *)
(* jobs (internal/engine/engine.go) read a flow record, write it back some *)
(* steps later, and take the case up again with Continue, each on a copy   *)
(* of the instance record that it stores as a whole when its run ends.     *)
(* Nothing keeps two callers apart.                                        *)
(*                                                                         *)
(* The loop of one run is coarse here: one step for an executed element    *)
(* and one for its result, in any order.  Its channels and workers are the *)
(* subject of EngineLoop.                                                  *)
(***************************************************************************)
EXTENDS ProcessGraph, InstanceState, Sequences

CONSTANTS Callers,     \* the goroutines that serve requests and jobs
          Openings,    \* the elements that wait when the callers arrive
          Refused,     \* elements whose requests bring a variable sanitizeVariables
                       \* refuses: its name is not an identifier, it is nested too deep
          MaxSize,     \* the 1 MB of a case, in variables of requests
          MaxCalls,    \* bound: requests and jobs served
          MaxFaults,   \* bound: store calls that fail, runs that end in an error
          MaxCrashes   \* bound: crashes of the process

ASSUME ContinuationAssumption ==
  /\ IsFiniteSet(Callers)
  /\ Openings \subseteq Seq(Elements)
  /\ Refused \subseteq Elements /\ MaxSize \in Nat
  /\ MaxCalls \in Nat /\ MaxFaults \in Nat /\ MaxCrashes \in Nat

\* What may lie behind a waiting element here; the rest is in EngineLoop.  Boundary
\* events are attached to tasks, as BPMN has it.
Task == {"userTask", "scriptTask", "aiTask"}

ASSUME Continuable ==
  \A e \in Elements :
    /\ Process[e].Type \in Task \cup {"messageCatch", "signalCatch", "timerEvent",
                                     "parallelGateway", "eventBasedGateway", "endEvent"}
    /\ Process[e].AttachedToRef # None => Process[Process[e].AttachedToRef].Type \in Task

VARIABLES
  shared,     \* flow records are pointers into the store (memory store), or
              \* copies of rows (SQL store); fixed by the deployment
  stored,     \* the instance record
  flows,      \* flow records, a flow's id is its position
  jobs,       \* flows whose timer job the queue may deliver, also again
  at,         \* where each caller is
  call,       \* what it does: the kind of request
  target,     \* the flow it is about, 0 for none
  copy,       \* process.Instance: its copy of the instance
  once,       \* the sync.Once of its copy is used up
  closing,    \* flows that cancelAttachedFlows has listed and not yet written
  listed,     \* flows that SendSignal has listed and not yet visited
  work,       \* flows its run has created and not yet executed
  results,    \* answers of executed elements, not yet handled
  \* history
  continued,  \* by flow: continuations that went on behind it
  raced,      \* flows that two callers had in hand between read and write
  kept,       \* flows whose request was stored with its variable
  executed,   \* flows whose element was executed
  dropped,    \* executed flows whose answer the store spoiled or a run lost
  overlap,    \* two continuations have overlapped
  calls, faults, crashes

caseVars == <<stored, flows, jobs>>
runVars == <<copy, once, closing, work, results>>
callVars == <<at, call, target, listed>>
histVars == <<continued, raced, kept, executed, dropped, overlap>>
bounds == <<calls, faults, crashes>>
vars == <<shared, caseVars, callVars, runVars, histVars, bounds>>

FlowStatus == {"ACTIVE", "COMPLETED", "ERROR"}
FlowRecord == [element : Elements, status : FlowStatus]
FlowID == 1..Len(flows)
Terminal == {"COMPLETED", "TERMINATED", "ERROR"}

\* The fields of the record a run takes along: its status, the variables of the
\* event-based gateway, and the flows whose requests' variables it holds.
InstanceRecord ==
  [Status : State, Armed : Elements \cup {None}, Resolved : BOOLEAN,
   Winner : Elements \cup {None}, Variables : SUBSET Nat]

NewInstance ==
  [Status |-> "CREATED", Armed |-> None, Resolved |-> FALSE, Winner |-> None,
   Variables |-> {}]

CreateFlowRecord(e) == [element |-> e, status |-> "ACTIVE"]

\* A first run has created the open flows; it may have ended in an error, so
\* the record is still the one startCase created, or it waits.
Init ==
  /\ \E opening \in Openings :
       /\ flows = [i \in DOMAIN opening |-> CreateFlowRecord(opening[i])]
       /\ jobs = {i \in DOMAIN opening : Process[opening[i]].Type = "timerEvent"}
       /\ continued = [i \in DOMAIN opening |-> 0]
  /\ shared \in BOOLEAN
  /\ stored \in {NewInstance, [NewInstance EXCEPT !.Status = "WAITING"]}
  /\ at = [c \in Callers |-> "idle"]
  /\ call = [c \in Callers |-> "none"]
  /\ target = [c \in Callers |-> 0]
  /\ copy = [c \in Callers |-> NewInstance]
  /\ once = [c \in Callers |-> FALSE]
  /\ closing = [c \in Callers |-> {}]
  /\ listed = [c \in Callers |-> {}]
  /\ work = [c \in Callers |-> {}]
  /\ results = [c \in Callers |-> {}]
  /\ raced = {} /\ kept = {} /\ executed = {} /\ dropped = {} /\ overlap = FALSE
  /\ calls = 0 /\ faults = 0 /\ crashes = 0

----------------------------------------------------------------------------
(* Requests: a flow is read and, some steps later, written.                *)

Disturbance == faults < MaxFaults /\ faults' = faults + 1

\* A call of the SQL store may fail; the memory store has no error to give.
StoreFails == ~shared /\ Disturbance

\* The flows a caller has read, or still holds, and will write.  SendSignal reads
\* the status from its list: from records that are live, or from copies of rows.
InHand(c) ==
  (IF at[c] = "checked" THEN {target[c]} ELSE {}) \cup closing[c]
    \cup (IF shared THEN work[c] ELSE listed[c])

\* Caller c reads the flows of S in order to write them.
Reads(c, S) ==
  raced' = raced \cup {f \in S : \E d \in Callers \ {c} : f \in InHand(d)}

\* A slip: the status of the flow is not looked at.
ServesAnyStatus(kind, f) ==
  kind = "message" => Process[flows[f].element].Type = "messageCatch"

\* What a request is served for: completeTask and claimTask take any active flow,
\* SendMessage an active message catch.
Serves(kind, f) ==
  /\ flows[f].status = "ACTIVE"
  /\ kind = "message" => Process[flows[f].element].Type = "messageCatch"

\* The status is checked.  A request that is refused changes nothing.
Check(c) ==
  /\ at[c] = "idle" /\ calls < MaxCalls
  /\ \E f \in FlowID, kind \in {"complete", "claim", "message"} :
       /\ Serves(kind, f)
       /\ call' = [call EXCEPT ![c] = kind]
       /\ target' = [target EXCEPT ![c] = f]
       /\ Reads(c, {f})
  /\ at' = [at EXCEPT ![c] = "checked"]
  /\ calls' = calls + 1
  /\ UNCHANGED <<caseVars, runVars, listed, continued, kept, executed, dropped, overlap,
                 faults, crashes>>

\* The caller is done with a flow; a broadcast goes on to the flows of rest.
Leave(c, rest) ==
  /\ at' = [at EXCEPT ![c] = IF rest = {} THEN "idle" ELSE "visiting"]
  /\ call' = [call EXCEPT ![c] = IF rest = {} THEN "none" ELSE "signal"]
  /\ target' = [target EXCEPT ![c] = 0]
  /\ listed' = [listed EXCEPT ![c] = rest]
  /\ copy' = [copy EXCEPT ![c] = NewInstance]
  /\ once' = [once EXCEPT ![c] = FALSE]
  /\ closing' = [closing EXCEPT ![c] = {}]
  /\ work' = [work EXCEPT ![c] = {}]
  /\ results' = [results EXCEPT ![c] = {}]

\* SendSignal lists the cases, once: one that is over is passed by.
SendSignal(c) ==
  /\ at[c] = "idle" /\ calls < MaxCalls
  /\ stored.Status \notin Terminal
  /\ at' = [at EXCEPT ![c] = "broadcasting"]
  /\ call' = [call EXCEPT ![c] = "signal"]
  /\ calls' = calls + 1
  /\ UNCHANGED <<caseVars, target, listed, runVars, histVars, faults, crashes>>

\* It comes to the case and lists its flows, once; which of them are active is
\* what the rows say now, or what the records will say when it comes to them.
ListFlows(c) ==
  LET found == {i \in FlowID : /\ Process[flows[i].element].Type = "signalCatch"
                               /\ shared \/ flows[i].status = "ACTIVE"}
  IN
  /\ at[c] = "broadcasting"
  /\ Leave(c, found)
  /\ IF shared THEN UNCHANGED raced ELSE Reads(c, found)
  /\ UNCHANGED <<caseVars, continued, kept, executed, dropped, overlap, bounds>>

\* The next flow of the broadcast.
Visit(c) ==
  /\ at[c] = "visiting"
  /\ \E f \in listed[c] :
       \/ /\ ~shared \/ flows[f].status = "ACTIVE"
          /\ at' = [at EXCEPT ![c] = "checked"]
          /\ target' = [target EXCEPT ![c] = f]
          /\ listed' = [listed EXCEPT ![c] = @ \ {f}]
          /\ Reads(c, {f})
          /\ UNCHANGED <<call, runVars>>
       \/ /\ shared /\ flows[f].status # "ACTIVE"
          /\ Leave(c, listed[c] \ {f})
          /\ UNCHANGED raced
  /\ UNCHANGED <<caseVars, continued, kept, executed, dropped, overlap, bounds>>

\* The flow is written: claimTask leaves it ACTIVE, the others complete it and
\* go on to Continue.
UpdateFlow(c) ==
  /\ at[c] = "checked"
  /\ flows' = [flows EXCEPT ![target[c]].status =
                 IF call[c] = "claim" THEN "ACTIVE" ELSE "COMPLETED"]
  /\ IF call[c] = "claim"
     THEN Leave(c, {})
     ELSE /\ at' = [at EXCEPT ![c] = "accepted"]
          /\ UNCHANGED <<call, target, listed, runVars>>
  /\ UNCHANGED <<stored, jobs, histVars, bounds>>

\* A slip: the job does not carry its flow.
TimerFiresBlind(c) ==
  /\ at[c] = "idle" /\ calls < MaxCalls /\ jobs # {}
  /\ call' = [call EXCEPT ![c] = "timer"]
  /\ at' = [at EXCEPT ![c] = "accepted"]
  /\ calls' = calls + 1
  /\ UNCHANGED <<caseVars, target, listed, runVars, histVars, faults, crashes>>

\* A timer job is delivered: Continue is called with no look at the flow.
TimerFires(c) ==
  /\ at[c] = "idle" /\ calls < MaxCalls
  /\ \E f \in jobs : target' = [target EXCEPT ![c] = f]
  /\ call' = [call EXCEPT ![c] = "timer"]
  /\ at' = [at EXCEPT ![c] = "accepted"]
  /\ calls' = calls + 1
  /\ UNCHANGED <<caseVars, listed, runVars, histVars, faults, crashes>>

----------------------------------------------------------------------------
(* Continue.                                                               *)

Continuing(c) == at[c] \in {"loaded", "cancelling", "running"}

\* The variable a request brings along; a timer job brings none.
Brings(c) == IF call[c] = "timer" THEN {} ELSE {target[c]}

Sane(owners) == {f \in owners : flows[f].element \notin Refused}

\* As many of them as the limit lets through.
Few(owners) == {V \in SUBSET Sane(owners) : Cardinality(V) = MaxSize}

\* inst with few of the variables of requests, and without those of its gateway
\* that are lost.
Reduced(inst, few, lost) ==
  [inst EXCEPT !.Variables = few,
               !.Armed = IF "armed" \in lost THEN None ELSE @,
               !.Resolved = @ /\ "resolved" \notin lost,
               !.Winner = IF "winner" \in lost THEN None ELSE @]

Reductions(inst) ==
  {Reduced(inst, few, lost) :
     few \in Few(inst.Variables), lost \in SUBSET {"armed", "resolved", "winner"}}

\* sanitizeVariables, on the record of the store: refused variables are dropped,
\* and what comes after the limit in the order of the map, be it variables of
\* requests or of a gateway.
Sanitized(inst) ==
  IF Cardinality(Sane(inst.Variables)) <= MaxSize
  THEN {[inst EXCEPT !.Variables = Sane(inst.Variables)]}
  ELSE Reductions(inst)

\* GetInstance, the copy with the variables of the request, the transition to
\* IN_PROGRESS.
Load(c) ==
  /\ at[c] = "accepted"
  /\ IF IsValidTransition(stored.Status, "IN_PROGRESS")
     THEN /\ \E inst \in Sanitized(stored) :
               copy' = [copy EXCEPT ![c] =
                          [inst EXCEPT !.Status = "IN_PROGRESS",
                                       !.Variables = @ \cup Brings(c)]]
          /\ at' = [at EXCEPT ![c] = "loaded"]
          /\ overlap' = (overlap \/ \E d \in Callers : Continuing(d))
          /\ UNCHANGED <<call, target, listed, once, closing, work, results>>
     ELSE Leave(c, listed[c]) /\ UNCHANGED overlap
  /\ UNCHANGED <<caseVars, continued, raced, kept, executed, dropped, bounds>>

element(c) == flows[target[c]].element

Interrupts(c) ==
  Process[element(c)].AttachedToRef # None /\ Process[element(c)].CancelActivity

\* cancelAttachedFlows lists the active flows of the activity it interrupts; if
\* the store has no answer, it cancels none.
Interrupt(c) ==
  LET open == {i \in FlowID : flows[i].element = Process[element(c)].AttachedToRef
                              /\ flows[i].status = "ACTIVE"}
  IN
  /\ at[c] = "loaded" /\ Interrupts(c)
  /\ \/ /\ closing' = [closing EXCEPT ![c] = open]
        /\ Reads(c, open)
        /\ UNCHANGED faults
     \/ StoreFails /\ UNCHANGED <<closing, raced>>
  /\ at' = [at EXCEPT ![c] = "cancelling"]
  /\ UNCHANGED <<caseVars, call, target, listed, copy, once, work, results, continued, kept,
                 executed, dropped, overlap, calls, crashes>>

\* It completes them one by one; an update that fails is ignored.
CancelOne(c) ==
  /\ at[c] = "cancelling"
  /\ \E f \in closing[c] :
       /\ closing' = [closing EXCEPT ![c] = @ \ {f}]
       /\ \/ flows' = [flows EXCEPT ![f].status = "COMPLETED"] /\ UNCHANGED faults
          \/ StoreFails /\ UNCHANGED flows
  /\ UNCHANGED <<stored, jobs, callVars, copy, once, work, results, histVars, calls, crashes>>

\* CheckAndResolve: the first element of the case to come wins an armed gateway.
Passes(inst, e) == inst.Armed = None \/ ~inst.Resolved \/ inst.Winner = e

Resolved(inst, e) ==
  IF inst.Armed = None \/ inst.Resolved THEN inst
  ELSE [inst EXCEPT !.Resolved = TRUE, !.Winner = e]

\* TryComplete, once per copy: a transition that is refused uses it up as well.
Finished(c, inst) ==
  IF ~once[c] /\ IsValidTransition(inst.Status, "COMPLETED")
  THEN [inst EXCEPT !.Status = "COMPLETED"]
  ELSE inst

\* The orders in which flow records for the elements of S may be created.
Orders(S) ==
  {s \in [1..Cardinality(S) -> S] : \A i, j \in DOMAIN s : s[i] = s[j] => i = j}

\* How far their creation may get.
Parts(s) == {SubSeq(s, 1, k) : k \in 0..Len(s)}

\* table with an active flow record for each element of the sequence s.
WithFlows(table, s) == table \o [i \in DOMAIN s |-> CreateFlowRecord(s[i])]

\* Nobody has continued the new flows yet.
NoneContinued(s) == [i \in DOMAIN s |-> 0]

\* The rest of Continue before its loop: the check of the gateway, Route, and
\* the first flow records.  Who lost the gateway goes straight to finalize, and
\* so does a flow that leads nowhere; an end event completes the case.
GoOn(c) ==
  LET e == element(c) IN
  /\ \/ at[c] = "loaded" /\ ~Interrupts(c)
     \/ at[c] = "cancelling" /\ closing[c] = {}
  /\ \/ /\ Passes(copy[c], e)
        /\ copy' = [copy EXCEPT ![c] =
                      IF Process[e].Outgoing = {} /\ isEndEvent(e)
                      THEN Finished(c, Resolved(@, e)) ELSE Resolved(@, e)]
        /\ \E s \in Orders(Process[e].Outgoing) :
             /\ flows' = WithFlows(flows, s)
             /\ continued' = [continued EXCEPT ![target[c]] = @ + 1] \o NoneContinued(s)
             /\ work' = [work EXCEPT ![c] = {Len(flows) + i : i \in DOMAIN s}]
     \/ /\ ~Passes(copy[c], e)
        /\ UNCHANGED <<copy, flows, continued, work>>
  /\ at' = [at EXCEPT ![c] = "running"]
  /\ UNCHANGED <<stored, jobs, call, target, listed, once, closing, results, raced, kept,
                 executed, dropped, overlap, bounds>>

\* A failing CreateFlow ends Continue; the records made before it stay.
GoesNowhere(c) ==
  LET e == element(c) IN
  /\ \/ at[c] = "loaded" /\ ~Interrupts(c)
     \/ at[c] = "cancelling" /\ closing[c] = {}
  /\ Passes(copy[c], e) /\ StoreFails
  /\ \E s \in Orders(Process[e].Outgoing) : \E made \in Parts(s) \ {s} :
       /\ flows' = WithFlows(flows, made)
       /\ continued' = continued \o NoneContinued(made)
  /\ Leave(c, listed[c])
  /\ UNCHANGED <<stored, jobs, raced, kept, executed, dropped, overlap, calls, crashes>>

----------------------------------------------------------------------------
(* The run of the loop: an element is executed, and its result handled.    *)

\* A slip: the record of the arrival itself is not counted.
OthersIncomingComplete(e) ==
  Cardinality({i \in FlowID : flows[i].element = e /\ flows[i].status = "COMPLETED"})
    >= Process[e].Incoming

\* areAllIncomingComplete counts the records of every run of the case.
AllIncomingComplete(e) ==
  Cardinality({i \in FlowID : flows[i].element = e /\ flows[i].status # "ERROR"})
    >= Process[e].Incoming

StatusAfter(e, a) ==
  CASE a.Action = "ERROR" -> "ERROR"
    [] LeavesActive(e)    -> "ACTIVE"
    [] OTHER              -> "COMPLETED"

\* executeElement: Execute writes the status into its record; nothing takes a
\* copy of the record back to the SQL store.  A join whose flows cannot be read
\* waits.
ExecuteElement(c) ==
  /\ at[c] = "running"
  /\ \E f \in work[c] :
       LET e == flows[f].element IN
       /\ work' = [work EXCEPT ![c] = @ \ {f}]
       /\ executed' = executed \cup {f}
       /\ \E complete \in {AllIncomingComplete(e), FALSE} :
          \E a \in Execute(e, complete) :
            /\ results' = [results EXCEPT ![c] = @ \cup {[flow |-> f, ans |-> a]}]
            /\ flows' = IF shared THEN [flows EXCEPT ![f].status = StatusAfter(e, a)] ELSE flows
            /\ IF complete = AllIncomingComplete(e)
               THEN UNCHANGED <<faults, dropped>>
               ELSE Joins(e) /\ StoreFails /\ dropped' = dropped \cup {f}
  /\ UNCHANGED <<stored, jobs, callVars, copy, once, closing, continued, raced, kept,
                 overlap, calls, crashes>>

\* An event-based gateway with several branches arms itself in the variables.
Arms(inst, e) ==
  IF Process[e].Type = "eventBasedGateway"
  THEN [inst EXCEPT !.Armed = e, !.Resolved = FALSE, !.Winner = None]
  ELSE inst

\* The answer is routed: a record for each next element.
Routes(c, f, a) ==
  LET next == Route(flows[f].element, a) IN
  /\ next # {}
  /\ \E s \in Orders(next) :
       /\ flows' = WithFlows(flows, s)
       /\ continued' = continued \o NoneContinued(s)
       /\ work' = [work EXCEPT ![c] = @ \cup {Len(flows) + i : i \in DOMAIN s}]
  /\ UNCHANGED <<jobs, callVars, copy, once, closing, dropped, faults>>

\* The end of a path: an end event tries to complete the instance.
Ends(c, f, a) ==
  LET e == flows[f].element IN
  /\ a.Action \in {"ROUTE", "COMPLETE"} /\ Route(e, a) = {}
  /\ IF isEndEvent(e)
     THEN /\ copy' = [copy EXCEPT ![c] = Finished(c, copy[c])]
          /\ once' = [once EXCEPT ![c] = TRUE]
     ELSE UNCHANGED <<copy, once>>
  /\ UNCHANGED <<flows, jobs, callVars, closing, work, continued, dropped, faults>>

\* Enqueue gives every job of a case the same id.  The new job replaces the old
\* one or is refused, depending on the store; while a worker of the queue holds
\* the old one, both may still be delivered.
Queued(due) ==
  IF due = {} THEN {jobs} ELSE {J \in SUBSET (jobs \cup due) : J # {}}

\* It waits: the instance becomes WAITING, the boundary events get their flows
\* and the timers their jobs.  A flow or a job the store refuses is logged and
\* forgotten.
Waits(c, f, a) ==
  LET e == flows[f].element
      boundary == BoundaryTimers(e) \cup BoundaryMessages(e)
  IN
  /\ a.Action \in {"WAIT", "FORM"} /\ IsValidTransition(copy[c].Status, "WAITING")
  /\ copy' = [copy EXCEPT ![c] = [Arms(@, e) EXCEPT !.Status = "WAITING"]]
  /\ \E unarmed \in SUBSET boundary : \E s \in Orders(boundary \ unarmed) :
       LET due == {Len(flows) + i : i \in {k \in DOMAIN s : s[k] \in BoundaryTimers(e)}}
                    \cup (IF a.ContinueAt THEN {f} ELSE {})
       IN \E lost \in SUBSET due :
            /\ flows' = WithFlows(flows, s)
            /\ continued' = continued \o NoneContinued(s)
            /\ jobs' \in Queued(due \ lost)
            /\ IF unarmed = {} /\ lost = {} THEN UNCHANGED faults ELSE StoreFails
  /\ UNCHANGED <<callVars, once, closing, work, dropped>>

\* The answers that are lost with the run of c.
Unhandled(c) == {r.flow : r \in results[c]}

\* An error, or a second wait of one run: the run ends and nothing is stored.
Breaks(c, f, a) ==
  /\ \/ a.Action = "ERROR"
     \/ a.Action \in {"WAIT", "FORM"} /\ ~IsValidTransition(copy[c].Status, "WAITING")
  /\ Leave(c, listed[c])
  /\ dropped' = dropped \cup Unhandled(c)
  /\ UNCHANGED <<flows, jobs, continued, faults>>

\* CreateFlow or the deadline of the run stops enqueueFlow somewhere.
Strands(c, f, a) ==
  /\ Disturbance
  /\ \E s \in Orders(Route(flows[f].element, a)) : \E made \in Parts(s) :
       /\ flows' = WithFlows(flows, made)
       /\ continued' = continued \o NoneContinued(made)
  /\ Leave(c, listed[c])
  /\ dropped' = dropped \cup Unhandled(c)
  /\ UNCHANGED jobs

HandleResult(c) ==
  /\ at[c] = "running"
  /\ \E r \in results[c] :
       \/ /\ Routes(c, r.flow, r.ans) \/ Ends(c, r.flow, r.ans) \/ Waits(c, r.flow, r.ans)
          /\ results' = [results EXCEPT ![c] = @ \ {r}]
       \/ Breaks(c, r.flow, r.ans)
       \/ Strands(c, r.flow, r.ans)
  /\ UNCHANGED <<stored, raced, kept, executed, overlap, calls, crashes>>

\* A slip: only the status is written back.
FinalizeStatus(c) ==
  /\ at[c] = "running" /\ work[c] = {} /\ results[c] = {}
  /\ stored' = [stored EXCEPT !.Status = copy[c].Status]
  /\ kept' = kept \cup Brings(c)
  /\ Leave(c, listed[c])
  /\ UNCHANGED <<flows, jobs, continued, raced, executed, dropped, overlap, bounds>>

\* finalizeInstance: the whole copy goes over whatever is stored by now.
Finalize(c) ==
  /\ at[c] = "running" /\ work[c] = {} /\ results[c] = {}
  /\ stored' = copy[c]
  /\ kept' = kept \cup Brings(c)
  /\ Leave(c, listed[c])
  /\ UNCHANGED <<flows, jobs, continued, raced, executed, dropped, overlap, bounds>>

----------------------------------------------------------------------------
(* Failures.                                                               *)

\* A store call fails, or the run meets its deadline: what is written stays.
Fails(c) ==
  /\ at[c] # "idle"
  /\ Disturbance /\ (~shared \/ at[c] = "running")
  /\ Leave(c, listed[c])
  /\ dropped' = dropped \cup Unhandled(c)
  /\ UNCHANGED <<caseVars, continued, raced, kept, executed, overlap, calls, crashes>>

\* The process dies with everything its goroutines had in hand.
Crash ==
  /\ crashes < MaxCrashes
  /\ ~shared   \* the memory store dies with the process
  /\ crashes' = crashes + 1
  /\ at' = [c \in Callers |-> "idle"]
  /\ call' = [c \in Callers |-> "none"]
  /\ target' = [c \in Callers |-> 0]
  /\ listed' = [c \in Callers |-> {}]
  /\ copy' = [c \in Callers |-> NewInstance]
  /\ once' = [c \in Callers |-> FALSE]
  /\ closing' = [c \in Callers |-> {}]
  /\ work' = [c \in Callers |-> {}]
  /\ results' = [c \in Callers |-> {}]
  /\ dropped' = dropped \cup UNION {Unhandled(c) : c \in Callers}
  /\ UNCHANGED <<caseVars, continued, raced, kept, executed, overlap, calls, faults>>

Idle == \A c \in Callers : at[c] = "idle"

\* Nobody has to come to the case.
Rest == Idle /\ UNCHANGED vars

Request(c) ==
  Check(c) \/ SendSignal(c) \/ ListFlows(c) \/ Visit(c) \/ UpdateFlow(c) \/ TimerFires(c)

Continue(c) ==
  \/ Load(c) \/ Interrupt(c) \/ CancelOne(c) \/ GoOn(c) \/ GoesNowhere(c)
  \/ ExecuteElement(c) \/ HandleResult(c) \/ Finalize(c)

Next ==
  /\ \/ \E c \in Callers : Request(c) \/ Continue(c) \/ Fails(c)
     \/ Crash \/ Rest
  /\ UNCHANGED shared

Spec == Init /\ [][Next]_vars

----------------------------------------------------------------------------
(* Properties.                                                             *)

CallType ==
  /\ at \in [Callers -> {"idle", "broadcasting", "visiting", "checked", "accepted",
                         "loaded", "cancelling", "running"}]
  /\ call \in [Callers -> {"none", "complete", "claim", "message", "signal", "timer"}]
  /\ target \in [Callers -> FlowID \cup {0}]
  /\ \A c \in Callers : at[c] \notin {"idle", "broadcasting", "visiting"} => target[c] \in FlowID
  /\ copy \in [Callers -> InstanceRecord]
  /\ once \in [Callers -> BOOLEAN]
  /\ closing \in [Callers -> SUBSET FlowID]
  /\ listed \in [Callers -> SUBSET FlowID]
  /\ work \in [Callers -> SUBSET FlowID]
  /\ results \in [Callers -> SUBSET [flow : FlowID, ans : ExecutionResult]]

HistoryType ==
  /\ continued \in Seq(Nat) /\ Len(continued) = Len(flows)
  /\ raced \subseteq FlowID /\ kept \subseteq FlowID
  /\ executed \subseteq FlowID /\ dropped \subseteq FlowID
  /\ overlap \in BOOLEAN
  /\ calls \in Nat /\ faults \in Nat /\ crashes \in Nat

\* Every variable keeps to its values; whoever has something in hand holds the
\* id of a record.
TypeOK ==
  /\ shared \in BOOLEAN
  /\ stored \in InstanceRecord
  /\ flows \in Seq(FlowRecord)
  /\ jobs \subseteq FlowID
  /\ CallType /\ HistoryType

\* A completed flow is opened again only if two callers had it in hand at once
\* (a claim beside a completion, a request beside the run that created it).
ClosedStaysClosed ==
  [][\A f \in FlowID :
       flows[f].status = "COMPLETED" /\ f \notin raced' => flows'[f].status = "COMPLETED"]_vars

\* A flow that two callers never had in hand at once is continued at most once,
\* whatever requests, failures and crashes come: a second completion is refused.
\* Timers are the exception, their jobs may be delivered again.
ContinuedOnce ==
  \A f \in FlowID :
    continued[f] > 1 => f \in raced \/ Process[flows[f].element].Type = "timerEvent"

\* As long as no two continuations have overlapped, a case stored as COMPLETED
\* stays so.
CompletedStays ==
  [][stored.Status = "COMPLETED" /\ ~overlap => stored'.Status = "COMPLETED"]_vars

\* As long as no two continuations have overlapped and the case has its 1 MB, the
\* record holds the variables of every continuation that was stored, but for those
\* that sanitizeVariables refuses the next time: failures, crashes and refused
\* resumptions between them cost none.
NothingOverwritten ==
  ~overlap /\ Cardinality(kept) <= MaxSize => Sane(kept) \subseteq stored.Variables

\* However the continuations that lead to a join overlap, once it has executed
\* as many arrivals as it has incoming flows, the path behind it is there, or its
\* creation is the next thing a run does with the answer.  It is lost to no race of
\* arrivals, only to the store, a failing run or a crash after an arrival was
\* executed.
JoinGoesOn ==
  \A j \in Of("parallelGateway") :
    LET arrivals == {i \in executed : flows[i].element = j} IN
    /\ Joins(j) /\ Process[j].Outgoing # {}
    /\ Process[j].Incoming \in 1..Cardinality(arrivals)
    => \/ \E i \in FlowID : flows[i].element \in Process[j].Outgoing
       \/ \E c \in Callers : \E r \in results[c] : r.flow \in arrivals /\ r.ans.Action = "ROUTE"
       \/ arrivals \cap dropped # {}

----------------------------------------------------------------------------
(* What the documents say and the code does not do.                        *)

\* A completed case is terminal (docs/bpmn-and-bpmn-ai.md:234).
CompletedIsTerminal ==
  [][stored.Status = "COMPLETED" => stored'.Status = "COMPLETED"]_vars

\* An event-based gateway waits for its branches (docs/bpmn-and-bpmn-ai.md:53): a
\* stored case whose gateway is armed and not resolved has an open flow for one.
BranchesAwaited ==
  stored.Armed # None /\ ~stored.Resolved =>
    \E f \in FlowID : flows[f].element \in Process[stored.Armed].Outgoing
=============================================================================
