-------------------------------- MODULE Audit --------------------------------
(***************************************************************************)
(* The audit trail: Dispatcher (internal/observability/events.go), Auditor *)
(* and FileAuditWriter (file_audit.go), with the runs and the job queue    *)
(* that emit events and the shutdown of cmd/engine/main.go.                *)
(*                                                                         *)
(* Every handler of an event runs in a goroutine of its own, counted by    *)
(* the one WaitGroup of the dispatcher; a run drains it before it returns. *)
(* The layout of the file, its times and names are left out.               *)
(***************************************************************************)
EXTENDS Naturals, Sequences, FiniteSets, Bags

CONSTANTS
  Runs, Instances,
  InstanceOf,     \* [Runs -> Instances]
  First,          \* the runs that start a case (Run); the others are Continue
  MaxEvents,      \* bound: events emitted
  MaxLost,        \* bound: entries that could not be written
  None

ASSUME AuditAssumption ==
  /\ InstanceOf \in [Runs -> Instances] /\ First \subseteq Runs
  /\ MaxEvents \in Nat /\ MaxLost \in Nat /\ None \notin Runs \cup [step : Nat, open : BOOLEAN]

VARIABLES
  run,       \* by run: "idle", "running", "waiting" (in Drain), "woken", "drained"
  elements,  \* history, by run: elements executed before its Drain
  resulted,  \* history: runs that emitted a result
  emitted,   \* events so far
  handlers,  \* goroutines of DispatchAsync: a bag of [run, type]
  wg,        \* the counter of the WaitGroup
  state,     \* by instance: None or the instanceAuditState [step, open]
  trail,     \* by instance: the entries of its handlers, in the file or, history, not
  closed,    \* FileAuditWriter.Close was called
  program    \* "up", "panicked"

vars == <<run, elements, resulted, emitted, handlers, wg, state, trail, closed, program>>

NoState == [step |-> 0, open |-> FALSE]

Init ==
  /\ run = [r \in Runs |-> "idle"]
  /\ elements = [r \in Runs |-> 0]
  /\ resulted = {} /\ emitted = 0
  /\ handlers = EmptyBag /\ wg = 0
  /\ state = [i \in Instances |-> None]
  /\ trail = [i \in Instances |-> <<>>]
  /\ closed = FALSE /\ program = "up"

----------------------------------------------------------------------------
(* Dispatcher.                                                             *)

One(x) == SetToBag({x})

\* A slip: the goroutine adds itself to the WaitGroup.
AddInside(event) == handlers' = handlers (+) One(event) /\ UNCHANGED wg

\* A goroutine for the one handler NewAuditor registered for the type, added to
\* the WaitGroup before it starts.
AddAndGo(event) == handlers' = handlers (+) One(event) /\ wg' = wg + 1

DispatchAsync(event) ==
  /\ program = "up" /\ emitted < MaxEvents
  /\ emitted' = emitted + 1
  /\ AddAndGo(event)

\* A slip: the handler of a job event returns without Done.
DoneUnlessJob(event) ==
  /\ handlers' = handlers (-) One(event)
  /\ wg' = IF event.type = "job" \/ wg = 0 THEN wg ELSE wg - 1
  /\ run' = IF wg' = 0
            THEN [r \in Runs |-> IF run[r] = "waiting" THEN "woken" ELSE run[r]]
            ELSE run

\* The handler is done: the last one wakes the runs that wait.
Done(event) ==
  /\ handlers' = handlers (-) One(event)
  /\ wg' = IF wg = 0 THEN 0 ELSE wg - 1   \* never 0 here
  /\ run' = IF wg' = 0
            THEN [r \in Runs |-> IF run[r] = "waiting" THEN "woken" ELSE run[r]]
            ELSE run

\* Drain: wg.Wait returns at once, or sleeps.
Drain(r) ==
  /\ program = "up" /\ run[r] = "running"
  /\ run' = [run EXCEPT ![r] = IF wg = 0 THEN "drained" ELSE "waiting"]
  /\ UNCHANGED <<elements, resulted, emitted, handlers, wg, state, trail, closed, program>>

\* The woken run looks at the counter: in use again, the WaitGroup panics.
Wake(r) ==
  /\ program = "up" /\ run[r] = "woken"
  /\ IF wg = 0
     THEN run' = [run EXCEPT ![r] = "drained"] /\ UNCHANGED program
     ELSE program' = "panicked" /\ UNCHANGED run
  /\ UNCHANGED <<elements, resulted, emitted, handlers, wg, state, trail, closed>>

----------------------------------------------------------------------------
(* FileAuditWriter.  Each handler holds the mutex of its instance.         *)

\* getOrCreateState.
StateOf(i) == IF state[i] = None THEN NoState ELSE state[i]

\* Whether an open or a write succeeds.
Succeeds ==
  LET lost == {e \in Instances \X (1..MaxEvents) :
                 e[2] \in DOMAIN trail[e[1]] /\ ~trail[e[1]][e[2]].written}
  IN IF Cardinality(lost) < MaxLost THEN BOOLEAN ELSE {TRUE}

\* ensureFileOpen: a file that is not open is opened, if that succeeds.
ensureFileOpen(st) == IF st.open THEN {TRUE} ELSE Succeeds

\* writeFile: an entry gets into an open file, if the write succeeds; of an error
\* nobody hears.
writeFile(i, open, kind, event, n) ==
  \E written \in IF open THEN Succeeds ELSE {FALSE} :
    trail' = [trail EXCEPT ![i] =
                Append(@, [kind |-> kind, event |-> event, n |-> n, written |-> written])]

\* The header goes to the file that is open, or to none.
handleProcessStarted(event) ==
  LET i == InstanceOf[event.run] IN
  /\ event.type = "started"
  /\ \E open \in ensureFileOpen(StateOf(i)) :
       /\ state' = [state EXCEPT ![i] = [StateOf(i) EXCEPT !.open = open]]
       /\ writeFile(i, open, "header", event, 0)

\* The step counts whether or not it is written; handleElementError does the same.
handleElementExecuted(event) ==
  LET i == InstanceOf[event.run]
      step == StateOf(i).step + 1
  IN
  /\ event.type \in {"element", "late"}
  /\ \E open \in ensureFileOpen(StateOf(i)) :
       /\ state' = [state EXCEPT ![i] = [step |-> step, open |-> open]]
       /\ writeFile(i, open, "step", event, step)

\* A slip: the state goes with the file.
handleProcessCompletedRemoves(event) ==
  LET i == InstanceOf[event.run] IN
  /\ event.type = "result"
  /\ IF ~StateOf(i).open THEN UNCHANGED <<state, trail>>
     ELSE /\ writeFile(i, TRUE, "footer", event, state[i].step)
          /\ state' = [state EXCEPT ![i] = None]

\* Completed, terminated or in error: written and closed, if the file is open.
handleProcessCompleted(event) ==
  LET i == InstanceOf[event.run] IN
  /\ event.type = "result"
  /\ IF ~StateOf(i).open THEN UNCHANGED <<state, trail>>
     ELSE /\ writeFile(i, TRUE, "footer", event, state[i].step)
          /\ state' = [state EXCEPT ![i].open = FALSE]

handleJobEvent(event) == event.type = "job" /\ UNCHANGED <<state, trail>>

HandleEvent(event) ==
  /\ program = "up" /\ BagIn(event, handlers)
  /\ \/ handleProcessStarted(event) \/ handleElementExecuted(event)
     \/ handleProcessCompleted(event) \/ handleJobEvent(event)
  /\ Done(event)
  /\ UNCHANGED <<elements, resulted, emitted, closed, program>>

\* At the end of main, whatever is in flight.
Close ==
  /\ program = "up" /\ ~closed
  /\ closed' = TRUE
  /\ state' = [i \in Instances |-> None]
  /\ UNCHANGED <<run, elements, resulted, emitted, handlers, wg, trail, program>>

----------------------------------------------------------------------------
(* Those who emit.                                                         *)

\* Run tells that the case is started.
Run(r) ==
  /\ r \in First /\ run[r] = "idle"
  /\ run' = [run EXCEPT ![r] = "running"]
  /\ DispatchAsync([run |-> r, type |-> "started"])
  /\ UNCHANGED <<elements, resulted, state, trail, closed, program>>

\* Continue tells nothing.  The case runs, or has run.
Continue(r) ==
  /\ program = "up" /\ r \notin First /\ run[r] = "idle"
  /\ \E s \in First : InstanceOf[s] = InstanceOf[r] /\ run[s] # "idle"
  /\ run' = [run EXCEPT ![r] = "running"]
  /\ UNCHANGED <<elements, resulted, emitted, handlers, wg, state, trail, closed, program>>

\* A worker executed an element; a run that failed leaves workers behind, and they
\* go on after its Drain.
executeElement(r) ==
  /\ run[r] # "idle"
  /\ IF run[r] = "running"
     THEN elements' = [elements EXCEPT ![r] = @ + 1] /\ DispatchAsync([run |-> r, type |-> "element"])
     ELSE DispatchAsync([run |-> r, type |-> "late"]) /\ UNCHANGED elements
  /\ UNCHANGED <<run, resulted, state, trail, closed, program>>

\* handleResult: the case waits, is completed, terminated or in error.
handleResult(r) ==
  /\ run[r] = "running" /\ elements[r] > 0
  /\ resulted' = resulted \cup {r}
  /\ DispatchAsync([run |-> r, type |-> "result"])
  /\ UNCHANGED <<run, elements, state, trail, closed, program>>

\* The job queue tells of a job, of any instance.
JobEvent ==
  /\ DispatchAsync([run |-> None, type |-> "job"])
  /\ UNCHANGED <<run, elements, resulted, state, trail, closed, program>>

Next ==
  \/ \E r \in Runs : Run(r) \/ Continue(r) \/ executeElement(r) \/ handleResult(r) \/ Drain(r) \/ Wake(r)
  \/ \E event \in BagToSet(handlers) : HandleEvent(event)
  \/ JobEvent \/ Close

Spec == Init /\ [][Next]_vars

\* Goroutines that can run do; nobody has to shut down or to execute elements.
FairSpec ==
  /\ Spec
  /\ WF_vars(\E event \in BagToSet(handlers) : HandleEvent(event))
  /\ \A r \in Runs : WF_vars(Wake(r))

----------------------------------------------------------------------------
(* Properties.                                                             *)

Count(i, Test(_)) == Cardinality({k \in DOMAIN trail[i] : Test(trail[i][k])})

TypeOK ==
  /\ run \in [Runs -> {"idle", "running", "waiting", "woken", "drained"}]
  /\ IsABag(handlers)
  /\ wg \in Nat
  /\ \A i \in Instances : state[i] # None => state[i].step \in Nat /\ state[i].open \in BOOLEAN
  /\ program \in {"up", "panicked"}

\* While nothing is shut down the number of a step is its place among the steps of
\* its case that were handled, over all the runs: in the file the numbers rise, and
\* one is missing only where its entry could not be written; each result counts the
\* steps before it, written or not (file_audit.go, handleElementExecuted).
StepsNumbered ==
  ~closed => \A i \in Instances : \A k \in DOMAIN trail[i] :
    LET before == Cardinality({m \in 1..k : trail[i][m].kind = "step"}) IN
    trail[i][k].kind \in {"step", "footer"} => trail[i][k].n = before

\* When Drain has returned, every element of the run has its entry, once, in the
\* file or lost to a file that could not be opened or written: no handler is still
\* to come, even when other runs emitted meanwhile and the writer was closed
\* (events.go, Drain).
DrainedIsWritten ==
  \A r \in Runs :
    run[r] = "drained" =>
      Count(InstanceOf[r], LAMBDA entry : entry.event = [run |-> r, type |-> "element"]) = elements[r]

\* Who waits in Drain gets on, unless the program ends.
DrainReturns ==
  \A r \in Runs : run[r] = "waiting" ~> run[r] = "drained" \/ program = "panicked"

----------------------------------------------------------------------------
(* What the comments and documents say and the code does not do.           *)

\* "Drain waits for all in-flight async handlers to complete" (events.go:65): the
\* wait ends with a return.
DrainOnlyWaits == program # "panicked"

\* Full traceability (docs/bpmn-and-bpmn-ai.md:317): a run that emitted a result
\* has a result in the file of its case once it is drained, if no write fails.
ResultIsWritten ==
  \A r \in Runs :
    run[r] = "drained" /\ r \in resulted /\ ~closed =>
      Count(InstanceOf[r], LAMBDA entry : entry.kind = "footer" /\ entry.written) > 0
=============================================================================
