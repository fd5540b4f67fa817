# bpmn-ai in TLA+

A verification project for bpmn-ai, a BPMN 2.0 engine written in Go. It holds
TLA+ models of the parts whose correctness depends on order, failure and
concurrency, TLC runs on small instances, and TLAPS proofs that hold for every
instance.

    tlc -workers 2 -config engine_onerun.cfg MCEngineLoop
    tlapm EngineLoopProofs.tla

## 1. The system

`cmd/engine/main.go` wires one process: a store (memory or PostgreSQL), a job
queue, the engine, and an HTTP server. A client posts a BPMN file, starts a case
of it and completes its user tasks; timers and service tasks go through the
queue; messages and signals come in over HTTP.

| part | state | operations | hard behaviour |
|---|---|---|---|
| Engine loop (`internal/engine/engine.go`) | `workCh`, `resultCh`, `errCh`, `pending`, `execCtx`, the in-memory instance | `Run`, `Continue`, `SendMessage`, `SendSignal`, `runLoop`, `handleResult`, `enqueueFlow`, `executeElement` | one loop goroutine and N workers over bounded channels; when to close `workCh`; error returns that leave workers behind; a deadline; every store call may fail half way |
| Instance state (`internal/process/state.go`) | status, a `sync.Once`, thread counter, variables | `Transition`, `TryComplete`, `NextThreadID` | each run works on a fresh copy; the table refuses transitions other code needs |
| Elements (`internal/element`) | the flow record they are given, the variables | `Execute` | a join reads records that other goroutines write; an AI task reads and writes back a total |
| Router, fail-safe, registry (`internal/engine`) | loop counters | `Route`, `Check`, `Get` | off-by-one at the loop limit |
| Parser (`pkg/bpmn`) | the maps and lists of `Process` | `Parse`, `flattenSubProcess` | synthetic flows behind every flow, prefixed ids, Go's map order |
| Job queue (`internal/queue`) | job and dead-letter records, `stopCh` | `Enqueue`, `Start`, `Stop`, `processBatch`, `processJob`, `failJob`, `DeadLetterQueue.Add` | N workers poll without claiming; one id for all jobs of a case; two writes to bury a job; a crash leaves RUNNING jobs |
| Stores (`pkg/store/memory`, `pkg/store/sql`) | all records | create, read, update, list | one hands out its records, the other copies; one checks nothing, the other keys and references |
| HTTP API (`api/http`) | none of its own | deployment, case start, `claimTask`, `completeTask`, messages, signals | check-then-act on flow status; the engine continues in a goroutine after the answer |
| AI gateways, router, agents (`pkg/ai`, `ai_task.go`) | the request, token and cost totals | `Generate`, the fallback chains, `Resolve`, `MultiAgentExecutor.Execute` | failover in the middle of a tool loop; a catalog searched in map order; a total that tasks share |
| Audit trail (`internal/observability`) | the `WaitGroup`, per-case state, the file | `DispatchAsync`, `Drain`, the handlers, `Close` | one `WaitGroup` for all runs; a goroutine per handler |
| AI cache, guard-rails, prompts, RAG | collections | text and vector operations | none that control depends on |
| Middleware, configuration | none | request decoration, defaults | none |

How they meet: HTTP calls the engine and the store directly. The engine reads
and writes the store, hands jobs to the queue with `Enqueue`, and is the queue's
handler (`JobHandler`), so a queue worker may run a whole engine loop inside
`processJob`. Elements reach the store only through the execution context. All
of them emit events to the dispatcher; only `Run` and `Continue` wait for it, in
`Drain`. Over the memory store the parser's `Process` and every record are
shared by all goroutines; over the SQL store each has a copy.

What makes each part correct:

* **Engine loop**: the pending account is exact; a nil return means everything
  scheduled was executed; `runLoop` returns; a returned run starts nothing more; an
  element is not executed beyond the loop limit; the join fires; a finished case
  stays finished; an interrupted activity stays interrupted.
* **Callers of a case**: a task is continued once, a completed flow stays closed,
  the variables of a continuation stay in the record, a join is not lost to a race.
* **Parser and call activities**: the engine steps as the document draws, also
  through sub-processes and called processes, whoever else runs on them.
* **Stores**: a program that writes back what it changes, and has one job for a case
  at a time, cannot tell them apart.
* **Job queue**: the handler is called no more often than the copies of a job that
  can be about allow; a DEAD job has a letter; no job is left RUNNING; the record
  of a case settles.
* **Audit trail**: steps are numbered as they are handled; when `Drain` returns no
  handler of what the run executed is still to come; `Drain` returns.
* **AI tasks**: every option is tried before a call fails; tokens and costs are
  accounted for; a model's own provider comes first; every task ends.

Not all of it holds as the documents put it: which of these need a disturbance to
fail, and which fail without one, is in section 3.

`PROJECT.json` lists the hazards at their lines, with the property that would
catch each.

## 2. Modules

| module | stands for | extends |
|---|---|---|
| `ProcessGraph` | a parsed process, `Execute` of every element type, routing, error catching, boundary events | |
| `InstanceState` | the transition table | |
| `EngineLoop` | `engine.go`: the loop, the workers, `Run`, `Continue` and its four callers | both above |
| `Continuation` | the same callers, beside each other at one waiting case | `ProcessGraph`, `InstanceState` |
| `BPMNParser` | `Parser.Parse`, phase by phase | |
| `CallActivity` | cases that run call activities on a shared or a copied process | `BPMNParser` |
| `JobLifecycle` | the documented life of a job (abstract specification) | |
| `JobCalls` | the calls of the handler that the queue makes at most (abstract specification) | |
| `JobQueue` | `internal/queue` over either store, which may fail, and restarts | |
| `Stores` | both stores, driven by the same calls | |
| `Audit` | dispatcher, auditor and file writer | |
| `ModelRouter` | `ModelRouter.Resolve` | |
| `AITask` | AI tasks, gateways, agents and the tool loop | `ModelRouter` |

`MCEngineLoop`, `MCContinuation`, `MCDefinitions` (parser and calls),
`MCJobQueue`, `MCStores`, `MCAudit` and `MCAITask` hold the small instances for
TLC. The modules with `Proofs` in their name hold the theorems (section 4).

### ProcessGraph

`Process` is `bpmn.Process.Elements` as a constant function. A sequence flow is
an element of it as in the code, where it is executed like any other. `Execute`
is the set of answers an element may give. Conditions, scripts, prompts and the
outcome of an AI call are data: every answer some data would give is in the set.
The order of `OutgoingFlows` and Go's map order are left open. The TLC processes
leave most sequence flows out; a sequence flow is one more element that routes
on.

### EngineLoop

Where the goroutine of the loop is, is `pc`:

| `pc` | code |
|---|---|
| `idle` | no `Run` yet |
| `select` | the `select` of `runLoop` |
| `create`, `send` | inside `enqueueFlow`, before and after `pending++` |
| `closing`, `failsafe`, `ctxdone` | `wg.Wait` after `close(workCh)`, at its three places |
| `returned` | after the return, deferred `cancel` included |

Each branch of `handleResult` is one action, `HandleRoute` to `HandleQueue`. A
branch that enqueues flows goes on with `CreateFlow` and `SendFlow`, because
workers run in between and the send may block. Branches that only change the
instance and the store are one step: no other goroutine reads what they change
before the loop's next step. A worker is `Take`, `ExecuteElement`, `Deliver`,
`Leave`. A worker that finds `execCtx` done drops its item, as `worker` does.
`counts`, `errs` and `ctx` are the fail-safe's counters, `errCh` and `execCtx`.
`cancelled` is also what the deferred `cancel` makes of `ctx`.

`stored`, `flows`, `threads` and `jobs` are the store. `istate`, `completed` and
`threadSeq` are this run's copy of the instance, made afresh by `Continue`.
`jobs` holds the flows whose job the queue may deliver: all jobs of a case share
the id `job-<instance>`, so a new one replaces the old or is refused.

Abstractions, and why they are sound for the properties:

* The processes are finite constants, so `CalledStart` stands for the flattened
  called process that `HandleCallActivity` adds at run time (`CallActivity` has
  the flattening).
* The fail-safe's clock and the context's deadline are one event, `Deadline`, which
  `Timeouts` allows.
* `CompleteTask` takes any active flow, whatever its element: `completeTask` looks at
  the status only (handlers.go:378).
* A store call fails within the budget `MaxFaults`, and at will once its context
  is done.
* Runs of one case do not overlap: `Continue` waits until the workers of the
  previous loop are quiet (`Quiet`). Overlapping runs are in `Continuation`.
* `ScopeAssumption` excludes an event-based gateway with several branches (also
  in `Continuation`) and a `Continue` with more outgoing flows than `workCh`
  holds.

### Continuation

Several goroutines (`Callers`) serve requests at one case that waits. `Check` reads
a flow and tests it (`Serves`: its status and, for a message, the type of its
element), `UpdateFlow` writes it back. A signal is a broadcast: `SendSignal` lists
the cases, `ListFlows` their flows, once, and `Visit` goes through that list, whose
entries are live records over the memory store and stale copies over SQL. `Load`
copies the instance record, with what `sanitizeVariables` leaves of its variables
(`Sanitized`); `Interrupt` and `CancelOne` are `cancelAttachedFlows`, which ignores
the errors of the store; `GoOn` resolves the event-based gateway and creates the
next flows, and `GoesNowhere` is a `CreateFlow` that fails there. In the run,
`ExecuteElement` executes an element and `HandleResult` deals with its answer, two
steps in any order with those of the others: `Routes`, `Ends`, `Waits`, or the run is
over, by an error (`Breaks`) or because the creation of the next flows is cut off
(`Strands`). `Finalize` stores the copy, `Fails` is a run that ends in an error
elsewhere, `Crash` loses every goroutine. The channels of a run are left out here:
`EngineLoop` has them. Boundary events are attached to tasks (`Continuable`).

A request brings one variable, named after its flow; `Refused` are the elements
whose requests bring one that `sanitizeVariables` refuses the next time the record
is read, and `MaxSize` is the 1 MB of a case, counted in variables.

`shared` tells whether the flow a caller holds is the record itself (memory
store) or a copy of a row (SQL store). The history variables say which flows two
callers had in hand at once (`raced`), whether two continuations have overlapped
(`overlap`), and which answers a store, a failing run or a crash has spoiled
(`dropped`): most properties hold until that happens, and the point of each is
which of these disturbances it needs to fail.

### BPMNParser and CallActivity

A document is a sequence of items, an id a name in a scope. The phases of `Parse`
are actions: `ParseItem` for the items in their order, with `flattenSubProcess`
inside, then `WireFlows`, `AddSyntheticFlows`, `RouteExits` and
`CollectConditions`. `Process` keeps its lists as bags, since the properties are
about flows listed twice. The order of the maps is open where the code ranges
over one (`FirstEnd`). Documents are as the BPMN schema has them
(`DocumentAssumption`); `Parse` itself checks nothing.

A `closedSubProcess` is one that `parseSubProcessXML` gives up, since it is empty,
cannot be read or has more than 100 elements (parser.go:279-296, 384): it stays an
element with nothing inside. `AttachedTo` is set for boundary events only.

`CallActivity` runs cases on the parsed process. A run is a bag of flows that
are executed in any order. The documents that are run have start and end events,
user and script tasks, calls and sub-processes (`CallAssumption`), so that a run
has no choice to make and raises no error event: a script that fails routes on
all the same (script_task.go:49). `status` is the state of the instance that the
last run works on, with the transitions of `InstanceState`, and `stored` the one
in the record, which `finalizeInstance` writes when a run is done, if the store
lets it. A run that is given up (`Aborts`, `Waits` in a case that waits already)
is in `aborted`. `Calls` writes the called elements under the prefix `ca-` into
the process of the case: the one all cases share, or, over the SQL store, the
run's own copy, which `Resume` loses.

### Stores

Each call is made on both stores at once: `mem` is the maps of the memory store,
`sql` the tables with the keys and references of the migration. A caller holds
what it read and changes it before it writes it back; over the maps that change
is stored at once. `lost` and `raced` are the rows of which a SQL write failed or
that two callers had at once. A job has the id of its case, as `Enqueue` gives it:
a second one replaces the first over the maps and is refused by the table, and its
row is in `raced` from then on.

### JobQueue

A worker is `Poll`, `Begin`, then `Complete`, `Retry` or `Bury` and `Buried`,
then `EndBatch`, or `Leave`. What it polled is a set of copies: that is the point
of the model, since every write puts a whole copy back. `replaces` tells the
memory store (an existing id is replaced) from the SQL store (refused); a restart
needs the latter. `attempts` counts the calls of the handler by flow and by the
retries the copy had. Times are reduced to `due`. The handler may succeed or fail at
any time. The branch of `processJob` without a handler is left out: `main.go` sets
the handler before it starts the pool. So is a done context: `main.go` cancels it
only after `Stop` has returned.

`JobCalls` knows no copies: per flow and number of retries it counts calls and those
of them that are not over, and allows a call with one more retry only on the ground
of one with one less that has ended.

### Audit

A run emits with `AddAndGo` (`wg.Add(1)` and a goroutine in the bag `handlers`);
a handler runs and calls `Done`. `Drain` returns at once or parks the run;
`Wake` is the runtime's check after the wait, which panics when the counter is in
use again. `Close` is the shutdown. `trail` has, per case, the entries of its
handlers with their numbers, in the order they were handled: those in the file and,
as history, those that were lost because the file could not be opened
(`ensureFileOpen`) or written (`writeFile`). A step counts either way.

### ModelRouter and AITask

`Resolve` returns the set of the results that some map order gives. An AI task
goes `ready` - `asking` - `calling` (tools) - `answered` - `costing` - `done`, or
`failed`. `chain` is what is left of the options of its gateway, `round` and
`tokens` belong to the tool loop, `log` is the history of its requests. A list of
agents that `ParseAgents` cannot read fails the task, an empty one ends it; neither
sends a request.
`ReadTotal` and `WriteTotal` are the two halves of the update of
`ai_total_cost`.

## 3. Runs

Each run answers one question.

| run | question | answer | distinct states |
|---|---|---|---|
| `engine_onerun` | Is one run sound under races, errors, termination, loops, with one fault anywhere, and does it end? | yes | 272 791 |
| `engine_tasks` | Do tasks, boundary events, messages and signals, resumed in any order, bring the case to its end and leave it there? | yes | 51 422 |
| `engine_events` | Is anything lost when the job queue or a message resumes a case and the store fails once? | no | 632 946 |
| `callers` | What can two callers at one case do to its flows and its record, and what can they not? | a disturbance is needed | 1 096 994 |
| `definitions` | Does the engine step as drawn on every small document, before and after calls, and do calls return? | yes, with the limits below | 51 793 |
| `stores` | Can a program that writes back what it changes, with one job for a case at a time, tell the stores apart? | no | 1 018 138 |
| `audit` | Is the trail of a case handled and numbered when a run returns, also when entries cannot be written? | yes; the numbers until the shutdown | 417 427 |
| `ai` | Are failover, routing and accounting right for tasks beside each other? | yes, unless two totals cross | 323 008 |
| `jobs` | With two workers, stale copies and two jobs under one id, over either store: how often is the handler called, and is a job left RUNNING, DEAD without a letter, or never settled? | as often as the copies allow; no | 150 020 |
| `doc_gateway_branches` | Do the branches of an event-based gateway wait for their events? | no | 20 225 |
| `doc_job_states` | Does a job go through its documented states? | no | 182 |
| `doc_drain` | Does `Drain` only wait? | no, it may panic | 566 |

The processes of the engine runs are merged behind one exclusive gateway, which
picks one of them, so one run covers several shapes.

### Bounds, and why they are enough

* **engine**: two workers, since every race in the loop is between the loop and
  a worker or between two workers. `Cap` is 12 where a loop may fork and 4
  elsewhere, above what can be in flight, as 1024 is for the processes the
  engine is given. `MaxLoops` is 2 or 3, enough for the limit to be reached.
  `MaxRuns` is 1, 2 or 4: start, two tasks, and a late event. `MaxFaults` is 1
  in `engine_onerun` and `engine_events`, every store call and context, one at a
  time, with the deadline (`Timeouts`) beside it; `engine_tasks` has neither,
  since its properties are about cases without a fault.
* **callers**: two callers, three calls, one fault, one crash, both kinds of
  store. Three openings: two tasks before a join with an interrupting message; a
  task with a boundary timer; a task before an event-based gateway beside two
  tasks, a signal catch and an AI task. Every hazard listed is between two
  callers; the third call comes after the race and meets what it left. The
  callers are interchangeable. Two elements bring variables that are refused.
  Three calls never bring a case over `MaxSize`, 2: what holds beyond the limit
  is a matter of the theorems.
* **definitions**: all documents of four nodes (a start, a gateway, a join, an
  end) and three flows between any two of them, all kinds of events, and small
  sub-processes, nested ones too; four calling documents, one with the call
  inside a sub-process, with each of a few called processes and two cases. What
  the parser does to an element depends on the flows at that element, and three
  flows already make each list of zero, one or several entries.
* **stores**: two callers, five calls on the tables of one of the `Mixes`, one
  failed SQL write, two of each record, a limit of 1. Five calls create, read,
  change and write back beside a failure, or create a second job and poll it.
* **audit**: one run that starts a case and one that continues it, four events,
  two entries that are lost, the job queue and the shutdown.
* **ai**: a task with tools whose model comes from a variable of the case, a
  plain one, one of two agents, one of none and one whose agents cannot be read;
  three configured providers and one that is not; one tool round; a charge of 1
  for each request that gets a message; an engine gateway of two options. A task
  with tools is routed, so it has one option: a provider that fails in the
  middle of a tool loop and is followed by another is a matter of the theorem.
* **jobs**: two jobs of one case share its id, and two workers make stale
  copies. `MaxRetries` is 1, so that a job is retried and then dies; one failed
  call and one restart. With more workers the bounds on the calls grow with the
  pool, as the theorem has it.

### Fairness

* `EngineLoop`: the loop goroutine, each worker goroutine, and the timeout. Go
  schedules runnable goroutines and `context.WithTimeout` fires; nobody is assumed
  to resume or cancel.
* `JobQueue`: each worker, whose ticker fires, and the clock. Enqueue, stop and
  restart are not assumed.
* `Audit`: the handler goroutines, and a run that was woken. Nobody has to emit an
  event or to shut down.
* `AITask`: the goroutine of each task. A request ends with an answer or an error,
  at the latest with the deadline of the context of the run (engine.go:338): the
  clients of the providers are given no timeout of their own.

### Deadlock

It is checked in the engine, callers, definitions and ai runs, where `Rest` lets
a quiet system stutter and nothing else may stop. The queue runs switch it off, as
a stopped pool rests; so do `stores` and `audit`, whose calls and events come to
their bound.

### What the documents say and the code does not do

Three runs show a contradiction; `PROJECT.json` quotes the lines.

* `doc_gateway_branches`: an event-based gateway with several branches waits, but
  no flow record is made for a branch, so no message, signal or timer finds one.
* `doc_job_states`: two workers run the same job, and one takes it from COMPLETED
  back to RUNNING, since nothing claims a job when it is read.
* `doc_drain`: `WaitGroup.Wait` panics when the counter is in use again before a
  woken waiter has looked.

Other properties are kept in the modules and fail when they take the place of
the properties of a cfg (`INVARIANT` for a state formula, `PROPERTY` for an action
or temporal formula). They say where the limits of the passing properties come
from:

| property | add to | what the code does |
|---|---|---|
| `TerminatedIsFinal` | `engine_tasks` with `Process <- StopBesideTask`, `Elements <- TerminateElements` | a terminated case is not stored as TERMINATED (next row), so a task that waits beside the terminate event takes it up again (docs/bpmn-and-bpmn-ai.md:235) |
| `OutcomeIsStored` | `engine_onerun`, `engine_events` | the terminate and error branches return an error, and `runLoop` stores the instance only at its good end: TERMINATED is never stored, and ERROR only when an error event that nobody caught was the last flow, so that the loop ends well before it reads errCh (engine.go:373, 394, 400, 406, 423, 737; docs/bpmn-and-bpmn-ai.md:167) |
| `CompletedMeansFinished` | `engine_tasks` | the first end event completes the case while another branch still waits (state.go:124; wiki/Architecture.md:72) |
| `JoinRoutesOnce` | `engine_onerun` | a join counts records that were created but not executed, so both arrivals may pass and the path behind it runs twice (parallel.go:104; docs:51) |
| `EndCompletes` | `engine_onerun` | a join that waited leaves the instance WAITING, from which the end event cannot complete it (state.go:124; docs:165) |
| `TimersAreArmed` | `engine_events` | of two timers of one case one may get no job: they share an id (worker.go:207; wiki/BPMN-Elements.md:29) |
| `CompletedIsTerminal` | `callers` | of two overlapping continuations the later one stores its copy over the COMPLETED record (docs:234) |
| `InnerFlowsOnce` | `definitions` | inside a sub-process the lists keep the unprefixed ids beside the prefixed ones, so every inner flow is stepped twice (engine_test.go:1192) |
| `EveryCallReturns` | `definitions` | a second call over the memory store, or a resumption inside a call over the SQL store, ends the case in the called process or in an error (docs:343) |
| `ResultIsWritten` | `audit` | the handler of the result may overtake those of the steps and find the file not open, or closed by another run: its footer is lost (docs:317) |

Seen while the code was read, and visible in the models though no property is
about them:

* *Engine and HTTP.* A crash between the stored completion and the detached
  `Continue` loses the continuation, and nothing looks for it (handlers.go:389).
  Jobs that were RUNNING at a crash, or whose last write failed, stay so;
  `RunningIsHeld` therefore speaks of runs without either. A job that a second one of
  its case replaces is never run; over SQL the second is refused (worker.go:207). After
  an error return `workCh` stays open, and idle workers wait on it for ever
  (engine.go:432). While an event-based gateway is armed, the first element of the case
  to continue wins it, whichever it is, and the completions of others are dropped
  (engine.go:213-218). A join whose answer meets a failing `CreateFlow` or a crash has
  lost its path, since its arrivals are executed. Stored variables with a name that is
  no identifier are dropped at the next resumption (state.go:201). Go may stop the program
  on a concurrent write of the variables map (state.go:146). Over the SQL store
  `executeElement` never writes the flow it has executed, so its row stays ACTIVE.
* *Parser.* A nested sub-process is dropped (docs:342 has it parsed recursively);
  an inner join counts each flow several times and never completes; `attachedTo`,
  default flows and conditions inside a sub-process stay unprefixed; only one of
  several inner end events gets the exits; a sub-process without a start is
  entered at an empty id; an end event with a message or signal definition
  becomes a throw; unknown tags are dropped.
* *Stores.* The column `current_user` is a reserved word of PostgreSQL and is not
  quoted; the table `ai_audit_log` is not in the migration (nobody calls
  `LogAICall`); `UpdateThread` and `GetActiveFlowsByThread` have no caller.
* *Audit.* A waiting case also gets a footer that says COMPLETED (engine.go:641);
  the events of claimed and completed tasks are never emitted; a handler that runs
  after `Close` opens a file again.
* *AI.* `ai_total_cost` (README.md:84) loses one of two crossing updates, and
  counts neither agents nor failed calls; `estimateCost` takes the first price
  whose name is contained in the model's, in map order, so gpt-4o-mini may be
  priced as gpt-4o; a task that the router has routed has no second provider
  (README.md:77, 163); the search for the same model elsewhere finds the
  unavailable provider's own entry; `findBestMatch` does not look at the pool;
  profiles (README.md:76) are never reached, since `resolveModel` always names a
  model; the text of an agent's error becomes its result.

`TasksCompleteCase` holds in a roundabout way. The second of two parallel user
tasks finds the instance WAITING, so the run ends with an error and drops what
is in its channels; the tasks are ACTIVE in the store all the same, and
completing them leads to the end. That needs the tasks, and the boundary events
that interrupt them, to meet at one gateway before an end event (`TasksMeet`): a task
that leads to an error end event, say, leaves a case that is not COMPLETED.

## 4. Proofs

No theorem assumes more than the `ASSUME`s of its module. `PROJECT.json` lists
the theorems with the property each states.

| module | proves |
|---|---|
| `ProcessGraphProofs` | the types of what elements answer and of the routing |
| `EngineLoopProofs` | `TypeOK`, `PendingAccount`, `NoWorkLost`, `LoopsBounded`, `ErrorChannelHasRoom`, `CompletedIsFinal`, `PoolStopsWithLoop`, `JoinFires`, `InterruptedIsClosed`, `TasksCompleteCase` |
| `ContinuationProofs` | every property of `callers` |
| `JobQueueProofs` | `TypeOK`, `DeadHasLetter`, `RunningIsHeld`, `CallsAllowed`, `AttemptsBounded` |
| `DefinitionsProofs` | `RoutesAsDrawn`, `JoinsCountDrawnFlows`, `LeftThroughOneEnd`, `CallsLeaveDrawnFlows`, `CallsReturn`, and `LeadsBack`, the step of a call |
| `StoresProofs` | `TypeOK`, `RowsAgree`, `AnswersAgree` |
| `AuditProofs` | `StepsNumbered`, `DrainedIsWritten` |
| `AITaskProofs` | `TypeOK`, `FailoverComplete`, `OwnProviderFirst`, `TokensAccounted`, `CostAccounted` |

**EngineLoop.** `IInv` is the type invariant with `PendingAccount` and two facts
it needs: an idle worker holds nothing and a working one holds a flow
(`HoldsInv`), and the loop knows whose flows it enqueues (`CurInv`). The account
is not inductive alone: `pending` falls when a result is received, so
`pending \in Nat` needs the account, the account needs the number of busy workers
to change by one with `Take` and `Deliver` (`BusyChanges`), and that needs
`HoldsInv`. `TypeCorrect` and `PendingAccountCorrect` follow, for every process,
pool, capacity and bound.

Three more invariants are each inductive together with `IInv`:

* `WorkInv`: while the loop can still end well, every scheduled flow is logged, in
  a channel, with a worker or in the loop's hands. The loop reaches `closing`
  only with `pending = 0`; by the account all those places are then empty, so
  everything scheduled is logged (`NothingLost`).
* `StatusInv`: a case being worked on is not stored as COMPLETED, a returned loop
  has ended its context, and an unread error has already moved the instance to
  ERROR, which refuses a second one. `CompletedStaysCompleted`, `PoolStops` and
  `ErrorChannelNeverFull` follow.
* `CountInv`: the accepted results of an element are at most its fail-safe count
  and at most `MaxLoops`. It rests on `NextKeeps`: no step removes a flow record
  or moves it to another element (`LoopsAreBounded`).

That a join fires (`JoinsFire`) has a longer argument: suppose all results of
join `e` were received and none routed on. Each of them said WAIT, so when the
last of these flows was executed, fewer than `Incoming` records of `e` existed,
and all of the flows that waited were among them; but the loop has counted
`Incoming`. To make it inductive, `PlacesInv` says that a scheduled flow whose
result was not received is in exactly one place (a channel, a worker, the loop),
so that the fail-safe count is no more than the flows in no place; `AnswersInv`
that a gateway only waits or routes and no gateway record is in error; `LiveInv`
that without a fault the context lives, so no branch that routes is cut off;
`JoinInv` that, unless the join fired, the flows that waited, received or not,
are fewer than `Incoming`.

For `InterruptedStaysClosed`, `TakenInv` says that while no fault came between and
the case can be taken up, every flow of an activity that is older than a taken
message of an interrupting event of it is closed, and the flows a loop still has
to execute are younger than any taken message: executing one of them cannot open
what was closed. A later arrival at the same activity is a flow of its own, which
is why the property speaks of `1..b`. It
needs `BoundaryAssumption`, that no boundary event is attached to a boundary
event: the record of one that was cancelled looks like that of one that was
taken.

`TasksCompleteTheCase` is about whole cases: first run, aborted run, and every
resumption, until all tasks of a process with `TasksMeet` are done. `MeetInv` says
that a case not stored as COMPLETED is in one of two situations. Either the loop has
one flow alone on the way from the tasks to the end event (`Alone`): at most a sequence
flow, the gateway, a sequence flow and the end event, none of which this run has
counted yet, with nothing else in the channels or with a worker. Or tasks are left to
do, or the loop is closing a completed instance (`Settled`). Both bound the number of
completed tasks by the gateway's records, with one to come while the flow is before
the gateway. So when the flow of the last task is executed at the gateway, at least
`Incoming` records exist, it routes on, and the end event completes the instance,
whatever the earlier runs dropped when they ended in an error. That the completion of
the last task starts one flow alone is what `LeadsTo` is for; that it can start a run
at all, since a case that is not over can be taken up, is in `Statuses`.

**Continuation.** `RaceInv` says what holds of a flow until two callers have it
in hand at once: it is open and in one hand while it is in hand, and the one
caller that completed it has not yet gone on (`FlowsContinuedOnce`,
`ClosedFlowsStayClosed`). It needs `HandInv`, which ties what a caller has in hand to
where it is, and for what an interruption closes `ClosingInv`: only flows of tasks,
which no timer job is for. `AloneInv`: a continuation that runs alone has in its copy
all that was stored and is not refused, as long as the case has its 1 MB, and the
record knows of no variable but those of stored requests (`VariablesAreKept`,
`CompletedStaysStored`).

For the join (`JoinsGoOn`) no race matters, since the records are shared: a flow exists
before any of its siblings is counted, so whoever executes the last arrival counts
them all, unless the store spoils the count. That its answer is not forgotten is a
matter of every step (`Owed`, `Honoured`): it is kept, or given up with its run and
noted in `dropped`, or the path behind the join is there. Hence the property itself
is inductive with `AnswerInv`, by which an answer is one that its element gives and no
record of a gateway is in error.

**JobQueue.** All theorems hold over either store, for any pool, with any failures
and restarts. For `TypeCorrect`, `DeadLetterWritten` and `RunningHeld` the
strengthening says that a polled copy is PENDING and due, that a copy in hand is
RUNNING, that a job is kept under the case of its flow, and that a worker that is
about to mark a job has used up its retries and written its letter.

`CallsAreAllowed` is the refinement of `JobCalls`. Its invariant, `Budget`, is an
account per flow and number of retries: the calls made and those that may still be
made (`Claims`: one of each worker while the record is there to be polled, then one of
each worker that has a copy of it) are at most the size of the pool times the grounds
there are. A poll turns a claim on the record into one on a copy; a write that puts
a copy back as PENDING is the end of a call, which is one more ground for the next
number of retries. `AttemptsAreBounded` is what this says of the calls alone.

**BPMNParser and CallActivity.** The six theorems are about every document and
every number of cases and calls. What all of them need is `AsDrawn(result, doc)`:
the elements, flows and lists that the items of `doc` outside of sub-processes
should have got. The invariant `DrawnInvariant` follows the phases of `Parse`:
while items are read, the items read so far are there and nothing else under their
ids (`ItemsRead`); then they are wired (`AllWired`), have their synthetic flows
(`AllDone`), their exits, and are as drawn. For the sub-processes it also says
that the inner process is there under its prefix, with its lists as they were
inside, and which one of its end events was chosen. `LeftThroughOneEnd` is read off the
last phase.

A case runs on the parsed process or on a copy of it. That a call keeps the
drawing (`StillDrawn`, `CallKeepsDrawing`) needs that it writes only under ids
with a `ca-` prefix, that no id of the document has one, and that the list of an
element that is not called is never renamed; for this the invariant also says that
the ids of the called process have no prefix (`Callee`), however often its lists
have been renamed since.

`CallsLeadBack` is about the step of a call itself: in the process that results, a
called end event leads on along every flow drawn from the call activity, once. A
flow listed twice there would go on twice; that it is not needs that no list of a
called element names a flow of the document, which holds once the lists are renamed
(`Listing`, `RenamedStay`), however often they were renamed before.

`CallsReturnToTheCase` follows a case through its calls to its end. A process is
`Whole` when no way ends but at an end event that no call has added: every flow
leads to an element, a sub-process is entered, a called end event has an exit. A
document that is parsed is whole if it leads on (`DrawnWhole`), and a call keeps
the process whole if the called process leads on and has one end event
(`CallStaysWhole`), since that one gets the exits. `ReturnInvariant` says that
what is stored is what `Parse` left until a call has written to it
(`StoredWell`), and of every case that nothing has disturbed that its flows are
at elements of its process, that it has some while its instance is IN_PROGRESS
and waits at a user task the stored process knows while it is WAITING, and that
at the end of a run its record has the status of its instance (`Moving`): at
rest it can only be COMPLETED. What disturbs a case are the three things
`Undisturbed` excludes, and all are needed: a run that was given up stores
nothing, over a shared process a second call finds lists that the first has
renamed (`EveryCallReturns` in section 3), over a copied one a resumption inside
a call finds a process without it. The hypothesis that the ways lead on is about
the process as it stands; `LedOnBefore` takes it back over a call, so that it
may be used of every earlier state.

The loop over the items of a sub-process is a recursive function (`ReadAll`). That
its equations have a solution on `0..Len(items)` is shown by a least number of items
for which they would have none (`ReadingExists`); what the loop has read after each
item is then the same argument, item by item, as for the loop of `Parse`
(`ReadingSteps`).

`DocumentAssumption` is what the BPMN schema says and `Parse` does not check: an
id names one item of the document, a flow is drawn from a node, and what is
inside a sub-process has ids of its own. Without it the last item of an id would
win, and nothing could be said of the others. `CallAssumption` bounds the runs,
not the parser: the documents that are run or called have only start and end
events, flows, user and script tasks, calls and sub-processes, and those called
no sub-processes. `LeftThroughOneEnd` is exact also for an end event that is
drawn with flows behind it: such a way out leads along those, with and without
the prefix, as well as along the flows of the sub-process.

**Stores.** `SInv` is the type invariant with three facts about a row that no
failed write, no second holder and no second job has touched. `AgreeInv`: it is
in both stores or in neither and, unless a caller has changed what it holds,
reads the same. `HeldInv`: a record in hand is in both stores, whoever else
holds it is noted in `raced`, and its reference to another table is the stored
one. `JobInv`: the instance of a job is in the SQL store, so a dead letter of it
is never refused by the foreign key. `RowsAlwaysAgree` is `AgreeInv` at rest;
`AnswersAlwaysAgree` follows query by query, where a limited query needs that
any finite set of rows has a row that comes first (`LeadingRows`).
`OpeningsAssumption` names what the argument needs of the first contents: rows
of their types, and no job of an unknown instance; `NoneAssumption`, that no
record is the empty answer.

**Audit.** `CountInv` says that until `Close` the step counter of a case is the
number of steps in its trail, the lost ones included, which is what makes the
numbers of `StepsNumbered` inductive; `FilesType` is what it needs of the types.
For `DrainedWasWritten`, `WaitInv` says that the `WaitGroup` counts the
goroutines in the bag, and `ElementInv` that every element a run has executed
has one entry in the trail or waits in the bag: when the counter is zero nothing
waits.

**AITask.** `CallsInv` says of every point of a task which options have been
asked: those before the head of its chain, each failed, and the head only with
calls of tools. `RoutesInv` says that the gateway and model in use are those of
one result of `Resolve` for the model that was asked. `OwnProviderIsFirst` then
rests on the case analysis of `Resolve`. `CatalogAssumption` names what it needs
of the catalog: a positive window, and that a name behind a slash that is itself
a name of the catalog belongs to a model that can do everything, as is the case
for the catalog in the source.

`TokensAreAccounted` and `CostIsRight` are about sums over sets of log entries and
of tasks, which the module takes with `MapThenSumSet`. That fold follows `CHOOSE`
through the set; that its result does not depend on the order, and grows by the
summand when an element is added, is proved once by taking a least counterexample
among the finite subsets (`TotalByAny`, `TotalAdded`, `TotalSame`). `TokenInv`
then says that the tokens of a call are the charges of the rounds of the option in
use, which a failover forgets, and `CostInv` that the stored total is the costs
written so far as long as no two tasks were between reading and writing it.
Prices are natural numbers (`TaskAssumption`).

**Only model-checked.**

* Liveness (`RunReturns`, `JobsSettle`, `DrainReturns`, `TasksReturn`): fairness
  is beyond the prover.
* `InnerStepsAsFlattened`, what flattening makes of the inside of a sub-process.

Every other invariant and action property of the passing runs is stated by a theorem.

## 5. Not modelled

* HTTP middleware, configuration and `main.go`: stateless decoration and wiring.
  The defaults they fix are what the constants stand for.
* AI cache, guard-rails, prompts, schemas, RAG, vector store: not wired by
  `main.go`, or text and number processing on which no control depends.
  Streaming (where an error counts as a complete answer) is not either.
* Metrics, logger and the in-memory audit list.
* `CalculateSchedule`, ISO durations and cron: a timer value is absent, invalid or
  valid. The arithmetic there is not covered: `*/0` divides by zero, `a-b/step` is
  misread, a month is skipped at its end.
* The backoff of a retry and its jitter (retry.go:33): only whether a job is due
  matters in `JobQueue`.
* More flows in flight than `resultCh` holds: a worker's send ignores the context
  there while the loop waits for the worker (engine.go:438). `Cap` is chosen above it.
* What is inside a sub-process, beyond its parsing: the cases that `CallActivity` runs
  go through one, but no run has a gateway or an event there.
* An engine without a queue: `main.go` always sets one.

## 6. How it was built, and what could follow

The modules were written in the order of section 2: the loop first, since all
else runs inside it, then the queue, the callers that overlap, the definitions
the loop runs on, the stores, the audit trail and the AI tasks. Each `Proofs`
module came after TLC had checked its invariants on the run of its module.

What could follow: `JobQueue` composed with `Continuation` in place of the
`TimerFires` that stands for a job; the schedule arithmetic as a function with a
reference definition; and the streaming path of the gateways.
