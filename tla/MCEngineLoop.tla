--------------------------- MODULE MCEngineLoop ---------------------------
(***************************************************************************)
(* Small processes on which TLC explores EngineLoop.                       *)
(***************************************************************************)
EXTENDS EngineLoop, TLC

CONSTANTS w1, w2

Node(type, out) ==
  [Type |-> type, Outgoing |-> out, Incoming |-> 1, GatewayDirection |-> "Unspecified",
   AttachedToRef |-> None, CancelActivity |-> FALSE, Scope |-> None,
   ErrorCode |-> None, TimerValue |-> None, CalledStart |-> None,
   Filter |-> {}]

Fork(out) == [Node("parallelGateway", out) EXCEPT !.GatewayDirection = "Diverging"]
Join(out) == [Node("parallelGateway", out) EXCEPT !.Incoming = 2,
                                                  !.GatewayDirection = "Converging"]

\* start, two script tasks in parallel, join, end
ForkJoinElements == {"start", "fork", "a", "b", "join", "end"}
ForkJoin ==
  [e \in ForkJoinElements |->
     CASE e = "start" -> Node("startEvent", {"fork"})
       [] e = "fork"  -> Fork({"a", "b"})
       [] e \in {"a", "b"} -> Node("scriptTask", {"join"})
       [] e = "join"  -> Join({"end"})
       [] e = "end"   -> Node("endEvent", {})]

\* the same with user tasks, an interrupting boundary timer on the first one
UserTasksElements == {"start", "fork", "a", "b", "flow", "join", "end", "late"}
UserTasks ==
  [e \in UserTasksElements |->
     CASE e = "start" -> Node("startEvent", {"fork"})
       [] e = "fork"  -> Fork({"a", "b"})
       [] e = "a"     -> Node("userTask", {"join"})
       [] e = "b"     -> Node("userTask", {"flow"})
       [] e = "flow"  -> Node("sequenceFlow", {"join"})
       [] e = "late"  -> [Node("timerEvent", {"join"}) EXCEPT
                            !.AttachedToRef = "a", !.CancelActivity = TRUE,
                            !.TimerValue = "valid"]
       [] e = "join"  -> Join({"end"})
       [] e = "end"   -> Node("endEvent", {})]

\* a timer, a service task, a call activity whose end event leads back to the
\* caller, an inclusive choice of throw events
EventsElements ==
  {"start", "timer", "service", "call", "inner", "innerEnd", "choice", "msg", "sig", "end"}
Events ==
  [e \in EventsElements |->
     CASE e = "start"    -> Node("startEvent", {"timer"})
       [] e = "timer"    -> [Node("timerEvent", {"service"}) EXCEPT !.TimerValue = "valid"]
       [] e = "service"  -> Node("serviceTask", {"call"})
       [] e = "call"     -> [Node("callActivity", {}) EXCEPT !.CalledStart = "inner"]
       [] e = "inner"    -> Node("startEvent", {"innerEnd"})
       [] e = "innerEnd" -> [Node("endEvent", {"choice"}) EXCEPT !.Filter = {"choice"}]
       [] e = "choice"   -> Node("inclusiveGateway", {"msg", "sig"})
       [] e = "msg"      -> Node("messageThrow", {"end"})
       [] e = "sig"      -> Node("signalThrow", {"end"})
       [] e = "end"      -> Node("endEvent", {})]

\* two timers, one after the other
TwoTimersElements == {"start", "first", "second", "end"}
TwoTimers ==
  [e \in TwoTimersElements |->
     CASE e = "start"  -> Node("startEvent", {"first"})
       [] e = "first"  -> [Node("timerEvent", {"second"}) EXCEPT !.TimerValue = "valid"]
       [] e = "second" -> [Node("timerEvent", {"end"}) EXCEPT !.TimerValue = "valid"]
       [] e = "end"    -> Node("endEvent", {})]

\* a message, with an interrupting message on its boundary, then a signal, and
\* a catch that leads nowhere at the boundary; a second one leads to the signal
MessagesElements ==
  {"start", "any", "msgCatch", "boundary", "withdraw", "sigCatch", "end"}
Messages ==
  [e \in MessagesElements |->
     CASE e = "start"    -> Node("startEvent", {"any"})
       [] e = "any"      -> Node("eventBasedGateway", {"msgCatch"})
       [] e = "msgCatch" -> Node("messageCatch", {"sigCatch"})
       [] e = "boundary" -> [Node("messageCatch", {}) EXCEPT
                               !.AttachedToRef = "msgCatch", !.CancelActivity = TRUE]
       [] e = "withdraw" -> [Node("messageCatch", {"sigCatch"}) EXCEPT
                               !.AttachedToRef = "msgCatch", !.CancelActivity = TRUE]
       [] e = "sigCatch" -> Node("signalCatch", {"end"})
       [] e = "end"      -> Node("endEvent", {})]

\* errors that race: an AI task that may fail before an error event, an error
\* event nobody catches, a sub-process whose error is caught at its boundary
ErrorsElements ==
  {"start", "split", "ai", "late", "throw", "sub", "innerThrow", "catch", "end"}
Errors ==
  [e \in ErrorsElements |->
     CASE e = "start" -> Node("startEvent", {"split"})
       [] e = "split"  -> Fork({"ai", "throw", "sub"})
       [] e = "ai"    -> Node("aiTask", {"late"})
       [] e \in {"late", "throw"} -> [Node("errorEnd", {}) EXCEPT !.ErrorCode = "code1"]
       [] e = "sub"   -> [Node("subProcess", {"innerThrow", "end"}) EXCEPT
                            !.Filter = {"innerThrow"}]
       [] e = "innerThrow" -> [Node("errorEnd", {}) EXCEPT !.ErrorCode = "code2",
                                                            !.Scope = "sub"]
       [] e = "catch" -> [Node("errorCatch", {"end"}) EXCEPT !.AttachedToRef = "sub"]
       [] e = "end"   -> Node("endEvent", {})]

\* a loop that forks: a task, then an inclusive choice back to it, on, or both
LoopingElements == {"start", "task", "choice", "end"}
Looping ==
  [e \in LoopingElements |->
     CASE e = "start"  -> Node("startEvent", {"task"})
       [] e = "task"   -> Node("scriptTask", {"choice"})
       [] e = "choice" -> Node("inclusiveGateway", {"task", "end"})
       [] e = "end"    -> Node("endEvent", {})]

\* a branch that terminates the case beside one that works
TerminateElements == {"start", "divide", "work", "stop", "end"}
Terminate ==
  [e \in TerminateElements |->
     CASE e = "start" -> Node("startEvent", {"divide"})
       [] e = "divide"  -> Fork({"work", "stop"})
       [] e = "work"  -> Node("scriptTask", {"end"})
       [] e = "stop"  -> Node("terminateEvent", {})
       [] e = "end"   -> Node("endEvent", {})]

\* a user task beside a terminate event (no cfg takes it: TerminatedIsFinal fails on it)
StopBesideTask ==
  [Terminate EXCEPT !["work"].Type = "userTask"]

\* Several processes behind one choice: the exclusive gateway takes one of them.
Choosing(entries) ==
  [e \in {"start", "pick"} |->
     IF e = "start" THEN Node("startEvent", {"pick"}) ELSE Node("exclusiveGateway", entries)]

\* what one run meets: a join, errors, termination, a loop
OneRun ==
  Choosing({"fork", "split", "divide", "task"}) @@ ForkJoin @@ Errors @@ Terminate @@ Looping
OneRunElements == DOMAIN OneRun

\* what people and messages take up again
Tasks ==
  Choosing({"fork", "any"}) @@ UserTasks @@ [Messages EXCEPT !["boundary"].Outgoing = {"end"}]
TasksElements == DOMAIN Tasks

\* what the job queue and messages take up again
Queueing == Choosing({"timer", "any"}) @@ Events @@ Messages
QueueingElements == DOMAIN Queueing
============================================================================
