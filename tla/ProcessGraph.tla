--------------------------- MODULE ProcessGraph ---------------------------
(***************************************************************************)
(* A parsed BPMN process (pkg/bpmn/model.go) and what each of its elements *)
(* may answer when a worker of the engine executes it                      *)
(* (internal/element).  A sequence flow and the element it leads to are  *)
(* both members of Elements, as they both are keys of Process.Elements:    *)
(* Outgoing is what FlowRouter.Route steps to next.  The order of          *)
(* OutgoingFlows is left out: the flows of one element may be created in   *)
(* any order, the one of the file among them.                              *)
(***************************************************************************)
EXTENDS Naturals, FiniteSets

CONSTANTS Elements,  \* the keys of Process.Elements
          Start,     \* Process.StartEventID
          Process,   \* Process.Elements
          None       \* an empty string, an absent reference

ElementType ==
  {"startEvent", "endEvent", "terminateEvent", "timerEvent", "messageThrow",
   "messageCatch", "exclusiveGateway", "parallelGateway", "inclusiveGateway",
   "eventBasedGateway", "userTask", "scriptTask", "serviceTask", "sequenceFlow",
   "subProcess", "errorCatch", "errorEnd", "callActivity", "signalThrow",
   "signalCatch", "aiTask"}

Action ==
  {"ROUTE", "WAIT", "FORM", "ERROR", "COMPLETE", "QUEUE", "TERMINATE",
   "THROW_ERROR", "CALL_ACTIVITY"}

(***************************************************************************)
(* The fields of bpmn.Element that control reads.  Filter is the flow set  *)
(* the parser attaches to an element: the exit flows of the end event of a *)
(* sub-process, the entry flow of a sub-process.  TimerValue tells a timer *)
(* with no value, one CalculateSchedule cannot read and a readable one     *)
(* apart.  Scope is the sub-process an id is prefixed with.                *)
(***************************************************************************)
Element ==
  [Type : ElementType,
   Outgoing : SUBSET Elements,
   Incoming : Nat,
   GatewayDirection : {"Diverging", "Converging", "Unspecified"},
   AttachedToRef : Elements \cup {None},
   CancelActivity : BOOLEAN,
   Scope : Elements \cup {None},
   ErrorCode : {None, "code1", "code2"},
   TimerValue : {None, "invalid", "valid"},
   CalledStart : Elements \cup {None},
   Filter : SUBSET Elements]

ASSUME ProcessAssumption ==
  /\ IsFiniteSet(Elements)
  /\ None \notin Elements
  /\ Start \in Elements
  /\ Process \in [Elements -> Element]
  /\ \A e \in Elements : Process[e].Type = "subProcess" => Process[e].Filter # {}

Of(type) == {e \in Elements : Process[e].Type = type}

(***************************************************************************)
(* element.ExecutionResult: the action, the flow filters (empty means no   *)
(* filter) and whether a continuation time is set.                         *)
(***************************************************************************)
ExecutionResult ==
  [Action : Action, FlowFilters : SUBSET Elements, ContinueAt : BOOLEAN]

Answer(action, filters) ==
  [Action |-> action, FlowFilters |-> filters, ContinueAt |-> FALSE]

----------------------------------------------------------------------------
(* What Execute may answer, one operator per element type.                 *)

StartEvent(e) == {Answer("ROUTE", {})}

SequenceFlow(e) == {Answer("ROUTE", {})}

\* An inner end event routes to the exit flows of its sub-process.
EndEvent(e) ==
  IF Process[e].Filter # {}
  THEN {Answer("ROUTE", Process[e].Filter)}
  ELSE {Answer("COMPLETE", {})}

TerminateEvent(e) == {Answer("TERMINATE", {})}

ErrorEndEvent(e) == {Answer("THROW_ERROR", {})}

ErrorCatchEvent(e) == {Answer("ROUTE", {})}

ThrowEvent(e) == {Answer("ROUTE", {})}

CatchEvent(e) == {Answer("WAIT", {})}

\* A value CalculateSchedule cannot read parks the flow with no date.
TimerEvent(e) ==
  CASE Process[e].TimerValue = None      -> {Answer("ROUTE", {})}
    [] Process[e].TimerValue = "invalid" -> {Answer("WAIT", {})}
    [] OTHER -> {[Answer("WAIT", {}) EXCEPT !.ContinueAt = TRUE]}

\* The conditions are data: any one outgoing flow may be the one that matches.
ExclusiveGateway(e) ==
  IF Process[e].GatewayDirection = "Converging" \/ Process[e].Outgoing = {}
  THEN {Answer("ROUTE", {})}
  ELSE {Answer("ROUTE", {o}) : o \in Process[e].Outgoing}

InclusiveGateway(e) ==
  IF \/ Process[e].GatewayDirection = "Converging"
     \/ Cardinality(Process[e].Outgoing) <= 1
  THEN {Answer("ROUTE", {})}
  ELSE {Answer("ROUTE", S) : S \in SUBSET Process[e].Outgoing \ {{}}}

\* A gateway that synchronises: declared converging, or undeclared with
\* several ways in and at most one way out.
Joins(e) ==
  \/ Process[e].GatewayDirection = "Converging"
  \/ /\ Process[e].GatewayDirection = "Unspecified"
     /\ Cardinality(Process[e].Outgoing) <= 1
     /\ Process[e].Incoming > 1

\* complete is the answer of areAllIncomingComplete.
ParallelGateway(e, complete) ==
  IF Joins(e) /\ ~complete
  THEN {Answer("WAIT", {})}
  ELSE {Answer("ROUTE", {})}

EventBasedGateway(e) ==
  IF \/ Process[e].GatewayDirection = "Converging"
     \/ Cardinality(Process[e].Outgoing) <= 1
  THEN {Answer("ROUTE", {})}
  ELSE {Answer("WAIT", {})}

UserTask(e) == {Answer("FORM", {})}

ServiceTask(e) == {Answer("QUEUE", {})}

ScriptTask(e) == {Answer("ROUTE", {})}

\* The gateway, the guard-rails or an agent may fail.
AITask(e) == {Answer("ROUTE", {}), Answer("ERROR", {})}

SubProcess(e) == {Answer("ROUTE", Process[e].Filter)}

CallActivity(e) ==
  IF Process[e].CalledStart = None
  THEN {Answer("ROUTE", {})}
  ELSE {Answer("CALL_ACTIVITY", {})}

\* The registry's dispatch on the type of the element.
Execute(e, complete) ==
  CASE Process[e].Type = "startEvent"        -> StartEvent(e)
    [] Process[e].Type = "sequenceFlow"      -> SequenceFlow(e)
    [] Process[e].Type = "endEvent"          -> EndEvent(e)
    [] Process[e].Type = "terminateEvent"    -> TerminateEvent(e)
    [] Process[e].Type = "errorEnd"          -> ErrorEndEvent(e)
    [] Process[e].Type = "errorCatch"        -> ErrorCatchEvent(e)
    [] Process[e].Type \in {"messageThrow", "signalThrow"} -> ThrowEvent(e)
    [] Process[e].Type \in {"messageCatch", "signalCatch"} -> CatchEvent(e)
    [] Process[e].Type = "timerEvent"        -> TimerEvent(e)
    [] Process[e].Type = "exclusiveGateway"  -> ExclusiveGateway(e)
    [] Process[e].Type = "inclusiveGateway"  -> InclusiveGateway(e)
    [] Process[e].Type = "parallelGateway"   -> ParallelGateway(e, complete)
    [] Process[e].Type = "eventBasedGateway" -> EventBasedGateway(e)
    [] Process[e].Type = "userTask"          -> UserTask(e)
    [] Process[e].Type = "serviceTask"       -> ServiceTask(e)
    [] Process[e].Type = "scriptTask"        -> ScriptTask(e)
    [] Process[e].Type = "aiTask"            -> AITask(e)
    [] Process[e].Type = "subProcess"        -> SubProcess(e)
    [] Process[e].Type = "callActivity"      -> CallActivity(e)

\* Execute leaves the flow record of these elements ACTIVE.
LeavesActive(e) ==
  Process[e].Type \in {"startEvent", "timerEvent", "messageCatch", "signalCatch",
                       "userTask", "serviceTask"}

----------------------------------------------------------------------------
(* Routing.                                                                *)

\* FlowRouter.Route: the outgoing flows that pass the filters of the result.
Route(e, r) ==
  CASE r.Action \notin {"ROUTE", "QUEUE"} -> {}
    [] r.FlowFilters = {} -> Process[e].Outgoing
    [] OTHER -> Process[e].Outgoing \cap r.FlowFilters

isEndEvent(e) == Process[e].Type \in {"endEvent", "terminateEvent"}

\* The error catches attached to a scope that take the code of element e.
CatchesAt(scope, e) ==
  {c \in Of("errorCatch") :
     /\ Process[c].AttachedToRef = scope
     /\ Process[c].ErrorCode \in {None, Process[e].ErrorCode}}

\* findErrorCatch: the enclosing sub-process first, then the element itself,
\* then a global catch.  Of several matches the map order picks any.
findErrorCatch(e) ==
  LET inner == IF Process[e].Scope = None THEN {} ELSE CatchesAt(Process[e].Scope, e)
  IN  IF inner # {} THEN inner
      ELSE IF CatchesAt(e, e) # {} THEN CatchesAt(e, e)
      ELSE CatchesAt(None, e)

\* The boundary events scheduleBoundaryTimers arms beside a waiting element.
BoundaryTimers(e) ==
  {b \in Of("timerEvent") :
     Process[b].AttachedToRef = e /\ Process[b].TimerValue = "valid"}

BoundaryMessages(e) == {b \in Of("messageCatch") : Process[b].AttachedToRef = e}
============================================================================
