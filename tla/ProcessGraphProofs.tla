------------------------- MODULE ProcessGraphProofs -------------------------
(***************************************************************************)
(* Where the answers of the elements may lead, for every process.          *)
(***************************************************************************)
EXTENDS ProcessGraph, TLAPS, FiniteSetTheorems

\* Every answer of every element is a result with a known action.
LEMMA ExecuteType ==
  ASSUME NEW e \in Elements, NEW c \in BOOLEAN
  PROVE  Execute(e, c) \subseteq ExecutionResult
<1> USE ProcessAssumption
<1>1. Process[e] \in Element
  OBVIOUS
<1>2. /\ Process[e].Outgoing \subseteq Elements
      /\ Process[e].Filter \subseteq Elements
      /\ Process[e].Type \in ElementType
  BY <1>1 DEF Element
<1>3. \A action \in Action, S \in SUBSET Elements :
        /\ Answer(action, S) \in ExecutionResult
        /\ [Answer(action, S) EXCEPT !.ContinueAt = TRUE] \in ExecutionResult
  BY DEF Answer, ExecutionResult
<1>4. TimerEvent(e) \subseteq ExecutionResult
  BY <1>1, <1>3 DEF TimerEvent, Action
<1>5. ExclusiveGateway(e) \subseteq ExecutionResult
  BY <1>2, <1>3 DEF ExclusiveGateway, Action
<1>6. InclusiveGateway(e) \subseteq ExecutionResult
  BY <1>2, <1>3 DEF InclusiveGateway, Action
<1>7. EndEvent(e) \subseteq ExecutionResult /\ SubProcess(e) \subseteq ExecutionResult
  BY <1>2, <1>3 DEF EndEvent, SubProcess, Action
<1>8. /\ ParallelGateway(e, c) \subseteq ExecutionResult
      /\ EventBasedGateway(e) \subseteq ExecutionResult
      /\ CallActivity(e) \subseteq ExecutionResult
      /\ AITask(e) \subseteq ExecutionResult
  BY <1>2, <1>3 DEF ParallelGateway, EventBasedGateway, CallActivity, AITask, Action
<1>9. /\ StartEvent(e) \subseteq ExecutionResult
      /\ SequenceFlow(e) \subseteq ExecutionResult
      /\ TerminateEvent(e) \subseteq ExecutionResult
      /\ ErrorEndEvent(e) \subseteq ExecutionResult
      /\ ErrorCatchEvent(e) \subseteq ExecutionResult
      /\ ThrowEvent(e) \subseteq ExecutionResult
      /\ CatchEvent(e) \subseteq ExecutionResult
      /\ UserTask(e) \subseteq ExecutionResult
      /\ ServiceTask(e) \subseteq ExecutionResult
      /\ ScriptTask(e) \subseteq ExecutionResult
  BY <1>3 DEF StartEvent, SequenceFlow, TerminateEvent, ErrorEndEvent, ErrorCatchEvent,
     ThrowEvent, CatchEvent, UserTask, ServiceTask, ScriptTask, Action
<1> QED
  BY <1>2, <1>4, <1>5, <1>6, <1>7, <1>8, <1>9 DEF Execute, ElementType

\* Routing and error catching stay inside the process.
LEMMA NextFlowsType ==
  ASSUME NEW e \in Elements, NEW r \in ExecutionResult
  PROVE  /\ Route(e, r) \subseteq Elements
         /\ findErrorCatch(e) \subseteq Elements
         /\ BoundaryTimers(e) \cup BoundaryMessages(e) \subseteq Elements
<1>1. Process[e] \in Element
  BY ProcessAssumption
<1>2. Route(e, r) \subseteq Elements
  BY <1>1 DEF Route, Element
<1>3. findErrorCatch(e) \subseteq Elements
  BY DEF findErrorCatch, CatchesAt, Of
<1> QED
  BY <1>2, <1>3 DEF BoundaryTimers, BoundaryMessages, Of
=============================================================================
