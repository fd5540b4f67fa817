-------------------------- MODULE EngineLoopProofs --------------------------
(***************************************************************************)
(* What TLAPS proves of EngineLoop, for every process, pool and bound:     *)
(* that pending counts the work there is, and what a run promises when it  *)
(* ends: the status it leaves, the work it has done, how often it has      *)
(* executed an element, that its joins fire, that an interrupted activity  *)
(* is closed and that tasks that meet complete their case.                 *)
(***************************************************************************)
EXTENDS EngineLoop, ProcessGraphProofs, TLAPS, FiniteSetTheorems, SequenceTheorems

----------------------------------------------------------------------------
(* The inductive invariant.                                                *)

\* A worker holds a flow exactly while it works on it; one that left may have
\* dropped its last.
HoldsInv ==
  \A w \in Workers :
    /\ wpc[w] = "idle" => holds[w] = 0
    /\ wpc[w] \in {"executing", "sending"} => holds[w] # 0

\* While flows are being enqueued, the loop knows whose they are.
CurInv == pc \in {"create", "send"} => cur # 0

IInv == TypeOK /\ HoldsInv /\ CurInv /\ PendingAccount

----------------------------------------------------------------------------
(* The state before a step.                                                *)

\* The workers that hold a flow can be counted.
LEMMA BusyFinite ==
  IsFiniteSet(Busy) /\ Cardinality(Busy) \in Nat
<1>1. Busy \subseteq Workers /\ IsFiniteSet(Workers)
  BY EngineAssumption DEF Busy
<1> QED
  BY <1>1, FS_Subset, FS_CardinalityType

\* A result that is there to be received names a flow record, and it is on the
\* pending account.
LEMMA ResultFacts ==
  ASSUME IInv, pc = "select", resultCh # <<>>
  PROVE  /\ current \in FlowID /\ current # 0
         /\ element \in Elements
         /\ result.ans \in ExecutionResult
         /\ Tail(resultCh) \in Seq([flow : FlowID, ans : ExecutionResult])
         /\ pending - 1 \in Nat
         /\ pending - 1 = Len(workCh) + Cardinality(Busy) + Len(Tail(resultCh))
<1>1. /\ resultCh \in Seq([flow : FlowID, ans : ExecutionResult])
      /\ flows \in Seq(FlowRecord) /\ workCh \in Seq(FlowID)
  BY DEF IInv, TypeOK, ChannelType, StoreType
<1>2. /\ result \in [flow : FlowID, ans : ExecutionResult]
      /\ Tail(resultCh) \in Seq([flow : FlowID, ans : ExecutionResult])
      /\ Len(Tail(resultCh)) = Len(resultCh) - 1
      /\ Len(resultCh) \in Nat \ {0} /\ Len(workCh) \in Nat
  BY <1>1, HeadTailProperties, EmptySeq, LenProperties DEF result
<1>3. current \in FlowID /\ result.ans \in ExecutionResult
  BY <1>2 DEF current
<1>4. flows[current] \in FlowRecord /\ current # 0
  BY <1>1, <1>3, ElementOfSeq DEF FlowID
<1>5. element \in Elements
  BY <1>4 DEF element, FlowRecord
<1>6. pending = Len(workCh) + Cardinality(Busy) + Len(resultCh)
  BY <1>2, BusyFinite DEF IInv, PendingAccount, Quiescent
<1> QED
  BY <1>2, <1>3, <1>4, <1>5, <1>6, BusyFinite

\* Taking a result leaves the types of the channels, the pool and the counters.
LEMMA ReceivedType ==
  ASSUME IInv, NEW A, Received(A), UNCHANGED flows, closed' \in BOOLEAN, faults' \in Nat
  PROVE  ChannelType' /\ PoolType' /\ CounterType'
<1> USE DEF Received
<1>1. /\ Tail(resultCh) \in Seq([flow : FlowID, ans : ExecutionResult])
      /\ element \in Elements
  BY ResultFacts
<1>2. ChannelType'
  BY <1>1 DEF IInv, TypeOK, ChannelType, FlowID
<1>3. PoolType'
  BY DEF IInv, TypeOK, PoolType, FlowID, poolVars
<1>4. CounterType'
  BY <1>1 DEF IInv, TypeOK, CounterType
<1> QED
  BY <1>2, <1>3, <1>4

\* A step that takes a result off the account preserves the rest of the
\* invariant.
LEMMA ReceivedInv ==
  ASSUME IInv, TypeOK', NEW A, Received(A),
         pending' = pending - 1, pc' # "send", pc' = "create" => cur' # 0
  PROVE  IInv'
<1> USE DEF Received
<1>1. pending - 1 = Len(workCh) + Cardinality(Busy) + Len(Tail(resultCh))
  BY ResultFacts
<1>2. HoldsInv' /\ CurInv'
  BY DEF IInv, HoldsInv, CurInv, poolVars
<1>3. Busy' = Busy
  BY DEF Busy, poolVars
<1>4. Len(workCh) \in Nat /\ Len(resultCh') \in Nat
  BY LenProperties DEF IInv, TypeOK, ChannelType
<1>5. PendingAccount'
  BY <1>1, <1>3, <1>4, BusyFinite DEF PendingAccount, Quiescent
<1> QED
  BY <1>2, <1>5 DEF IInv

\* The three ways handleResult ends keep the locals of the loop well typed.
LEMMA HandledType ==
  ASSUME IInv, NEW f \in FlowID, NEW left \in Nat, Handled(f, left),
         UNCHANGED flows, errs' \in Nat
  PROVE  LoopType' /\ closed' \in BOOLEAN
<1>1. LoopType'
  BY DEF IInv, TypeOK, LoopType, FlowID, Handled
<1>2. closed' \in BOOLEAN
  BY DEF IInv, TypeOK, ChannelType, Handled
<1> QED
  BY <1>1, <1>2

LEMMA EnqueuingType ==
  ASSUME IInv, NEW f \in FlowID, NEW S \in SUBSET Elements, NEW fork \in BOOLEAN,
         Enqueuing(f, S, fork), pending - 1 \in Nat, UNCHANGED flows, errs' \in Nat
  PROVE  LoopType' /\ closed' \in BOOLEAN
BY DEF IInv, TypeOK, LoopType, ChannelType, FlowID, Enqueuing

LEMMA FailedType ==
  ASSUME IInv, Return("error"), pending - 1 \in Nat, pending' = pending - 1,
         UNCHANGED <<flows, forked, scheduled, closed>>,
         logged' \subseteq FlowID, errs' \in Nat
  PROVE  LoopType' /\ closed' \in BOOLEAN
BY DEF IInv, TypeOK, LoopType, ChannelType, FlowID, Return

----------------------------------------------------------------------------
(* handleResult preserves it, one lemma per action.                        *)

LEMMA HandleRouteInv ==
  ASSUME IInv, HandleRoute PROVE IInv'
<1> USE DEF HandleRoute
<1>1. Received({"ROUTE"})
  OBVIOUS
<1>2. /\ current \in FlowID /\ current # 0
      /\ element \in Elements
      /\ result.ans \in ExecutionResult
      /\ pending - 1 \in Nat
  BY <1>1, ResultFacts DEF Received
<1>3. UNCHANGED flows /\ errs' \in Nat /\ faults' \in Nat
  BY DEF IInv, TypeOK, LoopType, CounterType, storeVars
<1>4. Route(element, result.ans) \subseteq Elements
  BY <1>2, NextFlowsType
<1>5. StoreType'
  BY <1>2 DEF IInv, TypeOK, StoreType, FlowID, storeVars
<1>6. InstanceType'
  BY DEF IInv, TypeOK, InstanceType, TryComplete, instVars, State
<1>7. LoopType' /\ closed' \in BOOLEAN
  <2> DEFINE next == Route(element, result.ans)
  <2>1. CASE next # {}
    <3>1. Enqueuing(current, next, Cardinality(next) > 1)
      BY <2>1
    <3>2. (Cardinality(next) > 1) \in BOOLEAN
      OBVIOUS
    <3> QED
      BY <1>2, <1>3, <1>4, <3>1, <3>2, EnqueuingType
  <2>2. CASE next = {}
    BY <1>2, <1>3, <2>2, HandledType
  <2> QED
    BY <2>1, <2>2
<1>8. TypeOK'
  BY <1>1, <1>3, <1>5, <1>6, <1>7, ReceivedType DEF TypeOK
<1> QED
  BY <1>1, <1>2, <1>8, ReceivedInv DEF Handled, Enqueuing

LEMMA HandleErrorInv ==
  ASSUME IInv, HandleError PROVE IInv'
<1> USE DEF HandleError
<1>1. Received({"ERROR"})
  OBVIOUS
<1>2. /\ current \in FlowID /\ current # 0
      /\ element \in Elements
      /\ result.ans \in ExecutionResult
      /\ pending - 1 \in Nat
  BY <1>1, ResultFacts DEF Received
<1>3. UNCHANGED flows /\ errs' \in Nat /\ faults' \in Nat
  BY DEF IInv, TypeOK, LoopType, CounterType, storeVars
<1>5. StoreType'
  BY <1>2 DEF IInv, TypeOK, StoreType, FlowID, storeVars
<1>6. InstanceType'
  BY DEF IInv, TypeOK, InstanceType, State
<1>7. LoopType' /\ closed' \in BOOLEAN
  BY <1>2, <1>3, FailedType DEF Failed, Return, IInv, TypeOK, LoopType
<1>8. TypeOK'
  BY <1>1, <1>3, <1>5, <1>6, <1>7, ReceivedType DEF TypeOK
<1> QED
  BY <1>1, <1>2, <1>8, ReceivedInv DEF Return, Failed

LEMMA HandleCompleteInv ==
  ASSUME IInv, HandleComplete PROVE IInv'
<1> USE DEF HandleComplete
<1>1. Received({"COMPLETE"})
  OBVIOUS
<1>2. /\ current \in FlowID /\ current # 0
      /\ element \in Elements
      /\ result.ans \in ExecutionResult
      /\ pending - 1 \in Nat
  BY <1>1, ResultFacts DEF Received
<1>3. UNCHANGED flows /\ errs' \in Nat /\ faults' \in Nat
  BY DEF IInv, TypeOK, LoopType, CounterType, storeVars
<1>5. StoreType'
  BY <1>2 DEF IInv, TypeOK, StoreType, FlowID, storeVars
<1>6. InstanceType'
  BY DEF IInv, TypeOK, InstanceType, TryComplete, State
<1>7. LoopType' /\ closed' \in BOOLEAN
  BY <1>2, <1>3, HandledType
<1>8. TypeOK'
  BY <1>1, <1>3, <1>5, <1>6, <1>7, ReceivedType DEF TypeOK
<1> QED
  BY <1>1, <1>2, <1>8, ReceivedInv DEF Handled

LEMMA HandleThrowErrorInv ==
  ASSUME IInv, HandleThrowError PROVE IInv'
<1> USE DEF HandleThrowError
<1>1. Received({"THROW_ERROR"})
  OBVIOUS
<1>2. /\ current \in FlowID /\ current # 0
      /\ element \in Elements
      /\ result.ans \in ExecutionResult
      /\ pending - 1 \in Nat
  BY <1>1, ResultFacts DEF Received
<1>3. UNCHANGED flows /\ errs' \in Nat /\ faults' \in Nat
  <2>1. UNCHANGED flows /\ faults' \in Nat
    BY DEF IInv, TypeOK, CounterType, storeVars
  <2>2. errs' = errs \/ errs' = errs + 1
    OBVIOUS
  <2> QED
    BY <2>1, <2>2 DEF IInv, TypeOK, LoopType
<1>4. findErrorCatch(element) \subseteq Elements
  BY <1>2, NextFlowsType
<1>5. StoreType'
  BY <1>2 DEF IInv, TypeOK, StoreType, FlowID, storeVars
<1>6. InstanceType'
  BY DEF IInv, TypeOK, InstanceType, State
<1>7. LoopType' /\ closed' \in BOOLEAN
  <2>1. CASE \E c \in findErrorCatch(element) : Enqueuing(current, {c}, FALSE)
    BY <1>2, <1>3, <1>4, <2>1, EnqueuingType
  <2>2. CASE Handled(current, pending - 1)
    BY <1>2, <1>3, <2>2, HandledType
  <2>3. CASE Failed
    BY <1>2, <1>3, <2>3, FailedType DEF Failed, IInv, TypeOK, LoopType
  <2> QED
    BY <2>1, <2>2, <2>3
<1>8. TypeOK'
  BY <1>1, <1>3, <1>5, <1>6, <1>7, ReceivedType DEF TypeOK
<1> QED
  BY <1>1, <1>2, <1>8, ReceivedInv DEF Return, Failed, Handled, Enqueuing

LEMMA HandleTerminateInv ==
  ASSUME IInv, HandleTerminate PROVE IInv'
<1> USE DEF HandleTerminate
<1>1. Received({"TERMINATE"})
  OBVIOUS
<1>2. /\ current \in FlowID /\ current # 0
      /\ element \in Elements
      /\ result.ans \in ExecutionResult
      /\ pending - 1 \in Nat
  BY <1>1, ResultFacts DEF Received
<1>3. UNCHANGED flows /\ errs' \in Nat /\ faults' \in Nat
  BY DEF IInv, TypeOK, LoopType, CounterType, StoreFails, CallFails
<1>5. StoreType'
  BY <1>2 DEF IInv, TypeOK, StoreType, FlowID
<1>6. InstanceType'
  BY DEF IInv, TypeOK, InstanceType, State
<1>7. LoopType' /\ closed' \in BOOLEAN
  BY <1>2, <1>3, FailedType DEF Failed, IInv, TypeOK, LoopType
<1>8. TypeOK'
  BY <1>1, <1>3, <1>5, <1>6, <1>7, ReceivedType DEF TypeOK
<1> QED
  BY <1>1, <1>2, <1>8, ReceivedInv DEF Return, Failed

LEMMA HandleCallActivityInv ==
  ASSUME IInv, HandleCallActivity PROVE IInv'
<1> USE DEF HandleCallActivity
<1>1. Received({"CALL_ACTIVITY"})
  OBVIOUS
<1>2. /\ current \in FlowID /\ current # 0
      /\ element \in Elements
      /\ result.ans \in ExecutionResult
      /\ pending - 1 \in Nat
  BY <1>1, ResultFacts DEF Received
<1>3. UNCHANGED flows /\ errs' \in Nat /\ faults' \in Nat
  <2>1. UNCHANGED flows /\ errs' = errs
    BY DEF storeVars
  <2>2. faults' = faults \/ faults' = faults + 1
    BY DEF StoreFails, CallFails
  <2> QED
    BY <2>1, <2>2 DEF IInv, TypeOK, LoopType, CounterType
<1>4. Process[element].CalledStart \in Elements \cup {None}
  BY <1>2, ProcessAssumption DEF Element
<1>5. StoreType'
  BY <1>2 DEF IInv, TypeOK, StoreType, FlowID, storeVars
<1>6. InstanceType'
  BY DEF IInv, TypeOK, InstanceType, instVars
<1>7. LoopType' /\ closed' \in BOOLEAN
  <2>1. CASE /\ Process[element].CalledStart # None
             /\ Enqueuing(current, {Process[element].CalledStart}, FALSE)
    BY <1>2, <1>3, <1>4, <2>1, EnqueuingType
  <2>2. CASE Failed
    BY <1>2, <1>3, <2>2, FailedType DEF Failed, IInv, TypeOK, LoopType
  <2> QED
    BY <2>1, <2>2
<1>8. TypeOK'
  BY <1>1, <1>3, <1>5, <1>6, <1>7, ReceivedType DEF TypeOK
<1> QED
  BY <1>1, <1>2, <1>8, ReceivedInv DEF Return, Failed, Enqueuing

\* Whatever the queue keeps was there or has just been due.
LEMMA QueuedType ==
  ASSUME NEW F, jobs \subseteq F, NEW due \in SUBSET F
  PROVE  Queued(due) \subseteq SUBSET F
BY DEF Queued

LEMMA HandleQueueInv ==
  ASSUME IInv, HandleQueue PROVE IInv'
<1> USE DEF HandleQueue
<1>1. Received({"QUEUE"})
  OBVIOUS
<1>2. /\ current \in FlowID /\ current # 0
      /\ element \in Elements
      /\ result.ans \in ExecutionResult
      /\ pending - 1 \in Nat
  BY <1>1, ResultFacts DEF Received
<1>3. UNCHANGED flows /\ errs' \in Nat /\ faults' \in Nat
  BY DEF IInv, TypeOK, LoopType, CounterType, StoreFails, CallFails
<1>4. Route(element, result.ans) \subseteq Elements
  BY <1>2, NextFlowsType
<1>5. StoreType'
  <2>1. Queued({current}) \subseteq SUBSET FlowID
    BY <1>2, QueuedType DEF IInv, TypeOK, StoreType
  <2>2. jobs' \subseteq FlowID /\ UNCHANGED <<stored, flows, threads>>
    BY <2>1 DEF IInv, TypeOK, StoreType
  <2> QED
    BY <2>2 DEF IInv, TypeOK, StoreType, FlowID
<1>6. InstanceType'
  BY DEF IInv, TypeOK, InstanceType, instVars
<1>7. LoopType' /\ closed' \in BOOLEAN
  <2> DEFINE next == Route(element, result.ans)
  <2>1. CASE Enqueuing(current, next, FALSE)
    BY <1>2, <1>3, <1>4, <2>1, EnqueuingType
  <2>2. CASE Handled(current, pending - 1)
    BY <1>2, <1>3, <2>2, HandledType
  <2> QED
    BY <2>1, <2>2
<1>8. TypeOK'
  BY <1>1, <1>3, <1>5, <1>6, <1>7, ReceivedType DEF TypeOK
<1> QED
  BY <1>1, <1>2, <1>8, ReceivedInv DEF Handled, Enqueuing

----------------------------------------------------------------------------
(* Steps that create flow records.                                         *)

\* What names a flow record goes on naming one when records are added.
LEMMA FlowsGrow ==
  ASSUME IInv, flows' \in Seq(FlowRecord), Len(flows) <= Len(flows')
  PROVE  /\ FlowID \subseteq FlowID'
         /\ workCh \in Seq(FlowID')
         /\ resultCh \in Seq([flow : FlowID', ans : ExecutionResult])
         /\ holds \in [Workers -> FlowID' \cup {0}]
<1>1. Len(flows) \in Nat /\ Len(flows') \in Nat
  BY LenProperties DEF IInv, TypeOK, StoreType
<1>2. FlowID \subseteq FlowID'
  BY <1>1 DEF FlowID
<1>3. workCh \in Seq(FlowID')
  BY <1>2, SeqMonotonic DEF IInv, TypeOK, ChannelType
<1>4. [flow : FlowID, ans : ExecutionResult] \subseteq [flow : FlowID', ans : ExecutionResult]
  BY <1>2
<1>5. resultCh \in Seq([flow : FlowID', ans : ExecutionResult])
  BY <1>4, SeqMonotonic DEF IInv, TypeOK, ChannelType
<1> QED
  BY <1>2, <1>3, <1>5 DEF IInv, TypeOK, PoolType

\* The flow records for an order of a set of elements.
LEMMA FlowRecordsType ==
  ASSUME NEW S, S \subseteq Elements, NEW s \in Orders(S), NEW thread \in Nat
  PROVE  /\ Cardinality(S) \in Nat
         /\ Len(s) = Cardinality(S) /\ DOMAIN s = 1..Cardinality(S)
         /\ FlowRecords(s, thread) \in Seq(FlowRecord)
         /\ Len(FlowRecords(s, thread)) = Cardinality(S)
<1>1. Cardinality(S) \in Nat
  BY ProcessAssumption, FS_Subset, FS_CardinalityType
<1>2. s \in [1..Cardinality(S) -> S]
  BY DEF Orders
<1>3. Len(s) = Cardinality(S) /\ DOMAIN s = 1..Cardinality(S)
  BY <1>1, <1>2
<1>4. \A i \in DOMAIN s : CreateFlowRecord(s[i], thread) \in FlowRecord
  BY <1>2 DEF CreateFlowRecord, FlowRecord, FlowStatus
<1>5. FlowRecords(s, thread) \in [1..Cardinality(S) -> FlowRecord]
  BY <1>3, <1>4 DEF FlowRecords
<1> QED
  BY <1>1, <1>3, <1>5

LEMMA NewRecords ==
  ASSUME NEW S, S \subseteq Elements, NEW s \in Orders(S), NEW thread \in Nat
  PROVE  LET recs == FlowRecords(s, thread) IN
         /\ recs \in Seq(FlowRecord) /\ Len(recs) \in Nat /\ DOMAIN s = 1..Len(recs)
         /\ \A i \in 1..Len(recs) : recs[i].status = "ACTIVE"
<1>1. \A i \in DOMAIN s : FlowRecords(s, thread)[i].status = "ACTIVE"
  BY DEF FlowRecords, CreateFlowRecord
<1> QED
  BY <1>1, FlowRecordsType

LEMMA HandleWaitInv ==
  ASSUME IInv, HandleWait PROVE IInv'
<1>1. Received({"WAIT", "FORM"})
  BY DEF HandleWait
<1>2. /\ current \in FlowID /\ current # 0
      /\ element \in Elements
      /\ result.ans \in ExecutionResult
      /\ pending - 1 \in Nat
      /\ Tail(resultCh) \in Seq([flow : FlowID, ans : ExecutionResult])
      /\ pending - 1 = Len(workCh) + Cardinality(Busy) + Len(Tail(resultCh))
  BY <1>1, ResultFacts DEF Received
<1>3. CASE Failed
  <2>1. UNCHANGED <<stored, flows, threads, jobs>> \/ ~Failed
    <3>1. pc' = "returned"
      BY <1>3 DEF Failed, Return
    <3>2. ~Handled(current, pending - 1)
      BY <3>1 DEF Handled
    <3> QED
      BY <3>2 DEF HandleWait
  <2>2. UNCHANGED <<stored, flows, threads, jobs, errs, completed, threadSeq>>
    BY <1>3, <2>1 DEF HandleWait
  <2>3. istate' \in State /\ faults' \in Nat
    BY <1>3 DEF HandleWait, Failed, Return, Handled, IInv, TypeOK, InstanceType, CounterType, State,
       StoreFails, CallFails
  <2>4. StoreType' /\ InstanceType'
    BY <2>2, <2>3 DEF IInv, TypeOK, StoreType, InstanceType, FlowID
  <2>5. LoopType' /\ closed' \in BOOLEAN
    BY <1>2, <1>3, <2>2, FailedType DEF Failed, IInv, TypeOK, LoopType
  <2>6. TypeOK'
    BY <1>1, <2>2, <2>3, <2>4, <2>5, ReceivedType DEF TypeOK
  <2> QED
    BY <1>1, <1>3, <2>6, ReceivedInv DEF Failed, Return
<1>4. CASE ~Failed
  <2> DEFINE boundary == BoundaryTimers(element) \cup BoundaryMessages(element)
  <2>1. PICK unarmed \in SUBSET boundary : \E s \in Orders(boundary \ unarmed) :
          LET due == {Len(flows) + i : i \in {k \in DOMAIN s : s[k] \in Of("timerEvent")}}
                       \cup (IF result.ans.ContinueAt THEN {current} ELSE {})
          IN \E lost \in SUBSET due :
               /\ flows' = flows \o FlowRecords(s, flows[current].thread)
               /\ jobs' \in Queued(due \ lost)
               /\ IF unarmed = {} /\ lost = {} THEN UNCHANGED faults ELSE StoreFails
    BY <1>4 DEF HandleWait
  <2>2. PICK s \in Orders(boundary \ unarmed) :
          LET due == {Len(flows) + i : i \in {k \in DOMAIN s : s[k] \in Of("timerEvent")}}
                       \cup (IF result.ans.ContinueAt THEN {current} ELSE {})
          IN \E lost \in SUBSET due :
               /\ flows' = flows \o FlowRecords(s, flows[current].thread)
               /\ jobs' \in Queued(due \ lost)
               /\ IF unarmed = {} /\ lost = {} THEN UNCHANGED faults ELSE StoreFails
    BY <2>1
  <2>3. /\ istate' = "WAITING" /\ Handled(current, pending - 1)
        /\ UNCHANGED <<stored, threads, completed, threadSeq, errs>>
    BY <1>4 DEF HandleWait
  <2>4. flows \in Seq(FlowRecord) /\ flows[current].thread \in Nat
    <3>1. flows \in Seq(FlowRecord)
      BY DEF IInv, TypeOK, StoreType
    <3>2. flows[current] \in FlowRecord
      BY <1>2, <3>1, ElementOfSeq DEF FlowID
    <3> QED
      BY <3>1, <3>2 DEF FlowRecord
  <2>5. boundary \ unarmed \in SUBSET Elements
    BY <1>2, NextFlowsType
  <2> HIDE DEF boundary
  <2>6. /\ flows' \in Seq(FlowRecord)
        /\ Len(flows') = Len(flows) + Cardinality(boundary \ unarmed)
        /\ Cardinality(boundary \ unarmed) \in Nat
        /\ DOMAIN s = 1..Cardinality(boundary \ unarmed)
    <3>1. /\ Cardinality(boundary \ unarmed) \in Nat
          /\ DOMAIN s = 1..Cardinality(boundary \ unarmed)
          /\ FlowRecords(s, flows[current].thread) \in Seq(FlowRecord)
          /\ Len(FlowRecords(s, flows[current].thread)) = Cardinality(boundary \ unarmed)
      BY <2>4, <2>5, FlowRecordsType
    <3>2. flows' = flows \o FlowRecords(s, flows[current].thread)
      BY <2>2
    <3> QED
      BY <2>4, <3>1, <3>2, ConcatProperties
  <2>7. Len(flows) \in Nat /\ Len(flows) <= Len(flows')
    BY <2>4, <2>6, LenProperties
  <2>8. jobs' \subseteq FlowID'
    <3>1. \A i \in DOMAIN s : Len(flows) + i \in FlowID'
      BY <2>6, <2>7 DEF FlowID
    <3>2. jobs \subseteq FlowID' /\ current \in FlowID'
      BY <1>2, <2>6, <2>7, FlowsGrow DEF IInv, TypeOK, StoreType
    <3>3. PICK due \in SUBSET FlowID' : jobs' \in Queued(due)
      BY <2>2, <3>1, <3>2
    <3> QED
      BY <3>2, <3>3, QueuedType
  <2>9. faults' \in Nat
    BY <2>2 DEF StoreFails, CallFails, IInv, TypeOK, CounterType
  <2>10. StoreType' /\ InstanceType'
    BY <2>3, <2>6, <2>8 DEF IInv, TypeOK, StoreType, InstanceType, State
  <2>11. LoopType' /\ closed' \in BOOLEAN
    <3>1. FlowID \subseteq FlowID'
      BY <2>6, <2>7, FlowsGrow
    <3>2. closed' \in BOOLEAN
      BY <2>3 DEF Handled, IInv, TypeOK, ChannelType
    <3> QED
      BY <1>2, <2>3, <3>1, <3>2 DEF IInv, TypeOK, LoopType, Handled
  <2>12. ChannelType' /\ PoolType' /\ CounterType'
    <3>1. Tail(resultCh) \in Seq([flow : FlowID', ans : ExecutionResult])
      <4>1. [flow : FlowID, ans : ExecutionResult] \subseteq [flow : FlowID', ans : ExecutionResult]
        BY <2>6, <2>7, FlowsGrow
      <4> QED
        BY <1>2, <4>1, SeqMonotonic
    <3>2. workCh \in Seq(FlowID') /\ holds \in [Workers -> FlowID' \cup {0}]
      BY <2>6, <2>7, FlowsGrow
    <3> QED
      BY <1>1, <1>2, <2>9, <2>11, <3>1, <3>2
         DEF Received, IInv, TypeOK, ChannelType, PoolType, CounterType, poolVars
  <2>13. TypeOK'
    BY <2>10, <2>11, <2>12 DEF TypeOK
  <2> QED
    BY <1>1, <2>3, <2>13, ReceivedInv DEF Handled
<1> QED
  BY <1>3, <1>4

LEMMA CreateThreadType ==
  ASSUME threads \in Seq({"ACTIVE", "CLOSED"}), NEW index \in Nat \ {0}
  PROVE  CreateThread(index) \in Seq({"ACTIVE", "CLOSED"})
<1>1. Len(threads) \in Nat
  BY LenProperties
<1>2. CASE index <= Len(threads)
  <2>1. index \in 1..Len(threads)
    BY <1>1, <1>2
  <2>2. [threads EXCEPT ![index] = "ACTIVE"] \in Seq({"ACTIVE", "CLOSED"})
    BY <2>1, ExceptSeq
  <2> QED
    BY <1>2, <2>2 DEF CreateThread
<1>3. CASE ~(index <= Len(threads))
  BY <1>3, AppendProperties DEF CreateThread
<1> QED
  BY <1>2, <1>3

LEMMA CreateFlowInv ==
  ASSUME IInv, CreateFlow PROVE IInv'
<1> USE DEF CreateFlow
<1>1. PICK e \in todo :
        LET thread == IF forked THEN threadSeq + 1 ELSE flows[cur].thread IN
        /\ threadSeq' = IF forked THEN threadSeq + 1 ELSE threadSeq
        /\ \/ /\ flows' = Append(flows, CreateFlowRecord(e, thread))
              /\ threads' = IF forked THEN CreateThread(thread) ELSE threads
              /\ pending' = pending + 1
              /\ scheduled' = scheduled \cup {Len(flows) + 1}
              /\ todo' = todo \ {e}
              /\ pc' = "send"
              /\ UNCHANGED <<outcome, ctx, cur, faults>>
           \/ /\ StoreFails
              /\ threads' \in {threads, IF forked THEN CreateThread(thread) ELSE threads}
              /\ Return("error")
              /\ UNCHANGED <<flows, pending, scheduled>>
  OBVIOUS
<1>2. /\ flows \in Seq(FlowRecord) /\ threads \in Seq({"ACTIVE", "CLOSED"})
      /\ threadSeq \in Nat /\ cur \in FlowID /\ cur # 0 /\ todo \subseteq Elements
      /\ forked \in BOOLEAN /\ pending \in Nat
      /\ Len(flows) \in Nat
  BY LenProperties DEF IInv, TypeOK, StoreType, InstanceType, LoopType, CurInv
<1> DEFINE thread == IF forked THEN threadSeq + 1 ELSE flows[cur].thread
<1>3. thread \in Nat /\ CreateFlowRecord(e, thread) \in FlowRecord
  <2>1. flows[cur] \in FlowRecord
    BY <1>2, ElementOfSeq DEF FlowID
  <2>2. thread \in Nat
    BY <1>2, <2>1 DEF FlowRecord
  <2> QED
    BY <1>2, <2>2 DEF CreateFlowRecord, FlowRecord, FlowStatus
<1>4. forked => thread \in Nat \ {0}
  BY <1>2
<1> HIDE DEF thread
<1>5. forked => CreateThread(thread) \in Seq({"ACTIVE", "CLOSED"})
  BY <1>2, <1>4, CreateThreadType
<1>6. threads' \in Seq({"ACTIVE", "CLOSED"}) /\ threadSeq' \in Nat
  BY <1>1, <1>2, <1>5 DEF thread
<1>7. flows' \in Seq(FlowRecord) /\ Len(flows) <= Len(flows')
  <2>1. CASE flows' = Append(flows, CreateFlowRecord(e, thread))
    BY <1>2, <1>3, <2>1, AppendProperties
  <2>2. CASE flows' = flows
    BY <1>2, <2>2
  <2> QED
    BY <1>1, <2>1, <2>2 DEF thread
<1>8. /\ FlowID \subseteq FlowID'
      /\ workCh \in Seq(FlowID')
      /\ resultCh \in Seq([flow : FlowID', ans : ExecutionResult])
      /\ holds \in [Workers -> FlowID' \cup {0}]
  BY <1>7, FlowsGrow
<1>9. StoreType' /\ InstanceType'
  BY <1>6, <1>7, <1>8 DEF IInv, TypeOK, StoreType, InstanceType
<1>10. ChannelType' /\ PoolType'
  BY <1>8 DEF IInv, TypeOK, ChannelType, PoolType, poolVars, Return
<1>11. faults' \in Nat
  BY <1>1 DEF StoreFails, CallFails, IInv, TypeOK, CounterType
<1>12. CounterType'
  BY <1>11 DEF IInv, TypeOK, CounterType
<1>13. HoldsInv' /\ Busy' = Busy
  BY DEF IInv, HoldsInv, poolVars, Busy
<1>14. pending = Len(workCh) + Cardinality(Busy) + Len(resultCh)
  <2>1. Len(workCh) \in Nat /\ Len(resultCh) \in Nat
    BY LenProperties DEF IInv, TypeOK, ChannelType
  <2> QED
    BY <2>1, BusyFinite DEF IInv, PendingAccount, Quiescent
<1>15. Len(workCh) \in Nat /\ Len(resultCh) \in Nat /\ Cardinality(Busy) \in Nat
  BY LenProperties, BusyFinite DEF IInv, TypeOK, ChannelType
<1>16. CASE pc' = "send"
  <2>1. /\ flows' = Append(flows, CreateFlowRecord(e, thread))
        /\ pending' = pending + 1
        /\ scheduled' = scheduled \cup {Len(flows) + 1}
        /\ todo' = todo \ {e}
        /\ UNCHANGED <<outcome, ctx, cur, faults>>
    BY <1>1, <1>16 DEF Return, thread
  <2>2. Len(flows) + 1 \in FlowID'
    BY <1>2, <1>3, <2>1, AppendProperties DEF FlowID
  <2>3. LoopType'
    BY <1>2, <1>8, <1>16, <2>1, <2>2 DEF IInv, TypeOK, LoopType
  <2>4. CurInv' /\ PendingAccount'
    BY <1>2, <1>13, <1>14, <1>15, <1>16, <2>1 DEF CurInv, PendingAccount, Quiescent
  <2> QED
    BY <1>9, <1>10, <1>12, <1>13, <2>3, <2>4 DEF IInv, TypeOK
<1>17. CASE pc' # "send"
  <2>1. Return("error") /\ UNCHANGED <<flows, pending, scheduled>>
    BY <1>1, <1>17
  <2>2. LoopType'
    BY <1>2, <2>1 DEF IInv, TypeOK, LoopType, Return, FlowID
  <2>3. CurInv' /\ PendingAccount'
    BY <2>1 DEF CurInv, PendingAccount, Quiescent, Return
  <2> QED
    BY <1>9, <1>10, <1>12, <1>13, <2>2, <2>3 DEF IInv, TypeOK
<1> QED
  BY <1>16, <1>17

LEMMA SendFlowInv ==
  ASSUME IInv, SendFlow PROVE IInv'
<1> USE DEF SendFlow
<1>1. /\ UNCHANGED <<storeVars, instVars, poolVars, counts, errs, resultCh, faults, runs>>
      /\ UNCHANGED <<flows, holds, wpc, answer>>
  BY DEF storeVars, poolVars
<1>2. /\ cur \in FlowID /\ cur # 0 /\ Len(flows) \in Nat
      /\ workCh \in Seq(FlowID) /\ pending \in Nat
  BY LenProperties DEF IInv, TypeOK, StoreType, LoopType, ChannelType, CurInv
<1>3. Len(flows) \in FlowID
  BY <1>2 DEF FlowID
<1>4. /\ Append(workCh, Len(flows)) \in Seq(FlowID)
      /\ Len(Append(workCh, Len(flows))) = Len(workCh) + 1
  BY <1>2, <1>3, AppendProperties
<1>5. StoreType' /\ InstanceType' /\ PoolType' /\ CounterType'
  BY <1>1 DEF IInv, TypeOK, StoreType, InstanceType, PoolType, CounterType, FlowID,
     storeVars, instVars, poolVars
<1>6. ChannelType' /\ LoopType'
  <2>1. CASE workCh' = Append(workCh, Len(flows)) /\ todo = {} /\ Handled(cur, pending)
    BY <1>1, <1>2, <1>4, <2>1 DEF IInv, TypeOK, ChannelType, LoopType, FlowID, Handled
  <2>2. CASE /\ workCh' = Append(workCh, Len(flows)) /\ pc' = "create"
             /\ UNCHANGED <<outcome, cur, todo, forked, pending, ctx, closed,
                            scheduled, logged>>
    BY <1>1, <1>2, <1>4, <2>2 DEF IInv, TypeOK, ChannelType, LoopType, FlowID
  <2>3. CASE /\ Return("error")
             /\ UNCHANGED <<workCh, forked, pending, closed, scheduled, logged>>
    BY <1>1, <1>2, <2>3 DEF IInv, TypeOK, ChannelType, LoopType, FlowID, Return
  <2> QED
    BY <2>1, <2>2, <2>3
<1>7. HoldsInv' /\ CurInv'
  BY <1>1, <1>2 DEF IInv, HoldsInv, CurInv, Handled, Return
<1>8. PendingAccount'
  <2>1. Len(workCh) \in Nat /\ Len(resultCh) \in Nat /\ Cardinality(Busy) \in Nat
    BY LenProperties, BusyFinite DEF IInv, TypeOK, ChannelType
  <2>2. pending = Len(workCh) + Cardinality(Busy) + Len(resultCh) + 1
    BY <2>1 DEF IInv, PendingAccount, Quiescent
  <2>3. Busy' = Busy
    BY <1>1 DEF Busy
  <2> QED
    BY <1>1, <1>2, <1>4, <2>1, <2>2, <2>3, SMTT(30) DEF PendingAccount, Quiescent, Handled, Return
<1> QED
  BY <1>5, <1>6, <1>7, <1>8 DEF IInv, TypeOK

----------------------------------------------------------------------------
(* The workers preserve it.                                                *)

\* A worker without a flow adds one to the account when it takes one, and
\* takes it away when it gives it up.
LEMMA BusyChanges ==
  ASSUME IInv, NEW w \in Workers, NEW f \in Nat, holds' = [holds EXCEPT ![w] = f]
  PROVE  /\ f # 0 /\ holds[w] = 0 => Cardinality(Busy') = Cardinality(Busy) + 1
         /\ f = 0 /\ holds[w] # 0 => Cardinality(Busy') = Cardinality(Busy) - 1
<1>1. holds \in [Workers -> FlowID \cup {0}]
  BY DEF IInv, TypeOK, PoolType
<1>2. CASE f # 0 /\ holds[w] = 0
  <2>1. Busy' = Busy \cup {w} /\ w \notin Busy
    BY <1>1, <1>2 DEF Busy
  <2> QED
    BY <1>2, <2>1, BusyFinite, FS_AddElement
<1>3. CASE f = 0 /\ holds[w] # 0
  <2>1. Busy' = Busy \ {w} /\ w \in Busy
    BY <1>1, <1>3 DEF Busy
  <2> QED
    BY <1>3, <2>1, BusyFinite, FS_RemoveElement
<1> QED
  BY <1>2, <1>3

LEMMA TakeInv ==
  ASSUME IInv, NEW w \in Workers, Take(w) PROVE IInv'
<1> USE DEF Take
<1>1. UNCHANGED <<storeVars, instVars, flows>>
  BY DEF storeVars
<1>2. /\ workCh \in Seq(FlowID) /\ workCh # <<>>
      /\ Head(workCh) \in FlowID /\ Head(workCh) # 0 /\ Head(workCh) \in Nat
      /\ Tail(workCh) \in Seq(FlowID) /\ Len(Tail(workCh)) = Len(workCh) - 1
      /\ Len(workCh) \in Nat
  BY HeadTailProperties, LenProperties, EmptySeq DEF IInv, TypeOK, ChannelType, FlowID
<1>3. StoreType' /\ InstanceType' /\ LoopType' /\ CounterType'
  BY <1>1 DEF IInv, TypeOK, StoreType, InstanceType, LoopType, CounterType, FlowID,
     storeVars, instVars
<1>4. ChannelType' /\ PoolType'
  BY <1>1, <1>2 DEF IInv, TypeOK, ChannelType, PoolType, FlowID
<1>5. HoldsInv' /\ CurInv'
  BY <1>2 DEF IInv, TypeOK, PoolType, HoldsInv, CurInv
<1>6. PendingAccount'
  <2>1. Cardinality(Busy') = Cardinality(Busy) + 1
    BY <1>2, BusyChanges DEF IInv, HoldsInv
  <2>2. Len(resultCh) \in Nat
    BY LenProperties DEF IInv, TypeOK, ChannelType
  <2> QED
    BY <1>2, <2>1, <2>2, BusyFinite DEF IInv, PendingAccount, Quiescent
<1> QED
  BY <1>3, <1>4, <1>5, <1>6 DEF IInv, TypeOK

LEMMA ExecuteElementInv ==
  ASSUME IInv, NEW w \in Workers, ExecuteElement(w) PROVE IInv'
<1> USE DEF ExecuteElement
<1> DEFINE f == holds[w]
           e == flows[f].element
<1>1. f \in FlowID /\ f # 0
  BY DEF IInv, TypeOK, PoolType, HoldsInv
<1>2. flows \in Seq(FlowRecord) /\ flows[f] \in FlowRecord
  <2>1. flows \in Seq(FlowRecord)
    BY DEF IInv, TypeOK, StoreType
  <2> QED
    BY <1>1, <2>1, ElementOfSeq DEF FlowID
<1>3. e \in Elements
  BY <1>2 DEF FlowRecord
<1>4. PICK a \in ExecutionResult, s \in FlowStatus :
        /\ answer' = [answer EXCEPT ![w] = a]
        /\ flows' = [flows EXCEPT ![f].status = s]
  <2>1. CASE \E a \in Execute(e, AllIncomingComplete(e)) :
               /\ answer' = [answer EXCEPT ![w] = a]
               /\ flows' = [flows EXCEPT ![f].status = StatusAfter(e, a)]
    <3>1. AllIncomingComplete(e) \in BOOLEAN
      BY DEF AllIncomingComplete
    <3>2. Execute(e, AllIncomingComplete(e)) \subseteq ExecutionResult
      BY <1>3, <3>1, ExecuteType
    <3>3. \A a \in ExecutionResult : StatusAfter(e, a) \in FlowStatus
      BY DEF StatusAfter, FlowStatus
    <3> QED
      BY <2>1, <3>2, <3>3
  <2>2. CASE /\ \E a \in Execute(e, FALSE) : answer' = [answer EXCEPT ![w] = a]
             /\ flows' = [flows EXCEPT ![f].status = "COMPLETED"]
    <3>1. Execute(e, FALSE) \subseteq ExecutionResult
      BY <1>3, ExecuteType
    <3> QED
      BY <2>2, <3>1 DEF FlowStatus
  <2> QED
    BY <2>1, <2>2
<1>5. flows' \in Seq(FlowRecord) /\ Len(flows') = Len(flows)
  <2>1. [flows[f] EXCEPT !.status = s] \in FlowRecord
    BY <1>2 DEF FlowRecord
  <2>2. flows' = [flows EXCEPT ![f] = [flows[f] EXCEPT !.status = s]]
    BY <1>4
  <2> QED
    BY <1>1, <1>2, <2>1, <2>2, ExceptSeq DEF FlowID
<1>6. FlowID' = FlowID
  BY <1>5 DEF FlowID
<1>7. faults' \in Nat
  <2>1. faults' = faults \/ faults' = faults + 1
    BY DEF StoreFails, CallFails
  <2> QED
    BY <2>1 DEF IInv, TypeOK, CounterType
<1>8. UNCHANGED <<istate, completed, threadSeq>>
  BY DEF instVars
<1> HIDE DEF f, e
<1>9. StoreType' /\ InstanceType' /\ LoopType' /\ CounterType'
  BY <1>5, <1>6, <1>7, <1>8 DEF IInv, TypeOK, StoreType, InstanceType, LoopType, CounterType
<1>10. ChannelType' /\ PoolType'
  BY <1>4, <1>6 DEF IInv, TypeOK, ChannelType, PoolType
<1>11. HoldsInv' /\ CurInv' /\ PendingAccount'
  <2>1. Busy' = Busy
    BY DEF Busy
  <2>2. HoldsInv' /\ CurInv'
    BY DEF IInv, TypeOK, PoolType, HoldsInv, CurInv
  <2> QED
    BY <2>1, <2>2 DEF IInv, PendingAccount, Quiescent
<1> QED
  BY <1>9, <1>10, <1>11 DEF IInv, TypeOK

LEMMA DeliverInv ==
  ASSUME IInv, NEW w \in Workers, Deliver(w) PROVE IInv'
<1> USE DEF Deliver
<1>1. UNCHANGED <<storeVars, instVars, flows>>
  BY DEF storeVars
<1>2. holds[w] \in FlowID /\ holds[w] # 0 /\ answer[w] \in ExecutionResult
  BY DEF IInv, TypeOK, PoolType, HoldsInv
<1>3. /\ resultCh' \in Seq([flow : FlowID, ans : ExecutionResult])
      /\ Len(resultCh') = Len(resultCh) + 1
  <2>1. [flow |-> holds[w], ans |-> answer[w]] \in [flow : FlowID, ans : ExecutionResult]
    BY <1>2
  <2> QED
    BY <2>1, AppendProperties DEF IInv, TypeOK, ChannelType
<1>4. StoreType' /\ InstanceType' /\ LoopType' /\ CounterType'
  BY <1>1 DEF IInv, TypeOK, StoreType, InstanceType, LoopType, CounterType, FlowID,
     storeVars, instVars
<1>5. ChannelType' /\ PoolType'
  BY <1>1, <1>3 DEF IInv, TypeOK, ChannelType, PoolType, FlowID
<1>6. HoldsInv' /\ CurInv'
  BY DEF IInv, TypeOK, PoolType, HoldsInv, CurInv
<1>7. PendingAccount'
  <2>1. Cardinality(Busy') = Cardinality(Busy) - 1
    BY <1>2, BusyChanges
  <2>2. Len(resultCh) \in Nat /\ Len(workCh) \in Nat
    BY LenProperties DEF IInv, TypeOK, ChannelType
  <2> QED
    BY <1>3, <2>1, <2>2, BusyFinite DEF IInv, PendingAccount, Quiescent
<1> QED
  BY <1>4, <1>5, <1>6, <1>7 DEF IInv, TypeOK

LEMMA LeaveInv ==
  ASSUME IInv, NEW w \in Workers, Leave(w) PROVE IInv'
<1> USE DEF Leave
<1>1. UNCHANGED <<storeVars, instVars, flows>>
  BY DEF storeVars
<1>2. StoreType' /\ InstanceType' /\ LoopType' /\ ChannelType' /\ CounterType'
  BY <1>1 DEF IInv, TypeOK, StoreType, InstanceType, LoopType, ChannelType, CounterType,
     FlowID, storeVars, instVars
<1>3. PoolType' /\ HoldsInv' /\ CurInv'
  BY <1>1 DEF IInv, TypeOK, PoolType, HoldsInv, CurInv, FlowID
<1>4. PendingAccount'
  BY DEF IInv, PendingAccount, Quiescent, Busy
<1> QED
  BY <1>2, <1>3, <1>4 DEF IInv, TypeOK

----------------------------------------------------------------------------
(* The other branches of the loop and the environment preserve it.         *)

\* Leaving the loop keeps the types of its locals and empties the account.
LEMMA ReturnType ==
  ASSUME IInv, NEW verdict \in {"ok", "error"}, Return(verdict), errs' \in Nat,
         UNCHANGED <<flows, forked, pending, scheduled, logged>>
  PROVE  LoopType' /\ CurInv' /\ PendingAccount'
BY DEF Return, IInv, TypeOK, LoopType, FlowID, CurInv, PendingAccount, Quiescent

\* A step that leaves the channels and the pool alone keeps their types and
\* the account.
LEMMA PoolUnchanged ==
  ASSUME IInv, UNCHANGED <<flows, workCh, resultCh, wpc, holds, answer>>, closed' \in BOOLEAN
  PROVE  ChannelType' /\ PoolType' /\ HoldsInv' /\ Busy' = Busy
<1>1. ChannelType'
  BY DEF IInv, TypeOK, ChannelType, FlowID
<1>2. PoolType'
  BY DEF IInv, TypeOK, PoolType, FlowID
<1>3. HoldsInv' /\ Busy' = Busy
  BY DEF IInv, HoldsInv, Busy
<1> QED
  BY <1>1, <1>2, <1>3

LEMMA FailSafeInv ==
  ASSUME IInv, FailSafe PROVE IInv'
<1> USE DEF FailSafe
<1>1. /\ element \in Elements /\ pending - 1 \in Nat
      /\ Tail(resultCh) \in Seq([flow : FlowID, ans : ExecutionResult])
      /\ pending - 1 = Len(workCh) + Cardinality(Busy) + Len(Tail(resultCh))
  BY ResultFacts
<1>2. UNCHANGED <<flows, holds, wpc, answer>>
  BY DEF storeVars, poolVars
<1>3. StoreType' /\ InstanceType'
  BY <1>2 DEF IInv, TypeOK, StoreType, InstanceType, FlowID, storeVars, State
<1>4. LoopType' /\ CurInv'
  BY <1>1, <1>2 DEF IInv, TypeOK, LoopType, FlowID, CurInv
<1>5. ChannelType'
  BY <1>1, <1>2 DEF IInv, TypeOK, ChannelType, FlowID
<1>6. PoolType' /\ HoldsInv' /\ Busy' = Busy
  BY <1>2 DEF IInv, TypeOK, PoolType, FlowID, HoldsInv, Busy
<1>7. CounterType'
  BY <1>1 DEF IInv, TypeOK, CounterType
<1>8. PendingAccount'
  <2>1. Len(workCh) \in Nat /\ Len(Tail(resultCh)) \in Nat
    BY <1>1, LenProperties DEF IInv, TypeOK, ChannelType
  <2> QED
    BY <1>1, <1>6, <2>1, BusyFinite DEF PendingAccount, Quiescent
<1> QED
  BY <1>3, <1>4, <1>5, <1>6, <1>7, <1>8 DEF IInv, TypeOK

LEMMA ContextDoneInv ==
  ASSUME IInv, ContextDone PROVE IInv'
<1> USE DEF ContextDone
<1>1. UNCHANGED <<flows, holds, wpc, answer>> /\ closed' \in BOOLEAN
  BY DEF storeVars, poolVars
<1>2. StoreType' /\ InstanceType' /\ LoopType' /\ CounterType' /\ CurInv'
  BY <1>1 DEF IInv, TypeOK, StoreType, InstanceType, LoopType, CounterType, FlowID, CurInv,
     storeVars, instVars
<1>3. ChannelType' /\ PoolType' /\ HoldsInv' /\ Busy' = Busy
  BY <1>1, PoolUnchanged
<1>4. PendingAccount'
  BY <1>3 DEF IInv, PendingAccount, Quiescent
<1> QED
  BY <1>2, <1>3, <1>4 DEF IInv, TypeOK

LEMMA ErrorReceivedInv ==
  ASSUME IInv, ErrorReceived PROVE IInv'
<1> USE DEF ErrorReceived
<1>1. UNCHANGED <<flows, holds, wpc, answer>> /\ closed' \in BOOLEAN /\ errs' \in Nat
  BY DEF storeVars, poolVars, IInv, TypeOK, ChannelType, LoopType
<1>2. StoreType' /\ InstanceType' /\ CounterType'
  BY <1>1 DEF IInv, TypeOK, StoreType, InstanceType, CounterType, FlowID, storeVars, instVars
<1>3. ChannelType' /\ PoolType' /\ HoldsInv'
  BY <1>1, PoolUnchanged
<1>4. LoopType' /\ CurInv' /\ PendingAccount'
  BY <1>1, ReturnType
<1> QED
  BY <1>2, <1>3, <1>4 DEF IInv, TypeOK

LEMMA FinalizeInv ==
  ASSUME IInv, Finalize PROVE IInv'
<1> USE DEF Finalize
<1>1. /\ UNCHANGED <<holds, wpc, answer, istate, completed, threadSeq>>
      /\ closed' \in BOOLEAN /\ errs' \in Nat
  BY DEF instVars, poolVars, IInv, TypeOK, ChannelType, LoopType
<1>2. StoreType' /\ InstanceType'
  BY <1>1 DEF IInv, TypeOK, StoreType, InstanceType, FlowID
<1>3. CounterType'
  <2>1. faults' = faults \/ faults' = faults + 1
    BY DEF CallFails
  <2> QED
    BY <2>1 DEF IInv, TypeOK, CounterType
<1>4. ChannelType' /\ PoolType' /\ HoldsInv'
  BY <1>1, PoolUnchanged
<1>5. LoopType' /\ CurInv' /\ PendingAccount'
  BY <1>1, ReturnType
<1> QED
  BY <1>2, <1>3, <1>4, <1>5 DEF IInv, TypeOK

LEMMA AbortInv ==
  ASSUME IInv, FailSafeReturn \/ ContextReturn PROVE IInv'
<1> USE DEF FailSafeReturn, ContextReturn
<1>1. /\ UNCHANGED <<flows, holds, wpc, answer>>
      /\ closed' \in BOOLEAN /\ errs' \in Nat /\ istate' \in State
  BY DEF storeVars, instVars, poolVars, IInv, TypeOK, ChannelType, LoopType, InstanceType,
     State
<1>2. StoreType' /\ InstanceType' /\ CounterType'
  BY <1>1 DEF IInv, TypeOK, StoreType, InstanceType, CounterType, FlowID, storeVars, instVars
<1>3. ChannelType' /\ PoolType' /\ HoldsInv'
  BY <1>1, PoolUnchanged
<1>4. LoopType' /\ CurInv' /\ PendingAccount'
  BY <1>1, ReturnType
<1> QED
  BY <1>2, <1>3, <1>4 DEF IInv, TypeOK

LEMMA ContextEndsInv ==
  ASSUME IInv, NEW how \in {"deadline", "cancelled"}, ContextEnds(how) PROVE IInv'
<1> USE DEF ContextEnds
<1>1. UNCHANGED <<flows, holds, wpc, answer>> /\ closed' \in BOOLEAN
  BY DEF storeVars, poolVars, IInv, TypeOK, ChannelType
<1>2. StoreType' /\ InstanceType' /\ LoopType' /\ CounterType' /\ CurInv'
  BY <1>1 DEF IInv, TypeOK, StoreType, InstanceType, LoopType, CounterType, FlowID, CurInv,
     storeVars, instVars
<1>3. ChannelType' /\ PoolType' /\ HoldsInv' /\ Busy' = Busy
  BY <1>1, PoolUnchanged
<1>4. PendingAccount'
  BY <1>3 DEF IInv, PendingAccount, Quiescent
<1> QED
  BY <1>2, <1>3, <1>4 DEF IInv, TypeOK

----------------------------------------------------------------------------
(* Starting and resuming preserve it.                                      *)

\* A loop begins with exactly its initial flows on the account.
LEMMA BeginLoopInv ==
  ASSUME flows' \in Seq(FlowRecord), runs \in Nat,
         NEW items \in Seq(FlowID'), BeginLoop(items)
  PROVE  /\ LoopType' /\ ChannelType' /\ PoolType' /\ counts' \in [Elements -> Nat]
         /\ runs' \in Nat
         /\ HoldsInv' /\ CurInv' /\ PendingAccount'
<1> USE DEF BeginLoop
<1>1. Len(items) \in Nat /\ \A i \in 1..Len(items) : items[i] \in FlowID'
  BY ElementOfSeq, LenProperties
<1>2. LoopType'
  BY <1>1 DEF LoopType
<1>3. ChannelType'
  BY EmptySeq DEF ChannelType
<1>4. PoolType' /\ HoldsInv' /\ CurInv'
  BY DEF PoolType, HoldsInv, CurInv, NoAnswer, Answer, ExecutionResult, Action
<1>5. PendingAccount'
  <2>1. Busy' = {}
    BY DEF Busy
  <2>2. Cardinality(Busy') = 0 /\ Len(resultCh') = 0
    BY <2>1, FS_EmptySet, EmptySeq
  <2> QED
    BY <1>1, <2>2 DEF PendingAccount
<1> QED
  BY <1>2, <1>3, <1>4, <1>5

\* An attempt that starts no loop may still have left flow records.
LEMMA NoLoopInv ==
  ASSUME IInv, flows' \in Seq(FlowRecord), Len(flows) <= Len(flows'),
         pc' = "returned", outcome' = "error", cur' \in {0, cur}, todo' \in {{}, todo},
         ctx' \in {ctx, "cancelled"},
         UNCHANGED <<poolVars, forked, pending, counts, errs, workCh, resultCh, closed,
                     scheduled, logged>>
  PROVE  /\ LoopType' /\ ChannelType' /\ PoolType' /\ counts' \in [Elements -> Nat]
         /\ HoldsInv' /\ CurInv' /\ PendingAccount'
<1>1. /\ FlowID \subseteq FlowID'
      /\ workCh \in Seq(FlowID')
      /\ resultCh \in Seq([flow : FlowID', ans : ExecutionResult])
      /\ holds \in [Workers -> FlowID' \cup {0}]
  BY FlowsGrow
<1>2. LoopType'
  BY <1>1 DEF IInv, TypeOK, LoopType
<1>3. ChannelType' /\ PoolType' /\ HoldsInv' /\ counts' \in [Elements -> Nat]
  BY <1>1 DEF IInv, TypeOK, ChannelType, PoolType, HoldsInv, poolVars, CounterType
<1>4. CurInv' /\ PendingAccount'
  BY DEF CurInv, PendingAccount, Quiescent
<1> QED
  BY <1>2, <1>3, <1>4

LEMMA RunInv ==
  ASSUME IInv, Run PROVE IInv'
<1> USE DEF Run
<1>1. /\ flows \in Seq(FlowRecord) /\ threads \in Seq({"ACTIVE", "CLOSED"})
      /\ runs \in Nat /\ faults \in Nat /\ Len(flows) \in Nat
  BY LenProperties DEF IInv, TypeOK, StoreType, CounterType
<1>2. CreateFlowRecord(Start, 1) \in FlowRecord
  BY ProcessAssumption DEF CreateFlowRecord, FlowRecord, FlowStatus
<1> DEFINE more == Append(flows, CreateFlowRecord(Start, 1))
<1>3. more \in Seq(FlowRecord) /\ Len(more) = Len(flows) + 1
  BY <1>1, <1>2, AppendProperties
<1> HIDE DEF more
<1>4. flows' \in {flows, more}
  BY DEF more
<1>5. flows' \in Seq(FlowRecord) /\ Len(flows) <= Len(flows')
  BY <1>1, <1>3, <1>4
<1>6. InstanceType'
  BY DEF IInv, TypeOK, InstanceType, State
<1>7. StoreType'
  <2>1. CreateThread(1) \in Seq({"ACTIVE", "CLOSED"})
    BY <1>1, CreateThreadType
  <2>2. threads' \in Seq({"ACTIVE", "CLOSED"})
    BY <1>1, <2>1
  <2> QED
    BY <1>5, <2>2, FlowsGrow DEF IInv, TypeOK, StoreType
<1>8. faults' \in Nat
  <2>1. faults' = faults \/ faults' = faults + 1
    BY DEF StoreFails, CallFails
  <2> QED
    BY <1>1, <2>1
<1>9. CASE flows' = more /\ BeginLoop(<<Len(flows) + 1>>)
  <2>1. Len(flows) + 1 \in FlowID'
    BY <1>1, <1>3, <1>9 DEF FlowID
  <2>2. <<Len(flows) + 1>> \in Seq(FlowID')
    BY <2>1
  <2>3. /\ LoopType' /\ ChannelType' /\ PoolType' /\ counts' \in [Elements -> Nat]
        /\ runs' \in Nat
        /\ HoldsInv' /\ CurInv' /\ PendingAccount'
    BY <1>1, <1>5, <1>9, <2>2, BeginLoopInv
  <2> QED
    BY <1>6, <1>7, <1>8, <2>3 DEF IInv, TypeOK, CounterType
<1>10. CASE /\ Return("error") /\ runs' = runs + 1
            /\ UNCHANGED <<threads, poolVars, forked, pending, counts, errs, workCh,
                           resultCh, closed, scheduled, logged>>
  <2>1. /\ pc' = "returned" /\ outcome' = "error" /\ cur' \in {0, cur}
        /\ todo' \in {{}, todo} /\ ctx' \in {ctx, "cancelled"}
    BY <1>10 DEF Return
  <2>2. /\ LoopType' /\ ChannelType' /\ PoolType' /\ counts' \in [Elements -> Nat]
        /\ HoldsInv' /\ CurInv' /\ PendingAccount'
    BY <1>5, <1>10, <2>1, NoLoopInv
  <2> QED
    BY <1>1, <1>6, <1>7, <1>8, <1>10, <2>2 DEF IInv, TypeOK, CounterType
<1> QED
  BY <1>9, <1>10 DEF more

\* Cancelling an activity keeps the table in shape.
LEMMA CancelAttachedType ==
  ASSUME NEW table \in Seq(FlowRecord), NEW f
  PROVE  CancelAttached(f, table) \in Seq(FlowRecord)
         /\ Len(CancelAttached(f, table)) = Len(table)
<1> DEFINE e == table[f].element
           shut == [i \in DOMAIN table |->
                      IF table[i].element = Process[e].AttachedToRef
                         /\ table[i].status = "ACTIVE"
                      THEN [table[i] EXCEPT !.status = "COMPLETED"]
                      ELSE table[i]]
<1>1. /\ Len(table) \in Nat /\ DOMAIN table = 1..Len(table)
      /\ \A i \in 1..Len(table) : table[i] \in FlowRecord
  BY ElementOfSeq, LenProperties
<1>2. \A i \in 1..Len(table) : [table[i] EXCEPT !.status = "COMPLETED"] \in FlowRecord
  BY <1>1 DEF FlowRecord, FlowStatus
<1>3. shut \in [1..Len(table) -> FlowRecord]
  BY <1>1, <1>2
<1>4. shut \in Seq(FlowRecord) /\ Len(shut) = Len(table)
  BY <1>1, <1>3
<1>5. CancelAttached(f, table) \in {shut, table}
  BY DEF CancelAttached
<1> HIDE DEF shut
<1> QED
  BY <1>4, <1>5

LEMMA PartlyCancelledType ==
  ASSUME NEW table \in Seq(FlowRecord), NEW f, NEW t \in PartlyCancelled(f, table)
  PROVE  t \in Seq(FlowRecord) /\ Len(t) = Len(table)
<1> DEFINE shut == CancelAttached(f, table)
<1>1. PICK refused : t = [i \in DOMAIN table |-> IF i \in refused THEN table[i] ELSE shut[i]]
  BY DEF PartlyCancelled
<1>2. shut \in Seq(FlowRecord) /\ Len(shut) = Len(table)
  BY CancelAttachedType
<1> HIDE DEF shut
<1>3. /\ Len(table) \in Nat /\ DOMAIN table = 1..Len(table)
      /\ \A i \in 1..Len(table) : table[i] \in FlowRecord /\ shut[i] \in FlowRecord
  BY <1>2, ElementOfSeq, LenProperties
<1>4. t \in [1..Len(table) -> FlowRecord]
  BY <1>1, <1>3
<1> QED
  BY <1>3, <1>4

LEMMA ContinueInv ==
  ASSUME IInv, NEW f \in FlowID, NEW table \in Seq(FlowRecord), Len(table) = Len(flows),
         Continue(f, table)
  PROVE  IInv'
<1>1. /\ flows \in Seq(FlowRecord) /\ Len(flows) \in Nat /\ Len(table) \in Nat
      /\ runs \in Nat /\ faults \in Nat /\ stored \in State /\ pc = "returned"
  BY LenProperties DEF IInv, TypeOK, StoreType, CounterType, Continue, Quiet
<1>2. threadSeq' = 1 /\ UNCHANGED <<threads, jobs>>
  BY DEF Continue
<1> DEFINE next == Process[flows[f].element].Outgoing
<1>3. next \subseteq Elements
  <2>1. flows[f] \in FlowRecord
    BY <1>1, ElementOfSeq DEF FlowID
  <2> QED
    BY <2>1, ProcessAssumption DEF FlowRecord, Element
<1> HIDE DEF next
\* what holds after every outcome, once the table is known to have grown
<1>4. ASSUME flows' \in Seq(FlowRecord), Len(flows) <= Len(flows'), stored' \in State
      PROVE  StoreType'
  BY <1>2, <1>4, FlowsGrow DEF IInv, TypeOK, StoreType
<1>5. ASSUME flows' \in Seq(FlowRecord), Len(flows) <= Len(flows'), istate' \in State,
             completed' \in BOOLEAN, faults' \in Nat, NotResumed
      PROVE  IInv'
  <2>1. /\ pc' = "returned" /\ outcome' = "error" /\ cur' \in {0, cur}
        /\ todo' \in {{}, todo} /\ ctx' \in {ctx, "cancelled"}
        /\ UNCHANGED <<poolVars, forked, pending, counts, errs, workCh, resultCh, closed,
                       scheduled, logged>>
        /\ stored' \in State /\ runs' \in Nat
    BY <1>1, <1>5 DEF NotResumed
  <2>2. /\ LoopType' /\ ChannelType' /\ PoolType' /\ counts' \in [Elements -> Nat]
        /\ HoldsInv' /\ CurInv' /\ PendingAccount'
    BY <1>5, <2>1, NoLoopInv
  <2>3. StoreType' /\ InstanceType'
    BY <1>2, <1>4, <1>5, <2>1 DEF InstanceType
  <2> QED
    BY <1>5, <2>1, <2>2, <2>3 DEF IInv, TypeOK, CounterType
<1>6. CASE /\ ~IsValidTransition(stored, "IN_PROGRESS")
           /\ flows' = table /\ istate' = stored /\ completed' = FALSE
           /\ NotResumed
           /\ UNCHANGED faults
  <2>1. /\ flows' \in Seq(FlowRecord) /\ Len(flows) <= Len(flows')
    BY <1>1, <1>6
  <2>2. istate' \in State /\ completed' \in BOOLEAN /\ faults' \in Nat
    BY <1>1, <1>6, Zenon
  <2> QED
    BY <1>5, <1>6, <2>1, <2>2
<1>7. CASE \E fault \in BOOLEAN : \E t \in PartlyCancelled(f, table) :
             /\ fault \/ t = CancelAttached(f, table)
             /\ IF fault THEN CallFails(FALSE) ELSE UNCHANGED faults
             /\ \/ next = {} /\ flows' = t /\ ContinueAtEnd(f, fault)
                \/ next # {} /\ ContinueWith(f, t, next, fault)
  <2>1. PICK fault \in BOOLEAN, t \in PartlyCancelled(f, table) :
             /\ IF fault THEN CallFails(FALSE) ELSE UNCHANGED faults
             /\ \/ next = {} /\ flows' = t /\ ContinueAtEnd(f, fault)
                \/ next # {} /\ ContinueWith(f, t, next, fault)
    BY <1>7
  <2>2. t \in Seq(FlowRecord) /\ Len(t) = Len(flows)
    BY PartlyCancelledType
  <2>3. faults' \in Nat
    <3>1. faults' = faults \/ faults' = faults + 1
      BY <2>1 DEF CallFails
    <3> QED
      BY <1>1, <3>1
  <2>4. CASE flows' = t /\ ContinueAtEnd(f, fault)
    <3>1. istate' \in State /\ completed' \in BOOLEAN
      BY <2>4 DEF ContinueAtEnd, State, isEndEvent
    <3>2. CASE NotResumed
      BY <1>1, <1>5, <2>2, <2>3, <2>4, <3>1, <3>2
    <3>3. CASE ~NotResumed
      <4>1. /\ stored' = istate' /\ outcome' = "ok" /\ runs' = runs + 1
            /\ scheduled' = {} /\ logged' = {} /\ pending' = 0
            /\ counts' = [e \in Elements |-> 0]
            /\ workCh' = <<>> /\ resultCh' = <<>>
            /\ wpc' = [w \in Workers |-> "gone"]
            /\ holds' = [w \in Workers |-> 0]
            /\ UNCHANGED <<pc, cur, todo, forked, errs, ctx, closed, answer>>
        BY <2>4, <3>3 DEF ContinueAtEnd
      <4>2. flows' \in Seq(FlowRecord) /\ Len(flows) <= Len(flows') /\ FlowID' = FlowID
        BY <1>1, <2>2, <2>4 DEF FlowID
      <4>3. StoreType' /\ InstanceType'
        BY <1>2, <1>4, <3>1, <4>1, <4>2 DEF InstanceType
      <4>4. LoopType' /\ CurInv' /\ PendingAccount'
        BY <1>1, <4>1, <4>2 DEF IInv, TypeOK, LoopType, CurInv, PendingAccount, Quiescent
      <4>5. ChannelType' /\ PoolType' /\ HoldsInv'
        BY <4>1, <4>2, EmptySeq DEF IInv, TypeOK, ChannelType, PoolType, HoldsInv
      <4>6. CounterType'
        BY <1>1, <2>3, <4>1 DEF IInv, TypeOK, CounterType
      <4> QED
        BY <4>3, <4>4, <4>5, <4>6 DEF IInv, TypeOK
    <3> QED
      BY <3>2, <3>3
  <2>5. CASE ContinueWith(f, t, next, fault)
    <3>1. istate' \in State /\ completed' \in BOOLEAN /\ istate' = "IN_PROGRESS"
      BY <2>5 DEF ContinueWith, State
    <3>2. PICK s \in Orders(next) :
            LET recs == FlowRecords(s, t[f].thread) IN
            \/ /\ flows' = t \o recs
               /\ BeginLoop([i \in DOMAIN s |-> Len(flows) + i])
               /\ UNCHANGED stored
            \/ /\ \E k \in 0..(Len(s) - 1) : flows' = t \o SubSeq(recs, 1, k)
               /\ NotResumed
      BY <2>5 DEF ContinueWith
    <3> DEFINE recs == FlowRecords(s, t[f].thread)
    <3>3. t[f].thread \in Nat
      <4>1. t[f] \in FlowRecord
        BY <1>1, <2>2, ElementOfSeq DEF FlowID
      <4> QED
        BY <4>1 DEF FlowRecord
    <3>4. /\ Cardinality(next) \in Nat /\ Len(s) = Cardinality(next)
          /\ DOMAIN s = 1..Cardinality(next)
          /\ recs \in Seq(FlowRecord) /\ Len(recs) = Cardinality(next)
      BY <1>3, <3>3, FlowRecordsType
    <3> HIDE DEF recs
    <3>5. CASE /\ flows' = t \o recs
               /\ BeginLoop([i \in DOMAIN s |-> Len(flows) + i])
               /\ UNCHANGED stored
      <4> DEFINE items == [i \in DOMAIN s |-> Len(flows) + i]
      <4>1. flows' \in Seq(FlowRecord) /\ Len(flows) <= Len(flows')
            /\ Len(flows') = Len(flows) + Cardinality(next)
        BY <1>1, <2>2, <3>4, <3>5, ConcatProperties
      <4>2. items \in [1..Cardinality(next) -> FlowID']
        BY <1>1, <3>4, <4>1 DEF FlowID
      <4>3. items \in Seq(FlowID')
        BY <3>4, <4>2
      <4> HIDE DEF items
      <4>4. /\ LoopType' /\ ChannelType' /\ PoolType' /\ counts' \in [Elements -> Nat]
            /\ runs' \in Nat
            /\ HoldsInv' /\ CurInv' /\ PendingAccount'
        BY <1>1, <3>5, <4>1, <4>3, BeginLoopInv DEF items
      <4>5. StoreType' /\ InstanceType'
        BY <1>1, <1>2, <1>4, <3>1, <3>5, <4>1 DEF InstanceType
      <4> QED
        BY <2>3, <4>4, <4>5 DEF IInv, TypeOK, CounterType
    <3>6. CASE /\ \E k \in 0..(Len(s) - 1) : flows' = t \o SubSeq(recs, 1, k)
               /\ NotResumed
      <4>1. PICK k \in 0..(Len(s) - 1) : flows' = t \o SubSeq(recs, 1, k)
        BY <3>6
      <4>2. SubSeq(recs, 1, k) \in Seq(FlowRecord)
        <5>1. \A i \in 1..k : recs[i] \in FlowRecord
          BY <3>4, ElementOfSeq
        <5> QED
          BY <3>4, <5>1, SubSeqProperties
      <4>3. flows' \in Seq(FlowRecord) /\ Len(flows) <= Len(flows')
        BY <1>1, <2>2, <4>1, <4>2, ConcatProperties, LenProperties
      <4> QED
        BY <1>5, <2>3, <3>1, <3>6, <4>3
    <3> QED
      BY <3>2, <3>5, <3>6 DEF recs
  <2> QED
    BY <2>1, <2>4, <2>5
<1> QED
  BY <1>6, <1>7 DEF Continue, next

LEMMA ResumeInv ==
  ASSUME IInv, Resume PROVE IInv'
<1>1. PICK f \in FlowID : CompleteTask(f) \/ TimerFires(f) \/ SendMessage(f) \/ SendSignal(f)
  BY DEF Resume
<1>2. flows \in Seq(FlowRecord) /\ flows[f] \in FlowRecord
  <2>1. flows \in Seq(FlowRecord)
    BY DEF IInv, TypeOK, StoreType
  <2> QED
    BY <2>1, ElementOfSeq DEF FlowID
<1>3. Completed(f) \in Seq(FlowRecord) /\ Len(Completed(f)) = Len(flows)
  <2>1. [flows[f] EXCEPT !.status = "COMPLETED"] \in FlowRecord
    BY <1>2 DEF FlowRecord, FlowStatus
  <2>2. Completed(f) = [flows EXCEPT ![f] = [flows[f] EXCEPT !.status = "COMPLETED"]]
    BY DEF Completed
  <2> QED
    BY <1>2, <2>1, <2>2, ExceptSeq DEF FlowID
<1>4. Continue(f, Completed(f)) \/ Continue(f, flows)
  BY <1>1 DEF CompleteTask, TimerFires, SendMessage, SendSignal
<1> QED
  BY <1>2, <1>3, <1>4, ContinueInv

----------------------------------------------------------------------------
(* The theorems.                                                           *)

LEMMA InitInv == Init => IInv
<1> SUFFICES ASSUME Init PROVE IInv
  OBVIOUS
<1> USE DEF Init
<1>1. StoreType /\ InstanceType
  BY EmptySeq DEF StoreType, InstanceType, State
<1>2. LoopType
  BY DEF LoopType
<1>3. ChannelType
  BY EmptySeq DEF ChannelType
<1>4. PoolType /\ HoldsInv /\ CurInv
  BY DEF PoolType, HoldsInv, CurInv, NoAnswer, Answer, ExecutionResult, Action
<1>5. CounterType /\ PendingAccount
  BY DEF CounterType, PendingAccount, Quiescent
<1> QED
  BY <1>1, <1>2, <1>3, <1>4, <1>5 DEF IInv, TypeOK

LEMMA StutterInv ==
  ASSUME IInv, UNCHANGED vars PROVE IInv'
<1> USE DEF vars, storeVars, instVars, poolVars
<1>1. TypeOK'
  BY SMTT(30) DEF IInv, TypeOK, StoreType, InstanceType, LoopType, ChannelType, PoolType,
     CounterType, FlowID
<1>2. HoldsInv' /\ CurInv' /\ PendingAccount'
  BY DEF IInv, HoldsInv, CurInv, PendingAccount, Quiescent, Busy
<1> QED
  BY <1>1, <1>2 DEF IInv

\* Every step of every goroutine and of the environment preserves it.
LEMMA NextInv ==
  ASSUME IInv, [Next]_vars PROVE IInv'
<1>1. CASE HandleResult
  BY <1>1, HandleRouteInv, HandleWaitInv, HandleErrorInv, HandleCompleteInv,
     HandleThrowErrorInv, HandleTerminateInv, HandleCallActivityInv, HandleQueueInv,
     CreateFlowInv, SendFlowInv DEF HandleResult
<1>2. CASE Loop
  BY <1>1, <1>2, FailSafeInv, ContextDoneInv, ErrorReceivedInv, FinalizeInv, AbortInv
     DEF Loop
<1>3. CASE \E w \in Workers : Worker(w)
  BY <1>3, TakeInv, ExecuteElementInv, DeliverInv, LeaveInv DEF Worker
<1>4. CASE Deadline \/ Cancel
  BY <1>4, ContextEndsInv DEF Deadline, Cancel
<1>5. CASE Run
  BY <1>5, RunInv
<1>6. CASE Resume
  BY <1>6, ResumeInv
<1>7. CASE Rest \/ UNCHANGED vars
  BY <1>7, StutterInv DEF Rest
<1> QED
  BY <1>2, <1>3, <1>4, <1>5, <1>6, <1>7 DEF Next

THEOREM Invariance == Spec => []IInv
<1>1. Init => IInv
  BY InitInv
<1>2. IInv /\ [Next]_vars => IInv'
  BY NextInv
<1> QED
  BY <1>1, <1>2, PTL DEF Spec

\* Flow ids in the channels, in the hands of workers and in jobs always name
\* records, and pending never falls below 0, whatever the process and the pool.
THEOREM TypeCorrect == Spec => []TypeOK
<1>1. IInv => TypeOK
  BY DEF IInv
<1> QED
  BY <1>1, Invariance, PTL

\* The pending account is exact: the loop's end test pending = 0 holds just when
\* no flow is in a channel or with a worker.
THEOREM PendingAccountCorrect == Spec => []PendingAccount
<1>1. IInv => PendingAccount
  BY DEF IInv
<1> QED
  BY <1>1, Invariance, PTL


----------------------------------------------------------------------------
(* The status of the case and of the run.                                  *)

\* Before Run nothing is finished and no worker exists; a case that a loop works
\* on is not stored as COMPLETED; a loop that has returned has ended its
\* context; an unread error is the only one and has put the instance in ERROR.
StatusInv ==
  /\ pc = "idle" => stored = "CREATED" /\ Gone
  /\ pc = "returned" => ctx # "live"
  /\ ~Quiescent =>
       /\ stored # "COMPLETED"
       /\ errs <= 1
       /\ errs = 1 => istate = "ERROR"

\* The entries of ValidTransitions that matter here.
LEMMA Transitions ==
  /\ ~IsValidTransition("COMPLETED", "IN_PROGRESS")
  /\ ~IsValidTransition("ERROR", "WAITING")
  /\ ~IsValidTransition("ERROR", "COMPLETED")
  /\ ~IsValidTransition("ERROR", "ERROR")
  /\ ~IsValidTransition("ERROR", "TERMINATED")
BY DEF IsValidTransition, ValidTransitions, State

LEMMA HandleResultStatus ==
  ASSUME IInv, StatusInv, HandleResult PROVE StatusInv'
<1> USE Transitions DEF StatusInv, Quiescent, Received, storeVars, instVars
<1>0. errs \in Nat
  BY DEF IInv, TypeOK, LoopType
<1>1. CASE HandleRoute
  BY <1>0, <1>1 DEF HandleRoute, TryComplete, Handled, Enqueuing
<1>2. CASE HandleWait
  BY <1>0, <1>2 DEF HandleWait, Handled, Failed, Return
<1>3. CASE HandleError
  BY <1>0, <1>3 DEF HandleError, Failed, Return
<1>4. CASE HandleComplete
  BY <1>0, <1>4 DEF HandleComplete, TryComplete, Handled
<1>5. CASE HandleThrowError
  BY <1>0, <1>5 DEF HandleThrowError, Handled, Enqueuing, Failed, Return
<1>6. CASE HandleTerminate
  BY <1>0, <1>6 DEF HandleTerminate, Failed, Return
<1>7. CASE HandleCallActivity
  BY <1>0, <1>7 DEF HandleCallActivity, Enqueuing, Failed, Return
<1>8. CASE HandleQueue
  BY <1>0, <1>8 DEF HandleQueue, Handled, Enqueuing
<1>9. CASE CreateFlow
  BY <1>0, <1>9 DEF CreateFlow, Return
<1>10. CASE SendFlow
  BY <1>0, <1>10 DEF SendFlow, Handled, Return
<1> QED
  BY <1>1, <1>2, <1>3, <1>4, <1>5, <1>6, <1>7, <1>8, <1>9, <1>10 DEF HandleResult

LEMMA LoopStatus ==
  ASSUME IInv, StatusInv, Loop PROVE StatusInv'
<1> USE Transitions DEF StatusInv, Quiescent, storeVars, instVars
<1>0. errs \in Nat
  BY DEF IInv, TypeOK, LoopType
<1>1. CASE FailSafe
  BY <1>0, <1>1 DEF FailSafe
<1>2. CASE ContextDone
  BY <1>0, <1>2 DEF ContextDone
<1>3. CASE ErrorReceived
  BY <1>0, <1>3 DEF ErrorReceived, Return
<1>4. CASE Finalize
  BY <1>4 DEF Finalize, Return
<1>5. CASE FailSafeReturn \/ ContextReturn
  BY <1>5 DEF FailSafeReturn, ContextReturn, Return
<1> QED
  BY <1>1, <1>2, <1>3, <1>4, <1>5, HandleResultStatus DEF Loop

LEMMA WorkerStatus ==
  ASSUME StatusInv, NEW w \in Workers, Worker(w) PROVE StatusInv'
<1> USE DEF StatusInv, Quiescent, Gone, storeVars, instVars
<1>1. CASE Take(w)
  BY <1>1 DEF Take
<1>2. CASE ExecuteElement(w)
  BY <1>2 DEF ExecuteElement
<1>3. CASE Deliver(w)
  BY <1>3 DEF Deliver
<1>4. CASE Leave(w)
  BY <1>4 DEF Leave
<1> QED
  BY <1>1, <1>2, <1>3, <1>4 DEF Worker

\* Run and Continue: a case stored as COMPLETED is refused.
LEMMA RunStatus ==
  ASSUME StatusInv, Run PROVE StatusInv'
BY DEF StatusInv, Quiescent, Run, BeginLoop, Return

LEMMA ContinueStatus ==
  ASSUME StatusInv, NEW f, NEW table, Continue(f, table)
  PROVE  /\ StatusInv'
         /\ stored = "COMPLETED" => UNCHANGED stored
<1> USE DEF StatusInv, Quiescent
<1>1. pc = "returned"
  BY DEF Continue, Quiet
<1>2. CASE NotResumed
  BY <1>1, <1>2 DEF NotResumed
<1>3. CASE \E fault : ContinueAtEnd(f, fault)
  <2>1. pc' = "returned" /\ UNCHANGED ctx
    BY <1>1, <1>3 DEF ContinueAtEnd, NotResumed
  <2>2. CASE IsValidTransition(stored, "IN_PROGRESS")
    BY <1>1, <2>1, <2>2, Transitions
  <2> QED
    BY <1>1, <1>2, <2>2 DEF Continue
<1>4. CASE IsValidTransition(stored, "IN_PROGRESS")
           /\ \E t, next, fault : ContinueWith(f, t, next, fault)
  <2>1. CASE \E items : BeginLoop(items) /\ UNCHANGED stored
    BY <1>4, <2>1, Transitions DEF BeginLoop
  <2> QED
    BY <1>2, <1>4, <2>1 DEF ContinueWith
<1> QED
  BY <1>2, <1>3, <1>4 DEF Continue

LEMMA ResumeStatus ==
  ASSUME StatusInv, Resume
  PROVE  /\ StatusInv'
         /\ stored = "COMPLETED" => UNCHANGED stored
BY ContinueStatus DEF Resume, CompleteTask, TimerFires, SendMessage, SendSignal

LEMMA NextStatus ==
  ASSUME IInv, StatusInv, [Next]_vars PROVE StatusInv'
<1>1. CASE Deadline \/ Cancel
  BY <1>1 DEF Deadline, Cancel, ContextEnds, StatusInv, Quiescent, Gone, storeVars,
     instVars, poolVars
<1>2. CASE Rest \/ UNCHANGED vars
  BY <1>2 DEF Rest, StatusInv, Quiescent, Gone, vars, storeVars, instVars, poolVars
<1> QED
  BY <1>1, <1>2, LoopStatus, WorkerStatus, RunStatus, ResumeStatus DEF Next

LEMMA StatusInvariance == Spec => []StatusInv
<1>1. Init => StatusInv
  BY DEF Init, StatusInv, Quiescent, Gone
<1> QED
  BY <1>1, Invariance, NextStatus, PTL DEF Spec

\* However many branches fail, the loop never sends to errCh while an error is
\* unread: it cannot block itself.
THEOREM ErrorChannelNeverFull == Spec => []ErrorChannelHasRoom
<1>1. IInv /\ StatusInv => ErrorChannelHasRoom
  BY DEF IInv, TypeOK, LoopType, StatusInv, ErrorChannelHasRoom
<1> QED
  BY <1>1, Invariance, StatusInvariance, PTL

\* No run, no late timer, no repeated completion and no failing store takes a
\* case that is stored as COMPLETED up again.
THEOREM CompletedStaysCompleted == Spec => CompletedIsFinal
<1>1. IInv /\ StatusInv /\ [Next]_vars
        => [stored = "COMPLETED" => stored' = "COMPLETED"]_vars
  <2> SUFFICES ASSUME StatusInv, Next, stored = "COMPLETED"
               PROVE  stored' = "COMPLETED"
    OBVIOUS
  <2>1. pc = "returned"
    BY DEF StatusInv, Quiescent
  <2>2. CASE Loop
    BY <2>1, <2>2 DEF Loop, HandleResult, HandleRoute, HandleWait, HandleError, HandleComplete,
       HandleThrowError, HandleTerminate, HandleCallActivity, HandleQueue, CreateFlow, SendFlow,
       Received, FailSafe, ContextDone, ErrorReceived, Finalize, FailSafeReturn, ContextReturn
  <2>3. CASE \E w \in Workers : Worker(w)
    BY <2>3 DEF Worker, Take, ExecuteElement, Deliver, Leave, storeVars
  <2>4. CASE Run
    BY <2>1, <2>4 DEF Run
  <2>5. CASE Rest \/ Deadline \/ Cancel
    BY <2>5 DEF Rest, Deadline, Cancel, ContextEnds, vars, storeVars
  <2> QED
    BY <2>2, <2>3, <2>4, <2>5, ResumeStatus DEF Next
<1> QED
  BY <1>1, Invariance, StatusInvariance, PTL DEF Spec, CompletedIsFinal

\* After runLoop has returned, by whatever branch, its workers start nothing.
THEOREM PoolStops == Spec => PoolStopsWithLoop
<1> DEFINE Stops == pc = "returned" /\ pc' = "returned" =>
                      \A w \in Workers : wpc'[w] = "executing" => wpc[w] = "executing"
<1>1. IInv /\ StatusInv /\ [Next]_vars => [Stops]_vars
  <2> SUFFICES ASSUME IInv, StatusInv, Next, pc = "returned", pc' = "returned",
                      NEW v \in Workers, wpc'[v] = "executing"
               PROVE  wpc[v] = "executing"
    OBVIOUS
  <2>1. ctx # "live" /\ wpc \in [Workers -> {"idle", "executing", "sending", "gone"}]
    BY DEF StatusInv, IInv, TypeOK, PoolType
  <2>2. CASE Loop
    BY <2>1, <2>2 DEF Loop, HandleResult, HandleRoute, HandleWait, HandleError, HandleComplete,
       HandleThrowError, HandleTerminate, HandleCallActivity, HandleQueue, CreateFlow, SendFlow,
       Received, FailSafe, ContextDone, ErrorReceived, Finalize, FailSafeReturn, ContextReturn
  <2>3. CASE \E w \in Workers : Worker(w)
    BY <2>1, <2>3 DEF Worker, Take, ExecuteElement, Deliver, Leave
  <2>4. CASE Run
    BY <2>4 DEF Run
  <2>5. CASE Rest \/ Deadline \/ Cancel
    BY <2>5 DEF Rest, Deadline, Cancel, ContextEnds, vars, poolVars
  <2>6. CASE Resume
    <3>1. PICK f, table : Continue(f, table)
      BY <2>6 DEF Resume, CompleteTask, TimerFires, SendMessage, SendSignal
    <3>2. UNCHANGED wpc \/ wpc' = [w \in Workers |-> "gone"]
      BY <3>1 DEF Continue, NotResumed, ContinueAtEnd, ContinueWith, BeginLoop, poolVars
    <3> QED
      BY <3>2
  <2> QED
    BY <2>2, <2>3, <2>4, <2>5, <2>6 DEF Next
<1> QED
  BY <1>1, Invariance, StatusInvariance, PTL DEF Spec, PoolStopsWithLoop

----------------------------------------------------------------------------
(* Where the scheduled work is.                                            *)

Members(s) == {s[i] : i \in 1..Len(s)}

\* The flows in the channels, with the workers and in the hands of the loop.
InFlight ==
  Members(workCh) \cup {holds[w] : w \in Workers} \cup {r.flow : r \in Members(resultCh)}
    \cup (IF pc \in {"create", "send"} THEN {cur} ELSE {})
    \cup (IF pc = "send" THEN {Len(flows)} ELSE {})

\* While the loop can still end well, a scheduled flow is logged or on its way;
\* the loop ends well only when nothing is pending.
WorkInv ==
  /\ pc \in {"select", "create", "send", "closing"} => scheduled \subseteq logged \cup InFlight
  /\ pc = "closing" => pending = 0
  /\ outcome = "ok" =>
       /\ pc = "returned" /\ Gone
       /\ workCh = <<>> /\ resultCh = <<>> /\ Busy = {}
       /\ scheduled \subseteq logged

LEMMA AppendMembers ==
  ASSUME NEW S, NEW s \in Seq(S), NEW x \in S
  PROVE  Members(Append(s, x)) = Members(s) \cup {x}
<1>1. /\ Len(s) \in Nat /\ Len(Append(s, x)) = Len(s) + 1
      /\ \A i \in 1..Len(s) : Append(s, x)[i] = s[i]
      /\ Append(s, x)[Len(s) + 1] = x
  BY AppendProperties, LenProperties
<1>2. 1..(Len(s) + 1) = 1..Len(s) \cup {Len(s) + 1}
  BY <1>1
<1> QED
  BY <1>1, <1>2 DEF Members

LEMMA TailMembers ==
  ASSUME NEW S, NEW s \in Seq(S), s # <<>>
  PROVE  Members(s) = {Head(s)} \cup Members(Tail(s))
<1>1. /\ Len(s) \in Nat \ {0} /\ Len(Tail(s)) = Len(s) - 1
      /\ \A i \in 1..Len(Tail(s)) : Tail(s)[i] = s[i + 1]
      /\ Head(s) = s[1]
  BY HeadTailProperties, EmptySeq
<1>2. ASSUME NEW x \in Members(s) PROVE x \in {Head(s)} \cup Members(Tail(s))
  <2>1. PICK i \in 1..Len(s) : x = s[i]
    BY DEF Members
  <2>2. CASE i = 1
    BY <1>1, <2>1, <2>2
  <2>3. CASE i # 1
    <3>1. i - 1 \in 1..Len(Tail(s)) /\ Tail(s)[i - 1] = s[i]
      BY <1>1, <2>1, <2>3
    <3> QED
      BY <2>1, <3>1 DEF Members
  <2> QED
    BY <2>2, <2>3
<1>3. ASSUME NEW x \in {Head(s)} \cup Members(Tail(s)) PROVE x \in Members(s)
  <2>1. CASE x = Head(s)
    BY <1>1, <2>1 DEF Members
  <2>2. CASE x \in Members(Tail(s))
    <3>1. PICK i \in 1..Len(Tail(s)) : x = Tail(s)[i]
      BY <2>2 DEF Members
    <3>2. i + 1 \in 1..Len(s) /\ x = s[i + 1]
      BY <1>1, <3>1
    <3> QED
      BY <3>2 DEF Members
  <2> QED
    BY <1>3, <2>1, <2>2
<1> QED
  BY <1>2, <1>3

LEMMA NoMembers == Members(<<>>) = {}
BY EmptySeq DEF Members

\* Taking a result moves nothing else.
LEMMA ReceivedFlight ==
  ASSUME IInv, NEW A, Received(A)
  PROVE  InFlight \subseteq {current} \cup Members(workCh') \cup {holds'[w] : w \in Workers}
                             \cup {r.flow : r \in Members(resultCh')}
<1>1. Members(resultCh) = {Head(resultCh)} \cup Members(Tail(resultCh))
  BY TailMembers DEF Received, IInv, TypeOK, ChannelType
<1> QED
  BY <1>1 DEF InFlight, Received, current, result, poolVars

\* The three ways handleResult may end.
LEMMA HandledWork ==
  ASSUME IInv, WorkInv, NEW A, Received(A), Handled(current, pending - 1)
  PROVE  WorkInv'
<1>1. scheduled' \subseteq logged' \cup InFlight'
  BY ReceivedFlight DEF WorkInv, Received, Handled, InFlight
<1> QED
  BY <1>1 DEF WorkInv, Received, Handled

LEMMA EnqueuingWork ==
  ASSUME IInv, WorkInv, NEW A, Received(A), NEW S, NEW fork, Enqueuing(current, S, fork)
  PROVE  WorkInv'
<1>1. scheduled' \subseteq logged' \cup InFlight'
  BY ReceivedFlight DEF WorkInv, Received, Enqueuing, InFlight
<1> QED
  BY <1>1 DEF WorkInv, Received, Enqueuing

LEMMA ReturnWork ==
  ASSUME Return("error") PROVE WorkInv'
BY DEF WorkInv, Return

\* Steps of handleResult that end one of these ways.
LEMMA HandleResultWork ==
  ASSUME IInv, WorkInv, HandleResult PROVE WorkInv'
<1>1. CASE HandleRoute
  BY <1>1, HandledWork, EnqueuingWork DEF HandleRoute
<1>2. CASE HandleWait
  BY <1>2, HandledWork, ReturnWork DEF HandleWait, Failed
<1>3. CASE HandleError
  BY <1>3, ReturnWork DEF HandleError, Failed
<1>4. CASE HandleComplete
  BY <1>4, HandledWork DEF HandleComplete
<1>5. CASE HandleThrowError
  BY <1>5, HandledWork, EnqueuingWork, ReturnWork DEF HandleThrowError, Failed
<1>6. CASE HandleTerminate
  BY <1>6, ReturnWork DEF HandleTerminate, Failed
<1>7. CASE HandleCallActivity
  BY <1>7, EnqueuingWork, ReturnWork DEF HandleCallActivity, Failed
<1>8. CASE HandleQueue
  BY <1>8, HandledWork, EnqueuingWork DEF HandleQueue
<1>9. CASE CreateFlow
  <2>1. CASE Return("error")
    BY <2>1, ReturnWork
  <2>2. CASE ~Return("error")
    <3>1. PICK rec : flows' = Append(flows, rec)
      BY <1>9, <2>2 DEF CreateFlow
    <3>2. /\ pc = "create" /\ pc' = "send" /\ scheduled' = scheduled \cup {Len(flows) + 1}
          /\ UNCHANGED <<workCh, resultCh, holds, cur, logged, outcome>>
      BY <1>9, <2>2 DEF CreateFlow, poolVars
    <3>3. Len(flows') = Len(flows) + 1
      BY <1>9, <3>1, CreateFlowInv, AppendProperties DEF IInv, TypeOK, StoreType
    <3> QED
      BY <3>2, <3>3 DEF WorkInv, InFlight
  <2> QED
    BY <2>1, <2>2
<1>10. CASE SendFlow
  <2>1. CASE Return("error")
    BY <2>1, ReturnWork
  <2>2. CASE ~Return("error")
    <3>1. /\ pc = "send" /\ workCh' = Append(workCh, Len(flows))
          /\ UNCHANGED <<resultCh, holds, flows, outcome, scheduled>>
          /\ \/ pc' = "create" /\ UNCHANGED <<logged, cur>>
             \/ Handled(cur, pending)
      BY <1>10, <2>2 DEF SendFlow, poolVars, storeVars, Handled
    <3>2. Members(workCh') = Members(workCh) \cup {Len(flows)}
      <4>1. workCh \in Seq(Nat) /\ Len(flows) \in Nat
        <5>1. FlowID \subseteq Nat /\ Len(flows) \in Nat
          BY LenProperties DEF IInv, TypeOK, StoreType, FlowID
        <5> QED
          BY <5>1, SeqMonotonic DEF IInv, TypeOK, ChannelType
      <4> QED
        BY <3>1, <4>1, AppendMembers
    <3>3. scheduled' \subseteq logged' \cup InFlight'
      BY <3>1, <3>2 DEF WorkInv, InFlight, Handled
    <3> QED
      BY <3>1, <3>3 DEF WorkInv, Handled
  <2> QED
    BY <2>1, <2>2
<1> QED
  BY <1>1, <1>2, <1>3, <1>4, <1>5, <1>6, <1>7, <1>8, <1>9, <1>10 DEF HandleResult

\* When nothing is pending, nothing is anywhere.
LEMMA NothingInFlight ==
  ASSUME IInv, pc = "closing", pending = 0
  PROVE  workCh = <<>> /\ resultCh = <<>> /\ Busy = {}
<1>1. Len(workCh) \in Nat /\ Len(resultCh) \in Nat
  BY LenProperties DEF IInv, TypeOK, ChannelType
<1>2. Len(workCh) = 0 /\ Len(resultCh) = 0 /\ Cardinality(Busy) = 0
  BY <1>1, BusyFinite DEF IInv, PendingAccount, Quiescent
<1>3. Busy = {}
  BY <1>2, BusyFinite, FS_EmptySet
<1> QED
  BY <1>2, <1>3, EmptySeq DEF IInv, TypeOK, ChannelType

LEMMA FinalizeWork ==
  ASSUME IInv, WorkInv, Finalize PROVE WorkInv'
<1>1. CASE Return("error")
  BY <1>1, ReturnWork
<1>2. CASE ~Return("error")
  <2>1. /\ pc = "closing" /\ Gone /\ pc' = "returned"
        /\ UNCHANGED <<wpc, holds, workCh, resultCh, scheduled, logged>>
    BY <1>2 DEF Finalize, Return, poolVars
  <2>2. workCh = <<>> /\ resultCh = <<>> /\ Busy = {}
    BY <2>1, NothingInFlight DEF WorkInv
  <2>3. InFlight \subseteq {0}
    BY <2>1, <2>2, NoMembers DEF InFlight, Busy
  <2>4. 0 \notin scheduled
    BY DEF IInv, TypeOK, LoopType, FlowID
  <2>5. scheduled \subseteq logged
    BY <2>1, <2>3, <2>4 DEF WorkInv
  <2> QED
    BY <2>1, <2>2, <2>5 DEF WorkInv, Gone, Busy
<1> QED
  BY <1>1, <1>2

LEMMA LoopWork ==
  ASSUME IInv, WorkInv, Loop PROVE WorkInv'
<1>1. CASE FailSafe
  BY <1>1 DEF FailSafe, WorkInv
<1>2. CASE ContextDone
  BY <1>2 DEF ContextDone, WorkInv
<1>3. CASE ErrorReceived \/ FailSafeReturn \/ ContextReturn
  BY <1>3, ReturnWork DEF ErrorReceived, FailSafeReturn, ContextReturn
<1> QED
  BY <1>1, <1>2, <1>3, FinalizeWork, HandleResultWork DEF Loop

\* Executing a flow adds no record.
LEMMA ExecuteLen ==
  ASSUME IInv, NEW w \in Workers, ExecuteElement(w) PROVE Len(flows') = Len(flows)
<1>1. PICK status : flows' = [flows EXCEPT ![holds[w]].status = status]
  BY DEF ExecuteElement
<1>2. flows \in Seq(FlowRecord) /\ DOMAIN flows = 1..Len(flows) /\ Len(flows) \in Nat
  BY LenProperties DEF IInv, TypeOK, StoreType
<1>3. flows' \in Seq(FlowRecord) /\ DOMAIN flows' = 1..Len(flows')
  BY ExecuteElementInv, LenProperties DEF IInv, TypeOK, StoreType
<1> QED
  BY <1>1, <1>2, <1>3, LenProperties

\* A worker passes its flow on, and none is left once the run has ended well.
LEMMA WorkerWork ==
  ASSUME IInv, WorkInv, NEW w \in Workers, Worker(w) PROVE WorkInv'
<1>1. wpc[w] # "gone" /\ UNCHANGED <<pc, outcome, pending, cur, scheduled, logged>>
  BY DEF Worker, Take, ExecuteElement, Deliver, Leave
<1>2. outcome # "ok"
  BY <1>1 DEF WorkInv, Gone
<1>3. holds \in [Workers -> FlowID \cup {0}] /\ wpc[w] \in {"idle", "executing", "sending"}
  BY <1>1 DEF IInv, TypeOK, PoolType
<1>4. InFlight \subseteq {0} \cup InFlight'
  <2>1. CASE Take(w)
    <3>1. /\ workCh # <<>> /\ workCh' = Tail(workCh)
          /\ holds' = [holds EXCEPT ![w] = Head(workCh)]
          /\ holds[w] = 0 /\ UNCHANGED <<resultCh, flows>>
      BY <2>1 DEF Take, storeVars, IInv, HoldsInv
    <3>2. Members(workCh) = {Head(workCh)} \cup Members(workCh')
      BY <3>1, TailMembers DEF IInv, TypeOK, ChannelType
    <3> QED
      BY <1>1, <1>3, <3>1, <3>2 DEF InFlight
  <2>2. CASE ExecuteElement(w)
    <3>1. UNCHANGED <<workCh, holds, resultCh>>
      BY <2>2 DEF ExecuteElement
    <3>2. Len(flows') = Len(flows)
      BY <2>2, ExecuteLen
    <3> QED
      BY <1>1, <3>1, <3>2 DEF InFlight
  <2>3. CASE Deliver(w)
    <3> DEFINE item == [flow |-> holds[w], ans |-> answer[w]]
    <3>1. /\ resultCh' = Append(resultCh, item)
          /\ holds' = [holds EXCEPT ![w] = 0]
          /\ UNCHANGED <<workCh, flows>>
      BY <2>3 DEF Deliver, storeVars
    <3>2. item \in [flow : FlowID, ans : ExecutionResult]
      <4>1. wpc[w] = "sending"
        BY <2>3 DEF Deliver
      <4> QED
        BY <1>3, <4>1 DEF IInv, TypeOK, PoolType, HoldsInv
    <3>3. item.flow = holds[w]
      OBVIOUS
    <3> HIDE DEF item
    <3>4. Members(resultCh') = Members(resultCh) \cup {item}
      <4> DEFINE T == [flow : FlowID, ans : ExecutionResult]
      <4>1. resultCh \in Seq(T) /\ item \in T
        BY <3>2 DEF IInv, TypeOK, ChannelType
      <4> HIDE DEF T
      <4>2. Members(Append(resultCh, item)) = Members(resultCh) \cup {item}
        BY <4>1, AppendMembers
      <4> QED
        BY <3>1, <4>2
    <3> QED
      BY <1>1, <1>3, <3>1, <3>3, <3>4 DEF InFlight
  <2>4. CASE Leave(w)
    BY <1>1, <2>4 DEF Leave, InFlight, storeVars
  <2> QED
    BY <2>1, <2>2, <2>3, <2>4 DEF Worker
<1>5. 0 \notin scheduled
  BY DEF IInv, TypeOK, LoopType, FlowID
<1> QED
  BY <1>1, <1>2, <1>4, <1>5 DEF WorkInv

\* A new loop has all its scheduled flows in workCh.
LEMMA BeginWork ==
  ASSUME NEW items, BeginLoop(items) PROVE WorkInv'
BY DEF BeginLoop, WorkInv, InFlight, Members

LEMMA ContinueWork ==
  ASSUME WorkInv, NEW f, NEW table, Continue(f, table) PROVE WorkInv'
<1>1. pc = "returned"
  BY DEF Continue, Quiet
<1>2. CASE NotResumed
  BY <1>1, <1>2 DEF NotResumed, WorkInv
<1>3. CASE \E fault : ContinueAtEnd(f, fault) /\ ~NotResumed
  BY <1>1, <1>3 DEF ContinueAtEnd, WorkInv, Gone, Busy
<1>4. CASE \E items : BeginLoop(items)
  BY <1>4, BeginWork
<1> QED
  BY <1>2, <1>3, <1>4 DEF Continue, ContinueWith

LEMMA NextWork ==
  ASSUME IInv, WorkInv, [Next]_vars PROVE WorkInv'
<1>1. CASE Run
  <2>1. CASE \E items : BeginLoop(items)
    BY <2>1, BeginWork
  <2> QED
    BY <1>1, <2>1, ReturnWork DEF Run
<1>2. CASE Resume
  BY <1>2, ContinueWork DEF Resume, CompleteTask, TimerFires, SendMessage, SendSignal
<1>3. CASE Rest \/ Deadline \/ Cancel \/ UNCHANGED vars
  BY <1>3 DEF Rest, Deadline, Cancel, ContextEnds, vars, storeVars, instVars, poolVars,
     WorkInv, InFlight, Gone, Busy
<1> QED
  BY <1>1, <1>2, <1>3, LoopWork, WorkerWork DEF Next

LEMMA WorkInvariance == Spec => []WorkInv
<1>1. Init => WorkInv
  BY DEF Init, WorkInv
<1> QED
  BY <1>1, Invariance, NextWork, PTL DEF Spec

\* A nil from Run or Continue means that everything the run scheduled was
\* executed and logged, whatever the order of results, failures and deadlines.
THEOREM NothingLost == Spec => []NoWorkLost
<1>1. WorkInv => NoWorkLost
  BY DEF WorkInv, NoWorkLost
<1> QED
  BY <1>1, WorkInvariance, PTL

----------------------------------------------------------------------------
(* How often an element was executed.                                      *)

\* The record of a parallel gateway that failed: there is none.
Failing(table) ==
  {i \in 1..Len(table) : table[i].element \in Of("parallelGateway") /\ table[i].status = "ERROR"}

\* A flow record is never removed and never moves to another element; that of a
\* parallel gateway does not fail.
Kept(table, new) ==
  /\ Len(table) <= Len(new)
  /\ \A i \in 1..Len(table) : new[i].element = table[i].element
  /\ Failing(new) \subseteq Failing(table)

LEMMA ConcatKeeps ==
  ASSUME NEW s \in Seq(FlowRecord), NEW t \in Seq(FlowRecord), NEW r \in Seq(FlowRecord),
         Len(s) = Len(t), Kept(s, t), \A i \in 1..Len(r) : r[i].status # "ERROR"
  PROVE  Kept(s, t \o r)
<1>1. /\ Len(s) \in Nat /\ Len(t) \in Nat /\ Len(r) \in Nat
      /\ Len(t \o r) = Len(t) + Len(r)
      /\ \A i \in 1..Len(t) + Len(r) : (t \o r)[i] = IF i <= Len(t) THEN t[i] ELSE r[i - Len(t)]
  BY ConcatProperties, LenProperties
<1>2. \A i \in 1..Len(s) : (t \o r)[i] = t[i]
  BY <1>1
<1>3. Failing(t \o r) \subseteq Failing(t)
  <2> SUFFICES ASSUME NEW i \in 1..Len(t) + Len(r), (t \o r)[i].status = "ERROR"
               PROVE  i \in 1..Len(t) /\ (t \o r)[i] = t[i]
    BY <1>1 DEF Failing
  <2>1. CASE i > Len(t)
    <3>1. i - Len(t) \in 1..Len(r) /\ (t \o r)[i] = r[i - Len(t)]
      BY <1>1, <2>1
    <3> QED
      BY <3>1
  <2> QED
    BY <1>1, <2>1
<1> QED
  BY <1>1, <1>2, <1>3 DEF Kept

\* A change of a flow's status keeps its element.
LEMMA StatusKeeps ==
  ASSUME NEW s \in Seq(FlowRecord), NEW f \in 1..Len(s), NEW status,
         s[f].element \in Of("parallelGateway") => status # "ERROR"
  PROVE  Kept(s, [s EXCEPT ![f].status = status])
<1> DEFINE t == [s EXCEPT ![f].status = status]
<1>1. Len(s) \in Nat /\ DOMAIN s = 1..Len(s) /\ \A i \in 1..Len(s) : s[i] \in FlowRecord
  BY LenProperties, ElementOfSeq
<1>2. DOMAIN t = 1..Len(s) /\ Len(t) = Len(s)
  BY <1>1, LenProperties
<1>3. \A i \in 1..Len(s) : t[i].element = s[i].element
  BY <1>1 DEF FlowRecord
<1>4. \A i \in 1..Len(s) : t[i].status = IF i = f THEN status ELSE s[i].status
  BY <1>1 DEF FlowRecord
<1> HIDE DEF t
<1>5. Failing(t) \subseteq Failing(s)
  BY <1>2, <1>3, <1>4 DEF Failing
<1>6. Kept(s, t)
  BY <1>1, <1>2, <1>3, <1>5 DEF Kept
<1> QED
  BY <1>6 DEF t

\* A parallel gateway waits or routes.
LEMMA GatewayAnswers ==
  ASSUME NEW e \in Of("parallelGateway"), NEW c
  PROVE  Execute(e, c) = ParallelGateway(e, c)
BY DEF Of, Execute

LEMMA GatewayStatus ==
  ASSUME NEW e \in Of("parallelGateway"), NEW c, NEW a \in Execute(e, c)
  PROVE  StatusAfter(e, a) = "COMPLETED"
<1>1. a.Action \in {"WAIT", "ROUTE"}
  BY GatewayAnswers DEF ParallelGateway, Answer
<1> QED
  BY <1>1 DEF StatusAfter, LeavesActive, Of

LEMMA CancelKeeps ==
  ASSUME NEW table \in Seq(FlowRecord), NEW f, NEW t \in PartlyCancelled(f, table)
  PROVE  Kept(table, t)
<1> DEFINE shut == CancelAttached(f, table)
<1>1. PICK refused : t = [i \in DOMAIN table |-> IF i \in refused THEN table[i] ELSE shut[i]]
  BY DEF PartlyCancelled
<1>2. /\ Len(table) \in Nat /\ DOMAIN table = 1..Len(table)
      /\ \A i \in 1..Len(table) : table[i] \in FlowRecord
  BY ElementOfSeq, LenProperties
<1>3. \A i \in 1..Len(table) : shut[i].element = table[i].element
  BY <1>2 DEF CancelAttached, FlowRecord
<1>5. \A i \in 1..Len(table) : shut[i].status \in {table[i].status, "COMPLETED"}
  BY <1>2 DEF CancelAttached, FlowRecord
<1> HIDE DEF shut
<1>4. Len(t) = Len(table) /\ t \in Seq(FlowRecord)
  BY PartlyCancelledType
<1>6. Failing(t) \subseteq Failing(table)
  BY <1>1, <1>2, <1>3, <1>4, <1>5 DEF Failing
<1> QED
  BY <1>1, <1>2, <1>3, <1>4, <1>6 DEF Kept

LEMMA KeptTransitive ==
  ASSUME NEW a \in Seq(FlowRecord), NEW b \in Seq(FlowRecord), NEW c, Len(a) = Len(b),
         Kept(a, b), Kept(b, c)
  PROVE  Kept(a, c)
BY DEF Kept

LEMMA ContinueKeeps ==
  ASSUME IInv, NEW f \in FlowID, NEW table \in Seq(FlowRecord), Len(table) = Len(flows),
         Kept(flows, table), Continue(f, table)
  PROVE  Kept(flows, flows')
<1>1. flows \in Seq(FlowRecord) /\ Len(flows) \in Nat /\ flows[f] \in FlowRecord
  <2>1. flows \in Seq(FlowRecord)
    BY DEF IInv, TypeOK, StoreType
  <2> QED
    BY <2>1, ElementOfSeq, LenProperties DEF FlowID
<1>2. CASE flows' = table
  BY <1>2
<1> DEFINE next == Process[flows[f].element].Outgoing
<1>3. next \subseteq Elements
  BY <1>1, ProcessAssumption DEF FlowRecord, Element
<1> HIDE DEF next
<1>4. CASE flows' # table
  <2>1. PICK fault \in BOOLEAN, t \in PartlyCancelled(f, table) :
          \/ flows' = t
          \/ ContinueWith(f, t, next, fault)
    BY <1>4 DEF Continue, next
  <2>2. t \in Seq(FlowRecord) /\ Len(t) = Len(table) /\ Kept(flows, t)
    BY <1>1, PartlyCancelledType, CancelKeeps, KeptTransitive
  <2>3. CASE ContinueWith(f, t, next, fault)
    <3>1. PICK s \in Orders(next) :
            LET recs == FlowRecords(s, t[f].thread) IN
            \/ flows' = t \o recs
            \/ \E k \in 0..(Len(s) - 1) : flows' = t \o SubSeq(recs, 1, k)
      BY <2>3 DEF ContinueWith
    <3> DEFINE recs == FlowRecords(s, t[f].thread)
    <3>2. t[f].thread \in Nat
      <4>1. t[f] \in FlowRecord
        BY <1>1, <2>2, ElementOfSeq DEF FlowID
      <4> QED
        BY <4>1 DEF FlowRecord
    <3>3. /\ recs \in Seq(FlowRecord) /\ Len(recs) = Len(s) /\ Len(s) \in Nat
          /\ \A i \in 1..Len(s) : recs[i].status # "ERROR"
      BY <1>3, <3>2, FlowRecordsType DEF FlowRecords, CreateFlowRecord
    <3> HIDE DEF recs
    <3>4. CASE flows' = t \o recs
      BY <1>1, <2>2, <3>3, <3>4, ConcatKeeps
    <3>5. ASSUME NEW k \in 0..(Len(s) - 1), flows' = t \o SubSeq(recs, 1, k)
          PROVE  Kept(flows, flows')
      <4>1. \A i \in 1..k : recs[i] \in FlowRecord
        BY <3>3, ElementOfSeq
      <4>2. /\ SubSeq(recs, 1, k) \in Seq(FlowRecord)
            /\ \A i \in 1..Len(SubSeq(recs, 1, k)) : SubSeq(recs, 1, k)[i].status # "ERROR"
        BY <3>3, <4>1, SubSeqProperties
      <4> QED
        BY <1>1, <2>2, <3>5, <4>2, ConcatKeeps
    <3> QED
      BY <3>1, <3>4, <3>5 DEF recs
  <2> QED
    BY <2>1, <2>2, <2>3
<1> QED
  BY <1>2, <1>4

\* No step of any goroutine forgets a flow record.
LEMMA NextKeeps ==
  ASSUME IInv, [Next]_vars PROVE Kept(flows, flows')
<1>1. flows \in Seq(FlowRecord) /\ Len(flows) \in Nat
  BY LenProperties DEF IInv, TypeOK, StoreType
<1>2. Kept(flows, flows)
  BY <1>1 DEF Kept
<1>3. ASSUME NEW rec \in FlowRecord, rec.status = "ACTIVE"
      PROVE  Kept(flows, Append(flows, rec))
  BY <1>1, <1>3, AppendProperties DEF Kept, Failing
<1>4. CASE HandleWait
  <2>1. CASE UNCHANGED flows
    BY <1>2, <2>1
  <2>2. CASE ~UNCHANGED flows
    <3> DEFINE boundary == BoundaryTimers(element) \cup BoundaryMessages(element)
    <3>1. PICK unarmed \in SUBSET boundary :
            \E s \in Orders(boundary \ unarmed) :
              flows' = flows \o FlowRecords(s, flows[current].thread)
      BY <1>4, <2>2 DEF HandleWait
    <3>6. PICK s \in Orders(boundary \ unarmed) :
            flows' = flows \o FlowRecords(s, flows[current].thread)
      BY <3>1
    <3>2. element \in Elements /\ result.ans \in ExecutionResult /\ current \in FlowID
      BY <1>4, ResultFacts DEF HandleWait, Received
    <3>3. flows[current].thread \in Nat
      <4>1. flows[current] \in FlowRecord
        BY <1>1, <3>2, ElementOfSeq DEF FlowID
      <4> QED
        BY <4>1 DEF FlowRecord
    <3>4. boundary \ unarmed \subseteq Elements
      BY <3>2, NextFlowsType
    <3> HIDE DEF boundary
    <3>5. LET recs == FlowRecords(s, flows[current].thread) IN
          recs \in Seq(FlowRecord) /\ \A i \in 1..Len(recs) : recs[i].status # "ERROR"
      BY <3>3, <3>4, FlowRecordsType DEF FlowRecords, CreateFlowRecord
    <3> QED
      BY <1>1, <1>2, <3>6, <3>5, ConcatKeeps
  <2> QED
    BY <2>1, <2>2
<1>5. CASE CreateFlow
  <2>1. CASE UNCHANGED flows
    BY <1>2, <2>1
  <2>2. CASE ~UNCHANGED flows
    <3>1. PICK rec : flows' = Append(flows, rec) /\ rec.status = "ACTIVE"
      BY <1>5, <2>2 DEF CreateFlow, CreateFlowRecord
    <3>2. /\ Len(flows') = Len(flows) + 1
          /\ \A i \in 1..Len(flows) : flows'[i] = flows[i]
          /\ flows'[Len(flows) + 1].status # "ERROR"
      BY <1>1, <3>1
    <3> QED
      BY <1>1, <3>2 DEF Kept, Failing
  <2> QED
    BY <2>1, <2>2
<1>6. CASE Loop /\ ~HandleWait /\ ~CreateFlow
  <2>1. UNCHANGED flows
    BY <1>6 DEF Loop, HandleResult, HandleRoute, HandleError, HandleComplete,
       HandleThrowError, HandleTerminate, HandleCallActivity, HandleQueue, SendFlow,
       FailSafe, ContextDone, ErrorReceived, Finalize, FailSafeReturn, ContextReturn, storeVars
  <2> QED
    BY <1>2, <2>1
<1>7. ASSUME NEW w \in Workers, Worker(w)
      PROVE  Kept(flows, flows')
  <2>1. CASE ExecuteElement(w)
    <3>2. holds[w] \in 1..Len(flows)
      BY <2>1 DEF ExecuteElement, IInv, TypeOK, PoolType, HoldsInv, FlowID
    <3>1. PICK status : /\ flows' = [flows EXCEPT ![holds[w]].status = status]
                        /\ flows[holds[w]].element \in Of("parallelGateway") => status # "ERROR"
      BY <2>1, GatewayStatus DEF ExecuteElement
    <3> QED
      BY <1>1, <3>1, <3>2, StatusKeeps
  <2>2. CASE UNCHANGED flows
    BY <1>2, <2>2
  <2> QED
    BY <1>7, <2>1, <2>2 DEF Worker, Take, Deliver, Leave, storeVars
<1>8. CASE Run
  <2>1. Start \in Elements
    BY ProcessAssumption
  <2>2. CreateFlowRecord(Start, 1) \in FlowRecord /\ CreateFlowRecord(Start, 1).status = "ACTIVE"
    BY <2>1 DEF CreateFlowRecord, FlowRecord, FlowStatus
  <2>3. flows' \in {flows, Append(flows, CreateFlowRecord(Start, 1))}
    BY <1>8 DEF Run
  <2> QED
    BY <1>2, <1>3, <2>2, <2>3
<1>9. CASE Resume
  <2>1. PICK f \in FlowID : CompleteTask(f) \/ TimerFires(f) \/ SendMessage(f) \/ SendSignal(f)
    BY <1>9 DEF Resume
  <2>2. Kept(flows, Completed(f)) /\ Completed(f) \in Seq(FlowRecord)
        /\ Len(Completed(f)) = Len(flows)
    <3>1. flows[f] \in FlowRecord
      BY <1>1, ElementOfSeq DEF FlowID
    <3>2. [flows[f] EXCEPT !.status = "COMPLETED"] \in FlowRecord
      BY <3>1 DEF FlowRecord, FlowStatus
    <3>3. Completed(f) = [flows EXCEPT ![f] = [flows[f] EXCEPT !.status = "COMPLETED"]]
      BY DEF Completed
    <3>4. Completed(f) \in Seq(FlowRecord) /\ Len(Completed(f)) = Len(flows)
      BY <1>1, <3>2, <3>3, ExceptSeq DEF FlowID
    <3> QED
      BY <1>1, <3>4, StatusKeeps DEF Completed, FlowID
  <2> QED
    BY <1>1, <1>2, <2>1, <2>2, ContinueKeeps
       DEF CompleteTask, TimerFires, SendMessage, SendSignal
<1>10. CASE Rest \/ Deadline \/ Cancel \/ UNCHANGED vars
  BY <1>2, <1>10 DEF Rest, Deadline, Cancel, ContextEnds, vars, storeVars
<1> QED
  BY <1>4, <1>5, <1>6, <1>7, <1>8, <1>9, <1>10 DEF Next, Loop, HandleResult

\* The flows whose result was accepted: logged, or being routed on.
Accepted == logged \cup (IF pc \in {"create", "send"} THEN {cur} ELSE {})
AcceptedAt(e) == {i \in Accepted : flows[i].element = e}

\* Each accepted result was counted, and none was accepted beyond the limit.
CountInv ==
  \A e \in Elements :
    Cardinality(AcceptedAt(e)) <= counts[e] /\ Cardinality(AcceptedAt(e)) <= MaxLoops

LEMMA AcceptedFinite ==
  ASSUME IInv, NEW e
  PROVE  /\ Accepted \subseteq FlowID
         /\ IsFiniteSet(AcceptedAt(e)) /\ Cardinality(AcceptedAt(e)) \in Nat
<1>1. Len(flows) \in Nat
  BY LenProperties DEF IInv, TypeOK, StoreType
<1>2. Accepted \subseteq FlowID
  BY DEF Accepted, IInv, TypeOK, LoopType, CurInv
<1>3. IsFiniteSet(FlowID)
  BY <1>1, FS_Interval DEF FlowID
<1> QED
  BY <1>2, <1>3, FS_Subset, FS_CardinalityType DEF AcceptedAt

\* A step that accepts nothing new and forgets no count.
LEMMA NothingAccepted ==
  ASSUME IInv, CountInv, Kept(flows, flows'), Accepted' \subseteq Accepted,
         \A e \in Elements : counts'[e] \in Nat /\ counts[e] <= counts'[e]
  PROVE  CountInv'
<1> SUFFICES ASSUME NEW e \in Elements
             PROVE  /\ Cardinality(AcceptedAt(e)') <= counts'[e]
                    /\ Cardinality(AcceptedAt(e)') <= MaxLoops
  BY DEF CountInv
<1>1. AcceptedAt(e)' \subseteq AcceptedAt(e)
  BY AcceptedFinite DEF AcceptedAt, Kept, FlowID
<1>2. /\ Cardinality(AcceptedAt(e)') \in Nat /\ Cardinality(AcceptedAt(e)) \in Nat
      /\ Cardinality(AcceptedAt(e)') <= Cardinality(AcceptedAt(e))
  BY <1>1, AcceptedFinite, FS_Subset, FS_CardinalityType
<1>3. counts[e] \in Nat /\ MaxLoops \in Nat
  BY EngineAssumption DEF IInv, TypeOK, CounterType
<1> QED
  BY <1>2, <1>3 DEF CountInv

\* The step that accepts the result at the head of resultCh.
LEMMA OneAccepted ==
  ASSUME IInv, CountInv, NEW A, Received(A), Kept(flows, flows'),
         Accepted' \subseteq Accepted \cup {current}
  PROVE  CountInv'
<1> SUFFICES ASSUME NEW e \in Elements
             PROVE  /\ Cardinality(AcceptedAt(e)') <= counts'[e]
                    /\ Cardinality(AcceptedAt(e)') <= MaxLoops
  BY DEF CountInv
<1>1. /\ current \in FlowID /\ element \in Elements
      /\ counts \in [Elements -> Nat] /\ MaxLoops \in Nat
      /\ counts[element] < MaxLoops
      /\ counts' = [counts EXCEPT ![element] = @ + 1]
  BY ResultFacts, EngineAssumption DEF Received, IInv, TypeOK, CounterType
<1>2. IsFiniteSet(AcceptedAt(e)) /\ Cardinality(AcceptedAt(e)) \in Nat /\ Accepted \subseteq FlowID
  BY AcceptedFinite
<1>3. CASE e = element
  <2>1. AcceptedAt(e)' \subseteq AcceptedAt(e) \cup {current}
    BY <1>1, <1>2 DEF AcceptedAt, Kept, FlowID
  <2>2. /\ IsFiniteSet(AcceptedAt(e) \cup {current})
        /\ Cardinality(AcceptedAt(e) \cup {current}) \in Nat
        /\ Cardinality(AcceptedAt(e) \cup {current}) <= Cardinality(AcceptedAt(e)) + 1
    <3> DEFINE S == AcceptedAt(e)
    <3> HIDE DEF S
    <3>1. IsFiniteSet(S) /\ Cardinality(S) \in Nat
      BY <1>2 DEF S
    <3>2. IsFiniteSet(S \cup {current})
      BY <3>1, FS_AddElement
    <3>3. Cardinality(S \cup {current}) = Cardinality(S) \/ Cardinality(S \cup {current}) = Cardinality(S) + 1
      BY <3>1, FS_AddElement
    <3> QED
      BY <3>1, <3>2, <3>3 DEF S
  <2>3. /\ Cardinality(AcceptedAt(e)') \in Nat
        /\ Cardinality(AcceptedAt(e)') <= Cardinality(AcceptedAt(e)) + 1
    BY <1>2, <2>1, <2>2, FS_Subset, FS_CardinalityType
  <2>4. Cardinality(AcceptedAt(e)) <= counts[e]
    BY DEF CountInv
  <2> QED
    BY <1>1, <1>2, <1>3, <2>3, <2>4
<1>4. CASE e # element
  <2>1. AcceptedAt(e)' \subseteq AcceptedAt(e)
    BY <1>1, <1>2, <1>4 DEF AcceptedAt, Kept, FlowID, element
  <2>2. /\ Cardinality(AcceptedAt(e)') \in Nat
        /\ Cardinality(AcceptedAt(e)') <= Cardinality(AcceptedAt(e))
    BY <1>2, <2>1, FS_Subset, FS_CardinalityType
  <2>3. counts'[e] = counts[e] /\ counts[e] \in Nat
    BY <1>1, <1>4
  <2> QED
    BY <1>1, <1>2, <2>2, <2>3 DEF CountInv
<1> QED
  BY <1>3, <1>4

LEMMA LoopCount ==
  ASSUME IInv, CountInv, Kept(flows, flows'), Loop PROVE CountInv'
<1>0. counts \in [Elements -> Nat] /\ resultCh \in Seq([flow : FlowID, ans : ExecutionResult])
  BY DEF IInv, TypeOK, CounterType, ChannelType
\* what an action that receives a result accepts
<1>1. ASSUME NEW A, Received(A),
             \/ Handled(current, pending - 1)
             \/ \E S, fork : Enqueuing(current, S, fork)
             \/ Return("error") /\ logged' \subseteq logged \cup {current}
      PROVE  CountInv'
  <2>1. Accepted' \subseteq Accepted \cup {current}
    BY <1>1 DEF Accepted, Received, Handled, Enqueuing, Return
  <2> QED
    BY <1>1, <2>1, OneAccepted
<1>2. CASE HandleRoute \/ HandleComplete \/ HandleQueue
  BY <1>1, <1>2 DEF HandleRoute, HandleComplete, HandleQueue
<1>3. CASE HandleWait \/ HandleError \/ HandleThrowError
  BY <1>1, <1>3 DEF HandleWait, HandleError, HandleThrowError, Failed
<1>4. CASE HandleTerminate \/ HandleCallActivity
  BY <1>1, <1>4 DEF HandleTerminate, HandleCallActivity, Failed
<1>5. CASE CreateFlow
  <2>1. Accepted' \subseteq Accepted /\ UNCHANGED counts
    BY <1>5 DEF CreateFlow, Accepted, Return
  <2> QED
    BY <1>0, <2>1, NothingAccepted
<1>6. CASE SendFlow
  <2>1. Accepted' \subseteq Accepted /\ UNCHANGED counts
    BY <1>6 DEF SendFlow, Accepted, Return, Handled
  <2> QED
    BY <1>0, <2>1, NothingAccepted
<1>7. CASE FailSafe
  <2>1. Accepted' \subseteq Accepted
    BY <1>7 DEF FailSafe, Accepted
  <2>2. counts' = counts \/ counts' = [counts EXCEPT ![element] = @ + 1]
    BY <1>7 DEF FailSafe
  <2>3. \A e \in Elements : counts'[e] \in Nat /\ counts[e] <= counts'[e]
    BY <1>0, <2>2
  <2> QED
    BY <2>1, <2>3, NothingAccepted
<1>8. CASE ContextDone \/ ErrorReceived \/ Finalize \/ FailSafeReturn \/ ContextReturn
  <2>1. Accepted' \subseteq Accepted /\ UNCHANGED counts
    BY <1>8 DEF ContextDone, ErrorReceived, Finalize, FailSafeReturn, ContextReturn,
       Accepted, Return
  <2> QED
    BY <1>0, <2>1, NothingAccepted
<1> QED
  BY <1>2, <1>3, <1>4, <1>5, <1>6, <1>7, <1>8 DEF Loop, HandleResult

\* A new loop has accepted nothing yet.
LEMMA NoneAccepted ==
  ASSUME Accepted' = {}, counts' = [e \in Elements |-> 0] PROVE CountInv'
<1>1. \A e : AcceptedAt(e)' = {}
  BY DEF AcceptedAt
<1> QED
  BY <1>1, FS_EmptySet, EngineAssumption DEF CountInv

LEMMA BeginCount ==
  ASSUME NEW items, BeginLoop(items) PROVE CountInv'
BY NoneAccepted DEF BeginLoop, Accepted

LEMMA NextCount ==
  ASSUME IInv, CountInv, [Next]_vars PROVE CountInv'
<1>0. counts \in [Elements -> Nat] /\ Kept(flows, flows')
  BY NextKeeps DEF IInv, TypeOK, CounterType
<1>1. ASSUME Accepted' \subseteq Accepted, UNCHANGED counts
      PROVE  CountInv'
  BY <1>0, <1>1, NothingAccepted
<1>2. CASE \E w \in Workers : Worker(w)
  <2>1. UNCHANGED <<pc, cur, logged, counts>>
    BY <1>2 DEF Worker, Take, ExecuteElement, Deliver, Leave
  <2> QED
    BY <1>1, <2>1 DEF Accepted
<1>3. CASE Run
  <2>1. CASE \E items : BeginLoop(items)
    BY <2>1, BeginCount
  <2>2. CASE Return("error") /\ UNCHANGED <<logged, counts>>
    BY <1>1, <2>2 DEF Accepted, Return
  <2> QED
    BY <1>3, <2>1, <2>2 DEF Run
<1>4. CASE Resume
  <2>1. PICK f, table : Continue(f, table)
    BY <1>4 DEF Resume, CompleteTask, TimerFires, SendMessage, SendSignal
  <2>2. CASE \E items : BeginLoop(items)
    BY <2>2, BeginCount
  <2>3. CASE NotResumed
    BY <1>1, <2>3 DEF Accepted, NotResumed
  <2>4. CASE \E fault : ContinueAtEnd(f, fault) /\ ~NotResumed
    <3>1. pc = "returned"
      BY <2>1 DEF Continue, Quiet
    <3>2. logged' = {} /\ counts' = [e \in Elements |-> 0] /\ UNCHANGED pc
      BY <2>4 DEF ContinueAtEnd
    <3> QED
      BY <3>1, <3>2, NoneAccepted DEF Accepted
  <2> QED
    BY <2>1, <2>2, <2>3, <2>4 DEF Continue, ContinueWith
<1>5. CASE Rest \/ Deadline \/ Cancel \/ UNCHANGED vars
  <2>1. UNCHANGED <<pc, cur, logged, counts>>
    BY <1>5 DEF Rest, Deadline, Cancel, ContextEnds, vars
  <2> QED
    BY <1>1, <2>1 DEF Accepted
<1> QED
  BY <1>0, <1>2, <1>3, <1>4, <1>5, LoopCount DEF Next

LEMMA CountInvariance == Spec => []CountInv
<1>1. Init => CountInv
  <2> SUFFICES ASSUME Init PROVE CountInv
    OBVIOUS
  <2>1. \A e : AcceptedAt(e) = {}
    BY DEF Init, AcceptedAt, Accepted
  <2>2. \A e : Cardinality(AcceptedAt(e)) = 0
    BY <2>1, FS_EmptySet
  <2>3. \A e \in Elements : counts[e] = 0
    BY DEF Init
  <2>4. MaxLoops \in Nat
    BY EngineAssumption
  <2> QED
    BY <2>2, <2>3, <2>4 DEF CountInv
<1> QED
  BY <1>1, Invariance, NextCount, PTL DEF Spec

\* Whichever branches race to it, an element gets at most MaxLoops logged
\* executions in one run.
THEOREM LoopsAreBounded == Spec => []LoopsBounded
<1>1. IInv /\ CountInv => LoopsBounded
  <2> SUFFICES ASSUME IInv, CountInv, NEW e \in Elements
               PROVE  Cardinality({i \in logged : flows[i].element = e}) <= MaxLoops
    BY DEF LoopsBounded
  <2> DEFINE done == {i \in logged : flows[i].element = e}
  <2>1. done \subseteq AcceptedAt(e)
    BY DEF AcceptedAt, Accepted
  <2> HIDE DEF done
  <2>2. Cardinality(done) \in Nat /\ Cardinality(done) <= Cardinality(AcceptedAt(e))
    BY <2>1, AcceptedFinite, FS_Subset, FS_CardinalityType
  <2>3. MaxLoops \in Nat /\ Cardinality(AcceptedAt(e)) \in Nat
    BY AcceptedFinite, EngineAssumption
  <2> QED
    BY <2>2, <2>3 DEF CountInv, done
<1> QED
  BY <1>1, Invariance, CountInvariance, PTL

----------------------------------------------------------------------------
(* A join fires, whatever the order of arrivals, executions and results.   *)

\* The joins the theorem is about: they synchronise, and lead on.
Firing ==
  {e \in Of("parallelGateway") :
     Joins(e) /\ Process[e].Outgoing # {} /\ Process[e].Incoming # 0}

----------------------------------------------------------------------------
(* Every scheduled flow is in one place.                                   *)

Distinct(s) == \A i, j \in 1..Len(s) : s[i] = s[j] => i = j

\* The flows of the results in a channel.
FlowsOf(ch) == [i \in 1..Len(ch) |-> ch[i].flow]

InChannels == Members(workCh) \cup Members(FlowsOf(resultCh))
Held == {holds[w] : w \in Workers}

\* Where a scheduled flow is whose result has not been received.
Places == InChannels \cup Held \cup (IF pc = "send" THEN {Len(flows)} ELSE {})

PlacesInv ==
  /\ Places \subseteq scheduled \cup {0}
  /\ Distinct(workCh) /\ Distinct(FlowsOf(resultCh))
  /\ \A v, w \in Workers : holds[v] = holds[w] /\ holds[v] # 0 => v = w
  /\ Members(workCh) \cap Members(FlowsOf(resultCh)) = {}
  /\ Held \cap InChannels = {}
  /\ pc = "send" => Len(flows) \notin InChannels \cup Held

LEMMA DistinctTail ==
  ASSUME NEW S, NEW s \in Seq(S), s # <<>>, Distinct(s)
  PROVE  Distinct(Tail(s)) /\ Head(s) \notin Members(Tail(s))
<1>1. /\ Len(s) \in Nat \ {0} /\ Len(Tail(s)) = Len(s) - 1
      /\ \A i \in 1..Len(Tail(s)) : Tail(s)[i] = s[i + 1]
      /\ Head(s) = s[1]
  BY HeadTailProperties, EmptySeq
<1>2. \A i \in 1..Len(Tail(s)) : i + 1 \in 1..Len(s) /\ i + 1 # 1
  BY <1>1
<1>3. Head(s) \notin Members(Tail(s))
  BY <1>1, <1>2 DEF Distinct, Members
<1>4. ASSUME NEW i \in 1..Len(Tail(s)), NEW j \in 1..Len(Tail(s)), Tail(s)[i] = Tail(s)[j]
      PROVE  i = j
  <2>1. i + 1 = j + 1
    BY <1>1, <1>2, <1>4 DEF Distinct
  <2> QED
    BY <1>1, <2>1
<1> QED
  BY <1>3, <1>4 DEF Distinct

LEMMA DistinctAppend ==
  ASSUME NEW S, NEW s \in Seq(S), NEW x \in S, Distinct(s), x \notin Members(s)
  PROVE  Distinct(Append(s, x))
<1>1. /\ Len(s) \in Nat /\ Len(Append(s, x)) = Len(s) + 1
      /\ \A i \in 1..Len(s) : Append(s, x)[i] = s[i]
      /\ Append(s, x)[Len(s) + 1] = x
  BY AppendProperties, LenProperties
<1> SUFFICES ASSUME NEW i \in 1..Len(s) + 1, NEW j \in 1..Len(s) + 1,
                    Append(s, x)[i] = Append(s, x)[j]
             PROVE  i = j
  BY <1>1 DEF Distinct
<1>2. \A k \in 1..Len(s) : s[k] # x
  BY DEF Members
<1>3. CASE i \in 1..Len(s) /\ j \in 1..Len(s)
  BY <1>1, <1>3 DEF Distinct
<1>4. CASE i \notin 1..Len(s) \/ j \notin 1..Len(s)
  BY <1>1, <1>2, <1>4
<1> QED
  BY <1>3, <1>4

\* The flows of a channel are taken and added with its results.
LEMMA FlowsOfTail ==
  ASSUME NEW F, NEW A, NEW ch \in Seq([flow : F, ans : A])
  PROVE  /\ FlowsOf(ch) \in Seq(F) /\ Len(FlowsOf(ch)) = Len(ch)
         /\ ch # <<>> =>
              /\ FlowsOf(ch) # <<>> /\ Head(FlowsOf(ch)) = Head(ch).flow
              /\ FlowsOf(Tail(ch)) = Tail(FlowsOf(ch))
<1>1. Len(ch) \in Nat /\ \A i \in 1..Len(ch) : ch[i] \in [flow : F, ans : A]
  BY ElementOfSeq, LenProperties
<1>2. FlowsOf(ch) \in [1..Len(ch) -> F]
  BY <1>1 DEF FlowsOf
<1>3. FlowsOf(ch) \in Seq(F) /\ Len(FlowsOf(ch)) = Len(ch)
  BY <1>1, <1>2
<1>4. ASSUME ch # <<>>
      PROVE  /\ FlowsOf(ch) # <<>> /\ Head(FlowsOf(ch)) = Head(ch).flow
             /\ FlowsOf(Tail(ch)) = Tail(FlowsOf(ch))
  <2>1. Len(ch) \in Nat \ {0}
    BY <1>1, <1>4, EmptySeq
  <2>2. /\ Head(ch) = ch[1] /\ Len(Tail(ch)) = Len(ch) - 1
        /\ \A i \in 1..Len(Tail(ch)) : Tail(ch)[i] = ch[i + 1]
    BY <1>4, HeadTailProperties
  <2>3. FlowsOf(ch) # <<>>
    BY <1>3, <2>1, EmptySeq
  <2>4. /\ Head(FlowsOf(ch)) = FlowsOf(ch)[1] /\ Tail(FlowsOf(ch)) \in Seq(F)
        /\ Len(Tail(FlowsOf(ch))) = Len(ch) - 1
        /\ \A i \in 1..(Len(ch) - 1) : Tail(FlowsOf(ch))[i] = FlowsOf(ch)[i + 1]
    BY <1>3, <2>3, HeadTailProperties
  <2>5. Head(FlowsOf(ch)) = Head(ch).flow
    BY <2>1, <2>2, <2>4 DEF FlowsOf
  <2>6. \A i \in 1..(Len(ch) - 1) : FlowsOf(Tail(ch))[i] = Tail(FlowsOf(ch))[i]
    BY <2>1, <2>2, <2>4 DEF FlowsOf
  <2>7. FlowsOf(Tail(ch)) = [i \in 1..(Len(ch) - 1) |-> Tail(FlowsOf(ch))[i]]
    BY <2>2, <2>6 DEF FlowsOf
  <2>8. Tail(FlowsOf(ch)) = [i \in 1..(Len(ch) - 1) |-> Tail(FlowsOf(ch))[i]]
    <3> DEFINE t == Tail(FlowsOf(ch))
    <3>1. t \in Seq(F) /\ Len(t) = Len(ch) - 1
      BY <2>4
    <3> HIDE DEF t
    <3>2. t = [i \in 1..(Len(ch) - 1) |-> t[i]]
      BY <3>1, LenProperties
    <3> QED
      BY <3>2 DEF t
  <2> QED
    BY <2>3, <2>5, <2>7, <2>8
<1> QED
  BY <1>3, <1>4

LEMMA FlowsOfAppend ==
  ASSUME NEW F, NEW R, \A r \in R : r.flow \in F, NEW ch \in Seq(R), NEW r \in R
  PROVE  FlowsOf(Append(ch, r)) = Append(FlowsOf(ch), r.flow)
<1>1. /\ Len(ch) \in Nat /\ Len(Append(ch, r)) = Len(ch) + 1
      /\ \A i \in 1..Len(ch) : Append(ch, r)[i] = ch[i]
      /\ Append(ch, r)[Len(ch) + 1] = r
  BY AppendProperties, LenProperties
<1>2. FlowsOf(ch) \in Seq(F) /\ Len(FlowsOf(ch)) = Len(ch) /\ r.flow \in F
  <2>1. \A i \in 1..Len(ch) : ch[i].flow \in F
    BY <1>1, ElementOfSeq
  <2>2. FlowsOf(ch) \in [1..Len(ch) -> F]
    BY <2>1 DEF FlowsOf
  <2> QED
    BY <1>1, <2>2
<1>3. /\ Append(FlowsOf(ch), r.flow) \in Seq(F)
      /\ Len(Append(FlowsOf(ch), r.flow)) = Len(ch) + 1
      /\ \A i \in 1..Len(ch) : Append(FlowsOf(ch), r.flow)[i] = FlowsOf(ch)[i]
      /\ Append(FlowsOf(ch), r.flow)[Len(ch) + 1] = r.flow
  BY <1>2, AppendProperties
<1>4. \A i \in 1..(Len(ch) + 1) : Append(FlowsOf(ch), r.flow)[i] = Append(ch, r)[i].flow
  BY <1>1, <1>3 DEF FlowsOf
<1>5. Append(FlowsOf(ch), r.flow) = [i \in 1..(Len(ch) + 1) |-> Append(FlowsOf(ch), r.flow)[i]]
  BY <1>3, LenProperties
<1> QED
  BY <1>1, <1>4, <1>5 DEF FlowsOf
----------------------------------------------------------------------------
(* Each kind of step keeps the places apart.                               *)

\* The channels before a step.
LEMMA ChannelFacts ==
  ASSUME IInv
  PROVE  /\ workCh \in Seq(FlowID)
         /\ resultCh \in Seq([flow : FlowID, ans : ExecutionResult])
         /\ FlowsOf(resultCh) \in Seq(FlowID)
         /\ InChannels \subseteq FlowID /\ 0 \notin InChannels /\ 0 \notin scheduled
<1>1. /\ workCh \in Seq(FlowID)
      /\ resultCh \in Seq([flow : FlowID, ans : ExecutionResult])
  BY DEF IInv, TypeOK, ChannelType
<1>2. FlowsOf(resultCh) \in Seq(FlowID)
  BY <1>1, FlowsOfTail
<1>3. Members(workCh) \subseteq FlowID /\ Members(FlowsOf(resultCh)) \subseteq FlowID
  BY <1>1, <1>2, ElementOfSeq DEF Members
<1> QED
  BY <1>1, <1>2, <1>3 DEF InChannels, FlowID, IInv, TypeOK, LoopType

\* The loop takes a result: its flow is in no place any more.
LEMMA ReceivePlaces ==
  ASSUME IInv, PlacesInv, pc = "select", resultCh # <<>>, resultCh' = Tail(resultCh),
         UNCHANGED <<poolVars, workCh, scheduled>>, pc' # "send"
  PROVE  /\ PlacesInv'
         /\ current \in scheduled /\ current \notin Places' /\ Places = Places' \cup {current}
<1>1. /\ FlowsOf(resultCh) \in Seq(FlowID) /\ FlowsOf(resultCh) # <<>>
      /\ Head(FlowsOf(resultCh)) = current
      /\ FlowsOf(resultCh') = Tail(FlowsOf(resultCh))
  BY ChannelFacts, FlowsOfTail DEF current, result
<1>2. /\ Distinct(FlowsOf(resultCh')) /\ current \notin Members(FlowsOf(resultCh'))
      /\ Members(FlowsOf(resultCh)) = {current} \cup Members(FlowsOf(resultCh'))
  BY <1>1, DistinctTail, TailMembers DEF PlacesInv
<1>3. current \in InChannels /\ current # 0
  BY <1>2, ChannelFacts DEF InChannels
<1>4. InChannels = InChannels' \cup {current} /\ current \notin InChannels' /\ UNCHANGED Held
  BY <1>2 DEF InChannels, Held, poolVars, PlacesInv
<1>5. current \notin Held
  BY <1>3 DEF PlacesInv
<1>6. Places = Places' \cup {current} /\ current \notin Places'
  BY <1>4, <1>5 DEF Places
<1> QED
  BY <1>2, <1>3, <1>4, <1>6 DEF PlacesInv, poolVars

\* A step that moves no flow.
LEMMA StillPlaces ==
  ASSUME PlacesInv, UNCHANGED <<workCh, resultCh, holds, scheduled>>,
         pc' = "send" => pc = "send" /\ Len(flows') = Len(flows)
  PROVE  PlacesInv' /\ (UNCHANGED pc \/ pc # "send" => Places' = Places)
BY DEF PlacesInv, Places, InChannels, Held

\* A new flow is in the hands of the loop.
LEMMA CreatePlaces ==
  ASSUME IInv, PlacesInv, pc = "create", pc' = "send", UNCHANGED <<workCh, resultCh, holds>>,
         Len(flows') = Len(flows) + 1, scheduled' = scheduled \cup {Len(flows) + 1}
  PROVE  /\ PlacesInv' /\ Places' = Places \cup {Len(flows) + 1}
         /\ Len(flows) + 1 \notin scheduled
<1>1. Len(flows) \in Nat /\ Len(flows) + 1 \notin FlowID /\ Len(flows) + 1 # 0
  BY LenProperties DEF FlowID, IInv, TypeOK, StoreType
<1>2. scheduled \subseteq FlowID
  BY DEF IInv, TypeOK, LoopType
<1>3. Len(flows) + 1 \notin InChannels \cup Held
  BY <1>1, <1>2 DEF PlacesInv, Places
<1>4. UNCHANGED <<InChannels, Held>>
  BY DEF InChannels, Held
<1>5. Places' = Places \cup {Len(flows) + 1}
  BY <1>4 DEF Places
<1> QED
  BY <1>1, <1>2, <1>3, <1>4, <1>5 DEF PlacesInv

\* It goes to workCh.
LEMMA SendPlaces ==
  ASSUME IInv, PlacesInv, pc = "send", pc' # "send", workCh' = Append(workCh, Len(flows)),
         UNCHANGED <<resultCh, holds, scheduled>>
  PROVE  PlacesInv' /\ Places' = Places
<1>1. Len(flows) \in scheduled \cup {0} /\ Len(flows) \in Nat
  BY LenProperties DEF PlacesInv, Places, IInv, TypeOK, StoreType
<1>2. Len(flows) \in FlowID
  <2>1. cur \in FlowID
    BY DEF IInv, CurInv, TypeOK, LoopType
  <2> QED
    BY <1>1, <2>1 DEF FlowID
<1>3. Len(flows) \notin Members(workCh)
  BY DEF PlacesInv, InChannels
<1>4. Members(workCh') = Members(workCh) \cup {Len(flows)} /\ Distinct(workCh')
  BY <1>2, <1>3, ChannelFacts, AppendMembers, DistinctAppend DEF PlacesInv
<1>5. InChannels' = InChannels \cup {Len(flows)} /\ UNCHANGED Held
  BY <1>4 DEF InChannels, Held
<1>6. Places' = Places
  BY <1>5 DEF Places
<1> QED
  BY <1>4, <1>5, <1>6 DEF PlacesInv, InChannels

\* A worker carries a flow from workCh to resultCh.
LEMMA WorkerPlaces ==
  ASSUME IInv, PlacesInv, NEW w \in Workers, Worker(w)
  PROVE  PlacesInv' /\ Places' \cup {0} = Places \cup {0}
<1>1. UNCHANGED <<pc, scheduled>> /\ holds \in [Workers -> FlowID \cup {0}]
  BY DEF Worker, Take, ExecuteElement, Deliver, Leave, IInv, TypeOK, PoolType
<1>5. FlowID # {} => Len(flows) # 0
  BY DEF FlowID
<1>2. CASE Take(w)
  <2>1. /\ workCh # <<>> /\ workCh' = Tail(workCh)
        /\ holds' = [holds EXCEPT ![w] = Head(workCh)]
        /\ holds[w] = 0 /\ UNCHANGED <<resultCh, flows>>
    BY <1>2 DEF Take, storeVars, IInv, HoldsInv
  <2> DEFINE f == Head(workCh)
  <2>2. /\ Members(workCh) = {f} \cup Members(workCh') /\ f \notin Members(workCh')
        /\ Distinct(workCh')
    BY <2>1, ChannelFacts, TailMembers, DistinctTail DEF PlacesInv
  <2> HIDE DEF f
  <2>3. f \in InChannels /\ f # 0 /\ f \notin Held
    BY <2>2, ChannelFacts DEF InChannels, PlacesInv
  <2>4. /\ InChannels = InChannels' \cup {f} /\ f \notin InChannels'
        /\ Held' \cup {0} = Held \cup {0, f}
    BY <1>1, <2>1, <2>2, <2>3 DEF InChannels, Held, PlacesInv, f
  <2>5. Places' \cup {0} = Places \cup {0}
    BY <1>1, <2>1, <2>4 DEF Places
  <2>6. \A u, v \in Workers : holds'[u] = holds'[v] /\ holds'[u] # 0 => u = v
    BY <1>1, <2>1, <2>3 DEF PlacesInv, Held, f
  <2>7. Held' \cap InChannels' = {}
    BY <2>4, ChannelFacts DEF PlacesInv
  <2>8. pc = "send" => Len(flows) \notin InChannels' \cup Held'
    BY <1>1, <1>5, <2>3, <2>4, ChannelFacts DEF PlacesInv
  <2>9. Members(workCh') \cap Members(FlowsOf(resultCh')) = {}
    BY <2>1, <2>2 DEF PlacesInv
  <2>10. Places' \subseteq scheduled' \cup {0}
    BY <1>1, <2>5 DEF PlacesInv
  <2> QED
    BY <1>1, <2>1, <2>2, <2>5, <2>6, <2>7, <2>8, <2>9, <2>10 DEF PlacesInv
<1>3. CASE Deliver(w)
  <2> DEFINE item == [flow |-> holds[w], ans |-> answer[w]]
  <2>1. /\ resultCh' = Append(resultCh, item)
        /\ holds' = [holds EXCEPT ![w] = 0] /\ wpc[w] = "sending"
        /\ UNCHANGED <<workCh, flows>>
    BY <1>3 DEF Deliver, storeVars
  <2>2. holds[w] \in FlowID /\ holds[w] # 0 /\ item \in [flow : FlowID, ans : ExecutionResult]
    BY <1>1, <2>1 DEF IInv, TypeOK, PoolType, HoldsInv
  <2>3. holds[w] \notin InChannels
    BY <1>1 DEF PlacesInv, Held
  <2>12. item.flow = holds[w]
    OBVIOUS
  <2> HIDE DEF item
  <2>4. FlowsOf(resultCh') = Append(FlowsOf(resultCh), holds[w])
    <3>1. FlowsOf(Append(resultCh, item)) = Append(FlowsOf(resultCh), item.flow)
      <4> DEFINE R == [flow : FlowID, ans : ExecutionResult]
      <4>1. resultCh \in Seq(R) /\ item \in R /\ \A r \in R : r.flow \in FlowID
        BY <2>2, ChannelFacts
      <4> HIDE DEF R
      <4> QED
        BY <4>1, FlowsOfAppend, ZenonT(30)
    <3> QED
      BY <2>1, <2>12, <3>1
  <2>5. /\ Members(FlowsOf(resultCh')) = Members(FlowsOf(resultCh)) \cup {holds[w]}
        /\ Distinct(FlowsOf(resultCh'))
    BY <2>2, <2>3, <2>4, ChannelFacts, AppendMembers, DistinctAppend DEF PlacesInv, InChannels
  <2>6. /\ InChannels' = InChannels \cup {holds[w]} /\ holds[w] \notin Held'
        /\ Held' \cup {0, holds[w]} = Held \cup {0}
    BY <1>1, <2>1, <2>2, <2>5 DEF InChannels, Held, PlacesInv
  <2>7. Places' \cup {0} = Places \cup {0}
    BY <1>1, <2>1, <2>6 DEF Places
  <2>8. \A u, v \in Workers : holds'[u] = holds'[v] /\ holds'[u] # 0 => u = v
    BY <1>1, <2>1 DEF PlacesInv
  <2>9. Held' \cap InChannels' = {}
    BY <2>2, <2>6, ChannelFacts DEF PlacesInv
  <2>10. Members(workCh') \cap Members(FlowsOf(resultCh')) = {}
    BY <2>1, <2>3, <2>5 DEF PlacesInv, InChannels
  <2>11. pc = "send" => Len(flows) \notin InChannels' \cup Held'
    BY <1>1, <1>5, <2>2, <2>6 DEF PlacesInv, Held
  <2> QED
    BY <1>1, <2>1, <2>5, <2>7, <2>8, <2>9, <2>10, <2>11 DEF PlacesInv
<1>4. CASE ExecuteElement(w) \/ Leave(w)
  <2>1. UNCHANGED <<workCh, resultCh, holds>>
    BY <1>4 DEF ExecuteElement, Leave
  <2>2. Len(flows') = Len(flows)
    BY <1>4, ExecuteLen DEF Leave, storeVars
  <2> QED
    BY <1>1, <2>1, <2>2, StillPlaces
<1> QED
  BY <1>2, <1>3, <1>4 DEF Worker
----------------------------------------------------------------------------
(* The steps of EngineLoop, by what they do to the places.                 *)

\* A new loop has its flows in workCh.
LEMMA BeginPlaces ==
  ASSUME NEW items \in Seq(FlowID'), BeginLoop(items), Distinct(items)
  PROVE  PlacesInv' /\ scheduled' \subseteq Places'
<1>1. FlowsOf(resultCh') = <<>>
  BY DEF BeginLoop, FlowsOf
<1>2. Members(FlowsOf(resultCh')) = {} /\ Distinct(FlowsOf(resultCh')) /\ Members(items) = scheduled'
  BY <1>1, NoMembers, EmptySeq DEF BeginLoop, Members, Distinct
<1>3. Members(items) \subseteq FlowID'
  BY ElementOfSeq DEF Members
<1>4. Held' \subseteq {0} /\ 0 \notin FlowID'
  BY DEF BeginLoop, Held, FlowID
<1> QED
  BY <1>2, <1>3, <1>4 DEF BeginLoop, PlacesInv, Places, InChannels

\* A loop that is over at once has none.
LEMMA EndPlaces ==
  ASSUME NEW f, NEW fault, ContinueAtEnd(f, fault), ~NotResumed, pc = "returned"
  PROVE  PlacesInv' /\ scheduled' = {} /\ FlowsOf(resultCh') = <<>>
<1>1. /\ workCh' = <<>> /\ resultCh' = <<>> /\ scheduled' = {} /\ pc' = "returned"
      /\ holds' = [w \in Workers |-> 0]
  BY DEF ContinueAtEnd
<1>2. FlowsOf(resultCh') = <<>>
  BY <1>1 DEF FlowsOf
<1>3. InChannels' = {} /\ Held' \subseteq {0} /\ Distinct(workCh') /\ Distinct(FlowsOf(resultCh'))
  BY <1>1, <1>2, NoMembers, EmptySeq DEF InChannels, Held, Distinct
<1> QED
  BY <1>1, <1>2, <1>3 DEF PlacesInv, Places, InChannels

\* The results the loop takes.
Receives ==
  /\ pc = "select" /\ resultCh # <<>> /\ resultCh' = Tail(resultCh)
  /\ UNCHANGED <<poolVars, workCh, scheduled>> /\ pc' # "send"

LEMMA LoopReceives ==
  ASSUME Loop, ~CreateFlow, ~SendFlow, ~ContextDone, ~ErrorReceived,
         ~Finalize, ~FailSafeReturn, ~ContextReturn
  PROVE  Receives
<1>1. CASE FailSafe
  BY <1>1 DEF FailSafe, Receives
<1>2. ASSUME NEW A, Received(A),
             \/ Handled(current, pending - 1)
             \/ \E S, fork : Enqueuing(current, S, fork)
             \/ Return("error") /\ UNCHANGED scheduled
      PROVE  Receives
  BY <1>2 DEF Received, Handled, Enqueuing, Return, Receives
<1>3. CASE HandleRoute \/ HandleComplete \/ HandleQueue
  BY <1>2, <1>3 DEF HandleRoute, HandleComplete, HandleQueue
<1>4. CASE HandleWait \/ HandleError \/ HandleThrowError
  BY <1>2, <1>4 DEF HandleWait, HandleError, HandleThrowError, Failed
<1>5. CASE HandleTerminate \/ HandleCallActivity
  BY <1>2, <1>5 DEF HandleTerminate, HandleCallActivity, Failed
<1> QED
  BY <1>1, <1>3, <1>4, <1>5 DEF Loop, HandleResult

\* The new loop of Continue, if it starts one.
LEMMA ContinueBegins ==
  ASSUME IInv, NEW f \in FlowID, NEW table \in Seq(FlowRecord), Len(table) = Len(flows),
         Continue(f, table), ~NotResumed, \A fault : ~ContinueAtEnd(f, fault)
  PROVE  \E items \in Seq(FlowID') : BeginLoop(items) /\ Distinct(items)
<1> DEFINE next == Process[flows[f].element].Outgoing
<1>1. PICK fault \in BOOLEAN, t \in PartlyCancelled(f, table) : ContinueWith(f, t, next, fault)
  BY DEF Continue
<1>2. PICK s \in Orders(next) :
        /\ flows' = t \o FlowRecords(s, t[f].thread)
        /\ BeginLoop([i \in DOMAIN s |-> Len(flows) + i])
  BY <1>1 DEF ContinueWith
<1>3. /\ flows \in Seq(FlowRecord) /\ Len(flows) \in Nat
      /\ t \in Seq(FlowRecord) /\ Len(t) = Len(flows)
  BY PartlyCancelledType, LenProperties DEF IInv, TypeOK, StoreType
<1>4. flows[f] \in FlowRecord /\ t[f] \in FlowRecord
  BY <1>3, ElementOfSeq DEF FlowID
<1>5. next \subseteq Elements /\ t[f].thread \in Nat
  BY <1>4, ProcessAssumption DEF FlowRecord, Element
<1> HIDE DEF next
<1>6. /\ Cardinality(next) \in Nat /\ DOMAIN s = 1..Cardinality(next)
      /\ FlowRecords(s, t[f].thread) \in Seq(FlowRecord)
      /\ Len(FlowRecords(s, t[f].thread)) = Cardinality(next)
  BY <1>5, FlowRecordsType
<1>7. Len(flows') = Len(flows) + Cardinality(next)
  <2> DEFINE recs == FlowRecords(s, t[f].thread)
  <2>1. flows' = t \o recs /\ recs \in Seq(FlowRecord) /\ Len(recs) = Cardinality(next)
    BY <1>2, <1>6
  <2> HIDE DEF recs
  <2>2. Len(t \o recs) = Len(t) + Len(recs)
    BY <1>3, <2>1, ConcatProperties
  <2> QED
    BY <1>3, <2>1, <2>2
<1> DEFINE n == Cardinality(next)
           items == [i \in 1..n |-> Len(flows) + i]
<1>8. n \in Nat /\ Len(flows') = Len(flows) + n
  BY <1>6, <1>7
<1>13. BeginLoop(items)
  <2>1. [i \in DOMAIN s |-> Len(flows) + i] = items
    BY <1>6
  <2> QED
    BY <1>2, <2>1
<1> HIDE DEF n
<1>9. \A i \in 1..n : Len(flows) + i \in FlowID'
  BY <1>3, <1>8 DEF FlowID
<1>10. items \in [1..n -> FlowID']
  BY <1>9
<1>11. items \in Seq(FlowID') /\ Len(items) = n /\ \A i \in 1..n : items[i] = Len(flows) + i
  BY <1>8, <1>10
<1> HIDE DEF items
<1>12. Distinct(items)
  <2> SUFFICES ASSUME NEW i \in 1..n, NEW j \in 1..n, items[i] = items[j] PROVE i = j
    BY <1>11 DEF Distinct
  <2>1. Len(flows) + i = Len(flows) + j
    BY <1>11
  <2> QED
    BY <1>3, <1>8, <2>1
<1> QED
  BY <1>11, <1>12, <1>13

\* The table completeTask and the message and signal handlers leave.
LEMMA CompletedType ==
  ASSUME IInv, NEW f \in FlowID
  PROVE  /\ flows \in Seq(FlowRecord) /\ flows[f] \in FlowRecord
         /\ Completed(f) \in Seq(FlowRecord) /\ Len(Completed(f)) = Len(flows)
<1>1. flows \in Seq(FlowRecord) /\ flows[f] \in FlowRecord
  BY ElementOfSeq DEF FlowID, IInv, TypeOK, StoreType
<1>2. [flows[f] EXCEPT !.status = "COMPLETED"] \in FlowRecord
  BY <1>1 DEF FlowRecord, FlowStatus
<1>3. Completed(f) = [flows EXCEPT ![f] = [flows[f] EXCEPT !.status = "COMPLETED"]]
  BY DEF Completed
<1>4. Completed(f) \in Seq(FlowRecord) /\ Len(Completed(f)) = Len(flows)
  BY <1>1, <1>2, <1>3, ExceptSeq DEF FlowID
<1> QED
  BY <1>1, <1>4

LEMMA ResumeContinues ==
  ASSUME IInv, Resume
  PROVE  \E f \in FlowID, table \in Seq(FlowRecord) : Len(table) = Len(flows) /\ Continue(f, table)
<1>1. PICK f \in FlowID : CompleteTask(f) \/ TimerFires(f) \/ SendMessage(f) \/ SendSignal(f)
  BY DEF Resume
<1>2. /\ flows \in Seq(FlowRecord) /\ Completed(f) \in Seq(FlowRecord)
      /\ Len(Completed(f)) = Len(flows)
  BY CompletedType
<1>3. CASE CompleteTask(f) \/ SendMessage(f) \/ SendSignal(f)
  BY <1>2, <1>3 DEF CompleteTask, SendMessage, SendSignal
<1>4. CASE TimerFires(f)
  BY <1>2, <1>4 DEF TimerFires
<1> QED
  BY <1>1, <1>3, <1>4

LEMMA NextPlaces ==
  ASSUME IInv, PlacesInv, [Next]_vars PROVE PlacesInv'
<1>1. CASE Run
  <2>1. CASE BeginLoop(<<Len(flows) + 1>>) /\ flows' = Append(flows, CreateFlowRecord(Start, 1))
    <3>1. Len(flows) \in Nat /\ Len(flows') = Len(flows) + 1
      BY <2>1, LenProperties DEF IInv, TypeOK, StoreType
    <3>2. Len(flows) + 1 \in FlowID'
      BY <3>1 DEF FlowID
    <3> DEFINE items == <<Len(flows) + 1>>
    <3>3. items \in Seq(FlowID') /\ Distinct(items)
      BY <3>2 DEF Distinct
    <3> QED
      BY <2>1, <3>3, BeginPlaces
  <2>2. CASE Return("error") /\ UNCHANGED <<poolVars, workCh, resultCh, scheduled>>
    BY <2>2, StillPlaces DEF Return, poolVars
  <2> QED
    BY <1>1, <2>1, <2>2 DEF Run
<1>2. CASE Resume
  <2>1. PICK f \in FlowID, table \in Seq(FlowRecord) :
          Len(table) = Len(flows) /\ Continue(f, table)
    BY <1>2, ResumeContinues
  <2>2. pc = "returned"
    BY <2>1 DEF Continue, Quiet
  <2>3. CASE NotResumed
    BY <2>2, <2>3, StillPlaces DEF NotResumed, poolVars
  <2>4. CASE \E fault : ContinueAtEnd(f, fault) /\ ~NotResumed
    BY <2>2, <2>4, EndPlaces
  <2>5. CASE ~NotResumed /\ \A fault : ~ContinueAtEnd(f, fault)
    BY <2>1, <2>5, ContinueBegins, BeginPlaces
  <2> QED
    BY <2>3, <2>4, <2>5
<1>3. CASE CreateFlow
  <2>1. CASE pc' = "send"
    <3>1. PICK rec : flows' = Append(flows, rec)
      BY <1>3, <2>1 DEF CreateFlow, Return
    <3>2. Len(flows') = Len(flows) + 1
      BY <3>1, LenProperties DEF IInv, TypeOK, StoreType
    <3>3. /\ pc = "create" /\ scheduled' = scheduled \cup {Len(flows) + 1}
          /\ UNCHANGED <<workCh, resultCh, holds>>
      BY <1>3, <2>1 DEF CreateFlow, Return, poolVars
    <3> QED
      BY <2>1, <3>2, <3>3, CreatePlaces
  <2>2. CASE pc' # "send"
    BY <1>3, <2>2, StillPlaces DEF CreateFlow, poolVars
  <2> QED
    BY <2>1, <2>2
<1>4. CASE SendFlow
  <2>1. CASE Return("error") /\ UNCHANGED workCh
    BY <1>4, <2>1, StillPlaces DEF SendFlow, Return, poolVars
  <2>2. CASE ~(Return("error") /\ UNCHANGED workCh)
    BY <1>4, <2>2, SendPlaces DEF SendFlow, Handled, poolVars
  <2> QED
    BY <2>1, <2>2
<1>5. CASE ContextDone \/ ErrorReceived \/ Finalize \/ FailSafeReturn \/ ContextReturn
  <2>1. UNCHANGED <<workCh, resultCh, holds, scheduled>> /\ pc' # "send"
    BY <1>5 DEF ContextDone, ErrorReceived, Finalize, FailSafeReturn, ContextReturn,
       Return, poolVars
  <2> QED
    BY <2>1, StillPlaces
<1>6. CASE Rest \/ Deadline \/ Cancel \/ UNCHANGED vars
  <2>1. UNCHANGED <<workCh, resultCh, holds, scheduled, pc, flows>>
    BY <1>6 DEF Rest, Deadline, Cancel, ContextEnds, vars, storeVars, poolVars
  <2> QED
    BY <2>1, StillPlaces
<1>7. CASE Receives
  BY <1>7, ReceivePlaces DEF Receives
<1> QED
  BY <1>1, <1>2, <1>3, <1>4, <1>5, <1>6, <1>7, LoopReceives, WorkerPlaces DEF Next
----------------------------------------------------------------------------
(* Without a fault the context of a loop lives as long as the loop.        *)

LiveInv == faults = 0 /\ ~Quiescent => ctx = "live"

LEMMA NextLive ==
  ASSUME IInv, LiveInv, [Next]_vars PROVE LiveInv'
<1>1. faults \in Nat
  BY DEF IInv, TypeOK, CounterType
<1>2. ASSUME faults' = 0, faults' = faults \/ faults' = faults + 1
      PROVE  faults = 0
  BY <1>1, <1>2
<1>3. CASE HandleResult
  <2>1. ASSUME pc' \in {"select", "closing", "create", "send"}, pc # "returned", pc # "idle"
        PROVE  UNCHANGED ctx /\ (faults' = faults \/ faults' = faults + 1)
    BY <1>3, <2>1 DEF HandleResult, HandleRoute, HandleWait, HandleError, HandleComplete,
       HandleThrowError, HandleTerminate, HandleCallActivity, HandleQueue, CreateFlow,
       SendFlow, Handled, Enqueuing, Failed, Return, StoreFails, CallFails
  <2>2. pc \in {"select", "create", "send"} /\ pc' \in {"select", "closing", "create", "send", "returned"}
    BY <1>3 DEF HandleResult, HandleRoute, HandleWait, HandleError, HandleComplete,
       HandleThrowError, HandleTerminate, HandleCallActivity, HandleQueue, CreateFlow,
       SendFlow, Handled, Enqueuing, Failed, Return, Received
  <2> QED
    BY <1>2, <2>1, <2>2 DEF LiveInv, Quiescent
<1>4. CASE Loop /\ ~HandleResult
  BY <1>4 DEF Loop, FailSafe, ContextDone, ErrorReceived, Finalize, FailSafeReturn,
     ContextReturn, Return, CallFails, LiveInv, Quiescent
<1>5. CASE Run
  BY <1>5 DEF Run, BeginLoop, Return, LiveInv, Quiescent
<1>6. CASE Resume
  <2>1. PICK f, table : Continue(f, table)
    BY <1>6, ResumeContinues
  <2>2. pc = "returned"
    BY <2>1 DEF Continue, Quiet
  <2>3. CASE \E items : BeginLoop(items)
    BY <2>3 DEF BeginLoop, LiveInv
  <2>4. CASE UNCHANGED pc
    BY <2>2, <2>4 DEF LiveInv, Quiescent
  <2> QED
    BY <2>1, <2>3, <2>4 DEF Continue, ContinueWith, ContinueAtEnd, NotResumed
<1>7. CASE Deadline \/ Cancel
  BY <1>1, <1>7 DEF Deadline, Cancel, ContextEnds, LiveInv
<1>8. CASE Rest \/ UNCHANGED vars
  BY <1>8 DEF Rest, vars, LiveInv, Quiescent
<1>9. ASSUME NEW w \in Workers, Worker(w)
      PROVE  LiveInv'
  <2>1. UNCHANGED <<pc, ctx>> /\ (faults' = faults \/ faults' = faults + 1)
    BY <1>9 DEF Worker, Take, ExecuteElement, Deliver, Leave, StoreFails, CallFails
  <2> QED
    BY <1>2, <2>1 DEF LiveInv, Quiescent
<1> QED
  BY <1>3, <1>4, <1>5, <1>6, <1>7, <1>8, <1>9 DEF Next

----------------------------------------------------------------------------
(* A worker answers as its element may, and the answer is passed on as it  *)
(* is: a gateway waits or routes.                                          *)

AnswersOf(e) == Execute(e, TRUE) \cup Execute(e, FALSE)
JoinAnswers == {Answer("WAIT", {}), Answer("ROUTE", {})}

AnswersInv ==
  /\ Failing(flows) = {}
  /\ \A w \in Workers :
       wpc[w] = "sending" => answer[w] \in AnswersOf(flows[holds[w]].element)
  /\ \A i \in 1..Len(resultCh) :
       resultCh[i].ans \in AnswersOf(flows[resultCh[i].flow].element)

LEMMA JoinsAnswer ==
  ASSUME NEW e \in Of("parallelGateway") PROVE AnswersOf(e) \subseteq JoinAnswers
<1>1. ASSUME NEW c, NEW a \in Execute(e, c) PROVE a \in JoinAnswers
  BY GatewayAnswers DEF ParallelGateway, JoinAnswers
<1> QED
  BY <1>1 DEF AnswersOf

LEMMA ExecuteAnswers ==
  ASSUME NEW e, NEW c \in BOOLEAN PROVE Execute(e, c) \subseteq AnswersOf(e)
BY DEF AnswersOf

\* The answer the loop takes.
LEMMA ResultAnswers ==
  ASSUME IInv, AnswersInv, resultCh # <<>> PROVE result.ans \in AnswersOf(element)
<1>1. Len(resultCh) \in Nat \ {0} /\ result = resultCh[1]
  BY ChannelFacts, HeadTailProperties, EmptySeq DEF result
<1>2. 1 \in 1..Len(resultCh)
  BY <1>1
<1> QED
  BY <1>1, <1>2 DEF AnswersInv, element, current

\* A step that adds no answer.
LEMMA StillAnswers ==
  ASSUME IInv, AnswersInv, Kept(flows, flows'), Len(resultCh') \in Nat,
         \A w \in Workers : wpc'[w] = "sending"
            => wpc[w] = "sending" /\ holds'[w] = holds[w] /\ answer'[w] = answer[w],
         \A i \in 1..Len(resultCh') : \E j \in 1..Len(resultCh) : resultCh'[i] = resultCh[j]
  PROVE  AnswersInv'
<1>1. Failing(flows') = {}
  BY DEF Kept, AnswersInv
<1>2. \A w \in Workers : wpc[w] = "sending" => holds[w] \in 1..Len(flows)
  BY DEF IInv, TypeOK, PoolType, HoldsInv, FlowID
<1>3. \A i \in 1..Len(resultCh) : resultCh[i].flow \in 1..Len(flows)
  <2> SUFFICES ASSUME NEW i \in 1..Len(resultCh) PROVE resultCh[i].flow \in FlowID
    BY DEF FlowID
  <2>1. resultCh[i] \in [flow : FlowID, ans : ExecutionResult]
    BY ChannelFacts, ElementOfSeq
  <2> QED
    BY <2>1
<1>4. \A i \in 1..Len(flows) : flows'[i].element = flows[i].element
  BY DEF Kept
<1>5. ASSUME NEW w \in Workers, wpc'[w] = "sending"
      PROVE  answer'[w] \in AnswersOf(flows'[holds'[w]].element)
  BY <1>2, <1>4, <1>5 DEF AnswersInv
<1>6. ASSUME NEW i \in 1..Len(resultCh')
      PROVE  resultCh'[i].ans \in AnswersOf(flows'[resultCh'[i].flow].element)
  <2>1. PICK j \in 1..Len(resultCh) : resultCh'[i] = resultCh[j]
    OBVIOUS
  <2> QED
    BY <1>3, <1>4, <2>1 DEF AnswersInv
<1> QED
  BY <1>1, <1>5, <1>6 DEF AnswersInv

LEMMA WorkerAnswers ==
  ASSUME IInv, AnswersInv, Kept(flows, flows'), NEW w \in Workers, Worker(w)
  PROVE  AnswersInv'
<1>1. /\ holds \in [Workers -> FlowID \cup {0}] /\ Len(resultCh) \in Nat
      /\ wpc \in [Workers -> {"idle", "executing", "sending", "gone"}]
      /\ answer \in [Workers -> ExecutionResult]
      /\ flows \in Seq(FlowRecord)
  BY ChannelFacts, LenProperties DEF IInv, TypeOK, PoolType, StoreType
<1>2. CASE Take(w) \/ Leave(w)
  <2>1. CASE Take(w)
    BY <1>1, <2>1, StillAnswers DEF Take
  <2>2. CASE Leave(w)
    BY <1>1, <2>2, StillAnswers DEF Leave
  <2> QED
    BY <1>2, <2>1, <2>2
<1>3. CASE ExecuteElement(w)
  <2>1. /\ UNCHANGED <<holds, resultCh>> /\ holds[w] \in FlowID
        /\ \A v \in Workers \ {w} : wpc'[v] = wpc[v] /\ answer'[v] = answer[v]
    BY <1>1, <1>3 DEF ExecuteElement, IInv, HoldsInv
  <2>2. answer'[w] \in AnswersOf(flows[holds[w]].element)
    <3> DEFINE e == flows[holds[w]].element
    <3>1. AllIncomingComplete(e) \in BOOLEAN
      BY DEF AllIncomingComplete
    <3>2. PICK c \in BOOLEAN : \E a \in Execute(e, c) : answer' = [answer EXCEPT ![w] = a]
      BY <1>3, <3>1, Zenon DEF ExecuteElement
    <3>3. answer'[w] \in Execute(e, c)
      BY <1>1, <3>2
    <3> QED
      BY <3>3, ExecuteAnswers
  <2>3. \A i \in FlowID : flows'[i].element = flows[i].element
    BY DEF Kept, FlowID
  <2>4. \A v \in Workers : wpc'[v] = "sending"
          => holds[v] \in FlowID /\ (v # w => wpc[v] = "sending")
    BY <1>1, <2>1 DEF IInv, HoldsInv
  <2>5. \A i \in 1..Len(resultCh) : resultCh[i].flow \in FlowID
    <3> SUFFICES ASSUME NEW i \in 1..Len(resultCh) PROVE resultCh[i].flow \in FlowID
      OBVIOUS
    <3>1. resultCh[i] \in [flow : FlowID, ans : ExecutionResult]
      BY ChannelFacts, ElementOfSeq
    <3> QED
      BY <3>1
  <2> QED
    BY <2>1, <2>2, <2>3, <2>4, <2>5 DEF AnswersInv, Kept
<1>4. CASE Deliver(w)
  <2> DEFINE item == [flow |-> holds[w], ans |-> answer[w]]
  <2>1. /\ resultCh' = Append(resultCh, item) /\ wpc[w] = "sending" /\ holds[w] \in FlowID
        /\ wpc'[w] = "idle" /\ UNCHANGED <<answer, flows>>
        /\ \A v \in Workers \ {w} : wpc'[v] = wpc[v] /\ holds'[v] = holds[v]
    BY <1>1, <1>4 DEF Deliver, storeVars, IInv, HoldsInv
  <2>2. item \in [flow : FlowID, ans : ExecutionResult]
    BY <1>1, <2>1
  <2>3. item.flow = holds[w] /\ item.ans = answer[w]
    OBVIOUS
  <2> HIDE DEF item
  <2>4. /\ Len(resultCh') = Len(resultCh) + 1
        /\ \A i \in 1..Len(resultCh) : resultCh'[i] = resultCh[i]
        /\ resultCh'[Len(resultCh) + 1] = item
    BY <2>1, <2>2, ChannelFacts, AppendProperties
  <2>5. \A i \in 1..Len(resultCh') : i \in 1..Len(resultCh) \/ i = Len(resultCh) + 1
    BY <1>1, <2>4
  <2> QED
    BY <2>1, <2>3, <2>4, <2>5 DEF AnswersInv
<1> QED
  BY <1>2, <1>3, <1>4 DEF Worker

LEMMA NextAnswers ==
  ASSUME IInv, AnswersInv, [Next]_vars PROVE AnswersInv'
<1>1. Kept(flows, flows') /\ Len(resultCh) \in Nat
  BY NextKeeps, ChannelFacts, LenProperties
<1>2. CASE UNCHANGED <<poolVars, resultCh>>
  BY <1>1, <1>2, StillAnswers DEF poolVars
<1>3. CASE Receives
  <2>1. /\ Len(resultCh') \in Nat
        /\ \A i \in 1..Len(resultCh') : i + 1 \in 1..Len(resultCh) /\ resultCh'[i] = resultCh[i + 1]
    BY <1>1, <1>3, ChannelFacts, HeadTailProperties, EmptySeq DEF Receives
  <2> QED
    BY <1>1, <1>3, <2>1, StillAnswers DEF Receives, poolVars
<1>4. CASE resultCh' = <<>> /\ \A w \in Workers : wpc'[w] # "sending"
  <2>1. Len(resultCh') = 0
    BY <1>4, EmptySeq
  <2> QED
    BY <1>1, <1>4, <2>1, StillAnswers
<1>5. CASE Run
  <2>1. CASE \E items : BeginLoop(items)
    BY <1>4, <2>1 DEF BeginLoop
  <2> QED
    BY <1>2, <1>5, <2>1 DEF Run
<1>6. CASE Resume
  <2>1. PICK f, table : Continue(f, table)
    BY <1>6, ResumeContinues
  <2>2. CASE \E items : BeginLoop(items)
    BY <1>4, <2>2 DEF BeginLoop
  <2>3. CASE NotResumed
    BY <1>2, <2>3 DEF NotResumed
  <2>4. CASE \E fault : ContinueAtEnd(f, fault) /\ ~NotResumed
    BY <1>4, <2>4 DEF ContinueAtEnd
  <2> QED
    BY <2>1, <2>2, <2>3, <2>4 DEF Continue, ContinueWith
<1>7. CASE CreateFlow \/ SendFlow \/ ContextDone \/ ErrorReceived \/ Finalize
           \/ FailSafeReturn \/ ContextReturn
  BY <1>2, <1>7 DEF CreateFlow, SendFlow, ContextDone, ErrorReceived, Finalize,
     FailSafeReturn, ContextReturn
<1>8. CASE Rest \/ Deadline \/ Cancel \/ UNCHANGED vars
  BY <1>2, <1>8 DEF Rest, Deadline, Cancel, ContextEnds, vars
<1> QED
  BY <1>1, <1>3, <1>5, <1>6, <1>7, <1>8, LoopReceives, WorkerAnswers DEF Next
----------------------------------------------------------------------------
(* The flows of a join: those whose result was received, and those that    *)
(* waited.                                                                 *)

\* The flows with an answer to wait that the loop has not received.
Waited ==
  {holds[w] : w \in {v \in Workers : wpc[v] = "sending" /\ answer[v].Action = "WAIT"}}
    \cup {resultCh[i].flow : i \in {k \in 1..Len(resultCh) : resultCh[k].ans.Action = "WAIT"}}

Counted(e) == {i \in scheduled \ Places : flows[i].element = e}
Waiters(e) == {i \in (scheduled \ Places) \cup Waited : flows[i].element = e}

\* The join has gone on, or is about to.
Fired(e) ==
  \/ \E i \in scheduled : flows[i].element \in Process[e].Outgoing
  \/ pc \in {"create", "send"} /\ todo \cap Process[e].Outgoing # {}

\* Every result is counted; unless the join fired, all of them waited, and the
\* last to be executed did so before the join was complete.
JoinOf(e) ==
  /\ counts[e] <= Cardinality(Counted(e))
  /\ counts[e] <= MaxLoops /\ ~Fired(e) => Cardinality(Waiters(e)) < Process[e].Incoming

JoinInv == faults = 0 => \A e \in Firing : JoinOf(e)

LEMMA FaultsGrow ==
  ASSUME IInv, [Next]_vars, faults' = 0 PROVE faults = 0
<1>1. faults \in Nat
  BY DEF IInv, TypeOK, CounterType
<1>2. faults' \in {faults, faults + 1}
  <2>1. CASE HandleResult
    BY <2>1 DEF HandleResult, HandleRoute, HandleWait, HandleError, HandleComplete,
       HandleThrowError, HandleTerminate, HandleCallActivity, HandleQueue, CreateFlow,
       SendFlow, StoreFails, CallFails
  <2>2. CASE Loop /\ ~HandleResult
    BY <2>2 DEF Loop, FailSafe, ContextDone, ErrorReceived, Finalize, FailSafeReturn,
       ContextReturn, CallFails
  <2>3. CASE \E w \in Workers : Worker(w)
    BY <2>3 DEF Worker, Take, ExecuteElement, Deliver, Leave, StoreFails, CallFails
  <2>4. CASE Run
    BY <2>4 DEF Run, StoreFails, CallFails
  <2>5. CASE Resume
    <3>1. PICK f, table : Continue(f, table)
      BY <2>5, ResumeContinues
    <3> QED
      BY <3>1 DEF Continue, CallFails
  <2>6. CASE Rest \/ Deadline \/ Cancel \/ UNCHANGED vars
    BY <2>6 DEF Rest, Deadline, Cancel, ContextEnds, vars
  <2> QED
    BY <2>1, <2>2, <2>3, <2>4, <2>5, <2>6 DEF Next
<1> QED
  BY <1>1, <1>2

\* All of these are flow records, and they can be counted.
LEMMA JoinFacts ==
  ASSUME IInv, NEW e \in Firing
  PROVE  /\ scheduled \subseteq FlowID /\ Waited \subseteq FlowID /\ IsFiniteSet(FlowID)
         /\ IsFiniteSet(Counted(e)) /\ IsFiniteSet(Waiters(e))
         /\ e \in Elements /\ Process[e].Incoming \in Nat \ {0}
         /\ counts \in [Elements -> Nat] /\ MaxLoops \in Nat
<1>1. scheduled \subseteq FlowID
  BY DEF IInv, TypeOK, LoopType
<1>2. Waited \subseteq FlowID
  <2>1. \A w \in Workers : wpc[w] = "sending" => holds[w] \in FlowID
    BY DEF IInv, TypeOK, PoolType, HoldsInv
  <2>2. ASSUME NEW i \in 1..Len(resultCh) PROVE resultCh[i].flow \in FlowID
    <3>1. resultCh[i] \in [flow : FlowID, ans : ExecutionResult]
      BY ChannelFacts, ElementOfSeq
    <3> QED
      BY <3>1
  <2> QED
    BY <2>1, <2>2 DEF Waited
<1>3. IsFiniteSet(FlowID)
  <2>1. Len(flows) \in Nat
    BY LenProperties DEF IInv, TypeOK, StoreType
  <2> QED
    BY <2>1, FS_Interval DEF FlowID
<1>4. Counted(e) \subseteq FlowID /\ Waiters(e) \subseteq FlowID
  BY <1>1, <1>2 DEF Counted, Waiters
<1>5. IsFiniteSet(Counted(e)) /\ IsFiniteSet(Waiters(e))
  BY <1>3, <1>4, FS_Subset
<1>6. e \in Elements /\ Process[e].Incoming \in Nat \ {0}
  BY ProcessAssumption DEF Firing, Of, Element
<1>7. counts \in [Elements -> Nat] /\ MaxLoops \in Nat
  BY EngineAssumption DEF IInv, TypeOK, CounterType
<1> QED
  BY <1>1, <1>2, <1>3, <1>5, <1>6, <1>7

\* A step that receives no result, and lets no further flow of e wait.
LEMMA StillJoin ==
  ASSUME IInv, IInv', NEW e \in Firing, JoinOf(e), Kept(flows, flows'),
         counts'[e] = counts[e], scheduled' \ Places' = scheduled \ Places,
         \A i \in Waited' : i \in Waited \/ flows'[i].element # e,
         Fired(e) => Fired(e)'
  PROVE  JoinOf(e)'
<1>1. /\ scheduled \subseteq FlowID /\ Waited \subseteq FlowID
      /\ IsFiniteSet(Counted(e)) /\ IsFiniteSet(Waiters(e))
      /\ Process[e].Incoming \in Nat
  BY JoinFacts
<1>2. \A i \in FlowID : flows'[i].element = flows[i].element
  BY DEF Kept, FlowID
<1>3. Counted(e)' = Counted(e) /\ Waiters(e)' \subseteq Waiters(e)
  BY <1>1, <1>2 DEF Counted, Waiters
<1>4. Cardinality(Waiters(e)') <= Cardinality(Waiters(e)) /\ Cardinality(Waiters(e)) \in Nat
      /\ Cardinality(Waiters(e)') \in Nat
  BY <1>1, <1>3, FS_Subset, FS_CardinalityType
<1>5. Cardinality(Counted(e)') = Cardinality(Counted(e))
  BY <1>3
<1>6. counts[e] <= Cardinality(Counted(e))
  BY DEF JoinOf
<1>7. ASSUME counts[e] <= MaxLoops, ~Fired(e) PROVE Cardinality(Waiters(e)') < Process[e].Incoming
  BY <1>1, <1>4, <1>7 DEF JoinOf
<1> QED
  BY <1>5, <1>6, <1>7 DEF JoinOf

\* A join that fired has fired for the whole run.
LEMMA StillFired ==
  ASSUME IInv, NEW e, Kept(flows, flows'), scheduled \subseteq scheduled',
         pc \in {"create", "send"} => UNCHANGED <<pc, todo>>, Fired(e)
  PROVE  Fired(e)'
<1>1. scheduled \subseteq FlowID
  BY DEF IInv, TypeOK, LoopType
<1>2. \A i \in FlowID : flows'[i].element = flows[i].element
  BY DEF Kept, FlowID
<1> QED
  BY <1>1, <1>2 DEF Fired
\* A worker lets no flow wait but the one it executes.
LEMMA WorkerWaits ==
  ASSUME IInv, NEW w \in Workers, Worker(w)
  PROVE  \/ Waited' \subseteq Waited
         \/ /\ ExecuteElement(w) /\ holds[w] \in FlowID /\ answer'[w].Action = "WAIT"
            /\ Waited' \subseteq Waited \cup {holds[w]}
<1>1. /\ holds \in [Workers -> FlowID \cup {0}] /\ answer \in [Workers -> ExecutionResult]
      /\ wpc \in [Workers -> {"idle", "executing", "sending", "gone"}]
  BY DEF IInv, TypeOK, PoolType
<1>2. CASE Take(w) \/ Leave(w)
  <2>1. /\ UNCHANGED <<answer, resultCh>> /\ wpc'[w] # "sending"
        /\ \A v \in Workers \ {w} : wpc'[v] = wpc[v] /\ holds'[v] = holds[v]
    BY <1>1, <1>2 DEF Take, Leave
  <2>2. Waited' \subseteq Waited
    BY <2>1 DEF Waited
  <2> QED
    BY <2>2
<1>3. CASE Deliver(w)
  <2> DEFINE item == [flow |-> holds[w], ans |-> answer[w]]
  <2>1. /\ resultCh' = Append(resultCh, item) /\ wpc[w] = "sending" /\ holds[w] \in FlowID
        /\ wpc'[w] = "idle" /\ UNCHANGED answer
        /\ \A v \in Workers \ {w} : wpc'[v] = wpc[v] /\ holds'[v] = holds[v]
    BY <1>1, <1>3 DEF Deliver, IInv, HoldsInv
  <2>2. item \in [flow : FlowID, ans : ExecutionResult]
    BY <1>1, <2>1
  <2>3. item.flow = holds[w] /\ item.ans = answer[w]
    OBVIOUS
  <2> HIDE DEF item
  <2>4. /\ Len(resultCh) \in Nat /\ Len(resultCh') = Len(resultCh) + 1
        /\ \A i \in 1..Len(resultCh) : resultCh'[i] = resultCh[i]
        /\ resultCh'[Len(resultCh) + 1] = item
    BY <2>1, <2>2, ChannelFacts, AppendProperties, LenProperties
  <2>5. \A i \in 1..Len(resultCh') : i \in 1..Len(resultCh) \/ i = Len(resultCh) + 1
    BY <2>4
  <2>6. Waited' \subseteq Waited
    BY <2>1, <2>3, <2>4, <2>5 DEF Waited
  <2> QED
    BY <2>6
<1>4. CASE ExecuteElement(w)
  <2>1. /\ UNCHANGED <<holds, resultCh>> /\ holds[w] \in FlowID
        /\ \A v \in Workers \ {w} : wpc'[v] = wpc[v] /\ answer'[v] = answer[v]
    BY <1>1, <1>4 DEF ExecuteElement, IInv, HoldsInv
  <2>2. Waited' \subseteq Waited \cup {holds[w]} /\ (answer'[w].Action # "WAIT" => Waited' \subseteq Waited)
    BY <2>1 DEF Waited
  <2> QED
    BY <1>4, <2>1, <2>2
<1> QED
  BY <1>2, <1>3, <1>4 DEF Worker

\* The flow records of an element.
Records(e) == {i \in FlowID : flows[i].element = e}

LEMMA RecordsFinite ==
  ASSUME IInv, NEW e PROVE IsFiniteSet(Records(e)) /\ Cardinality(Records(e)) \in Nat
<1>1. Len(flows) \in Nat
  BY LenProperties DEF IInv, TypeOK, StoreType
<1>2. IsFiniteSet(FlowID) /\ Records(e) \subseteq FlowID
  BY <1>1, FS_Interval DEF FlowID, Records
<1> QED
  BY <1>2, FS_Subset, FS_CardinalityType

\* A gateway that waits has found fewer records than flows lead into it.
LEMMA WaitsShort ==
  ASSUME IInv, AnswersInv, NEW w \in Workers, ExecuteElement(w), faults \in Nat, UNCHANGED faults,
         NEW e \in Of("parallelGateway"), flows[holds[w]].element = e,
         answer'[w].Action = "WAIT", Process[e].Incoming \in Nat
  PROVE  Cardinality(Records(e)) < Process[e].Incoming
<1>1. answer'[w] \in Execute(e, AllIncomingComplete(e))
  <2>1. answer \in [Workers -> ExecutionResult]
    BY DEF IInv, TypeOK, PoolType
  <2>2. faults' = faults + 1 \/ answer'[w] \in Execute(e, AllIncomingComplete(e))
    BY <2>1 DEF ExecuteElement, StoreFails, CallFails
  <2> QED
    BY <2>2
<1>2. ~AllIncomingComplete(e)
  BY <1>1, GatewayAnswers DEF ParallelGateway, Answer
<1>3. \A i \in FlowID : flows[i].element = e => flows[i].status # "ERROR"
  BY DEF AnswersInv, Failing, FlowID
<1>4. {i \in FlowID : flows[i].element = e /\ flows[i].status # "ERROR"} = Records(e)
  BY <1>3 DEF Records
<1> QED
  BY <1>2, <1>4, RecordsFinite DEF AllIncomingComplete

\* A worker that lets a flow of e wait has found the join incomplete.
LEMMA WorkerJoin ==
  ASSUME IInv, IInv', PlacesInv, AnswersInv, JoinInv, Kept(flows, flows'),
         NEW w \in Workers, Worker(w), faults' = 0, faults = 0
  PROVE  JoinInv'
<1> SUFFICES ASSUME NEW e \in Firing PROVE JoinOf(e)'
  BY DEF JoinInv
<1>1. /\ JoinOf(e) /\ UNCHANGED <<counts, scheduled, pc, todo>>
      /\ holds \in [Workers -> FlowID \cup {0}] /\ answer \in [Workers -> ExecutionResult]
      /\ wpc \in [Workers -> {"idle", "executing", "sending", "gone"}]
  BY DEF JoinInv, Worker, Take, ExecuteElement, Deliver, Leave, IInv, TypeOK, PoolType
<1>2. scheduled' \ Places' = scheduled \ Places
  BY <1>1, WorkerPlaces, ChannelFacts
<1>3. Fired(e) => Fired(e)'
  BY <1>1, StillFired
<1>4. ASSUME \A i \in Waited' : i \in Waited \/ flows'[i].element # e
      PROVE  JoinOf(e)'
  BY <1>1, <1>2, <1>3, <1>4, StillJoin
<1>5. CASE Waited' \subseteq Waited
  BY <1>4, <1>5
<1>6. CASE /\ ExecuteElement(w) /\ holds[w] \in FlowID /\ answer'[w].Action = "WAIT"
           /\ Waited' \subseteq Waited \cup {holds[w]}
  <2>1. /\ scheduled \subseteq FlowID /\ Waited \subseteq FlowID
        /\ Process[e].Incoming \in Nat /\ faults \in Nat
    BY JoinFacts
  <2>2. \A i \in FlowID : flows'[i].element = flows[i].element
    BY DEF Kept, FlowID
  <2>3. CASE flows[holds[w]].element # e
    BY <1>4, <1>6, <2>2, <2>3
  <2>4. CASE flows[holds[w]].element = e
    <3>1. Cardinality(Records(e)) < Process[e].Incoming
      BY <1>6, <2>1, <2>4, WaitsShort DEF Firing
    <3>2. Waiters(e)' \subseteq Records(e) /\ Counted(e)' = Counted(e)
      BY <1>2, <1>6, <2>1, <2>2 DEF Waiters, Counted, Records
    <3>3. IsFiniteSet(Records(e)) /\ Cardinality(Records(e)) \in Nat
      BY RecordsFinite
    <3>4. Cardinality(Waiters(e)') <= Cardinality(Records(e)) /\ Cardinality(Waiters(e)') \in Nat
      BY <3>2, <3>3, FS_Subset, FS_CardinalityType
    <3>5. Cardinality(Waiters(e)') < Process[e].Incoming
      BY <2>1, <3>1, <3>3, <3>4
    <3>6. Cardinality(Counted(e)') = Cardinality(Counted(e))
      BY <3>2
    <3> QED
      BY <1>1, <3>5, <3>6 DEF JoinOf
  <2> QED
    BY <2>3, <2>4
<1> QED
  BY <1>5, <1>6, WorkerWaits

\* A result of e that the loop receives is one more; only one that routes is
\* no waiter.
LEMMA ReceivesJoin ==
  ASSUME IInv, IInv', PlacesInv, AnswersInv, Kept(flows, flows'), Receives,
         counts' = [counts EXCEPT ![element] = @ + 1],
         NEW e \in Firing, JoinOf(e),
         result.ans.Action = "ROUTE" /\ element = e => Fired(e)' \/ ~(counts'[e] <= MaxLoops)
  PROVE  JoinOf(e)'
<1>1. /\ current \in scheduled /\ current \notin Places' /\ Places = Places' \cup {current}
      /\ UNCHANGED <<poolVars, scheduled>>
  BY ReceivePlaces DEF Receives
<1>2. scheduled' \ Places' = (scheduled \ Places) \cup {current} /\ current \notin scheduled \ Places
  BY <1>1
<1>3. /\ Len(resultCh) \in Nat \ {0} /\ Len(Tail(resultCh)) = Len(resultCh) - 1
      /\ \A i \in 1..Len(Tail(resultCh)) : Tail(resultCh)[i] = resultCh[i + 1]
      /\ result = resultCh[1]
  BY ChannelFacts, HeadTailProperties, EmptySeq DEF Receives, result
<1>4. Waited' \subseteq Waited /\ (result.ans.Action = "WAIT" => current \in Waited)
  <2>1. \A i \in 1..Len(resultCh') : i + 1 \in 1..Len(resultCh) /\ resultCh'[i] = resultCh[i + 1]
    BY <1>3 DEF Receives
  <2>2. 1 \in 1..Len(resultCh)
    BY <1>3
  <2> QED
    BY <1>1, <1>3, <2>1, <2>2 DEF Waited, poolVars, current
<1>5. Fired(e) => Fired(e)'
  BY <1>1, StillFired DEF Receives
<1>6. /\ scheduled \subseteq FlowID /\ Waited \subseteq FlowID
      /\ IsFiniteSet(Counted(e)) /\ IsFiniteSet(Waiters(e))
      /\ Process[e].Incoming \in Nat /\ e \in Elements
      /\ counts \in [Elements -> Nat] /\ MaxLoops \in Nat
  BY JoinFacts
<1>7. /\ \A i \in FlowID : flows'[i].element = flows[i].element
      /\ current \in FlowID /\ element = flows[current].element
  BY <1>1, <1>6 DEF Kept, FlowID, element
<1>8. CASE element # e
  <2>1. Counted(e)' = Counted(e) /\ Waiters(e)' \subseteq Waiters(e) /\ counts'[e] = counts[e]
    BY <1>2, <1>4, <1>6, <1>7, <1>8 DEF Counted, Waiters
  <2>2. Cardinality(Waiters(e)') <= Cardinality(Waiters(e)) /\ Cardinality(Waiters(e)) \in Nat
        /\ Cardinality(Waiters(e)') \in Nat
    BY <1>6, <2>1, FS_Subset, FS_CardinalityType
  <2>3. Cardinality(Counted(e)') = Cardinality(Counted(e))
    BY <2>1
  <2>4. ASSUME counts[e] <= MaxLoops, ~Fired(e) PROVE Cardinality(Waiters(e)') < Process[e].Incoming
    BY <1>6, <2>2, <2>4 DEF JoinOf
  <2> QED
    BY <1>5, <2>1, <2>3, <2>4 DEF JoinOf
<1>9. CASE element = e
  <2>1. Counted(e)' = Counted(e) \cup {current} /\ current \notin Counted(e)
        /\ counts'[e] = counts[e] + 1 /\ counts[e] \in Nat
    BY <1>2, <1>6, <1>7, <1>9 DEF Counted
  <2>2. Cardinality(Counted(e)') = Cardinality(Counted(e)) + 1 /\ Cardinality(Counted(e)) \in Nat
    BY <1>6, <2>1, FS_AddElement, FS_CardinalityType
  <2>3. counts'[e] <= Cardinality(Counted(e)')
    BY <2>1, <2>2 DEF JoinOf
  <2>4. ASSUME counts'[e] <= MaxLoops, ~Fired(e)' PROVE Cardinality(Waiters(e)') < Process[e].Incoming
    <3>1. result.ans.Action = "WAIT"
      <4>1. e \in Of("parallelGateway") /\ resultCh # <<>>
        BY DEF Firing, Receives
      <4>2. result.ans \in JoinAnswers
        BY <1>9, <4>1, ResultAnswers, JoinsAnswer
      <4> QED
        BY <1>9, <2>4, <4>2 DEF JoinAnswers, Answer
    <3>2. Waiters(e)' \subseteq Waiters(e)
      BY <1>2, <1>4, <1>6, <1>7, <3>1 DEF Waiters
    <3>3. Cardinality(Waiters(e)') <= Cardinality(Waiters(e)) /\ Cardinality(Waiters(e)) \in Nat
          /\ Cardinality(Waiters(e)') \in Nat
      BY <1>6, <3>2, FS_Subset, FS_CardinalityType
    <3>4. counts[e] <= MaxLoops /\ ~Fired(e)
      BY <1>5, <1>6, <2>1, <2>4
    <3> QED
      BY <1>6, <3>3, <3>4 DEF JoinOf
  <2> QED
    BY <2>3, <2>4 DEF JoinOf
<1> QED
  BY <1>8, <1>9
LEMMA LoopJoin ==
  ASSUME IInv, IInv', PlacesInv, AnswersInv, LiveInv, JoinInv, Kept(flows, flows'),
         Loop, faults' = 0, faults = 0
  PROVE  JoinInv'
<1> SUFFICES ASSUME NEW e \in Firing PROVE JoinOf(e)'
  BY DEF JoinInv
<1>1. JoinOf(e) /\ Process[e].Outgoing # {}
  BY DEF JoinInv, Firing
<1>2. CASE CreateFlow
  <2>1. PICK x \in todo :
          /\ pc = "create" /\ flows' = Append(flows, CreateFlowRecord(x, IF forked THEN threadSeq + 1 ELSE flows[cur].thread))
          /\ scheduled' = scheduled \cup {Len(flows) + 1}
          /\ todo' = todo \ {x} /\ pc' = "send"
          /\ UNCHANGED <<poolVars, counts, workCh, resultCh>>
    BY <1>2 DEF CreateFlow, StoreFails, CallFails
  <2>2. Len(flows') = Len(flows) + 1 /\ flows'[Len(flows) + 1].element = x /\ Len(flows) \in Nat
    BY <2>1, LenProperties, AppendProperties DEF IInv, TypeOK, StoreType, CreateFlowRecord
  <2>3. Places' = Places \cup {Len(flows) + 1} /\ Len(flows) + 1 \notin scheduled
    BY <2>1, <2>2, CreatePlaces DEF poolVars
  <2>4. scheduled' \ Places' = scheduled \ Places
    BY <2>1, <2>3
  <2>5. Waited' = Waited
    BY <2>1 DEF Waited, poolVars
  <2>6. ASSUME Fired(e) PROVE Fired(e)'
    <3>1. \A i \in scheduled : flows'[i].element = flows[i].element
      BY JoinFacts DEF Kept, FlowID
    <3>2. CASE \E i \in scheduled : flows[i].element \in Process[e].Outgoing
      BY <2>1, <3>1, <3>2 DEF Fired
    <3>3. CASE x \in Process[e].Outgoing
      BY <2>1, <2>2, <3>3 DEF Fired
    <3>4. CASE todo \cap Process[e].Outgoing # {} /\ x \notin Process[e].Outgoing
      BY <2>1, <3>4 DEF Fired
    <3> QED
      BY <2>6, <3>2, <3>3, <3>4 DEF Fired
  <2> QED
    BY <1>1, <2>1, <2>4, <2>5, <2>6, StillJoin
<1>3. CASE SendFlow
  <2>1. /\ pc = "send" /\ workCh' = Append(workCh, Len(flows))
        /\ pc' # "send" /\ UNCHANGED <<resultCh, holds, scheduled, flows, counts, wpc, answer>>
        /\ todo # {} => pc' = "create" /\ UNCHANGED todo
    <3>1. ctx = "live"
      BY <1>3 DEF LiveInv, Quiescent, SendFlow
    <3> QED
      BY <1>3, <3>1 DEF SendFlow, Handled, poolVars, storeVars
  <2>2. Places' = Places
    BY <2>1, SendPlaces
  <2>3. Waited' = Waited
    BY <2>1 DEF Waited
  <2>4. Fired(e) => Fired(e)'
    BY <2>1 DEF Fired
  <2> QED
    BY <1>1, <2>1, <2>2, <2>3, <2>4, StillJoin
<1>4. CASE ContextDone \/ ErrorReceived \/ Finalize \/ FailSafeReturn \/ ContextReturn
  <2>1. /\ UNCHANGED <<workCh, resultCh, poolVars, scheduled, counts>>
        /\ pc' # "send" /\ pc \notin {"create", "send"}
    BY <1>4 DEF ContextDone, ErrorReceived, Finalize, FailSafeReturn, ContextReturn, Return
  <2>2. Places' = Places
    BY <2>1, StillPlaces DEF poolVars
  <2>3. Waited' = Waited
    BY <2>1 DEF Waited, poolVars
  <2>4. Fired(e) => Fired(e)'
    BY <2>1, StillFired
  <2> QED
    BY <1>1, <2>1, <2>2, <2>3, <2>4, StillJoin
<1>5. CASE Receives /\ ~CreateFlow /\ ~SendFlow
  <2>1. /\ element \in Elements /\ counts \in [Elements -> Nat] /\ MaxLoops \in Nat
        /\ e \in Elements
    BY <1>5, ResultFacts, JoinFacts DEF Receives
  <2>2. CASE FailSafe
    <3>1. ctx = "live"
      BY <2>2 DEF FailSafe, LiveInv, Quiescent
    <3>2. counts[element] >= MaxLoops /\ counts' = [counts EXCEPT ![element] = @ + 1]
      BY <2>2, <3>1 DEF FailSafe
    <3>3. ~(counts'[element] <= MaxLoops)
      BY <2>1, <3>2
    <3> QED
      BY <1>1, <1>5, <3>2, <3>3, ReceivesJoin
  <2>3. CASE HandleRoute
    <3>1. counts' = [counts EXCEPT ![element] = @ + 1]
      BY <2>3 DEF HandleRoute, Received
    <3>2. ASSUME element = e PROVE Fired(e)'
      <4>1. result.ans \in JoinAnswers
        BY <1>5, <3>2, ResultAnswers, JoinsAnswer DEF Receives, Firing
      <4>2. Route(element, result.ans) = Process[e].Outgoing
        BY <2>3, <3>2, <4>1 DEF HandleRoute, Received, JoinAnswers, Answer, Route
      <4>3. pc' = "create" /\ todo' = Process[e].Outgoing
        BY <1>1, <2>3, <4>2 DEF HandleRoute, Enqueuing
      <4> QED
        BY <1>1, <4>3 DEF Fired
    <3> QED
      BY <1>1, <1>5, <3>1, <3>2, ReceivesJoin
  <2>4. CASE HandleWait \/ HandleError \/ HandleComplete \/ HandleThrowError
             \/ HandleTerminate \/ HandleCallActivity \/ HandleQueue
    <3>1. counts' = [counts EXCEPT ![element] = @ + 1] /\ result.ans.Action # "ROUTE"
      BY <2>4 DEF HandleWait, HandleError, HandleComplete, HandleThrowError, HandleTerminate,
         HandleCallActivity, HandleQueue, Received
    <3> QED
      BY <1>1, <1>5, <3>1, ReceivesJoin
  <2>5. \/ ~ContextDone /\ ~ErrorReceived /\ ~Finalize /\ ~FailSafeReturn /\ ~ContextReturn
        \/ JoinOf(e)'
    BY <1>4
  <2> QED
    BY <1>5, <2>2, <2>3, <2>4, <2>5 DEF Loop, HandleResult
<1> QED
  BY <1>2, <1>3, <1>4, <1>5, LoopReceives

\* A run begins with no count and no flow that has waited.
LEMMA NewRunJoin ==
  ASSUME IInv', counts' = [e \in Elements |-> 0], scheduled' \subseteq Places', Waited' = {}
  PROVE  JoinInv'
<1> SUFFICES ASSUME NEW e \in Firing PROVE JoinOf(e)'
  BY DEF JoinInv
<1>1. Counted(e)' = {} /\ Waiters(e)' = {}
  BY DEF Counted, Waiters
<1>2. e \in Elements /\ Process[e].Incoming \in Nat \ {0}
  BY ProcessAssumption DEF Firing, Of, Element
<1>3. Cardinality(Counted(e)') = 0 /\ Cardinality(Waiters(e)') = 0
  BY <1>1, FS_EmptySet
<1>4. counts'[e] = 0
  BY <1>2
<1> QED
  BY <1>2, <1>3, <1>4 DEF JoinOf

\* A step that leaves the loop, its channels and its workers alone.
LEMMA OutsideJoin ==
  ASSUME IInv, IInv', PlacesInv, JoinInv, Kept(flows, flows'), faults = 0,
         pc # "send" \/ UNCHANGED flows,
         UNCHANGED <<poolVars, workCh, resultCh, scheduled, counts, pc, todo>>
  PROVE  JoinInv'
<1> SUFFICES ASSUME NEW e \in Firing PROVE JoinOf(e)'
  BY DEF JoinInv
<1>1. Places' = Places
  BY StillPlaces DEF poolVars
<1>2. Waited' = Waited
  BY DEF Waited, poolVars
<1>3. Fired(e) => Fired(e)'
  BY StillFired
<1> QED
  BY <1>1, <1>2, <1>3, StillJoin DEF JoinInv

LEMMA NextJoin ==
  ASSUME IInv, IInv', PlacesInv, AnswersInv, LiveInv, JoinInv, [Next]_vars PROVE JoinInv'
<1> SUFFICES ASSUME faults' = 0 PROVE JoinInv'
  BY DEF JoinInv
<1>1. faults = 0 /\ Kept(flows, flows')
  BY FaultsGrow, NextKeeps
<1>2. ASSUME NEW items \in Seq(FlowID'), BeginLoop(items), Distinct(items)
      PROVE  JoinInv'
  <2>1. scheduled' \subseteq Places'
    BY <1>2, BeginPlaces
  <2>2. /\ counts' = [e \in Elements |-> 0] /\ resultCh' = <<>>
        /\ \A w \in Workers : wpc'[w] # "sending"
    BY <1>2 DEF BeginLoop
  <2>3. Waited' = {}
    BY <2>2, EmptySeq DEF Waited
  <2> QED
    BY <2>1, <2>2, <2>3, NewRunJoin
<1>3. CASE Run
  <2>1. BeginLoop(<<Len(flows) + 1>>) /\ flows' = Append(flows, CreateFlowRecord(Start, 1))
    BY <1>1, <1>3 DEF Run, StoreFails, CallFails
  <2>2. Len(flows) \in Nat /\ Len(flows') = Len(flows) + 1
    BY <2>1, LenProperties DEF IInv, TypeOK, StoreType
  <2>3. Len(flows) + 1 \in FlowID'
    BY <2>2 DEF FlowID
  <2> DEFINE items == <<Len(flows) + 1>>
  <2>4. items \in Seq(FlowID') /\ Distinct(items)
    BY <2>3 DEF Distinct
  <2> QED
    BY <1>2, <2>1, <2>4
<1>4. CASE Resume
  <2>1. PICK f \in FlowID, table \in Seq(FlowRecord) :
          Len(table) = Len(flows) /\ Continue(f, table)
    BY <1>4, ResumeContinues
  <2>2. pc = "returned"
    BY <2>1 DEF Continue, Quiet
  <2>3. CASE NotResumed
    BY <1>1, <2>2, <2>3, OutsideJoin DEF NotResumed
  <2>4. CASE \E fault : ContinueAtEnd(f, fault) /\ ~NotResumed
    <3>1. scheduled' = {}
      BY <2>2, <2>4, EndPlaces
    <3>2. /\ counts' = [e \in Elements |-> 0] /\ resultCh' = <<>>
          /\ \A w \in Workers : wpc'[w] # "sending"
      BY <2>4 DEF ContinueAtEnd
    <3>3. Waited' = {}
      BY <3>2, EmptySeq DEF Waited
    <3> QED
      BY <3>1, <3>2, <3>3, NewRunJoin
  <2>5. CASE ~NotResumed /\ \A fault : ~ContinueAtEnd(f, fault)
    BY <1>2, <2>1, <2>5, ContinueBegins
  <2> QED
    BY <2>3, <2>4, <2>5
<1>5. CASE Rest \/ UNCHANGED vars
  <2>1. UNCHANGED <<poolVars, workCh, resultCh, scheduled, counts, pc, todo, flows, faults>>
    BY <1>5 DEF Rest, vars, storeVars
  <2> QED
    BY <1>1, <2>1, OutsideJoin
<1>6. CASE Deadline \/ Cancel
  BY <1>1, <1>6, FaultsGrow DEF Deadline, Cancel, ContextEnds
<1> QED
  BY <1>1, <1>3, <1>4, <1>5, <1>6, LoopJoin, WorkerJoin DEF Next

LEMMA JoinInvariance == Spec => [](PlacesInv /\ AnswersInv /\ LiveInv /\ JoinInv)
<1>1. Init => PlacesInv /\ AnswersInv /\ LiveInv /\ JoinInv
  <2> SUFFICES ASSUME Init PROVE PlacesInv /\ AnswersInv /\ LiveInv /\ JoinInv
    OBVIOUS
  <2>1. /\ Len(flows) = 0 /\ workCh = <<>> /\ Len(resultCh) = 0 /\ resultCh = <<>>
        /\ scheduled = {} /\ pc = "idle" /\ \A w \in Workers : holds[w] = 0 /\ wpc[w] = "gone"
        /\ counts = [e \in Elements |-> 0]
    BY EmptySeq DEF Init
  <2>2. FlowsOf(resultCh) = <<>>
    BY <2>1 DEF FlowsOf
  <2>3. PlacesInv
    BY <2>1, <2>2, NoMembers, EmptySeq DEF PlacesInv, Places, InChannels, Held, Distinct
  <2>4. AnswersInv
    BY <2>1 DEF AnswersInv, Failing
  <2>5. LiveInv
    BY <2>1 DEF LiveInv, Quiescent
  <2>6. JoinInv
    <3> SUFFICES ASSUME NEW e \in Firing PROVE JoinOf(e)
      BY DEF JoinInv
    <3>1. Waited = {}
      BY <2>1 DEF Waited
    <3>2. Counted(e) = {} /\ Waiters(e) = {}
      BY <2>1, <3>1 DEF Counted, Waiters
    <3>3. e \in Elements /\ Process[e].Incoming \in Nat \ {0}
      BY ProcessAssumption DEF Firing, Of, Element
    <3>4. Cardinality(Counted(e)) = 0 /\ Cardinality(Waiters(e)) = 0
      BY <3>2, FS_EmptySet
    <3> QED
      BY <2>1, <3>3, <3>4 DEF JoinOf
  <2> QED
    BY <2>3, <2>4, <2>5, <2>6
<1> QED
  BY <1>1, Invariance, NextPlaces, NextAnswers, NextLive, NextJoin, PTL DEF Spec

\* In a run without a fault, once the loop has received as many results of a
\* converging parallel gateway as flows lead into it, the gateway has gone on:
\* in whatever order the branches arrive, are executed by any number of workers
\* and report, they do not all wait (parallel.go, areAllIncomingComplete).
THEOREM JoinsFire == Spec => []JoinFires
<1>1. IInv /\ JoinInv => JoinFires
  <2> SUFFICES ASSUME IInv, JoinInv, faults = 0, pc \notin {"create", "send"},
                      NEW e \in Of("parallelGateway"), Joins(e), Process[e].Outgoing # {},
                      Process[e].Incoming \in 1..counts[e], counts[e] <= MaxLoops
               PROVE  \E i \in scheduled : flows[i].element \in Process[e].Outgoing
    BY DEF JoinFires
  <2>1. e \in Firing
    BY DEF Firing
  <2>2. JoinOf(e)
    BY <2>1 DEF JoinInv
  <2>3. /\ IsFiniteSet(Counted(e)) /\ IsFiniteSet(Waiters(e)) /\ e \in Elements
        /\ Process[e].Incoming \in Nat /\ counts \in [Elements -> Nat]
    BY <2>1, JoinFacts
  <2>4. Counted(e) \subseteq Waiters(e)
    BY DEF Counted, Waiters
  <2>5. /\ Cardinality(Counted(e)) <= Cardinality(Waiters(e))
        /\ Cardinality(Counted(e)) \in Nat /\ Cardinality(Waiters(e)) \in Nat
    BY <2>3, <2>4, FS_Subset, FS_CardinalityType
  <2>6. counts[e] \in Nat /\ Process[e].Incoming <= counts[e]
    BY <2>3
  <2>7. Fired(e)
    BY <2>2, <2>3, <2>5, <2>6 DEF JoinOf
  <2> QED
    BY <2>7 DEF Fired
<1> QED
  BY <1>1, Invariance, JoinInvariance, PTL

----------------------------------------------------------------------------
(* An activity that was interrupted stays closed.                          *)

Resumable == IsValidTransition(stored, "IN_PROGRESS")

\* The message of this interrupting event was taken.
Taken(b) ==
  /\ flows[b].element \in Of("messageCatch") /\ Process[flows[b].element].CancelActivity
  /\ flows[b].status = "COMPLETED"

Attached(i, b) == flows[i].element = Process[flows[b].element].AttachedToRef

\* A loop works on a case that could be taken up.  While no fault came between,
\* what was open of an activity when its message was taken is closed, and no loop
\* will execute it: it only executes younger flows.
TakenInv ==
  /\ pc = "idle" \/ ~Quiescent => Resumable
  /\ faults = 0 /\ Resumable =>
       \A b \in FlowID : Taken(b) =>
         /\ \A i \in 1..b : Attached(i, b) => flows[i].status # "ACTIVE"
         /\ \A i \in scheduled : i > b

\* A step of a run: records are added, the status of one that is scheduled may
\* change, and nothing that waits for somebody else is taken.
RunsOn ==
  /\ Len(flows) <= Len(flows')
  /\ \A i \in FlowID :
       /\ flows'[i].element = flows[i].element
       /\ \/ flows'[i].status = flows[i].status
          \/ i \in scheduled
             /\ (LeavesActive(flows[i].element) => flows'[i].status # "COMPLETED")
  /\ \A i \in FlowID' \ FlowID : flows'[i].status = "ACTIVE"
  /\ scheduled' \subseteq scheduled \cup (FlowID' \ FlowID)

LEMMA RunsOnKeepsTaken ==
  ASSUME IInv, TakenInv, RunsOn,
         pc' = "idle" \/ ~Quiescent' => Resumable',
         faults' = 0 /\ Resumable' => faults = 0 /\ Resumable
  PROVE  TakenInv'
<1>1. Len(flows) \in Nat /\ Len(flows) <= Len(flows')
  <2>1. flows \in Seq(FlowRecord)
    BY DEF IInv, TypeOK, StoreType
  <2> QED
    BY <2>1, LenProperties DEF RunsOn
<1> SUFFICES ASSUME faults' = 0, Resumable', NEW b \in FlowID', Taken(b)'
             PROVE  /\ \A i \in 1..b : Attached(i, b)' => flows'[i].status # "ACTIVE"
                    /\ \A i \in scheduled' : i > b
  BY DEF TakenInv
<1>2. b \in FlowID
  BY DEF RunsOn, Taken
<1>3. Taken(b)
  <2>1. flows'[b].element = flows[b].element
    BY <1>2 DEF RunsOn
  <2>2. LeavesActive(flows[b].element)
    BY <2>1 DEF Taken, Of, LeavesActive
  <2> QED
    BY <1>2, <2>1, <2>2 DEF RunsOn, Taken
<1>4. /\ \A i \in 1..b : Attached(i, b) => flows[i].status # "ACTIVE"
      /\ \A i \in scheduled : i > b
  BY <1>2, <1>3 DEF TakenInv
<1>5. ASSUME NEW i \in 1..b, Attached(i, b)' PROVE flows'[i].status # "ACTIVE"
  <2>1. i \in FlowID /\ i \notin scheduled
    BY <1>1, <1>2, <1>4 DEF FlowID
  <2>2. flows'[i].element = flows[i].element /\ flows'[b].element = flows[b].element
        /\ flows'[i].status = flows[i].status
    BY <1>2, <2>1 DEF RunsOn
  <2> QED
    BY <1>4, <1>5, <2>2 DEF Attached
<1>6. ASSUME NEW i \in scheduled' PROVE i > b
  <2>1. CASE i \in FlowID' \ FlowID
    BY <1>1, <1>2, <2>1 DEF FlowID
  <2> QED
    BY <1>4, <2>1 DEF RunsOn
<1> QED
  BY <1>5, <1>6

LEMMA StillRunsOn ==
  ASSUME IInv, UNCHANGED <<flows, scheduled>> PROVE RunsOn
<1>1. Len(flows) \in Nat
  BY LenProperties DEF IInv, TypeOK, StoreType
<1>2. FlowID' = FlowID
  BY DEF FlowID
<1> QED
  BY <1>1, <1>2 DEF RunsOn

LEMMA WorkerRunsOn ==
  ASSUME IInv, PlacesInv, NEW w \in Workers, Worker(w)
  PROVE  RunsOn /\ UNCHANGED <<pc, stored>>
<1>1. flows \in Seq(FlowRecord) /\ Len(flows) \in Nat
  BY LenProperties DEF IInv, TypeOK, StoreType
<1>2. CASE Take(w) \/ Deliver(w) \/ Leave(w)
  BY <1>2, StillRunsOn DEF Take, Deliver, Leave, storeVars
<1>3. CASE ExecuteElement(w)
  <2> DEFINE f == holds[w]
  <2>1. f \in FlowID
    BY <1>3 DEF ExecuteElement, IInv, TypeOK, PoolType, HoldsInv, FlowID
  <2>2. f \in scheduled
    <3>1. f \in Places /\ f # 0
      BY <2>1 DEF Places, Held, FlowID
    <3> QED
      BY <3>1 DEF PlacesInv
  <2>3. UNCHANGED <<pc, stored, scheduled>>
    BY <1>3 DEF ExecuteElement
  <2>4. PICK status : /\ flows' = [flows EXCEPT ![f].status = status]
                      /\ LeavesActive(flows[f].element) => status # "COMPLETED"
    <3>2. CASE Process[flows[f].element].Type = "parallelGateway"
               /\ flows' = [flows EXCEPT ![f].status = "COMPLETED"]
      BY <3>2 DEF LeavesActive
    <3>3. ASSUME NEW a, flows' = [flows EXCEPT ![f].status = StatusAfter(flows[f].element, a)]
          PROVE  \E status : /\ flows' = [flows EXCEPT ![f].status = status]
                             /\ LeavesActive(flows[f].element) => status # "COMPLETED"
      <4>1. LeavesActive(flows[f].element)
              => StatusAfter(flows[f].element, a) \in {"ERROR", "ACTIVE"}
        BY DEF StatusAfter
      <4> QED
        BY <3>3, <4>1
    <3> QED
      BY <1>3, <3>2, <3>3 DEF ExecuteElement
  <2> HIDE DEF f
  <2>5. DOMAIN flows' = DOMAIN flows /\ DOMAIN flows = 1..Len(flows)
    BY <1>1, <2>4, LenProperties
  <2>6. Len(flows') = Len(flows)
    BY <1>1, <2>4
  <2>7. \A i \in FlowID : /\ flows'[i].element = flows[i].element
                          /\ flows'[i].status = IF i = f THEN status ELSE flows[i].status
    <3>1. \A i \in FlowID : flows[i] \in FlowRecord
      BY <1>1, ElementOfSeq DEF FlowID
    <3> QED
      BY <1>1, <2>1, <2>4, <2>5, <3>1 DEF FlowID, FlowRecord
  <2> QED
    BY <1>1, <2>1, <2>2, <2>3, <2>4, <2>6, <2>7 DEF RunsOn, FlowID
<1> QED
  BY <1>2, <1>3 DEF Worker

\* New records come after those that were there.
LEMMA ConcatRunsOn ==
  ASSUME IInv, NEW recs \in Seq(FlowRecord), flows' = flows \o recs,
         \A i \in 1..Len(recs) : recs[i].status = "ACTIVE",
         scheduled' \subseteq scheduled \cup (FlowID' \ FlowID)
  PROVE  RunsOn
<1>1. flows \in Seq(FlowRecord) /\ Len(flows) \in Nat /\ Len(recs) \in Nat
  BY LenProperties DEF IInv, TypeOK, StoreType
<1>2. /\ Len(flows') = Len(flows) + Len(recs)
      /\ \A i \in 1..Len(flows) + Len(recs) :
           flows'[i] = IF i <= Len(flows) THEN flows[i] ELSE recs[i - Len(flows)]
  BY <1>1, ConcatProperties
<1>3. \A i \in FlowID' \ FlowID : i - Len(flows) \in 1..Len(recs) /\ i > Len(flows)
  BY <1>1, <1>2 DEF FlowID
<1> QED
  BY <1>1, <1>2, <1>3 DEF RunsOn, FlowID

LEMMA LoopRunsOn ==
  ASSUME IInv, Loop
  PROVE  RunsOn
<1>1. flows \in Seq(FlowRecord) /\ Len(flows) \in Nat
  BY LenProperties DEF IInv, TypeOK, StoreType
<1>2. CASE UNCHANGED <<flows, scheduled>>
  BY <1>2, StillRunsOn
<1>4. CASE HandleWait /\ flows' # flows
  <2> DEFINE boundary == BoundaryTimers(element) \cup BoundaryMessages(element)
  <2>1. PICK unarmed \in SUBSET boundary :
          \E s \in Orders(boundary \ unarmed) :
            flows' = flows \o FlowRecords(s, flows[current].thread)
    BY <1>4 DEF HandleWait
  <2>2. PICK s \in Orders(boundary \ unarmed) :
          flows' = flows \o FlowRecords(s, flows[current].thread)
    BY <2>1
  <2>3. element \in Elements /\ result.ans \in ExecutionResult /\ current \in FlowID
    BY <1>4, ResultFacts DEF HandleWait, Received
  <2>4. flows[current].thread \in Nat
    <3>1. flows[current] \in FlowRecord
      BY <1>1, <2>3, ElementOfSeq DEF FlowID
    <3> QED
      BY <3>1 DEF FlowRecord
  <2>5. boundary \ unarmed \subseteq Elements
    BY <2>3, NextFlowsType
  <2> HIDE DEF boundary
  <2>6. LET recs == FlowRecords(s, flows[current].thread) IN
        recs \in Seq(FlowRecord) /\ \A i \in 1..Len(recs) : recs[i].status = "ACTIVE"
    BY <2>4, <2>5, NewRecords
  <2>7. UNCHANGED scheduled
    BY <1>4 DEF HandleWait, Handled, Failed
  <2> QED
    <3> DEFINE recs == FlowRecords(s, flows[current].thread)
    <3>1. recs \in Seq(FlowRecord) /\ \A i \in 1..Len(recs) : recs[i].status = "ACTIVE"
      BY <2>6
    <3>2. flows' = flows \o recs
      BY <2>2
    <3> HIDE DEF recs
    <3> QED
      BY <2>7, <3>1, <3>2, ConcatRunsOn
<1>5. CASE CreateFlow /\ flows' # flows
  <2>1. PICK e, thread :
          /\ flows' = Append(flows, CreateFlowRecord(e, thread))
          /\ scheduled' = scheduled \cup {Len(flows) + 1}
    BY <1>5 DEF CreateFlow, Return
  <2>2. Len(flows') = Len(flows) + 1 /\ \A i \in 1..Len(flows) : flows'[i] = flows[i]
    BY <1>1, <2>1
  <2>3. flows'[Len(flows) + 1].status = "ACTIVE"
    BY <1>1, <2>1 DEF CreateFlowRecord
  <2>4. FlowID \subseteq FlowID' /\ FlowID' \ FlowID = {Len(flows) + 1}
    BY <1>1, <2>2 DEF FlowID
  <2>5. \A i \in FlowID : flows'[i] = flows[i]
    BY <2>2 DEF FlowID
  <2> QED
    <3>1. \A i \in FlowID' \ FlowID : flows'[i].status = "ACTIVE"
      BY <2>3, <2>4
    <3>2. Len(flows) <= Len(flows') /\ scheduled' \subseteq scheduled \cup (FlowID' \ FlowID)
      BY <1>1, <2>1, <2>2, <2>4
    <3> QED
      BY <2>5, <3>1, <3>2 DEF RunsOn
<1>6. CASE ~HandleWait /\ ~CreateFlow
  <2>1. UNCHANGED <<flows, scheduled>>
    BY <1>6 DEF Loop, HandleResult, HandleRoute, HandleError, HandleComplete,
       HandleThrowError, HandleTerminate, HandleCallActivity, HandleQueue, SendFlow,
       FailSafe, ContextDone, ErrorReceived, Finalize, FailSafeReturn, ContextReturn,
       storeVars, Handled, Enqueuing, Failed, Return
  <2> QED
    BY <1>2, <2>1
<1>7. CASE UNCHANGED flows /\ (HandleWait \/ CreateFlow)
  <2>1. CASE UNCHANGED scheduled
    BY <1>2, <1>7, <2>1
  <2>2. CASE scheduled' # scheduled
    <3>1. CreateFlow /\ \E rec : flows' = Append(flows, rec)
      BY <1>7, <2>2 DEF HandleWait, Handled, Failed, CreateFlow
    <3>2. Len(flows') = Len(flows) + 1
      BY <1>1, <3>1
    <3> QED
      BY <1>1, <1>7, <3>2
  <2> QED
    BY <2>1, <2>2
<1> QED
  BY <1>4, <1>5, <1>6, <1>7

LEMMA LoopTaken ==
  ASSUME IInv, TakenInv, Loop PROVE TakenInv'
<1>1. RunsOn
  BY LoopRunsOn
<1>2. ~Quiescent /\ pc' # "idle"
  BY DEF Loop, HandleResult, HandleRoute, HandleError, HandleWait, HandleComplete,
     HandleThrowError, HandleTerminate, HandleCallActivity, HandleQueue, CreateFlow, SendFlow,
     FailSafe, ContextDone, ErrorReceived, Finalize, FailSafeReturn, ContextReturn,
     Received, Handled, Enqueuing, Failed, Return, Quiescent
<1>3. Resumable
  BY <1>2 DEF TakenInv
<1>4. ~Quiescent' => UNCHANGED stored
  BY DEF Loop, HandleResult, HandleRoute, HandleError, HandleWait, HandleComplete,
     HandleThrowError, HandleTerminate, HandleCallActivity, HandleQueue, CreateFlow, SendFlow,
     FailSafe, ContextDone, ErrorReceived, Finalize, FailSafeReturn, ContextReturn,
     Return, Quiescent, storeVars
<1>5. ~Quiescent' => Resumable'
  BY <1>3, <1>4 DEF Resumable
<1>6. faults' = 0 => faults = 0
  BY FaultsGrow DEF Next
<1> QED
  BY <1>1, <1>2, <1>3, <1>5, <1>6, RunsOnKeepsTaken

LEMMA RunRunsOn ==
  ASSUME IInv, Run, faults = 0, faults' = 0
  PROVE  RunsOn
<1>1. flows \in Seq(FlowRecord) /\ Len(flows) \in Nat
  BY LenProperties DEF IInv, TypeOK, StoreType
<1>2. /\ flows' = Append(flows, CreateFlowRecord(Start, 1))
      /\ BeginLoop(<<Len(flows) + 1>>)
  BY DEF Run, StoreFails, CallFails
<1>3. scheduled' \subseteq {Len(flows) + 1}
  BY <1>2 DEF BeginLoop
<1>4. Len(flows') = Len(flows) + 1 /\ \A i \in 1..Len(flows) : flows'[i] = flows[i]
  BY <1>1, <1>2
<1>5. flows'[Len(flows) + 1].status = "ACTIVE"
  BY <1>1, <1>2 DEF CreateFlowRecord
<1>6. FlowID \subseteq FlowID' /\ FlowID' \ FlowID = {Len(flows) + 1}
  BY <1>1, <1>4 DEF FlowID
<1>7. \A i \in FlowID : flows'[i] = flows[i]
  BY <1>4 DEF FlowID
<1>8. \A i \in FlowID' \ FlowID : flows'[i].status = "ACTIVE"
  BY <1>5, <1>6
<1>9. Len(flows) <= Len(flows') /\ scheduled' \subseteq scheduled \cup (FlowID' \ FlowID)
  BY <1>1, <1>3, <1>4, <1>6
<1> QED
  BY <1>7, <1>8, <1>9 DEF RunsOn

LEMMA RunTaken ==
  ASSUME IInv, StatusInv, TakenInv, Run PROVE TakenInv'
<1>1. pc = "idle" /\ Resumable /\ UNCHANGED stored /\ pc' # "idle"
  BY DEF Run, TakenInv, BeginLoop, Return
<1>2. Resumable'
  BY <1>1 DEF Resumable
<1>3. CASE faults' # 0
  BY <1>1, <1>2, <1>3 DEF TakenInv
<1>4. CASE faults' = 0
  <2>1. faults = 0
    BY <1>4, FaultsGrow DEF Next
  <2> QED
    BY <1>1, <1>2, <1>4, <2>1, RunRunsOn, RunsOnKeepsTaken
<1> QED
  BY <1>3, <1>4

\* What Continue leaves in the records it found.
LEMMA CancelShuts ==
  ASSUME NEW table \in Seq(FlowRecord), NEW f \in 1..Len(table), NEW i \in 1..Len(table)
  PROVE  LET shut == CancelAttached(f, table)
             e == table[f].element IN
         /\ shut[i].element = table[i].element
         /\ shut[i].status = IF /\ Process[e].AttachedToRef # None /\ Process[e].CancelActivity
                                /\ table[i].element = Process[e].AttachedToRef
                                /\ table[i].status = "ACTIVE"
                             THEN "COMPLETED" ELSE table[i].status
<1>1. DOMAIN table = 1..Len(table) /\ table[i] \in FlowRecord
  BY ElementOfSeq, LenProperties
<1> QED
  BY <1>1 DEF CancelAttached, FlowRecord

\* A resumption that meets no fault: the records are closed, and only new ones
\* are scheduled.
Resumes(t) ==
  /\ Len(flows) <= Len(flows')
  /\ \A i \in FlowID : flows'[i] = t[i]
  /\ \A i \in FlowID' \ FlowID : flows'[i].status = "ACTIVE"
  /\ scheduled' \cap FlowID = {} /\ scheduled' \subseteq FlowID'
  /\ pc' # "idle"
  /\ (pc' = "returned" \/ UNCHANGED stored)

LEMMA ContinueClean ==
  ASSUME NEW f, NEW table, Continue(f, table), Resumable, faults = 0, faults' = 0
  PROVE  LET next == Process[flows[f].element].Outgoing
             t == CancelAttached(f, table) IN
         /\ pc = "returned"
         /\ \/ next = {} /\ flows' = t /\ ContinueAtEnd(f, FALSE)
            \/ next # {} /\ ContinueWith(f, t, next, FALSE)
<1> DEFINE next == Process[flows[f].element].Outgoing
           t == CancelAttached(f, table)
<1>1. PICK fault \in BOOLEAN, u \in PartlyCancelled(f, table) :
        /\ fault \/ u = t
        /\ IF fault THEN CallFails(FALSE) ELSE UNCHANGED faults
        /\ \/ next = {} /\ flows' = u /\ ContinueAtEnd(f, fault)
           \/ next # {} /\ ContinueWith(f, u, next, fault)
  BY DEF Continue, Resumable
<1>2. fault = FALSE
  BY <1>1 DEF CallFails
<1>3. u = t
  BY <1>1, <1>2
<1>4. pc = "returned"
  BY DEF Continue, Quiet
<1> QED
  BY <1>1, <1>2, <1>3, <1>4

LEMMA ContinueResumes ==
  ASSUME IInv, IInv', NEW f \in FlowID, NEW table \in Seq(FlowRecord), Len(table) = Len(flows),
         Continue(f, table), Resumable, faults = 0, faults' = 0
  PROVE  Resumes(CancelAttached(f, table))
<1> DEFINE next == Process[flows[f].element].Outgoing
           t == CancelAttached(f, table)
<1> SUFFICES Resumes(t)
  OBVIOUS
<1>1. /\ pc = "returned"
      /\ \/ flows' = t /\ ContinueAtEnd(f, FALSE)
         \/ ContinueWith(f, t, next, FALSE)
  BY ContinueClean
<1>2. /\ flows \in Seq(FlowRecord) /\ Len(flows) \in Nat
      /\ t \in Seq(FlowRecord) /\ Len(t) = Len(flows) /\ scheduled' \subseteq FlowID'
  BY CancelAttachedType, LenProperties DEF IInv, TypeOK, StoreType, LoopType
<1>3. t[f] \in FlowRecord /\ next \subseteq Elements
  <2>1. flows[f] \in FlowRecord /\ t[f] \in FlowRecord
    BY <1>2, ElementOfSeq DEF FlowID
  <2> QED
    BY <2>1, ProcessAssumption DEF FlowRecord, Element
<1> HIDE DEF next, t
<1>4. CASE flows' = t /\ ContinueAtEnd(f, FALSE)
  <2>1. pc' = "returned" /\ scheduled' = {}
    BY <1>1, <1>4 DEF ContinueAtEnd
  <2>2. FlowID' = FlowID /\ Len(flows') = Len(flows)
    BY <1>2, <1>4 DEF FlowID
  <2> QED
    <3>1. (\A i \in FlowID : flows'[i] = t[i]) /\ FlowID' \ FlowID = {}
      BY <1>4, <2>2
    <3>2. scheduled' \cap FlowID = {} /\ scheduled' \subseteq FlowID'
      BY <2>1
    <3>3. Len(flows) <= Len(flows') /\ pc' # "idle"
      BY <1>2, <2>1, <2>2
    <3> QED
      BY <2>1, <3>1, <3>2, <3>3 DEF Resumes
<1>5. CASE ContinueWith(f, t, next, FALSE)
  <2>1. PICK s \in Orders(next) :
          /\ flows' = t \o FlowRecords(s, t[f].thread)
          /\ BeginLoop([i \in DOMAIN s |-> Len(flows) + i])
          /\ UNCHANGED stored
    BY <1>5 DEF ContinueWith
  <2> DEFINE recs == FlowRecords(s, t[f].thread)
  <2>2. /\ recs \in Seq(FlowRecord) /\ Len(recs) \in Nat /\ DOMAIN s = 1..Len(recs)
        /\ \A i \in 1..Len(recs) : recs[i].status = "ACTIVE"
    <3>1. t[f].thread \in Nat
      BY <1>3 DEF FlowRecord
    <3> QED
      BY <1>3, <3>1, NewRecords
  <2>3. flows' = t \o recs
    BY <2>1
  <2> HIDE DEF recs
  <2>4. /\ Len(flows') = Len(flows) + Len(recs)
        /\ \A i \in 1..Len(flows) + Len(recs) :
             flows'[i] = IF i <= Len(flows) THEN t[i] ELSE recs[i - Len(flows)]
    <3>1. /\ Len(t \o recs) = Len(t) + Len(recs)
          /\ \A i \in 1..Len(t) + Len(recs) :
               (t \o recs)[i] = IF i <= Len(t) THEN t[i] ELSE recs[i - Len(t)]
      <4>1. t \in Seq(FlowRecord) /\ recs \in Seq(FlowRecord)
        BY <1>2, <2>2
      <4> HIDE DEF t
      <4> QED
        BY <4>1, ConcatProperties
    <3> QED
      BY <1>2, <2>3, <3>1
  <2>5. \A i \in FlowID' \ FlowID : i - Len(flows) \in 1..Len(recs) /\ i > Len(flows)
    BY <1>2, <2>2, <2>4 DEF FlowID
  <2>6. \A i \in scheduled' : i > Len(flows)
    <3> DEFINE items == [i \in 1..Len(recs) |-> Len(flows) + i]
    <3>1. BeginLoop(items) /\ Len(items) = Len(recs)
      BY <2>1, <2>2
    <3>2. \A i \in 1..Len(recs) : items[i] = Len(flows) + i
      OBVIOUS
    <3> HIDE DEF items
    <3>3. scheduled' = {items[i] : i \in 1..Len(recs)}
      BY <3>1 DEF BeginLoop
    <3> QED
      BY <1>2, <2>2, <3>2, <3>3
  <2>7. UNCHANGED stored /\ pc' # "idle"
    BY <2>1 DEF BeginLoop
  <2>8. \A i \in FlowID : flows'[i] = t[i]
    BY <1>2, <2>2, <2>4 DEF FlowID
  <2>9. \A i \in FlowID' \ FlowID : flows'[i].status = "ACTIVE"
    BY <1>2, <2>2, <2>4, <2>5 DEF FlowID
  <2> QED
    <3>1. Len(flows) <= Len(flows') /\ scheduled' \cap FlowID = {}
      BY <1>2, <2>2, <2>4, <2>6 DEF FlowID
    <3> QED
      BY <1>2, <2>7, <2>8, <2>9, <3>1 DEF Resumes
<1> QED
  BY <1>1, <1>4, <1>5

\* The event on e interrupts the activity x.
Interrupts(e, x) ==
  Process[e].AttachedToRef # None /\ Process[e].CancelActivity /\ x = Process[e].AttachedToRef

\* The records a resumption finds, and those it leaves.
LEMMA ResumedRecords ==
  ASSUME IInv, NEW f \in FlowID, NEW table \in {flows, Completed(f)},
         table \in Seq(FlowRecord), Len(table) = Len(flows), NEW i \in FlowID
  PROVE  LET t == CancelAttached(f, table) IN
         /\ flows[i] \in FlowRecord /\ flows[f] \in FlowRecord
         /\ table[i].status = IF i = f /\ table = Completed(f) THEN "COMPLETED" ELSE flows[i].status
         /\ t[i].element = flows[i].element
         /\ t[i].status = IF Interrupts(flows[f].element, flows[i].element) /\ table[i].status = "ACTIVE"
                          THEN "COMPLETED" ELSE table[i].status
<1>1. flows \in Seq(FlowRecord)
  BY DEF IInv, TypeOK, StoreType
<1>2. \A k \in FlowID : flows[k] \in FlowRecord /\ DOMAIN flows = FlowID
  BY <1>1, ElementOfSeq, LenProperties DEF FlowID
<1>3. \A k \in FlowID : Completed(f)[k] =
        IF k = f THEN [flows[k] EXCEPT !.status = "COMPLETED"] ELSE flows[k]
  BY <1>2 DEF Completed
<1>4. \A k \in FlowID :
        /\ table[k].element = flows[k].element
        /\ table[k].status = IF k = f /\ table = Completed(f) THEN "COMPLETED" ELSE flows[k].status
  <2>1. CASE table = Completed(f)
    <3>1. \A k \in FlowID :
            /\ table[k].element = flows[k].element
            /\ table[k].status = IF k = f THEN "COMPLETED" ELSE flows[k].status
      BY <1>2, <1>3, <2>1 DEF FlowRecord
    <3> QED
      BY <2>1, <3>1
  <2>2. CASE table # Completed(f)
    BY <2>2
  <2> QED
    BY <2>1, <2>2
<1>5. f \in 1..Len(table) /\ i \in 1..Len(table)
  BY DEF FlowID
<1> DEFINE t == CancelAttached(f, table)
<1>6. /\ t[i].element = table[i].element
      /\ t[i].status = IF Interrupts(table[f].element, table[i].element) /\ table[i].status = "ACTIVE"
                       THEN "COMPLETED" ELSE table[i].status
  BY <1>5, CancelShuts DEF Interrupts
<1> HIDE DEF t
<1>7. /\ t[i].element = flows[i].element
      /\ t[i].status = IF Interrupts(flows[f].element, flows[i].element) /\ table[i].status = "ACTIVE"
                       THEN "COMPLETED" ELSE table[i].status
  BY <1>4, <1>6
<1> QED
  BY <1>2, <1>4, <1>7 DEF t

LEMMA ContinueTaken ==
  ASSUME IInv, IInv', TakenInv, NEW f \in FlowID, NEW table \in {flows, Completed(f)},
         table \in Seq(FlowRecord), Len(table) = Len(flows), Continue(f, table)
  PROVE  TakenInv'
<1>1. pc = "returned"
  BY DEF Continue, Quiet
<1>2. CASE ~Resumable
  <2>1. UNCHANGED <<stored, pc>>
    BY <1>2 DEF Continue, NotResumed, Resumable
  <2> QED
    BY <1>1, <1>2, <2>1 DEF TakenInv, Resumable, Quiescent
<1>3. CASE Resumable
  <2>1. pc' = "idle" \/ ~Quiescent' => Resumable'
    <3>1. PICK fault, t :
            \/ ContinueAtEnd(f, fault)
            \/ \E next : ContinueWith(f, t, next, fault)
      BY <1>3 DEF Continue, Resumable
    <3> DEFINE Still == pc' = pc \/ (stored' = stored /\ pc' # "idle")
    <3>2. ASSUME NotResumed PROVE Still
      BY <3>2 DEF NotResumed
    <3>3. ASSUME ContinueAtEnd(f, fault) PROVE Still
      BY <3>2, <3>3 DEF ContinueAtEnd
    <3>4. ASSUME \E next : ContinueWith(f, t, next, fault) PROVE Still
      <4>1. CASE \E items : BeginLoop(items) /\ UNCHANGED stored
        BY <4>1 DEF BeginLoop
      <4> QED
        BY <3>2, <3>4, <4>1 DEF ContinueWith
    <3>5. Still
      BY <3>1, <3>2, <3>3, <3>4
    <3> QED
      BY <1>1, <1>3, <3>5 DEF Resumable, Quiescent
  <2> SUFFICES ASSUME faults' = 0, NEW b \in FlowID', Taken(b)'
               PROVE  /\ \A i \in 1..b : Attached(i, b)' => flows'[i].status # "ACTIVE"
                      /\ \A i \in scheduled' : i > b
    BY <2>1 DEF TakenInv
  <2>2. faults = 0
    <3>1. faults' \in {faults, faults + 1} /\ faults \in Nat
      BY DEF Continue, CallFails, IInv, TypeOK, CounterType
    <3> QED
      BY <3>1
  <2> DEFINE t == CancelAttached(f, table)
  <2>3. Resumes(t)
    BY <1>3, <2>2, ContinueResumes
  <2>4. b \in FlowID /\ flows'[b] = t[b]
    BY <2>3 DEF Resumes, Taken
  <2>5. Len(flows) \in Nat /\ \A i \in 1..b : i \in FlowID
    <3>1. flows \in Seq(FlowRecord)
      BY DEF IInv, TypeOK, StoreType
    <3>2. Len(flows) \in Nat
      BY <3>1, LenProperties
    <3> QED
      BY <2>4, <3>2 DEF FlowID
  <2>6. \A i \in FlowID :
          /\ flows[i] \in FlowRecord
          /\ table[i].status = IF i = f /\ table = Completed(f) THEN "COMPLETED" ELSE flows[i].status
          /\ t[i].element = flows[i].element
          /\ t[i].status = IF Interrupts(flows[f].element, flows[i].element) /\ table[i].status = "ACTIVE"
                           THEN "COMPLETED" ELSE table[i].status
    BY ResumedRecords
  <2> HIDE DEF t
  <2>7. ASSUME NEW i \in 1..b, Attached(i, b)' PROVE flows'[i].status # "ACTIVE"
    <3>1. flows'[i] = t[i] /\ i \in FlowID
      BY <2>3, <2>5 DEF Resumes
    <3>2. /\ flows[i].element = Process[flows[b].element].AttachedToRef
          /\ flows[b].element \in Elements /\ flows[i].element \in Elements
          /\ t[b].status = "COMPLETED"
          /\ flows[b].element \in Of("messageCatch") /\ Process[flows[b].element].CancelActivity
      BY <2>4, <2>6, <2>7, <3>1 DEF Attached, Taken, FlowRecord
    <3>3. Process[flows[b].element].AttachedToRef # None
      BY <3>2, ProcessAssumption
    <3>4. CASE b = f
      <4>1. Interrupts(flows[f].element, flows[i].element)
        BY <3>2, <3>3, <3>4 DEF Interrupts
      <4> QED
        BY <2>6, <3>1, <4>1
    <3>5. CASE b # f
      <4>1. ~Interrupts(flows[f].element, flows[b].element)
        <5>1. flows[f].element \in Elements
          BY <2>6 DEF FlowRecord
        <5> QED
          BY <3>3, <5>1, BoundaryAssumption DEF Interrupts
      <4>2. flows[b].status = "COMPLETED"
        BY <2>4, <2>6, <3>2, <3>5, <4>1
      <4>3. Taken(b) /\ Attached(i, b)
        BY <3>2, <4>2 DEF Taken, Attached
      <4>4. flows[i].status # "ACTIVE"
        BY <1>3, <2>2, <2>4, <4>3 DEF TakenInv
      <4> QED
        BY <2>6, <3>1, <4>4
    <3> QED
      BY <3>4, <3>5
  <2>8. ASSUME NEW i \in scheduled' PROVE i > b
    BY <2>3, <2>4, <2>5 DEF Resumes, FlowID
  <2> QED
    BY <2>7, <2>8
<1> QED
  BY <1>2, <1>3

LEMMA NextTaken ==
  ASSUME IInv, IInv', PlacesInv, StatusInv, TakenInv, [Next]_vars PROVE TakenInv'
<1>1. CASE Resume
  <2>1. PICK f \in FlowID : CompleteTask(f) \/ TimerFires(f) \/ SendMessage(f) \/ SendSignal(f)
    BY <1>1 DEF Resume
  <2>2. /\ flows \in Seq(FlowRecord) /\ Completed(f) \in Seq(FlowRecord)
        /\ Len(Completed(f)) = Len(flows)
    BY CompletedType
  <2> QED
    BY <2>1, <2>2, ContinueTaken DEF CompleteTask, TimerFires, SendMessage, SendSignal
<1>2. ASSUME RunsOn, UNCHANGED <<pc, stored>> PROVE TakenInv'
  <2>1. pc' = "idle" \/ ~Quiescent' => Resumable'
    BY <1>2 DEF TakenInv, Resumable, Quiescent
  <2>2. faults' = 0 /\ Resumable' => faults = 0 /\ Resumable
    BY <1>2, FaultsGrow DEF Resumable
  <2> QED
    BY <1>2, <2>1, <2>2, RunsOnKeepsTaken
<1>3. CASE \E w \in Workers : Worker(w)
  BY <1>2, <1>3, WorkerRunsOn
<1>4. CASE Rest \/ Deadline \/ Cancel \/ UNCHANGED vars
  BY <1>2, <1>4, StillRunsOn DEF Rest, Deadline, Cancel, ContextEnds, vars, storeVars
<1> QED
  BY <1>1, <1>3, <1>4, LoopTaken, RunTaken DEF Next

LEMMA TakenInvariance == Spec => []TakenInv
<1>1. Init => TakenInv
  BY DEF Init, TakenInv, Resumable, IsValidTransition, ValidTransitions, State, FlowID
<1>2. IInv /\ IInv' /\ PlacesInv /\ StatusInv /\ TakenInv /\ [Next]_vars => TakenInv'
  BY NextTaken
<1> QED
  BY <1>1, <1>2, Invariance, StatusInvariance, JoinInvariance, PTL DEF Spec

\* What an interrupting message found open stays closed: whoever completes a task,
\* fires a timer or sends a message or a signal afterwards, in whatever order, no
\* worker opens a record of the activity again, and the loop it belonged to has no
\* flow left that could.
THEOREM InterruptedStaysClosed == Spec => []InterruptedIsClosed
<1>1. IInv /\ TakenInv => InterruptedIsClosed
  <2> SUFFICES ASSUME IInv, TakenInv, faults = 0, Resumable, NEW b \in FlowID, Taken(b)
               PROVE  \A i \in 1..b : Attached(i, b) => flows[i].status # "ACTIVE"
    BY DEF InterruptedIsClosed, Resumable, Taken, Attached
  <2> QED
    BY DEF TakenInv
<1> QED
  BY <1>1, Invariance, TakenInvariance, PTL

----------------------------------------------------------------------------
(* A case whose tasks meet: the gateway j counts a record for every task   *)
(* that is completed, so the run that the last of them starts passes it    *)
(* and reaches the end event z, alone.                                     *)

\* What TasksMeet says of the gateway and the end event it is about.
LeadsOn ==
  \A e \in Elements :
    \/ isEndEvent(e)
    \/ /\ Process[e].Outgoing # {}
       /\ Process[e].Filter # {} => Process[e].Filter \cap Process[e].Outgoing # {}

Meeting(j, z) ==
  /\ j \in Of("parallelGateway") /\ z \in Of("endEvent") /\ TasksMeetAt(j, z)
  /\ Of("userTask") # {} /\ \A t \in Of("userTask") : Process[t].AttachedToRef = None
  /\ LeadsOn

\* The way from the tasks to the end: at most one sequence flow before either.
Before(x) == {s \in Of("sequenceFlow") : Process[s].Outgoing = {x}}
Way(j, z) == Before(j) \cup {j} \cup Before(z) \cup {z}
Rank(e, j, z) ==
  IF e \in Before(j) THEN 1 ELSE IF e = j THEN 2 ELSE IF e \in Before(z) THEN 3 ELSE 4

\* The tasks that were completed once, and that all that were entered are.
DoneTasks ==
  {t \in Of("userTask") : \E i \in FlowID : flows[i].element = t /\ flows[i].status = "COMPLETED"}
AllDone ==
  /\ \A t \in Of("userTask") : \E i \in FlowID : flows[i].element = t
  /\ \A i \in FlowID : flows[i].element \in Of("userTask") => flows[i].status = "COMPLETED"

\* No element of the way from e on was counted in this run.
Fresh(e, j, z) == \A x \in Way(j, z) : Rank(e, j, z) <= Rank(x, j, z) => counts[x] = 0

\* The loop is about to create the record of x, and has nothing else to do.
Creating(x) ==
  pc = "create" /\ todo = {x} /\ ~forked /\ pending = 0 /\ Places \subseteq {0}

\* The newest record, of e, is all the work there is; once all tasks are done,
\* nobody answers it to wait.
Carried(e) ==
  /\ pc \in {"select", "send"} /\ flows # <<>> /\ flows[Len(flows)].element = e
  /\ pending = 1 /\ Places \subseteq {0, Len(flows)}
  /\ pc = "send" => todo = {}
  /\ AllDone => Waited = {}

Solo(e, j, z) ==
  /\ e \in Way(j, z)
  /\ istate = "IN_PROGRESS" /\ ~completed /\ errs = 0
  /\ Fresh(e, j, z)
  /\ Creating(e) \/ Carried(e)

\* The gateway's record of a task that was just completed is still to come.
Due(e, j) == IF e \in Before(j) \/ (e = j /\ pc = "create") THEN 1 ELSE 0

\* One flow alone is on its way to the end.
Alone(j, z) ==
  \E e \in Way(j, z) :
    /\ Solo(e, j, z)
    /\ Cardinality(DoneTasks) <= Cardinality(Records(j)) + Due(e, j)

\* Or the run has decided about the case, or tasks are left.
Settled(j) ==
  /\ AllDone => pc = "closing" /\ istate = "COMPLETED"
  /\ Cardinality(DoneTasks) <= Cardinality(Records(j))

\* A case that is not over can be taken up, and a loop that closes workCh has
\* decided about it.
Statuses ==
  /\ stored \in {"CREATED", "WAITING", "ERROR", "COMPLETED"}
  /\ ~Quiescent => /\ istate \in {"IN_PROGRESS", "WAITING", "COMPLETED", "ERROR"}
                   /\ completed => istate # "IN_PROGRESS"
  /\ pc = "idle" => ~completed
  /\ pc = "closing" => istate # "IN_PROGRESS"

MeetInv ==
  faults = 0 => \A j, z \in Elements : Meeting(j, z) =>
    Statuses /\ (stored # "COMPLETED" => Alone(j, z) \/ Settled(j))

LEMMA MeetingFacts ==
  ASSUME NEW j, NEW z, Meeting(j, z)
  PROVE  /\ j \in Elements /\ z \in Elements /\ j # z /\ Way(j, z) \subseteq Elements
         /\ Before(j) \cap Before(z) = {}
         /\ j \notin Before(j) \cup Before(z) /\ z \notin Before(j) \cup Before(z)
         /\ Process[j].Incoming \in Nat /\ Process[j].Incoming <= Cardinality(Of("userTask"))
         /\ Process[z].Filter = {}
         /\ \A e \in Way(j, z) : Process[e].Type # "userTask"
         /\ IsFiniteSet(Of("userTask"))
<1>1. j \in Elements /\ z \in Elements /\ Process[j].Type = "parallelGateway"
      /\ Process[z].Type = "endEvent"
  BY DEF Meeting, Of
<1>2. \A x : \A s \in Before(x) : s \in Elements /\ Process[s].Type = "sequenceFlow"
                                  /\ Process[s].Outgoing = {x}
  BY DEF Before, Of
<1>3. j # z /\ Way(j, z) \subseteq Elements
  BY <1>1, <1>2 DEF Way
<1>4. Before(j) \cap Before(z) = {}
  BY <1>2, <1>3
<1>5. j \notin Before(j) \cup Before(z) /\ z \notin Before(j) \cup Before(z)
  BY <1>1, <1>2
<1>6. Process[j].Incoming \in Nat
  BY <1>1, ProcessAssumption DEF Element
<1>7. Process[j].Incoming <= Cardinality(Of("userTask")) /\ Process[z].Filter = {}
  BY DEF Meeting, TasksMeetAt
<1>8. \A e \in Way(j, z) : Process[e].Type # "userTask"
  BY <1>1, <1>2 DEF Way
<1>9. IsFiniteSet(Of("userTask"))
  BY ProcessAssumption, FS_Subset DEF Of
<1> QED
  BY <1>1, <1>3, <1>4, <1>5, <1>6, <1>7, <1>8, <1>9

\* What leads to x leads to it by an element of the way.
LEMMA LeadsNext ==
  ASSUME NEW e, NEW x, LeadsTo(e, x)
  PROVE  \E y \in Before(x) \cup {x} : Process[e].Outgoing = {y}
BY DEF LeadsTo, Before

\* The way leads on.
LEMMA WayLeads ==
  ASSUME NEW j, NEW z, Meeting(j, z), NEW e \in Way(j, z), e # z
  PROVE  \E x \in Way(j, z) :
           /\ Process[e].Outgoing = {x} /\ Rank(e, j, z) < Rank(x, j, z)
           /\ e \in Before(j) => x = j
<1>1. CASE e \in Before(j)
  BY <1>1, MeetingFacts DEF Before, Way, Rank
<1>2. CASE e = j
  <2>1. LeadsTo(j, z)
    BY DEF Meeting, TasksMeetAt
  <2>2. PICK y \in Before(z) \cup {z} : Process[j].Outgoing = {y}
    BY <2>1, LeadsNext
  <2>3. y \in Way(j, z) /\ Rank(j, j, z) = 2 /\ Rank(y, j, z) \in {3, 4} /\ j \notin Before(j)
    BY <2>2, MeetingFacts DEF Way, Rank
  <2> QED
    BY <1>2, <2>2, <2>3
<1>3. CASE e \in Before(z)
  <2>1. Process[e].Outgoing = {z} /\ z \in Way(j, z) /\ e \notin Before(j)
    BY <1>3, MeetingFacts DEF Before, Way
  <2>2. Rank(e, j, z) = 3 /\ Rank(z, j, z) = 4
    BY <1>3, MeetingFacts DEF Rank
  <2> QED
    BY <2>1, <2>2
<1> QED
  BY <1>1, <1>2, <1>3 DEF Way

\* Its end answers that the case is complete; of the rest, only the gateway may
\* wait.
LEMMA WayAnswers ==
  ASSUME NEW j, NEW z, Meeting(j, z), NEW e \in Way(j, z)
  PROVE  /\ e = z => AnswersOf(e) = {Answer("COMPLETE", {})}
         /\ e = j => AnswersOf(e) \subseteq JoinAnswers
         /\ e # z /\ e # j => AnswersOf(e) = {Answer("ROUTE", {})}
<1>1. CASE e = z
  <2>1. Process[e].Type = "endEvent" /\ Process[e].Filter = {} /\ e # j
    BY <1>1, MeetingFacts DEF Meeting, Of
  <2>2. \A c : Execute(e, c) = {Answer("COMPLETE", {})}
    BY <2>1 DEF Execute, EndEvent
  <2> QED
    BY <1>1, <2>1, <2>2 DEF AnswersOf
<1>2. CASE e = j
  BY <1>2, JoinsAnswer, MeetingFacts DEF Meeting
<1>3. CASE e \in Before(j) \cup Before(z)
  <2>1. Process[e].Type = "sequenceFlow" /\ e # z /\ e # j
    BY <1>3, MeetingFacts DEF Before, Of
  <2>2. \A c : Execute(e, c) = {Answer("ROUTE", {})}
    BY <2>1 DEF Execute, SequenceFlow
  <2> QED
    BY <2>1, <2>2 DEF AnswersOf
<1> QED
  BY <1>1, <1>2, <1>3 DEF Way

\* A step of a run completes no task and removes no record.
LEMMA RunsOnTasks ==
  ASSUME IInv, IInv', RunsOn, NEW e
  PROVE  /\ DoneTasks' \subseteq DoneTasks /\ (AllDone' => AllDone)
         /\ Records(e) \subseteq Records(e)'
         /\ IsFiniteSet(DoneTasks) /\ IsFiniteSet(Records(e)')
<1>1. Len(flows) \in Nat /\ Len(flows') \in Nat /\ FlowID \subseteq FlowID'
  <2>1. flows \in Seq(FlowRecord) /\ flows' \in Seq(FlowRecord)
    BY DEF IInv, TypeOK, StoreType, FlowRecord, FlowStatus
  <2> QED
    BY <2>1, LenProperties DEF RunsOn, FlowID
<1>2. ASSUME NEW i \in FlowID', flows'[i].element \in Of("userTask"), flows'[i].status = "COMPLETED"
      PROVE  i \in FlowID /\ flows[i].status = "COMPLETED" /\ flows[i].element = flows'[i].element
  <2>1. i \in FlowID
    BY <1>2 DEF RunsOn
  <2>2. flows[i].element = flows'[i].element
    BY <2>1 DEF RunsOn
  <2>3. LeavesActive(flows[i].element)
    BY <1>2, <2>2 DEF LeavesActive, Of
  <2> QED
    BY <1>2, <2>1, <2>2, <2>3 DEF RunsOn
<1>3. DoneTasks' \subseteq DoneTasks
  BY <1>2 DEF DoneTasks
<1>4. AllDone' => AllDone
  <2> SUFFICES ASSUME AllDone' PROVE AllDone
    OBVIOUS
  <2>1. ASSUME NEW t \in Of("userTask") PROVE \E i \in FlowID : flows[i].element = t
    <3>1. PICK i \in FlowID' : flows'[i].element = t
      BY DEF AllDone
    <3>2. flows'[i].status = "COMPLETED"
      BY <3>1 DEF AllDone
    <3> QED
      BY <1>2, <3>1, <3>2
  <2>2. ASSUME NEW i \in FlowID, flows[i].element \in Of("userTask")
        PROVE  flows[i].status = "COMPLETED"
    <3>1. i \in FlowID' /\ flows'[i].element = flows[i].element
      BY <1>1 DEF RunsOn
    <3>2. flows'[i].status = "COMPLETED"
      BY <2>2, <3>1 DEF AllDone
    <3> QED
      BY <1>2, <2>2, <3>1, <3>2
  <2> QED
    BY <2>1, <2>2 DEF AllDone
<1>5. Records(e) \subseteq Records(e)'
  BY <1>1 DEF Records, RunsOn
<1>6. IsFiniteSet(DoneTasks) /\ IsFiniteSet(Records(e)')
  <2>1. IsFiniteSet(Of("userTask")) /\ DoneTasks \subseteq Of("userTask")
    BY ProcessAssumption, FS_Subset DEF Of, DoneTasks
  <2>2. IsFiniteSet(FlowID') /\ Records(e)' \subseteq FlowID'
    BY <1>1, FS_Interval DEF FlowID, Records
  <2> QED
    BY <2>1, <2>2, FS_Subset
<1> QED
  BY <1>3, <1>4, <1>5, <1>6

\* In numbers.
LEMMA RunsOnCounts ==
  ASSUME IInv, IInv', RunsOn, NEW e
  PROVE  /\ Cardinality(DoneTasks) \in Nat /\ Cardinality(DoneTasks') \in Nat
         /\ Cardinality(Records(e)) \in Nat /\ Cardinality(Records(e)') \in Nat
         /\ Cardinality(DoneTasks') <= Cardinality(DoneTasks)
         /\ Cardinality(Records(e)) <= Cardinality(Records(e)')
<1>1. IsFiniteSet(DoneTasks) /\ DoneTasks' \subseteq DoneTasks
      /\ Records(e) \subseteq Records(e)' /\ IsFiniteSet(Records(e)')
  BY RunsOnTasks
<1>2. /\ IsFiniteSet(DoneTasks') /\ Cardinality(DoneTasks') <= Cardinality(DoneTasks)
      /\ IsFiniteSet(Records(e)) /\ Cardinality(Records(e)) <= Cardinality(Records(e)')
  BY <1>1, FS_Subset
<1> QED
  BY <1>1, <1>2, FS_CardinalityType

\* A run that has settled stays so, until it ends.
LEMMA SettledRunsOn ==
  ASSUME IInv, IInv', RunsOn, NEW j, Settled(j),
         pc = "closing" /\ istate = "COMPLETED" => UNCHANGED <<pc, istate>>
  PROVE  Settled(j)'
<1>1. AllDone' => AllDone
  BY RunsOnTasks
<1>2. Cardinality(DoneTasks') <= Cardinality(Records(j)')
  BY RunsOnCounts DEF Settled
<1> QED
  BY <1>1, <1>2 DEF Settled

\* All tasks are done, so there are as many records of the gateway as tasks.
LEMMA AllDoneCount ==
  ASSUME NEW j, NEW z, Meeting(j, z), AllDone, IInv,
         Cardinality(DoneTasks) <= Cardinality(Records(j))
  PROVE  Process[j].Incoming <= Cardinality(Records(j))
<1>1. DoneTasks = Of("userTask")
  BY DEF DoneTasks, AllDone
<1>2. Process[j].Incoming \in Nat /\ Process[j].Incoming <= Cardinality(Of("userTask"))
      /\ Cardinality(Of("userTask")) \in Nat
  BY MeetingFacts, FS_CardinalityType
<1>3. Cardinality(Records(j)) \in Nat
  BY RecordsFinite
<1> QED
  BY <1>1, <1>2, <1>3

----------------------------------------------------------------------------
(* The flow that is alone, step by step.                                   *)

\* A flow that waits is in one of the places.
LEMMA WaitedPlaces ==
  ASSUME IInv PROVE Waited \subseteq Places \ {0}
<1>1. ASSUME NEW w \in Workers, wpc[w] = "sending" PROVE holds[w] \in Places \ {0}
  BY <1>1 DEF IInv, HoldsInv, Places, Held
<1>2. ASSUME NEW i \in 1..Len(resultCh) PROVE resultCh[i].flow \in Places \ {0}
  <2>1. Len(resultCh) \in Nat /\ Len(FlowsOf(resultCh)) = Len(resultCh)
        /\ FlowsOf(resultCh)[i] = resultCh[i].flow
    BY ChannelFacts, LenProperties, FlowsOfTail DEF FlowsOf
  <2>2. resultCh[i].flow \in InChannels
    BY <2>1 DEF InChannels, Members
  <2> QED
    BY <2>2, ChannelFacts DEF Places
<1> QED
  BY <1>1, <1>2 DEF Waited

LEMMA SoloWorker ==
  ASSUME IInv, IInv', PlacesInv, AnswersInv, Kept(flows, flows'), faults = 0, faults' = 0,
         NEW w \in Workers, Worker(w), NEW j, NEW z, Meeting(j, z), NEW e \in Way(j, z),
         Solo(e, j, z), Cardinality(DoneTasks) <= Cardinality(Records(j)) + Due(e, j)
  PROVE  /\ Solo(e, j, z)'
         /\ Cardinality(DoneTasks') <= Cardinality(Records(j)') + Due(e, j)'
<1>1. RunsOn /\ UNCHANGED <<pc, istate, completed, errs, counts, todo, forked, pending>>
  BY WorkerRunsOn DEF Worker, Take, ExecuteElement, Deliver, Leave, instVars
<1>2. Places' \cup {0} = Places \cup {0} /\ Len(flows) \in Nat
  BY WorkerPlaces, LenProperties DEF IInv, TypeOK, StoreType
<1>3. Len(flows') = Len(flows)
  BY ExecuteLen DEF Worker, Take, Deliver, Leave, storeVars
<1>4. Cardinality(DoneTasks') <= Cardinality(Records(j)') + Due(e, j)'
  <2>1. Due(e, j)' = Due(e, j) /\ Due(e, j) \in Nat
    BY <1>1 DEF Due
  <2> QED
    BY <1>1, <2>1, RunsOnCounts
<1>5. AllDone' => AllDone
  BY <1>1, RunsOnTasks
<1>6. Fresh(e, j, z)'
  BY <1>1 DEF Solo, Fresh
<1>7. ASSUME Creating(e) PROVE Creating(e)'
  BY <1>1, <1>2, <1>7 DEF Creating
<1>8. ASSUME Carried(e) PROVE Carried(e)'
  <2>1. Len(flows) # 0 /\ Len(flows) \in FlowID /\ flows[Len(flows)].element = e
    BY <1>2, <1>8, EmptySeq DEF Carried, FlowID, IInv, TypeOK, StoreType
  <2>2. flows' # <<>> /\ flows'[Len(flows')].element = e
    BY <1>3, <2>1, EmptySeq DEF Kept, FlowID
  <2>3. ASSUME AllDone' PROVE Waited' = {}
    <3>1. Waited = {} /\ AllDone
      BY <1>5, <1>8, <2>3 DEF Carried
    <3> SUFFICES ASSUME ExecuteElement(w), holds[w] \in FlowID, answer'[w].Action = "WAIT"
                 PROVE  FALSE
      BY <3>1, WorkerWaits
    <3>2. flows[holds[w]].element = e
      <4>1. holds[w] \in Places /\ holds[w] # 0
        BY DEF Places, Held, FlowID
      <4> QED
        BY <1>8, <2>1, <4>1 DEF Carried
    <3>3. answer'[w] \in AnswersOf(e)
      <4>1. AllIncomingComplete(e) \in BOOLEAN /\ answer \in [Workers -> ExecutionResult]
        BY DEF AllIncomingComplete, IInv, TypeOK, PoolType
      <4>2. answer'[w] \in Execute(e, AllIncomingComplete(e)) \cup Execute(e, FALSE)
        BY <3>2, <4>1 DEF ExecuteElement
      <4> QED
        BY <4>1, <4>2, ExecuteAnswers
    <3>4. e = j
      BY <3>3, WayAnswers DEF Answer
    <3>5. Due(e, j) = 0
      BY <1>8, <3>4, MeetingFacts DEF Due, Carried
    <3>6. Cardinality(Records(j)) \in Nat /\ Process[j].Incoming \in Nat
      BY RecordsFinite, MeetingFacts
    <3>7. Process[j].Incoming <= Cardinality(Records(j))
      BY <1>1, <3>1, <3>5, <3>6, RunsOnCounts, AllDoneCount
    <3>8. Cardinality(Records(j)) < Process[j].Incoming
      BY <3>2, <3>4, <3>6, WaitsShort DEF Meeting
    <3> QED
      BY <3>6, <3>7, <3>8
  <2>4. Places' \subseteq {0, Len(flows')}
    <3>1. \A p \in Places' : p \in Places \cup {0}
      BY <1>2
    <3>2. \A p \in Places : p \in {0, Len(flows')}
      BY <1>3, <1>8 DEF Carried
    <3> QED
      BY <3>1, <3>2
  <2>5. pc' \in {"select", "send"} /\ pending' = 1 /\ (pc' = "send" => todo' = {})
    BY <1>1, <1>8 DEF Carried
  <2> QED
    BY <2>2, <2>3, <2>4, <2>5 DEF Carried
<1> QED
  BY <1>1, <1>4, <1>6, <1>7, <1>8 DEF Solo

\* The record of e is created.
LEMMA SoloCreates ==
  ASSUME IInv, IInv', PlacesInv, faults = 0, faults' = 0, CreateFlow,
         NEW j, NEW z, Meeting(j, z), NEW e \in Way(j, z),
         Solo(e, j, z), Cardinality(DoneTasks) <= Cardinality(Records(j)) + Due(e, j)
  PROVE  Alone(j, z)'
<1>1. pc = "create" /\ Creating(e)
  BY DEF CreateFlow, Solo, Carried
<1>2. PICK thread :
        /\ flows' = Append(flows, CreateFlowRecord(e, thread))
        /\ pending' = 1 /\ scheduled' = scheduled \cup {Len(flows) + 1}
        /\ todo' = {} /\ pc' = "send"
        /\ UNCHANGED <<poolVars, counts, workCh, resultCh, istate, completed, errs>>
  BY <1>1 DEF CreateFlow, StoreFails, CallFails, Creating
<1>3. /\ flows \in Seq(FlowRecord) /\ Len(flows) \in Nat
      /\ Len(flows') = Len(flows) + 1 /\ flows'[Len(flows')].element = e
      /\ \A i \in 1..Len(flows) : flows'[i] = flows[i]
  BY <1>2, LenProperties, AppendProperties DEF IInv, TypeOK, StoreType, CreateFlowRecord
<1>4. flows' # <<>>
  BY <1>3, EmptySeq
<1>5. Places' = Places \cup {Len(flows')}
  BY <1>1, <1>2, <1>3, CreatePlaces DEF poolVars
<1>6. Waited' = {}
  <2>1. Waited = {}
    BY <1>1, WaitedPlaces DEF Creating
  <2> QED
    BY <1>2, <2>1 DEF Waited, poolVars
<1>7. Places' \subseteq {0, Len(flows')}
  BY <1>1, <1>5 DEF Creating
<1>8. Solo(e, j, z)'
  <2>1. Carried(e)'
    BY <1>2, <1>3, <1>4, <1>6, <1>7 DEF Carried
  <2>2. Fresh(e, j, z)'
    BY <1>2 DEF Solo, Fresh
  <2> QED
    BY <1>2, <2>1, <2>2 DEF Solo
<1>9. RunsOn
  BY LoopRunsOn DEF Loop, HandleResult
<1>10. Cardinality(DoneTasks') <= Cardinality(Records(j)') + Due(e, j)'
  <2>1. CASE e = j
    <3>1. Records(j)' = Records(j) \cup {Len(flows')} /\ Len(flows') \notin Records(j)
      BY <1>3, <2>1 DEF Records, FlowID
    <3>2. Cardinality(Records(j)') = Cardinality(Records(j)) + 1
      BY <3>1, RecordsFinite, FS_AddElement
    <3>3. Due(e, j) = 1 /\ Due(e, j)' = 0
      BY <1>1, <1>2, <2>1, MeetingFacts DEF Due
    <3> QED
      BY <1>9, <3>2, <3>3, RunsOnCounts
  <2>2. CASE e # j
    <3>1. Due(e, j)' = Due(e, j) /\ Due(e, j) \in Nat
      BY <2>2 DEF Due
    <3> QED
      BY <1>9, <3>1, RunsOnCounts
  <2> QED
    BY <2>1, <2>2
<1> QED
  BY <1>8, <1>10 DEF Alone

\* It is sent.
LEMMA SoloSends ==
  ASSUME IInv, IInv', PlacesInv, LiveInv, faults = 0, SendFlow,
         NEW j, NEW z, NEW e \in Way(j, z),
         Solo(e, j, z), Cardinality(DoneTasks) <= Cardinality(Records(j)) + Due(e, j)
  PROVE  Alone(j, z)'
<1>1. pc = "send" /\ Carried(e) /\ ctx = "live"
  BY DEF SendFlow, Solo, Creating, LiveInv, Quiescent
<1>2. /\ workCh' = Append(workCh, Len(flows)) /\ pc' = "select" /\ pending' = 1
      /\ UNCHANGED <<flows, resultCh, poolVars, scheduled, istate, completed, errs, counts>>
  BY <1>1 DEF SendFlow, Handled, Carried, storeVars, instVars
<1>3. Places' = Places
  BY <1>1, <1>2, SendPlaces DEF poolVars
<1>4. Waited' = Waited /\ AllDone' = AllDone /\ DoneTasks' = DoneTasks /\ Records(j)' = Records(j)
  BY <1>2 DEF Waited, AllDone, DoneTasks, Records, FlowID, poolVars
<1>5. Carried(e)'
  BY <1>1, <1>2, <1>3, <1>4 DEF Carried
<1>6. Due(e, j)' = Due(e, j)
  BY <1>1, <1>2 DEF Due
<1>7. Fresh(e, j, z)'
  BY <1>2 DEF Solo, Fresh
<1>8. Solo(e, j, z)'
  BY <1>2, <1>5, <1>7 DEF Solo
<1> QED
  BY <1>4, <1>6, <1>8 DEF Alone

\* It is routed on to the one element that follows.
LEMMA SoloRoutes ==
  ASSUME IInv, IInv', HandleRoute, NEW j, NEW z, Meeting(j, z), NEW e \in Way(j, z),
         Solo(e, j, z), Cardinality(DoneTasks) <= Cardinality(Records(j)) + Due(e, j),
         e # z, element = e, result.ans = Answer("ROUTE", {}), Places' \subseteq {0}
  PROVE  Alone(j, z)'
<1>1. pc = "select" /\ pending = 1
  BY DEF HandleRoute, Received, Solo, Creating, Carried
<1>2. PICK x \in Way(j, z) :
        /\ Process[e].Outgoing = {x} /\ Rank(e, j, z) < Rank(x, j, z)
        /\ e \in Before(j) => x = j
  BY WayLeads
<1>3. Route(e, result.ans) = {x}
  BY <1>2 DEF Route, Answer
<1>4. Cardinality({x}) = 1
  BY FS_Singleton
<1>5. /\ pending' = 0 /\ pc' = "create" /\ todo' = {x} /\ ~forked'
      /\ UNCHANGED <<istate, completed, errs>>
      /\ counts' = [counts EXCEPT ![e] = @ + 1]
  <2>1. Enqueuing(current, {x}, FALSE) /\ UNCHANGED <<instVars, errs>>
    <3>1. Route(element, result.ans) = {x} /\ {x} # {}
      BY <1>3
    <3>2. (Cardinality({x}) > 1) = FALSE
      BY <1>4
    <3> QED
      BY <3>1, <3>2 DEF HandleRoute
  <2>2. counts' = [counts EXCEPT ![e] = @ + 1]
    BY DEF HandleRoute, Received
  <2> QED
    BY <1>1, <2>1, <2>2 DEF Enqueuing, instVars
<1>6. Fresh(x, j, z)'
  <2> SUFFICES ASSUME NEW y \in Way(j, z), Rank(x, j, z) <= Rank(y, j, z) PROVE counts'[y] = 0
    BY DEF Fresh
  <2>1. \A u : Rank(u, j, z) \in Nat
    BY DEF Rank
  <2>2. y # e /\ Rank(e, j, z) <= Rank(y, j, z)
    BY <1>2, <2>1
  <2>3. counts[y] = 0 /\ y \in Elements /\ counts \in [Elements -> Nat]
    BY <2>2, MeetingFacts DEF Solo, Fresh, IInv, TypeOK, CounterType
  <2> QED
    BY <1>5, <2>2, <2>3
<1>7. Solo(x, j, z)'
  BY <1>5, <1>6 DEF Solo, Creating
<1>8. RunsOn
  BY LoopRunsOn DEF Loop, HandleResult
<1>9. Due(e, j) \in {0, 1} /\ Due(x, j)' \in {0, 1} /\ (Due(e, j) = 1 => Due(x, j)' = 1)
  BY <1>1, <1>2, <1>5 DEF Due
<1>10. Cardinality(DoneTasks') <= Cardinality(Records(j)') + Due(x, j)'
  BY <1>8, <1>9, RunsOnCounts
<1> QED
  BY <1>7, <1>10 DEF Alone

\* What the loop does with the flow that is alone: it goes on, or the run has
\* decided about the case.
LEMMA SoloLoop ==
  ASSUME IInv, IInv', PlacesInv, AnswersInv, LiveInv, faults = 0, faults' = 0, Loop,
         NEW j, NEW z, Meeting(j, z), NEW e \in Way(j, z),
         Solo(e, j, z), Cardinality(DoneTasks) <= Cardinality(Records(j)) + Due(e, j)
  PROVE  Alone(j, z)' \/ Settled(j)'
<1>1. ctx = "live" /\ pc \in {"create", "select", "send"} /\ errs = 0 /\ istate = "IN_PROGRESS"
      /\ ~completed
  BY DEF Solo, Creating, Carried, LiveInv, Quiescent
<1>2. CASE CreateFlow \/ SendFlow
  BY <1>2, SoloCreates, SoloSends
<1>3. ~ContextDone /\ ~ErrorReceived /\ ~Finalize /\ ~FailSafeReturn /\ ~ContextReturn
  BY <1>1 DEF ContextDone, ErrorReceived, Finalize, FailSafeReturn, ContextReturn
<1>4. CASE ~CreateFlow /\ ~SendFlow
  <2>1. Receives /\ Carried(e) /\ pending = 1
    BY <1>3, <1>4, LoopReceives DEF Receives, Solo, Creating, Carried
  <2>2. /\ current \in FlowID /\ current # 0 /\ element \in Elements
        /\ current \notin Places' /\ Places = Places' \cup {current}
    BY <2>1, ResultFacts, ReceivePlaces DEF Receives
  <2>3. current = Len(flows) /\ element = e /\ Places' \subseteq {0}
    BY <2>1, <2>2 DEF Carried, element
  <2>4. result.ans \in AnswersOf(e) /\ resultCh # <<>>
    BY <2>1, <2>3, ResultAnswers DEF Receives
  <2>5. ~FailSafe
    <3>1. Rank(e, j, z) <= Rank(e, j, z)
      BY DEF Rank
    <3>2. counts[element] = 0
      BY <2>3, <3>1 DEF Solo, Fresh
    <3> QED
      BY <1>1, <3>2, EngineAssumption DEF FailSafe
  <2>6. RunsOn
    BY LoopRunsOn
  <2>7. Due(e, j) = 0 => Cardinality(DoneTasks') <= Cardinality(Records(j)')
    BY <2>6, RunsOnCounts
  <2>8. CASE result.ans = Answer("ROUTE", {})
    <3>1. HandleRoute
      BY <1>3, <1>4, <2>5, <2>8 DEF Loop, HandleResult, HandleWait, HandleError,
         HandleComplete, HandleThrowError, HandleTerminate, HandleCallActivity, HandleQueue,
         Received, Answer
    <3>2. e # z
      BY <2>4, <2>8, WayAnswers DEF Answer
    <3> QED
      BY <2>3, <2>8, <3>1, <3>2, SoloRoutes
  <2>9. CASE result.ans = Answer("COMPLETE", {})
    <3>1. HandleComplete
      BY <1>3, <1>4, <2>5, <2>9 DEF Loop, HandleResult, HandleWait, HandleError,
         HandleRoute, HandleThrowError, HandleTerminate, HandleCallActivity, HandleQueue,
         Received, Answer
    <3>2. e = z
      BY <2>4, <2>9, WayAnswers DEF Answer, JoinAnswers
    <3>3. Due(e, j) = 0
      BY <1>1, <2>1, <3>2, MeetingFacts DEF Due, Receives
    <3>4. pc' = "closing" /\ istate' = "COMPLETED"
      BY <1>1, <2>1, <3>1 DEF HandleComplete, TryComplete, Handled, IsValidTransition,
         ValidTransitions, State
    <3> QED
      BY <2>7, <3>3, <3>4 DEF Settled
  <2>10. CASE result.ans = Answer("WAIT", {})
    <3>1. e = j
      BY <2>4, <2>10, WayAnswers DEF Answer
    <3>2. Due(e, j) = 0
      BY <2>1, <3>1, MeetingFacts DEF Due, Receives
    <3>3. current \in Waited
      <4>1. 1 \in 1..Len(resultCh) /\ result = resultCh[1]
        BY <2>4, ChannelFacts, HeadTailProperties, EmptySeq DEF result
      <4> QED
        BY <2>10, <4>1 DEF Waited, current, Answer
    <3>4. ~AllDone'
      BY <2>1, <2>6, <3>3, RunsOnTasks DEF Carried
    <3> QED
      BY <2>7, <3>2, <3>4 DEF Settled
  <2> QED
    BY <2>4, <2>8, <2>9, <2>10, WayAnswers DEF JoinAnswers
<1> QED
  BY <1>2, <1>4

----------------------------------------------------------------------------
(* The statuses.                                                           *)

\* Only an end event has nowhere to route to.
LEMMA RouteLeads ==
  ASSUME LeadsOn, NEW e \in Elements, NEW a \in AnswersOf(e), a.Action \in {"ROUTE", "QUEUE"},
         Route(e, a) = {}
  PROVE  isEndEvent(e) /\ a.Action = "ROUTE"
<1>1. PICK c \in BOOLEAN : a \in Execute(e, c)
  BY DEF AnswersOf
<1>2. Process[e] \in Element /\ Process[e].Type \in ElementType
  BY ProcessAssumption DEF Element
<1>3. CASE Process[e].Type \in {"endEvent", "terminateEvent"}
  BY <1>1, <1>3 DEF isEndEvent, Execute, EndEvent, TerminateEvent, Answer
<1>4. CASE Process[e].Type = "errorEnd"
  BY <1>1, <1>4 DEF Execute, ErrorEndEvent, Answer
<1>5. CASE Process[e].Type \notin {"endEvent", "terminateEvent", "errorEnd"}
  <2>1. /\ Process[e].Outgoing # {}
        /\ Process[e].Filter # {} => Process[e].Filter \cap Process[e].Outgoing # {}
    BY <1>5 DEF LeadsOn, isEndEvent
  <2>2. a.FlowFilters = {} \/ Process[e].Outgoing \cap a.FlowFilters # {}
    <3>1. CASE Process[e].Type = "exclusiveGateway"
      BY <1>1, <3>1 DEF Execute, ExclusiveGateway, Answer
    <3>2. CASE Process[e].Type = "inclusiveGateway"
      <4>1. Execute(e, c) = InclusiveGateway(e)
        BY <3>2 DEF Execute
      <4> QED
        BY <1>1, <4>1 DEF InclusiveGateway, Answer
    <3>3. CASE Process[e].Type = "subProcess"
      <4>1. Execute(e, c) = SubProcess(e)
        BY <3>3 DEF Execute
      <4> QED
        BY <1>1, <2>1, <4>1 DEF SubProcess, Answer
    <3>4. CASE Process[e].Type \notin {"exclusiveGateway", "inclusiveGateway", "subProcess"}
      <4>1. a.FlowFilters = {}
        BY <1>1, <1>2, <1>5, <3>4 DEF Execute, ElementType, StartEvent, SequenceFlow,
           ErrorCatchEvent, ThrowEvent, CatchEvent, TimerEvent, ParallelGateway,
           EventBasedGateway, UserTask, ServiceTask, ScriptTask, AITask, CallActivity, Answer
      <4> QED
        BY <4>1
    <3> QED
      BY <3>1, <3>2, <3>3, <3>4
  <2> QED
    BY <2>1, <2>2 DEF Route
<1> QED
  BY <1>3, <1>4, <1>5

LEMMA LoopStatuses ==
  ASSUME IInv, IInv', AnswersInv, LiveInv, LeadsOn, Statuses, faults = 0, faults' = 0, Loop
  PROVE  Statuses'
<1> USE DEF Quiescent, Statuses, storeVars, instVars
<1>1. CASE HandleRoute
  <2>1. /\ element \in Elements /\ result.ans \in AnswersOf(element)
        /\ result.ans.Action = "ROUTE"
    BY <1>1, ResultFacts, ResultAnswers DEF HandleRoute, Received
  <2>2. CASE Route(element, result.ans) # {}
    BY <1>1, <2>2 DEF HandleRoute, Enqueuing, Received
  <2>3. CASE Route(element, result.ans) = {}
    <3>1. isEndEvent(element)
      BY <2>1, <2>3, RouteLeads
    <3>2. TryComplete /\ Handled(current, pending - 1) /\ UNCHANGED stored /\ pc = "select"
      BY <1>1, <2>3, <3>1 DEF HandleRoute, Received
    <3> QED
      BY <3>2 DEF TryComplete, Handled, IsValidTransition, ValidTransitions, State
  <2> QED
    BY <2>2, <2>3
<1>2. CASE HandleWait
  BY <1>2 DEF HandleWait, Handled, Failed, Return
<1>3. CASE HandleError
  BY <1>3 DEF HandleError, Failed, Return
<1>4. CASE HandleComplete
  BY <1>4 DEF HandleComplete, TryComplete, Handled, Received, IsValidTransition,
     ValidTransitions, State
<1>5. CASE HandleThrowError
  BY <1>5 DEF HandleThrowError, Handled, Enqueuing, Failed, Return, Received
<1>6. CASE HandleTerminate
  BY <1>6 DEF HandleTerminate, Failed, Return
<1>7. CASE HandleCallActivity
  BY <1>7 DEF HandleCallActivity, Enqueuing, Failed, Return, Received
<1>8. CASE HandleQueue
  <2>1. /\ element \in Elements /\ result.ans \in AnswersOf(element)
        /\ result.ans.Action = "QUEUE"
    BY <1>8, ResultFacts, ResultAnswers DEF HandleQueue, Received
  <2>2. Route(element, result.ans) # {}
    BY <2>1, RouteLeads
  <2> QED
    BY <1>8, <2>2 DEF HandleQueue, Enqueuing, Received
<1>9. CASE CreateFlow
  BY <1>9 DEF CreateFlow, Return
<1>10. CASE SendFlow
  <2>1. pending # 0
    <3>1. /\ Len(workCh) \in Nat /\ Len(resultCh) \in Nat /\ Cardinality(Busy) \in Nat
      BY ChannelFacts, LenProperties, BusyFinite
    <3> QED
      BY <1>10, <3>1 DEF SendFlow, IInv, PendingAccount
  <2> QED
    BY <1>10, <2>1 DEF SendFlow, Handled, Return
<1>11. CASE FailSafe
  BY <1>11 DEF FailSafe
<1>12. CASE ContextDone \/ ErrorReceived
  BY <1>12 DEF ContextDone, ErrorReceived, Return
<1>13. CASE Finalize
  BY <1>13 DEF Finalize, Return
<1>14. CASE FailSafeReturn \/ ContextReturn
  BY <1>14 DEF FailSafeReturn, ContextReturn, Return
<1> QED
  BY <1>1, <1>2, <1>3, <1>4, <1>5, <1>6, <1>7, <1>8, <1>9, <1>10, <1>11, <1>12, <1>13, <1>14
  DEF Loop, HandleResult

----------------------------------------------------------------------------
(* A resumption.                                                           *)

\* A task is completed, or an event interrupts it.
Meets(e) ==
  \/ Process[e].Type = "userTask"
  \/ Process[e].AttachedToRef \in Of("userTask") /\ Process[e].CancelActivity

\* A new loop for one element has that one record to work on.
LEMMA OneRecord ==
  ASSUME IInv, IInv', NEW x \in Elements, NEW table \in Seq(FlowRecord), Len(table) = Len(flows),
         NEW thread \in Nat, NEW s \in Orders({x}), flows' = table \o FlowRecords(s, thread),
         BeginLoop([i \in DOMAIN s |-> Len(flows) + i])
  PROVE  Carried(x)' /\ Len(flows') = Len(flows) + 1
<1>1. Cardinality({x}) = 1
  BY FS_Singleton
<1>2. DOMAIN s = 1..1 /\ s[1] = x
  <2>1. s \in [1..1 -> {x}]
    BY <1>1 DEF Orders
  <2> QED
    BY <2>1
<1> DEFINE recs == FlowRecords(s, thread)
<1>3. recs \in Seq(FlowRecord) /\ Len(recs) = 1 /\ recs[1].element = x
  <2>1. {x} \subseteq Elements
    OBVIOUS
  <2>2. recs \in Seq(FlowRecord) /\ Len(recs) = 1
    BY <1>1, <2>1, FlowRecordsType
  <2>3. recs[1] = CreateFlowRecord(x, thread)
    BY <1>2 DEF FlowRecords
  <2> QED
    BY <2>2, <2>3 DEF CreateFlowRecord
<1>4. flows' = table \o recs
  OBVIOUS
<1> HIDE DEF recs
<1>5. Len(flows) \in Nat /\ Len(flows') = Len(flows) + 1 /\ flows'[Len(flows')].element = x
  <2>1. Len(flows) \in Nat
    BY LenProperties DEF IInv, TypeOK, StoreType
  <2>2. /\ Len(flows') = Len(flows) + 1
        /\ \A i \in 1..Len(flows) + 1 :
             flows'[i] = IF i <= Len(flows) THEN table[i] ELSE recs[i - Len(flows)]
    <3>1. /\ Len(table \o recs) = Len(table) + Len(recs)
          /\ \A i \in 1..Len(table) + Len(recs) :
               (table \o recs)[i] = IF i <= Len(table) THEN table[i] ELSE recs[i - Len(table)]
      BY <1>3, ConcatProperties, ZenonT(30)
    <3> QED
      BY <1>3, <1>4, <2>1, <3>1
  <2>3. flows'[Len(flows) + 1] = recs[1]
    <3>1. /\ Len(flows) + 1 \in 1..Len(flows) + 1 /\ ~(Len(flows) + 1 <= Len(flows))
          /\ (Len(flows) + 1) - Len(flows) = 1
      BY <2>1
    <3> QED
      BY <2>2, <3>1
  <2> QED
    BY <1>3, <2>1, <2>2, <2>3
<1>6. flows' # <<>>
  BY <1>5, EmptySeq
<1> DEFINE items == [i \in 1..1 |-> Len(flows) + i]
<1>7. BeginLoop(items) /\ Len(items) = 1 /\ \A i \in 1..1 : items[i] = Len(flows')
  BY <1>2, <1>5
<1> HIDE DEF items
<1>8. /\ workCh' = items /\ resultCh' = <<>> /\ pc' = "select" /\ pending' = 1
      /\ \A w \in Workers : holds'[w] = 0 /\ wpc'[w] = "idle"
  BY <1>7 DEF BeginLoop
<1>9. Places' \subseteq {0, Len(flows')}
  <2>1. FlowsOf(resultCh') = <<>>
    BY <1>8 DEF FlowsOf
  <2>2. Members(workCh') \subseteq {Len(flows')} /\ Members(FlowsOf(resultCh')) = {}
    BY <1>7, <1>8, <2>1, NoMembers DEF Members
  <2>3. Held' \subseteq {0}
    BY <1>8 DEF Held
  <2> QED
    BY <1>8, <2>2, <2>3 DEF Places, InChannels
<1>10. Waited' = {}
  BY <1>8, EmptySeq DEF Waited
<1> QED
  BY <1>5, <1>6, <1>8, <1>9, <1>10 DEF Carried

\* What a resumption does to the tasks: it completes the one it is about, if any.
LEMMA ResumedTasks ==
  ASSUME IInv, IInv', NEW f \in FlowID, NEW table \in {flows, Completed(f)},
         table \in Seq(FlowRecord), Len(table) = Len(flows), Resumes(CancelAttached(f, table)),
         \A t \in Of("userTask") : Process[t].AttachedToRef = None,
         Process[flows[f].element].Type # "userTask" \/ table = Completed(f)
  PROVE  /\ \E t : DoneTasks' \subseteq DoneTasks \cup {t}
         /\ ~Meets(flows[f].element) => DoneTasks' \subseteq DoneTasks /\ (AllDone' => AllDone)
         /\ \A x : Records(x) \subseteq Records(x)'
<1> DEFINE t == CancelAttached(f, table)
           e == flows[f].element
<1>1. \A i \in FlowID :
        /\ flows[i] \in FlowRecord /\ flows[f] \in FlowRecord
        /\ table[i].status = IF i = f /\ table = Completed(f) THEN "COMPLETED" ELSE flows[i].status
        /\ t[i].element = flows[i].element
        /\ t[i].status = IF Interrupts(e, flows[i].element) /\ table[i].status = "ACTIVE"
                         THEN "COMPLETED" ELSE table[i].status
  BY ResumedRecords
<1>2. /\ \A i \in FlowID : flows'[i] = t[i]
      /\ \A i \in FlowID' \ FlowID : flows'[i].status = "ACTIVE"
      /\ FlowID \subseteq FlowID'
  <2>1. Len(flows) \in Nat /\ Len(flows') \in Nat
    BY LenProperties DEF IInv, TypeOK, StoreType
  <2> QED
    BY <2>1 DEF Resumes, FlowID
<1> HIDE DEF t
<1>3. e \in Elements
  BY <1>1 DEF FlowRecord
<1>4. ASSUME NEW i \in FlowID', flows'[i].element \in Of("userTask"), flows'[i].status = "COMPLETED"
      PROVE  /\ i \in FlowID /\ flows[i].element = flows'[i].element
             /\ \/ flows[i].status = "COMPLETED"
                \/ Meets(e) /\ flows[i].element = IF e \in Of("userTask") THEN e ELSE Process[e].AttachedToRef
  <2>1. i \in FlowID /\ flows[i].element = flows'[i].element
    BY <1>1, <1>2, <1>4
  <2>2. CASE flows[i].status = "COMPLETED"
    BY <2>1, <2>2
  <2>3. CASE flows[i].status # "COMPLETED" /\ table[i].status = "COMPLETED"
    <3>1. flows[i].element = e
      BY <1>1, <2>1, <2>3
    <3> QED
      BY <1>4, <2>1, <3>1 DEF Meets, Of
  <2>4. CASE flows[i].status # "COMPLETED" /\ table[i].status # "COMPLETED"
    <3>1. Interrupts(e, flows[i].element)
      BY <1>1, <1>2, <1>4, <2>1, <2>4
    <3>2. e \notin Of("userTask")
      BY <3>1 DEF Interrupts
    <3> QED
      BY <1>4, <2>1, <3>1, <3>2 DEF Meets, Interrupts
  <2> QED
    BY <2>2, <2>3, <2>4
<1>5. DoneTasks' \subseteq DoneTasks \cup {IF e \in Of("userTask") THEN e ELSE Process[e].AttachedToRef}
  BY <1>4 DEF DoneTasks
<1>6. ASSUME ~Meets(e) PROVE DoneTasks' \subseteq DoneTasks /\ (AllDone' => AllDone)
  <2>1. DoneTasks' \subseteq DoneTasks
    BY <1>4, <1>6 DEF DoneTasks
  <2>2. ASSUME AllDone' PROVE AllDone
    <3>1. ASSUME NEW u \in Of("userTask") PROVE \E i \in FlowID : flows[i].element = u
      <4>1. PICK i \in FlowID' : flows'[i].element = u
        BY <2>2 DEF AllDone
      <4>2. flows'[i].status = "COMPLETED"
        BY <2>2, <4>1 DEF AllDone
      <4> QED
        BY <1>4, <4>1, <4>2
    <3>2. ASSUME NEW i \in FlowID, flows[i].element \in Of("userTask")
          PROVE  flows[i].status = "COMPLETED"
      <4>1. i \in FlowID' /\ flows'[i].element = flows[i].element
        BY <1>1, <1>2
      <4>2. flows'[i].status = "COMPLETED"
        BY <2>2, <3>2, <4>1 DEF AllDone
      <4> QED
        BY <1>4, <1>6, <3>2, <4>1, <4>2
    <3> QED
      BY <3>1, <3>2 DEF AllDone
  <2> QED
    BY <2>1, <2>2
<1>7. ASSUME NEW x PROVE Records(x) \subseteq Records(x)'
  BY <1>1, <1>2 DEF Records
<1> QED
  BY <1>5, <1>6, <1>7

\* A resumption for a task, or for an event that interrupts one, starts with one
\* flow on its way to the gateway; any other leaves the tasks as they are.  One that
\* leads nowhere is about an end, and its status is stored at once.
LEMMA ContinueMeets ==
  ASSUME IInv, IInv', Statuses, faults = 0, faults' = 0, NEW j, NEW z, Meeting(j, z),
         stored # "COMPLETED" => Settled(j),
         NEW f \in FlowID, NEW table \in {flows, Completed(f)},
         table \in Seq(FlowRecord), Len(table) = Len(flows), Continue(f, table),
         Process[flows[f].element].Type # "userTask" \/ table = Completed(f)
  PROVE  Statuses' /\ (stored' # "COMPLETED" => Alone(j, z)' \/ Settled(j)')
<1> DEFINE e == flows[f].element
           next == Process[e].Outgoing
           t == CancelAttached(f, table)
<1>1. pc = "returned"
  BY DEF Continue, Quiet
<1>2. CASE ~Resumable
  <2>1. stored = "COMPLETED"
    BY <1>2 DEF Statuses, Resumable, IsValidTransition, ValidTransitions, State
  <2>2. UNCHANGED <<stored, pc>>
    BY <1>2 DEF Continue, NotResumed, Resumable
  <2> QED
    BY <1>1, <2>1, <2>2 DEF Statuses, Quiescent
<1>3. CASE Resumable
  <2>1. stored # "COMPLETED"
    BY <1>3 DEF Resumable, IsValidTransition, ValidTransitions, State
  <2>2. ~AllDone /\ Cardinality(DoneTasks) <= Cardinality(Records(j))
    BY <1>1, <2>1 DEF Settled
  <2>3. flows[f] \in FlowRecord /\ e \in Elements
    <3>1. flows[f] \in FlowRecord
      BY CompletedType
    <3> QED
      BY <3>1 DEF FlowRecord
  <2>4. LeadsOn
    BY DEF Meeting
  <2>5. \/ next = {} /\ ContinueAtEnd(f, FALSE)
        \/ next # {} /\ ContinueWith(f, t, next, FALSE)
    BY <1>3, ContinueClean
  <2>6. Resumes(t)
    BY <1>3, ContinueResumes
  <2>7. t \in Seq(FlowRecord) /\ Len(t) = Len(flows) /\ t[f].thread \in Nat
    <3>1. t \in Seq(FlowRecord) /\ Len(t) = Len(flows)
      BY CancelAttachedType
    <3> HIDE DEF t
    <3>2. t[f] \in FlowRecord
      BY <3>1, ElementOfSeq DEF FlowID
    <3> QED
      BY <3>1, <3>2 DEF FlowRecord
  <2>10. Statuses'
    <3>1. CASE next = {} /\ ContinueAtEnd(f, FALSE)
      <4>1. isEndEvent(e)
        BY <2>3, <2>4, <3>1 DEF LeadsOn
      <4>2. stored' = "COMPLETED" /\ pc' = "returned"
        BY <1>1, <3>1, <4>1 DEF ContinueAtEnd
      <4> QED
        BY <4>2 DEF Statuses, Quiescent
    <3>2. CASE next # {} /\ ContinueWith(f, t, next, FALSE)
      BY <3>2 DEF ContinueWith, BeginLoop, Statuses
    <3> QED
      BY <2>5, <3>1, <3>2
  <2>11. \A u \in Of("userTask") : Process[u].AttachedToRef = None
    BY DEF Meeting
  <2>12. /\ \E u : DoneTasks' \subseteq DoneTasks \cup {u}
         /\ ~Meets(e) => DoneTasks' \subseteq DoneTasks /\ (AllDone' => AllDone)
         /\ \A x : Records(x) \subseteq Records(x)'
    BY <2>6, <2>11, ResumedTasks
  <2>13. /\ IsFiniteSet(DoneTasks) /\ Cardinality(DoneTasks) \in Nat
         /\ IsFiniteSet(Records(j)) /\ Cardinality(Records(j)) \in Nat
         /\ IsFiniteSet(Records(j)') /\ Cardinality(Records(j)') \in Nat
         /\ Cardinality(Records(j)) <= Cardinality(Records(j)')
    <3>1. DoneTasks \subseteq Of("userTask") /\ IsFiniteSet(Of("userTask"))
      BY MeetingFacts DEF DoneTasks
    <3>2. IsFiniteSet(Records(j)) /\ IsFiniteSet(Records(j)') /\ IsFiniteSet(DoneTasks)
      <4>1. Len(flows') \in Nat
        BY LenProperties DEF IInv, TypeOK, StoreType
      <4>2. IsFiniteSet(FlowID') /\ Records(j)' \subseteq FlowID'
        <5>1. 1 \in Int /\ Len(flows') \in Int
          BY <4>1
        <5>2. IsFiniteSet(1..Len(flows'))
          BY <5>1, FS_Interval
        <5> QED
          BY <5>2 DEF FlowID, Records
      <4>3. IsFiniteSet(Records(j)')
        BY <4>2, FS_Subset
      <4>4. IsFiniteSet(DoneTasks)
        BY <3>1, FS_Subset
      <4> QED
        BY <4>3, <4>4, RecordsFinite
    <3>3. Records(j) \subseteq Records(j)'
      BY <2>12
    <3>4. Cardinality(Records(j)) <= Cardinality(Records(j)')
      BY <3>2, <3>3, FS_Subset
    <3> QED
      BY <3>2, <3>4, FS_CardinalityType
  <2> HIDE DEF t
  <2>14. CASE ~Meets(e)
    <3>1. Cardinality(DoneTasks') <= Cardinality(DoneTasks) /\ Cardinality(DoneTasks') \in Nat
      BY <2>12, <2>13, <2>14, FS_Subset, FS_CardinalityType
    <3>2. Settled(j)'
      BY <2>2, <2>12, <2>13, <2>14, <3>1 DEF Settled
    <3> QED
      BY <2>10, <3>2
  <2>15. CASE Meets(e)
    <3>1. LeadsTo(e, j)
      BY <2>3, <2>15 DEF Meets, Meeting, TasksMeetAt
    <3>2. PICK x \in Before(j) \cup {j} : next = {x}
      BY <3>1, LeadsNext
    <3>8. PICK s \in Orders(next) :
            /\ flows' = t \o FlowRecords(s, t[f].thread)
            /\ BeginLoop([i \in DOMAIN s |-> Len(flows) + i])
      BY <2>5, <3>2 DEF ContinueWith
    <3>9. /\ istate' = "IN_PROGRESS" /\ ~completed' /\ pc' = "select" /\ errs' = 0
          /\ counts' = [y \in Elements |-> 0]
      BY <2>5, <3>2, <3>8 DEF ContinueWith, BeginLoop
    <3>3. x \in Way(j, z) /\ x \in Elements
      BY <3>2, MeetingFacts DEF Way
    <3>4. Carried(x)' /\ Len(flows') = Len(flows) + 1
      BY <2>7, <3>2, <3>3, <3>8, OneRecord
    <3>5. Solo(x, j, z)'
      <4>1. Fresh(x, j, z)'
        BY <3>9, MeetingFacts DEF Fresh
      <4> QED
        BY <3>9, <3>3, <3>4, <4>1 DEF Solo
    <3>6. Cardinality(DoneTasks') <= Cardinality(DoneTasks) + 1 /\ Cardinality(DoneTasks') \in Nat
      <4>1. PICK u : DoneTasks' \subseteq DoneTasks \cup {u}
        BY <2>12
      <4>2. /\ IsFiniteSet(DoneTasks \cup {u})
            /\ Cardinality(DoneTasks \cup {u}) \in {Cardinality(DoneTasks), Cardinality(DoneTasks) + 1}
        BY <2>13, FS_AddElement
      <4> QED
        BY <2>13, <4>1, <4>2, FS_Subset, FS_CardinalityType
    <3>7. Cardinality(DoneTasks') <= Cardinality(Records(j)') + Due(x, j)'
      <4>1. CASE x \in Before(j)
        <5>1. Due(x, j)' = 1
          BY <4>1 DEF Due
        <5> QED
          BY <2>2, <2>13, <3>6, <5>1
      <4>2. CASE x = j
        <5>1. Due(x, j)' = 0
          BY <3>9, <4>2, MeetingFacts DEF Due
        <5>2. Len(flows) \in Nat
          BY LenProperties DEF IInv, TypeOK, StoreType
        <5>3. Len(flows') \in Records(j)' \ Records(j)
          BY <3>4, <4>2, <5>2 DEF Records, FlowID, Carried
        <5>4. Records(j) \cup {Len(flows')} \subseteq Records(j)'
          BY <2>12, <5>3
        <5>5. Cardinality(Records(j) \cup {Len(flows')}) = Cardinality(Records(j)) + 1
          BY <2>13, <5>3, FS_AddElement
        <5>6. Cardinality(Records(j)) + 1 <= Cardinality(Records(j)')
          BY <2>13, <5>4, <5>5, FS_Subset
        <5> QED
          BY <2>2, <2>13, <3>6, <5>1, <5>6
      <4> QED
        BY <3>2, <4>1, <4>2
    <3> QED
      BY <2>10, <3>3, <3>5, <3>7 DEF Alone
  <2> QED
    BY <2>14, <2>15
<1> QED
  BY <1>2, <1>3

----------------------------------------------------------------------------
(* Every step keeps the invariant.                                         *)

LEMMA NextMeets ==
  ASSUME IInv, IInv', PlacesInv, AnswersInv, LiveInv, StatusInv, MeetInv, [Next]_vars
  PROVE  MeetInv'
<1> SUFFICES ASSUME faults' = 0, NEW j \in Elements, NEW z \in Elements, Meeting(j, z)
             PROVE  Statuses' /\ (stored' # "COMPLETED" => Alone(j, z)' \/ Settled(j)')
  BY DEF MeetInv
<1>1. faults = 0 /\ Kept(flows, flows')
  BY FaultsGrow, NextKeeps
<1>2. Statuses /\ (stored # "COMPLETED" => Alone(j, z) \/ Settled(j))
  BY <1>1 DEF MeetInv
<1>3. ASSUME NEW e \in Way(j, z), Solo(e, j, z)
      PROVE  pc \in {"create", "select", "send"}
  BY <1>3 DEF Solo, Creating, Carried
<1>4. CASE Run
  <2>1. Settled(j) /\ pc = "idle"
    <3>1. pc = "idle" /\ stored = "CREATED"
      BY <1>4 DEF Run, StatusInv
    <3> QED
      BY <1>2, <1>3, <3>1 DEF Alone
  <2>2. RunsOn
    BY <1>1, <1>4, RunRunsOn
  <2>3. Settled(j)'
    BY <2>1, <2>2, SettledRunsOn
  <2>4. istate' = "IN_PROGRESS" /\ pc' = "select" /\ UNCHANGED <<stored, completed>>
    BY <1>1, <1>4 DEF Run, StoreFails, CallFails, BeginLoop
  <2>5. ~completed
    BY <1>2, <2>1 DEF Statuses
  <2> QED
    BY <1>2, <2>3, <2>4, <2>5 DEF Statuses
<1>5. CASE Resume
  <2>1. PICK f \in FlowID : CompleteTask(f) \/ TimerFires(f) \/ SendMessage(f) \/ SendSignal(f)
    BY <1>5 DEF Resume
  <2>2. pc = "returned"
    BY <2>1 DEF CompleteTask, TimerFires, SendMessage, SendSignal, Continue, Quiet
  <2>3. stored # "COMPLETED" => Settled(j)
    BY <1>2, <1>3, <2>2 DEF Alone
  <2>4. flows \in Seq(FlowRecord) /\ Completed(f) \in Seq(FlowRecord)
        /\ Len(Completed(f)) = Len(flows)
    BY CompletedType
  <2>5. PICK table \in {flows, Completed(f)} :
          /\ Continue(f, table)
          /\ Process[flows[f].element].Type # "userTask" \/ table = Completed(f)
    BY <2>1 DEF CompleteTask, TimerFires, SendMessage, SendSignal
  <2> QED
    BY <1>1, <1>2, <2>3, <2>4, <2>5, ContinueMeets
<1>6. CASE Loop
  <2>1. Statuses'
    BY <1>1, <1>2, <1>6, LoopStatuses DEF Meeting
  <2>2. ASSUME stored' # "COMPLETED" PROVE Alone(j, z)' \/ Settled(j)'
    <3>1. stored # "COMPLETED"
      BY <1>6 DEF StatusInv, Loop, HandleResult, HandleRoute, HandleError, HandleWait,
         HandleComplete, HandleThrowError, HandleTerminate, HandleCallActivity, HandleQueue,
         CreateFlow, SendFlow, FailSafe, ContextDone, ErrorReceived, Finalize, FailSafeReturn,
         ContextReturn, Received, Quiescent
    <3>2. CASE Alone(j, z)
      BY <1>1, <1>6, <3>2, SoloLoop DEF Alone
    <3>3. CASE Settled(j) /\ ~(pc = "closing" /\ istate = "COMPLETED")
      BY <1>6, <3>3, LoopRunsOn, SettledRunsOn
    <3>4. CASE Settled(j) /\ pc = "closing" /\ istate = "COMPLETED"
      <4>1. Finalize
        BY <1>6, <3>4 DEF Loop, HandleResult, HandleRoute, HandleError, HandleWait,
           HandleComplete, HandleThrowError, HandleTerminate, HandleCallActivity, HandleQueue,
           CreateFlow, SendFlow, FailSafe, ContextDone, ErrorReceived, FailSafeReturn,
           ContextReturn, Received
      <4> QED
        BY <1>1, <2>2, <3>4, <4>1 DEF Finalize, CallFails
    <3> QED
      BY <1>2, <3>1, <3>2, <3>3, <3>4
  <2> QED
    BY <2>1, <2>2
<1>7. CASE \E w \in Workers : Worker(w)
  <2>1. PICK w \in Workers : Worker(w)
    BY <1>7
  <2>2. UNCHANGED <<stored, istate, completed, pc>> /\ RunsOn
    BY <2>1, WorkerRunsOn DEF Worker, Take, ExecuteElement, Deliver, Leave, storeVars, instVars
  <2>3. Statuses'
    BY <1>2, <2>2 DEF Statuses, Quiescent
  <2>4. Alone(j, z) => Alone(j, z)'
    BY <1>1, <2>1, SoloWorker DEF Alone
  <2>5. Settled(j) => Settled(j)'
    BY <2>2, SettledRunsOn
  <2> QED
    BY <1>2, <2>2, <2>3, <2>4, <2>5
<1>8. CASE Rest \/ UNCHANGED vars
  <2>1. UNCHANGED vars
    BY <1>8 DEF Rest
  <2> USE <2>1 DEF vars, storeVars, instVars, poolVars
  <2>2. /\ UNCHANGED <<Places, Waited, DoneTasks, AllDone, pc, istate, completed, errs, stored>>
        /\ \A x : Records(x)' = Records(x) /\ Due(x, j)' = Due(x, j)
    BY DEF Places, InChannels, Held, Waited, DoneTasks, AllDone, Records, FlowID, Due
  <2>3. \A x : (Carried(x) => Carried(x)') /\ (Creating(x) => Creating(x)')
    BY <2>2 DEF Carried, Creating
  <2>4. \A x : Fresh(x, j, z) => Fresh(x, j, z)'
    BY DEF Fresh
  <2>5. \A x : Solo(x, j, z) => Solo(x, j, z)'
    BY <2>2, <2>3, <2>4 DEF Solo
  <2>6. (Alone(j, z) => Alone(j, z)') /\ (Settled(j) => Settled(j)')
    BY <2>2, <2>5 DEF Alone, Settled
  <2>7. Statuses'
    BY <1>2, <2>2 DEF Statuses, Quiescent
  <2> QED
    BY <1>2, <2>2, <2>6, <2>7
<1>9. CASE Deadline \/ Cancel
  BY <1>1, <1>9 DEF Deadline, Cancel, ContextEnds
<1> QED
  BY <1>4, <1>5, <1>6, <1>7, <1>8, <1>9 DEF Next

LEMMA MeetInvariance == Spec => []MeetInv
<1>1. ASSUME Init PROVE MeetInv
  <2>1. Len(flows) = 0 /\ stored = "CREATED" /\ pc = "idle" /\ ~completed
    BY <1>1, EmptySeq DEF Init
  <2>2. FlowID = {}
    BY <2>1 DEF FlowID
  <2>3. Statuses
    BY <2>1 DEF Statuses, Quiescent
  <2>4. ASSUME NEW j, NEW z, Meeting(j, z) PROVE Settled(j)
    <3>1. DoneTasks = {} /\ Records(j) = {}
      BY <2>2 DEF DoneTasks, Records
    <3>2. Cardinality(DoneTasks) = 0 /\ Cardinality(Records(j)) = 0
      BY <3>1, FS_EmptySet
    <3>3. ~AllDone
      BY <2>2, <2>4 DEF AllDone, Meeting
    <3> QED
      BY <3>2, <3>3 DEF Settled
  <2> QED
    BY <2>3, <2>4 DEF MeetInv
<1>2. IInv /\ IInv' /\ PlacesInv /\ AnswersInv /\ LiveInv /\ StatusInv /\ MeetInv /\ [Next]_vars
        => MeetInv'
  BY NextMeets
<1> QED
  BY <1>1, <1>2, Invariance, StatusInvariance, JoinInvariance, PTL DEF Spec

\* Tasks that meet complete their case: whichever of the parallel tasks aborted the
\* first run, in whatever order people complete them, messages and timers interrupt
\* them and the runs they start are executed, the completion of the last one finds
\* the gateway's record of every other, passes it and stores COMPLETED (completeTask,
\* Continue, areAllIncomingComplete, handleResult).
THEOREM TasksCompleteTheCase == Spec => []TasksCompleteCase
<1>1. MeetInv => TasksCompleteCase
  <2> DEFINE tasks == {i \in FlowID : flows[i].element \in Of("userTask")}
  <2> SUFFICES ASSUME MeetInv, TasksMeet, Quiescent, faults = 0,
                      {flows[i].element : i \in tasks} = Of("userTask"),
                      \A i \in tasks : flows[i].status = "COMPLETED"
               PROVE  stored = "COMPLETED"
    BY DEF TasksCompleteCase
  <2>1. PICK j \in Elements, z \in Elements : Meeting(j, z)
    BY DEF TasksMeet, Meeting, LeadsOn, Of
  <2>2. AllDone
    <3>1. \A t \in Of("userTask") : \E i \in FlowID : flows[i].element = t
      OBVIOUS
    <3> QED
      BY <3>1 DEF AllDone
  <2>3. ~Alone(j, z)
    BY DEF Alone, Solo, Creating, Carried, Quiescent
  <2>4. ~Settled(j)
    BY <2>2 DEF Settled, Quiescent
  <2> QED
    BY <2>1, <2>3, <2>4 DEF MeetInv
<1> QED
  BY <1>1, MeetInvariance, PTL
============================================================================
