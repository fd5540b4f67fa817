------------------------- MODULE ContinuationProofs -------------------------
(***************************************************************************)
(* What TLAPS proves of Continuation, for every process, set of callers    *)
(* and bound.                                                              *)
(***************************************************************************)
EXTENDS Continuation, ProcessGraphProofs, TLAPS, FiniteSetTheorems, SequenceTheorems

----------------------------------------------------------------------------
(* Flow records that are created.                                          *)

\* An order of a set of elements is a sequence of them, empty only for none.
LEMMA OrdersType ==
  ASSUME NEW S \in SUBSET Elements, NEW s \in Orders(S)
  PROVE  /\ s \in Seq(S)
         /\ S # {} => Len(s) # 0
<1>1. IsFiniteSet(S)
  BY ProcessAssumption, FS_Subset
<1>2. Cardinality(S) \in Nat /\ (S # {} => Cardinality(S) # 0)
  BY <1>1, FS_CardinalityType, FS_EmptySet
<1>3. s \in [1..Cardinality(S) -> S]
  BY DEF Orders
<1>4. s \in Seq(S) /\ Len(s) = Cardinality(S)
  BY <1>2, <1>3
<1> QED
  BY <1>2, <1>4

\* So is a part of it.
LEMMA PartsType ==
  ASSUME NEW S, NEW s \in Seq(S), NEW made \in Parts(s)
  PROVE  made \in Seq(S)
<1>1. PICK k \in 0..Len(s) : made = SubSeq(s, 1, k)
  BY DEF Parts
<1>2. Len(s) \in Nat /\ \A i \in 1..Len(s) : s[i] \in S
  BY LenProperties, ElementOfSeq
<1>3. k \in Int /\ 1 \in Int /\ \A i \in 1..k : s[i] \in S
  BY <1>2
<1> QED
  BY <1>1, <1>3, SubSeqProperties

\* Adding flow records keeps those that were there.
LEMMA WithFlowsType ==
  ASSUME NEW table \in Seq(FlowRecord), NEW s \in Seq(Elements)
  PROVE  /\ WithFlows(table, s) \in Seq(FlowRecord)
         /\ Len(WithFlows(table, s)) = Len(table) + Len(s)
         /\ \A f \in 1..Len(table) : WithFlows(table, s)[f] = table[f]
         /\ \A f \in Len(table)+1..Len(table)+Len(s) :
              WithFlows(table, s)[f] = CreateFlowRecord(s[f - Len(table)])
<1> DEFINE new == [i \in DOMAIN s |-> CreateFlowRecord(s[i])]
<1>1. DOMAIN s = 1..Len(s) /\ Len(s) \in Nat /\ \A i \in 1..Len(s) : s[i] \in Elements
  BY LenProperties, ElementOfSeq
<1>2. \A i \in 1..Len(s) : CreateFlowRecord(s[i]) \in FlowRecord
  BY <1>1 DEF CreateFlowRecord, FlowRecord, FlowStatus
<1>3. new \in Seq(FlowRecord) /\ Len(new) = Len(s)
  BY <1>1, <1>2
<1>4. Len(table) \in Nat
  BY LenProperties
<1> HIDE DEF new
<1>5. /\ table \o new \in Seq(FlowRecord)
      /\ Len(table \o new) = Len(table) + Len(s)
      /\ \A i \in 1..Len(table) + Len(s) :
           (table \o new)[i] = IF i <= Len(table) THEN table[i] ELSE new[i - Len(table)]
  <2>1. /\ table \o new \in Seq(FlowRecord)
        /\ Len(table \o new) = Len(table) + Len(new)
        /\ \A i \in 1..Len(table) + Len(new) :
             (table \o new)[i] = IF i <= Len(table) THEN table[i] ELSE new[i - Len(table)]
    BY <1>3, ConcatProperties
  <2> QED
    BY <1>3, <2>1
<1>6. \A i \in 1..Len(s) : new[i] = CreateFlowRecord(s[i])
  BY <1>1 DEF new
<1>7. WithFlows(table, s) = table \o new
  BY DEF WithFlows, new
<1> QED
  BY <1>1, <1>4, <1>5, <1>6, <1>7

\* The history of the flows grows with their table.
LEMMA NoneContinuedType ==
  ASSUME NEW counts \in Seq(Nat), NEW s \in Seq(Elements)
  PROVE  /\ counts \o NoneContinued(s) \in Seq(Nat)
         /\ Len(counts \o NoneContinued(s)) = Len(counts) + Len(s)
         /\ \A f \in 1..Len(counts) : (counts \o NoneContinued(s))[f] = counts[f]
         /\ \A f \in Len(counts)+1..Len(counts)+Len(s) : (counts \o NoneContinued(s))[f] = 0
<1>1. DOMAIN s = 1..Len(s) /\ Len(s) \in Nat /\ Len(counts) \in Nat
  BY LenProperties
<1>2. /\ NoneContinued(s) \in Seq(Nat) /\ Len(NoneContinued(s)) = Len(s)
      /\ \A i \in 1..Len(s) : NoneContinued(s)[i] = 0
  BY <1>1 DEF NoneContinued
<1>3. /\ counts \o NoneContinued(s) \in Seq(Nat)
      /\ Len(counts \o NoneContinued(s)) = Len(counts) + Len(s)
      /\ \A i \in 1..Len(counts) + Len(s) :
           (counts \o NoneContinued(s))[i]
             = IF i <= Len(counts) THEN counts[i] ELSE NoneContinued(s)[i - Len(counts)]
  <2>1. /\ counts \o NoneContinued(s) \in Seq(Nat)
        /\ Len(counts \o NoneContinued(s)) = Len(counts) + Len(NoneContinued(s))
        /\ \A i \in 1..Len(counts) + Len(NoneContinued(s)) :
             (counts \o NoneContinued(s))[i]
               = IF i <= Len(counts) THEN counts[i] ELSE NoneContinued(s)[i - Len(counts)]
    BY <1>2, ConcatProperties
  <2> QED
    BY <1>2, <2>1
<1> QED
  BY <1>1, <1>2, <1>3

----------------------------------------------------------------------------
(* The inductive invariant.                                                *)

\* Whoever has something in hand is in the part of its request that works on it;
\* a broadcast lists signal catches, and the one it visits no longer.
HandInv ==
  \A c \in Callers :
    /\ closing[c] # {} => at[c] = "cancelling"
    /\ work[c] # {} \/ results[c] # {} => at[c] = "running"
    /\ listed[c] # {} => at[c] \notin {"idle", "broadcasting"}
    /\ at[c] = "checked" => target[c] \notin listed[c]
    /\ \A f \in listed[c] : Process[flows[f].element].Type = "signalCatch"

\* Jobs are the jobs of timers; an answer is one its element gives; a parallel
\* gateway gives no error.
AnswerInv ==
  /\ \A f \in jobs : Process[flows[f].element].Type = "timerEvent"
  /\ \A c \in Callers : \A r \in results[c] :
       \E complete \in BOOLEAN : r.ans \in Execute(flows[r.flow].element, complete)
  /\ \A f \in FlowID : Process[flows[f].element].Type = "parallelGateway" => flows[f].status # "ERROR"

\* Whoever has completed flow f has not gone on behind it yet.
Pending(c, f) == at[c] \in {"accepted", "loaded", "cancelling"} /\ target[c] = f

\* A flow in hand is open, and in one hand.
OneHand(f) ==
  /\ \A c \in Callers : f \in InHand(c) => flows[f].status = "ACTIVE"
  /\ \A c, d \in Callers : f \in InHand(c) /\ f \in InHand(d) => c = d

\* A flow is continued by the one caller that completed it.
OneContinuation(f) ==
  /\ continued[f] \in {0, 1}
  /\ continued[f] = 1 => flows[f].status = "COMPLETED"
  /\ \A c \in Callers : Pending(c, f) => flows[f].status = "COMPLETED" /\ continued[f] = 0
  /\ \A c, d \in Callers : Pending(c, f) /\ Pending(d, f) => c = d

\* A flow no timer job is for.
Untimed(f) == Process[flows[f].element].Type # "timerEvent"

\* What holds of a flow until two callers have it in hand at once.
RaceInv ==
  \A f \in FlowID \ raced :
    /\ OneHand(f)
    /\ Untimed(f) => OneContinuation(f)

\* A continuation that runs alone holds what was stored before, refused variables
\* aside, and the record knows of no variable but the stored requests'.
AloneInv ==
  ~overlap =>
    /\ \A c, d \in Callers : Continuing(c) /\ Continuing(d) => c = d
    /\ \A c \in Callers : Continuing(c) =>
         /\ stored.Status # "COMPLETED"
         /\ Brings(c) \subseteq copy[c].Variables
         /\ copy[c].Variables \subseteq kept \cup Brings(c)
         /\ Cardinality(kept) <= MaxSize => Sane(stored.Variables) \subseteq copy[c].Variables
    /\ stored.Variables \subseteq kept
    /\ Cardinality(kept) <= MaxSize => Sane(kept) \subseteq stored.Variables

----------------------------------------------------------------------------
(* The table of the flows.                                                 *)

\* A flow is about an element of the process.
LEMMA ElementOfFlow ==
  ASSUME TypeOK, NEW f \in FlowID
  PROVE  /\ flows[f] \in FlowRecord /\ flows[f].element \in Elements
         /\ Process[flows[f].element].Outgoing \subseteq Elements
<1>1. flows[f] \in FlowRecord
  BY ElementOfSeq DEF TypeOK, FlowID
<1>2. flows[f].element \in Elements
  BY <1>1 DEF FlowRecord
<1> QED
  BY <1>1, <1>2, ProcessAssumption DEF Element

\* There are finitely many flows.
LEMMA FlowsFinite ==
  ASSUME TypeOK, NEW S \in SUBSET FlowID
  PROVE  IsFiniteSet(S) /\ Cardinality(S) \in Nat
<1>1. Len(flows) \in Nat
  BY LenProperties DEF TypeOK
<1>2. IsFiniteSet(FlowID)
  BY <1>1, FS_Interval DEF FlowID
<1> QED
  BY <1>2, FS_Subset, FS_CardinalityType

\* A step writes the status of one flow,
Writes(f0, s) == f0 \in FlowID /\ s \in FlowStatus /\ flows' = [flows EXCEPT ![f0].status = s]

\* adds records for a sequence of elements,
Adds(s) == s \in Seq(Elements) /\ flows' = WithFlows(flows, s)

\* or leaves the table alone.  In each case those that are there stay at their
\* elements, and what comes new is active.
Stays ==
  /\ FlowID \subseteq FlowID'
  /\ \A f \in FlowID : flows'[f].element = flows[f].element
  /\ \A f \in FlowID' \ FlowID : flows'[f].status = "ACTIVE"

LEMMA Written ==
  ASSUME TypeOK, NEW f0, NEW s, Writes(f0, s)
  PROVE  /\ flows' \in Seq(FlowRecord) /\ Len(flows') = Len(flows) /\ FlowID' = FlowID
         /\ \A f \in FlowID : /\ flows'[f].element = flows[f].element
                              /\ flows'[f].status = IF f = f0 THEN s ELSE flows[f].status
<1>1. flows \in Seq(FlowRecord) /\ f0 \in 1..Len(flows) /\ s \in FlowStatus
  BY DEF Writes, TypeOK, FlowID
<1>2. flows[f0] \in FlowRecord
  BY <1>1, ElementOfSeq
<1> DEFINE r == [flows[f0] EXCEPT !.status = s]
<1>3. r \in FlowRecord /\ r.element = flows[f0].element /\ r.status = s
  BY <1>1, <1>2 DEF FlowRecord
<1>4. flows' = [flows EXCEPT ![f0] = r]
  BY DEF Writes
<1> HIDE DEF r
<1>5. /\ flows' \in Seq(FlowRecord) /\ Len(flows') = Len(flows)
      /\ \A i \in 1..Len(flows) : flows'[i] = IF i = f0 THEN r ELSE flows[i]
  BY <1>1, <1>3, <1>4, ExceptSeq
<1> QED
  BY <1>3, <1>5 DEF FlowID

LEMMA Added ==
  ASSUME TypeOK, NEW s, Adds(s)
  PROVE  /\ flows' \in Seq(FlowRecord) /\ Len(flows') = Len(flows) + Len(s)
         /\ FlowID \subseteq FlowID'
         /\ DOMAIN s = 1..Len(s) /\ Len(s) \in Nat
         /\ {Len(flows) + i : i \in DOMAIN s} = FlowID' \ FlowID
         /\ \A f \in FlowID : flows'[f] = flows[f]
         /\ \A i \in DOMAIN s : flows'[Len(flows) + i] = CreateFlowRecord(s[i])
         /\ \A f \in FlowID' \ FlowID : flows'[f].status = "ACTIVE"
         /\ Len(s) # 0 => FlowID' \ FlowID # {}
<1>1. s \in Seq(Elements) /\ Len(s) \in Nat /\ DOMAIN s = 1..Len(s)
  BY LenProperties DEF Adds
<1>2. flows \in Seq(FlowRecord) /\ Len(flows) \in Nat
  BY LenProperties DEF TypeOK
<1>3. /\ flows' \in Seq(FlowRecord) /\ Len(flows') = Len(flows) + Len(s)
      /\ \A f \in 1..Len(flows) : flows'[f] = flows[f]
      /\ \A f \in Len(flows)+1..Len(flows)+Len(s) :
           flows'[f] = CreateFlowRecord(s[f - Len(flows)])
  <2> DEFINE t == WithFlows(flows, s)
  <2>1. /\ t \in Seq(FlowRecord)
        /\ Len(t) = Len(flows) + Len(s)
        /\ \A f \in 1..Len(flows) : t[f] = flows[f]
        /\ \A f \in Len(flows)+1..Len(flows)+Len(s) : t[f] = CreateFlowRecord(s[f - Len(flows)])
    BY <1>1, <1>2, WithFlowsType
  <2> HIDE DEF t
  <2>2. flows' = t
    BY DEF t, Adds
  <2> QED
    BY <2>1, <2>2
<1>4. FlowID' = 1..Len(flows) + Len(s) /\ FlowID = 1..Len(flows)
  BY <1>3 DEF FlowID
<1>5. FlowID \subseteq FlowID' /\ FlowID' \ FlowID = Len(flows)+1..Len(flows)+Len(s)
  BY <1>1, <1>2, <1>4
<1>6. \A i \in 1..Len(s) :
        /\ Len(flows) + i \in Len(flows)+1..Len(flows)+Len(s)
        /\ (Len(flows) + i) - Len(flows) = i
  BY <1>1, <1>2
<1>7. \A f \in Len(flows)+1..Len(flows)+Len(s) :
        f - Len(flows) \in 1..Len(s) /\ f = Len(flows) + (f - Len(flows))
  BY <1>1, <1>2
<1>8. {Len(flows) + i : i \in DOMAIN s} = FlowID' \ FlowID
  <2>1. \A i \in DOMAIN s : Len(flows) + i \in FlowID' \ FlowID
    BY <1>1, <1>5, <1>6
  <2>2. \A f \in FlowID' \ FlowID : \E i \in DOMAIN s : f = Len(flows) + i
    BY <1>1, <1>5, <1>7
  <2> QED
    BY <2>1, <2>2, Zenon
<1>9. \A i \in DOMAIN s : flows'[Len(flows) + i] = CreateFlowRecord(s[i])
  <2>1. ASSUME NEW f \in Len(flows)+1..Len(flows)+Len(s), NEW i, f - Len(flows) = i
        PROVE  flows'[f] = CreateFlowRecord(s[i])
    BY <1>3, <2>1
  <2> QED
    BY <1>1, <1>6, <2>1
<1>10. \A f \in FlowID' \ FlowID : flows'[f].status = "ACTIVE"
  <2>1. \A e : CreateFlowRecord(e).status = "ACTIVE"
    BY DEF CreateFlowRecord
  <2> QED
    BY <1>3, <1>5, <2>1
<1>11. Len(s) # 0 => Len(flows) + 1 \in FlowID' \ FlowID
  BY <1>1, <1>2, <1>5
<1> QED
  BY <1>1, <1>3, <1>4, <1>5, <1>8, <1>9, <1>10, <1>11

\* The counts of continuations beside it.
LEMMA Counted ==
  ASSUME TypeOK, NEW s, Adds(s), NEW counts \in Seq(Nat), Len(counts) = Len(flows),
         continued' = counts \o NoneContinued(s)
  PROVE  /\ continued' \in Seq(Nat) /\ Len(continued') = Len(flows')
         /\ \A f \in FlowID : continued'[f] = counts[f]
         /\ \A f \in FlowID' \ FlowID : continued'[f] = 0
<1>1. s \in Seq(Elements) /\ Len(s) \in Nat /\ Len(flows') = Len(flows) + Len(s)
  BY Added DEF Adds
<1>2. Len(flows) \in Nat
  BY LenProperties DEF TypeOK
<1>3. /\ continued' \in Seq(Nat) /\ Len(continued') = Len(flows')
      /\ \A f \in 1..Len(flows) : continued'[f] = counts[f]
      /\ \A f \in Len(flows)+1..Len(flows)+Len(s) : continued'[f] = 0
  BY <1>1, NoneContinuedType
<1>4. FlowID' \ FlowID = Len(flows)+1..Len(flows)+Len(s)
  BY <1>1, <1>2 DEF FlowID
<1> QED
  BY <1>3, <1>4 DEF FlowID

\* Whichever it is.
LEMMA TableKept ==
  ASSUME TypeOK, UNCHANGED flows \/ (\E f, s : Writes(f, s)) \/ (\E s : Adds(s))
  PROVE  flows' \in Seq(FlowRecord) /\ Stays
<1>1. CASE UNCHANGED flows
  BY <1>1 DEF TypeOK, Stays, FlowID
<1>2. CASE \E f, s : Writes(f, s)
  BY <1>2, Written DEF Stays
<1>3. CASE \E s : Adds(s)
  BY <1>3, Added DEF Stays
<1> QED
  BY <1>1, <1>2, <1>3

\* The elements an answer leads to.
LEMMA AnswerType ==
  ASSUME TypeOK, NEW c \in Callers, NEW r \in results[c]
  PROVE  /\ r.flow \in FlowID /\ r.ans \in ExecutionResult
         /\ flows[r.flow].element \in Elements
         /\ Route(flows[r.flow].element, r.ans) \in SUBSET Elements
         /\ BoundaryTimers(flows[r.flow].element) \cup BoundaryMessages(flows[r.flow].element)
              \in SUBSET Elements
<1>1. r \in [flow : FlowID, ans : ExecutionResult]
  BY DEF TypeOK, CallType
<1>2. r.flow \in FlowID /\ r.ans \in ExecutionResult
  BY <1>1
<1> QED
  BY <1>2, ElementOfFlow, NextFlowsType

\* The flow that is continued.
LEMMA TargetType ==
  ASSUME TypeOK, NEW c \in Callers, at[c] \in {"checked", "accepted"} \/ Continuing(c)
  PROVE  /\ target[c] \in FlowID /\ element(c) \in Elements
         /\ Process[element(c)].Outgoing \in SUBSET Elements
<1>1. target[c] \in FlowID
  BY DEF TypeOK, CallType, Continuing
<1> QED
  BY <1>1, ElementOfFlow DEF element

----------------------------------------------------------------------------
(* What each action does to the table.                                     *)

LEMMA UpdateFlowWrites ==
  ASSUME TypeOK, NEW c \in Callers, UpdateFlow(c)
  PROVE  \E s \in {"ACTIVE", "COMPLETED"} :
           /\ Writes(target[c], s)
           /\ s = "ACTIVE" => Leave(c, {})
           /\ s = "COMPLETED" => /\ at' = [at EXCEPT ![c] = "accepted"]
                                 /\ UNCHANGED <<call, target, listed, runVars>>
<1>1. target[c] \in FlowID
  BY TargetType DEF UpdateFlow
<1>2. CASE call[c] = "claim"
  BY <1>1, <1>2 DEF UpdateFlow, Writes, FlowStatus
<1>3. CASE call[c] # "claim"
  BY <1>1, <1>3 DEF UpdateFlow, Writes, FlowStatus
<1> QED
  BY <1>2, <1>3

LEMMA CancelOneWrites ==
  ASSUME TypeOK, NEW c \in Callers, CancelOne(c)
  PROVE  \E f \in closing[c] :
           /\ closing' = [closing EXCEPT ![c] = @ \ {f}]
           /\ UNCHANGED flows \/ Writes(f, "COMPLETED")
           /\ UNCHANGED faults \/ faults' = faults + 1
<1>1. PICK f \in closing[c] :
        /\ closing' = [closing EXCEPT ![c] = @ \ {f}]
        /\ \/ flows' = [flows EXCEPT ![f].status = "COMPLETED"] /\ UNCHANGED faults
           \/ StoreFails /\ UNCHANGED flows
  BY DEF CancelOne
<1>2. f \in FlowID
  BY DEF TypeOK, CallType
<1> QED
  BY <1>1, <1>2 DEF Writes, FlowStatus, StoreFails, Disturbance

LEMMA GoOnAdds ==
  ASSUME TypeOK, NEW c \in Callers, GoOn(c)
  PROVE  \/ /\ ~Passes(copy[c], element(c))
            /\ UNCHANGED <<copy, flows, continued, work>>
         \/ /\ copy' = [copy EXCEPT ![c] = Resolved(@, element(c))]
               \/ copy' = [copy EXCEPT ![c] = Finished(c, Resolved(@, element(c)))]
            /\ \E s :
                 /\ Adds(s)
                 /\ continued' = [continued EXCEPT ![target[c]] = @ + 1] \o NoneContinued(s)
                 /\ work' = [work EXCEPT ![c] = {Len(flows) + i : i \in DOMAIN s}]
<1>1. target[c] \in FlowID /\ Process[element(c)].Outgoing \in SUBSET Elements
  BY TargetType DEF GoOn, Continuing
<1>2. \A s \in Orders(Process[element(c)].Outgoing) : s \in Seq(Elements)
  BY <1>1, OrdersType, SeqMonotonic
<1> QED
  BY <1>2 DEF GoOn, Adds

LEMMA GoesNowhereAdds ==
  ASSUME TypeOK, NEW c \in Callers, GoesNowhere(c)
  PROVE  /\ faults' = faults + 1
         /\ \E made : Adds(made) /\ continued' = continued \o NoneContinued(made)
<1>1. Process[element(c)].Outgoing \in SUBSET Elements
  BY TargetType DEF GoesNowhere, Continuing
<1>2. PICK s \in Orders(Process[element(c)].Outgoing) : \E made \in Parts(s) :
        flows' = WithFlows(flows, made) /\ continued' = continued \o NoneContinued(made)
  BY DEF GoesNowhere
<1>3. s \in Seq(Elements)
  BY <1>1, OrdersType, SeqMonotonic
<1>4. \A made \in Parts(s) : made \in Seq(Elements)
  BY <1>3, PartsType
<1> QED
  BY <1>2, <1>4 DEF GoesNowhere, StoreFails, Disturbance, Adds

\* One flow is executed: its answer waits to be handled.
Executes(c, f, complete, a) ==
  /\ f \in work[c] /\ complete \in BOOLEAN /\ a \in Execute(flows[f].element, complete)
  /\ work' = [work EXCEPT ![c] = @ \ {f}]
  /\ executed' = executed \cup {f}
  /\ results' = [results EXCEPT ![c] = @ \cup {[flow |-> f, ans |-> a]}]
  /\ \/ shared /\ Writes(f, StatusAfter(flows[f].element, a))
     \/ ~shared /\ UNCHANGED flows
  /\ \/ complete = AllIncomingComplete(flows[f].element) /\ UNCHANGED <<faults, dropped>>
     \/ faults' = faults + 1 /\ dropped' = dropped \cup {f}

LEMMA ExecuteElementExecutes ==
  ASSUME TypeOK, NEW c \in Callers, ExecuteElement(c)
  PROVE  \E f, complete, a : Executes(c, f, complete, a) /\ f \in FlowID /\ a \in ExecutionResult
<1>1. PICK f \in work[c] :
        /\ work' = [work EXCEPT ![c] = @ \ {f}]
        /\ executed' = executed \cup {f}
        /\ \E complete \in {AllIncomingComplete(flows[f].element), FALSE} :
           \E a \in Execute(flows[f].element, complete) :
             /\ results' = [results EXCEPT ![c] = @ \cup {[flow |-> f, ans |-> a]}]
             /\ flows' = IF shared
                         THEN [flows EXCEPT ![f].status = StatusAfter(flows[f].element, a)]
                         ELSE flows
             /\ IF complete = AllIncomingComplete(flows[f].element)
                THEN UNCHANGED <<faults, dropped>>
                ELSE Joins(flows[f].element) /\ StoreFails /\ dropped' = dropped \cup {f}
  BY DEF ExecuteElement
<1>2. PICK complete \in {AllIncomingComplete(flows[f].element), FALSE} :
           \E a \in Execute(flows[f].element, complete) :
             /\ results' = [results EXCEPT ![c] = @ \cup {[flow |-> f, ans |-> a]}]
             /\ flows' = IF shared
                         THEN [flows EXCEPT ![f].status = StatusAfter(flows[f].element, a)]
                         ELSE flows
             /\ IF complete = AllIncomingComplete(flows[f].element)
                THEN UNCHANGED <<faults, dropped>>
                ELSE Joins(flows[f].element) /\ StoreFails /\ dropped' = dropped \cup {f}
  BY <1>1
<1>3. PICK a \in Execute(flows[f].element, complete) :
             /\ results' = [results EXCEPT ![c] = @ \cup {[flow |-> f, ans |-> a]}]
             /\ flows' = IF shared
                         THEN [flows EXCEPT ![f].status = StatusAfter(flows[f].element, a)]
                         ELSE flows
             /\ IF complete = AllIncomingComplete(flows[f].element)
                THEN UNCHANGED <<faults, dropped>>
                ELSE Joins(flows[f].element) /\ StoreFails /\ dropped' = dropped \cup {f}
  BY <1>2
<1>4. f \in FlowID /\ flows[f].element \in Elements
  <2>1. f \in FlowID
    BY DEF TypeOK, CallType
  <2> QED
    BY <2>1, ElementOfFlow
<1>5. complete \in BOOLEAN
  <2>1. AllIncomingComplete(flows[f].element) \in BOOLEAN
    BY DEF AllIncomingComplete
  <2> QED
    BY <1>2, <2>1
<1>6. a \in ExecutionResult
  BY <1>4, <1>5, ExecuteType
<1>7. StatusAfter(flows[f].element, a) \in FlowStatus
  BY DEF StatusAfter, FlowStatus
<1>8. \/ shared /\ Writes(f, StatusAfter(flows[f].element, a))
      \/ ~shared /\ UNCHANGED flows
  BY <1>3, <1>4, <1>7 DEF Writes
<1>9. \/ complete = AllIncomingComplete(flows[f].element) /\ UNCHANGED <<faults, dropped>>
      \/ faults' = faults + 1 /\ dropped' = dropped \cup {f}
  BY <1>3 DEF StoreFails, Disturbance
<1>10. Executes(c, f, complete, a)
  BY <1>1, <1>3, <1>5, <1>8, <1>9 DEF Executes
<1> QED
  BY <1>4, <1>6, <1>10

\* One answer is handled, and the run goes on with the others,
Handles(c, r) == results' = [results EXCEPT ![c] = @ \ {r}]

\* or it leaves them behind.
Abandons(c) == Leave(c, listed[c]) /\ dropped' = dropped \cup Unhandled(c)

LEMMA RoutesAdds ==
  ASSUME TypeOK, NEW c \in Callers, NEW r \in results[c], Routes(c, r.flow, r.ans)
  PROVE  \E s : /\ Adds(s) /\ continued' = continued \o NoneContinued(s)
                /\ s \in Seq(Route(flows[r.flow].element, r.ans)) /\ Len(s) # 0
                /\ work' = [work EXCEPT ![c] = @ \cup {Len(flows) + i : i \in DOMAIN s}]
<1> DEFINE S == Route(flows[r.flow].element, r.ans)
<1>1. S \in SUBSET Elements
  BY AnswerType
<1>2. PICK s \in Orders(S) :
        /\ flows' = WithFlows(flows, s) /\ continued' = continued \o NoneContinued(s)
        /\ work' = [work EXCEPT ![c] = @ \cup {Len(flows) + i : i \in DOMAIN s}]
  BY DEF Routes
<1>3. S # {}
  BY DEF Routes
<1> HIDE DEF S
<1>4. s \in Seq(S) /\ Len(s) # 0
  BY <1>1, <1>2, <1>3, OrdersType
<1>5. s \in Seq(Elements)
  BY <1>1, <1>4, SeqMonotonic
<1> QED
  BY <1>2, <1>4, <1>5 DEF Adds, S

LEMMA WaitsAdds ==
  ASSUME TypeOK, NEW c \in Callers, NEW r \in results[c], Waits(c, r.flow, r.ans)
  PROVE  \E s :
    LET due == {Len(flows) + i :
                  i \in {k \in DOMAIN s : s[k] \in BoundaryTimers(flows[r.flow].element)}}
                 \cup (IF r.ans.ContinueAt THEN {r.flow} ELSE {})
    IN  /\ Adds(s) /\ continued' = continued \o NoneContinued(s)
        /\ jobs' \subseteq jobs \cup due
        /\ UNCHANGED faults \/ faults' = faults + 1
<1> DEFINE e == flows[r.flow].element
           B == BoundaryTimers(e) \cup BoundaryMessages(e)
           D(s) == {Len(flows) + i : i \in {k \in DOMAIN s : s[k] \in BoundaryTimers(e)}}
                     \cup (IF r.ans.ContinueAt THEN {r.flow} ELSE {})
<1>1. B \in SUBSET Elements
  BY AnswerType
<1>2. PICK unarmed \in SUBSET B : \E s \in Orders(B \ unarmed) : \E lost \in SUBSET D(s) :
        /\ flows' = WithFlows(flows, s) /\ continued' = continued \o NoneContinued(s)
        /\ jobs' \in Queued(D(s) \ lost)
        /\ IF unarmed = {} /\ lost = {} THEN UNCHANGED faults ELSE StoreFails
  BY DEF Waits
<1>3. PICK s \in Orders(B \ unarmed) : \E lost \in SUBSET D(s) :
        /\ flows' = WithFlows(flows, s) /\ continued' = continued \o NoneContinued(s)
        /\ jobs' \in Queued(D(s) \ lost)
        /\ IF unarmed = {} /\ lost = {} THEN UNCHANGED faults ELSE StoreFails
  BY <1>2
<1>4. B \ unarmed \in SUBSET Elements
  BY <1>1
<1>5. s \in Seq(Elements)
  BY <1>3, <1>4, OrdersType, SeqMonotonic
<1> HIDE DEF D
<1>6. jobs' \subseteq jobs \cup D(s)
  BY <1>3 DEF Queued
<1>7. UNCHANGED faults \/ faults' = faults + 1
  BY <1>3 DEF StoreFails, Disturbance
<1> QED
  BY <1>3, <1>5, <1>6, <1>7 DEF Adds, D

LEMMA StrandsAdds ==
  ASSUME TypeOK, NEW c \in Callers, NEW r \in results[c], Strands(c, r.flow, r.ans)
  PROVE  /\ faults' = faults + 1
         /\ \E made : Adds(made) /\ continued' = continued \o NoneContinued(made)
<1> DEFINE S == Route(flows[r.flow].element, r.ans)
<1>1. S \in SUBSET Elements
  BY AnswerType
<1>2. PICK s \in Orders(S) : \E made \in Parts(s) :
        flows' = WithFlows(flows, made) /\ continued' = continued \o NoneContinued(made)
  BY DEF Strands
<1> HIDE DEF S
<1>3. s \in Seq(Elements)
  BY <1>1, OrdersType, SeqMonotonic
<1>4. \A made \in Parts(s) : made \in Seq(Elements)
  BY <1>3, PartsType
<1> QED
  BY <1>2, <1>4 DEF Strands, Disturbance, Adds

\* The handling of one answer, whichever it is.
LEMMA HandleResultHandles ==
  ASSUME NEW c \in Callers, HandleResult(c)
  PROVE  \E r \in results[c] :
           \/ /\ Handles(c, r)
              /\ Routes(c, r.flow, r.ans) \/ Ends(c, r.flow, r.ans) \/ Waits(c, r.flow, r.ans)
           \/ /\ Abandons(c)
              /\ Breaks(c, r.flow, r.ans) \/ Strands(c, r.flow, r.ans)
BY DEF HandleResult, Handles, Abandons, Breaks, Strands

\* Whatever a step does, the flows stay.
LEMMA FlowsStay ==
  ASSUME TypeOK, [Next]_vars
  PROVE  flows' \in Seq(FlowRecord) /\ Stays
<1>1. CASE UNCHANGED flows
  BY <1>1, TableKept
<1>2. ASSUME NEW c \in Callers, UpdateFlow(c) PROVE \E f, s : Writes(f, s)
  BY <1>2, UpdateFlowWrites
<1>3. ASSUME NEW c \in Callers, CancelOne(c) PROVE UNCHANGED flows \/ \E f, s : Writes(f, s)
  BY <1>3, CancelOneWrites
<1>4. ASSUME NEW c \in Callers, GoOn(c) PROVE UNCHANGED flows \/ \E s : Adds(s)
  BY <1>4, GoOnAdds
<1>5. ASSUME NEW c \in Callers, GoesNowhere(c) PROVE \E s : Adds(s)
  BY <1>5, GoesNowhereAdds
<1>6. ASSUME NEW c \in Callers, ExecuteElement(c)
      PROVE  UNCHANGED flows \/ \E f, s : Writes(f, s)
  BY <1>6, ExecuteElementExecutes DEF Executes
<1>7. ASSUME NEW c \in Callers, HandleResult(c) PROVE UNCHANGED flows \/ \E s : Adds(s)
  <2>1. PICK r \in results[c] :
          \/ Routes(c, r.flow, r.ans) \/ Ends(c, r.flow, r.ans) \/ Waits(c, r.flow, r.ans)
          \/ Breaks(c, r.flow, r.ans) \/ Strands(c, r.flow, r.ans)
    BY <1>7, HandleResultHandles
  <2>2. CASE Ends(c, r.flow, r.ans) \/ Breaks(c, r.flow, r.ans)
    BY <2>2 DEF Ends, Breaks
  <2>3. CASE Routes(c, r.flow, r.ans)
    BY <2>3, RoutesAdds
  <2>4. CASE Waits(c, r.flow, r.ans)
    BY <2>4, WaitsAdds
  <2>5. CASE Strands(c, r.flow, r.ans)
    BY <2>5, StrandsAdds
  <2> QED
    BY <2>1, <2>2, <2>3, <2>4, <2>5
<1>8. \/ UNCHANGED flows
      \/ \E c \in Callers : \/ UpdateFlow(c) \/ CancelOne(c) \/ GoOn(c) \/ GoesNowhere(c)
                            \/ ExecuteElement(c) \/ HandleResult(c)
  BY DEF Next, Rest, Request, Check, SendSignal, ListFlows, Visit, TimerFires, Continue, Fails,
     Crash, Load, Interrupt, Finalize, vars, caseVars
<1> QED
  BY <1>1, <1>2, <1>3, <1>4, <1>5, <1>6, <1>7, <1>8, TableKept

----------------------------------------------------------------------------
(* Type correctness.                                                       *)

\* A new copy of the instance is one.
LEMMA NewInstanceType == NewInstance \in InstanceRecord
BY DEF NewInstance, InstanceRecord, State

LEMMA InitType == Init => TypeOK
<1> SUFFICES ASSUME Init PROVE TypeOK
  OBVIOUS
<1>1. PICK opening \in Openings :
        /\ flows = [i \in DOMAIN opening |-> CreateFlowRecord(opening[i])]
        /\ jobs = {i \in DOMAIN opening : Process[opening[i]].Type = "timerEvent"}
        /\ continued = [i \in DOMAIN opening |-> 0]
  BY DEF Init
<1>2. opening \in Seq(Elements) /\ DOMAIN opening = 1..Len(opening) /\ Len(opening) \in Nat
  BY ContinuationAssumption, LenProperties
<1>3. \A i \in 1..Len(opening) : CreateFlowRecord(opening[i]) \in FlowRecord
  BY <1>2, ElementOfSeq DEF CreateFlowRecord, FlowRecord, FlowStatus
<1>4. flows \in Seq(FlowRecord) /\ Len(flows) = Len(opening)
  BY <1>1, <1>2, <1>3
<1>5. continued \in Seq(Nat) /\ Len(continued) = Len(opening)
  BY <1>1, <1>2
<1>6. jobs \subseteq FlowID
  BY <1>1, <1>2, <1>4 DEF FlowID
<1>7. stored \in InstanceRecord
  BY NewInstanceType DEF Init, InstanceRecord, State, NewInstance
<1>8. CallType
  BY NewInstanceType DEF Init, CallType
<1>9. HistoryType
  BY <1>4, <1>5 DEF Init, HistoryType
<1> QED
  BY <1>4, <1>6, <1>7, <1>8, <1>9 DEF Init, TypeOK

\* Who leaves leaves nothing behind that is ill typed.
LEMMA LeaveType ==
  ASSUME TypeOK, NEW c \in Callers, NEW rest \in SUBSET FlowID', Leave(c, rest),
         FlowID \subseteq FlowID'
  PROVE  CallType'
BY NewInstanceType DEF TypeOK, CallType, Leave

\* Neither does who leaves with what is still to be visited.
LEMMA LeaveListedType ==
  ASSUME TypeOK, NEW c \in Callers, Leave(c, listed[c]), FlowID \subseteq FlowID'
  PROVE  CallType'
<1>1. listed[c] \in SUBSET FlowID'
  BY DEF TypeOK, CallType
<1> QED
  BY <1>1, LeaveType

\* The requests up to the write of the flow.
LEMMA RequestType ==
  ASSUME TypeOK, NEW c \in Callers, UNCHANGED shared,
         Check(c) \/ SendSignal(c) \/ TimerFires(c)
  PROVE  TypeOK'
<1>1. UNCHANGED <<shared, stored, flows, jobs, listed, runVars, continued, kept, executed,
                  dropped, overlap, faults, crashes>> /\ FlowID' = FlowID
  BY DEF Check, SendSignal, TimerFires, caseVars, histVars, FlowID
<1>2. CallType'
  <2>1. CASE Check(c)
    BY <1>1, <2>1 DEF TypeOK, CallType, Check, runVars
  <2>2. CASE SendSignal(c)
    BY <1>1, <2>2 DEF TypeOK, CallType, SendSignal, runVars
  <2>3. CASE TimerFires(c)
    BY <1>1, <2>3 DEF TypeOK, CallType, TimerFires, runVars
  <2> QED
    BY <2>1, <2>2, <2>3
<1>3. raced' \subseteq FlowID /\ calls' \in Nat
  BY DEF TypeOK, HistoryType, Check, SendSignal, TimerFires, Reads, histVars
<1> QED
  BY <1>1, <1>2, <1>3 DEF TypeOK, HistoryType

LEMMA ListFlowsType ==
  ASSUME TypeOK, NEW c \in Callers, UNCHANGED shared, ListFlows(c)
  PROVE  TypeOK'
<1>1. UNCHANGED <<shared, stored, flows, jobs, continued, kept, executed, dropped, overlap,
                  bounds>> /\ FlowID' = FlowID
  BY DEF ListFlows, caseVars, FlowID
<1>2. PICK found \in SUBSET FlowID : Leave(c, found) /\ (UNCHANGED raced \/ Reads(c, found))
  BY DEF ListFlows
<1>3. CallType'
  BY <1>1, <1>2, LeaveType
<1>4. raced' \subseteq FlowID
  BY <1>2 DEF TypeOK, HistoryType, Reads
<1> QED
  BY <1>1, <1>3, <1>4 DEF TypeOK, HistoryType, bounds

LEMMA VisitType ==
  ASSUME TypeOK, NEW c \in Callers, UNCHANGED shared, Visit(c)
  PROVE  TypeOK'
<1>1. UNCHANGED <<shared, stored, flows, jobs, continued, kept, executed, dropped, overlap,
                  bounds>> /\ FlowID' = FlowID
  BY DEF Visit, caseVars, FlowID
<1>2. PICK f \in listed[c] :
        \/ /\ at' = [at EXCEPT ![c] = "checked"]
           /\ target' = [target EXCEPT ![c] = f]
           /\ listed' = [listed EXCEPT ![c] = @ \ {f}]
           /\ Reads(c, {f})
           /\ UNCHANGED <<call, runVars>>
        \/ Leave(c, listed[c] \ {f}) /\ UNCHANGED raced
  BY DEF Visit
<1>3. f \in FlowID /\ listed[c] \ {f} \in SUBSET FlowID
  BY DEF TypeOK, CallType
<1>4. CASE Leave(c, listed[c] \ {f}) /\ UNCHANGED raced
  <2>1. CallType'
    BY <1>1, <1>3, <1>4, LeaveType
  <2> QED
    BY <1>1, <1>4, <2>1 DEF TypeOK, HistoryType, bounds
<1>5. CASE /\ at' = [at EXCEPT ![c] = "checked"]
           /\ target' = [target EXCEPT ![c] = f]
           /\ listed' = [listed EXCEPT ![c] = @ \ {f}]
           /\ Reads(c, {f})
           /\ UNCHANGED <<call, runVars>>
  <2>1. CallType'
    BY <1>1, <1>3, <1>5 DEF TypeOK, CallType, runVars
  <2>2. raced' \subseteq FlowID
    BY <1>3, <1>5 DEF TypeOK, HistoryType, Reads
  <2> QED
    BY <1>1, <2>1, <2>2 DEF TypeOK, HistoryType, bounds
<1> QED
  BY <1>2, <1>4, <1>5

LEMMA UpdateFlowType ==
  ASSUME TypeOK, NEW c \in Callers, UpdateFlow(c), UNCHANGED shared
  PROVE  TypeOK'
<1>1. PICK s \in {"ACTIVE", "COMPLETED"} :
        /\ Writes(target[c], s)
        /\ s = "ACTIVE" => Leave(c, {})
        /\ s = "COMPLETED" => /\ at' = [at EXCEPT ![c] = "accepted"]
                              /\ UNCHANGED <<call, target, listed, runVars>>
  BY UpdateFlowWrites
<1>2. flows' \in Seq(FlowRecord) /\ FlowID' = FlowID /\ Len(flows') = Len(flows)
  BY <1>1, Written
<1>3. target[c] \in FlowID
  BY <1>1 DEF Writes
<1>4. CallType'
  <2>1. CASE s = "ACTIVE"
    <3>1. {} \in SUBSET FlowID'
      OBVIOUS
    <3> QED
      BY <1>1, <1>2, <2>1, <3>1, LeaveType
  <2>2. CASE s = "COMPLETED"
    BY <1>1, <1>2, <1>3, <2>2 DEF TypeOK, CallType, runVars
  <2> QED
    BY <2>1, <2>2
<1> QED
  BY <1>2, <1>4 DEF TypeOK, HistoryType, UpdateFlow, histVars, bounds

\* What sanitizeVariables leaves is an instance.
LEMMA SanitizedType ==
  ASSUME NEW inst \in Sanitized(stored), stored \in InstanceRecord
  PROVE  /\ inst \in InstanceRecord
         /\ inst.Variables \subseteq Sane(stored.Variables)
         /\ Cardinality(Sane(stored.Variables)) <= MaxSize
              => inst.Variables = Sane(stored.Variables)
<1> DEFINE sane == Sane(stored.Variables)
<1>1. sane \subseteq stored.Variables
  BY DEF Sane
<1>2. sane \in SUBSET Nat
  BY <1>1 DEF InstanceRecord
<1>3. CASE Cardinality(sane) <= MaxSize
  <2>1. inst = [stored EXCEPT !.Variables = sane]
    BY <1>3 DEF Sanitized
  <2> HIDE DEF sane
  <2>2. inst \in InstanceRecord /\ inst.Variables = sane
    BY <1>2, <2>1 DEF InstanceRecord
  <2> QED
    BY <2>2 DEF sane
<1>4. CASE ~(Cardinality(sane) <= MaxSize)
  <2>1. inst \in Reductions(stored)
    BY <1>4 DEF Sanitized
  <2>2. PICK few \in Few(stored.Variables), lost \in SUBSET {"armed", "resolved", "winner"} :
          inst = Reduced(stored, few, lost)
    BY <2>1 DEF Reductions
  <2>3. few \subseteq sane
    BY <2>2 DEF Few
  <2> HIDE DEF sane
  <2>4. inst \in InstanceRecord /\ inst.Variables = few
    BY <1>2, <2>2, <2>3 DEF Reduced, InstanceRecord
  <2> QED
    BY <1>4, <2>3, <2>4 DEF sane
<1> QED
  BY <1>3, <1>4

\* Load takes the case up, or the caller leaves.
Takes(c, inst) ==
  /\ IsValidTransition(stored.Status, "IN_PROGRESS")
  /\ inst \in Sanitized(stored)
  /\ copy' = [copy EXCEPT ![c] = [inst EXCEPT !.Status = "IN_PROGRESS",
                                              !.Variables = @ \cup Brings(c)]]
  /\ at' = [at EXCEPT ![c] = "loaded"]
  /\ overlap' = (overlap \/ \E d \in Callers : Continuing(d))
  /\ UNCHANGED <<call, target, listed, once, closing, work, results>>

LEMMA LoadTakes ==
  ASSUME NEW c \in Callers, Load(c)
  PROVE  /\ at[c] = "accepted"
         /\ UNCHANGED <<caseVars, continued, raced, kept, executed, dropped, bounds>>
         /\ (\E inst : Takes(c, inst)) \/ (Leave(c, listed[c]) /\ UNCHANGED overlap)
BY DEF Load, Takes

LEMMA LoadType ==
  ASSUME TypeOK, NEW c \in Callers, Load(c), UNCHANGED shared
  PROVE  TypeOK'
<1>1. /\ UNCHANGED <<stored, flows, jobs, continued, raced, kept, executed, dropped, bounds>>
      /\ FlowID' = FlowID /\ at[c] = "accepted"
  BY LoadTakes DEF caseVars, FlowID
<1>2. CASE Leave(c, listed[c]) /\ UNCHANGED overlap
  <2>1. CallType'
    BY <1>1, <1>2, LeaveListedType
  <2> QED
    BY <1>1, <1>2, <2>1 DEF TypeOK, HistoryType, bounds
<1>3. CASE \E inst : Takes(c, inst)
  <2>1. PICK inst : Takes(c, inst)
    BY <1>3
  <2>2. inst \in InstanceRecord
    BY <2>1, SanitizedType DEF Takes, TypeOK
  <2>3. Brings(c) \subseteq Nat /\ target[c] \in FlowID
    BY <1>1 DEF TypeOK, CallType, FlowID, Brings
  <2> DEFINE new == [inst EXCEPT !.Status = "IN_PROGRESS", !.Variables = @ \cup Brings(c)]
  <2>4. new \in InstanceRecord
    BY <2>2, <2>3 DEF InstanceRecord, State
  <2>5. /\ copy' = [copy EXCEPT ![c] = new] /\ at' = [at EXCEPT ![c] = "loaded"]
        /\ overlap' = (overlap \/ \E d \in Callers : Continuing(d))
        /\ UNCHANGED <<call, target, listed, once, closing, work, results>>
    BY <2>1 DEF Takes
  <2> HIDE DEF new
  <2>6. CallType'
    BY <1>1, <2>3, <2>4, <2>5 DEF TypeOK, CallType
  <2>7. overlap' \in BOOLEAN
    BY <2>5 DEF TypeOK, HistoryType
  <2> QED
    BY <1>1, <2>6, <2>7 DEF TypeOK, HistoryType, bounds
<1> QED
  BY <1>2, <1>3, LoadTakes

LEMMA InterruptType ==
  ASSUME TypeOK, NEW c \in Callers, Interrupt(c), UNCHANGED shared
  PROVE  TypeOK'
<1>1. UNCHANGED <<shared, stored, flows, jobs, call, target, listed, copy, once, work, results,
                  continued, kept, executed, dropped, overlap, calls, crashes>>
      /\ FlowID' = FlowID /\ at[c] = "loaded" /\ at' = [at EXCEPT ![c] = "cancelling"]
  BY DEF Interrupt, caseVars, FlowID
<1>2. PICK open \in SUBSET FlowID :
        \/ closing' = [closing EXCEPT ![c] = open] /\ Reads(c, open) /\ UNCHANGED faults
        \/ StoreFails /\ UNCHANGED <<closing, raced>>
  BY DEF Interrupt
<1>3. CallType'
  BY <1>1, <1>2 DEF TypeOK, CallType
<1>4. raced' \subseteq FlowID /\ faults' \in Nat
  BY <1>2 DEF TypeOK, HistoryType, Reads, StoreFails, Disturbance
<1> QED
  BY <1>1, <1>3, <1>4 DEF TypeOK, HistoryType

LEMMA CancelOneType ==
  ASSUME TypeOK, NEW c \in Callers, CancelOne(c), UNCHANGED shared
  PROVE  TypeOK'
<1>1. PICK f \in closing[c] :
        /\ closing' = [closing EXCEPT ![c] = @ \ {f}]
        /\ UNCHANGED flows \/ Writes(f, "COMPLETED")
        /\ UNCHANGED faults \/ faults' = faults + 1
  BY CancelOneWrites
<1>2. flows' \in Seq(FlowRecord) /\ Len(flows') = Len(flows) /\ FlowID' = FlowID
  BY <1>1, Written DEF TypeOK, FlowID
<1>3. UNCHANGED <<stored, jobs, callVars, copy, once, work, results, histVars, calls, crashes>>
  BY DEF CancelOne
<1>4. CallType'
  BY <1>1, <1>2, <1>3 DEF TypeOK, CallType, callVars
<1>5. faults' \in Nat
  BY <1>1 DEF TypeOK, HistoryType
<1> QED
  BY <1>2, <1>3, <1>4, <1>5 DEF TypeOK, HistoryType, histVars

\* A gateway is resolved, and a copy completed, as an instance.
LEMMA ResolvedType ==
  ASSUME NEW inst \in InstanceRecord, NEW e \in Elements, NEW c
  PROVE  /\ Resolved(inst, e) \in InstanceRecord /\ Resolved(inst, e).Variables = inst.Variables
         /\ Finished(c, inst) \in InstanceRecord /\ Finished(c, inst).Variables = inst.Variables
BY DEF Resolved, Finished, InstanceRecord, State

\* Answers go on being answers when records are added.
LEMMA ResultsStay ==
  ASSUME TypeOK, UNCHANGED results, FlowID \subseteq FlowID'
  PROVE  results' \in [Callers -> SUBSET [flow : FlowID', ans : ExecutionResult]]
<1> DEFINE R == [flow : FlowID, ans : ExecutionResult]
           R2 == [flow : FlowID', ans : ExecutionResult]
<1>1. R \subseteq R2
  OBVIOUS
<1>2. results \in [Callers -> SUBSET R]
  BY DEF TypeOK, CallType
<1> HIDE DEF R, R2
<1>3. results' \in [Callers -> SUBSET R2]
  BY <1>1, <1>2
<1> QED
  BY <1>3 DEF R2

LEMMA GoOnType ==
  ASSUME TypeOK, NEW c \in Callers, GoOn(c), UNCHANGED shared
  PROVE  TypeOK'
<1> DEFINE e == element(c)
<1>1. target[c] \in FlowID /\ e \in Elements
  BY TargetType DEF GoOn, Continuing
<1>2. /\ UNCHANGED <<stored, jobs, call, target, listed, once, closing, results, raced, kept,
                     executed, dropped, overlap, bounds>>
      /\ at' = [at EXCEPT ![c] = "running"]
  BY DEF GoOn
<1> HIDE DEF e
<1>3. CASE UNCHANGED <<copy, flows, continued, work>>
  BY <1>1, <1>2, <1>3 DEF TypeOK, CallType, HistoryType, FlowID, bounds
<1>4. CASE ~UNCHANGED <<copy, flows, continued, work>>
  <2>1. /\ copy' = [copy EXCEPT ![c] = Resolved(@, e)]
           \/ copy' = [copy EXCEPT ![c] = Finished(c, Resolved(@, e))]
        /\ \E s :
             /\ Adds(s)
             /\ continued' = [continued EXCEPT ![target[c]] = @ + 1] \o NoneContinued(s)
             /\ work' = [work EXCEPT ![c] = {Len(flows) + i : i \in DOMAIN s}]
    BY <1>4, GoOnAdds DEF e
  <2>2. PICK s :
             /\ Adds(s)
             /\ continued' = [continued EXCEPT ![target[c]] = @ + 1] \o NoneContinued(s)
             /\ work' = [work EXCEPT ![c] = {Len(flows) + i : i \in DOMAIN s}]
    BY <2>1
  <2>3. /\ flows' \in Seq(FlowRecord) /\ FlowID \subseteq FlowID'
        /\ {Len(flows) + i : i \in DOMAIN s} \subseteq FlowID'
    BY <2>2, Added
  <2> DEFINE counts == [continued EXCEPT ![target[c]] = @ + 1]
  <2>4. counts \in Seq(Nat) /\ Len(counts) = Len(flows)
    BY <1>1 DEF FlowID, TypeOK, HistoryType
  <2> HIDE DEF counts
  <2>5. continued' = counts \o NoneContinued(s)
    BY <2>2 DEF counts
  <2>6. continued' \in Seq(Nat) /\ Len(continued') = Len(flows')
    BY <2>2, <2>4, <2>5, Counted
  <2>7. copy' \in [Callers -> InstanceRecord]
    <3>1. copy[c] \in InstanceRecord
      BY DEF TypeOK, CallType
    <3>2. Resolved(copy[c], e) \in InstanceRecord
      BY <1>1, <3>1, ResolvedType
    <3>3. Finished(c, Resolved(copy[c], e)) \in InstanceRecord
      BY <1>1, <3>2, ResolvedType
    <3> QED
      BY <2>1, <3>2, <3>3 DEF TypeOK, CallType
  <2>a. work' \in [Callers -> SUBSET FlowID']
    <3>1. work \in [Callers -> SUBSET FlowID]
      BY DEF TypeOK, CallType
    <3> DEFINE new == {Len(flows) + i : i \in DOMAIN s}
    <3>2. work' = [work EXCEPT ![c] = new] /\ new \subseteq FlowID'
      BY <2>2, <2>3
    <3> HIDE DEF new
    <3> QED
      BY <2>3, <3>1, <3>2
  <2>8. CallType'
    BY <1>1, <1>2, <2>3, <2>7, <2>a, ResultsStay DEF TypeOK, CallType
  <2>9. HistoryType'
    BY <1>2, <2>3, <2>6 DEF TypeOK, HistoryType, bounds
  <2> QED
    BY <1>2, <2>3, <2>8, <2>9 DEF TypeOK
<1> QED
  BY <1>3, <1>4

\* Records that are added count no continuation.
LEMMA AddsType ==
  ASSUME TypeOK, NEW s, Adds(s), continued' = continued \o NoneContinued(s)
  PROVE  /\ flows' \in Seq(FlowRecord) /\ FlowID \subseteq FlowID'
         /\ {Len(flows) + i : i \in DOMAIN s} = FlowID' \ FlowID
         /\ \A f \in FlowID : flows'[f] = flows[f] /\ continued'[f] = continued[f]
         /\ \A f \in FlowID' \ FlowID : flows'[f].status = "ACTIVE" /\ continued'[f] = 0
         /\ continued' \in Seq(Nat) /\ Len(continued') = Len(flows')
<1>1. continued \in Seq(Nat) /\ Len(continued) = Len(flows)
  BY DEF TypeOK, HistoryType
<1> QED
  BY <1>1, Added, Counted

\* So do those that stay behind when the caller leaves.
LEMMA AddsAndLeaves ==
  ASSUME TypeOK, NEW c \in Callers, Leave(c, listed[c]), UNCHANGED shared,
         \E s : Adds(s) /\ continued' = continued \o NoneContinued(s),
         faults' \in Nat, dropped' \subseteq FlowID,
         UNCHANGED <<stored, jobs, raced, kept, executed, overlap, calls, crashes>>
  PROVE  TypeOK'
<1>1. /\ flows' \in Seq(FlowRecord) /\ FlowID \subseteq FlowID'
      /\ continued' \in Seq(Nat) /\ Len(continued') = Len(flows')
  BY AddsType
<1>2. CallType'
  BY <1>1, LeaveListedType
<1> QED
  BY <1>1, <1>2 DEF TypeOK, HistoryType

LEMMA GoesNowhereType ==
  ASSUME TypeOK, NEW c \in Callers, GoesNowhere(c), UNCHANGED shared
  PROVE  TypeOK'
<1>1. /\ faults' = faults + 1
      /\ \E made : Adds(made) /\ continued' = continued \o NoneContinued(made)
  BY GoesNowhereAdds
<1>2. /\ Leave(c, listed[c])
      /\ UNCHANGED <<stored, jobs, raced, kept, executed, dropped, overlap, calls, crashes>>
  BY DEF GoesNowhere
<1>3. faults' \in Nat /\ dropped' \subseteq FlowID
  BY <1>1, <1>2 DEF TypeOK, HistoryType
<1> QED
  BY <1>1, <1>2, <1>3, AddsAndLeaves

LEMMA ExecuteElementType ==
  ASSUME TypeOK, NEW c \in Callers, ExecuteElement(c), UNCHANGED shared
  PROVE  TypeOK'
<1>1. PICK f, complete, a : Executes(c, f, complete, a) /\ f \in FlowID /\ a \in ExecutionResult
  BY ExecuteElementExecutes
<1>2. flows' \in Seq(FlowRecord) /\ FlowID' = FlowID /\ Len(flows') = Len(flows)
  BY <1>1, Written DEF Executes, TypeOK, FlowID
<1>3. UNCHANGED <<stored, jobs, callVars, copy, once, closing, continued, raced, kept,
                  overlap, calls, crashes>>
  BY DEF ExecuteElement
<1>4. CallType'
  <2>1. [flow |-> f, ans |-> a] \in [flow : FlowID, ans : ExecutionResult]
    BY <1>1
  <2>2. results' \in [Callers -> SUBSET [flow : FlowID, ans : ExecutionResult]]
    <3> DEFINE R == [flow : FlowID, ans : ExecutionResult]
               r == [flow |-> f, ans |-> a]
    <3>1. results \in [Callers -> SUBSET R] /\ r \in R
          /\ results' = [results EXCEPT ![c] = @ \cup {r}]
      BY <1>1, <2>1 DEF TypeOK, CallType, Executes
    <3> HIDE DEF R, r
    <3>2. results' \in [Callers -> SUBSET R]
      BY <3>1
    <3> QED
      BY <3>2 DEF R
  <2>3. work' \in [Callers -> SUBSET FlowID]
    BY <1>1 DEF Executes, TypeOK, CallType
  <2> QED
    BY <1>2, <1>3, <2>2, <2>3 DEF TypeOK, CallType, callVars
<1>5. executed' \subseteq FlowID /\ dropped' \subseteq FlowID /\ faults' \in Nat
  BY <1>1 DEF Executes, TypeOK, HistoryType
<1> QED
  BY <1>2, <1>3, <1>4, <1>5 DEF TypeOK, HistoryType

\* The answers that are lost are of flows.
LEMMA UnhandledType ==
  ASSUME TypeOK, NEW c \in Callers PROVE Unhandled(c) \subseteq FlowID
<1>1. \A r \in results[c] : r.flow \in FlowID
  BY AnswerType
<1> QED
  BY <1>1 DEF Unhandled

\* An answer less.
LEMMA HandlesType ==
  ASSUME TypeOK, NEW c \in Callers, NEW r, Handles(c, r), FlowID \subseteq FlowID'
  PROVE  results' \in [Callers -> SUBSET [flow : FlowID', ans : ExecutionResult]]
<1> DEFINE R == [flow : FlowID, ans : ExecutionResult]
           R2 == [flow : FlowID', ans : ExecutionResult]
<1>1. R \subseteq R2
  OBVIOUS
<1>2. results \in [Callers -> SUBSET R]
  BY DEF TypeOK, CallType
<1> HIDE DEF R, R2
<1>3. results' \in [Callers -> SUBSET R2]
  BY <1>1, <1>2 DEF Handles
<1> QED
  BY <1>3 DEF R2

LEMMA RoutesType ==
  ASSUME TypeOK, NEW c \in Callers, NEW r \in results[c], Routes(c, r.flow, r.ans), Handles(c, r),
         UNCHANGED <<shared, stored, raced, kept, executed, overlap, calls, crashes>>
  PROVE  TypeOK'
<1>1. PICK s : /\ Adds(s) /\ continued' = continued \o NoneContinued(s)
               /\ work' = [work EXCEPT ![c] = @ \cup {Len(flows) + i : i \in DOMAIN s}]
  BY RoutesAdds
<1>2. /\ flows' \in Seq(FlowRecord) /\ FlowID \subseteq FlowID'
      /\ {Len(flows) + i : i \in DOMAIN s} \subseteq FlowID'
      /\ continued' \in Seq(Nat) /\ Len(continued') = Len(flows')
  BY <1>1, AddsType
<1>3. UNCHANGED <<jobs, callVars, copy, once, closing, dropped, faults>>
  BY DEF Routes
<1>4. CallType'
  BY <1>1, <1>2, <1>3, HandlesType DEF TypeOK, CallType, callVars
<1> QED
  BY <1>2, <1>3, <1>4 DEF TypeOK, HistoryType

LEMMA EndsType ==
  ASSUME TypeOK, NEW c \in Callers, NEW r \in results[c], Ends(c, r.flow, r.ans), Handles(c, r),
         UNCHANGED <<shared, stored, raced, kept, executed, overlap, calls, crashes>>
  PROVE  TypeOK'
<1>1. UNCHANGED <<flows, jobs, callVars, closing, work, continued, dropped, faults>>
      /\ FlowID' = FlowID
  BY DEF Ends, FlowID
<1>2. copy' \in [Callers -> InstanceRecord] /\ once' \in [Callers -> BOOLEAN]
  <2>1. Finished(c, copy[c]) \in InstanceRecord
    BY DEF TypeOK, CallType, Finished, InstanceRecord, State
  <2> QED
    BY <2>1 DEF Ends, TypeOK, CallType
<1>3. CallType'
  BY <1>1, <1>2, HandlesType DEF TypeOK, CallType, callVars
<1> QED
  BY <1>1, <1>3 DEF TypeOK, HistoryType

\* The copy of a run that waits.
LEMMA WaitingCopy ==
  ASSUME TypeOK, NEW c \in Callers, NEW e \in Elements
  PROVE  /\ [Arms(copy[c], e) EXCEPT !.Status = "WAITING"] \in InstanceRecord
         /\ [Arms(copy[c], e) EXCEPT !.Status = "WAITING"].Variables = copy[c].Variables
<1>1. copy[c] \in InstanceRecord
  BY DEF TypeOK, CallType
<1>2. Arms(copy[c], e) \in InstanceRecord /\ Arms(copy[c], e).Variables = copy[c].Variables
  BY <1>1 DEF Arms, InstanceRecord
<1> QED
  BY <1>2 DEF InstanceRecord, State

LEMMA WaitsType ==
  ASSUME TypeOK, NEW c \in Callers, NEW r \in results[c], Waits(c, r.flow, r.ans), Handles(c, r),
         UNCHANGED <<shared, stored, raced, kept, executed, overlap, calls, crashes>>
  PROVE  TypeOK'
<1> DEFINE e == flows[r.flow].element
<1>1. r.flow \in FlowID /\ e \in Elements
  BY AnswerType
<1>2. PICK s :
        LET due == {Len(flows) + i : i \in {k \in DOMAIN s : s[k] \in BoundaryTimers(e)}}
                     \cup (IF r.ans.ContinueAt THEN {r.flow} ELSE {})
        IN  /\ Adds(s) /\ continued' = continued \o NoneContinued(s)
            /\ jobs' \subseteq jobs \cup due
            /\ UNCHANGED faults \/ faults' = faults + 1
  BY WaitsAdds
<1>3. /\ flows' \in Seq(FlowRecord) /\ FlowID \subseteq FlowID'
      /\ {Len(flows) + i : i \in DOMAIN s} \subseteq FlowID'
      /\ continued' \in Seq(Nat) /\ Len(continued') = Len(flows')
  BY <1>2, AddsType
<1>4. copy' = [copy EXCEPT ![c] = [Arms(@, e) EXCEPT !.Status = "WAITING"]]
      /\ UNCHANGED <<callVars, once, closing, work, dropped>>
  BY DEF Waits
<1> HIDE DEF e
<1>5. jobs' \subseteq FlowID'
  <2>1. {Len(flows) + i : i \in {k \in DOMAIN s : s[k] \in BoundaryTimers(e)}} \subseteq FlowID'
    BY <1>3
  <2> QED
    BY <1>1, <1>2, <1>3, <2>1 DEF TypeOK
<1>6. copy' \in [Callers -> InstanceRecord]
  BY <1>1, <1>4, WaitingCopy DEF TypeOK, CallType
<1>7. faults' \in Nat
  BY <1>2 DEF TypeOK, HistoryType
<1>8. CallType'
  BY <1>3, <1>4, <1>6, HandlesType DEF TypeOK, CallType, callVars
<1> QED
  BY <1>3, <1>4, <1>5, <1>7, <1>8 DEF TypeOK, HistoryType

LEMMA HandleResultType ==
  ASSUME TypeOK, NEW c \in Callers, HandleResult(c), UNCHANGED shared
  PROVE  TypeOK'
<1>1. PICK r \in results[c] :
        \/ /\ Handles(c, r)
           /\ Routes(c, r.flow, r.ans) \/ Ends(c, r.flow, r.ans) \/ Waits(c, r.flow, r.ans)
        \/ /\ Abandons(c)
           /\ Breaks(c, r.flow, r.ans) \/ Strands(c, r.flow, r.ans)
  BY HandleResultHandles
<1>2. UNCHANGED <<shared, stored, raced, kept, executed, overlap, calls, crashes>>
  BY DEF HandleResult
<1>3. dropped \cup Unhandled(c) \subseteq FlowID
  BY UnhandledType DEF TypeOK, HistoryType
<1>4. CASE Abandons(c) /\ Breaks(c, r.flow, r.ans)
  <2>1. UNCHANGED <<flows, jobs, continued, faults>> /\ FlowID' = FlowID
    BY <1>4 DEF Breaks, FlowID
  <2>2. CallType'
    BY <1>4, <2>1, LeaveListedType DEF Abandons
  <2> QED
    BY <1>2, <1>3, <1>4, <2>1, <2>2 DEF TypeOK, HistoryType, Abandons
<1>5. CASE Abandons(c) /\ Strands(c, r.flow, r.ans)
  <2>a. /\ \E s : Adds(s) /\ continued' = continued \o NoneContinued(s)
        /\ faults' = faults + 1
    BY <1>5, StrandsAdds
  <2>1. faults' \in Nat /\ UNCHANGED jobs
    BY <1>5, <2>a DEF Strands, TypeOK, HistoryType
  <2> QED
    BY <1>2, <1>3, <1>5, <2>a, <2>1, AddsAndLeaves DEF Abandons
<1> QED
  BY <1>1, <1>2, <1>4, <1>5, RoutesType, EndsType, WaitsType

LEMMA FinalizeType ==
  ASSUME TypeOK, NEW c \in Callers, Finalize(c), UNCHANGED shared
  PROVE  TypeOK'
<1>1. /\ stored' = copy[c] /\ kept' = kept \cup Brings(c) /\ Leave(c, listed[c])
      /\ UNCHANGED <<flows, jobs, continued, raced, executed, dropped, overlap, bounds>>
  BY DEF Finalize
<1>2. FlowID' = FlowID /\ CallType'
  BY <1>1, LeaveListedType DEF FlowID
<1>3. target[c] \in FlowID
  BY TargetType DEF Finalize, Continuing
<1>4. stored' \in InstanceRecord /\ kept' \subseteq FlowID
  BY <1>1, <1>3 DEF TypeOK, CallType, HistoryType, Brings
<1> QED
  BY <1>1, <1>2, <1>4 DEF TypeOK, HistoryType, bounds

LEMMA FailsType ==
  ASSUME TypeOK, NEW c \in Callers, Fails(c), UNCHANGED shared
  PROVE  TypeOK'
<1>1. /\ Leave(c, listed[c]) /\ faults' = faults + 1 /\ dropped' = dropped \cup Unhandled(c)
      /\ UNCHANGED <<stored, flows, jobs, continued, raced, kept, executed, overlap, calls,
                     crashes>>
  BY DEF Fails, Disturbance, caseVars
<1>2. FlowID' = FlowID
  BY <1>1 DEF FlowID
<1>3. CallType'
  BY <1>1, <1>2, LeaveListedType
<1>4. dropped' \subseteq FlowID
  BY <1>1, UnhandledType DEF TypeOK, HistoryType
<1> QED
  BY <1>1, <1>2, <1>3, <1>4 DEF TypeOK, HistoryType

LEMMA CrashType ==
  ASSUME TypeOK, Crash, UNCHANGED shared
  PROVE  TypeOK'
<1>1. UNCHANGED <<stored, flows, jobs, continued, raced, kept, executed, overlap, calls, faults>>
      /\ crashes' = crashes + 1 /\ FlowID' = FlowID
  BY DEF FlowID, Crash, caseVars
<1>2. CallType'
  BY NewInstanceType DEF Crash, CallType
<1>3. dropped' \subseteq FlowID
  BY UnhandledType DEF TypeOK, HistoryType, Crash
<1> QED
  BY <1>1, <1>2, <1>3 DEF TypeOK, HistoryType

\* A step that changes nothing.
LEMMA StutterType ==
  ASSUME TypeOK, UNCHANGED vars PROVE TypeOK'
BY DEF TypeOK, CallType, HistoryType, FlowID, vars, caseVars, callVars, runVars, histVars, bounds

\* Every variable of Continuation keeps to its values.
THEOREM CallersTypeInvariant == Spec => []TypeOK
<1>1. ASSUME TypeOK, [Next]_vars PROVE TypeOK'
  <2>1. CASE UNCHANGED vars
    BY <1>1, <2>1, StutterType
  <2>2. CASE Crash /\ UNCHANGED shared
    BY <1>1, <2>2, CrashType
  <2>3. ASSUME NEW c \in Callers, UNCHANGED shared, Request(c) PROVE TypeOK'
    BY <1>1, <2>3, RequestType, ListFlowsType, VisitType, UpdateFlowType DEF Request
  <2>4. ASSUME NEW c \in Callers, UNCHANGED shared, Continue(c) \/ Fails(c) PROVE TypeOK'
    BY <1>1, <2>4, LoadType, InterruptType, CancelOneType, GoOnType, GoesNowhereType,
       ExecuteElementType, HandleResultType, FinalizeType, FailsType DEF Continue
  <2> QED
    BY <1>1, <2>1, <2>2, <2>3, <2>4 DEF Next, Rest
<1> QED
  BY <1>1, InitType, PTL DEF Spec

----------------------------------------------------------------------------
(* Who has something in hand, and the answers.                             *)

LEMMA HandInit == Init => HandInv
BY DEF Init, HandInv

\* Caller c steps, and the others keep what they have.
LEMMA HandOthers ==
  ASSUME TypeOK, HandInv, Stays, NEW c \in Callers,
         \A d \in Callers \ {c} :
           /\ at'[d] = at[d] /\ target'[d] = target[d] /\ closing'[d] = closing[d]
           /\ work'[d] = work[d] /\ results'[d] = results[d] /\ listed'[d] = listed[d],
         closing'[c] # {} => at'[c] = "cancelling",
         work'[c] # {} \/ results'[c] # {} => at'[c] = "running",
         listed'[c] # {} => at'[c] \notin {"idle", "broadcasting"},
         at'[c] = "checked" => target'[c] \notin listed'[c],
         \A f \in listed'[c] : f \in FlowID /\ Process[flows[f].element].Type = "signalCatch"
  PROVE  HandInv'
<1>1. ASSUME NEW d \in Callers, NEW f \in listed'[d]
      PROVE  Process[flows'[f].element].Type = "signalCatch"
  <2>1. f \in FlowID /\ Process[flows[f].element].Type = "signalCatch"
    BY DEF HandInv, TypeOK, CallType
  <2> QED
    BY <2>1 DEF Stays
<1> QED
  BY <1>1 DEF HandInv

LEMMA HandLeave ==
  ASSUME TypeOK, HandInv, Stays, NEW c \in Callers, NEW rest, Leave(c, rest),
         \A f \in rest : f \in FlowID /\ Process[flows[f].element].Type = "signalCatch"
  PROVE  HandInv'
<1>1. \A d \in Callers \ {c} :
        /\ at'[d] = at[d] /\ target'[d] = target[d] /\ closing'[d] = closing[d]
        /\ work'[d] = work[d] /\ results'[d] = results[d] /\ listed'[d] = listed[d]
  BY DEF Leave, TypeOK, CallType
<1>2. /\ closing'[c] = {} /\ work'[c] = {} /\ results'[c] = {} /\ listed'[c] = rest
      /\ at'[c] = IF rest = {} THEN "idle" ELSE "visiting"
  BY DEF Leave, TypeOK, CallType
<1> QED
  BY <1>1, <1>2, HandOthers

LEMMA HandRequest ==
  ASSUME TypeOK, HandInv, Stays, NEW c \in Callers, Request(c)
  PROVE  HandInv'
<1>1. CASE Check(c) \/ SendSignal(c) \/ TimerFires(c)
  <2>1. /\ at[c] = "idle" /\ UNCHANGED <<closing, work, results, listed>>
        /\ \A d \in Callers \ {c} : at'[d] = at[d] /\ target'[d] = target[d]
    BY <1>1 DEF Check, SendSignal, TimerFires, runVars, TypeOK, CallType
  <2>2. closing[c] = {} /\ work[c] = {} /\ results[c] = {} /\ listed[c] = {}
    BY <2>1 DEF HandInv
  <2> QED
    BY <2>1, <2>2, HandOthers
<1>2. CASE ListFlows(c)
  <2>1. PICK found \in SUBSET {i \in FlowID : Process[flows[i].element].Type = "signalCatch"} :
          Leave(c, found)
    BY <1>2 DEF ListFlows
  <2> QED
    BY <2>1, HandLeave
<1>3. CASE Visit(c)
  <2>1. PICK f \in listed[c] :
          \/ /\ at' = [at EXCEPT ![c] = "checked"]
             /\ target' = [target EXCEPT ![c] = f]
             /\ listed' = [listed EXCEPT ![c] = @ \ {f}]
             /\ UNCHANGED runVars
          \/ Leave(c, listed[c] \ {f})
    BY <1>3 DEF Visit
  <2>2. at[c] = "visiting"
    BY <1>3 DEF Visit
  <2>3. \A g \in listed[c] : g \in FlowID /\ Process[flows[g].element].Type = "signalCatch"
    BY DEF HandInv, TypeOK, CallType
  <2>4. CASE Leave(c, listed[c] \ {f})
    BY <2>3, <2>4, HandLeave
  <2>5. CASE /\ at' = [at EXCEPT ![c] = "checked"]
             /\ target' = [target EXCEPT ![c] = f]
             /\ listed' = [listed EXCEPT ![c] = @ \ {f}]
             /\ UNCHANGED runVars
    <3>1. /\ at'[c] = "checked" /\ target'[c] = f /\ listed'[c] = listed[c] \ {f}
          /\ closing'[c] = {} /\ work'[c] = {} /\ results'[c] = {}
      BY <2>2, <2>5 DEF TypeOK, CallType, HandInv, runVars
    <3>2. \A d \in Callers \ {c} :
            /\ at'[d] = at[d] /\ target'[d] = target[d] /\ closing'[d] = closing[d]
            /\ work'[d] = work[d] /\ results'[d] = results[d] /\ listed'[d] = listed[d]
      BY <2>5 DEF TypeOK, CallType, runVars
    <3> QED
      BY <2>3, <3>1, <3>2, HandOthers
  <2> QED
    BY <2>1, <2>4, <2>5
<1>4. CASE UpdateFlow(c)
  <2>1. at[c] = "checked" /\ \/ Leave(c, {})
                             \/ /\ at' = [at EXCEPT ![c] = "accepted"]
                                /\ UNCHANGED <<target, listed, runVars>>
    BY <1>4 DEF UpdateFlow
  <2>2. CASE Leave(c, {})
    BY <2>2, HandLeave
  <2>3. CASE at' = [at EXCEPT ![c] = "accepted"] /\ UNCHANGED <<target, listed, runVars>>
    <3>1. at'[c] = "accepted" /\ closing'[c] = {} /\ work'[c] = {} /\ results'[c] = {}
      BY <2>1, <2>3 DEF TypeOK, CallType, HandInv, runVars
    <3>2. \A g \in listed[c] : g \in FlowID /\ Process[flows[g].element].Type = "signalCatch"
      BY DEF HandInv, TypeOK, CallType
    <3> QED
      BY <2>3, <3>1, <3>2, HandOthers DEF runVars, TypeOK, CallType
  <2> QED
    BY <2>1, <2>2, <2>3
<1> QED
  BY <1>1, <1>2, <1>3, <1>4 DEF Request

LEMMA HandContinue ==
  ASSUME TypeOK, HandInv, Stays, NEW c \in Callers, Continue(c) \/ Fails(c)
  PROVE  HandInv'
<1>1. \A g \in listed[c] : g \in FlowID /\ Process[flows[g].element].Type = "signalCatch"
  BY DEF HandInv, TypeOK, CallType
<1>2. CASE Leave(c, listed[c])
  BY <1>1, <1>2, HandLeave
<1>3. ASSUME at'[c] \in {"loaded", "cancelling", "running"}, UNCHANGED <<target, listed>>,
             closing'[c] # {} => at'[c] = "cancelling",
             work'[c] # {} \/ results'[c] # {} => at'[c] = "running",
             \A d \in Callers \ {c} :
               /\ at'[d] = at[d] /\ closing'[d] = closing[d]
               /\ work'[d] = work[d] /\ results'[d] = results[d]
      PROVE  HandInv'
  BY <1>1, <1>3, HandOthers
<1>4. CASE Load(c)
  <2>1. CASE \E inst : Takes(c, inst)
    <3>1. /\ at[c] = "accepted" /\ at' = [at EXCEPT ![c] = "loaded"]
          /\ UNCHANGED <<target, listed, closing, work, results>>
      BY <1>4, <2>1, LoadTakes DEF Takes
    <3>2. closing[c] = {} /\ work[c] = {} /\ results[c] = {}
      BY <3>1 DEF HandInv
    <3> QED
      BY <1>3, <3>1, <3>2 DEF TypeOK, CallType
  <2> QED
    BY <1>2, <1>4, <2>1, LoadTakes
<1>5. CASE Interrupt(c)
  <2>1. /\ at[c] = "loaded" /\ at' = [at EXCEPT ![c] = "cancelling"]
        /\ UNCHANGED <<target, listed, work, results>>
        /\ \A d \in Callers \ {c} : closing'[d] = closing[d]
    BY <1>5 DEF Interrupt, TypeOK, CallType
  <2>2. work[c] = {} /\ results[c] = {}
    BY <2>1 DEF HandInv
  <2> QED
    BY <1>3, <2>1, <2>2 DEF TypeOK, CallType
<1>6. CASE CancelOne(c)
  <2>1. /\ at[c] = "cancelling" /\ UNCHANGED <<at, target, listed, work, results>>
        /\ \A d \in Callers \ {c} : closing'[d] = closing[d]
    BY <1>6 DEF CancelOne, callVars, TypeOK, CallType
  <2>2. work[c] = {} /\ results[c] = {}
    BY <2>1 DEF HandInv
  <2> QED
    BY <1>3, <2>1, <2>2
<1>7. CASE GoOn(c)
  <2>1. /\ at[c] \in {"loaded", "cancelling"} /\ at' = [at EXCEPT ![c] = "running"]
        /\ UNCHANGED <<target, listed, closing, results>> /\ closing[c] = {}
        /\ \A d \in Callers \ {c} : work'[d] = work[d]
    BY <1>7 DEF GoOn, TypeOK, CallType, HandInv
  <2> QED
    BY <1>3, <2>1 DEF TypeOK, CallType
<1>8. CASE GoesNowhere(c) \/ Finalize(c) \/ Fails(c)
  BY <1>2, <1>8 DEF GoesNowhere, Finalize, Fails
<1>9. CASE ExecuteElement(c)
  <2>1. /\ at[c] = "running" /\ UNCHANGED <<at, target, listed, closing>>
        /\ \A d \in Callers \ {c} : work'[d] = work[d] /\ results'[d] = results[d]
    BY <1>9 DEF ExecuteElement, callVars, TypeOK, CallType
  <2>2. closing[c] = {}
    BY <2>1 DEF HandInv
  <2> QED
    BY <1>3, <2>1, <2>2
<1>10. CASE HandleResult(c)
  <2>1. PICK r \in results[c] :
          \/ /\ Handles(c, r)
             /\ Routes(c, r.flow, r.ans) \/ Ends(c, r.flow, r.ans) \/ Waits(c, r.flow, r.ans)
          \/ Abandons(c)
    BY <1>10, HandleResultHandles
  <2>2. at[c] = "running"
    BY <1>10 DEF HandleResult
  <2>3. CASE Abandons(c)
    BY <1>2, <2>3 DEF Abandons
  <2>4. CASE /\ Handles(c, r)
             /\ Routes(c, r.flow, r.ans) \/ Ends(c, r.flow, r.ans) \/ Waits(c, r.flow, r.ans)
    <3>1. /\ UNCHANGED <<at, target, listed, closing>>
          /\ \A d \in Callers \ {c} : work'[d] = work[d] /\ results'[d] = results[d]
      BY <2>4 DEF Handles, Routes, Ends, Waits, callVars, TypeOK, CallType
    <3>2. closing[c] = {}
      BY <2>2 DEF HandInv
    <3> QED
      BY <1>3, <2>2, <3>1, <3>2
  <2> QED
    BY <2>1, <2>3, <2>4
<1> QED
  BY <1>4, <1>5, <1>6, <1>7, <1>8, <1>9, <1>10 DEF Continue

LEMMA HandStep ==
  ASSUME TypeOK, HandInv, [Next]_vars PROVE HandInv'
<1>1. Stays
  BY FlowsStay
<1>2. CASE UNCHANGED vars
  BY <1>2 DEF HandInv, vars, caseVars, callVars, runVars
<1>3. CASE Crash
  BY <1>3 DEF HandInv, Crash
<1> QED
  BY <1>1, <1>2, <1>3, HandRequest, HandContinue DEF Next, Rest

\* Only a timer sets a time to continue at.
LEMMA TimerAnswers ==
  ASSUME NEW e \in Elements, NEW complete \in BOOLEAN, NEW a \in Execute(e, complete), a.ContinueAt
  PROVE  Process[e].Type = "timerEvent"
<1> SUFFICES ASSUME Process[e].Type # "timerEvent" PROVE ~a.ContinueAt
  OBVIOUS
<1>1. \A action, filters : ~Answer(action, filters).ContinueAt
  BY DEF Answer
<1>2. Process[e].Type \in Task \cup {"messageCatch", "signalCatch", "timerEvent",
                                     "parallelGateway", "eventBasedGateway", "endEvent"}
  BY Continuable
<1>3. \E action, filters : a = Answer(action, filters)
  <2>1. CASE Process[e].Type = "endEvent"
    BY <2>1 DEF Execute, EndEvent
  <2>2. CASE Process[e].Type \in {"messageCatch", "signalCatch"}
    BY <2>2 DEF Execute, CatchEvent
  <2>3. CASE Process[e].Type = "parallelGateway"
    BY <2>3 DEF Execute, ParallelGateway
  <2>4. CASE Process[e].Type = "eventBasedGateway"
    BY <2>4 DEF Execute, EventBasedGateway
  <2>5. CASE Process[e].Type = "userTask"
    BY <2>5 DEF Execute, UserTask
  <2>6. CASE Process[e].Type = "scriptTask"
    BY <2>6 DEF Execute, ScriptTask
  <2>7. CASE Process[e].Type = "aiTask"
    BY <2>7 DEF Execute, AITask
  <2> QED
    BY <1>2, <2>1, <2>2, <2>3, <2>4, <2>5, <2>6, <2>7 DEF Task
<1> QED
  BY <1>1, <1>3

\* What a parallel gateway answers.
LEMMA JoinAnswer ==
  ASSUME NEW j \in Of("parallelGateway"), NEW complete \in BOOLEAN, NEW a \in Execute(j, complete)
  PROVE  /\ a.Action # "ERROR"
         /\ complete => a = Answer("ROUTE", {})
         /\ a.Action = "ROUTE" => a = Answer("ROUTE", {})
<1>1. Process[j].Type = "parallelGateway"
  BY DEF Of
<1>2. Execute(j, complete) = ParallelGateway(j, complete)
  BY <1>1 DEF Execute
<1> QED
  BY <1>2 DEF ParallelGateway, Answer

LEMMA AnswerInit == Init => AnswerInv
<1> SUFFICES ASSUME Init PROVE AnswerInv
  OBVIOUS
<1>1. PICK opening \in Openings :
        /\ flows = [i \in DOMAIN opening |-> CreateFlowRecord(opening[i])]
        /\ jobs = {i \in DOMAIN opening : Process[opening[i]].Type = "timerEvent"}
  BY DEF Init
<1>2. opening \in Seq(Elements) /\ DOMAIN opening = 1..Len(opening) /\ Len(opening) \in Nat
  BY ContinuationAssumption, LenProperties
<1>3. Len(flows) = Len(opening)
      /\ \A i \in DOMAIN opening : flows[i].status = "ACTIVE" /\ flows[i].element = opening[i]
  BY <1>1, <1>2 DEF CreateFlowRecord
<1>4. \A c \in Callers : results[c] = {}
  BY DEF Init
<1> QED
  BY <1>1, <1>2, <1>3, <1>4 DEF AnswerInv, FlowID

\* The part of AnswerInv that a step which executes nothing keeps, if it keeps the
\* jobs or adds timers to them.
LEMMA AnswerKept ==
  ASSUME TypeOK, AnswerInv, Stays,
         \A f \in jobs' \ jobs : Process[flows'[f].element].Type = "timerEvent",
         \A c \in Callers : results'[c] \subseteq results[c],
         \A f \in FlowID : flows'[f].status \in {flows[f].status, "ACTIVE", "COMPLETED"}
  PROVE  AnswerInv'
<1>1. \A f \in jobs' : Process[flows'[f].element].Type = "timerEvent"
  <2>1. \A f \in jobs : f \in FlowID /\ Process[flows[f].element].Type = "timerEvent"
    BY DEF TypeOK, AnswerInv
  <2> QED
    BY <2>1 DEF Stays
<1>2. ASSUME NEW c \in Callers, NEW r \in results'[c]
      PROVE  \E complete \in BOOLEAN : r.ans \in Execute(flows'[r.flow].element, complete)
  <2>1. r \in results[c] /\ r.flow \in FlowID
    BY <1>2, AnswerType
  <2>2. flows'[r.flow].element = flows[r.flow].element
    BY <2>1 DEF Stays
  <2> QED
    BY <2>1, <2>2 DEF AnswerInv
<1>3. ASSUME NEW f \in FlowID', Process[flows'[f].element].Type = "parallelGateway"
      PROVE  flows'[f].status # "ERROR"
  <2>1. CASE f \in FlowID
    BY <1>3, <2>1 DEF AnswerInv, Stays
  <2>2. CASE f \notin FlowID
    BY <2>2 DEF Stays
  <2> QED
    BY <2>1, <2>2
<1> QED
  BY <1>1, <1>2, <1>3 DEF AnswerInv

LEMMA AnswerExecute ==
  ASSUME TypeOK, AnswerInv, Stays, NEW c \in Callers, ExecuteElement(c)
  PROVE  AnswerInv'
<1>1. PICK f, complete, a : Executes(c, f, complete, a) /\ f \in FlowID
  BY ExecuteElementExecutes
<1>2. UNCHANGED jobs
  BY DEF ExecuteElement
<1>3. flows[f].element \in Elements
  BY <1>1, ElementOfFlow
<1>4. /\ complete \in BOOLEAN /\ a \in Execute(flows[f].element, complete)
      /\ results' = [results EXCEPT ![c] = @ \cup {[flow |-> f, ans |-> a]}]
      /\ \/ Writes(f, StatusAfter(flows[f].element, a))
         \/ UNCHANGED flows
  BY <1>1 DEF Executes
<1>5. \A g \in jobs' : Process[flows'[g].element].Type = "timerEvent"
  BY <1>2 DEF AnswerInv, Stays, TypeOK
<1>6. ASSUME NEW d \in Callers, NEW r \in results'[d]
      PROVE  \E k \in BOOLEAN : r.ans \in Execute(flows'[r.flow].element, k)
  <2>1. CASE r \in results[d]
    <3>1. r.flow \in FlowID
      BY <2>1, AnswerType
    <3>2. flows'[r.flow].element = flows[r.flow].element
      BY <3>1 DEF Stays
    <3> QED
      BY <2>1, <3>2 DEF AnswerInv
  <2>2. CASE r \notin results[d]
    <3>1. r = [flow |-> f, ans |-> a]
      BY <1>4, <1>6, <2>2 DEF TypeOK, CallType
    <3>2. flows'[f].element = flows[f].element
      BY <1>1 DEF Stays
    <3> QED
      BY <1>4, <3>1, <3>2
  <2> QED
    BY <2>1, <2>2
<1>7. ASSUME NEW g \in FlowID', Process[flows'[g].element].Type = "parallelGateway"
      PROVE  flows'[g].status # "ERROR"
  <2>1. FlowID' = FlowID
    BY <1>4, Written DEF FlowID
  <2>2. Process[flows[g].element].Type = "parallelGateway"
    BY <1>7, <2>1 DEF Stays
  <2>3. CASE g # f \/ UNCHANGED flows
    BY <1>4, <2>1, <2>2, <2>3, Written DEF AnswerInv
  <2>4. CASE g = f /\ Writes(f, StatusAfter(flows[f].element, a))
    <3>1. flows'[f].status = StatusAfter(flows[f].element, a)
      BY <1>1, <2>4, Written
    <3>2. flows[f].element \in Of("parallelGateway")
      BY <1>3, <2>2, <2>4 DEF Of
    <3>3. a.Action # "ERROR"
      BY <1>4, <3>2, JoinAnswer
    <3> QED
      BY <2>4, <3>1, <3>3 DEF StatusAfter
  <2> QED
    BY <1>4, <2>3, <2>4
<1> QED
  BY <1>5, <1>6, <1>7 DEF AnswerInv

LEMMA AnswerHandle ==
  ASSUME TypeOK, AnswerInv, Stays, NEW c \in Callers, HandleResult(c)
  PROVE  AnswerInv'
<1>1. PICK r \in results[c] :
        \/ /\ Handles(c, r)
           /\ Routes(c, r.flow, r.ans) \/ Ends(c, r.flow, r.ans) \/ Waits(c, r.flow, r.ans)
        \/ /\ Abandons(c)
           /\ Breaks(c, r.flow, r.ans) \/ Strands(c, r.flow, r.ans)
  BY HandleResultHandles
<1>2. \A d \in Callers : results'[d] \subseteq results[d]
  BY <1>1 DEF Handles, Abandons, Leave, TypeOK, CallType
<1>3. CASE Waits(c, r.flow, r.ans)
  <2> DEFINE e == flows[r.flow].element
  <2>1. PICK s :
        LET due == {Len(flows) + i : i \in {k \in DOMAIN s : s[k] \in BoundaryTimers(e)}}
                     \cup (IF r.ans.ContinueAt THEN {r.flow} ELSE {})
        IN  Adds(s) /\ jobs' \subseteq jobs \cup due
    BY <1>3, WaitsAdds
  <2>2. /\ \A f \in FlowID : flows'[f] = flows[f]
        /\ \A i \in DOMAIN s : flows'[Len(flows) + i] = CreateFlowRecord(s[i])
    BY <2>1, Added
  <2>3. ASSUME NEW i \in DOMAIN s, s[i] \in BoundaryTimers(e)
        PROVE  Process[flows'[Len(flows) + i].element].Type = "timerEvent"
    <3>1. Process[s[i]].Type = "timerEvent"
      BY <2>3 DEF BoundaryTimers, Of
    <3>2. CreateFlowRecord(s[i]).element = s[i]
      BY DEF CreateFlowRecord
    <3> QED
      BY <2>2, <3>1, <3>2
  <2>4. ASSUME r.ans.ContinueAt PROVE Process[flows'[r.flow].element].Type = "timerEvent"
    <3>1. r.flow \in FlowID /\ e \in Elements
      BY AnswerType
    <3>2. PICK complete \in BOOLEAN : r.ans \in Execute(e, complete)
      BY DEF AnswerInv
    <3>3. Process[e].Type = "timerEvent"
      BY <2>4, <3>1, <3>2, TimerAnswers
    <3> QED
      BY <2>2, <3>1, <3>3
  <2>5. \A f \in jobs' \ jobs : Process[flows'[f].element].Type = "timerEvent"
    BY <2>1, <2>3, <2>4
  <2> QED
    BY <1>2, <2>2, <2>5, AnswerKept
<1>4. CASE ~Waits(c, r.flow, r.ans)
  <2>1. UNCHANGED jobs
    BY <1>1, <1>4 DEF Routes, Ends, Breaks, Strands
  <2>2. CASE Ends(c, r.flow, r.ans) \/ Breaks(c, r.flow, r.ans)
    BY <1>2, <2>1, <2>2, AnswerKept DEF Ends, Breaks
  <2>3. CASE Routes(c, r.flow, r.ans) \/ Strands(c, r.flow, r.ans)
    <3>1. PICK s : Adds(s)
      BY <2>3, RoutesAdds, StrandsAdds
    <3>2. \A f \in FlowID : flows'[f] = flows[f]
      BY <3>1, Added
    <3> QED
      BY <1>2, <2>1, <3>2, AnswerKept
  <2> QED
    BY <1>1, <1>4, <2>2, <2>3
<1> QED
  BY <1>3, <1>4

LEMMA AnswerStep ==
  ASSUME TypeOK, HandInv, AnswerInv, [Next]_vars PROVE AnswerInv'
<1>1. Stays
  BY FlowsStay
<1>2. ASSUME UNCHANGED <<flows, jobs>>, \A c \in Callers : results'[c] \subseteq results[c]
      PROVE  AnswerInv'
  BY <1>1, <1>2, AnswerKept
<1>3. CASE UNCHANGED vars
  BY <1>2, <1>3 DEF vars, caseVars, runVars
<1>4. CASE Crash
  BY <1>2, <1>4 DEF Crash, caseVars
<1>5. ASSUME NEW c \in Callers, Leave(c, {}) \/ \E rest : Leave(c, rest)
      PROVE  \A d \in Callers : results'[d] \subseteq results[d]
  BY <1>5 DEF Leave, TypeOK, CallType
<1>6. ASSUME NEW c \in Callers,
             \/ Check(c) \/ SendSignal(c) \/ ListFlows(c) \/ Visit(c) \/ TimerFires(c)
             \/ Load(c) \/ Interrupt(c) \/ Finalize(c) \/ Fails(c)
      PROVE  AnswerInv'
  <2>1. UNCHANGED <<flows, jobs>> /\ (UNCHANGED results \/ \E rest : Leave(c, rest))
    <3>1. CASE Load(c)
      BY <3>1, LoadTakes DEF Takes, caseVars
    <3>2. CASE Check(c) \/ SendSignal(c) \/ TimerFires(c) \/ Interrupt(c)
      BY <3>2 DEF Check, SendSignal, TimerFires, Interrupt, caseVars, runVars
    <3>3. CASE ListFlows(c) \/ Finalize(c) \/ Fails(c)
      BY <3>3 DEF ListFlows, Finalize, Fails, caseVars
    <3>4. CASE Visit(c)
      BY <3>4 DEF Visit, caseVars, runVars
    <3> QED
      BY <1>6, <3>1, <3>2, <3>3, <3>4
  <2> QED
    BY <1>2, <1>5, <2>1
<1>7. ASSUME NEW c \in Callers, UpdateFlow(c) PROVE AnswerInv'
  <2>1. PICK s \in {"ACTIVE", "COMPLETED"} :
        /\ Writes(target[c], s)
        /\ Leave(c, {}) \/ UNCHANGED runVars
    BY <1>7, UpdateFlowWrites
  <2>2. \A d \in Callers : results'[d] \subseteq results[d]
    BY <1>5, <2>1 DEF runVars
  <2>3. \A f \in FlowID : flows'[f].status \in {flows[f].status, "ACTIVE", "COMPLETED"}
    BY <2>1, Written
  <2> QED
    BY <1>1, <1>7, <2>2, <2>3, AnswerKept DEF UpdateFlow
<1>8. ASSUME NEW c \in Callers, CancelOne(c) PROVE AnswerInv'
  <2>1. \E f : UNCHANGED flows \/ Writes(f, "COMPLETED")
    BY <1>8, CancelOneWrites
  <2>2. \A f \in FlowID : flows'[f].status \in {flows[f].status, "ACTIVE", "COMPLETED"}
    BY <2>1, Written
  <2> QED
    BY <1>1, <1>8, <2>2, AnswerKept DEF CancelOne
<1>9. ASSUME NEW c \in Callers, GoOn(c) PROVE AnswerInv'
  <2>1. \A f \in FlowID : flows'[f] = flows[f]
    BY <1>9, GoOnAdds, Added
  <2> QED
    BY <1>1, <1>9, <2>1, AnswerKept DEF GoOn
<1>10. ASSUME NEW c \in Callers, GoesNowhere(c) PROVE AnswerInv'
  <2>1. \A f \in FlowID : flows'[f] = flows[f]
    BY <1>10, GoesNowhereAdds, Added
  <2>2. UNCHANGED jobs /\ Leave(c, listed[c])
    BY <1>10 DEF GoesNowhere
  <2> QED
    BY <1>1, <1>5, <2>1, <2>2, AnswerKept
<1> QED
  BY <1>1, <1>3, <1>4, <1>6, <1>7, <1>8, <1>9, <1>10, AnswerExecute, AnswerHandle
     DEF Next, Rest, Request, Continue

----------------------------------------------------------------------------
(* Flows in hand.                                                          *)

\* Only caller c moves.
Moves(c) ==
  /\ \A d \in Callers \ {c} : /\ at'[d] = at[d] /\ target'[d] = target[d]
                              /\ closing'[d] = closing[d] /\ work'[d] = work[d]
                              /\ listed'[d] = listed[d]
  /\ UNCHANGED shared
  /\ raced \subseteq raced' /\ Stays

\* Flows that are in hand, or were completed, have a record.
LEMMA InHandType ==
  ASSUME TypeOK, NEW c \in Callers, NEW f, f \in InHand(c) \/ Pending(c, f)
  PROVE  f \in FlowID
BY DEF TypeOK, CallType, InHand, Pending

\* The others have in hand what they had.
LEMMA OthersStay ==
  ASSUME NEW c \in Callers, Moves(c), NEW d \in Callers \ {c}, NEW f
  PROVE  InHand(d)' = InHand(d) /\ Pending(d, f)' = Pending(d, f)
BY DEF Moves, InHand, Pending

\* A flow stays in one hand if whoever takes it finds it free, and it is written
\* by whom it is in hand.
LEMMA OneHandStep ==
  ASSUME TypeOK, TypeOK', RaceInv, NEW c \in Callers, Moves(c),
         \A f \in FlowID \ raced' :
           /\ f \in InHand(c)' => /\ flows'[f].status = "ACTIVE"
                                  /\ \A d \in Callers \ {c} : f \notin InHand(d)
           /\ flows'[f].status = flows[f].status \/ f \in InHand(c)
  PROVE  \A f \in FlowID' \ raced' : OneHand(f)'
<1> TAKE f \in FlowID' \ raced'
<1>1. \A d \in Callers \ {c} : InHand(d)' = InHand(d)
  BY OthersStay
<1>2. CASE f \in FlowID
  <2>1. f \in FlowID \ raced /\ OneHand(f)
    BY <1>2 DEF Moves, RaceInv
  <2> QED
    BY <1>1, <1>2, <2>1 DEF OneHand
<1>3. CASE f \notin FlowID
  <2>1. \A d \in Callers \ {c} : f \notin InHand(d)'
    BY <1>1, <1>3, InHandType
  <2>2. flows'[f].status = "ACTIVE"
    BY <1>3 DEF Moves, Stays
  <2> QED
    BY <2>1, <2>2 DEF OneHand
<1> QED
  BY <1>2, <1>3

\* A flow stays with one continuation if it is left alone, if it was open, or if
\* the one that completed it goes on.
LEMMA OneContinuationStep ==
  ASSUME TypeOK, TypeOK', RaceInv, NEW c \in Callers, Moves(c),
         \A f \in FlowID' \ FlowID : continued'[f] = 0 /\ ~Pending(c, f)',
         \A f \in FlowID \ raced' : Untimed(f) =>
           \/ /\ flows'[f].status = flows[f].status /\ continued'[f] = continued[f]
              /\ Pending(c, f)' => Pending(c, f)
           \/ /\ flows[f].status = "ACTIVE" /\ continued'[f] = continued[f]
              /\ Pending(c, f)' => flows'[f].status = "COMPLETED"
           \/ /\ Pending(c, f) /\ ~Pending(c, f)' /\ continued'[f] = continued[f] + 1
              /\ flows'[f].status = flows[f].status
  PROVE  \A f \in FlowID' \ raced' : Untimed(f)' => OneContinuation(f)'
<1> SUFFICES ASSUME NEW f \in FlowID' \ raced', Untimed(f)' PROVE OneContinuation(f)'
  OBVIOUS
<1>1. \A d \in Callers \ {c} : Pending(d, f)' = Pending(d, f)
  BY OthersStay
<1>2. CASE f \in FlowID
  <2>0. Untimed(f)
    BY <1>2 DEF Moves, Stays, Untimed
  <2>1. OneContinuation(f)
    BY <1>2, <2>0 DEF Moves, RaceInv
  <2>2. CASE /\ flows'[f].status = flows[f].status /\ continued'[f] = continued[f]
             /\ Pending(c, f)' => Pending(c, f)
    BY <1>1, <2>1, <2>2 DEF OneContinuation
  <2>3. CASE /\ flows[f].status = "ACTIVE" /\ continued'[f] = continued[f]
             /\ Pending(c, f)' => flows'[f].status = "COMPLETED"
    BY <1>1, <2>1, <2>3 DEF OneContinuation
  <2>4. CASE /\ Pending(c, f) /\ ~Pending(c, f)' /\ continued'[f] = continued[f] + 1
             /\ flows'[f].status = flows[f].status
    BY <1>1, <2>1, <2>4 DEF OneContinuation
  <2> QED
    BY <1>2, <2>0, <2>2, <2>3, <2>4
<1>3. CASE f \notin FlowID
  <2>1. \A d \in Callers : ~Pending(d, f)'
    BY <1>1, <1>3, InHandType
  <2> QED
    BY <1>3, <2>1 DEF OneContinuation
<1> QED
  BY <1>2, <1>3

\* What holds of a flow in hand of c that was never in two hands.
LEMMA HeldAlone ==
  ASSUME RaceInv, NEW c \in Callers, NEW f \in FlowID \ raced, f \in InHand(c)
  PROVE  flows[f].status = "ACTIVE" /\ \A d \in Callers \ {c} : f \notin InHand(d)
BY DEF RaceInv, OneHand

\* A caller takes active flows in hand, in front of Continue.
LEMMA TakingRace ==
  ASSUME TypeOK, TypeOK', RaceInv, NEW c \in Callers, Moves(c),
         NEW S \in SUBSET FlowID, Reads(c, S) \/ (S \subseteq InHand(c) /\ UNCHANGED raced),
         UNCHANGED <<flows, continued>>,
         \A f \in S : f \notin raced' => flows[f].status = "ACTIVE",
         InHand(c)' \subseteq InHand(c) \cup S, \A f : Pending(c, f)' => Pending(c, f)
  PROVE  RaceInv'
<1>1. FlowID' = FlowID
  BY DEF FlowID
<1>2. \A f \in FlowID \ raced' : f \in InHand(c)' =>
        flows[f].status = "ACTIVE" /\ \A d \in Callers \ {c} : f \notin InHand(d)
  <2> TAKE f \in FlowID \ raced'
  <2>1. f \notin raced
    BY DEF Moves
  <2>2. f \in InHand(c) => flows[f].status = "ACTIVE" /\ \A d \in Callers \ {c} : f \notin InHand(d)
    BY <2>1, HeldAlone
  <2>3. f \in S /\ Reads(c, S) => \A d \in Callers \ {c} : f \notin InHand(d)
    BY DEF Reads
  <2> QED
    BY <2>2, <2>3
<1>3. \A f \in FlowID' \ raced' : OneHand(f)'
  BY <1>2, OneHandStep
<1>4. \A f \in FlowID' \ raced' : Untimed(f)' => OneContinuation(f)'
  BY <1>1, OneContinuationStep
<1> QED
  BY <1>3, <1>4 DEF RaceInv

\* A step that writes no flow and takes none in hand.
LEMMA IdleRace ==
  ASSUME TypeOK, TypeOK', RaceInv, NEW c \in Callers, Moves(c),
         UNCHANGED <<flows, continued, raced>>,
         InHand(c)' \subseteq InHand(c), \A f : Pending(c, f)' => Pending(c, f)
  PROVE  RaceInv'
<1>1. {} \in SUBSET FlowID /\ {} \subseteq InHand(c)
  OBVIOUS
<1> QED
  BY <1>1, TakingRace

----------------------------------------------------------------------------
(* Each step keeps RaceInv.                                                *)

\* Who leaves keeps in hand what he has listed, at most.
LEMMA LeavesHand ==
  ASSUME TypeOK, NEW c \in Callers, NEW rest, Leave(c, rest), UNCHANGED shared
  PROVE  /\ InHand(c)' = IF shared THEN {} ELSE rest
         /\ \A f : ~Pending(c, f)'
         /\ \A d \in Callers \ {c} : /\ at'[d] = at[d] /\ target'[d] = target[d]
                                     /\ closing'[d] = closing[d] /\ work'[d] = work[d]
                                     /\ listed'[d] = listed[d]
<1>1. /\ at'[c] \in {"idle", "visiting"} /\ closing'[c] = {} /\ work'[c] = {} /\ listed'[c] = rest
  BY DEF TypeOK, CallType, Leave
<1>2. \A d \in Callers \ {c} : /\ at'[d] = at[d] /\ target'[d] = target[d]
                               /\ closing'[d] = closing[d] /\ work'[d] = work[d]
                               /\ listed'[d] = listed[d]
  BY DEF TypeOK, CallType, Leave
<1>3. InHand(c)' = IF shared THEN {} ELSE rest
  BY <1>1 DEF InHand
<1>4. \A f : ~Pending(c, f)'
  BY <1>1 DEF Pending
<1> QED
  BY <1>2, <1>3, <1>4

LEMMA LeaveRace ==
  ASSUME TypeOK, TypeOK', RaceInv, NEW c \in Callers, NEW rest, Leave(c, rest),
         rest \subseteq listed[c],
         UNCHANGED <<shared, flows, continued, raced>>
  PROVE  RaceInv'
<1>1. Stays
  BY DEF Stays, FlowID
<1>2. InHand(c)' \subseteq InHand(c)
  BY LeavesHand DEF InHand
<1> QED
  BY <1>1, <1>2, LeavesHand, IdleRace DEF Moves

LEMMA CheckRace ==
  ASSUME TypeOK, TypeOK', HandInv, RaceInv, NEW c \in Callers, Check(c), UNCHANGED shared
  PROVE  RaceInv'
<1>1. PICK f0 \in FlowID :
        /\ flows[f0].status = "ACTIVE"
        /\ target' = [target EXCEPT ![c] = f0]
        /\ Reads(c, {f0})
  BY DEF Check, Serves
<1>2. /\ at[c] = "idle" /\ at' = [at EXCEPT ![c] = "checked"]
      /\ UNCHANGED <<flows, closing, work, listed, continued>>
  BY DEF Check, caseVars, runVars
<1>3. Moves(c)
  BY <1>1, <1>2 DEF Moves, Stays, Reads, FlowID, TypeOK, CallType
<1>4. InHand(c)' = {f0} /\ \A f : ~Pending(c, f)'
  <2>1. closing[c] = {} /\ work[c] = {} /\ listed[c] = {}
    BY <1>2 DEF HandInv
  <2>2. at'[c] = "checked" /\ target'[c] = f0
    BY <1>1, <1>2 DEF TypeOK, CallType
  <2> QED
    BY <1>2, <2>1, <2>2 DEF InHand, Pending
<1>5. {f0} \in SUBSET FlowID
  OBVIOUS
<1> QED
  BY <1>1, <1>2, <1>3, <1>4, <1>5, TakingRace

LEMMA SendSignalRace ==
  ASSUME TypeOK, TypeOK', HandInv, RaceInv, NEW c \in Callers, SendSignal(c), UNCHANGED shared
  PROVE  RaceInv'
<1>1. /\ at[c] = "idle" /\ at' = [at EXCEPT ![c] = "broadcasting"]
      /\ UNCHANGED <<flows, target, closing, work, listed, continued, raced>>
  BY DEF SendSignal, caseVars, runVars, histVars
<1>2. Moves(c)
  BY <1>1 DEF Moves, Stays, FlowID, TypeOK, CallType
<1>3. InHand(c)' \subseteq InHand(c) /\ \A f : ~Pending(c, f)'
  BY <1>1 DEF InHand, Pending, TypeOK, CallType
<1> QED
  BY <1>1, <1>2, <1>3, IdleRace

LEMMA ListFlowsRace ==
  ASSUME TypeOK, TypeOK', HandInv, RaceInv, NEW c \in Callers, ListFlows(c), UNCHANGED shared
  PROVE  RaceInv'
<1>1. PICK found \in SUBSET FlowID :
        /\ Leave(c, found)
        /\ IF shared THEN UNCHANGED raced
           ELSE Reads(c, found) /\ \A f \in found : flows[f].status = "ACTIVE"
  BY DEF ListFlows
<1>2. UNCHANGED <<flows, continued>>
  BY DEF ListFlows, caseVars
<1>3. Moves(c)
  BY <1>1, <1>2, LeavesHand DEF Moves, Stays, Reads, FlowID
<1>4. CASE shared
  BY <1>1, <1>2, <1>3, <1>4, LeavesHand, IdleRace
<1>5. CASE ~shared
  BY <1>1, <1>2, <1>3, <1>5, LeavesHand, TakingRace
<1> QED
  BY <1>4, <1>5

LEMMA VisitRace ==
  ASSUME TypeOK, TypeOK', HandInv, RaceInv, NEW c \in Callers, Visit(c), UNCHANGED shared
  PROVE  RaceInv'
<1>1. PICK f \in listed[c] :
        \/ /\ ~shared \/ flows[f].status = "ACTIVE"
           /\ at' = [at EXCEPT ![c] = "checked"]
           /\ target' = [target EXCEPT ![c] = f]
           /\ listed' = [listed EXCEPT ![c] = @ \ {f}]
           /\ Reads(c, {f})
           /\ UNCHANGED runVars
        \/ Leave(c, listed[c] \ {f}) /\ UNCHANGED raced
  BY DEF Visit
<1>2. UNCHANGED <<flows, continued>> /\ at[c] = "visiting"
  BY DEF Visit, caseVars
<1>3. CASE Leave(c, listed[c] \ {f}) /\ UNCHANGED raced
  BY <1>2, <1>3, LeaveRace
<1>4. CASE /\ ~shared \/ flows[f].status = "ACTIVE"
           /\ at' = [at EXCEPT ![c] = "checked"]
           /\ target' = [target EXCEPT ![c] = f]
           /\ listed' = [listed EXCEPT ![c] = @ \ {f}]
           /\ Reads(c, {f})
           /\ UNCHANGED runVars
  <2>1. Moves(c)
    BY <1>2, <1>4 DEF Moves, Stays, Reads, FlowID, TypeOK, CallType, runVars
  <2>2. /\ closing'[c] = {} /\ work'[c] = {} /\ at'[c] = "checked" /\ target'[c] = f
        /\ listed'[c] = listed[c] \ {f}
    BY <1>2, <1>4 DEF HandInv, TypeOK, CallType, runVars
  <2>3. InHand(c)' \subseteq InHand(c) \cup {f} /\ \A g : ~Pending(c, g)'
    BY <2>2 DEF InHand, Pending
  <2>4. f \in FlowID /\ {f} \in SUBSET FlowID
    BY DEF TypeOK, CallType
  <2>5. f \notin raced' => flows[f].status = "ACTIVE"
    <3>1. CASE ~shared
      <4>1. f \in InHand(c) /\ raced \subseteq raced'
        BY <3>1, <2>1 DEF InHand, Moves
      <4> QED
        BY <2>4, <4>1, HeldAlone
    <3> QED
      BY <1>4, <3>1
  <2> QED
    BY <1>2, <1>4, <2>1, <2>3, <2>4, <2>5, TakingRace
<1> QED
  BY <1>1, <1>3, <1>4

LEMMA UpdateFlowRace ==
  ASSUME TypeOK, TypeOK', HandInv, RaceInv, NEW c \in Callers, UpdateFlow(c), UNCHANGED shared
  PROVE  RaceInv'
<1> DEFINE f0 == target[c]
<1>1. PICK s \in {"ACTIVE", "COMPLETED"} :
        /\ Writes(f0, s)
        /\ s = "ACTIVE" => Leave(c, {})
        /\ s = "COMPLETED" => /\ at' = [at EXCEPT ![c] = "accepted"]
                              /\ UNCHANGED <<call, target, listed, runVars>>
  BY UpdateFlowWrites
<1>2. at[c] = "checked" /\ UNCHANGED <<raced, continued>>
  BY DEF UpdateFlow, histVars
<1>3. f0 \in FlowID /\ f0 \in InHand(c)
  BY <1>1, <1>2 DEF Writes, InHand
<1>4. /\ FlowID' = FlowID /\ Stays
      /\ \A f \in FlowID : flows'[f].status = IF f = f0 THEN s ELSE flows[f].status
  BY <1>1, Written DEF Stays
<1>5. /\ Moves(c) /\ InHand(c)' \subseteq InHand(c) \ {f0}
      /\ \A f : Pending(c, f)' => f = f0 /\ s = "COMPLETED"
  <2>1. CASE s = "ACTIVE"
    BY <1>1, <1>2, <1>4, <2>1, LeavesHand DEF Moves
  <2>2. CASE s = "COMPLETED"
    <3>1. closing[c] = {} /\ work[c] = {} /\ f0 \notin listed[c]
      BY <1>2 DEF HandInv
    <3>2. at'[c] = "accepted" /\ UNCHANGED <<target, listed, closing, work>>
      BY <1>1, <2>2 DEF TypeOK, CallType, runVars
    <3>3. InHand(c)' \subseteq InHand(c) \ {f0}
      BY <3>1, <3>2 DEF InHand
    <3>4. \A f : Pending(c, f)' => f = f0
      BY <3>2 DEF Pending
    <3>5. Moves(c)
      BY <1>1, <1>2, <1>4, <2>2, <3>2 DEF Moves, TypeOK, CallType
    <3> QED
      BY <2>2, <3>3, <3>4, <3>5
  <2> QED
    BY <2>1, <2>2
<1> HIDE DEF f0
<1>6. \A f \in FlowID' \ raced' : OneHand(f)'
  <2>1. \A f \in FlowID \ raced' : f \in InHand(c) =>
          flows[f].status = "ACTIVE" /\ \A d \in Callers \ {c} : f \notin InHand(d)
    BY <1>2, HeldAlone
  <2> QED
    BY <1>3, <1>4, <1>5, <2>1, OneHandStep
<1>7. f0 \notin raced => flows[f0].status = "ACTIVE"
  BY <1>3, HeldAlone
<1>8. \A f \in FlowID' \ raced' : Untimed(f)' => OneContinuation(f)'
  BY <1>2, <1>4, <1>5, <1>7, OneContinuationStep
<1> QED
  BY <1>6, <1>8 DEF RaceInv

LEMMA TimerFiresRace ==
  ASSUME TypeOK, TypeOK', HandInv, AnswerInv, RaceInv, NEW c \in Callers, TimerFires(c),
         UNCHANGED shared
  PROVE  RaceInv'
<1>1. PICK f0 \in jobs : target' = [target EXCEPT ![c] = f0]
  BY DEF TimerFires
<1>2. /\ at[c] = "idle" /\ at' = [at EXCEPT ![c] = "accepted"]
      /\ UNCHANGED <<flows, closing, work, listed, continued, raced>>
  BY DEF TimerFires, caseVars, runVars, histVars
<1>3. Moves(c) /\ FlowID' = FlowID
  BY <1>1, <1>2 DEF Moves, Stays, FlowID, TypeOK, CallType
<1>4. InHand(c)' = {} /\ \A f : Pending(c, f)' => f = f0
  <2>1. closing[c] = {} /\ work[c] = {} /\ listed[c] = {}
    BY <1>2 DEF HandInv
  <2>2. at'[c] = "accepted" /\ target'[c] = f0
    BY <1>1, <1>2 DEF TypeOK, CallType
  <2> QED
    BY <1>1, <1>2, <2>1, <2>2 DEF InHand, Pending
<1>5. ~Untimed(f0)
  BY DEF AnswerInv, Untimed
<1>6. \A f \in FlowID' \ raced' : OneHand(f)'
  BY <1>2, <1>3, <1>4, OneHandStep
<1>7. \A f \in FlowID' \ raced' : Untimed(f)' => OneContinuation(f)'
  BY <1>2, <1>3, <1>4, <1>5, OneContinuationStep
<1> QED
  BY <1>6, <1>7 DEF RaceInv

LEMMA LoadRace ==
  ASSUME TypeOK, TypeOK', HandInv, RaceInv, NEW c \in Callers, Load(c), UNCHANGED shared
  PROVE  RaceInv'
<1>1. UNCHANGED <<flows, continued, raced>> /\ at[c] = "accepted"
  BY LoadTakes DEF caseVars
<1>2. CASE Leave(c, listed[c])
  BY <1>1, <1>2, LeaveRace
<1>3. CASE \E inst : Takes(c, inst)
  <2>1. at' = [at EXCEPT ![c] = "loaded"] /\ UNCHANGED <<target, listed, closing, work>>
    BY <1>3 DEF Takes
  <2>2. Moves(c)
    BY <1>1, <2>1 DEF Moves, Stays, FlowID, TypeOK, CallType
  <2>3. InHand(c)' = InHand(c) /\ \A f : Pending(c, f)' => Pending(c, f)
    BY <1>1, <2>1 DEF InHand, Pending, TypeOK, CallType
  <2> QED
    BY <1>1, <2>2, <2>3, IdleRace
<1> QED
  BY <1>2, <1>3, LoadTakes

LEMMA InterruptRace ==
  ASSUME TypeOK, TypeOK', HandInv, RaceInv, NEW c \in Callers, Interrupt(c), UNCHANGED shared
  PROVE  RaceInv'
<1> DEFINE due == {i \in FlowID : /\ flows[i].element = Process[element(c)].AttachedToRef
                                 /\ flows[i].status = "ACTIVE"}
<1>0. due \in SUBSET FlowID /\ \A f \in due : flows[f].status = "ACTIVE"
  OBVIOUS
<1>1. PICK open \in SUBSET FlowID :
        /\ \A f \in open : flows[f].status = "ACTIVE"
        /\ \/ closing' = [closing EXCEPT ![c] = open] /\ Reads(c, open)
           \/ UNCHANGED <<closing, raced>>
  BY <1>0 DEF Interrupt
<1>2. /\ at[c] = "loaded" /\ at' = [at EXCEPT ![c] = "cancelling"]
      /\ UNCHANGED <<flows, target, work, listed, continued>>
  BY DEF Interrupt, caseVars
<1>3. /\ \A d \in Callers \ {c} : closing'[d] = closing[d]
      /\ raced \subseteq raced'
  BY <1>1 DEF Reads, TypeOK, CallType
<1>4. Moves(c)
  BY <1>2, <1>3 DEF Moves, Stays, FlowID, TypeOK, CallType
<1>5. \A f : Pending(c, f)' => Pending(c, f)
  BY <1>2 DEF Pending, TypeOK, CallType
<1>6. CASE closing' = [closing EXCEPT ![c] = open] /\ Reads(c, open)
  <2>1. InHand(c)' \subseteq InHand(c) \cup open
    BY <1>2, <1>6 DEF InHand, TypeOK, CallType
  <2> QED
    BY <1>1, <1>2, <1>4, <1>5, <1>6, <2>1, TakingRace
<1>7. CASE UNCHANGED <<closing, raced>>
  <2>1. InHand(c)' = InHand(c)
    BY <1>2, <1>7 DEF InHand, TypeOK, CallType
  <2> QED
    BY <1>2, <1>4, <1>5, <1>7, <2>1, IdleRace
<1> QED
  BY <1>1, <1>6, <1>7


\* What is to be completed with an interrupted activity is a task.
ClosingInv == \A c \in Callers : \A f \in closing[c] : Process[flows[f].element].Type \in Task

LEMMA ClosingStep ==
  ASSUME TypeOK, ClosingInv, [Next]_vars PROVE ClosingInv'
<1>1. Stays
  BY FlowsStay
<1>2. ASSUME \A c \in Callers : \A f \in closing'[c] :
               f \in closing[c] \/ (f \in FlowID /\ Process[flows[f].element].Type \in Task)
      PROVE  ClosingInv'
  <2>1. ASSUME NEW c \in Callers, NEW f \in closing'[c]
        PROVE  f \in FlowID /\ Process[flows[f].element].Type \in Task
    BY <1>2 DEF ClosingInv, TypeOK, CallType
  <2> QED
    BY <1>1, <2>1 DEF ClosingInv, Stays
<1>3. ASSUME UNCHANGED closing \/ \E c \in Callers : \E rest : Leave(c, rest)
      PROVE  ClosingInv'
  BY <1>2, <1>3 DEF Leave, TypeOK, CallType
<1>4. CASE UNCHANGED vars
  BY <1>3, <1>4 DEF vars, runVars
<1>5. CASE Crash
  BY <1>2, <1>5 DEF Crash
<1>6. ASSUME NEW c \in Callers, Request(c) PROVE ClosingInv'
  BY <1>3, <1>6 DEF Request, Check, SendSignal, ListFlows, Visit, UpdateFlow, TimerFires, runVars
<1>7. ASSUME NEW c \in Callers, Interrupt(c) PROVE ClosingInv'
  <2> DEFINE due == {i \in FlowID : /\ flows[i].element = Process[element(c)].AttachedToRef
                                   /\ flows[i].status = "ACTIVE"}
  <2>1. closing' = [closing EXCEPT ![c] = due] \/ UNCHANGED closing
    BY <1>7 DEF Interrupt
  <2>2. Process[Process[element(c)].AttachedToRef].Type \in Task
    <3>1. at[c] = "loaded" /\ Process[element(c)].AttachedToRef # None
      BY <1>7 DEF Interrupt, Interrupts
    <3>2. element(c) \in Elements
      BY <3>1, TargetType DEF Continuing
    <3> QED
      BY <3>1, <3>2, Continuable
  <2>3. \A f \in due : f \in FlowID /\ Process[flows[f].element].Type \in Task
    BY <2>2
  <2> QED
    BY <1>2, <2>1, <2>3 DEF TypeOK, CallType
<1>8. ASSUME NEW c \in Callers, CancelOne(c) PROVE ClosingInv'
  <2>1. PICK f : closing' = [closing EXCEPT ![c] = @ \ {f}]
    BY <1>8 DEF CancelOne
  <2> QED
    BY <1>2, <2>1 DEF TypeOK, CallType
<1>9. ASSUME NEW c \in Callers, Load(c) \/ GoOn(c) \/ GoesNowhere(c) PROVE ClosingInv'
  BY <1>3, <1>9 DEF Load, GoOn, GoesNowhere
<1>10. ASSUME NEW c \in Callers, ExecuteElement(c) \/ Finalize(c) \/ Fails(c) PROVE ClosingInv'
  BY <1>3, <1>10 DEF ExecuteElement, Finalize, Fails
<1>11. ASSUME NEW c \in Callers, HandleResult(c) PROVE ClosingInv'
  <2>1. PICK r \in results[c] :
          \/ Routes(c, r.flow, r.ans) \/ Ends(c, r.flow, r.ans) \/ Waits(c, r.flow, r.ans)
          \/ Leave(c, listed[c])
    BY <1>11, HandleResultHandles DEF Abandons
  <2>2. UNCHANGED closing \/ Leave(c, listed[c])
    BY <2>1 DEF Routes, Ends, Waits
  <2> QED
    BY <1>3, <2>2
<1> QED
  BY <1>4, <1>5, <1>6, <1>7, <1>8, <1>9, <1>10, <1>11 DEF Next, Rest, Continue

LEMMA CancelOneRace ==
  ASSUME TypeOK, TypeOK', HandInv, ClosingInv, RaceInv, NEW c \in Callers, CancelOne(c),
         UNCHANGED shared
  PROVE  RaceInv'
<1>1. PICK f0 \in closing[c] :
        /\ closing' = [closing EXCEPT ![c] = @ \ {f0}]
        /\ UNCHANGED flows \/ Writes(f0, "COMPLETED")
  BY CancelOneWrites
<1>2. at[c] = "cancelling" /\ UNCHANGED <<at, target, work, listed, raced, continued>>
  BY DEF CancelOne, callVars, histVars
<1>3. f0 \in FlowID /\ f0 \in InHand(c)
  BY DEF InHand, TypeOK, CallType
<1>4. /\ FlowID' = FlowID /\ Stays
      /\ \A f \in FlowID : \/ flows'[f].status = flows[f].status
                           \/ f = f0 /\ flows'[f].status = "COMPLETED"
  <2>1. CASE UNCHANGED flows
    BY <2>1 DEF FlowID, Stays
  <2>2. CASE Writes(f0, "COMPLETED")
    BY <2>2, Written DEF Stays
  <2> QED
    BY <1>1, <2>1, <2>2
<1>5. InHand(c)' \subseteq InHand(c) \ {f0}
  <2>1. f0 \notin work[c] /\ f0 \notin listed[c]
    BY <1>2, <1>3 DEF HandInv, ClosingInv, Task
  <2> QED
    BY <1>1, <1>2, <2>1 DEF InHand, TypeOK, CallType
<1>6. Moves(c)
  BY <1>1, <1>2, <1>4 DEF Moves, TypeOK, CallType
<1>7. \A f : Pending(c, f)' => Pending(c, f)
  BY <1>2 DEF Pending
<1>8. \A f \in FlowID \ raced' : f \in InHand(c) =>
        flows[f].status = "ACTIVE" /\ \A d \in Callers \ {c} : f \notin InHand(d)
  BY <1>2, HeldAlone
<1>9. \A f \in FlowID' \ raced' : OneHand(f)'
  BY <1>3, <1>4, <1>5, <1>6, <1>8, OneHandStep
<1>10. \A f \in FlowID' \ raced' : Untimed(f)' => OneContinuation(f)'
  BY <1>2, <1>3, <1>4, <1>6, <1>7, <1>8, OneContinuationStep
<1> QED
  BY <1>9, <1>10 DEF RaceInv

\* New records are in the hand of the run that creates them, if in any.
LEMMA AddsRace ==
  ASSUME TypeOK, TypeOK', RaceInv, NEW c \in Callers, Moves(c), UNCHANGED raced,
         \A f \in FlowID : flows'[f].status = flows[f].status /\ continued'[f] = continued[f],
         \A f \in FlowID' \ FlowID : continued'[f] = 0,
         \A f \in FlowID : f \in InHand(c)' => f \in InHand(c),
         \A f : Pending(c, f)' => Pending(c, f)
  PROVE  RaceInv'
<1>1. \A f \in FlowID \ raced' : f \in InHand(c) =>
        flows[f].status = "ACTIVE" /\ \A d \in Callers \ {c} : f \notin InHand(d)
  BY HeldAlone
<1>2. \A f \in FlowID' \ raced' : OneHand(f)'
  BY <1>1, OneHandStep
<1>3. \A f \in FlowID' \ FlowID : ~Pending(c, f)'
  BY InHandType
<1>4. \A f \in FlowID' \ raced' : Untimed(f)' => OneContinuation(f)'
  BY <1>3, OneContinuationStep
<1> QED
  BY <1>2, <1>4 DEF RaceInv

LEMMA GoOnRace ==
  ASSUME TypeOK, TypeOK', HandInv, RaceInv, NEW c \in Callers, GoOn(c), UNCHANGED shared
  PROVE  RaceInv'
<1> DEFINE f0 == target[c]
<1>1. /\ at[c] = "loaded" \/ (at[c] = "cancelling" /\ closing[c] = {})
      /\ at' = [at EXCEPT ![c] = "running"]
      /\ UNCHANGED <<target, closing, listed, raced>>
  BY DEF GoOn
<1>2. closing[c] = {} /\ work[c] = {} /\ at'[c] = "running"
  BY <1>1 DEF HandInv, TypeOK, CallType
<1>3. f0 \in FlowID /\ Pending(c, f0) /\ \A f : ~Pending(c, f)'
  BY <1>1, <1>2, TargetType DEF Pending, Continuing
<1>4. CASE UNCHANGED <<flows, continued, work>>
  <2>1. Moves(c)
    BY <1>1, <1>4 DEF Moves, Stays, FlowID, TypeOK, CallType
  <2>2. InHand(c)' \subseteq InHand(c)
    BY <1>1, <1>2, <1>4 DEF InHand
  <2> QED
    BY <1>1, <1>3, <1>4, <2>1, <2>2, IdleRace
<1>5. ASSUME NEW s, Adds(s),
             continued' = [continued EXCEPT ![f0] = @ + 1] \o NoneContinued(s),
             work' = [work EXCEPT ![c] = {Len(flows) + i : i \in DOMAIN s}]
      PROVE  RaceInv'
  <2> DEFINE counts == [continued EXCEPT ![f0] = @ + 1]
  <2>1. /\ counts \in Seq(Nat) /\ Len(counts) = Len(flows)
        /\ \A f \in FlowID : counts[f] = IF f = f0 THEN continued[f] + 1 ELSE continued[f]
    <3>1. continued \in Seq(Nat) /\ Len(continued) = Len(flows) /\ f0 \in 1..Len(flows)
      BY <1>3 DEF TypeOK, HistoryType, FlowID
    <3>2. continued[f0] \in Nat /\ continued[f0] + 1 \in Nat
      BY <3>1, ElementOfSeq
    <3> QED
      BY <3>1, <3>2, ExceptSeq DEF FlowID
  <2> HIDE DEF counts
  <2>2. /\ \A f \in FlowID : continued'[f] = counts[f]
        /\ \A f \in FlowID' \ FlowID : continued'[f] = 0
    BY <1>5, <2>1, Counted DEF counts
  <2>3. /\ FlowID \subseteq FlowID' /\ Stays
        /\ {Len(flows) + i : i \in DOMAIN s} = FlowID' \ FlowID
        /\ \A f \in FlowID : flows'[f].status = flows[f].status
    BY <1>5, Added DEF Stays
  <2>4. InHand(c)' \subseteq InHand(c) \cup (FlowID' \ FlowID)
    <3>1. work'[c] = FlowID' \ FlowID
      BY <1>5, <2>3 DEF TypeOK, CallType
    <3> QED
      BY <1>1, <1>2, <3>1 DEF InHand
  <2>5. Moves(c)
    BY <1>1, <1>5, <2>3 DEF Moves, TypeOK, CallType
  <2>6. \A f \in FlowID \ raced' : f \in InHand(c) =>
          flows[f].status = "ACTIVE" /\ \A d \in Callers \ {c} : f \notin InHand(d)
    BY <1>1, HeldAlone
  <2>7. \A f \in FlowID' \ raced' : OneHand(f)'
    BY <2>3, <2>4, <2>5, <2>6, OneHandStep
  <2>8. \A f \in FlowID : f = f0 \/ continued'[f] = continued[f]
    BY <2>1, <2>2
  <2>9. continued'[f0] = continued[f0] + 1
    BY <1>3, <2>1, <2>2
  <2> HIDE DEF f0
  <2>10. \A f \in FlowID' \ raced' : Untimed(f)' => OneContinuation(f)'
    BY <1>3, <2>2, <2>3, <2>5, <2>8, <2>9, OneContinuationStep
  <2> QED
    BY <2>7, <2>10 DEF RaceInv
<1> QED
  BY <1>4, <1>5, GoOnAdds

\* A step that adds records and leaves.
LEMMA AddsAndLeavesRace ==
  ASSUME TypeOK, TypeOK', RaceInv, NEW c \in Callers, Leave(c, listed[c]),
         \E s : Adds(s) /\ continued' = continued \o NoneContinued(s),
         UNCHANGED <<shared, raced>>
  PROVE  RaceInv'
<1>1. /\ Stays
      /\ \A f \in FlowID : flows'[f].status = flows[f].status /\ continued'[f] = continued[f]
      /\ \A f \in FlowID' \ FlowID : continued'[f] = 0
  BY AddsType DEF Stays
<1>2. InHand(c)' \subseteq InHand(c)
  BY LeavesHand DEF InHand
<1> QED
  BY <1>1, <1>2, LeavesHand, AddsRace DEF Moves

LEMMA ExecuteElementRace ==
  ASSUME TypeOK, TypeOK', HandInv, RaceInv, NEW c \in Callers, ExecuteElement(c), UNCHANGED shared
  PROVE  RaceInv'
<1>1. PICK f0, complete, a : f0 \in FlowID /\ Executes(c, f0, complete, a)
  BY ExecuteElementExecutes
<1>2. /\ at[c] = "running" /\ f0 \in work[c] /\ work' = [work EXCEPT ![c] = @ \ {f0}]
      /\ UNCHANGED <<at, target, closing, listed, raced, continued>>
  BY <1>1 DEF ExecuteElement, callVars, Executes
<1>3. /\ FlowID' = FlowID /\ Stays
      /\ \A f \in FlowID : flows'[f].status = flows[f].status \/ (shared /\ f = f0)
  <2>1. CASE UNCHANGED flows
    BY <2>1 DEF FlowID, Stays
  <2>2. CASE shared /\ \E s : Writes(f0, s)
    BY <2>2, Written DEF Stays
  <2> QED
    BY <1>1, <2>1, <2>2 DEF Executes
<1>4. Moves(c)
  BY <1>2, <1>3 DEF Moves, TypeOK, CallType
<1>5. \A f : ~Pending(c, f) /\ ~Pending(c, f)'
  BY <1>2 DEF Pending
<1>6. InHand(c)' = IF shared THEN InHand(c) \ {f0} ELSE InHand(c)
  <2>1. closing[c] = {}
    BY <1>2 DEF HandInv
  <2> QED
    BY <1>2, <2>1 DEF InHand, TypeOK, CallType
<1>7. shared => f0 \in InHand(c)
  BY <1>2 DEF InHand
<1>8. \A f \in FlowID \ raced' : f \in InHand(c) =>
        flows[f].status = "ACTIVE" /\ \A d \in Callers \ {c} : f \notin InHand(d)
  BY <1>2, HeldAlone
<1>9. \A f \in FlowID' \ raced' : OneHand(f)'
  BY <1>3, <1>4, <1>6, <1>7, <1>8, OneHandStep
<1>10. \A f \in FlowID' \ raced' : Untimed(f)' => OneContinuation(f)'
  BY <1>2, <1>3, <1>4, <1>5, <1>7, <1>8, OneContinuationStep
<1> QED
  BY <1>9, <1>10 DEF RaceInv

LEMMA HandleResultRace ==
  ASSUME TypeOK, TypeOK', HandInv, RaceInv, NEW c \in Callers, HandleResult(c), UNCHANGED shared
  PROVE  RaceInv'
<1>1. PICK r \in results[c] :
        \/ Routes(c, r.flow, r.ans) \/ Ends(c, r.flow, r.ans) \/ Waits(c, r.flow, r.ans)
        \/ Abandons(c) /\ (Breaks(c, r.flow, r.ans) \/ Strands(c, r.flow, r.ans))
  BY HandleResultHandles
<1>2. at[c] = "running" /\ UNCHANGED raced
  BY DEF HandleResult
<1>3. CASE Routes(c, r.flow, r.ans)
  <2>1. PICK s : /\ Adds(s) /\ continued' = continued \o NoneContinued(s)
                 /\ work' = [work EXCEPT ![c] = @ \cup {Len(flows) + i : i \in DOMAIN s}]
    BY <1>3, RoutesAdds
  <2>2. UNCHANGED <<at, target, closing, listed>>
    BY <1>3 DEF Routes, callVars
  <2>3. /\ Stays /\ {Len(flows) + i : i \in DOMAIN s} = FlowID' \ FlowID
        /\ \A f \in FlowID : flows'[f].status = flows[f].status /\ continued'[f] = continued[f]
        /\ \A f \in FlowID' \ FlowID : continued'[f] = 0
    BY <2>1, AddsType DEF Stays
  <2>4. Moves(c)
    BY <1>2, <2>1, <2>2, <2>3 DEF Moves, TypeOK, CallType
  <2>5. \A f \in FlowID : f \in InHand(c)' => f \in InHand(c)
    <3>1. work'[c] = work[c] \cup (FlowID' \ FlowID)
      BY <2>1, <2>3 DEF TypeOK, CallType
    <3> QED
      BY <2>2, <3>1 DEF InHand
  <2>6. \A f : Pending(c, f)' => Pending(c, f)
    BY <2>2 DEF Pending
  <2> QED
    BY <1>2, <2>3, <2>4, <2>5, <2>6, AddsRace
<1>4. CASE Ends(c, r.flow, r.ans)
  <2>1. UNCHANGED <<at, target, closing, listed, work, flows, continued>>
    BY <1>4 DEF Ends, callVars
  <2>2. Moves(c) /\ InHand(c)' = InHand(c) /\ \A f : Pending(c, f)' => Pending(c, f)
    BY <1>2, <2>1 DEF Moves, Stays, FlowID, InHand, Pending
  <2> QED
    BY <1>2, <2>1, <2>2, IdleRace
<1>5. CASE Waits(c, r.flow, r.ans)
  <2>1. PICK s : Adds(s) /\ continued' = continued \o NoneContinued(s)
    BY <1>5, WaitsAdds
  <2>2. UNCHANGED <<at, target, closing, listed, work>>
    BY <1>5 DEF Waits, callVars
  <2>3. /\ Stays
        /\ \A f \in FlowID : flows'[f].status = flows[f].status /\ continued'[f] = continued[f]
        /\ \A f \in FlowID' \ FlowID : continued'[f] = 0
    BY <2>1, AddsType DEF Stays
  <2>4. Moves(c) /\ InHand(c)' = InHand(c) /\ \A f : Pending(c, f)' => Pending(c, f)
    BY <1>2, <2>2, <2>3 DEF Moves, InHand, Pending
  <2> QED
    BY <1>2, <2>3, <2>4, AddsRace
<1>6. CASE Abandons(c) /\ Breaks(c, r.flow, r.ans)
  BY <1>2, <1>6, LeaveRace DEF Abandons, Breaks
<1>7. CASE Abandons(c) /\ Strands(c, r.flow, r.ans)
  BY <1>2, <1>7, StrandsAdds, AddsAndLeavesRace DEF Abandons
<1> QED
  BY <1>1, <1>3, <1>4, <1>5, <1>6, <1>7

LEMMA GoesNowhereRace ==
  ASSUME TypeOK, TypeOK', RaceInv, NEW c \in Callers, GoesNowhere(c), UNCHANGED shared
  PROVE  RaceInv'
BY GoesNowhereAdds, AddsAndLeavesRace DEF GoesNowhere

LEMMA EndRace ==
  ASSUME TypeOK, TypeOK', RaceInv, NEW c \in Callers, Finalize(c) \/ Fails(c), UNCHANGED shared
  PROVE  RaceInv'
BY LeaveRace DEF Finalize, Fails, caseVars

LEMMA CrashRace ==
  ASSUME TypeOK, TypeOK', RaceInv, Crash, UNCHANGED shared
  PROVE  RaceInv'
<1>1. UNCHANGED <<flows, continued, raced>> /\ FlowID' = FlowID
  BY DEF Crash, caseVars, FlowID
<1>2. \A c \in Callers : InHand(c)' = {} /\ \A f : ~Pending(c, f)'
  BY DEF Crash, InHand, Pending
<1> QED
  BY <1>1, <1>2 DEF RaceInv, OneHand, OneContinuation, Untimed

LEMMA StutterRace ==
  ASSUME RaceInv, UNCHANGED vars PROVE RaceInv'
BY DEF vars, caseVars, callVars, runVars, histVars, RaceInv, OneHand, OneContinuation, Untimed,
   InHand, Pending, FlowID

LEMMA InitRace == Init => RaceInv /\ ClosingInv
<1> SUFFICES ASSUME Init PROVE RaceInv /\ ClosingInv
  OBVIOUS
<1>1. ASSUME NEW c \in Callers
      PROVE  /\ at[c] = "idle" /\ target[c] = 0 /\ closing[c] = {} /\ work[c] = {}
             /\ listed[c] = {}
  BY DEF Init
<1>2. \A c \in Callers : InHand(c) = {} /\ \A f : ~Pending(c, f)
  BY <1>1 DEF InHand, Pending
<1>3. \A f \in FlowID : continued[f] = 0
  <2>1. PICK opening \in Openings :
          /\ flows = [i \in DOMAIN opening |-> CreateFlowRecord(opening[i])]
          /\ continued = [i \in DOMAIN opening |-> 0]
    BY DEF Init
  <2>2. opening \in Seq(Elements)
    BY ContinuationAssumption
  <2>3. DOMAIN opening = 1..Len(opening) /\ Len(opening) \in Nat
    BY <2>2, LenProperties
  <2>4. Len(flows) = Len(opening)
    BY <2>1, <2>3
  <2> QED
    BY <2>1, <2>3, <2>4 DEF FlowID
<1> QED
  BY <1>1, <1>2, <1>3 DEF RaceInv, OneHand, OneContinuation, ClosingInv

\* Every step keeps the invariants.
LEMMA RaceInvariance == Spec => [](TypeOK /\ HandInv /\ AnswerInv /\ RaceInv)
<1> DEFINE I == TypeOK /\ HandInv /\ AnswerInv /\ ClosingInv /\ RaceInv
<1>1. Init => I
  BY InitType, HandInit, AnswerInit, InitRace
<1>2. I /\ TypeOK' /\ [Next]_vars => I'
  <2> SUFFICES ASSUME I, TypeOK', [Next]_vars PROVE I'
    OBVIOUS
  <2>1. HandInv' /\ AnswerInv' /\ ClosingInv'
    BY HandStep, AnswerStep, ClosingStep
  <2>2. RaceInv'
    <3>1. CASE UNCHANGED vars
      BY <3>1, StutterRace
    <3>2. ASSUME Next PROVE RaceInv'
      <4>1. UNCHANGED shared
        BY <3>2 DEF Next
      <4>2. CASE Crash
        BY <4>1, <4>2, CrashRace
      <4>3. CASE Rest
        BY <4>3, StutterRace DEF Rest
      <4>4. ASSUME NEW c \in Callers, Request(c) PROVE RaceInv'
        BY <4>1, <4>4, CheckRace, SendSignalRace, ListFlowsRace, VisitRace, UpdateFlowRace,
           TimerFiresRace DEF Request
      <4>5. ASSUME NEW c \in Callers, Continue(c) PROVE RaceInv'
        BY <4>1, <4>5, LoadRace, InterruptRace, CancelOneRace, GoOnRace, GoesNowhereRace,
           ExecuteElementRace, HandleResultRace, EndRace DEF Continue
      <4>6. ASSUME NEW c \in Callers, Fails(c) PROVE RaceInv'
        BY <4>1, <4>6, EndRace
      <4> QED
        BY <3>2, <4>2, <4>3, <4>4, <4>5, <4>6 DEF Next
    <3> QED
      BY <3>1, <3>2
  <2> QED
    BY <2>1, <2>2
<1>3. I => TypeOK /\ HandInv /\ AnswerInv /\ RaceInv
  OBVIOUS
<1> QED
  BY <1>1, <1>2, <1>3, CallersTypeInvariant, PTL DEF Spec

\* A flow that was never in two hands and waits for no timer is continued at most
\* once, whatever the callers, failures and crashes do.
THEOREM FlowsContinuedOnce == Spec => []ContinuedOnce
<1>1. TypeOK /\ RaceInv => ContinuedOnce
  BY DEF RaceInv, OneContinuation, Untimed, ContinuedOnce
<1> QED
  BY <1>1, RaceInvariance, PTL

\* A completed flow is written over only if two callers had it in hand.
THEOREM ClosedFlowsStayClosed == Spec => ClosedStaysClosed
<1> DEFINE Closed(f) == flows[f].status = "COMPLETED" /\ f \notin raced'
                          => flows'[f].status = "COMPLETED"
<1>1. ASSUME TypeOK, HandInv, RaceInv, [Next]_vars PROVE \A f \in FlowID : Closed(f)
  <2> USE <1>1
  <2> TAKE f \in FlowID
  <2> SUFFICES ASSUME flows[f].status = "COMPLETED", f \notin raced'
               PROVE  flows'[f].status = "COMPLETED"
    OBVIOUS
  <2>1. ASSUME NEW c \in Callers, f \in InHand(c), raced' = raced PROVE FALSE
    BY <2>1, HeldAlone
  <2>2. ASSUME NEW c \in Callers, UpdateFlow(c) PROVE flows'[f].status = "COMPLETED"
    <3>1. target[c] \in InHand(c) /\ raced' = raced
      BY <2>2 DEF UpdateFlow, InHand, histVars
    <3>2. f # target[c]
      BY <2>1, <3>1
    <3>3. \E s : Writes(target[c], s)
      BY <2>2, UpdateFlowWrites
    <3> QED
      BY <3>2, <3>3, Written
  <2>3. ASSUME NEW c \in Callers, CancelOne(c) PROVE flows'[f].status = "COMPLETED"
    <3>1. UNCHANGED flows \/ \E f0 : Writes(f0, "COMPLETED")
      BY <2>3, CancelOneWrites
    <3> QED
      BY <3>1, Written
  <2>4. ASSUME NEW c \in Callers, ExecuteElement(c) PROVE flows'[f].status = "COMPLETED"
    <3>1. PICK f0, complete, a : Executes(c, f0, complete, a)
      BY <2>4, ExecuteElementExecutes
    <3>2. raced' = raced
      BY <2>4 DEF ExecuteElement
    <3>3. ~(shared /\ f = f0)
      BY <2>1, <3>1, <3>2 DEF Executes, InHand
    <3>4. UNCHANGED flows \/ (shared /\ \E s : Writes(f0, s))
      BY <3>1 DEF Executes
    <3> QED
      BY <3>3, <3>4, Written
  <2>5. ASSUME \E s : Adds(s) PROVE flows'[f].status = "COMPLETED"
    BY <2>5, Added
  <2>6. ASSUME NEW c \in Callers, HandleResult(c) PROVE flows'[f].status = "COMPLETED"
    <3>1. PICK r \in results[c] :
            \/ Routes(c, r.flow, r.ans) \/ Ends(c, r.flow, r.ans) \/ Waits(c, r.flow, r.ans)
            \/ Breaks(c, r.flow, r.ans) \/ Strands(c, r.flow, r.ans)
      BY <2>6, HandleResultHandles
    <3>2. UNCHANGED flows \/ \E s : Adds(s)
      BY <3>1, RoutesAdds, WaitsAdds, StrandsAdds DEF Ends, Breaks
    <3> QED
      BY <2>5, <3>2
  <2>7. ASSUME NEW c \in Callers, GoOn(c) \/ GoesNowhere(c)
        PROVE  flows'[f].status = "COMPLETED"
    <3>1. UNCHANGED flows \/ \E s : Adds(s)
      BY <2>7, GoOnAdds, GoesNowhereAdds
    <3> QED
      BY <2>5, <3>1
  <2>8. \/ UNCHANGED flows
        \/ \E c \in Callers : \/ UpdateFlow(c) \/ CancelOne(c) \/ GoOn(c) \/ GoesNowhere(c)
                              \/ ExecuteElement(c) \/ HandleResult(c)
    BY DEF Next, Rest, Request, Check, SendSignal, ListFlows, Visit, TimerFires, Continue, Fails,
       Crash, Load, Interrupt, Finalize, vars, caseVars
  <2> QED
    BY <2>2, <2>3, <2>4, <2>6, <2>7, <2>8
<1>2. TypeOK /\ HandInv /\ RaceInv /\ [Next]_vars
        => [\A f \in FlowID : flows[f].status = "COMPLETED" /\ f \notin raced'
                                => flows'[f].status = "COMPLETED"]_vars
  BY <1>1
<1> QED
  BY <1>2, RaceInvariance, PTL DEF Spec, ClosedStaysClosed

----------------------------------------------------------------------------
(* Continuations that do not overlap.                                      *)


LEMMA InitAlone == Init => AloneInv
BY DEF Init, AloneInv, Continuing, NewInstance, Sane

\* What AloneInv depends on.
LEMMA AloneFrame ==
  ASSUME TypeOK, AloneInv, Stays, UNCHANGED <<stored, kept>>, ~overlap' => ~overlap,
         \A c \in Callers : Continuing(c)' =>
           /\ Continuing(c) /\ copy'[c].Variables = copy[c].Variables
           /\ target'[c] = target[c] /\ call'[c] = call[c]
  PROVE  AloneInv'
<1> SUFFICES ASSUME ~overlap' PROVE AloneInv'
  BY DEF AloneInv
<1>1. ~overlap /\ kept \subseteq FlowID /\ stored.Variables \subseteq kept
  BY DEF AloneInv, TypeOK, HistoryType
<1>2. Sane(stored.Variables)' = Sane(stored.Variables) /\ Sane(kept)' = Sane(kept)
  BY <1>1 DEF Sane, Stays
<1>3. \A c \in Callers : Continuing(c)' => Brings(c)' = Brings(c)
  BY DEF Brings
<1> QED
  BY <1>1, <1>2, <1>3 DEF AloneInv

\* Whoever leaves does not continue.
LEMMA LeftAlone ==
  ASSUME TypeOK, NEW c \in Callers, NEW rest, Leave(c, rest)
  PROVE  \A d \in Callers : Continuing(d)' =>
           /\ d # c /\ Continuing(d) /\ copy'[d] = copy[d]
           /\ target'[d] = target[d] /\ call'[d] = call[d]
BY DEF TypeOK, CallType, Leave, Continuing

\* So a step in which somebody leaves is no loss.
LEMMA LeaveAlone ==
  ASSUME TypeOK, AloneInv, Stays, UNCHANGED <<stored, kept, overlap>>,
         NEW c \in Callers, \E rest : Leave(c, rest)
  PROVE  AloneInv'
<1>1. PICK rest : Leave(c, rest)
  OBVIOUS
<1> QED
  BY <1>1, LeftAlone, AloneFrame

\* Nor is one that leaves the copies as they are, and takes up no continuation.
LEMMA SameAlone ==
  ASSUME TypeOK, AloneInv, Stays, UNCHANGED <<stored, kept, overlap>>, NEW c \in Callers,
         \A d \in Callers \ {c} : /\ at'[d] = at[d] /\ target'[d] = target[d]
                                  /\ call'[d] = call[d] /\ copy'[d] = copy[d],
         Continuing(c)' => /\ Continuing(c) /\ copy'[c].Variables = copy[c].Variables
                           /\ target'[c] = target[c] /\ call'[c] = call[c]
  PROVE  AloneInv'
<1>1. ASSUME NEW d \in Callers, Continuing(d)'
      PROVE  /\ Continuing(d) /\ copy'[d].Variables = copy[d].Variables
             /\ target'[d] = target[d] /\ call'[d] = call[d]
  BY <1>1 DEF Continuing
<1> QED
  BY <1>1, AloneFrame

LEMMA RequestAlone ==
  ASSUME TypeOK, AloneInv, Stays, NEW c \in Callers, Request(c) PROVE AloneInv'
<1>1. UNCHANGED <<stored, kept, overlap>>
  BY DEF Request, Check, SendSignal, ListFlows, Visit, UpdateFlow, TimerFires, caseVars, histVars
<1>2. CASE \E rest : Leave(c, rest)
  BY <1>1, <1>2, LeaveAlone
<1>3. CASE ~ \E rest : Leave(c, rest)
  <2>1. /\ at'[c] \in {"checked", "broadcasting", "accepted"} /\ UNCHANGED copy
        /\ \A d \in Callers \ {c} : /\ at'[d] = at[d] /\ target'[d] = target[d]
                                    /\ call'[d] = call[d]
    BY <1>3 DEF Request, Check, SendSignal, ListFlows, Visit, UpdateFlow, TimerFires, runVars,
       TypeOK, CallType
  <2> QED
    BY <1>1, <2>1, SameAlone DEF Continuing
<1> QED
  BY <1>2, <1>3

LEMMA LoadAlone ==
  ASSUME TypeOK, AloneInv, Stays, NEW c \in Callers, Load(c) PROVE AloneInv'
<1>1. UNCHANGED <<stored, kept, flows>>
  BY LoadTakes DEF caseVars
<1>2. CASE Leave(c, listed[c]) /\ UNCHANGED overlap
  BY <1>1, <1>2, LeaveAlone
<1>3. ASSUME NEW inst, Takes(c, inst) PROVE AloneInv'
  <2> SUFFICES ASSUME ~overlap' PROVE AloneInv'
    BY DEF AloneInv
  <2>1. /\ ~overlap /\ \A d \in Callers : ~Continuing(d)
        /\ stored.Variables \subseteq kept
        /\ Cardinality(kept) <= MaxSize => Sane(kept) \subseteq stored.Variables
    BY <1>3 DEF Takes, AloneInv
  <2>2. \A d \in Callers : Continuing(d)' => d = c
    BY <1>3, <2>1 DEF Takes, Continuing, TypeOK, CallType
  <2>3. stored.Status # "COMPLETED" /\ stored \in InstanceRecord
    BY <1>3 DEF Takes, IsValidTransition, ValidTransitions, State, TypeOK
  <2>4. /\ inst \in InstanceRecord /\ inst.Variables \subseteq Sane(stored.Variables)
        /\ Cardinality(Sane(stored.Variables)) <= MaxSize
             => inst.Variables = Sane(stored.Variables)
    BY <1>3, <2>3, SanitizedType DEF Takes
  <2>5. Brings(c)' = Brings(c) /\ copy'[c].Variables = inst.Variables \cup Brings(c)
    BY <1>3, <2>4 DEF Takes, Brings, TypeOK, CallType, InstanceRecord
  <2>6. Sane(stored.Variables)' = Sane(stored.Variables) /\ Sane(kept)' = Sane(kept)
    BY <1>1 DEF Sane
  <2>7. Sane(stored.Variables) \subseteq kept
    BY <2>1 DEF Sane
  <2>8. Cardinality(kept) <= MaxSize => Cardinality(Sane(stored.Variables)) <= MaxSize
    <3>1. IsFiniteSet(kept) /\ Cardinality(kept) \in Nat
      BY FlowsFinite DEF TypeOK, HistoryType
    <3>2. /\ Cardinality(Sane(stored.Variables)) \in Nat
          /\ Cardinality(Sane(stored.Variables)) <= Cardinality(kept)
      BY <2>7, <3>1, FS_Subset, FS_CardinalityType
    <3> QED
      BY <3>1, <3>2, ContinuationAssumption
  <2>9. /\ Brings(c)' \subseteq copy'[c].Variables
        /\ copy'[c].Variables \subseteq kept \cup Brings(c)'
        /\ Cardinality(kept) <= MaxSize => Sane(stored.Variables) \subseteq copy'[c].Variables
    BY <2>4, <2>5, <2>7, <2>8
  <2> QED
    BY <1>1, <2>1, <2>2, <2>3, <2>6, <2>9 DEF AloneInv
<1> QED
  BY <1>2, <1>3, LoadTakes

LEMMA GoOnAlone ==
  ASSUME TypeOK, AloneInv, Stays, NEW c \in Callers, GoOn(c) PROVE AloneInv'
<1>1. /\ UNCHANGED <<stored, kept, overlap, target, call>>
      /\ at[c] \in {"loaded", "cancelling"} /\ at' = [at EXCEPT ![c] = "running"]
  BY DEF GoOn
<1>2. /\ copy[c] \in InstanceRecord /\ element(c) \in Elements
      /\ Resolved(copy[c], element(c)) \in InstanceRecord
  <2>1. copy[c] \in InstanceRecord /\ element(c) \in Elements
    BY <1>1, TargetType DEF TypeOK, CallType, Continuing
  <2> QED
    BY <2>1, ResolvedType
<1>3. copy'[c].Variables = copy[c].Variables /\ \A d \in Callers \ {c} : copy'[d] = copy[d]
  <2>1. /\ Resolved(copy[c], element(c)).Variables = copy[c].Variables
        /\ Finished(c, Resolved(copy[c], element(c))).Variables = copy[c].Variables
    BY <1>2, ResolvedType
  <2> QED
    BY <2>1, GoOnAdds DEF TypeOK, CallType
<1> QED
  BY <1>1, <1>3, SameAlone DEF Continuing, TypeOK, CallType

LEMMA HandleResultAlone ==
  ASSUME TypeOK, AloneInv, Stays, NEW c \in Callers, HandleResult(c) PROVE AloneInv'
<1>1. UNCHANGED <<stored, kept, overlap>> /\ at[c] = "running"
  BY DEF HandleResult
<1>2. PICK r \in results[c] :
        \/ Routes(c, r.flow, r.ans) \/ Ends(c, r.flow, r.ans) \/ Waits(c, r.flow, r.ans)
        \/ Abandons(c)
  BY HandleResultHandles
<1>3. CASE Abandons(c)
  BY <1>1, <1>3, LeaveAlone DEF Abandons
<1>4. CASE Routes(c, r.flow, r.ans) \/ Ends(c, r.flow, r.ans) \/ Waits(c, r.flow, r.ans)
  <2>1. /\ UNCHANGED <<at, target, call>>
        /\ \/ UNCHANGED copy
           \/ copy' = [copy EXCEPT ![c] = Finished(c, copy[c])]
           \/ copy' = [copy EXCEPT ![c] =
                         [Arms(@, flows[r.flow].element) EXCEPT !.Status = "WAITING"]]
    BY <1>4 DEF Routes, Ends, Waits, callVars
  <2>2. copy[c] \in InstanceRecord /\ flows[r.flow].element \in Elements
    BY AnswerType DEF TypeOK, CallType
  <2>3. /\ Finished(c, copy[c]).Variables = copy[c].Variables
        /\ [Arms(copy[c], flows[r.flow].element) EXCEPT !.Status = "WAITING"].Variables
             = copy[c].Variables
    BY <2>2, ResolvedType, WaitingCopy
  <2>4. copy'[c].Variables = copy[c].Variables /\ \A d \in Callers \ {c} : copy'[d] = copy[d]
    BY <2>1, <2>3 DEF TypeOK, CallType
  <2> QED
    BY <1>1, <2>1, <2>4, SameAlone DEF Continuing
<1> QED
  BY <1>2, <1>3, <1>4

LEMMA FinalizeAlone ==
  ASSUME TypeOK, AloneInv, Stays, NEW c \in Callers, Finalize(c) PROVE AloneInv'
<1>1. /\ at[c] = "running" /\ stored' = copy[c] /\ kept' = kept \cup Brings(c)
      /\ Leave(c, listed[c]) /\ UNCHANGED <<flows, overlap>>
  BY DEF Finalize
<1> SUFFICES ASSUME ~overlap' PROVE AloneInv'
  BY DEF AloneInv
<1>2. Continuing(c) /\ ~overlap
  BY <1>1 DEF Continuing
<1>3. /\ \A d \in Callers : Continuing(d) => d = c
      /\ Brings(c) \subseteq copy[c].Variables
      /\ copy[c].Variables \subseteq kept \cup Brings(c)
      /\ Cardinality(kept) <= MaxSize => Sane(stored.Variables) \subseteq copy[c].Variables
      /\ Cardinality(kept) <= MaxSize => Sane(kept) \subseteq stored.Variables
  BY <1>2 DEF AloneInv
<1>4. \A d \in Callers : ~Continuing(d)'
  BY <1>1, <1>3, LeftAlone
<1>5. Cardinality(kept') <= MaxSize => Cardinality(kept) <= MaxSize
  <2>1. kept \subseteq FlowID /\ Brings(c) \subseteq FlowID
    BY <1>2, TargetType DEF TypeOK, HistoryType, Brings
  <2>2. kept' \in SUBSET FlowID /\ kept \subseteq kept'
    BY <1>1, <2>1
  <2>3. IsFiniteSet(kept') /\ Cardinality(kept') \in Nat /\ Cardinality(kept) \in Nat
    BY <2>1, <2>2, FlowsFinite
  <2>4. Cardinality(kept) <= Cardinality(kept')
    BY <2>2, <2>3, FS_Subset
  <2> QED
    BY <2>3, <2>4, ContinuationAssumption
<1>6. Cardinality(kept') <= MaxSize => Sane(kept)' \subseteq stored'.Variables
  <2> SUFFICES ASSUME Cardinality(kept') <= MaxSize PROVE Sane(kept)' \subseteq copy[c].Variables
    BY <1>1
  <2>1. Sane(kept)' \subseteq Sane(kept) \cup Brings(c)
    BY <1>1 DEF Sane
  <2>2. Sane(kept) \subseteq Sane(stored.Variables)
    BY <1>3, <1>5 DEF Sane
  <2> QED
    BY <1>3, <1>5, <2>1, <2>2
<1> QED
  BY <1>1, <1>3, <1>4, <1>6 DEF AloneInv

LEMMA StepAlone ==
  ASSUME TypeOK, AloneInv, [Next]_vars PROVE AloneInv'
<1>1. Stays
  BY FlowsStay
<1>2. CASE UNCHANGED vars
  BY <1>1, <1>2, AloneFrame DEF vars, caseVars, callVars, runVars, histVars, Continuing
<1>3. CASE Crash
  <2>1. UNCHANGED <<stored, kept, overlap>> /\ \A c \in Callers : ~Continuing(c)'
    BY <1>3 DEF Crash, caseVars, histVars, Continuing
  <2> QED
    BY <1>1, <2>1, AloneFrame
<1>4. ASSUME NEW c \in Callers, Interrupt(c) \/ CancelOne(c) \/ ExecuteElement(c)
      PROVE  AloneInv'
  <2>1. /\ UNCHANGED <<stored, kept, overlap, copy, target, call>>
        /\ \A d \in Callers \ {c} : at'[d] = at[d]
        /\ Continuing(c)
    BY <1>4 DEF Interrupt, CancelOne, ExecuteElement, caseVars, callVars, histVars, Continuing,
       TypeOK, CallType
  <2> QED
    BY <1>1, <2>1, SameAlone
<1>5. ASSUME NEW c \in Callers, GoesNowhere(c) \/ Fails(c) PROVE AloneInv'
  BY <1>1, <1>5, LeaveAlone DEF GoesNowhere, Fails, caseVars
<1> QED
  BY <1>1, <1>2, <1>3, <1>4, <1>5, RequestAlone, LoadAlone, GoOnAlone, HandleResultAlone,
     FinalizeAlone DEF Next, Rest, Continue

LEMMA AloneInvariance == Spec => []AloneInv
BY InitAlone, StepAlone, CallersTypeInvariant, PTL DEF Spec

\* As long as no two continuations have overlapped and the case has its 1 MB, no
\* stored variable is lost that the sanitizer lets through.
THEOREM VariablesAreKept == Spec => []NothingOverwritten
<1>1. AloneInv => NothingOverwritten
  BY DEF AloneInv, NothingOverwritten
<1> QED
  BY <1>1, AloneInvariance, PTL

\* As long as no two continuations have overlapped, a completed case stays so.
THEOREM CompletedStaysStored == Spec => CompletedStays
<1>1. ASSUME TypeOK, AloneInv, [Next]_vars, stored.Status = "COMPLETED", ~overlap
      PROVE  stored'.Status = "COMPLETED"
  <2>1. CASE UNCHANGED stored
    BY <1>1, <2>1
  <2>2. ASSUME NEW c \in Callers, Finalize(c) PROVE FALSE
    BY <1>1, <2>2 DEF Finalize, AloneInv, Continuing
  <2>3. UNCHANGED stored \/ \E c \in Callers : Finalize(c)
    BY <1>1 DEF Next, Rest, Request, Check, SendSignal, ListFlows, Visit, UpdateFlow, TimerFires,
       Continue, Fails, Crash, Load, Interrupt, CancelOne, GoOn, GoesNowhere, ExecuteElement,
       HandleResult, vars, caseVars
  <2> QED
    BY <2>1, <2>2, <2>3
<1>2. TypeOK /\ AloneInv /\ [Next]_vars
        => [stored.Status = "COMPLETED" /\ ~overlap => stored'.Status = "COMPLETED"]_vars
  BY <1>1
<1> QED
  BY <1>2, CallersTypeInvariant, AloneInvariance, PTL DEF Spec, CompletedStays

----------------------------------------------------------------------------
(* Joins.                                                                  *)

LEMMA InitJoin == Init => JoinGoesOn
<1> SUFFICES ASSUME Init PROVE JoinGoesOn
  OBVIOUS
<1>1. \A j : Cardinality({i \in executed : flows[i].element = j}) = 0
  <2>1. \A j : {i \in executed : flows[i].element = j} = {}
    BY DEF Init
  <2> QED
    BY <2>1, FS_EmptySet
<1>2. \A j : Process[j].Incoming \notin 1..Cardinality({i \in executed : flows[i].element = j})
  <2>1. 1..0 = {}
    OBVIOUS
  <2> QED
    BY <1>1, <2>1, Zenon
<1> QED
  BY <1>2 DEF JoinGoesOn

\* The answer of a join that a step may not forget.
Owed(r) ==
  /\ flows[r.flow].element \in Of("parallelGateway") /\ r.ans.Action = "ROUTE"
  /\ Process[flows[r.flow].element].Outgoing # {}

\* It is kept, given up with its run, or the path behind the join is there.
Honoured(r) ==
  \/ \E d \in Callers : r \in results'[d]
  \/ r.flow \in dropped'
  \/ \E i \in FlowID' : flows'[i].element \in Process[flows[r.flow].element].Outgoing

\* Steps that execute nothing.
LEMMA JoinStays ==
  ASSUME TypeOK, JoinGoesOn, Stays, UNCHANGED executed, dropped \subseteq dropped',
         \A c \in Callers : \A r \in results[c] : Owed(r) => Honoured(r)
  PROVE  JoinGoesOn'
<1> SUFFICES ASSUME NEW j \in Of("parallelGateway"), Joins(j), Process[j].Outgoing # {},
                    Process[j].Incoming
                      \in 1..Cardinality({i \in executed' : flows'[i].element = j})
             PROVE  \/ \E i \in FlowID' : flows'[i].element \in Process[j].Outgoing
                    \/ \E c \in Callers : \E r \in results'[c] :
                         /\ r.flow \in {i \in executed' : flows'[i].element = j}
                         /\ r.ans.Action = "ROUTE"
                    \/ {i \in executed' : flows'[i].element = j} \cap dropped' # {}
  BY DEF JoinGoesOn
<1> DEFINE arrivals == {i \in executed : flows[i].element = j}
<1>1. {i \in executed' : flows'[i].element = j} = arrivals
  BY DEF Stays, TypeOK, HistoryType
<1>2. \/ \E i \in FlowID : flows[i].element \in Process[j].Outgoing
      \/ \E c \in Callers : \E r \in results[c] : r.flow \in arrivals /\ r.ans.Action = "ROUTE"
      \/ arrivals \cap dropped # {}
  BY <1>1 DEF JoinGoesOn
<1>3. CASE \E i \in FlowID : flows[i].element \in Process[j].Outgoing
  BY <1>3 DEF Stays
<1>4. ASSUME NEW c \in Callers, NEW r \in results[c], r.flow \in arrivals, r.ans.Action = "ROUTE"
      PROVE  \/ \E i \in FlowID' : flows'[i].element \in Process[j].Outgoing
             \/ \E d \in Callers : r \in results'[d]
             \/ arrivals \cap dropped' # {}
  <2>1. Owed(r) /\ flows[r.flow].element = j
    BY <1>4 DEF Owed
  <2>2. Honoured(r)
    BY <2>1
  <2> QED
    BY <1>4, <2>1, <2>2 DEF Honoured
<1>5. CASE arrivals \cap dropped # {}
  BY <1>1, <1>5
<1> HIDE DEF arrivals
<1> QED
  BY <1>1, <1>2, <1>3, <1>4, <1>5

\* A join that has met all its arrivals is complete.
LEMMA CompleteJoin ==
  ASSUME TypeOK, AnswerInv, NEW j \in Of("parallelGateway"), NEW E \in SUBSET FlowID,
         Process[j].Incoming \in 1..Cardinality({i \in E : flows[i].element = j})
  PROVE  AllIncomingComplete(j)
<1> DEFINE seen == {i \in E : flows[i].element = j}
           there == {i \in FlowID : flows[i].element = j /\ flows[i].status # "ERROR"}
<1>1. Process[j].Type = "parallelGateway" /\ Process[j].Incoming \in Nat
  BY ProcessAssumption DEF Of, Element
<1>2. seen \subseteq there
  BY <1>1 DEF AnswerInv
<1>3. /\ IsFiniteSet(there) /\ Cardinality(there) \in Nat
      /\ IsFiniteSet(seen) /\ Cardinality(seen) \in Nat
  <2>1. there \in SUBSET FlowID /\ seen \in SUBSET FlowID
    OBVIOUS
  <2> HIDE DEF there, seen
  <2> QED
    BY <2>1, FlowsFinite
<1>4. Cardinality(seen) <= Cardinality(there)
  BY <1>2, <1>3, FS_Subset
<1> QED
  BY <1>1, <1>3, <1>4 DEF AllIncomingComplete

LEMMA ExecuteElementJoin ==
  ASSUME TypeOK, AnswerInv, JoinGoesOn, Stays, NEW c \in Callers, ExecuteElement(c)
  PROVE  JoinGoesOn'
<1>1. PICK f0, complete, a : Executes(c, f0, complete, a) /\ f0 \in FlowID
  BY ExecuteElementExecutes
<1> DEFINE e == flows[f0].element
           r0 == [flow |-> f0, ans |-> a]
<1>2. /\ executed' = executed \cup {f0} /\ executed' \subseteq FlowID
      /\ \A d \in Callers : results[d] \subseteq results'[d]
      /\ r0 \in results'[c] /\ dropped \subseteq dropped'
  BY <1>1 DEF Executes, TypeOK, HistoryType, CallType
<1> SUFFICES ASSUME NEW j \in Of("parallelGateway"), Joins(j), Process[j].Outgoing # {},
                    Process[j].Incoming
                      \in 1..Cardinality({i \in executed' : flows'[i].element = j})
             PROVE  \/ \E i \in FlowID' : flows'[i].element \in Process[j].Outgoing
                    \/ \E d \in Callers : \E r \in results'[d] :
                         /\ r.flow \in {i \in executed' : flows'[i].element = j}
                         /\ r.ans.Action = "ROUTE"
                    \/ {i \in executed' : flows'[i].element = j} \cap dropped' # {}
  BY DEF JoinGoesOn
<1> DEFINE arrivals == {i \in executed' : flows[i].element = j}
<1>3. {i \in executed' : flows'[i].element = j} = arrivals
  BY <1>2 DEF Stays
<1>4. CASE e # j
  <2>1. arrivals = {i \in executed : flows[i].element = j}
    BY <1>2, <1>4
  <2>2. \/ \E i \in FlowID : flows[i].element \in Process[j].Outgoing
        \/ \E d \in Callers : \E r \in results[d] : r.flow \in arrivals /\ r.ans.Action = "ROUTE"
        \/ arrivals \cap dropped # {}
    BY <1>3, <2>1 DEF JoinGoesOn
  <2>3. \/ \E i \in FlowID' : flows'[i].element \in Process[j].Outgoing
        \/ \E d \in Callers : \E r \in results'[d] : r.flow \in arrivals /\ r.ans.Action = "ROUTE"
        \/ arrivals \cap dropped' # {}
    BY <1>2, <2>2 DEF Stays
  <2> QED
    BY <1>3, <2>3
<1>5. CASE e = j
  <2>1. f0 \in arrivals
    BY <1>2, <1>5
  <2>2. AllIncomingComplete(j)
    BY <1>2, <1>3, CompleteJoin
  <2>3. CASE f0 \in dropped'
    BY <1>3, <2>1, <2>3
  <2>4. CASE complete = AllIncomingComplete(e)
    <3>1. complete /\ complete \in BOOLEAN /\ a \in Execute(j, complete)
      BY <1>1, <1>5, <2>2, <2>4 DEF Executes
    <3>2. a = Answer("ROUTE", {})
      BY <3>1, JoinAnswer
    <3>3. a.Action = "ROUTE"
      BY <3>2 DEF Answer
    <3> QED
      BY <1>2, <1>3, <2>1, <3>3
  <2> QED
    BY <1>1, <2>3, <2>4 DEF Executes
<1> QED
  BY <1>4, <1>5

LEMMA HandleResultJoin ==
  ASSUME TypeOK, AnswerInv, JoinGoesOn, Stays, NEW c \in Callers, HandleResult(c)
  PROVE  JoinGoesOn'
<1>1. PICK r0 \in results[c] :
        \/ /\ Handles(c, r0)
           /\ Routes(c, r0.flow, r0.ans) \/ Ends(c, r0.flow, r0.ans) \/ Waits(c, r0.flow, r0.ans)
        \/ Abandons(c)
  BY HandleResultHandles
<1>2. UNCHANGED executed
  BY DEF HandleResult
<1>3. CASE Abandons(c)
  <2>1. /\ dropped' = dropped \cup Unhandled(c)
        /\ \A d \in Callers \ {c} : results'[d] = results[d]
    BY <1>3 DEF Abandons, Leave, TypeOK, CallType
  <2>2. ASSUME NEW d \in Callers, NEW r \in results[d] PROVE Honoured(r)
    BY <2>1 DEF Honoured, Unhandled
  <2> QED
    BY <1>2, <2>1, <2>2, JoinStays
<1>4. CASE /\ Handles(c, r0)
           /\ Routes(c, r0.flow, r0.ans) \/ Ends(c, r0.flow, r0.ans) \/ Waits(c, r0.flow, r0.ans)
  <2>1. /\ dropped' = dropped
        /\ \A d \in Callers : \A r \in results[d] : r = r0 \/ r \in results'[d]
    BY <1>4 DEF Handles, Routes, Ends, Waits, TypeOK, CallType
  <2>2. ASSUME Owed(r0)
        PROVE  \E i \in FlowID' : flows'[i].element \in Process[flows[r0.flow].element].Outgoing
    <3> DEFINE j == flows[r0.flow].element
    <3>1. r0.ans = Answer("ROUTE", {})
      <4>1. PICK complete \in BOOLEAN : r0.ans \in Execute(j, complete)
        BY DEF AnswerInv
      <4> QED
        BY <2>2, <4>1, JoinAnswer DEF Owed
    <3>2. Route(j, r0.ans) = Process[j].Outgoing /\ Process[j].Outgoing # {}
      BY <2>2, <3>1 DEF Route, Answer, Owed
    <3>3. Routes(c, r0.flow, r0.ans)
      BY <1>4, <3>1, <3>2 DEF Ends, Waits, Answer
    <3>4. PICK s : Adds(s) /\ s \in Seq(Route(j, r0.ans)) /\ Len(s) # 0
      BY <3>3, RoutesAdds
    <3> HIDE DEF j
    <3>5. DOMAIN s = 1..Len(s) /\ Len(s) \in Nat /\ FlowID' \ FlowID # {}
          /\ {Len(flows) + i : i \in DOMAIN s} = FlowID' \ FlowID
          /\ \A i \in DOMAIN s : flows'[Len(flows) + i] = CreateFlowRecord(s[i])
      BY <3>4, Added
    <3>6. 1 \in DOMAIN s /\ s[1] \in Process[j].Outgoing
      BY <3>2, <3>4, <3>5, ElementOfSeq
    <3>7. Len(flows) + 1 \in FlowID' /\ flows'[Len(flows) + 1].element = s[1]
      <4>1. Len(flows) + 1 \in FlowID'
        BY <3>5, <3>6
      <4>2. flows'[Len(flows) + 1] = CreateFlowRecord(s[1])
        BY <3>5, <3>6
      <4> QED
        BY <4>1, <4>2 DEF CreateFlowRecord
    <3> QED
      BY <3>6, <3>7 DEF j
  <2>3. ASSUME NEW d \in Callers, NEW r \in results[d], Owed(r) PROVE Honoured(r)
    BY <2>1, <2>2, <2>3 DEF Honoured
  <2> QED
    BY <1>2, <2>1, <2>3, JoinStays
<1> QED
  BY <1>1, <1>3, <1>4

\* The other steps of a caller keep the answers, have none, or give them up.
LEMMA OtherJoin ==
  ASSUME TypeOK, HandInv, JoinGoesOn, Stays, NEW c \in Callers,
         \/ Request(c) \/ Load(c) \/ Interrupt(c) \/ CancelOne(c) \/ GoOn(c) \/ GoesNowhere(c)
         \/ Finalize(c) \/ Fails(c)
  PROVE  JoinGoesOn'
<1>1. UNCHANGED executed /\ dropped \subseteq dropped'
  BY DEF Request, Check, SendSignal, ListFlows, Visit, UpdateFlow, TimerFires, Load, Interrupt,
     CancelOne, GoOn, GoesNowhere, Finalize, Fails, histVars
<1>2. \/ UNCHANGED results
      \/ /\ \E rest : Leave(c, rest)
         /\ results[c] = {} \/ dropped' = dropped \cup Unhandled(c)
  <2>1. CASE at[c] # "running"
    BY <2>1 DEF HandInv, Request, Check, SendSignal, ListFlows, Visit, UpdateFlow, TimerFires,
       Load, Interrupt, CancelOne, GoOn, GoesNowhere, Finalize, Fails, runVars
  <2>2. CASE at[c] = "running"
    BY <2>2 DEF Request, Check, SendSignal, ListFlows, Visit, UpdateFlow, TimerFires, Load,
       Interrupt, CancelOne, GoOn, GoesNowhere, Finalize, Fails
  <2> QED
    BY <2>1, <2>2
<1>3. ASSUME NEW d \in Callers, NEW r \in results[d] PROVE Honoured(r)
  <2>1. CASE UNCHANGED results
    BY <1>3, <2>1 DEF Honoured
  <2>2. CASE /\ \E rest : Leave(c, rest)
             /\ results[c] = {} \/ dropped' = dropped \cup Unhandled(c)
    <3>1. \A b \in Callers \ {c} : results'[b] = results[b]
      BY <2>2 DEF Leave, TypeOK, CallType
    <3> QED
      BY <1>3, <2>2, <3>1 DEF Honoured, Unhandled
  <2> QED
    BY <1>2, <2>1, <2>2
<1> QED
  BY <1>1, <1>3, JoinStays

LEMMA StepJoin ==
  ASSUME TypeOK, HandInv, AnswerInv, JoinGoesOn, [Next]_vars PROVE JoinGoesOn'
<1>1. Stays
  BY FlowsStay
<1>2. CASE UNCHANGED vars
  <2>1. \A c \in Callers : \A r \in results[c] : Honoured(r)
    BY <1>2 DEF vars, runVars, Honoured
  <2> QED
    BY <1>1, <1>2, <2>1, JoinStays DEF vars, histVars
<1>3. CASE Crash
  <2>1. UNCHANGED executed /\ dropped \subseteq dropped'
        /\ \A c \in Callers : Unhandled(c) \subseteq dropped'
    BY <1>3 DEF Crash
  <2>2. \A c \in Callers : \A r \in results[c] : Honoured(r)
    BY <2>1 DEF Honoured, Unhandled
  <2> QED
    BY <1>1, <2>1, <2>2, JoinStays
<1> QED
  BY <1>1, <1>2, <1>3, ExecuteElementJoin, HandleResultJoin, OtherJoin DEF Next, Rest, Continue

\* However the continuations overlap, a join that has executed its last arrival
\* goes on, unless the store, a failing run or a crash takes the answer away.
THEOREM JoinsGoOn == Spec => []JoinGoesOn
<1>1. Spec => [](TypeOK /\ HandInv /\ AnswerInv)
  BY RaceInvariance, PTL
<1>2. Init => JoinGoesOn
  BY InitJoin
<1>3. TypeOK /\ HandInv /\ AnswerInv /\ JoinGoesOn /\ [Next]_vars => JoinGoesOn'
  BY StepJoin
<1> QED
  BY <1>1, <1>2, <1>3, PTL DEF Spec
=============================================================================
