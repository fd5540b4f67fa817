---------------------------- MODULE CallActivity ----------------------------
(***************************************************************************)
(* Call activities (ActionCallActivity in internal/engine/engine.go): the  *)
(* elements of the called process are written, under prefixed ids, into    *)
(* the process of the case that calls.  Over the memory store that is the  *)
(* one Process every case runs on, and the lists of flows of the called    *)
(* elements are renamed in place.  Over the SQL store each run has a copy  *)
(* of its own, and nothing of it is left when the case is resumed.         *)
(*                                                                         *)
(* The parser delivers the process; a run is a bag of flows that are       *)
(* executed in any order (EngineLoop has its workers and channels), and    *)
(* the runs of one case do not overlap (Continuation has those that do).   *)
(***************************************************************************)
EXTENDS BPMNParser, InstanceState

CONSTANTS Deployed,        \* the documents whose cases are run
          CalledDocuments, \* documents of the called process, without sub-processes
          Cases            \* the instances

\* Items of a process that runs without a choice, an event or an error: start and end
\* events, flows, user and script tasks, calls and sub-processes.
Plainly(i) ==
  /\ i.tag \notin GatewayTags \cup (EventTags \ {"startEvent", "endEvent"})
                     \cup {"serviceTask", "closedSubProcess"}
  /\ i.definitions = <<>>

ASSUME CallAssumption ==
  /\ Deployed \subseteq Documents
  /\ \A doc \in CalledDocuments :
       WellFormed(doc) /\ \A i \in DOMAIN doc : doc[i].tag # "subProcess"
  /\ \A doc \in Deployed \cup CalledDocuments : \A i \in DOMAIN doc :
       Plainly(doc[i]) /\ \A j \in DOMAIN doc[i].items : Plainly(doc[i].items[j])

VARIABLES
  shared,     \* the store hands out its own Process (memory store) or a copy (SQL)
  called,     \* the called process, as it is stored
  own,        \* by case: the copy its run works on, if not shared
  work,       \* by case: the elements with a flow to execute, with their number
  waiting,    \* by case: the user tasks that wait
  status,     \* by case: the state of the instance its last run works on, or "none"
  stored,     \* by case: the status in its record
  endedBy,    \* history, by case: the end events at which its ways ended
  calls,      \* history: calls made so far
  resumedIn,  \* history: cases resumed inside a call
  aborted     \* history: cases of which a run was given up

callVars ==
  <<called, own, work, waiting, status, stored, endedBy, calls, resumedIn, aborted>>

ParsedFlat(doc) ==
  GatewayConditions(SyntheticFlows(wireFlows(ReadAll(doc))))

CallInit ==
  /\ Init
  /\ IF document \in Deployed
     THEN shared \in BOOLEAN /\ \E doc \in CalledDocuments : called = ParsedFlat(doc)
     ELSE shared = TRUE /\ called = NewProcess   \* only parsed
  /\ own = [c \in Cases |-> NewProcess]
  /\ work = [c \in Cases |-> EmptyBag]
  /\ waiting = [c \in Cases |-> EmptyBag]
  /\ status = [c \in Cases |-> "none"]
  /\ stored = [c \in Cases |-> "CREATED"]
  /\ endedBy = [c \in Cases |-> {}]
  /\ calls = 0 /\ resumedIn = {} /\ aborted = {}

\* instance.Process.
ProcessOf(c) == IF shared THEN process ELSE own[c]

\* The process of case c becomes result.
Replace(c, result) ==
  IF shared
  THEN process' = result /\ UNCHANGED own
  ELSE own' = [own EXCEPT ![c] = result] /\ UNCHANGED process

----------------------------------------------------------------------------
(* The called elements.                                                    *)

CallPrefix(e) == [e EXCEPT !.suffix = "ca-"]
IsCalled(e) == e.scope # <<>> /\ Head(e.scope).suffix = "ca-"

\* The called end event the map order puts first.
CalledEnd(e) ==
  IF EndEvents(called) = {} THEN {None}
  ELSE {Prefixed(CallPrefix(e), end) : end \in EndEvents(called)}

Renamed(prefix, list) ==
  [f \in {Prefixed(prefix, g) : g \in DOMAIN list} |-> list[Inside(f)]]

\* The called process once its lists are renamed in place.
RenamedLists(prefix, proc) ==
  [proc EXCEPT !.Elements =
     [e \in DOMAIN proc.Elements |->
        [proc.Elements[e] EXCEPT !.Outgoing = Renamed(prefix, @),
                                 !.Incoming = Renamed(prefix, @)]]]

\* Elements written by an earlier call share their lists with the called process.
\* The end event that was given exits has a list of its own.
Following(proc, target) ==
  [e \in DOMAIN target.Elements |->
     IF shared /\ IsCalled(e) /\ target.Elements[e].ExitFlows = {}
     THEN [target.Elements[e] EXCEPT !.Outgoing = proc.Elements[Inside(e)].Outgoing,
                                     !.Incoming = proc.Elements[Inside(e)].Incoming]
     ELSE target.Elements[e]]

\* A slip: the exit flows are not handed to the end event.
WithExitsForgotten(element, exits) == element

\* The end event goes on along the flows behind the call activity.
WithExits(element, exits) ==
  [element EXCEPT !.Outgoing = @ (+) SetToBag(exits), !.ExitFlows = exits]

\* A slip: the called flows keep their ids.
CalledFlowsAsTheyAre(prefix, proc) == proc.Flows

CalledFlows(prefix, proc) ==
  [p \in {Prefixed(prefix, f) : f \in DOMAIN proc.Flows} |->
     LET f == proc.Flows[Inside(p)]
     IN  Flow(Prefixed(prefix, f.source), Prefixed(prefix, f.target), f.condition)]

\* target with the elements and flows of proc, whose lists are renamed already.
Flattened(target, proc, e, end) ==
  LET prefix == CallPrefix(e)
      elements == [p \in {Prefixed(prefix, x) : x \in DOMAIN proc.Elements} |->
                     IF p = end
                     THEN WithExits(proc.Elements[Inside(p)], ExitFlows(target.Elements[e]))
                     ELSE proc.Elements[Inside(p)]]
  IN
  [target EXCEPT
     !.Elements = Over(elements, Following(proc, target)),
     !.Flows = Over([x \in {Prefixed(prefix, ID("entry"))} |->
                       Flow(e, Prefixed(prefix, proc.Start), FALSE)],
                    Over(CalledFlows(prefix, proc), @))]

----------------------------------------------------------------------------
(* A run.                                                                  *)

Walks == Parsed /\ document \in Deployed

Start(c) ==
  /\ Walks /\ status[c] = "none" /\ process.Start # None
  /\ own' = IF shared THEN own ELSE [own EXCEPT ![c] = process]
  /\ work' = [work EXCEPT ![c] = SetToBag({process.Start})]
  /\ status' = [status EXCEPT ![c] = "IN_PROGRESS"]
  /\ UNCHANGED <<process, called, waiting, stored, endedBy, calls, resumedIn, aborted>>

\* finalizeInstance, at the end of a run: the store may refuse.
Finalize(c, state) ==
  \/ stored' = [stored EXCEPT ![c] = state] /\ UNCHANGED aborted
  \/ UNCHANGED stored /\ aborted' = aborted \cup {c}

\* The run is left with the flows of the bag left, its instance in the given state.
RunLeft(c, left, state) ==
  /\ work' = [work EXCEPT ![c] = left]
  /\ status' = [status EXCEPT ![c] = state]
  /\ IF left = EmptyBag THEN Finalize(c, state) ELSE UNCHANGED <<stored, aborted>>

\* One flow of element e is done, and those of the bag next are created.
Executed(c, e, next, state) == RunLeft(c, (work[c] (-) SetToBag({e})) (+) next, state)

\* The run returns an error: what it had to do is lost, and nothing is stored.
Lost(c) == work' = [work EXCEPT ![c] = EmptyBag] /\ UNCHANGED <<status, stored>>

\* ActionRoute: elements that route on.  A script that fails does, too.
Passes(c, e) ==
  /\ ProcessOf(c).Elements[e].Type \in {"startEvent", "sequenceFlow", "scriptTask"}
  /\ Executed(c, e, Route(ProcessOf(c), e), status[c])
  /\ UNCHANGED <<process, called, own, waiting, endedBy, calls, resumedIn>>

Enters(c, e) ==
  /\ ProcessOf(c).Elements[e].Type = "subProcess"
  /\ Executed(c, e, RouteTo(ProcessOf(c), e, {Entry(e)}), status[c])
  /\ UNCHANGED <<process, called, own, waiting, endedBy, calls, resumedIn>>

\* The instance is completed if it can be: one that waits cannot.
TryComplete(state) == IF IsValidTransition(state, "COMPLETED") THEN "COMPLETED" ELSE state

\* An end event leads out of its scope.  If it leads nowhere the run tries to complete
\* the instance, and goes on regardless.
Ends(c, e) ==
  LET end == ProcessOf(c).Elements[e]
      next == IF end.ExitFlows = {} THEN EmptyBag ELSE RouteTo(ProcessOf(c), e, end.ExitFlows)
  IN
  /\ end.Type = "endEvent"
  /\ Executed(c, e, next, IF next = EmptyBag THEN TryComplete(status[c]) ELSE status[c])
  /\ endedBy' = [endedBy EXCEPT ![c] = IF next = EmptyBag THEN @ \cup {e} ELSE @]
  /\ UNCHANGED <<process, called, own, waiting, calls, resumedIn>>

\* ActionWait.  An instance that waits already, or is completed, cannot: the task is
\* there, and the run ends with an error.
Waits(c, e) ==
  /\ ProcessOf(c).Elements[e].Type = "userTask"
  /\ waiting' = [waiting EXCEPT ![c] = @ (+) SetToBag({e})]
  /\ IF IsValidTransition(status[c], "WAITING")
     THEN Executed(c, e, EmptyBag, "WAITING")
     ELSE Lost(c) /\ aborted' = aborted \cup {c}
  /\ UNCHANGED <<process, called, own, endedBy, calls, resumedIn>>

\* ActionCallActivity.
Calls(c, e) ==
  /\ ProcessOf(c).Elements[e].Type = "callActivity" /\ called.Start # None
  /\ calls' = calls + 1
  /\ \E end \in CalledEnd(e) :
       LET renamed == RenamedLists(CallPrefix(e), called) IN
       /\ Replace(c, Flattened(ProcessOf(c), renamed, e, end))
       /\ called' = IF shared THEN renamed ELSE called
  /\ Executed(c, e, SetToBag({Prefixed(CallPrefix(e), called.Start)}), status[c])
  /\ UNCHANGED <<waiting, endedBy, resumedIn>>

\* An element that is not there, a called process that cannot start: the run ends.
Breaks(c, e) ==
  /\ e \in DOMAIN ProcessOf(c).Elements =>
       ProcessOf(c).Elements[e].Type = "callActivity" /\ called.Start = None
  /\ Lost(c)
  /\ UNCHANGED <<process, called, own, waiting, endedBy, calls, resumedIn, aborted>>

\* The store fails, or the run reaches one of its limits.
Aborts(c) ==
  /\ work[c] # EmptyBag
  /\ Lost(c) /\ aborted' = aborted \cup {c}
  /\ UNCHANGED <<process, called, own, waiting, endedBy, calls, resumedIn>>

ExecuteElement(c) ==
  \E e \in BagToSet(work[c]) :
    \/ Breaks(c, e)
    \/ /\ e \in DOMAIN ProcessOf(c).Elements
       /\ Passes(c, e) \/ Enters(c, e) \/ Ends(c, e) \/ Waits(c, e) \/ Calls(c, e)

\* Continue, for a task that was completed: the instance and the process are read from
\* the store again.  A flow whose element the process does not have leads nowhere, and
\* an instance that cannot be taken up stays as it is.
Resume(c) ==
  /\ status[c] # "none" /\ work[c] = EmptyBag
  /\ \E e \in BagToSet(waiting[c]) :
       /\ waiting' = [waiting EXCEPT ![c] = @ (-) SetToBag({e})]
       /\ IF IsValidTransition(stored[c], "IN_PROGRESS")
          THEN /\ own' = IF shared THEN own ELSE [own EXCEPT ![c] = process]
               /\ resumedIn' = IF IsCalled(e) THEN resumedIn \cup {c} ELSE resumedIn
               /\ RunLeft(c, IF e \in DOMAIN process.Elements THEN Route(process, e) ELSE EmptyBag,
                         "IN_PROGRESS")
          ELSE UNCHANGED <<own, resumedIn, work, status, stored, aborted>>
  /\ UNCHANGED <<process, called, endedBy, calls>>

AtRest(c) == status[c] # "none" /\ work[c] = EmptyBag /\ waiting[c] = EmptyBag

\* Every case has come to rest, or there is nothing to run.
Rest ==
  /\ Parsed
  /\ Walks /\ process.Start # None => \A c \in Cases : AtRest(c)
  /\ UNCHANGED <<process, callVars>>

CallNext ==
  \/ Parse /\ UNCHANGED <<shared, callVars>>
  \/ /\ \/ \E c \in Cases : Start(c) \/ ExecuteElement(c) \/ Aborts(c) \/ Resume(c)
        \/ Rest
     /\ UNCHANGED <<document, phase, read, shared>>

CallSpec == CallInit /\ [][CallNext]_<<vars, shared, callVars>>

----------------------------------------------------------------------------
(* Properties.                                                             *)

\* The stored processes and the work of each case stay well-formed.
TypeOK ==
  /\ ProcessType
  /\ shared \in BOOLEAN
  /\ \A c \in Cases : IsABag(work[c]) /\ IsABag(waiting[c])
  /\ status \in [Cases -> State \cup {"none"}] /\ stored \in [Cases -> State]
  /\ \A c \in Cases : endedBy[c] # {} => status[c] # "none"
  /\ calls \in Nat /\ resumedIn \subseteq Cases /\ aborted \subseteq Cases

\* However many calls were made, by however many cases, what the calling document
\* draws is routed as drawn on every process a case works on.
CallsLeaveDrawnFlows ==
  Walks => \A c \in Cases : status[c] # "none" =>
    \A i \in ItemsOf(document) :
      /\ i.tag \in NodeTags \ {"subProcess"} =>
           Route(ProcessOf(c), i.id) = SetToBag(From(document, i.id))
      /\ i.tag = "sequenceFlow" => Route(ProcessOf(c), i.id) = SetToBag({i.target})

\* Nothing comes between the calls of a case and its end: no run was given up, and
\* over the memory store there was a single call so far, over the SQL store no
\* resumption inside a call.
Undisturbed(c) ==
  c \notin aborted /\ IF shared THEN calls <= 1 ELSE c \notin resumedIn

\* The called process can start, and has one end event.
Callable == called.Start # None /\ Cardinality(EndEvents(called)) = 1

\* The elements of a process but for those that calls have added.
OwnElements(proc) == {e \in DOMAIN proc.Elements : ~IsCalled(e)}

\* Every flow leads to an element, and every element but an end event has a flow to
\* leave by.
LeadsOn(proc) ==
  /\ \A f \in DOMAIN proc.Flows : IsCalled(f) \/ proc.Flows[f].target \in OwnElements(proc)
  /\ \A e \in OwnElements(proc) :
       proc.Elements[e].Type = "endEvent" \/ BagToSet(proc.Elements[e].Outgoing) # {}

\* Case c is stored as completed, and no way of it ended inside of a called process.
CompletedAsDrawn(c) ==
  stored[c] = "COMPLETED" /\ \A e \in endedBy[c] : ~IsCalled(e)

\* When no way ends but at an end event, an undisturbed case comes to rest only once
\* it is completed, through an end event of its own: a called process with one end
\* event leads back to the flows behind the call activity.
CallsReturn ==
  LeadsOn(process) /\ LeadsOn(called) /\ Callable =>
    \A c \in Cases : AtRest(c) /\ Undisturbed(c) => CompletedAsDrawn(c)

----------------------------------------------------------------------------
(* What the documents say and the code does not do.                        *)

\* A call leads back when the called process is done, whoever else calls it
\* (docs/bpmn-and-bpmn-ai.md:343).
EveryCallReturns ==
  \A c \in Cases : AtRest(c) /\ Callable => CompletedAsDrawn(c)
=============================================================================
