----------------------------- MODULE BPMNParser -----------------------------
(***************************************************************************)
(* Parser.Parse (pkg/bpmn/parser.go): how the items of a BPMN document     *)
(* become the Process the engine routes on.  A sequence flow becomes an    *)
(* element of its own with a synthetic flow behind it; a sub-process is    *)
(* parsed apart and flattened into the outer process with prefixed ids.    *)
(*                                                                         *)
(* Unmarshalling, names and the attributes of tasks are left out.  A sub-  *)
(* process of which parseSubProcessXML reads nothing (it is empty, cannot  *)
(* be unmarshalled or has more than 100 elements) has a tag of its own.    *)
(***************************************************************************)
EXTENDS Naturals, Sequences, FiniteSets, FiniteSetsExt, Bags

CONSTANTS Documents,   \* the documents, each a sequence of items
          None         \* an absent attribute

(***************************************************************************)
(* A flowElement of the XML: its tag and id; source, target and whether it *)
(* has a condition, for a sequence flow; the default flow and the flows    *)
(* with a condition in the extension elements, for a gateway; attachedTo;  *)
(* its event definitions, and the items inside a sub-process, in order.    *)
(***************************************************************************)
ItemFields ==
  {"tag", "id", "source", "target", "condition", "default", "conditions",
   "attachedTo", "definitions", "items"}

EventTags ==
  {"startEvent", "endEvent", "intermediateCatchEvent", "intermediateThrowEvent",
   "boundaryEvent"}
GatewayTags ==
  {"exclusiveGateway", "parallelGateway", "inclusiveGateway", "eventBasedGateway"}
TaskTags ==
  {"userTask", "scriptTask", "serviceTask", "task", "callActivity", "closedSubProcess"}

ItemsOf(doc) == {doc[i] : i \in DOMAIN doc}
FlowItems(doc) == {i \in ItemsOf(doc) : i.tag = "sequenceFlow"}

(***************************************************************************)
(* An id: the prefixes in front of it (ids again), its name, its suffix.    *)
(***************************************************************************)
ID(name) == [scope |-> <<>>, name |-> name, suffix |-> ""]
Prefixed(prefix, id) == [id EXCEPT !.scope = <<prefix>> \o @]
Inside(id) == [id EXCEPT !.scope = Tail(@)]
Synthetic(id) == [id EXCEPT !.suffix = "_synth"]
Drawn(id) == [id EXCEPT !.suffix = ""]
Entry(id) == [id EXCEPT !.suffix = "_sp_entry"]

IsID(x) == x # None /\ x = ID(x.name)

\* What the BPMN schema says of the items of a process or a sub-process and Parse
\* does not check: an id names one item, a flow is drawn from a node.
WellFormed(items) ==
  /\ items \in Seq(ItemsOf(items))
  /\ \A i \in ItemsOf(items) :
       DOMAIN i = ItemFields /\ IsID(i.id) /\ i.definitions \in Seq(STRING)
  /\ \A m, n \in DOMAIN items : items[m].id = items[n].id => m = n
  /\ \A f \in FlowItems(items) :
       IsID(f.source) /\ IsID(f.target) /\ \A g \in FlowItems(items) : f.source # g.id

\* A document: what is inside of a sub-process has ids of its own; one inside of
\* another is not read at all.
IsDocument(doc) ==
  /\ WellFormed(doc)
  /\ \A i \in ItemsOf(doc) :
       /\ WellFormed(i.items)
       /\ \A j \in ItemsOf(i.items) : j.tag # "closedSubProcess" /\
            Prefixed(i.id, j.id) # None /\ \A k \in ItemsOf(doc) : j.id # k.id

ASSUME DocumentAssumption == \A document \in Documents : IsDocument(document)

VARIABLES
  document,   \* the document that is parsed
  process,    \* the Process so far
  phase,      \* where Parse is
  read        \* items read

vars == <<document, process, phase, read>>

Element(type) ==
  [Type |-> type, Outgoing |-> EmptyBag, Incoming |-> EmptyBag, Default |-> None,
   Conditions |-> {}, AttachedTo |-> None, End |-> None, ExitFlows |-> {}]

Flow(source, target, condition) ==
  [source |-> source, target |-> target, condition |-> condition]

NewProcess == [Elements |-> <<>>, Flows |-> <<>>, Start |-> None]

\* A map written over another one.
Over(new, old) ==
  [x \in DOMAIN new \cup DOMAIN old |-> IF x \in DOMAIN new THEN new[x] ELSE old[x]]

----------------------------------------------------------------------------
(* Items.                                                                  *)

\* The type a tag gives an event before its definitions are read.
BasicType(tag) ==
  CASE tag = "intermediateCatchEvent" -> "messageCatch"
    [] tag = "intermediateThrowEvent" -> "messageThrow"
    [] tag = "boundaryEvent"          -> "timerEvent"
    [] OTHER                          -> tag

\* The type an event definition gives, None if it gives none.
DefinedType(tag, definition) ==
  CASE definition = "timer"     -> "timerEvent"
    [] definition = "terminate" -> "terminateEvent"
    [] definition = "message"   ->
         IF tag \in {"intermediateCatchEvent", "boundaryEvent"}
         THEN "messageCatch" ELSE "messageThrow"
    [] definition = "signal"    ->
         IF tag \in {"intermediateCatchEvent", "boundaryEvent", "startEvent"}
         THEN "signalCatch" ELSE "signalThrow"
    [] definition = "error" /\ tag \in {"endEvent", "intermediateThrowEvent"} -> "errorEnd"
    [] definition = "error" /\ tag \in {"boundaryEvent", "startEvent"} -> "errorCatch"
    [] OTHER -> None

\* The last definition that gives a type decides.
EventType(item) ==
  LET deciding == {d \in DOMAIN item.definitions :
                     DefinedType(item.tag, item.definitions[d]) # None}
  IN  IF deciding = {} THEN BasicType(item.tag)
      ELSE DefinedType(item.tag, item.definitions[Max(deciding)])

parseEvent(item) ==
  [Element(EventType(item)) EXCEPT
     !.AttachedTo = IF item.tag = "boundaryEvent" THEN item.attachedTo ELSE None]

parseGateway(item) ==
  [Element(item.tag) EXCEPT !.Default = item.default, !.Conditions = item.conditions]

\* A closed sub-process is an element that nothing was flattened for.
parseActivity(item) == Element(IF item.tag = "task" THEN "userTask" ELSE item.tag)

parseFlow(item) == Flow(item.source, item.target, item.condition)

\* result with element e, and flow f, under an id.
WithElement(result, id, e) == [result EXCEPT !.Elements = Over([x \in {id} |-> e], @)]
WithFlow(result, id, f) == [result EXCEPT !.Flows = Over([x \in {id} |-> f], @)]

\* The switch over the tag of one item, but for sub-processes.
ReadItem(result, item) ==
  CASE item.tag \in EventTags ->
         [WithElement(result, item.id, parseEvent(item)) EXCEPT
            !.Start = IF item.tag = "startEvent" /\ @ = None THEN item.id ELSE @]
    [] item.tag \in GatewayTags -> WithElement(result, item.id, parseGateway(item))
    [] item.tag \in TaskTags    -> WithElement(result, item.id, parseActivity(item))
    [] item.tag = "sequenceFlow" ->
         WithElement(WithFlow(result, item.id, parseFlow(item)),
                     item.id, Element("sequenceFlow"))
    [] OTHER -> result

\* All items, one after the other.
ReadAll(items) ==
  LET Reading[n \in 0..Len(items)] ==
        IF n = 0 THEN NewProcess ELSE ReadItem(Reading[n - 1], items[n])
  IN  Reading[Len(items)]

----------------------------------------------------------------------------
(* Flows.                                                                  *)

\* wireFlows appends each flow to its source and its target.  The fallback to the
\* incoming and outgoing children of an element finds only flows wired already.
wireFlows(result) ==
  [result EXCEPT !.Elements =
     [e \in DOMAIN result.Elements |->
        [result.Elements[e] EXCEPT
           !.Outgoing = @ (+) SetToBag({f \in DOMAIN result.Flows : result.Flows[f].source = e}),
           !.Incoming = @ (+) SetToBag({f \in DOMAIN result.Flows : result.Flows[f].target = e})]]]

FlowElements(result) ==
  {e \in DOMAIN result.Elements \cap DOMAIN result.Flows :
     result.Elements[e].Type = "sequenceFlow"}

\* A slip: the flow to the target counts as one more arrival there.
SyntheticFlowsCounted(result) ==
  LET flows == FlowElements(result) IN
  [result EXCEPT
     !.Flows = Over([s \in {Synthetic(f) : f \in flows} |->
                       Flow(Drawn(s), result.Flows[Drawn(s)].target, FALSE)], @),
     !.Elements = [e \in DOMAIN result.Elements |->
                     [result.Elements[e] EXCEPT
                        !.Outgoing = @ (+) SetToBag({Synthetic(e)} \cap {Synthetic(f) : f \in flows}),
                        !.Incoming = @ (+) SetToBag({Synthetic(f) : f \in
                                             {g \in flows : result.Flows[g].target = e}})]]]

\* Every sequence flow, as an element, gets a flow to its target.
SyntheticFlows(result) ==
  LET flows == FlowElements(result) IN
  [result EXCEPT
     !.Flows = Over([s \in {Synthetic(f) : f \in flows} |->
                       Flow(Drawn(s), result.Flows[Drawn(s)].target, FALSE)], @),
     !.Elements = [e \in DOMAIN result.Elements |->
                     IF e \in flows
                     THEN [result.Elements[e] EXCEPT
                             !.Outgoing = @ (+) SetToBag({Synthetic(e)})]
                     ELSE result.Elements[e]]]

----------------------------------------------------------------------------
(* Sub-processes.                                                          *)

\* A sub-process inside the sub-process is skipped, like any other tag.
parseSubProcessXML(items) == SyntheticFlows(wireFlows(ReadAll(items)))

EndEvents(inner) == {e \in DOMAIN inner.Elements : inner.Elements[e].Type = "endEvent"}

\* The end event the map order puts first, None if there is none.
FirstEnd(item) ==
  LET ends == EndEvents(parseSubProcessXML(item.items)) IN
  IF ends = {} THEN {None} ELSE {Prefixed(item.id, e) : e \in ends}

\* A slip: flows keep the source and the target they have inside.
InnerFlowAsItIs(sp, f) == f

InnerFlow(sp, f) == Flow(Prefixed(sp, f.source), Prefixed(sp, f.target), f.condition)

\* Elements and flows move to the outer process under prefixed ids.  The lists
\* and references inside an element are not prefixed.
flattenSubProcess(result, item, end) ==
  LET inner == parseSubProcessXML(item.items)
      sp == item.id
      entry == Flow(item.id, Prefixed(sp, IF inner.Start = None THEN ID(None) ELSE inner.Start),
                    FALSE)
  IN
  [result EXCEPT
     !.Elements = Over([x \in {sp} |-> [Element("subProcess") EXCEPT !.End = end]],
       Over([p \in {Prefixed(sp, e) : e \in DOMAIN inner.Elements} |-> inner.Elements[Inside(p)]],
            @)),
     !.Flows = Over([x \in {Entry(sp)} |-> entry],
       Over([p \in {Prefixed(sp, f) : f \in DOMAIN inner.Flows} |->
               InnerFlow(sp, inner.Flows[Inside(p)])],
            @))]

\* A slip: all of them.
ExitFlowsAndEntry(e) == BagToSet(e.Outgoing)

\* The flows a sub-process was drawn with, entry aside.
ExitFlows(e) == {f \in BagToSet(e.Outgoing) : f.suffix # "_sp_entry"}

\* Each sub-process hands its outgoing flows to the end event found in it.
ExitRouting(result) ==
  LET Ending(end) == {e \in DOMAIN result.Elements : result.Elements[e].End = end} IN
  [result EXCEPT !.Elements =
     [end \in DOMAIN result.Elements |->
        IF Ending(end) = {} THEN result.Elements[end]
        ELSE LET sp == CHOOSE e \in Ending(end) : TRUE
                 exits == ExitFlows(result.Elements[sp])
             IN  [result.Elements[end] EXCEPT
                    !.Outgoing = @ (+) SetToBag(exits),
                    !.ExitFlows = BagToSet(result.Elements[end].Outgoing) \cup exits]]]

\* A gateway takes over the conditions of its outgoing flows.
GatewayConditions(result) ==
  [result EXCEPT !.Elements =
     [e \in DOMAIN result.Elements |->
        IF result.Elements[e].Type \notin GatewayTags THEN result.Elements[e]
        ELSE [result.Elements[e] EXCEPT !.Conditions = @ \cup
                {f \in BagToSet(result.Elements[e].Outgoing) \cap DOMAIN result.Flows :
                   result.Flows[f].condition}]]]

----------------------------------------------------------------------------
(* Parse.                                                                  *)

Init ==
  /\ document \in Documents
  /\ process = NewProcess
  /\ phase = "items" /\ read = 0

item == document[read + 1]

ParseItem ==
  /\ phase = "items" /\ read < Len(document)
  /\ read' = read + 1
  /\ IF item.tag = "subProcess"
     THEN \E end \in FirstEnd(item) : process' = flattenSubProcess(process, item, end)
     ELSE process' = ReadItem(process, item)
  /\ UNCHANGED <<document, phase>>

Then(now, next, result) ==
  /\ phase = now /\ phase' = next
  /\ process' = result
  /\ UNCHANGED <<document, read>>

WireFlows ==
  /\ read = Len(document)
  /\ Then("items", "synthetic", wireFlows(process))

AddSyntheticFlows == Then("synthetic", "exits", SyntheticFlows(process))

RouteExits == Then("exits", "conditions", ExitRouting(process))

CollectConditions == Then("conditions", "parsed", GatewayConditions(process))

Parse == ParseItem \/ WireFlows \/ AddSyntheticFlows \/ RouteExits \/ CollectConditions

----------------------------------------------------------------------------
(* Routing on the result (FlowRouter.Route without a filter).              *)

\* A slip: the flow is jumped over.
StepOver(result, f) == result.Flows[f].target

\* The elements a flow steps to: the flow itself when it is an element.
Step(result, f) ==
  IF f \in DOMAIN result.Elements /\ result.Elements[f].Type = "sequenceFlow"
  THEN f ELSE result.Flows[f].target

\* How often the flows of S are listed.
Listed(list, S) == MapThenSumSet(LAMBDA f : list[f], S)

\* What Route yields for element e when only some flows pass the filter: unknown
\* flows are skipped, doubles are not.
RouteTo(result, e, filters) ==
  LET list == result.Elements[e].Outgoing
      known == BagToSet(list) \cap DOMAIN result.Flows \cap filters
  IN  [to \in {Step(result, f) : f \in known} |->
         Listed(list, {f \in known : Step(result, f) = to})]

Route(result, e) == RouteTo(result, e, DOMAIN result.Flows)

----------------------------------------------------------------------------
(* Properties.                                                             *)

SubProcesses == {i \in ItemsOf(document) : i.tag = "subProcess"}
NodeTags == EventTags \cup GatewayTags \cup TaskTags \cup {"subProcess"}

\* The flows drawn from, and to, an id of a document.
From(doc, id) == {f.id : f \in {g \in FlowItems(doc) : g.source = id}}
To(doc, id) == {f.id : f \in {g \in FlowItems(doc) : g.target = id}}

Parsed == phase = "parsed"

\* The process has the parts the router reads, in every phase.
ProcessType ==
  /\ document \in Documents
  /\ phase \in {"items", "synthetic", "exits", "conditions", "parsed"}
  /\ read \in 0..Len(document)
  /\ \A e \in DOMAIN process.Elements :
       /\ IsABag(process.Elements[e].Outgoing) /\ IsABag(process.Elements[e].Incoming)
       /\ process.Elements[e].ExitFlows \subseteq BagToSet(process.Elements[e].Outgoing)
  /\ process.Start \in DOMAIN process.Elements \cup {None}

\* Outside of sub-processes the engine steps exactly as drawn: from an element to
\* each flow drawn from it, once, and from a flow to its target, once.  A
\* sub-process also has its entry.
RoutesAsDrawn ==
  Parsed => \A i \in ItemsOf(document) :
    /\ i.tag \in NodeTags \ {"subProcess"} =>
         Route(process, i.id) = SetToBag(From(document, i.id))
    /\ i.tag = "sequenceFlow" => Route(process, i.id) = SetToBag({i.target})
    /\ i.tag = "subProcess" =>
         Route(process, i.id) =
           SetToBag(From(document, i.id)) (+) SetToBag({process.Flows[Entry(i.id)].target})

\* A join outside of sub-processes waits for as many arrivals as flows are drawn
\* to it: the synthetic flows and those of other scopes do not count.
JoinsCountDrawnFlows ==
  Parsed => \A i \in ItemsOf(document) :
    i.tag \in NodeTags => process.Elements[i.id].Incoming = SetToBag(To(document, i.id))

\* What flattening makes of a sub-process.  Inside, an element leads to each flow
\* drawn from it once, and a flow to its target twice, as its synthetic flow is
\* listed twice.  An exclusive gateway there leads on only by a condition that is
\* drawn on a flow: the ids of its default, of its extension elements and of the
\* flow listed first have no prefix, and the router knows none of them.
InnerStepsAsFlattened ==
  Parsed => \A sp \in SubProcesses : \A i \in ItemsOf(sp.items) :
    LET In(S) == {Prefixed(sp.id, id) : id \in S}
        here == Prefixed(sp.id, i.id)
        drawn == From(sp.items, i.id)
    IN
    /\ i.tag = "sequenceFlow" => Route(process, here) = [to \in In({i.target}) |-> 2]
    /\ i.tag \in NodeTags \ {"endEvent", "subProcess"} =>
         Route(process, here) = SetToBag(In(drawn))
    /\ i.tag = "exclusiveGateway" =>
         /\ \A choice \in drawn \cup {i.default} \cup i.conditions :
              RouteTo(process, here, {choice}) = EmptyBag
         /\ \A f \in {g \in FlowItems(sp.items) : g.source = i.id /\ g.condition} :
              LET choice == Prefixed(sp.id, f.id) IN
              /\ choice \in process.Elements[here].Conditions
              /\ RouteTo(process, here, {choice}) = SetToBag({choice})

\* A sub-process that has an end event is left through exactly one of them, along
\* the flows drawn from the sub-process and, were there any, from the end event.
\* Any other end event in it has no exits: it completes the case.
LeftThroughOneEnd ==
  Parsed => \A sp \in SubProcesses :
    LET ends == EndEvents(parseSubProcessXML(sp.items))
        ExitsOf(e) == process.Elements[Prefixed(sp.id, e)].ExitFlows
        exits == {e \in ends : ExitsOf(e) # {}}
    IN
    /\ ends # {} /\ From(document, sp.id) # {} => Cardinality(exits) = 1
    /\ \A e \in exits :
         LET own == From(sp.items, e)
         IN  ExitsOf(e) = From(document, sp.id) \cup own \cup {Prefixed(sp.id, f) : f \in own}

\* Whatever a gateway outside of sub-processes may choose, the router knows.
ChoicesAreKnown ==
  Parsed => \A i \in ItemsOf(document) :
    i.tag \in GatewayTags =>
      LET g == process.Elements[i.id] IN
      /\ {f.id : f \in {h \in FlowItems(document) : h.source = i.id /\ h.condition}}
           \subseteq g.Conditions
      /\ (g.Conditions \cup ({g.Default} \ {None})) \cap From(document, i.id)
           \subseteq DOMAIN process.Flows

----------------------------------------------------------------------------
(* What the tests say and the parser does not do.                          *)

\* Inside a sub-process the engine steps as drawn, too: each flow leads to its
\* target once (internal/engine/engine_test.go:1192).
InnerFlowsOnce ==
  Parsed => \A sp \in SubProcesses : \A i \in FlowItems(sp.items) :
    Route(process, Prefixed(sp.id, i.id)) = SetToBag({Prefixed(sp.id, i.target)})
=============================================================================
