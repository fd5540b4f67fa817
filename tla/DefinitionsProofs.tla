------------------------- MODULE DefinitionsProofs -------------------------
(***************************************************************************)
(* What TLAPS proves of BPMNParser and CallActivity, for every document,   *)
(* every called process and all cases that work on them.                   *)
(***************************************************************************)
EXTENDS CallActivity, TLAPS, FiniteSetTheorems, SequenceTheorems, WellFoundedInduction

----------------------------------------------------------------------------
(* Ids.                                                                    *)

\* An id without a prefix.
Plain(x) == x = [scope |-> <<>>, name |-> x.name, suffix |-> x.suffix]

LEMMA Suffixed ==
  ASSUME NEW x, NEW scope, NEW name, NEW old, NEW new,
         x = [scope |-> scope, name |-> name, suffix |-> old]
  PROVE  [x EXCEPT !.suffix = new] = [scope |-> scope, name |-> name, suffix |-> new]
OBVIOUS

LEMMA PlainRecord ==
  ASSUME NEW x, NEW n, NEW s, x = [scope |-> <<>>, name |-> n, suffix |-> s]
  PROVE  Plain(x) /\ x.scope = <<>> /\ x.name = n /\ x.suffix = s
BY DEF Plain

LEMMA ItemIDs ==
  ASSUME NEW x, IsID(x)
  PROVE  /\ Plain(x) /\ x.scope = <<>> /\ x.suffix = ""
         /\ Plain(Synthetic(x)) /\ Synthetic(x).scope = <<>> /\ Synthetic(x).suffix = "_synth"
         /\ Plain(Entry(x)) /\ Entry(x).scope = <<>> /\ Entry(x).suffix = "_sp_entry"
         /\ Synthetic(x).name = x.name /\ Entry(x).name = x.name
         /\ Drawn(Synthetic(x)) = x
<1>1. PICK none, synth, entry : none = "" /\ synth = "_synth" /\ entry = "_sp_entry"
  OBVIOUS
<1>2. PICK n : x = [scope |-> <<>>, name |-> n, suffix |-> none]
  BY <1>1 DEF IsID, ID
<1>3. /\ [x EXCEPT !.suffix = synth] = [scope |-> <<>>, name |-> n, suffix |-> synth]
      /\ [x EXCEPT !.suffix = entry] = [scope |-> <<>>, name |-> n, suffix |-> entry]
  BY <1>2, Suffixed
<1>4. /\ Synthetic(x) = [scope |-> <<>>, name |-> n, suffix |-> synth]
      /\ Entry(x) = [scope |-> <<>>, name |-> n, suffix |-> entry]
  BY <1>1, <1>3, Zenon DEF Synthetic, Entry
<1>5. [Synthetic(x) EXCEPT !.suffix = none] = x
  BY <1>2, <1>4, Suffixed
<1>6. Drawn(Synthetic(x)) = x
  BY <1>1, <1>5, Zenon DEF Drawn
<1>7. /\ Plain(x) /\ x.scope = <<>> /\ x.name = n /\ x.suffix = none
      /\ Plain(Synthetic(x)) /\ Synthetic(x).scope = <<>> /\ Synthetic(x).name = n
      /\ Synthetic(x).suffix = synth
      /\ Plain(Entry(x)) /\ Entry(x).scope = <<>> /\ Entry(x).name = n
      /\ Entry(x).suffix = entry
  BY <1>2, <1>4, PlainRecord
<1> QED
  BY <1>1, <1>6, <1>7

\* Ids of items with the same name are the same.
LEMMA SameName ==
  ASSUME NEW x, NEW y, IsID(x), IsID(y), x.name = y.name
  PROVE  x = y
BY DEF IsID, ID

LEMMA PrefixedIDs ==
  ASSUME NEW p, NEW x, Plain(x)
  PROVE  /\ Prefixed(p, x) = [scope |-> <<p>>, name |-> x.name, suffix |-> x.suffix]
         /\ Prefixed(p, x).scope = <<p>> /\ Prefixed(p, x).scope # <<>>
         /\ Prefixed(p, x).name = x.name /\ Prefixed(p, x).suffix = x.suffix
         /\ Inside(Prefixed(p, x)) = x
<1>1. x.scope = <<>> /\ <<p>> \o <<>> = <<p>> /\ Tail(<<p>>) = <<>>
  BY DEF Plain
<1>2. x = [scope |-> <<>>, name |-> x.name, suffix |-> x.suffix]
  BY DEF Plain
<1>3. Prefixed(p, x) = [scope |-> <<p>>, name |-> x.name, suffix |-> x.suffix]
  <2>1. Prefixed(p, x) = [x EXCEPT !.scope = <<p>>]
    BY <1>1 DEF Prefixed
  <2> QED
    BY <1>2, <2>1
<1>4. Inside(Prefixed(p, x)) = [scope |-> <<>>, name |-> x.name, suffix |-> x.suffix]
  BY <1>1, <1>3 DEF Inside
<1>5. <<p>> # <<>>
  OBVIOUS
<1> QED
  BY <1>2, <1>3, <1>4, <1>5

\* A prefixed id tells its prefix and the id behind it.
LEMMA SamePrefixed ==
  ASSUME NEW p, NEW q, NEW x, NEW y, Plain(x), Plain(y), Prefixed(p, x) = Prefixed(q, y)
  PROVE  p = q /\ x = y
<1>1. <<p>> = <<q>> /\ x.name = y.name /\ x.suffix = y.suffix
  BY PrefixedIDs
<1> QED
  BY <1>1 DEF Plain

----------------------------------------------------------------------------
(* Elements and items.                                                     *)

ElementFields ==
  {"Type", "Outgoing", "Incoming", "Default", "Conditions", "AttachedTo", "End", "ExitFlows"}
ProcessFields == {"Elements", "Flows", "Start"}

IsElement(x) == DOMAIN x = ElementFields

FlatTags == EventTags \cup GatewayTags \cup TaskTags \cup {"sequenceFlow"}

\* An element no flow is wired to, of an item with this tag.
Fresh(x, tag) ==
  /\ IsElement(x)
  /\ x.Outgoing = EmptyBag /\ x.Incoming = EmptyBag /\ x.ExitFlows = {}
  /\ tag = "sequenceFlow" => x.Type = "sequenceFlow"
  /\ x.Type = "endEvent" => tag = "endEvent"

\* The element ReadItem makes of an item.
ElementOf(item_) ==
  CASE item_.tag \in EventTags   -> parseEvent(item_)
    [] item_.tag \in GatewayTags -> parseGateway(item_)
    [] item_.tag \in TaskTags    -> parseActivity(item_)
    [] OTHER                     -> Element("sequenceFlow")

LEMMA NewElement ==
  ASSUME NEW type
  PROVE  LET x == Element(type) IN
         /\ IsElement(x) /\ x.Type = type /\ x.End = None
         /\ x.Outgoing = EmptyBag /\ x.Incoming = EmptyBag /\ x.ExitFlows = {}
BY DEF Element, IsElement, ElementFields

LEMMA LeastNumber ==
  ASSUME NEW T, T \subseteq Nat, T # {}
  PROVE  \E n \in T : \A m \in T : n <= m
<1>1. PICK n \in T : \A m \in T : ~(<<m, n>> \in OpToRel(<, Nat))
  BY NatLessThanWellFounded, WFMin
<1>2. \A m \in T : ~(m < n)
  BY <1>1 DEF OpToRel
<1> QED
  BY <1>2

\* A set of positions has a last one.
LEMMA LastPosition ==
  ASSUME NEW n \in Nat, NEW T, T \subseteq 1..n, T # {}
  PROVE  Max(T) \in T
<1> DEFINE S == {n - t : t \in T}
<1>1. S \subseteq Nat /\ S # {}
  <2>1. \A t \in T : n - t \in Nat
    OBVIOUS
  <2> QED
    BY <2>1
<1>2. PICK s \in S : \A r \in S : s <= r
  <2> HIDE DEF S
  <2> QED
    BY <1>1, LeastNumber
<1>3. PICK t \in T : s = n - t
  OBVIOUS
<1>4. \A r \in T : t >= r
  <2> TAKE r \in T
  <2>1. s <= n - r /\ r \in 1..n /\ t \in 1..n
    BY <1>2
  <2> QED
    BY <2>1, <1>3
<1> QED
  BY <1>4 DEF Max

\* Only the tag of an end event makes the type of an end event, and none that of a
\* sub-process.
LEMMA EventTypes ==
  ASSUME NEW i, i.tag \in EventTags, i.definitions \in Seq(STRING)
  PROVE  EventType(i) # "subProcess" /\ (EventType(i) = "endEvent" => i.tag = "endEvent")
<1> DEFINE deciding == {d \in DOMAIN i.definitions : DefinedType(i.tag, i.definitions[d]) # None}
<1>1. CASE deciding = {}
  BY <1>1 DEF EventType, BasicType, EventTags
<1>2. CASE deciding # {}
  <2>1. Len(i.definitions) \in Nat /\ deciding \subseteq 1..Len(i.definitions)
    BY LenProperties
  <2>2. Max(deciding) \in deciding
    <3> HIDE DEF deciding
    <3> QED
      BY <1>2, <2>1, LastPosition
  <2>3. \A definition : DefinedType(i.tag, definition) \in
          {"timerEvent", "terminateEvent", "messageCatch", "messageThrow", "signalCatch",
           "signalThrow", "errorEnd", "errorCatch", None}
    BY DEF DefinedType
  <2>4. EventType(i) = DefinedType(i.tag, i.definitions[Max(deciding)])
    BY <1>2 DEF EventType
  <2>5. DefinedType(i.tag, i.definitions[Max(deciding)]) # None
    BY <2>2
  <2> QED
    BY <2>3, <2>4, <2>5
<1> QED
  BY <1>1, <1>2

LEMMA ItemElements ==
  ASSUME NEW i, DOMAIN i = ItemFields, i.tag \in FlatTags, i.definitions \in Seq(STRING)
  PROVE  /\ Fresh(ElementOf(i), i.tag) /\ ElementOf(i).End = None
         /\ ElementOf(i).Type # "subProcess"
<1>1. CASE i.tag \in EventTags
  <2>1. PICK at : ElementOf(i) = [Element(EventType(i)) EXCEPT !.AttachedTo = at]
    <3>1. i.tag \notin GatewayTags /\ i.tag \notin TaskTags
      BY <1>1 DEF EventTags, GatewayTags, TaskTags
    <3>2. ElementOf(i) = parseEvent(i)
      BY <1>1, <3>1 DEF ElementOf
    <3> QED
      BY <3>2 DEF parseEvent
  <2>2. IsElement(ElementOf(i)) /\ ElementOf(i).Type = EventType(i) /\ ElementOf(i).End = None
        /\ ElementOf(i).Outgoing = EmptyBag /\ ElementOf(i).Incoming = EmptyBag
        /\ ElementOf(i).ExitFlows = {}
    BY <2>1, NewElement DEF IsElement, ElementFields
  <2> QED
    BY <1>1, <2>2, EventTypes DEF Fresh, EventTags
<1>2. CASE i.tag \in GatewayTags
  <2>1. ElementOf(i) = [Element(i.tag) EXCEPT !.Default = i.default, !.Conditions = i.conditions]
    <3>1. i.tag \notin EventTags /\ i.tag \notin TaskTags
      BY <1>2 DEF EventTags, GatewayTags, TaskTags
    <3>2. ElementOf(i) = parseGateway(i)
      BY <1>2, <3>1 DEF ElementOf
    <3> QED
      BY <3>2 DEF parseGateway
  <2>2. IsElement(ElementOf(i)) /\ ElementOf(i).Type = i.tag /\ ElementOf(i).End = None
        /\ ElementOf(i).Outgoing = EmptyBag /\ ElementOf(i).Incoming = EmptyBag
        /\ ElementOf(i).ExitFlows = {}
    BY <2>1, NewElement DEF IsElement, ElementFields
  <2> QED
    BY <1>2, <2>2 DEF Fresh, GatewayTags
<1>3. CASE i.tag \in TaskTags
  <2>1. ElementOf(i) = Element(IF i.tag = "task" THEN "userTask" ELSE i.tag)
    BY <1>3 DEF ElementOf, parseActivity, GatewayTags, EventTags, TaskTags
  <2> QED
    BY <1>3, <2>1, NewElement DEF Fresh, TaskTags
<1>4. CASE i.tag = "sequenceFlow"
  <2>1. ElementOf(i) = Element("sequenceFlow")
    BY <1>4 DEF ElementOf, GatewayTags, EventTags, TaskTags
  <2> QED
    BY <1>4, <2>1, NewElement DEF Fresh
<1> QED
  BY <1>1, <1>2, <1>3, <1>4 DEF FlatTags

\* What ReadItem writes.
LEMMA ItemRead ==
  ASSUME NEW r, DOMAIN r = ProcessFields, NEW i
  PROVE  LET q == ReadItem(r, i) IN
         /\ DOMAIN q = ProcessFields
         /\ q.Elements = IF i.tag \in FlatTags
                         THEN Over([x \in {i.id} |-> ElementOf(i)], r.Elements) ELSE r.Elements
         /\ i.tag = "sequenceFlow" => q.Flows = Over([x \in {i.id} |-> parseFlow(i)], r.Flows)
         /\ i.tag # "sequenceFlow" => q.Flows = r.Flows
         /\ q.Start = r.Start \/ (q.Start = i.id /\ i.tag \in FlatTags)
<1> USE DEF ProcessFields
<1>1. CASE i.tag \in EventTags
  BY <1>1 DEF ReadItem, WithElement, ElementOf, FlatTags, EventTags
<1>2. CASE i.tag \in GatewayTags
  BY <1>2 DEF ReadItem, WithElement, ElementOf, FlatTags, EventTags, GatewayTags
<1>3. CASE i.tag \in TaskTags
  BY <1>3 DEF ReadItem, WithElement, ElementOf, FlatTags, EventTags, GatewayTags, TaskTags
<1>4. CASE i.tag = "sequenceFlow"
  BY <1>4 DEF ReadItem, WithElement, WithFlow, ElementOf, FlatTags, EventTags, GatewayTags, TaskTags
<1>5. CASE i.tag \notin FlatTags
  <2>1. /\ i.tag \notin EventTags /\ i.tag \notin GatewayTags /\ i.tag \notin TaskTags
        /\ i.tag # "sequenceFlow"
    BY <1>5 DEF FlatTags
  <2>2. ReadItem(r, i) = r
    BY <2>1 DEF ReadItem
  <2> QED
    BY <2>1, <2>2 DEF FlatTags
<1> QED
  BY <1>1, <1>2, <1>3, <1>4, <1>5 DEF FlatTags

LEMMA FlowsRead ==
  ASSUME NEW r, DOMAIN r = ProcessFields, NEW i
  PROVE  /\ i.tag = "sequenceFlow" =>
              ReadItem(r, i).Flows = Over([x \in {i.id} |-> parseFlow(i)], r.Flows)
         /\ i.tag # "sequenceFlow" => ReadItem(r, i).Flows = r.Flows
BY ItemRead

----------------------------------------------------------------------------
(* The items read so far.                                                  *)

\* The elements of the first n items, those inside of sub-processes aside; the
\* items with these tags become elements.
TopElements(r, items, n, tags) ==
  /\ \A e \in DOMAIN r.Elements : e.scope = <<>> =>
       \E m \in 1..n : e = items[m].id /\ items[m].tag \in tags
  /\ \A m \in 1..n : items[m].tag \in tags =>
       items[m].id \in DOMAIN r.Elements /\ Fresh(r.Elements[items[m].id], items[m].tag)

\* Their flows: those drawn, and the entry of each sub-process.
TopFlows(r, items, n, tags) ==
  /\ \A f \in DOMAIN r.Flows : f.scope = <<>> =>
       \E m \in 1..n : \/ f = items[m].id /\ items[m].tag = "sequenceFlow"
                       \/ f = Entry(items[m].id) /\ items[m].tag = "subProcess"
                          /\ "subProcess" \in tags
  /\ \A m \in 1..n : items[m].tag = "sequenceFlow" =>
       items[m].id \in DOMAIN r.Flows /\ r.Flows[items[m].id] = parseFlow(items[m])
  /\ \A m \in 1..n : items[m].tag = "subProcess" /\ "subProcess" \in tags =>
       /\ Entry(items[m].id) \in DOMAIN r.Flows
       /\ r.Flows[Entry(items[m].id)].source = items[m].id
       /\ r.Flows[Entry(items[m].id)].target.scope # <<>>

Top(r, items, n, tags) ==
  /\ DOMAIN r = ProcessFields
  /\ TopElements(r, items, n, tags)
  /\ TopFlows(r, items, n, tags)

\* What is known of an item of a well-formed document.
LEMMA ItemFacts ==
  ASSUME NEW items, WellFormed(items), NEW m \in 1..Len(items)
  PROVE  /\ Len(items) \in Nat /\ DOMAIN items = 1..Len(items) /\ items[m] \in ItemsOf(items)
         /\ DOMAIN items[m] = ItemFields /\ IsID(items[m].id)
         /\ items[m].definitions \in Seq(STRING)
         /\ items[m].tag = "sequenceFlow" =>
              /\ items[m] \in FlowItems(items) /\ IsID(items[m].source) /\ IsID(items[m].target)
              /\ \A k \in 1..Len(items) :
                   items[k].tag = "sequenceFlow" => items[m].source # items[k].id
         /\ \A k \in 1..Len(items) : items[m].id = items[k].id => m = k
<1>1. Len(items) \in Nat /\ DOMAIN items = 1..Len(items)
  BY LenProperties DEF WellFormed
<1>2. \A k \in 1..Len(items) : items[k] \in ItemsOf(items)
  BY <1>1 DEF ItemsOf
<1>3. \A k \in 1..Len(items) : items[k].tag = "sequenceFlow" => items[k] \in FlowItems(items)
  BY <1>2 DEF FlowItems
<1> QED
  BY <1>1, <1>2, <1>3 DEF WellFormed

LEMMA ItemOfIndex ==
  ASSUME NEW items, WellFormed(items), NEW i \in ItemsOf(items)
  PROVE  \E m \in 1..Len(items) : i = items[m]
BY LenProperties DEF WellFormed, ItemsOf

LEMMA TopElementsRead ==
  ASSUME NEW items, WellFormed(items), NEW n \in Nat, n < Len(items), NEW tags, FlatTags \subseteq tags,
         NEW i, i = items[n + 1], i.tag \in FlatTags \/ i.tag \notin tags,
         NEW r, Top(r, items, n, tags)
  PROVE  TopElements(ReadItem(r, i), items, n + 1, tags)
<1> DEFINE q == ReadItem(r, i)
<1>1. q.Elements = IF i.tag \in FlatTags
                   THEN Over([x \in {i.id} |-> ElementOf(i)], r.Elements) ELSE r.Elements
  BY ItemRead DEF Top
<1>2. n + 1 \in 1..Len(items) /\ 1..(n + 1) = (1..n) \cup {n + 1} /\ \A m \in 1..n : m # n + 1
  BY LenProperties DEF WellFormed
<1>3. \A m \in 1..n : m \in 1..Len(items) /\ items[m].id # i.id
  BY <1>2, ItemFacts
<1>4. DOMAIN i = ItemFields /\ IsID(i.id) /\ i.definitions \in Seq(STRING)
  BY <1>2, ItemFacts
<1> HIDE DEF q
<1>5. CASE i.tag \in FlatTags
  <2>1. DOMAIN q.Elements = {i.id} \cup DOMAIN r.Elements
    BY <1>1, <1>5 DEF Over
  <2>2. q.Elements[i.id] = ElementOf(i) /\ Fresh(ElementOf(i), i.tag)
    BY <1>1, <1>4, <1>5, ItemElements DEF Over
  <2>3. \A e \in DOMAIN r.Elements : e # i.id => q.Elements[e] = r.Elements[e]
    BY <1>1, <1>5 DEF Over
  <2>4. ASSUME NEW e \in DOMAIN q.Elements, e.scope = <<>>
        PROVE  \E m \in 1..(n + 1) : e = items[m].id /\ items[m].tag \in tags
    BY <1>2, <1>5, <2>1, <2>4 DEF Top, TopElements
  <2>5. ASSUME NEW m \in 1..(n + 1), items[m].tag \in tags
        PROVE  items[m].id \in DOMAIN q.Elements /\ Fresh(q.Elements[items[m].id], items[m].tag)
    <3>1. CASE m = n + 1
      BY <2>1, <2>2, <3>1
    <3>2. CASE m \in 1..n
      BY <1>3, <2>1, <2>3, <2>5, <3>2 DEF Top, TopElements
    <3> QED
      BY <1>2, <3>1, <3>2
  <2> QED
    BY <2>4, <2>5 DEF TopElements, q
<1>6. CASE i.tag \notin tags
  <2>1. q.Elements = r.Elements
    BY <1>1, <1>6
  <2> QED
    BY <1>2, <1>6, <2>1 DEF Top, TopElements, q
<1> QED
  BY <1>5, <1>6

LEMMA TopFlowsRead ==
  ASSUME NEW items, WellFormed(items), NEW n \in Nat, n < Len(items), NEW tags,
         NEW i, i = items[n + 1], i.tag \in FlatTags \/ i.tag \notin tags,
         NEW r, Top(r, items, n, tags)
  PROVE  TopFlows(ReadItem(r, i), items, n + 1, tags)
<1> DEFINE q == ReadItem(r, i)
<1>1. /\ i.tag = "sequenceFlow" => q.Flows = Over([x \in {i.id} |-> parseFlow(i)], r.Flows)
      /\ i.tag # "sequenceFlow" => q.Flows = r.Flows
  <2>1. DOMAIN r = ProcessFields
    BY DEF Top
  <2> QED
    BY <2>1, FlowsRead
<1>2. n + 1 \in 1..Len(items) /\ 1..(n + 1) = (1..n) \cup {n + 1} /\ \A m \in 1..n : m # n + 1
  BY LenProperties DEF WellFormed
<1>3. \A m \in 1..n : m \in 1..Len(items) /\ items[m].id # i.id /\ Entry(items[m].id) # i.id
  <2>1. IsID(i.id) /\ i.id.suffix = ""
    BY <1>2, ItemFacts, ItemIDs
  <2> TAKE m \in 1..n
  <2>2. m \in 1..Len(items)
    BY <1>2
  <2>3. items[m].id # i.id /\ IsID(items[m].id)
    BY <1>2, <2>2, ItemFacts
  <2>4. Entry(items[m].id).suffix = "_sp_entry"
    BY <2>3, ItemIDs
  <2> QED
    BY <2>1, <2>2, <2>3, <2>4
<1>4. i.tag # "subProcess" \/ "subProcess" \notin tags
  BY DEF FlatTags, EventTags, GatewayTags, TaskTags
<1> HIDE DEF q
<1>5. CASE i.tag = "sequenceFlow"
  <2>1. DOMAIN q.Flows = {i.id} \cup DOMAIN r.Flows /\ q.Flows[i.id] = parseFlow(i)
    BY <1>1, <1>5 DEF Over
  <2>2. \A f \in DOMAIN r.Flows : f # i.id => q.Flows[f] = r.Flows[f]
    BY <1>1, <1>5 DEF Over
  <2>3. ASSUME NEW f \in DOMAIN q.Flows, f.scope = <<>>
        PROVE  \E m \in 1..(n + 1) :
                 \/ f = items[m].id /\ items[m].tag = "sequenceFlow"
                 \/ f = Entry(items[m].id) /\ items[m].tag = "subProcess" /\ "subProcess" \in tags
    <3>1. CASE f = i.id
      BY <1>2, <1>5, <3>1
    <3>2. CASE f \in DOMAIN r.Flows
      BY <1>2, <2>3, <3>2 DEF Top, TopFlows
    <3> QED
      BY <2>1, <3>1, <3>2
  <2>4. ASSUME NEW m \in 1..(n + 1), items[m].tag = "sequenceFlow"
        PROVE  items[m].id \in DOMAIN q.Flows /\ q.Flows[items[m].id] = parseFlow(items[m])
    <3>1. CASE m = n + 1
      BY <2>1, <3>1
    <3>2. CASE m \in 1..n
      BY <1>3, <2>1, <2>2, <2>4, <3>2 DEF Top, TopFlows
    <3> QED
      BY <1>2, <3>1, <3>2
  <2>5. ASSUME NEW m \in 1..(n + 1), items[m].tag = "subProcess", "subProcess" \in tags
        PROVE  /\ Entry(items[m].id) \in DOMAIN q.Flows
               /\ q.Flows[Entry(items[m].id)].source = items[m].id
               /\ q.Flows[Entry(items[m].id)].target.scope # <<>>
    <3>1. m \in 1..n
      BY <1>2, <1>5, <2>5
    <3> QED
      BY <1>3, <2>1, <2>2, <2>5, <3>1 DEF Top, TopFlows
  <2> QED
    BY <2>3, <2>4, <2>5 DEF TopFlows, q
<1>6. CASE i.tag # "sequenceFlow"
  <2>1. q.Flows = r.Flows
    BY <1>1, <1>6
  <2>2. \A m \in 1..(n + 1) :
          \/ items[m].tag = "sequenceFlow" \/ (items[m].tag = "subProcess" /\ "subProcess" \in tags)
          => m \in 1..n
    BY <1>2, <1>4, <1>6
  <2>3. 1..n \subseteq 1..(n + 1)
    BY <1>2
  <2> QED
    BY <2>1, <2>2, <2>3 DEF Top, TopFlows, q
<1> QED
  BY <1>5, <1>6

LEMMA TopRead ==
  ASSUME NEW items, WellFormed(items), NEW n \in Nat, n < Len(items), NEW tags, FlatTags \subseteq tags,
         NEW i, i = items[n + 1], i.tag \in FlatTags \/ i.tag \notin tags,
         NEW r, Top(r, items, n, tags)
  PROVE  Top(ReadItem(r, i), items, n + 1, tags)
<1>1. DOMAIN ReadItem(r, i) = ProcessFields
  BY ItemRead DEF Top
<1> QED
  BY <1>1, TopElementsRead, TopFlowsRead DEF Top

----------------------------------------------------------------------------
(* Items without sub-processes: ReadAll.                                   *)

\* What ReadAll folds: the process after each number of items.
Reading(R, items) ==
  R = [n \in 0..Len(items) |->
         IF n = 0 THEN NewProcess ELSE ReadItem(R[n - 1], items[n])]

\* The recursion has a solution, one item after the other.
LEMMA ReadingExists ==
  ASSUME NEW items, Len(items) \in Nat
  PROVE  \E R : Reading(R, items)
<1> DEFINE N == Len(items)
           UpTo(R, k) == \A n \in 0..N : n <= k =>
                           R[n] = IF n = 0 THEN NewProcess ELSE ReadItem(R[n - 1], items[n])
           Bad == {k \in Nat : ~\E R : UpTo(R, k)}
<1>1. Bad = {}
  <2> SUFFICES ASSUME Bad # {} PROVE FALSE
    OBVIOUS
  <2>1. PICK k \in Bad : \A m \in Bad : k <= m
    <3>1. Bad \subseteq Nat
      OBVIOUS
    <3> HIDE DEF Bad
    <3> QED
      BY <3>1, LeastNumber
  <2>2. k \in Nat /\ ~\E R : UpTo(R, k)
    BY <2>1
  <2>3. k # 0
    <3> DEFINE R == [n \in 0..N |-> NewProcess]
    <3>1. UpTo(R, 0)
      OBVIOUS
    <3> QED
      BY <2>2, <3>1
  <2>4. PICK old : UpTo(old, k - 1)
    <3>1. k - 1 \in Nat /\ ~(k <= k - 1)
      BY <2>2, <2>3
    <3>2. k - 1 \notin Bad
      BY <2>1, <3>1
    <3> QED
      BY <3>1, <3>2
  <2> DEFINE R == [n \in 0..N |-> IF n = k THEN ReadItem(old[n - 1], items[n]) ELSE old[n]]
  <2>5. ASSUME NEW n \in 0..N, n <= k
        PROVE  R[n] = IF n = 0 THEN NewProcess ELSE ReadItem(R[n - 1], items[n])
    <3>1. CASE n = k
      <4>1. n # 0 /\ n - 1 \in 0..N /\ n - 1 # k
        BY <2>2, <2>3, <3>1
      <4> QED
        BY <3>1, <4>1
    <3>2. CASE n # k
      <4>1. n <= k - 1 /\ (n # 0 => n - 1 \in 0..N /\ n - 1 # k)
        BY <2>2, <2>5, <3>2
      <4>2. R[n] = old[n] /\ (n # 0 => R[n - 1] = old[n - 1])
        BY <3>2, <4>1
      <4> QED
        BY <2>4, <4>1, <4>2
    <3> QED
      BY <3>1, <3>2
  <2>6. UpTo(R, k)
    BY <2>5
  <2> QED
    BY <2>2, <2>6
<1>2. PICK old : UpTo(old, N)
  BY <1>1
<1> DEFINE R == [n \in 0..N |-> old[n]]
<1>3. \A n \in 0..N : R[n] = IF n = 0 THEN NewProcess ELSE ReadItem(R[n - 1], items[n])
  <2> TAKE n \in 0..N
  <2>1. n <= N /\ (n # 0 => n - 1 \in 0..N)
    OBVIOUS
  <2> QED
    BY <1>2, <2>1
<1>4. R = [n \in 0..N |-> IF n = 0 THEN NewProcess ELSE ReadItem(R[n - 1], items[n])]
  <2>1. R = [n \in 0..N |-> R[n]]
    OBVIOUS
  <2> HIDE DEF R
  <2> QED
    BY <1>3, <2>1
<1> QED
  BY <1>4 DEF Reading

LEMMA ReadingSteps ==
  ASSUME NEW items, Len(items) \in Nat
  PROVE  \E R : /\ R[0] = NewProcess /\ R[Len(items)] = ReadAll(items)
                /\ \A n \in 1..Len(items) : R[n] = ReadItem(R[n - 1], items[n])
<1> DEFINE R == CHOOSE R : Reading(R, items)
<1>1. Reading(R, items)
  BY ReadingExists
<1>2. R[Len(items)] = ReadAll(items)
  BY DEF ReadAll, Reading
<1> HIDE DEF R
<1>3. \A n \in 0..Len(items) :
        R[n] = IF n = 0 THEN NewProcess ELSE ReadItem(R[n - 1], items[n])
  BY <1>1 DEF Reading
<1>4. R[0] = NewProcess
  BY <1>3
<1>5. \A n \in 1..Len(items) : R[n] = ReadItem(R[n - 1], items[n])
  BY <1>3
<1> QED
  BY <1>2, <1>4, <1>5

\* Nothing in it has a prefix, and it has no sub-processes.
Flat(r) ==
  /\ \A e \in DOMAIN r.Elements :
       e.scope = <<>> /\ r.Elements[e].End = None /\ r.Elements[e].Type # "subProcess"
  /\ \A f \in DOMAIN r.Flows : f.scope = <<>>
  /\ r.Start \in DOMAIN r.Elements \cup {None}

LEMMA FlatRead ==
  ASSUME NEW r, DOMAIN r = ProcessFields, Flat(r), NEW i, DOMAIN i = ItemFields, IsID(i.id),
         i.definitions \in Seq(STRING)
  PROVE  Flat(ReadItem(r, i))
<1> DEFINE q == ReadItem(r, i)
<1>1. /\ i.tag \in FlatTags => q.Elements = Over([x \in {i.id} |-> ElementOf(i)], r.Elements)
      /\ i.tag \notin FlatTags => q.Elements = r.Elements
      /\ q.Start = r.Start \/ (q.Start = i.id /\ i.tag \in FlatTags)
  BY ItemRead
<1>2. /\ i.tag = "sequenceFlow" => q.Flows = Over([x \in {i.id} |-> parseFlow(i)], r.Flows)
      /\ i.tag # "sequenceFlow" => q.Flows = r.Flows
  BY FlowsRead
<1>3. i.id.scope = <<>>
  BY ItemIDs
<1> HIDE DEF q
<1>4. \A f \in DOMAIN q.Flows : f.scope = <<>>
  BY <1>2, <1>3 DEF Flat, Over
<1>5. CASE i.tag \in FlatTags
  <2>1. ElementOf(i).End = None /\ ElementOf(i).Type # "subProcess"
    BY <1>5, ItemElements
  <2>2. DOMAIN q.Elements = {i.id} \cup DOMAIN r.Elements
    BY <1>1, <1>5 DEF Over
  <2>3. \A e \in DOMAIN q.Elements :
          q.Elements[e] = IF e = i.id THEN ElementOf(i) ELSE r.Elements[e]
    BY <1>1, <1>5 DEF Over
  <2>4. \A e \in DOMAIN q.Elements :
          e.scope = <<>> /\ q.Elements[e].End = None /\ q.Elements[e].Type # "subProcess"
    BY <1>3, <2>1, <2>2, <2>3 DEF Flat
  <2> QED
    BY <1>1, <1>4, <2>2, <2>4 DEF Flat, q
<1>6. CASE i.tag \notin FlatTags
  BY <1>1, <1>4, <1>6 DEF Flat, q
<1> QED
  BY <1>5, <1>6

LEMMA NothingRead ==
  ASSUME NEW items, NEW tags
  PROVE  Top(NewProcess, items, 0, tags) /\ Flat(NewProcess)
<1>1. /\ DOMAIN NewProcess = ProcessFields /\ DOMAIN NewProcess.Elements = {}
      /\ DOMAIN NewProcess.Flows = {} /\ NewProcess.Start = None
  BY DEF NewProcess, ProcessFields
<1>2. 1..0 = {}
  OBVIOUS
<1> QED
  BY <1>1, <1>2 DEF Top, TopElements, TopFlows, Flat

\* All items are read, those of sub-processes aside.
LEMMA AllRead ==
  ASSUME NEW items, WellFormed(items)
  PROVE  Top(ReadAll(items), items, Len(items), FlatTags) /\ Flat(ReadAll(items))
<1>1. Len(items) \in Nat
  BY LenProperties DEF WellFormed
<1>2. PICK R : /\ R[0] = NewProcess /\ R[Len(items)] = ReadAll(items)
               /\ \A n \in 1..Len(items) : R[n] = ReadItem(R[n - 1], items[n])
  BY <1>1, ReadingSteps
<1> DEFINE Good(n) == Top(R[n], items, n, FlatTags) /\ Flat(R[n])
           Bad == {n \in 0..Len(items) : ~Good(n)}
<1>3. Bad = {}
  <2> SUFFICES ASSUME Bad # {} PROVE FALSE
    OBVIOUS
  <2>1. PICK n \in Bad : \A m \in Bad : n <= m
    <3>1. Bad \subseteq Nat
      BY <1>1
    <3> HIDE DEF Bad
    <3> QED
      BY <3>1, LeastNumber
  <2>2. n \in 0..Len(items) /\ ~Good(n)
    BY <2>1
  <2>3. n # 0
    BY <1>2, <2>2, NothingRead
  <2>4. n - 1 \in Nat /\ n - 1 \in 0..Len(items) /\ n - 1 < Len(items) /\ ~(n <= n - 1)
        /\ n \in 1..Len(items) /\ (n - 1) + 1 = n
    BY <1>1, <2>2, <2>3
  <2>5. Good(n - 1)
    BY <2>1, <2>4
  <2>6. R[n] = ReadItem(R[n - 1], items[n])
    BY <1>2, <2>4
  <2>7. items[n].tag \in FlatTags \/ items[n].tag \notin FlatTags
    OBVIOUS
  <2>8. Top(R[n], items, n, FlatTags)
    BY <2>4, <2>5, <2>6, <2>7, TopRead
  <2>9. Flat(R[n])
    BY <2>4, <2>5, <2>6, FlatRead, ItemFacts DEF Top
  <2> QED
    BY <2>2, <2>8, <2>9
<1> QED
  BY <1>1, <1>2, <1>3

----------------------------------------------------------------------------
(* wireFlows.                                                              *)

\* The flows that leave an element: those drawn, and the entry of a sub-process.
Leaving(items, i) ==
  From(items, i.id) \cup (IF i.tag = "subProcess" THEN {Entry(i.id)} ELSE {})

\* An element, its lists aside, of an item with this tag.
Shape(x, tag) ==
  /\ IsElement(x) /\ x.ExitFlows = {}
  /\ tag = "sequenceFlow" => x.Type = "sequenceFlow"
  /\ x.Type = "endEvent" => tag = "endEvent"

WiredElements(w, items, tags) ==
  /\ \A e \in DOMAIN w.Elements : e.scope = <<>> =>
       \E m \in 1..Len(items) : e = items[m].id /\ items[m].tag \in tags
  /\ \A m \in 1..Len(items) : items[m].tag \in tags =>
       /\ items[m].id \in DOMAIN w.Elements
       /\ Shape(w.Elements[items[m].id], items[m].tag)
       /\ w.Elements[items[m].id].Outgoing = SetToBag(Leaving(items, items[m]))
       /\ w.Elements[items[m].id].Incoming = SetToBag(To(items, items[m].id))

\* What is inside of sub-processes keeps to itself.
Enclosed(r) ==
  \A f \in DOMAIN r.Flows : f.scope # <<>> =>
    r.Flows[f].source.scope # <<>> /\ r.Flows[f].target.scope # <<>>

LEMMA FlowFields ==
  ASSUME NEW source, NEW target, NEW condition
  PROVE  /\ Flow(source, target, condition).source = source
         /\ Flow(source, target, condition).target = target
         /\ Flow(source, target, condition).condition = condition
BY DEF Flow

LEMMA DrawnFlows ==
  ASSUME NEW items, WellFormed(items), NEW id
  PROVE  /\ \A f : f \in From(items, id) <=>
              \E m \in 1..Len(items) : /\ items[m].tag = "sequenceFlow"
                                       /\ f = items[m].id /\ items[m].source = id
         /\ \A f : f \in To(items, id) <=>
              \E m \in 1..Len(items) : /\ items[m].tag = "sequenceFlow"
                                       /\ f = items[m].id /\ items[m].target = id
<1>1. \A i : i \in FlowItems(items) <=>
        \E m \in 1..Len(items) : i = items[m] /\ i.tag = "sequenceFlow"
  BY LenProperties DEF FlowItems, ItemsOf, WellFormed
<1> QED
  BY <1>1 DEF From, To

\* The flows of a process with this source, this target.
Leaves(r, e) == {f \in DOMAIN r.Flows : r.Flows[f].source = e}
Reaches(r, e) == {f \in DOMAIN r.Flows : r.Flows[f].target = e}

\* The flows that end at a top element.
LEMMA TopEnds ==
  ASSUME NEW items, WellFormed(items), NEW tags, NEW r, Top(r, items, Len(items), tags), Enclosed(r),
         NEW m \in 1..Len(items), items[m].tag \in tags
  PROVE  /\ Leaves(r, items[m].id) = Leaving(items, items[m])
         /\ Reaches(r, items[m].id) = To(items, items[m].id)
<1> DEFINE id == items[m].id
<1>1. id.scope = <<>> /\ \A k \in 1..Len(items) : items[k].id = id => k = m
  BY ItemFacts, ItemIDs
<1>2. \A k \in 1..Len(items) : items[k].tag = "sequenceFlow" =>
        /\ items[k].id \in DOMAIN r.Flows
        /\ r.Flows[items[k].id].source = items[k].source
        /\ r.Flows[items[k].id].target = items[k].target
  BY FlowFields DEF Top, TopFlows, parseFlow
<1>3. \A k \in 1..Len(items) : items[k].tag = "subProcess" /\ "subProcess" \in tags =>
        /\ Entry(items[k].id) \in DOMAIN r.Flows
        /\ r.Flows[Entry(items[k].id)].source = items[k].id
        /\ r.Flows[Entry(items[k].id)].target.scope # <<>>
  BY DEF Top, TopFlows
<1>4. ASSUME NEW f \in DOMAIN r.Flows
      PROVE  \/ \E k \in 1..Len(items) : f = items[k].id /\ items[k].tag = "sequenceFlow"
             \/ \E k \in 1..Len(items) : /\ f = Entry(items[k].id) /\ items[k].tag = "subProcess"
                                         /\ "subProcess" \in tags
             \/ r.Flows[f].source.scope # <<>> /\ r.Flows[f].target.scope # <<>>
  BY DEF Top, TopFlows, Enclosed
<1> HIDE DEF id
<1>5. ASSUME NEW f \in DOMAIN r.Flows, r.Flows[f].source = id
      PROVE  f \in Leaving(items, items[m])
  <2>1. CASE \E k \in 1..Len(items) : f = items[k].id /\ items[k].tag = "sequenceFlow"
    BY <1>2, <1>5, <2>1, DrawnFlows DEF Leaving, id
  <2>2. CASE \E k \in 1..Len(items) : /\ f = Entry(items[k].id) /\ items[k].tag = "subProcess"
                                      /\ "subProcess" \in tags
    <3>1. f = Entry(id) /\ items[m].tag = "subProcess"
      BY <1>1, <1>3, <1>5, <2>2 DEF id
    <3> QED
      BY <3>1 DEF Leaving, id
  <2> QED
    BY <1>1, <1>4, <1>5, <2>1, <2>2
<1>6. ASSUME NEW f \in Leaving(items, items[m])
      PROVE  f \in DOMAIN r.Flows /\ r.Flows[f].source = id
  <2>1. CASE f \in From(items, id)
    BY <1>2, <2>1, DrawnFlows DEF id
  <2>2. CASE f = Entry(id) /\ items[m].tag = "subProcess"
    BY <1>3, <2>2 DEF id
  <2> QED
    BY <2>1, <2>2 DEF Leaving, id
<1>7. ASSUME NEW f \in DOMAIN r.Flows, r.Flows[f].target = id
      PROVE  f \in To(items, id)
  BY <1>1, <1>2, <1>3, <1>4, <1>7, DrawnFlows
<1>8. ASSUME NEW f \in To(items, id)
      PROVE  f \in DOMAIN r.Flows /\ r.Flows[f].target = id
  BY <1>2, <1>8, DrawnFlows
<1> QED
  BY <1>5, <1>6, <1>7, <1>8 DEF Leaves, Reaches, id

LEMMA Wiring ==
  ASSUME NEW r, DOMAIN r = ProcessFields
  PROVE  LET w == wireFlows(r) IN
         /\ DOMAIN w = ProcessFields /\ w.Flows = r.Flows /\ w.Start = r.Start
         /\ DOMAIN w.Elements = DOMAIN r.Elements
         /\ \A e \in DOMAIN r.Elements : IsElement(r.Elements[e]) =>
              LET x == r.Elements[e]
                  y == w.Elements[e]
              IN
              /\ IsElement(y) /\ y.Type = x.Type /\ y.End = x.End /\ y.ExitFlows = x.ExitFlows
              /\ y.Outgoing = x.Outgoing (+) SetToBag(Leaves(r, e))
              /\ y.Incoming = x.Incoming (+) SetToBag(Reaches(r, e))
BY DEF wireFlows, Leaves, Reaches, IsElement, ElementFields, ProcessFields

LEMMA AddedToNothing ==
  ASSUME NEW S
  PROVE  EmptyBag (+) SetToBag(S) = SetToBag(S)
BY DEF EmptyBag, SetToBag, (+)

LEMMA TopWired ==
  ASSUME NEW items, WellFormed(items), NEW tags, NEW r, Top(r, items, Len(items), tags), Enclosed(r)
  PROVE  WiredElements(wireFlows(r), items, tags) /\ TopFlows(wireFlows(r), items, Len(items), tags)
<1> DEFINE w == wireFlows(r)
<1>1. DOMAIN r = ProcessFields
  BY DEF Top
<1>2. w.Flows = r.Flows /\ DOMAIN w.Elements = DOMAIN r.Elements
  BY <1>1, Wiring
<1>3. ASSUME NEW m \in 1..Len(items), items[m].tag \in tags
      PROVE  LET id == items[m].id IN
             /\ id \in DOMAIN w.Elements
             /\ Shape(w.Elements[id], items[m].tag)
             /\ w.Elements[id].Outgoing = SetToBag(Leaving(items, items[m]))
             /\ w.Elements[id].Incoming = SetToBag(To(items, id))
  <2> DEFINE id == items[m].id
  <2>1. id \in DOMAIN r.Elements /\ Fresh(r.Elements[id], items[m].tag)
    BY <1>3 DEF Top, TopElements
  <2>2. /\ IsElement(w.Elements[id]) /\ w.Elements[id].Type = r.Elements[id].Type
        /\ w.Elements[id].ExitFlows = r.Elements[id].ExitFlows
        /\ w.Elements[id].Outgoing =
             r.Elements[id].Outgoing (+) SetToBag(Leaves(r, id))
        /\ w.Elements[id].Incoming =
             r.Elements[id].Incoming (+) SetToBag(Reaches(r, id))
    BY <1>1, <2>1, Wiring DEF Fresh
  <2>3. /\ Leaves(r, id) = Leaving(items, items[m])
        /\ Reaches(r, id) = To(items, id)
    BY <1>3, TopEnds
  <2> HIDE DEF w
  <2>4. Shape(w.Elements[id], items[m].tag)
    BY <2>1, <2>2 DEF Fresh, Shape
  <2>5. /\ w.Elements[id].Outgoing = EmptyBag (+) SetToBag(Leaving(items, items[m]))
        /\ w.Elements[id].Incoming = EmptyBag (+) SetToBag(To(items, id))
    BY <2>1, <2>2, <2>3 DEF Fresh
  <2> QED
    BY <1>2, <2>1, <2>4, <2>5, AddedToNothing
<1>4. TopFlows(w, items, Len(items), tags)
  BY <1>2 DEF Top, TopFlows
<1>5. \A e \in DOMAIN w.Elements : e.scope = <<>> =>
        \E m \in 1..Len(items) : e = items[m].id /\ items[m].tag \in tags
  BY <1>2 DEF Top, TopElements
<1> HIDE DEF w
<1>6. WiredElements(w, items, tags)
  BY <1>3, <1>5 DEF WiredElements
<1> QED
  BY <1>4, <1>6 DEF w

----------------------------------------------------------------------------
(* SyntheticFlows.                                                         *)

\* The id of an element: it has no suffix.
Key(x) == x = [scope |-> x.scope, name |-> x.name, suffix |-> x.suffix] /\ x.suffix = ""
Keys(r) == \A e \in DOMAIN r.Elements : Key(e)

LEMMA KeyRecord ==
  ASSUME NEW x, NEW s, NEW n, NEW none, none = "", x = [scope |-> s, name |-> n, suffix |-> none]
  PROVE  Key(x)
<1>1. x.scope = s /\ x.name = n /\ x.suffix = none
  OBVIOUS
<1> QED
  BY <1>1 DEF Key

LEMMA KeyIDs ==
  ASSUME NEW x, Key(x)
  PROVE  /\ x.suffix = ""
         /\ Synthetic(x).scope = x.scope /\ Synthetic(x).name = x.name
         /\ Synthetic(x).suffix = "_synth"
         /\ Drawn(Synthetic(x)) = x
<1>1. PICK none, synth : none = "" /\ synth = "_synth"
  OBVIOUS
<1>2. PICK s, n : s = x.scope /\ n = x.name /\ x = [scope |-> s, name |-> n, suffix |-> none]
  BY <1>1 DEF Key
<1>3. [x EXCEPT !.suffix = synth] = [scope |-> s, name |-> n, suffix |-> synth]
  BY <1>2, Suffixed
<1>4. Synthetic(x) = [scope |-> s, name |-> n, suffix |-> synth]
  BY <1>1, <1>3, Zenon DEF Synthetic
<1>5. [Synthetic(x) EXCEPT !.suffix = none] = x
  BY <1>2, <1>4, Suffixed
<1>6. Drawn(Synthetic(x)) = x
  BY <1>1, <1>5, Zenon DEF Drawn
<1>7. x.suffix = none /\ Synthetic(x).scope = s /\ Synthetic(x).name = n /\ Synthetic(x).suffix = synth
  BY <1>2, <1>4
<1> QED
  BY <1>1, <1>2, <1>6, <1>7

LEMMA ItemKeys ==
  ASSUME NEW x, IsID(x)
  PROVE  Key(x)
<1>1. PICK none : none = ""
  OBVIOUS
<1>2. PICK s, n : x = [scope |-> s, name |-> n, suffix |-> none]
  BY <1>1 DEF IsID, ID
<1> QED
  BY <1>1, <1>2, KeyRecord

LEMMA PrefixedKeys ==
  ASSUME NEW p, NEW x, IsID(x)
  PROVE  Key(Prefixed(p, x)) /\ Synthetic(Prefixed(p, x)) = Prefixed(p, Synthetic(x))
<1>1. PICK none, synth : none = "" /\ synth = "_synth"
  OBVIOUS
<1>2. /\ Plain(x) /\ x.suffix = none /\ Plain(Synthetic(x)) /\ Synthetic(x).name = x.name
      /\ Synthetic(x).suffix = synth
  BY <1>1, ItemIDs
<1>3. PICK y, s, n : /\ y = Prefixed(p, x) /\ s = <<p>> /\ n = x.name
                     /\ y = [scope |-> s, name |-> n, suffix |-> none]
  BY <1>2, PrefixedIDs
<1>4. [y EXCEPT !.suffix = synth] = [scope |-> s, name |-> n, suffix |-> synth]
  BY <1>3, Suffixed
<1>5. Synthetic(y) = [scope |-> s, name |-> n, suffix |-> synth]
  BY <1>1, <1>4, Zenon DEF Synthetic
<1>6. Prefixed(p, Synthetic(x)) = [scope |-> s, name |-> n, suffix |-> synth]
  BY <1>2, <1>3, PrefixedIDs
<1>7. Key(y)
  BY <1>1, <1>3, KeyRecord
<1> QED
  BY <1>3, <1>5, <1>6, <1>7

LEMMA Synthesis ==
  ASSUME NEW r, DOMAIN r = ProcessFields
  PROVE  LET w == SyntheticFlows(r)
             flows == FlowElements(r)
         IN
         /\ DOMAIN w = ProcessFields /\ w.Start = r.Start
         /\ DOMAIN w.Elements = DOMAIN r.Elements
         /\ \A e \in DOMAIN r.Elements : e \notin flows => w.Elements[e] = r.Elements[e]
         /\ \A e \in flows : IsElement(r.Elements[e]) =>
              LET x == r.Elements[e]
                  y == w.Elements[e]
              IN
              /\ IsElement(y) /\ y.Type = x.Type /\ y.End = x.End /\ y.ExitFlows = x.ExitFlows
              /\ y.Outgoing = x.Outgoing (+) SetToBag({Synthetic(e)}) /\ y.Incoming = x.Incoming
         /\ DOMAIN w.Flows = DOMAIN r.Flows \cup {Synthetic(f) : f \in flows}
         /\ \A f \in DOMAIN r.Flows :
              (\A g \in flows : f # Synthetic(g)) => w.Flows[f] = r.Flows[f]
         /\ \A f \in flows : Key(f) =>
              w.Flows[Synthetic(f)] = Flow(f, r.Flows[f].target, FALSE)
<1> DEFINE w == SyntheticFlows(r)
           flows == FlowElements(r)
           new == [s \in {Synthetic(f) : f \in flows} |->
                     Flow(Drawn(s), r.Flows[Drawn(s)].target, FALSE)]
           elements == [e \in DOMAIN r.Elements |->
                          IF e \in flows
                          THEN [r.Elements[e] EXCEPT !.Outgoing = @ (+) SetToBag({Synthetic(e)})]
                          ELSE r.Elements[e]]
<1>1. w = [r EXCEPT !.Flows = Over(new, @), !.Elements = elements]
  BY DEF SyntheticFlows
<1>2. flows \subseteq DOMAIN r.Elements
  BY DEF FlowElements
<1> HIDE DEF flows
<1>3. /\ DOMAIN w = ProcessFields /\ w.Start = r.Start
      /\ w.Flows = Over(new, r.Flows) /\ w.Elements = elements
  <2> HIDE DEF new, elements, w
  <2> QED
    BY <1>1 DEF ProcessFields
<1>4. DOMAIN w.Flows = DOMAIN r.Flows \cup {Synthetic(f) : f \in flows}
  BY <1>3 DEF Over
<1>5. \A f \in DOMAIN r.Flows : (\A g \in flows : f # Synthetic(g)) => w.Flows[f] = r.Flows[f]
  <2> TAKE f \in DOMAIN r.Flows
  <2> HAVE \A g \in flows : f # Synthetic(g)
  <2>1. f \notin DOMAIN new
    OBVIOUS
  <2> HIDE DEF new
  <2> QED
    BY <1>3, <2>1 DEF Over
<1>6. ASSUME NEW f \in flows, Key(f)
      PROVE  w.Flows[Synthetic(f)] = Flow(f, r.Flows[f].target, FALSE)
  <2>1. Drawn(Synthetic(f)) = f
    BY <1>6, KeyIDs
  <2>2. w.Flows[Synthetic(f)] = new[Synthetic(f)]
    <3>1. Synthetic(f) \in DOMAIN new
      OBVIOUS
    <3> HIDE DEF new
    <3> QED
      BY <1>3, <3>1 DEF Over
  <2> QED
    BY <2>1, <2>2
<1>7. \A e \in DOMAIN r.Elements : e \notin flows => w.Elements[e] = r.Elements[e]
  BY <1>3
<1>8. ASSUME NEW e \in flows, IsElement(r.Elements[e])
      PROVE  LET x == r.Elements[e]
                 y == w.Elements[e]
             IN
             /\ IsElement(y) /\ y.Type = x.Type /\ y.End = x.End /\ y.ExitFlows = x.ExitFlows
             /\ y.Outgoing = x.Outgoing (+) SetToBag({Synthetic(e)}) /\ y.Incoming = x.Incoming
  <2>1. w.Elements[e] = [r.Elements[e] EXCEPT !.Outgoing = @ (+) SetToBag({Synthetic(e)})]
    BY <1>2, <1>3
  <2> QED
    BY <1>8, <2>1 DEF IsElement, ElementFields
<1> QED
  BY <1>3, <1>4, <1>5, <1>6, <1>7, <1>8 DEF flows

\* The elements of all items, and their flows, synthetic ones included.
DoneElements(w, items, tags) ==
  /\ \A e \in DOMAIN w.Elements : e.scope = <<>> =>
       \E m \in 1..Len(items) : e = items[m].id /\ items[m].tag \in tags
  /\ \A m \in 1..Len(items) : items[m].tag \in tags =>
       /\ items[m].id \in DOMAIN w.Elements
       /\ Shape(w.Elements[items[m].id], items[m].tag)
       /\ w.Elements[items[m].id].Outgoing =
            SetToBag(IF items[m].tag = "sequenceFlow" THEN {Synthetic(items[m].id)}
                     ELSE Leaving(items, items[m]))
       /\ w.Elements[items[m].id].Incoming = SetToBag(To(items, items[m].id))

DoneFlows(w, items, tags) ==
  /\ \A f \in DOMAIN w.Flows : f.scope = <<>> =>
       \E m \in 1..Len(items) :
          \/ f \in {items[m].id, Synthetic(items[m].id)} /\ items[m].tag = "sequenceFlow"
          \/ f = Entry(items[m].id) /\ items[m].tag = "subProcess" /\ "subProcess" \in tags
  /\ \A m \in 1..Len(items) : items[m].tag = "sequenceFlow" =>
       /\ items[m].id \in DOMAIN w.Flows /\ w.Flows[items[m].id] = parseFlow(items[m])
       /\ Synthetic(items[m].id) \in DOMAIN w.Flows
       /\ w.Flows[Synthetic(items[m].id)] = Flow(items[m].id, items[m].target, FALSE)
  /\ \A m \in 1..Len(items) : items[m].tag = "subProcess" /\ "subProcess" \in tags =>
       /\ Entry(items[m].id) \in DOMAIN w.Flows
       /\ w.Flows[Entry(items[m].id)].source = items[m].id
       /\ w.Flows[Entry(items[m].id)].target.scope # <<>>

Done(w, items, tags) ==
  DOMAIN w = ProcessFields /\ DoneElements(w, items, tags) /\ DoneFlows(w, items, tags)

\* Which top elements are flows.
LEMMA TopFlowElements ==
  ASSUME NEW items, WellFormed(items), NEW tags, FlatTags \subseteq tags, NEW r,
         WiredElements(r, items, tags), TopFlows(r, items, Len(items), tags)
  PROVE  /\ \A m \in 1..Len(items) : items[m].tag \in tags =>
              (items[m].id \in FlowElements(r) <=> items[m].tag = "sequenceFlow")
         /\ \A f \in FlowElements(r) : f.scope = <<>> =>
              \E m \in 1..Len(items) : f = items[m].id /\ items[m].tag = "sequenceFlow"
<1>1. ASSUME NEW m \in 1..Len(items), items[m].tag \in tags
      PROVE  items[m].id \in FlowElements(r) <=> items[m].tag = "sequenceFlow"
  <2>1. IsID(items[m].id) /\ \A k \in 1..Len(items) : items[k].id = items[m].id => k = m
    BY ItemFacts
  <2>2. items[m].id.scope = <<>> /\ items[m].id.suffix = ""
    BY <2>1, ItemIDs
  <2>3. ASSUME NEW k \in 1..Len(items)
        PROVE  Entry(items[k].id) # items[m].id
    BY <2>2, ItemFacts, ItemIDs
  <2>4. CASE items[m].tag = "sequenceFlow"
    <3>1. /\ items[m].id \in DOMAIN r.Elements /\ Shape(r.Elements[items[m].id], "sequenceFlow")
          /\ items[m].id \in DOMAIN r.Flows
      BY <1>1, <2>4 DEF WiredElements, TopFlows
    <3> QED
      BY <2>4, <3>1 DEF FlowElements, Shape
  <2>5. CASE items[m].tag # "sequenceFlow"
    <3>1. items[m].id \notin DOMAIN r.Flows
      BY <2>1, <2>2, <2>3, <2>5 DEF TopFlows
    <3> QED
      BY <2>5, <3>1 DEF FlowElements
  <2> QED
    BY <2>4, <2>5
<1>2. ASSUME NEW f \in FlowElements(r), f.scope = <<>>
      PROVE  \E m \in 1..Len(items) : f = items[m].id /\ items[m].tag = "sequenceFlow"
  <2>1. f \in DOMAIN r.Elements
    BY DEF FlowElements
  <2> QED
    BY <1>1, <1>2, <2>1 DEF WiredElements
<1> QED
  BY <1>1, <1>2

LEMMA TopDone ==
  ASSUME NEW items, WellFormed(items), NEW tags, FlatTags \subseteq tags, NEW r,
         DOMAIN r = ProcessFields, Keys(r),
         WiredElements(r, items, tags), TopFlows(r, items, Len(items), tags)
  PROVE  Done(SyntheticFlows(r), items, tags)
<1> DEFINE w == SyntheticFlows(r)
           flows == FlowElements(r)
<1>1. \A f \in flows : f \in DOMAIN r.Elements /\ Key(f)
  BY DEF FlowElements, Keys
<1>2. \A m \in 1..Len(items) : items[m].tag \in tags =>
        (items[m].id \in flows <=> items[m].tag = "sequenceFlow")
  BY TopFlowElements
<1>3. \A f \in flows : f.scope = <<>> =>
        \E m \in 1..Len(items) : f = items[m].id /\ items[m].tag = "sequenceFlow"
  BY TopFlowElements
<1>4. DOMAIN w = ProcessFields /\ DOMAIN w.Elements = DOMAIN r.Elements
  BY Synthesis
<1>5. DOMAIN w.Flows = DOMAIN r.Flows \cup {Synthetic(f) : f \in flows}
  BY Synthesis
<1>6. \A f \in DOMAIN r.Flows : f.suffix # "_synth" => w.Flows[f] = r.Flows[f]
  <2>1. \A g \in flows : Synthetic(g).suffix = "_synth"
    BY <1>1, KeyIDs
  <2>2. \A f \in DOMAIN r.Flows :
          (\A g \in flows : f # Synthetic(g)) => w.Flows[f] = r.Flows[f]
    BY Synthesis
  <2> HIDE DEF w, flows
  <2> QED
    BY <2>1, <2>2
<1>7. \A f \in flows : w.Flows[Synthetic(f)] = Flow(f, r.Flows[f].target, FALSE)
  BY <1>1, Synthesis
<1>8. \A e \in DOMAIN r.Elements : e \notin flows => w.Elements[e] = r.Elements[e]
  BY Synthesis
<1>9. \A e \in flows : IsElement(r.Elements[e]) =>
        LET x == r.Elements[e]
            y == w.Elements[e]
        IN
        /\ IsElement(y) /\ y.Type = x.Type /\ y.End = x.End /\ y.ExitFlows = x.ExitFlows
        /\ y.Outgoing = x.Outgoing (+) SetToBag({Synthetic(e)}) /\ y.Incoming = x.Incoming
  BY Synthesis
<1> HIDE DEF w, flows
<1>10. ASSUME NEW m \in 1..Len(items), items[m].tag \in tags
       PROVE  LET id == items[m].id IN
              /\ id \in DOMAIN w.Elements
              /\ Shape(w.Elements[id], items[m].tag)
              /\ w.Elements[id].Outgoing =
                   SetToBag(IF items[m].tag = "sequenceFlow" THEN {Synthetic(id)}
                            ELSE Leaving(items, items[m]))
              /\ w.Elements[id].Incoming = SetToBag(To(items, id))
  <2> DEFINE id == items[m].id
  <2>1. /\ id \in DOMAIN r.Elements /\ Shape(r.Elements[id], items[m].tag)
        /\ r.Elements[id].Outgoing = SetToBag(Leaving(items, items[m]))
        /\ r.Elements[id].Incoming = SetToBag(To(items, id))
    BY <1>10 DEF WiredElements
  <2>2. CASE items[m].tag = "sequenceFlow"
    <3>1. id \in flows
      BY <1>2, <1>10, <2>2
    <3>2. /\ IsElement(w.Elements[id]) /\ w.Elements[id].Type = r.Elements[id].Type
          /\ w.Elements[id].ExitFlows = r.Elements[id].ExitFlows
          /\ w.Elements[id].Outgoing = r.Elements[id].Outgoing (+) SetToBag({Synthetic(id)})
          /\ w.Elements[id].Incoming = r.Elements[id].Incoming
      BY <1>9, <2>1, <3>1 DEF Shape
    <3>3. Leaving(items, items[m]) = {}
      <4>1. From(items, id) = {}
        <5>1. \A k \in 1..Len(items) : items[k].tag = "sequenceFlow" => items[k].source # id
          BY <2>2, ItemFacts
        <5> QED
          BY <5>1, DrawnFlows
      <4> QED
        BY <2>2, <4>1 DEF Leaving
    <3>4. w.Elements[id].Outgoing = SetToBag({Synthetic(id)})
      <4>1. r.Elements[id].Outgoing = EmptyBag
        BY <2>1, <3>3 DEF EmptyBag
      <4> QED
        BY <3>2, <4>1, AddedToNothing
    <3>5. Shape(w.Elements[id], items[m].tag)
      BY <2>1, <3>2 DEF Shape
    <3> QED
      BY <1>4, <2>1, <2>2, <3>2, <3>4, <3>5
  <2>3. CASE items[m].tag # "sequenceFlow"
    BY <1>2, <1>4, <1>8, <1>10, <2>1, <2>3
  <2> QED
    BY <2>2, <2>3
<1>11. \A e \in DOMAIN w.Elements : e.scope = <<>> =>
         \E m \in 1..Len(items) : e = items[m].id /\ items[m].tag \in tags
  BY <1>4 DEF WiredElements
<1>12. DoneElements(w, items, tags)
  BY <1>10, <1>11 DEF DoneElements
<1>13. ASSUME NEW f \in DOMAIN w.Flows, f.scope = <<>>
       PROVE  \E m \in 1..Len(items) :
                \/ f \in {items[m].id, Synthetic(items[m].id)} /\ items[m].tag = "sequenceFlow"
                \/ f = Entry(items[m].id) /\ items[m].tag = "subProcess" /\ "subProcess" \in tags
  <2>1. CASE f \in DOMAIN r.Flows
    BY <1>13, <2>1 DEF TopFlows
  <2>2. CASE f \in {Synthetic(g) : g \in flows}
    <3>1. PICK g \in flows : f = Synthetic(g)
      BY <2>2
    <3>2. g.scope = <<>>
      BY <1>1, <1>13, <3>1, KeyIDs
    <3> QED
      BY <1>3, <3>1, <3>2
  <2> QED
    BY <1>5, <2>1, <2>2
<1>14. ASSUME NEW m \in 1..Len(items), items[m].tag = "sequenceFlow"
       PROVE  LET id == items[m].id IN
              /\ id \in DOMAIN w.Flows /\ w.Flows[id] = parseFlow(items[m])
              /\ Synthetic(id) \in DOMAIN w.Flows
              /\ w.Flows[Synthetic(id)] = Flow(id, items[m].target, FALSE)
  <2> DEFINE id == items[m].id
  <2>1. id \in DOMAIN r.Flows /\ r.Flows[id] = parseFlow(items[m])
    BY <1>14 DEF TopFlows
  <2>2. id \in flows
    BY <1>2, <1>14 DEF FlatTags
  <2>3. id.suffix = ""
    BY ItemFacts, ItemIDs
  <2>4. id \in DOMAIN w.Flows /\ w.Flows[id] = parseFlow(items[m])
    BY <1>5, <1>6, <2>1, <2>3
  <2>5. Synthetic(id) \in DOMAIN w.Flows
    BY <1>5, <2>2
  <2>6. w.Flows[Synthetic(id)] = Flow(id, items[m].target, FALSE)
    <3>1. r.Flows[id].target = items[m].target
      BY <2>1, FlowFields DEF parseFlow
    <3>2. w.Flows[Synthetic(id)] = Flow(id, r.Flows[id].target, FALSE)
      BY <1>7, <2>2
    <3> QED
      BY <3>1, <3>2, Zenon
  <2> QED
    BY <2>4, <2>5, <2>6
<1>15. ASSUME NEW m \in 1..Len(items), items[m].tag = "subProcess", "subProcess" \in tags
       PROVE  /\ Entry(items[m].id) \in DOMAIN w.Flows
              /\ w.Flows[Entry(items[m].id)].source = items[m].id
              /\ w.Flows[Entry(items[m].id)].target.scope # <<>>
  <2>1. Entry(items[m].id).suffix = "_sp_entry"
    BY ItemFacts, ItemIDs
  <2>2. /\ Entry(items[m].id) \in DOMAIN r.Flows
        /\ r.Flows[Entry(items[m].id)].source = items[m].id
        /\ r.Flows[Entry(items[m].id)].target.scope # <<>>
    BY <1>15 DEF TopFlows
  <2> QED
    BY <1>5, <1>6, <2>1, <2>2
<1>16. DoneFlows(w, items, tags)
  BY <1>13, <1>14, <1>15 DEF DoneFlows
<1> QED
  BY <1>4, <1>12, <1>16 DEF Done, w

\* A process without sub-processes.
LEMMA FlatDone ==
  ASSUME NEW items, WellFormed(items), NEW r, r = ReadAll(items)
  PROVE  LET w == SyntheticFlows(wireFlows(r)) IN
         /\ Done(w, items, FlatTags) /\ Flat(w)
<1>1. Top(r, items, Len(items), FlatTags) /\ Flat(r)
  BY AllRead
<1>2. Enclosed(r)
  BY <1>1 DEF Flat, Enclosed
<1> DEFINE v == wireFlows(r)
<1>3. WiredElements(v, items, FlatTags) /\ TopFlows(v, items, Len(items), FlatTags)
  BY <1>1, <1>2, TopWired
<1>4. /\ DOMAIN v = ProcessFields /\ v.Flows = r.Flows /\ v.Start = r.Start
      /\ DOMAIN v.Elements = DOMAIN r.Elements
  BY <1>1, Wiring DEF Top
<1>5. \A e \in DOMAIN r.Elements : IsElement(r.Elements[e]) /\ Key(e)
  <2> TAKE e \in DOMAIN r.Elements
  <2>1. PICK m \in 1..Len(items) : e = items[m].id /\ items[m].tag \in FlatTags
    BY <1>1 DEF Top, TopElements, Flat
  <2>2. Fresh(r.Elements[e], items[m].tag)
    BY <1>1, <2>1 DEF Top, TopElements
  <2> QED
    BY <2>1, <2>2, ItemFacts, ItemKeys DEF Fresh
<1>6. \A e \in DOMAIN r.Elements : /\ v.Elements[e].End = None /\ IsElement(v.Elements[e])
                                   /\ v.Elements[e].Type # "subProcess"
  BY <1>1, <1>5, Wiring DEF Top, Flat
<1> HIDE DEF v
<1> DEFINE w == SyntheticFlows(v)
<1>7. Keys(v)
  BY <1>4, <1>5 DEF Keys
<1>8. Done(w, items, FlatTags)
  BY <1>3, <1>4, <1>7, TopDone
<1>9. /\ DOMAIN w.Elements = DOMAIN v.Elements /\ w.Start = v.Start
      /\ DOMAIN w.Flows = DOMAIN v.Flows \cup {Synthetic(f) : f \in FlowElements(v)}
  BY <1>4, Synthesis
<1>10. \A e \in DOMAIN v.Elements : w.Elements[e].End = None /\ w.Elements[e].Type # "subProcess"
  <2>1. \A e \in FlowElements(v) : IsElement(v.Elements[e]) =>
          w.Elements[e].End = v.Elements[e].End /\ w.Elements[e].Type = v.Elements[e].Type
    BY <1>4, Synthesis
  <2>2. \A e \in DOMAIN v.Elements : e \notin FlowElements(v) => w.Elements[e] = v.Elements[e]
    BY <1>4, Synthesis
  <2> HIDE DEF w
  <2> QED
    BY <1>4, <1>6, <2>1, <2>2
<1>11. \A f \in FlowElements(v) : Synthetic(f).scope = <<>>
  BY <1>1, <1>4, <1>7, KeyIDs, ZenonT(30) DEF FlowElements, Keys, Flat
<1> HIDE DEF w
<1>12. Flat(w)
  BY <1>1, <1>4, <1>9, <1>10, <1>11 DEF Flat
<1> QED
  BY <1>8, <1>12 DEF v, w

----------------------------------------------------------------------------
(* Sub-processes.                                                          *)

Inner(i) == parseSubProcessXML(i.items)

\* What is inside: ids of items, flows between them.
LEMMA InnerParts ==
  ASSUME NEW i, WellFormed(i.items)
  PROVE  /\ Done(Inner(i), i.items, FlatTags) /\ Flat(Inner(i))
         /\ \A x \in DOMAIN Inner(i).Elements :
              IsID(x) /\ IsElement(Inner(i).Elements[x]) /\ Inner(i).Elements[x].End = None
         /\ \A x \in DOMAIN Inner(i).Flows :
              /\ Plain(x)
              /\ IsID(Inner(i).Flows[x].source) /\ IsID(Inner(i).Flows[x].target)
         /\ Inner(i).Start \in DOMAIN Inner(i).Elements \cup {None}
<1>1. Done(Inner(i), i.items, FlatTags) /\ Flat(Inner(i))
  BY FlatDone DEF Inner, parseSubProcessXML
<1>2. ASSUME NEW x \in DOMAIN Inner(i).Elements
      PROVE  IsID(x) /\ IsElement(Inner(i).Elements[x]) /\ Inner(i).Elements[x].End = None
  <2>1. x.scope = <<>> /\ Inner(i).Elements[x].End = None
    BY <1>1 DEF Flat
  <2>2. PICK m \in 1..Len(i.items) : x = i.items[m].id /\ i.items[m].tag \in FlatTags
    BY <1>1, <2>1 DEF Done, DoneElements
  <2>3. Shape(Inner(i).Elements[x], i.items[m].tag)
    BY <1>1, <2>2 DEF Done, DoneElements
  <2> QED
    BY <2>1, <2>2, <2>3, ItemFacts DEF Shape
<1>3. ASSUME NEW x \in DOMAIN Inner(i).Flows
      PROVE  Plain(x) /\ IsID(Inner(i).Flows[x].source) /\ IsID(Inner(i).Flows[x].target)
  <2>1. x.scope = <<>>
    BY <1>1 DEF Flat
  <2>2. "subProcess" \notin FlatTags
    BY DEF FlatTags, EventTags, GatewayTags, TaskTags
  <2>3. PICK m \in 1..Len(i.items) :
          /\ x \in {i.items[m].id, Synthetic(i.items[m].id)} /\ i.items[m].tag = "sequenceFlow"
    BY <1>1, <2>1, <2>2 DEF Done, DoneFlows
  <2>4. /\ IsID(i.items[m].id) /\ IsID(i.items[m].source) /\ IsID(i.items[m].target)
    BY <2>3, ItemFacts
  <2>5. /\ Inner(i).Flows[i.items[m].id] = parseFlow(i.items[m])
        /\ Inner(i).Flows[Synthetic(i.items[m].id)] = Flow(i.items[m].id, i.items[m].target, FALSE)
    BY <1>1, <2>3 DEF Done, DoneFlows
  <2>6. /\ parseFlow(i.items[m]).source = i.items[m].source
        /\ parseFlow(i.items[m]).target = i.items[m].target
    BY FlowFields DEF parseFlow
  <2>7. /\ Flow(i.items[m].id, i.items[m].target, FALSE).source = i.items[m].id
        /\ Flow(i.items[m].id, i.items[m].target, FALSE).target = i.items[m].target
    <3>1. PICK none : none = FALSE
      OBVIOUS
    <3>2. /\ Flow(i.items[m].id, i.items[m].target, none).source = i.items[m].id
          /\ Flow(i.items[m].id, i.items[m].target, none).target = i.items[m].target
      BY FlowFields
    <3> QED
      BY <3>1, <3>2, Zenon
  <2>8. Plain(i.items[m].id) /\ Plain(Synthetic(i.items[m].id))
    BY <2>4, ItemIDs
  <2>9. CASE x = i.items[m].id
    BY <2>4, <2>5, <2>6, <2>8, <2>9
  <2>10. CASE x = Synthetic(i.items[m].id)
    BY <2>4, <2>5, <2>7, <2>8, <2>10
  <2> QED
    BY <2>3, <2>9, <2>10
<1>4. Inner(i).Start \in DOMAIN Inner(i).Elements \cup {None}
  BY <1>1 DEF Flat
<1> QED
  BY <1>1, <1>2, <1>3, <1>4

OuterTags == FlatTags \cup {"subProcess"}

\* The elements and flows inside of the sub-processes among the first n items.
InsideElements(r, doc, n) ==
  /\ \A e \in DOMAIN r.Elements : e.scope # <<>> =>
       \E m \in 1..n : \E x \in DOMAIN Inner(doc[m]).Elements :
         doc[m].tag = "subProcess" /\ e = Prefixed(doc[m].id, x)
  /\ \A m \in 1..n : doc[m].tag = "subProcess" =>
       \A x \in DOMAIN Inner(doc[m]).Elements :
         /\ Prefixed(doc[m].id, x) \in DOMAIN r.Elements
         /\ r.Elements[Prefixed(doc[m].id, x)] = Inner(doc[m]).Elements[x]

InsideFlows(r, doc, n) ==
  /\ \A f \in DOMAIN r.Flows : f.scope # <<>> =>
       \E m \in 1..n : \E x \in DOMAIN Inner(doc[m]).Flows :
         doc[m].tag = "subProcess" /\ f = Prefixed(doc[m].id, x)
  /\ \A m \in 1..n : doc[m].tag = "subProcess" =>
       \A x \in DOMAIN Inner(doc[m]).Flows :
         /\ Prefixed(doc[m].id, x) \in DOMAIN r.Flows
         /\ r.Flows[Prefixed(doc[m].id, x)] = InnerFlow(doc[m].id, Inner(doc[m]).Flows[x])

\* Only a sub-process has an end.
EndsFound(r, doc, n) ==
  /\ \A e \in DOMAIN r.Elements : r.Elements[e].End # None =>
       \E m \in 1..n : doc[m].tag = "subProcess" /\ e = doc[m].id
  /\ \A m \in 1..n : doc[m].tag = "subProcess" =>
       doc[m].id \in DOMAIN r.Elements /\ r.Elements[doc[m].id].End \in FirstEnd(doc[m])

ItemsRead(r, doc, n) ==
  /\ Top(r, doc, n, OuterTags) /\ Keys(r)
  /\ InsideElements(r, doc, n) /\ InsideFlows(r, doc, n) /\ EndsFound(r, doc, n)

LEMMA FirstItemRead == \A doc : ItemsRead(NewProcess, doc, 0)
<1>1. DOMAIN NewProcess.Elements = {} /\ DOMAIN NewProcess.Flows = {} /\ 1..0 = {}
  BY DEF NewProcess
<1> QED
  BY <1>1, NothingRead DEF ItemsRead, Keys, InsideElements, InsideFlows, EndsFound

LEMMA PlainItemRead ==
  ASSUME NEW doc, IsDocument(doc), NEW n \in Nat, n < Len(doc), NEW i, i = doc[n + 1],
         i.tag # "subProcess", NEW r, ItemsRead(r, doc, n)
  PROVE  ItemsRead(ReadItem(r, i), doc, n + 1)
<1> DEFINE q == ReadItem(r, i)
<1>1. n + 1 \in 1..Len(doc) /\ 1..(n + 1) = (1..n) \cup {n + 1} /\ 1..n \subseteq 1..Len(doc)
  BY LenProperties DEF WellFormed, IsDocument
<1>2. /\ DOMAIN i = ItemFields /\ IsID(i.id) /\ i.definitions \in Seq(STRING)
      /\ \A m \in 1..n : doc[m].id # i.id
  BY <1>1, ItemFacts DEF IsDocument
<1>3. Top(q, doc, n + 1, OuterTags)
  BY TopRead DEF ItemsRead, OuterTags, IsDocument
<1>4. DOMAIN r = ProcessFields
  BY DEF ItemsRead, Top
<1>5. /\ i.tag \in FlatTags => q.Elements = Over([x \in {i.id} |-> ElementOf(i)], r.Elements)
      /\ i.tag \notin FlatTags => q.Elements = r.Elements
  BY <1>4, ItemRead
<1>6. /\ i.tag = "sequenceFlow" => q.Flows = Over([x \in {i.id} |-> parseFlow(i)], r.Flows)
      /\ i.tag # "sequenceFlow" => q.Flows = r.Flows
  BY <1>4, FlowsRead
<1>7. i.id.scope = <<>> /\ Key(i.id)
  BY <1>2, ItemIDs, ItemKeys
<1> HIDE DEF q
<1>8. /\ DOMAIN q.Elements \subseteq DOMAIN r.Elements \cup {i.id}
      /\ DOMAIN r.Elements \subseteq DOMAIN q.Elements
      /\ \A e \in DOMAIN r.Elements : e # i.id => q.Elements[e] = r.Elements[e]
  BY <1>5 DEF Over
<1>9. /\ DOMAIN q.Flows \subseteq DOMAIN r.Flows \cup {i.id}
      /\ DOMAIN r.Flows \subseteq DOMAIN q.Flows
      /\ \A f \in DOMAIN r.Flows : f # i.id => q.Flows[f] = r.Flows[f]
  BY <1>6 DEF Over
<1>10. i.id \in DOMAIN q.Elements /\ i.tag \in FlatTags => q.Elements[i.id].End = None
  <2>1. SUFFICES ASSUME i.tag \in FlatTags PROVE q.Elements[i.id].End = None
    OBVIOUS
  <2>2. q.Elements[i.id] = ElementOf(i)
    BY <1>5, <2>1 DEF Over
  <2> QED
    BY <1>2, <2>1, <2>2, ItemElements
<1>11. i.tag \notin FlatTags => DOMAIN q.Elements = DOMAIN r.Elements /\ i.id \notin DOMAIN r.Elements
  <2>1. i.id \notin DOMAIN r.Elements
    BY <1>2, <1>7 DEF ItemsRead, Top, TopElements
  <2> QED
    BY <1>5, <2>1
<1>12. Keys(q)
  BY <1>7, <1>8 DEF ItemsRead, Keys
<1>13. \A m \in 1..(n + 1) : doc[m].tag = "subProcess" =>
         /\ m \in 1..n /\ doc[m].id # i.id
         /\ \A x : Plain(x) => Prefixed(doc[m].id, x) # i.id
  BY <1>1, <1>2, <1>7, PrefixedIDs
<1>14. \A m \in 1..(n + 1) : WellFormed(doc[m].items)
  BY <1>1, ItemFacts DEF IsDocument
<1>15. InsideElements(q, doc, n + 1)
  <2>1. ASSUME NEW e \in DOMAIN q.Elements, e.scope # <<>>
        PROVE  \E m \in 1..(n + 1) : \E x \in DOMAIN Inner(doc[m]).Elements :
                 doc[m].tag = "subProcess" /\ e = Prefixed(doc[m].id, x)
    <3>1. e \in DOMAIN r.Elements
      BY <1>7, <1>8, <2>1
    <3> QED
      BY <1>1, <2>1, <3>1 DEF ItemsRead, InsideElements
  <2>2. ASSUME NEW m \in 1..(n + 1), doc[m].tag = "subProcess",
               NEW x \in DOMAIN Inner(doc[m]).Elements
        PROVE  /\ Prefixed(doc[m].id, x) \in DOMAIN q.Elements
               /\ q.Elements[Prefixed(doc[m].id, x)] = Inner(doc[m]).Elements[x]
    <3>1. m \in 1..n /\ Prefixed(doc[m].id, x) # i.id
      BY <1>13, <1>14, <2>2, InnerParts, ItemIDs
    <3>2. /\ Prefixed(doc[m].id, x) \in DOMAIN r.Elements
          /\ r.Elements[Prefixed(doc[m].id, x)] = Inner(doc[m]).Elements[x]
      BY <2>2, <3>1 DEF ItemsRead, InsideElements
    <3> QED
      BY <1>8, <3>1, <3>2
  <2> QED
    BY <2>1, <2>2 DEF InsideElements
<1>16. InsideFlows(q, doc, n + 1)
  <2>1. ASSUME NEW f \in DOMAIN q.Flows, f.scope # <<>>
        PROVE  \E m \in 1..(n + 1) : \E x \in DOMAIN Inner(doc[m]).Flows :
                 doc[m].tag = "subProcess" /\ f = Prefixed(doc[m].id, x)
    <3>1. f \in DOMAIN r.Flows
      BY <1>7, <1>9, <2>1
    <3> QED
      BY <1>1, <2>1, <3>1 DEF ItemsRead, InsideFlows
  <2>2. ASSUME NEW m \in 1..(n + 1), doc[m].tag = "subProcess",
               NEW x \in DOMAIN Inner(doc[m]).Flows
        PROVE  /\ Prefixed(doc[m].id, x) \in DOMAIN q.Flows
               /\ q.Flows[Prefixed(doc[m].id, x)] = InnerFlow(doc[m].id, Inner(doc[m]).Flows[x])
    <3>1. m \in 1..n /\ Prefixed(doc[m].id, x) # i.id
      BY <1>13, <1>14, <2>2, InnerParts
    <3>2. /\ Prefixed(doc[m].id, x) \in DOMAIN r.Flows
          /\ r.Flows[Prefixed(doc[m].id, x)] = InnerFlow(doc[m].id, Inner(doc[m]).Flows[x])
      BY <2>2, <3>1 DEF ItemsRead, InsideFlows
    <3> QED
      BY <1>9, <3>1, <3>2
  <2> QED
    BY <2>1, <2>2 DEF InsideFlows
<1>17. EndsFound(q, doc, n + 1)
  <2>1. ASSUME NEW e \in DOMAIN q.Elements, q.Elements[e].End # None
        PROVE  \E m \in 1..(n + 1) : doc[m].tag = "subProcess" /\ e = doc[m].id
    <3>1. e # i.id
      BY <1>10, <1>11, <2>1
    <3>2. e \in DOMAIN r.Elements /\ r.Elements[e].End # None
      BY <1>8, <2>1, <3>1
    <3> QED
      BY <1>1, <3>2 DEF ItemsRead, EndsFound
  <2>2. ASSUME NEW m \in 1..(n + 1), doc[m].tag = "subProcess"
        PROVE  doc[m].id \in DOMAIN q.Elements /\ q.Elements[doc[m].id].End \in FirstEnd(doc[m])
    <3>1. m \in 1..n /\ doc[m].id # i.id
      BY <1>13, <2>2
    <3> QED
      BY <1>8, <2>2, <3>1 DEF ItemsRead, EndsFound
  <2> QED
    BY <2>1, <2>2 DEF EndsFound
<1> QED
  BY <1>3, <1>12, <1>15, <1>16, <1>17 DEF ItemsRead, q

\* Ids inside of a sub-process.
LEMMA InsideIDs ==
  ASSUME NEW i, WellFormed(i.items), NEW p
  PROVE  /\ \A x \in DOMAIN Inner(i).Elements :
              Prefixed(p, x).scope = <<p>> /\ Prefixed(p, x).scope # <<>> /\ Key(Prefixed(p, x))
         /\ \A x \in DOMAIN Inner(i).Flows :
              Prefixed(p, x).scope = <<p>> /\ Prefixed(p, x).scope # <<>>
<1>1. ASSUME NEW x \in DOMAIN Inner(i).Elements
      PROVE  Prefixed(p, x).scope = <<p>> /\ Prefixed(p, x).scope # <<>> /\ Key(Prefixed(p, x))
  <2>1. IsID(x) /\ Plain(x)
    BY InnerParts, ItemIDs
  <2> QED
    BY <2>1, PrefixedIDs, PrefixedKeys
<1>2. ASSUME NEW x \in DOMAIN Inner(i).Flows
      PROVE  Prefixed(p, x).scope = <<p>> /\ Prefixed(p, x).scope # <<>>
  <2>1. Plain(x)
    BY InnerParts
  <2> QED
    BY <2>1, PrefixedIDs
<1> QED
  BY <1>1, <1>2

\* What flattenSubProcess writes.
LEMMA FlattenedElements ==
  ASSUME NEW i, WellFormed(i.items), IsID(i.id), NEW r, DOMAIN r = ProcessFields, NEW end
  PROVE  LET w == flattenSubProcess(r, i, end)
             sp == i.id
         IN
         /\ DOMAIN w = ProcessFields /\ w.Start = r.Start
         /\ DOMAIN w.Elements =
              {sp} \cup {Prefixed(sp, x) : x \in DOMAIN Inner(i).Elements} \cup DOMAIN r.Elements
         /\ w.Elements[sp] = [Element("subProcess") EXCEPT !.End = end]
         /\ \A x \in DOMAIN Inner(i).Elements :
              w.Elements[Prefixed(sp, x)] = Inner(i).Elements[x]
         /\ \A e \in DOMAIN r.Elements :
              e # sp /\ (\A x \in DOMAIN Inner(i).Elements : e # Prefixed(sp, x))
              => w.Elements[e] = r.Elements[e]
<1> DEFINE w == flattenSubProcess(r, i, end)
           sp == i.id
           element == [x \in {sp} |-> [Element("subProcess") EXCEPT !.End = end]]
           elements == [p \in {Prefixed(sp, e) : e \in DOMAIN Inner(i).Elements} |->
                          Inner(i).Elements[Inside(p)]]
<1>1. PICK flows : w = [r EXCEPT !.Elements = Over(element, Over(elements, @)), !.Flows = flows]
  BY DEF flattenSubProcess, Inner
<1>2. \A x \in DOMAIN Inner(i).Elements : Inside(Prefixed(sp, x)) = x /\ Prefixed(sp, x) # sp
  <2>1. sp.scope = <<>> /\ \A x \in DOMAIN Inner(i).Elements : Plain(x)
    BY InnerParts, ItemIDs
  <2> HIDE DEF sp
  <2> QED
    BY <2>1, PrefixedIDs
<1>3. DOMAIN element = {sp} /\ element[sp] = [Element("subProcess") EXCEPT !.End = end]
  OBVIOUS
<1>4. /\ DOMAIN elements = {Prefixed(sp, x) : x \in DOMAIN Inner(i).Elements}
      /\ \A x \in DOMAIN Inner(i).Elements : elements[Prefixed(sp, x)] = Inner(i).Elements[x]
  BY <1>2
<1> HIDE DEF element, elements, w
<1>5. /\ DOMAIN w = ProcessFields /\ w.Start = r.Start
      /\ w.Elements = Over(element, Over(elements, r.Elements))
  BY <1>1 DEF ProcessFields
<1>6. /\ DOMAIN w.Elements = DOMAIN element \cup DOMAIN elements \cup DOMAIN r.Elements
      /\ \A x \in DOMAIN element : w.Elements[x] = element[x]
      /\ \A x \in DOMAIN elements : x \notin DOMAIN element => w.Elements[x] = elements[x]
      /\ \A x \in DOMAIN r.Elements : x \notin DOMAIN element /\ x \notin DOMAIN elements
                                      => w.Elements[x] = r.Elements[x]
  BY <1>5 DEF Over
<1>7. /\ w.Elements[sp] = [Element("subProcess") EXCEPT !.End = end]
      /\ \A x \in DOMAIN Inner(i).Elements :
           w.Elements[Prefixed(sp, x)] = Inner(i).Elements[x]
      /\ \A e \in DOMAIN r.Elements :
           e # sp /\ (\A x \in DOMAIN Inner(i).Elements : e # Prefixed(sp, x))
           => w.Elements[e] = r.Elements[e]
  BY <1>2, <1>3, <1>4, <1>6
<1> QED
  BY <1>3, <1>4, <1>5, <1>6, <1>7 DEF w

LEMMA FlattenedFlows ==
  ASSUME NEW i, WellFormed(i.items), IsID(i.id), NEW r, DOMAIN r = ProcessFields, NEW end
  PROVE  LET w == flattenSubProcess(r, i, end)
             sp == i.id
         IN
         /\ DOMAIN w.Flows =
              {Entry(sp)} \cup {Prefixed(sp, x) : x \in DOMAIN Inner(i).Flows} \cup DOMAIN r.Flows
         /\ w.Flows[Entry(sp)].source = sp /\ w.Flows[Entry(sp)].target.scope # <<>>
         /\ \A x \in DOMAIN Inner(i).Flows :
              w.Flows[Prefixed(sp, x)] = InnerFlow(sp, Inner(i).Flows[x])
         /\ \A f \in DOMAIN r.Flows :
              f # Entry(sp) /\ (\A x \in DOMAIN Inner(i).Flows : f # Prefixed(sp, x))
              => w.Flows[f] = r.Flows[f]
<1> DEFINE w == flattenSubProcess(r, i, end)
           sp == i.id
           first == IF Inner(i).Start = None THEN ID(None) ELSE Inner(i).Start
           entry == Flow(sp, Prefixed(sp, first), FALSE)
           flow == [x \in {Entry(sp)} |-> entry]
           flows == [p \in {Prefixed(sp, f) : f \in DOMAIN Inner(i).Flows} |->
                       InnerFlow(sp, Inner(i).Flows[Inside(p)])]
<1>1. PICK elements : w = [r EXCEPT !.Elements = elements, !.Flows = Over(flow, Over(flows, @))]
  BY DEF flattenSubProcess, Inner
<1>2. \A x \in DOMAIN Inner(i).Flows : Inside(Prefixed(sp, x)) = x /\ Prefixed(sp, x) # Entry(sp)
  <2>1. Entry(sp).scope = <<>> /\ \A x \in DOMAIN Inner(i).Flows : Plain(x)
    BY InnerParts, ItemIDs
  <2> HIDE DEF sp
  <2> QED
    BY <2>1, PrefixedIDs
<1>3. Prefixed(sp, first).scope # <<>>
  <2>1. Plain(first)
    <3>1. Plain(ID(None))
      BY DEF ID, Plain
    <3> QED
      BY <3>1, InnerParts, ItemIDs
  <2> QED
    BY <2>1, PrefixedIDs
<1>4. entry.source = sp /\ entry.target = Prefixed(sp, first)
  <2>1. PICK none : none = FALSE
    OBVIOUS
  <2> HIDE DEF sp, first
  <2>2. /\ Flow(sp, Prefixed(sp, first), none).source = sp
        /\ Flow(sp, Prefixed(sp, first), none).target = Prefixed(sp, first)
    BY FlowFields
  <2> QED
    BY <2>1, <2>2, Zenon
<1>5. DOMAIN flow = {Entry(sp)} /\ flow[Entry(sp)] = entry
  OBVIOUS
<1>6. /\ DOMAIN flows = {Prefixed(sp, x) : x \in DOMAIN Inner(i).Flows}
      /\ \A x \in DOMAIN Inner(i).Flows :
           flows[Prefixed(sp, x)] = InnerFlow(sp, Inner(i).Flows[x])
  BY <1>2
<1> HIDE DEF flow, flows, entry, first, w
<1>7. w.Flows = Over(flow, Over(flows, r.Flows))
  BY <1>1 DEF ProcessFields
<1>8. /\ DOMAIN w.Flows = DOMAIN flow \cup DOMAIN flows \cup DOMAIN r.Flows
      /\ \A x \in DOMAIN flow : w.Flows[x] = flow[x]
      /\ \A x \in DOMAIN flows : x \notin DOMAIN flow => w.Flows[x] = flows[x]
      /\ \A x \in DOMAIN r.Flows : x \notin DOMAIN flow /\ x \notin DOMAIN flows
                                   => w.Flows[x] = r.Flows[x]
  BY <1>7 DEF Over
<1>9. /\ w.Flows[Entry(sp)] = entry
      /\ \A x \in DOMAIN Inner(i).Flows :
           w.Flows[Prefixed(sp, x)] = InnerFlow(sp, Inner(i).Flows[x])
      /\ \A f \in DOMAIN r.Flows :
           f # Entry(sp) /\ (\A x \in DOMAIN Inner(i).Flows : f # Prefixed(sp, x))
           => w.Flows[f] = r.Flows[f]
  BY <1>2, <1>5, <1>6, <1>8
<1> QED
  BY <1>3, <1>4, <1>5, <1>6, <1>8, <1>9 DEF w

LEMMA FlattenedTop ==
  ASSUME NEW doc, IsDocument(doc), NEW n \in Nat, n < Len(doc), NEW i, i = doc[n + 1],
         i.tag = "subProcess", NEW r, Top(r, doc, n, OuterTags), NEW end
  PROVE  Top(flattenSubProcess(r, i, end), doc, n + 1, OuterTags)
<1> DEFINE w == flattenSubProcess(r, i, end)
           sp == i.id
<1>1. n + 1 \in 1..Len(doc) /\ 1..(n + 1) = (1..n) \cup {n + 1} /\ \A m \in 1..n : m # n + 1
  BY LenProperties DEF WellFormed, IsDocument
<1>2. IsID(sp) /\ WellFormed(doc) /\ WellFormed(i.items)
  BY <1>1, ItemFacts DEF IsDocument
<1>3. DOMAIN r = ProcessFields
  BY DEF Top
<1>4. \A m \in 1..n : /\ doc[m].id # sp /\ doc[m].id.scope = <<>> /\ doc[m].id.suffix = ""
                      /\ Entry(doc[m].id) # Entry(sp) /\ Entry(doc[m].id).scope = <<>>
  <2> TAKE m \in 1..n
  <2>1. m \in 1..Len(doc) /\ m # n + 1
    BY <1>1
  <2>2. IsID(doc[m].id) /\ doc[m].id # sp
    BY <1>1, <1>2, <2>1, ItemFacts
  <2>3. doc[m].id.name # sp.name
    BY <1>2, <2>2, SameName
  <2>4. Entry(doc[m].id).name = doc[m].id.name /\ Entry(sp).name = sp.name
    BY <1>2, <2>2, ItemIDs
  <2> QED
    BY <2>2, <2>3, <2>4, ItemIDs
<1>5. /\ \A x \in DOMAIN Inner(i).Elements : Prefixed(sp, x).scope # <<>>
      /\ \A x \in DOMAIN Inner(i).Flows : Prefixed(sp, x).scope # <<>>
  BY <1>2, InsideIDs
<1>6. sp.scope = <<>> /\ sp.suffix = "" /\ Entry(sp).scope = <<>> /\ Entry(sp).suffix = "_sp_entry"
  BY <1>2, ItemIDs
<1>7. /\ DOMAIN w = ProcessFields
      /\ DOMAIN w.Elements =
           {sp} \cup {Prefixed(sp, x) : x \in DOMAIN Inner(i).Elements} \cup DOMAIN r.Elements
      /\ w.Elements[sp] = [Element("subProcess") EXCEPT !.End = end]
      /\ \A e \in DOMAIN r.Elements :
           e # sp /\ (\A x \in DOMAIN Inner(i).Elements : e # Prefixed(sp, x))
           => w.Elements[e] = r.Elements[e]
  BY <1>2, <1>3, FlattenedElements
<1>8. /\ DOMAIN w.Flows =
           {Entry(sp)} \cup {Prefixed(sp, x) : x \in DOMAIN Inner(i).Flows} \cup DOMAIN r.Flows
      /\ w.Flows[Entry(sp)].source = sp /\ w.Flows[Entry(sp)].target.scope # <<>>
      /\ \A f \in DOMAIN r.Flows :
           f # Entry(sp) /\ (\A x \in DOMAIN Inner(i).Flows : f # Prefixed(sp, x))
           => w.Flows[f] = r.Flows[f]
  BY <1>2, <1>3, FlattenedFlows
<1> HIDE DEF w, sp
<1>9. Fresh(w.Elements[sp], "subProcess")
  BY <1>7, NewElement DEF Fresh, IsElement, ElementFields
<1>10. TopElements(w, doc, n + 1, OuterTags)
  <2>1. ASSUME NEW e \in DOMAIN w.Elements, e.scope = <<>>
        PROVE  \E m \in 1..(n + 1) : e = doc[m].id /\ doc[m].tag \in OuterTags
    <3>1. CASE e = sp
      BY <1>1, <3>1 DEF OuterTags, sp
    <3>2. CASE e \in DOMAIN r.Elements
      BY <1>1, <2>1, <3>2 DEF Top, TopElements
    <3> QED
      BY <1>5, <1>7, <2>1, <3>1, <3>2
  <2>2. ASSUME NEW m \in 1..(n + 1), doc[m].tag \in OuterTags
        PROVE  doc[m].id \in DOMAIN w.Elements /\ Fresh(w.Elements[doc[m].id], doc[m].tag)
    <3>1. CASE m = n + 1
      BY <1>7, <1>9, <3>1 DEF sp
    <3>2. CASE m \in 1..n
      <4>1. doc[m].id \in DOMAIN r.Elements /\ Fresh(r.Elements[doc[m].id], doc[m].tag)
        BY <2>2, <3>2 DEF Top, TopElements
      <4>2. doc[m].id # sp /\ \A x \in DOMAIN Inner(i).Elements : doc[m].id # Prefixed(sp, x)
        BY <1>4, <1>5, <3>2
      <4>3. doc[m].id \in DOMAIN w.Elements /\ w.Elements[doc[m].id] = r.Elements[doc[m].id]
        BY <1>7, <4>1, <4>2
      <4> QED
        BY <4>1, <4>3
    <3> QED
      BY <1>1, <3>1, <3>2
  <2> QED
    BY <2>1, <2>2 DEF TopElements
<1>11. TopFlows(w, doc, n + 1, OuterTags)
  <2>1. ASSUME NEW f \in DOMAIN w.Flows, f.scope = <<>>
        PROVE  \E m \in 1..(n + 1) :
                 \/ f = doc[m].id /\ doc[m].tag = "sequenceFlow"
                 \/ f = Entry(doc[m].id) /\ doc[m].tag = "subProcess" /\ "subProcess" \in OuterTags
    <3>1. CASE f = Entry(sp)
      BY <1>1, <3>1 DEF OuterTags, sp
    <3>2. CASE f \in DOMAIN r.Flows
      BY <1>1, <2>1, <3>2 DEF Top, TopFlows
    <3> QED
      BY <1>5, <1>8, <2>1, <3>1, <3>2
  <2>2. ASSUME NEW m \in 1..(n + 1), doc[m].tag = "sequenceFlow"
        PROVE  doc[m].id \in DOMAIN w.Flows /\ w.Flows[doc[m].id] = parseFlow(doc[m])
    <3>1. m \in 1..n
      BY <1>1, <2>2
    <3>2. doc[m].id \in DOMAIN r.Flows /\ r.Flows[doc[m].id] = parseFlow(doc[m])
      BY <2>2, <3>1 DEF Top, TopFlows
    <3> QED
      BY <1>4, <1>5, <1>6, <1>8, <3>1, <3>2
  <2>3. ASSUME NEW m \in 1..(n + 1), doc[m].tag = "subProcess", "subProcess" \in OuterTags
        PROVE  /\ Entry(doc[m].id) \in DOMAIN w.Flows
               /\ w.Flows[Entry(doc[m].id)].source = doc[m].id
               /\ w.Flows[Entry(doc[m].id)].target.scope # <<>>
    <3>1. CASE m = n + 1
      BY <1>8, <3>1 DEF sp
    <3>2. CASE m \in 1..n
      <4>1. /\ Entry(doc[m].id) \in DOMAIN r.Flows
            /\ r.Flows[Entry(doc[m].id)].source = doc[m].id
            /\ r.Flows[Entry(doc[m].id)].target.scope # <<>>
        BY <2>3, <3>2 DEF Top, TopFlows
      <4> QED
        BY <1>4, <1>5, <1>8, <3>2, <4>1
    <3> QED
      BY <1>1, <3>1, <3>2
  <2> QED
    BY <2>1, <2>2, <2>3 DEF TopFlows
<1> QED
  BY <1>7, <1>10, <1>11 DEF Top, w

LEMMA FlattenedItemRead ==
  ASSUME NEW doc, IsDocument(doc), NEW n \in Nat, n < Len(doc), NEW i, i = doc[n + 1],
         i.tag = "subProcess", NEW r, ItemsRead(r, doc, n), NEW end \in FirstEnd(i)
  PROVE  ItemsRead(flattenSubProcess(r, i, end), doc, n + 1)
<1> DEFINE w == flattenSubProcess(r, i, end)
           sp == i.id
<1>1. n + 1 \in 1..Len(doc) /\ 1..(n + 1) = (1..n) \cup {n + 1} /\ \A m \in 1..n : m # n + 1
  BY LenProperties DEF WellFormed, IsDocument
<1>2. IsID(sp) /\ WellFormed(doc) /\ WellFormed(i.items)
  BY <1>1, ItemFacts DEF IsDocument
<1>3. DOMAIN r = ProcessFields /\ Top(r, doc, n, OuterTags)
  BY DEF ItemsRead, Top
<1>4. \A m \in 1..n : doc[m].id # sp /\ doc[m].id.scope = <<>> /\ WellFormed(doc[m].items)
  <2> TAKE m \in 1..n
  <2>1. m \in 1..Len(doc) /\ m # n + 1
    BY <1>1
  <2>2. IsID(doc[m].id) /\ doc[m].id # sp /\ WellFormed(doc[m].items)
    BY <1>1, <1>2, <2>1, ItemFacts DEF IsDocument
  <2> QED
    BY <2>2, ItemIDs
<1>5. sp.scope = <<>> /\ Entry(sp).scope = <<>> /\ Key(sp)
  BY <1>2, ItemIDs, ItemKeys
<1>6. /\ \A x \in DOMAIN Inner(i).Elements : /\ Prefixed(sp, x).scope = <<sp>>
                                            /\ Prefixed(sp, x).scope # <<>> /\ Key(Prefixed(sp, x))
      /\ \A x \in DOMAIN Inner(i).Flows :
           Prefixed(sp, x).scope = <<sp>> /\ Prefixed(sp, x).scope # <<>>
  BY <1>2, InsideIDs
<1>7. ASSUME NEW m \in 1..n
      PROVE  /\ \A x \in DOMAIN Inner(doc[m]).Elements :
                  Prefixed(doc[m].id, x).scope # <<>> /\ Prefixed(doc[m].id, x).scope # <<sp>>
             /\ \A x \in DOMAIN Inner(doc[m]).Flows :
                  Prefixed(doc[m].id, x).scope # <<>> /\ Prefixed(doc[m].id, x).scope # <<sp>>
  <2>1. <<doc[m].id>> # <<sp>>
    BY <1>4
  <2> QED
    BY <1>4, <2>1, InsideIDs, ZenonT(30)
<1>8. /\ DOMAIN w.Elements =
           {sp} \cup {Prefixed(sp, x) : x \in DOMAIN Inner(i).Elements} \cup DOMAIN r.Elements
      /\ w.Elements[sp] = [Element("subProcess") EXCEPT !.End = end]
      /\ \A x \in DOMAIN Inner(i).Elements : w.Elements[Prefixed(sp, x)] = Inner(i).Elements[x]
      /\ \A e \in DOMAIN r.Elements :
           e # sp /\ (\A x \in DOMAIN Inner(i).Elements : e # Prefixed(sp, x))
           => w.Elements[e] = r.Elements[e]
  BY <1>2, <1>3, FlattenedElements
<1>9. /\ DOMAIN w.Flows =
           {Entry(sp)} \cup {Prefixed(sp, x) : x \in DOMAIN Inner(i).Flows} \cup DOMAIN r.Flows
      /\ \A x \in DOMAIN Inner(i).Flows :
           w.Flows[Prefixed(sp, x)] = InnerFlow(sp, Inner(i).Flows[x])
      /\ \A f \in DOMAIN r.Flows :
           f # Entry(sp) /\ (\A x \in DOMAIN Inner(i).Flows : f # Prefixed(sp, x))
           => w.Flows[f] = r.Flows[f]
  BY <1>2, <1>3, FlattenedFlows
<1>10. Top(w, doc, n + 1, OuterTags)
  BY <1>3, FlattenedTop
<1>11. \A x \in DOMAIN Inner(i).Elements : Inner(i).Elements[x].End = None
  BY <1>2, InnerParts
<1> HIDE DEF w
<1>12. w.Elements[sp].End = end
  BY <1>8, NewElement DEF IsElement, ElementFields
<1> HIDE DEF sp
<1>13. Keys(w)
  BY <1>5, <1>6, <1>8 DEF ItemsRead, Keys
<1>14. InsideElements(w, doc, n + 1)
  <2>1. ASSUME NEW e \in DOMAIN w.Elements, e.scope # <<>>
        PROVE  \E m \in 1..(n + 1) : \E x \in DOMAIN Inner(doc[m]).Elements :
                 doc[m].tag = "subProcess" /\ e = Prefixed(doc[m].id, x)
    <3>1. CASE e \in DOMAIN r.Elements
      BY <1>1, <2>1, <3>1 DEF ItemsRead, InsideElements
    <3>2. CASE \E x \in DOMAIN Inner(i).Elements : e = Prefixed(sp, x)
      BY <1>1, <3>2 DEF sp
    <3> QED
      BY <1>5, <1>8, <2>1, <3>1, <3>2
  <2>2. ASSUME NEW m \in 1..(n + 1), doc[m].tag = "subProcess",
               NEW x \in DOMAIN Inner(doc[m]).Elements
        PROVE  /\ Prefixed(doc[m].id, x) \in DOMAIN w.Elements
               /\ w.Elements[Prefixed(doc[m].id, x)] = Inner(doc[m]).Elements[x]
    <3>1. CASE m = n + 1
      BY <1>8, <2>2, <3>1 DEF sp
    <3>2. CASE m \in 1..n
      <4>1. /\ Prefixed(doc[m].id, x) \in DOMAIN r.Elements
            /\ r.Elements[Prefixed(doc[m].id, x)] = Inner(doc[m]).Elements[x]
        BY <2>2, <3>2 DEF ItemsRead, InsideElements
      <4>2. Prefixed(doc[m].id, x).scope # <<>> /\ Prefixed(doc[m].id, x).scope # <<sp>>
        BY <1>7, <2>2, <3>2
      <4> QED
        BY <1>5, <1>6, <1>8, <4>1, <4>2
    <3> QED
      BY <1>1, <3>1, <3>2
  <2> QED
    BY <2>1, <2>2 DEF InsideElements
<1>15. InsideFlows(w, doc, n + 1)
  <2>1. ASSUME NEW f \in DOMAIN w.Flows, f.scope # <<>>
        PROVE  \E m \in 1..(n + 1) : \E x \in DOMAIN Inner(doc[m]).Flows :
                 doc[m].tag = "subProcess" /\ f = Prefixed(doc[m].id, x)
    <3>1. CASE f \in DOMAIN r.Flows
      BY <1>1, <2>1, <3>1 DEF ItemsRead, InsideFlows
    <3>2. CASE \E x \in DOMAIN Inner(i).Flows : f = Prefixed(sp, x)
      BY <1>1, <3>2 DEF sp
    <3> QED
      BY <1>5, <1>9, <2>1, <3>1, <3>2
  <2>2. ASSUME NEW m \in 1..(n + 1), doc[m].tag = "subProcess",
               NEW x \in DOMAIN Inner(doc[m]).Flows
        PROVE  /\ Prefixed(doc[m].id, x) \in DOMAIN w.Flows
               /\ w.Flows[Prefixed(doc[m].id, x)] = InnerFlow(doc[m].id, Inner(doc[m]).Flows[x])
    <3>1. CASE m = n + 1
      BY <1>9, <2>2, <3>1 DEF sp
    <3>2. CASE m \in 1..n
      <4>1. /\ Prefixed(doc[m].id, x) \in DOMAIN r.Flows
            /\ r.Flows[Prefixed(doc[m].id, x)] = InnerFlow(doc[m].id, Inner(doc[m]).Flows[x])
        BY <2>2, <3>2 DEF ItemsRead, InsideFlows
      <4>2. Prefixed(doc[m].id, x).scope # <<>> /\ Prefixed(doc[m].id, x).scope # <<sp>>
        BY <1>7, <2>2, <3>2
      <4> QED
        BY <1>5, <1>6, <1>9, <4>1, <4>2
    <3> QED
      BY <1>1, <3>1, <3>2
  <2> QED
    BY <2>1, <2>2 DEF InsideFlows
<1>16. EndsFound(w, doc, n + 1)
  <2>1. ASSUME NEW e \in DOMAIN w.Elements, w.Elements[e].End # None
        PROVE  \E m \in 1..(n + 1) : doc[m].tag = "subProcess" /\ e = doc[m].id
    <3>1. CASE e = sp
      BY <1>1, <3>1 DEF sp
    <3>2. CASE \E x \in DOMAIN Inner(i).Elements : e = Prefixed(sp, x)
      BY <1>8, <1>11, <2>1, <3>2
    <3>3. CASE /\ e \in DOMAIN r.Elements /\ e # sp
               /\ \A x \in DOMAIN Inner(i).Elements : e # Prefixed(sp, x)
      BY <1>1, <1>8, <2>1, <3>3 DEF ItemsRead, EndsFound
    <3> QED
      BY <1>8, <3>1, <3>2, <3>3
  <2>2. ASSUME NEW m \in 1..(n + 1), doc[m].tag = "subProcess"
        PROVE  doc[m].id \in DOMAIN w.Elements /\ w.Elements[doc[m].id].End \in FirstEnd(doc[m])
    <3>1. CASE m = n + 1
      BY <1>8, <1>12, <3>1 DEF sp
    <3>2. CASE m \in 1..n
      <4>1. doc[m].id \in DOMAIN r.Elements /\ r.Elements[doc[m].id].End \in FirstEnd(doc[m])
        BY <2>2, <3>2 DEF ItemsRead, EndsFound
      <4> QED
        BY <1>4, <1>6, <1>8, <3>2, <4>1
    <3> QED
      BY <1>1, <3>1, <3>2
  <2> QED
    BY <2>1, <2>2 DEF EndsFound
<1> QED
  BY <1>10, <1>13, <1>14, <1>15, <1>16 DEF ItemsRead, w

\* Ids under a prefix.
Moved(sp, ids) == {Prefixed(sp, f) : f \in ids}

\* The flows that leave an element inside of a sub-process are those it lists.
LEMMA InnerSources ==
  ASSUME NEW i, WellFormed(i.items), NEW x \in DOMAIN Inner(i).Elements
  PROVE  Leaves(Inner(i), x) = BagToSet(Inner(i).Elements[x].Outgoing)
<1> DEFINE items == i.items
           N == Len(items)
<1>1. "subProcess" \notin FlatTags
  BY DEF FlatTags, EventTags, GatewayTags, TaskTags
<1>2. Done(Inner(i), items, FlatTags) /\ Flat(Inner(i))
  BY InnerParts
<1>3. PICK m \in 1..N : x = items[m].id /\ items[m].tag \in FlatTags
  BY <1>2 DEF Done, DoneElements, Flat
<1>4. Inner(i).Elements[x].Outgoing =
        SetToBag(IF items[m].tag = "sequenceFlow" THEN {Synthetic(x)} ELSE Leaving(items, items[m]))
  BY <1>2, <1>3 DEF Done, DoneElements
<1>5. Leaving(items, items[m]) = From(items, x)
  BY <1>1, <1>3 DEF Leaving
<1>6. BagToSet(Inner(i).Elements[x].Outgoing) =
        IF items[m].tag = "sequenceFlow" THEN {Synthetic(x)} ELSE From(items, x)
  BY <1>4, <1>5 DEF BagToSet, SetToBag
<1>7. \A k \in 1..N : items[k].tag = "sequenceFlow" =>
        /\ items[k].id \in DOMAIN Inner(i).Flows
        /\ Inner(i).Flows[items[k].id].source = items[k].source
        /\ Synthetic(items[k].id) \in DOMAIN Inner(i).Flows
        /\ Inner(i).Flows[Synthetic(items[k].id)].source = items[k].id
  <2> SUFFICES ASSUME NEW k \in 1..N, items[k].tag = "sequenceFlow"
               PROVE  /\ items[k].id \in DOMAIN Inner(i).Flows
                      /\ Inner(i).Flows[items[k].id].source = items[k].source
                      /\ Synthetic(items[k].id) \in DOMAIN Inner(i).Flows
                      /\ Inner(i).Flows[Synthetic(items[k].id)].source = items[k].id
    OBVIOUS
  <2>1. /\ items[k].id \in DOMAIN Inner(i).Flows
        /\ Inner(i).Flows[items[k].id] = parseFlow(items[k])
        /\ Synthetic(items[k].id) \in DOMAIN Inner(i).Flows
        /\ Inner(i).Flows[Synthetic(items[k].id)] = Flow(items[k].id, items[k].target, FALSE)
    BY <1>2 DEF Done, DoneFlows
  <2>2. parseFlow(items[k]).source = items[k].source
    BY FlowFields DEF parseFlow
  <2>3. Flow(items[k].id, items[k].target, FALSE).source = items[k].id
    BY DEF Flow
  <2> QED
    BY <2>1, <2>2, <2>3
<1>8. \A f \in DOMAIN Inner(i).Flows : \E k \in 1..N :
        f \in {items[k].id, Synthetic(items[k].id)} /\ items[k].tag = "sequenceFlow"
  BY <1>1, <1>2 DEF Done, DoneFlows, Flat
<1>9. \A k \in 1..N : /\ items[k].id = x => k = m
                      /\ items[k].tag = "sequenceFlow" /\ items[m].tag = "sequenceFlow"
                         => items[k].source # x
  BY <1>3, ItemFacts
<1> HIDE DEF items, N
<1>10. ASSUME NEW f \in DOMAIN Inner(i).Flows, Inner(i).Flows[f].source = x
       PROVE  f \in BagToSet(Inner(i).Elements[x].Outgoing)
  <2>1. PICK k \in 1..N : /\ f \in {items[k].id, Synthetic(items[k].id)}
                          /\ items[k].tag = "sequenceFlow"
    BY <1>8
  <2>2. CASE f = items[k].id
    <3>1. items[k].source = x /\ items[m].tag # "sequenceFlow"
      BY <1>7, <1>9, <1>10, <2>1, <2>2
    <3>2. f \in From(items, x)
      BY <2>1, <2>2, <3>1, DrawnFlows DEF items, N
    <3> QED
      BY <1>6, <3>1, <3>2
  <2>3. CASE f = Synthetic(items[k].id)
    <3>1. items[k].id = x /\ k = m
      BY <1>7, <1>9, <1>10, <2>1, <2>3
    <3> QED
      BY <1>6, <2>1, <2>3, <3>1
  <2> QED
    BY <2>1, <2>2, <2>3
<1>11. ASSUME NEW f \in BagToSet(Inner(i).Elements[x].Outgoing)
       PROVE  f \in DOMAIN Inner(i).Flows /\ Inner(i).Flows[f].source = x
  <2>1. CASE items[m].tag = "sequenceFlow"
    BY <1>3, <1>6, <1>7, <1>11, <2>1
  <2>2. CASE items[m].tag # "sequenceFlow"
    <3>1. f \in From(items, x)
      BY <1>6, <1>11, <2>2
    <3>2. PICK k \in 1..N : items[k].tag = "sequenceFlow" /\ f = items[k].id /\ items[k].source = x
      BY <3>1, DrawnFlows DEF items, N
    <3> QED
      BY <1>7, <3>2
  <2> QED
    BY <2>1, <2>2
<1> QED
  BY <1>10, <1>11 DEF Leaves

LEMMA InsideEnclosed ==
  ASSUME NEW doc, IsDocument(doc), NEW r, ItemsRead(r, doc, Len(doc))
  PROVE  Enclosed(r)
<1> SUFFICES ASSUME NEW f \in DOMAIN r.Flows, f.scope # <<>>
             PROVE  r.Flows[f].source.scope # <<>> /\ r.Flows[f].target.scope # <<>>
  BY DEF Enclosed
<1>1. PICK m \in 1..Len(doc) : \E x \in DOMAIN Inner(doc[m]).Flows :
        doc[m].tag = "subProcess" /\ f = Prefixed(doc[m].id, x)
  BY DEF ItemsRead, InsideFlows
<1>2. PICK x \in DOMAIN Inner(doc[m]).Flows : f = Prefixed(doc[m].id, x)
  BY <1>1
<1>3. r.Flows[f] = InnerFlow(doc[m].id, Inner(doc[m]).Flows[x])
  BY <1>1, <1>2 DEF ItemsRead, InsideFlows
<1>4. WellFormed(doc[m].items)
  BY ItemFacts DEF IsDocument
<1>5. Plain(Inner(doc[m]).Flows[x].source) /\ Plain(Inner(doc[m]).Flows[x].target)
  BY <1>4, InnerParts, ItemIDs
<1>6. /\ r.Flows[f].source = Prefixed(doc[m].id, Inner(doc[m]).Flows[x].source)
      /\ r.Flows[f].target = Prefixed(doc[m].id, Inner(doc[m]).Flows[x].target)
  BY <1>3, FlowFields DEF InnerFlow
<1> QED
  BY <1>5, <1>6, PrefixedIDs

\* The outer process finds the same ones, under their prefixed ids.
LEMMA OuterSources ==
  ASSUME NEW doc, IsDocument(doc), NEW r, ItemsRead(r, doc, Len(doc)),
         NEW m \in 1..Len(doc), doc[m].tag = "subProcess", NEW x \in DOMAIN Inner(doc[m]).Elements
  PROVE  Leaves(r, Prefixed(doc[m].id, x))
           = Moved(doc[m].id, BagToSet(Inner(doc[m]).Elements[x].Outgoing))
<1> DEFINE sp == doc[m].id
           L == BagToSet(Inner(doc[m]).Elements[x].Outgoing)
<1>1. WellFormed(doc) /\ \A k \in 1..Len(doc) : WellFormed(doc[k].items)
  BY ItemFacts DEF IsDocument
<1>2. \A k \in 1..Len(doc) : IsID(doc[k].id) /\ (doc[k].id = sp => k = m)
  BY <1>1, ItemFacts
<1>3. L = {f \in DOMAIN Inner(doc[m]).Flows : Inner(doc[m]).Flows[f].source = x}
  BY <1>1, InnerSources DEF Leaves
<1>4. Plain(x) /\ Prefixed(sp, x).scope # <<>>
  <2>1. Plain(x)
    BY <1>1, InnerParts, ItemIDs
  <2> QED
    BY <1>1, <2>1, InsideIDs
<1>5. ASSUME NEW k \in 1..Len(doc), doc[k].tag = "subProcess", NEW y \in DOMAIN Inner(doc[k]).Flows
      PROVE  /\ Plain(Inner(doc[k]).Flows[y].source)
             /\ Prefixed(doc[k].id, y) \in DOMAIN r.Flows
             /\ r.Flows[Prefixed(doc[k].id, y)].source
                  = Prefixed(doc[k].id, Inner(doc[k]).Flows[y].source)
  <2>1. /\ Prefixed(doc[k].id, y) \in DOMAIN r.Flows
        /\ r.Flows[Prefixed(doc[k].id, y)] = InnerFlow(doc[k].id, Inner(doc[k]).Flows[y])
    BY <1>5 DEF ItemsRead, InsideFlows
  <2>2. InnerFlow(doc[k].id, Inner(doc[k]).Flows[y]).source
          = Prefixed(doc[k].id, Inner(doc[k]).Flows[y].source)
    BY FlowFields DEF InnerFlow
  <2>3. Plain(Inner(doc[k]).Flows[y].source)
    BY <1>1, InnerParts, ItemIDs
  <2> QED
    BY <2>1, <2>2, <2>3
<1> HIDE DEF sp, L
<1>6. ASSUME NEW f \in DOMAIN r.Flows, r.Flows[f].source = Prefixed(sp, x)
      PROVE  f \in {Prefixed(sp, g) : g \in L}
  <2>1. f.scope # <<>>
    <3> SUFFICES ASSUME f.scope = <<>> PROVE FALSE
      OBVIOUS
    <3>1. PICK k \in 1..Len(doc) :
            \/ f = doc[k].id /\ doc[k].tag = "sequenceFlow"
            \/ f = Entry(doc[k].id) /\ doc[k].tag = "subProcess" /\ "subProcess" \in OuterTags
      BY DEF ItemsRead, Top, TopFlows
    <3>2. CASE f = doc[k].id /\ doc[k].tag = "sequenceFlow"
      <4>1. r.Flows[f].source = doc[k].source
        BY <3>2, FlowFields DEF ItemsRead, Top, TopFlows, parseFlow
      <4>2. doc[k].source.scope = <<>>
        BY <1>1, <3>2, ItemFacts, ItemIDs
      <4> QED
        BY <1>4, <1>6, <4>1, <4>2
    <3>3. CASE f = Entry(doc[k].id) /\ doc[k].tag = "subProcess" /\ "subProcess" \in OuterTags
      <4>1. r.Flows[f].source = doc[k].id
        BY <3>3 DEF ItemsRead, Top, TopFlows
      <4>2. doc[k].id.scope = <<>>
        BY <1>2, ItemIDs
      <4> QED
        BY <1>4, <1>6, <4>1, <4>2
    <3> QED
      BY <3>1, <3>2, <3>3
  <2>2. PICK k \in 1..Len(doc) : \E y \in DOMAIN Inner(doc[k]).Flows :
          doc[k].tag = "subProcess" /\ f = Prefixed(doc[k].id, y)
    BY <2>1 DEF ItemsRead, InsideFlows
  <2>3. PICK y \in DOMAIN Inner(doc[k]).Flows : f = Prefixed(doc[k].id, y)
    BY <2>2
  <2>4. /\ Plain(Inner(doc[k]).Flows[y].source)
        /\ Prefixed(doc[k].id, Inner(doc[k]).Flows[y].source) = Prefixed(sp, x)
    BY <1>5, <1>6, <2>2, <2>3
  <2>5. doc[k].id = sp /\ Inner(doc[k]).Flows[y].source = x
    BY <1>4, <2>4, SamePrefixed
  <2>6. k = m
    BY <1>2, <2>5
  <2> QED
    BY <1>3, <2>3, <2>5, <2>6
<1>7. ASSUME NEW g \in L
      PROVE  Prefixed(sp, g) \in DOMAIN r.Flows /\ r.Flows[Prefixed(sp, g)].source = Prefixed(sp, x)
  BY <1>3, <1>5 DEF sp
<1> QED
  BY <1>6, <1>7 DEF Leaves, Moved, sp, L

----------------------------------------------------------------------------
(* Documents with sub-processes.                                           *)

\* The flows listed inside of a sub-process, once more under prefixed ids.
Both(sp, list) == list \cup Moved(sp, list)

\* An element inside of a sub-process, as the outer process has it.
InsideTypes(r, doc) ==
  \A m \in 1..Len(doc) : doc[m].tag = "subProcess" =>
    \A x \in DOMAIN Inner(doc[m]).Elements :
      /\ Prefixed(doc[m].id, x) \in DOMAIN r.Elements
      /\ r.Elements[Prefixed(doc[m].id, x)].Type = Inner(doc[m]).Elements[x].Type

InsideLists(r, doc) ==
  \A m \in 1..Len(doc) : doc[m].tag = "subProcess" =>
    \A x \in DOMAIN Inner(doc[m]).Elements :
      /\ BagToSet(r.Elements[Prefixed(doc[m].id, x)].Outgoing)
           = Both(doc[m].id, BagToSet(Inner(doc[m]).Elements[x].Outgoing))
      /\ r.Elements[Prefixed(doc[m].id, x)].ExitFlows = {}

InsideTargets(r, doc) ==
  \A m \in 1..Len(doc) : doc[m].tag = "subProcess" =>
    \A x \in DOMAIN Inner(doc[m]).Flows :
      /\ Prefixed(doc[m].id, x) \in DOMAIN r.Flows
      /\ r.Flows[Prefixed(doc[m].id, x)].target = Prefixed(doc[m].id, Inner(doc[m]).Flows[x].target)

\* All keys are ids of elements, all elements have their fields.
Elementary(r) ==
  DOMAIN r = ProcessFields /\ Keys(r) /\ \A e \in DOMAIN r.Elements : IsElement(r.Elements[e])

\* After wireFlows.
AllWired(r, doc) ==
  /\ Elementary(r)
  /\ WiredElements(r, doc, OuterTags) /\ TopFlows(r, doc, Len(doc), OuterTags)
  /\ InsideTypes(r, doc) /\ InsideLists(r, doc) /\ InsideFlows(r, doc, Len(doc))
  /\ EndsFound(r, doc, Len(doc))

LEMMA BothLists ==
  ASSUME NEW A, NEW B
  PROVE  BagToSet(A (+) SetToBag(B)) = BagToSet(A) \cup B
BY DEF BagToSet, SetToBag, (+)

LEMMA InnerElements ==
  ASSUME NEW doc, IsDocument(doc), NEW m \in 1..Len(doc), NEW x \in DOMAIN Inner(doc[m]).Elements
  PROVE  /\ IsID(x) /\ IsElement(Inner(doc[m]).Elements[x])
         /\ Inner(doc[m]).Elements[x].End = None /\ Inner(doc[m]).Elements[x].ExitFlows = {}
<1>1. WellFormed(doc[m].items)
  BY ItemFacts DEF IsDocument
<1>2. IsID(x) /\ IsElement(Inner(doc[m]).Elements[x]) /\ Inner(doc[m]).Elements[x].End = None
  BY <1>1, InnerParts
<1>3. Done(Inner(doc[m]), doc[m].items, FlatTags) /\ Flat(Inner(doc[m]))
  BY <1>1, InnerParts
<1>4. PICK k \in 1..Len(doc[m].items) :
        x = doc[m].items[k].id /\ doc[m].items[k].tag \in FlatTags
  BY <1>3 DEF Done, DoneElements, Flat
<1>5. Shape(Inner(doc[m]).Elements[x], doc[m].items[k].tag)
  BY <1>3, <1>4 DEF Done, DoneElements
<1> QED
  BY <1>2, <1>5 DEF Shape

LEMMA ItemsWired ==
  ASSUME NEW doc, IsDocument(doc), NEW r, ItemsRead(r, doc, Len(doc))
  PROVE  AllWired(wireFlows(r), doc)
<1> DEFINE w == wireFlows(r)
<1>1. DOMAIN r = ProcessFields /\ WellFormed(doc) /\ Top(r, doc, Len(doc), OuterTags)
  BY DEF ItemsRead, Top, IsDocument
<1>2. Enclosed(r)
  BY InsideEnclosed
<1>3. WiredElements(w, doc, OuterTags) /\ TopFlows(w, doc, Len(doc), OuterTags)
  BY <1>1, <1>2, TopWired
<1>4. \A e \in DOMAIN r.Elements : IsElement(r.Elements[e])
  <2> TAKE e \in DOMAIN r.Elements
  <2>1. CASE e.scope = <<>>
    BY <1>1, <2>1 DEF Top, TopElements, Fresh
  <2>2. CASE e.scope # <<>>
    <3>1. PICK m \in 1..Len(doc) : \E x \in DOMAIN Inner(doc[m]).Elements :
            doc[m].tag = "subProcess" /\ e = Prefixed(doc[m].id, x)
      BY <2>2 DEF ItemsRead, InsideElements
    <3>2. PICK x \in DOMAIN Inner(doc[m]).Elements : e = Prefixed(doc[m].id, x)
      BY <3>1
    <3>3. r.Elements[e] = Inner(doc[m]).Elements[x]
      BY <3>1, <3>2 DEF ItemsRead, InsideElements
    <3> QED
      BY <3>3, InnerElements
  <2> QED
    BY <2>1, <2>2
<1>5. /\ DOMAIN w = ProcessFields /\ w.Flows = r.Flows /\ DOMAIN w.Elements = DOMAIN r.Elements
      /\ \A e \in DOMAIN r.Elements :
           /\ IsElement(w.Elements[e])
           /\ w.Elements[e].Type = r.Elements[e].Type /\ w.Elements[e].End = r.Elements[e].End
           /\ w.Elements[e].ExitFlows = r.Elements[e].ExitFlows
           /\ w.Elements[e].Outgoing = r.Elements[e].Outgoing
                (+) SetToBag(Leaves(r, e))
  <2>1. /\ DOMAIN w = ProcessFields /\ w.Flows = r.Flows
        /\ DOMAIN w.Elements = DOMAIN r.Elements
    BY <1>1, Wiring
  <2>2. ASSUME NEW e \in DOMAIN r.Elements
        PROVE  /\ IsElement(w.Elements[e])
               /\ w.Elements[e].Type = r.Elements[e].Type /\ w.Elements[e].End = r.Elements[e].End
               /\ w.Elements[e].ExitFlows = r.Elements[e].ExitFlows
               /\ w.Elements[e].Outgoing = r.Elements[e].Outgoing
                    (+) SetToBag(Leaves(r, e))
    BY <1>1, <1>4, Wiring
  <2> QED
    BY <2>1, <2>2
<1> HIDE DEF w
<1>6. Elementary(w)
  BY <1>5 DEF Elementary, Keys, ItemsRead
<1>7. ASSUME NEW m \in 1..Len(doc), doc[m].tag = "subProcess",
             NEW x \in DOMAIN Inner(doc[m]).Elements
      PROVE  LET id == Prefixed(doc[m].id, x) IN
             /\ id \in DOMAIN w.Elements /\ w.Elements[id].Type = Inner(doc[m]).Elements[x].Type
             /\ BagToSet(w.Elements[id].Outgoing)
                  = Both(doc[m].id, BagToSet(Inner(doc[m]).Elements[x].Outgoing))
             /\ w.Elements[id].ExitFlows = {}
  <2> DEFINE id == Prefixed(doc[m].id, x)
             L == BagToSet(Inner(doc[m]).Elements[x].Outgoing)
  <2>1. id \in DOMAIN r.Elements /\ r.Elements[id] = Inner(doc[m]).Elements[x]
    BY <1>7 DEF ItemsRead, InsideElements
  <2>2. Leaves(r, id) = Moved(doc[m].id, L)
    BY <1>7, OuterSources
  <2> HIDE DEF id
  <2>3. w.Elements[id].Outgoing = Inner(doc[m]).Elements[x].Outgoing
                                    (+) SetToBag(Moved(doc[m].id, L))
    BY <1>5, <2>1, <2>2
  <2>4. BagToSet(w.Elements[id].Outgoing) = L \cup Moved(doc[m].id, L)
    BY <2>3, BothLists
  <2>5. Inner(doc[m]).Elements[x].ExitFlows = {}
    BY InnerElements
  <2> HIDE DEF L
  <2> QED
    BY <1>5, <2>1, <2>4, <2>5 DEF Both, id, L
<1>8. InsideTypes(w, doc) /\ InsideLists(w, doc)
  BY <1>7 DEF InsideTypes, InsideLists
<1>9. InsideFlows(w, doc, Len(doc)) /\ EndsFound(w, doc, Len(doc))
  <2>1. InsideFlows(r, doc, Len(doc)) /\ EndsFound(r, doc, Len(doc))
    BY DEF ItemsRead
  <2>2. w.Flows = r.Flows /\ DOMAIN w.Elements = DOMAIN r.Elements
    BY <1>5
  <2>3. InsideFlows(w, doc, Len(doc))
    BY <2>1, <2>2 DEF InsideFlows
  <2>4. \A e \in DOMAIN r.Elements : w.Elements[e].End = r.Elements[e].End
    BY <1>5
  <2> QED
    BY <2>1, <2>2, <2>3, <2>4 DEF EndsFound
<1> QED
  BY <1>3, <1>6, <1>8, <1>9 DEF AllWired, w

\* Inside of a sub-process, a flow is an element of its own or the synthetic one
\* behind such an element.
LEMMA InnerFlows ==
  ASSUME NEW i, WellFormed(i.items)
  PROVE  LET flows == DOMAIN Inner(i).Elements \cap DOMAIN Inner(i).Flows IN
         /\ \A x \in flows : /\ Inner(i).Elements[x].Type = "sequenceFlow"
                             /\ BagToSet(Inner(i).Elements[x].Outgoing) = {Synthetic(x)}
                             /\ Synthetic(x) \in DOMAIN Inner(i).Flows
                             /\ Inner(i).Flows[Synthetic(x)].target = Inner(i).Flows[x].target
         /\ \A x \in DOMAIN Inner(i).Flows : x \in flows \/ \E y \in flows : x = Synthetic(y)
<1> DEFINE items == i.items
           N == Len(items)
           flows == DOMAIN Inner(i).Elements \cap DOMAIN Inner(i).Flows
<1>1. "subProcess" \notin FlatTags /\ "sequenceFlow" \in FlatTags
  BY DEF FlatTags, EventTags, GatewayTags, TaskTags
<1>2. Done(Inner(i), items, FlatTags) /\ Flat(Inner(i))
  BY InnerParts
<1>3. \A k \in 1..N : items[k].tag = "sequenceFlow" => items[k].id \in flows
  BY <1>1, <1>2 DEF Done, DoneElements, DoneFlows
<1>4. \A f \in DOMAIN Inner(i).Flows : \E k \in 1..N :
        f \in {items[k].id, Synthetic(items[k].id)} /\ items[k].tag = "sequenceFlow"
  BY <1>1, <1>2 DEF Done, DoneFlows, Flat
<1>5. ASSUME NEW x \in flows
      PROVE  \E k \in 1..N : x = items[k].id /\ items[k].tag = "sequenceFlow"
  <2>1. PICK k \in 1..N : x \in {items[k].id, Synthetic(items[k].id)} /\ items[k].tag = "sequenceFlow"
    BY <1>4
  <2>2. x.suffix = ""
    BY InnerParts, ItemIDs
  <2>3. Synthetic(items[k].id).suffix = "_synth"
    BY ItemFacts, ItemIDs
  <2> QED
    BY <2>1, <2>2, <2>3
<1>6. ASSUME NEW x \in flows
      PROVE  /\ Inner(i).Elements[x].Type = "sequenceFlow"
             /\ BagToSet(Inner(i).Elements[x].Outgoing) = {Synthetic(x)}
             /\ Synthetic(x) \in DOMAIN Inner(i).Flows
             /\ Inner(i).Flows[Synthetic(x)].target = Inner(i).Flows[x].target
  <2>1. PICK k \in 1..N : x = items[k].id /\ items[k].tag = "sequenceFlow"
    BY <1>5
  <2>2. /\ Shape(Inner(i).Elements[x], "sequenceFlow")
        /\ Inner(i).Elements[x].Outgoing = SetToBag({Synthetic(x)})
    BY <1>1, <1>2, <2>1 DEF Done, DoneElements
  <2>3. /\ Inner(i).Flows[x] = parseFlow(items[k])
        /\ Synthetic(x) \in DOMAIN Inner(i).Flows
        /\ Inner(i).Flows[Synthetic(x)] = Flow(x, items[k].target, FALSE)
    BY <1>2, <2>1 DEF Done, DoneFlows
  <2>4. parseFlow(items[k]).target = items[k].target
    BY FlowFields DEF parseFlow
  <2>5. Flow(x, items[k].target, FALSE).target = items[k].target
    BY DEF Flow
  <2>6. Inner(i).Elements[x].Type = "sequenceFlow"
    BY <2>2 DEF Shape
  <2>7. BagToSet(Inner(i).Elements[x].Outgoing) = {Synthetic(x)}
    BY <2>2 DEF BagToSet, SetToBag
  <2> QED
    BY <2>3, <2>4, <2>5, <2>6, <2>7
<1>7. ASSUME NEW x \in DOMAIN Inner(i).Flows
      PROVE  x \in flows \/ \E y \in flows : x = Synthetic(y)
  BY <1>3, <1>4
<1> QED
  BY <1>6, <1>7

\* After SyntheticFlows.
AllDone(r, doc) ==
  /\ Elementary(r) /\ Done(r, doc, OuterTags)
  /\ InsideTypes(r, doc) /\ InsideLists(r, doc) /\ InsideTargets(r, doc)
  /\ EndsFound(r, doc, Len(doc))

LEMMA WiredDone ==
  ASSUME NEW doc, IsDocument(doc), NEW r, AllWired(r, doc)
  PROVE  AllDone(SyntheticFlows(r), doc)
<1> DEFINE w == SyntheticFlows(r)
           flows == FlowElements(r)
<1>1. WellFormed(doc) /\ \A k \in 1..Len(doc) : WellFormed(doc[k].items)
  BY ItemFacts DEF IsDocument
<1>2. DOMAIN r = ProcessFields /\ Keys(r) /\ \A e \in DOMAIN r.Elements : IsElement(r.Elements[e])
  BY DEF AllWired, Elementary
<1>3. Done(w, doc, OuterTags)
  <2>1. FlatTags \subseteq OuterTags
    BY DEF OuterTags
  <2> QED
    BY <1>1, <1>2, <2>1, TopDone DEF AllWired
<1>4. /\ DOMAIN w = ProcessFields /\ DOMAIN w.Elements = DOMAIN r.Elements
      /\ DOMAIN w.Flows = DOMAIN r.Flows \cup {Synthetic(f) : f \in flows}
      /\ flows \subseteq DOMAIN r.Elements
  BY <1>2, Synthesis DEF FlowElements
<1>5. ASSUME NEW e \in DOMAIN r.Elements
      PROVE  /\ IsElement(w.Elements[e]) /\ w.Elements[e].Type = r.Elements[e].Type
             /\ w.Elements[e].End = r.Elements[e].End
             /\ w.Elements[e].ExitFlows = r.Elements[e].ExitFlows
             /\ e \notin flows => w.Elements[e].Outgoing = r.Elements[e].Outgoing
             /\ e \in flows =>
                  w.Elements[e].Outgoing = r.Elements[e].Outgoing (+) SetToBag({Synthetic(e)})
  <2>1. CASE e \in flows
    BY <1>2, <2>1, Synthesis
  <2>2. CASE e \notin flows
    <3>1. w.Elements[e] = r.Elements[e]
      BY <1>2, <2>2, Synthesis
    <3> QED
      BY <1>2, <2>2, <3>1
  <2> QED
    BY <2>1, <2>2
<1>6. \A f \in DOMAIN r.Flows : (\A g \in flows : f # Synthetic(g)) => w.Flows[f] = r.Flows[f]
  BY <1>2, Synthesis
<1>7. \A f \in flows : /\ Synthetic(f).suffix = "_synth" /\ Key(f)
                       /\ w.Flows[Synthetic(f)].target = r.Flows[f].target
  <2> TAKE f \in flows
  <2>1. Key(f)
    BY <1>2, <1>4 DEF Keys
  <2>2. w.Flows[Synthetic(f)] = Flow(f, r.Flows[f].target, FALSE)
    BY <1>2, <2>1, Synthesis
  <2>3. Flow(f, r.Flows[f].target, FALSE).target = r.Flows[f].target
    BY DEF Flow
  <2> QED
    BY <2>1, <2>2, <2>3, KeyIDs
<1> HIDE DEF w
<1>8. Elementary(w)
  BY <1>2, <1>4, <1>5 DEF Elementary, Keys
<1>9. EndsFound(w, doc, Len(doc))
  <2>1. EndsFound(r, doc, Len(doc))
    BY DEF AllWired
  <2>2. \A e \in DOMAIN r.Elements : w.Elements[e].End = r.Elements[e].End
    BY <1>5
  <2> QED
    BY <1>4, <2>1, <2>2 DEF EndsFound
<1>10. InsideTypes(w, doc)
  <2>1. \A e \in DOMAIN r.Elements : w.Elements[e].Type = r.Elements[e].Type
    BY <1>5
  <2> QED
    BY <1>4, <2>1 DEF AllWired, InsideTypes
<1>11. ASSUME NEW m \in 1..Len(doc), doc[m].tag = "subProcess",
              NEW x \in DOMAIN Inner(doc[m]).Elements
       PROVE  LET id == Prefixed(doc[m].id, x) IN
              /\ BagToSet(w.Elements[id].Outgoing)
                   = Both(doc[m].id, BagToSet(Inner(doc[m]).Elements[x].Outgoing))
              /\ w.Elements[id].ExitFlows = {}
  <2> DEFINE sp == doc[m].id
             id == Prefixed(doc[m].id, x)
             L == BagToSet(Inner(doc[m]).Elements[x].Outgoing)
  <2>1. /\ id \in DOMAIN r.Elements /\ r.Elements[id].ExitFlows = {}
        /\ BagToSet(r.Elements[id].Outgoing) = Both(sp, L)
    BY <1>11 DEF AllWired, InsideTypes, InsideLists
  <2>2. IsID(x) /\ Plain(x) /\ x.suffix = ""
    BY InnerElements, ItemIDs
  <2>3. CASE id \in flows
    <3>1. id \in DOMAIN r.Flows /\ id.scope # <<>>
      BY <1>1, <2>3, InsideIDs DEF FlowElements
    <3>2. PICK k \in 1..Len(doc) : \E y \in DOMAIN Inner(doc[k]).Flows :
            doc[k].tag = "subProcess" /\ id = Prefixed(doc[k].id, y)
      BY <3>1 DEF AllWired, InsideFlows
    <3>3. PICK y \in DOMAIN Inner(doc[k]).Flows : id = Prefixed(doc[k].id, y)
      BY <3>2
    <3>4. doc[k].id = sp /\ y = x
      <4>1. Plain(y)
        BY <1>1, InnerParts
      <4>2. Prefixed(doc[k].id, y) = Prefixed(doc[m].id, x)
        BY <3>3
      <4>3. PICK p, q : p = doc[k].id /\ q = doc[m].id
        OBVIOUS
      <4>4. Plain(x) /\ Plain(y) /\ Prefixed(p, y) = Prefixed(q, x)
        BY <2>2, <4>1, <4>2, <4>3
      <4>5. p = q /\ y = x
        BY <4>4, SamePrefixed
      <4> QED
        BY <4>3, <4>5
    <3>5. k = m
      BY <1>1, <3>4, ItemFacts
    <3>6. L = {Synthetic(x)}
      BY <1>1, <3>4, <3>5, InnerFlows
    <3>7. Synthetic(id) = Prefixed(sp, Synthetic(x))
      BY <2>2, PrefixedKeys
    <3>8. Synthetic(id) \in Both(sp, L)
      BY <3>6, <3>7 DEF Both, Moved
    <3> HIDE DEF id, L
    <3>9. BagToSet(w.Elements[id].Outgoing) = BagToSet(r.Elements[id].Outgoing) \cup {Synthetic(id)}
      BY <1>5, <2>1, <2>3, BothLists
    <3> QED
      BY <1>5, <2>1, <3>8, <3>9 DEF id, L
  <2>4. CASE id \notin flows
    BY <1>5, <2>1, <2>4
  <2> QED
    BY <2>3, <2>4
<1>12. ASSUME NEW m \in 1..Len(doc), doc[m].tag = "subProcess", NEW x \in DOMAIN Inner(doc[m]).Flows
       PROVE  LET sp == doc[m].id IN
              /\ Prefixed(sp, x) \in DOMAIN w.Flows
              /\ w.Flows[Prefixed(sp, x)].target = Prefixed(sp, Inner(doc[m]).Flows[x].target)
  <2> DEFINE sp == doc[m].id
  <2>1. \A y \in DOMAIN Inner(doc[m]).Flows :
          /\ Prefixed(sp, y) \in DOMAIN r.Flows
          /\ r.Flows[Prefixed(sp, y)].target = Prefixed(sp, Inner(doc[m]).Flows[y].target)
    <3> TAKE y \in DOMAIN Inner(doc[m]).Flows
    <3>1. /\ Prefixed(sp, y) \in DOMAIN r.Flows
          /\ r.Flows[Prefixed(sp, y)] = InnerFlow(sp, Inner(doc[m]).Flows[y])
      BY <1>12 DEF AllWired, InsideFlows
    <3> QED
      BY <3>1, FlowFields DEF InnerFlow
  <2>2. Prefixed(sp, x) \in DOMAIN w.Flows
    BY <1>4, <2>1
  <2>3. CASE x \in DOMAIN Inner(doc[m]).Elements
    <3>1. Prefixed(sp, x).suffix = ""
      BY <1>1, <2>3, InsideIDs DEF Key
    <3> QED
      BY <1>6, <1>7, <2>1, <2>2, <3>1
  <2>4. CASE \E y \in DOMAIN Inner(doc[m]).Elements \cap DOMAIN Inner(doc[m]).Flows :
               x = Synthetic(y)
    <3>1. PICK y \in DOMAIN Inner(doc[m]).Elements \cap DOMAIN Inner(doc[m]).Flows :
            x = Synthetic(y)
      BY <2>4
    <3>2. /\ Inner(doc[m]).Elements[y].Type = "sequenceFlow"
          /\ Inner(doc[m]).Flows[x].target = Inner(doc[m]).Flows[y].target
      BY <1>1, <3>1, InnerFlows
    <3>3. Prefixed(sp, x) = Synthetic(Prefixed(sp, y))
      BY <3>1, InnerElements, PrefixedKeys
    <3>4. Prefixed(sp, y) \in flows
      BY <1>12, <2>1, <3>2 DEF FlowElements, AllWired, InsideTypes
    <3>5. w.Flows[Prefixed(sp, x)].target = r.Flows[Prefixed(sp, y)].target
      BY <1>7, <3>3, <3>4
    <3> QED
      BY <2>1, <2>2, <3>2, <3>5
  <2> QED
    BY <1>1, <2>3, <2>4, InnerFlows
<1>13. InsideLists(w, doc) /\ InsideTargets(w, doc)
  BY <1>11, <1>12 DEF InsideLists, InsideTargets
<1> QED
  BY <1>3, <1>8, <1>9, <1>10, <1>13 DEF AllDone, w

----------------------------------------------------------------------------
(* Exits and conditions: the process as the engine routes on it.           *)

\* Inside of item i, the element end is left along these flows, too.
LeftBy(r, i, end, exits) ==
  \A x \in DOMAIN Inner(i).Elements :
    LET y == r.Elements[Prefixed(i.id, x)]
        list == Both(i.id, BagToSet(Inner(i).Elements[x].Outgoing))
    IN
    /\ Prefixed(i.id, x) # end => BagToSet(y.Outgoing) = list /\ y.ExitFlows = {}
    /\ Prefixed(i.id, x) = end => y.ExitFlows = list \cup exits

\* The end event that was found is left along the flows drawn from the sub-process.
InsideExits(r, doc) ==
  \A m \in 1..Len(doc) : doc[m].tag = "subProcess" =>
    \E end \in FirstEnd(doc[m]) : LeftBy(r, doc[m], end, From(doc, doc[m].id))

\* Drawn as the document draws it.
AsDrawn(r, doc) ==
  /\ DOMAIN r = ProcessFields /\ Keys(r) /\ Done(r, doc, OuterTags)
  /\ InsideTypes(r, doc) /\ InsideTargets(r, doc) /\ InsideExits(r, doc)

\* The elements whose end is this one.
EndedBy(r, end) == {e \in DOMAIN r.Elements : r.Elements[e].End = end}

LEMMA Exits ==
  ASSUME NEW r, Elementary(r)
  PROVE  LET w == ExitRouting(r) IN
         /\ DOMAIN w = ProcessFields /\ w.Flows = r.Flows /\ w.Start = r.Start
         /\ DOMAIN w.Elements = DOMAIN r.Elements
         /\ \A e \in DOMAIN r.Elements : EndedBy(r, e) = {} => w.Elements[e] = r.Elements[e]
         /\ \A e \in DOMAIN r.Elements : EndedBy(r, e) # {} =>
              /\ IsElement(w.Elements[e]) /\ w.Elements[e].Type = r.Elements[e].Type
              /\ w.Elements[e].ExitFlows \subseteq BagToSet(w.Elements[e].Outgoing)
              /\ \E sp \in EndedBy(r, e) :
                   w.Elements[e].ExitFlows =
                     BagToSet(r.Elements[e].Outgoing) \cup ExitFlows(r.Elements[sp])
<1> DEFINE w == ExitRouting(r)
           given(end) ==
             LET sp == CHOOSE e \in EndedBy(r, end) : TRUE
                 exits == ExitFlows(r.Elements[sp])
             IN  [r.Elements[end] EXCEPT
                    !.Outgoing = @ (+) SetToBag(exits),
                    !.ExitFlows = BagToSet(r.Elements[end].Outgoing) \cup exits]
           elements == [end \in DOMAIN r.Elements |->
                          IF EndedBy(r, end) = {} THEN r.Elements[end] ELSE given(end)]
<1>1. w = [r EXCEPT !.Elements = elements]
  BY DEF ExitRouting, EndedBy
<1>2. DOMAIN r = ProcessFields
  BY DEF Elementary
<1>3. /\ DOMAIN w = ProcessFields /\ w.Flows = r.Flows /\ w.Elements = elements
      /\ w.Start = r.Start
  <2> HIDE DEF elements, w
  <2> QED
    BY <1>1, <1>2 DEF ProcessFields
<1>4. ASSUME NEW e \in DOMAIN r.Elements, EndedBy(r, e) # {}
      PROVE  /\ IsElement(w.Elements[e]) /\ w.Elements[e].Type = r.Elements[e].Type
             /\ w.Elements[e].ExitFlows \subseteq BagToSet(w.Elements[e].Outgoing)
             /\ \E sp \in EndedBy(r, e) :
                  w.Elements[e].ExitFlows =
                    BagToSet(r.Elements[e].Outgoing) \cup ExitFlows(r.Elements[sp])
  <2>1. PICK sp \in EndedBy(r, e) : sp = CHOOSE x \in EndedBy(r, e) : TRUE
    BY <1>4
  <2> DEFINE exits == ExitFlows(r.Elements[sp])
  <2>2. w.Elements[e] = [r.Elements[e] EXCEPT
                           !.Outgoing = @ (+) SetToBag(exits),
                           !.ExitFlows = BagToSet(r.Elements[e].Outgoing) \cup exits]
    <3>1. w.Elements[e] = given(e)
      <4> HIDE DEF w, given
      <4> QED
        BY <1>3, <1>4
    <3>2. given(e) = [r.Elements[e] EXCEPT
                        !.Outgoing = @ (+) SetToBag(exits),
                        !.ExitFlows = BagToSet(r.Elements[e].Outgoing) \cup exits]
      BY <2>1
    <3> HIDE DEF w, given, exits
    <3> QED
      BY <3>1, <3>2
  <2>3. IsElement(r.Elements[e])
    BY DEF Elementary
  <2> HIDE DEF exits, w
  <2>4. /\ IsElement(w.Elements[e]) /\ w.Elements[e].Type = r.Elements[e].Type
        /\ w.Elements[e].ExitFlows = BagToSet(r.Elements[e].Outgoing) \cup exits
        /\ w.Elements[e].Outgoing = r.Elements[e].Outgoing (+) SetToBag(exits)
    BY <2>2, <2>3 DEF IsElement, ElementFields
  <2>5. BagToSet(w.Elements[e].Outgoing) = w.Elements[e].ExitFlows
    BY <2>4, BothLists
  <2> QED
    BY <2>4, <2>5 DEF exits
<1>5. \A e \in DOMAIN r.Elements : EndedBy(r, e) = {} => w.Elements[e] = r.Elements[e]
  BY <1>3
<1>6. DOMAIN w.Elements = DOMAIN r.Elements
  BY <1>3
<1> QED
  BY <1>3, <1>4, <1>5, <1>6 DEF w

\* Who is ended by which element.
LEMMA Endings ==
  ASSUME NEW doc, IsDocument(doc), NEW r, AllDone(r, doc)
  PROVE  /\ \A m \in 1..Len(doc) : EndedBy(r, doc[m].id) = {}
         /\ \A m \in 1..Len(doc) : doc[m].tag = "subProcess" =>
              \A x \in DOMAIN Inner(doc[m]).Elements :
                EndedBy(r, Prefixed(doc[m].id, x)) =
                  IF r.Elements[doc[m].id].End = Prefixed(doc[m].id, x) THEN {doc[m].id} ELSE {}
<1>1. WellFormed(doc) /\ \A k \in 1..Len(doc) : WellFormed(doc[k].items) /\ IsID(doc[k].id)
  <2>1. WellFormed(doc)
    BY DEF IsDocument
  <2> QED
    BY <2>1, ItemFacts DEF IsDocument
<1>2. ASSUME NEW e \in DOMAIN r.Elements, r.Elements[e].End # None
      PROVE  \E k \in 1..Len(doc) : \E y \in DOMAIN Inner(doc[k]).Elements :
               /\ doc[k].tag = "subProcess" /\ e = doc[k].id /\ IsID(y)
               /\ r.Elements[e].End = Prefixed(doc[k].id, y)
  <2>1. PICK k \in 1..Len(doc) : doc[k].tag = "subProcess" /\ e = doc[k].id
    BY <1>2 DEF AllDone, EndsFound
  <2>2. r.Elements[e].End \in FirstEnd(doc[k])
    BY <2>1 DEF AllDone, EndsFound
  <2>3. r.Elements[e].End \in {Prefixed(doc[k].id, y) : y \in EndEvents(Inner(doc[k]))}
    BY <1>2, <2>2 DEF FirstEnd, Inner
  <2>4. PICK y \in EndEvents(Inner(doc[k])) : r.Elements[e].End = Prefixed(doc[k].id, y)
    BY <2>3
  <2>5. y \in DOMAIN Inner(doc[k]).Elements
    BY DEF EndEvents
  <2> QED
    BY <2>1, <2>4, <2>5, InnerElements
<1>3. ASSUME NEW m \in 1..Len(doc), NEW e \in EndedBy(r, doc[m].id)
      PROVE  FALSE
  <2>1. doc[m].id # None /\ doc[m].id.scope = <<>>
    BY <1>1, ItemIDs DEF IsID
  <2>2. PICK k \in 1..Len(doc) : \E y \in DOMAIN Inner(doc[k]).Elements :
          doc[m].id = Prefixed(doc[k].id, y)
    BY <1>2, <1>3, <2>1 DEF EndedBy
  <2> QED
    BY <1>1, <2>1, <2>2, InsideIDs
<1>4. ASSUME NEW m \in 1..Len(doc), doc[m].tag = "subProcess",
             NEW x \in DOMAIN Inner(doc[m]).Elements
      PROVE  EndedBy(r, Prefixed(doc[m].id, x)) =
               IF r.Elements[doc[m].id].End = Prefixed(doc[m].id, x) THEN {doc[m].id} ELSE {}
  <2>1. Prefixed(doc[m].id, x) # None
    <3>1. PICK j \in ItemsOf(doc[m].items) : x = j.id
      <4>1. Done(Inner(doc[m]), doc[m].items, FlatTags) /\ Flat(Inner(doc[m]))
        BY <1>1, InnerParts
      <4>2. PICK k \in 1..Len(doc[m].items) : x = doc[m].items[k].id
        BY <4>1 DEF Done, DoneElements, Flat
      <4> QED
        BY <1>1, <4>2, ItemFacts
    <3>2. doc[m] \in ItemsOf(doc)
      BY <1>1, ItemFacts
    <3> QED
      BY <3>1, <3>2 DEF IsDocument
  <2>2. ASSUME NEW e \in EndedBy(r, Prefixed(doc[m].id, x))
        PROVE  e = doc[m].id
    <3>1. e \in DOMAIN r.Elements /\ r.Elements[e].End = Prefixed(doc[m].id, x)
      BY DEF EndedBy
    <3>2. PICK k \in 1..Len(doc) : \E y \in DOMAIN Inner(doc[k]).Elements :
            e = doc[k].id /\ IsID(y) /\ Prefixed(doc[m].id, x) = Prefixed(doc[k].id, y)
      BY <1>2, <2>1, <3>1
    <3>3. PICK y \in DOMAIN Inner(doc[k]).Elements :
            IsID(y) /\ Prefixed(doc[m].id, x) = Prefixed(doc[k].id, y)
      BY <3>2
    <3>4. Plain(x) /\ Plain(y)
      BY <3>3, InnerElements, ItemIDs
    <3> QED
      BY <3>2, <3>3, <3>4, SamePrefixed
  <2>3. doc[m].id \in DOMAIN r.Elements
    BY <1>4 DEF AllDone, EndsFound
  <2> QED
    BY <2>2, <2>3 DEF EndedBy
<1> QED
  BY <1>3, <1>4

LEMMA ExitsRouted ==
  ASSUME NEW doc, IsDocument(doc), NEW r, AllDone(r, doc)
  PROVE  Elementary(ExitRouting(r)) /\ AsDrawn(ExitRouting(r), doc)
<1> DEFINE w == ExitRouting(r)
<1>1. Elementary(r) /\ Done(r, doc, OuterTags) /\ DOMAIN r = ProcessFields
  BY DEF AllDone, Elementary
<1>2. /\ DOMAIN w = ProcessFields /\ w.Flows = r.Flows /\ DOMAIN w.Elements = DOMAIN r.Elements
      /\ \A e \in DOMAIN r.Elements : EndedBy(r, e) = {} => w.Elements[e] = r.Elements[e]
      /\ \A e \in DOMAIN r.Elements : EndedBy(r, e) # {} =>
           /\ IsElement(w.Elements[e]) /\ w.Elements[e].Type = r.Elements[e].Type
           /\ \E sp \in EndedBy(r, e) :
                w.Elements[e].ExitFlows =
                  BagToSet(r.Elements[e].Outgoing) \cup ExitFlows(r.Elements[sp])
  BY <1>1, Exits
<1> HIDE DEF w
<1>3. \A e \in DOMAIN r.Elements :
        IsElement(w.Elements[e]) /\ w.Elements[e].Type = r.Elements[e].Type
  <2> TAKE e \in DOMAIN r.Elements
  <2>1. CASE EndedBy(r, e) = {}
    BY <1>1, <1>2, <2>1 DEF Elementary
  <2>2. CASE EndedBy(r, e) # {}
    BY <1>2, <2>2
  <2> QED
    BY <2>1, <2>2
<1>4. Elementary(w) /\ Keys(w)
  BY <1>1, <1>2, <1>3 DEF Elementary, Keys
<1>5. Done(w, doc, OuterTags)
  <2>1. \A m \in 1..Len(doc) : doc[m].tag \in OuterTags =>
          doc[m].id \in DOMAIN w.Elements /\ w.Elements[doc[m].id] = r.Elements[doc[m].id]
    <3> TAKE m \in 1..Len(doc)
    <3> HAVE doc[m].tag \in OuterTags
    <3>1. EndedBy(r, doc[m].id) = {}
      BY Endings
    <3>2. doc[m].id \in DOMAIN r.Elements
      BY <1>1 DEF Done, DoneElements
    <3> QED
      BY <1>2, <3>1, <3>2
  <2>2. DoneElements(w, doc, OuterTags)
    BY <1>1, <1>2, <2>1 DEF Done, DoneElements
  <2>3. DoneFlows(w, doc, OuterTags)
    BY <1>1, <1>2 DEF Done, DoneFlows
  <2> QED
    BY <1>2, <2>2, <2>3 DEF Done
<1>6. InsideTypes(w, doc)
  BY <1>2, <1>3 DEF AllDone, InsideTypes
<1>7. InsideTargets(w, doc)
  BY <1>2 DEF AllDone, InsideTargets
<1>8. ASSUME NEW m \in 1..Len(doc), doc[m].tag = "subProcess"
      PROVE  ExitFlows(r.Elements[doc[m].id]) = From(doc, doc[m].id)
  <2> DEFINE sp == doc[m].id
  <2>1. r.Elements[sp].Outgoing = SetToBag(From(doc, sp) \cup {Entry(sp)})
    <3>1. "subProcess" \in OuterTags /\ "subProcess" # "sequenceFlow"
      BY DEF OuterTags
    <3>2. r.Elements[sp].Outgoing = SetToBag(Leaving(doc, doc[m]))
      BY <1>1, <1>8, <3>1 DEF Done, DoneElements
    <3> QED
      BY <1>8, <3>2 DEF Leaving
  <2>2. BagToSet(r.Elements[sp].Outgoing) = From(doc, sp) \cup {Entry(sp)}
    BY <2>1 DEF BagToSet, SetToBag
  <2>3. WellFormed(doc)
    BY DEF IsDocument
  <2>4. Entry(sp).suffix = "_sp_entry"
    BY <2>3, ItemFacts, ItemIDs
  <2>5. \A f \in From(doc, sp) : f.suffix = ""
    <3> TAKE f \in From(doc, sp)
    <3>1. PICK k \in 1..Len(doc) : f = doc[k].id
      BY <2>3, DrawnFlows
    <3> QED
      BY <2>3, <3>1, ItemFacts, ItemIDs
  <2> HIDE DEF sp
  <2>6. ExitFlows(r.Elements[sp]) = From(doc, sp)
    BY <2>2, <2>4, <2>5 DEF ExitFlows
  <2> QED
    BY <2>6 DEF sp
<1>9. ASSUME NEW m \in 1..Len(doc), doc[m].tag = "subProcess"
      PROVE  \E end \in FirstEnd(doc[m]) : LeftBy(w, doc[m], end, From(doc, doc[m].id))
  <2> DEFINE end == r.Elements[doc[m].id].End
  <2>1. end \in FirstEnd(doc[m])
    BY <1>9 DEF AllDone, EndsFound
  <2>2. ASSUME NEW x \in DOMAIN Inner(doc[m]).Elements
        PROVE  LET y == w.Elements[Prefixed(doc[m].id, x)]
                   list == Both(doc[m].id, BagToSet(Inner(doc[m]).Elements[x].Outgoing))
               IN
               /\ Prefixed(doc[m].id, x) # end => BagToSet(y.Outgoing) = list /\ y.ExitFlows = {}
               /\ Prefixed(doc[m].id, x) = end => y.ExitFlows = list \cup From(doc, doc[m].id)
    <3> DEFINE id == Prefixed(doc[m].id, x)
               list == Both(doc[m].id, BagToSet(Inner(doc[m]).Elements[x].Outgoing))
    <3>1. id \in DOMAIN r.Elements /\ BagToSet(r.Elements[id].Outgoing) = list
          /\ r.Elements[id].ExitFlows = {}
      BY <1>9 DEF AllDone, InsideTypes, InsideLists
    <3>2. EndedBy(r, id) = IF end = id THEN {doc[m].id} ELSE {}
      BY <1>9, Endings
    <3> HIDE DEF id, list, end
    <3>3. CASE id # end
      <4>1. w.Elements[id] = r.Elements[id]
        BY <1>2, <3>1, <3>2, <3>3
      <4> QED
        BY <3>1, <3>3, <4>1 DEF id, list
    <3>4. CASE id = end
      <4>1. w.Elements[id].ExitFlows =
              BagToSet(r.Elements[id].Outgoing) \cup ExitFlows(r.Elements[doc[m].id])
        BY <1>2, <3>1, <3>2, <3>4
      <4>2. w.Elements[id].ExitFlows = list \cup From(doc, doc[m].id)
        BY <1>8, <1>9, <3>1, <4>1
      <4> QED
        BY <3>4, <4>2 DEF id, list
    <3> QED
      BY <3>3, <3>4
  <2> QED
    BY <2>1, <2>2 DEF LeftBy
<1>10. InsideExits(w, doc)
  BY <1>9 DEF InsideExits
<1> QED
  BY <1>2, <1>4, <1>5, <1>6, <1>7, <1>10 DEF AsDrawn, w

\* Ids the document gives: without a prefix, or under that of a sub-process.
Given(doc, x) == x.scope = <<>> \/ \E m \in 1..Len(doc) : x.scope = <<doc[m].id>>

\* Whoever adds elements and flows under other prefixes, and leaves the lists of
\* the others as they are, leaves the drawing as it is.
LEMMA StillDrawn ==
  ASSUME NEW doc, IsDocument(doc), NEW r, AsDrawn(r, doc), NEW w,
         DOMAIN w = ProcessFields, Keys(w),
         DOMAIN r.Elements \subseteq DOMAIN w.Elements, DOMAIN r.Flows \subseteq DOMAIN w.Flows,
         \A e \in DOMAIN w.Elements : e.scope = <<>> => e \in DOMAIN r.Elements,
         \A f \in DOMAIN w.Flows : f.scope = <<>> => f \in DOMAIN r.Flows,
         \A e \in DOMAIN r.Elements : Given(doc, e) =>
           /\ IsElement(r.Elements[e]) => IsElement(w.Elements[e])
           /\ w.Elements[e].Type = r.Elements[e].Type
           /\ w.Elements[e].Outgoing = r.Elements[e].Outgoing
           /\ w.Elements[e].Incoming = r.Elements[e].Incoming
           /\ w.Elements[e].ExitFlows = r.Elements[e].ExitFlows,
         \A f \in DOMAIN r.Flows : Given(doc, f) => w.Flows[f] = r.Flows[f]
  PROVE  AsDrawn(w, doc)
<1>1. WellFormed(doc) /\ \A m \in 1..Len(doc) : WellFormed(doc[m].items) /\ IsID(doc[m].id)
  <2>1. WellFormed(doc)
    BY DEF IsDocument
  <2> QED
    BY <2>1, ItemFacts DEF IsDocument
<1>2. \A m \in 1..Len(doc) : /\ Given(doc, doc[m].id) /\ Given(doc, Synthetic(doc[m].id))
                             /\ Given(doc, Entry(doc[m].id))
  BY <1>1, ItemIDs DEF Given
<1>3. \A m \in 1..Len(doc) :
        /\ \A x \in DOMAIN Inner(doc[m]).Elements : Given(doc, Prefixed(doc[m].id, x))
        /\ \A x \in DOMAIN Inner(doc[m]).Flows : Given(doc, Prefixed(doc[m].id, x))
  <2> TAKE m \in 1..Len(doc)
  <2>1. /\ \A x \in DOMAIN Inner(doc[m]).Elements : Prefixed(doc[m].id, x).scope = <<doc[m].id>>
        /\ \A x \in DOMAIN Inner(doc[m]).Flows : Prefixed(doc[m].id, x).scope = <<doc[m].id>>
    BY <1>1, InsideIDs, ZenonT(30)
  <2> QED
    BY <2>1 DEF Given
<1>4. DoneElements(w, doc, OuterTags)
  <2>1. DoneElements(r, doc, OuterTags)
    BY DEF AsDrawn, Done
  <2>2. \A e \in DOMAIN w.Elements : e.scope = <<>> =>
          \E m \in 1..Len(doc) : e = doc[m].id /\ doc[m].tag \in OuterTags
    BY <2>1 DEF DoneElements
  <2>3. ASSUME NEW m \in 1..Len(doc), doc[m].tag \in OuterTags
        PROVE  /\ doc[m].id \in DOMAIN w.Elements
               /\ Shape(w.Elements[doc[m].id], doc[m].tag)
               /\ w.Elements[doc[m].id].Outgoing = r.Elements[doc[m].id].Outgoing
               /\ w.Elements[doc[m].id].Incoming = r.Elements[doc[m].id].Incoming
    BY <1>2, <2>1, <2>3 DEF DoneElements, Shape
  <2> QED
    BY <2>1, <2>2, <2>3 DEF DoneElements
<1>5. DoneFlows(w, doc, OuterTags)
  <2>1. DoneFlows(r, doc, OuterTags)
    BY DEF AsDrawn, Done
  <2>2. \A f \in DOMAIN r.Flows : Given(doc, f) => f \in DOMAIN w.Flows /\ w.Flows[f] = r.Flows[f]
    OBVIOUS
  <2> QED
    BY <1>2, <2>1, <2>2 DEF DoneFlows
<1>6. \A m \in 1..Len(doc) : doc[m].tag = "subProcess" =>
        \A x \in DOMAIN Inner(doc[m]).Elements : LET id == Prefixed(doc[m].id, x) IN
          /\ id \in DOMAIN w.Elements /\ w.Elements[id].Type = r.Elements[id].Type
          /\ w.Elements[id].Outgoing = r.Elements[id].Outgoing
          /\ w.Elements[id].ExitFlows = r.Elements[id].ExitFlows
  BY <1>3 DEF AsDrawn, InsideTypes
<1>7. InsideTypes(w, doc)
  BY <1>6 DEF AsDrawn, InsideTypes
<1>8. InsideExits(w, doc)
  <2> SUFFICES ASSUME NEW m \in 1..Len(doc), doc[m].tag = "subProcess"
               PROVE  \E end \in FirstEnd(doc[m]) : LeftBy(w, doc[m], end, From(doc, doc[m].id))
    BY DEF InsideExits
  <2>1. PICK end \in FirstEnd(doc[m]) : LeftBy(r, doc[m], end, From(doc, doc[m].id))
    BY DEF AsDrawn, InsideExits
  <2>2. \A x \in DOMAIN Inner(doc[m]).Elements :
          /\ w.Elements[Prefixed(doc[m].id, x)].Outgoing = r.Elements[Prefixed(doc[m].id, x)].Outgoing
          /\ w.Elements[Prefixed(doc[m].id, x)].ExitFlows = r.Elements[Prefixed(doc[m].id, x)].ExitFlows
    BY <1>6
  <2>3. LeftBy(w, doc[m], end, From(doc, doc[m].id))
    BY <2>1, <2>2 DEF LeftBy
  <2> QED
    BY <2>3
<1>9. InsideTargets(w, doc)
  BY <1>3 DEF AsDrawn, InsideTargets
<1> QED
  BY <1>4, <1>5, <1>7, <1>8, <1>9 DEF AsDrawn, Done

LEMMA ConditionsCollected ==
  ASSUME NEW doc, IsDocument(doc), NEW r, Elementary(r), AsDrawn(r, doc)
  PROVE  AsDrawn(GatewayConditions(r), doc)
<1> DEFINE w == GatewayConditions(r)
           conditions(e) == r.Elements[e].Conditions \cup
             {f \in BagToSet(r.Elements[e].Outgoing) \cap DOMAIN r.Flows : r.Flows[f].condition}
           elements == [e \in DOMAIN r.Elements |->
                          IF r.Elements[e].Type \notin GatewayTags THEN r.Elements[e]
                          ELSE [r.Elements[e] EXCEPT !.Conditions = conditions(e)]]
<1>1. w = [r EXCEPT !.Elements = elements]
  BY DEF GatewayConditions
<1>2. DOMAIN r = ProcessFields
  BY DEF Elementary
<1>3. DOMAIN w = ProcessFields /\ w.Flows = r.Flows /\ w.Elements = elements
  <2> HIDE DEF elements, w
  <2> QED
    BY <1>1, <1>2 DEF ProcessFields
<1> HIDE DEF conditions
<1>4. DOMAIN w.Elements = DOMAIN r.Elements
  BY <1>3
<1>5. ASSUME NEW e \in DOMAIN r.Elements
      PROVE  /\ IsElement(w.Elements[e])
             /\ w.Elements[e].Type = r.Elements[e].Type
             /\ w.Elements[e].Outgoing = r.Elements[e].Outgoing
             /\ w.Elements[e].Incoming = r.Elements[e].Incoming
             /\ w.Elements[e].ExitFlows = r.Elements[e].ExitFlows
  <2>1. IsElement(r.Elements[e])
    BY DEF Elementary
  <2>2. \/ w.Elements[e] = r.Elements[e]
        \/ w.Elements[e] = [r.Elements[e] EXCEPT !.Conditions = conditions(e)]
    BY <1>3
  <2> HIDE DEF w
  <2> QED
    BY <2>1, <2>2 DEF IsElement, ElementFields
<1> HIDE DEF w
<1>6. Keys(w)
  BY <1>4 DEF Elementary, Keys
<1>7. \A e \in DOMAIN r.Elements : Given(doc, e) =>
        /\ IsElement(r.Elements[e]) => IsElement(w.Elements[e])
        /\ w.Elements[e].Type = r.Elements[e].Type
        /\ w.Elements[e].Outgoing = r.Elements[e].Outgoing
        /\ w.Elements[e].Incoming = r.Elements[e].Incoming
        /\ w.Elements[e].ExitFlows = r.Elements[e].ExitFlows
  BY <1>5
<1>8. \A f \in DOMAIN r.Flows : Given(doc, f) => w.Flows[f] = r.Flows[f]
  BY <1>3
<1>9. /\ DOMAIN r.Elements \subseteq DOMAIN w.Elements /\ DOMAIN r.Flows \subseteq DOMAIN w.Flows
      /\ \A e \in DOMAIN w.Elements : e.scope = <<>> => e \in DOMAIN r.Elements
      /\ \A f \in DOMAIN w.Flows : f.scope = <<>> => f \in DOMAIN r.Flows
  BY <1>3, <1>4
<1>10. DOMAIN w = ProcessFields
  BY <1>3
<1> HIDE DEF elements
<1>11. AsDrawn(w, doc)
  BY <1>6, <1>7, <1>8, <1>9, <1>10, StillDrawn
<1> QED
  BY <1>11 DEF w

----------------------------------------------------------------------------
(* Routing.                                                                *)

\* A sum over one flow.
LEMMA SumOne ==
  ASSUME NEW list, NEW f, list[f] = 1
  PROVE  Listed(list, {f}) = 1
<1> DEFINE Sums(it) == it = [s \in SUBSET {f} |->
                              IF s = {} THEN 0
                              ELSE LET x == CHOOSE x \in s : TRUE IN list[x] + it[s \ {x}]]
           it == CHOOSE it : Sums(it)
           sum == [s \in SUBSET {f} |-> IF s = {} THEN 0 ELSE 1]
<1>1. SUBSET {f} = {{}, {f}}
  OBVIOUS
<1>2. (CHOOSE x \in {f} : TRUE) = f /\ {f} \ {f} = {}
  OBVIOUS
<1>3. Sums(sum)
  <2>1. \A s \in SUBSET {f} : sum[s] =
          IF s = {} THEN 0 ELSE LET x == CHOOSE x \in s : TRUE IN list[x] + sum[s \ {x}]
    <3> TAKE s \in SUBSET {f}
    <3>1. CASE s = {}
      BY <3>1
    <3>2. CASE s = {f}
      BY <1>2, <3>2
    <3> QED
      BY <1>1, <3>1, <3>2
  <2> QED
    BY <2>1
<1>4. Sums(it)
  BY <1>3
<1>5. it[{f}] = 1
  <2> HIDE DEF it
  <2>1. it[{f}] = list[f] + it[{}] /\ it[{}] = 0
    BY <1>2, <1>4
  <2> QED
    BY <2>1
<1> QED
  BY <1>5 DEF Listed, MapThenSumSet, MapThenFoldSet

\* Flows that are listed once, and step to different elements, are each taken once.
LEMMA RouteOnce ==
  ASSUME NEW r, NEW e, NEW L, r.Elements[e].Outgoing = SetToBag(L), L \subseteq DOMAIN r.Flows,
         \A f, g \in L : Step(r, f) = Step(r, g) => f = g
  PROVE  Route(r, e) = SetToBag({Step(r, f) : f \in L})
<1> DEFINE list == r.Elements[e].Outgoing
           Of(to) == {f \in L : Step(r, f) = to}
<1>1. BagToSet(list) \cap DOMAIN r.Flows \cap DOMAIN r.Flows = L
  BY DEF BagToSet, SetToBag
<1>2. Route(r, e) = [to \in {Step(r, f) : f \in L} |-> Listed(list, Of(to))]
  BY <1>1 DEF Route, RouteTo
<1>3. ASSUME NEW to \in {Step(r, f) : f \in L}
      PROVE  Listed(list, Of(to)) = 1
  <2>1. PICK f \in L : to = Step(r, f)
    OBVIOUS
  <2>2. Of(to) = {f}
    BY <2>1
  <2>3. list[f] = 1
    BY DEF SetToBag
  <2>4. Listed(list, {f}) = 1
    BY <2>3, SumOne
  <2> QED
    BY <2>2, <2>4
<1> QED
  BY <1>2, <1>3 DEF SetToBag

LEMMA RouteSet ==
  ASSUME NEW r, NEW e
  PROVE  BagToSet(Route(r, e)) =
           {Step(r, f) : f \in BagToSet(r.Elements[e].Outgoing) \cap DOMAIN r.Flows}
BY DEF Route, RouteTo, BagToSet

\* Items, and what is known of them in a process drawn as the document draws it.
LEMMA DrawnItem ==
  ASSUME NEW doc, IsDocument(doc), NEW r, AsDrawn(r, doc), NEW i \in ItemsOf(doc),
         i.tag \in OuterTags
  PROVE  /\ IsID(i.id) /\ i.id \in DOMAIN r.Elements
         /\ Shape(r.Elements[i.id], i.tag)
         /\ r.Elements[i.id].Incoming = SetToBag(To(doc, i.id))
<1>1. WellFormed(doc) /\ Done(r, doc, OuterTags)
  BY DEF IsDocument, AsDrawn
<1>2. PICK m \in 1..Len(doc) : i = doc[m]
  BY <1>1, ItemOfIndex
<1> QED
  BY <1>1, <1>2, ItemFacts DEF Done, DoneElements

LEMMA DrawnNode ==
  ASSUME NEW doc, IsDocument(doc), NEW r, AsDrawn(r, doc), NEW i \in ItemsOf(doc),
         i.tag \in OuterTags, i.tag # "sequenceFlow", i.tag # "subProcess"
  PROVE  r.Elements[i.id].Outgoing = SetToBag(From(doc, i.id))
<1>1. WellFormed(doc) /\ Done(r, doc, OuterTags)
  BY DEF IsDocument, AsDrawn
<1>2. PICK m \in 1..Len(doc) : i = doc[m]
  BY <1>1, ItemOfIndex
<1>3. r.Elements[i.id].Outgoing = SetToBag(Leaving(doc, i))
  BY <1>1, <1>2 DEF Done, DoneElements
<1> QED
  BY <1>3 DEF Leaving

LEMMA DrawnFlow ==
  ASSUME NEW doc, IsDocument(doc), NEW r, AsDrawn(r, doc), NEW i \in ItemsOf(doc),
         i.tag = "sequenceFlow"
  PROVE  /\ IsID(i.id) /\ i.id \in DOMAIN r.Elements /\ r.Elements[i.id].Type = "sequenceFlow"
         /\ r.Elements[i.id].Outgoing = SetToBag({Synthetic(i.id)})
         /\ i.id \in DOMAIN r.Flows /\ Synthetic(i.id) \in DOMAIN r.Flows
         /\ r.Flows[Synthetic(i.id)].target = i.target
<1>1. WellFormed(doc) /\ Done(r, doc, OuterTags)
  BY DEF IsDocument, AsDrawn
<1>2. PICK m \in 1..Len(doc) : i = doc[m]
  BY <1>1, ItemOfIndex
<1>3. i.tag \in OuterTags
  BY DEF OuterTags, FlatTags
<1>4. /\ IsID(i.id) /\ i.id \in DOMAIN r.Elements /\ r.Elements[i.id].Type = "sequenceFlow"
      /\ r.Elements[i.id].Outgoing = SetToBag({Synthetic(i.id)})
  BY <1>1, <1>2, <1>3, ItemFacts DEF Done, DoneElements, Shape
<1>5. /\ i.id \in DOMAIN r.Flows /\ Synthetic(i.id) \in DOMAIN r.Flows
      /\ r.Flows[Synthetic(i.id)] = Flow(i.id, i.target, FALSE)
  BY <1>1, <1>2 DEF Done, DoneFlows
<1>6. Flow(i.id, i.target, FALSE).target = i.target
  BY DEF Flow
<1> QED
  BY <1>4, <1>5, <1>6

LEMMA DrawnSubProcess ==
  ASSUME NEW doc, IsDocument(doc), NEW r, AsDrawn(r, doc), NEW i \in ItemsOf(doc),
         i.tag = "subProcess"
  PROVE  /\ IsID(i.id) /\ r.Elements[i.id].Outgoing = SetToBag(From(doc, i.id) \cup {Entry(i.id)})
         /\ Entry(i.id) \in DOMAIN r.Flows /\ r.Flows[Entry(i.id)].target.scope # <<>>
<1>1. WellFormed(doc) /\ Done(r, doc, OuterTags)
  BY DEF IsDocument, AsDrawn
<1>2. PICK m \in 1..Len(doc) : i = doc[m]
  BY <1>1, ItemOfIndex
<1>3. i.tag \in OuterTags
  BY DEF OuterTags
<1>4. IsID(i.id) /\ r.Elements[i.id].Outgoing = SetToBag(Leaving(doc, i))
  BY <1>1, <1>2, <1>3, ItemFacts DEF Done, DoneElements
<1>5. Entry(i.id) \in DOMAIN r.Flows /\ r.Flows[Entry(i.id)].target.scope # <<>>
  BY <1>1, <1>2, <1>3 DEF Done, DoneFlows
<1> QED
  BY <1>4, <1>5 DEF Leaving

\* Flows drawn from an id are known, and elements to step to.
LEMMA DrawnStep ==
  ASSUME NEW doc, IsDocument(doc), NEW r, AsDrawn(r, doc), NEW i \in ItemsOf(doc),
         i.tag = "sequenceFlow"
  PROVE  i.id \in DOMAIN r.Flows /\ Step(r, i.id) = i.id /\ i.id.scope = <<>>
<1>1. WellFormed(doc) /\ Done(r, doc, OuterTags)
  BY DEF IsDocument, AsDrawn
<1>2. PICK m \in 1..Len(doc) : i = doc[m]
  BY <1>1, ItemOfIndex
<1>3. i.tag \in OuterTags
  BY DEF OuterTags, FlatTags
<1>4. IsID(i.id) /\ i.id \in DOMAIN r.Elements /\ r.Elements[i.id].Type = "sequenceFlow"
  BY <1>1, <1>2, <1>3, ItemFacts DEF Done, DoneElements, Shape
<1>5. i.id \in DOMAIN r.Flows
  BY <1>1, <1>2 DEF Done, DoneFlows
<1> QED
  BY <1>4, <1>5, ItemIDs DEF Step

LEMMA DrawnSteps ==
  ASSUME NEW doc, IsDocument(doc), NEW r, AsDrawn(r, doc), NEW n, NEW f \in From(doc, n)
  PROVE  f \in DOMAIN r.Flows /\ Step(r, f) = f /\ f.scope = <<>>
<1>1. PICK i \in ItemsOf(doc) : i.tag = "sequenceFlow" /\ f = i.id
  BY DEF From, FlowItems
<1>2. i.tag = "sequenceFlow"
  BY <1>1
<1> QED
  BY <1>1, <1>2, DrawnStep

LEMMA NodesDrawn ==
  ASSUME NEW doc, IsDocument(doc), NEW r, AsDrawn(r, doc), NEW i \in ItemsOf(doc)
  PROVE  /\ i.tag \in NodeTags \ {"subProcess"} => Route(r, i.id) = SetToBag(From(doc, i.id))
         /\ i.tag \in NodeTags => r.Elements[i.id].Incoming = SetToBag(To(doc, i.id))
<1>1. ASSUME i.tag \in NodeTags \ {"subProcess"}
      PROVE  Route(r, i.id) = SetToBag(From(doc, i.id))
  <2> DEFINE L == From(doc, i.id)
  <2>1. i.tag \in OuterTags /\ i.tag # "sequenceFlow" /\ i.tag # "subProcess"
    BY <1>1 DEF NodeTags, OuterTags, FlatTags, EventTags, GatewayTags, TaskTags
  <2>2. r.Elements[i.id].Outgoing = SetToBag(L)
    BY <2>1, DrawnNode
  <2>3. L \subseteq DOMAIN r.Flows /\ \A f \in L : Step(r, f) = f
    BY DrawnSteps
  <2> HIDE DEF L
  <2>4. Route(r, i.id) = SetToBag({Step(r, f) : f \in L})
    BY <2>2, <2>3, RouteOnce
  <2>5. {Step(r, f) : f \in L} = L
    BY <2>3
  <2> QED
    BY <2>4, <2>5 DEF L
<1>2. ASSUME i.tag \in NodeTags
      PROVE  r.Elements[i.id].Incoming = SetToBag(To(doc, i.id))
  <2>1. i.tag \in OuterTags
    BY <1>2 DEF NodeTags, OuterTags, FlatTags
  <2> QED
    BY <2>1, DrawnItem
<1> QED
  BY <1>1, <1>2

LEMMA FlowsDrawn ==
  ASSUME NEW doc, IsDocument(doc), NEW r, AsDrawn(r, doc), NEW i \in ItemsOf(doc),
         i.tag = "sequenceFlow"
  PROVE  Route(r, i.id) = SetToBag({i.target})
<1> DEFINE L == {Synthetic(i.id)}
<1>2. /\ IsID(i.id) /\ r.Elements[i.id].Outgoing = SetToBag(L)
      /\ Synthetic(i.id) \in DOMAIN r.Flows /\ r.Flows[Synthetic(i.id)].target = i.target
  BY DrawnFlow
<1>3. Synthetic(i.id) \notin DOMAIN r.Elements
  <2>1. Synthetic(i.id).suffix = "_synth"
    BY <1>2, ItemIDs
  <2> QED
    BY <2>1 DEF AsDrawn, Keys, Key
<1>4. Step(r, Synthetic(i.id)) = i.target
  BY <1>2, <1>3 DEF Step
<1>5. Route(r, i.id) = SetToBag({Step(r, f) : f \in L})
  BY <1>2, RouteOnce
<1>6. {Step(r, f) : f \in L} = {i.target}
  BY <1>4
<1> QED
  BY <1>5, <1>6

LEMMA SubProcessesDrawn ==
  ASSUME NEW doc, IsDocument(doc), NEW r, AsDrawn(r, doc), NEW i \in ItemsOf(doc),
         i.tag = "subProcess"
  PROVE  Route(r, i.id) = SetToBag(From(doc, i.id)) (+) SetToBag({r.Flows[Entry(i.id)].target})
<1> DEFINE S == From(doc, i.id)
           L == S \cup {Entry(i.id)}
           to == r.Flows[Entry(i.id)].target
<1>2. /\ IsID(i.id) /\ r.Elements[i.id].Outgoing = SetToBag(L)
      /\ Entry(i.id) \in DOMAIN r.Flows /\ to.scope # <<>>
  BY DrawnSubProcess
<1>3. Entry(i.id) \notin DOMAIN r.Elements
  <2>1. Entry(i.id).suffix = "_sp_entry"
    BY <1>2, ItemIDs
  <2> QED
    BY <2>1 DEF AsDrawn, Keys, Key
<1>4. Step(r, Entry(i.id)) = to
  BY <1>2, <1>3 DEF Step
<1>5. \A f \in S : f \in DOMAIN r.Flows /\ Step(r, f) = f /\ f.scope = <<>>
  BY DrawnSteps
<1>6. to \notin S
  BY <1>2, <1>5
<1> HIDE DEF S, to
<1>7. \A f, g \in L : Step(r, f) = Step(r, g) => f = g
  BY <1>4, <1>5, <1>6
<1>8. Route(r, i.id) = SetToBag({Step(r, f) : f \in L})
  BY <1>2, <1>5, <1>7, RouteOnce
<1>9. {Step(r, f) : f \in L} = S \cup {to}
  BY <1>4, <1>5
<1>10. SetToBag(S \cup {to}) = SetToBag(S) (+) SetToBag({to})
  BY <1>6 DEF SetToBag, (+)
<1> QED
  BY <1>8, <1>9, <1>10 DEF S, to

\* An item inside of a sub-process.
LEMMA InnerItem ==
  ASSUME NEW i, WellFormed(i.items), NEW j \in ItemsOf(i.items), j.tag \in FlatTags
  PROVE  /\ IsID(j.id) /\ j.id \in DOMAIN Inner(i).Elements
         /\ Shape(Inner(i).Elements[j.id], j.tag)
         /\ j.tag = "sequenceFlow" => BagToSet(Inner(i).Elements[j.id].Outgoing) = {Synthetic(j.id)}
         /\ j.tag # "sequenceFlow" =>
              BagToSet(Inner(i).Elements[j.id].Outgoing) = From(i.items, j.id)
<1>1. Done(Inner(i), i.items, FlatTags)
  BY InnerParts
<1>2. PICK m \in 1..Len(i.items) : j = i.items[m]
  BY ItemOfIndex
<1>3. /\ IsID(j.id) /\ j.id \in DOMAIN Inner(i).Elements
      /\ Shape(Inner(i).Elements[j.id], j.tag)
      /\ Inner(i).Elements[j.id].Outgoing =
           SetToBag(IF j.tag = "sequenceFlow" THEN {Synthetic(j.id)} ELSE Leaving(i.items, j))
  BY <1>1, <1>2, ItemFacts DEF Done, DoneElements
<1>4. j.tag # "subProcess"
  BY DEF FlatTags, EventTags, GatewayTags, TaskTags
<1>5. Leaving(i.items, j) = From(i.items, j.id)
  BY <1>4 DEF Leaving
<1>6. \A S : BagToSet(SetToBag(S)) = S
  BY DEF BagToSet, SetToBag
<1>7. ASSUME j.tag = "sequenceFlow"
      PROVE  BagToSet(Inner(i).Elements[j.id].Outgoing) = {Synthetic(j.id)}
  BY <1>3, <1>6, <1>7
<1>8. ASSUME j.tag # "sequenceFlow"
      PROVE  BagToSet(Inner(i).Elements[j.id].Outgoing) = From(i.items, j.id)
  BY <1>3, <1>5, <1>6, <1>8
<1> QED
  BY <1>3, <1>7, <1>8

\* What an end event inside of a sub-process lists is drawn from it.
LEMMA EndLeaves ==
  ASSUME NEW i, WellFormed(i.items), NEW e \in EndEvents(Inner(i))
  PROVE  /\ e \in DOMAIN Inner(i).Elements /\ IsID(e)
         /\ BagToSet(Inner(i).Elements[e].Outgoing) = From(i.items, e)
<1>1. e \in DOMAIN Inner(i).Elements /\ Inner(i).Elements[e].Type = "endEvent"
  BY DEF EndEvents
<1>2. IsID(e) /\ Done(Inner(i), i.items, FlatTags)
  BY <1>1, InnerParts
<1>3. PICK m \in 1..Len(i.items) : e = i.items[m].id /\ i.items[m].tag \in FlatTags
  <2>1. e.scope = <<>>
    BY <1>2, ItemIDs
  <2> QED
    BY <1>1, <1>2, <2>1 DEF Done, DoneElements
<1>4. PICK j : j = i.items[m]
  OBVIOUS
<1>5. /\ j \in ItemsOf(i.items) /\ e = j.id /\ j.tag \in FlatTags
      /\ Shape(Inner(i).Elements[j.id], j.tag)
  BY <1>2, <1>3, <1>4, ItemFacts DEF Done, DoneElements
<1>6. j.tag # "sequenceFlow"
  BY <1>1, <1>5 DEF Shape
<1>7. BagToSet(Inner(i).Elements[j.id].Outgoing) = From(i.items, j.id)
  BY <1>5, <1>6, InnerItem
<1> QED
  BY <1>1, <1>2, <1>5, <1>7

\* The exits of an end event of a sub-process.
ExitsAt(r, i, e) == r.Elements[Prefixed(i.id, e)].ExitFlows

\* The end events of a sub-process that lead out of it.
WaysOut(r, i) == {e \in EndEvents(Inner(i)) : ExitsAt(r, i, e) # {}}

LEMMA OneEnd ==
  ASSUME NEW doc, IsDocument(doc), NEW r, AsDrawn(r, doc), NEW i \in ItemsOf(doc),
         i.tag = "subProcess"
  PROVE  /\ EndEvents(Inner(i)) # {} /\ From(doc, i.id) # {} => Cardinality(WaysOut(r, i)) = 1
         /\ \A e \in WaysOut(r, i) :
              ExitsAt(r, i, e) = Both(i.id, From(i.items, e)) \cup From(doc, i.id)
<1> DEFINE ends == EndEvents(Inner(i))
           out == From(doc, i.id)
<1>1. WellFormed(doc) /\ WellFormed(i.items)
  BY DEF IsDocument
<1>2. PICK m \in 1..Len(doc) : i = doc[m]
  BY <1>1, ItemOfIndex
<1>3. PICK end \in FirstEnd(i) : LeftBy(r, i, end, out)
  BY <1>2 DEF AsDrawn, InsideExits
<1>4. ASSUME ends # {}
      PROVE  \E first \in ends : end = Prefixed(i.id, first)
  BY <1>3, <1>4 DEF FirstEnd, Inner
<1>5. ASSUME NEW first \in ends, end = Prefixed(i.id, first)
      PROVE  /\ ExitsAt(r, i, first) = Both(i.id, From(i.items, first)) \cup out
             /\ \A e \in ends : e # first => ExitsAt(r, i, e) = {}
  <2>1. ExitsAt(r, i, first) = Both(i.id, From(i.items, first)) \cup out
    BY <1>1, <1>3, <1>5, EndLeaves DEF LeftBy, ExitsAt
  <2>2. ASSUME NEW e \in ends, e # first
        PROVE  ExitsAt(r, i, e) = {}
    <3>1. Plain(e) /\ Plain(first)
      BY <1>1, EndLeaves, ItemIDs
    <3>2. Prefixed(i.id, e) # end
      BY <1>5, <2>2, <3>1, SamePrefixed
    <3>3. e \in DOMAIN Inner(i).Elements
      BY <1>1, EndLeaves
    <3> QED
      BY <1>3, <3>2, <3>3 DEF LeftBy, ExitsAt
  <2> QED
    BY <2>1, <2>2
<1> HIDE DEF ends, out
<1>6. ASSUME ends # {}, out # {}
      PROVE  Cardinality(WaysOut(r, i)) = 1
  <2>1. PICK first \in ends : end = Prefixed(i.id, first)
    BY <1>4, <1>6
  <2>2. WaysOut(r, i) = {first}
    BY <1>5, <1>6, <2>1 DEF WaysOut, ends
  <2> QED
    BY <2>2, FS_Singleton
<1>7. ASSUME NEW e \in WaysOut(r, i)
      PROVE  ExitsAt(r, i, e) = Both(i.id, From(i.items, e)) \cup out
  <2>1. e \in ends /\ ExitsAt(r, i, e) # {}
    BY DEF WaysOut, ends
  <2>2. PICK first \in ends : end = Prefixed(i.id, first)
    BY <1>4, <2>1
  <2>3. e = first
    BY <1>5, <2>1, <2>2
  <2> QED
    BY <1>5, <2>2, <2>3
<1> QED
  BY <1>6, <1>7 DEF ends, out

----------------------------------------------------------------------------
(* Calls.                                                                  *)

\* A process without prefixes, as it is stored to be called.
Callee(p) ==
  /\ DOMAIN p = ProcessFields
  /\ \A x \in DOMAIN p.Elements : IsID(x)
  /\ \A x \in DOMAIN p.Flows : Plain(x)

LEMMA NothingCalled == Callee(NewProcess)
BY DEF NewProcess, ProcessFields, Callee

LEMMA GatewaysOnly ==
  ASSUME NEW r, DOMAIN r = ProcessFields
  PROVE  LET w == GatewayConditions(r) IN
         /\ DOMAIN w = ProcessFields /\ w.Flows = r.Flows
         /\ DOMAIN w.Elements = DOMAIN r.Elements
BY DEF GatewayConditions, ProcessFields

LEMMA ParsedToBeCalled ==
  ASSUME NEW doc, WellFormed(doc)
  PROVE  Callee(ParsedFlat(doc))
<1>1. PICK i : i = [items |-> doc]
  OBVIOUS
<1>2. i.items = doc
  BY <1>1
<1>3. ParsedFlat(doc) = GatewayConditions(Inner(i))
  BY <1>2 DEF ParsedFlat, Inner, parseSubProcessXML
<1>4. /\ DOMAIN Inner(i) = ProcessFields
      /\ \A x \in DOMAIN Inner(i).Elements : IsID(x)
      /\ \A x \in DOMAIN Inner(i).Flows : Plain(x)
  BY <1>2, InnerParts DEF Done
<1> QED
  BY <1>3, <1>4, GatewaysOnly DEF Callee

LEMMA StaysCallable ==
  ASSUME NEW p, Callee(p), NEW prefix
  PROVE  Callee(RenamedLists(prefix, p))
<1> DEFINE w == RenamedLists(prefix, p)
<1>1. DOMAIN w = ProcessFields /\ w.Flows = p.Flows /\ DOMAIN w.Elements = DOMAIN p.Elements
  BY DEF Callee, ProcessFields, RenamedLists
<1> QED
  BY <1>1 DEF Callee

\* The prefix of a call is that of no sub-process.
LEMMA CallPrefixes ==
  ASSUME NEW doc, WellFormed(doc), NEW e, Key(e), NEW x, Plain(x)
  PROVE  ~Given(doc, Prefixed(CallPrefix(e), x)) /\ Prefixed(CallPrefix(e), x).scope # <<>>
<1>1. PICK p : p = CallPrefix(e)
  OBVIOUS
<1>2. p.suffix = "ca-"
  <2>1. e = [scope |-> e.scope, name |-> e.name, suffix |-> e.suffix]
    BY DEF Key
  <2> QED
    BY <1>1, <2>1 DEF CallPrefix
<1>3. Prefixed(p, x).scope = <<p>> /\ Prefixed(p, x).scope # <<>>
  BY PrefixedIDs
<1>4. ASSUME NEW m \in 1..Len(doc)
      PROVE  Prefixed(p, x).scope # <<doc[m].id>>
  <2>1. doc[m].id.suffix = ""
    BY ItemFacts, ItemIDs
  <2>2. p # doc[m].id
    BY <1>2, <2>1
  <2> QED
    BY <1>3, <2>2
<1> QED
  BY <1>1, <1>3, <1>4 DEF Given

\* Nor is an element of the document one of a called process.
LEMMA GivenNotCalled ==
  ASSUME NEW doc, WellFormed(doc), NEW e, Given(doc, e)
  PROVE  ~IsCalled(e)
<1>1. CASE e.scope = <<>>
  BY <1>1 DEF IsCalled
<1>2. ASSUME NEW m \in 1..Len(doc), e.scope = <<doc[m].id>>
      PROVE  ~IsCalled(e)
  <2>1. doc[m].id.suffix = ""
    BY ItemFacts, ItemIDs
  <2>2. Head(e.scope) = doc[m].id
    BY <1>2
  <2> QED
    BY <2>1, <2>2 DEF IsCalled
<1> QED
  BY <1>1, <1>2 DEF Given

\* The elements, and the flows, of the calling process after a call.
LEMMA CallElements ==
  ASSUME NEW r, DOMAIN r = ProcessFields, NEW p, NEW e, NEW end
  PROVE  LET w == Flattened(r, p, e, end)
             new == {Prefixed(CallPrefix(e), x) : x \in DOMAIN p.Elements}
         IN
         /\ DOMAIN w = ProcessFields
         /\ DOMAIN w.Elements = new \cup DOMAIN r.Elements
         /\ \A y \in DOMAIN r.Elements :
              y \notin new /\ (shared => ~IsCalled(y)) => w.Elements[y] = r.Elements[y]
         /\ \A y \in new :
              w.Elements[y] = IF y = end
                              THEN WithExits(p.Elements[Inside(y)], ExitFlows(r.Elements[e]))
                              ELSE p.Elements[Inside(y)]
<1> DEFINE prefix == CallPrefix(e)
           new == {Prefixed(prefix, x) : x \in DOMAIN p.Elements}
           elements == [q \in new |->
                          IF q = end THEN WithExits(p.Elements[Inside(q)], ExitFlows(r.Elements[e]))
                          ELSE p.Elements[Inside(q)]]
           flows == Over([x \in {Prefixed(prefix, ID("entry"))} |->
                            Flow(e, Prefixed(prefix, p.Start), FALSE)],
                         Over(CalledFlows(prefix, p), r.Flows))
           w == Flattened(r, p, e, end)
<1>1. w = [r EXCEPT !.Elements = Over(elements, Following(p, r)), !.Flows = flows]
  BY DEF Flattened
<1>2. /\ DOMAIN elements = new
      /\ \A y \in new :
           elements[y] = IF y = end THEN WithExits(p.Elements[Inside(y)], ExitFlows(r.Elements[e]))
                         ELSE p.Elements[Inside(y)]
  OBVIOUS
<1> HIDE DEF elements, flows, w, new
<1>3. DOMAIN w = ProcessFields /\ w.Elements = Over(elements, Following(p, r))
  BY <1>1 DEF ProcessFields
<1>4. DOMAIN w.Elements = new \cup DOMAIN r.Elements
  BY <1>2, <1>3 DEF Over, Following
<1>5. ASSUME NEW y \in DOMAIN r.Elements, y \notin new, shared => ~IsCalled(y)
      PROVE  w.Elements[y] = r.Elements[y]
  <2>1. Following(p, r)[y] = r.Elements[y] /\ y \in DOMAIN Following(p, r)
    BY <1>5 DEF Following
  <2> QED
    BY <1>2, <1>3, <1>5, <2>1 DEF Over
<1>6. \A y \in new : w.Elements[y] = elements[y]
  BY <1>2, <1>3 DEF Over
<1>7. \A y \in new :
        w.Elements[y] = IF y = end THEN WithExits(p.Elements[Inside(y)], ExitFlows(r.Elements[e]))
                        ELSE p.Elements[Inside(y)]
  BY <1>2, <1>6
<1> QED
  BY <1>3, <1>4, <1>5, <1>7 DEF w, new, prefix

LEMMA CallFlows ==
  ASSUME NEW r, DOMAIN r = ProcessFields, NEW p, NEW e, NEW end
  PROVE  LET w == Flattened(r, p, e, end)
             new == {Prefixed(CallPrefix(e), ID("entry"))}
                      \cup {Prefixed(CallPrefix(e), x) : x \in DOMAIN p.Flows}
         IN
         /\ DOMAIN w.Flows = new \cup DOMAIN r.Flows
         /\ \A f \in DOMAIN r.Flows : f \notin new => w.Flows[f] = r.Flows[f]
<1> DEFINE prefix == CallPrefix(e)
           entry == [x \in {Prefixed(prefix, ID("entry"))} |->
                       Flow(e, Prefixed(prefix, p.Start), FALSE)]
           flows == CalledFlows(prefix, p)
           w == Flattened(r, p, e, end)
<1>1. PICK elements : w = [r EXCEPT !.Elements = elements, !.Flows = Over(entry, Over(flows, @))]
  BY DEF Flattened
<1>2. /\ DOMAIN entry = {Prefixed(prefix, ID("entry"))}
      /\ DOMAIN flows = {Prefixed(prefix, x) : x \in DOMAIN p.Flows}
  BY DEF CalledFlows
<1> HIDE DEF entry, flows, w
<1>3. w.Flows = Over(entry, Over(flows, r.Flows))
  BY <1>1 DEF ProcessFields
<1>4. /\ DOMAIN w.Flows = DOMAIN entry \cup DOMAIN flows \cup DOMAIN r.Flows
      /\ \A f \in DOMAIN r.Flows :
           f \notin DOMAIN entry \cup DOMAIN flows => w.Flows[f] = r.Flows[f]
  BY <1>3 DEF Over
<1> HIDE DEF prefix
<1> QED
  BY <1>2, <1>4 DEF w, prefix

\* A call leaves the calling process drawn as it was.
LEMMA CallKeepsDrawing ==
  ASSUME NEW doc, IsDocument(doc), NEW r, AsDrawn(r, doc), NEW p, Callee(p),
         NEW e \in DOMAIN r.Elements, NEW end
  PROVE  AsDrawn(Flattened(r, p, e, end), doc)
<1> DEFINE w == Flattened(r, p, e, end)
           elements == {Prefixed(CallPrefix(e), x) : x \in DOMAIN p.Elements}
           flows == {Prefixed(CallPrefix(e), ID("entry"))}
                      \cup {Prefixed(CallPrefix(e), x) : x \in DOMAIN p.Flows}
<1>1. DOMAIN r = ProcessFields /\ Keys(r) /\ WellFormed(doc) /\ Key(e)
  BY DEF AsDrawn, IsDocument, Keys
<1>2. ASSUME NEW y \in elements
      PROVE  ~Given(doc, y) /\ y.scope # <<>> /\ Key(y)
  <2>1. PICK x \in DOMAIN p.Elements : y = Prefixed(CallPrefix(e), x)
    OBVIOUS
  <2>2. IsID(x) /\ Plain(x)
    BY ItemIDs DEF Callee
  <2> QED
    BY <1>1, <2>1, <2>2, CallPrefixes, PrefixedKeys
<1>3. ASSUME NEW y \in flows
      PROVE  ~Given(doc, y) /\ y.scope # <<>>
  <2>1. PICK x : y = Prefixed(CallPrefix(e), x) /\ (x = ID("entry") \/ x \in DOMAIN p.Flows)
    OBVIOUS
  <2>2. Plain(ID("entry"))
    BY DEF ID, Plain
  <2>3. Plain(x)
    BY <2>1, <2>2 DEF Callee
  <2> QED
    BY <1>1, <2>1, <2>3, CallPrefixes
<1>4. /\ DOMAIN w = ProcessFields /\ DOMAIN w.Elements = elements \cup DOMAIN r.Elements
      /\ \A y \in DOMAIN r.Elements :
           y \notin elements /\ ~IsCalled(y) => w.Elements[y] = r.Elements[y]
  BY <1>1, CallElements
<1>5. /\ DOMAIN w.Flows = flows \cup DOMAIN r.Flows
      /\ \A f \in DOMAIN r.Flows : f \notin flows => w.Flows[f] = r.Flows[f]
  BY <1>1, CallFlows
<1> HIDE DEF w, elements, flows
<1>6. Keys(w)
  BY <1>1, <1>2, <1>4 DEF Keys
<1>7. \A y \in DOMAIN r.Elements : Given(doc, y) => w.Elements[y] = r.Elements[y]
  BY <1>1, <1>2, <1>4, GivenNotCalled
<1>8. \A f \in DOMAIN r.Flows : Given(doc, f) => w.Flows[f] = r.Flows[f]
  BY <1>3, <1>5
<1>9. /\ \A y \in DOMAIN w.Elements : y.scope = <<>> => y \in DOMAIN r.Elements
      /\ \A f \in DOMAIN w.Flows : f.scope = <<>> => f \in DOMAIN r.Flows
      /\ DOMAIN r.Elements \subseteq DOMAIN w.Elements /\ DOMAIN r.Flows \subseteq DOMAIN w.Flows
  BY <1>2, <1>3, <1>4, <1>5
<1>10. AsDrawn(w, doc)
  BY <1>4, <1>6, <1>7, <1>8, <1>9, StillDrawn
<1> QED
  BY <1>10 DEF w

----------------------------------------------------------------------------
(* The inductive invariant.                                                *)

\* What Parse has made of the document so far.
ParseInvariant ==
  /\ document \in Documents
  /\ phase \in {"items", "synthetic", "exits", "conditions", "parsed"}
  /\ read \in 0..Len(document)
  /\ phase = "items" => ItemsRead(process, document, read)
  /\ phase = "synthetic" => AllWired(process, document)
  /\ phase = "exits" => AllDone(process, document)
  /\ phase = "conditions" => Elementary(process) /\ AsDrawn(process, document)
  /\ phase = "parsed" => AsDrawn(process, document)

\* What the cases work on: with a store that hands out copies, each on its own.
RunInvariant ==
  /\ shared \in BOOLEAN /\ Callee(called)
  /\ DOMAIN own = Cases /\ DOMAIN work = Cases /\ DOMAIN status = Cases
  /\ \A c \in Cases : status[c] = "none" => work[c] = EmptyBag
  /\ \A c \in Cases : status[c] # "none" =>
       Walks /\ (~shared => AsDrawn(own[c], document))

DrawnInvariant == ParseInvariant /\ RunInvariant

LEMMA DrawnAtFirst == CallInit => DrawnInvariant
<1> SUFFICES ASSUME CallInit PROVE DrawnInvariant
  OBVIOUS
<1>1. document \in Documents /\ process = NewProcess /\ phase = "items" /\ read = 0
  BY DEF CallInit, Init
<1>2. ItemsRead(process, document, read)
  BY <1>1, FirstItemRead
<1>3. Len(document) \in Nat
  BY <1>1, DocumentAssumption DEF IsDocument, WellFormed
<1>4. ParseInvariant
  BY <1>1, <1>2, <1>3 DEF ParseInvariant
<1>5. Callee(called)
  <2>1. CASE document \in Deployed
    <3>1. PICK doc \in CalledDocuments : called = ParsedFlat(doc)
      BY <2>1 DEF CallInit
    <3> QED
      BY <3>1, CallAssumption, ParsedToBeCalled
  <2>2. CASE document \notin Deployed
    BY <2>2, NothingCalled DEF CallInit
  <2> QED
    BY <2>1, <2>2
<1>6. /\ shared \in BOOLEAN
      /\ DOMAIN own = Cases /\ DOMAIN work = Cases /\ DOMAIN status = Cases
      /\ \A c \in Cases : status[c] = "none" /\ work[c] = EmptyBag
  BY DEF CallInit
<1>7. RunInvariant
  BY <1>5, <1>6 DEF RunInvariant
<1> QED
  BY <1>4, <1>7 DEF DrawnInvariant

\* Parse.
LEMMA ParseKeeps ==
  ASSUME DrawnInvariant, Parse, UNCHANGED <<shared, callVars>>
  PROVE  DrawnInvariant'
<1>1. document \in Documents /\ IsDocument(document) /\ WellFormed(document) /\ Len(document) \in Nat
  BY DocumentAssumption DEF DrawnInvariant, ParseInvariant, IsDocument, WellFormed
<1>2. document' = document /\ phase # "parsed" /\ read \in 0..Len(document)
  BY DEF DrawnInvariant, ParseInvariant, Parse, ParseItem, WireFlows, AddSyntheticFlows, RouteExits,
         CollectConditions, Then
<1>3. RunInvariant'
  <2>1. UNCHANGED <<shared, called, own, work, status>>
    BY DEF callVars
  <2>2. \A c \in Cases : status[c] = "none"
    BY <1>2 DEF DrawnInvariant, RunInvariant, Walks, Parsed
  <2> QED
    BY <2>1, <2>2 DEF DrawnInvariant, RunInvariant
<1>4. ASSUME ParseItem
      PROVE  ParseInvariant'
  <2>1. /\ read < Len(document) /\ read' = read + 1 /\ phase = "items" /\ phase' = "items"
        /\ ItemsRead(process, document, read)
    BY <1>4 DEF ParseItem, DrawnInvariant, ParseInvariant
  <2>2. PICK i : i = document[read + 1]
    OBVIOUS
  <2>3. read \in Nat /\ read + 1 \in 0..Len(document) /\ i = item
    BY <1>1, <1>2, <2>1, <2>2 DEF item
  <2>4. ASSUME i.tag = "subProcess"
        PROVE  ItemsRead(process', document, read + 1)
    <3>1. PICK end \in FirstEnd(i) : process' = flattenSubProcess(process, i, end)
      BY <1>4, <2>3, <2>4 DEF ParseItem
    <3>2. ItemsRead(flattenSubProcess(process, i, end), document, read + 1)
      BY <1>1, <2>1, <2>2, <2>3, <2>4, FlattenedItemRead
    <3> QED
      BY <3>1, <3>2
  <2>5. ASSUME i.tag # "subProcess"
        PROVE  ItemsRead(process', document, read + 1)
    <3>1. process' = ReadItem(process, i)
      BY <1>4, <2>3, <2>5 DEF ParseItem
    <3>2. ItemsRead(ReadItem(process, i), document, read + 1)
      BY <1>1, <2>1, <2>2, <2>3, <2>5, PlainItemRead
    <3> QED
      BY <3>1, <3>2
  <2>6. ItemsRead(process', document', read')
    BY <1>2, <2>1, <2>4, <2>5
  <2> QED
    BY <1>1, <1>2, <2>1, <2>3, <2>6 DEF ParseInvariant
<1>5. ASSUME WireFlows
      PROVE  ParseInvariant'
  <2>1. /\ phase' = "synthetic" /\ read' = read /\ process' = wireFlows(process)
        /\ ItemsRead(process, document, Len(document))
    BY <1>5 DEF WireFlows, Then, DrawnInvariant, ParseInvariant
  <2>2. AllWired(wireFlows(process), document)
    BY <1>1, <2>1, ItemsWired
  <2>3. AllWired(process', document')
    BY <1>2, <2>1, <2>2
  <2> QED
    BY <1>1, <1>2, <2>1, <2>3 DEF ParseInvariant
<1>6. ASSUME AddSyntheticFlows
      PROVE  ParseInvariant'
  <2>1. /\ phase' = "exits" /\ read' = read /\ process' = SyntheticFlows(process)
        /\ AllWired(process, document)
    BY <1>6 DEF AddSyntheticFlows, Then, DrawnInvariant, ParseInvariant
  <2>2. AllDone(SyntheticFlows(process), document)
    BY <1>1, <2>1, WiredDone
  <2>3. AllDone(process', document')
    BY <1>2, <2>1, <2>2
  <2> QED
    BY <1>1, <1>2, <2>1, <2>3 DEF ParseInvariant
<1>7. ASSUME RouteExits
      PROVE  ParseInvariant'
  <2>1. /\ phase' = "conditions" /\ read' = read /\ process' = ExitRouting(process)
        /\ AllDone(process, document)
    BY <1>7 DEF RouteExits, Then, DrawnInvariant, ParseInvariant
  <2>2. Elementary(ExitRouting(process)) /\ AsDrawn(ExitRouting(process), document)
    BY <1>1, <2>1, ExitsRouted
  <2>3. Elementary(process') /\ AsDrawn(process', document')
    BY <1>2, <2>1, <2>2
  <2> QED
    BY <1>1, <1>2, <2>1, <2>3 DEF ParseInvariant
<1>8. ASSUME CollectConditions
      PROVE  ParseInvariant'
  <2>1. /\ phase' = "parsed" /\ read' = read /\ process' = GatewayConditions(process)
        /\ Elementary(process) /\ AsDrawn(process, document)
    BY <1>8 DEF CollectConditions, Then, DrawnInvariant, ParseInvariant
  <2>2. AsDrawn(GatewayConditions(process), document)
    BY <1>1, <2>1, ConditionsCollected
  <2>3. AsDrawn(process', document')
    BY <1>2, <2>1, <2>2
  <2> QED
    BY <1>1, <1>2, <2>1, <2>3 DEF ParseInvariant
<1> QED
  BY <1>3, <1>4, <1>5, <1>6, <1>7, <1>8 DEF Parse, DrawnInvariant

\* A step of one case.
LEMMA CaseStep ==
  ASSUME DrawnInvariant, UNCHANGED <<document, phase, read, shared>>, Walks, NEW c \in Cases,
         AsDrawn(process', document), Callee(called'),
         DOMAIN own' = Cases, DOMAIN work' = Cases, DOMAIN status' = Cases,
         \A d \in Cases \ {c} :
           own'[d] = own[d] /\ work'[d] = work[d] /\ status'[d] = status[d],
         status'[c] # "none", ~shared => AsDrawn(own'[c], document)
  PROVE  DrawnInvariant'
<1>1. phase = "parsed" /\ document \in Documents /\ read \in 0..Len(document)
  BY DEF Walks, Parsed, DrawnInvariant, ParseInvariant
<1>2. ParseInvariant'
  BY <1>1 DEF ParseInvariant
<1>3. Walks'
  BY DEF Walks, Parsed
<1>4. \A d \in Cases : status'[d] = "none" => work'[d] = EmptyBag
  BY DEF DrawnInvariant, RunInvariant
<1>5. \A d \in Cases : status'[d] # "none" /\ ~shared' => AsDrawn(own'[d], document')
  BY DEF DrawnInvariant, RunInvariant
<1> QED
  BY <1>2, <1>3, <1>4, <1>5 DEF DrawnInvariant, RunInvariant

\* A step that leaves the processes alone.
LEMMA PlainStep ==
  ASSUME DrawnInvariant, UNCHANGED <<document, phase, read, shared>>, NEW c \in Cases,
         UNCHANGED <<process, called, own>>, status[c] # "none",
         NEW next, work' = [work EXCEPT ![c] = next],
         DOMAIN status' = Cases, status'[c] # "none",
         \A d \in Cases \ {c} : status'[d] = status[d]
  PROVE  DrawnInvariant'
<1>1. /\ Walks /\ Callee(called) /\ (~shared => AsDrawn(own[c], document))
      /\ DOMAIN own = Cases /\ DOMAIN work = Cases
  BY DEF DrawnInvariant, RunInvariant
<1>2. AsDrawn(process, document)
  BY <1>1 DEF Walks, Parsed, DrawnInvariant, ParseInvariant
<1>3. /\ DOMAIN own' = Cases /\ DOMAIN work' = Cases
      /\ \A d \in Cases \ {c} : own'[d] = own[d] /\ work'[d] = work[d]
  BY <1>1
<1> QED
  BY <1>1, <1>2, <1>3, CaseStep

LEMMA LostKeeps ==
  ASSUME DrawnInvariant, UNCHANGED <<document, phase, read, shared>>, NEW c \in Cases,
         UNCHANGED <<process, called, own>>, status[c] # "none", Lost(c)
  PROVE  DrawnInvariant'
<1>1. status' = status /\ DOMAIN status = Cases /\ work' = [work EXCEPT ![c] = EmptyBag]
  BY DEF Lost, DrawnInvariant, RunInvariant
<1> QED
  BY <1>1, PlainStep

LEMMA RunLeftKeeps ==
  ASSUME DrawnInvariant, UNCHANGED <<document, phase, read, shared>>, NEW c \in Cases,
         UNCHANGED <<process, called, own>>, status[c] # "none",
         NEW left, NEW state, state # "none", RunLeft(c, left, state)
  PROVE  DrawnInvariant'
<1>1. /\ work' = [work EXCEPT ![c] = left] /\ status' = [status EXCEPT ![c] = state]
      /\ DOMAIN status = Cases
  BY DEF RunLeft, DrawnInvariant, RunInvariant
<1>2. /\ DOMAIN status' = Cases /\ status'[c] # "none"
      /\ \A d \in Cases \ {c} : status'[d] = status[d]
  BY <1>1
<1> QED
  BY <1>1, <1>2, PlainStep

LEMMA StartKeeps ==
  ASSUME DrawnInvariant, UNCHANGED <<document, phase, read, shared>>, NEW c \in Cases, Start(c)
  PROVE  DrawnInvariant'
<1>1. /\ Walks /\ Callee(called)
      /\ DOMAIN own = Cases /\ DOMAIN work = Cases /\ DOMAIN status = Cases
  BY DEF Start, DrawnInvariant, RunInvariant
<1>2. AsDrawn(process, document)
  BY <1>1 DEF Walks, Parsed, DrawnInvariant, ParseInvariant
<1>3. /\ process' = process /\ called' = called
      /\ own' = IF shared THEN own ELSE [own EXCEPT ![c] = process]
      /\ work' = [work EXCEPT ![c] = SetToBag({process.Start})]
      /\ status' = [status EXCEPT ![c] = "IN_PROGRESS"]
  BY DEF Start
<1>4. /\ DOMAIN own' = Cases /\ DOMAIN work' = Cases /\ DOMAIN status' = Cases
      /\ \A d \in Cases \ {c} :
           own'[d] = own[d] /\ work'[d] = work[d] /\ status'[d] = status[d]
      /\ status'[c] # "none"
      /\ ~shared => own'[c] = process
  BY <1>1, <1>3
<1> QED
  BY <1>1, <1>2, <1>3, <1>4, CaseStep

LEMMA ResumeKeeps ==
  ASSUME DrawnInvariant, UNCHANGED <<document, phase, read, shared>>, NEW c \in Cases, Resume(c)
  PROVE  DrawnInvariant'
<1>1. status[c] # "none" /\ process' = process /\ called' = called
  BY DEF Resume
<1>2. /\ Walks /\ Callee(called) /\ (~shared => AsDrawn(own[c], document))
      /\ DOMAIN own = Cases /\ DOMAIN work = Cases /\ DOMAIN status = Cases
  BY <1>1 DEF DrawnInvariant, RunInvariant
<1>3. AsDrawn(process, document)
  BY <1>2 DEF Walks, Parsed, DrawnInvariant, ParseInvariant
<1>4. CASE own' = own /\ work' = work /\ status' = status
  BY <1>1, <1>2, <1>3, <1>4, CaseStep
<1>5. CASE ~(own' = own /\ work' = work /\ status' = status)
  <2>1. PICK left :
          /\ own' = IF shared THEN own ELSE [own EXCEPT ![c] = process]
          /\ work' = [work EXCEPT ![c] = left] /\ status' = [status EXCEPT ![c] = "IN_PROGRESS"]
    BY <1>5 DEF Resume, RunLeft
  <2>2. /\ DOMAIN own' = Cases /\ DOMAIN work' = Cases /\ DOMAIN status' = Cases
        /\ \A d \in Cases \ {c} :
             own'[d] = own[d] /\ work'[d] = work[d] /\ status'[d] = status[d]
        /\ status'[c] # "none"
        /\ ~shared => own'[c] = process
    BY <1>2, <2>1
  <2> QED
    BY <1>1, <1>2, <1>3, <2>2, CaseStep
<1> QED
  BY <1>4, <1>5

LEMMA CallKeeps ==
  ASSUME DrawnInvariant, UNCHANGED <<document, phase, read, shared>>, NEW c \in Cases,
         status[c] # "none", NEW e \in DOMAIN ProcessOf(c).Elements, Calls(c, e)
  PROVE  DrawnInvariant'
<1>1. /\ Walks /\ Callee(called) /\ shared \in BOOLEAN /\ (~shared => AsDrawn(own[c], document))
      /\ DOMAIN own = Cases /\ DOMAIN work = Cases /\ DOMAIN status = Cases
  BY DEF DrawnInvariant, RunInvariant
<1>2. AsDrawn(process, document) /\ IsDocument(document)
  BY <1>1, DocumentAssumption DEF Walks, Parsed, DrawnInvariant, ParseInvariant
<1>3. PICK p : p = ProcessOf(c)
  OBVIOUS
<1>4. AsDrawn(p, document)
  BY <1>1, <1>2, <1>3 DEF ProcessOf
<1>5. PICK renamed : renamed = RenamedLists(CallPrefix(e), called)
  OBVIOUS
<1>6. Callee(renamed)
  BY <1>1, <1>5, StaysCallable
<1>7. PICK end \in CalledEnd(e) : /\ Replace(c, Flattened(p, renamed, e, end))
                                  /\ called' = IF shared THEN renamed ELSE called
  BY <1>3, <1>5 DEF Calls
<1>8. PICK w : w = Flattened(p, renamed, e, end)
  OBVIOUS
<1>9. AsDrawn(w, document)
  BY <1>2, <1>3, <1>4, <1>6, <1>8, CallKeepsDrawing
<1>10. /\ Replace(c, w) /\ Callee(called')
  BY <1>1, <1>6, <1>7, <1>8
<1>11. /\ AsDrawn(process', document) /\ DOMAIN own' = Cases
       /\ \A d \in Cases \ {c} : own'[d] = own[d]
       /\ ~shared => AsDrawn(own'[c], document)
  <2>1. CASE shared
    BY <1>1, <1>9, <1>10, <2>1 DEF Replace
  <2>2. CASE ~shared
    <3>1. own' = [own EXCEPT ![c] = w] /\ process' = process
      BY <1>10, <2>2 DEF Replace
    <3> QED
      BY <1>1, <1>2, <1>9, <2>2, <3>1
  <2> QED
    BY <2>1, <2>2
<1>12. /\ DOMAIN work' = Cases /\ DOMAIN status' = Cases /\ status'[c] = status[c]
       /\ \A d \in Cases \ {c} : work'[d] = work[d] /\ status'[d] = status[d]
  BY <1>1 DEF Calls, Executed, RunLeft
<1> QED
  BY <1>1, <1>10, <1>11, <1>12, CaseStep

LEMMA ExecuteKeeps ==
  ASSUME DrawnInvariant, UNCHANGED <<document, phase, read, shared>>, NEW c \in Cases,
         ExecuteElement(c)
  PROVE  DrawnInvariant'
<1>1. PICK e \in BagToSet(work[c]) :
        \/ Breaks(c, e)
        \/ /\ e \in DOMAIN ProcessOf(c).Elements
           /\ Passes(c, e) \/ Enters(c, e) \/ Ends(c, e) \/ Waits(c, e) \/ Calls(c, e)
  BY DEF ExecuteElement
<1>2. work[c] # EmptyBag
  <2>1. DOMAIN EmptyBag = {}
    BY DEF EmptyBag, SetToBag
  <2> QED
    BY <2>1 DEF BagToSet
<1>3. status[c] # "none" /\ DOMAIN status = Cases
  BY <1>2 DEF DrawnInvariant, RunInvariant
<1>4. CASE Breaks(c, e)
  BY <1>3, <1>4, LostKeeps DEF Breaks
<1>5. CASE Passes(c, e)
  BY <1>3, <1>5, RunLeftKeeps DEF Passes, Executed
<1>6. CASE Enters(c, e)
  BY <1>3, <1>6, RunLeftKeeps DEF Enters, Executed
<1>7. CASE Ends(c, e)
  <2>1. PICK left, state : RunLeft(c, left, state) /\ (state = status[c] \/ state = "COMPLETED")
    BY <1>7 DEF Ends, Executed, TryComplete
  <2> QED
    BY <1>3, <1>7, <2>1, RunLeftKeeps DEF Ends
<1>8. CASE Waits(c, e)
  <2>1. CASE IsValidTransition(status[c], "WAITING")
    BY <1>3, <1>8, <2>1, RunLeftKeeps DEF Waits, Executed
  <2>2. CASE ~IsValidTransition(status[c], "WAITING")
    BY <1>3, <1>8, <2>2, LostKeeps DEF Waits
  <2> QED
    BY <2>1, <2>2
<1>9. CASE e \in DOMAIN ProcessOf(c).Elements /\ Calls(c, e)
  BY <1>3, <1>9, CallKeeps
<1> QED
  BY <1>1, <1>4, <1>5, <1>6, <1>7, <1>8, <1>9

LEMMA AbortKeeps ==
  ASSUME DrawnInvariant, UNCHANGED <<document, phase, read, shared>>, NEW c \in Cases, Aborts(c)
  PROVE  DrawnInvariant'
<1>1. status[c] # "none"
  BY DEF Aborts, DrawnInvariant, RunInvariant
<1> QED
  BY <1>1, LostKeeps DEF Aborts

LEMMA DrawnInvariantHolds == CallSpec => []DrawnInvariant
<1>1. ASSUME DrawnInvariant, CallNext
      PROVE  DrawnInvariant'
  <2>1. CASE Parse /\ UNCHANGED <<shared, callVars>>
    BY <1>1, <2>1, ParseKeeps
  <2>2. ASSUME UNCHANGED <<document, phase, read, shared>>,
               \E c \in Cases : Start(c) \/ ExecuteElement(c) \/ Aborts(c) \/ Resume(c)
        PROVE  DrawnInvariant'
    BY <1>1, <2>2, StartKeeps, ExecuteKeeps, AbortKeeps, ResumeKeeps
  <2>3. ASSUME Rest, UNCHANGED <<document, phase, read, shared>>
        PROVE  DrawnInvariant'
    BY <1>1, <2>3
       DEF Rest, callVars, DrawnInvariant, ParseInvariant, RunInvariant, Walks, Parsed
  <2> QED
    BY <1>1, <2>1, <2>2, <2>3 DEF CallNext
<1>2. ASSUME DrawnInvariant, UNCHANGED <<vars, shared, callVars>>
      PROVE  DrawnInvariant'
  BY <1>2 DEF vars, callVars, DrawnInvariant, ParseInvariant, RunInvariant, Walks, Parsed
<1> QED
  BY <1>1, <1>2, DrawnAtFirst, PTL DEF CallSpec

----------------------------------------------------------------------------
(* The lists of the called elements, which every call renames.             *)

\* An id of any depth.
Deep(x) == DOMAIN x = {"scope", "name", "suffix"} /\ \E S : x.scope \in Seq(S)

LEMMA PlainDeep ==
  ASSUME NEW x, Plain(x)
  PROVE  Deep(x)
<1>1. x.scope = <<>>
  BY DEF Plain
<1>2. <<>> \in Seq({})
  OBVIOUS
<1>3. DOMAIN x = {"scope", "name", "suffix"}
  BY DEF Plain
<1> QED
  BY <1>1, <1>2, <1>3 DEF Deep

LEMMA DeepPrefixed ==
  ASSUME NEW x, Deep(x), NEW p
  PROVE  Deep(Prefixed(p, x)) /\ Prefixed(p, x).scope # <<>>
<1>1. PICK S : x.scope \in Seq(S)
  BY DEF Deep
<1> DEFINE T == S \cup {p}
<1>2. <<p>> \in Seq(T) /\ x.scope \in Seq(T) /\ Len(<<p>>) = 1
  BY <1>1
<1>3. PICK s : s = <<p>> \o x.scope
  OBVIOUS
<1>4. s \in Seq(T) /\ Len(s) = 1 + Len(x.scope) /\ Len(x.scope) \in Nat
  <2> HIDE DEF T
  <2> QED
    BY <1>2, <1>3, ConcatProperties, LenProperties
<1>5. s # <<>>
  <2>1. Len(s) # 0
    BY <1>4
  <2> QED
    BY <2>1, <1>4, EmptySeq
<1>6. Prefixed(p, x) = [x EXCEPT !.scope = s]
  BY <1>3 DEF Prefixed
<1>7. /\ DOMAIN Prefixed(p, x) = {"scope", "name", "suffix"}
      /\ Prefixed(p, x).scope = s
  BY <1>6 DEF Deep
<1> QED
  BY <1>4, <1>5, <1>7 DEF Deep

\* What collecting the conditions leaves of an element.
LEMMA GatewayFields ==
  ASSUME NEW r, DOMAIN r = ProcessFields, NEW x \in DOMAIN r.Elements, IsElement(r.Elements[x])
  PROVE  LET y == GatewayConditions(r).Elements[x] IN
         /\ IsElement(y) /\ y.Type = r.Elements[x].Type
         /\ y.Outgoing = r.Elements[x].Outgoing /\ y.ExitFlows = r.Elements[x].ExitFlows
<1> DEFINE w == GatewayConditions(r)
<1>1. PICK C : w.Elements[x] \in {r.Elements[x], [r.Elements[x] EXCEPT !.Conditions = C]}
  <2>1. w.Elements[x] =
          IF r.Elements[x].Type \notin GatewayTags THEN r.Elements[x]
          ELSE [r.Elements[x] EXCEPT !.Conditions = @ \cup
                  {f \in BagToSet(r.Elements[x].Outgoing) \cap DOMAIN r.Flows :
                     r.Flows[f].condition}]
    BY DEF GatewayConditions, ProcessFields
  <2> QED
    BY <2>1
<1>2. PICK y : y = [r.Elements[x] EXCEPT !.Conditions = C]
  OBVIOUS
<1>3. /\ IsElement(y) /\ y.Type = r.Elements[x].Type
      /\ y.Outgoing = r.Elements[x].Outgoing /\ y.ExitFlows = r.Elements[x].ExitFlows
  BY <1>2 DEF IsElement, ElementFields
<1> QED
  BY <1>1, <1>2, <1>3

\* Elements with lists of ids.
Listing(p) ==
  \A x \in DOMAIN p.Elements :
    IsElement(p.Elements[x]) /\ \A f \in DOMAIN p.Elements[x].Outgoing : Deep(f)

LEMMA GatewayLists ==
  ASSUME NEW r, DOMAIN r = ProcessFields, Listing(r)
  PROVE  Listing(GatewayConditions(r))
<1> DEFINE w == GatewayConditions(r)
<1>1. DOMAIN w.Elements = DOMAIN r.Elements
  BY GatewaysOnly
<1>2. \A x \in DOMAIN r.Elements :
        IsElement(w.Elements[x]) /\ w.Elements[x].Outgoing = r.Elements[x].Outgoing
  BY GatewayFields DEF Listing
<1> QED
  BY <1>1, <1>2 DEF Listing

LEMMA ParsedLists ==
  ASSUME NEW doc, WellFormed(doc)
  PROVE  Listing(ParsedFlat(doc))
<1>1. PICK i : i = [items |-> doc]
  OBVIOUS
<1>2. i.items = doc
  BY <1>1
<1>3. ParsedFlat(doc) = GatewayConditions(Inner(i))
  BY <1>2 DEF ParsedFlat, Inner, parseSubProcessXML
<1>4. PICK r : r = Inner(i)
  OBVIOUS
<1>5. /\ Done(r, doc, FlatTags)
      /\ \A x \in DOMAIN r.Elements : IsID(x) /\ IsElement(r.Elements[x])
  BY <1>2, <1>4, InnerParts
<1>6. ASSUME NEW x \in DOMAIN r.Elements, NEW f \in DOMAIN r.Elements[x].Outgoing
      PROVE  Deep(f)
  <2>1. x.scope = <<>>
    BY <1>5, <1>6, ItemIDs
  <2>2. PICK m \in 1..Len(doc) : x = doc[m].id /\ doc[m].tag \in FlatTags
    BY <1>5, <2>1 DEF Done, DoneElements
  <2>3. r.Elements[x].Outgoing =
          SetToBag(IF doc[m].tag = "sequenceFlow" THEN {Synthetic(doc[m].id)}
                   ELSE Leaving(doc, doc[m]))
    BY <1>5, <2>2 DEF Done, DoneElements
  <2>4. f \in IF doc[m].tag = "sequenceFlow" THEN {Synthetic(doc[m].id)} ELSE Leaving(doc, doc[m])
    BY <1>6, <2>3 DEF SetToBag
  <2>5. f = Synthetic(doc[m].id) \/ f = Entry(doc[m].id) \/ f \in From(doc, doc[m].id)
    BY <2>4 DEF Leaving
  <2>6. IsID(doc[m].id)
    BY ItemFacts
  <2>7. ASSUME f \in From(doc, doc[m].id)
        PROVE  IsID(f)
    BY <2>7 DEF From, FlowItems, WellFormed
  <2>8. Plain(f)
    BY <2>5, <2>6, <2>7, ItemIDs
  <2> QED
    BY <2>8, PlainDeep
<1>7. DOMAIN r = ProcessFields /\ Listing(r)
  BY <1>5, <1>6 DEF Listing, Done
<1> QED
  BY <1>3, <1>4, <1>7, GatewayLists

\* Renaming the lists of a process leaves the rest of it alone.
LEMMA RenamedFields ==
  ASSUME NEW p, DOMAIN p = ProcessFields, Listing(p), NEW prefix
  PROVE  LET w == RenamedLists(prefix, p) IN
         /\ DOMAIN w = ProcessFields /\ w.Flows = p.Flows /\ w.Start = p.Start
         /\ DOMAIN w.Elements = DOMAIN p.Elements
         /\ \A x \in DOMAIN p.Elements :
              /\ IsElement(w.Elements[x]) /\ w.Elements[x].Type = p.Elements[x].Type
              /\ w.Elements[x].ExitFlows = p.Elements[x].ExitFlows
              /\ w.Elements[x].Outgoing = Renamed(prefix, p.Elements[x].Outgoing)
<1> DEFINE w == RenamedLists(prefix, p)
<1>1. /\ DOMAIN w = ProcessFields /\ w.Flows = p.Flows /\ w.Start = p.Start
      /\ DOMAIN w.Elements = DOMAIN p.Elements
  BY DEF RenamedLists, ProcessFields
<1>2. ASSUME NEW x \in DOMAIN p.Elements
      PROVE  /\ IsElement(w.Elements[x]) /\ w.Elements[x].Type = p.Elements[x].Type
             /\ w.Elements[x].ExitFlows = p.Elements[x].ExitFlows
             /\ w.Elements[x].Outgoing = Renamed(prefix, p.Elements[x].Outgoing)
  <2>1. DOMAIN p.Elements[x] = ElementFields
    BY DEF Listing, IsElement
  <2>2. w.Elements[x] =
          [p.Elements[x] EXCEPT !.Outgoing = Renamed(prefix, p.Elements[x].Outgoing),
                                !.Incoming = Renamed(prefix, p.Elements[x].Incoming)]
    BY <2>1 DEF RenamedLists, ProcessFields, ElementFields
  <2> HIDE DEF w
  <2> QED
    BY <2>1, <2>2 DEF IsElement, ElementFields
<1> QED
  BY <1>1, <1>2

\* No renamed list has an id without a prefix.
LEMMA RenamedStay ==
  ASSUME NEW p, DOMAIN p = ProcessFields, Listing(p), NEW prefix
  PROVE  LET w == RenamedLists(prefix, p) IN
         /\ Listing(w) /\ DOMAIN w.Elements = DOMAIN p.Elements
         /\ \A x \in DOMAIN p.Elements :
              /\ w.Elements[x].Type = p.Elements[x].Type
              /\ \A f \in DOMAIN w.Elements[x].Outgoing : f.scope # <<>>
<1> DEFINE w == RenamedLists(prefix, p)
<1>1. /\ DOMAIN w.Elements = DOMAIN p.Elements
      /\ \A x \in DOMAIN p.Elements :
           /\ IsElement(w.Elements[x]) /\ w.Elements[x].Type = p.Elements[x].Type
           /\ w.Elements[x].Outgoing = Renamed(prefix, p.Elements[x].Outgoing)
  BY RenamedFields
<1> HIDE DEF w
<1>2. ASSUME NEW x \in DOMAIN p.Elements, NEW f \in DOMAIN w.Elements[x].Outgoing
      PROVE  Deep(f) /\ f.scope # <<>>
  <2>1. PICK g \in DOMAIN p.Elements[x].Outgoing : f = Prefixed(prefix, g)
    BY <1>1, <1>2 DEF Renamed
  <2>2. Deep(g)
    BY <2>1 DEF Listing
  <2> QED
    BY <2>1, <2>2, DeepPrefixed
<1>3. Listing(w)
  BY <1>1, <1>2 DEF Listing
<1> QED
  BY <1>1, <1>2, <1>3 DEF w

CalledListing == Listing(called)

LEMMA ListingHolds == CallSpec => []CalledListing
<1>1. CallInit => CalledListing
  <2> SUFFICES ASSUME CallInit PROVE Listing(called)
    BY DEF CalledListing
  <2>1. CASE document \in Deployed
    <3>1. PICK doc \in CalledDocuments : called = ParsedFlat(doc)
      BY <2>1 DEF CallInit
    <3> QED
      BY <3>1, CallAssumption, ParsedLists
  <2>2. CASE document \notin Deployed
    BY <2>2 DEF CallInit, NewProcess, Listing
  <2> QED
    BY <2>1, <2>2
<1>2. ASSUME DrawnInvariant, CalledListing, [CallNext]_<<vars, shared, callVars>>
      PROVE  CalledListing'
  <2>1. ASSUME NEW c \in Cases, NEW e, Calls(c, e)
        PROVE  \E prefix : called' \in {called, RenamedLists(prefix, called)}
    BY <2>1 DEF Calls
  <2>2. ASSUME NEW c \in Cases, ExecuteElement(c), called' # called
        PROVE  \E prefix : called' \in {called, RenamedLists(prefix, called)}
    <3>1. \E e : Calls(c, e)
      BY <2>2 DEF ExecuteElement, Breaks, Passes, Enters, Ends, Waits
    <3> QED
      BY <2>1, <3>1
  <2>3. ASSUME called' # called
        PROVE  \E c \in Cases : ExecuteElement(c)
    BY <1>2, <2>3 DEF CallNext, callVars, Start, Aborts, Resume, Rest
  <2>4. DOMAIN called = ProcessFields /\ Listing(called)
    BY <1>2 DEF DrawnInvariant, RunInvariant, Callee, CalledListing
  <2>5. \A prefix : Listing(RenamedLists(prefix, called))
    BY <2>4, RenamedStay
  <2> QED
    BY <2>2, <2>3, <2>4, <2>5 DEF CalledListing
<1> QED
  BY <1>1, <1>2, DrawnInvariantHolds, PTL DEF CallSpec

----------------------------------------------------------------------------
(* The theorems.                                                           *)

LEMMA DrawnWhenParsed ==
  ASSUME DrawnInvariant
  PROVE  /\ IsDocument(document)
         /\ Parsed => AsDrawn(process, document)
         /\ Walks => \A c \in Cases : status[c] # "none" => AsDrawn(ProcessOf(c), document)
BY DocumentAssumption DEF DrawnInvariant, ParseInvariant, RunInvariant, Parsed, Walks, ProcessOf

\* Whatever document is parsed, and whatever calls are made on the process since,
\* the engine steps outside of sub-processes as drawn: a flow is neither lost nor
\* doubled by the synthetic flows, the sub-processes or the elements of calls.
THEOREM DrawnRoutes == CallSpec => []RoutesAsDrawn
<1>1. ASSUME DrawnInvariant, Parsed, NEW i \in ItemsOf(document)
      PROVE  /\ i.tag \in NodeTags \ {"subProcess"} =>
                  Route(process, i.id) = SetToBag(From(document, i.id))
             /\ i.tag = "sequenceFlow" => Route(process, i.id) = SetToBag({i.target})
             /\ i.tag = "subProcess" =>
                  Route(process, i.id) =
                    SetToBag(From(document, i.id)) (+) SetToBag({process.Flows[Entry(i.id)].target})
  <2>1. IsDocument(document) /\ AsDrawn(process, document)
    BY <1>1, DrawnWhenParsed
  <2> QED
    BY <2>1, NodesDrawn, FlowsDrawn, SubProcessesDrawn
<1>2. DrawnInvariant => RoutesAsDrawn
  BY <1>1 DEF RoutesAsDrawn
<1> QED
  BY <1>2, DrawnInvariantHolds, PTL

\* A parallel join outside of sub-processes waits for exactly the flows drawn to
\* it, in every document and after every call.
THEOREM DrawnJoins == CallSpec => []JoinsCountDrawnFlows
<1>1. ASSUME DrawnInvariant, Parsed, NEW i \in ItemsOf(document), i.tag \in NodeTags
      PROVE  process.Elements[i.id].Incoming = SetToBag(To(document, i.id))
  <2>1. IsDocument(document) /\ AsDrawn(process, document)
    BY <1>1, DrawnWhenParsed
  <2> QED
    BY <1>1, <2>1, NodesDrawn
<1>2. DrawnInvariant => JoinsCountDrawnFlows
  BY <1>1 DEF JoinsCountDrawnFlows
<1> QED
  BY <1>2, DrawnInvariantHolds, PTL

\* Every sub-process with an end event is left through one end event only, along
\* the flows drawn from the sub-process.
THEOREM OneWayOut == CallSpec => []LeftThroughOneEnd
<1>1. ASSUME DrawnInvariant, Parsed, NEW sp \in SubProcesses
      PROVE  /\ EndEvents(Inner(sp)) # {} /\ From(document, sp.id) # {} =>
                  Cardinality(WaysOut(process, sp)) = 1
             /\ \A e \in WaysOut(process, sp) :
                  ExitsAt(process, sp, e) =
                    From(document, sp.id) \cup From(sp.items, e)
                      \cup {Prefixed(sp.id, f) : f \in From(sp.items, e)}
  <2>1. /\ IsDocument(document) /\ AsDrawn(process, document)
        /\ sp \in ItemsOf(document) /\ sp.tag = "subProcess"
    BY <1>1, DrawnWhenParsed DEF SubProcesses
  <2>2. \A e \in WaysOut(process, sp) :
          ExitsAt(process, sp, e) = Both(sp.id, From(sp.items, e)) \cup From(document, sp.id)
    BY <2>1, OneEnd
  <2> QED
    BY <2>1, <2>2, OneEnd DEF Both, Moved
<1>2. DrawnInvariant => LeftThroughOneEnd
  BY <1>1 DEF LeftThroughOneEnd, Inner, WaysOut, ExitsAt
<1> QED
  BY <1>2, DrawnInvariantHolds, PTL

\* However many call activities any number of cases execute, in any order, over
\* either store, no case ever works on a process that leads elsewhere than drawn.
THEOREM CallsLeaveTheDrawing == CallSpec => []CallsLeaveDrawnFlows
<1>1. ASSUME DrawnInvariant, Walks, NEW c \in Cases, status[c] # "none",
             NEW i \in ItemsOf(document)
      PROVE  /\ i.tag \in NodeTags \ {"subProcess"} =>
                  Route(ProcessOf(c), i.id) = SetToBag(From(document, i.id))
             /\ i.tag = "sequenceFlow" => Route(ProcessOf(c), i.id) = SetToBag({i.target})
  <2>1. IsDocument(document) /\ AsDrawn(ProcessOf(c), document)
    BY <1>1, DrawnWhenParsed
  <2> QED
    BY <2>1, NodesDrawn, FlowsDrawn
<1>2. DrawnInvariant => CallsLeaveDrawnFlows
  BY <1>1 DEF CallsLeaveDrawnFlows
<1> QED
  BY <1>2, DrawnInvariantHolds, PTL

\* Route with a filter, for flows that are listed once and are elements.
LEMMA RouteToOnce ==
  ASSUME NEW r, NEW e, NEW L, L \subseteq BagToSet(r.Elements[e].Outgoing), L \subseteq DOMAIN r.Flows,
         \A f \in L : r.Elements[e].Outgoing[f] = 1 /\ Step(r, f) = f
  PROVE  RouteTo(r, e, L) = SetToBag(L)
<1> DEFINE list == r.Elements[e].Outgoing
<1>1. BagToSet(list) \cap DOMAIN r.Flows \cap L = L
  OBVIOUS
<1>2. RouteTo(r, e, L) =
        [to \in {Step(r, f) : f \in L} |-> Listed(list, {f \in L : Step(r, f) = to})]
  BY <1>1 DEF RouteTo
<1>3. {Step(r, f) : f \in L} = L
  OBVIOUS
<1>4. ASSUME NEW to \in L
      PROVE  Listed(list, {f \in L : Step(r, f) = to}) = 1
  <2>1. {f \in L : Step(r, f) = to} = {to}
    OBVIOUS
  <2>2. Listed(list, {to}) = 1
    BY SumOne
  <2> QED
    BY <2>1, <2>2
<1> HIDE DEF list
<1> QED
  BY <1>2, <1>3, <1>4 DEF SetToBag

\* What a call makes of the called end event the map order puts first.
LEMMA CallLeadsBack ==
  ASSUME NEW doc, IsDocument(doc), NEW r, AsDrawn(r, doc), NEW i \in ItemsOf(doc),
         i.tag = "callActivity", NEW q, Callee(q), Listing(q), NEW x \in EndEvents(q),
         NEW prefix, prefix = CallPrefix(i.id), NEW p, p = RenamedLists(prefix, q),
         NEW end, end = Prefixed(prefix, x), NEW w, w = Flattened(r, p, i.id, end)
  PROVE  /\ end \in DOMAIN w.Elements /\ w.Elements[end].Type = "endEvent"
         /\ w.Elements[end].ExitFlows = From(doc, i.id)
         /\ RouteTo(w, end, From(doc, i.id)) = SetToBag(From(doc, i.id))
<1> DEFINE L == From(doc, i.id)
           exits == ExitFlows(r.Elements[i.id])
<1>1. i.tag \in OuterTags /\ i.tag # "sequenceFlow" /\ i.tag # "subProcess"
  BY DEF OuterTags, FlatTags, TaskTags
<1>2. /\ i.id \in DOMAIN r.Elements /\ r.Elements[i.id].Outgoing = SetToBag(L)
  BY <1>1, DrawnItem, DrawnNode
<1>3. ASSUME NEW f \in L
      PROVE  f.suffix = "" /\ f.scope = <<>>
  <2>1. IsID(f)
    BY <1>3 DEF From, FlowItems, IsDocument, WellFormed
  <2> QED
    BY <2>1, ItemIDs
<1>4. exits = L
  <2>1. BagToSet(r.Elements[i.id].Outgoing) = L
    BY <1>2 DEF BagToSet, SetToBag
  <2> QED
    BY <1>3, <2>1 DEF ExitFlows
<1>5. /\ Callee(p) /\ Listing(p) /\ DOMAIN p.Elements = DOMAIN q.Elements
      /\ x \in DOMAIN p.Elements /\ p.Elements[x].Type = "endEvent" /\ IsElement(p.Elements[x])
      /\ \A f \in DOMAIN p.Elements[x].Outgoing : f.scope # <<>>
  <2>1. DOMAIN q = ProcessFields /\ x \in DOMAIN q.Elements /\ q.Elements[x].Type = "endEvent"
    BY DEF Callee, EndEvents
  <2> QED
    BY <2>1, StaysCallable, RenamedStay DEF Listing
<1>6. DOMAIN r = ProcessFields /\ AsDrawn(w, doc)
  <2>1. AsDrawn(w, doc)
    BY <1>2, <1>5, CallKeepsDrawing
  <2> QED
    BY <2>1 DEF AsDrawn
<1>7. end \in DOMAIN w.Elements /\ w.Elements[end] = WithExits(p.Elements[x], L)
  <2>1. IsID(x) /\ end \in {Prefixed(CallPrefix(i.id), z) : z \in DOMAIN p.Elements}
    BY <1>5 DEF Callee
  <2>2. Inside(end) = x
    <3>1. Plain(x)
      BY <2>1, ItemIDs
    <3> QED
      BY <3>1, PrefixedIDs
  <2> HIDE DEF exits
  <2>3. /\ end \in DOMAIN w.Elements
        /\ w.Elements[end] = WithExits(p.Elements[Inside(end)], exits)
    BY <1>6, <2>1, CallElements DEF exits
  <2> QED
    BY <1>4, <2>2, <2>3
<1> HIDE DEF L, exits
<1>8. PICK list : list = p.Elements[x].Outgoing (+) SetToBag(L)
  OBVIOUS
<1>9. /\ w.Elements[end].Type = "endEvent" /\ w.Elements[end].ExitFlows = L
      /\ w.Elements[end].Outgoing = list
  <2>1. w.Elements[end] = [p.Elements[x] EXCEPT !.Outgoing = list, !.ExitFlows = L]
    BY <1>5, <1>7, <1>8 DEF WithExits, IsElement, ElementFields
  <2> QED
    BY <1>5, <2>1 DEF IsElement, ElementFields
<1>10. ASSUME NEW f \in L
       PROVE  f \in BagToSet(list) /\ list[f] = 1
  <2>1. f \notin DOMAIN p.Elements[x].Outgoing
    BY <1>3, <1>5 DEF L
  <2>2. f \in DOMAIN SetToBag(L) /\ SetToBag(L)[f] = 1
    BY DEF SetToBag
  <2> QED
    BY <1>8, <2>1, <2>2 DEF (+), BagToSet
<1>11. \A f \in L : f \in DOMAIN w.Flows /\ Step(w, f) = f
  BY <1>6, DrawnSteps DEF L
<1>12. RouteTo(w, end, L) = SetToBag(L)
  BY <1>9, <1>10, <1>11, RouteToOnce
<1> QED
  BY <1>7, <1>9, <1>12 DEF L

\* A call activity of the document that is executed.
Calling(c, i) ==
  /\ i \in ItemsOf(document) /\ i.tag = "callActivity"
  /\ i.id \in BagToSet(work[c]) /\ Calls(c, i.id)

\* A call of a process with end events leaves one of them, in the process that the
\* case works on, from where an end event leads on along every flow drawn from the
\* call activity, once, and along no other.
LeadsBack ==
  \A c \in Cases : \A i \in ItemsOf(document) :
    Calling(c, i) /\ EndEvents(called) # {} =>
      \E end \in EndEvents(called) :
        LET back == Prefixed(CallPrefix(i.id), end)
            exits == From(document, i.id)
        IN
        /\ back \in DOMAIN ProcessOf(c)'.Elements
        /\ ProcessOf(c)'.Elements[back].Type = "endEvent"
        /\ ProcessOf(c)'.Elements[back].ExitFlows = exits
        /\ RouteTo(ProcessOf(c)', back, exits) = SetToBag(exits)

\* Every call leads back when it is made (ActionCallActivity, engine.go:760),
\* whatever calls came before it and over either store: the names of the called
\* lists may have any number of prefixes by then.
THEOREM CallsLeadBack == CallSpec => [][LeadsBack]_<<vars, shared, callVars>>
<1>1. ASSUME DrawnInvariant, CalledListing, CallNext, NEW c \in Cases, NEW i,
             Calling(c, i), EndEvents(called) # {}
      PROVE  \E end \in EndEvents(called) :
               LET back == Prefixed(CallPrefix(i.id), end)
                   exits == From(document, i.id)
               IN
               /\ back \in DOMAIN ProcessOf(c)'.Elements
               /\ ProcessOf(c)'.Elements[back].Type = "endEvent"
               /\ ProcessOf(c)'.Elements[back].ExitFlows = exits
               /\ RouteTo(ProcessOf(c)', back, exits) = SetToBag(exits)
  <2>1. i \in ItemsOf(document) /\ i.tag = "callActivity" /\ Calls(c, i.id) /\ work[c] # EmptyBag
    <3>1. DOMAIN EmptyBag = {}
      BY DEF EmptyBag, SetToBag
    <3> QED
      BY <1>1, <3>1 DEF Calling, BagToSet
  <2>2. status[c] # "none" /\ Callee(called) /\ DOMAIN own = Cases /\ shared \in BOOLEAN
    BY <1>1, <2>1 DEF DrawnInvariant, RunInvariant
  <2>3. IsDocument(document) /\ AsDrawn(ProcessOf(c), document)
    BY <1>1, <2>2, DrawnWhenParsed DEF DrawnInvariant, RunInvariant
  <2>4. PICK prefix, p : prefix = CallPrefix(i.id) /\ p = RenamedLists(prefix, called)
    OBVIOUS
  <2>5. PICK end \in CalledEnd(i.id) : Replace(c, Flattened(ProcessOf(c), p, i.id, end))
    BY <2>1, <2>4 DEF Calls
  <2>6. PICK x \in EndEvents(called) : end = Prefixed(prefix, x)
    BY <1>1, <2>4, <2>5 DEF CalledEnd
  <2>7. PICK r, w : r = ProcessOf(c) /\ w = Flattened(r, p, i.id, end)
    OBVIOUS
  <2>8. shared' = shared
    BY <1>1, <2>1 DEF CallNext, Calls, callVars
  <2>9. ProcessOf(c)' = w
    <3>1. CASE shared
      BY <2>5, <2>7, <2>8, <3>1 DEF Replace, ProcessOf
    <3>2. CASE ~shared
      BY <2>2, <2>5, <2>7, <2>8, <3>2 DEF Replace, ProcessOf
    <3> QED
      BY <2>2, <3>1, <3>2
  <2>10. /\ end \in DOMAIN w.Elements /\ w.Elements[end].Type = "endEvent"
         /\ w.Elements[end].ExitFlows = From(document, i.id)
         /\ RouteTo(w, end, From(document, i.id)) = SetToBag(From(document, i.id))
    BY <1>1, <2>1, <2>2, <2>3, <2>4, <2>6, <2>7, CallLeadsBack DEF CalledListing
  <2> QED
    BY <2>4, <2>6, <2>9, <2>10
<1>2. DrawnInvariant /\ CalledListing /\ [CallNext]_<<vars, shared, callVars>>
        => [LeadsBack]_<<vars, shared, callVars>>
  BY <1>1 DEF LeadsBack
<1> QED
  BY <1>2, DrawnInvariantHolds, ListingHolds, PTL DEF CallSpec

----------------------------------------------------------------------------
(* Processes that lead to an end event.                                    *)

\* The flows the router finds behind an element.
Out(r, e) == BagToSet(r.Elements[e].Outgoing) \cap DOMAIN r.Flows

\* A process on which no way ends but at an end event that no call has added.
Whole(r) ==
  /\ \A f \in DOMAIN r.Flows : r.Flows[f].target \in DOMAIN r.Elements
  /\ \A e \in DOMAIN r.Elements :
       LET x == r.Elements[e] IN
       /\ x.Type = "endEvent" /\ x.ExitFlows = {} => ~IsCalled(e)
       /\ x.Type = "endEvent" /\ x.ExitFlows # {} => Out(r, e) \cap x.ExitFlows # {}
       /\ x.Type = "subProcess" => Entry(e) \in Out(r, e)
       /\ x.Type \notin {"endEvent", "subProcess"} =>
            \E f \in Out(r, e) : f.suffix # "_sp_entry"

\* The router yields elements of the process, and some where a flow passes the filter.
LEMMA WholeRoutes ==
  ASSUME NEW r, Whole(r), NEW e, NEW F, Out(r, e) \cap F # {}
  PROVE  /\ DOMAIN RouteTo(r, e, F) # {}
         /\ DOMAIN RouteTo(r, e, F) \subseteq DOMAIN r.Elements
<1>1. DOMAIN RouteTo(r, e, F) = {Step(r, f) : f \in Out(r, e) \cap F}
  BY DEF RouteTo, Out
<1>2. \A f \in DOMAIN r.Flows : Step(r, f) \in DOMAIN r.Elements
  BY DEF Step, Whole
<1> QED
  BY <1>1, <1>2 DEF Out

\* The called process as it was parsed, whatever its lists have been renamed to.
CalledSound(q) ==
  /\ IsFiniteSet(DOMAIN q.Elements) /\ q.Start \in DOMAIN q.Elements \cup {None}
  /\ \A x \in DOMAIN q.Elements :
       q.Elements[x].Type # "subProcess" /\ q.Elements[x].ExitFlows = {}

\* Its lists still name its flows.
CalledKnown(q) ==
  \A x \in DOMAIN q.Elements : \A f \in BagToSet(q.Elements[x].Outgoing) :
    f \in DOMAIN q.Flows /\ f.suffix # "_sp_entry"

LEMMA ParsedSound ==
  ASSUME NEW doc, WellFormed(doc)
  PROVE  CalledSound(ParsedFlat(doc)) /\ CalledKnown(ParsedFlat(doc))
<1>1. PICK i : i = [items |-> doc]
  OBVIOUS
<1>2. i.items = doc
  BY <1>1
<1>3. ParsedFlat(doc) = GatewayConditions(Inner(i))
  BY <1>2 DEF ParsedFlat, Inner, parseSubProcessXML
<1>4. PICK r : r = Inner(i)
  OBVIOUS
<1>5. /\ Done(r, doc, FlatTags) /\ Flat(r)
      /\ \A x \in DOMAIN r.Elements : IsID(x) /\ IsElement(r.Elements[x])
  BY <1>2, <1>4, InnerParts
<1>6. DOMAIN r = ProcessFields
  BY <1>5 DEF Done
<1>7. ASSUME NEW x \in DOMAIN r.Elements
      PROVE  /\ r.Elements[x].ExitFlows = {}
             /\ \A f \in BagToSet(r.Elements[x].Outgoing) :
                  f \in DOMAIN r.Flows /\ f.suffix # "_sp_entry"
  <2>1. x.scope = <<>>
    BY <1>5, ItemIDs
  <2>2. PICK m \in 1..Len(doc) : x = doc[m].id /\ doc[m].tag \in FlatTags
    BY <1>5, <2>1 DEF Done, DoneElements
  <2>3. /\ Shape(r.Elements[x], doc[m].tag)
        /\ r.Elements[x].Outgoing =
             SetToBag(IF doc[m].tag = "sequenceFlow" THEN {Synthetic(doc[m].id)}
                      ELSE Leaving(doc, doc[m]))
    BY <1>5, <2>2 DEF Done, DoneElements
  <2>4. doc[m].tag # "subProcess"
    BY <2>2 DEF FlatTags, EventTags, GatewayTags, TaskTags
  <2>5. BagToSet(r.Elements[x].Outgoing) =
          IF doc[m].tag = "sequenceFlow" THEN {Synthetic(doc[m].id)} ELSE From(doc, doc[m].id)
    BY <2>3, <2>4 DEF Leaving, BagToSet, SetToBag
  <2>6. \A k \in 1..Len(doc) : doc[k].tag = "sequenceFlow" =>
          /\ doc[k].id \in DOMAIN r.Flows /\ Synthetic(doc[k].id) \in DOMAIN r.Flows
          /\ doc[k].id.suffix = "" /\ Synthetic(doc[k].id).suffix = "_synth"
    BY <1>5, ItemFacts, ItemIDs DEF Done, DoneFlows
  <2>7. \A f \in From(doc, doc[m].id) :
          \E k \in 1..Len(doc) : doc[k].tag = "sequenceFlow" /\ f = doc[k].id
    BY DrawnFlows
  <2>8. ASSUME NEW f \in BagToSet(r.Elements[x].Outgoing)
        PROVE  f \in DOMAIN r.Flows /\ f.suffix # "_sp_entry"
    <3>1. CASE doc[m].tag = "sequenceFlow"
      <4>1. f = Synthetic(doc[m].id)
        BY <2>5, <2>8, <3>1
      <4> QED
        BY <2>6, <3>1, <4>1
    <3>2. CASE doc[m].tag # "sequenceFlow"
      <4>1. f \in From(doc, doc[m].id)
        BY <2>5, <2>8, <3>2
      <4>2. PICK k \in 1..Len(doc) : doc[k].tag = "sequenceFlow" /\ f = doc[k].id
        BY <2>7, <4>1
      <4> QED
        BY <2>6, <4>2
    <3> QED
      BY <3>1, <3>2
  <2>9. r.Elements[x].ExitFlows = {}
    BY <2>3 DEF Shape
  <2> QED
    BY <2>8, <2>9
<1>8. PICK w : w = GatewayConditions(r)
  OBVIOUS
<1>9. /\ w.Flows = r.Flows /\ DOMAIN w.Elements = DOMAIN r.Elements
      /\ \A x \in DOMAIN r.Elements :
           /\ w.Elements[x].Type = r.Elements[x].Type
           /\ w.Elements[x].Outgoing = r.Elements[x].Outgoing
           /\ w.Elements[x].ExitFlows = r.Elements[x].ExitFlows
  BY <1>5, <1>6, <1>8, GatewaysOnly, GatewayFields
<1>10. w.Start = r.Start
  BY <1>6, <1>8 DEF GatewayConditions, ProcessFields
<1>13. IsFiniteSet(DOMAIN r.Elements)
  <2>1. Len(doc) \in Nat
    BY LenProperties DEF WellFormed
  <2>2. PICK S, T, ids : /\ S = 1..Len(doc) /\ T = {doc[m].id : m \in S}
                         /\ ids = [m \in S |-> doc[m].id]
    OBVIOUS
  <2>3. ids \in Surjection(S, T)
    BY <2>2 DEF Surjection
  <2>4. IsFiniteSet(T)
    BY <2>1, <2>2, <2>3, FS_Interval, FS_Surjection
  <2>5. DOMAIN r.Elements \subseteq T
    BY <1>5, <2>2, ItemIDs DEF Done, DoneElements
  <2> QED
    BY <2>4, <2>5, FS_Subset
<1>11. CalledSound(w)
  BY <1>5, <1>7, <1>9, <1>10, <1>13 DEF CalledSound, Flat
<1>12. CalledKnown(w)
  BY <1>7, <1>9 DEF CalledKnown
<1> QED
  BY <1>3, <1>4, <1>8, <1>11, <1>12

LEMMA NothingSound == CalledSound(NewProcess) /\ CalledKnown(NewProcess)
BY FS_EmptySet DEF NewProcess, CalledSound, CalledKnown

\* Renaming does not change whether the called process is fit to be called.
LEMMA RenamedSound ==
  ASSUME NEW q, DOMAIN q = ProcessFields, Listing(q), CalledSound(q), NEW prefix,
         NEW p, p = RenamedLists(prefix, q)
  PROVE  /\ CalledSound(p) /\ p.Start = q.Start /\ EndEvents(p) = EndEvents(q)
         /\ LeadsOn(p) => LeadsOn(q)
<1>1. /\ p.Flows = q.Flows /\ p.Start = q.Start /\ DOMAIN p.Elements = DOMAIN q.Elements
      /\ \A x \in DOMAIN q.Elements :
           /\ p.Elements[x].Type = q.Elements[x].Type
           /\ p.Elements[x].ExitFlows = q.Elements[x].ExitFlows
           /\ p.Elements[x].Outgoing = Renamed(prefix, q.Elements[x].Outgoing)
  BY RenamedFields
<1>2. CalledSound(p)
  BY <1>1 DEF CalledSound
<1>3. EndEvents(p) = EndEvents(q)
  BY <1>1 DEF EndEvents
<1>4. OwnElements(p) = OwnElements(q)
  BY <1>1 DEF OwnElements
<1>5. ASSUME LeadsOn(p), NEW e \in OwnElements(q), q.Elements[e].Type # "endEvent"
      PROVE  BagToSet(q.Elements[e].Outgoing) # {}
  <2>1. BagToSet(p.Elements[e].Outgoing) # {} /\ e \in DOMAIN q.Elements
    BY <1>1, <1>4, <1>5 DEF LeadsOn, OwnElements
  <2> QED
    BY <1>1, <2>1 DEF Renamed, BagToSet
<1> QED
  BY <1>1, <1>2, <1>3, <1>4, <1>5 DEF LeadsOn

\* No id without a prefix is one of a call, and all under the prefix of one are.
LEMMA CalledIDs ==
  ASSUME NEW x, Plain(x)
  PROVE  ~IsCalled(x) /\ \A e : Key(e) => IsCalled(Prefixed(CallPrefix(e), x))
<1>1. x.scope = <<>>
  BY DEF Plain
<1>2. ASSUME NEW e, Key(e)
      PROVE  IsCalled(Prefixed(CallPrefix(e), x))
  <2>1. PICK p : p = CallPrefix(e)
    OBVIOUS
  <2>2. p.suffix = "ca-"
    <3>1. e = [scope |-> e.scope, name |-> e.name, suffix |-> e.suffix]
      BY <1>2 DEF Key
    <3> QED
      BY <2>1, <3>1 DEF CallPrefix
  <2>3. Prefixed(p, x).scope = <<p>> /\ Prefixed(p, x).scope # <<>>
    BY PrefixedIDs
  <2>4. Head(<<p>>) = p
    OBVIOUS
  <2> QED
    BY <2>1, <2>2, <2>3, <2>4 DEF IsCalled
<1> QED
  BY <1>1, <1>2 DEF IsCalled

\* A called process that leads on, whose lists name its flows.
LEMMA CalledLeads ==
  ASSUME NEW q, Callee(q), CalledSound(q), CalledKnown(q), LeadsOn(q), q.Start # None
  PROVE  /\ q.Start \in DOMAIN q.Elements
         /\ \A f \in DOMAIN q.Flows : q.Flows[f].target \in DOMAIN q.Elements
         /\ \A x \in DOMAIN q.Elements : q.Elements[x].Type # "endEvent" =>
              \E f \in Out(q, x) : f.suffix # "_sp_entry"
<1>1. /\ \A x \in DOMAIN q.Elements : ~IsCalled(x)
      /\ \A f \in DOMAIN q.Flows : ~IsCalled(f)
  BY ItemIDs, CalledIDs DEF Callee
<1>2. OwnElements(q) = DOMAIN q.Elements
  BY <1>1 DEF OwnElements
<1>3. ASSUME NEW x \in DOMAIN q.Elements, q.Elements[x].Type # "endEvent"
      PROVE  \E f \in Out(q, x) : f.suffix # "_sp_entry"
  <2>1. PICK f : f \in BagToSet(q.Elements[x].Outgoing)
    BY <1>2, <1>3 DEF LeadsOn
  <2> QED
    BY <2>1 DEF CalledKnown, Out
<1> QED
  BY <1>1, <1>2, <1>3 DEF LeadsOn, CalledSound

\* Where the flows of a process lead after a call.
LEMMA CallTargets ==
  ASSUME NEW r, DOMAIN r = ProcessFields, NEW p, Callee(p), NEW e, NEW end,
         NEW w, w = Flattened(r, p, e, end), NEW f \in DOMAIN w.Flows
  PROVE  \/ w.Flows[f].target = Prefixed(CallPrefix(e), p.Start)
         \/ \E g \in DOMAIN p.Flows : w.Flows[f].target = Prefixed(CallPrefix(e), p.Flows[g].target)
         \/ f \in DOMAIN r.Flows /\ w.Flows[f] = r.Flows[f]
<1> DEFINE prefix == CallPrefix(e)
           entry == [x \in {Prefixed(prefix, ID("entry"))} |->
                       Flow(e, Prefixed(prefix, p.Start), FALSE)]
           flows == CalledFlows(prefix, p)
<1>1. PICK elements : w = [r EXCEPT !.Elements = elements, !.Flows = Over(entry, Over(flows, @))]
  BY DEF Flattened
<1>2. \A x \in DOMAIN entry : entry[x].target = Prefixed(prefix, p.Start)
  BY DEF Flow
<1>3. ASSUME NEW x \in DOMAIN flows
      PROVE  \E g \in DOMAIN p.Flows : flows[x].target = Prefixed(prefix, p.Flows[g].target)
  <2>1. PICK g \in DOMAIN p.Flows : x = Prefixed(prefix, g)
    BY <1>3 DEF CalledFlows
  <2>2. Inside(x) = g
    BY <2>1, PrefixedIDs DEF Callee
  <2>3. flows[x] = Flow(Prefixed(prefix, p.Flows[g].source), Prefixed(prefix, p.Flows[g].target),
                        p.Flows[g].condition)
    BY <2>1, <2>2 DEF CalledFlows
  <2> QED
    BY <2>3, FlowFields
<1> HIDE DEF entry, flows
<1>4. w.Flows = Over(entry, Over(flows, r.Flows))
  BY <1>1 DEF ProcessFields
<1>5. \/ f \in DOMAIN entry /\ w.Flows[f] = entry[f]
      \/ f \in DOMAIN flows /\ w.Flows[f] = flows[f]
      \/ f \in DOMAIN r.Flows /\ w.Flows[f] = r.Flows[f]
  BY <1>4 DEF Over
<1> QED
  BY <1>2, <1>3, <1>5

\* A call leaves a process that leads to an end event, if the called process does and
\* has one end event: that one is given the flows behind the call activity.
LEMMA CallStaysWhole ==
  ASSUME NEW r, DOMAIN r = ProcessFields, Keys(r), Whole(r),
         NEW q, Callee(q), Listing(q), CalledSound(q), CalledKnown(q), LeadsOn(q), q.Start # None,
         NEW last, EndEvents(q) = {last},
         NEW e \in DOMAIN r.Elements, r.Elements[e].Type = "callActivity",
         shared => \A y \in DOMAIN r.Elements : ~IsCalled(y),
         NEW prefix, prefix = CallPrefix(e), NEW p, p = RenamedLists(prefix, q),
         NEW end, end = Prefixed(prefix, last), NEW w, w = Flattened(r, p, e, end)
  PROVE  /\ Whole(w) /\ Prefixed(prefix, q.Start) \in DOMAIN w.Elements
         /\ DOMAIN r.Elements \subseteq DOMAIN w.Elements
         /\ \A y \in OwnElements(w) : y \in DOMAIN r.Elements /\ w.Elements[y] = r.Elements[y]
<1> DEFINE new == {Prefixed(prefix, x) : x \in DOMAIN q.Elements}
           exits == ExitFlows(r.Elements[e])
<1>1. /\ DOMAIN q = ProcessFields /\ DOMAIN p = ProcessFields
      /\ p.Flows = q.Flows /\ p.Start = q.Start /\ DOMAIN p.Elements = DOMAIN q.Elements
      /\ \A x \in DOMAIN q.Elements :
           /\ IsElement(p.Elements[x]) /\ p.Elements[x].Type = q.Elements[x].Type
           /\ p.Elements[x].ExitFlows = q.Elements[x].ExitFlows
           /\ p.Elements[x].Outgoing = Renamed(prefix, q.Elements[x].Outgoing)
  BY RenamedFields DEF Callee
<1>2. Callee(p) /\ Key(e)
  BY StaysCallable DEF Keys
<1>3. /\ q.Start \in DOMAIN q.Elements
      /\ \A f \in DOMAIN q.Flows : q.Flows[f].target \in DOMAIN q.Elements
      /\ \A x \in DOMAIN q.Elements : q.Elements[x].Type # "endEvent" =>
           \E f \in Out(q, x) : f.suffix # "_sp_entry"
  BY CalledLeads
<1>4. \A x \in DOMAIN q.Elements : Plain(x) /\ Inside(Prefixed(prefix, x)) = x
  BY ItemIDs, PrefixedIDs DEF Callee
<1>5. \A y \in new : IsCalled(y)
  BY <1>2, <1>4, CalledIDs
<1>6. /\ DOMAIN w.Elements = new \cup DOMAIN r.Elements
      /\ \A y \in DOMAIN r.Elements :
           y \notin new /\ (shared => ~IsCalled(y)) => w.Elements[y] = r.Elements[y]
      /\ \A y \in new : w.Elements[y] = IF y = end THEN WithExits(p.Elements[Inside(y)], exits)
                                        ELSE p.Elements[Inside(y)]
  <2> HIDE DEF exits
  <2> QED
    BY <1>1, CallElements DEF exits
<1>7. /\ DOMAIN r.Flows \subseteq DOMAIN w.Flows
      /\ \A x \in DOMAIN q.Flows : Prefixed(prefix, x) \in DOMAIN w.Flows
  BY <1>1, CallFlows
<1> HIDE DEF new, exits
<1>8. \A y \in DOMAIN r.Elements : y \notin new => w.Elements[y] = r.Elements[y]
  BY <1>6
<1>9. \A x \in DOMAIN q.Elements :
        Prefixed(prefix, x) \in new /\ Prefixed(prefix, x) \in DOMAIN w.Elements
  BY <1>6 DEF new
<1>10. \A f \in DOMAIN w.Flows : w.Flows[f].target \in DOMAIN w.Elements
  <2> TAKE f \in DOMAIN w.Flows
  <2>1. \/ w.Flows[f].target = Prefixed(prefix, p.Start)
        \/ \E g \in DOMAIN p.Flows : w.Flows[f].target = Prefixed(prefix, p.Flows[g].target)
        \/ f \in DOMAIN r.Flows /\ w.Flows[f] = r.Flows[f]
    BY <1>2, CallTargets
  <2>2. \A g \in DOMAIN r.Flows : r.Flows[g].target \in DOMAIN w.Elements
    BY <1>6 DEF Whole
  <2> QED
    BY <1>1, <1>3, <1>9, <2>1, <2>2
<1>11. last \in DOMAIN q.Elements /\ q.Elements[last].Type = "endEvent" /\ end \in new
  BY <1>9 DEF EndEvents
<1>12. PICK back \in exits : back \in DOMAIN w.Flows
  <2>1. PICK f \in Out(r, e) : f.suffix # "_sp_entry"
    BY DEF Whole
  <2> QED
    BY <1>7, <2>1 DEF Out, ExitFlows, exits
<1>13. /\ w.Elements[end].Type = "endEvent" /\ w.Elements[end].ExitFlows = exits
       /\ back \in Out(w, end)
  <2>1. PICK z : z = p.Elements[last]
    OBVIOUS
  <2>2. IsElement(z) /\ z.Type = "endEvent"
    BY <1>1, <1>11, <2>1
  <2>3. w.Elements[end] = WithExits(z, exits)
    BY <1>4, <1>6, <1>11, <2>1
  <2>4. PICK list : list = z.Outgoing (+) SetToBag(exits)
    OBVIOUS
  <2>5. w.Elements[end] = [z EXCEPT !.Outgoing = list, !.ExitFlows = exits]
    BY <2>2, <2>3, <2>4 DEF WithExits, IsElement, ElementFields
  <2>6. /\ w.Elements[end].Type = "endEvent" /\ w.Elements[end].ExitFlows = exits
        /\ w.Elements[end].Outgoing = list
    BY <2>2, <2>5 DEF IsElement, ElementFields
  <2>7. BagToSet(list) = BagToSet(z.Outgoing) \cup exits
    BY <2>4, BothLists
  <2> QED
    BY <1>12, <2>6, <2>7 DEF Out
<1>14. ASSUME NEW y \in new, y # end
       PROVE  /\ w.Elements[y].Type \notin {"endEvent", "subProcess"}
              /\ \E f \in Out(w, y) : f.suffix # "_sp_entry"
  <2>1. PICK x \in DOMAIN q.Elements : y = Prefixed(prefix, x)
    BY DEF new
  <2>2. x # last /\ w.Elements[y] = p.Elements[x]
    BY <1>4, <1>6, <1>14, <2>1
  <2>3. q.Elements[x].Type # "endEvent" /\ q.Elements[x].Type # "subProcess"
    BY <2>1, <2>2 DEF EndEvents, CalledSound
  <2>4. PICK g \in Out(q, x) : g.suffix # "_sp_entry"
    BY <1>3, <2>1, <2>3
  <2>5. Prefixed(prefix, g) \in Out(w, y)
    <3>1. g \in DOMAIN q.Elements[x].Outgoing /\ g \in DOMAIN q.Flows
      BY <2>4 DEF Out, BagToSet
    <3>2. w.Elements[y].Outgoing = Renamed(prefix, q.Elements[x].Outgoing)
      BY <1>1, <2>2
    <3>3. Prefixed(prefix, g) \in DOMAIN Renamed(prefix, q.Elements[x].Outgoing)
      BY <3>1 DEF Renamed
    <3> QED
      BY <1>7, <3>1, <3>2, <3>3 DEF Out, BagToSet
  <2>6. Prefixed(prefix, g).suffix # "_sp_entry"
    BY <2>4, PrefixedIDs DEF Callee, Out
  <2> QED
    BY <1>1, <2>1, <2>2, <2>3, <2>5, <2>6
<1>15. ASSUME NEW y \in DOMAIN r.Elements, y \notin new
       PROVE  w.Elements[y] = r.Elements[y] /\ Out(r, y) \subseteq Out(w, y)
  BY <1>7, <1>8, <1>15 DEF Out
<1>16. ASSUME NEW y \in DOMAIN w.Elements
       PROVE  LET x == w.Elements[y] IN
              /\ x.Type = "endEvent" /\ x.ExitFlows = {} => ~IsCalled(y)
              /\ x.Type = "endEvent" /\ x.ExitFlows # {} => Out(w, y) \cap x.ExitFlows # {}
              /\ x.Type = "subProcess" => Entry(y) \in Out(w, y)
              /\ x.Type \notin {"endEvent", "subProcess"} =>
                   \E f \in Out(w, y) : f.suffix # "_sp_entry"
  <2>1. CASE y = end
    <3>1. back \in Out(w, y) \cap w.Elements[y].ExitFlows
      BY <1>12, <1>13, <2>1
    <3>2. w.Elements[y].Type = "endEvent"
      BY <1>13, <2>1
    <3> QED
      BY <3>1, <3>2
  <2>2. CASE y \in new /\ y # end
    BY <1>14, <2>2
  <2>3. CASE y \in DOMAIN r.Elements /\ y \notin new
    BY <1>15, <2>3 DEF Whole
  <2> QED
    BY <1>6, <2>1, <2>2, <2>3
<1>17. Whole(w)
  BY <1>10, <1>16 DEF Whole
<1>18. \A y \in OwnElements(w) : y \in DOMAIN r.Elements /\ w.Elements[y] = r.Elements[y]
  BY <1>5, <1>6, <1>8 DEF OwnElements
<1> QED
  BY <1>3, <1>6, <1>9, <1>17, <1>18

----------------------------------------------------------------------------
(* What Parse makes of a document, besides the drawing.                    *)

\* An element inside of a sub-process of the document.
InsideOf(doc, e) ==
  \E m \in 1..Len(doc) : \E x \in DOMAIN Inner(doc[m]).Elements :
    doc[m].tag = "subProcess" /\ e = Prefixed(doc[m].id, x)

IsSubProcess(doc, e) == \E m \in 1..Len(doc) : doc[m].tag = "subProcess" /\ e = doc[m].id

\* A run starts at an element, and its sub-processes are those of the document.
Rooted(r, doc) ==
  /\ r.Start \in DOMAIN r.Elements \cup {None}
  /\ \A e \in DOMAIN r.Elements : r.Elements[e].Type = "subProcess" <=> IsSubProcess(doc, e)

LEMMA OnlySubProcesses ==
  ASSUME NEW doc, WellFormed(doc)
  PROVE  /\ \A m \in 1..Len(doc) : IsSubProcess(doc, doc[m].id) <=> doc[m].tag = "subProcess"
         /\ \A e : e.scope # <<>> => ~IsSubProcess(doc, e)
<1>1. \A m, k \in 1..Len(doc) : doc[m].id = doc[k].id => m = k
  BY ItemFacts
<1>2. \A m \in 1..Len(doc) : doc[m].id.scope = <<>>
  BY ItemFacts, ItemIDs
<1> QED
  BY <1>1, <1>2 DEF IsSubProcess

\* Elements and flows are those of the document, and a way out is listed.
Sound(r, doc) ==
  /\ Rooted(r, doc)
  /\ \A e \in DOMAIN r.Elements :
       /\ e.scope # <<>> => InsideOf(doc, e)
       /\ r.Elements[e].ExitFlows \subseteq BagToSet(r.Elements[e].Outgoing)
  /\ \A f \in DOMAIN r.Flows : Given(doc, f)

LEMMA RootedRead ==
  ASSUME NEW doc, WellFormed(doc), NEW m \in 1..Len(doc), NEW i, i = doc[m],
         i.tag # "subProcess", NEW r, DOMAIN r = ProcessFields, Rooted(r, doc)
  PROVE  Rooted(ReadItem(r, i), doc)
<1> DEFINE q == ReadItem(r, i)
<1>1. /\ i.tag \in FlatTags => q.Elements = Over([x \in {i.id} |-> ElementOf(i)], r.Elements)
      /\ i.tag \notin FlatTags => q.Elements = r.Elements
      /\ q.Start = r.Start \/ (q.Start = i.id /\ i.tag \in FlatTags)
  <2>1. DOMAIN i = ItemFields /\ i.definitions \in Seq(STRING)
    BY ItemFacts
  <2> QED
    BY <2>1, ItemRead, ZenonT(30)
<1> HIDE DEF q
<1>2. CASE i.tag \in FlatTags
  <2>1. ElementOf(i).Type # "subProcess" /\ ~IsSubProcess(doc, i.id)
    <3>1. DOMAIN i = ItemFields /\ i.definitions \in Seq(STRING)
      BY ItemFacts
    <3>2. ElementOf(i).Type # "subProcess"
      BY <1>2, <3>1, ItemElements
    <3> QED
      BY <3>2, OnlySubProcesses
  <2>2. /\ DOMAIN q.Elements = {i.id} \cup DOMAIN r.Elements
        /\ \A e \in DOMAIN q.Elements :
             q.Elements[e] = IF e = i.id THEN ElementOf(i) ELSE r.Elements[e]
    BY <1>1, <1>2 DEF Over
  <2>3. \A e \in DOMAIN q.Elements : q.Elements[e].Type = "subProcess" <=> IsSubProcess(doc, e)
    BY <2>1, <2>2 DEF Rooted
  <2> QED
    BY <1>1, <2>2, <2>3 DEF Rooted, q
<1>3. CASE i.tag \notin FlatTags
  BY <1>1, <1>3 DEF Rooted, q
<1> QED
  BY <1>2, <1>3

LEMMA RootedFlattened ==
  ASSUME NEW doc, IsDocument(doc), NEW m \in 1..Len(doc), NEW i, i = doc[m],
         i.tag = "subProcess", NEW r, DOMAIN r = ProcessFields, Rooted(r, doc), NEW end
  PROVE  Rooted(flattenSubProcess(r, i, end), doc)
<1> DEFINE w == flattenSubProcess(r, i, end)
           sp == i.id
<1>1. IsID(i.id) /\ WellFormed(doc) /\ WellFormed(i.items)
  BY ItemFacts DEF IsDocument
<1>2. /\ DOMAIN w = ProcessFields /\ w.Start = r.Start
      /\ DOMAIN w.Elements =
           {sp} \cup {Prefixed(sp, x) : x \in DOMAIN Inner(i).Elements} \cup DOMAIN r.Elements
      /\ w.Elements[sp] = [Element("subProcess") EXCEPT !.End = end]
      /\ \A x \in DOMAIN Inner(i).Elements : w.Elements[Prefixed(sp, x)] = Inner(i).Elements[x]
      /\ \A e \in DOMAIN r.Elements :
           e # sp /\ (\A x \in DOMAIN Inner(i).Elements : e # Prefixed(sp, x))
           => w.Elements[e] = r.Elements[e]
  BY <1>1, FlattenedElements
<1>3. \A x \in DOMAIN Inner(i).Elements : Inner(i).Elements[x].Type # "subProcess"
  BY <1>1, InnerParts DEF Flat
<1>4. /\ IsSubProcess(doc, sp) /\ w.Elements[sp].Type = "subProcess"
      /\ \A x \in DOMAIN Inner(i).Elements : ~IsSubProcess(doc, Prefixed(sp, x))
  <2>1. IsSubProcess(doc, sp)
    BY DEF IsSubProcess
  <2>2. [Element("subProcess") EXCEPT !.End = end].Type = "subProcess"
    BY DEF Element
  <2>3. \A x \in DOMAIN Inner(i).Elements : Prefixed(sp, x).scope # <<>>
    BY <1>1, InsideIDs
  <2> HIDE DEF w
  <2>4. w.Elements[sp].Type = "subProcess"
    BY <1>2, <2>2
  <2> QED
    BY <1>1, <2>1, <2>3, <2>4, OnlySubProcesses
<1> HIDE DEF w, sp
<1>5. \A e \in DOMAIN w.Elements : w.Elements[e].Type = "subProcess" <=> IsSubProcess(doc, e)
  <2> TAKE e \in DOMAIN w.Elements
  <2>1. CASE e = sp
    BY <1>4, <2>1
  <2>2. CASE \E x \in DOMAIN Inner(i).Elements : e = Prefixed(sp, x)
    BY <1>2, <1>3, <1>4, <2>2
  <2>3. CASE e # sp /\ \A x \in DOMAIN Inner(i).Elements : e # Prefixed(sp, x)
    BY <1>2, <2>3 DEF Rooted
  <2> QED
    BY <2>1, <2>2, <2>3
<1>6. w.Start \in DOMAIN w.Elements \cup {None}
  BY <1>2 DEF Rooted
<1> QED
  BY <1>5, <1>6 DEF Rooted, w

\* wireFlows.
LEMMA SoundWired ==
  ASSUME NEW doc, IsDocument(doc), NEW r, ItemsRead(r, doc, Len(doc)), Rooted(r, doc)
  PROVE  Sound(wireFlows(r), doc)
<1> DEFINE w == wireFlows(r)
<1>1. AllWired(w, doc)
  BY ItemsWired
<1>2. DOMAIN r = ProcessFields
  BY DEF ItemsRead, Top
<1>3. w.Flows = r.Flows /\ w.Start = r.Start /\ DOMAIN w.Elements = DOMAIN r.Elements
  BY <1>2, Wiring
<1> HIDE DEF w
<1>4. ASSUME NEW e \in DOMAIN r.Elements
      PROVE  /\ w.Elements[e].Type = "subProcess" <=> IsSubProcess(doc, e)
             /\ e.scope # <<>> => InsideOf(doc, e)
             /\ w.Elements[e].ExitFlows = {}
  <2>1. CASE e.scope = <<>>
    <3>1. PICK m \in 1..Len(doc) : e = doc[m].id /\ doc[m].tag \in OuterTags
      BY <1>1, <1>3, <2>1 DEF AllWired, WiredElements
    <3>2. w.Elements[e].ExitFlows = {}
      BY <1>1, <3>1 DEF AllWired, WiredElements, Shape
    <3>3. Fresh(r.Elements[e], doc[m].tag)
      BY <3>1 DEF ItemsRead, Top, TopElements
    <3>4. w.Elements[e].Type = r.Elements[e].Type
      BY <1>2, <3>3, Wiring DEF Fresh, w
    <3> QED
      BY <2>1, <3>2, <3>4 DEF Rooted
  <2>2. CASE e.scope # <<>>
    <3>1. InsideOf(doc, e)
      BY <2>2 DEF ItemsRead, InsideElements, InsideOf
    <3>2. PICK m \in 1..Len(doc) : doc[m].tag = "subProcess" /\
            \E x \in DOMAIN Inner(doc[m]).Elements : e = Prefixed(doc[m].id, x)
      BY <3>1 DEF InsideOf
    <3>3. PICK x \in DOMAIN Inner(doc[m]).Elements : e = Prefixed(doc[m].id, x)
      BY <3>2
    <3>4. /\ w.Elements[e].ExitFlows = {}
          /\ w.Elements[e].Type = Inner(doc[m]).Elements[x].Type
      BY <1>1, <3>2, <3>3 DEF AllWired, InsideLists, InsideTypes
    <3>5. WellFormed(doc[m].items)
      BY ItemFacts DEF IsDocument
    <3>6. Inner(doc[m]).Elements[x].Type # "subProcess"
      BY <3>5, InnerParts DEF Flat
    <3>7. ~IsSubProcess(doc, e)
      BY <2>2, OnlySubProcesses DEF IsDocument
    <3> QED
      BY <3>1, <3>4, <3>6, <3>7
  <2> QED
    BY <2>1, <2>2
<1>5. ASSUME NEW f \in DOMAIN r.Flows
      PROVE  Given(doc, f)
  <2>1. CASE f.scope = <<>>
    BY <2>1 DEF Given
  <2>2. CASE f.scope # <<>>
    <3>1. PICK m \in 1..Len(doc) : \E x \in DOMAIN Inner(doc[m]).Flows : f = Prefixed(doc[m].id, x)
      <4>1. InsideFlows(r, doc, Len(doc))
        BY DEF ItemsRead
      <4> QED
        BY <1>5, <2>2, <4>1 DEF InsideFlows
    <3>2. WellFormed(doc[m].items)
      BY ItemFacts DEF IsDocument
    <3>3. PICK x \in DOMAIN Inner(doc[m]).Flows : f = Prefixed(doc[m].id, x)
      BY <3>1
    <3>4. IsID(doc[m].id)
      BY ItemFacts DEF IsDocument
    <3>5. f.scope = <<doc[m].id>>
      BY <3>2, <3>3, <3>4, InsideIDs
    <3> QED
      BY <3>5 DEF Given
  <2> QED
    BY <2>1, <2>2
<1> QED
  BY <1>3, <1>4, <1>5 DEF Rooted, Sound, w

\* SyntheticFlows.
LEMMA SoundSynthesis ==
  ASSUME NEW doc, NEW r, Elementary(r), Sound(r, doc)
  PROVE  Sound(SyntheticFlows(r), doc)
<1> DEFINE w == SyntheticFlows(r)
           flows == FlowElements(r)
<1>1. DOMAIN r = ProcessFields /\ Keys(r) /\ \A e \in DOMAIN r.Elements : IsElement(r.Elements[e])
  BY DEF Elementary
<1>2. /\ w.Start = r.Start /\ DOMAIN w.Elements = DOMAIN r.Elements
      /\ DOMAIN w.Flows = DOMAIN r.Flows \cup {Synthetic(f) : f \in flows}
  BY <1>1, Synthesis
<1>3. flows \subseteq DOMAIN r.Elements \cap DOMAIN r.Flows
  BY DEF FlowElements
<1>4. ASSUME NEW e \in DOMAIN r.Elements
      PROVE  /\ w.Elements[e].Type = r.Elements[e].Type
             /\ w.Elements[e].ExitFlows = r.Elements[e].ExitFlows
             /\ BagToSet(r.Elements[e].Outgoing) \subseteq BagToSet(w.Elements[e].Outgoing)
  <2>1. CASE e \in flows
    <3>1. /\ w.Elements[e].Type = r.Elements[e].Type
          /\ w.Elements[e].ExitFlows = r.Elements[e].ExitFlows
          /\ w.Elements[e].Outgoing = r.Elements[e].Outgoing (+) SetToBag({Synthetic(e)})
      BY <1>1, <2>1, Synthesis
    <3> HIDE DEF w
    <3>2. BagToSet(w.Elements[e].Outgoing) = BagToSet(r.Elements[e].Outgoing) \cup {Synthetic(e)}
      BY <3>1, BothLists
    <3> QED
      BY <3>1, <3>2
  <2>2. CASE e \notin flows
    <3>1. w.Elements[e] = r.Elements[e]
      BY <1>1, <2>2, Synthesis
    <3> QED
      BY <3>1
  <2> QED
    BY <2>1, <2>2
<1>5. \A f \in flows : Given(doc, Synthetic(f))
  <2> TAKE f \in flows
  <2>1. Given(doc, f) /\ Synthetic(f).scope = f.scope
    BY <1>1, <1>3, KeyIDs DEF Keys, Sound
  <2> QED
    BY <2>1 DEF Given
<1> HIDE DEF w, flows
<1>6. Rooted(w, doc)
  BY <1>2, <1>4 DEF Sound, Rooted
<1>7. \A e \in DOMAIN w.Elements :
        /\ e.scope # <<>> => InsideOf(doc, e)
        /\ w.Elements[e].ExitFlows \subseteq BagToSet(w.Elements[e].Outgoing)
  BY <1>2, <1>4 DEF Sound
<1>8. \A f \in DOMAIN w.Flows : Given(doc, f)
  BY <1>2, <1>5 DEF Sound
<1> QED
  BY <1>6, <1>7, <1>8 DEF Sound, w

\* ExitRouting.
LEMMA SoundExits ==
  ASSUME NEW doc, NEW r, Elementary(r), Sound(r, doc)
  PROVE  Sound(ExitRouting(r), doc)
<1> DEFINE w == ExitRouting(r)
<1>1. w.Flows = r.Flows /\ w.Start = r.Start /\ DOMAIN w.Elements = DOMAIN r.Elements
  BY Exits
<1>2. ASSUME NEW e \in DOMAIN r.Elements
      PROVE  /\ w.Elements[e].Type = r.Elements[e].Type
             /\ w.Elements[e].ExitFlows \subseteq BagToSet(w.Elements[e].Outgoing)
  <2>1. CASE EndedBy(r, e) = {}
    <3>1. w.Elements[e] = r.Elements[e]
      BY <2>1, Exits
    <3> QED
      BY <3>1 DEF Sound
  <2>2. CASE EndedBy(r, e) # {}
    BY <2>2, Exits
  <2> QED
    BY <2>1, <2>2
<1> HIDE DEF w
<1>3. Rooted(w, doc)
  BY <1>1, <1>2 DEF Sound, Rooted
<1> QED
  BY <1>1, <1>2, <1>3 DEF Sound, w

\* GatewayConditions.
LEMMA SoundConditions ==
  ASSUME NEW doc, NEW r, Elementary(r), Sound(r, doc)
  PROVE  Sound(GatewayConditions(r), doc)
<1> DEFINE w == GatewayConditions(r)
<1>1. DOMAIN r = ProcessFields /\ \A e \in DOMAIN r.Elements : IsElement(r.Elements[e])
  BY DEF Elementary
<1>2. w.Flows = r.Flows /\ DOMAIN w.Elements = DOMAIN r.Elements
  BY <1>1, GatewaysOnly
<1>3. w.Start = r.Start
  BY <1>1 DEF GatewayConditions, ProcessFields
<1>4. \A e \in DOMAIN r.Elements :
        /\ w.Elements[e].Type = r.Elements[e].Type
        /\ w.Elements[e].Outgoing = r.Elements[e].Outgoing
        /\ w.Elements[e].ExitFlows = r.Elements[e].ExitFlows
  BY <1>1, GatewayFields
<1> HIDE DEF w
<1>5. Rooted(w, doc)
  BY <1>2, <1>3, <1>4 DEF Sound, Rooted
<1> QED
  BY <1>2, <1>4, <1>5 DEF Sound, w

----------------------------------------------------------------------------
(* Calls return.                                                           *)

LEMMA SoundNotCalled ==
  ASSUME NEW doc, IsDocument(doc), NEW r, Sound(r, doc)
  PROVE  /\ \A e \in DOMAIN r.Elements : ~IsCalled(e)
         /\ \A f \in DOMAIN r.Flows : ~IsCalled(f)
<1>1. WellFormed(doc) /\ \A m \in 1..Len(doc) : WellFormed(doc[m].items)
  BY ItemFacts DEF IsDocument
<1>2. ASSUME NEW e \in DOMAIN r.Elements
      PROVE  Given(doc, e)
  <2>1. CASE e.scope = <<>>
    BY <2>1 DEF Given
  <2>2. CASE e.scope # <<>>
    <3>1. PICK m \in 1..Len(doc) : \E x \in DOMAIN Inner(doc[m]).Elements :
            e = Prefixed(doc[m].id, x)
      BY <2>2 DEF Sound, InsideOf
    <3>2. e.scope = <<doc[m].id>>
      BY <1>1, <3>1, InsideIDs
    <3> QED
      BY <3>2 DEF Given
  <2> QED
    BY <2>1, <2>2
<1> QED
  BY <1>1, <1>2, GivenNotCalled DEF Sound

\* Inside of a sub-process a listed flow is known under its prefixed id, too.
LEMMA InsideKnown ==
  ASSUME NEW doc, IsDocument(doc), NEW r, AsDrawn(r, doc),
         NEW m \in 1..Len(doc), doc[m].tag = "subProcess",
         NEW x \in DOMAIN Inner(doc[m]).Elements,
         NEW f \in BagToSet(Inner(doc[m]).Elements[x].Outgoing)
  PROVE  /\ Prefixed(doc[m].id, f) \in DOMAIN r.Flows
         /\ Prefixed(doc[m].id, f).suffix # "_sp_entry"
<1>1. WellFormed(doc[m].items)
  BY ItemFacts DEF IsDocument
<1>2. f \in DOMAIN Inner(doc[m]).Flows /\ Plain(f)
  BY <1>1, InnerSources, InnerParts DEF Leaves
<1>3. Prefixed(doc[m].id, f) \in DOMAIN r.Flows
  BY <1>2 DEF AsDrawn, InsideTargets
<1>4. f.suffix # "_sp_entry"
  <2>1. CASE f \in DOMAIN Inner(doc[m]).Elements
    BY <2>1, InnerElements, ItemIDs
  <2>2. CASE \E y \in DOMAIN Inner(doc[m]).Elements : f = Synthetic(y)
    BY <2>2, InnerElements, ItemIDs
  <2> QED
    BY <1>1, <1>2, <2>1, <2>2, InnerFlows
<1>5. Prefixed(doc[m].id, f).suffix = f.suffix
  BY <1>2, PrefixedIDs
<1> QED
  BY <1>3, <1>4, <1>5

\* A process as Parse delivers it is whole, if every flow of it leads on.
LEMMA DrawnWhole ==
  ASSUME NEW doc, IsDocument(doc), NEW r, AsDrawn(r, doc), Sound(r, doc), LeadsOn(r)
  PROVE  Whole(r)
<1>1. WellFormed(doc)
  BY DEF IsDocument
<1>2. /\ \A e \in DOMAIN r.Elements : ~IsCalled(e)
      /\ \A f \in DOMAIN r.Flows : ~IsCalled(f)
  BY SoundNotCalled
<1>3. OwnElements(r) = DOMAIN r.Elements
  BY <1>2 DEF OwnElements
<1>4. \A f \in DOMAIN r.Flows : r.Flows[f].target \in DOMAIN r.Elements
  BY <1>2, <1>3 DEF LeadsOn
<1>5. \A e \in DOMAIN r.Elements :
        r.Elements[e].Type # "endEvent" => BagToSet(r.Elements[e].Outgoing) # {}
  BY <1>3 DEF LeadsOn
<1>6. ASSUME NEW n, NEW f \in From(doc, n)
      PROVE  f \in DOMAIN r.Flows /\ f.suffix # "_sp_entry"
  <2>1. PICK k \in 1..Len(doc) : f = doc[k].id
    BY <1>1, DrawnFlows
  <2>2. f.suffix = ""
    BY <1>1, <2>1, ItemFacts, ItemIDs
  <2>3. f \in DOMAIN r.Flows
    BY DrawnSteps
  <2> QED
    BY <2>2, <2>3
<1>7. ASSUME NEW e \in DOMAIN r.Elements
      PROVE  LET x == r.Elements[e] IN
             /\ x.Type = "endEvent" /\ x.ExitFlows # {} => Out(r, e) \cap x.ExitFlows # {}
             /\ x.Type = "subProcess" => Entry(e) \in Out(r, e)
             /\ x.Type \notin {"endEvent", "subProcess"} =>
                  \E f \in Out(r, e) : f.suffix # "_sp_entry"
  <2>1. CASE e.scope = <<>>
    <3>1. PICK m \in 1..Len(doc) : e = doc[m].id /\ doc[m].tag \in OuterTags
      BY <2>1 DEF AsDrawn, Done, DoneElements
    <3>2. PICK i \in ItemsOf(doc) : i = doc[m]
      BY <1>1, ItemFacts
    <3>3. r.Elements[e].ExitFlows = {}
      BY <3>1, <3>2, DrawnItem DEF Shape
    <3>4. r.Elements[e].Type = "subProcess" <=> i.tag = "subProcess"
      BY <1>1, <3>1, <3>2, OnlySubProcesses DEF Sound, Rooted
    <3>5. CASE i.tag = "subProcess"
      <4>1. /\ r.Elements[e].Outgoing = SetToBag(From(doc, e) \cup {Entry(e)})
            /\ Entry(e) \in DOMAIN r.Flows
        BY <3>1, <3>2, <3>5, DrawnSubProcess
      <4>2. Entry(e) \in Out(r, e)
        BY <4>1 DEF Out, BagToSet, SetToBag
      <4> QED
        BY <3>3, <3>4, <3>5, <4>2
    <3>6. CASE i.tag = "sequenceFlow"
      <4>1. /\ r.Elements[e].Type = "sequenceFlow" /\ IsID(e)
            /\ r.Elements[e].Outgoing = SetToBag({Synthetic(e)})
            /\ Synthetic(e) \in DOMAIN r.Flows
        <5>1. /\ r.Elements[i.id].Type = "sequenceFlow" /\ IsID(i.id)
              /\ r.Elements[i.id].Outgoing = SetToBag({Synthetic(i.id)})
              /\ Synthetic(i.id) \in DOMAIN r.Flows
          BY <3>6, DrawnFlow
        <5>2. i.id = e
          BY <3>1, <3>2
        <5> QED
          BY <5>1, <5>2
      <4>2. Synthetic(e).suffix = "_synth"
        BY <4>1, ItemIDs
      <4>3. Synthetic(e) \in Out(r, e)
        BY <4>1 DEF Out, BagToSet, SetToBag
      <4> QED
        BY <4>1, <4>2, <4>3
    <3>7. CASE i.tag # "subProcess" /\ i.tag # "sequenceFlow"
      <4>1. r.Elements[e].Outgoing = SetToBag(From(doc, e))
        BY <3>1, <3>2, <3>7, DrawnNode
      <4>2. BagToSet(r.Elements[e].Outgoing) = From(doc, e)
        BY <4>1 DEF BagToSet, SetToBag
      <4>3. \A f \in From(doc, e) : f \in Out(r, e) /\ f.suffix # "_sp_entry"
        BY <1>6, <4>2 DEF Out
      <4> QED
        BY <1>5, <3>3, <3>4, <3>7, <4>2, <4>3
    <3> QED
      BY <3>5, <3>6, <3>7
  <2>2. CASE e.scope # <<>>
    <3>1. PICK m \in 1..Len(doc) : /\ doc[m].tag = "subProcess"
                                   /\ \E x \in DOMAIN Inner(doc[m]).Elements :
                                        e = Prefixed(doc[m].id, x)
      BY <2>2 DEF Sound, InsideOf
    <3>2. PICK x \in DOMAIN Inner(doc[m]).Elements : e = Prefixed(doc[m].id, x)
      BY <3>1
    <3>3. PICK sp, L : sp = doc[m].id /\ L = BagToSet(Inner(doc[m]).Elements[x].Outgoing)
      OBVIOUS
    <3>4. PICK end \in FirstEnd(doc[m]) : LeftBy(r, doc[m], end, From(doc, sp))
      BY <3>1, <3>3 DEF AsDrawn, InsideExits
    <3>5. \A f \in L : Prefixed(sp, f) \in DOMAIN r.Flows /\ Prefixed(sp, f).suffix # "_sp_entry"
      BY <3>1, <3>3, InsideKnown
    <3>6. r.Elements[e].Type # "subProcess"
      BY <1>1, <2>2, OnlySubProcesses DEF Sound, Rooted
    <3>7. CASE e # end
      <4>1. BagToSet(r.Elements[e].Outgoing) = Both(sp, L) /\ r.Elements[e].ExitFlows = {}
        BY <3>2, <3>3, <3>4, <3>7 DEF LeftBy
      <4>2. ASSUME r.Elements[e].Type # "endEvent"
            PROVE  \E f \in Out(r, e) : f.suffix # "_sp_entry"
        <5>1. PICK f : f \in L
          BY <1>5, <4>1, <4>2 DEF Both, Moved
        <5>2. Prefixed(sp, f) \in BagToSet(r.Elements[e].Outgoing)
          BY <4>1, <5>1 DEF Both, Moved
        <5> QED
          BY <3>5, <5>1, <5>2 DEF Out
      <4> QED
        BY <3>6, <4>1, <4>2
    <3>8. CASE e = end
      <4>1. r.Elements[e].Type = "endEvent"
        <5>1. e # None
          <6>1. doc[m] \in ItemsOf(doc)
            BY <1>1, ItemFacts
          <6>2. WellFormed(doc[m].items)
            BY <6>1 DEF IsDocument
          <6>3. PICK k \in 1..Len(doc[m].items) : x = doc[m].items[k].id
            BY <6>2, InnerParts DEF Done, DoneElements, Flat
          <6>4. doc[m].items[k] \in ItemsOf(doc[m].items)
            BY <6>2, ItemFacts
          <6> QED
            BY <3>2, <6>1, <6>3, <6>4 DEF IsDocument
        <5>2. PICK y \in EndEvents(Inner(doc[m])) : e = Prefixed(doc[m].id, y)
          BY <3>4, <3>8, <5>1 DEF FirstEnd, Inner
        <5>3. y \in DOMAIN Inner(doc[m]).Elements /\ Inner(doc[m]).Elements[y].Type = "endEvent"
          BY DEF EndEvents
        <5> QED
          BY <3>1, <5>2, <5>3 DEF AsDrawn, InsideTypes
      <4>2. r.Elements[e].ExitFlows = Both(sp, L) \cup From(doc, sp)
        BY <3>2, <3>3, <3>4, <3>8 DEF LeftBy
      <4>3. r.Elements[e].ExitFlows \subseteq BagToSet(r.Elements[e].Outgoing)
        BY DEF Sound
      <4>4. ASSUME r.Elements[e].ExitFlows # {}
            PROVE  Out(r, e) \cap r.Elements[e].ExitFlows # {}
        <5>1. CASE L # {}
          <6>1. PICK f : f \in L
            BY <5>1
          <6>2. Prefixed(sp, f) \in r.Elements[e].ExitFlows
            BY <4>2, <6>1 DEF Both, Moved
          <6> QED
            BY <3>5, <4>3, <6>1, <6>2 DEF Out
        <5>2. CASE L = {}
          <6>1. PICK f : f \in From(doc, sp)
            BY <4>2, <4>4, <5>2 DEF Both, Moved
          <6> QED
            BY <1>6, <4>2, <4>3, <6>1 DEF Out
        <5> QED
          BY <5>1, <5>2
      <4> QED
        BY <4>1, <4>4
    <3> QED
      BY <3>7, <3>8
  <2> QED
    BY <2>1, <2>2
<1> QED
  BY <1>2, <1>4, <1>7 DEF Whole

\* A call adds no way of the calling process itself.
LEMMA LedOnBefore ==
  ASSUME NEW r, DOMAIN r = ProcessFields, NEW p, Callee(p), NEW e, Key(e), NEW end,
         NEW w, w = Flattened(r, p, e, end),
         shared => \A y \in DOMAIN r.Elements : ~IsCalled(y), LeadsOn(w)
  PROVE  LeadsOn(r)
<1> DEFINE prefix == CallPrefix(e)
           elements == {Prefixed(prefix, x) : x \in DOMAIN p.Elements}
           flows == {Prefixed(prefix, ID("entry"))} \cup {Prefixed(prefix, f) : f \in DOMAIN p.Flows}
<1>1. \A y \in elements \cup flows : IsCalled(y)
  <2>1. Plain(ID("entry"))
    BY DEF Plain, ID
  <2> QED
    BY <2>1, CalledIDs, ItemIDs DEF Callee
<1>2. /\ DOMAIN w.Elements = elements \cup DOMAIN r.Elements
      /\ \A y \in DOMAIN r.Elements :
           y \notin elements /\ (shared => ~IsCalled(y)) => w.Elements[y] = r.Elements[y]
  BY CallElements
<1>3. /\ DOMAIN w.Flows = flows \cup DOMAIN r.Flows
      /\ \A f \in DOMAIN r.Flows : f \notin flows => w.Flows[f] = r.Flows[f]
  BY CallFlows
<1> HIDE DEF elements, flows
<1>4. OwnElements(w) = OwnElements(r)
  BY <1>1, <1>2 DEF OwnElements
<1>5. \A y \in OwnElements(r) : w.Elements[y] = r.Elements[y]
  BY <1>1, <1>2 DEF OwnElements
<1>6. \A f \in DOMAIN r.Flows : IsCalled(f) \/ (f \in DOMAIN w.Flows /\ w.Flows[f] = r.Flows[f])
  BY <1>1, <1>3
<1> QED
  BY <1>4, <1>5, <1>6 DEF LeadsOn

\* The hypotheses of CallsReturn: every way leads on to an end event, and the called
\* process can be called.
Fit == LeadsOn(process) /\ LeadsOn(called) /\ Callable

\* No call has written into the processes that are stored.
Untouched == shared => calls = 0

\* What is stored, as far as the calls so far leave it.
StoredWell ==
  /\ process.Start \in DOMAIN process.Elements \cup {None}
  /\ phase = "items" => Rooted(process, document)
  /\ phase # "items" /\ Untouched => Sound(process, document)
  /\ CalledSound(called) /\ (Untouched => CalledKnown(called))

HistoryWell ==
  /\ DOMAIN waiting = Cases /\ DOMAIN endedBy = Cases /\ DOMAIN stored = Cases
  /\ calls \in Nat /\ (calls # 0 => Walks)
  /\ \A c \in Cases : status[c] = "none" => waiting[c] = EmptyBag /\ endedBy[c] = {}

\* A copy of a stored process that only calls have changed.
SameOwn(r, base) ==
  \A y \in OwnElements(r) :
    y \in DOMAIN base.Elements /\ r.Elements[y] = base.Elements[y]

\* A case that has work, or waits where the stored process knows it, until it has
\* come to an end event of its own and is stored as completed.
Moving(c) ==
  /\ status[c] \in {"IN_PROGRESS", "WAITING", "COMPLETED"}
  /\ DOMAIN work[c] \subseteq DOMAIN ProcessOf(c).Elements
  /\ \A e \in DOMAIN waiting[c] : shared \/ ~IsCalled(e) =>
       e \in DOMAIN process.Elements /\ process.Elements[e].Type = "userTask"
  /\ status[c] = "IN_PROGRESS" => DOMAIN work[c] # {}
  /\ status[c] = "WAITING" => DOMAIN waiting[c] # {}
  /\ work[c] = EmptyBag => stored[c] = status[c]
  /\ \A e \in endedBy[c] : ~IsCalled(e)

OnTheWay ==
  Walks /\ Fit =>
    /\ (shared => calls <= 1) => Whole(process)
    /\ \A c \in Cases : status[c] # "none" =>
         /\ ~shared => Whole(own[c]) /\ SameOwn(own[c], process)
         /\ Undisturbed(c) => Moving(c)

ReturnInvariant == StoredWell /\ HistoryWell /\ OnTheWay

LEMMA ReturnAtFirst == CallInit => ReturnInvariant
<1> SUFFICES ASSUME CallInit PROVE ReturnInvariant
  OBVIOUS
<1>1. /\ process = NewProcess /\ phase = "items" /\ calls = 0
      /\ waiting = [c \in Cases |-> EmptyBag] /\ endedBy = [c \in Cases |-> {}]
      /\ stored = [c \in Cases |-> "CREATED"]
  BY DEF CallInit, Init
<1>2. process.Start = None /\ Rooted(process, document)
  <2>1. NewProcess.Start = None /\ DOMAIN NewProcess.Elements = {}
    BY DEF NewProcess
  <2> QED
    BY <1>1, <2>1 DEF Rooted
<1>3. CalledSound(called) /\ CalledKnown(called)
  <2>1. CASE document \in Deployed
    <3>1. PICK doc \in CalledDocuments : called = ParsedFlat(doc)
      BY <2>1 DEF CallInit
    <3> QED
      BY <3>1, CallAssumption, ParsedSound
  <2>2. CASE document \notin Deployed
    BY <2>2, NothingSound DEF CallInit
  <2> QED
    BY <2>1, <2>2
<1>4. StoredWell
  BY <1>1, <1>2, <1>3 DEF StoredWell
<1>5. HistoryWell
  BY <1>1 DEF HistoryWell
<1>6. OnTheWay
  BY <1>1 DEF OnTheWay, Walks, Parsed
<1> QED
  BY <1>4, <1>5, <1>6 DEF ReturnInvariant

\* Parse.
LEMMA ReturnParse ==
  ASSUME DrawnInvariant, DrawnInvariant', ReturnInvariant, Parse, UNCHANGED <<shared, callVars>>
  PROVE  ReturnInvariant'
<1>1. document \in Documents /\ IsDocument(document) /\ WellFormed(document) /\ Len(document) \in Nat
  BY DocumentAssumption DEF DrawnInvariant, ParseInvariant, IsDocument, WellFormed
<1>2. document' = document /\ phase # "parsed" /\ read \in 0..Len(document)
  BY DEF DrawnInvariant, ParseInvariant, Parse, ParseItem, WireFlows, AddSyntheticFlows, RouteExits,
         CollectConditions, Then
<1>3. /\ UNCHANGED <<called, own, work, waiting, status, stored, endedBy, calls, resumedIn, aborted>>
      /\ shared' = shared
  BY DEF callVars
<1>4. calls = 0 /\ \A c \in Cases : status[c] = "none"
  BY <1>2 DEF ReturnInvariant, HistoryWell, DrawnInvariant, RunInvariant, Walks, Parsed
<1>5. phase = "items" => Rooted(process, document)
  BY DEF ReturnInvariant, StoredWell
<1>6. phase # "items" => Sound(process, document)
  BY <1>4 DEF ReturnInvariant, StoredWell, Untouched
<1>7. ASSUME ParseItem
      PROVE  phase' = "items" /\ Rooted(process', document)
  <2>1. /\ read < Len(document) /\ phase = "items" /\ phase' = "items"
        /\ DOMAIN process = ProcessFields
    BY <1>7 DEF ParseItem, DrawnInvariant, ParseInvariant, ItemsRead, Top
  <2>2. PICK m, i : m = read + 1 /\ i = document[m]
    OBVIOUS
  <2>3. m \in 1..Len(document) /\ i = item
    BY <1>1, <1>2, <2>1, <2>2 DEF item
  <2>4. ASSUME i.tag = "subProcess"
        PROVE  Rooted(process', document)
    <3>1. PICK end \in FirstEnd(i) : process' = flattenSubProcess(process, i, end)
      BY <1>7, <2>3, <2>4 DEF ParseItem
    <3>2. Rooted(flattenSubProcess(process, i, end), document)
      BY <1>1, <1>5, <2>1, <2>2, <2>3, <2>4, RootedFlattened
    <3> QED
      BY <3>1, <3>2
  <2>5. ASSUME i.tag # "subProcess"
        PROVE  Rooted(process', document)
    <3>1. process' = ReadItem(process, i)
      BY <1>7, <2>3, <2>5 DEF ParseItem
    <3>2. Rooted(ReadItem(process, i), document)
      BY <1>1, <1>5, <2>1, <2>2, <2>3, <2>5, RootedRead
    <3> QED
      BY <3>1, <3>2
  <2> QED
    BY <2>1, <2>4, <2>5
<1>8. ASSUME ~ParseItem
      PROVE  phase' # "items" /\ Sound(process', document)
  <2>1. CASE WireFlows
    <3>1. /\ phase' = "synthetic" /\ process' = wireFlows(process) /\ phase = "items"
          /\ ItemsRead(process, document, Len(document))
      BY <2>1 DEF WireFlows, Then, DrawnInvariant, ParseInvariant
    <3>2. Sound(wireFlows(process), document)
      BY <1>1, <1>5, <3>1, SoundWired
    <3> QED
      BY <3>1, <3>2
  <2>2. CASE AddSyntheticFlows
    <3>1. /\ phase' = "exits" /\ process' = SyntheticFlows(process) /\ phase # "items"
          /\ Elementary(process)
      BY <2>2 DEF AddSyntheticFlows, Then, DrawnInvariant, ParseInvariant, AllWired
    <3>2. Sound(SyntheticFlows(process), document)
      BY <1>6, <3>1, SoundSynthesis
    <3> QED
      BY <3>1, <3>2
  <2>3. CASE RouteExits
    <3>1. /\ phase' = "conditions" /\ process' = ExitRouting(process) /\ phase # "items"
          /\ Elementary(process)
      BY <2>3 DEF RouteExits, Then, DrawnInvariant, ParseInvariant, AllDone
    <3>2. Sound(ExitRouting(process), document)
      BY <1>6, <3>1, SoundExits
    <3> QED
      BY <3>1, <3>2
  <2>4. CASE CollectConditions
    <3>1. /\ phase' = "parsed" /\ process' = GatewayConditions(process) /\ phase # "items"
          /\ Elementary(process)
      BY <2>4 DEF CollectConditions, Then, DrawnInvariant, ParseInvariant
    <3>2. Sound(GatewayConditions(process), document)
      BY <1>6, <3>1, SoundConditions
    <3> QED
      BY <3>1, <3>2
  <2> QED
    BY <1>8, <2>1, <2>2, <2>3, <2>4 DEF Parse
<1>9. StoredWell'
  <2>1. process'.Start \in DOMAIN process'.Elements \cup {None}
    BY <1>7, <1>8 DEF Sound, Rooted
  <2>2. CalledSound(called) /\ CalledKnown(called)
    BY <1>4 DEF ReturnInvariant, StoredWell, Untouched
  <2> QED
    BY <1>2, <1>3, <1>7, <1>8, <2>1, <2>2 DEF StoredWell
<1>10. HistoryWell'
  BY <1>3, <1>4 DEF ReturnInvariant, HistoryWell
<1>11. OnTheWay'
  <2>1. ASSUME Walks', Fit'
        PROVE  Whole(process')
    <3>1. phase' = "parsed" /\ Sound(process', document)
      BY <1>7, <1>8, <2>1 DEF Walks, Parsed
    <3>2. AsDrawn(process', document)
      BY <1>2, <3>1 DEF DrawnInvariant, ParseInvariant
    <3>3. LeadsOn(process')
      BY <2>1 DEF Fit
    <3> QED
      BY <1>1, <3>1, <3>2, <3>3, DrawnWhole
  <2> QED
    BY <1>3, <1>4, <2>1 DEF OnTheWay
<1> QED
  BY <1>9, <1>10, <1>11 DEF ReturnInvariant

\* A step of one case that writes into no process.
LEMMA ReturnStep ==
  ASSUME ReturnInvariant, Walks,
         UNCHANGED <<document, phase, shared, process, called, calls>>,
         NEW c \in Cases, DOMAIN waiting' = Cases, DOMAIN endedBy' = Cases, DOMAIN stored' = Cases,
         resumedIn \subseteq resumedIn', aborted \subseteq aborted', status'[c] # "none",
         \A d \in Cases \ {c} :
           /\ own'[d] = own[d] /\ work'[d] = work[d] /\ waiting'[d] = waiting[d]
           /\ status'[d] = status[d] /\ stored'[d] = stored[d] /\ endedBy'[d] = endedBy[d],
         Fit => /\ ~shared => Whole(own'[c]) /\ SameOwn(own'[c], process)
                /\ Undisturbed(c)' => Moving(c)'
  PROVE  ReturnInvariant'
<1>1. StoredWell'
  BY DEF ReturnInvariant, StoredWell, Untouched
<1>2. HistoryWell'
  BY DEF ReturnInvariant, HistoryWell, Walks, Parsed
<1>3. ASSUME Walks', Fit'
      PROVE  /\ (shared' => calls' <= 1) => Whole(process')
             /\ \A d \in Cases : status'[d] # "none" =>
                  /\ ~shared' => Whole(own'[d]) /\ SameOwn(own'[d], process')
                  /\ Undisturbed(d)' => Moving(d)'
  <2>1. Fit
    BY <1>3 DEF Fit, Callable
  <2>2. (shared => calls <= 1) => Whole(process)
    BY <2>1 DEF ReturnInvariant, OnTheWay
  <2>3. ASSUME NEW d \in Cases, status'[d] # "none", d # c
        PROVE  /\ ~shared' => Whole(own'[d]) /\ SameOwn(own'[d], process')
               /\ Undisturbed(d)' => Moving(d)'
    <3>1. status[d] # "none"
      BY <2>3
    <3>2. /\ ~shared => Whole(own[d]) /\ SameOwn(own[d], process)
          /\ Undisturbed(d) => Moving(d)
      BY <2>1, <3>1 DEF ReturnInvariant, OnTheWay
    <3>3. Undisturbed(d)' => Undisturbed(d)
      BY DEF Undisturbed
    <3>4. Moving(d) => Moving(d)'
      BY <2>3 DEF Moving, ProcessOf
    <3> QED
      BY <2>3, <3>2, <3>3, <3>4
  <2> QED
    BY <2>1, <2>2, <2>3
<1>4. OnTheWay'
  BY <1>3 DEF OnTheWay
<1> QED
  BY <1>1, <1>2, <1>4 DEF ReturnInvariant

\* What is left of a bag of work, and what comes to it.
LEMMA WorkDone ==
  ASSUME NEW B, NEW e, NEW next
  PROVE  /\ DOMAIN next \subseteq DOMAIN ((B (-) SetToBag({e})) (+) next)
         /\ DOMAIN ((B (-) SetToBag({e})) (+) next) \subseteq DOMAIN B \cup DOMAIN next
         /\ DOMAIN (B (-) SetToBag({e})) \subseteq DOMAIN B
BY DEF (+), (-), BagToSet

LEMMA WorkAdded ==
  ASSUME NEW B, NEW S
  PROVE  DOMAIN (B (+) SetToBag(S)) = DOMAIN B \cup S
BY DEF (+), BagToSet, SetToBag

LEMMA NoWork == DOMAIN EmptyBag = {}
BY DEF EmptyBag, SetToBag

\* What a run leaves: at its end the instance is stored, unless the run is given up.
LEMMA WhatIsLeft ==
  ASSUME NEW c \in Cases, NEW left, NEW state, RunLeft(c, left, state),
         DOMAIN work = Cases, DOMAIN status = Cases, DOMAIN stored = Cases
  PROVE  /\ work'[c] = left /\ status'[c] = state /\ DOMAIN stored' = Cases
         /\ \A d \in Cases \ {c} :
              work'[d] = work[d] /\ status'[d] = status[d] /\ stored'[d] = stored[d]
         /\ aborted \subseteq aborted'
         /\ left = EmptyBag /\ c \notin aborted' => stored'[c] = state
<1>1. CASE left = EmptyBag
  BY <1>1 DEF RunLeft, Finalize
<1>2. CASE left # EmptyBag
  BY <1>2 DEF RunLeft
<1> QED
  BY <1>1, <1>2

LEMMA ReturnStart ==
  ASSUME DrawnInvariant, ReturnInvariant, UNCHANGED <<document, phase, read, shared>>,
         NEW c \in Cases, Start(c)
  PROVE  ReturnInvariant'
<1>1. /\ Walks /\ status[c] = "none" /\ process.Start # None
      /\ own' = IF shared THEN own ELSE [own EXCEPT ![c] = process]
      /\ work' = [work EXCEPT ![c] = SetToBag({process.Start})]
      /\ status' = [status EXCEPT ![c] = "IN_PROGRESS"]
      /\ UNCHANGED <<process, called, waiting, stored, endedBy, calls, resumedIn, aborted>>
  BY DEF Start
<1>2. /\ DOMAIN own = Cases /\ DOMAIN work = Cases /\ DOMAIN status = Cases
      /\ DOMAIN waiting = Cases /\ DOMAIN endedBy = Cases /\ DOMAIN stored = Cases
      /\ waiting[c] = EmptyBag /\ endedBy[c] = {}
  BY <1>1 DEF DrawnInvariant, RunInvariant, ReturnInvariant, HistoryWell
<1>3. process.Start \in DOMAIN process.Elements
  BY <1>1 DEF ReturnInvariant, StoredWell
<1>4. /\ status'[c] = "IN_PROGRESS" /\ waiting'[c] = EmptyBag /\ endedBy'[c] = {}
      /\ work'[c] = SetToBag({process.Start}) /\ (~shared => own'[c] = process)
      /\ \A d \in Cases \ {c} :
           /\ own'[d] = own[d] /\ work'[d] = work[d] /\ waiting'[d] = waiting[d]
           /\ status'[d] = status[d] /\ endedBy'[d] = endedBy[d]
  BY <1>1, <1>2
<1>5. DOMAIN work'[c] = {process.Start}
  BY <1>4 DEF SetToBag
<1>6. ProcessOf(c)' = process
  BY <1>1, <1>4 DEF ProcessOf
<1>7. Moving(c)'
  BY <1>3, <1>4, <1>5, <1>6, NoWork DEF Moving
<1>8. Fit /\ ~shared => Whole(process)
  BY <1>1 DEF ReturnInvariant, OnTheWay
<1>9. SameOwn(process, process)
  BY DEF SameOwn, OwnElements
<1> QED
  BY <1>1, <1>2, <1>4, <1>7, <1>8, <1>9, ReturnStep

\* What a case that executes a flow stands on.
LEMMA Executing ==
  ASSUME DrawnInvariant, ReturnInvariant, NEW c \in Cases, work[c] # EmptyBag \/ status[c] # "none"
  PROVE  /\ Walks /\ status[c] # "none" /\ shared \in BOOLEAN
         /\ DOMAIN own = Cases /\ DOMAIN work = Cases /\ DOMAIN status = Cases
         /\ DOMAIN waiting = Cases /\ DOMAIN endedBy = Cases /\ DOMAIN stored = Cases
         /\ Fit => (~shared => Whole(own[c]) /\ SameOwn(own[c], process))
         /\ Fit /\ Undisturbed(c) => Moving(c) /\ Whole(ProcessOf(c))
<1>1. /\ status[c] # "none" /\ Walks /\ shared \in BOOLEAN
      /\ DOMAIN own = Cases /\ DOMAIN work = Cases /\ DOMAIN status = Cases
  BY DEF DrawnInvariant, RunInvariant
<1>2. DOMAIN waiting = Cases /\ DOMAIN endedBy = Cases /\ DOMAIN stored = Cases
  BY DEF ReturnInvariant, HistoryWell
<1>3. Fit => /\ (shared => calls <= 1) => Whole(process)
             /\ ~shared => Whole(own[c]) /\ SameOwn(own[c], process)
             /\ Undisturbed(c) => Moving(c)
  BY <1>1 DEF ReturnInvariant, OnTheWay
<1>4. Fit /\ Undisturbed(c) => Whole(ProcessOf(c))
  BY <1>1, <1>3 DEF Undisturbed, ProcessOf
<1> QED
  BY <1>1, <1>2, <1>3, <1>4

\* Where the case that executes element e is brought to.
Onward(c, next) ==
  /\ status[c] \in {"IN_PROGRESS", "WAITING", "COMPLETED"}
  /\ DOMAIN next \subseteq DOMAIN ProcessOf(c).Elements
  /\ \A e \in DOMAIN waiting[c] : shared \/ ~IsCalled(e) =>
       e \in DOMAIN process.Elements /\ process.Elements[e].Type = "userTask"
  /\ status[c] = "IN_PROGRESS" => DOMAIN next # {}
  /\ status[c] = "WAITING" => DOMAIN waiting[c] # {}
  /\ \A e \in endedBy[c] : ~IsCalled(e)

LEMMA ReturnExecuted ==
  ASSUME DrawnInvariant, ReturnInvariant, UNCHANGED <<document, phase, read, shared>>,
         NEW c \in Cases, NEW e \in BagToSet(work[c]), NEW next, NEW state, state # "none",
         Executed(c, e, next, state), UNCHANGED <<process, called, own, calls, resumedIn>>,
         DOMAIN waiting' = Cases, DOMAIN endedBy' = Cases,
         \A d \in Cases \ {c} : waiting'[d] = waiting[d] /\ endedBy'[d] = endedBy[d],
         Fit /\ Moving(c) /\ Whole(ProcessOf(c)) => Onward(c, next)'
  PROVE  ReturnInvariant'
<1>1. work[c] # EmptyBag
  BY NoWork DEF BagToSet
<1>2. /\ Walks /\ DOMAIN own = Cases /\ DOMAIN work = Cases /\ DOMAIN status = Cases
      /\ DOMAIN stored = Cases
      /\ Fit => (~shared => Whole(own[c]) /\ SameOwn(own[c], process))
      /\ Fit /\ Undisturbed(c) => Moving(c) /\ Whole(ProcessOf(c))
  BY <1>1, Executing
<1>3. PICK left : left = (work[c] (-) SetToBag({e})) (+) next /\ RunLeft(c, left, state)
  BY DEF Executed
<1>4. /\ work'[c] = left /\ status'[c] = state /\ DOMAIN stored' = Cases
      /\ \A d \in Cases \ {c} :
           /\ own'[d] = own[d] /\ work'[d] = work[d]
           /\ status'[d] = status[d] /\ stored'[d] = stored[d]
      /\ aborted \subseteq aborted'
      /\ left = EmptyBag /\ c \notin aborted' => stored'[c] = state
  BY <1>2, <1>3, WhatIsLeft
<1>5. DOMAIN next \subseteq DOMAIN work'[c] /\ DOMAIN work'[c] \subseteq DOMAIN work[c] \cup DOMAIN next
  <2>1. DOMAIN next \subseteq DOMAIN left /\ DOMAIN left \subseteq DOMAIN work[c] \cup DOMAIN next
    BY <1>3, WorkDone
  <2> QED
    BY <1>4, <2>1
<1>6. ASSUME Fit, Undisturbed(c)'
      PROVE  Moving(c)'
  <2>1. Undisturbed(c) /\ ProcessOf(c)' = ProcessOf(c) /\ c \notin aborted'
    BY <1>4, <1>6 DEF Undisturbed, ProcessOf
  <2>2. Moving(c) /\ Whole(ProcessOf(c))
    BY <1>2, <1>6, <2>1
  <2>3. Onward(c, next)'
    BY <1>6, <2>2
  <2>4. DOMAIN work[c] \subseteq DOMAIN ProcessOf(c).Elements
    BY <2>2 DEF Moving
  <2>5. work'[c] = EmptyBag => stored'[c] = status'[c]
    BY <1>4, <2>1
  <2>6. status'[c] = "IN_PROGRESS" => DOMAIN work'[c] # {}
    BY <1>5, <2>3 DEF Onward
  <2> QED
    BY <1>5, <2>1, <2>3, <2>4, <2>5, <2>6 DEF Moving, Onward
<1> QED
  BY <1>2, <1>4, <1>6, ReturnStep

\* Elements that route on, sub-processes and end events inside of a scope.
LEMMA ReturnRouted ==
  ASSUME DrawnInvariant, ReturnInvariant, UNCHANGED <<document, phase, read, shared>>,
         NEW c \in Cases, NEW e \in BagToSet(work[c]), NEW F,
         Executed(c, e, RouteTo(ProcessOf(c), e, F), status[c]),
         UNCHANGED <<process, called, own, calls, resumedIn, waiting, endedBy>>,
         Whole(ProcessOf(c)) => Out(ProcessOf(c), e) \cap F # {}
  PROVE  ReturnInvariant'
<1>1. work[c] # EmptyBag
  BY NoWork DEF BagToSet
<1>2. /\ status[c] # "none" /\ DOMAIN waiting = Cases /\ DOMAIN endedBy = Cases
      /\ DOMAIN work = Cases /\ DOMAIN status = Cases /\ DOMAIN stored = Cases
  BY <1>1, Executing
<1>3. PICK P, next : P = ProcessOf(c) /\ next = RouteTo(P, e, F)
  OBVIOUS
<1>4. Whole(P) => DOMAIN next # {} /\ DOMAIN next \subseteq DOMAIN P.Elements
  BY <1>3, WholeRoutes
<1>5. ProcessOf(c)' = P
  BY <1>3 DEF ProcessOf
<1>6. Executed(c, e, next, status[c])
  BY <1>3
<1>7. status'[c] = status[c]
  BY <1>2, <1>6, WhatIsLeft DEF Executed
<1>8. Moving(c) /\ Whole(P) => Onward(c, next)'
  BY <1>4, <1>5, <1>7 DEF Moving, Onward
<1> QED
  BY <1>2, <1>3, <1>6, <1>8, ReturnExecuted

LEMMA ReturnPasses ==
  ASSUME DrawnInvariant, ReturnInvariant, UNCHANGED <<document, phase, read, shared>>,
         NEW c \in Cases, NEW e \in BagToSet(work[c]), e \in DOMAIN ProcessOf(c).Elements,
         Passes(c, e) \/ Enters(c, e)
  PROVE  ReturnInvariant'
<1>1. PICK P : P = ProcessOf(c)
  OBVIOUS
<1>2. UNCHANGED <<process, called, own, calls, resumedIn, waiting, endedBy>>
  BY DEF Passes, Enters
<1>3. CASE Passes(c, e)
  <2>1. /\ P.Elements[e].Type \notin {"endEvent", "subProcess"}
        /\ Executed(c, e, RouteTo(P, e, DOMAIN P.Flows), status[c])
    BY <1>1, <1>3 DEF Passes, Route
  <2>2. Whole(P) => Out(P, e) \cap DOMAIN P.Flows # {}
    BY <1>1, <2>1 DEF Whole, Out
  <2> QED
    BY <1>1, <1>2, <2>1, <2>2, ReturnRouted
<1>4. CASE Enters(c, e)
  <2>1. P.Elements[e].Type = "subProcess" /\ Executed(c, e, RouteTo(P, e, {Entry(e)}), status[c])
    BY <1>1, <1>4 DEF Enters
  <2>2. Whole(P) => Out(P, e) \cap {Entry(e)} # {}
    BY <1>1, <2>1 DEF Whole
  <2> QED
    BY <1>1, <1>2, <2>1, <2>2, ReturnRouted
<1> QED
  BY <1>3, <1>4

LEMMA ReturnEnds ==
  ASSUME DrawnInvariant, ReturnInvariant, UNCHANGED <<document, phase, read, shared>>,
         NEW c \in Cases, NEW e \in BagToSet(work[c]), e \in DOMAIN ProcessOf(c).Elements,
         Ends(c, e)
  PROVE  ReturnInvariant'
<1>1. PICK P, exits : P = ProcessOf(c) /\ exits = P.Elements[e].ExitFlows
  OBVIOUS
<1>2. work[c] # EmptyBag
  BY NoWork DEF BagToSet
<1>3. /\ status[c] # "none" /\ DOMAIN status = Cases /\ DOMAIN work = Cases /\ DOMAIN stored = Cases
      /\ DOMAIN waiting = Cases /\ DOMAIN endedBy = Cases
  BY <1>2, Executing
<1>4. PICK next, state :
        /\ next = (IF exits = {} THEN EmptyBag ELSE RouteTo(P, e, exits))
        /\ state = (IF next = EmptyBag THEN TryComplete(status[c]) ELSE status[c])
  OBVIOUS
<1>5. /\ P.Elements[e].Type = "endEvent" /\ Executed(c, e, next, state)
      /\ endedBy' = [endedBy EXCEPT ![c] = IF next = EmptyBag THEN @ \cup {e} ELSE @]
      /\ UNCHANGED <<process, called, own, waiting, calls, resumedIn>>
  BY <1>1, <1>4 DEF Ends
<1>6. /\ DOMAIN endedBy' = Cases
      /\ endedBy'[c] = IF next = EmptyBag THEN endedBy[c] \cup {e} ELSE endedBy[c]
      /\ \A d \in Cases \ {c} : endedBy'[d] = endedBy[d]
  BY <1>3, <1>5
<1>7. state # "none"
  BY <1>3, <1>4 DEF TryComplete
<1>8. status'[c] = state /\ ProcessOf(c)' = P
  BY <1>1, <1>3, <1>5, WhatIsLeft DEF Executed, ProcessOf
<1>9. Moving(c) /\ Whole(P) => Onward(c, next)'
  <2> SUFFICES ASSUME Moving(c), Whole(P) PROVE Onward(c, next)'
    OBVIOUS
  <2>1. CASE exits # {}
    <3>1. Out(P, e) \cap exits # {}
      BY <1>1, <1>5, <2>1 DEF Whole
    <3>2. DOMAIN next # {} /\ DOMAIN next \subseteq DOMAIN P.Elements
      BY <1>4, <2>1, <3>1, WholeRoutes
    <3>3. next # EmptyBag
      BY <3>2, NoWork
    <3> QED
      BY <1>4, <1>5, <1>6, <1>8, <3>2, <3>3 DEF Moving, Onward
  <2>2. CASE exits = {}
    <3>1. ~IsCalled(e)
      BY <1>1, <1>5, <2>2 DEF Whole
    <3>2. next = EmptyBag /\ DOMAIN next = {}
      BY <1>4, <2>2, NoWork
    <3>3. \A s \in {"IN_PROGRESS", "WAITING", "COMPLETED"} :
            /\ TryComplete(s) \in {"WAITING", "COMPLETED"}
            /\ TryComplete(s) = "WAITING" => s = "WAITING"
      BY DEF TryComplete, IsValidTransition, ValidTransitions, State
    <3>4. status[c] \in {"IN_PROGRESS", "WAITING", "COMPLETED"}
      BY DEF Moving
    <3>5. state \in {"WAITING", "COMPLETED"} /\ (state = "WAITING" => status[c] = "WAITING")
      BY <1>4, <3>2, <3>3, <3>4
    <3>6. /\ \A x \in DOMAIN waiting[c] : shared \/ ~IsCalled(x) =>
               x \in DOMAIN process.Elements /\ process.Elements[x].Type = "userTask"
          /\ status[c] = "WAITING" => DOMAIN waiting[c] # {}
          /\ \A x \in endedBy[c] : ~IsCalled(x)
      BY DEF Moving
    <3>7. \A x \in endedBy'[c] : ~IsCalled(x)
      BY <1>6, <3>1, <3>6
    <3> QED
      BY <1>5, <1>8, <3>2, <3>5, <3>6, <3>7 DEF Onward
  <2> QED
    BY <2>1, <2>2
<1> QED
  BY <1>1, <1>3, <1>5, <1>6, <1>7, <1>9, ReturnExecuted

LEMMA ReturnWaits ==
  ASSUME DrawnInvariant, ReturnInvariant, UNCHANGED <<document, phase, read, shared>>,
         NEW c \in Cases, NEW e \in BagToSet(work[c]), e \in DOMAIN ProcessOf(c).Elements,
         Waits(c, e)
  PROVE  ReturnInvariant'
<1>1. work[c] # EmptyBag
  BY NoWork DEF BagToSet
<1>2. /\ Walks /\ status[c] # "none" /\ shared \in BOOLEAN
      /\ DOMAIN work = Cases /\ DOMAIN status = Cases /\ DOMAIN stored = Cases
      /\ DOMAIN waiting = Cases /\ DOMAIN endedBy = Cases
      /\ Fit => (~shared => Whole(own[c]) /\ SameOwn(own[c], process))
  BY <1>1, Executing
<1>3. /\ ProcessOf(c).Elements[e].Type = "userTask"
      /\ waiting' = [waiting EXCEPT ![c] = @ (+) SetToBag({e})]
      /\ UNCHANGED <<process, called, own, endedBy, calls, resumedIn>>
  BY DEF Waits
<1>4. /\ DOMAIN waiting' = Cases /\ waiting'[c] = waiting[c] (+) SetToBag({e})
      /\ \A d \in Cases \ {c} : waiting'[d] = waiting[d]
  BY <1>2, <1>3
<1>5. CASE IsValidTransition(status[c], "WAITING")
  <2>1. Executed(c, e, EmptyBag, "WAITING")
    BY <1>5 DEF Waits
  <2>2. DOMAIN waiting'[c] = DOMAIN waiting[c] \cup {e}
    BY <1>4, WorkAdded
  <2>3. ASSUME Fit, shared \/ ~IsCalled(e)
        PROVE  e \in DOMAIN process.Elements /\ process.Elements[e].Type = "userTask"
    <3>1. CASE shared
      BY <1>3, <3>1 DEF ProcessOf
    <3>2. CASE ~shared
      <4>1. e \in OwnElements(own[c]) /\ own[c].Elements[e].Type = "userTask"
        BY <1>3, <2>3, <3>2 DEF OwnElements, ProcessOf
      <4> QED
        BY <1>2, <2>3, <3>2, <4>1 DEF SameOwn
    <3> QED
      BY <1>2, <3>1, <3>2
  <2>4. status'[c] = "WAITING"
    BY <1>2, <2>1, WhatIsLeft DEF Executed
  <2>5. Fit /\ Moving(c) => Onward(c, EmptyBag)'
    BY <1>3, <2>2, <2>3, <2>4, NoWork DEF Moving, Onward, ProcessOf
  <2> QED
    BY <1>2, <1>3, <1>4, <2>1, <2>5, ReturnExecuted
<1>6. CASE ~IsValidTransition(status[c], "WAITING")
  <2>1. /\ work' = [work EXCEPT ![c] = EmptyBag] /\ UNCHANGED <<status, stored>>
        /\ aborted' = aborted \cup {c}
    BY <1>6 DEF Waits, Lost
  <2>2. ~Undisturbed(c)'
    BY <2>1 DEF Undisturbed
  <2>3. \A d \in Cases \ {c} : work'[d] = work[d]
    BY <1>2, <2>1
  <2> QED
    BY <1>2, <1>3, <1>4, <2>1, <2>2, <2>3, ReturnStep
<1> QED
  BY <1>5, <1>6

\* A run that ends with an error: an undisturbed case does not come to an element that
\* is not there, and one that is given up is not undisturbed.
LEMMA ReturnLost ==
  ASSUME DrawnInvariant, ReturnInvariant, UNCHANGED <<document, phase, read, shared>>,
         NEW c \in Cases, Aborts(c) \/ \E e \in BagToSet(work[c]) : Breaks(c, e)
  PROVE  ReturnInvariant'
<1>1. work[c] # EmptyBag
  BY NoWork DEF Aborts, BagToSet
<1>2. /\ Walks /\ status[c] # "none" /\ shared \in BOOLEAN
      /\ DOMAIN own = Cases /\ DOMAIN work = Cases /\ DOMAIN status = Cases
      /\ DOMAIN waiting = Cases /\ DOMAIN endedBy = Cases /\ DOMAIN stored = Cases
      /\ Fit => (~shared => Whole(own[c]) /\ SameOwn(own[c], process))
      /\ Fit /\ Undisturbed(c) => Moving(c) /\ Whole(ProcessOf(c))
  BY <1>1, Executing
<1>3. /\ work' = [work EXCEPT ![c] = EmptyBag]
      /\ UNCHANGED <<process, called, own, waiting, status, stored, endedBy, calls, resumedIn>>
      /\ aborted \subseteq aborted'
  BY DEF Aborts, Breaks, Lost
<1>4. ~(Fit /\ Undisturbed(c)')
  <2>1. CASE Aborts(c)
    BY <2>1 DEF Aborts, Undisturbed
  <2>2. CASE \E e \in BagToSet(work[c]) : Breaks(c, e)
    <3>1. PICK e \in BagToSet(work[c]) : Breaks(c, e)
      BY <2>2
    <3>2. (e \in DOMAIN ProcessOf(c).Elements => called.Start = None) /\ aborted' = aborted
      BY <3>1 DEF Breaks
    <3> QED
      BY <1>2, <1>3, <3>1, <3>2 DEF Fit, Callable, Moving, BagToSet, Undisturbed
  <2> QED
    BY <2>1, <2>2
<1>5. \A d \in Cases \ {c} : work'[d] = work[d]
  BY <1>2, <1>3
<1> QED
  BY <1>2, <1>3, <1>4, <1>5, ReturnStep

LEMMA ReturnResumes ==
  ASSUME DrawnInvariant, ReturnInvariant, UNCHANGED <<document, phase, read, shared>>,
         NEW c \in Cases, Resume(c)
  PROVE  ReturnInvariant'
<1>1. /\ status[c] # "none" /\ work[c] = EmptyBag
      /\ UNCHANGED <<process, called, endedBy, calls>>
  BY DEF Resume
<1>2. /\ Walks /\ shared \in BOOLEAN
      /\ DOMAIN own = Cases /\ DOMAIN work = Cases /\ DOMAIN status = Cases
      /\ DOMAIN waiting = Cases /\ DOMAIN endedBy = Cases /\ DOMAIN stored = Cases
      /\ Fit => (~shared => Whole(own[c]) /\ SameOwn(own[c], process))
      /\ Fit /\ Undisturbed(c) => Moving(c)
  BY <1>1, Executing
<1>3. PICK e \in BagToSet(waiting[c]) :
        /\ waiting' = [waiting EXCEPT ![c] = @ (-) SetToBag({e})]
        /\ IF IsValidTransition(stored[c], "IN_PROGRESS")
           THEN /\ own' = IF shared THEN own ELSE [own EXCEPT ![c] = process]
                /\ resumedIn' = IF IsCalled(e) THEN resumedIn \cup {c} ELSE resumedIn
                /\ RunLeft(c, IF e \in DOMAIN process.Elements THEN Route(process, e) ELSE EmptyBag,
                          "IN_PROGRESS")
           ELSE UNCHANGED <<own, resumedIn, work, status, stored, aborted>>
  BY DEF Resume
<1>4. /\ DOMAIN waiting' = Cases /\ waiting'[c] = waiting[c] (-) SetToBag({e})
      /\ \A d \in Cases \ {c} : waiting'[d] = waiting[d]
  BY <1>2, <1>3
<1>5. DOMAIN waiting'[c] \subseteq DOMAIN waiting[c]
  BY <1>4, WorkDone
<1>6. CASE IsValidTransition(stored[c], "IN_PROGRESS")
  <2>1. PICK left :
          /\ left = (IF e \in DOMAIN process.Elements THEN Route(process, e) ELSE EmptyBag)
          /\ RunLeft(c, left, "IN_PROGRESS")
    BY <1>3, <1>6
  <2>2. /\ own' = IF shared THEN own ELSE [own EXCEPT ![c] = process]
        /\ resumedIn' = IF IsCalled(e) THEN resumedIn \cup {c} ELSE resumedIn
    BY <1>3, <1>6
  <2>3. /\ work'[c] = left /\ status'[c] = "IN_PROGRESS" /\ DOMAIN stored' = Cases
        /\ \A d \in Cases \ {c} :
             work'[d] = work[d] /\ status'[d] = status[d] /\ stored'[d] = stored[d]
        /\ aborted \subseteq aborted'
    BY <1>2, <2>1, WhatIsLeft
  <2>4. /\ resumedIn \subseteq resumedIn' /\ (~shared => own'[c] = process)
        /\ \A d \in Cases \ {c} : own'[d] = own[d]
    BY <1>2, <2>2
  <2>5. Fit => (~shared => Whole(process))
    BY <1>2 DEF ReturnInvariant, OnTheWay
  <2>6. SameOwn(process, process)
    BY DEF SameOwn, OwnElements
  <2>7. ASSUME Fit, Undisturbed(c)'
        PROVE  Moving(c)'
    <3>1. Undisturbed(c) /\ (shared \/ ~IsCalled(e))
      BY <1>1, <2>2, <2>3, <2>7 DEF Undisturbed
    <3>2. Moving(c) /\ e \in DOMAIN waiting[c]
      BY <1>2, <1>3, <2>7, <3>1 DEF BagToSet
    <3>3. e \in DOMAIN process.Elements /\ process.Elements[e].Type = "userTask"
      BY <3>1, <3>2 DEF Moving
    <3>4. Whole(process)
      BY <1>2, <2>7, <3>1 DEF ReturnInvariant, OnTheWay, Undisturbed
    <3>5. left = RouteTo(process, e, DOMAIN process.Flows)
      BY <2>1, <3>3 DEF Route
    <3>6. Out(process, e) \cap DOMAIN process.Flows # {}
      BY <3>3, <3>4 DEF Whole, Out
    <3>7. DOMAIN left # {} /\ DOMAIN left \subseteq DOMAIN process.Elements
      BY <3>4, <3>5, <3>6, WholeRoutes
    <3>8. left # EmptyBag
      BY <3>7, NoWork
    <3>9. ProcessOf(c)' = process
      BY <1>1, <2>4 DEF ProcessOf
    <3>10. /\ \A x \in DOMAIN waiting'[c] : shared \/ ~IsCalled(x) =>
                x \in DOMAIN process.Elements /\ process.Elements[x].Type = "userTask"
           /\ \A x \in endedBy[c] : ~IsCalled(x)
      BY <1>5, <3>2 DEF Moving
    <3> QED
      BY <1>1, <2>3, <3>7, <3>8, <3>9, <3>10 DEF Moving
  <2> QED
    BY <1>1, <1>2, <1>4, <2>3, <2>4, <2>5, <2>6, <2>7, ReturnStep
<1>7. CASE ~IsValidTransition(stored[c], "IN_PROGRESS")
  <2>1. UNCHANGED <<own, resumedIn, work, status, stored, aborted>>
    BY <1>3, <1>7
  <2>2. ASSUME Fit, Undisturbed(c)'
        PROVE  Moving(c)'
    <3>1. Undisturbed(c)
      BY <1>1, <2>1, <2>2 DEF Undisturbed
    <3>2. Moving(c)
      BY <1>2, <2>2, <3>1
    <3>3. status[c] = "COMPLETED"
      <4>1. stored[c] = status[c] /\ status[c] \in {"WAITING", "COMPLETED"}
        BY <1>1, <3>2, NoWork DEF Moving
      <4>2. IsValidTransition("WAITING", "IN_PROGRESS")
        BY DEF IsValidTransition, ValidTransitions, State
      <4> QED
        BY <1>7, <4>1, <4>2
    <3>4. ProcessOf(c)' = ProcessOf(c)
      BY <1>1, <2>1 DEF ProcessOf
    <3> QED
      BY <1>1, <1>5, <2>1, <3>2, <3>3, <3>4 DEF Moving
  <2> QED
    BY <1>1, <1>2, <1>4, <2>1, <2>2, ReturnStep
<1> QED
  BY <1>6, <1>7

\* A call: the first one on a process that is shared, or one on a copy.
LEMMA ReturnCalls ==
  ASSUME DrawnInvariant, ReturnInvariant, CalledListing, UNCHANGED <<document, phase, read, shared>>,
         NEW c \in Cases, NEW e \in BagToSet(work[c]), e \in DOMAIN ProcessOf(c).Elements,
         Calls(c, e)
  PROVE  ReturnInvariant'
<1>1. work[c] # EmptyBag
  BY NoWork DEF BagToSet
<1>2. /\ Walks /\ status[c] # "none" /\ shared \in BOOLEAN
      /\ DOMAIN own = Cases /\ DOMAIN work = Cases /\ DOMAIN status = Cases
      /\ DOMAIN waiting = Cases /\ DOMAIN endedBy = Cases /\ DOMAIN stored = Cases
      /\ Fit => (~shared => Whole(own[c]) /\ SameOwn(own[c], process))
      /\ Fit /\ Undisturbed(c) => Moving(c) /\ Whole(ProcessOf(c))
  BY <1>1, Executing
<1>3. PICK P, prefix, renamed : /\ P = ProcessOf(c) /\ prefix = CallPrefix(e)
                                /\ renamed = RenamedLists(prefix, called)
  OBVIOUS
<1>4. PICK end \in CalledEnd(e) : /\ Replace(c, Flattened(P, renamed, e, end))
                                  /\ called' = IF shared THEN renamed ELSE called
  BY <1>3 DEF Calls
<1>5. PICK w : w = Flattened(P, renamed, e, end)
  OBVIOUS
<1>6. /\ P.Elements[e].Type = "callActivity" /\ called.Start # None /\ calls' = calls + 1
      /\ Executed(c, e, SetToBag({Prefixed(prefix, called.Start)}), status[c])
      /\ UNCHANGED <<waiting, endedBy, resumedIn>>
  BY <1>3 DEF Calls
<1>7. Callee(called) /\ Listing(called) /\ DOMAIN called = ProcessFields /\ CalledSound(called)
  BY DEF DrawnInvariant, RunInvariant, Callee, CalledListing, ReturnInvariant, StoredWell
<1>8. AsDrawn(P, document) /\ IsDocument(document) /\ DOMAIN P = ProcessFields /\ Keys(P) /\ Key(e)
  <2>1. AsDrawn(P, document) /\ IsDocument(document)
    BY <1>2, <1>3, DrawnWhenParsed
  <2> QED
    BY <1>3, <2>1 DEF AsDrawn, Keys
<1>9. /\ CalledSound(renamed) /\ renamed.Start = called.Start
      /\ EndEvents(renamed) = EndEvents(called) /\ (LeadsOn(renamed) => LeadsOn(called))
      /\ Callee(renamed)
  BY <1>3, <1>7, RenamedSound, StaysCallable
<1>10. calls \in Nat
  BY DEF ReturnInvariant, HistoryWell
<1>11. /\ shared => process' = w /\ P = process /\ own' = own
       /\ ~shared => own' = [own EXCEPT ![c] = w] /\ process' = process /\ P = own[c]
  BY <1>3, <1>4, <1>5 DEF Replace, ProcessOf
<1>12. phase = "parsed"
  BY <1>2 DEF Walks, Parsed
\* The first call finds the process as it was parsed.
<1>13. Untouched =>
         /\ shared => \A y \in DOMAIN P.Elements : ~IsCalled(y)
         /\ CalledKnown(called)
  <2>1. ASSUME Untouched, shared
        PROVE  \A y \in DOMAIN P.Elements : ~IsCalled(y)
    <3>1. Sound(process, document)
      BY <1>12, <2>1 DEF ReturnInvariant, StoredWell
    <3> QED
      BY <1>8, <1>11, <2>1, <3>1, SoundNotCalled
  <2> QED
    BY <2>1 DEF ReturnInvariant, StoredWell
<1>14. w.Start = P.Start /\ DOMAIN P.Elements \subseteq DOMAIN w.Elements
  <2>1. DOMAIN w.Elements =
          {Prefixed(CallPrefix(e), x) : x \in DOMAIN renamed.Elements} \cup DOMAIN P.Elements
    BY <1>5, <1>8, CallElements
  <2>2. w.Start = P.Start
    BY <1>5, <1>8 DEF Flattened, ProcessFields
  <2> QED
    BY <2>1, <2>2
<1>15. StoredWell'
  <2>1. process'.Start \in DOMAIN process'.Elements \cup {None}
    BY <1>2, <1>11, <1>14 DEF ReturnInvariant, StoredWell
  <2>2. CASE shared
    <3>1. ~Untouched' /\ called' = renamed
      BY <1>4, <1>6, <1>10, <2>2 DEF Untouched
    <3> QED
      BY <1>9, <1>12, <2>1, <3>1 DEF StoredWell
  <2>3. CASE ~shared
    <3>1. UNCHANGED <<process, called>>
      BY <1>4, <1>11, <2>3
    <3> QED
      BY <1>12, <2>1, <2>3, <3>1 DEF ReturnInvariant, StoredWell, Untouched
  <2> QED
    BY <1>2, <2>2, <2>3
<1>left. PICK left :
           /\ left = (work[c] (-) SetToBag({e})) (+) SetToBag({Prefixed(prefix, called.Start)})
           /\ RunLeft(c, left, status[c])
  BY <1>6 DEF Executed
<1>after. /\ work'[c] = left /\ DOMAIN stored' = Cases /\ aborted \subseteq aborted'
          /\ \A d \in Cases \ {c} : work'[d] = work[d] /\ stored'[d] = stored[d]
          /\ \A d \in Cases : status'[d] = status[d]
  <2>1. PICK state : state = status[c] /\ RunLeft(c, left, state)
    BY <1>left
  <2>2. /\ work'[c] = left /\ status'[c] = state /\ DOMAIN stored' = Cases
        /\ \A d \in Cases \ {c} :
             work'[d] = work[d] /\ status'[d] = status[d] /\ stored'[d] = stored[d]
        /\ aborted \subseteq aborted'
    BY <1>2, <2>1, WhatIsLeft
  <2> QED
    BY <2>1, <2>2
<1>16. HistoryWell'
  BY <1>2, <1>6, <1>10, <1>after DEF ReturnInvariant, HistoryWell, Walks, Parsed
<1>17. ASSUME Untouched, Fit'
       PROVE  Fit
  <2>1. CASE shared
    <3>1. process' = w /\ called' = renamed /\ P = process
      BY <1>4, <1>11, <2>1
    <3>2. LeadsOn(w) /\ LeadsOn(renamed) /\ Cardinality(EndEvents(renamed)) = 1
      BY <1>17, <3>1 DEF Fit, Callable
    <3>3. LeadsOn(P)
      BY <1>5, <1>8, <1>9, <1>13, <1>17, <2>1, <3>2, LedOnBefore
    <3> QED
      BY <1>6, <1>9, <3>1, <3>2, <3>3 DEF Fit, Callable
  <2>2. CASE ~shared
    <3>1. UNCHANGED <<process, called>>
      BY <1>4, <1>11, <2>2
    <3> QED
      BY <1>17, <3>1 DEF Fit, Callable
  <2> QED
    BY <1>2, <2>1, <2>2
<1>18. ASSUME Untouched, Fit
       PROVE  /\ Whole(w) /\ Prefixed(prefix, called.Start) \in DOMAIN w.Elements
              /\ \A y \in OwnElements(w) : y \in DOMAIN P.Elements /\ w.Elements[y] = P.Elements[y]
  <2>1. Whole(P)
    <3>1. CASE shared
      BY <1>2, <1>11, <1>18, <3>1 DEF ReturnInvariant, OnTheWay, Untouched
    <3>2. CASE ~shared
      BY <1>2, <1>11, <1>18, <3>2
    <3> QED
      BY <1>2, <3>1, <3>2
  <2>2. PICK last : EndEvents(called) = {last}
    <3>1. EndEvents(called) \subseteq DOMAIN called.Elements
      BY DEF EndEvents
    <3>2. IsFiniteSet(EndEvents(called)) /\ Cardinality(EndEvents(called)) = 1
      BY <1>7, <1>18, <3>1, FS_Subset DEF CalledSound, Fit, Callable
    <3> QED
      BY <3>2, FS_Singleton
  <2>3. end = Prefixed(prefix, last)
    BY <1>3, <1>4, <2>2 DEF CalledEnd
  <2>4. LeadsOn(called)
    BY <1>18 DEF Fit
  <2> QED
    BY <1>3, <1>5, <1>6, <1>7, <1>8, <1>13, <1>18, <2>1, <2>2, <2>3, <2>4, CallStaysWhole
<1>19. (shared => calls' <= 1) => Untouched
  BY <1>6, <1>10 DEF Untouched
<1>20. /\ work'[c] = (work[c] (-) SetToBag({e})) (+) SetToBag({Prefixed(prefix, called.Start)})
       /\ \A d \in Cases \ {c} : work'[d] = work[d]
       /\ ~shared => own'[c] = w /\ \A d \in Cases \ {c} : own'[d] = own[d]
  BY <1>2, <1>11, <1>left, <1>after
<1>21. /\ Prefixed(prefix, called.Start) \in DOMAIN work'[c]
       /\ DOMAIN work'[c] \subseteq DOMAIN work[c] \cup {Prefixed(prefix, called.Start)}
  <2>1. PICK B, S, D : /\ B = work[c] /\ S = {Prefixed(prefix, called.Start)}
                       /\ D = (B (-) SetToBag({e})) (+) SetToBag(S)
    OBVIOUS
  <2>2. work'[c] = D
    BY <1>20, <2>1
  <2>3. DOMAIN SetToBag(S) = S
    BY DEF SetToBag
  <2>4. DOMAIN SetToBag(S) \subseteq DOMAIN D /\ DOMAIN D \subseteq DOMAIN B \cup DOMAIN SetToBag(S)
    BY <2>1, WorkDone
  <2> QED
    BY <2>1, <2>2, <2>3, <2>4
<1>22. ASSUME Untouched, Fit
       PROVE  /\ Whole(process')
              /\ \A x \in DOMAIN process.Elements :
                   x \in DOMAIN process'.Elements /\ process'.Elements[x] = process.Elements[x]
  <2>1. CASE shared
    <3>1. \A x \in DOMAIN P.Elements : x \in OwnElements(w)
      BY <1>13, <1>14, <1>22, <2>1 DEF OwnElements
    <3> QED
      BY <1>11, <1>18, <1>22, <2>1, <3>1 DEF OwnElements
  <2>2. CASE ~shared
    <3>1. process' = process
      BY <1>11, <2>2
    <3> QED
      BY <1>2, <1>22, <2>2, <3>1 DEF ReturnInvariant, OnTheWay
  <2> QED
    BY <1>2, <2>1, <2>2
<1>23. ASSUME Untouched, Fit, NEW d \in Cases, status'[d] # "none"
       PROVE  /\ ~shared => Whole(own'[d]) /\ SameOwn(own'[d], process')
              /\ Undisturbed(d)' => Moving(d)'
  <2>1. /\ ~shared => Whole(own[d]) /\ SameOwn(own[d], process)
        /\ Undisturbed(d) => Moving(d)
    <3>1. status[d] # "none"
      BY <1>23, <1>after
    <3> QED
      BY <1>23, <3>1, Executing
  <2>2. ASSUME ~shared
        PROVE  Whole(own'[d]) /\ SameOwn(own'[d], process')
    <3>1. CASE d = c
      <4>1. SameOwn(w, process)
        BY <1>11, <1>18, <1>23, <2>1, <2>2, <3>1 DEF SameOwn, OwnElements
      <4> QED
        BY <1>11, <1>18, <1>20, <1>23, <2>2, <3>1, <4>1
    <3>2. CASE d # c
      BY <1>11, <1>20, <2>1, <2>2, <3>2
    <3> QED
      BY <3>1, <3>2
  <2>3. ASSUME Undisturbed(d)'
        PROVE  Moving(d)'
    <3>1. Undisturbed(d)
      BY <1>6, <1>10, <1>after, <2>3 DEF Undisturbed
    <3>2. Moving(d)
      BY <2>1, <3>1
    <3>3. DOMAIN ProcessOf(d).Elements \subseteq DOMAIN ProcessOf(d)'.Elements
      <4>1. CASE shared
        BY <1>11, <1>14, <4>1 DEF ProcessOf
      <4>2. CASE ~shared
        <5>1. CASE d = c
          BY <1>11, <1>14, <1>20, <4>2, <5>1 DEF ProcessOf
        <5>2. CASE d # c
          BY <1>20, <4>2, <5>2 DEF ProcessOf
        <5> QED
          BY <5>1, <5>2
      <4> QED
        BY <1>2, <4>1, <4>2
    <3>4. /\ DOMAIN work'[d] \subseteq DOMAIN ProcessOf(d)'.Elements
          /\ DOMAIN work[d] # {} => DOMAIN work'[d] # {}
          /\ work'[d] = EmptyBag => stored'[d] = status[d]
      <4>1. DOMAIN work[d] \subseteq DOMAIN ProcessOf(d)'.Elements
        BY <3>2, <3>3 DEF Moving
      <4>2. CASE d = c
        <5>1. ProcessOf(c)' = w
          BY <1>2, <1>11, <1>20 DEF ProcessOf
        <5> QED
          BY <1>18, <1>21, <1>23, <4>1, <4>2, <5>1, NoWork
      <4>3. CASE d # c
        BY <1>20, <1>after, <3>2, <4>1, <4>3 DEF Moving
      <4> QED
        BY <4>2, <4>3
    <3>5. \A x \in DOMAIN waiting'[d] : shared' \/ ~IsCalled(x) =>
            x \in DOMAIN process'.Elements /\ process'.Elements[x].Type = "userTask"
      BY <1>6, <1>22, <1>23, <3>2 DEF Moving
    <3> QED
      BY <1>6, <1>after, <3>2, <3>4, <3>5 DEF Moving
  <2> QED
    BY <2>2, <2>3
<1>24. OnTheWay'
  <2>1. ASSUME Walks', Fit'
        PROVE  /\ (shared' => calls' <= 1) => Whole(process')
               /\ \A d \in Cases : status'[d] # "none" =>
                    /\ ~shared' => Whole(own'[d]) /\ SameOwn(own'[d], process')
                    /\ Undisturbed(d)' => Moving(d)'
    <3>1. CASE Untouched
      <4>1. Fit
        BY <1>17, <2>1, <3>1
      <4> QED
        BY <1>22, <1>23, <3>1, <4>1
    <3>2. CASE ~Untouched
      <4>1. shared /\ ~(calls' <= 1)
        BY <1>19, <3>2 DEF Untouched
      <4>2. \A d \in Cases : ~Undisturbed(d)'
        BY <4>1 DEF Undisturbed
      <4> QED
        BY <4>1, <4>2
    <3> QED
      BY <3>1, <3>2
  <2> QED
    BY <2>1 DEF OnTheWay
<1> QED
  BY <1>15, <1>16, <1>24 DEF ReturnInvariant

LEMMA ReturnInvariantHolds == CallSpec => []ReturnInvariant
<1>1. ASSUME DrawnInvariant, DrawnInvariant', CalledListing, ReturnInvariant, CallNext
      PROVE  ReturnInvariant'
  <2>1. CASE Parse /\ UNCHANGED <<shared, callVars>>
    BY <1>1, <2>1, ReturnParse
  <2>2. ASSUME UNCHANGED <<document, phase, read, shared>>, NEW c \in Cases, ExecuteElement(c)
        PROVE  ReturnInvariant'
    <3>1. PICK e \in BagToSet(work[c]) :
            \/ Breaks(c, e)
            \/ /\ e \in DOMAIN ProcessOf(c).Elements
               /\ Passes(c, e) \/ Enters(c, e) \/ Ends(c, e) \/ Waits(c, e) \/ Calls(c, e)
      BY <2>2 DEF ExecuteElement
    <3>2. CASE Breaks(c, e)
      BY <1>1, <2>2, <3>2, ReturnLost
    <3>3. CASE e \in DOMAIN ProcessOf(c).Elements /\ (Passes(c, e) \/ Enters(c, e))
      BY <1>1, <2>2, <3>3, ReturnPasses
    <3>4. CASE e \in DOMAIN ProcessOf(c).Elements /\ Ends(c, e)
      BY <1>1, <2>2, <3>4, ReturnEnds
    <3>5. CASE e \in DOMAIN ProcessOf(c).Elements /\ Waits(c, e)
      BY <1>1, <2>2, <3>5, ReturnWaits
    <3>6. CASE e \in DOMAIN ProcessOf(c).Elements /\ Calls(c, e)
      BY <1>1, <2>2, <3>6, ReturnCalls
    <3> QED
      BY <3>1, <3>2, <3>3, <3>4, <3>5, <3>6
  <2>3. ASSUME UNCHANGED <<document, phase, read, shared>>, NEW c \in Cases,
               Start(c) \/ Aborts(c) \/ Resume(c)
        PROVE  ReturnInvariant'
    BY <1>1, <2>3, ReturnStart, ReturnLost, ReturnResumes
  <2>4. ASSUME Rest, UNCHANGED <<document, phase, read, shared>>
        PROVE  ReturnInvariant'
    <3>1. UNCHANGED <<vars, shared, callVars>>
      BY <2>4 DEF Rest, vars
    <3> QED
      BY <1>1, <3>1
         DEF vars, callVars, ReturnInvariant, StoredWell, HistoryWell, OnTheWay, Untouched, Fit,
             Callable, Walks, Parsed, Undisturbed, Moving, ProcessOf
  <2> QED
    BY <1>1, <2>1, <2>2, <2>3, <2>4 DEF CallNext
<1>2. ASSUME ReturnInvariant, UNCHANGED <<vars, shared, callVars>>
      PROVE  ReturnInvariant'
  BY <1>2
     DEF vars, callVars, ReturnInvariant, StoredWell, HistoryWell, OnTheWay, Untouched, Fit,
         Callable, Walks, Parsed, Undisturbed, Moving, ProcessOf
<1> QED
  BY <1>1, <1>2, ReturnAtFirst, DrawnInvariantHolds, ListingHolds, PTL DEF CallSpec

\* A called process with one end event leads back to the flows behind the call
\* activity: on a process no way through which ends but at an end event, a case comes
\* to rest only once it is stored as completed, with no way of it ended inside of the
\* called process, whatever else runs, as long as no run of it is given up, and a
\* shared process is called from once, or the case is not resumed from inside of the
\* call on a copy that has forgotten it.
THEOREM CallsReturnToTheCase == CallSpec => []CallsReturn
<1>1. ASSUME DrawnInvariant, ReturnInvariant, Fit, NEW c \in Cases, AtRest(c), Undisturbed(c)
      PROVE  CompletedAsDrawn(c)
  <2>1. status[c] # "none" /\ work[c] = EmptyBag /\ waiting[c] = EmptyBag
    BY <1>1 DEF AtRest
  <2>2. Moving(c)
    BY <1>1, <2>1, Executing
  <2> QED
    BY <2>1, <2>2, NoWork DEF Moving, CompletedAsDrawn
<1>2. DrawnInvariant /\ ReturnInvariant => CallsReturn
  BY <1>1 DEF CallsReturn, Fit
<1> QED
  BY <1>2, DrawnInvariantHolds, ReturnInvariantHolds, PTL
=============================================================================
