--------------------------- MODULE MCDefinitions ---------------------------
(***************************************************************************)
(* Small documents on which TLC explores BPMNParser and CallActivity.  As  *)
(* in XML, no two items of a document have the same id.                    *)
(***************************************************************************)
EXTENDS CallActivity, TLC

CONSTANTS c1, c2

Item(tag, name) ==
  [tag |-> tag, id |-> ID(name), source |-> None, target |-> None, condition |-> FALSE,
   default |-> None, conditions |-> {}, attachedTo |-> None, definitions |-> <<>>,
   items |-> <<>>]

FlowItem(name, from, to, condition) ==
  [Item("sequenceFlow", name) EXCEPT !.source = ID(from), !.target = ID(to),
                                     !.condition = condition]

SubProcess(name, items) == [Item("subProcess", name) EXCEPT !.items = items]

\* A start, a gateway with a default flow and a flow in its extensions, two joins.
Nodes ==
  <<Item("startEvent", "s"),
    [Item("exclusiveGateway", "g") EXCEPT !.default = ID("f1"), !.conditions = {ID("f2")}],
    Item("parallelGateway", "j"), Item("endEvent", "e")>>

\* Three flows between any two nodes, two of them perhaps alike.
FlatDocuments ==
  LET names == {"s", "g", "j", "e"} IN
  {Nodes \o <<FlowItem("f1", a, b, FALSE), FlowItem("f2", b, c, TRUE), FlowItem("f3", d, c, TRUE)>> :
     a \in names, b \in names, c \in names, d \in names}

\* Every kind of event, and tags nobody reads.
EventDocuments ==
  {<<[Item(tag, "s") EXCEPT !.definitions = defs, !.attachedTo = ID("t")], Item("startEvent", "s2"),
     Item("task", "t"), Item("textAnnotation", "x"), FlowItem("f1", "s", "t", FALSE)>> :
     tag \in EventTags,
     defs \in {<<>>, <<"timer">>, <<"message">>, <<"signal">>, <<"error">>,
               <<"terminate">>, <<"message", "signal">>}}

\* A sub-process: start, task, two ends, flows between any two of them, and a
\* sub-process inside it; or an exclusive gateway with a default flow and two
\* conditions.  It is drawn with one or two flows out of it, or none, and it may be
\* closed.
InnerItems ==
  LET names == {"is", "it", "e1", "e2"} IN
  {<<Item("startEvent", "is"), Item("userTask", "it"), Item("endEvent", "e1"),
     Item("endEvent", "e2"), SubProcess("sub", <<Item("startEvent", "is")>>),
     FlowItem("i1", "is", a, FALSE), FlowItem("i2", b, c, FALSE)>> :
     a \in names, b \in {"is", "it"}, c \in names}
    \cup {<<Item("userTask", "it"), Item("endEvent", "e1"), FlowItem("i1", "it", "e1", FALSE)>>,
          <<Item("startEvent", "is"), Item("userTask", "it"), FlowItem("i1", "is", "it", FALSE)>>,
          <<Item("startEvent", "is"), Item("endEvent", "e1"),
            [Item("exclusiveGateway", "ig") EXCEPT !.default = ID("i2"), !.conditions = {ID("i3")}],
            FlowItem("i1", "is", "ig", FALSE), FlowItem("i2", "ig", "e1", FALSE),
            FlowItem("i3", "ig", "e1", FALSE), FlowItem("i4", "ig", "e1", TRUE)>>}

SubProcessDocuments ==
  {<<Item("startEvent", "s"), sub, Item("endEvent", "e"),
     FlowItem("f1", "s", "sp", FALSE)>> \o outgoing :
     sub \in {SubProcess("sp", inner) : inner \in InnerItems} \cup {Item("closedSubProcess", "sp")},
     outgoing \in {<<>>, <<FlowItem("f2", "sp", "e", FALSE)>>,
                   <<FlowItem("f2", "sp", "e", FALSE), FlowItem("f3", "sp", "e", FALSE)>>}}

\* One call, two calls in a row, a task beside a call, a call in a sub-process.
CallDocuments ==
  {<<Item("startEvent", "s"), Item("callActivity", "a"), Item("endEvent", "e"),
     FlowItem("f1", "s", "a", FALSE), FlowItem("f2", "a", "e", FALSE)>>,
   <<Item("startEvent", "s"), Item("callActivity", "a"), Item("callActivity", "b"),
     Item("endEvent", "e"),
     FlowItem("f1", "s", "a", FALSE), FlowItem("f2", "a", "b", FALSE), FlowItem("f3", "b", "e", FALSE)>>,
   <<Item("startEvent", "s"), Item("callActivity", "a"), Item("userTask", "t"),
     Item("endEvent", "e"),
     FlowItem("f1", "s", "a", FALSE), FlowItem("f2", "s", "t", FALSE),
     FlowItem("f3", "a", "e", FALSE), FlowItem("f4", "t", "e", FALSE)>>,
   <<Item("startEvent", "s"), Item("endEvent", "e"),
     SubProcess("sp", <<Item("startEvent", "is"), Item("callActivity", "a"), Item("endEvent", "ie"),
                        FlowItem("i1", "is", "a", FALSE), FlowItem("i2", "a", "ie", FALSE)>>),
     FlowItem("f1", "s", "sp", FALSE), FlowItem("f2", "sp", "e", FALSE)>>}

\* Called: a script task, a user task, two ends, no start.
SmallCalled ==
  {<<Item("startEvent", "s"), Item(tag, "t"), Item("endEvent", "e"),
     FlowItem("f1", "s", "t", FALSE), FlowItem("f2", "t", "e", FALSE)>> :
     tag \in {"scriptTask", "userTask"}}
    \cup
  {<<Item("startEvent", "s"), Item("endEvent", "e1"), Item("endEvent", "e2"),
     FlowItem("f1", "s", "e1", FALSE)>>,
   <<Item("scriptTask", "t"), Item("endEvent", "e"), FlowItem("f1", "t", "e", FALSE)>>}

SmallDocuments == FlatDocuments \cup EventDocuments \cup SubProcessDocuments \cup CallDocuments

Symmetry == Permutations(Cases)
=============================================================================
