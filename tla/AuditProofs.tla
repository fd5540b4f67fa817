----------------------------- MODULE AuditProofs -----------------------------
(***************************************************************************)
(* What TLAPS proves of Audit, for every set of runs and cases.            *)
(***************************************************************************)
EXTENDS Audit, TLAPS, FiniteSetTheorems, SequenceTheorems

Event ==
  [run : Runs, type : {"started", "element", "late", "result"}] \cup [run : {None}, type : {"job"}]
Entry == [kind : {"header", "step", "footer"}, event : Event, n : Nat, written : BOOLEAN]
AuditState == [step : Nat, open : BOOLEAN]

\* The events that wait, the states and the trails.
FilesType ==
  /\ DOMAIN handlers \subseteq Event
  /\ state \in [Instances -> AuditState \cup {None}]
  /\ trail \in [Instances -> Seq(Entry)]
  /\ closed \in BOOLEAN

\* How many of the first k entries of a trail are steps.
StepsIn(lines, k) == Cardinality({m \in 1..k : lines[m].kind = "step"})

\* The entries of a trail are numbered.
Numbered(lines) ==
  \A k \in DOMAIN lines :
    lines[k].kind \in {"step", "footer"} => lines[k].n = StepsIn(lines, k)

\* Until the writer is closed its state counts the steps of the trail.
CountInv ==
  ~closed => \A i \in Instances :
    /\ Numbered(trail[i])
    /\ StateOf(i).step = StepsIn(trail[i], Len(trail[i]))

\* The lines before an appended one keep their count, and the new one is counted.
LEMMA AppendedSteps ==
  ASSUME NEW lines \in Seq(Entry), NEW line \in Entry
  PROVE  LET more == Append(lines, line) IN
         /\ more \in Seq(Entry) /\ Len(more) = Len(lines) + 1
         /\ \A k \in 1..Len(lines) : more[k] = lines[k] /\ StepsIn(more, k) = StepsIn(lines, k)
         /\ more[Len(lines) + 1] = line
         /\ StepsIn(more, Len(lines) + 1)
              = StepsIn(lines, Len(lines)) + (IF line.kind = "step" THEN 1 ELSE 0)
         /\ StepsIn(lines, Len(lines)) \in Nat
<1> DEFINE more == Append(lines, line)
           n == Len(lines)
           steps == {m \in 1..n : lines[m].kind = "step"}
<1>1. n \in Nat
  BY LenProperties
<1>2. /\ more \in Seq(Entry) /\ Len(more) = n + 1
      /\ \A k \in 1..n : more[k] = lines[k]
      /\ more[n + 1] = line
  BY AppendProperties
<1> HIDE DEF more
<1>3. \A k \in 1..n : StepsIn(more, k) = StepsIn(lines, k)
  <2> TAKE k \in 1..n
  <2>1. {m \in 1..k : more[m].kind = "step"} = {m \in 1..k : lines[m].kind = "step"}
    BY <1>1, <1>2
  <2> QED
    BY <2>1 DEF StepsIn
<1>4. IsFiniteSet(steps) /\ n + 1 \notin steps /\ Cardinality(steps) \in Nat
  <2>1. IsFiniteSet(1..n) /\ steps \in SUBSET (1..n)
    BY <1>1, FS_Interval
  <2> QED
    BY <1>1, <2>1, FS_Subset, FS_CardinalityType
<1>5. {m \in 1..n+1 : more[m].kind = "step"}
        = IF line.kind = "step" THEN steps \cup {n + 1} ELSE steps
  <2>1. 1..n+1 = (1..n) \cup {n + 1}
    BY <1>1
  <2>2. /\ \A m \in 1..n : more[m].kind = "step" <=> m \in steps
        /\ steps \subseteq 1..n
    BY <1>2
  <2>3. more[n + 1] = line
    BY <1>2
  <2> HIDE DEF n, steps
  <2> QED
    BY <2>1, <2>2, <2>3
<1>6. Cardinality(steps \cup {n + 1}) = Cardinality(steps) + 1
  BY <1>4, FS_AddElement
<1>7. StepsIn(more, n + 1) = Cardinality(steps) + (IF line.kind = "step" THEN 1 ELSE 0)
  <2>1. StepsIn(more, n + 1) = Cardinality({m \in 1..n+1 : more[m].kind = "step"})
    BY DEF StepsIn
  <2> HIDE DEF n, steps
  <2>2. CASE line.kind = "step"
    BY <2>1, <2>2, <1>5, <1>6
  <2>3. CASE line.kind # "step"
    <3>1. Cardinality(steps) \in Nat
      BY <1>4
    <3>2. StepsIn(more, n + 1) = Cardinality(steps)
      BY <2>1, <2>3, <1>5
    <3> QED
      BY <3>1, <3>2, <2>3
  <2> QED
    BY <2>2, <2>3
<1> QED
  BY <1>1, <1>2, <1>3, <1>4, <1>7 DEF more, StepsIn

-----------------------------------------------------------------------------
(* The initial state.                                                      *)

LEMMA InitFiles ==
  ASSUME Init
  PROVE  FilesType /\ CountInv
<1>1. FilesType
  BY EmptySeq DEF Init, FilesType, EmptyBag, SetToBag
<1>2. \A i \in Instances : Numbered(trail[i])
  BY DEF Init, Numbered
<1>3. \A i \in Instances : StateOf(i).step = 0
  BY DEF Init, StateOf, NoState
<1>4. \A i \in Instances : StepsIn(trail[i], Len(trail[i])) = 0
  <2> TAKE i \in Instances
  <2>1. trail[i] = <<>>
    BY DEF Init
  <2>2. {m \in 1..Len(<<>>) : <<>>[m].kind = "step"} = {}
    OBVIOUS
  <2> QED
    BY <2>1, <2>2, FS_EmptySet DEF StepsIn
<1> QED
  BY <1>1, <1>2, <1>3, <1>4 DEF CountInv

-----------------------------------------------------------------------------
(* The bag of handlers.                                                    *)

\* An event that joins or leaves the bag.
LEMMA BagDomains ==
  ASSUME NEW event
  PROVE  /\ DOMAIN (handlers (+) One(event)) \subseteq DOMAIN handlers \cup {event}
         /\ DOMAIN (handlers (-) One(event)) \subseteq DOMAIN handlers
  BY DEF (+), (-), One, SetToBag

-----------------------------------------------------------------------------
(* What an append does to a trail.                                         *)

Append1(i, line) == trail' = [trail EXCEPT ![i] = Append(@, line)]

\* An entry is one more of the trail, in the file or not.
LEMMA EntryAppended ==
  ASSUME NEW i, NEW open, NEW kind \in {"header", "step", "footer"},
         NEW event \in Event, NEW n \in Nat,
         writeFile(i, open, kind, event, n)
  PROVE  \E line \in Entry :
           Append1(i, line) /\ line.kind = kind /\ line.event = event /\ line.n = n
<1>1. PICK written \in BOOLEAN :
        Append1(i, [kind |-> kind, event |-> event, n |-> n, written |-> written])
  BY DEF writeFile, Succeeds, Append1
<1>2. [kind |-> kind, event |-> event, n |-> n, written |-> written] \in Entry
  BY DEF Entry
<1> QED
  BY <1>1, <1>2

\* getOrCreateState returns a state.
LEMMA StateType ==
  ASSUME FilesType, NEW i \in Instances
  PROVE  StateOf(i) \in AuditState
  BY DEF FilesType, AuditState, StateOf, NoState

\* A line that counts the steps before it, itself if it is one, keeps the numbering.
LEMMA AppendedCounts ==
  ASSUME FilesType, NEW i \in Instances, NEW line \in Entry, NEW next \in AuditState,
         state' = [state EXCEPT ![i] = next],
         Append1(i, line),
         ~closed => CountInv,
         UNCHANGED closed,
         next.step = StateOf(i).step + (IF line.kind = "step" THEN 1 ELSE 0),
         line.kind \in {"step", "footer"} => line.n = next.step
  PROVE  /\ state' \in [Instances -> AuditState \cup {None}]
         /\ trail' \in [Instances -> Seq(Entry)]
         /\ CountInv'
<1>1. state' \in [Instances -> AuditState \cup {None}]
  BY DEF FilesType
<1>2. /\ trail[i] \in Seq(Entry)
      /\ trail'[i] = Append(trail[i], line)
      /\ \A j \in Instances \ {i} : trail'[j] = trail[j] /\ state'[j] = state[j]
      /\ state'[i] = next
  BY DEF FilesType, Append1
<1>3. trail' \in [Instances -> Seq(Entry)]
  <2>1. Append(trail[i], line) \in Seq(Entry)
    BY <1>2, AppendProperties
  <2> QED
    BY <2>1 DEF FilesType, Append1
<1>4. next # None
  BY AuditAssumption DEF AuditState
<1>5. ASSUME ~closed', NEW j \in Instances
      PROVE  /\ Numbered(trail'[j])
             /\ (StateOf(j).step)' = StepsIn(trail'[j], Len(trail'[j]))
  <2>1. Numbered(trail[j]) /\ StateOf(j).step = StepsIn(trail[j], Len(trail[j]))
    BY <1>5 DEF CountInv
  <2>2. CASE j # i
    BY <1>2, <2>1, <2>2 DEF StateOf
  <2>3. CASE j = i
    <3> DEFINE lines == trail[i]
               n == Len(lines)
    <3>1. n \in Nat /\ lines \in Seq(Entry) /\ DOMAIN lines = 1..n
      BY <1>2, LenProperties
    <3>2. /\ Append(lines, line) \in Seq(Entry)
          /\ Len(Append(lines, line)) = n + 1
          /\ \A k \in 1..n : /\ Append(lines, line)[k] = lines[k]
                             /\ StepsIn(Append(lines, line), k) = StepsIn(lines, k)
          /\ Append(lines, line)[n + 1] = line
          /\ StepsIn(Append(lines, line), n + 1)
               = StepsIn(lines, n) + (IF line.kind = "step" THEN 1 ELSE 0)
      BY <3>1, AppendedSteps
    <3> HIDE DEF lines, n
    <3>3. next.step = StepsIn(Append(lines, line), n + 1)
      BY <2>1, <2>3, <3>2 DEF lines, n
    <3>4. Numbered(Append(lines, line))
      <4>1. DOMAIN Append(lines, line) = 1..(n + 1)
        BY <3>2, LenProperties
      <4> SUFFICES ASSUME NEW k \in 1..(n + 1),
                          Append(lines, line)[k].kind \in {"step", "footer"}
                   PROVE  Append(lines, line)[k].n = StepsIn(Append(lines, line), k)
        BY <4>1 DEF Numbered
      <4>2. CASE k = n + 1
        BY <4>2, <3>2, <3>3
      <4>3. CASE k \in 1..n
        <5>1. Append(lines, line)[k] = lines[k]
          BY <4>3, <3>2
        <5>2. Numbered(lines)
          BY <2>1, <2>3 DEF lines
        <5>3. lines[k].n = StepsIn(lines, k)
          BY <4>3, <5>1, <5>2, <3>1 DEF Numbered
        <5> QED
          BY <4>3, <5>1, <5>3, <3>2
      <4> QED
        BY <3>1, <4>2, <4>3
    <3>5. (StateOf(j))' = next
      BY <1>2, <1>4, <2>3 DEF StateOf
    <3>6. trail'[j] = Append(lines, line)
      BY <1>2, <2>3 DEF lines
    <3> QED
      BY <3>2, <3>3, <3>4, <3>5, <3>6
  <2> QED
    BY <2>2, <2>3
<1> QED
  BY <1>1, <1>3, <1>5 DEF CountInv

-----------------------------------------------------------------------------
(* The handlers.                                                           *)

\* Opening or closing a file leaves the count of its state alone.
LEMMA OpenOrClosed ==
  ASSUME NEW s \in AuditState, NEW open \in BOOLEAN
  PROVE  [s EXCEPT !.open = open] \in AuditState /\ [s EXCEPT !.open = open].step = s.step + 0
<1>1. s = [step |-> s.step, open |-> s.open] /\ s.step \in Nat
  BY DEF AuditState
<1>2. [s EXCEPT !.open = open] = [step |-> s.step, open |-> open]
  BY <1>1
<1>3. s.step + 0 = s.step
  BY <1>1
<1> QED
  BY <1>1, <1>2, <1>3 DEF AuditState

\* Whatever handler runs, its line is numbered and counted.
LEMMA HandledCounts ==
  ASSUME FilesType, ~closed => CountInv, NEW event \in Event,
         UNCHANGED closed,
         \/ handleProcessStarted(event) \/ handleElementExecuted(event)
         \/ handleProcessCompleted(event) \/ handleJobEvent(event)
  PROVE  /\ state' \in [Instances -> AuditState \cup {None}]
         /\ trail' \in [Instances -> Seq(Entry)]
         /\ CountInv'
<1> DEFINE i == InstanceOf[event.run]
<1>1. ASSUME event.type # "job"
      PROVE  i \in Instances
  BY <1>1, AuditAssumption DEF Event
<1>2. ASSUME UNCHANGED <<state, trail>>
      PROVE  /\ state' \in [Instances -> AuditState \cup {None}]
             /\ trail' \in [Instances -> Seq(Entry)]
             /\ CountInv'
  BY <1>2 DEF FilesType, CountInv, StateOf
<1>3. CASE handleProcessStarted(event)
  <2>1. i \in Instances /\ StateOf(i) \in AuditState
    BY <1>1, <1>3, StateType DEF handleProcessStarted
  <2>2. PICK open \in BOOLEAN :
          /\ state' = [state EXCEPT ![i] = [StateOf(i) EXCEPT !.open = open]]
          /\ writeFile(i, open, "header", event, 0)
    BY <1>3 DEF handleProcessStarted, ensureFileOpen, Succeeds
  <2> DEFINE next == [StateOf(i) EXCEPT !.open = open]
  <2>3. next \in AuditState /\ next.step = StateOf(i).step + 0
    BY <2>1, OpenOrClosed
  <2>4. PICK line \in Entry : Append1(i, line) /\ line.kind = "header"
    BY <2>2, EntryAppended
  <2>5. state' = [state EXCEPT ![i] = next]
    BY <2>2
  <2> HIDE DEF next, i
  <2> QED
    BY <2>1, <2>3, <2>4, <2>5, AppendedCounts
<1>4. CASE handleElementExecuted(event)
  <2> DEFINE step == StateOf(i).step + 1
  <2>1. i \in Instances /\ StateOf(i) \in AuditState /\ step \in Nat
    BY <1>1, <1>4, StateType DEF handleElementExecuted, AuditState
  <2>2. PICK open \in BOOLEAN :
          /\ state' = [state EXCEPT ![i] = [step |-> step, open |-> open]]
          /\ writeFile(i, open, "step", event, step)
    BY <1>4 DEF handleElementExecuted, ensureFileOpen, Succeeds
  <2> DEFINE next == [step |-> step, open |-> open]
  <2>3. next \in AuditState /\ next.step = StateOf(i).step + 1
    BY <2>1 DEF AuditState
  <2>4. PICK line \in Entry : Append1(i, line) /\ line.kind = "step" /\ line.n = next.step
    BY <2>1, <2>2, EntryAppended
  <2>5. state' = [state EXCEPT ![i] = next]
    BY <2>2
  <2> HIDE DEF next, i, step
  <2> QED
    BY <2>1, <2>3, <2>4, <2>5, AppendedCounts
<1>5. CASE handleProcessCompleted(event)
  <2>1. CASE ~StateOf(i).open
    BY <1>2, <1>5, <2>1 DEF handleProcessCompleted
  <2>2. CASE StateOf(i).open
    <3>1. i \in Instances /\ StateOf(i) \in AuditState /\ StateOf(i) = state[i]
      BY <1>1, <1>5, <2>2, StateType DEF handleProcessCompleted, StateOf, NoState
    <3> DEFINE next == [state[i] EXCEPT !.open = FALSE]
    <3>2. next \in AuditState /\ next.step = StateOf(i).step + 0
      BY <3>1, OpenOrClosed
    <3>3. /\ writeFile(i, TRUE, "footer", event, state[i].step)
          /\ state' = [state EXCEPT ![i] = next]
      BY <1>5, <2>2 DEF handleProcessCompleted
    <3>4. state[i].step \in Nat /\ next.step = state[i].step
      BY <3>1, <3>2 DEF AuditState
    <3>5. PICK open : writeFile(i, open, "footer", event, state[i].step)
      BY <3>3, Zenon
    <3>6. PICK line \in Entry : Append1(i, line) /\ line.kind = "footer" /\ line.n = next.step
      BY <3>4, <3>5, EntryAppended
    <3> HIDE DEF next, i
    <3> QED
      BY <3>1, <3>2, <3>3, <3>6, AppendedCounts
  <2> QED
    BY <2>1, <2>2
<1>6. CASE handleJobEvent(event)
  BY <1>2, <1>6 DEF handleJobEvent
<1> QED
  BY <1>3, <1>4, <1>5, <1>6

-----------------------------------------------------------------------------
(* Every step.                                                             *)

\* An event that is dispatched disturbs no trail.
LEMMA Dispatched ==
  ASSUME FilesType, CountInv, NEW event \in Event,
         DispatchAsync(event), UNCHANGED <<state, trail, closed>>
  PROVE  FilesType' /\ CountInv'
<1>1. DOMAIN handlers' \subseteq Event
  BY BagDomains DEF FilesType, DispatchAsync, AddAndGo
<1> QED
  BY <1>1 DEF FilesType, CountInv, StateOf

\* No step disturbs the numbering.
LEMMA FilesStep ==
  ASSUME FilesType, CountInv, [Next]_vars
  PROVE  FilesType' /\ CountInv'
<1>1. ASSUME UNCHANGED <<handlers, state, trail, closed>>
      PROVE  FilesType' /\ CountInv'
  BY <1>1 DEF FilesType, CountInv, StateOf
<1>2. ASSUME NEW r \in Runs, Run(r)
      PROVE  FilesType' /\ CountInv'
  BY <1>2, Dispatched DEF Run, Event
<1>3. ASSUME NEW r \in Runs, Continue(r)
      PROVE  FilesType' /\ CountInv'
  BY <1>1, <1>3 DEF Continue
<1>4. ASSUME NEW r \in Runs, executeElement(r)
      PROVE  FilesType' /\ CountInv'
  BY <1>4, Dispatched DEF executeElement, Event
<1>5. ASSUME NEW r \in Runs, handleResult(r)
      PROVE  FilesType' /\ CountInv'
  BY <1>5, Dispatched DEF handleResult, Event
<1>6. ASSUME NEW r \in Runs, Drain(r)
      PROVE  FilesType' /\ CountInv'
  BY <1>1, <1>6 DEF Drain
<1>7. ASSUME NEW r \in Runs, Wake(r)
      PROVE  FilesType' /\ CountInv'
  BY <1>1, <1>7 DEF Wake
<1>8. ASSUME NEW event \in BagToSet(handlers), HandleEvent(event)
      PROVE  FilesType' /\ CountInv'
  <2>1. event \in Event
    BY <1>8 DEF FilesType, BagToSet
  <2>2. DOMAIN handlers' \subseteq Event
    BY <1>8, BagDomains DEF HandleEvent, Done, FilesType
  <2>3. /\ state' \in [Instances -> AuditState \cup {None}]
        /\ trail' \in [Instances -> Seq(Entry)]
        /\ CountInv'
    BY <1>8, <2>1, HandledCounts DEF HandleEvent
  <2>4. closed' \in BOOLEAN
    BY <1>8 DEF HandleEvent, FilesType
  <2> QED
    BY <2>2, <2>3, <2>4 DEF FilesType
<1>9. ASSUME JobEvent
      PROVE  FilesType' /\ CountInv'
  BY <1>9, Dispatched DEF JobEvent, Event
<1>10. ASSUME Close
       PROVE  FilesType' /\ CountInv'
  BY <1>10 DEF Close, FilesType, CountInv
<1>11. ASSUME UNCHANGED vars
       PROVE  FilesType' /\ CountInv'
  BY <1>1, <1>11 DEF vars
<1> QED
  BY <1>2, <1>3, <1>4, <1>5, <1>6, <1>7, <1>8, <1>9, <1>10, <1>11 DEF Next

-----------------------------------------------------------------------------
(* While nothing is shut down the steps of a case are numbered as they are *)
(* handled, whatever runs emitted them, whatever the order the handlers    *)
(* ran in, and whichever entries could not be written: in the file no      *)
(* number comes twice or out of order, and one is missing only for such an *)
(* entry (FileAuditWriter.handleElementExecuted).                          *)
THEOREM StepsAreNumbered == Spec => []StepsNumbered
<1>1. Init => FilesType /\ CountInv
  BY InitFiles
<1>2. FilesType /\ CountInv /\ [Next]_vars => FilesType' /\ CountInv'
  BY FilesStep
<1>3. CountInv => StepsNumbered
  BY DEF CountInv, Numbered, StepsIn, StepsNumbered
<1> QED
  BY <1>1, <1>2, <1>3, PTL DEF Spec

-----------------------------------------------------------------------------
(* The WaitGroup counts the handlers that wait.                            *)

\* How often an event waits in a bag.
Copies(event, bag) == IF event \in DOMAIN bag THEN bag[event] ELSE 0

\* The goroutines of a bag told apart: the k-th copy of each event.
Goroutines(bag) == {g \in (DOMAIN bag) \X (Nat \ {0}) : g[2] <= bag[g[1]]}

\* The counter is the number of goroutines.
WaitInv ==
  /\ IsABag(handlers)
  /\ IsFiniteSet(Goroutines(handlers)) /\ wg = Cardinality(Goroutines(handlers))

\* Which pairs are goroutines.
LEMMA GoroutinePairs ==
  ASSUME NEW bag, NEW e, NEW k
  PROVE  /\ <<e, k>> \in Goroutines(bag) <=> e \in DOMAIN bag /\ k \in Nat \ {0} /\ k <= bag[e]
         /\ \A g \in Goroutines(bag) : g = <<g[1], g[2]>>
<1>1. <<e, k>> \in (DOMAIN bag) \X (Nat \ {0}) <=> e \in DOMAIN bag /\ k \in Nat \ {0}
  OBVIOUS
<1>2. <<e, k>>[1] = e /\ <<e, k>>[2] = k
  OBVIOUS
<1>3. <<e, k>> \in Goroutines(bag)
        <=> <<e, k>> \in (DOMAIN bag) \X (Nat \ {0}) /\ <<e, k>>[2] <= bag[<<e, k>>[1]]
  BY Zenon DEF Goroutines
<1>4. \A g \in (DOMAIN bag) \X (Nat \ {0}) : g = <<g[1], g[2]>>
  OBVIOUS
<1>5. Goroutines(bag) \subseteq (DOMAIN bag) \X (Nat \ {0})
  BY Zenon DEF Goroutines
<1> QED
  BY <1>1, <1>2, <1>3, <1>4, <1>5, Zenon

\* One more copy of an event is one more goroutine.
LEMMA AddedGoroutine ==
  ASSUME NEW bag, IsABag(bag), NEW event
  PROVE  LET more == bag (+) One(event) IN
         /\ IsABag(more)
         /\ \A e : Copies(e, more) = Copies(e, bag) + (IF e = event THEN 1 ELSE 0)
         /\ Goroutines(more) = Goroutines(bag) \cup {<<event, Copies(event, bag) + 1>>}
         /\ <<event, Copies(event, bag) + 1>> \notin Goroutines(bag)
<1> DEFINE more == bag (+) One(event)
           last == <<event, Copies(event, bag) + 1>>
<1>1. \A e \in DOMAIN bag : bag[e] \in Nat \ {0}
  BY DEF IsABag
<1>2. /\ DOMAIN more = DOMAIN bag \cup {event}
      /\ \A e \in DOMAIN more :
           more[e] = Copies(e, bag) + (IF e = event THEN 1 ELSE 0)
  BY DEF (+), One, SetToBag, Copies
<1>3. \A e : Copies(e, bag) \in Nat
  BY <1>1 DEF Copies
<1> HIDE DEF more
<1>4. \A e \in DOMAIN more : more[e] \in Nat \ {0}
  BY <1>1, <1>2, <1>3 DEF Copies
<1>5. IsABag(more)
  <2>1. more = [e \in DOMAIN more |-> more[e]]
    BY DEF more, (+)
  <2> QED
    BY <1>4, <2>1 DEF IsABag
<1>6. \A e : Copies(e, more) = Copies(e, bag) + (IF e = event THEN 1 ELSE 0)
  BY <1>2, <1>3 DEF Copies
<1>7. last \notin Goroutines(bag)
  BY <1>1, <1>3, GoroutinePairs DEF Copies
<1>8. ASSUME NEW e, NEW k
      PROVE  <<e, k>> \in Goroutines(more)
               <=> <<e, k>> \in Goroutines(bag) \cup {last}
  <2>1. \A b : <<e, k>> \in Goroutines(b) <=> e \in DOMAIN b /\ k \in Nat \ {0} /\ k <= b[e]
    BY GoroutinePairs
  <2>2. <<e, k>> = last <=> e = event /\ k = Copies(event, bag) + 1
    OBVIOUS
  <2> HIDE DEF last
  <2>3. CASE e = event
    BY <1>1, <1>2, <1>3, <2>1, <2>2, <2>3 DEF Copies
  <2>4. CASE e # event
    BY <1>1, <1>2, <1>3, <2>1, <2>2, <2>4 DEF Copies
  <2> QED
    BY <2>3, <2>4
<1>9. Goroutines(more) = Goroutines(bag) \cup {last}
  <2>1. \A b : \A g \in Goroutines(b) : g = <<g[1], g[2]>>
    BY GoroutinePairs
  <2> QED
    BY <1>8, <2>1
<1> QED
  BY <1>5, <1>6, <1>7, <1>9 DEF more

\* One copy less of an event that waits is one goroutine less.
LEMMA EndedGoroutine ==
  ASSUME NEW bag, IsABag(bag), NEW event \in DOMAIN bag
  PROVE  LET less == bag (-) One(event) IN
         /\ IsABag(less)
         /\ \A e : Copies(e, less) = Copies(e, bag) - (IF e = event THEN 1 ELSE 0)
         /\ Goroutines(less) = Goroutines(bag) \ {<<event, bag[event]>>}
         /\ <<event, bag[event]>> \in Goroutines(bag)
<1> DEFINE less == bag (-) One(event)
           last == <<event, bag[event]>>
<1>1. \A e \in DOMAIN bag : bag[e] \in Nat \ {0}
  BY DEF IsABag
<1>2. /\ DOMAIN less = {e \in DOMAIN bag : e # event \/ bag[e] > 1}
      /\ \A e \in DOMAIN less : less[e] = bag[e] - (IF e = event THEN 1 ELSE 0)
      /\ less = [e \in DOMAIN less |-> less[e]]
  BY <1>1 DEF (-), One, SetToBag
<1> HIDE DEF less
<1>3. \A e \in DOMAIN less : less[e] \in Nat \ {0}
  BY <1>1, <1>2
<1>4. IsABag(less)
  BY <1>2, <1>3 DEF IsABag
<1>5. \A e : Copies(e, less) = Copies(e, bag) - (IF e = event THEN 1 ELSE 0)
  BY <1>1, <1>2 DEF Copies
<1>6. last \in Goroutines(bag)
  BY <1>1, GoroutinePairs
<1>7. ASSUME NEW e, NEW k
      PROVE  <<e, k>> \in Goroutines(less)
               <=> <<e, k>> \in Goroutines(bag) \ {last}
  <2>1. \A b : <<e, k>> \in Goroutines(b) <=> e \in DOMAIN b /\ k \in Nat \ {0} /\ k <= b[e]
    BY GoroutinePairs
  <2>2. <<e, k>> = last <=> e = event /\ k = bag[event]
    OBVIOUS
  <2> HIDE DEF last
  <2>3. CASE e = event
    BY <1>1, <1>2, <2>1, <2>2, <2>3
  <2>4. CASE e # event
    BY <1>1, <1>2, <2>1, <2>2, <2>4
  <2> QED
    BY <2>3, <2>4
<1>8. Goroutines(less) = Goroutines(bag) \ {last}
  <2>1. \A b : \A g \in Goroutines(b) : g = <<g[1], g[2]>>
    BY GoroutinePairs
  <2> QED
    BY <1>7, <2>1
<1> QED
  BY <1>4, <1>5, <1>6, <1>8 DEF less

\* Nobody waits on a counter of 0 that has handlers behind it.
LEMMA NobodyLeft ==
  ASSUME WaitInv, wg = 0, NEW event
  PROVE  Copies(event, handlers) = 0
<1>1. Goroutines(handlers) = {}
  BY FS_EmptySet DEF WaitInv
<1>2. CASE event \in DOMAIN handlers
  <2>1. handlers[event] \in Nat \ {0}
    BY <1>2 DEF WaitInv, IsABag
  <2>2. <<event, 1>> \in Goroutines(handlers)
    BY <1>2, <2>1, GoroutinePairs
  <2> QED
    BY <1>1, <2>2
<1> QED
  BY <1>2 DEF Copies

-----------------------------------------------------------------------------
(* Where the elements of a run are.                                        *)

Own(r) == [run |-> r, type |-> "element"]

\* How many entries of a trail are of an event.
LinesOf(event, lines) == Cardinality({k \in DOMAIN lines : lines[k].event = event})

RunType ==
  /\ run \in [Runs -> {"idle", "running", "waiting", "woken", "drained"}]
  /\ elements \in [Runs -> Nat]

\* Every element of a run has its entry in the trail of its case, or its handler waits; of a
\* run that has drained no handler waits.
ElementInv ==
  \A r \in Runs :
    /\ elements[r] = LinesOf(Own(r), trail[InstanceOf[r]]) + Copies(Own(r), handlers)
    /\ run[r] = "drained" => Copies(Own(r), handlers) = 0

DrainInv == FilesType /\ RunType /\ WaitInv /\ ElementInv

\* An appended line is one line more of its event.
LEMMA AppendedLines ==
  ASSUME NEW lines \in Seq(Entry), NEW line \in Entry, NEW event
  PROVE  /\ LinesOf(event, lines) \in Nat
         /\ LinesOf(event, Append(lines, line))
              = LinesOf(event, lines) + (IF line.event = event THEN 1 ELSE 0)
<1> DEFINE n == Len(lines)
           more == Append(lines, line)
           old == {k \in 1..n : lines[k].event = event}
<1>1. n \in Nat /\ DOMAIN lines = 1..n
  BY LenProperties
<1>2. /\ DOMAIN more = 1..(n + 1)
      /\ \A k \in 1..n : more[k] = lines[k]
      /\ more[n + 1] = line
  <2>1. more \in Seq(Entry) /\ Len(more) = n + 1
    BY AppendProperties
  <2> QED
    BY <2>1, AppendProperties, LenProperties
<1>3. IsFiniteSet(old) /\ n + 1 \notin old /\ LinesOf(event, lines) = Cardinality(old)
  <2>1. IsFiniteSet(1..n) /\ old \in SUBSET (1..n)
    BY <1>1, FS_Interval
  <2> QED
    BY <1>1, <2>1, FS_Subset DEF LinesOf
<1> HIDE DEF more, n
<1>4. {k \in DOMAIN more : more[k].event = event}
        = IF line.event = event THEN old \cup {n + 1} ELSE old
  BY <1>1, <1>2
<1>5. Cardinality(old) \in Nat /\ Cardinality(old \cup {n + 1}) = Cardinality(old) + 1
  BY <1>3, FS_CardinalityType, FS_AddElement
<1>6. LinesOf(event, more) = IF line.event = event THEN Cardinality(old) + 1 ELSE Cardinality(old)
  BY <1>4, <1>5 DEF LinesOf
<1> HIDE DEF old
<1> QED
  BY <1>3, <1>5, <1>6 DEF more

\* A handler writes the line of an element, and no other line of one.
LEMMA HandledLines ==
  ASSUME FilesType, NEW event \in Event, NEW r \in Runs,
         \/ handleProcessStarted(event) \/ handleElementExecuted(event)
         \/ handleProcessCompleted(event) \/ handleJobEvent(event)
  PROVE  /\ LinesOf(Own(r), trail[InstanceOf[r]]) \in Nat
         /\ LinesOf(Own(r), trail'[InstanceOf[r]])
              = LinesOf(Own(r), trail[InstanceOf[r]]) + (IF event = Own(r) THEN 1 ELSE 0)
<1> DEFINE i == InstanceOf[event.run]
           j == InstanceOf[r]
<1>1. j \in Instances /\ trail[j] \in Seq(Entry)
  BY AuditAssumption DEF FilesType
<1>2. LinesOf(Own(r), trail[j]) \in Nat
  <2>1. [kind |-> "step", event |-> event, n |-> 0, written |-> TRUE] \in Entry
    BY DEF Entry
  <2> QED
    BY <1>1, <2>1, AppendedLines
<1>3. ASSUME NEW line \in Entry, Append1(i, line), line.event = event, event.type # "job"
      PROVE  LinesOf(Own(r), trail'[j])
               = LinesOf(Own(r), trail[j]) + (IF event = Own(r) THEN 1 ELSE 0)
  <2>1. i \in Instances
    BY <1>3, AuditAssumption DEF Event
  <2>2. trail' = [trail EXCEPT ![i] = Append(trail[i], line)]
    BY <1>3 DEF Append1
  <2>3. CASE i = j
    <3>1. trail'[j] = Append(trail[j], line)
      BY <1>1, <2>2, <2>3 DEF FilesType
    <3> QED
      BY <1>1, <1>3, <3>1, AppendedLines
  <2>4. CASE i # j
    <3>1. trail'[j] = trail[j] /\ event # Own(r)
      BY <1>1, <2>2, <2>4 DEF FilesType, Own
    <3> QED
      BY <1>2, <3>1
  <2> QED
    BY <2>3, <2>4
<1>4. ASSUME UNCHANGED trail, event.type # "element"
      PROVE  LinesOf(Own(r), trail'[j])
               = LinesOf(Own(r), trail[j]) + (IF event = Own(r) THEN 1 ELSE 0)
  BY <1>2, <1>4 DEF Own
<1>5. ASSUME event.type # "job"
      PROVE  i \in Instances /\ StateOf(i) \in AuditState
  BY <1>5, AuditAssumption, StateType DEF Event
<1>6. CASE handleProcessStarted(event)
  <2>1. event.type = "started" /\ \E open \in BOOLEAN : writeFile(i, open, "header", event, 0)
    BY <1>6 DEF handleProcessStarted, ensureFileOpen, Succeeds
  <2>2. PICK line \in Entry : Append1(i, line) /\ line.event = event
    BY <2>1, EntryAppended
  <2> HIDE DEF i, j
  <2> QED
    BY <1>2, <1>3, <2>1, <2>2 DEF j
<1>7. CASE handleElementExecuted(event)
  <2>1. StateOf(i).step + 1 \in Nat /\ event.type # "job"
    BY <1>5, <1>7 DEF handleElementExecuted, AuditState
  <2>2. \E open \in BOOLEAN : writeFile(i, open, "step", event, StateOf(i).step + 1)
    BY <1>7 DEF handleElementExecuted, ensureFileOpen, Succeeds
  <2>3. PICK line \in Entry : Append1(i, line) /\ line.event = event
    BY <2>1, <2>2, EntryAppended
  <2> HIDE DEF i, j
  <2> QED
    BY <1>2, <1>3, <2>1, <2>3 DEF j
<1>8. CASE handleProcessCompleted(event)
  <2>1. CASE UNCHANGED <<state, trail>>
    BY <1>2, <1>4, <1>8, <2>1 DEF handleProcessCompleted
  <2>2. CASE ~UNCHANGED <<state, trail>>
    <3>1. writeFile(i, TRUE, "footer", event, state[i].step) /\ StateOf(i).open
      BY <1>8, <2>2 DEF handleProcessCompleted
    <3>2. state[i].step \in Nat /\ event.type # "job"
      BY <1>5, <1>8, <3>1 DEF handleProcessCompleted, StateOf, NoState, AuditState
    <3>3. PICK open : writeFile(i, open, "footer", event, state[i].step)
      BY <3>1, Zenon
    <3>4. PICK line \in Entry : Append1(i, line) /\ line.event = event
      BY <3>2, <3>3, EntryAppended
    <3> HIDE DEF i, j
    <3> QED
      BY <1>2, <1>3, <3>2, <3>4 DEF j
  <2> QED
    BY <2>1, <2>2
<1>9. CASE handleJobEvent(event)
  BY <1>2, <1>4, <1>9 DEF handleJobEvent
<1> QED
  BY <1>2, <1>6, <1>7, <1>8, <1>9

-----------------------------------------------------------------------------
(* Drain.                                                                  *)

LEMMA InitDrain ==
  ASSUME Init
  PROVE  DrainInv
<1>1. DOMAIN handlers = {} /\ IsABag(handlers)
  BY DEF Init, EmptyBag, SetToBag, IsABag
<1>2. Goroutines(handlers) = {}
  BY <1>1, GoroutinePairs DEF Goroutines
<1>3. WaitInv
  BY <1>1, <1>2, FS_EmptySet DEF WaitInv, Init
<1>4. ASSUME NEW r \in Runs
      PROVE  LinesOf(Own(r), trail[InstanceOf[r]]) = 0 /\ Copies(Own(r), handlers) = 0
  <2>1. trail[InstanceOf[r]] = <<>>
    BY AuditAssumption DEF Init
  <2>2. {k \in DOMAIN <<>> : <<>>[k].event = Own(r)} = {}
    OBVIOUS
  <2> QED
    BY <1>1, <2>1, <2>2, FS_EmptySet DEF LinesOf, Copies
<1>5. RunType /\ ElementInv
  BY <1>4 DEF Init, RunType, ElementInv
<1> QED
  BY <1>3, <1>5, InitFiles DEF DrainInv

\* A dispatched event is a handler more, and of an element its run is not drained.
LEMMA DispatchedElement ==
  ASSUME DrainInv, NEW event \in Event, DispatchAsync(event), UNCHANGED trail, RunType',
         \A r \in Runs : /\ elements'[r] = elements[r] + (IF event = Own(r) THEN 1 ELSE 0)
                         /\ run'[r] = "drained" => run[r] = "drained" /\ event # Own(r)
  PROVE  WaitInv' /\ ElementInv'
<1>1. /\ IsABag(handlers')
      /\ \A e : Copies(e, handlers') = Copies(e, handlers) + (IF e = event THEN 1 ELSE 0)
      /\ Goroutines(handlers')
           = Goroutines(handlers) \cup {<<event, Copies(event, handlers) + 1>>}
      /\ <<event, Copies(event, handlers) + 1>> \notin Goroutines(handlers)
      /\ wg' = wg + 1
  BY AddedGoroutine DEF DrainInv, WaitInv, DispatchAsync, AddAndGo
<1>2. WaitInv'
  BY <1>1, FS_AddElement DEF DrainInv, WaitInv
<1>3. \A r \in Runs : Copies(Own(r), handlers) \in Nat
  BY DEF DrainInv, WaitInv, IsABag, Copies
<1>4. \A r \in Runs : LinesOf(Own(r), trail[InstanceOf[r]]) \in Nat
  <2> TAKE r \in Runs
  <2>1. trail[InstanceOf[r]] \in Seq(Entry)
    BY AuditAssumption DEF DrainInv, FilesType
  <2>2. [kind |-> "step", event |-> event, n |-> 0, written |-> TRUE] \in Entry
    BY DEF Entry
  <2> QED
    BY <2>1, <2>2, AppendedLines
<1>5. ElementInv'
  BY <1>1, <1>3, <1>4 DEF DrainInv, ElementInv
<1> QED
  BY <1>2, <1>5

\* A handler that ends leaves its line behind.
LEMMA HandledElement ==
  ASSUME DrainInv, NEW event \in DOMAIN handlers, HandleEvent(event)
  PROVE  RunType' /\ WaitInv' /\ ElementInv'
<1>1. event \in Event
  BY DEF DrainInv, FilesType
<1>2. /\ IsABag(handlers')
      /\ \A e : Copies(e, handlers') = Copies(e, handlers) - (IF e = event THEN 1 ELSE 0)
      /\ Goroutines(handlers') = Goroutines(handlers) \ {<<event, handlers[event]>>}
      /\ <<event, handlers[event]>> \in Goroutines(handlers)
  BY EndedGoroutine DEF DrainInv, WaitInv, HandleEvent, Done
<1>3. wg \in Nat \ {0} /\ wg' = wg - 1
  <2>1. Cardinality(Goroutines(handlers)) \in Nat \ {0}
    BY <1>2, FS_CardinalityType, FS_EmptySet DEF DrainInv, WaitInv
  <2> QED
    BY <2>1 DEF DrainInv, WaitInv, HandleEvent, Done
<1>4. WaitInv'
  <2>1. IsFiniteSet(Goroutines(handlers)) /\ wg = Cardinality(Goroutines(handlers))
    BY DEF DrainInv, WaitInv
  <2>2. /\ IsFiniteSet(Goroutines(handlers'))
        /\ Cardinality(Goroutines(handlers')) = Cardinality(Goroutines(handlers)) - 1
    BY <1>2, <2>1, FS_RemoveElement
  <2> QED
    BY <1>2, <1>3, <2>1, <2>2 DEF WaitInv
<1>5. /\ run' \in [Runs -> {"idle", "running", "waiting", "woken", "drained"}]
      /\ \A r \in Runs : run'[r] = "drained" => run[r] = "drained"
      /\ elements' = elements
  BY DEF DrainInv, RunType, HandleEvent, Done
<1>6. ASSUME NEW r \in Runs
      PROVE  /\ elements'[r]
                  = LinesOf(Own(r), trail'[InstanceOf[r]]) + Copies(Own(r), handlers')
             /\ run'[r] = "drained" => Copies(Own(r), handlers') = 0
  <2>1. /\ LinesOf(Own(r), trail[InstanceOf[r]]) \in Nat
        /\ LinesOf(Own(r), trail'[InstanceOf[r]])
             = LinesOf(Own(r), trail[InstanceOf[r]]) + (IF event = Own(r) THEN 1 ELSE 0)
    BY <1>1, HandledLines DEF DrainInv, HandleEvent
  <2>2. Copies(Own(r), handlers) \in Nat /\ Copies(event, handlers) # 0
    BY DEF DrainInv, WaitInv, IsABag, Copies
  <2>3. /\ elements[r] = LinesOf(Own(r), trail[InstanceOf[r]]) + Copies(Own(r), handlers)
        /\ run[r] = "drained" => Copies(Own(r), handlers) = 0
    BY DEF DrainInv, ElementInv
  <2> QED
    BY <1>2, <1>5, <2>1, <2>2, <2>3
<1> QED
  BY <1>4, <1>5, <1>6 DEF RunType, ElementInv, DrainInv

\* No step loses an element of a run.
LEMMA DrainStep == DrainInv /\ CountInv /\ [Next]_vars => DrainInv'
<1> SUFFICES ASSUME DrainInv, CountInv, [Next]_vars
             PROVE  RunType' /\ WaitInv' /\ ElementInv'
  BY FilesStep DEF DrainInv
<1>1. ASSUME UNCHANGED <<handlers, wg, trail, elements>>, RunType',
             \A r \in Runs : run'[r] = "drained" => run[r] = "drained" \/ wg = 0
      PROVE  WaitInv' /\ ElementInv'
  BY <1>1, NobodyLeft DEF DrainInv, WaitInv, ElementInv
<1>2. ASSUME NEW r \in Runs, Run(r)
      PROVE  RunType' /\ WaitInv' /\ ElementInv'
  <2>1. [run |-> r, type |-> "started"] \in Event
    BY DEF Event
  <2>2. \A s \in Runs : [run |-> r, type |-> "started"] # Own(s)
    BY DEF Own
  <2>3. RunType' /\ elements' = elements
    BY <1>2 DEF Run, DrainInv, RunType
  <2>4. /\ \A s \in Runs : elements'[s] = elements[s] + 0
        /\ \A s \in Runs : run'[s] = "drained" => run[s] = "drained"
    BY <1>2, <2>3 DEF Run, DrainInv, RunType
  <2> QED
    BY <1>2, <2>1, <2>2, <2>3, <2>4, DispatchedElement DEF Run
<1>3. ASSUME NEW r \in Runs, Continue(r)
      PROVE  RunType' /\ WaitInv' /\ ElementInv'
  <2>1. RunType' /\ \A s \in Runs : run'[s] = "drained" => run[s] = "drained"
    BY <1>3 DEF Continue, DrainInv, RunType
  <2> QED
    BY <1>1, <1>3, <2>1 DEF Continue
<1>4. ASSUME NEW r \in Runs, executeElement(r)
      PROVE  RunType' /\ WaitInv' /\ ElementInv'
  <2>1. CASE run[r] = "running"
    <3>1. /\ Own(r) \in Event /\ DispatchAsync(Own(r))
          /\ \A s \in Runs : Own(r) = Own(s) <=> r = s
      BY <1>4, <2>1 DEF executeElement, Own, Event
    <3>2. /\ RunType' /\ run' = run
          /\ \A s \in Runs : elements'[s] = elements[s] + (IF r = s THEN 1 ELSE 0)
      BY <1>4, <2>1 DEF executeElement, DrainInv, RunType
    <3>3. \A s \in Runs : run'[s] = "drained" => run[s] = "drained" /\ s # r
      BY <2>1, <3>2
    <3> QED
      BY <1>4, <3>1, <3>2, <3>3, DispatchedElement DEF executeElement
  <2>2. CASE run[r] # "running"
    <3>1. [run |-> r, type |-> "late"] \in Event
      BY DEF Event
    <3>2. \A s \in Runs : [run |-> r, type |-> "late"] # Own(s)
      BY DEF Own
    <3>3. /\ RunType' /\ run' = run /\ DispatchAsync([run |-> r, type |-> "late"])
          /\ \A s \in Runs : elements'[s] = elements[s] + 0
      BY <1>4, <2>2 DEF executeElement, DrainInv, RunType
    <3> QED
      BY <1>4, <3>1, <3>2, <3>3, DispatchedElement DEF executeElement
  <2> QED
    BY <2>1, <2>2
<1>5. ASSUME NEW r \in Runs, handleResult(r)
      PROVE  RunType' /\ WaitInv' /\ ElementInv'
  <2>1. [run |-> r, type |-> "result"] \in Event
    BY DEF Event
  <2>2. \A s \in Runs : [run |-> r, type |-> "result"] # Own(s)
    BY DEF Own
  <2>3. RunType' /\ run' = run /\ \A s \in Runs : elements'[s] = elements[s] + 0
    BY <1>5 DEF handleResult, DrainInv, RunType
  <2> QED
    BY <1>5, <2>1, <2>2, <2>3, DispatchedElement DEF handleResult
<1>6. ASSUME NEW r \in Runs, Drain(r)
      PROVE  RunType' /\ WaitInv' /\ ElementInv'
  <2>1. RunType' /\ \A s \in Runs : run'[s] = "drained" => run[s] = "drained" \/ wg = 0
    BY <1>6 DEF Drain, DrainInv, RunType
  <2> QED
    BY <1>1, <1>6, <2>1 DEF Drain
<1>7. ASSUME NEW r \in Runs, Wake(r)
      PROVE  RunType' /\ WaitInv' /\ ElementInv'
  <2>1. RunType' /\ \A s \in Runs : run'[s] = "drained" => run[s] = "drained" \/ wg = 0
    BY <1>7 DEF Wake, DrainInv, RunType
  <2> QED
    BY <1>1, <1>7, <2>1 DEF Wake
<1>8. ASSUME NEW event \in BagToSet(handlers), HandleEvent(event)
      PROVE  RunType' /\ WaitInv' /\ ElementInv'
  BY <1>8, HandledElement DEF BagToSet
<1>9. ASSUME JobEvent
      PROVE  RunType' /\ WaitInv' /\ ElementInv'
  <2>1. [run |-> None, type |-> "job"] \in Event
    BY DEF Event
  <2>2. \A s \in Runs : [run |-> None, type |-> "job"] # Own(s)
    BY DEF Own
  <2>3. RunType' /\ run' = run /\ \A s \in Runs : elements'[s] = elements[s] + 0
    BY <1>9 DEF JobEvent, DrainInv, RunType
  <2> QED
    BY <1>9, <2>1, <2>2, <2>3, DispatchedElement DEF JobEvent
<1>10. ASSUME Close \/ UNCHANGED vars
       PROVE  RunType' /\ WaitInv' /\ ElementInv'
  <2>1. /\ UNCHANGED <<run, handlers, wg, trail, elements>>
        /\ RunType'
    BY <1>10 DEF Close, vars, DrainInv, RunType
  <2> QED
    BY <1>1, <2>1
<1> QED
  BY <1>2, <1>3, <1>4, <1>5, <1>6, <1>7, <1>8, <1>9, <1>10 DEF Next

\* When Drain has returned every element the run executed before has its entry,
\* exactly one each, in the file of the case or lost to a failed open or write,
\* whoever else emitted events meanwhile and whether or not the writer was closed
\* (Dispatcher.Drain).
THEOREM DrainedWasWritten == Spec => []DrainedIsWritten
<1>1. Init => DrainInv /\ CountInv
  BY InitDrain, InitFiles
<1>2. DrainInv /\ CountInv /\ [Next]_vars => DrainInv' /\ CountInv'
  BY DrainStep, FilesStep DEF DrainInv
<1>3. DrainInv => DrainedIsWritten
  <2> SUFFICES ASSUME DrainInv, NEW r \in Runs, run[r] = "drained"
               PROVE  Cardinality({k \in DOMAIN trail[InstanceOf[r]] :
                                     trail[InstanceOf[r]][k].event = Own(r)}) = elements[r]
    BY DEF DrainedIsWritten, Count, Own
  <2>1. LinesOf(Own(r), trail[InstanceOf[r]]) \in Nat
    <3>1. trail[InstanceOf[r]] \in Seq(Entry)
      BY AuditAssumption DEF DrainInv, FilesType
    <3>2. [kind |-> "step", event |-> Own(r), n |-> 0, written |-> TRUE] \in Entry
      BY DEF Entry, Event, Own
    <3> QED
      BY <3>1, <3>2, AppendedLines
  <2> QED
    BY <2>1 DEF DrainInv, ElementInv, LinesOf
<1> QED
  BY <1>1, <1>2, <1>3, PTL DEF Spec
=============================================================================
