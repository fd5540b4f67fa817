---------------------------- MODULE AITaskProofs ----------------------------
(***************************************************************************)
(* What TLAPS proves of ModelRouter and AITask, for every catalog, pool,   *)
(* chain of gateways and set of tasks.                                     *)
(***************************************************************************)
EXTENDS AITask, TLAPS, SequenceTheorems, FiniteSetTheorems, WellFoundedInduction

-----------------------------------------------------------------------------
(* ModelRouter.Resolve.                                                    *)

\* Whatever the search found: a substitute, or the search may miss.
LEMMA SearchEnds ==
  ASSUME NEW found, found \subseteq DOMAIN Catalog
  PROVE  Substitutes(found) # {} \/ MayMiss(found)
  BY DEF Substitutes, MayMiss

\* With a provider in the pool a name is given a gateway of the pool, and the
\* rest of the name behind its slash.
LEMMA PrefixResolves ==
  ASSUME NEW name
  PROVE  /\ ByPrefix(name) = {} <=> Pool = {}
         /\ \A r \in ByPrefix(name) : r.gateway \in Pool /\ r.model = Split[name][2]
<1> DEFINE prefix == Split[name][1]
           lab    == IF prefix \in DOMAIN LabAliases THEN LabAliases[prefix] ELSE ""
<1>1. ASSUME NEW gateway \in Pool, ByPrefix(name) = {[gateway |-> gateway, model |-> Split[name][2]]}
      PROVE  /\ Pool # {} /\ ByPrefix(name) # {}
             /\ \A r \in ByPrefix(name) : r.gateway \in Pool /\ r.model = Split[name][2]
  <2>1. \A r \in ByPrefix(name) : r = [gateway |-> gateway, model |-> Split[name][2]]
    BY <1>1
  <2>2. Pool # {} /\ ByPrefix(name) # {}
    BY <1>1
  <2> QED
    BY <2>1, <2>2
<1>2. CASE prefix # "" /\ prefix \in Pool
  <2>1. ByPrefix(name) = {[gateway |-> prefix, model |-> Split[name][2]]}
    BY <1>2 DEF ByPrefix
  <2> QED
    BY <1>1, <1>2, <2>1
<1>3. CASE ~(prefix # "" /\ prefix \in Pool) /\ prefix # "" /\ lab \in Pool
  <2>1. ByPrefix(name) = {[gateway |-> lab, model |-> Split[name][2]]}
    BY <1>3 DEF ByPrefix
  <2> HIDE DEF lab
  <2> QED
    BY <1>1, <1>3, <2>1
<1>4. CASE ~(prefix # "" /\ prefix \in Pool) /\ ~(prefix # "" /\ lab \in Pool)
  <2>1. ByPrefix(name) = {[gateway |-> p, model |-> Split[name][2]] : p \in Pool}
    BY <1>4 DEF ByPrefix, resolveAnyProvider
  <2>2. ByPrefix(name) = {} <=> Pool = {}
    BY <2>1
  <2>3. \A r \in ByPrefix(name) : \E p \in Pool : r = [gateway |-> p, model |-> Split[name][2]]
    BY <2>1
  <2> QED
    BY <2>2, <2>3
<1> QED
  BY <1>2, <1>3, <1>4

\* The search looks among the models of the catalog that can do what is needed.
LEMMA MatchesAreAble ==
  ASSUME NEW tools \in BOOLEAN, NEW schema \in BOOLEAN, NEW exclude, NEW hint
  PROVE  \A k \in findBestMatch(tools, schema, exclude, hint) :
            k \in DOMAIN Catalog /\ Able(k, tools, schema)
  BY DEF findBestMatch

\* No gateway is found only without providers; one that is found is of the pool,
\* and a model of the catalog comes from its own provider or can do what is needed.
LEMMA RouterResolves ==
  ASSUME NEW wish, NEW tools \in BOOLEAN, NEW schema \in BOOLEAN
  PROVE  LET name == Expanded(wish) IN
         /\ Resolve(wish, tools, schema) = {} <=> Pool = {}
         /\ \A r \in Resolve(wish, tools, schema) :
              /\ r.gateway \in Pool
              /\ name \in DOMAIN Catalog =>
                   /\ (Catalog[name].provider \in Pool /\ Able(name, tools, schema)) =>
                         (r.gateway = Catalog[name].provider /\ r.model = name)
                   /\ r.model \in DOMAIN Catalog \ {name} => Able(r.model, tools, schema)
<1> DEFINE name == Expanded(wish)
           own == [gateway |-> Catalog[name].provider, model |-> name]
           other == findBestMatch(tools, schema, Catalog[name].provider, "")
           same == findBestMatch(tools, schema, "", name)
<1>1. CASE name \notin DOMAIN Catalog
  BY <1>1, PrefixResolves DEF Resolve
<1>2. ASSUME NEW found, found \in {other, same}
      PROVE  /\ \A k \in found : k \in DOMAIN Catalog /\ Able(k, tools, schema)
             /\ Substitutes(found) # {} \/ MayMiss(found)
             /\ \A r \in Substitutes(found) :
                  r.gateway \in Pool /\ r.model \in DOMAIN Catalog /\ Able(r.model, tools, schema)
  <2>1. \A k \in found : k \in DOMAIN Catalog /\ Able(k, tools, schema)
    BY <1>2, MatchesAreAble
  <2> QED
    BY <2>1, SearchEnds DEF Substitutes
<1> HIDE DEF other, same
<1>3. CASE name \in DOMAIN Catalog /\ Catalog[name].provider \in Pool /\ Able(name, tools, schema)
  <2>1. Resolve(wish, tools, schema) = {own}
    BY <1>3 DEF Resolve
  <2>2. Resolve(wish, tools, schema) # {} /\ Pool # {}
    BY <1>3, <2>1
  <2>3. \A r \in Resolve(wish, tools, schema) :
          r.gateway = Catalog[name].provider /\ r.model = name
    BY <2>1
  <2> HIDE DEF own
  <2> QED
    BY <1>3, <2>2, <2>3
<1>4. CASE name \in DOMAIN Catalog /\ Catalog[name].provider \in Pool /\ ~Able(name, tools, schema)
  <2>1. Resolve(wish, tools, schema) = Substitutes(other) \cup {o \in {own} : MayMiss(other)}
    BY <1>4 DEF Resolve, other
  <2>2. Substitutes(other) # {} \/ MayMiss(other)
    BY <1>2
  <2>3. Resolve(wish, tools, schema) # {} /\ Pool # {}
    BY <1>4, <2>1, <2>2
  <2>4. ASSUME NEW r \in Resolve(wish, tools, schema)
        PROVE  /\ r.gateway \in Pool
               /\ r.model \in DOMAIN Catalog \ {name} => Able(r.model, tools, schema)
    <3>1. CASE r \in Substitutes(other)
      BY <1>2, <3>1
    <3>2. CASE r = own
      BY <1>4, <3>2
    <3> QED
      BY <2>1, <3>1, <3>2
  <2> HIDE DEF own
  <2>5. Resolve(wish, tools, schema) = {} <=> Pool = {}
    BY <2>3
  <2>6. ~Able(name, tools, schema)
    BY <1>4
  <2> QED
    BY <2>4, <2>5, <2>6
<1>5. CASE name \in DOMAIN Catalog /\ Catalog[name].provider \notin Pool
  <2>1. Resolve(wish, tools, schema)
          = Substitutes(same) \cup {r \in ByPrefix(name) : MayMiss(same)}
    BY <1>5 DEF Resolve, same
  <2>2. Split[name][2] \in DOMAIN Catalog \ {name} => Able(Split[name][2], tools, schema)
    BY <1>5, CatalogAssumption DEF Able
  <2>3. Pool = {} => Substitutes(same) = {}
    BY DEF Substitutes
  <2>4. Substitutes(same) # {} \/ MayMiss(same)
    BY <1>2
  <2>5. Resolve(wish, tools, schema) = {} <=> Pool = {}
    <3>1. CASE Pool = {}
      BY <2>1, <2>3, <3>1, PrefixResolves
    <3>2. CASE Pool # {}
      BY <2>1, <2>4, <3>2, PrefixResolves
    <3> QED
      BY <3>1, <3>2
  <2>6. ASSUME NEW r \in Resolve(wish, tools, schema)
        PROVE  /\ r.gateway \in Pool
               /\ r.model \in DOMAIN Catalog \ {name} => Able(r.model, tools, schema)
    <3>1. CASE r \in Substitutes(same)
      BY <1>2, <3>1
    <3>2. CASE r \in ByPrefix(name)
      BY <2>2, <3>2, PrefixResolves
    <3> QED
      BY <2>1, <3>1, <3>2
  <2> HIDE DEF name, own
  <2> QED
    BY <1>5, <2>5, <2>6 DEF name
<1> QED
  BY <1>1, <1>3, <1>4, <1>5

-----------------------------------------------------------------------------
(* The log of a task.                                                      *)

\* What was left when the requests of agent n in the log L were sent.
LeftIn(L, n) == {e.left : e \in {d \in L : d.agent = n}}

\* A request that was answered is the last of its agent, after every option that
\* comes before it.
Answers(L, first) ==
  \A e \in L : e.end = "answers" =>
    /\ LeftIn(L, e.agent) = e.left .. first
    /\ \A d \in L \ {e} : (d.agent = e.agent /\ d.left = e.left) => d.end = "calls"

\* A request that is not answered disturbs no answer of the agents before.
LEMMA AnswersKept ==
  ASSUME NEW L, NEW first, NEW e, Answers(L, first), e.end # "answers",
         \A d \in L : d.agent = e.agent => d.end # "answers"
  PROVE  Answers(L \cup {e}, first)
<1> SUFFICES ASSUME NEW a \in L \cup {e}, a.end = "answers"
             PROVE  /\ LeftIn(L \cup {e}, a.agent) = a.left .. first
                    /\ \A d \in (L \cup {e}) \ {a} :
                         (d.agent = a.agent /\ d.left = a.left) => d.end = "calls"
  BY DEF Answers
<1>1. a \in L /\ a.agent # e.agent
  OBVIOUS
<1>2. LeftIn(L \cup {e}, a.agent) = a.left .. first
  <2>1. LeftIn(L \cup {e}, a.agent) = LeftIn(L, a.agent)
    BY <1>1 DEF LeftIn
  <2>2. LeftIn(L, a.agent) = a.left .. first
    BY <1>1 DEF Answers
  <2> QED
    BY <2>1, <2>2
<1> QED
  BY <1>1, <1>2 DEF Answers

\* An answer after every option before it.
LEMMA AnswerAdded ==
  ASSUME NEW L, NEW first, NEW e, Answers(L, first),
         LeftIn(L \cup {e}, e.agent) = e.left .. first,
         \A d \in L : d.agent = e.agent => d.end # "answers" /\ (d.left = e.left => d.end = "calls")
  PROVE  Answers(L \cup {e}, first)
<1> SUFFICES ASSUME NEW a \in L \cup {e}, a.end = "answers"
             PROVE  /\ LeftIn(L \cup {e}, a.agent) = a.left .. first
                    /\ \A d \in (L \cup {e}) \ {a} :
                         (d.agent = a.agent /\ d.left = a.left) => d.end = "calls"
  BY DEF Answers
<1>1. CASE a = e
  BY <1>1
<1>2. CASE a \in L /\ a.agent # e.agent
  <2>1. LeftIn(L \cup {e}, a.agent) = a.left .. first
    <3>1. LeftIn(L \cup {e}, a.agent) = LeftIn(L, a.agent)
      BY <1>2 DEF LeftIn
    <3>2. LeftIn(L, a.agent) = a.left .. first
      BY <1>2 DEF Answers
    <3> QED
      BY <3>1, <3>2
  <2> QED
    BY <1>2, <2>1 DEF Answers
<1> QED
  BY <1>1, <1>2

-----------------------------------------------------------------------------
(* The invariant of one task.                                              *)

Option == [gateway : STRING \cup Pool, model : STRING \cup {""}]

\* What is left behind the first option of the task's calls.
FirstLeft(t) == IF Routed /\ Pool # {} /\ ~HasAgents(t) THEN 0 ELSE Len(Options) - 1

Active(t) == at[t] \in {"asking", "calling"}

\* The agent that is asked.
Current(t) == Len(results[t]) + 1

\* A call under way has asked every option before the one it asks, none was
\* answered, and the one it asks has only called tools so far.
CallInv(t) ==
  /\ chain[t] \in Seq(Option) /\ Len(chain[t]) \in 1..(FirstLeft(t) + 1)
  /\ round[t] \in Nat
  /\ LeftIn(log[t], Current(t))
       = (IF at[t] = "calling" \/ round[t] > 0 THEN Len(chain[t]) - 1 ELSE Len(chain[t]))
         .. FirstLeft(t)
  /\ \A e \in log[t] : e.agent = Current(t) =>
       e.end # "answers" /\ (e.left = Len(chain[t]) - 1 => e.end = "calls")

TaskInv(t) ==
  /\ results[t] \in Seq({"error", "text"})
  /\ ~HasAgents(t) => results[t] = <<>>
  /\ HasAgents(t) => /\ at[t] \in {"ready", "asking", "calling", "done", "failed"}
                     /\ Active(t) => Len(results[t]) < Len(Def[t].agents)
  /\ at[t] = "ready" => log[t] = {} /\ results[t] = <<>>
  /\ \A e \in log[t] : e.agent \in 1..Current(t) /\ e.left \in 0..FirstLeft(t)
  /\ Active(t) => CallInv(t)
  /\ Answers(log[t], FirstLeft(t))
  /\ \A i \in 1..Current(t) : CallFailed(t, i) => LeftIn(log[t], i) = 0..FirstLeft(t)

\* Every variable of the tasks has a value for each of them.
Domains ==
  /\ DOMAIN at = Tasks /\ DOMAIN model = Tasks /\ DOMAIN chain = Tasks
  /\ DOMAIN round = Tasks /\ DOMAIN results = Tasks /\ DOMAIN asked = Tasks
  /\ DOMAIN log = Tasks

CallsInv == Domains /\ \A t \in Tasks : TaskInv(t)

\* A sequence with elements has a length.
LEMMA NotEmpty ==
  ASSUME NEW S, NEW s \in Seq(S), s # <<>>
  PROVE  Len(s) \in Nat \ {0}
<1>1. \A seq \in Seq(S) : seq # <<>> => Len(seq) \in Nat \ {0}
  BY EmptySeq, Zenon
<1> QED
  BY <1>1, Zenon

\* The gateway of the engine has an option.
LEMMA FirstLeftType ==
  ASSUME NEW t
  PROVE  FirstLeft(t) \in Nat
<1>1. Len(Options) \in Nat \ {0}
  <2>1. Options \in Seq([gateway : STRING, model : STRING]) /\ Options # <<>>
    BY TaskAssumption
  <2> QED
    BY <2>1, NotEmpty
<1> QED
  BY <1>1 DEF FirstLeft

\* The invariant holds at first.
LEMMA TasksBegin == Init => CallsInv
<1> SUFFICES ASSUME Init
             PROVE  CallsInv
  OBVIOUS
<1>1. Domains
  BY DEF Init, Domains
<1>2. ASSUME NEW t \in Tasks
      PROVE  TaskInv(t)
  <2>1. at[t] = "ready" /\ log[t] = {} /\ results[t] = <<>>
    BY DEF Init
  <2>2. ~CallFailed(t, 1)
    BY <2>1 DEF CallFailed
  <2>3. Current(t) = 1
    BY <2>1 DEF Current
  <2> QED
    BY <2>1, <2>2, <2>3, EmptySeq DEF TaskInv, Active, Answers
<1> QED
  BY <1>1, <1>2 DEF CallsInv

-----------------------------------------------------------------------------
(* What the steps of a task do to its call.                                *)

\* The values that Ask gives.
LEMMA AskSets ==
  ASSUME Domains, NEW t \in Tasks, NEW name, NEW options, Ask(t, name, options)
  PROVE  /\ at'[t] = "asking" /\ model'[t] = name /\ chain'[t] = options /\ round'[t] = 0
         /\ DOMAIN at' = Tasks /\ DOMAIN model' = Tasks
         /\ DOMAIN chain' = Tasks /\ DOMAIN round' = Tasks
         /\ \A u \in Tasks \ {t} :
              /\ at'[u] = at[u] /\ model'[u] = model[u]
              /\ chain'[u] = chain[u] /\ round'[u] = round[u]
  BY DEF Ask, Domains

\* The first call of a task asks every option.
LEMMA CallStarts ==
  ASSUME Domains, NEW t \in Tasks, TaskInv(t), at[t] = "ready",
         NEW name, NEW options \in Seq(Option), Len(options) = FirstLeft(t) + 1,
         HasAgents(t) => 0 < Len(Def[t].agents),
         Ask(t, name, options), UNCHANGED <<results, log>>
  PROVE  TaskInv(t)'
<1>1. at'[t] = "asking" /\ chain'[t] = options /\ round'[t] = 0
  BY AskSets
<1>2. log[t] = {} /\ results[t] = <<>> /\ Current(t) = 1
  BY DEF TaskInv, Current
<1>3. FirstLeft(t) \in Nat
  BY FirstLeftType
<1>4. CallInv(t)'
  <2>1. LeftIn(log[t], 1) = {}
    BY <1>2 DEF LeftIn
  <2>2. Len(options) .. FirstLeft(t) = {}
    BY <1>3
  <2>3. /\ Current(t)' = 1 /\ FirstLeft(t)' = FirstLeft(t)
    BY <1>2 DEF Current, FirstLeft, HasAgents
  <2>4. LeftIn(log[t], 1) = Len(options) .. FirstLeft(t)
    BY <2>1, <2>2
  <2> QED
    BY <1>1, <1>2, <1>3, <2>3, <2>4 DEF CallInv
<1>5. ~CallFailed(t, 1)'
  BY <1>1, <1>2 DEF CallFailed
<1>6. FirstLeft(t)' = FirstLeft(t) /\ HasAgents(t)' = HasAgents(t)
  BY DEF FirstLeft, HasAgents
<1>7. Current(t)' = 1
  BY <1>2 DEF Current
<1>8. HasAgents(t) => Len(results'[t]) < Len(Def[t].agents)
  BY <1>2
<1> QED
  BY <1>1, <1>2, <1>4, <1>5, <1>6, <1>7, <1>8 DEF TaskInv, Active

\* A task whose agents cannot be read has failed, and one that has none is done.
LEMMA NothingAsked ==
  ASSUME Domains, NEW t \in Tasks, TaskInv(t), at[t] = "ready", HasAgents(t),
         NEW end \in {"done", "failed"}, at' = [at EXCEPT ![t] = end],
         UNCHANGED <<results, log>>
  PROVE  TaskInv(t)'
<1>1. at'[t] = end /\ log[t] = {} /\ results[t] = <<>> /\ Current(t) = 1
  BY DEF Domains, TaskInv, Current
<1>2. FirstLeft(t)' = FirstLeft(t) /\ HasAgents(t)' = HasAgents(t) /\ Current(t)' = 1
  BY <1>1 DEF FirstLeft, HasAgents, Current
<1>3. ~CallFailed(t, 1)'
  BY <1>1, <1>2 DEF CallFailed
<1> QED
  BY <1>1, <1>2, <1>3 DEF TaskInv, Active

\* What is known of a log when the option that is asked has ended.
Ending(t, L) ==
  /\ \A e \in L : e.agent \in 1..Current(t) /\ e.left \in 0..FirstLeft(t)
  /\ LeftIn(L, Current(t)) = (Len(chain[t]) - 1) .. FirstLeft(t)
  /\ \A m : m # Current(t) => LeftIn(L, m) = LeftIn(log[t], m)
  /\ Answers(L, FirstLeft(t))

Unanswered(t, L) == \A e \in L : e.agent = Current(t) => e.end # "answers"

\* After its last option an agent's result is recorded and the next agent asks all
\* options, or the task is done.
LEMMA AgentEnds ==
  ASSUME Domains, NEW t \in Tasks, TaskInv(t), Active(t), HasAgents(t),
         NEW result \in {"error", "text"}, AgentDone(t, result),
         Ending(t, log'[t]),
         result = "error" => Len(chain[t]) = 1
  PROVE  TaskInv(t)'
<1> DEFINE n == Len(results[t]) + 1
<1>1. /\ results[t] \in Seq({"error", "text"}) /\ n \in Nat \ {0} /\ n = Current(t)
      /\ DOMAIN results[t] = 1..Len(results[t])
      /\ Len(results[t]) \in Nat
      /\ n <= Len(Def[t].agents)
      /\ Len(Def[t].agents) \in Nat
  <2>1. results[t] \in Seq({"error", "text"}) /\ Len(results[t]) < Len(Def[t].agents)
    BY DEF TaskInv, Active
  <2>2. Len(results[t]) \in Nat /\ DOMAIN results[t] = 1..Len(results[t])
    BY <2>1, LenProperties
  <2>3. Def[t].agents \in Seq(STRING)
    BY TaskAssumption
  <2>4. Len(Def[t].agents) \in Nat
    BY <2>3, LenProperties
  <2> QED
    BY <2>1, <2>2, <2>4 DEF Current
<1>2. /\ results'[t] = Append(results[t], result)
      /\ results'[t] \in Seq({"error", "text"})
      /\ Len(results'[t]) = n /\ DOMAIN results'[t] = 1..n
      /\ \A i \in 1..Len(results[t]) : results'[t][i] = results[t][i]
      /\ results'[t][n] = result
  <2>1. results'[t] = Append(results[t], result)
    BY DEF AgentDone, Domains
  <2>2. /\ Append(results[t], result) \in Seq({"error", "text"})
        /\ Len(Append(results[t], result)) = n
        /\ \A i \in 1..Len(results[t]) : Append(results[t], result)[i] = results[t][i]
        /\ Append(results[t], result)[n] = result
    BY <1>1, AppendProperties
  <2> QED
    BY <2>1, <2>2, LenProperties
<1>3. Current(t)' = n + 1
  BY <1>2 DEF Current
<1>4. FirstLeft(t) \in Nat /\ FirstLeft(t)' = FirstLeft(t) /\ HasAgents(t)' /\ FirstLeft(t) = Len(Options) - 1
  BY FirstLeftType DEF FirstLeft, HasAgents
<1>5. /\ \A e \in log'[t] : e.agent \in 1..n /\ e.left \in 0..FirstLeft(t)
      /\ LeftIn(log'[t], n) = (Len(chain[t]) - 1) .. FirstLeft(t)
      /\ \A m : m # n => LeftIn(log'[t], m) = LeftIn(log[t], m)
      /\ Answers(log'[t], FirstLeft(t))
  BY <1>1 DEF Ending
<1> HIDE DEF n
<1>6. \A i \in 1..(n + 1) : CallFailed(t, i)' => LeftIn(log'[t], i) = 0..FirstLeft(t)
  <2> SUFFICES ASSUME NEW i \in 1..(n + 1), CallFailed(t, i)'
               PROVE  LeftIn(log'[t], i) = 0..FirstLeft(t)
    OBVIOUS
  <2>1. i \in 1..n /\ results'[t][i] = "error"
    BY <1>2, <1>4 DEF CallFailed
  <2>2. CASE i = n
    <3>1. Len(chain[t]) = 1
      BY <1>2, <2>1, <2>2
    <3>2. Len(chain[t]) - 1 = 0
      BY <3>1
    <3> QED
      BY <1>5, <2>2, <3>2
  <2>3. CASE i # n
    <3>1. i \in 1..Len(results[t]) /\ n = Len(results[t]) + 1
      BY <1>1, <2>1, <2>3 DEF n
    <3>2. CallFailed(t, i)
      BY <1>1, <1>2, <2>1, <3>1 DEF CallFailed
    <3>3. LeftIn(log[t], i) = 0..FirstLeft(t)
      BY <1>1, <3>1, <3>2 DEF TaskInv, Current
    <3> QED
      BY <1>5, <2>3, <3>3
  <2> QED
    BY <2>2, <2>3
<1>7. \A e \in log'[t] : e.agent \in 1..(n + 1) /\ e.left \in 0..FirstLeft(t)
  BY <1>1, <1>5
<1>8. CASE n < Len(Def[t].agents)
  <2>1. Ask(t, AgentModel(t, n + 1), Options)
    BY <1>8 DEF AgentDone, n
  <2>2. at'[t] = "asking" /\ chain'[t] = Options /\ round'[t] = 0
    BY <2>1, AskSets
  <2>3. Options \in Seq(Option) /\ Len(Options) = FirstLeft(t) + 1
    <3>1. Options \in Seq([gateway : STRING, model : STRING])
      BY TaskAssumption
    <3>2. [gateway : STRING, model : STRING] \subseteq Option
      BY DEF Option
    <3>3. Options \in Seq(Option)
      BY <3>1, <3>2, SeqMonotonic
    <3> QED
      BY <1>4, <3>3, LenProperties
  <2>4. \A e \in log'[t] : e.agent # n + 1
    BY <1>1, <1>5
  <2>5. LeftIn(log'[t], n + 1) = Len(Options) .. FirstLeft(t)
    <3>1. LeftIn(log'[t], n + 1) = {}
      BY <2>4 DEF LeftIn
    <3>2. Len(Options) .. FirstLeft(t) = {}
      BY <1>4, <2>3
    <3> QED
      BY <3>1, <3>2
  <2>6. CallInv(t)'
    BY <1>3, <1>4, <2>2, <2>3, <2>4, <2>5 DEF CallInv
  <2> QED
    BY <1>2, <1>3, <1>4, <1>5, <1>6, <1>7, <1>8, <2>2, <2>6 DEF TaskInv, Active, HasAgents
<1>9. CASE ~(n < Len(Def[t].agents))
  <2>1. at'[t] = "done"
    BY <1>9 DEF AgentDone, Domains, n
  <2> QED
    BY <1>2, <1>3, <1>4, <1>5, <1>6, <1>7, <2>1 DEF TaskInv, Active
<1> QED
  BY <1>8, <1>9

\* A failed option is followed by the one behind it, or the call has failed.
LEMMA CallFails ==
  ASSUME Domains, NEW t \in Tasks, TaskInv(t), Active(t), Fails(t),
         Ending(t, log'[t]), Unanswered(t, log'[t])
  PROVE  TaskInv(t)'
<1>1. /\ chain[t] \in Seq(Option) /\ Len(chain[t]) \in Nat \ {0} /\ chain[t] # <<>>
      /\ Len(chain[t]) <= FirstLeft(t) + 1 /\ FirstLeft(t) \in Nat
  <2>1. CallInv(t)
    BY DEF TaskInv
  <2>2. chain[t] \in Seq(Option) /\ Len(chain[t]) \in 1..(FirstLeft(t) + 1) /\ FirstLeft(t) \in Nat
    BY <2>1, FirstLeftType DEF CallInv
  <2>3. Len(chain[t]) # 0
    BY <2>2
  <2>4. chain[t] # <<>>
    BY <2>3
  <2> QED
    BY <2>2, <2>4
<1>2. ~(Len(chain[t]) > 1) => Len(chain[t]) = 1
  <2> DEFINE k == Len(chain[t])
  <2>1. k \in Nat \ {0}
    BY <1>1
  <2> HIDE DEF k
  <2>2. ~(k > 1) => k = 1
    BY <2>1
  <2> QED
    BY <2>2 DEF k
<1>3. CASE Len(chain[t]) > 1
  <2>1. Ask(t, model[t], Tail(chain[t])) /\ results' = results
    BY <1>3 DEF Fails
  <2>2. at'[t] = "asking" /\ chain'[t] = Tail(chain[t]) /\ round'[t] = 0
    BY <2>1, AskSets
  <2>3. Tail(chain[t]) \in Seq(Option) /\ Len(Tail(chain[t])) = Len(chain[t]) - 1
    BY <1>1, HeadTailProperties
  <2>4. /\ Current(t)' = Current(t) /\ FirstLeft(t)' = FirstLeft(t) /\ HasAgents(t)' = HasAgents(t)
    BY <2>1 DEF Current, FirstLeft, HasAgents
  <2>5. \A e \in log'[t] : e.agent = Current(t) => e.left # Len(chain[t]) - 2
    <3>1. \A e \in log'[t] : e.agent = Current(t) => e.left \in (Len(chain[t]) - 1) .. FirstLeft(t)
      BY DEF Ending, LeftIn
    <3> QED
      BY <1>1, <3>1
  <2>6. LeftIn(log'[t], Current(t)) = Len(Tail(chain[t])) .. FirstLeft(t)
    BY <2>3 DEF Ending
  <2>7. Len(Tail(chain[t])) \in 1..(FirstLeft(t) + 1) /\ Len(Tail(chain[t])) - 1 = Len(chain[t]) - 2
    BY <1>1, <1>3, <2>3
  <2>8. CallInv(t)'
    BY <2>2, <2>3, <2>4, <2>5, <2>6, <2>7 DEF CallInv, Unanswered
  <2>9. \A i \in 1..Current(t) : CallFailed(t, i)' => LeftIn(log'[t], i) = 0..FirstLeft(t)
    <3> SUFFICES ASSUME NEW i \in 1..Current(t), CallFailed(t, i)'
                 PROVE  LeftIn(log'[t], i) = 0..FirstLeft(t)
      OBVIOUS
    <3>1. HasAgents(t) /\ i \in DOMAIN results[t] /\ results[t][i] = "error"
      BY <2>1, <2>2, <2>4 DEF CallFailed
    <3>2. results[t] \in Seq({"error", "text"})
      BY DEF TaskInv
    <3>3. i # Current(t)
      BY <3>1, <3>2, LenProperties DEF Current
    <3>4. LeftIn(log[t], i) = 0..FirstLeft(t)
      BY <3>1 DEF TaskInv, CallFailed
    <3> QED
      BY <3>3, <3>4 DEF Ending
  <2> QED
    BY <2>1, <2>2, <2>4, <2>8, <2>9 DEF TaskInv, Active, Ending
<1>4. CASE ~(Len(chain[t]) > 1) /\ HasAgents(t)
  <2>1. AgentDone(t, "error")
    BY <1>4 DEF Fails
  <2>2. Len(chain[t]) = 1
    BY <1>2, <1>4
  <2> QED
    BY <1>4, <2>1, <2>2, AgentEnds
<1>5. CASE ~(Len(chain[t]) > 1) /\ ~HasAgents(t)
  <2>1. at'[t] = "failed" /\ results' = results
    BY <1>5 DEF Fails, Domains
  <2>2. Len(chain[t]) - 1 = 0
    BY <1>2, <1>5
  <2>3. Current(t) = 1
    BY <1>5 DEF TaskInv, Current
  <2>4. /\ Current(t)' = Current(t) /\ FirstLeft(t)' = FirstLeft(t) /\ HasAgents(t)' = HasAgents(t)
    BY <2>1 DEF Current, FirstLeft, HasAgents
  <2>5. LeftIn(log'[t], 1) = 0..FirstLeft(t)
    BY <2>2, <2>3 DEF Ending
  <2>6. \A i \in 1..Current(t) : LeftIn(log'[t], i) = 0..FirstLeft(t)
    BY <2>3, <2>5
  <2> QED
    BY <1>5, <2>1, <2>4, <2>6 DEF TaskInv, Active, Ending
<1> QED
  BY <1>3, <1>4, <1>5

\* The request that ends is in the log.
LEMMA RequestLogged ==
  ASSUME Domains, NEW t \in Tasks, TaskInv(t), at[t] = "asking",
         NEW charge, NEW end \in {"fails", "calls", "answers"}, Logged(t, charge, end)
  PROVE  /\ Ending(t, log'[t])
         /\ end # "answers" => Unanswered(t, log'[t])
         /\ \A e \in log'[t] :
              (e.agent = Current(t) /\ e.left = Len(chain[t]) - 1) => e.end \in {"calls", end}
<1> DEFINE n == Current(t)
           left == Len(chain[t]) - 1
           entry == [agent |-> n, gateway |-> Head(chain[t]).gateway, model |-> ModelAsked(t),
                     left |-> left, round |-> round[t], charge |-> charge, end |-> end]
<1>1. log'[t] = log[t] \cup {entry}
  BY DEF Logged, Domains, Current
<1>2. /\ entry.agent = n /\ entry.left = left /\ entry.end = end
  OBVIOUS
<1> HIDE DEF entry
<1>3. CallInv(t)
  BY DEF TaskInv, Active
<1>4. FirstLeft(t) \in Nat /\ n \in Nat \ {0} /\ left \in 0..FirstLeft(t)
  <2>1. FirstLeft(t) \in Nat
    BY FirstLeftType
  <2>2. Len(results[t]) \in Nat
    BY LenProperties DEF TaskInv
  <2>3. Len(chain[t]) \in 1..(FirstLeft(t) + 1)
    BY <1>3 DEF CallInv
  <2> QED
    BY <2>1, <2>2, <2>3 DEF Current
<1>5. LeftIn(log[t], n) \cup {left} = left .. FirstLeft(t)
  <2>1. LeftIn(log[t], n) = (IF round[t] > 0 THEN left ELSE left + 1) .. FirstLeft(t)
    <3>1. LeftIn(log[t], n) = (IF round[t] > 0 THEN left ELSE Len(chain[t])) .. FirstLeft(t)
      BY <1>3 DEF CallInv
    <3>2. Len(chain[t]) = left + 1
      BY <1>3, <1>4 DEF CallInv
    <3> QED
      BY <3>1, <3>2
  <2> HIDE DEF left, n
  <2>2. CASE round[t] > 0
    BY <1>4, <2>1, <2>2
  <2>3. CASE ~(round[t] > 0)
    BY <1>4, <2>1, <2>3
  <2> QED
    BY <2>2, <2>3
<1>6. /\ LeftIn(log'[t], n) = left .. FirstLeft(t)
      /\ \A m : m # n => LeftIn(log'[t], m) = LeftIn(log[t], m)
  <2> HIDE DEF left, n
  <2>1. LeftIn(log'[t], n) = LeftIn(log[t], n) \cup {left}
    BY <1>1, <1>2 DEF LeftIn
  <2>2. ASSUME NEW m, m # n
        PROVE  LeftIn(log'[t], m) = LeftIn(log[t], m)
    BY <1>1, <1>2, <2>2 DEF LeftIn
  <2> QED
    BY <1>5, <2>1, <2>2
<1>7. \A e \in log[t] : e.agent = n => e.end # "answers" /\ (e.left = left => e.end = "calls")
  BY <1>3 DEF CallInv
<1>8. Answers(log[t], FirstLeft(t))
  BY DEF TaskInv
<1>9. Answers(log'[t], FirstLeft(t))
  <2> HIDE DEF left, n
  <2>1. CASE end # "answers"
    BY <1>1, <1>2, <1>7, <1>8, <2>1, AnswersKept
  <2>2. CASE end = "answers"
    <3>1. LeftIn(log[t] \cup {entry}, entry.agent) = entry.left .. FirstLeft(t)
      BY <1>1, <1>2, <1>6
    <3>2. \A d \in log[t] : d.agent = entry.agent
                             => d.end # "answers" /\ (d.left = entry.left => d.end = "calls")
      BY <1>2, <1>7
    <3> QED
      BY <1>1, <1>8, <3>1, <3>2, AnswerAdded
  <2> QED
    BY <2>1, <2>2
<1>10. \A e \in log'[t] : e.agent \in 1..n /\ e.left \in 0..FirstLeft(t)
  <2>1. \A e \in log[t] : e.agent \in 1..n /\ e.left \in 0..FirstLeft(t)
    BY DEF TaskInv
  <2> HIDE DEF left, n
  <2> QED
    BY <1>1, <1>2, <1>4, <2>1
<1>11. Ending(t, log'[t])
  BY <1>6, <1>9, <1>10 DEF Ending
<1>12. end # "answers" => Unanswered(t, log'[t])
  BY <1>1, <1>2, <1>7 DEF Unanswered
<1>13. \A e \in log'[t] : (e.agent = n /\ e.left = left) => e.end \in {"calls", end}
  BY <1>1, <1>2, <1>7
<1> QED
  BY <1>11, <1>12, <1>13

-----------------------------------------------------------------------------
(* A step of one task leaves the others alone.                             *)

\* The call of task u is as it was.
CallKept(u) ==
  /\ at'[u] = at[u] /\ model'[u] = model[u] /\ chain'[u] = chain[u]
  /\ round'[u] = round[u] /\ results'[u] = results[u]

CallDomains ==
  /\ DOMAIN at' = Tasks /\ DOMAIN model' = Tasks /\ DOMAIN chain' = Tasks
  /\ DOMAIN round' = Tasks /\ DOMAIN results' = Tasks

\* What Ask, AgentDone and Fails do to the others.
LEMMA AgentDoneFrame ==
  ASSUME Domains, NEW t \in Tasks, NEW result, AgentDone(t, result)
  PROVE  CallDomains /\ \A u \in Tasks \ {t} : CallKept(u)
<1> DEFINE n == Len(results[t]) + 1
<1>1. /\ DOMAIN results' = Tasks
      /\ \A u \in Tasks \ {t} : results'[u] = results[u]
  BY DEF AgentDone, Domains
<1>2. CASE n < Len(Def[t].agents)
  <2>1. Ask(t, AgentModel(t, n + 1), Options)
    BY <1>2 DEF AgentDone
  <2> QED
    BY <1>1, <2>1, AskSets DEF CallKept, CallDomains
<1>3. CASE ~(n < Len(Def[t].agents))
  <2>1. at' = [at EXCEPT ![t] = "done"] /\ UNCHANGED <<model, chain, round>>
    BY <1>3 DEF AgentDone
  <2> QED
    BY <1>1, <2>1 DEF CallKept, CallDomains, Domains
<1> QED
  BY <1>2, <1>3

\* A failed call leaves the other tasks alone.
LEMMA FailsFrame ==
  ASSUME Domains, NEW t \in Tasks, Fails(t)
  PROVE  CallDomains /\ \A u \in Tasks \ {t} : CallKept(u)
<1>1. CASE Len(chain[t]) > 1
  <2>1. Ask(t, model[t], Tail(chain[t])) /\ results' = results
    BY <1>1 DEF Fails
  <2> QED
    BY <2>1, AskSets DEF CallKept, CallDomains, Domains
<1>2. CASE ~(Len(chain[t]) > 1) /\ HasAgents(t)
  BY <1>2, AgentDoneFrame DEF Fails
<1>3. CASE ~(Len(chain[t]) > 1) /\ ~HasAgents(t)
  BY <1>3 DEF Fails, CallKept, CallDomains, Domains
<1> QED
  BY <1>1, <1>2, <1>3

\* No task loses its variables, and what the others want and have asked is kept.
LEMMA StepFrame ==
  ASSUME Domains, NEW t \in Tasks, Step(t)
  PROVE  /\ Domains'
         /\ \A u \in Tasks \ {t} : CallKept(u) /\ asked'[u] = asked[u] /\ log'[u] = log[u]
<1> DEFINE Frame == /\ Domains'
                    /\ \A u \in Tasks \ {t} :
                         CallKept(u) /\ asked'[u] = asked[u] /\ log'[u] = log[u]
<1>1. ASSUME CallDomains, \A u \in Tasks \ {t} : CallKept(u),
             DOMAIN asked' = Tasks, DOMAIN log' = Tasks,
             \A u \in Tasks \ {t} : asked'[u] = asked[u] /\ log'[u] = log[u]
      PROVE  Frame
  BY <1>1 DEF CallDomains, Domains
<1>2. ASSUME NEW name, NEW options, Ask(t, name, options), results' = results
      PROVE  CallDomains /\ \A u \in Tasks \ {t} : CallKept(u)
  BY <1>2, AskSets DEF CallDomains, CallKept, Domains
<1>3. ASSUME NEW charge, NEW end, Logged(t, charge, end)
      PROVE  DOMAIN log' = Tasks /\ \A u \in Tasks \ {t} : log'[u] = log[u]
  BY <1>3 DEF Logged, Domains
<1>4. ASSUME log' = log
      PROVE  DOMAIN log' = Tasks /\ \A u \in Tasks \ {t} : log'[u] = log[u]
  BY <1>4 DEF Domains
<1>5. ASSUME asked' = asked
      PROVE  DOMAIN asked' = Tasks /\ \A u \in Tasks \ {t} : asked'[u] = asked[u]
  BY <1>5 DEF Domains
<1>6. ASSUME NEW where, at' = [at EXCEPT ![t] = where],
             UNCHANGED <<model, chain, results>>,
             round' = round \/ round' = [round EXCEPT ![t] = @ + 1]
      PROVE  CallDomains /\ \A u \in Tasks \ {t} : CallKept(u)
  BY <1>6 DEF CallDomains, CallKept, Domains
<1> SUFFICES Frame
  OBVIOUS
<1> HIDE DEF Frame
<1>7. CASE Execute(t)
  <2>1. PICK name \in resolveModel(t) :
          /\ asked' = [asked EXCEPT ![t] = name]
          /\ \/ Routes(t, name) = {} /\ Ask(t, name, Options)
             \/ \E r \in Routes(t, name) :
                   Ask(t, r.model, <<[gateway |-> r.gateway, model |-> ""]>>)
    BY <1>7 DEF Execute
  <2>2. DOMAIN asked' = Tasks /\ \A u \in Tasks \ {t} : asked'[u] = asked[u]
    BY <2>1 DEF Domains
  <2>3. results' = results /\ log' = log
    BY <1>7 DEF Execute
  <2>4. CallDomains /\ \A u \in Tasks \ {t} : CallKept(u)
    BY <1>2, <2>1, <2>3
  <2> QED
    BY <1>1, <1>4, <2>2, <2>3, <2>4
<1>8. CASE ExecuteAgents(t)
  <2>1. results' = results /\ asked' = asked /\ log' = log
    BY <1>8 DEF ExecuteAgents
  <2>2. \/ Ask(t, AgentModel(t, 1), Options)
        \/ /\ \E end \in {"done", "failed"} : at' = [at EXCEPT ![t] = end]
           /\ UNCHANGED <<model, chain, round>>
    BY <1>8 DEF ExecuteAgents
  <2>3. CallDomains /\ \A u \in Tasks \ {t} : CallKept(u)
    BY <1>2, <1>6, <2>1, <2>2
  <2> QED
    BY <1>1, <1>4, <1>5, <2>1, <2>3
<1>9. CASE RequestFails(t)
  <2>1. Logged(t, 0, "fails") /\ Fails(t) /\ asked' = asked
    BY <1>9 DEF RequestFails
  <2> QED
    BY <1>1, <1>3, <1>5, <2>1, FailsFrame
<1>10. ASSUME NEW charge, RequestAnswered(t, charge)
       PROVE  Frame
  <2>1. Logged(t, charge, "answers") /\ asked' = asked
    BY <1>10 DEF RequestAnswered
  <2>2. CASE HasAgents(t)
    <3>1. AgentDone(t, "text")
      BY <1>10, <2>2 DEF RequestAnswered
    <3> QED
      BY <1>1, <1>3, <1>5, <2>1, <3>1, AgentDoneFrame
  <2>3. CASE ~HasAgents(t)
    <3>1. /\ at' = [at EXCEPT ![t] = "answered"] /\ round' = round
          /\ UNCHANGED <<model, chain, results>>
      BY <1>10, <2>3 DEF RequestAnswered
    <3> QED
      BY <1>1, <1>3, <1>5, <1>6, <2>1, <3>1
  <2> QED
    BY <2>2, <2>3
<1>11. ASSUME NEW charge, NEW tools, RequestCalls(t, charge, tools)
       PROVE  Frame
  <2>1. Logged(t, charge, "calls") /\ asked' = asked
    BY <1>11 DEF RequestCalls
  <2>2. CASE MoreRounds(t)
    <3>1. /\ at' = [at EXCEPT ![t] = "calling"] /\ round' = round
          /\ UNCHANGED <<model, chain, results>>
      BY <1>11, <2>2 DEF RequestCalls
    <3> QED
      BY <1>1, <1>3, <1>5, <1>6, <2>1, <3>1
  <2>3. CASE ~MoreRounds(t)
    <3>1. Fails(t)
      BY <1>11, <2>3 DEF RequestCalls
    <3> QED
      BY <1>1, <1>3, <1>5, <2>1, <3>1, FailsFrame
  <2> QED
    BY <2>2, <2>3
<1>12. CASE RunTools(t)
  <2>1. /\ at' = [at EXCEPT ![t] = "asking"] /\ round' = [round EXCEPT ![t] = @ + 1]
        /\ UNCHANGED <<model, chain, results>> /\ asked' = asked /\ log' = log
    BY <1>12 DEF RunTools
  <2> QED
    BY <1>1, <1>4, <1>5, <1>6, <2>1
<1>13. CASE ToolRefused(t)
  <2>1. Fails(t) /\ asked' = asked /\ log' = log
    BY <1>13 DEF ToolRefused
  <2> QED
    BY <1>1, <1>4, <1>5, <2>1, FailsFrame
<1>14. CASE ReadTotal(t)
  <2>1. /\ at' = [at EXCEPT ![t] = "costing"] /\ round' = round
        /\ UNCHANGED <<model, chain, results>> /\ asked' = asked /\ log' = log
    BY <1>14 DEF ReadTotal
  <2> QED
    BY <1>1, <1>4, <1>5, <1>6, <2>1
<1>15. CASE WriteTotal(t)
  <2>1. /\ at' = [at EXCEPT ![t] = "done"] /\ round' = round
        /\ UNCHANGED <<model, chain, results>> /\ asked' = asked /\ log' = log
    BY <1>15 DEF WriteTotal
  <2> QED
    BY <1>1, <1>4, <1>5, <1>6, <2>1
<1> QED
  BY <1>7, <1>8, <1>9, <1>10, <1>11, <1>12, <1>13, <1>14, <1>15 DEF Step

-----------------------------------------------------------------------------
(* The steps of a task keep its invariant.                                 *)

\* A routed provider is the only option of its call.
LEMMA OneOption ==
  ASSUME NEW gateway \in Pool
  PROVE  <<[gateway |-> gateway, model |-> ""]>> \in Seq(Option)
<1> DEFINE option == [gateway |-> gateway, model |-> ""]
<1>1. gateway \in STRING \cup Pool
  OBVIOUS
<1>2. option \in Option
  <2>1. "" \in STRING \cup {""}
    OBVIOUS
  <2>2. ASSUME NEW S, NEW T, NEW g \in S, NEW m \in T
        PROVE  [gateway |-> g, model |-> m] \in [gateway : S, model : T]
    OBVIOUS
  <2> QED
    BY <1>1, <2>1, <2>2, Zenon DEF Option
<1> HIDE DEF option
<1>3. <<option>> \in Seq(Option)
  BY <1>2
<1> QED
  BY <1>3 DEF option

\* The router, when there is one and it knows a provider, gives one option of the
\* pool; else there is none, and every option of the engine is asked.
LEMMA TaskRoutes ==
  ASSUME NEW t \in Tasks, NEW name
  PROVE  /\ Routes(t, name) = {} <=> ~Routed \/ Pool = {}
         /\ \A r \in Routes(t, name) :
              <<[gateway |-> r.gateway, model |-> ""]>> \in Seq(Option)
<1>1. (resolveTools(t) # {}) \in BOOLEAN /\ Def[t].schema \in BOOLEAN
  BY TaskAssumption
<1>2. CASE ~Routed
  BY <1>2 DEF Routes
<1>3. CASE Routed
  <2>1. Routes(t, name) = Resolve(name, resolveTools(t) # {}, Def[t].schema)
    BY <1>3 DEF Routes
  <2>2. /\ Routes(t, name) = {} <=> Pool = {}
        /\ \A r \in Routes(t, name) : r.gateway \in Pool
    BY <1>1, <2>1, RouterResolves
  <2>3. ASSUME NEW r \in Routes(t, name)
        PROVE  <<[gateway |-> r.gateway, model |-> ""]>> \in Seq(Option)
    BY <2>2, OneOption
  <2> QED
    BY <1>3, <2>2, <2>3
<1> QED
  BY <1>2, <1>3

\* The options of the engine.
LEMMA EngineOptions == Options \in Seq(Option) /\ Len(Options) \in Nat \ {0}
<1>1. Options \in Seq([gateway : STRING, model : STRING]) /\ Options # <<>>
  BY TaskAssumption
<1>2. [gateway : STRING, model : STRING] \subseteq Option
  BY DEF Option
<1>3. Options \in Seq(Option)
  BY <1>1, <1>2, SeqMonotonic
<1> QED
  BY <1>1, <1>3, NotEmpty

\* Whatever a task does, its invariant is kept.
LEMMA TaskStep ==
  ASSUME Domains, NEW t \in Tasks, TaskInv(t), Step(t)
  PROVE  TaskInv(t)'
<1>1. FirstLeft(t)' = FirstLeft(t) /\ HasAgents(t)' = HasAgents(t) /\ FirstLeft(t) \in Nat
  BY FirstLeftType DEF FirstLeft, HasAgents
<1>2. CASE Execute(t)
  <2>1. /\ at[t] = "ready" /\ ~HasAgents(t) /\ results' = results /\ log' = log
    BY <1>2 DEF Execute
  <2>2. PICK name \in resolveModel(t) :
          \/ Routes(t, name) = {} /\ Ask(t, name, Options)
          \/ \E r \in Routes(t, name) :
                Ask(t, r.model, <<[gateway |-> r.gateway, model |-> ""]>>)
    BY <1>2 DEF Execute
  <2>3. CASE Routes(t, name) = {} /\ Ask(t, name, Options)
    <3>1. ~(Routed /\ Pool # {})
      BY <2>3, TaskRoutes
    <3>2. FirstLeft(t) = Len(Options) - 1 /\ Len(Options) \in Nat \ {0}
      BY <3>1, EngineOptions DEF FirstLeft
    <3>3. Len(Options) = FirstLeft(t) + 1
      BY <3>2
    <3> QED
      BY <2>1, <2>3, <3>3, CallStarts, EngineOptions
  <2>4. ASSUME NEW r \in Routes(t, name),
               Ask(t, r.model, <<[gateway |-> r.gateway, model |-> ""]>>)
        PROVE  TaskInv(t)'
    <3> DEFINE options == <<[gateway |-> r.gateway, model |-> ""]>>
    <3>1. options \in Seq(Option)
      BY <2>4, TaskRoutes
    <3>2. FirstLeft(t) = 0
      BY <2>1, <2>4, TaskRoutes DEF FirstLeft
    <3>3. Len(options) = FirstLeft(t) + 1
      BY <3>2
    <3>4. Ask(t, r.model, options)
      BY <2>4
    <3> HIDE DEF options
    <3> QED
      BY <2>1, <3>1, <3>2, <3>3, <3>4, CallStarts
  <2> QED
    BY <2>2, <2>3, <2>4
<1>3. CASE ExecuteAgents(t)
  <2>1. /\ at[t] = "ready" /\ HasAgents(t) /\ results' = results /\ log' = log
    BY <1>3 DEF ExecuteAgents
  <2>2. CASE Def[t].agents # <<>> /\ Ask(t, AgentModel(t, 1), Options)
    <3>1. FirstLeft(t) + 1 = Len(Options)
      BY <2>1, EngineOptions DEF FirstLeft
    <3>2. Def[t].agents \in Seq(STRING)
      BY TaskAssumption
    <3>3. Len(Def[t].agents) \in Nat \ {0}
      BY <2>2, <3>2, NotEmpty
    <3>4. 0 < Len(Def[t].agents)
      BY <3>3
    <3> QED
      BY <2>1, <2>2, <3>1, <3>4, CallStarts, EngineOptions
  <2>3. CASE \E end \in {"done", "failed"} : at' = [at EXCEPT ![t] = end]
    BY <2>1, <2>3, NothingAsked
  <2> QED
    BY <1>3, <2>2, <2>3 DEF ExecuteAgents
<1>4. CASE RequestFails(t)
  <2>1. at[t] = "asking" /\ Logged(t, 0, "fails") /\ Fails(t)
    BY <1>4 DEF RequestFails
  <2>2. Ending(t, log'[t]) /\ Unanswered(t, log'[t])
    BY <2>1, RequestLogged
  <2> QED
    BY <2>1, <2>2, CallFails DEF Active
<1>5. ASSUME NEW charge, RequestAnswered(t, charge)
      PROVE  TaskInv(t)'
  <2>1. at[t] = "asking" /\ Logged(t, charge, "answers")
    BY <1>5 DEF RequestAnswered
  <2>2. Ending(t, log'[t])
    BY <2>1, RequestLogged
  <2>3. CASE HasAgents(t)
    <3>1. AgentDone(t, "text")
      BY <1>5, <2>3 DEF RequestAnswered
    <3> QED
      BY <2>1, <2>2, <2>3, <3>1, AgentEnds DEF Active
  <2>4. CASE ~HasAgents(t)
    <3>1. at'[t] = "answered" /\ results' = results
      BY <1>5, <2>4 DEF RequestAnswered, Domains
    <3>2. Current(t)' = Current(t)
      BY <3>1 DEF Current
    <3>3. \A i : ~CallFailed(t, i)'
      BY <1>1, <2>4, <3>1 DEF CallFailed
    <3> QED
      BY <1>1, <2>2, <2>4, <3>1, <3>2, <3>3 DEF TaskInv, Active, Ending
  <2> QED
    BY <2>3, <2>4
<1>6. ASSUME NEW charge, NEW tools, RequestCalls(t, charge, tools)
      PROVE  TaskInv(t)'
  <2>1. at[t] = "asking" /\ Logged(t, charge, "calls")
    BY <1>6 DEF RequestCalls
  <2>2. /\ Ending(t, log'[t]) /\ Unanswered(t, log'[t])
        /\ \A e \in log'[t] :
             (e.agent = Current(t) /\ e.left = Len(chain[t]) - 1) => e.end = "calls"
    BY <2>1, RequestLogged
  <2>3. CASE MoreRounds(t)
    <3>1. /\ at'[t] = "calling" /\ results' = results /\ chain' = chain /\ round' = round
      BY <1>6, <2>3 DEF RequestCalls, Domains
    <3>2. Current(t)' = Current(t)
      BY <3>1 DEF Current
    <3>3. CallInv(t) /\ Active(t)
      BY <2>1 DEF TaskInv, Active
    <3>4. CallInv(t)'
      BY <1>1, <2>2, <3>1, <3>2, <3>3 DEF CallInv, Ending, Unanswered
    <3>5. \A i \in 1..Current(t) : CallFailed(t, i)' => LeftIn(log'[t], i) = 0..FirstLeft(t)
      <4> SUFFICES ASSUME NEW i \in 1..Current(t), CallFailed(t, i)'
                   PROVE  LeftIn(log'[t], i) = 0..FirstLeft(t)
        OBVIOUS
      <4>1. HasAgents(t) /\ i \in DOMAIN results[t] /\ results[t][i] = "error"
        BY <1>1, <3>1 DEF CallFailed
      <4>2. i # Current(t)
        BY <4>1, LenProperties DEF Current, TaskInv
      <4>3. LeftIn(log[t], i) = 0..FirstLeft(t)
        BY <4>1 DEF TaskInv, CallFailed
      <4> QED
        BY <2>2, <4>2, <4>3 DEF Ending
    <3> QED
      BY <1>1, <2>1, <2>2, <3>1, <3>2, <3>4, <3>5 DEF TaskInv, Active, Ending
  <2>4. CASE ~MoreRounds(t)
    <3>1. Fails(t)
      BY <1>6, <2>4 DEF RequestCalls
    <3> QED
      BY <2>1, <2>2, <3>1, CallFails DEF Active
  <2> QED
    BY <2>3, <2>4
<1>7. CASE RunTools(t)
  <2>1. /\ at[t] = "calling" /\ at'[t] = "asking" /\ round'[t] = round[t] + 1
        /\ results' = results /\ chain' = chain /\ log' = log
    BY <1>7 DEF RunTools, Domains
  <2>2. Current(t)' = Current(t)
    BY <2>1 DEF Current
  <2>3. CallInv(t)
    BY <2>1 DEF TaskInv, Active
  <2>4. round'[t] \in Nat /\ round'[t] > 0
    BY <2>1, <2>3 DEF CallInv
  <2>5. CallInv(t)'
    BY <1>1, <2>1, <2>2, <2>3, <2>4 DEF CallInv
  <2>6. \A i : CallFailed(t, i)' => CallFailed(t, i)
    BY <1>1, <2>1 DEF CallFailed
  <2> QED
    BY <1>1, <2>1, <2>2, <2>5, <2>6 DEF TaskInv, Active
<1>8. CASE ToolRefused(t)
  <2>1. at[t] = "calling" /\ Fails(t) /\ log' = log
    BY <1>8 DEF ToolRefused
  <2>2. CallInv(t)
    BY <2>1 DEF TaskInv, Active
  <2>3. Ending(t, log[t]) /\ Unanswered(t, log[t])
    BY <2>1, <2>2 DEF CallInv, TaskInv, Ending, Unanswered
  <2> QED
    BY <2>1, <2>3, CallFails DEF Active
<1>9. ASSUME at[t] \in {"answered", "costing"}, at'[t] \in {"costing", "done"},
             results' = results, log' = log
      PROVE  TaskInv(t)'
  <2>1. Current(t)' = Current(t)
    BY <1>9 DEF Current
  <2>2. ~HasAgents(t)
    BY <1>9 DEF TaskInv
  <2>3. \A i : ~CallFailed(t, i)'
    BY <1>1, <1>9, <2>2 DEF CallFailed
  <2> QED
    BY <1>1, <1>9, <2>1, <2>2, <2>3 DEF TaskInv, Active
<1>10. CASE ReadTotal(t)
  BY <1>9, <1>10 DEF ReadTotal, Domains
<1>11. CASE WriteTotal(t)
  BY <1>9, <1>11 DEF WriteTotal, Domains
<1> QED
  BY <1>2, <1>3, <1>4, <1>5, <1>6, <1>7, <1>8, <1>10, <1>11 DEF Step

\* A task that is left alone keeps its invariant.
LEMMA TaskKept ==
  ASSUME NEW u \in Tasks, TaskInv(u), CallKept(u), log'[u] = log[u]
  PROVE  TaskInv(u)'
<1>1. /\ FirstLeft(u)' = FirstLeft(u) /\ HasAgents(u)' = HasAgents(u) /\ Current(u)' = Current(u)
  BY DEF FirstLeft, HasAgents, Current, CallKept
<1>2. CallInv(u) => CallInv(u)'
  BY <1>1 DEF CallInv, CallKept
<1>3. \A i : CallFailed(u, i)' <=> CallFailed(u, i)
  BY <1>1 DEF CallFailed, CallKept
<1> QED
  BY <1>1, <1>2, <1>3 DEF TaskInv, CallKept, Active

\* Whatever any task does, all invariants are kept.
LEMMA CallsStep == CallsInv /\ [Next]_vars => CallsInv'
<1> SUFFICES ASSUME CallsInv, [Next]_vars
             PROVE  CallsInv'
  OBVIOUS
<1>1. ASSUME NEW t \in Tasks, Step(t)
      PROVE  CallsInv'
  <2>1. /\ Domains'
        /\ \A u \in Tasks \ {t} : CallKept(u) /\ asked'[u] = asked[u] /\ log'[u] = log[u]
    BY <1>1, StepFrame DEF CallsInv
  <2>2. ASSUME NEW u \in Tasks
        PROVE  TaskInv(u)'
    <3>1. CASE u = t
      BY <1>1, <3>1, TaskStep DEF CallsInv
    <3>2. CASE u # t
      BY <2>1, <3>2, TaskKept DEF CallsInv
    <3> QED
      BY <3>1, <3>2
  <2> QED
    BY <2>1, <2>2 DEF CallsInv
<1>2. ASSUME UNCHANGED vars
      PROVE  CallsInv'
  <2>1. ASSUME NEW u \in Tasks
        PROVE  TaskInv(u)'
    BY <1>2, TaskKept DEF CallsInv, CallKept, vars, taskVars
  <2>2. Domains'
    BY <1>2 DEF CallsInv, Domains, vars, taskVars
  <2> QED
    BY <2>1, <2>2 DEF CallsInv
<1> QED
  BY <1>1, <1>2 DEF Next, Rest

\* What the invariant says of the log is what FailoverComplete asks.
LEMMA CallsAreComplete == CallsInv => FailoverComplete
<1> SUFFICES ASSUME CallsInv, NEW t \in Tasks
             PROVE  /\ \A i \in 1 .. Len(results[t]) + 1 :
                         CallFailed(t, i) => LeftOf(t, i) = 0 .. FirstLeft(t)
                    /\ \A e \in log[t] : e.end = "answers" =>
                         /\ LeftOf(t, e.agent) = e.left .. FirstLeft(t)
                         /\ \A d \in log[t] \ {e} :
                              (d.agent = e.agent /\ d.left = e.left) => d.end = "calls"
  BY DEF FailoverComplete, FirstLeft
<1>1. \A i : LeftOf(t, i) = LeftIn(log[t], i)
  BY DEF LeftOf, LeftIn
<1>2. TaskInv(t)
  BY DEF CallsInv
<1> QED
  BY <1>1, <1>2 DEF TaskInv, Answers, Current

\* A call that failed has asked every option of its gateway and one that was
\* answered every option before: the fallback chains leave none out, whatever
\* fails and wherever (FallbackGateway, CrossProviderGateway, the tool loop).
THEOREM FailoverIsComplete == Spec => []FailoverComplete
<1>1. Spec => []CallsInv
  BY TasksBegin, CallsStep, PTL DEF Spec
<1> QED
  BY <1>1, CallsAreComplete, PTL

-----------------------------------------------------------------------------
(* The provider that a routed task asks.                                   *)

Alone(r) == <<[gateway |-> r.gateway, model |-> ""]>>

\* Every request of the task t went to the route r, and so does the next.
TakesRoute(t, r) ==
  /\ Active(t) => model[t] = r.model /\ chain[t] = Alone(r)
  /\ \A e \in log[t] : e.gateway = r.gateway /\ e.model = r.model

RouteInv(t) ==
  Routed /\ Pool # {} /\ ~HasAgents(t) =>
    IF at[t] = "ready" THEN log[t] = {}
    ELSE \E r \in Routes(t, asked[t]) : TakesRoute(t, r)

RoutesInv == Domains /\ \A t \in Tasks : RouteInv(t)

\* The one option of a route.
LEMMA AloneIsOne ==
  ASSUME NEW r
  PROVE  /\ Len(Alone(r)) = 1
         /\ Head(Alone(r)).gateway = r.gateway /\ Head(Alone(r)).model = ""
<1> DEFINE option == [gateway |-> r.gateway, model |-> ""]
<1>1. option.gateway = r.gateway /\ option.model = ""
  OBVIOUS
<1> HIDE DEF option
<1>2. Len(<<option>>) = 1 /\ Head(<<option>>) = option
  OBVIOUS
<1> QED
  BY <1>1, <1>2 DEF Alone, option

\* A request that is logged is one to the route.
LEMMA RouteLogged ==
  ASSUME Domains, NEW t \in Tasks, NEW r, TakesRoute(t, r), Active(t),
         NEW charge, NEW end, Logged(t, charge, end)
  PROVE  \A e \in log'[t] : e.gateway = r.gateway /\ e.model = r.model
<1>1. model[t] = r.model /\ chain[t] = Alone(r)
  BY DEF TakesRoute
<1>2. Head(chain[t]).gateway = r.gateway /\ ModelAsked(t) = r.model
  BY <1>1, AloneIsOne DEF ModelAsked
<1>3. \A e \in log'[t] : e \in log[t] \/ (e.gateway = r.gateway /\ e.model = r.model)
  BY <1>2 DEF Logged, Domains
<1> QED
  BY <1>3 DEF TakesRoute

\* A route that fails is not followed by another.
LEMMA RouteFails ==
  ASSUME Domains, NEW t \in Tasks, NEW r, TakesRoute(t, r), Active(t), ~HasAgents(t), Fails(t)
  PROVE  at'[t] = "failed"
<1>1. Len(chain[t]) = 1
  BY AloneIsOne DEF TakesRoute
<1>2. ~(Len(chain[t]) > 1)
  BY <1>1
<1> QED
  BY <1>2 DEF Fails, Domains

\* Whatever a task does, it stays on its route.
LEMMA RouteStep ==
  ASSUME Domains, NEW t \in Tasks, RouteInv(t), Step(t)
  PROVE  RouteInv(t)'
<1> SUFFICES ASSUME Routed, Pool # {}, ~HasAgents(t)
             PROVE  IF at'[t] = "ready" THEN log'[t] = {}
                    ELSE \E r \in Routes(t, asked'[t]) : TakesRoute(t, r)'
  BY DEF RouteInv, HasAgents, Routes, resolveTools
<1>1. CASE Execute(t)
  <2>1. PICK name \in resolveModel(t) :
          /\ asked' = [asked EXCEPT ![t] = name]
          /\ \/ Routes(t, name) = {} /\ Ask(t, name, Options)
             \/ \E r \in Routes(t, name) : Ask(t, r.model, Alone(r))
    BY <1>1 DEF Execute, Alone
  <2>2. asked'[t] = name
    BY <2>1 DEF Domains
  <2>3. Routes(t, name) # {}
    BY TaskRoutes
  <2>4. PICK r \in Routes(t, name) : Ask(t, r.model, Alone(r))
    BY <2>1, <2>3
  <2>5. at'[t] = "asking" /\ model'[t] = r.model /\ chain'[t] = Alone(r)
    BY <2>4, AskSets
  <2>6. log'[t] = {}
    BY <1>1 DEF Execute, RouteInv
  <2>7. TakesRoute(t, r)'
    BY <2>5, <2>6 DEF TakesRoute, Active, Alone
  <2> QED
    BY <2>2, <2>5, <2>7
<1>2. CASE ExecuteAgents(t)
  BY <1>2 DEF ExecuteAgents
<1>3. ASSUME at[t] # "ready", asked' = asked, at'[t] # "ready",
             \A r : TakesRoute(t, r) => TakesRoute(t, r)'
      PROVE  IF at'[t] = "ready" THEN log'[t] = {}
             ELSE \E r \in Routes(t, asked'[t]) : TakesRoute(t, r)'
  BY <1>3 DEF RouteInv
<1>4. ASSUME NEW charge, NEW end, at[t] = "asking", asked' = asked, Logged(t, charge, end), Fails(t)
      PROVE  IF at'[t] = "ready" THEN log'[t] = {}
             ELSE \E r \in Routes(t, asked'[t]) : TakesRoute(t, r)'
  <2>1. PICK r \in Routes(t, asked[t]) : TakesRoute(t, r)
    BY <1>4 DEF RouteInv
  <2>2. at'[t] = "failed"
    BY <1>4, <2>1, RouteFails DEF Active
  <2>3. \A e \in log'[t] : e.gateway = r.gateway /\ e.model = r.model
    BY <1>4, <2>1, RouteLogged DEF Active
  <2>4. TakesRoute(t, r)'
    BY <2>2, <2>3 DEF TakesRoute, Active
  <2> QED
    BY <1>4, <2>1, <2>2, <2>4
<1>5. ASSUME NEW charge, NEW end, at[t] = "asking", asked' = asked, Logged(t, charge, end),
             at'[t] \in {"answered", "calling"}, model' = model, chain' = chain
      PROVE  IF at'[t] = "ready" THEN log'[t] = {}
             ELSE \E r \in Routes(t, asked'[t]) : TakesRoute(t, r)'
  <2>1. PICK r \in Routes(t, asked[t]) : TakesRoute(t, r)
    BY <1>5 DEF RouteInv
  <2>2. \A e \in log'[t] : e.gateway = r.gateway /\ e.model = r.model
    BY <1>5, <2>1, RouteLogged DEF Active
  <2>3. model[t] = r.model /\ chain[t] = Alone(r)
    BY <1>5, <2>1 DEF TakesRoute, Active
  <2>4. TakesRoute(t, r)'
    BY <1>5, <2>2, <2>3 DEF TakesRoute, Active, Alone
  <2> QED
    BY <1>5, <2>1, <2>4
<1>6. CASE RequestFails(t)
  BY <1>4, <1>6 DEF RequestFails
<1>7. ASSUME NEW charge, RequestAnswered(t, charge)
      PROVE  IF at'[t] = "ready" THEN log'[t] = {}
             ELSE \E r \in Routes(t, asked'[t]) : TakesRoute(t, r)'
  <2>1. /\ at[t] = "asking" /\ asked' = asked /\ Logged(t, charge, "answers")
        /\ at'[t] = "answered" /\ model' = model /\ chain' = chain
    BY <1>7 DEF RequestAnswered, Domains
  <2> QED
    BY <1>5, <2>1
<1>8. ASSUME NEW charge, NEW tools, RequestCalls(t, charge, tools)
      PROVE  IF at'[t] = "ready" THEN log'[t] = {}
             ELSE \E r \in Routes(t, asked'[t]) : TakesRoute(t, r)'
  <2>1. at[t] = "asking" /\ asked' = asked /\ Logged(t, charge, "calls")
    BY <1>8 DEF RequestCalls
  <2>2. CASE MoreRounds(t)
    <3>1. at'[t] = "calling" /\ model' = model /\ chain' = chain
      BY <1>8, <2>2 DEF RequestCalls, Domains
    <3> QED
      BY <1>5, <2>1, <3>1
  <2>3. CASE ~MoreRounds(t)
    <3>1. Fails(t)
      BY <1>8, <2>3 DEF RequestCalls
    <3> QED
      BY <1>4, <2>1, <3>1
  <2> QED
    BY <2>2, <2>3
<1>9. CASE RunTools(t)
  <2>1. /\ at[t] = "calling" /\ at'[t] = "asking"
        /\ model' = model /\ chain' = chain /\ asked' = asked /\ log' = log
    BY <1>9 DEF RunTools, Domains
  <2>2. \A r : TakesRoute(t, r) => TakesRoute(t, r)'
    BY <2>1 DEF TakesRoute, Active, Alone
  <2> QED
    BY <1>3, <2>1, <2>2
<1>10. CASE ToolRefused(t)
  <2>1. at[t] = "calling" /\ Fails(t) /\ asked' = asked /\ log' = log
    BY <1>10 DEF ToolRefused
  <2>2. PICK r \in Routes(t, asked[t]) : TakesRoute(t, r)
    BY <2>1 DEF RouteInv
  <2>3. at'[t] = "failed"
    BY <2>1, <2>2, RouteFails DEF Active
  <2>4. TakesRoute(t, r)'
    BY <2>1, <2>2, <2>3 DEF TakesRoute, Active
  <2> QED
    BY <2>1, <2>2, <2>3, <2>4
<1>11. ASSUME at[t] \in {"answered", "costing"}, at'[t] \in {"costing", "done"},
              asked' = asked, log' = log
       PROVE  IF at'[t] = "ready" THEN log'[t] = {}
              ELSE \E r \in Routes(t, asked'[t]) : TakesRoute(t, r)'
  <2>1. \A r : TakesRoute(t, r) => TakesRoute(t, r)'
    BY <1>11 DEF TakesRoute, Active
  <2> QED
    BY <1>3, <1>11, <2>1
<1>12. CASE ReadTotal(t)
  BY <1>11, <1>12 DEF ReadTotal, Domains
<1>13. CASE WriteTotal(t)
  BY <1>11, <1>13 DEF WriteTotal, Domains
<1> QED
  BY <1>1, <1>2, <1>6, <1>7, <1>8, <1>9, <1>10, <1>12, <1>13 DEF Step

\* A task that is left alone stays on its route.
LEMMA RouteKept ==
  ASSUME NEW u \in Tasks, RouteInv(u), CallKept(u), asked'[u] = asked[u], log'[u] = log[u]
  PROVE  RouteInv(u)'
<1>1. \A r : TakesRoute(u, r)' <=> TakesRoute(u, r)
  BY DEF TakesRoute, Active, Alone, CallKept
<1>2. HasAgents(u)' = HasAgents(u) /\ Routes(u, asked[u])' = Routes(u, asked'[u])
  BY DEF HasAgents, Routes, resolveTools
<1> QED
  BY <1>1, <1>2 DEF RouteInv, CallKept, Routes

\* Whatever any task does, all stay on their routes.
LEMMA RoutesStep == RoutesInv /\ [Next]_vars => RoutesInv'
<1> SUFFICES ASSUME RoutesInv, [Next]_vars
             PROVE  RoutesInv'
  OBVIOUS
<1>1. ASSUME NEW t \in Tasks, Step(t)
      PROVE  RoutesInv'
  <2>1. /\ Domains'
        /\ \A u \in Tasks \ {t} : CallKept(u) /\ asked'[u] = asked[u] /\ log'[u] = log[u]
    BY <1>1, StepFrame DEF RoutesInv
  <2>2. ASSUME NEW u \in Tasks
        PROVE  RouteInv(u)'
    <3>1. CASE u = t
      BY <1>1, <3>1, RouteStep DEF RoutesInv
    <3>2. CASE u # t
      BY <2>1, <3>2, RouteKept DEF RoutesInv
    <3> QED
      BY <3>1, <3>2
  <2> QED
    BY <2>1, <2>2 DEF RoutesInv
<1>2. ASSUME UNCHANGED vars
      PROVE  RoutesInv'
  <2>1. ASSUME NEW u \in Tasks
        PROVE  RouteInv(u)'
    BY <1>2, RouteKept DEF RoutesInv, CallKept, vars, taskVars
  <2>2. Domains'
    BY <1>2 DEF RoutesInv, Domains, vars, taskVars
  <2> QED
    BY <2>1, <2>2 DEF RoutesInv
<1> QED
  BY <1>1, <1>2 DEF Next, Rest

\* The route of a task is the one OwnProviderFirst asks for.
LEMMA RoutesAreOwn == RoutesInv => OwnProviderFirst
<1> SUFFICES ASSUME RoutesInv, NEW t \in Tasks, NEW e \in log[t],
                    Routed, ~HasAgents(t), Pool # {},
                    Expanded(asked[t]) \in DOMAIN Catalog
             PROVE  LET name == Expanded(asked[t])
                        able(k) == Able(k, resolveTools(t) # {}, Def[t].schema)
                    IN  /\ (Catalog[name].provider \in Pool /\ able(name)) =>
                              (e.gateway = Catalog[name].provider /\ e.model = name)
                        /\ (e.model \in DOMAIN Catalog \ {name}) => able(e.model)
                        /\ e.gateway \in Pool
  BY DEF OwnProviderFirst
<1>1. PICK r \in Routes(t, asked[t]) : TakesRoute(t, r)
  BY DEF RoutesInv, RouteInv
<1>2. e.gateway = r.gateway /\ e.model = r.model
  BY <1>1 DEF TakesRoute
<1>3. (resolveTools(t) # {}) \in BOOLEAN /\ Def[t].schema \in BOOLEAN
  BY TaskAssumption
<1>4. r \in Resolve(asked[t], resolveTools(t) # {}, Def[t].schema)
  BY <1>1 DEF Routes
<1> DEFINE name == Expanded(asked[t])
           tools == resolveTools(t) # {}
           schema == Def[t].schema
<1>5. /\ r.gateway \in Pool
      /\ name \in DOMAIN Catalog =>
           /\ (Catalog[name].provider \in Pool /\ Able(name, tools, schema)) =>
                 (r.gateway = Catalog[name].provider /\ r.model = name)
           /\ r.model \in DOMAIN Catalog \ {name} => Able(r.model, tools, schema)
  <2> HIDE DEF tools, schema
  <2>1. tools \in BOOLEAN /\ schema \in BOOLEAN /\ r \in Resolve(asked[t], tools, schema)
    BY <1>3, <1>4 DEF tools, schema
  <2> QED
    BY <2>1, RouterResolves
<1> HIDE DEF tools, schema
<1>6. /\ (Catalog[name].provider \in Pool /\ Able(name, tools, schema)) =>
           (e.gateway = Catalog[name].provider /\ e.model = name)
      /\ e.model \in DOMAIN Catalog \ {name} => Able(e.model, tools, schema)
      /\ e.gateway \in Pool
  BY <1>2, <1>5
<1> QED
  BY <1>6 DEF tools, schema

\* A routed task whose model is in the catalog asks the model's own provider, if it
\* is configured and the model can do what the task needs; what it is given instead
\* can do it, and is asked of a provider of the pool (ModelRouter.Resolve).
THEOREM OwnProviderIsFirst == Spec => []OwnProviderFirst
<1>1. Init => RoutesInv
  BY DEF Init, RoutesInv, RouteInv, Domains
<1>2. Spec => []RoutesInv
  BY <1>1, RoutesStep, PTL DEF Spec
<1> QED
  BY <1>2, RoutesAreOwn, PTL

-----------------------------------------------------------------------------
(* Sums.  MapThenSumSet takes the elements of a set one after the other, as *)
(* CHOOSE orders them; Total is such a sum with the summands in a function. *)

First(s) == CHOOSE x \in s : TRUE

\* it has the sum of every subset of S.
Folding(it, g, S) ==
  it = [s \in SUBSET S |-> IF s = {} THEN 0 ELSE g[First(s)] + it[s \ {First(s)}]]

Total(g, S) == (CHOOSE it : Folding(it, g, S))[S]

LEMMA LeastNumber ==
  ASSUME NEW T, T \subseteq Nat, T # {}
  PROVE  \E n \in T : \A m \in T : n <= m
<1>1. PICK n \in T : \A m \in T : ~(<<m, n>> \in OpToRel(<, Nat))
  BY NatLessThanWellFounded, WFMin
<1>2. \A m \in T : ~(m < n)
  BY <1>1 DEF OpToRel
<1> QED
  BY <1>2

\* Of some subsets of a finite set, one is smallest.
LEMMA SmallestSet ==
  ASSUME NEW S, IsFiniteSet(S), NEW Some, Some \subseteq SUBSET S, Some # {}
  PROVE  \E s \in Some : \A r \in Some : Cardinality(s) <= Cardinality(r)
<1> DEFINE sizes == {Cardinality(s) : s \in Some}
<1>1. \A s \in Some : Cardinality(s) \in Nat
  BY FS_Subset, FS_CardinalityType
<1>2. sizes \subseteq Nat /\ sizes # {}
  BY <1>1
<1>3. PICK n \in sizes : \A m \in sizes : n <= m
  <2> HIDE DEF sizes
  <2> QED
    BY <1>2, LeastNumber
<1> QED
  BY <1>3

\* The set without the element that is taken first.
LEMMA FirstTaken ==
  ASSUME NEW S, IsFiniteSet(S), NEW s \in SUBSET S, s # {}
  PROVE  /\ First(s) \in s /\ s \ {First(s)} \in SUBSET S
         /\ Cardinality(s) \in Nat \ {0} /\ Cardinality(s \ {First(s)}) = Cardinality(s) - 1
<1>1. First(s) \in s
  BY DEF First
<1>2. IsFiniteSet(s)
  BY FS_Subset
<1> QED
  BY <1>1, <1>2, FS_CardinalityType, FS_EmptySet, FS_RemoveElement

\* The recursion has a solution: sums of larger sets come after those of smaller.
LEMMA FoldingExists ==
  ASSUME NEW S, IsFiniteSet(S), NEW g
  PROVE  \E it : Folding(it, g, S)
<1> DEFINE Sums(it, n) ==
             /\ it = [s \in SUBSET S |-> it[s]]
             /\ \A s \in SUBSET S : Cardinality(s) <= n =>
                  it[s] = IF s = {} THEN 0 ELSE g[First(s)] + it[s \ {First(s)}]
           Bad == {n \in Nat : ~\E it : Sums(it, n)}
<1>1. Bad = {}
  <2> SUFFICES ASSUME Bad # {} PROVE FALSE
    OBVIOUS
  <2>1. PICK n \in Bad : \A m \in Bad : n <= m
    <3>1. Bad \subseteq Nat
      OBVIOUS
    <3> HIDE DEF Bad
    <3> QED
      BY <3>1, LeastNumber
  <2>2. n \in Nat /\ ~\E it : Sums(it, n)
    BY <2>1
  <2>3. n # 0
    <3> DEFINE it == [s \in SUBSET S |-> 0]
    <3>1. ASSUME NEW s \in SUBSET S, s # {}
          PROVE  ~(Cardinality(s) <= 0)
      <4>1. Cardinality(s) \in Nat \ {0}
        BY <3>1, FirstTaken
      <4> QED
        BY <4>1
    <3>2. Sums(it, 0)
      BY <3>1
    <3> QED
      BY <2>2, <3>2
  <2>4. PICK old : Sums(old, n - 1)
    <3>1. n - 1 \in Nat /\ ~(n <= n - 1)
      BY <2>2, <2>3
    <3>2. n - 1 \notin Bad
      BY <2>1, <3>1
    <3> QED
      BY <3>1, <3>2
  <2> DEFINE it == [s \in SUBSET S |-> IF Cardinality(s) <= n - 1 THEN old[s]
                                       ELSE g[First(s)] + old[s \ {First(s)}]]
  <2>5. ASSUME NEW s \in SUBSET S, Cardinality(s) <= n
        PROVE  it[s] = IF s = {} THEN 0 ELSE g[First(s)] + it[s \ {First(s)}]
    <3>1. CASE s = {}
      <4>1. Cardinality(s) <= n - 1
        BY <2>2, <2>3, <3>1, FS_EmptySet
      <4> QED
        BY <2>4, <3>1, <4>1
    <3>2. CASE s # {}
      <4>1. /\ s \ {First(s)} \in SUBSET S /\ Cardinality(s \ {First(s)}) <= n - 1
            /\ Cardinality(s) \in Nat
        BY <2>2, <2>5, <3>2, FirstTaken
      <4>2. it[s \ {First(s)}] = old[s \ {First(s)}]
        BY <4>1
      <4>3. it[s] = g[First(s)] + old[s \ {First(s)}]
        BY <2>4, <3>2
      <4> QED
        BY <3>2, <4>2, <4>3
    <3> QED
      BY <3>1, <3>2
  <2>6. it = [s \in SUBSET S |-> it[s]]
    OBVIOUS
  <2> HIDE DEF it
  <2>7. Sums(it, n)
    BY <2>5, <2>6
  <2> QED
    BY <2>2, <2>7
<1>2. PICK it : Sums(it, Cardinality(S))
  BY <1>1, FS_CardinalityType
<1>3. \A s \in SUBSET S : Cardinality(s) <= Cardinality(S)
  BY FS_Subset
<1>4. Folding(it, g, S)
  BY <1>2, <1>3 DEF Folding
<1> QED
  BY <1>4

\* Two solutions are the same wherever both have a set and the summands are the same.
LEMMA FoldingUnique ==
  ASSUME NEW S, IsFiniteSet(S), NEW g, NEW h, NEW it, Folding(it, g, S),
         NEW T \in SUBSET S, NEW other, Folding(other, h, T), \A x \in T : g[x] = h[x]
  PROVE  it[T] = other[T]
<1> DEFINE Bad == {s \in SUBSET T : it[s] # other[s]}
<1> SUFFICES ASSUME Bad # {} PROVE FALSE
  OBVIOUS
<1>1. IsFiniteSet(T)
  BY FS_Subset
<1>3. PICK s \in Bad : \A r \in Bad : Cardinality(s) <= Cardinality(r)
  <2>1. Bad \subseteq SUBSET T
    OBVIOUS
  <2> HIDE DEF Bad
  <2> QED
    BY <1>1, <2>1, SmallestSet
<1>4. s # {}
  BY <1>3 DEF Folding
<1>5. /\ First(s) \in T /\ s \ {First(s)} \in SUBSET T
      /\ Cardinality(s) \in Nat /\ Cardinality(s \ {First(s)}) = Cardinality(s) - 1
  BY <1>1, <1>3, <1>4, FirstTaken
<1>6. it[s \ {First(s)}] = other[s \ {First(s)}]
  BY <1>3, <1>5
<1>7. it[s] = g[First(s)] + it[s \ {First(s)}] /\ other[s] = h[First(s)] + other[s \ {First(s)}]
  BY <1>3, <1>4 DEF Folding
<1> QED
  BY <1>3, <1>5, <1>6, <1>7

\* The sum of a set, by its first element.
LEMMA TotalByFirst ==
  ASSUME NEW S, IsFiniteSet(S), NEW g
  PROVE  Total(g, S) = IF S = {} THEN 0 ELSE g[First(S)] + Total(g, S \ {First(S)})
<1> DEFINE it == CHOOSE it : Folding(it, g, S)
           rest == S \ {First(S)}
           other == CHOOSE other : Folding(other, g, rest)
<1>1. Folding(it, g, S)
  BY FoldingExists
<1>2. IsFiniteSet(rest) /\ rest \in SUBSET S
  BY FS_Subset
<1>3. Folding(other, g, rest)
  <2> HIDE DEF rest
  <2> QED
    BY <1>2, FoldingExists
<1>4. it[rest] = other[rest]
  <2> HIDE DEF it, other, rest
  <2> QED
    BY <1>1, <1>2, <1>3, FoldingUnique
<1>5. Total(g, S) = it[S] /\ Total(g, rest) = other[rest]
  BY DEF Total
<1> HIDE DEF it, other
<1> QED
  BY <1>1, <1>4, <1>5 DEF Folding

LEMMA TotalType ==
  ASSUME NEW S, IsFiniteSet(S), NEW g, \A x \in S : g[x] \in Nat
  PROVE  Total(g, S) \in Nat
<1> DEFINE Bad == {s \in SUBSET S : Total(g, s) \notin Nat}
<1> SUFFICES ASSUME Bad # {} PROVE FALSE
  OBVIOUS
<1>2. PICK s \in Bad : \A r \in Bad : Cardinality(s) <= Cardinality(r)
  <2>1. Bad \subseteq SUBSET S
    OBVIOUS
  <2> HIDE DEF Bad
  <2> QED
    BY <2>1, SmallestSet
<1>3. Total(g, s) = IF s = {} THEN 0 ELSE g[First(s)] + Total(g, s \ {First(s)})
  BY FS_Subset, TotalByFirst
<1>4. s # {}
  BY <1>3
<1>5. /\ First(s) \in S /\ s \ {First(s)} \in SUBSET S
      /\ Cardinality(s) \in Nat /\ Cardinality(s \ {First(s)}) = Cardinality(s) - 1
  BY <1>4, FirstTaken
<1>6. Total(g, s \ {First(s)}) \in Nat
  BY <1>2, <1>5
<1> QED
  BY <1>2, <1>3, <1>4, <1>5, <1>6

\* The sum does not depend on the order: any element may be taken first.
LEMMA TotalByAny ==
  ASSUME NEW S, IsFiniteSet(S), NEW g, \A x \in S : g[x] \in Nat, NEW e \in S
  PROVE  Total(g, S) = g[e] + Total(g, S \ {e})
<1> DEFINE Bad == {s \in SUBSET S : \E x \in s : Total(g, s) # g[x] + Total(g, s \ {x})}
<1> SUFFICES ASSUME Bad # {} PROVE FALSE
  OBVIOUS
<1>2. PICK s \in Bad : \A r \in Bad : Cardinality(s) <= Cardinality(r)
  <2>1. Bad \subseteq SUBSET S
    OBVIOUS
  <2> HIDE DEF Bad
  <2> QED
    BY <2>1, SmallestSet
<1>3. PICK x \in s : Total(g, s) # g[x] + Total(g, s \ {x})
  BY <1>2
<1> DEFINE f == First(s)
<1>4. /\ f \in s /\ IsFiniteSet(s) /\ s \in SUBSET S
      /\ Total(g, s) = g[f] + Total(g, s \ {f})
  BY FirstTaken, FS_Subset, TotalByFirst
<1> HIDE DEF f
<1>5. x # f
  BY <1>3, <1>4
<1>6. ASSUME NEW y \in s
      PROVE  s \ {y} \in SUBSET S /\ s \ {y} \notin Bad
  <2>1. Cardinality(s \ {y}) = Cardinality(s) - 1 /\ Cardinality(s) \in Nat
    BY <1>4, FS_RemoveElement, FS_CardinalityType
  <2> QED
    BY <1>2, <2>1
<1>7. Total(g, s \ {f}) = g[x] + Total(g, (s \ {f}) \ {x})
  BY <1>4, <1>5, <1>6
<1>8. Total(g, s \ {x}) = g[f] + Total(g, (s \ {x}) \ {f})
  BY <1>4, <1>5, <1>6
<1>9. (s \ {f}) \ {x} = (s \ {x}) \ {f}
  OBVIOUS
<1>10. Total(g, (s \ {f}) \ {x}) \in Nat
  BY <1>4, FS_Subset, TotalType
<1>11. g[f] \in Nat /\ g[x] \in Nat
  BY <1>4
<1> QED
  BY <1>3, <1>4, <1>7, <1>8, <1>9, <1>10, <1>11

LEMMA TotalAdded ==
  ASSUME NEW S, IsFiniteSet(S), NEW e, e \notin S, NEW g, \A x \in S \cup {e} : g[x] \in Nat
  PROVE  Total(g, S \cup {e}) = g[e] + Total(g, S)
<1>1. (S \cup {e}) \ {e} = S /\ IsFiniteSet(S \cup {e})
  BY FS_AddElement
<1> QED
  BY <1>1, TotalByAny

\* Only the summands of the set count.
LEMMA TotalSame ==
  ASSUME NEW S, IsFiniteSet(S), NEW g, NEW h, \A x \in S : g[x] = h[x]
  PROVE  Total(g, S) = Total(h, S)
<1> DEFINE it == CHOOSE it : Folding(it, g, S)
           other == CHOOSE other : Folding(other, h, S)
<1>1. Folding(it, g, S) /\ Folding(other, h, S)
  BY FoldingExists
<1>2. Total(g, S) = it[S] /\ Total(h, S) = other[S]
  BY DEF Total
<1> HIDE DEF it, other
<1> QED
  BY <1>1, <1>2, FoldingUnique

\* The charges of a set of requests.
Charge(S) == [e \in S |-> e.charge]

LEMMA ChargesAreTotal ==
  ASSUME NEW S, IsFiniteSet(S)
  PROVE  MapThenSumSet(LAMBDA e : e.charge, S) = Total(Charge(S), S)
<1> DEFINE Fold(it) == it = [s \in SUBSET S |-> IF s = {} THEN 0
                               ELSE (CHOOSE x \in s : TRUE).charge + it[s \ {CHOOSE x \in s : TRUE}]]
           it == CHOOSE it : Fold(it)
<1>1. MapThenSumSet(LAMBDA e : e.charge, S) = it[S]
  BY DEF MapThenSumSet, MapThenFoldSet
<1>2. ASSUME NEW a
      PROVE  Fold(a) <=> Folding(a, Charge(S), S)
  <2>1. \A s \in SUBSET S : s # {} => Charge(S)[First(s)] = (CHOOSE x \in s : TRUE).charge
    BY FirstTaken DEF Charge, First
  <2>2. \A s \in SUBSET S :
          (IF s = {} THEN 0
           ELSE (CHOOSE x \in s : TRUE).charge + a[s \ {CHOOSE x \in s : TRUE}])
          = (IF s = {} THEN 0 ELSE Charge(S)[First(s)] + a[s \ {First(s)}])
    BY <2>1 DEF First
  <2> QED
    BY <2>2 DEF Folding
<1>3. Fold(it)
  <2>1. PICK a : Folding(a, Charge(S), S)
    BY FoldingExists
  <2>2. Fold(a)
    BY <1>2, <2>1
  <2> HIDE DEF Fold
  <2> QED
    BY <2>2
<1>4. Folding(it, Charge(S), S)
  BY <1>2, <1>3
<1> DEFINE other == CHOOSE other : Folding(other, Charge(S), S)
<1>5. Folding(other, Charge(S), S) /\ Total(Charge(S), S) = other[S]
  BY FoldingExists DEF Total
<1> HIDE DEF it, other, Fold
<1> QED
  BY <1>1, <1>4, <1>5, FoldingUnique

LEMMA CostsAreTotal ==
  ASSUME NEW S, IsFiniteSet(S), NEW g
  PROVE  MapThenSumSet(LAMBDA t : g[t], S) = Total(g, S)
BY DEF MapThenSumSet, MapThenFoldSet, Total, Folding, First

-----------------------------------------------------------------------------
(* The types of the variables.                                             *)

\* The variables of the calls; a loop that runs tools has a round left.
CallTypes ==
    /\ at \in [Tasks -> {"ready", "asking", "calling", "answered", "costing", "done", "failed"}]
    /\ round \in [Tasks -> 0 .. MaxToolRounds]
    /\ tokens \in [Tasks -> Nat]
    /\ wanted \in [Tasks -> SUBSET Registered]
    /\ \A t \in Tasks : at[t] = "calling" => MoreRounds(t)

\* The tokens of the other tasks.
OthersCount(t) == \A u \in Tasks \ {t} : tokens'[u] = tokens[u]

LEMMA AskTypes ==
  ASSUME CallTypes, NEW t \in Tasks, NEW name, NEW options, Ask(t, name, options)
  PROVE  CallTypes' /\ at'[t] = "asking" /\ tokens'[t] = 0 /\ OthersCount(t)
<1>1. 0 \in 0 .. MaxToolRounds
  BY TaskAssumption
<1> QED
  BY <1>1 DEF Ask, CallTypes, MoreRounds, OthersCount

LEMMA AgentDoneTypes ==
  ASSUME CallTypes, NEW t \in Tasks, NEW result, AgentDone(t, result)
  PROVE  CallTypes' /\ at'[t] \in {"asking", "done"} /\ OthersCount(t)
<1> DEFINE n == Len(results[t]) + 1
<1>1. CASE n < Len(Def[t].agents)
  <2>1. Ask(t, AgentModel(t, n + 1), Options)
    BY <1>1 DEF AgentDone
  <2> QED
    BY <2>1, AskTypes
<1>2. CASE ~(n < Len(Def[t].agents))
  <2>1. at' = [at EXCEPT ![t] = "done"] /\ UNCHANGED <<round, tokens, wanted>>
    BY <1>2 DEF AgentDone
  <2> QED
    BY <2>1 DEF CallTypes, MoreRounds, OthersCount
<1> QED
  BY <1>1, <1>2

LEMMA FailsTypes ==
  ASSUME CallTypes, NEW t \in Tasks, Fails(t)
  PROVE  /\ CallTypes' /\ OthersCount(t)
         /\ at'[t] \in {"asking", "failed"} \/ (at'[t] = "done" /\ HasAgents(t))
<1>1. CASE Len(chain[t]) > 1
  <2>1. Ask(t, model[t], Tail(chain[t]))
    BY <1>1 DEF Fails
  <2> QED
    BY <2>1, AskTypes
<1>2. CASE ~(Len(chain[t]) > 1) /\ HasAgents(t)
  BY <1>2, AgentDoneTypes DEF Fails
<1>3. CASE ~(Len(chain[t]) > 1) /\ ~HasAgents(t)
  BY <1>3 DEF Fails, CallTypes, MoreRounds, OthersCount
<1> QED
  BY <1>1, <1>2, <1>3

\* A step of a call: the cost is not touched, and only agents are done after it.
CallStep(t) ==
  /\ UNCHANGED costVars
  /\ at[t] \in {"ready", "asking", "calling"}
  /\ \/ at'[t] \in {"asking", "calling", "answered", "failed"}
     \/ at'[t] = "done" /\ HasAgents(t)

LEMMA CallStepTypes ==
  ASSUME CallTypes, NEW t \in Tasks, Step(t)
  PROVE  CallTypes' /\ OthersCount(t) /\ (CallStep(t) \/ ReadTotal(t) \/ WriteTotal(t))
<1>1. CASE Execute(t)
  BY <1>1, AskTypes DEF Execute, CallStep
<1>2. CASE ExecuteAgents(t)
  <2>1. at[t] = "ready" /\ HasAgents(t) /\ UNCHANGED costVars
    BY <1>2 DEF ExecuteAgents
  <2>2. CASE Ask(t, AgentModel(t, 1), Options)
    BY <2>1, <2>2, AskTypes DEF CallStep
  <2>3. ASSUME NEW end \in {"done", "failed"}, at' = [at EXCEPT ![t] = end],
               UNCHANGED <<round, tokens, wanted>>
        PROVE  CallTypes' /\ OthersCount(t) /\ CallStep(t)
    BY <2>1, <2>3 DEF CallTypes, CallStep, MoreRounds, OthersCount
  <2> QED
    BY <1>2, <2>2, <2>3 DEF ExecuteAgents
<1>3. CASE RequestFails(t)
  BY <1>3, FailsTypes DEF RequestFails, CallStep
<1>4. ASSUME NEW charge \in 1 .. MaxTokens, RequestAnswered(t, charge)
      PROVE  CallTypes' /\ OthersCount(t) /\ CallStep(t)
  <2>1. at[t] = "asking" /\ UNCHANGED costVars
    BY <1>4 DEF RequestAnswered
  <2>2. CASE HasAgents(t)
    BY <1>4, <2>1, <2>2, AgentDoneTypes DEF RequestAnswered, CallStep
  <2>3. CASE ~HasAgents(t)
    <3>1. /\ at' = [at EXCEPT ![t] = "answered"] /\ UNCHANGED <<round, wanted>>
          /\ tokens' = [tokens EXCEPT ![t] = Counted(t, charge)]
      BY <1>4, <2>3 DEF RequestAnswered
    <3>2. Counted(t, charge) \in Nat
      BY TaskAssumption DEF Counted, CallTypes
    <3> QED
      BY <2>1, <3>1, <3>2 DEF CallTypes, CallStep, MoreRounds, OthersCount
  <2> QED
    BY <2>2, <2>3
<1>5. ASSUME NEW charge \in 1 .. MaxTokens, NEW tools \in (SUBSET Registered) \ {{}},
             RequestCalls(t, charge, tools)
      PROVE  CallTypes' /\ OthersCount(t) /\ CallStep(t)
  <2>1. at[t] = "asking" /\ UNCHANGED costVars
    BY <1>5 DEF RequestCalls
  <2>2. CASE MoreRounds(t)
    <3>1. /\ at' = [at EXCEPT ![t] = "calling"] /\ UNCHANGED round
          /\ tokens' = [tokens EXCEPT ![t] = Counted(t, charge)]
          /\ wanted' = [wanted EXCEPT ![t] = tools]
      BY <1>5, <2>2 DEF RequestCalls
    <3>2. Counted(t, charge) \in Nat
      BY TaskAssumption DEF Counted, CallTypes
    <3> QED
      BY <2>1, <2>2, <3>1, <3>2 DEF CallTypes, CallStep, MoreRounds, OthersCount
  <2>3. CASE ~MoreRounds(t)
    BY <1>5, <2>1, <2>3, FailsTypes DEF RequestCalls, CallStep
  <2> QED
    BY <2>2, <2>3
<1>6. CASE RunTools(t)
  <2>1. /\ at[t] = "calling" /\ at' = [at EXCEPT ![t] = "asking"]
        /\ round' = [round EXCEPT ![t] = @ + 1] /\ wanted' = [wanted EXCEPT ![t] = {}]
        /\ UNCHANGED tokens /\ UNCHANGED costVars
    BY <1>6 DEF RunTools
  <2>2. round[t] + 1 \in 0 .. MaxToolRounds
    BY <2>1, TaskAssumption DEF CallTypes, MoreRounds
  <2> QED
    BY <2>1, <2>2 DEF CallTypes, CallStep, MoreRounds, OthersCount
<1>7. CASE ToolRefused(t)
  BY <1>7, FailsTypes DEF ToolRefused, CallStep
<1>8. CASE ReadTotal(t)
  BY <1>8 DEF ReadTotal, CallTypes, MoreRounds, OthersCount
<1>9. CASE WriteTotal(t)
  BY <1>9 DEF WriteTotal, CallTypes, MoreRounds, OthersCount
<1> QED
  BY <1>1, <1>2, <1>3, <1>4, <1>5, <1>6, <1>7, <1>8, <1>9 DEF Step

\* The variables of the cost.
CostTypes ==
    /\ cost \in [Tasks -> Nat] /\ prev \in [Tasks -> Nat] /\ total \in Nat
    /\ crossed \in BOOLEAN

LEMMA CostStepTypes ==
  ASSUME CallTypes, CostTypes, NEW t \in Tasks, Step(t)
  PROVE  CostTypes'
<1>1. CASE CallStep(t)
  BY <1>1 DEF CallStep, costVars, CostTypes
<1>2. CASE ReadTotal(t)
  <2>1. PICK price \in EntriesOf(ModelAsked(t)) : cost' = [cost EXCEPT ![t] = price * tokens[t]]
    BY <1>2 DEF ReadTotal
  <2>2. price \in Nat
    BY TaskAssumption DEF EntriesOf
  <2>3. tokens[t] \in Nat
    BY DEF CallTypes
  <2>4. price * tokens[t] \in Nat
    BY <2>2, <2>3
  <2>5. cost' \in [Tasks -> Nat]
    BY <2>1, <2>4 DEF CostTypes
  <2>6. crossed' \in BOOLEAN
    BY <1>2 DEF ReadTotal
  <2> QED
    BY <1>2, <2>5, <2>6 DEF ReadTotal, CostTypes
<1>3. CASE WriteTotal(t)
  BY <1>3 DEF WriteTotal, CostTypes
<1> QED
  BY <1>1, <1>2, <1>3, CallStepTypes

TypesInv == CallTypes /\ CostTypes

LEMMA TypesBegin == Init => TypesInv
<1>1. 0 \in 0 .. MaxToolRounds
  BY TaskAssumption
<1> SUFFICES ASSUME Init PROVE TypesInv
  OBVIOUS
<1>2. /\ at = [t \in Tasks |-> "ready"] /\ round = [t \in Tasks |-> 0]
      /\ tokens = [t \in Tasks |-> 0] /\ wanted = [t \in Tasks |-> {}]
      /\ cost = [t \in Tasks |-> 0] /\ prev = [t \in Tasks |-> 0] /\ total = 0
  BY DEF Init
<1>3. crossed \in BOOLEAN
  <2>1. crossed = FALSE
    BY DEF Init
  <2> QED
    BY <2>1
<1>4. CallTypes
  BY <1>1, <1>2 DEF CallTypes
<1>5. CostTypes
  BY <1>2, <1>3 DEF CostTypes
<1> QED
  BY <1>4, <1>5 DEF TypesInv

LEMMA TypesStep == TypesInv /\ [Next]_vars => TypesInv'
<1>1. ASSUME TypesInv, NEW t \in Tasks, Step(t)
      PROVE  TypesInv'
  BY <1>1, CallStepTypes, CostStepTypes DEF TypesInv
<1>2. ASSUME TypesInv, UNCHANGED vars
      PROVE  TypesInv'
  BY <1>2 DEF TypesInv, CallTypes, CostTypes, MoreRounds, vars, taskVars, costVars
<1> QED
  BY <1>1, <1>2 DEF Next, Rest

\* Every variable keeps its type, and no tool loop has more rounds than allowed,
\* for any tasks, tools, gateways and prices.
THEOREM TypeCorrect == Spec => []TypeOK
<1>1. TypesInv => TypeOK
  BY DEF TypesInv, CallTypes, CostTypes, TypeOK
<1> QED
  BY <1>1, TypesBegin, TypesStep, PTL DEF Spec

-----------------------------------------------------------------------------
(* The total of the case.                                                  *)

Done == {t \in Tasks : at[t] = "done"}

\* No total that was read or stored is more than what the tasks done have cost;
\* as long as no two tasks met, the one that is inside has read what is stored.
CostInv ==
  /\ IsFiniteSet(Done)
  /\ \A t \in Tasks : at[t] \notin {"costing", "done"} \/ HasAgents(t) => cost[t] = 0
  /\ total <= Total(cost, Done)
  /\ \A t \in Tasks : at[t] = "costing" => prev[t] <= Total(cost, Done)
  /\ ~crossed => total = Total(cost, Done)
  /\ ~crossed => \A t \in Tasks : at[t] = "costing" =>
       prev[t] = total /\ \A u \in Tasks : at[u] = "costing" => u = t

LEMMA CostBegins == Init => CostInv
<1> SUFFICES ASSUME Init PROVE CostInv
  OBVIOUS
<1>1. Done = {}
  BY DEF Init, Done
<1>2. IsFiniteSet(Done) /\ Total(cost, Done) = 0
  BY <1>1, FS_EmptySet, TotalByFirst
<1>3. /\ \A t \in Tasks : at[t] = "ready" /\ cost[t] = 0
      /\ total = 0
  BY DEF Init
<1> QED
  BY <1>2, <1>3 DEF CostInv

LEMMA CostStep ==
  ASSUME Domains, TypesInv, CostInv, NEW t \in Tasks, TaskInv(t), Step(t)
  PROVE  CostInv'
<1>1. CallTypes' /\ CostTypes' /\ (CallStep(t) \/ ReadTotal(t) \/ WriteTotal(t))
  BY CallStepTypes, CostStepTypes DEF TypesInv
<1>2. \A u \in Tasks \ {t} : at'[u] = at[u]
  BY StepFrame DEF CallKept
<1>3. \A u : HasAgents(u)' = HasAgents(u)
  BY DEF HasAgents
<1>4. /\ IsFiniteSet(Done) /\ \A u \in Tasks : cost[u] \in Nat
      /\ Total(cost, Done) \in Nat /\ total \in Nat /\ \A u \in Tasks : prev[u] \in Nat
  <2>1. IsFiniteSet(Done) /\ \A u \in Tasks : cost[u] \in Nat
    BY DEF CostInv, TypesInv, CostTypes
  <2>2. Total(cost, Done) \in Nat
    BY <2>1, TotalType DEF Done
  <2> QED
    BY <2>1, <2>2 DEF TypesInv, CostTypes
<1>5. ASSUME at[t] # "done", at'[t] = "done"
      PROVE  /\ Done' = Done \cup {t} /\ IsFiniteSet(Done')
             /\ Total(cost, Done') = cost[t] + Total(cost, Done)
  <2>1. Done' = Done \cup {t} /\ t \notin Done
    BY <1>2, <1>5 DEF Done
  <2>2. IsFiniteSet(Done \cup {t})
    BY <1>4, FS_AddElement
  <2>3. Total(cost, Done \cup {t}) = cost[t] + Total(cost, Done)
    BY <1>4, <2>1, TotalAdded DEF Done
  <2> QED
    BY <2>1, <2>2, <2>3
<1>6. CASE CallStep(t)
  <2>1. UNCHANGED <<prev, cost, total, crossed>> /\ at[t] \notin {"costing", "done"}
    BY <1>6 DEF CallStep, costVars
  <2>2. at'[t] # "costing" /\ (at'[t] = "done" => HasAgents(t)) /\ cost[t] = 0
    BY <1>6, <2>1 DEF CallStep, CostInv
  <2>3. IsFiniteSet(Done') /\ Total(cost, Done') = Total(cost, Done)
    <3>1. CASE at'[t] = "done"
      BY <1>4, <1>5, <2>1, <2>2, <3>1
    <3>2. CASE at'[t] # "done"
      <4>1. Done' = Done
        BY <1>2, <2>1, <3>2 DEF Done
      <4> QED
        BY <1>4, <4>1
    <3> QED
      BY <3>1, <3>2
  <2>4. \A u \in Tasks : at'[u] = "costing" => at[u] = "costing"
    BY <1>2, <2>2
  <2>5. \A u \in Tasks : (at'[u] \notin {"costing", "done"} \/ HasAgents(u)) => cost[u] = 0
    BY <1>2, <2>2 DEF CostInv
  <2> QED
    BY <1>3, <2>1, <2>3, <2>4, <2>5 DEF CostInv
<1>7. CASE ReadTotal(t)
  <2>1. /\ at[t] = "answered" /\ at'[t] = "costing" /\ prev' = [prev EXCEPT ![t] = total]
        /\ total' = total /\ crossed' = (crossed \/ \E u \in Tasks \ {t} : at[u] = "costing")
        /\ \A u \in Tasks \ {t} : cost'[u] = cost[u]
    BY <1>7 DEF ReadTotal, TypesInv, CallTypes, CostTypes
  <2>2. Done' = Done /\ t \notin Done
    BY <1>2, <2>1 DEF Done
  <2>3. Total(cost', Done) = Total(cost, Done)
    BY <1>4, <2>1, <2>2, TotalSame DEF Done
  <2>4. ~HasAgents(t)
    BY <2>1 DEF TaskInv
  <2>5. prev'[t] = total /\ \A u \in Tasks \ {t} : prev'[u] = prev[u]
    BY <2>1 DEF TypesInv, CostTypes
  <2>6. \A u \in Tasks : (at'[u] \notin {"costing", "done"} \/ HasAgents(u)) => cost'[u] = 0
    BY <1>2, <2>1, <2>4 DEF CostInv
  <2>7. \A u \in Tasks : at'[u] = "costing" => prev'[u] <= Total(cost, Done)
    BY <1>2, <1>4, <2>5 DEF CostInv
  <2>8. ~crossed' => ~crossed /\ \A u \in Tasks \ {t} : at[u] # "costing"
    BY <2>1
  <2>9. ~crossed' => \A u \in Tasks : at'[u] = "costing" => u = t
    BY <1>2, <2>8
  <2> QED
    BY <1>3, <1>4, <2>1, <2>2, <2>3, <2>5, <2>6, <2>7, <2>8, <2>9 DEF CostInv
<1>8. CASE WriteTotal(t)
  <2>1. /\ at[t] = "costing" /\ at'[t] = "done" /\ UNCHANGED <<prev, cost, crossed>>
        /\ total' = prev[t] + cost[t]
    BY <1>8 DEF WriteTotal, TypesInv, CallTypes
  <2>2. /\ IsFiniteSet(Done') /\ Total(cost, Done') = cost[t] + Total(cost, Done)
        /\ cost[t] \in Nat
    BY <1>4, <1>5, <2>1
  <2>3. prev[t] <= Total(cost, Done)
    BY <2>1 DEF CostInv
  <2>4. \A u \in Tasks : at'[u] = "costing" => at[u] = "costing" /\ u # t
    BY <1>2, <2>1
  <2>5. \A u \in Tasks : (at'[u] \notin {"costing", "done"} \/ HasAgents(u)) => cost[u] = 0
    BY <1>2, <2>1 DEF CostInv
  <2>6. \A u \in Tasks : at'[u] = "costing" => prev[u] <= Total(cost, Done')
    BY <1>4, <2>2, <2>4 DEF CostInv
  <2>7. ~crossed => prev[t] = Total(cost, Done) /\ \A u \in Tasks : at'[u] # "costing"
    BY <2>1, <2>4 DEF CostInv
  <2>8. total' <= Total(cost, Done')
    BY <1>4, <2>1, <2>2, <2>3
  <2>9. ~crossed => total' = Total(cost, Done')
    BY <1>4, <2>1, <2>2, <2>7
  <2> QED
    BY <1>3, <2>1, <2>2, <2>5, <2>6, <2>7, <2>8, <2>9 DEF CostInv
<1> QED
  BY <1>1, <1>6, <1>7, <1>8

\* What the variable holds is the sum of the costs.
LEMMA CostIsAccounted == CostInv => CostAccounted
<1>1. ASSUME CostInv
      PROVE  Spent(Done) = Total(cost, Done)
  BY <1>1, CostsAreTotal DEF Spent, CostInv
<1> QED
  BY <1>1 DEF CostInv, CostAccounted, Done

-----------------------------------------------------------------------------
(* The tokens of a call.                                                   *)

\* The requests to the option behind which n are left, and what they were charged.
OfOption(L, n) == {e \in L : e.left = n}
Charged(L, n) == Total(Charge(OfOption(L, n)), OfOption(L, n))

LogInv(t) == IsFiniteSet(log[t]) /\ \A e \in log[t] : e.charge \in Nat /\ e.round \in Nat

\* The tokens counted so far are those of the option that is asked, each of whose
\* rounds is in the log once.
TokenInv(t) ==
  /\ LogInv(t)
  /\ ~HasAgents(t) /\ Active(t) =>
       /\ tokens[t] = Charged(log[t], Len(chain[t]) - 1)
       /\ \A e \in OfOption(log[t], Len(chain[t]) - 1) :
            e.round <= round[t] /\ (at[t] = "asking" => e.round # round[t])
  /\ ~HasAgents(t) /\ at[t] \in {"answered", "costing", "done"} => tokens[t] = ChargedByLast(t)

LEMMA NothingCharged ==
  ASSUME NEW L, NEW n, \A e \in L : e.left # n
  PROVE  OfOption(L, n) = {} /\ Charged(L, n) = 0
<1>1. OfOption(L, n) = {}
  BY DEF OfOption
<1> QED
  BY <1>1, FS_EmptySet, TotalByFirst DEF Charged

LEMMA RequestCharged ==
  ASSUME NEW L, IsFiniteSet(L), NEW e, e \notin L, \A d \in L \cup {e} : d.charge \in Nat
  PROVE  Charged(L \cup {e}, e.left) = Charged(L, e.left) + e.charge
<1> DEFINE S == OfOption(L, e.left)
           g == Charge(S \cup {e})
<1>1. OfOption(L \cup {e}, e.left) = S \cup {e} /\ e \notin S /\ S \in SUBSET L
  BY DEF OfOption
<1>2. IsFiniteSet(S)
  BY <1>1, FS_Subset
<1>3. \A d \in S \cup {e} : g[d] = d.charge /\ g[d] \in Nat
  BY <1>1 DEF Charge
<1>4. \A d \in S : g[d] = Charge(S)[d]
  BY <1>3 DEF Charge
<1>5. Total(g, S) = Total(Charge(S), S)
  <2> HIDE DEF S, g
  <2> QED
    BY <1>2, <1>4, TotalSame
<1>6. Total(g, S \cup {e}) = g[e] + Total(g, S) /\ Total(g, S) \in Nat
  <2> HIDE DEF S, g
  <2> QED
    BY <1>1, <1>2, <1>3, TotalAdded, TotalType
<1>7. Charged(L \cup {e}, e.left) = Total(g, S \cup {e})
  BY <1>1 DEF Charged
<1>8. Charged(L, e.left) = Total(Charge(S), S)
  BY DEF Charged
<1>9. g[e] = e.charge /\ g[e] \in Nat
  BY <1>3
<1> HIDE DEF S, g
<1> QED
  BY <1>5, <1>6, <1>7, <1>8, <1>9

\* The charges of the last requests of a log.
LastCharge(L) == MapThenSumSet(LAMBDA e : e.charge, {e \in L : \A d \in L : e.left <= d.left})

LEMMA ChargedLast ==
  ASSUME NEW t
  PROVE  ChargedByLast(t) = LastCharge(log[t]) /\ ChargedByLast(t)' = LastCharge(log'[t])
<1>1. ChargedByLast(t) = LastCharge(log[t])
  BY DEF ChargedByLast, LastCharge
<1>2. ChargedByLast(t)' = LastCharge(log'[t])
  BY DEF ChargedByLast, LastCharge, MapThenSumSet, MapThenFoldSet
<1> QED
  BY <1>1, <1>2

\* Of a log that goes back to an option, the last requests are those to the option.
LEMMA LastCharged ==
  ASSUME NEW L, IsFiniteSet(L), NEW n \in Int, \A e \in L : e.left \in Int /\ e.left >= n,
         \E e \in L : e.left = n
  PROVE  LastCharge(L) = Charged(L, n)
<1> DEFINE last == {e \in L : \A d \in L : e.left <= d.left}
<1>1. last = OfOption(L, n)
  BY DEF OfOption
<1>2. IsFiniteSet(last)
  BY FS_Subset
<1>3. LastCharge(L) = MapThenSumSet(LAMBDA e : e.charge, last)
  BY DEF LastCharge
<1> HIDE DEF last
<1> QED
  BY <1>1, <1>2, <1>3, ChargesAreTotal DEF Charged

\* The log of a call without agents goes back to the option that is asked.
LEMMA LogGoesBack ==
  ASSUME NEW t \in Tasks, TaskInv(t), Active(t), ~HasAgents(t), NEW L, Ending(t, L)
  PROVE  /\ Len(chain[t]) \in Nat \ {0}
         /\ \A e \in L : e.left \in Int /\ e.left >= Len(chain[t]) - 1
         /\ \E e \in L : e.left = Len(chain[t]) - 1
<1>1. Len(chain[t]) \in 1..(FirstLeft(t) + 1) /\ FirstLeft(t) \in Nat /\ Current(t) = 1
  BY FirstLeftType DEF TaskInv, CallInv, Current
<1>2. \A e \in L : e.agent = Current(t)
  BY <1>1 DEF Ending
<1>3. \A e \in L : e.left \in (Len(chain[t]) - 1) .. FirstLeft(t)
  BY <1>2 DEF Ending, LeftIn
<1>4. Len(chain[t]) - 1 \in LeftIn(L, Current(t))
  BY <1>1 DEF Ending
<1> QED
  BY <1>1, <1>3, <1>4 DEF LeftIn

\* A call that fails goes on with an option that nothing was asked yet.
LEMMA FailsUncharged ==
  ASSUME Domains, CallTypes, NEW t \in Tasks, TaskInv(t), Active(t), Fails(t),
         Ending(t, log'[t]), LogInv(t)'
  PROVE  TokenInv(t)'
<1>1. HasAgents(t)' = HasAgents(t)
  BY DEF HasAgents
<1>2. CASE HasAgents(t)
  BY <1>1, <1>2 DEF TokenInv
<1>3. CASE ~HasAgents(t) /\ Len(chain[t]) > 1
  <2>1. Ask(t, model[t], Tail(chain[t]))
    BY <1>3 DEF Fails
  <2>2. at'[t] = "asking" /\ chain'[t] = Tail(chain[t]) /\ tokens'[t] = 0
    BY <2>1, AskSets, AskTypes
  <2>3. chain[t] \in Seq(Option)
    BY DEF TaskInv, CallInv
  <2>4. Len(chain'[t]) = Len(chain[t]) - 1
    BY <1>3, <2>2, <2>3
  <2>5. \A e \in log'[t] : e.left # Len(chain'[t]) - 1
    BY <1>3, <2>4, LogGoesBack
  <2>6. OfOption(log'[t], Len(chain'[t]) - 1) = {} /\ Charged(log'[t], Len(chain'[t]) - 1) = 0
    BY <2>5, NothingCharged
  <2> QED
    BY <2>2, <2>6 DEF TokenInv
<1>4. CASE ~HasAgents(t) /\ ~(Len(chain[t]) > 1)
  <2>1. at'[t] = "failed"
    BY <1>4 DEF Fails, Domains
  <2> QED
    BY <2>1 DEF TokenInv, Active
<1> QED
  BY <1>2, <1>3, <1>4

LEMMA LogStays ==
  ASSUME Domains, CallTypes, NEW t \in Tasks, LogInv(t), NEW charge \in Nat, NEW end,
         Logged(t, charge, end)
  PROVE  LogInv(t)'
<1> DEFINE entry == [agent |-> Current(t), gateway |-> Head(chain[t]).gateway,
                     model |-> ModelAsked(t), left |-> Len(chain[t]) - 1,
                     round |-> round[t], charge |-> charge, end |-> end]
<1>1. log'[t] = log[t] \cup {entry}
  BY DEF Logged, Domains, Current
<1>2. entry.charge \in Nat /\ entry.round \in Nat
  BY TaskAssumption DEF CallTypes
<1> HIDE DEF entry
<1>3. IsFiniteSet(log'[t])
  BY <1>1, FS_AddElement DEF LogInv
<1> QED
  BY <1>1, <1>2, <1>3 DEF LogInv

\* A request that is charged is new to the log.
LEMMA RequestCounted ==
  ASSUME Domains, CallTypes, NEW t \in Tasks, TokenInv(t), at[t] = "asking", ~HasAgents(t),
         Len(chain[t]) \in Nat, NEW charge \in Nat, NEW end, Logged(t, charge, end)
  PROVE  /\ Counted(t, charge) = Charged(log'[t], Len(chain[t]) - 1)
         /\ \A e \in OfOption(log'[t], Len(chain[t]) - 1) : e.round <= round[t]
<1> DEFINE left == Len(chain[t]) - 1
           entry == [agent |-> Current(t), gateway |-> Head(chain[t]).gateway,
                     model |-> ModelAsked(t), left |-> left,
                     round |-> round[t], charge |-> charge, end |-> end]
<1>1. log'[t] = log[t] \cup {entry}
  BY DEF Logged, Domains, Current
<1>2. entry.charge = charge /\ entry.round = round[t] /\ entry.left = left
  OBVIOUS
<1> HIDE DEF entry
<1>3. /\ tokens[t] = Charged(log[t], left)
      /\ \A e \in OfOption(log[t], left) : e.round <= round[t] /\ e.round # round[t]
  BY DEF TokenInv, Active
<1>4. entry \notin log[t]
  BY <1>2, <1>3 DEF OfOption
<1>5. \A d \in log[t] \cup {entry} : d.charge \in Nat
  BY <1>2 DEF TokenInv, LogInv
<1>6. Charged(log'[t], left) = tokens[t] + charge
  <2>1. IsFiniteSet(log[t])
    BY DEF TokenInv, LogInv
  <2>2. Charged(log[t] \cup {entry}, entry.left) = Charged(log[t], entry.left) + entry.charge
    BY <1>4, <1>5, <2>1, RequestCharged
  <2> QED
    BY <1>1, <1>2, <1>3, <2>2
<1>7. round[t] \in Nat
  BY TaskAssumption DEF CallTypes
<1>8. \A e \in OfOption(log'[t], left) : e.round <= round[t]
  BY <1>1, <1>2, <1>3, <1>7 DEF OfOption
<1> QED
  BY <1>6, <1>8 DEF Counted

LEMMA TokenStep ==
  ASSUME Domains, CallTypes, NEW t \in Tasks, TaskInv(t), TokenInv(t), Step(t)
  PROVE  TokenInv(t)'
<1> DEFINE left == Len(chain[t]) - 1
<1>1. HasAgents(t)' = HasAgents(t) /\ LogInv(t) /\ round[t] \in Nat
  BY TaskAssumption DEF HasAgents, TokenInv, CallTypes
<1>2. ASSUME at[t] = "ready", NEW name, NEW options, Ask(t, name, options), UNCHANGED log
      PROVE  TokenInv(t)'
  <2>1. at'[t] = "asking" /\ tokens'[t] = 0 /\ log'[t] = {}
    BY <1>2, AskTypes DEF TaskInv
  <2>2. LogInv(t)'
    BY <2>1, FS_EmptySet DEF LogInv
  <2>3. OfOption(log'[t], Len(chain'[t]) - 1) = {} /\ Charged(log'[t], Len(chain'[t]) - 1) = 0
    BY <2>1, NothingCharged
  <2> QED
    BY <2>1, <2>2, <2>3 DEF TokenInv
<1>3. CASE Execute(t)
  BY <1>2, <1>3 DEF Execute
<1>4. CASE ExecuteAgents(t)
  <2>1. at[t] = "ready" /\ HasAgents(t) /\ UNCHANGED log
    BY <1>4 DEF ExecuteAgents
  <2>2. CASE Ask(t, AgentModel(t, 1), Options)
    BY <1>2, <2>1, <2>2
  <2>3. ASSUME NEW end \in {"done", "failed"}, at' = [at EXCEPT ![t] = end]
        PROVE  TokenInv(t)'
    BY <1>1, <2>1, <2>3 DEF TokenInv, LogInv, CallTypes
  <2> QED
    BY <1>4, <2>2, <2>3 DEF ExecuteAgents
<1>5. CASE RequestFails(t)
  <2>1. at[t] = "asking" /\ Logged(t, 0, "fails") /\ Fails(t)
    BY <1>5 DEF RequestFails
  <2>2. Ending(t, log'[t]) /\ LogInv(t)'
    BY <1>1, <2>1, RequestLogged, LogStays
  <2> QED
    BY <2>1, <2>2, FailsUncharged DEF Active
<1>6. ASSUME NEW charge \in 1 .. MaxTokens, RequestAnswered(t, charge)
      PROVE  TokenInv(t)'
  <2>1. at[t] = "asking" /\ Logged(t, charge, "answers") /\ charge \in Nat
    BY <1>6, TaskAssumption DEF RequestAnswered
  <2>2. Ending(t, log'[t]) /\ LogInv(t)'
    BY <1>1, <2>1, RequestLogged, LogStays
  <2>3. CASE HasAgents(t)
    BY <1>1, <2>2, <2>3 DEF TokenInv
  <2>4. CASE ~HasAgents(t)
    <3>1. at'[t] = "answered" /\ tokens'[t] = Counted(t, charge)
      BY <1>6, <2>4 DEF RequestAnswered, CallTypes
    <3>2. /\ Len(chain[t]) \in Nat \ {0}
          /\ \A e \in log'[t] : e.left \in Int /\ e.left >= left
          /\ \E e \in log'[t] : e.left = left
      BY <2>1, <2>2, <2>4, LogGoesBack DEF Active
    <3>3. tokens'[t] = Charged(log'[t], left)
      BY <2>1, <2>4, <3>1, <3>2, RequestCounted
    <3>4. ChargedByLast(t)' = Charged(log'[t], left)
      <4>1. IsFiniteSet(log'[t]) /\ left \in Int
        BY <2>2, <3>2 DEF LogInv
      <4> QED
        BY <3>2, <4>1, LastCharged, ChargedLast
    <3> QED
      BY <2>2, <3>1, <3>3, <3>4 DEF TokenInv, Active
  <2> QED
    BY <2>3, <2>4
<1>7. ASSUME NEW charge \in 1 .. MaxTokens, NEW tools, RequestCalls(t, charge, tools)
      PROVE  TokenInv(t)'
  <2>1. at[t] = "asking" /\ Logged(t, charge, "calls") /\ charge \in Nat
    BY <1>7, TaskAssumption DEF RequestCalls
  <2>2. Ending(t, log'[t]) /\ LogInv(t)'
    BY <1>1, <2>1, RequestLogged, LogStays
  <2>3. CASE ~MoreRounds(t)
    <3>1. Fails(t)
      BY <1>7, <2>3 DEF RequestCalls
    <3> QED
      BY <2>1, <2>2, <3>1, FailsUncharged DEF Active
  <2>4. CASE MoreRounds(t) /\ ~HasAgents(t)
    <3>1. /\ at'[t] = "calling" /\ tokens'[t] = Counted(t, charge)
          /\ chain' = chain /\ round' = round
      BY <1>7, <2>4 DEF RequestCalls, CallTypes
    <3>2. Len(chain[t]) \in Nat \ {0}
      BY <2>1, <2>2, <2>4, LogGoesBack DEF Active
    <3>3. /\ tokens'[t] = Charged(log'[t], left)
          /\ \A e \in OfOption(log'[t], left) : e.round <= round[t]
      BY <2>1, <2>4, <3>1, <3>2, RequestCounted
    <3> QED
      BY <2>2, <3>1, <3>3 DEF TokenInv, Active
  <2>5. CASE HasAgents(t)
    BY <1>1, <2>2, <2>5 DEF TokenInv
  <2> QED
    BY <2>3, <2>4, <2>5
<1>8. CASE RunTools(t)
  <2>1. /\ at[t] = "calling" /\ at'[t] = "asking" /\ round'[t] = round[t] + 1
        /\ UNCHANGED <<chain, tokens, log>>
    BY <1>8 DEF RunTools, CallTypes
  <2>2. \A e \in OfOption(log[t], left) : e.round \in Nat
    BY DEF OfOption, TokenInv, LogInv
  <2>3. CASE ~HasAgents(t)
    <3>1. /\ tokens[t] = Charged(log[t], left)
          /\ \A e \in OfOption(log[t], left) : e.round <= round[t]
      BY <2>1, <2>3 DEF TokenInv, Active
    <3>2. \A e \in OfOption(log[t], left) : e.round <= round'[t] /\ e.round # round'[t]
      BY <1>1, <2>1, <2>2, <3>1
    <3> QED
      BY <1>1, <2>1, <3>1, <3>2 DEF TokenInv, LogInv
  <2>4. CASE HasAgents(t)
    BY <1>1, <2>1, <2>4 DEF TokenInv, LogInv
  <2> QED
    BY <2>3, <2>4
<1>9. CASE ToolRefused(t)
  <2>1. at[t] = "calling" /\ Fails(t) /\ UNCHANGED log
    BY <1>9 DEF ToolRefused
  <2>2. LogInv(t)'
    BY <1>1, <2>1 DEF LogInv
  <2>3. Ending(t, log'[t])
    BY <2>1 DEF Ending, TaskInv, CallInv, Active
  <2> QED
    BY <2>1, <2>2, <2>3, FailsUncharged DEF Active
<1>10. ASSUME at[t] \in {"answered", "costing"}, at'[t] \in {"costing", "done"},
              UNCHANGED <<tokens, log>>
       PROVE  TokenInv(t)'
  <2>1. ChargedByLast(t)' = ChargedByLast(t)
    BY <1>10, ChargedLast
  <2>2. LogInv(t)'
    BY <1>1, <1>10 DEF LogInv
  <2> QED
    BY <1>1, <1>10, <2>1, <2>2 DEF TokenInv, Active
<1>11. CASE ReadTotal(t)
  BY <1>10, <1>11 DEF ReadTotal, CallTypes
<1>12. CASE WriteTotal(t)
  BY <1>10, <1>12 DEF WriteTotal, CallTypes
<1> QED
  BY <1>3, <1>4, <1>5, <1>6, <1>7, <1>8, <1>9, <1>11, <1>12 DEF Step

\* A task that is left alone has counted its tokens as before.
LEMMA TokenKept ==
  ASSUME NEW u \in Tasks, TokenInv(u), CallKept(u), log'[u] = log[u], tokens'[u] = tokens[u]
  PROVE  TokenInv(u)'
<1>1. HasAgents(u)' = HasAgents(u) /\ ChargedByLast(u)' = ChargedByLast(u)
  BY ChargedLast DEF HasAgents
<1>2. LogInv(u)'
  BY DEF TokenInv, LogInv
<1> QED
  BY <1>1, <1>2 DEF TokenInv, CallKept, Active

\* Both accounts, on what is known of calls and types.
AccountsInv == CallsInv /\ TypesInv /\ CostInv /\ \A t \in Tasks : TokenInv(t)

LEMMA AccountsBegin == Init => AccountsInv
<1> SUFFICES ASSUME Init PROVE \A t \in Tasks : TokenInv(t)
  BY TasksBegin, TypesBegin, CostBegins DEF AccountsInv
<1>1. \A t \in Tasks : at[t] = "ready" /\ log[t] = {}
  BY DEF Init
<1> QED
  BY <1>1, FS_EmptySet DEF TokenInv, LogInv, Active

LEMMA AccountsStep == AccountsInv /\ [Next]_vars => AccountsInv'
<1> SUFFICES ASSUME AccountsInv, [Next]_vars
             PROVE  CostInv' /\ \A u \in Tasks : TokenInv(u)'
  BY CallsStep, TypesStep DEF AccountsInv
<1>1. ASSUME NEW t \in Tasks, Step(t)
      PROVE  CostInv' /\ \A u \in Tasks : TokenInv(u)'
  <2>1. Domains /\ TypesInv /\ CallTypes /\ CostInv /\ TaskInv(t)
    BY DEF AccountsInv, CallsInv, TypesInv
  <2>2. CostInv'
    BY <1>1, <2>1, CostStep
  <2>3. /\ OthersCount(t)
        /\ \A u \in Tasks \ {t} : CallKept(u) /\ log'[u] = log[u]
    BY <1>1, <2>1, StepFrame, CallStepTypes
  <2>4. ASSUME NEW u \in Tasks
        PROVE  TokenInv(u)'
    <3>1. TokenInv(u)
      BY DEF AccountsInv
    <3>2. CASE u = t
      BY <1>1, <2>1, <3>1, <3>2, TokenStep
    <3>3. CASE u # t
      BY <2>3, <3>1, <3>3, TokenKept DEF OthersCount
    <3> QED
      BY <3>2, <3>3
  <2> QED
    BY <2>2, <2>4
<1>2. ASSUME UNCHANGED vars
      PROVE  CostInv' /\ \A u \in Tasks : TokenInv(u)'
  <2>1. CostInv'
    BY <1>2 DEF AccountsInv, CostInv, Done, HasAgents, vars, taskVars, costVars
  <2>2. ASSUME NEW u \in Tasks
        PROVE  TokenInv(u)'
    BY <1>2, TokenKept DEF AccountsInv, CallKept, vars, taskVars
  <2> QED
    BY <2>1, <2>2
<1> QED
  BY <1>1, <1>2 DEF Next, Rest

LEMMA AccountsInvariance == Spec => []AccountsInv
BY AccountsBegin, AccountsStep, PTL DEF Spec

\* The tokens of an answered task are what the provider that answered has charged
\* in all rounds of its tool loop: nothing of a provider that failed before it is
\* left in them and no round is missing, for any gateways and any charges.
THEOREM TokensAreAccounted == Spec => []TokensAccounted
<1>1. AccountsInv => TokensAccounted
  BY DEF AccountsInv, TokenInv, TokensAccounted
<1> QED
  BY <1>1, AccountsInvariance, PTL

\* ai_total_cost is the sum of the costs of the tasks that are done, unless two of
\* them were inside setOutputVariables at once, and is never more than that sum,
\* for any tasks, prices and interleaving.
THEOREM CostIsRight == Spec => []CostAccounted
<1>1. AccountsInv => CostAccounted
  BY CostIsAccounted DEF AccountsInv
<1> QED
  BY <1>1, AccountsInvariance, PTL
=============================================================================
