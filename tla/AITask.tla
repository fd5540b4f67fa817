------------------------------ MODULE AITask -------------------------------
(* The AI tasks that the workers of one run execute beside each other       *)
(* (internal/element/activities/ai_task.go), the gateways they ask          *)
(* (pkg/ai: fallback, cross-provider, agents, the tool loop of a provider)  *)
(* and the cost they add up in a variable of the case.  The providers are   *)
(* external: a request may fail, be answered, or call tools.                *)
EXTENDS ModelRouter, Sequences, FiniteSetsExt

CONSTANTS
    Tasks,
    Def,            \* task -> [model, tools, schema, agentDefs, agents]
    Registered,     \* the tools of the registry
    Routed,         \* is there a model router
    Options,        \* the gateway of the engine: <<[gateway, model], ...>>
    ModelVariable,  \* what the case's variable ai_model may hold
    Prices,         \* model -> the prices of the entries its name contains
    MaxToolRounds,
    MaxTokens       \* bound: what one request is charged at most

ASSUME TaskAssumption ==
    /\ Def \in [Tasks -> [model : STRING, tools : SUBSET STRING, schema : BOOLEAN,
                         agentDefs : {"none", "list", "malformed"}, agents : Seq(STRING)]]
    /\ Routed \in BOOLEAN
    /\ Options \in Seq([gateway : STRING, model : STRING]) /\ Options # <<>>
    /\ \A m \in DOMAIN Prices : Prices[m] \subseteq Nat
    /\ MaxToolRounds \in Nat \ {0} /\ MaxTokens \in Nat \ {0}

VARIABLES
    at,         \* where the worker of the task is
    model,      \* the request's model
    chain,      \* the options still to ask, the one being asked first
    round,      \* follow-up requests of the tool loop
    tokens,     \* totalTokensIn + totalTokensOut of the provider
    wanted,     \* the tools the provider's last message calls
    results,    \* what the agents of the task have answered
    prev,       \* the total that setOutputVariables has read
    cost,       \* the variable <task>_cost
    total,      \* the variable ai_total_cost
    asked,      \* history: the model that the task wants
    log,        \* history: the requests of the task and how they ended
    crossed     \* history: two tasks were inside setOutputVariables at once

taskVars == <<at, model, chain, round, tokens, wanted, results, asked, log>>
costVars == <<prev, cost, total, crossed>>
vars == <<taskVars, costVars>>

Default == "gpt-4o"

resolveModel(t) ==
    IF Def[t].model = "" THEN ModelVariable \cup {Default} ELSE {Def[t].model}

(* One unknown name and the task goes on without any tool.                  *)
resolveTools(t) == IF Def[t].tools \subseteq Registered THEN Def[t].tools ELSE {}

HasAgents(t) == Def[t].agentDefs # "none"

(* A sub-agent's request has no tools.                                      *)
Offered(t) == IF HasAgents(t) THEN {} ELSE resolveTools(t)

Init ==
    /\ at = [t \in Tasks |-> "ready"]
    /\ model = [t \in Tasks |-> ""]
    /\ chain = [t \in Tasks |-> <<>>]
    /\ round = [t \in Tasks |-> 0]
    /\ tokens = [t \in Tasks |-> 0]
    /\ wanted = [t \in Tasks |-> {}]
    /\ results = [t \in Tasks |-> <<>>]
    /\ prev = [t \in Tasks |-> 0]
    /\ cost = [t \in Tasks |-> 0]
    /\ total = 0
    /\ asked = [t \in Tasks |-> ""]
    /\ log = [t \in Tasks |-> {}]
    /\ crossed = FALSE

(* Gateway.Generate: the first request to the first option.                 *)
Ask(t, name, options) ==
    /\ at' = [at EXCEPT ![t] = "asking"]
    /\ model' = [model EXCEPT ![t] = name]
    /\ chain' = [chain EXCEPT ![t] = options]
    /\ round' = [round EXCEPT ![t] = 0]
    /\ tokens' = [tokens EXCEPT ![t] = 0]
    /\ wanted' = [wanted EXCEPT ![t] = {}]

(* Without a router, or when it knows no provider, the gateway of the       *)
(* engine is asked; else the routed provider alone.                         *)
Routes(t, name) ==
    IF Routed THEN Resolve(name, resolveTools(t) # {}, Def[t].schema) ELSE {}

Execute(t) ==
    /\ at[t] = "ready"
    /\ ~HasAgents(t)
    /\ \E name \in resolveModel(t) :
         /\ asked' = [asked EXCEPT ![t] = name]
         /\ \/ Routes(t, name) = {} /\ Ask(t, name, Options)
            \/ \E r \in Routes(t, name) :
                  Ask(t, r.model, <<[gateway |-> r.gateway, model |-> ""]>>)
    /\ UNCHANGED <<results, log, costVars>>

AgentModel(t, i) == IF Def[t].agents[i] = "" THEN Default ELSE Def[t].agents[i]

(* Agents that ParseAgents cannot read fail the task, and an empty list ends *)
(* it; neither sends a request.                                             *)
ExecuteAgents(t) ==
    /\ at[t] = "ready"
    /\ HasAgents(t)
    /\ IF Def[t].agentDefs = "list" /\ Def[t].agents # <<>>
       THEN Ask(t, AgentModel(t, 1), Options)
       ELSE /\ at' = [at EXCEPT ![t] = IF Def[t].agentDefs = "malformed" THEN "failed" ELSE "done"]
            /\ UNCHANGED <<model, chain, round, tokens, wanted>>
    /\ UNCHANGED <<results, asked, log, costVars>>

(* The loop of MultiAgentExecutor: an error is a result like any other, and *)
(* the next agent is asked.  The task ends without touching the cost.       *)
AgentDone(t, result) ==
    LET n == Len(results[t]) + 1
    IN  /\ results' = [results EXCEPT ![t] = Append(@, result)]
        /\ IF n < Len(Def[t].agents)
           THEN Ask(t, AgentModel(t, n + 1), Options)
           ELSE /\ at' = [at EXCEPT ![t] = "done"]
                /\ UNCHANGED <<model, chain, round, tokens, wanted>>

(* The same option is asked for ever.                                       *)
FailsAgain(t) == Ask(t, model[t], chain[t]) /\ UNCHANGED results

(* Agents get the first option only.                                        *)
FailsAtOnce(t) ==
    IF Len(chain[t]) > 1 /\ ~HasAgents(t)
    THEN Ask(t, model[t], Tail(chain[t])) /\ UNCHANGED results
    ELSE IF HasAgents(t)
    THEN AgentDone(t, "error")
    ELSE /\ at' = [at EXCEPT ![t] = "failed"]
         /\ UNCHANGED <<model, chain, round, tokens, wanted, results>>

(* Generate returns an error: the gateway goes on to its next option with   *)
(* the request as it was, or the call has failed.                           *)
Fails(t) ==
    IF Len(chain[t]) > 1
    THEN Ask(t, model[t], Tail(chain[t])) /\ UNCHANGED results
    ELSE IF HasAgents(t)
    THEN AgentDone(t, "error")
    ELSE /\ at' = [at EXCEPT ![t] = "failed"]
         /\ UNCHANGED <<model, chain, round, tokens, wanted, results>>

ModelAsked(t) == IF Head(chain[t]).model = "" THEN model[t] ELSE Head(chain[t]).model

Logged(t, charge, end) ==
    log' = [log EXCEPT ![t] = @ \cup {[agent   |-> Len(results[t]) + 1,
                                       gateway |-> Head(chain[t]).gateway,
                                       model   |-> ModelAsked(t),
                                       left    |-> Len(chain[t]) - 1,
                                       round   |-> round[t],
                                       charge  |-> charge,
                                       end     |-> end]}]

(* A failed request, or an answer without choices.                          *)
RequestFails(t) ==
    /\ at[t] = "asking"
    /\ Logged(t, 0, "fails")
    /\ Fails(t)
    /\ UNCHANGED <<asked, costVars>>

CountedLast(t, charge) == charge

Counted(t, charge) == tokens[t] + charge

(* A message without tool calls ends the call.                              *)
RequestAnswered(t, charge) ==
    /\ at[t] = "asking"
    /\ Logged(t, charge, "answers")
    /\ IF HasAgents(t)
       THEN AgentDone(t, "text")
       ELSE /\ at' = [at EXCEPT ![t] = "answered"]
            /\ tokens' = [tokens EXCEPT ![t] = Counted(t, charge)]
            /\ UNCHANGED <<model, chain, round, wanted, results>>
    /\ UNCHANGED <<asked, costVars>>

MoreRounds(t) == round[t] < MaxToolRounds

(* A message that calls tools: the loop runs them if it has a round left.   *)
RequestCalls(t, charge, tools) ==
    /\ at[t] = "asking"
    /\ Logged(t, charge, "calls")
    /\ IF MoreRounds(t)
       THEN /\ at' = [at EXCEPT ![t] = "calling"]
            /\ tokens' = [tokens EXCEPT ![t] = Counted(t, charge)]
            /\ wanted' = [wanted EXCEPT ![t] = tools]
            /\ UNCHANGED <<model, chain, round, results>>
       ELSE Fails(t)
    /\ UNCHANGED <<asked, costVars>>

(* The tools are run, a failed one answers with its error text, and the     *)
(* follow-up request is sent.                                               *)
RunTools(t) ==
    /\ at[t] = "calling"
    /\ wanted[t] \subseteq Offered(t)
    /\ at' = [at EXCEPT ![t] = "asking"]
    /\ round' = [round EXCEPT ![t] = @ + 1]
    /\ wanted' = [wanted EXCEPT ![t] = {}]
    /\ UNCHANGED <<model, chain, tokens, results, asked, log, costVars>>

(* A tool that was not offered, or arguments that are no JSON.              *)
ToolRefused(t) ==
    /\ at[t] = "calling"
    /\ Fails(t)
    /\ UNCHANGED <<asked, log, costVars>>

EntriesOf(m) == IF m \in DOMAIN Prices /\ Prices[m] # {} THEN Prices[m] ELSE {0}

(* setOutputVariables reads the total of the case ...                       *)
ReadTotal(t) ==
    /\ at[t] = "answered"
    /\ \E price \in EntriesOf(ModelAsked(t)) :
         cost' = [cost EXCEPT ![t] = price * tokens[t]]
    /\ prev' = [prev EXCEPT ![t] = total]
    /\ at' = [at EXCEPT ![t] = "costing"]
    /\ crossed' = (crossed \/ \E u \in Tasks \ {t} : at[u] = "costing")
    /\ UNCHANGED <<model, chain, round, tokens, wanted, results, asked, log, total>>

(* What the tasks before have cost is forgotten.                            *)
WriteTotalAlone(t) ==
    /\ at[t] = "costing"
    /\ total' = cost[t]
    /\ at' = [at EXCEPT ![t] = "done"]
    /\ UNCHANGED <<model, chain, round, tokens, wanted, results, asked, log, prev, cost, crossed>>

(* ... and writes it back with its own cost added.                          *)
WriteTotal(t) ==
    /\ at[t] = "costing"
    /\ total' = prev[t] + cost[t]
    /\ at' = [at EXCEPT ![t] = "done"]
    /\ UNCHANGED <<model, chain, round, tokens, wanted, results, asked, log, prev, cost, crossed>>

Step(t) ==
    \/ Execute(t) \/ ExecuteAgents(t)
    \/ RequestFails(t)
    \/ \E charge \in 1 .. MaxTokens : RequestAnswered(t, charge)
    \/ \E charge \in 1 .. MaxTokens, tools \in (SUBSET Registered) \ {{}} : RequestCalls(t, charge, tools)
    \/ RunTools(t) \/ ToolRefused(t)
    \/ ReadTotal(t) \/ WriteTotal(t)

Ended(t) == at[t] \in {"done", "failed"}

(* Every task has ended: the run goes on elsewhere.                         *)
Rest == (\A t \in Tasks : Ended(t)) /\ UNCHANGED vars

Next == (\E t \in Tasks : Step(t)) \/ Rest

(* A worker's goroutine is scheduled, and a request is answered or ends with *)
(* an error, at the latest with the deadline of the run's context.          *)
Spec == Init /\ [][Next]_vars /\ \A t \in Tasks : WF_vars(Step(t))

----------------------------------------------------------------------------
(* The types of the variables, which every action keeps.                    *)
TypeOK ==
    /\ at \in [Tasks -> {"ready", "asking", "calling", "answered", "costing", "done", "failed"}]
    /\ round \in [Tasks -> 0 .. MaxToolRounds]
    /\ tokens \in [Tasks -> Nat]
    /\ wanted \in [Tasks -> SUBSET Registered]
    /\ cost \in [Tasks -> Nat] /\ prev \in [Tasks -> Nat] /\ total \in Nat
    /\ crossed \in BOOLEAN

(* What the requests of the task to its last provider were charged.         *)
ChargedByLast(t) ==
    LET ofLast == {e \in log[t] : \A d \in log[t] : e.left <= d.left}
    IN  MapThenSumSet(LAMBDA e : e.charge, ofLast)

(* What an answered task records as its tokens is what the provider that    *)
(* answered has charged in all rounds of its tool loop, and nothing of the  *)
(* options that failed before it (the totals of toolCallLoop).              *)
TokensAccounted ==
    \A t \in Tasks :
        (at[t] \in {"answered", "costing", "done"} /\ ~HasAgents(t)) =>
            tokens[t] = ChargedByLast(t)

Spent(S) == MapThenSumSet(LAMBDA t : cost[t], S)

(* ai_total_cost is the sum of the costs of the tasks that are done, unless *)
(* two of them were inside setOutputVariables at once: then one may be      *)
(* lost, but none is ever counted twice.                                    *)
CostAccounted ==
    LET counted == {t \in Tasks : at[t] = "done"}
    IN  /\ total <= Spent(counted)
        /\ crossed \/ total = Spent(counted)

(* The options that agent i of the task has asked, as what was left then.   *)
LeftOf(t, i) == {e.left : e \in {d \in log[t] : d.agent = i}}

CallFailed(t, i) ==
    IF HasAgents(t) THEN i \in DOMAIN results[t] /\ results[t][i] = "error"
                    ELSE i = 1 /\ at[t] = "failed"

(* A call that failed has asked every option of its gateway, and one that   *)
(* was answered the options up to the one that answers, none left out: the  *)
(* gateways go on only from a failed option, to the one behind it           *)
(* (FallbackGateway, CrossProviderGateway, MultiAgentExecutor).             *)
FailoverComplete ==
    \A t \in Tasks :
        LET first == IF Routed /\ Pool # {} /\ ~HasAgents(t) THEN 0 ELSE Len(Options) - 1
        IN  /\ \A i \in 1 .. Len(results[t]) + 1 :
                 CallFailed(t, i) => LeftOf(t, i) = 0 .. first
            /\ \A e \in log[t] : e.end = "answers" =>
                 /\ LeftOf(t, e.agent) = e.left .. first
                 /\ \A d \in log[t] \ {e} :
                      (d.agent = e.agent /\ d.left = e.left) => d.end = "calls"

(* A task whose model is in the catalog is asked of another provider only   *)
(* if its own is not configured or the model lacks what the task needs; a   *)
(* model of the catalog it is given instead lacks nothing, and the provider *)
(* is one of the pool (ModelRouter.Resolve).                                *)
OwnProviderFirst ==
    \A t \in Tasks : \A e \in log[t] :
        LET name == Expanded(asked[t])
            able(k) == Able(k, resolveTools(t) # {}, Def[t].schema)
        IN  (Routed /\ ~HasAgents(t) /\ name \in DOMAIN Catalog /\ Pool # {}) =>
              /\ (Catalog[name].provider \in Pool /\ able(name)) =>
                    (e.gateway = Catalog[name].provider /\ e.model = name)
              /\ (e.model \in DOMAIN Catalog \ {name}) => able(e.model)
              /\ e.gateway \in Pool

(* All tasks come to their end, however often the provider calls tools: the *)
(* tool loop has MaxToolRounds, and the gateways have finitely many options.*)
TasksReturn == <>(\A t \in Tasks : Ended(t))
=============================================================================
