---------------------------- MODULE ModelRouter ----------------------------
(* pkg/ai/router.go: the gateway and the model name that an AI task is      *)
(* given.  Model names are opaque; Split cuts one at its first slash.  Go's *)
(* map order decides among equals and among the providers of the pool, so   *)
(* the operators return the set of the results that some order gives.       *)
EXTENDS Integers, FiniteSets

CONSTANTS
    Catalog,        \* name -> [provider, name, tools, json, window]
    Aliases,        \* short name -> name
    LabAliases,     \* lab -> provider
    Split,          \* name -> <<prefix, rest>>, the prefix "" if there is none
    Pool            \* the providers that are configured

(* What is behind the slash of a name may be a name of the catalog itself   *)
(* (openrouter/openai/gpt-4o): such a model can do everything.              *)
ASSUME CatalogAssumption ==
    \A k \in DOMAIN Catalog :
        /\ Catalog[k].window > 0 /\ k \in DOMAIN Split
        /\ Split[k][2] \in DOMAIN Catalog \ {k} =>
              Catalog[Split[k][2]].tools /\ Catalog[Split[k][2]].json

Able(k, tools, schema) ==
    (tools => Catalog[k].tools) /\ (schema => Catalog[k].json)

Score(k) ==
    Catalog[k].window + (IF Catalog[k].tools THEN 50 ELSE 0)
                      + (IF Catalog[k].json THEN 20 ELSE 0)

(* The pool is not asked: the best model may be of a provider that is not   *)
(* there.  With a hint the first model of that bare name ends the search.   *)
findBestMatch(tools, schema, exclude, hint) ==
    LET able  == {k \in DOMAIN Catalog : Able(k, tools, schema) /\ Catalog[k].provider # exclude}
        named == {k \in able : hint # "" /\ Catalog[k].name = Split[hint][2]}
    IN  IF named # {} THEN named
        ELSE {k \in able : \A j \in able : Score(j) <= Score(k)}

Expanded(name) == IF name \in DOMAIN Aliases THEN Aliases[name] ELSE name

(* A substitute counts only if its provider is in the pool.                 *)
Substitutes(found) ==
    {[gateway |-> Catalog[k].provider, model |-> k] :
        k \in {j \in found : Catalog[j].provider \in Pool}}

(* Whether some order of the map leaves the search without a substitute.    *)
MayMiss(found) == found = {} \/ \E k \in found : Catalog[k].provider \notin Pool

resolveAnyProvider(name) == {[gateway |-> p, model |-> Split[name][2]] : p \in Pool}

ByPrefix(name) ==
    LET prefix == Split[name][1]
        lab    == IF prefix \in DOMAIN LabAliases THEN LabAliases[prefix] ELSE ""
    IN  IF prefix # "" /\ prefix \in Pool
        THEN {[gateway |-> prefix, model |-> Split[name][2]]}
        ELSE IF prefix # "" /\ lab \in Pool
        THEN {[gateway |-> lab, model |-> Split[name][2]]}
        ELSE resolveAnyProvider(name)

(* A substitute is looked for whatever the model can do.                    *)
ResolveBest(asked, tools, schema) ==
    LET name  == Expanded(asked)
        other == findBestMatch(tools, schema, Catalog[name].provider, "")
    IN  IF name \notin DOMAIN Catalog THEN ByPrefix(name)
        ELSE Substitutes(other) \cup {r \in ByPrefix(name) : MayMiss(other)}

(* The empty set is the error "no AI providers configured".                 *)
Resolve(asked, tools, schema) ==
    LET name == Expanded(asked)
        own  == [gateway |-> Catalog[name].provider, model |-> name]
        other == findBestMatch(tools, schema, Catalog[name].provider, "")
        same == findBestMatch(tools, schema, "", name)
    IN  IF name \notin DOMAIN Catalog THEN ByPrefix(name)
        ELSE IF Catalog[name].provider \in Pool
        THEN IF Able(name, tools, schema) THEN {own}
             ELSE Substitutes(other) \cup {o \in {own} : MayMiss(other)}
        ELSE Substitutes(same) \cup {r \in ByPrefix(name) : MayMiss(same)}
=============================================================================
