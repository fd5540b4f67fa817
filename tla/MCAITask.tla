------------------------------ MODULE MCAITask ------------------------------
(* Small instances of AITask: a slice of the catalog with a provider that   *)
(* is not configured, a model without tools and two of the same bare name.  *)
EXTENDS AITask

Model(provider, name, tools, window) ==
    [provider |-> provider, name |-> name, tools |-> tools, json |-> TRUE, window |-> window]

MCCatalog ==
    [k \in {"openai/gpt-4o", "meta/llama-4", "groq/llama-4", "groq/distill"} |->
        CASE k = "openai/gpt-4o" -> Model("openai", "gpt-4o", TRUE, 128)
          [] k = "meta/llama-4"  -> Model("meta", "llama-4", TRUE, 131)
          [] k = "groq/llama-4"  -> Model("groq", "llama-4", TRUE, 131)
          [] k = "groq/distill"  -> Model("groq", "deepseek-distill", FALSE, 131)]

MCSplit ==
    [k \in {"openai/gpt-4o", "meta/llama-4", "groq/llama-4", "groq/distill",
            "gpt-4o", "zhipu/glm"} |->
        CASE k = "openai/gpt-4o" -> <<"openai", "gpt-4o">>
          [] k = "meta/llama-4"  -> <<"meta", "llama-4">>
          [] k = "groq/llama-4"  -> <<"groq", "llama-4">>
          [] k = "groq/distill"  -> <<"groq", "distill">>
          [] k = "zhipu/glm"     -> <<"zhipu", "glm">>
          [] OTHER               -> <<"", k>>]

MCAliases == [k \in {"gpt-4o"} |-> "openai/gpt-4o"]
MCLabAliases == [k \in {"zhipu", "meta"} |-> IF k = "zhipu" THEN "openrouter" ELSE "meta"]

MCPrices == [m \in {"openai/gpt-4o", "gpt-4o", "groq/llama-4"} |->
                IF m = "groq/llama-4" THEN {} ELSE {1, 2}]

MCOptions == <<[gateway |-> "primary", model |-> ""], [gateway |-> "fallback", model |-> ""]>>

(* The task "ask" needs a tool and takes the model that a variable names,   *)
(* "plain" names one tool too many and gets none, "team" has two agents,    *)
(* "nobody" an empty list of them and "garbled" one that cannot be read.    *)
Task(name, tools, schema, defs, agents) ==
    [model |-> name, tools |-> tools, schema |-> schema, agentDefs |-> defs, agents |-> agents]

MCDef == [t \in Tasks |->
    CASE t = "ask"     -> Task("", {"find"}, FALSE, "none", <<>>)
      [] t = "plain"   -> Task("groq/distill", {"find", "gone"}, TRUE, "none", <<>>)
      [] t = "team"    -> Task("", {}, FALSE, "list", <<"", "groq/llama-4">>)
      [] t = "nobody"  -> Task("", {}, FALSE, "list", <<>>)
      [] t = "garbled" -> Task("", {}, FALSE, "malformed", <<>>)]

MCModelVariable == {"groq/distill", "meta/llama-4", "zhipu/glm"}
=============================================================================
