SPECIFICATION Spec
CONSTANTS
  Tasks = {"ask", "plain", "team", "nobody", "garbled"}
  Registered = {"find"}
  Routed = TRUE
  Pool = {"openai", "groq", "openrouter"}
  MaxToolRounds = 1
  MaxTokens = 1
  Catalog <- MCCatalog
  Aliases <- MCAliases
  LabAliases <- MCLabAliases
  Split <- MCSplit
  Options <- MCOptions
  ModelVariable <- MCModelVariable
  Prices <- MCPrices
  Def <- MCDef
INVARIANTS TokensAccounted CostAccounted FailoverComplete OwnProviderFirst
PROPERTY TasksReturn
