SPECIFICATION MCSpec
CONSTANTS
  ModelStages = {"A"}
  ToolStages = {"B"}
  Entry = "A"
  Exits = {"B"}
  Edges <- EdgesDef
  MaxRetries = 1
  Configs <- ReplayConfigsDef
  MaxEvents = 22
  MaxVault = 15
  Options <- OptionsDef
  MaxVisits = 3
  MaxAsks = 3
  MaxCalls = 2
  MaxRewritten = 1
INVARIANT FailurePathReplays
\* The life of the evidence ends.
CHECK_DEADLOCK FALSE
