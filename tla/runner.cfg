SPECIFICATION Spec
CONSTANTS
  None = None
  Phases <- AllPhases
  DependsOn <- Declared
  Readonly = {"job"}
  Skippable = {"optimization"}
  Rewriting = {"job"}
  Wipes <- Owned
  Prunes <- Curated
  Terminal = "merge"
  Consumables = {"encoding"}
  Commands <- Several
  MaxRuns = 2
  MaxKills = 1
  MaxEdits = 1
  MaxFailures = 1
INVARIANTS ResultsStand ExecutedOnce FailureCascades
PROPERTIES CleanupIsLast
CHECK_DEADLOCK FALSE
