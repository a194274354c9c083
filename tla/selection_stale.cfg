SPECIFICATION Spec
CONSTANTS
  None = None
  Strategies = {1, 2}
  Chunks = {1, 2}
  Goals = {"search", "fixed"}
  Fixed = {"fixed"}
  Stats = {"low", "mid"}
  Worlds <- OneWorld
  Delta <- Deltas
  Bases = {{1, 2}}
  Configs <- Just
  MaxRuns = 2
  MaxKills = 0
  MaxFailures = 1
PROPERTIES ReplayFresh
CHECK_DEADLOCK FALSE
