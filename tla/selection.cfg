SPECIFICATION Spec
CONSTANTS
  None = None
  Strategies = {1, 2, 3}
  Chunks = {1, 2}
  Goals = {"search", "fixed"}
  Fixed = {"fixed"}
  Stats = {"low", "mid"}
  Worlds <- AllWorlds
  Delta <- Deltas
  Bases = {{1}, {2}, {1, 2}}
  Configs <- Edits
  MaxRuns = 3
  MaxKills = 1
  MaxFailures = 1
INVARIANTS TypeOK SmallestSurvives ComparedTrue
PROPERTIES Steadfast
CHECK_DEADLOCK FALSE
