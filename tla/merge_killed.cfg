\* Killed after a promotion; then the settings go back.
SPECIFICATION Spec
CONSTANTS
  None = None
  Range = Range
  Configs <- Arguments
  MaxRuns = 3
  MaxKills = 1
  MaxFailures = 0
  Assumed = {}
INVARIANTS DeliveredCurrent
CHECK_DEADLOCK FALSE
