\* Three runs with any of the changes, killed once anywhere, and one failure.
SPECIFICATION FairSpec
CONSTANTS
  None = None
  Range = Range
  Configs <- Edits
  MaxRuns = 3
  MaxKills = 1
  MaxFailures = 1
  Assumed = {"repeated"}
INVARIANTS TypeOK DeliveredCurrent MetricsTrue ReplayIsFree
PROPERTIES DeliverablesKept NeverWedged
CHECK_DEADLOCK FALSE
