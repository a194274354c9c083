\* Three runs with any of the changes, killed twice anywhere, and one failure.
SPECIFICATION Spec
CONSTANTS
  None = None
  Infeasible = Infeasible
  Sources <- Two
  Streams <- Inventories
  Timed <- Two
  Detected <- Borders
  Pictures <- Sizes
  Crops <- Margins
  Requests <- Asked
  Granularity = 2
  Index = "pts"
  Container = "video"
  Dubs <- Audio
  Attached <- Fonts
  Chapters = "chap"
  Extension <- Formats
  Configs <- Edits
  MaxRuns = 3
  MaxKills = 2
  MaxFailures = 1
INVARIANTS TypeOK Delivered ScaleFits FailsForCause ReplayIsFree
PROPERTIES RecordsFirst PermissionKept
CHECK_DEADLOCK FALSE
