\* Three work directories: any change, killed twice anywhere; two chunks; cleanup.
SPECIFICATION FairSpec
CONSTANTS
  None = None
  Strategies <- Plans
  Chunks = {1, 2}
  Trail <- Trails
  Cost <- Costs
  Tolerance = 0
  Tests <- FirstChunk
  Configs <- Works
  Budgets <- Bounds
  Assumed = {"recorded", "remembered", "separate", "whole"}
INVARIANTS TypeOK DeliveredCurrent CardsTrue Mergeable ReplayIsFree
PROPERTIES PermissionKept ReplayOnlyTests NeverWedged
CHECK_DEADLOCK FALSE
