\* Attempts are met that no record vouches for.
SPECIFICATION Spec
CONSTANTS
  None = None
  Strategies <- Plans
  Chunks = {1}
  Trail <- Trails
  Cost <- Costs
  Tolerance = 0
  Tests <- FirstChunk
  Configs <- Unvouched
  Budgets <- Bounds
  Assumed = {"separate", "whole"}
INVARIANT DeliveredCurrent
CHECK_DEADLOCK FALSE
