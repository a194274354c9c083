\* The arguments of one strategy and the targets change in one run.
SPECIFICATION Spec
CONSTANTS
  None = None
  Strategies <- Plans
  Chunks = {1}
  Trail <- Trails
  Cost <- Costs
  Tolerance = 0
  Tests <- FirstChunk
  Configs <- Combined
  Budgets <- Bounds
  Assumed = {"recorded", "remembered", "whole"}
INVARIANT DeliveredCurrent
CHECK_DEADLOCK FALSE
