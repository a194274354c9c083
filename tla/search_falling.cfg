\* Two targets on falling curves; a codec whose better end is its highest value,
\* with a granularity above the unit and a step limit between its steps.
SPECIFICATION Spec
CONSTANTS
  Better = 14
  Worse = 0
  Granularity = 2
  MaxStep = 3
  Default = 6
  Targets <- TwoTargets
  Weight <- MixedWeight
  Delta <- NoDelta
  Deficits <- Wide
  Monotone = TRUE
  Untested = Untested
  None = None
INVARIANTS FrontierFound
CHECK_DEADLOCK FALSE
