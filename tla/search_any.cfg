\* Arbitrary, even non-monotone measurements; a codec whose better end is 0.
SPECIFICATION FairSpec
CONSTANTS
  Better = 0
  Worse = 8
  Granularity = 1
  MaxStep = 0
  Default = 3
  Targets <- OneTarget
  Weight <- UnitWeight
  Delta <- NoDelta
  Deficits <- Wide
  Monotone = FALSE
  Untested = Untested
  None = None
INVARIANTS TypeOK FreshProposal BestIsOptimal WinnerIsBest
PROPERTY Terminates
CHECK_DEADLOCK FALSE
