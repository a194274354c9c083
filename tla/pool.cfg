\* Three pairs on two workers; two attempts fit above the floor, and an attempt
\* may outrun its reserve.
SPECIFICATION FairSpec
CONSTANTS
  NumPairs = 3
  Bound = 2
  MaxAttempts = 2
  Capacity = 6
  MinFree = 3
  Need = 1
  Size = 2
INVARIANTS TypeOK FloorHeld Quiesced
PROPERTIES Implements Returns
CHECK_DEADLOCK FALSE
