\* Every ring of up to five vertices on a square, its middle, and a corner twice.
CONSTANTS
  Position <- Corners
  Shell <- Square
  MaxLen = 5
SPECIFICATION Spec
INVARIANTS
  BaseIsWhatWasVisible
  RepairedViewsPass
  RepairsKeepTheShape
CHECK_DEADLOCK FALSE
