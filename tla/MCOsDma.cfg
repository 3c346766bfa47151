SPECIFICATION FairSpec
CONSTANTS
  NumDMA = 3
  MaxPages = 2
  Retries = 2
  Faults = {"nomem", "pin", "sg", "map", "prep", "terminate"}
CHECK_DEADLOCK FALSE
INVARIANT BusyPagesHeld
INVARIANT NothingDangles
INVARIANT GivenBack
PROPERTY RequestEnds
