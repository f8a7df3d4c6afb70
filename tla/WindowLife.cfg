SPECIFICATION FairSpec
CONSTANTS
  w1 = w1
  none = none
  Window = {w1}
  MaxFills = 2
  MaxCrashes = 2
  Faults = {"setup", "upsert", "record", "settle", "timeout"}
  None = none
INVARIANTS
  WindowTypeOK
  SettledAsResolved
  UnsettledForAReason
  KnowsItsPosition
PROPERTY EveryWindowCloses
CHECK_DEADLOCK FALSE
