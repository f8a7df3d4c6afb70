SPECIFICATION Spec
CONSTANTS
  Nothing = Nothing
  Failed = Failed
  Busy = Busy
  None = None
  Crashed = Crashed
  Overlap <- OneEach
  LiveRows <- Cycle12
  MaxDelay = 2
  Start <- StartSweep
  Content <- NoContent
  Cadence <- Labels
INVARIANTS
  TraceNeverCrashes
