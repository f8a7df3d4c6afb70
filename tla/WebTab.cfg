SPECIFICATION Spec
CONSTANTS
  Nothing = Nothing
  Failed = Failed
  Busy = Busy
  None = None
  Crashed = Crashed
  Overlap <- OneEach
  LiveRows <- Cycle12
  MaxDelay = 2
  Start <- StartEarly
  Content <- ContentLater
  Cadence <- Labels
INVARIANTS
  TabTypeOK
  TraceIsTheSelected
  ReplayIsCausal
  HeadlineMatchesRows
  ReadingIsTrue
  CountdownHonest
PROPERTIES
  TraceOpensAtSettlement
  PagesRecover
  OutageShows
  EveryPageSettles
  EventuallyCurrent
CHECK_DEADLOCK FALSE
