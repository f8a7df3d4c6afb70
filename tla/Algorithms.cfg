SPECIFICATION Spec
CONSTANTS
  Null = Null
  FieldRows <- SomeRows
  Fills <- SomeFills
  Beliefs <- SomeBeliefs
  Candles <- SomeCandles
  MinBin = 2
  Samples <- SomeSamples
INVARIANTS
  HeadlineIsUndecided
  GapDrawnInFull
  RankingAgreesWithBar
  AttributionIsExact
  QuoteShedsInventory
  FitIsIsotonic
  NoLookAhead
CHECK_DEADLOCK FALSE
