SPECIFICATION Spec
CONSTANTS
  m1 = m1
  m2 = m2
  m3 = m3
  none = none
  btc = btc
  eth = eth
  Market = {m1, m2}
  NoMarket = none
  Asset = {btc}
  AssetOf <- OneAsset
  Size = 1
  Cap = 1
  MaxInv = 2
  QueueCap = 1
  HasLedger = FALSE
  Env = {"age", "setupFail", "expire"}
  MaxOrders = 3
  MaxCrashes = 0
SYMMETRY Interchangeable
INVARIANTS
  QuotesWithinCap
  ReservationCoversBook
CHECK_DEADLOCK FALSE
