SPECIFICATION Spec
CONSTANTS
  m1 = m1
  m2 = m2
  m3 = m3
  none = none
  btc = btc
  eth = eth
  Market = {m1, m2, m3}
  NoMarket = none
  Asset = {btc, eth}
  AssetOf <- TwoAssets
  Size = 1
  Cap = 1
  MaxInv = 2
  QueueCap = 1
  HasLedger = FALSE
  Env = {"take", "cancelFail"}
  MaxOrders = 2
  MaxCrashes = 0
SYMMETRY Interchangeable
INVARIANTS
  ExposureWithinCap
CHECK_DEADLOCK FALSE
