SPECIFICATION Spec
CONSTANTS
  m1 = m1
  m2 = m2
  m3 = m3
  none = none
  btc = btc
  eth = eth
  Market = {m1}
  NoMarket = none
  Asset = {btc}
  AssetOf <- OneAsset
  Size = 1
  Cap = 1
  MaxInv = 2
  QueueCap = 1
  HasLedger = TRUE
  Env = {"fill"}
  MaxOrders = 2
  MaxCrashes = 0
INVARIANTS
  ReservationCoversBook
CHECK_DEADLOCK FALSE
