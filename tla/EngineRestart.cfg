SPECIFICATION Spec
CONSTANTS
  m1 = m1
  m2 = m2
  m3 = m3
  none = none
  btc = btc
  eth = eth
  Market = {m1}
  NoMarket = none
  Asset = {btc}
  AssetOf <- OneAsset
  Size = 2
  Cap = 2
  MaxInv = 2
  QueueCap = 1
  HasLedger = TRUE
  Env = {"take", "fill", "partial", "expire", "settle", "timeout", "late"}
  MaxOrders = 2
  MaxCrashes = 1
INVARIANTS
  TypeOK
  OneOrderPerSide
  MemoryMatchesLedger
  LedgerTellsTheTruth
PROPERTIES
  ServedInTurn
CHECK_DEADLOCK FALSE
