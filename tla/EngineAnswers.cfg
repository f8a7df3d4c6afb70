SPECIFICATION FairSpec
CONSTANTS
  m1 = m1
  m2 = m2
  m3 = m3
  none = none
  btc = btc
  eth = eth
  Market = {m1, m2}
  NoMarket = none
  Asset = {btc}
  AssetOf <- OneAsset
  Size = 1
  Cap = 0
  MaxInv = 1
  QueueCap = 1
  HasLedger = TRUE
  Env = {"take", "expire", "timeout"}
  MaxOrders = 1
  MaxCrashes = 0
INVARIANT ReplyProtocol
PROPERTIES
  ServedInTurn
  EveryIntentAnswered
  PullCompletes
  EveryWindowReaped
  EveryFillRecorded
CHECK_DEADLOCK FALSE
