SPECIFICATION Spec
CONSTANTS
  MaxTakes = 2
  MaxNotional = 4
  Cooldown = 2
  Cost <- MCCost
  MaxClock = 6
  MaxCrossed = 4
  MaxLives = 2
  LostReplies = TRUE
INVARIANTS
  TypeOK
  DamageBounded
PROPERTY CrossingsApart
CHECK_DEADLOCK FALSE
