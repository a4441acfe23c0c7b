CHECK_DEADLOCK FALSE
SPECIFICATION ServiceSpec
CONSTANTS
  Workers = {w1}
  Intents = {i1, i2, i3}
  Price <- UnitPrice
  BrokerIds = {b1, b2, b3}
  NoId = NoId
  NoIntent = NoIntent
  SyncLimit = 2
  MaxSubmits = 1
  CancelAfterAck = TRUE
  BatchMax = 2
  DailyCountLimit = 2
  DailyNotionalLimit = 3
  BlockUnresolved = TRUE
  CleanSettings = {TRUE, FALSE}
SYMMETRY Symmetry
INVARIANTS NoOrderWhileInDoubt CountExceedsByUnknown
