SPECIFICATION Spec
CONSTANTS
  Workers = {w1, w2}
  Intents = {i1, i2}
  BrokerIds = {b1, b2}
  NoId = NoId
  NoIntent = NoIntent
  SyncLimit = 1
  MaxSubmits = 1
  CancelAfterAck = TRUE
SYMMETRY Symmetry
INVARIANTS TypeOK OneOrderPerKey LiveOrderTracked EndedRowsTruthful
PROPERTIES KeepsContract BrokerOrderKept EndNeverContradicted
