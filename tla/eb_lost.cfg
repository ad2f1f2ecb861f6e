\* Two publishers, nothing fails or expires, one lost connection.
CONSTANTS
  Publisher = {p1, p2}
  HistoryMax = 4
  KeysExpire = FALSE
  MaxEvents = 4
  MaxFaults = 0
  MaxDrops = 1
SPECIFICATION EventBusSpec
SYMMETRY Publishers
CHECK_DEADLOCK FALSE
INVARIANT NothingIsLost
