\* Publishers that overtake each other and fail, keys that expire, and a client
\* that loses its connection.
CONSTANTS
  Publisher = {p1, p2}
  HistoryMax = 2
  KeysExpire = TRUE
  MaxEvents = 3
  MaxFaults = 1
  MaxDrops = 2
SPECIFICATION EventBusFairSpec
CHECK_DEADLOCK FALSE
INVARIANT TypeOK
INVARIANT InOrder
INVARIANT OnlyOvertakenIsLost
PROPERTY DueIsServed
