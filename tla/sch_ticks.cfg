\* Either database, two slots for ticks, one request at a time, and one fault of
\* any kind.
CONSTANTS
  Trigger = {k1, k2}
  Api = {a1}
  Requests <- EveryRequest
  MaxRuns = 3
  MaxTicks = 1
  MaxFaults = 1
SPECIFICATION ScheduleFairSpec
CHECK_DEADLOCK FALSE
INVARIANT TypeOK
INVARIANT OverlapIsBounded
PROPERTY StoppedStartsNothing
PROPERTY EnabledFires
