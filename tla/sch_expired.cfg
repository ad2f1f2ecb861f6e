\* One slot for ticks, one schedule that is only created, MongoDB, no fault.
CONSTANTS
  Trigger = {k1}
  Api = {a1}
  Requests <- Creating
  MaxRuns = 1
  MaxTicks = 1
  MaxFaults = 0
SPECIFICATION ScheduleFairSpec
CHECK_DEADLOCK FALSE
PROPERTY ExpiredIsDisabled
