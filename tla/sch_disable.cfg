\* One slot for ticks, one request at a time, MongoDB, no fault.
CONSTANTS
  Trigger = {k1}
  Api = {a1}
  Requests <- Switching
  MaxRuns = 1
  MaxTicks = 1
  MaxFaults = 0
SPECIFICATION ScheduleSpec
CHECK_DEADLOCK FALSE
PROPERTY DisabledStaysOff
