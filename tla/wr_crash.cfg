\* One worker that dies once.
CONSTANTS
  Task = {t1, t2}
  Worker = {w1}
  Api = {a1}
  NoTask = NoTask
  Requests = {"prompt"}
  Faults = {"worker"}
  MaxFaults = 1
  MaxLapses = 0
  ResultsExpire = FALSE
SPECIFICATION Spec
CHECK_DEADLOCK FALSE
INVARIANT QuietIsNotRunning
