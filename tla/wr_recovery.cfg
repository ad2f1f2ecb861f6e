\* One task, every request, two faults: what the queue owes and settles.
CONSTANTS
  Task = {t1}
  Worker = {w1, w2}
  Api = {a1}
  NoTask = NoTask
  Requests = {"prompt", "halt", "stop", "reset", "put", "delete"}
  Faults = {"worker", "mark_failed", "api"}
  MaxFaults = 2
  MaxLapses = 0
  ResultsExpire = FALSE
SPECIFICATION FairSpec
CHECK_DEADLOCK FALSE
INVARIANT RefusalIsBacked
PROPERTY AtLeastOnce
PROPERTY RefusalEnds
PROPERTY EveryTaskSettles
