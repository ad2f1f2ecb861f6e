\* One user, two prompts one after the other.
CONSTANTS
  Task = {t1, t2}
  Worker = {w1, w2}
  Api = {a1}
  NoTask = NoTask
  Requests = {"prompt"}
  Faults = {}
  MaxFaults = 0
  MaxLapses = 0
  ResultsExpire = FALSE
SPECIFICATION Spec
SYMMETRY Symmetry
CHECK_DEADLOCK FALSE
INVARIANT NoConcurrentRuns
