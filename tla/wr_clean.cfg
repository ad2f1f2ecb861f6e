\* Two runs and a visibility timeout, no faults: prompts and deletions.
CONSTANTS
  Task = {t1, t2}
  Worker = {w1, w2}
  Api = {a1}
  NoTask = NoTask
  Requests = {"prompt", "delete"}
  Faults = {}
  MaxFaults = 0
  MaxLapses = 1
  ResultsExpire = TRUE
SPECIFICATION Spec
SYMMETRY Symmetry
CHECK_DEADLOCK FALSE
INVARIANT TypeOK
INVARIANT IdleIsClean
