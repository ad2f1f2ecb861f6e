\* One prompt, from the documents it is prepared from to its return.
CONSTANTS
  Tool = {"t1", "t2"}
  StoreMemory = "store_memory"
  ServerName = {"m", "n"}
  Skill = {"a", "b", "c"}
  SkillOverhead <- Overheads
  SkillLength <- Lengths
  SkillBudget = 11
  Inputs <- SetupInputs
  TurnLimits <- Limits
  MaxBatch = 2
  MaxSdkCalls = 3
  MaxRetries = 1
  CompactGuard = 3
  CompactFloor = 5
  KeepRecentTurns = 3
  KeepRecentResults = 1
SPECIFICATION RunSpec
CHECK_DEADLOCK FALSE
INVARIANT LoopTypeOK
INVARIANT OffersAreHonest
INVARIANT SkillsFit
INVARIANT CallsArePaired
INVARIANT CompactionKeepsTheTask
INVARIANT TurnLimitIsKept
INVARIANT ReportsAgree
PROPERTY RunEnds
