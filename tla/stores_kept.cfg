\* The knowledge, the custom tools, the guardrails, the documents that users edit, the
\* queries and the migration, one of them in each behaviour.
CONSTANTS
  Parts = {"knowledge", "tools", "guardrails", "catalogue", "documents", "migration"}
  a1 = a1
  a2 = a2
  a3 = a3
  x1 = x1
  x2 = x2
  Identities <- TwoIdentities
  Expiring <- OneExpires
  MemActor = {a1, a2, a3}
  NoActor = nobody
  Flows = {w1}
  NoFlow = noflow
  MaxBusy = 2
  LtmCap = 2
  StmMax = 2
  VecCoro = {a1, a2, a3}
  NoCoro = nobody
  Sizes = {1, 2}
  MaxCalls = 2
  MaxRestarts = 1
  Session = {x1, x2}
  Turn = {a1, a2, a3}
  Deleter = {d1}
  Window = 2
  Starter = {a1, a2, a3}
  ChatWf = {x1, x2}
  Source = {s1}
  Item = {x1, x2}
  Config = {g1, g2}
  KnActor = {a1, a2, a3, d1}
  ToolId = {a1, a2, a3}
  ToolActor = {x1, x2}
  ToolName = {"p", "n"}
  PluginName = {"p"}
  Defines <- SourceFiles
  PluginSource <- PluginFiles
  EnvVar = {"e1", "e2"}
  TokenName = {"k1", "k2"}
  Mappings <- EachItsToken
  Overrides <- OneOverride
  InitialTools <- AtFirst
  NoTool = unstored
  GoneTool = deleted
  MaxTokenWrites = 1
  Guard = {g1, g2}
  Listed = {g1}
  Enforcer = {d1}
  GuardWriter = {d1}
  NoGuard = nowhere
  MaxGuardWrites = 1
  CatDoc = {x1, x2}
  CatActor = {a1, a2, a3}
  CatSkill = {s1}
  MaxEdits = 3
  NoCatDoc = unstored
  GoneCatDoc = deleted
  PlainPath <- Plain
  ArrayPath <- Arrays
  DottedPath <- Dotted
  SavedDocs <- Samples
  Queries <- Asked
  Prunes <- Pruning
  MaxRows = 3
  Collection <- Two
  DocId = {x1, x2}
  MongoDocs <- OneOfEach
  Contents <- FullAndSmall
  BatchSize = 2
  SpotSample = 1
  Zone = {utc, local}
  UTC = utc
  LiveCollection = {"memories"}
  MaxWrites = 1
  MaxKills = 1
SYMMETRY Symmetry
SPECIFICATION StoresSpec
CHECK_DEADLOCK FALSE
INVARIANT StoresTypeOK
INVARIANT StatusIsEarned
INVARIANT NothingDangles
INVARIANT ToolsAreWhole
INVARIANT CredentialsAreCurrent
INVARIANT GuardrailsDecide
INVARIANT EditsAreKept
INVARIANT AnswersAgree
INVARIANT VerdictsAreEarned
