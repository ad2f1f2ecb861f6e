--------------------------- MODULE AgentLoopProofs ---------------------------
(* That a run keeps its turn limit, sends well-formed conversations however   *)
(* often they are compacted, and reports one story: for any limit, any number *)
(* of calls in one answer and of an SDK, and any settings of compaction.  And *)
(* that the preparation offers only tools that are served, and keeps the      *)
(* skills within their budget: for any servers, tools, skills and sizes.      *)
EXTENDS AgentRun, FiniteSetTheorems, NaturalsInduction, WellFoundedInduction,
        SequenceTheorems, TLAPS

Hooked == {k \in SdkIds : "hook" \in sdk[k].asked}
Permitted == {k \in SdkIds : "permission" \in sdk[k].asked}

\* The calls that the hook has allowed, and nothing has denied.
Allowed == {k \in Hooked : sdk[k].fate # "denied"}

\* A limit of 0 is noticed after the first turn, like a limit of 1.
Limit == IF maxTurns = 0 THEN 1 ELSE maxTurns

RunTypes ==
  /\ pc \in Pcs /\ path \in Paths /\ maxTurns \in Nat /\ calls \in Nat /\ batch \in Nat
  /\ sdk \in [SdkIds -> SdkCall]

\* Each path has program points of its own, and the SDK's calls are Copilot's.
OnItsPath ==
  /\ pc \in {"stream", "stream_end"} => path = "claude"
  /\ pc \in {"request", "send", "tools", "final_send"} => path \in OwnLoop
  /\ pc = "idle" => calls = 0
  /\ pc = "idle" \/ path # "copilot" => \A k \in SdkIds : sdk[k] = NewSdkCall

\* Our loops ask for another turn only below the limit.
TurnsFit ==
  path \in OwnLoop =>
    /\ calls < MaxBatch + Limit
    /\ pc \in {"connect", "request", "send"} => calls < Limit
    /\ pc = "tools" => calls <= batch /\ batch < MaxBatch + Limit

\* Each approval that is asked for is counted, and one beyond the limit denied.
ApprovalsCount ==
  /\ \A k \in SdkIds : sdk[k].fate = "new" => sdk[k].asked = {}
  /\ \A k \in SdkIds : sdk[k].fate = "run" => "hook" \in sdk[k].asked
  /\ path = "copilot" =>
       /\ calls = Cardinality(Hooked) + Cardinality(Permitted)
       /\ Cardinality(Allowed) <= maxTurns
       /\ Denied # {} => calls > maxTurns

TurnInv == RunTypes /\ OnItsPath /\ TurnsFit /\ ApprovalsCount

-----------------------------------------------------------------------------
(* Counting the calls of the SDK *)

LEMMA SdkCallsAreFinite ==
  ASSUME NEW S, S \subseteq SdkIds
  PROVE  IsFiniteSet(S) /\ Cardinality(S) \in Nat
<1>1. IsFiniteSet(SdkIds)
  BY FS_Interval, BoundsArePositive DEF SdkIds
<1> QED
  BY <1>1, FS_Subset, FS_CardinalityType

LEMMA FewerCalls ==
  ASSUME NEW S, NEW T, S \subseteq T, T \subseteq SdkIds
  PROVE  Cardinality(S) <= Cardinality(T)
BY SdkCallsAreFinite, FS_Subset

LEMMA OneMoreCall ==
  ASSUME NEW S, S \subseteq SdkIds, NEW k \in SdkIds, k \notin S
  PROVE  Cardinality(S \cup {k}) = Cardinality(S) + 1
BY SdkCallsAreFinite, FS_AddElement

LEMMA InitTurns == RunInit => TurnInv
<1> SUFFICES ASSUME RunInit PROVE TurnInv
  OBVIOUS
<1>1. /\ pc = "idle" /\ path = "copilot" /\ maxTurns = 0 /\ calls = 0 /\ batch = 0
      /\ sdk = [k \in SdkIds |-> NewSdkCall]
  BY DEF RunInit, LoopInit
<1>2. NewSdkCall \in SdkCall /\ NewSdkCall.asked = {} /\ NewSdkCall.fate = "new"
  BY DEF NewSdkCall, SdkCall
<1>3. \A k \in SdkIds : sdk[k] = NewSdkCall
  BY <1>1
<1>4. RunTypes
  BY <1>1, <1>2 DEF RunTypes, Pcs, Paths
<1>5. OnItsPath /\ TurnsFit
  BY <1>1, <1>3 DEF OnItsPath, TurnsFit, OwnLoop
<1>6. Hooked = {} /\ Permitted = {} /\ Allowed = {} /\ Denied = {}
  BY <1>2, <1>3 DEF Hooked, Permitted, Allowed, Denied
<1>7. ApprovalsCount
  BY <1>1, <1>2, <1>3, <1>6, FS_EmptySet DEF ApprovalsCount
<1> QED
  BY <1>4, <1>5, <1>7 DEF TurnInv

-----------------------------------------------------------------------------
(* Steps of the run that count nothing *)

\* From `from` to `to` on path p, without another turn.
Keeps(p, from, to) ==
  /\ to \in Pcs \ {"idle"}
  /\ to \in {"stream", "stream_end"} => p = "claude"
  /\ to \in {"request", "send", "tools", "final_send"} => p \in OwnLoop
  /\ to \in {"connect", "request", "send"} => from \in {"connect", "request", "send"}
  /\ to = "tools" => from = "tools"

LEMMA NextQuiet ==
  ASSUME TurnInv, Keeps(path, pc, pc'),
         UNCHANGED <<path, maxTurns, calls, batch, sdk>>
  PROVE  TurnInv'
<1> USE DEF TurnInv
<1>1. RunTypes'
  BY DEF RunTypes, Keeps
<1>2. OnItsPath'
  BY DEF OnItsPath, Keeps
<1>3. TurnsFit'
  BY DEF TurnsFit, Keeps, Limit
<1>4. ApprovalsCount'
  BY DEF ApprovalsCount, Hooked, Permitted, Allowed, Denied
<1> QED
  BY <1>1, <1>2, <1>3, <1>4

LEMMA EngineIsQuiet ==
  ASSUME TurnInv,
         \/ EnterOpenAI \/ EnterAnthropic \/ PrepareRequest
         \/ OpenAIVerdict \/ AnthropicVerdict
         \/ CopilotSteps \/ ClaudeSteps \/ ClosingSteps
  PROVE  Keeps(path, pc, pc') /\ UNCHANGED <<path, maxTurns, calls, batch, sdk>>
<1> USE DEF TurnInv, RunTypes, OnItsPath, Keeps, Goto, loop, session, Pcs, OwnLoop
<1>1. ASSUME EnterOpenAI \/ EnterAnthropic \/ PrepareRequest \/ OpenAIVerdict \/ AnthropicVerdict
      PROVE  Keeps(path, pc, pc') /\ UNCHANGED <<path, maxTurns, calls, batch, sdk>>
  BY <1>1 DEF EnterOpenAI, EnterAnthropic, EnterLoop, PrepareRequest, OpenAIVerdict,
              AnthropicVerdict, OwnVerdict
<1>2. ASSUME CopilotSteps
      PROVE  Keeps(path, pc, pc') /\ UNCHANGED <<path, maxTurns, calls, batch, sdk>>
  BY <1>2 DEF CopilotSteps, EnterCopilot, WaitEnds, PollHalt, Abort, CopilotVerdict
<1>3. ASSUME ClaudeSteps
      PROVE  Keeps(path, pc, pc') /\ UNCHANGED <<path, maxTurns, calls, batch, sdk>>
  BY <1>3 DEF ClaudeSteps, EnterClaude, CheckBetweenStreams, ClaudeVerdict, CreateClaude
<1>4. ASSUME ClosingSteps
      PROVE  Keeps(path, pc, pc') /\ UNCHANGED <<path, maxTurns, calls, batch, sdk>>
  BY <1>4 DEF ClosingSteps, ClearHalt, Publish, SaveTask, SaveWorkflow, FireWebhook, Cleanup
<1> QED
  BY <1>1, <1>2, <1>3, <1>4

LEMMA EnvironmentIsQuiet ==
  ASSUME TurnInv, pc # "idle",
         \/ RetryRequest \/ RateLimited \/ AnswerWithText
         \/ SessionOver \/ ClaudeEnds \/ StreamCut
         \/ Deadline \/ Raise \/ RaiseAgain \/ SetHalt \/ HaltExpires
  PROVE  Keeps(path, pc, pc') /\ UNCHANGED <<path, maxTurns, calls, batch, sdk>>
<1> USE DEF TurnInv, RunTypes, OnItsPath, Keeps, Goto, loop, session, Pcs, OwnLoop
<1>1. ASSUME RetryRequest \/ RateLimited \/ AnswerWithText
      PROVE  Keeps(path, pc, pc') /\ UNCHANGED <<path, maxTurns, calls, batch, sdk>>
  BY <1>1 DEF RetryRequest, RateLimited, AnswerWithText
<1>2. ASSUME SessionOver \/ ClaudeEnds \/ StreamCut
      PROVE  Keeps(path, pc, pc') /\ UNCHANGED <<path, maxTurns, calls, batch, sdk>>
  BY <1>2 DEF SessionOver, Live, ClaudeEnds, StreamCut
<1>3. ASSUME Deadline \/ Raise \/ RaiseAgain \/ SetHalt \/ HaltExpires
      PROVE  Keeps(path, pc, pc') /\ UNCHANGED <<path, maxTurns, calls, batch, sdk>>
  BY <1>3 DEF Deadline, Raise, RaiseAgain, SetHalt, HaltExpires
<1> QED
  BY <1>1, <1>2, <1>3

-----------------------------------------------------------------------------
(* The turns of our own loops *)

\* The run starts with nothing counted.
LEMMA NextStart ==
  ASSUME TurnInv, NEW p \in Paths, Start(p)
  PROVE  TurnInv'
<1> USE DEF TurnInv
<1>1. /\ pc = "idle" /\ pc' = "connect" /\ path' = p /\ maxTurns' \in Nat
      /\ calls' = calls /\ batch' = batch /\ sdk' = sdk /\ calls = 0
  BY LimitsAreNaturals DEF Start, Goto, loop, session, OnItsPath
<1>2. \A k \in SdkIds : sdk[k] = NewSdkCall
  BY <1>1 DEF OnItsPath
<1>3. NewSdkCall.asked = {} /\ NewSdkCall.fate = "new"
  BY DEF NewSdkCall
<1>4. RunTypes'
  BY <1>1 DEF RunTypes, Pcs
<1>5. OnItsPath'
  BY <1>1, <1>2 DEF OnItsPath
<1>6. TurnsFit'
  <2>1. PICK n \in Nat : n = IF maxTurns' = 0 THEN 1 ELSE maxTurns'
    BY <1>1
  <2>2. 0 < n
    BY <1>1, <2>1
  <2>3. 0 < MaxBatch + n
    BY <2>2, BoundsArePositive
  <2>4. calls' = 0 /\ pc' = "connect"
    BY <1>1
  <2> QED
    BY <2>1, <2>2, <2>3, <2>4 DEF TurnsFit, Limit
<1>7. Hooked' = {} /\ Permitted' = {} /\ Allowed' = {} /\ Denied' = {}
  BY <1>1, <1>2, <1>3 DEF Hooked, Permitted, Allowed, Denied
<1>8. ApprovalsCount'
  BY <1>1, <1>2, <1>3, <1>7, FS_EmptySet DEF ApprovalsCount
<1> QED
  BY <1>4, <1>5, <1>6, <1>8

\* A step of one of our loops, which has no calls of the SDK.
LEMMA NextOwn ==
  ASSUME TurnInv, path \in OwnLoop, UNCHANGED <<path, maxTurns, sdk>>,
         calls' \in Nat, batch' \in Nat, pc' \in Pcs \ {"idle", "stream", "stream_end"}, TurnsFit'
  PROVE  TurnInv'
<1> USE DEF TurnInv
<1>1. path # "copilot"
  BY DEF OwnLoop
<1>2. RunTypes' /\ OnItsPath'
  BY <1>1 DEF RunTypes, OnItsPath
<1>3. ApprovalsCount'
  BY <1>1 DEF ApprovalsCount
<1> QED
  BY <1>2, <1>3

LEMMA NextTurn ==
  ASSUME TurnInv,
         \/ AnswerWithCalls \/ ExecuteOpenAITool \/ ExecuteAnthropicTool
         \/ AfterOpenAITurn \/ AfterAnthropicTurn
  PROVE  TurnInv'
<1> USE DEF TurnInv
<1>1. ASSUME AnswerWithCalls PROVE TurnInv'
  <2>1. PICK n \in 1..MaxBatch : batch' = calls + n
    BY <1>1 DEF AnswerWithCalls
  <2>2. /\ pc = "send" /\ pc' = "tools"
        /\ path' = path /\ maxTurns' = maxTurns /\ calls' = calls /\ sdk' = sdk
    BY <1>1 DEF AnswerWithCalls, Goto, session
  <2>3. path \in OwnLoop /\ calls < Limit
    BY <2>2 DEF OnItsPath, TurnsFit
  <2>4. calls \in Nat /\ Limit \in Nat /\ MaxBatch \in Nat
    BY BoundsArePositive DEF RunTypes, Limit
  <2>5. calls' \in Nat /\ batch' \in Nat /\ calls <= batch' /\ batch' < MaxBatch + Limit
    BY <2>1, <2>2, <2>3, <2>4
  <2>6. TurnsFit'
    BY <2>2, <2>3, <2>5 DEF TurnsFit, Limit
  <2> QED
    BY <2>2, <2>3, <2>5, <2>6, NextOwn DEF Pcs
<1>2. ASSUME ExecuteOpenAITool \/ ExecuteAnthropicTool PROVE TurnInv'
  <2>1. /\ pc = "tools" /\ pc' = "tools" /\ calls < batch /\ calls' = calls + 1
        /\ path' = path /\ maxTurns' = maxTurns /\ batch' = batch /\ sdk' = sdk
    BY <1>2 DEF ExecuteOpenAITool, ExecuteAnthropicTool, session
  <2>2. path \in OwnLoop
    BY <2>1 DEF OnItsPath
  <2>3. calls \in Nat /\ batch \in Nat /\ Limit \in Nat /\ MaxBatch \in Nat
    BY BoundsArePositive DEF RunTypes, Limit
  <2>4. TurnsFit'
    BY <2>1, <2>2, <2>3 DEF TurnsFit, Limit
  <2> QED
    BY <2>1, <2>2, <2>3, <2>4, NextOwn DEF Pcs
<1>3. ASSUME AfterOpenAITurn \/ AfterAnthropicTurn PROVE TurnInv'
  <2>1. /\ pc = "tools" /\ pc' \in {"final_send", "request"}
        /\ pc' = "request" => ~(calls >= maxTurns)
        /\ path' = path /\ maxTurns' = maxTurns /\ calls' = calls /\ batch' = batch /\ sdk' = sdk
    BY <1>3 DEF AfterOpenAITurn, AfterAnthropicTurn, AfterTurn, Goto, session
  <2>2. path \in OwnLoop
    BY <2>1 DEF OnItsPath
  <2>3. calls \in Nat /\ batch \in Nat /\ maxTurns \in Nat
    BY DEF RunTypes
  <2>4. TurnsFit'
    BY <2>1, <2>2, <2>3 DEF TurnsFit, Limit
  <2> QED
    BY <2>1, <2>2, <2>3, <2>4, NextOwn DEF Pcs
<1> QED
  BY <1>1, <1>2, <1>3

-----------------------------------------------------------------------------
(* The calls of the SDKs *)

LEMMA NextClaude ==
  ASSUME TurnInv, ClaudeToolUse
  PROVE  TurnInv'
<1> USE DEF TurnInv
<1>1. /\ pc = "stream" /\ pc' = pc /\ calls' = calls + 1
      /\ path' = path /\ maxTurns' = maxTurns /\ batch' = batch /\ sdk' = sdk
  BY DEF ClaudeToolUse, session
<1>2. path = "claude" /\ path # "copilot" /\ path \notin OwnLoop
  BY <1>1 DEF OnItsPath, OwnLoop
<1>3. RunTypes' /\ OnItsPath' /\ TurnsFit'
  BY <1>1, <1>2 DEF RunTypes, OnItsPath, TurnsFit
<1>4. ApprovalsCount'
  BY <1>1, <1>2 DEF ApprovalsCount
<1> QED
  BY <1>3, <1>4

\* A step of the SDK's call k.
LEMMA NextSdkCall ==
  ASSUME TurnInv, Live, NEW k \in SdkIds,
         sdk' \in [SdkIds -> SdkCall], \A j \in SdkIds \ {k} : sdk'[j] = sdk[j],
         sdk'[k].fate # "new", sdk'[k].fate = "run" => "hook" \in sdk'[k].asked,
         UNCHANGED <<pc, path, maxTurns, batch>>, calls' \in Nat,
         calls' = Cardinality(Hooked') + Cardinality(Permitted'),
         Cardinality(Allowed') <= maxTurns,
         Denied' # {} => calls' > maxTurns
  PROVE  TurnInv'
<1> USE DEF TurnInv
<1>1. path = "copilot" /\ pc \in {"wait", "clear_halt", "abort"} /\ path \notin OwnLoop
  BY DEF Live, OwnLoop
<1>2. RunTypes' /\ OnItsPath' /\ TurnsFit'
  BY <1>1 DEF RunTypes, OnItsPath, TurnsFit
<1>3. ApprovalsCount'
  BY DEF ApprovalsCount
<1> QED
  BY <1>2, <1>3

\* A call that is opened, or runs, is counted as before.
LEMMA NextUncounted ==
  ASSUME TurnInv, NEW k \in SdkIds, OpenCall(k) \/ RunCall(k)
  PROVE  TurnInv'
<1> USE DEF TurnInv
<1>1. /\ Live /\ path = "copilot" /\ calls' = calls /\ calls \in Nat
      /\ pc' = pc /\ path' = path /\ maxTurns' = maxTurns /\ batch' = batch
  BY DEF OpenCall, RunCall, Live, loop, RunTypes
<1>2. sdk \in [SdkIds -> SdkCall] /\ sdk[k] \in SdkCall
  BY DEF RunTypes
<1>3. PICK c \in SdkCall :
        /\ sdk' = [sdk EXCEPT ![k] = c] /\ sdk[k].fate # "denied"
        /\ c.asked = sdk[k].asked /\ c.fate \in {"open", "run"}
        /\ c.fate = "run" => "hook" \in c.asked
  <2>1. CASE OpenCall(k)
    <3>1. PICK counted \in BOOLEAN :
            sdk' = [sdk EXCEPT ![k].fate = "open", ![k].counted = counted]
      BY <2>1 DEF OpenCall
    <3>2. sdk[k].fate = "new"
      BY <2>1 DEF OpenCall
    <3> DEFINE c == [sdk[k] EXCEPT !.fate = "open", !.counted = counted]
    <3>3. sdk' = [sdk EXCEPT ![k] = c]
      BY <1>2, <3>1
    <3>4. c \in SdkCall /\ c.asked = sdk[k].asked /\ c.fate = "open"
      BY <1>2 DEF SdkCall
    <3> HIDE DEF c
    <3> QED
      BY <3>2, <3>3, <3>4
  <2>2. CASE RunCall(k)
    <3>1. sdk[k].fate = "open" /\ "hook" \in sdk[k].asked
      BY <2>2 DEF RunCall
    <3> DEFINE c == [sdk[k] EXCEPT !.fate = "run"]
    <3>2. sdk' = [sdk EXCEPT ![k] = c]
      BY <1>2, <2>2 DEF RunCall
    <3>3. c \in SdkCall /\ c.asked = sdk[k].asked /\ c.fate = "run"
      BY <1>2 DEF SdkCall
    <3> HIDE DEF c
    <3> QED
      BY <3>1, <3>2, <3>3
  <2> QED
    BY <2>1, <2>2
<1>4. sdk' \in [SdkIds -> SdkCall] /\ \A j \in SdkIds : sdk'[j] = IF j = k THEN c ELSE sdk[j]
  BY <1>2, <1>3
<1>5. Hooked' = Hooked /\ Permitted' = Permitted /\ Allowed' = Allowed /\ Denied' = Denied
  BY <1>3, <1>4 DEF Hooked, Permitted, Allowed, Denied
<1> QED
  BY <1>1, <1>3, <1>4, <1>5, NextSdkCall DEF ApprovalsCount

\* Either approval is counted, and denied beyond the limit.
LEMMA NextApproval ==
  ASSUME TurnInv, NEW k \in SdkIds, NEW which \in {"permission", "hook"}, Ask(k, which)
  PROVE  TurnInv'
<1> USE DEF TurnInv
<1> DEFINE fate == IF calls' > maxTurns THEN "denied" ELSE "open"
           c == [sdk[k] EXCEPT !.asked = sdk[k].asked \cup {which}, !.fate = fate]
<1>1. /\ Live /\ path = "copilot" /\ which \notin sdk[k].asked /\ sdk[k].fate = "open"
      /\ pc' = pc /\ path' = path /\ maxTurns' = maxTurns /\ batch' = batch
      /\ calls' = calls + 1 /\ calls \in Nat /\ maxTurns \in Nat
  BY DEF Ask, Live, RunTypes
<1>2. sdk[k] \in SdkCall
  BY DEF RunTypes
<1>3. sdk' = [sdk EXCEPT ![k] = c]
  BY <1>1, <1>2 DEF Ask, RunTypes
<1>4. /\ c \in SdkCall /\ c.asked = sdk[k].asked \cup {which}
      /\ c.fate = IF calls' > maxTurns THEN "denied" ELSE "open"
  <2>1. PICK asked \in SUBSET {"permission", "hook"} : asked = sdk[k].asked \cup {which}
    BY <1>2 DEF SdkCall
  <2>2. PICK f \in {"denied", "open"} : f = IF calls' > maxTurns THEN "denied" ELSE "open"
    OBVIOUS
  <2> DEFINE d == [sdk[k] EXCEPT !.asked = asked, !.fate = f]
  <2>3. d \in SdkCall /\ d.asked = asked /\ d.fate = f
    BY <1>2 DEF SdkCall
  <2>4. d = c
    BY <2>1, <2>2
  <2> QED
    BY <2>1, <2>2, <2>3, <2>4
<1> HIDE DEF c
<1>5. \A j \in SdkIds : sdk'[j] = IF j = k THEN c ELSE sdk[j]
  BY <1>3 DEF RunTypes
<1>6. Hooked \subseteq SdkIds /\ Permitted \subseteq SdkIds /\ Allowed' \subseteq Hooked'
      /\ Hooked' \subseteq SdkIds /\ Allowed \subseteq SdkIds /\ Permitted' \subseteq SdkIds
  BY DEF Hooked, Permitted, Allowed
<1>7. calls' = Cardinality(Hooked') + Cardinality(Permitted')
  <2>1. CASE which = "hook"
    <3>1. k \notin Hooked /\ Hooked' = Hooked \cup {k} /\ Permitted' = Permitted
      BY <1>1, <1>4, <1>5, <2>1 DEF Hooked, Permitted
    <3> QED
      BY <1>1, <1>6, <3>1, OneMoreCall, SdkCallsAreFinite DEF ApprovalsCount
  <2>2. CASE which = "permission"
    <3>1. k \notin Permitted /\ Permitted' = Permitted \cup {k} /\ Hooked' = Hooked
      BY <1>1, <1>4, <1>5, <2>2 DEF Hooked, Permitted
    <3> QED
      BY <1>1, <1>6, <3>1, OneMoreCall, SdkCallsAreFinite DEF ApprovalsCount
  <2> QED
    BY <2>1, <2>2
<1>8. Cardinality(Allowed') <= maxTurns
  <2>1. CASE calls' > maxTurns
    <3>1. Allowed' \subseteq Allowed
      BY <1>4, <1>5, <2>1 DEF Allowed, Hooked
    <3>2. Cardinality(Allowed) <= maxTurns
      BY <1>1 DEF ApprovalsCount
    <3> QED
      BY <1>1, <1>6, <3>1, <3>2, FewerCalls, SdkCallsAreFinite
  <2>2. CASE calls' <= maxTurns
    <3>1. Cardinality(Allowed') <= Cardinality(Hooked')
      BY <1>6, FewerCalls
    <3>2. /\ Cardinality(Hooked') \in Nat /\ Cardinality(Permitted') \in Nat
          /\ Cardinality(Allowed') \in Nat
      BY <1>6, SdkCallsAreFinite
    <3> QED
      BY <1>1, <1>7, <2>2, <3>1, <3>2
  <2> QED
    BY <1>1, <2>1, <2>2
<1>9. Denied' # {} => calls' > maxTurns
  <2>1. SUFFICES ASSUME Denied' # {}, ~(calls' > maxTurns) PROVE FALSE
    OBVIOUS
  <2>2. Denied' = Denied
    BY <1>1, <1>4, <1>5, <2>1 DEF Denied
  <2> QED
    BY <1>1, <2>1, <2>2 DEF ApprovalsCount
<1>10. sdk' \in [SdkIds -> SdkCall] /\ calls' \in Nat
  BY <1>1, <1>3, <1>4 DEF RunTypes
<1> QED
  BY <1>1, <1>4, <1>5, <1>7, <1>8, <1>9, <1>10, NextSdkCall

-----------------------------------------------------------------------------
(* The theorem *)

LEMMA NextTurns == TurnInv /\ [RunNext]_<<vars, setup>> => TurnInv'
<1> SUFFICES ASSUME TurnInv, [RunNext]_<<vars, setup>> PROVE TurnInv'
  OBVIOUS
<1>1. CASE UNCHANGED <<vars, setup>>
  <2>1. /\ pc' = pc /\ path' = path /\ maxTurns' = maxTurns /\ calls' = calls
        /\ batch' = batch /\ sdk' = sdk
    BY <1>1 DEF vars
  <2>2. RunTypes' /\ OnItsPath'
    BY <2>1 DEF TurnInv, RunTypes, OnItsPath
  <2>3. TurnsFit' /\ ApprovalsCount'
    BY <2>1 DEF TurnInv, TurnsFit, Limit, ApprovalsCount, Hooked, Permitted, Allowed, Denied
  <2> QED
    BY <2>2, <2>3 DEF TurnInv
<1>2. CASE Route
  <2>1. ResolvedPath(setup) \in Paths
    BY DEF ResolvedPath, Paths
  <2> QED
    BY <1>2, <2>1, NextStart DEF Route
<1>3. CASE pc # "idle" /\ LoopSteps
  <2>1. CASE EngineSteps
    BY <2>1, EngineIsQuiet, NextQuiet, NextTurn DEF EngineSteps, OwnSteps
  <2>2. CASE ProviderSteps
    BY <1>3, <2>2, EnvironmentIsQuiet, NextQuiet, NextTurn DEF ProviderSteps
  <2>3. CASE SdkSteps
    BY <1>3, <2>3, EnvironmentIsQuiet, NextQuiet, NextClaude, NextUncounted, NextApproval
       DEF SdkSteps, AskPermission, AskHook
  <2>4. CASE Deadline \/ Raise \/ RaiseAgain \/ SetHalt \/ HaltExpires
    BY <1>3, <2>4, EnvironmentIsQuiet, NextQuiet
  <2> QED
    BY <1>3, <2>1, <2>2, <2>3, <2>4 DEF LoopSteps
<1> QED
  BY <1>1, <1>2, <1>3 DEF RunNext

\* A run keeps max_turns as TurnLimitIsKept says, whatever the limit, however many
\* calls an answer holds, and in whichever order the SDK asks for its approvals.
THEOREM TurnLimitHolds == RunSpec => []TurnLimitIsKept
<1>1. TurnInv => TurnLimitIsKept
  <2> SUFFICES ASSUME TurnInv PROVE TurnLimitIsKept
    OBVIOUS
  <2> USE DEF TurnInv
  <2>1. /\ Ran \subseteq Allowed /\ Hooked \subseteq Opened /\ Permitted \subseteq Opened
        /\ Allowed \subseteq SdkIds /\ Opened \subseteq SdkIds
    BY DEF Ran, Allowed, Hooked, Permitted, Opened, ApprovalsCount
  <2>2. /\ Cardinality(Ran) <= Cardinality(Allowed)
        /\ Cardinality(Hooked) <= Cardinality(Opened)
        /\ Cardinality(Permitted) <= Cardinality(Opened)
    BY <2>1, FewerCalls
  <2>3. /\ Cardinality(Ran) \in Nat /\ Cardinality(Allowed) \in Nat /\ Cardinality(Hooked) \in Nat
        /\ Cardinality(Permitted) \in Nat /\ Cardinality(Opened) \in Nat /\ maxTurns \in Nat
    BY <2>1, SdkCallsAreFinite DEF RunTypes
  <2>4. path = "copilot" => Cardinality(Ran) <= maxTurns
    BY <2>2, <2>3 DEF ApprovalsCount
  <2>5. path \in OwnLoop => calls < MaxBatch + (IF maxTurns = 0 THEN 1 ELSE maxTurns)
    BY DEF TurnsFit, Limit
  <2>6. Denied # {} => path = "copilot"
    BY DEF OnItsPath, Denied, NewSdkCall
  <2>7. Denied # {} => 2 * Cardinality(Opened) > maxTurns
    BY <2>2, <2>3, <2>6 DEF ApprovalsCount
  <2> QED
    BY <2>4, <2>5, <2>7 DEF TurnLimitIsKept
<1> QED
  BY <1>1, InitTurns, NextTurns, PTL DEF RunSpec

-----------------------------------------------------------------------------
(* Conversations *)

\* Every tool call in ms is answered behind it.
Paired(ms) == \A i \in DOMAIN ms : ms[i].kind = "call" => AnsweredAt(ms, i)

\* A result behind its call, with nothing but results between; and one that has
\* lost it, behind the note.
Follows(ms, i) ==
  \E j \in 1..(i - 1) :
    /\ ms[j].kind = "call" /\ ms[i].ids \subseteq ms[j].ids
    /\ \A m \in (j + 1)..i : ms[m].kind = "result"
Orphan(ms, i) == i > 3 /\ ms[3] = Note /\ \A j \in 3..i : ms[j].kind # "call"

Traced(p, ms) == \A i \in ResultsAt(ms) : Follows(ms, i) \/ (p = "openai" /\ Orphan(ms, i))

\* The newest results are whole.
Later(ms, i) == {j \in ResultsAt(ms) : j > i}
Whole(ms) == \A i \in ResultsAt(ms) : ms[i].cleared => Cardinality(Later(ms, i)) >= KeepRecentResults

Begins(p, ms) ==
  Len(ms) >= Len(FirstMessages(p)) /\ \A i \in DOMAIN FirstMessages(p) : ms[i] = FirstMessages(p)[i]

NoNudge(ms) == \A i \in DOMAIN ms : ms[i].kind # "nudge"

\* new goes on from i as ms goes on from i + d, but for what was cleared.
SameFrom(ms, new, d, i) ==
  /\ Len(new) = Len(ms) - d
  /\ \A m \in i..Len(new) : new[m].kind = ms[m + d].kind /\ new[m].ids = ms[m + d].ids

LEMMA MessagesAre ==
  /\ System \in Message /\ Note \in Message /\ Prompt \in Message /\ Nudge \in Message
  /\ System.kind = "system" /\ Note.kind = "note" /\ Prompt.kind = "prompt" /\ Nudge.kind = "nudge"
  /\ ~System.cleared /\ ~Note.cleared /\ ~Prompt.cleared /\ ~Nudge.cleared
BY DEF System, Note, Prompt, Nudge, Msg, Message, Kinds

LEMMA LaterAreFinite ==
  ASSUME NEW ms \in Seq(Message), NEW i \in Nat
  PROVE  IsFiniteSet(Later(ms, i)) /\ Cardinality(Later(ms, i)) \in Nat
<1>1. Later(ms, i) \subseteq 1..Len(ms)
  BY DEF Later, ResultsAt
<1>2. IsFiniteSet(1..Len(ms))
  BY FS_Interval
<1> QED
  BY <1>1, <1>2, FS_Subset, FS_CardinalityType

\* There are no fewer results behind i than there were.
LEMMA NoFewerLater ==
  ASSUME NEW ms \in Seq(Message), NEW new \in Seq(Message), NEW d \in Nat, NEW i \in DOMAIN new,
         SameFrom(ms, new, d, i)
  PROVE  Cardinality(Later(new, i)) >= Cardinality(Later(ms, i + d))
<1>0. /\ i \in Nat /\ i + d \in Nat /\ Len(new) \in Nat /\ Len(ms) \in Nat /\ Len(new) = Len(ms) - d
      /\ DOMAIN new = 1..Len(new) /\ DOMAIN ms = 1..Len(ms) /\ 1 <= i /\ i <= Len(new)
  BY DEF SameFrom
<1> DEFINE f == [m \in Later(new, i) |-> m + d]
<1>1. \A m \in Later(new, i) : m \in i..Len(new) /\ m > i /\ new[m].kind = "result"
  BY DEF Later, ResultsAt
<1>2. ASSUME NEW m \in Later(new, i) PROVE m + d \in Later(ms, i + d)
  <2>1. m + d \in DOMAIN ms /\ m + d > i + d
    BY <1>0, <1>1
  <2>2. ms[m + d].kind = "result"
    BY <1>1 DEF SameFrom
  <2> QED
    BY <2>1, <2>2 DEF Later, ResultsAt
<1>3. ASSUME NEW k \in Later(ms, i + d) PROVE k - d \in Later(new, i)
  <2>1. k \in 1..Len(ms) /\ k > i + d /\ ms[k].kind = "result"
    BY DEF Later, ResultsAt
  <2>2. k - d \in i..Len(new) /\ k - d > i /\ (k - d) + d = k
    BY <1>0, <2>1
  <2>3. new[k - d].kind = "result" /\ k - d \in DOMAIN new
    BY <1>0, <2>1, <2>2 DEF SameFrom
  <2> QED
    BY <2>2, <2>3 DEF Later, ResultsAt
<1>4. f \in Surjection(Later(new, i), Later(ms, i + d))
  <2>1. f \in [Later(new, i) -> Later(ms, i + d)]
    BY <1>2
  <2>2. ASSUME NEW k \in Later(ms, i + d) PROVE \E m \in Later(new, i) : f[m] = k
    <3>1. k \in Int /\ k - d \in Later(new, i)
      BY <1>3 DEF Later, ResultsAt
    <3> QED
      BY <3>1
  <2> QED
    BY <2>1, <2>2 DEF Surjection
<1>5. IsFiniteSet(Later(new, i)) /\ Cardinality(Later(new, i)) \in Nat
  BY <1>0, LaterAreFinite
<1>6. Cardinality(Later(ms, i + d)) \in Nat
  BY <1>0, LaterAreFinite
<1>7. Cardinality(Later(ms, i + d)) <= Cardinality(Later(new, i))
  BY <1>4, <1>5, FS_Surjection
<1> QED
  BY <1>5, <1>6, <1>7

LEMMA StillAnswered ==
  ASSUME NEW ms \in Seq(Message), NEW new \in Seq(Message), NEW d \in Nat, NEW i \in DOMAIN new,
         SameFrom(ms, new, d, i), AnsweredAt(ms, i + d)
  PROVE  AnsweredAt(new, i)
<1>0. /\ i \in Nat /\ i + d \in Nat /\ Len(new) \in Nat /\ Len(ms) \in Nat /\ Len(new) = Len(ms) - d
      /\ DOMAIN new = 1..Len(new) /\ DOMAIN ms = 1..Len(ms) /\ 1 <= i /\ i <= Len(new)
  BY DEF SameFrom
<1>1. PICK j \in (i + d)..Len(ms) :
         /\ \A m \in (i + d + 1)..j : ms[m].kind = "result"
         /\ UNION {ms[m].ids : m \in (i + d + 1)..j} = ms[i + d].ids
  BY DEF AnsweredAt
<1>2. j \in Int /\ j - d \in i..Len(new) /\ i \in i..Len(new) /\ (j - d) \in Int
  BY <1>0
<1>3. ASSUME NEW m \in (i + 1)..(j - d)
      PROVE  m + d \in (i + d + 1)..j /\ new[m].ids = ms[m + d].ids /\ new[m].kind = "result"
  <2>1. m + d \in (i + d + 1)..j /\ m \in i..Len(new)
    BY <1>0, <1>2
  <2>2. new[m].kind = ms[m + d].kind /\ new[m].ids = ms[m + d].ids
    BY <2>1 DEF SameFrom
  <2> QED
    BY <2>1, <2>2, <1>1
<1>4. {new[m].ids : m \in (i + 1)..(j - d)} = {ms[m].ids : m \in (i + d + 1)..j}
  <2>1. ASSUME NEW m \in (i + d + 1)..j
        PROVE  m - d \in (i + 1)..(j - d) /\ new[m - d].ids = ms[m].ids
    <3>1. m - d \in (i + 1)..(j - d) /\ (m - d) + d = m
      BY <1>0, <1>2
    <3> QED
      BY <3>1, <1>3
  <2> DEFINE A == {new[m].ids : m \in (i + 1)..(j - d)}
             B == {ms[m].ids : m \in (i + d + 1)..j}
  <2>2. ASSUME NEW x \in A PROVE x \in B
    <3>1. PICK m \in (i + 1)..(j - d) : x = new[m].ids
      OBVIOUS
    <3>2. m + d \in (i + d + 1)..j /\ x = ms[m + d].ids
      BY <3>1, <1>3
    <3> QED
      BY <3>2
  <2>3. ASSUME NEW x \in B PROVE x \in A
    <3>1. PICK m \in (i + d + 1)..j : x = ms[m].ids
      OBVIOUS
    <3>2. m - d \in (i + 1)..(j - d) /\ x = new[m - d].ids
      BY <3>1, <2>1
    <3> QED
      BY <3>2
  <2> QED
    BY <2>2, <2>3
<1>5. new[i].ids = ms[i + d].ids
  BY <1>2 DEF SameFrom
<1> QED
  BY <1>1, <1>2, <1>3, <1>4, <1>5 DEF AnsweredAt

\* A result that is kept is behind its call, or behind the note.
LEMMA StillTraced ==
  ASSUME NEW ms \in Seq(Message), NEW new \in Seq(Message), NEW d \in Nat, NEW i \in DOMAIN new,
         i >= 4, SameFrom(ms, new, d, 4), new[3] = Note, new[i].kind = "result",
         Follows(ms, i + d) \/ Orphan(ms, i + d)
  PROVE  Follows(new, i) \/ Orphan(new, i)
<1>0. i \in 4..Len(new) /\ new[3].kind # "call" /\ \A m \in 4..i : new[m].kind = ms[m + d].kind
  BY MessagesAre DEF SameFrom
<1>1. CASE Follows(ms, i + d)
  <2>1. PICK j \in 1..(i + d - 1) :
           /\ ms[j].kind = "call" /\ ms[i + d].ids \subseteq ms[j].ids
           /\ \A m \in (j + 1)..(i + d) : ms[m].kind = "result"
    BY <1>1 DEF Follows
  <2>2. CASE j >= 4 + d
    <3>1. j - d \in 4..(i - 1) /\ (j - d) + d = j /\ j - d \in 1..(i - 1) /\ j - d \in 4..Len(new)
      BY <2>2, <1>0
    <3>2. /\ new[j - d].kind = ms[j].kind /\ new[j - d].ids = ms[j].ids /\ new[i].ids = ms[i + d].ids
      BY <3>1, <1>0 DEF SameFrom
    <3>3. ASSUME NEW m \in ((j - d) + 1)..i PROVE new[m].kind = "result"
      <4>1. m + d \in (j + 1)..(i + d) /\ m \in 4..i
        BY <3>1
      <4> QED
        BY <4>1, <2>1, <1>0
    <3> QED
      BY <2>1, <3>1, <3>2, <3>3 DEF Follows
  <2>3. CASE j < 4 + d
    <3>1. ASSUME NEW m \in 4..i PROVE new[m].kind # "call"
      <4>1. m + d \in (j + 1)..(i + d)
        BY <2>3
      <4> QED
        BY <4>1, <2>1, <1>0
    <3>2. \A m \in 3..i : m = 3 \/ m \in 4..i
      OBVIOUS
    <3> QED
      BY <3>1, <3>2, <1>0 DEF Orphan
  <2> QED
    BY <2>2, <2>3
<1>2. CASE Orphan(ms, i + d)
  <2>1. ASSUME NEW m \in 4..i PROVE new[m].kind # "call"
    <3>1. m + d \in 3..(i + d)
      OBVIOUS
    <3> QED
      BY <3>1, <1>2, <1>0 DEF Orphan
  <2>2. \A m \in 3..i : m = 3 \/ m \in 4..i
    OBVIOUS
  <2> QED
    BY <2>1, <2>2, <1>0 DEF Orphan
<1> QED
  BY <1>1, <1>2

LEMMA ClearsOld ==
  ASSUME NEW ms \in Seq(Message)
  PROVE  /\ ClearOldResults(ms) \in Seq(Message) /\ Len(ClearOldResults(ms)) = Len(ms)
         /\ \A i \in DOMAIN ms :
              /\ ClearOldResults(ms)[i].kind = ms[i].kind /\ ClearOldResults(ms)[i].ids = ms[i].ids
              /\ ms[i].kind # "result" => ClearOldResults(ms)[i] = ms[i]
              /\ ClearOldResults(ms)[i].cleared =>
                   ms[i].cleared \/ Cardinality(Later(ms, i)) >= KeepRecentResults
<1> DEFINE old(i) == i \in ResultsAt(ms) /\ Cardinality(Later(ms, i)) >= KeepRecentResults
           e(i) == IF old(i) THEN [ms[i] EXCEPT !.cleared = TRUE] ELSE ms[i]
<1>1. ClearOldResults(ms) = [i \in DOMAIN ms |-> e(i)]
  BY DEF ClearOldResults, Later
<1>2. ASSUME NEW i \in DOMAIN ms
      PROVE  /\ e(i) \in Message /\ e(i).kind = ms[i].kind /\ e(i).ids = ms[i].ids
             /\ ms[i].kind # "result" => e(i) = ms[i]
             /\ e(i).cleared => ms[i].cleared \/ old(i)
  <2>1. ms[i] \in Message
    OBVIOUS
  <2>2. /\ [ms[i] EXCEPT !.cleared = TRUE] \in Message
        /\ [ms[i] EXCEPT !.cleared = TRUE].kind = ms[i].kind
        /\ [ms[i] EXCEPT !.cleared = TRUE].ids = ms[i].ids
    BY <2>1 DEF Message
  <2>3. CASE old(i)
    <3>1. ms[i].kind = "result" /\ e(i) = [ms[i] EXCEPT !.cleared = TRUE]
      BY <2>3 DEF ResultsAt
    <3> QED
      BY <2>2, <2>3, <3>1
  <2>4. CASE ~old(i)
    <3>1. e(i) = ms[i]
      BY <2>4
    <3> QED
      BY <2>1, <3>1
  <2> QED
    BY <2>3, <2>4
<1>3. \A i \in DOMAIN ms : old(i) => Cardinality(Later(ms, i)) >= KeepRecentResults
  OBVIOUS
<1> HIDE DEF e, old
<1>4. ClearOldResults(ms) \in Seq(Message) /\ Len(ClearOldResults(ms)) = Len(ms)
  BY <1>1, <1>2
<1>5. \A i \in DOMAIN ms : ClearOldResults(ms)[i] = e(i)
  BY <1>1
<1> QED
  BY <1>2, <1>3, <1>4, <1>5

\* What was compacted: the first two messages, then all, or the note and the last.
CompactedTo(ms, new, d, lo) ==
  /\ new \in Seq(Message) /\ Len(new) >= 2 /\ SameFrom(ms, new, d, lo)
  /\ \A i \in 1..2 : /\ new[i].kind = ms[i].kind
                     /\ ms[i].kind # "result" => new[i] = ms[i]
  /\ lo = 1 => d = 0
  /\ lo = 4 => Len(new) >= 3 /\ new[3] = Note
  /\ \A i \in lo..Len(new) :
       /\ ms[i + d].kind # "result" => new[i] = ms[i + d]
       /\ new[i].cleared => ms[i + d].cleared \/ Cardinality(Later(ms, i + d)) >= KeepRecentResults

LEMMA Concatenated ==
  ASSUME NEW S, NEW s \in Seq(S), NEW q \in Seq(S)
  PROVE  /\ s \o q \in Seq(S) /\ Len(s \o q) = Len(s) + Len(q)
         /\ \A i \in 1..Len(s) : (s \o q)[i] = s[i]
         /\ \A i \in 1..Len(q) : (s \o q)[Len(s) + i] = q[i]
OBVIOUS

LEMMA TailOf ==
  ASSUME NEW S, NEW s \in Seq(S), Len(s) >= 1
  PROVE  /\ Tail(s) \in Seq(S) /\ Len(Tail(s)) = Len(s) - 1
         /\ \A i \in 1..(Len(s) - 1) : Tail(s)[i] = s[i + 1]
OBVIOUS

LEMMA CompactShape ==
  ASSUME NEW ms \in Seq(Message), Len(ms) >= 2
  PROVE  \E d \in Nat, lo \in {1, 4} : CompactedTo(ms, Compact(ms), d, lo)
<1> DEFINE cleared == ClearOldResults(ms)
           T == TailStart(ms)
           tail == SubSeq(cleared, T, Len(ms))
           head == <<cleared[1], cleared[2], Note>>
<1>1. /\ cleared \in Seq(Message) /\ Len(cleared) = Len(ms) /\ Len(ms) \in Nat
      /\ DOMAIN cleared = 1..Len(ms) /\ DOMAIN ms = 1..Len(ms)
      /\ \A i \in 1..Len(ms) :
           /\ cleared[i].kind = ms[i].kind /\ cleared[i].ids = ms[i].ids
           /\ ms[i].kind # "result" => cleared[i] = ms[i]
           /\ cleared[i].cleared => ms[i].cleared \/ Cardinality(Later(ms, i)) >= KeepRecentResults
  BY ClearsOld
<1> HIDE DEF cleared
<1>2. T \in 3..(Len(ms) + 1)
  BY SettingsAreNaturals, <1>1 DEF TailStart
<1>3. CASE Len(ms) <= CompactFloor
  <2>1. Compact(ms) = ms
    BY <1>3 DEF Compact
  <2>2. CompactedTo(ms, ms, 0, 1)
    BY <1>1 DEF CompactedTo, SameFrom
  <2> QED
    BY <2>1, <2>2
<1>4. CASE ~(Len(ms) <= CompactFloor) /\ T = 3
  <2>1. Compact(ms) = cleared
    BY <1>4 DEF Compact, cleared
  <2>2. SameFrom(ms, cleared, 0, 1)
    BY <1>1 DEF SameFrom
  <2>3. \A i \in 1..2 : /\ cleared[i].kind = ms[i].kind
                        /\ ms[i].kind # "result" => cleared[i] = ms[i]
    BY <1>1
  <2>4. \A i \in 1..Len(cleared) :
          /\ ms[i + 0].kind # "result" => cleared[i] = ms[i + 0]
          /\ cleared[i].cleared => ms[i + 0].cleared \/ Cardinality(Later(ms, i + 0)) >= KeepRecentResults
    BY <1>1
  <2>5. CompactedTo(ms, cleared, 0, 1)
    BY <1>1, <2>2, <2>3, <2>4 DEF CompactedTo
  <2> QED
    BY <2>1, <2>5
<1>5. CASE ~(Len(ms) <= CompactFloor) /\ T # 3
  <2> DEFINE new == head \o tail
             d == T - 4
  <2>1. Compact(ms) = new
    BY <1>5 DEF Compact, cleared
  <2>2. T \in Nat /\ d \in Nat /\ T >= 4 /\ T <= Len(ms) + 1
    BY <1>2, <1>5
  <2> HIDE DEF T
  <2>3. /\ head \in Seq(Message) /\ Len(head) = 3
        /\ head[1] = cleared[1] /\ head[2] = cleared[2] /\ head[3] = Note
    <3>1. cleared[1] \in Message /\ cleared[2] \in Message
      BY <1>1
    <3> QED
      BY <3>1, MessagesAre
  <2>4. /\ tail \in Seq(Message) /\ Len(tail) = Len(ms) - T + 1
        /\ \A i \in 1..(Len(ms) - T + 1) : tail[i] = cleared[T + i - 1]
    BY <1>1, <2>2
  <2> HIDE DEF head, tail
  <2>a. head \in Seq(Message) /\ tail \in Seq(Message)
    BY <2>3, <2>4
  <2>5. /\ new \in Seq(Message) /\ Len(new) = 3 + (Len(ms) - T + 1)
        /\ \A i \in 1..3 : new[i] = head[i]
        /\ \A i \in 4..Len(new) : new[i] = tail[i - 3]
    <3>1. /\ new \in Seq(Message) /\ Len(new) = 3 + Len(tail)
          /\ \A i \in 1..3 : new[i] = head[i]
          /\ \A i \in 1..Len(tail) : new[3 + i] = tail[i]
      <4>1. /\ new \in Seq(Message) /\ Len(new) = Len(head) + Len(tail)
            /\ \A i \in 1..Len(head) : new[i] = head[i]
            /\ \A i \in 1..Len(tail) : new[Len(head) + i] = tail[i]
        BY ONLY <2>a, Concatenated
      <4> HIDE DEF new
      <4> QED
        BY <4>1, <2>3
    <3> HIDE DEF new
    <3>2. ASSUME NEW i \in 4..Len(new) PROVE new[i] = tail[i - 3]
      <4>1. i - 3 \in 1..Len(tail) /\ 3 + (i - 3) = i
        BY <2>2, <2>4, <3>1, <1>1
      <4> QED
        BY <3>1, <4>1
    <3> QED
      BY <2>4, <3>1, <3>2
  <2>6. Len(new) = Len(ms) - d /\ Len(new) >= 3
    BY <1>1, <2>2, <2>5
  <2>7. ASSUME NEW i \in 4..Len(new) PROVE i + d \in 1..Len(ms) /\ new[i] = cleared[i + d]
    <3>1. i - 3 \in 1..(Len(ms) - T + 1) /\ T + (i - 3) - 1 = i + d /\ i + d \in 1..Len(ms)
      BY <1>1, <2>2, <2>6
    <3> QED
      BY <3>1, <2>4, <2>5
  <2> HIDE DEF new, d
  <2>8. SameFrom(ms, new, d, 4)
    BY <1>1, <2>6, <2>7 DEF SameFrom
  <2>9. \A i \in 1..2 : /\ new[i].kind = ms[i].kind
                        /\ ms[i].kind # "result" => new[i] = ms[i]
    BY <1>1, <2>3, <2>5
  <2>10. \A i \in 4..Len(new) :
           /\ ms[i + d].kind # "result" => new[i] = ms[i + d]
           /\ new[i].cleared => ms[i + d].cleared \/ Cardinality(Later(ms, i + d)) >= KeepRecentResults
    BY <1>1, <2>7
  <2>11. CompactedTo(ms, new, d, 4)
    BY <2>3, <2>5, <2>6, <2>8, <2>9, <2>10 DEF CompactedTo
  <2>12. d \in Nat
    BY <2>2 DEF d
  <2> QED
    BY <2>1, <2>11, <2>12
<1> QED
  BY <1>3, <1>4, <1>5

\* What the OpenAI loop may count on once it has compacted its conversation.
LEMMA CompactKeeps ==
  ASSUME NEW ms \in Seq(Message), Begins("openai", ms), Paired(ms), Traced("openai", ms), Whole(ms),
         NoNudge(ms), NEW new, new = Compact(ms)
  PROVE  /\ new \in Seq(Message) /\ Begins("openai", new) /\ Paired(new) /\ Traced("openai", new)
         /\ Whole(new) /\ NoNudge(new)
<1>1. Len(ms) >= 2 /\ ms[1] = System /\ ms[2] = Prompt
  BY DEF Begins, FirstMessages
<1>2. PICK d \in Nat, lo \in {1, 4} : CompactedTo(ms, new, d, lo)
  BY <1>1, CompactShape
<1>3. /\ new \in Seq(Message) /\ Len(new) >= 2 /\ DOMAIN new = 1..Len(new) /\ DOMAIN ms = 1..Len(ms)
      /\ Len(new) = Len(ms) - d /\ Len(ms) \in Nat /\ Len(new) \in Nat
  BY <1>2 DEF CompactedTo, SameFrom
<1>4. new[1] = System /\ new[2] = Prompt
  <2>1. \A i \in 1..2 : ms[i].kind # "result" => new[i] = ms[i]
    BY <1>2 DEF CompactedTo
  <2>2. ms[1].kind # "result" /\ ms[2].kind # "result"
    BY <1>1, MessagesAre
  <2> QED
    BY <1>1, <2>1, <2>2
<1>5. Begins("openai", new)
  BY <1>3, <1>4 DEF Begins, FirstMessages
<1>6. ASSUME NEW i \in DOMAIN new
      PROVE  \/ i \in 1..2 /\ new[i].kind \in {"system", "prompt"}
             \/ i = 3 /\ lo = 4 /\ new[i].kind = "note"
             \/ i \in lo..Len(new)
  <2>1. i \in 1..2 \/ i = 3 \/ i \in 4..Len(new)
    BY <1>3
  <2>2. i \in 1..2 => new[i].kind \in {"system", "prompt"}
    BY <1>4, MessagesAre
  <2>3. i = 3 => (lo = 4 /\ new[i].kind = "note") \/ i \in lo..Len(new)
    <3>1. lo = 4 => new[3] = Note
      BY <1>2 DEF CompactedTo
    <3>2. lo = 1 => (i = 3 => i \in lo..Len(new))
      BY <1>3
    <3> QED
      BY <3>1, <3>2, MessagesAre
  <2>4. i \in 4..Len(new) => i \in lo..Len(new)
    BY <1>3
  <2> QED
    BY <2>1, <2>2, <2>3, <2>4
<1>7. ASSUME NEW i \in lo..Len(new)
      PROVE  /\ SameFrom(ms, new, d, i) /\ i \in DOMAIN new /\ i + d \in DOMAIN ms /\ i \in Nat
             /\ new[i].kind = ms[i + d].kind
             /\ new[i].cleared => ms[i + d].cleared \/ Cardinality(Later(ms, i + d)) >= KeepRecentResults
  <2>1. SameFrom(ms, new, d, lo)
    BY <1>2 DEF CompactedTo
  <2>2. \A m \in i..Len(new) : m \in lo..Len(new)
    BY <1>3
  <2>3. SameFrom(ms, new, d, i)
    BY <2>1, <2>2 DEF SameFrom
  <2>4. i \in DOMAIN new /\ i + d \in DOMAIN ms /\ i \in Nat
    BY <1>3
  <2>5. new[i].kind = ms[i + d].kind
    BY <2>1 DEF SameFrom
  <2>6. new[i].cleared => ms[i + d].cleared \/ Cardinality(Later(ms, i + d)) >= KeepRecentResults
    BY <1>2 DEF CompactedTo
  <2> QED
    BY <2>3, <2>4, <2>5, <2>6
<1>8. Paired(new)
  <2> SUFFICES ASSUME NEW i \in DOMAIN new, new[i].kind = "call" PROVE AnsweredAt(new, i)
    BY DEF Paired
  <2>1. i \in lo..Len(new)
    BY <1>6
  <2>2. ms[i + d].kind = "call" /\ i + d \in DOMAIN ms /\ SameFrom(ms, new, d, i)
    BY <2>1, <1>7
  <2>3. AnsweredAt(ms, i + d)
    BY <2>2 DEF Paired
  <2> QED
    BY <2>2, <2>3, <1>3, StillAnswered
<1>9. Whole(new)
  <2> SUFFICES ASSUME NEW i \in DOMAIN new, new[i].kind = "result", new[i].cleared
               PROVE  Cardinality(Later(new, i)) >= KeepRecentResults
    BY DEF Whole, ResultsAt
  <2>1. i \in lo..Len(new)
    BY <1>6
  <2>2. /\ SameFrom(ms, new, d, i) /\ i + d \in ResultsAt(ms) /\ i \in Nat /\ i + d \in Nat
        /\ ms[i + d].cleared \/ Cardinality(Later(ms, i + d)) >= KeepRecentResults
    BY <2>1, <1>7 DEF ResultsAt
  <2>3. Cardinality(Later(ms, i + d)) >= KeepRecentResults
    BY <2>2 DEF Whole
  <2>4. Cardinality(Later(new, i)) >= Cardinality(Later(ms, i + d))
    BY <2>2, <1>3, NoFewerLater
  <2>5. Cardinality(Later(new, i)) \in Nat /\ Cardinality(Later(ms, i + d)) \in Nat
    BY <2>2, <1>3, LaterAreFinite
  <2> QED
    BY <2>3, <2>4, <2>5, SettingsAreNaturals
<1>10. NoNudge(new)
  <2> SUFFICES ASSUME NEW i \in DOMAIN new PROVE new[i].kind # "nudge"
    BY DEF NoNudge
  <2>1. i \in lo..Len(new) => new[i].kind # "nudge"
    BY <1>7 DEF NoNudge
  <2> QED
    BY <2>1, <1>6
<1>11. Traced("openai", new)
  <2> SUFFICES ASSUME NEW i \in DOMAIN new, new[i].kind = "result"
               PROVE  Follows(new, i) \/ Orphan(new, i)
    BY DEF Traced, ResultsAt
  <2>1. i \in lo..Len(new)
    BY <1>6
  <2>2. i + d \in ResultsAt(ms) /\ SameFrom(ms, new, d, i)
    BY <2>1, <1>7 DEF ResultsAt
  <2>3. Follows(ms, i + d) \/ Orphan(ms, i + d)
    BY <2>2 DEF Traced
  <2>4. CASE lo = 4
    <3>1. SameFrom(ms, new, d, 4) /\ new[3] = Note /\ i >= 4
      BY <1>2, <2>1, <2>4 DEF CompactedTo
    <3> QED
      BY <3>1, <2>3, <1>3, StillTraced
  <2>5. CASE lo = 1
    <3>1. d = 0 /\ SameFrom(ms, new, 0, 1)
      BY <1>2, <2>5 DEF CompactedTo
    <3>2. \A m \in 1..Len(new) : new[m].kind = ms[m].kind /\ new[m].ids = ms[m].ids
      BY <3>1, <1>3 DEF SameFrom
    <3>3. i \in 1..Len(new) /\ i + d = i /\ i \in Nat
      BY <3>1, <1>3
    <3>4. CASE Follows(ms, i)
      <4>1. PICK j \in 1..(i - 1) : /\ ms[j].kind = "call" /\ ms[i].ids \subseteq ms[j].ids
                                    /\ \A m \in (j + 1)..i : ms[m].kind = "result"
        BY <3>4 DEF Follows
      <4>2. j \in 1..Len(new) /\ \A m \in (j + 1)..i : m \in 1..Len(new)
        BY <3>3
      <4> QED
        BY <4>1, <4>2, <3>2, <3>3 DEF Follows
    <3>5. CASE Orphan(ms, i)
      <4>1. i > 3 /\ ms[3] = Note /\ \A j \in 3..i : ms[j].kind # "call"
        BY <3>5 DEF Orphan
      <4>2. 3 \in 1..Len(new) /\ \A j \in 3..i : j \in 1..Len(new)
        BY <4>1, <3>3
      <4>4. new[3] = Note
        <5>1. 3 \in lo..Len(new) /\ 3 + d = 3 /\ ms[3 + d].kind # "result"
          BY <2>5, <3>1, <4>1, <4>2, MessagesAre
        <5>2. new[3] = ms[3 + d]
          BY <1>2, <5>1 DEF CompactedTo
        <5> QED
          BY <4>1, <5>1, <5>2
      <4> QED
        BY <4>1, <4>2, <4>4, <3>2 DEF Orphan
    <3> QED
      BY <2>3, <3>3, <3>4, <3>5
  <2> QED
    BY <2>4, <2>5
<1> QED
  BY <1>3, <1>5, <1>8, <1>9, <1>10, <1>11

\* What the Anthropic loop may count on: no call, result or note is left.
LEMMA CompactFlattens ==
  ASSUME NEW ms \in Seq(Message), Begins("anthropic", ms), NoNudge(ms),
         \A i \in DOMAIN ms : ms[i].kind # "note",
         NEW new, new = WithoutSystem(Compact(<<System>> \o Flatten(ms)))
  PROVE  /\ new \in Seq(Message) /\ Begins("anthropic", new) /\ NoNudge(new)
         /\ \A i \in DOMAIN new : new[i].kind \notin {"call", "result", "note"}
<1> DEFINE flat == Flatten(ms)
           q == <<System>> \o flat
           c == Compact(q)
<1>1. /\ Len(ms) \in Nat /\ Len(ms) >= 1 /\ DOMAIN ms = 1..Len(ms) /\ ms[1] = Prompt
      /\ \A i \in 1..Len(ms) : ms[i] \in Message /\ ms[i].kind \notin {"note", "nudge"}
  BY DEF Begins, FirstMessages, NoNudge
<1>2. Msg("flat", {}) \in Message /\ Msg("flat", {}).kind = "flat"
  BY DEF Msg, Message, Kinds
<1>3. /\ flat \in Seq(Message) /\ Len(flat) = Len(ms) /\ flat[1] = Prompt
      /\ \A i \in 1..Len(ms) : flat[i].kind \notin {"call", "result", "note", "nudge"}
  <2> DEFINE e(i) == IF ms[i].kind \in {"call", "result"} THEN Msg("flat", {}) ELSE ms[i]
  <2>1. flat = [i \in 1..Len(ms) |-> e(i)]
    BY <1>1 DEF Flatten
  <2>2. \A i \in 1..Len(ms) : e(i) \in Message /\ e(i).kind \notin {"call", "result", "note", "nudge"}
    BY <1>1, <1>2
  <2>3. e(1) = Prompt
    BY <1>1, MessagesAre
  <2> HIDE DEF e
  <2> HIDE DEF flat
  <2> QED
    BY <1>1, <2>1, <2>2, <2>3
<1> HIDE DEF flat
<1>4. /\ q \in Seq(Message) /\ Len(q) = Len(ms) + 1 /\ q[2] = Prompt
      /\ \A i \in 2..(Len(ms) + 1) : q[i].kind \notin {"call", "result", "note", "nudge"}
  <2>1. <<System>> \in Seq(Message) /\ Len(<<System>>) = 1
    BY MessagesAre
  <2>2. /\ q \in Seq(Message) /\ Len(q) = 1 + Len(ms)
        /\ \A i \in 1..Len(ms) : q[1 + i] = flat[i]
    BY <1>3, <2>1, Concatenated
  <2> HIDE DEF q
  <2>3. ASSUME NEW i \in 2..(Len(ms) + 1) PROVE q[i] = flat[i - 1] /\ i - 1 \in 1..Len(ms)
    <3>1. i - 1 \in 1..Len(ms) /\ 1 + (i - 1) = i
      BY <1>1
    <3> QED
      BY <2>2, <3>1
  <2>4. q[2] = Prompt
    BY <1>1, <1>3, <2>3
  <2> QED
    BY <1>1, <1>3, <2>2, <2>3, <2>4
<1> HIDE DEF q
<1>5. PICK d \in Nat, lo \in {1, 4} : CompactedTo(q, c, d, lo)
  BY <1>1, <1>4, CompactShape
<1>6. new = WithoutSystem(c)
  BY DEF c, q, flat
<1> HIDE DEF c
<1>7. /\ c \in Seq(Message) /\ Len(c) \in Nat /\ Len(c) >= 2 /\ Len(c) = Len(q) - d
      /\ \A i \in lo..Len(c) : c[i].kind = q[i + d].kind
      /\ c[2] = Prompt
      /\ lo = 1 => d = 0
      /\ lo = 4 => Len(c) >= 3 /\ c[3] = Note
  BY <1>4, <1>5, MessagesAre DEF CompactedTo, SameFrom
<1>8. ASSUME NEW i \in lo..Len(c), i >= 2 PROVE c[i].kind \notin {"call", "result", "note", "nudge"}
  <2>1. i + d \in 2..(Len(ms) + 1)
    BY <1>1, <1>4, <1>7, <1>8
  <2> QED
    BY <1>4, <1>7, <2>1
<1>9. CASE lo = 4
  <2> DEFINE tail == SubSeq(c, 4, Len(c))
  <2>1. new = <<c[2]>> \o tail
    BY <1>6, <1>7, <1>9 DEF WithoutSystem
  <2>2. /\ tail \in Seq(Message) /\ Len(tail) = Len(c) - 3 /\ Len(tail) \in Nat
        /\ \A i \in 1..Len(tail) : tail[i] = c[i + 3]
    BY <1>7, <1>9
  <2> HIDE DEF tail
  <2>3. <<c[2]>> \in Seq(Message) /\ Len(<<c[2]>>) = 1 /\ <<c[2]>>[1] = Prompt
    BY <1>7, MessagesAre
  <2> DEFINE head == <<c[2]>>
  <2>a. head \in Seq(Message) /\ Len(head) = 1 /\ head[1] = Prompt
    BY <2>3
  <2> HIDE DEF head
  <2>b. /\ head \o tail \in Seq(Message) /\ Len(head \o tail) = Len(head) + Len(tail)
        /\ \A i \in 1..Len(head) : (head \o tail)[i] = head[i]
        /\ \A i \in 1..Len(tail) : (head \o tail)[Len(head) + i] = tail[i]
    <3>1. head \in Seq(Message) /\ tail \in Seq(Message)
      BY <2>2, <2>a
    <3> QED
      BY ONLY <3>1, Concatenated
  <2>c. new = head \o tail
    BY <2>1 DEF head
  <2>4. /\ new \in Seq(Message) /\ Len(new) = 1 + Len(tail) /\ new[1] = Prompt
        /\ \A i \in 1..Len(tail) : new[1 + i] = tail[i]
    BY ONLY <2>a, <2>b, <2>c
  <2>5. ASSUME NEW i \in DOMAIN new PROVE new[i].kind \notin {"call", "result", "note", "nudge"}
    <3>1. CASE i = 1
      BY <3>1, <2>4, MessagesAre
    <3>2. CASE i # 1
      <4>1. i - 1 \in 1..Len(tail) /\ 1 + (i - 1) = i /\ (i - 1) + 3 \in 4..Len(c) /\ (i - 1) + 3 >= 2
        BY <3>2, <2>2, <2>4
      <4>2. new[i] = c[(i - 1) + 3]
        BY <4>1, <2>2, <2>4
      <4> QED
        BY <4>1, <4>2, <1>8, <1>9
    <3> QED
      BY <3>1, <3>2
  <2> QED
    BY <2>2, <2>4, <2>5 DEF Begins, FirstMessages, NoNudge
<1>10. CASE lo = 1
  <2>1. ~(Len(c) >= 3 /\ c[3] = Note)
    <3>1. Len(c) >= 3 => c[3].kind # "note"
      BY <1>7, <1>8, <1>10
    <3> QED
      BY <3>1, MessagesAre
  <2>2. new = Tail(c)
    BY <1>6, <2>1 DEF WithoutSystem
  <2>3. /\ new \in Seq(Message) /\ Len(new) = Len(c) - 1 /\ DOMAIN new = 1..(Len(c) - 1)
        /\ \A i \in 1..(Len(c) - 1) : new[i] = c[i + 1]
    <3>1. /\ Tail(c) \in Seq(Message) /\ Len(Tail(c)) = Len(c) - 1
          /\ \A i \in 1..(Len(c) - 1) : Tail(c)[i] = c[i + 1]
      <4>1. c \in Seq(Message) /\ Len(c) >= 1
        BY <1>7
      <4> QED
        BY ONLY <4>1, TailOf
    <3>2. Len(Tail(c)) \in Nat
      BY <1>7, <3>1
    <3>3. Len(c) \in Nat /\ DOMAIN Tail(c) = 1..Len(Tail(c))
      BY <1>7, <3>1
    <3> QED
      BY ONLY <2>2, <3>1, <3>2, <3>3
  <2>4. ASSUME NEW i \in DOMAIN new PROVE new[i].kind \notin {"call", "result", "note", "nudge"}
    <3>1. i + 1 \in lo..Len(c) /\ i + 1 >= 2
      BY <1>7, <1>10, <2>3
    <3> QED
      BY <3>1, <1>8, <2>3
  <2>5. new[1] = Prompt /\ Len(new) >= 1
    BY <1>7, <2>3
  <2> QED
    BY <2>3, <2>4, <2>5 DEF Begins, FirstMessages, NoNudge
<1> QED
  BY <1>9, <1>10

-----------------------------------------------------------------------------
(* A message more *)

Extended(ms, new, e) ==
  /\ new \in Seq(Message) /\ Len(new) = Len(ms) + 1 /\ e \in Message
  /\ \A i \in 1..Len(ms) : new[i] = ms[i]
  /\ new[Len(ms) + 1] = e

LEMMA AppendExtends ==
  ASSUME NEW ms \in Seq(Message), NEW e \in Message
  PROVE  Extended(ms, Append(ms, e), e)
BY DEF Extended

LEMMA ExtendedDomain ==
  ASSUME NEW ms \in Seq(Message), NEW new, NEW e, Extended(ms, new, e)
  PROVE  /\ new \in Seq(Message) /\ Len(ms) \in Nat /\ Len(new) = Len(ms) + 1
         /\ DOMAIN ms = 1..Len(ms) /\ DOMAIN new = 1..Len(new) /\ new[Len(new)] = e
         /\ \A i \in DOMAIN ms : i \in DOMAIN new /\ new[i] = ms[i]
         /\ \A i \in DOMAIN new : i \in DOMAIN ms \/ i = Len(new)
<1>1. Len(ms) \in Nat /\ new \in Seq(Message) /\ Len(new) = Len(ms) + 1 /\ new[Len(ms) + 1] = e
  BY DEF Extended
<1>2. DOMAIN ms = 1..Len(ms) /\ DOMAIN new = 1..Len(new)
  BY <1>1
<1>3. \A i \in DOMAIN ms : i \in DOMAIN new /\ new[i] = ms[i]
  BY <1>1, <1>2 DEF Extended
<1>4. \A i \in 1..(Len(ms) + 1) : i \in 1..Len(ms) \/ i = Len(ms) + 1
  BY <1>1
<1> QED
  BY <1>1, <1>2, <1>3, <1>4

LEMMA ExtendedAnswered ==
  ASSUME NEW ms \in Seq(Message), NEW new, NEW e, Extended(ms, new, e), NEW i \in DOMAIN ms,
         AnsweredAt(ms, i)
  PROVE  AnsweredAt(new, i)
<1>1. PICK j \in i..Len(ms) :
         /\ \A m \in (i + 1)..j : ms[m].kind = "result"
         /\ UNION {ms[m].ids : m \in (i + 1)..j} = ms[i].ids
  BY DEF AnsweredAt
<1>2. /\ Len(ms) \in Nat /\ i \in 1..Len(ms) /\ Len(new) = Len(ms) + 1
      /\ \A m \in 1..Len(ms) : new[m] = ms[m]
  BY ExtendedDomain
<1>3. j \in i..Len(new) /\ \A m \in (i + 1)..j : m \in 1..Len(ms)
  BY <1>2
<1>4. \A m \in (i + 1)..j : new[m] = ms[m]
  BY <1>2, <1>3
<1>5. {new[m].ids : m \in (i + 1)..j} = {ms[m].ids : m \in (i + 1)..j}
  BY <1>4
<1> QED
  BY <1>1, <1>2, <1>3, <1>4, <1>5 DEF AnsweredAt

LEMMA ExtendedTraced ==
  ASSUME NEW ms \in Seq(Message), NEW new, NEW e, Extended(ms, new, e), NEW i \in DOMAIN ms
  PROVE  /\ Follows(ms, i) => Follows(new, i)
         /\ Orphan(ms, i) => Orphan(new, i)
<1>1. /\ Len(ms) \in Nat /\ i \in 1..Len(ms) /\ \A m \in 1..Len(ms) : new[m] = ms[m]
  BY ExtendedDomain
<1>2. ASSUME Follows(ms, i) PROVE Follows(new, i)
  <2>1. PICK j \in 1..(i - 1) :
           /\ ms[j].kind = "call" /\ ms[i].ids \subseteq ms[j].ids
           /\ \A m \in (j + 1)..i : ms[m].kind = "result"
    BY <1>2 DEF Follows
  <2>2. j \in 1..Len(ms) /\ \A m \in (j + 1)..i : m \in 1..Len(ms)
    BY <1>1
  <2> QED
    BY <1>1, <2>1, <2>2 DEF Follows
<1>3. ASSUME Orphan(ms, i) PROVE Orphan(new, i)
  <2>1. i > 3 /\ ms[3] = Note /\ \A j \in 3..i : ms[j].kind # "call"
    BY <1>3 DEF Orphan
  <2>2. 3 \in 1..Len(ms) /\ \A j \in 3..i : j \in 1..Len(ms)
    BY <1>1, <2>1
  <2> QED
    BY <1>1, <2>1, <2>2 DEF Orphan
<1> QED
  BY <1>2, <1>3

LEMMA FirstMessagesAre ==
  ASSUME NEW p
  PROVE  /\ FirstMessages(p) \in Seq(Message) /\ Len(FirstMessages(p)) \in {1, 2}
         /\ DOMAIN FirstMessages(p) = 1..Len(FirstMessages(p))
         /\ \A i \in DOMAIN FirstMessages(p) : FirstMessages(p)[i].kind \in {"system", "prompt"}
<1>1. CASE p = "openai"
  <2> DEFINE a == <<System, Prompt>>
  <2>1. a \in Seq(Message) /\ Len(a) = 2 /\ DOMAIN a = 1..2 /\ a[1] = System /\ a[2] = Prompt
    BY MessagesAre
  <2> HIDE DEF a
  <2>2. FirstMessages(p) = a
    BY <1>1 DEF FirstMessages, a
  <2>3. \A i \in 1..2 : a[i].kind \in {"system", "prompt"}
    BY <2>1, MessagesAre
  <2> QED
    BY <2>1, <2>2, <2>3
<1>2. CASE p # "openai"
  <2> DEFINE a == <<Prompt>>
  <2>1. a \in Seq(Message) /\ Len(a) = 1 /\ DOMAIN a = 1..1 /\ a[1] = Prompt
    BY MessagesAre
  <2> HIDE DEF a
  <2>2. FirstMessages(p) = a
    BY <1>2 DEF FirstMessages, a
  <2>3. \A i \in 1..1 : a[i].kind \in {"system", "prompt"}
    BY <2>1, MessagesAre
  <2> QED
    BY <2>1, <2>2, <2>3
<1> QED
  BY <1>1, <1>2

\* What is appended is not cleared; a result follows its call.
LEMMA ExtendedKeeps ==
  ASSUME NEW ms \in Seq(Message), NEW new, NEW e, Extended(ms, new, e), NEW p,
         Begins(p, ms), Whole(ms), Traced(p, ms), ~e.cleared,
         e.kind = "result" => Follows(new, Len(new))
  PROVE  new \in Seq(Message) /\ Begins(p, new) /\ Whole(new) /\ Traced(p, new)
<1>1. /\ new \in Seq(Message) /\ Len(ms) \in Nat /\ Len(new) = Len(ms) + 1
      /\ DOMAIN ms = 1..Len(ms) /\ DOMAIN new = 1..Len(new) /\ new[Len(new)] = e
      /\ \A i \in DOMAIN ms : i \in DOMAIN new /\ new[i] = ms[i]
      /\ \A i \in DOMAIN new : i \in DOMAIN ms \/ i = Len(new)
  BY ExtendedDomain
<1>2. Begins(p, new)
  <2>1. Len(FirstMessages(p)) \in {1, 2} /\ DOMAIN FirstMessages(p) = 1..Len(FirstMessages(p))
    BY FirstMessagesAre
  <2>2. \A i \in DOMAIN FirstMessages(p) : i \in 1..Len(ms)
    BY <1>1, <2>1 DEF Begins
  <2> QED
    BY <1>1, <2>1, <2>2 DEF Begins
<1>3. Traced(p, new)
  <2> SUFFICES ASSUME NEW i \in ResultsAt(new) PROVE Follows(new, i) \/ (p = "openai" /\ Orphan(new, i))
    BY DEF Traced
  <2>1. CASE i \in DOMAIN ms
    <3>1. i \in ResultsAt(ms)
      BY <1>1, <2>1 DEF ResultsAt
    <3> QED
      BY <3>1, <2>1, ExtendedTraced DEF Traced
  <2>2. CASE i = Len(new)
    BY <1>1, <2>2 DEF ResultsAt
  <2> QED
    BY <1>1, <2>1, <2>2 DEF ResultsAt
<1>4. Whole(new)
  <2> SUFFICES ASSUME NEW i \in ResultsAt(new), new[i].cleared
               PROVE  Cardinality(Later(new, i)) >= KeepRecentResults
    BY DEF Whole
  <2>1. i \in DOMAIN ms /\ i \in ResultsAt(ms) /\ ms[i].cleared /\ i \in Nat
    BY <1>1 DEF ResultsAt
  <2>2. Cardinality(Later(ms, i)) >= KeepRecentResults
    BY <2>1 DEF Whole
  <2>3. Later(ms, i) \subseteq Later(new, i)
    BY <1>1 DEF Later, ResultsAt
  <2>4. Cardinality(Later(ms, i)) <= Cardinality(Later(new, i))
    BY <1>1, <2>1, <2>3, LaterAreFinite, FS_Subset
  <2>5. Cardinality(Later(ms, i)) \in Nat /\ Cardinality(Later(new, i)) \in Nat
    BY <1>1, <2>1, LaterAreFinite
  <2> QED
    BY <2>2, <2>4, <2>5, SettingsAreNaturals
<1> QED
  BY <1>1, <1>2, <1>3, <1>4

LEMMA ExtendedPaired ==
  ASSUME NEW ms \in Seq(Message), NEW new, NEW e, Extended(ms, new, e), Paired(ms), e.kind # "call"
  PROVE  Paired(new)
<1> SUFFICES ASSUME NEW i \in DOMAIN new, new[i].kind = "call" PROVE AnsweredAt(new, i)
  BY DEF Paired
<1>1. i \in DOMAIN ms /\ ms[i].kind = "call"
  BY ExtendedDomain
<1> QED
  BY <1>1, ExtendedAnswered DEF Paired

-----------------------------------------------------------------------------
(* The conversation of our own loops *)

OwnPcs == {"request", "send", "tools", "final_send"}

\* The turn that is being served: its call c asks for lo + 1 to batch, and in the
\* OpenAI loop the results behind it answer those up to calls.
OpenTurnAt(c, lo) ==
  /\ conv[c].kind = "call" /\ conv[c].ids = (lo + 1)..batch
  /\ path = "anthropic" => c = Len(conv)
  /\ \A m \in (c + 1)..Len(conv) : conv[m].kind = "result"
  /\ path = "openai" => UNION {conv[m].ids : m \in (c + 1)..Len(conv)} = (lo + 1)..calls
  /\ \A i \in DOMAIN conv : i # c /\ conv[i].kind = "call" => AnsweredAt(conv, i)

ConvInv ==
  /\ conv \in Seq(Message)
  /\ path \notin OwnLoop \/ pc \in {"idle", "connect"} => conv = <<>>
  /\ pc \in OwnPcs =>
       /\ Begins(path, conv) /\ Whole(conv) /\ Traced(path, conv)
       /\ path = "anthropic" => \A i \in DOMAIN conv : conv[i].kind # "note"
  /\ pc \in {"request", "send", "final_send"} => Paired(conv)
  /\ pc = "tools" => \E c \in DOMAIN conv, lo \in 0..calls : OpenTurnAt(c, lo)
  /\ pc \in {"request", "send", "tools"} => NoNudge(conv)
  /\ pc = "final_send" => conv[Len(conv)] = Nudge

LEMMA InitConv == RunInit => ConvInv
BY DEF RunInit, LoopInit, ConvInv, OwnPcs

\* A step that leaves the conversation alone.
LEMMA NextSame ==
  ASSUME TurnInv, ConvInv, UNCHANGED <<conv, path, calls, batch>>,
         pc' \notin OwnPcs \/ pc' = pc \/ (pc = "send" /\ pc' = "request"),
         pc' \in {"idle", "connect"} => pc' = pc
  PROVE  ConvInv'
<1>1. pc' \in {"request", "send", "final_send"} => Paired(conv)'
  BY DEF ConvInv, OwnPcs, Paired, AnsweredAt
<1>2. pc' \in OwnPcs => (Begins(path, conv) /\ Whole(conv) /\ Traced(path, conv))'
  BY DEF ConvInv, OwnPcs, Begins, FirstMessages, Whole, Traced, Later, ResultsAt, Follows, Orphan
<1>3. pc' = "tools" => \E c \in DOMAIN conv', lo \in 0..calls' : OpenTurnAt(c, lo)'
  <2> SUFFICES ASSUME pc' = "tools" PROVE \E c \in DOMAIN conv', lo \in 0..calls' : OpenTurnAt(c, lo)'
    OBVIOUS
  <2>1. pc = "tools" /\ conv' = conv /\ path' = path /\ calls' = calls /\ batch' = batch
    BY DEF OwnPcs
  <2>2. PICK c \in DOMAIN conv, lo \in 0..calls : OpenTurnAt(c, lo)
    BY <2>1 DEF ConvInv
  <2>3. OpenTurnAt(c, lo)'
    BY <2>1, <2>2 DEF OpenTurnAt, AnsweredAt
  <2> QED
    BY <2>1, <2>2, <2>3
<1>4. pc' \in {"request", "send", "tools"} => NoNudge(conv)'
  BY DEF ConvInv, OwnPcs, NoNudge
<1> QED
  BY <1>1, <1>2, <1>3, <1>4 DEF ConvInv, OwnPcs

LEMMA NextEnter == ASSUME TurnInv, ConvInv, NEW p \in OwnLoop, EnterLoop(p) PROVE ConvInv'
<1>1. /\ pc' = "request" /\ path' = p /\ conv' = FirstMessages(p)
  BY DEF EnterLoop, Goto
<1> DEFINE ms == FirstMessages(p)
<1>2. /\ ms \in Seq(Message) /\ Len(ms) \in {1, 2} /\ DOMAIN ms = 1..Len(ms)
      /\ \A i \in 1..Len(ms) : ms[i].kind \in {"system", "prompt"}
  BY FirstMessagesAre
<1> HIDE DEF ms
<1>3. ResultsAt(ms) = {} /\ NoNudge(ms) /\ Paired(ms) /\ Whole(ms) /\ Traced(p, ms)
  BY <1>2 DEF ResultsAt, NoNudge, Paired, Whole, Traced
<1>4. Begins(p, ms)
  BY <1>2 DEF Begins, ms
<1>5. \A i \in DOMAIN ms : ms[i].kind # "note"
  BY <1>2
<1>6. conv' = ms
  BY <1>1 DEF ms
<1>7. Begins(path', conv') /\ Whole(conv') /\ Traced(path', conv') /\ Paired(conv') /\ NoNudge(conv')
  BY <1>1, <1>3, <1>4, <1>6
<1>8. (Begins(path, conv) /\ Whole(conv) /\ Traced(path, conv) /\ Paired(conv) /\ NoNudge(conv))'
  BY <1>7
<1> QED
  BY <1>1, <1>2, <1>5, <1>6, <1>8 DEF ConvInv, OwnPcs

LEMMA NextPrepare == ASSUME TurnInv, ConvInv, PrepareRequest PROVE ConvInv'
<1>1. /\ pc = "request" /\ pc' = "send" /\ path' = path /\ path \in OwnLoop
      /\ conv' = conv \/ conv' = Compacted(conv)
  BY DEF PrepareRequest, Goto, TurnInv, OnItsPath
<1>2. /\ conv \in Seq(Message) /\ Begins(path, conv) /\ Whole(conv) /\ Traced(path, conv)
      /\ path = "anthropic" => \A i \in DOMAIN conv : conv[i].kind # "note"
      /\ Paired(conv) /\ NoNudge(conv)
  BY <1>1 DEF ConvInv, OwnPcs
<1>3. /\ conv' \in Seq(Message) /\ Begins(path, conv') /\ Whole(conv') /\ Traced(path, conv')
      /\ path = "anthropic" => \A i \in DOMAIN conv' : conv'[i].kind # "note"
      /\ Paired(conv') /\ NoNudge(conv')
  <2>1. CASE conv' = conv
    BY <1>2, <2>1
  <2>2. CASE conv' = Compacted(conv) /\ path = "openai" /\ conv' # conv
    <3>1. conv' = Compact(conv)
      BY <2>2 DEF Compacted
    <3> QED
      BY <1>2, <2>2, <3>1, CompactKeeps
  <2>3. CASE conv' = Compacted(conv) /\ path = "anthropic" /\ conv' # conv
    <3>1. conv' = WithoutSystem(Compact(<<System>> \o Flatten(conv)))
      BY <2>3 DEF Compacted
    <3>2. /\ conv' \in Seq(Message) /\ Begins("anthropic", conv') /\ NoNudge(conv')
          /\ \A i \in DOMAIN conv' : conv'[i].kind \notin {"call", "result", "note"}
      BY <1>2, <2>3, <3>1, CompactFlattens
    <3>3. ResultsAt(conv') = {} /\ Paired(conv')
      BY <3>2 DEF ResultsAt, Paired
    <3>4. Whole(conv') /\ Traced(path, conv')
      BY <3>3 DEF Whole, Traced
    <3> QED
      BY <2>3, <3>2, <3>3, <3>4
  <2> QED
    BY <1>1, <2>1, <2>2, <2>3 DEF OwnLoop
<1>4. (Begins(path, conv) /\ Whole(conv) /\ Traced(path, conv) /\ Paired(conv) /\ NoNudge(conv))'
  BY <1>1, <1>3
<1> QED
  BY <1>1, <1>3, <1>4 DEF ConvInv, OwnPcs

LEMMA MsgIs ==
  ASSUME NEW kind \in Kinds, NEW ids \in SUBSET Nat
  PROVE  /\ Msg(kind, ids) \in Message /\ Msg(kind, ids).kind = kind /\ Msg(kind, ids).ids = ids
         /\ ~Msg(kind, ids).cleared
BY DEF Msg, Message

LEMMA NextAnswerWithCalls == ASSUME TurnInv, ConvInv, AnswerWithCalls PROVE ConvInv'
<1>1. /\ pc = "send" /\ pc' = "tools" /\ path' = path /\ calls' = calls /\ calls \in Nat
      /\ path \in OwnLoop
  BY DEF AnswerWithCalls, Goto, TurnInv, OnItsPath, RunTypes
<1>2. /\ conv \in Seq(Message) /\ Begins(path, conv) /\ Whole(conv) /\ Traced(path, conv)
      /\ path = "anthropic" => \A i \in DOMAIN conv : conv[i].kind # "note"
      /\ Paired(conv) /\ NoNudge(conv)
  BY <1>1 DEF ConvInv, OwnPcs
<1>3. PICK k \in 1..MaxBatch : /\ conv' = Append(conv, Msg("call", (calls + 1)..(calls + k)))
                               /\ batch' = calls + k
  BY DEF AnswerWithCalls
<1> DEFINE e == Msg("call", (calls + 1)..(calls + k))
<1>4. e \in Message /\ e.kind = "call" /\ e.ids = (calls + 1)..(calls + k) /\ ~e.cleared
  <2>1. (calls + 1)..(calls + k) \in SUBSET Nat /\ "call" \in Kinds
    BY <1>1 DEF Kinds
  <2> QED
    BY <2>1, MsgIs
<1> HIDE DEF e
<1>5. Extended(conv, conv', e)
  BY <1>2, <1>3, <1>4, AppendExtends DEF e
<1>6. /\ Len(conv) \in Nat /\ Len(conv') = Len(conv) + 1 /\ DOMAIN conv' = 1..Len(conv')
      /\ conv' \in Seq(Message)
      /\ conv'[Len(conv')] = e /\ \A i \in DOMAIN conv : conv'[i] = conv[i]
      /\ \A i \in DOMAIN conv' : i \in DOMAIN conv \/ i = Len(conv')
  BY <1>2, <1>5, ExtendedDomain
<1>7. Begins(path, conv') /\ Whole(conv') /\ Traced(path, conv')
  BY <1>2, <1>4, <1>5, ExtendedKeeps
<1>8. (Begins(path, conv) /\ Whole(conv) /\ Traced(path, conv))'
  BY <1>1, <1>7
<1>9. \A i \in DOMAIN conv' : conv'[i].kind # "nudge" /\ (path = "anthropic" => conv'[i].kind # "note")
  BY <1>2, <1>4, <1>6 DEF NoNudge
<1>a. PICK c \in DOMAIN conv', lo \in 0..calls' : c = Len(conv') /\ lo = calls'
  BY <1>1, <1>6
<1>10. OpenTurnAt(c, lo)'
  <2>1. conv'[Len(conv')].kind = "call" /\ conv'[Len(conv')].ids = (calls' + 1)..batch'
    BY <1>1, <1>3, <1>4, <1>6
  <2>2. (Len(conv') + 1)..Len(conv') = {} /\ (calls' + 1)..calls' = {}
    BY <1>1, <1>6
  <2>3. ASSUME NEW i \in DOMAIN conv', i # Len(conv'), conv'[i].kind = "call" PROVE AnsweredAt(conv', i)
    <3>1. i \in DOMAIN conv /\ conv[i].kind = "call"
      BY <1>6, <2>3
    <3> QED
      BY <3>1, <1>2, <1>5, ExtendedAnswered DEF Paired
  <2>4. UNION {conv'[m].ids : m \in (Len(conv') + 1)..Len(conv')} = (calls' + 1)..calls'
    BY <2>2
  <2>5. \A m \in (Len(conv') + 1)..Len(conv') : conv'[m].kind = "result"
    BY <2>2
  <2> QED
    BY <1>a, <1>1, <1>6, <2>1, <2>3, <2>4, <2>5 DEF OpenTurnAt, OwnLoop
<1> QED
  BY <1>1, <1>6, <1>8, <1>9, <1>10 DEF ConvInv, OwnPcs, NoNudge

LEMMA NextToolOpenAI == ASSUME TurnInv, ConvInv, ExecuteOpenAITool PROVE ConvInv'
<1>1. /\ pc = "tools" /\ pc' = "tools" /\ path' = path /\ path = "openai" /\ path \in OwnLoop
      /\ calls \in Nat /\ calls' = calls + 1 /\ batch \in Nat /\ batch' = batch /\ calls < batch
      /\ conv' = Append(conv, Msg("result", {calls + 1}))
  BY DEF ExecuteOpenAITool, TurnInv, RunTypes, OwnLoop
<1>2. /\ conv \in Seq(Message) /\ Begins(path, conv) /\ Whole(conv) /\ Traced(path, conv)
      /\ NoNudge(conv)
  BY <1>1 DEF ConvInv, OwnPcs
<1>3. PICK c \in DOMAIN conv, lo \in 0..calls : OpenTurnAt(c, lo)
  BY <1>1 DEF ConvInv
<1> DEFINE e == Msg("result", {calls + 1})
<1>4. e \in Message /\ e.kind = "result" /\ e.ids = {calls + 1} /\ ~e.cleared
  <2>1. {calls + 1} \in SUBSET Nat /\ "result" \in Kinds
    BY <1>1 DEF Kinds
  <2> QED
    BY <2>1, MsgIs
<1> HIDE DEF e
<1>5. Extended(conv, conv', e)
  BY <1>1, <1>2, <1>4, AppendExtends DEF e
<1>6. /\ Len(conv) \in Nat /\ Len(conv') = Len(conv) + 1 /\ DOMAIN conv' = 1..Len(conv')
      /\ conv' \in Seq(Message) /\ DOMAIN conv = 1..Len(conv)
      /\ conv'[Len(conv')] = e /\ \A i \in DOMAIN conv : conv'[i] = conv[i]
      /\ \A i \in DOMAIN conv' : i \in DOMAIN conv \/ i = Len(conv')
  BY <1>2, <1>5, ExtendedDomain
<1>7. /\ conv'[c] = conv[c] /\ conv[c].kind = "call" /\ conv[c].ids = (lo + 1)..batch
      /\ c \in 1..Len(conv) /\ c \in DOMAIN conv'
  BY <1>3, <1>6 DEF OpenTurnAt
<1>8. ASSUME NEW m \in (c + 1)..Len(conv') PROVE conv'[m].kind = "result"
  <2>1. m \in (c + 1)..Len(conv) \/ m = Len(conv')
    BY <1>6, <1>7
  <2>2. m \in (c + 1)..Len(conv) => m \in DOMAIN conv
    BY <1>6, <1>7
  <2> QED
    BY <2>1, <2>2, <1>3, <1>4, <1>6 DEF OpenTurnAt
<1>9. Follows(conv', Len(conv'))
  <2>1. c \in 1..(Len(conv') - 1)
    BY <1>6, <1>7
  <2>2. calls + 1 \in (lo + 1)..batch
    BY <1>1
  <2>3. conv'[Len(conv')].ids \subseteq conv'[c].ids
    BY <2>2, <1>4, <1>6, <1>7
  <2> QED
    BY <2>1, <2>3, <1>7, <1>8 DEF Follows
<1>10. Begins(path, conv') /\ Whole(conv') /\ Traced(path, conv')
  BY <1>2, <1>4, <1>5, <1>9, ExtendedKeeps
<1>11. (Begins(path, conv) /\ Whole(conv) /\ Traced(path, conv))'
  BY <1>1, <1>10
<1>12. \A i \in DOMAIN conv' : conv'[i].kind # "nudge"
  BY <1>2, <1>4, <1>6 DEF NoNudge
<1>13. UNION {conv'[m].ids : m \in (c + 1)..Len(conv')} = (lo + 1)..calls'
  <2>1. UNION {conv[m].ids : m \in (c + 1)..Len(conv)} = (lo + 1)..calls
    BY <1>1, <1>3 DEF OpenTurnAt
  <2>2. (lo + 1)..calls' = ((lo + 1)..calls) \cup {calls + 1}
    BY <1>1
  <2>3. \A m \in (c + 1)..Len(conv) : m \in (c + 1)..Len(conv') /\ conv'[m] = conv[m]
    BY <1>6, <1>7
  <2>4. Len(conv') \in (c + 1)..Len(conv') /\ conv'[Len(conv')].ids = {calls + 1}
    BY <1>4, <1>6, <1>7
  <2>5. \A m \in (c + 1)..Len(conv') : m \in (c + 1)..Len(conv) \/ m = Len(conv')
    BY <1>6, <1>7
  <2> DEFINE A == UNION {conv'[m].ids : m \in (c + 1)..Len(conv')}
             B == UNION {conv[m].ids : m \in (c + 1)..Len(conv)}
  <2>6. ASSUME NEW x \in A PROVE x \in B \cup {calls + 1}
    <3>1. PICK m \in (c + 1)..Len(conv') : x \in conv'[m].ids
      OBVIOUS
    <3>2. CASE m \in (c + 1)..Len(conv)
      BY <3>1, <3>2, <2>3
    <3>3. CASE m = Len(conv')
      BY <3>1, <3>3, <2>4
    <3> QED
      BY <3>2, <3>3, <2>5
  <2>7. ASSUME NEW x \in B PROVE x \in A
    <3>1. PICK m \in (c + 1)..Len(conv) : x \in conv[m].ids
      OBVIOUS
    <3> QED
      BY <3>1, <2>3
  <2>8. calls + 1 \in A
    BY <2>4
  <2>9. A = B \cup {calls + 1}
    BY <2>6, <2>7, <2>8
  <2> QED
    BY <2>1, <2>2, <2>9
<1>14. OpenTurnAt(c, lo)'
  <2>1. ASSUME NEW i \in DOMAIN conv', i # c, conv'[i].kind = "call" PROVE AnsweredAt(conv', i)
    <3>1. i \in DOMAIN conv /\ conv[i].kind = "call"
      BY <1>4, <1>6, <2>1
    <3>2. AnsweredAt(conv, i)
      BY <1>3, <2>1, <3>1 DEF OpenTurnAt
    <3> QED
      BY <3>1, <3>2, <1>2, <1>5, ExtendedAnswered
  <2> QED
    BY <1>1, <1>7, <1>8, <1>13, <2>1 DEF OpenTurnAt
<1>15. lo \in 0..calls'
  BY <1>1
<1> QED
  BY <1>1, <1>6, <1>7, <1>11, <1>12, <1>14, <1>15 DEF ConvInv, OwnPcs, NoNudge

LEMMA NextToolAnthropic == ASSUME TurnInv, ConvInv, ExecuteAnthropicTool PROVE ConvInv'
<1>1. /\ pc = "tools" /\ pc' = "tools" /\ path' = path /\ path = "anthropic" /\ path \in OwnLoop
      /\ calls \in Nat /\ calls' = calls + 1 /\ batch' = batch /\ conv' = conv
  BY DEF ExecuteAnthropicTool, TurnInv, RunTypes, OwnLoop
<1>2. PICK c \in DOMAIN conv, lo \in 0..calls : OpenTurnAt(c, lo)
  BY <1>1 DEF ConvInv
<1>3. OpenTurnAt(c, lo)'
  BY <1>1, <1>2 DEF OpenTurnAt, AnsweredAt
<1>4. lo \in 0..calls'
  BY <1>1
<1>5. (Begins(path, conv) /\ Whole(conv) /\ Traced(path, conv))'
  BY <1>1 DEF ConvInv, OwnPcs, Begins, FirstMessages, Whole, Traced, Later, ResultsAt, Follows, Orphan
<1> QED
  BY <1>1, <1>3, <1>4, <1>5 DEF ConvInv, OwnPcs, NoNudge

\* A turn has been served, and its calls are answered in ms.
LEMMA NextAfterTurn ==
  ASSUME TurnInv, ConvInv, NEW p \in OwnLoop, NEW ms \in Seq(Message), AfterTurn(p, ms),
         Begins(p, ms), Whole(ms), Traced(p, ms), Paired(ms), NoNudge(ms),
         p = "anthropic" => \A i \in DOMAIN ms : ms[i].kind # "note"
  PROVE  ConvInv'
<1>1. pc = "tools" /\ path = p /\ path' = path
  BY DEF AfterTurn
<1>2. CASE calls >= maxTurns
  <2>1. pc' = "final_send" /\ conv' = Append(ms, Nudge)
    BY <1>2 DEF AfterTurn, Goto
  <2>2. Extended(ms, conv', Nudge)
    BY <2>1, MessagesAre, AppendExtends
  <2>3. Begins(p, conv') /\ Whole(conv') /\ Traced(p, conv')
    BY <2>2, MessagesAre, ExtendedKeeps
  <2>4. Paired(conv')
    BY <2>2, MessagesAre, ExtendedPaired
  <2>5. (Begins(path, conv) /\ Whole(conv) /\ Traced(path, conv) /\ Paired(conv))'
    BY <1>1, <2>3, <2>4
  <2>6. /\ conv' \in Seq(Message) /\ conv'[Len(conv')] = Nudge
        /\ p = "anthropic" => \A i \in DOMAIN conv' : conv'[i].kind # "note"
    BY <2>2, MessagesAre, ExtendedDomain
  <2> QED
    BY <1>1, <2>1, <2>5, <2>6 DEF ConvInv, OwnPcs
<1>3. CASE ~(calls >= maxTurns)
  <2>1. pc' = "request" /\ conv' = ms
    BY <1>3 DEF AfterTurn, Goto
  <2>2. (Begins(path, conv) /\ Whole(conv) /\ Traced(path, conv) /\ Paired(conv) /\ NoNudge(conv))'
    BY <1>1, <2>1
  <2> QED
    BY <1>1, <2>1, <2>2 DEF ConvInv, OwnPcs
<1> QED
  BY <1>2, <1>3

LEMMA NextAfterOpenAI == ASSUME TurnInv, ConvInv, AfterOpenAITurn PROVE ConvInv'
<1>1. /\ pc = "tools" /\ path = "openai" /\ path \in OwnLoop /\ calls = batch
      /\ AfterTurn("openai", conv)
  BY DEF AfterOpenAITurn, AfterTurn, OwnLoop
<1>2. /\ conv \in Seq(Message) /\ Begins(path, conv) /\ Whole(conv) /\ Traced(path, conv)
      /\ NoNudge(conv)
  BY <1>1 DEF ConvInv, OwnPcs
<1>3. PICK c \in DOMAIN conv, lo \in 0..calls : OpenTurnAt(c, lo)
  BY <1>1 DEF ConvInv
<1>4. AnsweredAt(conv, c)
  <2>1. Len(conv) \in c..Len(conv)
    BY <1>2
  <2>2. /\ \A m \in (c + 1)..Len(conv) : conv[m].kind = "result"
        /\ UNION {conv[m].ids : m \in (c + 1)..Len(conv)} = conv[c].ids
    BY <1>1, <1>3 DEF OpenTurnAt
  <2> QED
    BY <2>1, <2>2 DEF AnsweredAt
<1>5. Paired(conv)
  BY <1>3, <1>4 DEF OpenTurnAt, Paired
<1> QED
  BY <1>1, <1>2, <1>5, NextAfterTurn

LEMMA NextAfterAnthropic == ASSUME TurnInv, ConvInv, AfterAnthropicTurn PROVE ConvInv'
<1> DEFINE e == Msg("result", conv[Len(conv)].ids)
           ms == Append(conv, e)
<1>1. /\ pc = "tools" /\ path = "anthropic" /\ path \in OwnLoop
      /\ AfterTurn("anthropic", ms)
  BY DEF AfterAnthropicTurn, AfterTurn, OwnLoop
<1>2. /\ conv \in Seq(Message) /\ Begins(path, conv) /\ Whole(conv) /\ Traced(path, conv)
      /\ NoNudge(conv) /\ \A i \in DOMAIN conv : conv[i].kind # "note"
  BY <1>1 DEF ConvInv, OwnPcs
<1>3. PICK c \in DOMAIN conv, lo \in 0..calls : OpenTurnAt(c, lo)
  BY <1>1 DEF ConvInv
<1>4. /\ c = Len(conv) /\ conv[c].kind = "call" /\ conv[c] \in Message /\ conv[c].ids \in SUBSET Nat
      /\ c \in Nat
  <2>1. c = Len(conv) /\ conv[c].kind = "call"
    BY <1>1, <1>3 DEF OpenTurnAt
  <2>2. conv[c] \in Message /\ c \in Nat
    BY <1>2
  <2>3. conv[c].ids \in SUBSET Nat
    BY <2>2 DEF Message
  <2> QED
    BY <2>1, <2>2, <2>3
<1>5. e \in Message /\ e.kind = "result" /\ e.ids = conv[c].ids /\ ~e.cleared
  <2>1. "result" \in Kinds
    BY DEF Kinds
  <2> QED
    BY <2>1, <1>4, MsgIs
<1> HIDE DEF e
<1>6. Extended(conv, ms, e)
  BY <1>2, <1>5, AppendExtends
<1> HIDE DEF ms
<1>7. /\ ms \in Seq(Message) /\ Len(conv) \in Nat /\ Len(ms) = c + 1 /\ DOMAIN ms = 1..Len(ms)
      /\ ms[Len(ms)] = e /\ \A i \in DOMAIN conv : ms[i] = conv[i]
      /\ \A i \in DOMAIN ms : i \in DOMAIN conv \/ i = Len(ms)
  BY <1>2, <1>4, <1>6, ExtendedDomain
<1>8. ms[c] = conv[c] /\ \A m \in (c + 1)..Len(ms) : m = Len(ms)
  BY <1>3, <1>4, <1>7
<1>9. Follows(ms, Len(ms))
  <2>1. c \in 1..(Len(ms) - 1)
    BY <1>2, <1>3, <1>4, <1>7
  <2> QED
    BY <2>1, <1>4, <1>5, <1>7, <1>8 DEF Follows
<1>10. Begins(path, ms) /\ Whole(ms) /\ Traced(path, ms)
  BY <1>2, <1>5, <1>6, <1>9, ExtendedKeeps
<1>11. NoNudge(ms) /\ \A i \in DOMAIN ms : ms[i].kind # "note"
  BY <1>2, <1>5, <1>7 DEF NoNudge
<1>12. AnsweredAt(ms, c)
  <2>1. Len(ms) \in c..Len(ms) /\ Len(ms) \in (c + 1)..Len(ms)
    BY <1>4, <1>7
  <2>2. {ms[m].ids : m \in (c + 1)..Len(ms)} = {conv[c].ids}
    BY <2>1, <1>5, <1>7, <1>8
  <2>3. UNION {ms[m].ids : m \in (c + 1)..Len(ms)} = ms[c].ids
    BY <2>2, <1>8
  <2>4. \A m \in (c + 1)..Len(ms) : ms[m].kind = "result"
    BY <1>5, <1>7, <1>8
  <2> QED
    BY <2>1, <2>3, <2>4 DEF AnsweredAt
<1>13. Paired(ms)
  <2> SUFFICES ASSUME NEW i \in DOMAIN ms, ms[i].kind = "call" PROVE AnsweredAt(ms, i)
    BY DEF Paired
  <2>1. i \in DOMAIN conv /\ conv[i].kind = "call"
    BY <1>5, <1>7
  <2>2. CASE i # c
    <3>1. AnsweredAt(conv, i)
      BY <1>3, <2>1, <2>2 DEF OpenTurnAt
    <3> QED
      BY <3>1, <2>1, <1>2, <1>6, ExtendedAnswered
  <2> QED
    BY <1>12, <2>2
<1> QED
  BY <1>1, <1>7, <1>10, <1>11, <1>13, NextAfterTurn

LEMMA NextConv ==
  ASSUME TurnInv, ConvInv, [RunNext]_<<vars, setup>> PROVE ConvInv'
<1>0. pc \in OwnPcs => path \in OwnLoop
  BY DEF TurnInv, OnItsPath, OwnPcs
<1>1. CASE UNCHANGED <<vars, setup>>
  BY <1>1, NextSame DEF vars
<1>2. CASE Route
  <2>1. pc = "idle" /\ pc' = "connect" /\ conv' = conv
    BY <1>2 DEF Route, Start, Goto, loop
  <2>2. conv' = <<>>
    BY <2>1 DEF ConvInv
  <2> QED
    BY <2>1, <2>2 DEF ConvInv, OwnPcs
<1>3. CASE pc # "idle" /\ LoopSteps
  <2>1. CASE OwnSteps
    <3>1. CASE EnterOpenAI \/ EnterAnthropic
      BY <3>1, NextEnter DEF EnterOpenAI, EnterAnthropic, OwnLoop
    <3>2. CASE OpenAIVerdict \/ AnthropicVerdict
      BY <3>2, NextSame DEF OpenAIVerdict, AnthropicVerdict, OwnVerdict, Goto, loop, OwnPcs
    <3> QED
      BY <2>1, <3>1, <3>2, NextPrepare, NextToolOpenAI, NextToolAnthropic, NextAfterOpenAI,
         NextAfterAnthropic DEF OwnSteps
  <2>2. CASE CopilotSteps
    BY <2>2, NextSame
       DEF CopilotSteps, EnterCopilot, WaitEnds, PollHalt, Abort, CopilotVerdict, Goto, loop, OwnPcs
  <2>3. CASE ClaudeSteps
    BY <2>3, NextSame
       DEF ClaudeSteps, EnterClaude, CheckBetweenStreams, ClaudeVerdict, CreateClaude, Goto, loop, OwnPcs
  <2>4. CASE ClosingSteps
    BY <2>4, NextSame
       DEF ClosingSteps, ClearHalt, Publish, SaveTask, SaveWorkflow, FireWebhook, Cleanup, Goto, loop, OwnPcs
  <2>5. CASE ProviderSteps
    <3>1. CASE RetryRequest \/ RateLimited \/ AnswerWithText
      BY <3>1, NextSame DEF RetryRequest, RateLimited, AnswerWithText, Goto, loop, OwnPcs
    <3> QED
      BY <2>5, <3>1, NextAnswerWithCalls DEF ProviderSteps
  <2>6. CASE SdkSteps
    <3>1. CASE ClaudeToolUse
      <4>1. pc = "stream" /\ pc' = pc /\ conv' = conv /\ path' = path
        BY <3>1 DEF ClaudeToolUse
      <4>2. path \notin OwnLoop
        BY <4>1 DEF TurnInv, OnItsPath, OwnLoop
      <4> QED
        BY <4>1, <4>2 DEF ConvInv, OwnPcs
    <3>2. CASE SessionOver \/ ClaudeEnds \/ StreamCut
      BY <3>2, NextSame DEF SessionOver, ClaudeEnds, StreamCut, Goto, loop, OwnPcs
    <3>3. ASSUME NEW k \in SdkIds, OpenCall(k) \/ RunCall(k) PROVE ConvInv'
      BY <3>3, NextSame DEF OpenCall, RunCall, loop, OwnPcs
    <3>4. ASSUME NEW k \in SdkIds, AskPermission(k) \/ AskHook(k) PROVE ConvInv'
      <4>1. Live /\ pc' = pc /\ conv' = conv /\ path' = path
        BY <3>4 DEF AskPermission, AskHook, Ask
      <4>2. path \notin OwnLoop /\ pc \notin OwnPcs
        BY <4>1 DEF Live, OwnLoop, OwnPcs
      <4> QED
        BY <4>1, <4>2 DEF ConvInv, OwnPcs
    <3> QED
      BY <2>6, <3>1, <3>2, <3>3, <3>4 DEF SdkSteps
  <2>7. CASE Deadline \/ Raise \/ RaiseAgain \/ SetHalt \/ HaltExpires
    BY <2>7, NextSame DEF Deadline, Raise, RaiseAgain, SetHalt, HaltExpires, Goto, loop, OwnPcs
  <2> QED
    BY <1>3, <2>1, <2>2, <2>3, <2>4, <2>5, <2>6, <2>7 DEF LoopSteps, EngineSteps
<1> QED
  BY <1>1, <1>2, <1>3 DEF RunNext

\* Every request of our loops has its calls paired with results, for any number of
\* turns, calls in an answer and compactions, whatever the settings of compaction.
THEOREM PairingSurvivesCompaction == RunSpec => []CallsArePaired
<1>1. ConvInv => CallsArePaired
  <2> SUFFICES ASSUME ConvInv, Requesting PROVE CallsArePaired
    BY DEF CallsArePaired
  <2>1. Paired(conv) /\ Traced(path, conv)
    BY DEF ConvInv, Requesting, OwnPcs
  <2>2. ASSUME NEW i \in ResultsAt(conv), Follows(conv, i) PROVE HasCall(conv, i)
    BY <2>2 DEF Follows, HasCall
  <2> QED
    BY <2>1, <2>2 DEF CallsArePaired, Paired, Traced, Orphan
<1> QED
  BY <1>1, InitTurns, NextTurns, InitConv, NextConv, PTL DEF RunSpec

\* Every request begins with the task, keeps the newest results whole, and the last
\* one ends with the nudge, however often the conversation has been compacted.
THEOREM TaskSurvivesCompaction == RunSpec => []CompactionKeepsTheTask
<1>1. ConvInv => CompactionKeepsTheTask
  <2> SUFFICES ASSUME ConvInv, Requesting PROVE CompactionKeepsTheTask
    BY DEF CompactionKeepsTheTask
  <2>1. Begins(path, conv) /\ Whole(conv) /\ (pc = "final_send" => conv[Len(conv)] = Nudge)
    BY DEF ConvInv, Requesting, OwnPcs
  <2> QED
    BY <2>1 DEF CompactionKeepsTheTask, Begins, Whole, Later
<1> QED
  BY <1>1, InitTurns, NextTurns, InitConv, NextConv, PTL DEF RunSpec

-----------------------------------------------------------------------------
(* What the run reports *)

HasNudge == \E i \in DOMAIN conv : conv[i] = Nudge

\* The run is not decided before it comes to its closing sequence.
Early == Pcs \ {"publish", "save_task", "save_wf", "webhook", "cleanup", "ended"}

\* The limit is why a run is cut short.
CutAtLimit ==
  /\ HasNudge => calls >= maxTurns
  /\ path = "copilot" /\ calls > maxTurns => Denied # {}
  /\ pc = "verdict" /\ path \in OwnLoop => HasNudge \/ calls < Limit
  /\ pc \in {"wait", "abort"} => path = "copilot"

Decided ==
  /\ verdict \in Verdicts
  /\ verdict = "none" <=> pc \in Early
  /\ verdict = "completed" => ~CutShort
  /\ verdict = "max_turns_reached" => CutShort \/ maxTurns = 0

\* The task and the event have the verdict from their step of the sequence on, and
\* to the end if nothing was raised or a webhook has been fired.
Told ==
  /\ task \in Statuses /\ published \in Statuses /\ webhooks \subseteq {"success", "error"}
  /\ pc \in {"save_task", "save_wf", "webhook"} => published = StatusOf(verdict)
  /\ pc \in {"save_wf", "webhook"} => task = StatusOf(verdict)
  /\ pc \in {"cleanup", "ended"} /\ (verdict # "failed" \/ webhooks # {}) =>
       task = StatusOf(verdict) /\ published = StatusOf(verdict)
  /\ webhooks # {} => pc \in {"cleanup", "ended"}
  /\ "success" \in webhooks => verdict = "completed"
  /\ "error" \in webhooks => verdict = "failed"

ReportInv == CutAtLimit /\ Decided /\ Told

RunInv == TurnInv /\ ConvInv /\ ReportInv

LEMMA InitReport == RunInit => ReportInv
<1> SUFFICES ASSUME RunInit PROVE ReportInv
  OBVIOUS
<1>1. /\ pc = "idle" /\ path = "copilot" /\ maxTurns = 0 /\ calls = 0 /\ conv = <<>>
      /\ verdict = "none" /\ task = "running" /\ published = "running" /\ webhooks = {}
  BY DEF RunInit, LoopInit
<1>2. ~HasNudge
  BY <1>1 DEF HasNudge
<1> QED
  BY <1>1, <1>2
     DEF ReportInv, CutAtLimit, Decided, Told, Early, Pcs, Verdicts, Statuses

\* What cuts a run short stays as it is.
Steady == UNCHANGED <<conv, path, maxTurns, calls, sdk>>

LEMMA SteadyIs ==
  ASSUME Steady
  PROVE  (HasNudge' <=> HasNudge) /\ Denied' = Denied /\ (CutShort' <=> CutShort) /\ Limit' = Limit
BY DEF Steady, HasNudge, Denied, CutShort, Limit

LEMMA CutIs == CutShort <=> Denied # {} \/ HasNudge
BY DEF CutShort, HasNudge

\* A run that goes on before it is decided.
LEMMA NextUndecided ==
  ASSUME RunInv, pc \in Early, pc' \in Early, UNCHANGED <<verdict, record>>, CutAtLimit'
  PROVE  ReportInv'
<1>1. verdict' = "none"
  BY DEF RunInv, ReportInv, Decided
<1>2. Decided'
  BY <1>1 DEF Decided, Verdicts
<1>3. Told'
  BY DEF RunInv, ReportInv, Told, record, Early
<1> QED
  BY <1>2, <1>3 DEF ReportInv

LEMMA NextWaiting ==
  ASSUME RunInv, pc \in Early, pc' \in Early, UNCHANGED <<verdict, record>>, Steady,
         pc' = "verdict" /\ path \in OwnLoop => pc = "verdict" \/ HasNudge \/ calls < Limit,
         pc' \in {"wait", "abort"} => path = "copilot"
  PROVE  ReportInv'
<1>1. CutAtLimit'
  BY SteadyIs DEF RunInv, ReportInv, CutAtLimit, Steady
<1> QED
  BY <1>1, NextUndecided

\* A turn of our own loops.
LEMMA NextOwnTurn ==
  ASSUME RunInv, ConvInv', pc \in Early, pc' \in OwnPcs, path \in OwnLoop,
         UNCHANGED <<path, maxTurns, sdk, verdict, record>>,
         pc' = "final_send" => calls' >= maxTurns'
  PROVE  ReportInv'
<1>1. HasNudge' => pc' = "final_send"
  BY MessagesAre DEF ConvInv, HasNudge, NoNudge, OwnPcs
<1>2. path' # "copilot" /\ pc' \notin {"verdict", "wait", "abort"} /\ pc' \in Early
  BY DEF OwnLoop, OwnPcs, Early, Pcs
<1>3. CutAtLimit'
  BY <1>1, <1>2 DEF CutAtLimit
<1> QED
  BY <1>2, <1>3, NextUndecided

\* The run is decided.
LEMMA NextDecides ==
  ASSUME RunInv, pc \in Early, pc' = "publish", Steady, UNCHANGED record,
         verdict' \in Verdicts \ {"none"},
         verdict' = "completed" => ~CutShort,
         verdict' = "max_turns_reached" => CutShort \/ maxTurns = 0
  PROVE  ReportInv'
<1>1. CutAtLimit'
  BY SteadyIs DEF RunInv, ReportInv, CutAtLimit, Steady
<1>2. Decided'
  BY SteadyIs DEF Decided, Early, Steady
<1>3. Told'
  BY DEF RunInv, ReportInv, Told, record, Early
<1> QED
  BY <1>1, <1>2, <1>3 DEF ReportInv

\* The closing sequence, as far as what the run is to report goes.
LEMMA NextCloses ==
  ASSUME RunInv, pc \notin Early, pc' \in Pcs \ Early, Steady,
         verdict' = verdict \/ verdict' = "failed", Told'
  PROVE  ReportInv'
<1>1. CutAtLimit'
  <2>1. pc' \notin {"verdict", "wait", "abort"}
    BY DEF Early, Pcs
  <2> QED
    BY <2>1, SteadyIs DEF RunInv, ReportInv, CutAtLimit, Steady
<1>2. Decided'
  BY SteadyIs DEF RunInv, ReportInv, Decided, Steady, Verdicts
<1> QED
  BY <1>1, <1>2 DEF ReportInv

LEMMA VerdictIs ==
  ASSUME RunInv, pc \notin Early
  PROVE  verdict \in Verdicts \ {"none"} /\ StatusOf(verdict) \in Statuses
BY DEF RunInv, ReportInv, Decided, Verdicts, Statuses, StatusOf

\* Whose conversation is empty, and who has no denied call.
LEMMA NoCut ==
  ASSUME RunInv
  PROVE  /\ path \notin OwnLoop => ~HasNudge
         /\ path # "copilot" => Denied = {}
         /\ Denied # {} => calls > maxTurns
<1>1. path \notin OwnLoop => ~HasNudge
  BY DEF RunInv, ConvInv, HasNudge
<1>2. path # "copilot" => Denied = {}
  BY DEF RunInv, TurnInv, OnItsPath, Denied, NewSdkCall
<1>3. Denied # {} => calls > maxTurns
  BY <1>2 DEF RunInv, TurnInv, ApprovalsCount
<1> QED
  BY <1>1, <1>2, <1>3

LEMMA NextVerdict ==
  ASSUME RunInv, OpenAIVerdict \/ AnthropicVerdict \/ CopilotVerdict \/ ClaudeVerdict
  PROVE  ReportInv'
<1>1. /\ pc = "verdict" /\ pc \in Early /\ pc' = "publish" /\ Steady /\ UNCHANGED record
  BY DEF OpenAIVerdict, AnthropicVerdict, OwnVerdict, CopilotVerdict, ClaudeVerdict, Goto, loop,
         session, Steady, Early, Pcs
<1>2. calls \in Nat /\ maxTurns \in Nat
  BY DEF RunInv, TurnInv, RunTypes
<1>3. CASE OpenAIVerdict \/ AnthropicVerdict
  <2>1. /\ path \in OwnLoop /\ path # "copilot"
        /\ verdict' = IF calls >= maxTurns THEN "max_turns_reached" ELSE "completed"
    BY <1>3 DEF OpenAIVerdict, AnthropicVerdict, OwnVerdict, OwnLoop
  <2>2. HasNudge \/ calls < Limit
    BY <1>1, <2>1 DEF RunInv, ReportInv, CutAtLimit
  <2>3. calls >= maxTurns => CutShort \/ maxTurns = 0
    BY <1>2, <2>2, CutIs DEF Limit
  <2>4. ~(calls >= maxTurns) => ~CutShort
    BY <2>1, NoCut, CutIs DEF RunInv, ReportInv, CutAtLimit
  <2> QED
    BY <1>1, <2>1, <2>3, <2>4, NextDecides DEF Verdicts
<1>4. CASE CopilotVerdict
  <2>1. /\ path = "copilot" /\ path \notin OwnLoop
        /\ verdict' = IF calls > maxTurns THEN "max_turns_reached" ELSE "completed"
    BY <1>4 DEF CopilotVerdict, OwnLoop
  <2>2. calls > maxTurns => CutShort
    BY <2>1, CutIs DEF RunInv, ReportInv, CutAtLimit
  <2>3. ~(calls > maxTurns) => ~CutShort
    BY <2>1, NoCut, CutIs
  <2> QED
    BY <1>1, <2>1, <2>2, <2>3, NextDecides DEF Verdicts
<1>5. CASE ClaudeVerdict
  <2>1. path = "claude" /\ path \notin OwnLoop /\ path # "copilot" /\ verdict' = "completed"
    BY <1>5 DEF ClaudeVerdict, OwnLoop
  <2>2. ~CutShort
    BY <2>1, NoCut, CutIs
  <2> QED
    BY <1>1, <2>1, <2>2, NextDecides DEF Verdicts
<1> QED
  BY <1>3, <1>4, <1>5

LEMMA NextEnd == ASSUME RunInv, Deadline \/ Abort \/ ClearHalt \/ Raise PROVE ReportInv'
<1>1. CASE Deadline \/ Abort
  <2>1. /\ pc \in Early /\ pc' = "publish" /\ Steady /\ UNCHANGED record
        /\ verdict' \in {"halted", "timed_out"}
    BY <1>1 DEF Deadline, Abort, Goto, loop, session, Steady, Early, Pcs
  <2> QED
    BY <2>1, NextDecides DEF Verdicts
<1>2. CASE ClearHalt
  <2>1. pc = "clear_halt" /\ pc \in Early /\ Steady /\ UNCHANGED record
    BY <1>2 DEF ClearHalt, loop, session, Steady, Early, Pcs
  <2>2. CASE path = "copilot"
    <3>1. pc' = "abort" /\ pc' \in Early /\ verdict' = verdict
      BY <1>2, <2>2 DEF ClearHalt, Goto, Early, Pcs
    <3> QED
      BY <2>1, <2>2, <3>1, NextWaiting
  <2>3. CASE path # "copilot"
    <3>1. pc' = "publish" /\ verdict' = "halted"
      BY <1>2, <2>3 DEF ClearHalt, Goto
    <3> QED
      BY <2>1, <3>1, NextDecides DEF Verdicts
  <2> QED
    BY <2>2, <2>3
<1>3. CASE Raise
  <2>1. /\ pc \in MayRaise /\ pc' = "publish" /\ Steady /\ UNCHANGED record /\ verdict' = "failed"
    BY <1>3 DEF Raise, Goto, loop, session, Steady
  <2>2. CASE pc \in Early
    BY <2>1, <2>2, NextDecides DEF Verdicts
  <2>3. CASE pc \notin Early
    <3>1. webhooks = {} /\ pc' \in Pcs \ Early
      BY <2>1, <2>3 DEF RunInv, ReportInv, Told, MayRaise, Early, Pcs
    <3>2. Told'
      BY <2>1, <3>1 DEF RunInv, ReportInv, Told, record
    <3> QED
      BY <2>1, <2>3, <3>1, <3>2, NextCloses
  <2> QED
    BY <2>2, <2>3
<1> QED
  BY <1>1, <1>2, <1>3

LEMMA NextClosing ==
  ASSUME RunInv, Publish \/ SaveTask \/ SaveWorkflow \/ FireWebhook \/ RaiseAgain \/ Cleanup
  PROVE  ReportInv'
<1>1. /\ pc \notin Early /\ pc' \in Pcs \ Early /\ Steady /\ verdict' = verdict
  BY DEF Publish, SaveTask, SaveWorkflow, FireWebhook, RaiseAgain, Cleanup, Goto, loop, session,
         Steady, Early, Pcs
<1>2. verdict \in Verdicts \ {"none"} /\ StatusOf(verdict) \in Statuses
  BY <1>1, VerdictIs
<1>3. Told
  BY DEF RunInv, ReportInv
<1>4. CASE Publish
  <2>1. /\ pc = "publish" /\ pc' = "save_task" /\ published' = StatusOf(verdict)
        /\ task' = task /\ webhooks' = webhooks
    BY <1>4 DEF Publish, Goto
  <2>2. Told'
    BY <1>1, <1>2, <1>3, <2>1 DEF Told, StatusOf
  <2> QED
    BY <1>1, <2>2, NextCloses
<1>5. CASE SaveTask
  <2>1. /\ pc = "save_task" /\ pc' = "save_wf" /\ task' = StatusOf(verdict)
        /\ published' = published /\ webhooks' = webhooks
    BY <1>5 DEF SaveTask, Goto
  <2>2. Told'
    BY <1>1, <1>2, <1>3, <2>1 DEF Told, StatusOf
  <2> QED
    BY <1>1, <2>2, NextCloses
<1>6. CASE SaveWorkflow
  <2>1. /\ pc = "save_wf" /\ pc' = "webhook" /\ UNCHANGED record
    BY <1>6 DEF SaveWorkflow, Goto
  <2>2. Told'
    BY <1>1, <1>3, <2>1 DEF Told, StatusOf, record
  <2> QED
    BY <1>1, <2>2, NextCloses
<1>7. CASE FireWebhook
  <2>1. /\ pc = "webhook" /\ pc' = "cleanup" /\ task' = task /\ published' = published
    BY <1>7 DEF FireWebhook, Goto
  <2>2. webhooks = {}
    BY <1>3, <2>1 DEF Told
  <2>3. /\ webhooks' \subseteq {"success", "error"}
        /\ "success" \in webhooks' => verdict = "completed"
        /\ "error" \in webhooks' => verdict = "failed"
    BY <1>7, <2>2 DEF FireWebhook
  <2>4. Told'
    BY <1>1, <1>3, <2>1, <2>3 DEF Told, StatusOf
  <2> QED
    BY <1>1, <2>4, NextCloses
<1>8. CASE RaiseAgain
  <2>1. /\ pc \in {"publish", "save_task", "save_wf", "webhook"} /\ pc' = "cleanup"
        /\ verdict = "failed" /\ UNCHANGED record
    BY <1>8 DEF RaiseAgain, Goto
  <2>2. webhooks = {}
    BY <1>3, <2>1 DEF Told
  <2>3. Told'
    BY <1>1, <1>3, <2>1, <2>2 DEF Told, record
  <2> QED
    BY <1>1, <2>3, NextCloses
<1>9. CASE Cleanup
  <2>1. pc = "cleanup" /\ pc' = "ended" /\ UNCHANGED record
    BY <1>9 DEF Cleanup, Goto
  <2>2. Told'
    BY <1>1, <1>3, <2>1 DEF Told, StatusOf, record
  <2> QED
    BY <1>1, <2>2, NextCloses
<1> QED
  BY <1>4, <1>5, <1>6, <1>7, <1>8, <1>9

LEMMA NextFlag == ASSUME RunInv, SetHalt \/ HaltExpires PROVE ReportInv'
<1>1. pc' = pc /\ Steady /\ UNCHANGED <<verdict, record>>
  BY DEF SetHalt, HaltExpires, loop, session, Steady
<1>2. CASE pc \in Early
  BY <1>1, <1>2, NextWaiting DEF RunInv, ReportInv, CutAtLimit
<1>3. CASE pc \notin Early
  <2>1. pc' \in Pcs \ Early
    BY <1>1, <1>3 DEF RunInv, TurnInv, RunTypes
  <2>2. Told'
    BY <1>1 DEF RunInv, ReportInv, Told, record, StatusOf
  <2> QED
    BY <1>1, <1>3, <2>1, <2>2, NextCloses
<1> QED
  BY <1>2, <1>3

LEMMA NextWaits ==
  ASSUME RunInv,
         \/ EnterCopilot \/ WaitEnds \/ PollHalt
         \/ EnterClaude \/ CheckBetweenStreams \/ \E r \in {"environment", "agent", "session"} : CreateClaude(r)
         \/ RetryRequest \/ RateLimited \/ AnswerWithText
         \/ SessionOver \/ ClaudeEnds \/ StreamCut
  PROVE  ReportInv'
<1>1. /\ pc \in Early /\ pc' \in Early /\ Steady /\ UNCHANGED <<verdict, record>>
      /\ pc' \in {"wait", "abort"} => path = "copilot"
  <2>1. CASE EnterCopilot \/ WaitEnds \/ PollHalt
    BY <2>1 DEF EnterCopilot, WaitEnds, PollHalt, Goto, loop, session, Steady, Early, Pcs
  <2>2. CASE EnterClaude \/ CheckBetweenStreams \/ \E r \in {"environment", "agent", "session"} : CreateClaude(r)
    BY <2>2 DEF EnterClaude, CheckBetweenStreams, CreateClaude, Goto, loop, session, Steady, Early, Pcs
  <2>3. CASE RetryRequest \/ RateLimited \/ AnswerWithText
    BY <2>3 DEF RetryRequest, RateLimited, AnswerWithText, Goto, loop, session, Steady, Early, Pcs
  <2>4. CASE SessionOver \/ ClaudeEnds \/ StreamCut
    BY <2>4 DEF SessionOver, Live, ClaudeEnds, StreamCut, Goto, loop, session, Steady, Early, Pcs
  <2> QED
    BY <2>1, <2>2, <2>3, <2>4
<1>2. ASSUME pc' = "verdict", path \in OwnLoop PROVE pc = "verdict" \/ HasNudge \/ calls < Limit
  <2>1. \/ WaitEnds \/ AnswerWithText \/ ClaudeEnds \/ pc = "verdict"
    BY <1>2 DEF EnterCopilot, PollHalt, EnterClaude, CheckBetweenStreams, CreateClaude, RetryRequest,
                RateLimited, SessionOver, StreamCut, Goto
  <2>2. CASE WaitEnds
    <3>1. pc = "wait"
      BY <2>2 DEF WaitEnds
    <3> QED
      BY <1>2, <3>1 DEF RunInv, ReportInv, CutAtLimit, OwnLoop
  <2>3. CASE ClaudeEnds
    <3>1. pc = "stream"
      BY <2>3 DEF ClaudeEnds
    <3> QED
      BY <1>2, <3>1 DEF RunInv, TurnInv, OnItsPath, OwnLoop
  <2>4. CASE AnswerWithText /\ pc = "send"
    BY <1>2, <2>4 DEF RunInv, TurnInv, TurnsFit
  <2>5. CASE AnswerWithText /\ pc = "final_send"
    <3>1. conv \in Seq(Message) /\ conv[Len(conv)] = Nudge /\ Begins(path, conv)
      BY <2>5 DEF RunInv, ConvInv, OwnPcs
    <3>2. Len(FirstMessages(path)) \in {1, 2}
      BY FirstMessagesAre
    <3>3. Len(conv) \in DOMAIN conv
      BY <3>1, <3>2 DEF Begins
    <3> QED
      BY <3>1, <3>3 DEF HasNudge
  <2>6. AnswerWithText => pc \in {"send", "final_send"}
    BY DEF AnswerWithText
  <2> QED
    BY <2>1, <2>2, <2>3, <2>4, <2>5, <2>6
<1> QED
  BY <1>1, <1>2, NextWaiting

LEMMA NextTurnReport ==
  ASSUME RunInv, ConvInv',
         \/ EnterOpenAI \/ EnterAnthropic \/ PrepareRequest \/ AnswerWithCalls
         \/ ExecuteOpenAITool \/ ExecuteAnthropicTool \/ AfterOpenAITurn \/ AfterAnthropicTurn
  PROVE  ReportInv'
<1>0. pc \in OwnPcs => path \in OwnLoop
  BY DEF RunInv, TurnInv, OnItsPath, OwnPcs
<1>1. /\ pc \in Early /\ pc' \in OwnPcs /\ path \in OwnLoop
      /\ UNCHANGED <<path, maxTurns, sdk, verdict, record>>
      /\ pc' = "final_send" => calls' >= maxTurns'
  <2>1. CASE EnterOpenAI \/ EnterAnthropic
    BY <2>1 DEF EnterOpenAI, EnterAnthropic, EnterLoop, Goto, session, Early, Pcs, OwnPcs, OwnLoop
  <2>2. CASE PrepareRequest \/ AnswerWithCalls
    BY <2>2, <1>0 DEF PrepareRequest, AnswerWithCalls, Goto, session, Early, Pcs, OwnPcs
  <2>3. CASE ExecuteOpenAITool \/ ExecuteAnthropicTool
    BY <2>3, <1>0 DEF ExecuteOpenAITool, ExecuteAnthropicTool, Goto, session, Early, Pcs, OwnPcs
  <2>4. ASSUME NEW p, NEW ms, AfterTurn(p, ms)
        PROVE  /\ pc = "tools" /\ pc' \in {"final_send", "request"}
               /\ UNCHANGED <<path, maxTurns, sdk, verdict, record>>
               /\ pc' = "final_send" => calls' >= maxTurns'
    BY <2>4 DEF AfterTurn, Goto, session
  <2>5. CASE AfterOpenAITurn \/ AfterAnthropicTurn
    BY <2>4, <2>5, <1>0 DEF AfterOpenAITurn, AfterAnthropicTurn, Early, Pcs, OwnPcs
  <2> QED
    BY <2>1, <2>2, <2>3, <2>5
<1> QED
  BY <1>1, NextOwnTurn

LEMMA NextSdkReport ==
  ASSUME RunInv, ClaudeToolUse \/ \E k \in SdkIds : OpenCall(k) \/ AskPermission(k) \/ AskHook(k) \/ RunCall(k)
  PROVE  ReportInv'
<1>1. /\ pc' = pc /\ pc \in Early /\ pc # "verdict" /\ path \notin OwnLoop
      /\ UNCHANGED <<path, maxTurns, conv, verdict, record>>
  <2>1. CASE ClaudeToolUse
    <3>1. pc = "stream" /\ pc' = pc /\ UNCHANGED <<path, maxTurns, conv, verdict, record>>
      BY <2>1 DEF ClaudeToolUse
    <3> QED
      BY <3>1 DEF RunInv, TurnInv, OnItsPath, OwnLoop, Early, Pcs
  <2>2. CASE \E k \in SdkIds : OpenCall(k) \/ AskPermission(k) \/ AskHook(k) \/ RunCall(k)
    <3>1. Live /\ pc' = pc /\ UNCHANGED <<path, maxTurns, conv, verdict, record>>
      BY <2>2 DEF OpenCall, AskPermission, AskHook, Ask, RunCall, loop
    <3> QED
      BY <3>1 DEF Live, OwnLoop, Early, Pcs
  <2> QED
    BY <2>1, <2>2
<1>2. ~HasNudge'
  BY <1>1, NoCut DEF HasNudge
<1>3. path = "copilot" /\ calls' > maxTurns => Denied' # {}
  <2> SUFFICES ASSUME path = "copilot", calls' > maxTurns PROVE Denied' # {}
    OBVIOUS
  <2>1. calls > maxTurns => Denied # {}
    BY DEF RunInv, ReportInv, CutAtLimit
  <2>2. sdk \in [SdkIds -> SdkCall]
    BY DEF RunInv, TurnInv, RunTypes
  <2>3. PICK k \in SdkIds : OpenCall(k) \/ AskPermission(k) \/ AskHook(k) \/ RunCall(k)
    <3>1. ~ClaudeToolUse
      BY DEF ClaudeToolUse, RunInv, TurnInv, OnItsPath
    <3> QED
      BY <3>1
  <2>4. CASE OpenCall(k) \/ RunCall(k)
    <3>1. calls' = calls /\ sdk[k].fate \in {"new", "open"}
      BY <2>4 DEF OpenCall, RunCall, loop
    <3>2. \A j \in SdkIds \ {k} : sdk'[j] = sdk[j]
      BY <2>2, <2>4 DEF OpenCall, RunCall
    <3>3. \E j \in Denied : j # k /\ sdk'[j].fate = "denied"
      BY <2>1, <3>1, <3>2 DEF Denied
    <3> QED
      BY <3>3 DEF Denied
  <2>5. CASE AskPermission(k) \/ AskHook(k)
    <3>1. PICK which : Ask(k, which)
      BY <2>5 DEF AskPermission, AskHook
    <3>2. sdk'[k].fate = "denied"
      BY <2>2, <3>1 DEF Ask, SdkCall
    <3> QED
      BY <3>2 DEF Denied
  <2> QED
    BY <2>3, <2>4, <2>5
<1>4. CutAtLimit'
  BY <1>1, <1>2, <1>3 DEF RunInv, ReportInv, CutAtLimit
<1> QED
  BY <1>1, <1>4, NextUndecided

LEMMA NextStartReport == ASSUME RunInv, NEW p \in Paths, Start(p) PROVE ReportInv'
<1>1. /\ pc = "idle" /\ pc' = "connect" /\ conv' = conv /\ calls' = calls /\ calls = 0 /\ maxTurns' \in Nat
      /\ UNCHANGED <<verdict, record>>
  BY LimitsAreNaturals DEF Start, Goto, loop, RunInv, TurnInv, OnItsPath
<1>2. ~HasNudge'
  BY <1>1 DEF HasNudge, RunInv, ConvInv
<1>3. CutAtLimit'
  BY <1>1, <1>2 DEF CutAtLimit
<1> QED
  BY <1>1, <1>3, NextUndecided DEF Early, Pcs

LEMMA NextRun == RunInv /\ [RunNext]_<<vars, setup>> => RunInv'
<1> SUFFICES ASSUME RunInv, [RunNext]_<<vars, setup>> PROVE RunInv'
  OBVIOUS
<1>1. TurnInv' /\ ConvInv'
  BY NextTurns, NextConv DEF RunInv
<1>2. CASE UNCHANGED <<vars, setup>>
  <2>1. Steady /\ pc' = pc /\ UNCHANGED <<verdict, record>>
    BY <1>2 DEF vars, Steady, record
  <2>2. CutAtLimit'
    BY <2>1, SteadyIs DEF RunInv, ReportInv, CutAtLimit, Steady
  <2>3. Decided' /\ Told'
    BY <2>1, SteadyIs DEF RunInv, ReportInv, Decided, Told, Steady, record, StatusOf
  <2> QED
    BY <1>1, <2>2, <2>3 DEF RunInv, ReportInv
<1>3. CASE Route
  <2>1. ResolvedPath(setup) \in Paths
    BY DEF ResolvedPath, Paths
  <2> QED
    BY <1>1, <1>3, <2>1, NextStartReport DEF Route, RunInv
<1>4. CASE pc # "idle" /\ LoopSteps
  <2>1. CASE EngineSteps
    BY <1>1, <2>1, NextTurnReport, NextVerdict, NextWaits, NextEnd, NextClosing
       DEF EngineSteps, OwnSteps, CopilotSteps, ClaudeSteps, ClosingSteps, RunInv
  <2>2. CASE ProviderSteps
    BY <1>1, <2>2, NextWaits, NextTurnReport DEF ProviderSteps, RunInv
  <2>3. CASE SdkSteps
    BY <1>1, <2>3, NextWaits, NextSdkReport DEF SdkSteps, RunInv
  <2>4. CASE Deadline \/ Raise \/ RaiseAgain \/ SetHalt \/ HaltExpires
    BY <1>1, <2>4, NextEnd, NextClosing, NextFlag DEF RunInv
  <2> QED
    BY <1>4, <2>1, <2>2, <2>3, <2>4 DEF LoopSteps
<1> QED
  BY <1>2, <1>3, <1>4 DEF RunNext

LEMMA InitRun == RunInit => RunInv
BY InitTurns, InitConv, InitReport DEF RunInv

\* A run tells one story, whatever raises in its closing sequence, for any limit,
\* any number of calls and any order of approvals.
THEOREM RunsTellOneStory == RunSpec => []ReportsAgree
<1>1. RunInv => ReportsAgree
  <2> SUFFICES ASSUME RunInv PROVE ReportsAgree
    OBVIOUS
  <2>1. Decided /\ Told
    BY DEF RunInv, ReportInv
  <2> QED
    BY <2>1 DEF Decided, Told, ReportsAgree, StatusOf
<1> QED
  BY <1>1, InitRun, NextRun, PTL DEF RunSpec

-----------------------------------------------------------------------------
(* Types *)

LoopRest ==
  /\ attempt \in 0..MaxRetries /\ done \in BOOLEAN /\ halt \in BOOLEAN
  /\ made \subseteq {"environment", "agent", "session"}

LEMMA NextRest == ASSUME LoopRest, [RunNext]_<<vars, setup>> PROVE LoopRest'
<1> USE DEF LoopRest, loop, session, Goto
<1>0. MaxRetries \in Nat
  BY SettingsAreNaturals
<1>1. CASE UNCHANGED <<vars, setup>>
  BY <1>1 DEF vars
<1>2. CASE Route
  BY <1>2 DEF Route, Start
<1>3. ASSUME OwnSteps PROVE LoopRest'
  <2>0. 0 \in 0..MaxRetries
    BY <1>0
  <2>1. ASSUME NEW p, NEW ms, AfterTurn(p, ms) PROVE LoopRest'
    <3>1. attempt' \in {0, attempt} /\ UNCHANGED <<session, halt>>
      BY <2>1 DEF AfterTurn
    <3> QED
      BY <3>1, <2>0
  <2>2. CASE EnterOpenAI \/ EnterAnthropic \/ ExecuteOpenAITool \/ ExecuteAnthropicTool
    BY <2>2 DEF EnterOpenAI, EnterAnthropic, EnterLoop, ExecuteOpenAITool, ExecuteAnthropicTool
  <2>3. CASE PrepareRequest
    BY <2>0, <2>3 DEF PrepareRequest
  <2>4. CASE OpenAIVerdict \/ AnthropicVerdict
    BY <2>4 DEF OpenAIVerdict, AnthropicVerdict, OwnVerdict
  <2> QED
    BY <1>3, <2>1, <2>2, <2>3, <2>4 DEF OwnSteps, AfterOpenAITurn, AfterAnthropicTurn
<1>4. ASSUME CopilotSteps PROVE LoopRest'
  BY <1>4 DEF CopilotSteps, EnterCopilot, WaitEnds, PollHalt, Abort, CopilotVerdict
<1>5. ASSUME ClaudeSteps PROVE LoopRest'
  BY <1>5 DEF ClaudeSteps, EnterClaude, CheckBetweenStreams, ClaudeVerdict, CreateClaude
<1>6. ASSUME ClosingSteps PROVE LoopRest'
  BY <1>6 DEF ClosingSteps, ClearHalt, Publish, SaveTask, SaveWorkflow, FireWebhook, Cleanup
<1>7. ASSUME ProviderSteps PROVE LoopRest'
  <2>1. CASE RetryRequest
    <3>1. attempt < MaxRetries /\ attempt' = attempt + 1 /\ UNCHANGED <<session, halt>>
      BY <2>1 DEF RetryRequest
    <3>2. attempt' \in 0..MaxRetries
      BY <1>0, <3>1
    <3> QED
      BY <3>1, <3>2
  <2>2. CASE RateLimited \/ AnswerWithCalls \/ AnswerWithText
    BY <2>2 DEF RateLimited, AnswerWithCalls, AnswerWithText
  <2> QED
    BY <1>7, <2>1, <2>2 DEF ProviderSteps
<1>8. ASSUME SdkSteps PROVE LoopRest'
  BY <1>8 DEF SdkSteps, SessionOver, ClaudeToolUse, ClaudeEnds, StreamCut, OpenCall, AskPermission,
              AskHook, Ask, RunCall
<1>9. ASSUME Deadline \/ Raise \/ RaiseAgain \/ SetHalt \/ HaltExpires PROVE LoopRest'
  BY <1>9 DEF Deadline, Raise, RaiseAgain, SetHalt, HaltExpires
<1> QED
  BY <1>1, <1>2, <1>3, <1>4, <1>5, <1>6, <1>7, <1>8, <1>9 DEF RunNext, LoopSteps, EngineSteps

\* The variables of a run stay in their domains, for any bounds and settings.
THEOREM RunTypeCorrect == RunSpec => []LoopTypeOK
<1>1. RunInit => LoopRest
  <2>1. 0 \in 0..MaxRetries
    BY SettingsAreNaturals
  <2> QED
    BY <2>1 DEF RunInit, LoopInit, LoopRest
<1>2. LoopRest /\ [RunNext]_<<vars, setup>> => LoopRest'
  BY NextRest
<1>3. RunInv /\ LoopRest => LoopTypeOK
  BY DEF RunInv, TurnInv, RunTypes, ConvInv, ReportInv, Decided, Told, LoopRest, LoopTypeOK
<1> QED
  BY <1>1, <1>2, <1>3, InitRun, NextRun, PTL DEF RunSpec

-----------------------------------------------------------------------------
(* Induction over data, by the least counterexample *)

\* A set of numbers that has 0 and with a number the next has them all.
LEMMA AllNumbers ==
  ASSUME NEW S, 0 \in S, \A k \in Nat : k \in S => k + 1 \in S
  PROVE  Nat \subseteq S
<1> DEFINE T == Nat \ S
<1>1. SUFFICES ASSUME T # {} PROVE FALSE
  OBVIOUS
<1>2. PICK m \in T : \A k \in T : <<k, m>> \notin OpToRel(<, Nat)
  <2> HIDE DEF T
  <2>1. T \subseteq Nat
    BY DEF T
  <2> QED
    BY <1>1, <2>1, NatLessThanWellFounded, WFMin
<1>3. m \in Nat /\ m \notin S /\ m # 0
  BY <1>2
<1>4. m - 1 \in Nat /\ m - 1 < m
  BY <1>3
<1>5. m - 1 \in S
  BY <1>2, <1>3, <1>4 DEF OpToRel
<1> QED
  BY <1>3, <1>4, <1>5

\* The largest of some numbers up to n.
LEMMA LargestIs ==
  ASSUME NEW n \in Nat, NEW s \in SUBSET (1..n), s # {}
  PROVE  Max(s) \in s /\ \A y \in s : Max(s) >= y
<1> DEFINE ups == {k \in Nat : \A y \in s : y <= k}
<1>1. n \in ups /\ ups \subseteq Nat
  OBVIOUS
<1>2. PICK m \in ups : \A k \in ups : <<k, m>> \notin OpToRel(<, Nat)
  BY <1>1, NatLessThanWellFounded, WFMin
<1>3. m \in Nat /\ m # 0
  <2>1. PICK y \in s : TRUE
    OBVIOUS
  <2>2. y \in 1..n /\ y <= m
    BY <2>1
  <2> QED
    BY <2>2
<1>4. m - 1 \in Nat /\ m - 1 < m /\ m - 1 \notin ups
  <2>1. m - 1 \in Nat /\ m - 1 < m
    BY <1>3
  <2>2. m - 1 \in ups => <<m - 1, m>> \in OpToRel(<, Nat)
    BY <1>3, <2>1 DEF OpToRel
  <2> QED
    BY <1>2, <2>1, <2>2
<1>5. m \in s
  <2>1. PICK y \in s : ~(y <= m - 1)
    BY <1>4
  <2>2. y \in Nat /\ y <= m
    BY <2>1
  <2>3. y = m
    BY <2>1, <2>2, <1>3
  <2> QED
    BY <2>1, <2>3
<1>6. \E x \in s : \A y \in s : x >= y
  BY <1>2, <1>5
<1> QED
  BY <1>6 DEF Max

\* g is, for the sets of the numbers up to k, what a fold with this step defines.
FoldsUpTo(g, k, base, step) ==
  \A s \in SUBSET (1..k) :
    g[s] = IF s = {} THEN base ELSE step[<<g[s \ {Max(s)}], Max(s)>>]

\* There is such a function for any number of elements.
LEMMA FoldExists ==
  ASSUME NEW n \in Nat, NEW A, NEW base \in A, NEW step \in [A \X (1..n) -> A]
  PROVE  \E it \in [SUBSET (1..n) -> A] : FoldsUpTo(it, n, base, step)
<1> DEFINE Has(k) == k <= n => \E g \in [SUBSET (1..k) -> A] : FoldsUpTo(g, k, base, step)
           S == {k \in Nat : Has(k)}
<1>1. Has(0)
  <2> DEFINE g == [s \in SUBSET (1..0) |-> base]
  <2>1. \A s \in SUBSET (1..0) : s = {}
    OBVIOUS
  <2>2. g \in [SUBSET (1..0) -> A] /\ FoldsUpTo(g, 0, base, step)
    BY <2>1 DEF FoldsUpTo
  <2> QED
    BY <2>2
<1>2. ASSUME NEW k \in Nat, Has(k) PROVE Has(k + 1)
  <2>1. SUFFICES ASSUME k + 1 <= n
                 PROVE  \E g \in [SUBSET (1..(k + 1)) -> A] : FoldsUpTo(g, k + 1, base, step)
    OBVIOUS
  <2>2. PICK g \in [SUBSET (1..k) -> A] : FoldsUpTo(g, k, base, step)
    <3>1. k <= n
      BY <2>1
    <3> QED
      BY <1>2, <3>1, Zenon
  <2> DEFINE h == [s \in SUBSET (1..(k + 1)) |->
                    IF k + 1 \in s THEN step[<<g[s \ {k + 1}], k + 1>>] ELSE g[s]]
  <2>3. ASSUME NEW s \in SUBSET (1..(k + 1)), k + 1 \in s
        PROVE  Max(s) = k + 1 /\ s \ {k + 1} \in SUBSET (1..k)
    <3>1. k + 1 \in Nat /\ s # {} /\ s \in SUBSET (1..(k + 1))
      BY <2>3
    <3>2. Max(s) \in s /\ Max(s) >= k + 1
      BY <2>3, <3>1, LargestIs
    <3>3. Max(s) \in 1..(k + 1)
      BY <3>2
    <3>4. Max(s) = k + 1
      BY <3>2, <3>3
    <3>5. \A x \in s \ {k + 1} : x \in 1..k
      BY <3>1
    <3> QED
      BY <3>4, <3>5
  <2>4. ASSUME NEW s \in SUBSET (1..(k + 1)), k + 1 \notin s
        PROVE  s \in SUBSET (1..k)
    BY <2>4
  <2>5. h \in [SUBSET (1..(k + 1)) -> A]
    <3>1. ASSUME NEW s \in SUBSET (1..(k + 1)) PROVE h[s] \in A
      <4>1. CASE k + 1 \in s
        <5>1. g[s \ {k + 1}] \in A /\ k + 1 \in 1..n
          BY <2>1, <2>3, <4>1
        <5> QED
          BY <4>1, <5>1
      <4>2. CASE k + 1 \notin s
        BY <2>4, <4>2
      <4> QED
        BY <4>1, <4>2
    <3> QED
      BY <3>1
  <2>6. ASSUME NEW s \in SUBSET (1..(k + 1))
        PROVE  h[s] = IF s = {} THEN base ELSE step[<<h[s \ {Max(s)}], Max(s)>>]
    <3>1. CASE k + 1 \in s
      <4>1. Max(s) = k + 1 /\ h[s] = step[<<g[s \ {k + 1}], k + 1>>]
        BY <2>3, <3>1
      <4>2. h[s \ {k + 1}] = g[s \ {k + 1}]
        BY <2>3, <3>1
      <4> QED
        BY <3>1, <4>1, <4>2
    <3>2. CASE k + 1 \notin s
      <4>1. s \in SUBSET (1..k) /\ h[s] = g[s]
        BY <2>4, <3>2
      <4>2. s # {} => h[s \ {Max(s)}] = g[s \ {Max(s)}]
        BY <3>2
      <4> QED
        BY <2>2, <4>1, <4>2 DEF FoldsUpTo
    <3> QED
      BY <3>1, <3>2
  <2> HIDE DEF h
  <2> QED
    BY <2>5, <2>6 DEF FoldsUpTo
<1>3. Has(n)
  <2> HIDE DEF Has
  <2>1. 0 \in S /\ \A k \in Nat : k \in S => k + 1 \in S
    BY <1>1, <1>2
  <2> HIDE DEF S
  <2>2. n \in S
    BY <2>1, AllNumbers
  <2> QED
    BY <2>2 DEF S
<1>4. PICK g \in [SUBSET (1..n) -> A] : FoldsUpTo(g, n, base, step)
  <2>1. n <= n
    OBVIOUS
  <2> QED
    BY <1>3, <2>1, Zenon
<1> QED
  BY <1>4

\* it is, wherever it stays in A, what a fold with this step defines.
Folding(it, n, A, base, step) ==
  /\ it[{}] = base
  /\ \A s \in SUBSET (1..n) :
       s # {} /\ it[s \ {Max(s)}] \in A => it[s] = step[<<it[s \ {Max(s)}], Max(s)>>]

\* f goes from base through n elements to end.
Going(f, n, base, step, end) ==
  /\ f[0] = base /\ f[n] = end
  /\ \A k \in 1..n : f[k] = step[<<f[k - 1], k>>]

\* Such a function goes through the elements one after the other.
LEMMA FoldGoes ==
  ASSUME NEW n \in Nat, NEW A, NEW base \in A, NEW step \in [A \X (1..n) -> A], NEW it,
         Folding(it, n, A, base, step)
  PROVE  \E f \in [0..n -> A] : Going(f, n, base, step, it[1..n])
<1> DEFINE f == [k \in 0..n |-> it[1..k]]
           S == {k \in Nat : k <= n => it[1..k] \in A}
<1>1. ASSUME NEW k \in 1..n
      PROVE  1..k # {} /\ Max(1..k) = k /\ (1..k) \ {Max(1..k)} = 1..(k - 1) /\ 1..k \in SUBSET (1..n)
  <2>1. 1..k \in SUBSET (1..n) /\ k \in 1..k
    OBVIOUS
  <2>2. Max(1..k) \in 1..k /\ Max(1..k) >= k
    BY <2>1, LargestIs
  <2>3. Max(1..k) = k
    BY <2>2
  <2>4. \A x : x \in (1..k) \ {k} <=> x \in 1..(k - 1)
    OBVIOUS
  <2>5. (1..k) \ {k} = 1..(k - 1)
    BY <2>4
  <2> QED
    BY <2>1, <2>3, <2>5
<1>2. 1..0 = {}
  OBVIOUS
<1>3. ASSUME NEW k \in 1..n, it[1..(k - 1)] \in A
      PROVE  it[1..k] = step[<<it[1..(k - 1)], k>>] /\ it[1..k] \in A
  <2>1. it[1..k] = step[<<it[1..(k - 1)], k>>]
    BY <1>1, <1>3 DEF Folding
  <2> QED
    BY <1>3, <2>1
<1>4. 0 \in S
  BY <1>2 DEF Folding
<1>5. ASSUME NEW k \in Nat, k \in S PROVE k + 1 \in S
  <2>1. SUFFICES ASSUME k + 1 <= n PROVE it[1..(k + 1)] \in A
    OBVIOUS
  <2>2. k + 1 \in 1..n /\ (k + 1) - 1 = k /\ it[1..k] \in A
    BY <1>5, <2>1
  <2> QED
    BY <1>3, <2>2
<1>6. \A k \in 0..n : it[1..k] \in A
  <2> HIDE DEF S
  <2>1. Nat \subseteq S
    BY <1>4, <1>5, AllNumbers
  <2> QED
    BY <2>1 DEF S
<1>7. f \in [0..n -> A] /\ f[0] = base /\ f[n] = it[1..n]
  BY <1>2, <1>6 DEF Folding
<1>8. \A k \in 1..n : f[k] = step[<<f[k - 1], k>>]
  BY <1>3, <1>6
<1> HIDE DEF f
<1> QED
  BY <1>7, <1>8 DEF Going

-----------------------------------------------------------------------------
Section == [skill : Skill, size : Nat]
PromptSoFar == [sections : Seq(Section), chars : Nat, seen : SUBSET Skill, refused : BOOLEAN]

\* What is known of a section that is added, and that a full prompt refuses it.
LEMMA AddSkillIs ==
  ASSUME NEW acc \in PromptSoFar, NEW sk \in Skill
  PROVE  /\ AddSkill(acc, sk) \in PromptSoFar /\ AddSkill(acc, sk).seen = acc.seen
         /\ \/ AddSkill(acc, sk).sections = acc.sections /\ AddSkill(acc, sk).chars = acc.chars
            \/ \E size \in Nat :
                 /\ AddSkill(acc, sk).sections = Append(acc.sections, [skill |-> sk, size |-> size])
                 /\ AddSkill(acc, sk).chars = acc.chars + size + 1
                 /\ acc.chars + size <= SkillBudget
<1> DEFINE room == SkillBudget - acc.chars - SkillOverhead[sk]
           size == SkillOverhead[sk] + (IF SkillLength[sk] < room THEN SkillLength[sk] ELSE room)
           full == [acc EXCEPT !.refused = TRUE]
           more == [acc EXCEPT !.sections = Append(@, [skill |-> sk, size |-> size]),
                               !.chars = @ + size + 1, !.refused = FALSE]
<1>1. room \in Int /\ SkillOverhead[sk] \in Nat /\ SkillLength[sk] \in Nat /\ SkillBudget \in Nat /\ acc.chars \in Nat
  BY SizesAreNaturals DEF PromptSoFar
<1>2. CASE room <= 0
  <2>1. AddSkill(acc, sk) = full
    BY <1>2 DEF AddSkill
  <2>2. /\ full \in PromptSoFar /\ full.seen = acc.seen
        /\ full.sections = acc.sections /\ full.chars = acc.chars
    BY DEF PromptSoFar
  <2> QED
    BY <2>1, <2>2
<1>3. CASE ~(room <= 0)
  <2>1. AddSkill(acc, sk) = more
    BY <1>3 DEF AddSkill
  <2>2. size \in Nat /\ acc.chars + size <= SkillBudget
    BY <1>1, <1>3
  <2> HIDE DEF size
  <2>3. [skill |-> sk, size |-> size] \in Section
    BY <2>2 DEF Section
  <2>4. Append(acc.sections, [skill |-> sk, size |-> size]) \in Seq(Section)
    BY <2>3, AppendProperties DEF PromptSoFar
  <2>5. acc.chars + size + 1 \in Nat
    BY <1>1, <2>2
  <2>6. /\ more \in PromptSoFar /\ more.seen = acc.seen
        /\ more.sections = Append(acc.sections, [skill |-> sk, size |-> size])
        /\ more.chars = acc.chars + size + 1
    BY <2>4, <2>5 DEF PromptSoFar
  <2> QED
    BY <2>1, <2>2, <2>6
<1> QED
  BY <1>1, <1>2, <1>3

LEMMA SeenIs ==
  ASSUME NEW acc \in PromptSoFar, NEW sk \in Skill
  PROVE  LET new == [acc EXCEPT !.seen = @ \cup {sk}]
         IN new \in PromptSoFar /\ new.seen = acc.seen \cup {sk} /\ new.sections = acc.sections /\ new.chars = acc.chars
BY DEF PromptSoFar

LEMMA NamedFolds ==
  ASSUME NEW base \in PromptSoFar, NEW q \in Seq(Skill)
  PROVE  \E f \in [0..Len(q) -> PromptSoFar] :
           /\ f[0] = base /\ f[Len(q)] = FoldLeft(AddNamed, base, q)
           /\ \A k \in 1..Len(q) : f[k] = AddNamed(f[k - 1], q[k])
<1> DEFINE n == Len(q)
           step == [p \in PromptSoFar \X (1..n) |-> AddNamed(p[1], q[p[2]])]
           it == CHOOSE i : i = [s \in SUBSET DOMAIN q |->
                   IF s = {} THEN base ELSE AddNamed(i[s \ {Max(s)}], q[Max(s)])]
<1>1. n \in Nat /\ DOMAIN q = 1..n /\ \A k \in 1..n : q[k] \in Skill
  BY ElementOfSeq, LenProperties
<1>2. \A a \in PromptSoFar, sk \in Skill : AddNamed(a, sk) \in PromptSoFar
  BY SeenIs, AddSkillIs DEF AddNamed
<1>3. \A a \in PromptSoFar, k \in 1..n : step[<<a, k>>] = AddNamed(a, q[k]) /\ AddNamed(a, q[k]) \in PromptSoFar
  BY <1>1, <1>2
<1>4. step \in [PromptSoFar \X (1..n) -> PromptSoFar]
  BY <1>3
<1>5. FoldLeft(AddNamed, base, q) = it[1..n]
  BY <1>1 DEF FoldLeft, MapThenFoldSet
<1> HIDE DEF n, step
<1>6. it = [s \in SUBSET (1..n) |-> IF s = {} THEN base ELSE AddNamed(it[s \ {Max(s)}], q[Max(s)])]
  <2>1. PICK g \in [SUBSET (1..n) -> PromptSoFar] : FoldsUpTo(g, n, base, step)
    BY <1>1, <1>4, FoldExists
  <2>2. ASSUME NEW s \in SUBSET (1..n), s # {}
        PROVE  step[<<g[s \ {Max(s)}], Max(s)>>] = AddNamed(g[s \ {Max(s)}], q[Max(s)])
    <3>1. Max(s) \in 1..n
      BY <1>1, <2>2, LargestIs
    <3>2. s \ {Max(s)} \in SUBSET (1..n)
      OBVIOUS
    <3> QED
      BY <1>3, <3>1, <3>2
  <2>3. g = [s \in SUBSET (1..n) |-> IF s = {} THEN base ELSE AddNamed(g[s \ {Max(s)}], q[Max(s)])]
    BY <2>1, <2>2 DEF FoldsUpTo
  <2> QED
    BY <1>1, <2>3
<1> HIDE DEF it
<1>7. it[{}] = base
  BY <1>6
<1>8. ASSUME NEW s \in SUBSET (1..n), s # {}, it[s \ {Max(s)}] \in PromptSoFar
      PROVE  it[s] = step[<<it[s \ {Max(s)}], Max(s)>>]
  <2>1. Max(s) \in 1..n
    BY <1>1, <1>8, LargestIs
  <2> QED
    BY <1>3, <1>6, <1>8, <2>1
<1>9. Folding(it, n, PromptSoFar, base, step)
  BY <1>7, <1>8 DEF Folding
<1>10. PICK f \in [0..n -> PromptSoFar] : Going(f, n, base, step, it[1..n])
  BY <1>1, <1>4, <1>9, FoldGoes
<1>11. \A k \in 1..n : f[k] = AddNamed(f[k - 1], q[k])
  <2>1. \A k \in 1..n : k - 1 \in 0..n
    BY <1>1
  <2> QED
    BY <1>3, <1>10, <2>1 DEF Going
<1> QED
  BY <1>5, <1>10, <1>11 DEF n, Going

LEMMA TaggedFolds ==
  ASSUME NEW base \in PromptSoFar, NEW q \in Seq(Skill)
  PROVE  \E f \in [0..Len(q) -> PromptSoFar] :
           /\ f[0] = base /\ f[Len(q)] = FoldLeft(AddTagged, base, q)
           /\ \A k \in 1..Len(q) : f[k] = AddTagged(f[k - 1], q[k])
<1> DEFINE n == Len(q)
           step == [p \in PromptSoFar \X (1..n) |-> AddTagged(p[1], q[p[2]])]
           it == CHOOSE i : i = [s \in SUBSET DOMAIN q |->
                   IF s = {} THEN base ELSE AddTagged(i[s \ {Max(s)}], q[Max(s)])]
<1>1. n \in Nat /\ DOMAIN q = 1..n /\ \A k \in 1..n : q[k] \in Skill
  BY ElementOfSeq, LenProperties
<1>2. \A a \in PromptSoFar, sk \in Skill : AddTagged(a, sk) \in PromptSoFar
  BY SeenIs, AddSkillIs DEF AddTagged
<1>3. \A a \in PromptSoFar, k \in 1..n : step[<<a, k>>] = AddTagged(a, q[k]) /\ AddTagged(a, q[k]) \in PromptSoFar
  BY <1>1, <1>2
<1>4. step \in [PromptSoFar \X (1..n) -> PromptSoFar]
  BY <1>3
<1>5. FoldLeft(AddTagged, base, q) = it[1..n]
  BY <1>1 DEF FoldLeft, MapThenFoldSet
<1> HIDE DEF n, step
<1>6. it = [s \in SUBSET (1..n) |-> IF s = {} THEN base ELSE AddTagged(it[s \ {Max(s)}], q[Max(s)])]
  <2>1. PICK g \in [SUBSET (1..n) -> PromptSoFar] : FoldsUpTo(g, n, base, step)
    BY <1>1, <1>4, FoldExists
  <2>2. ASSUME NEW s \in SUBSET (1..n), s # {}
        PROVE  step[<<g[s \ {Max(s)}], Max(s)>>] = AddTagged(g[s \ {Max(s)}], q[Max(s)])
    <3>1. Max(s) \in 1..n
      BY <1>1, <2>2, LargestIs
    <3>2. s \ {Max(s)} \in SUBSET (1..n)
      OBVIOUS
    <3> QED
      BY <1>3, <3>1, <3>2
  <2>3. g = [s \in SUBSET (1..n) |-> IF s = {} THEN base ELSE AddTagged(g[s \ {Max(s)}], q[Max(s)])]
    BY <2>1, <2>2 DEF FoldsUpTo
  <2> QED
    BY <1>1, <2>3
<1> HIDE DEF it
<1>7. it[{}] = base
  BY <1>6
<1>8. ASSUME NEW s \in SUBSET (1..n), s # {}, it[s \ {Max(s)}] \in PromptSoFar
      PROVE  it[s] = step[<<it[s \ {Max(s)}], Max(s)>>]
  <2>1. Max(s) \in 1..n
    BY <1>1, <1>8, LargestIs
  <2> QED
    BY <1>3, <1>6, <1>8, <2>1
<1>9. Folding(it, n, PromptSoFar, base, step)
  BY <1>7, <1>8 DEF Folding
<1>10. PICK f \in [0..n -> PromptSoFar] : Going(f, n, base, step, it[1..n])
  BY <1>1, <1>4, <1>9, FoldGoes
<1>11. \A k \in 1..n : f[k] = AddTagged(f[k - 1], q[k])
  <2>1. \A k \in 1..n : k - 1 \in 0..n
    BY <1>1
  <2> QED
    BY <1>3, <1>10, <2>1 DEF Going
<1> QED
  BY <1>5, <1>10, <1>11 DEF n, Going

LEMMA AddTagIs ==
  ASSUME NEW acc \in PromptSoFar, NEW tagged \in Seq(Skill)
  PROVE  AddTag(acc, tagged) \in PromptSoFar
<1> DEFINE first == [acc EXCEPT !.refused = FALSE]
<1>1. first \in PromptSoFar
  BY DEF PromptSoFar
<1> HIDE DEF first
<1>2. PICK f \in [0..Len(tagged) -> PromptSoFar] : f[Len(tagged)] = FoldLeft(AddTagged, first, tagged)
  BY <1>1, TaggedFolds
<1>3. FoldLeft(AddTagged, first, tagged) \in PromptSoFar
  <2>1. Len(tagged) \in 0..Len(tagged)
    BY LenProperties
  <2> QED
    BY <1>2, <2>1
<1> QED
  BY <1>3 DEF AddTag, first

LEMMA TagsFold ==
  ASSUME NEW base \in PromptSoFar, NEW q \in Seq(Seq(Skill))
  PROVE  \E f \in [0..Len(q) -> PromptSoFar] :
           /\ f[0] = base /\ f[Len(q)] = FoldLeft(AddTag, base, q)
           /\ \A k \in 1..Len(q) : f[k] = AddTag(f[k - 1], q[k])
<1> DEFINE n == Len(q)
           step == [p \in PromptSoFar \X (1..n) |-> AddTag(p[1], q[p[2]])]
           it == CHOOSE i : i = [s \in SUBSET DOMAIN q |->
                   IF s = {} THEN base ELSE AddTag(i[s \ {Max(s)}], q[Max(s)])]
<1>1. n \in Nat /\ DOMAIN q = 1..n /\ \A k \in 1..n : q[k] \in Seq(Skill)
  BY ElementOfSeq, LenProperties
<1>2. \A a \in PromptSoFar, sk \in Seq(Skill) : AddTag(a, sk) \in PromptSoFar
  BY AddTagIs
<1>3. \A a \in PromptSoFar, k \in 1..n : step[<<a, k>>] = AddTag(a, q[k]) /\ AddTag(a, q[k]) \in PromptSoFar
  BY <1>1, <1>2
<1>4. step \in [PromptSoFar \X (1..n) -> PromptSoFar]
  BY <1>3
<1>5. FoldLeft(AddTag, base, q) = it[1..n]
  BY <1>1 DEF FoldLeft, MapThenFoldSet
<1> HIDE DEF n, step
<1>6. it = [s \in SUBSET (1..n) |-> IF s = {} THEN base ELSE AddTag(it[s \ {Max(s)}], q[Max(s)])]
  <2>1. PICK g \in [SUBSET (1..n) -> PromptSoFar] : FoldsUpTo(g, n, base, step)
    BY <1>1, <1>4, FoldExists
  <2>2. ASSUME NEW s \in SUBSET (1..n), s # {}
        PROVE  step[<<g[s \ {Max(s)}], Max(s)>>] = AddTag(g[s \ {Max(s)}], q[Max(s)])
    <3>1. Max(s) \in 1..n
      BY <1>1, <2>2, LargestIs
    <3>2. s \ {Max(s)} \in SUBSET (1..n)
      OBVIOUS
    <3> QED
      BY <1>3, <3>1, <3>2
  <2>3. g = [s \in SUBSET (1..n) |-> IF s = {} THEN base ELSE AddTag(g[s \ {Max(s)}], q[Max(s)])]
    BY <2>1, <2>2 DEF FoldsUpTo
  <2> QED
    BY <1>1, <2>3
<1> HIDE DEF it
<1>7. it[{}] = base
  BY <1>6
<1>8. ASSUME NEW s \in SUBSET (1..n), s # {}, it[s \ {Max(s)}] \in PromptSoFar
      PROVE  it[s] = step[<<it[s \ {Max(s)}], Max(s)>>]
  <2>1. Max(s) \in 1..n
    BY <1>1, <1>8, LargestIs
  <2> QED
    BY <1>3, <1>6, <1>8, <2>1
<1>9. Folding(it, n, PromptSoFar, base, step)
  BY <1>7, <1>8 DEF Folding
<1>10. PICK f \in [0..n -> PromptSoFar] : Going(f, n, base, step, it[1..n])
  BY <1>1, <1>4, <1>9, FoldGoes
<1>11. \A k \in 1..n : f[k] = AddTag(f[k - 1], q[k])
  <2>1. \A k \in 1..n : k - 1 \in 0..n
    BY <1>1
  <2> QED
    BY <1>3, <1>10, <2>1 DEF Going
<1> QED
  BY <1>5, <1>10, <1>11 DEF n, Going

AddSize(n, section) == n + section.size

\* f adds up the sections of q.
Adding(f, q) ==
  /\ f[0] = 0 /\ f[Len(q)] = FoldLeft(AddSize, 0, q)
  /\ \A k \in 1..Len(q) : f[k] = AddSize(f[k - 1], q[k])

LEMMA SizesFold ==
  ASSUME NEW q \in Seq(Section)
  PROVE  \E f \in [0..Len(q) -> Nat] : Adding(f, q)
<1> DEFINE n == Len(q)
           step == [p \in Nat \X (1..n) |-> AddSize(p[1], q[p[2]])]
           it == CHOOSE i : i = [s \in SUBSET DOMAIN q |->
                   IF s = {} THEN 0 ELSE AddSize(i[s \ {Max(s)}], q[Max(s)])]
<1>1. n \in Nat /\ DOMAIN q = 1..n /\ \A k \in 1..n : q[k] \in Section
  BY ElementOfSeq, LenProperties
<1>2. \A a \in Nat, sk \in Section : AddSize(a, sk) \in Nat
  BY DEF AddSize, Section
<1>3. \A a \in Nat, k \in 1..n : step[<<a, k>>] = AddSize(a, q[k]) /\ AddSize(a, q[k]) \in Nat
  BY <1>1, <1>2
<1>4. step \in [Nat \X (1..n) -> Nat]
  BY <1>3
<1>5. FoldLeft(AddSize, 0, q) = it[1..n]
  BY <1>1 DEF FoldLeft, MapThenFoldSet
<1> HIDE DEF n, step
<1>6. it = [s \in SUBSET (1..n) |-> IF s = {} THEN 0 ELSE AddSize(it[s \ {Max(s)}], q[Max(s)])]
  <2>1. PICK g \in [SUBSET (1..n) -> Nat] : FoldsUpTo(g, n, 0, step)
    BY <1>1, <1>4, FoldExists
  <2>2. ASSUME NEW s \in SUBSET (1..n), s # {}
        PROVE  step[<<g[s \ {Max(s)}], Max(s)>>] = AddSize(g[s \ {Max(s)}], q[Max(s)])
    <3>1. Max(s) \in 1..n
      BY <1>1, <2>2, LargestIs
    <3>2. s \ {Max(s)} \in SUBSET (1..n)
      OBVIOUS
    <3> QED
      BY <1>3, <3>1, <3>2
  <2>3. g = [s \in SUBSET (1..n) |-> IF s = {} THEN 0 ELSE AddSize(g[s \ {Max(s)}], q[Max(s)])]
    BY <2>1, <2>2 DEF FoldsUpTo
  <2> QED
    BY <1>1, <2>3
<1> HIDE DEF it
<1>7. it[{}] = 0
  BY <1>6
<1>8. ASSUME NEW s \in SUBSET (1..n), s # {}, it[s \ {Max(s)}] \in Nat
      PROVE  it[s] = step[<<it[s \ {Max(s)}], Max(s)>>]
  <2>1. Max(s) \in 1..n
    BY <1>1, <1>8, LargestIs
  <2> QED
    BY <1>3, <1>6, <1>8, <2>1
<1>9. Folding(it, n, Nat, 0, step)
  BY <1>7, <1>8 DEF Folding
<1>10. PICK f \in [0..n -> Nat] : Going(f, n, 0, step, it[1..n])
  BY <1>1, <1>4, <1>9, FoldGoes
<1>11. \A k \in 1..n : f[k] = AddSize(f[k - 1], q[k])
  <2>1. \A k \in 1..n : k - 1 \in 0..n
    BY <1>1
  <2> QED
    BY <1>3, <1>10, <2>1 DEF Going
<1> QED
  BY <1>5, <1>10, <1>11 DEF n, Going, Adding

-----------------------------------------------------------------------------
\* The characters of the sections, without what joins them.
SizeOf(q) == FoldLeft(AddSize, 0, q)
Shown(q, sk) == {i \in DOMAIN q : q[i].skill = sk}

LEMMA SizeOfNone == SizeOf(<<>>) = 0
<1>1. <<>> \in Seq(Section) /\ Len(<<>>) = 0
  BY EmptySeq
<1>2. PICK f \in [0..Len(<<>>) -> Nat] : Adding(f, <<>>)
  BY <1>1, SizesFold
<1> QED
  BY <1>1, <1>2 DEF SizeOf, Adding

LEMMA SizeOfOneMore ==
  ASSUME NEW q \in Seq(Section), NEW x \in Section
  PROVE  SizeOf(q) \in Nat /\ SizeOf(Append(q, x)) = SizeOf(q) + x.size
<1> DEFINE r == Append(q, x)
           n == Len(q)
<1>1. /\ r \in Seq(Section) /\ Len(r) = n + 1 /\ n \in Nat
      /\ r[n + 1] = x /\ \A k \in 1..n : r[k] = q[k]
  BY AppendProperties, LenProperties
<1> HIDE DEF r
<1>2. PICK f \in [0..n -> Nat] : Adding(f, q)
  BY SizesFold
<1>3. PICK g \in [0..(n + 1) -> Nat] : Adding(g, r)
  BY <1>1, SizesFold
<1> DEFINE S == {k \in Nat : k <= n => f[k] = g[k]}
<1> HIDE DEF n
<1>4. 0 \in S
  BY <1>2, <1>3 DEF Adding
<1>5. ASSUME NEW k \in Nat, k \in S PROVE k + 1 \in S
  <2>1. SUFFICES ASSUME k + 1 <= n PROVE f[k + 1] = g[k + 1]
    OBVIOUS
  <2>2. k + 1 \in 1..n /\ k + 1 \in 1..(n + 1) /\ (k + 1) - 1 = k /\ f[k] = g[k]
    BY <1>1, <1>5, <2>1
  <2>3. f[k + 1] = AddSize(f[k], q[k + 1])
    BY <1>2, <2>2 DEF Adding, n
  <2>4. g[k + 1] = AddSize(g[k], r[k + 1])
    BY <1>1, <1>3, <2>2 DEF Adding
  <2> QED
    BY <1>1, <2>2, <2>3, <2>4
<1>6. f[n] = g[n]
  <2> HIDE DEF S
  <2>1. n \in S
    BY <1>1, <1>4, <1>5, AllNumbers
  <2> QED
    BY <1>1, <2>1 DEF S
<1>7. g[n + 1] = AddSize(g[n], x)
  <2>1. n + 1 \in 1..(n + 1) /\ (n + 1) - 1 = n
    BY <1>1
  <2> QED
    BY <1>1, <1>3, <2>1 DEF Adding
<1>8. f[n] \in Nat
  BY <1>1, <1>2
<1> QED
  BY <1>1, <1>2, <1>3, <1>6, <1>7, <1>8 DEF SizeOf, AddSize, Adding, n, r

LEMMA ShownOneMore ==
  ASSUME NEW q \in Seq(Section), NEW x \in Section, NEW sk
  PROVE  /\ IsFiniteSet(Shown(q, sk)) /\ Cardinality(Shown(q, sk)) \in Nat
         /\ Cardinality(Shown(Append(q, x), sk)) = Cardinality(Shown(q, sk)) + IF x.skill = sk THEN 1 ELSE 0
<1> DEFINE n == Len(q)
<1>1. /\ n \in Nat /\ DOMAIN q = 1..n /\ DOMAIN Append(q, x) = 1..(n + 1)
      /\ Append(q, x)[n + 1] = x /\ \A k \in 1..n : Append(q, x)[k] = q[k]
  BY AppendProperties, LenProperties
<1>2. IsFiniteSet(Shown(q, sk)) /\ n + 1 \notin Shown(q, sk)
  <2>1. IsFiniteSet(1..n)
    BY <1>1, 1 \in Int, FS_Interval
  <2>2. Shown(q, sk) \subseteq 1..n
    BY <1>1 DEF Shown
  <2> QED
    BY <1>1, <2>1, <2>2, FS_Subset
<1>3. Shown(Append(q, x), sk) = IF x.skill = sk THEN Shown(q, sk) \cup {n + 1} ELSE Shown(q, sk)
  BY <1>1 DEF Shown
<1>4. Cardinality(Shown(q, sk)) \in Nat
  BY <1>2, FS_CardinalityType
<1>5. Cardinality(Shown(q, sk) \cup {n + 1}) = Cardinality(Shown(q, sk)) + 1
  BY <1>2, FS_AddElement
<1> QED
  BY <1>2, <1>3, <1>4, <1>5

\* What has been added so far: it fits, a skill that is shown has been seen, and
\* is shown once, or no more often than may gives.
Fitting(acc) ==
  /\ acc.chars = SizeOf(acc.sections) + Len(acc.sections)
  /\ acc.sections = <<>> \/ acc.chars <= SkillBudget + 1
Counted(acc, may) ==
  \A sk \in Skill :
    LET n == Cardinality(Shown(acc.sections, sk))
    IN (n > 0 => sk \in acc.seen) /\ (n <= 1 \/ n <= may[sk])

\* new is acc and, if there was room, a section of the skill.
OneMore(acc, sk, new) ==
  /\ new.seen = acc.seen \cup {sk}
  /\ Fitting(acc) => Fitting(new)
  /\ \A s \in Skill :
       LET n == Cardinality(Shown(acc.sections, s))
           m == Cardinality(Shown(new.sections, s))
       IN n \in Nat /\ (m = n \/ (s = sk /\ m = n + 1))

LEMMA OneSkillMore ==
  ASSUME NEW acc \in PromptSoFar, NEW sk \in Skill, NEW new, new = AddSkill([acc EXCEPT !.seen = @ \cup {sk}], sk)
  PROVE  new \in PromptSoFar /\ OneMore(acc, sk, new)
<1> DEFINE seen == [acc EXCEPT !.seen = @ \cup {sk}]
<1>1. seen \in PromptSoFar /\ seen.seen = acc.seen \cup {sk} /\ seen.sections = acc.sections /\ seen.chars = acc.chars
  BY SeenIs
<1> HIDE DEF seen
<1>2. new = AddSkill(seen, sk)
  BY DEF seen
<1>3. new \in PromptSoFar /\ new.seen = acc.seen \cup {sk}
  BY <1>1, <1>2, AddSkillIs
<1>4. \A s : Cardinality(Shown(acc.sections, s)) \in Nat
  <2>1. acc.sections \in Seq(Section)
    BY DEF PromptSoFar
  <2>2. [skill |-> sk, size |-> 0] \in Section
    BY DEF Section
  <2> QED
    BY <2>1, <2>2, ShownOneMore
<1>6. ASSUME NEW size \in Nat,
             new.sections = Append(acc.sections, [skill |-> sk, size |-> size]),
             new.chars = acc.chars + size + 1, acc.chars + size <= SkillBudget
      PROVE  /\ Fitting(acc) => Fitting(new)
             /\ \A s \in Skill :
                  Cardinality(Shown(new.sections, s)) = Cardinality(Shown(acc.sections, s))
                    \/ (s = sk /\ Cardinality(Shown(new.sections, s)) = Cardinality(Shown(acc.sections, s)) + 1)
  <2> DEFINE x == [skill |-> sk, size |-> size]
  <2>1. x \in Section /\ x.skill = sk /\ x.size = size /\ acc.sections \in Seq(Section) /\ acc.chars \in Nat
    BY DEF Section, PromptSoFar
  <2> HIDE DEF x
  <2>2. new.sections = Append(acc.sections, x)
    BY <1>6 DEF x
  <2>3. SizeOf(new.sections) = SizeOf(acc.sections) + size /\ SizeOf(acc.sections) \in Nat
    BY <2>1, <2>2, SizeOfOneMore
  <2>4. Len(new.sections) = Len(acc.sections) + 1 /\ Len(acc.sections) \in Nat
    BY <2>1, <2>2, AppendProperties, LenProperties
  <2>5. Fitting(acc) => Fitting(new)
    BY <1>6, <2>1, <2>3, <2>4, SizesAreNaturals DEF Fitting
  <2>6. ASSUME NEW s \in Skill
        PROVE  Cardinality(Shown(new.sections, s)) = Cardinality(Shown(acc.sections, s))
                 \/ (s = sk /\ Cardinality(Shown(new.sections, s)) = Cardinality(Shown(acc.sections, s)) + 1)
    <3>1. Cardinality(Shown(new.sections, s)) = Cardinality(Shown(acc.sections, s)) + IF x.skill = s THEN 1 ELSE 0
      <4> DEFINE q == acc.sections
      <4>1. q \in Seq(Section) /\ new.sections = Append(q, x)
        BY <2>1, <2>2
      <4> HIDE DEF q
      <4>2. Cardinality(Shown(Append(q, x), s)) = Cardinality(Shown(q, s)) + IF x.skill = s THEN 1 ELSE 0
        BY <2>1, <4>1, ShownOneMore
      <4> QED
        BY <4>1, <4>2 DEF q
    <3>2. Cardinality(Shown(acc.sections, s)) \in Nat
      BY <1>4
    <3> QED
      BY <2>1, <3>1, <3>2
  <2> QED
    BY <2>5, <2>6
<1>7. \/ new.sections = acc.sections /\ new.chars = acc.chars
      \/ \E size \in Nat :
           /\ new.sections = Append(acc.sections, [skill |-> sk, size |-> size])
           /\ new.chars = acc.chars + size + 1
           /\ acc.chars + size <= SkillBudget
  BY <1>1, <1>2, AddSkillIs
<1>8. /\ Fitting(acc) => Fitting(new)
      /\ \A s \in Skill :
           Cardinality(Shown(new.sections, s)) = Cardinality(Shown(acc.sections, s))
             \/ (s = sk /\ Cardinality(Shown(new.sections, s)) = Cardinality(Shown(acc.sections, s)) + 1)
  <2>1. CASE new.sections = acc.sections /\ new.chars = acc.chars
    BY <2>1 DEF Fitting
  <2> QED
    BY <1>6, <1>7, <2>1
<1> QED
  BY <1>3, <1>4, <1>8 DEF OneMore

\* How often a skill is among the first k of a list.
Given(q, k, sk) == {i \in 1..k : q[i] = sk}

LEMMA GivenOneMore ==
  ASSUME NEW q, NEW k \in Nat, NEW sk
  PROVE  /\ Cardinality(Given(q, k, sk)) \in Nat
         /\ Cardinality(Given(q, k + 1, sk)) = Cardinality(Given(q, k, sk)) + IF q[k + 1] = sk THEN 1 ELSE 0
<1>1. IsFiniteSet(Given(q, k, sk)) /\ k + 1 \notin Given(q, k, sk)
  <2>1. IsFiniteSet(1..k)
    BY 1 \in Int, FS_Interval
  <2>2. Given(q, k, sk) \subseteq 1..k
    BY DEF Given
  <2>3. IsFiniteSet(Given(q, k, sk))
    BY <2>1, <2>2, FS_Subset
  <2> QED
    BY <2>3 DEF Given
<1>2. Given(q, k + 1, sk) = IF q[k + 1] = sk THEN Given(q, k, sk) \cup {k + 1} ELSE Given(q, k, sk)
  BY DEF Given
<1>3. Cardinality(Given(q, k, sk)) \in Nat
  BY <1>1, FS_CardinalityType
<1>4. Cardinality(Given(q, k, sk) \cup {k + 1}) = Cardinality(Given(q, k, sk)) + 1
  BY <1>1, FS_AddElement
<1> QED
  BY <1>2, <1>3, <1>4

\* The skills named by id.
LEMMA NamedFit ==
  ASSUME NEW q \in Seq(Skill), NEW may, may = [sk \in Skill |-> Cardinality(Given(q, Len(q), sk))]
  PROVE  LET acc == FoldLeft(AddNamed, NoSections, q)
         IN acc \in PromptSoFar /\ Fitting(acc) /\ Counted(acc, may)
<1> DEFINE Shows(acc, k) ==
             \A sk \in Skill :
               LET n == Cardinality(Shown(acc.sections, sk))
               IN (n > 0 => sk \in acc.seen) /\ n <= Cardinality(Given(q, k, sk))
<1>1. Len(q) \in Nat /\ \A k \in 1..Len(q) : q[k] \in Skill
  BY ElementOfSeq, LenProperties
<1>2. NoSections \in PromptSoFar /\ Fitting(NoSections) /\ Shows(NoSections, 0)
  <2>1. NoSections \in PromptSoFar /\ NoSections.sections = <<>> /\ NoSections.chars = 0
    BY DEF NoSections, PromptSoFar
  <2>2. Fitting(NoSections)
    BY <2>1, SizeOfNone DEF Fitting
  <2>3. \A sk \in Skill : Shown(NoSections.sections, sk) = {} /\ Given(q, 0, sk) = {}
    BY <2>1 DEF Shown, Given
  <2>4. Cardinality({}) = 0
    BY FS_EmptySet
  <2>5. ASSUME NEW sk \in Skill
        PROVE  /\ Cardinality(Shown(NoSections.sections, sk)) = 0
               /\ Cardinality(Given(q, 0, sk)) = 0
    BY <2>3, <2>4
  <2>6. Shows(NoSections, 0)
    BY <2>5
  <2> QED
    BY <2>1, <2>2, <2>6
<1>3. PICK f \in [0..Len(q) -> PromptSoFar] :
        /\ f[0] = NoSections /\ f[Len(q)] = FoldLeft(AddNamed, NoSections, q)
        /\ \A k \in 1..Len(q) : f[k] = AddNamed(f[k - 1], q[k])
  BY <1>2, NamedFolds
<1>4. ASSUME NEW k \in Nat, k + 1 <= Len(q), Fitting(f[k]), Shows(f[k], k)
      PROVE  Fitting(f[k + 1]) /\ Shows(f[k + 1], k + 1)
  <2> DEFINE acc == f[k]
             sk == q[k + 1]
             new == f[k + 1]
  <2>1. acc \in PromptSoFar /\ sk \in Skill /\ new = AddNamed(acc, sk)
    <3>1. k + 1 \in 1..Len(q) /\ (k + 1) - 1 = k /\ k \in 0..Len(q)
      BY <1>1, <1>4
    <3> QED
      BY <1>1, <1>3, <3>1
  <2>2. \A s : /\ Cardinality(Given(q, k, s)) \in Nat
               /\ Cardinality(Given(q, k + 1, s)) = Cardinality(Given(q, k, s)) + IF sk = s THEN 1 ELSE 0
    BY GivenOneMore
  <2>3. CASE acc.refused
    <3>1. new = acc
      BY <2>1, <2>3 DEF AddNamed
    <3>2. \A s \in Skill : Cardinality(Shown(acc.sections, s)) \in Nat
      BY <2>1, OneSkillMore DEF OneMore
    <3> QED
      BY <1>4, <2>2, <3>1, <3>2
  <2>4. CASE ~acc.refused
    <3>1. new = AddSkill([acc EXCEPT !.seen = @ \cup {sk}], sk)
      BY <2>1, <2>4 DEF AddNamed
    <3> HIDE DEF acc, sk, new
    <3>2. OneMore(acc, sk, new)
      BY <2>1, <3>1, OneSkillMore
    <3>3. Fitting(acc) /\ Shows(acc, k)
      BY <1>4 DEF acc
    <3>4. Shows(new, k + 1)
      BY <2>1, <2>2, <3>2, <3>3 DEF OneMore
    <3>5. Fitting(new)
      BY <3>2, <3>3 DEF OneMore
    <3> QED
      BY <3>4, <3>5 DEF new
  <2> QED
    BY <2>3, <2>4
<1> DEFINE S == {k \in Nat : k <= Len(q) => Fitting(f[k]) /\ Shows(f[k], k)}
<1>5. Fitting(f[Len(q)]) /\ Shows(f[Len(q)], Len(q))
  <2> HIDE DEF Shows
  <2>1. 0 \in S
    BY <1>2, <1>3
  <2>2. ASSUME NEW k \in Nat, k \in S PROVE k + 1 \in S
    <3>1. k + 1 <= Len(q) => k <= Len(q)
      BY <1>1
    <3> QED
      BY <1>4, <2>2, <3>1
  <2> HIDE DEF S
  <2>3. Len(q) \in S
    BY <1>1, <2>1, <2>2, AllNumbers
  <2> QED
    BY <1>1, <2>3 DEF S
<1>6. f[Len(q)] \in PromptSoFar
  BY <1>1, <1>3
<1>7. Counted(f[Len(q)], may)
  BY <1>5 DEF Counted
<1> QED
  BY <1>3, <1>5, <1>6, <1>7

\* The skills of a tag.
LEMMA TaggedFit ==
  ASSUME NEW base \in PromptSoFar, NEW q \in Seq(Skill), NEW may \in [Skill -> Nat],
         Fitting(base), Counted(base, may)
  PROVE  LET acc == FoldLeft(AddTagged, base, q)
         IN acc \in PromptSoFar /\ Fitting(acc) /\ Counted(acc, may)
<1>1. Len(q) \in Nat /\ \A k \in 1..Len(q) : q[k] \in Skill
  BY ElementOfSeq, LenProperties
<1>2. PICK f \in [0..Len(q) -> PromptSoFar] :
        /\ f[0] = base /\ f[Len(q)] = FoldLeft(AddTagged, base, q)
        /\ \A k \in 1..Len(q) : f[k] = AddTagged(f[k - 1], q[k])
  BY TaggedFolds
<1> DEFINE Fine(k) == Fitting(f[k]) /\ Counted(f[k], may)
           S == {k \in Nat : k <= Len(q) => Fine(k)}
<1>3. ASSUME NEW k \in Nat, k + 1 <= Len(q), Fine(k) PROVE Fine(k + 1)
  <2> DEFINE acc == f[k]
             sk == q[k + 1]
             new == f[k + 1]
  <2>1. acc \in PromptSoFar /\ sk \in Skill /\ new = AddTagged(acc, sk)
    <3>1. k + 1 \in 1..Len(q) /\ (k + 1) - 1 = k /\ k \in 0..Len(q)
      BY <1>1, <1>3
    <3> QED
      BY <1>1, <1>2, <3>1
  <2>2. CASE acc.refused \/ sk \in acc.seen
    <3>1. new = acc
      BY <2>1, <2>2 DEF AddTagged
    <3> QED
      BY <1>3, <3>1
  <2>3. CASE ~(acc.refused \/ sk \in acc.seen)
    <3>1. new = AddSkill([acc EXCEPT !.seen = @ \cup {sk}], sk)
      BY <2>1, <2>3 DEF AddTagged
    <3>2. Fitting(acc) /\ Counted(acc, may)
      BY <1>3
    <3> HIDE DEF acc, sk, new, Fine
    <3>3. OneMore(acc, sk, new)
      BY <2>1, <3>1, OneSkillMore
    <3>4. Cardinality(Shown(acc.sections, sk)) = 0
      BY <2>1, <2>3, <3>2, <3>3 DEF Counted, OneMore
    <3>5. Counted(new, may)
      BY <2>1, <3>2, <3>3, <3>4 DEF Counted, OneMore
    <3>6. Fitting(new)
      BY <3>2, <3>3 DEF OneMore
    <3> QED
      BY <3>5, <3>6 DEF new
  <2> QED
    BY <2>2, <2>3
<1>4. Fine(Len(q))
  <2>1. Fine(0)
    BY <1>2
  <2> HIDE DEF Fine
  <2>2. 0 \in S
    BY <2>1
  <2>3. ASSUME NEW k \in Nat, k \in S PROVE k + 1 \in S
    <3>1. k + 1 <= Len(q) => k <= Len(q)
      BY <1>1
    <3> QED
      BY <1>3, <2>3, <3>1
  <2> HIDE DEF S
  <2>4. Len(q) \in S
    BY <1>1, <2>2, <2>3, AllNumbers
  <2> QED
    BY <1>1, <2>4 DEF S
<1>5. f[Len(q)] \in PromptSoFar
  BY <1>1, <1>2
<1> QED
  BY <1>2, <1>4, <1>5

\* One tag more.
LEMMA TagFit ==
  ASSUME NEW acc \in PromptSoFar, NEW tagged \in Seq(Skill), NEW may \in [Skill -> Nat],
         Fitting(acc), Counted(acc, may)
  PROVE  Fitting(AddTag(acc, tagged)) /\ Counted(AddTag(acc, tagged), may)
<1> DEFINE first == [acc EXCEPT !.refused = FALSE]
<1>1. /\ first \in PromptSoFar /\ first.sections = acc.sections
      /\ first.chars = acc.chars /\ first.seen = acc.seen
  BY DEF PromptSoFar
<1>2. AddTag(acc, tagged) = acc \/ AddTag(acc, tagged) = FoldLeft(AddTagged, first, tagged)
  BY DEF AddTag
<1> HIDE DEF first
<1>3. Fitting(first) /\ Counted(first, may)
  BY <1>1 DEF Fitting, Counted
<1>4. /\ Fitting(FoldLeft(AddTagged, first, tagged))
      /\ Counted(FoldLeft(AddTagged, first, tagged), may)
  BY <1>1, <1>3, TaggedFit
<1> QED
  BY <1>2, <1>4

\* The whole prompt.
LEMMA PromptFits ==
  ASSUME NEW s \in Setup, NEW may,
         may = [sk \in Skill |-> Cardinality(Given(s.skills, Len(s.skills), sk))]
  PROVE  \E acc \in PromptSoFar :
           SkillSections(s) = acc.sections /\ Fitting(acc) /\ Counted(acc, may)
<1> DEFINE base == FoldLeft(AddNamed, NoSections, s.skills)
           q == s.tagged
<1>1. s.skills \in Seq(Skill) /\ q \in Seq(Seq(Skill))
  BY DEF Setup
<1>2. base \in PromptSoFar /\ Fitting(base) /\ Counted(base, may)
  BY <1>1, NamedFit
<1>3. may \in [Skill -> Nat]
  <2>1. Len(s.skills) \in Nat
    BY <1>1, LenProperties
  <2>2. \A sk \in Skill : Cardinality(Given(s.skills, Len(s.skills), sk)) \in Nat
    BY <2>1, GivenOneMore
  <2> QED
    BY <2>2
<1>4. SkillSections(s) = FoldLeft(AddTag, base, q).sections
  BY DEF SkillSections
<1> HIDE DEF base, q
<1>5. Len(q) \in Nat /\ \A k \in 1..Len(q) : q[k] \in Seq(Skill)
  BY <1>1, ElementOfSeq, LenProperties
<1>6. PICK f \in [0..Len(q) -> PromptSoFar] :
        /\ f[0] = base /\ f[Len(q)] = FoldLeft(AddTag, base, q)
        /\ \A k \in 1..Len(q) : f[k] = AddTag(f[k - 1], q[k])
  BY <1>1, <1>2, TagsFold
<1> DEFINE Fine(k) == Fitting(f[k]) /\ Counted(f[k], may)
           S == {k \in Nat : k <= Len(q) => Fine(k)}
<1>7. ASSUME NEW k \in Nat, k + 1 <= Len(q), Fine(k) PROVE Fine(k + 1)
  <2>1. k + 1 \in 1..Len(q) /\ (k + 1) - 1 = k /\ k \in 0..Len(q)
    BY <1>5, <1>7
  <2>2. f[k + 1] = AddTag(f[k], q[k + 1]) /\ f[k] \in PromptSoFar /\ q[k + 1] \in Seq(Skill)
    BY <1>5, <1>6, <2>1
  <2> QED
    BY <1>3, <1>7, <2>2, TagFit
<1>8. Fine(Len(q))
  <2>1. Fine(0)
    BY <1>2, <1>6
  <2> HIDE DEF Fine
  <2>2. 0 \in S
    BY <2>1
  <2>3. ASSUME NEW k \in Nat, k \in S PROVE k + 1 \in S
    <3>1. k + 1 <= Len(q) => k <= Len(q)
      BY <1>5
    <3> QED
      BY <1>7, <2>3, <3>1
  <2> HIDE DEF S
  <2>4. Len(q) \in S
    BY <1>5, <2>2, <2>3, AllNumbers
  <2> QED
    BY <1>5, <2>4 DEF S
<1>9. f[Len(q)] \in PromptSoFar
  BY <1>5, <1>6
<1> QED
  BY <1>4, <1>6, <1>8, <1>9

LEMMA SetupSkillsFit ==
  ASSUME setup \in Setup
  PROVE  SkillsFit
<1> DEFINE q == setup.skills
           sections == SkillSections(setup)
           may == [sk \in Skill |-> Cardinality(Given(q, Len(q), sk))]
<1>1. PICK acc \in PromptSoFar : sections = acc.sections /\ Fitting(acc) /\ Counted(acc, may)
  BY PromptFits
<1>2. q \in Seq(Skill) /\ Len(q) \in Nat /\ DOMAIN q = 1..Len(q)
  <2>1. q \in Seq(Skill)
    BY DEF Setup
  <2> HIDE DEF q
  <2> QED
    BY <2>1, LenProperties
<1>3. sections \in Seq(Section)
  BY <1>1 DEF PromptSoFar
<1> HIDE DEF q, sections
<1>4. Joined(sections) <= SkillBudget
  <2>1. Joined(sections) = SizeOf(sections) + IF sections = <<>> THEN 0 ELSE Len(sections) - 1
    BY DEF Joined, SizeOf, AddSize
  <2>2. CASE sections = <<>>
    <3>1. SizeOf(sections) = 0
      BY <2>2, SizeOfNone
    <3> QED
      BY <2>1, <2>2, <3>1, SizesAreNaturals
  <2>3. CASE sections # <<>>
    <3>1. SizeOf(sections) + Len(sections) <= SkillBudget + 1
      BY <1>1, <2>3 DEF Fitting
    <3>2. SizeOf(sections) \in Nat /\ Len(sections) \in Nat
      <4>1. Len(sections) \in Nat
        BY <1>3, LenProperties
      <4>2. sections[1] \in Section
        BY <1>3, <2>3
      <4>3. SizeOf(sections) \in Nat
        BY <1>3, <4>2, SizeOfOneMore
      <4> QED
        BY <4>1, <4>3
    <3> QED
      BY <2>1, <2>3, <3>1, <3>2, SizesAreNaturals
  <2> QED
    BY <2>2, <2>3
<1>5. ASSUME NEW sk \in Skill
      PROVE  LET n == Cardinality(Shown(sections, sk))
             IN n <= 1 \/ n <= Cardinality({i \in DOMAIN q : q[i] = sk})
  <2>1. may[sk] = Cardinality({i \in DOMAIN q : q[i] = sk})
    BY <1>2 DEF Given
  <2> QED
    BY <1>1, <2>1 DEF Counted
<1> QED
  BY <1>4, <1>5 DEF SkillsFit, Shown, sections, q

-----------------------------------------------------------------------------
(* The preparation *)

\* The server a call goes to is one that lists the tool.
LEMMA ServerOfIs ==
  ASSUME NEW s \in Setup, NEW t, Servers(s, t) # {}
  PROVE  ServerOf(s, t) \in Servers(s, t)
<1>1. Len(s.servers) \in Nat /\ DOMAIN s.servers = 1..Len(s.servers)
  BY LenProperties DEF Setup
<1>2. DOMAIN McpConfig(s) \subseteq DOMAIN s.servers
  BY DEF McpConfig
<1>3. DOMAIN Connected(s) \subseteq DOMAIN McpConfig(s)
  BY DEF Connected, RestrictValues, Restrict
<1>4. Servers(s, t) \in SUBSET (1..Len(s.servers))
  BY <1>1, <1>2, <1>3 DEF Servers
<1> HIDE DEF Servers
<1>5. \E i \in Servers(s, t) : \A j \in Servers(s, t) : i >= j
  BY <1>1, <1>4, LargestIs
<1>6. \E i \in Servers(s, t) : \A j \in Servers(s, t) : j <= i
  <2>1. PICK i \in Servers(s, t) : \A j \in Servers(s, t) : i >= j
    BY <1>5
  <2>2. \A j \in Servers(s, t) : j <= i
    BY <1>4, <2>1
  <2> QED
    BY <2>2
<1> QED
  BY <1>6 DEF ServerOf

LEMMA SetupOffersAreHonest ==
  ASSUME setup \in Setup
  PROVE  OffersAreHonest
<1> SUFFICES ASSUME NEW t \in Offered(setup)
             PROVE  LET owner == Dispatch(setup, t) IN
                    /\ owner \in Owners(setup, t) \cup (IF t = StoreMemory THEN {BuiltIn} ELSE {})
                    /\ owner.by = "mcp" => Permits(Connected(setup)[owner.k], t)
  BY DEF OffersAreHonest
<1>1. CASE t = StoreMemory
  BY <1>1 DEF Dispatch, BuiltIn, Owner
<1>2. CASE t # StoreMemory /\ CustomOf(setup, t) # {}
  <2>1. PICK k \in CustomOf(setup, t) : Dispatch(setup, t) = Owner("custom", k)
    BY <1>2 DEF Dispatch
  <2> QED
    BY <2>1 DEF Owners, Owner
<1>3. CASE t # StoreMemory /\ CustomOf(setup, t) = {}
  <2>1. Servers(setup, t) # {}
    BY <1>3 DEF Offered, Owners
  <2>2. PICK i \in Servers(setup, t) : Dispatch(setup, t) = Owner("mcp", i)
    BY <1>3, <2>1, ServerOfIs DEF Dispatch
  <2>3. Permits(Connected(setup)[i], t)
    BY DEF Servers, Listed
  <2> QED
    BY <2>2, <2>3 DEF Owners, Owner
<1> QED
  BY <1>1, <1>2, <1>3

\* What was prepared is dropped when the loop starts.
Prepared == setup \in Setup

LEMMA NextSetup == ASSUME Prepared, [RunNext]_<<vars, setup>> PROVE Prepared'
<1>1. NoSetup \in Setup
  BY DEF NoSetup, Setup, Providers
<1> QED
  BY <1>1 DEF RunNext, Route, Prepared

LEMMA InitSetup == RunInit => Prepared
BY InputsAreSetups DEF RunInit, SetupInit, Prepared

\* A call the model was offered goes to an owner of that name, and to a server only
\* if its own allow list permits it, whatever servers and custom tools there are.
THEOREM OffersAreServed == RunSpec => []OffersAreHonest
<1>1. Prepared => OffersAreHonest
  BY SetupOffersAreHonest DEF Prepared
<1> QED
  BY <1>1, InitSetup, NextSetup, PTL DEF RunSpec

\* The skills stay within their budget, and one appears twice only if it is named
\* twice, whatever skills, tags, sizes and budget there are.
THEOREM SkillsStayWithinBudget == RunSpec => []SkillsFit
<1>1. Prepared => SkillsFit
  BY SetupSkillsFit DEF Prepared
<1> QED
  BY <1>1, InitSetup, NextSetup, PTL DEF RunSpec
=============================================================================
