----------------------------- MODULE AgentLoop -----------------------------
(***************************************************************************)
(* ONE prompt inside run_agent, from the moment the execution path is      *)
(* known to the return: the loop of model turns and tool calls of each of  *)
(* the four paths, and the closing sequence they share.                    *)
(*                                                                         *)
(*   copilot    the Copilot SDK drives the loop and calls our hooks        *)
(*   claude     the Claude Agent SDK drives it and streams events          *)
(*   anthropic  our loop over the Anthropic messages API (a gateway)       *)
(*   openai     our loop over an OpenAI-compatible chat API                *)
(*                                                                         *)
(* The conversation of our own loops is a sequence of messages of which    *)
(* only the kind and the tool calls they carry matter.  The model, the     *)
(* gateways and the SDKs are the environment.                              *)
(***************************************************************************)
EXTENDS Integers, Sequences, FiniteSets

CONSTANTS
  TurnLimits,        \* the values of workflow.max_turns in this instance
  MaxBatch,          \* bound: tool calls in one answer of the model
  MaxSdkCalls,       \* bound: tool calls an SDK makes in one run
  MaxRetries,        \* _MAX_RETRIES
  CompactGuard,      \* the loops compact only beyond this many messages (4)
  CompactFloor,      \* _compact_messages leaves this many alone (8)
  KeepRecentTurns,   \* settings.compaction_keep_recent_turns
  KeepRecentResults  \* settings.tool_result_clearing_keep_recent

ASSUME LimitsAreNaturals == TurnLimits \subseteq Nat
ASSUME BoundsArePositive == MaxBatch \in Nat \ {0} /\ MaxSdkCalls \in Nat
ASSUME SettingsAreNaturals ==
  /\ MaxRetries \in Nat /\ CompactGuard \in Nat /\ CompactFloor \in Nat
  /\ KeepRecentTurns \in Nat /\ KeepRecentResults \in Nat

VARIABLES
  pc,         \* where the coroutine is
  path,       \* which of the four paths it takes
  maxTurns,   \* workflow.max_turns
  calls,      \* tool_call_count
  conv,       \* the messages of the next request (our loops only)
  batch,      \* the id of the last tool call of the answer being served
  attempt,    \* the attempt of the request that is being sent
  sdk,        \* the Copilot SDK's tool calls
  done,       \* the session has gone idle or failed (the SDK paths)
  made,       \* the Claude resources that exist
  halt,       \* the Redis halt flag of the workflow
  verdict,    \* how the run ends, as far as it is decided
  task,       \* the status of the TaskExecution as last saved
  published,  \* the last status event published
  webhooks    \* the webhooks fired

loop == <<calls, conv, batch, attempt>>
session == <<sdk, done, made>>
record == <<task, published, webhooks>>
vars == <<pc, path, maxTurns, calls, conv, batch, attempt, sdk, done, made,
          halt, verdict, task, published, webhooks>>

-----------------------------------------------------------------------------
(* Messages, tool calls, outcomes *)

Paths == {"copilot", "claude", "anthropic", "openai"}
OwnLoop == {"anthropic", "openai"}

\* "call" is an assistant message with the tool calls ids; "result" answers
\* those ids; "flat" is a message that _anthropic_content_to_str made text.
Kinds == {"system", "note", "prompt", "call", "result", "flat", "nudge"}
Message == [kind : Kinds, ids : SUBSET Nat, cleared : BOOLEAN]
Msg(kind, ids) == [kind |-> kind, ids |-> ids, cleared |-> FALSE]

\* What a tool call of the Copilot SDK has been through: the approvals it has
\* asked for, whether permission_handler counts its kind, and its fate.
SdkCall == [asked : SUBSET {"permission", "hook"}, counted : BOOLEAN,
            fate : {"new", "open", "run", "denied"}]
NewSdkCall == [asked |-> {}, counted |-> FALSE, fate |-> "new"]
SdkIds == 1..MaxSdkCalls

Verdicts == {"none", "completed", "max_turns_reached", "halted", "timed_out", "failed"}
Statuses == {"running", "completed", "max_turns_reached", "halted", "failed"}
StatusOf(v) == IF v = "timed_out" THEN "failed" ELSE v

Pcs == {"idle", "connect", "request", "send", "tools", "final_send", "stream",
        "stream_end", "wait", "clear_halt", "abort", "verdict", "publish", "save_task",
        "save_wf", "webhook", "cleanup", "ended"}

\* The values of every variable stay in their domains.
LoopTypeOK ==
  /\ pc \in Pcs
  /\ path \in Paths
  /\ maxTurns \in Nat
  /\ calls \in Nat
  /\ conv \in Seq(Message)
  /\ batch \in Nat
  /\ attempt \in 0..MaxRetries
  /\ sdk \in [SdkIds -> SdkCall]
  /\ done \in BOOLEAN
  /\ made \subseteq {"environment", "agent", "session"}
  /\ halt \in BOOLEAN
  /\ verdict \in Verdicts
  /\ task \in Statuses
  /\ published \in Statuses
  /\ webhooks \subseteq {"success", "error"}

LoopInit ==
  /\ pc = "idle"
  /\ path = "copilot"
  /\ maxTurns = 0
  /\ calls = 0
  /\ conv = <<>>
  /\ batch = 0
  /\ attempt = 0
  /\ sdk = [k \in SdkIds |-> NewSdkCall]
  /\ done = FALSE
  /\ made = {}
  /\ halt = FALSE
  /\ verdict = "none"
  /\ task = "running"
  /\ published = "running"
  /\ webhooks = {}

Goto(to) == pc' = to

-----------------------------------------------------------------------------
(* Compaction of the conversation: pure functions of the messages *)

System == Msg("system", {})
Note == Msg("note", {})
Prompt == Msg("prompt", {})
Nudge == Msg("nudge", {})

ResultsAt(ms) == {i \in DOMAIN ms : ms[i].kind = "result"}

\* Mutant: the oldest results are kept.
ClearNewResults(ms) ==
  [i \in DOMAIN ms |->
     IF /\ i \in ResultsAt(ms)
        /\ Cardinality({j \in ResultsAt(ms) : j < i}) >= KeepRecentResults
     THEN [ms[i] EXCEPT !.cleared = TRUE]
     ELSE ms[i]]

\* _clear_old_tool_results
ClearOldResults(ms) ==
  [i \in DOMAIN ms |->
     IF /\ i \in ResultsAt(ms)
        /\ Cardinality({j \in ResultsAt(ms) : j > i}) >= KeepRecentResults
     THEN [ms[i] EXCEPT !.cleared = TRUE]
     ELSE ms[i]]

\* The first message after the two that are always kept: the system prompt
\* and the first user message, which both loops put second.
TailStart(ms) ==
  IF Len(ms) - KeepRecentTurns < 2 THEN 3 ELSE Len(ms) - KeepRecentTurns + 1

\* _compact_messages
Compact(ms) ==
  IF Len(ms) <= CompactFloor THEN ms
  ELSE LET cleared == ClearOldResults(ms)
       IN IF TailStart(ms) = 3 THEN cleared
          ELSE <<cleared[1], cleared[2], Note>>
                 \o SubSeq(cleared, TailStart(ms), Len(ms))

\* Mutant: only the calls are flattened.
FlattenCalls(ms) ==
  [i \in DOMAIN ms |-> IF ms[i].kind = "call" THEN Msg("flat", {}) ELSE ms[i]]

\* _anthropic_content_to_str: tool calls and their results become plain text.
Flatten(ms) ==
  [i \in DOMAIN ms |-> IF ms[i].kind \in {"call", "result"} THEN Msg("flat", {}) ELSE ms[i]]

\* The Anthropic loop keeps the system messages out of its own: the prompt, which
\* comes first, and the note that _compact_messages puts third.
WithoutSystem(ms) ==
  IF Len(ms) >= 3 /\ ms[3] = Note THEN <<ms[2]>> \o SubSeq(ms, 4, Len(ms)) ELSE Tail(ms)

\* The messages of the next request when its estimate is over the threshold.
Compacted(ms) ==
  IF Len(ms) <= CompactGuard THEN ms
  ELSE IF path = "openai" THEN Compact(ms)
  ELSE WithoutSystem(Compact(<<System>> \o Flatten(ms)))

-----------------------------------------------------------------------------
(* Entering a path: connections, sessions, the first message *)

\* The run takes path p.  The halt flag may be left over from an earlier run.
Start(p) ==
  /\ pc = "idle"
  /\ path' = p
  /\ maxTurns' \in TurnLimits
  /\ halt' \in BOOLEAN
  /\ Goto("connect")
  /\ UNCHANGED <<loop, session, verdict, record>>

FirstMessages(p) == IF p = "openai" THEN <<System, Prompt>> ELSE <<Prompt>>

EnterLoop(p) ==
  /\ pc = "connect"
  /\ path = p
  /\ conv' = FirstMessages(p)
  /\ Goto("request")
  /\ UNCHANGED <<path, maxTurns, calls, batch, attempt, session, halt, verdict, record>>

EnterOpenAI == EnterLoop("openai")
EnterAnthropic == EnterLoop("anthropic")

\* create_session, session.send
EnterCopilot ==
  /\ pc = "connect"
  /\ path = "copilot"
  /\ Goto("wait")
  /\ UNCHANGED <<path, maxTurns, loop, session, halt, verdict, record>>

\* The environment, the agent and the session are created one by one.
Precedes == [agent |-> "environment", session |-> "agent"]

CreateClaude(r) ==
  /\ pc = "connect"
  /\ path = "claude"
  /\ r \notin made
  /\ r # "environment" => Precedes[r] \in made
  /\ made' = made \cup {r}
  /\ UNCHANGED <<pc, path, maxTurns, loop, sdk, done, halt, verdict, record>>

EnterClaude ==
  /\ pc = "connect"
  /\ path = "claude"
  /\ "session" \in made
  /\ Goto("stream")
  /\ UNCHANGED <<path, maxTurns, loop, session, halt, verdict, record>>

-----------------------------------------------------------------------------
(* Our own loops: one request, its answer, the tool calls it asks for *)

\* The estimate of the request is over the threshold, or it is not.
PrepareRequest ==
  /\ pc = "request"
  /\ \/ conv' = conv
     \/ conv' = Compacted(conv)
  /\ attempt' = 0
  /\ Goto("send")
  /\ UNCHANGED <<path, maxTurns, calls, batch, session, halt, verdict, record>>

\* Mutant: an attempt more than _MAX_RETRIES allows.
RetryRequestOnceMore ==
  /\ pc \in {"send", "final_send"}
  /\ path = "openai"
  /\ attempt <= MaxRetries
  /\ attempt' = attempt + 1
  /\ UNCHANGED <<pc, path, maxTurns, calls, conv, batch, session, halt, verdict, record>>

\* _stream_chat_completion: a retryable status or a connection error.
RetryRequest ==
  /\ pc \in {"send", "final_send"}
  /\ path = "openai"
  /\ attempt < MaxRetries
  /\ attempt' = attempt + 1
  /\ UNCHANGED <<pc, path, maxTurns, calls, conv, batch, session, halt, verdict, record>>

\* The last attempt was answered with 429: the loop sleeps and starts over.
\* (The request for the final answer has no such handler: there it fails.)
RateLimited ==
  /\ pc = "send"
  /\ path = "openai"
  /\ attempt = MaxRetries
  /\ Goto("request")
  /\ UNCHANGED <<path, maxTurns, loop, session, halt, verdict, record>>

\* The model asks for k tool calls.
AnswerWithCalls ==
  /\ pc = "send"
  /\ \E k \in 1..MaxBatch :
       /\ conv' = Append(conv, Msg("call", (calls + 1)..(calls + k)))
       /\ batch' = calls + k
  /\ Goto("tools")
  /\ UNCHANGED <<path, maxTurns, calls, attempt, session, halt, verdict, record>>

\* Text, an empty answer, or tool calls with a finish reason that says stop.
AnswerWithText ==
  /\ pc \in {"send", "final_send"}
  /\ Goto("verdict")
  /\ UNCHANGED <<path, maxTurns, loop, session, halt, verdict, record>>

\* One tool call, with its progress and log saves; an error is a result too.
\* Each of its results is a message of the OpenAI loop ...
ExecuteOpenAITool ==
  /\ pc = "tools"
  /\ path = "openai"
  /\ calls < batch
  /\ calls' = calls + 1
  /\ conv' = Append(conv, Msg("result", {calls + 1}))
  /\ UNCHANGED <<pc, path, maxTurns, batch, attempt, session, halt, verdict, record>>

\* ... the Anthropic loop collects them.
ExecuteAnthropicTool ==
  /\ pc = "tools"
  /\ path = "anthropic"
  /\ calls < batch
  /\ calls' = calls + 1
  /\ UNCHANGED <<pc, path, maxTurns, conv, batch, attempt, session, halt, verdict, record>>

\* Mutant: the limit is never tested.
AfterTurnUnlimited(p, answered) ==
  /\ pc = "tools"
  /\ path = p
  /\ calls = batch
  /\ conv' = answered
  /\ attempt' = attempt
  /\ Goto("request")
  /\ UNCHANGED <<path, maxTurns, calls, batch, session, halt, verdict, record>>

\* The limit is tested once the whole turn has been served.
AfterTurn(p, answered) ==
  /\ pc = "tools"
  /\ path = p
  /\ calls = batch
  /\ IF calls >= maxTurns
     THEN conv' = Append(answered, Nudge) /\ attempt' = 0 /\ Goto("final_send")
     ELSE conv' = answered /\ UNCHANGED attempt /\ Goto("request")
  /\ UNCHANGED <<path, maxTurns, calls, batch, session, halt, verdict, record>>

AfterOpenAITurn == AfterTurn("openai", conv)

\* The calls of a turn are answered with one message.
AfterAnthropicTurn ==
  AfterTurn("anthropic", Append(conv, Msg("result", conv[Len(conv)].ids)))

\* tool_call_count >= max_turns decides the status, whatever stopped the loop.
OwnVerdict(p) ==
  /\ pc = "verdict"
  /\ path = p
  /\ verdict' = IF calls >= maxTurns THEN "max_turns_reached" ELSE "completed"
  /\ Goto("publish")
  /\ UNCHANGED <<path, maxTurns, loop, session, halt, record>>

OpenAIVerdict == OwnVerdict("openai")
AnthropicVerdict == OwnVerdict("anthropic")

-----------------------------------------------------------------------------
(* The Copilot SDK's calls: two approvals, in either order, for each of them *)

Live == pc \in {"wait", "clear_halt", "abort"} /\ path = "copilot" /\ ~done

OpenCall(k) ==
  /\ Live
  /\ sdk[k].fate = "new"
  /\ k > 1 => sdk[k - 1].fate # "new"
  /\ \E counted \in BOOLEAN :
       sdk' = [sdk EXCEPT ![k].fate = "open", ![k].counted = counted]
  /\ UNCHANGED <<pc, path, maxTurns, loop, done, made, halt, verdict, record>>

\* The call asks for an approval that counts it: denied beyond the limit.
Ask(k, which) ==
  /\ Live
  /\ sdk[k].fate = "open"
  /\ which \notin sdk[k].asked
  /\ calls' = calls + 1
  /\ sdk' = [sdk EXCEPT ![k].asked = @ \cup {which},
                        ![k].fate = IF calls' > maxTurns THEN "denied" ELSE @]
  /\ UNCHANGED <<pc, path, maxTurns, conv, batch, attempt, done, made, halt, verdict, record>>

\* permission_handler counts the kinds custom-tool, mcp and shell only.
AskPermission(k) == sdk[k].counted /\ Ask(k, "permission")

\* on_pre_tool_use counts every call.
AskHook(k) == Ask(k, "hook")

RunCall(k) ==
  /\ Live
  /\ sdk[k].fate = "open"
  /\ "hook" \in sdk[k].asked
  /\ sdk[k].counted => "permission" \in sdk[k].asked
  /\ sdk' = [sdk EXCEPT ![k].fate = "run"]
  /\ UNCHANGED <<pc, path, maxTurns, loop, done, made, halt, verdict, record>>

\* session.idle or session.error
SessionOver ==
  /\ Live
  /\ done' = TRUE
  /\ UNCHANGED <<pc, path, maxTurns, loop, sdk, made, halt, verdict, record>>

\* The coroutine wakes up and the session is over.
WaitEnds ==
  /\ pc = "wait"
  /\ done
  /\ Goto("verdict")
  /\ UNCHANGED <<path, maxTurns, loop, session, halt, verdict, record>>

\* Every two seconds: check_halt ...
PollHalt ==
  /\ pc = "wait"
  /\ ~done
  /\ halt
  /\ Goto("clear_halt")
  /\ UNCHANGED <<path, maxTurns, loop, session, halt, verdict, record>>

\* Mutant: the TimeoutError of the deadline is swallowed.
DeadlineSwallowed ==
  /\ pc = "wait"
  /\ ~done
  /\ UNCHANGED vars

\* The deadline: session_timeout, or a day for an infinite session.
Deadline ==
  /\ pc = "wait"
  /\ ~done
  /\ verdict' = "timed_out"
  /\ Goto("publish")
  /\ UNCHANGED <<path, maxTurns, loop, session, halt, record>>

\* session.abort(); a TimeoutError from it is taken for the deadline.
Abort ==
  /\ pc = "abort"
  /\ verdict' \in {"halted", "timed_out"}
  /\ Goto("publish")
  /\ UNCHANGED <<path, maxTurns, loop, session, halt, record>>

\* Mutant: the limit reached is told from the limit exceeded.
CopilotVerdictAtLimit ==
  /\ pc = "verdict"
  /\ path = "copilot"
  /\ verdict' = IF calls >= maxTurns THEN "max_turns_reached" ELSE "completed"
  /\ Goto("publish")
  /\ UNCHANGED <<path, maxTurns, loop, session, halt, record>>

CopilotVerdict ==
  /\ pc = "verdict"
  /\ path = "copilot"
  /\ verdict' = IF calls > maxTurns THEN "max_turns_reached" ELSE "completed"
  /\ Goto("publish")
  /\ UNCHANGED <<path, maxTurns, loop, session, halt, record>>

-----------------------------------------------------------------------------
(* The Claude Agent SDK's events *)

\* A custom tool call is executed here and its result sent; a native or a
\* built-in one is only counted.
ClaudeToolUse ==
  /\ pc = "stream"
  /\ calls < MaxSdkCalls
  /\ calls' = calls + 1
  /\ UNCHANGED <<pc, path, maxTurns, conv, batch, attempt, session, halt, verdict, record>>

\* session.error, or idle for any reason but requires_action.
ClaudeEnds ==
  /\ pc = "stream"
  /\ done' = TRUE
  /\ Goto("verdict")
  /\ UNCHANGED <<path, maxTurns, loop, sdk, made, halt, verdict, record>>

\* The stream is cut: only now the halt flag is looked at.
StreamCut ==
  /\ pc = "stream"
  /\ Goto("stream_end")
  /\ UNCHANGED <<path, maxTurns, loop, session, halt, verdict, record>>

CheckBetweenStreams ==
  /\ pc = "stream_end"
  /\ Goto(IF halt THEN "clear_halt" ELSE "stream")
  /\ UNCHANGED <<path, maxTurns, loop, session, halt, verdict, record>>

ClaudeVerdict ==
  /\ pc = "verdict"
  /\ path = "claude"
  /\ verdict' = "completed"
  /\ Goto("publish")
  /\ UNCHANGED <<path, maxTurns, loop, session, halt, record>>

\* ... and clear_halt, whichever flag is set by then.
ClearHalt ==
  /\ pc = "clear_halt"
  /\ halt' = FALSE
  /\ IF path = "copilot"
     THEN Goto("abort") /\ UNCHANGED verdict
     ELSE Goto("publish") /\ verdict' = "halted"
  /\ UNCHANGED <<path, maxTurns, loop, session, record>>

-----------------------------------------------------------------------------
(* The closing sequence, and the exception handlers that run it again *)

\* _log("completed" / "halted" / "error") and _publish_status
Publish ==
  /\ pc = "publish"
  /\ published' = StatusOf(verdict)
  /\ Goto("save_task")
  /\ UNCHANGED <<path, maxTurns, loop, session, halt, verdict, task, webhooks>>

SaveTask ==
  /\ pc = "save_task"
  /\ task' = StatusOf(verdict)
  /\ Goto("save_wf")
  /\ UNCHANGED <<path, maxTurns, loop, session, halt, verdict, published, webhooks>>

SaveWorkflow ==
  /\ pc = "save_wf"
  /\ Goto("webhook")
  /\ UNCHANGED <<path, maxTurns, loop, session, halt, verdict, record>>

\* _fire_webhook never raises.  A run that was halted, timed out or ran out of
\* turns tells nobody.
FireWebhook ==
  /\ pc = "webhook"
  /\ webhooks' = webhooks \cup
                   (CASE verdict = "completed" -> {"success"}
                      [] verdict = "failed" -> {"error"}
                      [] OTHER -> {})
  /\ Goto("cleanup")
  /\ UNCHANGED <<path, maxTurns, loop, session, halt, verdict, task, published>>

\* Every await of the try block may raise: the model or a tool of the SDK
\* paths, MCP, the database.  The handler closes the run as FAILED.
MayRaise == Pcs \ {"idle", "webhook", "cleanup", "ended"}

Raise ==
  /\ pc \in MayRaise
  /\ verdict # "failed"
  /\ verdict' = "failed"
  /\ Goto("publish")
  /\ UNCHANGED <<path, maxTurns, loop, session, halt, record>>

\* The handler itself raises: run_agent does, and its caller handles it.
RaiseAgain ==
  /\ pc \in {"publish", "save_task", "save_wf", "webhook"}
  /\ verdict = "failed"
  /\ Goto("cleanup")
  /\ UNCHANGED <<path, maxTurns, loop, session, halt, verdict, record>>

\* The finally block: session, agent and environment are removed in turn until
\* one call fails.
Removals == {{}, {"session"}, {"session", "agent"}, {"session", "agent", "environment"}}

Cleanup ==
  /\ pc = "cleanup"
  /\ \E gone \in Removals : made' = made \ gone
  /\ Goto("ended")
  /\ UNCHANGED <<path, maxTurns, loop, sdk, done, halt, verdict, record>>

-----------------------------------------------------------------------------
(* The users: POST /halt and /stop, and the flag's TTL *)

SetHalt ==
  /\ pc \notin {"idle", "ended"}
  /\ ~halt
  /\ halt' = TRUE
  /\ UNCHANGED <<pc, path, maxTurns, loop, session, verdict, record>>

HaltExpires ==
  /\ pc \notin {"idle", "ended"}
  /\ halt
  /\ halt' = FALSE
  /\ UNCHANGED <<pc, path, maxTurns, loop, session, verdict, record>>

-----------------------------------------------------------------------------
(* The specification *)

OwnSteps ==
  \/ EnterOpenAI \/ EnterAnthropic \/ PrepareRequest
  \/ ExecuteOpenAITool \/ ExecuteAnthropicTool \/ AfterOpenAITurn \/ AfterAnthropicTurn
  \/ OpenAIVerdict \/ AnthropicVerdict

CopilotSteps ==
  \/ EnterCopilot \/ WaitEnds \/ PollHalt \/ Abort \/ CopilotVerdict

ClaudeSteps ==
  \/ EnterClaude \/ CheckBetweenStreams \/ ClaudeVerdict
  \/ \E r \in {"environment", "agent", "session"} : CreateClaude(r)

ClosingSteps ==
  ClearHalt \/ Publish \/ SaveTask \/ SaveWorkflow \/ FireWebhook \/ Cleanup

\* What the process itself does, as soon as it is scheduled.
EngineSteps == OwnSteps \/ CopilotSteps \/ ClaudeSteps \/ ClosingSteps

ProviderSteps == RetryRequest \/ RateLimited \/ AnswerWithCalls \/ AnswerWithText

SdkSteps ==
  \/ SessionOver \/ ClaudeToolUse \/ ClaudeEnds \/ StreamCut
  \/ \E k \in SdkIds : OpenCall(k) \/ AskPermission(k) \/ AskHook(k) \/ RunCall(k)

LoopSteps ==
  \/ EngineSteps \/ ProviderSteps \/ SdkSteps
  \/ Deadline \/ Raise \/ RaiseAgain \/ SetHalt \/ HaltExpires

\* The event loop runs the coroutine, the timer fires, Claude ends its turn,
\* and a provider does not answer 429 for ever.
Progress ==
  /\ WF_vars(EngineSteps)
  /\ WF_vars(Deadline)
  /\ SF_vars(ClaudeEnds)
  /\ SF_vars(AnswerWithCalls \/ AnswerWithText)

-----------------------------------------------------------------------------
(* Properties *)

Requesting == pc \in {"send", "final_send"} /\ path \in OwnLoop

\* The calls of message i are answered, all of them and nothing else, by the
\* messages right behind it.
AnsweredAt(ms, i) ==
  \E j \in i..Len(ms) :
    /\ \A m \in (i + 1)..j : ms[m].kind = "result"
    /\ UNION {ms[m].ids : m \in (i + 1)..j} = ms[i].ids

HasCall(ms, i) ==
  \E j \in 1..(i - 1) : ms[j].kind = "call" /\ ms[i].ids \subseteq ms[j].ids

\* A chat API refuses an assistant message whose tool calls are not answered:
\* in every request, however often the context was compacted, the results of
\* each tool call of a turn follow it directly and completely.  The reverse does
\* not hold: _compact_messages cuts by position, so a kept result may have lost
\* its call, but only at the cut, behind the compaction note and before the first
\* call that was kept, and never on the Anthropic path, which turns calls and
\* results into text together.
CallsArePaired ==
  Requesting =>
    /\ \A i \in DOMAIN conv : conv[i].kind = "call" => AnsweredAt(conv, i)
    /\ \A i \in ResultsAt(conv) :
         ~HasCall(conv, i) =>
           /\ path = "openai"
           /\ i > 3 /\ conv[3] = Note
           /\ \A j \in 3..i : conv[j].kind # "call"

\* Whatever was compacted, a request begins with the system prompt and the
\* user's prompt, the newest tool results are whole, and the request for the
\* final answer ends with the instruction to give it.
CompactionKeepsTheTask ==
  Requesting =>
    /\ \A i \in DOMAIN FirstMessages(path) : conv[i] = FirstMessages(path)[i]
    /\ \A i \in ResultsAt(conv) :
         conv[i].cleared =>
           Cardinality({j \in ResultsAt(conv) : j > i}) >= KeepRecentResults
    /\ pc = "final_send" => conv[Len(conv)] = Nudge

Opened == {k \in SdkIds : sdk[k].fate # "new"}
Ran == {k \in SdkIds : sdk[k].fate = "run"}
Denied == {k \in SdkIds : sdk[k].fate = "denied"}

\* max_turns bounds the tool calls of a run: the Copilot SDK runs no more than
\* that, our own loops exceed it by less than one answer's calls (the Claude path
\* has no bound).  It is not cut below half of that either: permission_handler
\* and on_pre_tool_use count one call twice, so that a call may be denied when
\* half the budget is used, but not before.
TurnLimitIsKept ==
  /\ path = "copilot" => Cardinality(Ran) <= maxTurns
  /\ path \in OwnLoop => calls < MaxBatch + (IF maxTurns = 0 THEN 1 ELSE maxTurns)
  /\ Denied # {} => 2 * Cardinality(Opened) > maxTurns

\* The model was told to stop calling tools: a call was denied, or the final
\* answer was asked for.
CutShort == Denied # {} \/ \E i \in DOMAIN conv : conv[i] = Nudge

\* What the run reports is one story, whichever await of the closing sequence
\* raises.  The status tells whether the run was cut short: COMPLETED only if it
\* was not, MAX_TURNS_REACHED only if it was (or the limit is 0, which the two own
\* loops reach without a call; the Claude path knows no limit).  There is never a
\* success and an error webhook, a webhook only when the task is stored and
\* published with its status, and a run that ends without an exception has stored
\* and published its verdict.
ReportsAgree ==
  /\ verdict = "completed" => ~CutShort
  /\ verdict = "max_turns_reached" => CutShort \/ maxTurns = 0
  /\ "success" \in webhooks => task = "completed" /\ published = "completed"
  /\ "error" \in webhooks => task = "failed" /\ published = "failed"
  /\ pc = "ended" /\ verdict # "failed" =>
       task = StatusOf(verdict) /\ published = StatusOf(verdict)

\* Every run that starts returns.
RunEnds == pc = "connect" ~> pc = "ended"
=============================================================================
