# Formal models of TBD Agents

TBD Agents is a FastAPI service that lets users define *workflows* (an agent, a
model, skills, tools, guardrails) and send them prompts. A prompt becomes a
`TaskExecution` that a Celery worker executes with the Copilot SDK, the Claude
SDK or a provider's HTTP API; progress is streamed to browsers through Redis.
State lives in MongoDB or PostgreSQL (documents), in Redis (broker, results,
events, halt flags, schedules, short-term memory) and in the memory of the API
and worker processes.

There is no transaction and no lock anywhere: every handler and every worker
reads whole documents, thinks for a while, and writes whole documents back. The
models here are about what that leaves true.

## Inventory

| Component | State | Operations | Hard behaviour | What makes it correct |
|---|---|---|---|---|
| Workflow API (`api/routes/workflows.py`, `tasks.py`) | `Workflow` and `TaskExecution` documents | prompt, halt, stop, reset, update, delete | decides on three reads (workflow, task, Celery state), writes later; may die between writes | a prompt is refused only for live work, and not for ever; an idle system is not recorded as running |
| Celery tasks (`tasks/agent_task.py`, `celery_app.py`) | messages, results, the worker's copies of the documents | deliver, execute, acknowledge, mark failed, redeliver, revoke | crashes, redelivery, visibility timeout, best-effort cleanup | at-least-once execution; every task settles |
| Agent engine (`core/agent_engine.py`) | the run: turn count, messages, usage; saves of both documents by `_log` | `run_agent`, four execution paths, compaction, retries, tool calls | hooks that save in the background, halt polling, timeout against completion, 429 loops | the turn limit holds; a run ends once, with one outcome; the conversation stays well formed |
| Event bus (`core/event_bus.py`) | counter, history list and channel per workflow in Redis; halt flag | publish, replay, subscribe, set/check/clear halt | id drawn before the event is stored; subscription overlaps replay; keys expire | a reconnecting client misses nothing and sees nothing twice |
| Scheduled agents (`scheduled_agents.py`, `scheduler.py`, `scheduled_trigger.py`) | `ScheduledAgent` documents, RedBeat entries, the ticks' task records | create, update, enable, disable, delete, tick | two stores written one after the other; ticks overlap; whole-document saves | no overlapping runs; disabled means no run; a schedule that is enabled fires |
| Memory (`memory_manager.py`, `memory_stm.py`) | documents (LTM), a sorted set (STM), vectors | store, update, delete, cap, prune, warm-up, context | three tiers written one after the other, no unique key, count-then-trim | what was stored last is what is served; caps hold; what was deleted stays away |
| Vector stores, embeddings (`vector_store/`, `embeddings.py`) | model, client, collection, registry of collections, caches | embed, create, upsert, search | each made when first needed, by whichever coroutine comes first; failures half way; restarts | made once; a collection that is known exists |
| Chat (`chat_handler.py`, `routes/chat.py`) | sessions, messages, chat workflows | turn, start, delete | streamed turns of one session overlap; deletion during a turn; lookup, then insert | counts match messages; the model sees the conversation; no orphans; one chat |
| Knowledge (`knowledge_manager.py`, `routes/knowledge_*.py`) | sources, items, files in GridFS | create, import, test, update, upload, delete | a test connects for long, then saves; cascades are cut | a status is earned; nothing refers to what is gone |
| Guardrails (`core/guardrails.py`, `routes/guardrails.py`) | documents | enforce, create, edit, delete | loaded one by one while they are edited; a PUT is validated when the document is next loaded | whoever is left alone has a say |
| Tools (`tool_registry`, allow lists, `custom_tool_*.py`, `plugin_loader.py`, `mcp_manager.py`) | tool documents, tokens, what a run offers | create, edit, register plugins, test a server, resolve, run | union of ids and tags, names that collide, credentials fetched one by one | what is offered is served, by one who may; source, name and schema belong together |
| Tokens (`token_manager.py`) | encrypted documents | set, rotate, delete, resolve | rotation during a resolution | a tool runs with current credentials, or not at all |
| Agents, skills, providers (`routes/*.py`, `export_import.py`) | documents | create, import, edit, delete, export | edits overlap; the two databases write different things | what was edited is kept |
| Stores (`db.py`, `db_postgres.py`, `repositories/`) | one collection under either database | insert, save, filtered reads, deletion | a save resurrects what was deleted; NULL and types in SQL | the same answers from both |
| Migration (`scripts/migrate_*.py`, `verify_*.py`) | both databases | migrate, dry run, verify | killed and run again; rows refused or skipped; writes meanwhile | its verdict can be believed |
| Start-up, observability, authentication, web clients | – | – | – | – |

How they interact: the API inserts a task record and sends a Celery message;
workers read and write the same two documents as the API; the halt flag goes
from the API to whichever run of the workflow polls first; `_log` publishes
every step on the event bus, which the API's SSE endpoint relays; Celery Beat
fires the trigger, which does for a schedule what the prompt endpoint does for a
user; runs read and write memories.

## Modules and plan

| Module | Models | Composed with |
|---|---|---|
| `TaskDelivery`, `WorkflowRun` | the runs of a workflow: API, broker, workers, halt flag, faults | `WorkflowRun` implements `TaskDelivery` |
| `EventBus` | publishers, history, one stream, the client that reconnects | |
| `Schedule` | routes, RedBeat, ticks, the executions they start | executions are those of `WorkflowRun`, counted |
| `AgentSetup`, `AgentLoop` | one prompt: what it is prepared with; its turns and its end | `AgentRun` hands from one to the other |
| `Memory`, `VectorStore`, `Chat`, `ChatStart`, `Knowledge`, `CustomTools`, `Guardrails`, `Catalogue`, `Documents`, `Migration` | the data beside the runs, a module for each | `Stores` |

`MC*` modules are the instances for TLC; the proofs are in `WorkflowRunTypes`,
`WorkflowRunDelivery`, `WorkflowRunClean`, `EventBusProofs`, `ScheduleProofs`,
`AgentLoopProofs`, `StoresProofs` and `CatalogueProofs`. All modules are written
and checked. Every safety property of a passing run, the refinement of
`TaskDelivery` among them, is a theorem; the liveness properties (`RefusalEnds`,
`EveryTaskSettles`, `DueIsServed`, `StoppedStartsNothing`, `EnabledFires`,
`RunEnds`) are model-checked, as the prover has no rule for fairness. Where a
theorem needs an induction over data (the folds over skills, the positions of a
query's answer), it goes by the least counterexample, as the library's induction
theorems cannot be instantiated here.

## WorkflowRun

One workflow is modelled, because workflows share only the worker slots, and a
slot busy elsewhere is a slot that is slow to receive.

| In the model | In the code |
|---|---|
| `wf` | `Workflow.status`; `"deleted"` when the document is gone. The other statuses of the enum are never stored: `_publish_status` turns every terminal status into ACTIVE |
| `te[t]` | `TaskExecution.status` and whether `celery_task_id` is set |
| `halt` | the key `workflow:halt:<id>`. It has no content; the model remembers which tasks its sender meant |
| `msg[t]` | where the task's Celery message is: not sent, queued, unacknowledged, gone |
| `result[t]` | what `AsyncResult.state` returns |
| `revoked` | the ids in the worker hosts' revoked sets |
| `worker[w]` | one slot: the next database call (`pc`), its task, its copies of the two documents, whether the message is still its own |
| `api[a]` | one request: the next database call, and the documents the handler has read |

Every database or Redis call is a step of its own, so every interleaving of
handlers and workers is explored, and a save writes back what was read some
steps earlier. The actions follow the handlers line by line:
`Prompt*` is `send_prompt`, `Halt*` and `Stop*` are `halt_workflow` and
`stop_task`, `Reset*`, `Update*`, `Delete*` the endpoints of that name;
`LoadWf` to `SaveWorker` and `Ensure*` are `_execute`; `ReloadTe` to `FinalWf`
are `run_agent`; `MarkFailed*` is `_mark_failed`. What happens inside a run, on
whichever of the four execution paths, is module `AgentLoop`; here it is
abstracted to its writes: any number
of `_log` saves (`LogWf`, `LogTe`), a halt that is noticed, an exception that
escapes (`Raise`), or an end with one of the outcomes (`FinalTe`, then
`FinalWf`). Celery is external and modelled from its configuration in
`celery_app.py`: late acknowledgement, rejection when a worker is lost, the
visibility timeout, revocation as a broadcast, results that may expire.

Not in the model: requests that fail at once (404, 403) and change nothing;
document fields that no decision reads; a save of a finished run that is
overtaken on its way to the database (one process's saves are taken to be
applied in the order it issues them); exceptions of database calls outside the
phases in which the run itself works; scheduled runs.

### Runs

| Run | Instance | Shows |
|---|---|---|
| `wr_clean` | 2 tasks, 2 workers, 1 request at a time; prompts and deletions; one visibility timeout; results expire | `TypeOK`, `IdleIsClean`: 3.4 million states |
| `wr_recovery` | 1 task, 2 workers, every request, two faults of any kind (worker, API process, `_mark_failed`) | `RefusalIsBacked`, `AtLeastOnce` (the refinement of `TaskDelivery`), `RefusalEnds`, `EveryTaskSettles` |
| `wr_guard` | 2 tasks, 2 workers, prompts only | counterexample to `NoConcurrentRuns` |
| `wr_crash` | 2 tasks, 1 worker that dies once | counterexample to `QuietIsNotRunning` |

Deadlock checking is off in all of them: when all tasks are used and no request
is in progress the system is at rest.

`TaskDelivery` is the abstract queue: a submitted task is owed an execution, and
is settled by an attempt only once that attempt has ended (its worker is about to
acknowledge), or because the task was revoked. A crash loses the attempt, and the
task stays owed. The
mutant of `AtLeastOnce` is a crash that acknowledges the message, as it would be
without `task_reject_on_worker_lost` (`celery_app.py` 37).

Bounds. Two tasks are two prompts, the least with which runs overlap and one
run's save undoes another's; two workers, the least that execute them at once
or execute one message twice. `MaxFaults` and `MaxLapses` count faults and
visibility timeouts; two faults let a crash be followed by a failing
`_mark_failed` or a crash of the redelivered execution. `TypeOK` and
`IdleIsClean` are checked with the timeout and `AtLeastOnce` with the faults,
because the two together exceed what can be explored; the theorems below have
no such bound. `IdleIsClean` is checked without crashes, resets and edits
because with them it is false: `wr_crash` shows the first, and a `PUT` of the
status read before a run ended (or a reset before its worker has been killed)
leaves RUNNING behind in the same way.

Fairness. `Execute(w)` is weakly fair: a worker that has a task goes on. For the
run itself this is the deadline of the Copilot path (`agent_engine.py`
3743-3749), which ends every wait. It does not hold for a provider that answers
429 for ever (line 2821), so the two liveness properties say nothing of such a
run. Receiving, redelivering and discarding are weakly fair, as Celery keeps
consuming. Users, crashes, timeouts and expiry are not fair.

### What the code does not keep

* `wr_guard`: "Verify the RUNNING guard prevents concurrent task submission"
  (`tests/integration_postgres/test_postgres_workflow_lifecycle.py:109`). Two
  prompts in sequence, no fault, two runs at once: the workflow is RUNNING only
  from the moment a worker enters the run, and the guard can be passed even then
  when a worker's save has erased `celery_task_id`.
* `wr_crash`: "if a worker crashes, `task_acks_late` re-queues the task; the
  workflow is marked as failed" (`docs/features.md:323`). The redelivered task
  is refused by the RUNNING its predecessor left, and the workflow stays RUNNING.

Without a run: `running --> max_turns` (`docs/guide/workflows.md:81`) is undone in
every run that meets the limit, as `_execute` overwrites MAX_TURNS_REACHED with
COMPLETED (`agent_task.py` 71).

### Proofs

The constants are arbitrary: any sets of tasks, workers and requests, any number
of faults and timeouts. The assumptions are that `NoTask` is not a task and that
the kinds, bounds and flags have their types.

* `TypeCorrect` (`WorkflowRunTypes`): `TypeOK`, strengthened by *a slot that is
  not idle has a task*, without which the functions on tasks would be applied
  outside their domain.
* `DeliveredAtLeastOnce` and `RefusalBacked` (`WorkflowRunDelivery`) share the
  invariant `DeliveryInv`: a task document exists before its message and has a
  Celery id only after it (`Docs`); what requests remember agrees with that
  (`Sound`), so that a stale copy written back cannot break it; no two requests
  submit one task (`Distinct`); workers execute submitted tasks (`Busy`); a
  message that a worker owns is unacknowledged and owned once (`Owners`). The
  first theorem is the refinement: initial states and steps of `WorkflowRun` map
  to those of `TaskDelivery`, most steps to stutters. A worker's attempt has ended
  when it is about to acknowledge; a worker that terminates a task before that
  does so for a revocation. `RefusalBacked` needs in
  addition that a final result is stored before the message goes (`ResultFirst`)
  and assumes that results do not expire; when they do, a task that is long dead
  reads PENDING and the property is false.
* `IdleSystemIsClean` (`WorkflowRunClean`), without worker crashes, failures of
  `_mark_failed`, resets and edits: `IdleIsClean` is not inductive, because it
  says nothing while workers run. `CleanInv` says who will put things right:
  a RUNNING workflow has a worker that still owes its final save (`WfCovered`),
  a RUNNING task one that still looks at its status (`TeCovered`), a run that
  has not entered can only write back ACTIVE (`Entering`), and no request has a
  stale copy that could disturb them (`Undisturbed`).

Only model-checked: `RefusalEnds` and `EveryTaskSettles`, which are liveness
properties under fairness.

## EventBus

One workflow and one client: workflows have separate keys, and streams do not
interact.

| In the model | In the code |
|---|---|
| `counter` | the key `workflow:eventid:<id>`, 0 when it is absent |
| `log` | the ids of all events ever stored, in the order of the MULTI/EXEC pipelines (`event_bus.py` 75-82). One pipeline publishes an event and stores it, so the history and the subscription are two windows on the same sequence |
| `dropped` | where the history list begins in `log`: LTRIM and expiry move it |
| `publisher[p]` | one call of `publish`: before INCR, or before the pipeline, in its first or second attempt |
| `stream` | the generator `subscribe`: `next`, the first event its subscription has not handed out; `todo`, what of the history is still to be replayed; `seen`, `seen_up_to` |
| `lastId`, `have`, `got` | the browser's Last-Event-ID, the events it has received, and those of its present connection |

Events are places in `log`, not ids, because ids repeat: when the counter
expires they start again, and an attempt whose answer was lost is repeated.
`Draw` and `Store` are the two calls of `publish`, `DrawFails` and `StoreFails`
the same calls when they fail, with or without effect. `Connect`,
`ReadHistory`, `Replay`, `GoLive` and `Live` are `subscribe` between its
awaits and yields; `Disconnect` may happen at any point. An event lost on its
way to the browser is a `Disconnect` before its delivery, since the browser's
id has not moved.

Two assumptions on time. `Quiet`: keys live five minutes after the last event,
and by then no call of `publish` is half done and no stream is between
subscribing and reading the history. `ReaderKeepsUp`: fewer than 500 events
are stored between those two steps of a stream. Without either, what is dropped
in between is lost to a stream that had been told it would be replayed.
Not in the model: malformed payloads, keepalives, and a subscription that the
Redis client re-establishes by itself (here it ends the stream).

### Runs

| Run | Instance | Shows |
|---|---|---|
| `eb_reconnect` | 2 publishers, history of 2, 3 events, 1 failed call, 2 lost connections, keys expire | `TypeOK`, `InOrder`, `OnlyOvertakenIsLost`, `DueIsServed`: 187,110 states |
| `eb_lost` | 2 publishers, history of 4, 4 events, 1 lost connection, no failure | counterexample to `NothingIsLost` |

Bounds. Two publishers are what it takes to store events in the other order
than their ids. With three events and a history of two an event is dropped, one
is replayed and one arrives live; two lost connections let a client resume from
a replay that was itself cut short. Deadlock checking is off: when all events
are stored and sent there is nothing to do.

Fairness. Only `Serve` is weakly fair: the browser reconnects by itself and the
server sends what it has. Publishers and expiry are not fair, and lost
connections are bounded by `MaxDrops`, so `DueIsServed` says that a client
that at some point stays connected is served.

### What the code does not keep

`eb_lost`: "ensuring no events are lost on reconnection" (`event_bus.py`
123-124). The id is drawn before the event is stored, so that of two concurrent
publishers the second may be stored first; a client that has received it and
reconnects asks for greater ids only. `OnlyOvertakenIsLost` says that this,
and what the history drops, is all a client can lose.

### Proofs

`EventBusProofs`, for any set of publishers, any cap, and any bounds:

* `EventBusTypeCorrect` and `StreamLosesOnlyOvertaken` follow from `BusInv`.
  `OnlyOvertakenIsLost` speaks of a stream that has caught up; the invariant
  says for every phase where an event that the client should get will come
  from, and that it will not be taken for an old one: its id is above
  Last-Event-ID and above `seen` (`Pending`). An event that becomes due only
  because an earlier one is delivered during a replay needs `Behind`: what will
  be replayed or received lies behind the event being replayed. `Phases` and
  `Heard` tie `seen` and Last-Event-ID to events the client has.
* `StreamKeepsOrder` adds `Ahead` (the replay goes on behind what it has
  delivered) and `Recognised` (a message of the subscription that was
  replayed, or lies before something that was, has an id that gives it away).

Only model-checked: `DueIsServed`, a liveness property under fairness.

## Schedule

One scheduled agent, because schedules share nothing but worker slots.

| In the model | In the code |
|---|---|
| `db` | which database there is |
| `sa` | the `ScheduledAgent` document: whether it exists and is `enabled`, and its `end_at`: none, the moment after which `past` holds, or a later one |
| `entry` | its RedBeat entry in Redis |
| `wf`, `past` | whether the workflow exists, and whether `"soon"` has passed |
| `ticks` | `run_scheduled_agent` messages in the queue |
| `trigger[k]` | a slot that executes a tick: the next call of `_execute` (`scheduled_trigger.py`) and the document it loaded |
| `pending`, `running` | how many of the schedule's `TaskExecution` records have that status; the find_one of lines 67-70 looks at nothing else |
| `sent`, `returning` | how many of the PENDING have a message; how many settled ones will be RUNNING again |
| `api[a]` | one request: the next call of the handler, and the document it loaded or set |

`Tick*` are the calls of `_execute` in their order, `TickStamp` the save of the
whole document that ends it. `CreateInsert`, `Register`, `CreateSave` and
`CreateUndo` are `create_scheduled_agent`; `Update*`, `Enable*`, `Disable*`,
`Delete*` with `Register` and `Unregister` the other handlers. A handler that
finds nothing to do (an enabled schedule enabled again) changes nothing and is
left out. The executions are those of `WorkflowRun`, counted by status:
`RunStarts` is the receipt of the message, after which the run is entered or
refused, or nothing done if the workflow is gone; `RunEnds` its end; `RunSaves`
the save with which a run brings a deleted workflow back; `Settles` and
`RunReturns` are the cases in which a settled record becomes RUNNING again,
because its worker died before it acknowledged the message, or because a reset
or a stop settled a record whose worker goes on and saves its copy.

The database matters twice. MongoDB's `set` writes the given fields into the
document there is, PostgreSQL's writes all fields of the copy in memory
(`db_postgres.py` 962-967): `SetBase`, `Set`. And MongoDB's client is not made
`tz_aware` (`db.py` 45), so that `end_at` comes back without a time zone and its
comparison with `datetime.now(UTC)` raises (`scheduled_trigger.py` 54): a tick of
a schedule with an end date ends there (`Comparable`).

`Unregistered` changes nothing: `delete_schedule` gives `from_key` the name of
the entry without the prefix under which RedBeat keeps it, and takes the KeyError
for an entry that was deleted before (`scheduler.py` 91-97). An entry that was
made stays; what stops a schedule is its document.

Not in the model: `start_at`, which no code reads; the interval; edits of name
and prompt, except as an `update` that concerns no timing; a prompt that takes a
scheduled execution for dead because it has no Celery id.

### Runs

| Run | Instance | Shows |
|---|---|---|
| `sch_ticks` | either database, 2 slots for ticks, 1 request at a time, 1 fault of any kind; every request with MongoDB, creation and updates with PostgreSQL | `TypeOK`, `OverlapIsBounded`, `StoppedStartsNothing`, `EnabledFires`: 666,698 states |
| `sch_disable` | MongoDB, 1 slot, 1 request at a time, create, enable, disable, no fault | counterexample to `DisabledStaysOff` |
| `sch_expired` | MongoDB, 1 slot, one creation, no fault | counterexample to `ExpiredIsDisabled` |

Bounds. Two slots are what it takes for two ticks to pass the check for an
active execution together. `MaxRuns` is 3, one more than `OverlapIsBounded`
allows without a fault, so the bound does not hide a violation; one queued tick
is enough because a tick that waits is indistinguishable from one that is sent
later. One fault is enough to lose any call, kill any process or bring an
execution back once. With PostgreSQL a request keeps what it has read, which
multiplies the states; creation and updates, which move the end, are those that
concern end dates. Deadlock checking is off: without an entry the system rests.

`Beat` sends no tick while the handler that made the entry is still about to
save the document: an interval is a minute at least.

Fairness. `Beat` is weakly fair, since Beat goes on sending what is due;
ticks and handlers that have begun go on; executions start and end, which for a
run is `EveryTaskSettles` of `WorkflowRun`, with the exception stated there (a
provider that answers 429 for ever). Users and faults are not fair.
`StoppedStartsNothing` says that a schedule that is off, deleted or past its end,
or without its workflow, starts finitely many more executions, although its
entry remains. `EnabledFires` has three conditions that the code
needs. Nothing may have failed: a trigger that dies between the insert and the
dispatch leaves a PENDING record without a message, and every later tick skips.
The workflow may not have been deleted: a message received meanwhile leaves
such a record too, and a run that is still going brings the workflow back. And
with MongoDB the schedule may have no end date.

### What the code does not keep

* `sch_disable`: "Use `/enable` and `/disable` to toggle execution"
  (`docs/api/scheduled-agents.md:71`). A tick loads the schedule, the user
  disables it, the tick's last save writes `enabled` back. Nothing fails, and the
  schedule goes on firing.
* `sch_expired`: "If expired → auto-disables the schedule"
  (`scheduled_trigger.py:6`). With MongoDB every tick of a schedule with an end date
  raises, before the end and after it: it never fires, and is never disabled.
  The tests give the trigger an `end_at` with a time zone.

Without a run: "Each ScheduledAgent document maps 1-to-1 with a RedBeat scheduler
entry in Redis. These helpers keep the two in sync" (`scheduler.py` 3-4) is false
after any disable, delete or expiry, as the entry stays.

### Proofs

`ScheduleProofs`, for any set of slots (finite, as it is counted) and of
requests, for both databases, and any bounds:

* `ScheduleTypeCorrect`: `TypeOK` says that no message waits for an execution
  that is not PENDING. It needs `Covered`: each slot between its insert and its
  dispatch has an execution of its own that is PENDING without a message.
* `OverlapBounded`: `Bounded` counts with the executions under way those that
  will return and the slots that have passed the check but not inserted
  (`Committed`). A slot passes the check only when nothing is under way, so that
  the committed slots and what will return (no more than the faults,
  `FewReturn`) are all there is to count; an insert turns a committed slot into
  an execution.

Only model-checked: `StoppedStartsNothing` and `EnabledFires`, liveness
properties under fairness.

## AgentSetup, AgentLoop, AgentRun

One prompt inside `run_agent`. `WorkflowRun` knows of a run only what it writes
to the shared documents; here is what happens between those writes. The model
provider, the SDKs and the MCP servers are the environment.

| In the model | In the code |
|---|---|
| `setup` | what the run is prepared from: the provider, the MCP server documents with what the live servers list, the custom tools, the skills by id and by tag |
| `ResolvedPath` | the resolution of the provider and the routing to one of four paths |
| `McpConfig`, `Connected`, `Dispatch` | `build_mcp_servers_config`, `_connect_mcp_and_list_tools`, both by the number of the server's document, and the dispatch of a tool call |
| `SkillSections` | `_build_system_prompt` with `_add_skill_section`, counting characters |
| `pc`, `path`, `maxTurns`, `calls` | where the coroutine is, the path it takes, `workflow.max_turns`, `tool_call_count` |
| `conv` | the messages of the next request of our own loops; of a message only its kind and the tool calls it carries |
| `sdk`, `done`, `made` | the Copilot SDK's calls with the approvals they asked for; the end of the session; the Claude environment, agent and session that exist |
| `halt` | the workflow's halt flag, which may be left over from an earlier run |
| `verdict`, `task`, `published`, `webhooks` | what the run decides, and what it tells the database, the event bus and the webhook |

`Compact`, `ClearOldResults` and `Flatten` are `_compact_messages`,
`_clear_old_tool_results` and `_anthropic_content_to_str` on such sequences.
`RetryRequest` and `RateLimited` are `_stream_chat_completion` and the 429 loop
around it. `AskPermission` and `AskHook` are `permission_handler` and
`on_pre_tool_use`, which may come in either order, for several calls at a time.
`Raise` may happen at any await; the handler then runs the closing sequence
(`Publish` to `FireWebhook`) again as FAILED, and may itself raise.
`AgentRun` hands from the preparation to the loop: the path is all the loop
needs of it.

Not in the model: the text of messages, token counts and usage, sub-agents, the
stream of deltas, what the tools themselves do, and the saves of `_log`
(`WorkflowRun` has them).

### Run

`ar_prompt`: 416,897 states; `LoopTypeOK`, `OffersAreHonest`, `SkillsFit`,
`CallsArePaired`, `CompactionKeepsTheTask`, `TurnLimitIsKept`, `ReportsAgree`,
`RunEnds`.

Bounds. Limits 0 to 3 and answers of one or two tool calls: a limit that an
answer meets exactly, exceeds by one, or that nothing may use. Three calls of an
SDK are one more than a limit of two allows. The settings of compaction are
scaled down (3, 5, 3 and 1 for 4, 8 and the two configured numbers), so that a
conversation of this length is compacted, and compacted again.
Up to two servers with every combination of documents and live tools decide
about names that collide; three skills of different lengths under a budget that
clips one of them, in every combination of an id list and two tags. Deadlock
checking is off: a run ends.

Fairness (`Progress`). `EngineSteps` is weakly fair, the event loop running the
coroutine, and so is `Deadline`, a timer. `ClaudeEnds` and an answer of the
provider are strongly fair: the Claude path has neither a deadline nor a turn
limit, so that its end rests on the model alone, and a provider that answers 429
for ever is retried for ever (`agent_engine.py` 2821). What
the halt flag does is not needed: only the Copilot path polls it while it works.

`TurnLimitIsKept` is weaker than a limit, on purpose. A Copilot call of a counted
kind is counted twice, so a run may be cut at half its budget; our own loops test
the limit after a whole answer has been served; the Claude path has none.

### Proofs

`AgentLoopProofs`, for every set of limits, every number of calls in an answer
(at least one) and of calls of an SDK:

* `TurnLimitHolds`: `TurnLimitIsKept` says nothing of a loop under way. `TurnInv`
  adds, for our own loops, that a further turn is asked for only below the limit,
  and that a turn being served ends less than one answer above it (`TurnsFit`);
  for the Copilot SDK, that `calls` counts each approval asked for, of either
  kind, that what the hook allowed never exceeds the limit, and that a denial
  means `calls` has (`ApprovalsCount`). Two approvals for each opened call then
  give the half below which no call is denied. `OnItsPath` keeps the steps of one
  path from the counts of another.
* `PairingSurvivesCompaction` and `TaskSurvivesCompaction` follow from
  `ConvInv`. The property speaks of a request about to be sent; the invariant
  says of every phase where the open turn is: the message with its calls, and
  behind it the results given so far, while all earlier calls are answered
  (`OpenTurnAt`). In the OpenAI loop, where compaction may cut between a call
  and its results, each result follows its call or is an orphan behind the note
  (`Traced`); the newest results are whole (`Whole`), there is no nudge before
  the last request (`NoNudge`), and the task is where each loop keeps it
  (`Begins`). What compaction does to a sequence is said once, in lemmas
  (`CompactShape`, `CompactKeeps`, `CompactFlattens`): a prefix, the note, a
  suffix.
* `RunsTellOneStory`: `ReportsAgree` compares four places when all is over.
  `ReportInv` follows the story as it is told: the nudge or a denial means the limit
  was met (`CutAtLimit`); there is a verdict from the closing sequence on, and it
  agrees with how the run was cut (`Decided`); the task and the event have it from
  their own step on, and to the end if nothing was raised or a webhook was fired
  (`Told`).
* `RunTypeCorrect`: `LoopTypeOK`.
* `OffersAreServed`: what a prompt offers is read off the same preparation that a
  call is dispatched with, so that the argument is about one state (`Prepared`):
  of the servers that list a tool, the one a call goes to is the last that does
  and may (`ServerOfIs`), which exists because a set of numbers below a bound has
  a largest (`LargestIs`).
* `SkillsStayWithinBudget`: for any skills, lengths, ids, tags and any budget. The
  prompt is put together by a fold over the ids and, inside a fold over the tags,
  one over the skills of each tag. That such a fold is well defined, and goes one
  element at a time, is proved for any step of any values (`FoldExists`, which
  builds the function that the fold chooses, and `FoldGoes`; by `AllNumbers`,
  induction by the least counterexample). Then what is shown never exceeds what
  the budget has been charged, after each skill (`OneSkillMore`), and so after
  the ids (`NamedFit`), after a tag (`TaggedFit`) and after all (`PromptFits`).
  Assumed: sizes and the budget are naturals.

Only model-checked: `RunEnds`, a liveness property under fairness.

## Stores

Ten modules for what is kept beside the runs. They share the databases but no
document, so that their steps commute: in a behaviour of `Stores` one of them
moves (`part`), which is enough for properties that concern one each. Two runs
share them out (`Parts`): `stores_live` has memories, vectors, chat sessions and
chat workflows (922,280 states), `stores_kept` the rest, with `StoresTypeOK`
(1,472,695 states).
Requests and ids that play the same part are symmetric. In all modules a step is
what happens between two awaits, a request may be cut at any of them, and the
variables marked *history* only remember, so that a property can say when it
holds. Deadlock checking is off: the requests of an instance are finitely many.

Bounds that are common: two documents, and three requests of which two overlap
(`MaxBusy`, `MaxCalls`, 2) and the third finds what they left.

### Memory

`ltm` is the collection of memories, `stm` the Redis sorted sets, `vec` the
point of each memory in the vector store, `memOps` the coroutines. `Find` to
`Forget` are `store` and `_enforce_ltm_cap`; `StoreVector` is
`_upsert_vector_store`; `Zrange` to `Ztrim` are `push_memory`; `Delete*`,
`BeginUpdate` (the read of a PUT) and `UpdateMemory` (its write) the routes; `Warmup*` is `warmup_all_agents`; `Prune` is `prune`;
`Recalled` says what each tier of `build_memory_context` would answer in a
workflow: a session memory of the documents is shown to the workflow it names
(`Shown`), and of those that are shown, the newest of each key (`Visible`). The
trimming of a store lists what it will delete, then deletes it by id: a document
that another store has written again in between goes with its new value. Such an
interference counts as a disturbance (`fresh`); `spilled` remembers, for each
agent and tier, a trimming that an error has cut. 527,278 states with two
identities, one of which expires, and caps of 2 in both tiers, which a third
memory or a duplicate exceeds.

With PostgreSQL the `set` of a PUT is an upsert of the whole copy
(`db_postgres.py` 936-939, 962-967): a document that was deleted or trimmed after
the PUT has read it is there again. The properties say so.

* `FreshIsServed`: after an undisturbed store whichever tier answers has the new
  value, whatever earlier races have left, unless another store's trimming has
  deleted it. Of the documents it speaks for the workflows that are shown the
  stored one, or the newest.
* `TiersBounded`: the caps hold whenever nobody is between adding and trimming,
  unless a document has been brought back and nobody has counted since; a
  duplicate needs two stores that overlapped, or such a PUT.
* `DeletedIsForgotten`: by documents and short-term memory, if nothing else
  touched the memory meanwhile, a PUT included; the vector stays.

Left out: listing, searching by keyword, the wording of the context, a PUT that
changes the scope or the key.

### VectorStore

One process: `model` and `client` with their locks and the double check under
them, the collection (`table`), the registry of collections (`metaTable`,
`metaRow`) and its cache. `Embed` to `Query` are `EmbeddingsService` and either
adapter (`backend`), every call of a service a step that may fail. A worker runs
each task in an event loop of its own (`agent_task.py` 15, 21) and keeps the
adapter (`factory.py` 27), so that a client can be of a loop that is closed
(`NewLoop`, `stale`, `StaleCall`). 168,948 states: two dimensions, one restart.

* `BootstrapIsOnce`: one client, one load of the model; what the registry or its
  cache knows exists.
* `AloneSucceeds`: whatever failed half way, a later operation alone succeeds,
  with four exceptions: the client is of a task that has ended; there is a pool,
  but creating the registry table failed; a Qdrant search before anything is stored;
  a pgvector search when something is, as its hits are read with `dict()` of what
  asyncpg returns for JSONB, a text (`pgvector_adapter.py` 327, 175).

Left out: scroll, delete and count, filters, similarity, a model load that is
cancelled.

### Chat and ChatStart

`Chat`: `turns` are streams of `handle_chat`, from `StartTurn` (the session is
loaded) to `CountAssistant`; each saves its own copy of the session twice.
`deleters` are the route that removes messages, then the session. 225,642 states:
three turns, one deletion, a window of two messages, which two turns exceed.

* `CountIsHonest`: `message_count` never claims too much, and is exact when turns
  follow one another.
* `PromptIsTheConversation`: the model is sent the end of the conversation, with
  this turn's message once and last.
* `DeletionLeavesNothing`: no orphans, wherever it is cut.

`ChatStart`: `LookUpChat` and `InsertChat` are `POST /chat/start`, beside runs and
edits of the workflows it may find; 412 states. `OneChat`: all starts
give one workflow, unless they overlap, a prompt is being executed, or the user
has other workflows for the agent.

### Knowledge

Sources, items, files in GridFS, and the requests that create, import, test,
update, upload and delete them, under either database: PostgreSQL's `set` saves
the whole copy, MongoDB's the given fields. 212,616 states.

* `StatusIsEarned`: the status is of the connection the source has now.
* `NothingDangles`: a file that an item names is there; no item is without its
  source.

Left out: what a connection test does, how files are cut into chunks, searching.

### CustomTools

The routes of custom tools and tokens, the plugin loader at application start,
and the execution of a tool: `CreateTool` to `DeleteTool` are the
routes, with validation and inference in a subprocess as outcomes; `FindToLoad` to
`SwitchOff` the loader; `StartCall` to `Collect` a call, whose credentials are
looked up one by one (`token_manager.py`) before the subprocess is spawned.
130,649 states: three tools, two coroutines, tokens of which one may itself
contain a reference and one cannot be decrypted, one write to them.

* `ToolsAreWhole`: name, source and schema belong together, except in a tool that
  MongoDB's `set` has given some fields of one edit beside those of another
  (`torn`).
* `CredentialsAreCurrent`: a tool runs with what is stored, or not at all.

### Guardrails

`StartCheck`, `LoadListed` and `LoadTagged` are `enforce_guardrails` and
`enforce_output_guardrails`, `Verdicts` the checks they make; `ReadGuard`,
`UpdateGuard`, `DeleteGuard` and `CreateGuard` the routes. What a guardrail says
of a text is data (`rule`): it `"holds"`, `"fails"`, or `"raises"` when its pattern
or schema is invalid, which nobody tries before; `"null"` is a document in which
a PUT has made the name, the description, the tags, `enabled` or the
configuration null, and which cannot be loaded any more. (PostgreSQL's columns
refuse such a PUT, but for the configuration.) The order in which guardrails
speak is left open. 468,005 states: two guardrails, one of them named by id, and
one write during the check.

`GuardrailsDecide`: whoever is left alone has a say, and nobody else; a check
raises because of an invalid pattern or schema that it applied, or because of a
document that cannot be loaded.

Left out: ids that are not well formed.

### Catalogue

Agents (skills are edited in the same way), providers, MCP servers and workflows,
and the requests that load one and write it later. `SetFields` is `set()`,
`SaveServer`, `SaveTools`, `TestServer` and `SaveWorkflow` are `save()`.
64,571 states: two documents, three edits (`MaxEdits`), which is two that overlap
and one before or after. `EditsAreKept`: a document is what its edits come to, a
CONNECTED server has been connected to as it is, names of providers are unique,
a workflow names an agent.

### Documents

One collection under either database. MongoDB's meaning of a filter is given as
such (it is external); PostgreSQL's is that of the SQL that `_translate_filters`
writes, in three-valued logic. 800 states: three rows of five kinds of
documents, the filters the application uses, and each operator on each kind of
path.
A query selects positions (`MongoMatches`, `PgMatches`), which `RowsAt` turns into
documents and `Page` cuts; MongoDB, asked without an order, may give them in any.
`AnswersAgree`: PostgreSQL answers as MongoDB could have, for conditions that are
portable and limits that are positive. A limit of 0 is none for MongoDB and no
rows for PostgreSQL (`db_postgres.py` 714-715); a negative one is a single batch
for MongoDB and refused by PostgreSQL.

`Portable` says for which conditions the translation means the same: no comparison
with null but equality, `$ne` only of a value that is there, no ordering of an
array; `$exists` of a column only if it is not null; behind a dot only texts with
texts and numbers with numbers, `$in` only of texts and `<` only between numbers,
since the SQL casts to numbers what it orders and compares texts otherwise. Of the queries
of the application only the pruning and the keyword search of memories are not
portable, and only the list of chat sessions takes any limit (`chat.py` 168, 186).

Left out: row conversion, connections, DDL, the pass-through of the repositories.

### Migration

`migrate_mongo_to_postgres.py` and `verify_migration.py`, batch by batch, beside
an application that writes; either may be killed and run again. Timestamps come
from MongoDB as times in UTC that do not say so, `_coerce` returns them as they are
(303-305), and asyncpg reads them in the zone of the host, so that a row records
in which zone its `created_at` and its other timestamps were read (`born`,
`zone`); an upsert leaves `created_at` as it was (362). 596,054 states: two
collections of up to two documents, the application writes to one of them
(`LiveCollection`), batches of two, a sample of one, two zones, one write, one kill.

`VerdictsAreEarned`: exit status 0 and PASS mean what they say, but for the
timestamps, which are those of MongoDB only if the host is in UTC (`Says`).

### What the code does not keep

Seen while modelling, each in the model, or beside it where the models have no such
data; the properties above state them as exceptions:

* "Remove expired memories" (the docstring of `prune`): the filter
  `{"ttl": {"$ne": None}, ...}` becomes `ttl != NULL` (`db_postgres.py` 605), which is
  never true in SQL. With PostgreSQL nothing is ever pruned.
* A pgvector search that finds something raises; memories are then recalled from
  the other tiers.
* "Drop-in replacement" (`db_postgres.py` 774): `GET /chat/sessions?limit=0` lists all
  sessions with MongoDB, none with PostgreSQL.
* A migration from a host that is not in UTC, as `docs/guide/postgres-backend.md`
  196-199 runs it, shifts all timestamps, exits with 0, and is verified with PASS.
* `custom_tool_runner.py` 224 embeds the arguments of a tool as JSON in Python
  source: `true`, `false` and `null` are names that Python does not know.
* A PUT may set fields of a guardrail to null. The document can then be neither
  read nor deleted by the routes, and blocks every prompt of the workflows that
  name it by id, even when it is disabled. An invalid pattern is accepted, too, and
  raises in every check.
* `/chat/start` does not look at the title: it hands out any workflow of the
  agent with an infinite session, and creates another while the chat runs.
* PostgreSQL's `find_one` without an order gives the newest, MongoDB's any.
* Agents get new ids when a bundle is imported; workflows keep the `agent_id`
  they were exported with, and are refused on a fresh system.
* Prompt guardrails look at `prompt`, also when the request object is what is
  sent to the model.
* A connection test of an MCP server saves the document it loaded: an edit made
  meanwhile is undone.
* "Remove oldest memories when the per-agent LTM cap is exceeded."
  (`memory_manager.py` 146): the documents are listed, then deleted by id (162-163),
  so that one stored again in between, by then the newest, is deleted all the same.
* A halt flag that no run polls in time (our own loops never do) halts the next
  run of the workflow.

### Proofs

Each theorem is about a module by itself; that it holds of all of them beside each
other is `StoresKeepTheirPromises`, below. The sets of documents and requests and
all bounds are arbitrary; what stands for "no document" is none. In `StoresProofs`:

* `ChatStart`: `OneChatIsKept`. While starts are undisturbed there is no
  workflow but the chat, which was given in every answer, and at most one request
  is about to create it, while there is none (`Alone`). A disturbance is for
  ever, so that the invariant need say nothing afterwards.
* `Guardrails`: `GuardrailsAreApplied` is about checks that are over. `Found` says
  what a check under way has found of the guardrails that were left alone: those
  that it has looked up by id and that are enabled, as they are, and nothing else;
  so that the query by tag completes it, and whatever is raised or refused has
  its guardrail.
* `Chat`: `CountsAreHonest`, `PromptsAreTheConversation` and
  `DeletionsLeaveNothing` share `ChatInv`. Neither a session nor a turn's copy
  of it, which will be written back, counts more than there is (`Counted`); no
  message is one of a turn that has not stored its own (`NotYetSaid`), so that
  what a turn sends has its message once, and last (`Prompted`). While turns
  follow one another and none is cut, the copy is the session's, which lacks no
  more than the message being saved, and the turn sends the end of the
  conversation (`InOrder`, `InTurn`, with lemmas on the last elements of a
  sequence; the window is positive). Unless a deletion and a turn overlap, a
  session stays while a turn is on it, and has no messages once it is gone
  (`Stays`).
* `CustomTools`: `StoredToolsAreWhole` and `CallsHaveTheirCredentials`. What a
  request holds to store it again is whole, unless it was torn when it was read
  (`HeldToWrite`); what a call has looked up is what is stored, unless it was
  rewritten since (`LookedUp`). Assumed: the tools there are at first are whole,
  mappings and overrides name tokens, and a plugin's file defines the plugin.
* `Migration`: `ScriptsCanBeBelieved`. The verdict is said when the script is over;
  `Earning` says what it has earned so far, if nobody has written meanwhile and
  nothing has failed: the collections it is done with are copied, or compared
  (`Copied`, `Compared`); of the one at hand, what the cursor has given is in the
  batch or in the table (`HalfCopied`), and what was sampled is equal
  (`HalfCompared`). Every `created_at` was read by one of the hosts that have
  migrated (`Origins`). Assumed: what the databases hold at first is finite.
* `Memory`: three theorems on a common base (`MemBase`): stamps are of the past,
  a document's number and value are known only to whoever has written or read
  it, and an operation that counts as undisturbed shares its memory with nobody.
  `DeletionsLast` (`GoneInv`): what could bring a deleted memory back is an
  operation that overlaps the deletion, and so disturbs it; a PUT overlaps from
  its read. `CapsHold`
  (`BoundInv`): there are too many documents or entries only while some
  operation of the agent is about to count them, or about to trim enough of
  them; and without a race a memory has one document, and one store, which has
  found it (`Single`). `StoredIsServed` (`FreshInv`): `FreshOf` of what was
  stored and `CleanOf` of the store under way say, tier by tier, that every
  entry with another value has a newer one with the value beside it (`Serves`),
  and that a trimming takes the older first (`TakesOldest`); hence the lemmas on
  `Oldest` and `Newest`.

In `CatalogueProofs`:

* `Catalogue`: `EditsLast`. A document that no two whole copies were held of
  is what its edits come to (`Followed`) because whoever holds a whole copy holds
  the document itself, and is alone (`OnlyCopy`). The rest must be said of the
  copies, too, since they are what is stored next (`Copies`): what a workflow
  names is an agent, or is gone and nothing else will be stored under its id
  (`AgentRef`); a configuration that a copy calls connected has been reached.
* `Knowledge`: `StatusesAreEarned` and `NothingIsLeftBehind`. A status is earned
  in the document and in every copy that a request holds of it (`Earned`,
  `Tried`); a request that inserts an item has its file, and an item has it
  until it is deleted (`Ready`, `StillKept`). Of a source that no deletion and
  no writer have met on, a deletion has all the items that are left (`Apart`,
  `Cleared`), and once it is gone it has none, and nobody is about to give it
  one (`Gone`). Assumed: there is a connection to try.
* `VectorStore`: `BootstrapHappensOnce` and `AloneIsEnough`. Who is at a call that a
  lock guards holds it, and who holds it is at such a call (`ModelGuarded`,
  `ClientGuarded`), so that nobody else makes what it is making; a collection that
  a later call rests on exists, and so does the client (`OnItsWay`); an operation
  that nothing has overlapped is the only one, so that what it found is still so
  (`ByItself`). `AloneIsEnough` is a property of steps, from the same invariant.

* `Documents`: `AnswersArePortable`. A portable condition means the same in both
  databases, and raises nothing (`PortableAgrees`, from a lemma for each kind of
  path: `PlainAgrees`, `ArrayAgrees`, `DottedAgrees`); hence the positions selected
  are the same. That PostgreSQL's page of them is one that MongoDB could have given
  needs that the positions can be counted off (`PlacesAre`, by the least
  counterexample) and that a reversed page is as long and has no document more
  often (`PageOfReverse`). Assumed: a column has one type, of its values and
  of what they are compared with; limits are integers, of which the property
  speaks of the positive.
* All stores: `StoresTypeCorrect` and `StoresKeepTheirPromises`, of `StoresSpec`, the
  specification that both runs check. A step of the stores is one of each store, or
  leaves it as it is (`NextStores`), so that a behaviour of all is one of each
  (`StoresAreEach`), and every theorem above carries over, with `AloneIsEnough`. The
  types need invariants of their own, in `StoresProofs`: a tool is resolved only
  for references in its environment, and its process runs only while a call
  waits or was cut (`OpFits`); what the migration has counted and what is in its
  batch are together no more than what the cursor has given, which is finite
  (`JobFits`); an operation that fails is known to be of an agent when it enters
  the history of trimmings that were cut (`Histories`).

## Not modelled

* Start-up, observability, authentication: configuration and I/O, no state that
  a later step depends on. What start-up does to the stores (warm-up, plugins) is
  in `Memory` and `CustomTools`.
* The web clients, except that the browser reconnects with its last id.
* What plugins, tools and MCP servers do inside their processes.
* Connection pools, DDL and row conversion of `db_postgres.py`, and the
  repositories, which pass calls through.
* Endpoints that only read.
