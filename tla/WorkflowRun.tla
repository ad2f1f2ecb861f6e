---------------------------- MODULE WorkflowRun ----------------------------
(***************************************************************************)
(* The life of the runs of ONE workflow: the FastAPI handlers that start,  *)
(* halt, reset, edit and delete it, the Celery broker that delivers its    *)
(* tasks at least once, and the worker processes that execute them.        *)
(*                                                                         *)
(* Every database call of the code is a step of its own: a handler or a    *)
(* worker reads a whole document, keeps it in memory and later writes the  *)
(* whole document back (Beanie's and PostgresDocument's save are upserts   *)
(* of every field), so each process carries the copies it has read.        *)
(* Workflows share nothing but the worker slots, so one workflow is        *)
(* enough; a slot that works for another workflow is one that is slow to   *)
(* receive.                                                                *)
(***************************************************************************)
EXTENDS Naturals, FiniteSets

CONSTANTS
  Task,             \* the TaskExecution documents that prompts may create
  Worker,           \* the Celery worker slots (one task at a time each)
  Api,              \* the requests the API serves concurrently
  NoTask,           \* "no task" in a process's memory
  Requests,         \* the kinds of requests users send in this instance
  Faults,           \* the kinds of faults that happen in this instance
  MaxFaults,        \* bound: how many faults happen
  MaxLapses,        \* bound: visibility timeouts of a live worker's message
  ResultsExpire     \* whether Celery's result backend forgets old results

RequestKind == {"prompt", "halt", "stop", "reset", "put", "delete"}

\* A worker dies; _mark_failed fails; an API process dies or its handler raises.
FaultKind == {"worker", "mark_failed", "api"}

ASSUME NoTaskIsNoTask == NoTask \notin Task
ASSUME KindsAreKinds == Requests \subseteq RequestKind /\ Faults \subseteq FaultKind
ASSUME BoundsAreNaturals == MaxFaults \in Nat /\ MaxLapses \in Nat
ASSUME ResultsExpireIsBoolean == ResultsExpire \in BOOLEAN

VARIABLES
  wf,        \* status of the Workflow document, "deleted" when it is not stored
  te,        \* the TaskExecution documents
  halt,      \* the Redis halt flag: {} when unset, else the tasks the user meant
  msg,       \* per task, where its Celery message is
  result,    \* per task, the state Celery's result backend stores
  revoked,   \* the tasks whose revocation the worker hosts remember
  worker,    \* the memory of each worker slot
  api,       \* the memory of each request
  faults,    \* number of faults so far
  lapses     \* number of visibility timeouts so far

db == <<wf, te>>
broker == <<msg, result, revoked>>
bounds == <<faults, lapses>>
vars == <<wf, te, halt, msg, result, revoked, worker, api, faults, lapses>>

-----------------------------------------------------------------------------
(* Documents and memories *)

WfStatus == {"active", "running", "inactive", "deleted"}
TeStatus == {"none", "pending", "running", "completed", "failed", "halted",
             "max_turns_reached"}

\* The fields of TaskExecution that control depends on: celery_task_id is
\* modelled by whether it is set, because a task has one Celery message.
TaskDoc == [status : TeStatus, celery_task_id : BOOLEAN]
NoDoc == [status |-> "none", celery_task_id |-> FALSE]

MsgState == {"none", "queued", "unacked", "done"}
Unfinished == {"PENDING", "STARTED"}
ResultState == Unfinished \cup {"SUCCESS", "FAILURE", "REVOKED"}

\* The statuses that _execute and _mark_failed leave alone. MAX_TURNS_REACHED
\* is not among them.
SettledStatus == {"completed", "failed", "halted"}

Outcome == {"completed", "max_turns_reached", "failed"}

WorkerPc == {"idle", "load_wf", "load_te", "save_worker", "reload_te",
             "mark_running", "refuse", "log_wf", "log_te", "setup", "run",
             "clear_halt", "halting", "final_wf", "ensure", "ensure_save", "mf_wf", "mf_save",
             "mf_te", "mf_te_save", "ok", "error", "ack"}
WorkerMem == [pc : WorkerPc, task : Task \cup {NoTask}, wf : WfStatus,
              te : TaskDoc, owns : BOOLEAN]
IdleWorker == [pc |-> "idle", task |-> NoTask, wf |-> "deleted", te |-> NoDoc,
               owns |-> FALSE]

ApiPc == {"idle", "p_find", "p_alive", "p_fail", "p_reset", "p_guard", "p_delay",
          "p_store", "h_find", "h_set", "s_wf", "s_set", "r_find", "r_task",
          "r_save", "r_clear", "u_save", "d_delete"}
ApiMem == [pc : ApiPc, task : Task \cup {NoTask}, wf : WfStatus, te : TaskDoc,
           todo : SUBSET Task, docs : [Task -> TaskDoc], meant : SUBSET Task]
IdleApi == [pc |-> "idle", task |-> NoTask, wf |-> "deleted", te |-> NoDoc,
            todo |-> {}, docs |-> [t \in Task |-> NoDoc], meant |-> {}]

TypeOK ==
  /\ wf \in WfStatus
  /\ te \in [Task -> TaskDoc]
  /\ halt \subseteq Task
  /\ msg \in [Task -> MsgState]
  /\ result \in [Task -> ResultState]
  /\ revoked \subseteq Task
  /\ worker \in [Worker -> WorkerMem]
  /\ api \in [Api -> ApiMem]
  /\ faults \in Nat
  /\ lapses \in Nat

Init ==
  /\ wf = "active"
  /\ te = [t \in Task |-> NoDoc]
  /\ halt = {}
  /\ msg = [t \in Task |-> "none"]
  /\ result = [t \in Task |-> "PENDING"]
  /\ revoked = {}
  /\ worker = [w \in Worker |-> IdleWorker]
  /\ api = [a \in Api |-> IdleApi]
  /\ faults = 0
  /\ lapses = 0

RunningTasks == {t \in Task : te[t].status = "running"}

-----------------------------------------------------------------------------
(* POST /prompt: send_prompt.  A request that is refused at once (404, 403, *)
(* inactive) changes nothing and is no step.                                *)

ApiGoto(a, pc) == api' = [api EXCEPT ![a].pc = pc]
ApiDone(a) == api' = [api EXCEPT ![a] = IdleApi]

\* A new request may start in slot a and asks for an operation of this kind.
Arrives(a, kind) ==
  /\ kind \in Requests
  /\ api[a].pc = "idle"

PromptLoad(a) ==
  /\ Arrives(a, "prompt")
  /\ \/ wf = "active" /\ ApiGoto(a, "p_reset")
     \/ wf = "running" /\ ApiGoto(a, "p_find")
  /\ UNCHANGED <<db, halt, broker, worker, bounds>>

\* The workflow says RUNNING: find_one of its running TaskExecutions.
PromptFind(a) ==
  /\ api[a].pc = "p_find"
  /\ \/ RunningTasks = {} /\ ApiGoto(a, "p_reset")
     \/ \E t \in RunningTasks :
          api' = [api EXCEPT ![a].pc = IF te[t].celery_task_id THEN "p_alive" ELSE "p_fail",
                    ![a].task = t, ![a].te = te[t]]
  /\ UNCHANGED <<db, halt, broker, worker, bounds>>

\* AsyncResult(...).state: refuse the prompt while the task looks alive.
PromptAlive(a) ==
  /\ api[a].pc = "p_alive"
  /\ IF result[api[a].task] \in Unfinished
     THEN ApiDone(a)
     ELSE ApiGoto(a, "p_fail")
  /\ UNCHANGED <<db, halt, broker, worker, bounds>>

PromptFail(a) ==
  /\ api[a].pc = "p_fail"
  /\ te' = [te EXCEPT ![api[a].task] = [api[a].te EXCEPT !.status = "failed"]]
  /\ api' = [api EXCEPT ![a].pc = "p_reset", ![a].task = NoTask, ![a].te = NoDoc]
  /\ UNCHANGED <<wf, halt, broker, worker, bounds>>

PromptReset(a) ==
  /\ api[a].pc = "p_reset"
  /\ wf' = "active"
  /\ ApiGoto(a, "p_guard")
  /\ UNCHANGED <<te, halt, broker, worker, bounds>>

\* enforce_guardrails may raise after the workflow has been reset.
PromptReject(a) ==
  /\ api[a].pc = "p_guard"
  /\ ApiDone(a)
  /\ UNCHANGED <<db, halt, broker, worker, bounds>>

PromptInsert(a) ==
  /\ api[a].pc = "p_guard"
  /\ \E t \in Task :
       /\ te[t].status = "none"
       /\ te' = [te EXCEPT ![t].status = "pending"]
       /\ api' = [api EXCEPT ![a].pc = "p_delay", ![a].task = t, ![a].te = te'[t]]
  /\ UNCHANGED <<wf, halt, broker, worker, bounds>>

\* run_agent_task.delay
PromptDelay(a) ==
  /\ api[a].pc = "p_delay"
  /\ msg' = [msg EXCEPT ![api[a].task] = "queued"]
  /\ ApiGoto(a, "p_store")
  /\ UNCHANGED <<db, halt, result, revoked, worker, bounds>>

\* The handler writes back the document it inserted, with the Celery id.
PromptStoreId(a) ==
  /\ api[a].pc = "p_store"
  /\ te' = [te EXCEPT ![api[a].task] = [api[a].te EXCEPT !.celery_task_id = TRUE]]
  /\ ApiDone(a)
  /\ UNCHANGED <<wf, halt, broker, worker, bounds>>

Prompt(a) ==
  \/ PromptLoad(a) \/ PromptFind(a) \/ PromptAlive(a) \/ PromptFail(a)
  \/ PromptReset(a) \/ PromptReject(a) \/ PromptInsert(a) \/ PromptDelay(a)
  \/ PromptStoreId(a)

-----------------------------------------------------------------------------
(* POST /halt (halt_workflow) and POST /tasks/{id}/stop (stop_task).  Both  *)
(* set the same per-workflow flag; "meant" is what its sender had in mind.  *)

HaltLoad(a) ==
  /\ Arrives(a, "halt")
  /\ wf \in {"active", "running"}
  /\ ApiGoto(a, "h_find")
  /\ UNCHANGED <<db, halt, broker, worker, bounds>>

HaltFind(a) ==
  /\ api[a].pc = "h_find"
  /\ IF RunningTasks = {}
     THEN ApiDone(a)
     ELSE api' = [api EXCEPT ![a].pc = "h_set", ![a].meant = RunningTasks]
  /\ UNCHANGED <<db, halt, broker, worker, bounds>>

\* stop_task: the task is stoppable, then its workflow must still exist.
StopLoad(a) ==
  /\ Arrives(a, "stop")
  /\ \E t \in Task :
       api' = [api EXCEPT ![a].pc = "s_wf", ![a].meant = {t}, ![a].te = te[t]]
  /\ UNCHANGED <<db, halt, broker, worker, bounds>>

StopCheck(a) ==
  /\ api[a].pc = "s_wf"
  /\ IF wf # "deleted" /\ api[a].te.status \in {"running", "pending"}
     THEN ApiGoto(a, "s_set")
     ELSE ApiDone(a)
  /\ UNCHANGED <<db, halt, broker, worker, bounds>>

\* event_bus.set_halt
HaltSet(a) ==
  /\ api[a].pc \in {"h_set", "s_set"}
  /\ halt' = api[a].meant
  /\ ApiDone(a)
  /\ UNCHANGED <<db, broker, worker, bounds>>

\* The key's TTL of 300 s runs out.
HaltExpire ==
  /\ halt # {}
  /\ halt' = {}
  /\ UNCHANGED <<db, broker, worker, api, bounds>>

Halt(a) ==
  \/ HaltLoad(a) \/ HaltFind(a) \/ StopLoad(a) \/ StopCheck(a) \/ HaltSet(a)

-----------------------------------------------------------------------------
(* POST /reset: reset_workflow *)

ResetLoad(a) ==
  /\ Arrives(a, "reset")
  /\ wf \in {"active", "running"}
  /\ ApiGoto(a, "r_find")
  /\ UNCHANGED <<db, halt, broker, worker, bounds>>

ResetFind(a) ==
  /\ api[a].pc = "r_find"
  /\ api' = [api EXCEPT ![a].pc = "r_task", ![a].todo = RunningTasks,
               ![a].docs = [t \in Task |-> IF t \in RunningTasks THEN te[t] ELSE NoDoc]]
  /\ UNCHANGED <<db, halt, broker, worker, bounds>>

\* revoke(terminate=True) of the next task found running: a broadcast to the
\* worker hosts, which act on it later (Terminate, Discard).
ResetRevoke(a) ==
  /\ api[a].pc = "r_task"
  /\ \E t \in api[a].todo :
       /\ revoked' = IF api[a].docs[t].celery_task_id THEN revoked \cup {t} ELSE revoked
       /\ api' = [api EXCEPT ![a].pc = "r_save", ![a].task = t]
  /\ UNCHANGED <<db, halt, msg, result, worker, bounds>>

ResetSave(a) ==
  /\ api[a].pc = "r_save"
  /\ LET t == api[a].task IN
       /\ te' = [te EXCEPT ![t] = [api[a].docs[t] EXCEPT !.status = "failed"]]
       /\ api' = [api EXCEPT ![a].pc = "r_task", ![a].task = NoTask,
                    ![a].todo = @ \ {t}, ![a].docs[t] = NoDoc]
  /\ UNCHANGED <<wf, halt, broker, worker, bounds>>

ResetActive(a) ==
  /\ api[a].pc = "r_task"
  /\ api[a].todo = {}
  /\ wf' = "active"
  /\ ApiGoto(a, "r_clear")
  /\ UNCHANGED <<te, halt, broker, worker, bounds>>

ResetClearHalt(a) ==
  /\ api[a].pc = "r_clear"
  /\ halt' = {}
  /\ ApiDone(a)
  /\ UNCHANGED <<db, broker, worker, bounds>>

Reset(a) ==
  \/ ResetLoad(a) \/ ResetFind(a) \/ ResetRevoke(a) \/ ResetSave(a)
  \/ ResetActive(a) \/ ResetClearHalt(a)

-----------------------------------------------------------------------------
(* PUT /{id} (update_workflow) and DELETE /{id} (delete_workflow) *)

\* The edit may or may not carry a status; the rest of the document is data.
UpdateLoad(a) ==
  /\ Arrives(a, "put")
  /\ wf # "deleted"
  /\ api' = [api EXCEPT ![a].pc = "u_save", ![a].wf = wf]
  /\ UNCHANGED <<db, halt, broker, worker, bounds>>

UpdateSave(a) ==
  /\ api[a].pc = "u_save"
  /\ wf' \in {api[a].wf, "active", "inactive"}
  /\ ApiDone(a)
  /\ UNCHANGED <<te, halt, broker, worker, bounds>>

DeleteLoad(a) ==
  /\ Arrives(a, "delete")
  /\ wf # "deleted"
  /\ ApiGoto(a, "d_delete")
  /\ UNCHANGED <<db, halt, broker, worker, bounds>>

DeleteDoc(a) ==
  /\ api[a].pc = "d_delete"
  /\ wf' = "deleted"
  /\ ApiDone(a)
  /\ UNCHANGED <<te, halt, broker, worker, bounds>>

Edit(a) == UpdateLoad(a) \/ UpdateSave(a) \/ DeleteLoad(a) \/ DeleteDoc(a)

-----------------------------------------------------------------------------
(* The worker: run_agent_task, _execute, run_agent *)

Goto(w, pc) == worker' = [worker EXCEPT ![w].pc = pc]
At(w, pc) == worker[w].pc = pc
Mine(w) == worker[w].task

\* The documents in w's memory with another status.
TeAs(w, status) == [worker[w].te EXCEPT !.status = status]

\* The memory of w when it has just read its TaskExecution.
Holding(w, pc) == [worker[w] EXCEPT !.pc = pc, !.te = te[Mine(w)]]

\* The memory of w once it has no further use for the documents it loaded.
Drop(w, pc) == [worker[w] EXCEPT !.pc = pc, !.wf = "deleted", !.te = NoDoc]

\* w saves its TaskExecution with this status.
SaveTe(w, status) == te' = [te EXCEPT ![Mine(w)] = TeAs(w, status)]

\* Mutant: the broker's default, task_acks_late off: acknowledge on delivery.
ReceiveAcksEarly(w) ==
  /\ At(w, "idle")
  /\ \E t \in Task :
       /\ msg[t] = "queued"
       /\ t \notin revoked
       /\ msg' = [msg EXCEPT ![t] = "done"]
       /\ result' = [result EXCEPT ![t] = "STARTED"]
       /\ worker' = [worker EXCEPT ![w] =
                       [IdleWorker EXCEPT !.pc = "load_wf", !.task = t]]
  /\ UNCHANGED <<db, halt, revoked, api, bounds>>

\* Celery delivers the message to a free slot and records STARTED.
Receive(w) ==
  /\ At(w, "idle")
  /\ \E t \in Task :
       /\ msg[t] = "queued"
       /\ t \notin revoked
       /\ msg' = [msg EXCEPT ![t] = "unacked"]
       /\ result' = [result EXCEPT ![t] = "STARTED"]
       /\ worker' = [worker EXCEPT ![w] =
                       [IdleWorker EXCEPT !.pc = "load_wf", !.task = t, !.owns = TRUE]]
  /\ UNCHANGED <<db, halt, revoked, api, bounds>>

LoadWf(w) ==
  /\ At(w, "load_wf")
  /\ worker' = [worker EXCEPT ![w].wf = wf,
                  ![w].pc = IF wf = "deleted" THEN "ok" ELSE "load_te"]
  /\ UNCHANGED <<db, halt, broker, api, bounds>>

\* _execute sets the worker's hostname in one read and one write ...
LoadTe(w) ==
  /\ At(w, "load_te")
  /\ worker' = [worker EXCEPT ![w] = Holding(w, "save_worker")]
  /\ UNCHANGED <<db, halt, broker, api, bounds>>

SaveWorker(w) ==
  /\ At(w, "save_worker")
  /\ te' = [te EXCEPT ![Mine(w)] = worker[w].te]
  /\ Goto(w, "reload_te")
  /\ UNCHANGED <<wf, halt, broker, api, bounds>>

\* ... and run_agent reads the document again and marks it RUNNING.
ReloadTe(w) ==
  /\ At(w, "reload_te")
  /\ worker' = [worker EXCEPT ![w] = Holding(w, "mark_running")]
  /\ UNCHANGED <<db, halt, broker, api, bounds>>

\* The guard that follows tests the workflow as _execute loaded it.
MarkRunning(w) ==
  /\ At(w, "mark_running")
  /\ SaveTe(w, "running")
  /\ worker' = [worker EXCEPT ![w].te = TeAs(w, "running"),
                  ![w].pc = IF worker[w].wf = "active" THEN "log_wf" ELSE "refuse"]
  /\ UNCHANGED <<wf, halt, broker, api, bounds>>

\* The workflow is not active, or the agent does not exist: FAILED.
Refuse(w) ==
  /\ At(w, "refuse")
  /\ SaveTe(w, "failed")
  /\ worker' = [worker EXCEPT ![w] = Drop(w, "ensure")]
  /\ UNCHANGED <<wf, halt, broker, api, bounds>>

\* The first _log of the run ("prompt_received", or "Agent not found") saves
\* the workflow, then the TaskExecution.
FirstLogWf(w) ==
  /\ At(w, "log_wf")
  /\ wf' = worker[w].wf
  /\ Goto(w, "log_te")
  /\ UNCHANGED <<te, halt, broker, api, bounds>>

FirstLogTe(w) ==
  /\ At(w, "log_te")
  /\ SaveTe(w, "running")
  /\ \E pc \in {"setup", "refuse"} : Goto(w, pc)
  /\ UNCHANGED <<wf, halt, broker, api, bounds>>

\* The run is published as running and the workflow saved with its prompt.
Enter(w) ==
  /\ At(w, "setup")
  /\ wf' = "running"
  /\ worker' = [worker EXCEPT ![w].wf = "running", ![w].pc = "run"]
  /\ UNCHANGED <<te, halt, broker, api, bounds>>

\* Every later _log, awaited or fired as a task of its own, saves the
\* workflow, then the TaskExecution, as the run has them in memory.
Logging == {"setup", "run", "clear_halt", "halting"}

LogWf(w) ==
  /\ worker[w].pc \in Logging
  /\ wf' = worker[w].wf
  /\ UNCHANGED <<te, halt, broker, worker, api, bounds>>

LogTe(w) ==
  /\ worker[w].pc \in Logging
  /\ SaveTe(w, "running")
  /\ UNCHANGED <<wf, halt, broker, worker, api, bounds>>

\* check_halt finds the flag, clear_halt deletes it (two calls to Redis).
PollHalt(w) ==
  /\ At(w, "run")
  /\ halt # {}
  /\ Goto(w, "clear_halt")
  /\ UNCHANGED <<db, halt, broker, api, bounds>>

ClearHalt(w) ==
  /\ At(w, "clear_halt")
  /\ halt' = {}
  /\ Goto(w, "halting")
  /\ UNCHANGED <<db, broker, api, bounds>>

\* The run is over, completed, out of turns, failed or halted: its outcome is
\* saved first, then the workflow, which _publish_status made ACTIVE.
FinalTe(w) ==
  /\ \E o \in TeStatus :
       /\ \/ At(w, "run") /\ o \in Outcome
          \/ At(w, "halting") /\ o \in {"halted", "failed"}
       /\ SaveTe(w, o)
  /\ worker' = [worker EXCEPT ![w] = Drop(w, "final_wf")]
  /\ UNCHANGED <<wf, halt, broker, api, bounds>>

\* Mutant: the workflow is saved with the status of the task.
FinalWfUnpublished(w) ==
  /\ At(w, "final_wf")
  /\ wf' = te[worker[w].task].status
  /\ Goto(w, "ensure")
  /\ UNCHANGED <<te, halt, broker, api, bounds>>

FinalWf(w) ==
  /\ At(w, "final_wf")
  /\ wf' = "active"
  /\ Goto(w, "ensure")
  /\ UNCHANGED <<te, halt, broker, api, bounds>>

\* _execute makes sure that the task ends COMPLETED after run_agent returned.
Ensure(w) ==
  /\ At(w, "ensure")
  /\ worker' = [worker EXCEPT ![w] =
                  IF te[Mine(w)].status \in SettledStatus
                  THEN Drop(w, "ok") ELSE Holding(w, "ensure_save")]
  /\ UNCHANGED <<db, halt, broker, api, bounds>>

EnsureSave(w) ==
  /\ At(w, "ensure_save")
  /\ SaveTe(w, "completed")
  /\ worker' = [worker EXCEPT ![w] = Drop(w, "ok")]
  /\ UNCHANGED <<wf, halt, broker, api, bounds>>

\* An exception escapes run_agent: run_agent_task calls _mark_failed.
Raise(w) ==
  /\ worker[w].pc \in {"setup", "run"}
  /\ worker' = [worker EXCEPT ![w] = Drop(w, "mf_wf")]
  /\ UNCHANGED <<db, halt, broker, api, bounds>>

\* Mutant: RUNNING counted among the statuses _mark_failed leaves alone.
MarkFailedKeepsRunning(w) ==
  /\ At(w, "mf_wf")
  /\ Goto(w, "mf_te")
  /\ UNCHANGED <<db, halt, broker, api, bounds>>

MarkFailedLoadWf(w) ==
  /\ At(w, "mf_wf")
  /\ Goto(w, IF wf = "running" THEN "mf_save" ELSE "mf_te")
  /\ UNCHANGED <<db, halt, broker, api, bounds>>

MarkFailedSaveWf(w) ==
  /\ At(w, "mf_save")
  /\ wf' = "active"
  /\ Goto(w, "mf_te")
  /\ UNCHANGED <<te, halt, broker, api, bounds>>

MarkFailedLoadTe(w) ==
  /\ At(w, "mf_te")
  /\ worker' = [worker EXCEPT ![w] =
                  IF te[Mine(w)].status \in SettledStatus
                  THEN Drop(w, "error") ELSE Holding(w, "mf_te_save")]
  /\ UNCHANGED <<db, halt, broker, api, bounds>>

MarkFailedSaveTe(w) ==
  /\ At(w, "mf_te_save")
  /\ SaveTe(w, "failed")
  /\ worker' = [worker EXCEPT ![w] = Drop(w, "error")]
  /\ UNCHANGED <<wf, halt, broker, api, bounds>>

\* Celery stores the result, then acknowledges the message (task_acks_late),
\* which has no effect when the message has meanwhile been given to another.
StoreResult(w) ==
  /\ worker[w].pc \in {"ok", "error"}
  /\ result' = [result EXCEPT ![Mine(w)] = IF At(w, "ok") THEN "SUCCESS" ELSE "FAILURE"]
  /\ Goto(w, "ack")
  /\ UNCHANGED <<db, halt, msg, revoked, api, bounds>>

\* Mutant: the acknowledgement is never sent.
SettledNever(w) == msg

Settled(w) == IF worker[w].owns THEN [msg EXCEPT ![Mine(w)] = "done"] ELSE msg

Ack(w) ==
  /\ At(w, "ack")
  /\ msg' = Settled(w)
  /\ worker' = [worker EXCEPT ![w] = IdleWorker]
  /\ UNCHANGED <<db, halt, result, revoked, api, bounds>>

\* The steps a worker slot takes for the task it has received.
Execute(w) ==
  \/ LoadWf(w) \/ LoadTe(w) \/ SaveWorker(w) \/ ReloadTe(w) \/ MarkRunning(w)
  \/ Refuse(w) \/ FirstLogWf(w) \/ FirstLogTe(w) \/ Enter(w) \/ ClearHalt(w)
  \/ FinalTe(w) \/ FinalWf(w) \/ Ensure(w) \/ EnsureSave(w)
  \/ MarkFailedLoadWf(w) \/ MarkFailedSaveWf(w) \/ MarkFailedLoadTe(w)
  \/ MarkFailedSaveTe(w) \/ StoreResult(w) \/ Ack(w)

-----------------------------------------------------------------------------
(* Celery: revocation, redelivery, crashes *)

\* One more fault of this kind.
Fault(kind) ==
  /\ kind \in Faults
  /\ faults < MaxFaults
  /\ faults' = faults + 1

\* A worker host kills the slot that executes a revoked task and acknowledges.
Terminate(w) ==
  /\ ~At(w, "idle") /\ ~At(w, "ack")
  /\ Mine(w) \in revoked
  /\ result' = [result EXCEPT ![Mine(w)] = "REVOKED"]
  /\ msg' = Settled(w)
  /\ worker' = [worker EXCEPT ![w] = IdleWorker]
  /\ UNCHANGED <<db, halt, revoked, api, bounds>>

\* A worker host that receives a revoked task drops it.
Discard(t) ==
  /\ msg[t] = "queued"
  /\ t \in revoked
  /\ msg' = [msg EXCEPT ![t] = "done"]
  /\ result' = [result EXCEPT ![t] = "REVOKED"]
  /\ UNCHANGED <<db, halt, revoked, worker, api, bounds>>

\* Mutant: without task_reject_on_worker_lost Celery acknowledges the message of
\* a worker that was lost.
CrashAcks(w) ==
  /\ Fault("worker")
  /\ ~At(w, "idle")
  /\ msg' = Settled(w)
  /\ worker' = [worker EXCEPT ![w] = IdleWorker]
  /\ UNCHANGED <<db, halt, result, revoked, api, lapses>>

\* The child process or its host dies between two steps.
Crash(w) ==
  /\ Fault("worker")
  /\ ~At(w, "idle")
  /\ worker' = [worker EXCEPT ![w] = IdleWorker]
  /\ UNCHANGED <<db, halt, broker, api, lapses>>

\* The hosts that are up after a crash do not know what was revoked before.
Forget ==
  /\ "worker" \in Faults /\ faults > 0
  /\ revoked # {}
  /\ revoked' = {}
  /\ UNCHANGED <<db, halt, msg, result, worker, api, bounds>>

\* _mark_failed itself fails (best effort): the documents stay as they are.
GiveUp(w) ==
  /\ Fault("mark_failed")
  /\ worker[w].pc \in {"mf_wf", "mf_save", "mf_te", "mf_te_save"}
  /\ worker' = [worker EXCEPT ![w] = Drop(w, "error")]
  /\ UNCHANGED <<db, halt, broker, api, lapses>>

\* The API process dies, or a call of the handler raises, between two steps.
ApiCrash(a) ==
  /\ Fault("api")
  /\ api[a].pc # "idle"
  /\ ApiDone(a)
  /\ UNCHANGED <<db, halt, broker, worker, lapses>>

HeldBy(t) == {w \in Worker : worker[w].task = t /\ worker[w].owns}

\* Mutant: only live workers hand their message back.
RequeueHeld(t) ==
  /\ msg[t] = "unacked"
  /\ HeldBy(t) # {}
  /\ msg' = [msg EXCEPT ![t] = "queued"]
  /\ UNCHANGED <<db, halt, result, revoked, worker, api, bounds>>

\* reject_on_worker_lost, or the visibility timeout after the host died.
Requeue(t) ==
  /\ msg[t] = "unacked"
  /\ HeldBy(t) = {}
  /\ msg' = [msg EXCEPT ![t] = "queued"]
  /\ UNCHANGED <<db, halt, result, revoked, worker, api, bounds>>

\* The visibility timeout (1 h unless configured) of a run that still goes on:
\* the message is queued again and the worker's own acknowledgement is void.
Lapse(w) ==
  /\ lapses < MaxLapses
  /\ worker[w].owns
  /\ lapses' = lapses + 1
  /\ msg' = [msg EXCEPT ![Mine(w)] = "queued"]
  /\ worker' = [worker EXCEPT ![w].owns = FALSE]
  /\ UNCHANGED <<db, halt, result, revoked, api, faults>>

\* result_expires: AsyncResult.state of a forgotten result is PENDING.
ExpireResult(t) ==
  /\ ResultsExpire
  /\ result[t] \notin Unfinished
  /\ result' = [result EXCEPT ![t] = "PENDING"]
  /\ UNCHANGED <<db, halt, msg, revoked, worker, api, bounds>>

-----------------------------------------------------------------------------

ApiNext(a) == Prompt(a) \/ Halt(a) \/ Reset(a) \/ Edit(a) \/ ApiCrash(a)

WorkerNext(w) ==
  \/ Receive(w) \/ Execute(w) \/ LogWf(w) \/ LogTe(w) \/ PollHalt(w) \/ Raise(w)
  \/ Terminate(w) \/ Crash(w) \/ GiveUp(w) \/ Lapse(w)

BrokerNext(t) == Discard(t) \/ Requeue(t) \/ ExpireResult(t)

Next ==
  \/ \E a \in Api : ApiNext(a)
  \/ \E w \in Worker : WorkerNext(w)
  \/ \E t \in Task : BrokerNext(t)
  \/ HaltExpire \/ Forget

Spec == Init /\ [][Next]_vars


\* Fairness.  Workers finish what they execute (the Copilot path has a deadline
\* per prompt), free slots receive, and the broker redelivers what a dead worker
\* held.  Users, crashes and timeouts are not fair.
Fairness ==
  /\ WF_vars(\E w \in Worker : Receive(w))
  /\ \A w \in Worker : WF_vars(Execute(w))
  /\ \A t \in Task : WF_vars(Requeue(t)) /\ WF_vars(Discard(t))

FairSpec == Spec /\ Fairness

-----------------------------------------------------------------------------
(* Properties *)

Outstanding(t) == msg[t] \in {"queued", "unacked"}

\* send_prompt (workflows.py 147-159) refuses a prompt because the earlier task
\* "is already running" only while Celery still owes that task an execution:
\* acks_late and reject_on_worker_lost keep the message until a final result is
\* stored, so no crash can lock the user out.
RefusalIsBacked ==
  \A a \in Api :
    (api[a].pc = "p_alive" /\ result[api[a].task] \in Unfinished)
      => Outstanding(api[a].task)

\* When no worker executes anything, neither the workflow nor any of its tasks
\* is recorded as running: every way out of run_agent, _execute and _mark_failed
\* puts both documents right, whatever other runs and requests wrote meanwhile.
IdleIsClean ==
  (\A w \in Worker : At(w, "idle")) => wf # "running" /\ RunningTasks = {}

\* A prompt that is refused now is not refused forever: what the refusal rests
\* on (the workflow, the task and Celery's state all say running) gives way.
Refused(t) ==
  /\ wf = "running"
  /\ te[t].status = "running" /\ te[t].celery_task_id
  /\ result[t] \in Unfinished

RefusalEnds == \A t \in Task : Refused(t) ~> ~Refused(t)

\* The broker and the workers implement the abstract task queue.
Delivery == INSTANCE TaskDelivery WITH
  phase <- [t \in Task |-> CASE msg[t] = "none" -> "new"
                             [] msg[t] = "done" -> "settled"
                             [] OTHER -> "owed"],
  attempt <- [w \in Worker |-> worker[w].task],
  ended <- {w \in Worker : At(w, "ack")},
  cancelled <- revoked

\* A submitted task leaves the queue only when the worker that holds its message
\* has stored a final result for it, or after a reset revoked it: neither a crash
\* nor a redelivery settles it (celery_app.py 34-37).
AtLeastOnce == Delivery!DeliverySpec

\* Every submitted task is settled in the end.
EveryTaskSettles == Delivery!OwedIsSettled

-----------------------------------------------------------------------------
(* What the repository says and the code does not keep *)

InRun == {"run", "clear_halt", "halting"}

\* "Verify the RUNNING guard prevents concurrent task submission."
NoConcurrentRuns ==
  \A v, w \in Worker : worker[v].pc \in InRun /\ worker[w].pc \in InRun => v = w

\* "if a worker crashes, task_acks_late re-queues the task; the workflow is
\* marked as failed": once all is quiet it is not left running.
Quiet ==
  /\ \A w \in Worker : At(w, "idle")
  /\ \A t \in Task : ~Outstanding(t)
  /\ \A a \in Api : api[a].pc = "idle"

QuietIsNotRunning == Quiet => wf # "running"

=============================================================================
