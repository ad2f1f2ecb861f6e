-------------------------- MODULE WorkflowRunClean --------------------------
(* That an idle system is clean: when no worker dies, _mark_failed does not  *)
(* fail, and nobody resets or edits the workflow while a task is under way,  *)
(* a workflow or task that is recorded as running is one a worker will yet   *)
(* put right.                                                                *)
EXTENDS WorkflowRunTypes

\* The places from which a worker still writes the workflow's final status.
WfOwed == {"run", "clear_halt", "halting", "final_wf", "mf_wf", "mf_save"}

\* The places from which it still looks at its task's final status.
TeOwed == {"reload_te", "mark_running", "refuse", "log_wf", "log_te", "setup", "run",
           "clear_halt", "halting", "final_wf", "ensure", "ensure_save", "mf_wf",
           "mf_save", "mf_te", "mf_te_save"}

WfCovered == wf = "running" => \E w \in Worker : worker[w].pc \in WfOwed

TeCovered ==
  \A t \in Task : te[t].status = "running" =>
    \E w \in Worker : Mine(w) = t /\ worker[w].pc \in TeOwed

\* A run that has not entered yet can only write back an active workflow.
Entering ==
  \A w \in Worker : worker[w].pc \in {"log_wf", "log_te", "setup"} => worker[w].wf = "active"

\* No request disturbs the workers.
Undisturbed ==
  /\ revoked = {}
  /\ \A a \in Api :
       /\ api[a].pc \notin {"r_find", "r_task", "r_save", "r_clear", "u_save"}
       /\ api[a].pc \in {"p_delay", "p_store"} => api[a].te.status = "pending"

CleanInv ==
  TypeOK /\ Attempting /\ WfCovered /\ TeCovered /\ Entering /\ Undisturbed

LEMMA CleanInvInit == Init => CleanInv
  <1> SUFFICES ASSUME Init PROVE CleanInv
    OBVIOUS
  <1>1. TypeOK /\ Attempting
    BY InitType, AttemptingInit
  <1>2. WfCovered /\ TeCovered
    BY DEF Init, WfCovered, TeCovered, NoDoc
  <1>3. Entering /\ Undisturbed
    BY DEF Init, Entering, Undisturbed, IdleWorker, IdleApi
  <1> QED
    BY <1>1, <1>2, <1>3 DEF CleanInv

LEMMA CleanImpliesIdleIsClean == CleanInv => IdleIsClean
  BY DEF CleanInv, IdleIsClean, WfCovered, TeCovered, WfOwed, TeOwed, At, RunningTasks

-----------------------------------------------------------------------------
(* Requests *)

LEMMA RequestKeepsClean ==
  ASSUME Requests \cap {"reset", "put"} = {}, CleanInv, NEW a \in Api, ApiNext(a)
  PROVE  WfCovered' /\ TeCovered' /\ Entering' /\ Undisturbed'
  <1> USE DEF db, broker, bounds
  <1>0. /\ TypeOK /\ Undisturbed /\ api[a] \in ApiMem /\ api[a].te \in TaskDoc
        /\ te \in [Task -> TaskDoc]
    BY DEF CleanInv, TypeOK, ApiMem
  <1>1. ~Reset(a) /\ ~UpdateLoad(a) /\ ~UpdateSave(a)
    BY <1>0 DEF Undisturbed, Reset, ResetLoad, ResetFind, ResetRevoke, ResetSave,
       ResetActive, ResetClearHalt, UpdateLoad, UpdateSave, Arrives
  <1>2. worker' = worker /\ revoked' = revoked
    BY <1>1 DEF ApiNext, Prompt, PromptLoad, PromptFind, PromptAlive, PromptFail,
       PromptReset, PromptReject, PromptInsert, PromptDelay, PromptStoreId,
       Halt, HaltLoad, HaltFind, StopLoad, StopCheck, HaltSet,
       Edit, DeleteLoad, DeleteDoc, ApiCrash
  <1>3. wf' # "running" \/ wf' = wf
    BY <1>1 DEF ApiNext, Prompt, PromptLoad, PromptFind, PromptAlive, PromptFail,
       PromptReset, PromptReject, PromptInsert, PromptDelay, PromptStoreId,
       Halt, HaltLoad, HaltFind, StopLoad, StopCheck, HaltSet,
       Edit, DeleteLoad, DeleteDoc, ApiCrash
  <1>4. \A t \in Task : te'[t].status = "running" => te[t].status = "running"
    <2>1. CASE PromptFail(a)
      BY <1>0, <2>1 DEF PromptFail, TaskDoc
    <2>2. CASE PromptInsert(a)
      BY <1>0, <2>2 DEF PromptInsert, TaskDoc
    <2>3. CASE PromptStoreId(a)
      BY <1>0, <2>3 DEF PromptStoreId, Undisturbed, TaskDoc
    <2>4. CASE ~PromptFail(a) /\ ~PromptInsert(a) /\ ~PromptStoreId(a)
      <3>1. te' = te
        BY <1>1, <2>4 DEF ApiNext, Prompt, PromptLoad, PromptFind, PromptAlive,
           PromptReset, PromptReject, PromptDelay,
           Halt, HaltLoad, HaltFind, StopLoad, StopCheck, HaltSet,
           Edit, DeleteLoad, DeleteDoc, ApiCrash
      <3> QED
        BY <3>1
    <2> QED
      BY <2>1, <2>2, <2>3, <2>4
  <1>5. /\ \A b \in Api : b # a => api'[b] = api[b]
        /\ api'[a].pc \notin {"r_find", "r_task", "r_save", "r_clear", "u_save"}
        /\ api'[a].pc \in {"p_delay", "p_store"} => api'[a].te.status = "pending"
    <2>1. CASE PromptInsert(a)
      <3>1. PICK t \in Task :
              /\ te' = [te EXCEPT ![t].status = "pending"]
              /\ api' = [api EXCEPT ![a].pc = "p_delay", ![a].task = t, ![a].te = te'[t]]
        BY <2>1 DEF PromptInsert
      <3>2. te'[t].status = "pending"
        BY <1>0, <3>1 DEF TaskDoc
      <3>3. /\ api'[a].pc = "p_delay" /\ api'[a].te = te'[t]
            /\ \A b \in Api : b # a => api'[b] = api[b]
        BY <1>0, <3>1 DEF TypeOK, ApiMem
      <3> QED
        BY <3>2, <3>3
    <2>2. CASE PromptDelay(a)
      <3>1. /\ api'[a].pc = "p_store" /\ api'[a].te = api[a].te
            /\ \A b \in Api : b # a => api'[b] = api[b]
        BY <1>0, <2>2 DEF PromptDelay, ApiGoto, TypeOK, ApiMem
      <3> QED
        BY <1>0, <2>2, <3>1 DEF PromptDelay, Undisturbed
    <2>3. CASE ApiDone(a)
      BY <1>0, <2>3 DEF ApiDone, IdleApi, TypeOK
    <2>4. ASSUME NEW pc \in {"p_find", "p_reset", "p_fail", "p_guard", "h_find", "s_set", "d_delete"},
                 ApiGoto(a, pc)
          PROVE  /\ api'[a].pc = pc
                 /\ \A b \in Api : b # a => api'[b] = api[b]
      BY <1>0, <2>4 DEF ApiGoto, TypeOK, ApiMem
    <2>5. CASE PromptFail(a) \/ HaltFind(a)
      BY <1>0, <2>3, <2>5 DEF PromptFail, HaltFind, TypeOK, ApiMem
    <2>6. CASE StopLoad(a)
      <3>1. PICK t \in Task :
              api' = [api EXCEPT ![a].pc = "s_wf", ![a].meant = {t}, ![a].te = te[t]]
        BY <2>6 DEF StopLoad
      <3> QED
        BY <1>0, <3>1 DEF TypeOK, ApiMem
    <2>7. CASE PromptFind(a)
      <3>1. CASE ApiGoto(a, "p_reset")
        BY <2>4, <3>1
      <3>2. CASE ~ApiGoto(a, "p_reset")
        <4>1. PICK t \in RunningTasks :
                api' = [api EXCEPT
                  ![a].pc = IF te[t].celery_task_id THEN "p_alive" ELSE "p_fail",
                  ![a].task = t, ![a].te = te[t]]
          BY <2>7, <3>2 DEF PromptFind
        <4>2. /\ api'[a].pc \in {"p_alive", "p_fail"}
              /\ \A b \in Api : b # a => api'[b] = api[b]
          BY <1>0, <4>1 DEF TypeOK, ApiMem
        <4> QED
          BY <4>2
      <3> QED
        BY <3>1, <3>2
    <2> QED
      BY <1>1, <2>1, <2>2, <2>3, <2>4, <2>5, <2>6, <2>7
         DEF ApiNext, Prompt, PromptLoad, PromptAlive, PromptReset, PromptReject, PromptStoreId,
         Halt, HaltLoad, StopCheck, HaltSet, Edit, DeleteLoad, DeleteDoc, ApiCrash
  <1>6. WfCovered'
    BY <1>2, <1>3 DEF CleanInv, WfCovered
  <1>7. TeCovered'
    BY <1>2, <1>4 DEF CleanInv, TeCovered, Mine
  <1>8. Entering' /\ Undisturbed'
    BY <1>0, <1>2, <1>5 DEF CleanInv, Entering, Undisturbed
  <1> QED
    BY <1>6, <1>7, <1>8

-----------------------------------------------------------------------------
(* Workers *)

\* A step of w keeps the workflow covered if it does not leave it running, if w
\* still owes it a status, or if w owed it none and left it alone.
LEMMA WfStep ==
  ASSUME WfCovered, NEW w \in Worker,
         \A v \in Worker : v # w => worker'[v] = worker[v],
         \/ wf' # "running"
         \/ worker'[w].pc \in WfOwed
         \/ wf' = wf /\ worker[w].pc \notin WfOwed
  PROVE  WfCovered'
  BY DEF WfCovered

\* ... and the tasks likewise.
LEMMA TeStep ==
  ASSUME TeCovered, NEW w \in Worker,
         \A v \in Worker : v # w => worker'[v] = worker[v],
         \A t \in Task : t # Mine(w) => te'[t] = te[t],
         \/ worker'[w].task = worker[w].task /\ worker'[w].pc \in TeOwed
         \/ Mine(w) \in Task => te'[Mine(w)].status # "running"
         \/ te' = te /\ worker[w].pc \notin TeOwed
  PROVE  TeCovered'
  BY DEF TeCovered, Mine

LEMMA SaveTeEffect ==
  ASSUME TypeOK, NEW w \in Worker, NEW s \in TeStatus, SaveTe(w, s)
  PROVE  /\ \A t \in Task : t # Mine(w) => te'[t] = te[t]
         /\ Mine(w) \in Task => te'[Mine(w)].status = s
  <1>1. worker[w].te \in TaskDoc /\ te \in [Task -> TaskDoc]
    BY DEF TypeOK, WorkerMem
  <1>2. TeAs(w, s).status = s
    BY <1>1 DEF TeAs, TaskDoc
  <1> QED
    BY <1>1, <1>2 DEF SaveTe

LEMMA EnteringStep ==
  ASSUME Entering, NEW w \in Worker,
         \A v \in Worker : v # w => worker'[v] = worker[v],
         worker'[w].pc \in {"log_wf", "log_te", "setup"} => worker'[w].wf = "active"
  PROVE  Entering'
  BY DEF Entering

LEMMA DropPc ==
  ASSUME TypeOK, NEW w \in Worker, NEW pc, worker' = [worker EXCEPT ![w] = Drop(w, pc)]
  PROVE  /\ worker'[w].pc = pc /\ worker'[w].task = worker[w].task
         /\ \A v \in Worker : v # w => worker'[v] = worker[v]
  <1>1. worker'[w] = Drop(w, pc) /\ \A v \in Worker : v # w => worker'[v] = worker[v]
    BY DEF TypeOK
  <1> QED
    BY <1>1, MemStaysBusy

LEMMA HoldingPc ==
  ASSUME TypeOK, NEW w \in Worker, NEW pc, worker' = [worker EXCEPT ![w] = Holding(w, pc)]
  PROVE  /\ worker'[w].pc = pc /\ worker'[w].task = worker[w].task
         /\ \A v \in Worker : v # w => worker'[v] = worker[v]
  <1>1. worker'[w] = Holding(w, pc) /\ \A v \in Worker : v # w => worker'[v] = worker[v]
    BY DEF TypeOK
  <1> QED
    BY <1>1, MemStaysBusy

LEMMA GotoPc ==
  ASSUME TypeOK, NEW w \in Worker, NEW pc, Goto(w, pc)
  PROVE  /\ worker'[w].pc = pc /\ worker'[w].task = worker[w].task
         /\ worker'[w].wf = worker[w].wf
         /\ \A v \in Worker : v # w => worker'[v] = worker[v]
  BY DEF TypeOK, WorkerMem, Goto

\* Up to the moment the run enters.
LEMMA BeginningKeepsClean ==
  ASSUME CleanInv, NEW w \in Worker,
         \/ LoadWf(w) \/ LoadTe(w) \/ SaveWorker(w) \/ ReloadTe(w) \/ MarkRunning(w)
         \/ Refuse(w) \/ FirstLogWf(w) \/ FirstLogTe(w) \/ Enter(w)
  PROVE  WfCovered' /\ TeCovered' /\ Entering'
  <1> USE DEF db, broker, bounds
  <1>0. TypeOK /\ WfCovered /\ TeCovered /\ Entering /\ worker[w] \in WorkerMem
    BY DEF CleanInv, TypeOK
  <1>1. CASE LoadWf(w)
    <2>1. /\ worker'[w].pc \in {"ok", "load_te"} /\ worker[w].pc = "load_wf"
          /\ \A v \in Worker : v # w => worker'[v] = worker[v]
          /\ wf' = wf /\ te' = te
      BY <1>0, <1>1 DEF LoadWf, At, TypeOK, WorkerMem
    <2> QED
      BY <1>0, <2>1, WfStep, TeStep, EnteringStep DEF WfOwed, TeOwed
  <1>2. CASE LoadTe(w)
    <2>1. /\ worker'[w].pc = "save_worker" /\ worker[w].pc = "load_te"
          /\ \A v \in Worker : v # w => worker'[v] = worker[v]
          /\ wf' = wf /\ te' = te
      BY <1>0, <1>2, HoldingPc DEF LoadTe, At
    <2> QED
      BY <1>0, <2>1, WfStep, TeStep, EnteringStep DEF WfOwed, TeOwed
  <1>3. CASE SaveWorker(w)
    <2>1. /\ worker'[w].pc = "reload_te" /\ worker[w].pc = "save_worker"
          /\ worker'[w].task = worker[w].task
          /\ \A v \in Worker : v # w => worker'[v] = worker[v]
          /\ wf' = wf /\ \A t \in Task : t # Mine(w) => te'[t] = te[t]
      BY <1>0, <1>3, GotoPc DEF SaveWorker, At, TypeOK
    <2> QED
      BY <1>0, <2>1, WfStep, TeStep, EnteringStep DEF WfOwed, TeOwed
  <1>4. CASE ReloadTe(w)
    <2>1. /\ worker'[w].pc = "mark_running" /\ worker[w].pc = "reload_te"
          /\ worker'[w].task = worker[w].task
          /\ \A v \in Worker : v # w => worker'[v] = worker[v]
          /\ wf' = wf /\ te' = te
      BY <1>0, <1>4, HoldingPc DEF ReloadTe, At
    <2> QED
      BY <1>0, <2>1, WfStep, TeStep, EnteringStep DEF WfOwed, TeOwed
  <1>5. CASE MarkRunning(w)
    <2>1. /\ worker'[w].pc \in {"log_wf", "refuse"} /\ worker[w].pc = "mark_running"
          /\ worker'[w].pc = "log_wf" => worker'[w].wf = "active"
          /\ worker'[w].task = worker[w].task
          /\ \A v \in Worker : v # w => worker'[v] = worker[v]
          /\ wf' = wf
      BY <1>0, <1>5 DEF MarkRunning, At, TypeOK, WorkerMem
    <2>2. \A t \in Task : t # Mine(w) => te'[t] = te[t]
      BY <1>0, <1>5, SaveTeEffect DEF MarkRunning, TeStatus
    <2> QED
      BY <1>0, <2>1, <2>2, WfStep, TeStep, EnteringStep DEF WfOwed, TeOwed
  <1>6. CASE Refuse(w)
    <2>1. /\ worker'[w].pc = "ensure" /\ worker[w].pc = "refuse"
          /\ worker'[w].task = worker[w].task
          /\ \A v \in Worker : v # w => worker'[v] = worker[v]
          /\ wf' = wf
      BY <1>0, <1>6, DropPc DEF Refuse, At
    <2>2. \A t \in Task : t # Mine(w) => te'[t] = te[t]
      BY <1>0, <1>6, SaveTeEffect DEF Refuse, TeStatus
    <2> QED
      BY <1>0, <2>1, <2>2, WfStep, TeStep, EnteringStep DEF WfOwed, TeOwed
  <1>7. CASE FirstLogWf(w)
    <2>1. /\ worker'[w].pc = "log_te" /\ worker[w].pc = "log_wf"
          /\ worker'[w].wf = worker[w].wf
          /\ worker'[w].task = worker[w].task
          /\ \A v \in Worker : v # w => worker'[v] = worker[v]
          /\ wf' = worker[w].wf /\ te' = te
      BY <1>0, <1>7, GotoPc DEF FirstLogWf, At
    <2>2. worker[w].wf = "active"
      BY <1>0, <2>1 DEF Entering
    <2> QED
      BY <1>0, <2>1, <2>2, WfStep, TeStep, EnteringStep DEF WfOwed, TeOwed
  <1>8. CASE FirstLogTe(w)
    <2>1. /\ worker'[w].pc \in {"setup", "refuse"} /\ worker[w].pc = "log_te"
          /\ worker'[w].wf = worker[w].wf
          /\ worker'[w].task = worker[w].task
          /\ \A v \in Worker : v # w => worker'[v] = worker[v]
          /\ wf' = wf
      BY <1>0, <1>8, GotoPc DEF FirstLogTe, At
    <2>2. \A t \in Task : t # Mine(w) => te'[t] = te[t]
      BY <1>0, <1>8, SaveTeEffect DEF FirstLogTe, TeStatus
    <2>3. worker[w].wf = "active"
      BY <1>0, <2>1 DEF Entering
    <2> QED
      BY <1>0, <2>1, <2>2, <2>3, WfStep, TeStep, EnteringStep DEF WfOwed, TeOwed
  <1>9. CASE Enter(w)
    <2>1. /\ worker'[w].pc = "run" /\ worker'[w].task = worker[w].task
          /\ \A v \in Worker : v # w => worker'[v] = worker[v]
          /\ te' = te
      BY <1>0, <1>9 DEF Enter, TypeOK, WorkerMem
    <2> QED
      BY <1>0, <2>1, WfStep, TeStep, EnteringStep DEF WfOwed, TeOwed
  <1> QED
    BY <1>1, <1>2, <1>3, <1>4, <1>5, <1>6, <1>7, <1>8, <1>9

\* From there to the outcome, whichever way the run ends.
LEMMA RunningKeepsClean ==
  ASSUME CleanInv, NEW w \in Worker,
         \/ LogWf(w) \/ LogTe(w) \/ PollHalt(w) \/ ClearHalt(w) \/ FinalTe(w)
         \/ FinalWf(w) \/ Raise(w)
  PROVE  WfCovered' /\ TeCovered' /\ Entering'
  <1> USE DEF db, broker, bounds
  <1>0. TypeOK /\ WfCovered /\ TeCovered /\ Entering /\ worker[w] \in WorkerMem
    BY DEF CleanInv, TypeOK
  <1>1. CASE LogWf(w)
    <2>1. /\ worker[w].pc \in Logging /\ wf' = worker[w].wf /\ te' = te /\ worker' = worker
      BY <1>1 DEF LogWf
    <2>2. worker[w].pc = "setup" => wf' # "running"
      BY <1>0, <2>1 DEF Entering
    <2>3. worker[w].pc # "setup" => worker'[w].pc \in WfOwed
      BY <2>1 DEF Logging, WfOwed
    <2>4. WfCovered'
      BY <1>0, <2>1, <2>2, <2>3, WfStep
    <2>5. TeCovered' /\ Entering'
      BY <1>0, <2>1 DEF TeCovered, Entering, Mine
    <2> QED
      BY <2>4, <2>5
  <1>2. CASE LogTe(w)
    <2>1. /\ worker[w].pc \in TeOwed /\ wf' = wf /\ worker' = worker
      BY <1>2 DEF LogTe, Logging, TeOwed
    <2>2. \A t \in Task : t # Mine(w) => te'[t] = te[t]
      BY <1>0, <1>2, SaveTeEffect DEF LogTe, TeStatus
    <2>3. TeCovered'
      BY <1>0, <2>1, <2>2, TeStep
    <2> QED
      BY <1>0, <2>1, <2>3 DEF WfCovered, Entering
  <1>3. CASE PollHalt(w) \/ ClearHalt(w)
    <2>1. /\ worker'[w].pc \in {"clear_halt", "halting"} /\ worker'[w].task = worker[w].task
          /\ \A v \in Worker : v # w => worker'[v] = worker[v]
          /\ wf' = wf /\ te' = te
      BY <1>0, <1>3, GotoPc DEF PollHalt, ClearHalt
    <2> QED
      BY <1>0, <2>1, WfStep, TeStep, EnteringStep DEF WfOwed, TeOwed
  <1>4. CASE FinalTe(w)
    <2>1. /\ worker'[w].pc = "final_wf" /\ worker'[w].task = worker[w].task
          /\ \A v \in Worker : v # w => worker'[v] = worker[v]
      BY <1>0, <1>4, DropPc DEF FinalTe
    <2>2. PICK o \in TeStatus : SaveTe(w, o)
      BY <1>4 DEF FinalTe
    <2>3. \A t \in Task : t # Mine(w) => te'[t] = te[t]
      BY <1>0, <2>2, SaveTeEffect
    <2> QED
      BY <1>0, <2>1, <2>3, WfStep, TeStep, EnteringStep DEF WfOwed, TeOwed
  <1>5. CASE FinalWf(w)
    <2>1. /\ worker'[w].pc = "ensure" /\ worker'[w].task = worker[w].task
          /\ \A v \in Worker : v # w => worker'[v] = worker[v]
          /\ wf' = "active" /\ te' = te
      BY <1>0, <1>5, GotoPc DEF FinalWf
    <2> QED
      BY <1>0, <2>1, WfStep, TeStep, EnteringStep DEF WfOwed, TeOwed
  <1>6. CASE Raise(w)
    <2>1. /\ worker'[w].pc = "mf_wf" /\ worker'[w].task = worker[w].task
          /\ \A v \in Worker : v # w => worker'[v] = worker[v]
          /\ wf' = wf /\ te' = te
      BY <1>0, <1>6, DropPc DEF Raise
    <2> QED
      BY <1>0, <2>1, WfStep, TeStep, EnteringStep DEF WfOwed, TeOwed
  <1> QED
    BY <1>1, <1>2, <1>3, <1>4, <1>5, <1>6

\* After the run: _execute's last look at the task, or _mark_failed's at both.
LEMMA EndingKeepsClean ==
  ASSUME CleanInv, NEW w \in Worker,
         \/ Ensure(w) \/ EnsureSave(w) \/ MarkFailedLoadWf(w) \/ MarkFailedSaveWf(w)
         \/ MarkFailedLoadTe(w) \/ MarkFailedSaveTe(w) \/ StoreResult(w)
  PROVE  WfCovered' /\ TeCovered' /\ Entering'
  <1> USE DEF db, broker, bounds
  <1>0. TypeOK /\ WfCovered /\ TeCovered /\ Entering /\ worker[w] \in WorkerMem
    BY DEF CleanInv, TypeOK
  <1>1. CASE Ensure(w) \/ MarkFailedLoadTe(w)
    <2>1. /\ wf' = wf /\ te' = te /\ worker[w].pc \in {"ensure", "mf_te"}
      BY <1>1 DEF Ensure, MarkFailedLoadTe, At
    <2>2. /\ \A v \in Worker : v # w => worker'[v] = worker[v]
          /\ \/ worker'[w].pc \in {"ok", "error"} /\ te[Mine(w)].status \in SettledStatus
             \/ worker'[w].pc \in {"ensure_save", "mf_te_save"} /\ worker'[w].task = worker[w].task
      <3>1. CASE te[Mine(w)].status \in SettledStatus
        <4>1. PICK pc \in {"ok", "error"} : worker' = [worker EXCEPT ![w] = Drop(w, pc)]
          BY <1>1, <3>1 DEF Ensure, MarkFailedLoadTe
        <4> QED
          BY <1>0, <3>1, <4>1, DropPc
      <3>2. CASE te[Mine(w)].status \notin SettledStatus
        <4>1. PICK pc \in {"ensure_save", "mf_te_save"} :
                worker' = [worker EXCEPT ![w] = Holding(w, pc)]
          BY <1>1, <3>2 DEF Ensure, MarkFailedLoadTe
        <4> QED
          BY <1>0, <4>1, HoldingPc
      <3> QED
        BY <3>1, <3>2
    <2>3. te[Mine(w)].status \in SettledStatus => te'[Mine(w)].status # "running"
      BY <2>1 DEF SettledStatus
    <2>4. WfCovered'
      BY <1>0, <2>1, <2>2, WfStep DEF WfOwed
    <2>5. TeCovered'
      BY <1>0, <2>1, <2>2, <2>3, TeStep DEF TeOwed
    <2>6. Entering'
      BY <1>0, <2>2, EnteringStep
    <2> QED
      BY <2>4, <2>5, <2>6
  <1>2. CASE EnsureSave(w) \/ MarkFailedSaveTe(w)
    <2>1. PICK s \in {"completed", "failed"}, pc \in {"ok", "error"} :
            SaveTe(w, s) /\ worker' = [worker EXCEPT ![w] = Drop(w, pc)]
      BY <1>2 DEF EnsureSave, MarkFailedSaveTe
    <2>2. /\ worker'[w].pc \in {"ok", "error"} /\ wf' = wf
          /\ worker[w].pc \in {"ensure_save", "mf_te_save"}
          /\ \A v \in Worker : v # w => worker'[v] = worker[v]
      BY <1>0, <1>2, <2>1, DropPc DEF EnsureSave, MarkFailedSaveTe, At
    <2>3. s \in TeStatus /\ s # "running"
      BY <2>1 DEF TeStatus
    <2>4. /\ \A t \in Task : t # Mine(w) => te'[t] = te[t]
          /\ Mine(w) \in Task => te'[Mine(w)].status # "running"
      BY <1>0, <2>1, <2>3, SaveTeEffect
    <2> QED
      BY <1>0, <2>2, <2>4, WfStep, TeStep, EnteringStep DEF WfOwed
  <1>3. CASE MarkFailedLoadWf(w)
    <2>1. /\ worker'[w].task = worker[w].task /\ wf' = wf /\ te' = te
          /\ \A v \in Worker : v # w => worker'[v] = worker[v]
          /\ worker'[w].pc \in {"mf_te", "mf_save"}
          /\ wf = "running" => worker'[w].pc = "mf_save"
      BY <1>0, <1>3, GotoPc DEF MarkFailedLoadWf
    <2> QED
      BY <1>0, <2>1, WfStep, TeStep, EnteringStep DEF WfOwed, TeOwed
  <1>4. CASE MarkFailedSaveWf(w)
    <2>1. /\ worker'[w].task = worker[w].task /\ wf' = "active" /\ te' = te
          /\ \A v \in Worker : v # w => worker'[v] = worker[v]
          /\ worker'[w].pc = "mf_te"
      BY <1>0, <1>4, GotoPc DEF MarkFailedSaveWf
    <2> QED
      BY <1>0, <2>1, WfStep, TeStep, EnteringStep DEF WfOwed, TeOwed
  <1>5. CASE StoreResult(w)
    <2>1. /\ worker[w].pc \in {"ok", "error"} /\ wf' = wf /\ te' = te
          /\ \A v \in Worker : v # w => worker'[v] = worker[v]
          /\ worker'[w].pc = "ack"
      BY <1>0, <1>5, GotoPc DEF StoreResult
    <2> QED
      BY <1>0, <2>1, WfStep, TeStep, EnteringStep DEF WfOwed, TeOwed
  <1> QED
    BY <1>1, <1>2, <1>3, <1>4, <1>5

\* Celery's part: no worker dies, none is terminated, _mark_failed does not fail.
LEMMA CeleryKeepsClean ==
  ASSUME Faults \cap {"worker", "mark_failed"} = {}, CleanInv, NEW w \in Worker,
         Receive(w) \/ Ack(w) \/ Lapse(w) \/ Terminate(w) \/ Crash(w) \/ GiveUp(w)
  PROVE  WfCovered' /\ TeCovered' /\ Entering'
  <1> USE DEF db, broker, bounds
  <1>0. TypeOK /\ WfCovered /\ TeCovered /\ Entering /\ worker[w] \in WorkerMem
    BY DEF CleanInv, TypeOK
  <1>1. ~Terminate(w) /\ ~Crash(w) /\ ~GiveUp(w)
    BY DEF CleanInv, Undisturbed, Terminate, Crash, GiveUp, Fault
  <1>2. CASE Receive(w)
    <2>1. /\ worker'[w].pc = "load_wf" /\ worker[w].pc = "idle" /\ wf' = wf /\ te' = te
          /\ \A v \in Worker : v # w => worker'[v] = worker[v]
      <3>1. PICK t \in Task :
              worker' = [worker EXCEPT ![w] =
                          [IdleWorker EXCEPT !.pc = "load_wf", !.task = t, !.owns = TRUE]]
        BY <1>2 DEF Receive
      <3> QED
        BY <1>0, <1>2, <3>1 DEF Receive, TypeOK, IdleWorker, At
    <2> QED
      BY <1>0, <2>1, WfStep, TeStep, EnteringStep DEF WfOwed, TeOwed
  <1>3. CASE Ack(w)
    <2>1. /\ worker'[w].pc = "idle" /\ worker[w].pc = "ack" /\ wf' = wf /\ te' = te
          /\ \A v \in Worker : v # w => worker'[v] = worker[v]
      BY <1>0, <1>3 DEF Ack, IdleWorker, TypeOK, At
    <2> QED
      BY <1>0, <2>1, WfStep, TeStep, EnteringStep DEF WfOwed, TeOwed
  <1>4. CASE Lapse(w)
    <2>1. /\ worker'[w].pc = worker[w].pc /\ worker'[w].task = worker[w].task
          /\ worker'[w].wf = worker[w].wf /\ wf' = wf /\ te' = te
          /\ \A v \in Worker : v # w => worker'[v] = worker[v]
      BY <1>0, <1>4 DEF Lapse, TypeOK, WorkerMem
    <2> QED
      BY <1>0, <2>1 DEF WfCovered, TeCovered, Entering, Mine
  <1> QED
    BY <1>1, <1>2, <1>3, <1>4

-----------------------------------------------------------------------------

LEMMA CleanInvStep ==
  ASSUME Faults \cap {"worker", "mark_failed"} = {}, Requests \cap {"reset", "put"} = {},
         CleanInv, [Next]_vars
  PROVE  CleanInv'
  <1> USE DEF db, broker, bounds
  <1>1. TypeOK' /\ Attempting'
    BY TypeStep DEF CleanInv
  <1>2. SUFFICES WfCovered' /\ TeCovered' /\ Entering' /\ Undisturbed'
    BY <1>1 DEF CleanInv
  <1>3. CASE \E a \in Api : ApiNext(a)
    BY <1>3, RequestKeepsClean
  <1>4. ASSUME NEW w \in Worker, WorkerNext(w)
        PROVE  WfCovered' /\ TeCovered' /\ Entering' /\ Undisturbed'
    <2>1. revoked' = revoked /\ api' = api
      BY <1>4 DEF WorkerNext, Execute, LoadWf, LoadTe, SaveWorker, ReloadTe, MarkRunning,
         Refuse, FirstLogWf, FirstLogTe, Enter, ClearHalt, FinalTe, FinalWf, Ensure,
         EnsureSave, MarkFailedLoadWf, MarkFailedSaveWf, MarkFailedLoadTe, MarkFailedSaveTe,
         StoreResult, Ack, LogWf, LogTe, PollHalt, Raise, Receive, Terminate, Crash, GiveUp,
         Lapse
    <2>2. Undisturbed'
      BY <2>1 DEF CleanInv, Undisturbed
    <2>3. WfCovered' /\ TeCovered' /\ Entering'
      BY <1>4, BeginningKeepsClean, RunningKeepsClean, EndingKeepsClean, CeleryKeepsClean
         DEF WorkerNext, Execute
    <2> QED
      BY <2>2, <2>3
  <1>5. ASSUME \/ \E t \in Task : BrokerNext(t)
               \/ HaltExpire \/ Forget \/ UNCHANGED vars
        PROVE  WfCovered' /\ TeCovered' /\ Entering' /\ Undisturbed'
    <2>1. /\ wf' = wf /\ te' = te /\ worker' = worker /\ api' = api
          /\ revoked = {} => revoked' = {}
      BY <1>5 DEF BrokerNext, Discard, Requeue, ExpireResult, HaltExpire, Forget, vars
    <2> QED
      BY <2>1 DEF CleanInv, WfCovered, TeCovered, Entering, Undisturbed, Mine
  <1> QED
    BY <1>3, <1>4, <1>5 DEF Next

\* Prompts, halts, stops and deletions of any number of users, runs delivered
\* twice and requests cut short do not leave anything recorded as running once
\* the workers are idle (agent_task.py 66-76 and 94-117, the finalisation in
\* agent_engine.py 3812-3870).
THEOREM IdleSystemIsClean ==
  ASSUME Faults \cap {"worker", "mark_failed"} = {}, Requests \cap {"reset", "put"} = {}
  PROVE  Spec => []IdleIsClean
  <1>1. CleanInv /\ [Next]_vars => CleanInv'
    BY CleanInvStep
  <1> QED
    BY <1>1, CleanInvInit, CleanImpliesIdleIsClean, PTL DEF Spec
=============================================================================
