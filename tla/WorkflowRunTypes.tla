-------------------------- MODULE WorkflowRunTypes --------------------------
(* Type correctness of WorkflowRun, for every set of tasks, workers and      *)
(* requests, every mix of request and fault kinds, and every bound.          *)
EXTENDS WorkflowRun, TLAPS

\* What the steps build from documents and memories is again of its type.
LEMMA DocTypes ==
  /\ NoDoc \in TaskDoc
  /\ \A d \in TaskDoc, s \in TeStatus : [d EXCEPT !.status = s] \in TaskDoc
  /\ \A d \in TaskDoc : [d EXCEPT !.celery_task_id = TRUE] \in TaskDoc
  BY DEF NoDoc, TaskDoc, TeStatus

LEMMA IdleTypes == IdleApi \in ApiMem /\ IdleWorker \in WorkerMem
  <1>1. IdleApi \in ApiMem
    BY DocTypes DEF IdleApi, ApiMem, ApiPc, WfStatus
  <1>2. IdleWorker \in WorkerMem
    BY DocTypes DEF IdleWorker, WorkerMem, WorkerPc, WfStatus
  <1> QED
    BY <1>1, <1>2

LEMMA ApiGotoType ==
  ASSUME TypeOK, NEW a \in Api, NEW pc \in ApiPc, ApiGoto(a, pc)
  PROVE  api' \in [Api -> ApiMem]
  <1>1. ASSUME NEW x \in ApiMem
        PROVE  [x EXCEPT !.pc = pc] \in ApiMem
    BY DEF ApiMem
  <1>2. [api[a] EXCEPT !.pc = pc] \in ApiMem
    BY <1>1 DEF TypeOK
  <1> QED
    BY <1>2 DEF TypeOK, ApiGoto

LEMMA ApiDoneType ==
  ASSUME TypeOK, NEW a \in Api, ApiDone(a)
  PROVE  api' \in [Api -> ApiMem]
  BY IdleTypes DEF TypeOK, ApiDone

\* A request that moves on with another task, or none, in its memory.
LEMMA ApiTakesType ==
  ASSUME TypeOK, NEW a \in Api, NEW pc \in ApiPc, NEW t \in Task \cup {NoTask},
         NEW d \in TaskDoc,
         api' = [api EXCEPT ![a].pc = pc, ![a].task = t, ![a].te = d]
  PROVE  api' \in [Api -> ApiMem]
  <1>1. ASSUME NEW x \in ApiMem
        PROVE  [x EXCEPT !.pc = pc, !.te = d] \in ApiMem
    BY DEF ApiMem
  <1>2. ASSUME NEW x \in ApiMem
        PROVE  [x EXCEPT !.task = t] \in ApiMem
    BY DEF ApiMem
  <1>3. ASSUME NEW x \in ApiMem
        PROVE  [x EXCEPT !.pc = pc, !.task = t, !.te = d] \in ApiMem
    <2>1. [[x EXCEPT !.pc = pc, !.te = d] EXCEPT !.task = t] \in ApiMem
      BY <1>1, <1>2
    <2> QED
      BY <2>1 DEF ApiMem
  <1> QED
    BY <1>3 DEF TypeOK

LEMMA ApiMeansType ==
  ASSUME NEW x \in ApiMem, NEW pc \in ApiPc, NEW m \in SUBSET Task, NEW d \in TaskDoc
  PROVE  /\ [x EXCEPT !.pc = pc, !.meant = m] \in ApiMem
         /\ [x EXCEPT !.pc = pc, !.meant = m, !.te = d] \in ApiMem
  <1>1. ASSUME NEW y \in ApiMem
        PROVE  [y EXCEPT !.meant = m] \in ApiMem
    BY DEF ApiMem
  <1>2. ASSUME NEW y \in ApiMem
        PROVE  [y EXCEPT !.te = d] \in ApiMem
    BY DEF ApiMem
  <1>3. [x EXCEPT !.pc = pc] \in ApiMem
    BY DEF ApiMem
  <1>4. [[x EXCEPT !.pc = pc] EXCEPT !.meant = m] \in ApiMem
    BY <1>1, <1>3
  <1>5. [[[x EXCEPT !.pc = pc] EXCEPT !.meant = m] EXCEPT !.te = d] \in ApiMem
    BY <1>2, <1>4
  <1> QED
    BY <1>4, <1>5 DEF ApiMem

\* Writing a document of whatever task a process has in its memory.
LEMMA TeSaveType ==
  ASSUME TypeOK, NEW t \in Task \cup {NoTask}, NEW d \in TaskDoc,
         te' = [te EXCEPT ![t] = d]
  PROVE  te' \in [Task -> TaskDoc]
  <1>1. te \in [Task -> TaskDoc]
    BY DEF TypeOK
  <1>2. \A s \in Task : te'[s] = IF s = t THEN d ELSE te[s]
    BY <1>1
  <1> QED
    BY <1>1, <1>2

LEMMA PromptType ==
  ASSUME TypeOK, NEW a \in Api, Prompt(a)
  PROVE  TypeOK'
  <1> USE DEF db, broker, bounds
  <1>0. api[a] \in ApiMem
    BY DEF TypeOK
  <1>0a. /\ api[a].te \in TaskDoc
         /\ api[a].task \in Task \cup {NoTask}
    BY <1>0 DEF ApiMem
  <1>1. CASE PromptLoad(a)
    <2>1. api' \in [Api -> ApiMem]
      BY <1>1, ApiGotoType DEF PromptLoad, ApiPc
    <2> QED
      BY <1>1, <2>1 DEF TypeOK, PromptLoad
  <1>2. CASE PromptFind(a)
    <2>1. api' \in [Api -> ApiMem]
      <3>1. CASE ApiGoto(a, "p_reset")
        BY <3>1, ApiGotoType DEF ApiPc
      <3>2. ASSUME NEW t \in RunningTasks, NEW pc \in {"p_alive", "p_fail"},
                   api' = [api EXCEPT ![a].pc = pc, ![a].task = t, ![a].te = te[t]]
            PROVE  api' \in [Api -> ApiMem]
        <4>1. t \in Task /\ te[t] \in TaskDoc /\ pc \in ApiPc
          BY DEF TypeOK, RunningTasks, ApiPc
        <4> QED
          BY <3>2, <4>1, ApiTakesType
      <3>3. ASSUME NEW t \in RunningTasks,
                   api' = [api EXCEPT
                     ![a].pc = IF te[t].celery_task_id THEN "p_alive" ELSE "p_fail",
                     ![a].task = t, ![a].te = te[t]]
            PROVE  api' \in [Api -> ApiMem]
        <4> DEFINE pc == IF te[t].celery_task_id THEN "p_alive" ELSE "p_fail"
        <4>1. pc \in {"p_alive", "p_fail"}
          OBVIOUS
        <4>2. api' = [api EXCEPT ![a].pc = pc, ![a].task = t, ![a].te = te[t]]
          BY <3>3
        <4> HIDE DEF pc
        <4> QED
          BY <3>2, <4>1, <4>2
      <3> QED
        BY <1>2, <3>1, <3>3 DEF PromptFind
    <2> QED
      BY <1>2, <2>1 DEF TypeOK, PromptFind
  <1>3. CASE PromptAlive(a)
    <2>1. api' \in [Api -> ApiMem]
      BY <1>3, ApiGotoType, ApiDoneType DEF PromptAlive, ApiPc
    <2> QED
      BY <1>3, <2>1 DEF TypeOK, PromptAlive
  <1>4. CASE PromptFail(a)
    <2>1. te' \in [Task -> TaskDoc]
      BY <1>0a, <1>4, DocTypes, TeSaveType DEF PromptFail, TeStatus
    <2>2. api' \in [Api -> ApiMem]
      BY <1>4, DocTypes, ApiTakesType DEF PromptFail, ApiPc
    <2> QED
      BY <1>4, <2>1, <2>2 DEF TypeOK, PromptFail
  <1>5. CASE PromptReset(a)
    <2>1. api' \in [Api -> ApiMem]
      BY <1>5, ApiGotoType DEF PromptReset, ApiPc
    <2> QED
      BY <1>5, <2>1 DEF TypeOK, PromptReset, WfStatus
  <1>6. CASE PromptReject(a)
    <2>1. api' \in [Api -> ApiMem]
      BY <1>6, ApiDoneType DEF PromptReject
    <2> QED
      BY <1>6, <2>1 DEF TypeOK, PromptReject
  <1>7. CASE PromptInsert(a)
    <2>1. PICK t \in Task :
            /\ te' = [te EXCEPT ![t].status = "pending"]
            /\ api' = [api EXCEPT ![a].pc = "p_delay", ![a].task = t, ![a].te = te'[t]]
      BY <1>7 DEF PromptInsert
    <2>2. te' \in [Task -> TaskDoc]
      BY <2>1 DEF TypeOK, TaskDoc, TeStatus
    <2>3. api' \in [Api -> ApiMem]
      BY <2>1, <2>2, ApiTakesType DEF ApiPc
    <2> QED
      BY <1>7, <2>2, <2>3 DEF TypeOK, PromptInsert
  <1>8. CASE PromptDelay(a)
    <2>1. api' \in [Api -> ApiMem]
      BY <1>8, ApiGotoType DEF PromptDelay, ApiPc
    <2> QED
      BY <1>8, <2>1 DEF TypeOK, PromptDelay, MsgState
  <1>9. CASE PromptStoreId(a)
    <2>1. te' \in [Task -> TaskDoc]
      BY <1>0a, <1>9, DocTypes, TeSaveType DEF PromptStoreId
    <2>2. api' \in [Api -> ApiMem]
      BY <1>9, ApiDoneType DEF PromptStoreId
    <2> QED
      BY <1>9, <2>1, <2>2 DEF TypeOK, PromptStoreId
  <1> QED
    BY <1>1, <1>2, <1>3, <1>4, <1>5, <1>6, <1>7, <1>8, <1>9 DEF Prompt

LEMMA HaltType ==
  ASSUME TypeOK, NEW a \in Api, Halt(a)
  PROVE  TypeOK'
  <1> USE DEF db, broker, bounds
  <1>0. api[a] \in ApiMem
    BY DEF TypeOK
  <1>1. CASE HaltLoad(a)
    <2>1. api' \in [Api -> ApiMem]
      BY <1>1, ApiGotoType DEF HaltLoad, ApiPc
    <2> QED
      BY <1>1, <2>1 DEF TypeOK, HaltLoad
  <1>2. CASE HaltFind(a)
    <2>1. RunningTasks \in SUBSET Task /\ "h_set" \in ApiPc /\ NoDoc \in TaskDoc
      BY DocTypes DEF RunningTasks, ApiPc
    <2>2. [api[a] EXCEPT !.pc = "h_set", !.meant = RunningTasks] \in ApiMem
      BY <1>0, <2>1, ApiMeansType
    <2>3. api' \in [Api -> ApiMem]
      BY <1>2, <2>2, ApiDoneType DEF TypeOK, HaltFind
    <2> QED
      BY <1>2, <2>3 DEF TypeOK, HaltFind
  <1>3. CASE StopLoad(a)
    <2>1. PICK t \in Task :
            api' = [api EXCEPT ![a].pc = "s_wf", ![a].meant = {t}, ![a].te = te[t]]
      BY <1>3 DEF StopLoad
    <2>2. {t} \in SUBSET Task /\ "s_wf" \in ApiPc /\ te[t] \in TaskDoc
      BY DEF TypeOK, ApiPc
    <2>3. [api[a] EXCEPT !.pc = "s_wf", !.meant = {t}, !.te = te[t]] \in ApiMem
      BY <1>0, <2>2, ApiMeansType
    <2>4. api' \in [Api -> ApiMem]
      BY <2>1, <2>3 DEF TypeOK
    <2> QED
      BY <1>3, <2>4 DEF TypeOK, StopLoad
  <1>4. CASE StopCheck(a)
    <2>1. api' \in [Api -> ApiMem]
      BY <1>4, ApiGotoType, ApiDoneType DEF StopCheck, ApiPc
    <2> QED
      BY <1>4, <2>1 DEF TypeOK, StopCheck
  <1>5. CASE HaltSet(a)
    <2>1. api' \in [Api -> ApiMem]
      BY <1>5, ApiDoneType DEF HaltSet
    <2>2. halt' \in SUBSET Task
      BY <1>0, <1>5 DEF HaltSet, ApiMem
    <2> QED
      BY <1>5, <2>1, <2>2 DEF TypeOK, HaltSet
  <1> QED
    BY <1>1, <1>2, <1>3, <1>4, <1>5 DEF Halt

LEMMA ResetType ==
  ASSUME TypeOK, NEW a \in Api, Reset(a)
  PROVE  TypeOK'
  <1> USE DEF db, broker, bounds
  <1>0. api[a] \in ApiMem
    BY DEF TypeOK
  <1>1. CASE ResetLoad(a)
    <2>1. api' \in [Api -> ApiMem]
      BY <1>1, ApiGotoType DEF ResetLoad, ApiPc
    <2> QED
      BY <1>1, <2>1 DEF TypeOK, ResetLoad
  <1>2. CASE ResetFind(a)
    <2> DEFINE found == [t \in Task |-> IF t \in RunningTasks THEN te[t] ELSE NoDoc]
    <2>1. found \in [Task -> TaskDoc] /\ RunningTasks \in SUBSET Task
      BY DocTypes DEF TypeOK, RunningTasks
    <2>2. api' = [api EXCEPT ![a].pc = "r_task", ![a].todo = RunningTasks, ![a].docs = found]
      BY <1>2 DEF ResetFind
    <2> HIDE DEF found
    <2>3. [api[a] EXCEPT !.pc = "r_task", !.todo = RunningTasks, !.docs = found] \in ApiMem
      BY <1>0, <2>1 DEF ApiMem, ApiPc
    <2>4. api' \in [Api -> ApiMem]
      BY <2>2, <2>3 DEF TypeOK
    <2> QED
      BY <1>2, <2>4 DEF TypeOK, ResetFind
  <1>3. CASE ResetRevoke(a)
    <2>1. PICK t \in api[a].todo :
            /\ revoked' = IF api[a].docs[t].celery_task_id THEN revoked \cup {t} ELSE revoked
            /\ api' = [api EXCEPT ![a].pc = "r_save", ![a].task = t]
      BY <1>3 DEF ResetRevoke
    <2>2. t \in Task
      BY <1>0 DEF ApiMem
    <2>3. [api[a] EXCEPT !.pc = "r_save", !.task = t] \in ApiMem
      BY <1>0, <2>2 DEF ApiMem, ApiPc
    <2>4. api' \in [Api -> ApiMem]
      BY <2>1, <2>3 DEF TypeOK
    <2>5. revoked' \subseteq Task
      BY <2>1, <2>2 DEF TypeOK
    <2> QED
      BY <1>3, <2>4, <2>5 DEF TypeOK, ResetRevoke
  <1>4. CASE ResetSave(a)
    <2> DEFINE t == api[a].task
    <2> DEFINE failed == [api[a].docs[t] EXCEPT !.status = "failed"]
    <2>1. te' \in [Task -> TaskDoc]
      <3>1. CASE t \in Task
        <4>1. failed \in TaskDoc
          <5>1. api[a].docs[t] \in TaskDoc
            BY <1>0, <3>1 DEF ApiMem
          <5> QED
            BY <5>1, DocTypes DEF TeStatus
        <4> QED
          BY <1>4, <3>1, <4>1 DEF TypeOK, ResetSave
      <3>2. CASE t \notin Task
        BY <1>4, <3>2 DEF TypeOK, ResetSave
      <3> QED
        BY <3>1, <3>2
    <2>2. [api[a].docs EXCEPT ![t] = NoDoc] \in [Task -> TaskDoc]
      BY <1>0, DocTypes DEF ApiMem
    <2>3. [api[a] EXCEPT !.pc = "r_task", !.task = NoTask, !.todo = @ \ {t},
             !.docs[t] = NoDoc] \in ApiMem
      BY <1>0, <2>2 DEF ApiMem, ApiPc
    <2>4. api' \in [Api -> ApiMem]
      BY <1>4, <2>3 DEF TypeOK, ResetSave
    <2> QED
      BY <1>4, <2>1, <2>4 DEF TypeOK, ResetSave
  <1>5. CASE ResetActive(a)
    <2>1. api' \in [Api -> ApiMem]
      BY <1>5, ApiGotoType DEF ResetActive, ApiPc
    <2> QED
      BY <1>5, <2>1 DEF TypeOK, ResetActive, WfStatus
  <1>6. CASE ResetClearHalt(a)
    <2>1. api' \in [Api -> ApiMem]
      BY <1>6, ApiDoneType DEF ResetClearHalt
    <2> QED
      BY <1>6, <2>1 DEF TypeOK, ResetClearHalt
  <1> QED
    BY <1>1, <1>2, <1>3, <1>4, <1>5, <1>6 DEF Reset

LEMMA EditType ==
  ASSUME TypeOK, NEW a \in Api, Edit(a)
  PROVE  TypeOK'
  <1> USE DEF db, broker, bounds
  <1>0. api[a] \in ApiMem
    BY DEF TypeOK
  <1>1. CASE UpdateLoad(a)
    <2>1. [api[a] EXCEPT !.pc = "u_save", !.wf = wf] \in ApiMem
      BY <1>0 DEF TypeOK, ApiMem, ApiPc
    <2>2. api' \in [Api -> ApiMem]
      BY <1>1, <2>1 DEF TypeOK, UpdateLoad
    <2> QED
      BY <1>1, <2>2 DEF TypeOK, UpdateLoad
  <1>2. CASE UpdateSave(a)
    <2>1. wf' \in WfStatus
      BY <1>0, <1>2 DEF UpdateSave, ApiMem, WfStatus
    <2>2. api' \in [Api -> ApiMem]
      BY <1>2, ApiDoneType DEF UpdateSave
    <2> QED
      BY <1>2, <2>1, <2>2 DEF TypeOK, UpdateSave
  <1>3. CASE DeleteLoad(a)
    <2>1. api' \in [Api -> ApiMem]
      BY <1>3, ApiGotoType DEF DeleteLoad, ApiPc
    <2> QED
      BY <1>3, <2>1 DEF TypeOK, DeleteLoad
  <1>4. CASE DeleteDoc(a)
    <2>1. api' \in [Api -> ApiMem]
      BY <1>4, ApiDoneType DEF DeleteDoc
    <2> QED
      BY <1>4, <2>1 DEF TypeOK, DeleteDoc, WfStatus
  <1> QED
    BY <1>1, <1>2, <1>3, <1>4 DEF Edit

-----------------------------------------------------------------------------
(* The worker *)

LEMMA WorkerMemTypes ==
  ASSUME NEW x \in WorkerMem, NEW pc \in WorkerPc
  PROVE  /\ [x EXCEPT !.pc = pc] \in WorkerMem
         /\ [x EXCEPT !.owns = FALSE] \in WorkerMem
         /\ \A d \in TaskDoc :
              /\ [x EXCEPT !.pc = pc, !.te = d] \in WorkerMem
              /\ [x EXCEPT !.te = d, !.pc = pc] \in WorkerMem
         /\ \A s \in WfStatus : [x EXCEPT !.wf = s, !.pc = pc] \in WorkerMem
         /\ \A s \in WfStatus, d \in TaskDoc :
              [x EXCEPT !.pc = pc, !.wf = s, !.te = d] \in WorkerMem
  BY DEF WorkerMem

LEMMA GotoType ==
  ASSUME TypeOK, NEW w \in Worker, NEW pc \in WorkerPc, Goto(w, pc)
  PROVE  worker' \in [Worker -> WorkerMem]
  BY WorkerMemTypes DEF TypeOK, Goto

LEMMA DropType ==
  ASSUME TypeOK, NEW w \in Worker, NEW pc \in WorkerPc
  PROVE  Drop(w, pc) \in WorkerMem
  <1>1. worker[w] \in WorkerMem /\ "deleted" \in WfStatus
    BY DEF TypeOK, WfStatus
  <1> QED
    BY <1>1, DocTypes, WorkerMemTypes DEF Drop

\* A worker that reads its TaskExecution has a task.
LEMMA HoldingType ==
  ASSUME TypeOK, NEW w \in Worker, NEW pc \in WorkerPc, Mine(w) \in Task
  PROVE  Holding(w, pc) \in WorkerMem
  <1>1. worker[w] \in WorkerMem /\ te[Mine(w)] \in TaskDoc
    BY DEF TypeOK
  <1> QED
    BY <1>1, WorkerMemTypes DEF Holding

LEMMA BecomesType ==
  ASSUME TypeOK, NEW w \in Worker, NEW m \in WorkerMem,
         worker' = [worker EXCEPT ![w] = m]
  PROVE  worker' \in [Worker -> WorkerMem]
  BY DEF TypeOK

LEMMA TeAsType ==
  ASSUME TypeOK, NEW w \in Worker, NEW s \in TeStatus
  PROVE  TeAs(w, s) \in TaskDoc
  <1>1. worker[w].te \in TaskDoc
    BY DEF TypeOK, WorkerMem
  <1> QED
    BY <1>1, DocTypes DEF TeAs

LEMMA SaveTeType ==
  ASSUME TypeOK, NEW w \in Worker, NEW s \in TeStatus, SaveTe(w, s)
  PROVE  te' \in [Task -> TaskDoc]
  <1>1. Mine(w) \in Task \cup {NoTask}
    BY DEF TypeOK, WorkerMem, Mine
  <1> QED
    BY <1>1, TeAsType, TeSaveType DEF SaveTe

LEMMA SettledType ==
  ASSUME TypeOK, NEW w \in Worker
  PROVE  Settled(w) \in [Task -> MsgState]
  <1>1. msg \in [Task -> MsgState] /\ "done" \in MsgState
    BY DEF TypeOK, MsgState
  <1> QED
    BY <1>1 DEF Settled

\* A slot that executes something has a task; an idle one does not.
Attempting == \A w \in Worker : worker[w].task \in Task <=> ~At(w, "idle")

LEMMA AttemptingInit == Init => Attempting
  BY NoTaskIsNoTask DEF Init, Attempting, At, IdleWorker

LEMMA ExecuteType ==
  ASSUME TypeOK, Attempting, NEW w \in Worker, Execute(w)
  PROVE  TypeOK'
  <1> USE DEF db, broker, bounds
  <1>0. /\ worker[w] \in WorkerMem
        /\ worker[w].te \in TaskDoc
        /\ worker[w].wf \in WfStatus
    BY DEF TypeOK, WorkerMem
  <1>1. CASE LoadWf(w)
    <2> DEFINE pc == IF wf = "deleted" THEN "ok" ELSE "load_te"
    <2>1. pc \in WorkerPc /\ wf \in WfStatus
      BY DEF WorkerPc, TypeOK
    <2>2. worker' = [worker EXCEPT ![w].wf = wf, ![w].pc = pc]
      BY <1>1 DEF LoadWf
    <2> HIDE DEF pc
    <2>3. worker' \in [Worker -> WorkerMem]
      BY <2>1, <2>2, WorkerMemTypes DEF TypeOK
    <2> QED
      BY <1>1, <2>3 DEF TypeOK, LoadWf
  <1>2. CASE LoadTe(w)
    <2>1. worker' \in [Worker -> WorkerMem]
      BY <1>2, HoldingType, BecomesType DEF LoadTe, Attempting, At, Mine, WorkerPc
    <2> QED
      BY <1>2, <2>1 DEF TypeOK, LoadTe
  <1>3. CASE SaveWorker(w)
    <2>1. te' \in [Task -> TaskDoc]
      BY <1>0, <1>3 DEF TypeOK, SaveWorker
    <2>2. worker' \in [Worker -> WorkerMem]
      BY <1>3, GotoType DEF SaveWorker, WorkerPc
    <2> QED
      BY <1>3, <2>1, <2>2 DEF TypeOK, SaveWorker
  <1>4. CASE ReloadTe(w)
    <2>1. worker' \in [Worker -> WorkerMem]
      BY <1>4, HoldingType, BecomesType DEF ReloadTe, Attempting, At, Mine, WorkerPc
    <2> QED
      BY <1>4, <2>1 DEF TypeOK, ReloadTe
  <1>5. CASE MarkRunning(w)
    <2> DEFINE pc == IF worker[w].wf = "active" THEN "log_wf" ELSE "refuse"
    <2>1. pc \in WorkerPc /\ TeAs(w, "running") \in TaskDoc
      BY TeAsType DEF WorkerPc, TeStatus
    <2>2. worker' = [worker EXCEPT ![w].te = TeAs(w, "running"), ![w].pc = pc]
      BY <1>5 DEF MarkRunning
    <2> HIDE DEF pc
    <2>3. worker' \in [Worker -> WorkerMem]
      BY <2>1, <2>2, WorkerMemTypes DEF TypeOK
    <2>4. te' \in [Task -> TaskDoc]
      BY <1>5, SaveTeType DEF MarkRunning, TeStatus
    <2> QED
      BY <1>5, <2>3, <2>4 DEF TypeOK, MarkRunning
  <1>6. CASE Refuse(w)
    <2>1. te' \in [Task -> TaskDoc]
      BY <1>6, SaveTeType DEF Refuse, TeStatus
    <2>2. worker' \in [Worker -> WorkerMem]
      BY <1>6, DropType, BecomesType DEF Refuse, WorkerPc
    <2> QED
      BY <1>6, <2>1, <2>2 DEF TypeOK, Refuse
  <1>7. CASE FirstLogWf(w)
    <2>1. worker' \in [Worker -> WorkerMem]
      BY <1>7, GotoType DEF FirstLogWf, WorkerPc
    <2> QED
      BY <1>0, <1>7, <2>1 DEF TypeOK, FirstLogWf
  <1>8. CASE FirstLogTe(w)
    <2>1. te' \in [Task -> TaskDoc]
      BY <1>8, SaveTeType DEF FirstLogTe, TeStatus
    <2>2. worker' \in [Worker -> WorkerMem]
      BY <1>8, GotoType DEF FirstLogTe, WorkerPc
    <2> QED
      BY <1>8, <2>1, <2>2 DEF TypeOK, FirstLogTe
  <1>9. CASE Enter(w)
    <2>1. "running" \in WfStatus /\ "run" \in WorkerPc
      BY DEF WfStatus, WorkerPc
    <2>2. worker' \in [Worker -> WorkerMem]
      BY <1>9, <2>1, WorkerMemTypes DEF TypeOK, Enter
    <2> QED
      BY <1>9, <2>1, <2>2 DEF TypeOK, Enter
  <1>10. CASE ClearHalt(w)
    <2>1. worker' \in [Worker -> WorkerMem]
      BY <1>10, GotoType DEF ClearHalt, WorkerPc
    <2> QED
      BY <1>10, <2>1 DEF TypeOK, ClearHalt
  <1>11. CASE FinalTe(w)
    <2>1. te' \in [Task -> TaskDoc]
      BY <1>11, SaveTeType DEF FinalTe
    <2>2. worker' \in [Worker -> WorkerMem]
      BY <1>11, DropType, BecomesType DEF FinalTe, WorkerPc
    <2> QED
      BY <1>11, <2>1, <2>2 DEF TypeOK, FinalTe
  <1>12. CASE FinalWf(w)
    <2>1. worker' \in [Worker -> WorkerMem]
      BY <1>12, GotoType DEF FinalWf, WorkerPc
    <2> QED
      BY <1>12, <2>1 DEF TypeOK, FinalWf, WfStatus
  <1>13. CASE Ensure(w)
    <2>1. Mine(w) \in Task
      BY <1>13 DEF Ensure, Attempting, At, Mine
    <2>2. Drop(w, "ok") \in WorkerMem /\ Holding(w, "ensure_save") \in WorkerMem
      BY <2>1, DropType, HoldingType DEF WorkerPc
    <2>3. worker' \in [Worker -> WorkerMem]
      BY <1>13, <2>2 DEF TypeOK, Ensure
    <2> QED
      BY <1>13, <2>3 DEF TypeOK, Ensure
  <1>14. CASE EnsureSave(w)
    <2>1. te' \in [Task -> TaskDoc]
      BY <1>14, SaveTeType DEF EnsureSave, TeStatus
    <2>2. worker' \in [Worker -> WorkerMem]
      BY <1>14, DropType, BecomesType DEF EnsureSave, WorkerPc
    <2> QED
      BY <1>14, <2>1, <2>2 DEF TypeOK, EnsureSave
  <1>15. CASE MarkFailedLoadWf(w)
    <2>1. worker' \in [Worker -> WorkerMem]
      BY <1>15, GotoType DEF MarkFailedLoadWf, WorkerPc
    <2> QED
      BY <1>15, <2>1 DEF TypeOK, MarkFailedLoadWf
  <1>16. CASE MarkFailedSaveWf(w)
    <2>1. worker' \in [Worker -> WorkerMem]
      BY <1>16, GotoType DEF MarkFailedSaveWf, WorkerPc
    <2> QED
      BY <1>16, <2>1 DEF TypeOK, MarkFailedSaveWf, WfStatus
  <1>17. CASE MarkFailedLoadTe(w)
    <2>1. Mine(w) \in Task
      BY <1>17 DEF MarkFailedLoadTe, Attempting, At, Mine
    <2>2. Drop(w, "error") \in WorkerMem /\ Holding(w, "mf_te_save") \in WorkerMem
      BY <2>1, DropType, HoldingType DEF WorkerPc
    <2>3. worker' \in [Worker -> WorkerMem]
      BY <1>17, <2>2 DEF TypeOK, MarkFailedLoadTe
    <2> QED
      BY <1>17, <2>3 DEF TypeOK, MarkFailedLoadTe
  <1>18. CASE MarkFailedSaveTe(w)
    <2>1. te' \in [Task -> TaskDoc]
      BY <1>18, SaveTeType DEF MarkFailedSaveTe, TeStatus
    <2>2. worker' \in [Worker -> WorkerMem]
      BY <1>18, DropType, BecomesType DEF MarkFailedSaveTe, WorkerPc
    <2> QED
      BY <1>18, <2>1, <2>2 DEF TypeOK, MarkFailedSaveTe
  <1>19. CASE StoreResult(w)
    <2>1. worker' \in [Worker -> WorkerMem]
      BY <1>19, GotoType DEF StoreResult, WorkerPc
    <2>2. result' \in [Task -> ResultState]
      BY <1>19 DEF TypeOK, StoreResult, ResultState
    <2> QED
      BY <1>19, <2>1, <2>2 DEF TypeOK, StoreResult
  <1>20. CASE Ack(w)
    <2>1. worker' \in [Worker -> WorkerMem]
      BY <1>20, IdleTypes, BecomesType DEF Ack
    <2>2. msg' \in [Task -> MsgState]
      BY <1>20, SettledType DEF Ack
    <2> QED
      BY <1>20, <2>1, <2>2 DEF TypeOK, Ack
  <1> QED
    BY <1>1, <1>2, <1>3, <1>4, <1>5, <1>6, <1>7, <1>8, <1>9, <1>10, <1>11, <1>12,
       <1>13, <1>14, <1>15, <1>16, <1>17, <1>18, <1>19, <1>20 DEF Execute

\* The other steps of a worker slot, Receive and Execute apart.
LEMMA WorkerOtherType ==
  ASSUME TypeOK, NEW w \in Worker,
         \/ LogWf(w) \/ LogTe(w) \/ PollHalt(w) \/ Raise(w)
         \/ Terminate(w) \/ Crash(w) \/ GiveUp(w) \/ Lapse(w)
  PROVE  TypeOK'
  <1> USE DEF db, broker, bounds
  <1>0. worker[w].wf \in WfStatus
    BY DEF TypeOK, WorkerMem
  <1>1. CASE LogWf(w)
    BY <1>0, <1>1 DEF TypeOK, LogWf
  <1>2. CASE LogTe(w)
    <2>1. te' \in [Task -> TaskDoc]
      BY <1>2, SaveTeType DEF LogTe, TeStatus
    <2> QED
      BY <1>2, <2>1 DEF TypeOK, LogTe
  <1>3. CASE PollHalt(w)
    <2>1. worker' \in [Worker -> WorkerMem]
      BY <1>3, GotoType DEF PollHalt, WorkerPc
    <2> QED
      BY <1>3, <2>1 DEF TypeOK, PollHalt
  <1>4. CASE Raise(w)
    <2>1. worker' \in [Worker -> WorkerMem]
      BY <1>4, DropType, BecomesType DEF Raise, WorkerPc
    <2> QED
      BY <1>4, <2>1 DEF TypeOK, Raise
  <1>5. CASE Terminate(w)
    <2>1. worker' \in [Worker -> WorkerMem]
      BY <1>5, IdleTypes, BecomesType DEF Terminate
    <2>2. msg' \in [Task -> MsgState]
      BY <1>5, SettledType DEF Terminate
    <2>3. result' \in [Task -> ResultState]
      BY <1>5 DEF TypeOK, Terminate, ResultState
    <2> QED
      BY <1>5, <2>1, <2>2, <2>3 DEF TypeOK, Terminate
  <1>6. CASE Crash(w)
    <2>1. worker' \in [Worker -> WorkerMem]
      BY <1>6, IdleTypes, BecomesType DEF Crash
    <2> QED
      BY <1>6, <2>1 DEF TypeOK, Crash, Fault
  <1>7. CASE GiveUp(w)
    <2>1. worker' \in [Worker -> WorkerMem]
      BY <1>7, DropType, BecomesType DEF GiveUp, WorkerPc
    <2> QED
      BY <1>7, <2>1 DEF TypeOK, GiveUp, Fault
  <1>8. CASE Lapse(w)
    <2>1. worker' \in [Worker -> WorkerMem]
      <3>1. "ack" \in WorkerPc
        BY DEF WorkerPc
      <3> QED
        BY <1>8, <3>1, WorkerMemTypes DEF TypeOK, Lapse
    <2>2. msg' \in [Task -> MsgState]
      <3>1. msg \in [Task -> MsgState] /\ "queued" \in MsgState
        BY DEF TypeOK, MsgState
      <3> QED
        BY <1>8, <3>1 DEF Lapse
    <2>3. lapses' \in Nat
      BY <1>8 DEF TypeOK, Lapse
    <2> QED
      BY <1>8, <2>1, <2>2, <2>3 DEF TypeOK, Lapse
  <1> QED
    BY <1>1, <1>2, <1>3, <1>4, <1>5, <1>6, <1>7, <1>8

LEMMA ReceiveType ==
  ASSUME TypeOK, NEW w \in Worker, Receive(w)
  PROVE  TypeOK'
  <1>1. PICK t \in Task :
          /\ msg' = [msg EXCEPT ![t] = "unacked"]
          /\ result' = [result EXCEPT ![t] = "STARTED"]
          /\ worker' = [worker EXCEPT ![w] =
                          [IdleWorker EXCEPT !.pc = "load_wf", !.task = t, !.owns = TRUE]]
    BY DEF Receive
  <1>2. [IdleWorker EXCEPT !.pc = "load_wf", !.task = t, !.owns = TRUE] \in WorkerMem
    BY IdleTypes DEF WorkerMem, WorkerPc
  <1>3. worker' \in [Worker -> WorkerMem]
    BY <1>1, <1>2, BecomesType
  <1>4. msg' \in [Task -> MsgState] /\ result' \in [Task -> ResultState]
    BY <1>1 DEF TypeOK, MsgState, ResultState, Unfinished
  <1> QED
    BY <1>3, <1>4 DEF TypeOK, Receive, db, bounds

LEMMA ApiType ==
  ASSUME TypeOK, NEW a \in Api, ApiNext(a)
  PROVE  TypeOK'
  <1>1. CASE ApiCrash(a)
    <2>1. api' \in [Api -> ApiMem]
      BY <1>1, ApiDoneType DEF ApiCrash
    <2> QED
      BY <1>1, <2>1 DEF TypeOK, ApiCrash, Fault, db, broker
  <1> QED
    BY <1>1, PromptType, HaltType, ResetType, EditType DEF ApiNext

LEMMA BrokerType ==
  ASSUME TypeOK, NEW t \in Task, BrokerNext(t)
  PROVE  TypeOK'
  <1> USE DEF db, bounds
  <1>1. CASE Discard(t)
    <2>1. msg' \in [Task -> MsgState] /\ result' \in [Task -> ResultState]
      BY <1>1 DEF TypeOK, Discard, MsgState, ResultState
    <2> QED
      BY <1>1, <2>1 DEF TypeOK, Discard
  <1>2. CASE Requeue(t)
    <2>1. msg' \in [Task -> MsgState]
      BY <1>2 DEF TypeOK, Requeue, MsgState
    <2> QED
      BY <1>2, <2>1 DEF TypeOK, Requeue
  <1>3. CASE ExpireResult(t)
    <2>1. result' \in [Task -> ResultState]
      BY <1>3 DEF TypeOK, ExpireResult, ResultState, Unfinished
    <2> QED
      BY <1>3, <2>1 DEF TypeOK, ExpireResult
  <1> QED
    BY <1>1, <1>2, <1>3 DEF BrokerNext

-----------------------------------------------------------------------------
(* A slot has a task exactly while it executes *)

\* A step of w that does not change which task it has.
LEMMA StaysBusy ==
  ASSUME TypeOK, Attempting, NEW w \in Worker, ~At(w, "idle"), NEW m,
         worker' = [worker EXCEPT ![w] = m],
         m.task = worker[w].task, m.pc # "idle"
  PROVE  Attempting'
  BY DEF TypeOK, Attempting, At

\* A step that sends w back for the next message.
LEMMA FallsIdle ==
  ASSUME TypeOK, Attempting, NEW w \in Worker, worker' = [worker EXCEPT ![w] = IdleWorker]
  PROVE  Attempting'
  BY NoTaskIsNoTask DEF TypeOK, Attempting, At, IdleWorker

LEMMA GotoStaysBusy ==
  ASSUME TypeOK, Attempting, NEW w \in Worker, ~At(w, "idle"), NEW pc, pc # "idle",
         Goto(w, pc)
  PROVE  Attempting'
  <1>1. worker[w] \in WorkerMem
    BY DEF TypeOK
  <1>2. worker' = [worker EXCEPT ![w] = [worker[w] EXCEPT !.pc = pc]]
    BY DEF Goto
  <1>3. /\ [worker[w] EXCEPT !.pc = pc].task = worker[w].task
        /\ [worker[w] EXCEPT !.pc = pc].pc # "idle"
    BY <1>1 DEF WorkerMem
  <1> QED
    BY <1>2, <1>3, StaysBusy

LEMMA MemStaysBusy ==
  ASSUME TypeOK, NEW w \in Worker, NEW pc
  PROVE  /\ Drop(w, pc).task = worker[w].task /\ Drop(w, pc).pc = pc
         /\ Drop(w, pc).owns = worker[w].owns
         /\ Holding(w, pc).task = worker[w].task /\ Holding(w, pc).pc = pc
         /\ Holding(w, pc).owns = worker[w].owns
         /\ Holding(w, pc).te = te[Mine(w)]
  BY DEF TypeOK, WorkerMem, Drop, Holding

LEMMA ExecuteAttempting ==
  ASSUME TypeOK, Attempting, NEW w \in Worker, Execute(w)
  PROVE  Attempting'
  <1>0. worker[w] \in WorkerMem
    BY DEF TypeOK
  <1>1. CASE LoadWf(w)
    <2>1. /\ worker'[w].task = worker[w].task
          /\ worker'[w].pc \in {"ok", "load_te"}
          /\ \A v \in Worker : v # w => worker'[v] = worker[v]
      BY <1>0, <1>1 DEF LoadWf, TypeOK, WorkerMem
    <2> QED
      BY <1>1, <2>1 DEF LoadWf, Attempting, At
  <1>2. CASE LoadTe(w) \/ ReloadTe(w)
    BY <1>2, MemStaysBusy, StaysBusy DEF LoadTe, ReloadTe, At
  <1>3. CASE MarkRunning(w)
    <2>1. /\ worker'[w].task = worker[w].task
          /\ worker'[w].pc \in {"log_wf", "refuse"}
          /\ \A v \in Worker : v # w => worker'[v] = worker[v]
      BY <1>0, <1>3 DEF MarkRunning, TypeOK, WorkerMem
    <2> QED
      BY <1>3, <2>1 DEF MarkRunning, Attempting, At
  <1>4. CASE Enter(w)
    <2>1. /\ worker'[w].task = worker[w].task
          /\ worker'[w].pc = "run"
          /\ \A v \in Worker : v # w => worker'[v] = worker[v]
      BY <1>0, <1>4 DEF Enter, TypeOK, WorkerMem
    <2> QED
      BY <1>4, <2>1 DEF Enter, Attempting, At
  <1>5. CASE Refuse(w) \/ FinalTe(w) \/ EnsureSave(w) \/ MarkFailedSaveTe(w)
    BY <1>5, MemStaysBusy, StaysBusy DEF Refuse, FinalTe, EnsureSave, MarkFailedSaveTe, At
  <1>6. CASE Ensure(w) \/ MarkFailedLoadTe(w)
    BY <1>6, MemStaysBusy, StaysBusy DEF Ensure, MarkFailedLoadTe, At
  <1>7. CASE \/ SaveWorker(w) \/ FirstLogWf(w) \/ FirstLogTe(w) \/ ClearHalt(w)
             \/ FinalWf(w) \/ MarkFailedLoadWf(w) \/ MarkFailedSaveWf(w) \/ StoreResult(w)
    BY <1>7, GotoStaysBusy DEF SaveWorker, FirstLogWf, FirstLogTe, ClearHalt, FinalWf,
       MarkFailedLoadWf, MarkFailedSaveWf, StoreResult, At
  <1>8. CASE Ack(w)
    BY <1>8, FallsIdle DEF Ack
  <1> QED
    BY <1>1, <1>2, <1>3, <1>4, <1>5, <1>6, <1>7, <1>8 DEF Execute

LEMMA WorkerAttempting ==
  ASSUME TypeOK, Attempting, NEW w \in Worker, WorkerNext(w)
  PROVE  Attempting'
  <1>1. CASE Receive(w)
    <2>1. PICK t \in Task :
            worker' = [worker EXCEPT ![w] =
                         [IdleWorker EXCEPT !.pc = "load_wf", !.task = t, !.owns = TRUE]]
      BY <1>1 DEF Receive
    <2> QED
      BY <2>1 DEF TypeOK, Attempting, At, IdleWorker
  <1>2. CASE Execute(w)
    BY <1>2, ExecuteAttempting
  <1>3. CASE LogWf(w) \/ LogTe(w)
    BY <1>3 DEF LogWf, LogTe, Attempting, At
  <1>4. CASE PollHalt(w)
    BY <1>4, GotoStaysBusy DEF PollHalt, At
  <1>5. CASE Raise(w) \/ GiveUp(w)
    BY <1>5, MemStaysBusy, StaysBusy DEF Raise, GiveUp, At
  <1>6. CASE Terminate(w) \/ Crash(w)
    BY <1>6, FallsIdle DEF Terminate, Crash
  <1>7. CASE Lapse(w)
    BY <1>7 DEF Lapse, TypeOK, WorkerMem, Attempting, At
  <1> QED
    BY <1>1, <1>2, <1>3, <1>4, <1>5, <1>6, <1>7 DEF WorkerNext

-----------------------------------------------------------------------------

\* Every step keeps every document, message and memory within its type, and a
\* slot's memory names a task exactly while the slot executes it.
LEMMA TypeStep == TypeOK /\ Attempting /\ [Next]_vars => TypeOK' /\ Attempting'
  <1> SUFFICES ASSUME TypeOK, Attempting, [Next]_vars
               PROVE  TypeOK' /\ Attempting'
    OBVIOUS
  <1> USE DEF db, broker, bounds
  <1>1. ASSUME NEW a \in Api, ApiNext(a)
        PROVE  TypeOK' /\ Attempting'
    <2>1. worker' = worker
      BY <1>1 DEF ApiNext, Prompt, PromptLoad, PromptFind, PromptAlive, PromptFail,
         PromptReset, PromptReject, PromptInsert, PromptDelay, PromptStoreId,
         Halt, HaltLoad, HaltFind, StopLoad, StopCheck, HaltSet,
         Reset, ResetLoad, ResetFind, ResetRevoke, ResetSave, ResetActive, ResetClearHalt,
         Edit, UpdateLoad, UpdateSave, DeleteLoad, DeleteDoc, ApiCrash
    <2> QED
      BY <1>1, <2>1, ApiType DEF Attempting, At
  <1>2. ASSUME NEW w \in Worker, WorkerNext(w)
        PROVE  TypeOK' /\ Attempting'
    <2>1. Attempting'
      BY <1>2, WorkerAttempting
    <2>2. CASE Receive(w)
      BY <2>1, <2>2, ReceiveType
    <2>3. CASE Execute(w)
      BY <2>1, <2>3, ExecuteType
    <2>4. CASE \/ LogWf(w) \/ LogTe(w) \/ PollHalt(w) \/ Raise(w)
               \/ Terminate(w) \/ Crash(w) \/ GiveUp(w) \/ Lapse(w)
      BY <2>1, <2>4, WorkerOtherType
    <2> QED
      BY <1>2, <2>2, <2>3, <2>4 DEF WorkerNext
  <1>3. ASSUME NEW t \in Task, BrokerNext(t)
        PROVE  TypeOK' /\ Attempting'
    <2>1. worker' = worker
      BY <1>3 DEF BrokerNext, Discard, Requeue, ExpireResult
    <2> QED
      BY <1>3, <2>1, BrokerType DEF Attempting, At
  <1>4. CASE HaltExpire
    BY <1>4 DEF HaltExpire, TypeOK, Attempting, At
  <1>5. CASE Forget
    BY <1>5 DEF Forget, TypeOK, Attempting, At
  <1>6. CASE UNCHANGED vars
    BY <1>6 DEF vars, TypeOK, Attempting, At
  <1> QED
    BY <1>1, <1>2, <1>3, <1>4, <1>5, <1>6 DEF Next

LEMMA InitType == Init => TypeOK
  BY DocTypes, IdleTypes DEF Init, TypeOK, WfStatus, MsgState, ResultState, Unfinished

\* Type correctness, with what it rests on: a slot that reads or writes "its"
\* TaskExecution (agent_task.py 53-76) does have one.
THEOREM TypeCorrect == Spec => [](TypeOK /\ Attempting)
  BY InitType, AttemptingInit, TypeStep, PTL DEF Spec

-----------------------------------------------------------------------------
(* What the steps of a slot leave of its memory and of the other slots *)

\* w goes on with the task it has, without touching the queue.
Works(w) ==
  /\ ~At(w, "idle")
  /\ worker'[w].pc # "idle"
  /\ worker'[w].task = worker[w].task
  /\ worker'[w].owns = worker[w].owns
  /\ \A v \in Worker : v # w => worker'[v] = worker[v]
  /\ msg' = msg /\ api' = api

LEMMA GotoWorks ==
  ASSUME TypeOK, NEW w \in Worker, NEW pc, Goto(w, pc)
  PROVE  /\ worker'[w].pc = pc
         /\ worker'[w].task = worker[w].task
         /\ worker'[w].owns = worker[w].owns
         /\ \A v \in Worker : v # w => worker'[v] = worker[v]
  BY DEF TypeOK, WorkerMem, Goto

LEMMA BecomesWorks ==
  ASSUME TypeOK, NEW w \in Worker, NEW m, worker' = [worker EXCEPT ![w] = m]
  PROVE  worker'[w] = m /\ \A v \in Worker : v # w => worker'[v] = worker[v]
  BY DEF TypeOK

LEMMA StepWorks ==
  ASSUME TypeOK, NEW w \in Worker, ~Ack(w),
         Execute(w) \/ PollHalt(w) \/ Raise(w) \/ GiveUp(w)
  PROVE  /\ Works(w)
         /\ worker'[w].pc = "save_worker" => LoadTe(w)
         /\ worker'[w].pc = "ack" => StoreResult(w)
  <1> USE DEF db, broker, bounds
  <1>0. worker[w] \in WorkerMem
    BY DEF TypeOK
  <1>1. CASE LoadWf(w)
    <2>1. /\ worker'[w].task = worker[w].task /\ worker'[w].owns = worker[w].owns
          /\ worker'[w].pc \in {"ok", "load_te"}
          /\ \A v \in Worker : v # w => worker'[v] = worker[v]
      BY <1>0, <1>1 DEF LoadWf, TypeOK, WorkerMem
    <2> QED
      BY <1>1, <2>1 DEF LoadWf, Works, At
  <1>2. CASE MarkRunning(w)
    <2>1. /\ worker'[w].task = worker[w].task /\ worker'[w].owns = worker[w].owns
          /\ worker'[w].pc \in {"log_wf", "refuse"}
          /\ \A v \in Worker : v # w => worker'[v] = worker[v]
      BY <1>0, <1>2 DEF MarkRunning, TypeOK, WorkerMem
    <2> QED
      BY <1>2, <2>1 DEF MarkRunning, Works, At
  <1>3. CASE Enter(w)
    <2>1. /\ worker'[w].task = worker[w].task /\ worker'[w].owns = worker[w].owns
          /\ worker'[w].pc = "run"
          /\ \A v \in Worker : v # w => worker'[v] = worker[v]
      BY <1>0, <1>3 DEF Enter, TypeOK, WorkerMem
    <2> QED
      BY <1>3, <2>1 DEF Enter, Works, At
  <1>4. CASE LoadTe(w) \/ ReloadTe(w)
    BY <1>4, MemStaysBusy, BecomesWorks DEF LoadTe, ReloadTe, Works, At
  <1>5. CASE Refuse(w) \/ FinalTe(w) \/ EnsureSave(w) \/ MarkFailedSaveTe(w)
    <2>1. PICK pc \in {"ensure", "final_wf", "ok", "error"} :
            worker' = [worker EXCEPT ![w] = Drop(w, pc)]
      BY <1>5 DEF Refuse, FinalTe, EnsureSave, MarkFailedSaveTe
    <2>2. /\ worker'[w] = Drop(w, pc)
          /\ \A v \in Worker : v # w => worker'[v] = worker[v]
      BY <2>1, BecomesWorks
    <2>3. ~At(w, "idle") /\ msg' = msg /\ api' = api
      BY <1>5 DEF Refuse, FinalTe, EnsureSave, MarkFailedSaveTe, At
    <2> QED
      BY <2>2, <2>3, MemStaysBusy DEF Works
  <1>6. CASE Ensure(w) \/ MarkFailedLoadTe(w)
    BY <1>6, MemStaysBusy, BecomesWorks DEF Ensure, MarkFailedLoadTe, Works, At
  <1>7. CASE Raise(w) \/ GiveUp(w)
    BY <1>7, MemStaysBusy, BecomesWorks DEF Raise, GiveUp, Works, At
  <1>8. CASE \/ SaveWorker(w) \/ FirstLogWf(w) \/ FirstLogTe(w) \/ ClearHalt(w)
             \/ PollHalt(w)
    BY <1>8, GotoWorks DEF SaveWorker, FirstLogWf, FirstLogTe, ClearHalt, PollHalt, Works, At
  <1>9. CASE \/ FinalWf(w) \/ MarkFailedLoadWf(w) \/ MarkFailedSaveWf(w) \/ StoreResult(w)
    BY <1>9, GotoWorks DEF FinalWf, MarkFailedLoadWf, MarkFailedSaveWf, StoreResult, Works, At
  <1> QED
    BY <1>1, <1>2, <1>3, <1>4, <1>5, <1>6, <1>7, <1>8, <1>9 DEF Execute

=============================================================================
