------------------------ MODULE WorkflowRunDelivery ------------------------
(* What the API, the broker and the workers together keep of a task's Celery *)
(* message: WorkflowRun implements TaskDelivery, and a prompt is refused     *)
(* only on account of a task that the queue still owes.                      *)
EXTENDS WorkflowRunTypes

Submitted(t) == msg[t] # "none"

\* A document exists from before its task is submitted, and carries a Celery id
\* only after.
Docs ==
  \A t \in Task :
    /\ Submitted(t) => te[t].status # "none"
    /\ te[t].celery_task_id => Submitted(t)

\* What a request has in memory agrees with what has been submitted.
Sound(a) ==
  /\ api[a].pc \in {"p_alive", "p_fail", "p_delay", "p_store"} => api[a].task \in Task
  /\ api[a].pc \in {"p_delay", "p_store"} => api[a].te.status # "none"
  /\ api[a].pc = "p_delay" =>
       ~Submitted(api[a].task) /\ te[api[a].task].status # "none"
  /\ api[a].pc \in {"p_alive", "p_store"} => Submitted(api[a].task)
  /\ api[a].pc = "p_fail" /\ api[a].te.celery_task_id => Submitted(api[a].task)
  /\ \A t \in Task : api[a].docs[t].celery_task_id => Submitted(t)

\* No two requests are about to submit the same task.
Distinct ==
  \A a, b \in Api :
    api[a].pc = "p_delay" /\ api[b].pc = "p_delay" /\ api[a].task = api[b].task => a = b

\* Workers execute submitted tasks only, and will not save a document that
\* does not exist.
Busy ==
  \A w \in Worker :
    /\ ~At(w, "idle") => Submitted(Mine(w))
    /\ At(w, "save_worker") => worker[w].te.status # "none"

\* The message of a task is with at most one worker, and then unacknowledged.
Owners ==
  \A w \in Worker : worker[w].owns =>
    /\ ~At(w, "idle")
    /\ msg[Mine(w)] = "unacked"
    /\ \A v \in Worker : worker[v].owns /\ Mine(v) = Mine(w) => v = w

DeliveryInv ==
  TypeOK /\ Attempting /\ Docs /\ (\A a \in Api : Sound(a)) /\ Distinct /\ Busy /\ Owners

LEMMA DeliveryInvInit == Init => DeliveryInv
  <1> SUFFICES ASSUME Init PROVE DeliveryInv
    OBVIOUS
  <1>1. TypeOK /\ Attempting
    BY InitType, AttemptingInit
  <1>2. Docs
    BY DEF Init, Docs, NoDoc, Submitted
  <1>3. \A a \in Api : Sound(a)
    BY DEF Init, Sound, IdleApi, NoDoc
  <1>4. Distinct
    BY DEF Init, Distinct, IdleApi
  <1>5. Busy /\ Owners
    BY DEF Init, Busy, Owners, IdleWorker, At
  <1> QED
    BY <1>1, <1>2, <1>3, <1>4, <1>5 DEF DeliveryInv

-----------------------------------------------------------------------------
(* How steps that only write documents, or only send messages, keep the parts *)

\* No document disappears.
Lasting == \A t \in Task : te[t].status # "none" => te'[t].status # "none"

LEMMA StatusChanged ==
  ASSUME NEW e \in TaskDoc, NEW s \in TeStatus
  PROVE  /\ [e EXCEPT !.status = s] \in TaskDoc
         /\ [e EXCEPT !.status = s].status = s
         /\ [e EXCEPT !.status = s].celery_task_id = e.celery_task_id
  BY DEF TaskDoc

LEMMA SaveKeepsDocs ==
  ASSUME TypeOK, Docs, NEW t \in Task, NEW d \in TaskDoc, d.status # "none",
         d.celery_task_id => Submitted(t),
         te' = [te EXCEPT ![t] = d], msg' = msg
  PROVE  Docs' /\ Lasting
  BY DEF TypeOK, Docs, Lasting, Submitted

\* A worker's document keeps its Celery id when its status changes.
LEMMA SaveTeKeepsDocs ==
  ASSUME TypeOK, Attempting, Docs, Busy, NEW w \in Worker, ~At(w, "idle"),
         NEW s \in TeStatus \ {"none"}, SaveTe(w, s), msg' = msg
  PROVE  Docs' /\ Lasting
  <1>1. Mine(w) \in Task /\ Submitted(Mine(w))
    BY DEF Attempting, Busy, Mine
  <1>2. TeAs(w, s) \in TaskDoc /\ TeAs(w, s).status # "none"
    <2>1. worker[w].te \in TaskDoc
      BY DEF TypeOK, WorkerMem
    <2> QED
      BY <2>1, TeAsType DEF TeAs, TaskDoc
  <1> QED
    BY <1>1, <1>2, SaveKeepsDocs DEF SaveTe

\* The requests that a step is not of.
LEMMA OthersSound ==
  ASSUME NEW b \in Api, Sound(b), api'[b] = api[b], Lasting,
         \A t \in Task : Submitted(t) => Submitted(t)',
         api[b].pc = "p_delay" => ~Submitted(api[b].task)'
  PROVE  Sound(b)'
  BY DEF Sound, Lasting

LEMMA NoSubmission ==
  ASSUME msg' = msg
  PROVE  \A t : Submitted(t)' <=> Submitted(t)
  BY DEF Submitted

\* Requests do not touch the workers' side, and workers not the requests'.
LEMMA WorkersUntouched ==
  ASSUME Busy, Owners, msg' = msg, worker' = worker
  PROVE  Busy' /\ Owners'
  BY DEF Busy, Owners, At, Mine, Submitted

LEMMA RequestsUntouched ==
  ASSUME \A a \in Api : Sound(a), Distinct, Lasting, api' = api,
         \A t \in Task : Submitted(t)' <=> Submitted(t)
  PROVE  (\A a \in Api : Sound(a)') /\ Distinct'
  <1>1. ASSUME NEW a \in Api
        PROVE  Sound(a)'
    <2>1. api[a].pc = "p_delay" => ~Submitted(api[a].task)'
      BY DEF Sound
    <2> QED
      BY <2>1, OthersSound
  <1>2. Distinct'
    BY DEF Distinct
  <1> QED
    BY <1>1, <1>2

-----------------------------------------------------------------------------
(* The steps of requests *)

\* A request that leaves the documents and the queue alone.
LEMMA QuietRequest ==
  ASSUME TypeOK, DeliveryInv, NEW a \in Api, Sound(a)',
         te' = te, msg' = msg, worker' = worker,
         \A b \in Api : b # a => api'[b] = api[b],
         api'[a].pc # "p_delay"
  PROVE  Docs' /\ (\A b \in Api : Sound(b)') /\ Distinct' /\ Busy' /\ Owners'
  <1>1. Docs' /\ Lasting
    BY DEF DeliveryInv, Docs, Lasting, Submitted
  <1>2. ASSUME NEW b \in Api, b # a
        PROVE  Sound(b)'
    <2>1. api[b].pc = "p_delay" => ~Submitted(api[b].task)'
      BY <1>2 DEF DeliveryInv, Sound, Submitted
    <2> QED
      BY <1>1, <1>2, <2>1, OthersSound, NoSubmission DEF DeliveryInv
  <1>3. Distinct'
    BY DEF DeliveryInv, Distinct
  <1> QED
    BY <1>1, <1>2, <1>3, WorkersUntouched DEF DeliveryInv

\* A request whose memory is empty again is sound.
LEMMA DoneIsSound ==
  ASSUME TypeOK, NEW a \in Api, ApiDone(a)
  PROVE  /\ Sound(a)' /\ api'[a].pc # "p_delay"
         /\ \A b \in Api : b # a => api'[b] = api[b]
  BY DEF TypeOK, ApiDone, Sound, IdleApi, NoDoc

\* ... and so is one that moves to a place where its task and its document do
\* not matter.
LEMMA GotoIsSound ==
  ASSUME TypeOK, NEW a \in Api, Sound(a), msg' = msg, NEW pc \in ApiPc, ApiGoto(a, pc),
         pc \notin {"p_alive", "p_fail", "p_delay", "p_store"}
  PROVE  /\ Sound(a)' /\ api'[a].pc # "p_delay"
         /\ \A b \in Api : b # a => api'[b] = api[b]
  <1>1. api[a] \in ApiMem
    BY DEF TypeOK
  <1>2. api'[a] = [api[a] EXCEPT !.pc = pc]
    BY DEF TypeOK, ApiGoto
  <1>3. api'[a].pc = pc /\ api'[a].docs = api[a].docs
    BY <1>1, <1>2 DEF ApiMem
  <1>4. \A b \in Api : b # a => api'[b] = api[b]
    BY DEF TypeOK, ApiGoto
  <1> QED
    BY <1>3, <1>4, NoSubmission DEF Sound

\* A request that reads documents or moves on, without writing any.
LEMMA ReadingRequest ==
  ASSUME DeliveryInv, NEW a \in Api,
         \/ PromptLoad(a) \/ PromptFind(a) \/ PromptAlive(a) \/ PromptReset(a)
         \/ PromptReject(a) \/ Halt(a) \/ ResetLoad(a) \/ ResetFind(a)
         \/ ResetRevoke(a) \/ ResetActive(a) \/ ResetClearHalt(a)
         \/ Edit(a) \/ ApiCrash(a)
  PROVE  Docs' /\ (\A b \in Api : Sound(b)') /\ Distinct' /\ Busy' /\ Owners'
  <1> USE DEF db, broker, bounds
  <1>0. TypeOK /\ Docs /\ Sound(a) /\ api[a] \in ApiMem
    BY DEF DeliveryInv, TypeOK
  <1>1. te' = te /\ msg' = msg /\ worker' = worker
    BY DEF PromptLoad, PromptFind, PromptAlive, PromptReset, PromptReject,
       Halt, HaltLoad, HaltFind, StopLoad, StopCheck, HaltSet,
       ResetLoad, ResetFind, ResetRevoke, ResetActive, ResetClearHalt,
       Edit, UpdateLoad, UpdateSave, DeleteLoad, DeleteDoc, ApiCrash
  <1> SUFFICES /\ Sound(a)' /\ api'[a].pc # "p_delay"
               /\ \A b \in Api : b # a => api'[b] = api[b]
    BY <1>0, <1>1, QuietRequest
  <1>2. CASE PromptFind(a)
    <2>1. CASE ApiGoto(a, "p_reset")
      BY <1>0, <1>1, <2>1, GotoIsSound DEF ApiPc
    <2>2. CASE \E t \in RunningTasks :
                 api' = [api EXCEPT
                   ![a].pc = IF te[t].celery_task_id THEN "p_alive" ELSE "p_fail",
                   ![a].task = t, ![a].te = te[t]]
      <3>1. PICK t \in RunningTasks :
                 api' = [api EXCEPT
                   ![a].pc = IF te[t].celery_task_id THEN "p_alive" ELSE "p_fail",
                   ![a].task = t, ![a].te = te[t]]
        BY <2>2
      <3>2. t \in Task
        BY DEF RunningTasks
      <3>3. /\ api'[a].task = t /\ api'[a].te = te[t] /\ api'[a].docs = api[a].docs
            /\ api'[a].pc \in {"p_alive", "p_fail"}
            /\ api'[a].pc = "p_alive" => te[t].celery_task_id
            /\ \A b \in Api : b # a => api'[b] = api[b]
        BY <1>0, <3>1 DEF TypeOK, ApiMem
      <3> QED
        BY <1>0, <1>1, <3>2, <3>3, NoSubmission DEF Sound, Docs
    <2> QED
      BY <1>2, <2>1, <2>2 DEF PromptFind
  <1>3. CASE PromptAlive(a)
    <2>1. CASE ApiDone(a)
      BY <1>0, <2>1, DoneIsSound
    <2>2. CASE ApiGoto(a, "p_fail")
      <3>1. /\ api'[a].task = api[a].task /\ api'[a].te = api[a].te
            /\ api'[a].docs = api[a].docs /\ api'[a].pc = "p_fail"
            /\ \A b \in Api : b # a => api'[b] = api[b]
        BY <1>0, <2>2 DEF TypeOK, ApiMem, ApiGoto
      <3> QED
        BY <1>0, <1>1, <1>3, <3>1, NoSubmission DEF Sound, PromptAlive
    <2> QED
      BY <1>3, <2>1, <2>2 DEF PromptAlive
  <1>4. CASE HaltFind(a) \/ StopLoad(a) \/ UpdateLoad(a)
    <2>1. CASE ApiDone(a)
      BY <1>0, <2>1, DoneIsSound
    <2>2. CASE ~ApiDone(a)
      <3>1. /\ api'[a].pc \in {"h_set", "s_wf", "u_save"} /\ api'[a].docs = api[a].docs
            /\ \A b \in Api : b # a => api'[b] = api[b]
        <4>1. CASE HaltFind(a)
          BY <1>0, <2>2, <4>1 DEF HaltFind, TypeOK, ApiMem
        <4>2. CASE StopLoad(a)
          <5>1. PICK t \in Task :
                  api' = [api EXCEPT ![a].pc = "s_wf", ![a].meant = {t}, ![a].te = te[t]]
            BY <4>2 DEF StopLoad
          <5> QED
            BY <1>0, <5>1 DEF TypeOK, ApiMem
        <4>3. CASE UpdateLoad(a)
          BY <1>0, <4>3 DEF UpdateLoad, TypeOK, ApiMem
        <4> QED
          BY <1>4, <4>1, <4>2, <4>3
      <3> QED
        BY <1>0, <1>1, <3>1, NoSubmission DEF Sound
    <2> QED
      BY <2>1, <2>2
  <1>5. CASE ResetFind(a)
    <2> DEFINE found == [t \in Task |-> IF t \in RunningTasks THEN te[t] ELSE NoDoc]
    <2>1. \A t \in Task : found[t].celery_task_id => Submitted(t)
      BY <1>0 DEF Docs, NoDoc
    <2>2. api' = [api EXCEPT ![a].pc = "r_task", ![a].todo = RunningTasks, ![a].docs = found]
      BY <1>5 DEF ResetFind
    <2> HIDE DEF found
    <2>3. /\ api'[a].pc = "r_task" /\ api'[a].docs = found
          /\ \A b \in Api : b # a => api'[b] = api[b]
      BY <1>0, <2>2 DEF TypeOK, ApiMem
    <2> QED
      BY <1>1, <2>1, <2>3, NoSubmission DEF Sound
  <1>6. CASE ResetRevoke(a)
    <2>1. /\ api'[a].pc = "r_save" /\ api'[a].docs = api[a].docs
          /\ \A b \in Api : b # a => api'[b] = api[b]
      <3>1. PICK t \in api[a].todo : api' = [api EXCEPT ![a].pc = "r_save", ![a].task = t]
        BY <1>6 DEF ResetRevoke
      <3> QED
        BY <1>0, <3>1 DEF TypeOK, ApiMem
    <2> QED
      BY <1>0, <1>1, <2>1, NoSubmission DEF Sound
  <1>7. CASE \/ PromptReject(a) \/ HaltSet(a) \/ ResetClearHalt(a) \/ UpdateSave(a)
             \/ DeleteDoc(a) \/ ApiCrash(a)
    BY <1>0, <1>7, DoneIsSound
       DEF PromptReject, HaltSet, ResetClearHalt, UpdateSave, DeleteDoc, ApiCrash
  <1>8. CASE PromptLoad(a) \/ PromptReset(a) \/ ResetLoad(a) \/ ResetActive(a)
    BY <1>0, <1>1, <1>8, GotoIsSound
       DEF PromptLoad, PromptReset, ResetLoad, ResetActive, ApiPc
  <1>9. CASE HaltLoad(a) \/ DeleteLoad(a)
    BY <1>0, <1>1, <1>9, GotoIsSound DEF HaltLoad, DeleteLoad, ApiPc
  <1>10. CASE StopCheck(a)
    BY <1>0, <1>1, <1>10, GotoIsSound, DoneIsSound DEF StopCheck, ApiPc
  <1> QED
    BY <1>2, <1>3, <1>4, <1>5, <1>6, <1>7, <1>8, <1>9, <1>10 DEF Halt, Edit

\* A request that writes a document but submits nothing.
LEMMA SavingRequest ==
  ASSUME DeliveryInv, NEW a \in Api, Docs', Lasting, Sound(a)', Distinct',
         msg' = msg, worker' = worker,
         \A b \in Api : b # a => api'[b] = api[b]
  PROVE  Docs' /\ (\A b \in Api : Sound(b)') /\ Distinct' /\ Busy' /\ Owners'
  <1>1. ASSUME NEW b \in Api, b # a
        PROVE  Sound(b)'
    <2>1. api[b].pc = "p_delay" => ~Submitted(api[b].task)'
      BY <1>1 DEF DeliveryInv, Sound, Submitted
    <2> QED
      BY <1>1, <2>1, OthersSound, NoSubmission DEF DeliveryInv
  <1> QED
    BY <1>1, WorkersUntouched DEF DeliveryInv

LEMMA WritingRequest ==
  ASSUME DeliveryInv, NEW a \in Api,
         PromptFail(a) \/ PromptInsert(a) \/ PromptStoreId(a) \/ ResetSave(a)
  PROVE  Docs' /\ (\A b \in Api : Sound(b)') /\ Distinct' /\ Busy' /\ Owners'
  <1> USE DEF db, broker, bounds
  <1>0. /\ TypeOK /\ Docs /\ Sound(a) /\ Distinct /\ api[a] \in ApiMem
        /\ api[a].te \in TaskDoc /\ api[a].docs \in [Task -> TaskDoc]
    BY DEF DeliveryInv, TypeOK, ApiMem
  <1>1. msg' = msg /\ worker' = worker
    BY DEF PromptFail, PromptInsert, PromptStoreId, ResetSave
  <1>2. CASE PromptFail(a)
    <2> DEFINE d == [api[a].te EXCEPT !.status = "failed"]
    <2>1. d \in TaskDoc /\ d.status = "failed" /\ d.celery_task_id = api[a].te.celery_task_id
      <3>1. "failed" \in TeStatus
        BY DEF TeStatus
      <3> QED
        BY <1>0, <3>1, StatusChanged
    <2>2. /\ api[a].task \in Task
          /\ d.celery_task_id => Submitted(api[a].task)
          /\ te' = [te EXCEPT ![api[a].task] = d]
      BY <1>0, <1>2, <2>1 DEF PromptFail, Sound
    <2> HIDE DEF d
    <2>3. Docs' /\ Lasting
      BY <1>0, <1>1, <2>1, <2>2, SaveKeepsDocs
    <2>4. /\ api'[a].pc = "p_reset" /\ api'[a].docs = api[a].docs
          /\ \A b \in Api : b # a => api'[b] = api[b]
      BY <1>0, <1>2 DEF PromptFail, TypeOK, ApiMem
    <2>5. Sound(a)'
      BY <1>0, <1>1, <2>4, NoSubmission DEF Sound
    <2>6. Distinct'
      BY <1>0, <2>4 DEF Distinct
    <2> QED
      BY <1>1, <2>3, <2>4, <2>5, <2>6, SavingRequest
  <1>3. CASE PromptInsert(a)
    <2>1. PICK t \in Task :
            /\ te[t].status = "none"
            /\ te' = [te EXCEPT ![t].status = "pending"]
            /\ api' = [api EXCEPT ![a].pc = "p_delay", ![a].task = t, ![a].te = te'[t]]
      BY <1>3 DEF PromptInsert
    <2> DEFINE d == [te[t] EXCEPT !.status = "pending"]
    <2>2. /\ d \in TaskDoc /\ d.status = "pending"
          /\ d.celery_task_id = te[t].celery_task_id
      BY <1>0 DEF TypeOK, TaskDoc, TeStatus
    <2>3. te' = [te EXCEPT ![t] = d] /\ ~Submitted(t) /\ ~te[t].celery_task_id
      BY <1>0, <2>1 DEF Docs
    <2> HIDE DEF d
    <2>4. Docs' /\ Lasting
      BY <1>0, <1>1, <2>2, <2>3, SaveKeepsDocs
    <2>5. /\ api'[a].pc = "p_delay" /\ api'[a].docs = api[a].docs /\ api'[a].task = t
          /\ api'[a].te = d /\ te'[t] = d
          /\ \A b \in Api : b # a => api'[b] = api[b]
      BY <1>0, <2>1, <2>3 DEF TypeOK, ApiMem
    <2>6. Sound(a)'
      BY <1>0, <1>1, <2>2, <2>3, <2>5 DEF Sound, Submitted
    <2>7. Distinct'
      <3>1. \A b \in Api : api[b].pc = "p_delay" => api[b].task # t
        BY <2>1 DEF DeliveryInv, Sound
      <3> QED
        BY <1>0, <2>5, <3>1 DEF Distinct
    <2> QED
      BY <1>1, <2>4, <2>5, <2>6, <2>7, SavingRequest
  <1>4. CASE PromptStoreId(a)
    <2> DEFINE d == [api[a].te EXCEPT !.celery_task_id = TRUE]
    <2>1. d \in TaskDoc /\ d.status = api[a].te.status
      BY <1>0, DocTypes DEF TaskDoc
    <2>2. /\ api[a].task \in Task /\ Submitted(api[a].task) /\ api[a].te.status # "none"
          /\ te' = [te EXCEPT ![api[a].task] = d]
      BY <1>0, <1>4 DEF PromptStoreId, Sound
    <2> HIDE DEF d
    <2>3. Docs' /\ Lasting
      BY <1>0, <1>1, <2>1, <2>2, SaveKeepsDocs
    <2>4. /\ Sound(a)' /\ api'[a].pc # "p_delay"
          /\ \A b \in Api : b # a => api'[b] = api[b]
      BY <1>0, <1>4, DoneIsSound DEF PromptStoreId
    <2>5. Distinct'
      BY <1>0, <2>4 DEF Distinct
    <2> QED
      BY <1>1, <2>3, <2>4, <2>5, SavingRequest
  <1>5. CASE ResetSave(a)
    <2> DEFINE t == api[a].task
    <2> DEFINE d == [api[a].docs[t] EXCEPT !.status = "failed"]
    <2>1. Docs' /\ Lasting
      <3>1. CASE t \in Task
        <4>1. /\ d \in TaskDoc /\ d.status = "failed"
              /\ d.celery_task_id = api[a].docs[t].celery_task_id
          <5>1. api[a].docs[t] \in TaskDoc
            BY <1>0, <3>1
          <5>2. "failed" \in TeStatus
            BY DEF TeStatus
          <5> QED
            BY <5>1, <5>2, StatusChanged
        <4>2. d.celery_task_id => Submitted(t)
          BY <1>0, <3>1, <4>1 DEF Sound
        <4>3. te' = [te EXCEPT ![t] = d]
          BY <1>5 DEF ResetSave
        <4> HIDE DEF d
        <4> QED
          BY <1>0, <1>1, <3>1, <4>1, <4>2, <4>3, SaveKeepsDocs
      <3>2. CASE t \notin Task
        <4>1. te' = te
          BY <1>0, <1>5, <3>2 DEF ResetSave, TypeOK
        <4> QED
          BY <1>0, <1>1, <4>1 DEF Docs, Lasting, Submitted
      <3> QED
        BY <3>1, <3>2
    <2>2. /\ api'[a].pc = "r_task" /\ api'[a].docs = [api[a].docs EXCEPT ![t] = NoDoc]
          /\ \A b \in Api : b # a => api'[b] = api[b]
      BY <1>0, <1>5 DEF ResetSave, TypeOK, ApiMem
    <2>3. \A u \in Task : api'[a].docs[u].celery_task_id => api[a].docs[u].celery_task_id
      BY <1>0, <2>2 DEF NoDoc
    <2>4. Sound(a)'
      BY <1>0, <1>1, <2>2, <2>3, NoSubmission DEF Sound
    <2>5. Distinct'
      BY <1>0, <2>2 DEF Distinct
    <2> QED
      BY <1>1, <2>1, <2>2, <2>4, <2>5, SavingRequest
  <1> QED
    BY <1>2, <1>3, <1>4, <1>5

LEMMA SubmittingRequest ==
  ASSUME DeliveryInv, NEW a \in Api, PromptDelay(a)
  PROVE  Docs' /\ (\A b \in Api : Sound(b)') /\ Distinct' /\ Busy' /\ Owners'
  <1> DEFINE t == api[a].task
  <1>0. /\ TypeOK /\ Docs /\ Sound(a) /\ Distinct /\ Busy /\ Owners
        /\ api[a] \in ApiMem /\ msg \in [Task -> MsgState]
    BY DEF DeliveryInv, TypeOK
  <1>1. /\ te' = te /\ worker' = worker /\ msg' = [msg EXCEPT ![t] = "queued"]
        /\ api[a].pc = "p_delay"
    BY DEF PromptDelay, db
  <1>2. t \in Task /\ ~Submitted(t) /\ te[t].status # "none" /\ api[a].te.status # "none"
    BY <1>0, <1>1 DEF Sound
  <1>3. /\ \A u \in Task : u # t => msg'[u] = msg[u]
        /\ msg'[t] = "queued"
    BY <1>0, <1>1, <1>2
  <1>4. /\ api'[a].pc = "p_store" /\ api'[a].task = t /\ api'[a].te = api[a].te
        /\ api'[a].docs = api[a].docs
        /\ \A b \in Api : b # a => api'[b] = api[b]
    BY <1>0 DEF PromptDelay, ApiGoto, TypeOK, ApiMem
  <1>5. Docs'
    BY <1>0, <1>1, <1>2, <1>3 DEF Docs, Submitted
  <1>6. ASSUME NEW b \in Api, b # a
        PROVE  Sound(b)'
    <2>1. api[b].pc = "p_delay" => api[b].task # t /\ api[b].task \in Task
      BY <1>0, <1>1, <1>6 DEF Distinct, DeliveryInv, Sound
    <2>2. api[b].pc = "p_delay" => ~Submitted(api[b].task)'
      BY <1>3, <1>4, <1>6, <2>1 DEF DeliveryInv, Sound, Submitted
    <2>3. \A u \in Task : Submitted(u) => Submitted(u)'
      BY <1>3 DEF Submitted
    <2>4. Lasting
      BY <1>1 DEF Lasting
    <2> QED
      BY <1>4, <1>6, <2>2, <2>3, <2>4, OthersSound DEF DeliveryInv
  <1>7. Sound(a)'
    BY <1>0, <1>1, <1>2, <1>3, <1>4 DEF Sound, Submitted
  <1>8. Distinct'
    BY <1>0, <1>4 DEF Distinct
  <1>9. Busy'
    <2>1. \A w \in Worker : ~At(w, "idle") => Mine(w) \in Task
      BY DEF DeliveryInv, Attempting, Mine
    <2> QED
      BY <1>0, <1>1, <1>3, <2>1 DEF Busy, Submitted, At, Mine
  <1>10. Owners'
    <2>1. \A w \in Worker : worker[w].owns => Mine(w) \in Task /\ Mine(w) # t
      BY <1>0, <1>2 DEF DeliveryInv, Attempting, Owners, Submitted, Mine
    <2> QED
      BY <1>0, <1>1, <1>3, <2>1 DEF Owners, At, Mine
  <1> QED
    BY <1>5, <1>6, <1>7, <1>8, <1>9, <1>10

-----------------------------------------------------------------------------
(* The steps of workers *)

\* The documents while w works.
LEMMA StepKeepsDocs ==
  ASSUME DeliveryInv, NEW w \in Worker, ~Ack(w),
         Execute(w) \/ PollHalt(w) \/ Raise(w) \/ GiveUp(w) \/ LogWf(w) \/ LogTe(w)
  PROVE  Docs' /\ Lasting
  <1> USE DEF db, broker, bounds
  <1>0. TypeOK /\ Attempting /\ Docs /\ Busy
    BY DEF DeliveryInv
  <1>1. msg' = msg
    BY DEF Execute, LoadWf, LoadTe, SaveWorker, ReloadTe, MarkRunning, Refuse, FirstLogWf,
       FirstLogTe, Enter, ClearHalt, FinalTe, FinalWf, Ensure, EnsureSave, MarkFailedLoadWf,
       MarkFailedSaveWf, MarkFailedLoadTe, MarkFailedSaveTe, StoreResult, PollHalt, Raise,
       GiveUp, LogWf, LogTe
  <1>2. CASE te' = te
    BY <1>0, <1>1, <1>2 DEF Docs, Lasting, Submitted
  <1>3. CASE SaveWorker(w)
    <2>1. /\ Mine(w) \in Task /\ Submitted(Mine(w)) /\ worker[w].te.status # "none"
          /\ te' = [te EXCEPT ![Mine(w)] = worker[w].te]
      BY <1>0, <1>3 DEF SaveWorker, Attempting, Busy, At, Mine
    <2>2. worker[w].te \in TaskDoc
      BY <1>0 DEF TypeOK, WorkerMem
    <2> QED
      BY <1>0, <1>1, <2>1, <2>2, SaveKeepsDocs
  <1>4. ASSUME NEW s \in TeStatus \ {"none"}, SaveTe(w, s), ~At(w, "idle")
        PROVE  Docs' /\ Lasting
    BY <1>0, <1>1, <1>4, SaveTeKeepsDocs
  <1>5. CASE \/ MarkRunning(w) \/ Refuse(w) \/ FirstLogTe(w) \/ EnsureSave(w)
             \/ MarkFailedSaveTe(w) \/ LogTe(w)
    BY <1>4, <1>5 DEF MarkRunning, Refuse, FirstLogTe, EnsureSave, MarkFailedSaveTe, LogTe,
       Logging, At, TeStatus
  <1>6. CASE FinalTe(w)
    <2>1. ~At(w, "idle")
      BY <1>6 DEF FinalTe, At
    <2>2. PICK o \in TeStatus :
            o \in Outcome \cup {"halted", "failed"} /\ SaveTe(w, o)
      BY <1>6 DEF FinalTe
    <2>3. o # "none"
      BY <2>2 DEF Outcome
    <2> QED
      BY <1>4, <2>1, <2>2, <2>3
  <1> QED
    BY <1>2, <1>3, <1>5, <1>6
       DEF Execute, LoadWf, LoadTe, ReloadTe, FirstLogWf, Enter, ClearHalt, FinalWf, Ensure,
       MarkFailedLoadWf, MarkFailedSaveWf, MarkFailedLoadTe, StoreResult, Ack, PollHalt,
       Raise, GiveUp, LogWf

LEMMA WorkingSlot ==
  ASSUME DeliveryInv, NEW w \in Worker, Works(w), Docs', Lasting,
         worker'[w].pc = "save_worker" => worker'[w].te.status # "none"
  PROVE  Docs' /\ (\A b \in Api : Sound(b)') /\ Distinct' /\ Busy' /\ Owners'
  <1>1. (\A b \in Api : Sound(b)') /\ Distinct'
    BY RequestsUntouched, NoSubmission DEF DeliveryInv, Works
  <1>2. Busy'
    BY DEF DeliveryInv, Works, Busy, At, Mine, Submitted
  <1>3. Owners'
    BY DEF DeliveryInv, Works, Owners, At, Mine
  <1> QED
    BY <1>1, <1>2, <1>3

\* A slot that stops: it acknowledges, is terminated, or dies.
LEMMA StoppingSlot ==
  ASSUME DeliveryInv, NEW w \in Worker, ~At(w, "idle"),
         worker' = [worker EXCEPT ![w] = IdleWorker],
         msg' = Settled(w) \/ msg' = msg, te' = te, api' = api
  PROVE  Docs' /\ (\A b \in Api : Sound(b)') /\ Distinct' /\ Busy' /\ Owners'
  <1>0. /\ TypeOK /\ Attempting /\ Docs /\ Distinct /\ Busy /\ Owners
        /\ msg \in [Task -> MsgState]
    BY DEF DeliveryInv, TypeOK
  <1>1. /\ worker'[w] = IdleWorker
        /\ \A v \in Worker : v # w => worker'[v] = worker[v]
    BY <1>0, BecomesWorks
  <1>2. Mine(w) \in Task /\ Submitted(Mine(w))
    BY <1>0 DEF Attempting, Busy, Mine
  <1>3. /\ \A t \in Task : msg'[t] = msg[t] \/ (t = Mine(w) /\ worker[w].owns /\ msg'[t] = "done")
        /\ \A t \in Task : Submitted(t)' <=> Submitted(t)
    BY <1>0, <1>2 DEF Settled, Submitted
  <1>4. Docs' /\ Lasting
    BY <1>0, <1>3 DEF Docs, Lasting
  <1>5. (\A b \in Api : Sound(b)') /\ Distinct'
    BY <1>3, <1>4, RequestsUntouched DEF DeliveryInv
  <1>6. Busy'
    <2>1. ASSUME NEW v \in Worker, v # w
          PROVE  (At(v, "idle") \/ Submitted(Mine(v)))' /\ (At(v, "save_worker") => worker[v].te.status # "none")'
      <3>1. ~At(v, "idle") => Mine(v) \in Task
        BY <1>0 DEF Attempting, Mine
      <3> QED
        BY <1>0, <1>1, <1>3, <2>1, <3>1 DEF Busy, At, Mine, Submitted
    <2>2. At(w, "idle")' /\ ~At(w, "save_worker")'
      BY <1>1 DEF At, IdleWorker
    <2> QED
      BY <2>1, <2>2 DEF Busy
  <1>7. Owners'
    <2>1. ~worker'[w].owns
      BY <1>1 DEF IdleWorker
    <2>2. ASSUME NEW v \in Worker, v # w, worker[v].owns
          PROVE  msg'[Mine(v)] = "unacked" /\ Mine(v) \in Task
      <3>1. Mine(v) \in Task /\ msg[Mine(v)] = "unacked"
        BY <1>0, <2>2 DEF Owners, Attempting, Mine
      <3>2. worker[w].owns => Mine(v) # Mine(w)
        BY <1>0, <2>2 DEF Owners
      <3> QED
        BY <1>3, <3>1, <3>2
    <2> QED
      BY <1>0, <1>1, <2>1, <2>2 DEF Owners, At, Mine
  <1> QED
    BY <1>4, <1>5, <1>6, <1>7

LEMMA SlotInv ==
  ASSUME DeliveryInv, NEW w \in Worker, WorkerNext(w)
  PROVE  Docs' /\ (\A b \in Api : Sound(b)') /\ Distinct' /\ Busy' /\ Owners'
  <1> USE DEF db, broker, bounds
  <1>0. /\ TypeOK /\ Attempting /\ Docs /\ Distinct /\ Busy /\ Owners
        /\ msg \in [Task -> MsgState]
    BY DEF DeliveryInv, TypeOK
  <1>1. CASE Receive(w)
    <2>1. PICK t \in Task :
            /\ msg[t] = "queued"
            /\ msg' = [msg EXCEPT ![t] = "unacked"]
            /\ worker' = [worker EXCEPT ![w] =
                            [IdleWorker EXCEPT !.pc = "load_wf", !.task = t, !.owns = TRUE]]
      BY <1>1 DEF Receive
    <2>2. /\ worker'[w].pc = "load_wf" /\ worker'[w].task = t /\ worker'[w].owns
          /\ \A v \in Worker : v # w => worker'[v] = worker[v]
      BY <1>0, <2>1 DEF TypeOK, IdleWorker
    <2>3. /\ msg'[t] = "unacked" /\ \A u \in Task : u # t => msg'[u] = msg[u]
          /\ \A u \in Task : Submitted(u)' <=> Submitted(u)
      BY <1>0, <2>1 DEF Submitted
    <2>4. te' = te /\ api' = api
      BY <1>1 DEF Receive
    <2>5. Docs' /\ Lasting
      BY <1>0, <2>3, <2>4 DEF Docs, Lasting
    <2>6. (\A b \in Api : Sound(b)') /\ Distinct'
      BY <2>3, <2>4, <2>5, RequestsUntouched DEF DeliveryInv
    <2>7. Busy'
      <3>1. \A v \in Worker : ~At(v, "idle") => Mine(v) \in Task
        BY <1>0 DEF Attempting, Mine
      <3> QED
        BY <1>0, <2>1, <2>2, <2>3, <3>1 DEF Busy, At, Mine, Submitted
    <2>8. Owners'
      <3>1. \A v \in Worker : worker[v].owns => Mine(v) \in Task /\ Mine(v) # t
        BY <1>0, <2>1 DEF Owners, Attempting, Mine
      <3> QED
        BY <1>0, <2>2, <2>3, <3>1 DEF Owners, At, Mine
    <2> QED
      BY <2>5, <2>6, <2>7, <2>8
  <1>2. CASE Ack(w) \/ Terminate(w) \/ Crash(w)
    <2>1. /\ ~At(w, "idle") /\ worker' = [worker EXCEPT ![w] = IdleWorker]
          /\ msg' = Settled(w) \/ msg' = msg
          /\ te' = te /\ api' = api
      BY <1>2 DEF Ack, Terminate, Crash, At
    <2> QED
      BY <2>1, StoppingSlot
  <1>3. CASE LogWf(w) \/ LogTe(w)
    <2>1. Works(w) /\ worker' = worker /\ ~Ack(w)
      BY <1>3 DEF LogWf, LogTe, Logging, Works, At, Ack
    <2>2. worker'[w].pc # "save_worker"
      BY <1>3, <2>1 DEF LogWf, LogTe, Logging
    <2> QED
      BY <1>3, <2>1, <2>2, StepKeepsDocs, WorkingSlot
  <1>4. CASE ~Ack(w) /\ (Execute(w) \/ PollHalt(w) \/ Raise(w) \/ GiveUp(w))
    <2>1. Works(w) /\ (worker'[w].pc = "save_worker" => LoadTe(w))
      BY <1>0, <1>4, StepWorks
    <2>2. LoadTe(w) => worker'[w].te.status # "none"
      <3>1. SUFFICES ASSUME LoadTe(w) PROVE worker'[w].te.status # "none"
        OBVIOUS
      <3>2. worker'[w].te = te[Mine(w)]
        <4>1. worker'[w] = Holding(w, "save_worker")
          BY <1>0, <3>1 DEF LoadTe, TypeOK
        <4>2. Holding(w, "save_worker").te = te[Mine(w)]
          BY <1>0, MemStaysBusy
        <4> QED
          BY <4>1, <4>2
      <3>3. Mine(w) \in Task /\ Submitted(Mine(w))
        BY <1>0, <3>1 DEF LoadTe, At, Attempting, Busy, Mine
      <3> QED
        BY <1>0, <3>2, <3>3 DEF Docs
    <2> QED
      BY <1>4, <2>1, <2>2, StepKeepsDocs, WorkingSlot
  <1>5. CASE Lapse(w)
    <2>1. /\ worker[w].owns /\ Mine(w) \in Task /\ msg[Mine(w)] = "unacked"
      BY <1>0, <1>5 DEF Lapse, Owners, Attempting, Mine
    <2>2. /\ worker'[w].pc = worker[w].pc /\ worker'[w].task = worker[w].task
          /\ worker'[w].te = worker[w].te /\ ~worker'[w].owns
          /\ \A v \in Worker : v # w => worker'[v] = worker[v]
      BY <1>0, <1>5 DEF Lapse, TypeOK, WorkerMem
    <2>3. /\ msg'[Mine(w)] = "queued" /\ \A u \in Task : u # Mine(w) => msg'[u] = msg[u]
          /\ \A u \in Task : Submitted(u)' <=> Submitted(u)
      BY <1>0, <1>5, <2>1 DEF Lapse, Submitted
    <2>4. te' = te /\ api' = api
      BY <1>5 DEF Lapse
    <2>5. Docs' /\ Lasting
      BY <1>0, <2>3, <2>4 DEF Docs, Lasting
    <2>6. (\A b \in Api : Sound(b)') /\ Distinct'
      BY <2>3, <2>4, <2>5, RequestsUntouched DEF DeliveryInv
    <2>7. Busy'
      <3>1. \A v \in Worker : ~At(v, "idle") => Mine(v) \in Task
        BY <1>0 DEF Attempting, Mine
      <3> QED
        BY <1>0, <2>2, <2>3, <3>1 DEF Busy, At, Mine, Submitted
    <2>8. Owners'
      <3>1. \A v \in Worker : worker[v].owns =>
              Mine(v) \in Task /\ (v # w => Mine(v) # Mine(w))
        BY <1>0, <2>1 DEF Owners, Attempting, Mine
      <3> QED
        BY <1>0, <2>2, <2>3, <3>1 DEF Owners, At, Mine
    <2> QED
      BY <2>5, <2>6, <2>7, <2>8
  <1> QED
    BY <1>1, <1>2, <1>3, <1>4, <1>5 DEF WorkerNext

-----------------------------------------------------------------------------
(* The steps of the broker, and all together *)

LEMMA BrokerInv ==
  ASSUME DeliveryInv, NEW t \in Task, BrokerNext(t)
  PROVE  Docs' /\ (\A b \in Api : Sound(b)') /\ Distinct' /\ Busy' /\ Owners'
  <1> USE DEF db, bounds
  <1>0. /\ TypeOK /\ Attempting /\ Docs /\ Distinct /\ Busy /\ Owners
        /\ msg \in [Task -> MsgState]
    BY DEF DeliveryInv, TypeOK
  <1>1. te' = te /\ api' = api /\ worker' = worker
    BY DEF BrokerNext, Discard, Requeue, ExpireResult
  <1>2. /\ \A u \in Task : Submitted(u)' <=> Submitted(u)
        /\ \A w \in Worker : worker[w].owns => msg'[Mine(w)] = "unacked"
    <2>1. \A w \in Worker : worker[w].owns => Mine(w) \in Task /\ msg[Mine(w)] = "unacked"
      BY <1>0 DEF Owners, Attempting, Mine
    <2>2. CASE Discard(t)
      BY <1>0, <2>1, <2>2 DEF Discard, Submitted
    <2>3. CASE Requeue(t)
      BY <1>0, <2>1, <2>3 DEF Requeue, HeldBy, Submitted, Mine
    <2>4. CASE ExpireResult(t)
      BY <2>1, <2>4 DEF ExpireResult, Submitted
    <2> QED
      BY <2>2, <2>3, <2>4 DEF BrokerNext
  <1>3. Docs' /\ Lasting
    BY <1>0, <1>1, <1>2 DEF Docs, Lasting
  <1>4. (\A b \in Api : Sound(b)') /\ Distinct'
    BY <1>1, <1>2, <1>3, RequestsUntouched DEF DeliveryInv
  <1>5. Busy'
    <2>1. \A v \in Worker : ~At(v, "idle") => Mine(v) \in Task
      BY <1>0 DEF Attempting, Mine
    <2> QED
      BY <1>0, <1>1, <1>2, <2>1 DEF Busy, At, Mine, Submitted
  <1>6. Owners'
    BY <1>0, <1>1, <1>2 DEF Owners, At, Mine
  <1> QED
    BY <1>3, <1>4, <1>5, <1>6

LEMMA DeliveryInvStep == DeliveryInv /\ [Next]_vars => DeliveryInv'
  <1> SUFFICES ASSUME DeliveryInv, [Next]_vars
               PROVE  DeliveryInv'
    OBVIOUS
  <1>1. TypeOK' /\ Attempting'
    BY TypeStep DEF DeliveryInv
  <1>2. SUFFICES Docs' /\ (\A b \in Api : Sound(b)') /\ Distinct' /\ Busy' /\ Owners'
    BY <1>1 DEF DeliveryInv
  <1>3. ASSUME NEW a \in Api, ApiNext(a)
        PROVE  Docs' /\ (\A b \in Api : Sound(b)') /\ Distinct' /\ Busy' /\ Owners'
    BY <1>3, ReadingRequest, WritingRequest, SubmittingRequest DEF ApiNext, Prompt, Reset
  <1>4. CASE HaltExpire \/ Forget \/ UNCHANGED vars
    <2>1. te' = te /\ msg' = msg /\ worker' = worker /\ api' = api
      BY <1>4 DEF HaltExpire, Forget, vars, db, broker
    <2>2. Docs' /\ Lasting
      BY <2>1 DEF DeliveryInv, Docs, Lasting, Submitted
    <2> QED
      BY <2>1, <2>2, RequestsUntouched, WorkersUntouched, NoSubmission DEF DeliveryInv
  <1> QED
    BY <1>3, <1>4, SlotInv, BrokerInv DEF Next

LEMMA DeliveryInvariant == Spec => []DeliveryInv
  BY DeliveryInvInit, DeliveryInvStep, PTL DEF Spec

-----------------------------------------------------------------------------
(* A refused prompt: what send_prompt believes alive is owed by the queue *)

Finished(t) == result[t] \notin Unfinished

\* The result of a task is stored before its message is acknowledged.
ResultFirst ==
  /\ \A t \in Task : msg[t] = "done" => Finished(t)
  /\ \A w \in Worker : worker[w].owns /\ At(w, "ack") => Finished(Mine(w))

LEMMA ResultFirstStep ==
  ASSUME ~ResultsExpire, DeliveryInv, ResultFirst, [Next]_vars
  PROVE  ResultFirst'
  <1> USE DEF db, bounds
  <1>0. /\ TypeOK /\ Attempting /\ Owners
        /\ msg \in [Task -> MsgState] /\ result \in [Task -> ResultState]
        /\ \A w \in Worker : worker[w].owns => Mine(w) \in Task /\ msg[Mine(w)] = "unacked"
        /\ \A w \in Worker : ~At(w, "idle") => Mine(w) \in Task
    BY DEF DeliveryInv, TypeOK, Attempting, Owners, Mine
  <1>1. ASSUME NEW a \in Api, ApiNext(a)
        PROVE  ResultFirst'
    <2>1. result' = result /\ worker' = worker
      BY <1>1 DEF ApiNext, Prompt, PromptLoad, PromptFind, PromptAlive, PromptFail,
         PromptReset, PromptReject, PromptInsert, PromptDelay, PromptStoreId,
         Halt, HaltLoad, HaltFind, StopLoad, StopCheck, HaltSet,
         Reset, ResetLoad, ResetFind, ResetRevoke, ResetSave, ResetActive, ResetClearHalt,
         Edit, UpdateLoad, UpdateSave, DeleteLoad, DeleteDoc, ApiCrash, broker
    <2>2. \A t \in Task : msg'[t] = "done" => msg[t] = "done"
      <3>1. CASE PromptDelay(a)
        BY <1>0, <3>1 DEF PromptDelay
      <3>2. CASE ~PromptDelay(a)
        BY <1>1, <3>2 DEF ApiNext, Prompt, PromptLoad, PromptFind, PromptAlive, PromptFail,
           PromptReset, PromptReject, PromptInsert, PromptStoreId,
           Halt, HaltLoad, HaltFind, StopLoad, StopCheck, HaltSet,
           Reset, ResetLoad, ResetFind, ResetRevoke, ResetSave, ResetActive, ResetClearHalt,
           Edit, UpdateLoad, UpdateSave, DeleteLoad, DeleteDoc, ApiCrash, broker
      <3> QED
        BY <3>1, <3>2
    <2> QED
      BY <2>1, <2>2 DEF ResultFirst, Finished, At, Mine
  <1>2. ASSUME NEW w \in Worker, WorkerNext(w)
        PROVE  ResultFirst'
    <2>1. CASE Receive(w)
      <3>1. PICK t \in Task :
              /\ msg[t] = "queued"
              /\ msg' = [msg EXCEPT ![t] = "unacked"]
              /\ result' = [result EXCEPT ![t] = "STARTED"]
              /\ worker' = [worker EXCEPT ![w] =
                              [IdleWorker EXCEPT !.pc = "load_wf", !.task = t, !.owns = TRUE]]
        BY <2>1 DEF Receive
      <3>2. /\ worker'[w].pc = "load_wf"
            /\ \A v \in Worker : v # w => worker'[v] = worker[v]
        BY <1>0, <3>1 DEF TypeOK, IdleWorker
      <3>3. \A v \in Worker : worker[v].owns => Mine(v) # t
        BY <1>0, <3>1
      <3>4. /\ \A u \in Task : u # t => result'[u] = result[u] /\ msg'[u] = msg[u]
            /\ msg'[t] = "unacked"
        BY <1>0, <3>1
      <3> QED
        BY <1>0, <3>2, <3>3, <3>4 DEF ResultFirst, Finished, At, Mine
    <2>2. CASE StoreResult(w)
      <3>1. Mine(w) \in Task
        BY <1>0, <2>2 DEF StoreResult, At
      <3>2. /\ Finished(Mine(w))'
            /\ \A t \in Task : Finished(t) => Finished(t)'
        <4>1. /\ result'[Mine(w)] \in {"SUCCESS", "FAILURE"}
              /\ \A t \in Task : t # Mine(w) => result'[t] = result[t]
          BY <1>0, <2>2, <3>1 DEF StoreResult
        <4>2. Mine(w)' = Mine(w)
          BY <1>0, <2>2, GotoWorks DEF StoreResult, Mine
        <4> QED
          BY <4>1, <4>2 DEF Finished, Unfinished
      <3>3. /\ \A v \in Worker : Mine(v)' = Mine(v) /\ worker'[v].owns = worker[v].owns
            /\ \A v \in Worker : v # w => worker'[v] = worker[v]
            /\ msg' = msg
        BY <1>0, <2>2, GotoWorks DEF StoreResult, Mine
      <3> QED
        BY <1>0, <3>1, <3>2, <3>3 DEF ResultFirst, At
    <2>3. CASE Ack(w) \/ Terminate(w) \/ Crash(w)
      <3>1. /\ worker' = [worker EXCEPT ![w] = IdleWorker] /\ ~At(w, "idle")
            /\ \/ Ack(w) /\ msg' = Settled(w) /\ result' = result
               \/ msg' = Settled(w) /\ result' = [result EXCEPT ![Mine(w)] = "REVOKED"]
               \/ msg' = msg /\ result' = result
        BY <2>3 DEF Ack, Terminate, Crash, At, broker
      <3>2. /\ worker'[w] = IdleWorker
            /\ \A v \in Worker : v # w => worker'[v] = worker[v]
        BY <1>0, <3>1, BecomesWorks
      <3>3. Mine(w) \in Task
        BY <1>0, <3>1
      <3>4. \A t \in Task : Finished(t) => Finished(t)'
        BY <1>0, <3>1, <3>3 DEF Finished, Unfinished
      <3>5. \A t \in Task : msg'[t] = "done" => Finished(t)'
        <4>1. CASE msg' = msg
          BY <3>4, <4>1 DEF ResultFirst
        <4>2. CASE Ack(w) /\ msg' = Settled(w) /\ result' = result
          BY <1>0, <3>3, <4>2 DEF ResultFirst, Ack, Settled, Finished
        <4>3. CASE msg' = Settled(w) /\ result' = [result EXCEPT ![Mine(w)] = "REVOKED"]
          BY <1>0, <3>3, <4>3 DEF ResultFirst, Settled, Finished, Unfinished
        <4> QED
          BY <3>1, <4>1, <4>2, <4>3
      <3> QED
        BY <1>0, <3>2, <3>4, <3>5 DEF ResultFirst, At, Mine, IdleWorker
    <2>4. CASE LogWf(w) \/ LogTe(w)
      <3>1. msg' = msg /\ result' = result /\ worker' = worker
        BY <2>4 DEF LogWf, LogTe, broker
      <3> QED
        BY <3>1 DEF ResultFirst, Finished, At, Mine
    <2>5. CASE ~Ack(w) /\ ~StoreResult(w) /\ (Execute(w) \/ PollHalt(w) \/ Raise(w) \/ GiveUp(w))
      <3>1. /\ Works(w) /\ worker'[w].pc # "ack"
        BY <1>0, <2>5, StepWorks
      <3>2. result' = result
        BY <2>5 DEF Execute, LoadWf, LoadTe, SaveWorker, ReloadTe, MarkRunning, Refuse,
           FirstLogWf, FirstLogTe, Enter, ClearHalt, FinalTe, FinalWf, Ensure, EnsureSave,
           MarkFailedLoadWf, MarkFailedSaveWf, MarkFailedLoadTe, MarkFailedSaveTe, PollHalt,
           Raise, GiveUp, broker
      <3> QED
        BY <3>1, <3>2 DEF ResultFirst, Works, Finished, At, Mine
    <2>6. CASE Lapse(w)
      <3>1. /\ \A t \in Task : msg'[t] = "done" => msg[t] = "done"
            /\ result' = result
        BY <1>0, <2>6 DEF Lapse
      <3>2. /\ ~worker'[w].owns
            /\ \A v \in Worker : v # w => worker'[v] = worker[v]
        BY <1>0, <2>6 DEF Lapse, TypeOK, WorkerMem
      <3> QED
        BY <3>1, <3>2 DEF ResultFirst, Finished, At, Mine
    <2> QED
      BY <1>2, <2>1, <2>2, <2>3, <2>4, <2>5, <2>6 DEF WorkerNext
  <1>3. ASSUME NEW t \in Task, BrokerNext(t)
        PROVE  ResultFirst'
    <2>1. /\ worker' = worker
          /\ \A u \in Task : Finished(u) => Finished(u)'
          /\ \A u \in Task : msg'[u] = "done" => msg[u] = "done" \/ Finished(u)'
      BY <1>0, <1>3 DEF BrokerNext, Discard, Requeue, ExpireResult, Finished, Unfinished
    <2> QED
      BY <1>0, <2>1 DEF ResultFirst, At, Mine
  <1>4. CASE HaltExpire \/ Forget \/ UNCHANGED vars
    <2>1. msg' = msg /\ result' = result /\ worker' = worker
      BY <1>4 DEF HaltExpire, Forget, vars, broker
    <2> QED
      BY <2>1 DEF ResultFirst, Finished, At, Mine
  <1> QED
    BY <1>1, <1>2, <1>3, <1>4 DEF Next

\* Unless Celery forgets results, send_prompt (workflows.py 147-159) refuses a
\* prompt only on account of a task whose message is still queued or being
\* worked on, so whatever crashes, the refusal is backed by a run to come.
THEOREM RefusalBacked ==
  ASSUME ~ResultsExpire
  PROVE  Spec => []RefusalIsBacked
  <1>1. Init => ResultFirst
    BY DEF Init, ResultFirst, IdleWorker, At
  <1>2. DeliveryInv /\ ResultFirst /\ [Next]_vars => ResultFirst'
    BY ResultFirstStep
  <1>3. DeliveryInv /\ ResultFirst => RefusalIsBacked
    <2> SUFFICES ASSUME DeliveryInv, ResultFirst, NEW a \in Api,
                        api[a].pc = "p_alive", result[api[a].task] \in Unfinished
                 PROVE  Outstanding(api[a].task)
      BY DEF RefusalIsBacked
    <2>1. api[a].task \in Task /\ Submitted(api[a].task)
      BY DEF DeliveryInv, Sound
    <2>2. msg[api[a].task] \in MsgState
      BY <2>1 DEF DeliveryInv, TypeOK
    <2> QED
      BY <2>1, <2>2 DEF ResultFirst, Finished, Submitted, Outstanding, MsgState
  <1> QED
    BY <1>1, <1>2, <1>3, DeliveryInvariant, PTL DEF Spec

-----------------------------------------------------------------------------
(* The broker and the workers implement the abstract task queue *)

\* The phase of a task in TaskDelivery.
Phase(t) == CASE msg[t] = "none" -> "new"
              [] msg[t] = "done" -> "settled"
              [] OTHER -> "owed"

\* The workers whose attempt TaskDelivery takes to have run to its end.
Ended == {w \in Worker : At(w, "ack")}

\* What a step leaves of the abstract state, s and v apart.
PhaseKeptBut(s) == \A t \in Task \ s : Phase(t)' = Phase(t)
AttemptKeptBut(v) ==
  \A w \in Worker \ v :
    worker'[w].task = worker[w].task /\ (w \in Ended' <=> w \in Ended)

LEMMA EndedKept ==
  ASSUME NEW v, AttemptKeptBut(v), v \cap Ended' = v \cap Ended
  PROVE  Ended' = Ended
  BY DEF AttemptKeptBut, Ended

LEMMA IsSubmit ==
  ASSUME NEW t \in Task, Phase(t) = "new", Phase(t)' = "owed", PhaseKeptBut({t}),
         AttemptKeptBut({}), revoked' = revoked
  PROVE  Delivery!DeliveryNext
  <1>1. Ended' = Ended
    BY EndedKept
  <1>2. Delivery!Submit(t)
    BY <1>1 DEF Phase, PhaseKeptBut, AttemptKeptBut, Ended, Delivery!Submit
  <1> QED
    BY <1>2 DEF Delivery!DeliveryNext

LEMMA IsBegin ==
  ASSUME NEW w \in Worker, NEW t \in Task, Phase(t) = "owed", PhaseKeptBut({}),
         worker[w].task = NoTask, worker'[w].task = t, w \notin Ended, w \notin Ended',
         AttemptKeptBut({w}), revoked' = revoked
  PROVE  Delivery!DeliveryNext
  <1>1. Ended' = Ended
    BY EndedKept
  <1>2. Delivery!Begin(w, t)
    BY <1>1 DEF Phase, PhaseKeptBut, AttemptKeptBut, Ended, Delivery!Begin
  <1> QED
    BY <1>2 DEF Delivery!DeliveryNext

\* A slot that is free again.
LEMMA IsFree ==
  ASSUME NEW w \in Worker, worker'[w].task = NoTask, w \notin Ended',
         AttemptKeptBut({w}), revoked' = revoked
  PROVE  Delivery!Free(w)
  <1>1. [v \in Worker |-> worker[v].task]'
          = [[v \in Worker |-> worker[v].task] EXCEPT ![w] = NoTask]
    <2>1. \A v \in Worker : worker'[v].task = IF v = w THEN NoTask ELSE worker[v].task
      BY DEF AttemptKeptBut
    <2> QED
      BY <2>1
  <1>2. Ended' = Ended \ {w}
    BY DEF AttemptKeptBut, Ended
  <1> QED
    BY <1>1, <1>2 DEF Ended, Delivery!Free

LEMMA IsEnd ==
  ASSUME NEW w \in Worker, PhaseKeptBut({}), worker[w].task # NoTask, w \in Ended',
         worker'[w].task = worker[w].task, AttemptKeptBut({w}), revoked' = revoked
  PROVE  Delivery!DeliveryNext
  <1>1. Ended' = Ended \cup {w}
    BY DEF AttemptKeptBut, Ended
  <1>2. Delivery!End(w)
    BY <1>1 DEF Phase, PhaseKeptBut, AttemptKeptBut, Ended, Delivery!End
  <1> QED
    BY <1>2 DEF Delivery!DeliveryNext

LEMMA IsLose ==
  ASSUME NEW w \in Worker, PhaseKeptBut({}), worker[w].task # NoTask,
         worker'[w].task = NoTask, w \notin Ended', AttemptKeptBut({w}), revoked' = revoked
  PROVE  Delivery!DeliveryNext
  <1>1. Delivery!Free(w)
    BY IsFree
  <1>2. Delivery!Lose(w)
    BY <1>1 DEF Phase, PhaseKeptBut, Delivery!Lose
  <1> QED
    BY <1>2 DEF Delivery!DeliveryNext

LEMMA IsSettleBy ==
  ASSUME NEW w \in Worker, NEW t \in Task, worker[w].task = t, w \in Ended \/ t \in revoked,
         Phase(t) = "owed", Phase(t)' = "settled", PhaseKeptBut({t}),
         worker'[w].task = NoTask, w \notin Ended', AttemptKeptBut({w}), revoked' = revoked
  PROVE  Delivery!DeliveryNext
  <1>1. Delivery!Free(w)
    BY IsFree
  <1>2. Delivery!SettleBy(w, t)
    BY <1>1 DEF Phase, PhaseKeptBut, Ended, Delivery!SettleBy
  <1> QED
    BY <1>2 DEF Delivery!DeliveryNext

LEMMA IsDropTask ==
  ASSUME NEW t \in Task, t \in revoked, Phase(t) = "owed", Phase(t)' = "settled",
         PhaseKeptBut({t}), AttemptKeptBut({}), revoked' = revoked
  PROVE  Delivery!DeliveryNext
  <1>1. Ended' = Ended
    BY EndedKept
  <1>2. Delivery!DropTask(t)
    BY <1>1 DEF Phase, PhaseKeptBut, AttemptKeptBut, Ended, Delivery!DropTask
  <1> QED
    BY <1>2 DEF Delivery!DeliveryNext

\* Also the steps that the abstract queue does not see.
LEMMA IsCancel ==
  ASSUME revoked' \subseteq Task, PhaseKeptBut({}), AttemptKeptBut({})
  PROVE  Delivery!DeliveryNext
  <1>1. Ended' = Ended
    BY EndedKept
  <1>2. Delivery!Cancel
    BY <1>1 DEF Phase, PhaseKeptBut, AttemptKeptBut, Ended, Delivery!Cancel
  <1> QED
    BY <1>2 DEF Delivery!DeliveryNext

LEMMA QuietStep ==
  ASSUME msg' = msg, AttemptKeptBut({}), revoked' \subseteq Task
  PROVE  Delivery!DeliveryNext
  <1>1. PhaseKeptBut({})
    BY DEF PhaseKeptBut, Phase
  <1> QED
    BY <1>1, IsCancel

\* A slot that stops settles its task only if the message is its own, and then
\* only with a result stored or the task revoked.
LEMMA StoppingRefines ==
  ASSUME DeliveryInv, NEW w \in Worker, ~At(w, "idle"),
         worker' = [worker EXCEPT ![w] = IdleWorker], revoked' = revoked,
         \/ msg' = Settled(w) /\ (At(w, "ack") \/ Mine(w) \in revoked)
         \/ msg' = msg
  PROVE  Delivery!DeliveryNext
  <1>0. /\ TypeOK /\ worker[w].task \in Task /\ msg \in [Task -> MsgState]
        /\ worker[w].owns => msg[Mine(w)] = "unacked"
    BY DEF DeliveryInv, TypeOK, Attempting, Owners
  <1>1. /\ worker'[w].task = NoTask /\ worker[w].task # NoTask
        /\ w \notin Ended' /\ AttemptKeptBut({w})
    <2>1. /\ worker'[w] = IdleWorker
          /\ \A v \in Worker : v # w => worker'[v] = worker[v]
      BY <1>0, BecomesWorks
    <2> QED
      BY <1>0, <2>1, NoTaskIsNoTask DEF IdleWorker, AttemptKeptBut, Ended, At
  <1>2. CASE msg' = msg
    <2>1. PhaseKeptBut({})
      BY <1>2 DEF PhaseKeptBut, Phase
    <2> QED
      BY <1>1, <2>1, IsLose
  <1>3. CASE msg' # msg
    <2>0. msg' = Settled(w) /\ worker[w].owns /\ (w \in Ended \/ Mine(w) \in revoked)
      BY <1>3 DEF Settled, Ended
    <2>1. /\ Phase(Mine(w)) = "owed" /\ msg'[Mine(w)] = "done"
          /\ PhaseKeptBut({Mine(w)})
      BY <1>0, <2>0 DEF Settled, Phase, PhaseKeptBut, Mine
    <2>2. \A t \in Task : msg'[t] = "done" => Phase(t)' = "settled"
      BY DEF Phase
    <2> QED
      BY <1>0, <1>1, <2>0, <2>1, <2>2, IsSettleBy DEF Mine
  <1> QED
    BY <1>2, <1>3

LEMMA StepRefines ==
  ASSUME DeliveryInv, DeliveryInv', [Next]_vars
  PROVE  Delivery!DeliveryNext \/ UNCHANGED Delivery!dvars
  <1> USE DEF db, broker, bounds
  <1>0. /\ TypeOK /\ Attempting /\ Owners /\ msg \in [Task -> MsgState]
        /\ revoked \subseteq Task /\ revoked' \subseteq Task
    BY DEF DeliveryInv, TypeOK
  <1>1. ASSUME NEW a \in Api, ApiNext(a)
        PROVE  Delivery!DeliveryNext
    <2>1. AttemptKeptBut({})
      BY <1>1 DEF AttemptKeptBut, Ended, At, ApiNext, Prompt, PromptLoad, PromptFind, PromptAlive,
         PromptFail, PromptReset, PromptReject, PromptInsert, PromptDelay, PromptStoreId,
         Halt, HaltLoad, HaltFind, StopLoad, StopCheck, HaltSet,
         Reset, ResetLoad, ResetFind, ResetRevoke, ResetSave, ResetActive, ResetClearHalt,
         Edit, UpdateLoad, UpdateSave, DeleteLoad, DeleteDoc, ApiCrash
    <2>2. CASE PromptDelay(a)
      <3> DEFINE t == api[a].task
      <3>1. t \in Task /\ msg[t] = "none"
        BY <2>2 DEF PromptDelay, DeliveryInv, Sound, Submitted
      <3>2. msg'[t] = "queued" /\ \A u \in Task : u # t => msg'[u] = msg[u]
        BY <1>0, <2>2, <3>1 DEF PromptDelay
      <3> HIDE DEF t
      <3>3. Phase(t) = "new" /\ PhaseKeptBut({t})
        BY <3>1, <3>2 DEF Phase, PhaseKeptBut
      <3>4. \A u \in Task : msg'[u] = "queued" => Phase(u)' = "owed"
        BY DEF Phase
      <3>5. revoked' = revoked
        BY <2>2 DEF PromptDelay
      <3> QED
        BY <2>1, <3>1, <3>2, <3>3, <3>4, <3>5, IsSubmit
    <2>3. CASE ~PromptDelay(a)
      <3>1. msg' = msg
        BY <1>1, <2>3 DEF ApiNext, Prompt, PromptLoad, PromptFind, PromptAlive,
           PromptFail, PromptReset, PromptReject, PromptInsert, PromptStoreId,
           Halt, HaltLoad, HaltFind, StopLoad, StopCheck, HaltSet,
           Reset, ResetLoad, ResetFind, ResetRevoke, ResetSave, ResetActive, ResetClearHalt,
           Edit, UpdateLoad, UpdateSave, DeleteLoad, DeleteDoc, ApiCrash
      <3> QED
        BY <1>0, <2>1, <3>1, QuietStep
    <2> QED
      BY <2>2, <2>3
  <1>2. ASSUME NEW w \in Worker, WorkerNext(w)
        PROVE  Delivery!DeliveryNext
    <2>1. CASE Receive(w)
      <3>1. PICK t \in Task :
              /\ msg[t] = "queued"
              /\ msg' = [msg EXCEPT ![t] = "unacked"]
              /\ worker' = [worker EXCEPT ![w] =
                              [IdleWorker EXCEPT !.pc = "load_wf", !.task = t, !.owns = TRUE]]
        BY <2>1 DEF Receive
      <3>2. /\ worker'[w].task = t
            /\ \A v \in Worker : v # w => worker'[v] = worker[v]
        BY <1>0, <3>1 DEF TypeOK, IdleWorker
      <3>3. /\ worker[w].task = NoTask /\ revoked' = revoked
            /\ w \notin Ended /\ w \notin Ended'
        <4>1. worker'[w].pc = "load_wf"
          BY <1>0, <3>1 DEF TypeOK, IdleWorker
        <4> QED
          BY <1>0, <2>1, <4>1 DEF Receive, Attempting, TypeOK, WorkerMem, Ended, At
      <3>4. Phase(t) = "owed" /\ PhaseKeptBut({}) /\ AttemptKeptBut({w})
        BY <1>0, <3>1, <3>2 DEF Phase, PhaseKeptBut, AttemptKeptBut, Ended, At
      <3> QED
        BY <3>2, <3>3, <3>4, IsBegin
    <2>2. CASE Ack(w) \/ Terminate(w) \/ Crash(w)
      <3>1. /\ ~At(w, "idle") /\ worker' = [worker EXCEPT ![w] = IdleWorker]
            /\ \/ msg' = Settled(w) /\ (At(w, "ack") \/ Mine(w) \in revoked)
               \/ msg' = msg
            /\ revoked' = revoked
        BY <2>2 DEF Ack, Terminate, Crash, At
      <3> QED
        BY <3>1, StoppingRefines
    <2>3. CASE LogWf(w) \/ LogTe(w)
      <3>1. msg' = msg /\ worker' = worker
        BY <2>3 DEF LogWf, LogTe
      <3> QED
        BY <1>0, <3>1, QuietStep DEF AttemptKeptBut, Ended, At
    <2>4. CASE ~Ack(w) /\ (Execute(w) \/ PollHalt(w) \/ Raise(w) \/ GiveUp(w))
      <3>1. Works(w)
        BY <1>0, <2>4, StepWorks
      <3>2. w \notin Ended
        BY <2>4 DEF Ended, At, Execute, PollHalt, Raise, GiveUp, LoadWf, LoadTe, SaveWorker,
           ReloadTe, MarkRunning, Refuse, FirstLogWf, FirstLogTe, Enter, ClearHalt, FinalTe,
           FinalWf, Ensure, EnsureSave, MarkFailedLoadWf, MarkFailedSaveWf, MarkFailedLoadTe,
           MarkFailedSaveTe, StoreResult
      <3>3. revoked' = revoked
        BY <2>4 DEF Execute, PollHalt, Raise, GiveUp, LoadWf, LoadTe, SaveWorker,
           ReloadTe, MarkRunning, Refuse, FirstLogWf, FirstLogTe, Enter, ClearHalt, FinalTe,
           FinalWf, Ensure, EnsureSave, MarkFailedLoadWf, MarkFailedSaveWf, MarkFailedLoadTe,
           MarkFailedSaveTe, StoreResult
      <3>4. AttemptKeptBut({w}) /\ PhaseKeptBut({})
        BY <3>1 DEF Works, AttemptKeptBut, PhaseKeptBut, Phase, Ended, At
      <3>5. CASE w \in Ended'
        <4>1. worker[w].task # NoTask
          BY <1>0, <3>1, NoTaskIsNoTask DEF Works, Attempting
        <4> QED
          BY <3>1, <3>3, <3>4, <3>5, <4>1, IsEnd DEF Works
      <3>6. CASE w \notin Ended'
        BY <1>0, <3>1, <3>2, <3>4, <3>6, QuietStep DEF Works, AttemptKeptBut
      <3> QED
        BY <3>5, <3>6
    <2>5. CASE Lapse(w)
      <3>1. /\ worker[w].owns /\ Mine(w) \in Task /\ msg[Mine(w)] = "unacked"
        BY <1>0, <2>5 DEF Lapse, Owners, Attempting, Mine
      <3>2. AttemptKeptBut({})
        BY <1>0, <2>5 DEF Lapse, TypeOK, WorkerMem, AttemptKeptBut, Ended, At
      <3>3. PhaseKeptBut({})
        BY <1>0, <2>5, <3>1 DEF Lapse, PhaseKeptBut, Phase
      <3> QED
        BY <1>0, <3>2, <3>3, IsCancel
    <2> QED
      BY <1>2, <2>1, <2>2, <2>3, <2>4, <2>5 DEF WorkerNext
  <1>3. ASSUME NEW t \in Task, BrokerNext(t)
        PROVE  Delivery!DeliveryNext
    <2>1. AttemptKeptBut({}) /\ revoked' = revoked
      BY <1>3 DEF BrokerNext, Discard, Requeue, ExpireResult, AttemptKeptBut, Ended, At
    <2>2. CASE Discard(t)
      <3>1. Phase(t) = "owed" /\ Phase(t)' = "settled" /\ PhaseKeptBut({t}) /\ t \in revoked
        BY <1>0, <2>2 DEF Discard, Phase, PhaseKeptBut
      <3> QED
        BY <2>1, <3>1, IsDropTask
    <2>3. CASE Requeue(t)
      <3>1. PhaseKeptBut({})
        BY <1>0, <2>3 DEF Requeue, Phase, PhaseKeptBut
      <3> QED
        BY <1>0, <2>1, <3>1, IsCancel
    <2>4. CASE ExpireResult(t)
      BY <1>0, <2>1, <2>4, QuietStep DEF ExpireResult
    <2> QED
      BY <1>3, <2>2, <2>3, <2>4 DEF BrokerNext
  <1>4. CASE HaltExpire \/ Forget \/ UNCHANGED vars
    <2>1. msg' = msg /\ worker' = worker
      BY <1>4 DEF HaltExpire, Forget, vars
    <2> QED
      BY <1>0, <2>1, QuietStep DEF AttemptKeptBut, Ended, At
  <1> QED
    BY <1>1, <1>2, <1>3, <1>4 DEF Next

\* Whatever crashes, lapses or is revoked: a submitted task leaves the queue only
\* when the worker that holds its message has stored its result, or is killed
\* because a reset revoked the task, or when the revoked task is dropped unstarted
\* (task_acks_late and task_reject_on_worker_lost, celery_app.py 34-37).  The
\* refinement takes an attempt to have ended at its result, so a message that is
\* acknowledged on delivery, or settled by a crash, is not a step of TaskDelivery.
THEOREM DeliveredAtLeastOnce == Spec => AtLeastOnce
  <1>1. Init => Delivery!DeliveryInit
    BY DEF Init, Delivery!DeliveryInit, IdleWorker, At
  <1>2. DeliveryInv /\ DeliveryInv' /\ [Next]_vars => [Delivery!DeliveryNext]_(Delivery!dvars)
    BY StepRefines
  <1> QED
    BY <1>1, <1>2, DeliveryInvariant, PTL DEF Spec, AtLeastOnce, Delivery!DeliverySpec
=============================================================================
