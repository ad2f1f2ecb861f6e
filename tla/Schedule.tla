------------------------------ MODULE Schedule ------------------------------
(***************************************************************************)
(* One scheduled agent: its document, its RedBeat entry, the ticks that    *)
(* Beat sends while the entry exists, the trigger task that executes a     *)
(* tick, the task executions it starts, and the requests that create,      *)
(* change, enable, disable and delete the schedule.                        *)
(*                                                                         *)
(* The document is a record: "state" says whether it exists and is         *)
(* enabled, "end" whether it has an end_at, and whether that is the moment *)
(* after which "past" holds or lies (or was moved) beyond it.  The         *)
(* executions are those of WorkflowRun, reduced to what the trigger looks  *)
(* at: how many have which status.                                         *)
(***************************************************************************)
EXTENDS Naturals, FiniteSets

CONSTANTS
  Trigger,     \* worker slots that execute ticks
  Api,         \* slots for API requests
  Requests,    \* the operations users ask for, with either database
  MaxRuns,     \* bound: executions under way at once
  MaxTicks,    \* bound: ticks that wait in the queue
  MaxFaults    \* bound: calls that fail, processes that die, executions that return

Database == {"mongo", "postgres"}
RequestKind == {"create", "update", "enable", "disable", "delete", "drop"}

ASSUME FiniteSlots == IsFiniteSet(Trigger)
ASSUME RequestsAreKinds == Requests \in [Database -> SUBSET RequestKind]
ASSUME ScheduleBoundsAreNaturals == MaxRuns \in Nat /\ MaxTicks \in Nat /\ MaxFaults \in Nat

VARIABLES
  db,        \* settings.db_backend
  sa,        \* the ScheduledAgent document
  entry,     \* whether RedBeat has an entry for it
  wf,        \* whether its workflow exists
  past,      \* whether "soon" has passed
  ticks,     \* run_scheduled_agent messages that wait
  pending,   \* how many of the schedule's task executions are PENDING
  sent,      \* how many of those have a run_agent_task message that waits
  running,   \* how many are RUNNING
  returning, \* how many are settled and will be RUNNING again
  trigger,   \* the slots that execute ticks
  api,       \* the requests in progress
  faults     \* number of faults so far

runs == <<pending, sent, running, returning>>
svars == <<db, sa, entry, wf, past, ticks, pending, sent, running, returning, trigger, api, faults>>

End == {"none", "soon", "later"}
Doc == [state : {"none", "on", "off", "deleted"}, end : End]
NoSchedule == [state |-> "none", end |-> "none"]

TriggerPc == {"idle", "disable", "save_off", "check", "load_wf", "insert", "dispatch", "stamp"}
TriggerMem == [pc : TriggerPc, sa : Doc]
IdleTrigger == [pc |-> "idle", sa |-> NoSchedule]

ApiPc == {"idle", "c_register", "c_save", "c_undo", "u_set", "u_unregister", "u_register",
          "u_key", "e_register", "e_set", "d_unregister", "d_set", "x_unregister", "x_delete"}
ApiMem == [pc : ApiPc, sa : Doc]
IdleRequest == [pc |-> "idle", sa |-> NoSchedule]

Active == pending + running

\* A message waits only for an execution that is PENDING.
TypeOK ==
  /\ db \in Database
  /\ sa \in Doc
  /\ entry \in BOOLEAN /\ wf \in BOOLEAN /\ past \in BOOLEAN
  /\ ticks \in Nat
  /\ pending \in Nat /\ sent \in 0 .. pending
  /\ running \in Nat /\ returning \in Nat
  /\ trigger \in [Trigger -> TriggerMem]
  /\ api \in [Api -> ApiMem]
  /\ faults \in Nat

ScheduleInit ==
  /\ db \in Database
  /\ sa = NoSchedule
  /\ entry = FALSE
  /\ wf = TRUE
  /\ past = FALSE
  /\ ticks = 0
  /\ pending = 0 /\ sent = 0 /\ running = 0 /\ returning = 0
  /\ trigger = [k \in Trigger |-> IdleTrigger]
  /\ api = [a \in Api |-> IdleRequest]
  /\ faults = 0

Exists == sa.state \in {"on", "off"}
Ended(doc) == doc.end = "soon" /\ past

\* MongoDB gives end_at back without its time zone, and such a time cannot be
\* compared with now, which has one.
Comparable(doc) == doc.end = "none" \/ db = "postgres"

Fault == faults < MaxFaults /\ faults' = faults + 1

\* create_schedule, which overwrites an entry of the same name.
Registered == entry' = TRUE /\ UNCHANGED faults

\* delete_schedule: it looks the entry up without the prefix that RedBeat puts
\* before its name, and takes the KeyError to mean that there is no entry.
Unregistered == UNCHANGED <<entry, faults>>

-----------------------------------------------------------------------------
(* Beat, and the trigger task run_scheduled_agent *)

\* A new entry is due a minute after it is made at the earliest.
Beat ==
  /\ entry /\ ticks < MaxTicks
  /\ \A a \in Api : api[a].pc # "c_save"
  /\ ticks' = ticks + 1
  /\ UNCHANGED <<db, sa, entry, wf, past, runs, trigger, api, faults>>

TriggerAt(k, pc) == trigger[k].pc = pc
TriggerGoto(k, pc) == trigger' = [trigger EXCEPT ![k].pc = pc]
TriggerDone(k) == trigger' = [trigger EXCEPT ![k] = IdleTrigger]

\* Mutant: only end_at is looked at.
TickLoadAnyState(k) ==
  /\ TriggerAt(k, "idle") /\ ticks > 0
  /\ ticks' = ticks - 1
  /\ IF ~Exists \/ ~Comparable(sa) THEN UNCHANGED trigger
     ELSE trigger' = [trigger EXCEPT ![k] =
            [pc |-> IF Ended(sa) THEN "disable" ELSE "check", sa |-> sa]]
  /\ UNCHANGED <<db, sa, entry, wf, past, runs, api, faults>>

\* A tick is received; it is over at once unless the schedule exists and is on,
\* and fails when it has an end_at that cannot be compared.
TickLoad(k) ==
  /\ TriggerAt(k, "idle") /\ ticks > 0
  /\ ticks' = ticks - 1
  /\ IF sa.state # "on" \/ ~Comparable(sa) THEN UNCHANGED trigger
     ELSE trigger' = [trigger EXCEPT ![k] =
            [pc |-> IF Ended(sa) THEN "disable" ELSE "check", sa |-> sa]]
  /\ UNCHANGED <<db, sa, entry, wf, past, runs, api, faults>>

TickDisable(k) ==
  /\ TriggerAt(k, "disable")
  /\ Unregistered
  /\ TriggerGoto(k, "save_off")
  /\ UNCHANGED <<db, sa, wf, past, ticks, runs, api>>

TickSaveOff(k) ==
  /\ TriggerAt(k, "save_off")
  /\ sa' = [trigger[k].sa EXCEPT !.state = "off"]
  /\ TriggerDone(k)
  /\ UNCHANGED <<db, entry, wf, past, ticks, runs, api, faults>>

\* Mutant: executions that wait in the queue are not looked for.
OverlappingRunning == running > 0

\* find_one of the schedule's PENDING and RUNNING executions.
Overlapping == pending > 0 \/ running > 0

TickCheck(k) ==
  /\ TriggerAt(k, "check")
  /\ IF Overlapping THEN TriggerDone(k) ELSE TriggerGoto(k, "load_wf")
  /\ UNCHANGED <<db, sa, entry, wf, past, ticks, runs, api, faults>>

TickLoadWf(k) ==
  /\ TriggerAt(k, "load_wf")
  /\ IF wf THEN TriggerGoto(k, "insert") ELSE TriggerDone(k)
  /\ UNCHANGED <<db, sa, entry, wf, past, ticks, runs, api, faults>>

TickInsert(k) ==
  /\ TriggerAt(k, "insert")
  /\ Active < MaxRuns
  /\ pending' = pending + 1
  /\ TriggerGoto(k, "dispatch")
  /\ UNCHANGED <<db, sa, entry, wf, past, ticks, sent, running, returning, api, faults>>

\* Mutant: the record is left to itself.
TickDispatchNothing(k) ==
  /\ TriggerAt(k, "dispatch")
  /\ TriggerGoto(k, "stamp")
  /\ UNCHANGED <<db, sa, entry, wf, past, ticks, runs, api, faults>>

TickDispatch(k) ==
  /\ TriggerAt(k, "dispatch")
  /\ sent' = sent + 1
  /\ TriggerGoto(k, "stamp")
  /\ UNCHANGED <<db, sa, entry, wf, past, ticks, pending, running, returning, api, faults>>

\* last_run_at and next_run_at are set, and the whole document saved.
TickStamp(k) ==
  /\ TriggerAt(k, "stamp")
  /\ sa' = trigger[k].sa
  /\ TriggerDone(k)
  /\ UNCHANGED <<db, entry, wf, past, ticks, runs, api, faults>>

\* A call fails, and the message is acknowledged; or the worker dies, and it is
\* delivered again.
TickLost(k) ==
  /\ ~TriggerAt(k, "idle")
  /\ Fault
  /\ ticks' \in {ticks, ticks + 1}
  /\ TriggerDone(k)
  /\ UNCHANGED <<db, sa, entry, wf, past, runs, api>>

-----------------------------------------------------------------------------
(* What WorkflowRun says of an execution: received, it runs or is refused, and *)
(* is settled in the end.                                                     *)

\* Perhaps not for good: the worker died before it acknowledged the message, or
\* a reset or stop settled an execution whose worker goes on.
Settles ==
  \/ UNCHANGED <<returning, faults>>
  \/ Fault /\ returning' = returning + 1

\* Mutant: the message of an execution that was refused stays.
RunStartsUnacked ==
  /\ sent > 0
  /\ pending' = pending - 1
  /\ \/ sent' = sent - 1 /\ running' = running + 1 /\ UNCHANGED <<returning, faults>>
     \/ UNCHANGED <<sent, running>> /\ Settles
  /\ UNCHANGED <<db, sa, entry, wf, past, ticks, trigger, api>>

\* Without the workflow the message is acknowledged and nothing else done.
RunStarts ==
  /\ sent > 0
  /\ sent' = sent - 1
  /\ \/ wf /\ pending' = pending - 1 /\ running' = running + 1 /\ UNCHANGED <<returning, faults>>
     \/ wf /\ pending' = pending - 1 /\ UNCHANGED running /\ Settles
     \/ ~wf /\ UNCHANGED <<pending, running, returning, faults>>
  /\ UNCHANGED <<db, sa, entry, wf, past, ticks, trigger, api>>

\* A run saves the workflow it has loaded, even if it was deleted.
RunSaves ==
  /\ running > 0 /\ ~wf
  /\ wf' = TRUE
  /\ UNCHANGED <<db, sa, entry, past, ticks, runs, trigger, api, faults>>

RunEnds ==
  /\ running > 0
  /\ running' = running - 1
  /\ Settles
  /\ UNCHANGED <<db, sa, entry, wf, past, ticks, pending, sent, trigger, api>>

\* It is delivered again, and run or refused; or its worker saves its copy.
RunReturns ==
  /\ returning > 0 /\ Active < MaxRuns
  /\ returning' = returning - 1
  /\ running' \in {running, running + 1}
  /\ UNCHANGED <<db, sa, entry, wf, past, ticks, pending, sent, trigger, api, faults>>

-----------------------------------------------------------------------------
(* The routes *)

ApiAt(a, pc) == api[a].pc = pc
ApiGoto(a, pc) == api' = [api EXCEPT ![a].pc = pc]
ApiDone(a) == api' = [api EXCEPT ![a] = IdleRequest]

\* The document a handler has read and goes on with: it matters only to a store
\* that saves all of it.
Kept(doc) == IF db = "postgres" THEN doc ELSE NoSchedule

\* A request for an operation of this kind loads the schedule and its workflow.
Load(a, kind, states, pc) ==
  /\ kind \in Requests[db]
  /\ ApiAt(a, "idle")
  /\ wf /\ sa.state \in states
  /\ api' = [api EXCEPT ![a] = [pc |-> pc, sa |-> Kept(sa)]]
  /\ UNCHANGED <<db, sa, entry, wf, past, ticks, runs, trigger, faults>>

UpdateLoad(a) == Load(a, "update", {"on", "off"}, "u_set")
EnableLoad(a) == Load(a, "enable", {"off"}, "e_register")
DisableLoad(a) == Load(a, "disable", {"on"}, "d_unregister")
DeleteLoad(a) == Load(a, "delete", {"on", "off"}, "x_unregister")

\* Document.set changes some fields: on MongoDB of the document there is, and fails
\* if there is none; on PostgreSQL of the one that was read, which is saved whole.
SetBase(a) == IF db = "postgres" THEN api[a].sa ELSE sa
Set(a, doc) == sa' = IF db = "postgres" \/ Exists THEN doc ELSE sa

\* Some fields are set, perhaps some that concern the timing, end_at for one,
\* which can be moved but, exclude_none, not removed.
UpdateSet(a) ==
  /\ ApiAt(a, "u_set")
  /\ \E e \in End, timing \in BOOLEAN :
       /\ (timing /\ e # "none") \/ e = SetBase(a).end
       /\ Set(a, [SetBase(a) EXCEPT !.end = e])
       /\ IF timing /\ sa'.state = "on"
          THEN api' = [api EXCEPT ![a] = [pc |-> "u_unregister", sa |-> Kept(sa')]]
          ELSE ApiDone(a)
  /\ UNCHANGED <<db, entry, wf, past, ticks, runs, trigger, faults>>

\* redbeat_key is set, to what it was.
UpdateKey(a) ==
  /\ ApiAt(a, "u_key")
  /\ Set(a, SetBase(a))
  /\ ApiDone(a)
  /\ UNCHANGED <<db, entry, wf, past, ticks, runs, trigger, faults>>

EnableSet(a) ==
  /\ ApiAt(a, "e_set")
  /\ Set(a, [SetBase(a) EXCEPT !.state = "on"])
  /\ ApiDone(a)
  /\ UNCHANGED <<db, entry, wf, past, ticks, runs, trigger, faults>>

DisableSet(a) ==
  /\ ApiAt(a, "d_set")
  /\ Set(a, [SetBase(a) EXCEPT !.state = "off"])
  /\ ApiDone(a)
  /\ UNCHANGED <<db, entry, wf, past, ticks, runs, trigger, faults>>

DeleteDoc(a) ==
  /\ ApiAt(a, "x_delete")
  /\ sa' = [sa EXCEPT !.state = "deleted"]
  /\ ApiDone(a)
  /\ UNCHANGED <<db, entry, wf, past, ticks, runs, trigger, faults>>

\* The insert of create_scheduled_agent.
CreateInsert(a) ==
  /\ "create" \in Requests[db]
  /\ ApiAt(a, "idle") /\ wf /\ sa.state = "none"
  /\ \E e \in End : sa' = [state |-> "on", end |-> e]
  /\ api' = [api EXCEPT ![a] = [pc |-> "c_register", sa |-> sa']]
  /\ UNCHANGED <<db, entry, wf, past, ticks, runs, trigger, faults>>

CreateSave(a) ==
  /\ ApiAt(a, "c_save")
  /\ sa' = api[a].sa
  /\ ApiDone(a)
  /\ UNCHANGED <<db, entry, wf, past, ticks, runs, trigger, faults>>

\* Registration or the save failed.
CreateUndo(a) ==
  /\ ApiAt(a, "c_undo")
  /\ sa' = [sa EXCEPT !.state = "deleted"]
  /\ ApiDone(a)
  /\ UNCHANGED <<db, entry, wf, past, ticks, runs, trigger, faults>>

\* The entry is made in three of the operations and removed in three.
Register(a) ==
  /\ Registered
  /\ \/ ApiAt(a, "c_register") /\ ApiGoto(a, "c_save")
     \/ ApiAt(a, "u_register") /\ ApiGoto(a, "u_key")
     \/ ApiAt(a, "e_register") /\ ApiGoto(a, "e_set")
  /\ UNCHANGED <<db, sa, wf, past, ticks, runs, trigger>>

Unregister(a) ==
  /\ Unregistered
  /\ \/ ApiAt(a, "u_unregister") /\ ApiGoto(a, "u_register")
     \/ ApiAt(a, "d_unregister") /\ ApiGoto(a, "d_set")
     \/ ApiAt(a, "x_unregister") /\ ApiGoto(a, "x_delete")
  /\ UNCHANGED <<db, sa, wf, past, ticks, runs, trigger>>

\* A call fails, which only create_scheduled_agent repairs, or the process dies.
ApiLost(a) ==
  /\ ~ApiAt(a, "idle")
  /\ Fault
  /\ \/ ApiDone(a)
     \/ api[a].pc \in {"c_register", "c_save"} /\ ApiGoto(a, "c_undo")
  /\ UNCHANGED <<db, sa, entry, wf, past, ticks, runs, trigger>>

\* delete_workflow, which knows nothing of schedules.
DropWorkflow ==
  /\ "drop" \in Requests[db]
  /\ wf
  /\ wf' = FALSE
  /\ UNCHANGED <<db, sa, entry, past, ticks, runs, trigger, api, faults>>

TimePasses ==
  /\ ~past
  /\ past' = TRUE
  /\ UNCHANGED <<db, sa, entry, wf, ticks, runs, trigger, api, faults>>

-----------------------------------------------------------------------------

Tick(k) ==
  \/ TickLoad(k) \/ TickDisable(k) \/ TickSaveOff(k) \/ TickCheck(k) \/ TickLoadWf(k)
  \/ TickInsert(k) \/ TickDispatch(k) \/ TickStamp(k)

Arrive(a) ==
  CreateInsert(a) \/ UpdateLoad(a) \/ EnableLoad(a) \/ DisableLoad(a) \/ DeleteLoad(a)

Handle(a) ==
  \/ CreateSave(a) \/ CreateUndo(a)
  \/ UpdateSet(a) \/ UpdateKey(a) \/ EnableSet(a) \/ DisableSet(a)
  \/ DeleteDoc(a)
  \/ Register(a) \/ Unregister(a)

ScheduleNext ==
  \/ Beat
  \/ \E k \in Trigger : Tick(k) \/ TickLost(k)
  \/ RunStarts \/ RunSaves \/ RunEnds \/ RunReturns
  \/ \E a \in Api : Arrive(a) \/ Handle(a) \/ ApiLost(a)
  \/ DropWorkflow \/ TimePasses

ScheduleSpec == ScheduleInit /\ [][ScheduleNext]_svars

\* Beat keeps sending what is due, workers and handlers go on with what they have
\* received, and executions end (EveryTaskSettles of WorkflowRun).
ScheduleFairSpec ==
  /\ ScheduleSpec
  /\ WF_svars(Beat)
  /\ \A k \in Trigger : WF_svars(Tick(k))
  /\ \A a \in Api : WF_svars(Handle(a))
  /\ WF_svars(RunStarts) /\ WF_svars(RunEnds)

-----------------------------------------------------------------------------
(* Properties *)

\* "skipping this tick to avoid overlap" (scheduled_trigger.py 73): ticks that are
\* executed at once can all pass the check, but what they start never exceeds
\* their number, and only executions that return come on top of it.
OverlapIsBounded == Active <= Cardinality(Trigger) + faults

\* A schedule that is off, gone or at its end, or without its workflow, for good
\* starts no more executions, although its entry may remain and ticks may be queued
\* or under way.
StoppedStartsNothing ==
  <>[](sa.state # "on" \/ Ended(sa)) \/ <>[]~wf
    => <>[](\A k \in Trigger : trigger[k].pc # "dispatch")

\* As long as nothing fails and the workflow is not deleted, a schedule that stays
\* on is executed again and again: no tick blocks those after it.  On MongoDB only
\* one without an end_at: with one, no tick gets as far as the check.
EnabledFires ==
  []wf /\ <>[](entry /\ sa.state = "on" /\ ~Ended(sa) /\ Comparable(sa) /\ faults = 0)
    => []<>(sent > 0)

-----------------------------------------------------------------------------
(* What the repository says and the code does not keep *)

\* "Use /enable and /disable to toggle execution" (scheduled-agents.md 71): only
\* /enable turns a schedule on that was turned off.
DisabledStaysOff ==
  [][sa.state = "off" /\ sa'.state = "on" => \E a \in Api : ApiAt(a, "e_set")]_sa

\* "If expired -> auto-disables the schedule" (scheduled_trigger.py 6): as long as
\* its entry is there, a schedule does not stay enabled beyond its end_at.
ExpiredIsDisabled ==
  entry /\ sa.state = "on" /\ Ended(sa) ~> sa.state # "on" \/ ~Ended(sa)

=============================================================================
