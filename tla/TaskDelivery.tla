---------------------------- MODULE TaskDelivery ----------------------------
(***************************************************************************)
(* What the task queue promises to the rest of the system: a task that has *)
(* been submitted is owed an execution, attempts at it may be lost or      *)
(* doubled, and it stops being owed only when an attempt runs to its end   *)
(* or after it was cancelled.                                              *)
(***************************************************************************)
CONSTANTS Task, Worker, NoTask

VARIABLES
  phase,       \* per task: new, owed, settled
  attempt,     \* per worker, the task it is attempting
  ended,       \* the workers whose attempt has run to its end
  cancelled    \* the tasks that need not be executed any more

dvars == <<phase, attempt, ended, cancelled>>

DeliveryInit ==
  /\ phase = [t \in Task |-> "new"]
  /\ attempt = [w \in Worker |-> NoTask]
  /\ ended = {}
  /\ cancelled = {}

Submit(t) ==
  /\ phase[t] = "new"
  /\ phase' = [phase EXCEPT ![t] = "owed"]
  /\ UNCHANGED <<attempt, ended, cancelled>>

Begin(w, t) ==
  /\ phase[t] = "owed"
  /\ attempt[w] = NoTask
  /\ attempt' = [attempt EXCEPT ![w] = t]
  /\ UNCHANGED <<phase, ended, cancelled>>

\* The attempt has run to its end, whether it succeeded or failed.
End(w) ==
  /\ attempt[w] # NoTask
  /\ ended' = ended \cup {w}
  /\ UNCHANGED <<phase, attempt, cancelled>>

\* w is free again.
Free(w) ==
  /\ attempt' = [attempt EXCEPT ![w] = NoTask]
  /\ ended' = ended \ {w}
  /\ UNCHANGED cancelled

\* The attempt does not settle the task: lost, or no longer counted.
Lose(w) ==
  /\ attempt[w] # NoTask
  /\ Free(w)
  /\ UNCHANGED phase

\* The attempt w has made at t counts once it has ended; one that has not
\* settles nothing, unless it is stopped because t was cancelled.
SettleBy(w, t) ==
  /\ attempt[w] = t
  /\ w \in ended \/ t \in cancelled
  /\ phase[t] = "owed"
  /\ phase' = [phase EXCEPT ![t] = "settled"]
  /\ Free(w)

\* A cancelled task that nobody attempts is dropped.
DropTask(t) ==
  /\ t \in cancelled
  /\ phase[t] = "owed"
  /\ phase' = [phase EXCEPT ![t] = "settled"]
  /\ UNCHANGED <<attempt, ended, cancelled>>

\* Cancellations are requested, and may be forgotten.
Cancel ==
  /\ cancelled' \in SUBSET Task
  /\ UNCHANGED <<phase, attempt, ended>>

DeliveryNext ==
  \/ \E t \in Task : Submit(t) \/ DropTask(t)
  \/ \E w \in Worker : End(w) \/ Lose(w)
  \/ \E w \in Worker, t \in Task : Begin(w, t) \/ SettleBy(w, t)
  \/ Cancel

DeliverySpec == DeliveryInit /\ [][DeliveryNext]_dvars

\* What is owed is settled in the end.
OwedIsSettled == \A t \in Task : phase[t] = "owed" ~> phase[t] = "settled"

=============================================================================
