----------------------------- MODULE MCSchedule -----------------------------
(* Small instances of Schedule. *)
EXTENDS Schedule

With(mongo, postgres) == [d \in Database |-> IF d = "mongo" THEN mongo ELSE postgres]

\* With MongoDB every request, with PostgreSQL those that create and change a schedule.
EveryRequest == With(RequestKind, {"create", "update"})

\* What it takes to turn a schedule on and off.
Switching == With({"create", "enable", "disable"}, {})
Creating == With({"create"}, {})

=============================================================================
