----------------------------- MODULE MCEventBus -----------------------------
(* Small instances of EventBus. *)
EXTENDS EventBus, TLC

\* Publishers are interchangeable (safety runs only).
Publishers == Permutations(Publisher)

=============================================================================
