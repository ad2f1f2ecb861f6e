------------------------------ MODULE MCMemory ------------------------------
(* Instances of Memory for TLC: a memory of an agent and one of a session,   *)
(* with the same agent and key; only the latter has a ttl.                   *)
EXTENDS Memory

Lasting == [agent |-> "a", scope |-> "agent", key |-> "x"]
Passing == [agent |-> "a", scope |-> "session", key |-> "x"]
TwoIdentities == {Lasting, Passing}
OneExpires == {Passing}
=============================================================================
