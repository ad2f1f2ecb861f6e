----------------------------- MODULE AgentRun -----------------------------
(***************************************************************************)
(* run_agent: the preparation of a prompt (AgentSetup) and the loop it is  *)
(* then handed to (AgentLoop).  What was prepared matters to the loop only *)
(* through the path; the inputs are dropped when it starts.                *)
(***************************************************************************)
EXTENDS AgentSetup, AgentLoop

NoSetup == [provider |-> "none", servers |-> <<>>, customs |-> <<>>, skills |-> <<>>,
            tagged |-> <<>>]

RunInit == SetupInit /\ LoopInit

\* The routing at the end of run_agent's preparation.
Route ==
  /\ Start(ResolvedPath(setup))
  /\ setup' = NoSetup

RunNext ==
  \/ Route
  \/ pc # "idle" /\ LoopSteps /\ UNCHANGED setup

RunSpec == RunInit /\ [][RunNext]_<<vars, setup>> /\ Progress
=============================================================================
