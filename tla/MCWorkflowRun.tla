--------------------------- MODULE MCWorkflowRun ---------------------------
(* Instances of WorkflowRun for TLC. *)
EXTENDS WorkflowRun, TLC

Symmetry == Permutations(Task) \cup Permutations(Worker) \cup Permutations(Api)
=============================================================================
