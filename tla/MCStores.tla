------------------------------ MODULE MCStores ------------------------------
(* The instance of Stores for TLC.  The same few values are the actors and   *)
(* the ids of every store, so that one small symmetry group serves them all. *)
EXTENDS Stores, MCMemory, MCCustomTools, MCDocuments, MCMigration, TLC

CONSTANTS a1, a2, a3, x1, x2

Symmetry == Permutations({a1, a2, a3}) \cup Permutations({x1, x2})
=============================================================================
