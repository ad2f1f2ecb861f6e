---------------------------- MODULE MCMigration ----------------------------
(* An instance of Migration for TLC: any documents in one collection and none *)
(* in another, or at most one in each, of which PostgreSQL refuses the first. *)
EXTENDS Migration

Shaped(v, shape) == [v |-> v, shape |-> shape]
OneOfEach == {Shaped(1, "whole"), Shaped(2, "loose"), Shaped(1, "lacks"), Shaped(1, "odd")}

AnyOf(ids, docs) == UNION {[I -> docs] : I \in SUBSET ids}
Two == {"agents", "memories"}
Small(docs) == {f \in AnyOf(DocId, docs) : Cardinality(DOMAIN f) <= 1}
FullAndSmall ==
  {[c \in Two |-> IF c = "memories" THEN f ELSE << >>] : f \in AnyOf(DocId, OneOfEach)}
    \cup {[c \in Two |-> IF c = "memories" THEN f ELSE g] :
             f \in Small({Shaped(1, "lacks")}), g \in Small({Shaped(1, "whole")})}
=============================================================================
