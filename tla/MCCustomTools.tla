--------------------------- MODULE MCCustomTools ---------------------------
(* An instance of CustomTools for TLC: a plugin and a tool of a user, whose   *)
(* source has two versions; two variables, each for a token, and a workflow   *)
(* that redirects one of them to the other's.                                *)
EXTENDS CustomTools, TLC

SourceFiles == "sp" :> "p" @@ "s1" :> "n" @@ "s2" :> "n"
PluginFiles == "p" :> "sp"
EachItsToken == {[v \in {"e1", "e2"} |-> IF v = "e1" THEN "k1" ELSE "k2"]}

NoOverride == [v \in {} |-> "k1"]
OneOverride == {NoOverride, [v \in {"e1"} |-> "k2"]}
AtFirst ==
  {[name |-> Defines[s], source |-> s, schema |-> s, env |-> e, plugin |-> s = "sp", enabled |-> TRUE] :
     s \in {"sp", "s1"}, e \in Mappings}
=============================================================================
