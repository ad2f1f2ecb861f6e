---------------------------- MODULE MCDocuments ----------------------------
(* Instances of Documents for TLC: the columns of a memory that its queries   *)
(* use, one of tags, and a key in the metadata, with every kind of value;     *)
(* the application's queries, and some that only the translator's tests make. *)
EXTENDS Documents

Agents == "agent_id"
Ttl == "ttl"
Tags == "tags"
Meta == "metadata.workflow_id"
Plain == {Agents, Ttl}
Arrays == {Tags}
Dotted == {Meta}

A == TextOf(1)
B == TextOf(2)
Now == NumberOf(5)

Document(agent, ttl, tags, meta) ==
  (Agents :> agent) @@ (Ttl :> ttl) @@ (Tags :> ArrayOf(tags)) @@ (Meta :> meta)

Samples ==
  {Document(A, SqlNull, {1}, A), Document(A, NumberOf(4), {1, 2}, NumberOf(1)),
   Document(B, NumberOf(6), {}, ArrayOf({1})), Document(A, Now, {2}, SqlNull),
   Document(B, NumberOf(4), {2}, Missing), Document(A, SqlNull, {}, TextOf(-1)),
   Document(B, SqlNull, {1}, ObjectOf({1}))}

Nothing == [path |-> Agents, arg |-> SqlNull, args |-> {}, yes |-> TRUE, any |-> {}, op |-> "is"]
Cond(path, op, x) == [Nothing EXCEPT !.path = path, !.op = op, !.arg = x]
In(path, xs) == [Nothing EXCEPT !.path = path, !.op = "$in", !.args = xs]
Exists(path, yes) == [Nothing EXCEPT !.path = path, !.op = "$exists", !.yes = yes, !.arg = A]

Select(f, sort, limit, skip) == [filter |-> f, sort |-> sort, limit |-> limit, skip |-> skip]

\* "ttl": {"$ne": Nothing, "$lt": now}
Expired == {Cond(Ttl, "$ne", SqlNull), Cond(Ttl, "$lt", Now)}
Pruning == {Expired}

\* "agent_id": a, "$or": [{"key": {"$regex": q}}, {"value": {"$regex": q}}]
Search == {Cond(Agents, "is", A), [Nothing EXCEPT !.op = "$or", !.any = {Cond(Meta, "$regex", A)}]}

Asked ==
  {Select({}, "", {}, 0), Select({}, "-created_at", {2}, 1),
   Select({Cond(Agents, "is", A)}, "", {1}, 0),
   Select({Cond(Agents, "is", A)}, "-created_at", {1}, 0),
   Select({Cond(Agents, "is", B)}, "+created_at", {2}, 0),
   Select({In(Agents, {A, B})}, "-created_at", {1}, 1),
   Select({In(Agents, {})}, "", {}, 0),
   Select({In(Tags, {A}), Cond(Agents, "is", A)}, "", {}, 0),
   Select({In(Tags, {A, B})}, "", {2}, 0),
   Select({Cond(Tags, "is", A)}, "+created_at", {}, 1),
   Select({Cond(Ttl, "is", SqlNull)}, "", {}, 0),
   Select(Expired, "", {}, 0), Select(Search, "-created_at", {1}, 0)}
  \cup {Select({Cond(p, op, x)}, "+created_at", {}, 0) :
          <<p, op, x>> \in {<<Ttl, "$lt", Now>>, <<Ttl, "$gte", Now>>, <<Agents, "$ne", A>>,
                            <<Meta, "is", A>>, <<Meta, "is", SqlNull>>, <<Meta, "$ne", A>>,
                            <<Meta, "$lt", NumberOf(2)>>, <<Meta, "$gt", Now>>}}
  \cup {Select({In(Meta, {A, B})}, "+created_at", {}, 0),
        Select({Exists(Ttl, TRUE)}, "+created_at", {}, 0),
        Select({Exists(Meta, FALSE)}, "+created_at", {}, 0)}
=============================================================================
