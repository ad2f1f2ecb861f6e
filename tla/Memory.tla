------------------------------- MODULE Memory -------------------------------
(***************************************************************************)
(* The memories of agents, in three tiers: the documents (LTM), the recent *)
(* entries of each agent in a Redis sorted set (STM), and the vectors.     *)
(* store writes all three, one call after the other and without a lock;    *)
(* the DELETE and PUT routes, the TTL and the warm-up at application start *)
(* change some of them; build_memory_context reads the first that answers. *)
(*                                                                         *)
(* An operation is a coroutine of its own (m), in the API process or in a  *)
(* worker.  The value a store writes is the coroutine that wrote it.  What *)
(* happens inside the vector store is module VectorStore.                  *)
(***************************************************************************)
EXTENDS Integers, FiniteSets

CONSTANTS
  Identities,   \* records [agent, scope, key]
  Expiring,     \* the identities that are stored with a ttl in this instance
  MemActor,     \* coroutines, each of which runs one operation
  NoActor,      \* nobody
  Flows,        \* workflows that the metadata of a memory may name
  NoFlow,       \* none of them
  MaxBusy,      \* bound: operations in progress at the same time
  LtmCap,       \* settings.ltm_max_entries, 0 for no limit
  StmMax        \* settings.stm_max_entries

ASSUME NobodyIsNoActor == NoActor \notin MemActor
ASSUME NoneIsNoFlow == NoFlow \notin Flows
ASSUME CapsAreNaturals == LtmCap \in Nat /\ StmMax \in Nat \ {0}

VARIABLES
  ltm,       \* the memory documents
  stm,       \* the members of the agents' sorted sets
  vec,       \* [Identities -> the value of the payload of its point]
  memClock,  \* the time: what updated_at is taken from
  memOps,    \* [MemActor -> what the coroutine is doing]
  fresh,     \* history: the value that every tier should serve, if it is known
  gone,      \* history: identities whose deletion nothing disturbed
  raced,     \* history: identities of which two stores overlapped, or of which a
             \* PUT has brought a document back
  spilled    \* history: agents and tiers where an error has prevented the trimming,
             \* or a PUT has brought a document back, since they were last counted

memVars == <<ltm, stm, vec, memClock, memOps, fresh, gone, raced, spilled>>

-----------------------------------------------------------------------------
(* Documents, entries, coroutines *)

Values == MemActor \cup {NoActor}

\* no tells documents apart, also when they have the same identity.  flow: the
\* workflow_id of its metadata, which only session memories are asked for.
Doc == [no : MemActor, ident : Identities, value : Values, flow : Flows \cup {NoFlow}, at : Nat,
        ttl : BOOLEAN]
Named(k) == IF k.scope = "session" THEN Flows \cup {NoFlow} ELSE {NoFlow}
Entry == [ident : Identities, value : Values, at : Nat]
EntryOf(d) == [ident |-> d.ident, value |-> d.value, at |-> d.at]

StorePcs == {"find", "write", "count", "list", "forget", "vector", "zrange", "zrem", "zadd"}
DeletePcs == {"drange", "drem", "ddoc"}
UpdatePcs == {"uset"}
WarmupPcs == {"wclear", "wadd"}
TrimPcs == {"zcard", "ztrim"}

\* found: the document read.  left: documents still to be deleted or loaded.
\* raw: the entry to remove.  excess: the entries or documents too many.
\* clean: no operation on the same identity has overlapped with this one.
\* whole: it has reached every tier so far.
Idle == [pc |-> "idle", ident |-> {}, found |-> {}, at |-> 0, left |-> {}, raw |-> {},
         excess |-> 0, clean |-> FALSE, whole |-> TRUE]

Busy == {m \in MemActor : memOps[m].pc \notin {"idle", "done"}}

OfAgent(set, a) == {e \in set : e.ident.agent = a}
Having(set, k) == {e \in set : e.ident = k}

\* The n of them that have the lowest, or the highest, stamps.
Oldest(set, n) == {e \in set : Cardinality({f \in set : f.at < e.at}) < n}
Newest(set, n) == {e \in set : Cardinality({f \in set : f.at > e.at}) < n}

AgentOf(m) == (CHOOSE k \in memOps[m].ident : TRUE).agent
MemAgents == {k.agent : k \in Identities}

MemoryTypeOK ==
  /\ ltm \subseteq Doc
  /\ stm \subseteq Entry
  /\ vec \in [Identities -> Values]
  /\ memClock \in Nat
  /\ \A m \in MemActor :
       /\ memOps[m].pc \in {"idle", "done"} \cup StorePcs \cup DeletePcs \cup UpdatePcs
                             \cup WarmupPcs \cup TrimPcs
       /\ memOps[m].ident \subseteq Identities
       /\ memOps[m].found \subseteq Doc /\ Cardinality(memOps[m].found) <= 1
       /\ memOps[m].left \subseteq Doc
       /\ memOps[m].raw \subseteq Entry
       /\ memOps[m].excess \in Nat
  /\ fresh \in [Identities -> Values]
  /\ gone \subseteq Identities
  /\ raced \subseteq Identities
  /\ spilled \subseteq MemAgents \X {"ltm", "stm"}

MemoryInit ==
  /\ ltm = {}
  /\ stm = {}
  /\ vec = [k \in Identities |-> NoActor]
  /\ memClock = 0
  /\ memOps = [m \in MemActor |-> Idle]
  /\ fresh = [k \in Identities |-> NoActor]
  /\ gone = {}
  /\ raced = {}
  /\ spilled = {}

-----------------------------------------------------------------------------
(* Starting an operation, and what it disturbs *)

\* The coroutines whose operation concerns one of the identities.
On(ids) == {m \in Busy : memOps[m].ident \cap ids # {}}

\* m starts, as rec; it and the operations it overlaps with are not clean.
Begin(m, rec) ==
  /\ memOps[m] = Idle
  /\ Cardinality(Busy) < MaxBusy
  /\ memOps' = [x \in MemActor |->
       IF x = m THEN [rec EXCEPT !.clean = @ /\ On(rec.ident) = {}]
       ELSE IF x \in On(rec.ident) THEN [memOps[x] EXCEPT !.clean = FALSE] ELSE memOps[x]]

\* store: POST /api/memories, and the store_memory tool by either way.
BeginStore(m, k) ==
  /\ Begin(m, [Idle EXCEPT !.pc = "find", !.ident = {k}, !.clean = TRUE])
  /\ fresh' = [fresh EXCEPT ![k] = NoActor]
  /\ gone' = gone \ {k}
  /\ raced' = IF \E x \in On({k}) : memOps[x].pc \in StorePcs \cup TrimPcs
              THEN raced \cup {k} ELSE raced
  /\ UNCHANGED <<ltm, stm, vec, memClock, spilled>>

\* DELETE /api/memories/{id}: the document is read.
BeginDelete(m) ==
  /\ \E d \in ltm :
       /\ Begin(m, [Idle EXCEPT !.pc = "drange", !.ident = {d.ident}, !.found = {d},
                      !.clean = /\ Cardinality(Having(ltm, d.ident)) = 1
                                /\ Cardinality(Having(stm, d.ident)) <= 1])
       /\ fresh' = [fresh EXCEPT ![d.ident] = NoActor]
  /\ UNCHANGED <<ltm, stm, vec, memClock, gone, raced, spilled>>

\* PUT /api/memories/{id}: the document is read.  That it may also give it
\* another scope or key is left out.
BeginUpdate(m) ==
  /\ \E d \in ltm :
       /\ Begin(m, [Idle EXCEPT !.pc = "uset", !.ident = {d.ident}, !.found = {d}, !.at = memClock + 1])
       /\ fresh' = [fresh EXCEPT ![d.ident] = NoActor]
  /\ memClock' = memClock + 1
  /\ UNCHANGED <<ltm, stm, vec, gone, raced, spilled>>

\* warmup_all_agents, for one agent: its newest documents are read.
BeginWarmup(m, a) ==
  /\ OfAgent(ltm, a) # {}
  /\ Begin(m, [Idle EXCEPT !.pc = "wclear", !.ident = {k \in Identities : k.agent = a},
                           !.left = Newest(OfAgent(ltm, a), StmMax)])
  /\ UNCHANGED <<ltm, stm, vec, memClock, fresh, gone, raced, spilled>>

\* Something else changes documents of these identities.
Disturbed(ids) ==
  [m \in MemActor |-> IF m \in On(ids) THEN [memOps[m] EXCEPT !.clean = FALSE] ELSE memOps[m]]
Unknown(ids) == fresh' = [k \in Identities |-> IF k \in ids THEN NoActor ELSE fresh[k]]

At(m, pc) == memOps[m].pc = pc
Step(m, rec) == memOps' = [memOps EXCEPT ![m] = rec]
Then(m, pc) == Step(m, [memOps[m] EXCEPT !.pc = pc])

-----------------------------------------------------------------------------
(* store: the document *)

\* find_one({agent_id, scope, key})
Matching(k) == Having(ltm, k)

\* The answer of find_one, and the time the document will carry.
Find(m) ==
  /\ At(m, "find")
  /\ \E k \in memOps[m].ident :
       \E found \in IF Matching(k) = {} THEN {{}} ELSE {{d} : d \in Matching(k)} :
         Step(m, [memOps[m] EXCEPT !.pc = "write", !.found = found, !.at = memClock + 1])
  /\ memClock' = memClock + 1
  /\ UNCHANGED <<ltm, stm, vec, fresh, gone, raced, spilled>>

\* Mutant: the value is not part of the update.
RewrittenKeepsValue(m, d, w) == [d EXCEPT !.flow = w, !.at = memOps[m].at]

\* existing.set(update_data): every caller gives the metadata.
Rewritten(m, d, w) == [d EXCEPT !.value = m, !.flow = w, !.at = memOps[m].at]

Created(m, k, w) ==
  [no |-> m, ident |-> k, value |-> m, flow |-> w, at |-> memOps[m].at, ttl |-> k \in Expiring]

\* A document that was deleted meanwhile comes back (PostgreSQL saves it whole)
\* or stays away (MongoDB's update matches nothing).
Write(m) ==
  /\ At(m, "write")
  /\ \E k \in memOps[m].ident : \E w \in Named(k) :
       IF memOps[m].found = {}
       THEN ltm' = ltm \cup {Created(m, k, w)}
       ELSE \E d \in memOps[m].found :
              LET same == {e \in ltm : e.no = d.no}
                  base == IF same = {} THEN d ELSE CHOOSE e \in same : TRUE
              IN \/ ltm' = (ltm \ same) \cup {Rewritten(m, base, w)}
                 \/ same = {} /\ ltm' = ltm
  /\ Then(m, IF LtmCap = 0 THEN "vector" ELSE "count")
  /\ UNCHANGED <<stm, vec, memClock, fresh, gone, raced, spilled>>

-----------------------------------------------------------------------------
(* store: _enforce_ltm_cap *)

\* Mutant: one document too many is tolerated.
ExcessOfOneTolerated(set) == Cardinality(set) - LtmCap - 1

LtmExcess(set) == Cardinality(set) - LtmCap

CountDocuments(m) ==
  /\ At(m, "count")
  /\ LET n == LtmExcess(OfAgent(ltm, AgentOf(m)))
     IN IF n <= 0 THEN Then(m, "vector")
        ELSE Step(m, [memOps[m] EXCEPT !.pc = "list", !.excess = n])
  /\ spilled' = spilled \ {<<AgentOf(m), "ltm">>}
  /\ UNCHANGED <<ltm, stm, vec, memClock, fresh, gone, raced>>

\* The documents may be others than those counted.
ListOldest(m) ==
  /\ At(m, "list")
  /\ LET oldest == Oldest(OfAgent(ltm, AgentOf(m)), memOps[m].excess)
     IN Step(m, [memOps[m] EXCEPT !.pc = IF oldest = {} THEN "vector" ELSE "forget",
                                  !.left = oldest, !.excess = 0])
  /\ UNCHANGED <<ltm, stm, vec, memClock, fresh, gone, raced, spilled>>

\* mem.delete(), one document after the other, be it as it was listed or stored
\* again since.
Forget(m) ==
  /\ At(m, "forget")
  /\ \E d \in Oldest(memOps[m].left, 1) :
       LET left == memOps[m].left \ {d}
       IN /\ ltm' = {e \in ltm : e.no # d.no}
          /\ memOps' = [Disturbed({d.ident}) EXCEPT
               ![m] = [memOps[m] EXCEPT !.pc = IF left = {} THEN "vector" ELSE "forget", !.left = left]]
          /\ IF d \in ltm THEN UNCHANGED fresh ELSE Unknown({d.ident})
  /\ UNCHANGED <<stm, vec, memClock, gone, raced, spilled>>

\* An error of the database ends the store where it is.
StoreRaises(m) ==
  /\ memOps[m].pc \in {"find", "write", "count", "list", "forget"}
  /\ Step(m, [Idle EXCEPT !.pc = "done"])
  /\ spilled' = IF memOps[m].pc \in {"count", "list", "forget"}
                THEN spilled \cup {<<AgentOf(m), "ltm">>} ELSE spilled
  /\ UNCHANGED <<ltm, stm, vec, memClock, fresh, gone, raced>>

-----------------------------------------------------------------------------
(* store: the vector, and the short-term memory *)

\* _upsert_vector_store, whose errors are logged.  Without an embedding (it is
\* off, or embed_one has failed) the point stays what it was as well.
StoreVector(m) ==
  /\ At(m, "vector")
  /\ \E k \in memOps[m].ident :
       \/ /\ vec' = [vec EXCEPT ![k] = m]
          /\ Then(m, "zrange")
       \/ /\ Step(m, [memOps[m] EXCEPT !.pc = "zrange", !.whole = @ /\ vec[k] = NoActor])
          /\ UNCHANGED vec
  /\ UNCHANGED <<ltm, stm, memClock, fresh, gone, raced, spilled>>

\* push_memory looks for the first entry of the same identity, ...
Zrange(m) ==
  /\ At(m, "zrange")
  /\ \E k \in memOps[m].ident :
       LET raw == Oldest(Having(stm, k), 1)
       IN Step(m, [memOps[m] EXCEPT !.raw = raw, !.pc = IF raw = {} THEN "zadd" ELSE "zrem"])
  /\ UNCHANGED <<ltm, stm, vec, memClock, fresh, gone, raced, spilled>>

\* ... removes that one ...
Zrem(m) ==
  /\ At(m, "zrem")
  /\ stm' = stm \ memOps[m].raw
  /\ Step(m, [memOps[m] EXCEPT !.pc = "zadd", !.raw = {}])
  /\ UNCHANGED <<ltm, vec, memClock, fresh, gone, raced, spilled>>

\* ... and adds its own.
Zadd(m) ==
  /\ At(m, "zadd")
  /\ \E k \in memOps[m].ident :
       stm' = stm \cup {[ident |-> k, value |-> m, at |-> memOps[m].at]}
  /\ Then(m, "zcard")
  /\ UNCHANGED <<ltm, vec, memClock, fresh, gone, raced, spilled>>

\* A store that nothing disturbed and that reached every tier.
Finish(m) ==
  /\ memOps' = [memOps EXCEPT ![m] = [Idle EXCEPT !.pc = "done"]]
  /\ fresh' = [k \in Identities |->
       IF memOps[m].clean /\ memOps[m].whole /\ memOps[m].ident = {k} THEN m ELSE fresh[k]]

\* zcard: the entries are counted ...
Zcard(m) ==
  /\ At(m, "zcard")
  /\ LET n == Cardinality(OfAgent(stm, AgentOf(m))) - StmMax
     IN IF n <= 0 THEN Finish(m)
        ELSE Step(m, [memOps[m] EXCEPT !.pc = "ztrim", !.excess = n]) /\ UNCHANGED fresh
  /\ spilled' = spilled \ {<<AgentOf(m), "stm">>}
  /\ UNCHANGED <<ltm, stm, vec, memClock, gone, raced>>

Trimmed(set, n) == Oldest(set, n)

\* ... zremrangebyrank: as many as were counted too many, whichever they are.
Ztrim(m) ==
  /\ At(m, "ztrim")
  /\ stm' = stm \ Trimmed(OfAgent(stm, AgentOf(m)), memOps[m].excess)
  /\ Finish(m)
  /\ UNCHANGED <<ltm, vec, memClock, gone, raced, spilled>>

\* An error of Redis: store and the warm-up log it and are done.
StmFails(m) ==
  /\ memOps[m].pc \in {"zrange", "zrem", "zadd"} \cup WarmupPcs \cup TrimPcs
  /\ Step(m, [Idle EXCEPT !.pc = "done"])
  /\ spilled' = IF memOps[m].pc \in TrimPcs THEN spilled \cup {<<AgentOf(m), "stm">>} ELSE spilled
  /\ UNCHANGED <<ltm, stm, vec, memClock, fresh, gone, raced>>

-----------------------------------------------------------------------------
(* The other operations *)

\* Mutant: the short-term memory is not told.
DeleteSkipsStm(m) ==
  /\ At(m, "drange")
  /\ Then(m, "ddoc")
  /\ UNCHANGED <<ltm, stm, vec, memClock, fresh, gone, raced, spilled>>

\* delete_memory: remove_memory, best effort, ...
DeleteZrange(m) ==
  /\ At(m, "drange")
  /\ \E k \in memOps[m].ident :
       LET raw == Oldest(Having(stm, k), 1)
       IN \/ Step(m, [memOps[m] EXCEPT !.raw = raw, !.pc = IF raw = {} THEN "ddoc" ELSE "drem"])
          \/ Step(m, [memOps[m] EXCEPT !.whole = FALSE, !.pc = "ddoc"])
  /\ UNCHANGED <<ltm, stm, vec, memClock, fresh, gone, raced, spilled>>

DeleteZrem(m) ==
  /\ At(m, "drem")
  /\ \/ /\ stm' = stm \ memOps[m].raw
        /\ Then(m, "ddoc")
     \/ /\ Step(m, [memOps[m] EXCEPT !.whole = FALSE, !.pc = "ddoc"])
        /\ UNCHANGED stm
  /\ UNCHANGED <<ltm, vec, memClock, fresh, gone, raced, spilled>>

\* ... then the document.  The vector is left.
DeleteDocument(m) ==
  /\ At(m, "ddoc")
  /\ \E d \in memOps[m].found :
       /\ ltm' = {e \in ltm : e.no # d.no}
       /\ gone' = IF memOps[m].clean /\ memOps[m].whole THEN gone \cup {d.ident} ELSE gone
  /\ Step(m, [Idle EXCEPT !.pc = "done"])
  /\ UNCHANGED <<stm, vec, memClock, fresh, raced, spilled>>

\* PUT: the document is written, and no other tier.  The value counts as unknown
\* whatever the body sets.  A document deleted since the read matches nothing
\* (MongoDB) or comes back (PostgreSQL saves it whole), without any look at the
\* cap; a set that fails changes nothing.
UpdateMemory(m) ==
  /\ At(m, "uset")
  /\ \E d \in memOps[m].found : \E w \in Named(d.ident) :
       LET same == {e \in ltm : e.no = d.no}
           base == IF same = {} THEN d ELSE CHOOSE e \in same : TRUE
       IN \/ UNCHANGED <<ltm, raced, spilled>>
          \/ /\ ltm' = (ltm \ same) \cup {[base EXCEPT !.value = NoActor, !.flow = w, !.at = memOps[m].at]}
             /\ IF same # {} THEN UNCHANGED <<raced, spilled>>
                ELSE raced' = raced \cup {d.ident} /\ spilled' = spilled \cup {<<d.ident.agent, "ltm">>}
  /\ Step(m, [Idle EXCEPT !.pc = "done"])
  /\ UNCHANGED <<stm, vec, memClock, fresh, gone>>

\* prune, whenever a context is built: the documents whose ttl is over.  With
\* PostgreSQL the filter selects none of them (see Documents).
Prune ==
  /\ \E d \in ltm : d.ttl
  /\ ltm' = {d \in ltm : ~d.ttl}
  /\ LET ids == {d.ident : d \in {e \in ltm : e.ttl}}
     IN memOps' = Disturbed(ids) /\ Unknown(ids)
  /\ UNCHANGED <<stm, vec, memClock, gone, raced, spilled>>

\* The warm-up clears the agent's set and fills it with what it has read.
WarmupClear(m) ==
  /\ At(m, "wclear")
  /\ stm' = stm \ OfAgent(stm, AgentOf(m))
  /\ Then(m, "wadd")
  /\ UNCHANGED <<ltm, vec, memClock, fresh, gone, raced, spilled>>

WarmupFill(m) ==
  /\ At(m, "wadd")
  /\ stm' = stm \cup {EntryOf(d) : d \in memOps[m].left}
  /\ Step(m, [memOps[m] EXCEPT !.pc = "zcard", !.left = {}])
  /\ UNCHANGED <<ltm, vec, memClock, fresh, gone, raced, spilled>>

-----------------------------------------------------------------------------
(* build_memory_context *)

\* The vectors answer only when a memory is similar to the query; the documents
\* only when neither they nor the short-term memory have anything.
Hits(a) == {k \in Identities : k.agent = a /\ vec[k] # NoActor}

\* The documents asked for on behalf of agent a in workflow w: those of the agent,
\* the global ones of every agent, and the session memories whose metadata name
\* the workflow.
Shown(d, a, w) ==
  \/ d.ident.scope = "global"
  \/ d.ident.agent = a /\ (d.ident.scope = "session" => w # NoFlow /\ d.flow = w)

\* What a tier answers, newest first.  Only the documents are told by workflow.
Visible(tier, a, w) ==
  IF tier = "stm" THEN OfAgent(stm, a)
  ELSE {EntryOf(d) : d \in {e \in ltm : Shown(e, a, w)}}

\* Only the first entry of a (scope, key) is used.
FirstOfEach(set) ==
  {e \in set : ~\E f \in set : /\ f.ident.scope = e.ident.scope
                               /\ f.ident.key = e.ident.key /\ f.at > e.at}

Recalled(tier, a, w) ==
  IF tier = "vec" THEN {[ident |-> k, value |-> vec[k], at |-> 0] : k \in Hits(a)}
  ELSE FirstOfEach(Visible(tier, a, w))

-----------------------------------------------------------------------------
(* The specification *)

MemoryNext ==
  \/ \E m \in MemActor :
       \/ \E k \in Identities : BeginStore(m, k)
       \/ BeginDelete(m) \/ BeginUpdate(m)
       \/ \E k \in Identities : BeginWarmup(m, k.agent)
       \/ Find(m) \/ Write(m) \/ CountDocuments(m) \/ ListOldest(m) \/ Forget(m)
       \/ StoreRaises(m) \/ StoreVector(m)
       \/ Zrange(m) \/ Zrem(m) \/ Zadd(m) \/ Zcard(m) \/ Ztrim(m) \/ StmFails(m)
       \/ DeleteZrange(m) \/ DeleteZrem(m) \/ DeleteDocument(m)
       \/ WarmupClear(m) \/ WarmupFill(m) \/ UpdateMemory(m)
  \/ Prune

MemorySpec == MemoryInit /\ [][MemoryNext]_memVars

-----------------------------------------------------------------------------
(* Properties *)

\* After a store that reached all three tiers and that no other operation on
\* the same memory overlapped, whichever tier answers shows the stored value or
\* does not know the memory: although earlier races may have left several
\* documents and entries of it, whatever happens to other memories, and
\* whenever the application restarts; unless the trimming of another store
\* takes one of its documents away meanwhile, or after it has changed.  The
\* documents are asked for in the workflows that are shown the stored one, or
\* the newest: after an earlier race another may name a workflow of its own,
\* which goes on being shown that.
FreshIsServed ==
  \A k \in Identities : \A w \in Flows \cup {NoFlow} :
    fresh[k] # NoActor =>
      \A tier \in {"vec", "stm", "ltm"} :
        (tier = "ltm" => \E d \in Having(ltm, k) :
                           /\ Shown(d, k.agent, w)
                           /\ d.value = fresh[k] \/ d \in Newest(Having(ltm, k), 1)) =>
          \A e \in Recalled(tier, k.agent, w) : e.ident = k => e.value = fresh[k]

\* The caps hold again whenever nobody is between adding and trimming, unless
\* an error ended a trimming, or a PUT has brought back a document deleted
\* under it, and nobody has counted since; although stores count, list and trim
\* by calls of their own.  An identity has a second document only after two
\* stores of it overlapped, or such a PUT: else store updates the first.
TiersBounded ==
  \A a \in MemAgents :
    /\ LtmCap > 0 /\ <<a, "ltm">> \notin spilled
         /\ (\A m \in Busy : memOps[m].pc \notin {"count", "list", "forget"})
         => Cardinality(OfAgent(ltm, a)) <= LtmCap
    /\ <<a, "stm">> \notin spilled /\ (\A m \in Busy : memOps[m].pc \notin TrimPcs)
         => Cardinality(OfAgent(stm, a)) <= StmMax
  /\ \A d, e \in ltm : d.ident = e.ident /\ d # e => d.ident \in raced

\* A memory that was deleted while nothing else touched it and while it had one
\* document and one entry does not come back in the documents or in the
\* short-term memory until it is stored again.
DeletedIsForgotten == \A k \in gone : Having(ltm, k) = {} /\ Having(stm, k) = {}
=============================================================================
