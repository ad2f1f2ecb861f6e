----------------------------- MODULE VectorStore -----------------------------
(***************************************************************************)
(* The vector store of one process: the embedding model and the client or  *)
(* pool, each created when it is first needed, and the collection of the   *)
(* memories in Qdrant or in PostgreSQL with pgvector.  A coroutine stores  *)
(* a vector (embed, create_collection, upsert) or searches; every call of  *)
(* a service may fail, and the process may be restarted.  A worker runs    *)
(* each task in an event loop of its own, while the adapter is kept.       *)
(***************************************************************************)
EXTENDS Naturals, FiniteSets

CONSTANTS
  VecCoro,      \* coroutines, each of which runs one operation
  NoCoro,       \* nobody
  Sizes,        \* dimensions of the vectors that are stored
  MaxCalls,     \* bound: operations in progress at the same time
  MaxRestarts   \* bound: restarts of the process

ASSUME NobodyIsNoCoro == NoCoro \notin VecCoro
ASSUME SizesArePositive == Sizes \subseteq Nat \ {0}
ASSUME VecBounds == MaxCalls \in Nat /\ MaxRestarts \in Nat

VARIABLES
  backend,     \* settings.vector_store_backend
  model,       \* EmbeddingsService: "none", "loaded", or "failed" for good
  modelLock,   \* who holds its _init_lock
  loads,       \* loads that have been started in this process
  client,      \* the adapter has a client or a pool
  clientLock,  \* who holds its _init_lock
  opened,      \* clients and pools that this process has opened
  stale,       \* the event loop that the client or pool was made in is closed
  metaTable,   \* the registry table exists
  table,       \* the dimension of the collection, 0 when there is none
  metaRow,     \* the dimension the registry has for it, 0 when there is none
  metaCache,   \* the same in _meta_cache
  points,      \* the dimensions of the points that are stored
  vecOps,      \* [VecCoro -> what the coroutine is doing]
  restarts     \* restarts so far

vecVars == <<backend, model, modelLock, loads, client, clientLock, opened, stale, metaTable,
             table, metaRow, metaCache, points, vecOps, restarts>>
embedder == <<model, modelLock, loads>>
adapter == <<client, clientLock, opened, stale>>
database == <<metaTable, table, metaRow, metaCache, points>>
fixed == <<backend, restarts>>

-----------------------------------------------------------------------------
(* Coroutines *)

Resting == {"idle", "stored", "found", "skipped", "failed"}
VecPcs == Resting \cup
  {"embed", "model_lock", "model_load", "client", "client_lock", "client_open", "boot",
   "table", "index", "register", "exists", "create", "upsert", "meta", "query"}

\* alone: no other operation has overlapped.  faulty: a service has failed.
VecOp == [pc : VecPcs, op : {"store", "search"}, size : Sizes \cup {0},
          alone : BOOLEAN, faulty : BOOLEAN]
Unstarted == [pc |-> "idle", op |-> "store", size |-> 0, alone |-> TRUE, faulty |-> FALSE]

VectorTypeOK ==
  /\ backend \in {"pgvector", "qdrant"}
  /\ model \in {"none", "loaded", "failed"}
  /\ {modelLock, clientLock} \subseteq VecCoro \cup {NoCoro}
  /\ loads \in Nat /\ opened \in Nat
  /\ {client, stale} \subseteq BOOLEAN
  /\ metaTable \in BOOLEAN
  /\ {table, metaRow, metaCache} \subseteq Sizes \cup {0}
  /\ points \subseteq Sizes
  /\ vecOps \in [VecCoro -> VecOp]
  /\ restarts \in 0..MaxRestarts

VectorInit ==
  /\ backend \in {"pgvector", "qdrant"}
  /\ model \in {"none", "loaded"}     \* a worker may have loaded it before the fork
  /\ modelLock = NoCoro /\ clientLock = NoCoro
  /\ loads = 0 /\ opened = 0
  /\ client = FALSE /\ stale = FALSE
  /\ metaTable = FALSE
  /\ table = 0 /\ metaRow = 0 /\ metaCache = 0
  /\ points = {}
  /\ vecOps = [c \in VecCoro |-> Unstarted]
  /\ restarts = 0

Working == {c \in VecCoro : vecOps[c].pc \notin Resting}

Is(c, pc) == vecOps[c].pc = pc

\* What a coroutine was doing is forgotten when it is done.
Arrived(op, pc) == IF pc \in Resting THEN [op EXCEPT !.pc = pc, !.op = "store", !.size = 0]
              ELSE [op EXCEPT !.pc = pc]
Go(c, pc) == vecOps' = [vecOps EXCEPT ![c] = Arrived(@, pc)]
Fault(c, pc) == vecOps' = [vecOps EXCEPT ![c] = [Arrived(@, pc) EXCEPT !.faulty = TRUE]]

\* _upsert_vector_store and search_semantic start by embedding a text, unless
\* the request brought a vector of its own.
StartVector(c) ==
  /\ vecOps[c] = Unstarted
  /\ Cardinality(Working) < MaxCalls
  /\ \E op \in {"store", "search"}, size \in Sizes, first \in {"embed", "client"} :
       /\ op = "search" => first = "embed"
       /\ vecOps' = [x \in VecCoro |->
         IF x = c THEN [pc |-> first, op |-> op, size |-> size, alone |-> Working = {},
                        faulty |-> FALSE]
         ELSE IF x \in Working THEN [vecOps[x] EXCEPT !.alone = FALSE] ELSE vecOps[x]]
  /\ UNCHANGED <<fixed, embedder, adapter, database>>

-----------------------------------------------------------------------------
(* EmbeddingsService *)

\* _ensure_loaded before the lock, and embed_many when the model is there.
Embed(c) ==
  /\ Is(c, "embed")
  /\ \/ model = "none" /\ Go(c, "model_lock")
     \/ model = "failed" /\ Go(c, "skipped")
     \/ model = "loaded" /\ (Go(c, "client") \/ Fault(c, "skipped"))
  /\ UNCHANGED <<fixed, embedder, adapter, database>>

\* Under the lock: somebody else may have loaded it, or have failed.
LockModel(c) ==
  /\ Is(c, "model_lock")
  /\ modelLock = NoCoro
  /\ IF model = "none"
     THEN modelLock' = c /\ loads' = loads + 1 /\ Go(c, "model_load")
     ELSE Go(c, "embed") /\ UNCHANGED <<modelLock, loads>>
  /\ UNCHANGED <<fixed, model, adapter, database>>

LoadModel(c) ==
  /\ Is(c, "model_load")
  /\ \/ model' = "loaded" /\ Go(c, "embed")
     \/ model' = "failed" /\ Fault(c, "skipped")
  /\ modelLock' = NoCoro
  /\ UNCHANGED <<fixed, loads, adapter, database>>

-----------------------------------------------------------------------------
(* The lazily created client or pool *)

\* The first call of the adapter.
FirstCall(c) ==
  IF vecOps[c].op = "search" THEN IF backend = "qdrant" THEN "query" ELSE "meta"
  ELSE IF backend = "qdrant" THEN "exists" ELSE "table"

EnsureClient(c) ==
  /\ Is(c, "client")
  /\ Go(c, IF client THEN FirstCall(c) ELSE "client_lock")
  /\ UNCHANGED <<fixed, embedder, adapter, database>>

\* A Qdrant client is created on the spot, a pool connects.
LockClient(c) ==
  /\ Is(c, "client_lock")
  /\ clientLock = NoCoro
  /\ IF client THEN Go(c, FirstCall(c)) /\ UNCHANGED adapter
     ELSE IF backend = "qdrant"
     THEN client' = TRUE /\ opened' = opened + 1 /\ Go(c, FirstCall(c)) /\ UNCHANGED <<clientLock, stale>>
     ELSE clientLock' = c /\ Go(c, "client_open") /\ UNCHANGED <<client, opened, stale>>
  /\ UNCHANGED <<fixed, embedder, database>>

\* create_pool.  From here on other coroutines find the pool.
OpenPool(c) ==
  /\ Is(c, "client_open")
  /\ \/ client' = TRUE /\ opened' = opened + 1 /\ Go(c, "boot") /\ UNCHANGED clientLock
     \/ clientLock' = NoCoro /\ Fault(c, "failed") /\ UNCHANGED <<client, opened>>
  /\ UNCHANGED <<fixed, stale, embedder, database>>

\* The registry table is created once per process: if that fails, never.
Bootstrap(c) ==
  /\ Is(c, "boot")
  /\ clientLock' = NoCoro
  /\ \/ metaTable' = TRUE /\ Go(c, FirstCall(c))
     \/ Fault(c, "failed") /\ UNCHANGED metaTable
  /\ UNCHANGED <<fixed, embedder, client, opened, stale, table, metaRow, metaCache, points>>

-----------------------------------------------------------------------------
(* create_collection and upsert *)

Size(c) == vecOps[c].size

\* A pool answers only in the event loop that it was made in; an HTTP client may
\* open another connection.
Reachable == ~stale \/ backend = "qdrant"

\* Mutant: the collection is registered first.
CreateTableRegistersFirst(c) ==
  /\ Is(c, "table") /\ Reachable
  /\ metaTable
  /\ metaRow' = Size(c)
  /\ table' = table
  /\ Go(c, "index")
  /\ UNCHANGED <<fixed, embedder, adapter, metaTable, metaCache, points>>

\* CREATE TABLE IF NOT EXISTS: a table of another dimension stays.
CreateTable(c) ==
  /\ Is(c, "table") /\ Reachable
  /\ table' = IF table = 0 THEN Size(c) ELSE table
  /\ Go(c, "index")
  /\ UNCHANGED <<fixed, embedder, adapter, metaTable, metaRow, metaCache, points>>

\* Mutant: CREATE INDEX without IF NOT EXISTS.
CreateIndexOnce(c) ==
  /\ Is(c, "index") /\ Reachable
  /\ Go(c, IF metaRow = 0 THEN "register" ELSE "failed")
  /\ UNCHANGED <<fixed, embedder, adapter, database>>

CreateIndex(c) ==
  /\ Is(c, "index") /\ Reachable
  /\ Go(c, "register")
  /\ UNCHANGED <<fixed, embedder, adapter, database>>

\* INSERT ... ON CONFLICT DO UPDATE, and the cache.
Register(c) ==
  /\ Is(c, "register") /\ Reachable
  /\ IF metaTable
     THEN metaRow' = Size(c) /\ metaCache' = Size(c) /\ Go(c, "upsert")
     ELSE Go(c, "failed") /\ UNCHANGED <<metaRow, metaCache>>
  /\ UNCHANGED <<fixed, embedder, adapter, metaTable, table, points>>

\* Qdrant: collection_exists, ...
CollectionExists(c) ==
  /\ Is(c, "exists")
  /\ Go(c, IF table = 0 THEN "create" ELSE "upsert")
  /\ UNCHANGED <<fixed, embedder, adapter, database>>

\* ... then create_collection, which fails when it exists by now.
CreateCollection(c) ==
  /\ Is(c, "create")
  /\ IF table = 0 THEN table' = Size(c) /\ Go(c, "upsert") ELSE Go(c, "failed") /\ UNCHANGED table
  /\ UNCHANGED <<fixed, embedder, adapter, metaTable, metaRow, metaCache, points>>

\* The database refuses a vector of another dimension.
Upsert(c) ==
  /\ Is(c, "upsert") /\ Reachable
  /\ IF table = Size(c) THEN points' = points \cup {Size(c)} /\ Go(c, "stored")
     ELSE Go(c, "failed") /\ UNCHANGED points
  /\ UNCHANGED <<fixed, embedder, adapter, metaTable, table, metaRow, metaCache>>

-----------------------------------------------------------------------------
(* search *)

\* _get_collection_meta
LoadMeta(c) ==
  /\ Is(c, "meta") /\ (metaCache = 0 => Reachable)
  /\ IF metaCache # 0 THEN Go(c, "query") /\ UNCHANGED metaCache
     ELSE IF metaTable THEN metaCache' = metaRow /\ Go(c, "query")
     ELSE Go(c, "failed") /\ UNCHANGED metaCache
  /\ UNCHANGED <<fixed, embedder, adapter, metaTable, table, metaRow, points>>

\* A missing table is an empty answer with pgvector, an error with Qdrant.  A hit
\* makes the pgvector adapter raise: asyncpg returns its payload as a text, of
\* which dict() is taken.  There need be no hit, as only points of the agent count.
Query(c) ==
  /\ Is(c, "query") /\ Reachable
  /\ \/ backend = "qdrant" /\ Go(c, IF table = Size(c) THEN "found" ELSE "failed")
     \/ backend = "pgvector" /\ Go(c, "found")
     \/ /\ backend = "pgvector"
        /\ points # {} \/ table \notin {0, Size(c)}
        /\ Go(c, "failed")
  /\ UNCHANGED <<fixed, embedder, adapter, database>>

\* Any call of a database fails.
Calling(c) ==
  vecOps[c].pc \in {"table", "index", "register", "exists", "create", "upsert", "meta", "query"}
CallFails(c) ==
  /\ Calling(c)
  /\ Fault(c, "failed")
  /\ UNCHANGED <<fixed, embedder, adapter, database>>

\* A call by a client or pool of an event loop that is closed raises, although
\* the service is up; what is cached needs no call.
StaleCall(c) ==
  /\ stale
  /\ Calling(c) /\ (Is(c, "meta") => metaCache = 0)
  /\ Go(c, "failed")
  /\ UNCHANGED <<fixed, embedder, adapter, database>>

\* A worker's task ends, and with it the event loop of its asyncio.run.
NewLoop ==
  /\ client /\ Working = {}
  /\ stale' = TRUE
  /\ UNCHANGED <<fixed, embedder, client, clientLock, opened, database, vecOps>>

\* The process stops and starts again.
Restart ==
  /\ restarts < MaxRestarts
  /\ restarts' = restarts + 1
  /\ vecOps' = [c \in VecCoro |->
       IF c \in Working THEN [Arrived(vecOps[c], "failed") EXCEPT !.faulty = TRUE] ELSE vecOps[c]]
  /\ model' \in {"none", "loaded"}
  /\ client' = FALSE /\ stale' = FALSE /\ modelLock' = NoCoro /\ clientLock' = NoCoro
  /\ loads' = 0 /\ opened' = 0 /\ metaCache' = 0
  /\ UNCHANGED <<backend, metaTable, table, metaRow, points>>

VectorNext ==
  \/ \E c \in VecCoro :
       \/ StartVector(c) \/ Embed(c) \/ LockModel(c) \/ LoadModel(c)
       \/ EnsureClient(c) \/ LockClient(c) \/ OpenPool(c) \/ Bootstrap(c)
       \/ CreateTable(c) \/ CreateIndex(c) \/ Register(c)
       \/ CollectionExists(c) \/ CreateCollection(c) \/ Upsert(c)
       \/ LoadMeta(c) \/ Query(c) \/ CallFails(c) \/ StaleCall(c)
  \/ NewLoop \/ Restart

VectorSpec == VectorInit /\ [][VectorNext]_vecVars

-----------------------------------------------------------------------------
(* Properties *)

\* A process opens one client or pool and loads the model once (never again after
\* a failure), however many coroutines need them at the same time.  And a
\* collection that the registry or its cache knows has a table, of whose dimension
\* every point is, wherever a create_collection failed or the process was
\* restarted.  (The registry may name another dimension than the table has: the
\* last one that was asked for.)
BootstrapIsOnce ==
  /\ opened <= 1 /\ loads <= 1
  /\ metaRow # 0 => table # 0
  /\ metaCache # 0 => metaRow # 0
  /\ points \subseteq {table}

\* An operation alone, whose calls all succeed and whose vector has the
\* collection's dimension, does not fail, whatever failed halfway before it, with
\* four exceptions: the client is of a task that has ended; this process has a
\* pool but failed to create the registry table; a Qdrant search before anything
\* was stored; a pgvector search when something is.
AloneSucceeds ==
  [][\A c \in VecCoro :
       /\ vecOps[c].pc # "failed" /\ vecOps'[c].pc = "failed"
       /\ vecOps'[c].alone /\ ~vecOps'[c].faulty
       => \/ table \notin {0, Size(c)}
          \/ stale
          \/ backend = "pgvector" /\ client /\ ~metaTable
          \/ backend = "qdrant" /\ vecOps[c].op = "search" /\ table = 0
          \/ backend = "pgvector" /\ vecOps[c].op = "search" /\ points # {}]_vecVars
=============================================================================
