----------------------------- MODULE Migration -----------------------------
(***************************************************************************)
(* The move from MongoDB to PostgreSQL: migrate_mongo_to_postgres.py reads *)
(* each collection with a cursor and upserts its rows batch by batch;      *)
(* verify_migration.py compares the counts and a few random documents.     *)
(* Both run beside an application that still writes to MongoDB, and either *)
(* may be killed and run again.  One of them runs at a time.               *)
(*                                                                         *)
(* A document is what its spot-check columns say (v) and a shape: a        *)
(* "whole" one fits its table; a "loose" one has a value that _coerce can  *)
(* only replace by NULL or by an empty list; one that "lacks" a field has  *)
(* a NULL where the table admits none; an "odd" one cannot be serialized.  *)
(*                                                                         *)
(* A timestamp comes from MongoDB as a time in UTC that does not say so,   *)
(* and asyncpg takes such a time for one of the zone of the host, so that  *)
(* off UTC it is stored some hours wrong.  A row records the zones that    *)
(* its timestamps were read in.                                            *)
(***************************************************************************)
EXTENDS Integers, FiniteSets, Functions

CONSTANTS
  Collection, DocId,
  MongoDocs,     \* the documents of the instance: [v, shape]
  Contents,      \* what MongoDB may hold at the beginning
  BatchSize,     \* --batch-size
  SpotSample,    \* SPOT_CHECK_SAMPLE
  Zone, UTC,     \* the zones of the hosts that the scripts run on
  LiveCollection, \* the collections that the application writes to meanwhile
  MaxWrites,     \* bound: its writes
  MaxKills       \* bound: scripts that die

ASSUME BatchesHaveRows == BatchSize \in Nat \ {0} /\ SpotSample \in Nat

ASSUME UtcIsAZone == UTC \in Zone

Shapes == {"whole", "loose", "lacks", "odd"}
ASSUME DocsHaveShapes == \A d \in MongoDocs : d.shape \in Shapes
ASSUME ContentsAreFinite ==
  \A f \in Contents : DOMAIN f = Collection /\
    \A c \in Collection : /\ DOMAIN f[c] \subseteq DocId /\ IsFiniteSet(DOMAIN f[c])
                          /\ \A i \in DOMAIN f[c] : f[c][i] \in MongoDocs

VARIABLES
  mongo,      \* [Collection -> the documents of some ids]
  pg,         \* [Collection -> the rows of some ids]
  job,        \* the script that runs, or the idle terminal
  verdict,    \* what the last script that ended told the operator
  host,       \* the zone of the host of the last migration
  hosts,      \* history: the zones of the hosts of all that may have written
  quiet,      \* history: nothing has been written to MongoDB since it began
  writes, kills

migVars == <<mongo, pg, job, verdict, host, hosts, quiet, writes, kills>>

-----------------------------------------------------------------------------
(* Rows and jobs *)

\* A row: its spot-check columns, whether it says all that the document says
\* but for its timestamps, whether it holds a NULL that the table refuses, and
\* the zones in which created_at and the other timestamps were read.
Row == [v : {d.v : d \in MongoDocs}, full : BOOLEAN, null : BOOLEAN, born : Zone, zone : Zone]

\* _extract_row, of a document that does not make it raise, and asyncpg's encoding.
RowOf(d) == [v |-> d.v, full |-> d.shape = "whole", null |-> d.shape = "lacks",
             born |-> host, zone |-> host]

\* With more documents or rows, or others in the place of some.
With(table, more) ==
  [i \in DOMAIN table \cup DOMAIN more |-> IF i \in DOMAIN more THEN more[i] ELSE table[i]]

\* INSERT ... ON CONFLICT (id) DO UPDATE, of every column but created_at.
Upserted(table, batch) ==
  With(table, [i \in DOMAIN batch |->
                 IF i \in DOMAIN table THEN [batch[i] EXCEPT !.born = table[i].born] ELSE batch[i]])

MigratePcs == {"next", "find", "read", "flush", "last"}
VerifyPcs == {"vnext", "vcount", "vsample", "vspot"}

\* todo: the collections to come.  due: the documents that the cursor owes, or
\* the sample.  seen: what the cursor has given.  failed: an ERROR or a failure.
NoJob == [pc |-> "off", target |-> {}, todo |-> {}, coll |-> CHOOSE c \in Collection : TRUE,
          dry |-> FALSE, due |-> {}, seen |-> {}, batch |-> << >>, counted |-> 0,
          migrated |-> 0, skipped |-> 0, failed |-> FALSE]

\* What the operator is told: exit status 0, which documents were warned about.
NoVerdict == [of |-> "none", target |-> {}, ok |-> FALSE, skipped |-> 0]

MigrationInit ==
  /\ mongo \in Contents
  /\ pg = [c \in Collection |-> << >>]
  /\ job = NoJob /\ verdict = NoVerdict
  /\ host = UTC /\ hosts = {}
  /\ quiet = TRUE /\ writes = 0 /\ kills = 0

Runs(pc) == job.pc = pc
Documents(c) == DOMAIN mongo[c]

-----------------------------------------------------------------------------
(* The migration *)

\* Where a dry run is made does not matter.
StartMigration(target, dry, zone) ==
  /\ dry => zone = host
  /\ Runs("off")
  /\ job' = [NoJob EXCEPT !.pc = "next", !.target = target, !.todo = target, !.dry = dry]
  /\ host' = zone /\ hosts' = hosts \cup IF dry THEN {} ELSE {zone}
  /\ verdict' = NoVerdict /\ quiet' = TRUE
  /\ UNCHANGED <<mongo, pg, writes, kills>>

\* count_documents; an empty collection is SKIPPED.
CountCollection(c) ==
  /\ Runs("next") /\ c \in job.todo
  /\ job' = [job EXCEPT !.todo = @ \ {c}, !.coll = c, !.seen = {},
                        !.counted = Cardinality(Documents(c)), !.migrated = 0,
                        !.pc = IF Documents(c) = {} THEN "next" ELSE "find"]
  /\ UNCHANGED <<mongo, pg, verdict, host, hosts, quiet, writes, kills>>

OpenCursor ==
  /\ Runs("find")
  /\ job' = [job EXCEPT !.pc = "read", !.due = Documents(job.coll), !.batch = << >>]
  /\ UNCHANGED <<mongo, pg, verdict, host, hosts, quiet, writes, kills>>

\* The next document: serialized into the batch, or skipped with a warning.
ReadDocument(i) ==
  LET d == mongo[job.coll][i]
      batch == IF d.shape = "odd" THEN job.batch ELSE With(job.batch, [j \in {i} |-> RowOf(d)])
  IN /\ Runs("read") /\ i \in Documents(job.coll) \ job.seen
     /\ job' = [job EXCEPT !.seen = @ \cup {i}, !.batch = batch,
                           !.skipped = @ + IF d.shape = "odd" THEN 1 ELSE 0,
                           !.pc = IF Cardinality(DOMAIN batch) >= BatchSize THEN "flush" ELSE "read"]
     /\ UNCHANGED <<mongo, pg, verdict, host, hosts, quiet, writes, kills>>

\* Mutant: the rows of the last batch, which is not full, are forgotten.
EndCursorUnflushed ==
  /\ Runs("read") /\ job.due \cap Documents(job.coll) \subseteq job.seen
  /\ job' = [job EXCEPT !.pc = "next"]
  /\ UNCHANGED <<mongo, pg, verdict, host, hosts, quiet, writes, kills>>

\* The cursor ends when it has given what was there when it was opened and still
\* is; what has come since, it may have given or not.
EndCursor ==
  /\ Runs("read") /\ job.due \cap Documents(job.coll) \subseteq job.seen
  /\ job' = [job EXCEPT !.pc = IF job.batch = << >> THEN "next" ELSE "last"]
  /\ UNCHANGED <<mongo, pg, verdict, host, hosts, quiet, writes, kills>>

\* executemany writes the batch as a whole or, for one refused row, not at all,
\* which ends the collection with status ERROR.
FlushBatch ==
  LET refused == ~job.dry /\ \E i \in DOMAIN job.batch : job.batch[i].null IN
  /\ job.pc \in {"flush", "last"}
  /\ pg' = IF job.dry \/ refused THEN pg
           ELSE [pg EXCEPT ![job.coll] = Upserted(@, job.batch)]
  /\ job' = [job EXCEPT !.batch = << >>, !.failed = @ \/ refused,
                        !.migrated = IF refused THEN @ ELSE @ + Cardinality(DOMAIN job.batch),
                        !.pc = IF refused \/ Runs("last") THEN "next" ELSE "read"]
  /\ UNCHANGED <<mongo, verdict, host, hosts, quiet, writes, kills>>

\* An exception of a database while the cursor is open: ERROR as well.
MigrationRaises ==
  /\ job.pc \in {"find", "read", "flush", "last"} /\ kills < MaxKills
  /\ job' = [job EXCEPT !.pc = "next", !.failed = TRUE, !.batch = << >>]
  /\ kills' = kills + 1
  /\ UNCHANGED <<mongo, pg, verdict, host, hosts, quiet, writes>>

\* The summary and the exit status: 1 if any collection had an ERROR.
EndMigration ==
  /\ Runs("next") /\ job.todo = {}
  /\ job' = NoJob
  /\ verdict' = [of |-> IF job.dry THEN "dry run" ELSE "migration", target |-> job.target,
                 ok |-> ~job.failed, skipped |-> job.skipped]
  /\ UNCHANGED <<mongo, pg, host, hosts, quiet, writes, kills>>

-----------------------------------------------------------------------------
(* The verification *)

StartVerification(target) ==
  /\ Runs("off")
  /\ job' = [NoJob EXCEPT !.pc = "vnext", !.target = target, !.todo = target]
  /\ verdict' = NoVerdict /\ quiet' = TRUE
  /\ UNCHANGED <<mongo, pg, host, hosts, writes, kills>>

CountMongo(c) ==
  /\ Runs("vnext") /\ c \in job.todo
  /\ job' = [job EXCEPT !.pc = "vcount", !.todo = @ \ {c}, !.coll = c,
                        !.counted = Cardinality(Documents(c))]
  /\ UNCHANGED <<mongo, pg, verdict, host, hosts, quiet, writes, kills>>

CountRows ==
  /\ Runs("vcount")
  /\ job' = [job EXCEPT !.pc = "vsample",
                        !.failed = @ \/ job.counted # Cardinality(DOMAIN pg[job.coll])]
  /\ UNCHANGED <<mongo, pg, verdict, host, hosts, quiet, writes, kills>>

DrawSample(I) ==
  LET size == Cardinality(Documents(job.coll)) IN
  /\ Runs("vsample") /\ I \subseteq Documents(job.coll)
  /\ Cardinality(I) = IF size < SpotSample THEN size ELSE SpotSample
  /\ job' = [job EXCEPT !.pc = "vspot", !.due = I]
  /\ UNCHANGED <<mongo, pg, verdict, host, hosts, quiet, writes, kills>>

\* PostgreSQL does not change between find_one and fetchrow, so they are one step.
SpotCheck(i) ==
  LET sound == /\ i \in Documents(job.coll) /\ i \in DOMAIN pg[job.coll]
               /\ pg[job.coll][i].v = mongo[job.coll][i].v
  IN /\ Runs("vspot") /\ i \in job.due
     /\ job' = [job EXCEPT !.due = @ \ {i}, !.failed = @ \/ ~sound]
     /\ UNCHANGED <<mongo, pg, verdict, host, hosts, quiet, writes, kills>>

EndCollection ==
  /\ Runs("vspot") /\ job.due = {}
  /\ job' = [job EXCEPT !.pc = "vnext"]
  /\ UNCHANGED <<mongo, pg, verdict, host, hosts, quiet, writes, kills>>

\* An exception is one more failure, and the next collection is verified.
VerificationRaises ==
  /\ job.pc \in {"vcount", "vsample", "vspot"} /\ kills < MaxKills
  /\ job' = [job EXCEPT !.pc = "vnext", !.due = {}, !.failed = TRUE]
  /\ kills' = kills + 1
  /\ UNCHANGED <<mongo, pg, verdict, host, hosts, quiet, writes>>

EndVerification ==
  /\ Runs("vnext") /\ job.todo = {}
  /\ job' = NoJob
  /\ verdict' = [of |-> "verification", target |-> job.target, ok |-> ~job.failed, skipped |-> 0]
  /\ UNCHANGED <<mongo, pg, host, hosts, quiet, writes, kills>>

-----------------------------------------------------------------------------
(* The surroundings *)

\* A killed script, or one whose connection fails outside of its handlers.
Killed ==
  /\ ~Runs("off") /\ kills < MaxKills
  /\ job' = NoJob /\ kills' = kills + 1
  /\ UNCHANGED <<mongo, pg, verdict, host, hosts, quiet, writes>>

ApplicationWrites(c, docs) ==
  /\ c \in LiveCollection /\ writes < MaxWrites /\ docs # mongo[c]
  /\ mongo' = [mongo EXCEPT ![c] = docs]
  /\ quiet' = FALSE /\ writes' = writes + 1
  /\ UNCHANGED <<pg, job, verdict, host, hosts, kills>>

\* One document is deleted, or inserted or changed.
OneWrite(c) ==
  \/ \E i \in Documents(c) : ApplicationWrites(c, Restrict(mongo[c], Documents(c) \ {i}))
  \/ \E i \in DocId, d \in MongoDocs : ApplicationWrites(c, With(mongo[c], [j \in {i} |-> d]))

Targets == {Collection} \cup {{c} : c \in Collection}

MigrationNext ==
  \/ \E t \in Targets, dry \in BOOLEAN, zone \in Zone : StartMigration(t, dry, zone)
  \/ \E c \in Collection : CountCollection(c) \/ CountMongo(c) \/ OneWrite(c)
  \/ \E i \in DocId : ReadDocument(i) \/ SpotCheck(i)
  \/ OpenCursor \/ EndCursor \/ FlushBatch \/ MigrationRaises \/ EndMigration
  \/ \E t \in Targets : StartVerification(t)
  \/ \E I \in SUBSET DocId : DrawSample(I)
  \/ CountRows \/ EndCollection \/ VerificationRaises \/ EndVerification
  \/ Killed

MigrationSpec == MigrationInit /\ [][MigrationNext]_migVars

-----------------------------------------------------------------------------
(* Properties *)

MigrationTypeOK ==
  /\ \A c \in Collection : Documents(c) \subseteq DocId /\ DOMAIN pg[c] \subseteq DocId
  /\ \A c \in Collection : \A i \in Documents(c) : mongo[c][i] \in MongoDocs
  /\ \A c \in Collection : \A i \in DOMAIN pg[c] : pg[c][i] \in Row /\ ~pg[c][i].null
  /\ job.pc \in {"off"} \cup MigratePcs \cup VerifyPcs
  /\ job.todo \subseteq job.target /\ job.target \subseteq Collection
  /\ job.counted \in Nat /\ job.migrated \in 0 .. Cardinality(job.seen)
  /\ DOMAIN job.batch \subseteq job.seen /\ Cardinality(DOMAIN job.batch) <= BatchSize
  /\ host \in Zone /\ hosts \subseteq Zone

\* The row says what the document says, its timestamps read in the zone of the
\* host, its created_at in that of some host a migration has run on: as they are
\* in MongoDB if that is UTC.
Says(row, d) == row.born \in hosts /\ [row EXCEPT !.born = host] = RowOf(d)

\* The two scripts can be believed, as far as they can.  A migration that exits
\* with 0 and warned of no document has left every document of its collections in
\* PostgreSQL as it is in MongoDB, whatever earlier migrations, killed or not,
\* had left there, if nobody wrote meanwhile; its timestamps, if the host is in
\* UTC, except that created_at stays as the first of them read it.  A
\* verification that says PASS has found as many rows as documents, and where
\* there are no more documents than it samples, the rows of just these
\* documents, with their spot-check columns.
VerdictsAreEarned ==
  verdict.ok /\ quiet =>
    \A c \in verdict.target :
      /\ verdict.of = "migration" /\ verdict.skipped = 0 =>
           \A i \in Documents(c) : i \in DOMAIN pg[c] /\ Says(pg[c][i], mongo[c][i])
      /\ verdict.of = "verification" =>
           /\ Cardinality(DOMAIN pg[c]) = Cardinality(Documents(c))
           /\ Cardinality(Documents(c)) <= SpotSample =>
                DOMAIN pg[c] = Documents(c) /\ \A i \in Documents(c) : pg[c][i].v = mongo[c][i].v
=============================================================================
