------------------------------ MODULE Catalogue ------------------------------
(***************************************************************************)
(* The documents that users put together: agents, skills, providers, MCP   *)
(* servers, and the workflows that name them.  The routes create, import,  *)
(* edit, test and delete them.  Each loads a document, looks something up  *)
(* or connects somewhere, and writes later: agents, skills and providers   *)
(* with set(), which sends the given fields with MongoDB and the whole     *)
(* copy with PostgreSQL; MCP servers and workflows with save(), the whole  *)
(* copy in either.                                                         *)
(***************************************************************************)
EXTENDS Naturals, FiniteSets

CONSTANTS
  CatDoc,     \* ids of documents
  CatActor,   \* requests in progress
  CatSkill,   \* skills that a workflow may have
  MaxEdits,   \* bound: requests that load a document
  NoCatDoc,   \* not stored yet, or nothing held
  GoneCatDoc  \* deleted: an id is not used again

ASSUME MaxEditsIsNat == MaxEdits \in Nat
ASSUME CatDocsAreNone == NoCatDoc # GoneCatDoc /\ {NoCatDoc, GoneCatDoc} \cap CatDoc = {}

VARIABLES
  catDb,      \* settings.db_backend
  catalogue,  \* [CatDoc -> a document, NoCatDoc or GoneCatDoc]
  catOps,     \* [CatActor -> what the request is doing]
  written,    \* history: [CatDoc -> what the edits that were made come to]
  edits,      \* requests so far that loaded a document
  collided,   \* history: documents that a whole copy may have been written over
  reached     \* history: [CatDoc -> the configurations that tests connected with]

catVars == <<catDb, catalogue, catOps, edits, written, collided, reached>>

-----------------------------------------------------------------------------
(* Documents and requests *)

\* An agent stands for skills, too, which are edited in the same way.
ByField == {"agent", "provider"}
AsWhole == {"server", "workflow"}

\* main: the name, or the connection of a server.  other: the other fields, or the
\* allowed tools of a server.
CatalogueDoc ==
  [kind : ByField \cup AsWhole, main : {1, 2}, other : {1, 2},
   status : {"registered", "connected", "error"}, agent : CatDoc \cup {NoCatDoc},
   skills : SUBSET CatSkill]

ASSUME CatDocsAreStored == {NoCatDoc, GoneCatDoc} \cap CatalogueDoc = {}

NewDoc(kind) == [kind |-> kind, main |-> 1, other |-> 1, status |-> "registered",
                 agent |-> NoCatDoc, skills |-> {}]

NoRequest == [pc |-> "idle", on |-> {}, held |-> NoCatDoc, agent |-> NoCatDoc]
EditPcs == {"edit", "tools", "test", "install", "remove", "delete"}

CatalogueTypeOK ==
  /\ catDb \in {"mongo", "postgres"}
  /\ catalogue \in [CatDoc -> CatalogueDoc \cup {NoCatDoc, GoneCatDoc}]
  /\ catOps \in [CatActor -> [pc : {"idle", "rename", "insert"} \cup EditPcs, on : SUBSET CatDoc,
                              held : CatalogueDoc \cup {NoCatDoc}, agent : CatDoc \cup {NoCatDoc}]]
  /\ written \in [CatDoc -> CatalogueDoc \cup {NoCatDoc, GoneCatDoc}]
  /\ edits \in 0..MaxEdits
  /\ collided \subseteq CatDoc
  /\ reached \in [CatDoc -> SUBSET {1, 2}]

CatalogueInit ==
  /\ catDb \in {"mongo", "postgres"}
  /\ catalogue = [d \in CatDoc |-> NoCatDoc] /\ written = catalogue
  /\ catOps = [k \in CatActor |-> NoRequest]
  /\ edits = 0
  /\ collided = {}
  /\ reached = [d \in CatDoc |-> {}]

Kept == {d \in CatDoc : catalogue[d] \notin {NoCatDoc, GoneCatDoc}}
KindOf(d) == catalogue[d].kind
Shared(k, d) == \E x \in CatActor \ {k} : d \in catOps[x].on

Answered(k) == catOps' = [catOps EXCEPT ![k] = NoRequest]

\* The name of a provider is unique in both databases.
NameIsFree(d, doc) ==
  doc.kind = "provider" =>
    \A x \in Kept \ {d} : ~(KindOf(x) = "provider" /\ catalogue[x].main = doc.main)

\* An upsert.
StoreDoc(d, doc) ==
  /\ NameIsFree(d, doc)
  /\ catalogue' = [catalogue EXCEPT ![d] = doc]

\* Document d is written: what Change makes of base, a copy or the document itself.
\* The edits alone make of it what Change makes of their last result.
WriteDoc(d, base, Change(_)) ==
  /\ StoreDoc(d, Change(base))
  /\ written' = [written EXCEPT ![d] = IF d \in collided THEN NoCatDoc ELSE Change(@)]
  /\ UNCHANGED <<catDb, edits, collided>>

OnlyRequests == UNCHANGED <<catDb, catalogue, edits, written, collided, reached>>

-----------------------------------------------------------------------------
(* Creation and import *)

\* One document, or one item of a bundle.
CreateDoc(d) ==
  /\ catalogue[d] = NoCatDoc
  /\ \E kind \in ByField \cup {"server"}, main \in {1, 2} :
       WriteDoc(d, NewDoc(kind), LAMBDA doc : [NewDoc(kind) EXCEPT !.main = main])
  /\ UNCHANGED <<catOps, reached>>

\* A workflow, or one of a bundle: its agent must be there, under the id that it
\* had when it was exported.
LookUpAgent(k, x) ==
  /\ catOps[k] = NoRequest
  /\ x \in Kept /\ KindOf(x) = "agent"
  /\ catOps' = [catOps EXCEPT ![k] = [NoRequest EXCEPT !.pc = "insert",
                                        !.held = [NewDoc("workflow") EXCEPT !.agent = x]]]
  /\ OnlyRequests

InsertWorkflow(k, d) ==
  /\ catOps[k].pc = "insert"
  /\ catalogue[d] = NoCatDoc
  /\ WriteDoc(d, catOps[k].held, LAMBDA doc : catOps[k].held)
  /\ Answered(k)
  /\ UNCHANGED reached

-----------------------------------------------------------------------------
(* Edits *)

\* Every other request loads its document first.
LoadDoc(k, d, pc) ==
  /\ catOps[k] = NoRequest
  /\ edits < MaxEdits /\ edits' = edits + 1
  /\ d \in Kept
  /\ pc \in {"tools", "test"} => KindOf(d) = "server"
  /\ pc \in {"install", "remove"} => KindOf(d) = "workflow"
  /\ catOps' = [catOps EXCEPT ![k] = [NoRequest EXCEPT !.pc = pc, !.on = {d},
                                                     !.held = catalogue[d]]]
  /\ collided' = IF Shared(k, d) /\ ~(catDb = "mongo" /\ KindOf(d) \in ByField)
                  THEN collided \cup {d} ELSE collided
  /\ written' = [written EXCEPT ![d] = IF d \in collided' THEN NoCatDoc ELSE @]
  /\ UNCHANGED <<catDb, catalogue, reached>>

\* The fields of a PUT; 0 is None.
Edits == [main : 0..2, other : 0..2]
Edited(doc, edit) == [doc EXCEPT !.main = IF edit.main = 0 THEN @ ELSE edit.main,
                                 !.other = IF edit.other = 0 THEN @ ELSE edit.other]

Loaded(k, d, pc) == catOps[k].pc = pc /\ d \in catOps[k].on

\* Mutant: set() sends the whole copy with either database.
SetFieldsWhole(k, d, edit) ==
  /\ Loaded(k, d, "edit") /\ catOps[k].held.kind \in ByField
  /\ catDb = "mongo" => catalogue[d] # GoneCatDoc
  /\ WriteDoc(d, catOps[k].held, LAMBDA doc : Edited(doc, edit))
  /\ Answered(k)
  /\ UNCHANGED reached

\* set() of an agent, a skill or a provider.  With MongoDB a document that has
\* gone is not written; with PostgreSQL it is stored again.
SetFields(k, d, edit) ==
  LET base == IF catDb = "mongo" THEN catalogue[d] ELSE catOps[k].held IN
  /\ Loaded(k, d, "edit") /\ catOps[k].held.kind \in ByField
  /\ base # GoneCatDoc
  /\ WriteDoc(d, base, LAMBDA doc : Edited(doc, edit))
  /\ Answered(k)
  /\ UNCHANGED reached

\* save(): the whole copy, which stores a deleted document again.
SaveServer(k, d, edit) ==
  /\ Loaded(k, d, "edit") /\ catOps[k].held.kind = "server"
  /\ WriteDoc(d, catOps[k].held, LAMBDA doc : [Edited(doc, edit) EXCEPT !.status = "registered"])
  /\ Answered(k)
  /\ UNCHANGED reached

SaveTools(k, d, other) ==
  /\ Loaded(k, d, "tools")
  /\ WriteDoc(d, catOps[k].held, LAMBDA doc : [doc EXCEPT !.other = other])
  /\ Answered(k)
  /\ UNCHANGED reached

\* The server is connected to, which may take long, and saved whole.
TestServer(k, d, status) ==
  /\ Loaded(k, d, "test")
  /\ WriteDoc(d, catOps[k].held, LAMBDA doc : [doc EXCEPT !.status = status])
  /\ reached' = [reached EXCEPT ![d] =
                   IF status = "connected" THEN @ \cup {catOps[k].held.main} ELSE @]
  /\ Answered(k)

\* A PUT of a workflow may name another agent, which is looked up; the copy is saved.
NameAgent(k, d, x) ==
  /\ Loaded(k, d, "edit") /\ catOps[k].held.kind = "workflow"
  /\ x \in Kept /\ KindOf(x) = "agent"
  /\ catOps' = [catOps EXCEPT ![k].pc = "rename", ![k].agent = x]
  /\ OnlyRequests

SaveWorkflow(k, d, edit) ==
  /\ Loaded(k, d, "rename") \/ (Loaded(k, d, "edit") /\ catOps[k].held.kind = "workflow")
  /\ WriteDoc(d, catOps[k].held,
           LAMBDA doc : [Edited(doc, edit) EXCEPT
                           !.agent = IF catOps[k].pc = "rename" THEN catOps[k].agent ELSE @])
  /\ Answered(k)
  /\ UNCHANGED reached

\* A skill is installed once, and removed if it is there.
InstallSkill(k, d, s) ==
  /\ Loaded(k, d, "install") /\ s \notin catOps[k].held.skills
  /\ WriteDoc(d, catOps[k].held, LAMBDA doc : [doc EXCEPT !.skills = @ \cup {s}])
  /\ Answered(k)
  /\ UNCHANGED reached

RemoveSkill(k, d, s) ==
  /\ Loaded(k, d, "remove") /\ s \in catOps[k].held.skills
  /\ WriteDoc(d, catOps[k].held, LAMBDA doc : [doc EXCEPT !.skills = @ \ {s}])
  /\ Answered(k)
  /\ UNCHANGED reached

RemoveDoc(k, d) ==
  /\ Loaded(k, d, "delete")
  /\ catalogue' = [catalogue EXCEPT ![d] = GoneCatDoc]
  /\ written' = [written EXCEPT ![d] = IF d \in collided THEN NoCatDoc ELSE GoneCatDoc]
  /\ Answered(k)
  /\ UNCHANGED <<catDb, edits, collided, reached>>

\* The request is refused, the database fails, or the process dies.
CutEdit(k) ==
  /\ catOps[k] # NoRequest
  /\ Answered(k)
  /\ OnlyRequests

CatalogueNext ==
  \/ \E d \in CatDoc : CreateDoc(d)
  \/ \E k \in CatActor :
       \/ CutEdit(k)
       \/ \E d \in CatDoc :
            \/ LookUpAgent(k, d) \/ InsertWorkflow(k, d)
            \/ RemoveDoc(k, d)
            \/ \E pc \in EditPcs : LoadDoc(k, d, pc)
            \/ \E edit \in Edits :
                 SetFields(k, d, edit) \/ SaveServer(k, d, edit) \/ SaveWorkflow(k, d, edit)
            \/ \E other \in {1, 2} : SaveTools(k, d, other)
            \/ \E status \in {"connected", "error"} : TestServer(k, d, status)
            \/ \E x \in CatDoc : NameAgent(k, d, x)
            \/ \E s \in CatSkill : InstallSkill(k, d, s) \/ RemoveSkill(k, d, s)

CatalogueSpec == CatalogueInit /\ [][CatalogueNext]_catVars

-----------------------------------------------------------------------------
(* Properties *)

\* A document is what the edits that were made come to, in their order, whatever
\* requests overlap: always with MongoDB if it is an agent, a skill or a
\* provider; else as long as no two requests held a copy of it at the same time.
\* Even then a server is CONNECTED only with a configuration with which it has
\* been connected to, no two providers share a name, and a workflow names an
\* agent, or a document that was one when it was named.
EditsAreKept ==
  /\ \A d \in CatDoc \ collided : catalogue[d] = written[d]
  /\ \A d \in Kept :
       /\ catalogue[d].status = "connected" => catalogue[d].main \in reached[d]
       /\ NameIsFree(d, catalogue[d])
       /\ KindOf(d) = "workflow" =>
            LET agent == catalogue[d].agent
            IN IF agent \in Kept THEN KindOf(agent) = "agent" ELSE catalogue[agent] = GoneCatDoc
=============================================================================
