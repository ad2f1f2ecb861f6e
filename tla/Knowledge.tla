------------------------------ MODULE Knowledge ------------------------------
(***************************************************************************)
(* Knowledge sources, their items and the files of the items in GridFS.    *)
(* Every request reads a document and writes it, or others, some calls     *)
(* later; a request may be cut at any call.  With PostgreSQL "set" saves   *)
(* the whole document as it was read, with MongoDB only the fields that    *)
(* are set; save, which the connection test uses, is whole with both.      *)
(***************************************************************************)
EXTENDS Naturals, FiniteSets

CONSTANTS
  Source,    \* ids of knowledge sources
  Item,      \* ids of knowledge items; an item's file has the id of the item
  Config,    \* values of connection_config
  KnActor    \* requests

ASSUME SomethingToConnectTo == Config # {}

VARIABLES
  docStore,  \* DB_BACKEND: "mongo" or "postgres"
  sources,   \* [Source -> its document]
  items,     \* [Item -> its document]
  files,     \* the files in GridFS
  requests,  \* [KnActor -> what the request is doing]
  proved,    \* history: pairs of a source and a config a test has connected with
  refuted,   \* history: pairs of a source and a config a test has failed with
  inserted,  \* history: sources and items that have been inserted
  leaving,   \* history: items whose deletion has begun
  erased,    \* history: sources whose deletion came to its end
  mixed      \* history: sources with a deletion that overlapped a request that writes

knVars == <<docStore, sources, items, files, requests, proved, refuted, inserted, leaving,
            erased, mixed>>
histories == <<proved, refuted, inserted, leaving, erased, mixed>>

-----------------------------------------------------------------------------
(* Documents and requests *)

SourceDoc == [stored : BOOLEAN, config : Config, status : {"registered", "connected", "error"}]
ItemDoc == [stored : BOOLEAN, of : SUBSET Source, file : BOOLEAN]

Writing == {"test", "update", "create", "upload", "insert", "set_item"}
Removing == {"list", "next", "file", "item", "source"}

\* on: the source.  doc: the source as it was read.  now: the item that is
\* being written or deleted.  left: the items still to be deleted.
Request == [pc : {"idle", "over"} \cup Writing \cup Removing, on : SUBSET Source,
            doc : SUBSET SourceDoc, now : SUBSET Item, left : SUBSET Item, cascade : BOOLEAN]
Unsent == [pc |-> "idle", on |-> {}, doc |-> {}, now |-> {}, left |-> {}, cascade |-> FALSE]
Over == [Unsent EXCEPT !.pc = "over"]

KnowledgeTypeOK ==
  /\ docStore \in {"mongo", "postgres"}
  /\ sources \in [Source -> SourceDoc]
  /\ items \in [Item -> ItemDoc]
  /\ files \subseteq Item
  /\ requests \in [KnActor -> Request]
  /\ proved \subseteq Source \X Config /\ refuted \subseteq Source \X Config
  /\ inserted \subseteq Source \cup Item /\ leaving \subseteq Item
  /\ erased \subseteq Source /\ mixed \subseteq Source

NoSource == [stored |-> FALSE, config |-> CHOOSE c \in Config : TRUE, status |-> "registered"]

KnowledgeInit ==
  /\ docStore \in {"mongo", "postgres"}
  /\ sources = [s \in Source |-> NoSource]
  /\ items = [i \in Item |-> [stored |-> FALSE, of |-> {}, file |-> FALSE]]
  /\ files = {}
  /\ requests = [r \in KnActor |-> Unsent]
  /\ proved = {} /\ refuted = {}
  /\ inserted = {} /\ leaving = {} /\ erased = {} /\ mixed = {}

ItemsOf(s) == {i \in Item : items[i].stored /\ s \in items[i].of}

Waiting(r, pc) == requests[r].pc = pc
Proceed(r, rec) == requests' = [requests EXCEPT ![r] = rec]

\* A request starts.  It crosses a deletion of its source, or crosses requests
\* that write when it is a deletion of one.
Open(r, rec) ==
  /\ requests[r] = Unsent
  /\ Proceed(r, rec)
  /\ mixed' = mixed \cup {s \in rec.on : \E q \in KnActor :
       /\ s \in requests[q].on
       /\ \/ rec.pc \in Writing /\ requests[q].cascade
          \/ rec.cascade /\ requests[q].pc \in Writing}

-----------------------------------------------------------------------------
(* Sources *)

\* What is registered has not been tested, wherever it was imported from.
Registered(c) == [NoSource EXCEPT !.stored = TRUE, !.config = c]

\* create_knowledge_source, and each source of import_knowledge_sources.
CreateSource ==
  /\ \E s \in Source \ inserted, c \in Config :
       /\ sources' = [sources EXCEPT ![s] = Registered(c)]
       /\ inserted' = inserted \cup {s}
  /\ UNCHANGED <<docStore, items, files, requests, proved, refuted, leaving, erased, mixed>>

\* test and update read the source.
ReadSource(r) ==
  /\ \E s \in Source, pc \in {"test", "update"} :
       /\ sources[s].stored
       /\ Open(r, [Unsent EXCEPT !.pc = pc, !.on = {s}, !.doc = {sources[s]}])
  /\ UNCHANGED <<docStore, sources, items, files, proved, refuted, inserted, leaving, erased>>

Saved(r, doc) == sources' = [s \in Source |-> IF s \in requests[r].on THEN doc ELSE sources[s]]

\* test_connection: connect with what was read, then save it whole.
TestConnection(r) ==
  /\ Waiting(r, "test")
  /\ \E doc \in requests[r].doc :
       LET tried == requests[r].on \X {doc.config}
       IN \/ Saved(r, [doc EXCEPT !.status = "connected"])
             /\ proved' = proved \cup tried /\ UNCHANGED refuted
          \/ Saved(r, [doc EXCEPT !.status = "error"])
             /\ refuted' = refuted \cup tried /\ UNCHANGED proved
  /\ Proceed(r, Over)
  /\ UNCHANGED <<docStore, items, files, inserted, leaving, erased, mixed>>

\* set: what becomes of the stored source when the fields of "with" are set.
Set(r, doc, with) ==
  \E s \in requests[r].on :
    LET base == IF docStore = "postgres" THEN doc ELSE sources[s]
        new == IF with = {} THEN base
               ELSE [base EXCEPT !.config = CHOOSE c \in with : TRUE, !.status = "registered"]
    IN Saved(r, IF docStore = "postgres" \/ base.stored THEN new ELSE base)

\* Mutant: another connection_config leaves the status.
UpdateKeepsStatus(r) ==
  /\ Waiting(r, "update")
  /\ \E s \in requests[r].on, c \in Config : Saved(r, [sources[s] EXCEPT !.config = c])
  /\ Proceed(r, Over)
  /\ UNCHANGED <<docStore, items, files, histories>>

\* update_knowledge_source: the connection and with it the status, or other fields.
UpdateSource(r) ==
  /\ Waiting(r, "update")
  /\ \E doc \in requests[r].doc, with \in {{}} \cup {{c} : c \in Config} : Set(r, doc, with)
  /\ Proceed(r, Over)
  /\ UNCHANGED <<docStore, items, files, histories>>

-----------------------------------------------------------------------------
(* Items *)

\* create_knowledge_item and upload_knowledge_file look for the source.
ReadForItem(r) ==
  /\ \E s \in Source, i \in Item \ inserted, pc \in {"create", "upload"} :
       /\ sources[s].stored
       /\ Open(r, [Unsent EXCEPT !.pc = pc, !.on = {s}, !.now = {i}])
       /\ inserted' = inserted \cup {i}
  /\ UNCHANGED <<docStore, sources, items, files, proved, refuted, leaving, erased>>

\* Mutant: the upload is not waited for.
WriteFileLater(r) ==
  /\ Waiting(r, "upload")
  /\ Proceed(r, [requests[r] EXCEPT !.pc = "insert"])
  /\ UNCHANGED <<docStore, sources, items, files, histories>>

\* upload_file: the file, ...
WriteFile(r) ==
  /\ Waiting(r, "upload")
  /\ files' = files \cup requests[r].now
  /\ Proceed(r, [requests[r] EXCEPT !.pc = "insert"])
  /\ UNCHANGED <<docStore, sources, items, histories>>

\* ... then the item.
InsertItem(r) ==
  /\ requests[r].pc \in {"create", "insert"}
  /\ items' = [i \in Item |-> IF i \in requests[r].now
                 THEN [stored |-> TRUE, of |-> requests[r].on, file |-> Waiting(r, "insert")]
                 ELSE items[i]]
  /\ Proceed(r, Over)
  /\ UNCHANGED <<docStore, sources, files, histories>>

\* update_knowledge_item and delete_knowledge_item read the item.
ReadItem(r) ==
  /\ \E i \in Item :
       /\ items[i].stored
       /\ \/ Open(r, [Unsent EXCEPT !.pc = "set_item", !.on = items[i].of, !.now = {i}])
             /\ UNCHANGED leaving
          \/ Open(r, [Unsent EXCEPT !.pc = "next", !.on = items[i].of, !.left = {i}])
             /\ leaving' = leaving \cup {i}
  /\ UNCHANGED <<docStore, sources, items, files, proved, refuted, inserted, erased>>

\* The fields that are set are none of these; the whole document, if it is
\* saved, is stored again.
SetItem(r) ==
  /\ Waiting(r, "set_item")
  /\ items' = [i \in Item |-> IF i \in requests[r].now /\ docStore = "postgres"
                 THEN [items[i] EXCEPT !.stored = TRUE] ELSE items[i]]
  /\ Proceed(r, Over)
  /\ UNCHANGED <<docStore, sources, files, histories>>

-----------------------------------------------------------------------------
(* Deletion: delete_knowledge_item, and delete_knowledge_source for each item *)

ReadToDelete(r) ==
  /\ \E s \in Source :
       /\ sources[s].stored
       /\ Open(r, [Unsent EXCEPT !.pc = "list", !.on = {s}, !.cascade = TRUE])
  /\ UNCHANGED <<docStore, sources, items, files, proved, refuted, inserted, leaving, erased>>

ListItems(r) ==
  /\ Waiting(r, "list")
  /\ Proceed(r, [requests[r] EXCEPT !.pc = "next", !.left = UNION {ItemsOf(s) : s \in requests[r].on}])
  /\ UNCHANGED <<docStore, sources, items, files, histories>>

\* The next item, with a file or without; after the last one the source.
NextItem(r) ==
  /\ Waiting(r, "next")
  /\ IF requests[r].left = {}
     THEN /\ Proceed(r, IF requests[r].cascade THEN [requests[r] EXCEPT !.pc = "source"] ELSE Over)
          /\ UNCHANGED leaving
     ELSE \E i \in requests[r].left :
            /\ Proceed(r, [requests[r] EXCEPT !.pc = IF items[i].file THEN "file" ELSE "item",
                                              !.now = {i}, !.left = @ \ {i}])
            /\ leaving' = leaving \cup {i}
  /\ UNCHANGED <<docStore, sources, items, files, proved, refuted, inserted, erased, mixed>>

\* Mutant: an item whose file stays is passed over.
DeleteFileOrPass(r) ==
  /\ Waiting(r, "file")
  /\ \/ files' = files \ requests[r].now /\ Proceed(r, [requests[r] EXCEPT !.pc = "item"])
     \/ UNCHANGED files /\ Proceed(r, [requests[r] EXCEPT !.pc = "next", !.now = {}])
  /\ UNCHANGED <<docStore, sources, items, histories>>

\* Best effort.
DeleteFile(r) ==
  /\ Waiting(r, "file")
  /\ files' \in {files, files \ requests[r].now}
  /\ Proceed(r, [requests[r] EXCEPT !.pc = "item"])
  /\ UNCHANGED <<docStore, sources, items, histories>>

DeleteItem(r) ==
  /\ Waiting(r, "item")
  /\ items' = [i \in Item |-> IF i \in requests[r].now THEN [items[i] EXCEPT !.stored = FALSE]
                              ELSE items[i]]
  /\ Proceed(r, [requests[r] EXCEPT !.pc = "next", !.now = {}])
  /\ UNCHANGED <<docStore, sources, files, histories>>

DeleteSource(r) ==
  /\ Waiting(r, "source")
  /\ Saved(r, NoSource)
  /\ erased' = erased \cup requests[r].on
  /\ Proceed(r, Over)
  /\ UNCHANGED <<docStore, items, files, proved, refuted, inserted, leaving, mixed>>

\* A call fails and the request answers 500, or the process stops.
CutRequest(r) ==
  /\ requests[r].pc \notin {"idle", "over"}
  /\ Proceed(r, Over)
  /\ UNCHANGED <<docStore, sources, items, files, histories>>

KnowledgeNext ==
  \/ CreateSource
  \/ \E r \in KnActor :
       \/ ReadSource(r) \/ TestConnection(r) \/ UpdateSource(r)
       \/ ReadForItem(r) \/ WriteFile(r) \/ InsertItem(r) \/ ReadItem(r) \/ SetItem(r)
       \/ ReadToDelete(r) \/ ListItems(r) \/ NextItem(r) \/ DeleteFile(r) \/ DeleteItem(r)
       \/ DeleteSource(r) \/ CutRequest(r)

KnowledgeSpec == KnowledgeInit /\ [][KnowledgeNext]_knVars

-----------------------------------------------------------------------------
(* Properties *)

\* Whatever tests and updates of a source overlap, and whichever of them saves
\* last, its status is of the connection it has now: a test has connected, or
\* has failed, with that very connection_config.
StatusIsEarned ==
  \A s \in Source :
    /\ sources[s].status = "connected" => <<s, sources[s].config>> \in proved
    /\ sources[s].status = "error" => <<s, sources[s].config>> \in refuted

\* Wherever uploads and deletions are cut: an item that has a file can be
\* downloaded until its deletion begins, no item is left without its source,
\* and a source whose deletion came to its end is not stored again: unless a
\* request that writes overlapped the deletion of the source.
NothingDangles ==
  /\ \A i \in Item \ leaving : items[i].stored /\ items[i].file => i \in files
  /\ \A s \in Source \ mixed :
       /\ ~sources[s].stored => ItemsOf(s) = {}
       /\ s \in erased => ~sources[s].stored
=============================================================================
