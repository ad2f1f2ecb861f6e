--------------------------- MODULE CatalogueProofs ---------------------------
(* About documents that requests edit and delete, the vector store that     *)
(* they are searched with, and a query's answer in either database; and, as *)
(* all the stores meet here, about all of them beside each other.           *)
EXTENDS Stores, StoresProofs, SequenceTheorems

-----------------------------------------------------------------------------
(* Catalogue *)

\* x is an agent, or was one when it was there, and no request will store anything
\* else under its id.
AgentRef(x) ==
  /\ x \in CatDoc /\ catalogue[x] # NoCatDoc
  /\ x \in Kept => KindOf(x) = "agent"
  /\ \A k \in CatActor : x \in catOps[k].on => catOps[k].held.kind = "agent"

\* A document that is, or may be, stored as d.
Sound(d, doc) ==
  /\ doc.status = "connected" => doc.main \in reached[d] /\ doc.kind = "server"
  /\ doc.kind = "workflow" => AgentRef(doc.agent)

\* With MongoDB, requests to an agent, a skill or a provider write fields.
ByFields(kind) == catDb = "mongo" /\ kind \in ByField

KindFits(k) ==
  /\ catOps[k].pc \in {"tools", "test"} => catOps[k].held.kind = "server"
  /\ catOps[k].pc \in {"install", "remove"} => catOps[k].held.kind = "workflow"
  /\ catOps[k].pc = "rename" => catOps[k].held.kind = "workflow" /\ AgentRef(catOps[k].agent)
  /\ catOps[k].pc = "insert" =>
       \E x \in CatDoc : AgentRef(x) /\ catOps[k].held = [NewDoc("workflow") EXCEPT !.agent = x]

\* A request holds a copy of a document that was stored, and is still of that kind.
Copies ==
  \A k \in CatActor :
    /\ KindFits(k)
    /\ \A d \in catOps[k].on :
         /\ catalogue[d] # NoCatDoc
         /\ catOps[k].held \in CatalogueDoc
         /\ Sound(d, catOps[k].held)
         /\ d \in Kept => catOps[k].held.kind = KindOf(d)
         /\ \A j \in CatActor : d \in catOps[j].on => catOps[j].held.kind = catOps[k].held.kind

StoredDocs ==
  \A d \in Kept : Sound(d, catalogue[d]) /\ NameIsFree(d, catalogue[d])

\* What the edits come to is followed as long as no two whole copies were held.
Followed ==
  \A d \in CatDoc : written[d] = IF d \in collided THEN NoCatDoc ELSE catalogue[d]

\* Until then, the only copy is the document itself.
OnlyCopy ==
  \A d \in CatDoc \ collided : \A k \in CatActor :
    d \in catOps[k].on /\ ~ByFields(catOps[k].held.kind) =>
      catOps[k].held = catalogue[d] /\ ~Shared(k, d)

CatInv == CatalogueTypeOK /\ Copies /\ StoredDocs /\ Followed /\ OnlyCopy

\* The types that the proofs are about.
CatRequest == [pc : {"idle", "rename", "insert"} \cup EditPcs, on : SUBSET CatDoc,
               held : CatalogueDoc \cup {NoCatDoc}, agent : CatDoc \cup {NoCatDoc}]

LEMMA NoRequestIsTyped ==
  NoRequest \in CatRequest /\ NoRequest.on = {} /\ NoRequest.pc = "idle"
BY DEF NoRequest, CatRequest

LEMMA InitCat == CatalogueInit => CatInv
<1> SUFFICES ASSUME CatalogueInit PROVE CatInv
  OBVIOUS
<1>1. catOps \in [CatActor -> CatRequest] /\ \A k \in CatActor : catOps[k] = NoRequest
  BY NoRequestIsTyped DEF CatalogueInit
<1>2. CatalogueTypeOK
  BY <1>1, MaxEditsIsNat DEF CatalogueInit, CatalogueTypeOK, CatRequest
<1>3. Kept = {}
  BY DEF CatalogueInit, Kept
<1>4. Copies /\ OnlyCopy
  BY <1>1, NoRequestIsTyped DEF Copies, KindFits, OnlyCopy
<1>5. StoredDocs /\ Followed
  BY <1>3 DEF StoredDocs, Followed, CatalogueInit
<1> QED
  BY <1>2, <1>4, <1>5 DEF CatInv

\* A request that does not move, or is over, fits.
LEMMA NextFits ==
  ASSUME NEW j \in CatActor, catOps'[j] = catOps[j] \/ catOps'[j].pc = "idle",
         \A x : AgentRef(x) => AgentRef(x)', KindFits(j)
  PROVE  KindFits(j)'
<1>1. CASE catOps'[j].pc = "idle"
  BY <1>1 DEF KindFits
<1>2. CASE catOps'[j] = catOps[j]
  <2>1. ASSUME catOps[j].pc = "insert"
        PROVE  \E x \in CatDoc : AgentRef(x)' /\ catOps'[j].held = [NewDoc("workflow") EXCEPT !.agent = x]
    <3>1. PICK x \in CatDoc : AgentRef(x) /\ catOps[j].held = [NewDoc("workflow") EXCEPT !.agent = x]
      BY <2>1 DEF KindFits
    <3> QED
      BY <1>2, <3>1
  <2>2. ASSUME catOps[j].pc = "rename"
        PROVE  catOps[j].held.kind = "workflow" /\ AgentRef(catOps[j].agent)'
    <3>1. PICK x : x = catOps[j].agent
      OBVIOUS
    <3>2. AgentRef(x) /\ catOps[j].held.kind = "workflow"
      BY <2>2, <3>1 DEF KindFits
    <3>3. AgentRef(x)' /\ x = catOps'[j].agent
      BY <1>2, <3>1, <3>2
    <3> QED
      BY <3>2, <3>3
  <2>3. /\ catOps[j].pc \in {"tools", "test"} => catOps[j].held.kind = "server"
        /\ catOps[j].pc \in {"install", "remove"} => catOps[j].held.kind = "workflow"
    BY DEF KindFits
  <2> HIDE DEF KindFits
  <2> QED
    BY <1>2, <2>1, <2>2, <2>3 DEF KindFits
<1> QED
  BY <1>1, <1>2

-----------------------------------------------------------------------------
(* A document is written by a request that has loaded it *)

\* doc, made of a copy, is stored as d; w is what the edits come to.
Writes(k, d, doc, w) ==
  /\ doc \in CatalogueDoc /\ doc.kind = catOps[k].held.kind
  /\ d \in catOps[k].on
  /\ NameIsFree(d, doc)
  /\ catalogue' = [catalogue EXCEPT ![d] = doc]
  /\ written' = [written EXCEPT ![d] = IF d \in collided THEN NoCatDoc ELSE w]
  /\ d \notin collided => w = doc
  /\ Answered(k)
  /\ UNCHANGED <<catDb, edits, collided>>
  /\ reached' \in [CatDoc -> SUBSET {1, 2}] /\ \A x \in CatDoc : reached[x] \subseteq reached'[x]
  /\ doc.status = "connected" => doc.main \in reached'[d] /\ doc.kind = "server"
  /\ doc.kind = "workflow" => AgentRef(doc.agent)

LEMMA NextEdit ==
  ASSUME CatInv, NEW k \in CatActor, NEW d \in CatDoc, NEW doc, NEW w, Writes(k, d, doc, w)
  PROVE  CatInv'
<1> USE DEF CatInv
<1>1. \A x \in CatDoc : catalogue'[x] = IF x = d THEN doc ELSE catalogue[x]
  BY DEF Writes, CatalogueTypeOK
<1>2. \A j \in CatActor : catOps'[j] = IF j = k THEN NoRequest ELSE catOps[j]
  BY DEF Writes, Answered, CatalogueTypeOK
<1>3. doc \in CatalogueDoc /\ doc # NoCatDoc /\ doc # GoneCatDoc
  BY CatDocsAreStored DEF Writes
<1>4. Kept' = Kept \cup {d}
  BY <1>1, <1>3 DEF Kept
<1>5. CatalogueTypeOK'
  <2>1. catOps' \in [CatActor -> CatRequest]
    BY NoRequestIsTyped DEF Writes, Answered, CatalogueTypeOK, CatRequest
  <2>2. catalogue' \in [CatDoc -> CatalogueDoc \cup {NoCatDoc, GoneCatDoc}]
    BY <1>3 DEF Writes, CatalogueTypeOK
  <2>3. written' \in [CatDoc -> CatalogueDoc \cup {NoCatDoc, GoneCatDoc}]
    BY <1>3 DEF Writes, CatalogueTypeOK
  <2> QED
    BY <2>1, <2>2, <2>3 DEF Writes, CatalogueTypeOK, CatRequest
<1>6. catOps[k].held.kind = doc.kind /\ (d \in Kept => KindOf(d) = doc.kind)
        /\ \A j \in CatActor : d \in catOps[j].on => catOps[j].held.kind = doc.kind
  BY DEF Writes, Copies
<1>7. ASSUME NEW x, AgentRef(x) PROVE AgentRef(x)'
  <2>1. \A j \in CatActor : x \in catOps'[j].on => catOps'[j].held.kind = "agent"
    BY <1>2, <1>7, NoRequestIsTyped DEF AgentRef
  <2>2. x = d => doc.kind = "agent"
    BY <1>7 DEF AgentRef, Writes
  <2> QED
    BY <1>1, <1>3, <1>4, <1>7, <2>1, <2>2 DEF AgentRef, KindOf
<1>8. ASSUME NEW x \in CatDoc, NEW y, Sound(x, y) PROVE Sound(x, y)'
  BY <1>7, <1>8 DEF Sound, Writes
<1>9. Copies'
  <2> SUFFICES ASSUME NEW j \in CatActor, j # k
               PROVE  /\ KindFits(j)'
                      /\ \A x \in catOps[j].on :
                           /\ catalogue'[x] # NoCatDoc
                           /\ catOps[j].held \in CatalogueDoc
                           /\ Sound(x, catOps[j].held)'
                           /\ x \in Kept' => catOps[j].held.kind = catalogue'[x].kind
                           /\ \A i \in CatActor \ {k} : x \in catOps[i].on =>
                                catOps[i].held.kind = catOps[j].held.kind
    BY <1>2, NoRequestIsTyped DEF Copies, KindFits, KindOf
  <2>1. KindFits(j)'
    BY <1>2, <1>7, NextFits DEF Copies
  <2>2. ASSUME NEW x \in catOps[j].on
        PROVE  /\ catalogue'[x] # NoCatDoc
               /\ catOps[j].held \in CatalogueDoc
               /\ Sound(x, catOps[j].held)'
               /\ x \in Kept' => catOps[j].held.kind = catalogue'[x].kind
               /\ \A i \in CatActor \ {k} : x \in catOps[i].on =>
                    catOps[i].held.kind = catOps[j].held.kind
    <3>1. x \in CatDoc
      BY DEF CatalogueTypeOK
    <3>2. Sound(x, catOps[j].held)'
      BY <1>2, <1>8, <3>1 DEF Copies
    <3> QED
      BY <1>1, <1>3, <1>4, <1>6, <3>1, <3>2 DEF Copies, KindOf
  <2> QED
    BY <2>1, <2>2
<1>10. StoredDocs'
  <2> SUFFICES ASSUME NEW x \in Kept'
               PROVE  Sound(x, catalogue[x])' /\ NameIsFree(x, catalogue[x])'
    BY DEF StoredDocs
  <2>1. x \in CatDoc
    BY DEF Kept
  <2>2. CASE x = d
    <3>1. Sound(x, catalogue[x])'
      BY <1>1, <1>7, <2>1, <2>2 DEF Sound, Writes
    <3>2. NameIsFree(x, catalogue[x])'
      BY <1>1, <1>4, <2>1, <2>2 DEF NameIsFree, Writes, KindOf, Kept
    <3> QED
      BY <3>1, <3>2
  <2>3. CASE x # d
    <3>1. x \in Kept /\ catalogue'[x] = catalogue[x]
      BY <1>1, <1>4, <2>1, <2>3
    <3>2. Sound(x, catalogue[x])'
      BY <1>8, <2>1, <3>1 DEF StoredDocs
    <3>3. NameIsFree(x, catalogue[x])'
      BY <1>1, <1>4, <2>1, <2>3, <3>1 DEF StoredDocs, NameIsFree, Writes, KindOf, Kept
    <3> QED
      BY <3>2, <3>3
  <2> QED
    BY <2>2, <2>3
<1>11. Followed'
  BY <1>1 DEF Followed, Writes, CatalogueTypeOK
<1>12. OnlyCopy'
  <2> SUFFICES ASSUME NEW x \in CatDoc, x \notin collided, NEW j \in CatActor, j # k,
                      x \in catOps[j].on, ~ByFields(catOps[j].held.kind)
               PROVE  catOps[j].held = catalogue'[x] /\ ~Shared(j, x)'
    BY <1>2, NoRequestIsTyped DEF OnlyCopy, Writes, ByFields
  <2>1. catOps[j].held = catalogue[x] /\ ~Shared(j, x)
    BY DEF OnlyCopy
  <2>2. x # d
    BY <2>1 DEF Shared, Writes
  <2> QED
    BY <1>1, <1>2, <2>1, <2>2, NoRequestIsTyped DEF Shared
<1> QED
  BY <1>5, <1>9, <1>10, <1>11, <1>12
-----------------------------------------------------------------------------
(* The edits *)

\* The copy that a request is about to write: the document itself, if the edits
\* of it are followed.
LEMMA CopyIsWritten ==
  ASSUME CatInv, NEW k \in CatActor, NEW d \in CatDoc, d \in catOps[k].on
  PROVE  /\ catOps[k].held \in CatalogueDoc
         /\ Sound(d, catOps[k].held) /\ KindFits(k)
         /\ d \notin collided => written[d] = catalogue[d]
         /\ d \notin collided /\ ~ByFields(catOps[k].held.kind) => catOps[k].held = written[d]
         /\ catalogue[d] # NoCatDoc
         /\ catalogue[d] # GoneCatDoc => catalogue[d] \in CatalogueDoc /\ Sound(d, catalogue[d])
                                           /\ catalogue[d].kind = catOps[k].held.kind
BY DEF CatInv, Copies, StoredDocs, Followed, OnlyCopy, Kept, KindOf, CatalogueTypeOK

LEMMA EditedIsTyped ==
  ASSUME NEW doc \in CatalogueDoc, NEW edit \in Edits
  PROVE  /\ Edited(doc, edit) \in CatalogueDoc
         /\ Edited(doc, edit).kind = doc.kind /\ Edited(doc, edit).status = doc.status
         /\ Edited(doc, edit).agent = doc.agent
<1> DEFINE main == IF edit.main = 0 THEN doc.main ELSE edit.main
           other == IF edit.other = 0 THEN doc.other ELSE edit.other
<1>1. edit.main \in 0..2 /\ edit.other \in 0..2 /\ doc.main \in {1, 2} /\ doc.other \in {1, 2}
  BY DEF Edits, CatalogueDoc
<1>2. main \in {1, 2} /\ other \in {1, 2}
  BY <1>1
<1>3. Edited(doc, edit) = [doc EXCEPT !.main = main, !.other = other]
  BY DEF Edited, CatalogueDoc
<1> HIDE DEF main, other
<1> QED
  BY <1>2, <1>3 DEF CatalogueDoc

LEMMA NextFields ==
  ASSUME CatInv, NEW k \in CatActor, NEW d \in CatDoc, NEW edit \in Edits, SetFields(k, d, edit)
  PROVE  CatInv'
<1> DEFINE base == IF catDb = "mongo" THEN catalogue[d] ELSE catOps[k].held
           doc == Edited(base, edit)
<1>1. d \in catOps[k].on /\ catOps[k].held.kind \in ByField /\ base # GoneCatDoc
  BY DEF SetFields, Loaded
<1>2. base \in CatalogueDoc /\ base.kind = catOps[k].held.kind /\ Sound(d, base)
  BY <1>1, CopyIsWritten
<1>3. d \notin collided => base = written[d]
  BY <1>1, CopyIsWritten DEF ByFields
<1>4. StoreDoc(d, doc) /\ Answered(k) /\ UNCHANGED <<reached, catDb, edits, collided>>
  BY DEF SetFields, WriteDoc
<1>5. written' = [written EXCEPT ![d] = IF d \in collided THEN NoCatDoc ELSE Edited(written[d], edit)]
  BY DEF SetFields, WriteDoc, CatInv, CatalogueTypeOK
<1> HIDE DEF base
<1>6. doc \in CatalogueDoc /\ doc.kind = base.kind /\ doc.status = base.status /\ doc.agent = base.agent
  BY <1>2, EditedIsTyped
<1>7. doc.kind # "server" /\ doc.kind # "workflow"
  BY <1>1, <1>2, <1>6 DEF ByField
<1>8. doc.status # "connected"
  BY <1>2, <1>6, <1>7 DEF Sound
<1>9. reached' \in [CatDoc -> SUBSET {1, 2}]
  BY <1>4 DEF CatInv, CatalogueTypeOK
<1>10. Writes(k, d, doc, Edited(written[d], edit))
  BY <1>1, <1>2, <1>3, <1>4, <1>5, <1>6, <1>7, <1>8, <1>9 DEF Writes, StoreDoc
<1> QED
  BY <1>10, NextEdit

\* The other edits save what they make of their copy, doc.
LEMMA NextSave ==
  ASSUME CatInv, NEW k \in CatActor, NEW d \in CatDoc, NEW doc \in CatalogueDoc, NEW w,
         d \in catOps[k].on, doc.kind = catOps[k].held.kind,
         StoreDoc(d, doc),
         written' = [written EXCEPT ![d] = IF d \in collided THEN NoCatDoc ELSE w],
         catOps[k].held = written[d] => w = doc,
         Answered(k), UNCHANGED <<catDb, edits, collided>>,
         reached' \in [CatDoc -> SUBSET {1, 2}], \A x \in CatDoc : reached[x] \subseteq reached'[x],
         doc.status = "connected" => doc.main \in reached'[d] /\ doc.kind = "server",
         doc.kind = "workflow" => AgentRef(doc.agent),
         ~ByFields(catOps[k].held.kind)
  PROVE  CatInv'
<1>1. d \notin collided => w = doc
  BY CopyIsWritten
<1>2. Writes(k, d, doc, w)
  BY <1>1 DEF Writes, StoreDoc
<1> QED
  BY <1>2, NextEdit

LEMMA NextServer ==
  ASSUME CatInv, NEW k \in CatActor, NEW d \in CatDoc, NEW edit \in Edits, SaveServer(k, d, edit)
  PROVE  CatInv'
<1> DEFINE held == catOps[k].held
           doc == [Edited(held, edit) EXCEPT !.status = "registered"]
           w == [Edited(written[d], edit) EXCEPT !.status = "registered"]
<1>1. d \in catOps[k].on /\ held.kind = "server" /\ held \in CatalogueDoc
  BY CopyIsWritten DEF SaveServer, Loaded
<1>2. /\ StoreDoc(d, doc) /\ Answered(k) /\ UNCHANGED <<reached, catDb, edits, collided>>
      /\ written' = [written EXCEPT ![d] = IF d \in collided THEN NoCatDoc ELSE w]
  BY DEF SaveServer, WriteDoc, CatInv, CatalogueTypeOK
<1>3. doc \in CatalogueDoc /\ doc.kind = held.kind /\ doc.status = "registered"
  BY <1>1, EditedIsTyped DEF CatalogueDoc
<1>4. held = written[d] => w = doc
  OBVIOUS
<1>5. reached' \in [CatDoc -> SUBSET {1, 2}]
  BY <1>2 DEF CatInv, CatalogueTypeOK
<1>6. ~ByFields(held.kind)
  BY <1>1 DEF ByFields, ByField
<1> HIDE DEF doc, w
<1> QED
  BY <1>1, <1>2, <1>3, <1>4, <1>5, <1>6, NextSave

LEMMA NextTools ==
  ASSUME CatInv, NEW k \in CatActor, NEW d \in CatDoc, NEW other \in {1, 2}, SaveTools(k, d, other)
  PROVE  CatInv'
<1> DEFINE held == catOps[k].held
           doc == [held EXCEPT !.other = other]
           w == [written[d] EXCEPT !.other = other]
<1>1. d \in catOps[k].on /\ held.kind = "server" /\ held \in CatalogueDoc /\ Sound(d, held)
  BY CopyIsWritten DEF SaveTools, Loaded, KindFits
<1>2. /\ StoreDoc(d, doc) /\ Answered(k) /\ UNCHANGED <<reached, catDb, edits, collided>>
      /\ written' = [written EXCEPT ![d] = IF d \in collided THEN NoCatDoc ELSE w]
  BY DEF SaveTools, WriteDoc, CatInv, CatalogueTypeOK
<1>3. doc \in CatalogueDoc /\ doc.kind = held.kind /\ doc.status = held.status /\ doc.main = held.main
  BY <1>1 DEF CatalogueDoc
<1>4. held = written[d] => w = doc
  OBVIOUS
<1>5. reached' \in [CatDoc -> SUBSET {1, 2}]
  BY <1>2 DEF CatInv, CatalogueTypeOK
<1>6. ~ByFields(held.kind) /\ (doc.status = "connected" => doc.main \in reached'[d])
  BY <1>1, <1>2, <1>3 DEF ByFields, ByField, Sound
<1> HIDE DEF doc, w
<1> QED
  BY <1>1, <1>2, <1>3, <1>4, <1>5, <1>6, NextSave

LEMMA NextTest ==
  ASSUME CatInv, NEW k \in CatActor, NEW d \in CatDoc, NEW status \in {"connected", "error"},
         TestServer(k, d, status)
  PROVE  CatInv'
<1> DEFINE held == catOps[k].held
           doc == [held EXCEPT !.status = status]
           w == [written[d] EXCEPT !.status = status]
<1>1. d \in catOps[k].on /\ held.kind = "server" /\ held \in CatalogueDoc /\ Sound(d, held)
  BY CopyIsWritten DEF TestServer, Loaded, KindFits
<1>2. /\ StoreDoc(d, doc) /\ Answered(k) /\ UNCHANGED <<catDb, edits, collided>>
      /\ written' = [written EXCEPT ![d] = IF d \in collided THEN NoCatDoc ELSE w]
      /\ reached' = [reached EXCEPT ![d] = IF status = "connected" THEN @ \cup {held.main} ELSE @]
  BY DEF TestServer, WriteDoc, CatInv, CatalogueTypeOK
<1>3. doc \in CatalogueDoc /\ doc.kind = held.kind /\ doc.status = status /\ doc.main = held.main
        /\ held.main \in {1, 2}
  BY <1>1 DEF CatalogueDoc
<1>4. held = written[d] => w = doc
  OBVIOUS
<1>5. reached' \in [CatDoc -> SUBSET {1, 2}] /\ \A x \in CatDoc : reached[x] \subseteq reached'[x]
  BY <1>2, <1>3 DEF CatInv, CatalogueTypeOK
<1>6. status = "connected" => held.main \in reached'[d]
  BY <1>2 DEF CatInv, CatalogueTypeOK
<1>7. ~ByFields(held.kind)
  BY <1>1 DEF ByFields, ByField
<1> HIDE DEF doc, w
<1> QED
  BY <1>1, <1>2, <1>3, <1>4, <1>5, <1>6, <1>7, NextSave

LEMMA NextRename ==
  ASSUME CatInv, NEW k \in CatActor, NEW d \in CatDoc, NEW edit \in Edits, SaveWorkflow(k, d, edit)
  PROVE  CatInv'
<1> DEFINE held == catOps[k].held
           AgentNow(x) == IF catOps[k].pc = "rename" THEN catOps[k].agent ELSE x
           doc == [Edited(held, edit) EXCEPT !.agent = AgentNow(@)]
           w == [Edited(written[d], edit) EXCEPT !.agent = AgentNow(@)]
<1>1. d \in catOps[k].on /\ held.kind = "workflow" /\ held \in CatalogueDoc /\ Sound(d, held)
        /\ KindFits(k)
  BY CopyIsWritten DEF SaveWorkflow, Loaded, KindFits
<1>2. /\ StoreDoc(d, doc) /\ Answered(k) /\ UNCHANGED <<reached, catDb, edits, collided>>
      /\ written' = [written EXCEPT ![d] = IF d \in collided THEN NoCatDoc ELSE w]
  BY DEF SaveWorkflow, WriteDoc, CatInv, CatalogueTypeOK
<1>3. /\ Edited(held, edit) \in CatalogueDoc /\ Edited(held, edit).kind = held.kind
      /\ Edited(held, edit).agent = held.agent /\ Edited(held, edit).status = held.status
  BY <1>1, EditedIsTyped
<1>4. AgentRef(AgentNow(held.agent)) /\ AgentNow(held.agent) \in CatDoc
  BY <1>1 DEF KindFits, Sound, AgentRef
<1>5. doc \in CatalogueDoc /\ doc.kind = held.kind /\ doc.status = held.status
        /\ doc.agent = AgentNow(held.agent)
  BY <1>3, <1>4 DEF CatalogueDoc
<1>6. held = written[d] => w = doc
  OBVIOUS
<1>7. reached' \in [CatDoc -> SUBSET {1, 2}]
  BY <1>2 DEF CatInv, CatalogueTypeOK
<1>8. ~ByFields(held.kind) /\ doc.status # "connected"
  BY <1>1, <1>5 DEF ByFields, ByField, Sound
<1>9. AgentRef(doc.agent)
  BY <1>4, <1>5
<1> HIDE DEF doc, w
<1> QED
  BY <1>1, <1>2, <1>5, <1>6, <1>7, <1>8, <1>9, NextSave

LEMMA NextSkill ==
  ASSUME CatInv, NEW k \in CatActor, NEW d \in CatDoc, NEW s \in CatSkill,
         InstallSkill(k, d, s) \/ RemoveSkill(k, d, s)
  PROVE  CatInv'
<1> DEFINE held == catOps[k].held
           Skills(set) == IF catOps[k].pc = "install" THEN set \cup {s} ELSE set \ {s}
           doc == [held EXCEPT !.skills = Skills(@)]
           w == [written[d] EXCEPT !.skills = Skills(@)]
<1>1. d \in catOps[k].on /\ held.kind = "workflow" /\ held \in CatalogueDoc /\ Sound(d, held)
  BY CopyIsWritten DEF InstallSkill, RemoveSkill, Loaded, KindFits
<1>2. /\ StoreDoc(d, doc) /\ Answered(k) /\ UNCHANGED <<reached, catDb, edits, collided>>
      /\ written' = [written EXCEPT ![d] = IF d \in collided THEN NoCatDoc ELSE w]
  BY DEF InstallSkill, RemoveSkill, Loaded, WriteDoc, CatInv, CatalogueTypeOK
<1>3. doc \in CatalogueDoc /\ doc.kind = held.kind /\ doc.status = held.status
        /\ doc.agent = held.agent
  BY <1>1 DEF CatalogueDoc
<1>4. held = written[d] => w = doc
  OBVIOUS
<1>5. reached' \in [CatDoc -> SUBSET {1, 2}]
  BY <1>2 DEF CatInv, CatalogueTypeOK
<1>6. ~ByFields(held.kind) /\ doc.status # "connected" /\ AgentRef(doc.agent)
  BY <1>1, <1>3 DEF ByFields, ByField, Sound
<1> HIDE DEF doc, w
<1> QED
  BY <1>1, <1>2, <1>3, <1>4, <1>5, <1>6, NextSave
-----------------------------------------------------------------------------
(* Creation, the first call of a request, deletion *)

\* A document is stored as d for the first time, by a route or by request k.
StoresDoc(d, doc) ==
  /\ doc \in CatalogueDoc /\ catalogue[d] = NoCatDoc
  /\ NameIsFree(d, doc)
  /\ catalogue' = [catalogue EXCEPT ![d] = doc]
  /\ written' = [written EXCEPT ![d] = IF d \in collided THEN NoCatDoc ELSE doc]
  /\ catOps' = catOps \/ \E k \in CatActor : catOps[k].pc = "insert" /\ Answered(k)
  /\ UNCHANGED <<catDb, edits, collided, reached>>
  /\ doc.status # "connected"
  /\ doc.kind = "workflow" => AgentRef(doc.agent)

LEMMA NextStore ==
  ASSUME CatInv, NEW d \in CatDoc, NEW doc, StoresDoc(d, doc)
  PROVE  CatInv'
<1> USE DEF CatInv
<1>1. \A x \in CatDoc : catalogue'[x] = IF x = d THEN doc ELSE catalogue[x]
  BY DEF StoresDoc, CatalogueTypeOK
<1>2. \A j \in CatActor : catOps'[j] = catOps[j] \/ catOps'[j] = NoRequest
  BY DEF StoresDoc, Answered, CatalogueTypeOK
<1>3. doc \in CatalogueDoc /\ doc # NoCatDoc /\ doc # GoneCatDoc
  BY CatDocsAreStored DEF StoresDoc
<1>4. Kept' = Kept \cup {d} /\ d \notin Kept
  BY <1>1, <1>3 DEF Kept, StoresDoc
<1>5. CatalogueTypeOK'
  <2>1. catOps' \in [CatActor -> CatRequest]
    BY NoRequestIsTyped DEF StoresDoc, Answered, CatalogueTypeOK, CatRequest
  <2>2. catalogue' \in [CatDoc -> CatalogueDoc \cup {NoCatDoc, GoneCatDoc}]
    BY <1>3 DEF StoresDoc, CatalogueTypeOK
  <2>3. written' \in [CatDoc -> CatalogueDoc \cup {NoCatDoc, GoneCatDoc}]
    BY <1>3 DEF StoresDoc, CatalogueTypeOK
  <2> QED
    BY <2>1, <2>2, <2>3 DEF StoresDoc, CatalogueTypeOK, CatRequest
<1>6. \A j \in CatActor : d \notin catOps[j].on
  BY DEF StoresDoc, Copies
<1>7. ASSUME NEW x, AgentRef(x) PROVE AgentRef(x)'
  <2>1. \A j \in CatActor : x \in catOps'[j].on => catOps'[j].held.kind = "agent"
    BY <1>2, <1>7, NoRequestIsTyped DEF AgentRef
  <2>2. x # d
    BY <1>7 DEF AgentRef, StoresDoc
  <2> QED
    BY <1>1, <1>4, <1>7, <2>1, <2>2 DEF AgentRef, KindOf
<1>8. ASSUME NEW x \in CatDoc, NEW y, Sound(x, y) PROVE Sound(x, y)'
  BY <1>7, <1>8 DEF Sound, StoresDoc
<1>9. Copies'
  <2>1. ASSUME NEW j \in CatActor PROVE KindFits(j)'
    BY <1>2, <1>7, NextFits, NoRequestIsTyped DEF Copies
  <2>2. ASSUME NEW j \in CatActor, NEW x \in catOps'[j].on
        PROVE  /\ catalogue'[x] # NoCatDoc
               /\ catOps'[j].held \in CatalogueDoc
               /\ Sound(x, catOps[j].held)'
               /\ x \in Kept' => catOps'[j].held.kind = catalogue'[x].kind
               /\ \A i \in CatActor : x \in catOps'[i].on =>
                    catOps'[i].held.kind = catOps'[j].held.kind
    <3>1. catOps'[j] = catOps[j] /\ x \in CatDoc /\ x # d
      BY <1>2, <1>6, <2>2, NoRequestIsTyped DEF CatalogueTypeOK
    <3>2. Sound(x, catOps[j].held)'
      BY <1>8, <2>2, <3>1 DEF Copies
    <3>3. \A i \in CatActor : x \in catOps'[i].on => catOps'[i] = catOps[i]
      BY <1>2, NoRequestIsTyped
    <3> QED
      BY <1>1, <1>4, <2>2, <3>1, <3>2, <3>3 DEF Copies, KindOf
  <2> QED
    BY <2>1, <2>2 DEF Copies, KindOf
<1>10. StoredDocs'
  <2> SUFFICES ASSUME NEW x \in Kept'
               PROVE  Sound(x, catalogue[x])' /\ NameIsFree(x, catalogue[x])'
    BY DEF StoredDocs
  <2>1. x \in CatDoc
    BY DEF Kept
  <2>2. CASE x = d
    <3>1. Sound(x, catalogue[x])'
      BY <1>1, <1>7, <2>1, <2>2 DEF Sound, StoresDoc
    <3>2. NameIsFree(x, catalogue[x])'
      BY <1>1, <1>4, <2>1, <2>2 DEF NameIsFree, StoresDoc, KindOf, Kept
    <3> QED
      BY <3>1, <3>2
  <2>3. CASE x # d
    <3>1. x \in Kept /\ catalogue'[x] = catalogue[x]
      BY <1>1, <1>4, <2>1, <2>3
    <3>2. Sound(x, catalogue[x])'
      BY <1>8, <2>1, <3>1 DEF StoredDocs
    <3>3. NameIsFree(x, catalogue[x])'
      BY <1>1, <1>4, <2>1, <2>3, <3>1 DEF StoredDocs, NameIsFree, StoresDoc, KindOf, Kept
    <3> QED
      BY <3>2, <3>3
  <2> QED
    BY <2>2, <2>3
<1>11. Followed'
  BY <1>1 DEF Followed, StoresDoc, CatalogueTypeOK
<1>12. OnlyCopy'
  <2> SUFFICES ASSUME NEW x \in CatDoc, x \notin collided, NEW j \in CatActor,
                      x \in catOps'[j].on, ~ByFields(catOps'[j].held.kind)
               PROVE  catOps'[j].held = catalogue'[x] /\ ~Shared(j, x)'
    BY DEF OnlyCopy, StoresDoc, ByFields
  <2>1. catOps'[j] = catOps[j]
    BY <1>2, NoRequestIsTyped
  <2>2. catOps[j].held = catalogue[x] /\ ~Shared(j, x) /\ x # d
    BY <1>6, <2>1 DEF OnlyCopy
  <2> QED
    BY <1>1, <1>2, <2>1, <2>2, NoRequestIsTyped DEF Shared
<1> QED
  BY <1>5, <1>9, <1>10, <1>11, <1>12

LEMMA NextCreation ==
  ASSUME CatInv,
         \/ \E d \in CatDoc : CreateDoc(d)
         \/ \E k \in CatActor, d \in CatDoc : InsertWorkflow(k, d)
  PROVE  CatInv'
<1>1. ASSUME NEW d \in CatDoc, CreateDoc(d) PROVE CatInv'
  <2>1. PICK kind \in ByField \cup {"server"}, main \in {1, 2} :
          WriteDoc(d, NewDoc(kind), LAMBDA doc : [NewDoc(kind) EXCEPT !.main = main])
    BY <1>1 DEF CreateDoc
  <2> DEFINE doc == [NewDoc(kind) EXCEPT !.main = main]
  <2>2. doc \in CatalogueDoc /\ doc.kind = kind /\ doc.status = "registered"
    BY DEF NewDoc, CatalogueDoc, ByField, AsWhole
  <2>3. /\ StoreDoc(d, doc) /\ UNCHANGED <<catDb, edits, collided>>
        /\ written' = [written EXCEPT ![d] = IF d \in collided THEN NoCatDoc ELSE doc]
    BY <2>1 DEF WriteDoc
  <2> HIDE DEF doc
  <2>4. kind # "workflow"
    BY DEF ByField
  <2>5. StoresDoc(d, doc)
    BY <1>1, <2>2, <2>3, <2>4 DEF StoresDoc, CreateDoc, StoreDoc
  <2> QED
    BY <2>5, NextStore
<1>2. ASSUME NEW k \in CatActor, NEW d \in CatDoc, InsertWorkflow(k, d) PROVE CatInv'
  <2> DEFINE doc == catOps[k].held
  <2>1. PICK x \in CatDoc : AgentRef(x) /\ doc = [NewDoc("workflow") EXCEPT !.agent = x]
    BY <1>2 DEF InsertWorkflow, CatInv, Copies, KindFits
  <2>2. doc \in CatalogueDoc /\ doc.agent = x /\ doc.status = "registered"
    BY <2>1 DEF NewDoc, CatalogueDoc, AsWhole
  <2>3. StoresDoc(d, doc)
    BY <1>2, <2>1, <2>2 DEF StoresDoc, InsertWorkflow, WriteDoc, StoreDoc
  <2> QED
    BY <2>3, NextStore
<1> QED
  BY <1>1, <1>2

\* A request goes on without touching a document.
LEMMA NextRequest ==
  ASSUME CatInv, NEW k \in CatActor, NEW op \in CatRequest,
         catOps' = [catOps EXCEPT ![k] = op], OnlyRequests, KindFits(k)',
         op.on = {} \/ (op.on = catOps[k].on /\ op.held = catOps[k].held)
  PROVE  CatInv'
<1> USE DEF CatInv
<1>1. \A j \in CatActor : catOps'[j] = IF j = k THEN op ELSE catOps[j]
  BY DEF CatalogueTypeOK
<1>2. \A j \in CatActor : \A x \in catOps'[j].on :
        x \in catOps[j].on /\ catOps'[j].held = catOps[j].held
  BY <1>1
<1>3. ASSUME NEW x, AgentRef(x) PROVE AgentRef(x)'
  BY <1>2, <1>3 DEF AgentRef, OnlyRequests, Kept, KindOf
<1>4. ASSUME NEW x, NEW y, Sound(x, y) PROVE Sound(x, y)'
  BY <1>3, <1>4 DEF Sound, OnlyRequests
<1>5. CatalogueTypeOK'
  BY DEF CatalogueTypeOK, CatRequest, OnlyRequests
<1>6. Copies'
  <2>1. ASSUME NEW j \in CatActor PROVE KindFits(j)'
    <3>1. CASE j = k
      BY <3>1
    <3>2. CASE j # k
      BY <1>1, <1>3, <3>2, NextFits DEF Copies
    <3> QED
      BY <3>1, <3>2
  <2>2. ASSUME NEW j \in CatActor, NEW x \in catOps'[j].on
        PROVE  /\ catalogue'[x] # NoCatDoc
               /\ catOps'[j].held \in CatalogueDoc
               /\ Sound(x, catOps[j].held)'
               /\ x \in Kept' => catOps'[j].held.kind = catalogue'[x].kind
               /\ \A i \in CatActor : x \in catOps'[i].on =>
                    catOps'[i].held.kind = catOps'[j].held.kind
    <3>1. x \in catOps[j].on /\ catOps'[j].held = catOps[j].held
      BY <1>2
    <3>2. Sound(x, catOps[j].held)
      BY <3>1 DEF Copies
    <3>3. Sound(x, catOps[j].held)'
      BY <1>4, <3>1, <3>2
    <3>4. \A i \in CatActor : x \in catOps'[i].on => x \in catOps[i].on /\ catOps'[i].held = catOps[i].held
      BY <1>2
    <3>5. catalogue' = catalogue /\ Kept' = Kept
      BY DEF OnlyRequests, Kept
    <3> QED
      BY <3>1, <3>3, <3>4, <3>5 DEF Copies, KindOf
  <2> QED
    BY <2>1, <2>2 DEF Copies, KindOf
<1>7. StoredDocs' /\ Followed'
  BY <1>4 DEF StoredDocs, Followed, OnlyRequests, Kept, NameIsFree, KindOf
<1>8. OnlyCopy'
  BY <1>2 DEF OnlyCopy, OnlyRequests, ByFields, Shared
<1> QED
  BY <1>5, <1>6, <1>7, <1>8

\* An agent that is there may be named.
LEMMA AgentIsRef ==
  ASSUME CatInv, NEW x \in Kept, KindOf(x) = "agent"
  PROVE  AgentRef(x)
BY CatDocsAreNone DEF AgentRef, CatInv, Copies, Kept

LEMMA NextLookUp ==
  ASSUME CatInv, NEW k \in CatActor, NEW x \in CatDoc,
         LookUpAgent(k, x) \/ (\E d \in CatDoc : NameAgent(k, d, x))
  PROVE  CatInv'
<1>1. ASSUME LookUpAgent(k, x) PROVE CatInv'
  <2> DEFINE op == [NoRequest EXCEPT !.pc = "insert", !.held = [NewDoc("workflow") EXCEPT !.agent = x]]
  <2>1. /\ op \in CatRequest /\ op.on = {} /\ op.pc = "insert"
        /\ op.held = [NewDoc("workflow") EXCEPT !.agent = x]
    BY DEF NoRequest, CatRequest, NewDoc, CatalogueDoc, AsWhole
  <2>2. catOps' = [catOps EXCEPT ![k] = op] /\ OnlyRequests
    BY <1>1 DEF LookUpAgent
  <2> HIDE DEF op
  <2>3. \A j \in CatActor : catOps'[j] = IF j = k THEN op ELSE catOps[j]
    BY <2>2 DEF CatInv, CatalogueTypeOK
  <2>4. AgentRef(x)
    BY <1>1, AgentIsRef DEF LookUpAgent
  <2>5. AgentRef(x)'
    BY <2>1, <2>2, <2>3, <2>4 DEF AgentRef, OnlyRequests, Kept, KindOf
  <2>6. KindFits(k)'
    BY <2>1, <2>3, <2>5 DEF KindFits
  <2> QED
    BY <2>1, <2>2, <2>6, NextRequest
<1>2. ASSUME NEW d \in CatDoc, NameAgent(k, d, x) PROVE CatInv'
  <2> DEFINE op == [catOps[k] EXCEPT !.pc = "rename", !.agent = x]
  <2>1. catOps[k] \in CatRequest
    BY DEF CatInv, CatalogueTypeOK, CatRequest
  <2>2. /\ op \in CatRequest /\ op.on = catOps[k].on /\ op.held = catOps[k].held
        /\ op.pc = "rename" /\ op.agent = x
    BY <2>1 DEF CatRequest
  <2>3. catOps' = [catOps EXCEPT ![k] = op] /\ OnlyRequests /\ op.held.kind = "workflow"
    BY <1>2, <2>1, <2>2 DEF NameAgent, CatRequest, CatInv, CatalogueTypeOK
  <2> HIDE DEF op
  <2>4. \A j \in CatActor : catOps'[j] = IF j = k THEN op ELSE catOps[j]
    BY <2>3 DEF CatInv, CatalogueTypeOK
  <2>5. AgentRef(x)
    BY <1>2, AgentIsRef DEF NameAgent
  <2>6. AgentRef(x)'
    BY <2>2, <2>3, <2>4, <2>5 DEF AgentRef, OnlyRequests, Kept, KindOf
  <2>7. KindFits(k)'
    BY <2>2, <2>3, <2>4, <2>6 DEF KindFits
  <2> QED
    BY <2>2, <2>3, <2>7, NextRequest
<1> QED
  BY <1>1, <1>2

LEMMA NextCut ==
  ASSUME CatInv, NEW k \in CatActor, CutEdit(k)
  PROVE  CatInv'
<1>1. catOps' = [catOps EXCEPT ![k] = NoRequest] /\ OnlyRequests
  BY DEF CutEdit, Answered
<1>2. catOps'[k] = NoRequest
  BY <1>1 DEF CatInv, CatalogueTypeOK
<1>3. KindFits(k)'
  BY <1>2, NoRequestIsTyped DEF KindFits
<1> QED
  BY <1>1, <1>3, NoRequestIsTyped, NextRequest

LEMMA NextLoad ==
  ASSUME CatInv, NEW k \in CatActor, NEW d \in CatDoc, NEW pc \in EditPcs, LoadDoc(k, d, pc)
  PROVE  CatInv'
<1> USE DEF CatInv
<1> DEFINE op == [NoRequest EXCEPT !.pc = pc, !.on = {d}, !.held = catalogue[d]]
<1>1. d \in Kept /\ catalogue[d] \in CatalogueDoc /\ catalogue[d] # NoCatDoc
  BY DEF LoadDoc, Kept, CatalogueTypeOK
<1>2. op \in CatRequest /\ op.pc = pc /\ op.on = {d} /\ op.held = catalogue[d]
  BY <1>1 DEF NoRequest, CatRequest
<1>3. catOps' = [catOps EXCEPT ![k] = op]
  BY DEF LoadDoc
<1> HIDE DEF op
<1>4. \A j \in CatActor : catOps'[j] = IF j = k THEN op ELSE catOps[j]
  BY <1>3 DEF CatalogueTypeOK
<1>5. /\ catalogue' = catalogue /\ Kept' = Kept /\ catDb' = catDb /\ reached' = reached
      /\ collided' = IF Shared(k, d) /\ ~ByFields(KindOf(d)) THEN collided \cup {d} ELSE collided
      /\ written' = [written EXCEPT ![d] = IF d \in collided' THEN NoCatDoc ELSE @]
  BY DEF LoadDoc, Kept, ByFields
<1>6. CatalogueTypeOK'
  <2>1. catOps' \in [CatActor -> CatRequest]
    BY <1>2, <1>3 DEF CatalogueTypeOK, CatRequest
  <2>2. written' \in [CatDoc -> CatalogueDoc \cup {NoCatDoc, GoneCatDoc}] /\ collided' \subseteq CatDoc
    BY <1>5 DEF CatalogueTypeOK
  <2>3. edits' \in 0..MaxEdits
    BY MaxEditsIsNat DEF LoadDoc, CatalogueTypeOK
  <2> QED
    BY <1>5, <2>1, <2>2, <2>3 DEF CatalogueTypeOK, CatRequest
<1>7. ASSUME NEW x, AgentRef(x) PROVE AgentRef(x)'
  <2>1. \A j \in CatActor : x \in catOps'[j].on => catOps'[j].held.kind = "agent"
    BY <1>1, <1>2, <1>4, <1>7 DEF AgentRef, KindOf
  <2> QED
    BY <1>5, <1>7, <2>1 DEF AgentRef, KindOf
<1>8. ASSUME NEW x \in CatDoc, NEW y, Sound(x, y) PROVE Sound(x, y)'
  BY <1>5, <1>7, <1>8 DEF Sound
<1>9. Copies'
  <2>1. ASSUME NEW j \in CatActor PROVE KindFits(j)'
    <3>1. CASE j = k
      BY <1>2, <1>4, <3>1 DEF KindFits, LoadDoc, KindOf, EditPcs
    <3>2. CASE j # k
      BY <1>4, <1>7, <3>2, NextFits DEF Copies
    <3> QED
      BY <3>1, <3>2
  <2>2. \A j \in CatActor : d \in catOps'[j].on => catOps'[j].held.kind = KindOf(d)
    BY <1>1, <1>2, <1>4 DEF Copies, KindOf
  <2>3. ASSUME NEW j \in CatActor, NEW x \in catOps'[j].on
        PROVE  /\ catalogue'[x] # NoCatDoc
               /\ catOps'[j].held \in CatalogueDoc
               /\ x \in Kept' => catOps'[j].held.kind = catalogue'[x].kind
               /\ \A i \in CatActor : x \in catOps'[i].on =>
                    catOps'[i].held.kind = catOps'[j].held.kind
    <3>1. CASE x = d
      BY <1>1, <1>2, <1>4, <1>5, <2>2, <2>3, <3>1 DEF Copies, KindOf
    <3>2. CASE x # d
      <4>1. \A i \in CatActor : x \in catOps'[i].on => catOps'[i] = catOps[i]
        BY <1>2, <1>4, <3>2
      <4> QED
        BY <1>5, <2>3, <4>1 DEF Copies, KindOf
    <3> QED
      BY <3>1, <3>2
  <2>4. ASSUME NEW j \in CatActor, NEW x \in catOps'[j].on
        PROVE  /\ catOps'[j].held.status = "connected" =>
                    catOps'[j].held.main \in reached'[x] /\ catOps'[j].held.kind = "server"
               /\ catOps'[j].held.kind = "workflow" => AgentRef(catOps[j].held.agent)'
    <3>1. PICK y : y = catOps'[j].held
      OBVIOUS
    <3>2. x \in CatDoc /\ Sound(x, y)
      BY <1>1, <1>2, <1>4, <2>4, <3>1 DEF Copies, StoredDocs, CatalogueTypeOK
    <3>3. Sound(x, y)'
      BY <1>8, <3>2
    <3> QED
      BY <3>1, <3>3 DEF Sound
  <2> QED
    BY <2>1, <2>3, <2>4 DEF Copies, Sound, KindOf
<1>10. StoredDocs'
  <2>1. ASSUME NEW x \in Kept' PROVE Sound(x, catalogue[x])' /\ NameIsFree(x, catalogue[x])'
    <3>1. PICK y : y = catalogue[x]
      OBVIOUS
    <3>2. x \in CatDoc /\ Sound(x, y) /\ NameIsFree(x, y)
      BY <1>5, <2>1, <3>1 DEF StoredDocs, Kept
    <3>3. Sound(x, y)' /\ NameIsFree(x, y)'
      BY <1>5, <1>8, <3>2 DEF NameIsFree, KindOf
    <3> QED
      BY <1>5, <3>1, <3>3
  <2> QED
    BY <2>1 DEF StoredDocs
<1>11. Followed'
  BY <1>5 DEF Followed, CatalogueTypeOK
<1>12. OnlyCopy'
  <2> SUFFICES ASSUME NEW x \in CatDoc, x \notin collided', NEW j \in CatActor,
                      x \in catOps'[j].on, ~ByFields(catOps'[j].held.kind)
               PROVE  catOps'[j].held = catalogue'[x] /\ ~Shared(j, x)'
    BY <1>5 DEF OnlyCopy, ByFields
  <2>1. x \notin collided
    BY <1>5
  <2>2. CASE x = d
    <3>1. catOps'[j].held.kind = KindOf(d)
      BY <1>1, <1>2, <1>4, <2>2 DEF Copies, KindOf
    <3>2. ~Shared(k, d)
      BY <1>5, <2>2, <3>1
    <3>3. j = k
      BY <1>4, <2>2, <3>2 DEF Shared
    <3> QED
      BY <1>2, <1>4, <1>5, <2>2, <3>2, <3>3 DEF Shared
  <2>3. CASE x # d
    <3>1. j # k /\ catOps'[j] = catOps[j]
      BY <1>2, <1>4, <2>3
    <3>2. catOps[j].held = catalogue[x] /\ ~Shared(j, x)
      BY <2>1, <3>1 DEF OnlyCopy
    <3>3. \A i \in CatActor : x \in catOps'[i].on => x \in catOps[i].on
      BY <1>2, <1>4, <2>3
    <3> QED
      BY <1>5, <3>1, <3>2, <3>3 DEF Shared
  <2> QED
    BY <2>2, <2>3
<1> QED
  BY <1>6, <1>9, <1>10, <1>11, <1>12

LEMMA NextRemoval ==
  ASSUME CatInv, NEW k \in CatActor, NEW d \in CatDoc, RemoveDoc(k, d)
  PROVE  CatInv'
<1> USE DEF CatInv
<1>1. \A x \in CatDoc : catalogue'[x] = IF x = d THEN GoneCatDoc ELSE catalogue[x]
  BY DEF RemoveDoc, CatalogueTypeOK
<1>2. \A j \in CatActor : catOps'[j] = IF j = k THEN NoRequest ELSE catOps[j]
  BY DEF RemoveDoc, Answered, CatalogueTypeOK
<1>3. d \in catOps[k].on /\ Kept' = Kept \ {d}
  BY <1>1 DEF RemoveDoc, Loaded, Kept
<1>4. \A j \in CatActor : \A x \in catOps'[j].on : j # k /\ catOps'[j] = catOps[j]
  BY <1>2, NoRequestIsTyped
<1>5. CatalogueTypeOK'
  <2>1. catOps' \in [CatActor -> CatRequest]
    BY NoRequestIsTyped DEF RemoveDoc, Answered, CatalogueTypeOK, CatRequest
  <2> QED
    BY <2>1 DEF RemoveDoc, CatalogueTypeOK, CatRequest
<1>6. ASSUME NEW x, AgentRef(x) PROVE AgentRef(x)'
  <2>1. \A j \in CatActor : x \in catOps'[j].on => catOps'[j].held.kind = "agent"
    BY <1>4, <1>6 DEF AgentRef
  <2> QED
    BY <1>1, <1>3, <1>6, <2>1, CatDocsAreNone DEF AgentRef, KindOf
<1>7. ASSUME NEW x, NEW y, Sound(x, y) PROVE Sound(x, y)'
  BY <1>6, <1>7 DEF Sound, RemoveDoc
<1>8. Copies'
  <2>1. ASSUME NEW j \in CatActor PROVE KindFits(j)'
    BY <1>2, <1>6, NextFits, NoRequestIsTyped DEF Copies
  <2>2. ASSUME NEW j \in CatActor, NEW x \in catOps'[j].on
        PROVE  /\ catalogue'[x] # NoCatDoc
               /\ catOps'[j].held \in CatalogueDoc
               /\ Sound(x, catOps[j].held)'
               /\ x \in Kept' => catOps'[j].held.kind = catalogue'[x].kind
               /\ \A i \in CatActor : x \in catOps'[i].on =>
                    catOps'[i].held.kind = catOps'[j].held.kind
    <3>1. x \in catOps[j].on /\ catOps'[j] = catOps[j] /\ x \in CatDoc
      BY <1>4, <2>2 DEF CatalogueTypeOK
    <3>2. Sound(x, catOps[j].held)
      BY <3>1 DEF Copies
    <3>3. Sound(x, catOps[j].held)'
      BY <1>7, <3>1, <3>2
    <3> QED
      BY <1>1, <1>3, <1>4, <3>1, <3>3, CatDocsAreNone DEF Copies, KindOf
  <2> QED
    BY <2>1, <2>2 DEF Copies, KindOf
<1>9. StoredDocs'
  <2>1. ASSUME NEW x \in Kept' PROVE Sound(x, catalogue[x])' /\ NameIsFree(x, catalogue[x])'
    <3>1. x \in Kept /\ x \in CatDoc /\ catalogue'[x] = catalogue[x]
      BY <1>1, <1>3, <2>1 DEF Kept
    <3>2. Sound(x, catalogue[x]) /\ NameIsFree(x, catalogue[x])
      BY <3>1 DEF StoredDocs
    <3>3. Sound(x, catalogue[x])'
      BY <1>7, <3>1, <3>2
    <3>4. NameIsFree(x, catalogue[x])'
      BY <1>1, <1>3, <3>1, <3>2 DEF NameIsFree, KindOf, Kept
    <3> QED
      BY <3>3, <3>4
  <2> QED
    BY <2>1 DEF StoredDocs
<1>10. Followed'
  BY <1>1 DEF Followed, RemoveDoc, CatalogueTypeOK
<1>11. OnlyCopy'
  <2> SUFFICES ASSUME NEW x \in CatDoc, x \notin collided, NEW j \in CatActor,
                      x \in catOps'[j].on, ~ByFields(catOps'[j].held.kind)
               PROVE  catOps'[j].held = catalogue'[x] /\ ~Shared(j, x)'
    BY DEF OnlyCopy, RemoveDoc, ByFields
  <2>1. j # k /\ catOps'[j] = catOps[j]
    BY <1>4
  <2>2. catOps[j].held = catalogue[x] /\ ~Shared(j, x)
    BY <2>1 DEF OnlyCopy
  <2>3. x # d
    BY <1>3, <2>1, <2>2 DEF Shared
  <2> QED
    BY <1>1, <1>4, <2>1, <2>2, <2>3 DEF Shared
<1> QED
  BY <1>5, <1>8, <1>9, <1>10, <1>11

-----------------------------------------------------------------------------
(* The theorem *)

LEMMA NextCat == CatInv /\ [CatalogueNext]_catVars => CatInv'
<1> SUFFICES ASSUME CatInv, [CatalogueNext]_catVars PROVE CatInv'
  OBVIOUS
<1>1. ASSUME UNCHANGED catVars PROVE CatInv'
  <2>1. /\ catDb' = catDb /\ catalogue' = catalogue /\ catOps' = catOps /\ edits' = edits
        /\ written' = written /\ collided' = collided /\ reached' = reached
    BY <1>1 DEF catVars
  <2>2. CatalogueTypeOK' /\ Followed'
    BY <2>1 DEF CatInv, CatalogueTypeOK, Followed
  <2>3. ASSUME NEW x, AgentRef(x) PROVE AgentRef(x)'
    BY <2>1, <2>3 DEF AgentRef, Kept, KindOf
  <2>4. ASSUME NEW x, NEW y, Sound(x, y) PROVE Sound(x, y)'
    BY <2>1, <2>3, <2>4 DEF Sound
  <2>5. Copies'
    <3>1. ASSUME NEW j \in CatActor PROVE KindFits(j)'
      BY <2>1, <2>3, NextFits DEF CatInv, Copies
    <3>2. ASSUME NEW j \in CatActor, NEW x \in catOps[j].on PROVE Sound(x, catOps[j].held)'
      <4>1. PICK y : y = catOps[j].held
        OBVIOUS
      <4>2. Sound(x, y)'
        BY <2>4, <3>2, <4>1 DEF CatInv, Copies
      <4> QED
        BY <2>1, <4>1, <4>2 DEF Sound
    <3> QED
      BY <2>1, <3>1, <3>2 DEF CatInv, Copies, Kept, KindOf
  <2>6. StoredDocs'
    <3>1. ASSUME NEW x \in Kept PROVE Sound(x, catalogue[x])'
      <4>1. PICK y : y = catalogue[x]
        OBVIOUS
      <4>2. Sound(x, y)'
        BY <2>4, <3>1, <4>1 DEF CatInv, StoredDocs
      <4> QED
        BY <2>1, <4>1, <4>2 DEF Sound
    <3> QED
      BY <2>1, <3>1 DEF CatInv, StoredDocs, NameIsFree, Kept, KindOf
  <2>7. OnlyCopy'
    BY <2>1 DEF CatInv, OnlyCopy, Shared, ByFields
  <2> QED
    BY <2>2, <2>5, <2>6, <2>7 DEF CatInv
<1>2. CASE \E d \in CatDoc : CreateDoc(d)
  BY <1>2, NextCreation
<1>3. ASSUME NEW k \in CatActor, CutEdit(k) PROVE CatInv'
  BY <1>3, NextCut
<1>4. ASSUME NEW k \in CatActor, NEW d \in CatDoc,
             \/ LookUpAgent(k, d) \/ InsertWorkflow(k, d)
             \/ RemoveDoc(k, d)
             \/ \E pc \in EditPcs : LoadDoc(k, d, pc)
      PROVE  CatInv'
  BY <1>4, NextLookUp, NextCreation, NextRemoval, NextLoad
<1>5. ASSUME NEW k \in CatActor, NEW d \in CatDoc,
             \/ \E edit \in Edits :
                  SetFields(k, d, edit) \/ SaveServer(k, d, edit) \/ SaveWorkflow(k, d, edit)
             \/ \E other \in {1, 2} : SaveTools(k, d, other)
             \/ \E status \in {"connected", "error"} : TestServer(k, d, status)
             \/ \E x \in CatDoc : NameAgent(k, d, x)
             \/ \E s \in CatSkill : InstallSkill(k, d, s) \/ RemoveSkill(k, d, s)
      PROVE  CatInv'
  BY <1>5, NextFields, NextServer, NextRename, NextTools, NextTest, NextLookUp, NextSkill
<1> QED
  BY <1>1, <1>2, <1>3, <1>4, <1>5 DEF CatalogueNext

\* EditsAreKept holds for any number of documents, of requests and of edits, with
\* either database.
THEOREM EditsLast == CatalogueSpec => []EditsAreKept
<1>1. CatInv => EditsAreKept
  <2> SUFFICES ASSUME CatInv PROVE EditsAreKept
    OBVIOUS
  <2> USE DEF CatInv
  <2>1. \A d \in CatDoc \ collided : catalogue[d] = written[d]
    BY DEF Followed
  <2>2. ASSUME NEW d \in Kept
        PROVE  /\ catalogue[d].status = "connected" => catalogue[d].main \in reached[d]
               /\ NameIsFree(d, catalogue[d])
               /\ KindOf(d) = "workflow" =>
                    LET agent == catalogue[d].agent
                    IN IF agent \in Kept THEN KindOf(agent) = "agent" ELSE catalogue[agent] = GoneCatDoc
    BY DEF StoredDocs, Sound, AgentRef, KindOf, Kept
  <2> QED
    BY <2>1, <2>2 DEF EditsAreKept
<1> QED
  BY <1>1, InitCat, NextCat, PTL DEF CatalogueSpec

-----------------------------------------------------------------------------
(* Knowledge *)

\* What a document says of its source has been tried.
Tried(s, doc) ==
  /\ doc.status = "connected" => <<s, doc.config>> \in proved
  /\ doc.status = "error" => <<s, doc.config>> \in refuted

\* Also what a request has read, and may save again.
Earned ==
  /\ \A s \in Source : Tried(s, sources[s])
  /\ \A r \in KnActor : \A s \in requests[r].on, doc \in requests[r].doc : Tried(s, doc)

\* A source that anything knows of has been inserted.
KnownSources ==
  /\ \A s \in Source : sources[s].stored => s \in inserted
  /\ \A i \in Item : items[i].of \subseteq inserted
  /\ \A r \in KnActor : requests[r].on \subseteq inserted
  /\ erased \subseteq inserted

Inserting == {"create", "upload", "insert"}

\* A request that saves a source saves one that was stored; a new item has an id
\* of its own; a request that changes an item is on the item's source.
Ready(r) ==
  LET req == requests[r] IN
  /\ req.pc \in {"test", "update"} => (\E s \in Source : req.on = {s}) /\ \A doc \in req.doc : doc.stored
  /\ req.pc \in Inserting =>
       /\ req.on # {}
       /\ \A i \in req.now : i \in inserted /\ items[i].of = {}
       /\ \A q \in KnActor : q # r /\ requests[q].pc \in Inserting => requests[q].now \cap req.now = {}
  /\ req.pc = "set_item" => req.on # {} /\ \A i \in req.now : items[i].of = req.on
  /\ req.pc = "insert" => req.now \subseteq files \cup leaving
  /\ req.pc \in {"file", "item"} => req.now \subseteq leaving
  /\ req.cascade => req.pc \in Removing
  /\ req.pc \in {"list", "source"} => req.cascade

\* An item has a source, and its file until it is deleted.
StillKept ==
  /\ \A i \in Item : items[i].stored => items[i].of # {}
  /\ \A i \in Item : items[i].of # {} => i \in inserted
  /\ \A i \in Item \ leaving : items[i].file => i \in files

\* A deletion and a request that writes have not met on this source.
Apart(s) ==
  \A r, q \in KnActor :
    s \in requests[r].on /\ s \in requests[q].on /\ requests[r].pc \in Writing => ~requests[q].cascade

\* A source that is gone has no items, and nobody is about to write it or one.
Gone(s) ==
  /\ ~sources[s].stored =>
       ItemsOf(s) = {} /\ \A r \in KnActor : s \in requests[r].on => requests[r].pc \notin Writing
  /\ s \in erased => ~sources[s].stored

\* A deletion has the items that are left of its source.
Cleared(s, r) ==
  LET req == requests[r] IN
  req.cascade /\ s \in req.on =>
    /\ req.pc = "next" => ItemsOf(s) \subseteq req.left
    /\ req.pc \in {"file", "item"} => ItemsOf(s) \subseteq req.left \cup req.now
    /\ req.pc = "source" => ItemsOf(s) = {}

KnInv ==
  /\ KnowledgeTypeOK /\ Earned /\ KnownSources /\ StillKept
  /\ \A r \in KnActor : Ready(r)
  /\ \A s \in Source \ mixed : Apart(s) /\ Gone(s) /\ \A r \in KnActor : Cleared(s, r)

LEMMA RequestsAreTyped ==
  /\ Unsent \in Request /\ Over \in Request /\ Over.pc = "over"
  /\ Over.on = {} /\ Over.doc = {} /\ Over.now = {} /\ ~Over.cascade
  BY DEF Unsent, Over, Request

LEMMA InitKn == KnowledgeInit => KnInv
<1> SUFFICES ASSUME KnowledgeInit PROVE KnInv
  OBVIOUS
<1>1. NoSource \in SourceDoc /\ NoSource.status = "registered" /\ ~NoSource.stored
  BY SomethingToConnectTo DEF NoSource, SourceDoc
<1>2. \A s \in Source : sources[s] = NoSource
  BY DEF KnowledgeInit
<1>3. \A i \in Item : ~items[i].stored /\ items[i].of = {} /\ ~items[i].file
  BY DEF KnowledgeInit
<1>4. \A r \in KnActor : requests[r].pc = "idle" /\ requests[r].on = {} /\ ~requests[r].cascade
  BY DEF KnowledgeInit, Unsent
<1>5. KnowledgeTypeOK
  BY <1>1, RequestsAreTyped DEF KnowledgeInit, KnowledgeTypeOK, ItemDoc
<1>6. Earned
  BY <1>1, <1>2, <1>4 DEF Earned, Tried
<1>7. KnownSources /\ StillKept
  BY <1>1, <1>2, <1>3, <1>4 DEF KnowledgeInit, KnownSources, StillKept
<1>8. \A r \in KnActor : Ready(r)
  BY <1>4 DEF Ready, Inserting
<1>9. \A s \in Source : Apart(s) /\ Gone(s) /\ \A r \in KnActor : Cleared(s, r)
  BY <1>3, <1>4 DEF KnowledgeInit, Apart, Gone, Cleared, ItemsOf
<1> QED
  BY <1>5, <1>6, <1>7, <1>8, <1>9 DEF KnInv

\* A request that goes on, or is over, knows no more than before.
Continues(r) ==
  /\ requests' \in [KnActor -> Request]
  /\ \A q \in KnActor : q # r => requests'[q] = requests[q]
  /\ requests'[r].on \subseteq requests[r].on
  /\ requests'[r].doc \subseteq requests[r].doc
  /\ requests'[r].cascade => requests[r].cascade
  /\ requests'[r].pc \in Writing => requests[r].pc \in Writing

LEMMA NextContinues ==
  ASSUME KnowledgeTypeOK, NEW r \in KnActor, NEW rec \in Request, Proceed(r, rec),
         rec.on \subseteq requests[r].on, rec.doc \subseteq requests[r].doc,
         rec.cascade => requests[r].cascade, rec.pc \in Writing => requests[r].pc \in Writing
  PROVE  Continues(r) /\ requests'[r] = rec
  BY DEF KnowledgeTypeOK, Proceed, Continues

LEMMA NextOver ==
  ASSUME KnowledgeTypeOK, NEW r \in KnActor, Proceed(r, Over)
  PROVE  /\ Continues(r) /\ requests'[r].pc = "over" /\ requests'[r].on = {}
         /\ requests'[r].now = {} /\ ~requests'[r].cascade
  BY NextContinues, RequestsAreTyped DEF Writing

LEMMA NextEarned ==
  ASSUME Earned, NEW r \in KnActor, Continues(r), UNCHANGED <<sources, proved, refuted>>
  PROVE  Earned'
<1>1. \A s \in Source : Tried(s, sources[s])'
  BY DEF Earned, Tried
<1>2. ASSUME NEW q \in KnActor, NEW s \in requests'[q].on, NEW doc \in requests'[q].doc
      PROVE  Tried(s, doc)'
  <2>1. s \in requests[q].on /\ doc \in requests[q].doc
    BY <1>2 DEF Continues
  <2> QED
    BY <2>1 DEF Earned, Tried
<1> QED
  BY <1>1, <1>2 DEF Earned

LEMMA NextKnown ==
  ASSUME KnownSources, NEW r \in KnActor, Continues(r), UNCHANGED <<sources, inserted, erased>>,
         \A i \in Item : items'[i].of \subseteq items[i].of \cup requests[r].on
  PROVE  KnownSources'
  BY DEF KnownSources, Continues

LEMMA NextApart ==
  ASSUME KnInv, NEW r \in KnActor, Continues(r), UNCHANGED mixed, NEW s \in Source \ mixed
  PROVE  Apart(s)'
<1>1. \A p \in KnActor : /\ requests'[p].on \subseteq requests[p].on
                         /\ requests'[p].cascade => requests[p].cascade
                         /\ requests'[p].pc \in Writing => requests[p].pc \in Writing
  BY DEF Continues
<1>2. Apart(s)
  BY DEF KnInv
<1> QED
  BY <1>1, <1>2 DEF Apart

LEMMA NextGoneSource ==
  ASSUME KnInv, NEW r \in KnActor, Continues(r), UNCHANGED <<sources, erased, mixed>>,
         NEW s \in Source \ mixed, ItemsOf(s)' \subseteq ItemsOf(s) \/ sources[s].stored
  PROVE  Gone(s)'
<1>1. \A p \in KnActor : /\ requests'[p].on \subseteq requests[p].on
                         /\ requests'[p].pc \in Writing => requests[p].pc \in Writing
  BY DEF Continues
<1>2. Gone(s)
  BY DEF KnInv
<1> QED
  BY <1>1, <1>2 DEF Gone

LEMMA NextReady ==
  ASSUME KnInv, NEW r \in KnActor, Continues(r), Ready(r)', UNCHANGED inserted,
         \A i \in Item : items'[i].of = items[i].of,
         leaving \subseteq leaving', files \subseteq files' \cup leaving',
         requests'[r].pc \in Inserting =>
           requests[r].pc \in Inserting /\ requests'[r].now = requests[r].now
  PROVE  \A q \in KnActor : Ready(q)'
<1> SUFFICES ASSUME NEW q \in KnActor, q # r PROVE Ready(q)'
  OBVIOUS
<1>1. requests'[q] = requests[q] /\ requests[q].now \subseteq Item
  BY DEF Continues, KnInv, KnowledgeTypeOK, Request
<1>2. Ready(q)
  BY DEF KnInv
<1>3. \A p \in KnActor : requests'[p].pc \in Inserting =>
        requests[p].pc \in Inserting /\ requests'[p].now = requests[p].now
  BY DEF Continues
<1> QED
  BY <1>1, <1>2, <1>3 DEF Ready

LEMMA NextCleared ==
  ASSUME KnInv, NEW r \in KnActor, Continues(r), NEW s \in Source \ mixed,
         ItemsOf(s)' \subseteq ItemsOf(s), Cleared(s, r)'
  PROVE  \A q \in KnActor : Cleared(s, q)'
<1> SUFFICES ASSUME NEW q \in KnActor, q # r PROVE Cleared(s, q)'
  OBVIOUS
<1>1. requests'[q] = requests[q] /\ Cleared(s, q)
  BY DEF Continues, KnInv
<1> QED
  BY <1>1 DEF Cleared

\* A request that is over changes nothing.
LEMMA NextRequestCut ==
  ASSUME KnInv, NEW r \in KnActor, Proceed(r, Over),
         UNCHANGED <<docStore, sources, items, files, histories>>
  PROVE  KnInv'
<1>1. /\ Continues(r) /\ requests'[r].pc = "over" /\ requests'[r].on = {}
      /\ requests'[r].now = {} /\ ~requests'[r].cascade
  BY NextOver DEF KnInv
<1>2. KnowledgeTypeOK'
  BY <1>1 DEF KnInv, KnowledgeTypeOK, Continues, histories
<1>3. Ready(r)' /\ \A s \in Source : Cleared(s, r)'
  BY <1>1 DEF Ready, Cleared, Inserting
<1>4. Earned'
  BY <1>1, NextEarned DEF KnInv, histories
<1>5. KnownSources'
  BY <1>1, NextKnown DEF KnInv, histories
<1>6. StillKept'
  BY DEF KnInv, StillKept, histories
<1>7. \A q \in KnActor : Ready(q)'
  BY <1>1, <1>3, NextReady DEF histories, Inserting
<1>8. ASSUME NEW s \in Source \ mixed PROVE Apart(s)' /\ Gone(s)' /\ \A q \in KnActor : Cleared(s, q)'
  <2>1. ItemsOf(s)' = ItemsOf(s)
    BY DEF ItemsOf
  <2> QED
    BY <1>1, <1>3, <2>1, NextApart, NextGoneSource, NextCleared DEF histories
<1> QED
  BY <1>2, <1>4, <1>5, <1>6, <1>7, <1>8 DEF KnInv, histories

LEMMA NextCreateSource == ASSUME KnInv, CreateSource PROVE KnInv'
<1>1. PICK s \in Source \ inserted, c \in Config :
        sources' = [sources EXCEPT ![s] = Registered(c)] /\ inserted' = inserted \cup {s}
  BY DEF CreateSource
<1>2. UNCHANGED <<docStore, items, files, requests, proved, refuted, leaving, erased, mixed>>
  BY DEF CreateSource
<1>3. Registered(c) \in SourceDoc /\ Registered(c).status = "registered" /\ Registered(c).stored
  BY DEF Registered, NoSource, SourceDoc
<1>4. \A t \in Source : sources'[t] = IF t = s THEN Registered(c) ELSE sources[t]
  BY <1>1 DEF KnInv, KnowledgeTypeOK
<1>5. KnowledgeTypeOK'
  BY <1>1, <1>2, <1>3 DEF KnInv, KnowledgeTypeOK
<1>6. Earned'
  BY <1>2, <1>3, <1>4 DEF KnInv, Earned, Tried
<1>7. KnownSources' /\ StillKept'
  BY <1>1, <1>2, <1>4 DEF KnInv, KnownSources, StillKept
<1>8. \A q \in KnActor : Ready(q)'
  BY <1>1, <1>2 DEF KnInv, Ready, Inserting
<1>9. ASSUME NEW t \in Source \ mixed PROVE Apart(t)' /\ Gone(t)' /\ \A q \in KnActor : Cleared(t, q)'
  <2>1. Apart(t)' /\ \A q \in KnActor : Cleared(t, q)'
    BY <1>2 DEF KnInv, Apart, Cleared, ItemsOf
  <2>2. Gone(t)'
    BY <1>1, <1>2, <1>3, <1>4 DEF KnInv, Gone, ItemsOf, KnownSources
  <2> QED
    BY <2>1, <2>2
<1> QED
  BY <1>2, <1>5, <1>6, <1>7, <1>8, <1>9 DEF KnInv

\* A request starts on a source that is known, ready for what it will do.
LEMMA NextOpen ==
  ASSUME KnInv, NEW r \in KnActor, NEW rec \in Request, Open(r, rec),
         UNCHANGED <<docStore, sources, items, files, proved, refuted, erased>>,
         inserted \subseteq inserted', inserted' \subseteq Source \cup Item,
         leaving \subseteq leaving', leaving' \subseteq Item,
         rec.on \subseteq inserted,
         \A s \in rec.on, doc \in rec.doc : Tried(s, doc),
         rec.pc \in Writing => \A s \in rec.on : sources[s].stored \/ s \in mixed,
         rec.cascade => rec.pc = "list",
         rec.pc \in Inserting => rec.now \cap inserted = {},
         rec.pc \in {"test", "update"} => (\E s \in Source : rec.on = {s}) /\ \A doc \in rec.doc : doc.stored,
         rec.pc \in Inserting => rec.on # {} /\ \A i \in rec.now : i \in inserted' /\ items[i].of = {},
         rec.pc = "set_item" => rec.on # {} /\ \A i \in rec.now : items[i].of = rec.on,
         rec.pc \notin {"insert", "file", "item", "source"}, rec.pc = "list" => rec.cascade
  PROVE  KnInv'
<1>1. /\ requests' \in [KnActor -> Request] /\ requests'[r] = rec
      /\ \A q \in KnActor : q # r => requests'[q] = requests[q]
  BY DEF Open, Proceed, KnInv, KnowledgeTypeOK
<1>2. mixed \subseteq mixed' /\ mixed' \subseteq Source
  BY DEF Open, KnInv, KnowledgeTypeOK, Request
<1>3. KnowledgeTypeOK'
  BY <1>1, <1>2 DEF KnInv, KnowledgeTypeOK
<1>4. Earned'
  <2>1. \A s \in Source : Tried(s, sources[s])'
    BY DEF KnInv, Earned, Tried
  <2>2. ASSUME NEW q \in KnActor, NEW s \in requests'[q].on, NEW doc \in requests'[q].doc
        PROVE  Tried(s, doc)'
    BY <1>1, <2>2 DEF KnInv, Earned, Tried
  <2> QED
    BY <2>1, <2>2 DEF Earned
<1>5. KnownSources' /\ StillKept'
  BY <1>1 DEF KnInv, KnownSources, StillKept
<1>6. ASSUME NEW q \in KnActor PROVE Ready(q)'
  <2>1. CASE q = r
    <3>1. rec.pc \in Inserting => \A p \in KnActor :
            p # r /\ requests'[p].pc \in Inserting => requests'[p].now \cap rec.now = {}
      BY <1>1 DEF KnInv, Ready
    <3>2. rec.cascade => rec.pc \in Removing
      BY DEF Removing
    <3>3. requests'[q] = rec
      BY <1>1, <2>1
    <3>4. /\ rec.pc \in Inserting => \A i \in rec.now : i \in inserted' /\ items'[i].of = {}
          /\ rec.pc = "set_item" => \A i \in rec.now : items'[i].of = rec.on
      OBVIOUS
    <3> QED
      BY <2>1, <3>1, <3>2, <3>3, <3>4 DEF Ready
  <2>2. CASE q # r
    <3>1. Ready(q) /\ requests'[q] = requests[q]
      BY <1>1, <2>2 DEF KnInv
    <3>2. requests[q].pc \in Inserting =>
            \A p \in KnActor : p # q /\ requests'[p].pc \in Inserting =>
              requests'[p].now \cap requests[q].now = {}
      BY <1>1, <3>1 DEF Ready
    <3> QED
      BY <3>1, <3>2 DEF Ready
  <2> QED
    BY <2>1, <2>2
<1>7. ASSUME NEW s \in Source \ mixed' PROVE Apart(s)' /\ Gone(s)' /\ \A q \in KnActor : Cleared(s, q)'
  <2>1. Apart(s) /\ Gone(s) /\ \A q \in KnActor : Cleared(s, q)
    BY <1>2 DEF KnInv
  <2>2. s \in rec.on => \A q \in KnActor : s \in requests[q].on =>
          /\ rec.pc \in Writing => ~requests[q].cascade
          /\ rec.cascade => requests[q].pc \notin Writing
    BY DEF Open
  <2>3. Apart(s)'
    BY <1>1, <2>1, <2>2 DEF Apart, Writing
  <2>4. Gone(s)'
    BY <1>1, <1>2, <2>1 DEF Gone, ItemsOf
  <2>5. ASSUME NEW q \in KnActor PROVE Cleared(s, q)'
    BY <1>1, <2>1 DEF Cleared, ItemsOf
  <2> QED
    BY <2>3, <2>4, <2>5
<1> QED
  BY <1>3, <1>4, <1>5, <1>6, <1>7 DEF KnInv

LEMMA NextRead ==
  ASSUME KnInv, NEW r \in KnActor,
         ReadSource(r) \/ ReadForItem(r) \/ ReadItem(r) \/ ReadToDelete(r)
  PROVE  KnInv'
<1>1. CASE ReadSource(r)
  <2>1. PICK s \in Source, pc \in {"test", "update"} :
          /\ sources[s].stored
          /\ Open(r, [Unsent EXCEPT !.pc = pc, !.on = {s}, !.doc = {sources[s]}])
    BY <1>1 DEF ReadSource
  <2> DEFINE rec == [Unsent EXCEPT !.pc = pc, !.on = {s}, !.doc = {sources[s]}]
  <2>2. /\ rec \in Request /\ rec.pc = pc /\ rec.on = {s} /\ rec.doc = {sources[s]}
        /\ rec.now = {} /\ ~rec.cascade
    <3>1. sources[s] \in SourceDoc
      BY DEF KnInv, KnowledgeTypeOK
    <3> QED
      BY <3>1 DEF Unsent, Request, Writing
  <2> HIDE DEF rec
  <2>3. s \in inserted /\ Tried(s, sources[s]) /\ pc \notin Inserting \cup {"set_item", "insert", "file", "item", "source", "list"}
    BY <2>1 DEF KnInv, KnownSources, Earned, Inserting
  <2>4. Open(r, rec)
    BY <2>1 DEF rec
  <2> QED
    BY <1>1, <2>1, <2>2, <2>3, <2>4, NextOpen DEF ReadSource, KnInv, KnowledgeTypeOK
<1>2. CASE ReadForItem(r)
  <2>1. PICK s \in Source, i \in Item \ inserted, pc \in {"create", "upload"} :
          /\ sources[s].stored
          /\ Open(r, [Unsent EXCEPT !.pc = pc, !.on = {s}, !.now = {i}])
          /\ inserted' = inserted \cup {i}
    BY <1>2 DEF ReadForItem
  <2> DEFINE rec == [Unsent EXCEPT !.pc = pc, !.on = {s}, !.now = {i}]
  <2>2. /\ rec \in Request /\ rec.pc = pc /\ rec.on = {s} /\ rec.doc = {}
        /\ rec.now = {i} /\ ~rec.cascade
    BY DEF Unsent, Request, Writing
  <2> HIDE DEF rec
  <2>3. /\ s \in inserted /\ items[i].of = {}
        /\ pc \notin {"test", "update", "set_item", "insert", "file", "item", "source", "list"}
    BY <2>1 DEF KnInv, KnownSources, StillKept
  <2>4. Open(r, rec)
    BY <2>1 DEF rec
  <2>5. UNCHANGED <<docStore, sources, items, files, proved, refuted, leaving, erased>>
    BY <1>2 DEF ReadForItem
  <2> QED
    BY <2>1, <2>2, <2>3, <2>4, <2>5, NextOpen DEF KnInv, KnowledgeTypeOK
<1>3. CASE ReadItem(r)
  <2>1. PICK i \in Item :
          /\ items[i].stored
          /\ \/ Open(r, [Unsent EXCEPT !.pc = "set_item", !.on = items[i].of, !.now = {i}])
                /\ UNCHANGED leaving
             \/ Open(r, [Unsent EXCEPT !.pc = "next", !.on = items[i].of, !.left = {i}])
                /\ leaving' = leaving \cup {i}
    BY <1>3 DEF ReadItem
  <2>2. items[i].of \subseteq Source /\ items[i].of \subseteq inserted /\ items[i].of # {}
    BY <2>1 DEF KnInv, KnowledgeTypeOK, ItemDoc, KnownSources, StillKept
  <2>3. \A s \in items[i].of : sources[s].stored \/ s \in mixed
    BY <2>1, <2>2 DEF KnInv, Gone, ItemsOf
  <2>4. UNCHANGED <<docStore, sources, items, files, proved, refuted, inserted, erased>>
    BY <1>3 DEF ReadItem
  <2>5. inserted \subseteq Source \cup Item /\ leaving \subseteq Item
    BY DEF KnInv, KnowledgeTypeOK
  <2>6. CASE Open(r, [Unsent EXCEPT !.pc = "set_item", !.on = items[i].of, !.now = {i}]) /\ UNCHANGED leaving
    <3> DEFINE rec == [Unsent EXCEPT !.pc = "set_item", !.on = items[i].of, !.now = {i}]
    <3>1. /\ rec \in Request /\ rec.pc = "set_item" /\ rec.on = items[i].of /\ rec.doc = {}
          /\ rec.now = {i} /\ ~rec.cascade
      BY <2>2 DEF Unsent, Request, Writing
    <3> HIDE DEF rec
    <3>2. Open(r, rec)
      BY <2>6 DEF rec
    <3> QED
      BY <2>2, <2>3, <2>4, <2>5, <2>6, <3>1, <3>2, NextOpen DEF Inserting
  <2>7. CASE /\ Open(r, [Unsent EXCEPT !.pc = "next", !.on = items[i].of, !.left = {i}])
             /\ leaving' = leaving \cup {i}
    <3> DEFINE rec == [Unsent EXCEPT !.pc = "next", !.on = items[i].of, !.left = {i}]
    <3>1. /\ rec \in Request /\ rec.pc = "next" /\ rec.on = items[i].of /\ rec.doc = {}
          /\ rec.now = {} /\ ~rec.cascade
      BY <2>2 DEF Unsent, Request, Removing
    <3> HIDE DEF rec
    <3>2. Open(r, rec)
      BY <2>7 DEF rec
    <3> QED
      BY <2>2, <2>3, <2>4, <2>5, <2>7, <3>1, <3>2, NextOpen DEF Inserting, Writing
  <2> QED
    BY <2>1, <2>6, <2>7
<1>4. CASE ReadToDelete(r)
  <2>1. PICK s \in Source :
          /\ sources[s].stored
          /\ Open(r, [Unsent EXCEPT !.pc = "list", !.on = {s}, !.cascade = TRUE])
    BY <1>4 DEF ReadToDelete
  <2> DEFINE rec == [Unsent EXCEPT !.pc = "list", !.on = {s}, !.cascade = TRUE]
  <2>2. /\ rec \in Request /\ rec.pc = "list" /\ rec.on = {s} /\ rec.doc = {} /\ rec.now = {}
        /\ rec.cascade
    BY DEF Unsent, Request, Removing
  <2> HIDE DEF rec
  <2>3. s \in inserted
    BY <2>1 DEF KnInv, KnownSources
  <2>4. Open(r, rec)
    BY <2>1 DEF rec
  <2>5. UNCHANGED <<docStore, sources, items, files, proved, refuted, inserted, leaving, erased>>
    BY <1>4 DEF ReadToDelete
  <2> QED
    BY <2>2, <2>3, <2>4, <2>5, NextOpen DEF KnInv, KnowledgeTypeOK, Inserting, Writing
<1> QED
  BY <1>1, <1>2, <1>3, <1>4

\* A request that writes saves doc as its source, and is over.
LEMMA NextSaved ==
  ASSUME KnInv, NEW r \in KnActor, NEW doc \in SourceDoc, Saved(r, doc), Proceed(r, Over),
         UNCHANGED <<docStore, items, files, inserted, leaving, erased, mixed>>,
         proved \subseteq proved', refuted \subseteq refuted',
         proved' \subseteq Source \X Config, refuted' \subseteq Source \X Config,
         requests[r].pc \in Writing,
         \A s \in requests[r].on : Tried(s, doc)' /\ (sources[s].stored => doc.stored)
  PROVE  KnInv'
<1>1. /\ Continues(r) /\ requests'[r].pc = "over" /\ requests'[r].on = {}
      /\ requests'[r].now = {} /\ ~requests'[r].cascade
  BY NextOver DEF KnInv
<1>2. \A s \in Source : sources'[s] = IF s \in requests[r].on THEN doc ELSE sources[s]
  BY DEF Saved
<1>3. KnowledgeTypeOK'
  BY <1>1, <1>2 DEF KnInv, KnowledgeTypeOK, Continues, Saved
<1>4. Earned'
  <2>1. \A s \in Source : Tried(s, sources[s])'
    BY <1>2 DEF KnInv, Earned, Tried
  <2>2. ASSUME NEW q \in KnActor, NEW s \in requests'[q].on, NEW d \in requests'[q].doc
        PROVE  Tried(s, d)'
    <3>1. s \in requests[q].on /\ d \in requests[q].doc
      BY <1>1, <2>2 DEF Continues
    <3> QED
      BY <3>1 DEF KnInv, Earned, Tried
  <2> QED
    BY <2>1, <2>2 DEF Earned
<1>5. KnownSources'
  BY <1>1, <1>2 DEF KnInv, KnownSources, Continues
<1>6. StillKept'
  BY DEF KnInv, StillKept
<1>7. Ready(r)' /\ \A s \in Source : Cleared(s, r)'
  BY <1>1 DEF Ready, Cleared, Inserting
<1>8. \A q \in KnActor : Ready(q)'
  BY <1>1, <1>7, NextReady DEF Inserting
<1>9. ASSUME NEW s \in Source \ mixed PROVE Apart(s)' /\ Gone(s)' /\ \A q \in KnActor : Cleared(s, q)'
  <2>1. ItemsOf(s)' = ItemsOf(s)
    BY DEF ItemsOf
  <2>2. Apart(s)' /\ \A q \in KnActor : Cleared(s, q)'
    BY <1>1, <1>7, <2>1, NextApart, NextCleared
  <2>3. Gone(s)
    BY DEF KnInv
  <2>4. s \in requests[r].on => sources[s].stored /\ sources'[s].stored
    BY <1>2, <2>3 DEF Gone
  <2>5. \A p \in KnActor : s \in requests'[p].on /\ requests'[p].pc \in Writing =>
                           s \in requests[p].on /\ requests[p].pc \in Writing
    BY <1>1 DEF Continues
  <2>6. Gone(s)'
    BY <1>2, <2>1, <2>3, <2>4, <2>5 DEF Gone
  <2> QED
    BY <2>2, <2>6
<1> QED
  BY <1>3, <1>4, <1>5, <1>6, <1>8, <1>9 DEF KnInv

LEMMA NextTested == ASSUME KnInv, NEW r \in KnActor, TestConnection(r) PROVE KnInv'
<1>1. requests[r].pc = "test" /\ requests[r].on \subseteq Source /\ requests[r].doc \subseteq SourceDoc
  BY DEF TestConnection, Waiting, KnInv, KnowledgeTypeOK, Request
<1>2. PICK doc \in requests[r].doc :
        LET tried == requests[r].on \X {doc.config}
        IN \/ Saved(r, [doc EXCEPT !.status = "connected"])
              /\ proved' = proved \cup tried /\ UNCHANGED refuted
           \/ Saved(r, [doc EXCEPT !.status = "error"])
              /\ refuted' = refuted \cup tried /\ UNCHANGED proved
  BY DEF TestConnection
<1>3. doc \in SourceDoc /\ doc.stored
  BY <1>1 DEF KnInv, Ready
<1> DEFINE with(status) == [doc EXCEPT !.status = status]
<1>4. \A status \in {"connected", "error"} :
        /\ with(status) \in SourceDoc /\ with(status).status = status
        /\ with(status).config = doc.config /\ with(status).stored
  BY <1>3 DEF SourceDoc
<1>5. /\ proved \subseteq Source \X Config /\ refuted \subseteq Source \X Config
      /\ requests[r].on \X {doc.config} \subseteq Source \X Config
  BY <1>1, <1>3 DEF KnInv, KnowledgeTypeOK, SourceDoc
<1>6. Proceed(r, Over) /\ UNCHANGED <<docStore, items, files, inserted, leaving, erased, mixed>>
  BY DEF TestConnection
<1>7. \A s \in requests[r].on : <<s, doc.config>> \in requests[r].on \X {doc.config}
  OBVIOUS
<1>8. CASE Saved(r, with("connected")) /\ proved' = proved \cup (requests[r].on \X {doc.config})
           /\ UNCHANGED refuted
  <2> HIDE DEF with
  <2>1. \A s \in requests[r].on : Tried(s, with("connected"))'
    BY <1>4, <1>7, <1>8 DEF Tried
  <2> QED
    BY <1>1, <1>4, <1>5, <1>6, <1>8, <2>1, NextSaved DEF Writing
<1>9. CASE Saved(r, with("error")) /\ refuted' = refuted \cup (requests[r].on \X {doc.config})
           /\ UNCHANGED proved
  <2> HIDE DEF with
  <2>1. \A s \in requests[r].on : Tried(s, with("error"))'
    BY <1>4, <1>7, <1>9 DEF Tried
  <2> QED
    BY <1>1, <1>4, <1>5, <1>6, <1>9, <2>1, NextSaved DEF Writing
<1> QED
  BY <1>2, <1>8, <1>9

LEMMA NextUpdate == ASSUME KnInv, NEW r \in KnActor, UpdateSource(r) PROVE KnInv'
<1>1. /\ requests[r].pc = "update" /\ requests[r].doc \subseteq SourceDoc
      /\ (\E s \in Source : requests[r].on = {s}) /\ \A doc \in requests[r].doc : doc.stored
  BY DEF UpdateSource, Waiting, KnInv, KnowledgeTypeOK, Request, Ready
<1>2. PICK doc \in requests[r].doc, with \in {{}} \cup {{c} : c \in Config} : Set(r, doc, with)
  BY DEF UpdateSource
<1>3. Proceed(r, Over) /\ UNCHANGED <<docStore, items, files, histories>>
  BY DEF UpdateSource
<1>4. PICK s \in requests[r].on :
        LET base == IF docStore = "postgres" THEN doc ELSE sources[s]
            new == IF with = {} THEN base
                   ELSE [base EXCEPT !.config = CHOOSE c \in with : TRUE, !.status = "registered"]
        IN Saved(r, IF docStore = "postgres" \/ base.stored THEN new ELSE base)
  BY <1>2 DEF Set
<1>5. requests[r].on = {s} /\ s \in Source
  BY <1>1, <1>4
<1> DEFINE base == IF docStore = "postgres" THEN doc ELSE sources[s]
           c == CHOOSE c \in with : TRUE
           changed == [base EXCEPT !.config = c, !.status = "registered"]
<1>6. base \in SourceDoc /\ Tried(s, base) /\ (sources[s].stored => base.stored)
  BY <1>1, <1>2, <1>5 DEF KnInv, KnowledgeTypeOK, Earned
<1>7. with # {} => c \in Config
  BY <1>2
<1> HIDE DEF base, c
<1>8. with # {} =>
        changed \in SourceDoc /\ changed.status = "registered" /\ changed.stored = base.stored
  BY <1>6, <1>7 DEF SourceDoc
<1>9. PICK new \in {base, changed} : Saved(r, new) /\ (new = changed /\ new # base => with # {})
  BY <1>4 DEF base, c
<1> HIDE DEF changed
<1>10. new \in SourceDoc /\ Tried(s, new)' /\ (sources[s].stored => new.stored)
  BY <1>3, <1>6, <1>8, <1>9 DEF Tried, histories
<1> QED
  BY <1>1, <1>3, <1>5, <1>9, <1>10, NextSaved DEF histories, Writing, KnInv, KnowledgeTypeOK

LEMMA NextDeleteSource == ASSUME KnInv, NEW r \in KnActor, DeleteSource(r) PROVE KnInv'
<1>1. /\ requests[r].pc = "source" /\ Saved(r, NoSource) /\ Proceed(r, Over)
      /\ erased' = erased \cup requests[r].on
      /\ UNCHANGED <<docStore, items, files, proved, refuted, inserted, leaving, mixed>>
  BY DEF DeleteSource, Waiting
<1>2. /\ Continues(r) /\ requests'[r].pc = "over" /\ requests'[r].on = {}
      /\ requests'[r].now = {} /\ ~requests'[r].cascade
  BY <1>1, NextOver DEF KnInv
<1>3. NoSource \in SourceDoc /\ NoSource.status = "registered" /\ ~NoSource.stored
  BY SomethingToConnectTo DEF NoSource, SourceDoc
<1>4. \A s \in Source : sources'[s] = IF s \in requests[r].on THEN NoSource ELSE sources[s]
  BY <1>1 DEF Saved
<1>5. KnowledgeTypeOK'
  BY <1>1, <1>2, <1>3, <1>4 DEF KnInv, KnowledgeTypeOK, Continues, Saved, Request
<1>6. Earned'
  <2>1. \A s \in Source : Tried(s, sources[s])'
    BY <1>1, <1>3, <1>4 DEF KnInv, Earned, Tried
  <2>2. ASSUME NEW q \in KnActor, NEW s \in requests'[q].on, NEW d \in requests'[q].doc
        PROVE  Tried(s, d)'
    <3>1. s \in requests[q].on /\ d \in requests[q].doc
      BY <1>2, <2>2 DEF Continues
    <3> QED
      BY <1>1, <3>1 DEF KnInv, Earned, Tried
  <2> QED
    BY <2>1, <2>2 DEF Earned
<1>7. KnownSources' /\ StillKept'
  BY <1>1, <1>2, <1>3, <1>4 DEF KnInv, KnownSources, StillKept, Continues
<1>8. Ready(r)' /\ \A s \in Source : Cleared(s, r)'
  BY <1>2 DEF Ready, Cleared, Inserting
<1>9. \A q \in KnActor : Ready(q)'
  BY <1>1, <1>2, <1>8, NextReady DEF Inserting
<1>10. ASSUME NEW s \in Source \ mixed PROVE Apart(s)' /\ Gone(s)' /\ \A q \in KnActor : Cleared(s, q)'
  <2>1. ItemsOf(s)' = ItemsOf(s)
    BY <1>1 DEF ItemsOf
  <2>2. Apart(s)' /\ \A q \in KnActor : Cleared(s, q)'
    BY <1>1, <1>2, <1>8, <2>1, NextApart, NextCleared
  <2>3. Gone(s) /\ Apart(s) /\ Cleared(s, r) /\ requests[r].cascade
    BY <1>1 DEF KnInv, Ready
  <2>4. s \in requests[r].on => ItemsOf(s) = {} /\ \A p \in KnActor : s \in requests[p].on => requests[p].pc \notin Writing
    BY <1>1, <2>3 DEF Cleared, Apart
  <2>5. \A p \in KnActor : s \in requests'[p].on /\ requests'[p].pc \in Writing =>
                           s \in requests[p].on /\ requests[p].pc \in Writing
    BY <1>2 DEF Continues
  <2>6. Gone(s)'
    BY <1>1, <1>3, <1>4, <2>1, <2>3, <2>4, <2>5 DEF Gone
  <2> QED
    BY <2>2, <2>6
<1> QED
  BY <1>1, <1>5, <1>6, <1>7, <1>9, <1>10 DEF KnInv

\* A request goes on with items or files, which are those of its source.
LEMMA NextItems ==
  ASSUME KnInv, NEW r \in KnActor, Continues(r),
         UNCHANGED <<docStore, sources, proved, refuted, inserted, erased, mixed>>,
         items' \in [Item -> ItemDoc], files' \subseteq Item, leaving' \subseteq Item,
         \A i \in Item : items'[i].of \subseteq items[i].of \cup requests[r].on,
         StillKept', \A q \in KnActor : Ready(q)',
         \A s \in Source \ mixed :
           \/ ItemsOf(s)' \subseteq ItemsOf(s) /\ Cleared(s, r)'
           \/ s \in requests[r].on /\ requests[r].pc \in Writing
  PROVE  KnInv'
<1>1. KnowledgeTypeOK'
  BY DEF KnInv, KnowledgeTypeOK, Continues
<1>2. Earned' /\ KnownSources'
  BY NextEarned, NextKnown DEF KnInv
<1>3. ASSUME NEW s \in Source \ mixed PROVE Apart(s)' /\ Gone(s)' /\ \A q \in KnActor : Cleared(s, q)'
  <2>1. Apart(s) /\ Gone(s)
    BY DEF KnInv
  <2>2. Apart(s)'
    BY NextApart
  <2>3. CASE ItemsOf(s)' \subseteq ItemsOf(s) /\ Cleared(s, r)'
    BY <2>2, <2>3, NextGoneSource, NextCleared
  <2>4. CASE s \in requests[r].on /\ requests[r].pc \in Writing
    <3>1. Gone(s)'
      BY <2>1, <2>4, NextGoneSource DEF Gone
    <3>2. \A q \in KnActor : s \in requests'[q].on => ~requests'[q].cascade
      BY <2>1, <2>4 DEF Apart, Continues
    <3> QED
      BY <2>2, <3>1, <3>2 DEF Cleared
  <2> QED
    BY <2>3, <2>4
<1> QED
  BY <1>1, <1>2, <1>3 DEF KnInv

LEMMA NextWriteFile == ASSUME KnInv, NEW r \in KnActor, WriteFile(r) PROVE KnInv'
<1> DEFINE rec == [requests[r] EXCEPT !.pc = "insert"]
<1>1. requests[r] \in Request /\ requests[r].pc = "upload" /\ ~requests[r].cascade
  BY DEF WriteFile, Waiting, KnInv, KnowledgeTypeOK, Ready, Removing
<1>2. /\ rec \in Request /\ rec.pc = "insert" /\ rec.on = requests[r].on /\ rec.doc = requests[r].doc
      /\ rec.now = requests[r].now /\ ~rec.cascade
  BY <1>1 DEF Request, Writing
<1> HIDE DEF rec
<1>3. Proceed(r, rec)
  BY DEF WriteFile, rec
<1>4. Continues(r) /\ requests'[r] = rec
  BY <1>1, <1>2, <1>3, NextContinues DEF KnInv, Writing
<1>5. files' = files \cup requests[r].now /\ UNCHANGED <<docStore, sources, items, histories>>
  BY DEF WriteFile
<1>6. Ready(r)'
  <2>1. Ready(r)
    BY DEF KnInv
  <2>2. \A q \in KnActor : q # r => requests'[q] = requests[q]
    BY <1>4 DEF Continues
  <2> QED
    BY <1>1, <1>2, <1>4, <1>5, <2>1, <2>2 DEF Ready, Inserting, histories
<1>7. \A q \in KnActor : Ready(q)'
  BY <1>1, <1>2, <1>4, <1>5, <1>6, NextReady DEF Inserting, histories
<1>8. StillKept'
  BY <1>5 DEF KnInv, StillKept, histories
<1>9. \A s \in Source : ItemsOf(s)' = ItemsOf(s) /\ Cleared(s, r)'
  BY <1>2, <1>4, <1>5 DEF ItemsOf, Cleared
<1> QED
  BY <1>1, <1>4, <1>5, <1>7, <1>8, <1>9, NextItems DEF KnInv, KnowledgeTypeOK, Request, histories

LEMMA NextInsertItem == ASSUME KnInv, NEW r \in KnActor, InsertItem(r) PROVE KnInv'
<1>1. /\ requests[r] \in Request /\ requests[r].pc \in {"create", "insert"} /\ Ready(r)
      /\ Proceed(r, Over) /\ UNCHANGED <<docStore, sources, files, histories>>
  BY DEF InsertItem, KnInv, KnowledgeTypeOK
<1>2. /\ Continues(r) /\ requests'[r].pc = "over" /\ requests'[r].on = {}
      /\ requests'[r].now = {} /\ ~requests'[r].cascade
  BY <1>1, NextOver DEF KnInv
<1> DEFINE new == [stored |-> TRUE, of |-> requests[r].on, file |-> Waiting(r, "insert")]
<1>3. items' = [i \in Item |-> IF i \in requests[r].now THEN new ELSE items[i]]
  BY DEF InsertItem
<1>4. new \in ItemDoc /\ new.of = requests[r].on /\ (new.file => requests[r].pc = "insert")
  BY <1>1 DEF ItemDoc, Request, Waiting
<1> HIDE DEF new
<1>5. \A i \in Item : items'[i] = IF i \in requests[r].now THEN new ELSE items[i]
  BY <1>3
<1>6. items' \in [Item -> ItemDoc]
  BY <1>3, <1>4 DEF KnInv, KnowledgeTypeOK
<1>7. /\ requests[r].on # {} /\ \A i \in requests[r].now : i \in inserted /\ items[i].of = {}
      /\ \A q \in KnActor : q # r /\ requests[q].pc \in Inserting => requests[q].now \cap requests[r].now = {}
      /\ requests[r].pc = "insert" => requests[r].now \subseteq files \cup leaving
  BY <1>1 DEF Ready, Inserting
<1>8. StillKept'
  BY <1>1, <1>4, <1>5, <1>7 DEF KnInv, StillKept, histories
<1>9. ASSUME NEW q \in KnActor PROVE Ready(q)'
  <2>1. CASE q = r
    BY <1>2, <2>1 DEF Ready, Inserting
  <2>2. CASE q # r
    <3>1. requests'[q] = requests[q] /\ Ready(q) /\ requests[q].now \subseteq Item
      BY <1>2, <2>2 DEF Continues, KnInv, KnowledgeTypeOK, Request
    <3>2. \A p \in KnActor : requests'[p].pc \in Inserting =>
            requests[p].pc \in Inserting /\ requests'[p].now = requests[p].now
      BY <1>2 DEF Continues, Inserting
    <3>3. requests[q].pc \in Inserting => \A i \in requests[q].now : items'[i] = items[i]
      BY <1>5, <1>7, <2>2, <3>1
    <3>4. requests[q].pc = "set_item" => \A i \in requests[q].now : items'[i] = items[i]
      BY <1>5, <1>7, <3>1 DEF Ready
    <3> QED
      BY <1>1, <3>1, <3>2, <3>3, <3>4 DEF Ready, histories
  <2> QED
    BY <2>1, <2>2
<1>10. ASSUME NEW s \in Source \ mixed, s \notin requests[r].on
       PROVE  ItemsOf(s)' \subseteq ItemsOf(s) /\ Cleared(s, r)'
  BY <1>2, <1>4, <1>5, <1>10 DEF ItemsOf, Cleared
<1>11. \A i \in Item : items'[i].of \subseteq items[i].of \cup requests[r].on
  BY <1>4, <1>5
<1> QED
  BY <1>1, <1>2, <1>6, <1>8, <1>9, <1>10, <1>11, NextItems
     DEF KnInv, KnowledgeTypeOK, histories, Writing

LEMMA NextSetItem == ASSUME KnInv, NEW r \in KnActor, SetItem(r) PROVE KnInv'
<1>1. /\ requests[r] \in Request /\ requests[r].pc = "set_item" /\ Ready(r)
      /\ Proceed(r, Over) /\ UNCHANGED <<docStore, sources, files, histories>>
  BY DEF SetItem, Waiting, KnInv, KnowledgeTypeOK
<1>2. /\ Continues(r) /\ requests'[r].pc = "over" /\ requests'[r].on = {}
      /\ requests'[r].now = {} /\ ~requests'[r].cascade
  BY <1>1, NextOver DEF KnInv
<1> DEFINE new(i) == [items[i] EXCEPT !.stored = TRUE]
<1>3. items' = [i \in Item |-> IF i \in requests[r].now /\ docStore = "postgres" THEN new(i) ELSE items[i]]
  BY DEF SetItem
<1>4. \A i \in Item : items[i] \in ItemDoc /\ new(i) \in ItemDoc /\ new(i).of = items[i].of
                                           /\ new(i).file = items[i].file
  BY DEF ItemDoc, KnInv, KnowledgeTypeOK
<1> HIDE DEF new
<1>5. /\ items' \in [Item -> ItemDoc]
      /\ \A i \in Item : /\ items'[i].of = items[i].of /\ items'[i].file = items[i].file
                         /\ i \notin requests[r].now => items'[i] = items[i]
  BY <1>3, <1>4
<1>6. requests[r].on # {} /\ \A i \in requests[r].now : items[i].of = requests[r].on
  BY <1>1 DEF Ready
<1>7. StillKept'
  BY <1>1, <1>5, <1>6 DEF KnInv, StillKept, histories
<1>8. Ready(r)'
  BY <1>2 DEF Ready, Inserting
<1>9. \A q \in KnActor : Ready(q)'
  BY <1>1, <1>2, <1>5, <1>8, NextReady DEF Inserting, histories
<1>10. ASSUME NEW s \in Source \ mixed, s \notin requests[r].on
       PROVE  ItemsOf(s)' \subseteq ItemsOf(s) /\ Cleared(s, r)'
  BY <1>2, <1>5, <1>6, <1>10 DEF ItemsOf, Cleared
<1> QED
  BY <1>1, <1>2, <1>5, <1>7, <1>9, <1>10, NextItems DEF KnInv, KnowledgeTypeOK, histories, Writing

\* A step of a deletion, which keeps its source.
LEMMA NextDeletion ==
  ASSUME KnInv, NEW r \in KnActor, NEW rec \in Request, Proceed(r, rec), requests[r].pc \in Removing,
         rec.on = requests[r].on, rec.doc = requests[r].doc, rec.cascade = requests[r].cascade,
         rec.pc \in Removing, rec.pc \in {"list", "source"} => rec.cascade,
         rec.pc \in {"file", "item"} => rec.now \subseteq leaving',
         UNCHANGED <<docStore, sources, proved, refuted, inserted, erased, mixed>>,
         items' \in [Item -> ItemDoc], files' \subseteq Item, leaving' \subseteq Item,
         leaving \subseteq leaving', files \subseteq files' \cup leaving',
         \A i \in Item : /\ items'[i].of = items[i].of /\ items'[i].file = items[i].file
                         /\ items'[i].stored => items[i].stored,
         \A s \in Source \ mixed : Cleared(s, r)'
  PROVE  KnInv'
<1>1. Continues(r) /\ requests'[r] = rec
  BY NextContinues DEF KnInv, Writing, Removing
<1>2. Ready(r)'
  BY <1>1 DEF Ready, Removing, Inserting
<1>3. \A q \in KnActor : Ready(q)'
  BY <1>1, <1>2, NextReady DEF Removing, Inserting
<1>4. StillKept'
  BY DEF KnInv, StillKept
<1>5. \A s \in Source : ItemsOf(s)' \subseteq ItemsOf(s)
  BY DEF ItemsOf
<1> QED
  BY <1>1, <1>3, <1>4, <1>5, NextItems

LEMMA NextListItems == ASSUME KnInv, NEW r \in KnActor, ListItems(r) PROVE KnInv'
<1> DEFINE all == UNION {ItemsOf(s) : s \in requests[r].on}
           rec == [requests[r] EXCEPT !.pc = "next", !.left = all]
<1>1. requests[r] \in Request /\ requests[r].pc = "list"
  BY DEF ListItems, Waiting, KnInv, KnowledgeTypeOK
<1>2. all \subseteq Item /\ \A s \in requests[r].on : ItemsOf(s) \subseteq all
  BY DEF ItemsOf
<1> HIDE DEF all
<1>3. /\ rec \in Request /\ rec.pc = "next" /\ rec.on = requests[r].on /\ rec.doc = requests[r].doc
      /\ rec.cascade = requests[r].cascade /\ rec.left = all
  BY <1>1, <1>2 DEF Request, Removing
<1> HIDE DEF rec
<1>4. Proceed(r, rec) /\ UNCHANGED <<docStore, sources, items, files, histories>>
  BY DEF ListItems, rec, all
<1>5. requests'[r] = rec
  BY <1>4 DEF Proceed, KnInv, KnowledgeTypeOK
<1>6. \A s \in Source : Cleared(s, r)'
  BY <1>2, <1>3, <1>4, <1>5 DEF Cleared, ItemsOf
<1> QED
  BY <1>1, <1>3, <1>4, <1>6, NextDeletion DEF KnInv, KnowledgeTypeOK, histories, Removing

LEMMA NextNextItem == ASSUME KnInv, NEW r \in KnActor, NextItem(r) PROVE KnInv'
<1>1. /\ requests[r] \in Request /\ requests[r].pc = "next"
      /\ UNCHANGED <<docStore, sources, items, files, proved, refuted, inserted, erased, mixed>>
  BY DEF NextItem, Waiting, KnInv, KnowledgeTypeOK
<1>2. /\ items \in [Item -> ItemDoc] /\ files \subseteq Item /\ leaving \subseteq Item
      /\ requests[r].left \subseteq Item /\ requests \in [KnActor -> Request]
  BY <1>1 DEF KnInv, KnowledgeTypeOK, Request
<1>3. \A s \in Source \ mixed : Cleared(s, r) /\ ItemsOf(s)' = ItemsOf(s)
  BY <1>1 DEF KnInv, ItemsOf
<1>4. CASE requests[r].left = {} /\ requests[r].cascade
  <2> DEFINE rec == [requests[r] EXCEPT !.pc = "source"]
  <2>1. /\ rec \in Request /\ rec.pc = "source" /\ rec.on = requests[r].on
        /\ rec.doc = requests[r].doc /\ rec.cascade = requests[r].cascade
    BY <1>1 DEF Request, Removing
  <2> HIDE DEF rec
  <2>2. Proceed(r, rec) /\ UNCHANGED leaving
    BY <1>4 DEF NextItem, rec
  <2>3. requests'[r] = rec
    BY <1>2, <2>2 DEF Proceed
  <2>4. \A s \in Source \ mixed : Cleared(s, r)'
    BY <1>1, <1>3, <1>4, <2>1, <2>3 DEF Cleared
  <2> QED
    BY <1>1, <1>2, <1>4, <2>1, <2>2, <2>4, NextDeletion DEF Removing
<1>5. CASE requests[r].left = {} /\ ~requests[r].cascade
  <2>1. Proceed(r, Over) /\ UNCHANGED leaving
    BY <1>5 DEF NextItem
  <2> QED
    BY <1>1, <2>1, NextRequestCut DEF histories
<1>6. CASE requests[r].left # {}
  <2>1. PICK i \in requests[r].left :
          /\ Proceed(r, [requests[r] EXCEPT !.pc = IF items[i].file THEN "file" ELSE "item",
                                            !.now = {i}, !.left = @ \ {i}])
          /\ leaving' = leaving \cup {i}
    BY <1>6 DEF NextItem
  <2> DEFINE pc == IF items[i].file THEN "file" ELSE "item"
             rec == [requests[r] EXCEPT !.pc = pc, !.now = {i}, !.left = @ \ {i}]
  <2>2. pc \in {"file", "item"} /\ i \in Item
    BY <1>2
  <2>3. Proceed(r, rec)
    BY <2>1
  <2> HIDE DEF pc
  <2>4. /\ rec \in Request /\ rec.pc = pc /\ rec.on = requests[r].on
        /\ rec.doc = requests[r].doc /\ rec.cascade = requests[r].cascade
        /\ rec.now = {i} /\ rec.left = requests[r].left \ {i}
    BY <1>1, <2>2 DEF Request, Removing
  <2> HIDE DEF rec
  <2>5. requests'[r] = rec
    BY <1>2, <2>3 DEF Proceed
  <2>6. \A s \in Source \ mixed : Cleared(s, r)'
    BY <1>1, <1>3, <2>2, <2>4, <2>5 DEF Cleared
  <2> QED
    BY <1>1, <1>2, <2>1, <2>2, <2>3, <2>4, <2>6, NextDeletion DEF Removing
<1> QED
  BY <1>4, <1>5, <1>6

LEMMA NextDeleteFile == ASSUME KnInv, NEW r \in KnActor, DeleteFile(r) PROVE KnInv'
<1>1. /\ requests[r] \in Request /\ requests[r].pc = "file" /\ requests[r].now \subseteq leaving
      /\ files' \in {files, files \ requests[r].now}
      /\ UNCHANGED <<docStore, sources, items, histories>>
  BY DEF DeleteFile, Waiting, KnInv, KnowledgeTypeOK, Ready
<1> DEFINE rec == [requests[r] EXCEPT !.pc = "item"]
<1>2. /\ rec \in Request /\ rec.pc = "item" /\ rec.on = requests[r].on
      /\ rec.doc = requests[r].doc /\ rec.cascade = requests[r].cascade
      /\ rec.now = requests[r].now /\ rec.left = requests[r].left
  BY <1>1 DEF Request, Removing
<1> HIDE DEF rec
<1>3. Proceed(r, rec)
  BY DEF DeleteFile, rec
<1>4. requests'[r] = rec
  BY <1>3 DEF Proceed, KnInv, KnowledgeTypeOK
<1>5. \A s \in Source \ mixed : Cleared(s, r)'
  BY <1>1, <1>2, <1>4 DEF KnInv, Cleared, ItemsOf
<1> QED
  BY <1>1, <1>2, <1>3, <1>5, NextDeletion DEF KnInv, KnowledgeTypeOK, histories, Removing

LEMMA NextDeleteItem == ASSUME KnInv, NEW r \in KnActor, DeleteItem(r) PROVE KnInv'
<1>1. /\ requests[r] \in Request /\ requests[r].pc = "item"
      /\ UNCHANGED <<docStore, sources, files, histories>>
  BY DEF DeleteItem, Waiting, KnInv, KnowledgeTypeOK
<1> DEFINE rec == [requests[r] EXCEPT !.pc = "next", !.now = {}]
           emptied(i) == [items[i] EXCEPT !.stored = FALSE]
<1>2. /\ rec \in Request /\ rec.pc = "next" /\ rec.on = requests[r].on
      /\ rec.doc = requests[r].doc /\ rec.cascade = requests[r].cascade
      /\ rec.left = requests[r].left
  BY <1>1 DEF Request, Removing
<1> HIDE DEF rec
<1>3. Proceed(r, rec)
  BY DEF DeleteItem, rec
<1>4. requests'[r] = rec
  BY <1>3 DEF Proceed, KnInv, KnowledgeTypeOK
<1>5. items' = [i \in Item |-> IF i \in requests[r].now THEN emptied(i) ELSE items[i]]
  BY DEF DeleteItem
<1>6. \A i \in Item : items[i] \in ItemDoc /\ emptied(i) \in ItemDoc /\ emptied(i).of = items[i].of
                                           /\ emptied(i).file = items[i].file /\ ~emptied(i).stored
  BY DEF ItemDoc, KnInv, KnowledgeTypeOK
<1> HIDE DEF emptied
<1>7. /\ items' \in [Item -> ItemDoc]
      /\ \A i \in Item : /\ items'[i].of = items[i].of /\ items'[i].file = items[i].file
                         /\ items'[i].stored => items[i].stored /\ i \notin requests[r].now
  BY <1>5, <1>6
<1>8. \A s \in Source \ mixed : Cleared(s, r)'
  BY <1>1, <1>2, <1>4, <1>7 DEF KnInv, Cleared, ItemsOf
<1> QED
  BY <1>1, <1>2, <1>3, <1>7, <1>8, NextDeletion DEF KnInv, KnowledgeTypeOK, histories, Removing

LEMMA NextKn == KnInv /\ [KnowledgeNext]_knVars => KnInv'
<1> SUFFICES ASSUME KnInv, [KnowledgeNext]_knVars PROVE KnInv'
  OBVIOUS
<1>1. CASE UNCHANGED knVars
  BY <1>1 DEF knVars, KnInv, KnowledgeTypeOK, Earned, Tried, KnownSources, StillKept, Ready, Apart, Gone, Cleared,
              ItemsOf
<1>2. \A r \in KnActor : CutRequest(r) => KnInv'
  BY NextRequestCut DEF CutRequest
<1> QED
  BY <1>1, <1>2, NextCreateSource, NextRead, NextTested, NextUpdate, NextDeleteSource, NextWriteFile,
     NextInsertItem, NextSetItem, NextListItems, NextNextItem, NextDeleteFile, NextDeleteItem
     DEF KnowledgeNext

\* The status of a source is of the connection it has now, for any number of
\* requests that test and update it.
THEOREM StatusesAreEarned == KnowledgeSpec => []StatusIsEarned
<1>1. KnInv => StatusIsEarned
  BY DEF KnInv, Earned, Tried, StatusIsEarned
<1> QED
  BY <1>1, InitKn, NextKn, PTL DEF KnowledgeSpec

\* No upload or deletion that is cut leaves an item without its file or its
\* source, unless a request that writes overlapped the deletion of the source.
THEOREM NothingIsLeftBehind == KnowledgeSpec => []NothingDangles
<1>1. KnInv => NothingDangles
  BY DEF KnInv, StillKept, Gone, NothingDangles
<1> QED
  BY <1>1, InitKn, NextKn, PTL DEF KnowledgeSpec

-----------------------------------------------------------------------------
(* VectorStore *)

\* Who holds a lock is at the calls that it guards, and what they will do has not
\* been done.
ModelGuarded ==
  /\ \A c \in VecCoro : vecOps[c].pc = "model_load" <=> modelLock = c
  /\ modelLock # NoCoro => model = "none"
  /\ model = "none" /\ modelLock = NoCoro => loads = 0
  /\ loads <= 1
ClientGuarded ==
  /\ \A c \in VecCoro : vecOps[c].pc \in {"client_open", "boot"} <=> clientLock = c
  /\ opened = IF client THEN 1 ELSE 0
  /\ \A c \in VecCoro : 
       /\ vecOps[c].pc = "client_open" => ~client
       /\ vecOps[c].pc = "boot" => client
Guarded == ModelGuarded /\ ClientGuarded

\* The calls of a coroutine are those of its operation and of the backend, none
\* comes before there is a client, and a collection that was asked for exists.
OnItsWay ==
  \A c \in VecCoro :
    /\ ~(vecOps[c].pc \in Resting) => Size(c) \in Sizes
    /\ vecOps[c].pc \in {"table", "index", "register", "meta"} => backend = "pgvector" /\ client
    /\ vecOps[c].pc \in {"meta", "query"} => vecOps[c].op = "search"
    /\ vecOps[c].pc \in {"index", "register", "upsert"} => table # 0

\* An operation that nothing has overlapped is the only one, so that what it
\* found out is still so.
ByItself ==
  \A c \in Working : vecOps[c].alone =>
    /\ \A d \in Working : d = c
    /\ Is(c, "create") => table = 0

VecInv == VectorTypeOK /\ Guarded /\ OnItsWay /\ ByItself /\ BootstrapIsOnce

LEMMA InitVec == VectorInit => VecInv
<1> SUFFICES ASSUME VectorInit PROVE VecInv
  OBVIOUS
<1>1. \A c \in VecCoro : vecOps[c] = Unstarted
  BY DEF VectorInit
<1>2. VectorTypeOK
  <2>1. Unstarted \in VecOp
    BY DEF Unstarted, VecOp, VecPcs, Resting
  <2>2. restarts \in 0..MaxRestarts /\ loads \in Nat /\ opened \in Nat
    BY VecBounds DEF VectorInit
  <2>3. /\ {table, metaRow, metaCache} \subseteq Sizes \cup {0}
        /\ {client, stale} \subseteq BOOLEAN /\ metaTable \in BOOLEAN
    BY DEF VectorInit
  <2>4. /\ backend \in {"pgvector", "qdrant"} /\ model \in {"none", "loaded", "failed"}
        /\ {modelLock, clientLock} \subseteq VecCoro \cup {NoCoro} /\ points \subseteq Sizes
    BY DEF VectorInit
  <2> QED
    BY <2>1, <2>2, <2>3, <2>4 DEF VectorInit, VectorTypeOK
<1>3. Guarded
  <2>1. \A c \in VecCoro : vecOps[c].pc = "idle" /\ c # NoCoro
    BY <1>1, NobodyIsNoCoro DEF Unstarted
  <2> QED
    BY <2>1 DEF VectorInit, Guarded, ModelGuarded, ClientGuarded
<1>4. OnItsWay /\ ByItself
  BY <1>1 DEF OnItsWay, ByItself, Unstarted, Is, Working, Resting
<1> QED
  BY <1>2, <1>3, <1>4 DEF VectorInit, VecInv, BootstrapIsOnce

\* A coroutine goes on to pc, or stops there because a call has failed.
Goes(c, pc) ==
  /\ vecOps' \in [VecCoro -> VecOp]
  /\ \A d \in VecCoro : d # c => vecOps'[d] = vecOps[d]
  /\ vecOps'[c].pc = pc /\ vecOps'[c].alone = vecOps[c].alone
  /\ pc \notin Resting => vecOps'[c].op = vecOps[c].op /\ vecOps'[c].size = vecOps[c].size

LEMMA NextGoes ==
  ASSUME VectorTypeOK, NEW c \in VecCoro, NEW pc \in VecPcs, Go(c, pc) \/ Fault(c, pc)
  PROVE  Goes(c, pc) /\ (Fault(c, pc) => vecOps'[c].faulty)
<1> DEFINE r == Arrived(vecOps[c], pc)
           f == [r EXCEPT !.faulty = TRUE]
<1>1. vecOps \in [VecCoro -> VecOp] /\ vecOps[c] \in VecOp
  BY DEF VectorTypeOK
<1>2. /\ r \in VecOp /\ r.pc = pc /\ r.alone = vecOps[c].alone
      /\ pc \notin Resting => r.op = vecOps[c].op /\ r.size = vecOps[c].size
  BY <1>1 DEF Arrived, VecOp
<1> HIDE DEF r
<1>3. /\ f \in VecOp /\ f.pc = pc /\ f.alone = vecOps[c].alone /\ f.faulty
      /\ pc \notin Resting => f.op = vecOps[c].op /\ f.size = vecOps[c].size
  BY <1>2 DEF VecOp
<1> HIDE DEF f
<1>4. CASE Go(c, pc) /\ ~Fault(c, pc)
  <2>1. vecOps' = [vecOps EXCEPT ![c] = r]
    BY <1>4 DEF Go, r
  <2> QED
    BY <1>1, <1>2, <1>4, <2>1 DEF Goes
<1>5. CASE Fault(c, pc)
  <2>1. vecOps' = [vecOps EXCEPT ![c] = f]
    BY <1>5 DEF Fault, f, r
  <2> QED
    BY <1>1, <1>3, <2>1 DEF Goes
<1> QED
  BY <1>4, <1>5

\* The invariant after coroutine c has gone on, if it does not come to a lock.
LEMMA NextWay ==
  ASSUME VecInv, NEW c \in VecCoro, NEW pc \in VecPcs, Goes(c, pc),
         UNCHANGED <<backend, restarts>>, client => client', table # 0 => table' = table,
         table' \in Sizes \cup {0},
         {metaRow', metaCache'} \subseteq Sizes \cup {0}, points' \subseteq Sizes,
         metaTable' \in BOOLEAN,
         Guarded', BootstrapIsOnce',
         model' \in {"none", "loaded", "failed"},
         {modelLock', clientLock'} \subseteq VecCoro \cup {NoCoro},
         loads' \in Nat, opened' \in Nat, client' \in BOOLEAN, stale' \in BOOLEAN,
         vecOps[c].pc \notin Resting,
         pc \in {"table", "index", "register", "meta"} => backend = "pgvector" /\ client',
         pc \in {"meta", "query"} => vecOps[c].op = "search",
         pc \in {"index", "register", "upsert"} => table' # 0,
         pc = "create" => table' = 0
  PROVE  VecInv'
<1> USE DEF VecInv
<1>1. VectorTypeOK'
  BY DEF VectorTypeOK, Goes
<1>2. OnItsWay'
  <2> SUFFICES ASSUME NEW d \in VecCoro PROVE
    ( /\ ~(vecOps[d].pc \in Resting) => Size(d) \in Sizes
      /\ vecOps[d].pc \in {"table", "index", "register", "meta"} => backend = "pgvector" /\ client
      /\ vecOps[d].pc \in {"meta", "query"} => vecOps[d].op = "search"
      /\ vecOps[d].pc \in {"index", "register", "upsert"} => table # 0 )'
    BY DEF OnItsWay
  <2>1. CASE d = c
    BY <2>1 DEF OnItsWay, Goes, Is, Size, Resting
  <2>2. CASE d # c
    BY <2>2 DEF OnItsWay, Goes, Is, Size
  <2> QED
    BY <2>1, <2>2
<1>3. Working' \subseteq Working /\ c \in Working
  BY DEF Working, Goes
<1>4. ByItself'
  <2> SUFFICES ASSUME NEW d \in Working', vecOps'[d].alone
               PROVE  (\A e \in Working' : e = d) /\ (Is(d, "create")' => table' = 0)
    BY DEF ByItself
  <2>1. d \in Working /\ vecOps[d].alone /\ d = c
    BY <1>3 DEF Goes, ByItself, Working
  <2> QED
    BY <1>3, <2>1 DEF Goes, ByItself, Is
<1> QED
  BY <1>1, <1>2, <1>4

LEMMA NextVector == ASSUME VecInv, NEW c \in VecCoro, StartVector(c) PROVE VecInv'
<1> USE DEF VecInv
<1>1. PICK op \in {"store", "search"}, size \in Sizes, first \in {"embed", "client"} :
        vecOps' = [x \in VecCoro |->
          IF x = c THEN [pc |-> first, op |-> op, size |-> size, alone |-> Working = {},
                         faulty |-> FALSE]
          ELSE IF x \in Working THEN [vecOps[x] EXCEPT !.alone = FALSE] ELSE vecOps[x]]
  BY DEF StartVector
<1> DEFINE o(x) == [vecOps[x] EXCEPT !.alone = FALSE]
<1>2. \A x \in VecCoro : vecOps[x] \in VecOp
  BY DEF VectorTypeOK
<1>3. \A x \in VecCoro :
        /\ o(x) \in VecOp /\ o(x).pc = vecOps[x].pc /\ o(x).op = vecOps[x].op
        /\ o(x).size = vecOps[x].size /\ ~o(x).alone
  BY <1>2 DEF VecOp
<1>4. /\ vecOps'[c].pc = first /\ vecOps'[c].size = size /\ (Working # {} => ~vecOps'[c].alone)
      /\ vecOps'[c] \in VecOp
  BY <1>1 DEF VecOp, VecPcs
<1>5. \A x \in VecCoro \ {c} : vecOps'[x] = IF x \in Working THEN o(x) ELSE vecOps[x]
  BY <1>1
<1> HIDE DEF o
<1>6. \A x \in VecCoro \ {c} :
        /\ vecOps'[x].pc = vecOps[x].pc /\ vecOps'[x].op = vecOps[x].op
        /\ vecOps'[x].size = vecOps[x].size /\ vecOps'[x] \in VecOp
        /\ x \in Working => ~vecOps'[x].alone
  BY <1>2, <1>3, <1>5
<1>7. vecOps' \in [VecCoro -> VecOp]
  BY <1>1, <1>4, <1>6
<1>8. UNCHANGED <<fixed, embedder, adapter, database>> /\ vecOps[c].pc = "idle"
  BY DEF StartVector, Unstarted
<1>9. VectorTypeOK'
  BY <1>7, <1>8 DEF VectorTypeOK, fixed, embedder, adapter, database
<1>10. Guarded'
  BY <1>4, <1>6, <1>8 DEF Guarded, ModelGuarded, ClientGuarded, embedder, adapter
<1>11. OnItsWay'
  BY <1>4, <1>6, <1>8 DEF OnItsWay, Is, Size, fixed, embedder, adapter, database
<1>12. ByItself'
  <2>1. Working' = Working \cup {c} /\ c \notin Working
    BY <1>4, <1>6, <1>8 DEF Working, Resting
  <2>2. CASE Working = {}
    BY <1>4, <2>1, <2>2 DEF ByItself, Is
  <2>3. CASE Working # {}
    <3>1. \A d \in Working' : d = c \/ (d \in Working /\ d \in VecCoro \ {c})
      BY <2>1 DEF Working
    <3>2. \A d \in Working' : ~vecOps'[d].alone
      BY <1>4, <1>6, <2>3, <3>1
    <3> QED
      BY <3>2 DEF ByItself
  <2> QED
    BY <2>2, <2>3
<1>13. BootstrapIsOnce'
  BY <1>8 DEF BootstrapIsOnce, fixed, embedder, adapter, database
<1> QED
  BY <1>9, <1>10, <1>11, <1>12, <1>13

\* A coroutine that goes on, at neither of the locks.
LEMMA NextModelGuarded ==
  ASSUME ModelGuarded, NEW c \in VecCoro, NEW pc, Goes(c, pc), UNCHANGED embedder,
         vecOps[c].pc # "model_load", pc # "model_load"
  PROVE  ModelGuarded'
  BY DEF ModelGuarded, Goes, embedder

LEMMA NextClientGuarded ==
  ASSUME ClientGuarded, NEW c \in VecCoro, NEW pc, Goes(c, pc), UNCHANGED adapter,
         vecOps[c].pc \notin {"client_open", "boot"}, pc \notin {"client_open", "boot"}
  PROVE  ClientGuarded'
  BY DEF ClientGuarded, Goes, adapter

LEMMA NextEmbed == ASSUME VecInv, NEW c \in VecCoro, Embed(c) PROVE VecInv'
<1>1. PICK pc \in {"model_lock", "skipped", "client"} : Go(c, pc) \/ Fault(c, pc)
  BY DEF Embed
<1>2. Goes(c, pc)
  BY <1>1, NextGoes DEF VecInv, VecPcs, Resting
<1>3. Guarded'
  BY <1>2, NextModelGuarded, NextClientGuarded DEF Embed, Is, VecInv, Guarded
<1> QED
  BY <1>2, <1>3, NextWay
     DEF Embed, Is, VecInv, VectorTypeOK, BootstrapIsOnce, VecPcs, Resting, fixed, embedder,
         adapter, database

LEMMA NextModel == ASSUME VecInv, NEW c \in VecCoro, LockModel(c) \/ LoadModel(c) PROVE VecInv'
<1>1. PICK pc \in {"model_load", "embed", "skipped"} :
        /\ Go(c, pc) \/ Fault(c, pc)
        /\ \/ pc = "model_load" /\ model = "none" /\ modelLock = NoCoro
             /\ modelLock' = c /\ loads' = loads + 1 /\ model' = model /\ Is(c, "model_lock")
           \/ pc = "embed" /\ UNCHANGED embedder /\ Is(c, "model_lock")
           \/ pc # "model_load" /\ Is(c, "model_load") /\ model' \in {"loaded", "failed"}
             /\ modelLock' = NoCoro /\ loads' = loads
  BY DEF LockModel, LoadModel, embedder
<1>2. Goes(c, pc)
  BY <1>1, NextGoes DEF VecInv, VecPcs, Resting
<1>3. /\ \A d \in VecCoro : vecOps'[d].pc = IF d = c THEN pc ELSE vecOps[d].pc
      /\ NoCoro \notin VecCoro
  BY <1>2, NobodyIsNoCoro DEF Goes
<1>4. ModelGuarded' /\ loads' <= 1
  <2>1. ModelGuarded
    BY DEF VecInv, Guarded
  <2>2. CASE pc = "model_load" /\ model = "none" /\ modelLock = NoCoro
             /\ modelLock' = c /\ loads' = loads + 1 /\ model' = model /\ Is(c, "model_lock")
    <3>1. loads = 0 /\ loads' = 1
      BY <2>1, <2>2 DEF ModelGuarded
    <3> QED
      BY <1>3, <2>1, <2>2, <3>1 DEF ModelGuarded
  <2>3. CASE pc = "embed" /\ UNCHANGED embedder /\ Is(c, "model_lock")
    BY <1>2, <2>1, <2>3, NextModelGuarded DEF Is, ModelGuarded, embedder
  <2>4. CASE pc # "model_load" /\ Is(c, "model_load") /\ model' \in {"loaded", "failed"}
             /\ modelLock' = NoCoro /\ loads' = loads
    BY <1>3, <2>1, <2>4 DEF ModelGuarded, Is
  <2> QED
    BY <1>1, <2>2, <2>3, <2>4
<1>5. Guarded'
  <2>1. ClientGuarded /\ UNCHANGED adapter /\ vecOps[c].pc \in {"model_lock", "model_load"}
    BY DEF LockModel, LoadModel, Is, VecInv, Guarded
  <2> QED
    BY <1>1, <1>2, <1>4, <2>1, NextClientGuarded DEF Guarded
<1>6. loads' \in Nat /\ modelLock' \in VecCoro \cup {NoCoro} /\ model' \in {"none", "loaded", "failed"}
  BY <1>1 DEF VecInv, VectorTypeOK, embedder
<1>7. /\ UNCHANGED <<fixed, adapter, database>> /\ pc \in VecPcs
      /\ vecOps[c].pc \in {"model_lock", "model_load"}
  BY DEF LockModel, LoadModel, Is, VecPcs, Resting
<1> QED
  BY <1>1, <1>2, <1>4, <1>5, <1>6, <1>7, NextWay
     DEF VecInv, VectorTypeOK, BootstrapIsOnce, Resting, fixed, adapter, database

LEMMA NextClient ==
  ASSUME VecInv, NEW c \in VecCoro, EnsureClient(c) \/ LockClient(c) \/ OpenPool(c) \/ Bootstrap(c)
  PROVE  VecInv'
<1>1. FirstCall(c) \in {"query", "meta", "exists", "table"}
  BY DEF FirstCall
<1>2. PICK pc \in {FirstCall(c), "client_lock", "client_open", "boot", "failed"} :
        /\ Go(c, pc) \/ Fault(c, pc)
        /\ \/ pc = FirstCall(c) /\ client /\ UNCHANGED adapter
             /\ vecOps[c].pc \in {"client", "client_lock"}
           \/ pc = "client_lock" /\ Is(c, "client") /\ UNCHANGED adapter
           \/ pc = FirstCall(c) /\ Is(c, "client_lock") /\ clientLock = NoCoro
             /\ ~client /\ client' = TRUE /\ opened' = opened + 1 /\ UNCHANGED clientLock
           \/ pc = "client_open" /\ Is(c, "client_lock") /\ clientLock = NoCoro
             /\ ~client /\ clientLock' = c /\ UNCHANGED <<client, opened>>
           \/ pc = "boot" /\ Is(c, "client_open")
             /\ client' = TRUE /\ opened' = opened + 1 /\ UNCHANGED clientLock
           \/ pc = "failed" /\ vecOps[c].pc \in {"client_open", "boot"}
             /\ clientLock' = NoCoro /\ UNCHANGED <<client, opened>>
           \/ pc = FirstCall(c) /\ Is(c, "boot")
             /\ clientLock' = NoCoro /\ UNCHANGED <<client, opened>>
  BY DEF EnsureClient, LockClient, OpenPool, Bootstrap, adapter, Is
<1>3. Goes(c, pc)
  BY <1>1, <1>2, NextGoes DEF VecInv, VecPcs, Resting
<1>4. /\ \A d \in VecCoro : vecOps'[d].pc = IF d = c THEN pc ELSE vecOps[d].pc
      /\ NoCoro \notin VecCoro
  BY <1>3, NobodyIsNoCoro DEF Goes
<1>5. /\ UNCHANGED <<embedder, backend, restarts, table, metaRow, metaCache, points>>
      /\ vecOps[c].pc \in {"client", "client_lock", "client_open", "boot"}
      /\ metaTable' \in BOOLEAN /\ stale' \in BOOLEAN
  BY DEF EnsureClient, LockClient, OpenPool, Bootstrap, fixed, adapter, database, Is, VecInv, VectorTypeOK
<1>6. ClientGuarded' /\ (pc = FirstCall(c) => client')
  <2>1. ClientGuarded /\ (vecOps[c].pc = "boot" => client)
    BY DEF VecInv, Guarded, ClientGuarded
  <2>2. CASE UNCHANGED adapter /\ vecOps[c].pc \in {"client", "client_lock"}
             /\ pc \in {FirstCall(c), "client_lock"} /\ (pc = FirstCall(c) => client)
    <3>1. pc \notin {"client_open", "boot"}
      BY <1>1, <2>2
    <3> QED
      BY <1>3, <2>1, <2>2, <3>1, NextClientGuarded DEF adapter
  <2>3. CASE pc = FirstCall(c) /\ Is(c, "client_lock") /\ clientLock = NoCoro
             /\ ~client /\ client' = TRUE /\ opened' = opened + 1 /\ UNCHANGED clientLock
    BY <1>1, <1>4, <2>1, <2>3 DEF ClientGuarded, Is
  <2>4. CASE pc = "client_open" /\ Is(c, "client_lock") /\ clientLock = NoCoro
             /\ ~client /\ clientLock' = c /\ UNCHANGED <<client, opened>>
    BY <1>1, <1>4, <2>1, <2>4 DEF ClientGuarded, Is
  <2>5. CASE pc = "boot" /\ Is(c, "client_open")
             /\ client' = TRUE /\ opened' = opened + 1 /\ UNCHANGED clientLock
    <3>1. clientLock = c /\ ~client /\ opened = 0 /\ opened' = 1
      BY <2>1, <2>5 DEF ClientGuarded, Is
    <3> QED
      BY <1>1, <1>4, <2>1, <2>5, <3>1 DEF ClientGuarded, Is
  <2>6. CASE pc \in {"failed", FirstCall(c)} /\ vecOps[c].pc \in {"client_open", "boot"}
             /\ clientLock' = NoCoro /\ UNCHANGED <<client, opened>>
             /\ (pc # "failed" => Is(c, "boot"))
    <3>1. clientLock = c
      BY <2>1, <2>6 DEF ClientGuarded
    <3> QED
      BY <1>1, <1>4, <2>1, <2>6, <3>1 DEF ClientGuarded, Is
  <2> QED
    BY <1>1, <1>2, <2>2, <2>3, <2>4, <2>5, <2>6 DEF Is
<1>7. Guarded'
  BY <1>1, <1>2, <1>3, <1>5, <1>6, NextModelGuarded DEF VecInv, Guarded
<1>8. client' \in BOOLEAN /\ (client => client')
  <2>1. client' = client \/ client' = TRUE
    BY <1>2 DEF adapter
  <2>2. client \in BOOLEAN
    BY DEF VecInv, VectorTypeOK
  <2>3. CASE client' = client
    BY <2>2, <2>3
  <2>4. CASE client' = TRUE
    BY <2>4
  <2> QED
    BY <2>1, <2>3, <2>4
<1>9. opened' <= 1 /\ opened' \in Nat
  <2>1. CASE client'
    BY <1>6, <2>1 DEF ClientGuarded
  <2>2. CASE ~client'
    BY <1>6, <2>2 DEF ClientGuarded
  <2> QED
    BY <2>1, <2>2
<1>10. clientLock' \in VecCoro \cup {NoCoro}
  <2>1. clientLock' \in {clientLock, c, NoCoro}
    BY <1>2 DEF adapter
  <2> QED
    BY <2>1 DEF VecInv, VectorTypeOK
<1>11. /\ pc \in {"table", "meta"} => backend = "pgvector" /\ client'
       /\ pc \in {"meta", "query"} => vecOps[c].op = "search"
       /\ pc \in {"query", "meta", "exists", "table", "client_lock", "client_open", "boot", "failed"}
  <2>1. pc = FirstCall(c) \/ pc \in {"client_lock", "client_open", "boot", "failed"}
    OBVIOUS
  <2>2. backend \in {"pgvector", "qdrant"}
    BY DEF VecInv, VectorTypeOK
  <2> QED
    BY <1>1, <1>6, <2>1, <2>2 DEF FirstCall
<1>12. pc \in VecPcs
  BY <1>11 DEF VecPcs, Resting
<1>13. loads <= 1 /\ loads' = loads /\ model' = model /\ modelLock' = modelLock
  BY <1>5 DEF embedder, VecInv, BootstrapIsOnce
<1>14. Guarded'
  BY <1>3, <1>5, <1>6, <1>11, NextModelGuarded DEF VecInv, Guarded
<1>15. BootstrapIsOnce'
  BY <1>5, <1>9, <1>13 DEF VecInv, BootstrapIsOnce
<1> QED
  BY <1>3, <1>5, <1>8, <1>9, <1>10, <1>11, <1>12, <1>13, <1>14, <1>15, NextWay
     DEF VecInv, VectorTypeOK, Resting

\* The calls of the database.
Calls == {"table", "index", "register", "exists", "create", "upsert", "meta", "query"}

LEMMA NextCall ==
  ASSUME VecInv, NEW c \in VecCoro, NEW pc \in VecPcs, Goes(c, pc),
         UNCHANGED <<fixed, embedder, adapter, metaTable>>, vecOps[c].pc \in Calls,
         pc \in Calls \cup {"stored", "found", "failed"},
         table # 0 => table' = table, table' \in Sizes \cup {0},
         {metaRow', metaCache'} \subseteq Sizes \cup {0}, points' \subseteq Sizes,
         BootstrapIsOnce',
         pc \in {"index", "register", "meta", "table"} => backend = "pgvector" /\ client,
         pc \in {"meta", "query"} => vecOps[c].op = "search",
         pc \in {"index", "register", "upsert"} => table' # 0,
         pc = "create" => table' = 0
  PROVE  VecInv'
<1>1. Guarded'
  BY NextModelGuarded, NextClientGuarded DEF VecInv, Guarded, Calls
<1> QED
  BY <1>1, NextWay DEF VecInv, VectorTypeOK, Calls, Resting, fixed, embedder, adapter

LEMMA NextCalls ==
  ASSUME VecInv, NEW c \in VecCoro,
         \/ CreateTable(c) \/ CreateIndex(c) \/ Register(c) \/ CollectionExists(c)
         \/ CreateCollection(c) \/ Upsert(c) \/ LoadMeta(c) \/ Query(c) \/ CallFails(c)
         \/ StaleCall(c)
  PROVE  VecInv'
<1>1. \A pc \in VecPcs : Go(c, pc) \/ Fault(c, pc) => Goes(c, pc)
  BY NextGoes DEF VecInv
<1>2. Calls \cup {"stored", "found", "failed"} \subseteq VecPcs
  BY DEF Calls, VecPcs, Resting
<1>3. vecOps[c].pc \in Calls => Size(c) \in Sizes /\ Size(c) # 0
  <2>1. vecOps[c].pc \in Calls => Size(c) \in Sizes
    BY DEF VecInv, OnItsWay, Calls, Resting
  <2> QED
    BY <2>1, SizesArePositive
<1>4. /\ table \in Sizes \cup {0} /\ metaRow \in Sizes \cup {0} /\ metaCache \in Sizes \cup {0}
      /\ points \subseteq Sizes /\ 0 \notin Sizes
  BY SizesArePositive DEF VecInv, VectorTypeOK
<1>5. OnItsWay /\ BootstrapIsOnce
  BY DEF VecInv
<1>6. ASSUME CreateTable(c) PROVE VecInv'
  <2>1. Goes(c, "index") /\ vecOps[c].pc = "table"
    BY <1>1, <1>2, <1>6 DEF CreateTable, Is, Calls
  <2>2. table' # 0 /\ (table # 0 => table' = table) /\ table' \in Sizes \cup {0}
    BY <1>3, <1>4, <1>6, <2>1 DEF CreateTable, Calls
  <2>3. UNCHANGED <<fixed, embedder, adapter, metaTable, metaRow, metaCache, points>>
    BY <1>6 DEF CreateTable
  <2>4. backend = "pgvector" /\ client
    BY <1>5, <2>1 DEF OnItsWay
  <2>5. BootstrapIsOnce'
    BY <1>4, <1>5, <2>2, <2>3 DEF BootstrapIsOnce, embedder, adapter
  <2> QED
    BY <1>2, <1>4, <2>1, <2>2, <2>3, <2>4, <2>5, NextCall DEF Calls
<1>7. ASSUME CreateIndex(c) PROVE VecInv'
  <2>1. Goes(c, "register") /\ vecOps[c].pc = "index"
    BY <1>1, <1>2, <1>7 DEF CreateIndex, Is, Calls
  <2>2. UNCHANGED <<fixed, embedder, adapter, database>>
    BY <1>7 DEF CreateIndex
  <2>3. backend = "pgvector" /\ client /\ table # 0
    BY <1>5, <2>1 DEF OnItsWay
  <2>4. BootstrapIsOnce'
    BY <1>5, <2>2 DEF BootstrapIsOnce, embedder, adapter, database
  <2> QED
    BY <1>2, <1>4, <2>1, <2>2, <2>3, <2>4, NextCall DEF Calls, database
<1>8. ASSUME Register(c) PROVE VecInv'
  <2>1. vecOps[c].pc = "register" /\ UNCHANGED <<fixed, embedder, adapter, metaTable, table, points>>
    BY <1>8 DEF Register, Is
  <2>2. backend = "pgvector" /\ client /\ table # 0 /\ Size(c) \in Sizes /\ Size(c) # 0
    BY <1>3, <1>5, <2>1 DEF OnItsWay, Calls
  <2>3. CASE metaTable
    <3>1. metaRow' = Size(c) /\ metaCache' = Size(c) /\ Goes(c, "upsert")
      BY <1>1, <1>2, <1>8, <2>3 DEF Register, Calls
    <3>2. BootstrapIsOnce'
      BY <1>5, <2>1, <2>2, <3>1 DEF BootstrapIsOnce, embedder, adapter
    <3> QED
      BY <1>2, <1>4, <2>1, <2>2, <3>1, <3>2, NextCall DEF Calls
  <2>4. CASE ~metaTable
    <3>1. UNCHANGED <<metaRow, metaCache>> /\ Goes(c, "failed")
      BY <1>1, <1>2, <1>8, <2>4 DEF Register
    <3>2. BootstrapIsOnce'
      BY <1>5, <2>1, <2>2, <3>1 DEF BootstrapIsOnce, embedder, adapter
    <3> QED
      BY <1>2, <1>4, <2>1, <2>2, <3>1, <3>2, NextCall DEF Calls
  <2> QED
    BY <2>3, <2>4
<1>9. ASSUME CollectionExists(c) PROVE VecInv'
  <2>1. /\ vecOps[c].pc = "exists" /\ UNCHANGED <<fixed, embedder, adapter, database>>
        /\ Goes(c, IF table = 0 THEN "create" ELSE "upsert")
    BY <1>1, <1>2, <1>9 DEF CollectionExists, Is, Calls
  <2>2. BootstrapIsOnce'
    BY <1>5, <2>1 DEF BootstrapIsOnce, embedder, adapter, database
  <2>3. CASE table = 0
    BY <1>2, <1>4, <2>1, <2>2, <2>3, NextCall DEF Calls, database
  <2>4. CASE table # 0
    BY <1>2, <1>4, <2>1, <2>2, <2>4, NextCall DEF Calls, database
  <2> QED
    BY <2>3, <2>4
<1>10. ASSUME CreateCollection(c) PROVE VecInv'
  <2>1. /\ vecOps[c].pc = "create"
        /\ UNCHANGED <<fixed, embedder, adapter, metaTable, metaRow, metaCache, points>>
    BY <1>10 DEF CreateCollection, Is
  <2>2. Size(c) \in Sizes /\ Size(c) # 0
    BY <1>3, <2>1 DEF Calls
  <2>3. CASE table = 0
    <3>1. table' = Size(c) /\ Goes(c, "upsert")
      BY <1>1, <1>2, <1>10, <2>3 DEF CreateCollection, Calls
    <3>2. BootstrapIsOnce'
      BY <1>4, <1>5, <2>1, <2>2, <2>3, <3>1 DEF BootstrapIsOnce, embedder, adapter
    <3> QED
      BY <1>2, <1>4, <2>1, <2>2, <2>3, <3>1, <3>2, NextCall DEF Calls
  <2>4. CASE table # 0
    <3>1. UNCHANGED table /\ Goes(c, "failed")
      BY <1>1, <1>2, <1>10, <2>4 DEF CreateCollection
    <3>2. BootstrapIsOnce'
      BY <1>5, <2>1, <3>1 DEF BootstrapIsOnce, embedder, adapter
    <3> QED
      BY <1>2, <1>4, <2>1, <3>1, <3>2, NextCall DEF Calls
  <2> QED
    BY <2>3, <2>4
<1>11. ASSUME Upsert(c) PROVE VecInv'
  <2>1. /\ vecOps[c].pc = "upsert"
        /\ UNCHANGED <<fixed, embedder, adapter, metaTable, table, metaRow, metaCache>>
    BY <1>11 DEF Upsert, Is
  <2>2. Size(c) \in Sizes
    BY <1>3, <2>1 DEF Calls
  <2>3. PICK pc \in {"stored", "failed"} : Go(c, pc)
    BY <1>11 DEF Upsert
  <2>4. Goes(c, pc)
    BY <1>1, <1>2, <2>3
  <2>5. points' = points \/ (table = Size(c) /\ points' = points \cup {Size(c)})
    BY <1>11 DEF Upsert
  <2>6. BootstrapIsOnce' /\ points' \subseteq Sizes
    BY <1>4, <1>5, <2>1, <2>2, <2>5 DEF BootstrapIsOnce, embedder, adapter
  <2> QED
    BY <1>2, <1>4, <2>1, <2>4, <2>6, NextCall DEF Calls
<1>12. ASSUME LoadMeta(c) PROVE VecInv'
  <2>1. /\ vecOps[c].pc = "meta"
        /\ UNCHANGED <<fixed, embedder, adapter, metaTable, table, metaRow, points>>
    BY <1>12 DEF LoadMeta, Is
  <2>2. PICK pc \in {"query", "failed"} : Go(c, pc)
    BY <1>12 DEF LoadMeta
  <2>3. Goes(c, pc)
    BY <1>1, <1>2, <2>2 DEF Calls
  <2>4. metaCache' \in {metaCache, metaRow}
    BY <1>12 DEF LoadMeta
  <2>5. BootstrapIsOnce'
    BY <1>5, <2>1, <2>4 DEF BootstrapIsOnce, embedder, adapter
  <2>6. vecOps[c].op = "search"
    BY <1>5, <2>1 DEF OnItsWay
  <2> QED
    BY <1>2, <1>4, <2>1, <2>3, <2>4, <2>5, <2>6, NextCall DEF Calls
<1>13. ASSUME Query(c) \/ CallFails(c) \/ StaleCall(c) PROVE VecInv'
  <2>1. vecOps[c].pc \in Calls /\ UNCHANGED <<fixed, embedder, adapter, database>>
    BY <1>13 DEF Query, CallFails, StaleCall, Calling, Is, Calls
  <2>2. PICK pc \in {"found", "failed"} : Go(c, pc) \/ Fault(c, pc)
    BY <1>13 DEF Query, CallFails, StaleCall
  <2>3. Goes(c, pc)
    BY <1>1, <1>2, <2>2
  <2>4. BootstrapIsOnce'
    BY <1>5, <2>1 DEF BootstrapIsOnce, embedder, adapter, database
  <2> QED
    BY <1>2, <1>4, <2>1, <2>3, <2>4, NextCall DEF Calls, database
<1> QED
  BY <1>6, <1>7, <1>8, <1>9, <1>10, <1>11, <1>12, <1>13

LEMMA NextRestart == ASSUME VecInv, Restart PROVE VecInv'
<1> DEFINE r(c) == Arrived(vecOps[c], "failed")
           f(c) == [r(c) EXCEPT !.faulty = TRUE]
<1>1. \A c \in VecCoro : vecOps[c] \in VecOp
  BY DEF VecInv, VectorTypeOK
<1>2. \A c \in VecCoro : r(c) \in VecOp /\ r(c).pc = "failed"
  BY <1>1 DEF Arrived, VecOp, Resting, VecPcs
<1>3. vecOps' = [c \in VecCoro |-> IF c \in Working THEN f(c) ELSE vecOps[c]]
  BY DEF Restart
<1> HIDE DEF r
<1>4. \A c \in VecCoro : f(c) \in VecOp /\ f(c).pc = "failed"
  BY <1>2 DEF VecOp
<1> HIDE DEF f
<1>5. vecOps' \in [VecCoro -> VecOp]
  BY <1>1, <1>3, <1>4
<1>6. \A c \in VecCoro : vecOps'[c].pc \in Resting
  BY <1>3, <1>4 DEF Working, Resting
<1>7. Working' = {}
  BY <1>6 DEF Working
<1>8. /\ model' \in {"none", "loaded"} /\ client' = FALSE /\ stale' = FALSE
      /\ modelLock' = NoCoro /\ clientLock' = NoCoro
      /\ loads' = 0 /\ opened' = 0 /\ metaCache' = 0
      /\ UNCHANGED <<backend, metaTable, table, metaRow, points>>
  BY DEF Restart
<1>9. VectorTypeOK'
  <2>1. restarts' \in 0..MaxRestarts
    <3>1. restarts \in 0..MaxRestarts
      BY DEF VecInv, VectorTypeOK
    <3>2. restarts < MaxRestarts /\ restarts' = restarts + 1
      BY DEF Restart
    <3> QED
      BY <3>1, <3>2, VecBounds
  <2>2. /\ {table', metaRow', metaCache'} \subseteq Sizes \cup {0} /\ points' \subseteq Sizes
        /\ metaTable' \in BOOLEAN
    BY <1>8 DEF VecInv, VectorTypeOK
  <2>3. loads' \in Nat /\ opened' \in Nat
    BY <1>8
  <2> QED
    BY <1>5, <1>8, <2>1, <2>2, <2>3 DEF VecInv, VectorTypeOK
<1>10. Guarded'
  BY <1>6, <1>8, NobodyIsNoCoro DEF Guarded, ModelGuarded, ClientGuarded, Resting
<1>11. OnItsWay' /\ ByItself'
  BY <1>6, <1>7 DEF OnItsWay, ByItself, Is, Resting
<1>12. BootstrapIsOnce'
  BY <1>8 DEF VecInv, BootstrapIsOnce
<1> QED
  BY <1>9, <1>10, <1>11, <1>12 DEF VecInv

LEMMA NextNewLoop == ASSUME VecInv, NewLoop PROVE VecInv'
<1>1. stale' = TRUE /\ UNCHANGED <<fixed, embedder, client, clientLock, opened, database, vecOps>>
  BY DEF NewLoop
<1> QED
  BY <1>1 DEF VecInv, VectorTypeOK, Guarded, ModelGuarded, ClientGuarded, OnItsWay, ByItself,
              BootstrapIsOnce, Working, Is, Size, fixed, embedder, database

LEMMA NextVec == VecInv /\ [VectorNext]_vecVars => VecInv'
<1> SUFFICES ASSUME VecInv, [VectorNext]_vecVars PROVE VecInv'
  OBVIOUS
<1>1. CASE UNCHANGED vecVars
  BY <1>1 DEF vecVars, VecInv, VectorTypeOK, Guarded, ModelGuarded, ClientGuarded, OnItsWay,
              ByItself, BootstrapIsOnce, Working, Is, Size
<1> QED
  BY <1>1, NextVector, NextEmbed, NextModel, NextClient, NextCalls, NextNewLoop, NextRestart DEF VectorNext

\* A process opens one client and loads the model once, however many coroutines
\* come to them at once, and what the registry knows of has a table, for any
\* number of coroutines, calls and restarts.
THEOREM BootstrapHappensOnce == VectorSpec => []BootstrapIsOnce
<1>1. VecInv => BootstrapIsOnce
  BY DEF VecInv
<1> QED
  BY <1>1, InitVec, NextVec, PTL DEF VectorSpec

\* An operation alone fails only where a call has failed, or in one of the exceptions.
LEMMA AloneSteps ==
  ASSUME VecInv, [VectorNext]_vecVars, NEW c \in VecCoro,
         vecOps[c].pc # "failed", vecOps'[c].pc = "failed", vecOps'[c].alone, ~vecOps'[c].faulty
  PROVE  \/ table \notin {0, Size(c)}
         \/ stale
         \/ backend = "pgvector" /\ client /\ ~metaTable
         \/ backend = "qdrant" /\ vecOps[c].op = "search" /\ table = 0
         \/ backend = "pgvector" /\ vecOps[c].op = "search" /\ points # {}
<1>1. /\ OnItsWay /\ ByItself /\ backend \in {"pgvector", "qdrant"}
      /\ table \in Sizes \cup {0} /\ vecOps \in [VecCoro -> VecOp]
  BY DEF VecInv, VectorTypeOK
<1>2. ~NewLoop /\ ~Restart
  <2>0. ~NewLoop
    BY DEF NewLoop
  <2>1. SUFFICES ASSUME Restart PROVE FALSE
    BY <2>0
  <2>2. vecOps'[c] = IF c \in Working THEN [Arrived(vecOps[c], "failed") EXCEPT !.faulty = TRUE]
                     ELSE vecOps[c]
    BY <2>1 DEF Restart
  <2>3. Arrived(vecOps[c], "failed") \in VecOp
    BY <1>1 DEF Arrived, VecOp, VecPcs, Resting
  <2>4. [Arrived(vecOps[c], "failed") EXCEPT !.faulty = TRUE].faulty
    BY <2>3 DEF VecOp
  <2> QED
    BY <2>2, <2>4
<1>3. ASSUME NEW pc \in VecPcs, NEW d \in VecCoro, Go(d, pc)
      PROVE  d = c /\ pc = "failed" /\ vecOps[c].alone
  <2>1. Goes(d, pc)
    BY <1>3, NextGoes DEF VecInv
  <2> QED
    BY <2>1 DEF Goes
<1>4. ASSUME NEW pc \in VecPcs, NEW d \in VecCoro PROVE ~Fault(d, pc)
  <2>1. SUFFICES ASSUME Fault(d, pc) PROVE FALSE
    OBVIOUS
  <2>2. Goes(d, pc) /\ vecOps'[d].faulty
    BY <2>1, NextGoes DEF VecInv
  <2> QED
    BY <2>2 DEF Goes
<1>5. VecPcs = Resting \cup
         {"embed", "model_lock", "model_load", "client", "client_lock", "client_open", "boot"}
           \cup Calls
  BY DEF VecPcs, Calls
<1>6. \A d \in VecCoro : FirstCall(d) \in Calls
  BY DEF FirstCall, Calls
<1>7. ~(UNCHANGED vecVars)
  BY DEF vecVars
<1>8. ASSUME NEW d \in VecCoro PROVE ~StartVector(d)
  <2>1. SUFFICES ASSUME StartVector(d) PROVE FALSE
    OBVIOUS
  <2>2. PICK op \in {"store", "search"}, size \in Sizes, first \in {"embed", "client"} :
          vecOps' = [x \in VecCoro |->
            IF x = d THEN [pc |-> first, op |-> op, size |-> size, alone |-> Working = {},
                           faulty |-> FALSE]
            ELSE IF x \in Working THEN [vecOps[x] EXCEPT !.alone = FALSE] ELSE vecOps[x]]
    BY <2>1 DEF StartVector
  <2>3. CASE c = d
    BY <2>2, <2>3
  <2>4. CASE c # d
    <3>1. vecOps'[c] = IF c \in Working THEN [vecOps[c] EXCEPT !.alone = FALSE] ELSE vecOps[c]
      BY <2>2, <2>4
    <3>2. [vecOps[c] EXCEPT !.alone = FALSE].pc = vecOps[c].pc
      BY <1>1 DEF VecOp
    <3> QED
      BY <3>1, <3>2
  <2> QED
    BY <2>3, <2>4
<1>9. ASSUME NEW d \in VecCoro
      PROVE  ~(\/ Embed(d) \/ LockModel(d) \/ LoadModel(d)
               \/ EnsureClient(d) \/ LockClient(d) \/ OpenPool(d) \/ Bootstrap(d)
               \/ CreateTable(d) \/ CreateIndex(d) \/ CollectionExists(d) \/ CallFails(d))
  <2>1. \A pc \in VecPcs : ~Fault(d, pc) /\ (pc # "failed" => ~Go(d, pc))
    BY <1>3, <1>4
  <2>2. /\ {"model_lock", "skipped", "client", "model_load", "embed", "client_lock", "client_open",
             "boot", "failed", "index", "register", "create", "upsert"} \subseteq VecPcs
        /\ FirstCall(d) \in VecPcs /\ FirstCall(d) # "failed"
    BY <1>5, <1>6 DEF Calls, Resting
  <2>3. ~Embed(d) /\ ~LockModel(d) /\ ~LoadModel(d)
    BY <2>1, <2>2 DEF Embed, LockModel, LoadModel
  <2>4. ~EnsureClient(d) /\ ~LockClient(d) /\ ~OpenPool(d) /\ ~Bootstrap(d)
    BY <2>1, <2>2 DEF EnsureClient, LockClient, OpenPool, Bootstrap
  <2>5. ~CreateTable(d) /\ ~CreateIndex(d) /\ ~CollectionExists(d) /\ ~CallFails(d)
    BY <2>1, <2>2 DEF CreateTable, CreateIndex, CollectionExists, CallFails
  <2> QED
    BY <2>3, <2>4, <2>5
<1>10. PICK d \in VecCoro :
         \/ Register(d) \/ CreateCollection(d) \/ Upsert(d) \/ LoadMeta(d) \/ Query(d)
         \/ StaleCall(d)
  BY <1>2, <1>7, <1>8, <1>9 DEF VectorNext
<1>11. /\ \A pc \in {"upsert", "stored", "query", "found"} : ~Go(d, pc)
       /\ Go(d, "failed") => d = c /\ vecOps[c].alone
  BY <1>3, <1>5 DEF Calls, Resting
<1>12. d = c /\ vecOps[c].alone
  BY <1>10, <1>11 DEF Register, CreateCollection, Upsert, LoadMeta, Query, StaleCall
<1>13. CASE Register(c) \/ LoadMeta(c)
  BY <1>1, <1>11, <1>12, <1>13 DEF Register, LoadMeta, OnItsWay, Is
<1>14. CASE CreateCollection(c)
  <2>1. table # 0 /\ vecOps[c].pc = "create"
    BY <1>11, <1>12, <1>14 DEF CreateCollection, Is
  <2> QED
    BY <1>1, <1>12, <2>1 DEF ByItself, Working, Is, Resting
<1>15. CASE Upsert(c)
  <2>1. table # Size(c) /\ vecOps[c].pc = "upsert"
    BY <1>11, <1>12, <1>15 DEF Upsert, Is
  <2> QED
    BY <1>1, <2>1 DEF OnItsWay
<1>16. CASE Query(c)
  <2>1. /\ vecOps[c].pc = "query"
        /\ \/ backend = "qdrant" /\ table # Size(c)
           \/ backend = "pgvector" /\ (points # {} \/ table \notin {0, Size(c)})
    BY <1>11, <1>12, <1>16 DEF Query, Is
  <2> QED
    BY <1>1, <2>1 DEF OnItsWay, Is
<1>17. CASE StaleCall(c)
  BY <1>17 DEF StaleCall
<1> QED
  BY <1>10, <1>12, <1>13, <1>14, <1>15, <1>16, <1>17

\* An operation that nothing overlaps and whose calls succeed does not fail,
\* whatever failed halfway before it, with the four exceptions it names: for any
\* number of coroutines, dimensions, failures, tasks and restarts.
THEOREM AloneIsEnough == VectorSpec => AloneSucceeds
<1>1. VecInv /\ [VectorNext]_vecVars =>
        [\A c \in VecCoro :
           /\ vecOps[c].pc # "failed" /\ vecOps'[c].pc = "failed"
           /\ vecOps'[c].alone /\ ~vecOps'[c].faulty
           => \/ table \notin {0, Size(c)}
              \/ stale
              \/ backend = "pgvector" /\ client /\ ~metaTable
              \/ backend = "qdrant" /\ vecOps[c].op = "search" /\ table = 0
              \/ backend = "pgvector" /\ vecOps[c].op = "search" /\ points # {}]_vecVars
  BY AloneSteps
<1> QED
  BY <1>1, InitVec, NextVec, PTL DEF VectorSpec, AloneSucceeds

-----------------------------------------------------------------------------
(* Documents: the two databases *)

LEMMA ScalarsAre ==
  ASSUME NEW kind \in {"text", "number"}, NEW x, OfKind(x, kind)
  PROVE  /\ x.kind = kind /\ ~Absent(x) /\ x # SqlNull /\ x.v \in Int
         /\ kind = "number" => x.v \in Nat
         /\ \A y : OfKind(y, kind) => (x = y <=> x.v = y.v)
<1>1. x = [kind |-> kind, v |-> x.v, elems |-> {}]
  BY DEF OfKind, Scalar
<1>2. x.kind = kind
  BY <1>1
<1>3. SqlNull.kind = "null"
  BY DEF SqlNull, Scalar
<1>4. x.v \in Int /\ (kind = "number" => x.v \in Nat)
  BY DEF OfKind, Odd
<1>5. ASSUME NEW y, OfKind(y, kind) PROVE x = y <=> x.v = y.v
  BY <1>5 DEF OfKind
<1> QED
  BY <1>2, <1>3, <1>4, <1>5 DEF Absent

LEMMA NullIs == SqlNull.kind = "null" /\ Absent(SqlNull) /\ Missing.kind = "missing" /\ Absent(Missing)
BY DEF SqlNull, Missing, Scalar, Absent

\* One column of texts or numbers.
LEMMA PlainAgrees ==
  ASSUME NEW kind \in {"text", "number"}, NEW c, NEW v,
         v = SqlNull \/ OfKind(v, kind),
         \A x \in Arguments(c) : x = SqlNull \/ OfKind(x, kind),
         c.op \in KnownOps, c.path \notin ArrayPath, c.yes \in BOOLEAN,
         c.op = "$ne" => ~Absent(v),
         c.op # "is" => \A x \in Arguments(c) : ~Absent(x),
         c.op = "$exists" => v.kind # "null"
  PROVE  ColumnSql(c, v) # "error" /\ (ColumnSql(c, v) = "true" <=> MongoOne(c, v))
<1>1. v.kind \in {"null", kind} /\ (Absent(v) <=> v = SqlNull) /\ (Absent(v) <=> v.kind = "null")
  BY ScalarsAre, NullIs
<1>2. \A x \in Arguments(c) :
        /\ x.kind \in {"null", kind} /\ (Absent(x) <=> x.kind = "null")
        /\ ~Absent(x) /\ ~Absent(v) => (v = x <=> v.v = x.v)
  BY ScalarsAre, NullIs
<1>3. \A x \in Arguments(c) : MongoEq(v, x) <=> (Absent(v) /\ Absent(x)) \/ (~Absent(v) /\ ~Absent(x) /\ v.v = x.v)
  BY <1>1, <1>2 DEF MongoEq
<1>4. \A x \in Arguments(c) :
        /\ SqlEq(v, x) \in {"true", "false", "null"}
        /\ SqlEq(v, x) = "true" <=> ~Absent(v) /\ ~Absent(x) /\ v.v = x.v
        /\ SqlEq(v, x) = "false" <=> ~Absent(v) /\ ~Absent(x) /\ v.v # x.v
  BY DEF SqlEq, Truth
<1>5. CASE c.op = "is"
  <2>1. c.arg \in Arguments(c)
    BY <1>5 DEF Arguments
  <2>2. MongoOne(c, v) <=> MongoEq(v, c.arg)
    BY <1>5 DEF MongoOne, Ranges
  <2>3. ColumnSql(c, v) = IF c.arg.kind = "null" THEN Truth(Absent(v)) ELSE SqlEq(v, c.arg)
    BY <1>5 DEF ColumnSql, Ranges
  <2> QED
    BY <1>1, <1>2, <1>3, <1>4, <2>1, <2>2, <2>3 DEF Truth
<1>6. CASE c.op = "$in"
  <2>1. c.args = Arguments(c)
    BY <1>6 DEF Arguments
  <2>2. MongoOne(c, v) <=> \E x \in c.args : MongoEq(v, x)
    BY <1>6 DEF MongoOne, Ranges
  <2>3. ColumnSql(c, v) = SqlIn(v, c.args)
    BY <1>6 DEF ColumnSql, Ranges
  <2>4. \A x \in c.args : MongoEq(v, x) <=> SqlEq(v, x) = "true"
    BY <1>3, <1>4, <1>6, <2>1
  <2> QED
    BY <2>2, <2>3, <2>4 DEF SqlIn
<1>7. CASE c.op = "$exists"
  <2>1. ColumnSql(c, v) = Truth(c.yes <=> ~Absent(v))
    BY <1>7 DEF ColumnSql, Ranges
  <2>2. MongoOne(c, v) <=> (c.yes <=> v.kind # "missing")
    BY <1>7 DEF MongoOne, Ranges
  <2>3. ~Absent(v) /\ v.kind # "missing"
    BY <1>1, <1>7
  <2> QED
    BY <2>1, <2>2, <2>3 DEF Truth
<1>8. CASE c.op = "$ne"
  <2>1. c.arg \in Arguments(c)
    BY <1>8 DEF Arguments
  <2>2. ColumnSql(c, v) = SqlNot(SqlEq(v, c.arg))
    BY <1>8 DEF ColumnSql, Ranges
  <2>3. MongoOne(c, v) <=> ~MongoEq(v, c.arg)
    BY <1>8 DEF MongoOne, Ranges
  <2> QED
    BY <1>3, <1>4, <1>8, <2>1, <2>2, <2>3 DEF SqlNot
<1>9. CASE c.op \in Ranges
  <2>1. c.arg \in Arguments(c)
    BY <1>9 DEF Arguments, Ranges
  <2>2. ColumnSql(c, v) = SqlRange(c.op, v, c.arg)
    BY <1>9 DEF ColumnSql, Ranges
  <2>3. MongoOne(c, v) <=> v.kind = c.arg.kind /\ Compares(c.op, v.v, c.arg.v)
    BY <1>9 DEF MongoOne, Ranges
  <2>4. ~Absent(c.arg) /\ (v.kind = c.arg.kind <=> ~Absent(v))
    BY <1>1, <1>2, <1>9, <2>1 DEF Ranges
  <2> QED
    BY <2>2, <2>3, <2>4 DEF SqlRange, Truth
<1> QED
  BY <1>5, <1>6, <1>7, <1>8, <1>9 DEF KnownOps

\* One column that is an array of texts.
LEMMA ArrayAgrees ==
  ASSUME NEW c, NEW v, v.kind = "array",
         \A x \in Arguments(c) : x = SqlNull \/ OfKind(x, "text"),
         c.op \in {"is", "$in", "$exists"}, c.path \in ArrayPath, c.yes \in BOOLEAN,
         c.op # "is" => \A x \in Arguments(c) : ~Absent(x)
  PROVE  ColumnSql(c, v) # "error" /\ (ColumnSql(c, v) = "true" <=> MongoOne(c, v))
<1>1. ~Absent(v)
  BY DEF Absent
<1>2. \A x \in Arguments(c) : x.kind \in {"null", "text"} /\ (Absent(x) <=> x.kind = "null")
  BY ScalarsAre, NullIs
<1>3. \A x \in Arguments(c) : MongoEq(v, x) <=> x.kind = "text" /\ x.v \in v.elems
  BY <1>1, <1>2 DEF MongoEq
<1>4. CASE c.op = "is"
  <2>1. c.arg \in Arguments(c)
    BY <1>4 DEF Arguments
  <2>2. MongoOne(c, v) <=> MongoEq(v, c.arg)
    BY <1>4 DEF MongoOne, Ranges
  <2>3. ColumnSql(c, v) = IF c.arg.kind = "null" THEN Truth(Absent(v)) ELSE SqlAny(v, {c.arg})
    BY <1>4 DEF ColumnSql, Ranges
  <2>4. SqlAny(v, {c.arg}) = Truth(c.arg.v \in v.elems)
    BY <1>1 DEF SqlAny, Truth
  <2> QED
    BY <1>1, <1>2, <1>3, <2>1, <2>2, <2>3, <2>4 DEF Truth
<1>5. CASE c.op = "$in"
  <2>1. c.args = Arguments(c)
    BY <1>5 DEF Arguments
  <2>2. MongoOne(c, v) <=> \E x \in c.args : MongoEq(v, x)
    BY <1>5 DEF MongoOne, Ranges
  <2>3. ColumnSql(c, v) = SqlAny(v, c.args)
    BY <1>5 DEF ColumnSql, Ranges
  <2>4. \A x \in c.args : MongoEq(v, x) <=> x.v \in v.elems
    BY <1>2, <1>3, <1>5, <2>1
  <2> QED
    BY <1>1, <2>2, <2>3, <2>4 DEF SqlAny, Truth
<1>6. CASE c.op = "$exists"
  <2>1. ColumnSql(c, v) = Truth(c.yes <=> ~Absent(v))
    BY <1>6 DEF ColumnSql, Ranges
  <2>2. MongoOne(c, v) <=> (c.yes <=> v.kind # "missing")
    BY <1>6 DEF MongoOne, Ranges
  <2> QED
    BY <1>1, <2>1, <2>2 DEF Truth
<1> QED
  BY <1>4, <1>5, <1>6

\* One key of a JSONB column.
LEMMA DottedAgrees ==
  ASSUME NEW c, NEW v,
         \/ v \in {SqlNull, Missing} \/ OfKind(v, "text") \/ OfKind(v, "number")
         \/ Composed(v, v.elems),
         \A x \in Arguments(c) : x = SqlNull \/ OfKind(x, "text") \/ OfKind(x, "number"),
         c.op \in KnownOps, c.yes \in BOOLEAN,
         c.op = "$ne" => ~Absent(v),
         c.op # "is" => \A x \in Arguments(c) : ~Absent(x),
         c.op # "$exists" =>
           /\ v.kind \in {"missing", "text", "number"} \cup IF c.op = "$in" THEN {"array"} ELSE {}
           /\ \A x \in Arguments(c) :
                x.kind # "null" => x.kind = v.kind \/ v.kind \in {"missing", "array"}
           /\ c.op = "$in" => v.kind # "number" /\ \A x \in Arguments(c) : x.kind = "text"
           /\ c.op \in Ranges => \A x \in Arguments(c) : x.kind = "number"
  PROVE  DottedSql(c, v) # "error" /\ (DottedSql(c, v) = "true" <=> MongoOne(c, v))
<1>0. "text" \in {"text", "number"} /\ "number" \in {"text", "number"}
  OBVIOUS
<1>1. Composed(v, v.elems) => v.kind \in {"array", "object"}
  BY DEF Composed, ArrayOf, ObjectOf
<1>2. /\ v.kind \in {"text", "number"} => OfKind(v, v.kind) /\ ~Absent(v)
      /\ v.kind = "missing" => Absent(v) /\ v = Missing
      /\ v.kind \in {"array", "object"} => ~Absent(v)
  BY <1>0, <1>1, ScalarsAre, NullIs DEF Absent
<1>3. \A x \in Arguments(c) :
        /\ x.kind \in {"null", "text", "number"} /\ (Absent(x) <=> x.kind = "null")
        /\ x.kind # "null" => OfKind(x, x.kind) /\ ~Absent(x)
  BY <1>0, ScalarsAre, NullIs
<1>4. ASSUME NEW x \in Arguments(c), x.kind # "null", x.kind = v.kind
      PROVE  v = x <=> v.v = x.v
  BY <1>2, <1>3, <1>4, ScalarsAre
<1>5. ASSUME NEW x \in Arguments(c), x.kind # "null", x.kind = v.kind \/ v.kind = "missing"
      PROVE  /\ MongoEq(v, x) <=> v.kind # "missing" /\ v.v = x.v
             /\ SqlEq(AsText(v), StrOf(x)) = IF v.kind = "missing" THEN "null" ELSE Truth(v.v = x.v)
  <2>1. ~Absent(x) /\ x.kind \in {"text", "number"}
    BY <1>3, <1>5
  <2>2. MongoEq(v, x) <=> v.kind # "missing" /\ v.v = x.v
    BY <1>2, <1>4, <1>5, <2>1 DEF MongoEq
  <2>3. StrOf(x) = TextOf(x.v) /\ ~Absent(StrOf(x)) /\ StrOf(x).v = x.v
    BY <2>1 DEF StrOf, TextOf, Scalar, Absent
  <2>4. CASE v.kind = "missing"
    BY <1>2, <2>2, <2>4, NullIs DEF SqlEq, AsText
  <2>5. CASE v.kind # "missing"
    <3>1. ~Absent(v)
      BY <1>2, <1>5, <2>1, <2>5
    <3>2. ~Absent(AsText(v)) /\ AsText(v).v = v.v
      BY <3>1 DEF AsText, TextOf, Scalar, Absent
    <3> QED
      BY <2>2, <2>3, <2>5, <3>2 DEF SqlEq
  <2> QED
    BY <2>4, <2>5
<1>6. CASE c.op = "is"
  <2>1. c.arg \in Arguments(c)
    BY <1>6 DEF Arguments
  <2>2. MongoOne(c, v) <=> MongoEq(v, c.arg)
    BY <1>6 DEF MongoOne, Ranges
  <2>3. DottedSql(c, v) = IF c.arg.kind = "null" THEN Truth(v.kind = "missing")
                          ELSE SqlEq(AsText(v), StrOf(c.arg))
    BY <1>6 DEF DottedSql, Ranges
  <2>4. v.kind \in {"missing", "text", "number"}
    BY <1>6
  <2>5. CASE c.arg.kind = "null"
    <3>1. MongoEq(v, c.arg) <=> v.kind = "missing"
      BY <1>2, <1>3, <2>1, <2>4, <2>5 DEF MongoEq
    <3> QED
      BY <2>2, <2>3, <2>5, <3>1 DEF Truth
  <2>6. CASE c.arg.kind # "null"
    <3>1. c.arg.kind = v.kind \/ v.kind = "missing"
      BY <1>6, <2>1, <2>4, <2>6
    <3> QED
      BY <1>5, <2>1, <2>2, <2>3, <2>6, <3>1 DEF Truth
  <2> QED
    BY <2>5, <2>6
<1>7. CASE c.op = "$in"
  <2>1. c.args = Arguments(c)
    BY <1>7 DEF Arguments
  <2>2. MongoOne(c, v) <=> \E x \in c.args : MongoEq(v, x)
    BY <1>7 DEF MongoOne, Ranges
  <2>3. DottedSql(c, v) = IF c.args # {} /\ v.kind = "missing" THEN "null"
                          ELSE Truth(\E x \in c.args : HasText(v, x))
    BY <1>7 DEF DottedSql, Ranges
  <2>4. ASSUME NEW x \in c.args PROVE MongoEq(v, x) <=> HasText(v, x)
    <3>1. x \in Arguments(c) /\ x.kind = "text" /\ v.kind \in {"missing", "text", "array"}
      BY <1>7, <2>1
    <3>2. CASE v.kind = "array"
      BY <1>2, <3>1, <3>2 DEF MongoEq, HasText
    <3>3. CASE v.kind # "array"
      BY <1>2, <1>3, <1>5, <3>1, <3>3 DEF HasText
    <3> QED
      BY <3>2, <3>3
  <2>5. v.kind = "missing" => \A x \in c.args : ~HasText(v, x)
    BY DEF HasText
  <2> QED
    BY <2>2, <2>3, <2>4, <2>5 DEF Truth
<1>8. CASE c.op = "$exists"
  <2>1. DottedSql(c, v) = Truth(c.yes <=> v.kind # "missing")
    BY <1>8 DEF DottedSql, Ranges
  <2>2. MongoOne(c, v) <=> (c.yes <=> v.kind # "missing")
    BY <1>8 DEF MongoOne, Ranges
  <2> QED
    BY <2>1, <2>2 DEF Truth
<1>9. CASE c.op = "$ne"
  <2>1. c.arg \in Arguments(c)
    BY <1>9 DEF Arguments
  <2>2. DottedSql(c, v) = SqlNot(SqlEq(AsText(v), StrOf(c.arg)))
    BY <1>9 DEF DottedSql, Ranges
  <2>3. MongoOne(c, v) <=> ~MongoEq(v, c.arg)
    BY <1>9 DEF MongoOne, Ranges
  <2>4. v.kind \in {"text", "number"} /\ c.arg.kind # "null" /\ c.arg.kind = v.kind
    <3>1. v.kind # "missing" /\ ~Absent(c.arg)
      BY <1>2, <1>9, <2>1
    <3> QED
      BY <1>3, <1>9, <2>1, <3>1
  <2> QED
    BY <1>5, <2>1, <2>2, <2>3, <2>4 DEF SqlNot, Truth
<1>10. CASE c.op \in Ranges
  <2>1. c.arg \in Arguments(c) /\ c.op \notin {"is", "$in", "$ne", "$exists"}
    BY <1>10 DEF Arguments, Ranges
  <2>2. DottedSql(c, v) = IF ~Absent(v) /\ v.v < 0 THEN "error" ELSE SqlRange(c.op, AsText(v), c.arg)
    BY <1>10, <2>1 DEF DottedSql
  <2>3. MongoOne(c, v) <=> v.kind = c.arg.kind /\ Compares(c.op, v.v, c.arg.v)
    BY <1>10, <2>1 DEF MongoOne
  <2>4. c.arg.kind = "number" /\ ~Absent(c.arg) /\ v.kind \in {"missing", "number"}
    BY <1>3, <1>10, <2>1
  <2>5. CASE v.kind = "missing"
    BY <1>2, <2>2, <2>3, <2>4, <2>5, NullIs DEF SqlRange, AsText
  <2>6. CASE v.kind = "number"
    <3>1. v.v \in Nat /\ ~Absent(v)
      BY <1>0, <1>2, <2>6, ScalarsAre
    <3>2. ~Absent(AsText(v)) /\ AsText(v).v = v.v
      BY <3>1 DEF AsText, TextOf, Scalar, Absent
    <3>3. ~(v.v < 0)
      BY <3>1
    <3> QED
      BY <2>2, <2>3, <2>4, <2>6, <3>2, <3>3 DEF SqlRange, Truth
  <2> QED
    BY <2>4, <2>5, <2>6
<1> QED
  BY <1>6, <1>7, <1>8, <1>9, <1>10 DEF KnownOps

\* A portable condition means the same in both databases, and raises nothing.
LEMMA PortableAgrees ==
  ASSUME NEW q \in Queries, NEW c \in q.filter, NEW d \in SavedDocs,
         c.op \in KnownOps, Portable(c, d)
  PROVE  PgHolds(c, d) # "error" /\ (PgHolds(c, d) = "true" <=> MongoHolds(c, d))
<1> DEFINE v == d[c.path]
<1>1. c.path \in Path /\ c.yes \in BOOLEAN
  BY QueriesAreWellFormed
<1>2. c.op # "$or"
  BY DEF KnownOps, Ranges
<1>3. MongoHolds(c, d) <=> MongoOne(c, v)
  BY <1>2 DEF MongoHolds
<1>4. PgHolds(c, d) = IF c.path \in DottedPath THEN DottedSql(c, v) ELSE ColumnSql(c, v)
  BY <1>2 DEF PgHolds
<1>5. /\ c.op = "$ne" => ~Absent(v)
      /\ c.op # "is" => \A x \in Arguments(c) : ~Absent(x)
      /\ c.path \in ArrayPath => c.op \in {"is", "$in", "$exists"}
      /\ c.op = "$exists" => v.kind # "null" \/ c.path \in DottedPath
      /\ c.path \in DottedPath /\ c.op # "$exists" =>
           /\ v.kind \in {"missing", "text", "number"} \cup IF c.op = "$in" THEN {"array"} ELSE {}
           /\ \A x \in Arguments(c) :
                x.kind # "null" => x.kind = v.kind \/ v.kind \in {"missing", "array"}
           /\ c.op = "$in" => v.kind # "number" /\ \A x \in Arguments(c) : x.kind = "text"
           /\ c.op \in Ranges => \A x \in Arguments(c) : x.kind = "number"
  BY DEF Portable
<1>6. CASE c.path \in DottedPath
  <2>1. /\ \/ v \in {SqlNull, Missing} \/ OfKind(v, "text") \/ OfKind(v, "number")
           \/ Composed(v, v.elems)
        /\ \A x \in Arguments(c) : x = SqlNull \/ OfKind(x, "text") \/ OfKind(x, "number")
    BY <1>6, ColumnsAreTyped
  <2> HIDE DEF v
  <2>2. DottedSql(c, v) # "error" /\ (DottedSql(c, v) = "true" <=> MongoOne(c, v))
    BY <1>1, <1>5, <1>6, <2>1, DottedAgrees
  <2> QED
    BY <1>3, <1>4, <1>6, <2>2
<1>7. CASE c.path \notin DottedPath /\ c.path \in ArrayPath
  <2>1. v.kind = "array" /\ \A x \in Arguments(c) : x = SqlNull \/ OfKind(x, "text")
    BY <1>7, ColumnsAreTyped
  <2> HIDE DEF v
  <2>2. ColumnSql(c, v) # "error" /\ (ColumnSql(c, v) = "true" <=> MongoOne(c, v))
    BY <1>1, <1>5, <1>7, <2>1, ArrayAgrees
  <2> QED
    BY <1>3, <1>4, <1>7, <2>2
<1>8. CASE c.path \notin DottedPath /\ c.path \notin ArrayPath
  <2>1. PICK kind \in {"text", "number"} :
          /\ v = SqlNull \/ OfKind(v, kind)
          /\ \A x \in Arguments(c) : x = SqlNull \/ OfKind(x, kind)
    <3>1. c.path \in PlainPath
      BY <1>1, <1>8 DEF Path
    <3>2. PICK kind \in {"text", "number"} :
            /\ \A e \in SavedDocs : e[c.path] = SqlNull \/ OfKind(e[c.path], kind)
            /\ \A r \in Queries : \A e \in r.filter : e.path = c.path =>
                 \A x \in Arguments(e) : x = SqlNull \/ OfKind(x, kind)
      BY <3>1, ColumnsAreTyped
    <3> QED
      BY <3>2
  <2> HIDE DEF v
  <2>2. ColumnSql(c, v) # "error" /\ (ColumnSql(c, v) = "true" <=> MongoOne(c, v))
    BY <1>1, <1>5, <1>8, <2>1, PlainAgrees
  <2> QED
    BY <1>3, <1>4, <1>8, <2>2
<1> QED
  BY <1>6, <1>7, <1>8

\* A set of numbers that has 0 and with a number the next has them all.
LEMMA AllNumbers ==
  ASSUME NEW S, 0 \in S, \A k \in Nat : k \in S => k + 1 \in S
  PROVE  Nat \subseteq S
<1> DEFINE T == Nat \ S
<1>1. SUFFICES ASSUME T # {} PROVE FALSE
  OBVIOUS
<1>2. PICK m \in T : \A k \in T : <<k, m>> \notin OpToRel(<, Nat)
  <2> HIDE DEF T
  <2>1. T \subseteq Nat
    BY DEF T
  <2> QED
    BY <1>1, <2>1, NatLessThanWellFounded, WFMin
<1>3. m \in Nat /\ m \notin S /\ m # 0
  BY <1>2
<1>4. m - 1 \in Nat /\ m - 1 < m
  BY <1>3
<1>5. m - 1 \in S
  BY <1>2, <1>3, <1>4 DEF OpToRel
<1> QED
  BY <1>3, <1>4, <1>5

\* The k-th of some places, counted from the first.
Nth(I, i, k) == Cardinality({j \in I : j <= i}) = k

Enumerable(n) ==
  \A I \in SUBSET (1..n) :
    /\ IsFiniteSet(I) /\ Cardinality(I) \in Nat /\ Cardinality(I) <= n
    /\ \A k \in 1..Cardinality(I) : \E i \in I : Nth(I, i, k)

LEMMA OnePlaceMore == ASSUME NEW n \in Nat, Enumerable(n) PROVE Enumerable(n + 1)
<1> SUFFICES ASSUME NEW I \in SUBSET (1..(n + 1))
             PROVE  /\ IsFiniteSet(I) /\ Cardinality(I) \in Nat /\ Cardinality(I) <= n + 1
                    /\ \A k \in 1..Cardinality(I) : \E i \in I : Nth(I, i, k)
  BY DEF Enumerable
<1> DEFINE J == I \ {n + 1}
<1>1. J \in SUBSET (1..n)
  OBVIOUS
<1>2. /\ IsFiniteSet(J) /\ Cardinality(J) \in Nat /\ Cardinality(J) <= n
      /\ \A k \in 1..Cardinality(J) : \E i \in J : Nth(J, i, k)
  <2> HIDE DEF J
  <2> QED
    BY <1>1 DEF Enumerable
<1>3. CASE n + 1 \notin I
  <2>1. I = J
    BY <1>3
  <2> QED
    BY <1>2, <2>1
<1>4. CASE n + 1 \in I
  <2>1. I = J \cup {n + 1} /\ n + 1 \notin J
    BY <1>4
  <2>2. IsFiniteSet(I) /\ Cardinality(I) = Cardinality(J) + 1
    <3> HIDE DEF J
    <3> QED
      BY <1>2, <2>1, FS_AddElement
  <2>3. ASSUME NEW k \in 1..Cardinality(I) PROVE \E i \in I : Nth(I, i, k)
    <3>1. CASE k = Cardinality(I)
      <4>1. \A j \in I : j <= n + 1
        OBVIOUS
      <4>2. {j \in I : j <= n + 1} = I
        BY <4>1
      <4> QED
        BY <1>4, <3>1, <4>2 DEF Nth
    <3>2. CASE k # Cardinality(I)
      <4>1. k \in 1..Cardinality(J)
        BY <1>2, <2>2, <3>2
      <4>2. PICK i \in J : Nth(J, i, k)
        BY <1>2, <4>1
      <4>3. {j \in I : j <= i} = {j \in J : j <= i}
        BY <1>1, <2>1
      <4> QED
        BY <4>2, <4>3 DEF Nth
    <3> QED
      BY <3>1, <3>2
  <2> QED
    BY <1>2, <2>2, <2>3
<1> QED
  BY <1>3, <1>4

LEMMA PlacesAre ==
  ASSUME NEW n \in Nat
  PROVE  Enumerable(n)
<1> DEFINE S == {k \in Nat : Enumerable(k)}
<1>1. 0 \in S
  <2>1. ASSUME NEW I \in SUBSET (1..0) PROVE I = {}
    OBVIOUS
  <2>2. IsFiniteSet({}) /\ Cardinality({}) = 0
    BY FS_EmptySet
  <2>3. 1..0 = {}
    OBVIOUS
  <2>4. ASSUME NEW I \in SUBSET (1..0)
        PROVE  IsFiniteSet(I) /\ Cardinality(I) = 0 /\ 1..Cardinality(I) = {}
    BY <2>1, <2>2, <2>3
  <2>5. Enumerable(0)
    BY <2>4 DEF Enumerable
  <2> QED
    BY <2>5
<1>2. \A k \in Nat : k \in S => k + 1 \in S
  BY OnePlaceMore
<1> HIDE DEF S
<1>3. n \in S
  BY <1>1, <1>2, AllNumbers
<1> QED
  BY <1>3 DEF S

\* The documents at some places are some of the documents.
LEMMA RowsAtAre ==
  ASSUME NEW X, rows \in Seq(X), NEW I \in SUBSET DOMAIN rows
  PROVE  RowsAt(I) \in Seq(X) /\ Len(RowsAt(I)) <= Len(rows)
<1> DEFINE n == Cardinality(I)
           at(k) == CHOOSE i \in I : Cardinality({j \in I : j <= i}) = k
<1>1. Len(rows) \in Nat /\ DOMAIN rows = 1..Len(rows) /\ \A i \in 1..Len(rows) : rows[i] \in X
  BY LenProperties, ElementOfSeq
<1>2. I \in SUBSET (1..Len(rows)) /\ Enumerable(Len(rows))
  BY <1>1, PlacesAre
<1>3. n \in Nat /\ n <= Len(rows) /\ \A k \in 1..n : \E i \in I : Nth(I, i, k)
  BY <1>2 DEF Enumerable
<1>4. ASSUME NEW k \in 1..n PROVE at(k) \in I
  BY <1>3 DEF Nth
<1>5. ASSUME NEW k \in 1..n PROVE rows[at(k)] \in X
  BY <1>1, <1>2, <1>4
<1>6. RowsAt(I) = [k \in 1..n |-> rows[at(k)]]
  BY DEF RowsAt
<1> HIDE DEF n, at
<1>7. RowsAt(I) \in [1..n -> X]
  BY <1>5, <1>6
<1>8. RowsAt(I) \in Seq(X)
  BY <1>3, <1>7
<1>9. Len(RowsAt(I)) = n
  BY <1>3, <1>7
<1> QED
  BY <1>3, <1>8, <1>9

-----------------------------------------------------------------------------
\* How often a document is among these.
Times(s, d) == Cardinality({i \in DOMAIN s : s[i] = d})

\* A page of the documents in reverse is as long as one of the documents, and has
\* none of them more often.
LEMMA PageOfReverse ==
  ASSUME NEW X, NEW r \in Seq(X), NEW q, q.skip \in Nat, NEW limit \in SUBSET Nat
  PROVE  /\ Len(Page(q, limit, Reverse(r))) = Len(Page(q, limit, r))
         /\ \A d : Times(Page(q, limit, Reverse(r)), d) <= Times(r, d)
<1> DEFINE n == Len(r)
           v == Reverse(r)
           from == q.skip + 1
           end == IF limit = {} THEN n ELSE q.skip + (CHOOSE m \in limit : TRUE)
           to == IF end < n THEN end ELSE n
           s == SubSeq(v, from, to)
<1>1. n \in Nat /\ DOMAIN r = 1..n /\ \A i \in 1..n : r[i] \in X
  BY LenProperties, ElementOfSeq
<1>2. v = [i \in 1..n |-> r[(n - i) + 1]]
  BY DEF Reverse
<1>3. v \in Seq(X) /\ Len(v) = n /\ \A i \in 1..n : v[i] = r[(n - i) + 1]
  <2> HIDE DEF n, v
  <2>1. ASSUME NEW i \in 1..n PROVE (n - i) + 1 \in 1..n
    BY <1>1
  <2>2. v \in [1..n -> X]
    BY <1>1, <1>2, <2>1
  <2> QED
    BY <1>1, <1>2, <2>2
<1>4. Page(q, limit, v) = s /\ Page(q, limit, r) = SubSeq(r, from, to)
  BY <1>3 DEF Page
<1>5. from \in Int /\ to \in Int /\ from >= 1 /\ to <= n
  <2>1. limit # {} => (CHOOSE m \in limit : TRUE) \in Nat
    OBVIOUS
  <2> QED
    BY <1>1, <2>1
<1> HIDE DEF n, v, from, to
<1>6. \A i \in from..to : i \in 1..n
  BY <1>1, <1>5
<1>7. \A i \in from..to : v[i] \in X /\ r[i] \in X
  <2>1. \A i \in 1..n : v[i] \in X
    BY <1>3, ElementOfSeq
  <2> QED
    BY <1>1, <1>6, <2>1
<1>8. /\ s \in Seq(X) /\ Len(s) = IF from <= to THEN to - from + 1 ELSE 0
      /\ \A i \in 1..(to - from + 1) : s[i] = v[from + i - 1]
  BY <1>5, <1>7, SubSeqProperties
<1>9. Len(SubSeq(r, from, to)) = IF from <= to THEN to - from + 1 ELSE 0
  BY <1>5, <1>7, SubSeqProperties
<1> HIDE DEF s
<1>10. ASSUME NEW d
       PROVE  Cardinality({i \in DOMAIN s : s[i] = d}) <= Cardinality({i \in DOMAIN r : r[i] = d})
  <2> DEFINE A == {i \in DOMAIN s : s[i] = d}
             B == {i \in DOMAIN r : r[i] = d}
             f == [i \in A |-> (n - (from + i - 1)) + 1]
  <2>1. DOMAIN s = 1..Len(s)
    BY <1>8, LenProperties
  <2>2. ASSUME NEW i \in A
        PROVE  i \in Nat /\ (n - (from + i - 1)) + 1 \in B
    <3>1. i \in 1..(to - from + 1) /\ from + i - 1 \in 1..n
      BY <1>5, <1>6, <1>8, <2>1
    <3>2. s[i] = v[from + i - 1]
      BY <1>8, <3>1
    <3>3. v[from + i - 1] = r[(n - (from + i - 1)) + 1]
      BY <1>3, <3>1
    <3>4. (n - (from + i - 1)) + 1 \in 1..n
      BY <1>1, <3>1
    <3> QED
      BY <1>1, <3>1, <3>2, <3>3, <3>4
  <2>3. f \in [A -> B]
    BY <2>2
  <2>4. \A i, j \in A : f[i] = f[j] => i = j
    <3>1. SUFFICES ASSUME NEW i \in A, NEW j \in A, f[i] = f[j] PROVE i = j
      OBVIOUS
    <3>2. (n - (from + i - 1)) + 1 = (n - (from + j - 1)) + 1 /\ i \in Nat /\ j \in Nat
      BY <2>2, <3>1
    <3> QED
      BY <1>1, <1>5, <3>2
  <2>5. IsFiniteSet(B)
    <3>1. IsFiniteSet(1..n)
      BY <1>1, 1 \in Int, FS_Interval
    <3>2. B \in SUBSET (1..n)
      BY <1>1
    <3> QED
      BY <3>1, <3>2, FS_Subset
  <2> HIDE DEF A, B, f
  <2>6. f \in Injection(A, B)
    BY <2>3, <2>4 DEF Injection, IsInjective
  <2>7. Cardinality(A) <= Cardinality(B)
    BY <2>5, <2>6, FS_Injection
  <2> QED
    BY <2>7 DEF A, B
<1> QED
  BY <1>4, <1>8, <1>9, <1>10 DEF v, Times

-----------------------------------------------------------------------------
LEMMA DocumentsAgree ==
  ASSUME rows \in Seq(SavedDocs)
  PROVE  AnswersAgree
<1> SUFFICES ASSUME NEW q \in Queries,
                    PortableFilter(q), \A n \in q.limit : n > 0
             PROVE  Agreed(q)
  BY DEF AnswersAgree
<1>1. \A i \in DOMAIN rows : rows[i] \in SavedDocs
  OBVIOUS
<1>2. ASSUME NEW c \in q.filter, NEW i \in DOMAIN rows
      PROVE  /\ PgHolds(c, rows[i]) # "error"
             /\ PgHolds(c, rows[i]) = "true" <=> MongoHolds(c, rows[i])
  BY <1>1, PortableAgrees DEF PortableFilter
<1>3. ~PgRaises(q.filter)
  BY <1>2 DEF PgRaises, PortableFilter, KnownOps, Ranges
<1>4. PgMatches(q.filter) = MongoMatches(q.filter)
  BY <1>2 DEF PgMatches, MongoMatches
<1> DEFINE r == RowsAt(MongoMatches(q.filter))
<1>5. PgAnswer(q) = Page(q, q.limit, Ordered(q, r))
  BY <1>4 DEF PgAnswer
<1>6. r \in Seq(SavedDocs)
  BY RowsAtAre DEF MongoMatches
<1>7. q.skip \in Nat /\ \A n \in q.limit : n \in Nat /\ n # 0 /\ ~(n < 0)
  <2>1. q.skip \in Nat /\ \A n \in q.limit : n \in Int
    BY QueriesAreWellFormed
  <2> QED
    BY <2>1
<1>10. MongoLimit(q) = q.limit /\ ~PgLimitRaises(q)
  BY <1>7 DEF MongoLimit, PgLimitRaises
<1>8. CASE q.sort # ""
  BY <1>3, <1>5, <1>8, <1>10 DEF MongoMayAnswer, Agreed
<1>9. CASE q.sort = ""
  <2> DEFINE s == Page(q, q.limit, Reverse(r))
  <2>1. PgAnswer(q) = s
    BY <1>5, <1>9 DEF Ordered
  <2> HIDE DEF r
  <2>6. q.skip \in Nat /\ q.limit \in SUBSET Nat
    BY <1>7
  <2>2. Len(s) = Len(Page(q, q.limit, r))
    BY <1>6, <2>6, PageOfReverse
  <2>3. \A d : Times(s, d) <= Times(r, d)
    BY <1>6, <2>6, PageOfReverse
  <2> HIDE DEF s
  <2>4. /\ Len(s) = Len(Page(q, MongoLimit(q), r))
        /\ \A d \in ToSet(s) :
             Cardinality({i \in DOMAIN s : s[i] = d}) <= Cardinality({i \in DOMAIN r : r[i] = d})
    BY <1>10, <2>2, <2>3 DEF Times
  <2>5. MongoMayAnswer(q, s)
    BY <1>9, <2>4 DEF MongoMayAnswer, r
  <2> QED
    BY <1>3, <1>10, <2>1, <2>5 DEF Agreed
<1> QED
  BY <1>8, <1>9

-----------------------------------------------------------------------------
LEMMA NextDocuments == ASSUME DocumentsTypeOK, [DocumentsNext]_docVars PROVE DocumentsTypeOK'
<1> USE DEF DocumentsTypeOK
<1>1. ASSUME NEW d \in SavedDocs, InsertDocument(d) PROVE DocumentsTypeOK'
  <2>1. Append(rows, d) \in Seq(SavedDocs) /\ Len(Append(rows, d)) = Len(rows) + 1 /\ Len(rows) \in Nat
    BY AppendProperties, LenProperties
  <2> QED
    BY <1>1, <2>1, MaxRowsIsNatural DEF InsertDocument
<1>2. ASSUME NEW i \in DOMAIN rows, NEW d \in SavedDocs, SaveDocument(i, d) PROVE DocumentsTypeOK'
  <2>1. [rows EXCEPT ![i] = d] \in Seq(SavedDocs) /\ Len([rows EXCEPT ![i] = d]) = Len(rows)
    BY ExceptSeq
  <2> QED
    BY <1>2, <2>1 DEF SaveDocument
<1>3. ASSUME NEW f \in Prunes, DeleteMatching(f) PROVE DocumentsTypeOK'
  <2>1. PICK I \in SUBSET DOMAIN rows : rows' = RowsAt(I)
    BY <1>3 DEF DeleteMatching
  <2>2. RowsAt(I) \in Seq(SavedDocs) /\ Len(RowsAt(I)) <= Len(rows)
    BY RowsAtAre
  <2>3. Len(RowsAt(I)) \in Nat /\ Len(rows) \in Nat
    BY <2>2, LenProperties
  <2> QED
    BY <1>3, <2>1, <2>2, <2>3, MaxRowsIsNatural DEF DeleteMatching
<1>4. CASE UNCHANGED docVars
  BY <1>4 DEF docVars
<1> QED
  BY <1>1, <1>2, <1>3, <1>4 DEF DocumentsNext

LEMMA InitDocuments == DocumentsInit => DocumentsTypeOK
BY MaxRowsIsNatural DEF DocumentsInit, DocumentsTypeOK

THEOREM AnswersArePortable == DocumentsSpec => []AnswersAgree
<1>1. DocumentsTypeOK => AnswersAgree
  BY DocumentsAgree DEF DocumentsTypeOK
<1> QED
  BY <1>1, InitDocuments, NextDocuments, PTL DEF DocumentsSpec

-----------------------------------------------------------------------------
(* All the stores together *)

\* A step of the stores is one of a store, and none of the others.
LEMMA NextStores ==
  [StoresNext]_storesVars =>
    /\ [MemoryNext]_memVars /\ [VectorNext]_vecVars /\ [ChatNext]_chatVars /\ [ChatStartNext]_startVars
    /\ [KnowledgeNext]_knVars /\ [ToolsNext]_toolVars /\ [GuardrailsNext]_guardVars
    /\ [CatalogueNext]_catVars /\ [DocumentsNext]_docVars /\ [MigrationNext]_migVars
    /\ part' = part
  BY DEF StoresNext, storesVars

\* So the stores together are each of them by itself, and what is true of each by
\* itself is true of it beside the others.
LEMMA StoresAreEach ==
  StoresSpec =>
    /\ MemorySpec /\ VectorSpec /\ ChatSpec /\ ChatStartSpec /\ KnowledgeSpec /\ ToolsSpec
    /\ GuardrailsSpec /\ CatalogueSpec /\ DocumentsSpec /\ MigrationSpec
<1>1. StoresInit =>
        /\ MemoryInit /\ VectorInit /\ ChatInit /\ ChatStartInit /\ KnowledgeInit /\ ToolsInit
        /\ GuardrailsInit /\ CatalogueInit /\ DocumentsInit /\ MigrationInit
  BY DEF StoresInit
<1> QED
  BY <1>1, NextStores, PTL
    DEF StoresSpec, MemorySpec, VectorSpec, ChatSpec, ChatStartSpec, KnowledgeSpec, ToolsSpec,
        GuardrailsSpec, CatalogueSpec, DocumentsSpec, MigrationSpec

\* The variables of all the stores stay in their domains: a memory's operation
\* holds one document at most, what remains to look up is wanted, only a call that
\* waits or was cut has a process, a batch is no larger than it may be and of rows
\* that the cursor has given, and the migration counts no more than these.
THEOREM StoresTypeCorrect == StoresSpec => []StoresTypeOK
<1>1. StoresInit => part \in Parts
  BY DEF StoresInit
<1>2. part \in Parts /\ part' = part => (part \in Parts)'
  OBVIOUS
<1>3. StoresSpec => [](part \in Parts)
  BY <1>1, <1>2, NextStores, PTL DEF StoresSpec
<1>4. MemorySpec => []MemoryTypeOK
  <2>1. MemoryInit => GoneInv /\ Histories
    BY InitMemBase, IdleFields DEF MemoryInit, GoneInv, GoneOf, Fields, Histories
  <2>2. GoneInv => MemBase
    BY DEF GoneInv
  <2> QED
    BY <2>1, <2>2, NextGoneMem, NextHistories, MemoriesTyped, PTL DEF MemorySpec
<1>5. VectorSpec => []VectorTypeOK
  <2>1. VecInv => VectorTypeOK
    BY DEF VecInv
  <2> QED
    BY <2>1, InitVec, NextVec, PTL DEF VectorSpec
<1>6. ChatSpec => []ChatTypeOK
  <2>1. ChatInv => ChatTypeOK
    BY DEF ChatInv
  <2> QED
    BY <2>1, InitChat, NextChat, PTL DEF ChatSpec
<1>7. ChatStartSpec => []ChatStartTypeOK
  <2>1. StartInv => ChatStartTypeOK
    BY DEF StartInv
  <2> QED
    BY <2>1, InitStart, NextStart, PTL DEF ChatStartSpec
<1>8. KnowledgeSpec => []KnowledgeTypeOK
  <2>1. KnInv => KnowledgeTypeOK
    BY DEF KnInv
  <2> QED
    BY <2>1, InitKn, NextKn, PTL DEF KnowledgeSpec
<1>9. ToolsSpec => []ToolsTypeOK
  BY InitTool, NextTool, InitToolBounds, NextToolBounds, ToolsTyped, PTL DEF ToolsSpec
<1>10. GuardrailsSpec => []GuardrailsTypeOK
  <2>1. GuardInv => GuardrailsTypeOK
    BY DEF GuardInv
  <2> QED
    BY <2>1, InitGuard, NextGuard, PTL DEF GuardrailsSpec
<1>11. CatalogueSpec => []CatalogueTypeOK
  <2>1. CatInv => CatalogueTypeOK
    BY DEF CatInv
  <2> QED
    BY <2>1, InitCat, NextCat, PTL DEF CatalogueSpec
<1>12. DocumentsSpec => []DocumentsTypeOK
  BY InitDocuments, NextDocuments, PTL DEF DocumentsSpec
<1>13. MigrationSpec => []MigrationTypeOK
  BY InitMig, NextMig, InitMigBounds, NextMigBounds, InitOrigins, NextOrigins, MigrationTyped, PTL
     DEF MigrationSpec
<1>14. /\ part \in Parts /\ MemoryTypeOK /\ VectorTypeOK /\ ChatTypeOK /\ ChatStartTypeOK
       /\ KnowledgeTypeOK /\ ToolsTypeOK /\ GuardrailsTypeOK /\ CatalogueTypeOK /\ DocumentsTypeOK
       /\ MigrationTypeOK
       => StoresTypeOK
  BY DEF StoresTypeOK
<1> QED
  BY <1>3, <1>4, <1>5, <1>6, <1>7, <1>8, <1>9, <1>10, <1>11, <1>12, <1>13, <1>14, StoresAreEach, PTL

\* What was proved of each store holds beside the others, in the specification
\* that the stores are checked with: one behaviour of all the services.
THEOREM StoresKeepTheirPromises ==
  StoresSpec =>
    /\ [](FreshIsServed /\ TiersBounded /\ DeletedIsForgotten)
    /\ [](BootstrapIsOnce /\ StatusIsEarned /\ NothingDangles)
    /\ [](CountIsHonest /\ PromptIsTheConversation /\ DeletionLeavesNothing /\ OneChat)
    /\ [](ToolsAreWhole /\ CredentialsAreCurrent /\ GuardrailsDecide)
    /\ [](EditsAreKept /\ AnswersAgree /\ VerdictsAreEarned)
    /\ AloneSucceeds
<1>1. StoresSpec => [](FreshIsServed /\ TiersBounded /\ DeletedIsForgotten)
  BY StoresAreEach, StoredIsServed, CapsHold, DeletionsLast, PTL
<1>2. StoresSpec => [](BootstrapIsOnce /\ StatusIsEarned /\ NothingDangles)
  BY StoresAreEach, BootstrapHappensOnce, StatusesAreEarned, NothingIsLeftBehind, PTL
<1>3. StoresSpec =>
        [](CountIsHonest /\ PromptIsTheConversation /\ DeletionLeavesNothing /\ OneChat)
  BY StoresAreEach, CountsAreHonest, PromptsAreTheConversation, DeletionsLeaveNothing, OneChatIsKept, PTL
<1>4. StoresSpec => [](ToolsAreWhole /\ CredentialsAreCurrent /\ GuardrailsDecide)
  BY StoresAreEach, StoredToolsAreWhole, CallsHaveTheirCredentials, GuardrailsAreApplied, PTL
<1>5. StoresSpec => [](EditsAreKept /\ AnswersAgree /\ VerdictsAreEarned)
  BY StoresAreEach, EditsLast, AnswersArePortable, ScriptsCanBeBelieved, PTL
<1> QED
  BY <1>1, <1>2, <1>3, <1>4, <1>5, StoresAreEach, AloneIsEnough
=============================================================================
