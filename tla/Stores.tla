-------------------------------- MODULE Stores --------------------------------
(***************************************************************************)
(* The stores beside the workflows: the memories, the vector store of a    *)
(* process, the chat sessions, the knowledge, the custom tools with their  *)
(* tokens, the guardrails, the start of chat workflows, the documents that *)
(* users edit, a collection as the application queries it, and the         *)
(* migration of collections.  They share the database but no document of   *)
(* it, so their steps commute; a behaviour moves one of them, which is     *)
(* enough for properties that each concern one.                            *)
(***************************************************************************)
EXTENDS Memory, VectorStore, Chat, ChatStart, Knowledge, CustomTools, Guardrails, Catalogue,
        Documents, Migration

CONSTANT Parts   \* the stores of the instance

ASSUME PartsAreStores ==
  Parts \subseteq {"memory", "vector", "chat", "start", "knowledge", "tools", "guardrails",
                   "catalogue", "documents", "migration"}

VARIABLE part    \* the store that moves

storesVars == <<part, memVars, vecVars, chatVars, startVars, knVars, toolVars, guardVars, catVars, docVars, migVars>>

\* Every variable of the store that moves has its type.
StoresTypeOK ==
  /\ part \in Parts
  /\ part = "memory" => MemoryTypeOK
  /\ part = "vector" => VectorTypeOK
  /\ part = "chat" => ChatTypeOK
  /\ part = "start" => ChatStartTypeOK
  /\ part = "knowledge" => KnowledgeTypeOK
  /\ part = "tools" => ToolsTypeOK
  /\ part = "guardrails" => GuardrailsTypeOK
  /\ part = "catalogue" => CatalogueTypeOK
  /\ part = "documents" => DocumentsTypeOK
  /\ part = "migration" => MigrationTypeOK

\* A store that does not move begins in one way.
StoresInit ==
  /\ part \in Parts
  /\ MemoryInit /\ ChatInit /\ ChatStartInit
  /\ VectorInit /\ (part # "vector" => backend = "qdrant" /\ model = "none")
  /\ KnowledgeInit /\ (part # "knowledge" => docStore = "mongo")
  /\ ToolsInit /\ (part # "tools" => toolDb = "mongo" /\ \A i \in ToolId : tools[i] = NoTool)
  /\ GuardrailsInit /\ (part # "guardrails" => guards = [g \in Guard |-> NoGuard])
  /\ CatalogueInit /\ (part # "catalogue" => catDb = "mongo")
  /\ DocumentsInit /\ (part # "documents" => db = "mongo")
  /\ MigrationInit /\ (part # "migration" => mongo = [c \in Collection |-> << >>])

StoresNext ==
  \/ /\ part = "memory" /\ MemoryNext
     /\ UNCHANGED <<part, vecVars, chatVars, startVars, knVars, toolVars, guardVars, catVars, docVars, migVars>>
  \/ /\ part = "vector" /\ VectorNext
     /\ UNCHANGED <<part, memVars, chatVars, startVars, knVars, toolVars, guardVars, catVars, docVars, migVars>>
  \/ /\ part = "chat" /\ ChatNext
     /\ UNCHANGED <<part, memVars, vecVars, startVars, knVars, toolVars, guardVars, catVars, docVars, migVars>>
  \/ /\ part = "start" /\ ChatStartNext
     /\ UNCHANGED <<part, memVars, vecVars, chatVars, knVars, toolVars, guardVars, catVars, docVars, migVars>>
  \/ /\ part = "knowledge" /\ KnowledgeNext
     /\ UNCHANGED <<part, memVars, vecVars, chatVars, startVars, toolVars, guardVars, catVars, docVars, migVars>>
  \/ /\ part = "tools" /\ ToolsNext
     /\ UNCHANGED <<part, memVars, vecVars, chatVars, startVars, knVars, guardVars, catVars, docVars, migVars>>
  \/ /\ part = "guardrails" /\ GuardrailsNext
     /\ UNCHANGED <<part, memVars, vecVars, chatVars, startVars, knVars, toolVars, catVars, docVars, migVars>>
  \/ /\ part = "catalogue" /\ CatalogueNext
     /\ UNCHANGED <<part, memVars, vecVars, chatVars, startVars, knVars, toolVars, guardVars, docVars, migVars>>
  \/ /\ part = "documents" /\ DocumentsNext
     /\ UNCHANGED <<part, memVars, vecVars, chatVars, startVars, knVars, toolVars, guardVars, catVars, migVars>>
  \/ /\ part = "migration" /\ MigrationNext
     /\ UNCHANGED <<part, memVars, vecVars, chatVars, startVars, knVars, toolVars, guardVars, catVars, docVars>>

StoresSpec == StoresInit /\ [][StoresNext]_storesVars
=============================================================================
