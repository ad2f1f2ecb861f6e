---------------------------- MODULE CustomTools ----------------------------
(***************************************************************************)
(* Custom tools: Python functions stored as documents.  The routes create, *)
(* change and delete them, validating the source in a subprocess first;    *)
(* the plugin loader registers the plugins at every start of the API; the  *)
(* run route and the agent engine execute them in a subprocess, the engine *)
(* with credentials from the token store, whose routes are here as well.   *)
(*                                                                         *)
(* An operation is a coroutine (k).  A step of it is what happens between  *)
(* two awaits that other coroutines could notice: validation and inference *)
(* touch nothing that is shared, so they are part of the write they lead   *)
(* to.  A source is known by the function that it defines.                 *)
(***************************************************************************)
EXTENDS Integers, FiniteSets

CONSTANTS
  ToolId, ToolActor,
  ToolName,       \* names of tools
  PluginName,     \* those of the plugins in plugins.yaml
  Defines,        \* [sources -> the name of the function in it]
  PluginSource,   \* [PluginName -> what get_source_code gives]
  EnvVar, TokenName,
  Mappings,       \* the env configurations of the instance,
  Overrides,      \* the credential overrides of its workflows,
  InitialTools,   \* and what may be stored at the beginning
  NoTool,         \* no document yet, or nothing given
  GoneTool,       \* a deleted document: its id is not used again
  MaxTokenWrites  \* bound: requests to the token routes

ToolSource == DOMAIN Defines

ASSUME PluginsDefineThemselves ==
  /\ PluginName \subseteq ToolName
  /\ \A p \in PluginName : PluginSource[p] \in ToolSource /\ Defines[PluginSource[p]] = p
ASSUME TokenWritesAreBounded == MaxTokenWrites \in Nat
ASSUME NoToolIsNoTool == NoTool # GoneTool /\ {NoTool, GoneTool} \cap ToolId = {}

VARIABLES
  toolDb,       \* settings.db_backend
  tools,        \* [ToolId -> a document or NoTool]
  tokens,       \* [TokenName -> what is stored under the name]
  toolOps,      \* [ToolActor -> what the coroutine is doing]
  tokenWrites,
  torn,         \* history: tools of which a PUT has changed some fields of a
                \* document that had been written since the PUT had read it,
                \* or of which the document saved had been read after such a PUT
  rewritten     \* history: [ToolActor -> the tokens written during its call]

toolVars == <<toolDb, tools, tokens, toolOps, tokenWrites, torn, rewritten>>

-----------------------------------------------------------------------------
(* Tools, tokens, coroutines *)

\* The value of a token: one of two secrets, one that itself contains a reference
\* to a token, or one that the encryption key does not decrypt.
Secrets == {"v1", "v2"}
Absence == "absent"
TokenValue == Secrets \cup {"quoting", "undecryptable"}

\* An env var is mapped to a token or holds a plain value.
PlainValue == "plain"
EnvConfig == [EnvVar -> TokenName \cup {PlainValue}]

\* The schema is that of a source, given by the user, or empty after a timeout.
Tool == [name : ToolName, source : ToolSource, schema : ToolSource \cup {"given", "empty"},
         env : EnvConfig, plugin : BOOLEAN, enabled : BOOLEAN]

Inferred(source) == {source, "empty"}

\* The source defines the tool's function, and the schema is one of that source.
Whole(doc) ==
  Defines[doc.source] = doc.name /\ doc.schema \in Inferred(doc.source) \cup {"given"}

ASSUME InitialToolsAreWhole == \A doc \in InitialTools : doc \in Tool /\ Whole(doc)
ASSUME MappingsAreEnvironments == Mappings \subseteq EnvConfig
ASSUME OverridesAreTokens == \A over \in Overrides : \A v \in DOMAIN over : over[v] \in TokenName

\* held: the document read, of tool id.  body: the fields of a request or of a
\* plugin.  left: references to look up.  got: what they have given.
NoOp == [pc |-> "free", id |-> NoTool, held |-> NoTool, name |-> NoTool, source |-> NoTool,
         schema |-> NoTool, env |-> [v \in EnvVar |-> PlainValue], left |-> {},
         got |-> [t \in TokenName |-> Absence], process |-> "none"]

ToolPcs == {"free", "update", "mapping", "switch", "load", "fetch", "spawn", "wait", "done"}

ToolsInit ==
  /\ toolDb \in {"mongo", "postgres"}
  /\ \E i \in ToolId, doc \in InitialTools \cup {NoTool} :
       tools = [j \in ToolId |-> IF j = i THEN doc ELSE NoTool]
  /\ tokens = [t \in TokenName |-> "v1"]
  /\ toolOps = [k \in ToolActor |-> NoOp]
  /\ tokenWrites = 0 /\ torn = {}
  /\ rewritten = [k \in ToolActor |-> {}]

Doing(k, pc) == toolOps[k].pc = pc
Stored == {i \in ToolId : tools[i] \notin {NoTool, GoneTool}}
Put(i, doc) == tools' = [tools EXCEPT ![i] = doc]
EndOp(k) == toolOps' = [toolOps EXCEPT ![k] = [NoOp EXCEPT !.pc = "done"]]
OnlyTools == UNCHANGED <<toolDb, tokens, tokenWrites, rewritten>>
OnlyOps == UNCHANGED <<toolDb, tools, tokens, tokenWrites, torn, rewritten>>

-----------------------------------------------------------------------------
(* The routes of the tools *)

\* Create and upload: validate, infer unless a schema is given, insert.
CreateTool(k, i, name, source, schema, env) ==
  /\ Doing(k, "free") /\ tools[i] = NoTool
  /\ Defines[source] = name /\ schema \in Inferred(source) \cup {"given"}
  /\ Put(i, [name |-> name, source |-> source, schema |-> schema, env |-> env,
             plugin |-> FALSE, enabled |-> TRUE])
  /\ EndOp(k) /\ OnlyTools /\ UNCHANGED torn

\* PUT reads the tool; a field of the body may be None, here NoTool.
ReadToUpdate(k, i, name, source, schema) ==
  /\ Doing(k, "free") /\ i \in Stored
  /\ toolOps' = [toolOps EXCEPT ![k] = [NoOp EXCEPT !.pc = "update", !.id = i, !.held = tools[i],
                                          !.name = name, !.source = source, !.schema = schema]]
  /\ OnlyOps

Given(x, old) == IF x = NoTool THEN old ELSE x

\* Mutant: the schema stays.
UpdatedOnly(op, doc, inferred) ==
  [doc EXCEPT !.name = Given(op.name, @), !.source = Given(op.source, @),
              !.schema = IF op.schema # NoTool THEN op.schema ELSE @]

\* The fields of the body replace those of doc; a new source or name brings a new
\* schema with it, inferred from what the PUT has read.
Updated(op, doc, inferred) ==
  LET touched == op.source # NoTool \/ op.name # NoTool IN
  [doc EXCEPT !.name = Given(op.name, @), !.source = Given(op.source, @),
              !.schema = IF op.schema # NoTool THEN op.schema ELSE IF touched THEN inferred ELSE @]

Validates(op) ==
  (op.source # NoTool \/ op.name # NoTool) =>
    Defines[Given(op.source, op.held.source)] = Given(op.name, op.held.name)

\* tool.set: with MongoDB it sets the fields given, if the document is there; with
\* PostgreSQL it saves the document as read and changed, even if it has gone.
SetTool(k) ==
  LET op == toolOps[k]
      i == op.id
  IN /\ Doing(k, "update") /\ Validates(op)
     /\ \E inferred \in Inferred(Given(op.source, op.held.source)) :
          IF toolDb = "mongo"
          THEN /\ i \in Stored /\ Put(i, Updated(op, tools[i], inferred))
               /\ torn' = IF tools[i] = op.held THEN torn ELSE torn \cup {i}
          ELSE Put(i, Updated(op, op.held, inferred)) /\ UNCHANGED torn
     /\ EndOp(k) /\ OnlyTools

\* 422, or the document has gone.
UpdateFails(k) ==
  /\ Doing(k, "update")
  /\ ~Validates(toolOps[k]) \/ (toolDb = "mongo" /\ toolOps[k].id \notin Stored)
  /\ EndOp(k) /\ OnlyOps

ReadToMap(k, i, env) ==
  /\ Doing(k, "free") /\ i \in Stored
  /\ toolOps' = [toolOps EXCEPT ![k] = [NoOp EXCEPT !.pc = "mapping", !.id = i,
                                          !.held = tools[i], !.env = env]]
  /\ OnlyOps

\* save() writes the whole document, in either database, and inserts it if need be.
\* A document that was torn when it was read is torn again, whoever has mended it.
SaveWhole(k, doc) ==
  LET op == toolOps[k]
      i == op.id
  IN /\ Put(i, doc)
     /\ torn' = IF Whole(doc) THEN torn \ {i} ELSE IF Whole(op.held) THEN torn ELSE torn \cup {i}
     /\ EndOp(k) /\ OnlyTools

SaveMapping(k) ==
  /\ Doing(k, "mapping")
  /\ SaveWhole(k, [toolOps[k].held EXCEPT !.env = toolOps[k].env])

DeleteTool(k, i) ==
  /\ Doing(k, "free") /\ i \in Stored
  /\ Put(i, GoneTool) /\ EndOp(k) /\ OnlyTools /\ UNCHANGED torn

-----------------------------------------------------------------------------
(* The plugin loader, at the start of an API process *)

\* An entry that is on: find_one by name, whoever made that tool.
FindToLoad(k, p, i) ==
  LET named == {j \in Stored : tools[j].name = p} IN
  /\ Doing(k, "free") /\ IF named = {} THEN i = NoTool ELSE i \in named
  /\ toolOps' = [toolOps EXCEPT ![k] = [NoOp EXCEPT !.pc = "load", !.id = i, !.name = p,
                                          !.held = IF i = NoTool THEN NoTool ELSE tools[i]]]
  /\ OnlyOps

\* The plugin's own metadata, source and schema, over those of the document.
PluginOver(p, doc) ==
  [doc EXCEPT !.source = PluginSource[p], !.schema = PluginSource[p],
              !.env = [v \in EnvVar |-> PlainValue], !.plugin = TRUE, !.enabled = TRUE]

LoadOver(k) ==
  /\ Doing(k, "load") /\ toolOps[k].id # NoTool
  /\ SaveWhole(k, PluginOver(toolOps[k].name, toolOps[k].held))

LoadNew(k, i) ==
  LET p == toolOps[k].name IN
  /\ Doing(k, "load") /\ toolOps[k].id = NoTool /\ tools[i] = NoTool
  /\ Put(i, PluginOver(p, [name |-> p, source |-> PluginSource[p], schema |-> "empty",
                           env |-> NoOp.env, plugin |-> TRUE, enabled |-> TRUE]))
  /\ EndOp(k) /\ OnlyTools /\ UNCHANGED torn

\* An entry that is off: its tool, if a plugin and enabled, is switched off.
FindToSwitchOff(k, i) ==
  /\ Doing(k, "free") /\ i \in Stored
  /\ tools[i].name \in PluginName /\ tools[i].plugin /\ tools[i].enabled
  /\ toolOps' = [toolOps EXCEPT ![k] = [NoOp EXCEPT !.pc = "switch", !.id = i, !.held = tools[i]]]
  /\ OnlyOps

SwitchOff(k) ==
  /\ Doing(k, "switch")
  /\ SaveWhole(k, [toolOps[k].held EXCEPT !.enabled = FALSE])

-----------------------------------------------------------------------------
(* Execution *)

\* The run route: no credentials.
StartTestRun(k, i) ==
  /\ Doing(k, "free") /\ i \in Stored /\ tools[i].enabled
  /\ toolOps' = [toolOps EXCEPT ![k] = [NoOp EXCEPT !.pc = "spawn", !.held = tools[i]]]
  /\ OnlyOps

References(env) == {env[v] : v \in EnvVar} \ {PlainValue}

\* Mutant: the tokens looked up are those of the mapping before the overrides.
StartCallUnredirected(k, i, over) ==
  LET env == [v \in EnvVar |-> IF v \in DOMAIN over THEN over[v] ELSE tools[i].env[v]] IN
  /\ Doing(k, "free") /\ i \in Stored /\ tools[i].enabled
  /\ toolOps' = [toolOps EXCEPT ![k] = [NoOp EXCEPT !.pc = "fetch", !.held = tools[i], !.env = env,
                                          !.left = References(tools[i].env)]]
  /\ OnlyOps

\* The engine calls a tool as it has read it when the run began.  An override of
\* the workflow redirects a variable that the tool declares.
StartCall(k, i, over) ==
  LET env == [v \in EnvVar |-> IF v \in DOMAIN over THEN over[v] ELSE tools[i].env[v]] IN
  /\ Doing(k, "free") /\ i \in Stored /\ tools[i].enabled
  /\ toolOps' = [toolOps EXCEPT ![k] = [NoOp EXCEPT !.pc = "fetch", !.held = tools[i], !.env = env,
                                          !.left = References(env)]]
  /\ OnlyOps

\* resolve_config looks the tokens up one after the other, in no order; a value
\* that does not decrypt raises.
FetchToken(k, t) ==
  /\ Doing(k, "fetch") /\ t \in toolOps[k].left
  /\ IF tokens[t] = "undecryptable" THEN EndOp(k)
     ELSE toolOps' = [toolOps EXCEPT ![k].left = @ \ {t}, ![k].got[t] = tokens[t]]
  /\ OnlyOps

\* Mutant: only references of which there is no token.
Unknowns(op) == {t \in References(op.env) : op.got[t] = Absence}

\* What find_unresolved_tokens finds in the resolved configuration: references of
\* which there is no token, and those that are part of a value.
Unresolved(op) ==
  {t \in References(op.env) : op.got[t] \in {Absence, "quoting"}}

Resolve(k) ==
  /\ Doing(k, "fetch") /\ toolOps[k].left = {}
  /\ IF Unresolved(toolOps[k]) # {} THEN EndOp(k)
     ELSE toolOps' = [toolOps EXCEPT ![k].pc = "spawn"]
  /\ OnlyOps

\* Source, arguments and credentials are handed to the process.
Spawn(k) ==
  /\ Doing(k, "spawn")
  /\ toolOps' = [toolOps EXCEPT ![k] = [NoOp EXCEPT !.pc = "wait", !.process = "running"]]
  /\ OnlyOps

ProcessEnds(k) ==
  /\ toolOps[k].process \in {"running", "killed"}
  /\ toolOps' = [toolOps EXCEPT ![k].process = "ended"]
  /\ OnlyOps

\* communicate() returns: the result, or the error of a bad exit.
Collect(k) ==
  /\ Doing(k, "wait") /\ toolOps[k].process = "ended"
  /\ EndOp(k) /\ OnlyOps

\* After CUSTOM_TOOL_TIMEOUT_SECONDS the process is killed.
TimesOut(k) ==
  /\ Doing(k, "wait") /\ toolOps[k].process = "running"
  /\ toolOps' = [toolOps EXCEPT ![k].pc = "done", ![k].process = "killed"]
  /\ OnlyOps

\* A cancelled coroutine handles no TimeoutError: its process runs on.
CancelCall(k) ==
  /\ toolOps[k].pc \in {"fetch", "spawn", "wait"}
  /\ toolOps' = [toolOps EXCEPT ![k] = [NoOp EXCEPT !.pc = "done", !.process = toolOps[k].process]]
  /\ OnlyOps

-----------------------------------------------------------------------------
(* The routes of the tokens *)

WriteToken(t, value) ==
  /\ tokenWrites < MaxTokenWrites /\ tokens[t] # value
  /\ tokens' = [tokens EXCEPT ![t] = value]
  /\ tokenWrites' = tokenWrites + 1
  /\ rewritten' = [k \in ToolActor |-> IF toolOps[k].pc \in {"fetch", "spawn"}
                                       THEN rewritten[k] \cup {t} ELSE rewritten[k]]
  /\ UNCHANGED <<toolDb, tools, toolOps, torn>>

\* 409 if the name is taken.
CreateToken(t, value) == tokens[t] = Absence /\ WriteToken(t, value)
UpdateToken(t, value) == tokens[t] # Absence /\ WriteToken(t, value)
DeleteToken(t) == WriteToken(t, Absence)

-----------------------------------------------------------------------------
OptName == ToolName \cup {NoTool}
OptSource == ToolSource \cup {NoTool}

ToolsNext ==
  \/ \E k \in ToolActor, i \in ToolId :
       \/ \E n \in ToolName, s \in ToolSource, c \in ToolSource \cup {"given", "empty"}, e \in Mappings :
            CreateTool(k, i, n, s, c, e)
       \/ \E n \in OptName, s \in OptSource, c \in {"given", NoTool} : ReadToUpdate(k, i, n, s, c)
       \/ \E e \in Mappings : ReadToMap(k, i, e)
       \/ DeleteTool(k, i) \/ LoadNew(k, i) \/ FindToSwitchOff(k, i) \/ StartTestRun(k, i)
       \/ \E over \in Overrides : StartCall(k, i, over)
  \/ \E k \in ToolActor, p \in PluginName, i \in ToolId \cup {NoTool} : FindToLoad(k, p, i)
  \/ \E k \in ToolActor :
       \/ SetTool(k) \/ UpdateFails(k) \/ SaveMapping(k) \/ LoadOver(k) \/ SwitchOff(k)
       \/ Resolve(k) \/ Spawn(k) \/ ProcessEnds(k) \/ Collect(k) \/ TimesOut(k) \/ CancelCall(k)
       \/ \E t \in TokenName : FetchToken(k, t)
  \/ \E t \in TokenName :
       \/ DeleteToken(t)
       \/ \E v \in TokenValue : CreateToken(t, v) \/ UpdateToken(t, v)

ToolsSpec == ToolsInit /\ [][ToolsNext]_toolVars

-----------------------------------------------------------------------------
(* Properties *)

ToolsTypeOK ==
  /\ toolDb \in {"mongo", "postgres"}
  /\ tools \in [ToolId -> Tool \cup {NoTool, GoneTool}]
  /\ tokens \in [TokenName -> TokenValue \cup {Absence}]
  /\ \A k \in ToolActor :
       /\ toolOps[k].pc \in ToolPcs
       /\ toolOps[k].held \in Tool \cup {NoTool}
       /\ toolOps[k].env \in EnvConfig /\ toolOps[k].left \subseteq References(toolOps[k].env)
       /\ toolOps[k].process = "running" => toolOps[k].pc \in {"wait", "done"}
  /\ tokenWrites \in 0 .. MaxTokenWrites
  /\ torn \subseteq ToolId /\ rewritten \in [ToolActor -> SUBSET TokenName]

\* Whatever creates, changes, maps, loads and deletes tools at the same time, the
\* source of a stored tool defines the function that the tool is named for, and
\* its schema is of this source: except with MongoDB, where a PUT sets a few
\* fields of a document that has changed since it validated them against it.
ToolsAreWhole == \A i \in Stored \ torn : Whole(tools[i])

\* A tool that the engine is about to run has a credential for every reference in
\* its environment, none of them a text in which a reference is left, and unless
\* a token was rewritten after the call began, it is the one stored now; two
\* tokens that are rotated together may be one old and one new.
CredentialsAreCurrent ==
  \A k \in ToolActor : Doing(k, "spawn") =>
    \A t \in References(toolOps[k].env) :
      /\ toolOps[k].got[t] \in Secrets
      /\ t \notin rewritten[k] => toolOps[k].got[t] = tokens[t]
=============================================================================
