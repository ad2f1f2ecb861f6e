---------------------------- MODULE AgentSetup ----------------------------
(***************************************************************************)
(* What run_agent prepares before the first model turn: the execution path *)
(* the agent's provider selects, the MCP servers and their allow lists,    *)
(* the tools the model is offered and who executes each, and the skills    *)
(* that fit the prompt.  These are functions of the documents read from    *)
(* the database and of what the MCP servers answer; "setup" is one such    *)
(* input, and the properties are stated of every input of an instance.     *)
(***************************************************************************)
EXTENDS Integers, Sequences, FiniteSets, SequencesExt

CONSTANTS
  Tool,            \* names of MCP and custom tools
  StoreMemory,     \* the name of the built-in tool store_memory
  ServerName,      \* names of MCP servers (several servers may share one)
  Skill,           \* skill documents
  SkillOverhead,   \* [Skill -> Nat]: length of a section's tags and its name
  SkillLength,     \* [Skill -> Nat]: length of a skill's instructions
  SkillBudget,     \* settings.prompt_skills_char_budget
  Inputs           \* the inputs of this instance

ASSUME StoreMemoryIsBuiltIn == StoreMemory \notin Tool
ASSUME SizesAreNaturals ==
  /\ SkillOverhead \in [Skill -> Nat] /\ SkillLength \in [Skill -> Nat]
  /\ SkillBudget \in Nat

VARIABLE setup

-----------------------------------------------------------------------------
(* The inputs *)

\* agent.provider_id: none, dangling, of a provider whose token is gone, or of
\* a provider of some type; "gateway" is an Anthropic one with a base_url.
Providers == {"none", "missing", "no_token", "github_copilot", "anthropic", "gateway",
              "openai"}

\* An MCP server document and the tools the live server lists; a server that
\* cannot be reached lists none.  An empty allow list allows everything.
McpServer == [name : ServerName, remote : BOOLEAN, allowed : SUBSET Tool, lists : SUBSET Tool]

CustomTool == [name : Tool, is_enabled : BOOLEAN]

\* servers: the agent's, by id and then by tag, each once.  skills: those the
\* workflow names by id, and for each of its tags those that carry it.
Setup == [provider : Providers, servers : Seq(McpServer), customs : Seq(CustomTool),
          skills : Seq(Skill), tagged : Seq(Seq(Skill))]

ASSUME InputsAreSetups == Inputs \subseteq Setup

-----------------------------------------------------------------------------
(* Which path: the provider resolution and the routing of run_agent *)

\* A provider that cannot be resolved falls back to the Copilot SDK.
ResolvedPath(s) ==
  CASE s.provider = "anthropic" -> "claude"
    [] s.provider = "gateway" -> "anthropic"
    [] s.provider = "openai" -> "openai"
    [] OTHER -> "copilot"

-----------------------------------------------------------------------------
(* MCP servers *)

\* build_mcp_servers_config: a dict by name, in the order in which the names first
\* come.  A later server of the same name replaces the earlier one and keeps its
\* place.
McpConfig(s) ==
  LET first == {i \in DOMAIN s.servers :
                  \A j \in 1..(i - 1) : s.servers[j].name # s.servers[i].name}
      last(n) == s.servers[CHOOSE i \in DOMAIN s.servers :
                   /\ s.servers[i].name = n
                   /\ \A j \in DOMAIN s.servers : s.servers[j].name = n => j <= i]
  IN [i \in first |-> last(s.servers[i].name)]

Permits(server, t) == server.allowed = {} \/ t \in server.allowed

\* allowed_tools_set: the union of the allow lists, unless some server has none.
Unrestricted(s) ==
  \E i \in DOMAIN s.servers : s.servers[i].allowed = {}
AllowedTools(s) ==
  IF Unrestricted(s) THEN Tool ELSE UNION {s.servers[i].allowed : i \in DOMAIN s.servers}

\* The tools of a server that _connect_mcp_and_list_tools adds.
Listed(s, server) == {t \in server.lists : Permits(server, t)} \cap AllowedTools(s)

\* The Claude path connects to the local servers itself
\* (_connect_local_mcp_and_list_tools) and hands the remote ones, by URL and
\* without their allow lists, to the SDK.
Connected(s) ==
  IF ResolvedPath(s) = "claude"
  THEN RestrictValues(McpConfig(s), LAMBDA server : ~server.remote)
  ELSE McpConfig(s)

\* tool_server_map: a later server takes over a name an earlier one lists.
Servers(s, t) == {i \in DOMAIN Connected(s) : t \in Listed(s, Connected(s)[i])}
ServerOf(s, t) == CHOOSE i \in Servers(s, t) : \A j \in Servers(s, t) : j <= i

-----------------------------------------------------------------------------
(* Custom tools, the offer to the model, the dispatch of a call *)

\* _build_custom_tools_config: the first enabled tool of a name.
CustomOf(s, name) ==
  {k \in DOMAIN s.customs :
     /\ s.customs[k].name = name /\ s.customs[k].is_enabled
     /\ \A j \in 1..(k - 1) : ~(s.customs[j].name = name /\ s.customs[j].is_enabled)}

Owner(by, k) == [by |-> by, k |-> k]
BuiltIn == Owner("builtin", 0)

\* Who has a definition of this name in the list sent to the model.  The
\* Copilot SDK connects to the servers of its config itself.
Owners(s, t) ==
  {Owner("mcp", i) : i \in Servers(s, t)} \cup {Owner("custom", k) : k \in CustomOf(s, t)}

Offered(s) == {t \in Tool : Owners(s, t) # {}} \cup {StoreMemory}

\* Mutant: MCP servers are looked up before the custom tools, by name only.
DispatchAnyServer(s, t) ==
  IF t = StoreMemory THEN BuiltIn
  ELSE IF CustomOf(s, t) # {} THEN Owner("custom", CHOOSE k \in CustomOf(s, t) : TRUE)
  ELSE IF DOMAIN Connected(s) # {} THEN Owner("mcp", 1)
  ELSE Owner("none", 0)

\* A call goes to store_memory, then a custom tool, then the MCP server.
Dispatch(s, t) ==
  IF t = StoreMemory THEN BuiltIn
  ELSE IF CustomOf(s, t) # {} THEN Owner("custom", CHOOSE k \in CustomOf(s, t) : TRUE)
  ELSE IF Servers(s, t) # {} THEN Owner("mcp", ServerOf(s, t))
  ELSE Owner("none", 0)

-----------------------------------------------------------------------------
(* Skills: _build_system_prompt *)

\* The sections so far, their characters counted with a separator each, the
\* skills seen, and whether the last one was refused.
NoSections == [sections |-> <<>>, chars |-> 0, seen |-> {}, refused |-> FALSE]

\* Mutant: the separators are not counted.
AddSkillUncounted(acc, sk) ==
  LET room == SkillBudget - acc.chars - SkillOverhead[sk]
      size == SkillOverhead[sk] + (IF SkillLength[sk] < room THEN SkillLength[sk] ELSE room)
  IN IF room <= 0 THEN [acc EXCEPT !.refused = TRUE]
     ELSE [acc EXCEPT !.sections = Append(@, [skill |-> sk, size |-> size]),
                      !.chars = @ + size, !.refused = FALSE]

\* _add_skill_section: the instructions are clipped to the room that is left.
AddSkill(acc, sk) ==
  LET room == SkillBudget - acc.chars - SkillOverhead[sk]
      size == SkillOverhead[sk] + (IF SkillLength[sk] < room THEN SkillLength[sk] ELSE room)
  IN IF room <= 0 THEN [acc EXCEPT !.refused = TRUE]
     ELSE [acc EXCEPT !.sections = Append(@, [skill |-> sk, size |-> size]),
                      !.chars = @ + size + 1, !.refused = FALSE]

\* The skills named by id, until one is refused; an id may be named twice.
AddNamed(acc, sk) ==
  IF acc.refused THEN acc ELSE AddSkill([acc EXCEPT !.seen = @ \cup {sk}], sk)

\* The skills of one tag that have not been seen, until one is refused.
AddTagged(acc, sk) ==
  IF acc.refused \/ sk \in acc.seen THEN acc
  ELSE AddSkill([acc EXCEPT !.seen = @ \cup {sk}], sk)

\* The next tag is tried even when a skill of the last one was refused.
AddTag(acc, tagged) ==
  IF acc.chars >= SkillBudget THEN acc
  ELSE FoldLeft(AddTagged, [acc EXCEPT !.refused = FALSE], tagged)

SkillSections(s) ==
  FoldLeft(AddTag, FoldLeft(AddNamed, NoSections, s.skills), s.tagged).sections

\* The characters of the sections joined with a newline.
Joined(sections) ==
  FoldLeft(LAMBDA n, section : n + section.size, 0, sections)
    + (IF sections = <<>> THEN 0 ELSE Len(sections) - 1)

-----------------------------------------------------------------------------
(* Properties *)

\* A call the model was offered is executed by a tool that has a definition of
\* that name: never by a server that does not list it, by a disabled custom tool,
\* or by nobody.  With several owners of a name it is one of them.  And although
\* the allow lists of all servers are flattened into one set, a call our own loops
\* dispatch to a server is one that this server's own allow list permits, also
\* when servers share a tool's or a server's name.
OffersAreHonest ==
  \A t \in Offered(setup) :
    LET owner == Dispatch(setup, t) IN
    /\ owner \in Owners(setup, t) \cup (IF t = StoreMemory THEN {BuiltIn} ELSE {})
    /\ owner.by = "mcp" => Permits(Connected(setup)[owner.k], t)

\* The skills in the prompt stay within their budget, and a skill appears twice
\* only if the workflow names it twice.
SkillsFit ==
  LET sections == SkillSections(setup)
      times(q, sk) == Cardinality({i \in DOMAIN q : q[i] = sk})
  IN /\ Joined(sections) <= SkillBudget
     /\ \A sk \in Skill :
          LET n == Cardinality({i \in DOMAIN sections : sections[i].skill = sk})
          IN n <= 1 \/ n <= times(setup.skills, sk)

-----------------------------------------------------------------------------
SetupInit == setup \in Inputs
=============================================================================
