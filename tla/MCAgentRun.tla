---------------------------- MODULE MCAgentRun ----------------------------
(* The instance of AgentRun for TLC. *)
EXTENDS AgentRun

Limits == {0, 1, 2, 3}

\* a is long, b fits beside a clipped one, c has hardly any instructions.
Overheads == ("a" :> 2) @@ ("b" :> 3) @@ ("c" :> 1)
Lengths == ("a" :> 5) @@ ("b" :> 2) @@ ("c" :> 1)

\* Up to two servers with every combination of documents and live tools, and
\* up to two custom tools; or every list of skills by id and by two tags.
McpServers == UNION {[1..n -> McpServer] : n \in 0..2}
CustomTools == [1..2 -> CustomTool]
OneCustomTool == UNION {[1..n -> CustomTool] : n \in 0..1}
SkillLists == {<<>>, <<"a">>, <<"b", "a">>, <<"c", "b">>, <<"a", "c", "b">>, <<"c", "c">>}

Given(p, ms, cs, sk, tg) ==
  [provider |-> p, servers |-> ms, customs |-> cs, skills |-> sk, tagged |-> tg]

SetupInputs ==
  {Given(p, <<>>, <<>>, <<>>, <<>>) : p \in Providers}
    \cup {Given(p, ms, cs, <<>>, <<>>) :
            p \in {"openai", "anthropic"}, ms \in McpServers, cs \in OneCustomTool}
    \cup {Given("gateway", ms, cs, <<>>, <<>>) : ms \in [1..1 -> McpServer], cs \in CustomTools}
    \cup {Given("openai", <<>>, <<>>, sk, <<t1, t2>>) :
            sk \in SkillLists, t1 \in SkillLists, t2 \in SkillLists}
=============================================================================
