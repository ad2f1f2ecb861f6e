----------------------------- MODULE ChatStart -----------------------------
(***************************************************************************)
(* POST /api/chat/start: the chat workflow of a user and an agent is looked *)
(* up and, when there is none, created.  It is a workflow like any other:   *)
(* it runs (WorkflowRun), is edited and deleted, and the user may create    *)
(* more workflows for the agent.                                            *)
(***************************************************************************)
EXTENDS Naturals, FiniteSets

CONSTANTS
  Starter,   \* requests to start a chat, of one user and for one agent
  ChatWf     \* ids of workflows of that user and agent

VARIABLES
  chatWf,    \* [ChatWf -> its status, or that it does not match for another reason]
  starters,  \* [Starter -> what the request is doing and what it answered]
  disturbed  \* history: something happened that may part the user's chats

startVars == <<chatWf, starters, disturbed>>

ChatStartTypeOK ==
  /\ chatWf \in [ChatWf -> {"none", "active", "running", "other", "deleted"}]
  /\ starters \in [Starter -> [pc : {"idle", "insert", "answered", "cut"}, answer : SUBSET ChatWf]]
  /\ disturbed \in BOOLEAN

ChatStartInit ==
  /\ chatWf = [c \in ChatWf |-> "none"]
  /\ starters = [a \in Starter |-> [pc |-> "idle", answer |-> {}]]
  /\ disturbed = FALSE

Answer(a, pc, answer) == starters' = [starters EXCEPT ![a] = [pc |-> pc, answer |-> answer]]

Starting == {a \in Starter : starters[a].pc = "insert"}

\* An ACTIVE workflow of the user and the agent with an infinite session; the
\* title is not looked at.
FoundActive == {c \in ChatWf : chatWf[c] = "active"}

\* Mutant: the workflow is created without looking for one.
LookUpNothing(a) ==
  /\ starters[a].pc = "idle"
  /\ Answer(a, "insert", {})
  /\ disturbed' = (disturbed \/ Starting # {} \/ \E c \in ChatWf : chatWf[c] = "running")
  /\ UNCHANGED chatWf

\* find_one: any that matches, as neither database is told an order.
LookUpChat(a) ==
  /\ starters[a].pc = "idle"
  /\ IF FoundActive = {} THEN Answer(a, "insert", {})
     ELSE \E c \in FoundActive : Answer(a, "answered", {c})
  /\ disturbed' = (disturbed \/ Starting # {} \/ \E c \in ChatWf : chatWf[c] = "running")
  /\ UNCHANGED chatWf

InsertChat(a) ==
  /\ starters[a].pc = "insert"
  /\ \E c \in ChatWf :
       /\ chatWf[c] = "none"
       /\ chatWf' = [chatWf EXCEPT ![c] = "active"]
       /\ Answer(a, "answered", {c})
  /\ UNCHANGED disturbed

CutStart(a) ==
  /\ starters[a].pc = "insert"
  /\ Answer(a, "cut", {})
  /\ UNCHANGED <<chatWf, disturbed>>

\* A prompt is executed, and done.
ChatRuns(c) ==
  /\ \/ chatWf[c] = "active" /\ chatWf' = [chatWf EXCEPT ![c] = "running"]
     \/ chatWf[c] = "running" /\ chatWf' = [chatWf EXCEPT ![c] = "active"]
  /\ UNCHANGED <<starters, disturbed>>

\* The user creates a workflow, with an infinite session by default; edits one
\* so that it does or does not match; deletes one.
OwnWorkflow(c) ==
  /\ \/ chatWf[c] = "none" /\ chatWf' = [chatWf EXCEPT ![c] = "active"]
     \/ chatWf[c] = "active" /\ \E s \in {"other", "deleted"} : chatWf' = [chatWf EXCEPT ![c] = s]
     \/ chatWf[c] = "other" /\ chatWf' = [chatWf EXCEPT ![c] = "active"]
  /\ disturbed' = TRUE
  /\ UNCHANGED starters

ChatStartNext ==
  \/ \E a \in Starter : LookUpChat(a) \/ InsertChat(a) \/ CutStart(a)
  \/ \E c \in ChatWf : ChatRuns(c) \/ OwnWorkflow(c)

ChatStartSpec == ChatStartInit /\ [][ChatStartNext]_startVars

-----------------------------------------------------------------------------
(* Properties *)

Answers == UNION {starters[a].answer : a \in Starter}

\* A user has one persistent chat with an agent: all starts give the same
\* workflow, as long as no two of them overlap, none comes while a prompt is
\* being executed in the chat, and the user neither creates workflows for the
\* agent nor edits or deletes the chat.  A request that is cut leaves nothing
\* behind.
OneChat ==
  ~disturbed => /\ Cardinality(Answers) <= 1
                /\ {c \in ChatWf : chatWf[c] # "none"} = Answers
=============================================================================
