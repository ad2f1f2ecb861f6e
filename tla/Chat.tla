-------------------------------- MODULE Chat --------------------------------
(***************************************************************************)
(* Chat sessions: POST /api/agents/{id}/chat streams a turn (handle_chat), *)
(* DELETE removes a session and its messages.  A turn loads the session    *)
(* document once, counts in its own copy and saves the copy whole, twice;  *)
(* a save of a document that is gone stores it again.  The client may go   *)
(* away, the model or the database may fail, and nothing keeps two turns   *)
(* of a session, or a turn and a deletion, apart.                          *)
(***************************************************************************)
EXTENDS Naturals, FiniteSets, Sequences

CONSTANTS
  Session,    \* ids of chat sessions
  Turn,       \* requests to chat
  Deleter,    \* requests to delete a session
  Window      \* _CONVERSATION_WINDOW

ASSUME WindowIsPositive == Window \in Nat \ {0}

VARIABLES
  sessions,    \* [Session -> the document, and whether it is stored]
  messages,    \* [Session -> its message documents, in the order of created_at]
  turns,       \* [Turn -> what the request is doing]
  deleters,    \* [Deleter -> what the request is doing]
  disordered,  \* history: sessions with turns that overlapped, or one cut in a save
  crossed,     \* history: sessions with a deletion that overlapped a turn
  halfDeleted  \* history: sessions of which a deletion has begun

chatVars == <<sessions, messages, turns, deleters, disordered, crossed, halfDeleted>>

-----------------------------------------------------------------------------
(* Documents and requests *)

Unsaved == [stored |-> FALSE, count |-> 0]

ChatMessage == [session : Session, turn : Turn, role : {"user", "assistant"}]
ChatMsg(s, t, role) == [session |-> s, turn |-> t, role |-> role]

MessagesOf(s) == messages[s]

TurnPcs == {"idle", "open", "history", "user", "count_user", "stream", "assistant",
            "count_assistant", "over"}

\* on: the session.  count: message_count of the turn's own copy.  sent: the
\* messages to the model.
ChatTurn == [pc : TurnPcs, on : SUBSET Session, count : Nat, sent : Seq(ChatMessage)]
NoTurn == [pc |-> "idle", on |-> {}, count |-> 0, sent |-> <<>>]

ChatTypeOK ==
  /\ sessions \in [Session -> [stored : BOOLEAN, count : Nat]]
  /\ messages \in [Session -> Seq(ChatMessage)]
  /\ turns \in [Turn -> ChatTurn]
  /\ deleters \in [Deleter -> [pc : {"idle", "messages", "session", "done", "cut"}, on : SUBSET Session]]
  /\ {disordered, crossed, halfDeleted} \subseteq SUBSET Session

ChatInit ==
  /\ sessions = [s \in Session |-> Unsaved]
  /\ messages = [s \in Session |-> <<>>]
  /\ turns = [t \in Turn |-> NoTurn]
  /\ deleters = [d \in Deleter |-> [pc |-> "idle", on |-> {}]]
  /\ disordered = {} /\ crossed = {} /\ halfDeleted = {}

TurnsOn(s) == {t \in Turn : s \in turns[t].on /\ turns[t].pc \notin {"idle", "over"}}
DeletersOn(s) == {d \in Deleter : s \in deleters[d].on /\ deleters[d].pc \in {"messages", "session"}}

OnlyTurns == UNCHANGED <<deleters, crossed, halfDeleted>>

-----------------------------------------------------------------------------
(* A turn *)

\* chat: the session is loaded, or created when the request names none.
StartTurn(t, s) ==
  /\ turns[t].pc = "idle"
  /\ \/ /\ sessions[s].stored
        /\ UNCHANGED sessions
     \/ /\ ~sessions[s].stored /\ s \notin halfDeleted
        /\ \A x \in Turn : s \notin turns[x].on
        /\ sessions' = [sessions EXCEPT ![s].stored = TRUE]
  /\ turns' = [turns EXCEPT ![t] = [NoTurn EXCEPT !.pc = "open", !.on = {s},
                                                  !.count = sessions[s].count]]
  /\ disordered' = IF TurnsOn(s) # {} THEN disordered \cup {s} ELSE disordered
  /\ crossed' = IF DeletersOn(s) # {} THEN crossed \cup {s} ELSE crossed
  /\ UNCHANGED <<messages, deleters, halfDeleted>>

\* What a turn that is over has sent and counted matters no more.
Turned(t, pc) ==
  turns' = [turns EXCEPT ![t] = IF pc = "over" THEN [NoTurn EXCEPT !.pc = pc, !.on = turns[t].on]
                                ELSE [@ EXCEPT !.pc = pc]]

\* The session event, then the provider and the system prompt: without a key
\* the turn ends here, and so it does when the client is gone.
OpenTurn(t) ==
  /\ turns[t].pc = "open"
  /\ \E pc \in {"history", "over"} : Turned(t, pc)
  /\ UNCHANGED <<sessions, messages, disordered>> /\ OnlyTurns

LastOf(seq, n) == SubSeq(seq, IF Len(seq) > n THEN Len(seq) - n + 1 ELSE 1, Len(seq))

\* The most recent messages, before the new one is stored.
LoadHistory(t) ==
  /\ turns[t].pc = "history"
  /\ \E s \in turns[t].on :
       turns' = [turns EXCEPT ![t].pc = "user", ![t].sent = LastOf(MessagesOf(s), Window)]
  /\ UNCHANGED <<sessions, messages, disordered>> /\ OnlyTurns

\* Mutant: the history is read after the message was stored.
InsertUserThenLoad(t) ==
  /\ turns[t].pc = "user"
  /\ \E s \in turns[t].on :
       /\ messages' = [messages EXCEPT ![s] = Append(@, ChatMsg(s, t, "user"))]
       /\ turns' = [turns EXCEPT ![t].pc = "count_user",
            ![t].sent = LastOf(Append(MessagesOf(s), ChatMsg(s, t, "user")), Window)
                          \o <<ChatMsg(s, t, "user")>>]
  /\ UNCHANGED <<sessions, disordered>> /\ OnlyTurns

\* The user's message is stored, and sent after the history.
InsertUser(t) ==
  /\ turns[t].pc = "user"
  /\ \E s \in turns[t].on :
       /\ messages' = [messages EXCEPT ![s] = Append(@, ChatMsg(s, t, "user"))]
       /\ turns' = [turns EXCEPT ![t].pc = "count_user",
                                 ![t].sent = Append(@, ChatMsg(s, t, "user"))]
  /\ UNCHANGED <<sessions, disordered>> /\ OnlyTurns

\* The copy is counted up and saved whole.
SaveCount(t, next) ==
  /\ turns' = [turns EXCEPT ![t].pc = next, ![t].count = IF next = "over" THEN 0 ELSE @ + 1,
                            ![t].sent = IF next = "over" THEN <<>> ELSE @]
  /\ sessions' = [s \in Session |->
       IF s \in turns[t].on THEN [stored |-> TRUE, count |-> turns[t].count + 1]
       ELSE sessions[s]]
  /\ UNCHANGED <<messages, disordered>> /\ OnlyTurns

\* A provider without a usable URL ends the turn.
CountUser(t) ==
  /\ turns[t].pc = "count_user"
  /\ \E next \in {"stream", "over"} : SaveCount(t, next)

\* The answer has been streamed; or the model failed or the client has gone
\* away, and what was streamed is dropped.
StreamAnswer(t) ==
  /\ turns[t].pc = "stream"
  /\ \E pc \in {"assistant", "over"} :
       turns' = [turns EXCEPT ![t].pc = pc, ![t].sent = <<>>,
                              ![t].count = IF pc = "over" THEN 0 ELSE @]
  /\ UNCHANGED <<sessions, messages, disordered>> /\ OnlyTurns

InsertAssistant(t) ==
  /\ turns[t].pc = "assistant"
  /\ \E s \in turns[t].on :
       messages' = [messages EXCEPT ![s] = Append(@, ChatMsg(s, t, "assistant"))]
  /\ Turned(t, "count_assistant")
  /\ UNCHANGED <<sessions, disordered>> /\ OnlyTurns

\* Mutant: the user's message is counted again.
CountAssistantTwice(t) ==
  /\ turns[t].pc = "count_assistant"
  /\ turns' = [turns EXCEPT ![t].pc = "over", ![t].count = @ + 2]
  /\ sessions' = [s \in Session |->
       IF s \in turns[t].on THEN [stored |-> TRUE, count |-> turns[t].count + 2]
       ELSE sessions[s]]
  /\ UNCHANGED <<messages, disordered>> /\ OnlyTurns

CountAssistant(t) == turns[t].pc = "count_assistant" /\ SaveCount(t, "over")

\* The database fails, or the request is cancelled, at any await.
CutTurn(t) ==
  /\ turns[t].pc \in {"history", "user", "count_user", "assistant", "count_assistant"}
  /\ Turned(t, "over")
  /\ disordered' = IF turns[t].pc \in {"count_user", "count_assistant"}
                   THEN disordered \cup turns[t].on ELSE disordered
  /\ UNCHANGED <<sessions, messages>> /\ OnlyTurns

-----------------------------------------------------------------------------
(* Deleting a session *)

Deleting(d, pc) == deleters' = [deleters EXCEPT ![d].pc = pc]

StartDelete(d, s) ==
  /\ deleters[d].pc = "idle"
  /\ sessions[s].stored
  /\ deleters' = [deleters EXCEPT ![d] = [pc |-> "messages", on |-> {s}]]
  /\ halfDeleted' = halfDeleted \cup {s}
  /\ crossed' = IF TurnsOn(s) # {} THEN crossed \cup {s} ELSE crossed
  /\ UNCHANGED <<sessions, messages, turns, disordered>>

\* Mutant: the session goes first.
DeleteSessionFirst(d) ==
  /\ deleters[d].pc = "messages"
  /\ sessions' = [s \in Session |-> IF s \in deleters[d].on THEN Unsaved ELSE sessions[s]]
  /\ Deleting(d, "session")
  /\ UNCHANGED <<messages, turns, disordered, crossed, halfDeleted>>

\* The messages go first, ...
DeleteMessages(d) ==
  /\ deleters[d].pc = "messages"
  /\ messages' = [s \in Session |-> IF s \in deleters[d].on THEN <<>> ELSE messages[s]]
  /\ Deleting(d, "session")
  /\ UNCHANGED <<sessions, turns, disordered, crossed, halfDeleted>>

\* ... then the session.
DeleteSession(d) ==
  /\ deleters[d].pc = "session"
  /\ sessions' = [s \in Session |-> IF s \in deleters[d].on THEN Unsaved ELSE sessions[s]]
  /\ Deleting(d, "done")
  /\ UNCHANGED <<messages, turns, disordered, crossed, halfDeleted>>

CutDelete(d) ==
  /\ deleters[d].pc \in {"messages", "session"}
  /\ Deleting(d, "cut")
  /\ UNCHANGED <<sessions, messages, turns, disordered, crossed, halfDeleted>>

ChatNext ==
  \/ \E t \in Turn :
       \/ \E s \in Session : StartTurn(t, s)
       \/ OpenTurn(t) \/ LoadHistory(t) \/ InsertUser(t) \/ CountUser(t)
       \/ StreamAnswer(t) \/ InsertAssistant(t) \/ CountAssistant(t) \/ CutTurn(t)
  \/ \E d \in Deleter :
       \/ \E s \in Session : StartDelete(d, s)
       \/ DeleteMessages(d) \/ DeleteSession(d) \/ CutDelete(d)

ChatSpec == ChatInit /\ [][ChatNext]_chatVars

-----------------------------------------------------------------------------
(* Properties *)

\* Until somebody deletes a session, its message_count never claims more
\* messages than there are, whatever turns overlap; and it is exact, but for a
\* message whose save is still to come, when turns follow one another and none
\* was cut between storing a message and counting it.
CountIsHonest ==
  \A s \in Session :
    sessions[s].stored /\ s \notin halfDeleted =>
      /\ sessions[s].count <= Len(MessagesOf(s))
      /\ s \notin disordered =>
           Len(MessagesOf(s)) = sessions[s].count
             + Cardinality({t \in TurnsOn(s) : turns[t].pc \in {"count_user", "count_assistant"}})

\* What the model is sent ends with the message of this turn and has it once;
\* when no other turn overlaps it is the end of the stored conversation, in
\* order and without a gap.
PromptIsTheConversation ==
  \A t \in Turn :
    turns[t].pc = "stream" =>
      \A s \in turns[t].on :
        LET sent == turns[t].sent
        IN /\ \A i \in DOMAIN sent : sent[i].turn = t <=> i = Len(sent)
           /\ s \notin disordered \cup halfDeleted =>
                sent = LastOf(MessagesOf(s), Window + 1)

\* A deletion may be cut at any point and leaves no message without its
\* session, and a session whose deletion came to its end is never stored
\* again: unless a turn overlapped the deletion.
DeletionLeavesNothing ==
  \A s \in Session \ crossed :
    /\ ~sessions[s].stored => MessagesOf(s) = <<>>
    /\ sessions[s].stored => \A d \in Deleter : s \in deleters[d].on => deleters[d].pc # "done"
=============================================================================
