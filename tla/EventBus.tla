------------------------------ MODULE EventBus ------------------------------
(***************************************************************************)
(* The events of one workflow: the processes that publish them, the Redis  *)
(* keys they pass through, the server side of one SSE stream, and the      *)
(* client behind it, which reconnects with the id of the last event it got.*)
(*                                                                         *)
(* "log" remembers the id of every event ever stored, in the order of the  *)
(* MULTI/EXEC pipelines that publish and store it.  The history list and   *)
(* the messages that wait in a subscription are then intervals of it: what *)
(* has not been dropped, and what has been published since "next".         *)
(***************************************************************************)
EXTENDS Naturals, Sequences

CONSTANTS
  Publisher,     \* coroutines and processes that publish for this workflow
  HistoryMax,    \* _HISTORY_MAX_LEN: how many events the history retains
  KeysExpire,    \* whether five quiet minutes pass (_HISTORY_TTL)
  MaxEvents,     \* bound: how many events are stored
  MaxFaults,     \* bound: how many calls to Redis fail in a publisher
  MaxDrops       \* bound: how many connections the client loses

ASSUME HistoryHolds == HistoryMax \in Nat \ {0}
ASSUME EventBoundsAreNaturals == MaxEvents \in Nat /\ MaxFaults \in Nat /\ MaxDrops \in Nat
ASSUME KeysExpireIsBoolean == KeysExpire \in BOOLEAN

VARIABLES
  counter,     \* the event id counter, 0 when the key is absent
  log,         \* the ids of all events stored, in order
  dropped,     \* how many of them are no longer in the history
  publisher,   \* each call of publish
  stream,      \* the generator that serves the client
  lastId,      \* the client's Last-Event-ID, 0 before its first event
  have,        \* the events (places in the log) the client has received
  got,         \* those of the present connection, in order of arrival
  faults,      \* number of failed calls so far
  drops        \* number of lost connections so far

redis == <<counter, log, dropped>>
client == <<lastId, have, got>>
ebvars == <<counter, log, dropped, publisher, stream, lastId, have, got, faults, drops>>

PublisherPc == {"idle", "retry", "store"}
PublisherMem == [pc : PublisherPc, id : Nat, second : BOOLEAN]
IdlePublisher == [pc |-> "idle", id |-> 0, second |-> FALSE]

StreamPc == {"closed", "read", "replay", "live"}
StreamMem == [pc : StreamPc, next : Nat, todo : SUBSET Nat, seen : Nat]
ClosedStream == [pc |-> "closed", next |-> 0, todo |-> {}, seen |-> 0]

History == (dropped + 1) .. Len(log)

\* The history list never exceeds its cap, and everything the client has or is
\* about to get was stored.
TypeOK ==
  /\ counter \in Nat
  /\ log \in Seq(Nat \ {0})
  /\ dropped \in 0 .. Len(log) /\ Len(log) - dropped <= HistoryMax
  /\ publisher \in [Publisher -> PublisherMem]
  /\ stream \in StreamMem
  /\ stream.todo \subseteq 1 .. Len(log) /\ stream.next <= Len(log) + 1
  /\ lastId \in Nat
  /\ have \subseteq 1 .. Len(log)
  /\ got \in Seq(have)
  /\ faults \in Nat
  /\ drops \in Nat

EventBusInit ==
  /\ counter = 0
  /\ log = << >>
  /\ dropped = 0
  /\ publisher = [p \in Publisher |-> IdlePublisher]
  /\ stream = ClosedStream
  /\ lastId = 0
  /\ have = {}
  /\ got = << >>
  /\ faults = 0
  /\ drops = 0

-----------------------------------------------------------------------------
(* publish *)

\* INCR of the counter.
Draw(p) ==
  /\ publisher[p].pc \in {"idle", "retry"}
  /\ Len(log) < MaxEvents
  /\ counter' = counter + 1
  /\ publisher' = [publisher EXCEPT ![p].pc = "store", ![p].id = counter']
  /\ UNCHANGED <<log, dropped, stream, client, faults, drops>>

\* Mutant: RPUSH without LTRIM.
AppendedUntrimmed(id) ==
  /\ log' = Append(log, id)
  /\ dropped' = dropped

\* PUBLISH, RPUSH and LTRIM, in one transaction.
Appended(id) ==
  /\ log' = Append(log, id)
  /\ dropped' = IF Len(log') - dropped > HistoryMax THEN Len(log') - HistoryMax ELSE dropped

\* A subscriber that is about to read the history does so before HistoryMax
\* events (500) have been stored.
ReaderKeepsUp == stream.pc = "read" => Len(log) < stream.next + HistoryMax - 1

Store(p) ==
  /\ publisher[p].pc = "store"
  /\ Len(log) < MaxEvents /\ ReaderKeepsUp
  /\ Appended(publisher[p].id)
  /\ publisher' = [publisher EXCEPT ![p] = IdlePublisher]
  /\ UNCHANGED <<counter, stream, client, faults, drops>>

\* A call fails, and publish goes round its loop once more or gives up.
Failed(p) ==
  /\ faults < MaxFaults
  /\ faults' = faults + 1
  /\ publisher' = [publisher EXCEPT ![p] =
       IF publisher[p].second THEN IdlePublisher
                              ELSE [pc |-> "retry", id |-> 0, second |-> TRUE]]

\* The request or its answer was lost: INCR may have happened.
DrawFails(p) ==
  /\ publisher[p].pc \in {"idle", "retry"}
  /\ counter' \in {counter, counter + 1}
  /\ Failed(p)
  /\ UNCHANGED <<log, dropped, stream, client, drops>>

\* Likewise the transaction: the event is stored again by the second attempt.
StoreFails(p) ==
  /\ publisher[p].pc = "store"
  /\ \/ UNCHANGED <<log, dropped>>
     \/ Len(log) < MaxEvents /\ ReaderKeepsUp /\ Appended(publisher[p].id)
  /\ Failed(p)
  /\ UNCHANGED <<counter, stream, client, drops>>

\* The keys' TTL is five minutes: nobody is in the middle of a call by then.
Quiet == KeysExpire /\ (\A p \in Publisher : publisher[p].pc = "idle") /\ stream.pc # "read"

ExpireCounter ==
  /\ Quiet /\ counter # 0
  /\ counter' = 0
  /\ UNCHANGED <<log, dropped, publisher, stream, client, faults, drops>>

ExpireHistory ==
  /\ Quiet /\ dropped < Len(log)
  /\ dropped' = Len(log)
  /\ UNCHANGED <<counter, log, publisher, stream, client, faults, drops>>

-----------------------------------------------------------------------------
(* stream_workflow and subscribe *)

\* Mutant: the client's Last-Event-ID is not passed on.
ConnectFresh ==
  /\ stream.pc = "closed"
  /\ stream' = [ClosedStream EXCEPT !.pc = "live", !.next = Len(log) + 1]
  /\ UNCHANGED <<redis, publisher, client, faults, drops>>

\* The channel is subscribed before the history is read.  A client that has no
\* event id yet is sent live events only.
Connect ==
  /\ stream.pc = "closed"
  /\ stream' = [ClosedStream EXCEPT !.pc = IF lastId = 0 THEN "live" ELSE "read",
                                    !.next = Len(log) + 1]
  /\ UNCHANGED <<redis, publisher, client, faults, drops>>

\* get_events_since
ReadHistory ==
  /\ stream.pc = "read"
  /\ stream' = [stream EXCEPT !.pc = "replay", !.todo = {n \in History : log[n] > lastId}]
  /\ UNCHANGED <<redis, publisher, client, faults, drops>>

\* The client receives event n, and with it its id.
Deliver(n) ==
  /\ lastId' = log[n]
  /\ have' = have \cup {n}
  /\ got' = Append(got, n)

Replay ==
  /\ stream.pc = "replay"
  /\ \E n \in stream.todo :
       /\ \A k \in stream.todo : n <= k
       /\ Deliver(n)
       /\ stream' = [stream EXCEPT !.todo = @ \ {n},
                       !.seen = IF log[n] > @ THEN log[n] ELSE @]
  /\ UNCHANGED <<redis, publisher, faults, drops>>

\* Mutant: the channel is subscribed when the replay is over.
GoLiveSubscribing ==
  /\ stream.pc = "replay" /\ stream.todo = {}
  /\ stream' = [stream EXCEPT !.pc = "live", !.next = Len(log) + 1]
  /\ UNCHANGED <<redis, publisher, client, faults, drops>>

GoLive ==
  /\ stream.pc = "replay" /\ stream.todo = {}
  /\ stream' = [stream EXCEPT !.pc = "live"]
  /\ UNCHANGED <<redis, publisher, client, faults, drops>>

\* Mutant: nothing is compared with what was replayed.
ReplayedNever(n) == FALSE

\* A live event that is taken for one that was replayed.
Replayed(n) == stream.seen # 0 /\ log[n] <= stream.seen

\* The next message of the subscription, which ends deduplication if it is new.
Live ==
  /\ stream.pc = "live" /\ stream.next <= Len(log)
  /\ IF Replayed(stream.next)
     THEN /\ stream' = [stream EXCEPT !.next = @ + 1]
          /\ UNCHANGED client
     ELSE /\ stream' = [stream EXCEPT !.next = @ + 1, !.seen = 0]
          /\ Deliver(stream.next)
  /\ UNCHANGED <<redis, publisher, faults, drops>>

\* The connection is lost; the client keeps its Last-Event-ID.
Disconnect ==
  /\ stream.pc # "closed"
  /\ drops < MaxDrops
  /\ drops' = drops + 1
  /\ stream' = ClosedStream
  /\ got' = << >>
  /\ UNCHANGED <<redis, publisher, lastId, have, faults>>

-----------------------------------------------------------------------------

Publish(p) == Draw(p) \/ Store(p) \/ DrawFails(p) \/ StoreFails(p)
Serve == Connect \/ ReadHistory \/ Replay \/ GoLive \/ Live

EventBusNext ==
  \/ \E p \in Publisher : Publish(p)
  \/ Serve \/ Disconnect
  \/ ExpireCounter \/ ExpireHistory

EventBusSpec == EventBusInit /\ [][EventBusNext]_ebvars

\* The browser reconnects by itself and the server sends what it has.
EventBusFairSpec == EventBusSpec /\ WF_ebvars(Serve)

-----------------------------------------------------------------------------
(* Properties *)

\* "deduplicating any events that arrive in both the replay and the live stream"
\* (event_bus.py 128-129): a connection delivers its events in the order they
\* were stored, and none of them twice, however publishers overtake each other.
InOrder == \A i, j \in 1 .. Len(got) : i < j => got[i] < got[j]

\* Event n was stored after one with an id that is no smaller: publishers drew
\* their ids in another order, or the counter has started again.
Overtaken(n) == \E m \in 1 .. (n - 1) : log[m] >= log[n]

\* The client has received an event that was stored before event n.
Due(n) == \E r \in have : r < n

CaughtUp == stream.pc = "live" /\ stream.next > Len(log)

\* A client that reconnects misses no event that the history still holds, except
\* for events that were overtaken.
OnlyOvertakenIsLost ==
  CaughtUp => \A n \in History : Due(n) => n \in have \/ Overtaken(n)

\* However often connections are lost, such an event reaches the client unless
\* the history drops it first.
DueIsServed ==
  \A n \in 1 .. MaxEvents :
    (n \in History /\ Due(n) /\ ~Overtaken(n)) ~> (n \in have \/ n \notin History)

\* "ensuring no events are lost on reconnection" (event_bus.py 123-124), which
\* the code does not keep.
NothingIsLost ==
  CaughtUp => \A n \in History : Due(n) => n \in have

=============================================================================
