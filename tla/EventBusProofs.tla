--------------------------- MODULE EventBusProofs ---------------------------
(* That a stream keeps the order of its events and loses only events that    *)
(* were overtaken, for any number of publishers, failures, reconnections and *)
(* expiries, and whatever the history retains.                               *)
EXTENDS EventBus, TLAPS

\* Only ids that were drawn are stored.
Drawn == \A p \in Publisher : publisher[p].pc = "store" => publisher[p].id # 0

\* The Last-Event-ID is the id of an event the client has.
Heard ==
  /\ lastId = 0 <=> have = {}
  /\ have # {} => \E j \in have : log[j] = lastId

\* What the generator remembers in each of its phases.
Phases ==
  /\ stream.pc \notin {"replay", "live"} => got = << >> /\ stream.seen = 0
  /\ stream.pc # "replay" => stream.todo = {}
  /\ stream.pc # "closed" => stream.next # 0
  /\ stream.pc = "read" => /\ have # {} /\ \A r \in have : r < stream.next
                           /\ dropped < stream.next
  /\ stream.seen # 0 => \E j \in have : /\ log[j] = stream.seen
                                        /\ \A k \in stream.todo : j < k

\* An event the client should get and has not got.
Wanted(n) == n \in History /\ Due(n) /\ ~Overtaken(n) /\ n \notin have

\* It will be read, replayed or received, and not taken for an old one.
Pending ==
  \A n \in 1 .. Len(log) : Wanted(n) =>
    /\ lastId < log[n]
    /\ stream.seen < log[n]
    /\ stream.pc = "replay" => n \in stream.todo \/ stream.next <= n
    /\ stream.pc = "live" => stream.next <= n

\* What is behind an event that is being replayed will come, and what will come
\* but is not replayed is behind it.
Behind ==
  \A k \in stream.todo, n \in History \ (stream.todo \cup have) :
    /\ k < n /\ log[k] < log[n] => stream.next <= n
    /\ stream.next <= n /\ ~Overtaken(n) => k < n

BusInv == TypeOK /\ Drawn /\ Heard /\ Phases /\ Pending /\ Behind

-----------------------------------------------------------------------------

\* The replay goes on behind what it has delivered.
Ahead == \A i \in 1 .. Len(got), k \in stream.todo : got[i] < k

\* The subscription still holds messages that were replayed, or that were older
\* than the replay: each is recognised by its id.
Recognised ==
  \A n \in stream.next .. Len(log) :
    /\ stream.pc = "replay" /\ n \notin stream.todo
       /\ ((\E k \in stream.todo : n < k) \/ (\E i \in 1 .. Len(got) : n <= got[i]))
       => IF got = << >> THEN \A m \in stream.todo : log[n] < log[m]
                         ELSE log[n] <= stream.seen
    /\ stream.pc = "live" /\ (\E i \in 1 .. Len(got) : n <= got[i]) => Replayed(n)

OrderInv == InOrder /\ Ahead /\ Recognised

-----------------------------------------------------------------------------
(* The steps, by what they change *)

\* Ids are drawn, calls fail, the counter expires: no event is stored or sent.
Aside ==
  /\ counter' \in Nat /\ faults' \in Nat
  /\ UNCHANGED <<log, dropped, stream, lastId, have, got, drops>>
  /\ publisher' \in [Publisher -> PublisherMem] /\ Drawn'

\* An event is stored, and perhaps the oldest of the history dropped.
Stored ==
  /\ counter' \in Nat /\ faults' \in Nat
  /\ \E id \in Nat \ {0} : Appended(id)
  /\ ReaderKeepsUp
  /\ UNCHANGED <<stream, lastId, have, got, drops>>
  /\ publisher' \in [Publisher -> PublisherMem] /\ Drawn'

LEMMA LogGrows ==
  ASSUME TypeOK, NEW id \in Nat \ {0}, Appended(id)
  PROVE  /\ log' \in Seq(Nat \ {0}) /\ Len(log') = Len(log) + 1
         /\ \A n \in 1 .. Len(log) : log'[n] = log[n] /\ log[n] \in Nat \ {0}
         /\ log'[Len(log) + 1] = id
         /\ dropped' \in dropped .. Len(log') /\ Len(log') - dropped' <= HistoryMax
         /\ dropped' = dropped \/ dropped' = Len(log') - HistoryMax
  <1> USE HistoryHolds
  <1>1. log \in Seq(Nat \ {0}) /\ Len(log) \in Nat /\ dropped \in 0 .. Len(log)
    BY DEF TypeOK
  <1>2. log' = Append(log, id)
    BY DEF Appended
  <1>3. /\ log' \in Seq(Nat \ {0}) /\ Len(log') = Len(log) + 1
        /\ \A n \in 1 .. Len(log) : log'[n] = log[n] /\ log[n] \in Nat \ {0}
        /\ log'[Len(log) + 1] = id
    BY <1>1, <1>2
  <1> QED
    BY <1>1, <1>3 DEF Appended, TypeOK

\* A call of publish that goes on, ends or fails.
LEMMA PublisherMoves ==
  ASSUME TypeOK, Drawn, NEW p \in Publisher, NEW m \in PublisherMem,
         m.pc = "store" => m.id # 0, publisher' = [publisher EXCEPT ![p] = m]
  PROVE  publisher' \in [Publisher -> PublisherMem] /\ Drawn'
  BY DEF TypeOK, Drawn

LEMMA FailedMoves ==
  ASSUME TypeOK, Drawn, NEW p \in Publisher, Failed(p)
  PROVE  publisher' \in [Publisher -> PublisherMem] /\ Drawn' /\ faults' \in Nat
  <1>1. IdlePublisher \in PublisherMem /\ IdlePublisher.pc # "store"
    BY DEF IdlePublisher, PublisherMem, PublisherPc
  <1>2. /\ [pc |-> "retry", id |-> 0, second |-> TRUE] \in PublisherMem
        /\ [pc |-> "retry", id |-> 0, second |-> TRUE].pc # "store"
    BY DEF PublisherMem, PublisherPc
  <1>3. faults' \in Nat
    BY DEF Failed, TypeOK
  <1> QED
    BY <1>1, <1>2, <1>3, PublisherMoves DEF Failed

LEMMA PublishShape ==
  ASSUME TypeOK, Drawn, NEW p \in Publisher, Publish(p)
  PROVE  Aside \/ Stored
  <1> USE DEF client, redis
  <1>1. publisher[p] \in PublisherMem /\ counter \in Nat /\ faults \in Nat
    BY DEF TypeOK
  <1>2. CASE Draw(p)
    <2> DEFINE m == [publisher[p] EXCEPT !.pc = "store", !.id = counter']
    <2>1. counter' \in Nat \ {0}
      BY <1>1, <1>2 DEF Draw
    <2>2. m \in PublisherMem /\ m.id # 0
      BY <1>1, <2>1 DEF PublisherMem, PublisherPc
    <2>3. publisher' = [publisher EXCEPT ![p] = m]
      BY <1>2 DEF Draw
    <2> HIDE DEF m
    <2>4. publisher' \in [Publisher -> PublisherMem] /\ Drawn'
      BY <2>2, <2>3, PublisherMoves
    <2> QED
      BY <1>1, <1>2, <2>1, <2>4 DEF Draw, Aside
  <1>3. CASE Store(p)
    <2>1. IdlePublisher \in PublisherMem /\ IdlePublisher.pc # "store"
      BY DEF IdlePublisher, PublisherMem, PublisherPc
    <2>2. publisher' \in [Publisher -> PublisherMem] /\ Drawn'
      BY <1>3, <2>1, PublisherMoves DEF Store
    <2>3. publisher[p].id \in Nat \ {0}
      BY <1>1, <1>3 DEF Store, Drawn, PublisherMem
    <2> QED
      BY <1>1, <1>3, <2>2, <2>3 DEF Store, Stored
  <1>4. CASE DrawFails(p)
    <2>1. publisher' \in [Publisher -> PublisherMem] /\ Drawn' /\ faults' \in Nat
      BY <1>4, FailedMoves DEF DrawFails
    <2> QED
      BY <1>1, <1>4, <2>1 DEF DrawFails, Aside
  <1>5. CASE StoreFails(p)
    <2>1. publisher' \in [Publisher -> PublisherMem] /\ Drawn' /\ faults' \in Nat
      BY <1>5, FailedMoves DEF StoreFails
    <2>2. publisher[p].id \in Nat \ {0}
      BY <1>1, <1>5 DEF StoreFails, Drawn, PublisherMem
    <2> QED
      BY <1>1, <1>5, <2>1, <2>2 DEF StoreFails, Aside, Stored
  <1> QED
    BY <1>2, <1>3, <1>4, <1>5 DEF Publish

LEMMA ExpireCounterShape ==
  ASSUME TypeOK, Drawn, ExpireCounter
  PROVE  Aside
  BY DEF ExpireCounter, Aside, TypeOK, client, Drawn

-----------------------------------------------------------------------------
(* Each of them preserves the invariant *)

\* What the type invariant says of the log, in the form the steps use it.
LEMMA Facts ==
  ASSUME TypeOK
  PROVE  /\ Len(log) \in Nat /\ dropped \in 0 .. Len(log)
         /\ \A n \in 1 .. Len(log) : log[n] \in Nat \ {0}
         /\ stream \in StreamMem /\ stream.pc \in StreamPc /\ stream.seen \in Nat
         /\ stream.next \in Nat /\ stream.next <= Len(log) + 1
         /\ stream.todo \subseteq 1 .. Len(log)
         /\ have \subseteq 1 .. Len(log) /\ lastId \in Nat
         /\ got \in Seq(have) /\ Len(got) \in Nat
         /\ \A i \in 1 .. Len(got) : got[i] \in have /\ got[i] \in Nat
  <1>1. /\ Len(log) \in Nat /\ dropped \in 0 .. Len(log)
        /\ \A n \in 1 .. Len(log) : log[n] \in Nat \ {0}
        /\ stream \in StreamMem /\ stream.pc \in StreamPc /\ stream.seen \in Nat
        /\ stream.next \in Nat /\ stream.next <= Len(log) + 1
        /\ stream.todo \subseteq 1 .. Len(log)
        /\ have \subseteq 1 .. Len(log) /\ lastId \in Nat
        /\ got \in Seq(have) /\ Len(got) \in Nat
    BY DEF TypeOK, StreamMem
  <1>2. \A i \in 1 .. Len(got) : got[i] \in have
    BY <1>1
  <1>3. \A r \in have : r \in Nat
    BY <1>1
  <1> QED
    BY <1>1, <1>2, <1>3

LEMMA AsideKeeps ==
  ASSUME BusInv, Aside
  PROVE  BusInv'
  <1>1. TypeOK'
    BY DEF BusInv, Aside, TypeOK
  <1>2. Heard' /\ Phases'
    BY DEF BusInv, Aside, Heard, Phases
  <1>3. Pending'
    BY DEF BusInv, Aside, Pending, Wanted, History, Due, Overtaken
  <1>4. Behind'
    BY DEF BusInv, Aside, Behind, History, Overtaken
  <1> QED
    BY <1>1, <1>2, <1>3, <1>4 DEF BusInv, Aside

LEMMA StoredKeeps ==
  ASSUME BusInv, Stored
  PROVE  BusInv'
  <1> USE HistoryHolds
  <1>1. PICK id \in Nat \ {0} : Appended(id)
    BY DEF Stored
  <1>2. /\ log' \in Seq(Nat \ {0}) /\ Len(log') = Len(log) + 1
        /\ \A n \in 1 .. Len(log) : log'[n] = log[n] /\ log[n] \in Nat \ {0}
        /\ log'[Len(log) + 1] = id
        /\ dropped' \in dropped .. Len(log') /\ Len(log') - dropped' <= HistoryMax
        /\ dropped' = dropped \/ dropped' = Len(log') - HistoryMax
    BY <1>1, LogGrows DEF BusInv
  <1>3. /\ UNCHANGED <<stream, lastId, have, got, drops>>
        /\ counter' \in Nat /\ faults' \in Nat /\ publisher' \in [Publisher -> PublisherMem]
        /\ Drawn' /\ ReaderKeepsUp
    BY DEF Stored
  <1>4. /\ Len(log) \in Nat /\ dropped \in 0 .. Len(log)
        /\ stream.seen \in Nat /\ stream.next \in Nat /\ stream.next <= Len(log) + 1
        /\ stream.todo \subseteq 1 .. Len(log) /\ have \subseteq 1 .. Len(log)
    BY Facts DEF BusInv
  <1>5. TypeOK'
    <2>1. log' \in Seq(Nat \ {0}) /\ dropped' \in 0 .. Len(log') /\ Len(log') - dropped' <= HistoryMax
      BY <1>2, <1>4
    <2>2. /\ stream'.todo \subseteq 1 .. Len(log') /\ stream'.next <= Len(log') + 1
          /\ have' \subseteq 1 .. Len(log')
      BY <1>2, <1>3, <1>4
    <2>3. stream' \in StreamMem /\ lastId' \in Nat /\ got' \in Seq(have') /\ drops' \in Nat
      BY <1>3 DEF BusInv, TypeOK
    <2> QED
      BY <1>3, <2>1, <2>2, <2>3 DEF TypeOK
  <1>6. Heard'
    BY <1>2, <1>3, <1>4 DEF BusInv, Heard
  <1>7. Phases'
    <2>1. stream.pc = "read" => dropped' < stream.next
      BY <1>2, <1>3, <1>4 DEF BusInv, Phases, ReaderKeepsUp
    <2>2. stream.seen # 0 => \E j \in have : /\ log'[j] = stream.seen
                                             /\ \A k \in stream.todo : j < k
      BY <1>2, <1>4 DEF BusInv, Phases
    <2> QED
      BY <1>3, <2>1, <2>2 DEF BusInv, Phases
  <1>8. \A n \in 1 .. Len(log) : /\ Overtaken(n)' <=> Overtaken(n)
                                 /\ n \in History' => n \in History
                                 /\ Due(n)' <=> Due(n)
    <2> SUFFICES ASSUME NEW n \in 1 .. Len(log)
                 PROVE  /\ Overtaken(n)' <=> Overtaken(n)
                        /\ n \in History' => n \in History
                        /\ Due(n)' <=> Due(n)
      OBVIOUS
    <2>0. \A m \in 1 .. (n - 1) : m \in 1 .. Len(log)
      BY <1>4
    <2>1. \A m \in 1 .. (n - 1) : log'[m] = log[m] /\ log'[n] = log[n]
      BY <1>2, <2>0
    <2>2. Overtaken(n)' <=> Overtaken(n)
      BY <2>1 DEF Overtaken
    <2>3. n \in History' => n \in History
      <3>1. PICK d \in Nat : d = dropped' /\ dropped <= d
        BY <1>2, <1>4
      <3>2. PICK l \in Nat : l = Len(log')
        BY <1>2, <1>4
      <3>3. History' = (d + 1) .. l
        BY <3>1, <3>2 DEF History
      <3>4. dropped \in Nat /\ Len(log) \in Nat /\ dropped <= d
        BY <1>4, <3>1
      <3>5. n \in (d + 1) .. l => n \in (dropped + 1) .. Len(log)
        BY <3>4
      <3> QED
        BY <3>3, <3>5 DEF History
    <2>4. Due(n)' <=> Due(n)
      BY <1>3 DEF Due
    <2> QED
      BY <2>2, <2>3, <2>4
  <1>9. Pending'
    <2> SUFFICES ASSUME NEW n \in 1 .. Len(log'), Wanted(n)'
                 PROVE  /\ lastId < log'[n] /\ stream.seen < log'[n]
                        /\ stream.pc = "replay" => n \in stream.todo \/ stream.next <= n
                        /\ stream.pc = "live" => stream.next <= n
      BY <1>3 DEF Pending
    <2>1. CASE n \in 1 .. Len(log)
      <3>1. Wanted(n)
        BY <1>3, <1>8, <2>1 DEF Wanted
      <3> QED
        BY <1>2, <2>1, <3>1 DEF BusInv, Pending
    <2>2. CASE n = Len(log) + 1
      <3>1. \A j \in 1 .. Len(log) : log[j] < log'[n]
        BY <1>2, <1>4, <2>2 DEF Wanted, Overtaken
      <3>2. have # {}
        BY <1>3 DEF Wanted, Due
      <3> QED
        BY <1>2, <1>4, <2>2, <3>1, <3>2 DEF BusInv, Heard, Phases
    <2> QED
      BY <1>2, <1>4, <2>1, <2>2
  <1>10. Behind'
    <2> SUFFICES ASSUME NEW k \in stream.todo,
                        NEW n \in History' \ (stream.todo \cup have)
                 PROVE  /\ k < n /\ log'[k] < log'[n] => stream.next <= n
                        /\ stream.next <= n /\ ~Overtaken(n)' => k < n
      BY <1>3 DEF Behind
    <2>1. CASE n \in 1 .. Len(log)
      BY <1>2, <1>4, <1>8, <2>1 DEF BusInv, Behind
    <2>2. CASE n = Len(log) + 1
      BY <1>4, <2>2
    <2> QED
      BY <1>2, <1>4, <2>1, <2>2 DEF History
  <1> QED
    BY <1>3, <1>5, <1>6, <1>7, <1>9, <1>10 DEF BusInv

LEMMA ExpireHistoryKeeps ==
  ASSUME BusInv, ExpireHistory
  PROVE  BusInv'
  <1> USE DEF client, redis
  <1>1. /\ Len(log) \in Nat /\ dropped \in 0 .. Len(log)
    BY Facts DEF BusInv
  <1>2. dropped' = Len(log) /\ stream.pc # "read"
        /\ UNCHANGED <<counter, log, publisher, stream, client, faults, drops>>
    BY DEF ExpireHistory, Quiet
  <1>3. TypeOK' /\ Drawn'
    BY <1>1, <1>2, HistoryHolds DEF BusInv, TypeOK, Drawn
  <1>4. Heard' /\ Phases'
    BY <1>2 DEF BusInv, Heard, Phases
  <1>5. History' = {}
    BY <1>1, <1>2 DEF History
  <1>6. Pending' /\ Behind'
    BY <1>5 DEF Pending, Behind, Wanted
  <1> QED
    BY <1>3, <1>4, <1>6 DEF BusInv

LEMMA ConnectKeeps ==
  ASSUME BusInv, Connect
  PROVE  BusInv'
  <1> USE DEF client, redis
  <1>1. /\ Len(log) \in Nat /\ dropped \in 0 .. Len(log)
        /\ have \subseteq 1 .. Len(log) /\ lastId \in Nat
        /\ \A n \in 1 .. Len(log) : log[n] \in Nat \ {0}
    BY Facts DEF BusInv
  <1>2. /\ stream' \in StreamMem
        /\ stream'.pc = IF lastId = 0 THEN "live" ELSE "read"
        /\ stream'.next = Len(log) + 1 /\ stream'.todo = {} /\ stream'.seen = 0
    <2>1. stream' = [pc |-> IF lastId = 0 THEN "live" ELSE "read",
                     next |-> Len(log) + 1, todo |-> {}, seen |-> 0]
      BY DEF Connect, ClosedStream
    <2>2. (IF lastId = 0 THEN "live" ELSE "read") \in StreamPc /\ Len(log) + 1 \in Nat
      BY <1>1 DEF StreamPc
    <2> QED
      BY <2>1, <2>2 DEF StreamMem
  <1>3. stream.pc = "closed" /\ UNCHANGED <<redis, publisher, client, faults, drops>>
    BY DEF Connect
  <1>4. TypeOK' /\ Drawn'
    BY <1>1, <1>2, <1>3 DEF BusInv, TypeOK, Drawn
  <1>5. Heard'
    BY <1>3 DEF BusInv, Heard
  <1>6. Phases'
    BY <1>1, <1>2, <1>3 DEF BusInv, Phases, Heard
  <1>7. Pending'
    <2> SUFFICES ASSUME NEW n \in 1 .. Len(log), Wanted(n)'
                 PROVE  lastId < log[n] /\ 0 < log[n] /\ lastId # 0
      BY <1>2, <1>3 DEF Pending
    <2>1. Wanted(n)
      BY <1>3 DEF Wanted, History, Due, Overtaken
    <2> QED
      BY <1>1, <2>1 DEF BusInv, Pending, Wanted, Due, Heard
  <1>8. Behind'
    BY <1>2 DEF Behind
  <1> QED
    BY <1>4, <1>5, <1>6, <1>7, <1>8 DEF BusInv

LEMMA ReadHistoryKeeps ==
  ASSUME BusInv, ReadHistory
  PROVE  BusInv'
  <1> USE DEF client, redis
  <1>1. /\ Len(log) \in Nat /\ dropped \in 0 .. Len(log)
        /\ have \subseteq 1 .. Len(log) /\ lastId \in Nat /\ stream \in StreamMem
        /\ stream.next \in Nat
        /\ \A n \in 1 .. Len(log) : log[n] \in Nat \ {0}
    BY Facts DEF BusInv
  <1>2. /\ stream.pc = "read" /\ have # {} /\ (\A r \in have : r < stream.next)
        /\ got = << >> /\ stream.seen = 0 /\ stream.next # 0
    BY DEF ReadHistory, BusInv, Phases
  <1>3. /\ stream'.todo = {n \in History : log[n] > lastId} /\ stream'.pc = "replay"
        /\ stream'.next = stream.next /\ stream'.seen = 0 /\ stream' \in StreamMem
    <2>1. {n \in History : log[n] > lastId} \subseteq Nat
      BY <1>1 DEF History
    <2> QED
      BY <1>1, <1>2, <2>1 DEF ReadHistory, StreamMem, StreamPc
  <1>4. UNCHANGED <<redis, publisher, client, faults, drops>>
    BY DEF ReadHistory
  <1>5. TypeOK' /\ Drawn'
    <2>1. stream'.todo \subseteq 1 .. Len(log)
      BY <1>1, <1>3 DEF History
    <2> QED
      BY <1>3, <1>4, <2>1 DEF BusInv, TypeOK, Drawn
  <1>6. Heard' /\ Phases'
    BY <1>2, <1>3, <1>4 DEF BusInv, Heard, Phases
  <1>7. Pending'
    <2> SUFFICES ASSUME NEW n \in 1 .. Len(log), Wanted(n)
                 PROVE  lastId < log[n] /\ 0 < log[n] /\ n \in stream'.todo
      BY <1>3, <1>4 DEF Pending, Wanted, History, Due, Overtaken
    <2> QED
      BY <1>1, <1>3 DEF BusInv, Pending, Wanted
  <1>8. Behind'
    <2> SUFFICES ASSUME NEW k \in stream'.todo, NEW n \in History \ (stream'.todo \cup have)
                 PROVE  /\ k < n /\ log[k] < log[n] => stream.next <= n
                        /\ stream.next <= n /\ ~Overtaken(n) => k < n
      BY <1>3, <1>4 DEF Behind, History, Overtaken
    <2>1. log[n] <= lastId /\ lastId < log[k] /\ k \in 1 .. Len(log) /\ n \in 1 .. Len(log)
      BY <1>1, <1>3 DEF History
    <2>2. ~(log[k] < log[n])
      BY <1>1, <2>1
    <2>3. stream.next <= n => Overtaken(n)
      <3>1. PICK j \in have : log[j] = lastId
        BY <1>2 DEF BusInv, Heard
      <3>2. stream.next <= n => j \in 1 .. (n - 1)
        BY <1>1, <1>2, <2>1
      <3> QED
        BY <1>1, <2>1, <3>1, <3>2 DEF Overtaken
    <2> QED
      BY <2>2, <2>3
  <1> QED
    BY <1>5, <1>6, <1>7, <1>8 DEF BusInv

\* What it means for the client to receive the earliest event it may wait for.
LEMMA DeliveryIsHeard ==
  ASSUME BusInv, NEW n \in 1 .. Len(log), Deliver(n), log' = log
  PROVE  /\ Heard'
         /\ lastId' \in Nat /\ have' \subseteq 1 .. Len(log) /\ got' \in Seq(have')
         /\ have \subseteq have' /\ n \in have' /\ have' \subseteq have \cup {n}
         /\ lastId' = log[n]
  <1>1. /\ log[n] \in Nat \ {0} /\ have \subseteq 1 .. Len(log) /\ got \in Seq(have)
    BY Facts DEF BusInv
  <1>2. lastId' = log[n] /\ have' = have \cup {n} /\ got' = Append(got, n)
    BY DEF Deliver
  <1>3. got \in Seq(have')
    BY <1>1, <1>2
  <1>4. got' \in Seq(have')
    BY <1>2, <1>3
  <1>5. Heard'
    BY <1>1, <1>2 DEF Heard
  <1> QED
    BY <1>1, <1>2, <1>4, <1>5

LEMMA ReplayKeeps ==
  ASSUME BusInv, Replay
  PROVE  BusInv'
  <1> USE DEF redis
  <1>1. /\ Len(log) \in Nat /\ dropped \in 0 .. Len(log) /\ stream \in StreamMem
        /\ stream.todo \subseteq 1 .. Len(log) /\ stream.next \in Nat /\ stream.seen \in Nat
        /\ have \subseteq 1 .. Len(log)
        /\ \A n \in 1 .. Len(log) : log[n] \in Nat \ {0}
    BY Facts DEF BusInv
  <1>2. PICK k \in stream.todo :
          /\ \A j \in stream.todo : k <= j
          /\ Deliver(k)
          /\ stream' = [stream EXCEPT !.todo = @ \ {k},
                          !.seen = IF log[k] > @ THEN log[k] ELSE @]
    BY DEF Replay
  <1>3. stream.pc = "replay" /\ UNCHANGED <<redis, publisher, faults, drops>>
    BY DEF Replay
  <1>4. /\ stream'.pc = "replay" /\ stream'.next = stream.next
        /\ stream'.todo = stream.todo \ {k}
        /\ stream'.seen = IF log[k] > stream.seen THEN log[k] ELSE stream.seen
        /\ stream' \in StreamMem
    BY <1>1, <1>2, <1>3 DEF StreamMem
  <1>5. k \in 1 .. Len(log) /\ log[k] \in Nat \ {0}
    BY <1>1
  <1>6. /\ Heard' /\ lastId' \in Nat /\ have' \subseteq 1 .. Len(log) /\ got' \in Seq(have')
        /\ have \subseteq have' /\ k \in have' /\ have' \subseteq have \cup {k}
        /\ lastId' = log[k]
    BY <1>2, <1>3, <1>5, DeliveryIsHeard
  <1>7. TypeOK' /\ Drawn'
    BY <1>1, <1>3, <1>4, <1>6 DEF BusInv, TypeOK, Drawn
  <1>8. Phases'
    <2>1. stream'.seen # 0 => \E j \in have' : /\ log[j] = stream'.seen
                                               /\ \A i \in stream'.todo : j < i
      <3>1. CASE log[k] > stream.seen
        BY <1>1, <1>2, <1>4, <1>5, <1>6, <3>1
      <3>2. CASE ~(log[k] > stream.seen)
        BY <1>4, <1>6, <3>2 DEF BusInv, Phases
      <3> QED
        BY <3>1, <3>2
    <2> QED
      BY <1>3, <1>4, <2>1 DEF BusInv, Phases
  <1>9. Pending'
    <2> SUFFICES ASSUME NEW n \in 1 .. Len(log), Wanted(n)'
                 PROVE  /\ log[k] < log[n] /\ stream.seen < log[n]
                        /\ n \in stream.todo \ {k} \/ stream.next <= n
      BY <1>3, <1>4, <1>6 DEF Pending
    <2>1. /\ n \in History /\ ~Overtaken(n) /\ n \notin have /\ n # k
          /\ \A m \in 1 .. (n - 1) : log[m] < log[n]
      <3>1. n \in History /\ ~Overtaken(n) /\ n \notin have /\ n # k
        BY <1>3, <1>6 DEF Wanted, History, Overtaken
      <3>2. \A m \in 1 .. (n - 1) : log[m] < log[n]
        BY <1>1, <3>1 DEF Overtaken
      <3> QED
        BY <3>1, <3>2
    <2>2. Due(n) \/ k < n
      BY <1>3, <1>6 DEF Wanted, Due
    <2>3. k < n /\ (n \in stream.todo \/ stream.next <= n)
      <3>1. CASE n \in stream.todo
        BY <1>1, <1>2, <2>1, <3>1
      <3>2. CASE n \notin stream.todo
        <4>1. n \in History \ (stream.todo \cup have)
          BY <2>1, <3>2
        <4>2. CASE k < n
          BY <1>5, <2>1, <4>1, <4>2 DEF BusInv, Behind
        <4>3. CASE Due(n)
          <5>1. Wanted(n)
            BY <2>1, <4>3 DEF Wanted
          <5>2. stream.next <= n
            BY <1>3, <3>2, <5>1 DEF BusInv, Pending
          <5> QED
            BY <2>1, <4>1, <5>2 DEF BusInv, Behind
        <4> QED
          BY <2>2, <4>2, <4>3
      <3> QED
        BY <3>1, <3>2
    <2>4. log[k] < log[n]
      BY <1>5, <2>1, <2>3
    <2>5. stream.seen < log[n]
      <3>1. CASE stream.seen = 0
        BY <1>1, <3>1
      <3>2. CASE stream.seen # 0
        <4>1. PICK j \in have : log[j] = stream.seen /\ j < k
          BY <3>2 DEF BusInv, Phases
        <4> QED
          BY <1>1, <1>5, <2>1, <2>3, <4>1
      <3> QED
        BY <3>1, <3>2
    <2> QED
      BY <2>1, <2>3, <2>4, <2>5
  <1>10. Behind'
    <2> SUFFICES ASSUME NEW j \in stream.todo \ {k},
                        NEW n \in History \ ((stream.todo \ {k}) \cup have')
                 PROVE  /\ j < n /\ log[j] < log[n] => stream.next <= n
                        /\ stream.next <= n /\ ~Overtaken(n) => j < n
      BY <1>3, <1>4 DEF Behind, History, Overtaken
    <2>1. n \in History \ (stream.todo \cup have)
      BY <1>6
    <2> QED
      BY <2>1 DEF BusInv, Behind
  <1> QED
    BY <1>6, <1>7, <1>8, <1>9, <1>10 DEF BusInv

LEMMA GoLiveKeeps ==
  ASSUME BusInv, GoLive
  PROVE  BusInv'
  <1> USE DEF redis, client
  <1>1. /\ stream \in StreamMem /\ stream.pc = "replay" /\ stream.todo = {}
        /\ UNCHANGED <<redis, publisher, client, faults, drops>>
    BY DEF GoLive, BusInv, TypeOK
  <1>2. /\ stream'.pc = "live" /\ stream'.next = stream.next
        /\ stream'.todo = stream.todo /\ stream'.seen = stream.seen
        /\ stream' \in StreamMem
    BY <1>1 DEF GoLive, StreamMem, StreamPc
  <1>3. TypeOK' /\ Drawn'
    BY <1>1, <1>2 DEF BusInv, TypeOK, Drawn
  <1>4. Heard' /\ Phases'
    BY <1>1, <1>2 DEF BusInv, Heard, Phases
  <1>5. Pending'
    <2> SUFFICES ASSUME NEW n \in 1 .. Len(log), Wanted(n)
                 PROVE  lastId < log[n] /\ stream.seen < log[n] /\ stream.next <= n
      BY <1>1, <1>2 DEF Pending, Wanted, History, Due, Overtaken
    <2> QED
      BY <1>1 DEF BusInv, Pending
  <1>6. Behind'
    BY <1>1, <1>2 DEF Behind
  <1> QED
    BY <1>3, <1>4, <1>5, <1>6 DEF BusInv

LEMMA LiveKeeps ==
  ASSUME BusInv, Live
  PROVE  BusInv'
  <1> USE DEF redis, client
  <1>1. /\ Len(log) \in Nat /\ dropped \in 0 .. Len(log) /\ stream \in StreamMem
        /\ stream.next \in Nat /\ stream.seen \in Nat /\ have \subseteq 1 .. Len(log)
        /\ \A n \in 1 .. Len(log) : log[n] \in Nat \ {0}
    BY Facts DEF BusInv
  <1>2. /\ stream.pc = "live" /\ stream.todo = {} /\ stream.next \in 1 .. Len(log)
        /\ UNCHANGED <<redis, publisher, faults, drops>>
    BY <1>1 DEF Live, BusInv, Phases
  <1>3. /\ stream'.pc = "live" /\ stream'.next = stream.next + 1 /\ stream'.todo = {}
        /\ stream'.seen = IF Replayed(stream.next) THEN stream.seen ELSE 0
        /\ stream' \in StreamMem
    <2>1. CASE Replayed(stream.next)
      BY <1>1, <1>2, <2>1 DEF Live, StreamMem
    <2>2. CASE ~Replayed(stream.next)
      <3>1. stream' = [stream EXCEPT !.next = @ + 1, !.seen = 0]
        BY <2>2 DEF Live
      <3>2. stream.next + 1 \in Nat
        BY <1>1
      <3> QED
        BY <1>1, <1>2, <2>2, <3>1, <3>2 DEF StreamMem
    <2> QED
      BY <2>1, <2>2
  <1>4. CASE Replayed(stream.next)
    <2>1. UNCHANGED client
      BY <1>4 DEF Live
    <2>2. TypeOK' /\ Drawn'
      BY <1>1, <1>2, <1>3, <2>1 DEF BusInv, TypeOK, Drawn
    <2>3. Heard' /\ Phases'
      BY <1>2, <1>3, <1>4, <2>1 DEF BusInv, Heard, Phases
    <2>4. Pending'
      <3> SUFFICES ASSUME NEW n \in 1 .. Len(log), Wanted(n)
                   PROVE  /\ lastId < log[n] /\ stream.seen < log[n]
                          /\ stream.next + 1 <= n
        BY <1>2, <1>3, <1>4, <2>1 DEF Pending, Wanted, History, Due, Overtaken
      <3>1. lastId < log[n] /\ stream.seen < log[n] /\ stream.next <= n
        BY <1>2 DEF BusInv, Pending
      <3>2. n # stream.next
        BY <1>1, <1>2, <1>4, <3>1 DEF Replayed
      <3> QED
        BY <1>1, <3>1, <3>2
    <2> QED
      BY <1>3, <2>2, <2>3, <2>4 DEF BusInv, Behind
  <1>5. CASE ~Replayed(stream.next)
    <2>1. Deliver(stream.next)
      BY <1>5 DEF Live
    <2>2. /\ Heard' /\ lastId' \in Nat /\ have' \subseteq 1 .. Len(log) /\ got' \in Seq(have')
          /\ have \subseteq have' /\ stream.next \in have' /\ have' \subseteq have \cup {stream.next}
          /\ lastId' = log[stream.next]
      BY <1>2, <2>1, DeliveryIsHeard
    <2>3. TypeOK' /\ Drawn'
      BY <1>1, <1>2, <1>3, <2>2 DEF BusInv, TypeOK, Drawn
    <2>4. Phases'
      BY <1>1, <1>3, <1>5 DEF Phases
    <2>5. Pending'
      <3> SUFFICES ASSUME NEW n \in 1 .. Len(log), Wanted(n)'
                   PROVE  log[stream.next] < log[n] /\ 0 < log[n] /\ stream.next + 1 <= n
        BY <1>2, <1>3, <1>5, <2>2 DEF Pending
      <3>0. n \in History /\ ~Overtaken(n) /\ n \notin have /\ n # stream.next
        BY <1>2, <2>2 DEF Wanted, History, Overtaken
      <3>1. /\ n \in History /\ ~Overtaken(n) /\ n \notin have /\ n # stream.next
            /\ \A m \in 1 .. (n - 1) : log[m] < log[n]
        BY <1>1, <3>0 DEF Overtaken
      <3>2. Due(n) \/ stream.next < n
        BY <1>2, <2>2 DEF Wanted, Due
      <3>3. Due(n) => stream.next <= n
        BY <1>2, <3>1 DEF Wanted, BusInv, Pending
      <3>4. stream.next < n
        BY <1>1, <3>1, <3>2, <3>3
      <3> QED
        BY <1>1, <1>2, <3>1, <3>4
    <2> QED
      BY <1>3, <2>2, <2>3, <2>4, <2>5 DEF BusInv, Behind
  <1> QED
    BY <1>4, <1>5

LEMMA DisconnectKeeps ==
  ASSUME BusInv, Disconnect
  PROVE  BusInv'
  <1> USE DEF redis
  <1>1. /\ stream'.pc = "closed" /\ stream'.next = 0 /\ stream'.todo = {} /\ stream'.seen = 0
        /\ stream' \in StreamMem
    BY DEF Disconnect, ClosedStream, StreamMem, StreamPc
  <1>2. /\ drops \in Nat /\ drops' = drops + 1 /\ got' = << >> /\ Len(log) \in Nat
        /\ UNCHANGED <<redis, publisher, lastId, have, faults>>
    BY DEF Disconnect, BusInv, TypeOK
  <1>3. TypeOK' /\ Drawn'
    BY <1>1, <1>2 DEF BusInv, TypeOK, Drawn
  <1>4. Heard' /\ Phases'
    BY <1>1, <1>2 DEF BusInv, Heard, Phases
  <1>5. Pending'
    <2> SUFFICES ASSUME NEW n \in 1 .. Len(log), Wanted(n)
                 PROVE  lastId < log[n] /\ 0 < log[n]
      BY <1>1, <1>2 DEF Pending, Wanted, History, Due, Overtaken
    <2> QED
      BY Facts DEF BusInv, Pending
  <1>6. Behind'
    BY <1>1 DEF Behind
  <1> QED
    BY <1>3, <1>4, <1>5, <1>6 DEF BusInv

-----------------------------------------------------------------------------

LEMMA BusInvInit ==
  ASSUME EventBusInit
  PROVE  BusInv
  <1>1. IdlePublisher \in PublisherMem /\ ClosedStream \in StreamMem
    BY DEF IdlePublisher, PublisherMem, PublisherPc, ClosedStream, StreamMem, StreamPc
  <1>2. TypeOK
    BY <1>1, HistoryHolds DEF EventBusInit, TypeOK, ClosedStream
  <1>3. Drawn /\ Heard /\ Phases
    BY DEF EventBusInit, Drawn, Heard, Phases, IdlePublisher, ClosedStream
  <1>4. Pending /\ Behind
    BY DEF EventBusInit, Pending, Behind, ClosedStream
  <1> QED
    BY <1>2, <1>3, <1>4 DEF BusInv

LEMMA BusInvNext ==
  ASSUME BusInv, [EventBusNext]_ebvars
  PROVE  BusInv'
  <1>1. CASE \E p \in Publisher : Publish(p)
    BY <1>1, PublishShape, AsideKeeps, StoredKeeps DEF BusInv
  <1>2. CASE Serve
    BY <1>2, ConnectKeeps, ReadHistoryKeeps, ReplayKeeps, GoLiveKeeps, LiveKeeps DEF Serve
  <1>3. CASE Disconnect
    BY <1>3, DisconnectKeeps
  <1>4. CASE ExpireCounter
    BY <1>4, ExpireCounterShape, AsideKeeps DEF BusInv
  <1>5. CASE ExpireHistory
    BY <1>5, ExpireHistoryKeeps
  <1>6. CASE UNCHANGED ebvars
    <2>1. Aside
      BY <1>6 DEF ebvars, Aside, BusInv, TypeOK, Drawn
    <2> QED
      BY <2>1, AsideKeeps
  <1> QED
    BY <1>1, <1>2, <1>3, <1>4, <1>5, <1>6 DEF EventBusNext

LEMMA BusInvHolds == EventBusSpec => []BusInv
  BY BusInvInit, BusInvNext, PTL DEF EventBusSpec

\* The history never exceeds its cap, and the client never has, and is never
\* about to be sent, an event that was not stored.
THEOREM EventBusTypeCorrect == EventBusSpec => []TypeOK
  <1>1. BusInv => TypeOK
    BY DEF BusInv
  <1> QED
    BY <1>1, BusInvHolds, PTL

\* A stream that has sent all it received has left out no event of the history
\* that its client is due, save those whose id was not the greatest so far.
THEOREM StreamLosesOnlyOvertaken == EventBusSpec => []OnlyOvertakenIsLost
  <1>1. BusInv => OnlyOvertakenIsLost
    <2> SUFFICES ASSUME BusInv, CaughtUp, NEW n \in History, Due(n), n \notin have,
                        ~Overtaken(n)
                 PROVE  FALSE
      BY DEF OnlyOvertakenIsLost
    <2>1. n \in 1 .. Len(log) /\ stream.next \in Nat /\ Len(log) \in Nat
      BY Facts DEF BusInv, History
    <2>2. stream.next <= n
      BY <2>1 DEF BusInv, Pending, Wanted, CaughtUp
    <2> QED
      BY <2>1, <2>2 DEF CaughtUp
  <1> QED
    BY <1>1, BusInvHolds, PTL

-----------------------------------------------------------------------------
(* The order of one connection *)

LEMMA StillKeepsOrder ==
  ASSUME OrderInv, UNCHANGED <<log, stream, got>>
  PROVE  OrderInv'
  BY DEF OrderInv, InOrder, Ahead, Recognised, Replayed

LEMMA StoredKeepsOrder ==
  ASSUME BusInv, OrderInv, Stored
  PROVE  OrderInv'
  <1>1. PICK id \in Nat \ {0} : Appended(id)
    BY DEF Stored
  <1>2. /\ Len(log') = Len(log) + 1
        /\ \A n \in 1 .. Len(log) : log'[n] = log[n] /\ log[n] \in Nat \ {0}
    BY <1>1, LogGrows DEF BusInv
  <1>3. UNCHANGED <<stream, got>>
    BY DEF Stored
  <1>4. /\ Len(log) \in Nat /\ stream.next \in Nat /\ stream.todo \subseteq 1 .. Len(log)
        /\ have \subseteq 1 .. Len(log) /\ \A i \in 1 .. Len(got) : got[i] \in have
    BY Facts DEF BusInv
  <1>5. InOrder' /\ Ahead'
    BY <1>3 DEF OrderInv, InOrder, Ahead
  <1>6. stream.pc \in {"replay", "live"} => stream.next # 0
    BY DEF BusInv, Phases
  <1>7. Recognised'
    <2> SUFFICES
          ASSUME NEW n \in stream.next .. Len(log')
          PROVE  /\ stream.pc = "replay" /\ n \notin stream.todo
                    /\ ((\E k \in stream.todo : n < k) \/ (\E i \in 1 .. Len(got) : n <= got[i]))
                    => IF got = << >> THEN \A m \in stream.todo : log'[n] < log'[m]
                                      ELSE log'[n] <= stream.seen
                 /\ stream.pc = "live" /\ (\E i \in 1 .. Len(got) : n <= got[i])
                    => stream.seen # 0 /\ log'[n] <= stream.seen
      BY <1>3 DEF Recognised, Replayed
    <2>1. CASE n = Len(log) + 1
      <3>1. ~(\E k \in stream.todo : n < k)
        BY <1>4, <2>1
      <3>2. ~(\E i \in 1 .. Len(got) : n <= got[i])
        <4> SUFFICES ASSUME NEW i \in 1 .. Len(got), n <= got[i]
                     PROVE  FALSE
          OBVIOUS
        <4>1. got[i] \in 1 .. Len(log)
          BY <1>4
        <4> QED
          BY <1>4, <2>1, <4>1
      <3> QED
        BY <3>1, <3>2
    <2>2. CASE n \in stream.next .. Len(log) /\ stream.next # 0
      <3>1. log'[n] = log[n] /\ \A m \in stream.todo : log'[m] = log[m]
        BY <1>2, <1>4, <2>2
      <3> QED
        BY <2>2, <3>1 DEF OrderInv, Recognised, Replayed
    <2> QED
      BY <1>2, <1>4, <1>6, <2>1, <2>2
  <1> QED
    BY <1>5, <1>7 DEF OrderInv

\* Connect and Disconnect: nothing has been sent, nothing is to be replayed.
LEMMA FreshKeepsOrder ==
  ASSUME BusInv, Connect \/ Disconnect
  PROVE  OrderInv'
  <1>1. got' = << >> /\ stream'.todo = {} /\ stream'.pc # "replay"
    <2>1. CASE Connect
      <3>1. stream' = [pc |-> IF lastId = 0 THEN "live" ELSE "read",
                       next |-> Len(log) + 1, todo |-> {}, seen |-> 0]
        BY <2>1 DEF Connect, ClosedStream
      <3>2. got' = << >>
        BY <2>1 DEF Connect, client, BusInv, Phases
      <3> QED
        BY <3>1, <3>2
    <2>2. CASE Disconnect
      BY <2>2 DEF Disconnect, ClosedStream
    <2> QED
      BY <2>1, <2>2
  <1> QED
    BY <1>1 DEF OrderInv, InOrder, Ahead, Recognised

LEMMA ReadHistoryKeepsOrder ==
  ASSUME BusInv, ReadHistory
  PROVE  OrderInv'
  <1> USE DEF client, redis
  <1>1. /\ Len(log) \in Nat /\ dropped \in Nat /\ lastId \in Nat /\ stream.next \in Nat
        /\ \A n \in 1 .. Len(log) : log[n] \in Nat \ {0}
    BY Facts DEF BusInv
  <1>2. got = << >> /\ dropped < stream.next
    BY DEF ReadHistory, BusInv, Phases
  <1>3. /\ stream'.todo = {n \in History : log[n] > lastId} /\ stream'.pc = "replay"
        /\ stream'.next = stream.next /\ UNCHANGED <<log, got>>
    BY DEF ReadHistory, BusInv, TypeOK, StreamMem
  <1>4. \A n \in stream.next .. Len(log), m \in stream'.todo :
           n \notin stream'.todo => log[n] < log[m]
    <2> SUFFICES ASSUME NEW n \in stream.next .. Len(log), NEW m \in stream'.todo,
                        n \notin stream'.todo
                 PROVE  log[n] < log[m]
      OBVIOUS
    <2>1. n \in History
      BY <1>1, <1>2 DEF History
    <2>2. ~(log[n] > lastId)
      BY <1>3, <2>1
    <2>3. m \in 1 .. Len(log) /\ log[m] > lastId /\ n \in 1 .. Len(log)
      BY <1>1, <1>3, <2>1 DEF History
    <2> QED
      BY <1>1, <2>2, <2>3
  <1>5. InOrder' /\ Ahead'
    BY <1>2, <1>3 DEF InOrder, Ahead
  <1>6. Recognised'
    BY <1>2, <1>3, <1>4 DEF Recognised
  <1> QED
    BY <1>5, <1>6 DEF OrderInv

LEMMA DeliveryAppends ==
  ASSUME BusInv, NEW n, Deliver(n)
  PROVE  /\ Len(got) \in Nat /\ Len(got') = Len(got) + 1 /\ got' # << >>
         /\ \A i \in 1 .. Len(got') : \/ i \in 1 .. Len(got) /\ got'[i] = got[i]
                                      \/ i = Len(got) + 1 /\ got'[i] = n
  <1>1. got \in Seq(have) /\ Len(got) \in Nat
    BY Facts DEF BusInv
  <1>2. got' = Append(got, n)
    BY DEF Deliver
  <1>3. Len(got') = Len(got) + 1 /\ got' # << >>
    BY <1>1, <1>2
  <1>4. \A i \in 1 .. (Len(got) + 1) : i \in 1 .. Len(got) \/ i = Len(got) + 1
    BY <1>1
  <1>5. \A i \in 1 .. Len(got) : got'[i] = got[i]
    BY <1>1, <1>2
  <1>6. got'[Len(got) + 1] = n
    BY <1>1, <1>2
  <1> QED
    BY <1>1, <1>3, <1>4, <1>5, <1>6

LEMMA ReplayKeepsOrder ==
  ASSUME BusInv, OrderInv, Replay
  PROVE  OrderInv'
  <1>1. /\ Len(log) \in Nat /\ stream \in StreamMem /\ stream.seen \in Nat
        /\ stream.todo \subseteq 1 .. Len(log) /\ stream.next \in Nat
        /\ got \in Seq(have) /\ Len(got) \in Nat
        /\ \A i \in 1 .. Len(got) : got[i] \in Nat
        /\ \A n \in 1 .. Len(log) : log[n] \in Nat \ {0}
    BY Facts DEF BusInv
  <1>2. PICK k \in stream.todo :
          /\ \A j \in stream.todo : k <= j
          /\ Deliver(k)
          /\ stream' = [stream EXCEPT !.todo = @ \ {k},
                          !.seen = IF log[k] > @ THEN log[k] ELSE @]
    BY DEF Replay
  <1>3. stream.pc = "replay" /\ log' = log /\ stream.next # 0
    BY DEF Replay, redis, BusInv, Phases
  <1>4. /\ stream'.pc = "replay" /\ stream'.next = stream.next
        /\ stream'.todo = stream.todo \ {k}
        /\ stream'.seen = IF log[k] > stream.seen THEN log[k] ELSE stream.seen
    BY <1>1, <1>2, <1>3 DEF StreamMem
  <1>5. k \in 1 .. Len(log) /\ k \in Nat /\ log[k] \in Nat \ {0}
    BY <1>1
  <1>6. \A i \in 1 .. Len(got) : got[i] < k
    BY DEF OrderInv, Ahead
  <1>7. /\ Len(got') = Len(got) + 1 /\ got' # << >>
        /\ \A i \in 1 .. Len(got') : \/ i \in 1 .. Len(got) /\ got'[i] = got[i]
                                     \/ i = Len(got) + 1 /\ got'[i] = k
    BY <1>2, DeliveryAppends
  <1>8. InOrder'
    <2> SUFFICES ASSUME NEW i \in 1 .. Len(got'), NEW j \in 1 .. Len(got'), i < j
                 PROVE  got'[i] < got'[j]
      BY DEF InOrder
    <2>1. i \in 1 .. Len(got)
      BY <1>1, <1>7
    <2>2. CASE j \in 1 .. Len(got)
      BY <1>7, <2>1, <2>2 DEF OrderInv, InOrder
    <2>3. CASE j = Len(got) + 1
      BY <1>1, <1>6, <1>7, <2>1, <2>3
    <2> QED
      BY <1>7, <2>2, <2>3
  <1>9. Ahead'
    <2> SUFFICES ASSUME NEW i \in 1 .. Len(got'), NEW j \in stream.todo \ {k}
                 PROVE  got'[i] < j
      BY <1>4 DEF Ahead
    <2>1. CASE i \in 1 .. Len(got)
      BY <1>7, <2>1 DEF OrderInv, Ahead
    <2>2. CASE i = Len(got) + 1
      <3>1. k <= j /\ j # k /\ j \in Nat
        BY <1>1, <1>2
      <3> QED
        BY <1>1, <1>5, <1>7, <2>2, <3>1
    <2> QED
      BY <1>7, <2>1, <2>2
  <1>10. Recognised'
    <2> SUFFICES ASSUME NEW n \in stream.next .. Len(log), n \notin stream.todo \ {k},
                        \/ \E m \in stream.todo \ {k} : n < m
                        \/ \E i \in 1 .. Len(got') : n <= got'[i]
                 PROVE  log[n] <= stream'.seen
      BY <1>3, <1>4, <1>7 DEF Recognised
    <2>1. n \in 1 .. Len(log) /\ n \in Nat /\ log[n] \in Nat
      BY <1>1, <1>3
    <2>2. log[k] <= stream'.seen /\ stream.seen <= stream'.seen /\ stream'.seen \in Nat
      BY <1>1, <1>4, <1>5
    <2>3. CASE n = k
      BY <2>2, <2>3
    <2>4. CASE n # k
      <3>1. n \notin stream.todo
        BY <2>4
      <3>2. (\E m \in stream.todo : n < m) \/ (\E i \in 1 .. Len(got) : n <= got[i])
        <4>1. CASE \E m \in stream.todo \ {k} : n < m
          BY <4>1
        <4>2. CASE \E i \in 1 .. Len(got') : n <= got'[i]
          <5>1. PICK i \in 1 .. Len(got') : n <= got'[i]
            BY <4>2
          <5>2. CASE i \in 1 .. Len(got)
            BY <1>7, <5>1, <5>2
          <5>3. CASE i = Len(got) + 1
            <6>1. n <= k
              BY <1>1, <1>7, <5>1, <5>3
            <6> QED
              BY <1>5, <2>1, <2>4, <6>1
          <5> QED
            BY <1>7, <5>2, <5>3
        <4> QED
          BY <4>1, <4>2
      <3>3. IF got = << >> THEN \A m \in stream.todo : log[n] < log[m]
                           ELSE log[n] <= stream.seen
        BY <1>3, <3>1, <3>2 DEF OrderInv, Recognised
      <3>4. log[n] <= log[k] \/ log[n] <= stream.seen
        BY <1>5, <2>1, <3>3
      <3> QED
        BY <1>1, <1>5, <2>1, <2>2, <3>4
    <2> QED
      BY <2>3, <2>4
  <1> QED
    BY <1>8, <1>9, <1>10 DEF OrderInv

LEMMA GoLiveKeepsOrder ==
  ASSUME BusInv, OrderInv, GoLive
  PROVE  OrderInv'
  <1> USE DEF redis, client
  <1>1. /\ stream \in StreamMem /\ stream.pc = "replay" /\ stream.todo = {}
        /\ stream.next # 0 /\ UNCHANGED <<log, got>>
    BY DEF GoLive, BusInv, TypeOK, Phases
  <1>2. /\ stream'.pc = "live" /\ stream'.next = stream.next
        /\ stream'.todo = {} /\ stream'.seen = stream.seen
    BY <1>1 DEF GoLive, StreamMem
  <1>3. /\ Len(log) \in Nat /\ stream.next \in Nat /\ stream.seen \in Nat
        /\ \A n \in 1 .. Len(log) : log[n] \in Nat \ {0}
    BY Facts DEF BusInv
  <1>4. InOrder' /\ Ahead'
    BY <1>1, <1>2 DEF OrderInv, InOrder, Ahead
  <1>5. Recognised'
    <2> SUFFICES ASSUME NEW n \in stream.next .. Len(log),
                        NEW i \in 1 .. Len(got), n <= got[i]
                 PROVE  stream.seen # 0 /\ log[n] <= stream.seen
      BY <1>1, <1>2 DEF Recognised, Replayed
    <2>1. got # << >>
      OBVIOUS
    <2>2. log[n] <= stream.seen
      BY <1>1, <2>1 DEF OrderInv, Recognised
    <2>3. log[n] \in Nat \ {0}
      BY <1>1, <1>3
    <2> QED
      BY <1>3, <2>2, <2>3
  <1> QED
    BY <1>4, <1>5 DEF OrderInv

LEMMA LiveKeepsOrder ==
  ASSUME BusInv, OrderInv, Live
  PROVE  OrderInv'
  <1> USE DEF redis, client
  <1>1. /\ Len(log) \in Nat /\ stream \in StreamMem /\ stream.next \in Nat
        /\ got \in Seq(have) /\ Len(got) \in Nat
        /\ \A i \in 1 .. Len(got) : got[i] \in Nat
    BY Facts DEF BusInv
  <1>2. stream.pc = "live" /\ stream.todo = {} /\ log' = log /\ stream.next \in 1 .. Len(log)
    BY <1>1 DEF Live, BusInv, Phases
  <1>3. CASE Replayed(stream.next)
    <2>1. stream' = [stream EXCEPT !.next = @ + 1] /\ got' = got
      BY <1>3 DEF Live
    <2>2. /\ stream'.pc = "live" /\ stream'.next = stream.next + 1 /\ stream'.todo = {}
          /\ stream'.seen = stream.seen
      BY <1>1, <1>2, <2>1 DEF StreamMem
    <2>3. InOrder' /\ Ahead'
      BY <2>1, <2>2 DEF OrderInv, InOrder, Ahead
    <2>4. Recognised'
      <3> SUFFICES ASSUME NEW n \in (stream.next + 1) .. Len(log),
                          NEW i \in 1 .. Len(got), n <= got[i]
                   PROVE  stream.seen # 0 /\ log[n] <= stream.seen
        BY <1>2, <2>1, <2>2 DEF Recognised, Replayed
      <3>1. n \in stream.next .. Len(log)
        BY <1>1
      <3> QED
        BY <1>2, <3>1 DEF OrderInv, Recognised, Replayed
    <2> QED
      BY <2>3, <2>4 DEF OrderInv
  <1>4. CASE ~Replayed(stream.next)
    <2>1. stream' = [stream EXCEPT !.next = @ + 1, !.seen = 0] /\ Deliver(stream.next)
      BY <1>4 DEF Live
    <2>2. stream'.pc = "live" /\ stream'.next = stream.next + 1 /\ stream'.todo = {}
      BY <1>1, <1>2, <2>1 DEF StreamMem
    <2>3. /\ Len(got') = Len(got) + 1
          /\ \A i \in 1 .. Len(got') : \/ i \in 1 .. Len(got) /\ got'[i] = got[i]
                                       \/ i = Len(got) + 1 /\ got'[i] = stream.next
      BY <2>1, DeliveryAppends
    <2>4. \A i \in 1 .. Len(got) : got[i] < stream.next
      <3> SUFFICES ASSUME NEW i \in 1 .. Len(got)
                   PROVE  got[i] < stream.next
        OBVIOUS
      <3>1. got[i] \in Nat
        BY <1>1
      <3>2. ~(stream.next <= got[i])
        BY <1>1, <1>2, <1>4 DEF OrderInv, Recognised
      <3> QED
        BY <1>1, <3>1, <3>2
    <2>5. InOrder'
      <3> SUFFICES ASSUME NEW i \in 1 .. Len(got'), NEW j \in 1 .. Len(got'), i < j
                   PROVE  got'[i] < got'[j]
        BY DEF InOrder
      <3>1. i \in 1 .. Len(got)
        BY <1>1, <2>3
      <3>2. CASE j \in 1 .. Len(got)
        BY <2>3, <3>1, <3>2 DEF OrderInv, InOrder
      <3>3. CASE j = Len(got) + 1
        BY <1>1, <2>3, <2>4, <3>1, <3>3
      <3> QED
        BY <2>3, <3>2, <3>3
    <2>6. Ahead'
      BY <2>2 DEF Ahead
    <2>7. Recognised'
      <3> SUFFICES ASSUME NEW n \in (stream.next + 1) .. Len(log),
                          NEW i \in 1 .. Len(got'), n <= got'[i]
                   PROVE  FALSE
        BY <1>2, <2>2 DEF Recognised
      <3>1. i \in 1 .. Len(got) \/ i = Len(got) + 1
        BY <2>3
      <3>2. CASE i \in 1 .. Len(got)
        <4>1. n <= got[i] /\ got[i] < stream.next /\ got[i] \in Nat
          BY <1>1, <2>3, <2>4, <3>2
        <4> QED
          BY <1>1, <4>1
      <3>3. CASE i = Len(got) + 1
        BY <1>1, <2>3, <3>3
      <3> QED
        BY <3>1, <3>2, <3>3
    <2> QED
      BY <2>5, <2>6, <2>7 DEF OrderInv
  <1> QED
    BY <1>3, <1>4

LEMMA OrderInvNext ==
  ASSUME BusInv, OrderInv, [EventBusNext]_ebvars
  PROVE  OrderInv'
  <1> USE DEF redis, client
  <1>1. CASE \E p \in Publisher : Publish(p)
    BY <1>1, PublishShape, StillKeepsOrder, StoredKeepsOrder DEF BusInv, Aside
  <1>2. CASE Serve
    BY <1>2, FreshKeepsOrder, ReadHistoryKeepsOrder, ReplayKeepsOrder, GoLiveKeepsOrder,
       LiveKeepsOrder DEF Serve
  <1>3. CASE Disconnect
    BY <1>3, FreshKeepsOrder
  <1>4. CASE ExpireCounter \/ ExpireHistory \/ UNCHANGED ebvars
    BY <1>4, StillKeepsOrder DEF ExpireCounter, ExpireHistory, ebvars
  <1> QED
    BY <1>1, <1>2, <1>3, <1>4 DEF EventBusNext

\* A connection delivers its events in the order they were stored and none of
\* them twice, whatever their ids and however the counter restarts.
THEOREM StreamKeepsOrder == EventBusSpec => []InOrder
  <1>1. EventBusInit => OrderInv
    BY DEF EventBusInit, ClosedStream, OrderInv, InOrder, Ahead, Recognised
  <1>2. OrderInv => InOrder
    BY DEF OrderInv
  <1> QED
    BY <1>1, <1>2, BusInvHolds, OrderInvNext, PTL DEF EventBusSpec

=============================================================================
