--------------------------- MODULE GatewayProofs ----------------------------
(***************************************************************************)
(* Theorems about EventGateway, for any bodies, capacities and number of   *)
(* publications and requests: consecutive sequence numbers hide no event,  *)
(* and a client with nothing under way shows what the projection holds.    *)
(***************************************************************************)
EXTENDS EventGateway, Integers, TLAPS

Values == [body : Bodies \cup Nat, state : {"Open", "Closed", "Corrected"}, revision : Nat]
Messages ==
  [type : {"other", "error", "active", "cancelled", "snapshot", "update"}, value : Values,
   number : Nat, sequence : Nat, event : Nat]
BusEvents == [event : Nat, value : Values]
ClientStates == [view : Values, number : Nat, sequence : Nat, event : Nat]

GatewayTypes ==
  /\ topic \in {"quote", "candles", "health"} /\ published \in Nat /\ requests \in Nat
  /\ stored \in Values /\ watched \in Values /\ emitted \in Nat
  /\ publisher \in Seq(Values) /\ Len(publisher) <= 1
  /\ live \in Seq(BusEvents) /\ lagged \in BOOLEAN
  /\ task \in Seq(Values) /\ sub \in [number : Nat, sequence : Nat]
  /\ socket \in {"up", "slow", "gone"} /\ (socket = "up" => out \in Seq(Messages))
  /\ client \in ClientStates

\* Messages that change what the client shows.
Data(m) == m.type \in {"snapshot", "update"}

\* What the client has, or will have after message j of the queue.
Item(j) ==
  IF j = 0 THEN client
  ELSE [view |-> out[j].value, number |-> out[j].number, sequence |-> out[j].sequence,
        event |-> out[j].event]

\* What the client will show when it gets to message i comes from j.
Before(j, i) ==
  /\ j \in 0..(i - 1)
  /\ j > 0 => Data(out[j])
  /\ \A k \in (j + 1)..(i - 1) : ~Data(out[k])

\* An update follows the one before it, in its subscription and on the bus.
Follows(j, i) ==
  /\ Item(j).number = out[i].number
  /\ Item(j).sequence + 1 = out[i].sequence
  /\ Item(j).event + 1 = out[i].event

ConsecutiveAt(i) ==
  /\ out[i].type = "snapshot" => out[i].sequence = 0 /\ out[i].event = 0
  /\ out[i].type = "update" /\ out[i].sequence > 1 =>
       \E j \in 0..(i - 1) : Before(j, i) /\ Follows(j, i)

Consecutive == \A i \in 1..Len(out) : ConsecutiveAt(i)

\* The last update of the subscription is the event before the first of the bus.
LastUpdate ==
  \E j \in 0..Len(out) :
    /\ Before(j, Len(out) + 1)
    /\ Item(j).number = sub.number /\ Item(j).sequence = sub.sequence
    /\ Item(j).event = emitted - Len(live)

\* The bus holds the last events, the queue holds consecutive updates, and they
\* meet.
SequenceInvariant ==
  /\ Len(live) <= emitted
  /\ \A i \in 1..Len(live) : live[i].event = emitted - Len(live) + i
  /\ sub.number = 0 => sub.sequence = 0
  /\ socket = "up" => Consecutive
  /\ socket = "up" /\ ~lagged /\ sub.sequence > 0 => LastUpdate

\* What is published next, or last.
Source == IF topic = "health" THEN watched ELSE stored

\* Values that need no update.  Health has moved on from what the watcher saw.
Fresh(v) ==
  IF topic = "health"
  THEN /\ v.state = "Open" /\ v.revision = 0
       /\ v.body \in Nat /\ watched.body <= v.body /\ v.body <= published
  ELSE v = stored

\* What the client shows once it has read its queue needs no update.
Shows == \E j \in 0..Len(out) : Before(j, Len(out) + 1) /\ Fresh(Item(j).view)

\* The last value under way is the one that is published, and with none under
\* way the client is about to show what needs no update.
ViewInvariant ==
  /\ topic = "health" => /\ stored = Value(published, "Open", 0)
                         /\ watched.body \in Nat /\ Fresh(watched)
  /\ publisher # <<>> => Head(publisher) = Source
  /\ publisher = <<>> /\ live # <<>> => live[Len(live)].value = Source
  /\ publisher = <<>> /\ live = <<>> =>
       /\ task # <<>> => Fresh(Head(task))
       /\ task = <<>> /\ sub.number # 0 /\ socket = "up" /\ ~lagged => Shows

-----------------------------------------------------------------------------

\* What try_send leaves in the queue, if the client is not dropped.
LEMMA EnqueueShape ==
  ASSUME out \in Seq(Messages), NEW ms \in Seq(Messages), Enqueue(ms), socket = "up", socket' = "up"
  PROVE  /\ out' \in Seq(Messages) /\ Len(out') = Len(out) + Len(ms)
         /\ \A i \in 1..Len(out) : out'[i] = out[i]
         /\ \A i \in 1..Len(ms) : out'[Len(out) + i] = ms[i]
  <1>1. out' = out \o ms
    BY DEF Enqueue
  <1> QED BY <1>1

\* After an enqueue that kept the socket up, everything went in (try_send).
LEMMA EnqueueSocket ==
  ASSUME NEW ms, Enqueue(ms), socket = "up"
  PROVE  socket' \in {"up", "slow"}
  BY DEF Enqueue

\* Messages behind the others change nothing for those.
LEMMA Extended ==
  ASSUME NEW n \in Nat, \A i \in 1..n : out'[i] = out[i], client' = client,
         NEW i \in 1..(n + 1), NEW j \in 0..(i - 1)
  PROVE  (Before(j, i) => Before(j, i)') /\ Item(j)' = Item(j)
  <1>1. Item(j)' = Item(j)
    BY DEF Item
  <1>2. Before(j, i) => Before(j, i)'
    BY DEF Before, Data
  <1> QED BY ONLY <1>1, <1>2

\* What is in the queue stays where it is when more is enqueued.
LEMMA QueueKeeps ==
  ASSUME NEW n \in Nat, \A i \in 1..n : out'[i] = out[i], client' = client,
         NEW i \in 1..n, ConsecutiveAt(i)
  PROVE  ConsecutiveAt(i)'
  <1>1. out'[i] = out[i]
    OBVIOUS
  <1>2. CASE out[i].type = "update" /\ out[i].sequence > 1
    <2>1. PICK j \in 0..(i - 1) : Before(j, i) /\ Follows(j, i)
      BY <1>2 DEF ConsecutiveAt
    <2>2. Before(j, i)' /\ Item(j)' = Item(j)
      BY <2>1, Extended
    <2>3. Follows(j, i)'
      BY ONLY <1>1, <2>1, <2>2 DEF Follows
    <2> QED BY ONLY <1>1, <1>2, <2>2, <2>3 DEF ConsecutiveAt
  <1> QED BY <1>1, <1>2 DEF ConsecutiveAt

\* A reply that shows nothing leaves the last update the last.
LEMMA ReplyKeeps ==
  ASSUME out \in Seq(Messages), Consecutive, client' = client, socket = "up", socket' = "up",
         NEW m \in Messages, ~Data(m), Enqueue(<<m>>)
  PROVE  /\ Consecutive'
         /\ \A j \in 0..Len(out) : Before(j, Len(out) + 1) =>
              j \in 0..Len(out') /\ Before(j, Len(out) + 1)' /\ Item(j)' = Item(j)
  <1>0. PICK n \in Nat : n = Len(out)
    OBVIOUS
  <1>1. /\ n \in Nat /\ Len(out') = n + 1 /\ out'[n + 1] = m
        /\ \A i \in 1..n : out'[i] = out[i]
    <2>1. <<m>> \in Seq(Messages) /\ Len(<<m>>) = 1 /\ <<m>>[1] = m
      OBVIOUS
    <2>2. /\ Len(out') = Len(out) + Len(<<m>>) /\ \A i \in 1..Len(out) : out'[i] = out[i]
          /\ \A i \in 1..Len(<<m>>) : out'[Len(out) + i] = <<m>>[i]
      BY Zenon, <2>1, EnqueueShape
    <2> QED BY ONLY <1>0, <2>1, <2>2
  <1>2. Consecutive'
    <2> SUFFICES ASSUME NEW i \in 1..(n + 1) PROVE ConsecutiveAt(i)'
      BY <1>1 DEF Consecutive
    <2>1. CASE i = n + 1
      BY <1>1, <2>1 DEF Data, ConsecutiveAt
    <2>2. CASE i \in 1..n
      BY <1>0, <1>1, <2>2, QueueKeeps DEF Consecutive
    <2> QED BY ONLY <1>1, <2>1, <2>2
  <1>3. ASSUME NEW j \in 0..n, Before(j, Len(out) + 1)
        PROVE  Before(j, Len(out) + 1)' /\ Item(j)' = Item(j)
    <2>0. n + 1 \in 1..(n + 1) /\ j \in 0..((n + 1) - 1) /\ Before(j, n + 1)
      BY ONLY <1>0, <1>3
    <2>1. Before(j, n + 1)' /\ Item(j)' = Item(j)
      BY <1>1, <1>3, <2>0, Extended
    <2>2. ASSUME NEW k \in (j + 1)..((n + 2) - 1)
          PROVE  ~Data(out[k])'
      <3>1. k \in (j + 1)..((n + 1) - 1) \/ k = n + 1
        BY ONLY <1>1
      <3> QED BY <1>1, <2>1, <3>1 DEF Before, Data
    <2>3. Before(j, n + 2)'
      BY ONLY <1>1, <2>1, <2>2 DEF Before
    <2> QED BY ONLY <1>1, <2>1, <2>3
  <1> QED BY ONLY <1>0, <1>1, <1>2, <1>3

\* The writer sends the first message: the others move up, and what it showed
\* is what the client has.
LEMMA Shifted ==
  ASSUME out \in Seq(Messages), out # <<>>, Consecutive, WriterSends,
         NEW i \in 2..(Len(out) + 1), NEW j \in 0..(i - 1), Before(j, i)
  PROVE  \E k \in 0..(i - 2) : Before(k, i - 1)' /\ Item(k)' = Item(j)
  <1> DEFINE n == Len(out)
  <1>1. /\ n \in Nat /\ n > 0 /\ Len(out') = n - 1 /\ \A k \in 1..(n - 1) : out'[k] = out[k + 1]
        /\ client' = Received(out[1])
    BY DEF WriterSends
  <1>2. CASE j = 0
    <2>1. ~Data(out[1])
      BY <1>1, <1>2 DEF Before
    <2>2. client' = client
      BY ONLY <1>1, <2>1 DEF Received, Data
    <2>3. Before(0, i - 1)'
      BY <1>1, <1>2 DEF Before, Data
    <2> QED BY ONLY <1>2, <2>2, <2>3 DEF Item
  <1>3. CASE j = 1
    <2>1. Data(out[1]) /\ (out[1].type = "snapshot" => out[1].sequence = 0 /\ out[1].event = 0)
      BY <1>1, <1>3 DEF Before, Consecutive, ConsecutiveAt
    <2>2. client' = Item(1)
      BY ONLY <1>1, <2>1 DEF Received, Data, Item
    <2>3. Before(0, i - 1)'
      BY <1>1, <1>3 DEF Before, Data
    <2> QED BY ONLY <1>3, <2>2, <2>3 DEF Item
  <1>4. CASE j > 1
    <2>1. j - 1 \in 1..(n - 1) /\ j - 1 \in 0..(i - 2) /\ out'[j - 1] = out[j]
      BY ONLY <1>1, <1>4
    <2>2. Item(j - 1)' = Item(j)
      BY ONLY <1>4, <2>1 DEF Item
    <2>3. Before(j - 1, i - 1)'
      <3>1. j - 1 > 0 => Data(out[j - 1])'
        BY <2>1 DEF Before, Data
      <3>2. ASSUME NEW k \in ((j - 1) + 1)..((i - 1) - 1) PROVE ~Data(out[k])'
        <4>1. k \in 1..(n - 1) /\ k + 1 \in (j + 1)..(i - 1)
          BY <1>1, <1>4
        <4> QED BY <1>1, <4>1 DEF Before, Data
      <3> QED BY <2>1, <3>1, <3>2 DEF Before
    <2> QED BY ONLY <2>1, <2>2, <2>3
  <1> QED BY ONLY <1>2, <1>3, <1>4

-----------------------------------------------------------------------------

\* A plain reply is a message, and carries no data.
LEMMA ReplyTypes ==
  ASSUME NEW type \in {"other", "error", "active", "cancelled"}
  PROVE  Reply(type) \in Messages /\ ~Data(Reply(type)) /\ Reply(type).type = type
  BY DEF Reply, GatewayMessage, Messages, Data, None, Value, Values

\* A value is its body, state and revision.
LEMMA ValueExtensional ==
  ASSUME NEW v \in Values, NEW w \in Values,
         v.body = w.body, v.state = w.state, v.revision = w.revision
  PROVE  v = w
  BY DEF Values

\* Another revision makes another value.
LEMMA WithRevision ==
  ASSUME NEW v \in Values, NEW n \in Nat, NEW w, w = [v EXCEPT !.revision = n]
  PROVE  w \in Values /\ w.body = v.body /\ w.state = v.state /\ w.revision = n
  BY DEF Values

\* Another state makes another value.
LEMMA WithState ==
  ASSUME NEW v \in Values, NEW st \in {"Open", "Closed", "Corrected"}, NEW w,
         w = [v EXCEPT !.state = st]
  PROVE  w \in Values /\ w.body = v.body /\ w.state = st /\ w.revision = v.revision
  BY DEF Values

\* A candle that changes neither its state nor its revision is the same one.
LEMMA LifecycleTypes ==
  ASSUME NEW prior \in Values, NEW incoming \in Values
  PROVE  /\ Lifecycle(prior, incoming) \in Values
         /\ ~Changed(prior, Lifecycle(prior, incoming)) => Lifecycle(prior, incoming) = prior
  <1> DEFINE next == Lifecycle(prior, incoming)
             same == prior.body = incoming.body
  <1> SUFFICES next \in Values /\ (~Changed(prior, next) => next = prior)
    OBVIOUS
  <1>0. /\ prior.revision \in Nat /\ prior.revision + 1 \in Nat /\ prior.revision # prior.revision + 1
        /\ prior.state \in {"Open", "Closed", "Corrected"}
    BY DEF Values
  <1>1. CASE prior.state = "Open" /\ incoming.state = "Open"
    <2>1. next = [incoming EXCEPT !.revision = IF same THEN prior.revision ELSE prior.revision + 1]
      BY ONLY Zenon, <1>1 DEF Lifecycle
    <2> DEFINE n == IF same THEN prior.revision ELSE prior.revision + 1
    <2>2. n \in Nat /\ (n = prior.revision => same)
      BY ONLY <1>0
    <2> HIDE DEF n
    <2>3. /\ next \in Values /\ next.body = incoming.body
          /\ next.state = "Open" /\ next.revision = n
      BY ONLY <1>1, <2>1, <2>2, WithRevision DEF n
    <2> HIDE DEF next
    <2> QED BY ONLY <1>1, <2>2, <2>3, ValueExtensional DEF Changed
  <1>2. CASE prior.state = "Open" /\ incoming.state # "Open"
    <2>1. next = [incoming EXCEPT !.revision = prior.revision + 1, !.state = "Closed"]
      BY ONLY <1>2 DEF Lifecycle
    <2> DEFINE u == [incoming EXCEPT !.revision = prior.revision + 1]
    <2>3. next = [u EXCEPT !.state = "Closed"]
      BY ONLY <2>1
    <2> HIDE DEF next
    <2>4. u \in Values /\ u.body = incoming.body /\ u.revision = prior.revision + 1
      BY ONLY <1>0, WithRevision
    <2> HIDE DEF u
    <2>2. next \in Values /\ next.revision = prior.revision + 1
      BY ONLY <1>0, <2>3, <2>4, WithState
    <2> HIDE DEF next
    <2> QED BY ONLY <1>0, <2>2 DEF Changed
  <1>3. CASE prior.state # "Open" /\ incoming.state # "Open" /\ same
    <2>1. next = [incoming EXCEPT !.revision = prior.revision, !.state = prior.state]
      BY ONLY <1>3 DEF Lifecycle
    <2> DEFINE u == [incoming EXCEPT !.revision = prior.revision]
    <2>3. next = [u EXCEPT !.state = prior.state]
      BY ONLY <2>1
    <2> HIDE DEF next
    <2>4. u \in Values /\ u.body = incoming.body /\ u.revision = prior.revision
      BY ONLY <1>0, WithRevision
    <2> HIDE DEF u
    <2>2. /\ next \in Values /\ next.revision = prior.revision /\ next.state = prior.state
          /\ next.body = prior.body
      BY ONLY <1>0, <1>3, <2>3, <2>4, WithState
    <2> HIDE DEF next
    <2> QED BY ONLY <2>2, ValueExtensional
  <1>4. CASE prior.state # "Open" /\ ~(incoming.state # "Open" /\ same)
    <2>1. next = [incoming EXCEPT !.revision = prior.revision + 1, !.state = "Corrected"]
      BY ONLY <1>4 DEF Lifecycle
    <2> DEFINE u == [incoming EXCEPT !.revision = prior.revision + 1]
    <2>3. next = [u EXCEPT !.state = "Corrected"]
      BY ONLY <2>1
    <2> HIDE DEF next
    <2>4. u \in Values /\ u.body = incoming.body /\ u.revision = prior.revision + 1
      BY ONLY <1>0, WithRevision
    <2> HIDE DEF u
    <2>2. next \in Values /\ next.revision = prior.revision + 1
      BY ONLY <1>0, <2>3, <2>4, WithState
    <2> HIDE DEF next
    <2> QED BY ONLY <1>0, <2>2 DEF Changed
  <1> QED BY ONLY <1>1, <1>2, <1>3, <1>4

\* What publishing stores and is about to emit.
LEMMA PublishShape ==
  ASSUME GatewayTypes, NEW b \in Bodies, NEW s \in {"Open", "Closed"}, Publish(b, s)
  PROVE  /\ stored' \in Values
         /\ publisher' = <<stored'>> \/ (publisher' = <<>> /\ stored' = stored)
  <1> DEFINE incoming == Value(b, s, 0)
             next == IF topic = "quote" \/ stored = None THEN incoming ELSE Lifecycle(stored, incoming)
  <1>1. /\ stored' = next
        /\ publisher' = IF topic = "quote" \/ Changed(stored, next) THEN <<next>> ELSE <<>>
    BY DEF Publish
  <1>2. incoming \in Values /\ stored \in Values
    BY DEF Values, Value, GatewayTypes
  <1> HIDE DEF incoming
  <1>3. next \in Values
    BY ONLY <1>2, LifecycleTypes
  <1>4. topic # "quote" /\ ~Changed(stored, next) => next = stored
    <2>1. stored = None => Changed(stored, next)
      BY DEF Changed
    <2> QED BY ONLY <1>2, <2>1, LifecycleTypes
  <1> HIDE DEF next
  <1> QED BY ONLY <1>1, <1>3, <1>4

\* What the writer hands over is of the client's type.
LEMMA ReceivedTypes ==
  ASSUME client \in ClientStates, NEW m \in Messages
  PROVE  Received(m) \in ClientStates
  BY DEF Received, ClientStates, Messages

\* The queue remains a queue of messages.
LEMMA EnqueueTypes ==
  ASSUME GatewayTypes, socket = "up", NEW ms \in Seq(Messages), Enqueue(ms)
  PROVE  socket' \in {"up", "slow", "gone"} /\ (socket' = "up" => out' \in Seq(Messages))
  BY EnqueueShape, EnqueueSocket DEF GatewayTypes

\* The gateway starts well typed.
LEMMA GatewayTypesInit == GatewayInit => GatewayTypes
  <1> SUFFICES ASSUME GatewayInit PROVE GatewayTypes
    OBVIOUS
  <1>1. None \in Values
    BY DEF None, Value, Values
  <1>2. client \in ClientStates
    BY <1>1 DEF GatewayInit, ClientStates
  <1>3. sub \in [number : Nat, sequence : Nat]
    BY DEF GatewayInit, NoSub
  <1>4. /\ publisher \in Seq(Values) /\ Len(publisher) <= 1
        /\ live \in Seq(BusEvents) /\ task \in Seq(Values) /\ out \in Seq(Messages)
    BY DEF GatewayInit
  <1> QED BY Zenon, <1>1, <1>2, <1>3, <1>4 DEF GatewayInit, GatewayTypes

\* Every step keeps the gateway well typed.
LEMMA GatewayTypesStep == GatewayTypes /\ [GatewayNext]_gatewayVars => GatewayTypes'
  <1> SUFFICES ASSUME GatewayTypes, [GatewayNext]_gatewayVars PROVE GatewayTypes'
    OBVIOUS
  <1>0. GatewayTypes
    OBVIOUS
  <1>1. ASSUME NEW b \in Bodies, NEW s \in {"Open", "Closed"}, Publish(b, s)
        PROVE  GatewayTypes'
    <2>1. stored' \in Values /\ (publisher' = <<stored'>> \/ publisher' = <<>>)
      BY <1>1, PublishShape
    <2>2. publisher' \in Seq(Values) /\ Len(publisher') <= 1
      <3>1. CASE publisher' = <<>>
        BY ONLY <3>1
      <3>2. CASE publisher' = <<stored'>>
        BY ONLY <2>1, <3>2
      <3> QED BY ONLY <2>1, <3>1, <3>2
    <2> QED BY ONLY <1>0, <1>1, <2>1, <2>2 DEF GatewayTypes, Publish
  <1>2. CASE HealthChanges
    <2>1. stored' \in Values /\ published' \in Nat
      BY ONLY <1>0, <1>2 DEF GatewayTypes, HealthChanges, Value, Values
    <2> QED BY ONLY <1>0, <1>2, <2>1 DEF GatewayTypes, HealthChanges
  <1>3. CASE WatchHealth
    BY ONLY <1>0, <1>3 DEF GatewayTypes, WatchHealth
  <1>4. CASE Emit
    <2> DEFINE e == [event |-> emitted + 1, value |-> Head(publisher)]
    <2>1. publisher # <<>> /\ publisher \in Seq(Values) /\ emitted \in Nat /\ live \in Seq(BusEvents)
      BY <1>4 DEF GatewayTypes, Emit
    <2>2. Head(publisher) \in Values
      BY ONLY <2>1
    <2>3. e \in BusEvents
      BY ONLY <2>1, <2>2 DEF BusEvents
    <2>4. live' \in Seq(BusEvents) /\ lagged' \in BOOLEAN
      <3>1. CASE Len(live) < BusCapacity
        <4>1. live' = Append(live, e) /\ lagged' = lagged
          BY ONLY <1>4, <3>1 DEF Emit
        <4> QED BY <2>1, <2>3, <4>1 DEF GatewayTypes
      <3>2. CASE ~(Len(live) < BusCapacity)
        <4>1. live' = Append(Tail(live), e) /\ lagged'
          BY ONLY <1>4, <3>2 DEF Emit
        <4>2. live # <<>>
          BY ONLY <2>1, <3>2, CapacityAssumption
        <4>3. Tail(live) \in Seq(BusEvents)
          BY ONLY <2>1, <4>2
        <4>4. live' \in Seq(BusEvents)
          BY ONLY <2>3, <4>1, <4>3
        <4>5. lagged' \in BOOLEAN
          BY ONLY <1>4, <3>2 DEF Emit
        <4> QED BY ONLY <4>4, <4>5
      <3> QED BY ONLY <3>1, <3>2
    <2>5. publisher' = <<>> /\ emitted' \in Nat
      BY ONLY <1>4, <2>1 DEF Emit
    <2> QED BY ONLY <1>0, <1>4, <2>4, <2>5 DEF GatewayTypes, Emit
  <1>5. CASE Chatter
    <2>1. <<Reply("other")>> \in Seq(Messages)
      BY ONLY ReplyTypes
    <2>2. socket' \in {"up", "slow", "gone"} /\ (socket' = "up" => out' \in Seq(Messages))
      BY Zenon, <1>5, <2>1, EnqueueTypes DEF Chatter, Looping
    <2> QED BY ONLY <1>0, <1>5, <2>2 DEF GatewayTypes, Chatter, Request
  <1>6. CASE Subscribe
    <2>1. <<Reply("error")>> \in Seq(Messages)
      BY ONLY ReplyTypes
    <2>2. socket' \in {"up", "slow", "gone"} /\ (socket' = "up" => out' \in Seq(Messages))
      BY Zenon, <1>6, <2>1, EnqueueTypes DEF Subscribe, Looping, GatewayTypes
    <2>3. task' \in Seq(Values)
      <3>1. <<stored>> \in Seq(Values) /\ Snapshot \in Seq(Values)
        BY DEF Snapshot, GatewayTypes
      <3> QED BY <1>6, <3>1 DEF Subscribe, GatewayTypes
    <2> QED BY ONLY <1>0, <1>6, <2>2, <2>3 DEF GatewayTypes, Subscribe, Request
  <1>7. CASE Register
    <2> DEFINE m == GatewayMessage("snapshot", Head(task), requests, 0, 0)
    <2>1. m \in Messages
      BY <1>7 DEF Register, GatewayMessage, Messages, GatewayTypes
    <2>2. <<Reply("active"), m>> \in Seq(Messages)
      BY ONLY <2>1, ReplyTypes
    <2>3. socket' \in {"up", "slow", "gone"} /\ (socket' = "up" => out' \in Seq(Messages))
      BY Zenon, <1>7, <2>2, EnqueueTypes DEF Register
    <2> QED BY ONLY <1>0, <1>7, <2>3 DEF GatewayTypes, Register
  <1>8. CASE Unsubscribe
    <2>1. <<Reply("cancelled")>> \in Seq(Messages)
      BY ONLY ReplyTypes
    <2>2. socket' \in {"up", "slow", "gone"} /\ (socket' = "up" => out' \in Seq(Messages))
      BY Zenon, <1>8, <2>1, EnqueueTypes DEF Unsubscribe, Looping
    <2> QED BY ONLY <1>0, <1>8, <2>2 DEF GatewayTypes, Unsubscribe, Request, NoSub
  <1>9. CASE LiveEvent
    <2> DEFINE m == GatewayMessage("update", Head(live).value, sub.number, sub.sequence + 1,
                                   Head(live).event)
    <2>1. Head(live) \in BusEvents /\ Tail(live) \in Seq(BusEvents)
      <3>1. live \in Seq(BusEvents) /\ live # <<>>
        BY <1>9 DEF LiveEvent, GatewayTypes
      <3> QED BY ONLY <3>1
    <2>2. m \in Messages
      BY <2>1 DEF GatewayMessage, Messages, GatewayTypes, BusEvents
    <2>3. <<m>> \in Seq(Messages)
      BY ONLY <2>2
    <2>4. socket' \in {"up", "slow", "gone"} /\ (socket' = "up" => out' \in Seq(Messages))
      BY Zenon, <1>9, <2>3, EnqueueTypes DEF LiveEvent, Looping, GatewayTypes
    <2> QED BY ONLY <1>0, <1>9, <2>1, <2>4 DEF GatewayTypes, LiveEvent
  <1>10. CASE LiveLagged \/ ClientCloses \/ WriterDrops
    BY ONLY <1>0, <1>10 DEF GatewayTypes, LiveLagged, ClientCloses, WriterDrops
  <1>11. CASE WriterSends
    <2>1. out \in Seq(Messages) /\ out # <<>>
      BY <1>11 DEF WriterSends, GatewayTypes
    <2>2. Head(out) \in Messages /\ Tail(out) \in Seq(Messages)
      BY ONLY <2>1
    <2>3. client' \in ClientStates
      BY <1>11, <2>2, ReceivedTypes DEF WriterSends, GatewayTypes
    <2> QED BY ONLY <1>0, <1>11, <2>2, <2>3 DEF GatewayTypes, WriterSends
  <1>12. CASE UNCHANGED gatewayVars
    BY ONLY <1>0, <1>12 DEF GatewayTypes, gatewayVars
  <1> QED BY <1>1, <1>2, <1>3, <1>4, <1>5, <1>6, <1>7, <1>8, <1>9, <1>10, <1>11, <1>12 DEF GatewayNext

-----------------------------------------------------------------------------

\* Numbers are consecutive in an empty queue.
LEMMA SequenceInit == GatewayInit => SequenceInvariant
  BY DEF GatewayInit, SequenceInvariant, Consecutive, NoSub

\* Steps that touch neither the bus nor the socket.
LEMMA QueueSame ==
  ASSUME UNCHANGED <<out, client>>, Consecutive
  PROVE  Consecutive'
  BY DEF Consecutive, ConsecutiveAt, Before, Follows, Item, Data

\* Steps that touch neither queue, bus nor subscription.
LEMMA SequenceSame ==
  ASSUME SequenceInvariant, UNCHANGED <<live, emitted, lagged, sub, out, client, socket>>
  PROVE  SequenceInvariant'
  <1>1. LastUpdate => LastUpdate'
    BY DEF LastUpdate, Before, Item, Data
  <1> QED BY <1>1, QueueSame DEF SequenceInvariant

\* The socket is not written to any more.
LEMMA SequenceEnds ==
  ASSUME SequenceInvariant, UNCHANGED <<live, emitted>>, socket' # "up",
         sub'.number = 0 => sub'.sequence = 0
  PROVE  SequenceInvariant'
  BY DEF SequenceInvariant

\* A message without data enters the queue.
LEMMA SequenceReply ==
  ASSUME GatewayTypes, SequenceInvariant, socket = "up", socket' = "up",
         NEW m \in Messages, ~Data(m), Enqueue(<<m>>),
         UNCHANGED <<live, emitted, lagged, client>>, sub' = sub \/ sub' = NoSub
  PROVE  SequenceInvariant'
  <1>1. out \in Seq(Messages) /\ Consecutive
    BY DEF GatewayTypes, SequenceInvariant
  <1>2. /\ Consecutive'
        /\ \A j \in 0..Len(out) : Before(j, Len(out) + 1) =>
             j \in 0..Len(out') /\ Before(j, Len(out) + 1)' /\ Item(j)' = Item(j)
    BY <1>1, ReplyKeeps
  <1>3. CASE sub' = NoSub
    BY <1>2, <1>3 DEF SequenceInvariant, NoSub
  <1>4. CASE sub' = sub
    <2>1. ~lagged /\ sub.sequence > 0 => LastUpdate'
      BY <1>2, <1>4 DEF SequenceInvariant, LastUpdate
    <2> QED BY <1>2, <1>4, <2>1 DEF SequenceInvariant, LastUpdate
  <1> QED BY <1>3, <1>4

\* An event enters the receiver, or pushes the oldest one out of it.
LEMMA SequenceEmit ==
  ASSUME GatewayTypes, SequenceInvariant, Emit
  PROVE  SequenceInvariant'
  <1> DEFINE e == [event |-> emitted + 1, value |-> Head(publisher)]
  <1>0. /\ emitted' = emitted + 1 /\ emitted \in Nat /\ live \in Seq(BusEvents) /\ Len(live) \in Nat
        /\ UNCHANGED <<sub, out, client, socket>>
    BY DEF Emit, GatewayTypes
  <1>1. (socket = "up" => Consecutive)'
    BY <1>0, QueueSame DEF SequenceInvariant
  <1>2. CASE Len(live) < BusCapacity
    <2>1. live' = Append(live, e) /\ lagged' = lagged
      BY <1>2 DEF Emit
    <2>2. Len(live') = Len(live) + 1 /\ \A i \in 1..Len(live) : live'[i] = live[i]
      BY ONLY <1>0, <2>1
    <2>3. live'[Len(live) + 1].event = emitted + 1
      BY ONLY <1>0, <2>1
    <2>4. emitted' - Len(live') = emitted - Len(live)
      BY ONLY <1>0, <2>2
    <2>5. \A i \in 1..Len(live') : live'[i].event = emitted' - Len(live') + i
      <3> SUFFICES ASSUME NEW i \in 1..(Len(live) + 1) PROVE live'[i].event = emitted - Len(live) + i
        BY <2>2, <2>4
      <3>1. CASE i = Len(live) + 1
        BY ONLY <1>0, <2>3, <3>1
      <3>2. CASE i # Len(live) + 1
        <4>1. i \in 1..Len(live)
          BY ONLY <1>0, <3>2, i \in 1..(Len(live) + 1)
        <4>2. live[i].event = emitted - Len(live) + i
          BY ONLY <4>1, SequenceInvariant DEF SequenceInvariant
        <4> QED BY ONLY <2>2, <4>1, <4>2
      <3> QED BY ONLY <3>1, <3>2
    <2>6. (socket = "up" /\ ~lagged /\ sub.sequence > 0 => LastUpdate)'
      BY <1>0, <2>1, <2>4 DEF SequenceInvariant, LastUpdate, Before, Item, Data
    <2> QED BY <1>0, <1>1, <2>2, <2>5, <2>6 DEF SequenceInvariant, LastUpdate
  <1>3. CASE ~(Len(live) < BusCapacity)
    <2>1. live' = Append(Tail(live), e) /\ lagged'
      BY <1>3 DEF Emit
    <2>2. live # <<>> /\ Len(live) > 0
      BY ONLY <1>0, <1>3, CapacityAssumption
    <2>3. Len(Tail(live)) = Len(live) - 1 /\ \A i \in 1..(Len(live) - 1) : Tail(live)[i] = live[i + 1]
          /\ Tail(live) \in Seq(BusEvents)
      BY ONLY <1>0, <2>2
    <2>4. Len(live') = Len(live) /\ \A i \in 1..(Len(live) - 1) : live'[i] = live[i + 1]
      BY ONLY <1>0, <2>1, <2>2, <2>3
    <2>5. live'[Len(live)].event = emitted + 1
      BY ONLY <1>0, <2>1, <2>2, <2>3
    <2>6. \A i \in 1..Len(live') : live'[i].event = emitted' - Len(live') + i
      <3> SUFFICES ASSUME NEW i \in 1..Len(live) PROVE live'[i].event = (emitted + 1) - Len(live) + i
        BY <1>0, <2>4
      <3>1. CASE i = Len(live)
        BY ONLY <1>0, <2>5, <3>1
      <3>2. CASE i # Len(live)
        <4>1. i \in 1..(Len(live) - 1) /\ i + 1 \in 1..Len(live)
          BY ONLY <1>0, <3>2
        <4>2. live'[i].event = emitted - Len(live) + (i + 1)
          BY <2>4, <4>1 DEF SequenceInvariant
        <4> QED BY ONLY <1>0, <4>2
      <3> QED BY ONLY <3>1, <3>2
    <2>7. Len(live') <= emitted'
      BY <1>0, <2>4 DEF SequenceInvariant
    <2>8. (sub.number = 0 => sub.sequence = 0)'
      BY <1>0 DEF SequenceInvariant
    <2> QED BY ONLY <1>1, <2>1, <2>6, <2>7, <2>8, Zenon DEF SequenceInvariant
  <1> QED BY ONLY <1>2, <1>3

\* Pings and heartbeats.
LEMMA SequenceChatter ==
  ASSUME GatewayTypes, SequenceInvariant, Chatter
  PROVE  SequenceInvariant'
  <1>1. /\ socket = "up" /\ Enqueue(<<Reply("other")>>)
        /\ UNCHANGED <<live, emitted, lagged, client, sub>>
    BY DEF Chatter, Looping
  <1>2. PICK m \in Messages : m = Reply("other") /\ ~Data(m)
    BY ONLY ReplyTypes
  <1>3. CASE socket' = "up"
    BY <1>1, <1>2, <1>3, SequenceReply
  <1>4. CASE socket' # "up"
    BY <1>1, <1>4, SequenceEnds DEF SequenceInvariant
  <1> QED BY ONLY <1>3, <1>4

\* A subscription that is refused, or whose snapshot was read.
LEMMA SequenceSubscribe ==
  ASSUME GatewayTypes, SequenceInvariant, Subscribe
  PROVE  SequenceInvariant'
  <1>1. /\ socket = "up" /\ UNCHANGED <<live, emitted, lagged, client, sub>>
        /\ Enqueue(<<Reply("error")>>) \/ UNCHANGED <<out, socket>>
    BY DEF Subscribe, Looping
  <1>2. PICK m \in Messages : m = Reply("error") /\ ~Data(m)
    BY ONLY ReplyTypes
  <1>3. CASE Enqueue(<<m>>) /\ socket' = "up"
    BY <1>1, <1>2, <1>3, SequenceReply
  <1>4. CASE socket' # "up"
    BY <1>1, <1>4, SequenceEnds DEF SequenceInvariant
  <1>5. CASE UNCHANGED <<out, socket>>
    BY <1>1, <1>5, SequenceSame
  <1> QED BY ONLY <1>1, <1>2, <1>3, <1>4, <1>5

\* The subscription ends.
LEMMA SequenceUnsubscribe ==
  ASSUME GatewayTypes, SequenceInvariant, Unsubscribe
  PROVE  SequenceInvariant'
  <1>1. /\ socket = "up" /\ Enqueue(<<Reply("cancelled")>>)
        /\ UNCHANGED <<live, emitted, lagged, client>>
        /\ sub' = NoSub
    BY DEF Unsubscribe, Looping
  <1>2. PICK m \in Messages : m = Reply("cancelled") /\ ~Data(m)
    BY ONLY ReplyTypes
  <1>3. CASE socket' = "up"
    BY <1>1, <1>2, <1>3, SequenceReply
  <1>4. CASE socket' # "up"
    BY <1>1, <1>4, SequenceEnds DEF NoSub
  <1> QED BY ONLY <1>3, <1>4

\* The snapshot enters the queue, and numbers begin again.
LEMMA SequenceRegister ==
  ASSUME GatewayTypes, SequenceInvariant, Register
  PROVE  SequenceInvariant'
  <1> DEFINE m == GatewayMessage("snapshot", Head(task), requests, 0, 0)
  <1>0. /\ socket = "up" /\ UNCHANGED <<live, emitted, lagged, client>> /\ sub'.sequence = 0
        /\ Enqueue(<<Reply("active"), m>>) /\ out \in Seq(Messages) /\ Consecutive
    BY DEF Register, GatewayTypes, SequenceInvariant
  <1>1. CASE socket' # "up"
    BY <1>0, <1>1 DEF SequenceInvariant
  <1>2. CASE socket' = "up"
    <2>1. m \in Messages /\ m.type = "snapshot" /\ m.sequence = 0 /\ m.event = 0
      BY DEF Register, GatewayMessage, Messages, GatewayTypes
    <2> HIDE DEF m
    <2>2. PICK a \in Messages : a = Reply("active") /\ ~Data(a)
      BY ONLY ReplyTypes
    <2>3. <<a, m>> \in Seq(Messages) /\ Len(<<a, m>>) = 2 /\ <<a, m>>[1] = a /\ <<a, m>>[2] = m
      BY ONLY <2>1
    <2>4. PICK n \in Nat : n = Len(out)
      BY ONLY <1>0
    <2>5. /\ Len(out') = n + 2 /\ out'[n + 1] = a /\ out'[n + 2] = m
          /\ \A i \in 1..n : out'[i] = out[i]
      <3>1. /\ Len(out') = Len(out) + Len(<<a, m>>)
            /\ \A i \in 1..Len(out) : out'[i] = out[i]
            /\ \A i \in 1..Len(<<a, m>>) : out'[Len(out) + i] = <<a, m>>[i]
        BY ONLY Zenon, <1>0, <1>2, <2>2, <2>3, EnqueueShape
      <3> QED BY ONLY <2>3, <2>4, <3>1
    <2>6. Consecutive'
      <3> SUFFICES ASSUME NEW i \in 1..(n + 2) PROVE ConsecutiveAt(i)'
        BY <2>5 DEF Consecutive
      <3>1. CASE i = n + 1
        BY ONLY <2>2, <2>5, <3>1 DEF Data, ConsecutiveAt
      <3>2. CASE i = n + 2
        BY ONLY <2>1, <2>5, <3>2 DEF ConsecutiveAt
      <3>3. CASE i \in 1..n
        BY ONLY Zenon, <1>0, <2>4, <2>5, <3>3, QueueKeeps DEF Consecutive
      <3> QED BY ONLY <3>1, <3>2, <3>3
    <2> QED BY ONLY <1>0, <2>6, SequenceInvariant DEF SequenceInvariant
  <1> QED BY ONLY <1>1, <1>2

\* An update enters the queue with the next number.
LEMMA SequenceLive ==
  ASSUME GatewayTypes, SequenceInvariant, LiveEvent
  PROVE  SequenceInvariant'
  <1>0. /\ socket = "up" /\ ~lagged /\ ~lagged' /\ UNCHANGED <<emitted, client>>
        /\ out \in Seq(Messages)
        /\ live' = Tail(live) /\ live # <<>> /\ live \in Seq(BusEvents) /\ emitted \in Nat
        /\ sub.number \in Nat /\ sub.sequence \in Nat /\ sub \in [number : Nat, sequence : Nat]
    BY DEF LiveEvent, Looping, GatewayTypes
  <1>1. PICK l \in Nat : l = Len(live) /\ l > 0
    BY ONLY <1>0
  <1>2. /\ Len(live') = l - 1 /\ \A i \in 1..(l - 1) : live'[i] = live[i + 1]
        /\ Head(live) = live[1] /\ Head(live) \in BusEvents
    BY ONLY <1>0, <1>1
  <1>3. /\ Len(live') <= emitted'
        /\ \A i \in 1..Len(live') : live'[i].event = emitted' - Len(live') + i
    BY <1>0, <1>1, <1>2 DEF SequenceInvariant
  <1>4. Head(live).event = emitted - l + 1
    BY <1>0, <1>1, <1>2 DEF SequenceInvariant
  <1>5. CASE sub.number = 0
    <2>1. sub.sequence = 0 /\ UNCHANGED <<sub, out, socket>>
      BY <1>5 DEF SequenceInvariant, LiveEvent
    <2>2. Consecutive
      BY <1>0 DEF SequenceInvariant
    <2>3. Consecutive'
      BY ONLY <1>0, <2>1, <2>2, QueueSame
    <2> QED BY ONLY <1>3, <2>1, <2>3 DEF SequenceInvariant
  <1>6. CASE sub.number # 0
    <2> DEFINE m == GatewayMessage("update", Head(live).value, sub.number, sub.sequence + 1,
                                   Head(live).event)
    <2>1. Enqueue(<<m>>) /\ sub'.number = sub.number /\ sub'.sequence = sub.sequence + 1
      BY <1>0, <1>6 DEF LiveEvent
    <2>2. m \in Messages /\ Data(m) /\ m.type = "update" /\ m.number = sub.number
          /\ m.sequence = sub.sequence + 1 /\ m.event = emitted - l + 1
      BY ONLY <1>0, <1>2, <1>4 DEF GatewayMessage, Messages, BusEvents, Data
    <2> HIDE DEF m
    <2>3. CASE socket' # "up"
      BY ONLY <1>3, <1>6, <2>1, <2>3 DEF SequenceInvariant
    <2>4. CASE socket' = "up"
      <3>1. PICK n \in Nat : n = Len(out)
        BY ONLY <1>0
      <3>2. Len(out') = n + 1 /\ out'[n + 1] = m /\ \A i \in 1..n : out'[i] = out[i]
        <4>1. <<m>> \in Seq(Messages) /\ Len(<<m>>) = 1 /\ <<m>>[1] = m
          BY ONLY <2>2
        <4>2. /\ Len(out') = Len(out) + Len(<<m>>) /\ \A i \in 1..Len(out) : out'[i] = out[i]
              /\ \A i \in 1..Len(<<m>>) : out'[Len(out) + i] = <<m>>[i]
          BY ONLY Zenon, <1>0, <2>1, <2>4, <4>1, EnqueueShape
        <4> QED BY ONLY <3>1, <4>1, <4>2
      <3>3. ConsecutiveAt(n + 1)'
        <4>1. CASE sub.sequence = 0
          BY ONLY <2>2, <3>2, <4>1 DEF ConsecutiveAt
        <4>2. CASE sub.sequence > 0
          <5>1. PICK j \in 0..n : /\ Before(j, n + 1)
                                  /\ Item(j).number = sub.number /\ Item(j).sequence = sub.sequence
                                  /\ Item(j).event = emitted - l
            BY <1>0, <1>1, <3>1, <4>2 DEF SequenceInvariant, LastUpdate
          <5>2. n + 1 \in 1..(n + 1) /\ j \in 0..((n + 1) - 1)
            OBVIOUS
          <5>3. Before(j, n + 1)' /\ Item(j)' = Item(j)
            BY ONLY Zenon, <1>0, <3>2, <5>1, <5>2, Extended
          <5>4. Follows(j, n + 1)'
            BY ONLY <1>0, <1>1, <2>2, <3>2, <5>1, <5>3 DEF Follows
          <5> QED BY ONLY <2>2, <3>2, <5>2, <5>3, <5>4 DEF ConsecutiveAt
        <4> QED BY ONLY <1>0, <4>1, <4>2
      <3>4. Consecutive'
        <4> SUFFICES ASSUME NEW i \in 1..(n + 1) PROVE ConsecutiveAt(i)'
          BY <3>2 DEF Consecutive
        <4>1. CASE i = n + 1
          BY ONLY <3>3, <4>1
        <4>2. CASE i \in 1..n
          BY Zenon, <1>0, <3>1, <3>2, <4>2, QueueKeeps DEF Consecutive, SequenceInvariant
        <4> QED BY ONLY <4>1, <4>2
      <3>5. LastUpdate'
        <4>1. Before(n + 1, n + 2)'
          BY ONLY <2>2, <3>2 DEF Before
        <4>2. /\ Item(n + 1)'.number = sub'.number /\ Item(n + 1)'.sequence = sub'.sequence
              /\ Item(n + 1)'.event = emitted' - Len(live')
          BY ONLY <1>0, <1>1, <1>2, <2>1, <2>2, <3>2 DEF Item
        <4> QED BY ONLY <3>2, <4>1, <4>2 DEF LastUpdate
      <3> QED BY ONLY <1>3, <1>6, <2>1, <3>4, <3>5 DEF SequenceInvariant
    <2> QED BY ONLY <2>3, <2>4
  <1> QED BY ONLY <1>5, <1>6

\* The writer sends the oldest message.
LEMMA SequenceSends ==
  ASSUME GatewayTypes, SequenceInvariant, WriterSends
  PROVE  SequenceInvariant'
  <1>0. /\ socket = "up" /\ out # <<>> /\ out \in Seq(Messages) /\ out' = Tail(out) /\ Consecutive
        /\ UNCHANGED <<emitted, live, lagged, sub, socket>>
    BY DEF WriterSends, GatewayTypes, SequenceInvariant
  <1>1. PICK n \in Nat : n = Len(out) /\ n > 0
    BY ONLY <1>0
  <1>2. Len(out') = n - 1 /\ \A i \in 1..(n - 1) : out'[i] = out[i + 1]
    BY ONLY <1>0, <1>1
  <1>3. Consecutive'
    <2> SUFFICES ASSUME NEW i \in 1..(n - 1) PROVE ConsecutiveAt(i)'
      BY <1>2 DEF Consecutive
    <2>1. out'[i] = out[i + 1] /\ ConsecutiveAt(i + 1) /\ i + 1 \in 2..(Len(out) + 1)
      BY ONLY <1>0, <1>1, <1>2 DEF Consecutive
    <2>2. CASE out[i + 1].type = "update" /\ out[i + 1].sequence > 1
      <3>1. PICK j \in 0..((i + 1) - 1) : Before(j, i + 1) /\ Follows(j, i + 1)
        BY ONLY <2>1, <2>2 DEF ConsecutiveAt
      <3>2. PICK k \in 0..((i + 1) - 2) : Before(k, (i + 1) - 1)' /\ Item(k)' = Item(j)
        BY <1>0, <2>1, <3>1, Shifted
      <3>3. k \in 0..(i - 1) /\ Before(k, i)'
        BY ONLY <3>2
      <3>4. Follows(k, i)'
        BY ONLY <2>1, <3>1, <3>2 DEF Follows
      <3> QED BY ONLY <2>1, <3>3, <3>4 DEF ConsecutiveAt
    <2> QED BY ONLY <2>1, <2>2 DEF ConsecutiveAt
  <1>4. ASSUME LastUpdate PROVE LastUpdate'
    <2>1. PICK j \in 0..n : /\ Before(j, n + 1)
                            /\ Item(j).number = sub.number /\ Item(j).sequence = sub.sequence
                            /\ Item(j).event = emitted - Len(live)
      BY ONLY <1>1, <1>4 DEF LastUpdate
    <2>2. n + 1 \in 2..(Len(out) + 1) /\ j \in 0..((n + 1) - 1)
      BY ONLY <1>1
    <2>3. PICK k \in 0..((n + 1) - 2) : Before(k, (n + 1) - 1)' /\ Item(k)' = Item(j)
      BY <1>0, <2>1, <2>2, Shifted
    <2>4. k \in 0..Len(out') /\ Before(k, Len(out) + 1)'
      BY ONLY <1>2, <2>3
    <2> QED BY ONLY <1>0, <2>1, <2>3, <2>4 DEF LastUpdate
  <1> QED BY <1>0, <1>3, <1>4 DEF SequenceInvariant

\* Every step keeps numbers and events in step.
LEMMA SequenceStep ==
  GatewayTypes /\ SequenceInvariant /\ [GatewayNext]_gatewayVars => SequenceInvariant'
  <1> SUFFICES ASSUME GatewayTypes, SequenceInvariant, [GatewayNext]_gatewayVars
               PROVE  SequenceInvariant'
    OBVIOUS
  <1>1. ASSUME NEW b \in Bodies, NEW s \in {"Open", "Closed"}, Publish(b, s)
        PROVE  SequenceInvariant'
    BY <1>1, SequenceSame DEF Publish
  <1>2. CASE HealthChanges \/ WatchHealth
    BY <1>2, SequenceSame DEF HealthChanges, WatchHealth
  <1>3. CASE Emit
    BY <1>3, SequenceEmit
  <1>4. CASE Chatter
    BY <1>4, SequenceChatter
  <1>5. CASE Subscribe
    BY <1>5, SequenceSubscribe
  <1>6. CASE Register
    BY <1>6, SequenceRegister
  <1>7. CASE Unsubscribe
    BY <1>7, SequenceUnsubscribe
  <1>8. CASE LiveEvent
    BY <1>8, SequenceLive
  <1>9. CASE LiveLagged \/ ClientCloses \/ WriterDrops
    <2>1. UNCHANGED <<live, emitted, sub>> /\ socket' # "up"
      BY ONLY <1>9 DEF LiveLagged, ClientCloses, WriterDrops
    <2> QED BY <2>1, SequenceEnds DEF SequenceInvariant
  <1>10. CASE WriterSends
    BY <1>10, SequenceSends
  <1>11. CASE UNCHANGED gatewayVars
    BY <1>11, SequenceSame DEF gatewayVars
  <1> QED BY <1>1, <1>2, <1>3, <1>4, <1>5, <1>6, <1>7, <1>8, <1>9, <1>10, <1>11 DEF GatewayNext

\* Only the writer hands the client anything.
LEMMA HoleStep ==
  ASSUME GatewayTypes, SequenceInvariant, [GatewayNext]_gatewayVars,
         client'.sequence > 1, client' # client
  PROVE  /\ client.number = client'.number
         /\ client'.sequence = client.sequence + 1
         /\ client'.event = client.event + 1
  <1>1. WriterSends
    BY DEF GatewayNext, gatewayVars, Publish, HealthChanges, WatchHealth, Emit, Chatter, Subscribe,
           Register, Unsubscribe, LiveEvent, LiveLagged, ClientCloses, WriterDrops
  <1>2. out \in Seq(Messages) /\ out # <<>> /\ client' = Received(Head(out)) /\ Consecutive
    BY <1>1 DEF WriterSends, GatewayTypes, SequenceInvariant
  <1>3. Head(out) = out[1] /\ 1 \in 1..Len(out) /\ ConsecutiveAt(1)
    BY ONLY <1>2 DEF Consecutive
  <1>4. out[1].type = "update" /\ out[1].sequence > 1 /\ client'.number = out[1].number
        /\ client'.sequence = out[1].sequence /\ client'.event = out[1].event
    BY <1>2, <1>3 DEF Received
  <1>5. Follows(0, 1)
    BY ONLY <1>3, <1>4 DEF ConsecutiveAt
  <1> QED BY ONLY <1>4, <1>5 DEF Follows, Item

\* next_update and serve: a client that sees no gap in the sequence numbers of
\* its subscription has missed no event since its first update, whatever the bus
\* and the queue dropped.
THEOREM NumbersHideNothing == GatewaySpec => NoHoleUnderSequence
  <1>1. GatewayInit => GatewayTypes /\ SequenceInvariant
    BY ONLY GatewayTypesInit, SequenceInit
  <1>2. GatewayTypes /\ SequenceInvariant /\ [GatewayNext]_gatewayVars
          => (GatewayTypes /\ SequenceInvariant)'
    BY ONLY GatewayTypesStep, SequenceStep
  <1>3. GatewayTypes /\ SequenceInvariant /\ [GatewayNext]_gatewayVars =>
          [client'.sequence > 1 /\ client' # client =>
             /\ client.number = client'.number
             /\ client'.sequence = client.sequence + 1
             /\ client'.event = client.event + 1]_gatewayVars
    BY ONLY HoleStep
  <1> QED BY <1>1, <1>2, <1>3, PTL DEF GatewaySpec, NoHoleUnderSequence

-----------------------------------------------------------------------------

\* Nothing is shown at the start.
LEMMA ViewInit == GatewayInit => ViewInvariant
  BY DEF GatewayInit, ViewInvariant, None, Value, NoSub, Fresh

\* What is stored needs no update, nor does what was published last.
LEMMA SourcesAreFresh ==
  ASSUME GatewayTypes, ViewInvariant
  PROVE  Fresh(stored) /\ Fresh(Source)
  BY DEF GatewayTypes, ViewInvariant, Fresh, Source, Value

\* Steps of the socket leave what is published alone.
Sources == <<topic, stored, watched, published, publisher>>

\* A value is as fresh as before when nothing that decides it changed.
LEMMA FreshSame ==
  ASSUME UNCHANGED Sources, NEW v
  PROVE  (Fresh(v) <=> Fresh(v)') /\ Source' = Source
  BY DEF Sources, Fresh, Source

\* Steps that change neither the projection nor what the client will show.
LEMMA ViewSame ==
  ASSUME ViewInvariant, UNCHANGED Sources, UNCHANGED <<live, lagged, task, sub, out, client, socket>>
  PROVE  ViewInvariant'
  <1>1. Shows => Shows'
    <2>1. UNCHANGED <<topic, stored, watched, published>>
      BY DEF Sources
    <2> QED BY ONLY <2>1, UNCHANGED <<out, client>> DEF Shows, Before, Item, Data, Fresh
  <1> QED BY <1>1 DEF ViewInvariant, Sources, Fresh, Source

\* Steps of the socket with the receiver and the task as they are.
LEMMA ViewSocket ==
  ASSUME ViewInvariant, UNCHANGED Sources, UNCHANGED <<live, lagged, task>>,
         socket' = "up" => socket = "up" /\ (sub'.number = 0 \/ (sub' = sub /\ (Shows => Shows')))
  PROVE  ViewInvariant'
  <1>1. /\ topic = "health" => /\ stored = Value(published, "Open", 0)
                               /\ watched.body \in Nat /\ Fresh(watched)
        /\ publisher # <<>> => Head(publisher) = Source
        /\ publisher = <<>> /\ live # <<>> => live[Len(live)].value = Source
        /\ publisher = <<>> /\ live = <<>> =>
             /\ task # <<>> => Fresh(Head(task))
             /\ task = <<>> /\ sub.number # 0 /\ socket = "up" /\ ~lagged => Shows
    BY DEF ViewInvariant
  <1>2. (/\ topic = "health" => /\ stored = Value(published, "Open", 0)
                                /\ watched.body \in Nat /\ Fresh(watched)
         /\ publisher # <<>> => Head(publisher) = Source
         /\ publisher = <<>> /\ live # <<>> => live[Len(live)].value = Source
         /\ publisher = <<>> /\ live = <<>> => (task # <<>> => Fresh(Head(task))))'
    BY <1>1 DEF Sources, Fresh, Source, Value
  <1>3. (publisher = <<>> /\ live = <<>> /\ task = <<>> /\ sub.number # 0 /\ socket = "up" /\ ~lagged
           => Shows)'
    BY ONLY <1>1, UNCHANGED Sources, UNCHANGED <<live, lagged, task>>,
         Zenon,
         socket' = "up" => socket = "up" /\ (sub'.number = 0 \/ (sub' = sub /\ (Shows => Shows')))
       DEF Sources
  <1> QED BY ONLY <1>2, <1>3, Zenon DEF ViewInvariant

\* A message without data changes nothing the client will show.
LEMMA ViewReply ==
  ASSUME GatewayTypes, SequenceInvariant, UNCHANGED Sources, client' = client,
         socket = "up", socket' = "up",
         NEW m \in Messages, ~Data(m), Enqueue(<<m>>), Shows
  PROVE  Shows'
  <1>1. out \in Seq(Messages) /\ Consecutive
    BY DEF GatewayTypes, SequenceInvariant
  <1>2. PICK j \in 0..Len(out) : Before(j, Len(out) + 1) /\ Fresh(Item(j).view)
    BY DEF Shows
  <1>3. j \in 0..Len(out') /\ Before(j, Len(out) + 1)' /\ Item(j)' = Item(j)
    BY <1>1, <1>2, ReplyKeeps
  <1>4. Fresh(Item(j).view)'
    <2>1. PICK v : v = Item(j).view
      OBVIOUS
    <2>2. Fresh(v)'
      BY <1>2, <2>1, FreshSame
    <2> QED BY ONLY <1>3, <2>1, <2>2
  <1> QED BY ONLY <1>3, <1>4 DEF Shows

\* A projection stores a value: it is about to be emitted, or is not a change.
LEMMA ViewPublish ==
  ASSUME GatewayTypes, ViewInvariant, NEW b \in Bodies, NEW s \in {"Open", "Closed"}, Publish(b, s)
  PROVE  ViewInvariant'
  <1>1. /\ topic # "health" /\ publisher = <<>>
        /\ UNCHANGED <<topic, watched, live, lagged, task, sub, out, socket, client>>
    BY DEF Publish
  <1>2. CASE publisher' = <<stored'>>
    BY ONLY <1>1, <1>2 DEF ViewInvariant, Source
  <1>3. CASE publisher' = <<>> /\ stored' = stored
    <2>1. Shows => Shows'
      BY ONLY <1>1, <1>3 DEF Shows, Before, Item, Data, Fresh
    <2> QED BY <1>1, <1>3, <2>1 DEF ViewInvariant, Source, Fresh
  <1> QED BY <1>2, <1>3, PublishShape

\* The health record changes, and the watcher sees it.
LEMMA ViewHealth ==
  ASSUME GatewayTypes, ViewInvariant, HealthChanges \/ WatchHealth
  PROVE  ViewInvariant'
  <1>1. CASE HealthChanges
    <2>1. /\ topic = "health" /\ published' = published + 1 /\ published \in Nat
          /\ stored' = Value(published + 1, "Open", 0)
          /\ UNCHANGED <<topic, watched, publisher, live, lagged, task, sub, out, socket, client>>
      BY <1>1 DEF HealthChanges, GatewayTypes
    <2>2. ASSUME NEW v, Fresh(v) PROVE Fresh(v)'
      BY ONLY <2>1, <2>2 DEF Fresh
    <2>3. Shows => Shows'
      <3> SUFFICES ASSUME Shows PROVE Shows'
        OBVIOUS
      <3>1. PICK j \in 0..Len(out) : Before(j, Len(out) + 1) /\ Fresh(Item(j).view)
        BY DEF Shows
      <3>2. j \in 0..Len(out') /\ Before(j, Len(out) + 1)' /\ Item(j)' = Item(j)
        BY ONLY <2>1, <3>1 DEF Before, Item, Data
      <3>3. PICK v : v = Item(j).view
        OBVIOUS
      <3>4. Fresh(v)'
        BY ONLY <2>2, <3>1, <3>3
      <3> QED BY ONLY <3>2, <3>3, <3>4 DEF Shows
    <2>4. (topic = "health" =>
           stored = Value(published, "Open", 0) /\ watched.body \in Nat /\ Fresh(watched))'
      BY <2>1, <2>2 DEF ViewInvariant
    <2>5. (task # <<>> => Fresh(Head(task))) => (task # <<>> => Fresh(Head(task)))'
      <3>1. PICK v : v = Head(task)
        OBVIOUS
      <3>2. Head(task') = v /\ (Fresh(v) => Fresh(v)')
        BY ONLY <2>1, <2>2, <3>1
      <3> QED BY ONLY <2>1, <3>1, <3>2
    <2>6. Source' = Source
      BY ONLY <2>1 DEF Source
    <2> QED BY <2>1, <2>3, <2>4, <2>5, <2>6 DEF ViewInvariant
  <1>2. CASE WatchHealth
    <2>1. /\ topic = "health" /\ topic' = topic /\ stored' = stored /\ published' = published
          /\ watched' = stored /\ publisher' = <<stored>> /\ published \in Nat
      BY <1>2 DEF WatchHealth, GatewayTypes
    <2>2. stored = Value(published, "Open", 0)
      BY <2>1 DEF ViewInvariant
    <2> QED BY ONLY <2>1, <2>2 DEF ViewInvariant, Fresh, Source, Value
  <1> QED BY <1>1, <1>2

\* An event goes from the publisher to the bus.
LEMMA ViewEmit ==
  ASSUME GatewayTypes, ViewInvariant, Emit
  PROVE  ViewInvariant'
  <1> DEFINE e == [event |-> emitted + 1, value |-> Head(publisher)]
  <1>0. /\ publisher # <<>> /\ publisher' = <<>> /\ live \in Seq(BusEvents)
        /\ UNCHANGED <<topic, stored, watched, published>>
    BY DEF Emit, GatewayTypes
  <1>1. Head(publisher) = Source /\ e.value = Source
    BY <1>0 DEF ViewInvariant
  <1> HIDE DEF e
  <1>2. PICK q \in Seq(BusEvents) : live' = Append(q, e)
    <2>1. CASE Len(live) < BusCapacity
      BY <1>0, <2>1 DEF Emit, e
    <2>2. CASE ~(Len(live) < BusCapacity)
      <3>1. live # <<>>
        BY ONLY <1>0, <2>2, CapacityAssumption
      <3>2. live' = Append(Tail(live), e)
        BY <2>2 DEF Emit, e
      <3>3. Tail(live) \in Seq(BusEvents)
        BY ONLY <1>0, <3>1
      <3> QED BY ONLY Zenon, <3>2, <3>3
    <2> QED BY ONLY <2>1, <2>2
  <1>3. live' # <<>> /\ live'[Len(live')] = e
    BY <1>2
  <1>4. (topic = "health" =>
           stored = Value(published, "Open", 0) /\ watched.body \in Nat /\ Fresh(watched))'
    BY <1>0 DEF ViewInvariant, Fresh, Value
  <1>5. Source' = Source
    BY ONLY <1>0 DEF Source
  <1> QED BY ONLY <1>0, <1>1, <1>3, <1>4, <1>5 DEF ViewInvariant

\* Pings and heartbeats.
LEMMA ViewChat ==
  ASSUME GatewayTypes, SequenceInvariant, ViewInvariant, Chatter
  PROVE  ViewInvariant'
  <1>1. /\ UNCHANGED Sources /\ UNCHANGED <<live, lagged, task, sub, client>> /\ socket = "up"
        /\ Enqueue(<<Reply("other")>>)
    BY DEF Chatter, Looping, Sources
  <1>2. PICK m \in Messages : m = Reply("other") /\ ~Data(m)
    BY ONLY ReplyTypes
  <1>3. socket' = "up" => (Shows => Shows')
    BY <1>1, <1>2, ViewReply
  <1> QED BY <1>1, <1>3, ViewSocket

\* The subscription ends.
LEMMA ViewUnsubscribe ==
  ASSUME GatewayTypes, SequenceInvariant, ViewInvariant, Unsubscribe
  PROVE  ViewInvariant'
  <1>1. /\ UNCHANGED Sources /\ UNCHANGED <<live, lagged, task>> /\ socket = "up" /\ sub'.number = 0
    BY DEF Unsubscribe, Looping, Sources, NoSub
  <1> QED BY <1>1, ViewSocket

\* The snapshot is read: it is what the projection holds now.
LEMMA ViewSubscribe ==
  ASSUME GatewayTypes, SequenceInvariant, ViewInvariant, Subscribe
  PROVE  ViewInvariant'
  <1>1. /\ UNCHANGED Sources /\ UNCHANGED <<live, lagged, sub, client>> /\ socket = "up"
    BY DEF Subscribe, Looping, Sources
  <1>2. CASE sub.number # 0 \/ Snapshot = <<>>
    <2>1. Enqueue(<<Reply("error")>>) /\ task' = task
      BY <1>2 DEF Subscribe
    <2>2. PICK m \in Messages : m = Reply("error") /\ ~Data(m)
      BY ONLY ReplyTypes
    <2>3. socket' = "up" => (Shows => Shows')
      BY <1>1, <2>1, <2>2, ViewReply
    <2> QED BY <1>1, <2>1, <2>3, ViewSocket
  <1>3. CASE ~(sub.number # 0 \/ Snapshot = <<>>)
    <2>1. task' = <<stored>> /\ UNCHANGED <<topic, stored, watched, published, publisher>>
      BY <1>1, <1>3 DEF Subscribe, Snapshot, Sources
    <2>2. Fresh(Head(task))'
      <3>1. Fresh(stored)
        BY SourcesAreFresh
      <3>2. PICK v : v = stored
        OBVIOUS
      <3>3. Fresh(v)'
        BY ONLY <1>1, <3>1, <3>2, FreshSame
      <3> QED BY ONLY <2>1, <3>2, <3>3
    <2>3. (topic = "health" =>
           stored = Value(published, "Open", 0) /\ watched.body \in Nat /\ Fresh(watched))'
      BY <2>1 DEF ViewInvariant, Fresh, Value
    <2>4. Source' = Source
      BY ONLY <2>1 DEF Source
    <2> QED BY <1>1, <2>1, <2>2, <2>3, <2>4 DEF ViewInvariant
  <1> QED BY ONLY <1>2, <1>3

\* The snapshot that was read enters the queue.
LEMMA ViewRegister ==
  ASSUME GatewayTypes, ViewInvariant, Register
  PROVE  ViewInvariant'
  <1> DEFINE m == GatewayMessage("snapshot", Head(task), requests, 0, 0)
  <1>0. /\ socket = "up" /\ UNCHANGED <<live, lagged, client>> /\ UNCHANGED Sources
        /\ task # <<>> /\ task' = <<>> /\ task \in Seq(Values) /\ requests \in Nat
        /\ Enqueue(<<Reply("active"), m>>) /\ out \in Seq(Messages)
    BY DEF Register, GatewayTypes, Sources
  <1>1. UNCHANGED <<topic, stored, watched, published, publisher>>
    BY ONLY <1>0 DEF Sources
  <1>2. ASSUME socket' = "up", publisher = <<>>, live = <<>> PROVE Shows'
    <2>1. m \in Messages /\ Data(m) /\ m.value = Head(task)
      BY ONLY <1>0 DEF GatewayMessage, Messages, Data
    <2> HIDE DEF m
    <2>2. PICK a \in Messages : a = Reply("active")
      BY ONLY ReplyTypes
    <2>3. <<a, m>> \in Seq(Messages) /\ Len(<<a, m>>) = 2 /\ <<a, m>>[2] = m
      BY ONLY <2>1
    <2>4. PICK n \in Nat : n = Len(out)
      BY ONLY <1>0
    <2>5. Len(out') = n + 2 /\ out'[n + 2] = m
      <3>1. /\ Len(out') = Len(out) + Len(<<a, m>>)
            /\ \A i \in 1..Len(<<a, m>>) : out'[Len(out) + i] = <<a, m>>[i]
        BY ONLY Zenon, <1>0, <1>2, <2>2, <2>3, EnqueueShape
      <3> QED BY ONLY <2>3, <2>4, <3>1
    <2>6. Before(n + 2, Len(out) + 1)' /\ Item(n + 2)'.view = Head(task)
      BY ONLY <2>1, <2>5 DEF Before, Item
    <2>7. PICK v : v = Head(task)
      OBVIOUS
    <2>8. Fresh(v)'
      BY <1>0, <1>2, <2>7, FreshSame DEF ViewInvariant
    <2> QED BY ONLY <2>5, <2>6, <2>7, <2>8 DEF Shows
  <1>3. (topic = "health" =>
           stored = Value(published, "Open", 0) /\ watched.body \in Nat /\ Fresh(watched))'
    BY <1>1 DEF ViewInvariant, Fresh, Value
  <1>4. Source' = Source
    BY ONLY <1>1 DEF Source
  <1> QED BY <1>0, <1>1, <1>2, <1>3, <1>4 DEF ViewInvariant

\* An update enters the queue: it is what its event carried.
LEMMA ViewLive ==
  ASSUME GatewayTypes, SequenceInvariant, ViewInvariant, LiveEvent
  PROVE  ViewInvariant'
  <1>0. /\ socket = "up" /\ task = <<>> /\ task' = <<>> /\ out \in Seq(Messages) /\ UNCHANGED Sources
        /\ client' = client
        /\ live' = Tail(live) /\ live # <<>> /\ live \in Seq(BusEvents)
        /\ sub.number \in Nat /\ sub.sequence \in Nat /\ sub \in [number : Nat, sequence : Nat]
    BY DEF LiveEvent, Looping, GatewayTypes, Sources
  <1>1. UNCHANGED <<topic, stored, watched, published, publisher>>
    BY ONLY <1>0 DEF Sources
  <1>2. PICK l \in Nat : l = Len(live) /\ l > 0
    BY ONLY <1>0
  <1>3. /\ Len(live') = l - 1 /\ \A i \in 1..(l - 1) : live'[i] = live[i + 1]
        /\ Head(live) = live[1] /\ Head(live) \in BusEvents
    BY ONLY <1>0, <1>2
  <1>4. publisher' = <<>> /\ live' # <<>> => live'[Len(live')].value = Source'
    <2>1. Source' = Source
      BY ONLY <1>1 DEF Source
    <2> SUFFICES ASSUME publisher = <<>>, live' # <<>> PROVE live'[Len(live')].value = Source
      BY <1>1, <2>1
    <2>2. l - 1 \in 1..(l - 1)
      <3>1. live' \in Seq(BusEvents)
        BY ONLY <1>0
      <3>2. Len(live') > 0
        BY <3>1
      <3> QED BY ONLY <1>2, <1>3, <3>2
    <2>3. live'[l - 1] = live[l]
      BY ONLY <1>2, <1>3, <2>2
    <2> QED BY <1>0, <1>2, <1>3, <2>3 DEF ViewInvariant
  <1>5. ASSUME publisher = <<>>, live' = <<>>, sub'.number # 0, socket' = "up" PROVE Shows'
    <2> DEFINE m == GatewayMessage("update", Head(live).value, sub.number, sub.sequence + 1,
                                   Head(live).event)
    <2>1. l = 1
      <3>1. Len(live') = 0
        BY ONLY <1>5
      <3>2. l - 1 = 0
        BY ONLY <1>3, <3>1
      <3> QED BY ONLY <3>2, l \in Nat
    <2>2. Head(live).value = Source
      BY <1>0, <1>2, <1>3, <1>5, <2>1 DEF ViewInvariant
    <2>3. sub.number # 0
      BY <1>0, <1>5 DEF LiveEvent
    <2>4. Enqueue(<<m>>)
      BY <2>3 DEF LiveEvent
    <2>5. m \in Messages /\ Data(m) /\ m.value = Source
      BY ONLY <1>0, <1>3, <2>2 DEF GatewayMessage, Messages, BusEvents, Data
    <2> HIDE DEF m
    <2>6. PICK n \in Nat : n = Len(out)
      BY ONLY <1>0
    <2>7. Len(out') = n + 1 /\ out'[n + 1] = m
      <3>1. <<m>> \in Seq(Messages) /\ Len(<<m>>) = 1 /\ <<m>>[1] = m
        BY ONLY <2>5
      <3>2. /\ Len(out') = Len(out) + Len(<<m>>)
            /\ \A i \in 1..Len(<<m>>) : out'[Len(out) + i] = <<m>>[i]
        BY ONLY Zenon, <1>0, <1>5, <2>4, <3>1, EnqueueShape
      <3> QED BY ONLY <2>6, <3>1, <3>2
    <2>8. PICK v : v = Source /\ Fresh(v)
      BY SourcesAreFresh
    <2>9. Fresh(v)'
      BY ONLY <1>0, <2>8, FreshSame
    <2>10. Before(n + 1, Len(out) + 1)' /\ Item(n + 1)'.view = v
      BY ONLY <2>5, <2>7, <2>8 DEF Before, Item
    <2> QED BY ONLY <2>7, <2>9, <2>10 DEF Shows
  <1>6. (topic = "health" =>
           stored = Value(published, "Open", 0) /\ watched.body \in Nat /\ Fresh(watched))'
    BY <1>1 DEF ViewInvariant, Fresh, Value
  <1>7. publisher' # <<>> => Head(publisher') = Source'
    BY <1>1 DEF ViewInvariant, Source
  <1> QED BY ONLY <1>0, <1>1, <1>4, <1>5, <1>6, <1>7 DEF ViewInvariant

\* The client takes the oldest message.
LEMMA ViewSends ==
  ASSUME GatewayTypes, SequenceInvariant, ViewInvariant, WriterSends
  PROVE  ViewInvariant'
  <1>0. /\ socket = "up" /\ out # <<>> /\ out \in Seq(Messages) /\ out' = Tail(out) /\ Consecutive
        /\ UNCHANGED Sources /\ UNCHANGED <<live, lagged, task, sub, socket>>
    BY DEF WriterSends, GatewayTypes, SequenceInvariant, Sources
  <1>1. ASSUME Shows PROVE Shows'
    <2>0. PICK n \in Nat : n = Len(out) /\ n > 0 /\ Len(out') = n - 1
      BY ONLY <1>0
    <2>1. PICK j \in 0..n : Before(j, n + 1) /\ Fresh(Item(j).view)
      BY ONLY <1>1, <2>0 DEF Shows
    <2>2. n + 1 \in 2..(Len(out) + 1) /\ j \in 0..((n + 1) - 1)
      BY ONLY <2>0
    <2>3. PICK k \in 0..((n + 1) - 2) : Before(k, (n + 1) - 1)' /\ Item(k)' = Item(j)
      BY <1>0, <2>1, <2>2, Shifted
    <2>4. k \in 0..Len(out') /\ Before(k, Len(out) + 1)'
      BY ONLY <2>0, <2>3
    <2>5. PICK v : v = Item(j).view
      OBVIOUS
    <2>6. Fresh(v)'
      BY ONLY <1>0, <2>1, <2>5, FreshSame
    <2> QED BY ONLY <2>3, <2>4, <2>5, <2>6 DEF Shows
  <1> QED BY <1>0, <1>1, ViewSocket

\* Every step keeps the view fresh.
LEMMA ViewStep ==
  GatewayTypes /\ SequenceInvariant /\ ViewInvariant /\ [GatewayNext]_gatewayVars => ViewInvariant'
  <1> SUFFICES ASSUME GatewayTypes, SequenceInvariant, ViewInvariant, [GatewayNext]_gatewayVars
               PROVE  ViewInvariant'
    OBVIOUS
  <1>1. ASSUME NEW b \in Bodies, NEW s \in {"Open", "Closed"}, Publish(b, s)
        PROVE  ViewInvariant'
    BY <1>1, ViewPublish
  <1>2. CASE HealthChanges \/ WatchHealth
    BY <1>2, ViewHealth
  <1>3. CASE Emit
    BY <1>3, ViewEmit
  <1>4. CASE Chatter
    BY <1>4, ViewChat
  <1>5. CASE Subscribe
    BY <1>5, ViewSubscribe
  <1>6. CASE Register
    BY <1>6, ViewRegister
  <1>7. CASE Unsubscribe
    BY <1>7, ViewUnsubscribe
  <1>8. CASE LiveEvent
    BY <1>8, ViewLive
  <1>9. CASE LiveLagged \/ ClientCloses \/ WriterDrops
    <2>1. UNCHANGED Sources /\ UNCHANGED <<live, lagged, task>> /\ socket' # "up"
      BY ONLY <1>9 DEF LiveLagged, ClientCloses, WriterDrops, Sources
    <2> QED BY <2>1, ViewSocket
  <1>10. CASE WriterSends
    BY <1>10, ViewSends
  <1>11. CASE UNCHANGED gatewayVars
    BY <1>11, ViewSame DEF gatewayVars, Sources
  <1> QED BY <1>1, <1>2, <1>3, <1>4, <1>5, <1>6, <1>7, <1>8, <1>9, <1>10, <1>11 DEF GatewayNext

\* subscribe, next_update and the projections: with nothing under way between
\* the projection and an accepted subscription, the client shows what the
\* projection holds.
THEOREM QuietClientIsCurrent == GatewaySpec => []ClientCatchesUp
  <1>1. GatewayInit => GatewayTypes /\ SequenceInvariant /\ ViewInvariant
    BY ONLY GatewayTypesInit, SequenceInit, ViewInit
  <1>2. GatewayTypes /\ SequenceInvariant /\ ViewInvariant /\ [GatewayNext]_gatewayVars =>
          (GatewayTypes /\ SequenceInvariant /\ ViewInvariant)'
    BY ONLY GatewayTypesStep, SequenceStep, ViewStep
  <1>3. GatewayTypes /\ ViewInvariant => ClientCatchesUp
    <2> SUFFICES ASSUME GatewayTypes, ViewInvariant, Quiet PROVE client.view = stored
      BY DEF ClientCatchesUp
    <2>1. PICK j \in 0..Len(out) : Before(j, Len(out) + 1) /\ Fresh(Item(j).view)
      BY DEF ViewInvariant, Quiet, Shows
    <2>2. j = 0 /\ Fresh(client.view)
      BY <2>1 DEF Quiet, Item
    <2>3. CASE topic # "health"
      BY ONLY <2>2, <2>3 DEF Fresh
    <2>4. CASE topic = "health"
      <3>1. watched = stored /\ stored = Value(published, "Open", 0) /\ published \in Nat
        BY <2>4 DEF Quiet, ViewInvariant, GatewayTypes
      <3>2. client.view.body = stored.body /\ client.view.state = stored.state
            /\ client.view.revision = stored.revision
        BY ONLY <2>2, <2>4, <3>1 DEF Fresh, Value
      <3>3. client.view \in Values /\ stored \in Values
        BY DEF GatewayTypes, ClientStates
      <3> QED BY ONLY <3>2, <3>3, ValueExtensional
    <2> QED BY ONLY <2>3, <2>4
  <1> QED BY <1>1, <1>2, <1>3, PTL DEF GatewaySpec
=============================================================================
