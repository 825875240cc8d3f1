---------------------------- MODULE EventGateway ----------------------------
(***************************************************************************)
(* One browser on the event gateway: the projections that publish          *)
(* (crates/vox-api/src/market_project.rs, events.rs), the broadcast bus,   *)
(* and one socket of transport/ws.rs with its main loop, its bounded       *)
(* outbound queue, its writer task and the client behind it.               *)
(*                                                                         *)
(* One topic of one instrument.  A value has a body and, for a candle, the *)
(* state and revision of apply_candle_lifecycle.  Publishers follow one    *)
(* another.  Emitted events are numbered, which no message carries: the    *)
(* numbers are what the client's sequence is compared with.                *)
(***************************************************************************)
EXTENDS Naturals, Sequences

CONSTANTS
  Bodies,        \* contents of a value
  MaxPublished,  \* bound on publications
  MaxRequests,   \* bound on client messages and heartbeats
  BusCapacity,   \* APPLICATION_EVENT_CAPACITY
  QueueCapacity  \* OUTBOUND_QUEUE_CAPACITY

ASSUME CapacityAssumption == BusCapacity \in Nat \ {0} /\ QueueCapacity \in Nat

VARIABLES
  topic,     \* "quote", "candles" or "health"
  stored,    \* what a snapshot reads
  watched,   \* spawn_runtime_health_watch: what it saw last
  publisher, \* between the store and the emit, what is about to be emitted
  emitted,   \* events emitted so far
  live,      \* the socket's receiver on the bus
  lagged,    \* the receiver lost its oldest event
  task,      \* the socket's main loop, and the snapshot it holds
  sub,       \* the subscription: which one, and its sequence
  out,       \* the outbound queue
  socket,    \* "up", "slow" (drop signalled), "gone"
  client,    \* what the client has: view, and the last update
  published, requests

gatewayVars == <<topic, stored, watched, publisher, emitted, live, lagged, task, sub, out, socket,
                 client, published, requests>>

Value(b, s, r) == [body |-> b, state |-> s, revision |-> r]
None == Value(0, "Open", 0)

NoSub == [number |-> 0, sequence |-> 0]

GatewayInit ==
  /\ topic \in {"quote", "candles", "health"}
  /\ stored = None /\ watched = None /\ publisher = <<>> /\ emitted = 0
  /\ live = <<>> /\ lagged = FALSE
  /\ task = <<>> /\ sub = NoSub /\ out = <<>> /\ socket = "up"
  /\ client = [view |-> None, number |-> 0, sequence |-> 0, event |-> 0]
  /\ published = 0 /\ requests = 0

-----------------------------------------------------------------------------
(* Publishing.                                                             *)

\* apply_candle_lifecycle
Lifecycle(prior, incoming) ==
  LET same == prior.body = incoming.body
  IN CASE prior.state = "Open" /\ incoming.state = "Open" ->
            [incoming EXCEPT !.revision = IF same THEN prior.revision ELSE prior.revision + 1]
       [] prior.state = "Open" /\ incoming.state # "Open" ->
            [incoming EXCEPT !.revision = prior.revision + 1, !.state = "Closed"]
       [] prior.state # "Open" /\ incoming.state # "Open" /\ same ->
            [incoming EXCEPT !.revision = prior.revision, !.state = prior.state]
       [] OTHER -> [incoming EXCEPT !.revision = prior.revision + 1, !.state = "Corrected"]

\* Mutant: only a change of state is published.
StateChanged(prior, now) == prior = None \/ prior.state # now.state

\* publish_candles and publish_session emit a change only.
Changed(prior, now) == prior = None \/ prior.state # now.state \/ prior.revision # now.revision

\* The store under its lock; the emit comes after it is given back.
Publish(b, s) ==
  /\ topic # "health" /\ publisher = <<>> /\ published < MaxPublished
  /\ published' = published + 1
  /\ LET incoming == Value(b, s, 0)
         now == IF topic = "quote" \/ stored = None THEN incoming ELSE Lifecycle(stored, incoming)
     IN /\ topic = "quote" => s = "Open"
        /\ stored' = now
        /\ publisher' = IF topic = "quote" \/ Changed(stored, now) THEN <<now>> ELSE <<>>
  /\ UNCHANGED <<topic, watched, emitted, live, lagged, task, sub, out, socket, client, requests>>

\* A health record carries the age of the last reconciliation, so it does
\* not come back to an earlier value.
HealthChanges ==
  /\ topic = "health" /\ published < MaxPublished
  /\ published' = published + 1
  /\ stored' = Value(published + 1, "Open", 0)
  /\ UNCHANGED <<topic, watched, publisher, emitted, live, lagged, task, sub, out, socket, client,
                 requests>>

\* The watcher read the port and saw a difference.
WatchHealth ==
  /\ topic = "health" /\ publisher = <<>> /\ watched # stored
  /\ watched' = stored /\ publisher' = <<stored>>
  /\ UNCHANGED <<topic, stored, emitted, live, lagged, task, sub, out, socket, client, published,
                 requests>>

\* A receiver that is a whole bus behind loses its oldest event.
Emit ==
  /\ publisher # <<>>
  /\ publisher' = <<>> /\ emitted' = emitted + 1
  /\ LET e == [event |-> emitted + 1, value |-> Head(publisher)]
     IN IF Len(live) < BusCapacity
        THEN live' = Append(live, e) /\ UNCHANGED lagged
        ELSE live' = Append(Tail(live), e) /\ lagged' = TRUE
  /\ UNCHANGED <<topic, stored, watched, task, sub, out, socket, client, published, requests>>

-----------------------------------------------------------------------------
(* The main loop of the socket.  It waits for nothing but its select: what *)
(* does not fit into the queue drops the client.                           *)

GatewayMessage(type, value, number, sequence, event) ==
  [type |-> type, value |-> value, number |-> number, sequence |-> sequence, event |-> event]

Reply(type) == GatewayMessage(type, None, 0, 0, 0)

\* try_send, one after the other.
Enqueue(ms) ==
  LET room == QueueCapacity - Len(out)
  IN IF Len(ms) <= room
     THEN out' = out \o ms /\ UNCHANGED socket
     ELSE out' = out \o SubSeq(ms, 1, room) /\ socket' = "slow"

Looping == socket = "up" /\ task = <<>>
Request == requests < MaxRequests /\ requests' = requests + 1

\* A ping, a heartbeat of the server, a message that makes no sense.
Chatter ==
  /\ Looping /\ Request /\ Enqueue(<<Reply("other")>>)
  /\ UNCHANGED <<topic, stored, watched, publisher, emitted, live, lagged, task, sub, client, published>>

\* market_snapshot: nothing when the projection has no value yet.
Snapshot == IF topic # "health" /\ stored = None THEN <<>> ELSE <<stored>>

\* The snapshot is read first, and an id in use is refused.
Subscribe ==
  /\ Looping /\ Request
  /\ IF sub.number # 0 \/ Snapshot = <<>>
     THEN Enqueue(<<Reply("error")>>) /\ UNCHANGED task
     ELSE task' = Snapshot /\ UNCHANGED <<out, socket>>
  /\ UNCHANGED <<topic, stored, watched, publisher, emitted, live, lagged, sub, client, published>>

\* Registered after the read; events that came meanwhile are still queued.
Register ==
  /\ socket = "up" /\ task # <<>>
  /\ sub' = [number |-> requests, sequence |-> 0]
  /\ Enqueue(<<Reply("active"), GatewayMessage("snapshot", Head(task), requests, 0, 0)>>)
  /\ task' = <<>>
  /\ UNCHANGED <<topic, stored, watched, publisher, emitted, live, lagged, client, published, requests>>

Unsubscribe ==
  /\ Looping /\ Request
  /\ sub' = NoSub /\ Enqueue(<<Reply("cancelled")>>)
  /\ UNCHANGED <<topic, stored, watched, publisher, emitted, live, lagged, task, client, published>>

\* Mutant: a lagging receiver goes on with what is left.
LiveEventAnyway ==
  /\ Looping /\ live # <<>>
  /\ live' = Tail(live) /\ lagged' = FALSE
  /\ IF sub.number = 0
     THEN UNCHANGED <<sub, out, socket>>
     ELSE /\ sub' = [sub EXCEPT !.sequence = @ + 1]
          /\ Enqueue(<<GatewayMessage("update", Head(live).value, sub.number, sub.sequence + 1, Head(live).event)>>)
  /\ UNCHANGED <<topic, stored, watched, publisher, emitted, task, client, published, requests>>

\* updates_for: the next sequence number of the subscription.
LiveEvent ==
  /\ Looping /\ live # <<>> /\ ~lagged
  /\ live' = Tail(live)
  /\ IF sub.number = 0
     THEN UNCHANGED <<sub, out, socket>>
     ELSE /\ sub' = [sub EXCEPT !.sequence = @ + 1]
          /\ Enqueue(<<GatewayMessage("update", Head(live).value, sub.number, sub.sequence + 1, Head(live).event)>>)
  /\ UNCHANGED <<topic, stored, watched, publisher, emitted, lagged, task, client, published, requests>>

LiveLagged ==
  /\ Looping /\ lagged
  /\ socket' = "slow"
  /\ UNCHANGED <<topic, stored, watched, publisher, emitted, live, lagged, task, sub, out, client,
                 published, requests>>

\* The client closes; nothing is said.
ClientCloses ==
  /\ Looping
  /\ socket' = "gone"
  /\ UNCHANGED <<topic, stored, watched, publisher, emitted, live, lagged, task, sub, out, client,
                 published, requests>>

-----------------------------------------------------------------------------
(* The writer, and the client at the other end.                            *)

Received(m) ==
  CASE m.type = "snapshot" -> [view |-> m.value, number |-> m.number, sequence |-> 0, event |-> 0]
    [] m.type = "update" -> [view |-> m.value, number |-> m.number, sequence |-> m.sequence, event |-> m.event]
    [] OTHER -> client

WriterSends ==
  /\ socket = "up" /\ out # <<>>
  /\ out' = Tail(out) /\ client' = Received(Head(out))
  /\ UNCHANGED <<topic, stored, watched, publisher, emitted, live, lagged, task, sub, socket,
                 published, requests>>

\* Biased: once the drop is signalled the queue is left as it is, the status
\* is tried once and the socket ends.  A send that does not end within its
\* deadline ends it the same way.
WriterDrops ==
  /\ socket = "slow" \/ (socket = "up" /\ out # <<>>)
  /\ socket' = "gone"
  /\ UNCHANGED <<topic, stored, watched, publisher, emitted, live, lagged, task, sub, out, client,
                 published, requests>>

GatewayNext ==
  \/ \E b \in Bodies, s \in {"Open", "Closed"} : Publish(b, s)
  \/ HealthChanges \/ WatchHealth \/ Emit
  \/ Chatter \/ Subscribe \/ Register \/ Unsubscribe
  \/ LiveEvent \/ LiveLagged \/ ClientCloses
  \/ WriterSends \/ WriterDrops

GatewaySpec == GatewayInit /\ [][GatewayNext]_gatewayVars

-----------------------------------------------------------------------------
(* Properties.                                                             *)

\* Consecutive sequence numbers mean consecutive events: a client that sees no
\* gap in the numbers has missed nothing since its first update, whatever the
\* queue and the bus dropped (next_update, serve).
NoHoleUnderSequence ==
  [][client'.sequence > 1 /\ client' # client =>
       /\ client.number = client'.number
       /\ client'.sequence = client.sequence + 1
       /\ client'.event = client.event + 1]_gatewayVars

\* With nothing under way the client shows what the projection holds: the
\* snapshot and the updates behind it leave no change out, although one is
\* read and the others are queued independently (subscribe, publish_candles).
Quiet ==
  /\ socket = "up" /\ task = <<>> /\ sub.number # 0 /\ client.number = sub.number
  /\ publisher = <<>> /\ live = <<>> /\ ~lagged /\ out = <<>>
  /\ topic = "health" => watched = stored

ClientCatchesUp == Quiet => client.view = stored
=============================================================================
