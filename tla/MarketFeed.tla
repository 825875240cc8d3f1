----------------------------- MODULE MarketFeed -----------------------------
(***************************************************************************)
(* The market data stream: MarketDataStreamSupervisor (crates/vox-tinvest/ *)
(* src/market_stream.rs) over its MarketSubscriptionRegistry               *)
(* (market_data.rs).  A connection is confirmed in two rounds: every       *)
(* desired subscription is acknowledged, then the broker's own list of     *)
(* active subscriptions must name the same ones.  The sequence gate        *)
(* outlives connections; the registry's confirmations do not.              *)
(*                                                                         *)
(* An identity is the connection's number and how often the broker created *)
(* the subscription on it.  Times and fingerprints are small numbers.      *)
(* Order books are passed on as they come; the registry only notes whether *)
(* they were consistent.                                                   *)
(***************************************************************************)
EXTENDS Naturals, Sequences

CONSTANTS
  Desired,        \* the subscriptions inserted into the registry
  Books,          \* those of order books, which do not pass the gate
  MaxReconnects,  \* max_reconnect_attempts
  MaxConnections, \* bound on connections
  Times,          \* event times
  Prints          \* fingerprints: the encoded events

ASSUME FeedAssumption == Times \subseteq Nat

VARIABLES
  feed,       \* the run loop: pc, reconnect_attempt, control phase
  entries,    \* registry: Pending, a confirmed identity, or Rejected
  confirmed,  \* broker_confirmed of this connection
  gate,       \* sequence gate: latest time and its fingerprints
  active,     \* the broker: identity of each subscription on this connection
  connection, \* number of the connection
  delivered   \* what the consumer got, per subscription

feedVars == <<feed, entries, confirmed, gate, active, connection, delivered>>

Pending == <<0, 0>>
Rejected == <<0, 1>>

Gated == Desired \ Books

NothingSeen == [latest |-> 0, prints |-> {}]

FeedInit ==
  /\ feed = [pc |-> "top", attempt |-> 0, phase |-> "none"]
  /\ entries = [s \in Desired |-> Pending]
  /\ confirmed = {} /\ connection = 0
  /\ gate = [s \in Gated |-> NothingSeen]
  /\ active = [s \in Desired |-> Pending]
  /\ delivered = [s \in Gated |-> <<>>]

-----------------------------------------------------------------------------
(* The loop.                                                               *)

Rests == UNCHANGED <<entries, confirmed, gate, active, connection, delivered>>

FeedTop ==
  /\ feed.pc = "top"
  /\ feed' = [feed EXCEPT !.pc = CASE feed.attempt = 0 -> "connect"
                                   [] feed.attempt > MaxReconnects -> "done"
                                   [] OTHER -> "wait"]
  /\ Rests

FeedWait == feed.pc = "wait" /\ feed' = [feed EXCEPT !.pc = "connect"] /\ Rests

\* stop() or a dropped handle, in any wait.
FeedStop == feed.pc \in {"top", "wait", "read"} /\ feed' = [feed EXCEPT !.pc = "done"] /\ Rests

\* registry.disconnected() before each attempt.
Disconnected == [s \in Desired |-> Pending]

\* Only a failure to connect uses up the budget: Connected gives it back.
FeedConnect ==
  /\ feed.pc = "connect" /\ connection < MaxConnections
  /\ feed' = [pc |-> "read", attempt |-> 0, phase |-> "AwaitingSubscribeAcks"]
  /\ entries' = Disconnected /\ confirmed' = {}
  /\ connection' = connection + 1
  /\ active' = [s \in Desired |-> <<connection + 1, 1>>]
  /\ UNCHANGED <<gate, delivered>>

\* should_reconnect, then the budget.
Breaks(reconnect) ==
  feed' = [feed EXCEPT !.attempt = @ + 1,
                       !.pc = IF reconnect /\ feed.attempt + 1 <= MaxReconnects THEN "top" ELSE "done"]

FeedConnectFails ==
  /\ feed.pc = "connect"
  /\ \E reconnect \in BOOLEAN : Breaks(reconnect)
  /\ entries' = Disconnected
  /\ UNCHANGED <<confirmed, gate, active, connection, delivered>>

\* Stale, closed, an error of the stream, or an event nobody asked for.
FeedBreaks ==
  /\ feed.pc = "read"
  /\ \E reconnect \in BOOLEAN : Breaks(reconnect)
  /\ Rests

-----------------------------------------------------------------------------
(* process_response                                                        *)

\* all_confirmed: the list of active subscriptions is requested once.
AllConfirmed(e) == Desired # {} /\ \A s \in Desired : e[s] \notin {Pending, Rejected}

\* A response to the subscribe request.  In the second round the same
\* message is an entry of the active list, in the third it is an error.
\* Mutant: an active entry need not be the subscription that was confirmed.
ActiveMatchesLoosely(s, identity) == entries[s] \notin {Pending, Rejected}

ActiveMatches(s, identity) == entries[s] = identity

AckSubscribe(s, identity, success) ==
  /\ feed.phase = "AwaitingSubscribeAcks"
  /\ entries' = [entries EXCEPT ![s] = IF success THEN identity ELSE Rejected]
  /\ IF success
     THEN feed' = [feed EXCEPT !.phase = IF AllConfirmed(entries') THEN "AwaitingActiveSnapshot" ELSE @]
     ELSE Breaks(FALSE)
  /\ UNCHANGED confirmed

AckSnapshot(s, identity, success) ==
  /\ feed.phase = "AwaitingActiveSnapshot"
  /\ IF success /\ ActiveMatches(s, identity)
     THEN /\ confirmed' = confirmed \union {s}
          /\ feed' = [feed EXCEPT !.phase = IF Desired \subseteq confirmed' THEN "Active" ELSE @]
          /\ UNCHANGED entries
     ELSE /\ Breaks(FALSE)
          /\ entries' = IF success THEN entries ELSE [entries EXCEPT ![s] = Rejected]
          /\ UNCHANGED confirmed

AckUnexpected == feed.phase = "Active" /\ Breaks(FALSE) /\ UNCHANGED <<entries, confirmed>>

Acknowledge(s, success) ==
  /\ feed.pc = "read"
  /\ \/ AckSubscribe(s, active[s], success)
     \/ AckSnapshot(s, active[s], success)
     \/ AckUnexpected
  /\ UNCHANGED <<gate, active, connection, delivered>>

\* Mutant: only a repetition is refused.
DispositionAnyOrder(s, t, p) ==
  IF t = gate[s].latest /\ p \in gate[s].prints THEN "Duplicate" ELSE "Accept"

\* EventSequenceGate::observe
Disposition(s, t, p) ==
  CASE t < gate[s].latest -> "OutOfOrder"
    [] t = gate[s].latest /\ p \in gate[s].prints -> "Duplicate"
    [] OTHER -> "Accept"

Observed(s, t, p) ==
  [latest |-> t, prints |-> IF t = gate[s].latest THEN gate[s].prints \union {p} ELSE {p}]

\* An event is taken before its acknowledgement too; what the gate refuses is
\* reported as dropped.
Event(s, t, p) ==
  /\ feed.pc = "read"
  /\ IF Disposition(s, t, p) = "Accept"
     THEN /\ gate' = [gate EXCEPT ![s] = Observed(s, t, p)]
          /\ delivered' = [delivered EXCEPT ![s] = Append(@, <<t, p>>)]
     ELSE UNCHANGED <<gate, delivered>>
  /\ UNCHANGED <<feed, entries, confirmed, active, connection>>

\* The broker drops a subscription and creates it again before it lists it.
BrokerRecreates(s) ==
  /\ feed.pc = "read" /\ active[s][2] = 1 /\ s \notin confirmed
  /\ active' = [active EXCEPT ![s][2] = 2]
  /\ UNCHANGED <<feed, entries, confirmed, gate, connection, delivered>>

FeedNext ==
  \/ FeedTop \/ FeedWait \/ FeedStop \/ FeedConnect \/ FeedConnectFails \/ FeedBreaks
  \/ \E s \in Desired, success \in BOOLEAN : Acknowledge(s, success)
  \/ \E s \in Gated, t \in Times, p \in Prints : Event(s, t, p)
  \/ \E s \in Desired : BrokerRecreates(s)

FeedSpec == FeedInit /\ [][FeedNext]_feedVars

-----------------------------------------------------------------------------
(* Properties.                                                             *)

\* What the consumer gets of one subscription never goes back in time and
\* never comes twice, across reconnects as well (EventSequenceGate).
FeedMovesForward ==
  [][\A s \in Gated : \A i \in 1..Len(delivered[s]) :
       delivered'[s] # delivered[s] =>
         LET last == delivered'[s][Len(delivered'[s])]
         IN delivered[s][i][1] <= last[1] /\ delivered[s][i] # last]_feedVars

\* When a connection is reported as confirmed, every desired subscription has
\* been acknowledged on this very connection, and the broker lists it under
\* the identity it acknowledged (process_response, apply_subscription_status).
ConfirmedHere ==
  feed.pc = "read" /\ feed.phase = "Active" =>
    \A s \in Desired : entries[s] = active[s] /\ active[s][1] = connection
=============================================================================
