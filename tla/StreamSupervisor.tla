-------------------------- MODULE StreamSupervisor --------------------------
(***************************************************************************)
(* The supervised streams of the broker adapter: the run loops of          *)
(* crates/vox-tinvest/src/execution_stream.rs (orders and trades) and      *)
(* operations_stream.rs, one instance of a loop per start().               *)
(*                                                                         *)
(* The account is a version number.  The broker sends one event per change *)
(* to every open connection, in order; an acknowledgement carries the      *)
(* version at which the subscription began.  What is sent while there is   *)
(* no connection is lost.  `seen` and `gap` are what the consumer knows.   *)
(***************************************************************************)
EXTENDS Naturals, Sequences

CONSTANTS
  Instances,    \* one per start() of a supervisor
  MaxAttempts,  \* reconnect_policy.max_attempts
  Capacity,     \* event_capacity
  MaxVersion,   \* bound on changes of the account
  MaxBreaks     \* bound on broken connections and on refused ones

ASSUME StreamAssumption == MaxAttempts \in Nat \ {0} /\ Capacity \in Nat \ {0}

VARIABLES
  kind,     \* "execution" or "operations"
  sup,      \* the run loop of each instance, its handle and its connection
  version,  \* changes of the account so far
  breaks,   \* broken or refused connections so far
  seen,     \* the newest change the consumer knows of
  gap       \* the consumer knows that it may have missed changes

streamVars == <<kind, sup, version, breaks, seen, gap>>

Message(type, v) == [type |-> type, v |-> v]
Says(type) == Message(type, 0)

NotStarted ==
  [pc |-> "none", failed |-> 0, subscribed |-> FALSE, link |-> "none", wire |-> <<>>,
   handle |-> FALSE, stop |-> FALSE, forced |-> FALSE, out |-> <<>>]

Started == [NotStarted EXCEPT !.pc = "top", !.handle = TRUE]

StreamInit ==
  /\ kind \in {"execution", "operations"}
  /\ sup = [i \in Instances |-> NotStarted]
  /\ version = 0 /\ breaks = 0 /\ seen = 0 /\ gap = FALSE

-----------------------------------------------------------------------------
(* The loop.  s is the state of one instance.                              *)

\* events.send(..).await: waits for room; fails when the handle is gone.
Room(s) == s.handle => Len(s.out) < Capacity
Send(s, m) == IF s.handle THEN [s EXCEPT !.out = Append(@, m)] ELSE s

Unlinked(s) == [s EXCEPT !.link = "none", !.wire = <<>>, !.subscribed = FALSE]
Ended(s) == [Unlinked(s) EXCEPT !.pc = "done"]

\* Mutant: a broken connection is replaced without a word.
FailedQuietly(s, reconnectable) ==
  IF reconnectable
  THEN [Unlinked(s) EXCEPT !.failed = @ + 1, !.pc = "top"]
  ELSE Send([Ended(s) EXCEPT !.failed = @ + 1], Says("Fault"))

\* Every error is reported; only a reconnectable one leads to another attempt.
Failed(s, reconnectable) ==
  Send([Unlinked(s) EXCEPT !.failed = @ + 1, !.pc = IF reconnectable THEN "top" ELSE "done"],
       Says("Fault"))

\* Mutant: only an explicit stop is heard, not that the handle was dropped.
StopWhenTold(s) == s.stop

StopRequested(s) == s.stop \/ ~s.handle
Stopped(s) == Send(Ended(s), Says("Stopped"))

\* The head of the loop.  Only an acknowledgement resets `failed`.
Top(s) ==
  CASE s.stop -> Stopped(s)
    [] ~s.stop /\ s.failed >= MaxAttempts -> Send(Ended(s), Says("Fault"))
    [] ~s.stop /\ s.failed = 0 -> [s EXCEPT !.pc = "connect"]
    [] OTHER -> IF s.handle THEN Send([s EXCEPT !.pc = "wait"], Says("Reconnecting")) ELSE Ended(s)

Connected(s) ==
  IF s.handle
  THEN Send([s EXCEPT !.pc = "read", !.link = "open"], Says("Connected"))
  ELSE Ended(s)

\* process_response.  An operation or a ping ahead of the acknowledgement ends
\* the operations stream; the execution stream passes it on.
Processed(s, m) ==
  LET rest == [s EXCEPT !.wire = Tail(@)]
  IN CASE m.type = "bad" -> Failed(rest, FALSE)
       [] m.type = "ack" ->
            IF s.handle
            THEN Send([rest EXCEPT !.subscribed = TRUE, !.failed = 0], m)
            ELSE Ended(s)
       [] OTHER ->
            CASE kind = "operations" /\ ~s.subscribed -> Failed(rest, FALSE)
              [] ~s.handle -> Ended(s)
              [] OTHER -> Send(rest, m)

\* force_reconnect: counted as one failure, and not reported as a fault.
ForcedOff(s) == [Unlinked(s) EXCEPT !.failed = 1, !.forced = FALSE, !.pc = "top"]

-----------------------------------------------------------------------------
(* Steps of an instance.                                                   *)

Becomes(i, s) == sup' = [sup EXCEPT ![i] = s] /\ UNCHANGED <<kind, version, seen, gap>>

LoopTop(i) ==
  /\ sup[i].pc = "top" /\ Room(sup[i])
  /\ Becomes(i, Top(sup[i])) /\ UNCHANGED breaks

Wait(i) ==
  /\ sup[i].pc = "wait"
  /\ \/ Becomes(i, [sup[i] EXCEPT !.pc = "connect"])
     \/ StopRequested(sup[i]) /\ Room(sup[i]) /\ Becomes(i, Stopped(sup[i]))
  /\ UNCHANGED breaks

Connect(i) ==
  /\ sup[i].pc = "connect" /\ Room(sup[i])
  /\ Becomes(i, Connected(sup[i])) /\ UNCHANGED breaks

ConnectFails(i) ==
  /\ sup[i].pc = "connect" /\ Room(sup[i])
  /\ breaks < MaxBreaks /\ breaks' = breaks + 1
  /\ \E reconnectable \in BOOLEAN : Becomes(i, Failed(sup[i], reconnectable))

\* The acknowledgement deadline of the execution stream.
AckTimeout(i) ==
  /\ kind = "execution"
  /\ sup[i].pc = "read" /\ ~sup[i].subscribed /\ Room(sup[i])
  /\ Becomes(i, Failed(sup[i], TRUE)) /\ UNCHANGED breaks

ReadStop(i) ==
  /\ sup[i].pc = "read" /\ StopRequested(sup[i]) /\ Room(sup[i])
  /\ Becomes(i, Stopped(sup[i])) /\ UNCHANGED breaks

ReadForced(i) ==
  /\ sup[i].pc = "read" /\ sup[i].forced
  /\ Becomes(i, ForcedOff(sup[i])) /\ UNCHANGED breaks

Read(i) ==
  /\ sup[i].pc = "read" /\ sup[i].wire # <<>> /\ Room(sup[i])
  /\ Becomes(i, Processed(sup[i], Head(sup[i].wire))) /\ UNCHANGED breaks

\* Stale, closed, or an error of the transport; on a live connection too.
ReadBreaks(i) ==
  /\ sup[i].pc = "read" /\ sup[i].wire = <<>> /\ Room(sup[i])
  /\ \/ sup[i].link = "dead" /\ Becomes(i, Failed(sup[i], TRUE)) /\ UNCHANGED breaks
     \/ /\ breaks < MaxBreaks /\ breaks' = breaks + 1
        /\ \E reconnectable \in BOOLEAN : Becomes(i, Failed(sup[i], reconnectable))

InstanceStep(i) ==
  \/ LoopTop(i) \/ Wait(i) \/ Connect(i) \/ ConnectFails(i)
  \/ AckTimeout(i) \/ ReadStop(i) \/ ReadForced(i) \/ Read(i) \/ ReadBreaks(i)

-----------------------------------------------------------------------------
(* The broker and the network.                                             *)

Open(i) == sup[i].link = "open"

OnWire(s, m) == [s EXCEPT !.wire = Append(@, m)]

AccountChanges ==
  /\ version < MaxVersion
  /\ version' = version + 1
  /\ sup' = [i \in Instances |->
               IF Open(i) THEN OnWire(sup[i], Message("event", version + 1)) ELSE sup[i]]
  /\ UNCHANGED <<kind, breaks, seen, gap>>

Unacknowledged(s) ==
  ~s.subscribed /\ \A k \in DOMAIN s.wire : s.wire[k].type # "ack"

BrokerAcks(i) ==
  /\ Open(i) /\ Unacknowledged(sup[i])
  /\ Becomes(i, OnWire(sup[i], Message("ack", version))) /\ UNCHANGED breaks

\* A ping ahead of the acknowledgement, which only the operations stream minds.
BrokerPings(i) ==
  /\ kind = "operations" /\ Open(i) /\ Unacknowledged(sup[i]) /\ sup[i].wire = <<>>
  /\ Becomes(i, OnWire(sup[i], Message("ping", 0))) /\ UNCHANGED breaks

\* A rejected subscription, a foreign account, a response nobody can decode.
BrokerErrs(i) ==
  /\ Open(i) /\ breaks < MaxBreaks /\ breaks' = breaks + 1
  /\ Becomes(i, OnWire(sup[i], Message("bad", 0)))

\* The connection dies, with or without what was under way.
LinkDies(i) ==
  /\ Open(i) /\ breaks < MaxBreaks /\ breaks' = breaks + 1
  /\ \E w \in {<<>>, sup[i].wire} : Becomes(i, [sup[i] EXCEPT !.link = "dead", !.wire = w])

NetworkStep ==
  \/ AccountChanges
  \/ \E i \in Instances : BrokerAcks(i) \/ BrokerPings(i) \/ BrokerErrs(i) \/ LinkDies(i)

-----------------------------------------------------------------------------
(* A consumer that drives an instance through its handle.                  *)

Holds(i) == sup[i].handle

\* A new acknowledgement tells it where the stream resumes.
Noted(m) ==
  CASE m.type = "ack" -> seen' = m.v /\ gap' = FALSE
    [] m.type = "event" -> seen' = m.v /\ UNCHANGED gap
    [] m.type \in {"Fault", "Reconnecting", "Stopped"} -> gap' = TRUE /\ UNCHANGED seen
    [] OTHER -> UNCHANGED <<seen, gap>>

Take(i) == sup' = [sup EXCEPT ![i].out = Tail(@)]

DriverStart(i) ==
  /\ sup[i].pc = "none" /\ ~\E j \in Instances : sup[j].pc # "none"
  /\ sup' = [sup EXCEPT ![i] = Started]
  /\ gap' = TRUE
  /\ UNCHANGED <<kind, version, breaks, seen>>

DriverRecv(i) ==
  /\ Holds(i) /\ sup[i].out # <<>>
  /\ Take(i) /\ Noted(Head(sup[i].out))
  /\ UNCHANGED <<kind, version, breaks>>

DriverForce(i) ==
  /\ Holds(i) /\ breaks < MaxBreaks /\ breaks' = breaks + 1
  /\ Becomes(i, [sup[i] EXCEPT !.forced = TRUE])

DriverStops(i) ==
  /\ Holds(i) /\ ~sup[i].stop
  /\ Becomes(i, [sup[i] EXCEPT !.stop = TRUE]) /\ UNCHANGED breaks

Dropped(s) == [s EXCEPT !.handle = FALSE, !.out = <<>>]

DriverDrops(i) == Holds(i) /\ Becomes(i, Dropped(sup[i])) /\ UNCHANGED breaks

DriverStep ==
  \E i \in Instances :
    DriverStart(i) \/ DriverRecv(i) \/ DriverForce(i) \/ DriverStops(i) \/ DriverDrops(i)
=============================================================================
