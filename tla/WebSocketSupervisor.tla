------------------------- MODULE WebSocketSupervisor -------------------------
(***************************************************************************)
(* StreamSupervisor of crates/vox-tinvest/src/websocket.rs: it replays the *)
(* desired subscriptions of a shared registry after each connect, waits    *)
(* for their acknowledgements under a deadline, and takes commands in      *)
(* every wait.  The registry is its version number; a caller changes it    *)
(* and then sends RefreshSubscriptions.                                    *)
(***************************************************************************)
EXTENDS Naturals, Sequences, SequencesExt

CONSTANTS
  Acks,           \* acknowledgement keys of the desired subscriptions
  MaxFailures,    \* max_consecutive_failures
  MaxChanges,     \* bound on changes of the registry
  MaxForced,      \* bound on forced reconnects
  CommandCapacity

VARIABLES
  ws,        \* the loop: pc, consecutive_failures, version replayed, acks missing
  commands,  \* the command channel
  registry,  \* version of the desired subscriptions
  told,      \* version a RefreshSubscriptions was sent for
  ready,     \* version of the last SubscriptionsReady of this connection
  forced     \* forced reconnects so far

wsVars == <<ws, commands, registry, told, ready, forced>>

WsInit ==
  /\ ws = [pc |-> "connect", failures |-> 0, replayed |-> 0, missing |-> {}]
  /\ commands = <<>> /\ registry = 0 /\ told = 0 /\ ready = 0 /\ forced = 0

-----------------------------------------------------------------------------
(* The caller.                                                             *)

\* upsert or remove, under the registry's lock.
ChangeRegistry ==
  /\ registry < MaxChanges /\ registry' = registry + 1
  /\ UNCHANGED <<ws, commands, told, ready, forced>>

Command(c) == Len(commands) < CommandCapacity /\ commands' = Append(commands, c)

Refresh ==
  /\ told < registry /\ told' = registry
  /\ Command("Refresh")
  /\ UNCHANGED <<ws, registry, ready, forced>>

ForceReconnect ==
  /\ forced < MaxForced /\ forced' = forced + 1
  /\ Command("Force")
  /\ UNCHANGED <<ws, registry, told, ready>>

Shutdown ==
  /\ ~Contains(commands, "Shutdown")
  /\ Command("Shutdown")
  /\ UNCHANGED <<ws, registry, told, ready, forced>>

-----------------------------------------------------------------------------
(* The loop.                                                               *)

Taken == commands' = Tail(commands)
Kept == UNCHANGED <<registry, told, forced>>

Stops == ws' = [ws EXCEPT !.pc = "done"] /\ UNCHANGED ready

\* A failure is counted, reported, and waited for unless it was the last one.
CountFailure ==
  /\ ws' = [ws EXCEPT !.failures = @ + 1,
                      !.pc = IF ws.failures + 1 >= MaxFailures THEN "done" ELSE "wait"]
  /\ UNCHANGED ready

\* While it connects: a command other than Shutdown starts over.
ConnectCommand ==
  /\ ws.pc = "connect" /\ commands # <<>>
  /\ Taken
  /\ IF Head(commands) = "Shutdown" THEN Stops ELSE UNCHANGED <<ws, ready>>
  /\ Kept

WsConnectFails == ws.pc = "connect" /\ CountFailure /\ UNCHANGED commands /\ Kept

\* Connected: the registry is read once, after the connection is up.
ConnectOk ==
  /\ ws.pc = "connect"
  /\ ws' = [ws EXCEPT !.pc = "replay", !.replayed = registry, !.missing = Acks]
  /\ UNCHANGED <<commands, ready>> /\ Kept

ReplayFails == ws.pc = "replay" /\ CountFailure /\ UNCHANGED commands /\ Kept

\* All requests are sent; without any acknowledgement to wait for it is ready.
Replay ==
  /\ ws.pc = "replay"
  /\ ws' = [ws EXCEPT !.pc = "read", !.failures = IF Acks = {} THEN 0 ELSE @]
  /\ ready' = IF Acks = {} THEN ws.replayed ELSE ready
  /\ UNCHANGED commands /\ Kept

\* AcknowledgementTracker: in any order; the last one makes it ready.
Acknowledged(a) ==
  /\ ws.pc = "read" /\ a \in ws.missing
  /\ LET rest == ws.missing \ {a}
     IN /\ ws' = [ws EXCEPT !.missing = rest, !.failures = IF rest = {} THEN 0 ELSE @]
        /\ ready' = IF rest = {} THEN ws.replayed ELSE ready
  /\ UNCHANGED commands /\ Kept

AckDeadline == ws.pc = "read" /\ ws.missing # {} /\ CountFailure /\ UNCHANGED commands /\ Kept

\* A rejected acknowledgement, a stale or broken connection.
ReadFails == ws.pc = "read" /\ CountFailure /\ UNCHANGED commands /\ Kept

\* Mutant: a refresh is left to the next reconnect.
ReadCommandLazy ==
  /\ ws.pc = "read" /\ commands # <<>>
  /\ Taken
  /\ CASE Head(commands) = "Shutdown" -> Stops
       [] Head(commands) = "Force" -> ws' = [ws EXCEPT !.pc = "connect"] /\ UNCHANGED ready
       [] OTHER -> UNCHANGED <<ws, ready>>
  /\ Kept

\* RequestedReconnect is no failure and is not waited for.
ReadCommand ==
  /\ ws.pc = "read" /\ commands # <<>>
  /\ Taken
  /\ IF Head(commands) = "Shutdown"
     THEN Stops
     ELSE ws' = [ws EXCEPT !.pc = "connect"] /\ UNCHANGED ready
  /\ Kept

\* wait_before_reconnect
WaitElapsed == ws.pc = "wait" /\ ws' = [ws EXCEPT !.pc = "connect"] /\ UNCHANGED <<commands, ready>> /\ Kept

WaitCommand ==
  /\ ws.pc = "wait" /\ commands # <<>>
  /\ Taken
  /\ IF Head(commands) = "Shutdown"
     THEN Stops
     ELSE ws' = [ws EXCEPT !.pc = "connect"] /\ UNCHANGED ready
  /\ Kept

\* The receiver of the events is gone: the next emit ends the task.
ReceiverDropped ==
  /\ ws.pc \in {"connect", "replay", "read", "wait"}
  /\ Stops /\ UNCHANGED commands /\ Kept

\* What the task does without the broker's help.
WsTask ==
  \/ ConnectCommand \/ WsConnectFails \/ ConnectOk \/ ReplayFails \/ Replay
  \/ AckDeadline \/ ReadCommand \/ WaitElapsed \/ WaitCommand

WsNext ==
  \/ ChangeRegistry \/ Refresh \/ ForceReconnect \/ Shutdown
  \/ WsTask
  \/ \E a \in Acks : Acknowledged(a)
  \/ ReadFails \/ ReceiverDropped

-----------------------------------------------------------------------------
(* Properties.                                                             *)

\* A change of the desired subscriptions that was announced with
\* RefreshSubscriptions is replayed and acknowledged, or the stream ends;
\* whenever the command arrives it is not lost (run, wait_before_reconnect).
RefreshTakesEffect ==
  \A v \in 1..MaxChanges : (told = v) ~> (ready >= v \/ ws.pc = "done")
=============================================================================
