------------------------- MODULE RuntimeCoordinator -------------------------
(***************************************************************************)
(* The execution gate of one runtime (crates/vox-runtime/src/coordinator.rs *)
(* and the state machine of policy.rs): start(), the stream worker, the    *)
(* coalesced reconciliation task, dispatch calls that halt the runtime,    *)
(* and shutdown(), all running concurrently over the state, the flags      *)
(* connected, reconciliation_dirty and reconciliation_running, and the     *)
(* reconciliation_guard.                                                   *)
(*                                                                         *)
(* The broker account is a version number that every capital change        *)
(* raises.  A report is as old as the version its snapshot read.           *)
(***************************************************************************)
EXTENDS Naturals, Sequences, FiniteSetsExt

CONSTANTS
  Kinds,      \* stream events that occur: "capital", "unfamiliar"
  Tasks,      \* coalesced reconciliation tasks that may exist at once
  StoreFails, \* TRUE when a store write may fail
  Gaps,       \* bound on stream gaps and disconnects
  MaxVersion  \* bound on account changes

ASSUME CoordinatorAssumption ==
  /\ Kinds \subseteq {"capital", "unfamiliar"}
  /\ StoreFails \in BOOLEAN
  /\ Gaps \in Nat /\ MaxVersion \in Nat
  /\ Tasks \intersect {"start", "worker", "free", "none"} = {}

VARIABLES
  state, connected, dirty, running,
  guard,      \* who holds reconciliation_guard
  pc,         \* where start(), the stream worker and the tasks are
  handle,     \* coalesced_reconciliation_task: the task shutdown() aborts
  then,       \* where each continues after its reconciliation
  rep,        \* the report each holds
  started,    \* start() has returned, so calls reach the coordinator
  calls,      \* dispatch calls past the gate
  version,    \* the broker account
  subscribed, \* the required streams are up
  queue,      \* signals on their way to the stream worker
  gaps,       \* gaps so far
  owed,       \* the version an open gate has to reflect
  applied     \* the newest version of a report that was applied

vars == <<state, connected, dirty, running, guard, pc, then, handle, rep, started, calls,
          version, subscribed, queue, gaps, owed, applied>>

Actors == {"start", "worker"} \union Tasks
flags == <<connected, dirty, running>>
broker == <<version, subscribed, queue, gaps>>

States == {"Starting", "Connecting", "Reconciling", "Ready", "Halted", "Stopping", "Stopped"}
NoReport == [version |-> 0, state |-> "Halted"]

Labels ==
  {"off", "reconcile", "reading",                                \* reconcile_locked
   "begin", "connecting", "first", "subscribe", "apply", "done", \* start
   "idle", "cas", "spawn", "forced", "confirm",                  \* the worker
   "gap", "firstgap", "clear", "check", "release", "recheck", "again"}

TypeOK ==
  /\ state \in States
  /\ {connected, dirty, running, started, subscribed} \subseteq BOOLEAN
  /\ guard \in Actors \union {"free"}
  /\ pc \in [Actors -> Labels] /\ then \in [Actors -> Labels]
  /\ rep \in [Actors -> [version : 0..MaxVersion, state : {"Ready", "Halted"}]]
  /\ calls \in 0..1
  /\ handle \in Tasks \union {"none"}
  /\ {version, owed, applied} \subseteq 0..MaxVersion
  /\ gaps \in 0..Gaps
  /\ queue \in Seq({"capital", "unfamiliar", "gap"} \X (0..MaxVersion))

Init ==
  /\ state = "Starting"
  /\ connected = FALSE /\ dirty = FALSE /\ running = FALSE
  /\ guard = "free"
  /\ pc = [a \in Actors |-> IF a = "start" THEN "begin" ELSE "off"]
  /\ then = [a \in Actors |-> "off"]
  /\ rep = [a \in Actors |-> NoReport]
  /\ handle = "none"
  /\ started = FALSE /\ calls = 0
  /\ version = 0 /\ subscribed = FALSE /\ queue = <<>> /\ gaps = 0
  /\ owed = 0 /\ applied = 0

-----------------------------------------------------------------------------
(* The state machine.                                                      *)

Allowed(from, to) ==
  CASE from = "Starting" -> to \in {"Connecting", "Halted", "Stopping"}
    [] from = "Connecting" -> to \in {"Reconciling", "Halted", "Stopping"}
    [] from = "Reconciling" -> to \in {"Ready", "Halted", "Stopping"}
    [] from = "Ready" -> to \in {"Reconciling", "Halted", "Stopping"}
    [] from = "Halted" -> to \in {"Connecting", "Reconciling", "Stopping"}
    [] from = "Stopping" -> to = "Stopped"
    [] from = "Stopped" -> FALSE

CanTransition(to) == state = to \/ Allowed(state, to)

\* transition(): the state in memory moves first; the durable record comes
\* after it, and when that write fails the caller gets an error all the same.
Transition(to) == state' = IF CanTransition(to) THEN to ELSE state
Succeeds(to) == Transition(to) /\ CanTransition(to)
Errs(to) == Transition(to) /\ (StoreFails \/ ~CanTransition(to))

Goto(a, l) == pc' = [pc EXCEPT ![a] = l] /\ UNCHANGED then
Reconcile(a, l) == pc' = [pc EXCEPT ![a] = "reconcile"] /\ then' = [then EXCEPT ![a] = l]

\* ensure_execution_allowed, for commands that add exposure.
GateOpen == started /\ connected /\ state = "Ready" /\ ~dirty /\ ~running

-----------------------------------------------------------------------------
(* reconcile_locked, called by any of the three.                           *)

\* Mutant: a task that fails keeps reconciliation_running.
FailKeepsClaim(a) == Goto(a, "off") /\ UNCHANGED <<running, connected, dirty>>

\* What an error does: the worker and the task end, and start() fails and
\* its coordinator is dropped.  Only a task gives back reconciliation_running.
Fail(a) ==
  /\ Goto(a, "off")
  /\ running' = (running /\ a \notin Tasks)
  /\ UNCHANGED <<connected, dirty>>

\* Mutant: the snapshot is read without the guard.
ReadAccountUnguarded(a) ==
  /\ pc[a] = "reconcile"
  /\ guard' = a
  /\ rep' = [rep EXCEPT ![a].version = version]
  /\ Goto(a, "reading")
  /\ UNCHANGED <<state, flags, handle, started, calls, broker, owed, applied>>

ReadAccount(a) ==
  /\ pc[a] = "reconcile"
  /\ guard = "free"
  /\ guard' = a
  /\ rep' = [rep EXCEPT ![a].version = version]
  /\ Goto(a, "reading")
  /\ UNCHANGED <<state, flags, handle, started, calls, broker, owed, applied>>

\* Mutant: a reconciliation that fails does not halt the runtime.
CommitReportSilent(a) ==
  /\ pc[a] = "reading"
  /\ guard' = "free"
  /\ \/ /\ \E s \in {"Ready", "Halted"} : rep' = [rep EXCEPT ![a].state = s]
        /\ pc' = [pc EXCEPT ![a] = then[a]]
        /\ then' = [then EXCEPT ![a] = "off"]
        /\ UNCHANGED <<state, flags>>
     \/ Fail(a) /\ UNCHANGED <<state, rep>>
  /\ UNCHANGED <<handle, started, calls, broker, owed, applied>>

CommitReport(a) ==
  /\ pc[a] = "reading"
  /\ guard' = "free"
  /\ \/ /\ \E s \in {"Ready", "Halted"} : rep' = [rep EXCEPT ![a].state = s]
        /\ pc' = [pc EXCEPT ![a] = then[a]]
        /\ then' = [then EXCEPT ![a] = "off"]
        /\ UNCHANGED <<state, flags>>
     \/ /\ Fail(a)
        /\ Transition("Halted")
        /\ UNCHANGED rep
  /\ UNCHANGED <<handle, started, calls, broker, owed, applied>>

\* apply_reconciliation_report: reservations first, then the state.
ApplyReport(a, l) ==
  /\ \/ /\ applied' = Max({applied, rep[a].version})
        /\ \/ Succeeds(rep[a].state) /\ Goto(a, l) /\ UNCHANGED flags
           \/ Errs(rep[a].state) /\ Fail(a)
     \/ /\ StoreFails
        /\ Transition("Halted") /\ Fail(a)
        /\ UNCHANGED applied
  /\ UNCHANGED <<guard, handle, rep, calls, broker, owed>>

-----------------------------------------------------------------------------
(* start().                                                                *)

others == <<guard, handle, rep, calls>>

StartConnecting ==
  /\ pc["start"] = "begin"
  /\ \/ Succeeds("Connecting") /\ Goto("start", "connecting")
     \/ Errs("Connecting") /\ Goto("start", "off")
  /\ UNCHANGED <<flags, others, started, broker, owed, applied>>

\* The credential resolves, or the runtime halts.
StartReconciling ==
  /\ pc["start"] = "connecting"
  /\ \/ Succeeds("Reconciling") /\ Reconcile("start", "first")
     \/ Errs("Reconciling") /\ Goto("start", "off")
     \/ Transition("Halted") /\ Goto("start", "off")
  /\ UNCHANGED <<flags, others, started, broker, owed, applied>>

\* A first report that halts ends start() without streams and without worker.
FirstReport ==
  /\ pc["start"] = "first"
  /\ Goto("start", IF rep["start"].state = "Halted" THEN "apply" ELSE "subscribe")
  /\ UNCHANGED <<state, flags, others, started, broker, owed, applied>>

\* Required streams acknowledged (connect_streams).  What the account is at
\* this point no event will tell, so a later report has to cover it.
Acknowledged ==
  /\ subscribed' = TRUE /\ connected' = TRUE
  /\ owed' = version
  /\ UNCHANGED <<state, dirty, running, version, queue, gaps>>

NotAcknowledged == Transition("Halted") /\ UNCHANGED <<flags, broker, owed>>

Subscribe ==
  /\ pc["start"] = "subscribe"
  /\ \/ /\ Acknowledged
        /\ pc' = [pc EXCEPT !["start"] = "reconcile", !["worker"] = "idle"]
        /\ then' = [then EXCEPT !["start"] = "apply"]
     \/ NotAcknowledged /\ Goto("start", "off")
  /\ UNCHANGED <<others, started, applied>>

StartApplies ==
  /\ pc["start"] = "apply"
  /\ ApplyReport("start", "done")
  /\ started' = (pc'["start"] = "done")

-----------------------------------------------------------------------------
(* The stream worker (handle_stream_signal), which ends on any error.      *)

Noticed == owed' = Max({owed, Head(queue)[2]})

Receive ==
  /\ pc["worker"] = "idle"
  /\ queue # <<>>
  /\ queue' = Tail(queue)
  /\ \/ /\ Head(queue)[1] = "capital"  \* request_coalesced_reconciliation
        /\ dirty' = TRUE
        /\ Goto("worker", "cas")
        /\ Noticed
        /\ UNCHANGED <<state, connected, running>>
     \/ /\ Head(queue)[1] = "unfamiliar"  \* force_reconciliation
        /\ \/ Succeeds("Reconciling") /\ Reconcile("worker", "forced")
           \/ Errs("Reconciling") /\ Goto("worker", "off")
        /\ Noticed
        /\ UNCHANGED flags
     \/ /\ Head(queue)[1] = "gap"
        /\ connected' = FALSE
        /\ Goto("worker", "gap")
        /\ UNCHANGED <<state, dirty, running, owed>>
     \/ /\ StoreFails  \* record_broker_event
        /\ Head(queue)[1] # "gap"
        /\ Goto("worker", "off")
        /\ UNCHANGED <<state, flags, owed>>
  /\ UNCHANGED <<others, started, version, subscribed, gaps, applied>>

\* Mutant: finding a task running already is an error.
ClaimTaskErrs ==
  /\ pc["worker"] = "cas"
  /\ running' = TRUE
  /\ Goto("worker", IF running THEN "off" ELSE "spawn")
  /\ UNCHANGED <<state, connected, dirty, others, started, broker, owed, applied>>

\* The compare_exchange on reconciliation_running.
ClaimTask ==
  /\ pc["worker"] = "cas"
  /\ running' = TRUE
  /\ Goto("worker", IF running THEN "idle" ELSE "spawn")
  /\ UNCHANGED <<state, connected, dirty, others, started, broker, owed, applied>>

Spawn ==
  /\ pc["worker"] = "spawn"
  /\ \/ /\ Succeeds("Reconciling")
        /\ \E t \in Tasks :
             /\ pc[t] = "off"
             /\ pc' = [pc EXCEPT !["worker"] = "idle", ![t] = "clear"]
             /\ handle' = t
             /\ UNCHANGED then
     \/ Errs("Reconciling") /\ Goto("worker", "off") /\ UNCHANGED handle
  /\ UNCHANGED <<flags, guard, rep, calls, started, broker, owed, applied>>

ForcedApplies ==
  /\ pc["worker"] = "forced"
  /\ ApplyReport("worker", IF rep["worker"].state = "Ready" THEN "confirm" ELSE "idle")
  /\ UNCHANGED started

\* A report that is Ready without the unfamiliar order may just lag behind it.
HaltUnconfirmed ==
  /\ pc["worker"] = "confirm"
  /\ \/ Succeeds("Halted") /\ Goto("worker", "idle")
     \/ Errs("Halted") /\ Goto("worker", "off")
  /\ UNCHANGED <<flags, others, started, broker, owed, applied>>

\* recover_stream_gap.
GapReconciling ==
  /\ pc["worker"] = "gap"
  /\ \/ Succeeds("Reconciling") /\ Reconcile("worker", "firstgap")
     \/ Errs("Reconciling") /\ Goto("worker", "off")
  /\ UNCHANGED <<flags, others, started, broker, owed, applied>>

\* A first report that halts is applied, and the streams stay down.
GapHalts ==
  /\ pc["worker"] = "firstgap"
  /\ rep["worker"].state = "Halted"
  /\ ApplyReport("worker", "idle")
  /\ UNCHANGED started

\* Mutant: the report from before the subscription is applied.
ResubscribeOnly ==
  /\ pc["worker"] = "firstgap"
  /\ rep["worker"].state = "Ready"
  /\ \/ Acknowledged /\ Goto("worker", "apply")
     \/ NotAcknowledged /\ Goto("worker", "off")
  /\ UNCHANGED <<others, started, applied>>

Resubscribe ==
  /\ pc["worker"] = "firstgap"
  /\ rep["worker"].state = "Ready"
  /\ \/ Acknowledged /\ Reconcile("worker", "apply")
     \/ NotAcknowledged /\ Goto("worker", "off")
  /\ UNCHANGED <<others, started, applied>>

GapApplies ==
  /\ pc["worker"] = "apply"
  /\ ApplyReport("worker", "idle")
  /\ UNCHANGED started

-----------------------------------------------------------------------------
(* The coalesced reconciliation task.                                      *)

TaskClears(t) ==
  /\ pc[t] = "clear"
  /\ dirty' = FALSE
  /\ Reconcile(t, "check")
  /\ UNCHANGED <<state, connected, running, others, started, broker, owed, applied>>

\* Mutant: events that came while the account was read are forgotten.
TaskChecksForgetful(t) ==
  /\ pc[t] = "check"
  /\ dirty' = FALSE
  /\ Goto(t, "apply")
  /\ UNCHANGED <<state, connected, running, others, started, broker, owed, applied>>

TaskChecks(t) ==
  /\ pc[t] = "check"
  /\ Goto(t, IF dirty THEN "clear" ELSE "apply")
  /\ UNCHANGED <<state, flags, others, started, broker, owed, applied>>

TaskApplies(t) ==
  /\ pc[t] = "apply"
  /\ ApplyReport(t, "release")
  /\ UNCHANGED started

TaskReleases(t) ==
  /\ pc[t] = "release"
  /\ running' = FALSE
  /\ Goto(t, "recheck")
  /\ UNCHANGED <<state, connected, dirty, others, started, broker, owed, applied>>

\* Mutant: the task ends without looking at the flag again.
TaskRechecksNothing(t) ==
  /\ pc[t] = "recheck"
  /\ Goto(t, "off")
  /\ UNCHANGED <<state, flags, others, started, broker, owed, applied>>

\* An event too late for the check runs the task again, unless the worker has
\* claimed the next task meanwhile.
TaskRechecks(t) ==
  /\ pc[t] = "recheck"
  /\ Goto(t, IF dirty /\ ~running THEN "again" ELSE "off")
  /\ running' = (running \/ dirty)
  /\ UNCHANGED <<state, connected, dirty, others, started, broker, owed, applied>>

TaskRepeats(t) ==
  /\ pc[t] = "again"
  /\ \/ Succeeds("Reconciling") /\ Goto(t, "clear") /\ UNCHANGED flags
     \/ Errs("Reconciling") /\ Fail(t)
  /\ UNCHANGED <<others, started, broker, owed, applied>>

-----------------------------------------------------------------------------
(* Dispatch calls, shutdown and the broker.                                *)

Admit ==
  /\ GateOpen
  /\ calls = 0
  /\ calls' = 1
  /\ UNCHANGED <<state, flags, guard, pc, then, handle, rep, started, broker, owed, applied>>

\* A call ends well, or it halts the runtime: an unknown outcome, a store
\* error, a refused command.
CallEnds ==
  /\ calls = 1
  /\ calls' = 0
  /\ UNCHANGED state \/ Transition("Halted")
  /\ UNCHANGED <<flags, guard, pc, then, handle, rep, started, broker, owed, applied>>

Shutdown ==
  /\ started
  /\ state # "Stopping" /\ CanTransition("Stopping")
  /\ Transition("Stopping")
  /\ UNCHANGED <<flags, guard, pc, then, others, started, broker, owed, applied>>

\* The drain is over or has timed out; the worker and the last task spawned
\* are aborted, which frees the guard if they hold it.
Stop ==
  /\ state = "Stopping"
  /\ LET aborted == {"worker", handle} \intersect Actors IN
       /\ pc' = [a \in Actors |-> IF a \in aborted THEN "off" ELSE pc[a]]
       /\ guard' = IF guard \in aborted THEN "free" ELSE guard
  /\ subscribed' = FALSE /\ connected' = FALSE /\ queue' = <<>>
  /\ Transition("Stopped")
  /\ UNCHANGED <<dirty, running, then, handle, rep, started, calls, version, gaps, owed, applied>>

\* The account changes; while the streams are up an event tells.
AccountChanges(kind) ==
  /\ version < MaxVersion
  /\ version' = version + 1
  /\ queue' = IF subscribed THEN Append(queue, <<kind, version'>>) ELSE queue
  /\ UNCHANGED <<state, flags, guard, pc, then, others, started, subscribed, gaps, owed, applied>>

StreamBreaks ==
  /\ subscribed /\ gaps < Gaps
  /\ subscribed' = FALSE
  /\ gaps' = gaps + 1
  /\ queue' = Append(queue, <<"gap", version>>)
  /\ UNCHANGED <<state, flags, guard, pc, then, others, started, version, owed, applied>>

-----------------------------------------------------------------------------
StartStep ==
  \/ ReadAccount("start") \/ CommitReport("start")
  \/ StartConnecting \/ StartReconciling \/ FirstReport \/ Subscribe \/ StartApplies

WorkerStep ==
  \/ ReadAccount("worker") \/ CommitReport("worker")
  \/ Receive \/ ClaimTask \/ Spawn \/ ForcedApplies \/ HaltUnconfirmed
  \/ GapReconciling \/ GapHalts \/ Resubscribe \/ GapApplies

TaskStep(t) ==
  \/ ReadAccount(t) \/ CommitReport(t)
  \/ TaskClears(t) \/ TaskChecks(t) \/ TaskApplies(t)
  \/ TaskReleases(t) \/ TaskRechecks(t) \/ TaskRepeats(t)

Next ==
  \/ StartStep \/ WorkerStep \/ \E t \in Tasks : TaskStep(t)
  \/ Admit \/ CallEnds \/ Shutdown \/ Stop
  \/ \E kind \in Kinds : AccountChanges(kind)
  \/ StreamBreaks

Spec == Init /\ [][Next]_vars

\* start(), the worker and the tasks are futures of one executor: each is
\* polled again as long as it can go on.
FairSpec ==
  Spec /\ WF_vars(StartStep) /\ WF_vars(WorkerStep) /\ \A t \in Tasks : WF_vars(TaskStep(t))

-----------------------------------------------------------------------------
(* Properties.                                                             *)

\* Whenever a call that adds exposure can pass ensure_execution_allowed, a
\* report at least as new as every event the worker has taken off the queue,
\* and as the (re)subscription of the streams, has been applied.
GateReflectsAccount == GateOpen => applied >= owed

\* The same once the worker is done with the signal at hand: whatever mixture
\* of capital events, unfamiliar orders, gaps and failing writes it dealt with.
HandledIsReflected == GateOpen /\ pc["worker"] = "idle" => applied >= owed

\* The gate is open only while a live worker would close it on an event.
GateIsWatched == GateOpen => pc["worker"] # "off"

\* At most one actor is between ReadAccount and CommitReport, and it holds
\* the guard: two snapshots never overlap.
OneReconciliation == \A a \in Actors : pc[a] = "reading" => guard = a

\* A coalesced refresh that was claimed ends, however events and the task
\* interleave, unless the runtime stops first.
RefreshEnds == running ~> (~running \/ state \in {"Stopping", "Stopped"})

\* The runtime never stays RECONCILING.
ReconcilingEnds == (state = "Reconciling") ~> (state # "Reconciling")

\* A runtime that reports READY does not keep its gate closed for ever.
ReadyOpens == (started /\ state = "Ready") ~> (GateOpen \/ state # "Ready")
=============================================================================
