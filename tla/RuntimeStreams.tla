--------------------------- MODULE RuntimeStreams ---------------------------
(***************************************************************************)
(* TInvestRuntimeStreamAdapter (crates/vox-tinvest/src/runtime_stream.rs)  *)
(* and StoredTInvestStreamPort (connection_factory.rs): the runtime's      *)
(* connect() starts the order supervisor, waits for its acknowledgement,   *)
(* opens the portfolio, positions and operations streams one after another *)
(* and then starts a task per stream, plus one that ends the session after *)
(* a while.  The tasks turn what they receive into the coordinator's       *)
(* signals; here `seen` is the newest event and `gap` a Gap or             *)
(* Disconnected signal.                                                    *)
(***************************************************************************)
EXTENDS StreamSupervisor

CONSTANT Capital  \* the unary-opened streams: portfolio, positions, operations

VARIABLES
  consumer,  \* "adapter", or "driver" for a supervisor used on its own
  stage,     \* "idle", "ack", "open", "running": where connect() is
  cur,       \* the instance connect() started last
  capital    \* per stream: "none", "open", "broken", "ended"

adapterVars == <<consumer, stage, cur, capital>>
vars == <<streamVars, adapterVars>>

NoInstance == 0

Closed == [c \in Capital |-> "none"]

Init ==
  /\ StreamInit
  /\ consumer \in {"adapter", "driver"}
  /\ consumer = "adapter" => kind = "execution"
  /\ stage = "idle" /\ cur = NoInstance /\ capital = Closed

-----------------------------------------------------------------------------
(* connect and disconnect.                                                 *)

\* disconnect: every task is aborted; dropping the handle is what tells the
\* supervisor.
AllDropped == [i \in Instances |-> Dropped(sup[i])]

Abandon ==
  /\ sup' = AllDropped
  /\ stage' = "idle" /\ capital' = Closed
  /\ UNCHANGED <<kind, version, breaks, seen, gap, consumer, cur>>

\* A session that can be opened; the previous streams go first.
ConnectBegins(i) ==
  /\ stage \in {"idle", "running"}
  /\ sup[i].pc = "none" /\ i = cur + 1
  /\ sup' = [AllDropped EXCEPT ![i] = Started]
  /\ cur' = i /\ stage' = "ack" /\ capital' = Closed
  /\ gap' = TRUE
  /\ UNCHANGED <<kind, version, breaks, seen, consumer>>

\* await_order_ack: anything but the acknowledgement and a fault is swallowed.
AwaitAck ==
  /\ stage = "ack" /\ sup[cur].out # <<>>
  /\ LET m == Head(sup[cur].out)
     IN CASE m.type = "ack" ->
               /\ Take(cur)
               /\ stage' = "open" /\ seen' = m.v /\ gap' = FALSE
               /\ UNCHANGED <<kind, version, breaks, consumer, cur, capital>>
          [] m.type = "Fault" -> Abandon
          [] OTHER ->
               /\ Take(cur)
               /\ UNCHANGED <<kind, version, breaks, seen, gap, adapterVars>>

\* Twenty seconds without it, a stream that cannot be opened or whose
\* acknowledgement does not name the account: the error drops the handle.
ConnectFailed ==
  /\ stage \in {"ack", "open"} /\ breaks < MaxBreaks
  /\ sup' = AllDropped /\ breaks' = breaks + 1
  /\ stage' = "idle" /\ capital' = Closed
  /\ UNCHANGED <<kind, version, seen, gap, consumer, cur>>

OpenCapital(c) ==
  /\ stage = "open" /\ capital[c] = "none"
  /\ capital' = [capital EXCEPT ![c] = "open"]
  /\ UNCHANGED <<streamVars, consumer, stage, cur>>

SpawnTasks ==
  /\ stage = "open" /\ \A c \in Capital : capital[c] # "none"
  /\ stage' = "running"
  /\ UNCHANGED <<streamVars, consumer, cur, capital>>

\* The coordinator shuts down, or gave up on the streams.
Disconnect == stage = "running" /\ Abandon

-----------------------------------------------------------------------------
(* The tasks.                                                              *)

\* stream_signal: the new acknowledgement of a supervisor that reconnected
\* by itself is no signal, nor is that it reconnects.
Signalled(m) ==
  CASE m.type = "event" -> seen' = m.v /\ UNCHANGED gap
    [] m.type = "Fault" -> gap' = TRUE /\ UNCHANGED seen
    [] OTHER -> UNCHANGED <<seen, gap>>

OrderTask ==
  /\ stage = "running" /\ sup[cur].out # <<>>
  /\ Take(cur) /\ Signalled(Head(sup[cur].out))
  /\ UNCHANGED <<kind, version, breaks, adapterVars>>

CapitalBreaks(c) ==
  /\ capital[c] = "open" /\ breaks < MaxBreaks
  /\ capital' = [capital EXCEPT ![c] = "broken"] /\ breaks' = breaks + 1
  /\ UNCHANGED <<kind, sup, version, seen, gap, consumer, stage, cur>>

\* Stale, closed or in error: Disconnected, and the task ends.
CapitalTask(c) ==
  /\ stage = "running" /\ capital[c] = "broken"
  /\ capital' = [capital EXCEPT ![c] = "ended"]
  /\ gap' = TRUE
  /\ UNCHANGED <<kind, sup, version, breaks, seen, consumer, stage, cur>>

\* The session has lived for half an hour.
RefreshTask ==
  /\ stage = "running"
  /\ gap' = TRUE
  /\ UNCHANGED <<kind, sup, version, breaks, seen, adapterVars>>

-----------------------------------------------------------------------------
AdapterTasks ==
  AwaitAck \/ SpawnTasks \/ OrderTask \/ \E c \in Capital : OpenCapital(c) \/ CapitalTask(c)

AdapterStep ==
  \/ \E i \in Instances : ConnectBegins(i)
  \/ AdapterTasks
  \/ ConnectFailed \/ Disconnect \/ RefreshTask
  \/ \E c \in Capital : CapitalBreaks(c)

StreamNext ==
  \/ (\E i \in Instances : InstanceStep(i)) /\ UNCHANGED adapterVars
  \/ NetworkStep /\ UNCHANGED adapterVars
  \/ consumer = "adapter" /\ AdapterStep
  \/ consumer = "driver" /\ DriverStep /\ UNCHANGED adapterVars

\* A supervisor and the adapter's tasks are futures of one executor, and
\* every wait of theirs has a deadline; a broker that opens a connection is
\* not assumed to acknowledge it.
StreamFairness ==
  /\ \A i \in Instances : WF_vars(InstanceStep(i) /\ UNCHANGED adapterVars)
  /\ WF_vars(consumer = "adapter" /\ AdapterTasks)

-----------------------------------------------------------------------------
(* Properties.                                                             *)

\* A consumer that was told of no gap gets the changes of the account one
\* after another: none is missing in front of the one it takes, however often
\* the supervisor reconnected below (run, stream_signal).
NoSilentGap ==
  [][seen' # seen /\ ~gap /\ ~gap' => seen' = seen + 1]_vars

\* A connection that breaks under the runtime is noticed: the coordinator
\* gets a gap, or has dropped the streams itself (run, order_task).
BreakIsNoticed ==
  (consumer = "adapter" /\ stage = "running" /\ sup[cur].link = "dead")
    ~> (gap \/ stage # "running")

\* A supervisor whose handle is gone comes to an end wherever it was, so
\* reconnecting leaves no second session of the account behind (disconnect,
\* run).
AbandonedEnds ==
  \A i \in Instances : (sup[i].pc # "none" /\ ~sup[i].handle) ~> (sup[i].pc = "done")
=============================================================================
