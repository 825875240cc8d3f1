------------------------- MODULE CoordinatorReports -------------------------
(***************************************************************************)
(* The inductive invariant of RuntimeCoordinator, and the proof that the   *)
(* steps of a reconciliation keep it (the snapshot, its commit, applying   *)
(* the report), and those of a task and of start().  The other steps, and  *)
(* the theorems, are in CoordinatorProofs.                                 *)
(***************************************************************************)
EXTENDS RuntimeCoordinator, TLAPS

Reports == [version : Nat, state : {"Ready", "Halted"}]
Signals == {"capital", "unfamiliar", "gap"} \X Nat

StartLabels == {"off", "begin", "connecting", "reconcile", "reading", "first", "subscribe", "apply", "done"}
WorkerLabels ==
  {"off", "idle", "cas", "spawn", "reconcile", "reading", "forced", "confirm", "gap", "firstgap", "apply"}
TaskLabels == {"off", "clear", "reconcile", "reading", "check", "apply", "release", "recheck", "again"}

StateType ==
  /\ state \in States
  /\ connected \in BOOLEAN /\ dirty \in BOOLEAN /\ running \in BOOLEAN
  /\ pc \in [Actors -> Labels] /\ then \in [Actors -> Labels]
  /\ rep \in [Actors -> Reports]
  /\ version \in Nat /\ owed \in Nat /\ applied \in Nat
  /\ queue \in Seq(Signals)
  /\ handle \in Tasks \cup {"none"}

\* Who can be where, and where it continues after a reconciliation.
Reconciling(a) == pc[a] \in {"reconcile", "reading"}

Places ==
  /\ pc["start"] \in StartLabels /\ pc["worker"] \in WorkerLabels
  /\ \A t \in Tasks : pc[t] \in TaskLabels
  /\ Reconciling("start") => then["start"] \in {"first", "apply"}
  /\ Reconciling("worker") => then["worker"] \in {"forced", "firstgap", "apply"}
  /\ \A t \in Tasks : Reconciling(t) => then[t] = "check"

\* Nothing is owed that the account has not been through.
OwedHappened ==
  /\ owed <= version
  /\ \A i \in 1..Len(queue) : queue[i][2] <= version

\* Until the streams are up nobody but start() does anything.
Early ==
  \/ pc["start"] \in {"begin", "connecting", "first", "subscribe"}
  \/ Reconciling("start") /\ then["start"] = "first"

StartFirst ==
  /\ Early => pc["worker"] = "off" /\ \A t \in Tasks : pc[t] = "off"
  /\ started => pc["start"] = "done"

\* reconciliation_running has one owner.
Claims(a) ==
  \/ a \in Tasks /\ pc[a] \notin {"off", "recheck"}
  \/ a = "worker" /\ pc[a] = "spawn"

OneOwner ==
  /\ \A a \in Actors : Claims(a) => running
  /\ \A a, b \in Actors : Claims(a) /\ Claims(b) => a = b

\* The worker is between two signals, or with a capital event that has been
\* marked in reconciliation_dirty.
Quiet == connected /\ pc["worker"] \in {"idle", "cas", "spawn"}

\* A signal the worker deals with itself is in its report.
WorkerCovers ==
  /\ pc["worker"] = "reading" /\ then["worker"] \in {"forced", "apply"} => rep["worker"].version >= owed
  /\ pc["worker"] \in {"forced", "apply"} => rep["worker"].version >= owed
  /\ pc["worker"] = "confirm" => applied >= owed
  /\ pc["worker"] \in {"gap", "firstgap"} => ~connected
  /\ Reconciling("worker") /\ then["worker"] = "firstgap" => ~connected

\* What a task does not cover is marked.
TaskCovers ==
  \A t \in Tasks :
    /\ pc[t] = "again" => dirty
    /\ Quiet /\ ~dirty /\ pc[t] \in {"reading", "check", "apply"} => rep[t].version >= owed \/ applied >= owed
    /\ Quiet /\ ~dirty /\ pc[t] = "release" => applied >= owed

\* start() covers what was the case when the streams came up.
StartCovers ==
  \/ pc["start"] = "off"
  \/ pc["start"] = "reconcile"
  \/ pc["start"] \in {"reading", "apply"} /\ rep["start"].version >= owed

\* From here no report leads to READY.
Closed == {"Halted", "Stopping", "Stopped"}

Covered ==
  Quiet => \/ applied >= owed \/ dirty \/ running
           \/ state \in Closed
           \/ StartCovers

GuardHeld == \A a \in Actors : pc[a] = "reading" => guard = a

CoordinatorInvariant ==
  /\ StateType /\ Places /\ OwedHappened /\ StartFirst /\ OneOwner
  /\ WorkerCovers /\ TaskCovers /\ Covered /\ GuardHeld

-----------------------------------------------------------------------------
(* Transitions and reports.                                                *)

\* Max of the community module, for two numbers.
LEMMA MaxOfTwo ==
  ASSUME NEW m \in Nat, NEW n \in Nat
  PROVE  Max({m, n}) = IF m >= n THEN m ELSE n
  BY DEF Max

\* Any transition keeps the state one; none but those to CONNECTING and
\* RECONCILING leaves Closed.
LEMMA TransitionType ==
  ASSUME state \in States, NEW to \in States, Transition(to)
  PROVE  state' \in States
  BY DEF Transition

\* A halt leaves the state closed, whether or not it was allowed.
LEMMA TransitionCloses ==
  ASSUME state \in States, Transition("Halted")
  PROVE  state' \in Closed
  BY DEF Transition, CanTransition, Allowed, States, Closed

\* No report opens a state that is closed.
LEMMA ReportKeepsClosed ==
  ASSUME state \in States, NEW s \in {"Ready", "Halted"}, Transition(s), state \in Closed
  PROVE  state' \in Closed
  BY DEF Transition, CanTransition, Allowed, States, Closed

\* Who the actors are.
LEMMA ActorsDiffer ==
  /\ "start" \in Actors /\ "worker" \in Actors /\ \A t \in Tasks : t \in Actors
  /\ \A a \in Actors : a \in Tasks \/ a = "start" \/ a = "worker"
  /\ "start" \notin Tasks /\ "worker" \notin Tasks /\ "free" \notin Actors
  BY CoordinatorAssumption DEF Actors

\* One actor goes on to l, the others stay.
Moves(a, l) ==
  /\ pc' \in [Actors -> Labels]
  /\ pc'[a] = l
  /\ \A b \in Actors : b # a => pc'[b] = pc[b]

\* An update of pc at one actor is a move.
LEMMA MovesOne ==
  ASSUME StateType, NEW a \in Actors, NEW l \in Labels, pc' = [pc EXCEPT ![a] = l]
  PROVE  Moves(a, l)
  BY DEF StateType, Moves

\* The flag after an error of a: only a task gives it back.
Released(a) == running' \in BOOLEAN /\ (a \in Tasks => ~running') /\ (a \notin Tasks => running' = running)

\* What an error return of an actor does to the flags.
LEMMA FailReleases ==
  ASSUME StateType, NEW a \in Actors, Fail(a)
  PROVE  /\ Released(a) /\ Moves(a, "off") /\ then' = then
         /\ connected' = connected /\ dirty' = dirty
<1>1. pc' = [pc EXCEPT ![a] = "off"] /\ running' = (running /\ a \notin Tasks)
  BY DEF Fail, Goto
<1>2. Moves(a, "off")
  BY Zenon, <1>1, MovesOne DEF Labels
<1>3. Released(a)
  BY Zenon, <1>1 DEF Released, StateType
<1> QED
  BY <1>2, <1>3 DEF Fail, Goto

\* What apply_reconciliation_report leaves behind.
Applied(a, l) ==
  /\ state' \in States /\ applied' \in Nat /\ applied' >= applied
  /\ state \in Closed => state' \in Closed
  /\ connected' = connected /\ dirty' = dirty
  /\ then' = then /\ rep' = rep /\ guard' = guard /\ handle' = handle
  /\ version' = version /\ owed' = owed /\ queue' = queue
  /\ \/ Moves(a, l) /\ applied' >= rep[a].version /\ running' = running
     \/ Moves(a, "off") /\ Released(a) /\ (applied' >= rep[a].version \/ state' \in Closed)

\* apply_reconciliation_report, in every branch.
LEMMA ApplyReportShape ==
  ASSUME StateType, NEW a \in Actors, NEW l \in Labels, ApplyReport(a, l)
  PROVE  Applied(a, l)
<1>1. rep[a].state \in {"Ready", "Halted"} /\ rep[a].version \in Nat
  BY DEF StateType, Reports
<1>2. /\ rep' = rep /\ guard' = guard /\ handle' = handle
      /\ version' = version /\ owed' = owed /\ queue' = queue
  BY DEF ApplyReport, broker
<1>3. CASE /\ applied' = Max({applied, rep[a].version})
           /\ Succeeds(rep[a].state) /\ Goto(a, l) /\ UNCHANGED flags
  <2>1. /\ Transition(rep[a].state) /\ pc' = [pc EXCEPT ![a] = l] /\ then' = then
        /\ connected' = connected /\ dirty' = dirty /\ running' = running
    BY <1>3 DEF Succeeds, Goto, flags
  <2>2. state' \in States /\ (state \in Closed => state' \in Closed)
    BY <1>1, <2>1, TransitionType, ReportKeepsClosed DEF StateType, States
  <2>3. applied' \in Nat /\ applied' >= applied /\ applied' >= rep[a].version
    BY <1>1, <1>3, MaxOfTwo DEF StateType
  <2>4. Moves(a, l)
    BY Zenon, <2>1, MovesOne
  <2> QED
    BY <1>2, <2>1, <2>2, <2>3, <2>4 DEF Applied
<1>4. CASE /\ applied' = Max({applied, rep[a].version})
           /\ Errs(rep[a].state) /\ Fail(a)
  <2>1. Transition(rep[a].state)
    BY <1>4 DEF Errs
  <2>2. state' \in States /\ (state \in Closed => state' \in Closed)
    BY <1>1, <2>1, TransitionType, ReportKeepsClosed DEF StateType, States
  <2>3. applied' \in Nat /\ applied' >= applied /\ applied' >= rep[a].version
    BY <1>1, <1>4, MaxOfTwo DEF StateType
  <2> QED
    BY <1>2, <1>4, <2>2, <2>3, FailReleases DEF Applied
<1>5. CASE Transition("Halted") /\ Fail(a) /\ UNCHANGED applied
  <2>1. state' \in States /\ state' \in Closed
    BY <1>5, TransitionType, TransitionCloses DEF StateType, States
  <2>2. applied' \in Nat /\ applied' >= applied
    BY <1>5 DEF StateType
  <2> QED
    BY <1>2, <1>5, <2>1, <2>2, FailReleases DEF Applied
<1> QED
  BY <1>3, <1>4, <1>5 DEF ApplyReport

\* The flag is free to change once its owner gives it up.
LEMMA OwnerLeaves ==
  ASSUME StateType, OneOwner, NEW a \in Tasks, Claims(a), NEW l \in {"off", "recheck"}, Moves(a, l)
  PROVE  OneOwner'
<1>1. \A b \in Actors : ~Claims(b)'
  BY ActorsDiffer DEF OneOwner, Claims, Moves, StateType
<1> QED
  BY <1>1 DEF OneOwner

\* The signal at the head of the queue, and the queue behind it.
LEMMA HeadAndTail ==
  ASSUME StateType, OwedHappened, queue # <<>>
  PROVE  /\ Tail(queue) \in Seq(Signals)
         /\ \A i \in 1..Len(Tail(queue)) : Tail(queue)[i][2] <= version
         /\ Head(queue)[2] \in Nat /\ Head(queue)[2] <= version
<1>1. Head(queue) = queue[1] /\ 1 \in 1..Len(queue) /\ Head(queue) \in Signals /\ Tail(queue) \in Seq(Signals)
  BY DEF StateType
<1>2. Head(queue)[2] \in Nat
  BY <1>1 DEF Signals
<1>3. \A i \in 1..Len(Tail(queue)) : i + 1 \in 1..Len(queue) /\ Tail(queue)[i] = queue[i + 1]
  BY DEF StateType
<1> QED
  BY <1>1, <1>2, <1>3 DEF OwedHappened

\* Another signal at the end of the queue.
LEMMA AppendSignal ==
  ASSUME StateType, OwedHappened, NEW s \in Signals, version' \in Nat, version' >= version,
         s[2] <= version'
  PROVE  /\ Append(queue, s) \in Seq(Signals)
         /\ \A i \in 1..Len(Append(queue, s)) : Append(queue, s)[i][2] <= version'
<1>1. \A i \in 1..Len(queue) : queue[i] \in Signals /\ queue[i][2] \in Nat
  BY DEF StateType, Signals
<1>2. \A i \in 1..Len(Append(queue, s)) :
        \/ i \in 1..Len(queue) /\ Append(queue, s)[i] = queue[i]
        \/ Append(queue, s)[i] = s
  BY DEF StateType
<1>3. \A i \in 1..Len(queue) : queue[i][2] <= version'
  BY <1>1 DEF OwedHappened, StateType
<1> QED
  BY <1>2, <1>3 DEF StateType

-----------------------------------------------------------------------------
(* What a move of one actor leaves alone.                                  *)

\* Nothing new is owed.
LEMMA OwedStays ==
  ASSUME OwedHappened, owed' = owed, version' = version, queue' = queue
  PROVE  OwedHappened'
  BY DEF OwedHappened

\* Nobody starts to read.
LEMMA GuardStays ==
  ASSUME GuardHeld, NEW a \in Actors, NEW l, Moves(a, l), l # "reading", guard' = guard
  PROVE  GuardHeld'
  BY DEF GuardHeld, Moves

\* The actor goes where its code has a place.
LEMMA PlacesStay ==
  ASSUME Places, NEW a \in Actors, NEW l, Moves(a, l), l \notin {"reconcile", "reading"}, then' = then,
         a = "start" => l \in StartLabels, a = "worker" => l \in WorkerLabels, a \in Tasks => l \in TaskLabels
  PROVE  Places'
  BY ActorsDiffer DEF Places, Reconciling, Moves

\* An actor that is already there leaves start() alone.
LEMMA StartStays ==
  ASSUME StartFirst, NEW a \in Actors, a # "start", pc[a] # "off", NEW l, Moves(a, l),
         then'["start"] = then["start"], started' = started
  PROVE  StartFirst'
  BY ActorsDiffer DEF StartFirst, Early, Reconciling, Moves

\* The flag keeps its owner.
LEMMA OwnerStays ==
  ASSUME OneOwner, NEW a \in Actors, NEW l, Moves(a, l), running' = running,
         a = "worker" => l # "spawn", a \in Tasks => Claims(a)
  PROVE  OneOwner'
<1>1. \A b \in Actors : Claims(b)' => Claims(b)
  BY ActorsDiffer DEF Claims, Moves
<1> QED
  BY <1>1 DEF OneOwner

\* A move of another actor, with at least as much applied.
LEMMA WorkerStays ==
  ASSUME StateType, WorkerCovers, NEW a \in Actors, a # "worker", NEW l, Moves(a, l),
         then'["worker"] = then["worker"], rep'["worker"].version = rep["worker"].version,
         owed' = owed, connected' = connected, applied' \in Nat, applied' >= applied
  PROVE  WorkerCovers'
  BY ActorsDiffer DEF StateType, WorkerCovers, Reconciling, Moves

\* A move of start() or of the worker that makes nothing quiet.
LEMMA TasksStay ==
  ASSUME StateType, TaskCovers, NEW a \in Actors, a \notin Tasks, NEW l, Moves(a, l),
         rep' = rep, dirty' = dirty, owed' = owed, applied' \in Nat, applied' >= applied,
         Quiet' => Quiet \/ applied' >= owed
  PROVE  TaskCovers'
  BY ActorsDiffer DEF StateType, Reports, TaskCovers, Moves

-----------------------------------------------------------------------------
(* Reading, committing and applying a report keeps the invariant.          *)

\* The snapshot is at least as new as everything owed so far.
LEMMA ReadKeeps ==
  ASSUME CoordinatorInvariant, NEW a \in Actors, ReadAccount(a)
  PROVE  CoordinatorInvariant'
<1>1. /\ pc[a] = "reconcile" /\ guard = "free" /\ guard' = a
      /\ pc' = [pc EXCEPT ![a] = "reading"]
      /\ rep' = [rep EXCEPT ![a].version = version]
      /\ state' = state /\ connected' = connected /\ dirty' = dirty
      /\ running' = running /\ then' = then /\ started' = started /\ handle' = handle
      /\ version' = version /\ queue' = queue /\ owed' = owed /\ applied' = applied
  BY DEF ReadAccount, Goto, flags, broker
<1>2. Moves(a, "reading")
  BY Zenon, <1>1, MovesOne DEF CoordinatorInvariant, Labels
<1>3. /\ rep' \in [Actors -> Reports] /\ rep'[a].version = version
      /\ \A b \in Actors : b # a => rep'[b] = rep[b]
  BY <1>1 DEF CoordinatorInvariant, StateType, Reports
<1>4. StateType'
    BY <1>1, <1>2, <1>3, ActorsDiffer DEF CoordinatorInvariant, StateType, Moves
<1>5. Places'
    BY <1>1, <1>2, <1>3, ActorsDiffer DEF CoordinatorInvariant, Places, Reconciling, StateType, Moves,
     StartLabels, WorkerLabels, TaskLabels
<1>6. OwedHappened'
    BY <1>1, <1>2, <1>3, OwedStays DEF CoordinatorInvariant
<1>7. StartFirst'
    BY <1>1, <1>2, <1>3, ActorsDiffer DEF CoordinatorInvariant, StartFirst, Early, Places, Reconciling,
     StateType, Moves, StartLabels
<1>8. OneOwner'
    BY <1>1, <1>2, <1>3, OwnerStays, ActorsDiffer DEF CoordinatorInvariant, Claims
<1>9. WorkerCovers'
    BY <1>1, <1>2, <1>3, ActorsDiffer DEF CoordinatorInvariant, WorkerCovers, Reconciling, Places, StateType,
     Moves, OwedHappened, Reports
<1>10. TaskCovers'
    BY <1>1, <1>2, <1>3, ActorsDiffer DEF CoordinatorInvariant, TaskCovers, WorkerCovers, Quiet, Places,
     Reconciling, StateType, Moves, OwedHappened, OneOwner, Claims, Reports
<1>11. Covered'
    BY <1>1, <1>2, <1>3, ActorsDiffer DEF CoordinatorInvariant, Covered, WorkerCovers, TaskCovers, Quiet,
     Places, Reconciling, StartCovers, StateType, Moves, OwedHappened, Reports
<1>12. GuardHeld'
    BY <1>1, <1>2, <1>3, ActorsDiffer DEF CoordinatorInvariant, GuardHeld, Places, Reconciling, StateType, Moves
<1> QED
  BY <1>4, <1>5, <1>6, <1>7, <1>8, <1>9, <1>10, <1>11, <1>12 DEF CoordinatorInvariant

\* The report is committed, the guard given back.
LEMMA CommitKeeps ==
  ASSUME CoordinatorInvariant, NEW a \in Actors, CommitReport(a),
         ~(Fail(a) /\ Transition("Halted") /\ UNCHANGED rep)
  PROVE  CoordinatorInvariant'
<1>1. /\ pc[a] = "reading" /\ guard' = "free"
      /\ pc' = [pc EXCEPT ![a] = then[a]] /\ then' = [then EXCEPT ![a] = "off"]
      /\ state' = state /\ running' = running /\ connected' = connected
      /\ dirty' = dirty /\ started' = started /\ handle' = handle
      /\ version' = version /\ queue' = queue /\ owed' = owed /\ applied' = applied
  BY DEF CommitReport, flags, broker
<1>2. Moves(a, then[a])
  BY Zenon, <1>1, MovesOne DEF CoordinatorInvariant, StateType
<1>3. /\ then' \in [Actors -> Labels]
      /\ \A b \in Actors : b # a => then'[b] = then[b]
  BY <1>1 DEF CoordinatorInvariant, StateType, Labels
<1>4. rep' \in [Actors -> Reports] /\ \A b \in Actors : rep'[b].version = rep[b].version
  <2>1. PICK s \in {"Ready", "Halted"} : rep' = [rep EXCEPT ![a].state = s]
    BY DEF CommitReport
  <2>2. rep[a].version \in Nat /\ rep \in [Actors -> Reports]
    BY DEF CoordinatorInvariant, StateType, Reports
  <2> QED
    BY <2>1, <2>2 DEF Reports
<1>5. StateType'
    BY <1>1, <1>2, <1>3, <1>4, ActorsDiffer DEF CoordinatorInvariant, StateType, Moves
<1>6. Places'
    BY <1>1, <1>2, <1>3, <1>4, ActorsDiffer DEF CoordinatorInvariant, Places, Reconciling, StateType, Moves,
     StartLabels, WorkerLabels, TaskLabels
<1>7. OwedHappened'
    BY <1>1, <1>2, <1>3, <1>4, OwedStays DEF CoordinatorInvariant
<1>8. StartFirst'
    BY <1>1, <1>2, <1>3, <1>4, ActorsDiffer DEF CoordinatorInvariant, StartFirst, Early, Places, Reconciling,
     StateType, Moves, StartLabels
<1>9. OneOwner'
    BY <1>1, <1>2, <1>3, <1>4, ActorsDiffer DEF CoordinatorInvariant, OneOwner, Claims, Places, Reconciling,
     StateType, Moves
<1>10. WorkerCovers'
    BY <1>1, <1>2, <1>3, <1>4, ActorsDiffer DEF CoordinatorInvariant, WorkerCovers, Reconciling, Places,
     StateType, Moves, OwedHappened, Reports
<1>11. TaskCovers'
    BY <1>1, <1>2, <1>3, <1>4, ActorsDiffer DEF CoordinatorInvariant, TaskCovers, WorkerCovers, Quiet, Places,
     Reconciling, StateType, Moves, OwedHappened, OneOwner, Claims, Reports
<1>12. Covered'
    BY <1>1, <1>2, <1>3, <1>4, ActorsDiffer DEF CoordinatorInvariant, Covered, WorkerCovers, TaskCovers, Quiet,
     Places, Reconciling, StartCovers, StateType, Moves, OwedHappened, Reports, StartFirst, Early
<1>13. GuardHeld'
    BY <1>1, <1>2, <1>3, <1>4, ActorsDiffer DEF CoordinatorInvariant, GuardHeld, Places, Reconciling, StateType,
     Moves
<1> QED
  BY <1>5, <1>6, <1>7, <1>8, <1>9, <1>10, <1>11, <1>12, <1>13 DEF CoordinatorInvariant

\* The commit fails: the state is closed and the actor ends.
LEMMA CommitFails ==
  ASSUME CoordinatorInvariant, NEW a \in Actors, CommitReport(a), Fail(a), Transition("Halted"), UNCHANGED rep
  PROVE  CoordinatorInvariant'
<1>1. /\ pc[a] = "reading" /\ guard' = "free"
      /\ started' = started /\ version' = version /\ queue' = queue
      /\ owed' = owed /\ applied' = applied /\ rep' = rep /\ handle' = handle
  BY DEF CommitReport, broker
<1>2. /\ Released(a) /\ Moves(a, "off")
      /\ then' = then /\ connected' = connected /\ dirty' = dirty
  BY FailReleases DEF CoordinatorInvariant
<1>3. state' \in States /\ state' \in Closed
  BY TransitionType, TransitionCloses DEF CoordinatorInvariant, StateType, States
<1>4. StateType'
    BY <1>1, <1>2, <1>3, ActorsDiffer DEF CoordinatorInvariant, StateType, Moves, Released
<1>5. Places'
    BY <1>1, <1>2, <1>3, PlacesStay, ActorsDiffer DEF CoordinatorInvariant, StartLabels, WorkerLabels,
     TaskLabels
<1>6. OwedHappened'
    BY <1>1, <1>2, <1>3, OwedStays DEF CoordinatorInvariant
<1>7. StartFirst'
    BY <1>1, <1>2, <1>3, ActorsDiffer DEF CoordinatorInvariant, StartFirst, Early, Places, Reconciling,
     StateType, Moves, StartLabels
<1>8. OneOwner'
    BY <1>1, <1>2, <1>3, ActorsDiffer DEF CoordinatorInvariant, OneOwner, Claims, Places, Reconciling,
     StateType, Moves, Released
<1>9. WorkerCovers'
    BY <1>1, <1>2, <1>3, ActorsDiffer DEF CoordinatorInvariant, WorkerCovers, Reconciling, Places, StateType,
     Moves, OwedHappened, Reports
<1>10. TaskCovers'
    BY SMTT(30), <1>1, <1>2, <1>3, ActorsDiffer DEF CoordinatorInvariant, TaskCovers, WorkerCovers, Quiet, Places,
     Reconciling, StateType, Moves, OwedHappened, OneOwner, Claims, Reports, Released
<1>11. Covered'
    BY <1>1, <1>2, <1>3, ActorsDiffer DEF CoordinatorInvariant, Covered, WorkerCovers, TaskCovers, Quiet,
     Places, Reconciling, StartCovers, StateType, Moves, OwedHappened, Reports, Released
<1>12. GuardHeld'
    BY <1>1, <1>2, <1>3, ActorsDiffer DEF CoordinatorInvariant, GuardHeld, Places, Reconciling, StateType, Moves
<1> QED
  BY <1>4, <1>5, <1>6, <1>7, <1>8, <1>9, <1>10, <1>11, <1>12 DEF CoordinatorInvariant

\* start() applies its second report.
LEMMA StartAppliesKeeps ==
  ASSUME CoordinatorInvariant, StartApplies
  PROVE  CoordinatorInvariant'
<1>1. /\ pc["start"] = "apply" /\ Applied("start", "done")
      /\ started' = (pc'["start"] = "done")
  BY ActorsDiffer, ApplyReportShape DEF CoordinatorInvariant, Labels, StartApplies
<1>2. StateType'
    BY <1>1, ActorsDiffer DEF CoordinatorInvariant, StateType, Moves, Applied, Reports, Released
<1>3. Places'
    BY <1>1, PlacesStay, ActorsDiffer DEF CoordinatorInvariant, StartLabels, WorkerLabels, TaskLabels, Applied
<1>4. OwedHappened'
    BY <1>1, OwedStays DEF CoordinatorInvariant, Applied
<1>5. StartFirst'
    BY Zenon, <1>1, ActorsDiffer DEF CoordinatorInvariant, StartFirst, Early, Places, Reconciling, StateType, Moves,
     StartLabels, Applied, Reports
<1>6. OneOwner'
    BY <1>1, OwnerStays, ActorsDiffer DEF CoordinatorInvariant, Claims, Applied, Released
<1>7. WorkerCovers'
    BY <1>1, WorkerStays, ActorsDiffer DEF CoordinatorInvariant, StateType, Applied
<1>8. TaskCovers'
    BY <1>1, TasksStay, ActorsDiffer DEF CoordinatorInvariant, StateType, Quiet, Moves, WorkerCovers, Applied
<1>9. Covered'
    BY <1>1, ActorsDiffer DEF CoordinatorInvariant, Covered, WorkerCovers, TaskCovers, Quiet, Places,
     Reconciling, StartCovers, StateType, Moves, OwedHappened, Reports, Applied, Released
<1>10. GuardHeld'
    BY <1>1, GuardStays, ActorsDiffer DEF CoordinatorInvariant, Applied
<1> QED
  BY <1>2, <1>3, <1>4, <1>5, <1>6, <1>7, <1>8, <1>9, <1>10 DEF CoordinatorInvariant

\* The worker applies the report of an unfamiliar event.
LEMMA ForcedAppliesKeeps ==
  ASSUME CoordinatorInvariant, ForcedApplies
  PROVE  CoordinatorInvariant'
<1>1. /\ pc["worker"] = "forced" /\ Applied("worker", IF rep["worker"].state = "Ready" THEN "confirm" ELSE "idle")
      /\ started' = started
  BY ActorsDiffer, ApplyReportShape DEF CoordinatorInvariant, Labels, ForcedApplies
<1>2. StateType'
    BY <1>1, ActorsDiffer DEF CoordinatorInvariant, StateType, Moves, Applied, Reports, Released
<1>3. Places'
    BY <1>1, PlacesStay, ActorsDiffer DEF CoordinatorInvariant, StartLabels, WorkerLabels, TaskLabels, Applied
<1>4. OwedHappened'
    BY <1>1, OwedStays DEF CoordinatorInvariant, Applied
<1>5. StartFirst'
    BY <1>1, StartStays, ActorsDiffer DEF CoordinatorInvariant, Applied
<1>6. OneOwner'
    BY <1>1, OwnerStays, ActorsDiffer DEF CoordinatorInvariant, Claims, Applied, Released
<1>7. WorkerCovers'
    BY <1>1, ActorsDiffer DEF CoordinatorInvariant, WorkerCovers, Reconciling, Places, StateType, Moves,
     OwedHappened, Reports, Applied
<1>8. TaskCovers'
    BY <1>1, ActorsDiffer DEF CoordinatorInvariant, TaskCovers, WorkerCovers, Quiet, Places, Reconciling,
     StateType, Moves, OwedHappened, OneOwner, Claims, Reports, Applied, Released
<1>9. Covered'
    BY <1>1, ActorsDiffer DEF CoordinatorInvariant, Covered, WorkerCovers, TaskCovers, Quiet, Places,
     Reconciling, StartCovers, StateType, Moves, OwedHappened, Reports, Applied, Released
<1>10. GuardHeld'
    BY <1>1, GuardStays, ActorsDiffer DEF CoordinatorInvariant, Applied
<1> QED
  BY <1>2, <1>3, <1>4, <1>5, <1>6, <1>7, <1>8, <1>9, <1>10 DEF CoordinatorInvariant

\* The first report of a gap recovery is not READY.
LEMMA GapHaltsKeeps ==
  ASSUME CoordinatorInvariant, GapHalts
  PROVE  CoordinatorInvariant'
<1>1. /\ pc["worker"] = "firstgap" /\ Applied("worker", "idle")
      /\ started' = started
  BY ActorsDiffer, ApplyReportShape DEF CoordinatorInvariant, Labels, GapHalts
<1>2. StateType'
    BY <1>1, ActorsDiffer DEF CoordinatorInvariant, StateType, Moves, Applied, Reports, Released
<1>3. Places'
    BY <1>1, PlacesStay, ActorsDiffer DEF CoordinatorInvariant, StartLabels, WorkerLabels, TaskLabels, Applied
<1>4. OwedHappened'
    BY <1>1, OwedStays DEF CoordinatorInvariant, Applied
<1>5. StartFirst'
    BY <1>1, StartStays, ActorsDiffer DEF CoordinatorInvariant, Applied
<1>6. OneOwner'
    BY <1>1, OwnerStays, ActorsDiffer DEF CoordinatorInvariant, Claims, Applied, Released
<1>7. WorkerCovers'
    BY <1>1, ActorsDiffer DEF CoordinatorInvariant, WorkerCovers, Reconciling, Places, StateType, Moves,
     OwedHappened, Reports, Applied
<1>8. TaskCovers'
    BY <1>1, ActorsDiffer DEF CoordinatorInvariant, TaskCovers, WorkerCovers, Quiet, Places, Reconciling,
     StateType, Moves, OwedHappened, OneOwner, Claims, Reports, Applied, Released
<1>9. Covered'
    BY <1>1, ActorsDiffer DEF CoordinatorInvariant, Covered, WorkerCovers, TaskCovers, Quiet, Places,
     Reconciling, StartCovers, StateType, Moves, OwedHappened, Reports, Applied, Released
<1>10. GuardHeld'
    BY <1>1, GuardStays, ActorsDiffer DEF CoordinatorInvariant, Applied
<1> QED
  BY <1>2, <1>3, <1>4, <1>5, <1>6, <1>7, <1>8, <1>9, <1>10 DEF CoordinatorInvariant

\* The worker applies the second report of a gap recovery.
LEMMA GapAppliesKeeps ==
  ASSUME CoordinatorInvariant, GapApplies
  PROVE  CoordinatorInvariant'
<1>1. /\ pc["worker"] = "apply" /\ Applied("worker", "idle")
      /\ started' = started
  BY ActorsDiffer, ApplyReportShape DEF CoordinatorInvariant, Labels, GapApplies
<1>2. StateType'
    BY <1>1, ActorsDiffer DEF CoordinatorInvariant, StateType, Moves, Applied, Reports, Released
<1>3. Places'
    BY <1>1, PlacesStay, ActorsDiffer DEF CoordinatorInvariant, StartLabels, WorkerLabels, TaskLabels, Applied
<1>4. OwedHappened'
    BY <1>1, OwedStays DEF CoordinatorInvariant, Applied
<1>5. StartFirst'
    BY <1>1, StartStays, ActorsDiffer DEF CoordinatorInvariant, Applied
<1>6. OneOwner'
    BY <1>1, OwnerStays, ActorsDiffer DEF CoordinatorInvariant, Claims, Applied, Released
<1>7. WorkerCovers'
    BY <1>1, ActorsDiffer DEF CoordinatorInvariant, WorkerCovers, Reconciling, Places, StateType, Moves,
     OwedHappened, Reports, Applied
<1>8. TaskCovers'
    BY <1>1, ActorsDiffer DEF CoordinatorInvariant, TaskCovers, WorkerCovers, Quiet, Places, Reconciling,
     StateType, Moves, OwedHappened, OneOwner, Claims, Reports, Applied, Released
<1>9. Covered'
    BY <1>1, ActorsDiffer DEF CoordinatorInvariant, Covered, WorkerCovers, TaskCovers, Quiet, Places,
     Reconciling, StartCovers, StateType, Moves, OwedHappened, Reports, Applied, Released
<1>10. GuardHeld'
    BY <1>1, GuardStays, ActorsDiffer DEF CoordinatorInvariant, Applied
<1> QED
  BY <1>2, <1>3, <1>4, <1>5, <1>6, <1>7, <1>8, <1>9, <1>10 DEF CoordinatorInvariant

\* A task applies its report; an error gives the flag back.
LEMMA TaskAppliesKeeps ==
  ASSUME CoordinatorInvariant, NEW t \in Tasks, TaskApplies(t)
  PROVE  CoordinatorInvariant'
<1>1. /\ pc[t] = "apply" /\ Applied(t, "release")
      /\ started' = started
  BY ActorsDiffer, ApplyReportShape DEF CoordinatorInvariant, Labels, TaskApplies
<1>2. StateType'
    BY <1>1, ActorsDiffer DEF CoordinatorInvariant, StateType, Moves, Applied, Reports, Released
<1>3. Places'
    BY <1>1, PlacesStay, ActorsDiffer DEF CoordinatorInvariant, StartLabels, WorkerLabels, TaskLabels, Applied
<1>4. OwedHappened'
    BY <1>1, OwedStays DEF CoordinatorInvariant, Applied
<1>5. StartFirst'
    BY <1>1, StartStays, ActorsDiffer DEF CoordinatorInvariant, Applied
<1>6. OneOwner'
  <2>1. Claims(t)
    BY <1>1, ActorsDiffer DEF Claims
  <2>2. CASE Moves(t, "off")
    BY <2>1, <2>2, OwnerLeaves, ActorsDiffer DEF CoordinatorInvariant
  <2>3. CASE Moves(t, "release") /\ running' = running
    BY <2>1, <2>3, ActorsDiffer DEF CoordinatorInvariant, OneOwner, Claims, StateType, Moves
  <2> QED
    BY <1>1, <2>2, <2>3 DEF Applied
<1>7. WorkerCovers'
    BY <1>1, WorkerStays, ActorsDiffer DEF CoordinatorInvariant, StateType, Applied
<1>8. TaskCovers'
    BY <1>1, ActorsDiffer DEF CoordinatorInvariant, TaskCovers, WorkerCovers, Quiet, Places, Reconciling,
     StateType, Moves, OwedHappened, OneOwner, Claims, Reports, Applied, Released
<1>9. Covered'
    BY <1>1, ActorsDiffer DEF CoordinatorInvariant, Covered, WorkerCovers, TaskCovers, Quiet, Places,
     Reconciling, StartCovers, StateType, Moves, OwedHappened, Reports, Applied, Released
<1>10. GuardHeld'
    BY <1>1, GuardStays, ActorsDiffer DEF CoordinatorInvariant, Applied
<1> QED
  BY <1>2, <1>3, <1>4, <1>5, <1>6, <1>7, <1>8, <1>9, <1>10 DEF CoordinatorInvariant

-----------------------------------------------------------------------------
(* So do the other steps of a task and of start().                         *)

\* A task clears reconciliation_dirty before it reads.
LEMMA TaskClearsKeeps ==
  ASSUME CoordinatorInvariant, NEW t \in Tasks, TaskClears(t)
  PROVE  CoordinatorInvariant'
<1>1. /\ pc[t] = "clear"
      /\ state' = state /\ connected' = connected /\ running' = running /\ guard' = guard /\ rep' = rep
      /\ started' = started /\ version' = version /\ queue' = queue /\ owed' = owed /\ applied' = applied
      /\ handle' = handle
  BY DEF TaskClears, Goto, flags, others, broker
<1>2. dirty' \in BOOLEAN /\ ~dirty'
  BY Zenon DEF TaskClears
<1>3. then' = [then EXCEPT ![t] = "check"]
  BY DEF TaskClears, Reconcile
<1>4. pc' = [pc EXCEPT ![t] = "reconcile"]
  BY DEF TaskClears, Goto, Reconcile
<1>5. Moves(t, "reconcile")
  BY Zenon, <1>4, MovesOne, ActorsDiffer DEF CoordinatorInvariant, Labels
<1>6. StateType'
    BY <1>1, <1>2, <1>3, <1>4, <1>5, ActorsDiffer DEF CoordinatorInvariant, StateType, Moves, Labels
<1>7. Places'
    BY <1>1, <1>2, <1>3, <1>4, <1>5, ActorsDiffer DEF CoordinatorInvariant, Places, Reconciling, StateType,
     Moves, StartLabels, WorkerLabels, TaskLabels
<1>8. OwedHappened'
    BY <1>1, <1>2, <1>3, <1>4, <1>5, OwedStays DEF CoordinatorInvariant
<1>9. StartFirst'
    BY <1>1, <1>2, <1>3, <1>4, <1>5, StartStays, ActorsDiffer DEF CoordinatorInvariant
<1>10. OneOwner'
    BY <1>1, <1>2, <1>3, <1>4, <1>5, OwnerStays, ActorsDiffer DEF CoordinatorInvariant, Claims
<1>11. WorkerCovers'
    BY <1>1, <1>2, <1>3, <1>4, <1>5, WorkerStays, ActorsDiffer DEF CoordinatorInvariant, StateType
<1>12. TaskCovers'
    BY Zenon, <1>1, <1>2, <1>3, <1>4, <1>5, ActorsDiffer DEF CoordinatorInvariant, TaskCovers, WorkerCovers, Quiet,
     Places, Reconciling, StateType, Moves, OwedHappened, OneOwner, Claims, Reports
<1>13. Covered'
    BY Zenon, <1>1, <1>2, <1>3, <1>4, <1>5, ActorsDiffer DEF CoordinatorInvariant, Covered, WorkerCovers, TaskCovers,
     Quiet, Places, Reconciling, StartCovers, StateType, Moves, OwedHappened, Reports, OneOwner, Claims
<1>14. GuardHeld'
    BY <1>1, <1>2, <1>3, <1>4, <1>5, GuardStays, ActorsDiffer DEF CoordinatorInvariant
<1> QED
  BY <1>6, <1>7, <1>8, <1>9, <1>10, <1>11, <1>12, <1>13, <1>14 DEF CoordinatorInvariant

\* A task looks whether an event came while it read.
LEMMA TaskChecksKeeps ==
  ASSUME CoordinatorInvariant, NEW t \in Tasks, TaskChecks(t)
  PROVE  CoordinatorInvariant'
<1>1. /\ pc[t] = "check"
      /\ state' = state /\ connected' = connected /\ dirty' = dirty /\ running' = running /\ guard' = guard
      /\ then' = then /\ rep' = rep /\ started' = started /\ version' = version /\ queue' = queue
      /\ owed' = owed /\ applied' = applied /\ handle' = handle
  BY DEF TaskChecks, Goto, flags, others, broker
<1>2. \/ pc' = [pc EXCEPT ![t] = "clear"] /\ dirty
      \/ pc' = [pc EXCEPT ![t] = "apply"] /\ ~dirty
  BY Zenon DEF TaskChecks, Goto
<1>3. \/ Moves(t, "clear") /\ dirty
      \/ Moves(t, "apply") /\ ~dirty
  BY <1>2, MovesOne, ActorsDiffer DEF CoordinatorInvariant, Labels
<1>4. StateType'
    BY <1>1, <1>2, <1>3, ActorsDiffer DEF CoordinatorInvariant, StateType, Moves
<1>5. Places'
    BY <1>1, <1>2, <1>3, PlacesStay, ActorsDiffer DEF CoordinatorInvariant, StartLabels, WorkerLabels,
     TaskLabels
<1>6. OwedHappened'
    BY <1>1, <1>2, <1>3, OwedStays DEF CoordinatorInvariant
<1>7. StartFirst'
    BY <1>1, <1>2, <1>3, StartStays, ActorsDiffer DEF CoordinatorInvariant
<1>8. OneOwner'
    BY <1>1, <1>2, <1>3, OwnerStays, ActorsDiffer DEF CoordinatorInvariant, Claims
<1>9. WorkerCovers'
    BY <1>1, <1>2, <1>3, WorkerStays, ActorsDiffer DEF CoordinatorInvariant, StateType
<1>10. TaskCovers'
    BY <1>1, <1>2, <1>3, ActorsDiffer DEF CoordinatorInvariant, TaskCovers, WorkerCovers, Quiet, Places,
     Reconciling, StateType, Moves, OwedHappened, OneOwner, Claims, Reports
<1>11. Covered'
    BY <1>1, <1>2, <1>3, ActorsDiffer DEF CoordinatorInvariant, Covered, WorkerCovers, TaskCovers, Quiet,
     Places, Reconciling, StartCovers, StateType, Moves, OwedHappened, Reports
<1>12. GuardHeld'
    BY <1>1, <1>2, <1>3, GuardStays, ActorsDiffer DEF CoordinatorInvariant
<1> QED
  BY <1>4, <1>5, <1>6, <1>7, <1>8, <1>9, <1>10, <1>11, <1>12 DEF CoordinatorInvariant

\* A task gives the flag back.
LEMMA TaskReleasesKeeps ==
  ASSUME CoordinatorInvariant, NEW t \in Tasks, TaskReleases(t)
  PROVE  CoordinatorInvariant'
<1>1. /\ pc[t] = "release"
      /\ state' = state /\ connected' = connected /\ dirty' = dirty /\ guard' = guard /\ then' = then
      /\ rep' = rep /\ started' = started /\ version' = version /\ queue' = queue /\ owed' = owed
      /\ applied' = applied /\ handle' = handle
  BY DEF TaskReleases, Goto, flags, others, broker
<1>2. running' \in BOOLEAN /\ ~running'
  BY Zenon DEF TaskReleases
<1>3. pc' = [pc EXCEPT ![t] = "recheck"]
  BY DEF TaskReleases, Goto
<1>4. Moves(t, "recheck")
  BY Zenon, <1>3, MovesOne, ActorsDiffer DEF CoordinatorInvariant, Labels
<1>5. StateType'
    BY <1>1, <1>2, <1>3, <1>4, ActorsDiffer DEF CoordinatorInvariant, StateType, Moves
<1>6. Places'
    BY <1>1, <1>2, <1>3, <1>4, PlacesStay, ActorsDiffer DEF CoordinatorInvariant, StartLabels, WorkerLabels,
     TaskLabels
<1>7. OwedHappened'
    BY <1>1, <1>2, <1>3, <1>4, OwedStays DEF CoordinatorInvariant
<1>8. StartFirst'
    BY <1>1, <1>2, <1>3, <1>4, StartStays, ActorsDiffer DEF CoordinatorInvariant
<1>9. OneOwner'
  <2>1. Claims(t)
    BY <1>1, ActorsDiffer DEF Claims
  <2> QED
    BY <1>4, <2>1, OwnerLeaves DEF CoordinatorInvariant
<1>10. WorkerCovers'
    BY <1>1, <1>2, <1>3, <1>4, WorkerStays, ActorsDiffer DEF CoordinatorInvariant, StateType
<1>11. TaskCovers'
    BY <1>1, <1>2, <1>3, <1>4, ActorsDiffer DEF CoordinatorInvariant, TaskCovers, WorkerCovers, Quiet, Places,
     Reconciling, StateType, Moves, OwedHappened, OneOwner, Claims, Reports
<1>12. Covered'
    BY <1>1, <1>2, <1>3, <1>4, ActorsDiffer DEF CoordinatorInvariant, Covered, WorkerCovers, TaskCovers, Quiet,
     Places, Reconciling, StartCovers, StateType, Moves, OwedHappened, Reports
<1>13. GuardHeld'
    BY <1>1, <1>2, <1>3, <1>4, GuardStays, ActorsDiffer DEF CoordinatorInvariant
<1> QED
  BY <1>5, <1>6, <1>7, <1>8, <1>9, <1>10, <1>11, <1>12, <1>13 DEF CoordinatorInvariant

\* ... and takes it again if an event came in between.
LEMMA TaskRechecksKeeps ==
  ASSUME CoordinatorInvariant, NEW t \in Tasks, TaskRechecks(t)
  PROVE  CoordinatorInvariant'
<1>1. /\ pc[t] = "recheck"
      /\ state' = state /\ connected' = connected /\ dirty' = dirty /\ guard' = guard /\ then' = then
      /\ rep' = rep /\ started' = started /\ version' = version /\ queue' = queue /\ owed' = owed
      /\ applied' = applied /\ handle' = handle
  BY DEF TaskRechecks, CoordinatorInvariant, StateType, Goto, flags, others, broker
<1>2. /\ running' \in BOOLEAN /\ (dirty /\ ~running => running')
      /\ ~(dirty /\ ~running) => running' = running
  BY Zenon DEF TaskRechecks, CoordinatorInvariant, StateType
<1>3. \/ pc' = [pc EXCEPT ![t] = "again"] /\ dirty /\ ~running
      \/ pc' = [pc EXCEPT ![t] = "off"] /\ ~(dirty /\ ~running)
  BY Zenon DEF TaskRechecks, CoordinatorInvariant, StateType, Goto
<1>4. \/ Moves(t, "again") /\ dirty /\ ~running
      \/ Moves(t, "off") /\ ~(dirty /\ ~running)
  BY <1>3, MovesOne, ActorsDiffer DEF CoordinatorInvariant, Labels
<1>5. StateType'
    BY <1>1, <1>2, <1>3, <1>4, ActorsDiffer DEF CoordinatorInvariant, StateType, Moves
<1>6. Places'
    BY <1>1, <1>2, <1>3, <1>4, PlacesStay, ActorsDiffer DEF CoordinatorInvariant, StartLabels, WorkerLabels,
     TaskLabels
<1>7. OwedHappened'
    BY <1>1, <1>2, <1>3, <1>4, OwedStays DEF CoordinatorInvariant
<1>8. StartFirst'
    BY <1>1, <1>2, <1>3, <1>4, StartStays, ActorsDiffer DEF CoordinatorInvariant
<1>9. OneOwner'
    BY <1>1, <1>2, <1>3, <1>4, ActorsDiffer DEF CoordinatorInvariant, OneOwner, Claims, Places, Reconciling,
     StateType, Moves
<1>10. WorkerCovers'
    BY <1>1, <1>2, <1>3, <1>4, WorkerStays, ActorsDiffer DEF CoordinatorInvariant, StateType
<1>11. TaskCovers'
    BY <1>1, <1>2, <1>3, <1>4, ActorsDiffer DEF CoordinatorInvariant, TaskCovers, WorkerCovers, Quiet, Places,
     Reconciling, StateType, Moves, OwedHappened, OneOwner, Claims, Reports
<1>12. Covered'
    BY <1>1, <1>2, <1>3, <1>4, ActorsDiffer DEF CoordinatorInvariant, Covered, WorkerCovers, TaskCovers, Quiet,
     Places, Reconciling, StartCovers, StateType, Moves, OwedHappened, Reports
<1>13. GuardHeld'
    BY <1>1, <1>2, <1>3, <1>4, GuardStays, ActorsDiffer DEF CoordinatorInvariant
<1> QED
  BY <1>5, <1>6, <1>7, <1>8, <1>9, <1>10, <1>11, <1>12, <1>13 DEF CoordinatorInvariant

\* The streams come up; what they missed is owed.
LEMMA SubscribeKeeps ==
  ASSUME CoordinatorInvariant, Subscribe, Acknowledged
  PROVE  CoordinatorInvariant'
<1>1. /\ pc["start"] = "subscribe" /\ connected' \in BOOLEAN /\ owed' = version
      /\ state' = state /\ dirty' = dirty /\ running' = running /\ guard' = guard /\ rep' = rep
      /\ started' = started /\ version' = version /\ queue' = queue /\ applied' = applied /\ handle' = handle
  BY DEF Subscribe, Acknowledged, NotAcknowledged, flags, others
<1>2. Early
  BY <1>1 DEF Early
<1>3. \/ /\ pc' = [pc EXCEPT !["start"] = "reconcile", !["worker"] = "idle"]
         /\ then' = [then EXCEPT !["start"] = "apply"]
      \/ pc' = [pc EXCEPT !["start"] = "off"] /\ then' = then
  BY DEF Subscribe, Goto
<1>4. /\ pc' \in [Actors -> Labels]
      /\ \A t \in Tasks : pc'[t] = pc[t]
      /\ \/ /\ pc'["start"] = "reconcile" /\ pc'["worker"] = "idle"
            /\ then' = [then EXCEPT !["start"] = "apply"]
         \/ /\ pc'["start"] = "off" /\ pc'["worker"] = pc["worker"] /\ then' = then
  BY <1>3, ActorsDiffer DEF CoordinatorInvariant, StateType, Labels
<1>5. StateType'
    BY <1>1, <1>2, <1>3, <1>4, ActorsDiffer DEF CoordinatorInvariant, StateType, Moves, Labels
<1>6. Places'
    BY <1>1, <1>2, <1>3, <1>4, ActorsDiffer DEF CoordinatorInvariant, Places, Reconciling, StateType, Moves,
     StartLabels, WorkerLabels, TaskLabels, StartFirst
<1>7. OwedHappened'
    BY <1>1, <1>2, <1>3, <1>4, ActorsDiffer DEF CoordinatorInvariant, OwedHappened, StateType
<1>8. StartFirst'
    BY <1>1, <1>2, <1>3, <1>4, ActorsDiffer DEF CoordinatorInvariant, StartFirst, Early, Places, Reconciling,
     StateType, Moves, StartLabels
<1>9. OneOwner'
    BY <1>1, <1>2, <1>3, <1>4, ActorsDiffer DEF CoordinatorInvariant, OneOwner, Claims, Places, Reconciling,
     StateType, Moves, StartFirst, Early
<1>10. WorkerCovers'
    BY <1>1, <1>2, <1>3, <1>4, ActorsDiffer DEF CoordinatorInvariant, WorkerCovers, Reconciling, Places,
     StateType, Moves, OwedHappened, Reports, StartFirst, Early
<1>11. TaskCovers'
    BY <1>1, <1>2, <1>3, <1>4, ActorsDiffer DEF CoordinatorInvariant, TaskCovers, WorkerCovers, Quiet, Places,
     Reconciling, StateType, Moves, OwedHappened, OneOwner, Claims, Reports, StartFirst, Early
<1>12. Covered'
    BY <1>1, <1>2, <1>3, <1>4, ActorsDiffer DEF CoordinatorInvariant, Covered, WorkerCovers, TaskCovers, Quiet,
     Places, Reconciling, StartCovers, StateType, Moves, OwedHappened, Reports, StartFirst, Early
<1>13. GuardHeld'
    BY <1>1, <1>2, <1>3, <1>4, ActorsDiffer DEF CoordinatorInvariant, GuardHeld, Places, Reconciling, StateType,
     Moves, StartFirst
<1> QED
  BY <1>5, <1>6, <1>7, <1>8, <1>9, <1>10, <1>11, <1>12, <1>13 DEF CoordinatorInvariant

\* start() before the streams are up.
LEMMA EarlyKeeps ==
  ASSUME CoordinatorInvariant, Early, NEW l \in StartLabels \ {"reading", "done"}, Moves("start", l),
         state' \in States, then' \in [Actors -> Labels], then'["worker"] = then["worker"],
         \A t \in Tasks : then'[t] = then[t], l = "reconcile" => then'["start"] = "first",
         UNCHANGED <<connected, dirty, running, guard, handle, rep, started, version, queue, owed, applied>>
  PROVE  CoordinatorInvariant'
<1>1. /\ connected' = connected /\ dirty' = dirty /\ running' = running /\ guard' = guard /\ handle' = handle /\ rep' = rep
      /\ started' = started /\ version' = version /\ queue' = queue /\ owed' = owed /\ applied' = applied
  BY DEF Early
<1>2. StateType'
    BY <1>1, ActorsDiffer DEF CoordinatorInvariant, StateType, Moves
<1>3. Places'
    BY <1>1, ActorsDiffer DEF CoordinatorInvariant, Places, Reconciling, StateType, Moves, StartLabels,
     WorkerLabels, TaskLabels
<1>4. OwedHappened'
    BY <1>1, OwedStays DEF CoordinatorInvariant
<1>5. StartFirst'
    BY <1>1, ActorsDiffer DEF CoordinatorInvariant, StartFirst, Early, Places, Reconciling, StateType, Moves,
     StartLabels
<1>6. OneOwner'
    BY <1>1, OwnerStays, ActorsDiffer DEF CoordinatorInvariant, Claims
<1>7. WorkerCovers'
    BY <1>1, WorkerStays, ActorsDiffer DEF CoordinatorInvariant, StateType
<1>8. TaskCovers'
    BY <1>1, TasksStay, ActorsDiffer DEF CoordinatorInvariant, StateType, Quiet, Moves, WorkerCovers
<1>9. Covered'
    BY <1>1, ActorsDiffer DEF CoordinatorInvariant, Covered, WorkerCovers, TaskCovers, Quiet, Places,
     Reconciling, StartCovers, StateType, Moves, OwedHappened, Reports, StartFirst, Early
<1>10. GuardHeld'
    BY <1>1, GuardStays, ActorsDiffer DEF CoordinatorInvariant
<1> QED
  BY <1>2, <1>3, <1>4, <1>5, <1>6, <1>7, <1>8, <1>9, <1>10 DEF CoordinatorInvariant

\* The steps of start() up to the subscription, and one that fails.
LEMMA StartOpensKeeps ==
  ASSUME CoordinatorInvariant,
         StartConnecting \/ StartReconciling \/ FirstReport
           \/ (Subscribe /\ NotAcknowledged /\ Goto("start", "off"))
  PROVE  CoordinatorInvariant'
<1>1. Early
  BY DEF Early, StartConnecting, StartReconciling, FirstReport, Subscribe
<1>2. /\ connected' = connected /\ dirty' = dirty /\ running' = running /\ guard' = guard
      /\ handle' = handle /\ rep' = rep /\ started' = started /\ version' = version
      /\ queue' = queue /\ owed' = owed /\ applied' = applied
  <2>1. CASE FirstReport
    BY <2>1 DEF FirstReport, flags, others, broker
  <2>2. CASE StartConnecting \/ StartReconciling
    BY <2>2 DEF StartConnecting, StartReconciling, flags, others, broker
  <2>3. CASE Subscribe /\ NotAcknowledged
    BY <2>3 DEF Subscribe, NotAcknowledged, flags, others, broker
  <2> QED
    BY <2>1, <2>2, <2>3
<1>3. state' \in States
  BY TransitionType DEF StartConnecting, StartReconciling, FirstReport, Subscribe, NotAcknowledged, Succeeds, Errs,
     CoordinatorInvariant, StateType, States
<1>4. \/ \E l \in {"off", "connecting", "apply", "subscribe"} : pc' = [pc EXCEPT !["start"] = l] /\ then' = then
      \/ /\ pc' = [pc EXCEPT !["start"] = "reconcile"]
         /\ then' = [then EXCEPT !["start"] = "first"]
  BY DEF StartConnecting, StartReconciling, FirstReport, Goto, Reconcile
<1>5. CASE \E l \in {"off", "connecting", "apply", "subscribe"} : pc' = [pc EXCEPT !["start"] = l] /\ then' = then
  <2>1. PICK l \in {"off", "connecting", "apply", "subscribe"} : pc' = [pc EXCEPT !["start"] = l]
    BY Zenon, <1>5
  <2>2. Moves("start", l)
    BY Zenon, <2>1, MovesOne, ActorsDiffer DEF CoordinatorInvariant, Labels
  <2> QED
    BY <1>1, <1>2, <1>3, <1>5, <2>2, EarlyKeeps DEF CoordinatorInvariant, StateType, StartLabels
<1>6. CASE pc' = [pc EXCEPT !["start"] = "reconcile"] /\ then' = [then EXCEPT !["start"] = "first"]
  <2>1. Moves("start", "reconcile")
    BY Zenon, <1>6, MovesOne, ActorsDiffer DEF CoordinatorInvariant, Labels
  <2>2. /\ then' \in [Actors -> Labels] /\ then'["start"] = "first" /\ then'["worker"] = then["worker"]
        /\ \A t \in Tasks : then'[t] = then[t]
    BY <1>6, ActorsDiffer DEF CoordinatorInvariant, StateType, Labels
  <2> QED
    BY <1>1, <1>2, <1>3, <2>1, <2>2, EarlyKeeps DEF StartLabels
<1> QED
  BY <1>4, <1>5, <1>6
=============================================================================
