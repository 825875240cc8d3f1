-------------------------- MODULE CoordinatorProofs --------------------------
(***************************************************************************)
(* Theorems about RuntimeCoordinator, for any number of tasks, gaps and    *)
(* account changes: snapshots never overlap, and once the worker is done   *)
(* with a signal an open gate reflects it.                                 *)
(***************************************************************************)
EXTENDS CoordinatorReports

-----------------------------------------------------------------------------
(* The other steps keep the invariant.                                     *)

\* The worker is at work on a signal, or ends.
LEMMA BusyKeeps ==
  ASSUME CoordinatorInvariant, NEW l \in {"off", "reconcile", "gap"}, Moves("worker", l), pc["worker"] # "off",
         state' \in States, connected' \in BOOLEAN, l = "gap" => ~connected',
         then' \in [Actors -> Labels], \A a \in Actors : a # "worker" => then'[a] = then[a],
         l = "reconcile" => \/ then'["worker"] \in {"forced", "apply"}
                            \/ then'["worker"] = "firstgap" /\ ~connected',
         queue' \in Seq(Signals), \A i \in 1..Len(queue') : queue'[i][2] <= version,
         owed' \in Nat, owed' <= version,
         UNCHANGED <<dirty, running, guard, handle, rep, started, version, applied>>
  PROVE  CoordinatorInvariant'
<1>1. /\ dirty' = dirty /\ running' = running /\ guard' = guard /\ handle' = handle
      /\ rep' = rep /\ started' = started /\ version' = version /\ applied' = applied
  BY DEF Early
<1>2. StateType'
    BY <1>1, ActorsDiffer DEF CoordinatorInvariant, StateType, Moves
<1>3. Places'
    BY <1>1, ActorsDiffer DEF CoordinatorInvariant, Places, Reconciling, StateType, Moves, StartLabels,
     WorkerLabels, TaskLabels
<1>4. OwedHappened'
    BY <1>1, ActorsDiffer DEF CoordinatorInvariant, OwedHappened, StateType
<1>5. StartFirst'
    BY <1>1, StartStays, ActorsDiffer DEF CoordinatorInvariant
<1>6. OneOwner'
    BY <1>1, OwnerStays, ActorsDiffer DEF CoordinatorInvariant, Claims
<1>7. WorkerCovers'
    BY <1>1, ActorsDiffer DEF CoordinatorInvariant, WorkerCovers, Reconciling, Places, StateType, Moves,
     OwedHappened, Reports
<1>8. TaskCovers'
    BY <1>1, ActorsDiffer DEF CoordinatorInvariant, TaskCovers, WorkerCovers, Quiet, Places, Reconciling,
     StateType, Moves, OwedHappened, OneOwner, Claims, Reports
<1>9. Covered'
    BY <1>1, ActorsDiffer DEF CoordinatorInvariant, Covered, WorkerCovers, TaskCovers, Quiet, Places,
     Reconciling, StartCovers, StateType, Moves, OwedHappened, Reports
<1>10. GuardHeld'
    BY <1>1, GuardStays, ActorsDiffer DEF CoordinatorInvariant
<1> QED
  BY <1>2, <1>3, <1>4, <1>5, <1>6, <1>7, <1>8, <1>9, <1>10 DEF CoordinatorInvariant

\* The worker moves on without touching the account.
LEMMA WorkerGoes ==
  ASSUME CoordinatorInvariant, pc["worker"] # "off",
         NEW l \in {"off", "reconcile", "gap"}, pc' = [pc EXCEPT !["worker"] = l],
         NEW k \in {"forced", "apply", "firstgap"},
         then' = IF l = "reconcile" THEN [then EXCEPT !["worker"] = k] ELSE then,
         l = "gap" \/ (l = "reconcile" /\ k = "firstgap") => ~connected',
         state' \in States, connected' \in BOOLEAN,
         queue' \in Seq(Signals), \A i \in 1..Len(queue') : queue'[i][2] <= version,
         owed' \in Nat, owed' <= version,
         UNCHANGED <<dirty, running, guard, handle, rep, started, version, applied>>
  PROVE  CoordinatorInvariant'
<1>1. Moves("worker", l)
  BY Zenon, MovesOne, ActorsDiffer DEF CoordinatorInvariant, Labels
<1>2. /\ then' \in [Actors -> Labels]
      /\ \A a \in Actors : a # "worker" => then'[a] = then[a]
      /\ l = "reconcile" => then'["worker"] = k
  BY ActorsDiffer DEF CoordinatorInvariant, StateType, Labels
<1> QED
  BY <1>1, <1>2, BusyKeeps

\* A capital event is marked before anything else.
LEMMA CapitalKeeps ==
  ASSUME CoordinatorInvariant, pc["worker"] = "idle", Goto("worker", "cas"), dirty' = TRUE, Noticed,
         UNCHANGED <<state, connected, running>>, owed' \in Nat, owed' <= version,
         queue' \in Seq(Signals), \A i \in 1..Len(queue') : queue'[i][2] <= version,
         UNCHANGED <<guard, handle, rep, started, version, applied>>
  PROVE  CoordinatorInvariant'
<1>1. /\ state' = state /\ connected' = connected /\ running' = running /\ guard' = guard /\ handle' = handle /\ then' = then
      /\ rep' = rep /\ started' = started /\ version' = version /\ applied' = applied
  BY DEF Goto
<1>2. dirty' \in BOOLEAN /\ dirty'
  BY Zenon
<1>3. pc' = [pc EXCEPT !["worker"] = "cas"]
  BY DEF Goto
<1>4. Moves("worker", "cas")
  BY Zenon, <1>3, MovesOne, ActorsDiffer DEF CoordinatorInvariant, Labels
<1>5. StateType'
    BY <1>1, <1>2, <1>3, <1>4, ActorsDiffer DEF CoordinatorInvariant, StateType, Moves
<1>6. Places'
    BY <1>1, <1>2, <1>3, <1>4, PlacesStay, ActorsDiffer DEF CoordinatorInvariant, StartLabels, WorkerLabels,
     TaskLabels
<1>7. OwedHappened'
    BY <1>1, <1>2, <1>3, <1>4, ActorsDiffer DEF CoordinatorInvariant, OwedHappened, StateType
<1>8. StartFirst'
    BY <1>1, <1>2, <1>3, <1>4, StartStays, ActorsDiffer DEF CoordinatorInvariant
<1>9. OneOwner'
    BY <1>1, <1>2, <1>3, <1>4, OwnerStays, ActorsDiffer DEF CoordinatorInvariant, Claims
<1>10. WorkerCovers'
    BY <1>1, <1>2, <1>3, <1>4, ActorsDiffer DEF CoordinatorInvariant, WorkerCovers, Reconciling, Places,
     StateType, Moves, OwedHappened, Reports
<1>11. TaskCovers'
    BY <1>1, <1>2, <1>3, <1>4, ActorsDiffer DEF CoordinatorInvariant, TaskCovers, WorkerCovers, Quiet, Places,
     Reconciling, StateType, Moves, OwedHappened, OneOwner, Claims, Reports
<1>12. Covered'
    BY <1>1, <1>2, <1>3, <1>4, ActorsDiffer DEF CoordinatorInvariant, Covered, WorkerCovers, TaskCovers, Quiet,
     Places, Reconciling, StartCovers, StateType, Moves, OwedHappened, Reports
<1>13. GuardHeld'
    BY <1>1, <1>2, <1>3, <1>4, GuardStays, ActorsDiffer DEF CoordinatorInvariant
<1> QED
  BY <1>5, <1>6, <1>7, <1>8, <1>9, <1>10, <1>11, <1>12, <1>13 DEF CoordinatorInvariant

\* The worker takes a signal.
LEMMA ReceiveKeeps ==
  ASSUME CoordinatorInvariant, Receive
  PROVE  CoordinatorInvariant'
<1>1. /\ pc["worker"] = "idle" /\ queue # <<>> /\ queue' = Tail(queue)
      /\ guard' = guard /\ handle' = handle /\ rep' = rep /\ started' = started
      /\ version' = version /\ applied' = applied
  BY DEF Receive, others
<1>2. /\ queue' \in Seq(Signals) /\ Head(queue)[2] \in Nat /\ Head(queue)[2] <= version
      /\ \A i \in 1..Len(queue') : queue'[i][2] <= version
  BY <1>1, HeadAndTail DEF CoordinatorInvariant
<1>3. owed \in Nat /\ owed <= version
  BY DEF CoordinatorInvariant, StateType, OwedHappened
<1>4. Noticed => owed' \in Nat /\ owed' <= version
  BY <1>2, <1>3, MaxOfTwo DEF Noticed
<1>5. CASE Goto("worker", "cas") /\ dirty' = TRUE /\ Noticed /\ UNCHANGED <<state, connected, running>>
  BY <1>1, <1>2, <1>4, <1>5, CapitalKeeps
<1>6. CASE /\ (Succeeds("Reconciling") /\ Reconcile("worker", "forced")) \/ (Errs("Reconciling") /\ Goto("worker", "off"))
           /\ Noticed /\ UNCHANGED flags
  <2>1. state' \in States
    BY <1>6, TransitionType DEF Succeeds, Errs, CoordinatorInvariant, StateType, States
  <2> QED
    BY <1>1, <1>2, <1>4, <1>6, <2>1, WorkerGoes DEF Reconcile, Goto, flags, CoordinatorInvariant, StateType
<1>7. CASE connected' = FALSE /\ Goto("worker", "gap") /\ UNCHANGED <<state, dirty, running, owed>>
  <2>1. connected' \in BOOLEAN /\ ~connected'
    BY <1>7, Zenon
  <2> QED
    BY <1>1, <1>2, <1>3, <1>7, <2>1, WorkerGoes DEF Goto, CoordinatorInvariant, StateType
<1>8. CASE Goto("worker", "off") /\ UNCHANGED <<state, flags, owed>>
  BY <1>1, <1>2, <1>3, <1>8, WorkerGoes DEF Goto, flags, CoordinatorInvariant, StateType
<1> QED
  BY Zenon, <1>5, <1>6, <1>7, <1>8 DEF Receive

\* The worker tries to take the flag for a new task.
LEMMA ClaimTaskKeeps ==
  ASSUME CoordinatorInvariant, ClaimTask
  PROVE  CoordinatorInvariant'
<1>1. /\ pc["worker"] = "cas"
      /\ state' = state /\ connected' = connected /\ dirty' = dirty /\ guard' = guard /\ then' = then
      /\ rep' = rep /\ started' = started /\ version' = version /\ queue' = queue /\ owed' = owed
      /\ applied' = applied /\ handle' = handle
  BY DEF ClaimTask, Goto, flags, others, broker
<1>2. running' \in BOOLEAN /\ running'
  BY Zenon DEF ClaimTask
<1>3. \/ pc' = [pc EXCEPT !["worker"] = "idle"] /\ running
      \/ pc' = [pc EXCEPT !["worker"] = "spawn"] /\ ~running
  BY Zenon DEF ClaimTask, Goto
<1>4. \/ Moves("worker", "idle") /\ running
      \/ Moves("worker", "spawn") /\ ~running
  BY <1>3, MovesOne, ActorsDiffer DEF CoordinatorInvariant, Labels
<1>5. StateType'
    BY <1>1, <1>2, <1>3, <1>4, ActorsDiffer DEF CoordinatorInvariant, StateType, Moves
<1>6. Places'
    BY <1>1, <1>2, <1>3, <1>4, PlacesStay, ActorsDiffer DEF CoordinatorInvariant, StartLabels, WorkerLabels,
     TaskLabels
<1>7. OwedHappened'
    BY <1>1, <1>2, <1>3, <1>4, OwedStays DEF CoordinatorInvariant
<1>8. StartFirst'
    BY <1>1, <1>2, <1>3, <1>4, StartStays, ActorsDiffer DEF CoordinatorInvariant
<1>9. OneOwner'
    BY <1>1, <1>2, <1>3, <1>4, ActorsDiffer DEF CoordinatorInvariant, OneOwner, Claims, Places, Reconciling,
     StateType, Moves
<1>10. WorkerCovers'
    BY <1>1, <1>2, <1>3, <1>4, ActorsDiffer DEF CoordinatorInvariant, WorkerCovers, Reconciling, Places,
     StateType, Moves, OwedHappened, Reports
<1>11. TaskCovers'
    BY <1>1, <1>2, <1>3, <1>4, TasksStay, ActorsDiffer DEF CoordinatorInvariant, StateType, Quiet, Moves,
     WorkerCovers
<1>12. Covered'
    BY <1>1, <1>2, <1>3, <1>4, ActorsDiffer DEF CoordinatorInvariant, Covered, WorkerCovers, TaskCovers, Quiet,
     Places, Reconciling, StartCovers, StateType, Moves, OwedHappened, Reports
<1>13. GuardHeld'
    BY <1>1, <1>2, <1>3, <1>4, GuardStays, ActorsDiffer DEF CoordinatorInvariant
<1> QED
  BY <1>5, <1>6, <1>7, <1>8, <1>9, <1>10, <1>11, <1>12, <1>13 DEF CoordinatorInvariant

\* The worker confirms, or halts on, an unfamiliar event.
LEMMA ConfirmKeeps ==
  ASSUME CoordinatorInvariant, HaltUnconfirmed, Goto("worker", "idle")
  PROVE  CoordinatorInvariant'
<1>1. /\ pc["worker"] = "confirm"
      /\ connected' = connected /\ dirty' = dirty /\ running' = running /\ guard' = guard /\ then' = then
      /\ rep' = rep /\ started' = started /\ version' = version /\ queue' = queue /\ owed' = owed
      /\ applied' = applied /\ handle' = handle
  BY DEF HaltUnconfirmed, Goto, flags, others, broker
<1>2. state' \in States
  BY TransitionType DEF HaltUnconfirmed, Succeeds, Errs, CoordinatorInvariant, StateType, States
<1>3. pc' = [pc EXCEPT !["worker"] = "idle"]
  BY DEF HaltUnconfirmed, Goto
<1>4. Moves("worker", "idle")
  BY Zenon, <1>3, MovesOne, ActorsDiffer DEF CoordinatorInvariant, Labels
<1>5. StateType'
    BY <1>1, <1>2, <1>3, <1>4, ActorsDiffer DEF CoordinatorInvariant, StateType, Moves
<1>6. Places'
    BY <1>1, <1>2, <1>3, <1>4, PlacesStay, ActorsDiffer DEF CoordinatorInvariant, StartLabels, WorkerLabels,
     TaskLabels
<1>7. OwedHappened'
    BY <1>1, <1>2, <1>3, <1>4, OwedStays DEF CoordinatorInvariant
<1>8. StartFirst'
    BY <1>1, <1>2, <1>3, <1>4, StartStays, ActorsDiffer DEF CoordinatorInvariant
<1>9. OneOwner'
    BY <1>1, <1>2, <1>3, <1>4, OwnerStays, ActorsDiffer DEF CoordinatorInvariant, Claims
<1>10. WorkerCovers'
    BY <1>1, <1>2, <1>3, <1>4, ActorsDiffer DEF CoordinatorInvariant, WorkerCovers, Reconciling, Places,
     StateType, Moves, OwedHappened, Reports
<1>11. TaskCovers'
    BY <1>1, <1>2, <1>3, <1>4, TasksStay, ActorsDiffer DEF CoordinatorInvariant, StateType, Quiet, Moves,
     WorkerCovers
<1>12. Covered'
    BY <1>1, <1>2, <1>3, <1>4, ActorsDiffer DEF CoordinatorInvariant, Covered, WorkerCovers, TaskCovers, Quiet,
     Places, Reconciling, StartCovers, StateType, Moves, OwedHappened, Reports
<1>13. GuardHeld'
    BY <1>1, <1>2, <1>3, <1>4, GuardStays, ActorsDiffer DEF CoordinatorInvariant
<1> QED
  BY <1>5, <1>6, <1>7, <1>8, <1>9, <1>10, <1>11, <1>12, <1>13 DEF CoordinatorInvariant

\* The steps of a gap recovery around its reports.
LEMMA GapStepsKeep ==
  ASSUME CoordinatorInvariant,
         GapReconciling \/ Resubscribe \/ (Spawn /\ Goto("worker", "off") /\ handle' = handle)
           \/ (HaltUnconfirmed /\ Goto("worker", "off"))
  PROVE  CoordinatorInvariant'
<1>1. pc["worker"] # "off"
  BY DEF GapReconciling, Resubscribe, Spawn, HaltUnconfirmed
<1>2. /\ dirty' = dirty /\ running' = running /\ guard' = guard /\ handle' = handle /\ rep' = rep
      /\ started' = started /\ version' = version /\ queue' = queue /\ applied' = applied
  <2>1. CASE GapReconciling \/ HaltUnconfirmed
    BY <2>1 DEF GapReconciling, HaltUnconfirmed, flags, others, broker
  <2>2. CASE Resubscribe
    BY <2>2 DEF Resubscribe, Acknowledged, NotAcknowledged, flags, others, broker
  <2>3. CASE Spawn /\ handle' = handle
    BY <2>3 DEF Spawn, flags, broker
  <2> QED
    BY <2>1, <2>2, <2>3
<1>3. state' \in States
  BY TransitionType DEF GapReconciling, Resubscribe, Spawn, HaltUnconfirmed, Acknowledged, NotAcknowledged, Succeeds,
     Errs, CoordinatorInvariant, StateType, States
<1>4. /\ queue' \in Seq(Signals) /\ \A i \in 1..Len(queue') : queue'[i][2] <= version
      /\ owed \in Nat /\ version \in Nat /\ owed <= version
  BY <1>2 DEF CoordinatorInvariant, StateType, OwedHappened
<1>5. CASE Goto("worker", "off") /\ connected' = connected /\ owed' = owed
  BY <1>1, <1>2, <1>3, <1>4, <1>5, WorkerGoes DEF Goto, CoordinatorInvariant, StateType
<1>6. CASE GapReconciling /\ Reconcile("worker", "firstgap")
  <2>1. connected' = connected /\ owed' = owed /\ ~connected
    BY <1>6 DEF GapReconciling, flags, CoordinatorInvariant, WorkerCovers
  <2> QED
    BY <1>1, <1>2, <1>3, <1>4, <1>6, <2>1, WorkerGoes DEF Reconcile, CoordinatorInvariant, StateType
<1>7. CASE Acknowledged /\ Reconcile("worker", "apply")
  <2>1. connected' \in BOOLEAN /\ owed' = version
    BY <1>7 DEF Acknowledged
  <2> QED
    BY <1>1, <1>2, <1>3, <1>4, <1>7, <2>1, WorkerGoes DEF Reconcile
<1> QED
  BY <1>5, <1>6, <1>7 DEF GapReconciling, Resubscribe, NotAcknowledged, Spawn, HaltUnconfirmed, flags

\* The worker hands the flag to a task.
LEMMA SpawnKeeps ==
  ASSUME CoordinatorInvariant, NEW t \in Tasks, pc[t] = "off",
         pc' = [pc EXCEPT !["worker"] = "idle", ![t] = "clear"], then' = then,
         handle' = t, Spawn
  PROVE  CoordinatorInvariant'
<1>1. /\ pc["worker"] = "spawn"
      /\ connected' = connected /\ dirty' = dirty /\ running' = running /\ guard' = guard /\ rep' = rep
      /\ started' = started /\ version' = version /\ queue' = queue /\ owed' = owed /\ applied' = applied
  BY DEF Spawn, flags, broker
<1>2. state' \in States
  BY TransitionType DEF Spawn, Succeeds, Errs, CoordinatorInvariant, StateType, States
<1>3. /\ pc' \in [Actors -> Labels] /\ pc'["worker"] = "idle" /\ pc'[t] = "clear"
      /\ \A b \in Actors : b # t /\ b # "worker" => pc'[b] = pc[b]
  BY ActorsDiffer DEF CoordinatorInvariant, StateType, Labels
<1>4. running
  BY <1>1, ActorsDiffer DEF CoordinatorInvariant, OneOwner, Claims
<1>5. StateType'
    BY <1>1, <1>2, <1>3, <1>4, ActorsDiffer DEF CoordinatorInvariant, StateType, Moves
<1>6. Places'
    BY <1>1, <1>2, <1>3, <1>4, ActorsDiffer DEF CoordinatorInvariant, Places, Reconciling, StateType, Moves,
     StartLabels, WorkerLabels, TaskLabels
<1>7. OwedHappened'
    BY <1>1, <1>2, <1>3, <1>4, ActorsDiffer DEF CoordinatorInvariant, OwedHappened, StateType
<1>8. StartFirst'
    BY <1>1, <1>2, <1>3, <1>4, ActorsDiffer DEF CoordinatorInvariant, StartFirst, Early, Places, Reconciling,
     StateType, Moves, StartLabels
<1>9. OneOwner'
    BY <1>1, <1>2, <1>3, <1>4, ActorsDiffer DEF CoordinatorInvariant, OneOwner, Claims, Places, Reconciling,
     StateType, Moves
<1>10. WorkerCovers'
    BY <1>1, <1>2, <1>3, <1>4, ActorsDiffer DEF CoordinatorInvariant, WorkerCovers, Reconciling, Places,
     StateType, Moves, OwedHappened, Reports
<1>11. TaskCovers'
    BY <1>1, <1>2, <1>3, <1>4, ActorsDiffer DEF CoordinatorInvariant, TaskCovers, WorkerCovers, Quiet, Places,
     Reconciling, StateType, Moves, OwedHappened, OneOwner, Claims, Reports
<1>12. Covered'
    BY <1>1, <1>2, <1>3, <1>4, ActorsDiffer DEF CoordinatorInvariant, Covered, WorkerCovers, TaskCovers, Quiet,
     Places, Reconciling, StartCovers, StateType, Moves, OwedHappened, Reports, OneOwner, Claims
<1>13. GuardHeld'
    BY <1>1, <1>2, <1>3, <1>4, ActorsDiffer DEF CoordinatorInvariant, GuardHeld, Places, Reconciling, StateType,
     Moves
<1> QED
  BY <1>5, <1>6, <1>7, <1>8, <1>9, <1>10, <1>11, <1>12, <1>13 DEF CoordinatorInvariant

\* A task starts over.
LEMMA TaskRepeatsKeeps ==
  ASSUME CoordinatorInvariant, NEW t \in Tasks, TaskRepeats(t)
  PROVE  CoordinatorInvariant'
<1>1. /\ pc[t] = "again"
      /\ guard' = guard /\ rep' = rep /\ started' = started /\ version' = version /\ queue' = queue
      /\ owed' = owed /\ applied' = applied /\ handle' = handle
  BY DEF TaskRepeats, others, broker
<1>2. state' \in States
  BY TransitionType DEF TaskRepeats, Succeeds, Errs, CoordinatorInvariant, StateType, States
<1>3. /\ connected' = connected /\ dirty' = dirty /\ then' = then
      /\ \/ Moves(t, "clear") /\ running' = running
         \/ Moves(t, "off") /\ Released(t)
  BY ActorsDiffer, MovesOne, FailReleases DEF TaskRepeats, Goto, flags, CoordinatorInvariant, Labels
<1>4. StateType'
    BY <1>1, <1>2, <1>3, ActorsDiffer DEF CoordinatorInvariant, StateType, Moves, Released
<1>5. Places'
    BY <1>1, <1>2, <1>3, PlacesStay, ActorsDiffer DEF CoordinatorInvariant, StartLabels, WorkerLabels,
     TaskLabels
<1>6. OwedHappened'
    BY <1>1, <1>2, <1>3, OwedStays DEF CoordinatorInvariant
<1>7. StartFirst'
    BY <1>1, <1>2, <1>3, StartStays, ActorsDiffer DEF CoordinatorInvariant
<1>8. OneOwner'
  <2>1. Claims(t)
    BY <1>1, ActorsDiffer DEF Claims
  <2>2. CASE Moves(t, "off")
    BY <2>1, <2>2, OwnerLeaves DEF CoordinatorInvariant
  <2>3. CASE Moves(t, "clear") /\ running' = running
    BY <2>1, <2>3, ActorsDiffer DEF CoordinatorInvariant, OneOwner, Claims, StateType, Moves
  <2> QED
    BY <1>3, <2>2, <2>3
<1>9. WorkerCovers'
    BY <1>1, <1>2, <1>3, WorkerStays, ActorsDiffer DEF CoordinatorInvariant, StateType
<1>10. TaskCovers'
    BY <1>1, <1>2, <1>3, ActorsDiffer DEF CoordinatorInvariant, TaskCovers, WorkerCovers, Quiet, Places,
     Reconciling, StateType, Moves, OwedHappened, OneOwner, Claims, Reports, Released
<1>11. Covered'
    BY <1>1, <1>2, <1>3, ActorsDiffer DEF CoordinatorInvariant, Covered, WorkerCovers, TaskCovers, Quiet,
     Places, Reconciling, StartCovers, StateType, Moves, OwedHappened, Reports, Released
<1>12. GuardHeld'
    BY <1>1, <1>2, <1>3, GuardStays, ActorsDiffer DEF CoordinatorInvariant
<1> QED
  BY <1>4, <1>5, <1>6, <1>7, <1>8, <1>9, <1>10, <1>11, <1>12 DEF CoordinatorInvariant

\* Steps that leave the actors where they are.
LEMMA OutsideKeeps ==
  ASSUME CoordinatorInvariant, state' \in States, state \in Closed => state' \in Closed,
         UNCHANGED <<flags, guard, pc, then, handle, rep, started, owed, applied>>,
         version' \in Nat, version' >= version, queue' \in Seq(Signals),
         \A i \in 1..Len(queue') : queue'[i][2] <= version',
         state' \notin Closed => state' = state
  PROVE  CoordinatorInvariant'
<1>1. /\ connected' = connected /\ dirty' = dirty /\ running' = running /\ guard' = guard /\ pc' = pc
      /\ then' = then /\ handle' = handle /\ rep' = rep
      /\ started' = started /\ owed' = owed /\ applied' = applied
  BY DEF flags
<1>2. StateType'
    BY <1>1, ActorsDiffer DEF CoordinatorInvariant, StateType, Moves
<1>3. Places'
    BY <1>1, ActorsDiffer DEF CoordinatorInvariant, Places, Reconciling, StateType, Moves, StartLabels,
     WorkerLabels, TaskLabels
<1>4. OwedHappened'
    BY <1>1, ActorsDiffer DEF CoordinatorInvariant, OwedHappened, StateType
<1>5. StartFirst'
    BY <1>1, ActorsDiffer DEF CoordinatorInvariant, StartFirst, Early, Places, Reconciling, StateType, Moves,
     StartLabels
<1>6. OneOwner'
    BY <1>1, ActorsDiffer DEF CoordinatorInvariant, OneOwner, Claims, Places, Reconciling, StateType, Moves
<1>7. WorkerCovers'
    BY <1>1, ActorsDiffer DEF CoordinatorInvariant, WorkerCovers, Reconciling, Places, StateType, Moves,
     OwedHappened, Reports
<1>8. TaskCovers'
    BY <1>1, ActorsDiffer DEF CoordinatorInvariant, TaskCovers, WorkerCovers, Quiet, Places, Reconciling,
     StateType, Moves, OwedHappened, OneOwner, Claims, Reports
<1>9. Covered'
    BY <1>1, ActorsDiffer DEF CoordinatorInvariant, Covered, WorkerCovers, TaskCovers, Quiet, Places,
     Reconciling, StartCovers, StateType, Moves, OwedHappened, Reports
<1>10. GuardHeld'
    BY <1>1, ActorsDiffer DEF CoordinatorInvariant, GuardHeld, Places, Reconciling, StateType, Moves
<1> QED
  BY <1>2, <1>3, <1>4, <1>5, <1>6, <1>7, <1>8, <1>9, <1>10 DEF CoordinatorInvariant

\* Dispatch calls come and go.
LEMMA CallsKeep ==
  ASSUME CoordinatorInvariant, Admit \/ CallEnds \/ Shutdown
  PROVE  CoordinatorInvariant'
<1>1. /\ UNCHANGED <<flags, guard, pc, then, handle, rep, started, owed, applied>>
      /\ version' = version /\ queue' = queue
  BY DEF Admit, CallEnds, Shutdown, others, broker
<1>2. /\ state' \in States
      /\ state \in Closed => state' \in Closed
      /\ state' \notin Closed => state' = state
  <2>1. CASE state' = state
    BY <2>1 DEF CoordinatorInvariant, StateType
  <2>2. CASE Transition("Halted")
    BY <2>2, TransitionType, TransitionCloses DEF CoordinatorInvariant, StateType, States
  <2>3. CASE Shutdown
    BY <2>3 DEF Shutdown, Transition, States, Closed
  <2> QED
    BY <2>1, <2>2, <2>3 DEF Admit, CallEnds
<1>3. version' \in Nat /\ version' >= version /\ queue' \in Seq(Signals)
  BY <1>1 DEF CoordinatorInvariant, StateType
<1>4. \A i \in 1..Len(queue') : queue'[i][2] <= version'
  BY <1>1 DEF CoordinatorInvariant, OwedHappened
<1> QED
  BY <1>1, <1>2, <1>3, <1>4, OutsideKeeps

\* The account changes and the streams report it.
LEMMA BrokerKeeps ==
  ASSUME CoordinatorInvariant, (\E kind \in Kinds : AccountChanges(kind)) \/ StreamBreaks
  PROVE  CoordinatorInvariant'
<1>1. /\ UNCHANGED <<flags, guard, pc, then, handle, rep, started, owed, applied>>
      /\ state' = state
  BY DEF AccountChanges, StreamBreaks, others
<1>2. version \in Nat /\ queue \in Seq(Signals) /\ \A i \in 1..Len(queue) : queue[i] \in Signals
  BY DEF CoordinatorInvariant, StateType
<1>3. version' \in Nat /\ version' >= version
  BY <1>2 DEF AccountChanges, StreamBreaks
<1>4. queue' = queue \/ \E k \in {"capital", "unfamiliar", "gap"} : queue' = Append(queue, <<k, version'>>)
  BY CoordinatorAssumption DEF AccountChanges, StreamBreaks
<1>5. queue' \in Seq(Signals) /\ \A i \in 1..Len(queue') : queue'[i][2] <= version'
  <2>1. CASE queue' = queue
    <3>1. \A i \in 1..Len(queue) : queue[i][2] \in Nat /\ queue[i][2] <= version
      BY <1>2 DEF CoordinatorInvariant, OwedHappened, Signals
    <3> QED
      BY <1>2, <1>3, <2>1, <3>1
  <2>2. ASSUME NEW k \in {"capital", "unfamiliar", "gap"}, queue' = Append(queue, <<k, version'>>)
        PROVE  queue' \in Seq(Signals) /\ \A i \in 1..Len(queue') : queue'[i][2] <= version'
    <3>1. <<k, version'>> \in Signals /\ <<k, version'>>[2] <= version'
      BY <1>3 DEF Signals
    <3> QED
      BY <1>3, <2>2, <3>1, AppendSignal DEF CoordinatorInvariant
  <2> QED
    BY <1>4, <2>1, <2>2
<1>6. state' \in States
  BY <1>1 DEF CoordinatorInvariant, StateType
<1> QED
  BY <1>1, <1>3, <1>5, <1>6, OutsideKeeps

\* shutdown() and the end of every task.
LEMMA StopKeeps ==
  ASSUME CoordinatorInvariant, Stop
  PROVE  CoordinatorInvariant'
<1>1. /\ state' = "Stopped" /\ connected' \in BOOLEAN /\ ~connected' /\ queue' = <<>>
      /\ dirty' = dirty /\ running' = running /\ then' = then /\ rep' = rep /\ started' = started
      /\ version' = version /\ owed' = owed /\ applied' = applied /\ handle' = handle
  BY Zenon DEF Stop, Transition, CanTransition, Allowed
<1>2. PICK aborted \in SUBSET Actors :
        /\ "worker" \in aborted /\ aborted \subseteq Actors /\ "start" \notin aborted
        /\ pc' = [a \in Actors |-> IF a \in aborted THEN "off" ELSE pc[a]]
        /\ guard' = IF guard \in aborted THEN "free" ELSE guard
  BY Zenon, ActorsDiffer, CoordinatorAssumption DEF Stop, CoordinatorInvariant, StateType
<1>3. /\ pc' \in [Actors -> Labels] /\ pc'["worker"] = "off" /\ pc'["start"] = pc["start"]
      /\ \A a \in Actors : pc'[a] = "off" \/ (pc'[a] = pc[a] /\ a \notin aborted)
  BY <1>2, ActorsDiffer DEF CoordinatorInvariant, StateType, Labels
<1>4. guard' = guard \/ guard \in aborted
  BY <1>2
<1>5. StateType'
    BY <1>1, <1>2, <1>3, <1>4, ActorsDiffer DEF CoordinatorInvariant, StateType, Moves, States
<1>6. Places'
    BY <1>1, <1>2, <1>3, <1>4, ActorsDiffer DEF CoordinatorInvariant, Places, Reconciling, StateType, Moves,
     StartLabels, WorkerLabels, TaskLabels
<1>7. OwedHappened'
    BY <1>1, <1>2, <1>3, <1>4, ActorsDiffer DEF CoordinatorInvariant, OwedHappened, StateType
<1>8. StartFirst'
    BY <1>1, <1>2, <1>3, <1>4, ActorsDiffer DEF CoordinatorInvariant, StartFirst, Early, Places, Reconciling,
     StateType, Moves, StartLabels
<1>9. OneOwner'
    BY <1>1, <1>2, <1>3, <1>4, ActorsDiffer DEF CoordinatorInvariant, OneOwner, Claims, Places, Reconciling,
     StateType, Moves
<1>10. WorkerCovers'
    BY <1>1, <1>2, <1>3, <1>4, ActorsDiffer DEF CoordinatorInvariant, WorkerCovers, Reconciling, Places,
     StateType, Moves, OwedHappened, Reports
<1>11. TaskCovers'
    BY <1>1, <1>2, <1>3, <1>4, ActorsDiffer DEF CoordinatorInvariant, TaskCovers, WorkerCovers, Quiet, Places,
     Reconciling, StateType, Moves, OwedHappened, OneOwner, Claims, Reports
<1>12. Covered'
    BY <1>1, <1>2, <1>3, <1>4, ActorsDiffer DEF CoordinatorInvariant, Covered, WorkerCovers, TaskCovers, Quiet,
     Places, Reconciling, StartCovers, StateType, Moves, OwedHappened, Reports
<1>13. GuardHeld'
    BY <1>1, <1>2, <1>3, <1>4, ActorsDiffer DEF CoordinatorInvariant, GuardHeld, Places, Reconciling, StateType,
     Moves
<1> QED
  BY <1>5, <1>6, <1>7, <1>8, <1>9, <1>10, <1>11, <1>12, <1>13 DEF CoordinatorInvariant

\* Before start() nothing is owed.
LEMMA InitHolds == Init => CoordinatorInvariant
<1> SUFFICES ASSUME Init PROVE CoordinatorInvariant
  OBVIOUS
<1>1. StateType
  <2>1. pc \in [Actors -> Labels] /\ then \in [Actors -> Labels] /\ queue \in Seq(Signals)
    BY DEF Init, Labels
  <2>2. NoReport \in Reports
    BY DEF NoReport, Reports
  <2>3. rep \in [Actors -> Reports]
    BY <2>2 DEF Init
  <2>4. connected \in BOOLEAN /\ dirty \in BOOLEAN /\ running \in BOOLEAN
    BY Zenon DEF Init
  <2> QED
    BY <2>1, <2>3, <2>4 DEF Init, StateType, States
<1>2. /\ pc["start"] = "begin" /\ pc["worker"] = "off" /\ \A t \in Tasks : pc[t] = "off"
      /\ \A a \in Actors : pc[a] \in {"begin", "off"}
  BY ActorsDiffer DEF Init
<1>3. owed = 0 /\ version = 0 /\ queue = <<>> /\ ~connected /\ ~started
  BY DEF Init
<1>4. Places /\ OwedHappened /\ StartFirst
  BY <1>2, <1>3 DEF Places, OwedHappened, StartFirst, Reconciling, StartLabels, WorkerLabels, TaskLabels
<1>5. OneOwner /\ WorkerCovers /\ TaskCovers /\ Covered /\ GuardHeld
  BY <1>2, <1>3, ActorsDiffer DEF OneOwner, Claims, WorkerCovers, Reconciling, TaskCovers, Covered, Quiet, GuardHeld
<1> QED
  BY <1>1, <1>4, <1>5 DEF CoordinatorInvariant

\* Nothing happens.
LEMMA StutterKeeps ==
  ASSUME CoordinatorInvariant, UNCHANGED vars
  PROVE  CoordinatorInvariant'
<1>1. /\ UNCHANGED <<flags, guard, pc, then, handle, rep, started, owed, applied>>
      /\ state' = state /\ version' = version /\ queue' = queue
  BY DEF vars, flags
<1>2. version' \in Nat /\ version' >= version /\ queue' \in Seq(Signals) /\ state' \in States
  BY <1>1 DEF CoordinatorInvariant, StateType
<1>3. \A i \in 1..Len(queue') : queue'[i][2] <= version'
  BY <1>1 DEF CoordinatorInvariant, OwedHappened
<1> QED
  BY <1>1, <1>2, <1>3, OutsideKeeps

\* Both outcomes of the commit.
LEMMA CommitReportKeeps ==
  ASSUME CoordinatorInvariant, NEW a \in Actors, CommitReport(a)
  PROVE  CoordinatorInvariant'
<1>1. CASE Fail(a) /\ Transition("Halted") /\ UNCHANGED rep
  BY <1>1, CommitFails
<1>2. CASE ~(Fail(a) /\ Transition("Halted") /\ UNCHANGED rep)
  BY <1>2, CommitKeeps
<1> QED
  BY <1>1, <1>2

\* Every step keeps the invariant.
LEMMA StepKeeps == CoordinatorInvariant /\ [Next]_vars => CoordinatorInvariant'
<1> SUFFICES ASSUME CoordinatorInvariant, [Next]_vars PROVE CoordinatorInvariant'
  OBVIOUS
<1>1. CASE StartStep
  <2>1. CASE Subscribe
    BY <2>1, SubscribeKeeps, StartOpensKeeps DEF Subscribe
  <2> QED
    BY <1>1, <2>1, ActorsDiffer, ReadKeeps, CommitReportKeeps, StartOpensKeeps, StartAppliesKeeps DEF StartStep
<1>2. CASE WorkerStep
  <2>1. CASE Spawn
    <3>1. CASE \E t \in Tasks :
                 /\ pc[t] = "off" /\ pc' = [pc EXCEPT !["worker"] = "idle", ![t] = "clear"]
                 /\ handle' = t /\ then' = then
      BY Zenon, <2>1, <3>1, SpawnKeeps
    <3>2. CASE Goto("worker", "off") /\ handle' = handle
      BY <2>1, <3>2, GapStepsKeep
    <3> QED
      BY <2>1, <3>1, <3>2 DEF Spawn
  <2>2. CASE HaltUnconfirmed
    BY <2>2, ConfirmKeeps, GapStepsKeep DEF HaltUnconfirmed
  <2> QED
    BY <1>2, <2>1, <2>2, ActorsDiffer, ReadKeeps, CommitReportKeeps, ReceiveKeeps, ClaimTaskKeeps,
       ForcedAppliesKeeps, GapStepsKeep, GapHaltsKeeps, GapAppliesKeeps DEF WorkerStep
<1>3. ASSUME NEW t \in Tasks, TaskStep(t) PROVE CoordinatorInvariant'
  BY <1>3, ActorsDiffer, ReadKeeps, CommitReportKeeps, TaskClearsKeeps, TaskChecksKeeps, TaskAppliesKeeps,
     TaskReleasesKeeps, TaskRechecksKeeps, TaskRepeatsKeeps DEF TaskStep
<1>4. CASE UNCHANGED vars
  BY <1>4, StutterKeeps
<1> QED
  BY <1>1, <1>2, <1>3, <1>4, CallsKeep, BrokerKeeps, StopKeeps DEF Next

-----------------------------------------------------------------------------
(* Theorems.                                                               *)

\* The inductive invariant of the coordinator: reconciliation_running has one
\* owner, and what an event or a subscription owes is marked, being read, or
\* applied, whoever does it (coordinator.rs).
THEOREM CoordinatorInvariantHolds == Spec => []CoordinatorInvariant
  BY InitHolds, StepKeeps, PTL DEF Spec

\* Two reconciliations never read the account at the same time
\* (reconciliation_guard).
THEOREM SnapshotsDoNotOverlap == Spec => []OneReconciliation
<1>1. CoordinatorInvariant => OneReconciliation
  BY DEF CoordinatorInvariant, GuardHeld, OneReconciliation
<1> QED
  BY <1>1, CoordinatorInvariantHolds, PTL

\* Once the worker is done with a signal, an open gate reflects it: with any
\* number of tasks, events, gaps and failing writes (handle_stream_signal,
\* ensure_execution_allowed).
THEOREM OpenGateReflects == Spec => []HandledIsReflected
<1>1. CoordinatorInvariant => HandledIsReflected
  <2> SUFFICES ASSUME CoordinatorInvariant, GateOpen, pc["worker"] = "idle"
               PROVE  applied >= owed
    BY DEF HandledIsReflected
  <2>1. pc["start"] = "done"
    BY DEF GateOpen, CoordinatorInvariant, StartFirst
  <2>2. Quiet /\ ~dirty /\ ~running /\ state \notin Closed /\ ~StartCovers
    BY <2>1 DEF GateOpen, Quiet, Closed, StartCovers
  <2> QED
    BY <2>2 DEF CoordinatorInvariant, Covered
<1> QED
  BY <1>1, CoordinatorInvariantHolds, PTL
=============================================================================
