------------------------ MODULE CapitalDispatchProofs ------------------------
(***************************************************************************)
(* Proofs about CapitalDispatch, for any number of requests, calls, slots  *)
(* and restarts: it implements RuntimeJournal, nothing is transmitted      *)
(* without an approval, and capacity is frozen only behind the fence.      *)
(***************************************************************************)
EXTENDS CapitalDispatch, RuntimeJournalProofs, Integers

\* The journal's part of a lifecycle, reconciliation or broker step is a step of the journal or none.
LEMMA LifecycleStep ==
  ASSUME \/ StartRuntime \/ CrashRuntime \/ Drain \/ ShutdownRuntime \/ ExitRuntime
         \/ CapitalEvent \/ ReconcileStep
         \/ \E id \in Ids : DecideOrder(id) \/ LoseOrder(id) \/ OrderEnds(id)
  PROVE  [Next]_vars
  BY DEF StartRuntime, CrashRuntime, Drain, ShutdownRuntime, ExitRuntime, CapitalEvent,
         ReconcileStep, ReadSnapshot, ListJournal, CommitReport, AbandonReport, Superseded,
         CacheReport, Conclude, ReadBackRequest, ApplyEvidence,
         DecideOrder, LoseOrder, OrderEnds, Next

\* An admission step leaves the journal alone or cancels the call.
LEMMA AdmissionStep ==
  ASSUME NEW w \in Workers,
         \/ \E id \in Ids : Enter(w, id)
         \/ AdmitReplay(w) \/ AdmitRefused(w) \/ Evaluate(w)
         \/ PersistApproval(w) \/ PersistRefused(w) \/ AcquireSlot(w)
         \/ Validated(w) \/ ValidationRefused(w)
  PROVE  [Next]_vars
  BY DEF Enter, AdmitReplay, AdmitRefused, Evaluate, PersistApproval, PersistRefused,
         AcquireSlot, Validated, ValidationRefused, Next

\* A dispatching step is the journal's own.
LEMMA ExecutionStep ==
  ASSUME NEW w \in Workers,
         \/ InsertIntent(w) \/ FenceIntent(w) \/ Transmit(w) \/ Receive(w)
         \/ LinkIdentity(w) \/ FinishMutation(w)
         \/ RecordAcknowledged(w) \/ RecordRejected(w) \/ RecordUnknown(w)
  PROVE  [Next]_vars
  BY DEF InsertIntent, FenceIntent, Transmit, Receive, LinkIdentity, FinishMutation,
         RecordAcknowledged, RecordRejected, RecordUnknown, Next

\* Together: every step is one of the journal, or a stutter.
LEMMA JournalStep == [CapitalNext]_capitalVars => [Next]_vars
  BY ONLY LifecycleStep, AdmissionStep, ExecutionStep DEF CapitalNext, CallStep, capitalVars

\* The path with its gate, ledger and reconciliation implements the journal.
THEOREM CapitalImplementsJournal == CapitalSpec => ImplementsJournal
  <1>1. CapitalInit => Init
    BY DEF CapitalInit
  <1> QED BY <1>1, JournalStep, PTL DEF CapitalSpec, ImplementsJournal, Spec

\* One transmission per logical request, over admission, replays, concurrent
\* calls of one request, reconciliation, crashes and restarts.
THEOREM CapitalSentAtMostOnce == CapitalSpec => []AtMostOneSend
  BY CapitalImplementsJournal, SentAtMostOnce, PTL DEF ImplementsJournal

-----------------------------------------------------------------------------
(* The reservations.                                                       *)

\* What one step does to one reservation: nothing, a new approval, or an
\* update of an existing row, which freezes it only for a call or a report
\* that takes the request for unknown.
Reserved(id) ==
  \/ resv'[id] = resv[id]
  \/ resv[id].state = "None" /\ resv'[id].state = "Active"
  \/ /\ resv[id].state # "None" /\ resv'[id].state # "None"
     /\ resv'[id].state = "UnknownHeld" =>
          id \in report.unresolved \/ \E w \in Workers : step[w] = "unknown" /\ req[w] = id

\* One update moves one row along the state machine.
LEMMA UpdateStep ==
  ASSUME Risk!RiskTypeOK, NEW id \in Ids, NEW plan,
         plan.kind = "update" =>
           /\ plan.expected \subseteq Risk!Held
           /\ plan.remaining \in Int /\ plan.target \in Risk!ReservationStates,
         Succeeds(id, plan) \/ Fails(id, plan)
  PROVE  /\ Risk!RiskTypeOK'
         /\ \A i \in Ids : i # id => resv'[i] = resv[i]
         /\ \/ resv'[id] = resv[id]
            \/ /\ plan.kind = "update"
               /\ resv[id].state # "None"
               /\ resv'[id].state = plan.target
  BY DEF Succeeds, Fails, Risk!UpdateReservation, Risk!RiskTypeOK, Risk!Held, Risk!Settled,
         Risk!ReservationStates

\* Who changes a reservation.
LEMMA ReservationActors ==
  ASSUME [CapitalNext]_capitalVars
  PROVE  \/ UNCHANGED resv
         \/ \E w \in Workers : \/ PersistApproval(w) \/ RecordAcknowledged(w)
                               \/ RecordRejected(w) \/ RecordUnknown(w)
         \/ \E id \in Ids : ApplyEvidence(id)
  BY ZenonT(60) DEF CapitalNext, capitalVars, CallStep, ReconcileStep, StartRuntime,
           CrashRuntime, Drain,
           ShutdownRuntime, ExitRuntime, CapitalEvent, ReadSnapshot, ListJournal, CommitReport,
           AbandonReport, Superseded, CacheReport, Conclude, ReadBackRequest, DecideOrder,
           LoseOrder, OrderEnds, outside, Enter, AdmitReplay, AdmitRefused, Evaluate,
           PersistRefused, AcquireSlot, Validated, ValidationRefused, InsertIntent, FenceIntent,
           Transmit, Receive, LinkIdentity, FinishMutation

\* Every step changes at most one row, and along the state machine.
LEMMA ReservationStep ==
  ASSUME AdmissionInvariant, [CapitalNext]_capitalVars
  PROVE  Risk!RiskTypeOK' /\ \A id \in Ids : Reserved(id)
  <1>0. /\ Risk!RiskTypeOK
        /\ req \in [Workers -> Ids]
        /\ \A w \in Workers : step[w] \in Approved => resv[req[w]].state # "None"
    BY DEF AdmissionInvariant, CapitalTypeOK, TypeOK
  <1>1. CASE UNCHANGED resv
    BY ONLY <1>0, <1>1 DEF Reserved, Risk!RiskTypeOK
  <1>2. ASSUME NEW w \in Workers, PersistApproval(w)
        PROVE  Risk!RiskTypeOK' /\ \A id \in Ids : Reserved(id)
    BY <1>0, <1>2 DEF PersistApproval, Risk!PersistApproval, Reserved, Risk!RiskTypeOK,
                      Risk!ReservationStates, Risk!Held, Risk!Settled
  <1>3. ASSUME NEW w \in Workers, RecordAcknowledged(w)
        PROVE  UNCHANGED resv
    BY ONLY <1>3 DEF RecordAcknowledged, Succeeds, Fails, Risk!DispatchAcknowledged,
                Risk!Nothing, Risk!Refusal
  <1>4. ASSUME NEW w \in Workers, RecordRejected(w)
        PROVE  Risk!RiskTypeOK' /\ \A id \in Ids : Reserved(id)
    <2> DEFINE plan == Risk!BrokerAuthoritativeReject(resv[req[w]])
    <2>1. resv[req[w]].state # "None" /\ req[w] \in Ids
      BY ONLY <1>0, <1>4 DEF RecordRejected, Approved
    <2>2. Succeeds(req[w], plan)
      BY ONLY <1>4 DEF RecordRejected
    <2>3. plan.kind = "update" =>
            /\ plan.expected \subseteq Risk!Held
            /\ plan.remaining \in Int /\ plan.target \in Risk!ReservationStates
            /\ plan.target # "UnknownHeld" /\ plan.target # "None"
      BY ONLY <1>0, <2>1 DEF Risk!BrokerAuthoritativeReject, Risk!Nothing, Risk!Update, Risk!Held,
                        Risk!Settled, Risk!ReservationStates
    <2> HIDE DEF plan
    <2> QED BY ONLY <1>0, <2>1, <2>2, <2>3, UpdateStep DEF Reserved
  <1>5. ASSUME NEW w \in Workers, RecordUnknown(w)
        PROVE  Risk!RiskTypeOK' /\ \A id \in Ids : Reserved(id)
    <2> DEFINE plan == Risk!UnknownAfterDispatch(resv[req[w]])
    <2>1. req[w] \in Ids /\ step[w] = "unknown"
      BY ONLY <1>0, <1>5 DEF RecordUnknown
    <2>2. Succeeds(req[w], plan) \/ Fails(req[w], plan)
      BY ONLY <1>5 DEF RecordUnknown
    <2>3. plan.kind = "update" =>
            /\ plan.expected \subseteq Risk!Held
            /\ plan.remaining \in Int /\ plan.target \in Risk!ReservationStates
            /\ plan.target # "None"
      BY ONLY <1>0, <2>1 DEF Risk!UnknownAfterDispatch, Risk!Nothing, Risk!Update, Risk!Held,
                        Risk!Settled, Risk!ReservationStates, Risk!RiskTypeOK
    <2> HIDE DEF plan
    <2> QED BY ONLY <1>0, <2>1, <2>2, <2>3, UpdateStep DEF Reserved
  <1>6. ASSUME NEW id \in Ids, ApplyEvidence(id)
        PROVE  Risk!RiskTypeOK' /\ \A i \in Ids : Reserved(i)
    <2> DEFINE plan == Evidence(id)
    <2>1. Succeeds(id, plan) \/ Fails(id, plan)
      BY ONLY <1>6 DEF ApplyEvidence
    <2>2. plan.kind = "update" =>
            /\ plan.expected \subseteq Risk!Held
            /\ plan.remaining \in Int /\ plan.target \in Risk!ReservationStates
            /\ plan.target # "None"
            /\ plan.target = "UnknownHeld" => id \in report.unresolved
      BY ONLY SMTT(60), <1>0 DEF Evidence, Risk!UnknownAfterDispatch, Risk!RuntimeReconciliation,
                  Risk!BrokerAuthoritativeNoRemainingExposure, Risk!Nothing, Risk!Refusal,
                  Risk!Update, Risk!Remains, Risk!Fillable, Risk!Held,
                  Risk!Settled, Risk!ReservationStates, Risk!RiskTypeOK
    <2> HIDE DEF plan
    <2> QED BY ONLY <1>0, <2>1, <2>2, UpdateStep DEF Reserved
  <1> QED BY <1>1, <1>2, <1>3, <1>4, <1>5, <1>6, ReservationActors

-----------------------------------------------------------------------------
(* The admission invariant.                                                *)

USE DEF Absent

\* It holds at first.
LEMMA AdmissionInit == CapitalInit => AdmissionInvariant
  <1> SUFFICES ASSUME CapitalInit PROVE AdmissionInvariant
    OBVIOUS
  <1>1. TypeOK
    BY InitInvariant DEF CapitalInit, DispatchInvariant
  <1>2. CapitalTypeOK
    BY SMTT(60), <1>1 DEF CapitalInit, CapitalTypeOK, Risk!RiskInit, Risk!RiskTypeOK,
           Risk!NoRow,
                Risk!ReservationStates, NoReport, Steps
  <1> QED
    BY <1>2 DEF CapitalInit, Init, StoreInit, AdmissionInvariant, Risk!RiskInit, Risk!NoRow,
                Approved, Inserted, Fenced, UnknownHeldWasFenced, NoReport

\* What the path has beside the journal and the ledger.
PathTypes ==
  /\ denied \subseteq Ids
  /\ mode \in {"Reconciling", "Ready", "Halted", "Stopping", "Stopped"}
  /\ step \in [Workers -> Steps]
  /\ permits \subseteq Workers
  /\ cached \in {"None", "Ready", "Halted"}
  /\ current \subseteq Workers
  /\ fresh \subseteq Ids
  /\ rec \in {"idle", "snapshot", "journal", "apply", "reservations"}
  /\ snap \subseteq Ids /\ listed \subseteq Ids /\ applying \subseteq Ids
  /\ report \in [live : SUBSET Ids, unresolved : SUBSET Ids, state : {"Ready", "Halted"}]
  /\ live \subseteq Ids

\* A call keeps the types.
LEMMA PathCallStep ==
  ASSUME PathTypes, req \in [Workers -> Ids], NEW w \in Workers,
         CallStep(w) \/ \E id \in Ids : Enter(w, id)
  PROVE  PathTypes'
  <1>0. PathTypes /\ req[w] \in Ids /\ w \in Workers
    OBVIOUS
  <1> USE DEF PathTypes, Steps, At, Return, Halt, Stopping, Doubt, admitted, reconcileVars
  <1>1. CASE \E id \in Ids : Enter(w, id)
    BY ONLY <1>0, <1>1 DEF Enter
  <1>2. CASE AdmitReplay(w) \/ AdmitRefused(w)
    BY ONLY <1>0, <1>2 DEF AdmitReplay, AdmitRefused
  <1>3. CASE Evaluate(w)
    BY ONLY <1>0, <1>3 DEF Evaluate
  <1>4. CASE PersistApproval(w)
    BY ONLY <1>0, <1>4 DEF PersistApproval
  <1>5. CASE PersistRefused(w)
    BY ONLY <1>0, <1>5 DEF PersistRefused
  <1>6. CASE AcquireSlot(w)
    BY ONLY <1>0, <1>6 DEF AcquireSlot
  <1>7. CASE Validated(w) \/ ValidationRefused(w)
    BY ONLY <1>0, <1>7 DEF Validated, ValidationRefused
  <1>8. CASE InsertIntent(w) \/ FenceIntent(w)
    BY ONLY <1>0, <1>8 DEF InsertIntent, FenceIntent
  <1>9. CASE Transmit(w) \/ Receive(w)
    BY ONLY <1>0, <1>9 DEF Transmit, Receive
  <1>10. CASE LinkIdentity(w) \/ FinishMutation(w)
    BY ONLY <1>0, <1>10 DEF LinkIdentity, FinishMutation
  <1>11. CASE RecordAcknowledged(w) \/ RecordRejected(w) \/ RecordUnknown(w)
    BY ONLY <1>0, <1>11 DEF RecordAcknowledged, RecordRejected, RecordUnknown
  <1> HIDE DEF PathTypes
  <1> QED BY ONLY Zenon, CallStep(w) \/ \E id \in Ids : Enter(w, id), <1>1, <1>2, <1>3, <1>4,
                 <1>5, <1>6, <1>7, <1>8, <1>9, <1>10, <1>11 DEF CallStep

\* So do the runtime's lifecycle, its reconciliation and the broker.
LEMMA PathOtherStep ==
  ASSUME PathTypes,
         \/ StartRuntime \/ CrashRuntime \/ Drain \/ ShutdownRuntime \/ ExitRuntime
         \/ CapitalEvent \/ ReconcileStep \/ UNCHANGED capitalVars
         \/ \E id \in Ids : DecideOrder(id) \/ LoseOrder(id) \/ OrderEnds(id)
  PROVE  PathTypes'
  <1>0. PathTypes
    OBVIOUS
  <1> USE DEF PathTypes, Steps, Halt, Stopping, Finished, NoReport, Forget, admissionVars,
              reconcileVars, waiting, outside
  <1>1. CASE StartRuntime \/ CrashRuntime \/ Drain \/ ShutdownRuntime \/ ExitRuntime
    BY ONLY <1>0, <1>1 DEF StartRuntime, CrashRuntime, Drain, ShutdownRuntime, ExitRuntime
  <1>2. CASE CapitalEvent \/ ReadSnapshot \/ ListJournal
    BY ONLY <1>0, <1>2 DEF CapitalEvent, ReadSnapshot, ListJournal, UnresolvedMutations
  <1>3. CASE CommitReport
    BY ONLY <1>0, <1>3 DEF CommitReport
  <1>4. CASE AbandonReport \/ Superseded \/ Conclude
    BY ONLY <1>0, <1>4 DEF AbandonReport, Superseded, Conclude
  <1>5. CASE CacheReport
    BY ONLY <1>0, <1>5 DEF CacheReport
  <1>6. ASSUME NEW id \in Ids, ReadBackRequest(id) \/ ApplyEvidence(id)
        PROVE  PathTypes'
    BY ONLY <1>0, <1>6 DEF ReadBackRequest, ReadBack, brokerVars, ApplyEvidence
  <1>7. ASSUME NEW id \in Ids, DecideOrder(id) \/ LoseOrder(id) \/ OrderEnds(id)
        PROVE  PathTypes'
    BY ONLY <1>0, <1>7 DEF DecideOrder, LoseOrder, OrderEnds
  <1>8. CASE UNCHANGED capitalVars
    BY ONLY <1>0, <1>8 DEF capitalVars
  <1> HIDE DEF PathTypes
  <1> QED BY <1>1, <1>2, <1>3, <1>4, <1>5, <1>6, <1>7, <1>8 DEF ReconcileStep

\* Every step keeps the types.
LEMMA CapitalTypeStep ==
  ASSUME AdmissionInvariant, DispatchInvariant, [CapitalNext]_capitalVars
  PROVE  CapitalTypeOK'
  <1>1. TypeOK'
    BY JournalStep, InvariantStep DEF DispatchInvariant
  <1>2. Risk!RiskTypeOK'
    BY ReservationStep
  <1>3. PathTypes /\ req \in [Workers -> Ids]
    BY DEF AdmissionInvariant, CapitalTypeOK, PathTypes, TypeOK
  <1>4. PathTypes'
    BY ONLY <1>3, [CapitalNext]_capitalVars, PathCallStep, PathOtherStep DEF CapitalNext
  <1> QED BY ONLY <1>1, <1>2, <1>4 DEF PathTypes, CapitalTypeOK

CallsAreApproved ==
  \A w \in Workers :
    /\ step[w] \in Approved => resv[req[w]].state # "None"
    /\ stage[w] \in Inserted => step[w] = "journal"
    /\ stage[w] \in Inserted \ {"claim"} \/ step[w] = "unknown" => req[w] \in Fenced

\* What each call knows of its own request stays true.
LEMMA CallsStep ==
  ASSUME AdmissionInvariant, DispatchInvariant, [CapitalNext]_capitalVars
  PROVE  CallsAreApproved'
  <1>1. Fenced \subseteq Fenced' /\ TypeOK /\ TypeOK'
    <2>1. \A id \in Ids : journal'[id] \in Forward(journal[id])
      BY JournalStep, ForwardStep
    <2> QED BY ZenonT(60), <2>1, JournalStep, InvariantStep
            DEF Forward, Fenced, TerminalStates, DispatchInvariant, TypeOK, StoreTypeOK,
                   JournalStates
  <1>2. \A id \in Ids : resv[id].state # "None" => resv'[id].state # "None"
    BY ReservationStep DEF Reserved
  <1>3. /\ CallsAreApproved
        /\ step \in [Workers -> Steps] /\ stage \in [Workers -> Stages]
        /\ req \in [Workers -> Ids]
        /\ journal \in [Ids -> JournalStates \union {Absent}]
    BY <1>1 DEF AdmissionInvariant, CallsAreApproved, CapitalTypeOK, TypeOK, StoreTypeOK
  <1> HIDE DEF Fenced, Approved
  <1> USE <1>1, <1>2, <1>3 DEF CallsAreApproved, Steps, Stages, Inserted, At, Return, Goto,
          callVars, storeVars
  <1>4. ASSUME CrashRuntime PROVE CallsAreApproved'
    BY ONLY SMTT(60), <1>4 DEF CrashRuntime, Crash, Approved
  <1>5. CASE UNCHANGED <<step, stage, req>>
    BY SMTT(60), <1>5
  <1>6. ASSUME NEW w \in Workers, NEW id \in Ids, Enter(w, id)
        PROVE  CallsAreApproved'
    BY SMTT(60), <1>6 DEF Enter, Begin, Approved
  <1>7. ASSUME NEW w \in Workers, AdmitReplay(w)
        PROVE  CallsAreApproved'
    BY ZenonT(60), <1>7 DEF AdmitReplay, Approved, vars
  <1>8. ASSUME NEW w \in Workers, AdmitRefused(w) \/ PersistRefused(w)
        PROVE  CallsAreApproved'
    BY SMTT(60), <1>8 DEF AdmitRefused, PersistRefused, Withdraw, Approved
  <1>9. ASSUME NEW w \in Workers, Evaluate(w)
        PROVE  CallsAreApproved'
    BY SMTT(60), <1>9 DEF Evaluate, Withdraw, Approved, vars
  <1>10. ASSUME NEW w \in Workers, PersistApproval(w)
         PROVE  CallsAreApproved'
    BY SMTT(60), <1>10 DEF PersistApproval, Risk!PersistApproval, Approved, vars,
                 AdmissionInvariant, CapitalTypeOK, Risk!RiskTypeOK
  <1>11. ASSUME NEW w \in Workers, AcquireSlot(w) \/ Validated(w) \/ ValidationRefused(w)
         PROVE  CallsAreApproved'
    BY SMTT(60), <1>11 DEF AcquireSlot, Validated, ValidationRefused, Withdraw, Approved, vars
  <1>12. ASSUME NEW w \in Workers, InsertIntent(w)
         PROVE  CallsAreApproved'
    <2>1. CASE Insert(w) /\ UNCHANGED step
      BY ZenonT(60), <1>12, <2>1 DEF InsertIntent, Insert
    <2>2. CASE InsertRefused(w) /\ At(w, "rejected")
      BY SMTT(60), <1>12, <2>2 DEF InsertIntent, InsertRefused, Approved
    <2> QED BY ONLY <1>12, <2>1, <2>2 DEF InsertIntent
  <1>13. ASSUME NEW w \in Workers, FenceIntent(w)
         PROVE  CallsAreApproved'
    BY SMTT(60), <1>13 DEF FenceIntent, Claim, ClaimRefused, ClaimDispatchUnknown, TransitionMutation,
                 Fenced, Approved
  <1>14. ASSUME NEW w \in Workers, Transmit(w) \/ Receive(w)
         PROVE  CallsAreApproved'
    BY SMTT(60), <1>14 DEF Transmit, Send, SendRefused, Receive, Answer, NoAnswer, Doubt, Approved
  <1>15. ASSUME NEW w \in Workers, LinkIdentity(w) \/ FinishMutation(w)
         PROVE  CallsAreApproved'
    BY ZenonT(60), <1>15 DEF LinkIdentity, Link, FinishMutation, Finish, FinishRefused, Approved
  <1>16. ASSUME NEW w \in Workers,
                RecordAcknowledged(w) \/ RecordRejected(w) \/ RecordUnknown(w)
         PROVE  CallsAreApproved'
    BY SMTT(60), <1>16 DEF RecordAcknowledged, RecordRejected, RecordUnknown, Approved, vars
  <1>17. ASSUME \/ StartRuntime \/ Drain \/ ShutdownRuntime \/ ExitRuntime
                \/ CapitalEvent \/ ReconcileStep \/ UNCHANGED capitalVars
                \/ \E id \in Ids : DecideOrder(id) \/ LoseOrder(id) \/ OrderEnds(id)
         PROVE  UNCHANGED <<step, stage, req>>
    BY ONLY ZenonT(60), <1>17 DEF StartRuntime, Start, Drain, ShutdownRuntime, Shutdown,
           ExitRuntime, Exit,
           CapitalEvent, ReconcileStep, ReadSnapshot, ListJournal, ListUnresolved, CommitReport,
           Commit, AbandonReport, Abandon, Superseded, CacheReport, Conclude, ReadBackRequest,
           ReadBack, ApplyEvidence, DecideOrder, Decide, LoseOrder, Lose, OrderEnds, outside,
           waiting, admissionVars, vars, capitalVars
  <1> QED
    BY ZenonT(60), <1>4, <1>5, <1>6, <1>7, <1>8, <1>9, <1>10, <1>11, <1>12, <1>13, <1>14,
           <1>15, <1>16,
       <1>17 DEF CapitalNext, CallStep

\* Every step keeps it.
LEMMA AdmissionInvariantStep ==
  ASSUME AdmissionInvariant, DispatchInvariant, [CapitalNext]_capitalVars
  PROVE  AdmissionInvariant'
  <1>1. CapitalTypeOK' /\ CallsAreApproved'
    BY CapitalTypeStep, CallsStep
  <1>2. \A id \in Ids : journal'[id] \in Forward(journal[id])
    BY JournalStep, ForwardStep
  <1>3. Fenced \subseteq Fenced'
    BY ONLY ZenonT(60), <1>2 DEF Forward, Fenced, TerminalStates, DispatchInvariant, TypeOK,
           StoreTypeOK, JournalStates
  <1>4. UnknownHeldWasFenced'
    BY <1>3, ReservationStep DEF AdmissionInvariant, UnknownHeldWasFenced, Reserved, Fenced
  <1>5. listed' \subseteq Fenced' /\ report'.unresolved \subseteq Fenced'
    <2> DEFINE Reports ==
          \/ UNCHANGED <<listed, report>>
          \/ listed' = UnresolvedMutations /\ UNCHANGED report
          \/ listed' = {} /\ report'.unresolved \subseteq listed
          \/ UNCHANGED listed /\ report'.unresolved = {}
    <2>1. ASSUME NEW w \in Workers, CallStep(w) \/ \E id \in Ids : Enter(w, id)
          PROVE  Reports
      BY ZenonT(60), <2>1 DEF CallStep, Enter, AdmitReplay, AdmitRefused, reconcileVars,
           Evaluate, PersistApproval, PersistRefused, AcquireSlot, Validated, ValidationRefused,
           admitted, InsertIntent, FenceIntent, Transmit, Receive, LinkIdentity, FinishMutation,
           RecordAcknowledged, RecordRejected, RecordUnknown
    <2>3. ASSUME \/ StartRuntime \/ CrashRuntime \/ Drain \/ ShutdownRuntime \/ ExitRuntime
                 \/ CapitalEvent \/ UNCHANGED capitalVars
                 \/ \E id \in Ids : DecideOrder(id) \/ LoseOrder(id) \/ OrderEnds(id)
          PROVE  Reports
      BY ONLY SMTT(60), <2>3 DEF capitalVars, StartRuntime, CrashRuntime, Drain, ShutdownRuntime,
             ExitRuntime,
           Forget, NoReport, CapitalEvent, DecideOrder, LoseOrder, OrderEnds, outside,
           reconcileVars
    <2>4. ASSUME ReconcileStep
          PROVE  Reports
      BY SMTT(60), <2>4 DEF ReconcileStep, ReadSnapshot, ListJournal, CommitReport, NoReport,
             Finished,
           ApplyEvidence, AbandonReport, Superseded, CacheReport, Conclude, ReadBackRequest,
           reconcileVars
    <2>5. Reports
      BY ZenonT(60), <2>1, <2>3, <2>4 DEF CapitalNext
    <2>2. UnresolvedMutations \subseteq Fenced
      BY ONLY SMTT(60) DEF UnresolvedMutations, Fenced
    <2> QED BY <1>3, <2>5, <2>2 DEF AdmissionInvariant
  <1>6. \A id \in Ids : journal'[id] # Absent => resv'[id].state # "None"
    <2>1. ASSUME NEW id \in Ids, journal[id] = Absent, journal'[id] # Absent
          PROVE  resv[id].state # "None"
      <3>1. ASSUME NEW w \in Workers, InsertIntent(w)
            PROVE  resv[id].state # "None"
        <4>1. id = req[w]
          BY <2>1, <3>1 DEF InsertIntent, Insert, InsertMutation, InsertRefused, storeVars,
                            DispatchInvariant, TypeOK, StoreTypeOK
        <4> QED BY ZenonT(60), <3>1, <4>1 DEF InsertIntent, AdmissionInvariant, Approved
      <3>2. journal'[id] = "NotDispatched"
        BY ZenonT(60), <1>2, <2>1 DEF Forward
      <3>3. ASSUME NEW w \in Workers, CallStep(w) \/ \E i \in Ids : Enter(w, i),
             ~InsertIntent(w)
            PROVE  journal'[id] # "NotDispatched"
        BY ZenonT(60), <2>1, <3>3 DEF CallStep, Enter, Begin, AdmitReplay, AdmitRefused,
               Withdraw,
             Evaluate, PersistApproval, PersistRefused, AcquireSlot, Validated,
                    ValidationRefused,
             FenceIntent, Claim, ClaimDispatchUnknown, TransitionMutation, ClaimRefused,
                    Transmit,
             Send, SendRefused, Receive, Answer, NoAnswer, LinkIdentity, Link, FinishMutation,
             Finish, FinishRefused, Outcome, RecordAcknowledged, RecordRejected, RecordUnknown,
             vars, storeVars, DispatchInvariant, TypeOK, StoreTypeOK
      <3>4. ASSUME \/ StartRuntime \/ CrashRuntime \/ Drain \/ ShutdownRuntime \/ ExitRuntime
                   \/ CapitalEvent \/ ReconcileStep \/ UNCHANGED capitalVars
                   \/ \E i \in Ids : DecideOrder(i) \/ LoseOrder(i) \/ OrderEnds(i)
            PROVE  journal'[id] # "NotDispatched"
        BY ONLY ZenonT(60), <2>1, <3>4 DEF StartRuntime, Start, AcquireOwnership, CrashRuntime,
               Crash, Drain,
             ShutdownRuntime, Shutdown, ReleaseOwnership, ExitRuntime, Exit, CapitalEvent,
             ReconcileStep, ReadSnapshot, ListJournal, ListUnresolved, CommitReport, Commit,
             CommitReconciliation, AbandonReport, Abandon, Superseded, CacheReport, Conclude,
             ReadBackRequest, ReadBack, ApplyEvidence, DecideOrder, Decide, LoseOrder, Lose,
             OrderEnds, vars, storeVars, capitalVars
      <3> QED BY ZenonT(60), <3>1, <3>2, <3>3, <3>4 DEF CapitalNext
    <2> QED BY ZenonT(60), <2>1, ReservationStep DEF AdmissionInvariant, Reserved
  <1> QED BY ONLY <1>1, <1>4, <1>5, <1>6 DEF AdmissionInvariant, CallsAreApproved

\* So it always holds.
LEMMA AdmissionInvariantHolds == CapitalSpec => []AdmissionInvariant
  <1>1. CapitalInit => AdmissionInvariant
    BY ONLY AdmissionInit
  <1>2. AdmissionInvariant /\ DispatchInvariant /\ [CapitalNext]_capitalVars
          => AdmissionInvariant'
    BY ONLY AdmissionInvariantStep
  <1>3. CapitalSpec => []DispatchInvariant
    BY CapitalImplementsJournal, DispatchInvariantHolds, PTL DEF ImplementsJournal
  <1> QED BY <1>1, <1>2, <1>3, PTL DEF CapitalSpec

\* No request reaches the transport without a persisted risk approval and
\* reservation.
THEOREM ApprovalPrecedesSend == CapitalSpec => []ApprovedBeforeSend
  <1>1. AdmissionInvariant /\ DispatchInvariant => ApprovedBeforeSend
    BY DEF AdmissionInvariant, DispatchInvariant, UntouchedBeforeFence, ApprovedBeforeSend
  <1>2. CapitalSpec => []DispatchInvariant
    BY CapitalImplementsJournal, DispatchInvariantHolds, PTL DEF ImplementsJournal
  <1> QED BY <1>1, <1>2, AdmissionInvariantHolds, PTL

\* Capacity is frozen as UNKNOWN_HELD only for requests behind the fence.
THEOREM FrozenCapacityWasFenced == CapitalSpec => []UnknownHeldWasFenced
  <1>1. AdmissionInvariant => UnknownHeldWasFenced
    BY DEF AdmissionInvariant
  <1> QED BY <1>1, AdmissionInvariantHolds, PTL
=============================================================================
