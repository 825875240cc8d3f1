--------------------------- MODULE CapitalDispatch ---------------------------
(***************************************************************************)
(* The whole path of an order that bears exposure on one instrument        *)
(* (dispatch_for_purpose of coordinator.rs with the production risk        *)
(* admission of vox-core/src/production_risk.rs): the execution gate, the  *)
(* risk decision and its reservation, the execution slot, the revalidation *)
(* before the fence, the journal (RuntimeJournal), the outcome recorded in *)
(* the reservation (RiskStore); and the reconciliation whose report        *)
(* resolves the journal, then the reservations, then opens the gate.       *)
(*                                                                         *)
(* Every step is a step of RuntimeJournal or leaves its variables alone.   *)
(* Every order is for one lot, so a working order has its lot left and a   *)
(* finished one has nothing.  A reservation operation is one step here;    *)
(* RiskLedger takes it apart.                                              *)
(***************************************************************************)
EXTENDS RuntimeJournal

CONSTANTS
  MaxLots,  \* lots the policy lets be reserved on the instrument
  Slots     \* EXECUTION_QUEUE_CAPACITY

\* validate_capacity refuses a negative limit.
ASSUME SlotsAssumption == Slots \in Nat /\ MaxLots \in Nat

VARIABLES
  resv,      \* risk_reservations (RiskStore)
  denied,    \* requests whose stored decision denies them
  mode,      \* state of the runtime state machine
  step,      \* where each dispatch call is, around its journal stages
  permits,   \* calls that hold an execution slot
  cached,    \* resulting state of the report risk admission caches
  current,   \* calls that evaluated against the cached report
  fresh,     \* requests whose stored decision has the cached watermark
  rec,       \* where the reconciliation is, around its journal stages
  snap,      \* orders active in the snapshot it read
  listed,    \* requests it found unresolved in the journal
  report,    \* the report it computed
  applying,  \* reservations it has yet to update
  live       \* orders active at the broker

Risk == INSTANCE RiskStore

admissionVars == <<denied, step, permits, current, fresh>>
reconcileVars == <<rec, snap, listed, report, applying>>
capitalVars == <<vars, resv, mode, admissionVars, cached, reconcileVars, live>>

NoReport == [live |-> {}, unresolved |-> {}, state |-> "Halted"]

Steps == {"idle", "admit", "persist", "permit", "validate", "journal",
          "acked", "rejected", "unknown"}

CapitalTypeOK ==
  /\ TypeOK
  /\ Risk!RiskTypeOK
  /\ denied \subseteq Ids
  /\ mode \in {"Reconciling", "Ready", "Halted", "Stopping", "Stopped"}
  /\ step \in [Workers -> Steps]
  /\ permits \subseteq Workers
  /\ cached \in {"None", "Ready", "Halted"}
  /\ current \subseteq Workers
  /\ fresh \subseteq Ids
  /\ rec \in {"idle", "snapshot", "journal", "apply", "reservations"}
  /\ snap \subseteq Ids /\ listed \subseteq Ids /\ applying \subseteq Ids
  /\ report \in [live : SUBSET Ids, unresolved : SUBSET Ids, state : {"Ready", "Halted"}]
  /\ live \subseteq Ids

CapitalInit ==
  /\ Init
  /\ Risk!RiskInit
  /\ denied = {} /\ permits = {} /\ current = {} /\ fresh = {}
  /\ mode = "Stopped"
  /\ step = [w \in Workers |-> "idle"]
  /\ cached = "None"
  /\ rec = "idle" /\ snap = {} /\ listed = {} /\ applying = {}
  /\ report = NoReport
  /\ live = {}

At(w, s) == step' = [step EXCEPT ![w] = s]

\* The call returns; an execution slot it holds is given back.
Return(w) == At(w, "idle") /\ permits' = permits \ {w}

\* transition(Halted) is refused once the runtime is stopping.
Stopping == mode \in {"Stopping", "Stopped"}
Halt == mode' = IF Stopping THEN mode ELSE "Halted"

-----------------------------------------------------------------------------
(* Lifecycle.                                                              *)

\* start() reconciles before it opens the gate.
StartRuntime ==
  /\ Start
  /\ mode' = "Reconciling"
  /\ rec' = "snapshot"
  /\ UNCHANGED <<resv, admissionVars, cached, snap, listed, report, applying, live>>

\* What is in memory is gone, and no decision taken so far has the watermark
\* or the epoch of a later report.
Forget ==
  /\ cached' = "None"
  /\ current' = {} /\ fresh' = {}
  /\ rec' = "idle" /\ snap' = {} /\ listed' = {} /\ applying' = {}
  /\ report' = NoReport

CrashRuntime ==
  /\ Crash
  /\ Forget
  /\ mode' = "Stopped"
  /\ step' = [w \in Workers |-> "idle"]
  /\ permits' = {}
  /\ UNCHANGED <<resv, denied, live>>

\* shutdown() closes admission, waits for the slots, but not for ever ...
Drain ==
  /\ owner # 0 /\ VerifyEpoch(owner)
  /\ ~Stopping
  /\ mode' = "Stopping"
  /\ UNCHANGED <<vars, resv, admissionVars, cached, reconcileVars, live>>

\* ... then aborts the reconciliation and gives the lease back.
ShutdownRuntime ==
  /\ mode = "Stopping"
  /\ Shutdown
  /\ mode' = "Stopped"
  /\ rec' = "idle" /\ snap' = {} /\ listed' = {} /\ applying' = {}
  /\ report' = NoReport
  /\ UNCHANGED <<resv, admissionVars, cached, live>>

ExitRuntime ==
  /\ Exit
  /\ \A w \in Workers : step[w] = "idle"
  /\ Forget
  /\ UNCHANGED <<resv, denied, mode, step, permits, live>>

-----------------------------------------------------------------------------
(* Admission.                                                              *)

\* ensure_execution_allowed.
GateOpen == mode = "Ready" /\ rec = "idle"

Enter(w, id) ==
  /\ step[w] = "idle"
  /\ GateOpen
  /\ Begin(w, id)
  /\ At(w, "admit")
  /\ UNCHANGED <<resv, denied, mode, permits, current, fresh, cached, reconcileVars, live>>

\* admit: a request that already has an approval is a replay of it, as long
\* as the reservation is untouched and the journal does not know it.
AdmitReplay(w) ==
  /\ step[w] = "admit"
  /\ resv[req[w]].state = "Active"
  /\ journal[req[w]] = Absent
  /\ At(w, "permit")
  /\ UNCHANGED <<vars, resv, denied, mode, permits, current, fresh, cached,
                 reconcileVars, live>>

AdmitRefused(w) ==
  /\ step[w] = "admit"
  /\ \/ req[w] \in denied
     \/ /\ resv[req[w]].state # "None"
        /\ resv[req[w]].state # "Active" \/ journal[req[w]] # Absent
  /\ Withdraw(w)
  /\ Return(w)
  /\ UNCHANGED <<resv, denied, mode, current, fresh, cached, reconcileVars, live>>

\* Mutant: an approval is used before it is stored.
EvaluateUnstored(w) ==
  /\ step[w] = "admit"
  /\ resv[req[w]].state = "None" /\ req[w] \notin denied
  /\ cached = "Ready"
  /\ UnresolvedMutations = {}
  /\ At(w, "permit")
  /\ fresh' = fresh \union {req[w]}
  /\ UNCHANGED <<vars, denied, permits, current, resv, mode, cached, reconcileVars, live>>

\* RiskEngine::evaluate on the cached report, the journal and the ledger; it
\* denies on a report that is not READY or another request in doubt, and may
\* deny for its limits.
Evaluate(w) ==
  /\ step[w] = "admit"
  /\ resv[req[w]].state = "None" /\ req[w] \notin denied
  /\ \/ /\ cached = "Ready"
        /\ UnresolvedMutations = {}
        /\ At(w, "persist")
        /\ current' = current \union {w}
        /\ UNCHANGED <<vars, denied, permits>>
     \/ /\ denied' = denied \union {req[w]}
        /\ Withdraw(w)
        /\ Return(w)
        /\ UNCHANGED current
  /\ UNCHANGED <<resv, mode, fresh, cached, reconcileVars, live>>

\* persist_approval_atomic: returns the approval another call of the same
\* request stored meanwhile, or stores this one within capacity.
PersistApproval(w) ==
  /\ step[w] = "persist"
  /\ req[w] \notin denied
  /\ \/ resv[req[w]].state # "None" /\ UNCHANGED <<resv, fresh>>
     \/ /\ Risk!PersistApproval(req[w], 1)
        /\ fresh' = fresh \union {id \in {req[w]} : w \in current}
  /\ At(w, "permit")
  /\ current' = current \ {w}
  /\ UNCHANGED <<vars, denied, mode, permits, cached, reconcileVars, live>>

\* RESERVATION_CAPACITY_EXCEEDED, or a denial of the request was stored.
PersistRefused(w) ==
  /\ step[w] = "persist"
  /\ \/ req[w] \in denied
     \/ resv[req[w]].state = "None" /\ ~Risk!HasCapacity(1)
  /\ Withdraw(w)
  /\ Return(w)
  /\ current' = current \ {w}
  /\ UNCHANGED <<resv, denied, mode, fresh, cached, reconcileVars, live>>

\* Mutant: a full execution queue is recorded as an unknown outcome.
AcquireSlotUnknown(w) ==
  /\ step[w] = "permit"
  /\ \/ /\ Cardinality(permits) < Slots
        /\ permits' = permits \union {w}
        /\ At(w, "validate")
        /\ UNCHANGED vars
     \/ /\ Cardinality(permits) >= Slots
        /\ Withdraw(w)
        /\ At(w, "unknown")
        /\ UNCHANGED permits
  /\ UNCHANGED <<resv, denied, mode, current, fresh, cached, reconcileVars, live>>

AcquireSlot(w) ==
  /\ step[w] = "permit"
  /\ \/ /\ Cardinality(permits) < Slots
        /\ permits' = permits \union {w}
        /\ At(w, "validate")
        /\ UNCHANGED vars
     \/ /\ Cardinality(permits) >= Slots
        /\ Withdraw(w)
        /\ At(w, "rejected")
        /\ UNCHANGED permits
  /\ UNCHANGED <<resv, denied, mode, current, fresh, cached, reconcileVars, live>>

\* Mutant: requests in doubt on the instrument are not looked at again.
ValidatedByWatermark(w) ==
  /\ step[w] = "validate"
  /\ req[w] \in fresh
  /\ At(w, "journal")
  /\ UNCHANGED <<vars, resv, denied, mode, permits, current, fresh, cached,
                 reconcileVars, live>>

\* validate_before_dispatch: the watermark is unchanged and nothing else on
\* the instrument is in doubt.
Validated(w) ==
  /\ step[w] = "validate"
  /\ req[w] \in fresh
  /\ UnresolvedMutations \subseteq {req[w]}
  /\ At(w, "journal")
  /\ UNCHANGED <<vars, resv, denied, mode, permits, current, fresh, cached,
                 reconcileVars, live>>

\* It may also fail because the approval expired, or the policy, the
\* authorization or the instrument constraints have a new revision.
ValidationRefused(w) ==
  /\ step[w] = "validate"
  /\ Withdraw(w)
  /\ At(w, "rejected")
  /\ UNCHANGED <<resv, denied, mode, permits, current, fresh, cached, reconcileVars, live>>

-----------------------------------------------------------------------------
(* From the journal to the recorded outcome.                               *)

admitted == <<denied, current, fresh, cached, reconcileVars, live>>

InsertIntent(w) ==
  /\ step[w] = "journal"
  /\ \/ Insert(w) /\ UNCHANGED <<step, mode>>
     \/ /\ InsertRefused(w)
        /\ At(w, "rejected")
        /\ IF VerifyEpoch(owner) THEN UNCHANGED mode ELSE Halt
  /\ UNCHANGED <<resv, permits, admitted>>

FenceIntent(w) ==
  /\ step[w] = "journal"
  /\ \/ Claim(w) /\ UNCHANGED <<step, mode>>
     \/ ClaimRefused(w) /\ At(w, "rejected") /\ Halt
  /\ UNCHANGED <<resv, permits, admitted>>

\* The runtime halts before the reservation is told; when it cannot, because
\* it is stopping, the call returns at once.
Doubt(w) ==
  /\ Halt
  /\ IF Stopping THEN Return(w) ELSE At(w, "unknown") /\ UNCHANGED permits

Transmit(w) ==
  /\ step[w] = "journal"
  /\ \/ Send(w) /\ UNCHANGED <<step, mode, permits>>
     \/ /\ SendRefused(w)
        /\ IF stage'[w] = "idle" THEN Doubt(w) ELSE UNCHANGED <<step, mode, permits>>
  /\ UNCHANGED <<resv, admitted>>

\* An unknown outcome that comes with evidence is first noted in the row; when
\* that is refused the call returns without telling the reservation.
Receive(w) ==
  /\ step[w] = "journal"
  /\ \/ Answer(w) /\ UNCHANGED <<step, mode, permits>>
     \/ NoAnswer(w) /\ Doubt(w)
     \/ /\ NoAnswer(w)
        /\ ~CanTransition(req[w], {"UnknownAfterDispatch"}, owner)
        /\ Halt /\ Return(w)
  /\ UNCHANGED <<resv, admitted>>

LinkIdentity(w) ==
  /\ step[w] = "journal"
  /\ Link(w)
  /\ IF stage'[w] = "idle" THEN Halt /\ Return(w) ELSE UNCHANGED <<step, mode, permits>>
  /\ UNCHANGED <<resv, admitted>>

FinishMutation(w) ==
  /\ step[w] = "journal"
  /\ \/ /\ Finish(w)
        /\ At(w, IF Outcome(w) = "Acknowledged" THEN "acked" ELSE "rejected")
        /\ UNCHANGED <<mode, permits>>
     \/ FinishRefused(w) /\ Halt /\ Return(w)
  /\ UNCHANGED <<resv, admitted>>

Succeeds(id, plan) ==
  \/ plan.kind = "nothing" /\ UNCHANGED resv
  \/ plan.kind = "update" /\ Risk!UpdateReservation(id, plan)

Fails(id, plan) ==
  /\ \/ plan.kind = "refusal"
     \/ plan.kind = "update" /\ resv[id].state \notin plan.expected
  /\ UNCHANGED resv

\* record_risk_dispatch_outcome halts the runtime when the store refuses.
RecordAcknowledged(w) ==
  /\ step[w] = "acked"
  /\ LET plan == Risk!DispatchAcknowledged(resv[req[w]]) IN
       \/ Succeeds(req[w], plan) /\ UNCHANGED mode
       \/ Fails(req[w], plan) /\ Halt
  /\ Return(w)
  /\ UNCHANGED <<vars, admitted>>

RecordRejected(w) ==
  /\ step[w] = "rejected"
  /\ Succeeds(req[w], Risk!BrokerAuthoritativeReject(resv[req[w]]))
  /\ Return(w)
  /\ UNCHANGED <<vars, mode, admitted>>

\* An error is only logged: the runtime has halted already.
RecordUnknown(w) ==
  /\ step[w] = "unknown"
  /\ LET plan == Risk!UnknownAfterDispatch(resv[req[w]]) IN
       Succeeds(req[w], plan) \/ Fails(req[w], plan)
  /\ Return(w)
  /\ UNCHANGED <<vars, mode, admitted>>

-----------------------------------------------------------------------------
(* The reconciliation.                                                     *)

waiting == <<denied, step, permits, live>>
Finished == rec' = "idle" /\ snap' = {} /\ listed' = {} /\ applying' = {} /\ report' = NoReport

\* A capital-state event of a stream: the gate closes until the account has
\* been read again.
CapitalEvent ==
  /\ owner # 0 /\ VerifyEpoch(owner)
  /\ rec = "idle" /\ mode \in {"Ready", "Halted"}
  /\ mode' = "Reconciling"
  /\ rec' = "snapshot"
  /\ UNCHANGED <<vars, resv, waiting, current, fresh, cached, snap, listed, report, applying>>

ReadSnapshot ==
  /\ rec = "snapshot"
  /\ rec' = "journal"
  /\ snap' = live
  /\ UNCHANGED <<vars, resv, mode, waiting, current, fresh, cached, listed, report, applying>>

ListJournal ==
  /\ rec = "journal"
  /\ ListUnresolved
  /\ listed' = UnresolvedMutations
  /\ UNCHANGED <<resv, mode, waiting, current, fresh, cached, rec, snap, report, applying>>

ReadBackRequest(id) ==
  /\ rec = "journal"
  /\ ReadBack(id)
  /\ UNCHANGED <<resv, mode, waiting, current, fresh, cached, reconcileVars>>

\* Mutant: every request that was listed is committed as resolved.
CommitReportListed ==
  /\ rec = "journal"
  /\ recStage = "reading" /\ todo = {}
  /\ CommitReconciliation(listed, owner)
  /\ recStage' = "idle" /\ found' = {}
  /\ report' = [live |-> snap, unresolved |-> {}, state |-> "Ready"]
  /\ rec' = "apply" /\ snap' = {} /\ listed' = {}
  /\ UNCHANGED <<owner, callVars, brokerVars, todo, resv, mode, waiting, current, fresh,
                 cached, applying>>

\* READY needs every mutation resolved and a snapshot without discrepancies.
CommitReport ==
  /\ rec = "journal"
  /\ Commit
  /\ \E state \in {"Ready", "Halted"} :
       /\ state = "Ready" => listed \subseteq found
       /\ report' = [live |-> snap, unresolved |-> listed \ found, state |-> state]
  /\ rec' = "apply" /\ snap' = {} /\ listed' = {}
  /\ UNCHANGED <<resv, mode, waiting, current, fresh, cached, applying>>

AbandonReport ==
  /\ \/ rec = "snapshot" /\ UNCHANGED vars
     \/ rec = "journal" /\ Abandon
  /\ Halt
  /\ Finished
  /\ UNCHANGED <<resv, waiting, current, fresh, cached>>

\* Another event arrived while the account was read: read it again.
Superseded ==
  /\ rec = "apply"
  /\ rec' = "snapshot" /\ report' = NoReport
  /\ UNCHANGED <<vars, resv, mode, waiting, current, fresh, cached, snap, listed, applying>>

\* ProductionRisk::reconcile caches the report, so decisions taken before no
\* longer have its watermark, and lists the reservations that hold capacity ...
CacheReport ==
  /\ rec = "apply"
  /\ rec' = "reservations"
  /\ cached' = report.state
  /\ current' = {} /\ fresh' = {}
  /\ applying' = {id \in Ids : resv[id].state \in Risk!Held}
  /\ UNCHANGED <<vars, resv, mode, waiting, snap, listed, report>>

\* ... and updates each from what the report says of its request.
Evidence(id) ==
  IF id \in report.unresolved THEN Risk!UnknownAfterDispatch(resv[id])
  ELSE IF id \in report.live THEN Risk!RuntimeReconciliation(resv[id], 1)
  ELSE Risk!BrokerAuthoritativeNoRemainingExposure(resv[id])

ApplyEvidence(id) ==
  /\ rec = "reservations"
  /\ id \in applying
  /\ \/ /\ Succeeds(id, Evidence(id))
        /\ applying' = applying \ {id}
        /\ UNCHANGED <<mode, rec, snap, listed, report>>
     \/ /\ Fails(id, Evidence(id))
        /\ Halt
        /\ Finished
  /\ UNCHANGED <<vars, waiting, current, fresh, cached>>

\* transition(report.resulting_state): HALTED to READY is refused.
Conclude ==
  /\ rec = "reservations"
  /\ applying = {}
  /\ IF mode = "Reconciling" /\ report.state = "Ready" THEN mode' = "Ready" ELSE Halt
  /\ Finished
  /\ UNCHANGED <<vars, resv, waiting, current, fresh, cached>>

-----------------------------------------------------------------------------
(* The broker (external).                                                  *)

outside == <<resv, mode, admissionVars, cached, reconcileVars>>

DecideOrder(id) ==
  /\ Decide(id)
  /\ live' = live \union {i \in {id} : verdict'[i] = "accepted"}
  /\ UNCHANGED outside

LoseOrder(id) == Lose(id) /\ UNCHANGED <<outside, live>>

\* The order is filled or cancelled.
OrderEnds(id) ==
  /\ id \in live
  /\ live' = live \ {id}
  /\ UNCHANGED <<vars, outside>>

-----------------------------------------------------------------------------
CallStep(w) ==
  \/ AdmitReplay(w) \/ AdmitRefused(w) \/ Evaluate(w)
  \/ PersistApproval(w) \/ PersistRefused(w) \/ AcquireSlot(w)
  \/ Validated(w) \/ ValidationRefused(w)
  \/ InsertIntent(w) \/ FenceIntent(w) \/ Transmit(w) \/ Receive(w)
  \/ LinkIdentity(w) \/ FinishMutation(w)
  \/ RecordAcknowledged(w) \/ RecordRejected(w) \/ RecordUnknown(w)

ReconcileStep ==
  \/ ReadSnapshot \/ ListJournal \/ CommitReport \/ AbandonReport \/ Superseded
  \/ CacheReport \/ Conclude
  \/ \E id \in Ids : ReadBackRequest(id) \/ ApplyEvidence(id)

CapitalNext ==
  \/ StartRuntime \/ CrashRuntime \/ Drain \/ ShutdownRuntime \/ ExitRuntime
  \/ \E w \in Workers : CallStep(w) \/ \E id \in Ids : Enter(w, id)
  \/ CapitalEvent \/ ReconcileStep
  \/ \E id \in Ids : DecideOrder(id) \/ LoseOrder(id) \/ OrderEnds(id)

CapitalSpec == CapitalInit /\ [][CapitalNext]_capitalVars

-----------------------------------------------------------------------------
(* Properties.                                                             *)

\* With the gate, the ledger and the reconciliation around it, the journal
\* still does only what RuntimeJournal allows, so what is proved of that
\* (one transmission, faithful outcomes) holds of the whole path.
ImplementsJournal == Spec

\* Nothing is ever transmitted for a request without a persisted approval
\* and reservation, across crashes and replays.
ApprovedBeforeSend == \A id \in Ids : sends[id] > 0 => resv[id].state # "None"

\* Concurrent admissions never reserve more lots than the policy allows.
CapacityRespected == Risk!HeldLots <= MaxLots

\* However calls overlap, crash and are retried, no more requests on an
\* instrument are in doubt than there are execution slots: once one is in
\* doubt, only calls that already hold a slot can add another.
InDoubtWithinSlots == Cardinality(UnresolvedMutations) <= Slots

\* Capacity is only ever frozen for a request the journal has fenced.
UnknownHeldWasFenced ==
  \A id \in Ids :
    resv[id].state = "UnknownHeld" => journal[id] \notin {Absent, "NotDispatched"}

\* Why the approval and the fence come first: a call past its approval has a
\* reservation, only a call in its journal stages has a row there, and a row
\* implies a reservation; whatever a call or a report takes for unknown is
\* past the fence.
Approved == {"permit", "validate", "journal", "acked", "rejected", "unknown"}
Fenced == {id \in Ids : journal[id] \notin {Absent, "NotDispatched"}}

AdmissionInvariant ==
  /\ CapitalTypeOK
  /\ \A w \in Workers :
       /\ step[w] \in Approved => resv[req[w]].state # "None"
       /\ stage[w] \in Inserted => step[w] = "journal"
       /\ stage[w] \in Inserted \ {"claim"} \/ step[w] = "unknown" => req[w] \in Fenced
  /\ \A id \in Ids : journal[id] # Absent => resv[id].state # "None"
  /\ listed \subseteq Fenced /\ report.unresolved \subseteq Fenced
  /\ UnknownHeldWasFenced

\* A mutation that is in doubt keeps its reservation until reconciliation
\* resolves it.
DoubtIsHeld ==
  \A id \in Ids :
    journal[id] = "UnknownAfterDispatch" => resv[id].state \in Risk!Held

\* A call that is refused before dispatch frees the capacity of its request
\* only if that request has not been dispatched, by this call or another.
CallReleasesOnlyUnsent ==
  [][\A id \in Ids :
       /\ UNCHANGED reconcileVars
       /\ resv[id].state \in Risk!Held /\ resv'[id].state = "Released"
       => journal[id] \notin {"UnknownAfterDispatch", "Acknowledged"}]_capitalVars
=============================================================================
