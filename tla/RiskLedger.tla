----------------------------- MODULE RiskLedger -----------------------------
(***************************************************************************)
(* Concurrent use of the reservation store.  Each reconciler operation     *)
(* reads the reservation with one call of the store and updates it with a  *)
(* second one, so other threads (a dispatch recording its outcome, a       *)
(* reconciliation applying its report, an approval) run in between; only   *)
(* the state of the row is compared when the update arrives.               *)
(***************************************************************************)
EXTENDS RiskStore

CONSTANTS
  Callers,   \* threads that may be inside a reconciler operation
  OrderLots  \* signed lots a request may be approved for

ASSUME LotsAssumption == MaxLots \in Nat /\ OrderLots \subseteq Int \ {0}

VARIABLE pending  \* the update each thread is about to send, or idle

vars == <<resv, pending>>

Idle == [kind |-> "idle"]

Init ==
  /\ RiskInit
  /\ pending = [c \in Callers |-> Idle]

Approve(id, lots) ==
  /\ PersistApproval(id, lots)
  /\ UNCHANGED pending

\* required(): the read that opens every operation.
Read(c, id, plan) ==
  /\ pending[c] = Idle
  /\ resv[id].state # "None"
  /\ plan.kind = "update"
  /\ pending' = [pending EXCEPT ![c] = [kind |-> "update", id |-> id, plan |-> plan]]
  /\ UNCHANGED resv

PreDispatchFailure(c, id) == Read(c, id, ProvenPreDispatchFailure(resv[id]))
Unknown(c, id) == Read(c, id, UnknownAfterDispatch(resv[id]))
Orphan(c, id) == Read(c, id, OrphanFailClosed(resv[id]))
NoRemainingExposure(c, id) == Read(c, id, BrokerAuthoritativeNoRemainingExposure(resv[id]))
Reject(c, id) == Read(c, id, BrokerAuthoritativeReject(resv[id]))
Fill(c, id, n) == Read(c, id, AuthoritativeFill(resv[id], n))
Reconcile(c, id, n) == Read(c, id, RuntimeReconciliation(resv[id], n))

\* update_reservation, or InvalidTransition when the state has moved on.
Write(c) ==
  /\ pending[c] # Idle
  /\ \/ UpdateReservation(pending[c].id, pending[c].plan)
     \/ resv[pending[c].id].state \notin pending[c].plan.expected /\ UNCHANGED resv
  /\ pending' = [pending EXCEPT ![c] = Idle]

\* Lots a broker readback may report for a request.
Quantities == -MaxLots..MaxLots

Next ==
  \/ \E id \in Ids, lots \in OrderLots : Approve(id, lots)
  \/ \E c \in Callers :
       \/ Write(c)
       \/ \E id \in Ids :
            \/ PreDispatchFailure(c, id) \/ Unknown(c, id) \/ Orphan(c, id)
            \/ NoRemainingExposure(c, id) \/ Reject(c, id)
            \/ \E n \in Quantities : Fill(c, id, n) \/ Reconcile(c, id, n)

Spec == Init /\ [][Next]_vars

-----------------------------------------------------------------------------
(* Properties.                                                             *)

Plans == [kind : {"update"}, id : Ids,
          plan : [kind : {"update"}, expected : SUBSET ReservationStates,
                  remaining : Int, target : ReservationStates]]

TypeOK ==
  /\ RiskTypeOK
  /\ pending \in [Callers -> Plans \union {Idle}]

\* A reservation counts against capacity exactly as long as it has lots left,
\* and never for more lots, or on the other side, than were approved: also
\* when a thread writes back a quantity it read before another one changed it.
RemainingIsBacked ==
  \A id \in Ids :
    /\ resv[id].state \in Held <=> resv[id].remaining # 0
    /\ resv[id].remaining # 0 => SameSide(resv[id].remaining, resv[id].reserved)
    /\ AbsLots(resv[id].remaining) <= AbsLots(resv[id].reserved)

\* A consumed or released reservation never comes back, whatever a thread
\* that read it earlier still wants to write.
SettledForGood ==
  [][\A id \in Ids : resv[id].state \in Settled => resv'[id] = resv[id]]_vars

\* What the two properties above rest on: the update a thread is about to send
\* keeps lots exactly when its target state is a held one, never more of them
\* than were approved; the one exception, an UNKNOWN that was read after the
\* reservation had settled, is an update the store will refuse.
PendingUpdatesAreBacked ==
  \A c \in Callers : pending[c] # Idle =>
    LET id == pending[c].id  plan == pending[c].plan IN
    /\ resv[id].state # "None"
    /\ plan.expected \subseteq Held
    /\ \/ resv[id].state \in Settled
       \/ /\ plan.target \in Held <=> plan.remaining # 0
          /\ plan.remaining # 0 => SameSide(plan.remaining, resv[id].reserved)
          /\ AbsLots(plan.remaining) <= AbsLots(resv[id].reserved)

LedgerInvariant == TypeOK /\ RemainingIsBacked /\ PendingUpdatesAreBacked
=============================================================================
