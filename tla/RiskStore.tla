------------------------------ MODULE RiskStore ------------------------------
(***************************************************************************)
(* Exposure reservations of one account and instrument                     *)
(* (crates/vox-risk/src/store.rs), and what each operation of the          *)
(* reservation reconciler (crates/vox-risk/src/reconcile.rs) asks the      *)
(* store to do, given the row it has read.                                 *)
(*                                                                         *)
(* resv[id] is the row of risk_reservations for a logical request: its     *)
(* state, the lots reserved when it was approved and the lots that still   *)
(* count against capacity.  Lots are signed, a sale is negative.           *)
(***************************************************************************)
EXTENDS Integers, FiniteSetsExt

CONSTANTS
  Ids,      \* logical request ids
  MaxLots   \* max_instrument_reserved_abs_lots

VARIABLE resv

NoRow == [state |-> "None", reserved |-> 0, remaining |-> 0]

Held == {"Active", "PartiallyConsumed", "UnknownHeld", "Orphaned"}
Settled == {"Consumed", "Released"}
ReservationStates == Held \union Settled

\* States whose order may still be filled.
Fillable == {"Active", "PartiallyConsumed", "UnknownHeld"}

AbsLots(n) == IF n < 0 THEN -n ELSE n
SameSide(m, n) == (m > 0 /\ n > 0) \/ (m < 0 /\ n < 0)

HeldLots == MapThenSumSet(LAMBDA id : AbsLots(resv[id].remaining),
                          {id \in Ids : resv[id].state \in Held})

RiskTypeOK ==
  resv \in [Ids -> [state : ReservationStates \union {"None"},
                    reserved : Int, remaining : Int]]

RiskInit == resv = [id \in Ids |-> NoRow]

-----------------------------------------------------------------------------
\* Mutant: only reservations that are still ACTIVE count.
HasCapacityActive(lots) ==
  MapThenSumSet(LAMBDA id : AbsLots(resv[id].remaining),
                {id \in Ids : resv[id].state = "Active"}) + AbsLots(lots) <= MaxLots

\* enforce_capacity, inside the transaction that inserts the reservation.
HasCapacity(lots) == HeldLots + AbsLots(lots) <= MaxLots

\* persist_approval_atomic for a request that has no reservation yet (a replay
\* returns the existing row and changes nothing).
PersistApproval(id, lots) ==
  /\ resv[id].state = "None"
  /\ HasCapacity(lots)
  /\ resv' = [resv EXCEPT ![id] =
                [state |-> "Active", reserved |-> lots, remaining |-> lots]]

\* Mutant: the state that was expected is not compared.
UpdateReservationUnchecked(id, plan) ==
  resv' = [resv EXCEPT ![id] = [state |-> plan.target, reserved |-> resv[id].reserved,
                                remaining |-> plan.remaining]]

\* update_reservation: compare-and-set on the state of one row.
UpdateReservation(id, plan) ==
  /\ resv[id].state \in plan.expected
  /\ resv' = [resv EXCEPT ![id] = [state |-> plan.target, reserved |-> resv[id].reserved,
                                   remaining |-> plan.remaining]]

-----------------------------------------------------------------------------
(* What a reconciler operation does once it has read row `seen`: nothing    *)
(* (idempotent), an error, or the update it sends to the store.             *)
Nothing == [kind |-> "nothing"]
Refusal == [kind |-> "refusal"]
Update(expected, remaining, target) ==
  [kind |-> "update", expected |-> expected, remaining |-> remaining, target |-> target]

\* Lots left after a fill or a readback leave something or nothing to fill.
Remains(n) == IF n = 0 THEN "Consumed" ELSE "PartiallyConsumed"

ProvenPreDispatchFailure(seen) == Update({"Active"}, 0, "Released")

UnknownAfterDispatch(seen) ==
  IF seen.state = "UnknownHeld" THEN Nothing
  ELSE Update({"Active", "PartiallyConsumed"}, seen.remaining, "UnknownHeld")

OrphanFailClosed(seen) ==
  IF seen.state = "Orphaned" THEN Nothing
  ELSE Update({"Active", "PartiallyConsumed"}, seen.remaining, "Orphaned")

BrokerAuthoritativeNoRemainingExposure(seen) ==
  IF seen.state \in Settled THEN Nothing ELSE Update(Held, 0, "Released")

BrokerAuthoritativeReject(seen) ==
  IF seen.state \in Settled THEN Nothing ELSE Update(Held, 0, "Released")

DispatchAcknowledged(seen) == IF seen.state \in Fillable THEN Nothing ELSE Refusal

AuthoritativeFill(seen, filled) ==
  IF /\ filled # 0
     /\ seen.state \in Fillable
     /\ SameSide(seen.remaining, filled)
     /\ AbsLots(filled) <= AbsLots(seen.remaining)
  THEN Update(Fillable, seen.remaining - filled, Remains(seen.remaining - filled))
  ELSE Refusal

\* Mutant: the readback may report more lots than are left.
RuntimeReconciliationGrows(seen, left) ==
  IF /\ seen.state \in Fillable
     /\ seen.remaining # 0
     /\ left = 0 \/ SameSide(seen.remaining, left)
  THEN Update(Fillable, left, Remains(left))
  ELSE Refusal

RuntimeReconciliation(seen, left) ==
  IF /\ seen.state \in Fillable
     /\ seen.remaining # 0
     /\ left = 0 \/ SameSide(seen.remaining, left)
     /\ AbsLots(left) <= AbsLots(seen.remaining)
  THEN Update(Fillable, left, Remains(left))
  ELSE Refusal
=============================================================================
