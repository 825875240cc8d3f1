---------------------------- MODULE RiskAdmission ----------------------------
(***************************************************************************)
(* The quantities of production admission                                  *)
(* (crates/vox-core/src/production_risk.rs): how a command and the cached  *)
(* reconciliation report become the request that RiskEngine decides, what  *)
(* is reserved, and what is compared again before the order goes out.      *)
(* CapitalDispatch has the journal, crashes and unknown outcomes of the    *)
(* same path, for orders of one lot; here an answer is immediate.          *)
(*                                                                         *)
(* One account and one instrument.  Positions are in units, orders in lots.*)
(***************************************************************************)
EXTENDS RiskEngine, FiniteSets, FiniteSetsExt

CONSTANTS
  Orders,          \* logical requests, also the names of their orders
  LotSize,      \* units per lot
  Policies,     \* policies the account may start with
  Commands,     \* see Description
  LotLimits,    \* what the broker may answer as the limit of an order
  Positions,    \* lots the account may start with
  MaxRevision   \* bound on revisions and watermarks

VARIABLES
  policy,       \* risk_policies
  held,         \* lots each reservation holds, 0 for none
  constraints,  \* cached instrument constraints: sides allowed, revision
  authorized,   \* revision of the execution authorization
  report,       \* the cached report
  broker,       \* the account at the broker: units, open orders by id
  admission          \* where the admission for each request is

admissionVars == <<policy, held, constraints, authorized, report, broker, admission>>

None == [step |-> "none"]

NoOrders == [i \in Orders |-> 0]

AdmissionInit ==
  /\ policy \in Policies
  /\ held = NoOrders
  /\ constraints = [sides |-> {-1, 1}, revision |-> 1]
  /\ authorized = 1
  /\ broker \in {[units |-> LotSize * n, orders |-> NoOrders] : n \in Positions}
  /\ report = [units |-> broker.units, orders |-> NoOrders, watermark |-> 1, ready |-> TRUE]
  /\ admission = [i \in Orders |-> None]

Total(lots) == MapThenSumSet(LAMBDA i : lots[i], Orders)
TotalAbs(lots) == MapThenSumSet(LAMBDA i : Abs(lots[i]), Orders)

-----------------------------------------------------------------------------
(* command_description, build_request                                      *)

\* A replacement takes the side of the order it replaces, which must be in
\* the report.
Description(command, orders) ==
  CASE command.kind \in {"RegularOrder", "PostOrderAsync"} ->
         [action |-> "DirectionalOrder", delta |-> command.side * command.quantity]
    [] command.kind = "ReplaceOrder" ->
         [action |-> "ReplaceDirectionalOrder", delta |-> Sign(orders[command.target]) * command.quantity]
    [] command.kind = "CancelOrder" -> [action |-> "CancelOrder", delta |-> 0]
    [] command.kind \in {"PostStopOrder", "ProtectionLeg"} -> [action |-> "ProtectionMaintenance", delta |-> 0]
    [] command.kind = "CancelStopOrder" -> [action |-> "CancelProtection", delta |-> 0]

\* What is refused with an error before there is a request.
Describable(command) ==
  /\ command.kind \in {"RegularOrder", "PostOrderAsync", "ReplaceOrder"} => command.quantity > 0
  /\ command.kind = "ReplaceOrder" => report.orders[command.target] # 0

\* The order that is replaced no longer counts as open.
OpenOrders(command, orders) ==
  Total(IF command.kind = "ReplaceOrder" THEN [orders EXCEPT ![command.target] = 0] ELSE orders)

NotionalPolicyEnabled(p) ==
  p.max_gross_exposure # {} \/ p.max_net_exposure_abs # {} \/ p.max_instrument_exposure # {}

\* The facts the report has: marked exposure and a quote time are not among
\* them, the position given to the protection check is in units.
BuildRequest(command, p, k, limits, price) ==
  LET d == Description(command, report.orders)
      directional == d.action \in DirectionalActions
      position == IF directional THEN report.units \div LotSize ELSE 0
      open == OpenOrders(command, report.orders)
      grows == IncreasingPortion(position + open + Total(held), d.delta) > 0
  IN [action |-> d.action, delta |-> d.delta,
      notional |-> IF directional /\ grows /\ NotionalPolicyEnabled(p) THEN d.delta * price ELSE 0,
      is_market_order |-> command.market,
      confirm_margin_trade |-> command.margin,
      emergency_reduction |-> FALSE,
      now |-> report.watermark,
      snapshot |->
        [runtime_ready |-> report.ready, execution_authorized |-> TRUE,
         instrument_tradable |-> directional => Sign(d.delta) \in k.sides,
         lot_size |-> IF directional THEN LotSize ELSE 1,
         unknown_conflict |-> FALSE,
         position |-> position, open_orders |-> open, unknown |-> 0, reserved |-> Total(held),
         gross_exposure |-> {}, net_exposure |-> {}, instrument_exposure |-> {},
         daily_pnl |-> {0}, market_data_as_of |-> {},
         broker_lot_limits |-> IF directional THEN {limits} ELSE {},
         margin |-> IF grows /\ (p.max_margin_utilization_ppm # {} \/ (p.allow_margin /\ command.margin))
                    THEN {[liquid |-> 2, corrected |-> 1]} ELSE {},
         protection |-> [active_stop_lots |-> 0, position_lots |-> report.units,
                         entered_at |-> {report.watermark}, plan_state |-> {}],
         policy_revision |-> p.revision]]

\* What the approval stays bound to (RiskValidityContext).
Validity(p, d, k) ==
  [policy |-> p.revision, authorization |-> authorized, watermark |-> report.watermark,
   constraints |-> IF d.action \in DirectionalActions THEN k.revision ELSE 0]

\* Constraints are read again when the cached ones are older than a second.
Fetched ==
  {constraints} \union
  {[sides |-> s, revision |-> constraints.revision + 1] : s \in {{1}}}

\* limit is what GetMaxLots answers for either side.
Build(i, command, limit) ==
  /\ admission[i].step = "none"
  /\ Describable(command)
  /\ \E k \in IF command.kind \in {"RegularOrder", "PostOrderAsync", "ReplaceOrder"} THEN Fetched ELSE {constraints} :
       LET limits == [buy_own |-> [m \in BOOLEAN |-> {limit}], buy_margin |-> [m \in BOOLEAN |-> {}],
                      sell_own |-> {limit}, sell_margin |-> {}]
           request == BuildRequest(command, policy, k, limits, 1)
       IN /\ k.revision <= MaxRevision
          /\ constraints' = k
          /\ admission' = [admission EXCEPT ![i] =
               [step |-> "built", command |-> command, policy |-> policy, request |-> request,
                validity |-> Validity(policy, Description(command, report.orders), k)]]
  /\ UNCHANGED <<policy, held, authorized, report, broker>>

-----------------------------------------------------------------------------
(* admit: evaluate, then the decision and its reservation in one           *)
(* transaction that checks what all reservations hold together.            *)

HasRoom(p, lots) == \A max \in p.max_position_abs_lots : TotalAbs(held) + Abs(lots) <= max

Admit(i) ==
  /\ admission[i].step = "built"
  /\ LET d == Evaluate(admission[i].policy, admission[i].request)
     IN IF PermitsDispatch(d) /\ (d.approved # 0 => HasRoom(admission[i].policy, d.approved))
        THEN /\ held' = [held EXCEPT ![i] = d.approved]
             /\ admission' = [admission EXCEPT ![i] = [step |-> "admitted", command |-> @.command, request |-> @.request,
                                             validity |-> @.validity, decision |-> d]]
        ELSE /\ admission' = [admission EXCEPT ![i] = [step |-> "refused"]]
             /\ UNCHANGED held
  /\ UNCHANGED <<policy, constraints, authorized, report, broker>>

-----------------------------------------------------------------------------
(* validate_before_dispatch, and the broker's answer.                      *)

\* Mutant: the report the decision was made from is not compared.
ValidAnyReport(i) ==
  LET d == Description(admission[i].command, report.orders)
      v == Validity(policy, d, constraints)
  IN /\ [v EXCEPT !.watermark = 0] = [admission[i].validity EXCEPT !.watermark = 0]
     /\ Describable(admission[i].command)
     /\ d.delta = admission[i].decision.approved /\ d.action = admission[i].decision.action

\* The policy, the authorization, the report and the constraints are those
\* of the decision, and the command asks for what was approved.
Valid(i) ==
  LET d == Description(admission[i].command, report.orders)
  IN /\ Validity(policy, d, constraints) = admission[i].validity
     /\ Describable(admission[i].command)
     /\ d.delta = admission[i].decision.approved /\ d.action = admission[i].decision.action

\* The open orders once the broker has taken the command.
Taken(i, command, lots, orders) ==
  CASE command.kind \in {"RegularOrder", "PostOrderAsync"} -> [orders EXCEPT ![i] = lots]
    [] command.kind = "ReplaceOrder" -> [orders EXCEPT ![command.target] = 0, ![i] = lots]
    [] command.kind = "CancelOrder" -> [orders EXCEPT ![command.target] = 0]
    [] OTHER -> orders

\* An order that was filled or cancelled meanwhile is neither replaced nor
\* cancelled: the broker rejects.
Takes(command) ==
  command.kind \in {"ReplaceOrder", "CancelOrder"} => broker.orders[command.target] # 0

Send(i) ==
  /\ admission[i].step = "admitted"
  /\ Valid(i)
  /\ Takes(admission[i].command)
  /\ broker' = [broker EXCEPT !.orders = Taken(i, admission[i].command, admission[i].decision.approved, @)]
  /\ admission' = [admission EXCEPT ![i] = [step |-> "sent"]]
  /\ UNCHANGED <<policy, held, constraints, authorized, report>>

\* Refused here or by the broker; the reservation is released.
Refuse(i) ==
  /\ admission[i].step = "admitted"
  /\ ~Valid(i) \/ ~Takes(admission[i].command)
  /\ held' = [held EXCEPT ![i] = 0]
  /\ admission' = [admission EXCEPT ![i] = [step |-> "refused"]]
  /\ UNCHANGED <<policy, constraints, authorized, report, broker>>

-----------------------------------------------------------------------------
(* The world around admission.                                             *)

\* An order trades a lot.
Trade(i) ==
  /\ broker.orders[i] # 0
  /\ broker' = [units |-> broker.units + LotSize * Sign(broker.orders[i]),
                orders |-> [broker.orders EXCEPT ![i] = @ - Sign(@)]]
  /\ UNCHANGED <<policy, held, constraints, authorized, report, admission>>

\* What runtime_reconciliation leaves of a reservation whose order is open
\* with this many lots (RiskStore has its states).
LotsLeft(reserved, open) ==
  IF Sign(open) = Sign(reserved) /\ Abs(open) <= Abs(reserved) THEN open ELSE reserved

\* reconcile: the report is cached; a reservation keeps what its order still
\* has open, and is released when there is no such order.
ReconcileReport ==
  /\ report.watermark < MaxRevision
  /\ report' = [units |-> broker.units, orders |-> broker.orders,
                watermark |-> report.watermark + 1, ready |-> TRUE]
  /\ held' = [i \in Orders |-> IF held[i] = 0 \/ broker.orders[i] = 0 THEN 0 ELSE LotsLeft(held[i], broker.orders[i])]
  /\ UNCHANGED <<policy, constraints, authorized, broker, admission>>

\* replace_state and put_policy: compared with the revision that was read.
ReplaceState(state) ==
  /\ policy.revision < MaxRevision
  /\ state # policy.state
  /\ policy' = [policy EXCEPT !.revision = @ + 1, !.state = state]
  /\ UNCHANGED <<held, constraints, authorized, report, broker, admission>>

Reauthorize ==
  /\ authorized < MaxRevision
  /\ authorized' = authorized + 1
  /\ UNCHANGED <<policy, held, constraints, report, broker, admission>>

AdmissionNext ==
  \/ \E i \in Orders, command \in Commands, limit \in LotLimits : Build(i, command, limit)
  \/ \E i \in Orders : Admit(i) \/ Send(i) \/ Refuse(i) \/ Trade(i)
  \/ ReconcileReport \/ Reauthorize
  \/ \E state \in {"Normal", "ReduceOnly"} : ReplaceState(state)

AdmissionSpec == AdmissionInit /\ [][AdmissionNext]_admissionVars

-----------------------------------------------------------------------------
(* Properties.                                                             *)

Sends(i) == admission[i].step = "admitted" /\ admission'[i].step = "sent"

\* An order that goes out would still be approved, for the same lots, by the
\* policy and on the report of that moment: nothing of what the decision was
\* made from is older than the order (validate_before_dispatch).
SentIsStillApproved ==
  [][\A i \in Orders : Sends(i) =>
       LET then == admission[i].request
           again == [then EXCEPT !.snapshot =
                       [@ EXCEPT !.position = IF then.action \in DirectionalActions THEN report.units \div LotSize ELSE 0,
                                 !.open_orders = OpenOrders(admission[i].command, report.orders),
                                 !.instrument_tradable = then.action \in DirectionalActions => Sign(then.delta) \in constraints.sides,
                                 !.policy_revision = policy.revision]]
           d == Evaluate(policy, again)
       IN PermitsDispatch(d) /\ d.approved = admission[i].decision.approved]_admissionVars

\* What the account holds when every open order trades.
Net(b) == b.units + LotSize * Total(b.orders)

\* While the state is REDUCE_ONLY no order that goes out adds exposure
\* (docs/risk/ARCHITECTURE.md): with everything open traded, the account
\* holds no more than it would have held without it.
ReduceOnlyAddsNothing ==
  [][\A i \in Orders : 
       Sends(i) /\ policy.state = "ReduceOnly" /\ admission[i].decision.approved # 0
         => Abs(Net(broker')) <= Abs(Net(broker))]_admissionVars
=============================================================================
