------------------------------- MODULE MCRisk -------------------------------
(* The reservation ledger, production admission, the decisions of the risk *)
(* engine and the conversion of commands, each on its own.                 *)
EXTENDS RiskLedger, MCRiskAdmission, RiskDecision, MCOrderConversion

VARIABLE machine

machineVars == <<vars, admissionVars, decisionVars, conversionVars, machine>>

OrderLotsValue == {-1, 1, 2}

-----------------------------------------------------------------------------
(* Decisions: limits of every kind, at most one of them with a fact that is *)
(* missing, stale or broken.                                               *)

Limited ==
  [InitialPolicy EXCEPT !.max_daily_loss = {5}, !.max_gross_exposure = {5},
                        !.max_net_exposure_abs = {4}, !.max_instrument_exposure = {4},
                        !.max_market_data_age = {1}, !.max_margin_utilization_ppm = {500000},
                        !.protection_required = TRUE, !.max_unprotected_duration = {1}]

CasePolicies ==
  {[Limited EXCEPT !.state = state, !.require_provider_lot_limit = require,
                   !.max_single_order_lots = cap, !.max_position_abs_lots = max] :
     state \in RiskStates, require \in BOOLEAN, cap \in {{}, {1}}, max \in {{}, {2}}}

Limits(n) == [buy_own |-> [m \in BOOLEAN |-> {IF m THEN n + 1 ELSE n}], buy_margin |-> [m \in BOOLEAN |-> {}],
              sell_own |-> {n}, sell_margin |-> {}]

Sound(position) ==
  [runtime_ready |-> TRUE, execution_authorized |-> TRUE, instrument_tradable |-> TRUE, lot_size |-> 1,
   unknown_conflict |-> FALSE, position |-> position, open_orders |-> 0, unknown |-> 0, reserved |-> 0,
   gross_exposure |-> {2}, net_exposure |-> {-1}, instrument_exposure |-> {1}, daily_pnl |-> {-5},
   market_data_as_of |-> {2}, broker_lot_limits |-> {Limits(2)},
   margin |-> {[liquid |-> 2, corrected |-> 1]},
   protection |-> [active_stop_lots |-> -position, position_lots |-> position, entered_at |-> {1},
                   plan_state |-> {"Active"}],
   policy_revision |-> 1]

Faults(s) ==
  {s,
   [s EXCEPT !.runtime_ready = FALSE], [s EXCEPT !.execution_authorized = FALSE],
   [s EXCEPT !.instrument_tradable = FALSE], [s EXCEPT !.lot_size = 0],
   [s EXCEPT !.unknown_conflict = TRUE], [s EXCEPT !.policy_revision = 2],
   [s EXCEPT !.open_orders = -1], [s EXCEPT !.reserved = 2],
   [s EXCEPT !.gross_exposure = {}], [s EXCEPT !.gross_exposure = {4}],
   [s EXCEPT !.net_exposure = {}], [s EXCEPT !.instrument_exposure = {4}],
   [s EXCEPT !.daily_pnl = {}], [s EXCEPT !.daily_pnl = {-6}],
   [s EXCEPT !.market_data_as_of = {}], [s EXCEPT !.market_data_as_of = {0}],
   [s EXCEPT !.broker_lot_limits = {}], [s EXCEPT !.broker_lot_limits = {Limits(0)}],
   [s EXCEPT !.broker_lot_limits = {Limits(1)}], [s EXCEPT !.broker_lot_limits = {Limits(-2)}],
   [s EXCEPT !.margin = {}], [s EXCEPT !.margin = {[liquid |-> 1, corrected |-> 1]}],
   [s EXCEPT !.protection.entered_at = {}], [s EXCEPT !.protection.plan_state = {}],
   [s EXCEPT !.protection.active_stop_lots = 0, !.protection.entered_at = {0}],
   [s EXCEPT !.protection.active_stop_lots = 0, !.protection.plan_state = {}]}

Request(action, delta, market, emergency, s) ==
  [action |-> action, delta |-> delta, notional |-> delta, is_market_order |-> market,
   confirm_margin_trade |-> FALSE, emergency_reduction |-> emergency, now |-> 2, snapshot |-> s]

Requests ==
  UNION {{Request("DirectionalOrder", delta, market, emergency, s) :
            delta \in -3..3, market \in {position = 1}, emergency \in BOOLEAN, s \in Faults(Sound(position))}
         \union {Request("CancelOrder", delta, FALSE, FALSE, s) : delta \in 0..1, s \in Faults(Sound(position))}
         : position \in -2..2}

CasesValue == {[policy |-> p, request |-> r] : p \in CasePolicies, r \in Requests}

-----------------------------------------------------------------------------
AtRest == [policy |-> InitialPolicy, request |-> Request("CancelOrder", 0, FALSE, FALSE, Sound(0))]

Unconverted ==
  stage = "received" /\ outgoing = {} /\ approved = 0 /\ recorded = {} /\ posted = {}

Untouched ==
  /\ asked = AtRest /\ answer = {}
  /\ submitted = Market /\ Unconverted

Still == AdmissionInit /\ policy = InitialPolicy /\ broker.units = 0

MachineInit ==
  /\ Init
  /\ \/ machine = "ledger" /\ Still /\ Untouched
     \/ machine = "admission" /\ AdmissionInit /\ Untouched
     \/ /\ machine = "decision" /\ Still /\ DecisionInit
        /\ submitted = Market /\ Unconverted
     \/ machine = "conversion" /\ Still /\ ConversionInit /\ asked = AtRest /\ answer = {}

MachineNext ==
  /\ \/ machine = "ledger" /\ Next /\ UNCHANGED <<admissionVars, decisionVars, conversionVars>>
     \/ machine = "admission" /\ AdmissionNext /\ UNCHANGED <<vars, decisionVars, conversionVars>>
     \/ machine = "decision" /\ Decide /\ UNCHANGED <<vars, admissionVars, conversionVars>>
     \/ machine = "conversion" /\ ConversionNext /\ UNCHANGED <<vars, admissionVars, decisionVars>>
  /\ UNCHANGED machine

RiskSpec == MachineInit /\ [][MachineNext]_machineVars
=============================================================================
