----------------------------- MODULE RiskEngine -----------------------------
(***************************************************************************)
(* The pre-trade decision (crates/vox-risk/src/engine.rs): a function of a *)
(* policy and a request that carries a snapshot of the account.            *)
(*                                                                         *)
(* evaluate() is a list of early returns; here it is the sequence of its   *)
(* objections, in the order of the code, of which the first one raised     *)
(* decides.  An Option is a set of at most one element.  Lots are checked  *)
(* 64-bit integers, with the bound as a constant; amounts are 128-bit and  *)
(* far from theirs.  Identities and messages are left out.                 *)
(***************************************************************************)
EXTENDS Integers, Sequences

CONSTANT LotBound  \* i64::MAX

ASSUME LotBoundAssumption == LotBound \in Nat \ {0}

Lots == (-LotBound - 1)..LotBound

Abs(n) == IF n < 0 THEN -n ELSE n
Sign(n) == IF n > 0 THEN 1 ELSE IF n < 0 THEN -1 ELSE 0
Smaller(m, n) == IF m <= n THEN m ELSE n

RiskStates == {"Normal", "Warning", "ReduceOnly", "Halted", "KillSwitch"}

DirectionalActions == {"DirectionalOrder", "ReplaceDirectionalOrder"}
CleanupActions == {"CancelOrder", "ProtectionMaintenance", "CancelProtection"}

\* RiskPolicySet::fail_closed and initial_policy: no limit is set, nothing
\* but reductions is allowed.
InitialPolicy ==
  [revision |-> 1, state |-> "ReduceOnly", allow_margin |-> FALSE,
   require_provider_lot_limit |-> TRUE, max_market_data_age |-> {},
   max_single_order_lots |-> {}, max_position_abs_lots |-> {},
   max_gross_exposure |-> {}, max_net_exposure_abs |-> {}, max_instrument_exposure |-> {},
   max_margin_utilization_ppm |-> {}, max_daily_loss |-> {},
   protection_required |-> FALSE, max_unprotected_duration |-> {}]

-----------------------------------------------------------------------------
(* Signed lots.                                                            *)

\* Mutant: a reversal counts as a reduction.
IncreasingPortionSameSide(base, delta) ==
  IF base = 0 \/ Sign(base) = Sign(delta) THEN Abs(delta) ELSE 0

\* How much of delta adds to the position instead of closing it.
IncreasingPortion(base, delta) ==
  CASE delta = 0 -> 0
    [] delta # 0 /\ (base = 0 \/ Sign(base) = Sign(delta)) -> Abs(delta)
    [] OTHER -> IF Abs(delta) > Abs(base) THEN Abs(delta) - Abs(base) ELSE 0

Base(s) == s.position + s.open_orders + s.unknown + s.reserved

\* Every partial sum, the projection and the two magnitudes fit.
Representable(s, delta) ==
  /\ s.position + s.open_orders \in Lots
  /\ s.position + s.open_orders + s.unknown \in Lots
  /\ Base(s) \in Lots
  /\ Base(s) + delta \in Lots
  /\ Abs(delta) \in Lots
  /\ Base(s) # 0 /\ delta # 0 /\ Sign(Base(s)) # Sign(delta) => Abs(Base(s)) \in Lots

-----------------------------------------------------------------------------
(* Protection (RiskProtectionStatus, validate_protection).                 *)

UncoveredAbsLots(c) == Abs(c.position_lots) - Smaller(Abs(c.active_stop_lots), Abs(c.position_lots))
FullCoverage(c) == c.position_lots # 0 /\ UncoveredAbsLots(c) = 0

ProtectionPlanStates ==
  {"Planned", "Submitted", "Active", "PartialCoverage", "FullCoverage", "Cancelled", "Failed", "Stale"}
TerminalPlan(state) == state \in {"Cancelled", "Failed", "Stale"}
PermitsAdditionalExposure(state) == state \in {"Active", "FullCoverage", "PartialCoverage"}

Overdue(p, r) ==
  LET c == r.snapshot.protection
  IN \E cap \in p.max_unprotected_duration, entered \in c.entered_at :
       UncoveredAbsLots(c) > 0 /\ r.now - entered > cap

Protected(c) == (\E state \in c.plan_state : PermitsAdditionalExposure(state)) \/ FullCoverage(c)

-----------------------------------------------------------------------------
(* The limit the broker gives (provider_limit): by side, by whether own    *)
(* money is used and, for purchases, by order type.                        *)

ProviderLimit(p, r) ==
  LET margin == r.confirm_margin_trade
  IN UNION {CASE r.delta > 0 /\ margin -> l.buy_margin[r.is_market_order]
              [] r.delta > 0 /\ ~margin -> l.buy_own[r.is_market_order]
              [] r.delta <= 0 /\ margin -> l.sell_margin
              [] OTHER -> l.sell_own : l \in r.snapshot.broker_lot_limits}

\* The smallest of the request, the policy's cap and the broker's limit.
ApprovedAbs(p, r) ==
  CHOOSE n \in {Abs(r.delta)} \union p.max_single_order_lots \union ProviderLimit(p, r) :
    \A m \in {Abs(r.delta)} \union p.max_single_order_lots \union ProviderLimit(p, r) : n <= m

-----------------------------------------------------------------------------
(* evaluate()                                                              *)

Directional(r) == r.action \in DirectionalActions
Cleanup(r) == r.action \in CleanupActions
Increasing(r) == IncreasingPortion(Base(r.snapshot), r.delta)
Grows(r) == Increasing(r) > 0

\* Halted or killed: emergency reductions and cleanup only.
Stopped(r) == ~(r.emergency_reduction /\ ~Grows(r)) /\ ~Cleanup(r)

Objection(raised, outcome, reason) == [raised |-> raised, outcome |-> outcome, reason |-> reason]

\* What the request and the account must be, whatever the limits.
Admissibility(p, r) ==
  LET s == r.snapshot
  IN << Objection(Directional(r) /\ r.delta = 0, "Reject", "InvalidQuantity"),
        Objection(~Directional(r) /\ r.delta # 0, "Reject", "InvalidQuantity"),
        Objection(Directional(r) /\ s.lot_size <= 0, "Reject", "InstrumentUnavailable"),
        Objection(Directional(r) /\ ~s.instrument_tradable, "Reject", "InstrumentNotTradable"),
        Objection(s.policy_revision # p.revision, "Reject", "PolicyRevisionChanged"),
        Objection(~s.runtime_ready /\ ~Cleanup(r), "Halt", "RuntimeNotReady"),
        Objection(~s.execution_authorized, "Reject", "ExecutionUnauthorized"),
        Objection(s.unknown_conflict /\ ~Cleanup(r), "Halt", "UnknownMutationConflict"),
        Objection(~Representable(s, r.delta), "Error", "ArithmeticOverflow") >>

\* What the risk state forbids.
StateRules(p, r) ==
  << Objection(p.state = "KillSwitch" /\ Stopped(r), "Halt", "KillSwitchActive"),
     Objection(p.state = "Halted" /\ Stopped(r), "Halt", "Halted"),
     Objection(p.state = "ReduceOnly" /\ Grows(r), "ReduceOnly", "ReduceOnly") >>

\* Mutant: protection is asked for before the order is known to add exposure.
FreshnessAlways(p, r) ==
  << Objection(p.protection_required /\ ~Protected(r.snapshot.protection), "Reject", "ProtectionRequired") >>

\* validate_market_data and validate_protection, for new exposure.
Freshness(p, r) ==
  LET s == r.snapshot
      c == s.protection
  IN << Objection(Grows(r) /\ \E age \in p.max_market_data_age : age < 0, "Error", "InvalidPolicy"),
        Objection(Grows(r) /\ p.max_market_data_age # {} /\ s.market_data_as_of = {},
                  "Reject", "MarketDataMissing"),
        Objection(Grows(r) /\ \E age \in p.max_market_data_age, t \in s.market_data_as_of : r.now - t > age,
                  "Reject", "MarketDataStale"),
        Objection(Grows(r) /\ p.protection_required
                    /\ \E cap \in p.max_unprotected_duration : cap < 0 \/ c.entered_at = {},
                  "Error", "InvalidPolicy"),
        Objection(Grows(r) /\ p.protection_required /\ Overdue(p, r), "ReduceOnly", "ProtectionRequired"),
        Objection(Grows(r) /\ p.protection_required /\ ~Protected(c), "Reject", "ProtectionRequired") >>

\* Margin, the day's loss and the position.
CapitalRules(p, r) ==
  LET s == r.snapshot
  IN << Objection(Directional(r) /\ r.confirm_margin_trade /\ ~p.allow_margin, "Reject", "MarginNotAllowed"),
        Objection(Grows(r) /\ \E max \in p.max_margin_utilization_ppm : max <= 0, "Error", "InvalidPolicy"),
        Objection(Grows(r) /\ p.max_margin_utilization_ppm # {}
                    /\ (s.margin = {} \/ \E m \in s.margin : m.liquid <= 0 \/ m.corrected < 0),
                  "Reject", "CriticalInputMissing"),
        Objection(Grows(r) /\ \E max \in p.max_margin_utilization_ppm, m \in s.margin :
                    m.liquid > 0 /\ (m.corrected * 1000000) \div m.liquid > max,
                  "Reject", "MarginUtilizationExceeded"),
        Objection(Grows(r) /\ p.max_daily_loss # {} /\ s.daily_pnl = {}, "Reject", "CriticalInputMissing"),
        Objection(Grows(r) /\ \E max \in p.max_daily_loss : max <= 0, "Error", "InvalidPolicy"),
        Objection(Grows(r) /\ \E max \in p.max_daily_loss, pnl \in s.daily_pnl : pnl < -max,
                  "ReduceOnly", "DailyLossExceeded"),
        Objection(Grows(r) /\ \E max \in p.max_position_abs_lots : Abs(Base(s) + r.delta) > Abs(max),
                  "Reject", "MaxPositionExceeded") >>

\* One exposure limit, on what the exposure would become: the fact is
\* missing, the limit is none, or it is exceeded.
Exposure(r, limit, projected, reason) ==
  << Objection(Grows(r) /\ limit # {} /\ projected = {}, "Reject", "CriticalInputMissing"),
     Objection(Grows(r) /\ \E max \in limit : max <= 0, "Error", "InvalidPolicy"),
     Objection(Grows(r) /\ \E max \in limit, sum \in projected : sum > max, "Reject", reason) >>

ExposureRules(p, r) ==
  LET s == r.snapshot
  IN Exposure(r, p.max_gross_exposure, {x + Abs(r.notional) : x \in s.gross_exposure},
              "MaxGrossExposureExceeded")
     \o Exposure(r, p.max_net_exposure_abs, {Abs(x + r.notional) : x \in s.net_exposure},
                 "MaxNetExposureExceeded")
     \o Exposure(r, p.max_instrument_exposure, {Abs(x + r.notional) : x \in s.instrument_exposure},
                 "MaxInstrumentExposureExceeded")

\* What sizing itself refuses.
SizingRules(p, r) ==
  << Objection(Directional(r) /\ \E max \in p.max_single_order_lots : max <= 0, "Error", "InvalidPolicy"),
     Objection(Directional(r) /\ \E limit \in ProviderLimit(p, r) : limit < 0, "Error", "InvalidProviderFact"),
     Objection(Directional(r) /\ ProviderLimit(p, r) = {} /\ p.require_provider_lot_limit /\ Grows(r),
               "Reject", "ProviderLimitUnavailable"),
     Objection(Directional(r) /\ ApprovedAbs(p, r) = 0, "Reject", "ProviderLimitExceeded") >>

Decision(p, r, outcome, reason, approved) ==
  [outcome |-> outcome, reason |-> reason, action |-> r.action,
   requested |-> r.delta, approved |-> approved, policy_revision |-> p.revision]

\* An order is resized to whichever of the two limits is the smaller one.
Sized(p, r) ==
  LET n == ApprovedAbs(p, r)
  IN CASE ~Directional(r) -> Decision(p, r, "Approve", "Approved", 0)
       [] Directional(r) /\ n = Abs(r.delta) -> Decision(p, r, "Approve", "Approved", r.delta)
       [] OTHER -> Decision(p, r, "Resize",
                     IF \A max \in p.max_single_order_lots : n < max
                     THEN "ResizedToProviderLimit" ELSE "ResizedToPolicyLimit", Sign(r.delta) * n)

Raised(rules) == {i \in DOMAIN rules : rules[i].raised}

First(rules) == CHOOSE i \in Raised(rules) : \A j \in Raised(rules) : i <= j

Objections(p, r) ==
  Admissibility(p, r) \o StateRules(p, r) \o Freshness(p, r)
    \o CapitalRules(p, r) \o ExposureRules(p, r) \o SizingRules(p, r)

Evaluate(p, r) ==
  LET rules == Objections(p, r)
      first == rules[First(rules)]
  IN IF Raised(rules) = {}
     THEN Sized(p, r)
     ELSE Decision(p, r, first.outcome, first.reason, 0)

PermitsDispatch(d) ==
  /\ d.outcome \in {"Approve", "Resize"}
  /\ d.action \in DirectionalActions <=> d.approved # 0

-----------------------------------------------------------------------------
(* RiskApprovedExecutionPlan::from_persisted, without the identities: an   *)
(* order needs an untouched reservation of what was approved, anything     *)
(* else must have none.                                                    *)

FromPersisted(d, reservation, r) ==
  /\ PermitsDispatch(d)
  /\ d.action = r.action
  /\ IF r.action \in DirectionalActions
     THEN \E held \in reservation :
            held.state = "Active" /\ held.reserved = d.approved /\ held.remaining = d.approved
     ELSE reservation = {} /\ d.approved = 0
=============================================================================
