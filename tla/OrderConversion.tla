--------------------------- MODULE OrderConversion ---------------------------
(***************************************************************************)
(* What a command turns into on its way to the broker: the HTTP handlers   *)
(* and ExecutionPort of the public API (vox-api, vox-core                  *)
(* production_runtime.rs) or a strategy give the runtime a command, the    *)
(* coordinator applies the approved quantity and records the evidence, and *)
(* the adapter (vox-tinvest execution.rs) validates the command, builds    *)
(* the provider's request and audits it.                                   *)
(*                                                                         *)
(* An optional field is a set of at most one value.  Sides, directions and *)
(* positions are 1 (buy, long) and -1 (sell, short).  Texts other than the *)
(* request's identity are taken to be present.                             *)
(***************************************************************************)
EXTENDS RiskAdmission

CONSTANTS
  Submissions,  \* public requests, and commands of strategies
  Uuids,        \* the identities that are UUIDs
  OpenLots      \* lots of the orders in the report, by order

VARIABLES
  submitted,  \* the request
  stage,      \* how far it has come
  outgoing,   \* {}, or the runtime's command
  approved,   \* lots risk approved
  recorded,   \* {}, or the evidence in the journal
  posted      \* {}, or the request to the provider

conversionVars == <<submitted, stage, outgoing, approved, recorded, posted>>

ConversionInit ==
  /\ submitted \in Submissions
  /\ stage = "received"
  /\ outgoing = {} /\ approved = 0 /\ recorded = {} /\ posted = {}

OrderKinds == {"RegularOrder", "PostOrderAsync"}
StopKinds == {"PostStopOrder", "ProtectionLeg"}

-----------------------------------------------------------------------------
(* The public API.  Each operator is the set of commands, empty when the   *)
(* request is refused.                                                     *)

Ok(valid, c) == IF valid THEN {c} ELSE {}

\* Exactly one identity names the order.
CancelTarget(s) ==
  IF s.logical = {} THEN {[id |-> i, idKind |-> "BrokerOrder"] : i \in s.broker}
  ELSE IF s.broker = {} THEN {[id |-> i, idKind |-> "ClientRequest"] : i \in s.logical}
  ELSE {}

SubmitOrder(s) ==
  Ok(s.quantity > 0 /\ ~s.protection,
     [kind |-> "RegularOrder", id |-> s.id, side |-> s.side, quantity |-> s.quantity, type |-> s.type,
      price |-> s.price, tif |-> {s.tif}, convention |-> s.convention, margin |-> s.margin])

CancelOrder(s) ==
  {[kind |-> "CancelOrder", target |-> t.id, idKind |-> {t.idKind}] : t \in CancelTarget(s)}

ReplaceOrder(s) ==
  {[kind |-> "ReplaceOrder", id |-> s.id, target |-> t.id, idKind |-> {t.idKind}, quantity |-> s.quantity,
    price |-> s.price, convention |-> s.convention, margin |-> s.margin] :
     t \in {t \in CancelTarget(s) : s.quantity > 0 /\ s.price # {}}}

CancelStopOrder(s) ==
  {[kind |-> "CancelStopOrder", target |-> t.id] : t \in {t \in CancelTarget(s) : t.idKind = "BrokerOrder"}}

\* A leg; for a trailing stop the trigger is its activation price.
Leg(form, trigger, limit, distance, spread, instant) ==
  [form |-> form, trigger |-> trigger, limit |-> limit, distance |-> distance, spread |-> spread,
   instant |-> instant]

LegCommand(kind, s, leg) ==
  [kind |-> kind, id |-> s.id, quantity |-> s.quantity, position |-> s.position, reference |-> s.reference,
   seconds |-> {}, nanos |-> {}, convention |-> s.convention, margin |-> s.margin, leg |-> leg]

SubmitStopOrder(s) ==
  Ok(s.quantity > 0, LegCommand("PostStopOrder", s, Leg("Fixed", s.trigger, s.limit, {}, {}, {})))

\* Exactly one leg for each durable mutation.
ExactProtectionLeg(p) ==
  LET stop == p.stop # {} \/ p.trailing # {}
      profit == p.profit # {} \/ p.limit # {}
  IN IF stop = profit THEN {}
     ELSE IF profit THEN {Leg("TakeProfit", p.profit, p.limit, {}, {}, {})}
     ELSE IF p.trailing = {} THEN {Leg("Fixed", p.stop, {}, {}, {}, {})}
     ELSE IF p.stop = {} THEN {Leg("Trailing", {}, {}, p.trailing, {}, {})}
     ELSE {}

SubmitProtection(s) == {LegCommand("ProtectionLeg", s, leg) : leg \in ExactProtectionLeg(s.plan)}

\* dispatch_automated takes the command as it is.
CommandOf(s) ==
  CASE s.kind = "SubmitOrder" -> SubmitOrder(s)
    [] s.kind = "CancelOrder" -> CancelOrder(s)
    [] s.kind = "ReplaceOrder" -> ReplaceOrder(s)
    [] s.kind = "SubmitStopOrder" -> SubmitStopOrder(s)
    [] s.kind = "CancelStopOrder" -> CancelStopOrder(s)
    [] s.kind = "SubmitProtection" -> SubmitProtection(s)
    [] s.kind = "Automated" -> {s.command}

Handle ==
  /\ stage = "received"
  /\ outgoing' = CommandOf(submitted)
  /\ stage' = IF outgoing' = {} THEN "refused" ELSE "commanded"
  /\ UNCHANGED <<submitted, approved, recorded, posted>>

-----------------------------------------------------------------------------
(* The coordinator.                                                        *)

\* A cancellation has no identity of its own.
RequestIdentity(c) == IF c.kind \in OrderKinds \union StopKinds \union {"ReplaceOrder"} THEN {c.id} ELSE {}

\* Mutant: the quantity of the command is left as it was.
KeepQuantity(c, lots) ==
  IF c.kind \in OrderKinds THEN Ok(Sign(lots) = c.side, c)
  ELSE IF c.kind = "ReplaceOrder" THEN {c}
  ELSE Ok(lots = 0, c)

ApplyRiskApproval(c, lots) ==
  IF c.kind \in OrderKinds THEN Ok(Sign(lots) = c.side, [c EXCEPT !.quantity = Abs(lots)])
  ELSE IF c.kind = "ReplaceOrder" THEN {[c EXCEPT !.quantity = Abs(lots)]}
  ELSE Ok(lots = 0, c)

\* What risk may approve of a command (ApprovalIsSound): all or a part of it.
Approvals(c) ==
  LET delta == Description(c, OpenLots).delta
  IN IF delta = 0 THEN {0} ELSE {Sign(delta) * n : n \in 1..Abs(delta)}

ApplyApproval ==
  /\ stage = "commanded"
  /\ \E c \in outgoing :
       \/ /\ \/ \E i \in RequestIdentity(c) : i # submitted.id
             \/ c.kind \in OrderKinds \union {"ReplaceOrder"} /\ c.quantity <= 0
             \/ c.kind = "ReplaceOrder" /\ OpenLots[c.target] = 0
          /\ stage' = "refused"
          /\ UNCHANGED <<outgoing, approved>>
       \/ /\ \A i \in RequestIdentity(c) : i = submitted.id
          /\ c.kind \in OrderKinds \union {"ReplaceOrder"} => c.quantity > 0
          /\ c.kind = "ReplaceOrder" => OpenLots[c.target] # 0
          /\ approved' \in Approvals(c)
          /\ outgoing' = ApplyRiskApproval(c, approved')
          /\ stage' = IF outgoing' = {} THEN "refused" ELSE "approved"
  /\ UNCHANGED <<submitted, recorded, posted>>

Evidence(c) ==
  CASE c.kind \in OrderKinds -> [quantity |-> {c.quantity}, price |-> c.price # {}, protection |-> {}]
    [] c.kind = "ReplaceOrder" -> [quantity |-> {c.quantity}, price |-> TRUE, protection |-> {}]
    [] c.kind \in StopKinds ->
         [quantity |-> {c.quantity},
          price |-> c.leg.trigger # {} \/ c.leg.limit # {},
          protection |-> {IF c.leg.form = "TakeProfit" THEN "TakeProfit" ELSE "StopLoss"}]
    [] OTHER -> [quantity |-> {}, price |-> FALSE, protection |-> {}]

\* MutationRecord::prepared, before the fence.
Record ==
  /\ stage = "approved"
  /\ \E c \in outgoing :
       IF \A n \in Evidence(c).quantity : n > 0
       THEN stage' = "fenced" /\ recorded' = {Evidence(c)}
       ELSE stage' = "refused" /\ UNCHANGED recorded
  /\ UNCHANGED <<submitted, outgoing, approved, posted>>

-----------------------------------------------------------------------------
(* The adapter: regular orders.                                            *)

Positive(prices) == \A p \in prices : p > 0

ValidRegularPrice(type, price) == (type = "Limit") = (price # {}) /\ Positive(price)

ValidIdKind(c) == c.idKind = {"ClientRequest"} => c.target \in Uuids

RegularOrderRequest(c) ==
  Ok(/\ c.id \in Uuids
     /\ c.quantity > 0
     /\ ValidRegularPrice(c.type, c.price)
     /\ c.type = "Limit" \/ c.tif = {},
     [call |-> IF c.kind = "RegularOrder" THEN "PostOrder" ELSE "PostOrderAsync", id |-> c.id,
      direction |-> c.side, quantity |-> c.quantity, price |-> c.price, type |-> c.type, tif |-> c.tif,
      convention |-> c.convention, margin |-> c.margin])

ReplaceOrderRequest(c) ==
  Ok(c.id \in Uuids /\ ValidIdKind(c) /\ c.quantity > 0 /\ Positive(c.price),
     [call |-> "ReplaceOrder", id |-> c.id, target |-> c.target, idKind |-> c.idKind, quantity |-> c.quantity,
      price |-> c.price, convention |-> c.convention, margin |-> c.margin])

CancelOrderRequest(c) ==
  Ok(ValidIdKind(c), [call |-> "CancelOrder", target |-> c.target, idKind |-> c.idKind])

CancelStopOrderRequest(c) == {[call |-> "CancelStopOrder", target |-> c.target]}

-----------------------------------------------------------------------------
(* The adapter: stop orders.                                               *)

ClosingDirection(position) == IF position = 1 THEN -1 ELSE 1

\* protection_leg_request: nanoseconds without seconds are refused.
ExpireAt(c) ==
  IF c.seconds = {} THEN Ok(c.nanos = {}, "GoodTillCancel")
  ELSE Ok(\A n \in c.nanos : n \in 0..999999999, "GoodTillDate")

\* The price has not reached the activation yet.
PendingActivation(c) ==
  \A t \in c.leg.trigger :
    /\ c.reference > 0 /\ t > 0
    /\ IF c.position = 1 THEN t > c.reference ELSE t < c.reference

ValidLeg(c) ==
  CASE c.leg.form = "Fixed" -> TRUE
    [] c.leg.form = "Trailing" ->
         (c.leg.trigger = {}) = (c.leg.instant = {TRUE}) /\ PendingActivation(c)
    [] c.leg.form = "TakeProfit" ->
         c.leg.trigger # {} /\ (c.leg.distance # {} => PendingActivation(c))

\* TINVEST_PROTECTION_CAPABILITY: everything, natively.
Capability ==
  [fixed_stop |-> TRUE, native_trailing |-> {"RelativePercent", "AbsolutePrice"}, take_profit |-> TRUE,
   stop_limit |-> TRUE]

Capable(leg) ==
  /\ leg.form = "Fixed" => Capability.fixed_stop
  /\ leg.form = "TakeProfit" => Capability.take_profit
  /\ leg.limit # {} => Capability.stop_limit
  /\ \A d \in leg.distance : d.mode \in Capability.native_trailing

\* quotation, trailing_request
Quotable(leg) ==
  /\ Positive(leg.limit) /\ Positive(leg.trigger)
  /\ \A d \in leg.distance \union leg.spread : d.value > 0

\* A trailing stop is the provider's TAKE_PROFIT with a trailing indent.
StopOrderType(leg) ==
  IF leg.form # "Fixed" THEN "TakeProfit" ELSE IF leg.limit # {} THEN "StopLimit" ELSE "StopLoss"

TakeProfitType(leg) ==
  IF leg.distance # {} THEN "Trailing" ELSE IF leg.form = "TakeProfit" THEN "Regular" ELSE "Unspecified"

Audit(w) ==
  LET trailing == w.takeProfit = "Trailing"
  IN /\ w.quantity > 0 /\ w.id \in Uuids
     /\ Positive(w.price) /\ Positive(w.stop)
     /\ ~trailing => w.instant = {} /\ w.indent = {}
     /\ trailing => /\ w.stopType = "TakeProfit"
                    /\ w.exchange = "Market" /\ w.price = {}
                    /\ (w.stop = {}) = (w.instant = {TRUE})
                    /\ w.indent # {}
                    /\ \A d \in w.indent \union w.spread : d.value > 0

ProtectionLegRequest(c) ==
  {w \in {[call |-> "PostStopOrder", id |-> c.id, direction |-> ClosingDirection(c.position),
           quantity |-> c.quantity, price |-> c.leg.limit, stop |-> c.leg.trigger, expiration |-> e,
           stopType |-> StopOrderType(c.leg), takeProfit |-> TakeProfitType(c.leg),
           exchange |-> IF c.leg.limit # {} THEN "Limit" ELSE "Market",
           indent |-> c.leg.distance, spread |-> c.leg.spread, instant |-> c.leg.instant,
           convention |-> c.convention, margin |-> c.margin] : e \in ExpireAt(c)} :
     Capable(c.leg) /\ c.quantity > 0 /\ c.id \in Uuids /\ ValidLeg(c) /\ Quotable(c.leg) /\ Audit(w)}

-----------------------------------------------------------------------------
RequestOf(c) ==
  CASE c.kind \in OrderKinds -> RegularOrderRequest(c)
    [] c.kind = "ReplaceOrder" -> ReplaceOrderRequest(c)
    [] c.kind = "CancelOrder" -> CancelOrderRequest(c)
    [] c.kind = "CancelStopOrder" -> CancelStopOrderRequest(c)
    [] c.kind \in StopKinds -> ProtectionLegRequest(c)

\* dispatch_once: an invalid command is rejected, behind its fence.
Post ==
  /\ stage = "fenced"
  /\ \E c \in outgoing : posted' = RequestOf(c)
  /\ stage' = IF posted' = {} THEN "rejected" ELSE "posted"
  /\ UNCHANGED <<submitted, outgoing, approved, recorded>>

ConversionNext == Handle \/ ApplyApproval \/ Record \/ Post

ConversionSpec == ConversionInit /\ [][ConversionNext]_conversionVars

-----------------------------------------------------------------------------
(* Properties.                                                             *)

Asked == IF submitted.kind = "Automated" THEN submitted.command ELSE submitted

\* An order trades the side that was asked and exactly what was approved.
OrderMeans(w) ==
  w.call \in {"PostOrder", "PostOrderAsync"} =>
    /\ w.direction = Asked.side /\ w.direction * w.quantity = approved
    /\ w.quantity \in 1..Asked.quantity
    /\ w.price = Asked.price /\ (w.price # {}) = (w.type = "Limit")

\* A stop closes the position it protects, something triggers it, and what
\* trails has not been reached yet.
StopMeans(w) ==
  w.call = "PostStopOrder" =>
    /\ w.direction = -Asked.position /\ w.quantity = Asked.quantity
    /\ w.stop # {} \/ w.instant = {TRUE}
    /\ (w.exchange = "Limit") = (w.price # {})
    /\ (w.stopType = "StopLimit") => w.price # {}
    /\ w.indent # {} => \A t \in w.stop : Asked.position * (t - Asked.reference) > 0

\* What goes to the broker is what was asked and approved, under the identity
\* it was asked with, and the journal has recorded that much of it
\* (ExecutionPort, apply_risk_approval, dispatch_once).
SentMeansAsked ==
  \A w \in posted :
    /\ OrderMeans(w) /\ StopMeans(w)
    /\ w.call \in {"PostOrder", "PostOrderAsync", "ReplaceOrder", "PostStopOrder"} =>
         w.id = submitted.id /\ \A e \in recorded : e.quantity = {w.quantity}
    /\ w.call = "ReplaceOrder" => Sign(OpenLots[w.target]) * w.quantity = approved /\ w.price = Asked.price

\* A market order needs no price (SubmitOrderRequest): one with a quantity
\* and a proper identity is not turned away.
MarketOrdersGoOut ==
  stage \in {"refused", "rejected"} =>
    ~(/\ submitted.kind = "SubmitOrder" /\ submitted.type = "Market" /\ submitted.price = {}
      /\ submitted.quantity > 0 /\ submitted.id \in Uuids /\ ~submitted.protection)
=============================================================================
