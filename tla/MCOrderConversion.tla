-------------------------- MODULE MCOrderConversion --------------------------
(* Requests and commands with every form of leg, every combination of      *)
(* optional fields, and prices around the reference price.                 *)
EXTENDS OrderConversion

Opt(S) == {{}} \union {{e} : e \in S}

Sides == {-1, 1}
Prices == 0..3
Types == {"Limit", "Market", "BestPrice"}

Submit(id, side, type, quantity, price, protection) ==
  [kind |-> "SubmitOrder", id |-> id, side |-> side, type |-> type, quantity |-> quantity, price |-> price,
   tif |-> "Day", protection |-> protection, convention |-> "Currency", margin |-> FALSE]

Market == Submit("u", 1, "Market", 1, {}, FALSE)

Targets == [broker : Opt({"o1"}), logical : Opt({"o1", "o2"})]

OnTarget(kind, t, quantity, price) ==
  [kind |-> kind, id |-> "u", broker |-> t.broker, logical |-> t.logical, quantity |-> quantity, price |-> price,
   convention |-> "Currency", margin |-> FALSE]

StopOrder(position, quantity, trigger, limit) ==
  [kind |-> "SubmitStopOrder", id |-> "u", position |-> position, quantity |-> quantity, reference |-> 2,
   trigger |-> {trigger}, limit |-> limit, convention |-> "Points", margin |-> TRUE]

Distances == {[value |-> v, mode |-> "RelativePercent"] : v \in {0, 1}}

Protection(position, quantity, plan) ==
  [kind |-> "SubmitProtection", id |-> "u", position |-> position, quantity |-> quantity, reference |-> 2,
   plan |-> plan, convention |-> "Currency", margin |-> FALSE]

ProtectionPlans == [stop : Opt({1}), trailing : Opt(Distances), profit : Opt({3}), limit : Opt({3})]

Public ==
  {Submit(id, side, type, n, price, protection) :
     id \in {"u", "text"}, side \in Sides, type \in Types, n \in 0..2, price \in Opt(Prices), protection \in BOOLEAN}
  \union {OnTarget(kind, t, n, price) :
            kind \in {"CancelOrder", "CancelStopOrder", "ReplaceOrder"}, t \in Targets, n \in 0..2, price \in Opt({0, 1})}
  \union {StopOrder(position, n, trigger, limit) :
            position \in Sides, n \in 0..1, trigger \in Prices, limit \in Opt({0, 1})}
  \union {Protection(position, n, plan) : position \in Sides, n \in 0..1, plan \in ProtectionPlans}

\* Strategies hand over commands themselves, under an identity of their own.
Legs ==
  {Leg("Fixed", {1}, {}, {}, {}, {})}
  \union {Leg("Trailing", trigger, {}, {d}, spread, instant) :
            trigger \in Opt(Prices), d \in Distances, spread \in Opt(Distances), instant \in Opt(BOOLEAN)}
  \union {Leg("TakeProfit", trigger, limit, distance, {}, {}) :
            trigger \in Opt(Prices), limit \in Opt({1}), distance \in Opt(Distances)}

LegOf(position, reference, seconds, nanos, leg) ==
  [kind |-> "ProtectionLeg", id |-> "u", quantity |-> 1, position |-> position, reference |-> reference,
   seconds |-> seconds, nanos |-> nanos, convention |-> "Currency", margin |-> FALSE, leg |-> leg]

Strategic ==
  {LegOf(position, reference, {}, {}, leg) : position \in Sides, reference \in {0, 2}, leg \in Legs}
  \union {LegOf(1, 2, seconds, nanos, Leg("Fixed", {1}, {}, {}, {}, {})) :
            seconds \in Opt({1}), nanos \in Opt({-1, 0, 1000000000})}
  \union {[kind |-> kind, id |-> "u", side |-> side, quantity |-> 2, type |-> type, price |-> price, tif |-> tif,
           convention |-> "Currency", margin |-> FALSE] :
            kind \in {"RegularOrder", "PostOrderAsync"}, side \in Sides, type \in Types, price \in Opt({1}),
            tif \in Opt({"Day"})}

SubmissionsValue ==
  Public \union {[kind |-> "Automated", id |-> id, command |-> c] : id \in {"u", "text"}, c \in Strategic}

OpenLotsValue == [i \in Orders |-> IF i = "o1" THEN 2 ELSE -1]
=============================================================================
