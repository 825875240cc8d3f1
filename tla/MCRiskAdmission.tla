-------------------------- MODULE MCRiskAdmission --------------------------
(* RiskAdmission for an account with a position limit and for one with the *)
(* initial policy: purchases, sales, a replacement and a cancellation.     *)
EXTENDS RiskAdmission

Command(kind, side, quantity, target) ==
  [kind |-> kind, side |-> side, quantity |-> quantity, target |-> target, market |-> FALSE, margin |-> FALSE]

CommandsValue ==
  {Command("RegularOrder", side, 1, "o1") : side \in {-1, 1}}
    \union {Command("ReplaceOrder", 0, 2, "o1"), Command("CancelOrder", 0, 0, "o1")}

PoliciesValue == {InitialPolicy, [InitialPolicy EXCEPT !.state = "Normal", !.max_position_abs_lots = {2}]}
PositionsValue == {0, 1}
=============================================================================
