---------------------------- MODULE RiskDecision ----------------------------
(***************************************************************************)
(* RiskEngine against what a decision promises, case by case: a policy and *)
(* a request are chosen, evaluate() decides, admit() reserves what was     *)
(* approved.                                                               *)
(***************************************************************************)
EXTENDS RiskEngine

CONSTANT Cases  \* pairs of a policy and a request

VARIABLES
  asked,   \* the case
  answer   \* {}, or the decision

decisionVars == <<asked, answer>>

DecisionInit == asked \in Cases /\ answer = {}

Decide ==
  /\ answer = {}
  /\ answer' = {Evaluate(asked.policy, asked.request)}
  /\ UNCHANGED asked

-----------------------------------------------------------------------------
(* Properties.                                                             *)

\* The position after any part of an order has traded, on top of everything
\* else that is open or reserved.
After(r, k) == Base(r.snapshot) + Sign(r.delta) * k

\* What is approved is the request or less of it, within the order cap and
\* the broker's limit.  However much of it trades, the position exceeds the
\* limit only if it did already, and in a state that admits no exposure it
\* only shrinks.  The reservation of the approval makes an execution plan.
ApprovalIsSound ==
  \A d \in answer :
    LET p == asked.policy
        r == asked.request
        base == Base(r.snapshot)
    IN PermitsDispatch(d) /\ Directional(r) =>
         /\ Sign(d.approved) = Sign(r.delta)
         /\ \A n \in {Abs(r.delta)} \union p.max_single_order_lots \union ProviderLimit(p, r) : Abs(d.approved) <= n
         /\ \A k \in 0..Abs(d.approved) :
              /\ \A max \in p.max_position_abs_lots : Abs(After(r, k)) <= Abs(base) \/ Abs(After(r, k)) <= Abs(max)
              /\ p.state \notin {"Normal", "Warning"} =>
                   After(r, k) \in IF base > 0 THEN 0..base ELSE base..0
         /\ FromPersisted(d, {[state |-> "Active", reserved |-> d.approved, remaining |-> d.approved]}, r)

\* The account is in order and the request is no objection by itself.
Undisputed(p, r) ==
  LET s == r.snapshot
  IN /\ s.lot_size > 0 /\ s.instrument_tradable /\ s.runtime_ready /\ s.execution_authorized
     /\ ~s.unknown_conflict /\ s.policy_revision = p.revision
     /\ Representable(s, r.delta)
     /\ p.state \in {"Halted", "KillSwitch"} => r.emergency_reduction
     /\ ~r.confirm_margin_trade
     /\ \A n \in p.max_single_order_lots \union ProviderLimit(p, r) : n > 0

\* Whatever the limits, however stale or incomplete the facts about prices,
\* losses, margin and protection: an order that only closes position is let
\* through (RISK_MODEL.md, "Protection").
ReductionsPass ==
  \A d \in answer :
    Directional(asked.request) /\ asked.request.delta # 0 /\ ~Grows(asked.request)
      /\ Undisputed(asked.policy, asked.request)
    => PermitsDispatch(d)
=============================================================================
