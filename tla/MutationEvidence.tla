-------------------------- MODULE MutationEvidence --------------------------
(***************************************************************************)
(* Which evidence settles which mutation: the journal of RuntimeJournal    *)
(* together with the orders and stop orders at the broker, the identity    *)
(* links a call stores with its acknowledgement, the facts the read        *)
(* adapter makes of the provider's answers (vox-tinvest runtime_read.rs),  *)
(* and the reconciler that decides from all these (resolve_mutation,       *)
(* validate_snapshot of vox-runtime reconcile.rs).                         *)
(*                                                                         *)
(* An order or stop order is named by the request that placed it, or is    *)
(* Foreign: placed by somebody else on the same account.  An optional      *)
(* identity is a set with at most one member.                              *)
(***************************************************************************)
EXTENDS RuntimeJournal

CONSTANTS
  Jobs,     \* what a request may be: [kind, target, named]
  Foreign,  \* the order nobody here placed
  Accounts, Quantities  \* account and position facts a snapshot may show

ASSUME ForeignAssumption == Foreign \notin Ids

VARIABLES
  job,          \* the command of each request
  orders,       \* the broker's orders
  stops,        \* the broker's stop orders
  links,        \* broker_identity_links
  pass,         \* where the reconciliation is
  snap,         \* the snapshot it took
  known,        \* the links it listed
  resolution,   \* what it resolved so far
  unresolved,   \* what it could not resolve
  disposition,  \* reconciliation_disposition of the journal rows
  report        \* the state and reason of the last report

market == <<orders, stops>>
readings == <<pass, snap, known, resolution, unresolved>>
evidenceVars == <<vars, job, market, links, readings, disposition, report>>

Names == Ids \cup {Foreign}

MutationKinds ==
  {"PostOrder", "PostOrderAsync", "ReplaceOrder", "CancelOrder",
   "PostStopOrder", "CancelStopOrder", "ProtectionLeg"}

Posts == {"PostOrder", "PostOrderAsync"}
StopPosts == {"PostStopOrder", "ProtectionLeg"}

Kind(id) == job[id].kind

NoLinks == [order |-> {}, replacement |-> {}, stop |-> {}]
NoSnapshot == [orders |-> {}, stops |-> {}, account |-> "Open", quantity |-> 0]
NoReport == [state |-> "None", reason |-> "None"]

EvidenceInit ==
  /\ Init
  /\ job \in [Ids -> Jobs]
  /\ orders = [o \in Names |-> "Absent"]
  /\ stops = [s \in Names |-> "Absent"]
  /\ links = [id \in Ids |-> NoLinks]
  /\ pass = "idle" /\ snap = NoSnapshot
  /\ known = [id \in Ids |-> NoLinks]
  /\ resolution = [id \in Ids |-> {}] /\ unresolved = {}
  /\ disposition = [id \in Ids |-> "None"]
  /\ report = NoReport

-----------------------------------------------------------------------------
(* The broker (external): orders and stop orders move on their own.  A     *)
(* cancel that was accepted may still meet a fill.                         *)

LiveOrder == {"New", "PartiallyFilled", "Unspecified"}
OrderEnds == {"Filled", "Cancelled", "Rejected"}
StopEnds == {"Executed", "Canceled", "Expired"}

OrderMoves(o) ==
  /\ orders[o] \in LiveOrder
  /\ \E s \in {"PartiallyFilled", "Unspecified"} \cup OrderEnds : orders' = [orders EXCEPT ![o] = s]
  /\ UNCHANGED <<vars, job, stops, links, readings, disposition, report>>

StopMoves(s) ==
  /\ stops[s] = "Active"
  /\ \E e \in StopEnds : stops' = [stops EXCEPT ![s] = e]
  /\ UNCHANGED <<vars, job, orders, links, readings, disposition, report>>

ForeignPlaced ==
  /\ \/ orders[Foreign] = "Absent" /\ orders' = [orders EXCEPT ![Foreign] = "New"] /\ UNCHANGED stops
     \/ stops[Foreign] = "Absent" /\ stops' = [stops EXCEPT ![Foreign] = "Active"] /\ UNCHANGED orders
  /\ UNCHANGED <<vars, job, links, readings, disposition, report>>

\* What an accepted request does; a refused order may leave a record.
Accepted(id) ==
  LET t == job[id].target IN
  \/ Kind(id) \in Posts /\ orders' = [orders EXCEPT ![id] = "New"] /\ UNCHANGED stops
  \/ /\ Kind(id) = "ReplaceOrder" /\ orders[t] \in LiveOrder
     /\ orders' = [orders EXCEPT ![t] = "Cancelled", ![id] = "New"] /\ UNCHANGED stops
  \/ Kind(id) = "CancelOrder" /\ orders[t] \in LiveOrder /\ UNCHANGED market
  \/ Kind(id) \in StopPosts /\ stops' = [stops EXCEPT ![id] = "Active"] /\ UNCHANGED orders
  \/ Kind(id) = "CancelStopOrder" /\ stops[t] = "Active" /\ UNCHANGED market

Refused(id) ==
  \/ Kind(id) \in Posts /\ orders' = [orders EXCEPT ![id] = "Rejected"] /\ UNCHANGED stops
  \/ UNCHANGED market

BrokerDecides(id) ==
  /\ Decide(id)
  /\ IF verdict'[id] = "accepted" THEN Accepted(id) ELSE Refused(id)
  /\ UNCHANGED <<job, links, readings, disposition, report>>

-----------------------------------------------------------------------------
(* Identity links.                                                         *)

\* dispatch_once of the runtime adapter: the identities an acknowledgement
\* carries; the provider may leave out the one it assigned.
AckLinks(id) ==
  LET t == job[id].target IN
  CASE Kind(id) = "PostOrder" -> {[NoLinks EXCEPT !.order = {id}], NoLinks}
    [] Kind(id) = "ReplaceOrder" -> {[NoLinks EXCEPT !.replacement = {id}], NoLinks}
    [] Kind(id) = "CancelOrder" /\ job[id].named = "broker" -> {[NoLinks EXCEPT !.order = {t}]}
    [] Kind(id) \in StopPosts -> {[NoLinks EXCEPT !.stop = {id}], NoLinks}
    [] Kind(id) = "CancelStopOrder" -> {[NoLinks EXCEPT !.stop = {t}]}
    [] OTHER -> {NoLinks}

Coalesce(new, old) == IF new = {} THEN old ELSE new

\* upsert_links
Upserted(old, new) ==
  [order |-> Coalesce(new.order, old.order),
   replacement |-> Coalesce(new.replacement, old.replacement),
   stop |-> Coalesce(new.stop, old.stop)]

UpsertIdentityLinks(w) ==
  /\ Link(w)
  /\ IF VerifyEpoch(owner)
     THEN \E l \in AckLinks(req[w]) : links' = [links EXCEPT ![req[w]] = Upserted(@, l)]
     ELSE UNCHANGED links
  /\ UNCHANGED <<job, market, readings, disposition, report>>

-----------------------------------------------------------------------------
(* Facts: what the read adapter makes of the provider's answers.           *)

\* order_status, stop_status
OrderStatus(value) == IF value = "Unspecified" THEN "UnknownProviderStatus" ELSE value
StopStatus(value) == IF value = "Unspecified" THEN "UnknownProviderStatus" ELSE value

\* order_fact: the provider returns the request id an order was placed with.
OrderFact(o) == [order |-> o, request |-> {o} \cap Ids, status |-> OrderStatus(orders[o])]

\* active_orders
ActiveOrders == {OrderFact(o) : o \in {p \in Names : orders[p] \in LiveOrder}}

\* stop_orders: all active ones, and those that ended in the time asked for.
StopOrders(ended) ==
  {[stop |-> s, status |-> StopStatus(stops[s])] :
     s \in {p \in Names : stops[p] = "Active"} \cup {p \in ended : stops[p] \in StopEnds}}

\* order_state: by the broker's id if there is one, else by the request's.
OrderState(id, broker) ==
  {OrderFact(o) : o \in {p \in (IF broker = {} THEN {id} ELSE broker) : orders[p] # "Absent"}}

\* accounts
Accessible(account) == account = "Open"

-----------------------------------------------------------------------------
(* resolve_mutation.                                                       *)

OrderDispositions ==
  [New |-> "OrderActiveNew", PartiallyFilled |-> "OrderActivePartial", Filled |-> "OrderFilled",
   Cancelled |-> "OrderCancelled", Rejected |-> "OrderRejected"]

\* Mutant: any status of the order settles a cancel.
OrderDispositionOfAny(kind, status) ==
  {OrderDispositions[s] : s \in {status} \cap DOMAIN OrderDispositions}

\* order_disposition: a cancel is settled by the end of its order only.
OrderDisposition(kind, status) ==
  {OrderDispositions[s] :
     s \in {status} \cap (IF kind = "CancelOrder" THEN OrderEnds ELSE DOMAIN OrderDispositions)}

StopDispositions ==
  [Active |-> "StopActive", Executed |-> "StopExecuted", Canceled |-> "StopCanceled", Expired |-> "StopExpired"]

StopDisposition(kind, status) ==
  {StopDispositions[s] :
     s \in {status} \cap (IF kind = "CancelStopOrder" THEN StopEnds ELSE DOMAIN StopDispositions)}

OrderEvidenceResolves(id, fact) ==
  LET logical == id \in fact.request
      original == fact.order \in known[id].order
      replacement == fact.order \in known[id].replacement
  IN \/ Kind(id) \in Posts /\ (logical \/ original)
     \/ Kind(id) = "ReplaceOrder" /\ (logical \/ replacement)
     \/ /\ Kind(id) = "CancelOrder" /\ (original \/ replacement)
        /\ OrderDisposition(Kind(id), fact.status) # {}

\* The broker id asked for; an order kind without one is asked for by its
\* request id, which no cancel ever placed an order with.
BrokerId(id) ==
  IF Kind(id) = "ReplaceOrder" \/ known[id].replacement # {} THEN known[id].replacement ELSE known[id].order

LinkOrder(id, o) ==
  IF Kind(id) = "ReplaceOrder" THEN [known[id] EXCEPT !.replacement = {o}] ELSE [known[id] EXCEPT !.order = {o}]

FromOrders(id, facts) ==
  UNION {{[disposition |-> d, links |-> LinkOrder(id, f.order)] : d \in OrderDisposition(Kind(id), f.status)} :
           f \in facts}

\* Direct evidence first, then the active orders, then the stop orders.  The
\* adapter's operations carry neither an order nor a request id, and no
\* stream events are handed in, so neither resolves anything.
Resolutions(id, direct) ==
  LET read == {f \in direct : OrderEvidenceResolves(id, f)}
      active == {f \in snap.orders : Kind(id) # "CancelOrder" /\ OrderEvidenceResolves(id, f)}
      stop == {f \in snap.stops : f.stop \in known[id].stop /\ StopDisposition(Kind(id), f.status) # {}}
  IN IF read # {} THEN FromOrders(id, read)
     ELSE IF active # {} THEN FromOrders(id, active)
     ELSE UNION {{[disposition |-> d, links |-> known[id]] : d \in StopDisposition(Kind(id), f.status)} : f \in stop}

\* Only the four order kinds are read directly; the provider may not find
\* what it has.
ResolveMutation(id) ==
  /\ pass = "resolving" /\ recStage = "reading" /\ id \in todo
  /\ todo' = todo \ {id}
  /\ \E direct \in {OrderState(id, BrokerId(id)), {}} :
       LET r == Resolutions(id, IF Kind(id) \in Posts \cup {"ReplaceOrder", "CancelOrder"} THEN direct ELSE {}) IN
       IF r = {} THEN unresolved' = unresolved \cup {id} /\ UNCHANGED <<found, resolution>>
       ELSE /\ \E x \in r : resolution' = [resolution EXCEPT ![id] = {x}]
            /\ found' = found \cup {id} /\ UNCHANGED unresolved
  /\ UNCHANGED <<storeVars, owner, callVars, brokerVars, recStage>>
  /\ UNCHANGED <<job, market, links, pass, snap, known, disposition, report>>

-----------------------------------------------------------------------------
(* The pass.                                                               *)

\* The reads of the account; from now on the facts age.
Snapshot ==
  /\ pass = "idle" /\ owner # 0
  /\ \E ended \in SUBSET {s \in Names : stops[s] \in StopEnds}, account \in Accounts, quantity \in Quantities :
       snap' = [orders |-> ActiveOrders, stops |-> StopOrders(ended), account |-> account, quantity |-> quantity]
  /\ pass' = "snapshot"
  /\ UNCHANGED <<vars, job, market, links, known, resolution, unresolved, disposition, report>>

ListJournal ==
  /\ pass = "snapshot" /\ ListUnresolved
  /\ pass' = "listed"
  /\ UNCHANGED <<job, market, links, snap, known, resolution, unresolved, disposition, report>>

\* all_identity_links
ListLinks ==
  /\ pass = "listed"
  /\ known' = links /\ pass' = "resolving"
  /\ UNCHANGED <<vars, job, market, links, snap, resolution, unresolved, disposition, report>>

ReconciledLinks(id) == IF resolution[id] = {} THEN known[id] ELSE (CHOOSE r \in resolution[id] : TRUE).links

LinkedOrders == UNION {ReconciledLinks(id).order \cup ReconciledLinks(id).replacement : id \in Ids}
LinkedStops == UNION {ReconciledLinks(id).stop : id \in Ids}

\* validate_snapshot; nothing in the crates records a position expectation.
Discrepancies ==
  {d \in {"account", "order", "stop", "position"} :
     \/ d = "account" /\ ~Accessible(snap.account)
     \/ d = "order" /\ \E f \in snap.orders : f.status \in {"New", "PartiallyFilled"} /\ f.order \notin LinkedOrders
     \/ d = "stop" /\ \E f \in snap.stops : f.status = "Active" /\ f.stop \notin LinkedStops
     \/ d = "position" /\ \E f \in snap.stops : f.status = "Active" /\ snap.quantity = 0}

\* discrepancy_reason: doubt first, then by what the discrepancies are about.
Reason ==
  CASE unresolved # {} -> "UnknownMutation"
    [] unresolved = {} /\ "account" \in Discrepancies -> "AccountUnavailable"
    [] unresolved = {} /\ Discrepancies \cap {"account", "position"} = {"position"} -> "BrokerPositionConflict"
    [] unresolved = {} /\ Discrepancies \cap {"account", "position", "order"} = {"order"} -> "BrokerOrderConflict"
    [] unresolved = {} /\ Discrepancies = {"stop"} -> "BrokerStopConflict"
    [] OTHER -> "ReconciliationComplete"

\* The pass is over and its readings are gone.
Over ==
  /\ pass' = "idle" /\ snap' = NoSnapshot
  /\ known' = [id \in Ids |-> NoLinks]
  /\ resolution' = [id \in Ids |-> {}] /\ unresolved' = {}

\* commit_reconciliation: rows, links and checkpoint in one transaction.
CommitEvidence ==
  /\ pass = "resolving" /\ Commit
  /\ links' = [id \in Ids |-> IF id \in found THEN Upserted(links[id], ReconciledLinks(id)) ELSE links[id]]
  /\ disposition' = [id \in Ids |-> IF id \in found THEN (CHOOSE r \in resolution[id] : TRUE).disposition
                                    ELSE disposition[id]]
  /\ report' = [state |-> IF Discrepancies = {} /\ unresolved = {} THEN "Ready" ELSE "Halted", reason |-> Reason]
  /\ Over
  /\ UNCHANGED <<job, market>>

Forgotten == Over /\ UNCHANGED <<job, market, links, disposition, report>>

\* A read or the commit fails.
AbandonEvidence ==
  /\ pass # "idle"
  /\ IF recStage = "reading" THEN Abandon ELSE UNCHANGED vars
  /\ Forgotten

-----------------------------------------------------------------------------
CallStep(w) ==
  \/ \E id \in Ids : Begin(w, id)
  \/ Withdraw(w) \/ Insert(w) \/ InsertRefused(w) \/ Claim(w) \/ ClaimRefused(w)
  \/ Send(w) \/ SendRefused(w) \/ Answer(w) \/ NoAnswer(w) \/ Finish(w) \/ FinishRefused(w)

EvidenceNext ==
  \/ (Crash \/ Shutdown) /\ Forgotten
  \/ (Start \/ Exit \/ \E w \in Workers : CallStep(w)) /\ UNCHANGED <<job, market, links, readings, disposition, report>>
  \/ \E w \in Workers : UpsertIdentityLinks(w)
  \/ \E id \in Ids : Lose(id) /\ UNCHANGED <<job, market, links, readings, disposition, report>>
  \/ \E id \in Ids : BrokerDecides(id) \/ ResolveMutation(id)
  \/ \E o \in Names : OrderMoves(o) \/ StopMoves(o)
  \/ ForeignPlaced
  \/ Snapshot \/ ListJournal \/ ListLinks \/ CommitEvidence \/ AbandonEvidence

EvidenceSpec == EvidenceInit /\ [][EvidenceNext]_evidenceVars
-----------------------------------------------------------------------------
(* Properties.                                                             *)

\* What a mutation is about: a cancel, the order it names.
About(id) == IF Kind(id) \in {"CancelOrder", "CancelStopOrder"} THEN job[id].target ELSE id

\* The disposition is what the broker did, and will stay so.
Holds(id, d) ==
  IF Kind(id) \in StopPosts \cup {"CancelStopOrder"}
  THEN /\ stops[About(id)] # "Absent"
       /\ Kind(id) = "CancelStopOrder" => stops[About(id)] \in StopEnds
       /\ \A s \in StopEnds : d = StopDispositions[s] => stops[About(id)] = s
  ELSE /\ orders[About(id)] # "Absent"
       /\ Kind(id) = "CancelOrder" => orders[About(id)] \in OrderEnds
       /\ \A s \in OrderEnds : d = OrderDispositions[s] => orders[About(id)] = s

\* A mutation is reconciled only by evidence of itself: a post, replacement
\* or stop by the order it placed, a cancel by the end of the order it names,
\* whatever else was placed, cancelled or replaced since the snapshot, and
\* no identity is linked to a request that is not about it
\* (resolve_mutation, order_evidence_resolves, upsert_links).
EvidenceIsSound ==
  \A id \in Ids :
    /\ disposition[id] # "None" => journal[id] = "Reconciled" /\ Holds(id, disposition[id])
    /\ links[id].order \cup links[id].replacement \cup links[id].stop \subseteq {About(id)}

\* The reconciler implements the readback of RuntimeJournal: whatever it
\* resolves was decided by the broker.
EvidenceImplementsJournal == Spec
=============================================================================
