--------------------------- MODULE RuntimeJournal ---------------------------
(***************************************************************************)
(* How a capital mutation is fenced, sent once and settled                 *)
(* (dispatch_with_permit and finish_mutation of coordinator.rs, reconcile  *)
(* of reconcile.rs, over the transactions of RuntimeStore), while workers  *)
(* interleave, the process crashes or is shut down and restarts, and the   *)
(* broker answers, answers late, or never gets the request.                *)
(*                                                                         *)
(* Admission (the gate and the risk decision) is left open here: a worker  *)
(* may attempt any request, its own or one somebody else is dispatching,   *)
(* at any time.  CapitalDispatch puts the admission path in front.         *)
(***************************************************************************)
EXTENDS RuntimeStore

CONSTANTS
  Workers,   \* concurrent dispatch calls
  MaxEpoch   \* bound on the number of times the runtime is started

ASSUME MaxEpochAssumption == MaxEpoch \in Nat

VARIABLES
  owner,    \* epoch of the process that holds the store's file lock, 0: nobody
  stage,    \* where each dispatch call is
  req,      \* the logical request it dispatches
  wire,     \* requests handed to the transport and not yet at the broker
  sends,    \* transport attempts made for each request, over all restarts
  verdict,  \* what the broker did with each request
  recStage, \* where the reconciliation pass is
  todo,     \* unresolved requests it has not read back yet
  found     \* unresolved requests the broker's answer resolves

callVars == <<stage, req>>
brokerVars == <<wire, sends, verdict>>
recVars == <<recStage, todo, found>>
vars == <<epoch, lease, journal, owner, stage, req, wire, sends, verdict,
          recStage, todo, found>>

Stages == {"idle", "insert", "claim", "send", "await", "link", "ack", "reject"}

\* Stages of a call whose insert_mutation has committed.
Inserted == {"claim", "send", "await", "link", "ack", "reject"}

TypeOK ==
  /\ StoreTypeOK
  /\ owner \in Nat
  /\ stage \in [Workers -> Stages]
  /\ req \in [Workers -> Ids]
  /\ wire \subseteq Ids
  /\ sends \in [Ids -> Nat]
  /\ verdict \in [Ids -> {"none", "accepted", "refused"}]
  /\ recStage \in {"idle", "reading"}
  /\ todo \subseteq Ids
  /\ found \subseteq Ids

Init ==
  /\ StoreInit
  /\ owner = 0
  /\ stage = [w \in Workers |-> "idle"]
  /\ req \in [Workers -> Ids]
  /\ wire = {}
  /\ sends = [id \in Ids |-> 0]
  /\ verdict = [id \in Ids |-> "none"]
  /\ recStage = "idle" /\ todo = {} /\ found = {}

Goto(w, s) == stage' = [stage EXCEPT ![w] = s] /\ UNCHANGED req

-----------------------------------------------------------------------------
(* Ownership, crash, shutdown.                                             *)

\* SqliteRuntimeStore::open takes the file lock, start() the next epoch.
Start ==
  /\ owner = 0
  /\ epoch < MaxEpoch
  /\ AcquireOwnership
  /\ owner' = epoch + 1
  /\ UNCHANGED <<callVars, brokerVars, recVars>>

\* The process dies: its calls and its reconciliation are gone, the lock is
\* free, what is on the wire still travels.
Crash ==
  /\ owner # 0
  /\ owner' = 0
  /\ stage' = [w \in Workers |-> "idle"]
  /\ recStage' = "idle" /\ todo' = {} /\ found' = {}
  /\ UNCHANGED <<storeVars, req, brokerVars>>

\* shutdown(): the drain has a deadline, so calls may still be in flight when
\* the tasks that reconcile are aborted and the lease is given back.
Shutdown ==
  /\ owner # 0
  /\ ReleaseOwnership(owner)
  /\ recStage' = "idle" /\ todo' = {} /\ found' = {}
  /\ UNCHANGED <<owner, callVars, brokerVars>>

\* The last handle on the store is dropped and with it the file lock.
Exit ==
  /\ owner # 0
  /\ ~lease
  /\ \A w \in Workers : stage[w] = "idle"
  /\ owner' = 0
  /\ UNCHANGED <<storeVars, callVars, brokerVars, recVars>>

-----------------------------------------------------------------------------
(* One dispatch call.                                                      *)

\* ensure_execution_allowed ends by verifying the epoch.
Begin(w, id) ==
  /\ stage[w] = "idle"
  /\ owner # 0
  /\ VerifyEpoch(owner)
  /\ stage' = [stage EXCEPT ![w] = "insert"]
  /\ req' = [req EXCEPT ![w] = id]
  /\ UNCHANGED <<storeVars, owner, brokerVars, recVars>>

\* Admission ends without a dispatch: risk denies it, no execution slot is
\* free, or the revalidation before the fence finds the approval stale.
Withdraw(w) ==
  /\ stage[w] = "insert"
  /\ Goto(w, "idle")
  /\ UNCHANGED <<storeVars, owner, brokerVars, recVars>>

Insert(w) ==
  /\ stage[w] = "insert"
  /\ InsertMutation(req[w], owner)
  /\ Goto(w, "claim")
  /\ UNCHANGED <<owner, brokerVars, recVars>>

\* DuplicateMutation (the row exists, or the table is full) or StaleEpoch.
InsertRefused(w) ==
  /\ stage[w] = "insert"
  /\ ~CanInsert(req[w], owner)
  /\ Goto(w, "idle")
  /\ UNCHANGED <<storeVars, owner, brokerVars, recVars>>

\* Mutant: the request is sent before the fence is written.
ClaimLater(w) ==
  /\ stage[w] = "claim"
  /\ Goto(w, "send")
  /\ UNCHANGED <<storeVars, owner, brokerVars, recVars>>

Claim(w) ==
  /\ stage[w] = "claim"
  /\ ClaimDispatchUnknown(req[w], owner)
  /\ Goto(w, "send")
  /\ UNCHANGED <<owner, brokerVars, recVars>>

\* StaleEpoch: the row stays NotDispatched for good.
ClaimRefused(w) ==
  /\ stage[w] = "claim"
  /\ ~CanTransition(req[w], {"NotDispatched"}, owner)
  /\ Goto(w, "idle")
  /\ UNCHANGED <<storeVars, owner, brokerVars, recVars>>

\* dispatch_once: the one transport attempt.
Send(w) ==
  /\ stage[w] = "send"
  /\ wire' = wire \union {req[w]}
  /\ sends' = [sends EXCEPT ![req[w]] = @ + 1]
  /\ Goto(w, "await")
  /\ UNCHANGED <<storeVars, owner, verdict, recVars>>

\* dispatch_once fails before anything is sent: a request the adapter cannot
\* build is reported Rejected; a session it cannot open is an error, which
\* the coordinator treats as unknown, leaving the row in doubt.
SendRefused(w) ==
  /\ stage[w] = "send"
  /\ \E s \in {"reject", "idle"} : Goto(w, s)
  /\ UNCHANGED <<storeVars, owner, brokerVars, recVars>>

Answer(w) ==
  /\ stage[w] = "await"
  /\ \/ verdict[req[w]] = "accepted" /\ Goto(w, "link")
     \/ verdict[req[w]] = "refused" /\ Goto(w, "reject")
  /\ UNCHANGED <<storeVars, owner, brokerVars, recVars>>

\* Mutant: a timeout is taken for a rejection.
NoAnswerRejects(w) ==
  /\ stage[w] = "await"
  /\ Goto(w, "reject")
  /\ UNCHANGED <<storeVars, owner, brokerVars, recVars>>

\* Timeout or transport loss, whatever became of the request: the row keeps
\* the UNKNOWN it was fenced with.
NoAnswer(w) ==
  /\ stage[w] = "await"
  /\ Goto(w, "idle")
  /\ UNCHANGED <<storeVars, owner, brokerVars, recVars>>

\* upsert_identity_links, before the outcome is recorded.
Link(w) ==
  /\ stage[w] = "link"
  /\ Goto(w, IF VerifyEpoch(owner) THEN "ack" ELSE "idle")
  /\ UNCHANGED <<storeVars, owner, brokerVars, recVars>>

Outcome(w) == IF stage[w] = "ack" THEN "Acknowledged" ELSE "Rejected"

\* finish_mutation.
Finish(w) ==
  /\ stage[w] \in {"ack", "reject"}
  /\ TransitionMutation(req[w], {"UnknownAfterDispatch"}, Outcome(w), owner)
  /\ Goto(w, "idle")
  /\ UNCHANGED <<owner, brokerVars, recVars>>

\* InvalidMutationTransition (a reconciliation settled it first) or StaleEpoch.
FinishRefused(w) ==
  /\ stage[w] \in {"ack", "reject"}
  /\ ~CanTransition(req[w], {"UnknownAfterDispatch"}, owner)
  /\ Goto(w, "idle")
  /\ UNCHANGED <<storeVars, owner, brokerVars, recVars>>

-----------------------------------------------------------------------------
(* The broker and the network (external).                                  *)

Decide(id) ==
  /\ id \in wire
  /\ wire' = wire \ {id}
  /\ \E v \in {"accepted", "refused"} : verdict' = [verdict EXCEPT ![id] = v]
  /\ UNCHANGED <<storeVars, owner, callVars, sends, recVars>>

Lose(id) ==
  /\ id \in wire
  /\ wire' = wire \ {id}
  /\ UNCHANGED <<storeVars, owner, callVars, sends, verdict, recVars>>

-----------------------------------------------------------------------------
(* One reconciliation pass at a time (reconciliation_guard).               *)

ListUnresolved ==
  /\ recStage = "idle"
  /\ owner # 0
  /\ VerifyEpoch(owner)
  /\ recStage' = "reading"
  /\ todo' = UnresolvedMutations
  /\ found' = {}
  /\ UNCHANGED <<storeVars, owner, callVars, brokerVars>>

\* resolve_mutation: without exact broker evidence a request stays
\* unresolved; with it, an unknown provider status may still leave it so.
ReadBack(id) ==
  /\ recStage = "reading"
  /\ id \in todo
  /\ todo' = todo \ {id}
  /\ \/ verdict[id] # "none" /\ found' = found \union {id}
     \/ UNCHANGED found
  /\ UNCHANGED <<storeVars, owner, callVars, brokerVars, recStage>>

Commit ==
  /\ recStage = "reading"
  /\ todo = {}
  /\ CommitReconciliation(found, owner)
  /\ recStage' = "idle" /\ found' = {}
  /\ UNCHANGED <<owner, callVars, brokerVars, todo>>

\* A row was finished by its own call meanwhile, or the epoch is stale: the
\* whole transaction is dropped and the runtime halts.  A failed broker read
\* ends the pass the same way.
Abandon ==
  /\ recStage = "reading"
  /\ recStage' = "idle" /\ todo' = {} /\ found' = {}
  /\ UNCHANGED <<storeVars, owner, callVars, brokerVars>>

-----------------------------------------------------------------------------
Next ==
  \/ Start \/ Crash \/ Shutdown \/ Exit
  \/ \E w \in Workers :
       \/ \E id \in Ids : Begin(w, id)
       \/ Withdraw(w) \/ Insert(w) \/ InsertRefused(w) \/ Claim(w) \/ ClaimRefused(w)
       \/ Send(w) \/ SendRefused(w) \/ Answer(w) \/ NoAnswer(w)
       \/ Link(w) \/ Finish(w) \/ FinishRefused(w)
  \/ \E id \in Ids : Decide(id) \/ Lose(id) \/ ReadBack(id)
  \/ ListUnresolved \/ Commit \/ Abandon

Spec == Init /\ [][Next]_vars

-----------------------------------------------------------------------------
(* Properties.                                                             *)

\* A logical request is handed to the transport at most once, over every
\* retry by a caller, crash and restart ("exactly one transport attempt").
AtMostOneSend == \A id \in Ids : sends[id] <= 1

\* Nothing reaches the wire or the broker for a request whose row could still
\* be taken for never dispatched, so a restart cannot mistake it.
FencedBeforeSend ==
  \A id \in Ids :
    journal[id] \in {Absent, "NotDispatched"} =>
      sends[id] = 0 /\ id \notin wire /\ verdict[id] = "none"

\* A terminal row tells the truth about the broker: acknowledged orders were
\* accepted, rejected ones can no longer be accepted (also not by a request
\* still on the wire), reconciled ones were decided.
OutcomeFaithful ==
  \A id \in Ids :
    /\ journal[id] = "Acknowledged" => verdict[id] = "accepted"
    /\ journal[id] = "Rejected" =>
         verdict[id] # "accepted" /\ id \notin wire
    /\ journal[id] = "Reconciled" => verdict[id] # "none"

\* A row only moves forward: doubt never returns to not-dispatched, and an
\* outcome, once recorded, is never replaced by another.
Forward(s) ==
  CASE s = Absent -> {Absent, "NotDispatched"}
    [] s = "NotDispatched" -> {"NotDispatched", "UnknownAfterDispatch"}
    [] s = "UnknownAfterDispatch" -> {"UnknownAfterDispatch"} \union TerminalStates
    [] OTHER -> {s}

JournalMovesForward == [][\A id \in Ids : journal'[id] \in Forward(journal[id])]_vars

\* Why the above hold.  A row that is absent or not dispatched has had no
\* effect; whoever is past its insert is alone on its request; a request is
\* on the wire or decided only after its single transmission; the answer a
\* call is about to record, and what a pass found, agree with the broker.
UntouchedBeforeFence ==
  \A id \in Ids :
    /\ journal[id] \in {Absent, "NotDispatched"} => sends[id] = 0
    /\ sends[id] = 0 => id \notin wire /\ verdict[id] = "none"

OneCallPerRequest ==
  \A v, w \in Workers :
    stage[v] \in Inserted /\ stage[w] \in Inserted /\ req[v] = req[w] => v = w

CallAgreesWithRow ==
  \A w \in Workers :
    /\ stage[w] \in Inserted => journal[req[w]] # Absent
    /\ stage[w] = "claim" => journal[req[w]] = "NotDispatched"
    /\ stage[w] = "send" =>
         journal[req[w]] = "UnknownAfterDispatch" /\ sends[req[w]] = 0

CallAgreesWithBroker ==
  \A w \in Workers :
    /\ stage[w] \in {"link", "ack"} => verdict[req[w]] = "accepted"
    /\ stage[w] = "reject" =>
         \/ verdict[req[w]] = "refused"
         \/ sends[req[w]] = 0 /\ journal[req[w]] = "UnknownAfterDispatch"

WireUndecided == \A id \in wire : verdict[id] = "none"

ReadBackAgreesWithBroker == \A id \in found : verdict[id] # "none"

RejectedForGood ==
  \A id \in Ids : journal[id] = "Rejected" => verdict[id] = "refused" \/ sends[id] = 0

DispatchInvariant ==
  /\ TypeOK
  /\ AtMostOneSend
  /\ UntouchedBeforeFence
  /\ OneCallPerRequest
  /\ CallAgreesWithRow
  /\ CallAgreesWithBroker
  /\ WireUndecided
  /\ ReadBackAgreesWithBroker
  /\ RejectedForGood
  /\ OutcomeFaithful

\* The runtime implements the mutation contract.
Contract == INSTANCE MutationContract WITH
  phase <- journal,
  sent <- {id \in Ids : sends[id] > 0}

ImplementsContract == Contract!Spec
=============================================================================
