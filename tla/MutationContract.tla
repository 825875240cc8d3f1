-------------------------- MODULE MutationContract --------------------------
(***************************************************************************)
(* What the runtime promises about one capital mutation, with no process,  *)
(* epoch, crash or message in sight: a request is recorded, put in doubt,  *)
(* transmitted at most once while in doubt, acted upon by the broker at    *)
(* most once, and leaves doubt only with an outcome the broker's verdict   *)
(* justifies.  RuntimeJournal implements this specification.               *)
(***************************************************************************)
CONSTANTS Ids

VARIABLES
  phase,   \* what the runtime records of each request
  sent,    \* the requests handed to the transport
  verdict  \* what the broker did with it

vars == <<phase, sent, verdict>>

Init ==
  /\ phase = [id \in Ids |-> "Absent"]
  /\ sent = {}
  /\ verdict = [id \in Ids |-> "none"]

Record(id) ==
  /\ phase[id] = "Absent"
  /\ phase' = [phase EXCEPT ![id] = "NotDispatched"]
  /\ UNCHANGED <<sent, verdict>>

Fence(id) ==
  /\ phase[id] = "NotDispatched"
  /\ phase' = [phase EXCEPT ![id] = "UnknownAfterDispatch"]
  /\ UNCHANGED <<sent, verdict>>

Transmit(id) ==
  /\ phase[id] = "UnknownAfterDispatch"
  /\ id \notin sent
  /\ sent' = sent \union {id}
  /\ UNCHANGED <<phase, verdict>>

\* The broker may act long after the runtime stopped waiting for it.
Decide(id) ==
  /\ id \in sent
  /\ verdict[id] = "none"
  /\ \E v \in {"accepted", "refused"} : verdict' = [verdict EXCEPT ![id] = v]
  /\ UNCHANGED <<phase, sent>>

Acknowledge(id) ==
  /\ phase[id] = "UnknownAfterDispatch"
  /\ verdict[id] = "accepted"
  /\ phase' = [phase EXCEPT ![id] = "Acknowledged"]
  /\ UNCHANGED <<sent, verdict>>

\* A refusal of the broker, or of the adapter before anything was sent.
Reject(id) ==
  /\ phase[id] = "UnknownAfterDispatch"
  /\ verdict[id] = "refused" \/ id \notin sent
  /\ phase' = [phase EXCEPT ![id] = "Rejected"]
  /\ UNCHANGED <<sent, verdict>>

\* Any number of doubtful requests settled together by broker readback.
Reconcile(S) ==
  /\ \A id \in S : phase[id] = "UnknownAfterDispatch" /\ verdict[id] # "none"
  /\ phase' = [id \in Ids |-> IF id \in S THEN "Reconciled" ELSE phase[id]]
  /\ UNCHANGED <<sent, verdict>>

Next ==
  \/ \E id \in Ids :
       \/ Record(id) \/ Fence(id) \/ Transmit(id) \/ Decide(id)
       \/ Acknowledge(id) \/ Reject(id)
  \/ \E S \in SUBSET Ids : Reconcile(S)

Spec == Init /\ [][Next]_vars
=============================================================================
