------------------------ MODULE LedgerAndCallProofs -------------------------
(***************************************************************************)
(* Theorems about RiskLedger, for any number of requests, threads and lots,*)
(* and about BrokerCalls, for any number of calls and any jobs: one copy of*)
(* a mutation goes out, verdicts are sound, delays are kept.  The two      *)
(* components share nothing but this module.                               *)
(***************************************************************************)
EXTENDS RiskLedger, BrokerCalls, TLAPS

-----------------------------------------------------------------------------
(* The reservation ledger.                                                 *)

USE DEF Idle, Held, Settled, ReservationStates, NoRow

\* No reservation, nothing pending.
LEMMA InitLedger == Init => LedgerInvariant
  BY DEF Init, RiskInit, LedgerInvariant, TypeOK, RiskTypeOK, RemainingIsBacked,
         PendingUpdatesAreBacked, AbsLots, SameSide

\* persist_approval reserves what was approved.
LEMMA ApproveStep ==
  ASSUME LedgerInvariant, NEW id \in Ids, NEW lots \in OrderLots, Approve(id, lots)
  PROVE  LedgerInvariant'
  <1>1. lots \in Int /\ lots # 0
    BY ONLY LotsAssumption
  <1>2. TypeOK'
    BY <1>1 DEF LedgerInvariant, TypeOK, RiskTypeOK, Approve, PersistApproval
  <1>3. RemainingIsBacked'
    BY <1>1 DEF LedgerInvariant, TypeOK, RiskTypeOK, Approve, PersistApproval,
                RemainingIsBacked, AbsLots, SameSide
  <1>4. PendingUpdatesAreBacked'
    BY <1>1 DEF LedgerInvariant, TypeOK, RiskTypeOK, Approve, PersistApproval,
                PendingUpdatesAreBacked, Plans
  <1> QED BY ONLY <1>2, <1>3, <1>4 DEF LedgerInvariant

-----------------------------------------------------------------------------
(* What every reconciler operation may ask of the store.                   *)

Sound(id, plan) ==
  /\ plan \in [kind : {"update"}, expected : SUBSET ReservationStates,
               remaining : Int, target : ReservationStates]
  /\ plan.expected \subseteq Held
  /\ \/ resv[id].state \in Settled
     \/ /\ plan.target \in Held <=> plan.remaining # 0
        /\ plan.remaining # 0 => SameSide(plan.remaining, resv[id].reserved)
        /\ AbsLots(plan.remaining) <= AbsLots(resv[id].reserved)

\* A thread that read a row has a sound update in hand.
LEMMA ReadStep ==
  ASSUME LedgerInvariant, NEW c \in Callers, NEW id \in Ids, NEW plan,
         Sound(id, plan), Read(c, id, plan)
  PROVE  LedgerInvariant'
  <1>1. TypeOK'
    BY DEF LedgerInvariant, TypeOK, RiskTypeOK, Read, Sound, Plans
  <1>2. RemainingIsBacked'
    BY DEF LedgerInvariant, RemainingIsBacked, Read
  <1>3. PendingUpdatesAreBacked'
    BY DEF LedgerInvariant, TypeOK, PendingUpdatesAreBacked, Read, Sound
  <1> QED BY ONLY <1>1, <1>2, <1>3 DEF LedgerInvariant

\* What each reconciler operation asks for is sound for the row it read.
LEMMA PlansAreSound ==
  ASSUME LedgerInvariant, NEW id \in Ids, NEW n \in Int, resv[id].state # "None",
         NEW plan \in { ProvenPreDispatchFailure(resv[id]), UnknownAfterDispatch(resv[id]),
                        OrphanFailClosed(resv[id]),
                        BrokerAuthoritativeNoRemainingExposure(resv[id]),
                        BrokerAuthoritativeReject(resv[id]),
                        AuthoritativeFill(resv[id], n), RuntimeReconciliation(resv[id], n) },
         plan.kind = "update"
  PROVE  Sound(id, plan)
  <1> DEFINE row == resv[id]
  <1>1. /\ row.state \in ReservationStates
        /\ row.reserved \in Int /\ row.remaining \in Int
        /\ row.state \in Held <=> row.remaining # 0
        /\ row.remaining # 0 => SameSide(row.remaining, row.reserved)
        /\ AbsLots(row.remaining) <= AbsLots(row.reserved)
    BY DEF LedgerInvariant, TypeOK, RiskTypeOK, RemainingIsBacked
  <1> HIDE DEF row
  <1>2. CASE plan = ProvenPreDispatchFailure(row)
    BY ONLY <1>1, <1>2 DEF Sound, ProvenPreDispatchFailure, Update, AbsLots, SameSide, row
  <1>3. CASE plan = UnknownAfterDispatch(row)
    BY <1>1, <1>3 DEF Sound, UnknownAfterDispatch, Nothing, Update, row
  <1>4. CASE plan = OrphanFailClosed(row)
    BY <1>1, <1>4 DEF Sound, OrphanFailClosed, Nothing, Update, row
  <1>5. CASE plan = BrokerAuthoritativeNoRemainingExposure(row)
    BY <1>1, <1>5 DEF Sound, BrokerAuthoritativeNoRemainingExposure, Nothing, Update,
                      AbsLots, SameSide, row
  <1>6. CASE plan = BrokerAuthoritativeReject(row)
    BY <1>1, <1>6 DEF Sound, BrokerAuthoritativeReject, Nothing, Update,
                      AbsLots, SameSide, row
  <1>7. CASE plan = AuthoritativeFill(row, n)
    BY <1>1, <1>7 DEF Sound, AuthoritativeFill, Refusal, Update, Remains, Fillable,
                      AbsLots, SameSide, row
  <1>8. CASE plan = RuntimeReconciliation(row, n)
    BY <1>1, <1>8 DEF Sound, RuntimeReconciliation, Refusal, Update, Remains, Fillable,
                      AbsLots, SameSide, row
  <1> QED BY ONLY <1>2, <1>3, <1>4, <1>5, <1>6, <1>7, <1>8 DEF row

\* A sound update keeps the ledger backed, whoever wrote in between.
LEMMA WriteStep ==
  ASSUME LedgerInvariant, NEW c \in Callers, Write(c)
  PROVE  LedgerInvariant'
  <1>1. TypeOK'
    BY DEF LedgerInvariant, TypeOK, RiskTypeOK, Write, UpdateReservation, Plans
  <1>2. RemainingIsBacked'
    BY DEF LedgerInvariant, TypeOK, RiskTypeOK, Write, UpdateReservation, Plans,
           RemainingIsBacked, PendingUpdatesAreBacked
  <1>3. PendingUpdatesAreBacked'
    BY DEF LedgerInvariant, TypeOK, RiskTypeOK, Write, UpdateReservation, Plans,
           PendingUpdatesAreBacked
  <1> QED BY ONLY <1>1, <1>2, <1>3 DEF LedgerInvariant

\* Every step keeps the ledger backed.
LEMMA LedgerStep == LedgerInvariant /\ [Next]_vars => LedgerInvariant'
  <1> SUFFICES ASSUME LedgerInvariant, [Next]_vars PROVE LedgerInvariant'
    OBVIOUS
  <1>1. CASE UNCHANGED vars
    BY <1>1 DEF vars, LedgerInvariant, TypeOK, RiskTypeOK, RemainingIsBacked,
                PendingUpdatesAreBacked
  <1>2. ASSUME NEW id \in Ids, NEW lots \in OrderLots, Approve(id, lots)
        PROVE  LedgerInvariant'
    BY <1>2, ApproveStep
  <1>3. ASSUME NEW c \in Callers, Write(c)
        PROVE  LedgerInvariant'
    BY <1>3, WriteStep
  <1>4. ASSUME NEW c \in Callers, NEW id \in Ids, NEW n \in Int,
               \/ PreDispatchFailure(c, id) \/ Unknown(c, id) \/ Orphan(c, id)
               \/ NoRemainingExposure(c, id) \/ Reject(c, id)
               \/ Fill(c, id, n) \/ Reconcile(c, id, n)
        PROVE  LedgerInvariant'
    <2>1. PICK plan \in { ProvenPreDispatchFailure(resv[id]), UnknownAfterDispatch(resv[id]),
                          OrphanFailClosed(resv[id]),
                          BrokerAuthoritativeNoRemainingExposure(resv[id]),
                          BrokerAuthoritativeReject(resv[id]),
                          AuthoritativeFill(resv[id], n), RuntimeReconciliation(resv[id], n) } :
               Read(c, id, plan)
      BY ONLY <1>4, Zenon DEF PreDispatchFailure, Unknown, Orphan, NoRemainingExposure, Reject, Fill,
                  Reconcile
    <2>2. resv[id].state # "None" /\ plan.kind = "update"
      BY ONLY <2>1 DEF Read
    <2>3. Sound(id, plan)
      BY <2>1, <2>2, PlansAreSound
    <2> QED BY <2>1, <2>3, ReadStep
  <1>5. 0 \in Int /\ Quantities \subseteq Int
    BY ONLY LotsAssumption DEF Quantities
  <1> QED BY <1>1, <1>2, <1>3, <1>4, <1>5 DEF Next

-----------------------------------------------------------------------------
LEMMA LedgerInvariantHolds == Spec => []LedgerInvariant
  BY InitLedger, LedgerStep, PTL DEF Spec

\* At every moment, for any number of threads inside reconciler operations, a
\* reservation holds capacity exactly while it has lots left, on the side and
\* within the quantity that was approved.
THEOREM ReservationsAreBacked == Spec => []RemainingIsBacked
  <1>1. LedgerInvariant => RemainingIsBacked
    BY DEF LedgerInvariant
  <1> QED BY <1>1, LedgerInvariantHolds, PTL

\* No step changes a settled row.
LEMMA SettledStep ==
  ASSUME LedgerInvariant, [Next]_vars, NEW id \in Ids, resv[id].state \in Settled
  PROVE  resv'[id] = resv[id]
  <1>1. CASE UNCHANGED resv
    BY ONLY <1>1
  <1>2. ASSUME NEW i \in Ids, NEW lots \in OrderLots, Approve(i, lots)
        PROVE  resv'[id] = resv[id]
    BY <1>2 DEF LedgerInvariant, TypeOK, RiskTypeOK, Approve, PersistApproval
  <1>3. ASSUME NEW c \in Callers, Write(c)
        PROVE  resv'[id] = resv[id]
    BY <1>3 DEF LedgerInvariant, TypeOK, RiskTypeOK, Plans, Write, UpdateReservation,
                PendingUpdatesAreBacked
  <1> QED BY <1>1, <1>2, <1>3 DEF Next, vars, Read, PreDispatchFailure, Unknown, Orphan,
                                  NoRemainingExposure, Reject, Fill, Reconcile

\* A consumed or released reservation is never changed again.
THEOREM SettlementIsFinal == Spec => SettledForGood
  <1>1. LedgerInvariant /\ [Next]_vars
          => [\A id \in Ids : resv[id].state \in Settled => resv'[id] = resv[id]]_vars
    BY ONLY SettledStep
  <1> QED BY <1>1, LedgerInvariantHolds, PTL DEF Spec, SettledForGood

HIDE DEF Idle, Held, Settled, ReservationStates, NoRow

-----------------------------------------------------------------------------
(* Calls to the broker.                                                    *)

Verdicts ==
  {"none", "dropped", "Accepted", "Rejected", "Ok", "Error", "EnvironmentMismatch",
   "ReconciliationRequired", "StoreError", "IdentityError", "PortError", "UnknownAfterDispatch",
   "InvalidMethodPath", "MethodMismatch", "RequestInvalid", "Connect", "Timeout", "Transport",
   "ResponseBody", "ResponseTooLarge", "Http4xx", "Http5xx",
   "ResponseDecode"}

CallRecord ==
  [pc : {"start", "claim", "adapter", "send", "await", "record", "sleep", "done"},
   attempt : Nat \ {0}, delay : Int, asked : Nat, verdict : Verdicts]

CallsType ==
  /\ call \in [Calls -> CallRecord]
  /\ copies \in [Calls -> Nat]
  /\ fate \in [Calls -> {"none", "pending", "accepted", "refused"}]
  /\ evidence \in {"none", "Unknown", "Accepted", "Rejected"}

IsMutation(c) == job[c].via \in {"dispatcher", "port"}

\* Jobs whose request may go out once.
Once(c) == IsMutation(c) \/ job[c].op \in {"mutation"} \cup Favorites

\* A single request has not left before it is awaited, and is not repeated.
SingleAttempt ==
  \A c \in Calls : Once(c) =>
    /\ call[c].pc # "sleep"
    /\ call[c].pc \notin {"await", "record", "done"} => copies[c] = 0
    /\ copies[c] \in {0, 1}
    /\ copies[c] = 0 => fate[c] = "none"

Claimed(c) == call[c].pc \in {"send", "await", "record"} \/ copies[c] = 1

\* The evidence row admits one dispatcher call past its claim.
OneClaim ==
  /\ evidence = "none" => \A c \in Calls : job[c].via = "dispatcher" => ~Claimed(c)
  /\ \A c, d \in Calls :
       job[c].via = "dispatcher" /\ job[d].via = "dispatcher" /\ Claimed(c) /\ Claimed(d) => c = d

\* What a call knows of the broker's decision, before and after it ends.
VerdictsHold ==
  /\ \A c \in Calls : IsMutation(c) /\ call[c].pc \in {"record", "done"} =>
       /\ call[c].verdict = "Rejected" => fate[c] \in {"none", "refused"}
       /\ call[c].verdict = "Accepted" => fate[c] = "accepted"
  /\ \A c \in Calls : job[c].via = "rest" /\ job[c].op = "mutation" /\ call[c].pc = "done" =>
       (Certainty(call[c].verdict) = "NotDispatched" => copies[c] = 0)

\* Once rejected, nothing of the mutation is under way.
RejectedIsOver ==
  evidence = "Rejected" =>
    \A c \in Calls : job[c].via = "dispatcher" =>
      call[c].pc \notin {"send", "await"} /\ fate[c] \in {"none", "refused"}

DelaysKept ==
  \A c \in Calls : call[c].pc = "sleep" => call[c].delay >= call[c].asked /\ call[c].delay <= MaxDelay

\* Only an answer is recorded.
Recorded ==
  \A c \in Calls : call[c].pc = "record" => call[c].verdict \in {"Accepted", "Rejected"}

CallsInvariant ==
  CallsType /\ SingleAttempt /\ OneClaim /\ VerdictsHold /\ RejectedIsOver /\ DelaysKept /\ Recorded

-----------------------------------------------------------------------------
(* A step of one call, by what it may do to the others.                    *)

\* Only c moves.
Alone(c) == call' \in [Calls -> CallRecord] /\ \A d \in Calls \ {c} : call'[d] = call[d]

\* Where c arrives without having sent anything or written evidence.
Fits(c) ==
  /\ Once(c) => /\ call'[c].pc # "sleep"
                /\ call'[c].pc \notin {"await", "record", "done"} => copies[c] = 0
  /\ job[c].via = "dispatcher" /\ call'[c].pc \in {"send", "await", "record"} =>
       Claimed(c) /\ (call'[c].pc \in {"send", "await"} => call[c].pc = call'[c].pc)
  /\ IsMutation(c) /\ call'[c].pc \in {"record", "done"} =>
       /\ call'[c].verdict = "Rejected" => fate[c] \in {"none", "refused"}
       /\ call'[c].verdict = "Accepted" => fate[c] = "accepted"
  /\ job[c].via = "rest" /\ job[c].op = "mutation" /\ call'[c].pc = "done" =>
       (Certainty(call'[c].verdict) = "NotDispatched" => copies[c] = 0)
  /\ call'[c].pc = "record" => call'[c].verdict \in {"Accepted", "Rejected"}
  /\ call'[c].pc = "sleep" => call'[c].delay >= call'[c].asked /\ call'[c].delay <= MaxDelay

\* A step of one call that sends nothing and leaves the evidence alone.
LEMMA QuietStep ==
  ASSUME CallsInvariant, NEW c \in Calls, Alone(c), Fits(c), Offline, UNCHANGED evidence
  PROVE  CallsInvariant'
<1>1. CallsType'
  BY DEF CallsInvariant, CallsType, Alone, Offline
<1>2. SingleAttempt'
  BY DEF CallsInvariant, CallsType, Alone, Fits, Offline, SingleAttempt, Once, IsMutation
<1>3. \A d \in Calls : job[d].via = "dispatcher" /\ Claimed(d)' => Claimed(d)
  BY DEF CallsInvariant, CallsType, Alone, Fits, Offline, Claimed
<1>4. OneClaim'
  BY <1>3 DEF CallsInvariant, OneClaim, Offline
<1>5. VerdictsHold'
  BY DEF CallsInvariant, Alone, Fits, Offline, VerdictsHold, IsMutation
<1>6. RejectedIsOver'
  BY DEF CallsInvariant, Alone, Fits, Offline, RejectedIsOver
<1>7. DelaysKept' /\ Recorded'
  BY DEF CallsInvariant, Alone, Fits, DelaysKept, Recorded
<1> QED
  BY ONLY <1>1, <1>2, <1>4, <1>5, <1>6, <1>7 DEF CallsInvariant

\* A copy goes out.
LEMMA LeavingStep ==
  ASSUME CallsInvariant, NEW c \in Calls, Leaves(c),
         call[c].pc \in {"start", "send"}, job[c].via = "dispatcher" => call[c].pc = "send"
  PROVE  CallsInvariant'
<1>1. Alone(c) /\ call'[c].pc = "await"
  BY DEF CallsInvariant, CallsType, CallRecord, Alone, Leaves, Goes
<1>2. CallsType'
  <2>1. copies' \in [Calls -> Nat] /\ fate' \in [Calls -> {"none", "pending", "accepted", "refused"}]
    BY DEF CallsInvariant, CallsType, Leaves
  <2> QED
    BY <1>1, <2>1 DEF CallsInvariant, CallsType, Alone, Leaves
<1>3. SingleAttempt'
  BY <1>1 DEF CallsInvariant, CallsType, CallRecord, Alone, Leaves, SingleAttempt, Once, IsMutation
<1>4. \A d \in Calls : job[d].via = "dispatcher" /\ Claimed(d)' => Claimed(d)
  BY <1>1 DEF CallsInvariant, CallsType, CallRecord, Alone, Leaves, Claimed
<1>5. OneClaim'
  BY <1>4 DEF CallsInvariant, OneClaim, Leaves
<1>6. VerdictsHold'
  BY <1>1 DEF CallsInvariant, CallsType, CallRecord, Alone, Leaves, VerdictsHold, IsMutation
<1>7. RejectedIsOver'
  BY <1>1 DEF CallsInvariant, CallsType, CallRecord, Alone, Leaves, RejectedIsOver
<1>8. DelaysKept' /\ Recorded'
  BY <1>1 DEF CallsInvariant, CallsType, CallRecord, Alone, DelaysKept, Recorded
<1> QED
  BY ONLY <1>2, <1>3, <1>5, <1>6, <1>7, <1>8 DEF CallsInvariant

\* A call ends with a verdict.
LEMMA EndingStep ==
  ASSUME CallsInvariant, NEW c \in Calls, NEW v \in Verdicts, Ends(c, v), Offline, UNCHANGED evidence,
         IsMutation(c) => /\ v = "Rejected" => fate[c] \in {"none", "refused"}
                          /\ v = "Accepted" => fate[c] = "accepted",
         job[c].via = "rest" /\ job[c].op = "mutation" /\ Certainty(v) = "NotDispatched" => copies[c] = 0
  PROVE  CallsInvariant'
<1>1. Alone(c) /\ call'[c].pc = "done" /\ call'[c].verdict = v
  <2> DEFINE f == [call EXCEPT ![c].pc = "done"]
  <2>1. f \in [Calls -> CallRecord] /\ f[c].pc = "done" /\ \A d \in Calls \ {c} : f[d] = call[d]
    BY DEF CallsInvariant, CallsType, CallRecord
  <2>2. call' = [f EXCEPT ![c].verdict = v]
    BY DEF Ends
  <2> HIDE DEF f
  <2> QED
    BY ONLY <2>1, <2>2 DEF Alone, CallRecord
<1>2. Fits(c)
  BY <1>1 DEF CallsInvariant, CallsType, CallRecord, Fits
<1> QED
  BY <1>1, <1>2, QuietStep

\* A call goes on to its next stage.
LEMMA GoingStep ==
  ASSUME CallsInvariant, NEW c \in Calls, NEW pc \in {"claim", "adapter", "send"},
         Goes(c, pc), Offline, UNCHANGED evidence,
         call[c].pc \in {"start", "adapter"}, job[c].via = "dispatcher" => pc # "send"
  PROVE  CallsInvariant'
<1>1. Alone(c) /\ call'[c].pc = pc
  BY DEF CallsInvariant, CallsType, CallRecord, Alone, Goes
<1>2. Fits(c)
  BY <1>1 DEF CallsInvariant, SingleAttempt, Fits
<1> QED
  BY <1>1, <1>2, QuietStep

\* Every delay a retry may ask for is within the limit.
LEMMA DelaysInLimit ==
  ASSUME NEW n, NEW asked \in Nat, asked <= MaxDelay, NEW d \in Delays(n, asked)
  PROVE  d \in Int /\ d >= asked /\ d <= MaxDelay
  BY PolicyAssumption DEF Delays, Larger, ValidPolicy

\* A call waits before its next attempt.
LEMMA SleepingStep ==
  ASSUME CallsInvariant, NEW c \in Calls, NEW asked \in Nat, Sleeps(c, asked), Offline,
         UNCHANGED evidence,
         asked <= MaxDelay, ~Once(c)
  PROVE  CallsInvariant'
<1>1. PICK d \in Delays(call[c].attempt, asked) :
         call' = [call EXCEPT ![c].pc = "sleep", ![c].delay = d, ![c].asked = asked]
  BY ONLY Zenon, Sleeps(c, asked) DEF Sleeps
<1>2. d \in Int /\ d >= asked /\ d <= MaxDelay
  BY <1>1, DelaysInLimit
<1>3. /\ Alone(c)
      /\ call'[c].pc = "sleep" /\ call'[c].delay = d /\ call'[c].asked = asked
  <2> DEFINE f == [call EXCEPT ![c].pc = "sleep"]
             g == [f EXCEPT ![c].delay = d]
  <2>1. f \in [Calls -> CallRecord] /\ f[c].pc = "sleep" /\ \A e \in Calls \ {c} : f[e] = call[e]
    BY DEF CallsInvariant, CallsType, CallRecord
  <2>2. call' = [g EXCEPT ![c].asked = asked]
    BY ONLY <1>1
  <2> HIDE DEF f
  <2>3. /\ g \in [Calls -> CallRecord] /\ g[c].pc = "sleep" /\ g[c].delay = d
        /\ \A e \in Calls \ {c} : g[e] = call[e]
    BY ONLY <1>2, <2>1 DEF CallRecord
  <2> HIDE DEF g
  <2> QED
    BY ONLY <2>2, <2>3 DEF Alone, CallRecord
<1>4. Fits(c)
  BY <1>2, <1>3 DEF Fits, Once, IsMutation
<1> QED
  BY <1>3, <1>4, QuietStep

-----------------------------------------------------------------------------
(* The mutations.                                                          *)

\* dispatch: what the journal says decides.
LEMMA DispatcherDecideKeeps ==
  ASSUME CallsInvariant, NEW c \in Calls, DispatcherDecide(c)
  PROVE  CallsInvariant'
<1> USE DEF DispatcherDecide, CallAt
<1>1. CASE Ends(c, "EnvironmentMismatch")
  BY <1>1, EndingStep DEF Verdicts
<1>2. CASE Ends(c, "ReconciliationRequired")
  BY <1>2, EndingStep DEF Verdicts
<1>3. CASE Goes(c, "claim")
  BY <1>3, GoingStep
<1> QED
  BY <1>1, <1>2, <1>3

\* claim_dispatch: one caller gets the request.
LEMMA ClaimDispatchKeeps ==
  ASSUME CallsInvariant, NEW c \in Calls, ClaimDispatch(c)
  PROVE  CallsInvariant'
<1> USE DEF ClaimDispatch, CallAt
<1>1. CASE Ends(c, "StoreError") /\ UNCHANGED evidence
  BY <1>1, EndingStep DEF Verdicts
<1>2. CASE evidence = "none" /\ evidence' = "Unknown" /\ Goes(c, "send")
  <2>1. Alone(c) /\ call'[c].pc = "send"
    BY <1>2 DEF CallsInvariant, CallsType, CallRecord, Alone, Goes
  <2>2. CallsType'
    BY <1>2, <2>1 DEF CallsInvariant, CallsType, Alone, Offline
  <2>3. SingleAttempt'
    BY <2>1 DEF CallsInvariant, SingleAttempt, Once, IsMutation, Alone, Offline
  <2>4. \A d \in Calls : job[d].via = "dispatcher" /\ Claimed(d)' => d = c
    BY <1>2, <2>1 DEF CallsInvariant, OneClaim, Alone, Offline, Claimed
  <2>5. OneClaim'
    BY <1>2, <2>4 DEF OneClaim, Offline
  <2>6. VerdictsHold'
    BY <2>1 DEF CallsInvariant, VerdictsHold, IsMutation, Alone, Offline
  <2>7. RejectedIsOver' /\ DelaysKept' /\ Recorded'
    BY <1>2, <2>1 DEF CallsInvariant, RejectedIsOver, DelaysKept, Recorded, Alone
  <2> QED
    BY <2>2, <2>3, <2>5, <2>6, <2>7 DEF CallsInvariant
<1> QED
  BY <1>1, <1>2

\* record_outcome: what the dispatcher makes of the answer.
LEMMA RecordOutcomeKeeps ==
  ASSUME CallsInvariant, NEW c \in Calls, RecordOutcome(c)
  PROVE  CallsInvariant'
<1> USE DEF RecordOutcome, CallAt
<1>1. CASE Ends(c, "IdentityError") /\ UNCHANGED evidence
  BY <1>1, EndingStep DEF Verdicts
<1>2. CASE Ends(c, "StoreError") /\ UNCHANGED evidence
  BY <1>2, EndingStep DEF Verdicts
<1>3. CASE Persist(call[c].verdict) /\ Ends(c, call[c].verdict)
  <2>1. Alone(c) /\ call'[c].pc = "done" /\ call'[c].verdict = call[c].verdict
    <3> DEFINE f == [call EXCEPT ![c].pc = "done"]
    <3>1. /\ f \in [Calls -> CallRecord] /\ f[c].pc = "done" /\ call[c].verdict \in Verdicts
          /\ \A d \in Calls \ {c} : f[d] = call[d]
      BY DEF CallsInvariant, CallsType, CallRecord
    <3>2. call' = [f EXCEPT ![c].verdict = call[c].verdict]
      BY ONLY <1>3 DEF Ends
    <3> HIDE DEF f
    <3> QED
      BY ONLY Zenon, <3>1, <3>2 DEF Alone, CallRecord
  <2>2. call[c].verdict \in {"Accepted", "Rejected"}
    BY DEF CallsInvariant, Recorded
  <2>3. CallsType'
    BY <1>3, <2>1, <2>2 DEF CallsInvariant, CallsType, Alone, Offline, Persist
  <2>4. SingleAttempt'
    BY <2>1 DEF CallsInvariant, SingleAttempt, Once, IsMutation, Alone, Offline
  <2>5. \A d \in Calls : job[d].via = "dispatcher" /\ Claimed(d)' => Claimed(d)
    BY <2>1 DEF Alone, Offline, Claimed
  <2>6. OneClaim'
    BY <1>3, <2>2, <2>5 DEF CallsInvariant, OneClaim, Offline, Persist
  <2>7. VerdictsHold'
    BY <2>1 DEF CallsInvariant, VerdictsHold, IsMutation, Alone, Offline
  <2>8. \A d \in Calls \ {c} : job[d].via = "dispatcher" => ~Claimed(d)
    BY DEF CallsInvariant, OneClaim, Claimed
  <2>9. \A d \in Calls \ {c} : job[d].via = "dispatcher" =>
          call[d].pc \notin {"send", "await"} /\ fate[d] = "none"
    <3> SUFFICES ASSUME NEW d \in Calls \ {c}, job[d].via = "dispatcher"
                 PROVE  call[d].pc \notin {"send", "await"} /\ fate[d] = "none"
      OBVIOUS
    <3>1. call[d].pc \notin {"send", "await"} /\ copies[d] # 1
      BY <2>8 DEF Claimed
    <3>2. copies[d] \in {0, 1} /\ (copies[d] = 0 => fate[d] = "none")
      BY DEF CallsInvariant, CallsType, SingleAttempt, Once, IsMutation
    <3> QED
      BY ONLY <3>1, <3>2
  <2>10. call[c].verdict = "Rejected" => fate[c] \in {"none", "refused"}
    BY DEF CallsInvariant, VerdictsHold, IsMutation
  <2>11. RejectedIsOver'
    BY <1>3, <2>1, <2>9, <2>10 DEF RejectedIsOver, Alone, Offline, Persist
  <2>12. DelaysKept' /\ Recorded'
    BY <2>1 DEF CallsInvariant, DelaysKept, Recorded, Alone, Offline
  <2> QED
    BY ONLY <2>3, <2>4, <2>6, <2>7, <2>11, <2>12 DEF CallsInvariant
<1> QED
  BY <1>1, <1>2, <1>3

\* The adapter takes its session.
LEMMA OpenSessionKeeps ==
  ASSUME CallsInvariant, NEW c \in Calls, OpenSession(c)
  PROVE  CallsInvariant'
<1> USE DEF OpenSession, CallAt
<1>1. CASE Ends(c, "PortError")
  BY <1>1, EndingStep DEF Verdicts
<1>2. CASE Goes(c, "adapter")
  BY <1>2, GoingStep
<1> QED
  BY <1>1, <1>2

\* The adapter refuses or goes on.
LEMMA AdapterDispatchKeeps ==
  ASSUME CallsInvariant, NEW c \in Calls, AdapterDispatch(c)
  PROVE  CallsInvariant'
<1> USE DEF AdapterDispatch, CallAt
<1>1. CASE Ends(c, "PortError")
  BY <1>1, EndingStep DEF Verdicts
<1>2. CASE Ends(c, "Rejected")
  <2>1. fate[c] = "none"
    BY DEF CallsInvariant, SingleAttempt, Once, IsMutation
  <2> QED
    BY <1>2, <2>1, EndingStep DEF Verdicts
<1>3. CASE Goes(c, "send")
  BY <1>3, GoingStep
<1> QED
  BY <1>1, <1>2, <1>3

\* A mutation is sent once.
LEMMA ServiceMutationKeeps ==
  ASSUME CallsInvariant, NEW c \in Calls, ServiceMutation(c)
  PROVE  CallsInvariant'
<1> USE DEF ServiceMutation
<1>1. CASE Leaves(c)
  BY <1>1, LeavingStep
<1>2. CASE Ends(c, NotAnswered(c)) /\ Offline /\ UNCHANGED evidence
  <2>1. NotAnswered(c) \in Verdicts \ {"Accepted", "Rejected"}
    BY DEF NotAnswered, Verdicts
  <2> QED
    BY <1>2, <2>1, EndingStep
<1> QED
  BY <1>1, <1>2

\* The answer to a mutation, or none.
LEMMA MutationAnswerKeeps ==
  ASSUME CallsInvariant, NEW c \in Calls, MutationAnswer(c)
  PROVE  CallsInvariant'
<1> DEFINE verdict(code) == CASE code = "Ok" -> "Accepted"
                              [] AuthoritativeRejection(code) -> "Rejected"
                              [] OTHER -> NotAnswered(c)
<1>1. PICK code \in Answers(c) :
        IF job[c].via = "dispatcher" /\ verdict(code) \in {"Accepted", "Rejected"}
        THEN call' = [call EXCEPT ![c].pc = "record", ![c].verdict = verdict(code)]
        ELSE Ends(c, verdict(code))
  BY DEF MutationAnswer
<1>2. NotAnswered(c) \in Verdicts \ {"Accepted", "Rejected"}
  BY DEF NotAnswered, Verdicts
<1>3. /\ verdict(code) \in Verdicts
      /\ verdict(code) = "Rejected" => fate[c] = "refused"
      /\ verdict(code) = "Accepted" => fate[c] = "accepted"
  BY ONLY <1>1, <1>2 DEF Answers, RefusalCodes, AuthoritativeRejection, Verdicts
<1>4. IsMutation(c) /\ call[c].pc = "await" /\ Offline /\ UNCHANGED evidence
  BY DEF MutationAnswer, IsMutation
<1> DEFINE v == verdict(code)
<1>5. /\ v \in Verdicts
      /\ (v = "Rejected" => fate[c] = "refused") /\ (v = "Accepted" => fate[c] = "accepted")
  BY ONLY <1>3
<1>6. CASE Ends(c, v)
  <2> HIDE DEF v
  <2> QED
    BY <1>4, <1>5, <1>6, EndingStep DEF IsMutation
<1>7. CASE v \in {"Accepted", "Rejected"} /\ call' = [call EXCEPT ![c].pc = "record", ![c].verdict = v]
  <2> HIDE DEF v
  <2> DEFINE f == [call EXCEPT ![c].pc = "record"]
  <2>1. f \in [Calls -> CallRecord] /\ f[c].pc = "record" /\ \A d \in Calls \ {c} : f[d] = call[d]
    BY DEF CallsInvariant, CallsType, CallRecord
  <2>2. call' = [f EXCEPT ![c].verdict = v]
    BY ONLY <1>7
  <2> HIDE DEF f
  <2>3. Alone(c) /\ call'[c].pc = "record" /\ call'[c].verdict = v
    BY ONLY <1>5, <2>1, <2>2 DEF Alone, CallRecord
  <2>4. Fits(c)
    BY ONLY <1>4, <1>5, <1>7, <2>3 DEF Fits, Claimed, IsMutation
  <2> QED
    BY <1>4, <2>3, <2>4, QuietStep
<1> QED
  BY ONLY <1>1, <1>6, <1>7

-----------------------------------------------------------------------------
(* Reads, streams and favourites of the gRPC client.                       *)

\* A failed attempt is repeated, or ends the call.
LEMMA RetryOrEndKeeps ==
  ASSUME CallsInvariant, NEW c \in Calls, NEW attempts, NEW code, job[c].via = "grpc",
         RetryOrEnd(c, attempts, code), Once(c) => attempts = 1, Offline, UNCHANGED evidence
  PROVE  CallsInvariant'
<1>1. CASE call[c].attempt < attempts /\ Sleeps(c, 0)
  <2>1. ~Once(c)
    BY <1>1 DEF CallsInvariant, CallsType, CallRecord
  <2>2. 0 <= MaxDelay
    BY ONLY PolicyAssumption DEF ValidPolicy
  <2> QED
    BY <1>1, <2>1, <2>2, SleepingStep
<1>2. CASE Ends(c, "Ok")
  BY <1>2, EndingStep DEF Verdicts, IsMutation
<1>3. CASE Ends(c, "Error")
  BY <1>3, EndingStep DEF Verdicts, IsMutation
<1> QED
  BY <1>1, <1>2, <1>3 DEF RetryOrEnd

\* An attempt leaves, is answered, or fails.
LEMMA AttemptKeeps ==
  ASSUME CallsInvariant, NEW c \in Calls, NEW attempts, job[c].via = "grpc",
         Attempt(c, attempts), Once(c) => attempts = 1
  PROVE  CallsInvariant'
<1>1. CASE Leaves(c) /\ call[c].pc = "start"
  BY <1>1, LeavingStep
<1>2. CASE RetryOrEnd(c, attempts, "Unavailable") /\ Offline /\ UNCHANGED evidence
  BY <1>2, RetryOrEndKeeps
<1>3. CASE Ends(c, "Error") /\ Offline /\ UNCHANGED evidence
  BY <1>3, EndingStep DEF Verdicts, IsMutation
<1>4. ASSUME NEW code \in Answers(c), RetryOrEnd(c, attempts, code), Offline, UNCHANGED evidence
      PROVE  CallsInvariant'
  BY <1>4, RetryOrEndKeeps
<1> QED
  BY <1>1, <1>2, <1>3, <1>4 DEF Attempt

\* Reads: their attempts and answers.
LEMMA ReadsKeep ==
  ASSUME CallsInvariant, NEW c \in Calls,
         SafeRead(c) \/ SafeMarketRead(c) \/ GetCandles(c) \/ ServiceRead(c) \/ ReportRead(c)
  PROVE  CallsInvariant'
<1>1. CASE SafeRead(c)
  <2>1. ~Once(c)
    BY ONLY <1>1 DEF SafeRead, InstrumentReads, Once, IsMutation, Favorites
  <2> QED
    BY <1>1, <2>1, AttemptKeeps DEF SafeRead
<1>2. CASE SafeMarketRead(c)
  <2>1. ~Once(c)
    BY ONLY <1>2 DEF SafeMarketRead, MarketReads, Once, IsMutation, Favorites
  <2> QED
    BY <1>2, <2>1, AttemptKeeps DEF SafeMarketRead
<1>3. CASE GetCandles(c)
  <2>1. ~Once(c) /\ job[c].via = "grpc"
    BY ONLY <1>3 DEF GetCandles, Once, IsMutation, Favorites
  <2>2. CASE Attempt(c, ReadAttempts)
    BY <2>1, <2>2, AttemptKeeps
  <2>3. CASE Ends(c, "Error") /\ Offline /\ UNCHANGED evidence
    BY <2>1, <2>3, EndingStep DEF Verdicts, IsMutation
  <2> QED
    BY ONLY <1>3, <2>2, <2>3 DEF GetCandles
<1>4. CASE ServiceRead(c)
  <2>1. ~Once(c)
    BY ONLY <1>4 DEF ServiceRead, ServiceReads, Once, IsMutation, Favorites
  <2> QED
    BY <1>4, <2>1, AttemptKeeps DEF ServiceRead
<1>5. CASE ReportRead(c)
  <2>1. ~Once(c)
    BY ONLY <1>5 DEF ReportRead, Once, IsMutation, Favorites
  <2> QED
    BY <1>5, <2>1, AttemptKeeps DEF ReportRead
<1> QED
  BY <1>1, <1>2, <1>3, <1>4, <1>5

\* A delay is over.
LEMMA WakeKeeps ==
  ASSUME CallsInvariant, NEW c \in Calls, Wake(c)
  PROVE  CallsInvariant'
<1> DEFINE to == IF job[c].via = "rest" THEN "send" ELSE "start"
           f == [call EXCEPT ![c].pc = to]
<1>1. to \in {"send", "start"} /\ ~Once(c)
  BY DEF CallsInvariant, SingleAttempt, Wake
<1>2. call' = [f EXCEPT ![c].attempt = call[c].attempt + 1]
  BY DEF Wake
<1> HIDE DEF to
<1>3. /\ f \in [Calls -> CallRecord] /\ f[c].pc = to /\ f[c].attempt = call[c].attempt
      /\ \A d \in Calls \ {c} : f[d] = call[d]
  BY <1>1 DEF CallsInvariant, CallsType, CallRecord
<1>4. call[c].attempt + 1 \in Nat \ {0}
  BY DEF CallsInvariant, CallsType, CallRecord
<1> HIDE DEF f
<1>5. Alone(c) /\ call'[c].pc = to
  BY ONLY <1>2, <1>3, <1>4 DEF Alone, CallRecord
<1>6. Fits(c)
  BY ONLY <1>1, <1>5 DEF Fits, Once, IsMutation
<1> QED
  BY <1>5, <1>6, QuietStep DEF Wake

\* Opening a stream.
LEMMA StreamsKeep ==
  ASSUME CallsInvariant, NEW c \in Calls,
         OpenMarketDataStream(c) \/ OpenOrdersStream(c) \/ OpenOperationsStream(c) \/ StreamOpened(c)
  PROVE  CallsInvariant'
<1>1. CASE Leaves(c) /\ job[c].via = "grpc" /\ call[c].pc = "start"
  BY <1>1, LeavingStep
<1>2. CASE Ends(c, "Error") /\ job[c].via = "grpc" /\ Offline /\ UNCHANGED evidence
  BY <1>2, EndingStep DEF Verdicts, IsMutation
<1>3. CASE Ends(c, "Ok") /\ job[c].via = "grpc" /\ Offline /\ UNCHANGED evidence
  BY <1>3, EndingStep DEF Verdicts, IsMutation
<1> QED
  BY <1>1, <1>2, <1>3 DEF OpenMarketDataStream, OpenOrdersStream, OpenOperationsStream, Opens,
                              StreamOpened

\* edit_favorites: one attempt.
LEMMA FavoritesKeep ==
  ASSUME CallsInvariant, NEW c \in Calls, FavoritesMutation(c)
  PROVE  CallsInvariant'
<1>1. CASE Ends(c, "Error") /\ Offline /\ UNCHANGED evidence
  BY <1>1, EndingStep DEF Verdicts, IsMutation, FavoritesMutation
<1>2. CASE Attempt(c, 1)
  BY <1>2, AttemptKeeps DEF FavoritesMutation
<1> QED
  BY <1>1, <1>2 DEF FavoritesMutation

-----------------------------------------------------------------------------
(* The REST client.                                                        *)

\* The REST client: checks before it sends.
LEMMA RestStartKeeps ==
  ASSUME CallsInvariant, NEW c \in Calls, RestStart(c)
  PROVE  CallsInvariant'
<1>1. job[c].via = "rest" /\ call[c].pc = "start" /\ Offline /\ UNCHANGED evidence
  BY DEF RestStart, CallAt
<1>2. job[c].op = "mutation" => copies[c] = 0
  BY <1>1 DEF CallsInvariant, SingleAttempt, Once
<1>3. ASSUME NEW v \in {"MethodMismatch", "EnvironmentMismatch", "InvalidMethodPath", "RequestInvalid"},
             Ends(c, v)
      PROVE  CallsInvariant'
  BY <1>1, <1>2, <1>3, EndingStep DEF Verdicts, IsMutation
<1>4. CASE Goes(c, "send")
  BY <1>1, <1>4, GoingStep
<1> QED
  BY <1>3, <1>4 DEF RestStart, Prepared

\* A request that left is never reported as one that did not.
LEMMA RestRetryOrEndKeeps ==
  ASSUME CallsInvariant, NEW c \in Calls, NEW kind \in Verdicts, job[c].via = "rest",
         RestRetryOrEnd(c, kind), Offline, UNCHANGED evidence,
         copies[c] = 0 \/ Certainty(kind) # "NotDispatched" \/ job[c].op # "mutation"
  PROVE  CallsInvariant'
<1>1. CASE Ends(c, kind)
  BY <1>1, EndingStep DEF IsMutation
<1>2. ASSUME NEW asked \in {RetryAfter(h) : h \in Headers} \cup {0}, asked <= MaxDelay,
             job[c].op = "read", Sleeps(c, asked)
      PROVE  CallsInvariant'
  <2>1. asked \in Nat
    BY ONLY HeadersAssumption DEF RetryAfter
  <2>2. ~Once(c)
    BY <1>2 DEF Once, IsMutation, Favorites
  <2> QED
    BY <1>2, <2>1, <2>2, SleepingStep
<1>3. \A asked \in {RetryAfter(h) : h \in Headers} \cup {0} : asked \in Nat
  BY ONLY HeadersAssumption DEF RetryAfter
<1> QED
  BY <1>1, <1>2, <1>3, PolicyAssumption DEF RestRetryOrEnd, ValidPolicy

\* The REST client sends.
LEMMA RestSendKeeps ==
  ASSUME CallsInvariant, NEW c \in Calls, RestSend(c)
  PROVE  CallsInvariant'
<1>1. job[c].via = "rest" /\ call[c].pc = "send" /\ (job[c].op = "mutation" => copies[c] = 0)
  BY DEF RestSend, CallAt, CallsInvariant, SingleAttempt, Once
<1>2. CASE Leaves(c)
  BY <1>1, <1>2, LeavingStep
<1>3. ASSUME NEW kind \in {"Connect", "Timeout", "RequestInvalid"},
             RestRetryOrEnd(c, kind), Offline, UNCHANGED evidence
      PROVE  CallsInvariant'
  BY <1>1, <1>3, RestRetryOrEndKeeps DEF Verdicts
<1> QED
  BY <1>2, <1>3 DEF RestSend

\* The REST client: the answer, or none.
LEMMA RestAnswerKeeps ==
  ASSUME CallsInvariant, NEW c \in Calls, RestAnswer(c)
  PROVE  CallsInvariant'
<1>1. job[c].via = "rest" /\ Offline /\ UNCHANGED evidence
  BY DEF RestAnswer, CallAt
<1>2. PICK kind \in RestAnswers(c) : RestRetryOrEnd(c, kind)
  BY DEF RestAnswer
<1>3. kind \in {"Ok", "Http4xx", "Timeout", "Transport", "ResponseBody", "ResponseTooLarge",
              "Http5xx", "ResponseDecode"}
  BY ONLY <1>2 DEF RestAnswers
<1>4. kind \in Verdicts /\ Certainty(kind) # "NotDispatched"
  BY ONLY <1>3 DEF Verdicts, Certainty
<1> QED
  BY <1>1, <1>2, <1>4, RestRetryOrEndKeeps

-----------------------------------------------------------------------------
(* The environment.                                                        *)

\* A caller goes away.
LEMMA CallDroppedKeeps ==
  ASSUME CallsInvariant, NEW c \in Calls, CallDropped(c)
  PROVE  CallsInvariant'
<1>1. Certainty("dropped") # "NotDispatched"
  BY DEF Certainty
<1> QED
  BY <1>1, EndingStep DEF CallDropped, Verdicts

\* The broker executes a copy, or refuses it.
LEMMA BrokerDecidesKeeps ==
  ASSUME CallsInvariant, BrokerDecides
  PROVE  CallsInvariant'
<1>1. PICK c \in Calls, f \in {"accepted", "refused"} :
        fate[c] = "pending" /\ fate' = [fate EXCEPT ![c] = f]
  BY Zenon DEF BrokerDecides
<1>2. UNCHANGED <<job, call, copies, evidence>>
  BY DEF BrokerDecides
<1>3. CallsType'
  BY <1>1, <1>2 DEF CallsInvariant, CallsType
<1>4. SingleAttempt'
  BY <1>1, <1>2 DEF CallsInvariant, CallsType, SingleAttempt, Once, IsMutation
<1>5. OneClaim'
  BY <1>2 DEF CallsInvariant, OneClaim, Claimed
<1>6. VerdictsHold'
  BY <1>1, <1>2 DEF CallsInvariant, CallsType, VerdictsHold, IsMutation
<1>7. RejectedIsOver'
  BY <1>1, <1>2 DEF CallsInvariant, CallsType, RejectedIsOver
<1>8. DelaysKept' /\ Recorded'
  BY <1>2 DEF CallsInvariant, DelaysKept, Recorded
<1> QED
  BY ONLY <1>3, <1>4, <1>5, <1>6, <1>7, <1>8 DEF CallsInvariant

\* A reconciliation settles a call in doubt.
LEMMA ReconcileAcceptedKeeps ==
  ASSUME CallsInvariant, ReconcileAccepted
  PROVE  CallsInvariant'
<1>1. UNCHANGED <<job, call, copies, fate>> /\ evidence # "none" /\ evidence' = "Accepted"
  BY DEF ReconcileAccepted, ResolveAccepted, Persist, Offline
<1>2. CallsType' /\ SingleAttempt'
  BY <1>1 DEF CallsInvariant, CallsType, SingleAttempt, Once, IsMutation
<1>3. OneClaim'
  BY <1>1 DEF CallsInvariant, OneClaim, Claimed
<1>4. VerdictsHold'
  BY <1>1 DEF CallsInvariant, VerdictsHold, IsMutation
<1>5. RejectedIsOver' /\ DelaysKept' /\ Recorded'
  BY <1>1 DEF CallsInvariant, RejectedIsOver, DelaysKept, Recorded
<1> QED
  BY ONLY <1>2, <1>3, <1>4, <1>5 DEF CallsInvariant

-----------------------------------------------------------------------------
LEMMA ClientStepKeeps ==
  ASSUME CallsInvariant, NEW c \in Calls, ClientStep(c)
  PROVE  CallsInvariant'
  BY DispatcherDecideKeeps, ClaimDispatchKeeps, RecordOutcomeKeeps, OpenSessionKeeps,
     AdapterDispatchKeeps,
     ServiceMutationKeeps, MutationAnswerKeeps, ReadsKeep, WakeKeeps, StreamsKeep, FavoritesKeep,
     RestStartKeeps, RestSendKeeps, RestAnswerKeeps
     DEF ClientStep

\* Nothing happens.
LEMMA StutterKeeps ==
  ASSUME CallsInvariant, UNCHANGED callVars
  PROVE  CallsInvariant'
<1>1. UNCHANGED <<job, call, copies, fate, evidence>>
  BY DEF callVars
<1>2. CallsType' /\ SingleAttempt' /\ OneClaim'
  BY <1>1 DEF CallsInvariant, CallsType, SingleAttempt, Once, IsMutation, OneClaim, Claimed
<1>3. VerdictsHold' /\ RejectedIsOver' /\ DelaysKept' /\ Recorded'
  BY <1>1 DEF CallsInvariant, VerdictsHold, IsMutation, RejectedIsOver, DelaysKept, Recorded
<1> QED
  BY ONLY <1>2, <1>3 DEF CallsInvariant

\* No call has begun.
LEMMA InitHolds == CallsInit => CallsInvariant
<1> SUFFICES ASSUME CallsInit PROVE CallsInvariant
  OBVIOUS
<1> USE DEF CallsInit, NewCall
<1>1. CallsType
  BY DEF CallsType, CallRecord, Verdicts
<1>2. SingleAttempt /\ OneClaim
  BY DEF SingleAttempt, OneClaim, Claimed
<1>3. VerdictsHold /\ RejectedIsOver /\ DelaysKept /\ Recorded
  BY DEF VerdictsHold, RejectedIsOver, DelaysKept, Recorded
<1> QED
  BY ONLY <1>1, <1>2, <1>3 DEF CallsInvariant

\* The invariant of a call and its evidence, for any number of calls and
\* processes, whatever is dropped and however late the broker decides.
THEOREM CallsInvariantHolds == CallsSpec => []CallsInvariant
<1>1. CallsInvariant /\ [CallsNext]_callVars => CallsInvariant'
  BY ONLY BrokerDecidesKeeps, ReconcileAcceptedKeeps, ClientStepKeeps, CallDroppedKeeps,
          StutterKeeps DEF CallsNext
<1> QED
  BY InitHolds, <1>1, PTL DEF CallsSpec

\* However many calls and processes try, at most one copy of a mutation goes
\* out (claim_dispatch, service_mutation).
THEOREM OneCopyLeaves == CallsSpec => []OneTransmission
<1>1. CallsInvariant => OneTransmission
  <2> SUFFICES ASSUME CallsInvariant PROVE OneTransmission
    OBVIOUS
  <2>1. \A c \in Calls : Once(c) => copies[c] <= 1
    BY DEF CallsInvariant, SingleAttempt
  <2>2. \A c, d \in Calls :
          job[c].via = "dispatcher" /\ job[d].via = "dispatcher" /\ copies[c] = 1 /\ copies[d] = 1
          => c = d
    BY DEF CallsInvariant, OneClaim, Claimed
  <2> QED
    BY ONLY <2>1, <2>2 DEF OneTransmission, Once, IsMutation
<1> QED
  BY CallsInvariantHolds, <1>1, PTL

\* A call is never told more than what happened, and the evidence of a
\* mutation says rejected only when no copy of it is or can come into force
\* (authoritative_rejection, dispatch_certainty, persist_authoritative_outcome).
THEOREM VerdictsAreSound == CallsSpec => []VerdictIsSound
<1>1. CallsInvariant => VerdictIsSound
  BY DEF CallsInvariant, VerdictsHold, RejectedIsOver, VerdictIsSound, InFlight, IsMutation
<1> QED
  BY CallsInvariantHolds, <1>1, PTL

\* No call is repeated before the delay the provider asked for, nor waits
\* longer than the policy allows (post, delay_for).
THEOREM DelaysAreHonoured == CallsSpec => RetryHonoursProvider
<1>1. CallsInvariant =>
        \A c \in Calls : Wake(c) => call[c].delay >= call[c].asked /\ call[c].delay <= MaxDelay
  BY DEF CallsInvariant, DelaysKept, Wake
<1> QED
  BY CallsInvariantHolds, <1>1, PTL DEF RetryHonoursProvider
=============================================================================
