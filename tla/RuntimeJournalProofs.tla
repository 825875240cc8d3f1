------------------------ MODULE RuntimeJournalProofs ------------------------
(***************************************************************************)
(* Proofs about RuntimeJournal, for any set of requests and workers, any   *)
(* journal capacity and any number of restarts.                            *)
(***************************************************************************)
EXTENDS RuntimeJournal, TLAPS

\* The initial states, before the runtime was ever started, satisfy the
\* inductive invariant.
LEMMA InitInvariant == Init => DispatchInvariant
<1> SUFFICES ASSUME Init PROVE DispatchInvariant
  OBVIOUS
<1>1. TypeOK
  BY ZenonT(60) DEF Init, StoreInit, TypeOK, StoreTypeOK, Stages, JournalStates
<1>2. AtMostOneSend /\ UntouchedBeforeFence /\ WireUndecided
  BY DEF Init, StoreInit, AtMostOneSend, UntouchedBeforeFence, WireUndecided
<1>3. OneCallPerRequest /\ CallAgreesWithRow /\ CallAgreesWithBroker
  BY DEF Init, StoreInit, OneCallPerRequest, CallAgreesWithRow,
         CallAgreesWithBroker, Inserted
<1>4. ReadBackAgreesWithBroker /\ RejectedForGood /\ OutcomeFaithful
  BY DEF Init, StoreInit, ReadBackAgreesWithBroker, RejectedForGood,
         OutcomeFaithful, Absent
<1> QED
  BY ONLY <1>1, <1>2, <1>3, <1>4 DEF DispatchInvariant

\* Every step of the runtime, of the broker and of the network preserves types.
LEMMA TypeStep == TypeOK /\ [Next]_vars => TypeOK'
<1> SUFFICES ASSUME TypeOK, [Next]_vars PROVE TypeOK'
  OBVIOUS
<1> USE DEF TypeOK, StoreTypeOK, Stages, JournalStates, Goto, callVars,
            brokerVars, recVars, storeVars
<1>1. CASE Start BY <1>1 DEF Start, AcquireOwnership
<1>2. CASE Crash BY <1>2 DEF Crash
<1>3. CASE Shutdown BY ZenonT(60), <1>3 DEF Shutdown, ReleaseOwnership
<1>4. CASE Exit BY <1>4 DEF Exit
<1>5. ASSUME NEW w \in Workers, NEW id \in Ids, Begin(w, id) PROVE TypeOK'
  BY <1>5 DEF Begin
<1>6. ASSUME NEW w \in Workers, Insert(w) PROVE TypeOK'
  BY <1>6 DEF Insert, InsertMutation
<1>7. ASSUME NEW w \in Workers, InsertRefused(w) \/ Withdraw(w) PROVE TypeOK'
  BY <1>7 DEF InsertRefused, Withdraw
<1>8. ASSUME NEW w \in Workers, Claim(w) PROVE TypeOK'
  BY <1>8 DEF Claim, ClaimDispatchUnknown, TransitionMutation
<1>9. ASSUME NEW w \in Workers, ClaimRefused(w) PROVE TypeOK'
  BY <1>9 DEF ClaimRefused
<1>10. ASSUME NEW w \in Workers, Send(w) PROVE TypeOK'
  BY <1>10 DEF Send
<1>11. ASSUME NEW w \in Workers, SendRefused(w) PROVE TypeOK'
  BY <1>11 DEF SendRefused
<1>12. ASSUME NEW w \in Workers, Answer(w) PROVE TypeOK'
  BY <1>12 DEF Answer
<1>13. ASSUME NEW w \in Workers, NoAnswer(w) PROVE TypeOK'
  BY <1>13 DEF NoAnswer
<1>14. ASSUME NEW w \in Workers, Link(w) PROVE TypeOK'
  BY <1>14 DEF Link
<1>15. ASSUME NEW w \in Workers, Finish(w) PROVE TypeOK'
  BY <1>15 DEF Finish, TransitionMutation, Outcome
<1>16. ASSUME NEW w \in Workers, FinishRefused(w) PROVE TypeOK'
  BY <1>16 DEF FinishRefused
<1>17. ASSUME NEW id \in Ids, Decide(id) PROVE TypeOK'
  BY <1>17 DEF Decide
<1>18. ASSUME NEW id \in Ids, Lose(id) PROVE TypeOK'
  BY <1>18 DEF Lose
<1>19. ASSUME NEW id \in Ids, ReadBack(id) PROVE TypeOK'
  BY <1>19 DEF ReadBack
<1>20. CASE ListUnresolved BY <1>20 DEF ListUnresolved, UnresolvedMutations
<1>21. CASE Commit BY <1>21 DEF Commit, CommitReconciliation
<1>22. CASE Abandon BY <1>22 DEF Abandon
<1>23. CASE UNCHANGED vars BY SMTT(60), <1>23 DEF vars
<1> QED
  BY ZenonT(60), <1>1, <1>2, <1>3, <1>4, <1>5, <1>6, <1>7, <1>8, <1>9, <1>10, <1>11, <1>12,
     <1>13, <1>14, <1>15, <1>16, <1>17, <1>18, <1>19, <1>20, <1>21, <1>22, <1>23
     DEF Next

\* Every step preserves the inductive invariant.
LEMMA InvariantStep == DispatchInvariant /\ [Next]_vars => DispatchInvariant'
<1> SUFFICES ASSUME DispatchInvariant, [Next]_vars PROVE DispatchInvariant'
  OBVIOUS
<1> USE DEF DispatchInvariant, AtMostOneSend, UntouchedBeforeFence,
            OneCallPerRequest, CallAgreesWithRow, CallAgreesWithBroker,
            WireUndecided, ReadBackAgreesWithBroker, RejectedForGood,
            OutcomeFaithful, Inserted, Absent, TypeOK, StoreTypeOK,
            JournalStates, Stages, Goto, callVars, brokerVars, recVars, storeVars
<1>0. TypeOK'
  BY TypeStep
<1>1. CASE Start
  BY <1>0, <1>1 DEF Start, AcquireOwnership
<1>2. CASE Crash
  BY <1>0, <1>2 DEF Crash
<1>3. CASE Shutdown
  BY <1>0, <1>3 DEF Shutdown, ReleaseOwnership
<1>4. CASE Exit
  BY <1>0, <1>4 DEF Exit
<1>5. ASSUME NEW w \in Workers, NEW id \in Ids, Begin(w, id)
      PROVE  DispatchInvariant'
  BY <1>0, <1>5 DEF Begin
<1>6. ASSUME NEW w \in Workers, Insert(w) PROVE DispatchInvariant'
  BY <1>0, <1>6 DEF Insert, InsertMutation, CanInsert
<1>7. ASSUME NEW w \in Workers, InsertRefused(w) \/ Withdraw(w) PROVE DispatchInvariant'
  BY <1>0, <1>7 DEF InsertRefused, Withdraw
<1>8. ASSUME NEW w \in Workers, Claim(w) PROVE DispatchInvariant'
  BY <1>0, <1>8 DEF Claim, ClaimDispatchUnknown, TransitionMutation, CanTransition
<1>9. ASSUME NEW w \in Workers, ClaimRefused(w) PROVE DispatchInvariant'
  BY <1>0, <1>9 DEF ClaimRefused
<1>10. ASSUME NEW w \in Workers, Send(w) PROVE DispatchInvariant'
  BY <1>0, <1>10 DEF Send
<1>11. ASSUME NEW w \in Workers, SendRefused(w) PROVE DispatchInvariant'
  BY <1>0, <1>11 DEF SendRefused
<1>12. ASSUME NEW w \in Workers, Answer(w) PROVE DispatchInvariant'
  BY <1>0, <1>12 DEF Answer
<1>13. ASSUME NEW w \in Workers, NoAnswer(w) PROVE DispatchInvariant'
  BY <1>0, <1>13 DEF NoAnswer
<1>14. ASSUME NEW w \in Workers, Link(w) PROVE DispatchInvariant'
  BY <1>0, <1>14 DEF Link
<1>15. ASSUME NEW w \in Workers, Finish(w) PROVE DispatchInvariant'
  BY <1>0, <1>15 DEF Finish, TransitionMutation, CanTransition, Outcome
<1>16. ASSUME NEW w \in Workers, FinishRefused(w) PROVE DispatchInvariant'
  BY <1>0, <1>16 DEF FinishRefused
<1>17. ASSUME NEW id \in Ids, Decide(id) PROVE DispatchInvariant'
  BY <1>0, <1>17 DEF Decide
<1>18. ASSUME NEW id \in Ids, Lose(id) PROVE DispatchInvariant'
  BY <1>0, <1>18 DEF Lose
<1>19. ASSUME NEW id \in Ids, ReadBack(id) PROVE DispatchInvariant'
  BY <1>0, <1>19 DEF ReadBack
<1>20. CASE ListUnresolved
  BY <1>0, <1>20 DEF ListUnresolved, UnresolvedMutations
<1>21. CASE Commit
  BY <1>0, <1>21 DEF Commit, CommitReconciliation, CanCommit, UnresolvedMutations
<1>22. CASE Abandon
  BY <1>0, <1>22 DEF Abandon
<1>23. CASE UNCHANGED vars
  BY <1>0, <1>23 DEF vars
<1> QED
  BY ZenonT(60), <1>1, <1>2, <1>3, <1>4, <1>5, <1>6, <1>7, <1>8, <1>9, <1>10, <1>11, <1>12,
     <1>13, <1>14, <1>15, <1>16, <1>17, <1>18, <1>19, <1>20, <1>21, <1>22, <1>23
     DEF Next

\* The inductive invariant, and with it types, holds in every reachable state.
THEOREM DispatchInvariantHolds == Spec => []DispatchInvariant
<1>1. Init => DispatchInvariant
  BY ONLY InitInvariant
<1>2. DispatchInvariant /\ [Next]_vars => DispatchInvariant'
  BY ONLY InvariantStep
<1> QED
  BY <1>1, <1>2, PTL DEF Spec

\* A logical request is handed to the transport at most once, over every
\* retry, crash and restart.
THEOREM SentAtMostOnce == Spec => []AtMostOneSend
<1>1. DispatchInvariant => AtMostOneSend
  BY DEF DispatchInvariant
<1> QED
  BY <1>1, DispatchInvariantHolds, PTL

\* Before the row of a request is fenced as UNKNOWN_AFTER_DISPATCH nothing of
\* it is on the wire or at the broker.
THEOREM NothingSentBeforeFence == Spec => []FencedBeforeSend
<1>1. DispatchInvariant => FencedBeforeSend
  BY DEF DispatchInvariant, UntouchedBeforeFence, FencedBeforeSend
<1> QED
  BY <1>1, DispatchInvariantHolds, PTL

\* A terminal row agrees with what the broker did.
THEOREM OutcomesAreFaithful == Spec => []OutcomeFaithful
<1>1. DispatchInvariant => OutcomeFaithful
  BY DEF DispatchInvariant
<1> QED
  BY <1>1, DispatchInvariantHolds, PTL

\* One step of the runtime moves every row forward or leaves it alone.
LEMMA ForwardStep ==
  DispatchInvariant /\ [Next]_vars => \A id \in Ids : journal'[id] \in Forward(journal[id])
<1> SUFFICES ASSUME DispatchInvariant, [Next]_vars, NEW i \in Ids
             PROVE  journal'[i] \in Forward(journal[i])
  OBVIOUS
<1> USE DEF DispatchInvariant, TypeOK, StoreTypeOK, JournalStates, TerminalStates,
            Forward, Absent, storeVars
<1>1. ASSUME NEW w \in Workers, Insert(w) PROVE journal'[i] \in Forward(journal[i])
  BY ONLY <1>1 DEF Insert, InsertMutation, CanInsert
<1>2. ASSUME NEW w \in Workers, Claim(w) PROVE journal'[i] \in Forward(journal[i])
  BY ONLY <1>2 DEF Claim, ClaimDispatchUnknown, TransitionMutation, CanTransition
<1>3. ASSUME NEW w \in Workers, Finish(w) PROVE journal'[i] \in Forward(journal[i])
  BY ONLY <1>3 DEF Finish, TransitionMutation, CanTransition, Outcome
<1>4. CASE Commit
  BY ONLY <1>4 DEF Commit, CommitReconciliation, CanCommit, UnresolvedMutations
<1>5. CASE UNCHANGED journal
  BY ONLY <1>5
<1>6. \/ \E w \in Workers : Insert(w) \/ Claim(w) \/ Finish(w)
      \/ Commit
      \/ UNCHANGED journal
  BY DEF Next, Start, AcquireOwnership, Crash, Shutdown, ReleaseOwnership, Exit,
         Begin, Withdraw, InsertRefused, ClaimRefused, Send, SendRefused, Answer, NoAnswer,
         Link, FinishRefused, Decide, Lose, ReadBack, ListUnresolved, Abandon, vars
<1> QED
  BY ONLY <1>1, <1>2, <1>3, <1>4, <1>5, <1>6

\* Doubt never becomes not-dispatched again and an outcome is never replaced.
THEOREM RowsMoveForward == Spec => JournalMovesForward
<1>1. DispatchInvariant /\ [Next]_vars
      => [\A id \in Ids : journal'[id] \in Forward(journal[id])]_vars
  BY ONLY ForwardStep
<1> QED
  BY <1>1, DispatchInvariantHolds, PTL DEF Spec, JournalMovesForward

\* Every step of the runtime is a step of the contract or changes nothing the
\* contract speaks of.
LEMMA ContractStep ==
  DispatchInvariant /\ [Next]_vars => [Contract!Next]_(Contract!vars)
<1> SUFFICES ASSUME DispatchInvariant, [Next]_vars
             PROVE  [Contract!Next]_(Contract!vars)
  OBVIOUS
<1> DEFINE Sent == {id \in Ids : sends[id] > 0}
<1> USE DEF DispatchInvariant, TypeOK, StoreTypeOK, brokerVars
<1>1. ASSUME NEW w \in Workers, Insert(w) PROVE Contract!Next
  <2>1. Contract!Record(req[w])
    BY ONLY <1>1 DEF Insert, InsertMutation, CanInsert, Absent, Contract!Record
  <2> QED
    BY <2>1 DEF Contract!Next
<1>2. ASSUME NEW w \in Workers, Claim(w) PROVE Contract!Next
  <2>1. Contract!Fence(req[w])
    BY ONLY <1>2 DEF Claim, ClaimDispatchUnknown, TransitionMutation, CanTransition,
                Contract!Fence
  <2> QED
    BY <2>1 DEF Contract!Next
<1>3. ASSUME NEW w \in Workers, Send(w) PROVE Contract!Next
  <2>1. journal[req[w]] = "UnknownAfterDispatch" /\ sends[req[w]] = 0
    BY <1>3 DEF Send, CallAgreesWithRow
  <2>2. Sent' = Sent \union {req[w]}
    BY <1>3, <2>1 DEF Send
  <2>3. Contract!Transmit(req[w])
    BY ONLY <1>3, <2>1, <2>2 DEF Send, Contract!Transmit, storeVars
  <2>4. req[w] \in Ids
    OBVIOUS
  <2> QED
    BY ONLY <2>3, <2>4 DEF Contract!Next, Contract!Transmit
<1>4. ASSUME NEW id \in Ids, Decide(id) PROVE Contract!Next
  <2>1. sends[id] > 0 /\ verdict[id] = "none"
    BY <1>4 DEF Decide, UntouchedBeforeFence, WireUndecided
  <2>2. Contract!Decide(id)
    BY ONLY ZenonT(60), <1>4, <2>1 DEF Decide, Contract!Decide, storeVars
  <2> QED
    BY ONLY <2>2 DEF Contract!Next
<1>5. ASSUME NEW w \in Workers, Finish(w) PROVE Contract!Next
  <2>1. CASE stage[w] = "ack"
    <3>1. Contract!Acknowledge(req[w])
      BY <1>5, <2>1 DEF Finish, TransitionMutation, CanTransition, Outcome,
                        CallAgreesWithBroker, Contract!Acknowledge
    <3> QED
      BY <3>1 DEF Contract!Next
  <2>2. CASE stage[w] = "reject"
    <3>1. Contract!Reject(req[w])
      BY <1>5, <2>2 DEF Finish, TransitionMutation, CanTransition, Outcome,
                        CallAgreesWithBroker, Contract!Reject
    <3> QED
      BY <3>1 DEF Contract!Next
  <2> QED
    BY ONLY <1>5, <2>1, <2>2 DEF Finish
<1>6. CASE Commit
  <2>1. Contract!Reconcile(found)
    BY <1>6 DEF Commit, CommitReconciliation, CanCommit, UnresolvedMutations,
                ReadBackAgreesWithBroker, Contract!Reconcile
  <2> QED
    BY <2>1 DEF Contract!Next
<1>7. CASE UNCHANGED <<journal, sends, verdict>>
  BY ONLY <1>7 DEF Contract!vars
<1>8. \/ \E w \in Workers : Insert(w) \/ Claim(w) \/ Send(w) \/ Finish(w)
      \/ \E id \in Ids : Decide(id)
      \/ Commit
      \/ UNCHANGED <<journal, sends, verdict>>
  BY DEF Next, Start, AcquireOwnership, Crash, Shutdown, ReleaseOwnership, Exit,
         Begin, Withdraw, InsertRefused, ClaimRefused, SendRefused, Answer, NoAnswer,
         Link, FinishRefused, Lose, ReadBack, ListUnresolved, Abandon, vars, storeVars
<1> QED
  BY ONLY <1>1, <1>2, <1>3, <1>4, <1>5, <1>6, <1>7, <1>8

\* The runtime, with its epochs, crashes, restarts and interleavings,
\* implements the mutation contract.
THEOREM RuntimeImplementsContract == Spec => ImplementsContract
<1>1. Init => Contract!Init
  BY DEF Init, StoreInit, Absent, Contract!Init
<1>2. DispatchInvariant /\ [Next]_vars => [Contract!Next]_(Contract!vars)
  BY ONLY ContractStep
<1> QED
  BY <1>1, <1>2, DispatchInvariantHolds, PTL
     DEF Spec, ImplementsContract, Contract!Spec
=============================================================================
