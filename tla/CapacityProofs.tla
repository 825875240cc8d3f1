--------------------------- MODULE CapacityProofs ---------------------------
(***************************************************************************)
(* Proofs about CapitalDispatch, for any number of requests, calls, slots  *)
(* and restarts, that count: no more requests are in doubt than there are  *)
(* execution slots, and the lots reserved never exceed the policy's limit. *)
(***************************************************************************)
EXTENDS CapitalDispatchProofs, FiniteSetTheorems, WellFoundedInduction

-----------------------------------------------------------------------------
(* Execution slots.                                                        *)

\* Calls past the revalidation whose request may still become in doubt.
Fencing == {w \in Workers : step[w] = "journal" /\ stage[w] \in {"insert", "claim"}}

\* Requests in doubt, or about to be.
Exposed == UnresolvedMutations \cup {req[w] : w \in Fencing}

\* A call holds a slot from the revalidation on, so the calls that passed it
\* before anything was in doubt are no more than there are slots; nobody
\* passes it afterwards.
SlotInvariant ==
  /\ IsFiniteSet(permits) /\ Cardinality(permits) <= Slots
  /\ \A w \in Workers : step[w] \in {"validate", "journal"} => w \in permits
  /\ IsFiniteSet(Exposed) /\ Cardinality(Exposed) <= Slots

\* What is contained in a set within the slots is within them.
LEMMA WithinSlots ==
  ASSUME NEW S, NEW T, T \subseteq S, IsFiniteSet(S), Cardinality(S) <= Slots
  PROVE  IsFiniteSet(T) /\ Cardinality(T) <= Slots
  BY FS_Subset, FS_CardinalityType, SlotsAssumption

\* A step that lets nobody else in.
Narrows ==
  /\ permits' \subseteq permits
  /\ \A w \in Workers : step'[w] \in {"validate", "journal"} =>
       step[w] = step'[w] /\ w \in permits'
  /\ Exposed' \subseteq Exposed

\* Such a step keeps the slots within their number.
LEMMA NarrowsKeeps ==
  ASSUME SlotInvariant, Narrows
  PROVE  SlotInvariant'
  BY WithinSlots DEF SlotInvariant, Narrows

\* What such a step of one call may change.
CallNarrows(w) ==
  /\ permits' \subseteq permits
  /\ \A v \in Workers \ {w} : step'[v] = step[v] /\ stage'[v] = stage[v] /\ req'[v] = req[v]
  /\ \A v \in Workers : step'[v] \in {"validate", "journal"} =>
       step[v] = step'[v] /\ v \in permits'
  /\ w \in Fencing' => w \in Fencing /\ req'[w] = req[w]
  /\ \A id \in Ids : journal'[id] = "UnknownAfterDispatch" =>
       journal[id] = "UnknownAfterDispatch" \/ (w \in Fencing /\ id = req[w])

\* Every step of a call but AcquireSlot and Validated is one: among the steps
\* of the journal only the fence puts a request in doubt.
LEMMA CallShape ==
  ASSUME AdmissionInvariant, SlotInvariant, NEW w \in Workers,
         \/ \E id \in Ids : Enter(w, id)
         \/ AdmitReplay(w) \/ AdmitRefused(w) \/ Evaluate(w)
         \/ PersistApproval(w) \/ PersistRefused(w) \/ ValidationRefused(w)
         \/ InsertIntent(w) \/ FenceIntent(w) \/ Transmit(w) \/ Receive(w)
         \/ LinkIdentity(w) \/ FinishMutation(w)
         \/ RecordAcknowledged(w) \/ RecordRejected(w) \/ RecordUnknown(w)
  PROVE  CallNarrows(w)
  <1>0. /\ journal \in [Ids -> JournalStates \cup {Absent}] /\ req \in [Workers -> Ids]
        /\ step \in [Workers -> Steps] /\ stage \in [Workers -> Stages]
        /\ \A v \in Workers : step[v] \in {"validate", "journal"} => v \in permits
        /\ w \in Workers
    BY DEF AdmissionInvariant, CapitalTypeOK, TypeOK, StoreTypeOK, SlotInvariant
  <1> USE DEF Steps, Stages, At, Return, Goto, storeVars
  <1>1. CASE \E id \in Ids : Enter(w, id)
    BY ONLY <1>0, <1>1 DEF CallNarrows, Fencing, Enter, Begin
  <1>2. CASE AdmitReplay(w)
    BY ONLY <1>0, <1>2 DEF CallNarrows, Fencing, AdmitReplay, vars
  <1>3. CASE AdmitRefused(w) \/ PersistRefused(w)
    BY ONLY <1>0, <1>3 DEF CallNarrows, Fencing, AdmitRefused, PersistRefused, Withdraw
  <1>4. CASE Evaluate(w)
    BY ONLY <1>0, <1>4 DEF CallNarrows, Fencing, Evaluate, Withdraw, vars
  <1>5. CASE PersistApproval(w)
    BY ONLY <1>0, <1>5 DEF CallNarrows, Fencing, PersistApproval, vars
  <1>6. CASE ValidationRefused(w)
    BY ONLY <1>0, <1>6 DEF CallNarrows, Fencing, ValidationRefused, Withdraw
  <1>7. CASE InsertIntent(w)
    BY ONLY <1>0, <1>7 DEF CallNarrows, Fencing, InsertIntent, Insert, InsertMutation, InsertRefused
  <1>8. CASE FenceIntent(w)
    BY ONLY <1>0, <1>8 DEF CallNarrows, Fencing, FenceIntent, Claim, ClaimDispatchUnknown,
      TransitionMutation, ClaimRefused
  <1>9. CASE Transmit(w)
    BY ONLY <1>0, <1>9 DEF CallNarrows, Fencing, Transmit, Send, SendRefused, Doubt
  <1>10. CASE Receive(w)
    BY ONLY <1>0, <1>10 DEF CallNarrows, Fencing, Receive, Answer, NoAnswer, Doubt
  <1>11. CASE LinkIdentity(w)
    BY ONLY <1>0, <1>11 DEF CallNarrows, Fencing, LinkIdentity, Link
  <1>12. CASE FinishMutation(w)
    BY ONLY <1>0, <1>12 DEF CallNarrows, Fencing, FinishMutation, Finish, FinishRefused,
      TransitionMutation, Outcome
  <1>13. CASE RecordAcknowledged(w) \/ RecordRejected(w) \/ RecordUnknown(w)
    BY ONLY <1>0, <1>13 DEF CallNarrows, Fencing, RecordAcknowledged, RecordRejected,
      RecordUnknown, vars
  <1> QED BY <1>1, <1>2, <1>3, <1>4, <1>5, <1>6, <1>7, <1>8, <1>9, <1>10, <1>11, <1>12, <1>13

\* Such a step lets nobody in.
LEMMA SlotCallsStep ==
  ASSUME NEW w \in Workers, CallNarrows(w)
  PROVE  Narrows
  BY DEF CallNarrows, Narrows, Exposed, Fencing, UnresolvedMutations

\* So does every step of the lifecycle, of a reconciliation and of the broker.
LEMMA SlotOthersStep ==
  ASSUME AdmissionInvariant, SlotInvariant,
         \/ StartRuntime \/ CrashRuntime \/ Drain \/ ShutdownRuntime \/ ExitRuntime
         \/ CapitalEvent \/ ReconcileStep \/ UNCHANGED capitalVars
         \/ \E id \in Ids : DecideOrder(id) \/ LoseOrder(id) \/ OrderEnds(id)
  PROVE  Narrows
  <1>0. /\ journal \in [Ids -> JournalStates \cup {Absent}]
        /\ \A v \in Workers : step[v] \in {"validate", "journal"} => v \in permits
    BY DEF AdmissionInvariant, CapitalTypeOK, TypeOK, StoreTypeOK, SlotInvariant
  <1>1. CASE CrashRuntime
    BY <1>1 DEF CrashRuntime, Crash, storeVars, Narrows, Exposed, Fencing, UnresolvedMutations
  <1>2. CASE CommitReport
    <2>1. /\ UNCHANGED <<step, permits, stage, req>>
          /\ journal' = [id \in Ids |-> IF id \in found THEN "Reconciled" ELSE journal[id]]
      BY <1>2 DEF CommitReport, Commit, CommitReconciliation, callVars, waiting
    <2>2. UnresolvedMutations' \subseteq UnresolvedMutations
      BY <1>0, <2>1 DEF UnresolvedMutations
    <2> QED BY <1>0, <2>1, <2>2 DEF Narrows, Exposed, Fencing
  <1>3. CASE ~CrashRuntime /\ ~CommitReport
    <2>1. UNCHANGED <<step, permits, stage, req, journal>>
      BY ZenonT(60), <1>3 DEF StartRuntime, Start, AcquireOwnership, Drain, ShutdownRuntime, Shutdown,
           ReleaseOwnership, ExitRuntime, Exit, CapitalEvent, ReconcileStep, ReadSnapshot, ListJournal,
           ListUnresolved, AbandonReport, Abandon, Superseded, CacheReport, Conclude, ReadBackRequest,
           ReadBack, ApplyEvidence, DecideOrder, Decide, LoseOrder, Lose, OrderEnds, outside,
           waiting, admissionVars, vars, capitalVars, callVars, storeVars
    <2> QED BY <1>0, <2>1 DEF Narrows, Exposed, Fencing, UnresolvedMutations
  <1> QED BY <1>1, <1>2, <1>3

\* A slot is taken only while there is one.
LEMMA AcquireSlotKeeps ==
  ASSUME AdmissionInvariant, SlotInvariant, NEW w \in Workers, AcquireSlot(w)
  PROVE  SlotInvariant'
  <1>0. /\ step \in [Workers -> Steps] /\ stage \in [Workers -> Stages] /\ req \in [Workers -> Ids]
    BY DEF AdmissionInvariant, CapitalTypeOK, TypeOK
  <1>1. /\ journal' = journal /\ req' = req
        /\ step' \in [Workers -> Steps] /\ step'[w] # "journal"
        /\ \A v \in Workers : v # w => step'[v] = step[v] /\ stage'[v] = stage[v]
    BY <1>0 DEF AcquireSlot, At, Withdraw, Goto, storeVars, vars, Steps, Stages
  <1>2. Exposed' \subseteq Exposed
    BY <1>1 DEF Exposed, Fencing, UnresolvedMutations
  <1>3. CASE permits' = permits \cup {w} /\ Cardinality(permits) < Slots
    <2>0. IsFiniteSet(permits) /\ Cardinality(permits) \in Nat
      BY FS_CardinalityType DEF SlotInvariant
    <2>1. IsFiniteSet(permits') /\ Cardinality(permits') <= Slots
      <3>1. /\ IsFiniteSet(permits \cup {w})
            /\ Cardinality(permits \cup {w}) =
                 IF w \in permits THEN Cardinality(permits) ELSE Cardinality(permits) + 1
        BY ONLY <2>0, FS_AddElement
      <3> QED BY <3>1, <2>0, <1>3, SlotsAssumption
    <2>2. \A v \in Workers : step'[v] \in {"validate", "journal"} => v \in permits'
      BY <1>1, <1>3 DEF SlotInvariant
    <2> QED BY <1>2, <2>1, <2>2, WithinSlots DEF SlotInvariant
  <1>4. CASE permits' = permits /\ step'[w] = "rejected"
    BY <1>1, <1>2, <1>4, WithinSlots DEF SlotInvariant
  <1>5. step' = [step EXCEPT ![w] = "rejected"] => step'[w] = "rejected"
    BY <1>0
  <1> QED BY <1>3, <1>4, <1>5 DEF AcquireSlot, At

\* Nothing but the request itself is in doubt: what is exposed afterwards are
\* requests of calls that hold slots.
LEMMA ValidatedKeeps ==
  ASSUME AdmissionInvariant, SlotInvariant, NEW w \in Workers, Validated(w)
  PROVE  SlotInvariant'
  <1>0. /\ step \in [Workers -> Steps] /\ req \in [Workers -> Ids]
    BY DEF AdmissionInvariant, CapitalTypeOK, TypeOK
  <1>1. /\ UNCHANGED <<journal, stage, req, permits>> /\ UnresolvedMutations \subseteq {req[w]}
        /\ step[w] = "validate"
        /\ \A v \in Workers : v # w => step'[v] = step[v]
    BY <1>0 DEF Validated, At, vars
  <1>2. w \in permits /\ \A v \in Fencing : v \in permits
    BY <1>1 DEF SlotInvariant, Fencing
  <1> DEFINE Held == {req[v] : v \in permits}
  <1>3. IsFiniteSet(Held) /\ Cardinality(Held) <= Slots
    <2> DEFINE f == [v \in permits |-> req[v]]
    <2>1. f \in Surjection(permits, Held)
      BY DEF Surjection
    <2>2. IsFiniteSet(permits) /\ Cardinality(permits) \in Nat
      BY FS_CardinalityType DEF SlotInvariant
    <2> HIDE DEF f, Held
    <2>3. IsFiniteSet(Held) /\ Cardinality(Held) <= Cardinality(permits)
      BY <2>1, <2>2, FS_Surjection
    <2>4. Cardinality(Held) \in Nat
      BY <2>3, FS_CardinalityType
    <2> QED BY <2>2, <2>3, <2>4, SlotsAssumption DEF SlotInvariant
  <1>4. Exposed' \subseteq Held
    BY <1>1, <1>2 DEF Exposed, Fencing, UnresolvedMutations
  <1>5. \A v \in Workers : step'[v] \in {"validate", "journal"} => v \in permits'
    BY <1>1, <1>2 DEF SlotInvariant
  <1> QED BY <1>1, <1>3, <1>4, <1>5, WithinSlots DEF SlotInvariant

\* Every step keeps it.
LEMMA SlotStep ==
  ASSUME AdmissionInvariant, SlotInvariant, [CapitalNext]_capitalVars
  PROVE  SlotInvariant'
  BY CallShape, SlotCallsStep, SlotOthersStep, AcquireSlotKeeps, ValidatedKeeps, NarrowsKeeps
  DEF CapitalNext, CallStep

\* No slot is taken at first.
LEMMA SlotInit == CapitalInit => SlotInvariant
  <1> SUFFICES ASSUME CapitalInit PROVE SlotInvariant
    OBVIOUS
  <1>1. permits = {} /\ Exposed = {} /\ \A w \in Workers : step[w] = "idle"
    BY DEF CapitalInit, Init, StoreInit, Exposed, Fencing, UnresolvedMutations, Absent
  <1> QED BY <1>1, FS_EmptySet, SlotsAssumption DEF SlotInvariant

\* No more requests on the instrument are in doubt at a time than there are
\* execution slots, for any number of calls, requests and restarts
\* (command_slots, validate_before_dispatch).
THEOREM DoubtIsWithinSlots == CapitalSpec => []InDoubtWithinSlots
  <1>1. SlotInvariant => InDoubtWithinSlots
    BY WithinSlots DEF SlotInvariant, InDoubtWithinSlots, Exposed
  <1>2. SlotInvariant /\ AdmissionInvariant /\ [CapitalNext]_capitalVars => SlotInvariant'
    BY SlotStep
  <1> QED BY <1>1, <1>2, SlotInit, AdmissionInvariantHolds, PTL DEF CapitalSpec

-----------------------------------------------------------------------------
(* Sums of lots. HeldLots adds them up with a fold of the library, which   *)
(* is a function defined by recursion over subsets. The facts below are    *)
(* proved by taking a smallest set for which they fail.                    *)

\* A set of numbers has a least element.
LEMMA NatMin ==
  ASSUME NEW T \in SUBSET Nat, T # {}
  PROVE  \E n \in T : \A m \in T : n <= m
  <1> DEFINE R == OpToRel(<, Nat)
  <1>1. IsWellFoundedOn(R, Nat)
    BY NatLessThanWellFounded
  <1>2. R = {ss \in Nat \X Nat : ss[1] < ss[2]}
    BY DEF OpToRel
  <1> HIDE DEF R
  <1>3. PICK n \in T : \A m \in T : ~(<<m, n>> \in R)
    BY Zenon, <1>1, WFMin
  <1>4. \A m \in T : m \in Nat /\ n \in Nat /\ ~(m < n)
    BY Zenon, <1>2, <1>3
  <1> QED BY <1>4

\* The lots that the rows S of the ledger r hold together.
LotsOf(r, S) == Risk!MapThenSumSet(LAMBDA id : Risk!AbsLots(r[id].remaining), S)

Pick(s) == CHOOSE x \in s : TRUE
Lots(r, id) == Risk!AbsLots(r[id].remaining)

\* f adds up the lots of every subset of S.
Folds(f, r, S) ==
  f = [s \in SUBSET S |-> IF s = {} THEN 0 ELSE Lots(r, Pick(s)) + f[s \ {Pick(s)}]]

\* The fold of the library, with its function named.
LEMMA LotsOfFold ==
  ASSUME NEW r, NEW S
  PROVE  LotsOf(r, S) = (CHOOSE f : Folds(f, r, S))[S]
  BY Zenon DEF LotsOf, Risk!MapThenSumSet, Risk!MapThenFoldSet, Folds, Lots, Pick

\* Taking the chosen element out leaves a smaller set.
LEMMA Picked ==
  ASSUME NEW s, s # {}, IsFiniteSet(s)
  PROVE  /\ Pick(s) \in s /\ IsFiniteSet(s \ {Pick(s)})
         /\ Cardinality(s \ {Pick(s)}) = Cardinality(s) - 1
         /\ Cardinality(s) \in Nat /\ Cardinality(s) > 0
  <1>1. Pick(s) \in s
    BY DEF Pick
  <1>2. Cardinality(s) \in Nat /\ Cardinality(s) # 0
    BY FS_EmptySet, FS_CardinalityType
  <1> QED BY <1>1, <1>2, FS_RemoveElement

\* Two such functions agree where both are defined.
LEMMA FoldsAgree ==
  ASSUME NEW r, NEW S, NEW T, NEW f, NEW g, Folds(f, r, S), Folds(g, r, T),
         NEW s \in SUBSET (S \cap T), IsFiniteSet(s)
  PROVE  f[s] = g[s]
  <1> DEFINE Bad == {n \in Nat : \E u \in SUBSET (S \cap T) :
                              IsFiniteSet(u) /\ Cardinality(u) = n /\ f[u] # g[u]}
  <1>1. SUFFICES Bad = {}
    BY FS_CardinalityType
  <1>2. SUFFICES ASSUME Bad # {} PROVE FALSE
    OBVIOUS
  <1>3. PICK n \in Bad : \A m \in Bad : n <= m
    BY Zenon, <1>2, NatMin
  <1>4. PICK u \in SUBSET (S \cap T) : IsFiniteSet(u) /\ Cardinality(u) = n /\ f[u] # g[u]
    BY <1>3
  <1> DEFINE t == u \ {Pick(u)}
  <1>5. CASE u = {}
    BY <1>4, <1>5 DEF Folds
  <1>6. CASE u # {}
    <2>1. IsFiniteSet(t) /\ Cardinality(t) \in Nat /\ Cardinality(t) < n
      BY <1>4, <1>6, Picked
    <2>2. f[t] = g[t]
      <3> SUFFICES ASSUME f[t] # g[t] PROVE FALSE
        OBVIOUS
      <3>1. Cardinality(t) \in Bad
        BY Zenon, <2>1
      <3> QED BY <1>3, <2>1, <3>1
    <2>3. f[u] = Lots(r, Pick(u)) + f[t] /\ g[u] = Lots(r, Pick(u)) + g[t]
      BY Zenon, <1>6 DEF Folds
    <2> QED BY <1>4, <2>2, <2>3
  <1> QED BY <1>5, <1>6

\* Over a finite set there is such a function.
LEMMA FoldExists ==
  ASSUME NEW r, NEW S, IsFiniteSet(S)
  PROVE  \E f : Folds(f, r, S)
  <1> DEFINE Upto(n) == {s \in SUBSET S : Cardinality(s) <= n}
             Body(f, s) == IF s = {} THEN 0 ELSE Lots(r, Pick(s)) + f[s \ {Pick(s)}]
             Bad == {n \in Nat : ~ \E f : f = [s \in Upto(n) |-> Body(f, s)]}
  <1>0. \A s \in SUBSET S : IsFiniteSet(s) /\ Cardinality(s) \in Nat /\ Cardinality(s) <= Cardinality(S)
    BY FS_Subset, FS_CardinalityType
  <1>1. Bad = {}
    <2>1. SUFFICES ASSUME Bad # {} PROVE FALSE
      BY Zenon
    <2>2. PICK n \in Bad : \A m \in Bad : n <= m
      BY Zenon, <2>1, NatMin
    <2>3. n \in Nat
      OBVIOUS
    <2>4. \E f : \A s \in Upto(n) \ {{}} :
                   LET t == s \ {Pick(s)} IN f[t] = Body(f, t)
      <3>1. CASE n = 0
        <4>1. \A s \in Upto(n) : s = {}
          BY <1>0, <3>1, FS_EmptySet
        <4> QED BY <4>1
      <3>2. CASE n # 0
        <4>1. n - 1 \in Nat /\ ~(n <= n - 1)
          BY <2>3, <3>2
        <4>2. n - 1 \notin Bad
          BY Zenon, <2>2, <4>1
        <4>3. PICK f : f = [s \in Upto(n - 1) |-> Body(f, s)]
          BY Zenon, <4>1, <4>2
        <4>4. ASSUME NEW s \in Upto(n) \ {{}}
              PROVE  s \ {Pick(s)} \in Upto(n - 1)
          BY <1>0, <2>3, <4>4, Picked
        <4> QED BY Zenon, <4>3, <4>4
      <3> QED BY Zenon, <3>1, <3>2
    <2>5. PICK f : \A s \in Upto(n) \ {{}} :
                     LET t == s \ {Pick(s)} IN f[t] = Body(f, t)
      BY Zenon, <2>4
    <2> DEFINE g == [s \in Upto(n) |-> Body(f, s)]
    <2>6. ASSUME NEW s \in Upto(n)
          PROVE  g[s] = Body(g, s)
      <3>1. CASE s = {}
        BY <3>1
      <3>2. CASE s # {}
        <4> DEFINE t == s \ {Pick(s)}
        <4>1. t \in Upto(n)
          BY <1>0, <2>3, <3>2, Picked
        <4>2. g[t] = Body(f, t)
          BY <4>1
        <4>3. f[t] = Body(f, t)
          BY <2>5, <3>2
        <4>4. g[s] = Lots(r, Pick(s)) + f[t]
          BY <3>2
        <4> QED BY <3>2, <4>2, <4>3, <4>4
      <3> QED BY <3>1, <3>2
    <2>7. g = [s \in Upto(n) |-> Body(g, s)]
      BY Zenon, <2>6
    <2> HIDE DEF g
    <2> QED BY Zenon, <2>7
  <1>2. Cardinality(S) \in Nat
    BY FS_CardinalityType
  <1>3. PICK f : f = [s \in Upto(Cardinality(S)) |-> Body(f, s)]
    BY Zenon, <1>1, <1>2
  <1>4. Upto(Cardinality(S)) = SUBSET S
    BY <1>0
  <1> QED BY Zenon, <1>3, <1>4 DEF Folds

\* The sum over a finite set: nothing, or one element and the rest.
LEMMA LotsOfStep ==
  ASSUME NEW r, NEW S, IsFiniteSet(S)
  PROVE  LotsOf(r, S) = IF S = {} THEN 0 ELSE Lots(r, Pick(S)) + LotsOf(r, S \ {Pick(S)})
  <1> DEFINE f == CHOOSE f : Folds(f, r, S)
             T == S \ {Pick(S)}
             g == CHOOSE g : Folds(g, r, T)
  <1>1. Folds(f, r, S) /\ LotsOf(r, S) = f[S]
    BY FoldExists, LotsOfFold
  <1>2. CASE S = {}
    BY Zenon, <1>1, <1>2 DEF Folds
  <1>3. CASE S # {}
    <2>1. IsFiniteSet(T)
      BY <1>3, Picked
    <2>2. Folds(g, r, T) /\ LotsOf(r, T) = g[T]
      BY Zenon, <2>1, FoldExists, LotsOfFold
    <2> HIDE DEF f, g
    <2>3. f[T] = g[T]
      BY <1>1, <2>1, <2>2, FoldsAgree
    <2>4. f[S] = Lots(r, Pick(S)) + f[T]
      BY Zenon, <1>1, <1>3 DEF Folds
    <2> QED BY <1>1, <1>3, <2>2, <2>3, <2>4
  <1> QED BY <1>2, <1>3

\* A smallest set for which something goes wrong.
LEMMA SmallestSet ==
  ASSUME NEW Sets, \A s \in Sets : IsFiniteSet(s), Sets # {}
  PROVE  \E s \in Sets : \A t \in Sets : Cardinality(s) <= Cardinality(t)
  <1> DEFINE Sizes == {Cardinality(s) : s \in Sets}
  <1>1. Sizes \in SUBSET Nat /\ Sizes # {}
    BY FS_CardinalityType
  <1>2. PICK n \in Sizes : \A m \in Sizes : n <= m
    BY Zenon, <1>1, NatMin
  <1> QED BY <1>2

\* A sum of natural numbers is one.
LEMMA LotsOfType ==
  ASSUME NEW r, NEW S, IsFiniteSet(S), \A id \in S : Lots(r, id) \in Nat
  PROVE  LotsOf(r, S) \in Nat
  <1> DEFINE Bad == {s \in SUBSET S : LotsOf(r, s) \notin Nat}
  <1>0. \A s \in SUBSET S : IsFiniteSet(s)
    BY FS_Subset
  <1>1. SUFFICES ASSUME Bad # {} PROVE FALSE
    OBVIOUS
  <1>2. PICK s \in Bad : \A t \in Bad : Cardinality(s) <= Cardinality(t)
    BY Zenon, <1>0, <1>1, SmallestSet
  <1>9. LotsOf(r, s) \notin Nat /\ IsFiniteSet(s)
    BY <1>0
  <1>3. s # {}
    <2>1. LotsOf(r, {}) = 0
      BY Zenon, FS_EmptySet, LotsOfStep
    <2> QED BY <1>9, <2>1
  <1> DEFINE t == s \ {Pick(s)}
  <1>4. Pick(s) \in S /\ t \in SUBSET S /\ ~(Cardinality(s) <= Cardinality(t))
    <2>1. s \in SUBSET S
      OBVIOUS
    <2>2. Pick(s) \in s /\ Cardinality(t) = Cardinality(s) - 1 /\ Cardinality(s) \in Nat
      BY <1>3, <1>9, Picked
    <2> QED BY <2>1, <2>2
  <1>5. LotsOf(r, t) \in Nat
    BY <1>2, <1>4
  <1>6. LotsOf(r, s) = Lots(r, Pick(s)) + LotsOf(r, t)
    BY <1>9, <1>3, LotsOfStep
  <1>7. Lots(r, Pick(s)) \in Nat
    BY <1>4
  <1> QED BY <1>5, <1>6, <1>7, <1>9

\* Any element may be taken out first.
LEMMA LotsOfAny ==
  ASSUME NEW r, NEW S, IsFiniteSet(S), \A id \in S : Lots(r, id) \in Nat, NEW x \in S
  PROVE  LotsOf(r, S) = Lots(r, x) + LotsOf(r, S \ {x})
  <1> DEFINE Fine(s) == \A y \in s : LotsOf(r, s) = Lots(r, y) + LotsOf(r, s \ {y})
             Bad == {s \in SUBSET S : ~Fine(s)}
  <1>0. \A s \in SUBSET S : IsFiniteSet(s) /\ Cardinality(s) \in Nat
    BY FS_Subset, FS_CardinalityType
  <1>1. SUFFICES ASSUME Bad # {} PROVE FALSE
    OBVIOUS
  <1>2. PICK s \in Bad : \A t \in Bad : Cardinality(s) <= Cardinality(t)
    BY Zenon, <1>0, <1>1, SmallestSet
  <1>3. PICK y \in s : LotsOf(r, s) # Lots(r, y) + LotsOf(r, s \ {y})
    OBVIOUS
  <1> HIDE DEF Fine
  <1>4. \A z \in s : Fine(s \ {z})
    <2> SUFFICES ASSUME NEW z \in s PROVE Fine(s \ {z})
      OBVIOUS
    <2>1. Cardinality(s \ {z}) = Cardinality(s) - 1
      BY <1>0, FS_RemoveElement
    <2>2. s \ {z} \notin Bad
      BY <1>0, <1>2, <2>1
    <2> QED BY <2>2
  <1> DEFINE p == Pick(s)
  <1>5. p \in s /\ LotsOf(r, s) = Lots(r, p) + LotsOf(r, s \ {p})
    BY <1>0, <1>3, Picked, LotsOfStep
  <1> HIDE DEF p
  <1>6. p # y
    BY <1>3, <1>5
  <1>7. LotsOf(r, s \ {p}) = Lots(r, y) + LotsOf(r, (s \ {p}) \ {y})
    BY <1>3, <1>4, <1>5, <1>6 DEF Fine
  <1>8. LotsOf(r, s \ {y}) = Lots(r, p) + LotsOf(r, (s \ {y}) \ {p})
    BY <1>3, <1>4, <1>5, <1>6 DEF Fine
  <1>9. (s \ {p}) \ {y} = (s \ {y}) \ {p}
    OBVIOUS
  <1>10. Lots(r, y) \in Nat /\ Lots(r, p) \in Nat /\ LotsOf(r, (s \ {p}) \ {y}) \in Nat
    <2>1. s \in SUBSET S /\ (s \ {p}) \ {y} \in SUBSET S
      OBVIOUS
    <2>2. IsFiniteSet((s \ {p}) \ {y}) /\ \A id \in (s \ {p}) \ {y} : Lots(r, id) \in Nat
      BY <1>0, <2>1
    <2>3. LotsOf(r, (s \ {p}) \ {y}) \in Nat
      BY <2>2, LotsOfType
    <2> QED BY <1>3, <1>5, <2>1, <2>3
  <1> DEFINE rest == LotsOf(r, (s \ {p}) \ {y})
             ly == Lots(r, y)
             lp == Lots(r, p)
  <1>11. LotsOf(r, s) = lp + (ly + rest) /\ LotsOf(r, s \ {y}) = lp + rest
    BY <1>5, <1>7, <1>8, <1>9
  <1>12. ly \in Nat /\ lp \in Nat /\ rest \in Nat
    BY <1>10
  <1>13. LotsOf(r, s) # ly + LotsOf(r, s \ {y})
    BY <1>3
  <1> HIDE DEF rest, ly, lp
  <1>14. lp + (ly + rest) = ly + (lp + rest)
    BY <1>12
  <1> QED BY <1>11, <1>13, <1>14

\* The sum depends on the lots of its elements only.
LEMMA LotsOfSame ==
  ASSUME NEW q, NEW r, NEW S, IsFiniteSet(S), \A id \in S : Lots(q, id) = Lots(r, id)
  PROVE  LotsOf(q, S) = LotsOf(r, S)
  <1> DEFINE Bad == {s \in SUBSET S : LotsOf(q, s) # LotsOf(r, s)}
  <1>0. \A s \in SUBSET S : IsFiniteSet(s)
    BY FS_Subset
  <1>1. SUFFICES ASSUME Bad # {} PROVE FALSE
    OBVIOUS
  <1>2. PICK s \in Bad : \A t \in Bad : Cardinality(s) <= Cardinality(t)
    BY Zenon, <1>0, <1>1, SmallestSet
  <1>3. LotsOf(q, s) # LotsOf(r, s) /\ IsFiniteSet(s)
    BY <1>0
  <1>4. s # {}
    BY <1>3, LotsOfStep
  <1> DEFINE t == s \ {Pick(s)}
  <1>5. Pick(s) \in S /\ t \in SUBSET S /\ ~(Cardinality(s) <= Cardinality(t))
    BY <1>3, <1>4, Picked
  <1>6. LotsOf(q, t) = LotsOf(r, t)
    BY <1>2, <1>5
  <1>7. /\ LotsOf(q, s) = Lots(q, Pick(s)) + LotsOf(q, t)
        /\ LotsOf(r, s) = Lots(r, Pick(s)) + LotsOf(r, t)
    BY <1>3, <1>4, LotsOfStep
  <1> QED BY <1>3, <1>5, <1>6, <1>7

-----------------------------------------------------------------------------
(* Capacity.                                                               *)

HeldIds == {id \in Ids : resv[id].state \in Risk!Held}

\* The lots held stay within the limit, over a finite number of rows.
CapacityInvariant == IsFiniteSet(HeldIds) /\ CapacityRespected

\* What the capacity check adds up is a sum over the rows that hold capacity.
LEMMA HeldLotsOf ==
  Risk!HeldLots = LotsOf(resv, HeldIds) /\ Risk!HeldLots' = LotsOf(resv', HeldIds')
  <1>1. Risk!HeldLots = LotsOf(resv, HeldIds)
    BY Zenon DEF Risk!HeldLots, LotsOf, HeldIds
  <1>2. Risk!HeldLots' = LotsOf(resv', HeldIds')
    BY Zenon DEF Risk!HeldLots, LotsOf, HeldIds, Risk!MapThenSumSet, Risk!MapThenFoldSet
  <1> QED BY <1>1, <1>2

\* One row that holds capacity is left with no more lots than it had.
Shrinks(id) ==
  /\ resv[id].state \in Risk!Held
  /\ \A i \in Ids : i # id => resv'[i] = resv[i]
  /\ resv'[id].state \in Risk!Held => Lots(resv', id) <= Lots(resv, id)

\* A ledger update never gives a row more lots than it had.
LEMMA ShrinkStep ==
  ASSUME Risk!RiskTypeOK, NEW id \in Ids, NEW plan,
         plan.kind = "update" =>
           /\ plan.expected \subseteq Risk!Held
           /\ plan.target \in Risk!Held => Risk!AbsLots(plan.remaining) <= Lots(resv, id),
         Succeeds(id, plan) \/ Fails(id, plan)
  PROVE  UNCHANGED resv \/ Shrinks(id)
  <1>1. CASE plan.kind = "update" /\ Risk!UpdateReservation(id, plan)
    <2>1. /\ resv[id].state \in Risk!Held
          /\ resv' = [resv EXCEPT ![id] = [state |-> plan.target, reserved |-> resv[id].reserved,
                                           remaining |-> plan.remaining]]
      BY <1>1 DEF Risk!UpdateReservation
    <2>2. resv'[id].state = plan.target /\ resv'[id].remaining = plan.remaining
      BY <2>1 DEF Risk!RiskTypeOK
    <2> QED BY <1>1, <2>1, <2>2 DEF Shrinks, Lots, Risk!RiskTypeOK
  <1> QED BY <1>1 DEF Succeeds, Fails

\* Lots are added by an approval only (persist_approval).
LEMMA ReservationMoves ==
  ASSUME AdmissionInvariant, [CapitalNext]_capitalVars
  PROVE  \/ UNCHANGED resv
         \/ \E id \in Ids : Risk!PersistApproval(id, 1) \/ Shrinks(id)
  <1>0. Risk!RiskTypeOK /\ req \in [Workers -> Ids]
    BY DEF AdmissionInvariant, CapitalTypeOK, TypeOK
  <1>1. ASSUME NEW w \in Workers, PersistApproval(w)
        PROVE  UNCHANGED resv \/ \E id \in Ids : Risk!PersistApproval(id, 1)
    BY <1>0, <1>1 DEF PersistApproval
  <1>2. ASSUME NEW w \in Workers, RecordAcknowledged(w)
        PROVE  UNCHANGED resv
    BY <1>2 DEF RecordAcknowledged, Succeeds, Fails, Risk!DispatchAcknowledged,
                Risk!Nothing, Risk!Refusal
  <1>3. ASSUME NEW w \in Workers, RecordRejected(w)
        PROVE  UNCHANGED resv \/ Shrinks(req[w])
    <2> DEFINE plan == Risk!BrokerAuthoritativeReject(resv[req[w]])
    <2>1. req[w] \in Ids /\ Succeeds(req[w], plan)
      BY <1>0, <1>3 DEF RecordRejected
    <2>2. plan.kind = "update" => plan.expected \subseteq Risk!Held /\ plan.target \notin Risk!Held
      BY DEF Risk!BrokerAuthoritativeReject, Risk!Nothing, Risk!Update, Risk!Held
    <2> HIDE DEF plan
    <2> QED BY <1>0, <2>1, <2>2, ShrinkStep
  <1>4. ASSUME NEW w \in Workers, RecordUnknown(w)
        PROVE  UNCHANGED resv \/ Shrinks(req[w])
    <2> DEFINE plan == Risk!UnknownAfterDispatch(resv[req[w]])
    <2>1. req[w] \in Ids /\ (Succeeds(req[w], plan) \/ Fails(req[w], plan))
      BY <1>0, <1>4 DEF RecordUnknown
    <2>2. Risk!AbsLots(resv[req[w]].remaining) <= Lots(resv, req[w])
      BY <1>0, <2>1 DEF Lots, Risk!AbsLots, Risk!RiskTypeOK
    <2>3. plan.kind = "update" =>
            plan.expected \subseteq Risk!Held /\ plan.remaining = resv[req[w]].remaining
      BY DEF Risk!UnknownAfterDispatch, Risk!Nothing, Risk!Update, Risk!Held
    <2> HIDE DEF plan
    <2> QED BY <1>0, <2>1, <2>2, <2>3, ShrinkStep
  <1>5. ASSUME NEW id \in Ids, ApplyEvidence(id)
        PROVE  UNCHANGED resv \/ Shrinks(id)
    <2> DEFINE plan == Evidence(id)
    <2>1. Succeeds(id, plan) \/ Fails(id, plan)
      BY <1>5 DEF ApplyEvidence
    <2>2. Risk!AbsLots(resv[id].remaining) <= Lots(resv, id)
      BY <1>0 DEF Lots, Risk!AbsLots, Risk!RiskTypeOK
    <2> DEFINE Fits(p) == p.kind = "update" =>
                 /\ p.expected \subseteq Risk!Held
                 /\ p.target \in Risk!Held =>
                      \/ p.remaining = resv[id].remaining
                      \/ Risk!AbsLots(p.remaining) <= Risk!AbsLots(resv[id].remaining)
    <2>3. Fits(plan)
      <3>1. Fits(Risk!UnknownAfterDispatch(resv[id]))
        BY ONLY DEF Risk!UnknownAfterDispatch, Risk!Nothing, Risk!Update, Risk!Held
      <3>2. Fits(Risk!RuntimeReconciliation(resv[id], 1))
        BY ONLY DEF Risk!RuntimeReconciliation, Risk!Refusal, Risk!Update, Risk!Fillable, Risk!Held
      <3>3. Fits(Risk!BrokerAuthoritativeNoRemainingExposure(resv[id]))
        BY ONLY DEF Risk!BrokerAuthoritativeNoRemainingExposure, Risk!Nothing, Risk!Update, Risk!Held
      <3> HIDE DEF Fits
      <3> QED BY ONLY Zenon, <3>1, <3>2, <3>3 DEF Evidence
    <2>4. plan.kind = "update" =>
            /\ plan.expected \subseteq Risk!Held
            /\ plan.target \in Risk!Held => Risk!AbsLots(plan.remaining) <= Lots(resv, id)
      BY <2>2, <2>3 DEF Lots
    <2> HIDE DEF plan
    <2> QED BY <1>0, <2>1, <2>4, ShrinkStep
  <1>6. \/ UNCHANGED resv
        \/ \E w \in Workers : \/ PersistApproval(w) \/ RecordAcknowledged(w)
                              \/ RecordRejected(w) \/ RecordUnknown(w)
        \/ \E id \in Ids : ApplyEvidence(id)
    BY ReservationActors
  <1> QED BY <1>0, <1>1, <1>2, <1>3, <1>4, <1>5, <1>6

\* A new row is admitted by the transaction that counts; any other step of a
\* row leaves it with no more than it had.
LEMMA CapacityStep ==
  ASSUME AdmissionInvariant, CapacityInvariant, [CapitalNext]_capitalVars
  PROVE  CapacityInvariant'
  <1>0. Risk!RiskTypeOK /\ Risk!RiskTypeOK'
    BY ReservationStep DEF AdmissionInvariant, CapitalTypeOK
  <1>1. \A id \in Ids : Lots(resv, id) \in Nat /\ Lots(resv', id) \in Nat
    BY <1>0 DEF Lots, Risk!AbsLots, Risk!RiskTypeOK
  <1>2. IsFiniteSet(HeldIds) /\ LotsOf(resv, HeldIds) <= MaxLots /\ LotsOf(resv, HeldIds) \in Nat
    BY <1>1, HeldLotsOf, LotsOfType DEF CapacityInvariant, CapacityRespected, HeldIds
  <1>3. SUFFICES IsFiniteSet(HeldIds') /\ LotsOf(resv', HeldIds') <= MaxLots
    BY HeldLotsOf DEF CapacityInvariant, CapacityRespected
  <1>4. CASE UNCHANGED resv
    BY <1>2, <1>4 DEF HeldIds
  <1>5. ASSUME NEW id \in Ids, Risk!PersistApproval(id, 1)
        PROVE  IsFiniteSet(HeldIds') /\ LotsOf(resv', HeldIds') <= MaxLots
    <2>1. /\ id \notin HeldIds /\ HeldIds' = HeldIds \cup {id}
          /\ Lots(resv', id) = 1 /\ \A i \in HeldIds : Lots(resv', i) = Lots(resv, i)
      BY <1>0, <1>5 DEF Risk!PersistApproval, HeldIds, Risk!Held, Lots, Risk!AbsLots, Risk!RiskTypeOK
    <2>2. LotsOf(resv, HeldIds) + 1 <= MaxLots
      BY <1>5, HeldLotsOf DEF Risk!PersistApproval, Risk!HasCapacity, Risk!AbsLots
    <2>3. IsFiniteSet(HeldIds') /\ HeldIds' \ {id} = HeldIds
      BY <1>2, <2>1, FS_AddElement
    <2>4. LotsOf(resv', HeldIds') = Lots(resv', id) + LotsOf(resv', HeldIds' \ {id})
      BY <1>1, <2>1, <2>3, LotsOfAny DEF HeldIds
    <2>5. LotsOf(resv', HeldIds) = LotsOf(resv, HeldIds)
      BY <1>2, <2>1, LotsOfSame
    <2> QED BY <1>2, <2>1, <2>2, <2>3, <2>4, <2>5, SlotsAssumption
  <1>6. ASSUME NEW id \in Ids, Shrinks(id)
        PROVE  IsFiniteSet(HeldIds') /\ LotsOf(resv', HeldIds') <= MaxLots
    <2> DEFINE others == HeldIds \ {id}
    <2>1. id \in HeldIds /\ \A i \in others : Lots(resv', i) = Lots(resv, i)
      BY <1>6 DEF Shrinks, HeldIds, Lots
    <2>2. IsFiniteSet(others)
      BY <1>2, FS_Subset
    <2>3. LotsOf(resv', others) = LotsOf(resv, others) /\ LotsOf(resv, others) \in Nat
      BY <1>1, <2>1, <2>2, LotsOfSame, LotsOfType DEF HeldIds
    <2>4. LotsOf(resv, HeldIds) = Lots(resv, id) + LotsOf(resv, others)
      BY <1>1, <1>2, <2>1, LotsOfAny DEF HeldIds
    <2>5. CASE resv'[id].state \notin Risk!Held
      <3>1. HeldIds' = others
        BY <1>6, <2>5 DEF Shrinks, HeldIds
      <3> QED BY <1>1, <1>2, <2>2, <2>3, <2>4, <3>1, SlotsAssumption
    <2>6. CASE resv'[id].state \in Risk!Held
      <3>1. HeldIds' = HeldIds /\ Lots(resv', id) <= Lots(resv, id)
        BY <1>6, <2>6 DEF Shrinks, HeldIds
      <3>2. LotsOf(resv', HeldIds) = Lots(resv', id) + LotsOf(resv', others)
        BY <1>1, <1>2, <2>1, LotsOfAny DEF HeldIds
      <3> QED BY <1>1, <1>2, <2>3, <2>4, <3>1, <3>2, SlotsAssumption
    <2> QED BY <2>5, <2>6
  <1> QED BY <1>4, <1>5, <1>6, ReservationMoves

\* Nothing is held at first.
LEMMA CapacityInit == CapitalInit => CapacityInvariant
  <1> SUFFICES ASSUME CapitalInit PROVE CapacityInvariant
    OBVIOUS
  <1>1. HeldIds = {}
    BY DEF CapitalInit, Risk!RiskInit, Risk!NoRow, HeldIds, Risk!Held
  <1>2. LotsOf(resv, {}) = 0
    BY FS_EmptySet, LotsOfStep
  <1> QED BY <1>1, <1>2, HeldLotsOf, FS_EmptySet, SlotsAssumption
          DEF CapacityInvariant, CapacityRespected

\* However many calls are admitted at once, crash and come back, and whatever
\* reports and outcomes do to the rows, the lots held on the instrument never
\* exceed the policy's limit (enforce_capacity inside persist_approval_atomic).
THEOREM CapacityIsRespected == CapitalSpec => []CapacityRespected
  <1>1. CapitalInit => CapacityInvariant
    BY CapacityInit
  <1>2. CapacityInvariant /\ AdmissionInvariant /\ [CapitalNext]_capitalVars => CapacityInvariant'
    BY CapacityStep
  <1>3. CapacityInvariant => CapacityRespected
    BY DEF CapacityInvariant
  <1> QED BY <1>1, <1>2, <1>3, AdmissionInvariantHolds, PTL DEF CapitalSpec
=============================================================================
