---------------------------- MODULE RuntimeStore ----------------------------
(***************************************************************************)
(* The durable state the runtime keeps for one account scope, and the      *)
(* transactions on it (crates/vox-runtime/src/store.rs).                   *)
(*                                                                         *)
(*   epoch, lease   the row of runtime_instance: the epoch is raised by    *)
(*                  every acquire_ownership, the lease is cleared by       *)
(*                  release_ownership                                      *)
(*   journal        mutation_journal: the JournalState of every logical    *)
(*                  request, Absent when there is no row                   *)
(*                                                                         *)
(* Every operator below is one SQLite transaction, so it is one step; its  *)
(* guard is the transaction's success condition.  Rows are never deleted   *)
(* (compact only touches the event and audit tables).                      *)
(***************************************************************************)
EXTENDS Naturals, FiniteSets

CONSTANTS
  Ids,              \* logical request ids
  JournalCapacity   \* rows the capacity trigger of mutation_journal admits

VARIABLES epoch, lease, journal

storeVars == <<epoch, lease, journal>>

Absent == "Absent"

JournalStates ==
  {"NotDispatched", "UnknownAfterDispatch", "Acknowledged", "Rejected", "Reconciled"}

TerminalStates == {"Acknowledged", "Rejected", "Reconciled"}

StoreTypeOK ==
  /\ epoch \in Nat
  /\ lease \in BOOLEAN
  /\ journal \in [Ids -> JournalStates \union {Absent}]

StoreInit ==
  /\ epoch = 0
  /\ lease = FALSE
  /\ journal = [id \in Ids |-> Absent]

\* verify_epoch_connection: the caller's epoch is current and its lease is on.
VerifyEpoch(e) == epoch = e /\ lease

\* unresolved_mutations: rows of any epoch whose outcome is not known.
UnresolvedMutations == {id \in Ids : journal[id] = "UnknownAfterDispatch"}

JournalFull == Cardinality({id \in Ids : journal[id] # Absent}) >= JournalCapacity

-----------------------------------------------------------------------------
\* Mutant: a restart takes requests in doubt for not dispatched.
AcquireOwnershipForgetful ==
  /\ epoch' = epoch + 1
  /\ lease' = TRUE
  /\ journal' = [id \in Ids |-> IF journal[id] = "UnknownAfterDispatch"
                                THEN "NotDispatched" ELSE journal[id]]

AcquireOwnership ==
  /\ epoch' = epoch + 1
  /\ lease' = TRUE
  /\ UNCHANGED journal

ReleaseOwnership(e) ==
  /\ VerifyEpoch(e)
  /\ lease' = FALSE
  /\ UNCHANGED <<epoch, journal>>

\* Mutant: a request whose outcome is not known may be inserted again.
CanInsertAgain(id, e) == VerifyEpoch(e) /\ journal[id] \notin TerminalStates /\ ~JournalFull

\* insert_mutation succeeds: the primary key is free and the table has room.
CanInsert(id, e) == VerifyEpoch(e) /\ journal[id] = Absent /\ ~JournalFull

InsertMutation(id, e) ==
  /\ CanInsert(id, e)
  /\ journal' = [journal EXCEPT ![id] = "NotDispatched"]
  /\ UNCHANGED <<epoch, lease>>

\* transition_mutation: compare-and-set on the state of one row.
CanTransition(id, expected, e) == VerifyEpoch(e) /\ journal[id] \in expected

TransitionMutation(id, expected, target, e) ==
  /\ CanTransition(id, expected, e)
  /\ journal' = [journal EXCEPT ![id] = target]
  /\ UNCHANGED <<epoch, lease>>

ClaimDispatchUnknown(id, e) ==
  TransitionMutation(id, {"NotDispatched"}, "UnknownAfterDispatch", e)

\* commit_reconciliation: all the resolved rows are still unresolved, or
\* nothing of the transaction is kept.
CanCommit(resolved, e) == VerifyEpoch(e) /\ resolved \subseteq UnresolvedMutations

CommitReconciliation(resolved, e) ==
  /\ CanCommit(resolved, e)
  /\ journal' = [id \in Ids |-> IF id \in resolved THEN "Reconciled" ELSE journal[id]]
  /\ UNCHANGED <<epoch, lease>>
=============================================================================
