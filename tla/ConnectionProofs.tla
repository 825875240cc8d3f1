--------------------------- MODULE ConnectionProofs ---------------------------
(***************************************************************************)
(* Theorems about RuntimeRegistry over ConnectionLifecycle, for any number *)
(* of requests, faults and restarts: an acknowledged disable or delete is  *)
(* final, and authorization revisions only grow.                           *)
(***************************************************************************)
EXTENDS RuntimeRegistry, Integers, TLAPS

Rows ==
  [enabled : BOOLEAN, status : CredentialStatuses \cup {"None", "Deleted"}, health : Healths, fingerprint : Nat]

Authorizations == [mode : Modes \cup {"manual", "automated"}, revision : Nat]

Places ==
  {"idle", "insert", "put", "onboard", "undo", "await", "accounts", "revoke", "finish", "invalidate", "swap",
   "restore", "row", "audit", "notify", "closing", "undoAccounts", "undoRow", "undoDisable", "secret", "write",
   "open", "credential", "session", "sent", "lock", "repair", "delete", "disable", "fingerprint", "orphans",
   "serve", "failed"}

CallRecord ==
  [op : {"none", "create", "revalidate", "rotate", "disable", "delete", "authorize", "execute", "entry", "recover"},
   pc : Places, row : Rows, next : Rows, credential : Nat, previous : Nat, level : Levels, old : Levels,
   revision : Nat, purpose : Modes \cup {"manual", "automated"}, ok : BOOLEAN]

Processes == Calls \cup {Boot}

StateType ==
  /\ row \in Rows
  /\ account \in Levels
  /\ auth \in Authorizations
  /\ secret \in [credential : Nat, disabled : BOOLEAN]
  /\ call \in [Processes -> CallRecord]
  /\ issued \in Nat

\* No credential can be stored for the first time any more.
Creating(c) == call[c].op = "create" /\ call[c].pc \in {"insert", "put"}
NoPut == issued # 0 /\ \A c \in Processes : ~Creating(c)

\* There is one creation, and it stores the credential once.
OneCreation ==
  /\ issued = 0 => \A c \in Processes : call[c].op # "create"
  /\ \A c, d \in Processes : call[c].op = "create" /\ call[d].op = "create" => c = d
  /\ Stored => NoPut

\* Nothing can open the connection again: its credential is disabled, or is
\* gone and will not be stored again, or the row is gone.
Sealed ==
  \/ Stored /\ secret.disabled
  \/ ~Stored /\ NoPut
  \/ row.status = "Deleted"

SealedBeforeAcknowledged ==
  /\ final => Sealed
  /\ \A c \in Processes : call[c].op = "disable" /\ call[c].pc \in {"row", "notify", "closing"} => Sealed
  /\ \A c \in Processes : call[c].op = "delete" /\ call[c].pc \in {"notify", "closing"} => row.status = "Deleted"

\* An account that is not known has no authorization.
NoAccountNoRevision == account = "absent" => auth.revision = 0

ConnectionInvariant ==
  StateType /\ OneCreation /\ SealedBeforeAcknowledged /\ NoAccountNoRevision

-----------------------------------------------------------------------------
(* What any step of one process may do, but for the beginning of a creation *)
(* and the step that stores its credential.                                *)

Alone(c) == call' \in [Processes -> CallRecord] /\ \A d \in Processes \ {c} : call'[d] = call[d]

\* Where c arrives.
Arrives(c) ==
  /\ call'[c].op = "create" => call[c].op = "create" /\ (call'[c].pc \in {"insert", "put"} => Creating(c))
  /\ call'[c].op = "disable" /\ call'[c].pc \in {"row", "notify", "closing"} => Sealed \/ Sealed'
  /\ call'[c].op = "delete" /\ call'[c].pc \in {"notify", "closing"} => row'.status = "Deleted"

\* A deleted row stays deleted.
RowMoves == row' \in Rows /\ (row.status = "Deleted" => row'.status = "Deleted")

\* A credential is not stored again and not enabled again.
SecretMoves ==
  /\ secret' \in [credential : Nat, disabled : BOOLEAN]
  /\ Stored' => Stored /\ (secret.disabled => secret'.disabled)

\* An authorization changes by taking a higher revision, or goes with its row.
AuthMoves ==
  /\ account' \in Levels /\ auth' \in Authorizations
  /\ NoAccountNoRevision'
  /\ Exists /\ row'.status \in CredentialStatuses =>
       auth'.revision >= auth.revision /\ (auth' # auth => auth'.revision > auth.revision)

Moves(c) ==
  /\ Alone(c) /\ Arrives(c) /\ RowMoves /\ SecretMoves /\ AuthMoves
  /\ issued' \in Nat /\ (issued # 0 => issued' # 0)
  /\ final' => final \/ Sealed

LEMMA NoPutStays ==
  ASSUME StateType, NEW c \in Processes, Alone(c), Arrives(c), NoPut, issued # 0 => issued' # 0
  PROVE  NoPut'
  BY DEF StateType, Alone, Arrives, NoPut, Creating

LEMMA SealedStays ==
  ASSUME ConnectionInvariant, NEW c \in Processes, Moves(c), Sealed
  PROVE  Sealed'
<1>1. NoPut => NoPut'
  BY NoPutStays DEF ConnectionInvariant, Moves
<1>2. CASE Stored /\ secret.disabled
  <2>1. NoPut'
    BY <1>1, <1>2 DEF ConnectionInvariant, OneCreation
  <2>2. Stored' => secret'.disabled
    BY <1>2 DEF Moves, SecretMoves
  <2> QED
    BY <2>1, <2>2 DEF Sealed
<1>3. CASE ~Stored /\ NoPut
  BY <1>1, <1>3 DEF Moves, SecretMoves, Sealed
<1>4. CASE row.status = "Deleted"
  BY <1>4 DEF Moves, RowMoves, Sealed
<1> QED
  BY <1>2, <1>3, <1>4 DEF Sealed

LEMMA MovesKeep ==
  ASSUME ConnectionInvariant, NEW c \in Processes, Moves(c)
  PROVE  ConnectionInvariant'
<1>1. StateType'
  BY DEF Moves, Alone, RowMoves, SecretMoves, AuthMoves, StateType
<1>2. \A d \in Processes : call'[d].op = "create" => call[d].op = "create"
  BY DEF Moves, Alone, Arrives
<1>3. OneCreation'
  <2>1. issued' = 0 => \A d \in Processes : call'[d].op # "create"
    BY <1>2 DEF Moves, ConnectionInvariant, OneCreation
  <2>2. \A d, e \in Processes : call'[d].op = "create" /\ call'[e].op = "create" => d = e
    BY <1>2 DEF ConnectionInvariant, OneCreation
  <2>3. Stored' => NoPut'
    BY NoPutStays DEF ConnectionInvariant, OneCreation, Moves, SecretMoves
  <2> QED
    BY <2>1, <2>2, <2>3 DEF OneCreation
<1>4. SealedBeforeAcknowledged'
  <2>1. final' => Sealed'
    BY SealedStays DEF Moves, ConnectionInvariant, SealedBeforeAcknowledged
  <2>2. ASSUME NEW d \in Processes, call'[d].op = "disable", call'[d].pc \in {"row", "notify", "closing"}
        PROVE  Sealed'
    BY <2>2, SealedStays DEF Moves, Alone, Arrives, ConnectionInvariant, SealedBeforeAcknowledged
  <2>3. ASSUME NEW d \in Processes, call'[d].op = "delete", call'[d].pc \in {"notify", "closing"}
        PROVE  row'.status = "Deleted"
    BY <2>3 DEF Moves, Alone, Arrives, RowMoves, ConnectionInvariant, SealedBeforeAcknowledged
  <2> QED
    BY <2>1, <2>2, <2>3 DEF SealedBeforeAcknowledged
<1>5. NoAccountNoRevision'
  BY DEF Moves, AuthMoves
<1> QED
  BY <1>1, <1>3, <1>4, <1>5 DEF ConnectionInvariant

-----------------------------------------------------------------------------
(* The transactions.                                                       *)

PlatformMoves == RowMoves /\ AuthMoves

LEMMA PlatformRests ==
  ASSUME ConnectionInvariant, UNCHANGED platform
  PROVE  PlatformMoves
  BY DEF ConnectionInvariant, StateType, NoAccountNoRevision, Authorizations,
         platform, PlatformMoves, RowMoves, AuthMoves

LEMMA UpdateMoves ==
  ASSUME ConnectionInvariant, NEW r \in Rows, UpdateConnection(r)
  PROVE  PlatformMoves
  BY DEF ConnectionInvariant, StateType, NoAccountNoRevision, Authorizations, UpdateConnection, Exists,
         CredentialStatuses, PlatformMoves, RowMoves, AuthMoves

LEMMA OnboardingMoves ==
  ASSUME ConnectionInvariant, NEW r \in Rows, NEW level \in Levels, InsertOnboarding(r, level)
  PROVE  PlatformMoves
<1>1. RowMoves
  BY DEF InsertOnboarding, Exists, CredentialStatuses, RowMoves
<1>2. CASE level = "absent"
  BY <1>1, <1>2 DEF ConnectionInvariant, StateType, NoAccountNoRevision, Authorizations, InsertOnboarding,
                    PlatformMoves, AuthMoves
<1>3. CASE level # "absent"
  <2>1. account' = level /\ auth' = [mode |-> "Disabled", revision |-> 1] /\ auth.revision = 0
    BY <1>3 DEF ConnectionInvariant, NoAccountNoRevision, InsertOnboarding
  <2>2. auth' \in Authorizations /\ auth'.revision = 1
    BY <2>1 DEF Authorizations, Modes
  <2> QED
    BY <1>1, <1>3, <2>1, <2>2 DEF NoAccountNoRevision, PlatformMoves, AuthMoves
<1> QED
  BY <1>2, <1>3

LEMMA ReplaceMoves ==
  ASSUME ConnectionInvariant, NEW level \in Levels, ReplaceAccounts(level)
  PROVE  PlatformMoves
<1>1. account' \in Levels /\ (account' = "absent" => account = "absent")
  BY DEF ReplaceAccounts, Replaced, Levels
<1> QED
  BY <1>1 DEF ConnectionInvariant, StateType, NoAccountNoRevision, Authorizations, ReplaceAccounts,
              PlatformMoves, RowMoves, AuthMoves

LEMMA BindingMoves ==
  ASSUME ConnectionInvariant, PutBinding \/ DeleteBinding \/ DisableBinding
  PROVE  PlatformMoves
  BY DEF ConnectionInvariant, StateType, NoAccountNoRevision, Authorizations, PutBinding, DeleteBinding,
         DisableBinding, PlatformMoves, RowMoves, AuthMoves

LEMMA CasMoves ==
  ASSUME ConnectionInvariant, NEW mode \in Modes \cup {"manual", "automated"}, NEW expected,
         AuthorizationCas(mode, expected)
  PROVE  PlatformMoves
<1>1. auth.revision \in Nat /\ auth.revision # 0 /\ auth' = [mode |-> mode, revision |-> auth.revision + 1]
  BY DEF ConnectionInvariant, StateType, Authorizations, AuthorizationCas
<1>2. auth' \in Authorizations /\ auth'.revision = auth.revision + 1
  BY <1>1 DEF Authorizations
<1>3. account' = account /\ account # "absent" /\ UNCHANGED row
  BY <1>1 DEF ConnectionInvariant, NoAccountNoRevision, AuthorizationCas
<1> QED
  BY <1>1, <1>2, <1>3 DEF ConnectionInvariant, StateType, NoAccountNoRevision, PlatformMoves, RowMoves, AuthMoves

LEMMA InvalidateMoves ==
  ASSUME ConnectionInvariant, InvalidateAuthorizations
  PROVE  PlatformMoves
<1>1. CASE auth.revision = 0
  BY <1>1, PlatformRests DEF InvalidateAuthorizations, platform
<1>2. CASE auth.revision # 0
  <2>1. auth' \in Authorizations /\ auth'.revision = auth.revision + 1 /\ auth.revision \in Nat
    BY <1>2 DEF ConnectionInvariant, StateType, Authorizations, InvalidateAuthorizations
  <2>2. account' = account /\ account # "absent" /\ UNCHANGED row
    BY <1>2 DEF ConnectionInvariant, NoAccountNoRevision, InvalidateAuthorizations
  <2> QED
    BY <2>1, <2>2 DEF ConnectionInvariant, StateType, NoAccountNoRevision, PlatformMoves, RowMoves, AuthMoves
<1> QED
  BY <1>1, <1>2

LEMMA DeleteMoves ==
  ASSUME ConnectionInvariant, DeleteConnection
  PROVE  PlatformMoves /\ row'.status = "Deleted"
<1>1. row' \in Rows /\ row'.status = "Deleted"
  BY Zenon DEF DeleteConnection, NoRow, Rows, Healths
<1>2. auth' \in Authorizations /\ auth'.revision = 0 /\ account' = "absent"
  BY DEF DeleteConnection, NoAuth, Authorizations, Modes
<1> QED
  BY <1>1, <1>2 DEF CredentialStatuses, Levels, NoAccountNoRevision, PlatformMoves, RowMoves, AuthMoves

LEMMA SecretRests ==
  ASSUME ConnectionInvariant, UNCHANGED secret
  PROVE  SecretMoves
  BY DEF ConnectionInvariant, StateType, SecretMoves, Stored

LEMMA RotateMoves ==
  ASSUME ConnectionInvariant, NEW n \in Nat, SecretRotate(n)
  PROVE  SecretMoves
  BY DEF ConnectionInvariant, StateType, SecretRotate, Usable, SecretMoves, Stored

LEMMA SealMoves ==
  ASSUME ConnectionInvariant, SecretDisable
  PROVE  SecretMoves /\ Sealed'
  BY Zenon DEF ConnectionInvariant, StateType, SecretDisable, SecretMoves, Stored, Sealed

LEMMA EraseMoves ==
  ASSUME ConnectionInvariant, SecretDelete
  PROVE  SecretMoves
  BY DEF SecretDelete, NoSecret, SecretMoves, Stored

LEMMA InsertMoves ==
  ASSUME ConnectionInvariant, NEW r \in Rows, InsertConnection(r)
  PROVE  PlatformMoves
  BY DEF ConnectionInvariant, StateType, NoAccountNoRevision, Authorizations, InsertConnection, Exists,
         CredentialStatuses, PlatformMoves, RowMoves, AuthMoves

-----------------------------------------------------------------------------
(* Moving a request on.                                                    *)

LEMMA IdleType == Idle \in CallRecord /\ Idle.op = "none"
  BY DEF Idle, NoRow, CallRecord, Rows, Places, Healths, Levels

LEMMA HoldLands ==
  ASSUME ConnectionInvariant, NEW c \in Processes, NEW r \in CallRecord, Hold(c, r)
  PROVE  Alone(c) /\ call'[c] = r
  BY DEF ConnectionInvariant, StateType, Hold, Alone

LEMMA GotoLands ==
  ASSUME ConnectionInvariant, NEW c \in Processes, NEW l \in Places \cup {"end"}, Goto(c, l)
  PROVE  /\ Alone(c)
         /\ IF l = "end" THEN call'[c].op = "none" ELSE call'[c].op = call[c].op /\ call'[c].pc = l
<1>1. CASE l = "end"
  BY <1>1, IdleType, HoldLands DEF Goto
<1>2. CASE l # "end"
  <2> DEFINE r == [call[c] EXCEPT !.pc = l]
  <2>1. r \in CallRecord /\ r.op = call[c].op /\ r.pc = l
    BY <1>2 DEF ConnectionInvariant, StateType, CallRecord
  <2>2. Hold(c, r)
    BY <1>2 DEF Goto
  <2> HIDE DEF r
  <2> QED
    BY <1>2, <2>1, <2>2, HoldLands
<1> QED
  BY <1>1, <1>2

LEMMA Moved ==
  ASSUME ConnectionInvariant, NEW c \in Processes, Alone(c), Arrives(c), PlatformMoves, SecretMoves,
         UNCHANGED <<issued, final>>
  PROVE  Moves(c)
  BY DEF ConnectionInvariant, StateType, PlatformMoves, Moves

LEMMA HeldFields ==
  ASSUME ConnectionInvariant, NEW c \in Processes
  PROVE  /\ call[c] \in CallRecord
         /\ call[c].row \in Rows /\ call[c].next \in Rows
         /\ call[c].credential \in Nat /\ call[c].previous \in Nat /\ call[c].revision \in Nat
         /\ call[c].level \in Levels /\ call[c].old \in Levels
         /\ call[c].purpose \in Modes \cup {"manual", "automated"}
  BY DEF ConnectionInvariant, StateType, CallRecord

LEMMA ComputedRows ==
  ASSUME NEW r \in Rows
  PROVE  /\ \A error : Refused(r, error) \in Rows
         /\ \A level : Accepted(r, level) \in Rows
         /\ InconsistentRow(r) \in Rows
         /\ ClosedRow(r, "PendingDisable") \in Rows /\ ClosedRow(r, "Disabled") \in Rows
         /\ ClosedRow(r, "PendingDelete") \in Rows
<1>1. ASSUME NEW error PROVE Refused(r, error) \in Rows
  BY Zenon DEF Refused, Rows, CredentialStatuses, Healths
<1>2. ASSUME NEW level PROVE Accepted(r, level) \in Rows
  BY Zenon DEF Accepted, Rows, CredentialStatuses, Healths
<1>3. InconsistentRow(r) \in Rows
  BY Zenon DEF InconsistentRow, Rows, CredentialStatuses, Healths
<1>4. ASSUME NEW status \in CredentialStatuses PROVE ClosedRow(r, status) \in Rows
  BY Zenon DEF ClosedRow, Rows, CredentialStatuses, Healths
<1> QED
  BY <1>1, <1>2, <1>3, <1>4 DEF CredentialStatuses

LEMMA OnboardingRows ==
  PendingRow \in Rows /\ \A n \in Nat : OnboardedRow(n) \in Rows
  BY DEF PendingRow, OnboardedRow, Rows, CredentialStatuses, Healths

LEMMA GotoArrives ==
  ASSUME ConnectionInvariant, NEW c \in Processes, NEW l \in Places \cup {"end"}, Goto(c, l),
         l \notin {"insert", "put", "notify", "closing"}, call[c].op = "disable" => l # "row"
  PROVE  Alone(c) /\ Arrives(c)
  BY GotoLands DEF Arrives

-----------------------------------------------------------------------------
(* Onboarding.                                                             *)

LEMMA CreationMoves ==
  ASSUME ConnectionInvariant, NEW c \in Calls,
         CreateInsert(c) \/ CreateOnboard(c) \/ CreateUndo(c)
  PROVE  Moves(c)
<1>0. c \in Processes
  BY DEF Processes
<1>1. CASE CreateInsert(c)
  <2>1. PlatformMoves
    BY <1>1, InsertMoves, PlatformRests, OnboardingRows DEF CreateInsert, Writes
  <2>2. (Goto(c, "put") \/ Goto(c, "end")) /\ Creating(c) /\ call[c].op = "create"
    BY <1>1 DEF CreateInsert, Writes, At, Creating
  <2>3. Alone(c) /\ Arrives(c)
    BY <1>0, <2>2, GotoLands DEF Arrives, Places
  <2>4. SecretMoves /\ UNCHANGED <<issued, final>>
    BY <1>1, SecretRests DEF CreateInsert, Writes
  <2> QED
    BY <1>0, <2>1, <2>3, <2>4, Moved
<1>2. CASE CreateOnboard(c)
  <2>1. PlatformMoves
    BY <1>2, <1>0, OnboardingMoves, PlatformRests, OnboardingRows, HeldFields DEF CreateOnboard, Writes
  <2>2. (Goto(c, "end") \/ Goto(c, "undo"))
    BY <1>2 DEF CreateOnboard, Writes, At
  <2>3. Alone(c) /\ Arrives(c)
    BY <1>0, <2>2, GotoArrives DEF Places
  <2>4. SecretMoves /\ UNCHANGED <<issued, final>>
    BY <1>2, SecretRests DEF CreateOnboard, Writes
  <2> QED
    BY <1>0, <2>1, <2>3, <2>4, Moved
<1>3. CASE CreateUndo(c)
  <2>1. PlatformMoves
    BY <1>3, PlatformRests DEF CreateUndo, Seals
  <2>2. (Goto(c, "end"))
    BY <1>3 DEF CreateUndo, Seals, At
  <2>3. Alone(c) /\ Arrives(c)
    BY <1>0, <2>2, GotoArrives DEF Places
  <2>4. SecretMoves /\ UNCHANGED <<issued, final>>
    BY <1>3, SecretRests, EraseMoves DEF CreateUndo, Seals
  <2> QED
    BY <1>0, <2>1, <2>3, <2>4, Moved
<1> QED
  BY <1>1, <1>2, <1>3

-----------------------------------------------------------------------------
(* Revalidation.                                                           *)

LEMMA RevalidationBegins ==
  ASSUME ConnectionInvariant, NEW c \in Calls,
         Revalidate(c)
  PROVE  Moves(c)
<1>0. c \in Processes
  BY DEF Processes
<1>1. CASE Revalidate(c)
  <2>1. PlatformMoves
    BY <1>1, PlatformRests DEF Revalidate
  <2> DEFINE r == [Idle EXCEPT !.op = "revalidate", !.pc = "await", !.row = row]
  <2>2. r \in CallRecord /\ r.op = "revalidate"
    BY Zenon, IdleType DEF ConnectionInvariant, StateType, CallRecord, Places
  <2>3. Alone(c) /\ Arrives(c)
    <3> HIDE DEF r
    <3>1. Hold(c, r)
      BY <1>1 DEF r, Revalidate
    <3> QED
      BY <1>0, <2>2, <3>1, HoldLands DEF Arrives
  <2>4. SecretMoves /\ UNCHANGED <<issued, final>>
    BY <1>1, SecretRests DEF Revalidate
  <2> QED
    BY <1>0, <2>1, <2>3, <2>4, Moved
<1> QED
  BY <1>1

LEMMA RevalidationMoves ==
  ASSUME ConnectionInvariant, NEW c \in Processes,
         RevalidateStep(c)
  PROVE  Moves(c)
<1>0. c \in Processes
  OBVIOUS
<1>1. CASE RevalidateAccepted(c)
  <2>1. PICK level \in Answers :
          LET r == Accepted(call[c].row, level) IN
          /\ \/ /\ UpdateConnection(r)
                /\ Hold(c, [call[c] EXCEPT !.pc = "accounts", !.row = r, !.level = level])
             \/ Goto(c, Error(c)) /\ UNCHANGED platform
          /\ UNCHANGED <<secret, issued, final>>
    BY Zenon, <1>1 DEF RevalidateAccepted
  <2> DEFINE r == Accepted(call[c].row, level)
             next == [call[c] EXCEPT !.pc = "accounts", !.row = r, !.level = level]
  <2>2. r \in Rows /\ level \in Levels
    BY <1>0, <2>1, HeldFields, ComputedRows, LifecycleAssumption
  <2>3. next \in CallRecord /\ next.op = "revalidate"
    <3> DEFINE n1 == [call[c] EXCEPT !.pc = "accounts"]
               n2 == [n1 EXCEPT !.row = r]
    <3>1. n1 \in CallRecord /\ n1.op = "revalidate"
      BY <1>0, <1>1, HeldFields DEF CallRecord, Places, RevalidateAccepted, At
    <3> HIDE DEF n1, r
    <3>2. n2 \in CallRecord /\ n2.op = "revalidate"
      BY <2>2, <3>1 DEF CallRecord
    <3>3. next = [n2 EXCEPT !.level = level]
      BY DEF n1
    <3> HIDE DEF n2, next
    <3> QED
      BY <2>2, <3>2, <3>3 DEF CallRecord
  <2>4. \/ UpdateConnection(r) /\ Hold(c, next)
        \/ (Goto(c, "end") \/ Goto(c, "failed")) /\ UNCHANGED platform
    BY <2>1 DEF Error
  <2> HIDE DEF next, r
  <2>5. PlatformMoves
    BY <2>2, <2>4, UpdateMoves, PlatformRests
  <2>6. Alone(c) /\ Arrives(c)
    BY <1>0, <2>3, <2>4, HoldLands, GotoArrives DEF Arrives, Places
  <2> QED
    BY <1>0, <2>1, <2>5, <2>6, SecretRests, Moved
<1>2. CASE RevalidateRefused(c)
  <2>1. PlatformMoves
    BY Zenon, <1>2, <1>0, UpdateMoves, PlatformRests, HeldFields, ComputedRows DEF RevalidateRefused, Updates, Writes, Error
  <2>2. (Goto(c, "orphans") \/ Goto(c, "end") \/ Goto(c, "failed"))
    BY <1>2 DEF RevalidateRefused, Updates, Writes, Error, At
  <2>3. Alone(c) /\ Arrives(c)
    BY <1>0, <2>2, GotoArrives DEF Places
  <2>4. SecretMoves /\ UNCHANGED <<issued, final>>
    BY <1>2, SecretRests DEF RevalidateRefused, Updates, Writes, Error
  <2> QED
    BY <1>0, <2>1, <2>3, <2>4, Moved
<1>3. CASE RevalidateAccounts(c)
  <2>1. PlatformMoves
    BY <1>3, <1>0, ReplaceMoves, PlatformRests, HeldFields DEF RevalidateAccounts, Writes, Error
  <2>2. (Goto(c, "revoke") \/ Goto(c, "end") \/ Goto(c, "failed"))
    BY <1>3 DEF RevalidateAccounts, Writes, Error, At
  <2>3. Alone(c) /\ Arrives(c)
    BY <1>0, <2>2, GotoArrives DEF Places
  <2>4. SecretMoves /\ UNCHANGED <<issued, final>>
    BY <1>3, SecretRests DEF RevalidateAccounts, Writes, Error
  <2> QED
    BY <1>0, <2>1, <2>3, <2>4, Moved
<1>4. CASE RevalidateRevoke(c)
  <2>1. PlatformMoves
    BY <1>4, CasMoves, PlatformRests DEF RevalidateRevoke, RevokeInvalid, Writes, Error, Modes
  <2>2. (Goto(c, "finish") \/ Goto(c, "end") \/ Goto(c, "failed"))
    BY <1>4 DEF RevalidateRevoke, RevokeInvalid, Writes, Error, Modes, At
  <2>3. Alone(c) /\ Arrives(c)
    BY <1>0, <2>2, GotoArrives DEF Places
  <2>4. SecretMoves /\ UNCHANGED <<issued, final>>
    BY <1>4, SecretRests DEF RevalidateRevoke, RevokeInvalid, Writes, Error, Modes
  <2> QED
    BY <1>0, <2>1, <2>3, <2>4, Moved
<1>5. CASE RevalidateFinish(c)
  <2>1. PlatformMoves
    BY <1>5, <1>0, UpdateMoves, PlatformRests, HeldFields DEF RevalidateFinish, Updates, Writes, Error
  <2>2. (Goto(c, "fingerprint") \/ Goto(c, "end") \/ Goto(c, "failed"))
    BY <1>5 DEF RevalidateFinish, Updates, Writes, Error, At
  <2>3. Alone(c) /\ Arrives(c)
    BY <1>0, <2>2, GotoArrives DEF Places
  <2>4. SecretMoves /\ UNCHANGED <<issued, final>>
    BY <1>5, SecretRests DEF RevalidateFinish, Updates, Writes, Error
  <2> QED
    BY <1>0, <2>1, <2>3, <2>4, Moved
<1> QED
  BY <1>1, <1>2, <1>3, <1>4, <1>5 DEF RevalidateStep

-----------------------------------------------------------------------------
(* Rotation.                                                               *)

LEMMA RotationBegins ==
  ASSUME ConnectionInvariant, NEW c \in Calls, Rotate(c)
  PROVE  Moves(c)
<1>0. c \in Processes
  BY DEF Processes
<1> DEFINE r == [Idle EXCEPT !.op = "rotate", !.pc = "await", !.row = row, !.credential = issued + 1]
<1>1. issued \in Nat /\ row \in Rows
  BY DEF ConnectionInvariant, StateType
<1>2. r \in CallRecord /\ r.op = "rotate"
  <2> DEFINE n1 == [Idle EXCEPT !.op = "rotate", !.pc = "await"]
             n2 == [n1 EXCEPT !.row = row]
  <2>1. n1 \in CallRecord /\ n1.op = "rotate"
    BY Zenon, IdleType DEF CallRecord, Places
  <2> HIDE DEF n1
  <2>2. n2 \in CallRecord /\ n2.op = "rotate"
    BY <1>1, <2>1 DEF CallRecord
  <2>3. r = [n2 EXCEPT !.credential = issued + 1] /\ issued + 1 \in Nat
    BY <1>1 DEF n1
  <2> HIDE DEF n2, r
  <2> QED
    BY <2>2, <2>3 DEF CallRecord
<1>3. Hold(c, r)
  BY DEF Rotate
<1> HIDE DEF r
<1>4. Alone(c) /\ Arrives(c)
  BY <1>0, <1>2, <1>3, HoldLands DEF Arrives
<1>5. issued' \in Nat /\ issued' # 0 /\ final' = final
  BY <1>1 DEF Rotate
<1>6. PlatformMoves /\ SecretMoves
  BY PlatformRests, SecretRests DEF Rotate
<1> QED
  BY <1>4, <1>5, <1>6 DEF Moves, PlatformMoves

LEMMA RotationGates ==
  ASSUME ConnectionInvariant, NEW c \in Calls, RotateGate(c)
  PROVE  Moves(c)
<1>0. c \in Processes
  BY DEF Processes
<1>1. CASE Goto(c, "end") /\ UNCHANGED <<platform, secret, issued, final>>
  BY <1>0, <1>1, GotoArrives, PlatformRests, SecretRests, Moved
<1>2. ASSUME NEW level \in Answers, NEW next,
             next = [Accepted(call[c].row, level) EXCEPT !.fingerprint = call[c].credential],
             UpdateConnection([call[c].row EXCEPT !.health = "Validating"]),
             Hold(c, [call[c] EXCEPT !.pc = "invalidate", !.level = level, !.old = account,
                                     !.previous = secret.credential, !.next = next]),
             call[c].op = "rotate", UNCHANGED <<secret, issued, final>>
      PROVE  Moves(c)
  <2>1. next \in Rows
    <3> DEFINE a == Accepted(call[c].row, level)
    <3>1. a \in Rows /\ call[c].credential \in Nat
      BY Zenon, <1>0, HeldFields, ComputedRows
    <3>2. next = [a EXCEPT !.fingerprint = call[c].credential]
      BY <1>2
    <3> HIDE DEF a
    <3> QED
      BY <3>1, <3>2 DEF Rows
  <2>2. [call[c].row EXCEPT !.health = "Validating"] \in Rows
    BY <1>0, HeldFields DEF Rows, Healths
  <2>3. PlatformMoves
    BY <1>2, <2>2, UpdateMoves
  <2> DEFINE n1 == [call[c] EXCEPT !.pc = "invalidate"]
             n2 == [n1 EXCEPT !.level = level]
             n3 == [n2 EXCEPT !.old = account]
             n4 == [n3 EXCEPT !.previous = secret.credential]
             n5 == [n4 EXCEPT !.next = next]
  <2>4. Hold(c, n5)
    BY <1>2
  <2>5. n1 \in CallRecord /\ n1.op = "rotate"
    BY <1>0, <1>2, HeldFields DEF CallRecord, Places
  <2> HIDE DEF n1
  <2>6. n2 \in CallRecord /\ n2.op = "rotate"
    BY <2>5, LifecycleAssumption DEF CallRecord
  <2> HIDE DEF n2
  <2>7. n3 \in CallRecord /\ n3.op = "rotate"
    BY <2>6 DEF CallRecord, ConnectionInvariant, StateType
  <2> HIDE DEF n3
  <2>8. n4 \in CallRecord /\ n4.op = "rotate"
    BY <2>7 DEF CallRecord, ConnectionInvariant, StateType
  <2> HIDE DEF n4
  <2>9. n5 \in CallRecord /\ n5.op = "rotate"
    BY <2>1, <2>8 DEF CallRecord
  <2> HIDE DEF n5
  <2>10. Alone(c) /\ Arrives(c)
    BY <1>0, <2>4, <2>9, HoldLands DEF Arrives
  <2> QED
    BY <1>0, <1>2, <2>3, <2>10, SecretRests, Moved
<1> QED
  BY Zenon, <1>1, <1>2 DEF RotateGate, At


LEMMA RotationMoves ==
  ASSUME ConnectionInvariant, NEW c \in Calls,
         \/ RotateInvalidate(c) \/ RotateSwap(c) \/ RotateRestore(c) \/ RotateAccounts(c) \/ RotateRow(c)
         \/ RotateRevoke(c) \/ RotateAudit(c) \/ RotateUndo(c) \/ RotateUndoAccounts(c) \/ RotateUndoRow(c)
         \/ RotateUndoDisable(c)
  PROVE  Moves(c)
<1>0. c \in Processes
  BY DEF Processes
<1>1. CASE RotateInvalidate(c)
  <2>1. PlatformMoves
    BY <1>1, InvalidateMoves, PlatformRests DEF RotateInvalidate, Writes
  <2>2. (Goto(c, "swap") \/ Goto(c, "end"))
    BY <1>1 DEF RotateInvalidate, Writes, At
  <2>3. Alone(c) /\ Arrives(c)
    BY <1>0, <2>2, GotoArrives DEF Places
  <2>4. SecretMoves /\ UNCHANGED <<issued, final>>
    BY <1>1, SecretRests DEF RotateInvalidate, Writes
  <2> QED
    BY <1>0, <2>1, <2>3, <2>4, Moved
<1>2. CASE RotateSwap(c)
  <2>1. PlatformMoves
    BY <1>2, PlatformRests DEF RotateSwap, Seals
  <2>2. (Goto(c, "accounts") \/ Goto(c, "restore"))
    BY <1>2 DEF RotateSwap, Seals, At
  <2>3. Alone(c) /\ Arrives(c)
    BY <1>0, <2>2, GotoArrives DEF Places
  <2>4. SecretMoves /\ UNCHANGED <<issued, final>>
    BY <1>2, <1>0, SecretRests, RotateMoves, HeldFields DEF RotateSwap, Seals
  <2> QED
    BY <1>0, <2>1, <2>3, <2>4, Moved
<1>3. CASE RotateRestore(c)
  <2>1. PlatformMoves
    BY <1>3, <1>0, UpdateMoves, PlatformRests, HeldFields DEF RotateRestore, Updates, Writes
  <2>2. (Goto(c, "end"))
    BY <1>3 DEF RotateRestore, Updates, Writes, At
  <2>3. Alone(c) /\ Arrives(c)
    BY <1>0, <2>2, GotoArrives DEF Places
  <2>4. SecretMoves /\ UNCHANGED <<issued, final>>
    BY <1>3, SecretRests DEF RotateRestore, Updates, Writes
  <2> QED
    BY <1>0, <2>1, <2>3, <2>4, Moved
<1>4. CASE RotateAccounts(c)
  <2>1. PlatformMoves
    BY <1>4, <1>0, ReplaceMoves, PlatformRests, HeldFields DEF RotateAccounts, Writes
  <2>2. (Goto(c, "row") \/ Goto(c, "undo")) /\ call[c].op = "rotate"
    BY <1>4 DEF RotateAccounts, Writes, At
  <2>3. Alone(c) /\ Arrives(c)
    BY <1>0, <2>2, GotoArrives DEF Places
  <2>4. SecretMoves /\ UNCHANGED <<issued, final>>
    BY <1>4, SecretRests DEF RotateAccounts, Writes
  <2> QED
    BY <1>0, <2>1, <2>3, <2>4, Moved
<1>5. CASE RotateRow(c)
  <2>1. PlatformMoves
    BY <1>5, <1>0, UpdateMoves, PlatformRests, HeldFields DEF RotateRow, Updates, Writes
  <2>2. (Goto(c, "revoke") \/ Goto(c, "undo"))
    BY <1>5 DEF RotateRow, Updates, Writes, At
  <2>3. Alone(c) /\ Arrives(c)
    BY <1>0, <2>2, GotoArrives DEF Places
  <2>4. SecretMoves /\ UNCHANGED <<issued, final>>
    BY <1>5, SecretRests DEF RotateRow, Updates, Writes
  <2> QED
    BY <1>0, <2>1, <2>3, <2>4, Moved
<1>6. CASE RotateRevoke(c)
  <2>1. PlatformMoves
    BY <1>6, CasMoves, PlatformRests DEF RotateRevoke, RevokeInvalid, Writes, Modes
  <2>2. (Goto(c, "audit") \/ Goto(c, "undo"))
    BY <1>6 DEF RotateRevoke, RevokeInvalid, Writes, Modes, At
  <2>3. Alone(c) /\ Arrives(c)
    BY <1>0, <2>2, GotoArrives DEF Places
  <2>4. SecretMoves /\ UNCHANGED <<issued, final>>
    BY <1>6, SecretRests DEF RotateRevoke, RevokeInvalid, Writes, Modes
  <2> QED
    BY <1>0, <2>1, <2>3, <2>4, Moved
<1>7. CASE RotateAudit(c)
  <2>1. PlatformMoves
    BY <1>7, PlatformRests DEF RotateAudit, Writes
  <2>2. (Goto(c, "notify") \/ Goto(c, "undo")) /\ call[c].op = "rotate"
    BY <1>7 DEF RotateAudit, Writes, At
  <2>3. Alone(c) /\ Arrives(c)
    BY <1>0, <2>2, GotoLands DEF Arrives, Places
  <2>4. SecretMoves /\ UNCHANGED <<issued, final>>
    BY <1>7, SecretRests DEF RotateAudit, Writes
  <2> QED
    BY <1>0, <2>1, <2>3, <2>4, Moved
<1>8. CASE RotateUndo(c)
  <2>1. PlatformMoves
    BY <1>8, PlatformRests DEF RotateUndo
  <2>2. Goto(c, "undoAccounts") \/ Hold(c, [call[c] EXCEPT !.pc = "undoAccounts", !.ok = FALSE])
    BY <1>8 DEF RotateUndo
  <2>3. Alone(c) /\ Arrives(c)
    <3>1. CASE Goto(c, "undoAccounts")
      BY <1>0, <1>8, <3>1, GotoArrives DEF Places, RotateUndo, At
    <3>2. CASE Hold(c, [call[c] EXCEPT !.pc = "undoAccounts", !.ok = FALSE])
      <4> DEFINE n1 == [call[c] EXCEPT !.pc = "undoAccounts"]
                 n2 == [n1 EXCEPT !.ok = FALSE]
      <4>1. n1 \in CallRecord /\ n1.op = "rotate"
        BY <1>0, <1>8, HeldFields DEF CallRecord, Places, RotateUndo, At
      <4>2. Hold(c, n2)
        BY <3>2
      <4> HIDE DEF n1
      <4>3. n2 \in CallRecord /\ n2.op = "rotate"
        BY Zenon, <4>1 DEF CallRecord
      <4> HIDE DEF n2
      <4> QED
        BY <1>0, <4>2, <4>3, HoldLands DEF Arrives
    <3> QED
      BY <2>2, <3>1, <3>2
  <2>4. SecretMoves /\ UNCHANGED <<issued, final>>
    BY <1>8, <1>0, SecretRests, RotateMoves, HeldFields DEF RotateUndo
  <2> QED
    BY <1>0, <2>1, <2>3, <2>4, Moved
<1>9. CASE RotateUndoAccounts(c)
  <2>1. PlatformMoves
    BY <1>9, <1>0, ReplaceMoves, PlatformRests, HeldFields DEF RotateUndoAccounts
  <2>2. Goto(c, "undoRow") \/ Hold(c, [call[c] EXCEPT !.pc = "undoRow", !.ok = FALSE])
    BY <1>9 DEF RotateUndoAccounts
  <2>3. Alone(c) /\ Arrives(c)
    <3>1. CASE Goto(c, "undoRow")
      BY <1>0, <1>9, <3>1, GotoArrives DEF Places, RotateUndoAccounts, At
    <3>2. CASE Hold(c, [call[c] EXCEPT !.pc = "undoRow", !.ok = FALSE])
      <4> DEFINE n1 == [call[c] EXCEPT !.pc = "undoRow"]
                 n2 == [n1 EXCEPT !.ok = FALSE]
      <4>1. n1 \in CallRecord /\ n1.op = "rotate"
        BY <1>0, <1>9, HeldFields DEF CallRecord, Places, RotateUndoAccounts, At
      <4>2. Hold(c, n2)
        BY <3>2
      <4> HIDE DEF n1
      <4>3. n2 \in CallRecord /\ n2.op = "rotate"
        BY Zenon, <4>1 DEF CallRecord
      <4> HIDE DEF n2
      <4> QED
        BY <1>0, <4>2, <4>3, HoldLands DEF Arrives
    <3> QED
      BY <2>2, <3>1, <3>2
  <2>4. SecretMoves /\ UNCHANGED <<issued, final>>
    BY <1>9, SecretRests DEF RotateUndoAccounts
  <2> QED
    BY <1>0, <2>1, <2>3, <2>4, Moved
<1>10. CASE RotateUndoRow(c)
  <2>1. PlatformMoves
    BY <1>10, <1>0, UpdateMoves, PlatformRests, HeldFields DEF RotateUndoRow, Updates, Writes
  <2>2. (Goto(c, "end") \/ Goto(c, "undoDisable"))
    BY <1>10 DEF RotateUndoRow, Updates, Writes, At
  <2>3. Alone(c) /\ Arrives(c)
    BY <1>0, <2>2, GotoArrives DEF Places
  <2>4. SecretMoves /\ UNCHANGED <<issued, final>>
    BY <1>10, SecretRests DEF RotateUndoRow, Updates, Writes
  <2> QED
    BY <1>0, <2>1, <2>3, <2>4, Moved
<1>11. CASE RotateUndoDisable(c)
  <2>1. PlatformMoves
    BY <1>11, PlatformRests DEF RotateUndoDisable, Seals
  <2>2. (Goto(c, "end"))
    BY <1>11 DEF RotateUndoDisable, Seals, At
  <2>3. Alone(c) /\ Arrives(c)
    BY <1>0, <2>2, GotoArrives DEF Places
  <2>4. SecretMoves /\ UNCHANGED <<issued, final>>
    BY <1>11, SecretRests, SealMoves DEF RotateUndoDisable, Seals
  <2> QED
    BY <1>0, <2>1, <2>3, <2>4, Moved
<1> QED
  BY <1>1, <1>2, <1>3, <1>4, <1>5, <1>6, <1>7, <1>8, <1>9, <1>10, <1>11

-----------------------------------------------------------------------------
(* Disable and delete.                                                     *)

LEMMA DisableBegins ==
  ASSUME ConnectionInvariant, NEW c \in Calls, Disable(c)
  PROVE  Moves(c)
<1>0. c \in Processes
  BY DEF Processes
<1> DEFINE r == IF row.status = "PendingDisable" THEN row ELSE ClosedRow(row, "PendingDisable")
           n == [Idle EXCEPT !.op = "disable", !.pc = "secret", !.row = r]
<1>1. r \in Rows
  BY ComputedRows DEF ConnectionInvariant, StateType
<1>2. UpdateConnection(r) /\ Hold(c, n) /\ UNCHANGED <<secret, issued, final>>
  BY DEF Disable
<1> HIDE DEF r
<1>3. n \in CallRecord /\ n.op = "disable" /\ n.pc = "secret"
  BY Zenon, <1>1, IdleType DEF CallRecord, Places
<1> HIDE DEF n
<1>4. Alone(c) /\ Arrives(c)
  BY <1>0, <1>2, <1>3, HoldLands DEF Arrives
<1> QED
  BY <1>0, <1>1, <1>2, <1>4, UpdateMoves, SecretRests, Moved

LEMMA DeleteBegins ==
  ASSUME ConnectionInvariant, NEW c \in Calls, Delete(c)
  PROVE  Moves(c)
<1>0. c \in Processes
  BY DEF Processes
<1> DEFINE n == [Idle EXCEPT !.op = "delete", !.pc = "secret"]
<1>1. ClosedRow(row, "PendingDelete") \in Rows
  BY ComputedRows DEF ConnectionInvariant, StateType
<1>2. UpdateConnection(ClosedRow(row, "PendingDelete")) /\ Hold(c, n) /\ UNCHANGED <<secret, issued, final>>
  BY DEF Delete
<1>3. n \in CallRecord /\ n.op = "delete" /\ n.pc = "secret"
  BY Zenon, IdleType DEF CallRecord, Places
<1> HIDE DEF n
<1>4. Alone(c) /\ Arrives(c)
  BY <1>0, <1>2, <1>3, HoldLands DEF Arrives
<1> QED
  BY <1>0, <1>1, <1>2, <1>4, UpdateMoves, SecretRests, Moved

LEMMA ClosingMoves ==
  ASSUME ConnectionInvariant, NEW c \in Calls,
         DisableSecret(c) \/ DisableRow(c) \/ DeleteSecret(c) \/ DeleteRow(c)
  PROVE  Moves(c)
<1>0. c \in Processes
  BY DEF Processes
<1>1. CASE DisableSecret(c)
  <2>1. PlatformMoves
    BY <1>1, PlatformRests DEF DisableSecret, Seals
  <2>2. (Goto(c, "row") /\ SecretDisable) \/ Goto(c, "end")
    BY <1>1 DEF DisableSecret, Seals
  <2>3. Alone(c) /\ Arrives(c)
    <3>1. CASE Goto(c, "row") /\ SecretDisable
      BY <1>0, <1>1, <3>1, GotoLands, SealMoves DEF Arrives, Places, DisableSecret, At
    <3>2. CASE Goto(c, "end")
      BY <1>0, <3>2, GotoArrives
    <3> QED
      BY <2>2, <3>1, <3>2
  <2>4. SecretMoves /\ UNCHANGED <<issued, final>>
    BY <1>1, SecretRests, SealMoves DEF DisableSecret, Seals
  <2> QED
    BY <1>0, <2>1, <2>3, <2>4, Moved
<1>2. CASE DisableRow(c)
  <2>1. PlatformMoves
    BY <1>2, <1>0, UpdateMoves, PlatformRests, HeldFields, ComputedRows DEF DisableRow, Updates, Writes
  <2>2. (Goto(c, "notify") \/ Goto(c, "end")) /\ call[c].op = "disable" /\ Sealed
    BY <1>0, <1>2 DEF DisableRow, Updates, Writes, At, ConnectionInvariant, SealedBeforeAcknowledged
  <2>3. Alone(c) /\ Arrives(c)
    BY <1>0, <2>2, GotoLands DEF Arrives, Places
  <2>4. SecretMoves /\ UNCHANGED <<issued, final>>
    BY <1>2, SecretRests DEF DisableRow, Updates, Writes
  <2> QED
    BY <1>0, <2>1, <2>3, <2>4, Moved
<1>3. CASE DeleteSecret(c)
  <2>1. PlatformMoves
    BY <1>3, PlatformRests DEF DeleteSecret, Seals
  <2>2. (Goto(c, "row") \/ Goto(c, "end")) /\ call[c].op = "delete"
    BY <1>3 DEF DeleteSecret, Seals, At
  <2>3. Alone(c) /\ Arrives(c)
    BY <1>0, <2>2, GotoArrives DEF Places
  <2>4. SecretMoves /\ UNCHANGED <<issued, final>>
    BY <1>3, SecretRests, EraseMoves DEF DeleteSecret, Seals
  <2> QED
    BY <1>0, <2>1, <2>3, <2>4, Moved
<1>4. CASE DeleteRow(c)
  <2>1. PlatformMoves
    BY <1>4, DeleteMoves, PlatformRests DEF DeleteRow, Writes
  <2>2. ((Goto(c, "notify") /\ row'.status = "Deleted") \/ Goto(c, "end")) /\ call[c].op = "delete"
    BY <1>4, DeleteMoves DEF DeleteRow, Writes, At
  <2>3. Alone(c) /\ Arrives(c)
    BY <1>0, <2>2, GotoLands DEF Arrives, Places
  <2>4. SecretMoves /\ UNCHANGED <<issued, final>>
    BY <1>4, SecretRests DEF DeleteRow, Writes
  <2> QED
    BY <1>0, <2>1, <2>3, <2>4, Moved
<1> QED
  BY <1>1, <1>2, <1>3, <1>4

-----------------------------------------------------------------------------
(* Bindings, authorization, dispatch and the registry.                     *)

\* A step that only moves one request on.
LEMMA HoldMoves ==
  ASSUME ConnectionInvariant, NEW c \in Processes, NEW r \in CallRecord, Hold(c, r),
         r.op \in {"none", "authorize", "execute", "entry", "revalidate", "recover"},
         UNCHANGED <<platform, secret, issued, final>>
  PROVE  Moves(c)
<1>1. Alone(c) /\ Arrives(c)
  BY HoldLands DEF Arrives
<1> QED
  BY <1>1, PlatformRests, SecretRests, Moved

LEMMA GotoMoves ==
  ASSUME ConnectionInvariant, NEW c \in Processes, NEW l \in Places \cup {"end"}, Goto(c, l),
         l \notin {"insert", "put", "notify", "closing"}, call[c].op = "disable" => l # "row",
         UNCHANGED <<platform, secret, issued, final>>
  PROVE  Moves(c)
  BY GotoArrives, PlatformRests, SecretRests, Moved

LEMMA BindMoves ==
  ASSUME ConnectionInvariant, NEW c \in Calls, Bind(c)
  PROVE  Moves(c)
<1>1. Alone(c) /\ call'[c] = call[c] /\ c \in Processes
  BY DEF Bind, lifecycle, ConnectionInvariant, StateType, Alone, Processes
<1>2. PlatformMoves /\ SecretMoves /\ UNCHANGED <<issued, final>>
  BY BindingMoves, SecretRests DEF Bind, lifecycle
<1>3. Arrives(c)
  <2>1. call[c].op = "delete" /\ call[c].pc \in {"notify", "closing"} => row'.status = "Deleted"
    BY <1>1, <1>2 DEF ConnectionInvariant, SealedBeforeAcknowledged, PlatformMoves, RowMoves
  <2>2. call[c].op = "disable" /\ call[c].pc \in {"row", "notify", "closing"} => Sealed
    BY <1>1 DEF ConnectionInvariant, SealedBeforeAcknowledged
  <2> QED
    BY <1>1, <2>1, <2>2 DEF Arrives, Creating
<1> QED
  BY <1>1, <1>2, <1>3, Moved

LEMMA AuthorizationMoves ==
  ASSUME ConnectionInvariant, NEW c \in Calls, Authorize(c) \/ AuthorizeWrite(c)
  PROVE  Moves(c)
<1>0. c \in Processes /\ auth.revision \in Nat
  BY DEF Processes, ConnectionInvariant, StateType, Authorizations
<1>1. CASE Authorize(c)
  <2>1. PICK mode \in Modes :
          Hold(c, [Idle EXCEPT !.op = "authorize", !.pc = "write", !.purpose = mode, !.revision = auth.revision])
    BY Zenon, <1>1 DEF Authorize
  <2> DEFINE n == [Idle EXCEPT !.op = "authorize", !.pc = "write", !.purpose = mode]
             r == [n EXCEPT !.revision = auth.revision]
  <2>2. n \in CallRecord /\ n.op = "authorize"
    BY Zenon, IdleType DEF CallRecord, Places
  <2>3. Hold(c, r)
    BY <2>1
  <2> HIDE DEF n
  <2>4. r \in CallRecord /\ r.op = "authorize"
    BY <1>0, <2>2 DEF CallRecord
  <2> HIDE DEF r
  <2> QED
    BY Zenon, <1>0, <1>1, <2>3, <2>4, HoldMoves DEF Authorize
<1>2. CASE AuthorizeWrite(c)
  <2>1. PlatformMoves /\ SecretMoves /\ UNCHANGED <<issued, final>>
    BY <1>0, <1>2, CasMoves, PlatformRests, SecretRests, HeldFields DEF AuthorizeWrite, Writes
  <2>2. Goto(c, "end")
    BY <1>2 DEF AuthorizeWrite, Writes
  <2> QED
    BY <1>0, <2>1, <2>2, GotoArrives, Moved
<1> QED
  BY <1>1, <1>2

LEMMA DispatchMoves ==
  ASSUME ConnectionInvariant, NEW c \in Calls,
         Execute(c) \/ OpenValidate(c) \/ OpenCredential(c) \/ DispatchOnce(c) \/ Answered(c)
  PROVE  Moves(c)
<1>0. c \in Processes /\ auth.revision \in Nat /\ secret.credential \in Nat
  BY DEF Processes, ConnectionInvariant, StateType, Authorizations
<1>1. CASE Execute(c)
  <2>1. PICK purpose \in {"manual", "automated"} :
          Hold(c, [Idle EXCEPT !.op = "execute", !.pc = "open", !.purpose = purpose, !.revision = auth.revision])
    BY Zenon, <1>1 DEF Execute
  <2> DEFINE n == [Idle EXCEPT !.op = "execute", !.pc = "open", !.purpose = purpose]
             r == [n EXCEPT !.revision = auth.revision]
  <2>2. n \in CallRecord /\ n.op = "execute"
    BY Zenon, IdleType DEF CallRecord, Places
  <2>3. Hold(c, r)
    BY <2>1
  <2> HIDE DEF n
  <2>4. r \in CallRecord /\ r.op = "execute"
    BY <1>0, <2>2 DEF CallRecord
  <2> HIDE DEF r
  <2> QED
    BY <1>0, <1>1, <2>3, <2>4, HoldMoves DEF Execute
<1>2. CASE OpenValidate(c)
  <2>1. (Goto(c, "credential") \/ Goto(c, "end")) /\ UNCHANGED <<platform, secret, issued, final>>
    BY <1>2 DEF OpenValidate
  <2> QED
    BY <1>0, <2>1, GotoMoves DEF Places
<1>3. CASE OpenCredential(c)
  <2> DEFINE n == [call[c] EXCEPT !.pc = "session"]
             r == [n EXCEPT !.credential = secret.credential]
  <2>1. n \in CallRecord /\ n.op = "execute"
    BY <1>0, <1>3, HeldFields DEF CallRecord, Places, OpenCredential, At
  <2>2. (Hold(c, r) \/ Hold(c, Idle)) /\ UNCHANGED <<platform, secret, issued, final>>
    BY <1>3 DEF OpenCredential
  <2> HIDE DEF n
  <2>3. r \in CallRecord /\ r.op = "execute"
    BY <1>0, <2>1 DEF CallRecord
  <2> HIDE DEF r
  <2> QED
    BY <1>0, <2>2, <2>3, IdleType, HoldMoves
<1>4. CASE DispatchOnce(c)
  <2>1. (Goto(c, "sent") \/ Goto(c, "end")) /\ UNCHANGED <<platform, secret, issued, final>>
    BY <1>4 DEF DispatchOnce
  <2> QED
    BY <1>0, <2>1, GotoMoves DEF Places
<1>5. CASE Answered(c)
  BY <1>0, <1>5, GotoMoves DEF Answered
<1> QED
  BY <1>1, <1>2, <1>3, <1>4, <1>5

LEMMA EntryMoves ==
  ASSUME ConnectionInvariant, NEW c \in Calls,
         Entry(c) \/ EntryLock(c) \/ EntryOpen(c) \/ EntryInsert(c)
  PROVE  Moves(c)
<1>0. c \in Processes /\ secret.credential \in Nat
  BY DEF Processes, ConnectionInvariant, StateType
<1>1. CASE Entry(c)
  <2> DEFINE r == [Idle EXCEPT !.op = "entry", !.pc = "lock"]
  <2>1. r \in CallRecord /\ r.op = "entry"
    BY Zenon, IdleType DEF CallRecord, Places
  <2>2. Hold(c, r) /\ UNCHANGED <<platform, secret, issued, final>>
    BY <1>1 DEF Entry
  <2> HIDE DEF r
  <2> QED
    BY <1>0, <2>1, <2>2, HoldMoves
<1>2. CASE EntryLock(c)
  <2>1. (Goto(c, "open") \/ Goto(c, "end")) /\ UNCHANGED <<platform, secret, issued, final>>
    BY <1>2 DEF EntryLock
  <2> QED
    BY <1>0, <2>1, GotoMoves DEF Places
<1>3. CASE EntryOpen(c)
  <2> DEFINE n == [call[c] EXCEPT !.pc = "insert"]
             r == [n EXCEPT !.credential = secret.credential]
  <2>1. n \in CallRecord /\ n.op = "entry"
    BY <1>0, <1>3, HeldFields DEF CallRecord, Places, EntryOpen, At
  <2>2. (Hold(c, r) \/ Goto(c, "end")) /\ UNCHANGED <<platform, secret, issued, final>>
    BY <1>3 DEF EntryOpen
  <2> HIDE DEF n
  <2>3. r \in CallRecord /\ r.op = "entry"
    BY <1>0, <2>1 DEF CallRecord
  <2> HIDE DEF r
  <2> QED
    BY <1>0, <2>2, <2>3, GotoMoves, HoldMoves
<1>4. CASE EntryInsert(c)
  BY <1>0, <1>4, GotoMoves DEF EntryInsert
<1> QED
  BY <1>1, <1>2, <1>3, <1>4

\* What is acknowledged is sealed.
LEMMA AcknowledgementMoves ==
  ASSUME ConnectionInvariant, NEW c \in Calls, Invalidate(c) \/ Closed(c)
  PROVE  Moves(c)
<1>0. c \in Processes
  BY DEF Processes
<1>1. call[c].pc \in {"notify", "closing"}
  BY DEF Invalidate, Closed
<1>2. call[c].op = "disable" => Sealed
  BY <1>0, <1>1 DEF ConnectionInvariant, SealedBeforeAcknowledged
<1>3. call[c].op = "delete" => row.status = "Deleted" /\ Sealed
  BY <1>0, <1>1 DEF ConnectionInvariant, SealedBeforeAcknowledged, Sealed
<1>4. UNCHANGED <<platform, secret, issued>>
  BY DEF Invalidate, Acknowledge, Closed
<1>5. Goto(c, "end") \/ (Goto(c, "closing") /\ call[c].pc = "notify")
  BY DEF Invalidate, Acknowledge, Closed
<1>6. Alone(c) /\ Arrives(c)
  <2>1. row' = row
    BY <1>4 DEF platform
  <2> QED
    BY <1>0, <1>2, <1>3, <1>5, <2>1, GotoLands DEF Arrives, Places
<1>7. final' => final \/ Sealed
  BY Zenon, <1>2, <1>3 DEF Invalidate, Acknowledge, Closed
<1>8. PlatformMoves /\ SecretMoves
  BY <1>4, PlatformRests, SecretRests
<1> QED
  BY <1>4, <1>6, <1>7, <1>8 DEF Moves, PlatformMoves, ConnectionInvariant, StateType

-----------------------------------------------------------------------------
(* Recovery.                                                               *)

LEMMA OnboardingRecovered ==
  ASSUME ConnectionInvariant, RecoverOnboarding
  PROVE  Moves(Boot)
<1>0. Boot \in Processes
  BY DEF Processes
<1> DEFINE r == call[Boot].row
<1>1. r \in Rows /\ call[Boot].credential \in Nat
  BY <1>0, HeldFields
<1>2. UNCHANGED <<issued, final, secret>>
  BY Zenon DEF RecoverOnboarding, Updates, Writes, Stored, Usable
<1>3. (Goto(Boot, "orphans") \/ Goto(Boot, "failed"))
  BY Zenon DEF RecoverOnboarding, Updates, Writes, Stored, Usable
<1>4. \/ UNCHANGED platform
      \/ UpdateConnection(InconsistentRow(r))
      \/ \E level \in Answers : InsertOnboarding(OnboardedRow(call[Boot].credential), level)
      \/ \E error \in ProviderErrors :
           UpdateConnection([r EXCEPT !.enabled = FALSE, !.health = Refused(r, error).health])
  BY Zenon DEF RecoverOnboarding, Updates, Writes, Stored, Usable
<1>5. ASSUME NEW error PROVE [r EXCEPT !.enabled = FALSE, !.health = Refused(r, error).health] \in Rows
  <2>1. Refused(r, error).health \in Healths
    BY <1>1, ComputedRows DEF Rows
  <2> HIDE DEF r
  <2> QED
    BY Zenon, <1>1, <2>1 DEF Rows
<1>6. PlatformMoves
  <2> HIDE DEF r
  <2> QED
    BY Zenon, <1>1, <1>4, <1>5, PlatformRests, UpdateMoves, OnboardingMoves, OnboardingRows, ComputedRows, LifecycleAssumption
<1> QED
  BY <1>0, <1>2, <1>3, <1>6, GotoArrives, SecretRests, Moved DEF Places

LEMMA RecoveryMoves ==
  ASSUME ConnectionInvariant, Recover
  PROVE  Moves(Boot)
<1>0. Boot \in Processes
  BY DEF Processes
<1>r. call[Boot].row \in Rows /\ call[Boot].credential \in Nat
  BY <1>0, HeldFields
<1>1. CASE RecoverOnboarding
  BY <1>1, OnboardingRecovered
<1>2. CASE RecoverDelete
  <2>1. PlatformMoves
    BY <1>2, PlatformRests DEF RecoverDelete, Seals
  <2>2. (Goto(Boot, "delete") \/ Goto(Boot, "failed"))
    BY <1>2 DEF RecoverDelete, Seals, At
  <2>3. Alone(Boot) /\ Arrives(Boot)
    BY <1>0, <2>2, GotoArrives DEF Places
  <2>4. SecretMoves /\ UNCHANGED <<issued, final>>
    BY <1>2, SecretRests, EraseMoves DEF RecoverDelete, Seals
  <2> QED
    BY <1>0, <2>1, <2>3, <2>4, Moved
<1>3. CASE RecoverDeleteRow
  <2>1. PlatformMoves
    BY <1>3, DeleteMoves, PlatformRests DEF RecoverDeleteRow, Writes
  <2>2. (Goto(Boot, "orphans") \/ Goto(Boot, "failed"))
    BY <1>3 DEF RecoverDeleteRow, Writes, At
  <2>3. Alone(Boot) /\ Arrives(Boot)
    BY <1>0, <2>2, GotoArrives DEF Places
  <2>4. SecretMoves /\ UNCHANGED <<issued, final>>
    BY <1>3, SecretRests DEF RecoverDeleteRow, Writes
  <2> QED
    BY <1>0, <2>1, <2>3, <2>4, Moved
<1>4. CASE RecoverDisable
  <2>1. PlatformMoves
    BY <1>4, PlatformRests DEF RecoverDisable, Seals
  <2>2. (Goto(Boot, "disable") \/ Goto(Boot, "failed"))
    BY <1>4 DEF RecoverDisable, Seals, At
  <2>3. Alone(Boot) /\ Arrives(Boot)
    BY <1>0, <2>2, GotoArrives DEF Places
  <2>4. SecretMoves /\ UNCHANGED <<issued, final>>
    BY <1>4, SecretRests, SealMoves DEF RecoverDisable, Seals
  <2> QED
    BY <1>0, <2>1, <2>3, <2>4, Moved
<1>5. CASE RecoverDisableRow
  <2> DEFINE r == [call[Boot].row EXCEPT !.status = "Disabled", !.enabled = FALSE]
  <2>1. r \in Rows
    BY Zenon, <1>r DEF Rows, CredentialStatuses
  <2>2. (UpdateConnection(r) \/ UNCHANGED platform) /\ UNCHANGED <<secret, issued, final>>
    BY <1>5 DEF RecoverDisableRow, Updates, Writes
  <2>3. Goto(Boot, "orphans") \/ Goto(Boot, "failed")
    BY <1>5 DEF RecoverDisableRow, Updates, Writes
  <2> HIDE DEF r
  <2> QED
    BY <1>0, <2>1, <2>2, <2>3, UpdateMoves, PlatformRests, SecretRests, GotoArrives, Moved DEF Places
<1>6. CASE RecoverRotation
  <2> DEFINE m == [call[Boot] EXCEPT !.op = "revalidate"]
             n == [m EXCEPT !.pc = "await"]
  <2>r. m \in CallRecord /\ m.op = "revalidate"
    BY <1>0, HeldFields DEF CallRecord
  <2>1. n \in CallRecord /\ n.op = "revalidate"
    <3> HIDE DEF m
    <3> QED
      BY <2>r DEF CallRecord, Places
  <2>2. (Hold(Boot, n) \/ Goto(Boot, "failed")) /\ UNCHANGED <<platform, secret, issued, final>>
    BY <1>6 DEF RecoverRotation
  <2> HIDE DEF n
  <2> QED
    BY <1>0, <2>1, <2>2, HoldMoves, GotoMoves DEF Places
<1>7. CASE RecoverFingerprint
  <2> DEFINE r == [call[Boot].row EXCEPT !.fingerprint = call[Boot].credential]
  <2>1. r \in Rows
    BY <1>r DEF Rows
  <2>2. (UpdateConnection(r) \/ UNCHANGED platform) /\ UNCHANGED <<secret, issued, final>>
    BY <1>7 DEF RecoverFingerprint, Updates, Writes
  <2>3. Goto(Boot, "orphans") \/ Goto(Boot, "failed")
    BY <1>7 DEF RecoverFingerprint, Updates, Writes
  <2> HIDE DEF r
  <2> QED
    BY <1>0, <2>1, <2>2, <2>3, UpdateMoves, PlatformRests, SecretRests, GotoArrives, Moved DEF Places
<1>8. CASE RecoverVerify
  <2>1. PlatformMoves
    BY <1>8, <1>r, UpdateMoves, PlatformRests, ComputedRows DEF RecoverVerify, Updates, Writes
  <2>2. (Goto(Boot, "orphans") \/ Goto(Boot, "failed"))
    BY <1>8 DEF RecoverVerify, Updates, Writes, At
  <2>3. Alone(Boot) /\ Arrives(Boot)
    BY <1>0, <2>2, GotoArrives DEF Places
  <2>4. SecretMoves /\ UNCHANGED <<issued, final>>
    BY <1>8, SecretRests DEF RecoverVerify, Updates, Writes
  <2> QED
    BY <1>0, <2>1, <2>3, <2>4, Moved
<1>9. CASE RecoverNothing
  <2>1. PlatformMoves
    BY <1>9, PlatformRests DEF RecoverNothing
  <2>2. (Goto(Boot, "orphans"))
    BY <1>9 DEF RecoverNothing, At
  <2>3. Alone(Boot) /\ Arrives(Boot)
    BY <1>0, <2>2, GotoArrives DEF Places
  <2>4. SecretMoves /\ UNCHANGED <<issued, final>>
    BY <1>9, SecretRests DEF RecoverNothing
  <2> QED
    BY <1>0, <2>1, <2>3, <2>4, Moved
<1>10. CASE RecoverOrphans
  <2>1. PlatformMoves
    BY <1>10, PlatformRests DEF RecoverOrphans, Seals
  <2>2. (Goto(Boot, "serve") \/ Goto(Boot, "failed"))
    BY <1>10 DEF RecoverOrphans, Seals, At
  <2>3. Alone(Boot) /\ Arrives(Boot)
    BY <1>0, <2>2, GotoArrives DEF Places
  <2>4. SecretMoves /\ UNCHANGED <<issued, final>>
    BY <1>10, SecretRests, SealMoves DEF RecoverOrphans, Seals
  <2> QED
    BY <1>0, <2>1, <2>3, <2>4, Moved
<1> QED
  BY <1>1, <1>2, <1>3, <1>4, <1>5, <1>6, <1>7, <1>8, <1>9, <1>10 DEF Recover

LEMMA StartMoves ==
  ASSUME ConnectionInvariant, Start \/ Serve
  PROVE  Moves(Boot)
<1>0. Boot \in Processes
  BY DEF Processes
<1>1. CASE Start
  <2> DEFINE n == [Idle EXCEPT !.op = "recover", !.pc = "repair", !.row = row]
             r == [n EXCEPT !.credential = secret.credential]
  <2>1. n \in CallRecord /\ n.op = "recover"
    BY Zenon, IdleType DEF CallRecord, Places, ConnectionInvariant, StateType
  <2>2. Hold(Boot, r) /\ UNCHANGED <<platform, secret, issued, final>>
    BY <1>1 DEF Start
  <2> HIDE DEF n
  <2>3. r \in CallRecord /\ r.op = "recover"
    BY <2>1 DEF CallRecord, ConnectionInvariant, StateType
  <2> HIDE DEF r
  <2> QED
    BY <1>0, <2>2, <2>3, HoldMoves
<1>2. CASE Serve
  BY <1>0, <1>2, GotoMoves DEF Serve
<1> QED
  BY <1>1, <1>2

-----------------------------------------------------------------------------
(* The steps that are not Moves: a creation, its credential, and death.     *)

LEMMA CreateKeeps ==
  ASSUME ConnectionInvariant, NEW c \in Calls, Create(c)
  PROVE  ConnectionInvariant' /\ UNCHANGED <<row, auth>>
<1>0. c \in Processes /\ issued = 0 /\ issued' = 1 /\ UNCHANGED <<row, account, auth, secret, final>>
  BY DEF Processes, Create, platform
<1>1. PICK level \in Answers :
        Hold(c, [Idle EXCEPT !.op = "create", !.pc = "insert", !.level = level, !.credential = 1])
  BY Zenon DEF Create
<1> DEFINE n == [Idle EXCEPT !.op = "create", !.pc = "insert", !.level = level]
           r == [n EXCEPT !.credential = 1]
<1>2. Hold(c, r)
  BY <1>1
<1>3. n \in CallRecord /\ n.op = "create"
  BY Zenon, <1>1, IdleType, LifecycleAssumption DEF CallRecord, Places
<1> HIDE DEF n
<1>4. r \in CallRecord /\ r.op = "create"
  BY <1>3 DEF CallRecord
<1> HIDE DEF r
<1>5. Alone(c) /\ call'[c].op = "create"
  BY <1>0, <1>2, <1>4, HoldLands
<1>6. ~Stored /\ \A d \in Processes : call[d].op # "create"
  BY <1>0 DEF ConnectionInvariant, OneCreation, NoPut
<1>7. StateType' /\ NoAccountNoRevision'
  BY <1>0, <1>5 DEF ConnectionInvariant, StateType, NoAccountNoRevision, Alone
<1>8. OneCreation'
  BY <1>0, <1>5, <1>6 DEF OneCreation, Alone, Stored
<1>9. Sealed => Sealed'
  BY <1>0, <1>6 DEF Sealed, NoPut, Stored
<1>10. SealedBeforeAcknowledged'
  BY <1>0, <1>5, <1>9 DEF ConnectionInvariant, SealedBeforeAcknowledged, Alone
<1> QED
  BY <1>0, <1>7, <1>8, <1>10 DEF ConnectionInvariant

LEMMA CreatePutKeeps ==
  ASSUME ConnectionInvariant, NEW c \in Calls, CreatePut(c)
  PROVE  ConnectionInvariant' /\ UNCHANGED <<row, auth>>
<1>0. c \in Processes /\ Creating(c) /\ UNCHANGED <<row, account, auth, issued, final>>
  BY DEF Processes, CreatePut, Seals, At, Creating, platform
<1>1. CASE Goto(c, "end") /\ UNCHANGED secret
  <2>1. Alone(c) /\ Arrives(c)
    BY <1>0, <1>1, GotoArrives
  <2>2. Moves(c)
    BY <1>0, <1>1, <2>1, PlatformRests, SecretRests, Moved DEF platform, CreatePut, Seals
  <2> QED
    BY <1>0, <2>2, MovesKeep
<1>2. CASE Goto(c, "onboard") /\ SecretPut(call[c].credential)
  <2>1. Alone(c) /\ call'[c].op = "create" /\ call'[c].pc = "onboard"
    BY <1>0, <1>2, GotoLands DEF Places, Creating
  <2>2. ~Stored /\ secret' \in [credential : Nat, disabled : BOOLEAN]
    BY <1>0, <1>2, HeldFields DEF SecretPut
  <2>3. StateType' /\ NoAccountNoRevision'
    BY <1>0, <2>1, <2>2 DEF ConnectionInvariant, StateType, NoAccountNoRevision, Alone
  <2>4. issued # 0 /\ \A d \in Processes : call[d].op = "create" => d = c
    BY <1>0 DEF ConnectionInvariant, OneCreation, Creating
  <2>5. \A d \in Processes : call'[d].op = "create" => d = c
    BY <2>1, <2>4 DEF Alone
  <2>6. NoPut'
    BY <1>0, <2>1, <2>4, <2>5 DEF NoPut, Creating
  <2>7. OneCreation'
    BY <1>0, <2>4, <2>5, <2>6 DEF OneCreation
  <2>8. Sealed => row.status = "Deleted"
    BY <1>0, <2>2 DEF Sealed, NoPut
  <2>9. SealedBeforeAcknowledged'
    BY <1>0, <2>1, <2>8 DEF ConnectionInvariant, SealedBeforeAcknowledged, Alone, Sealed
  <2> QED
    BY <1>0, <2>3, <2>7, <2>9 DEF ConnectionInvariant
<1> QED
  BY <1>1, <1>2 DEF CreatePut, Seals

LEMMA DieKeeps ==
  ASSUME ConnectionInvariant, Die
  PROVE  ConnectionInvariant' /\ UNCHANGED <<row, auth>>
<1>1. UNCHANGED <<row, account, auth, secret, issued, final>>
  BY DEF Die, Crash, platform
<1>2. call' \in [Processes -> CallRecord] /\ \A d \in Processes : call'[d].op = "none"
  BY IdleType DEF Die, Crash, ConnectionInvariant, StateType
<1>3. StateType' /\ NoAccountNoRevision'
  BY <1>1, <1>2 DEF ConnectionInvariant, StateType, NoAccountNoRevision
<1>4. NoPut => NoPut'
  BY <1>1, <1>2 DEF NoPut, Creating
<1>5. OneCreation'
  BY <1>1, <1>2, <1>4 DEF ConnectionInvariant, OneCreation, Stored
<1>6. Sealed => Sealed'
  BY <1>1, <1>4 DEF Sealed, Stored
<1>7. SealedBeforeAcknowledged'
  BY <1>1, <1>2, <1>6 DEF ConnectionInvariant, SealedBeforeAcknowledged
<1> QED
  BY <1>1, <1>3, <1>5, <1>7 DEF ConnectionInvariant

LEMMA StutterKeeps ==
  ASSUME ConnectionInvariant, UNCHANGED RegistryVars
  PROVE  ConnectionInvariant' /\ UNCHANGED <<row, auth>>
<1>1. UNCHANGED <<row, account, auth, secret, call, issued, final>>
  BY DEF RegistryVars, vars, platform, lifecycle
<1>2. StateType' /\ NoAccountNoRevision'
  BY <1>1 DEF ConnectionInvariant, StateType, NoAccountNoRevision
<1>3. OneCreation'
  BY <1>1 DEF ConnectionInvariant, OneCreation, NoPut, Creating, Stored
<1>4. SealedBeforeAcknowledged'
  BY <1>1 DEF ConnectionInvariant, SealedBeforeAcknowledged, Sealed, NoPut, Creating, Stored
<1> QED
  BY <1>1, <1>2, <1>3, <1>4 DEF ConnectionInvariant

-----------------------------------------------------------------------------
LEMMA RequestMoves ==
  ASSUME ConnectionInvariant, NEW c \in Calls, RequestStep(c), ~Create(c), ~CreatePut(c)
  PROVE  Moves(c)
  BY CreationMoves, RevalidationBegins, RotationBegins, RotationGates, RotationMoves, DisableBegins, DeleteBegins,
     ClosingMoves, BindMoves, AuthorizationMoves, DispatchMoves
     DEF RequestStep

LEMMA StepIsMoves ==
  ASSUME ConnectionInvariant, RegistryNext
  PROVE  \/ \E c \in Processes : Moves(c)
         \/ \E c \in Calls : Create(c) \/ CreatePut(c)
         \/ Die
<1>1. ASSUME NEW c \in Calls, RequestStep(c)
      PROVE  Moves(c) \/ Create(c) \/ CreatePut(c)
  BY <1>1, RequestMoves
<1>2. ASSUME NEW c \in Processes, RevalidateStep(c) PROVE Moves(c)
  BY <1>2, RevalidationMoves
<1>3. CASE Recover \/ Start \/ Serve
  BY <1>3, RecoveryMoves, StartMoves DEF Processes
<1>4. ASSUME NEW c \in Calls,
             Entry(c) \/ EntryLock(c) \/ EntryOpen(c) \/ EntryInsert(c) \/ Invalidate(c) \/ Closed(c)
      PROVE  Moves(c)
  BY <1>4, EntryMoves, AcknowledgementMoves
<1> QED
  BY <1>1, <1>2, <1>3, <1>4 DEF RegistryNext, LifecycleStep, Processes

LEMMA StepKeeps == ConnectionInvariant /\ [RegistryNext]_RegistryVars => ConnectionInvariant'
  BY StepIsMoves, MovesKeep, CreateKeeps, CreatePutKeeps, DieKeeps, StutterKeeps

LEMMA InitHolds == RegistryInit => ConnectionInvariant
<1> SUFFICES ASSUME RegistryInit PROVE ConnectionInvariant
  OBVIOUS
<1> USE DEF RegistryInit, LifecycleInit, StoreInit
<1>1. StateType
  BY IdleType DEF StateType, NoRow, NoAuth, NoSecret, Rows, Healths, Levels, Authorizations, Modes, Processes
<1>2. \A c \in Processes : call[c].op = "none"
  BY IdleType DEF Processes
<1>3. ~Stored
  BY DEF Stored, NoSecret
<1> QED
  BY <1>1, <1>2, <1>3 DEF ConnectionInvariant, OneCreation, SealedBeforeAcknowledged, NoAccountNoRevision, NoAuth

\* The invariant of the two stores and every request over them, for any
\* number of requests, faults, crashes and restarts.
THEOREM ConnectionInvariantHolds == RegistrySpec => []ConnectionInvariant
  BY InitHolds, StepKeeps, PTL DEF RegistrySpec

\* An acknowledged disable or delete is final: nothing is authorized after
\* it, whatever requests in flight still write back (disable_connection,
\* delete_connection, validate_execution_access).
THEOREM ClosedForGood == RegistrySpec => []DisableIsFinal
<1>1. ConnectionInvariant => DisableIsFinal
  <2> SUFFICES ASSUME ConnectionInvariant, final
               PROVE  ~ReadAccess /\ \A p \in {"manual", "automated"} : ~ExecutionAccess(p)
    BY DEF DisableIsFinal
  <2>1. Sealed
    BY DEF ConnectionInvariant, SealedBeforeAcknowledged
  <2>2. ~Usable \/ ~Exists
    BY <2>1 DEF Sealed, Usable, Exists, CredentialStatuses
  <2> QED
    BY <2>2 DEF ReadAccess, ExecutionAccess, BoundHealthy
<1> QED
  BY ConnectionInvariantHolds, <1>1, PTL

\* While a connection exists, an authorization changes only to a revision it
\* never had (write_authorization_cas, invalidate_connection_authorizations).
THEOREM RevisionsGrow == RegistrySpec => RevisionsOnlyGrow
<1>1. ASSUME ConnectionInvariant, [RegistryNext]_RegistryVars, Exists, row'.status \in CredentialStatuses
      PROVE  auth'.revision >= auth.revision /\ (auth' # auth => auth'.revision > auth.revision)
  <2>1. CASE \E c \in Processes : Moves(c)
    BY <1>1, <2>1 DEF Moves, AuthMoves
  <2>2. CASE auth' = auth
    BY <1>1, <2>2 DEF ConnectionInvariant, StateType, Authorizations
  <2> QED
    BY <1>1, <2>1, <2>2, StepIsMoves, CreateKeeps, CreatePutKeeps, DieKeeps, StutterKeeps
<1> QED
  BY ConnectionInvariantHolds, <1>1, PTL DEF RegistrySpec, RevisionsOnlyGrow

=============================================================================
