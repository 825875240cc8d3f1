------------------------- MODULE ConnectionLifecycle -------------------------
(***************************************************************************)
(* The operations of ConnectionService (crates/vox-connections/src/        *)
(* service.rs) over the two stores of ConnectionStore: onboarding,         *)
(* revalidation, credential rotation, disable, delete, bindings and        *)
(* execution authorization, the sessions dispatch opens, and the recovery  *)
(* that runs before a process serves requests.                             *)
(*                                                                         *)
(* Requests run in parallel.  A step is one committed write, together with *)
(* the reads since the write or await before it; the process may die       *)
(* between any two steps.  A store call may fail, MaxFaults times in all.  *)
(* The caller holds every permission, as the bootstrap principal does.     *)
(***************************************************************************)
EXTENDS ConnectionStore, FiniteSets

CONSTANTS
  Calls,          \* concurrent requests
  Boot,           \* the recovery at startup
  Operations,     \* [Calls -> what the request may be]
  Answers,        \* account levels the provider reports
  ProviderErrors, \* errors the provider reports
  MaxCredential,  \* bound on credentials handed in
  MaxRevision,    \* bound on authorization revisions
  MaxCrashes, MaxFaults

ASSUME LifecycleAssumption ==
  /\ Boot \notin Calls
  /\ Operations \in [Calls -> SUBSET {"create", "revalidate", "rotate", "disable", "delete",
                                      "bind", "authorize", "execute", "entry"}]
  /\ Answers \subseteq Levels
  /\ {MaxCredential, MaxRevision, MaxCrashes, MaxFaults} \subseteq Nat

VARIABLES
  call,     \* where each request is, and what it has read
  up,       \* "down", "booting", "up"
  issued,   \* credentials handed in so far
  final,    \* a disable or a delete was acknowledged
  crashes, faults

lifecycle == <<call, up, issued, final, crashes, faults>>

\* What a request holds: the row it read and the one it will write, the
\* credential it works with and the one before it, the account level it was
\* told and the one stored before, the authorization revision it captured,
\* and whether a compensation went well so far.
Idle ==
  [op |-> "none", pc |-> "idle", row |-> NoRow, next |-> NoRow,
   credential |-> 0, previous |-> 0, level |-> "absent", old |-> "absent",
   revision |-> 0, purpose |-> "manual", ok |-> TRUE]

LifecycleInit ==
  /\ StoreInit
  /\ call = [c \in Calls \union {Boot} |-> Idle]
  /\ up = "up" /\ issued = 0 /\ final = FALSE
  /\ crashes = 0 /\ faults = 0

-----------------------------------------------------------------------------
(* Moving a request on.                                                    *)

Hold(c, r) == call' = [call EXCEPT ![c] = r]
Goto(c, l) == Hold(c, IF l = "end" THEN Idle ELSE [call[c] EXCEPT !.pc = l])
At(c, op, l) == call[c].op = op /\ call[c].pc = l

Begins(c, op) ==
  /\ up = "up"
  /\ call[c] = Idle
  /\ op \in Operations[c]

\* Where an error leads: a request ends, startup is abandoned.
Error(c) == IF c = Boot THEN "failed" ELSE "end"

Fault == faults < MaxFaults /\ faults' = faults + 1

\* A platform write that commits when it can and leads to l, or fails and
\* leads to e.
Writes(c, can, write, l, e) ==
  /\ \/ write /\ Goto(c, l) /\ UNCHANGED faults
     \/ /\ Fault \/ (~can /\ UNCHANGED faults)
        /\ Goto(c, e) /\ UNCHANGED platform
  /\ UNCHANGED <<secret, up, issued, final, crashes>>

Updates(c, r, l, e) == Writes(c, Exists, UpdateConnection(r), l, e)

\* The same for a write to the credential store.
Seals(c, can, write, l, e) ==
  /\ \/ write /\ Goto(c, l) /\ UNCHANGED faults
     \/ /\ Fault \/ (~can /\ UNCHANGED faults)
        /\ Goto(c, e) /\ UNCHANGED secret
  /\ UNCHANGED <<platform, up, issued, final, crashes>>

-----------------------------------------------------------------------------
(* What the service computes from what it read.                            *)

\* credential_status and health_from_provider_error
Refused(r, error) ==
  [r EXCEPT
    !.status = CASE error = "ExpiredOrInactive" -> "ExpiredOrInactive"
                 [] error \in {"InvalidCredential", "WrongEnvironment"} -> "Invalid"
                 [] OTHER -> @,
    !.health = CASE error \in {"InvalidCredential", "ExpiredOrInactive"} -> "InvalidCredential"
                 [] error \in {"InsufficientPermission", "AccountAccessChanged"} -> error
                 [] OTHER -> "ProviderUnavailable"]

\* access_removed
AccessRemoved(level) == Accessible(account) /\ ~Accessible(level)

\* authorization_conflict over with_disappeared_accounts
AuthorizationConflict(level) ==
  auth.mode # "Disabled" /\ Replaced(level) \notin {"absent", "orders"}

Accepted(r, level) ==
  [r EXCEPT
    !.status = "Valid",
    !.health = IF AccessRemoved(level) \/ AuthorizationConflict(level)
               THEN "AccountAccessChanged" ELSE "Healthy"]

PendingRow == [enabled |-> FALSE, status |-> "PendingValidation", health |-> "Validating", fingerprint |-> 0]
OnboardedRow(c) == [enabled |-> TRUE, status |-> "Valid", health |-> "Healthy", fingerprint |-> c]
InconsistentRow(r) == [r EXCEPT !.enabled = FALSE, !.status = "Invalid", !.health = "InvalidCredential"]
ClosedRow(r, status) == [r EXCEPT !.enabled = FALSE, !.status = status, !.health = "Disabled"]

-----------------------------------------------------------------------------
(* create_connection: the provider first, then the row, the credential and *)
(* the rest.                                                               *)

Create(c) ==
  /\ Begins(c, "create")
  /\ row = NoRow /\ issued = 0
  /\ \E level \in Answers :
       Hold(c, [Idle EXCEPT !.op = "create", !.pc = "insert", !.level = level, !.credential = 1])
  /\ issued' = 1
  /\ UNCHANGED <<platform, secret, up, final, crashes, faults>>

CreateInsert(c) ==
  /\ At(c, "create", "insert")
  /\ Writes(c, TRUE, InsertConnection(PendingRow), "put", "end")

CreatePut(c) ==
  /\ At(c, "create", "put")
  /\ Seals(c, TRUE, SecretPut(call[c].credential), "onboard", "end")

CreateOnboard(c) ==
  /\ At(c, "create", "onboard")
  /\ LET level == call[c].level IN
     Writes(c, Exists /\ (level = "absent" \/ account = "absent"),
            InsertOnboarding(OnboardedRow(call[c].credential), level), "end", "undo")

CreateUndo(c) ==
  /\ At(c, "create", "undo")
  /\ Seals(c, TRUE, SecretDelete, "end", "end")

-----------------------------------------------------------------------------
(* revalidate, called by a request or by the recovery.                     *)

CanRevalidate == Exists /\ row.enabled /\ Usable

Revalidate(c) ==
  /\ Begins(c, "revalidate")
  /\ CanRevalidate
  /\ Hold(c, [Idle EXCEPT !.op = "revalidate", !.pc = "await", !.row = row])
  /\ UNCHANGED <<platform, secret, up, issued, final, crashes, faults>>

\* The row read before the await is written back as a whole.
RevalidateAccepted(c) ==
  /\ At(c, "revalidate", "await")
  /\ \E level \in Answers :
       LET r == Accepted(call[c].row, level) IN
       /\ \/ /\ UpdateConnection(r)
             /\ Hold(c, [call[c] EXCEPT !.pc = "accounts", !.row = r, !.level = level])
             /\ UNCHANGED faults
          \/ /\ Fault \/ (~Exists /\ UNCHANGED faults)
             /\ Goto(c, Error(c)) /\ UNCHANGED platform
       /\ UNCHANGED <<secret, up, issued, final, crashes>>

RevalidateRefused(c) ==
  /\ At(c, "revalidate", "await")
  /\ \E error \in ProviderErrors :
       Updates(c, Refused(call[c].row, error), IF c = Boot THEN "orphans" ELSE "end", Error(c))

RevalidateAccounts(c) ==
  /\ At(c, "revalidate", "accounts")
  /\ Writes(c, call[c].level = "absent" \/ Exists, ReplaceAccounts(call[c].level), "revoke", Error(c))

\* revoke_invalid_authorizations, over the accounts as they are stored now.
NeedsRevocation == auth.mode # "Disabled" /\ account \in {"gone", "read"}

RevokeInvalid(c, l, e) ==
  IF NeedsRevocation
  THEN Writes(c, TRUE, AuthorizationCas("Disabled", auth.revision), l, e)
  ELSE Goto(c, l) /\ UNCHANGED <<platform, secret, up, issued, final, crashes, faults>>

RevalidateRevoke(c) ==
  /\ At(c, "revalidate", "revoke")
  /\ RevokeInvalid(c, "finish", Error(c))

RevalidateFinish(c) ==
  /\ At(c, "revalidate", "finish")
  /\ Updates(c, call[c].row, IF c = Boot THEN "fingerprint" ELSE "end", Error(c))

-----------------------------------------------------------------------------
(* rotate_credential.                                                      *)

Rotate(c) ==
  /\ Begins(c, "rotate")
  /\ Exists
  /\ issued < MaxCredential /\ issued' = issued + 1
  /\ Hold(c, [Idle EXCEPT !.op = "rotate", !.pc = "await", !.row = row, !.credential = issued + 1])
  /\ UNCHANGED <<platform, secret, up, final, crashes, faults>>

\* The provider accepted the new credential.  Admission is closed from the
\* row read before the await; a refusal changes nothing.
RotateGate(c) ==
  /\ At(c, "rotate", "await")
  /\ \/ /\ Goto(c, "end")
        /\ UNCHANGED <<platform, secret, up, issued, final, crashes, faults>>
     \/ /\ Usable
        /\ \E level \in Answers :
             LET next == [Accepted(call[c].row, level) EXCEPT !.fingerprint = call[c].credential] IN
             /\ UpdateConnection([call[c].row EXCEPT !.health = "Validating"])
             /\ Hold(c, [call[c] EXCEPT !.pc = "invalidate", !.level = level, !.old = account,
                                        !.previous = secret.credential, !.next = next])
        /\ UNCHANGED <<secret, up, issued, final, crashes, faults>>

RotateInvalidate(c) ==
  /\ At(c, "rotate", "invalidate")
  /\ auth.revision < MaxRevision
  /\ Writes(c, TRUE, InvalidateAuthorizations, "swap", "end")

RotateSwap(c) ==
  /\ At(c, "rotate", "swap")
  /\ Seals(c, Usable, SecretRotate(call[c].credential), "accounts", "restore")

\* The result of writing the old row back is ignored.
RotateRestore(c) ==
  /\ At(c, "rotate", "restore")
  /\ Updates(c, call[c].row, "end", "end")

RotateAccounts(c) ==
  /\ At(c, "rotate", "accounts")
  /\ Writes(c, call[c].level = "absent" \/ Exists, ReplaceAccounts(call[c].level), "row", "undo")

RotateRow(c) ==
  /\ At(c, "rotate", "row")
  /\ Updates(c, call[c].next, "revoke", "undo")

RotateRevoke(c) ==
  /\ At(c, "rotate", "revoke")
  /\ RevokeInvalid(c, "audit", "undo")

RotateAudit(c) ==
  /\ At(c, "rotate", "audit")
  /\ Writes(c, TRUE, UNCHANGED platform, "notify", "undo")

\* Compensation: the credential, the accounts, the row, whatever fails.
RotateUndo(c) ==
  /\ At(c, "rotate", "undo")
  /\ \/ /\ SecretRotate(call[c].previous)
        /\ Goto(c, "undoAccounts") /\ UNCHANGED faults
     \/ /\ Fault \/ (~Usable /\ UNCHANGED faults)
        /\ Hold(c, [call[c] EXCEPT !.pc = "undoAccounts", !.ok = FALSE])
        /\ UNCHANGED secret
  /\ UNCHANGED <<platform, up, issued, final, crashes>>

RotateUndoAccounts(c) ==
  /\ At(c, "rotate", "undoAccounts")
  /\ \/ /\ ReplaceAccounts(call[c].old)
        /\ Goto(c, "undoRow") /\ UNCHANGED faults
     \/ /\ Fault \/ (call[c].old # "absent" /\ ~Exists /\ UNCHANGED faults)
        /\ Hold(c, [call[c] EXCEPT !.pc = "undoRow", !.ok = FALSE])
        /\ UNCHANGED platform
  /\ UNCHANGED <<secret, up, issued, final, crashes>>

RotateUndoRow(c) ==
  /\ At(c, "rotate", "undoRow")
  /\ Updates(c, call[c].row, IF call[c].ok THEN "end" ELSE "undoDisable", "undoDisable")

RotateUndoDisable(c) ==
  /\ At(c, "rotate", "undoDisable")
  /\ Seals(c, Stored, SecretDisable, "end", "end")

-----------------------------------------------------------------------------
(* disable_connection and delete_connection: a tombstone, the credential,  *)
(* the row.                                                                *)

Disable(c) ==
  /\ Begins(c, "disable")
  /\ Exists
  /\ LET r == IF row.status = "PendingDisable" THEN row ELSE ClosedRow(row, "PendingDisable") IN
     /\ UpdateConnection(r)
     /\ Hold(c, [Idle EXCEPT !.op = "disable", !.pc = "secret", !.row = r])
  /\ UNCHANGED <<secret, up, issued, final, crashes, faults>>

DisableSecret(c) ==
  /\ At(c, "disable", "secret")
  /\ Seals(c, Stored, SecretDisable, "row", "end")

DisableRow(c) ==
  /\ At(c, "disable", "row")
  /\ Updates(c, ClosedRow(call[c].row, "Disabled"), "notify", "end")

Delete(c) ==
  /\ Begins(c, "delete")
  /\ Exists
  /\ row.enabled => row.status = "PendingDelete"
  /\ UpdateConnection(ClosedRow(row, "PendingDelete"))
  /\ Hold(c, [Idle EXCEPT !.op = "delete", !.pc = "secret"])
  /\ UNCHANGED <<secret, up, issued, final, crashes, faults>>

DeleteSecret(c) ==
  /\ At(c, "delete", "secret")
  /\ Seals(c, TRUE, SecretDelete, "row", "end")

DeleteRow(c) ==
  /\ At(c, "delete", "row")
  /\ Writes(c, Exists, DeleteConnection, "notify", "end")

-----------------------------------------------------------------------------
(* Bindings and authorization.                                             *)

Bind(c) ==
  /\ Begins(c, "bind")
  /\ Exists
  /\ \/ Accessible(account) /\ PutBinding
     \/ DeleteBinding
     \/ DisableBinding
  /\ UNCHANGED <<secret, lifecycle>>

\* set_execution_authorization_cas: checked first, then written by
\* compare-and-set on the revision.
Authorize(c) ==
  /\ Begins(c, "authorize")
  /\ Exists /\ auth.revision # 0 /\ auth.revision < MaxRevision
  /\ binding = "enabled"
  /\ \E mode \in Modes :
       /\ mode # "Disabled" => row.enabled /\ row.health = "Healthy" /\ account = "orders"
       /\ mode # auth.mode
       /\ Hold(c, [Idle EXCEPT !.op = "authorize", !.pc = "write", !.purpose = mode,
                               !.revision = auth.revision])
  /\ UNCHANGED <<platform, secret, up, issued, final, crashes, faults>>

AuthorizeWrite(c) ==
  /\ At(c, "authorize", "write")
  /\ Writes(c, auth.revision # 0 /\ auth.revision = call[c].revision,
            AuthorizationCas(call[c].purpose, call[c].revision), "end", "end")

-----------------------------------------------------------------------------
(* A dispatch: validate_runtime_execution_access, then                     *)
(* open_runtime_execution_client under the revision seen, then             *)
(* TInvestExecutionSession::dispatch_once, which validates again.          *)

Execute(c) ==
  /\ Begins(c, "execute")
  /\ \E purpose \in {"manual", "automated"} :
       /\ ExecutionAccess(purpose)
       /\ Hold(c, [Idle EXCEPT !.op = "execute", !.pc = "open", !.purpose = purpose,
                               !.revision = auth.revision])
  /\ UNCHANGED <<platform, secret, up, issued, final, crashes, faults>>

\* Mutant: a captured revision is not compared with the stored one.
StillAuthorizedLoosely(c) == ExecutionAccess(call[c].purpose)

StillAuthorized(c) == ExecutionAccess(call[c].purpose) /\ auth.revision = call[c].revision

OpenValidate(c) ==
  /\ At(c, "execute", "open")
  /\ Goto(c, IF StillAuthorized(c) THEN "credential" ELSE "end")
  /\ UNCHANGED <<platform, secret, up, issued, final, crashes, faults>>

OpenCredential(c) ==
  /\ At(c, "execute", "credential")
  /\ Hold(c, IF Exists /\ Usable
             THEN [call[c] EXCEPT !.pc = "session", !.credential = secret.credential]
             ELSE Idle)
  /\ UNCHANGED <<platform, secret, up, issued, final, crashes, faults>>

DispatchOnce(c) ==
  /\ At(c, "execute", "session")
  /\ Goto(c, IF StillAuthorized(c) THEN "sent" ELSE "end")
  /\ UNCHANGED <<platform, secret, up, issued, final, crashes, faults>>

Answered(c) ==
  /\ At(c, "execute", "sent")
  /\ Goto(c, "end")
  /\ UNCHANGED <<platform, secret, up, issued, final, crashes, faults>>

-----------------------------------------------------------------------------
(* A disable, delete or rotation returns to its caller.                    *)

Acknowledge(c) ==
  /\ call[c].pc = "notify"
  /\ Goto(c, "end")
  /\ final' = (final \/ call[c].op \in {"disable", "delete"})
  /\ UNCHANGED <<platform, secret, up, issued, crashes, faults>>

-----------------------------------------------------------------------------
(* Death, restart and recover_connection_lifecycle.  The recovery lists    *)
(* rows and credentials once, repairs the row by its status, and then      *)
(* disables the credential if the list had no row for it.  An error        *)
(* abandons the start.                                                     *)

Crash ==
  /\ up # "down" /\ crashes < MaxCrashes
  /\ up' = "down" /\ crashes' = crashes + 1
  /\ call' = [c \in DOMAIN call |-> Idle]
  /\ UNCHANGED <<platform, secret, issued, final, faults>>

Start ==
  /\ up = "down"
  /\ up' = "booting"
  /\ Hold(Boot, [Idle EXCEPT !.op = "recover", !.pc = "repair", !.row = row,
                             !.credential = secret.credential])
  /\ UNCHANGED <<platform, secret, issued, final, crashes, faults>>

Repairs(status) == At(Boot, "recover", "repair") /\ call[Boot].row.status = status

\* Onboarding died after its row, or after its credential.
RecoverOnboarding ==
  /\ Repairs("PendingValidation")
  /\ LET r == call[Boot].row IN
     CASE ~Stored -> Updates(Boot, InconsistentRow(r), "orphans", "failed")
       [] Stored /\ secret.disabled ->
            Goto(Boot, "failed") /\ UNCHANGED <<platform, secret, up, issued, final, crashes, faults>>
       [] Usable ->
            \/ \E level \in Answers :
                 Writes(Boot, Exists /\ (level = "absent" \/ account = "absent"),
                        InsertOnboarding(OnboardedRow(call[Boot].credential), level),
                        "orphans", "failed")
            \/ \E error \in ProviderErrors :
                 Updates(Boot, [r EXCEPT !.enabled = FALSE, !.health = Refused(r, error).health],
                         "orphans", "failed")

\* Mutant: an interrupted delete is taken for done.
RecoverDeleteSkipped ==
  /\ Repairs("PendingDelete")
  /\ Goto(Boot, "orphans")
  /\ UNCHANGED <<platform, secret, up, issued, final, crashes, faults>>

RecoverDelete ==
  /\ Repairs("PendingDelete")
  /\ Seals(Boot, TRUE, SecretDelete, "delete", "failed")

RecoverDeleteRow ==
  /\ At(Boot, "recover", "delete")
  /\ Writes(Boot, Exists, DeleteConnection, "orphans", "failed")

RecoverDisable ==
  /\ Repairs("PendingDisable")
  /\ Seals(Boot, Stored, SecretDisable, "disable", "failed")

RecoverDisableRow ==
  /\ At(Boot, "recover", "disable")
  /\ Updates(Boot, [call[Boot].row EXCEPT !.status = "Disabled", !.enabled = FALSE], "orphans", "failed")

Interrupted(r) == r.enabled /\ r.health = "Validating"

\* A rotation died: validate the credential that is stored now.
RecoverRotation ==
  /\ Repairs("Valid")
  /\ Interrupted(call[Boot].row)
  /\ IF CanRevalidate
     THEN Hold(Boot, [call[Boot] EXCEPT !.op = "revalidate", !.pc = "await"])
     ELSE Goto(Boot, "failed")
  /\ UNCHANGED <<platform, secret, up, issued, final, crashes, faults>>

RecoverFingerprint ==
  /\ At(Boot, "revalidate", "fingerprint")
  /\ Updates(Boot, [call[Boot].row EXCEPT !.fingerprint = call[Boot].credential], "orphans", "failed")

\* A connection that is open without its credential is closed.
RecoverVerify ==
  /\ Repairs("Valid")
  /\ ~Interrupted(call[Boot].row)
  /\ IF call[Boot].row.enabled /\ ~Usable
     THEN Updates(Boot, InconsistentRow(call[Boot].row), "orphans", "failed")
     ELSE Goto(Boot, "orphans") /\ UNCHANGED <<platform, secret, up, issued, final, crashes, faults>>

RecoverNothing ==
  /\ At(Boot, "recover", "repair")
  /\ call[Boot].row.status \notin {"PendingValidation", "PendingDelete", "PendingDisable", "Valid"}
  /\ Goto(Boot, "orphans")
  /\ UNCHANGED <<platform, secret, up, issued, final, crashes, faults>>

\* By the lists of the beginning, a credential without its row.
Orphan == call[Boot].credential # 0 /\ call[Boot].row.status \notin CredentialStatuses

RecoverOrphans ==
  /\ call[Boot].pc = "orphans"
  /\ IF Orphan
     THEN Seals(Boot, Stored, SecretDisable, "serve", "failed")
     ELSE Goto(Boot, "serve") /\ UNCHANGED <<platform, secret, up, issued, final, crashes, faults>>

Serve ==
  /\ call[Boot].pc \in {"serve", "failed"}
  /\ up' = IF call[Boot].pc = "serve" THEN "up" ELSE "down"
  /\ Goto(Boot, "end")
  /\ UNCHANGED <<platform, secret, issued, final, crashes, faults>>

-----------------------------------------------------------------------------
RequestStep(c) ==
  \/ Create(c) \/ CreateInsert(c) \/ CreatePut(c) \/ CreateOnboard(c) \/ CreateUndo(c)
  \/ Revalidate(c)
  \/ Rotate(c) \/ RotateGate(c) \/ RotateInvalidate(c) \/ RotateSwap(c) \/ RotateRestore(c)
  \/ RotateAccounts(c) \/ RotateRow(c) \/ RotateRevoke(c) \/ RotateAudit(c)
  \/ RotateUndo(c) \/ RotateUndoAccounts(c) \/ RotateUndoRow(c) \/ RotateUndoDisable(c)
  \/ Disable(c) \/ DisableSecret(c) \/ DisableRow(c)
  \/ Delete(c) \/ DeleteSecret(c) \/ DeleteRow(c)
  \/ Bind(c) \/ Authorize(c) \/ AuthorizeWrite(c)
  \/ Execute(c) \/ OpenValidate(c) \/ OpenCredential(c) \/ DispatchOnce(c) \/ Answered(c)

RevalidateStep(c) ==
  \/ RevalidateAccepted(c) \/ RevalidateRefused(c) \/ RevalidateAccounts(c)
  \/ RevalidateRevoke(c) \/ RevalidateFinish(c)

Recover ==
  \/ RecoverOnboarding \/ RecoverDelete \/ RecoverDeleteRow \/ RecoverDisable \/ RecoverDisableRow
  \/ RecoverRotation \/ RecoverFingerprint \/ RecoverVerify \/ RecoverNothing \/ RecoverOrphans

LifecycleStep ==
  \/ \E c \in Calls : RequestStep(c)
  \/ \E c \in Calls \union {Boot} : RevalidateStep(c)
  \/ Recover

Next ==
  \/ LifecycleStep
  \/ \E c \in Calls : Acknowledge(c)
  \/ Crash \/ Start \/ Serve

vars == <<platform, secret, lifecycle>>
Spec == LifecycleInit /\ [][Next]_vars
=============================================================================
