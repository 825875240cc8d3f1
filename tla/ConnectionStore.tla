--------------------------- MODULE ConnectionStore ---------------------------
(***************************************************************************)
(* The two stores behind a broker connection: the platform database        *)
(* (crates/vox-connections/src/repository.rs) with the connection's row,   *)
(* its account, the account's binding and execution authorization, and the *)
(* encrypted credential store (secret.rs).  One operator per transaction;  *)
(* where it has a guard, the guard is the condition under which it commits.*)
(*                                                                         *)
(* One connection with one provider account.  Identities are fresh UUIDs,  *)
(* so a connection that was deleted never comes back.                      *)
(***************************************************************************)
EXTENDS Naturals

VARIABLES
  row,      \* broker_connections
  account,  \* broker_accounts: what the provider lets the account do
  binding,  \* broker_account_bindings
  auth,     \* execution_authorizations
  secret    \* encrypted_credentials: which credential, and disabled or not

platform == <<row, account, binding, auth>>

CredentialStatuses ==
  {"PendingValidation", "Valid", "Invalid", "ExpiredOrInactive",
   "PendingDisable", "Disabled", "PendingDelete"}

Healths ==
  {"Unknown", "Validating", "Healthy", "InvalidCredential", "InsufficientPermission",
   "ProviderUnavailable", "AccountAccessChanged", "Disabled"}

Modes == {"Disabled", "ManualAllowed", "AutomatedAllowed"}

\* "gone": known, and not accessible.  "read": accessible without orders.
Levels == {"absent", "gone", "read", "orders"}
Accessible(level) == level \in {"read", "orders"}

NoRow == [enabled |-> FALSE, status |-> "None", health |-> "Unknown", fingerprint |-> 0]
NoAuth == [mode |-> "Disabled", revision |-> 0]
NoSecret == [credential |-> 0, disabled |-> FALSE]

StoreInit ==
  /\ row = NoRow
  /\ account = "absent" /\ binding = "none" /\ auth = NoAuth
  /\ secret = NoSecret

-----------------------------------------------------------------------------
(* The platform database.                                                  *)

Exists == row.status \in CredentialStatuses

InsertConnection(r) == row.status = "None" /\ row' = r /\ UNCHANGED <<account, binding, auth>>

\* A whole-row UPDATE; NotFound when the row is gone.
UpdateConnection(r) == Exists /\ row' = r /\ UNCHANGED <<account, binding, auth>>

\* The row, the discovered accounts and their authorizations in one
\* transaction; an account that is already stored violates its primary key.
InsertOnboarding(r, level) ==
  /\ Exists
  /\ level = "absent" \/ account = "absent"
  /\ row' = r
  /\ account' = IF level = "absent" THEN account ELSE level
  /\ auth' = IF level = "absent" THEN auth ELSE [mode |-> "Disabled", revision |-> 1]
  /\ UNCHANGED binding

\* Accounts the provider no longer names stay, as inaccessible.
Replaced(level) ==
  CASE level # "absent" -> level
    [] account = "absent" -> "absent"
    [] OTHER -> "gone"

ReplaceAccounts(level) ==
  /\ level = "absent" \/ Exists
  /\ account' = Replaced(level)
  /\ UNCHANGED <<row, binding, auth>>

PutBinding == account # "absent" /\ binding = "none" /\ binding' = "enabled" /\ UNCHANGED <<row, account, auth>>
DeleteBinding == binding # "none" /\ binding' = "none" /\ UNCHANGED <<row, account, auth>>
DisableBinding == binding # "none" /\ binding' = "disabled" /\ UNCHANGED <<row, account, auth>>

\* Mutant: the update does not compare the revision it was planned from.
AuthorizationOverwrite(mode, expected) ==
  /\ auth.revision # 0
  /\ auth' = [mode |-> mode, revision |-> expected + 1]
  /\ UNCHANGED <<row, account, binding>>

AuthorizationCas(mode, expected) ==
  /\ auth.revision # 0 /\ auth.revision = expected
  /\ auth' = [mode |-> mode, revision |-> expected + 1]
  /\ UNCHANGED <<row, account, binding>>

InvalidateAuthorizations ==
  /\ auth' = IF auth.revision = 0 THEN auth ELSE [auth EXCEPT !.revision = @ + 1]
  /\ UNCHANGED <<row, account, binding>>

\* The row goes and takes its account, binding and authorization along.
DeleteConnection ==
  /\ Exists
  /\ row' = [NoRow EXCEPT !.status = "Deleted"]
  /\ account' = "absent" /\ binding' = "none" /\ auth' = NoAuth

-----------------------------------------------------------------------------
(* The credential store.                                                   *)

Stored == secret.credential # 0
Usable == Stored /\ ~secret.disabled

SecretPut(c) == ~Stored /\ secret' = [credential |-> c, disabled |-> FALSE]

\* Mutant: a disabled credential can be replaced, which enables it again.
SecretRotateRevives(c) == Stored /\ secret' = [credential |-> c, disabled |-> FALSE]

SecretRotate(c) == Usable /\ secret' = [secret EXCEPT !.credential = c]

SecretDisable == Stored /\ secret' = [secret EXCEPT !.disabled = TRUE]
SecretDelete == secret' = NoSecret

-----------------------------------------------------------------------------
(* What a caller may do with the connection (service.rs).                  *)

\* bound_healthy_target
BoundHealthy ==
  /\ row.enabled /\ row.health = "Healthy" /\ row.status # "PendingDelete"
  /\ Exists
  /\ Accessible(account)
  /\ binding = "enabled"

ReadAccess == BoundHealthy /\ Usable

\* execution_purpose_allowed in production
PurposeAllowed(purpose) ==
  \/ purpose = "manual" /\ auth.mode \in {"ManualAllowed", "AutomatedAllowed"}
  \/ purpose = "automated" /\ auth.mode = "AutomatedAllowed"

\* validate_execution_access without its revision.
ExecutionAccess(purpose) ==
  /\ BoundHealthy
  /\ auth.revision # 0 /\ PurposeAllowed(purpose)
  /\ account = "orders"
  /\ Usable
=============================================================================
