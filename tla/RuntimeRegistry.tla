--------------------------- MODULE RuntimeRegistry ---------------------------
(***************************************************************************)
(* ProductionRuntimeRegistry (crates/vox-core/src/production_runtime.rs)   *)
(* over the connection lifecycle: entry() builds the runtime of an account *)
(* under the lock of the entries, invalidate_connection removes it when    *)
(* the HTTP handler of a rotation, disable or delete reports the change.   *)
(*                                                                         *)
(* The runtime's own start is RuntimeCoordinator; here it is the           *)
(* credential its streams were opened with.                                *)
(***************************************************************************)
EXTENDS ConnectionLifecycle

VARIABLES
  lock,     \* who holds the lock of the entries
  entry,    \* 0, or the credential the runtime in the map was opened with
  closing,  \* a removed runtime still holds the file lock of its store
  told      \* the credential of the newest acknowledged rotation

registry == <<lock, entry, closing, told>>

Free == "free"

RegistryInit ==
  /\ LifecycleInit
  /\ lock = Free /\ entry = 0 /\ closing = FALSE /\ told = 0

-----------------------------------------------------------------------------
(* entry()                                                                 *)

\* StoredBindingResolver: the row exists and its binding is enabled.
Entry(c) ==
  /\ Begins(c, "entry")
  /\ Exists /\ binding = "enabled"
  /\ Hold(c, [Idle EXCEPT !.op = "entry", !.pc = "lock"])
  /\ UNCHANGED <<platform, secret, up, issued, final, crashes, faults, registry>>

\* Mutant: the lock is given back while the runtime starts.
EntryLockReleased(c) ==
  /\ At(c, "entry", "lock")
  /\ lock = Free
  /\ Goto(c, IF entry = 0 /\ ~closing /\ ReadAccess THEN "open" ELSE "end")
  /\ UNCHANGED <<lock, entry, closing, told>>
  /\ UNCHANGED <<platform, secret, up, issued, final, crashes, faults>>

\* A runtime that is there is shared; one still closing holds the store's
\* file lock, and opening the store fails.
EntryLock(c) ==
  /\ At(c, "entry", "lock")
  /\ lock = Free
  /\ IF entry = 0 /\ ~closing /\ ReadAccess
     THEN Goto(c, "open") /\ lock' = c
     ELSE Goto(c, "end") /\ UNCHANGED lock
  /\ UNCHANGED <<entry, closing, told>>
  /\ UNCHANGED <<platform, secret, up, issued, final, crashes, faults>>

\* open_runtime_read_client: validated again, then the credential is read.
EntryOpen(c) ==
  /\ At(c, "entry", "open")
  /\ IF ReadAccess
     THEN Hold(c, [call[c] EXCEPT !.pc = "insert", !.credential = secret.credential]) /\ UNCHANGED lock
     ELSE Goto(c, "end") /\ lock' = Free
  /\ UNCHANGED <<entry, closing, told>>
  /\ UNCHANGED <<platform, secret, up, issued, final, crashes, faults>>

\* start() came to an end.
EntryInsert(c) ==
  /\ At(c, "entry", "insert")
  /\ entry' \in {entry, call[c].credential}
  /\ lock' = Free
  /\ Goto(c, "end")
  /\ UNCHANGED <<closing, told>>
  /\ UNCHANGED <<platform, secret, up, issued, final, crashes, faults>>

-----------------------------------------------------------------------------
(* invalidate_connection, before the handler answers.                      *)

Tell(c) == told' = IF call[c].op = "rotate" THEN call[c].credential ELSE told

Invalidate(c) ==
  /\ call[c].pc = "notify"
  /\ lock = Free
  /\ entry' = 0
  /\ IF entry = 0
     THEN Acknowledge(c) /\ Tell(c) /\ UNCHANGED <<lock, closing>>
     ELSE /\ closing' = TRUE
          /\ Goto(c, "closing")
          /\ UNCHANGED <<lock, told, platform, secret, up, issued, final, crashes, faults>>

\* coordinator.shutdown() ended, or ran into its deadline.
Closed(c) ==
  /\ call[c].pc = "closing"
  /\ closing' = FALSE
  /\ Goto(c, "end")
  /\ final' = (final \/ call[c].op \in {"disable", "delete"})
  /\ Tell(c)
  /\ UNCHANGED <<lock, entry, platform, secret, up, issued, crashes, faults>>

Die ==
  /\ Crash
  /\ lock' = Free /\ entry' = 0 /\ closing' = FALSE
  /\ UNCHANGED told

-----------------------------------------------------------------------------
RegistryNext ==
  \/ LifecycleStep /\ UNCHANGED registry
  \/ \E c \in Calls : Entry(c) \/ EntryLock(c) \/ EntryOpen(c) \/ EntryInsert(c)
  \/ \E c \in Calls : Invalidate(c) \/ Closed(c)
  \/ Die
  \/ (Start \/ Serve) /\ UNCHANGED registry

RegistryVars == <<vars, registry>>

RegistrySpec == RegistryInit /\ [][RegistryNext]_RegistryVars

-----------------------------------------------------------------------------
(* Properties.                                                             *)

\* An acknowledged disable or delete is final: whatever requests are still
\* in flight write back, whatever fails and however often the process
\* restarts, nothing is authorized any more (disable_connection,
\* validate_execution_access).
DisableIsFinal ==
  final => ~ReadAccess /\ \A p \in {"manual", "automated"} : ~ExecutionAccess(p)

\* What a start leaves behind is consistent: no lifecycle operation is half
\* done, an open connection has its credential, a credential without a
\* connection is disabled (recover_connection_lifecycle).
RecoveredIsConsistent ==
  [][up = "booting" /\ up' = "up" =>
       /\ row.status \notin {"PendingDelete", "PendingDisable"}
       /\ row.enabled /\ row.health = "Healthy" => Usable
       /\ Stored /\ ~Exists => secret.disabled]_RegistryVars

\* An authorization, once changed, never has an earlier revision again as
\* long as its connection exists, so a captured revision cannot come back
\* into force (write_authorization_cas, invalidate_connection_authorizations).
RevisionsOnlyGrow ==
  [][Exists /\ row'.status \in CredentialStatuses =>
       /\ auth'.revision >= auth.revision
       /\ auth' # auth => auth'.revision > auth.revision]_RegistryVars

\* No order goes out with a credential older than the stored one: rotation
\* closes admission and raises the revision before it replaces the
\* credential, and the session checks both before it sends
\* (rotate_credential, dispatch_once).
NoSupersededCredential ==
  [][\A c \in Calls :
       call[c].pc = "session" /\ call'[c].pc = "sent" => call[c].credential >= secret.credential]_RegistryVars

\* Once a rotation, disable or delete is acknowledged, no runtime lives on
\* what it replaced (invalidate_connection against entry()).
RuntimeFollowsAcknowledgement ==
  entry # 0 => entry >= told /\ ~final
=============================================================================
