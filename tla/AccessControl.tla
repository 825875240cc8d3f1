---------------------------- MODULE AccessControl ----------------------------
(***************************************************************************)
(* Who may do what: the bootstrap identity, sessions and the request       *)
(* middleware (crates/vox-core/src/auth.rs) over the users, roles and      *)
(* grants of the platform database (vox-connections/src/repository.rs),    *)
(* and the permission checks in front of each operation (service.rs).      *)
(*                                                                         *)
(* There is one role, the bootstrap role, whose identity is fixed.  Each   *)
(* start is configured with a user, permissions and an expiry.  Tokens and *)
(* their hashes are the session itself; a request presents a session and a *)
(* matching CSRF token, or is refused without effect.                      *)
(***************************************************************************)
EXTENDS Naturals, FiniteSets

CONSTANTS
  Users,           \* identities a configuration can name
  PermissionSets,  \* the permission sets configurations and roles choose from
  Requests,        \* requests in flight at once
  MaxTime          \* bound on the clock

VARIABLES
  users,       \* connection_users: absent, enabled or disabled
  role,        \* connection_role_permissions of the bootstrap role
  defined,     \* the bootstrap role is in connection_roles
  grants,      \* connection_user_roles
  provisioned, \* security_bootstrap_provisioning has its row
  sessions,    \* server_sessions: [user, expires]
  config,      \* the running process: [user, expires], or Down
  request,     \* what each request has passed
  mode,        \* the execution authorization of one account, in production
  now

identity == <<users, role, defined, grants, provisioned>>
accessVars == <<identity, sessions, config, request, mode, now>>

Down == [user |-> "none", expires |-> 0]
NoRequest == [user |-> "none", op |-> "none", pc |-> "idle", arg |-> {}]

AccessInit ==
  /\ users = [u \in Users |-> "absent"]
  /\ role = {} /\ defined = FALSE /\ grants = {} /\ provisioned = FALSE
  /\ sessions = {} /\ config = Down /\ mode = "Disabled" /\ now = 0
  /\ request = [r \in Requests |-> NoRequest]

\* permissions(): nothing for an unknown or disabled user.
Held(u) == IF u \in Users /\ users[u] = "enabled" /\ u \in grants THEN role ELSE {}

-----------------------------------------------------------------------------
(* AuthState::open                                                         *)

\* Mutant: the bootstrap identity is written at every start.
ProvisionAlways(u, permissions) ==
  /\ provisioned' = TRUE
  /\ users' = [users EXCEPT ![u] = "enabled"]
  /\ role' = permissions /\ defined' = TRUE /\ grants' = grants \union {u}

\* What is persisted is authoritative: the configured identity is written
\* only by the first start, and only into a database that has neither the
\* user nor the role.
Provision(u, permissions) ==
  /\ provisioned' = TRUE
  /\ IF provisioned \/ users[u] # "absent" \/ defined
     THEN UNCHANGED <<users, role, defined, grants>>
     ELSE /\ users' = [users EXCEPT ![u] = "enabled"]
          /\ role' = permissions /\ defined' = TRUE /\ grants' = grants \union {u}

Open ==
  /\ config = Down
  /\ \E u \in Users, permissions \in PermissionSets, expires \in 1..MaxTime :
       /\ expires > now
       /\ Provision(u, permissions)
       /\ config' = [user |-> u, expires |-> expires]
  /\ UNCHANGED <<sessions, request, mode, now>>

Stop ==
  /\ config # Down
  /\ config' = Down
  /\ request' = [r \in Requests |-> NoRequest]
  /\ UNCHANGED <<identity, sessions, mode, now>>

\* put_user: the repository lets a user be added, disabled and enabled.
PutUser ==
  /\ \E u \in Users, state \in {"enabled", "disabled"} : users' = [users EXCEPT ![u] = state]
  /\ UNCHANGED <<role, defined, grants, provisioned, sessions, config, request, mode, now>>

Tick ==
  /\ now < MaxTime
  /\ now' = now + 1
  /\ UNCHANGED <<identity, sessions, config, request, mode>>

-----------------------------------------------------------------------------
(* Sessions and the middleware.                                            *)

EstablishSession ==
  /\ config # Down
  /\ now < config.expires
  /\ users[config.user] = "enabled"
  /\ sessions' = sessions \union {config}
  /\ UNCHANGED <<identity, config, request, mode, now>>

\* required_permission: what the path itself asks for.
RequiredPermission(op) ==
  CASE op = "command" -> {"SubmitProductionManualOrders"}
    [] op = "risk_state" -> {"ChangeRiskPolicy"}
    [] op = "read" -> {"ViewPortfolio"}
    [] OTHER -> {}

AuthorizationModes == {"Disabled", "ManualAllowed", "AutomatedAllowed"}

Arguments(op) ==
  CASE op = "replace_role" -> PermissionSets
    [] op = "grant_role" -> {{u} : u \in Users}
    [] op = "authorize" -> {{m} : m \in AuthorizationModes}
    [] OTHER -> {{}}

\* authenticate and required_permission, for one request.
Authenticate(r) ==
  /\ config # Down
  /\ request[r].pc = "idle"
  /\ \E s \in sessions, op \in {"command", "read", "replace_role", "grant_role", "authorize"} :
       /\ s.expires > now
       /\ users[s.user] = "enabled"
       /\ RequiredPermission(op) \subseteq Held(s.user)
       /\ \E arg \in Arguments(op) :
            request' = [request EXCEPT ![r] =
              [user |-> s.user, op |-> op, pc |-> "handler", arg |-> arg]]
  /\ UNCHANGED <<identity, sessions, config, mode, now>>

-----------------------------------------------------------------------------
(* The operations' own checks.                                             *)

\* authorization_rank
Rank(m) == CASE m = "Disabled" -> 0 [] m = "ManualAllowed" -> 1 [] OTHER -> 2

\* require_authorization_transition, for a connection of environment env.
TransitionAllowed(env, previous, m, held) ==
  \/ /\ Rank(m) < Rank(previous)
     /\ held \intersect {"EmergencyHalt", "DisableDeleteConnection", "SecurityAdmin"} # {}
  \/ LET needed ==
           CASE env = "production" /\ m = "AutomatedAllowed" -> "EnableAutomatedProductionExecution"
             [] env = "production" /\ m = "ManualAllowed" -> "SubmitProductionManualOrders"
             [] previous = "Disabled" /\ m = "Disabled" -> "BindAccounts"
             [] env = "sandbox" -> "SubmitSandboxOrders"
             [] OTHER -> "EmergencyHalt"
     IN needed \in held

Allowed(q) ==
  CASE q.op \in {"replace_role", "grant_role"} -> "SecurityAdmin" \in Held(q.user)
    [] q.op = "authorize" -> \E m \in q.arg : TransitionAllowed("production", mode, m, Held(q.user))
    [] OTHER -> TRUE

\* require(): the permissions are read again, in a transaction of their own.
Require(r) ==
  /\ request[r].pc = "handler"
  /\ request' = [request EXCEPT ![r] = IF Allowed(request[r]) THEN [request[r] EXCEPT !.pc = "write"] ELSE NoRequest]
  /\ UNCHANGED <<identity, sessions, config, mode, now>>

\* The operation's transaction, audit record included.  The authorization
\* compares its revision, here the mode it was read with.
Write(r) ==
  /\ request[r].pc = "write"
  /\ request' = [request EXCEPT ![r] = NoRequest]
  /\ role' = IF request[r].op = "replace_role" THEN request[r].arg ELSE role
  /\ defined' = (defined \/ request[r].op = "replace_role")
  /\ grants' = IF request[r].op = "grant_role" THEN grants \union request[r].arg ELSE grants
  /\ IF request[r].op = "authorize" THEN mode' \in request[r].arg \union {mode} ELSE UNCHANGED mode
  /\ UNCHANGED <<users, provisioned, sessions, config, now>>

AccessNext ==
  \/ Open \/ Stop \/ PutUser \/ Tick \/ EstablishSession
  \/ \E r \in Requests : Authenticate(r) \/ Require(r) \/ Write(r)

AccessSpec == AccessInit /\ [][AccessNext]_accessVars

-----------------------------------------------------------------------------
(* Properties.                                                             *)

Administers(r) == request[r].pc = "write" /\ request[r].op \in {"replace_role", "grant_role"}

\* Nobody may administer roles, and no administrative write is under way.
AdministrationClosed ==
  /\ provisioned /\ defined /\ "SecurityAdmin" \notin role
  /\ \A r \in Requests : ~Administers(r)

\* Administration that was given up stays given up: neither a request in any
\* stage nor a user enabled again nor a restart with whatever configuration
\* changes a role or a grant (provision_bootstrap_identity, require).
AdministrationStaysClosed ==
  [][AdministrationClosed => AdministrationClosed' /\ UNCHANGED <<role, grants>>]_accessVars
=============================================================================
