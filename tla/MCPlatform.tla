----------------------------- MODULE MCPlatform -----------------------------
(***************************************************************************)
(* The server's own state for TLC: connections with the runtime registry,  *)
(* who may do what, and a browser on the event gateway.  The three share   *)
(* nothing, so each initial state picks one and the others rest.           *)
(*                                                                         *)
(* Of the two operators one works on the credential, the other closes the  *)
(* connection or opens its runtime.                                        *)
(***************************************************************************)
EXTENDS RuntimeRegistry, AccessControl, EventGateway, TLC

CONSTANTS c1, c2

VARIABLE machine

MCOperations ==
  (c1 :> {"create", "revalidate", "rotate", "bind"})
  @@ (c2 :> {"disable", "delete", "authorize", "execute", "entry"})

MCPermissionSets ==
  {{"SecurityAdmin", "ViewPortfolio"}, {"EmergencyHalt", "SubmitProductionManualOrders"}}

platformVars == <<machine, RegistryVars, accessVars, gatewayVars>>

PlatformInit ==
  /\ machine \in {"connections", "access", "gateway"}
  /\ RegistryInit /\ AccessInit /\ GatewayInit
  /\ machine # "gateway" => topic = "quote"

PlatformNext ==
  /\ UNCHANGED machine
  /\ \/ machine = "connections" /\ RegistryNext /\ UNCHANGED <<accessVars, gatewayVars>>
     \/ machine = "access" /\ AccessNext /\ UNCHANGED <<RegistryVars, gatewayVars>>
     \/ machine = "gateway" /\ GatewayNext /\ UNCHANGED <<RegistryVars, accessVars>>

PlatformSpec == PlatformInit /\ [][PlatformNext]_platformVars
=============================================================================
