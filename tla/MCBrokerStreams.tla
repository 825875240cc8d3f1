--------------------------- MODULE MCBrokerStreams ---------------------------
(***************************************************************************)
(* The broker's side for TLC: the three kinds of stream and unary calls.   *)
(* They share nothing, so each initial state picks one of them and the     *)
(* others stay as they are.                                                *)
(***************************************************************************)
EXTENDS RuntimeStreams, MarketFeed, WebSocketSupervisor, BrokerCalls

VARIABLE machine

allVars == <<machine, vars, feedVars, wsVars, callVars>>

Dispatches(op, route, client, authorized) ==
  [via |-> "dispatcher", op |-> op, route |-> route, client |-> client, authorized |-> authorized]

\* Refused at once: the job of a call that has nothing to do.
Idles == [via |-> "rest", op |-> "read", method |-> "PostOrder"]

MCJobs ==
  {Dispatches("post_order", "Live", "Live", "Live"), Dispatches("cancel_order", "Live", "Live", "Live"),
   Dispatches("post_order", "Sandbox", "Live", "Live"), Idles}
  \cup [via : {"port"}, op : {"mutation"}, target : {"Production", "Sandbox"}]
  \cup [via : {"grpc"}, op : {"shares", "get_order_book", "get_candles", "get_orders", "generate", "fetch",
        "market stream", "orders stream", "operations stream"}]
  \cup [via : {"grpc"}, op : {"edit_favorites"}, client : {"Live", "Paper"}, authorized : {"Live"}]
  \cup [via : {"rest"}, op : {"read"}, method : {"Shares"}]
  \cup [via : {"rest"}, op : {"mutation"}, method : {"PostOrder", "EditFavorites", "GetOrders"},
        service : {"Sandbox", "Instruments"}, origin : {"Live", "Sandbox"}, authorized : {"Live", "Sandbox"}]

MCHeaders == [form : {"seconds"}, value : {1, 3}] \cup [form : {"date"}, value : {1, 3}] \cup [form : {"other"}, value : {0}]

\* Only calls of the dispatcher meet each other.
MeetingJobs ==
  \/ \A c \in Calls : job[c].via = "dispatcher"
  \/ \E c \in Calls : \A d \in Calls \ {c} : job[d] = Idles

StreamsInit ==
  /\ machine \in {"account", "market", "socket", "calls"}
  /\ Init /\ FeedInit /\ WsInit /\ CallsInit
  /\ machine # "account" => kind = "operations"
  /\ IF machine = "calls" THEN MeetingJobs ELSE \A c \in Calls : job[c] = Idles

StreamsNext ==
  /\ UNCHANGED machine
  /\ \/ machine = "account" /\ StreamNext /\ UNCHANGED <<feedVars, wsVars, callVars>>
     \/ machine = "market" /\ FeedNext /\ UNCHANGED <<vars, wsVars, callVars>>
     \/ machine = "socket" /\ WsNext /\ UNCHANGED <<vars, feedVars, callVars>>
     \/ machine = "calls" /\ CallsNext /\ UNCHANGED <<vars, feedVars, wsVars>>

\* Tasks of one executor; see StreamFairness.
StreamsSpec ==
  /\ StreamsInit /\ [][StreamsNext]_allVars
  /\ StreamFairness
  /\ WF_wsVars(machine = "socket" /\ WsTask)
  /\ \A c \in Calls : WF_callVars(machine = "calls" /\ ClientStep(c))
=============================================================================
