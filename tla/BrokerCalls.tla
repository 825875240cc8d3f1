----------------------------- MODULE BrokerCalls -----------------------------
(***************************************************************************)
(* One unary call to the broker, from the port the runtime uses down to    *)
(* the wire and back to the verdict the caller gets:                       *)
(*   "port"        StoredTInvestExecutionPort and the runtime adapter      *)
(*                 (connection_factory.rs, runtime_execution.rs)           *)
(*   "dispatcher"  ExecutionMutationDispatcher over its evidence store     *)
(*                 (execution_dispatch.rs, vox-domain/src/mutation.rs)     *)
(*   "grpc"        reads and streams of the gRPC client (grpc.rs)          *)
(*   "rest"        the REST client (rest.rs)                               *)
(*                                                                         *)
(* A request that has left is pending until the broker accepts or refuses  *)
(* it, whether or not anybody still waits for the answer.  The calls of    *)
(* the dispatcher are about one logical mutation; a call may be dropped at *)
(* any await, by its caller or with the process.                           *)
(***************************************************************************)
EXTENDS Naturals

CONSTANTS
  Calls,        \* calls, each with the job Init gives it
  Jobs,         \* the jobs they may have
  Codes,        \* gRPC status codes and REST outcomes the transport may give
  ReadAttempts,  \* RetryPolicy::max_attempts
  FirstDelay, MaxDelay,  \* RetryPolicy's delays, in some unit
  Headers,      \* Retry-After headers: [form, value], a date as time since the epoch
  Now           \* the time they are read at

\* RetryPolicy::new
ValidPolicy ==
  /\ ReadAttempts \in Nat \ {0}
  /\ FirstDelay \in Nat \ {0} /\ MaxDelay \in Nat /\ FirstDelay <= MaxDelay

ASSUME PolicyAssumption == ValidPolicy
ASSUME HeadersAssumption == Headers \subseteq [form : {"seconds", "date", "other"}, value : Nat] /\ Now \in Nat

VARIABLES
  job,       \* what each call is to do
  call,      \* where it is: attempt, chosen delay, verdict
  copies,    \* how many copies of its request left the process
  fate,      \* what the broker does with them
  evidence   \* the dispatcher's durable record of the mutation

callVars == <<job, call, copies, fate, evidence>>

NewCall == [pc |-> "start", attempt |-> 1, delay |-> 0, asked |-> 0, verdict |-> "none"]

CallsInit ==
  /\ job \in [Calls -> Jobs]
  /\ call = [c \in Calls |-> NewCall]
  /\ copies = [c \in Calls |-> 0]
  /\ fate = [c \in Calls |-> "none"]
  /\ evidence = "none"

CallAt(c, via, pc) == job[c].via = via /\ call[c].pc = pc
Goes(c, pc) == call' = [call EXCEPT ![c].pc = pc]
Ends(c, verdict) == call' = [call EXCEPT ![c].pc = "done", ![c].verdict = verdict]

Offline == UNCHANGED <<job, copies, fate>>

-----------------------------------------------------------------------------
(* Environments.                                                           *)

\* TInvestGrpcClient::new: a client only for a credential of the endpoint's
\* environment.
NewClient(credential, endpoint) == IF credential = endpoint THEN {endpoint} ELSE {}

\* build_client: credential and endpoint follow the stored target.
ClientOf(target) == IF target = "Production" THEN NewClient("Live", "Live") ELSE NewClient("Sandbox", "Sandbox")

\* build_execution_client
RouteOf(target) == IF target = "Production" THEN "Live" ELSE "Sandbox"

\* MutationGuard::authorize_mutation
Guard(environment, enabled) == IF environment = "Live" /\ ~enabled THEN {} ELSE {environment}

\* TInvestRuntimeExecutionAdapter::authorization; the factory always enables.
AuthorizationOf(route) == Guard(route, TRUE)

\* provider_endpoint, is_safe_read_method, is_mutation_method: a method is a
\* read, a mutation or neither.
Methods ==
  [Shares |-> "read", GetOrders |-> "read", PostOrder |-> "mutation",
   EditFavorites |-> "mutation", Unknown |-> "other"]

\* mutation_path_matches_environment
PathMatches(j) ==
  /\ Methods[j.method] = "mutation"
  /\ \/ j.authorized = "Live" /\ j.origin = "Live" /\ j.service # "Sandbox"
     \/ j.authorized = "Sandbox" /\ j.service = "Sandbox"
     \/ /\ j.authorized = "Sandbox" /\ j.origin = "Sandbox"
        /\ j.service = "Instruments" /\ j.method = "EditFavorites"

-----------------------------------------------------------------------------
(* Statuses and what is made of them.                                      *)

\* Mutant: running out of the deadline counts as a rejection.
RejectionOrTimeout(code) ==
  code \in {"InvalidArgument", "Unauthenticated", "PermissionDenied", "NotFound", "AlreadyExists",
            "FailedPrecondition", "OutOfRange", "Unimplemented", "DeadlineExceeded"}

AuthoritativeRejection(code) ==
  code \in {"InvalidArgument", "Unauthenticated", "PermissionDenied", "NotFound", "AlreadyExists",
            "FailedPrecondition", "OutOfRange", "Unimplemented"}

\* "Internal7000x": Internal with provider code 70001, 70002 or 70003.
RetryableStatus(code) ==
  code \in {"Unavailable", "ResourceExhausted", "DeadlineExceeded", "Internal7000x"}

\* RestError::retry_directive
RetryableRest(kind) == kind \in {"Connect", "Timeout", "Transport", "ResponseBody", "Http5xx"}

\* RestError::dispatch_certainty
Certainty(kind) ==
  CASE kind \in {"InvalidMethodPath", "EnvironmentMismatch", "MethodMismatch", "RequestInvalid", "Connect"}
         -> "NotDispatched"
    [] kind \in {"Timeout", "Transport", "ResponseBody", "ResponseTooLarge"} -> "PossiblyDispatched"
    [] kind \in {"Http4xx", "Http5xx", "ResponseDecode"} -> "ProviderResponded"
    [] OTHER -> "Ok"

\* delay_for before jitter: doubled from the first delay up to the limit.
Backoff[n \in Nat] ==
  IF n <= 1 THEN FirstDelay
  ELSE IF 2 * Backoff[n - 1] <= MaxDelay THEN 2 * Backoff[n - 1] ELSE MaxDelay

Larger(a, b) == IF a >= b THEN a ELSE b

\* parse_retry_after: seconds, or a date that may already be over.
RetryAfter(header) ==
  CASE header.form = "seconds" -> header.value
    [] header.form = "date" /\ header.value > Now -> header.value - Now
    [] OTHER -> 0

\* Jitter adds at most the delay itself, within the limit; a longer delay the
\* server asked for wins.
Delays(n, asked) ==
  {Larger(d, asked) : d \in {e \in Backoff[n] .. 2 * Backoff[n] : e <= MaxDelay}}

-----------------------------------------------------------------------------
(* The wire.  A failure to connect leaves no copy behind; the transport    *)
(* may lose the connection or run out of its deadline at any later time.   *)

\* Codes the provider gives only for a request it did not execute (external).
RefusalCodes ==
  {"InvalidArgument", "Unauthenticated", "PermissionDenied", "NotFound", "AlreadyExists",
   "FailedPrecondition", "OutOfRange", "Unimplemented"}

\* What may come back for a copy that left (external): a positive answer only
\* for what was accepted, a rejection only for what was refused.
Answers(c) ==
  {code \in Codes : \/ code = "Ok" /\ fate[c] = "accepted"
                    \/ code \in RefusalCodes /\ fate[c] = "refused"
                    \/ code \in {"DeadlineExceeded", "Unavailable", "ResourceExhausted", "Cancelled",
                                 "Unknown", "Aborted", "DataLoss", "Internal", "Internal7000x"}}

\* The same for REST: any response may also be cut off or not decode.
RestAnswers(c) ==
  {kind \in Codes : \/ kind = "Ok" /\ fate[c] = "accepted"
                    \/ kind = "Http4xx" /\ fate[c] = "refused"
                    \/ kind \in {"Timeout", "Transport"}
                    \/ kind \in {"ResponseBody", "ResponseTooLarge", "Http5xx", "ResponseDecode"}
                         /\ fate[c] # "pending"}

BrokerDecides ==
  /\ \E c \in Calls : fate[c] = "pending" /\ \E f \in {"accepted", "refused"} : fate' = [fate EXCEPT ![c] = f]
  /\ UNCHANGED <<job, call, copies, evidence>>

Leaves(c) ==
  /\ copies' = [copies EXCEPT ![c] = @ + 1]
  /\ fate' = [fate EXCEPT ![c] = "pending"]
  /\ Goes(c, "await")
  /\ UNCHANGED <<job, evidence>>

-----------------------------------------------------------------------------
(* ExecutionMutationDispatcher.                                            *)

\* MutationRecovery::decision
Decision ==
  CASE evidence = "none" -> "Submit"
    [] evidence = "Unknown" -> "Reconcile"
    [] OTHER -> "DoNotSubmit"

\* post_order ... cancel_stop_order: the identity each operation takes from
\* its response.
Attaches ==
  [post_order |-> "order", post_order_async |-> "operation", replace_order |-> "order",
   cancel_order |-> "none", post_stop_order |-> "stop order", cancel_stop_order |-> "none"]

\* execute_with_id up to the claim.
DispatcherDecide(c) ==
  /\ CallAt(c, "dispatcher", "start")
  /\ IF job[c].route # job[c].client \/ job[c].authorized # job[c].client THEN Ends(c, "EnvironmentMismatch")
     ELSE IF Decision # "Submit" THEN Ends(c, "ReconciliationRequired")
     ELSE Goes(c, "claim")
  /\ Offline /\ UNCHANGED evidence

\* persist_before_dispatch; the store may also fail.
ClaimDispatch(c) ==
  /\ CallAt(c, "dispatcher", "claim")
  /\ \/ evidence = "none" /\ evidence' = "Unknown" /\ Goes(c, "send")
     \/ Ends(c, "StoreError") /\ UNCHANGED evidence
  /\ Offline

\* persist_authoritative_outcome: only what is still unknown is resolved.
Persist(outcome) == evidence = "Unknown" /\ evidence' = outcome

\* The answer's outcome is written after the await; the identity the answer
\* carries may not be usable, and then nothing is written.
RecordOutcome(c) ==
  /\ CallAt(c, "dispatcher", "record")
  /\ \/ /\ call[c].verdict = "Accepted" /\ Attaches[job[c].op] \in {"order", "stop order"}
        /\ Ends(c, "IdentityError") /\ UNCHANGED evidence
     \/ Persist(call[c].verdict) /\ Ends(c, call[c].verdict)
     \/ Ends(c, "StoreError") /\ UNCHANGED evidence
  /\ Offline

\* resolve_order_accepted
ResolveAccepted == evidence # "none" /\ Persist("Accepted")

\* reconcile_order_accepted, after a readback that found the order.
ReconcileAccepted ==
  /\ \E c \in Calls : job[c].via = "dispatcher" /\ fate[c] = "accepted"
  /\ Decision = "Reconcile" /\ ResolveAccepted
  /\ Offline /\ UNCHANGED call

-----------------------------------------------------------------------------
(* StoredTInvestExecutionPort::dispatch_once.                              *)

\* execution_session: a denied session is an error of class Permission.
OpenSession(c) ==
  /\ CallAt(c, "port", "start")
  /\ Goes(c, "adapter") \/ Ends(c, "PortError")
  /\ Offline /\ UNCHANGED evidence

\* The session validates again, the adapter authorizes the route and builds
\* the request; what fails here is an error, or a rejection before dispatch.
AdapterDispatch(c) ==
  /\ CallAt(c, "port", "adapter")
  /\ \/ Ends(c, "PortError")
     \/ Ends(c, "Rejected")
     \/ ClientOf(job[c].target) # {} /\ AuthorizationOf(RouteOf(job[c].target)) # {} /\ Goes(c, "send")
  /\ Offline /\ UNCHANGED evidence

Authorized(c) == IF job[c].via = "port" THEN AuthorizationOf(RouteOf(job[c].target)) ELSE {job[c].authorized}
ClientEnvironment(c) == IF job[c].via = "port" THEN ClientOf(job[c].target) ELSE {job[c].client}

\* service_mutation and mutation refuse any other pair before they send.
MaySend(c) == \E a \in Authorized(c), e \in ClientEnvironment(c) : a = e /\ e # "Paper"

\* What the caller of a mutation is told when its answer is not a response.
NotAnswered(c) == IF job[c].via = "port" THEN "PortError" ELSE "UnknownAfterDispatch"

\* service_mutation: one attempt.  Metadata that cannot be encoded and a
\* failing connection end it before anything left.
ServiceMutation(c) ==
  /\ job[c].via \in {"dispatcher", "port"} /\ call[c].pc = "send"
  /\ \/ MaySend(c) /\ Leaves(c)
     \/ Ends(c, NotAnswered(c)) /\ Offline /\ UNCHANGED evidence

\* The classification of the status: of the dispatcher in execute_with_id, of
\* the port in dispatch_once.
MutationAnswer(c) ==
  /\ job[c].via \in {"dispatcher", "port"} /\ call[c].pc = "await"
  /\ \E code \in Answers(c) :
       LET verdict == CASE code = "Ok" -> "Accepted"
                        [] AuthoritativeRejection(code) -> "Rejected"
                        [] OTHER -> NotAnswered(c)
       IN IF job[c].via = "dispatcher" /\ verdict \in {"Accepted", "Rejected"}
          THEN call' = [call EXCEPT ![c].pc = "record", ![c].verdict = verdict]
          ELSE Ends(c, verdict)
  /\ Offline /\ UNCHANGED evidence

-----------------------------------------------------------------------------
(* Reads of the gRPC client: at most the policy's attempts, each with a    *)
(* deadline, and a delay in between.                                       *)

Sleeps(c, asked) ==
  \E d \in Delays(call[c].attempt, asked) :
    call' = [call EXCEPT ![c].pc = "sleep", ![c].delay = d, ![c].asked = asked]

\* Mutant: the attempts are not counted.
RetryForever(c, attempts, code) ==
  IF RetryableStatus(code)
  THEN call' = [call EXCEPT ![c].pc = "sleep", ![c].attempt = 1]
  ELSE Ends(c, IF code = "Ok" THEN "Ok" ELSE "Error")

RetryOrEnd(c, attempts, code) ==
  IF call[c].attempt < attempts /\ RetryableStatus(code)
  THEN Sleeps(c, 0)
  ELSE Ends(c, IF code = "Ok" THEN "Ok" ELSE "Error")

Attempt(c, attempts) ==
  \/ /\ call[c].pc = "start"
     /\ \/ Leaves(c)
        \/ RetryOrEnd(c, attempts, "Unavailable") /\ Offline /\ UNCHANGED evidence
        \/ Ends(c, "Error") /\ Offline /\ UNCHANGED evidence
  \/ /\ call[c].pc = "await"
     /\ \E code \in Answers(c) : RetryOrEnd(c, attempts, code)
     /\ Offline /\ UNCHANGED evidence

\* The tables of methods that are sent the same way.
InstrumentReads ==
  {"trading_schedules", "bond_by", "bonds", "get_bond_coupons", "get_bond_events", "currency_by",
   "currencies", "etf_by", "etfs", "future_by", "futures", "option_by", "options", "options_by",
   "share_by", "shares", "dfa_by", "dfas", "indicatives", "get_accrued_interests",
   "get_futures_margin", "get_instrument_by", "get_dividends", "get_asset_by", "get_assets",
   "get_favorites", "get_favorite_groups", "get_countries", "find_instrument", "get_brands",
   "get_brand_by", "get_asset_fundamentals", "get_asset_reports", "get_consensus_forecasts",
   "get_forecast_by", "get_risk_rates", "get_insider_deals", "structured_note_by",
   "structured_notes", "news"}

MarketReads ==
  {"get_last_prices", "get_order_book", "get_trading_status", "get_trading_statuses",
   "get_last_trades", "get_close_prices", "get_tech_analysis", "get_market_values"}

ServiceReads ==
  {"get_accounts", "get_margin_attributes", "get_user_tariff", "get_info", "get_bank_accounts",
   "get_account_values", "get_operations", "get_portfolio", "get_positions", "get_withdraw_limits",
   "get_operations_by_cursor", "get_sandbox_accounts", "get_sandbox_portfolio",
   "get_sandbox_positions", "get_sandbox_withdraw_limits", "get_sandbox_operations",
   "get_sandbox_operations_by_cursor", "get_sandbox_orders", "get_sandbox_order_state",
   "get_sandbox_order_price", "get_sandbox_max_lots", "get_sandbox_stop_orders", "get_order_state",
   "get_orders", "get_max_lots", "get_order_price", "get_stop_orders"}

Favorites == {"edit_favorites", "create_favorite_group", "delete_favorite_group"}

SafeRead(c) == job[c].via = "grpc" /\ job[c].op \in InstrumentReads /\ Attempt(c, ReadAttempts)

SafeMarketRead(c) == job[c].via = "grpc" /\ job[c].op \in MarketReads /\ Attempt(c, ReadAttempts)

\* get_candles validates its request first.
GetCandles(c) ==
  /\ job[c].via = "grpc" /\ job[c].op = "get_candles"
  /\ \/ Attempt(c, ReadAttempts)
     \/ call[c].pc = "start" /\ call[c].attempt = 1 /\ Ends(c, "Error") /\ Offline /\ UNCHANGED evidence

ServiceRead(c) == job[c].via = "grpc" /\ job[c].op \in ServiceReads /\ Attempt(c, ReadAttempts)

\* get_broker_report and get_dividends_foreign_issuer: asking for a report to
\* be generated is not repeated, fetching one is.
ReportRead(c) ==
  /\ job[c].via = "grpc" /\ job[c].op \in {"generate", "fetch"}
  /\ Attempt(c, IF job[c].op = "fetch" THEN ReadAttempts ELSE 1)

\* The end of the delay; in the REST loop the attempt is counted here too.
Wake(c) ==
  /\ call[c].pc = "sleep"
  /\ call' = [call EXCEPT ![c].pc = IF job[c].via = "rest" THEN "send" ELSE "start", ![c].attempt = @ + 1]
  /\ Offline /\ UNCHANGED evidence

\* Opening a stream: one attempt, and no deadline of its own.  The requests
\* of a market stream must fit its channel, or nothing is opened.
Opens(c, stream) ==
  /\ job[c].via = "grpc" /\ job[c].op = stream /\ call[c].pc = "start"
  /\ Leaves(c) \/ (Ends(c, "Error") /\ Offline /\ UNCHANGED evidence)

OpenMarketDataStream(c) == Opens(c, "market stream")
OpenOrdersStream(c) == Opens(c, "orders stream")
OpenOperationsStream(c) == Opens(c, "operations stream")

Streams == {"market stream", "orders stream", "operations stream"}

StreamOpened(c) ==
  /\ job[c].via = "grpc" /\ job[c].op \in Streams /\ call[c].pc = "await"
  /\ \E code \in Answers(c) \ {"DeadlineExceeded"} : Ends(c, IF code = "Ok" THEN "Ok" ELSE "Error")
  /\ Offline /\ UNCHANGED evidence

\* edit_favorites and the like: one attempt, like every mutation.
FavoritesMutation(c) ==
  /\ job[c].via = "grpc" /\ job[c].op \in Favorites
  /\ IF call[c].pc = "start" /\ ~MaySend(c)
     THEN Ends(c, "Error") /\ Offline /\ UNCHANGED evidence
     ELSE Attempt(c, 1)

-----------------------------------------------------------------------------
(* The REST client.                                                        *)

\* post() up to its loop: the path, the serialized request and its size.
Prepared(c) == Goes(c, "send") \/ Ends(c, "InvalidMethodPath") \/ Ends(c, "RequestInvalid")

\* post_read and post_mutation.
RestStart(c) ==
  /\ CallAt(c, "rest", "start")
  /\ CASE job[c].op = "read" /\ Methods[job[c].method] # "read" -> Ends(c, "MethodMismatch")
       [] job[c].op = "mutation" /\ ~PathMatches(job[c]) -> Ends(c, "EnvironmentMismatch")
       [] OTHER -> Prepared(c)
  /\ Offline /\ UNCHANGED evidence

\* The loop of post(): a delay the server asks for is kept, and one longer
\* than the policy's limit ends the call.
RestRetryOrEnd(c, kind) ==
  \/ /\ job[c].op = "read" /\ call[c].attempt < ReadAttempts /\ RetryableRest(kind)
     /\ \E asked \in (IF kind = "Http5xx" THEN {RetryAfter(h) : h \in Headers} ELSE {}) \cup {0} :
          IF asked > MaxDelay THEN Ends(c, kind) ELSE Sleeps(c, asked)
  \/ /\ job[c].op = "mutation" \/ call[c].attempt >= ReadAttempts \/ ~RetryableRest(kind)
     /\ Ends(c, kind)

RestSend(c) ==
  /\ CallAt(c, "rest", "send")
  /\ \/ Leaves(c)
     \/ /\ \E kind \in {"Connect", "Timeout", "RequestInvalid"} : RestRetryOrEnd(c, kind)
        /\ Offline /\ UNCHANGED evidence

RestAnswer(c) ==
  /\ CallAt(c, "rest", "await")
  /\ \E kind \in RestAnswers(c) : RestRetryOrEnd(c, kind)
  /\ Offline /\ UNCHANGED evidence

-----------------------------------------------------------------------------
\* A call is dropped at an await.
CallDropped(c) ==
  /\ call[c].pc \notin {"start", "done"}
  /\ Ends(c, "dropped")
  /\ Offline /\ UNCHANGED evidence

ClientStep(c) ==
  \/ DispatcherDecide(c) \/ ClaimDispatch(c) \/ RecordOutcome(c)
  \/ OpenSession(c) \/ AdapterDispatch(c) \/ ServiceMutation(c) \/ MutationAnswer(c)
  \/ SafeRead(c) \/ SafeMarketRead(c) \/ GetCandles(c) \/ ServiceRead(c) \/ ReportRead(c) \/ Wake(c)
  \/ OpenMarketDataStream(c) \/ OpenOrdersStream(c) \/ OpenOperationsStream(c) \/ StreamOpened(c)
  \/ FavoritesMutation(c)
  \/ RestStart(c) \/ RestSend(c) \/ RestAnswer(c)

CallsNext == BrokerDecides \/ ReconcileAccepted \/ \E c \in Calls : ClientStep(c) \/ CallDropped(c)

CallsSpec ==
  /\ CallsInit /\ [][CallsNext]_callVars
  /\ \A c \in Calls : WF_callVars(ClientStep(c))

-----------------------------------------------------------------------------
(* Properties.                                                             *)

InFlight(c) == fate[c] \in {"pending", "accepted"}

\* A verdict is never more certain than what happened: a mutation reported as
\* rejected, or a REST request reported as not dispatched, is not in force and
\* never will be; one reported as accepted is; and the dispatcher's record
\* agrees for all calls of the mutation, also when a readback or a second
\* process wrote it (authoritative_rejection, dispatch_certainty,
\* persist_authoritative_outcome).
VerdictIsSound ==
  /\ \A c \in Calls : job[c].via \in {"dispatcher", "port"} /\ call[c].pc = "done" =>
       /\ call[c].verdict = "Rejected" => ~InFlight(c)
       /\ call[c].verdict = "Accepted" => fate[c] = "accepted"
  /\ \A c \in Calls : job[c].via = "rest" /\ job[c].op = "mutation" /\ call[c].pc = "done" =>
       (Certainty(call[c].verdict) = "NotDispatched" => copies[c] = 0)
  /\ evidence = "Rejected" => \A c \in Calls : job[c].via = "dispatcher" => ~InFlight(c)

\* However many calls and processes try, one copy of a logical mutation goes
\* out (claim_dispatch before the single attempt of service_mutation).
OneTransmission ==
  /\ \A c \in Calls : job[c].via \in {"dispatcher", "port"} \/ job[c].op \in {"mutation"} \cup Favorites => copies[c] <= 1
  /\ \A c, d \in Calls : job[c].via = "dispatcher" /\ job[d].via = "dispatcher" /\ copies[c] = 1 /\ copies[d] = 1
       => c = d

\* A call is not repeated before the delay the provider asked for, and never
\* waits longer than the policy allows (post, delay_for).
RetryHonoursProvider ==
  [][\A c \in Calls : Wake(c) => call[c].delay >= call[c].asked /\ call[c].delay <= MaxDelay]_callVars

\* Every call under way, other than opening a stream, comes to an end: attempts are
\* counted and each of them has a deadline (unary_request, safe_read, post).
CallsEnd ==
  \A c \in Calls : job[c].op \notin Streams /\ call[c].pc \notin {"start", "done"} ~> call[c].pc = "done"
=============================================================================
