-------------------------- MODULE MCRuntimeJournal --------------------------
(***************************************************************************)
(* RuntimeJournal, MutationEvidence and Paging on small instances.  The    *)
(* machine is the journal with three requests and two calls, or the        *)
(* evidence for a pair of requests of one call (a post and what is done to *)
(* it, or what is done to somebody else's order), or a history that is     *)
(* read in pieces.                                                         *)
(***************************************************************************)
EXTENDS MutationEvidence, Paging, TLC

CONSTANT Caller  \* the one call of the evidence machines

VARIABLE machine

MCVars == <<evidenceVars, pagingVars, machine>>

Symmetry == Permutations(Ids)

Job(kind, target, named) == [kind |-> kind, target |-> target, named |-> named]

\* A request that is not made.
NoJob == Job("None", Foreign, "broker")

MCJobs ==
  {NoJob}
  \cup {Job(k, Foreign, "broker") : k \in Posts \cup StopPosts}
  \cup {Job(k, t, "broker") : k \in {"ReplaceOrder", "CancelOrder", "CancelStopOrder"}, t \in Names}
  \cup {Job("CancelOrder", t, "request") : t \in Ids}

\* A post, what follows it, on whose order, and by which id it is named.
Pairs ==
  {<<"PostOrder", "CancelOrder", "own", "broker">>, <<"PostOrder", "CancelOrder", "own", "request">>,
   <<"PostOrder", "ReplaceOrder", "own", "broker">>, <<"None", "CancelOrder", "foreign", "broker">>,
   <<"PostStopOrder", "CancelStopOrder", "own", "broker">>, <<"ProtectionLeg", "None", "own", "broker">>,
   <<"PostOrderAsync", "None", "own", "broker">>,
   <<"None", "CancelStopOrder", "foreign", "broker">>}

Journal == <<"journal", "none", "none", "none">>
History == <<"history", "none", "none", "none">>

\* A history of no machine is not read.
Unread ==
  /\ reader = [kind |-> "report", pages |-> 1, counts |-> "last", foreign |-> FALSE, oneYear |-> TRUE]
  /\ cursor = 0 /\ followed = {} /\ items = <<>> /\ reads = 0 /\ result = "asking"

IsPair(m) ==
  \E i, j \in Ids :
    /\ i # j
    /\ job[i] = Job(m[1], Foreign, "broker")
    /\ job[j] = IF m[2] = "None" THEN NoJob ELSE Job(m[2], IF m[3] = "own" THEN i ELSE Foreign, m[4])
    /\ \A k \in Ids \ {i, j} : job[k] = NoJob
    /\ \A w \in Workers : req[w] = i

MCInit ==
  /\ EvidenceInit
  /\ \/ machine = Journal /\ (\A id \in Ids : job[id] = NoJob) /\ Unread
     \/ machine \in Pairs /\ IsPair(machine) /\ Unread
     \/ machine = History /\ (\A id \in Ids : job[id] = NoJob) /\ PagingInit

\* Bounds of the evidence machines: one call at a time; somebody else's order
\* where the one request is about it; the statuses between new and ended and
\* a restart, after which there is only reconciliation, where the one request
\* is a post.
Small ==
  /\ \A w \in Workers : stage[w] # "idle" => w = Caller /\ job[req[w]] # NoJob /\ epoch = 1
  /\ orders[Foreign] # "Absent" => machine[1] = "None" /\ machine[2] = "CancelOrder"
  /\ stops[Foreign] # "Absent" => machine[1] = "None" /\ machine[2] = "CancelStopOrder"
  /\ epoch = 2 \/ (\E o \in Names : orders[o] \in {"Unspecified", "PartiallyFilled"}) => machine[2] = "None"

MCNext ==
  /\ UNCHANGED machine
  /\ \/ machine = Journal /\ Next /\ UNCHANGED <<job, market, links, readings, disposition, report, pagingVars>>
     \/ machine \in Pairs /\ EvidenceNext /\ Small' /\ UNCHANGED pagingVars
     \/ machine = History /\ PagingNext /\ UNCHANGED evidenceVars

MCSpec == MCInit /\ [][MCNext]_MCVars
=============================================================================
