------------------------------- MODULE MCCapital -------------------------------
(* CapitalDispatch with two calls at a time and one epoch without shutdown, *)
(* or with one call at a time, shutdown, a restart and what the first epoch *)
(* left behind.                                                             *)
EXTENDS MCCapitalDispatch

VARIABLE machine

MCVars == <<capitalVars, machine>>

Busy == {w \in Workers : step[w] # "idle" \/ stage[w] # "idle"}

Small ==
  \/ machine = "concurrent" /\ epoch <= 1 /\ mode # "Stopping"
  \/ machine = "restart" /\ Cardinality(Busy) <= 1

MCInit == CapitalInit /\ machine \in {"concurrent", "restart"}
MCNext == UNCHANGED machine /\ CapitalNext /\ Small'
MCSpec == MCInit /\ [][MCNext]_MCVars

\* Over a crash or shutdown and a restart, every step of the admission path
\* is a step of RuntimeJournal or leaves its variables alone.
RestartImplementsJournal == Init /\ [][machine = "restart" => [Next]_vars]_MCVars
=============================================================================
