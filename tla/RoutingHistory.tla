--------------------------- MODULE RoutingHistory ---------------------------
(***************************************************************************)
(* RelayRouting with a history variable, which observes the routing and    *)
(* never influences it.                                                    *)
(***************************************************************************)
EXTENDS RelayRouting

VARIABLE
    quiet       \* ticks since a key's last plan from the head or last move

historyVars == <<sticky, orders, memberFailures, table, chains, failures, store, reqs,
                 quiet>>

HInit ==
    /\ Init
    /\ quiet = [k \in Keys |-> 0]

Spot(position) == IF position = None THEN None ELSE position.at

\* A plan that starts at the head although the chain could be backed off.
FromHead(r, k) == PlanChain(r, k) /\ PlanStart(k, store.chain[k]) = 1

ObservePlanning(k) ==
    \/ Spot(table'[k]) # Spot(table[k])
    \/ \E r \in Requests : FromHead(r, k)

Older(n) == IF n < Window THEN n + 1 ELSE n

ObserveQuiet ==
    quiet' = [k \in Keys |-> IF ObservePlanning(k) THEN 0
                             ELSE IF Tick THEN Older(quiet[k]) ELSE quiet[k]]

HNext ==
    /\ Next
    /\ ObserveQuiet

HSpec == HInit /\ [][HNext]_historyVars

LiveHSpec == HSpec /\ Fairness

-----------------------------------------------------------------------------
(* Properties.                                                              *)

\* "Every RETRY_UPSTREAM_MS the chain probes upstream again": a backed-off key
\* starts its next plan at the head exactly when a whole window passed since
\* it last moved or last planned from there, whatever answers came meanwhile.
ProbedOncePerWindow ==
    \A k \in Keys :
        IndexOnChain(k, store.chain[k]) > 1 =>
            (PlanStart(k, store.chain[k]) = 1 <=> quiet[k] = Window)
=============================================================================
