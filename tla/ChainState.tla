----------------------------- MODULE ChainState -----------------------------
(***************************************************************************)
(* The chain state table: createChainState of                              *)
(* src/src/channels/chain-routing.mjs.                                     *)
(*                                                                         *)
(* A routing key is an endpoint id (virtual model "auto") or the name of a *)
(* virtual model.  The table remembers, per key, the chain entry the key   *)
(* backed off to and how long ago the backoff was anchored.  Time is       *)
(* measured as the age of each anchor and stops at Window: the code only   *)
(* ever asks whether now - since has reached RETRY_UPSTREAM_MS.  A null    *)
(* since counts as expired (now - null is the epoch time).                 *)
(***************************************************************************)
EXTENDS StickyTable

CONSTANTS
    Keys,           \* routing keys: endpoint ids and virtual model names
    Window          \* RETRY_UPSTREAM_MS, in ticks

ASSUME WindowAssumption == /\ Window \in Nat \ {0}
                           /\ None \notin 0..Window
                           /\ None \notin Seq(Entries)

VARIABLES
    table,          \* Map key -> [at, since]; since is an age or None (null)
    chains,         \* Map key -> the chain of the last plan()
    failures        \* Map node\nmodel -> consecutive failed requests

chainVars == <<table, chains, failures>>

Positions == [at : Entries, since : 0..Window \cup {None}]

ASSUME NoneIsNoPosition == None \notin Positions

ChainTypeOK ==
    /\ table \in [Keys -> Positions \cup {None}]
    /\ chains \in [Keys -> Seq(Entries) \cup {None}]
    /\ failures \in [Entries -> 0..DemoteAfter]

ChainInit ==
    /\ table = [k \in Keys |-> None]
    /\ chains = [k \in Keys |-> None]
    /\ failures = [e \in Entries |-> 0]

At(e, since) == [at |-> e, since |-> since]

Latched(e) == failures[e] >= DemoteAfter

Expired(position) == position.since \in {None, Window}

\* The clock: every anchored position grows older, up to Window.
Aged(position) ==
    IF position = None THEN None
    ELSE IF Expired(position) THEN position
    ELSE [position EXCEPT !.since = @ + 1]

\* Where a key stands on a chain, counted from 1; 0 when it has no position.
IndexOnChain(k, chain) ==
    IF table[k] = None THEN 0 ELSE IndexIn(chain, table[k].at)

-----------------------------------------------------------------------------
(* plan(store, key, chain, now): the first hop of the attempt plan.  The    *)
(* rest of the plan is the tail of the chain behind it.                     *)

Probes(k, chain) == IndexOnChain(k, chain) > 1 /\ Expired(table[k])

PlanStart(k, chain) ==
    LET index == IndexOnChain(k, chain)
    IN  IF index <= 1 \/ Probes(k, chain) THEN 1 ELSE index

\* Variant: the probe does not start a fresh window.
NotePlanUnanchored(k, chain) ==
    /\ chains' = [chains EXCEPT ![k] = chain]
    /\ table' = [table EXCEPT ![k] = IF IndexOnChain(k, chain) = 0 THEN None ELSE @]
    /\ UNCHANGED failures

\* An entry that left the chain is dropped; an expired one is re-anchored.
NotePlan(k, chain) ==
    /\ chains' = [chains EXCEPT ![k] = chain]
    /\ table' = [table EXCEPT ![k] =
                    IF IndexOnChain(k, chain) = 0 THEN None
                    ELSE IF Probes(k, chain) THEN [@ EXCEPT !.since = 0]
                    ELSE @]
    /\ UNCHANGED failures

-----------------------------------------------------------------------------
(* noteSuccess(key, node, model, now)                                       *)

\* A success behind the position: allowed past latched entries only.
MayDemote(k, new) ==
    \A n \in FromTheFirst(IndexOnChain(k, chains[k]))..(new - 1) :
        Latched(chains[k][n])

\* Variants: the head is anchored too; every success restarts the window.
AnchoredAtHome(k, e) ==
    IF IndexIn(chains[k], e) <= IndexOnChain(k, chains[k])
          \/ MayDemote(k, IndexIn(chains[k], e))
    THEN At(e, 0) ELSE table[k]

RefreshedBySuccess(k, e) ==
    IF IndexIn(chains[k], e) = 1 THEN At(e, None)
    ELSE IF IndexIn(chains[k], e) <= IndexOnChain(k, chains[k])
              \/ MayDemote(k, IndexIn(chains[k], e))
    THEN At(e, 0) ELSE table[k]

PositionAfterSuccess(k, e) ==
    LET chain   == chains[k]
        new     == IndexIn(chain, e)
        current == IndexOnChain(k, chain)
    IN  IF chain = None THEN At(e, 0)
        ELSE IF new = 0 THEN At(e, 0)
        ELSE IF new = current THEN table[k]
        ELSE IF new = 1 THEN At(e, None)
        ELSE IF new < current \/ MayDemote(k, new) THEN At(e, 0)
        ELSE table[k]

NoteSuccess(k, e) ==
    /\ table' = [table EXCEPT ![k] = PositionAfterSuccess(k, e)]
    /\ failures' = [failures EXCEPT ![e] = 0]
    /\ UNCHANGED chains

\* noteFailure(key, node, model)
NoteFailure(e) ==
    /\ failures' = [failures EXCEPT ![e] = OneMore(@)]
    /\ UNCHANGED <<table, chains>>
=============================================================================
