---------------------------- MODULE StickyTable ----------------------------
(***************************************************************************)
(* The sticky table of provider pools: createStickyTable of                *)
(* src/src/channels/pool-routing.mjs.  One table lives in each protocol    *)
(* frontend of a relay process and is lost when the process restarts.      *)
(*                                                                         *)
(* An Entry is a (node, model) pair.  When the node is a pool, the pair is *)
(* the key "pool\0model" of the table and of the recorded orders.  An      *)
(* Upstream is a (member, model) pair, the key of the failure counters,    *)
(* which are shared by every pool that lists the member.                   *)
(*                                                                         *)
(* The code's counters only ever meet the test ">= DemoteAfter" and a      *)
(* reset, so they saturate here at DemoteAfter.                            *)
(***************************************************************************)
EXTENDS Naturals, Sequences, FiniteSets

CONSTANTS
    Entries,        \* (node, model) pairs that chains and requests name
    Upstreams,      \* (provider, model) pairs a call can be sent to
    DemoteAfter,    \* POOL_ and CHAIN_DEMOTE_AFTER_FAILURES, both 2
    None            \* undefined / null

ASSUME DemoteAssumption == DemoteAfter \in Nat \ {0}

ASSUME NoneAssumption == /\ None \notin Entries
                         /\ None \notin Upstreams
                         /\ None \notin Seq(Upstreams)

VARIABLES
    sticky,         \* Map pool\0model -> last member that answered
    orders,         \* Map pool\0model -> candidates of the last order()
    memberFailures  \* Map member\0model -> consecutive failed requests

stickyVars == <<sticky, orders, memberFailures>>

StickyTypeOK ==
    /\ sticky \in [Entries -> Upstreams \cup {None}]
    /\ orders \in [Entries -> Seq(Upstreams) \cup {None}]
    /\ memberFailures \in [Upstreams -> 0..DemoteAfter]

StickyInit ==
    /\ sticky = [e \in Entries |-> None]
    /\ orders = [e \in Entries |-> None]
    /\ memberFailures = [u \in Upstreams |-> 0]

-----------------------------------------------------------------------------
(* Helpers on duplicate-free sequences.                                     *)

Elems(s) == {s[n] : n \in DOMAIN s}

NoRepeat(s) == \A m, n \in DOMAIN s : s[m] = s[n] => m = n

\* findIndex, counted from 1; 0 stands for the code's -1.
IndexIn(s, x) ==
    IF x \in Elems(s) THEN CHOOSE n \in DOMAIN s : s[n] = x ELSE 0

FromTheFirst(n) == IF n = 0 THEN 1 ELSE n    \* Math.max(currentIndex, 0)

\* One more failure on a counter that only has to tell "latched" from "not".
OneMore(n) == IF n < DemoteAfter THEN n + 1 ELSE n

\* [candidates[n], ...candidates.slice(0, n), ...candidates.slice(n + 1)]
MoveToFront(s, n) ==
    [p \in 1..Len(s) |-> IF p = 1 THEN s[n] ELSE IF p <= n THEN s[p - 1] ELSE s[p]]

-----------------------------------------------------------------------------
(* order(poolId, modelId, candidates)                                       *)

\* The same members in another sequence: the user rearranged the pool.
Reordered(e, candidates) ==
    /\ orders[e] # None
    /\ Len(orders[e]) = Len(candidates)
    /\ Elems(candidates) \subseteq Elems(orders[e])
    /\ orders[e] # candidates

\* What is left of the sticky point when order() returns.
StickyKept(e, candidates) ==
    IF Reordered(e, candidates) \/ sticky[e] \notin Elems(candidates)
    THEN None ELSE sticky[e]

StickyOrder(e, candidates) ==
    LET front == StickyKept(e, candidates)
    IN  IF front = None THEN candidates
        ELSE MoveToFront(candidates, IndexIn(candidates, front))

-----------------------------------------------------------------------------
(* noteSuccess(poolId, modelId, memberId)                                   *)

MemberLatched(u) == memberFailures[u] >= DemoteAfter

StickyAfterSuccess(e, u) ==
    LET order   == orders[e]
        new     == IndexIn(order, u)
        current == IF sticky[e] = None THEN 0 ELSE IndexIn(order, sticky[e])
        skipped == FromTheFirst(current)..(new - 1)
    IN  IF order = None THEN u
        ELSE IF new = 0 THEN u
        ELSE IF new = 1 \/ new < current THEN u
        ELSE IF \A n \in skipped : MemberLatched(order[n]) THEN u
        ELSE sticky[e]

\* Variant: an answer does not end the row of failures.
NoteMemberSuccessOnly(e, u) ==
    /\ sticky' = [sticky EXCEPT ![e] = StickyAfterSuccess(e, u)]
    /\ UNCHANGED <<orders, memberFailures>>

NoteMemberSuccess(e, u) ==
    /\ sticky' = [sticky EXCEPT ![e] = StickyAfterSuccess(e, u)]
    /\ memberFailures' = [memberFailures EXCEPT ![u] = 0]
    /\ UNCHANGED orders

\* noteFailure(poolId, modelId, memberId)
NoteMemberFailure(u) ==
    /\ memberFailures' = [memberFailures EXCEPT ![u] = OneMore(@)]
    /\ UNCHANGED <<sticky, orders>>
=============================================================================
