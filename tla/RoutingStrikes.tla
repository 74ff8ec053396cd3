--------------------------- MODULE RoutingStrikes ---------------------------
(***************************************************************************)
(* RelayRouting with history variables that count the verdicts on calls.   *)
(* They observe the routing, never influence it, and read none of the      *)
(* counters the code keeps.                                                *)
(***************************************************************************)
EXTENDS RelayRouting

VARIABLES
    blamed,         \* the entries at which a request in flight had a fault
    strikes,        \* requests in a row that had a fault at an entry of a chain
    memberStrikes   \* calls in a row that a member of pools failed

rowVars == <<blamed, strikes, memberStrikes>>
strikeVars == <<sticky, orders, memberFailures, table, chains, failures, store, reqs,
                blamed, strikes, memberStrikes>>

SInit ==
    /\ Init
    /\ blamed = [r \in Requests |-> {}]
    /\ strikes = [e \in Entries |-> 0]
    /\ memberStrikes = [u \in Upstreams |-> 0]

AsMember(r) == EntryOf(r) \in reqs[r].pooled

\* An answer ends the rows of the entry and of the member it came from.
ObserveAnswer(r) ==
    /\ blamed' = [blamed EXCEPT ![r] = {}]
    /\ strikes' = IF ByChain(r) THEN [strikes EXCEPT ![EntryOf(r)] = 0] ELSE strikes
    /\ memberStrikes' = IF AsMember(r) THEN [memberStrikes EXCEPT ![CallOf(r)] = 0]
                        ELSE memberStrikes

\* A request that fails over inside a pool has one fault at the pool, however
\* many members it goes through.
ObserveFault(r) ==
    /\ blamed' = [blamed EXCEPT ![r] = IF reqs'[r] = None THEN {}
                                       ELSE @ \cup {EntryOf(r)}]
    /\ strikes' = IF ByChain(r) /\ EntryOf(r) \notin blamed[r]
                  THEN [strikes EXCEPT ![EntryOf(r)] = OneMore(@)] ELSE strikes
    /\ memberStrikes' = IF AsMember(r)
                        THEN [memberStrikes EXCEPT ![CallOf(r)] = OneMore(@)]
                        ELSE memberStrikes

ObserveLeave(r) ==
    /\ blamed' = [blamed EXCEPT ![r] = {}]
    /\ UNCHANGED <<strikes, memberStrikes>>

ObserveRestart ==
    /\ blamed' = [r \in Requests |-> {}]
    /\ strikes' = [e \in Entries |-> 0]
    /\ memberStrikes' = [u \in Upstreams |-> 0]

SNext ==
    \/ EditStore /\ UNCHANGED rowVars
    \/ Tick /\ UNCHANGED rowVars
    \/ \E r \in Requests :
          \/ \E k \in Keys : PlanChain(r, k) /\ UNCHANGED rowVars
          \/ \E e \in PoolRequests : PlanPool(r, e) /\ UNCHANGED rowVars
          \/ Answer(r) /\ ObserveAnswer(r)
          \/ Fault(r) /\ ObserveFault(r)
          \/ Leave(r) /\ ObserveLeave(r)
    \/ Restart /\ ObserveRestart

SSpec == SInit /\ [][SNext]_strikeVars

-----------------------------------------------------------------------------
(* Properties.                                                              *)

\* "A single transient fault fails that one request over but leaves the
\* chain at home": the position of a key moves down the chain that was
\* planned last only past entries at which DemoteAfter different requests in
\* a row had a fault, whichever requests overlap, through however many
\* members of a pool each of them went, and whatever the store was edited to.
NeverDemotedByABlip ==
    [][\A k \in Keys :
         (chains[k] # None /\ chains'[k] = chains[k]) =>
            \A n \in FromTheFirst(IndexOnChain(k, chains[k]))
                        ..(IndexAfter(k, chains[k]) - 1) :
                strikes[chains[k][n]] >= DemoteAfter]_strikeVars

\* The same rule inside a pool, whose members other pools list too: the sticky
\* point moves down the last candidate order only past members that failed
\* DemoteAfter calls in a row, whichever requests made those calls.
StickyNeverMovedByABlip ==
    [][\A e \in Entries :
         (orders[e] # None /\ orders'[e] = orders[e] /\ sticky'[e] # None) =>
            \A n \in FromTheFirst(IF sticky[e] = None THEN 0
                                  ELSE IndexIn(orders[e], sticky[e]))
                        ..(IndexIn(orders[e], sticky'[e]) - 1) :
                memberStrikes[orders[e][n]] >= DemoteAfter]_strikeVars
=============================================================================
