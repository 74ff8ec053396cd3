---------------------------- MODULE RelayRouting ----------------------------
(***************************************************************************)
(* Requests walking route chains and provider pools in one protocol        *)
(* frontend of the relay: planChainChatCompletions and                     *)
(* planPoolChatCompletions of src/src/relay/openai-handler.mjs, walked by  *)
(* the member loops of openai-server.mjs and stream-pipe.mjs.  (The        *)
(* Anthropic frontend, handler.mjs, runs the same code over its own        *)
(* tables.)                                                                *)
(*                                                                         *)
(* A plan is made in one step.  Every upstream call is an await: other     *)
(* requests plan, answer and fail between a request's plan and the verdict *)
(* of each of its calls, the user edits the store, and time passes.        *)
(***************************************************************************)
EXTENDS ChainState

CONSTANTS
    Requests,       \* requests that can be in flight together
    PoolRequests,   \* entries a client may address as a pool, by its id
    Stores          \* the store contents the panel may save

(***************************************************************************)
(* What routing reads of store.json.  chain[k] is the enabled chain of k,  *)
(* << >> when it has none.  pools are the entries whose node is a pool.    *)
(* calls[e] is the expansion of e: the pool members whose catalog has the  *)
(* bound model, the channel itself, or << >> for a node that was deleted.  *)
(***************************************************************************)
StoreShape == [chain : [Keys -> Seq(Entries)],
               calls : [Entries -> Seq(Upstreams)],
               pools : SUBSET Entries]

ASSUME StoresAssumption ==
    /\ Stores # {}
    /\ \A s \in Stores :
          /\ s \in StoreShape
          /\ \A k \in Keys : NoRepeat(s.chain[k])
          /\ \A e \in Entries : NoRepeat(s.calls[e])

ASSUME PoolRequestsAssumption == PoolRequests \subseteq Entries

VARIABLES
    store,          \* the store as last saved
    reqs            \* request -> None or its plan and progress

vars == <<sticky, orders, memberFailures, table, chains, failures, store, reqs>>

(***************************************************************************)
(* A request in flight.  key is None for a request addressed at a pool.    *)
(* calls holds the members of the planned entries only, in the order they  *)
(* will be tried; hop and try point at the call under way; failed is the   *)
(* per-request set failedNodes.                                            *)
(***************************************************************************)
Walks == [key : Keys \cup {None}, chain : Seq(Entries),
          calls : [Entries -> Seq(Upstreams)], pooled : SUBSET Entries,
          hop : Nat \ {0}, try : Nat \ {0}, failed : SUBSET Entries]

ASSUME NoneIsNoKey == None \notin Keys /\ None \notin Walks

Init ==
    /\ StickyInit
    /\ ChainInit
    /\ store \in Stores
    /\ reqs = [r \in Requests |-> None]

-----------------------------------------------------------------------------
(* Where a walk stands and where it goes next.                              *)

Walking(r) == reqs[r] # None
EntryOf(r) == reqs[r].chain[reqs[r].hop]
CallOf(r)  == reqs[r].calls[EntryOf(r)][reqs[r].try]
ByChain(r) == reqs[r].key # None

\* Entries without a call contribute nothing to the flat list of members.
HopsFrom(chain, calls, n) == {m \in n..Len(chain) : calls[chain[m]] # <<>>}

Least(S) == CHOOSE n \in S : \A m \in S : n <= m

MembersLeft(r) == reqs[r].try < Len(reqs[r].calls[EntryOf(r)])

HopsLeft(r) == HopsFrom(reqs[r].chain, reqs[r].calls, reqs[r].hop + 1)

GoTo(w, hop, try, failed) == [w EXCEPT !.hop = hop, !.try = try, !.failed = failed]

\* The request as it stands after its current call failed: at the next
\* member, at the first member of the next hop, or over.
Advanced(r, failed) ==
    IF MembersLeft(r) THEN GoTo(reqs[r], reqs[r].hop, reqs[r].try + 1, failed)
    ELSE IF HopsLeft(r) # {} THEN GoTo(reqs[r], Least(HopsLeft(r)), 1, failed)
    ELSE None

\* A new walk over chain, whose planned entries expand to calls; a plan
\* without a single call is answered 404 and leaves no walk.
NewWalk(key, chain, calls, pooled) ==
    LET hops == HopsFrom(chain, calls, 1)
    IN  IF hops = {} THEN None
        ELSE [key |-> key, chain |-> chain, calls |-> calls, pooled |-> pooled,
              hop |-> Least(hops), try |-> 1, failed |-> {}]

\* order() of every pool in pooled, run one after another by the plan.
OrderPools(pooled) ==
    /\ sticky' = [e \in Entries |-> IF e \in pooled
                                    THEN StickyKept(e, store.calls[e]) ELSE sticky[e]]
    /\ orders' = [e \in Entries |-> IF e \in pooled THEN store.calls[e] ELSE orders[e]]
    /\ UNCHANGED memberFailures

Expansion(e, pooled) ==
    IF e \in pooled THEN StickyOrder(e, store.calls[e]) ELSE store.calls[e]

-----------------------------------------------------------------------------
(* Actions.                                                                 *)

\* The panel saves another store; plans already made are not touched.
EditStore ==
    /\ store' \in Stores
    /\ UNCHANGED <<sticky, orders, memberFailures, table, chains, failures, reqs>>

Tick ==
    /\ table' = [k \in Keys |-> Aged(table[k])]
    /\ UNCHANGED <<sticky, orders, memberFailures, chains, failures, store, reqs>>

\* A request for "auto" or a virtual model: planChainChatCompletions.
PlanChain(r, k) ==
    LET chain   == store.chain[k]
        planned == {chain[n] : n \in PlanStart(k, chain)..Len(chain)}
        pooled  == planned \cap store.pools
        calls   == [e \in Entries |-> IF e \in planned THEN Expansion(e, pooled) ELSE <<>>]
    IN  /\ ~Walking(r)
        /\ chain # <<>>
        /\ NotePlan(k, chain)
        /\ OrderPools(pooled)
        /\ reqs' = [reqs EXCEPT ![r] = NewWalk(k, chain, calls, pooled)]
        /\ UNCHANGED store

\* A request addressed at a pool: planPoolChatCompletions.  Without a
\* candidate it is answered 404 before the sticky table is consulted.
PlanPool(r, e) ==
    LET calls == [d \in Entries |-> IF d = e THEN Expansion(e, {e}) ELSE <<>>]
    IN  /\ ~Walking(r)
        /\ e \in store.pools
        /\ store.calls[e] # <<>>
        /\ OrderPools({e})
        /\ reqs' = [reqs EXCEPT ![r] = NewWalk(None, <<e>>, calls, {e})]
        /\ UNCHANGED <<table, chains, failures, store>>

\* The call under way answered: noteSuccess, and the request is done.
Answer(r) ==
    /\ Walking(r)
    /\ IF ByChain(r) THEN NoteSuccess(reqs[r].key, EntryOf(r))
                     ELSE UNCHANGED chainVars
    /\ IF EntryOf(r) \in reqs[r].pooled
       THEN NoteMemberSuccess(EntryOf(r), CallOf(r)) ELSE UNCHANGED stickyVars
    /\ reqs' = [reqs EXCEPT ![r] = None]
    /\ UNCHANGED store

\* Variant: every failed member of a pool blames the pool again.
FaultBlamesAgain(r) ==
    /\ Walking(r)
    /\ IF ByChain(r) THEN NoteFailure(EntryOf(r)) ELSE UNCHANGED chainVars
    /\ IF EntryOf(r) \in reqs[r].pooled
       THEN NoteMemberFailure(CallOf(r)) ELSE UNCHANGED stickyVars
    /\ reqs' = [reqs EXCEPT ![r] = Advanced(r, reqs[r].failed \cup {EntryOf(r)})]
    /\ UNCHANGED store

\* The call under way failed for good with a failover-class fault:
\* noteFailure, once per request for the node, and on to the next member.
Fault(r) ==
    /\ Walking(r)
    /\ IF ByChain(r) /\ EntryOf(r) \notin reqs[r].failed
       THEN NoteFailure(EntryOf(r)) ELSE UNCHANGED chainVars
    /\ IF EntryOf(r) \in reqs[r].pooled
       THEN NoteMemberFailure(CallOf(r)) ELSE UNCHANGED stickyVars
    /\ reqs' = [reqs EXCEPT ![r] = Advanced(r, reqs[r].failed \cup {EntryOf(r)})]
    /\ UNCHANGED store

\* The request ends without a verdict on the member: the client went away,
\* a committed stream was cut, a pool member rejected the request's shape.
Leave(r) ==
    /\ Walking(r)
    /\ reqs' = [reqs EXCEPT ![r] = None]
    /\ UNCHANGED <<sticky, orders, memberFailures, table, chains, failures, store>>

\* The relay restarts: the tables are process memory.
Restart ==
    /\ sticky' = [e \in Entries |-> None]
    /\ orders' = [e \in Entries |-> None]
    /\ memberFailures' = [u \in Upstreams |-> 0]
    /\ table' = [k \in Keys |-> None]
    /\ chains' = [k \in Keys |-> None]
    /\ failures' = [e \in Entries |-> 0]
    /\ reqs' = [r \in Requests |-> None]
    /\ UNCHANGED store

Next ==
    \/ EditStore
    \/ Tick
    \/ \E r \in Requests :
          \/ \E k \in Keys : PlanChain(r, k)
          \/ \E e \in PoolRequests : PlanPool(r, e)
          \/ Answer(r)
          \/ Fault(r)
          \/ Leave(r)
    \/ Restart

Spec == Init /\ [][Next]_vars

\* Upstream calls end (a call has a deadline, a stream is closed by one side),
\* time passes, and clients keep asking for every key that has a chain.
Fairness ==
    /\ WF_vars(Tick)
    /\ \A r \in Requests : WF_vars(Answer(r) \/ Fault(r) \/ Leave(r))
    /\ \A k \in Keys : WF_vars(\E r \in Requests : PlanChain(r, k))

LiveSpec == Spec /\ Fairness

-----------------------------------------------------------------------------
(* Properties.                                                              *)

\* Every variable has its type, and a walk in flight points at a call that
\* it really has.
TypeOK ==
    /\ StickyTypeOK
    /\ ChainTypeOK
    /\ store \in Stores
    /\ reqs \in [Requests -> Walks \cup {None}]
    /\ \A r \in Requests : Walking(r) =>
          /\ reqs[r].hop <= Len(reqs[r].chain)
          /\ reqs[r].try <= Len(reqs[r].calls[EntryOf(r)])

\* Where the next step leaves a key on a chain; 0 when nowhere.
IndexAfter(k, chain) ==
    IF table'[k] = None THEN 0 ELSE IndexIn(chain, table'[k].at)

\* "since is null while the chain sits at home": a key that stands on the
\* head of its chain carries no backoff anchor, and one that stands further
\* down carries one.
AnchoredIffBackedOff ==
    \A k \in Keys :
        LET chain == chains[k]
        IN  (chain # None /\ IndexOnChain(k, chain) > 0) =>
               (table[k].since = None <=> IndexOnChain(k, chain) = 1)

\* A backed-off chain comes home by itself: if from some point on the head
\* answers every request that reaches it (a pool: one of its members does),
\* clients wait for that answer, and the position is not moved to and fro
\* between the nodes behind the head, the key stands at its head again and
\* again, whatever calls those nodes fail.
OnHead(r, k) == Walking(r) /\ reqs[r].key = k /\ EntryOf(r) = store.chain[k][1]

HeadServes(k) ==
    \/ EditStore \/ Tick \/ Restart
    \/ \E r \in Requests :
          \/ \E j \in Keys : PlanChain(r, j)
          \/ \E e \in PoolRequests : PlanPool(r, e)
          \/ Answer(r)
          \/ Fault(r) /\ (OnHead(r, k) => MembersLeft(r))
          \/ Leave(r) /\ ~OnHead(r, k)

StaysOrComesHome(k) ==
    LET chain == store.chain[k]
    IN  IndexAfter(k, chain) \in {0, 1, IndexOnChain(k, chain)}

ComesHome ==
    \A k \in Keys :
        <>[][HeadServes(k) /\ StaysOrComesHome(k)]_vars
            => []<>(IndexOnChain(k, store.chain[k]) <= 1)

\* "Upstream is probed within one RETRY_UPSTREAM_MS of the demotion however
\* busy the tail is": again and again the next plan of a key starts at the
\* head of its chain.
ProbesTheHead == \A k \in Keys : []<>(PlanStart(k, store.chain[k]) = 1)
=============================================================================
