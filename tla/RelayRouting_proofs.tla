------------------------ MODULE RelayRouting_proofs ------------------------
(***************************************************************************)
(* Proofs about RelayRouting, for every store, chain, pool and number of   *)
(* requests; and, in the last section, about the probe window, with the    *)
(* history of RoutingHistory.                                              *)
(***************************************************************************)
EXTENDS RoutingHistory, RoutingStrikes, WellFoundedInduction, TLAPS

-----------------------------------------------------------------------------
(* The helpers on sequences.                                                *)

\* findIndex returns a position of the element, or the sentinel.
LEMMA IndexInType ==
    ASSUME NEW T, NEW s \in Seq(T), NEW x
    PROVE  /\ IndexIn(s, x) \in 0..Len(s)
           /\ IndexIn(s, x) # 0 => s[IndexIn(s, x)] = x
           /\ x \in Elems(s) => IndexIn(s, x) # 0
  <1>1. CASE x \in Elems(s)
    <2>1. \E n \in DOMAIN s : s[n] = x
      BY <1>1 DEF Elems
    <2>2. IndexIn(s, x) = CHOOSE n \in DOMAIN s : s[n] = x
      BY <1>1 DEF IndexIn
    <2>3. IndexIn(s, x) \in DOMAIN s /\ s[IndexIn(s, x)] = x
      BY <2>1, <2>2
    <2>. QED BY <2>3
  <1>2. CASE x \notin Elems(s)
    BY <1>2 DEF IndexIn
  <1>. QED BY <1>1, <1>2

\* Moving a member to the front gives a sequence of the same members.
LEMMA MoveToFrontType ==
    ASSUME NEW T, NEW s \in Seq(T), NEW n \in 1..Len(s)
    PROVE  /\ MoveToFront(s, n) \in Seq(T)
           /\ Len(MoveToFront(s, n)) = Len(s)
  <1>1. \A p \in 1..Len(s) :
           (IF p = 1 THEN s[n] ELSE IF p <= n THEN s[p - 1] ELSE s[p]) \in T
    OBVIOUS
  <1>. QED BY <1>1 DEF MoveToFront

\* A nonempty set of naturals has the least element the walk goes to.
LEMMA LeastIsLeast ==
    ASSUME NEW S \in SUBSET Nat, S # {}
    PROVE  Least(S) \in S /\ \A m \in S : Least(S) <= m
  <1>1. \E n \in S : \A m \in S : ~ (<<m, n>> \in OpToRel(<, Nat))
    BY NatLessThanWellFounded, WFMin
  <1>2. \E n \in S : \A m \in S : ~ (m < n)
    BY <1>1, Zenon DEF OpToRel
  <1>3. \E n \in S : \A m \in S : n <= m
    BY <1>2
  <1>. QED BY <1>3 DEF Least

-----------------------------------------------------------------------------
(* Types of the operations.                                                 *)

\* order() returns candidates, as many as it was given.
LEMMA StickyOrderType ==
    ASSUME StickyTypeOK, NEW e \in Entries, NEW c \in Seq(Upstreams)
    PROVE  /\ StickyOrder(e, c) \in Seq(Upstreams)
           /\ Len(StickyOrder(e, c)) = Len(c)
           /\ StickyKept(e, c) \in Upstreams \cup {None}
  <1>1. StickyKept(e, c) \in Upstreams \cup {None}
    BY DEF StickyKept, StickyTypeOK
  <1>2. CASE StickyKept(e, c) = None
    BY <1>1, <1>2 DEF StickyOrder
  <1>3. CASE StickyKept(e, c) # None
    <2>1. StickyKept(e, c) \in Elems(c)
      BY <1>3 DEF StickyKept
    <2>2. IndexIn(c, StickyKept(e, c)) \in 1..Len(c)
      BY <2>1, IndexInType
    <2>. QED BY <1>1, <1>3, <2>2, MoveToFrontType DEF StickyOrder
  <1>. QED BY <1>2, <1>3

\* A walk points at an entry of its chain and at one of the entry's calls.
LEMMA WalkTypes ==
    ASSUME TypeOK, NEW r \in Requests, Walking(r)
    PROVE  /\ reqs[r] \in Walks
           /\ reqs[r].hop \in 1..Len(reqs[r].chain)
           /\ EntryOf(r) \in Entries
           /\ reqs[r].try \in 1..Len(reqs[r].calls[EntryOf(r)])
           /\ CallOf(r) \in Upstreams
           /\ ByChain(r) => reqs[r].key \in Keys
  <1>1. reqs[r] \in Walks
    BY DEF TypeOK, Walking
  <1>2. reqs[r].hop \in 1..Len(reqs[r].chain) /\ reqs[r].chain \in Seq(Entries)
    BY <1>1 DEF TypeOK, Walks
  <1>3. EntryOf(r) \in Entries
    BY <1>2 DEF EntryOf
  <1>4. /\ reqs[r].calls[EntryOf(r)] \in Seq(Upstreams)
        /\ reqs[r].try \in 1..Len(reqs[r].calls[EntryOf(r)])
    BY <1>1, <1>3 DEF TypeOK, Walks
  <1>5. CallOf(r) \in Upstreams
    BY <1>4 DEF CallOf
  <1>6. ByChain(r) => reqs[r].key \in Keys
    BY <1>1 DEF ByChain, Walks
  <1>. QED BY <1>1, <1>2, <1>3, <1>4, <1>5, <1>6

\* What TypeOK says of one request.
WellFormed(w) ==
    \/ w = None
    \/ /\ w \in Walks
       /\ w.hop <= Len(w.chain)
       /\ w.try <= Len(w.calls[w.chain[w.hop]])

LEMMA TypeOKPerRequest ==
    TypeOK <=> /\ StickyTypeOK /\ ChainTypeOK /\ store \in Stores
               /\ reqs \in [Requests -> Walks \cup {None}]
               /\ \A r \in Requests : WellFormed(reqs[r])
  BY NoneIsNoKey DEF TypeOK, WellFormed, Walking, EntryOf

LEMMA HopsInChain ==
    ASSUME NEW chain \in Seq(Entries), NEW calls \in [Entries -> Seq(Upstreams)],
           NEW n \in Nat \ {0}, HopsFrom(chain, calls, n) # {}
    PROVE  LET hop == Least(HopsFrom(chain, calls, n))
           IN  /\ hop \in n..Len(chain)
               /\ 1 <= Len(calls[chain[hop]])
  <1>. DEFINE hops == HopsFrom(chain, calls, n)
  <1>1. hops \in SUBSET Nat
    BY DEF HopsFrom
  <1>2. Least(hops) \in hops
    BY <1>1, LeastIsLeast
  <1>3. /\ Least(hops) \in n..Len(chain)
        /\ calls[chain[Least(hops)]] # <<>>
    BY <1>2 DEF HopsFrom
  <1>4. calls[chain[Least(hops)]] \in Seq(Upstreams)
    BY <1>3
  <1>. QED BY <1>3, <1>4

\* A plan makes a well-formed walk, or none.
LEMMA NewWalkType ==
    ASSUME NEW key \in Keys \cup {None}, NEW chain \in Seq(Entries),
           NEW calls \in [Entries -> Seq(Upstreams)], NEW pooled \in SUBSET Entries
    PROVE  WellFormed(NewWalk(key, chain, calls, pooled))
  <1>1. CASE HopsFrom(chain, calls, 1) = {}
    BY <1>1 DEF NewWalk, WellFormed
  <1>2. CASE HopsFrom(chain, calls, 1) # {}
    <2>. DEFINE hop == Least(HopsFrom(chain, calls, 1))
    <2>1. hop \in 1..Len(chain) /\ 1 <= Len(calls[chain[hop]])
      BY <1>2, HopsInChain
    <2>. HIDE DEF hop
    <2>2. NewWalk(key, chain, calls, pooled) =
             [key |-> key, chain |-> chain, calls |-> calls, pooled |-> pooled,
              hop |-> hop, try |-> 1, failed |-> {}]
      BY <1>2 DEF NewWalk, hop
    <2>. QED BY <2>1, <2>2 DEF WellFormed, Walks
  <1>. QED BY <1>1, <1>2

\* Replacing the progress fields of a walk gives a walk.
LEMMA SteppedWalk ==
    ASSUME NEW w \in Walks, NEW hop \in Nat \ {0}, NEW try \in Nat \ {0},
           NEW failed \in SUBSET Entries
    PROVE  LET v == GoTo(w, hop, try, failed)
           IN  /\ v \in Walks
               /\ v.chain = w.chain /\ v.calls = w.calls
               /\ v.hop = hop /\ v.try = try
  BY DEF GoTo, Walks

\* Going on after a fault keeps the walk well-formed, or ends it.
LEMMA AdvancedType ==
    ASSUME TypeOK, NEW r \in Requests, Walking(r), NEW failed \in SUBSET Entries
    PROVE  WellFormed(Advanced(r, failed))
  <1>0. PICK w \in Walks : w = reqs[r]
    BY WalkTypes
  <1>1. /\ w.hop \in 1..Len(w.chain)
        /\ w.try \in 1..Len(w.calls[w.chain[w.hop]])
        /\ w.chain \in Seq(Entries)
        /\ w.calls \in [Entries -> Seq(Upstreams)]
        /\ w.hop \in Nat \ {0} /\ w.try \in Nat \ {0}
    BY <1>0, WalkTypes DEF EntryOf, Walks
  <1>2. CASE MembersLeft(r)
    <2>. DEFINE v == GoTo(w, w.hop, w.try + 1, failed)
    <2>1. /\ v \in Walks /\ v.chain = w.chain /\ v.calls = w.calls
          /\ v.hop = w.hop /\ v.try = w.try + 1
      BY <1>1, SteppedWalk
    <2>2. Advanced(r, failed) = v
      BY <1>0, <1>2 DEF Advanced
    <2>3. w.try + 1 <= Len(w.calls[w.chain[w.hop]])
      <3>1. w.calls[w.chain[w.hop]] \in Seq(Upstreams)
        BY <1>1
      <3>2. w.try < Len(w.calls[w.chain[w.hop]])
        BY <1>0, <1>2 DEF MembersLeft, EntryOf
      <3>. QED BY <1>1, <3>1, <3>2
    <2>. HIDE DEF v
    <2>. QED BY <1>1, <2>1, <2>2, <2>3 DEF WellFormed
  <1>3. CASE ~MembersLeft(r) /\ HopsLeft(r) # {}
    <2>. DEFINE hop == Least(HopsLeft(r))
                v   == GoTo(w, hop, 1, failed)
    <2>1. HopsLeft(r) = HopsFrom(w.chain, w.calls, w.hop + 1)
      BY <1>0 DEF HopsLeft
    <2>2. w.hop + 1 \in Nat \ {0}
      BY <1>1
    <2>3. hop \in (w.hop + 1)..Len(w.chain) /\ 1 <= Len(w.calls[w.chain[hop]])
      BY <1>1, <1>3, <2>1, <2>2, HopsInChain
    <2>4. hop \in Nat \ {0} /\ hop <= Len(w.chain)
      BY <1>1, <2>3
    <2>. HIDE DEF hop
    <2>5. /\ v \in Walks /\ v.chain = w.chain /\ v.calls = w.calls
          /\ v.hop = hop /\ v.try = 1
      BY <2>4, SteppedWalk
    <2>6. Advanced(r, failed) = v
      BY <1>0, <1>3 DEF Advanced, hop
    <2>. HIDE DEF v
    <2>. QED BY <2>3, <2>4, <2>5, <2>6 DEF WellFormed
  <1>4. CASE ~MembersLeft(r) /\ HopsLeft(r) = {}
    BY <1>4 DEF Advanced, WellFormed
  <1>. QED BY <1>2, <1>3, <1>4

\* What a plan reads of the store.
LEMMA StoreTypes ==
    ASSUME TypeOK
    PROVE  /\ store.calls \in [Entries -> Seq(Upstreams)]
           /\ store.pools \in SUBSET Entries
           /\ \A k \in Keys : store.chain[k] \in Seq(Entries)
  BY StoresAssumption DEF TypeOK, StoreShape

\* Replacing one request keeps all of them well-formed.
LEMMA ReqsType ==
    ASSUME TypeOK, NEW r \in Requests, NEW w, WellFormed(w),
           reqs' = [reqs EXCEPT ![r] = w]
    PROVE  /\ reqs' \in [Requests -> Walks \cup {None}]
           /\ \A q \in Requests : WellFormed(reqs'[q])
  <1>1. /\ reqs \in [Requests -> Walks \cup {None}]
        /\ \A q \in Requests : WellFormed(reqs[q])
    BY TypeOKPerRequest
  <1>2. w \in Walks \cup {None}
    BY DEF WellFormed
  <1>. QED BY <1>1, <1>2

\* TypeOK of the next state, from its parts.
LEMMA TypeOKNext ==
    ASSUME StickyTypeOK', ChainTypeOK', store' \in Stores,
           reqs' \in [Requests -> Walks \cup {None}],
           \A r \in Requests : WellFormed(reqs'[r])
    PROVE  TypeOK'
  BY NoneIsNoKey DEF TypeOK, WellFormed, Walking, EntryOf

\* order() of the planned pools.
LEMMA OrderPoolsType ==
    ASSUME TypeOK, NEW pooled \in SUBSET Entries, OrderPools(pooled)
    PROVE  StickyTypeOK'
  <1>1. /\ store.calls \in [Entries -> Seq(Upstreams)]
        /\ StickyTypeOK
    BY StoreTypes DEF TypeOK
  <1>2. \A e \in Entries : StickyKept(e, store.calls[e]) \in Upstreams \cup {None}
    BY <1>1, StickyOrderType
  <1>. QED BY <1>1, <1>2 DEF OrderPools, StickyTypeOK

LEMMA ExpansionType ==
    ASSUME TypeOK, NEW e \in Entries, NEW pooled
    PROVE  Expansion(e, pooled) \in Seq(Upstreams)
  <1>1. store.calls[e] \in Seq(Upstreams) /\ StickyTypeOK
    BY StoreTypes DEF TypeOK
  <1>. QED BY <1>1, StickyOrderType DEF Expansion

\* plan() of the chain table.
LEMMA NotePlanType ==
    ASSUME TypeOK, NEW k \in Keys, NEW chain \in Seq(Entries), NotePlan(k, chain)
    PROVE  ChainTypeOK'
  <1>1. ChainTypeOK
    BY DEF TypeOK
  <1>2. Probes(k, chain) => table[k] \in Positions
    BY <1>1 DEF Probes, IndexOnChain, ChainTypeOK
  <1>3. Probes(k, chain) => [table[k] EXCEPT !.since = 0] \in Positions
    BY <1>2, WindowAssumption DEF Positions
  <1>4. table' \in [Keys -> Positions \cup {None}]
    <2>1. (IF IndexOnChain(k, chain) = 0 THEN None
           ELSE IF Probes(k, chain) THEN [table[k] EXCEPT !.since = 0]
           ELSE table[k]) \in Positions \cup {None}
      BY <1>1, <1>3 DEF ChainTypeOK
    <2>. QED BY <1>1, <2>1 DEF NotePlan, ChainTypeOK
  <1>5. chains' \in [Keys -> Seq(Entries) \cup {None}]
    BY <1>1 DEF NotePlan, ChainTypeOK
  <1>. QED BY <1>1, <1>4, <1>5 DEF NotePlan, ChainTypeOK

LEMMA OneMoreType ==
    ASSUME NEW n \in 0..DemoteAfter
    PROVE  OneMore(n) \in 0..DemoteAfter
  BY DemoteAssumption DEF OneMore

\* noteSuccess and noteFailure of both tables.
LEMMA NotesType ==
    ASSUME TypeOK, NEW e \in Entries
    PROVE  /\ \A k \in Keys : NoteSuccess(k, e) => ChainTypeOK'
           /\ NoteFailure(e) => ChainTypeOK'
           /\ \A u \in Upstreams : NoteMemberSuccess(e, u) => StickyTypeOK'
           /\ \A u \in Upstreams : NoteMemberFailure(u) => StickyTypeOK'
  <1>1. ChainTypeOK /\ StickyTypeOK
    BY DEF TypeOK
  <1>2. ASSUME NEW k \in Keys, NoteSuccess(k, e)
        PROVE  ChainTypeOK'
    <2>1. At(e, 0) \in Positions /\ At(e, None) \in Positions
      BY WindowAssumption DEF At, Positions
    <2>2. PositionAfterSuccess(k, e) \in Positions \cup {None}
      BY <1>1, <2>1 DEF PositionAfterSuccess, ChainTypeOK
    <2>3. 0 \in 0..DemoteAfter
      BY DemoteAssumption
    <2>. QED BY <1>1, <1>2, <2>2, <2>3 DEF NoteSuccess, ChainTypeOK
  <1>3. ASSUME NoteFailure(e)
        PROVE  ChainTypeOK'
    BY <1>1, <1>3, OneMoreType DEF NoteFailure, ChainTypeOK
  <1>4. ASSUME NEW u \in Upstreams, NoteMemberSuccess(e, u)
        PROVE  StickyTypeOK'
    <2>1. StickyAfterSuccess(e, u) \in Upstreams \cup {None}
      BY <1>1 DEF StickyAfterSuccess, StickyTypeOK
    <2>2. 0 \in 0..DemoteAfter
      BY DemoteAssumption
    <2>. QED BY <1>1, <1>4, <2>1, <2>2 DEF NoteMemberSuccess, StickyTypeOK
  <1>5. ASSUME NEW u \in Upstreams, NoteMemberFailure(u)
        PROVE  StickyTypeOK'
    BY <1>1, <1>5, OneMoreType DEF NoteMemberFailure, StickyTypeOK
  <1>. QED BY <1>2, <1>3, <1>4, <1>5

-----------------------------------------------------------------------------
(* Type correctness.                                                        *)

LEMMA TypeOKInit == Init => TypeOK
  <1>. SUFFICES ASSUME Init PROVE TypeOK
    OBVIOUS
  <1>1. StickyTypeOK
    BY DemoteAssumption DEF Init, StickyInit, StickyTypeOK
  <1>2. ChainTypeOK
    BY DemoteAssumption DEF Init, ChainInit, ChainTypeOK
  <1>3. /\ reqs \in [Requests -> Walks \cup {None}]
        /\ \A r \in Requests : WellFormed(reqs[r])
    BY DEF Init, WellFormed
  <1>. QED BY <1>1, <1>2, <1>3, TypeOKPerRequest DEF Init

\* The clock keeps positions positions, and where they are.
LEMMA AgedType ==
    ASSUME NEW position \in Positions \cup {None}
    PROVE  /\ Aged(position) \in Positions \cup {None}
           /\ position # None => Aged(position) # None /\ Aged(position).at = position.at
  <1>1. CASE position = None \/ Expired(position)
    BY <1>1 DEF Aged
  <1>2. CASE position # None /\ ~Expired(position)
    <2>1. position \in Positions /\ position.since \in 0..(Window - 1)
      BY <1>2, WindowAssumption DEF Expired, Positions
    <2>2. /\ [position EXCEPT !.since = position.since + 1] \in Positions
          /\ [position EXCEPT !.since = position.since + 1].at = position.at
      BY <2>1, WindowAssumption DEF Positions
    <2>. QED BY <1>2, <2>2, NoneIsNoPosition DEF Aged
  <1>. QED BY <1>1, <1>2

LEMMA TypeOKStep == TypeOK /\ [Next]_vars => TypeOK'
  <1>. SUFFICES ASSUME TypeOK, [Next]_vars PROVE TypeOK'
    OBVIOUS
  <1>0. /\ StickyTypeOK /\ ChainTypeOK /\ store \in Stores
        /\ reqs \in [Requests -> Walks \cup {None}]
        /\ \A r \in Requests : WellFormed(reqs[r])
    BY TypeOKPerRequest
  <1>1. CASE EditStore
    BY <1>0, <1>1, TypeOKNext DEF EditStore, StickyTypeOK, ChainTypeOK
  <1>2. CASE Tick
    <2>1. table' \in [Keys -> Positions \cup {None}]
      BY <1>0, <1>2, AgedType DEF Tick, ChainTypeOK
    <2>2. ChainTypeOK' /\ StickyTypeOK'
      BY <1>0, <1>2, <2>1 DEF Tick, StickyTypeOK, ChainTypeOK
    <2>. QED BY <1>0, <1>2, <2>2, TypeOKNext DEF Tick
  <1>3. ASSUME NEW r \in Requests, NEW k \in Keys, PlanChain(r, k)
        PROVE  TypeOK'
    <2>. DEFINE chain   == store.chain[k]
                planned == {chain[n] : n \in PlanStart(k, chain)..Len(chain)}
                pooled  == planned \cap store.pools
                calls   == [e \in Entries |->
                               IF e \in planned THEN Expansion(e, pooled) ELSE <<>>]
    <2>1. chain \in Seq(Entries) /\ pooled \in SUBSET Entries
      BY StoreTypes
    <2>2. calls \in [Entries -> Seq(Upstreams)]
      BY ExpansionType
    <2>3. /\ NotePlan(k, chain) /\ OrderPools(pooled)
          /\ reqs' = [reqs EXCEPT ![r] = NewWalk(k, chain, calls, pooled)]
          /\ store' = store
      BY <1>3 DEF PlanChain
    <2>. HIDE DEF chain, calls, pooled
    <2>4. ChainTypeOK' /\ StickyTypeOK'
      BY <2>1, <2>3, NotePlanType, OrderPoolsType
    <2>5. WellFormed(NewWalk(k, chain, calls, pooled))
      BY <2>1, <2>2, NewWalkType
    <2>. QED BY <1>0, <2>3, <2>4, <2>5, ReqsType, TypeOKNext
  <1>4. ASSUME NEW r \in Requests, NEW e \in PoolRequests, PlanPool(r, e)
        PROVE  TypeOK'
    <2>. DEFINE calls == [d \in Entries |-> IF d = e THEN Expansion(e, {e}) ELSE <<>>]
    <2>1. e \in Entries
      BY PoolRequestsAssumption
    <2>2. calls \in [Entries -> Seq(Upstreams)]
      BY <2>1, ExpansionType
    <2>3. /\ OrderPools({e}) /\ UNCHANGED <<table, chains, failures, store>>
          /\ reqs' = [reqs EXCEPT ![r] = NewWalk(None, <<e>>, calls, {e})]
      BY <1>4 DEF PlanPool
    <2>. HIDE DEF calls
    <2>4. StickyTypeOK' /\ ChainTypeOK'
      BY <1>0, <2>1, <2>3, OrderPoolsType DEF ChainTypeOK
    <2>5. <<e>> \in Seq(Entries) /\ {e} \in SUBSET Entries
      BY <2>1
    <2>6. WellFormed(NewWalk(None, <<e>>, calls, {e}))
      BY <2>2, <2>5, NewWalkType
    <2>. QED BY <1>0, <2>3, <2>4, <2>6, ReqsType, TypeOKNext
  <1>5. ASSUME NEW r \in Requests, Answer(r)
        PROVE  TypeOK'
    <2>1. /\ EntryOf(r) \in Entries /\ CallOf(r) \in Upstreams
          /\ ByChain(r) => reqs[r].key \in Keys
      BY <1>5, WalkTypes DEF Answer
    <2>2. ChainTypeOK'
      BY <1>0, <1>5, <2>1, NotesType DEF Answer, chainVars, ChainTypeOK
    <2>3. StickyTypeOK'
      BY <1>0, <1>5, <2>1, NotesType DEF Answer, stickyVars, StickyTypeOK
    <2>4. WellFormed(None)
      BY DEF WellFormed
    <2>. QED BY <1>0, <1>5, <2>2, <2>3, <2>4, ReqsType, TypeOKNext DEF Answer
  <1>6. ASSUME NEW r \in Requests, Fault(r)
        PROVE  TypeOK'
    <2>1. /\ EntryOf(r) \in Entries /\ CallOf(r) \in Upstreams
          /\ reqs[r].failed \cup {EntryOf(r)} \in SUBSET Entries
      BY <1>6, WalkTypes DEF Fault, Walks
    <2>2. ChainTypeOK'
      BY <1>0, <1>6, <2>1, NotesType DEF Fault, chainVars, ChainTypeOK
    <2>3. StickyTypeOK'
      BY <1>0, <1>6, <2>1, NotesType DEF Fault, stickyVars, StickyTypeOK
    <2>4. WellFormed(Advanced(r, reqs[r].failed \cup {EntryOf(r)}))
      BY <1>6, <2>1, AdvancedType DEF Fault
    <2>. QED BY <1>0, <1>6, <2>2, <2>3, <2>4, ReqsType, TypeOKNext DEF Fault
  <1>7. ASSUME NEW r \in Requests, Leave(r)
        PROVE  TypeOK'
    <2>1. WellFormed(None)
      BY DEF WellFormed
    <2>2. ChainTypeOK' /\ StickyTypeOK'
      BY <1>0, <1>7 DEF Leave, ChainTypeOK, StickyTypeOK
    <2>. QED BY <1>0, <1>7, <2>1, <2>2, ReqsType, TypeOKNext DEF Leave
  <1>8. CASE Restart
    <2>1. ChainTypeOK' /\ StickyTypeOK'
      BY <1>8, DemoteAssumption DEF Restart, ChainTypeOK, StickyTypeOK
    <2>2. /\ reqs' \in [Requests -> Walks \cup {None}]
          /\ \A r \in Requests : WellFormed(reqs'[r])
      BY <1>8 DEF Restart, WellFormed
    <2>. QED BY <1>0, <1>8, <2>1, <2>2, TypeOKNext DEF Restart
  <1>9. CASE UNCHANGED vars
    BY <1>0, <1>9, TypeOKNext DEF vars, StickyTypeOK, ChainTypeOK
  <1>. QED BY <1>1, <1>2, <1>3, <1>4, <1>5, <1>6, <1>7, <1>8, <1>9 DEF Next

\* Every reachable state is well-typed, and no walk ever points past the end
\* of its chain or of its members, whatever the store is edited to under it.
THEOREM TypeCorrect == Spec => []TypeOK
  BY TypeOKInit, TypeOKStep, PTL DEF Spec

-----------------------------------------------------------------------------
(* A single fault never demotes.                                            *)

\* There is nothing between a place and one that is not behind it.
LEMMA NothingSkipped ==
    ASSUME NEW current \in Nat, NEW new \in Nat, new <= current
    PROVE  FromTheFirst(current)..(new - 1) = {}
  BY DEF FromTheFirst

\* noteSuccess moves a key down its chain past latched entries only.
LEMMA SuccessDemotesPastLatched ==
    ASSUME ChainTypeOK, NEW k \in Keys, NEW e \in Entries, NoteSuccess(k, e),
           chains[k] # None
    PROVE  \A n \in FromTheFirst(IndexOnChain(k, chains[k]))
                       ..(IndexAfter(k, chains[k]) - 1) : Latched(chains[k][n])
  <1>. DEFINE chain   == chains[k]
              new     == IndexIn(chain, e)
              current == IndexOnChain(k, chain)
  <1>1. chain \in Seq(Entries)
    BY DEF ChainTypeOK
  <1>2. new \in Nat /\ current \in Nat
    BY <1>1, IndexInType DEF IndexOnChain
  <1>3. table'[k] = PositionAfterSuccess(k, e)
    BY DEF NoteSuccess, ChainTypeOK
  <1>4. IndexAfter(k, chain) \in {new, current}
    <2>1. table'[k] \in {At(e, 0), At(e, None), table[k]}
      BY <1>3 DEF PositionAfterSuccess
    <2>2. CASE table'[k] = table[k]
      BY <2>2 DEF IndexAfter, IndexOnChain
    <2>3. CASE table'[k] \in {At(e, 0), At(e, None)}
      <3>1. At(e, 0) \in Positions /\ At(e, None) \in Positions
        BY WindowAssumption DEF At, Positions
      <3>2. table'[k] # None /\ table'[k].at = e
        BY <2>3, <3>1, NoneIsNoPosition DEF At
      <3>. QED BY <3>2 DEF IndexAfter
    <2>. QED BY <2>1, <2>2, <2>3
  <1>5. CASE IndexAfter(k, chain) <= current
    BY <1>2, <1>4, <1>5, NothingSkipped
  <1>6. CASE ~(IndexAfter(k, chain) <= current)
    <2>1. IndexAfter(k, chain) = new /\ new > current
      BY <1>2, <1>4, <1>6
    <2>2. new # 0 /\ new # current /\ ~(new < current)
      BY <1>2, <2>1
    <2>3. table'[k] # table[k]
      BY <2>1, <2>2 DEF IndexAfter, IndexOnChain
    <2>4. CASE new = 1
      <3>1. current = 0
        BY <1>2, <2>1, <2>4
      <3>2. FromTheFirst(current)..(new - 1) = {}
        BY <2>4, <3>1 DEF FromTheFirst
      <3>. QED BY <2>1, <3>2
    <2>5. CASE new # 1
      <3>1. MayDemote(k, new)
        BY <1>3, <2>2, <2>3, <2>5 DEF PositionAfterSuccess
      <3>. QED BY <2>1, <3>1 DEF MayDemote
    <2>. QED BY <2>4, <2>5
  <1>. QED BY <1>5, <1>6

\* A step that leaves every position where it is, or drops it, demotes none.
LEMMA KeptOrDropped ==
    ASSUME ChainTypeOK, NEW k \in Keys, chains[k] # None,
           \/ table'[k] = None
           \/ table[k] # None /\ table'[k] # None /\ table'[k].at = table[k].at
           \/ table'[k] = table[k]
    PROVE  \A n \in FromTheFirst(IndexOnChain(k, chains[k]))
                       ..(IndexAfter(k, chains[k]) - 1) : Latched(chains[k][n])
  <1>1. chains[k] \in Seq(Entries)
    BY DEF ChainTypeOK
  <1>2. IndexOnChain(k, chains[k]) \in Nat
    BY <1>1, IndexInType DEF IndexOnChain
  <1>3. IndexAfter(k, chains[k]) \in {0, IndexOnChain(k, chains[k])}
    BY DEF IndexAfter, IndexOnChain
  <1>4. IndexAfter(k, chains[k]) \in Nat
        /\ IndexAfter(k, chains[k]) <= IndexOnChain(k, chains[k])
    BY <1>2, <1>3
  <1>. QED BY <1>2, <1>4, NothingSkipped

LEMMA NoBlipStep ==
    ASSUME TypeOK, [Next]_vars, NEW k \in Keys, chains[k] # None,
           chains'[k] = chains[k]
    PROVE  \A n \in FromTheFirst(IndexOnChain(k, chains[k]))
                       ..(IndexAfter(k, chains[k]) - 1) : Latched(chains[k][n])
  <1>0. ChainTypeOK
    BY DEF TypeOK
  <1>1. CASE table'[k] = table[k]
    BY <1>0, <1>1, KeptOrDropped
  <1>2. CASE EditStore
    BY <1>1, <1>2 DEF EditStore
  <1>3. CASE Tick
    <2>1. table'[k] = Aged(table[k]) /\ table[k] \in Positions \cup {None}
      BY <1>0, <1>3 DEF Tick, ChainTypeOK
    <2>2. CASE Aged(table[k]) = table[k]
      BY <1>1, <2>1, <2>2
    <2>3. CASE Aged(table[k]) # table[k]
      <3>1. table[k] # None
        BY <2>3 DEF Aged
      <3>2. table'[k] # None /\ table[k] # None /\ table'[k].at = table[k].at
        BY <2>1, <3>1, AgedType
      <3>. QED BY <1>0, <3>2, KeptOrDropped
    <2>. QED BY <2>2, <2>3
  <1>4. ASSUME NEW r \in Requests, NEW q \in Keys, PlanChain(r, q)
        PROVE  \A n \in FromTheFirst(IndexOnChain(k, chains[k]))
                           ..(IndexAfter(k, chains[k]) - 1) : Latched(chains[k][n])
    <2>1. NotePlan(q, store.chain[q])
      BY <1>4 DEF PlanChain
    <2>2. CASE Probes(q, store.chain[q]) /\ q = k /\ table'[k] # None
      <3>1. table[k] \in Positions
        BY <1>0, <2>2 DEF Probes, IndexOnChain, ChainTypeOK
      <3>2. table'[k] = [table[k] EXCEPT !.since = 0]
        BY <1>0, <2>1, <2>2 DEF NotePlan, ChainTypeOK
      <3>3. table[k] # None /\ table'[k].at = table[k].at
        BY <3>1, <3>2, NoneIsNoPosition DEF Positions
      <3>. QED BY <1>0, <2>2, <3>3, KeptOrDropped
    <2>3. CASE ~(Probes(q, store.chain[q]) /\ q = k /\ table'[k] # None)
      <3>1. table'[k] = None \/ table'[k] = table[k]
        BY <1>0, <2>1, <2>3 DEF NotePlan, ChainTypeOK
      <3>. QED BY <1>0, <3>1, KeptOrDropped
    <2>. QED BY <2>2, <2>3
  <1>5. ASSUME NEW r \in Requests, NEW e \in PoolRequests, PlanPool(r, e)
        PROVE  table'[k] = table[k]
    BY <1>5 DEF PlanPool
  <1>6. ASSUME NEW r \in Requests, Answer(r)
        PROVE  \A n \in FromTheFirst(IndexOnChain(k, chains[k]))
                           ..(IndexAfter(k, chains[k]) - 1) : Latched(chains[k][n])
    <2>1. EntryOf(r) \in Entries /\ (ByChain(r) => reqs[r].key \in Keys)
      BY <1>6, WalkTypes DEF Answer
    <2>2. CASE ByChain(r) /\ reqs[r].key = k
      <3>1. NoteSuccess(k, EntryOf(r))
        BY <1>6, <2>2 DEF Answer
      <3>. QED BY <1>0, <2>1, <3>1, SuccessDemotesPastLatched
    <2>3. CASE ~(ByChain(r) /\ reqs[r].key = k)
      <3>1. table'[k] = table[k]
        BY <1>0, <1>6, <2>1, <2>3 DEF Answer, NoteSuccess, chainVars, ChainTypeOK
      <3>. QED BY <1>1, <3>1
    <2>. QED BY <2>2, <2>3
  <1>7. ASSUME NEW r \in Requests, Fault(r)
        PROVE  table'[k] = table[k]
    BY <1>7 DEF Fault, NoteFailure, chainVars
  <1>8. ASSUME NEW r \in Requests, Leave(r)
        PROVE  table'[k] = table[k]
    BY <1>8 DEF Leave
  <1>9. ~Restart
    BY DEF Restart
  <1>10. CASE UNCHANGED vars
    BY <1>1, <1>10 DEF vars
  <1>. QED BY <1>1, <1>2, <1>3, <1>4, <1>5, <1>6, <1>7, <1>8, <1>9, <1>10 DEF Next

\* noteSuccess moves a sticky point down its pool past latched members only.
LEMMA AnswerDemotesPastLatched ==
    ASSUME StickyTypeOK, NEW e \in Entries, NEW u \in Upstreams,
           NoteMemberSuccess(e, u), orders[e] # None
    PROVE  \A n \in FromTheFirst(IF sticky[e] = None THEN 0
                                 ELSE IndexIn(orders[e], sticky[e]))
                       ..(IndexIn(orders[e], sticky'[e]) - 1) :
               MemberLatched(orders[e][n])
  <1>. DEFINE order   == orders[e]
              new     == IndexIn(order, u)
              current == IF sticky[e] = None THEN 0 ELSE IndexIn(order, sticky[e])
  <1>1. order \in Seq(Upstreams)
    BY DEF StickyTypeOK
  <1>2. new \in Nat /\ current \in Nat
    BY <1>1, IndexInType
  <1>3. sticky'[e] = StickyAfterSuccess(e, u)
    BY DEF NoteMemberSuccess, StickyTypeOK
  <1>4. sticky'[e] \in {u, sticky[e]}
    BY <1>3 DEF StickyAfterSuccess
  <1>5. None \notin Elems(order)
    BY <1>1, NoneAssumption DEF Elems
  <1>6. CASE sticky'[e] = sticky[e]
    <2>1. IndexIn(order, sticky'[e]) = current
      BY <1>5, <1>6 DEF IndexIn
    <2>. QED BY <1>2, <2>1, NothingSkipped
  <1>7. CASE sticky'[e] = u /\ u # sticky[e]
    <2>1. CASE new <= 1 \/ new < current
      <3>1. FromTheFirst(current)..(new - 1) = {}
        BY <1>2, <2>1 DEF FromTheFirst
      <3>. QED BY <1>7, <3>1
    <2>2. CASE ~(new <= 1 \/ new < current)
      <3>1. new # 0 /\ new # 1 /\ ~(new < current)
        BY <1>2, <2>2
      <3>2. \A n \in FromTheFirst(current)..(new - 1) : MemberLatched(order[n])
        BY <1>3, <1>7, <3>1 DEF StickyAfterSuccess
      <3>. QED BY <1>7, <3>2
    <2>. QED BY <2>1, <2>2
  <1>. QED BY <1>4, <1>6, <1>7

\* A step that leaves the sticky point where it is demotes nobody.
LEMMA StickyKeptDemotesNone ==
    ASSUME StickyTypeOK, NEW e \in Entries, orders[e] # None,
           sticky'[e] = sticky[e]
    PROVE  \A n \in FromTheFirst(IF sticky[e] = None THEN 0
                                 ELSE IndexIn(orders[e], sticky[e]))
                       ..(IndexIn(orders[e], sticky'[e]) - 1) :
               MemberLatched(orders[e][n])
  <1>1. orders[e] \in Seq(Upstreams)
    BY DEF StickyTypeOK
  <1>2. None \notin Elems(orders[e])
    BY <1>1, NoneAssumption DEF Elems
  <1>3. IndexIn(orders[e], sticky[e])
           = IF sticky[e] = None THEN 0 ELSE IndexIn(orders[e], sticky[e])
    BY <1>2 DEF IndexIn
  <1>4. IndexIn(orders[e], sticky[e]) \in Nat
    BY <1>1, IndexInType
  <1>. QED BY <1>3, <1>4, NothingSkipped

LEMMA StickyStep ==
    ASSUME TypeOK, [Next]_vars, NEW e \in Entries, orders[e] # None,
           orders'[e] = orders[e], sticky'[e] # None
    PROVE  \A n \in FromTheFirst(IF sticky[e] = None THEN 0
                                 ELSE IndexIn(orders[e], sticky[e]))
                       ..(IndexIn(orders[e], sticky'[e]) - 1) :
               MemberLatched(orders[e][n])
  <1>0. StickyTypeOK
    BY DEF TypeOK
  <1>1. CASE sticky'[e] = sticky[e]
    BY <1>0, <1>1, StickyKeptDemotesNone
  <1>2. ASSUME NEW pooled, OrderPools(pooled)
        PROVE  sticky'[e] = sticky[e]
    BY <1>2 DEF OrderPools, StickyKept
  <1>3. CASE sticky'[e] # sticky[e]
    <2>1. PICK r \in Requests : Answer(r)
      BY <1>2, <1>3 DEF Next, vars, EditStore, Tick, PlanChain, PlanPool, Fault,
         NoteMemberFailure, stickyVars, Leave, Restart
    <2>2. EntryOf(r) \in Entries /\ CallOf(r) \in Upstreams
      BY <2>1, WalkTypes DEF Answer
    <2>3. NoteMemberSuccess(EntryOf(r), CallOf(r)) /\ EntryOf(r) = e
      BY <1>0, <1>3, <2>1 DEF Answer, stickyVars, NoteMemberSuccess, StickyTypeOK
    <2>. QED BY <1>0, <2>2, <2>3, AnswerDemotesPastLatched
  <1>. QED BY <1>1, <1>3

\* What makes "latched" mean what its name says: the counters of the code are
\* the rows of failed requests and calls, and failedNodes is the blame.
BlameOf(w) == IF w = None THEN {} ELSE w.failed

CountersAreRows ==
    /\ blamed = [r \in Requests |-> BlameOf(reqs[r])]
    /\ strikes = failures
    /\ memberStrikes = memberFailures

RowsInv == TypeOK /\ CountersAreRows

LEMMA RowsInvInit == SInit => RowsInv
  <1>. SUFFICES ASSUME SInit PROVE RowsInv
    OBVIOUS
  <1>1. TypeOK
    BY TypeOKInit DEF SInit
  <1>2. CountersAreRows
    BY DEF SInit, Init, ChainInit, StickyInit, CountersAreRows, BlameOf
  <1>. QED BY <1>1, <1>2 DEF RowsInv

\* Replacing one request replaces its blame.
LEMMA BlameStep ==
    ASSUME TypeOK, CountersAreRows, NEW r \in Requests, NEW w,
           reqs' = [reqs EXCEPT ![r] = w],
           blamed' = [blamed EXCEPT ![r] = BlameOf(w)]
    PROVE  blamed' = [q \in Requests |-> BlameOf(reqs'[q])]
  BY DEF TypeOK, CountersAreRows

LEMMA NewWalkBlame ==
    ASSUME NEW key, NEW chain, NEW calls, NEW pooled
    PROVE  BlameOf(NewWalk(key, chain, calls, pooled)) = {}
  BY DEF NewWalk, BlameOf

LEMMA AdvancedBlame ==
    ASSUME TypeOK, NEW r \in Requests, Walking(r), NEW failed \in SUBSET Entries,
           Advanced(r, failed) # None
    PROVE  Advanced(r, failed).failed = failed
  <1>1. PICK w \in Walks : w = reqs[r]
    BY WalkTypes
  <1>2. PICK hop, try : Advanced(r, failed) = GoTo(w, hop, try, failed)
    BY <1>1 DEF Advanced
  <1>. QED BY <1>2 DEF GoTo, Walks

LEMMA CountersAreRowsStep ==
    ASSUME RowsInv, SNext
    PROVE  CountersAreRows'
  <1>0. TypeOK /\ CountersAreRows
    BY DEF RowsInv
  <1>1. ASSUME NEW r \in Requests, NEW w, reqs' = [reqs EXCEPT ![r] = w],
               ~Walking(r), BlameOf(w) = {}, UNCHANGED rowVars,
               UNCHANGED <<memberFailures, failures>>
        PROVE  CountersAreRows'
    <2>1. blamed' = [blamed EXCEPT ![r] = BlameOf(w)]
      BY <1>0, <1>1 DEF rowVars, CountersAreRows, BlameOf, Walking
    <2>2. blamed' = [q \in Requests |-> BlameOf(reqs'[q])]
      BY <1>0, <1>1, <2>1, BlameStep
    <2>. QED BY <1>0, <1>1, <2>2 DEF rowVars, CountersAreRows
  <1>2. CASE (EditStore \/ Tick) /\ UNCHANGED rowVars
    BY <1>0, <1>2 DEF EditStore, Tick, rowVars, CountersAreRows
  <1>3. ASSUME NEW r \in Requests, NEW k \in Keys, PlanChain(r, k), UNCHANGED rowVars
        PROVE  CountersAreRows'
    <2>1. PICK key, chain, calls, pooled :
             reqs' = [reqs EXCEPT ![r] = NewWalk(key, chain, calls, pooled)]
      BY <1>3 DEF PlanChain
    <2>. QED BY <1>1, <1>3, <2>1, NewWalkBlame DEF PlanChain, NotePlan, OrderPools
  <1>4. ASSUME NEW r \in Requests, NEW e \in PoolRequests, PlanPool(r, e),
               UNCHANGED rowVars
        PROVE  CountersAreRows'
    <2>1. PICK key, chain, calls, pooled :
             reqs' = [reqs EXCEPT ![r] = NewWalk(key, chain, calls, pooled)]
      BY <1>4 DEF PlanPool
    <2>2. ~Walking(r) /\ UNCHANGED rowVars /\ UNCHANGED <<memberFailures, failures>>
      BY <1>4 DEF PlanPool, OrderPools
    <2>. QED BY <1>1, <2>1, <2>2, NewWalkBlame
  <1>5. ASSUME NEW r \in Requests, Answer(r), ObserveAnswer(r)
        PROVE  CountersAreRows'
    <2>1. blamed' = [q \in Requests |-> BlameOf(reqs'[q])]
      BY <1>0, <1>5, BlameStep DEF Answer, ObserveAnswer, BlameOf
    <2>2. strikes' = failures'
      BY <1>0, <1>5 DEF Answer, ObserveAnswer, NoteSuccess, chainVars, CountersAreRows
    <2>3. memberStrikes' = memberFailures'
      BY <1>0, <1>5 DEF Answer, ObserveAnswer, AsMember, NoteMemberSuccess, stickyVars,
         CountersAreRows
    <2>. QED BY <2>1, <2>2, <2>3 DEF CountersAreRows
  <1>6. ASSUME NEW r \in Requests, Fault(r), ObserveFault(r)
        PROVE  CountersAreRows'
    <2>. DEFINE failed == reqs[r].failed \cup {EntryOf(r)}
    <2>1. /\ Walking(r) /\ failed \in SUBSET Entries
          /\ reqs' = [reqs EXCEPT ![r] = Advanced(r, failed)]
      BY <1>0, <1>6, WalkTypes DEF Fault, Walks
    <2>2. blamed[r] = reqs[r].failed
      BY <1>0, <2>1 DEF CountersAreRows, BlameOf, Walking
    <2>3. blamed' = [blamed EXCEPT ![r] = BlameOf(Advanced(r, failed))]
      <3>1. reqs'[r] = Advanced(r, failed)
        BY <1>0, <2>1 DEF TypeOK
      <3>2. BlameOf(Advanced(r, failed))
               = IF Advanced(r, failed) = None THEN {} ELSE failed
        BY <1>0, <2>1, AdvancedBlame DEF BlameOf
      <3>3. blamed' = [blamed EXCEPT ![r] = IF Advanced(r, failed) = None THEN {}
                                           ELSE failed]
        BY <1>6, <2>2, <3>1 DEF ObserveFault
      <3>. QED BY <3>2, <3>3
    <2>4. blamed' = [q \in Requests |-> BlameOf(reqs'[q])]
      BY <1>0, <2>1, <2>3, BlameStep
    <2>5. strikes' = failures'
      BY <1>0, <1>6, <2>2 DEF Fault, ObserveFault, NoteFailure, chainVars,
         CountersAreRows
    <2>6. memberStrikes' = memberFailures'
      BY <1>0, <1>6 DEF Fault, ObserveFault, AsMember, NoteMemberFailure, stickyVars,
         CountersAreRows
    <2>. QED BY <2>4, <2>5, <2>6 DEF CountersAreRows
  <1>7. ASSUME NEW r \in Requests, Leave(r), ObserveLeave(r)
        PROVE  CountersAreRows'
    <2>1. blamed' = [q \in Requests |-> BlameOf(reqs'[q])]
      BY <1>0, <1>7, BlameStep DEF Leave, ObserveLeave, BlameOf
    <2>. QED BY <1>0, <1>7, <2>1 DEF Leave, ObserveLeave, CountersAreRows
  <1>8. CASE Restart /\ ObserveRestart
    BY <1>8 DEF Restart, ObserveRestart, CountersAreRows, BlameOf
  <1>. QED BY <1>2, <1>3, <1>4, <1>5, <1>6, <1>7, <1>8 DEF SNext

LEMMA StrikesObserve == [SNext]_strikeVars => [Next]_vars
  BY DEF SNext, Next, strikeVars, vars

LEMMA RowsInvStep == RowsInv /\ [SNext]_strikeVars => RowsInv'
  <1>. SUFFICES ASSUME RowsInv, [SNext]_strikeVars PROVE RowsInv'
    OBVIOUS
  <1>1. TypeOK'
    BY StrikesObserve, TypeOKStep DEF RowsInv
  <1>2. CASE SNext
    BY <1>1, <1>2, CountersAreRowsStep DEF RowsInv
  <1>3. CASE UNCHANGED strikeVars
    BY <1>1, <1>3 DEF RowsInv, CountersAreRows, strikeVars
  <1>. QED BY <1>2, <1>3

\* "A single transient fault fails that one request over but leaves the chain
\* at home": a key is moved down its chain only past entries at which
\* DemoteAfter different requests in a row had a fault, for every number of
\* requests in flight, every chain and pool and every history of edits.
THEOREM NoBlipDemotes == SSpec => NeverDemotedByABlip
  <1>1. RowsInv /\ [SNext]_strikeVars
          => [\A k \in Keys :
                (chains[k] # None /\ chains'[k] = chains[k]) =>
                   \A n \in FromTheFirst(IndexOnChain(k, chains[k]))
                               ..(IndexAfter(k, chains[k]) - 1) :
                       strikes[chains[k][n]] >= DemoteAfter]_strikeVars
    BY NoBlipStep, StrikesObserve DEF RowsInv, CountersAreRows, Latched
  <1>. QED BY <1>1, RowsInvInit, RowsInvStep, PTL DEF SSpec, NeverDemotedByABlip

\* The same rule inside a pool: the sticky point goes down only past members
\* that failed DemoteAfter calls in a row, whichever requests, chains and
\* pools those calls were made for.
THEOREM NoBlipUnsticks == SSpec => StickyNeverMovedByABlip
  <1>1. RowsInv /\ [SNext]_strikeVars
          => [\A e \in Entries :
                (orders[e] # None /\ orders'[e] = orders[e] /\ sticky'[e] # None) =>
                   \A n \in FromTheFirst(IF sticky[e] = None THEN 0
                                         ELSE IndexIn(orders[e], sticky[e]))
                               ..(IndexIn(orders[e], sticky'[e]) - 1) :
                       memberStrikes[orders[e][n]] >= DemoteAfter]_strikeVars
    BY StickyStep, StrikesObserve DEF RowsInv, CountersAreRows, MemberLatched
  <1>. QED BY <1>1, RowsInvInit, RowsInvStep, PTL DEF SSpec, StickyNeverMovedByABlip
-----------------------------------------------------------------------------
(* A backed-off key is probed once per window.                              *)

\* What makes the age of the anchor the time since the last probe: the table's
\* chain is the one that is configured, a chain being walked was planned, and
\* only a key that stands behind its head is anchored.
PlannedHere(k) == chains[k] \in {None, store.chain[k]}

WalksArePlanned ==
    \A r \in Requests :
        (Walking(r) /\ ByChain(r)) => chains[reqs[r].key] # None

AgeIsQuiet(k) ==
    LET index == IndexOnChain(k, store.chain[k])
    IN  /\ quiet[k] \in 0..Window
        /\ index = 1 => table[k].since = None
        /\ index > 1 => table[k].since = quiet[k]

ProbeInv ==
    /\ TypeOK
    /\ quiet \in [Keys -> 0..Window]
    /\ WalksArePlanned
    /\ \A k \in Keys : PlannedHere(k) /\ AgeIsQuiet(k)

\* Nobody reorders a chain; pools may still be edited.
ChainsAreFixed == \A s, t \in Stores : s.chain = t.chain

LEMMA ProbeInvInit == HInit => ProbeInv
  <1>. SUFFICES ASSUME HInit PROVE ProbeInv
    OBVIOUS
  <1>1. TypeOK
    BY TypeOKInit DEF HInit
  <1>2. quiet \in [Keys -> 0..Window]
    BY WindowAssumption DEF HInit
  <1>3. WalksArePlanned
    BY DEF HInit, Init, WalksArePlanned, Walking
  <1>4. ASSUME NEW k \in Keys
        PROVE  PlannedHere(k) /\ AgeIsQuiet(k)
    <2>1. table[k] = None /\ chains[k] = None
      BY DEF HInit, Init, ChainInit
    <2>2. IndexOnChain(k, store.chain[k]) = 0
      BY <2>1 DEF IndexOnChain
    <2>. QED BY <1>2, <2>1, <2>2 DEF PlannedHere, AgeIsQuiet
  <1>. QED BY <1>1, <1>2, <1>3, <1>4 DEF ProbeInv

\* No step changes a configured chain.
LEMMA ChainStays ==
    ASSUME ChainsAreFixed, TypeOK, [Next]_vars
    PROVE  store'.chain = store.chain
  <1>1. store \in Stores /\ store' \in Stores
    BY TypeOKStep DEF TypeOK
  <1>. QED BY <1>1 DEF ChainsAreFixed

\* Planning and forgetting keep the table on the configured chains, and the
\* chains of walks in it.
LEMMA PlannedStep ==
    ASSUME ChainsAreFixed, ProbeInv, [Next]_vars
    PROVE  WalksArePlanned' /\ \A k \in Keys : PlannedHere(k)'
  <1>0. /\ store'.chain = store.chain /\ TypeOK /\ WalksArePlanned
        /\ \A k \in Keys : PlannedHere(k)
        /\ chains \in [Keys -> Seq(Entries) \cup {None}]
        /\ reqs \in [Requests -> Walks \cup {None}]
        /\ \A k \in Keys : store.chain[k] # None
    BY ChainStays, StoreTypes, WindowAssumption DEF ProbeInv, TypeOK, ChainTypeOK
  <1>1. ASSUME NEW r \in Requests, NEW k \in Keys, PlanChain(r, k)
        PROVE  WalksArePlanned' /\ \A q \in Keys : PlannedHere(q)'
    <2>1. chains' = [chains EXCEPT ![k] = store.chain[k]]
      BY <1>1 DEF PlanChain, NotePlan
    <2>2. PICK w : reqs' = [reqs EXCEPT ![r] = w] /\ (w = None \/ w.key = k)
      <3>1. PICK calls, pooled :
               reqs' = [reqs EXCEPT ![r] = NewWalk(k, store.chain[k], calls, pooled)]
        BY <1>1 DEF PlanChain
      <3>. DEFINE w == NewWalk(k, store.chain[k], calls, pooled)
      <3>2. w = None \/ w.key = k
        BY DEF NewWalk
      <3>. HIDE DEF w
      <3>. QED BY <3>1, <3>2 DEF w
    <2>3. WalksArePlanned'
      BY <1>0, <2>1, <2>2 DEF WalksArePlanned, Walking, ByChain
    <2>. QED BY <1>0, <2>1, <2>3 DEF PlannedHere
  <1>2. CASE Restart
    BY <1>0, <1>2 DEF Restart, WalksArePlanned, PlannedHere, Walking
  <1>3. ASSUME chains' = chains,
               \A r \in Requests : reqs'[r] = None \/ reqs'[r].key = None
                                     \/ (reqs[r] # None /\ reqs'[r].key = reqs[r].key)
        PROVE  WalksArePlanned' /\ \A k \in Keys : PlannedHere(k)'
    BY <1>0, <1>3 DEF WalksArePlanned, PlannedHere, Walking, ByChain
  <1>4. CASE EditStore \/ Tick \/ UNCHANGED vars
    BY <1>3, <1>4 DEF EditStore, Tick, vars
  <1>5. ASSUME NEW r \in Requests, NEW e \in PoolRequests, PlanPool(r, e)
        PROVE  WalksArePlanned' /\ \A k \in Keys : PlannedHere(k)'
    <2>1. PICK calls : reqs' = [reqs EXCEPT ![r] = NewWalk(None, <<e>>, calls, {e})]
      BY <1>5 DEF PlanPool
    <2>2. NewWalk(None, <<e>>, calls, {e}) = None
             \/ NewWalk(None, <<e>>, calls, {e}).key = None
      BY DEF NewWalk
    <2>. QED BY <1>0, <1>3, <1>5, <2>1, <2>2 DEF PlanPool
  <1>6. ASSUME NEW r \in Requests, Answer(r) \/ Leave(r)
        PROVE  WalksArePlanned' /\ \A k \in Keys : PlannedHere(k)'
    BY <1>0, <1>3, <1>6 DEF Answer, Leave, NoteSuccess, chainVars
  <1>7. ASSUME NEW r \in Requests, Fault(r)
        PROVE  WalksArePlanned' /\ \A k \in Keys : PlannedHere(k)'
    <2>1. chains' = chains
      BY <1>7 DEF Fault, NoteFailure, chainVars
    <2>2. PICK w : reqs' = [reqs EXCEPT ![r] = w]
                     /\ (w = None \/ w.key = reqs[r].key)
      <3>1. reqs[r] \in Walks
        BY <1>0, <1>7, WalkTypes DEF Fault
      <3>. DEFINE w == Advanced(r, reqs[r].failed \cup {EntryOf(r)})
      <3>2. \A hop, try, failed : GoTo(reqs[r], hop, try, failed).key = reqs[r].key
        BY <3>1 DEF GoTo, Walks
      <3>3. w = None \/ w.key = reqs[r].key
        BY <3>2 DEF Advanced
      <3>4. reqs' = [reqs EXCEPT ![r] = w]
        BY <1>7 DEF Fault
      <3>. HIDE DEF w
      <3>. QED BY <3>3, <3>4
    <2>3. reqs[r] # None
      BY <1>7 DEF Fault, Walking
    <2>. QED BY <1>0, <1>3, <2>1, <2>2, <2>3
  <1>. QED BY <1>1, <1>2, <1>4, <1>5, <1>6, <1>7 DEF Next

\* How one step may change the place of a key: it drops it, leaves it alone,
\* ages it, moves it -- onto the head without an anchor, anywhere else with a
\* fresh one -- or plans from the head.
LEMMA PlaceStep ==
    ASSUME ProbeInv, [Next]_vars, NEW k \in Keys
    PROVE  \/ table'[k] = None
           \/ table'[k] = table[k]
           \/ Tick
           \/ \E e \in Entries :
                 LET new == IndexIn(store.chain[k], e)
                 IN  /\ table'[k] = IF new = 1 THEN At(e, None) ELSE At(e, 0)
                     /\ new = 0 \/ Spot(table'[k]) # Spot(table[k])
           \/ \E r \in Requests : FromHead(r, k)
  <1>0. ChainTypeOK /\ TypeOK /\ WalksArePlanned /\ PlannedHere(k)
    BY DEF ProbeInv, TypeOK
  <1>1. CASE table'[k] = table[k] \/ Tick
    BY <1>1
  <1>2. ASSUME NEW r \in Requests, NEW q \in Keys, PlanChain(r, q)
        PROVE  \/ table'[k] = None \/ table'[k] = table[k]
               \/ \E s \in Requests : FromHead(s, k)
    <2>1. NotePlan(q, store.chain[q])
      BY <1>2 DEF PlanChain
    <2>2. CASE q = k /\ Probes(k, store.chain[k])
      BY <1>2, <2>2 DEF FromHead, PlanStart
    <2>3. CASE ~(q = k /\ Probes(k, store.chain[k]))
      BY <1>0, <2>1, <2>3 DEF NotePlan, ChainTypeOK
    <2>. QED BY <2>2, <2>3
  <1>3. ASSUME NEW r \in Requests, Answer(r), table'[k] # table[k]
        PROVE  \E e \in Entries :
                 LET new == IndexIn(store.chain[k], e)
                 IN  /\ table'[k] = IF new = 1 THEN At(e, None) ELSE At(e, 0)
                     /\ new = 0 \/ Spot(table'[k]) # Spot(table[k])
    <2>1. ByChain(r) /\ reqs[r].key = k
      BY <1>0, <1>3 DEF Answer, NoteSuccess, chainVars, ChainTypeOK
    <2>. DEFINE e   == EntryOf(r)
                new == IndexIn(store.chain[k], e)
    <2>2. e \in Entries
      BY <1>0, <1>3, WalkTypes DEF Answer
    <2>3. chains[k] = store.chain[k] /\ chains[k] # None
      BY <1>0, <1>3, <2>1 DEF Answer, WalksArePlanned, PlannedHere
    <2>4. table'[k] = PositionAfterSuccess(k, e)
      BY <1>0, <1>3, <2>1 DEF Answer, NoteSuccess, ChainTypeOK
    <2>. HIDE DEF e
    <2>5. CASE new = 0
      <3>1. table'[k] = At(e, 0)
        BY <2>3, <2>4, <2>5 DEF PositionAfterSuccess
      <3>. QED BY <2>2, <2>5, <3>1
    <2>6. CASE new # 0
      <3>1. new # IndexOnChain(k, store.chain[k])
        BY <1>3, <2>3, <2>4, <2>6 DEF PositionAfterSuccess
      <3>2. table'[k] = IF new = 1 THEN At(e, None) ELSE At(e, 0)
        BY <1>3, <2>3, <2>4, <2>6, <3>1 DEF PositionAfterSuccess
      <3>3. table'[k] # None /\ table'[k].at = e
        <4>1. At(e, None) \in Positions /\ At(e, 0) \in Positions
          BY <2>2, WindowAssumption DEF At, Positions
        <4>. QED BY <3>2, <4>1, NoneIsNoPosition DEF At
      <3>4. Spot(table'[k]) = e
        BY <3>3 DEF Spot
      <3>5. table[k] # None => table[k].at # e
        BY <3>1 DEF IndexOnChain
      <3>6. Spot(table[k]) # e
        BY <2>2, <3>5, NoneAssumption DEF Spot
      <3>. QED BY <2>2, <3>2, <3>4, <3>6
    <2>. QED BY <2>5, <2>6
  <1>4. ASSUME NEW r \in Requests, NEW e \in PoolRequests, PlanPool(r, e)
        PROVE  table'[k] = table[k]
    BY <1>4 DEF PlanPool
  <1>5. ASSUME NEW r \in Requests, Fault(r) \/ Leave(r)
        PROVE  table'[k] = table[k]
    BY <1>5 DEF Fault, Leave, NoteFailure, chainVars
  <1>6. CASE Restart
    BY <1>6 DEF Restart
  <1>7. CASE EditStore \/ UNCHANGED vars
    BY <1>7 DEF EditStore, vars
  <1>. QED BY <1>1, <1>2, <1>3, <1>4, <1>5, <1>6, <1>7 DEF Next

\* A plan from the head anchors a key that is behind it, and no other.
LEMMA HeadPlanAnchors ==
    ASSUME ProbeInv, NEW k \in Keys, NEW r \in Requests, FromHead(r, k)
    PROVE  LET index == IF table'[k] = None THEN 0
                        ELSE IndexIn(store.chain[k], table'[k].at)
           IN  /\ index = 1 => table'[k].since = None
               /\ index > 1 => table'[k].since = 0
  <1>. DEFINE chain == store.chain[k]
              index == IndexOnChain(k, chain)
  <1>1. /\ ChainTypeOK /\ AgeIsQuiet(k) /\ chain \in Seq(Entries)
        /\ NotePlan(k, chain) /\ PlanStart(k, chain) = 1
    BY StoreTypes DEF ProbeInv, TypeOK, FromHead, PlanChain
  <1>2. index \in Nat
    BY <1>1, IndexInType DEF IndexOnChain
  <1>3. CASE index = 0
    <2>1. table'[k] = None
      BY <1>1, <1>3 DEF NotePlan, ChainTypeOK
    <2>. QED BY <2>1
  <1>4. CASE index = 1
    <2>1. table'[k] = table[k]
      BY <1>1, <1>4 DEF NotePlan, Probes, ChainTypeOK
    <2>2. table[k] # None /\ IndexIn(chain, table[k].at) = 1
      BY <1>4 DEF IndexOnChain
    <2>. QED BY <1>1, <1>4, <2>1, <2>2 DEF AgeIsQuiet
  <1>5. CASE index > 1
    <2>1. Probes(k, chain)
      BY <1>1, <1>2, <1>5 DEF PlanStart
    <2>2. table[k] \in Positions /\ IndexIn(chain, table[k].at) = index
      BY <1>1, <1>5 DEF IndexOnChain, ChainTypeOK
    <2>3. table'[k] = [table[k] EXCEPT !.since = 0]
      BY <1>1, <1>5, <2>1 DEF NotePlan, ChainTypeOK
    <2>4. table'[k].at = table[k].at /\ table'[k].since = 0
      BY <2>2, <2>3 DEF Positions
    <2>. QED BY <1>5, <2>2, <2>4
  <1>. QED BY <1>2, <1>3, <1>4, <1>5

\* Time ages the anchor and the quiet time alike.
LEMMA AgesTogether ==
    ASSUME NEW position \in Positions, NEW n \in 0..Window
    PROVE  /\ Older(n) \in 0..Window
           /\ position.since = None => Aged(position).since = None
           /\ position.since = n => Aged(position).since = Older(n)
  <1>1. position # None
    BY NoneIsNoPosition
  <1>2. Older(n) \in 0..Window
    BY WindowAssumption DEF Older
  <1>3. CASE position.since = None
    <2>1. Aged(position) = position
      BY <1>1, <1>3 DEF Aged, Expired
    <2>. QED BY <1>2, <1>3, <2>1, WindowAssumption
  <1>4. CASE position.since = n /\ n = Window
    <2>1. Aged(position) = position
      BY <1>1, <1>4 DEF Aged, Expired
    <2>. QED BY <1>2, <1>4, <2>1, WindowAssumption DEF Older
  <1>5. CASE position.since = n /\ n # Window
    <2>1. position.since # None /\ position.since # Window
      BY <1>5, WindowAssumption
    <2>2. Aged(position) = [position EXCEPT !.since = n + 1]
      BY <1>1, <1>5, <2>1 DEF Aged, Expired
    <2>3. Aged(position).since = n + 1
      BY <2>2 DEF Positions
    <2>. QED BY <1>2, <1>5, <2>1, <2>3, WindowAssumption DEF Older
  <1>. QED BY <1>2, <1>3, <1>4, <1>5

LEMMA AgeIsQuietStep ==
    ASSUME ChainsAreFixed, ProbeInv, HNext, NEW k \in Keys
    PROVE  AgeIsQuiet(k)'
  <1>. DEFINE index == IF table'[k] = None THEN 0
                       ELSE IndexIn(store.chain[k], table'[k].at)
  <1>0. /\ TypeOK /\ AgeIsQuiet(k) /\ quiet[k] \in 0..Window /\ [Next]_vars
        /\ table[k] \in Positions \cup {None} /\ 0 \in 0..Window
        /\ \A q \in Keys : quiet'[q] =
              IF ObservePlanning(q) THEN 0 ELSE IF Tick THEN Older(quiet[q]) ELSE quiet[q]
    BY WindowAssumption DEF ProbeInv, TypeOK, ChainTypeOK, HNext, ObserveQuiet
  <1>1. store'.chain = store.chain
    BY <1>0, ChainStays
  <1>2. /\ quiet'[k] \in 0..Window
        /\ index = 1 => table'[k].since = None
        /\ index > 1 => table'[k].since = quiet'[k]
    <2>1. CASE \E r \in Requests : FromHead(r, k)
      <3>1. quiet'[k] = 0
        BY <1>0, <2>1 DEF ObservePlanning
      <3>. QED BY <1>0, <2>1, <3>1, HeadPlanAnchors
    <2>2. CASE Tick
      <3>1. table'[k] = Aged(table[k])
        BY <2>2 DEF Tick
      <3>2. CASE table[k] = None
        <4>1. table'[k] = None
          BY <3>1, <3>2 DEF Aged
        <4>2. quiet'[k] \in {0, Older(quiet[k])} /\ Older(quiet[k]) \in 0..Window
          BY <1>0, <2>2, WindowAssumption DEF Older
        <4>. QED BY <1>0, <4>1, <4>2
      <3>3. CASE table[k] # None
        <4>1. table[k] \in Positions /\ table'[k] # None /\ table'[k].at = table[k].at
          BY <1>0, <3>1, <3>3, AgedType
        <4>2. index = IndexOnChain(k, store.chain[k])
          BY <3>3, <4>1 DEF IndexOnChain
        <4>3. Spot(table'[k]) = Spot(table[k])
          BY <3>3, <4>1 DEF Spot
        <4>4. CASE ObservePlanning(k)
          BY <2>1, <4>3, <4>4 DEF ObservePlanning
        <4>5. CASE ~ObservePlanning(k)
          <5>1. quiet'[k] = Older(quiet[k])
            BY <1>0, <2>2, <4>5
          <5>. QED BY <1>0, <3>1, <4>1, <4>2, <5>1, AgesTogether DEF AgeIsQuiet
        <4>. QED BY <4>4, <4>5
      <3>. QED BY <3>2, <3>3
    <2>3. CASE table'[k] = None
      <3>1. Older(quiet[k]) \in 0..Window
        BY <1>0, WindowAssumption DEF Older
      <3>. QED BY <1>0, <2>3, <3>1
    <2>4. CASE table'[k] = table[k] /\ ~Tick
      <3>1. CASE ObservePlanning(k)
        BY <2>1, <2>4, <3>1 DEF ObservePlanning
      <3>2. CASE ~ObservePlanning(k)
        <4>1. quiet'[k] = quiet[k]
          BY <1>0, <2>4, <3>2
        <4>2. index = IndexOnChain(k, store.chain[k])
          BY <2>4 DEF IndexOnChain
        <4>. QED BY <1>0, <2>4, <4>1, <4>2 DEF AgeIsQuiet
      <3>. QED BY <3>1, <3>2
    <2>5. ASSUME NEW e \in Entries,
                 table'[k] = IF IndexIn(store.chain[k], e) = 1
                             THEN At(e, None) ELSE At(e, 0),
                 \/ IndexIn(store.chain[k], e) = 0
                 \/ Spot(table'[k]) # Spot(table[k])
          PROVE  /\ quiet'[k] \in 0..Window
                 /\ index = 1 => table'[k].since = None
                 /\ index > 1 => table'[k].since = quiet'[k]
      <3>0. Older(quiet[k]) \in 0..Window
        BY <1>0, WindowAssumption DEF Older
      <3>1. quiet'[k] \in 0..Window
        BY <1>0, <3>0
      <3>2. table'[k] # None /\ table'[k].at = e
        <4>1. At(e, None) \in Positions /\ At(e, 0) \in Positions
          BY WindowAssumption DEF At, Positions
        <4>. QED BY <2>5, <4>1, NoneIsNoPosition DEF At
      <3>3. index = IndexIn(store.chain[k], e)
        BY <3>2
      <3>4. index = 1 => table'[k].since = None
        BY <2>5, <3>3 DEF At
      <3>5. ASSUME index > 1 PROVE table'[k].since = quiet'[k]
        <4>1. table'[k].since = 0
          BY <2>5, <3>3, <3>5 DEF At
        <4>2. ObservePlanning(k)
          BY <2>5, <3>3, <3>5 DEF ObservePlanning
        <4>. QED BY <1>0, <4>1, <4>2
      <3>. QED BY <3>1, <3>4, <3>5
    <2>. QED BY <1>0, <2>1, <2>2, <2>3, <2>4, <2>5, PlaceStep
  <1>3. index = IndexOnChain(k, store.chain[k])'
    BY <1>1 DEF IndexOnChain
  <1>. QED BY <1>2, <1>3 DEF AgeIsQuiet

LEMMA ProbeInvStep ==
    ASSUME ChainsAreFixed
    PROVE  ProbeInv /\ [HNext]_historyVars => ProbeInv'
  <1>. SUFFICES ASSUME ProbeInv, [HNext]_historyVars PROVE ProbeInv'
    OBVIOUS
  <1>1. TypeOK' /\ [Next]_vars
    BY TypeOKStep DEF ProbeInv, HNext, historyVars, vars
  <1>2. WalksArePlanned' /\ \A k \in Keys : PlannedHere(k)'
    BY <1>1, PlannedStep
  <1>3. CASE HNext
    <2>1. \A k \in Keys : AgeIsQuiet(k)'
      BY <1>3, AgeIsQuietStep
    <2>2. \A k \in Keys : quiet'[k] \in 0..Window
      BY <2>1 DEF AgeIsQuiet
    <2>3. quiet' \in [Keys -> 0..Window]
      BY <1>3, <2>2 DEF HNext, ObserveQuiet
    <2>. QED BY <1>1, <1>2, <2>1, <2>3 DEF ProbeInv
  <1>4. CASE UNCHANGED historyVars
    <2>1. \A k \in Keys : AgeIsQuiet(k)'
      BY <1>4 DEF ProbeInv, AgeIsQuiet, IndexOnChain, historyVars
    <2>2. quiet' = quiet
      BY <1>4 DEF historyVars
    <2>. QED BY <1>1, <1>2, <2>1, <2>2 DEF ProbeInv
  <1>. QED BY <1>3, <1>4

LEMMA ProbeInvSuffices == ProbeInv => ProbedOncePerWindow
  <1>. SUFFICES ASSUME ProbeInv, NEW k \in Keys,
                       IndexOnChain(k, store.chain[k]) > 1
                PROVE  PlanStart(k, store.chain[k]) = 1 <=> quiet[k] = Window
    BY DEF ProbedOncePerWindow
  <1>1. /\ store.chain[k] \in Seq(Entries) /\ AgeIsQuiet(k)
    BY StoreTypes DEF ProbeInv
  <1>2. IndexOnChain(k, store.chain[k]) \in Nat
    BY <1>1, IndexInType DEF IndexOnChain
  <1>3. table[k].since = quiet[k] /\ quiet[k] # None
    BY <1>1, WindowAssumption DEF AgeIsQuiet
  <1>4. Expired(table[k]) <=> quiet[k] = Window
    BY <1>3 DEF Expired
  <1>. QED BY <1>2, <1>4 DEF PlanStart, Probes

\* "Every RETRY_UPSTREAM_MS the chain probes upstream again": while no chain is
\* reordered, a backed-off key plans from its head exactly when a whole window
\* passed since it moved or last did, for every chain and number of requests,
\* whatever answers and faults come meanwhile.
THEOREM ProbesOnTime ==
    ASSUME ChainsAreFixed
    PROVE  HSpec => []ProbedOncePerWindow
  BY ProbeInvInit, ProbeInvStep, ProbeInvSuffices, PTL DEF HSpec

\* "since is null while the chain sits at home": while no chain is reordered, a
\* key carries a backoff anchor exactly when it stands behind the head of its
\* chain.  An edit that moves the entry it stands on to the front breaks this.
THEOREM AnchoredWhileAway ==
    ASSUME ChainsAreFixed
    PROVE  HSpec => []AnchoredIffBackedOff
  <1>1. ASSUME ProbeInv PROVE AnchoredIffBackedOff
    <2>. SUFFICES ASSUME NEW k \in Keys, chains[k] # None, IndexOnChain(k, chains[k]) > 0
                  PROVE  table[k].since = None <=> IndexOnChain(k, chains[k]) = 1
      BY DEF AnchoredIffBackedOff
    <2>1. chains[k] = store.chain[k] /\ AgeIsQuiet(k) /\ chains[k] \in Seq(Entries)
      BY <1>1, StoreTypes DEF ProbeInv, PlannedHere
    <2>2. IndexOnChain(k, chains[k]) \in Nat
      BY <2>1, IndexInType DEF IndexOnChain
    <2>. QED BY <2>1, <2>2, WindowAssumption DEF AgeIsQuiet
  <1>. QED BY <1>1, ProbeInvInit, ProbeInvStep, PTL DEF HSpec
=============================================================================
