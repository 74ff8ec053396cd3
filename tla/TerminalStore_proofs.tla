------------------------ MODULE TerminalStore_proofs ------------------------
(***************************************************************************)
(* Proofs about TerminalStore, for any number of sessions, any limit per   *)
(* pass and any number of rounds.                                          *)
(***************************************************************************)
EXTENDS TerminalStore, TLAPS

Routes == {"create", "close", "clear"}

Mems == [listed : SUBSET Sessions, known : SUBSET Sessions, dirty : SUBSET Sessions,
         order : SUBSET (Sessions \X Sessions), unpersisted : SUBSET Sessions,
         removed : SUBSET Sessions, indexDirty : BOOLEAN]

Batches == UNION {[S -> Copies] : S \in SUBSET Sessions}

\* The sessions a save is asked for by name, or none in particular.
Names == (SUBSET Sessions) \cup {None}

Pumps == [running : BOOLEAN, full : BOOLEAN, slice : BOOLEAN,
          only : Names, untilClean : BOOLEAN, fullPass : BOOLEAN,
          rounds : 0..MaxRounds, ok : BOOLEAN, passOk : BOOLEAN,
          stage : {"write", "rm", "index", "end"}, batch : Batches,
          todo : SUBSET Sessions, text : SUBSET Sessions]

-----------------------------------------------------------------------------
(* The inductive invariant.  The operators take the memory m, the pump q,   *)
(* the record files d and the index ix, so that they can be said of what a  *)
(* handler has reached in the middle.                                       *)

MemInv(m) ==
    /\ m.listed \subseteq m.known /\ m.dirty \subseteq m.known
    /\ m.order \subseteq m.dirty \X m.dirty
    /\ m.unpersisted \subseteq m.listed \cap m.dirty
    /\ m.removed \subseteq m.known \ m.listed

StageInv(m, q) ==
    /\ DOMAIN q.batch \subseteq m.listed \cup m.removed
    /\ q.stage # "write" => DOMAIN q.batch = {}
    /\ q.todo \subseteq m.removed
    /\ q.stage # "rm" => q.todo = {}
    /\ q.text \subseteq m.known
    /\ q.stage # "end" => q.running

\* A listed session has a file, or will get one; what it has, or gets, is
\* current, or the session is marked; while one has no file the index is due.
\* Other files are due for removal, or the boot has left them alone.
DiskInv(m, q, d, ms) ==
    /\ \A s \in m.listed :
          /\ s \in m.unpersisted \/ s \in DOMAIN q.batch \/ d[s] # "none"
          /\ \/ s \in m.dirty
             \/ s \in DOMAIN q.batch /\ q.batch[s] = "current"
             \/ s \notin DOMAIN q.batch /\ d[s] = "current"
          /\ s \in m.unpersisted \/ (s \in DOMAIN q.batch /\ d[s] = "none") => m.indexDirty
    /\ \A s \in Sessions : s \in m.listed \/ s \in ms \/ d[s] = "none" \/ s \in m.removed

Named(ix, s) == ix # None /\ s \in ix

\* What the index names once the write under way is done.
Final(q, ix, s) == IF q.stage = "index" THEN s \in q.text ELSE Named(ix, s)

IndexInv(m, q, d, ix, ms) ==
    /\ \A s \in m.known :
          (s \in m.listed <=> Final(q, ix, s)) \/ m.indexDirty \/ s \in m.removed \/ q.stage = "rm"
    /\ \A s \in Sessions : Named(ix, s) => s \in m.known \cup ms
    /\ \A s \in m.listed : Named(ix, s) \/ Final(q, ix, s) => d[s] # "none"

Again(q) == q.slice \/ q.full

\* The pump takes s along when it goes on.
Asked(q, s) == q.full \/ q.untilClean \/ (q.only # None /\ s \in q.only)

\* The index is due, and the pump comes to it before it stops.
Pend(m, q) == m.indexDirty /\ (q.stage \in {"write", "rm"} \/ Again(q))

\* What the answers A rest on: as long as nothing has failed, the index says
\* what they promise, or will before they are given.
AnswersInv(m, q, ix, A, mk) ==
    q.ok /\ q.passOk /\ ~mk =>
        /\ A # {} => \A s \in m.unpersisted : Again(q) /\ Asked(q, s)
        /\ \A w \in A :
              \/ Pend(m, q)
              \/ w[1] = "create" /\ (w[2] \in m.listed => Final(q, ix, w[2]))
              \/ w[1] # "create" /\ ~Final(q, ix, w[2])

\* What has been confirmed: ks are to be kept, gs are gone.
KeptInv(m, q, d, ix, ks) ==
    \A s \in ks : s \in m.listed /\ Named(ix, s) /\ Final(q, ix, s) /\ d[s] # "none"

GoneInv(m, q, ix, gs) == \A s \in gs : s \notin m.listed /\ ~Named(ix, s) /\ ~Final(q, ix, s)

PassInv(m, q, d, ix, A, mk, ks, gs, ms) ==
    /\ MemInv(m) /\ StageInv(m, q)
    /\ DiskInv(m, q, d, ms) /\ IndexInv(m, q, d, ix, ms)
    /\ AnswersInv(m, q, ix, A, mk) /\ \A w \in A : w[1] # "create" => w[2] \notin m.listed
    /\ KeptInv(m, q, d, ix, ks) /\ GoneInv(m, q, ix, gs)

-----------------------------------------------------------------------------
(* A step of a pass leads from a memory m and a pump q that keep to it to   *)
(* ones that do.                                                            *)

LEMMA NoSetIsNone == \A S \in SUBSET Sessions : S # None
  BY StoreAssumption DEF Sessions

SameSessions(m) == mem'.listed = m.listed /\ mem'.known = m.known

LEMMA StageTurns ==
  ASSUME NEW m \in Mems, NEW q \in Pumps, NEW d, NEW ix, NEW A, NEW mk, NEW ks, NEW gs, NEW ms,
         PassInv(m, q, d, ix, A, mk, ks, gs, ms),
         q.running, q.stage \in {"write", "rm"}, DOMAIN q.batch = {},
         NEW p, \/ p = [q EXCEPT !.stage = "rm", !.todo = m.removed]
                \/ /\ p = [q EXCEPT !.stage = "end"] /\ q.todo = {}
                   /\ m.unpersisted # {} \/ (q.stage = "write" /\ ~m.indexDirty)
  PROVE  p \in Pumps /\ p.running /\ PassInv(m, p, d, ix, A, mk, ks, gs, ms)
  <1>1. /\ p \in Pumps /\ p.running /\ p.text = q.text
        /\ p.batch = q.batch /\ p.ok = q.ok /\ p.passOk = q.passOk /\ p.slice = q.slice
        /\ p.full = q.full /\ p.only = q.only /\ p.untilClean = q.untilClean
        /\ \/ p.stage = "rm" /\ p.todo = m.removed
           \/ /\ p.stage = "end" /\ p.todo = {}
              /\ m.unpersisted # {} \/ (q.stage = "write" /\ ~m.indexDirty)
    <2>1. CASE p = [q EXCEPT !.stage = "rm", !.todo = m.removed]
      <3>1. m.removed \in SUBSET Sessions
        BY DEF Mems
      <3>2. p \in Pumps
        BY <2>1, <3>1 DEF Pumps
      <3>. QED BY <2>1, <3>2 DEF Pumps
    <2>2. CASE p = [q EXCEPT !.stage = "end"] /\ q.todo = {}
      BY <2>2 DEF Pumps
    <2>. QED BY <2>1, <2>2
  <1>2. m.unpersisted # {} => m.indexDirty
    BY DEF PassInv, DiskInv, MemInv
  <1>3. StageInv(m, p)
    BY <1>1 DEF PassInv, StageInv
  <1>4. DiskInv(m, p, d, ms)
    BY <1>1 DEF PassInv, DiskInv
  <1>5. \A s : Final(p, ix, s) = Final(q, ix, s)
    BY <1>1 DEF Final
  <1>6. IndexInv(m, p, d, ix, ms)
    BY <1>1, <1>2, <1>5 DEF PassInv, IndexInv
  <1>7. AnswersInv(m, p, ix, A, mk)
    BY <1>1, <1>2, <1>5 DEF PassInv, AnswersInv, Pend, Again, Asked
  <1>8. KeptInv(m, p, d, ix, ks) /\ GoneInv(m, p, ix, gs)
    BY <1>5 DEF PassInv, KeptInv, GoneInv
  <1>. QED BY <1>1, <1>3, <1>4, <1>6, <1>7, <1>8 DEF PassInv

LEMMA IndexDue == \* ToSnapshot
  ASSUME NEW m \in Mems, NEW q \in Pumps, NEW d, NEW ix, NEW A, NEW mk, NEW ks, NEW gs, NEW ms,
         PassInv(m, q, d, ix, A, mk, ks, gs, ms),
         q.running, q.stage \in {"write", "rm"}, DOMAIN q.batch = {}, q.todo = {},
         ToSnapshot(m, q)
  PROVE  /\ mem' \in Mems /\ pump' \in Pumps /\ pump'.running /\ SameSessions(m)
         /\ PassInv(mem', pump', d, ix, A, mk, ks, gs, ms)
  <1>1. CASE m.unpersisted = {}
    <2> DEFINE n == [m EXCEPT !.indexDirty = FALSE]
               p == [q EXCEPT !.stage = "index", !.text = m.listed]
    <2>1. mem' = n /\ pump' = p
      BY <1>1 DEF ToSnapshot
    <2>2. /\ n \in Mems
          /\ n.listed = m.listed /\ n.known = m.known /\ n.dirty = m.dirty
          /\ n.order = m.order /\ n.unpersisted = m.unpersisted /\ n.removed = m.removed
          /\ n.indexDirty = FALSE
      BY DEF Mems
    <2>3. /\ p \in Pumps /\ p.running /\ p.stage = "index" /\ p.text = m.listed
          /\ p.batch = q.batch /\ p.todo = {}
      BY DEF Pumps, Mems
    <2> HIDE DEF n, p
    <2>4. MemInv(n) /\ StageInv(n, p)
      BY <1>1, <2>2, <2>3 DEF PassInv, MemInv, StageInv
    <2>5. \A s \in m.listed : d[s] # "none"
      BY <1>1 DEF PassInv, DiskInv
    <2>6. DiskInv(n, p, d, ms)
      BY <1>1, <2>2, <2>3 DEF PassInv, DiskInv
    <2>7. IndexInv(n, p, d, ix, ms)
      BY <1>1, <2>2, <2>3, <2>5 DEF PassInv, IndexInv, Final
    <2>8. AnswersInv(n, p, ix, A, mk) /\ \A w \in A : w[1] # "create" => w[2] \notin n.listed
      BY <1>1, <2>2, <2>3 DEF PassInv, AnswersInv, Final
    <2>9. KeptInv(n, p, d, ix, ks) /\ GoneInv(n, p, ix, gs)
      BY <2>2, <2>3 DEF PassInv, KeptInv, GoneInv, Final
    <2>. QED BY <2>1, <2>2, <2>3, <2>4, <2>6, <2>7, <2>8, <2>9 DEF PassInv, SameSessions
  <1>2. CASE m.unpersisted # {}
    <2>1. mem' = m /\ pump' = [q EXCEPT !.stage = "end"]
      BY <1>2 DEF ToSnapshot
    <2>. QED BY <1>2, <2>1, StageTurns DEF SameSessions
  <1>. QED BY <1>1, <1>2

LEMMA RecordsDone == \* ToIndex
  ASSUME NEW m \in Mems, NEW q \in Pumps, NEW d, NEW ix, NEW A, NEW mk, NEW ks, NEW gs, NEW ms,
         PassInv(m, q, d, ix, A, mk, ks, gs, ms),
         q.running, q.stage = "write", DOMAIN q.batch = {}, ToIndex(m, q)
  PROVE  /\ mem' \in Mems /\ pump' \in Pumps /\ pump'.running /\ SameSessions(m)
         /\ PassInv(mem', pump', d, ix, A, mk, ks, gs, ms)
  <1>0. q.todo = {}
    BY DEF PassInv, StageInv
  <1>1. CASE m.unpersisted # {} \/ ~(m.indexDirty \/ m.removed # {})
    <2>1. mem' = m /\ pump' = [q EXCEPT !.stage = "end"]
      BY <1>1 DEF ToIndex
    <2>2. m.unpersisted # {} \/ (q.stage = "write" /\ ~m.indexDirty)
      BY <1>1
    <2>. QED BY <1>0, <2>1, <2>2, StageTurns DEF SameSessions
  <1>2. CASE m.unpersisted = {} /\ m.removed # {}
    <2>1. mem' = m /\ pump' = [q EXCEPT !.stage = "rm", !.todo = m.removed]
      BY <1>2 DEF ToIndex
    <2>2. q.stage \in {"write", "rm"}
      OBVIOUS
    <2>3. \/ pump' = [q EXCEPT !.stage = "rm", !.todo = m.removed]
          \/ /\ pump' = [q EXCEPT !.stage = "end"] /\ q.todo = {}
             /\ m.unpersisted # {} \/ (q.stage = "write" /\ ~m.indexDirty)
      BY <2>1
    <2>4. pump' \in Pumps /\ pump'.running /\ PassInv(m, pump', d, ix, A, mk, ks, gs, ms)
      BY <2>2, <2>3, StageTurns
    <2>. QED BY <2>1, <2>4 DEF SameSessions
  <1>3. CASE m.unpersisted = {} /\ m.removed = {} /\ m.indexDirty
    <2>1. ToSnapshot(m, q)
      BY <1>3 DEF ToIndex
    <2>. QED BY <1>0, <2>1, IndexDue
  <1>. QED BY <1>1, <1>2, <1>3 DEF Mems

LEMMA PassGoesOn == \* AfterRecord
  ASSUME NEW m \in Mems, NEW q \in Pumps, NEW d, NEW ix, NEW A, NEW mk, NEW ks, NEW gs, NEW ms,
         PassInv(m, q, d, ix, A, mk, ks, gs, ms),
         q.running, q.stage = "write", AfterRecord(m, q)
  PROVE  /\ mem' \in Mems /\ pump' \in Pumps /\ pump'.running /\ SameSessions(m)
         /\ PassInv(mem', pump', d, ix, A, mk, ks, gs, ms)
  <1>1. CASE DOMAIN q.batch = {}
    <2>1. ToIndex(m, q)
      BY <1>1 DEF AfterRecord
    <2>. QED BY <1>1, <2>1, RecordsDone
  <1>2. CASE DOMAIN q.batch # {}
    BY <1>2 DEF AfterRecord, SameSessions
  <1>. QED BY <1>1, <1>2

LEMMA RemovalsGoOn == \* AfterRemoval
  ASSUME NEW m \in Mems, NEW q \in Pumps, NEW d, NEW ix, NEW A, NEW mk, NEW ks, NEW gs, NEW ms,
         PassInv(m, q, d, ix, A, mk, ks, gs, ms),
         q.running, q.stage = "rm", AfterRemoval(m, q)
  PROVE  /\ mem' \in Mems /\ pump' \in Pumps /\ pump'.running /\ SameSessions(m)
         /\ PassInv(mem', pump', d, ix, A, mk, ks, gs, ms)
  <1>0. DOMAIN q.batch = {}
    BY DEF PassInv, StageInv
  <1>1. CASE q.todo = {}
    <2>1. ToSnapshot(m, q)
      BY <1>1 DEF AfterRemoval
    <2>. QED BY <1>0, <1>1, <2>1, IndexDue
  <1>2. CASE q.todo # {}
    BY <1>2 DEF AfterRemoval, SameSessions
  <1>. QED BY <1>1, <1>2

\* A pass that begins takes along every session without a file that an answer
\* waits for: a full one takes all of them, a slice those that were asked for.
LEMMA PassBegins == \* BeginPass
  ASSUME NEW m \in Mems, NEW q \in Pumps, NEW d, NEW ix, NEW A, NEW mk, NEW ks, NEW gs, NEW ms,
         PassInv(m, q, d, ix, A, mk, ks, gs, ms),
         NEW again \in Names,
         q.stage = "end", q.passOk \/ ~q.ok, BeginPass(m, q, again)
  PROVE  /\ mem' \in Mems /\ pump' \in Pumps /\ pump'.running /\ SameSessions(m)
         /\ PassInv(mem', pump', d, ix, A, mk, ks, gs, ms)
  <1> DEFINE full == q.full \/ q.untilClean
             only == IF full THEN None ELSE q.only
  <1>1. PICK C \in Considered(m, full, only) :
          LET B  == C \cap m.listed
              m2 == [Unmarked(m, C) EXCEPT !.unpersisted = @ \ B]
              q2 == [q EXCEPT !.running = TRUE, !.fullPass = full,
                         !.full = FALSE, !.slice = again # None, !.only = again,
                         !.rounds = IF @ < MaxRounds THEN @ + 1 ELSE @,
                         !.passOk = TRUE, !.stage = "write", !.batch = [s \in B |-> "current"]]
          IN  AfterRecord(m2, q2)
    BY DEF BeginPass
  <1>2. C \subseteq m.dirty
    BY DEF Considered
  <1>3. full => C = m.dirty
    BY DEF Considered
  <1>4. ~full /\ q.only # None => C = q.only \cap m.dirty
    BY DEF Considered
  <1> HIDE DEF full, only
  <1> DEFINE B == C \cap m.listed
             m2 == [Unmarked(m, C) EXCEPT !.unpersisted = @ \ B]
             q2 == [q EXCEPT !.running = TRUE, !.fullPass = full,
                        !.full = FALSE, !.slice = again # None, !.only = again,
                        !.rounds = IF @ < MaxRounds THEN @ + 1 ELSE @,
                        !.passOk = TRUE, !.stage = "write", !.batch = [s \in B |-> "current"]]
  <1>5. AfterRecord(m2, q2)
    BY <1>1
  <1>6. /\ m2 \in Mems
        /\ m2.listed = m.listed /\ m2.known = m.known /\ m2.dirty = m.dirty \ C
        /\ m2.order = {o \in m.order : o[1] \notin C /\ o[2] \notin C}
        /\ m2.unpersisted = m.unpersisted \ B
        /\ m2.removed = m.removed /\ m2.indexDirty = m.indexDirty
    BY DEF Mems, Unmarked
  <1>7. full \in BOOLEAN
    BY DEF full, Pumps
  <1>8. [s \in B |-> "current"] \in Batches
    <2>1. B \in SUBSET Sessions /\ [s \in B |-> "current"] \in [B -> Copies]
      BY DEF Mems, Copies
    <2>. QED BY <2>1 DEF Batches
  <1>9. (IF q.rounds < MaxRounds THEN q.rounds + 1 ELSE q.rounds) \in 0..MaxRounds
    BY StoreAssumption DEF Pumps
  <1>10. /\ q2 \in Pumps
         /\ q2.running /\ q2.stage = "write" /\ q2.text = q.text /\ q2.todo = q.todo
         /\ q2.batch = [s \in B |-> "current"] /\ q2.ok = q.ok /\ q2.passOk = TRUE
    <2> HIDE DEF B
    <2>1. (again # None) \in BOOLEAN
      OBVIOUS
    <2>2. q2 \in Pumps
      BY <1>7, <1>8, <1>9, <2>1 DEF Pumps
    <2>. QED BY <2>2 DEF Pumps
  <1> HIDE DEF m2, q2
  <1>11. DOMAIN q.batch = {} /\ q.todo = {}
    BY DEF PassInv, StageInv
  <1>12. MemInv(m2)
    <2>1. m2.order \subseteq m2.dirty \X m2.dirty
      BY <1>6 DEF PassInv, MemInv
    <2>. QED BY <1>6, <2>1 DEF PassInv, MemInv
  <1>13. StageInv(m2, q2)
    BY <1>6, <1>10, <1>11 DEF PassInv, StageInv
  <1>14. DiskInv(m2, q2, d, ms)
    BY <1>6, <1>10, <1>11 DEF PassInv, DiskInv
  <1>15. \A s : Final(q2, ix, s) = Final(q, ix, s)
    BY <1>10 DEF Final
  <1>16. IndexInv(m2, q2, d, ix, ms)
    BY <1>6, <1>10, <1>15 DEF PassInv, IndexInv
  <1>17. AnswersInv(m2, q2, ix, A, mk)
    <2> SUFFICES ASSUME q.ok, ~mk
                 PROVE  /\ A # {} => m2.unpersisted = {}
                        /\ \A w \in A :
                              \/ Pend(m2, q2)
                              \/ w[1] = "create" /\ (w[2] \in m.listed => Final(q, ix, w[2]))
                              \/ w[1] # "create" /\ ~Final(q, ix, w[2])
      BY <1>6, <1>10, <1>15 DEF AnswersInv
    <2>1. ASSUME A # {}, NEW s \in m.unpersisted PROVE s \in B
      <3>1. Asked(q, s) /\ s \in m.dirty /\ s \in m.listed
        BY <2>1 DEF PassInv, AnswersInv, MemInv
      <3>2. s \in C
        BY <1>3, <1>4, <3>1 DEF Asked, full
      <3>. QED BY <3>1, <3>2
    <2>2. Pend(m, q) => Pend(m2, q2)
      BY <1>6, <1>10 DEF Pend
    <2>. QED BY <1>6, <2>1, <2>2 DEF PassInv, AnswersInv
  <1>18. KeptInv(m2, q2, d, ix, ks) /\ GoneInv(m2, q2, ix, gs)
    BY <1>6, <1>15 DEF PassInv, KeptInv, GoneInv
  <1>19. PassInv(m2, q2, d, ix, A, mk, ks, gs, ms)
    BY <1>6, <1>12, <1>13, <1>14, <1>16, <1>17, <1>18 DEF PassInv
  <1>20. /\ mem' \in Mems /\ pump' \in Pumps /\ pump'.running /\ SameSessions(m2)
         /\ PassInv(mem', pump', d, ix, A, mk, ks, gs, ms)
    BY <1>5, <1>6, <1>10, <1>19, PassGoesOn
  <1>. QED BY <1>6, <1>20 DEF SameSessions

\* Somebody asks for a save: either nobody waits for more than before, or the
\* index is due and what has no file yet is asked for by name.
Insists(m, only, A) ==
    /\ m.indexDirty /\ only # None /\ m.unpersisted \subseteq only
    /\ \A w \in A : w[1] # "create" => w[2] \notin m.listed

LEMMA Heard == \* RequestPersist
  ASSUME NEW m \in Mems, NEW q \in Pumps, NEW d, NEW ix, NEW A, NEW mk, NEW ks, NEW gs, NEW ms,
         NEW B, PassInv(m, q, d, ix, B, mk, ks, gs, ms),
         NEW full \in BOOLEAN, NEW only \in Names,
         NEW again \in Names,
         q.running \/ q.passOk,
         (A = B /\ (q.running \/ A = {})) \/ Insists(m, only, A),
         RequestPersist(m, q, full, only, again)
  PROVE  /\ mem' \in Mems /\ pump' \in Pumps /\ SameSessions(m)
         /\ PassInv(mem', pump', d, ix, A, mk, ks, gs, ms)
         /\ pump'.running \/ (pump' = q /\ A = {} /\ ~HasPendingWork(m))
  <1> DEFINE union == IF only = None THEN q.only
                      ELSE IF q.only = None THEN only ELSE q.only \cup only
             asked == [q EXCEPT !.full = @ \/ full, !.slice = TRUE, !.untilClean = @ \/ full,
                          !.only = union]
             fresh == [asked EXCEPT !.rounds = 0, !.ok = TRUE]
  <1>1. union \in Names
    BY DEF Pumps, Names
  <1>2. /\ only # None => union # None /\ only \subseteq union
        /\ q.only # None => union # None /\ q.only \subseteq union
    <2>1. CASE only = None \/ q.only = None
      BY <2>1
    <2>2. CASE only # None /\ q.only # None
      <3>1. only \in SUBSET Sessions /\ q.only \in SUBSET Sessions
        BY <2>2 DEF Pumps, Names
      <3>2. union = q.only \cup only
        BY <2>2
      <3>3. union # None
        BY <3>1, <3>2, NoSetIsNone
      <3>. QED BY <3>2, <3>3
    <2>. QED BY <2>1, <2>2
  <1> HIDE DEF union
  <1>3. /\ q.full \in BOOLEAN /\ q.untilClean \in BOOLEAN /\ 0 \in 0..MaxRounds
        /\ (q.full \/ full) \in BOOLEAN /\ (q.untilClean \/ full) \in BOOLEAN
    BY StoreAssumption DEF Pumps
  <1>4. /\ asked \in Pumps
        /\ asked.running = q.running /\ asked.slice = TRUE /\ asked.only = union
        /\ asked.stage = q.stage /\ asked.batch = q.batch /\ asked.todo = q.todo
        /\ asked.text = q.text /\ asked.ok = q.ok /\ asked.passOk = q.passOk
        /\ asked.full = (q.full \/ full) /\ asked.untilClean = (q.untilClean \/ full)
    BY <1>1, <1>3 DEF Pumps
  <1>5. /\ fresh \in Pumps
        /\ fresh.running = q.running /\ fresh.slice = TRUE /\ fresh.only = union
        /\ fresh.stage = q.stage /\ fresh.batch = q.batch /\ fresh.todo = q.todo
        /\ fresh.text = q.text /\ fresh.ok = TRUE /\ fresh.passOk = q.passOk
        /\ fresh.full = (q.full \/ full) /\ fresh.untilClean = (q.untilClean \/ full)
    BY <1>1, <1>3 DEF Pumps
  <1>6. RequestPersist(m, q, full, only, again) =
          (IF q.running THEN mem' = m /\ pump' = asked
           ELSE IF ~HasPendingWork(m) THEN mem' = m /\ pump' = q
           ELSE BeginPass(m, fresh, again))
    BY DEF RequestPersist, union
  <1> HIDE DEF asked, fresh
  <1>7. ASSUME NEW p \in Pumps,
               p.running = q.running, p.slice = TRUE, p.only = union, p.stage = q.stage,
               p.batch = q.batch, p.todo = q.todo, p.text = q.text, p.passOk = q.passOk,
               p.full = (q.full \/ full), p.untilClean = (q.untilClean \/ full),
               p.ok = q.ok \/ ~q.running
        PROVE  PassInv(m, p, d, ix, A, mk, ks, gs, ms)
    <2> USE <1>7
    <2>1. \A s : Final(p, ix, s) = Final(q, ix, s)
      BY DEF Final
    <2>2. MemInv(m) /\ StageInv(m, p) /\ DiskInv(m, p, d, ms)
      BY DEF PassInv, StageInv, DiskInv
    <2>3. IndexInv(m, p, d, ix, ms)
      BY <2>1 DEF PassInv, IndexInv
    <2>4. KeptInv(m, p, d, ix, ks) /\ GoneInv(m, p, ix, gs)
      BY <2>1 DEF PassInv, KeptInv, GoneInv
    <2>5. AnswersInv(m, p, ix, A, mk) /\ \A w \in A : w[1] # "create" => w[2] \notin m.listed
      <3>1. CASE A = B /\ q.running
        <4>1. Pend(m, q) => Pend(m, p)
          BY DEF Pend, Again
        <4>2. \A s : Asked(q, s) => Asked(p, s)
          BY <1>2 DEF Asked
        <4>. QED BY <2>1, <3>1, <4>1, <4>2 DEF PassInv, AnswersInv, Again
      <3>2. CASE A = {}
        BY <3>2 DEF AnswersInv
      <3>3. CASE Insists(m, only, A)
        BY <1>2, <3>3 DEF AnswersInv, Pend, Again, Asked, Insists
      <3>. QED BY <3>1, <3>2, <3>3
    <2>. QED BY <2>2, <2>3, <2>4, <2>5 DEF PassInv
  <1>8. CASE q.running
    BY <1>4, <1>6, <1>7, <1>8 DEF SameSessions
  <1>9. CASE ~q.running /\ ~HasPendingWork(m)
    <2>1. mem' = m /\ pump' = q /\ A = {}
      BY <1>6, <1>9 DEF HasPendingWork, Insists
    <2>2. PassInv(m, q, d, ix, A, mk, ks, gs, ms)
      BY <2>1 DEF PassInv, AnswersInv
    <2>. QED BY <1>9, <2>1, <2>2 DEF SameSessions
  <1>10. CASE ~q.running /\ HasPendingWork(m)
    <2>1. BeginPass(m, fresh, again)
      BY <1>6, <1>10
    <2>2. PassInv(m, fresh, d, ix, A, mk, ks, gs, ms)
      BY <1>5, <1>7, <1>10
    <2>3. fresh.stage = "end" /\ fresh.passOk
      BY <1>5, <1>10 DEF PassInv, StageInv
    <2>. QED BY <1>5, <2>1, <2>2, <2>3, PassBegins
  <1>. QED BY <1>8, <1>9, <1>10

LEMMA RequestHeard ==
  ASSUME NEW m \in Mems, NEW q \in Pumps, NEW d, NEW ix, NEW A, NEW mk, NEW ks, NEW gs, NEW ms,
         PassInv(m, q, d, ix, A, mk, ks, gs, ms),
         NEW full \in BOOLEAN, NEW only \in Names,
         NEW again \in Names,
         q.running \/ q.passOk, q.running \/ A = {}, RequestPersist(m, q, full, only, again)
  PROVE  /\ mem' \in Mems /\ pump' \in Pumps /\ SameSessions(m)
         /\ PassInv(mem', pump', d, ix, A, mk, ks, gs, ms)
         /\ pump'.running \/ pump' = q
  <1>1. PICK B : A = B
    OBVIOUS
  <1>2. PassInv(m, q, d, ix, B, mk, ks, gs, ms) /\ (q.running \/ A = {})
    BY <1>1
  <1>3. /\ mem' \in Mems /\ pump' \in Pumps /\ SameSessions(m)
        /\ PassInv(mem', pump', d, ix, A, mk, ks, gs, ms)
        /\ pump'.running \/ (pump' = q /\ A = {} /\ ~HasPendingWork(m))
    BY <1>1, <1>2, Heard
  <1>. QED BY <1>3

-----------------------------------------------------------------------------
(* What a change of the sessions does to the marks, the records and a pass. *)

LEMMA MarkKeeps == \* MarkSessionDirty
  ASSUME NEW m \in Mems, NEW q \in Pumps, NEW d, NEW ix, NEW A, NEW mk, NEW ks, NEW gs, NEW ms,
         PassInv(m, q, d, ix, A, mk, ks, gs, ms), NEW s \in m.known,
         NEW n, n = MarkSessionDirty(m, s)
  PROVE  /\ n \in Mems /\ PassInv(n, q, d, ix, A, mk, ks, gs, ms)
         /\ n.listed = m.listed /\ n.known = m.known /\ n.unpersisted = m.unpersisted
         /\ n.removed = m.removed /\ n.indexDirty = m.indexDirty /\ n.dirty = m.dirty \cup {s}
  <1> DEFINE marks == IF s \in m.dirty THEN m.order ELSE m.order \cup (m.dirty \X {s})
  <1>1. s \in Sessions /\ m.dirty \subseteq Sessions /\ m.order \subseteq Sessions \X Sessions
    BY DEF Mems
  <1>2. marks \subseteq (m.dirty \cup {s}) \X (m.dirty \cup {s}) /\ marks \subseteq Sessions \X Sessions
    BY <1>1 DEF PassInv, MemInv
  <1>3. n = [m EXCEPT !.dirty = @ \cup {s}, !.order = marks]
    BY DEF MarkSessionDirty
  <1> HIDE DEF marks
  <1>4. /\ n \in Mems
        /\ n.listed = m.listed /\ n.known = m.known /\ n.unpersisted = m.unpersisted
        /\ n.removed = m.removed /\ n.indexDirty = m.indexDirty /\ n.dirty = m.dirty \cup {s}
        /\ n.order = marks
    <2>1. m.dirty \cup {s} \in SUBSET Sessions /\ marks \in SUBSET (Sessions \X Sessions)
      BY <1>1, <1>2
    <2>2. n \in Mems
      BY <1>3, <2>1 DEF Mems
    <2>. QED BY <1>3, <2>2 DEF Mems
  <1>5. MemInv(n)
    BY <1>2, <1>4 DEF PassInv, MemInv
  <1>6. StageInv(n, q) /\ DiskInv(n, q, d, ms)
    BY <1>4 DEF PassInv, StageInv, DiskInv
  <1>7. IndexInv(n, q, d, ix, ms)
    BY <1>4 DEF PassInv, IndexInv
  <1>8. AnswersInv(n, q, ix, A, mk) /\ KeptInv(n, q, d, ix, ks) /\ GoneInv(n, q, ix, gs)
    BY <1>4 DEF PassInv, AnswersInv, Pend, KeptInv, GoneInv
  <1>. QED BY <1>4, <1>5, <1>6, <1>7, <1>8 DEF PassInv

\* Copies of a marked session may age.
LEMMA AgedKeeps == \* Aged
  ASSUME NEW m \in Mems, NEW q \in Pumps, NEW d, NEW ix, NEW A, NEW mk, NEW ks, NEW gs, NEW ms,
         PassInv(m, q, d, ix, A, mk, ks, gs, ms),
         NEW s, s \notin m.listed \/ s \in m.dirty,
         d \in [Sessions -> Copies \cup {"none"}],
         NEW p, p = [q EXCEPT !.batch = Aged(@, s)], NEW e, e = Aged(d, s)
  PROVE  /\ p \in Pumps /\ e \in [Sessions -> Copies \cup {"none"}]
         /\ PassInv(m, p, e, ix, A, mk, ks, gs, ms)
         /\ p.running = q.running /\ p.passOk = q.passOk
  <1>1. /\ e \in [Sessions -> Copies \cup {"none"}]
        /\ \A t \in Sessions : (e[t] = "none" <=> d[t] = "none") /\ (t # s => e[t] = d[t])
    BY DEF Aged, Copies
  <1>2. PICK D \in SUBSET Sessions : q.batch \in [D -> Copies]
    BY DEF Pumps, Batches
  <1>3. Aged(q.batch, s) \in [D -> Copies] /\ \A t \in D \ {s} : Aged(q.batch, s)[t] = q.batch[t]
    BY <1>2 DEF Aged, Copies
  <1>4. Aged(q.batch, s) \in Batches
    BY <1>3 DEF Batches
  <1>5. /\ p \in Pumps /\ p.running = q.running /\ p.passOk = q.passOk /\ p.ok = q.ok
        /\ p.stage = q.stage /\ p.text = q.text /\ p.todo = q.todo /\ p.slice = q.slice
        /\ p.full = q.full /\ p.only = q.only /\ p.untilClean = q.untilClean
        /\ p.batch = Aged(q.batch, s)
    BY <1>4 DEF Pumps
  <1>6. /\ DOMAIN p.batch = D /\ DOMAIN q.batch = D
        /\ \A t \in D \ {s} : p.batch[t] = q.batch[t]
    BY <1>2, <1>3, <1>5
  <1>7. StageInv(m, p)
    BY <1>5, <1>6 DEF PassInv, StageInv
  <1>8. \A t : Final(p, ix, t) = Final(q, ix, t)
    BY <1>5 DEF Final
  <1>9. m.listed \subseteq Sessions
    BY DEF Mems
  <1>10. DiskInv(m, p, e, ms)
    BY <1>1, <1>6, <1>9 DEF PassInv, DiskInv
  <1>11. IndexInv(m, p, e, ix, ms)
    BY <1>1, <1>5, <1>8, <1>9 DEF PassInv, IndexInv
  <1>12. AnswersInv(m, p, ix, A, mk)
    BY <1>5, <1>8 DEF PassInv, AnswersInv, Pend, Again, Asked
  <1>13. KeptInv(m, p, e, ix, ks) /\ GoneInv(m, p, ix, gs)
    BY <1>1, <1>8, <1>9 DEF PassInv, KeptInv, GoneInv
  <1>. QED BY <1>1, <1>5, <1>7, <1>10, <1>11, <1>12, <1>13 DEF PassInv

LEMMA DropKeeps == \* Dropped
  ASSUME NEW m \in Mems, NEW q \in Pumps, NEW d, NEW ix, NEW A, NEW mk, NEW ks, NEW gs, NEW ms,
         PassInv(m, q, d, ix, A, mk, ks, gs, ms), NEW s \in m.known,
         NEW n, n = Dropped(m, s)
  PROVE  /\ n \in Mems /\ PassInv(n, q, d, ix, A, mk, ks \ {s}, gs, ms)
         /\ n.listed = m.listed \ {s} /\ n.known = m.known
  <1>1. s \in Sessions
    BY DEF Mems
  <1>2. /\ n \in Mems
        /\ n.listed = m.listed \ {s} /\ n.known = m.known /\ n.dirty = m.dirty \ {s}
        /\ n.order = {o \in m.order : o[1] \notin {s} /\ o[2] \notin {s}}
        /\ n.unpersisted = m.unpersisted \ {s}
        /\ n.removed = m.removed \cup {s} /\ n.indexDirty = m.indexDirty
    BY <1>1 DEF Mems, Dropped, Unmarked
  <1>3. MemInv(n)
    <2>1. n.order \subseteq n.dirty \X n.dirty
      BY <1>2 DEF PassInv, MemInv
    <2>. QED BY <1>2, <2>1 DEF PassInv, MemInv
  <1>4. StageInv(n, q)
    BY <1>2 DEF PassInv, StageInv
  <1>5. DiskInv(n, q, d, ms)
    BY <1>2 DEF PassInv, DiskInv
  <1>6. IndexInv(n, q, d, ix, ms)
    BY <1>2 DEF PassInv, IndexInv
  <1>7. AnswersInv(n, q, ix, A, mk)
    BY <1>2 DEF PassInv, AnswersInv, Pend
  <1>8. KeptInv(n, q, d, ix, ks \ {s}) /\ GoneInv(n, q, ix, gs)
    BY <1>2 DEF PassInv, KeptInv, GoneInv
  <1>. QED BY <1>2, <1>3, <1>4, <1>5, <1>6, <1>7, <1>8 DEF PassInv

LEMMA DueKeeps == \* indexDirty = true
  ASSUME NEW m \in Mems, NEW q \in Pumps, NEW d, NEW ix, NEW A, NEW mk, NEW ks, NEW gs, NEW ms,
         PassInv(m, q, d, ix, A, mk, ks, gs, ms), NEW n, n = [m EXCEPT !.indexDirty = TRUE]
  PROVE  /\ n \in Mems /\ PassInv(n, q, d, ix, A, mk, ks, gs, ms)
         /\ n.listed = m.listed /\ n.known = m.known /\ n.unpersisted = m.unpersisted
         /\ n.dirty = m.dirty /\ n.indexDirty
  <1>1. /\ n \in Mems
        /\ n.listed = m.listed /\ n.known = m.known /\ n.dirty = m.dirty /\ n.order = m.order
        /\ n.unpersisted = m.unpersisted /\ n.removed = m.removed /\ n.indexDirty
    BY DEF Mems
  <1>2. MemInv(n) /\ StageInv(n, q)
    BY <1>1 DEF PassInv, MemInv, StageInv
  <1>3. DiskInv(n, q, d, ms)
    BY <1>1 DEF PassInv, DiskInv
  <1>4. IndexInv(n, q, d, ix, ms)
    BY <1>1 DEF PassInv, IndexInv
  <1>5. AnswersInv(n, q, ix, A, mk)
    BY <1>1 DEF PassInv, AnswersInv, Pend
  <1>6. KeptInv(n, q, d, ix, ks) /\ GoneInv(n, q, ix, gs)
    BY <1>1 DEF PassInv, KeptInv, GoneInv
  <1>. QED BY <1>1, <1>2, <1>3, <1>4, <1>5, <1>6 DEF PassInv

\* A new session is listed without a file: it waits for the pass that comes.
LEMMA EnterKeeps == \* Entered
  ASSUME mem \in Mems, NEW q \in Pumps, NEW d, NEW ix, NEW A, NEW mk, NEW ks, NEW gs, NEW ms,
         PassInv(mem, q, d, ix, A, mk, ks, gs, ms),
         NEW s \in Sessions, s \notin mem.known, ~Named(ix, s), s \notin gs,
         A = {} \/ mk, \A w \in A : w[2] \in mem.known, NEW n, n = Entered(s)
  PROVE  /\ n \in Mems /\ PassInv(n, q, d, ix, A, mk, ks, gs, ms)
         /\ n.listed = mem.listed \cup {s} /\ n.known = mem.known \cup {s}
         /\ n.unpersisted = mem.unpersisted \cup {s} /\ n.indexDirty
         /\ n.dirty = mem.dirty \cup {s}
  <1> DEFINE marks == IF s \in mem.dirty THEN mem.order ELSE mem.order \cup (mem.dirty \X {s})
  <1>1. mem.dirty \subseteq Sessions /\ mem.order \subseteq Sessions \X Sessions
    BY DEF Mems
  <1>2. marks \subseteq (mem.dirty \cup {s}) \X (mem.dirty \cup {s}) /\ marks \subseteq Sessions \X Sessions
    BY <1>1 DEF PassInv, MemInv
  <1>3. n = [mem EXCEPT !.dirty = @ \cup {s}, !.order = marks, !.listed = @ \cup {s},
               !.known = @ \cup {s}, !.unpersisted = @ \cup {s}, !.indexDirty = TRUE]
    BY DEF Entered, MarkSessionDirty
  <1> HIDE DEF marks
  <1>4. /\ n \in Mems
        /\ n.listed = mem.listed \cup {s} /\ n.known = mem.known \cup {s}
        /\ n.unpersisted = mem.unpersisted \cup {s} /\ n.removed = mem.removed
        /\ n.indexDirty /\ n.dirty = mem.dirty \cup {s} /\ n.order = marks
    <2>1. mem.dirty \cup {s} \in SUBSET Sessions /\ marks \in SUBSET (Sessions \X Sessions)
      BY <1>1, <1>2
    <2>2. n \in Mems
      BY <1>3, <2>1 DEF Mems
    <2>. QED BY <1>3, <2>2 DEF Mems
  <1>5. MemInv(n)
    BY <1>2, <1>4 DEF PassInv, MemInv
  <1>6. StageInv(n, q) /\ DiskInv(n, q, d, ms)
    BY <1>4 DEF PassInv, StageInv, DiskInv
  <1>7. ~Final(q, ix, s)
    BY DEF PassInv, StageInv, Final
  <1>8. IndexInv(n, q, d, ix, ms)
    BY <1>4, <1>7 DEF PassInv, IndexInv
  <1>9. AnswersInv(n, q, ix, A, mk) /\ \A w \in A : w[1] # "create" => w[2] \notin n.listed
    BY <1>4 DEF PassInv, AnswersInv
  <1>10. KeptInv(n, q, d, ix, ks) /\ GoneInv(n, q, ix, gs)
    BY <1>4, <1>7 DEF PassInv, KeptInv, GoneInv
  <1>. QED BY <1>4, <1>5, <1>6, <1>8, <1>9, <1>10 DEF PassInv

-----------------------------------------------------------------------------
(* The invariant of the host.                                               *)

\* What was confirmed and is to last, whatever a boot could not read or a
\* failed spawn has hidden.
Lasting == kept \ (unread \cup shadowed)
Ended == gone \ shadowed

Types ==
    /\ up \in BOOLEAN /\ timer \in BOOLEAN /\ wipe \in BOOLEAN /\ masked \in BOOLEAN
    /\ mem \in Mems /\ pump \in Pumps /\ disk \in [Sessions -> Copies \cup {"none"}]
    /\ born \subseteq Sessions /\ mem.known \subseteq born /\ gone \subseteq born
    /\ index = None \/ index \subseteq born
    /\ closing \in {"no", "flushing", "flushed"}
    /\ clearing = None \/ clearing \subseteq mem.known
    /\ events \in 0..MaxEvents

Waiters ==
    /\ waiting \subseteq Routes \X mem.known
    /\ \A w \in waiting : w[1] # "create" => w[2] \notin mem.listed

\* Nobody waits for a pump that rests, and clear-all is not over then.
Rests == pump.running \/ (pump = [Idle EXCEPT !.ok = pump.ok] /\ Answered = {} /\ clearing # {})

Works == PassInv(mem, pump, disk, index, Answered, masked, Lasting, Ended, missed)

\* Without a process, the disk alone keeps the promises.
Down ==
    /\ mem = Blank /\ pump = Idle /\ waiting = {} /\ clearing = None /\ missed = {}
    /\ ~timer /\ closing = "no" /\ ~masked
    /\ \A s \in Lasting : Named(index, s) /\ disk[s] # "none"
    /\ \A s \in Ended : ~Named(index, s)

StInv == Types /\ Waiters /\ Rests /\ (up => Works) /\ (~up => Down)

\* A pump that rests passes for one whose last pass was clean.
LEMMA RestIsClean == StInv => pump.running \/ pump.passOk
  BY DEF StInv, Rests, Idle, Types, Pumps

LEMMA RestAges == ASSUME StInv, ~pump.running, NEW s PROVE AgedPump(s) = pump
  <1>1. pump.batch = NoBatch
    BY DEF StInv, Rests, Idle, Types, Pumps
  <1>2. Aged(pump.batch, s) = pump.batch
    BY <1>1 DEF Aged, NoBatch
  <1>. QED BY <1>2 DEF AgedPump, StInv, Types, Pumps

\* A step that leaves the sessions, the answers and the history alone keeps
\* the invariant if the memory, the pump and the disk go on keeping to it.
LEMMA StepKeeps ==
  ASSUME StInv, up, up', mem' \in Mems, pump' \in Pumps, SameSessions(mem),
         pump'.running \/ pump' = pump,
         PassInv(mem', pump', disk', index', Answered, masked, Lasting, Ended, missed),
         UNCHANGED <<clearing, waiting, born, told, missed>>,
         timer' \in BOOLEAN, wipe' \in BOOLEAN, closing' \in {"no", "flushing", "flushed"},
         disk' \in [Sessions -> Copies \cup {"none"}],
         index' = None \/ index' \subseteq born, events' \in 0..MaxEvents
  PROVE  StInv'
  <1>1. Answered' = Answered /\ Lasting' = Lasting /\ Ended' = Ended
    BY DEF Answered, Lasting, Ended, told
  <1>2. Types' /\ Waiters'
    BY DEF StInv, Types, Waiters, SameSessions, told
  <1>3. Rests'
    BY <1>1 DEF StInv, Rests
  <1>4. Works'
    BY <1>1 DEF Works, told
  <1>. QED BY <1>2, <1>3, <1>4 DEF StInv

LEMMA EventCounts == ASSUME StInv, Event PROVE events' \in 0..MaxEvents
  BY StoreAssumption DEF StInv, Types, Event

LEMMA IdleIsAPump == Idle \in Pumps
  <1>1. NoBatch \in [{} -> Copies]
    BY DEF NoBatch
  <1>2. NoBatch \in Batches /\ 0 \in 0..MaxRounds
    BY <1>1, StoreAssumption DEF Batches
  <1>. QED BY <1>2 DEF Pumps, Idle, Names

LEMMA StartsWell == Init => StInv
  <1>. SUFFICES ASSUME Init PROVE StInv
    OBVIOUS
  <1>1. Blank \in Mems /\ Idle \in Pumps
    BY IdleIsAPump DEF Blank, Mems
  <1>2. mem \in Mems /\ pump \in Pumps
    BY <1>1 DEF Init
  <1>3. Types
    <2>1. mem.known = {} /\ disk \in [Sessions -> Copies \cup {"none"}]
      BY DEF Init, Blank
    <2>2. events \in 0..MaxEvents
      BY StoreAssumption DEF Init
    <2>. QED BY <1>2, <2>1, <2>2 DEF Init, Types
  <1>4. Answered = {} /\ clearing # {}
    BY NoSetIsNone DEF Init, Answered
  <1>5. Waiters /\ Rests
    BY <1>4 DEF Init, Waiters, Rests, Idle
  <1>6. Works
    <2>1. /\ mem.listed = {} /\ mem.known = {} /\ mem.dirty = {} /\ mem.order = {}
          /\ mem.unpersisted = {} /\ mem.removed = {}
      BY DEF Init, Blank
    <2>2. /\ DOMAIN pump.batch = {} /\ pump.stage = "end" /\ pump.todo = {} /\ pump.text = {}
      BY DEF Init, Idle, NoBatch
    <2>3. Lasting = {} /\ Ended = {}
      BY DEF Init, Lasting, Ended
    <2>4. MemInv(mem) /\ StageInv(mem, pump) /\ AnswersInv(mem, pump, index, Answered, masked)
      BY <1>4, <2>1, <2>2 DEF MemInv, StageInv, AnswersInv
    <2>5. DiskInv(mem, pump, disk, missed) /\ IndexInv(mem, pump, disk, index, missed)
      BY <2>1 DEF Init, DiskInv, IndexInv, Named
    <2>. QED BY <1>4, <2>3, <2>4, <2>5 DEF Works, PassInv, KeptInv, GoneInv
  <1>. QED BY <1>3, <1>5, <1>6 DEF StInv, Init

-----------------------------------------------------------------------------
(* The steps of the pump.                                                   *)

LEMMA BatchShrinks ==
  ASSUME pump \in Pumps, NEW s \in DOMAIN pump.batch
  PROVE  /\ BatchWithout(s) \in Batches /\ s \in Sessions /\ pump.batch[s] \in Copies
         /\ DOMAIN BatchWithout(s) = DOMAIN pump.batch \ {s}
         /\ \A t \in DOMAIN pump.batch \ {s} : BatchWithout(s)[t] = pump.batch[t]
  <1>1. PICK D \in SUBSET Sessions : pump.batch \in [D -> Copies]
    BY DEF Pumps, Batches
  <1>2. D \ {s} \in SUBSET Sessions /\ BatchWithout(s) \in [D \ {s} -> Copies]
    BY <1>1 DEF BatchWithout
  <1>. QED BY <1>1, <1>2 DEF BatchWithout, Batches

LEMMA WriteRecordKeeps == ASSUME StInv, NEW s \in Sessions, WriteRecord(s) PROVE StInv'
  <1> DEFINE q == [pump EXCEPT !.batch = BatchWithout(s)]
  <1>1. /\ up /\ pump.running /\ pump.stage = "write" /\ s \in DOMAIN pump.batch
        /\ disk' = [disk EXCEPT ![s] = pump.batch[s]] /\ AfterRecord(mem, q)
        /\ UNCHANGED <<up, timer, closing, clearing, waiting, index, wipe, born, told, missed, events>>
    BY DEF WriteRecord
  <1>2. Types /\ Works
    BY <1>1 DEF StInv
  <1>3. /\ BatchWithout(s) \in Batches /\ pump.batch[s] \in Copies
        /\ DOMAIN BatchWithout(s) = DOMAIN pump.batch \ {s}
        /\ \A t \in DOMAIN pump.batch \ {s} : BatchWithout(s)[t] = pump.batch[t]
    BY <1>1, <1>2, BatchShrinks DEF Types
  <1>4. /\ q \in Pumps /\ q.running /\ q.stage = "write" /\ q.batch = BatchWithout(s)
        /\ q.ok = pump.ok /\ q.passOk = pump.passOk /\ q.slice = pump.slice /\ q.text = pump.text
        /\ q.full = pump.full /\ q.only = pump.only /\ q.untilClean = pump.untilClean
        /\ q.todo = pump.todo
    BY <1>1, <1>2, <1>3 DEF Types, Pumps
  <1> HIDE DEF q
  <1>5. /\ disk' \in [Sessions -> Copies \cup {"none"}] /\ disk'[s] = pump.batch[s]
        /\ \A t \in Sessions \ {s} : disk'[t] = disk[t]
    BY <1>1, <1>2, <1>3 DEF Types
  <1>6. disk'[s] # "none"
    BY <1>3, <1>5 DEF Copies
  <1>7. \A t : Final(q, index, t) = Final(pump, index, t)
    BY <1>1, <1>4 DEF Final
  <1>8. mem.listed \subseteq Sessions
    BY <1>2 DEF Types, Mems
  <1>9. PassInv(mem, q, disk', index, Answered, masked, Lasting, Ended, missed)
    <2>1. MemInv(mem) /\ StageInv(mem, q)
      BY <1>1, <1>2, <1>3, <1>4 DEF Works, PassInv, StageInv
    <2>2. DiskInv(mem, q, disk', missed)
      <3>1. DiskInv(mem, pump, disk, missed)
        BY <1>2 DEF Works, PassInv
      <3>2. \A t \in mem.listed :
              /\ t \in mem.unpersisted \/ t \in DOMAIN q.batch \/ disk'[t] # "none"
              /\ \/ t \in mem.dirty
                 \/ t \in DOMAIN q.batch /\ q.batch[t] = "current"
                 \/ t \notin DOMAIN q.batch /\ disk'[t] = "current"
              /\ t \in mem.unpersisted \/ (t \in DOMAIN q.batch /\ disk'[t] = "none") => mem.indexDirty
        BY <1>1, <1>3, <1>4, <1>5, <1>6, <1>8, <3>1 DEF DiskInv
      <3>3. \A t \in Sessions : t \in mem.listed \/ t \in missed \/ disk'[t] = "none" \/ t \in mem.removed
        BY <1>1, <1>2, <1>5, <3>1 DEF DiskInv, Works, PassInv, StageInv
      <3>. QED BY <3>2, <3>3 DEF DiskInv
    <2>3. IndexInv(mem, q, disk', index, missed)
      BY <1>1, <1>2, <1>4, <1>5, <1>6, <1>7, <1>8 DEF Works, PassInv, IndexInv
    <2>4. AnswersInv(mem, q, index, Answered, masked)
      BY <1>1, <1>2, <1>4, <1>7 DEF Works, PassInv, AnswersInv, Pend, Again, Asked
    <2>5. KeptInv(mem, q, disk', index, Lasting) /\ GoneInv(mem, q, index, Ended)
      BY <1>2, <1>5, <1>6, <1>7, <1>8 DEF Works, PassInv, KeptInv, GoneInv
    <2>. QED BY <1>2, <2>1, <2>2, <2>3, <2>4, <2>5 DEF Works, PassInv
  <1>10. /\ mem' \in Mems /\ pump' \in Pumps /\ pump'.running /\ SameSessions(mem)
         /\ PassInv(mem', pump', disk', index, Answered, masked, Lasting, Ended, missed)
    BY <1>1, <1>2, <1>4, <1>9, PassGoesOn DEF Types
  <1>. QED BY <1>1, <1>2, <1>5, <1>10, StepKeeps DEF Types

LEMMA RecordFailsKeeps == ASSUME StInv, NEW s \in Sessions, RecordFails(s) PROVE StInv'
  <1> DEFINE q == [pump EXCEPT !.batch = BatchWithout(s), !.passOk = FALSE]
             m == Unsaved(s)
  <1>1. /\ up /\ pump.running /\ pump.stage = "write" /\ s \in DOMAIN pump.batch
        /\ Event /\ AfterRecord(m, q)
        /\ UNCHANGED <<up, timer, closing, clearing, waiting, diskVars, wipe, born, told, missed>>
    BY DEF RecordFails
  <1>2. Types /\ Works
    BY <1>1 DEF StInv
  <1>3. /\ BatchWithout(s) \in Batches
        /\ DOMAIN BatchWithout(s) = DOMAIN pump.batch \ {s}
        /\ \A t \in DOMAIN pump.batch \ {s} : BatchWithout(s)[t] = pump.batch[t]
    BY <1>1, <1>2, BatchShrinks DEF Types
  <1>4. /\ q \in Pumps /\ q.running /\ q.stage = "write" /\ q.batch = BatchWithout(s)
        /\ q.passOk = FALSE /\ q.text = pump.text /\ q.todo = pump.todo
    BY <1>1, <1>2, <1>3 DEF Types, Pumps
  <1> HIDE DEF q
  <1>5. /\ m \in Mems /\ MemInv(m) /\ m.listed = mem.listed /\ m.known = mem.known
        /\ m.removed = mem.removed /\ m.indexDirty = mem.indexDirty
        /\ mem.dirty \subseteq m.dirty /\ (s \in mem.listed => s \in m.dirty)
        /\ mem.unpersisted \subseteq m.unpersisted /\ m.unpersisted \subseteq mem.unpersisted \cup {s}
        /\ s \in mem.listed => disk[s] # "none" \/ s \in m.unpersisted
        /\ s \in m.unpersisted => disk[s] = "none" \/ s \in mem.unpersisted
    <2>1. CASE s \notin mem.listed
      BY <1>2, <2>1 DEF Unsaved, Works, PassInv, MemInv, Types
    <2>2. CASE s \in mem.listed
      <3> DEFINE n == MarkSessionDirty(mem, s)
                 without == IF disk[s] = "none" THEN n.unpersisted \cup {s} ELSE n.unpersisted
      <3>1. s \in mem.known
        BY <1>2, <2>2 DEF Works, PassInv, MemInv
      <3>2. PassInv(mem, pump, disk, index, Answered, masked, Lasting, Ended, missed)
        BY <1>2 DEF Works
      <3>3. /\ n \in Mems /\ PassInv(n, pump, disk, index, Answered, masked, Lasting, Ended, missed)
            /\ n.listed = mem.listed /\ n.known = mem.known /\ n.unpersisted = mem.unpersisted
            /\ n.removed = mem.removed /\ n.indexDirty = mem.indexDirty /\ n.dirty = mem.dirty \cup {s}
        BY <1>2, <3>1, <3>2, MarkKeeps DEF Types
      <3>4. m = [n EXCEPT !.unpersisted = without]
        BY <2>2 DEF Unsaved
      <3> HIDE DEF n
      <3>5. without \in SUBSET Sessions
        BY <3>3 DEF Mems
      <3> HIDE DEF without, m
      <3>6. /\ m \in Mems /\ m.listed = n.listed /\ m.known = n.known /\ m.removed = n.removed
            /\ m.indexDirty = n.indexDirty /\ m.dirty = n.dirty /\ m.order = n.order
            /\ m.unpersisted = without
        BY <3>3, <3>4, <3>5 DEF Mems
      <3>. QED BY <2>2, <3>3, <3>6 DEF PassInv, MemInv, without
    <2>. QED BY <2>1, <2>2
  <1> HIDE DEF m
  <1>6. \A t : Final(q, index, t) = Final(pump, index, t)
    BY <1>1, <1>4 DEF Final
  <1>7. PassInv(m, q, disk, index, Answered, masked, Lasting, Ended, missed)
    <2>1. StageInv(m, q)
      BY <1>1, <1>2, <1>3, <1>4, <1>5 DEF Works, PassInv, StageInv
    <2>2. DiskInv(m, q, disk, missed)
      <3>1. DiskInv(mem, pump, disk, missed)
        BY <1>2 DEF Works, PassInv
      <3>. QED BY <1>1, <1>3, <1>4, <1>5, <3>1 DEF DiskInv
    <2>3. IndexInv(m, q, disk, index, missed)
      BY <1>1, <1>2, <1>4, <1>5, <1>6 DEF Works, PassInv, IndexInv
    <2>4. AnswersInv(m, q, index, Answered, masked)
      BY <1>4 DEF AnswersInv
    <2>5. KeptInv(m, q, disk, index, Lasting) /\ GoneInv(m, q, index, Ended)
      BY <1>2, <1>5, <1>6 DEF Works, PassInv, KeptInv, GoneInv
    <2>. QED BY <1>2, <1>5, <2>1, <2>2, <2>3, <2>4, <2>5 DEF Works, PassInv
  <1>8. /\ mem' \in Mems /\ pump' \in Pumps /\ pump'.running /\ SameSessions(m)
        /\ PassInv(mem', pump', disk, index, Answered, masked, Lasting, Ended, missed)
    BY <1>1, <1>4, <1>5, <1>7, PassGoesOn
  <1>9. SameSessions(mem)
    BY <1>5, <1>8 DEF SameSessions
  <1>10. disk' = disk /\ index' = index /\ events' \in 0..MaxEvents
    BY <1>1, EventCounts DEF diskVars
  <1>. QED BY <1>1, <1>2, <1>8, <1>9, <1>10, StepKeeps DEF Types

LEMMA RemoveRecordKeeps == ASSUME StInv, NEW s \in Sessions, RemoveRecord(s) PROVE StInv'
  <1> DEFINE q == [pump EXCEPT !.todo = @ \ {s}]
             m == [mem EXCEPT !.removed = @ \ {s}]
  <1>1. /\ up /\ pump.running /\ pump.stage = "rm" /\ s \in pump.todo
        /\ disk' = [disk EXCEPT ![s] = "none"] /\ AfterRemoval(m, q)
        /\ UNCHANGED <<up, timer, closing, clearing, waiting, index, wipe, born, told, missed, events>>
    BY DEF RemoveRecord
  <1>2. Types /\ Works
    BY <1>1 DEF StInv
  <1>3. /\ q \in Pumps /\ q.running /\ q.stage = "rm" /\ q.batch = pump.batch
        /\ q.ok = pump.ok /\ q.passOk = pump.passOk /\ q.slice = pump.slice /\ q.text = pump.text
        /\ q.full = pump.full /\ q.only = pump.only /\ q.untilClean = pump.untilClean
        /\ q.todo = pump.todo \ {s}
    BY <1>1, <1>2 DEF Types, Pumps
  <1>4. /\ m \in Mems /\ m.listed = mem.listed /\ m.known = mem.known /\ m.dirty = mem.dirty
        /\ m.order = mem.order /\ m.unpersisted = mem.unpersisted
        /\ m.indexDirty = mem.indexDirty /\ m.removed = mem.removed \ {s}
    BY <1>2 DEF Types, Mems
  <1> HIDE DEF q, m
  <1>5. s \in mem.removed /\ s \notin mem.listed /\ DOMAIN pump.batch = {}
    BY <1>1, <1>2 DEF Works, PassInv, MemInv, StageInv
  <1>6. /\ disk' \in [Sessions -> Copies \cup {"none"}] /\ disk'[s] = "none"
        /\ \A t \in Sessions \ {s} : disk'[t] = disk[t]
    BY <1>1, <1>2 DEF Types
  <1>7. \A t : Final(q, index, t) = Final(pump, index, t)
    BY <1>1, <1>3 DEF Final
  <1>8. mem.listed \subseteq Sessions
    BY <1>2 DEF Types, Mems
  <1>9. PassInv(m, q, disk', index, Answered, masked, Lasting, Ended, missed)
    <2>1. MemInv(m) /\ StageInv(m, q)
      BY <1>1, <1>2, <1>3, <1>4, <1>5 DEF Works, PassInv, MemInv, StageInv
    <2>2. DiskInv(m, q, disk', missed)
      BY <1>2, <1>3, <1>4, <1>5, <1>6, <1>8 DEF Works, PassInv, DiskInv
    <2>3. IndexInv(m, q, disk', index, missed)
      BY <1>2, <1>3, <1>4, <1>5, <1>6, <1>7, <1>8 DEF Works, PassInv, IndexInv
    <2>4. AnswersInv(m, q, index, Answered, masked)
      BY <1>1, <1>2, <1>3, <1>4, <1>7 DEF Works, PassInv, AnswersInv, Pend, Again, Asked
    <2>5. KeptInv(m, q, disk', index, Lasting) /\ GoneInv(m, q, index, Ended)
      BY <1>2, <1>4, <1>5, <1>6, <1>7, <1>8 DEF Works, PassInv, KeptInv, GoneInv
    <2>. QED BY <1>2, <1>4, <2>1, <2>2, <2>3, <2>4, <2>5 DEF Works, PassInv
  <1>10. /\ mem' \in Mems /\ pump' \in Pumps /\ pump'.running /\ SameSessions(m)
         /\ PassInv(mem', pump', disk', index, Answered, masked, Lasting, Ended, missed)
    BY <1>1, <1>3, <1>4, <1>9, RemovalsGoOn
  <1>11. SameSessions(mem)
    BY <1>4, <1>10 DEF SameSessions
  <1>. QED BY <1>1, <1>2, <1>6, <1>10, <1>11, StepKeeps DEF Types

LEMMA RemovalFailsKeeps == ASSUME StInv, NEW s \in Sessions, RemovalFails(s) PROVE StInv'
  <1> DEFINE q == [pump EXCEPT !.todo = @ \ {s}, !.passOk = FALSE]
  <1>1. /\ up /\ pump.running /\ pump.stage = "rm" /\ s \in pump.todo
        /\ Event /\ AfterRemoval(mem, q)
        /\ UNCHANGED <<up, timer, closing, clearing, waiting, diskVars, wipe, born, told, missed>>
    BY DEF RemovalFails
  <1>2. Types /\ Works
    BY <1>1 DEF StInv
  <1>3. /\ q \in Pumps /\ q.running /\ q.stage = "rm" /\ q.batch = pump.batch
        /\ q.passOk = FALSE /\ q.text = pump.text /\ q.todo = pump.todo \ {s}
    BY <1>1, <1>2 DEF Types, Pumps
  <1> HIDE DEF q
  <1>4. \A t : Final(q, index, t) = Final(pump, index, t)
    BY <1>1, <1>3 DEF Final
  <1>5. PassInv(mem, q, disk, index, Answered, masked, Lasting, Ended, missed)
    <2>1. StageInv(mem, q) /\ AnswersInv(mem, q, index, Answered, masked)
      BY <1>1, <1>2, <1>3 DEF Works, PassInv, StageInv, AnswersInv
    <2>2. DiskInv(mem, q, disk, missed) /\ IndexInv(mem, q, disk, index, missed)
      BY <1>1, <1>2, <1>3, <1>4 DEF Works, PassInv, DiskInv, IndexInv
    <2>3. KeptInv(mem, q, disk, index, Lasting) /\ GoneInv(mem, q, index, Ended)
      BY <1>2, <1>4 DEF Works, PassInv, KeptInv, GoneInv
    <2>. QED BY <1>2, <2>1, <2>2, <2>3 DEF Works, PassInv
  <1>6. /\ mem' \in Mems /\ pump' \in Pumps /\ pump'.running /\ SameSessions(mem)
        /\ PassInv(mem', pump', disk, index, Answered, masked, Lasting, Ended, missed)
    BY <1>1, <1>2, <1>3, <1>5, RemovalsGoOn DEF Types
  <1>7. disk' = disk /\ index' = index /\ events' \in 0..MaxEvents
    BY <1>1, EventCounts DEF diskVars
  <1>. QED BY <1>1, <1>2, <1>6, <1>7, StepKeeps DEF Types

LEMMA WriteIndexKeeps == ASSUME StInv, WriteIndex PROVE StInv'
  <1>1. /\ up /\ pump.running /\ pump.stage = "index" /\ index' = pump.text
        /\ pump' = [pump EXCEPT !.stage = "end", !.text = {}]
        /\ UNCHANGED <<up, mem, timer, closing, clearing, waiting, disk, wipe, born, told, missed, events>>
    BY DEF WriteIndex
  <1>2. Types /\ Works
    BY <1>1 DEF StInv
  <1>3. /\ pump' \in Pumps /\ pump'.running /\ pump'.stage = "end" /\ pump'.batch = pump.batch
        /\ pump'.ok = pump.ok /\ pump'.passOk = pump.passOk /\ pump'.slice = pump.slice
        /\ pump'.full = pump.full /\ pump'.only = pump.only /\ pump'.untilClean = pump.untilClean
        /\ pump'.todo = pump.todo /\ pump'.text = {}
    BY <1>1, <1>2 DEF Types, Pumps
  <1>4. index' \subseteq mem.known /\ index' # None
    BY <1>1, <1>2, NoSetIsNone DEF Types, Pumps, Works, PassInv, StageInv
  <1>5. \A t : /\ Final(pump', index', t) = Final(pump, index, t)
               /\ Named(index', t) = Final(pump, index, t)
    BY <1>1, <1>3, <1>4 DEF Final, Named
  <1>6. PassInv(mem, pump', disk, index', Answered, masked, Lasting, Ended, missed)
    <2>1. StageInv(mem, pump')
      BY <1>1, <1>2, <1>3 DEF Works, PassInv, StageInv
    <2>2. DiskInv(mem, pump', disk, missed)
      BY <1>2, <1>3 DEF Works, PassInv, DiskInv
    <2>3. IndexInv(mem, pump', disk, index', missed)
      BY <1>1, <1>2, <1>3, <1>4, <1>5 DEF Works, PassInv, IndexInv, Named
    <2>4. AnswersInv(mem, pump', index', Answered, masked)
      BY <1>1, <1>2, <1>3, <1>5 DEF Works, PassInv, AnswersInv, Pend, Again, Asked
    <2>5. KeptInv(mem, pump', disk, index', Lasting) /\ GoneInv(mem, pump', index', Ended)
      BY <1>2, <1>5 DEF Works, PassInv, KeptInv, GoneInv
    <2>. QED BY <1>2, <2>1, <2>2, <2>3, <2>4, <2>5 DEF Works, PassInv
  <1>7. index' \subseteq born /\ SameSessions(mem)
    BY <1>1, <1>2, <1>4 DEF Types, SameSessions
  <1>. QED BY <1>1, <1>2, <1>3, <1>6, <1>7, StepKeeps DEF Types

LEMMA IndexFailsKeeps == ASSUME StInv, IndexFails PROVE StInv'
  <1>1. /\ up /\ pump.running /\ pump.stage = "index" /\ Event
        /\ mem' = [mem EXCEPT !.indexDirty = TRUE]
        /\ pump' = [pump EXCEPT !.stage = "end", !.text = {}, !.passOk = FALSE]
        /\ UNCHANGED <<up, timer, closing, clearing, waiting, diskVars, wipe, born, told, missed>>
    BY DEF IndexFails
  <1>2. Types /\ Works
    BY <1>1 DEF StInv
  <1>3. /\ pump' \in Pumps /\ pump'.running /\ pump'.stage = "end" /\ pump'.batch = pump.batch
        /\ pump'.passOk = FALSE /\ pump'.todo = pump.todo /\ pump'.text = {}
    BY <1>1, <1>2 DEF Types, Pumps
  <1>4. /\ mem' \in Mems /\ SameSessions(mem) /\ mem'.indexDirty
        /\ PassInv(mem', pump, disk, index, Answered, masked, Lasting, Ended, missed)
    BY <1>1, <1>2, DueKeeps DEF Types, Works, SameSessions
  <1>5. \A t : Final(pump', index, t) = Named(index, t)
    BY <1>3 DEF Final
  <1>6. PassInv(mem', pump', disk, index, Answered, masked, Lasting, Ended, missed)
    <2>1. StageInv(mem', pump') /\ AnswersInv(mem', pump', index, Answered, masked)
      BY <1>1, <1>3, <1>4 DEF PassInv, StageInv, AnswersInv
    <2>2. DiskInv(mem', pump', disk, missed) /\ IndexInv(mem', pump', disk, index, missed)
      BY <1>3, <1>4, <1>5 DEF PassInv, DiskInv, IndexInv
    <2>3. KeptInv(mem', pump', disk, index, Lasting) /\ GoneInv(mem', pump', index, Ended)
      BY <1>4, <1>5 DEF PassInv, KeptInv, GoneInv
    <2>. QED BY <1>4, <2>1, <2>2, <2>3 DEF PassInv
  <1>7. disk' = disk /\ index' = index /\ events' \in 0..MaxEvents
    BY <1>1, EventCounts DEF diskVars
  <1>. QED BY <1>1, <1>2, <1>3, <1>4, <1>6, <1>7, StepKeeps DEF Types

\* The pump stops: what its answers rest on now holds on disk, unless a pass
\* failed, and then they promise nothing.
LEMMA EndPassKeeps == ASSUME StInv, EndPass PROVE StInv'
  <1> DEFINE ok == pump.ok /\ pump.passOk
             q == [pump EXCEPT !.ok = ok]
  <1>1. /\ up /\ pump.running /\ pump.stage = "end"
        /\ UNCHANGED <<up, diskVars, born, missed, events>>
    BY DEF EndPass
  <1>2. Types /\ Works
    BY <1>1 DEF StInv
  <1>3. disk' = disk /\ index' = index
    BY <1>1 DEF diskVars
  <1>4. ok \in BOOLEAN
    BY <1>2 DEF Types, Pumps
  <1>5. CASE GoesOn
    <2>1. /\ BeginPass(mem, q, None)
          /\ UNCHANGED <<timer, closing, clearing, waiting, wipe, told>>
      BY <1>5 DEF EndPass
    <2>2. /\ q \in Pumps /\ q.running /\ q.stage = "end" /\ q.batch = pump.batch
          /\ q.ok = ok /\ q.passOk = pump.passOk /\ q.slice = pump.slice
          /\ q.full = pump.full /\ q.only = pump.only /\ q.untilClean = pump.untilClean
          /\ q.todo = pump.todo /\ q.text = pump.text
      BY <1>1, <1>2, <1>4 DEF Types, Pumps
    <2>3. ok => pump.ok /\ pump.passOk
      OBVIOUS
    <2>4. q.passOk \/ ~q.ok
      BY <2>2
    <2> HIDE DEF q, ok
    <2>5. \A t : Final(q, index, t) = Final(pump, index, t)
      BY <1>1, <2>2 DEF Final
    <2>6. PassInv(mem, q, disk, index, Answered, masked, Lasting, Ended, missed)
      <3>1. StageInv(mem, q) /\ DiskInv(mem, q, disk, missed)
        BY <1>1, <1>2, <2>2 DEF Works, PassInv, StageInv, DiskInv
      <3>2. IndexInv(mem, q, disk, index, missed)
        BY <1>1, <1>2, <2>2, <2>5 DEF Works, PassInv, IndexInv
      <3>3. AnswersInv(mem, q, index, Answered, masked)
        BY <1>1, <1>2, <2>2, <2>3, <2>5 DEF Works, PassInv, AnswersInv, Pend, Again, Asked
      <3>4. KeptInv(mem, q, disk, index, Lasting) /\ GoneInv(mem, q, index, Ended)
        BY <1>2, <2>5 DEF Works, PassInv, KeptInv, GoneInv
      <3>. QED BY <1>2, <3>1, <3>2, <3>3, <3>4 DEF Works, PassInv
    <2>7. /\ mem' \in Mems /\ pump' \in Pumps /\ pump'.running /\ SameSessions(mem)
          /\ PassInv(mem', pump', disk, index, Answered, masked, Lasting, Ended, missed)
      <3>1. None \in Names
        BY DEF Names
      <3>. QED BY <1>2, <2>1, <2>2, <2>4, <2>6, <3>1, PassBegins DEF Types
    <2>. QED BY <1>1, <1>2, <1>3, <2>1, <2>7, StepKeeps DEF Types
  <1>6. CASE ~GoesOn
    <2> DEFINE leftover == HasPendingWork(mem)
    <2>1. /\ pump' = [Idle EXCEPT !.ok = ok]
          /\ timer' = (timer \/ (leftover /\ (pump.fullPass \/ ok)))
          /\ closing' = IF closing = "flushing" THEN "flushed" ELSE closing
          /\ Answers(ok) /\ ClearAnswered(ok) /\ UNCHANGED mem
      BY <1>6 DEF EndPass
    <2>2. ~Again(pump)
      BY <1>6 DEF GoesOn, Again
    <2>3. /\ gone' = gone \cup {s \in Sessions : ok /\ <<"close", s>> \in Answered}
                          \cup {s \in Sessions : ok /\ <<"clear", s>> \in Answered}
          /\ kept' = kept \cup ({s \in Sessions : ok /\ <<"create", s>> \in Answered} \cap mem.listed)
          /\ shadowed' = IF masked
                         THEN shadowed \cup {s \in Sessions : ok /\ <<"close", s>> \in Answered}
                                       \cup {s \in Sessions : ok /\ <<"clear", s>> \in Answered}
                                       \cup {s \in Sessions : ok /\ <<"create", s>> \in Answered}
                         ELSE shadowed
          /\ waiting' = waiting \ Answered /\ masked' = FALSE /\ unread' = unread
      BY <2>1 DEF Answers
    <2>4. /\ pump' \in Pumps /\ ~pump'.running /\ pump'.stage = "end" /\ DOMAIN pump'.batch = {}
          /\ pump'.todo = {} /\ pump'.text = {} /\ pump' = [Idle EXCEPT !.ok = pump'.ok]
      <3> HIDE DEF ok
      <3>3. pump' \in Pumps
        BY <1>4, <2>1, IdleIsAPump DEF Pumps
      <3>4. /\ ~pump'.running /\ pump'.stage = "end" /\ pump'.batch = NoBatch
            /\ pump'.todo = {} /\ pump'.text = {} /\ pump'.ok = ok
        BY <2>1 DEF Idle
      <3>. QED BY <2>1, <3>3, <3>4 DEF NoBatch
    <2>5. Answered' = {} /\ clearing' # {}
      <3>1. CASE clearing = {}
        <4>1. clearing' = None
          BY <2>1, <3>1 DEF ClearAnswered
        <4>2. waiting' = {}
          BY <2>3, <3>1 DEF Answered
        <4>. QED BY <4>1, <4>2, NoSetIsNone DEF Answered
      <3>2. CASE clearing # {}
        <4>1. clearing' = clearing
          BY <2>1, <3>2 DEF ClearAnswered
        <4>2. \A w \in waiting' : w[1] = "clear"
          BY <2>3 DEF Answered
        <4>. QED BY <3>2, <4>1, <4>2 DEF Answered
      <3>. QED BY <3>1, <3>2
    <2>6. Rests'
      BY <2>4, <2>5 DEF Rests
    <2>7. Waiters'
      BY <2>1, <2>3 DEF StInv, Waiters
    <2>8. gone' \subseteq born
      BY <1>2, <2>3 DEF StInv, Waiters, Types, Answered
    <2>9. Types'
      <3>1. timer' \in BOOLEAN /\ wipe' \in BOOLEAN /\ clearing' \in {clearing, None}
        BY <1>2, <1>4, <2>1 DEF Types, ClearAnswered
      <3>2. closing' \in {"no", "flushing", "flushed"} /\ masked' = FALSE
        BY <1>2, <2>1, <2>3 DEF Types
      <3>. QED BY <1>1, <1>2, <1>3, <2>1, <2>4, <2>8, <3>1, <3>2 DEF Types
    <2>10. \A t : Final(pump, index, t) = Named(index, t) /\ Final(pump', index, t) = Named(index, t)
      BY <1>1, <2>4 DEF Final
    <2>11. ASSUME ok, ~masked, NEW w \in Answered
           PROVE  \/ w[1] = "create" /\ (w[2] \in mem.listed => Named(index, w[2]))
                  \/ w[1] # "create" /\ w[2] \notin mem.listed /\ ~Named(index, w[2])
      <3>1. ~Pend(mem, pump)
        BY <1>1, <2>2 DEF Pend
      <3>2. w[1] # "create" => w[2] \notin mem.listed
        BY <1>2, <2>11 DEF Works, PassInv
      <3>3. \/ w[1] = "create" /\ (w[2] \in mem.listed => Final(pump, index, w[2]))
            \/ w[1] # "create" /\ ~Final(pump, index, w[2])
        BY <1>2, <2>11, <3>1 DEF Works, PassInv, AnswersInv
      <3>. QED BY <2>10, <3>2, <3>3
    <2>12. ASSUME NEW s \in Lasting'
           PROVE  s \in mem.listed /\ Named(index, s) /\ disk[s] # "none"
      <3>1. CASE s \in Lasting
        BY <1>2, <3>1 DEF Works, PassInv, KeptInv
      <3>2. CASE s \notin Lasting
        <4>1. s \in Sessions /\ ok /\ ~masked /\ <<"create", s>> \in Answered /\ s \in mem.listed
          BY <2>3, <2>12, <3>2 DEF Lasting
        <4>2. Named(index, s)
          BY <2>11, <4>1
        <4>. QED BY <1>2, <4>1, <4>2 DEF Works, PassInv, IndexInv
      <3>. QED BY <3>1, <3>2
    <2>13. ASSUME NEW s \in Ended' PROVE s \notin mem.listed /\ ~Named(index, s)
      <3>1. CASE s \in Ended
        BY <1>2, <3>1 DEF Works, PassInv, GoneInv
      <3>2. CASE s \notin Ended
        <4>1. s \in Sessions /\ ok /\ ~masked /\ \E r \in {"close", "clear"} : <<r, s>> \in Answered
          BY <2>3, <2>13, <3>2 DEF Ended
        <4>. QED BY <2>11, <4>1
      <3>. QED BY <3>1, <3>2
    <2>14. Works'
      <3>1. StageInv(mem, pump') /\ AnswersInv(mem, pump', index, {}, masked')
        BY <2>4 DEF StageInv, AnswersInv
      <3>2. DOMAIN pump.batch = {}
        BY <1>1, <1>2 DEF Works, PassInv, StageInv
      <3>3. DiskInv(mem, pump', disk, missed)
        BY <1>2, <2>4, <3>2 DEF Works, PassInv, DiskInv
      <3>4. IndexInv(mem, pump', disk, index, missed)
        BY <1>1, <1>2, <2>4, <2>10 DEF Works, PassInv, IndexInv
      <3>5. KeptInv(mem, pump', disk, index, Lasting') /\ GoneInv(mem, pump', index, Ended')
        BY <2>10, <2>12, <2>13 DEF KeptInv, GoneInv
      <3>6. PassInv(mem, pump', disk, index, {}, masked', Lasting', Ended', missed)
        BY <1>2, <3>1, <3>3, <3>4, <3>5 DEF Works, PassInv
      <3>. QED BY <1>1, <1>3, <2>1, <2>5, <3>6 DEF Works
    <2>. QED BY <1>1, <2>6, <2>7, <2>9, <2>14 DEF StInv
  <1>. QED BY <1>5, <1>6

-----------------------------------------------------------------------------
(* Requests, output and the timer.                                          *)

LEMMA OutputKeeps == ASSUME StInv, NEW s \in Sessions, Output(s) PROVE StInv'
  <1>1. /\ up /\ s \in mem.known /\ mem' = MarkSessionDirty(mem, s)
        /\ pump' = AgedPump(s) /\ disk' = Aged(disk, s) /\ timer' = TRUE
        /\ UNCHANGED <<up, closing, clearing, waiting, index, wipe, born, told, missed>>
    BY DEF Output, Serving
  <1>2. events' \in 0..MaxEvents
    BY EventCounts DEF Output, StInv, Types
  <1>3. Types /\ Works
    BY <1>1 DEF StInv
  <1>4. /\ mem' \in Mems /\ s \in mem'.dirty /\ SameSessions(mem)
        /\ PassInv(mem', pump, disk, index, Answered, masked, Lasting, Ended, missed)
    BY <1>1, <1>3, MarkKeeps DEF Types, Works, SameSessions
  <1>5. /\ pump' \in Pumps /\ disk' \in [Sessions -> Copies \cup {"none"}]
        /\ PassInv(mem', pump', disk', index, Answered, masked, Lasting, Ended, missed)
        /\ pump'.running = pump.running
    BY <1>1, <1>3, <1>4, AgedKeeps DEF Types, AgedPump
  <1>6. pump'.running \/ pump' = pump
    BY <1>1, <1>5, RestAges
  <1>. QED BY <1>1, <1>2, <1>3, <1>4, <1>5, <1>6, StepKeeps DEF Types

LEMMA ChangedKeeps == ASSUME StInv, NEW s \in Sessions, Changed(s) PROVE StInv'
  <1> DEFINE m == MarkSessionDirty(mem, s)
             q == AgedPump(s)
             only == {s} \cup Unwritten(m)
  <1>1. /\ up /\ s \in mem.known /\ Event
        /\ RequestPersist(m, q, FALSE, only, None) /\ disk' = Aged(disk, s)
        /\ UNCHANGED <<up, timer, closing, clearing, waiting, index, wipe, born, told, missed>>
    BY DEF Changed
  <1>2. Types /\ Works
    BY <1>1 DEF StInv
  <1>3. /\ m \in Mems /\ s \in m.dirty /\ m.listed = mem.listed /\ m.known = mem.known
        /\ PassInv(m, pump, disk, index, Answered, masked, Lasting, Ended, missed)
    BY <1>1, <1>2, MarkKeeps DEF Types, Works
  <1> HIDE DEF m
  <1>4. /\ q \in Pumps /\ disk' \in [Sessions -> Copies \cup {"none"}]
        /\ PassInv(m, q, disk', index, Answered, masked, Lasting, Ended, missed)
        /\ q.running = pump.running /\ q.passOk = pump.passOk
    BY <1>1, <1>2, <1>3, AgedKeeps DEF Types, AgedPump
  <1>5. ~pump.running => q = pump
    BY RestAges
  <1> HIDE DEF q
  <1>6. only \in Names
    BY <1>3 DEF Unwritten, Mems, Names
  <1>7. q.running \/ q.passOk
    BY <1>4, RestIsClean
  <1>8. q.running \/ Answered = {}
    BY <1>4 DEF StInv, Rests
  <1> HIDE DEF only
  <1>9. /\ mem' \in Mems /\ pump' \in Pumps /\ SameSessions(m)
        /\ PassInv(mem', pump', disk', index, Answered, masked, Lasting, Ended, missed)
        /\ pump'.running \/ pump' = q
    <2>1. None \in Names /\ FALSE \in BOOLEAN
      BY DEF Names
    <2>. QED BY <1>1, <1>3, <1>4, <1>6, <1>7, <1>8, <2>1, RequestHeard
  <1>10. SameSessions(mem)
    BY <1>3, <1>9 DEF SameSessions
  <1>11. pump'.running \/ pump' = pump
    <2>1. CASE pump.running /\ pump' = q
      BY <1>4, <2>1
    <2>. QED BY <1>5, <1>9, <2>1
  <1>12. events' \in 0..MaxEvents
    BY <1>1, EventCounts
  <1>. QED BY <1>1, <1>2, <1>4, <1>9, <1>10, <1>11, <1>12, StepKeeps DEF Types

LEMMA ThemeKeeps == ASSUME StInv, Theme PROVE StInv'
  <1>1. /\ up /\ Event /\ mem' = [mem EXCEPT !.indexDirty = TRUE] /\ timer' = TRUE
        /\ UNCHANGED <<up, pump, closing, clearing, waiting, diskVars, wipe, born, told, missed>>
    BY DEF Theme, Serving
  <1>2. Types /\ Works
    BY <1>1 DEF StInv
  <1>3. /\ mem' \in Mems /\ SameSessions(mem)
        /\ PassInv(mem', pump, disk, index, Answered, masked, Lasting, Ended, missed)
    BY <1>1, <1>2, DueKeeps DEF Types, Works, SameSessions
  <1>4. disk' = disk /\ index' = index /\ events' \in 0..MaxEvents
    BY <1>1, EventCounts DEF diskVars
  <1>. QED BY <1>1, <1>2, <1>3, <1>4, StepKeeps DEF Types

\* The timer's callback and close() ask for what is marked, and nobody waits.
LEMMA AskingKeeps ==
  ASSUME StInv, up, NEW full \in BOOLEAN, RequestPersist(mem, pump, full, None, None)
  PROVE  /\ mem' \in Mems /\ pump' \in Pumps /\ SameSessions(mem)
         /\ PassInv(mem', pump', disk, index, Answered, masked, Lasting, Ended, missed)
         /\ pump'.running \/ pump' = pump
  <1>1. Types /\ Works
    BY DEF StInv
  <1>2. pump.running \/ Answered = {}
    BY DEF StInv, Rests
  <1>3. mem \in Mems /\ pump \in Pumps
    BY <1>1 DEF Types
  <1>4. PassInv(mem, pump, disk, index, Answered, masked, Lasting, Ended, missed)
    BY <1>1 DEF Works
  <1>5. pump.running \/ pump.passOk
    BY RestIsClean
  <1> DEFINE only == None
  <1>6. only \in Names /\ RequestPersist(mem, pump, full, only, only)
    BY DEF Names
  <1> HIDE DEF only
  <1>. QED BY <1>2, <1>3, <1>4, <1>5, <1>6, RequestHeard

LEMMA TimerFiresKeeps == ASSUME StInv, TimerFires PROVE StInv'
  <1>1. /\ up /\ timer' = FALSE /\ RequestPersist(mem, pump, FALSE, None, None)
        /\ UNCHANGED <<up, closing, clearing, waiting, diskVars, wipe, born, told, missed, events>>
    BY DEF TimerFires
  <1>2. disk' = disk /\ index' = index
    BY <1>1 DEF diskVars
  <1>. QED BY <1>1, <1>2, AskingKeeps, StepKeeps DEF StInv, Types

LEMMA ShutdownKeeps == ASSUME StInv, Shutdown PROVE StInv'
  <1>1. /\ up /\ Event /\ timer' = FALSE /\ RequestPersist(mem, pump, TRUE, None, None)
        /\ closing' \in {"no", "flushing", "flushed"}
        /\ UNCHANGED <<up, clearing, waiting, diskVars, wipe, born, told, missed>>
    BY DEF Shutdown, Serving
  <1>2. disk' = disk /\ index' = index /\ events' \in 0..MaxEvents
    BY <1>1, EventCounts DEF diskVars
  <1>. QED BY <1>1, <1>2, AskingKeeps, StepKeeps DEF StInv, Types

\* A request that waits for the pump has the index due, and asks for what has
\* no file.
LEMMA WaitingKeeps ==
  ASSUME StInv, up, up', NEW m \in Mems, NEW q \in Pumps, NEW B,
         PassInv(m, q, disk', index, B, masked, Lasting', Ended', missed),
         m.indexDirty, q.running \/ q.passOk,
         NEW only \in SUBSET Sessions, m.unpersisted \subseteq only,
         NEW again \in Names,
         RequestPersist(m, q, FALSE, only, again),
         waiting' \subseteq Routes \X m.known,
         \A w \in waiting' : w[1] # "create" => w[2] \notin m.listed,
         born' \subseteq Sessions, born \subseteq born', m.known \subseteq born',
         clearing' = None \/ clearing' \subseteq m.known,
         disk' \in [Sessions -> Copies \cup {"none"}], events' \in 0..MaxEvents,
         UNCHANGED <<timer, closing, index, wipe, gone, masked, missed>>
  PROVE  StInv'
  <1>1. Insists(m, only, Answered')
    BY NoSetIsNone DEF Answered, Insists
  <1>2. only # None /\ only \in Names /\ HasPendingWork(m)
    BY NoSetIsNone DEF HasPendingWork, Names
  <1>3. FALSE \in BOOLEAN
    OBVIOUS
  <1>4. /\ mem' \in Mems /\ pump' \in Pumps /\ SameSessions(m) /\ pump'.running
        /\ PassInv(mem', pump', disk', index, Answered', masked, Lasting', Ended', missed)
    BY <1>1, <1>2, <1>3, Heard
  <1>5. Types'
    BY <1>4 DEF StInv, Types, SameSessions
  <1>6. Waiters' /\ Rests'
    BY <1>4 DEF Waiters, Rests, SameSessions
  <1>7. Works'
    BY <1>4 DEF Works
  <1>. QED BY <1>5, <1>6, <1>7 DEF StInv

LEMMA IsNew ==
  ASSUME StInv, up, NEW s \in Sessions, born = 1..(s - 1)
  PROVE  s \notin born /\ s \notin mem.known /\ ~Named(index, s) /\ s \notin Ended
  <1>1. s \notin born
    BY DEF Sessions
  <1>. QED BY <1>1 DEF StInv, Types, Named, Ended

LEMMA CreateKeeps == ASSUME StInv, NEW s \in Sessions, Create(s) PROVE StInv'
  <1> DEFINE m == Entered(s)
             only == {s} \cup Unwritten(m)
             again == {s}
  <1>1. /\ up /\ born = 1..(s - 1) /\ born' = born \cup {s}
        /\ RequestPersist(m, pump, FALSE, only, again)
        /\ waiting' = waiting \cup {<<"create", s>>}
        /\ UNCHANGED <<up, timer, closing, clearing, diskVars, wipe, told, missed, events>>
    BY DEF Create, Serving
  <1>2. Types /\ Works /\ Waiters
    BY <1>1 DEF StInv
  <1>3. disk' = disk /\ index' = index /\ Lasting' = Lasting /\ Ended' = Ended /\ UNCHANGED <<gone, masked>>
    BY <1>1 DEF diskVars, told, Lasting, Ended
  <1>4. s \notin born /\ s \notin mem.known /\ ~Named(index, s) /\ s \notin Ended
    BY <1>1, IsNew
  <1>5. /\ m \in Mems /\ PassInv(m, pump, disk, index, {}, masked, Lasting, Ended, missed)
        /\ m.listed = mem.listed \cup {s} /\ m.known = mem.known \cup {s}
        /\ m.unpersisted = mem.unpersisted \cup {s} /\ m.indexDirty
        /\ m.dirty = mem.dirty \cup {s}
    <2> DEFINE A == {}
    <2>1. A = {} /\ \A w \in A : w[2] \in mem.known
      OBVIOUS
    <2> HIDE DEF A, m
    <2>2. m = Entered(s)
      BY DEF m
    <2>3. /\ mem \in Mems /\ pump \in Pumps
          /\ PassInv(mem, pump, disk, index, A, masked, Lasting, Ended, missed)
      BY <1>2, <2>1 DEF Types, Works, PassInv, AnswersInv
    <2>4. /\ m \in Mems /\ PassInv(m, pump, disk, index, A, masked, Lasting, Ended, missed)
          /\ m.listed = mem.listed \cup {s} /\ m.known = mem.known \cup {s}
          /\ m.unpersisted = mem.unpersisted \cup {s} /\ m.indexDirty
          /\ m.dirty = mem.dirty \cup {s}
      BY <1>4, <2>1, <2>2, <2>3, EnterKeeps
    <2>. QED BY <2>1, <2>4
  <1> HIDE DEF m
  <1>6. m.unpersisted \subseteq only /\ only \in SUBSET Sessions
    BY <1>5 DEF Unwritten, PassInv, MemInv, Mems
  <1>7. again \in Names
    BY DEF Names
  <1> HIDE DEF only, again
  <1>8. /\ waiting' \subseteq Routes \X m.known
        /\ \A w \in waiting' : w[1] # "create" => w[2] \notin m.listed
    BY <1>1, <1>2, <1>4, <1>5 DEF Waiters, Routes
  <1>9. /\ born' \subseteq Sessions /\ born \subseteq born' /\ m.known \subseteq born'
        /\ clearing' = None \/ clearing' \subseteq m.known
    BY <1>1, <1>2, <1>5 DEF Types
  <1>10. events' \in 0..MaxEvents /\ disk' \in [Sessions -> Copies \cup {"none"}]
    BY <1>1, <1>2, <1>3 DEF Types
  <1>11. PassInv(m, pump, disk', index, {}, masked, Lasting', Ended', missed)
    BY <1>3, <1>5
  <1>12. pump \in Pumps /\ (pump.running \/ pump.passOk)
    BY <1>2, RestIsClean DEF Types
  <1>. QED BY <1>1, <1>3, <1>5, <1>6, <1>7, <1>8, <1>9, <1>10, <1>11, <1>12, WaitingKeeps

LEMMA CreateFailsKeeps == ASSUME StInv, NEW s \in Sessions, CreateFails(s) PROVE StInv'
  <1>1. /\ up /\ born = 1..(s - 1) /\ Event /\ born' = born \cup {s}
        /\ mem' = Entered(s) /\ masked' = pump.running
        /\ UNCHANGED <<up, pump, timer, closing, clearing, waiting, diskVars, wipe, gone, kept, unread,
                       shadowed, missed>>
    BY DEF CreateFails, Serving
  <1>2. Types /\ Works /\ Waiters /\ Rests
    BY <1>1 DEF StInv
  <1>3. /\ disk' = disk /\ index' = index /\ Lasting' = Lasting /\ Ended' = Ended /\ Answered' = Answered
    BY <1>1 DEF diskVars, Lasting, Ended, Answered
  <1>4. s \notin born /\ s \notin mem.known /\ ~Named(index, s) /\ s \notin Ended
    BY <1>1, IsNew
  <1>5. /\ Answered = {} \/ masked'
        /\ \A w \in Answered : w[2] \in mem.known
    BY <1>1, <1>2 DEF Rests, Waiters, Answered
  <1>6. /\ mem' \in Mems
        /\ PassInv(mem', pump, disk, index, Answered, masked', Lasting, Ended, missed)
        /\ mem'.listed = mem.listed \cup {s} /\ mem'.known = mem.known \cup {s}
    <2>1. /\ mem \in Mems /\ pump \in Pumps
          /\ PassInv(mem, pump, disk, index, Answered, masked', Lasting, Ended, missed)
      BY <1>2, <1>5 DEF Types, Works, PassInv, AnswersInv
    <2>2. mem' = Entered(s)
      BY <1>1
    <2>. QED BY <1>4, <1>5, <2>1, <2>2, EnterKeeps
  <1>7. Waiters'
    BY <1>1, <1>2, <1>4, <1>6 DEF Waiters
  <1>8. Types'
    <2>1. events' \in 0..MaxEvents /\ masked' \in BOOLEAN
      BY <1>1, <1>2, EventCounts DEF Types, Pumps
    <2>. QED BY <1>1, <1>2, <1>3, <1>6, <2>1 DEF Types
  <1>9. Rests' /\ Works'
    BY <1>1, <1>2, <1>3, <1>6 DEF Rests, Works
  <1>. QED BY <1>1, <1>7, <1>8, <1>9 DEF StInv

\* A session ends: its kept promise is off, and nobody finds it listed.
LEMMA EndingKeeps ==
  ASSUME StInv, up, NEW s \in mem.known, disk' = Aged(disk, s), kept' = kept \ {s},
         UNCHANGED <<gone, unread, shadowed>>, NEW m, m = Dropped(mem, s), NEW q, q = AgedPump(s)
  PROVE  /\ m \in Mems /\ q \in Pumps /\ disk' \in [Sessions -> Copies \cup {"none"}]
         /\ PassInv(m, q, disk', index, Answered, masked, Lasting', Ended', missed)
         /\ m.listed = mem.listed \ {s} /\ m.known = mem.known
         /\ q.running = pump.running /\ (q.running \/ q.passOk) /\ (~pump.running => q = pump)
  <1>1. Types /\ Works
    BY DEF StInv
  <1>2. Lasting' = Lasting \ {s} /\ Ended' = Ended
    BY DEF Lasting, Ended
  <1>3. /\ mem \in Mems /\ pump \in Pumps
        /\ PassInv(mem, pump, disk, index, Answered, masked, Lasting, Ended, missed)
    BY <1>1 DEF Types, Works
  <1>4. /\ m \in Mems /\ m.listed = mem.listed \ {s} /\ m.known = mem.known
        /\ PassInv(m, pump, disk, index, Answered, masked, Lasting \ {s}, Ended, missed)
    BY <1>3, DropKeeps
  <1>5. q = [pump EXCEPT !.batch = Aged(@, s)] /\ s \notin m.listed
    BY <1>4 DEF AgedPump
  <1>6. disk \in [Sessions -> Copies \cup {"none"}]
    BY <1>1 DEF Types
  <1>7. /\ q \in Pumps /\ disk' \in [Sessions -> Copies \cup {"none"}]
        /\ PassInv(m, q, disk', index, Answered, masked, Lasting \ {s}, Ended, missed)
        /\ q.running = pump.running /\ q.passOk = pump.passOk
    BY <1>3, <1>4, <1>5, <1>6, AgedKeeps
  <1>8. ~pump.running => q = pump
    BY RestAges
  <1>. QED BY <1>2, <1>4, <1>7, <1>8, RestIsClean

LEMMA CloseKeeps == ASSUME StInv, NEW s \in Sessions, Close(s) PROVE StInv'
  <1> DEFINE n == Dropped(mem, s)
             m == [n EXCEPT !.indexDirty = TRUE]
             q == AgedPump(s)
             only == Unwritten(m)
  <1>1. /\ up /\ up' /\ s \in mem.known /\ Event /\ RequestPersist(m, q, FALSE, only, None)
        /\ disk' = Aged(disk, s) /\ waiting' = waiting \cup {<<"close", s>>} /\ kept' = kept \ {s}
        /\ UNCHANGED <<up, timer, closing, clearing, index, wipe, born, gone, unread, shadowed, masked,
                       missed>>
    BY DEF Close
  <1>2. Types /\ Waiters
    BY DEF StInv
  <1>3. /\ n \in Mems /\ q \in Pumps /\ disk' \in [Sessions -> Copies \cup {"none"}]
        /\ PassInv(n, q, disk', index, Answered, masked, Lasting', Ended', missed)
        /\ n.listed = mem.listed \ {s} /\ n.known = mem.known /\ (q.running \/ q.passOk)
    BY <1>1, EndingKeeps
  <1> HIDE DEF n, q
  <1>4. /\ m \in Mems /\ PassInv(m, q, disk', index, Answered, masked, Lasting', Ended', missed)
        /\ m.listed = n.listed /\ m.known = n.known /\ m.indexDirty
    BY <1>3, DueKeeps
  <1> HIDE DEF m
  <1>5. only \in SUBSET Sessions /\ m.unpersisted \subseteq only /\ None \in Names
    BY <1>4 DEF Unwritten, PassInv, MemInv, Mems, Names
  <1> HIDE DEF only
  <1>6. /\ waiting' \subseteq Routes \X m.known
        /\ \A w \in waiting' : w[1] # "create" => w[2] \notin m.listed
    BY <1>1, <1>2, <1>3, <1>4 DEF Waiters, Routes
  <1>7. /\ born' \subseteq Sessions /\ born \subseteq born' /\ m.known \subseteq born'
        /\ clearing' = None \/ clearing' \subseteq m.known
    BY <1>1, <1>2, <1>3, <1>4 DEF Types
  <1>8. events' \in 0..MaxEvents
    BY <1>1, EventCounts
  <1>. QED BY <1>1, <1>3, <1>4, <1>5, <1>6, <1>7, <1>8, WaitingKeeps

\* The last step of clear-all asks for the index; the ones before it, for nothing.
LEMMA ClearStepKeeps ==
  ASSUME StInv, up, up', NEW n \in Mems, NEW q \in Pumps,
         PassInv(n, q, disk', index, Answered, masked, Lasting', Ended', missed),
         n.known = mem.known, n.listed \subseteq mem.listed, q.running \/ q.passOk,
         q.running = pump.running, ~pump.running => q = pump,
         NEW left \in SUBSET mem.known, ClearStep(n, q, left), clearing # {},
         waiting' \subseteq Routes \X mem.known,
         \A w \in waiting' : w[1] # "create" => w[2] \notin n.listed,
         {w \in waiting' : w[1] # "clear"} = {w \in waiting : w[1] # "clear"},
         disk' \in [Sessions -> Copies \cup {"none"}], events' \in 0..MaxEvents,
         UNCHANGED <<timer, closing, index, wipe, born, gone, masked, missed>>
  PROVE  StInv'
  <1>1. Types /\ Rests
    BY DEF StInv
  <1>2. clearing' = left
    BY DEF ClearStep
  <1>3. CASE left = {}
    <2> DEFINE m == [n EXCEPT !.indexDirty = TRUE]
               only == Unwritten(m)
    <2>1. RequestPersist(m, q, FALSE, only, None)
      BY <1>3 DEF ClearStep
    <2>2. /\ m \in Mems /\ PassInv(m, q, disk', index, Answered, masked, Lasting', Ended', missed)
          /\ m.listed = n.listed /\ m.known = n.known /\ m.indexDirty
      BY DueKeeps
    <2> HIDE DEF m
    <2>3. only \in SUBSET Sessions /\ m.unpersisted \subseteq only /\ None \in Names
      BY <2>2 DEF Unwritten, PassInv, MemInv, Mems, Names
    <2> HIDE DEF only
    <2>4. /\ waiting' \subseteq Routes \X m.known
          /\ \A w \in waiting' : w[1] # "create" => w[2] \notin m.listed
      BY <2>2
    <2>5. /\ born' \subseteq Sessions /\ born \subseteq born' /\ m.known \subseteq born'
          /\ clearing' = None \/ clearing' \subseteq m.known
      BY <1>1, <1>2, <2>2 DEF Types
    <2>. QED BY <2>1, <2>2, <2>3, <2>4, <2>5, WaitingKeeps
  <1>4. CASE left # {}
    <2>1. mem' = n /\ pump' = q
      BY <1>4 DEF ClearStep
    <2>2. Answered' = Answered
      BY <1>2, <1>4 DEF Answered
    <2>3. Types' /\ Waiters'
      BY <1>1, <1>2, <2>1 DEF Types, Waiters
    <2>4. Rests' /\ Works'
      BY <1>1, <1>2, <1>4, <2>1, <2>2 DEF Rests, Works
    <2>. QED BY <2>3, <2>4 DEF StInv
  <1>. QED BY <1>3, <1>4

LEMMA ClearAllKeeps == ASSUME StInv, ClearAll PROVE StInv'
  <1>1. /\ up /\ up' /\ clearing = None /\ Event /\ ClearStep(mem, pump, mem.listed)
        /\ UNCHANGED <<up, timer, closing, waiting, diskVars, wipe, born, told, missed>>
    BY DEF ClearAll, Serving
  <1>2. Types /\ Works /\ Waiters
    BY <1>1 DEF StInv
  <1>3. /\ disk' = disk /\ index' = index /\ Lasting' = Lasting /\ Ended' = Ended
        /\ UNCHANGED <<gone, masked>>
    BY <1>1 DEF diskVars, told, Lasting, Ended
  <1>4. PassInv(mem, pump, disk', index, Answered, masked, Lasting', Ended', missed)
    BY <1>2, <1>3 DEF Works
  <1>5. mem.listed \in SUBSET mem.known /\ clearing # {}
    BY <1>1, <1>4, NoSetIsNone DEF PassInv, MemInv
  <1>6. events' \in 0..MaxEvents
    BY <1>1, EventCounts
  <1>7. mem \in Mems /\ pump \in Pumps /\ disk' \in [Sessions -> Copies \cup {"none"}]
    BY <1>2, <1>3 DEF Types
  <1>8. pump.running \/ pump.passOk
    BY RestIsClean
  <1>9. /\ waiting' \subseteq Routes \X mem.known
        /\ \A w \in waiting' : w[1] # "create" => w[2] \notin mem.listed
    BY <1>1, <1>2 DEF Waiters
  <1>. QED BY <1>1, <1>3, <1>4, <1>5, <1>6, <1>7, <1>8, <1>9, ClearStepKeeps

LEMMA ClearOneKeeps == ASSUME StInv, NEW s \in Sessions, ClearOne(s) PROVE StInv'
  <1> DEFINE n == Dropped(mem, s)
             q == AgedPump(s)
             left == clearing \ {s}
  <1>1. /\ up /\ up' /\ clearing # None /\ s \in clearing /\ ClearStep(n, q, left)
        /\ disk' = Aged(disk, s) /\ waiting' = waiting \cup {<<"clear", s>>} /\ kept' = kept \ {s}
        /\ UNCHANGED <<up, timer, closing, index, wipe, born, gone, unread, shadowed, masked, missed, events>>
    BY DEF ClearOne
  <1>2. Types /\ Waiters
    BY DEF StInv
  <1>3. s \in mem.known /\ left \in SUBSET mem.known /\ clearing # {}
    BY <1>1, <1>2 DEF Types
  <1>4. /\ n \in Mems /\ q \in Pumps /\ disk' \in [Sessions -> Copies \cup {"none"}]
        /\ PassInv(n, q, disk', index, Answered, masked, Lasting', Ended', missed)
        /\ n.listed = mem.listed \ {s} /\ n.known = mem.known
        /\ q.running = pump.running /\ (q.running \/ q.passOk) /\ (~pump.running => q = pump)
    BY <1>1, <1>3, EndingKeeps
  <1> HIDE DEF n, q, left
  <1>5. /\ waiting' \subseteq Routes \X mem.known
        /\ \A w \in waiting' : w[1] # "create" => w[2] \notin n.listed
    BY <1>1, <1>2, <1>3, <1>4 DEF Waiters, Routes
  <1>6. {w \in waiting' : w[1] # "clear"} = {w \in waiting : w[1] # "clear"}
    BY <1>1
  <1>7. events' \in 0..MaxEvents
    BY <1>1, <1>2 DEF Types
  <1>. QED BY <1>1, <1>3, <1>4, <1>5, <1>6, <1>7, ClearStepKeeps

-----------------------------------------------------------------------------
(* The end of the process, the relay's unlink and the next boot.            *)

LEMMA DownIsKept == ASSUME StInv, up PROVE
    /\ \A s \in Lasting : Named(index, s) /\ disk[s] # "none"
    /\ \A s \in Ended : ~Named(index, s)
  BY DEF StInv, Works, PassInv, KeptInv, GoneInv

LEMMA EndsKeeps == ASSUME StInv, up, Ends, events' \in 0..MaxEvents PROVE StInv'
  <1>1. /\ up' = FALSE /\ mem' = Blank /\ pump' = Idle /\ timer' = FALSE /\ closing' = "no"
        /\ clearing' = None /\ waiting' = {} /\ masked' = FALSE /\ missed' = {}
        /\ wipe' = (wipe \/ clearing # None)
        /\ UNCHANGED <<diskVars, born, gone, kept, unread, shadowed>>
    BY DEF Ends
  <1>2. disk' = disk /\ index' = index /\ Lasting' = Lasting /\ Ended' = Ended
    BY <1>1 DEF diskVars, Lasting, Ended
  <1>3. Down'
    BY <1>1, <1>2, DownIsKept DEF Down
  <1>4. Types'
    <2>1. Blank \in Mems /\ Blank.known = {}
      BY DEF Blank, Mems
    <2>2. Idle \in Pumps
      BY IdleIsAPump
    <2>3. wipe' \in BOOLEAN
      BY <1>1 DEF StInv, Types
    <2>. QED BY <1>1, <1>2, <2>1, <2>2, <2>3 DEF StInv, Types
  <1>5. Waiters' /\ Rests'
    BY <1>1, NoSetIsNone DEF Waiters, Rests, Answered, Idle
  <1>. QED BY <1>1, <1>3, <1>4, <1>5 DEF StInv

LEMMA UnlinkKeeps == ASSUME StInv, Unlink PROVE StInv'
  <1>1. /\ ~up /\ wipe' = FALSE /\ index' = None /\ gone' = gone \cup born /\ kept' = {}
        /\ UNCHANGED <<up, hostVars, disk, born, unread, shadowed, masked, missed, events>>
    BY DEF Unlink
  <1>2. /\ UNCHANGED <<mem, pump, timer, closing, clearing, waiting>> /\ Lasting' = {}
        /\ Answered' = Answered
    BY <1>1 DEF hostVars, Lasting, Answered
  <1>3. Types' /\ Waiters' /\ Rests'
    BY <1>1, <1>2 DEF StInv, Types, Waiters, Rests
  <1>4. Down'
    BY <1>1, <1>2 DEF StInv, Down, Named
  <1>. QED BY <1>1, <1>3, <1>4 DEF StInv

\* A boot comes back with what it could read: whoever is to last is named and
\* has a file, so it is listed unless its reading failed just now.
LEMMA BootKeeps == ASSUME StInv, Boot PROVE StInv'
  <1>1. /\ ~up /\ up' = TRUE
        /\ UNCHANGED <<pump, timer, closing, clearing, waiting, index, wipe, born, gone, kept,
                       shadowed, masked>>
    BY DEF Boot
  <1>2. Types /\ Down
    BY <1>1 DEF StInv
  <1>3. PICK failed \in SUBSET Sessions, left \in SUBSET Sessions :
          \/ index = None /\ StartsEmpty(left) /\ (UNCHANGED events \/ Event)
          \/ index # None /\ Restores(failed, left) /\ (UNCHANGED events \/ Event)
          \/ /\ index # None /\ Event /\ missed' = Sessions /\ unread' = unread \cup index
             /\ UNCHANGED <<mem, disk>>
    BY DEF Boot
  <1>4. events' \in 0..MaxEvents
    BY <1>2, <1>3, EventCounts DEF Types
  <1>5. Answered' = {} /\ clearing' # {} /\ waiting' = {} /\ Ended' = Ended
    BY <1>1, <1>2, NoSetIsNone DEF Down, Answered, Ended
  <1>6. /\ pump' \in Pumps /\ DOMAIN pump'.batch = {} /\ pump'.stage = "end" /\ pump'.todo = {}
        /\ pump'.text = {}
    BY <1>1, <1>2 DEF Down, Idle, NoBatch, Types
  <1> DEFINE read == {s \in index : disk[s] # "none"} \ failed
  <1>7. /\ mem' \in Mems /\ mem'.known = mem'.listed /\ mem'.dirty = {} /\ mem'.order = {}
        /\ mem'.unpersisted = {} /\ mem'.removed = {} /\ mem'.indexDirty = FALSE
        /\ mem'.listed \subseteq born
        /\ \/ index = None /\ mem'.listed = {}
           \/ index # None /\ mem'.listed = read
           \/ index # None /\ mem'.listed = {}
    <2>1. CASE mem' = mem
      BY <1>2, <1>3, <2>1 DEF Down, Blank, Types
    <2>3. CASE index = None /\ StartsEmpty(left)
      BY <2>1, <2>3 DEF StartsEmpty
    <2>2. CASE index # None /\ Restores(failed, left)
      <3>1. mem' = [Blank EXCEPT !.listed = read, !.known = read]
        BY <2>2 DEF Restores
      <3>2. read \in SUBSET Sessions /\ read \subseteq born
        BY <1>2, <2>2 DEF Types
      <3> HIDE DEF read
      <3>. QED BY <2>2, <3>1, <3>2 DEF Blank, Mems
    <2>. QED BY <1>3, <2>1, <2>2, <2>3
  <1>8. disk' \in [Sessions -> Copies \cup {"none"}]
    BY <1>2, <1>3 DEF Restores, StartsEmpty, Pruned, Copies, Types
  <1>9. Types' /\ Waiters' /\ Rests'
    BY <1>1, <1>2, <1>4, <1>5, <1>6, <1>7, <1>8 DEF StInv, Types, Waiters, Rests, Down
  <1>10. \A s \in mem'.listed : Named(index, s) /\ disk'[s] = "current"
    <2>1. CASE mem' = mem
      BY <1>2, <2>1 DEF Down, Blank
    <2>2. CASE index # None /\ Restores(failed, left)
      <3>1. mem'.listed = read
        BY <2>2 DEF Restores, Blank
      <3>2. \A s \in Sessions :
              disk'[s] = IF s \in left \cup failed THEN "stale"
                         ELSE IF s \in {t \in index : disk[t] # "none"} THEN "current" ELSE "none"
        BY <2>2 DEF Restores, Pruned
      <3>4. \A s \in read : s \notin left
        BY <2>2 DEF Restores, Stray
      <3>3. \A s \in read : s \in Sessions
        BY <1>7, <2>2, <3>1 DEF Mems
      <3>. QED BY <2>2, <3>1, <3>2, <3>3, <3>4 DEF Named
    <2>3. CASE index = None /\ StartsEmpty(left)
      BY <2>1, <2>3 DEF StartsEmpty
    <2>. QED BY <1>3, <2>1, <2>2, <2>3
  <1>11. \A s \in Sessions : s \in mem'.listed \/ s \in missed' \/ (disk'[s] = "none" /\ ~Named(index, s))
    <2>1. CASE index = None
      BY <1>3, <2>1 DEF Named, StartsEmpty, Pruned
    <2>2. CASE index # None /\ Restores(failed, left)
      BY <2>2 DEF Restores, Pruned, Named
    <2>3. CASE missed' = Sessions
      BY <2>3
    <2>. QED BY <1>3, <2>1, <2>2, <2>3
  <1>12. \A s \in Lasting' : s \in mem'.listed
    <2>1. Lasting' \subseteq Lasting
      BY <1>1, <1>3 DEF Lasting, Restores, StartsEmpty
    <2>2. CASE index = None
      BY <1>2, <2>1, <2>2 DEF Down, Named
    <2>3. CASE index # None /\ Restores(failed, left)
      BY <1>1, <1>2, <2>1, <2>3 DEF Down, Restores, Named, Lasting
    <2>4. CASE unread' = unread \cup index
      BY <1>2, <2>1, <2>4 DEF Down, Named, Lasting
    <2>. QED BY <1>3, <2>2, <2>3, <2>4
  <1>13. \A t : Final(pump', index, t) = Named(index, t)
    BY <1>6 DEF Final
  <1>14. Works'
    <2>1. MemInv(mem') /\ StageInv(mem', pump') /\ AnswersInv(mem', pump', index, {}, masked')
      BY <1>6, <1>7 DEF MemInv, StageInv, AnswersInv
    <2>2. DiskInv(mem', pump', disk', missed')
      BY <1>6, <1>7, <1>10, <1>11 DEF DiskInv
    <2>3. IndexInv(mem', pump', disk', index, missed')
      BY <1>7, <1>10, <1>11, <1>13 DEF IndexInv
    <2>4. KeptInv(mem', pump', disk', index, Lasting')
      BY <1>10, <1>12, <1>13 DEF KeptInv
    <2>5. GoneInv(mem', pump', index, Ended')
      BY <1>2, <1>5, <1>10, <1>13 DEF GoneInv, Down
    <2>. QED BY <1>1, <1>5, <2>1, <2>2, <2>3, <2>4, <2>5 DEF Works, PassInv
  <1>. QED BY <1>1, <1>9, <1>14 DEF StInv

-----------------------------------------------------------------------------
(* Every step.                                                              *)

LEMMA StStep == StInv /\ [Next]_vars => StInv'
  <1>. SUFFICES ASSUME StInv, [Next]_vars PROVE StInv'
    OBVIOUS
  <1>1. CASE UNCHANGED vars
    BY <1>1 DEF vars, hostVars, diskVars, told, StInv, Types, Waiters, Rests, Works, Down,
                Answered, Lasting, Ended
  <1>2. CASE PumpStep
    BY <1>2, WriteRecordKeeps, RecordFailsKeeps, RemoveRecordKeeps, RemovalFailsKeeps,
       WriteIndexKeeps, IndexFailsKeeps, EndPassKeeps DEF PumpStep
  <1>3. CASE TimerFires \/ Theme \/ ClearAll \/ Shutdown
    BY <1>3, TimerFiresKeeps, ThemeKeeps, ClearAllKeeps, ShutdownKeeps
  <1>4. ASSUME NEW s \in Sessions,
               Create(s) \/ CreateFails(s) \/ Output(s) \/ Changed(s) \/ Close(s) \/ ClearOne(s)
        PROVE  StInv'
    BY <1>4, CreateKeeps, CreateFailsKeeps, OutputKeeps, ChangedKeeps, CloseKeeps, ClearOneKeeps
  <1>5. CASE Exit \/ Crash
    <2>1. up /\ Ends /\ events' \in 0..MaxEvents
      BY <1>5, EventCounts DEF Exit, Crash, StInv, Types
    <2>. QED BY <2>1, EndsKeeps
  <1>6. CASE Unlink \/ Boot
    BY <1>6, UnlinkKeeps, BootKeeps
  <1>. QED BY <1>1, <1>2, <1>3, <1>4, <1>5, <1>6 DEF Next

LEMMA StHolds == Spec => []StInv
  BY StartsWell, StStep, PTL DEF Spec

-----------------------------------------------------------------------------
(* The theorems.                                                            *)

\* The types of TerminalStore, with what its marks say of one another, and
\* that the pump is idle, and nobody waits for it, unless it runs.
THEOREM TypeCorrect == Spec => []TypeOK
  <1>1. ASSUME StInv PROVE TypeOK
    <2>1. MemInv(mem)
      <3>1. CASE up
        BY <1>1, <3>1 DEF StInv, Works, PassInv
      <3>2. CASE ~up
        BY <1>1, <3>2 DEF StInv, Down, Blank, MemInv
      <3>. QED BY <3>1, <3>2
    <2>2. Types /\ Rests
      BY <1>1 DEF StInv
    <2>3. \A s \in DOMAIN pump.batch : pump.batch[s] \in Copies
      <3>1. PICK D \in SUBSET Sessions : pump.batch \in [D -> Copies]
        BY <2>2 DEF Types, Pumps, Batches
      <3>. QED BY <3>1
    <2>4. pump.stage \in {"write", "rm", "index", "end"}
      BY <2>2 DEF Types, Pumps
    <2>5. /\ mem.listed \subseteq mem.known /\ mem.known \subseteq born
          /\ mem.dirty \subseteq mem.known /\ mem.order \subseteq mem.dirty \X mem.dirty
          /\ mem.unpersisted \subseteq mem.listed \cap mem.dirty
          /\ mem.removed \subseteq mem.known \ mem.listed
      BY <2>1, <2>2 DEF Types, MemInv
    <2>6. clearing = None \/ clearing \subseteq born
      BY <2>2 DEF Types
    <2>7. pump.running \/ (pump = [Idle EXCEPT !.ok = pump.ok] /\ clearing # {})
      BY <2>2 DEF Rests
    <2>. QED BY <2>2, <2>3, <2>4, <2>5, <2>6, <2>7 DEF Types, TypeOK
  <1>. QED BY <1>1, StHolds, PTL

\* Whatever fails, is asked for meanwhile or crashes: once the end of a session
\* is confirmed, no index names it and no boot lists it, unless a spawn that
\* failed while the pump ran hid a failure from the answer.
THEOREM GoneForGood == Spec => []ClosedIsGone
  <1>1. ASSUME StInv PROVE ClosedIsGone
    <2>1. CASE up
      BY <1>1, <2>1 DEF StInv, Works, PassInv, GoneInv, ClosedIsGone, Ended, Named
    <2>2. CASE ~up
      BY <1>1, <2>2 DEF StInv, Down, Blank, ClosedIsGone, Ended, Named
    <2>. QED BY <2>1, <2>2
  <1>. QED BY <1>1, StHolds, PTL

\* The index never names a listed session before its record is written, and a
\* creation that was confirmed after a clean save lasts: named, with a file.
THEOREM IndexIsTrue == Spec => []IndexAgrees
  <1>1. ASSUME StInv PROVE IndexAgrees
    <2>1. CASE up
      <3>1. index # None => \A s \in index \cap mem.listed : disk[s] # "none"
        BY <1>1, <2>1 DEF StInv, Works, PassInv, IndexInv, Named
      <3>2. \A s \in Lasting : index # None /\ s \in index /\ disk[s] # "none"
        BY <1>1, <2>1 DEF StInv, Works, PassInv, KeptInv, Named
      <3>. QED BY <3>1, <3>2 DEF IndexAgrees, Lasting
    <2>2. CASE ~up
      <3>1. mem.listed = {}
        BY <1>1, <2>2 DEF StInv, Down, Blank
      <3>2. \A s \in Lasting : index # None /\ s \in index /\ disk[s] # "none"
        BY <1>1, <2>2 DEF StInv, Down, Named
      <3>. QED BY <3>1, <3>2 DEF IndexAgrees, Lasting
    <2>. QED BY <2>1, <2>2
  <1>. QED BY <1>1, StHolds, PTL

\* A pump that rests with nothing marked has left the disk equal to the
\* sessions in memory, but for what the boot could neither read nor
\* remove.
THEOREM RestsOnDisk == Spec => []RestingIsOnDisk
  <1>1. ASSUME StInv PROVE RestingIsOnDisk
    <2>. SUFFICES ASSUME up, ~pump.running, ~HasPendingWork(mem)
                  PROVE  /\ \A s \in mem.listed : disk[s] = "current" /\ Named(index, s)
                         /\ \A s \in Sessions \ (mem.listed \cup missed) :
                               disk[s] = "none" /\ ~Named(index, s)
      BY DEF RestingIsOnDisk, Named
    <2>1. PassInv(mem, pump, disk, index, Answered, masked, Lasting, Ended, missed)
      BY <1>1 DEF StInv, Works
    <2>2. ~mem.indexDirty /\ mem.dirty = {} /\ mem.removed = {}
      BY DEF HasPendingWork
    <2>3. pump.stage = "end" /\ DOMAIN pump.batch = {}
      BY <2>1 DEF PassInv, StageInv
    <2>4. \A s \in mem.known : s \in mem.listed <=> Named(index, s)
      BY <2>1, <2>2, <2>3 DEF PassInv, IndexInv, Final
    <2>5. \A s \in mem.listed : disk[s] = "current" /\ s \in mem.known
      BY <2>1, <2>2, <2>3 DEF PassInv, DiskInv, MemInv
    <2>6. \A s \in Sessions \ (mem.listed \cup missed) : disk[s] = "none" /\ ~Named(index, s)
      BY <2>1, <2>2, <2>4 DEF PassInv, DiskInv, IndexInv
    <2>. QED BY <2>4, <2>5, <2>6
  <1>. QED BY <1>1, StHolds, PTL
=============================================================================
