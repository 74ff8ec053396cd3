--------------------------- MODULE TerminalStore ---------------------------
(***************************************************************************)
(* What the terminal host keeps on disk (createTerminalHost of             *)
(* src/src/terminal/terminal-host.mjs): one record file per session, and   *)
(* an index that names the sessions.  Output, the routes and the timer     *)
(* mark what changed; the persist pump writes it, one pass at a time.      *)
(*                                                                         *)
(* A record's content is only compared with the session in memory: what is *)
(* on disk, or about to be written, is "current" until the session changes *)
(* and "stale" from then on.                                               *)
(***************************************************************************)
EXTENDS Naturals, FiniteSets

CONSTANTS
    MaxSessions, \* bound: sessions created; an id is not used again
    PerPass,    \* PERSIST_SESSION_WRITES_PER_PASS
    MaxRounds,  \* PERSIST_FULL_FLUSH_MAX_ROUNDS
    MaxEvents,  \* bound: requests other than a session's creation, exits and
                \* spawns, faults and crashes, in any mix
    None

ASSUME StoreAssumption ==
    /\ PerPass \in Nat \ {0} /\ MaxRounds \in Nat \ {0}
    /\ MaxSessions \in Nat /\ MaxEvents \in Nat
    /\ \A S \in SUBSET (1..MaxSessions) : S # None

Sessions == 1..MaxSessions

VARIABLES
    up,         \* the host process runs
    mem,        \* what it knows: sessions, and the marks on them
    pump,       \* the persist pump and its pass under way
    timer,      \* persistTimer is armed
    closing,    \* shuttingDown: "no", "flushing", "flushed"
    clearing,   \* sessions clear-all has yet to end; None when it does not run
    waiting,    \* answers that wait for the pump: <<route, session>>
    disk,       \* a session's record file
    index,      \* the sessions the index names; None when there is no index
    wipe,       \* the relay stops the host and will unlink the index
    born,       \* sessions created so far, in the order of their numbers
    gone,       \* history: sessions whose end was confirmed
    kept,       \* history: sessions whose creation was confirmed, until one
                \*          asks for their end
    unread,     \* history: sessions whose record a boot could not read
    shadowed,   \* history: sessions confirmed although a spawn failed meanwhile
    missed,     \* history: what this boot left on disk and does not list
    masked,     \* history: a spawn failed since the pump started
    events

diskVars == <<disk, index>>
hostVars == <<mem, pump, timer, closing, clearing, waiting>>
told     == <<gone, kept, unread, shadowed, masked>>
vars     == <<up, hostVars, diskVars, wipe, born, told, missed, events>>

\* listed: the map of sessions; known: those some callback or request of this
\* process still holds; dirty: the marked ones, order: which of two was marked
\* first (a JavaScript set is walked in that order).
Blank == [listed |-> {}, known |-> {}, dirty |-> {}, order |-> {}, unpersisted |-> {},
          removed |-> {}, indexDirty |-> FALSE]

NoBatch == [s \in {} |-> "current"]

\* When idle, `ok' is lastPassOk.
Idle == [running |-> FALSE, full |-> FALSE, slice |-> FALSE, only |-> None,
         untilClean |-> FALSE, fullPass |-> FALSE, rounds |-> 0, ok |-> TRUE,
         passOk |-> TRUE, stage |-> "end", batch |-> NoBatch, todo |-> {}, text |-> {}]

Init ==
    /\ up = TRUE /\ mem = Blank /\ pump = Idle /\ timer = FALSE
    /\ closing = "no" /\ clearing = None /\ waiting = {}
    /\ disk = [s \in Sessions |-> "none"] /\ index = None /\ wipe = FALSE
    /\ born = {} /\ gone = {} /\ kept = {} /\ unread = {} /\ shadowed = {} /\ missed = {} /\ masked = FALSE
    /\ events = 0

-----------------------------------------------------------------------------
(* Marks.                                                                   *)

\* markSessionDirty
MarkSessionDirty(m, s) ==
    [m EXCEPT !.dirty = @ \cup {s},
              !.order = IF s \in m.dirty THEN @ ELSE @ \cup (m.dirty \X {s})]

Unmarked(m, S) ==
    [m EXCEPT !.dirty = @ \ S, !.order = {p \in @ : p[1] \notin S /\ p[2] \notin S}]

\* What a change of a session, or its end, makes of copies taken before.
Aged(f, s) == [t \in DOMAIN f |-> IF t = s /\ f[t] = "current" THEN "stale" ELSE f[t]]
AgedPump(s) == [pump EXCEPT !.batch = Aged(@, s)]

\* A session leaves the map: close and clear-all.
Dropped(m, s) == [Unmarked(m, {s}) EXCEPT !.listed = @ \ {s}, !.unpersisted = @ \ {s},
                                          !.removed = @ \cup {s}]

HasPendingWork(m) == m.indexDirty \/ m.dirty # {} \/ m.removed # {}

\* persistSession and persistIndexNow take along what has no file yet.
Unwritten(m) == m.dirty \cap m.unpersisted

-----------------------------------------------------------------------------
(* A pass of the pump, from await to await.  An operator that takes m and q *)
(* says what becomes of the memory m and the pump q.                        *)

\* Variant: who came while records were removed is named without a file.
ToSnapshotUngated(m, q) ==
    /\ mem' = [m EXCEPT !.indexDirty = FALSE]
    /\ pump' = [q EXCEPT !.stage = "index", !.text = m.listed]

\* The index is written with the members of this moment, unless a session
\* without a file has come while records were removed.
ToSnapshot(m, q) ==
    IF m.unpersisted = {}
    THEN /\ mem' = [m EXCEPT !.indexDirty = FALSE]
         /\ pump' = [q EXCEPT !.stage = "index", !.text = m.listed]
    ELSE mem' = m /\ pump' = [q EXCEPT !.stage = "end"]

\* After the records: the index, if it is due and every session has a file.
ToIndex(m, q) ==
    IF m.unpersisted # {} \/ ~(m.indexDirty \/ m.removed # {})
    THEN mem' = m /\ pump' = [q EXCEPT !.stage = "end"]
    ELSE IF m.removed # {}
    THEN mem' = m /\ pump' = [q EXCEPT !.stage = "rm", !.todo = m.removed]
    ELSE ToSnapshot(m, q)

\* What follows a record's atomic write: after the last one, the index.
AfterRecord(m, q) == IF DOMAIN q.batch = {} THEN ToIndex(m, q) ELSE mem' = m /\ pump' = q

\* Variant: the order of marks is lost, the latest change is served first.
ConsideredNewestFirst(m, fullPass, only) ==
    IF only # None THEN {only \cap m.dirty}
    ELSE IF fullPass THEN {m.dirty}
    ELSE {{s \in m.dirty : \A p \in m.order : p[1] # s}}

\* The marks a pass may consider.  A slice goes through them in order and may
\* stop, for number or size, once it has something to write.
Considered(m, fullPass, only) ==
    IF only # None THEN {only \cap m.dirty}
    ELSE IF fullPass THEN {m.dirty}
    ELSE {C \in SUBSET m.dirty :
            /\ \A p \in m.order : p[2] \in C => p[1] \in C
            /\ Cardinality(C \cap m.listed) <= PerPass
            /\ C = m.dirty \/ C \cap m.listed # {}}

\* The start of a pass: marks are taken off when their record is copied,
\* before anything is awaited.  `again' is what was asked for in this turn
\* after the pass had begun.
BeginPass(m, q, again) ==
    LET fullPass == q.full \/ q.untilClean
        only == IF fullPass THEN None ELSE q.only
    IN  \E C \in Considered(m, fullPass, only) :
            LET B  == C \cap m.listed
                m2 == [Unmarked(m, C) EXCEPT !.unpersisted = @ \ B]
                q2 == [q EXCEPT !.running = TRUE, !.fullPass = fullPass,
                           !.full = FALSE, !.slice = again # None, !.only = again,
                           !.rounds = IF @ < MaxRounds THEN @ + 1 ELSE @,
                           !.passOk = TRUE, !.stage = "write", !.batch = [s \in B |-> "current"]]
            IN  AfterRecord(m2, q2)

\* requestPersist: a running pump is told to go on, an idle one starts if
\* there is anything to do.
RequestPersist(m, q, full, only, again) ==
    LET asked == [q EXCEPT !.full = @ \/ full, !.slice = TRUE, !.untilClean = @ \/ full,
                     !.only = IF only = None THEN @
                              ELSE IF @ = None THEN only ELSE @ \cup only]
    IN  IF q.running THEN mem' = m /\ pump' = asked
        ELSE IF ~HasPendingWork(m) THEN mem' = m /\ pump' = q
        ELSE BeginPass(m, [asked EXCEPT !.rounds = 0, !.ok = TRUE], again)

\* Something goes wrong, or somebody asks for something.
Event == events < MaxEvents /\ events' = events + 1

BatchWithout(s) == [t \in DOMAIN pump.batch \ {s} |-> pump.batch[t]]

\* Variant: the mark is taken off when the write is done.
WriteRecordThenUnmark(s) ==
    /\ up /\ pump.running /\ pump.stage = "write" /\ s \in DOMAIN pump.batch
    /\ disk' = [disk EXCEPT ![s] = pump.batch[s]]
    /\ AfterRecord(Unmarked(mem, {s}), [pump EXCEPT !.batch = BatchWithout(s)])
    /\ UNCHANGED <<up, timer, closing, clearing, waiting, index, wipe, born, told, missed, events>>

WriteRecord(s) ==
    /\ up /\ pump.running /\ pump.stage = "write" /\ s \in DOMAIN pump.batch
    /\ disk' = [disk EXCEPT ![s] = pump.batch[s]]
    /\ AfterRecord(mem, [pump EXCEPT !.batch = BatchWithout(s)])
    /\ UNCHANGED <<up, timer, closing, clearing, waiting, index, wipe, born, told, missed, events>>

\* A failed write puts the mark back, and the session among those without a
\* file if there is none.
Unsaved(s) ==
    IF s \notin mem.listed THEN mem
    ELSE [MarkSessionDirty(mem, s) EXCEPT !.unpersisted = IF disk[s] = "none" THEN @ \cup {s} ELSE @]

RecordFails(s) ==
    /\ up /\ pump.running /\ pump.stage = "write" /\ s \in DOMAIN pump.batch
    /\ Event
    /\ AfterRecord(Unsaved(s), [pump EXCEPT !.batch = BatchWithout(s), !.passOk = FALSE])
    /\ UNCHANGED <<up, timer, closing, clearing, waiting, diskVars, wipe, born, told, missed>>

\* After the last removal: the snapshot of the index.
AfterRemoval(m, q) == IF q.todo = {} THEN ToSnapshot(m, q) ELSE mem' = m /\ pump' = q

RemoveRecord(s) ==
    /\ up /\ pump.running /\ pump.stage = "rm" /\ s \in pump.todo
    /\ disk' = [disk EXCEPT ![s] = "none"]
    /\ AfterRemoval([mem EXCEPT !.removed = @ \ {s}], [pump EXCEPT !.todo = @ \ {s}])
    /\ UNCHANGED <<up, timer, closing, clearing, waiting, index, wipe, born, told, missed, events>>

RemovalFails(s) ==
    /\ up /\ pump.running /\ pump.stage = "rm" /\ s \in pump.todo
    /\ Event
    /\ AfterRemoval(mem, [pump EXCEPT !.todo = @ \ {s}, !.passOk = FALSE])
    /\ UNCHANGED <<up, timer, closing, clearing, waiting, diskVars, wipe, born, told, missed>>

WriteIndex ==
    /\ up /\ pump.running /\ pump.stage = "index"
    /\ index' = pump.text
    /\ pump' = [pump EXCEPT !.stage = "end", !.text = {}]
    /\ UNCHANGED <<up, mem, timer, closing, clearing, waiting, disk, wipe, born, told, missed, events>>

IndexFails ==
    /\ up /\ pump.running /\ pump.stage = "index"
    /\ Event
    /\ mem' = [mem EXCEPT !.indexDirty = TRUE]
    /\ pump' = [pump EXCEPT !.stage = "end", !.text = {}, !.passOk = FALSE]
    /\ UNCHANGED <<up, timer, closing, clearing, waiting, diskVars, wipe, born, told, missed>>

-----------------------------------------------------------------------------
(* The end of a pass.                                                       *)

\* Variant: a request that comes while a pass runs is left to the next timer.
GoesOnForFull == pump.fullPass /\ pump.passOk /\ HasPendingWork(mem) /\ pump.rounds < MaxRounds

\* A full flush goes on until nothing is left, and whoever asked while the
\* pass ran gets another one.
GoesOn ==
    \/ pump.fullPass /\ pump.passOk /\ HasPendingWork(mem) /\ pump.rounds < MaxRounds
    \/ pump.full \/ pump.slice

\* The routes that wait are answered when the pump stops: close and clear-all
\* by its result, the creation of a session in any case.  clear-all waits once
\* it has ended every session.
Answered == {w \in waiting : w[1] # "clear" \/ clearing = {}}

Answers(ok) ==
    LET Told(route) == {s \in Sessions : ok /\ <<route, s>> \in Answered}
    IN  /\ gone' = gone \cup Told("close") \cup Told("clear")
        /\ kept' = kept \cup (Told("create") \cap mem.listed)
        /\ shadowed' = IF masked
                       THEN shadowed \cup Told("close") \cup Told("clear") \cup Told("create")
                       ELSE shadowed
        /\ waiting' = waiting \ Answered /\ masked' = FALSE /\ UNCHANGED unread

\* clear-all is answered when nothing of it is left; a refusal makes the relay
\* stop the host and delete the index itself.
ClearAnswered(ok) ==
    IF clearing = {} THEN clearing' = None /\ wipe' = (wipe \/ ~ok)
    ELSE UNCHANGED <<clearing, wipe>>

EndPass ==
    /\ up /\ pump.running /\ pump.stage = "end"
    /\ LET ok == pump.ok /\ pump.passOk
           leftover == HasPendingWork(mem)
       IN  IF GoesOn
           THEN /\ BeginPass(mem, [pump EXCEPT !.ok = ok], None)
                /\ UNCHANGED <<timer, closing, clearing, waiting, wipe, told>>
           ELSE /\ pump' = [Idle EXCEPT !.ok = ok]
                /\ timer' = (timer \/ (leftover /\ (pump.fullPass \/ ok)))
                /\ closing' = IF closing = "flushing" THEN "flushed" ELSE closing
                /\ Answers(ok) /\ ClearAnswered(ok)
                /\ UNCHANGED mem
    /\ UNCHANGED <<up, diskVars, born, missed, events>>

-----------------------------------------------------------------------------
(* What makes sessions change.                                              *)

Serving == up /\ closing = "no"

\* POST /terminal/sessions.  The spawn asks for the record (attach), the route
\* asks for it once more and waits.
Entered(s) ==
    [MarkSessionDirty(mem, s) EXCEPT !.listed = @ \cup {s}, !.known = @ \cup {s},
        !.unpersisted = @ \cup {s}, !.indexDirty = TRUE]

Create(s) ==
    /\ Serving /\ born = 1..(s - 1)
    /\ born' = born \cup {s}
    /\ RequestPersist(Entered(s), pump, FALSE, {s} \cup Unwritten(Entered(s)), {s})
    /\ waiting' = waiting \cup {<<"create", s>>}
    /\ UNCHANGED <<up, timer, closing, clearing, diskVars, wipe, told, missed, events>>

\* The same when the spawn throws: 500, but the session stays.
CreateFails(s) ==
    /\ Serving /\ born = 1..(s - 1) /\ Event
    /\ born' = born \cup {s}
    /\ mem' = Entered(s)
    /\ masked' = pump.running
    /\ UNCHANGED <<up, pump, timer, closing, clearing, waiting, diskVars, wipe, gone, kept, unread, shadowed,
                   missed>>

\* emit: output marks the session and arms the timer, until close() is called.
\* What a closed session still prints is bounded, what an open one prints is not.
Output(s) ==
    /\ Serving /\ s \in mem.known
    /\ IF s \in mem.listed THEN UNCHANGED events ELSE Event
    /\ mem' = MarkSessionDirty(mem, s)
    /\ pump' = AgedPump(s) /\ disk' = Aged(disk, s)
    /\ timer' = TRUE
    /\ UNCHANGED <<up, closing, clearing, waiting, index, wipe, born, told, missed>>

\* An exit, a restart's spawn or a resize: the record is asked for at once.
Changed(s) ==
    /\ up /\ s \in mem.known /\ Event
    /\ LET m == MarkSessionDirty(mem, s)
       IN  RequestPersist(m, AgedPump(s), FALSE, {s} \cup Unwritten(m), None)
    /\ disk' = Aged(disk, s)
    /\ UNCHANGED <<up, timer, closing, clearing, waiting, index, wipe, born, told, missed>>

\* POST /terminal/theme
Theme ==
    /\ Serving /\ Event
    /\ mem' = [mem EXCEPT !.indexDirty = TRUE] /\ timer' = TRUE
    /\ UNCHANGED <<up, pump, closing, clearing, waiting, diskVars, wipe, born, told, missed>>

\* schedulePersist's callback
TimerFires ==
    /\ up /\ timer
    /\ timer' = FALSE
    /\ RequestPersist(mem, pump, FALSE, None, None)
    /\ UNCHANGED <<up, closing, clearing, waiting, diskVars, wipe, born, told, missed, events>>

\* POST .../close once the session's processes have ended.  The session was
\* looked up before that was awaited, so it may have been closed meanwhile.
Close(s) ==
    /\ up /\ s \in mem.known /\ Event
    /\ LET m == [Dropped(mem, s) EXCEPT !.indexDirty = TRUE]
       IN  RequestPersist(m, AgedPump(s), FALSE, Unwritten(m), None)
    /\ disk' = Aged(disk, s)
    /\ waiting' = waiting \cup {<<"close", s>>}
    /\ kept' = kept \ {s}
    /\ UNCHANGED <<up, timer, closing, clearing, index, wipe, born, gone, unread, shadowed, masked, missed>>

\* POST /terminal/sessions/clear-all: the sessions of this moment, one by one,
\* each after its processes were awaited; after the last one the index.
ClearStep(m, q, left) ==
    /\ clearing' = left
    /\ IF left = {}
       THEN LET n == [m EXCEPT !.indexDirty = TRUE]
            IN  RequestPersist(n, q, FALSE, Unwritten(n), None)
       ELSE mem' = m /\ pump' = q

ClearAll ==
    /\ Serving /\ clearing = None /\ Event
    /\ ClearStep(mem, pump, mem.listed)
    /\ UNCHANGED <<up, timer, closing, waiting, diskVars, wipe, born, told, missed>>

ClearOne(s) ==
    /\ up /\ clearing # None /\ s \in clearing
    /\ ClearStep(Dropped(mem, s), AgedPump(s), clearing \ {s})
    /\ disk' = Aged(disk, s)
    /\ waiting' = waiting \cup {<<"clear", s>>}
    /\ kept' = kept \ {s}
    /\ UNCHANGED <<up, timer, closing, index, wipe, born, gone, unread, shadowed, masked, missed, events>>

-----------------------------------------------------------------------------
(* The end of the process and the next boot.                                *)

\* close(): the timer is dropped and everything flushed.
Shutdown ==
    /\ Serving /\ Event
    /\ timer' = FALSE
    /\ RequestPersist(mem, pump, TRUE, None, None)
    /\ closing' = IF pump'.running THEN "flushing" ELSE "flushed"
    /\ UNCHANGED <<up, clearing, waiting, diskVars, wipe, born, told, missed>>

\* The process is gone.  A clear-all without an answer has failed for the
\* relay that asked for it.
Ends ==
    /\ up' = FALSE
    /\ mem' = Blank /\ pump' = Idle /\ timer' = FALSE /\ closing' = "no"
    /\ clearing' = None /\ waiting' = {} /\ masked' = FALSE
    /\ wipe' = (wipe \/ clearing # None)
    /\ missed' = {}
    /\ UNCHANGED <<diskVars, born, gone, kept, unread, shadowed>>

Exit == up /\ closing = "flushed" /\ Ends /\ UNCHANGED events

Crash == up /\ Event /\ Ends

\* POST /terminal-host/stop of the relay after a clear-all that failed.
Unlink ==
    /\ ~up /\ wipe
    /\ wipe' = FALSE /\ index' = None
    /\ gone' = gone \cup born /\ kept' = {}
    /\ UNCHANGED <<up, hostVars, disk, born, unread, shadowed, masked, missed, events>>

\* The records on disk that are not among those named.
Stray(named) == {s \in Sessions : disk[s] # "none"} \ named

\* pruneSessionRecords: the records that are not to be kept are removed.  A
\* removal may fail, and then the record stays until another boot.
Pruned(keep, failed, left) ==
    [s \in Sessions |-> IF s \in left \cup failed THEN "stale"
                        ELSE IF s \in keep THEN "current" ELSE "none"]

\* restore with an index: what it names is read back, what it does not name is
\* pruned.  Reading a record may fail, and then it is left alone.
Restores(failed, left) ==
    LET named == {s \in index : disk[s] # "none"}
    IN  /\ failed \subseteq named /\ left \subseteq Stray(index)
        /\ mem' = [Blank EXCEPT !.listed = named \ failed, !.known = named \ failed]
        /\ disk' = Pruned(named, failed, left)
        /\ missed' = (index \ (named \ failed)) \cup left
        /\ unread' = unread \cup failed

\* Without one there are no sessions, and every record is pruned.
StartsEmpty(left) ==
    /\ left \subseteq Stray({}) /\ disk' = Pruned({}, {}, left) /\ missed' = left
    /\ UNCHANGED <<mem, unread>>

\* A boot that can neither read nor remove some of the files counts once.
Boot ==
    /\ ~up /\ ~wipe /\ up' = TRUE
    /\ \/ \E left \in SUBSET Sessions :
            /\ index = None /\ StartsEmpty(left)
            /\ IF left = {} THEN UNCHANGED events ELSE Event
       \/ \E failed, left \in SUBSET Sessions :
            /\ index # None /\ Restores(failed, left)
            /\ IF failed \cup left = {} THEN UNCHANGED events ELSE Event
       \/ \* the index itself cannot be read: nothing is restored or pruned
          /\ index # None /\ Event
          /\ missed' = Sessions /\ unread' = unread \cup index
          /\ UNCHANGED <<mem, disk>>
    /\ UNCHANGED <<pump, timer, closing, clearing, waiting, index, wipe, born, gone, kept,
                   shadowed, masked>>

PumpStep ==
    \/ \E s \in Sessions : WriteRecord(s) \/ RecordFails(s) \/ RemoveRecord(s) \/ RemovalFails(s)
    \/ WriteIndex \/ IndexFails \/ EndPass

Next ==
    \/ PumpStep \/ TimerFires \/ Theme \/ ClearAll \/ Shutdown
    \/ \E s \in Sessions :
          Create(s) \/ CreateFails(s) \/ Output(s) \/ Changed(s) \/ Close(s) \/ ClearOne(s)
    \/ Exit \/ Crash \/ Unlink \/ Boot

\* File calls come back and timers fire.
Fairness == WF_vars(PumpStep) /\ WF_vars(TimerFires)

Spec == Init /\ [][Next]_vars /\ Fairness

-----------------------------------------------------------------------------
(* Properties.                                                              *)

Copies == {"current", "stale"}

\* The types; and that the pump is idle and nobody waits unless it runs.
TypeOK ==
    /\ up \in BOOLEAN /\ timer \in BOOLEAN /\ wipe \in BOOLEAN /\ masked \in BOOLEAN
    /\ mem.listed \subseteq mem.known /\ mem.known \subseteq born
    /\ mem.dirty \subseteq mem.known /\ mem.order \subseteq mem.dirty \X mem.dirty
    /\ mem.unpersisted \subseteq mem.listed \cap mem.dirty
    /\ mem.removed \subseteq mem.known \ mem.listed
    /\ pump.stage \in {"write", "rm", "index", "end"}
    /\ pump.running \/ (pump = [Idle EXCEPT !.ok = pump.ok] /\ clearing # {})
    /\ \A s \in DOMAIN pump.batch : pump.batch[s] \in Copies
    /\ disk \in [Sessions -> Copies \cup {"none"}]
    /\ index = None \/ index \subseteq born
    /\ closing \in {"no", "flushing", "flushed"}
    /\ clearing = None \/ clearing \subseteq born
    /\ events \in 0..MaxEvents

\* A session whose close, or whose clear-all, was answered with success is not
\* named by the index, so that no later boot brings the tab back (the contract
\* of persistIndexNowOrThrow).
ClosedIsGone ==
    \A s \in gone \ shadowed : s \notin mem.listed /\ (index = None \/ s \notin index)

\* The index and the records agree: a session is named only once its record is
\* written (unpersistedIds), and one whose creation was answered after a clean
\* save is named and has its record, whatever else is saved, fails or crashes,
\* until someone closes it.
IndexAgrees ==
    /\ index # None => \A s \in index \cap mem.listed : disk[s] # "none"
    /\ \A s \in kept \ (unread \cup shadowed) :
          index # None /\ s \in index /\ disk[s] # "none"

\* When nothing is marked and the pump rests, the disk holds the sessions as
\* they are, names each of them, and holds nothing else but what the boot could
\* neither read nor remove.
RestingIsOnDisk ==
    (up /\ ~pump.running /\ ~HasPendingWork(mem)) =>
        /\ \A s \in mem.listed : disk[s] = "current" /\ index # None /\ s \in index
        /\ \A s \in Sessions \ (mem.listed \cup missed) :
              disk[s] = "none" /\ (index = None \/ s \notin index)

\* A marked session has its turn in some pass, however much the others print,
\* unless a save fails or the process ends.
EveryMarkHasItsTurn ==
    \A s \in Sessions :
        (up /\ s \in mem.dirty /\ (timer \/ pump.running))
            ~> (~up \/ s \notin mem.dirty \/ ~pump.ok)

-----------------------------------------------------------------------------
(* Statements of comments that the code does not keep.                      *)

\* "a transient failure to read must not become the loss of a tail": a
\* confirmed session keeps its record (readPersistedRecords).
KeptDespiteABlip == \A s \in kept \ shadowed : disk[s] # "none"

\* A confirmed close is on disk when it is confirmed, also when the spawn of
\* another session failed meanwhile.
GoneDespiteASpawn == \A s \in gone : index = None \/ s \notin index

\* "the index names it, the file is gone" appears on no path.
NamedIsThere == index # None => \A s \in index : disk[s] # "none"

\* close() reports complete only when the whole state is on disk.
CompleteIsWhole ==
    [][Exit /\ ~HasPendingWork(mem) =>
         \A s \in mem.listed : disk[s] = "current" /\ index # None /\ s \in index]_vars
=============================================================================
