------------------------- MODULE TerminalSupervisor -------------------------
(***************************************************************************)
(* The relay's supervisor of the terminal host and the panel's start and   *)
(* stop requests (createTerminalHostSupervisor, createTerminalHostRoutes   *)
(* of src/src/relay/relay-host.mjs), with the sweep of leftovers           *)
(* (stopStaleTerminalHost), crashes of the host and restarts of the relay. *)
(*                                                                         *)
(* The identity of a host process is used again once it has ended and no   *)
(* request still waits for it.  Moments are ages, advanced by Elapse.      *)
(***************************************************************************)
EXTENDS Naturals, FiniteSets, Sequences

CONSTANTS
    Hosts,      \* identities of terminal host processes
    Requests,   \* panel requests being handled
    Window,     \* TERMINAL_HOST_RESTART_WINDOW_MS
    Budget,     \* TERMINAL_HOST_RESTART_BUDGET
    None

ASSUME SupervisorAssumption ==
    /\ Window \in Nat /\ Budget \in Nat
    /\ None \notin Hosts

VARIABLES
    live,       \* host processes that run
    doomed,     \* killed, or orphaned and about to notice it
    child,      \* the handle the supervisor holds
    stopping,   \* stop() asked the child to go
    manual,     \* manualStopFlag of the supervisor
    saved,      \* settings.terminalHostManualStop
    inFlight,   \* startInFlight: a start sweeps and spawns
    timer,      \* restartTimer is armed
    restarts,   \* ages of the automatic restarts, oldest first
    req,        \* what a request awaits; "idle" when there is none
    target,     \* the child a stop request waits for
    repairs,    \* history: ages of the automatic restarts granted since the
                \*          last deliberate start
    wish,       \* history: the request that came last
    raced,      \* history: a start was under way when that request came, or
                \*          another request came before it was answered
    unread      \* history: the relay booted without having read the settings,
                \*          and no request came since

procVars == <<live, doomed>>
supVars  == <<child, stopping, inFlight, timer, restarts>>
reqVars  == <<req, target>>
flags    == <<manual, saved>>
history  == <<repairs, wish, raced, unread>>
vars     == <<procVars, supVars, flags, reqVars, history>>

\* The flag a booting relay goes by: settings that cannot be read, or parsed,
\* hold no flag.
FlagRead(readable) == readable /\ saved

\* createTerminalHostSupervisor and the boot of a relay: the host is started
\* unless the flag says the user stopped it.
Init ==
    /\ live = {} /\ doomed = {}
    /\ saved \in BOOLEAN
    /\ \E readable \in BOOLEAN : manual = FlagRead(readable) /\ unread = ~readable
    /\ child = None /\ stopping = FALSE /\ inFlight = ~manual
    /\ timer = FALSE /\ restarts = <<>>
    /\ req = [r \in Requests |-> "idle"] /\ target = [r \in Requests |-> None]
    /\ repairs = <<>>
    /\ wish = IF saved THEN "stop" ELSE "start"
    /\ raced = FALSE

Busy == \E r \in Requests : req[r] # "idle"

-----------------------------------------------------------------------------
(* Starting.                                                                *)

\* A deliberate start cancels the pending restart and re-arms the breaker.
Rearms == restarts' = <<>> /\ repairs' = <<>> /\ timer' = FALSE

\* POST /terminal-host/start.  A live child is a no-op; a start under way is
\* shared.  "starting" awaits the promise, "readying" the host's port.
StartRequest(r) ==
    /\ req[r] = "idle"
    /\ IF child # None
       THEN /\ req' = [req EXCEPT ![r] = "readying"]
            /\ UNCHANGED <<restarts, repairs, timer, inFlight>>
       ELSE /\ req' = [req EXCEPT ![r] = "starting"]
            /\ Rearms /\ inFlight' = TRUE
    /\ wish' = "start" /\ raced' = (inFlight \/ Busy) /\ unread' = FALSE
    /\ UNCHANGED <<procVars, child, stopping, flags, target>>

Starting == {r \in Requests : req[r] = "starting"}

MoveAll(rs, to) == [r \in Requests |-> IF r \in rs THEN to ELSE req[r]]

\* Variant: the handle of the last stop stays in force.
StopForgottenNever == UNCHANGED stopping

StopForgotten == stopping' = FALSE

\* startInner, after its awaits, spawns; nobody looks at the flag again.
Spawn(h) ==
    /\ inFlight
    /\ h \notin live /\ h # child /\ \A r \in Requests : target[r] # h
    /\ live' = live \cup {h} /\ child' = h
    /\ StopForgotten /\ inFlight' = FALSE
    /\ req' = MoveAll(Starting, "readying")
    /\ UNCHANGED <<doomed, flags, timer, restarts, target, history>>

\* The sweep kills what is left of an earlier host, before the spawn.
SweepKills(h) ==
    /\ inFlight /\ h \in live /\ h # child
    /\ doomed' = doomed \cup {h}
    /\ UNCHANGED <<live, supVars, flags, reqVars, history>>

\* The port belongs to a process that may not be killed, or spawn threw.
StartFails ==
    /\ inFlight
    /\ inFlight' = FALSE
    /\ req' = MoveAll(Starting, "idle")
    /\ UNCHANGED <<procVars, child, stopping, flags, timer, restarts, target, history>>

\* The sessions endpoint answered: only now is the flag cleared, in the settings
\* and in the supervisor.
Readied(r) ==
    /\ req[r] = "readying" /\ live # {}
    /\ manual' = FALSE /\ saved' = FALSE
    /\ req' = [req EXCEPT ![r] = "idle"]
    /\ UNCHANGED <<procVars, supVars, target, history>>

ReadyTimesOut(r) ==
    /\ req[r] = "readying"
    /\ req' = [req EXCEPT ![r] = "idle"]
    /\ UNCHANGED <<procVars, supVars, flags, target, history>>

-----------------------------------------------------------------------------
(* Stopping.                                                                *)

\* supervisor.stop(), up to its await.
StopChild(r) ==
    /\ timer' = FALSE
    /\ IF child = None
       THEN /\ req' = [req EXCEPT ![r] = "idle"]
            /\ UNCHANGED <<stopping, doomed, target>>
       ELSE /\ req' = [req EXCEPT ![r] = "stopping"]
            /\ stopping' = TRUE /\ doomed' = doomed \cup {child}
            /\ target' = [target EXCEPT ![r] = child]

\* POST /terminal-host/stop: the flag first, then perhaps clear-all.
StopRequest(r) ==
    /\ req[r] = "idle"
    /\ manual' = TRUE /\ saved' = TRUE
    /\ wish' = "stop" /\ raced' = (inFlight \/ Busy) /\ unread' = FALSE
    /\ \/ StopChild(r)
       \/ /\ req' = [req EXCEPT ![r] = "clearing"]
          /\ UNCHANGED <<stopping, doomed, target, timer>>
    /\ UNCHANGED <<live, child, inFlight, restarts, repairs>>

\* The sessions are cleared, or that failed and the state file goes later.
Cleared(r) ==
    /\ req[r] = "clearing"
    /\ StopChild(r)
    /\ UNCHANGED <<live, child, inFlight, restarts, flags, history>>

\* The child is gone, or the wait is over: the handle is dropped either way.
StopEnds(r) ==
    /\ req[r] = "stopping"
    /\ child' = IF child = target[r] THEN None ELSE child
    /\ req' = [req EXCEPT ![r] = "idle"] /\ target' = [target EXCEPT ![r] = None]
    /\ UNCHANGED <<procVars, stopping, flags, inFlight, timer, restarts, history>>

-----------------------------------------------------------------------------
(* Exits, the restart timer and time.                                       *)

\* The restarts that left the window are shifted off the front.
FirstRecent(ages) ==
    CHOOSE n \in 1..(Len(ages) + 1) :
       /\ \A i \in 1..(n - 1) : ages[i] > Window
       /\ n <= Len(ages) => ages[n] <= Window

Recent(ages) == SubSeq(ages, FirstRecent(ages), Len(ages))

\* Variant: one restart too many.
BudgetLeftInclusive(recent) == Len(recent) <= Budget

BudgetLeft(recent) == Len(recent) < Budget

\* scheduleRestart.
ScheduleRestart ==
    LET recent == Recent(restarts)
    IN  IF BudgetLeft(recent)
        THEN restarts' = Append(recent, 0) /\ repairs' = Append(repairs, 0) /\ timer' = TRUE
        ELSE restarts' = recent /\ UNCHANGED <<repairs, timer>>

Ends(h) == live' = live \ {h} /\ doomed' = doomed \ {h}

\* Variant: any exit counts as the child's.
ForgottenEndsHeard(h) ==
    /\ h \in live /\ h # child
    /\ Ends(h) /\ child' = None
    /\ UNCHANGED <<stopping, inFlight, timer, restarts, flags, reqVars, history>>

\* A process whose handle was dropped: its exit is not heard.
ForgottenEnds(h) ==
    /\ h \in live /\ h # child
    /\ Ends(h)
    /\ UNCHANGED <<supVars, flags, reqVars, history>>

\* The child of a stop ends.
StoppedEnds(h) ==
    /\ h \in live /\ h = child /\ stopping
    /\ Ends(h)
    /\ child' = None /\ stopping' = FALSE
    /\ UNCHANGED <<inFlight, timer, restarts, flags, reqVars, history>>

\* The child ends on its own; it is restarted unless the user stopped it.
Crashed(h) ==
    /\ h \in live /\ h = child /\ ~stopping
    /\ Ends(h) /\ child' = None
    /\ IF manual THEN UNCHANGED <<timer, restarts, repairs>> ELSE ScheduleRestart
    /\ UNCHANGED <<stopping, inFlight, flags, reqVars, wish, raced, unread>>

\* Variant: the timer's callback only clears the timer.
TimerFiresIdly ==
    /\ timer
    /\ timer' = FALSE
    /\ UNCHANGED <<procVars, child, stopping, inFlight, restarts, flags, reqVars, history>>

TimerFires ==
    /\ timer
    /\ timer' = FALSE
    /\ inFlight' = (inFlight \/ ~(stopping \/ manual \/ child # None))
    /\ UNCHANGED <<procVars, child, stopping, restarts, flags, reqVars, history>>

Older(ages) == [i \in DOMAIN ages |-> IF ages[i] > Window THEN ages[i] ELSE ages[i] + 1]

Elapse ==
    /\ restarts' = Older(restarts)
    /\ repairs' = Recent(Older(repairs))
    /\ UNCHANGED <<procVars, child, stopping, inFlight, timer, flags, reqVars, wish, raced, unread>>

\* Variant: a relay that boots starts the host whatever the settings say.
BootStartsAlways(flag) == TRUE

BootStarts(flag) == ~flag

\* The relay dies with all its handles and another boots; the hosts it leaves
\* see that their parent is gone.
RelayRestarts ==
    /\ doomed' = live
    /\ child' = None /\ stopping' = FALSE /\ timer' = FALSE /\ restarts' = <<>>
    /\ \E readable \in BOOLEAN :
        /\ manual' = FlagRead(readable) /\ unread' = ~readable
        /\ inFlight' = BootStarts(FlagRead(readable))
    /\ req' = [r \in Requests |-> "idle"] /\ target' = [r \in Requests |-> None]
    /\ repairs' = <<>>
    /\ wish' = IF saved THEN "stop" ELSE "start"
    /\ raced' = FALSE
    /\ UNCHANGED <<live, saved>>

-----------------------------------------------------------------------------
Exits(h) == ForgottenEnds(h) \/ StoppedEnds(h) \/ Crashed(h)

Request(r) == StartRequest(r) \/ StopRequest(r)

Progress(r) == Readied(r) \/ ReadyTimesOut(r) \/ Cleared(r) \/ StopEnds(r)

Next ==
    \/ \E h \in Hosts : Spawn(h) \/ SweepKills(h) \/ Exits(h)
    \/ \E r \in Requests : Request(r) \/ Progress(r)
    \/ StartFails \/ TimerFires \/ Elapse \/ RelayRestarts

(***************************************************************************)
(* A start that sweeps ends, an armed timer fires and a killed process     *)
(* goes.  Waits of requests carry timeouts.                                *)
(***************************************************************************)
Fairness ==
    /\ WF_vars(StartFails \/ \E h \in Hosts : Spawn(h))
    /\ WF_vars(TimerFires)
    /\ \A h \in Hosts : WF_vars(h \in doomed /\ Exits(h))
    /\ \A r \in Requests : WF_vars(Progress(r))

Spec == Init /\ [][Next]_vars /\ Fairness

-----------------------------------------------------------------------------
TypeOK ==
    /\ live \subseteq Hosts /\ doomed \subseteq live
    /\ child \in Hosts \cup {None}
    /\ stopping \in BOOLEAN /\ manual \in BOOLEAN /\ saved \in BOOLEAN /\ inFlight \in BOOLEAN /\ timer \in BOOLEAN
    /\ restarts \in Seq(0..(Window + 1)) /\ repairs \in Seq(0..Window)
    /\ req \in [Requests -> {"idle", "starting", "readying", "clearing", "stopping"}]
    /\ target \in [Requests -> Hosts \cup {None}]
    /\ wish \in {"start", "stop"} /\ raced \in BOOLEAN /\ unread \in BOOLEAN

(***************************************************************************)
(* No host process is lost: one that is not on its way out is the one the  *)
(* supervisor holds.  (startInFlight is shared, the exit handler ignores   *)
(* every process but the child.)                                           *)
(***************************************************************************)
OnlyTheChild == live \ doomed \subseteq {child}

(***************************************************************************)
(* The breaker: between two deliberate starts no window sees more          *)
(* automatic restarts than the budget.                                     *)
(***************************************************************************)
BreakerHolds == Len(repairs) <= Budget

(***************************************************************************)
(* A stop that met no start under way and no other request is final        *)
(* through crashes, timers and restarts of the relay: once it is answered  *)
(* there is no child, and none is being started.  A relay that boots and   *)
(* cannot read its settings starts the host all the same, by intent ("an   *)
(* unreadable settings file must never keep the host down"); the next one  *)
(* that can read them goes by the stop again.                              *)
(***************************************************************************)
StopIsFinal ==
    (wish = "stop" /\ ~raced /\ ~unread /\ ~Busy) => (child = None /\ ~inFlight)

(***************************************************************************)
(* A child that ends without having been asked to is put down for a        *)
(* restart, unless the user stopped the host or the budget is used up:     *)
(* what an earlier stop left behind never makes a crash look like a stop.  *)
(***************************************************************************)
NoCrashIsMissed ==
    [][(child \in live /\ child \notin doomed /\ child \notin live')
        => manual \/ timer' \/ Len(repairs) = Budget]_vars

(***************************************************************************)
(* A restart that was granted is carried out, or the user stops the host   *)
(* first, unless a stop was waiting for clear-all when it was granted.     *)
(***************************************************************************)
CrashIsRepaired ==
    (timer /\ \A r \in Requests : req[r] # "clearing") ~> (inFlight \/ child # None \/ manual)

(***************************************************************************)
(* "A persisted manual-stop flag means the user shut it down from the      *)
(* panel - the relay respects that and leaves it down instead of           *)
(* resurrecting it": nothing spawns a host while the flag is set and no    *)
(* start request waits for it.                                             *)
(***************************************************************************)
StoppedStaysDown == [][(\E h \in Hosts : Spawn(h)) => (~manual \/ Starting # {})]_vars
=============================================================================
