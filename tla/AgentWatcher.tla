---------------------------- MODULE AgentWatcher ----------------------------
(***************************************************************************)
(* The agent watcher of the watchdog process                               *)
(* (src/src/agents/agent-watcher.mjs) over a relay that counts its own     *)
(* failures (src/src/shared/service-health.mjs): a tick starts the relay   *)
(* when a client runs without one, and restarts a relay that stays         *)
(* degraded, within a budget per window.                                   *)
(*                                                                         *)
(* Moments are kept as ages, which Elapse advances and caps where the code *)
(* can no longer tell them apart.  What starting and stopping a relay      *)
(* involves is the business of RelayLifecycle; here each is one call with  *)
(* an outcome.                                                             *)
(***************************************************************************)
EXTENDS NoValue, Integers, FiniteSets, Sequences

CONSTANTS
    Threshold,  \* DEFAULT_DEGRADED_THRESHOLD
    Grace,      \* degradedGraceMs
    Backoff,    \* healBackoffMs: the wait after the first, second... restart
    Budget,     \* healBudget
    Window      \* healBudgetWindowMs

ASSUME WatcherAssumption ==
    /\ Threshold \in Nat \ {0}
    /\ Grace \in Nat \ {0}
    /\ Budget \in Nat \ {0}
    /\ Window \in Nat \ {0}
    /\ Backoff \in Seq(Nat \ {0}) /\ Backoff # <<>>
    /\ None \notin Nat

VARIABLES
    follow,         \* settings.followAgent
    client,         \* some coding agent's process runs
    relay,          \* "down", or "up" and answering the probe
    failures,       \* consecutiveFailures of the relay
    awaits,         \* what the tick awaits; "idle" when inFlight is false
    saw,            \* the relay status the tick read
    degradedFor,    \* age of degradedSince
    healAttempts,   \* ages of the restarts the watcher remembers
    nextHealIn,     \* time left until nextHealAt
    restarts,       \* history: ages of the restarts made for degradation
    sickFor         \* history: time since a tick last saw a relay not degraded

watcherVars == <<follow, client, relay, failures, awaits, saw, degradedFor, healAttempts,
          nextHealIn, restarts, sickFor>>

relayVars == <<relay, failures>>
watchVars == <<degradedFor, healAttempts, nextHealIn>>
history   == <<restarts, sickFor>>

Degraded == relay = "up" /\ failures >= Threshold
Well     == relay = "up" /\ failures < Threshold

WatcherInit ==
    /\ follow \in BOOLEAN /\ client \in BOOLEAN
    /\ relay = "down" /\ failures = 0
    /\ awaits = "idle" /\ saw = None
    /\ degradedFor = None /\ healAttempts = {} /\ nextHealIn = None
    /\ restarts = {} /\ sickFor = 0

-----------------------------------------------------------------------------
(* Time, the user and the relay's own requests.                             *)

Capped(n, cap) == IF n > cap THEN cap ELSE n

\* One unit of time.  Ages stop counting where no comparison can change.
Elapse ==
    /\ degradedFor' = IF degradedFor = None THEN None
                      ELSE Capped(degradedFor + 1, Grace)
    /\ healAttempts' = {Capped(a + 1, Window) : a \in healAttempts}
    /\ nextHealIn' = IF nextHealIn \in {None, 0} THEN nextHealIn
                     ELSE nextHealIn - 1
    /\ restarts' = {a + 1 : a \in {b \in restarts : b + 1 < Window}}
    /\ sickFor' = Capped(sickFor + 1, Grace)
    /\ UNCHANGED <<follow, client, relayVars, awaits, saw>>

SettingsChange ==
    /\ follow' = ~follow
    /\ UNCHANGED <<client, relayVars, awaits, saw, watchVars, history>>

ClientComesOrGoes ==
    /\ client' = ~client
    /\ UNCHANGED <<follow, relayVars, awaits, saw, watchVars, history>>

\* recordFailure: a request failed for a reason of the relay's own.
RecordFailure ==
    /\ relay = "up" /\ failures < Threshold
    /\ failures' = failures + 1
    /\ UNCHANGED <<follow, client, relay, awaits, saw, watchVars, history>>

\* recordSuccess: a request reached its upstream.
RecordSuccess ==
    /\ relay = "up" /\ failures > 0
    /\ failures' = 0
    /\ UNCHANGED <<follow, client, relay, awaits, saw, watchVars, history>>

\* The relay dies, or the panel stops it.
RelayDies ==
    /\ relay = "up"
    /\ relay' = "down" /\ failures' = 0
    /\ UNCHANGED <<follow, client, awaits, saw, watchVars, history>>

\* The panel or a launcher starts it.
RelayStartedElsewhere ==
    /\ relay = "down"
    /\ relay' = "up" /\ failures' = 0
    /\ UNCHANGED <<follow, client, awaits, saw, watchVars, history>>

-----------------------------------------------------------------------------
(* One tick, from await to await.                                           *)

\* The interval fires with no tick in flight; the settings may be unreadable.
TickFires ==
    /\ awaits = "idle" /\ follow
    /\ awaits' = "scanning"
    /\ UNCHANGED <<follow, client, relayVars, saw, watchVars, history>>

\* Variant: the scan's answer is not awaited, so no client is ever counted.
ScannedUnawaited ==
    /\ awaits = "scanning"
    /\ awaits' = "idle"
    /\ UNCHANGED <<follow, client, relayVars, saw, watchVars, history>>

\* scanProcesses answered.
Scanned ==
    /\ awaits = "scanning"
    /\ awaits' = IF client THEN "probing" ELSE "idle"
    /\ UNCHANGED <<follow, client, relayVars, saw, watchVars, history>>

\* getRelayStatus reads the relay; what it answers is used one await later.
Probed ==
    /\ awaits = "probing"
    /\ saw' = IF Degraded THEN "degraded" ELSE IF Well THEN "well" ELSE "down"
    /\ awaits' = "judging"
    /\ UNCHANGED <<follow, client, relayVars, watchVars, history>>

\* The probe of a relay that lives times out or fails: getRelayStatus answers
\* that none is running.
ProbeUnanswered ==
    /\ awaits = "probing" /\ relay = "up"
    /\ saw' = "down"
    /\ awaits' = "judging"
    /\ UNCHANGED <<follow, client, relayVars, watchVars, history>>

\* Variant: a recovery gives the budget back.
OnRelayHealthyRefund ==
    degradedFor' = None /\ nextHealIn' = None /\ healAttempts' = {}

\* Variant: a recovery does not restart the grace.
OnRelayHealthyKeepsClock == nextHealIn' = None /\ UNCHANGED <<degradedFor, healAttempts>>

\* onRelayHealthy: it ends the present degradation and refunds no attempt.
OnRelayHealthy ==
    degradedFor' = None /\ nextHealIn' = None /\ UNCHANGED healAttempts

NotRunning ==
    /\ awaits = "judging" /\ saw = "down"
    /\ OnRelayHealthy
    /\ awaits' = "starting" /\ sickFor' = 0
    /\ UNCHANGED <<follow, client, relayVars, saw, restarts>>

RunningWell ==
    /\ awaits = "judging" /\ saw = "well"
    /\ OnRelayHealthy
    /\ awaits' = "idle" /\ sickFor' = 0
    /\ UNCHANGED <<follow, client, relayVars, saw, restarts>>

\* The first tick that sees it degraded only starts the clock.
FirstSight ==
    /\ awaits = "judging" /\ saw = "degraded" /\ degradedFor = None
    /\ degradedFor' = 0
    /\ awaits' = "idle"
    /\ UNCHANGED <<follow, client, relayVars, saw, healAttempts, nextHealIn, history>>

Recent == {a \in healAttempts : a < Window}

WaitAfter(n) == Backoff[Capped(n + 1, Len(Backoff))]

\* Variant: a wait that was set is never seen to be over.
MayHealOnlyUnset ==
    /\ degradedFor = Grace
    /\ Cardinality(Recent) < Budget
    /\ nextHealIn = None

\* Grace over, budget left, backoff over.
MayHeal ==
    /\ degradedFor = Grace
    /\ Cardinality(Recent) < Budget
    /\ nextHealIn \in {None, 0}

\* The grace is not over: the tick returns before it looks at the attempts.
StillWatching ==
    /\ awaits = "judging" /\ saw = "degraded" /\ degradedFor \in 0..(Grace - 1)
    /\ awaits' = "idle"
    /\ UNCHANGED <<follow, client, relayVars, saw, watchVars, history>>

\* The budget is used up, or the backoff runs.
HoldsBack ==
    /\ awaits = "judging" /\ saw = "degraded" /\ degradedFor = Grace /\ ~MayHeal
    /\ healAttempts' = Recent
    /\ awaits' = "idle"
    /\ UNCHANGED <<follow, client, relayVars, saw, degradedFor, nextHealIn, history>>

Heals ==
    /\ awaits = "judging" /\ saw = "degraded" /\ MayHeal
    /\ healAttempts' = Recent \cup {0}
    /\ nextHealIn' = WaitAfter(Cardinality(Recent))
    /\ restarts' = restarts \cup {0}
    /\ awaits' = "restarting"
    /\ UNCHANGED <<follow, client, relayVars, saw, degradedFor, sickFor>>

\* startRelay returned: it came up, somebody else's was reused, or it did not.
Started ==
    /\ awaits = "starting"
    /\ \/ relay = "down" /\ relay' = "up" /\ failures' = 0
       \/ UNCHANGED relayVars
    /\ awaits' = "idle"
    /\ UNCHANGED <<follow, client, saw, watchVars, history>>

\* restartRelay returned: a new relay, none (the start failed), or the old one
\* (the stop was refused).
Restarted ==
    /\ awaits = "restarting"
    /\ \/ relay' \in {"up", "down"} /\ failures' = 0
       \/ UNCHANGED relayVars
    /\ awaits' = "idle"
    /\ UNCHANGED <<follow, client, saw, watchVars, history>>

Judge == NotRunning \/ RunningWell \/ FirstSight \/ StillWatching \/ HoldsBack \/ Heals

Tick == TickFires \/ Scanned \/ Probed \/ ProbeUnanswered \/ Judge \/ Started \/ Restarted

Environment == SettingsChange \/ ClientComesOrGoes \/ RecordFailure \/ RecordSuccess
                \/ RelayDies \/ RelayStartedElsewhere

WatcherNext == Elapse \/ Tick \/ Environment

(***************************************************************************)
(* The interval timer keeps firing and every await of the tick ends: the   *)
(* scan, the probe and the waits of startRelay and restartRelay all carry  *)
(* timeouts.  The clock advances.  A start that is repeated is not made to *)
(* fail forever.                                                           *)
(***************************************************************************)
StartSucceeds == awaits = "starting" /\ Started /\ relay' = "up"

WatcherSpec ==
    /\ WatcherInit /\ [][WatcherNext]_watcherVars
    /\ WF_watcherVars(Tick) /\ WF_watcherVars(Elapse) /\ SF_watcherVars(StartSucceeds)

-----------------------------------------------------------------------------
Ages == 0..Grace

WatcherTypeOK ==
    /\ follow \in BOOLEAN /\ client \in BOOLEAN
    /\ relay \in {"up", "down"} /\ failures \in 0..Threshold
    /\ awaits \in {"idle", "scanning", "probing", "judging", "starting", "restarting"}
    /\ saw \in {"down", "well", "degraded", None}
    /\ degradedFor \in Ages \cup {None}
    /\ healAttempts \subseteq 0..Window
    /\ nextHealIn \in Nat \cup {None}
    /\ restarts \subseteq 0..(Window - 1)
    /\ sickFor \in Ages

(***************************************************************************)
(* However often the relay recovers, degrades, dies or is replaced in      *)
(* between, no window holds more restarts for degradation than the budget. *)
(* (agent-watcher.mjs: healAttempts survives onRelayHealthy.)              *)
(***************************************************************************)
BudgetHeld == Cardinality(restarts) <= Budget

(***************************************************************************)
(* A relay is restarted for degradation only when no look of the watcher   *)
(* during the whole grace found it well or down.  (degradedSince is the    *)
(* first sight since the last recovery the watcher saw.)                   *)
(***************************************************************************)
GraceUnbroken == [][Heals => sickFor = Grace]_watcherVars

(***************************************************************************)
(* While clients run and the switch is on, a relay that is down is brought *)
(* back.                                                                   *)
(***************************************************************************)
Watched == follow /\ client

RelayComesBack == (<>[]Watched) => []<>(relay = "up")

(***************************************************************************)
(* Giving up lasts no longer than the window: a relay that stays degraded  *)
(* while clients run is restarted again, provided that it answers the      *)
(* probe from some time on.  (A probe that is not answered reads as a      *)
(* relay that is down, and takes degradedSince back.)                      *)
(***************************************************************************)
GivingUpEnds ==
    (<>[](Watched /\ Degraded) /\ <>[][~ProbeUnanswered]_watcherVars)
        => []<>(awaits = "restarting")

(***************************************************************************)
(* "relay running but DEGRADED ... -> restart it, under backoff and a      *)
(* rolling budget", whatever the probe does.                               *)
(***************************************************************************)
DegradedIsRestarted == (<>[](Watched /\ Degraded)) => []<>(awaits = "restarting")
=============================================================================
