-------------------------- MODULE Services_proofs --------------------------
(***************************************************************************)
(* Proofs about the components that start, watch, stop and replace the     *)
(* processes of the application: AgentWatcher, RelayLifecycle and          *)
(* SelfUpdate.  Each section is about one of these modules alone.          *)
(***************************************************************************)
EXTENDS RelayLifecycle, AgentWatcher, SelfUpdate, FiniteSetTheorems, TLAPS

-----------------------------------------------------------------------------
(* AgentWatcher: the budget of restarts.                                    *)

\* Every restart of the last window is one the watcher still counts.  And the
\* sets of ages count restarts, because no two fall into one moment: after one,
\* the backoff or a new grace has to run out first.
BudgetInv ==
    /\ healAttempts \in SUBSET (0..Window)
    /\ restarts \in SUBSET Recent
    /\ BudgetHeld
    /\ 0 \in healAttempts => nextHealIn \notin {None, 0} \/ degradedFor # Grace

\* A set of ages, and what the clock makes of it.
LEMMA AgesAreFinite ==
    ASSUME Window \in Nat, NEW S \in SUBSET (0..Window)
    PROVE  IsFiniteSet(S) /\ Cardinality(S) \in Nat
  <1>1. IsFiniteSet(0..Window)
    BY FS_Interval
  <1>2. IsFiniteSet(S)
    BY <1>1, FS_Subset
  <1>. QED BY <1>2, FS_CardinalityType

LEMMA ClockKeepsCount ==
    ASSUME Window \in Nat, NEW S \in SUBSET (0..Window)
    PROVE  Cardinality({a + 1 : a \in {b \in S : b + 1 < Window}}) <= Cardinality(S)
  <1>. DEFINE R == {b \in S : b + 1 < Window}
              T == {a + 1 : a \in R}
              f == [a \in R |-> a + 1]
  <1>1. IsFiniteSet(S) /\ Cardinality(S) \in Nat
    BY AgesAreFinite
  <1>2. IsFiniteSet(R) /\ Cardinality(R) <= Cardinality(S)
    <2>1. R \in SUBSET S
      OBVIOUS
    <2>. HIDE DEF R
    <2>. QED BY <1>1, <2>1, FS_Subset
  <1>3. f \in Surjection(R, T)
    BY DEF Surjection
  <1>4. Cardinality(T) <= Cardinality(R)
    <2>. HIDE DEF R, T, f
    <2>. QED BY <1>2, <1>3, FS_Surjection
  <1>5. Cardinality(R) \in Nat /\ Cardinality(T) \in Nat
    <2>1. \A a \in R : a \in 0..Window /\ a + 1 \in 0..Window
      OBVIOUS
    <2>2. R \in SUBSET (0..Window) /\ T \in SUBSET (0..Window)
      BY <2>1
    <2>. HIDE DEF R, T
    <2>. QED BY <2>2, AgesAreFinite
  <1>. HIDE DEF R, T
  <1>6. Cardinality(T) <= Cardinality(S)
    BY <1>1, <1>2, <1>4, <1>5
  <1>. QED BY <1>6 DEF R, T

\* The backoff is never no time at all.
LEMMA WaitIsPositive ==
    ASSUME NEW n \in Nat
    PROVE  WaitAfter(n) \in Nat \ {0}
  <1>1. Capped(n + 1, Len(Backoff)) \in 1..Len(Backoff)
    BY WatcherAssumption DEF Capped
  <1>. QED BY WatcherAssumption, <1>1 DEF WaitAfter

LEMMA BudgetInvInit == WatcherInit => BudgetInv
  <1>1. Cardinality({}) = 0
    BY FS_EmptySet
  <1>2. ASSUME WatcherInit PROVE BudgetHeld
    BY WatcherAssumption, <1>1, <1>2 DEF WatcherInit, BudgetHeld
  <1>. QED BY <1>2 DEF WatcherInit, BudgetInv, Recent

\* A restart that may be made leaves the window within the budget.
LEMMA OneMoreRestart ==
    ASSUME BudgetInv, Heals
    PROVE  Cardinality(restarts \cup {0}) <= Budget
  <1>1. /\ Recent \in SUBSET (0..Window) /\ restarts \in SUBSET (0..Window)
        /\ Window \in Nat /\ restarts \in SUBSET Recent
    BY WatcherAssumption DEF BudgetInv, Recent
  <1>2. /\ IsFiniteSet(Recent) /\ Cardinality(Recent) \in Nat
        /\ IsFiniteSet(restarts) /\ Cardinality(restarts) \in Nat
    BY <1>1, AgesAreFinite
  <1>3. Cardinality(restarts) <= Cardinality(Recent)
    BY <1>1, <1>2, FS_Subset
  <1>4. Cardinality(restarts \cup {0}) \in {Cardinality(restarts), Cardinality(restarts) + 1}
    BY <1>2, FS_AddElement, Zenon
  <1>5. Cardinality(restarts \cup {0}) \in Nat
    BY <1>2, <1>4
  <1>6. Cardinality(Recent) < Budget
    BY DEF Heals, MayHeal
  <1>. QED BY WatcherAssumption, <1>2, <1>3, <1>4, <1>5, <1>6

LEMMA BudgetInvStep == BudgetInv /\ [WatcherNext]_watcherVars => BudgetInv'
  <1>. SUFFICES ASSUME BudgetInv, [WatcherNext]_watcherVars PROVE BudgetInv'
    OBVIOUS
  <1>0. /\ Window \in Nat \ {0} /\ Grace \in Nat \ {0} /\ None \notin Nat
        /\ healAttempts \in SUBSET (0..Window) /\ restarts \in SUBSET Recent
        /\ Cardinality(restarts) <= Budget
        /\ 0 \in healAttempts => nextHealIn \notin {None, 0} \/ degradedFor # Grace
    BY WatcherAssumption DEF BudgetInv, BudgetHeld
  <1>1. CASE UNCHANGED <<healAttempts, restarts, nextHealIn, degradedFor>>
    BY <1>0, <1>1 DEF BudgetInv, Recent, BudgetHeld
  <1>2. CASE Elapse
    <2>1. healAttempts' = {Capped(a + 1, Window) : a \in healAttempts}
      BY <1>2 DEF Elapse
    <2>2. \A a \in 0..Window : /\ Capped(a + 1, Window) \in 1..Window
                               /\ a + 1 < Window => Capped(a + 1, Window) = a + 1
      BY <1>0 DEF Capped
    <2>3. healAttempts' \in SUBSET (1..Window)
      BY <1>0, <2>1, <2>2
    <2>4. restarts' = {a + 1 : a \in {b \in restarts : b + 1 < Window}}
      BY <1>2 DEF Elapse
    <2>5. restarts \in SUBSET (0..Window) /\ \A a \in restarts : a \in healAttempts
      BY <1>0 DEF Recent
    <2>6. restarts' \in SUBSET Recent'
      <3>1. \A b \in restarts : b + 1 < Window =>
               b + 1 \in healAttempts' /\ b + 1 < Window
        BY <1>0, <2>1, <2>2, <2>5
      <3>. QED BY <2>4, <3>1 DEF Recent
    <2>7. Cardinality(restarts') <= Cardinality(restarts)
      BY <1>0, <2>4, <2>5, ClockKeepsCount
    <2>8. Cardinality(restarts') \in Nat /\ Cardinality(restarts) \in Nat
      <3>1. restarts' \in SUBSET (0..Window)
        BY <2>3, <2>6 DEF Recent
      <3>. QED BY <1>0, <2>5, <3>1, AgesAreFinite
    <2>9. Cardinality(restarts') <= Budget
      BY WatcherAssumption, <1>0, <2>7, <2>8
    <2>10. BudgetHeld'
      BY <2>9 DEF BudgetHeld
    <2>11. 0 \notin healAttempts' /\ healAttempts' \in SUBSET (0..Window)
      BY <2>3
    <2>. QED BY <2>6, <2>10, <2>11 DEF BudgetInv
  <1>3. CASE NotRunning \/ RunningWell \/ FirstSight
    <2>1. degradedFor' # Grace
      BY <1>0, <1>3 DEF NotRunning, RunningWell, FirstSight, OnRelayHealthy
    <2>2. UNCHANGED <<healAttempts, restarts>>
      BY <1>3 DEF NotRunning, RunningWell, FirstSight, OnRelayHealthy, history
    <2>. QED BY <1>0, <2>1, <2>2 DEF BudgetInv, Recent, BudgetHeld
  <1>4. CASE HoldsBack
    <2>1. healAttempts' = Recent /\ UNCHANGED <<restarts, nextHealIn, degradedFor>>
      BY <1>4 DEF HoldsBack, history
    <2>2. Recent' = Recent
      BY <2>1 DEF Recent
    <2>3. healAttempts' \in SUBSET healAttempts
      BY <2>1 DEF Recent
    <2>. QED BY <1>0, <2>1, <2>2, <2>3 DEF BudgetInv, BudgetHeld
  <1>5. CASE Heals
    <2>1. /\ healAttempts' = Recent \cup {0} /\ restarts' = restarts \cup {0}
          /\ nextHealIn' = WaitAfter(Cardinality(Recent))
      BY <1>5 DEF Heals
    <2>2. Recent \in SUBSET (0..Window) /\ \A a \in Recent : a < Window
      BY <1>0 DEF Recent
    <2>3. nextHealIn' \notin {None, 0}
      <3>1. Cardinality(Recent) \in Nat
        BY <1>0, <2>2, AgesAreFinite
      <3>. QED BY <1>0, <2>1, <3>1, WaitIsPositive
    <2>4. healAttempts' \in SUBSET (0..Window)
      BY <1>0, <2>1, <2>2
    <2>5. restarts' \in SUBSET Recent'
      <3>1. \A a \in restarts' : a \in healAttempts' /\ a < Window
        BY <1>0, <2>1, <2>2
      <3>. QED BY <3>1 DEF Recent
    <2>6. Cardinality(restarts') <= Budget
      BY <1>5, <2>1, OneMoreRestart
    <2>7. BudgetHeld'
      BY <2>6 DEF BudgetHeld
    <2>. QED BY <2>3, <2>4, <2>5, <2>7 DEF BudgetInv
  <1>6. CASE Environment \/ TickFires \/ Scanned \/ Probed \/ ProbeUnanswered
               \/ StillWatching \/ Started \/ Restarted \/ UNCHANGED watcherVars
    BY <1>1, <1>6 DEF Environment, TickFires, Scanned, Probed, ProbeUnanswered, StillWatching,
       Started, Restarted, watcherVars, watchVars, history, SettingsChange,
       ClientComesOrGoes, RecordFailure, RecordSuccess, RelayDies,
       RelayStartedElsewhere
  <1>. QED BY <1>2, <1>3, <1>4, <1>5, <1>6 DEF WatcherNext, Tick, Judge

\* No window holds more restarts for degradation than the budget, however
\* often the relay recovers, degrades or dies in between.
THEOREM BudgetIsKept == WatcherSpec => []BudgetHeld
  <1>1. BudgetInv => BudgetHeld
    BY DEF BudgetInv
  <1>. QED BY <1>1, BudgetInvInit, BudgetInvStep, PTL DEF WatcherSpec

\* Two restarts never share a moment, so counting moments counts restarts.
CountedOnce == [][Heals => 0 \notin restarts]_watcherVars

THEOREM EachRestartCounts == WatcherSpec => CountedOnce
  <1>1. BudgetInv => (Heals => 0 \notin restarts)
    BY DEF BudgetInv, Heals, MayHeal, Recent
  <1>2. BudgetInv /\ [WatcherNext]_watcherVars => [Heals => 0 \notin restarts]_watcherVars
    BY <1>1
  <1>. QED BY <1>2, BudgetInvInit, BudgetInvStep, PTL DEF WatcherSpec, CountedOnce

-----------------------------------------------------------------------------
(* AgentWatcher: the grace before a restart.                                *)

\* The clock of the present degradation runs no longer than no look of the
\* watcher has found the relay well or down.
GraceInv ==
    /\ sickFor \in 0..Grace
    /\ degradedFor \in 0..sickFor \cup {None}

LEMMA GraceInvStep == GraceInv /\ [WatcherNext]_watcherVars => GraceInv'
  <1>. SUFFICES ASSUME GraceInv, [WatcherNext]_watcherVars PROVE GraceInv'
    OBVIOUS
  <1>0. Grace \in Nat \ {0} /\ None \notin Nat
    BY WatcherAssumption
  <1>1. CASE UNCHANGED <<degradedFor, sickFor>>
    BY <1>1 DEF GraceInv
  <1>2. CASE Elapse
    BY <1>0, <1>2 DEF Elapse, Capped, GraceInv
  <1>3. CASE NotRunning \/ RunningWell
    BY <1>0, <1>3 DEF NotRunning, RunningWell, OnRelayHealthy, GraceInv
  <1>4. CASE FirstSight
    BY <1>0, <1>4 DEF FirstSight, history, GraceInv
  <1>5. CASE HoldsBack \/ Heals
    BY <1>1, <1>5 DEF HoldsBack, Heals, history
  <1>6. CASE Environment \/ TickFires \/ Scanned \/ Probed \/ ProbeUnanswered
               \/ StillWatching \/ Started \/ Restarted \/ UNCHANGED watcherVars
    BY <1>1, <1>6 DEF Environment, TickFires, Scanned, Probed, ProbeUnanswered, StillWatching,
       Started, Restarted, watcherVars, watchVars, history, SettingsChange,
       ClientComesOrGoes, RecordFailure, RecordSuccess, RelayDies,
       RelayStartedElsewhere
  <1>. QED BY <1>2, <1>3, <1>4, <1>5, <1>6 DEF WatcherNext, Tick, Judge

\* A relay is restarted for degradation only after a whole grace in which no
\* look of the watcher found it well or down.
THEOREM GraceIsGiven == WatcherSpec => GraceUnbroken
  <1>1. WatcherInit => GraceInv
    BY WatcherAssumption DEF WatcherInit, GraceInv
  <1>2. GraceInv => (Heals => sickFor = Grace)
    BY WatcherAssumption DEF GraceInv, Heals, MayHeal
  <1>3. GraceInv /\ [WatcherNext]_watcherVars => [Heals => sickFor = Grace]_watcherVars
    BY <1>2
  <1>. QED BY <1>1, <1>3, GraceInvStep, PTL DEF WatcherSpec, GraceUnbroken

-----------------------------------------------------------------------------
(* AgentWatcher: types.                                                     *)

\* What BudgetInv and GraceInv do not already say of the types.
WatcherTypes ==
    /\ follow \in BOOLEAN /\ client \in BOOLEAN
    /\ relay \in {"up", "down"} /\ failures \in 0..Threshold
    /\ awaits \in {"idle", "scanning", "probing", "judging", "starting", "restarting"}
    /\ saw \in {"down", "well", "degraded", None}
    /\ nextHealIn \in Nat \cup {None}

LEMMA WatcherTypesStep ==
    BudgetInv /\ WatcherTypes /\ [WatcherNext]_watcherVars => WatcherTypes'
  <1>. SUFFICES ASSUME BudgetInv, WatcherTypes, [WatcherNext]_watcherVars PROVE WatcherTypes'
    OBVIOUS
  <1>. USE DEF WatcherTypes
  <1>1. CASE Elapse
    BY <1>1 DEF Elapse, relayVars
  <1>2. CASE NotRunning \/ RunningWell \/ FirstSight
    BY <1>2 DEF NotRunning, RunningWell, FirstSight, OnRelayHealthy, relayVars
  <1>3. CASE HoldsBack \/ StillWatching
    BY <1>3 DEF HoldsBack, StillWatching, relayVars, watchVars
  <1>4. CASE Heals
    <2>1. Recent \in SUBSET (0..Window) /\ Window \in Nat
      BY WatcherAssumption DEF BudgetInv, Recent
    <2>2. Cardinality(Recent) \in Nat
      BY <2>1, AgesAreFinite
    <2>3. WaitAfter(Cardinality(Recent)) \in Nat
      BY <2>2, WaitIsPositive
    <2>4. nextHealIn' = WaitAfter(Cardinality(Recent))
      BY <1>4 DEF Heals
    <2>. QED BY <1>4, <2>3, <2>4 DEF Heals, relayVars
  <1>5. CASE RecordFailure \/ RecordSuccess \/ RelayDies \/ RelayStartedElsewhere
    BY WatcherAssumption, <1>5 DEF RecordFailure, RecordSuccess, RelayDies,
       RelayStartedElsewhere, watchVars
  <1>6. CASE SettingsChange \/ ClientComesOrGoes
    BY <1>6 DEF SettingsChange, ClientComesOrGoes, relayVars, watchVars
  <1>7. CASE TickFires \/ Scanned \/ Probed \/ ProbeUnanswered
    BY <1>7 DEF TickFires, Scanned, Probed, ProbeUnanswered, relayVars, watchVars
  <1>8. CASE Started \/ Restarted
    BY WatcherAssumption, <1>8 DEF Started, Restarted, relayVars, watchVars
  <1>9. CASE UNCHANGED watcherVars
    BY <1>9 DEF watcherVars
  <1>. QED BY <1>1, <1>2, <1>3, <1>4, <1>5, <1>6, <1>7, <1>8, <1>9
              DEF WatcherNext, Tick, Judge, Environment

\* The types of the watcher, for every grace, backoff, budget and window.
THEOREM WatcherTypeCorrect == WatcherSpec => []WatcherTypeOK
  <1>1. WatcherInit => WatcherTypes
    BY WatcherAssumption DEF WatcherInit, WatcherTypes
  <1>2. WatcherInit => GraceInv
    BY WatcherAssumption DEF WatcherInit, GraceInv
  <1>3. ASSUME BudgetInv, GraceInv, WatcherTypes PROVE WatcherTypeOK
    <2>1. restarts \subseteq 0..(Window - 1)
      BY WatcherAssumption, <1>3 DEF BudgetInv, Recent
    <2>2. sickFor \in Ages /\ degradedFor \in Ages \cup {None}
      BY WatcherAssumption, <1>3 DEF GraceInv, Ages
    <2>. QED BY <1>3, <2>1, <2>2 DEF WatcherTypeOK, WatcherTypes, BudgetInv
  <1>. QED BY <1>1, <1>2, <1>3, BudgetInvInit, BudgetInvStep, GraceInvStep, WatcherTypesStep,
              PTL DEF WatcherSpec

-----------------------------------------------------------------------------
(* RelayLifecycle: what a stop and a restart that answered ok mean.         *)

\* The end of a request keeps the types of its variables.
LEMMA ReturnsType ==
    ASSUME LifecycleTypeOK, NEW c \in Callers, Returns(c)
    PROVE  /\ op' \in [Callers -> Ops \cup {None}]
           /\ pc' \in [Callers -> {"idle", "status", "coming up", "came up", "gave up",
                                  "owner", "judging", "stop status"}]
           /\ filePid' \in [Callers -> Pid]
           /\ refused' \in [Callers -> BOOLEAN]
           /\ blind' \in [Callers -> BOOLEAN] /\ misheard' \in [Callers -> BOOLEAN]
           /\ before' \in [Callers -> SUBSET Pids]
           /\ alone' \in [Callers -> BOOLEAN]
  BY DEF LifecycleTypeOK, Returns, Pid

LEMMA MishearsType ==
    ASSUME LifecycleTypeOK, NEW c \in Callers, NEW heard \in Heard
    PROVE  Mishears(c, heard) \in BOOLEAN
  BY DEF Mishears

\* No answer where a relay serves is a probe that misheard.
LEMMA NotHeard ==
    ASSUME NEW c \in Callers, NEW heard \in Heard, ~heard, Serving
    PROVE  Mishears(c, heard)
  BY DEF Mishears

LEMMA LifecycleTypeInit == LifecycleInit => LifecycleTypeOK
  <1>. SUFFICES ASSUME LifecycleInit PROVE LifecycleTypeOK
    OBVIOUS
  <1>1. calls \in 0..MaxCalls
    BY LifecycleAssumption DEF LifecycleInit
  <1>2. /\ refused \in [Callers -> BOOLEAN] /\ blind \in [Callers -> BOOLEAN]
        /\ misheard \in [Callers -> BOOLEAN] /\ alone \in [Callers -> BOOLEAN] /\ stopHeld \in BOOLEAN
    BY DEF LifecycleInit
  <1>3. proc \in [Pids -> {"unborn", "booting", "contending", "serving", "ended"}]
    BY DEF LifecycleInit
  <1>4. pc \in [Callers -> {"idle", "status", "coming up", "came up", "gave up", "owner",
                          "judging", "stop status"}]
    BY DEF LifecycleInit
  <1>. QED BY <1>1, <1>2, <1>3, <1>4 DEF LifecycleInit, LifecycleTypeOK, Pid

LEMMA LifecycleTypeStep ==
    LifecycleTypeOK /\ [LifecycleNext]_lifecycleVars => LifecycleTypeOK'
  <1>. SUFFICES ASSUME LifecycleTypeOK, [LifecycleNext]_lifecycleVars PROVE LifecycleTypeOK'
    OBVIOUS
  <1>1. ASSUME NEW p \in Pids, RelayProcess(p) \/ LauncherServes(p)
        PROVE  LifecycleTypeOK'
    <2>1. CASE Killed(p) \/ FindsPortTaken(p) \/ GivesWay(p) \/ FailsToBoot(p)
      BY <1>1, <2>1 DEF LifecycleTypeOK, Killed, FindsPortTaken, GivesWay, FailsToBoot,
         callVars
    <2>2. CASE Boots(p)
      BY <1>1, <2>2 DEF LifecycleTypeOK, Boots, callVars, Pid
    <2>3. CASE Exits(p)
      BY <1>1, <2>3 DEF LifecycleTypeOK, Exits, callVars, Pid
    <2>4. CASE LauncherServes(p)
      BY <1>1, <2>4 DEF LifecycleTypeOK, LauncherServes
    <2>. QED BY <1>1, <2>1, <2>2, <2>3, <2>4 DEF RelayProcess
  <1>2. ASSUME NEW c \in Callers, Asks(c)
        PROVE  LifecycleTypeOK'
    <2>1. PICK o \in Ops :
             /\ calls < MaxCalls /\ calls' = calls + 1
             /\ op' = [op EXCEPT ![c] = o]
             /\ pc' = [pc EXCEPT ![c] = IF o \in {"stop", "restart"} THEN "owner"
                                        ELSE "status"]
             /\ filePid' = [filePid EXCEPT ![c] = pidFile]
             /\ refused' = [refused EXCEPT ![c] = FALSE]
             /\ blind' = [blind EXCEPT ![c] = FALSE]
             /\ misheard' = [misheard EXCEPT ![c] = FALSE]
             /\ before' = [before EXCEPT ![c] = IF o \in {"stop", "restart"}
                                                THEN Servers ELSE {}]
             /\ alone' = [d \in Callers |->
                   d = c /\ o = "stop" /\ Starting \subseteq {pidFile}
                         /\ \A e \in Callers \ {c} : pc[e] = "idle"]
             /\ stopHeld' = (stopHeld /\ o \in {"stop", "status"})
             /\ UNCHANGED <<proc, doomed, pidFile, targets>>
      BY <1>2 DEF Asks
    <2>2. calls' \in 0..MaxCalls
      <3>1. calls \in 0..MaxCalls /\ MaxCalls \in Nat
        BY LifecycleAssumption DEF LifecycleTypeOK
      <3>2. calls < MaxCalls /\ calls' = calls + 1
        BY <2>1
      <3>. QED BY <3>1, <3>2
    <2>3. alone' \in [Callers -> BOOLEAN] /\ stopHeld' \in BOOLEAN
      BY <2>1 DEF LifecycleTypeOK
    <2>4. Servers \in SUBSET Pids
      BY DEF Servers
    <2>5. /\ op' \in [Callers -> Ops \cup {None}]
          /\ filePid' \in [Callers -> Pid]
          /\ refused' \in [Callers -> BOOLEAN]
          /\ blind' \in [Callers -> BOOLEAN] /\ misheard' \in [Callers -> BOOLEAN]
          /\ before' \in [Callers -> SUBSET Pids]
      BY <2>1, <2>4 DEF LifecycleTypeOK
    <2>6. pc' \in [Callers -> {"idle", "status", "coming up", "came up", "gave up",
                              "owner", "judging", "stop status"}]
      BY <2>1 DEF LifecycleTypeOK
    <2>. QED BY <2>1, <2>2, <2>3, <2>5, <2>6 DEF LifecycleTypeOK
  <1>3. ASSUME NEW c \in Callers, Call(c)
        PROVE  LifecycleTypeOK'
    <2>0. pidFile \in Pid /\ None \in Pid
      BY DEF LifecycleTypeOK, Pid
    <2>1. ASSUME NEW heard \in Heard,
                 \/ StatusProbed(c, heard) \/ StartReuses(c, heard) \/ StartReturns(c, heard)
                 \/ StopReturns(c, heard) \/ RestartEnds(c, heard)
          PROVE  LifecycleTypeOK'
      <3>1. Returns(c) /\ UNCHANGED <<proc, doomed, calls, targets>>
        BY <2>1 DEF StatusProbed, StartReuses, StartReturns, StopReturns,
           RestartEnds
      <3>2. pidFile' \in Pid
        BY <2>0, <2>1 DEF StatusProbed, StartReuses, StartReturns, StopReturns,
           RestartEnds, ClearsIfStale
      <3>3. stopHeld' \in BOOLEAN
        BY <2>1 DEF LifecycleTypeOK, StatusProbed, StartReuses, StartReturns,
           StopReturns, RestartEnds
      <3>. QED BY <3>1, <3>2, <3>3, ReturnsType DEF LifecycleTypeOK
    <2>2. ASSUME NEW heard \in Heard, StartSpawns(c, heard)
          PROVE  LifecycleTypeOK'
      <3>1. misheard' \in [Callers -> BOOLEAN]
        BY <2>2, MishearsType DEF LifecycleTypeOK, StartSpawns
      <3>. QED BY <2>0, <2>2, <3>1 DEF LifecycleTypeOK, StartSpawns, Unborn, Pid
    <2>3. ASSUME NEW heard \in Heard, RestartStarts(c, heard)
          PROVE  LifecycleTypeOK'
      <3>1. misheard' \in [Callers -> BOOLEAN]
        BY <2>3, MishearsType DEF LifecycleTypeOK, RestartStarts
      <3>. QED BY <2>0, <2>3, <3>1 DEF LifecycleTypeOK, RestartStarts
    <2>8. CASE StartWaited(c)
      BY <2>0, <2>8 DEF LifecycleTypeOK, StartWaited
    <2>4. CASE StopFindsOwner(c)
      <3>1. PICK owner \in {Servers, {}} :
               /\ targets' = [targets EXCEPT ![c] = Candidates(c, owner)]
               /\ blind' = [blind EXCEPT ![c] = owner # Servers]
        BY <2>4 DEF StopFindsOwner
      <3>2. Candidates(c, owner) \in SUBSET Pids
        BY <3>1 DEF Candidates, LifecycleTypeOK, Pid, Servers
      <3>. QED BY <2>0, <2>4, <3>1, <3>2 DEF LifecycleTypeOK, StopFindsOwner
    <2>5. CASE StopJudges(c)
      <3>1. PICK p \in targets[c] :
               /\ targets' = [targets EXCEPT ![c] = targets[c] \ {p}]
               /\ doomed' \in {doomed, doomed \cup {p}}
               /\ refused' \in {refused, [refused EXCEPT ![c] = TRUE]}
        BY <2>5 DEF StopJudges
      <3>2. /\ targets' \in [Callers -> SUBSET Pids] /\ doomed' \in SUBSET Pids
            /\ refused' \in [Callers -> BOOLEAN]
        BY <3>1 DEF LifecycleTypeOK
      <3>. QED BY <2>5, <3>2 DEF LifecycleTypeOK, StopJudges
    <2>6. CASE StopWaited(c)
      BY <2>0, <2>6 DEF LifecycleTypeOK, StopWaited
    <2>7. Serving \in Heard
      BY DEF Heard
    <2>. QED BY <1>3, <2>1, <2>2, <2>3, <2>4, <2>5, <2>6, <2>7, <2>8 DEF Call, Probes
  <1>4. CASE UNCHANGED lifecycleVars
    BY <1>4 DEF LifecycleTypeOK, lifecycleVars, callVars
  <1>. QED BY <1>1, <1>2, <1>3, <1>4 DEF LifecycleNext

\* The types of the relay's processes and of the calls on them.
THEOREM LifecycleTypeCorrect == LifecycleSpec => []LifecycleTypeOK
  <1>. QED BY LifecycleTypeInit, LifecycleTypeStep, PTL DEF LifecycleSpec

\* What a stop that nothing overlaps has seen to: the relays still coming up
\* are the one in the pid file it read, then candidates it has not judged, or
\* processes taskkill was sent to; and so are those that serve, if netstat
\* named them.
SeesToAll(c) ==
    /\ op[c] = "stop" /\ pc[c] \in {"owner", "judging", "stop status"}
    /\ \A d \in Callers \ {c} : pc[d] = "idle"
    /\ pc[c] = "owner" => Starting \subseteq {filePid[c]}
    /\ (pc[c] \in {"judging", "stop status"} /\ ~refused[c]) =>
          /\ Starting \subseteq targets[c] \cup doomed
          /\ ~blind[c] => Alive \subseteq targets[c] \cup doomed
    /\ pc[c] = "stop status" => targets[c] = {}

\* After a stop that held, nobody starts a relay.
NobodyStarts ==
    \A c \in Callers : pc[c] = "idle" \/ op[c] \notin {"start", "restart"}

\* The relays a request found serving serve or have ended.  A stop has judged
\* them, unless netstat did not name them; and once a restart gets to its start,
\* they have ended, unless a probe misheard.
OldRelays(c) ==
    /\ \A p \in before[c] : proc[p] \in {"serving", "ended"}
    /\ (pc[c] \in {"judging", "stop status"} /\ ~refused[c] /\ ~blind[c]) =>
          \A p \in before[c] : Ended(p) \/ p \in targets[c] \/ p \in doomed
    /\ pc[c] = "stop status" => targets[c] = {}
    /\ (op[c] = "restart" /\ pc[c] \in {"status", "coming up", "came up", "gave up"}) =>
          \A p \in before[c] : Ended(p) \/ (misheard[c] /\ (p \in doomed \/ blind[c]))

LifecycleInv ==
    /\ LifecycleTypeOK
    /\ \A c \in Callers : alone[c] => SeesToAll(c)
    /\ stopHeld => StopHolds /\ NobodyStarts
    /\ \A c \in Callers : OldRelays(c)

\* All but the types of the next state.
LifecycleParts ==
    /\ \A c \in Callers : alone[c] => SeesToAll(c)
    /\ stopHeld => StopHolds /\ NobodyStarts
    /\ \A c \in Callers : OldRelays(c)

\* A process that boots, gives way, crashes or is killed was there before, and
\* an ended one does not come back.
LEMMA ProcessStep ==
    ASSUME LifecycleTypeOK, NEW p \in Pids, RelayProcess(p)
    PROVE  /\ Starting' \subseteq Starting /\ Alive' \subseteq Alive
           /\ UNCHANGED <<doomed, op, pc, filePid, targets, refused, blind, misheard, before, alone,
                         stopHeld>>
           /\ \A q \in Pids :
                 /\ proc[q] \in {"serving", "ended"} => proc'[q] \in {"serving", "ended"}
                 /\ proc[q] = "ended" => proc'[q] = "ended"
  <1>1. PICK st \in {"contending", "serving", "ended"} :
           /\ proc' = [proc EXCEPT ![p] = st]
           /\ proc[p] \in {"booting", "contending", "serving"}
           /\ proc[p] = "serving" => st = "ended"
           /\ UNCHANGED <<doomed, op, pc, filePid, targets, refused, blind, misheard, before, alone,
                         stopHeld>>
    <2>1. CASE Killed(p)
      BY <2>1 DEF Killed, Alive, callVars
    <2>2. CASE Boots(p) \/ FindsPortTaken(p) \/ GivesWay(p) \/ FailsToBoot(p)
                 \/ Exits(p)
      BY <2>2 DEF Boots, FindsPortTaken, GivesWay, FailsToBoot, Exits,
         callVars
    <2>. QED BY <2>1, <2>2 DEF RelayProcess
  <1>2. \A q \in Pids : proc'[q] = IF q = p THEN st ELSE proc[q]
    BY <1>1 DEF LifecycleTypeOK
  <1>3. Starting' \subseteq Starting /\ Alive' \subseteq Alive
    BY <1>1, <1>2 DEF Starting, Alive
  <1>. QED BY <1>1, <1>2, <1>3

\* Such a step keeps what the requests rely on.
LEMMA ProcessKeeps ==
    ASSUME LifecycleInv, NEW p \in Pids, RelayProcess(p)
    PROVE  LifecycleParts'
  <1>0. /\ LifecycleTypeOK /\ before \in [Callers -> SUBSET Pids]
        /\ Starting' \subseteq Starting /\ Alive' \subseteq Alive
        /\ UNCHANGED <<doomed, op, pc, filePid, targets, refused, blind, misheard, before, alone,
                         stopHeld>>
        /\ \A q \in Pids :
              /\ proc[q] \in {"serving", "ended"} => proc'[q] \in {"serving", "ended"}
              /\ proc[q] = "ended" => proc'[q] = "ended"
    BY ProcessStep DEF LifecycleInv, LifecycleTypeOK
  <1>1. ASSUME NEW c \in Callers, SeesToAll(c)
        PROVE  SeesToAll(c)'
    BY <1>0, <1>1 DEF SeesToAll
  <1>2. ASSUME stopHeld PROVE StopHolds' /\ NobodyStarts'
    BY <1>0, <1>2 DEF LifecycleInv, StopHolds, NobodyStarts
  <1>3. ASSUME NEW c \in Callers
        PROVE  OldRelays(c)'
    BY <1>0 DEF LifecycleInv, OldRelays, Ended
  <1>. QED BY <1>0, <1>1, <1>2, <1>3 DEF LifecycleInv, LifecycleParts

\* A launcher that takes the port is a start, and ends what a stop promised.
LEMMA LauncherKeeps ==
    ASSUME LifecycleInv, NEW p \in Pids, LauncherServes(p)
    PROVE  LifecycleParts'
  <1>0. /\ LifecycleTypeOK /\ before \in [Callers -> SUBSET Pids]
        /\ proc[p] = "unborn" /\ proc' = [proc EXCEPT ![p] = "serving"] /\ stopHeld' = FALSE
        /\ alone' = [c \in Callers |-> FALSE]
        /\ UNCHANGED <<doomed, op, pc, filePid, targets, refused, blind, misheard, before>>
    BY DEF LifecycleInv, LifecycleTypeOK, LauncherServes, Unborn
  <1>1. \A q \in Pids : proc'[q] = IF q = p THEN "serving" ELSE proc[q]
    BY <1>0 DEF LifecycleTypeOK
  <1>2. ASSUME NEW c \in Callers
        PROVE  OldRelays(c)'
    <2>1. OldRelays(c) /\ before[c] \in SUBSET Pids
      BY <1>0 DEF LifecycleInv
    <2>2. \A q \in before[c] : q # p /\ proc'[q] = proc[q]
      BY <1>0, <1>1, <2>1 DEF OldRelays
    <2>. QED BY <1>0, <2>1, <2>2 DEF OldRelays, Ended
  <1>. QED BY <1>0, <1>2 DEF LifecycleParts

\* A request that returns forgets its variables; a stop that nothing overlapped
\* and that answered ok leaves no process but the doomed.
LEMMA ReturnKeeps ==
    ASSUME LifecycleInv, NEW c \in Callers, Returns(c),
           UNCHANGED <<proc, doomed, targets>>,
           stopHeld' => \/ stopHeld
                        \/ /\ alone[c] /\ pc[c] = "stop status" /\ ~refused[c]
                           /\ ~Serving \/ ~blind[c]
    PROVE  LifecycleParts'
  <1>1. \A d \in Callers :
           /\ op'[d] = IF d = c THEN None ELSE op[d]
           /\ pc'[d] = IF d = c THEN "idle" ELSE pc[d]
           /\ filePid'[d] = IF d = c THEN None ELSE filePid[d]
           /\ refused'[d] = IF d = c THEN FALSE ELSE refused[d]
           /\ blind'[d] = IF d = c THEN FALSE ELSE blind[d]
           /\ misheard'[d] = IF d = c THEN FALSE ELSE misheard[d]
           /\ before'[d] = IF d = c THEN {} ELSE before[d]
           /\ alone'[d] = IF d = c THEN FALSE ELSE alone[d]
    BY DEF Returns, LifecycleInv, LifecycleTypeOK
  <1>2. Starting' = Starting /\ Alive' = Alive
    BY DEF Starting, Alive
  <1>3. ASSUME NEW d \in Callers, alone'[d]
        PROVE  SeesToAll(d)'
    <2>1. d # c /\ SeesToAll(d)
      BY <1>1, <1>3 DEF LifecycleInv
    <2>. QED BY <1>1, <1>2, <2>1 DEF SeesToAll
  <1>4. ASSUME stopHeld' PROVE StopHolds' /\ NobodyStarts'
    <2>1. CASE stopHeld
      <3>1. Alive \subseteq doomed /\ NobodyStarts
        BY <2>1 DEF LifecycleInv, StopHolds
      <3>2. NobodyStarts'
        BY <1>1, <3>1 DEF NobodyStarts
      <3>. QED BY <1>2, <3>1, <3>2 DEF StopHolds
    <2>2. CASE /\ alone[c] /\ pc[c] = "stop status" /\ ~refused[c]
               /\ ~Serving \/ ~blind[c]
      <3>1. SeesToAll(c)
        BY <2>2 DEF LifecycleInv
      <3>2. Starting \subseteq doomed /\ (~blind[c] => Alive \subseteq doomed)
        BY <2>2, <3>1 DEF SeesToAll
      <3>3. Alive \subseteq doomed
        BY <2>2, <3>2 DEF Alive, Starting, Serving, Servers
      <3>4. NobodyStarts'
        BY <1>1, <3>1 DEF NobodyStarts, SeesToAll
      <3>. QED BY <1>2, <3>3, <3>4 DEF StopHolds
    <2>. QED BY <1>4, <2>1, <2>2
  <1>5. ASSUME NEW d \in Callers
        PROVE  OldRelays(d)'
    BY <1>1 DEF LifecycleInv, OldRelays, Ended
  <1>. QED BY <1>3, <1>4, <1>5 DEF LifecycleParts

\* The request that arrives.
LEMMA CallsKeep ==
    ASSUME LifecycleInv, NEW c \in Callers, Asks(c)
    PROVE  LifecycleParts'
  <1>1. PICK o \in Ops :
           /\ op' = [op EXCEPT ![c] = o]
           /\ pc' = [pc EXCEPT ![c] = IF o \in {"stop", "restart"} THEN "owner"
                                      ELSE "status"]
           /\ filePid' = [filePid EXCEPT ![c] = pidFile]
           /\ refused' = [refused EXCEPT ![c] = FALSE]
           /\ blind' = [blind EXCEPT ![c] = FALSE]
           /\ misheard' = [misheard EXCEPT ![c] = FALSE]
           /\ before' = [before EXCEPT ![c] = IF o \in {"stop", "restart"}
                                              THEN Servers ELSE {}]
           /\ alone' = [d \in Callers |->
                 d = c /\ o = "stop" /\ Starting \subseteq {pidFile}
                       /\ \A e \in Callers \ {c} : pc[e] = "idle"]
           /\ stopHeld' = (stopHeld /\ o \in {"stop", "status"})
           /\ UNCHANGED <<proc, doomed, targets>>
    BY DEF Asks
  <1>2. \A d \in Callers :
           /\ op'[d] = IF d = c THEN o ELSE op[d]
           /\ pc'[d] = IF d = c THEN IF o \in {"stop", "restart"} THEN "owner" ELSE "status"
                       ELSE pc[d]
           /\ filePid'[d] = IF d = c THEN pidFile ELSE filePid[d]
           /\ d # c => /\ refused'[d] = refused[d] /\ blind'[d] = blind[d]
                       /\ misheard'[d] = misheard[d]
           /\ before'[d] = IF d = c THEN IF o \in {"stop", "restart"} THEN Servers ELSE {}
                           ELSE before[d]
    BY <1>1 DEF LifecycleInv, LifecycleTypeOK
  <1>3. Starting' = Starting /\ Alive' = Alive
    BY <1>1 DEF Starting, Alive
  <1>4. ASSUME NEW d \in Callers, alone'[d]
        PROVE  SeesToAll(d)'
    <2>1. d = c /\ o = "stop" /\ Starting \subseteq {pidFile}
          /\ \A e \in Callers \ {c} : pc[e] = "idle"
      BY <1>1, <1>4
    <2>. QED BY <1>2, <1>3, <2>1 DEF SeesToAll
  <1>5. ASSUME stopHeld' PROVE StopHolds' /\ NobodyStarts'
    <2>1. stopHeld /\ o \in {"stop", "status"}
      BY <1>1, <1>5
    <2>. QED BY <1>1, <1>2, <1>3, <2>1 DEF LifecycleInv, StopHolds, NobodyStarts
  <1>6. ASSUME NEW d \in Callers
        PROVE  OldRelays(d)'
    <2>0. UNCHANGED <<proc, doomed, targets>> /\ OldRelays(d)
      BY <1>1 DEF LifecycleInv
    <2>1. CASE d # c
      BY <1>2, <2>0, <2>1 DEF OldRelays, Ended
    <2>2. CASE d = c /\ o \in {"stop", "restart"}
      BY <1>2, <2>0, <2>2 DEF OldRelays, Servers
    <2>3. CASE d = c /\ o \notin {"stop", "restart"}
      BY <1>2, <2>0, <2>3 DEF OldRelays
    <2>. QED BY <2>1, <2>2, <2>3
  <1>. QED BY <1>4, <1>5, <1>6 DEF LifecycleParts

\* While a request is under way, only that one can be alone.
LEMMA OnlyCaller ==
    ASSUME LifecycleInv, NEW c \in Callers, pc[c] # "idle", NEW d \in Callers, alone[d]
    PROVE  d = c /\ SeesToAll(c)
  BY DEF LifecycleInv, SeesToAll

\* A spawn is made for a start or a restart, so neither alone nor after a stop
\* that holds.
LEMMA SpawnKeeps ==
    ASSUME LifecycleInv, NEW c \in Callers, NEW heard \in Heard, StartSpawns(c, heard)
    PROVE  LifecycleParts'
  <1>1. /\ pc[c] = "status" /\ op[c] \in {"start", "restart"}
        /\ pc' = [pc EXCEPT ![c] = "coming up"]
        /\ \A d \in Callers : misheard[d] => misheard'[d]
        /\ UNCHANGED <<op, targets, doomed, refused, blind, before, alone, stopHeld>>
    BY DEF StartSpawns, Mishears, LifecycleInv, LifecycleTypeOK
  <1>2. PICK p \in Pids : proc[p] = "unborn" /\ proc' = [proc EXCEPT ![p] = "booting"]
    BY DEF StartSpawns, Unborn
  <1>3. \A d \in Callers : ~alone'[d]
    BY <1>1, OnlyCaller DEF SeesToAll
  <1>4. ~stopHeld'
    BY <1>1 DEF LifecycleInv, NobodyStarts
  <1>5. ASSUME NEW d \in Callers
        PROVE  OldRelays(d)'
    <2>1. \A q \in before[d] : q \in Pids /\ q # p /\ proc'[q] = proc[q]
      BY <1>2 DEF LifecycleInv, LifecycleTypeOK, OldRelays
    <2>2. /\ pc'[d] \in {"status", "coming up", "came up", "gave up"}
             => pc[d] \in {"status", "coming up", "came up", "gave up"}
          /\ pc'[d] \in {"judging", "stop status"} => pc'[d] = pc[d]
      BY <1>1 DEF LifecycleInv, LifecycleTypeOK
    <2>3. OldRelays(d)
      BY DEF LifecycleInv
    <2>. QED BY <1>1, <2>1, <2>2, <2>3 DEF OldRelays, Ended
  <1>. QED BY <1>3, <1>4, <1>5 DEF LifecycleParts

\* A request goes on while the processes stay as they are: what it still sees
\* to, and what it knows of the old relays, has to be shown.
LEMMA GoesOnKeeps ==
    ASSUME LifecycleInv, NEW c \in Callers, pc[c] # "idle",
           NEW next, pc' = [pc EXCEPT ![c] = next],
           UNCHANGED <<proc, op, before, alone, stopHeld>>,
           doomed \subseteq doomed',
           \A d \in Callers \ {c} : /\ targets'[d] = targets[d] /\ refused'[d] = refused[d]
                                    /\ blind'[d] = blind[d] /\ misheard'[d] = misheard[d],
           SeesToAll(c) => SeesToAll(c)',
           OldRelays(c)'
    PROVE  LifecycleParts'
  <1>1. \A d \in Callers : pc'[d] = IF d = c THEN next ELSE pc[d]
    BY DEF LifecycleInv, LifecycleTypeOK
  <1>2. Alive' = Alive
    BY DEF Alive
  <1>3. ASSUME NEW d \in Callers, alone'[d]
        PROVE  SeesToAll(d)'
    BY <1>3, OnlyCaller
  <1>4. ASSUME stopHeld' PROVE StopHolds' /\ NobodyStarts'
    BY <1>1, <1>2, <1>4 DEF LifecycleInv, StopHolds, NobodyStarts
  <1>5. ASSUME NEW d \in Callers
        PROVE  OldRelays(d)'
    <2>1. CASE d = c
      BY <2>1
    <2>2. CASE d # c
      <3>1. OldRelays(d) /\ pc'[d] = pc[d]
        BY <1>1, <2>2 DEF LifecycleInv
      <3>. QED BY <2>2, <3>1 DEF OldRelays, Ended
    <2>. QED BY <2>1, <2>2
  <1>. QED BY <1>3, <1>4, <1>5 DEF LifecycleParts

\* Netstat answers or fails: what it names becomes a candidate.
LEMMA OwnerFound ==
    ASSUME LifecycleInv, NEW c \in Callers, StopFindsOwner(c)
    PROVE  LifecycleParts'
  <1>0. LifecycleTypeOK /\ OldRelays(c)
    BY DEF LifecycleInv
  <1>1. PICK owner \in {Servers, {}} :
           /\ targets' = [targets EXCEPT ![c] = Candidates(c, owner)]
           /\ blind' = [blind EXCEPT ![c] = owner # Servers]
    BY DEF StopFindsOwner
  <1>2. /\ pc[c] = "owner" /\ pc' = [pc EXCEPT ![c] = "judging"]
        /\ UNCHANGED <<proc, doomed, op, before, alone, stopHeld, refused, misheard>>
    BY DEF StopFindsOwner
  <1>3. /\ pc'[c] = "judging" /\ \A d \in Callers \ {c} : pc'[d] = pc[d]
        /\ targets'[c] = ({filePid[c]} \cup owner) \ {None} /\ (~blind'[c] => owner = Servers)
        /\ \A d \in Callers \ {c} : targets'[d] = targets[d] /\ blind'[d] = blind[d]
    BY <1>0, <1>1, <1>2 DEF LifecycleTypeOK, Candidates
  <1>4. None \notin Alive /\ Starting \subseteq Alive /\ Alive \subseteq Starting \cup Servers
    BY LifecycleAssumption DEF Alive, Starting, Servers, Pids
  <1>5. Starting' = Starting /\ Alive' = Alive
    BY <1>2 DEF Starting, Alive
  <1>6. SeesToAll(c) => SeesToAll(c)'
    BY <1>2, <1>3, <1>4, <1>5 DEF SeesToAll
  <1>7. OldRelays(c)'
    <2>1. \A p \in before[c] : Ended(p) \/ p \in Servers
      BY <1>0 DEF OldRelays, Ended, Servers, LifecycleTypeOK
    <2>2. Servers \subseteq Alive
      BY DEF Servers, Alive
    <2>. QED BY <1>0, <1>2, <1>3, <1>4, <2>1, <2>2 DEF OldRelays, Ended
  <1>8. pc[c] # "idle" /\ doomed \subseteq doomed'
        /\ \A d \in Callers \ {c} : /\ targets'[d] = targets[d] /\ refused'[d] = refused[d]
                                    /\ blind'[d] = blind[d] /\ misheard'[d] = misheard[d]
    BY <1>2, <1>3
  <1>. QED BY <1>2, <1>6, <1>7, <1>8, GoesOnKeeps

\* A candidate is skipped because it is gone, killed or refused.
LEMMA CandidateJudged ==
    ASSUME LifecycleInv, NEW c \in Callers, StopJudges(c)
    PROVE  LifecycleParts'
  <1>0. LifecycleTypeOK /\ OldRelays(c)
    BY DEF LifecycleInv
  <1>1. PICK p \in targets[c] :
           /\ targets' = [targets EXCEPT ![c] = targets[c] \ {p}]
           /\ \/ p \notin Alive /\ UNCHANGED <<doomed, refused>>
              \/ doomed' = doomed \cup {p} /\ UNCHANGED refused
              \/ refused' = [refused EXCEPT ![c] = TRUE] /\ UNCHANGED doomed
    BY DEF StopJudges
  <1>2. pc[c] = "judging" /\ UNCHANGED <<proc, pc, op, blind, misheard, before, alone, stopHeld>>
    BY DEF StopJudges
  <1>3. /\ targets'[c] = targets[c] \ {p} /\ doomed \subseteq doomed' /\ Starting \subseteq Alive
        /\ \A d \in Callers \ {c} : targets'[d] = targets[d] /\ refused'[d] = refused[d]
    BY <1>0, <1>1 DEF LifecycleTypeOK, Starting, Alive
  <1>4. Starting' = Starting /\ Alive' = Alive
    BY <1>2 DEF Starting, Alive
  <1>5. ~refused'[c] => ~refused[c] /\ Alive \cap {p} \subseteq doomed'
    BY <1>0, <1>1 DEF LifecycleTypeOK
  <1>6. SeesToAll(c) => SeesToAll(c)'
    BY <1>2, <1>3, <1>4, <1>5 DEF SeesToAll
  <1>7. OldRelays(c)'
    <2>1. \A q \in before[c] : Ended(q) \/ q \in Alive
      BY <1>0 DEF OldRelays, Ended, Alive, LifecycleTypeOK
    <2>. QED BY <1>0, <1>2, <1>3, <1>5, <2>1 DEF OldRelays, Ended
  <1>8. pc' = [pc EXCEPT ![c] = "judging"]
    BY <1>0, <1>2 DEF LifecycleTypeOK
  <1>9. pc[c] # "idle"
        /\ \A d \in Callers \ {c} : /\ targets'[d] = targets[d] /\ refused'[d] = refused[d]
                                    /\ blind'[d] = blind[d] /\ misheard'[d] = misheard[d]
    BY <1>2, <1>3
  <1>. QED BY <1>2, <1>3, <1>6, <1>7, <1>8, <1>9, GoesOnKeeps

\* The wait of a stop is over once every candidate is judged.
LEMMA WaitIsOver ==
    ASSUME LifecycleInv, NEW c \in Callers, StopWaited(c)
    PROVE  LifecycleParts'
  <1>0. LifecycleTypeOK /\ OldRelays(c)
    BY DEF LifecycleInv
  <1>1. /\ pc[c] = "judging" /\ pc' = [pc EXCEPT ![c] = "stop status"]
        /\ targets[c] = {}
        /\ UNCHANGED <<proc, doomed, op, targets, refused, blind, misheard, before, alone, stopHeld>>
    BY DEF StopWaited
  <1>2. pc'[c] = "stop status" /\ \A d \in Callers \ {c} : pc'[d] = pc[d]
    BY <1>0, <1>1 DEF LifecycleTypeOK
  <1>3. Starting' = Starting /\ Alive' = Alive
    BY <1>1 DEF Starting, Alive
  <1>4. SeesToAll(c) => SeesToAll(c)'
    BY <1>1, <1>2, <1>3 DEF SeesToAll
  <1>5. OldRelays(c)'
    BY <1>0, <1>1, <1>2 DEF OldRelays, Ended
  <1>6. pc[c] # "idle" /\ doomed \subseteq doomed'
        /\ \A d \in Callers \ {c} : /\ targets'[d] = targets[d] /\ refused'[d] = refused[d]
                                    /\ blind'[d] = blind[d] /\ misheard'[d] = misheard[d]
    BY <1>1
  <1>. QED BY <1>1, <1>4, <1>5, <1>6, GoesOnKeeps

\* What a stop that did not hear a relay, and refused none, knows of the old
\* ones.
LEMMA StopMeans ==
    ASSUME LifecycleInv, NEW c \in Callers, NEW heard \in Heard, pc[c] = "stop status",
           StopSucceeded(c, heard), NEW p \in before[c]
    PROVE  Ended(p) \/ Missed(c, heard, p)
  <1>1. OldRelays(c) /\ p \in Pids /\ ~refused[c] /\ ~heard
    BY DEF LifecycleInv, LifecycleTypeOK, StopSucceeded
  <1>2. ASSUME ~Ended(p) PROVE Mishears(c, heard)
    <2>1. Serving
      BY <1>1, <1>2 DEF OldRelays, Ended, Serving, Servers
    <2>. QED BY <1>1, <2>1, NotHeard
  <1>3. Ended(p) \/ p \in doomed \/ blind[c]
    BY <1>1 DEF OldRelays
  <1>. QED BY <1>2, <1>3 DEF Missed

\* A restart goes on to its start.
LEMMA RestartGoesToStart ==
    ASSUME LifecycleInv, NEW c \in Callers, NEW heard \in Heard, RestartStarts(c, heard)
    PROVE  LifecycleParts'
  <1>0. LifecycleTypeOK /\ OldRelays(c)
    BY DEF LifecycleInv
  <1>1. /\ pc[c] = "stop status" /\ op[c] = "restart" /\ StopSucceeded(c, heard)
        /\ pc' = [pc EXCEPT ![c] = "status"]
        /\ misheard' = [misheard EXCEPT ![c] = Mishears(c, heard)]
        /\ UNCHANGED <<proc, doomed, op, targets, refused, blind, before, alone, stopHeld>>
    BY DEF RestartStarts, RestartGoesOn
  <1>2. pc'[c] = "status" /\ misheard'[c] = Mishears(c, heard)
        /\ \A d \in Callers \ {c} : misheard'[d] = misheard[d]
    BY <1>0, <1>1 DEF LifecycleTypeOK
  <1>3. \A p \in before[c] : Ended(p) \/ Missed(c, heard, p)
    BY <1>1, StopMeans
  <1>4. OldRelays(c)'
    BY <1>0, <1>1, <1>2, <1>3 DEF OldRelays, Ended, Missed
  <1>5. ~SeesToAll(c)
    BY <1>1 DEF SeesToAll
  <1>6. pc[c] # "idle" /\ doomed \subseteq doomed'
        /\ \A d \in Callers \ {c} : /\ targets'[d] = targets[d] /\ refused'[d] = refused[d]
                                    /\ blind'[d] = blind[d] /\ misheard'[d] = misheard[d]
    BY <1>1, <1>2
  <1>. QED BY <1>1, <1>4, <1>5, <1>6, GoesOnKeeps

LEMMA CallKeeps ==
    ASSUME LifecycleInv, NEW c \in Callers, Call(c)
    PROVE  LifecycleParts'
  <1>0. LifecycleTypeOK /\ OldRelays(c)
    BY DEF LifecycleInv
  <1>1. ASSUME NEW heard \in Heard,
               \/ StatusProbed(c, heard) \/ StartReuses(c, heard) \/ StartReturns(c, heard)
               \/ RestartEnds(c, heard)
        PROVE  LifecycleParts'
    <2>1. Returns(c) /\ UNCHANGED <<proc, doomed, targets>> /\ stopHeld' = stopHeld
      BY <1>1 DEF StatusProbed, StartReuses, StartReturns, RestartEnds
    <2>. QED BY <2>1, ReturnKeeps
  <1>2. ASSUME NEW heard \in Heard, StopReturns(c, heard)
        PROVE  LifecycleParts'
    <2>1. /\ pc[c] = "stop status" /\ Returns(c) /\ UNCHANGED <<proc, doomed, targets>>
          /\ stopHeld' => \/ stopHeld
                          \/ /\ StopSucceeded(c, heard) /\ alone[c]
                             /\ ~(blind[c] /\ Mishears(c, heard))
      BY <1>2 DEF StopReturns
    <2>2. StopSucceeded(c, heard) /\ ~Mishears(c, heard) => ~Serving
      BY NotHeard DEF StopSucceeded
    <2>3. StopSucceeded(c, heard) => ~refused[c]
      BY DEF StopSucceeded
    <2>. QED BY <2>1, <2>2, <2>3, ReturnKeeps
  <1>3. ASSUME NEW heard \in Heard, StartSpawns(c, heard)
        PROVE  LifecycleParts'
    BY <1>3, SpawnKeeps
  <1>4. CASE StartWaited(c)
    <2>1. PICK next \in {"came up", "gave up"} : pc' = [pc EXCEPT ![c] = next]
      BY <1>4 DEF StartWaited
    <2>2. /\ pc[c] = "coming up"
          /\ UNCHANGED <<proc, doomed, op, targets, refused, blind, misheard, before, alone,
                         stopHeld>>
      BY <1>4 DEF StartWaited
    <2>3. ~SeesToAll(c)
      BY <2>2 DEF SeesToAll
    <2>4. pc'[c] = next
      BY <1>0, <2>1 DEF LifecycleTypeOK
    <2>5. OldRelays(c)'
      BY <1>0, <2>1, <2>2, <2>4 DEF OldRelays, Ended
    <2>. QED BY <2>1, <2>2, <2>3, <2>5, GoesOnKeeps
  <1>5. Serving \in Heard
    BY DEF Heard
  <1>. QED BY <1>1, <1>2, <1>3, <1>4, OwnerFound, CandidateJudged, WaitIsOver,
              RestartGoesToStart DEF Call, Probes

LEMMA LifecycleInvInit == LifecycleInit => LifecycleInv
  <1>. SUFFICES ASSUME LifecycleInit PROVE LifecycleInv
    OBVIOUS
  <1>1. LifecycleTypeOK
    BY LifecycleTypeInit
  <1>. QED BY <1>1 DEF LifecycleInit, LifecycleInv, OldRelays

LEMMA LifecycleInvStep == LifecycleInv /\ [LifecycleNext]_lifecycleVars => LifecycleInv'
  <1>. SUFFICES ASSUME LifecycleInv, [LifecycleNext]_lifecycleVars PROVE LifecycleInv'
    OBVIOUS
  <1>1. LifecycleTypeOK'
    BY LifecycleTypeStep DEF LifecycleInv
  <1>2. LifecycleParts'
    <2>1. CASE UNCHANGED lifecycleVars
      BY <2>1 DEF LifecycleInv, LifecycleParts, SeesToAll, StopHolds, NobodyStarts,
         OldRelays, Ended, Starting, Alive, lifecycleVars, callVars
    <2>. QED BY <2>1, ProcessKeeps, LauncherKeeps, CallsKeep, CallKeeps DEF LifecycleNext
  <1>. QED BY <1>1, <1>2 DEF LifecycleInv, LifecycleParts

\* A stop that nothing overlapped and that answered ok is final: until somebody
\* starts a relay, no process is left that taskkill was not sent to, for every
\* number of callers, of calls and of processes booting, crashing or giving way,
\* and even if netstat failed or the probes went unanswered, though not both.
THEOREM StopIsFinal == LifecycleSpec => []StopHolds
  <1>1. LifecycleInv => StopHolds
    BY DEF LifecycleInv, StopHolds
  <1>. QED BY <1>1, LifecycleInvInit, LifecycleInvStep, PTL DEF LifecycleSpec

\* A stop or a restart that answers ok has ended every relay that served when
\* it was asked for; if one is left, a probe took it for gone, and taskkill was
\* sent to it or netstat had not named it.
THEOREM RestartIsFresh == LifecycleSpec => AskedIsGone
  <1>1. ASSUME LifecycleInv, NEW c \in Callers, NEW heard \in Heard, AnswersOk(c, heard),
               NEW p \in before[c]
        PROVE  Ended(p) \/ Missed(c, heard, p)
    <2>1. OldRelays(c)
      BY <1>1 DEF LifecycleInv
    <2>2. CASE StopReturns(c, heard) /\ StopSucceeded(c, heard)
      BY <1>1, <2>2, StopMeans DEF StopReturns
    <2>3. CASE op[c] = "restart" /\ pc[c] \in {"status", "came up"}
      BY <2>1, <2>3 DEF OldRelays, Missed, Mishears
    <2>. QED BY <1>1, <2>2, <2>3 DEF AnswersOk, StartReuses
  <1>2. LifecycleInv /\ [LifecycleNext]_lifecycleVars =>
           [\A c \in Callers, heard \in Heard :
               AnswersOk(c, heard) =>
                  \A p \in before[c] : Ended(p) \/ Missed(c, heard, p)]_lifecycleVars
    BY <1>1
  <1>. QED BY <1>2, LifecycleInvInit, LifecycleInvStep, PTL DEF LifecycleSpec, AskedIsGone

-----------------------------------------------------------------------------
(* SelfUpdate: one process on the port.                                     *)

PortIsSingle == \A p, q \in Holder : p = q

\* The panel hosts after a step: one of them changes, and takes the port only
\* when it has it or nobody does.
PanelChanges ==
    \E p \in Panels, rec \in Panel :
        /\ panels' = [panels EXCEPT ![p] = rec]
        /\ rec.st \in {"serving", "leaving"} => p \in Holder \/ Holder = {}

LEMMA PortStaysSingle ==
    ASSUME panels \in [Panels -> Panel], PortIsSingle,
           PanelChanges \/ UNCHANGED panels
    PROVE  panels' \in [Panels -> Panel] /\ PortIsSingle'
  <1>1. CASE UNCHANGED panels
    BY <1>1 DEF PortIsSingle, Holder
  <1>2. CASE PanelChanges
    <2>1. PICK p \in Panels, rec \in Panel :
             /\ panels' = [panels EXCEPT ![p] = rec]
             /\ rec.st \in {"serving", "leaving"} => p \in Holder \/ Holder = {}
      BY <1>2 DEF PanelChanges
    <2>2. \A q \in Panels : panels'[q] = IF q = p THEN rec ELSE panels[q]
      BY <2>1
    <2>3. \A q \in Holder' : q \in Holder \/ (q = p /\ Holder = {})
      BY <2>1, <2>2 DEF Holder
    <2>4. PortIsSingle'
      BY <2>3 DEF PortIsSingle
    <2>. QED BY <2>1, <2>4
  <1>. QED BY <1>1, <1>2

LEMMA SingleIsOne ==
    ASSUME PortIsSingle
    PROVE  Cardinality(Holder) <= 1
  <1>0. Cardinality(Holder) = Cardinality(Holder)
    BY DEF Cardinality, Cardinality
  <1>1. CASE Holder = {}
    BY <1>0, <1>1, FS_EmptySet
  <1>2. CASE Holder # {}
    <2>1. PICK p : Holder = {p}
      BY <1>2 DEF PortIsSingle
    <2>2. Cardinality({p}) = 1
      BY FS_Singleton
    <2>. QED BY <1>0, <2>1, <2>2
  <1>. QED BY <1>1, <1>2

\* A fresh panel host in a free slot.
LEMMA FreshPanel ==
    ASSUME UpdateTypeOK, PanelStarts
    PROVE  PanelChanges
  <1>1. PICK code \in OnDisk :
           panels' = [panels EXCEPT ![CHOOSE p \in Free : TRUE] =
                          [st |-> "starting", code |-> code, armed |-> Locked]]
    BY DEF PanelStarts
  <1>2. PICK p \in Panels : p = CHOOSE q \in Free : TRUE
    BY DEF PanelStarts, Free
  <1>. DEFINE rec == [st |-> "starting", code |-> code, armed |-> Locked]
  <1>3. code \in Version
    BY DEF OnDisk, UpdateTypeOK
  <1>4. rec \in Panel
    BY <1>3 DEF Panel, Locked
  <1>5. panels' = [panels EXCEPT ![p] = rec] /\ rec.st \notin {"serving", "leaving"}
    BY <1>1, <1>2
  <1>. QED BY <1>4, <1>5 DEF PanelChanges

LEMMA PanelsStep ==
    ASSUME UpdateTypeOK, [UpdateNext]_updateVars
    PROVE  PanelChanges \/ UNCHANGED panels
  <1>0. panels \in [Panels -> Panel]
    BY DEF UpdateTypeOK
  <1>1. ASSUME NEW p \in Panels, panels' \in [Panels -> Panel],
               \A q \in Panels \ {p} : panels'[q] = panels[q],
               panels'[p].st \in {"serving", "leaving"} => p \in Holder \/ Holder = {}
        PROVE  PanelChanges
    <2>1. panels' = [panels EXCEPT ![p] = panels'[p]]
      BY <1>0, <1>1
    <2>. QED BY <1>1, <2>1 DEF PanelChanges
  <1>2. ASSUME NEW p \in Panels, Handler(p)
        PROVE  PanelChanges \/ UNCHANGED panels
    <2>1. CASE Apply(p)
      <3>1. panels' = [panels EXCEPT ![p].armed = TRUE] /\ p \in Holder
        BY <2>1 DEF Apply, UpdateAvailable, Holder
      <3>2. panels' \in [Panels -> Panel]
        BY <1>0, <3>1 DEF Panel
      <3>. QED BY <1>0, <1>1, <3>1, <3>2
    <2>2. CASE UserRestarts(p)
      <3>1. panels' = [panels EXCEPT ![p].st = "leaving"] /\ p \in Holder
        BY <2>2 DEF UserRestarts, Holder
      <3>2. panels' \in [Panels -> Panel]
        BY <1>0, <3>1 DEF Panel
      <3>. QED BY <1>0, <1>1, <3>1, <3>2
    <2>. QED BY <1>2, <2>1, <2>2 DEF Handler, Register, MarkStale
  <1>3. ASSUME NEW p \in Panels, PanelProcess(p)
        PROVE  PanelChanges \/ UNCHANGED panels
    <2>1. CASE Boot(p)
      <3>. DEFINE st == IF Holder = {} THEN "serving"
                        ELSE IF panels[p].armed THEN "spare" ELSE "gone"
      <3>1. panels' = [panels EXCEPT ![p].st = st]
        BY <2>1 DEF Boot
      <3>2. st \in {"gone", "spare", "serving"} /\ (st = "serving" => Holder = {})
        OBVIOUS
      <3>. HIDE DEF st
      <3>3. panels' \in [Panels -> Panel] /\ panels'[p].st = st
        BY <1>0, <3>1, <3>2 DEF Panel
      <3>. QED BY <1>0, <1>1, <3>1, <3>2, <3>3
    <2>2. CASE BootFails(p) \/ Exit(p)
      <3>1. panels' = [panels EXCEPT ![p].st = "gone", ![p].armed = FALSE]
        BY <2>2 DEF BootFails, Exit
      <3>2. panels' \in [Panels -> Panel] /\ panels'[p].st = "gone"
        BY <1>0, <3>1 DEF Panel
      <3>. QED BY <1>0, <1>1, <3>1, <3>2
    <2>3. CASE panels' = Disarmed(p)
      <3>1. panels' \in [Panels -> Panel] /\ panels'[p].st \in {panels[p].st, "gone"}
        BY <1>0, <2>3 DEF Panel, Disarmed
      <3>2. \A q \in Panels \ {p} : panels'[q] = panels[q]
        BY <1>0, <2>3 DEF Disarmed
      <3>. QED BY <1>0, <1>1, <3>1, <3>2 DEF Holder
    <2>4. CASE panels' = [panels EXCEPT ![p].armed = FALSE,
                                        ![p].st = IF p \in Holder THEN "leaving" ELSE "gone"]
      <3>. DEFINE st == IF p \in Holder THEN "leaving" ELSE "gone"
      <3>1. st \in {"gone", "leaving"} /\ (st = "leaving" => p \in Holder)
        OBVIOUS
      <3>2. panels' = [panels EXCEPT ![p].armed = FALSE, ![p].st = st]
        BY <2>4
      <3>. HIDE DEF st
      <3>3. panels' \in [Panels -> Panel] /\ panels'[p].st = st
        BY <1>0, <3>1, <3>2 DEF Panel
      <3>. QED BY <1>0, <1>1, <3>1, <3>2, <3>3
    <2>5. CASE Pump(p)
      BY <2>3, <2>4, <2>5 DEF Pump, Fire
    <2>. QED BY <1>3, <2>1, <2>2, <2>5 DEF PanelProcess
  <1>4. CASE WorkerStep
    BY <1>4, FreshPanel DEF WorkerStep, Download, Install, Depend, StopWatchdog,
       RestartRelay, SeeDown, DownTimeout, SeeUp, UpTimeout, GiveUp, Respawn,
       RelayBack, SeeBack, SpawnLost
  <1>5. CASE Helper \/ Launch
    BY <1>5, FreshPanel DEF Helper, HelperSpawns, HelperGivesUp, Launch, SpawnLost
  <1>6. CASE Reap \/ WorkerDies \/ UNCHANGED updateVars
    BY <1>6 DEF Reap, WorkerDies, updateVars
  <1>. QED BY <1>2, <1>3, <1>4, <1>5, <1>6 DEF UpdateNext

-----------------------------------------------------------------------------
(* SelfUpdate: the result, and the watchdog.                                *)

Records == [state : {"running", "done"}, step : {"download", "apply"},
            phase : {None, "staging", "installing", "ready-to-restart", "waiting-panel"},
            auto : BOOLEAN, start : Version,
            outcome : Outcomes \cup {None}, says : Says \cup {None}]

Dogs == {"up", "down", "stopped", "lost"}

RunTypes ==
    /\ record \in Records
    /\ staged \in BOOLEAN
    /\ tree \in Version /\ torn \in BOOLEAN /\ relayCode \in Version \cup {None}
    /\ beforeVersion \in Version \cup {None}
    /\ dog \in Dogs
    /\ WorkerAlive => record.state = "running"

CountTypes ==
    helpers \in 0..MaxHelpers /\ runs \in 0..MaxRuns /\ userRestarts \in 0..MaxRestarts

\* What is on disk and what the relay runs, at each place of the worker: the
\* code the run found until it is installed, the new code, whole, with the
\* rollback point remembered until the swap is decided, the old code again, whole,
\* after that.  Between, the record says of the relay what the result will.
RunIsOnCourse ==
    /\ worker \in {"staging", "installing", "respawning", "rerelaying", "back"}
          => tree = record.start
    /\ worker \in {"respawning", "rerelaying", "back"} => ~torn
    /\ worker \in {"depending", "stopping", "restarting", "down", "up"}
          => tree = "new" /\ ~torn /\ beforeVersion = record.start
    /\ worker \in {"down", "up"} => relayCode = tree \/ record.says = "relay"
    /\ worker = "unrestored" => "restore" \in faults
    /\ worker = "back" => relayCode = tree \/ "relay" \in faults
    /\ record.state = "running" => record.says # "restored"
    /\ torn => {"checkout", "restore", "crash"} \cap faults # {}

RunInv ==
    /\ RunTypes
    /\ RunIsOnCourse
    /\ OutcomeIsTrue
    /\ WatchdogComesBack

\* What a result must say to be true of the disk and of the relay.
SaysTrue(outcome, says, disk, ripped, code) ==
    /\ says = "restored" \/ outcome = "rolled_back" => disk = record.start /\ ~ripped
    /\ outcome \in {"updated", "updated_pending_restart"} =>
          disk = "new" /\ ~ripped /\ (code = disk \/ says = "relay")
    /\ outcome = "failed" =>
          /\ disk = record.start \/ {"restore", "throws"} \cap faults # {}
          /\ ripped => {"checkout", "restore", "crash"} \cap faults # {}
    /\ outcome = "rolled_back" => code = disk \/ "relay" \in faults

\* A run that ends says what is true.
LEMMA FinishIsTrue ==
    ASSUME RunInv, NEW outcome \in Outcomes, NEW says \in Says \cup {None},
           FinishRun(outcome, says),
           staged' \in BOOLEAN, tree' \in Version, torn' \in BOOLEAN,
           relayCode' \in Version \cup {None},
           torn' => {"checkout", "restore", "crash"} \cap faults # {},
           SaysTrue(outcome, says, tree', torn', relayCode')
    PROVE  RunInv'
  <1>1. /\ record' = [record EXCEPT !.state = "done", !.outcome = outcome, !.says = says]
        /\ worker' = "none" /\ UNCHANGED <<beforeVersion, faults>>
        /\ dog' \in IF dog # "stopped" THEN {dog}
                    ELSE IF "watchdog" \in faults THEN {"up", "lost"} ELSE {"up"}
    BY DEF FinishRun
  <1>2. /\ record' \in Records /\ record'.start = record.start
        /\ record'.state = "done" /\ record'.outcome = outcome /\ record'.says = says
    BY <1>1 DEF RunInv, RunTypes, Records
  <1>3. dog' \in Dogs \ {"stopped"} /\ (dog' = "lost" => dog = "lost" \/ "watchdog" \in faults)
    BY <1>1 DEF RunInv, RunTypes, Dogs
  <1>4. RunTypes'
    BY <1>1, <1>2, <1>3 DEF RunInv, RunTypes, WorkerAlive
  <1>5. RunIsOnCourse'
    BY <1>1, <1>2 DEF RunIsOnCourse
  <1>6. OutcomeIsTrue'
    BY <1>1, <1>2 DEF OutcomeIsTrue, SaysTrue
  <1>7. WatchdogComesBack'
    BY <1>1, <1>3 DEF RunInv, WatchdogComesBack
  <1>. QED BY <1>4, <1>5, <1>6, <1>7 DEF RunInv

\* An error that is caught leaves the disk as it is.
LEMMA CaughtIsTrue ==
    ASSUME RunInv, Caught, UNCHANGED <<staged, tree, torn>>, relayCode' \in Version \cup {None}
    PROVE  RunInv'
  <1>1. FinishRun("failed", None) /\ "throws" \in faults
    BY DEF Caught
  <1>2. "failed" \in Outcomes /\ None \in Says \cup {None}
    BY DEF Outcomes
  <1>3. None \notin {"restored", "relay"}
    BY SelfUpdateAssumption DEF Says
  <1>4. SaysTrue("failed", None, tree', torn', relayCode')
    BY <1>1, <1>3 DEF SaysTrue, RunInv, RunIsOnCourse
  <1>5. /\ staged' \in BOOLEAN /\ tree' \in Version /\ torn' \in BOOLEAN
        /\ torn' => {"checkout", "restore", "crash"} \cap faults # {}
    BY DEF RunInv, RunTypes, RunIsOnCourse
  <1>. QED BY <1>1, <1>2, <1>4, <1>5, FinishIsTrue

\* A worker that goes on with its running record says nothing yet.
LEMMA GoingOnIsTrue ==
    ASSUME RunInv, worker' \notin {"none", "dead"}, faults' = faults,
           record' \in Records, record'.state = "running",
           staged' \in BOOLEAN, tree' \in Version, torn' \in BOOLEAN,
           relayCode' \in Version \cup {None}, beforeVersion' \in Version \cup {None},
           dog' \in Dogs, dog' = "lost" => dog = "lost" \/ "watchdog" \in faults,
           RunIsOnCourse'
    PROVE  RunInv'
  <1>1. RunTypes'
    BY DEF RunTypes
  <1>2. OutcomeIsTrue'
    BY DEF OutcomeIsTrue
  <1>3. WatchdogComesBack'
    BY DEF RunInv, WatchdogComesBack, WorkerAlive
  <1>. QED BY <1>1, <1>2, <1>3 DEF RunInv

\* A step of neither the worker nor the record.
LEMMA RunRests ==
    ASSUME RunInv, staged' \in BOOLEAN,
           UNCHANGED <<record, worker, beforeVersion, tree, torn, relayCode, dog, faults>>
    PROVE  RunInv'
  <1>1. RunTypes'
    BY DEF RunInv, RunTypes, WorkerAlive
  <1>2. RunIsOnCourse'
    BY DEF RunInv, RunIsOnCourse
  <1>3. OutcomeIsTrue' /\ WatchdogComesBack'
    BY DEF RunInv, OutcomeIsTrue, WatchdogComesBack, WorkerAlive
  <1>. QED BY <1>1, <1>2, <1>3 DEF RunInv

\* A worker that is gone says nothing, and the watchdog it stopped is lost.
LEMMA GoneIsTrue ==
    ASSUME RunInv, WorkerGone, WorkerAlive, {"lost", "crash"} \cap faults # {},
           UNCHANGED <<staged, tree, relayCode>>, torn' \in BOOLEAN,
           torn' => {"checkout", "restore", "crash"} \cap faults # {}
    PROVE  RunInv'
  <1>1. /\ worker' = "dead" /\ UNCHANGED <<record, beforeVersion, faults>>
        /\ dog' = IF dog = "stopped" THEN "lost" ELSE dog
        /\ record.state = "running"
    BY DEF WorkerGone, RunInv, RunTypes
  <1>2. dog' \in Dogs \ {"stopped"}
    BY <1>1 DEF RunInv, RunTypes, Dogs
  <1>3. RunTypes'
    BY <1>1, <1>2 DEF RunInv, RunTypes, WorkerAlive
  <1>4. RunIsOnCourse'
    BY <1>1 DEF RunInv, RunIsOnCourse
  <1>5. OutcomeIsTrue'
    BY <1>1 DEF OutcomeIsTrue
  <1>6. WatchdogComesBack'
    BY <1>1, <1>2 DEF RunInv, WatchdogComesBack
  <1>. QED BY <1>3, <1>4, <1>5, <1>6 DEF RunInv

\* The places of the worker that put the record into the swap keep its start.
LEMMA RecordMoves ==
    ASSUME record \in Records, NEW step \in {"download", "apply"},
           NEW phase \in {"installing", "ready-to-restart", "waiting-panel"},
           NEW says \in Says \cup {None}
    PROVE  /\ [record EXCEPT !.step = step, !.phase = phase] \in Records
           /\ [record EXCEPT !.step = step, !.phase = phase].start = record.start
           /\ [record EXCEPT !.step = step, !.phase = phase].state = record.state
           /\ [record EXCEPT !.step = step, !.phase = phase].says = record.says
           /\ [record EXCEPT !.phase = phase] \in Records
           /\ [record EXCEPT !.phase = phase].start = record.start
           /\ [record EXCEPT !.phase = phase].state = record.state
           /\ [record EXCEPT !.phase = phase].says = record.says
           /\ [record EXCEPT !.phase = phase, !.says = says] \in Records
           /\ [record EXCEPT !.phase = phase, !.says = says].start = record.start
           /\ [record EXCEPT !.phase = phase, !.says = says].state = record.state
           /\ [record EXCEPT !.phase = phase, !.says = says].says = says
  BY DEF Records

LEMMA HandlerKeeps ==
    ASSUME RunInv, NEW p \in Panels, Handler(p)
    PROVE  RunInv'
  <1>1. ASSUME NEW step \in {"download", "apply"}, NEW phase \in {"staging", "installing"},
               NEW auto \in BOOLEAN,
               record' = Registered(step, phase, auto), worker' = phase,
               staged' \in BOOLEAN,
               UNCHANGED <<beforeVersion, tree, torn, relayCode, dog, faults>>
        PROVE  RunInv'
    <2>1. /\ record' \in Records /\ record'.state = "running" /\ record'.start = tree
          /\ record'.says # "restored"
      BY <1>1, SelfUpdateAssumption DEF Registered, Records, RunInv, RunTypes, Says
    <2>2. RunIsOnCourse'
      BY <1>1, <2>1 DEF RunInv, RunIsOnCourse
    <2>. QED BY <1>1, <2>1, <2>2, GoingOnIsTrue DEF RunInv, RunTypes
  <1>2. CASE Register(p, TRUE) \/ Register(p, FALSE)
    <2>1. PICK auto \in BOOLEAN : Register(p, auto)
      BY <1>2
    <2>. QED BY <1>1, <2>1 DEF Register, RunInv, RunTypes
  <1>3. CASE Apply(p)
    BY <1>1, <1>3 DEF Apply
  <1>4. CASE MarkStale(p) \/ UserRestarts(p)
    BY <1>4, RunRests DEF MarkStale, UserRestarts, worker_vars, RunInv, RunTypes
  <1>. QED BY <1>2, <1>3, <1>4 DEF Handler

LEMMA WorkerKeeps ==
    ASSUME RunInv, WorkerStep
    PROVE  RunInv'
  <1>0. /\ RunTypes /\ RunIsOnCourse /\ record \in Records /\ staged \in BOOLEAN
        /\ tree \in Version /\ torn \in BOOLEAN /\ relayCode \in Version \cup {None}
        /\ beforeVersion \in Version \cup {None} /\ dog \in Dogs /\ "new" \in Version
        /\ record.start \in Version /\ record.says \in Says \cup {None}
        /\ {"downloaded", "failed", "updated", "rolled_back",
             "updated_pending_restart"} \subseteq Outcomes
        /\ "restored" \in Says /\ "relay" \in Says /\ None \notin Says
        /\ WorkerAlive => record.state = "running"
        /\ torn => {"checkout", "restore", "crash"} \cap faults # {}
        /\ record.state = "running" => record.says # "restored"
    BY SelfUpdateAssumption DEF RunInv, RunTypes, RunIsOnCourse, Records, Version, Outcomes, Says
  <1>a. None # "restored" /\ None # "relay"
    BY <1>0
  \* The ends of a run, and the errors that cut it short.
  <1>b. ASSUME NEW outcome \in Outcomes, NEW says \in Says \cup {None}, Ends(outcome, says),
               staged' = staged, tree' = tree, torn' = torn, relayCode' = relayCode,
               SaysTrue(outcome, says, tree, torn, relayCode)
        PROVE  RunInv'
    <2>1. CASE FinishRun(outcome, says)
      BY <1>0, <1>b, <2>1, FinishIsTrue
    <2>2. CASE Caught
      BY <1>0, <1>b, <2>2, CaughtIsTrue
    <2>. QED BY <1>b, <2>1, <2>2 DEF Ends
  <1>1. CASE Download
    <2>1. /\ worker = "staging" /\ record.state = "running" /\ tree = record.start
          /\ UNCHANGED <<tree, torn, relayCode>>
      BY <1>0, <1>1 DEF Download, RunIsOnCourse, WorkerAlive
    <2>2. CASE FinishRun("failed", None) /\ UNCHANGED staged
      BY <1>0, <1>a, <2>1, <2>2, FinishIsTrue DEF SaysTrue
    <2>3. CASE FinishRun("downloaded", None) /\ staged' = TRUE
      BY <1>0, <1>a, <2>1, <2>3, FinishIsTrue DEF SaysTrue
    <2>4. CASE /\ Goes("installing")
               /\ record' = [record EXCEPT !.step = "apply", !.phase = "installing"]
               /\ UNCHANGED <<staged, dog>>
      <3>1. /\ record' \in Records /\ record'.state = "running" /\ record'.start = tree
            /\ record'.says = record.says
        BY <1>0, <2>1, <2>4, RecordMoves
      <3>2. worker' = "installing" /\ UNCHANGED <<beforeVersion, faults>>
        BY <2>4 DEF Goes
      <3>3. RunIsOnCourse'
        BY <1>0, <2>1, <3>1, <3>2 DEF RunIsOnCourse
      <3>. QED BY <1>0, <2>1, <2>4, <3>1, <3>2, <3>3, GoingOnIsTrue
    <2>. QED BY <1>1, <2>2, <2>3, <2>4 DEF Download
  <1>2. CASE Install
    <2>1. /\ worker = "installing" /\ record.state = "running" /\ tree = record.start
          /\ UNCHANGED <<staged, relayCode>>
      BY <1>0, <1>2 DEF Install, RunIsOnCourse, WorkerAlive
    <2>2. CASE FinishRun("failed", None) /\ UNCHANGED <<tree, torn>>
      BY <1>0, <1>a, <2>1, <2>2, FinishIsTrue DEF SaysTrue
    <2>3. CASE Caught /\ UNCHANGED <<tree, torn>>
      BY <1>0, <2>1, <2>3, CaughtIsTrue
    <2>4. CASE "checkout" \in faults /\ Ends("failed", None) /\ UNCHANGED tree /\ torn' \in {torn, TRUE}
      <3>1. FinishRun("failed", None)
        BY <2>4 DEF Ends, Caught
      <3>. QED BY <1>0, <1>a, <2>1, <2>4, <3>1, FinishIsTrue DEF SaysTrue
    <2>5. CASE /\ tree' = "new" /\ torn' = FALSE /\ beforeVersion' = tree /\ worker' = "depending"
               /\ UNCHANGED <<record, dog, helpers, runs, userRestarts, faults>>
      <3>1. RunIsOnCourse'
        BY <1>0, <2>1, <2>5 DEF RunIsOnCourse
      <3>. QED BY <1>0, <2>1, <2>5, <3>1, GoingOnIsTrue
    <2>. QED BY <1>2, <2>2, <2>3, <2>4, <2>5 DEF Install
  <1>3. CASE Depend
    <2>1. /\ worker = "depending" /\ record.state = "running"
          /\ tree = "new" /\ ~torn /\ beforeVersion = record.start /\ UNCHANGED <<staged, relayCode>>
      BY <1>0, <1>3 DEF Depend, Installed, RunIsOnCourse, WorkerAlive
    <2>2. CASE Restores /\ Ends("failed", "restored")
      <3>1. tree' = record.start /\ torn' = FALSE
        BY <2>1, <2>2 DEF Restores
      <3>2. CASE FinishRun("failed", "restored")
        BY <1>0, <2>1, <3>1, <3>2, FinishIsTrue DEF SaysTrue
      <3>3. CASE Caught
        <4>1. FinishRun("failed", None)
          BY <3>3 DEF Caught
        <4>. QED BY <1>0, <1>a, <2>1, <3>1, <4>1, FinishIsTrue DEF SaysTrue
      <3>. QED BY <2>2, <3>2, <3>3 DEF Ends
    <2>3. CASE RestoreFails /\ Ends("failed", None)
      <3>1. "restore" \in faults /\ tree' = tree /\ torn' \in BOOLEAN
        BY <1>0, <2>3 DEF RestoreFails
      <3>2. FinishRun("failed", None)
        BY <2>3 DEF Ends, Caught
      <3>. QED BY <1>0, <1>a, <2>1, <3>1, <3>2, FinishIsTrue DEF SaysTrue
    <2>4. CASE Caught /\ UNCHANGED <<tree, torn>>
      BY <1>0, <2>1, <2>4, CaughtIsTrue
    <2>5. CASE Depended
      <3>0. /\ worker' = "stopping" /\ UNCHANGED <<beforeVersion, tree, torn, dog, faults>>
            /\ record' = [record EXCEPT !.phase = "ready-to-restart"]
        BY <2>5 DEF Depended, Goes
      <3>1. /\ record' \in Records /\ record'.state = "running" /\ record'.start = record.start
            /\ record'.says = record.says
        BY <1>0, <2>1, <3>0, RecordMoves
      <3>2. RunIsOnCourse'
        BY <1>0, <2>1, <3>0, <3>1 DEF RunIsOnCourse
      <3>. QED BY <1>0, <2>1, <3>0, <3>1, <3>2, GoingOnIsTrue
    <2>. QED BY <1>3, <2>2, <2>3, <2>4, <2>5 DEF Depend
  <1>4. CASE StopWatchdog
    <2>1. /\ worker = "stopping" /\ worker' = "restarting" /\ record.state = "running"
          /\ tree = "new" /\ ~torn /\ beforeVersion = record.start
          /\ UNCHANGED <<record, staged, tree, torn, relayCode, beforeVersion, faults>>
          /\ dog' \in IF dog # "up" THEN {dog}
                      ELSE IF "watchdog" \in faults THEN {"stopped", "up", "lost"} ELSE {"stopped"}
      BY <1>0, <1>4 DEF StopWatchdog, Goes, RunIsOnCourse, WorkerAlive
    <2>2. RunIsOnCourse'
      BY <1>0, <2>1 DEF RunIsOnCourse
    <2>3. dog' \in Dogs /\ (dog' = "lost" => dog = "lost" \/ "watchdog" \in faults)
      BY <1>0, <2>1 DEF Dogs
    <2>. QED BY <1>0, <2>1, <2>2, <2>3, GoingOnIsTrue
  <1>5. CASE RestartRelay
    <2>1. /\ worker = "restarting" /\ record.state = "running"
          /\ tree = "new" /\ ~torn /\ beforeVersion = record.start
          /\ UNCHANGED <<staged, tree, torn>>
      BY <1>0, <1>5 DEF RestartRelay, RunIsOnCourse, WorkerAlive
    <2>2. PICK ok \in BOOLEAN :
             /\ RelayRestarts(ok)
             /\ \/ /\ Goes("down") /\ UNCHANGED dog
                   /\ record' = [record EXCEPT !.phase = "waiting-panel",
                                               !.says = IF ok THEN None ELSE "relay"]
                \/ Caught
      BY <1>5 DEF RestartRelay
    <2>3. relayCode' \in Version \cup {None} /\ (ok => relayCode' = tree)
      BY <1>0, <2>2 DEF RelayRestarts
    <2>4. CASE Caught
      BY <1>0, <2>1, <2>3, <2>4, CaughtIsTrue
    <2>5. CASE /\ Goes("down") /\ UNCHANGED dog
               /\ record' = [record EXCEPT !.phase = "waiting-panel",
                                           !.says = IF ok THEN None ELSE "relay"]
      <3>. DEFINE says == IF ok THEN None ELSE "relay"
      <3>1. says \in Says \cup {None} /\ says # "restored" /\ (~ok => says = "relay")
        BY <1>0
      <3>2. record' = [record EXCEPT !.phase = "waiting-panel", !.says = says]
        BY <2>5
      <3>. HIDE DEF says
      <3>3. /\ record' \in Records /\ record'.state = "running" /\ record'.start = record.start
            /\ record'.says = says
        BY <1>0, <2>1, <3>1, <3>2, RecordMoves
      <3>4. worker' = "down" /\ UNCHANGED <<beforeVersion, faults>>
        BY <2>5 DEF Goes
      <3>5. RunIsOnCourse'
        BY <1>0, <2>1, <2>3, <3>1, <3>3, <3>4 DEF RunIsOnCourse
      <3>. QED BY <1>0, <2>1, <2>3, <2>5, <3>3, <3>4, <3>5, GoingOnIsTrue
    <2>. QED BY <2>2, <2>4, <2>5
  <1>6. CASE SeeDown
    <2>1. /\ worker = "down" /\ worker' = "up" /\ record.state = "running"
          /\ tree = "new" /\ ~torn /\ beforeVersion = record.start
          /\ relayCode = tree \/ record.says = "relay"
          /\ UNCHANGED <<record, staged, tree, torn, relayCode, dog, beforeVersion, faults>>
      BY <1>0, <1>6 DEF SeeDown, Goes, RunIsOnCourse, WorkerAlive
    <2>2. RunIsOnCourse'
      BY <1>0, <2>1 DEF RunIsOnCourse
    <2>. QED BY <1>0, <2>1, <2>2, GoingOnIsTrue
  <1>7. CASE DownTimeout
    <2>1. /\ tree = "new" /\ ~torn /\ (relayCode = tree \/ record.says = "relay")
          /\ record.says # "restored" /\ Ends("updated_pending_restart", record.says)
          /\ UNCHANGED <<staged, tree, torn, relayCode>>
      BY <1>0, <1>7 DEF DownTimeout, OldStays, RunIsOnCourse, WorkerAlive
    <2>. QED BY <1>0, <1>b, <2>1 DEF SaysTrue
  <1>8. CASE SeeUp
    <2>1. /\ tree = "new" /\ ~torn /\ (relayCode = tree \/ record.says = "relay")
          /\ record.says # "restored" /\ Ends("updated", record.says)
          /\ UNCHANGED <<staged, tree, torn, relayCode>>
      BY <1>0, <1>8 DEF SeeUp, RunIsOnCourse, WorkerAlive
    <2>. QED BY <1>0, <1>b, <2>1 DEF SaysTrue
  <1>9. CASE UpTimeout
    <2>1. /\ worker = "up" /\ record.state = "running" /\ beforeVersion = record.start
          /\ UNCHANGED <<record, staged, relayCode, dog>>
          /\ \/ Restores /\ Goes("respawning")
             \/ RestoreFails /\ Goes("unrestored")
      BY <1>0, <1>9 DEF UpTimeout, RunIsOnCourse, WorkerAlive
    <2>2. CASE Restores /\ Goes("respawning")
      <3>1. /\ worker' = "respawning" /\ tree' = record.start /\ torn' = FALSE
            /\ UNCHANGED <<beforeVersion, faults>>
        BY <2>1, <2>2 DEF Goes, Restores
      <3>2. RunIsOnCourse'
        BY <1>0, <2>1, <3>1 DEF RunIsOnCourse
      <3>. QED BY <1>0, <2>1, <3>1, <3>2, GoingOnIsTrue
    <2>3. CASE RestoreFails /\ Goes("unrestored")
      <3>1. /\ worker' = "unrestored" /\ tree' = tree /\ torn' \in BOOLEAN /\ "restore" \in faults
            /\ UNCHANGED <<beforeVersion, faults>>
        BY <1>0, <2>3 DEF Goes, RestoreFails
      <3>2. RunIsOnCourse'
        BY <1>0, <2>1, <3>1 DEF RunIsOnCourse
      <3>. QED BY <1>0, <2>1, <3>1, <3>2, GoingOnIsTrue
    <2>. QED BY <2>1, <2>2, <2>3
  <1>10. CASE GiveUp
    <2>1. /\ "restore" \in faults /\ Ends("failed", None)
          /\ UNCHANGED <<staged, tree, torn, relayCode>>
      BY <1>0, <1>10 DEF GiveUp, RunIsOnCourse
    <2>. QED BY <1>0, <1>a, <1>b, <2>1 DEF SaysTrue
  <1>11. CASE Respawn
    <2>1. /\ worker = "respawning" /\ record.state = "running" /\ WorkerAlive
          /\ tree = record.start /\ ~torn /\ UNCHANGED <<staged, tree, torn, relayCode>>
      BY <1>0, <1>11 DEF Respawn, RunIsOnCourse, WorkerAlive
    <2>2. CASE Goes("rerelaying") /\ UNCHANGED <<record, dog>>
      <3>1. worker' = "rerelaying" /\ UNCHANGED <<beforeVersion, faults>>
        BY <2>2 DEF Goes
      <3>2. RunIsOnCourse'
        BY <1>0, <2>1, <2>2, <3>1 DEF RunIsOnCourse
      <3>. QED BY <1>0, <2>1, <2>2, <3>1, <3>2, GoingOnIsTrue
    <2>3. CASE SpawnLost /\ WorkerGone
      BY <1>0, <2>1, <2>3, GoneIsTrue DEF SpawnLost
    <2>. QED BY <1>11, <2>2, <2>3 DEF Respawn
  <1>12. CASE RelayBack
    <2>1. /\ worker = "rerelaying" /\ worker' = "back" /\ record.state = "running"
          /\ tree = record.start /\ ~torn
          /\ UNCHANGED <<record, staged, tree, torn, dog, beforeVersion, faults>>
      BY <1>0, <1>12 DEF RelayBack, Goes, RunIsOnCourse, WorkerAlive
    <2>2. relayCode' \in Version \cup {None} /\ (relayCode' = tree \/ "relay" \in faults)
      BY <1>0, <1>12 DEF RelayBack, RelayRestarts
    <2>3. RunIsOnCourse'
      BY <1>0, <2>1, <2>2 DEF RunIsOnCourse
    <2>. QED BY <1>0, <2>1, <2>2, <2>3, GoingOnIsTrue
  <1>13. CASE SeeBack
    <2>1. /\ tree = record.start /\ ~torn /\ (relayCode = tree \/ "relay" \in faults)
          /\ Ends("rolled_back", None) /\ UNCHANGED <<staged, tree, torn, relayCode>>
      BY <1>0, <1>13 DEF SeeBack, RunIsOnCourse
    <2>. QED BY <1>0, <1>a, <1>b, <2>1 DEF SaysTrue
  <1>. QED BY <1>1, <1>2, <1>3, <1>4, <1>5, <1>6, <1>7, <1>8, <1>9, <1>10, <1>11, <1>12, <1>13
           DEF WorkerStep

LEMMA RunInvInit == UpdateInit => RunInv
  <1>. SUFFICES ASSUME UpdateInit PROVE RunInv
    OBVIOUS
  <1>1. /\ record \in Records /\ record.state = "done" /\ record.outcome = None
        /\ record.says = None
    BY DEF UpdateInit, Records, Version
  <1>2. RunTypes
    BY <1>1 DEF UpdateInit, RunTypes, WorkerAlive, Version, Dogs
  <1>3. RunIsOnCourse
    BY <1>1 DEF UpdateInit, RunIsOnCourse
  <1>4. OutcomeIsTrue
    BY SelfUpdateAssumption, <1>1 DEF OutcomeIsTrue, Outcomes, Says
  <1>5. WatchdogComesBack
    BY DEF UpdateInit, WatchdogComesBack
  <1>. QED BY <1>2, <1>3, <1>4, <1>5 DEF RunInv

LEMMA RunInvStep == RunInv /\ [UpdateNext]_updateVars => RunInv'
  <1>. SUFFICES ASSUME RunInv, [UpdateNext]_updateVars PROVE RunInv'
    OBVIOUS
  <1>0. staged \in BOOLEAN
    BY DEF RunInv, RunTypes
  <1>1. CASE Reap
    <2>1. /\ record' = [record EXCEPT !.state = "done", !.outcome = "interrupted"]
          /\ worker = "dead" /\ record.state = "running"
          /\ UNCHANGED <<staged, worker, beforeVersion, tree, torn, relayCode, dog, faults>>
      BY <1>1 DEF Reap, Reapable
    <2>2. /\ record' \in Records /\ record'.outcome = "interrupted" /\ record'.state = "done"
          /\ record'.says = record.says /\ record.says # "restored"
      BY <2>1 DEF RunInv, RunTypes, RunIsOnCourse, Records, Outcomes
    <2>3. RunTypes' /\ RunIsOnCourse'
      BY <2>1, <2>2 DEF RunInv, RunTypes, RunIsOnCourse, WorkerAlive
    <2>4. OutcomeIsTrue'
      BY <2>2 DEF OutcomeIsTrue
    <2>5. WatchdogComesBack'
      BY <2>1 DEF RunInv, WatchdogComesBack, WorkerAlive
    <2>. QED BY <2>3, <2>4, <2>5 DEF RunInv
  <1>2. CASE WorkerDies
    <2>1. /\ "crash" \in faults /\ WorkerAlive /\ WorkerGone /\ torn' \in BOOLEAN
          /\ UNCHANGED <<staged, tree, relayCode>>
      BY <1>2 DEF WorkerDies, RunInv, RunTypes
    <2>. QED BY <2>1, GoneIsTrue
  <1>3. ASSUME NEW p \in Panels, PanelProcess(p)
        PROVE  RunInv'
    BY <1>0, <1>3, RunRests DEF PanelProcess, Boot, BootFails, Pump, Exit,
       worker_vars
  <1>4. CASE Helper \/ Launch \/ UNCHANGED updateVars
    BY <1>0, <1>4, RunRests DEF Helper, HelperSpawns, HelperGivesUp, Launch,
       worker_vars, updateVars
  <1>. QED BY <1>1, <1>2, <1>3, <1>4, HandlerKeeps, WorkerKeeps DEF UpdateNext

\* What the result tells the user is true of the disk and of the relay, whatever
\* fails and whatever panels come and go meanwhile: an installed result means the
\* new code, whole, a rolled back one, and a failed one that says the files were
\* put back, the code the run found, and the relay runs it or the result says
\* that it does not.  What a failed restore, an error that is caught, a checkout
\* cut off and a relay that does not restart on the rollback do to that is said
\* in the property, each by its fault.
THEOREM ResultIsTrue == UpdateSpec => []OutcomeIsTrue
  <1>1. RunInv => OutcomeIsTrue
    BY DEF RunInv
  <1>. QED BY <1>1, RunInvInit, RunInvStep, PTL DEF UpdateSpec

\* A watchdog that the run stopped is started again on every path out of the run
\* but the worker's death, caught errors included; it stays away besides only
\* when its stop or its start answered that it failed.
THEOREM WatchdogIsBack == UpdateSpec => []WatchdogComesBack
  <1>1. RunInv => WatchdogComesBack
    BY DEF RunInv
  <1>. QED BY <1>1, RunInvInit, RunInvStep, PTL DEF UpdateSpec

LEMMA CountStep == CountTypes /\ [UpdateNext]_updateVars => CountTypes'
  <1>. SUFFICES ASSUME CountTypes, [UpdateNext]_updateVars PROVE CountTypes'
    OBVIOUS
  <1>1. ASSUME NEW p \in Panels, Handler(p)
        PROVE  CountTypes'
    <2>1. CASE UserRestarts(p)
      <3>1. /\ (helpers < MaxHelpers /\ helpers' = helpers + 1) \/ helpers' = helpers
            /\ userRestarts < MaxRestarts /\ userRestarts' = userRestarts + 1 /\ runs' = runs
        BY <2>1 DEF UserRestarts, HelperStarts
      <3>2. helpers' \in 0..MaxHelpers
        BY SelfUpdateAssumption, <3>1 DEF CountTypes
      <3>3. userRestarts' \in 0..MaxRestarts
        BY SelfUpdateAssumption, <3>1 DEF CountTypes
      <3>. QED BY <3>1, <3>2, <3>3 DEF CountTypes
    <2>2. CASE Apply(p) \/ Register(p, TRUE) \/ Register(p, FALSE)
      <3>1. runs < MaxRuns /\ runs' = runs + 1 /\ UNCHANGED <<helpers, userRestarts>>
        BY <2>2 DEF Apply, Register
      <3>2. runs' \in 0..MaxRuns
        BY SelfUpdateAssumption, <3>1 DEF CountTypes
      <3>. QED BY <3>1, <3>2 DEF CountTypes
    <2>3. CASE MarkStale(p)
      BY <2>3 DEF CountTypes, MarkStale
    <2>. QED BY <1>1, <2>1, <2>2, <2>3 DEF Handler
  <1>2. ASSUME NEW p \in Panels, PanelProcess(p)
        PROVE  CountTypes'
    BY SelfUpdateAssumption, <1>2 DEF CountTypes, PanelProcess, Boot, BootFails, Pump,
       Fire, HelperStarts, Exit
  <1>3. CASE WorkerStep
    <2>1. UNCHANGED <<helpers, runs, userRestarts>>
      BY <1>3 DEF WorkerStep, Download, Install, Depend, StopWatchdog,
         RestartRelay, SeeDown, DownTimeout, SeeUp, UpTimeout, GiveUp, Respawn,
         RelayBack, SeeBack, FinishRun, Ends, Caught, Goes, Depended, WorkerGone
    <2>. QED BY <2>1 DEF CountTypes
  <1>4. CASE Helper \/ Launch
    BY SelfUpdateAssumption, <1>4 DEF CountTypes, Helper, HelperSpawns, HelperGivesUp,
       Launch
  <1>5. CASE Reap \/ WorkerDies \/ UNCHANGED updateVars
    BY <1>5 DEF CountTypes, Reap, WorkerDies, WorkerGone, updateVars
  <1>. QED BY <1>1, <1>2, <1>3, <1>4, <1>5 DEF UpdateNext

UpdateInv ==
    /\ RunInv /\ CountTypes
    /\ panels \in [Panels -> Panel] /\ PortIsSingle

LEMMA UpdateIsTyped == UpdateInv => UpdateTypeOK
  BY SingleIsOne DEF UpdateInv, RunInv, RunTypes, CountTypes, UpdateTypeOK, Records, Dogs

\* Every variable has its type, a worker that is alive has the running record,
\* and one process at most holds the panel's port, whatever hosts are started,
\* replaced or crash.
THEOREM UpdateTypeCorrect == UpdateSpec => []UpdateTypeOK
  <1>1. UpdateInit => UpdateInv
    <2>. SUFFICES ASSUME UpdateInit PROVE UpdateInv
      OBVIOUS
    <2>. DEFINE p == CHOOSE q \in Panels : TRUE
    <2>1. panels = [q \in Panels |-> [st |-> IF q = p THEN "serving" ELSE "gone",
                                      code |-> "old", armed |-> FALSE]]
      BY DEF UpdateInit
    <2>. HIDE DEF p
    <2>2. panels \in [Panels -> Panel] /\ \A q \in Holder : q = p
      BY <2>1 DEF Panel, Holder, Version
    <2>3. PortIsSingle
      BY <2>2 DEF PortIsSingle
    <2>4. CountTypes
      BY SelfUpdateAssumption DEF UpdateInit, CountTypes
    <2>. QED BY <2>2, <2>3, <2>4, RunInvInit DEF UpdateInv
  <1>2. UpdateInv /\ [UpdateNext]_updateVars => UpdateInv'
    <2>. SUFFICES ASSUME UpdateInv, [UpdateNext]_updateVars PROVE UpdateInv'
      OBVIOUS
    <2>1. PanelChanges \/ UNCHANGED panels
      BY UpdateIsTyped, PanelsStep
    <2>2. panels' \in [Panels -> Panel] /\ PortIsSingle'
      BY <2>1, PortStaysSingle DEF UpdateInv
    <2>. QED BY <2>2, CountStep, RunInvStep DEF UpdateInv
  <1>. QED BY <1>1, <1>2, UpdateIsTyped, PTL DEF UpdateSpec
=============================================================================
