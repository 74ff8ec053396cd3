----------------------------- MODULE SelfUpdate -----------------------------
(***************************************************************************)
(* The application updating itself: the journal record, the detached       *)
(* worker (runSelfUpdate, src/src/ops/app-self-update.mjs), the panel's    *)
(* handlers and swap watcher (src/src/panel/panel.mjs) and the restart     *)
(* helper (src/src/panel/panel-host-restart-helper.mjs).                   *)
(*                                                                         *)
(* There are two versions of the code.  A process runs the version that    *)
(* was on disk when it was started; the panel port is held by one process. *)
(* A restart of the relay that answers ok has replaced it: RestartIsFresh  *)
(* of RelayLifecycle, with the exception stated there.                     *)
(***************************************************************************)
EXTENDS NoValue, Naturals, FiniteSets

CONSTANTS
    Panels,     \* process slots of panel hosts
    MaxRuns,    \* bound on update runs
    MaxRestarts, \* bound on the panels the user restarts or starts
    MaxHelpers, \* bound on restart helpers at a time
    Failures,   \* what may go wrong
    MaxFaults   \* bound on what goes wrong in one behaviour

\* What a run can end with.
Outcomes == {"downloaded", "failed", "updated", "rolled_back", "updated_pending_restart",
             "interrupted"}

\* What its result may say besides.
Says == {"restored", "relay"}

ASSUME SelfUpdateAssumption ==
    /\ None \notin Outcomes \cup Says
    /\ MaxRuns \in Nat /\ MaxRestarts \in Nat /\ MaxHelpers \in Nat \ {0} /\ MaxFaults \in Nat
    /\ Failures \subseteq
          {"git",      \* fetching or verifying the target fails
           "checkout", \* the checkout of the target fails or is cut off
           "npm",      \* the check of the tree or the install fails
           "restore",  \* the checkout of the rollback point fails, or there is none
           "watchdog", \* the watchdog's stop or start answers not ok
           "relay",    \* the relay's restart answers not ok
           "throws",   \* a write of the journal throws
           "helper",   \* starting the restart helper throws
           "lost",     \* a process that was started never runs
           "boot",     \* the new version does not start
           "slow",     \* panel hosts take longer than the waits for them
           "deaf",     \* a probe of the panel's port is not answered in time
           "crash"}    \* the worker dies

Version == {"old", "new"}

VARIABLES
    record,     \* the journal record of the latest run
    staged,     \* a record is done with outcome "downloaded" and not stale
    worker,     \* what the worker of the run does next; "none", "dead"
    beforeVersion, \* the worker's rollback point
    tree,       \* the version that is checked out
    torn,       \* the files are partly of another version
    relayCode,  \* the code the relay runs; None when it does not run
    dog,        \* the watchdog: "up", "down", "stopped" by the worker that will
                \* start it again, "lost": stopped, and nobody will
    panels,     \* the panel hosts
    helpers,    \* restart helpers waiting for the port
    runs,
    userRestarts,
    faults      \* what goes wrong in this behaviour

updateVars == <<record, staged, worker, beforeVersion, tree, torn, relayCode, dog, panels, helpers,
                runs, userRestarts, faults>>

worker_vars == <<record, staged, worker, beforeVersion, tree, torn, relayCode, dog>>

Panel == [st : {"gone", "starting", "spare", "serving", "leaving"},
          code : Version, armed : BOOLEAN]

WorkerAlive == worker \notin {"none", "dead"}

\* refreshClientUpdates, then runningClientUpdate: the record of a dead worker
\* is reaped before the lock is looked at.
Locked == record.state = "running" /\ WorkerAlive

AtSwap == record.phase \in {"ready-to-restart", "waiting-panel"}

Holder == {p \in Panels : panels[p].st \in {"serving", "leaving"}}

Free == {p \in Panels : panels[p].st = "gone"}

\* What a process started now may run.
OnDisk == IF torn THEN Version ELSE {tree}

\* A fresh panel host, in some free slot, on the code of the disk; its router
\* looks for a running record and arms the watcher before it listens.
PanelStarts ==
    /\ Free # {}
    /\ \E code \in OnDisk :
        panels' = [panels EXCEPT ![CHOOSE p \in Free : TRUE] =
                       [st |-> "starting", code |-> code, armed |-> Locked]]

\* A spawn that fails later fails unheard.
SpawnLost == "lost" \in faults /\ UNCHANGED panels

\* spawnPanelHostRestartHelper: an error of the spawn is swallowed.
HelperStarts ==
    \/ helpers < MaxHelpers /\ helpers' = helpers + 1
    \/ "lost" \in faults /\ UNCHANGED helpers

\* A panel host reaches its port before the first tick of its watcher, and
\* before npm is done, unless it is slow.
Up(p) == panels[p].st # "starting" \/ "slow" \in faults

\* Nothing that could hold the port with the new code is under way.
NobodyComes ==
    /\ helpers = 0
    /\ \A p \in Panels : panels[p].st # "serving" => panels[p].st \in {"gone", "spare"}
    /\ \A p \in Panels : panels[p].st = "serving" => ~panels[p].armed

UpdateInit ==
    /\ record = [state |-> "done", step |-> "download", phase |-> None,
                 auto |-> FALSE, start |-> "old", outcome |-> None, says |-> None]
    /\ staged = FALSE /\ worker = "none" /\ beforeVersion = None
    /\ tree = "old" /\ torn = FALSE /\ relayCode = "old" /\ dog \in {"up", "down"}
    /\ panels = [q \in Panels |->
           [st |-> IF q = CHOOSE p \in Panels : TRUE THEN "serving" ELSE "gone",
            code |-> "old", armed |-> FALSE]]
    /\ helpers = 0 /\ runs = 0 /\ userRestarts = 0
    /\ faults \in {f \in SUBSET Failures : Cardinality(f) <= MaxFaults}

-----------------------------------------------------------------------------
(* The panel's handlers.                                                    *)

\* appInfo.version is read once, when the process starts.
UpdateAvailable(p) == panels[p].st = "serving" /\ panels[p].code = "old"

Registered(step, phase, auto) ==
    [state |-> "running", step |-> step, phase |-> phase, auto |-> auto,
     start |-> tree, outcome |-> None, says |-> None]

\* POST /self-update, with autoApply, and the automatic download, without.
\* Neither arms the watcher.
Register(p, auto) ==
    /\ UpdateAvailable(p) /\ ~Locked /\ runs < MaxRuns
    /\ ~auto => ~staged
    /\ record' = Registered("download", "staging", auto)
    /\ worker' = "staging" /\ runs' = runs + 1
    /\ UNCHANGED <<staged, beforeVersion, tree, torn, relayCode, dog, panels, helpers, userRestarts,
                   faults>>

\* Variant: the watcher is not armed.
ApplyUnarmed(p) ==
    /\ UpdateAvailable(p) /\ ~Locked /\ staged /\ runs < MaxRuns
    /\ record' = Registered("apply", "installing", FALSE)
    /\ worker' = "installing" /\ staged' = FALSE /\ runs' = runs + 1
    /\ UNCHANGED <<beforeVersion, tree, torn, relayCode, dog, panels, helpers, userRestarts, faults>>

\* POST /self-update/apply: the downloaded record runs again.
Apply(p) ==
    /\ UpdateAvailable(p) /\ ~Locked /\ staged /\ runs < MaxRuns
    /\ record' = Registered("apply", "installing", FALSE)
    /\ worker' = "installing" /\ staged' = FALSE /\ runs' = runs + 1
    /\ panels' = [panels EXCEPT ![p].armed = TRUE]
    /\ UNCHANGED <<beforeVersion, tree, torn, relayCode, dog, helpers, userRestarts, faults>>

\* findStagedSelfUpdate in a panel that runs the target already.
MarkStale(p) ==
    /\ panels[p].st = "serving" /\ panels[p].code = "new" /\ staged
    /\ staged' = FALSE
    /\ UNCHANGED <<record, worker, beforeVersion, tree, torn, relayCode, dog, panels, helpers, runs,
                   userRestarts, faults>>

Reapable == record.state = "running" /\ worker = "dead"

\* reapDeadClientUpdateRuns, on any request or watcher tick.
Reap ==
    /\ Reapable /\ Holder # {}
    /\ record' = [record EXCEPT !.state = "done", !.outcome = "interrupted"]
    /\ UNCHANGED <<staged, worker, beforeVersion, tree, torn, relayCode, dog, panels, helpers, runs,
                   userRestarts, faults>>

\* startPanelHostReplacement on the user's request.
UserRestarts(p) ==
    /\ panels[p].st = "serving" /\ userRestarts < MaxRestarts
    /\ HelperStarts /\ userRestarts' = userRestarts + 1
    /\ panels' = [panels EXCEPT ![p].st = "leaving"]
    /\ UNCHANGED <<worker_vars, runs, faults>>

-----------------------------------------------------------------------------
(* The worker.                                                              *)

\* restoreWatchdog, then finish.  A watchdog that is not back within its time
\* does not change the result.
FinishRun(outcome, says) ==
    /\ record' = [record EXCEPT !.state = "done", !.outcome = outcome, !.says = says]
    /\ worker' = "none"
    /\ dog' \in IF dog # "stopped" THEN {dog}
                ELSE IF "watchdog" \in faults THEN {"up", "lost"} ELSE {"up"}
    /\ UNCHANGED <<beforeVersion, helpers, runs, userRestarts, faults>>

\* The catch around the whole application: the disk stays as it is.
Caught == "throws" \in faults /\ FinishRun("failed", None)

Ends(outcome, says) == FinishRun(outcome, says) \/ Caught

Goes(next) == worker' = next /\ UNCHANGED <<beforeVersion, helpers, runs, userRestarts, faults>>

Download ==
    /\ worker = "staging"
    /\ \/ "git" \in faults /\ FinishRun("failed", None) /\ UNCHANGED staged
       \/ ~record.auto /\ FinishRun("downloaded", None) /\ staged' = TRUE
       \/ /\ record.auto /\ Goes("installing")
          /\ record' = [record EXCEPT !.step = "apply", !.phase = "installing"]
          /\ UNCHANGED <<staged, dog>>
    /\ UNCHANGED <<tree, torn, relayCode, panels>>

\* Fetch, rollback point, checkout --force.  The checkout moves HEAD last: one
\* that fails or is cut off leaves some of the files replaced.
Install ==
    /\ worker = "installing"
    /\ \/ "git" \in faults /\ FinishRun("failed", None) /\ UNCHANGED <<tree, torn>>
       \/ Caught /\ UNCHANGED <<tree, torn>>
       \/ "checkout" \in faults /\ Ends("failed", None) /\ UNCHANGED tree /\ torn' \in {torn, TRUE}
       \/ /\ tree' = "new" /\ torn' = FALSE /\ beforeVersion' = tree /\ worker' = "depending"
          /\ UNCHANGED <<record, dog, helpers, runs, userRestarts, faults>>
    /\ UNCHANGED <<staged, relayCode, panels>>

\* restoreTree.
Restores == tree' = beforeVersion /\ torn' = FALSE

\* restoreTree that fails: its callers go on without.
RestoreFails == "restore" \in faults /\ UNCHANGED tree /\ torn' \in {torn, TRUE}

\* npm is done, or the check of the tree failed before it.
Installed == worker = "depending" /\ \A p \in Panels : Up(p)

Depended ==
    /\ Goes("stopping") /\ UNCHANGED <<tree, torn, dog>>
    /\ record' = [record EXCEPT !.phase = "ready-to-restart"]

\* Variant: the tree is left as it is.
DependUnrestored ==
    /\ Installed
    /\ \/ "npm" \in faults /\ Ends("failed", "restored") /\ UNCHANGED <<tree, torn>>
       \/ Caught /\ UNCHANGED <<tree, torn>>
       \/ Depended
    /\ UNCHANGED <<staged, relayCode, panels>>

\* The check of the tree and npm install.  The result tells that the files were
\* put back when they were.
Depend ==
    /\ Installed
    /\ \/ "npm" \in faults /\ Restores /\ Ends("failed", "restored")
       \/ "npm" \in faults /\ RestoreFails /\ Ends("failed", None)
       \/ Caught /\ UNCHANGED <<tree, torn>>
       \/ Depended
    /\ UNCHANGED <<staged, relayCode, panels>>

\* The worker starts the watchdog again only when its stop answered ok; one that
\* did not may have killed it all the same.
StopWatchdog ==
    /\ worker = "stopping" /\ Goes("restarting")
    /\ dog' \in IF dog # "up" THEN {dog}
                ELSE IF "watchdog" \in faults THEN {"stopped", "up", "lost"} ELSE {"stopped"}
    /\ UNCHANGED <<record, staged, tree, torn, relayCode, panels>>

\* restartRelay; one that failed left the old relay, or none.
RelayRestarts(ok) ==
    IF ok THEN relayCode' = tree
    ELSE "relay" \in faults /\ relayCode' \in {relayCode, None}

\* The result tells of a relay that did not restart.
RestartRelay ==
    /\ worker = "restarting"
    /\ \E ok \in BOOLEAN :
        /\ RelayRestarts(ok)
        /\ \/ /\ Goes("down") /\ UNCHANGED dog
              /\ record' = [record EXCEPT !.phase = "waiting-panel",
                                          !.says = IF ok THEN None ELSE "relay"]
           \/ Caught
    /\ UNCHANGED <<staged, tree, torn, panels>>

NewAnswers == \E p \in Holder : panels[p].code = "new"

\* The old panel is gone, or the new one came up between two probes.
SeeDown ==
    /\ worker = "down" /\ (Holder = {} \/ NewAnswers \/ "deaf" \in faults)
    /\ Goes("up")
    /\ UNCHANGED <<record, staged, tree, torn, relayCode, dog, panels>>

\* The old panel has answered for 20 seconds.  An armed watcher fires within
\* one, so only a panel without one stays that long.
OldStays ==
    worker = "down" /\ \E p \in Holder : panels[p] = [st |-> "serving", code |-> "old", armed |-> FALSE]

\* Variant: the watchdog stays stopped.
DownTimeoutDogless ==
    /\ OldStays
    /\ record' = [record EXCEPT !.state = "done", !.outcome = "updated_pending_restart"]
    /\ worker' = "none"
    /\ UNCHANGED <<staged, beforeVersion, tree, torn, relayCode, dog, panels, helpers, runs,
                   userRestarts, faults>>

DownTimeout ==
    /\ OldStays /\ Ends("updated_pending_restart", record.says)
    /\ UNCHANGED <<staged, tree, torn, relayCode, panels>>

SeeUp ==
    /\ worker = "up" /\ NewAnswers
    /\ Ends("updated", record.says)
    /\ UNCHANGED <<staged, tree, torn, relayCode, panels>>

\* No new panel for 30 seconds: nothing came, it was slow, or it was not heard.
UpTimeout ==
    /\ worker = "up" /\ (~NewAnswers \/ "deaf" \in faults)
    /\ NobodyComes \/ {"slow", "deaf"} \cap faults # {}
    /\ \/ Restores /\ Goes("respawning") /\ UNCHANGED <<record, dog, panels>>
       \/ RestoreFails /\ Goes("unrestored") /\ UNCHANGED <<record, dog, panels>>
    /\ UNCHANGED <<staged, relayCode>>

\* The old version did not come back: a panel is started on what there is.
GiveUp ==
    /\ worker = "unrestored" /\ (PanelStarts \/ SpawnLost) /\ Ends("failed", None)
    /\ UNCHANGED <<staged, tree, torn, relayCode>>

\* The worker is gone and starts no watchdog any more.
WorkerGone ==
    /\ worker' = "dead" /\ dog' = IF dog = "stopped" THEN "lost" ELSE dog
    /\ UNCHANGED <<record, beforeVersion, helpers, runs, userRestarts, faults>>

\* The old dependencies are back: spawnPanelHostFn.  A throw of it is caught;
\* an error event of its child has no listener, and ends the worker.
Respawn ==
    /\ worker = "respawning"
    /\ \/ (PanelStarts \/ SpawnLost) /\ Goes("rerelaying") /\ UNCHANGED <<record, dog>>
       \/ SpawnLost /\ WorkerGone
    /\ UNCHANGED <<staged, tree, torn, relayCode>>

\* A relay that does not restart now is not told of.
RelayBack ==
    /\ worker = "rerelaying" /\ Goes("back")
    /\ \E ok \in BOOLEAN : RelayRestarts(ok)
    /\ UNCHANGED <<record, staged, tree, torn, dog, panels>>

\* Whatever answers counts; after 30 seconds the run ends without.
SeeBack ==
    /\ worker = "back" /\ (Holder # {} \/ NobodyComes \/ {"slow", "deaf"} \cap faults # {})
    /\ Ends("rolled_back", None)
    /\ UNCHANGED <<staged, tree, torn, relayCode, panels>>

WorkerStep ==
    \/ Download \/ Install \/ Depend \/ StopWatchdog \/ RestartRelay
    \/ SeeDown \/ DownTimeout \/ SeeUp \/ UpTimeout \/ GiveUp
    \/ Respawn \/ RelayBack \/ SeeBack

\* A worker that dies in a checkout leaves it half done.
WorkerDies ==
    /\ "crash" \in faults /\ WorkerAlive /\ WorkerGone
    /\ torn' \in IF worker \in {"installing", "depending", "up"} THEN {torn, TRUE} ELSE {torn}
    /\ UNCHANGED <<staged, tree, relayCode, panels>>

-----------------------------------------------------------------------------
(* Panel hosts, their watcher and the helper.                               *)

\* listenLoopbackPanel: who finds the port taken serves nothing, and stays
\* only for its watcher's timer.
Boot(p) ==
    /\ panels[p].st = "starting"
    /\ panels' = [panels EXCEPT ![p].st =
           IF Holder = {} THEN "serving" ELSE IF panels[p].armed THEN "spare" ELSE "gone"]
    /\ UNCHANGED <<worker_vars, helpers, runs, userRestarts, faults>>

BootFails(p) ==
    /\ panels[p].st = "starting"
    /\ torn \/ (panels[p].code = "new" /\ "boot" \in faults)
    /\ panels' = [panels EXCEPT ![p].st = "gone", ![p].armed = FALSE]
    /\ UNCHANGED <<worker_vars, helpers, runs, userRestarts, faults>>

Disarmed(p) ==
    [panels EXCEPT ![p].armed = FALSE, ![p].st = IF @ = "spare" THEN "gone" ELSE @]

\* Variant: the panel leaves although nobody will start the next one.
FireUnhelped(p) ==
    /\ panels' = [panels EXCEPT ![p].armed = FALSE,
                                ![p].st = IF p \in Holder THEN "leaving" ELSE "gone"]
    /\ UNCHANGED helpers

\* firePanelSwap: when starting the helper throws, the panel stays.
Fire(p) ==
    \/ /\ HelperStarts
       /\ panels' = [panels EXCEPT ![p].armed = FALSE,
                                   ![p].st = IF p \in Holder THEN "leaving" ELSE "gone"]
    \/ "helper" \in faults /\ panels' = Disarmed(p) /\ UNCHANGED helpers

\* pumpSelfUpdateWatcher: at the swap a panel that is not the target yet fires.
Pump(p) ==
    /\ panels[p].armed /\ Up(p)
    /\ IF ~Locked THEN panels' = Disarmed(p) /\ UNCHANGED helpers
       ELSE AtSwap /\ panels[p].code = "old" /\ Fire(p)
    /\ UNCHANGED <<worker_vars, runs, userRestarts, faults>>

Exit(p) ==
    /\ panels[p].st = "leaving"
    /\ panels' = [panels EXCEPT ![p].st = "gone", ![p].armed = FALSE]
    /\ UNCHANGED <<worker_vars, helpers, runs, userRestarts, faults>>

HelperSpawns ==
    /\ helpers > 0 /\ (Holder = {} \/ "deaf" \in faults)
    /\ PanelStarts \/ SpawnLost
    /\ helpers' = helpers - 1
    /\ UNCHANGED <<worker_vars, runs, userRestarts, faults>>

\* The port is still held after ten seconds, by a panel that does not leave.
HelperGivesUp ==
    /\ helpers > 0 /\ \E p \in Holder : panels[p].st = "serving"
    /\ helpers' = helpers - 1
    /\ UNCHANGED <<worker_vars, panels, runs, userRestarts, faults>>

Helper == HelperSpawns \/ HelperGivesUp

\* The desktop shortcut, while no panel is there.
Launch ==
    /\ Free = Panels /\ userRestarts < MaxRestarts
    /\ PanelStarts
    /\ userRestarts' = userRestarts + 1
    /\ UNCHANGED <<worker_vars, helpers, runs, faults>>

PanelProcess(p) == Boot(p) \/ BootFails(p) \/ Pump(p) \/ Exit(p)

Handler(p) ==
    Register(p, TRUE) \/ Register(p, FALSE) \/ Apply(p) \/ MarkStale(p) \/ UserRestarts(p)

UpdateNext ==
    \/ \E p \in Panels : Handler(p) \/ PanelProcess(p)
    \/ Reap \/ WorkerStep \/ WorkerDies \/ Helper \/ Launch

UpdateSpec == UpdateInit /\ [][UpdateNext]_updateVars

\* Processes go on, timers fire, deadlines pass.  Nobody has to press a button.
UpdateFairness ==
    /\ WF_updateVars(WorkerStep) /\ WF_updateVars(Helper)
    /\ \A p \in Panels : WF_updateVars(Boot(p)) /\ WF_updateVars(Pump(p)) /\ WF_updateVars(Exit(p))

UpdateLiveSpec == UpdateSpec /\ UpdateFairness

-----------------------------------------------------------------------------
(* Properties.                                                              *)

\* Types, and the single flight: a worker that is alive has the running
\* record, and one process holds the port.
UpdateTypeOK ==
    /\ record \in [state : {"running", "done"}, step : {"download", "apply"},
                   phase : {None, "staging", "installing", "ready-to-restart", "waiting-panel"},
                   auto : BOOLEAN, start : Version,
                   outcome : Outcomes \cup {None}, says : Says \cup {None}]
    /\ staged \in BOOLEAN
    /\ beforeVersion \in Version \cup {None}
    /\ tree \in Version /\ torn \in BOOLEAN /\ relayCode \in Version \cup {None}
    /\ dog \in {"up", "down", "stopped", "lost"}
    /\ panels \in [Panels -> Panel]
    /\ helpers \in 0..MaxHelpers /\ runs \in 0..MaxRuns /\ userRestarts \in 0..MaxRestarts
    /\ WorkerAlive => record.state = "running"
    /\ Cardinality(Holder) <= 1

\* What the result tells the user is true of the disk and of the relay, with
\* whatever may fail and whatever panels come and go.  A result that says that
\* the files were put back, or that the earlier version is restored, leaves the
\* disk at the code the run found, and one that says installed at the new code,
\* whole.  A failed run that says neither left the code it found, unless what
\* failed is putting it back or a step in between.  After an update the relay
\* runs what is on disk, or the result says that it did not restart; after a
\* rollback it does, unless its restart failed.
OutcomeIsTrue ==
    record.state = "done" =>
        /\ record.says = "restored" \/ record.outcome = "rolled_back" =>
              tree = record.start /\ ~torn
        /\ record.outcome \in {"updated", "updated_pending_restart"} =>
              tree = "new" /\ ~torn /\ (relayCode = tree \/ record.says = "relay")
        /\ record.outcome = "failed" =>
              /\ tree = record.start \/ {"restore", "throws"} \cap faults # {}
              /\ torn => {"checkout", "restore", "crash"} \cap faults # {}
        /\ record.outcome = "rolled_back" => relayCode = tree \/ "relay" \in faults

\* "An abort after the swap of the tree puts the tree back to this point": a run
\* that failed, with every restore there was succeeding, left what it found.
AbortsRestore ==
    (record.state = "done" /\ record.outcome = "failed" /\ {"restore", "crash"} \cap faults = {})
        => tree = record.start /\ ~torn

\* "Restored to the version before the update" is true of the relay as well, or
\* the result tells of it.
RollbackTellsOfRelay ==
    (record.state = "done" /\ record.outcome = "rolled_back")
        => relayCode = tree \/ record.says = "relay"

\* A watchdog that was stopped for the swap is started again on every path out
\* of the run, caught errors included; it stays away only when the worker died,
\* or when the watchdog's own stop or start answered that it failed.
WatchdogComesBack ==
    /\ dog = "stopped" => WorkerAlive
    /\ dog = "lost" => {"watchdog", "crash", "lost"} \cap faults # {}

\* With nothing going wrong, an update that is applied ends with the new panel
\* in the place of the old: worker, old panel, helper and new panel hand over
\* to each other, while the user may restart the panel at any point.
AppliedUpdateLands ==
    (faults = {} /\ record.step = "apply" /\ ~record.auto /\ record.state = "running")
        ~> (record.outcome = "updated" /\ NewAnswers)

\* A panel that left for a swap is replaced, by the new version, or by the old
\* one again when the new does not start, as long as the worker lives, the tree
\* can be put back, no error cuts the run short, the processes that are started
\* run, and probes are answered.
PanelComesBack ==
    (AtSwap /\ record.state = "running" /\ record.start = "old")
        ~> (Holder # {} \/ worker = "dead" \/ {"restore", "throws", "lost", "deaf"} \cap faults # {})

\* "Press update once and confirm, and download and swap complete by themselves":
\* with nothing going wrong a one-click run does not end waiting for a restart
\* of the panel.
OneClickCompletes ==
    (faults = {} /\ record.auto /\ record.state = "done") => record.outcome = "updated"
=============================================================================
