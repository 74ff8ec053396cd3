# Anyswitch, specified

TLA+ models of the parts of Anyswitch whose correctness depends on the order in
which things happen: routing over chains and pools, the keep-alive loop that
resumes a cut answer and the guard that filters what a client sees, the two lock
protocols of the store and the transactions on it, the life of the relay and of the
terminal host, the watcher that restarts a sick relay, the application updating
itself under several processes, and the session records of the terminal host. TLC
checks the modules on small instances; TLAPS proves, for every value of the constants,
every safety property the runs check.

All paths below start at the repository's root (`src/src/...` is the Node code).

- [The system](#the-system): inventory of components
- [The modules](#the-modules): what each models and how it corresponds to the code
- [What the runs check](#what-the-runs-check): bounds, results, fairness
- [What is proved](#what-is-proved)
- [Where the code and its comments disagree](#where-the-code-and-its-comments-disagree)
- [What is not modelled](#what-is-not-modelled), and [the plan](#the-plan)

Run from this directory:

    tlc -config RoutingHome.cfg MCRoutingHistory     # a run: see the table below
    tlapm FileLock_proofs.tla                        # a proof module

## The system

Anyswitch (0.7.2, Node ESM, Windows) sits between AI clients and model providers.
Clients speak the OpenAI, Responses or Anthropic protocol to a local *relay*,
which picks an upstream, translates, streams, retries and fails over. A *panel*
edits the configuration. Everything persistent lies in files that several
processes read and write: `store.json` (compare-and-swap under a lock file),
`credentials/<id>.dpapi`, `delete-journal.json`, `settings.json`, pid files, usage
journals. The relay's routing state, in contrast, is process memory.

Processes: relay host (port 47821), panel host (47820), watchdog (47822), terminal
host (47823, a child of the relay host), relays started per launch by the launchers,
and short-lived ones (update workers, restart helpers, synchronisation). They interact through HTTP on loopback and through the
files above; there is no other shared state. Inside a process everything is
single-threaded and interleaves at `await`s.

| component | state | operations | interacts with | what is hard |
|---|---|---|---|---|
| Provider pools (`channels/pool-routing.mjs`) | sticky member and last order per pool and model, failure counters per member and model | `order`, `noteSuccess`, `noteFailure` | planned and told by the frontends | overlapping requests share it; counters are shared by every pool that lists a member; the user reorders pools under requests in flight |
| Route chains (`channels/chain-routing.mjs`) | position and backoff anchor per key, last chain, failure counters | `plan`, `noteSuccess`, `noteFailure` | same | verdicts that arrive after an edit; the probe window; coming home |
| OpenAI frontend (`relay/openai-handler.mjs`, `openai-server.mjs`) | plan and failed set per request | plan a chain or pool, try members, report verdicts | the two tables, `store.json`, upstreams | everything above at once, restarts |
| Anthropic frontend (`relay/handler.mjs`, `server.mjs`) | the same, its own tables | the same | the same | the same |
| Keep-alive loop (`relay/stream-pipe.mjs`) | member, attempt, resume shadow, tracker entry | call, pipe, back off, resume, fail over | the frontend's members, the client's connection, the tables | the client leaves at any await; cuts after content; exactly one end |
| Locks and atomic writes (`store/atomic-write.mjs`) | lock file or lock directory, owner files | `withFileLock`, `withDirectoryLock`, `casWriteFile` | every process, and the ZCode client | every file call of every process interleaves; dead owners are reclaimed by others |
| Store file (`store/store-io.mjs`) | `store.json` and its hash | load, write with expected hash | the locks | lost updates |
| Store service (`store/store-service.mjs`, `byok-import.mjs`) | store, credentials, delete journal | add, rotate, delete, resume deletions | panel host and relay at once | three files that must agree over crashes, failures and overlapping requests |
| Bundles, BYOK removal (`store/data-bundle.mjs`) | all of it | export, import, remove | the store service | an unconditional store write |
| Credential cache (`launchers/launch.mjs`) | decrypted keys per process | load, drop | DPAPI, settings | a decrypt in flight while the cache is switched off |
| Stream guard (`relay/openai-stream-guard.mjs`) | held frames, open tool call, resume shadow | a line of the stream, the end of the stream | the keep-alive loop, the client | a cut anywhere; parallel tool calls; nothing may be shown that a retry would repeat |
| Watchdog, watcher (`agents/agent-watcher.mjs`, `agent-watchdog.mjs`, `shared/service-health.mjs`) | degraded since, restart history | tick, restart, back off | relay host, process manager | grace over observations, a budget that slides, giving up |
| Relay process manager (`relay/relay-process-manager.mjs`), relay host (`relay/relay-host.mjs`) | pid file, port | start, stop, restart, status | panel, watchdog, launchers | several starters and stoppers, processes that still boot |
| Terminal host supervisor (`relay/relay-host.mjs`, `terminal/terminal-process-manager.mjs`) | the child, restart history, the manual stop flag | start, stop, sweep, restart after a crash | panel, terminal host | late exits, a stop during a start, a breaker |
| Terminal host (`terminal/terminal-host.mjs`) | sessions, dirty marks, record files, index | create, close, clear, output, save, restore | panel, relay | saves that overlap changes, crashes between files, starvation |
| Self-update (`ops/app-self-update.mjs`, `panel/panel.mjs`, `panel-host.mjs`, `panel-launcher.mjs`, restart helper) | journal record, tree on disk, the processes' versions | download, apply, roll back, hand the port over | watchdog, relay, panel hosts | five processes hand over to each other; every step may fail |
| Client update (`agents/client-update-journal.mjs`, `client-update-worker.mjs`) | journal of runs | start, record, reap | package managers | crashes between steps; pids taken over |
| Catalog (`catalog/`) | published generation | publish, resolve | frontends, launchers | requests across a change of generation |
| Discovery, sync, skills, prompts (`agents/`), launchers (`launchers/`), panel (`panel/`), operations (`ops/`), metrics and usage (`agents/agent-metrics.mjs`, `shared/usage-journal.mjs`), wire translation (`relay/responses-translate.mjs`, ...) | client configuration files, HTTP, OS settings, journals | scanning, rewriting, rendering, translating | files and the OS | mostly formats and I/O |

What makes the modelled components correct, in the words of their own comments:

- *pools, chains*: one transient fault does not move a position; the head is probed
  once per window; a backed-off chain comes home once its head serves.
- *keep-alive*: a resumed call carries everything the client has seen; one end is
  recorded per request; the tables hear of each member once, in order.
- *locks*: writers are serialized; a live owner is never reclaimed; the lock is
  always removed; every call ends.
- *store service*: a listed provider has its key; a key whose provider is gone is not
  forgotten; a deletion completes; a pool never holds a provider that is gone; only
  a request deletes.
- *stream guard*: a turn that is handed back for a retry has shown nothing; a client
  never sees half a tool call or one call twice; a turn that passes is complete.
- *relay, watcher*: a stop is final; a restart leaves no old relay; duplicates end;
  a sick relay is restarted, not too often and not for ever in vain.
- *terminal host*: one host, held by its supervisor; a crash is repaired, a stop is
  not undone; what was closed stays closed, what was created survives a crash.
- *self-update*: the result shown is true; the watchdog and the panel come back.

The hazards behind these (interleavings, crashes between two writes, stale
reads, boundaries) are listed one by one, at their lines, in `PROJECT.json`.

## The modules

    StickyTable <- ChainState <- RelayRouting                        routing
                                  <- RoutingHistory, RoutingStrikes  histories
                                  <- MCRouting <- MCRoutingHistory,
                                                  MCRoutingStrikes   instances
    MemberWalk   is implemented by  KeepAlive                        one request
    StreamGuard                                                      one stream
    AdvisoryLock is implemented by  DirLock  (instance MCDirLock)    locks
    StoreRegister is implemented by FileLock                         store.json
    ProviderStore (whose saves are steps of such a register)         transactions
    RelayLifecycle                                                   relay processes
    AgentWatcher (instance MCAgentWatcher)                           watchdog
    TerminalSupervisor                                               terminal host process
    TerminalStore                                                    terminal host files
    SelfUpdate                                                       update, panel hosts
    *_proofs                                                         theorems
    Stream_proofs    is about KeepAlive and StreamGuard, and
    Services_proofs  about RelayLifecycle, AgentWatcher and SelfUpdate: modules whose
                     definitions therefore have distinct names, and share NoValue

Every definition that stands for code is mapped to its lines in `PROJECT.json`. A
definition introduced by "Variant:" is not part of a specification: it is a
plausible mistake in the definition after it, kept to show that a property would
notice it.

**StickyTable** is `createStickyTable`. `sticky`, `orders` and `memberFailures` are its
three maps; `StickyOrder` and `StickyKept` are `order` (result and effect),
`NoteMemberSuccess` and `NoteMemberFailure` the other two. Counters saturate at
`DemoteAfter`: the code only compares them with it and resets them.

**ChainState** is `createChainState`. `table` holds, per routing key, the entry the key
has backed off to and the *age* of its anchor (`since` in the code is a time; the
age stops at `Window`, because only "has `RETRY_UPSTREAM_MS` passed" is ever asked).
`PlanStart` and `NotePlan` are `plan`, `PositionAfterSuccess` the case analysis of
`noteSuccess`. Diagnostics (`snapshot`, `nodeStats`, `onDemote`) are left out.

**RelayRouting** composes both with requests in flight and the store. `PlanChain`
and `PlanPool` are `planChainChatCompletions` and `planPoolChatCompletions`, each
in one step, as in the code (no `await` in between), including the `order` of every
pool the plan contains. A planned request is a walk over (hop, member);
`Answer`, `Fault` and `Leave` are the verdicts of the call under way, with the
`failedNodes` set that counts a node at most once per request. `EditStore`
replaces the store under plans already made; `Restart` empties the tables. An
expansion of a node into calls is an input (`store.calls`): which members offer the
bound model. Requests addressed at a pool and chains share the sticky table.

**RoutingHistory** adds one history variable, `quiet`, that counts the ticks since a
key last moved or last planned from the head, for `ProbedOncePerWindow`.
**RoutingStrikes** counts the verdicts for the demotion properties, without the
code's counters: `strikes`, the requests in a row that had a fault at an entry of a chain
(each request once per entry, `blamed`), and `memberStrikes`, the calls in a row that a member
failed. Neither history has an influence on the routing.

**KeepAlive** is one streaming request in `runStreamWithKeepAlive`, with the outcomes
of `pipeGuardedStream`. The three awaits are the places `calling`, `piping` and
`backoff`, and `ClientLeaves` may happen in each. `segment`, `seen`, `shadow` and
`carried` count pieces of content: forwarded of this stream, received by the client,
kept for a resume, and carried by the last call's body. `told` is the
sequence of `noteFailure`/`noteSuccess` calls. `budget` is 0 when the master or the
endpoint switch is off, while `onTier` ignores the endpoint switch, as in the code.

**MemberWalk** is what this loop promises to the routing tables: told member by member,
in order, nobody skipped or blamed twice, and settled in the end. It is also the
assumption `RelayRouting` makes of a request (its `Answer`, `Fault` and `Leave`).

**DirLock** is `withDirectoryLock` with `removeAbandonedDirLock`, at every file system
call: mkdir, stat, create and fill the owner file, stat again, list, remove,
rmdir. A contender is one call in a process of its own (the ZCode client follows
the same protocol); it may die at any point. Inodes matter, because the code
compares them, and may be reused. Ages are nondeterministic: an empty owner file of
a live contender can only look abandoned if `MayStall`.

**AdvisoryLock** is mutual exclusion, which `DirLock` implements with
`inside` as the set of contenders in their function.

**FileLock** is load and write of `store.json`: `loadStore`, `writeStore` with an
expected hash, `casWriteFile`, `withFileLock`, `lockIsStale`. A contender is one load
and one write. The first write of all takes no lock: it creates `store.json` exclusively
and fills it afterwards (`CreateStore`, `WriteStore`), so that others may find it `Blank`, and
so it stays when its writer dies. `MayStall` lets a live owner hold its lock for longer than
`LOCK_STALE_MS`, `RmMayFail` lets removals fail. `broken` is a history variable: a
lock was removed while its owner was still in it.

**StoreRegister** is what the two promise to a transaction: `store.json` is a register, and a
write based on what was read of it takes effect in one step, while the register is
unchanged, or not at all; all of it until a lock is broken (`void`). `FileLock` maps its
places to the stages of a write (`Stage`): it is *read* until the rename, the exclusive
create, a refusal or a death, and *over* afterwards, so the lock file is invisible. A blank store
counts as an absent one (`Value`): a load of either finds no content, though the code refuses the one and
starts anew from the other.

**ProviderStore** is one provider's life in three files. `store` is reduced to
"listed" and "in a pool"; the store's compare-and-swap is one step, as in
`StoreRegister`; when a lock is broken that is not so, and nothing here covers it. A request is cut at its awaits and between its writes, so
that requests of one host interleave where the code awaits, and requests of two
hosts (the panel host and the relay serve the same routes) at every file
operation. `OtherSave` stands for every other save of the panel that moves the
provider into or out of a pool. Two history variables mark the overlaps under which the code does
not keep its promises: `mixed`, an add beside another add or beside a removal of the key, and
`crossed`, a key written by a rotation or an add while another request takes the entry off the
store or off the journal. `quiet` marks the point after which nothing fails and
nobody asks for anything, for the liveness property only.

**StreamGuard** is `OpenAIStreamGuard` over one upstream stream: `Line` is
one line of it (`Held` while nothing is proved, `Released` by the first proof, `Routed`
afterwards), `Route` is `routeForward`, `Close` is `closeOpenCall`, and `Finish` gives the
verdict. A frame is text, reasoning, deltas of tool calls, a finish reason, the terminator,
a blank or a broken line, with a number that tells it from others like it. What
`trackToolCalls` keeps is a function of the *set* of frames so far: which calls have a delta
(`Tracked`), a name (`Named`), which pieces of arguments (`ArgsOf`; an upstream sends the
pieces of a call in order, so their set is the string), of which `Parses` knows what
makes JSON. The same functions, taken of the frames in `route.out`, say what the client has
seen. `ReplayAll` is `releaseHeld`, a recursive function over the held frames. `prior` are
the calls an earlier segment of a resumed response has already delivered; the index of a
call stands for its function's name.

**RelayLifecycle** is `startRelay`, `stopRelay`, `restartRelay` and `getRelayStatus`, cut at their
awaits, by callers in one or several processes, over relays that boot, contend for the
port, crash and are killed, and launchers that bind the port themselves. A
killed process is `doomed` first, since taskkill is asynchronous. Every step that rests on a
probe takes what the probe `Heard`: the truth, or "not serving" for a relay that does not
answer within two seconds (`probeRelayHealth`); netstat may fail as well. `stopHeld`, `alone`,
`before`, `blind` and `misheard` are history variables.

**AgentWatcher** is one tick of `createAgentWatcher` per action, from await to await (`awaits`), over
a relay that counts its own failures (`service-health.mjs`). The moments the code
remembers are ages that `Elapse` advances, capped where no comparison can change.
Starting and stopping are calls with an outcome: `RelayLifecycle` is what they involve. A probe of a
relay that lives may go unanswered (`ProbeUnanswered`), and then reads as a relay that is down.

**TerminalSupervisor** is `createTerminalHostSupervisor` and its two routes. `inFlight` is the
start under way that callers share, from the sweep of leftovers
(`stopStaleTerminalHost`) to the spawn; `timer` and `restarts` are the breaker's.
A restart of the relay leaves an orphan that notices its parent's death, and reads the
`saved` flag of the settings again; settings that cannot be read or parsed hold no flag
(`FlagRead`), and then the host is started although the user stopped it.

**TerminalStore** is what the terminal host keeps on disk, one record per session and an index.
`mem` holds the sessions and the marks on them (`dirtySessions` as the set `dirty` and the
pairs `order` of who was marked before whom, which is the order of a JavaScript set;
`unpersistedIds`, `removedSessionIds`, `indexDirty`); `pump` is the persist
pump with the pass under way. `BeginPass` takes marks off and copies records in
one step, as the code does before it awaits; `WriteRecord`, `RemoveRecord` and
`WriteIndex` are the file calls, each of which may fail, and `EndPass` decides whether to go
on and answers whoever waits. A copy is only "current" or "stale": it turns stale
when its session changes. `Output` is an output block, `Changed` an exit, a resize or the
spawn of a restart, `Close` and `ClearOne` come after the process tree was awaited,
`Shutdown` is `close()`, `Boot` is `restore` with `pruneSessionRecords`, in which the index, records and
removals may fail, and `Unlink` the relay's
deletion of the index when clear-all was refused or not answered.

**SelfUpdate** has two versions of the code and processes that run the one that was on disk
when they started. `Register` and `Apply` are the panel's handlers, `Download` to
`SeeBack` the steps of `runSelfUpdate` in its detached worker, `Pump`, `Fire` and
`Exit` the panel's swap watcher, `HelperSpawns` and `HelperGivesUp` the restart
helper, `Boot` and `BootFails` a panel host at the port, `Launch` the launcher, `Reap` the
journal. `tree` is the version that is checked out; a checkout that fails or is cut off may leave
the files `torn` between two. `record.says` is what the result's text claims besides its outcome:
that the files were put back, or that the relay did not restart. `faults` is chosen at the start:
each of thirteen things may go wrong whenever its step comes (`Failures`), among them the ones
the code swallows: a watchdog that does not stop or start, a relay that does not restart, a
process that was started and never runs, a probe that is not answered, and any error that ends in
the catch-all (`Caught`). When the old version cannot be put back the worker starts a panel on
what there is (`GiveUp`). `relayCode` follows the answer of `restartRelay`, which
`RelayLifecycle` shows to be right but for unanswered probes. That the worker itself cannot be
spawned is not modelled.

## What the runs check

| run | module, constants | properties | states |
|---|---|---|---|
| `routing_edits` | `MCRoutingStrikes`: two requests, pool of two members in front of a channel; the store is edited between two contents (members reordered *and* pool taken out of the chain); requests also address the pool; `Window` 1 | `NeverDemotedByABlip`, `StickyNeverMovedByABlip` | 330,734 |
| `routing_home` | `MCRoutingHistory`: two requests, pool and two channels behind it, `Window` 2 | `ProbedOncePerWindow`, `ComesHome` | 52,452 |
| `keepalive_loop` | `KeepAlive`: every plan of up to 3 members, budget up to 2, up to 3 pieces | `ContinuesWhatTheClientSaw`, `SettledTruthfully`, `WalksTheMembers` | 9,477 |
| `stream_guard` | `StreamGuard`: every stream of up to 4 frames over 2 tool call indices, with any earlier calls | `RetryIsSafe`, `ClientSeesWholeCalls`, `NoCallTwice`, `PassMeansAll` | 258,920 |
| `dir_lock` | `MCDirLock`: 3 contenders, 2 inodes, no stalls | `NoLockLeftBehind`, `ExcludesEachOther` | 445,222 |
| `file_lock` | `FileLock`: 3 contenders, stalls allowed | `IsARegister`, `SerializedUnlessBroken`, `EveryCallEnds` | 24,743 |
| `provider_store` | `ProviderStore`: 2 requests at a time, any number of them | `ListedHasCredentialApart`, `KeyIsRemembered`, `PoolsHoldNoGhost`, `DeletionCompletes` | 43,353 |
| `relay_lifecycle` | `RelayLifecycle`: 2 callers, 3 calls, 2 relay processes | `StopHolds`, `AskedIsGone`, `NoPileUp` | 782,078 |
| `agent_watcher` | `MCAgentWatcher`: `Threshold` 1, `Grace` 2, `Backoff` <<1, 3>>, `Budget` 3, `Window` 9 | `BudgetHeld`, `GraceUnbroken`, `RelayComesBack`, `GivingUpEnds` | 87,720 |
| `terminal_supervisor` | `TerminalSupervisor`: 2 hosts, 2 requests, `Window` 2, `Budget` 2 | `OnlyTheChild`, `BreakerHolds`, `StopIsFinal`, `NoCrashIsMissed`, `CrashIsRepaired` | 12,646 |
| `terminal_store` | `TerminalStore`: 2 sessions, 1 record per slice, 2 rounds, 3 events | `ClosedIsGone`, `IndexAgrees`, `RestingIsOnDisk`, `EveryMarkHasItsTurn` | 441,270 |
| `self_update` | `SelfUpdate`: 3 panel hosts, 2 runs, 1 restart by the user, 2 helpers, up to 2 of 13 faults | `OutcomeIsTrue`, `WatchdogComesBack`, `AppliedUpdateLands`, `PanelComesBack` | 832,457 |

Every module also states its type invariant (`TypeOK`, or with a prefix); each holds in TLC
under the configuration of its run and is proved. Further configurations in this directory end in a
violation; they are the subject of
[a later section](#where-the-code-and-its-comments-disagree).

What they show, and why the bounds reach the interesting cases:

- *Demotion* (`NeverDemotedByABlip`, `StickyNeverMovedByABlip`). The properties compare where a
  position moves with the rows of faults that `RoutingStrikes` counted from the verdicts, not with
  the counters the code keeps: blaming a node twice for one request, or forgetting to end a
  row, breaks them. Two requests are what it takes for one to plan before and answer after
  the other, an edit or a restart; a third adds only further counts to saturating counters.
  The theorems below lift the bound on stores, members and requests.
- *Probing and coming home.* `Window` 2 is the least value that tells "restarted now" from
  "half way". Three nodes are the least at which a position can move behind
  the head, which is where the window can be restarted
  ([see below](#where-the-code-and-its-comments-disagree)).
- *Resuming.* Three members, two retries and three pieces contain a resume after a
  resume, a resume on another member, an empty retry between two resumes, and
  a departure during each await.
- *The directory lock* needs three contenders: a holder, one that reclaims on an old
  observation, and one that profits from it. Two inodes suffice for "the directory was
  replaced under me"; reuse of the same inode is included.
- *The store lock* needs three writers too: one that releases, one that reclaims a
  lock it never saw, one whose lock that is.
- *Providers*: one provider, because nothing in these transactions relates two
  providers except the store's hash, which `OtherSave` changes. Two requests overlap
  in every way; the exceptions the properties make (`mixed`, `crossed`) are
  each needed, as TLC finds when one of them is left out. `DeletionCompletes` asks for
  a journal that is empty again and again: two recoveries can put the mark back in turns, with
  the entry and the key long gone.
- *Stream guard.* Four frames hold a call that is opened, overtaken by one on another
  index, continued and cut; arguments in two pieces, whole, or never finished; batches of
  parallel calls in one frame. `PassMeansAll` is about streams whose calls come one
  after the other, without an earlier segment: the code does drop others (see below).
- *Relay.* Two overlapping callers and a third call afterwards are a stop in the middle of a
  start, and what a later start finds; two relay processes, spawned or a
  launcher's, are the least at which a duplicate can be left. `StopHolds` is about a stop that
  overlapped no other call; a stop that races a start promises nothing. It survives failing
  probes and a failing netstat, but not both at once: then nobody tells it of the relay.
  `AskedIsGone` excuses a relay that a probe took for gone, if taskkill was sent to it or
  netstat had not named it. The run's probes fail whenever they like.
- *Watcher.* A `Window` longer than three restarts with their waits (9 > 1 + 3 + 3 and
  the graces), so that the budget, not the backoff, is what stops the watcher, and
  attempts leave the window one by one. `GivingUpEnds` has probes that are answered from some time
  on as its hypothesis: without it the property is false (`DegradedIsRestarted`, below).
- *Supervisor.* A second host is what a late exit needs; identities are used again
  once nobody waits for them, so any number of hosts comes and goes. `StopIsFinal`
  leaves out a stop that came while a start swept or another request was open, and a
  relay that booted without having read its settings: there the host comes back by intent
  ("an unreadable settings file must never keep the host down", `relay-host.mjs:752-753`), until a
  relay boots that can read them.
- *Terminal records.* One record per slice with two sessions is the least at which a slice
  leaves someone out. Three events are enough for a failed write and a crash
  around a close, or a close, a crash and a boot that can neither read nor remove some
  records; output, the
  timer, saves and the first creation of each session cost no event, so they
  come in any number and order.
- *Self-update.* Three panels: the old one, its successor, and one the user or the
  launcher starts. A second run starts from whatever the first left behind. Two faults
  allow a step and its repair to fail together. The exceptions are written into the properties by
  their fault: `OutcomeIsTrue` lets a run that says only that it failed leave the new code when
  a restore or a step in between failed, and partial files after a checkout cut off;
  `WatchdogComesBack` lets the watchdog stay away when the worker died or its own
  stop or start answered that it failed (`app-self-update.mjs:304` says so of the start);
  `PanelComesBack` supposes that restores succeed, no error is caught, spawned processes run
  and probes are answered. Each of these is a fault of the run, so the other properties
  hold under it.

Deadlock checking is off exactly where a system comes to rest by design: both lock modules
(every contender may have ended), the keep-alive loop (the request is settled), the
provider transactions (`quiet` reached, nothing to do), the stream guard (the stream is
over), and the modules whose calls, events or runs are bounded (`RelayLifecycle`,
`TerminalStore`, `SelfUpdate`). The routing runs, the watcher and the supervisor check it.

**Fairness, and why the code justifies it**

- Routing (`LiveSpec`): time passes; a call of a request ends (headers have a
  deadline, a stream is ended by one side); some request for every key is planned
  again and again. The last is an assumption about clients; a chain nobody uses
  cannot come home, since it probes with real requests only. No fairness says that
  a call *succeeds*: `ComesHome` takes that as its hypothesis, about the head alone.
  Its second hypothesis, that the position is not moved to and fro behind the
  head, is needed: `RoutingBusyTail.cfg` shows what happens without it.
- Keep-alive: weak fairness of the loop's own steps. A call comes back (deadline), a pipe
  has a verdict (stream end, error, or stall timeout), the backoff timer fires. The
  client need not leave.
- File lock: a live contender takes its next step; a contender that waits over and over
  times out (`SF(GiveUp)`), because each wait sleeps and the deadline is absolute.
  Contenders may still die, so no fairness keeps an owner alive.
- Providers: a begun request proceeds; the panel reads its state again, which is what
  calls `resumeDeletions`.
- Relay: a call under way goes on (its waits have deadlines), a process boots, finds the port
  taken, gives way or dies of its kill. That a relay serves, or that anybody calls, is
  not assumed.
- Watcher: the interval timer ticks, time passes, and a start that is tried again and again
  succeeds at some point (`SF(StartSucceeds)`): a relay that can never be started
  cannot be brought back. Restarts of a sick relay may fail or not help.
- Supervisor: a start under way ends, an armed timer fires, a killed host exits, a
  request goes on. Nothing says that a start succeeds.
- Terminal records: file calls return and timers fire. Nothing says that they succeed;
  `EveryMarkHasItsTurn` excuses a pass that failed, because the code then
  waits for the next change on purpose.
- Self-update: the worker and the helpers go on (every wait has a deadline), a panel host boots,
  its watcher ticks, it exits after its answer is out. One assumption is about time,
  `Up`: a panel host reaches its port before the first one-second tick of its watcher,
  and before npm is done, unless the fault "slow" is chosen.

Every property has a mutant (`PROJECT.json`): a definition of the model, changed as a
plausible bug would change it, under which the same run reports the property.

## What is proved

Eight proof modules, checked by TLAPS without unproved steps. None assumes more than the
named assumptions of the constants, unless stated.

| theorem | statement | argument |
|---|---|---|
| `RelayRouting_proofs!TypeCorrect` | `Spec => []TypeOK`: a walk in flight always points at a call it has | `TypeOK` is inductive once `NewWalk` and `Advanced` are shown to return well-formed walks (lemmas `NewWalkType`, `AdvancedType` over `HopsFrom` and `Least`) |
| `NoBlipDemotes`, `NoBlipUnsticks` | the two demotion properties of `SSpec`, for any stores, keys, requests and thresholds | `CountersAreRows`: the code's counters are the rows the history counts, and a request's failed set is what it has blamed, over overlapping requests, edits and restarts; then only the noteSuccess operations move a position down, and only past latched entries |
| `ProbesOnTime` | `HSpec => []ProbedOncePerWindow`, provided that all stores of the instance have the same chains (`ChainsAreFixed`; pools may be edited) | `ProbeInv`: the table's chain is the one configured (`PlannedHere`), a chain being walked was planned (`WalksArePlanned`), only a key behind its head is anchored, and the age of its anchor is the quiet time (`AgeIsQuiet`) |
| `AnchoredWhileAway` | under the same assumption `HSpec => []AnchoredIffBackedOff`: a key has a backoff anchor exactly while it stands behind its head. An edit that moves its entry to the front breaks it (see the disagreements) | from `ProbeInv` |
| `Stream_proofs!TypeCorrect` | types, and the budget is never overdrawn | `LoopInv`: the place, member, attempt and end of the loop |
| `Continues` | `Spec => []ContinuesWhatTheClientSaw` | strengthened to `ShadowInv`: at every await the shadow is what the client has seen, minus the segment being piped. The property only speaks of `calling` and `piping`; the shadow must also be right during the backoff and at the top of the loop |
| `EndsTruthfully` | `Spec => []SettledTruthfully` | `EndInv`: a request under way has no end but the abort of a departed client, and has told the tables of failures only |
| `LoopIsAWalk` | every step of the loop is a `MemberWalk` step or a stutter | refinement mapping `at <- IF pc = "done" THEN 0 ELSE member`, from `LoopInv` |
| `GuardTypeCorrect` | types; what the guard may withhold, and when | `GuardInv`, below |
| `AskingAgainIsSafe` | `Spec => []RetryIsSafe` of the guard | `HoldInv`: while it holds, the route is untouched and what is held is all that came; `OverInv`: only a guard that still holds asks for a retry |
| `OnlyWholeCallsAreSeen` | `Spec => []ClientSeesWholeCalls` | `ClientInv`, a statement about one route, the frames it has taken and the earlier calls: the open call is what the frames withheld with it say and they come after all that was shown, so what is shown together with it is whole, and no call is shown from two sides (`WholeBlock`, `ShownTogether`), because a call is named by one frame (`NamedOnce`) |
| `CallsAreSeenOnce` | `Spec => []NoCallTwice` | `PriorInv`: an earlier call that no longer counts as such was dropped, together with the only frame that named it |
| `PassIsComplete` | `Spec => []PassMeansAll` | `TurnInv`: if the calls come in turn, a call is open or over; what was dropped is lost (`Lost`: over, and never to be named or parsed), which `finish()` would not pass |
| `DirLock_proofs!TypeCorrect` | types | inductive |
| `LiveOwnerIsSafe`, `Exclusion` | while nobody stalls (`~MayStall`), a holder's owner file is only removed by its release, and `DirLock` implements `AdvisoryLock` | `LockInv`: whatever a reclaimer has cleared for removal belongs to the dead, an owner file present after its write is filled, and a holder's file is in place. Entering demands to be the only owner listed, so a holder's file keeps everybody else out |
| `NothingIsLeft` | `Spec => []NoLockLeftBehind`, stalls included | `LeftToSomebody`: an owner file belongs to somebody who will remove it before its rmdir, and a directory stands only as long as somebody owes that rmdir; a refused one leaves it to the owner of the file it met |
| `FileLock_proofs!TypeCorrect` | types | inductive |
| `Serialized`, `Swaps` | for any number of writers, stalls and failing removals: serialized, and swapping what was loaded, *unless a lock was removed under its owner* | `OwnsUnlessBroken`: until then every contender in its critical section owns the lock file, and one at the rename has compared |
| `ImplementsRegister` | `Spec => Register!RegisterSpec`: load and write implement the compare-and-swap register, for any number of writers, stalls, deaths and failing removals | the two steps of the first write, with a writer that dies in between, included; step by step under `OwnsUnlessBroken`: `GoesOn` (a step that leaves the store alone is a *Leave*, a *Voided* or none) and `WritesOnce` |
| `TwoWritesAreSafe` | two writes alone, without stalls: `Spec => NeverOverwritesSilently`, with no exception for broken locks. It marks off the disagreement `FileLockOverwrite`, which takes three | `TwoInv`: a write that has met a lock knows the other one to be past its acquisition, and one that may remove a lock knows it to have ended |
| `ProviderStore_proofs!TypeCorrect` | types, for any number of requests | inductive |
| `NoGhosts` | however many requests overlap, fail or die, no pool holds a provider that is gone | `PassedTheGate`: a delete behind the pool gate holds a snapshot without the pool, so its swap fails if the provider was pooled since |
| `ListedIsUsable` | `Spec => []ListedHasCredentialApart`, for any number of overlapping requests | `KeyBeforeEntry`, as long as no add was mixed: whoever adds, or may remove the key, has seen that the provider is gone, and it stays so |
| `NoKeyForgotten` | `Spec => []KeyIsRemembered`, for any number of overlapping requests | `RememberedInv`, as long as no key was written across a deletion: a rotation meets an entry, whoever takes the entry off finds the journal in place or no key any more, and the journal is cleared after the key |
| `TerminalSupervisor_proofs!TypeCorrect` | types | `HostTypes`, `HandleInv`, `AgesInv` |
| `NoHostIsLost` | `Spec => []OnlyTheChild` | `HandleInv`: nothing is being started while there is a child, whoever was asked to stop is doomed, and every other process is on its way out |
| `LoneStopIsFinal` | `Spec => []StopIsFinal` | `LoneStop`: the stop's request is the only one, nothing is started while the flag is set, and the handle it waits for is the only one there can be; a boot that reads the settings goes by the stop |
| `BreakerWorks` | `Spec => []BreakerHolds` | `AgesInv`: what the breaker remembers is some restarts that left the window and, behind them, exactly the ones granted in it, the oldest first. That `Recent` drops all that left the window and nothing else is a least-element argument over `FirstRecent` |
| `CrashesAreSeen` | `Spec => NoCrashIsMissed` | from the above: a refusal means that the counted restarts, all of the window, are `Budget` many |
| `TerminalStore_proofs!TypeCorrect` | types, and what the marks say of one another | `MemInv`, `StageInv`: which marks exclude each other, and which parts of the pump are set at which stage of a pass |
| `GoneForGood` | `Spec => []ClosedIsGone` | `GoneInv` and `AnswersInv`: as long as nothing has failed, the index says what an outstanding answer promises, or is due and will be written before the answer is given |
| `IndexIsTrue` | `Spec => []IndexAgrees` | `IndexInv`: whom the index names, or will once the write under way is done, has a file, which the gate ensures (a session without one is `unpersisted` or in the batch, and the text is taken after the batch). `KeptInv`: a confirmed creation is in every such text |
| `RestsOnDisk` | `Spec => []RestingIsOnDisk` | `DiskInv`: a listed session is marked, in the batch with a current copy, or current on disk; while one has no file the index is due; other files are due for removal or are what the boot could neither read nor remove |
| `Services_proofs!WatcherTypeCorrect`, `LifecycleTypeCorrect`, `UpdateTypeCorrect` | types; at most one process on the panel's port (`PortIsSingle`) | inductive with the invariants below |
| `BudgetIsKept` | `Spec => []BudgetHeld` of the watcher | `BudgetInv`: every restart of the last window is one the watcher still remembers, across recoveries and deaths of the relay |
| `EachRestartCounts` | two restarts never fall into one moment | the last part of `BudgetInv`. `BudgetHeld` counts a *set* of ages: this is why that counts restarts |
| `GraceIsGiven` | `Spec => GraceUnbroken` | `GraceInv`: the clock of a degradation is never ahead of the time since the last look that found the relay otherwise |
| `Services_proofs!StopIsFinal` | `Spec => []StopHolds` of the relay, whatever the probes hear | `SeesToAll`: while nothing overlaps a stop, each relay still booting is the pid it read, a candidate it has not judged yet, or doomed, and so is every other unless netstat failed; `NobodyStarts` after it |
| `RestartIsFresh` | `Spec => AskedIsGone` | `OldRelays`: a relay that served when the request came serves or has ended; a stop has judged it unless netstat did not name it; and it has ended once a restart gets to its start, unless a probe misheard |
| `ResultIsTrue`, `WatchdogIsBack` | `OutcomeIsTrue`, `WatchdogComesBack` of the self-update, with the exceptions they name | `RunIsOnCourse`: at each place of the worker, the code the run found until it is installed, then the new code, whole, with the rollback point remembered, then the old again; and a relay that runs it, or a result that tells. Panels, helpers and the user move none of it |

`GuardInv` is about a route rather than about the guard for one reason: the first proof sends
everything held through the route in one step. `RouteKeeps` shows that each frame keeps
`RouteInv`, `ReplayKeeps` that so does a whole replay. The replay is a recursive
function; that there is one (`ReplayRuns`), and that what each of its steps keeps
holds at its end (`Upwards`), are least-element arguments, since the library's induction
takes an operator.

The hypotheses are not for convenience. Without `~MayStall`, or without the exceptions `mixed`
and `crossed`, TLC finds counterexamples (next section): the theorems say under which
condition the code does keep its promise. Without `ChainsAreFixed` an edit can move the entry
a key has backed off to the front of its chain, where the anchor stays although the key is
at home (next section).

**Only model-checked**:

- Liveness (`ComesHome`, `DeletionCompletes`, `EveryCallEnds`, the fairness part of
  `WalksTheMembers`, `NoPileUp`, `RelayComesBack`, `GivingUpEnds`, `CrashIsRepaired`,
  `EveryMarkHasItsTurn`, `AppliedUpdateLands`, `PanelComesBack`) and what depends on
  ENABLED: out of the prover's reach.

No module has a RECURSIVE operator. Where a proof was wanted, the models say "the first that",
"the set of those with this order among them" or "the set of frames" in place of `SelectSeq` and
folds (the ages of `TerminalSupervisor`, the marks of `TerminalStore`, the calls of
`StreamGuard`): the same data, in a form that leaves only least-element arguments, which
`WellFoundedInduction` supports.

## Where the code and its comments disagree

Each of these is a formula that TLC refutes: by a configuration of its own
(`tlc -config <name>.cfg <module>`), or in the instance of a run, at the end of whose
configuration it stands as a comment, to be put in the place of the run's properties.

1. `KeepAliveModel` (`KeepAlive`): a resumed call of a chain member goes upstream with the *client's*
   body, which names the virtual model (`openai-handler.mjs:401`); "it never reaches an
   upstream" (`chain-routing.mjs:68-69`).
2. `ListedHasCredential` (in `ProviderStore.cfg`): two adds of the same provider overlap; the refused one
   removes the credential file, which by then is the winner's
   (`store-service.mjs:691-693`, "a true orphan").
3. `DeletedOnRequestOnly` (in `ProviderStore.cfg`): an add does not clear the pending journal entry of an earlier
   interrupted deletion, so the next `resumeDeletions` deletes the provider that was
   added again (`store-service.mjs:476` against the comment at 362-364).
4. `FileLockOverwrite` (`FileLock`): three live writers and no fault. A writer finds the lock
   taken, the lock is released, the writer's stat finds nothing and judges it
   *stale* (`atomic-write.mjs:184`), a third writer creates its lock, the first removes
   it, and both pass the hash check. One write is lost; the comment at 256-257 says
   the lock closes that window. Two writes alone cannot (`TwoWritesAreSafe`).
5. `RoutingBusyTail` (`MCRouting`): the window is restarted not only by a demotion from the head but
   by every move behind the head (`chain-routing.mjs:259` and 268). Overlapping
   requests at a flapping middle node keep it restarting, and the head is never probed;
   170-173 promises one `RETRY_UPSTREAM_MS` "however busy the tail is".

6. `OnlyStaleCleared` (in `RelayLifecycle.cfg`): `getRelayStatus` reads relay.pid, probes, finds nothing and
   clears the file, which by then holds the pid of a relay that was started
   meanwhile (`relay-process-manager.mjs:428`, "clean a stale pid file").
7. `TerminalStop` (`TerminalSupervisor`): a stop that comes while a start sweeps finds no child
   and returns; the start spawns the host the user has just stopped
   (`relay-host.mjs:252`; comment 745-747: the relay leaves it down).
8. `GuardShadow` (`StreamGuard`): a tool call that has a name and no arguments yet when the stream
   is cut goes into the resume shadow as complete, although the client has not seen it
   (`openai-stream-guard.mjs:662`, comment 638-640).
9. `SelfUpdateOneClick` (`SelfUpdate`): a one-click run registers without arming the panel's swap
   watcher, so the old panel keeps answering until the worker's wait is over, and the run
   ends "updated, restart pending" (`panel.mjs:2768`; `README.md:337` says that download
   and swap complete by themselves, `panel.mjs:2746` that the worker goes all the way).
10. `TerminalReadBlip` (`TerminalStore`): a record that cannot be read at one boot is left alone, but
    the next index no longer names it, and the boot after that prunes it
    (`terminal-host.mjs:1217-1247`; the comment at 1192-1195 says that a failure to read
    must not become the loss of a tail).
11. `TerminalSpawnFails` (`TerminalStore`): a creation whose spawn throws leaves its session
    without a file and asks for no save. A close that waits at that moment finds the
    index skipped and is still answered ok (`terminal-host.mjs:1956-1964` and 973,
    against 1162-1167: a 200 means the disk no longer has the session).
12. `TerminalClose` (`TerminalStore`): `close()` reports complete when nothing is marked, although a
    pass that a late exit started may still be writing (`terminal-host.mjs:2191-2207`);
    the process then exits under it.
13. `GuardBatch` (`StreamGuard`): a resumed stream repeats a call of the earlier segment in second place
    of a frame with several calls. The guard compares only the call the frame opens, so
    the client gets the other one again (`openai-stream-guard.mjs:477` and 520; comment
    237-240, "dropped on sight").
14. `FileLockEmpty` (`FileLock`): `casWriteFile` without a store creates it exclusively and then
    writes it (`atomic-write.mjs:242`). A writer that dies in between leaves an empty
    `store.json`, which no load accepts and no write replaces, since each loads first (comment
    237-238: "the file appears fully written or not at all").
15. `AskedIsGoneAlways` (in `RelayLifecycle.cfg`): a probe that times out ends the stop of a busy relay
    that taskkill has not ended yet, or that netstat did not name, as "stopped"; the restart
    goes on, and finds the old relay, which it reports as the new one
    (`relay-process-manager.mjs:507` and 512, against the comment at 524-525).
16. `DegradedIsRestarted` (in `AgentWatcher.cfg`): one probe per grace that a sick relay leaves unanswered
    reads as "down" and takes `degradedSince` back (`agent-watcher.mjs:99-100`), while the start that
    follows finds it serving. It is then never restarted (header, lines 8-9: it is, under backoff and a budget).
17. `SelfUpdateAborts` (`SelfUpdate`): an error after the swap of the tree, say of a journal write, ends in
    the catch-all, which leaves the new code under the old processes
    (`app-self-update.mjs:471-474`; comment 318-319: every abort after the swap puts the tree
    back). A checkout that fails half-way (326-327) likewise stays as it is.
18. `SelfUpdateRollback` (`SelfUpdate`): a rollback whose relay does not restart reports that the earlier
    version is restored, and says nothing of the relay, which still runs the new code or
    nothing (440 and 449-457; 389-390 does tell on the way forward).

Met while modelling, and not kept as configurations:

- after an edit moves the anchored entry to the front, its anchor stays although the
  key is at home (`chain-routing.mjs:250`, comment 160-162). The run `routing_home`
  does not edit the store for this reason;
- a position on a deleted last node plans nothing and is answered 404 although the
  head is live (`openai-handler.mjs:712`, comment 614-615);
- a pool counts as a failed node at its first failed member, not when it is exhausted
  (`openai-handler.mjs:765-768`, comments 625-626 and `chain-routing.mjs:16-17`).
  `Fault` models the code;
- a stream that was cut after content moves to another member when the resume budget
  is spent (`stream-pipe.mjs:732-743`, comment 673-674);
- a fault can be told to the tables after the client has left (`stream-pipe.mjs:641-660`,
  comment 526-529), and a stream whose connection breaks after content is never counted
  (672-677, comment 517-521). `KeepAlive` has both;
- `DirLock` with `MayStall = TRUE` loses mutual exclusion: a live contender paused for
  100 ms between creating and filling its owner file looks abandoned
  (`atomic-write.mjs:389`, comment 303-304);
- `FileLock` with `RmMayFail = TRUE` can spin past its deadline, since a reclaim retries at
  once without a look at the clock (203-209, comment 190-191);
- a rotation that overlaps a delete can write a key for a provider that is gone
  (`store-service.mjs:766`; `KeyIsRemembered` without `crossed`);
- an index can name a removed record: files are removed before the index is
  rewritten (`terminal-host.mjs:974-992`, comment 739-743 "on no path"; `NamedIsThere` of
  `TerminalStore` is violated). Restoring such an index is harmless;
- a close that waits for its process tree to be killed and a restart of the same session
  leave a process without a session (`terminal-host.mjs:2133-2136`); a session created
  during a clear-all survives it (2030);
- calls of the guard that overtake each other can be dropped while the verdict is a pass;
  `sawFinishReason` looks at `delta?.finish_reason`, which is not where a
  finish reason is; `droppedOpenCall` is never read;
- a panel spawned by a rollback arms the swap watcher at its boot and can be shot by it
  (`panel.mjs:3008`); after a run that ended "restart pending" the next run's rollback
  point is already the new code; a new panel that comes late can count as the restored
  one; a worker that dies during the swap leaves the watchdog stopped, and so does a stop of it
  that killed it and answered not ok (`agent-watchdog.mjs:173-198`, `app-self-update.mjs:386-387`); a
  restart helper, or a panel host it starts, that fails to spawn leaves no panel
  (`panel-host-restart-helper.mjs:77-80` and 143-148); a dead run is not
  reaped while another process has its pid (`client-update-journal.mjs:50`);
- a restart of the watchdog forgets the restart budget; the status that made the watcher
  restart a relay may be of one that was replaced meanwhile.

## What is not modelled

- *Data*: wire formats, prompts, tool calls, error texts; the stream guard's text
  heuristics, whose verdicts are inputs of `KeepAlive`. The catalog gate and
  authorization before a plan.
- *KeepAlive*: single-provider requests, which tell no table; answers that are not
  streamed; a stream that ends well with malformed content; `res.writableEnded` checks
  on a client that left (it has left).
- *DirLock*: the legacy single-file lock of older ZCode versions; EACCES and EPERM.
- *FileLock*: the temporary file of the rename, and the unconditional write of a bundle
  import (`data-bundle.mjs:440`), which takes part in no comparison.
- *ProviderStore*: the schema of the store, bundle import and BYOK removal.
- *StreamGuard*: the text heuristics on visible content, the byte offsets of the shadow.
- *RelayLifecycle*: what a command line must look like to be killed is one choice; logs, and
  what a relay does to its children when it ends.
- *AgentWatcher*: the watchdog's own single instance; which process counts as a client.
- *TerminalSupervisor*: how leftovers are found among foreign processes (one choice).
- *TerminalStore*: screens, queries, streams and the processes behind a session, conversation
  bindings, theme values, the old index format, records that cannot be serialized. The
  creation of the directory is part of the writes. The output of a session that has been
  closed is bounded, that of open ones is not. The relay deletes the index only
  after a clear-all that failed or was not answered.
- *SelfUpdate*: the bleeding and rollback tracks (the same steps with another
  identity), the first bootstrap without a HEAD, npm's partial installs, the two journal
  writes around the spawn of the worker, a spawn of the worker that fails.
- *Most of the repository by lines*: the panel's user interface (`panel-ui/panel.js`, 23,000
  lines), the metrics and session scanners that parse other programs' logs
  (`agent-metrics.mjs`, `session-scan.mjs`), the terminal screen emulator, wire
  translation, launchers, skills and prompts. They are rendering, parsing, file
  formats and operating system calls: sequential code whose states a model could
  only repeat. This is why the definitions here stand for a small share of all lines.
- The credential cache, the catalog's generation gate, the Anthropic frontend, bundle
  import and BYOK removal have protocols of their own and are in the plan.

Abstractions that all models share: names and payloads are model values; a step between
two awaits is atomic within a process; counters saturate and ages stop where the code
stops looking. Bounds (`MaxMembers`, `MaxBudget`, `MaxPieces`, `Window`, `DemoteAfter`)
are constants and appear in guards or types under these names.

## The plan

In order of importance:

1. Refinement: an abstract specification of the terminal store (sessions that are listed,
   lasting or gone, with the promises of its answers) and of the relay's stop and
   start, implemented by the detailed ones.
2. `CredentialCache` (`launchers/launch.mjs`, `createCredentialLoader`): a decrypt in flight
   across a switch-off must not leave a plaintext behind; concurrent loads share one
   decrypt.
3. The processes behind a terminal session: generations, tree kills, restarts that
   race a close.
4. Bundle import and BYOK removal as further transactions of `ProviderStore`, the import's
   unconditional write as a further operation of `StoreRegister`.
5. The Anthropic frontend as a second routing instance, the catalog's generation gate, and a
   composition of `KeepAlive` with the tables over `MemberWalk`.
