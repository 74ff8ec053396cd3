--------------------------- MODULE RelayLifecycle ---------------------------
(***************************************************************************)
(* Starting, stopping and restarting the relay process from the panel and  *)
(* from the watchdog (src/src/relay/relay-process-manager.mjs), against    *)
(* the boot, the crash and the exit of relay processes                     *)
(* (src/src/relay/relay-host.mjs, listenLoopback of openai-server.mjs) and *)
(* of launchers that bind the relay port themselves.                       *)
(*                                                                         *)
(* A call is cut at its awaits; relay.pid and the port are all the callers *)
(* share.  taskkill is asynchronous: a killed process is doomed first.     *)
(* A probe has two seconds, so a relay that lives may be taken for gone.   *)
(***************************************************************************)
EXTENDS NoValue, Naturals, FiniteSets

CONSTANTS
    Callers,    \* requests being handled, by the panel or the watchdog
    MaxCalls,   \* bound on the calls made altogether
    MaxPid      \* bound on the processes ever spawned

ASSUME LifecycleAssumption ==
    /\ MaxCalls \in Nat /\ MaxPid \in Nat
    /\ None \notin Nat

Pids == 1..MaxPid

Ops == {"start", "stop", "restart", "status"}

VARIABLES
    proc,       \* the processes: unborn, booting, contending, serving, ended
    doomed,     \* taskkill /F was sent
    pidFile,    \* relay.pid
    calls,      \* calls made so far
    op,         \* what a caller's request asks for; None when it has none
    pc,         \* what the request awaits
    filePid,    \* the pid the call read
    targets,    \* candidates of stopRelay not judged yet
    refused,    \* stopRelay refused to kill one
    blind,      \* history: netstat did not name the relay that served
    misheard,   \* history: a probe that decided took a relay that serves for
                \*          gone
    before,     \* history: the processes serving when the request began
    alone,      \* history: no other call and no launcher overlapped the
                \*          request, and every booting relay was in the pid
                \*          file when it began
    stopHeld    \* history: a lone stop said stopped, not blind and misheard
                \*          at once, and no start came since

callVars == <<op, pc, filePid, targets, refused, blind, misheard, before, alone>>
lifecycleVars == <<proc, doomed, pidFile, calls, callVars, stopHeld>>

Alive    == {p \in Pids : proc[p] \in {"booting", "contending", "serving"}}
Starting == {p \in Pids : proc[p] \in {"booting", "contending"}}
Servers  == {p \in Pids : proc[p] = "serving"}
Serving  == Servers # {}
Unborn   == {p \in Pids : proc[p] = "unborn"}

LifecycleInit ==
    /\ proc = [p \in Pids |-> "unborn"]
    /\ doomed = {} /\ pidFile = None /\ calls = 0
    /\ op = [c \in Callers |-> None] /\ pc = [c \in Callers |-> "idle"]
    /\ filePid = [c \in Callers |-> None] /\ targets = [c \in Callers |-> {}]
    /\ refused = [c \in Callers |-> FALSE]
    /\ blind = [c \in Callers |-> FALSE] /\ misheard = [c \in Callers |-> FALSE]
    /\ before = [c \in Callers |-> {}] /\ alone = [c \in Callers |-> FALSE]
    /\ stopHeld = FALSE

-----------------------------------------------------------------------------
(* Processes.                                                               *)

\* taskkill /F: no handler of the process runs.
Killed(p) ==
    /\ p \in doomed /\ p \in Alive
    /\ proc' = [proc EXCEPT ![p] = "ended"]
    /\ UNCHANGED <<doomed, pidFile, calls, callVars, stopHeld>>

\* listen succeeds; the host writes its own pid.
Boots(p) ==
    /\ proc[p] = "booting" /\ ~Serving
    /\ proc' = [proc EXCEPT ![p] = "serving"]
    /\ pidFile' = p
    /\ UNCHANGED <<doomed, calls, callVars, stopHeld>>

\* listen fails with EADDRINUSE; the host goes on to probe the owner.
FindsPortTaken(p) ==
    /\ proc[p] = "booting" /\ Serving
    /\ proc' = [proc EXCEPT ![p] = "contending"]
    /\ UNCHANGED <<doomed, pidFile, calls, callVars, stopHeld>>

\* Variant: the duplicate probes for ever.
GivesWayNever(p) == proc[p] = "contending" /\ UNCHANGED lifecycleVars

\* The owner answered (exit 0), or no probe was answered because the owner is
\* gone by now (RELAY_PORT_FOREIGN, exit 1).  Neither touches relay.pid.
GivesWay(p) ==
    /\ proc[p] = "contending"
    /\ proc' = [proc EXCEPT ![p] = "ended"]
    /\ UNCHANGED <<doomed, pidFile, calls, callVars, stopHeld>>

\* A store that is not usable ends the host before it listens.
FailsToBoot(p) ==
    /\ proc[p] = "booting"
    /\ proc' = [proc EXCEPT ![p] = "ended"]
    /\ UNCHANGED <<doomed, pidFile, calls, callVars, stopHeld>>

\* An uncaught exception or a signal: the exit handler of a host clears
\* relay.pid, whoever's pid it holds.  A launcher's, and a crash that runs no
\* handler, leave it.
Exits(p) ==
    /\ proc[p] = "serving"
    /\ proc' = [proc EXCEPT ![p] = "ended"]
    /\ pidFile' \in {None, pidFile}
    /\ UNCHANGED <<doomed, calls, callVars, stopHeld>>

\* A per-launch launcher binds the port itself and writes no pid.
LauncherServes(p) ==
    /\ p \in Unborn /\ (\A q \in Unborn : p <= q)
    /\ ~Serving
    /\ proc' = [proc EXCEPT ![p] = "serving"]
    /\ stopHeld' = FALSE /\ alone' = [c \in Callers |-> FALSE]
    /\ UNCHANGED <<doomed, pidFile, calls, op, pc, filePid, targets, refused, blind, misheard,
          before>>

RelayProcess(p) == Killed(p) \/ Boots(p) \/ FindsPortTaken(p) \/ GivesWay(p)
               \/ FailsToBoot(p) \/ Exits(p)

-----------------------------------------------------------------------------
(* Calls.                                                                   *)

\* What a probe hears: the truth, or no answer within its two seconds.
Heard == {Serving, FALSE}

Mishears(c, heard) == misheard[c] \/ heard # Serving

\* The request arrives.  stopRelay reads relay.pid and asks for the owner of
\* the port; the others begin with getRelayStatus, which reads it too.
Asks(c) ==
    \E o \in Ops :
        /\ pc[c] = "idle" /\ calls < MaxCalls
        /\ calls' = calls + 1
        /\ op' = [op EXCEPT ![c] = o]
        /\ pc' = [pc EXCEPT ![c] = IF o \in {"stop", "restart"} THEN "owner" ELSE "status"]
        /\ filePid' = [filePid EXCEPT ![c] = pidFile]
        /\ refused' = [refused EXCEPT ![c] = FALSE]
        /\ blind' = [blind EXCEPT ![c] = FALSE]
        /\ misheard' = [misheard EXCEPT ![c] = FALSE]
        /\ before' = [before EXCEPT ![c] = IF o \in {"stop", "restart"} THEN Servers ELSE {}]
        /\ alone' = [d \in Callers |->
               d = c /\ o = "stop" /\ Starting \subseteq {pidFile}
                     /\ \A e \in Callers \ {c} : pc[e] = "idle"]
        /\ stopHeld' = (stopHeld /\ o \in {"stop", "status"})
        /\ UNCHANGED <<proc, doomed, pidFile, targets>>

\* The answer leaves; the rest of the request's variables are forgotten.
Returns(c) ==
    /\ pc' = [pc EXCEPT ![c] = "idle"] /\ op' = [op EXCEPT ![c] = None]
    /\ filePid' = [filePid EXCEPT ![c] = None]
    /\ refused' = [refused EXCEPT ![c] = FALSE]
    /\ blind' = [blind EXCEPT ![c] = FALSE]
    /\ misheard' = [misheard EXCEPT ![c] = FALSE]
    /\ before' = [before EXCEPT ![c] = {}]
    /\ alone' = [alone EXCEPT ![c] = FALSE]

Stale(pid) == pid # None /\ pid \notin Alive

\* getRelayStatus after the probe: a pid that was read and is dead by now
\* clears the file, whatever it holds by now.
ClearsIfStale(c, heard) ==
    pidFile' = IF ~heard /\ Stale(filePid[c]) THEN None ELSE pidFile

StatusProbed(c, heard) ==
    /\ pc[c] = "status" /\ op[c] = "status"
    /\ ClearsIfStale(c, heard)
    /\ Returns(c)
    /\ UNCHANGED <<proc, doomed, calls, targets, stopHeld>>

\* startRelay: a relay that is heard is reused.
StartReuses(c, heard) ==
    /\ pc[c] = "status" /\ op[c] \in {"start", "restart"} /\ heard
    /\ Returns(c)
    /\ UNCHANGED <<proc, doomed, pidFile, calls, targets, stopHeld>>

\* Otherwise the file is cleared, a host spawned and its pid written.
StartSpawns(c, heard) ==
    /\ pc[c] = "status" /\ op[c] \in {"start", "restart"} /\ ~heard
    /\ \E p \in Unborn :
        /\ \A q \in Unborn : p <= q
        /\ proc' = [proc EXCEPT ![p] = "booting"]
        /\ pidFile' = p
    /\ filePid' = [filePid EXCEPT ![c] = None]
    /\ misheard' = [misheard EXCEPT ![c] = Mishears(c, heard)]
    /\ pc' = [pc EXCEPT ![c] = "coming up"]
    /\ UNCHANGED <<doomed, calls, op, targets, refused, blind, before, alone, stopHeld>>

\* waitForRelayUp heard it, or its time is over; the last status reads the file.
StartWaited(c) ==
    /\ pc[c] = "coming up"
    /\ \/ Serving /\ pc' = [pc EXCEPT ![c] = "came up"]
       \/ pc' = [pc EXCEPT ![c] = "gave up"]
    /\ filePid' = [filePid EXCEPT ![c] = pidFile]
    /\ UNCHANGED <<proc, doomed, pidFile, calls, op, targets, refused, blind, misheard, before,
          alone, stopHeld>>

StartReturns(c, heard) ==
    /\ pc[c] \in {"came up", "gave up"}
    /\ ClearsIfStale(c, heard)
    /\ Returns(c)
    /\ UNCHANGED <<proc, doomed, calls, targets, stopHeld>>

\* Variant: the port alone says whom to stop.
CandidatesByPort(c, owner) == owner \ {None}

Candidates(c, owner) == ({filePid[c]} \cup owner) \ {None}

\* stopRelay: netstat answered, or failed.
StopFindsOwner(c) ==
    /\ pc[c] = "owner"
    /\ \E owner \in {Servers, {}} :
        /\ targets' = [targets EXCEPT ![c] = Candidates(c, owner)]
        /\ blind' = [blind EXCEPT ![c] = owner # Servers]
    /\ filePid' = [filePid EXCEPT ![c] = None]
    /\ pc' = [pc EXCEPT ![c] = "judging"]
    /\ UNCHANGED <<proc, doomed, pidFile, calls, op, refused, misheard, before, alone, stopHeld>>

\* One candidate: dead ones are skipped, one whose command line cannot be read
\* is refused, the others are killed.
StopJudges(c) ==
    /\ pc[c] = "judging"
    /\ \E p \in targets[c] :
        /\ targets' = [targets EXCEPT ![c] = @ \ {p}]
        /\ \/ p \notin Alive /\ UNCHANGED <<doomed, refused>>
           \/ p \in Alive /\ doomed' = doomed \cup {p} /\ UNCHANGED refused
           \/ p \in Alive /\ refused' = [refused EXCEPT ![c] = TRUE] /\ UNCHANGED doomed
    /\ UNCHANGED <<proc, pidFile, calls, op, pc, filePid, blind, misheard, before, alone, stopHeld>>

\* The port no longer answers, or the wait is over: relay.pid is cleared.
StopWaited(c) ==
    /\ pc[c] = "judging" /\ targets[c] = {}
    /\ pidFile' = None
    /\ pc' = [pc EXCEPT ![c] = "stop status"]
    /\ UNCHANGED <<proc, doomed, calls, op, filePid, targets, refused, blind, misheard, before,
          alone, stopHeld>>

\* The status that stopRelay ends with finds no pid file: "stopped" is all that
\* its probe did not hear a relay.
StopSucceeded(c, heard) == ~heard /\ ~refused[c]

StopReturns(c, heard) ==
    /\ pc[c] = "stop status" /\ op[c] = "stop"
    /\ Returns(c)
    /\ stopHeld' = \/ stopHeld
                   \/ /\ StopSucceeded(c, heard) /\ alone[c]
                      /\ ~(blind[c] /\ Mishears(c, heard))
    /\ UNCHANGED <<proc, doomed, pidFile, calls, targets>>

\* Variant: the restart starts whatever the stop said.
RestartGoesOnAlways(c, heard) == TRUE

RestartGoesOn(c, heard) == StopSucceeded(c, heard)

\* restartRelay: a stop that succeeded starts, a failed one ends the restart.
RestartStarts(c, heard) ==
    /\ pc[c] = "stop status" /\ op[c] = "restart" /\ RestartGoesOn(c, heard)
    /\ pc' = [pc EXCEPT ![c] = "status"]
    /\ filePid' = [filePid EXCEPT ![c] = pidFile]
    /\ misheard' = [misheard EXCEPT ![c] = Mishears(c, heard)]
    /\ UNCHANGED <<proc, doomed, pidFile, calls, op, targets, refused, blind, before, alone,
          stopHeld>>

RestartEnds(c, heard) ==
    /\ pc[c] = "stop status" /\ op[c] = "restart" /\ ~RestartGoesOn(c, heard)
    /\ Returns(c)
    /\ UNCHANGED <<proc, doomed, pidFile, calls, targets, stopHeld>>

\* The steps that rest on a probe, and the others.
Probes(c, heard) == StatusProbed(c, heard) \/ StartReuses(c, heard) \/ StartSpawns(c, heard)
                     \/ StartReturns(c, heard) \/ StopReturns(c, heard)
                     \/ RestartStarts(c, heard) \/ RestartEnds(c, heard)

Call(c) == StartWaited(c) \/ StopFindsOwner(c) \/ StopJudges(c) \/ StopWaited(c)
            \/ \E heard \in Heard : Probes(c, heard)

LifecycleNext ==
    \/ \E p \in Pids : RelayProcess(p) \/ LauncherServes(p)
    \/ \E c \in Callers : Asks(c) \/ Call(c)

(***************************************************************************)
(* Every wait of a call has a deadline; taskkill does its work, and a      *)
(* spawned host boots or gives way.  Nothing makes a relay crash, a caller *)
(* call or a launcher start.                                               *)
(***************************************************************************)
LifecycleFairness ==
    /\ \A c \in Callers : WF_lifecycleVars(Call(c))
    /\ \A p \in Pids : WF_lifecycleVars(Killed(p) \/ Boots(p) \/ FindsPortTaken(p) \/ GivesWay(p))

LifecycleSpec == LifecycleInit /\ [][LifecycleNext]_lifecycleVars /\ LifecycleFairness

-----------------------------------------------------------------------------
Pid == Pids \cup {None}

LifecycleTypeOK ==
    /\ proc \in [Pids -> {"unborn", "booting", "contending", "serving", "ended"}]
    /\ doomed \subseteq Pids /\ pidFile \in Pid /\ calls \in 0..MaxCalls
    /\ op \in [Callers -> Ops \cup {None}]
    /\ pc \in [Callers -> {"idle", "status", "coming up", "came up", "gave up", "owner",
                          "judging", "stop status"}]
    /\ filePid \in [Callers -> Pid]
    /\ targets \in [Callers -> SUBSET Pids]
    /\ refused \in [Callers -> BOOLEAN]
    /\ blind \in [Callers -> BOOLEAN] /\ misheard \in [Callers -> BOOLEAN]
    /\ before \in [Callers -> SUBSET Pids]
    /\ alone \in [Callers -> BOOLEAN] /\ stopHeld \in BOOLEAN

(***************************************************************************)
(* A stop that nothing overlapped and that answered ok is final, even when *)
(* the relay was still booting and even when its probes went unanswered:   *)
(* until somebody starts one, no process is left that taskkill was not     *)
(* sent to.  (relay.pid is written by startRelay for the boot, the port's  *)
(* owner covers the rest.)  What it cannot survive is both at once:        *)
(* netstat that does not name the owner, and a probe of two seconds that   *)
(* takes it for gone.                                                      *)
(***************************************************************************)
StopHolds == stopHeld => Alive \subseteq doomed

(***************************************************************************)
(* When a stop or a restart answers ok, every relay that served when it    *)
(* was asked for has ended: a restart does not pass off the old relay as   *)
(* the new one.  Unless a probe took that relay for gone; and then         *)
(* taskkill was sent to it, or netstat had not named it either.            *)
(***************************************************************************)
AnswersOk(c, heard) ==
    \/ StopReturns(c, heard) /\ StopSucceeded(c, heard)
    \/ op[c] = "restart" /\ StartReuses(c, heard)
    \/ op[c] = "restart" /\ pc[c] = "came up" /\ StartReturns(c, heard)

Ended(p) == proc[p] = "ended"

Missed(c, heard, p) == Mishears(c, heard) /\ (p \in doomed \/ blind[c])

AskedIsGone ==
    [][\A c \in Callers, heard \in Heard :
        AnswersOk(c, heard) => \A p \in before[c] : Ended(p) \/ Missed(c, heard, p)]_lifecycleVars

(***************************************************************************)
(* "A failed stop must abort the restart: starting a second relay while    *)
(* the old one still owns 47821 would just produce a duplicate that        *)
(* exits": what is asked for is gone whatever the probes hear.             *)
(***************************************************************************)
AskedIsGoneAlways ==
    [][\A c \in Callers, heard \in Heard :
        AnswersOk(c, heard) => \A p \in before[c] : Ended(p)]_lifecycleVars

(***************************************************************************)
(* Duplicates do not pile up: when the calls are over, at most one relay   *)
(* process is left.                                                        *)
(***************************************************************************)
NoPileUp == <>[](Cardinality(Alive) <= 1)

(***************************************************************************)
(* "clean a stale pid file so a later start is clean", "Clear any stale    *)
(* pid": getRelayStatus and startRelay replace or remove only the pid of a *)
(* process that is gone.                                                   *)
(***************************************************************************)
OnlyStaleCleared ==
    [][\A c \in Callers :
        (pc[c] \in {"status", "came up", "gave up"} /\ pc'[c] # pc[c] /\ pidFile' # pidFile)
            => pidFile \notin Alive]_lifecycleVars
=============================================================================
