---------------------- MODULE TerminalSupervisor_proofs ----------------------
(***************************************************************************)
(* Proofs about TerminalSupervisor, for any hosts and requests, any window *)
(* and any restart budget.                                                 *)
(***************************************************************************)
EXTENDS TerminalSupervisor, SequenceTheorems, WellFoundedInduction, TLAPS

Moves == {"idle", "starting", "readying", "clearing", "stopping"}

-----------------------------------------------------------------------------
(* Processes and handles.  The child runs; nothing is being started while   *)
(* there is one; whoever was asked to stop is doomed; every other process   *)
(* that is not the child is on its way out.                                 *)

HostTypes ==
    /\ live \subseteq Hosts /\ doomed \subseteq live
    /\ stopping \in BOOLEAN /\ manual \in BOOLEAN /\ saved \in BOOLEAN /\ inFlight \in BOOLEAN /\ timer \in BOOLEAN
    /\ req \in [Requests -> Moves]
    /\ target \in [Requests -> Hosts \cup {None}]
    /\ wish \in {"start", "stop"} /\ raced \in BOOLEAN /\ unread \in BOOLEAN

HandleInv ==
    /\ child \in live \cup {None}
    /\ inFlight => child = None
    /\ \A r \in Requests : target[r] \in live => target[r] \in doomed
    /\ stopping /\ child # None => child \in doomed
    /\ OnlyTheChild

LEMMA HostInit == Init => HostTypes /\ HandleInv
  BY DEF Init, FlagRead, HostTypes, HandleInv, OnlyTheChild, Moves

LEMMA HostStep == HostTypes /\ HandleInv /\ [Next]_vars => HostTypes' /\ HandleInv'
  <1>. SUFFICES ASSUME HostTypes, HandleInv, [Next]_vars PROVE HostTypes' /\ HandleInv'
    OBVIOUS
  <1>. USE SupervisorAssumption
       DEF HostTypes, HandleInv, OnlyTheChild, Moves, procVars, supVars, flags, reqVars, history
  <1>1. ASSUME NEW h \in Hosts, Spawn(h) PROVE HostTypes' /\ HandleInv'
    BY <1>1 DEF Spawn, StopForgotten, MoveAll, Starting
  <1>2. ASSUME NEW h \in Hosts, SweepKills(h) PROVE HostTypes' /\ HandleInv'
    BY <1>2 DEF SweepKills
  <1>3. ASSUME NEW h \in Hosts, ForgottenEnds(h) PROVE HostTypes' /\ HandleInv'
    BY <1>3 DEF ForgottenEnds, Ends
  <1>4. ASSUME NEW h \in Hosts, StoppedEnds(h) PROVE HostTypes' /\ HandleInv'
    BY <1>4 DEF StoppedEnds, Ends
  <1>5. ASSUME NEW h \in Hosts, Crashed(h) PROVE HostTypes' /\ HandleInv'
    <2>1. timer' \in BOOLEAN
      BY <1>5 DEF Crashed, ScheduleRestart
    <2>. QED BY <1>5, <2>1 DEF Crashed, Ends
  <1>6. ASSUME NEW r \in Requests, StartRequest(r) PROVE HostTypes' /\ HandleInv'
    <2>1. raced' \in BOOLEAN
      BY <1>6 DEF StartRequest
    <2>. QED BY <1>6, <2>1 DEF StartRequest, Rearms
  <1>7. ASSUME NEW r \in Requests, StopRequest(r) PROVE HostTypes' /\ HandleInv'
    <2>1. /\ raced' \in BOOLEAN /\ manual' = TRUE /\ saved' = TRUE /\ unread' = FALSE
          /\ wish' = "stop"
          /\ UNCHANGED <<live, child, inFlight>>
      BY <1>7 DEF StopRequest
    <2>2. CASE StopChild(r)
      BY <2>1, <2>2 DEF StopChild
    <2>3. CASE req' = [req EXCEPT ![r] = "clearing"] /\ UNCHANGED <<stopping, doomed, target, timer>>
      BY <2>1, <2>3
    <2>. QED BY <1>7, <2>2, <2>3 DEF StopRequest
  <1>8. ASSUME NEW r \in Requests, Readied(r) \/ ReadyTimesOut(r) PROVE HostTypes' /\ HandleInv'
    <2>1. CASE Readied(r)
      BY <2>1 DEF Readied
    <2>2. CASE ReadyTimesOut(r)
      BY <2>2 DEF ReadyTimesOut
    <2>. QED BY <1>8, <2>1, <2>2
  <1>9. ASSUME NEW r \in Requests, Cleared(r) PROVE HostTypes' /\ HandleInv'
    BY <1>9 DEF Cleared, StopChild
  <1>10. ASSUME NEW r \in Requests, StopEnds(r) PROVE HostTypes' /\ HandleInv'
    BY <1>10 DEF StopEnds
  <1>11. CASE StartFails
    BY <1>11 DEF StartFails, MoveAll, Starting
  <1>12. CASE TimerFires
    BY <1>12 DEF TimerFires
  <1>13. CASE Elapse
    BY <1>13 DEF Elapse
  <1>14. CASE RelayRestarts
    BY <1>14 DEF RelayRestarts, BootStarts, FlagRead
  <1>15. CASE UNCHANGED vars
    BY <1>15 DEF vars
  <1>. QED BY <1>1, <1>2, <1>3, <1>4, <1>5, <1>6, <1>7, <1>8, <1>9, <1>10, <1>11, <1>12,
              <1>13, <1>14, <1>15 DEF Next, Exits, Request, Progress

\* No host process is lost: whatever crashes, stops, starts and restarts of
\* the relay come in which order, a process that is not on its way out is the
\* one the supervisor holds.
THEOREM NoHostIsLost == Spec => []OnlyTheChild
  <1>1. HandleInv => OnlyTheChild
    BY DEF HandleInv
  <1>. QED BY <1>1, HostInit, HostStep, PTL DEF Spec

-----------------------------------------------------------------------------
(* A stop that raced nothing.  Its request is the only one, nothing is      *)
(* started while the flag is set, and the handle it waits for is the only   *)
(* one there can be.                                                        *)

LoneStop ==
    (wish = "stop" /\ ~raced /\ ~unread) =>
        /\ manual /\ saved /\ ~inFlight
        /\ \A r \in Requests :
              /\ req[r] \in {"idle", "clearing", "stopping"}
              /\ req[r] = "stopping" => child \in {None, target[r]}
        /\ ~Busy => child = None

LEMMA StopStep == HostTypes /\ LoneStop /\ [Next]_vars => LoneStop'
  <1>. SUFFICES ASSUME HostTypes, LoneStop, [Next]_vars, wish' = "stop", ~raced', ~unread'
                PROVE  LoneStop'
    BY DEF LoneStop
  <1>. USE DEF HostTypes, LoneStop, Moves, Busy, procVars, supVars, flags, reqVars, history
  <1>1. ASSUME NEW h \in Hosts, Spawn(h) PROVE LoneStop'
    BY <1>1 DEF Spawn
  <1>2. ASSUME NEW h \in Hosts, SweepKills(h) \/ ForgottenEnds(h) PROVE LoneStop'
    BY <1>2 DEF SweepKills, ForgottenEnds
  <1>3. ASSUME NEW h \in Hosts, StoppedEnds(h) PROVE LoneStop'
    BY <1>3 DEF StoppedEnds
  <1>4. ASSUME NEW h \in Hosts, Crashed(h) PROVE LoneStop'
    BY <1>4 DEF Crashed
  <1>5. ASSUME NEW r \in Requests, StartRequest(r) PROVE LoneStop'
    BY <1>5 DEF StartRequest
  <1>6. ASSUME NEW r \in Requests, StopRequest(r) PROVE LoneStop'
    BY <1>6 DEF StopRequest, StopChild
  <1>7. ASSUME NEW r \in Requests, Readied(r) \/ ReadyTimesOut(r) PROVE LoneStop'
    BY <1>7 DEF Readied, ReadyTimesOut
  <1>8. ASSUME NEW r \in Requests, Cleared(r) PROVE LoneStop'
    BY <1>8 DEF Cleared, StopChild
  <1>9. ASSUME NEW r \in Requests, StopEnds(r) PROVE LoneStop'
    BY <1>9 DEF StopEnds
  <1>10. CASE StartFails
    BY <1>10 DEF StartFails
  <1>11. CASE TimerFires
    BY <1>11 DEF TimerFires
  <1>12. CASE Elapse
    BY <1>12 DEF Elapse
  <1>13. CASE RelayRestarts
    BY <1>13 DEF RelayRestarts, BootStarts, FlagRead
  <1>14. CASE UNCHANGED vars
    BY <1>14 DEF vars
  <1>. QED BY <1>1, <1>2, <1>3, <1>4, <1>5, <1>6, <1>7, <1>8, <1>9, <1>10, <1>11, <1>12,
              <1>13, <1>14 DEF Next, Exits, Request, Progress

\* A stop that met no start under way and no other request is final, through
\* crashes, timers, sweeps and restarts of the relay: once it is answered there
\* is no child and none is being started, as long as the relays that boot can
\* read the flag.
THEOREM LoneStopIsFinal == Spec => []StopIsFinal
  <1>1. Init => LoneStop
    BY DEF Init, FlagRead, LoneStop, Busy
  <1>2. HostTypes /\ HandleInv /\ LoneStop /\ [Next]_vars
           => HostTypes' /\ HandleInv' /\ LoneStop'
    BY HostStep, StopStep
  <1>3. LoneStop => StopIsFinal
    BY DEF LoneStop, StopIsFinal
  <1>. QED BY <1>1, <1>2, <1>3, HostInit, PTL DEF Spec

-----------------------------------------------------------------------------
(* The breaker.                                                             *)

Ages == 0..(Window + 1)

\* Some place is the first whose restart is in the window, or there is none.
LEMMA FirstRecentExists ==
    ASSUME NEW s \in Seq(Ages)
    PROVE  /\ FirstRecent(s) \in 1..(Len(s) + 1)
           /\ \A i \in 1..(FirstRecent(s) - 1) : s[i] > Window
           /\ FirstRecent(s) <= Len(s) => s[FirstRecent(s)] <= Window
  <1>. DEFINE Stops == {n \in 1..(Len(s) + 1) : n <= Len(s) => s[n] <= Window}
  <1>1. Stops \subseteq Nat /\ Len(s) + 1 \in Stops
    OBVIOUS
  <1>2. \E n \in Stops : \A m \in Stops : ~ (<<m, n>> \in OpToRel(<, Nat))
    BY <1>1, NatLessThanWellFounded, WFMin
  <1>. HIDE DEF Stops
  <1>3. PICK n \in Stops : \A m \in Stops : ~ (m < n)
    BY <1>1, <1>2, Zenon DEF OpToRel
  <1>. USE DEF Stops
  <1>4. ASSUME NEW i \in 1..(n - 1) PROVE s[i] > Window
    <2>1. i \notin Stops /\ i \in 1..Len(s)
      BY <1>3
    <2>. QED BY <2>1, SupervisorAssumption DEF Ages
  <1>. QED BY <1>3, <1>4 DEF FirstRecent

\* It is the only place of its kind.
LEMMA FirstRecentIsUnique ==
    ASSUME NEW s \in Seq(Ages), NEW n \in 1..(Len(s) + 1),
           \A i \in 1..(n - 1) : s[i] > Window,
           n <= Len(s) => s[n] <= Window
    PROVE  FirstRecent(s) = n
  <1>. DEFINE f == FirstRecent(s)
  <1>1. /\ f \in 1..(Len(s) + 1)
        /\ \A i \in 1..(f - 1) : s[i] > Window
        /\ f <= Len(s) => s[f] <= Window
    BY FirstRecentExists
  <1>2. \A i \in 1..Len(s) : s[i] \in Ages
    OBVIOUS
  <1>. HIDE DEF f
  <1>3. ASSUME f < n PROVE FALSE
    <2>1. f \in 1..(n - 1) /\ f <= Len(s) /\ s[f] \in Ages
      BY <1>1, <1>2, <1>3
    <2>2. s[f] > Window /\ s[f] <= Window
      BY <1>1, <2>1
    <2>. QED BY <2>1, <2>2, SupervisorAssumption DEF Ages
  <1>4. ASSUME n < f PROVE FALSE
    <2>1. n \in 1..(f - 1) /\ n <= Len(s) /\ s[n] \in Ages
      BY <1>1, <1>2, <1>4
    <2>2. s[n] > Window /\ s[n] <= Window
      BY <1>1, <2>1
    <2>. QED BY <2>1, <2>2, SupervisorAssumption DEF Ages
  <1>5. f = n
    <2>1. f \in Int /\ n \in Int
      BY <1>1
    <2>. QED BY <1>3, <1>4, <2>1
  <1>. QED BY <1>5 DEF f

\* A tail of a sequence, place by place.
LEMMA TailOf ==
    ASSUME NEW T, NEW s \in Seq(T), NEW n \in 1..(Len(s) + 1)
    PROVE  /\ SubSeq(s, n, Len(s)) \in Seq(T)
           /\ Len(SubSeq(s, n, Len(s))) = Len(s) + 1 - n
           /\ \A i \in 1..(Len(s) + 1 - n) : SubSeq(s, n, Len(s))[i] = s[n - 1 + i]
  <1>1. \A i \in n..Len(s) : s[i] \in T
    OBVIOUS
  <1>. QED BY <1>1, SubSeqProperties

\* As time passes every age below the cap grows by one.
LEMMA OlderAges ==
    ASSUME NEW s \in Seq(Ages)
    PROVE  /\ Older(s) \in Seq(Ages) /\ Len(Older(s)) = Len(s)
           /\ \A i \in 1..Len(s) : Older(s)[i] = IF s[i] > Window THEN s[i] ELSE s[i] + 1
  <1>1. \A i \in 1..Len(s) : (IF s[i] > Window THEN s[i] ELSE s[i] + 1) \in Ages
    BY SupervisorAssumption DEF Ages
  <1>. QED BY <1>1 DEF Older

\* What the breaker counts is what was granted: the restarts it remembers are
\* some that left the window, and behind them the ones granted in it, the
\* oldest first.
AgesInv ==
    /\ restarts \in Seq(Ages) /\ repairs \in Seq(0..Window)
    /\ Len(repairs) <= Budget
    /\ \A i, j \in 1..Len(repairs) : i <= j => repairs[j] <= repairs[i]
    /\ Len(repairs) <= Len(restarts)
    /\ \A i \in 1..(Len(restarts) - Len(repairs)) : restarts[i] > Window
    /\ \A i \in 1..Len(repairs) : repairs[i] = restarts[Len(restarts) - Len(repairs) + i]

LEMMA AgesEmpty ==
    ASSUME restarts' = <<>>, repairs' = <<>>
    PROVE  AgesInv'
  <1>1. restarts' \in Seq(Ages) /\ repairs' \in Seq(0..Window) /\ Len(restarts') = 0 /\ Len(repairs') = 0
    OBVIOUS
  <1>. QED BY <1>1, SupervisorAssumption DEF AgesInv

\* So the breaker's count is the number of the granted ones.
LEMMA CountsTheGranted ==
    ASSUME AgesInv
    PROVE  /\ Recent(restarts) = repairs
  <1>. DEFINE n == Len(restarts) - Len(repairs) + 1
  <1>1. /\ restarts \in Seq(Ages) /\ repairs \in Seq(Ages) /\ n \in 1..(Len(restarts) + 1)
        /\ \A i \in 1..Len(repairs) : repairs[i] \in 0..Window
    BY SupervisorAssumption DEF AgesInv, Ages
  <1>2. n <= Len(restarts) => restarts[n] <= Window
    <2>1. SUFFICES ASSUME n <= Len(restarts) PROVE restarts[n] <= Window
      OBVIOUS
    <2>2. 1 \in 1..Len(repairs) /\ repairs[1] = restarts[n]
      BY <1>1, <2>1 DEF AgesInv
    <2>. QED BY <1>1, <2>2, SupervisorAssumption
  <1>3. \A i \in 1..(n - 1) : restarts[i] > Window
    BY DEF AgesInv
  <1>4. FirstRecent(restarts) = n
    BY <1>1, <1>2, <1>3, FirstRecentIsUnique
  <1>. DEFINE t == SubSeq(restarts, n, Len(restarts))
  <1>5. t \in Seq(Ages) /\ Len(t) = Len(repairs) /\ \A i \in 1..Len(t) : t[i] = restarts[n - 1 + i]
    BY <1>1, TailOf
  <1>6. \A i \in 1..Len(t) : t[i] = repairs[i]
    BY <1>5 DEF AgesInv
  <1>. HIDE DEF t
  <1>7. t = repairs
    BY <1>1, <1>5, <1>6, SeqEqual
  <1>. QED BY <1>4, <1>7 DEF Recent, t

LEMMA ScheduleKeepsAges ==
    ASSUME AgesInv, ScheduleRestart
    PROVE  /\ AgesInv'
           /\ timer' \/ Len(repairs) = Budget
  <1>1. Recent(restarts) = repairs
    BY CountsTheGranted
  <1>2. repairs \in Seq(0..Window) /\ Len(repairs) \in Nat /\ Len(repairs) <= Budget
    BY DEF AgesInv
  <1>3. CASE BudgetLeft(repairs)
    <2>1. restarts' = Append(repairs, 0) /\ repairs' = Append(repairs, 0) /\ timer' = TRUE
      BY <1>1, <1>3 DEF ScheduleRestart
    <2>. DEFINE s == Append(repairs, 0)
    <2>2. /\ s \in Seq(0..Window) /\ s \in Seq(Ages) /\ Len(s) = Len(repairs) + 1
          /\ s[Len(s)] = 0 /\ \A i \in 1..Len(repairs) : s[i] = repairs[i]
      BY <1>2, SupervisorAssumption DEF Ages
    <2>3. \A i, j \in 1..Len(s) : i <= j => s[j] <= s[i]
      <3>. SUFFICES ASSUME NEW i \in 1..Len(s), NEW j \in 1..Len(s), i <= j PROVE s[j] <= s[i]
        OBVIOUS
      <3>. HIDE DEF s
      <3>1. CASE j = Len(s)
        <4>1. s[i] \in 0..Window
          <5>1. s \in Seq(0..Window)
            BY <2>2
          <5>. QED BY <5>1, ElementOfSeq
        <4>. QED BY <2>2, <3>1, <4>1, SupervisorAssumption
      <3>2. CASE j # Len(s)
        <4>1. i \in 1..Len(repairs) /\ j \in 1..Len(repairs)
          BY <1>2, <2>2, <3>2
        <4>2. repairs[j] <= repairs[i]
          BY <4>1 DEF AgesInv
        <4>. QED BY <2>2, <4>1, <4>2
      <3>. QED BY <3>1, <3>2
    <2>4. Len(s) <= Budget
      BY <1>2, <1>3, <2>2, SupervisorAssumption DEF BudgetLeft
    <2>. HIDE DEF s
    <2>. QED BY <2>1, <2>2, <2>3, <2>4 DEF AgesInv, s
  <1>4. CASE ~BudgetLeft(repairs)
    <2>1. restarts' = repairs /\ repairs' = repairs
      BY <1>1, <1>4 DEF ScheduleRestart
    <2>2. repairs \in Seq(Ages)
      BY <1>2, SupervisorAssumption DEF Ages
    <2>3. Len(repairs) = Budget
      BY <1>2, <1>4, SupervisorAssumption DEF BudgetLeft
    <2>4. AgesInv'
      BY <1>2, <2>1, <2>2 DEF AgesInv
    <2>. QED BY <2>3, <2>4
  <1>. QED BY <1>3, <1>4

LEMMA ElapseKeepsAges ==
    ASSUME AgesInv, Elapse
    PROVE  AgesInv'
  <1>. DEFINE a == Older(restarts)
              b == Older(repairs)
              n == FirstRecent(b)
              t == SubSeq(b, n, Len(b))
  <1>1. /\ restarts \in Seq(Ages) /\ repairs \in Seq(Ages)
        /\ \A i \in 1..Len(repairs) : repairs[i] \in 0..Window
        /\ Len(repairs) \in Nat /\ Len(restarts) \in Nat
    BY SupervisorAssumption DEF AgesInv, Ages
  <1>2. /\ a \in Seq(Ages) /\ Len(a) = Len(restarts)
        /\ b \in Seq(Ages) /\ Len(b) = Len(repairs)
        /\ \A i \in 1..Len(a) : a[i] = IF restarts[i] > Window THEN restarts[i] ELSE restarts[i] + 1
        /\ \A i \in 1..Len(b) : b[i] = IF repairs[i] > Window THEN repairs[i] ELSE repairs[i] + 1
    BY <1>1, OlderAges
  <1>3. restarts' = a /\ repairs' = t
    BY DEF Elapse, Recent
  <1>4. /\ n \in 1..(Len(b) + 1)
        /\ \A i \in 1..(n - 1) : b[i] > Window
        /\ n <= Len(b) => b[n] <= Window
    BY <1>2, FirstRecentExists
  <1>5. /\ t \in Seq(Ages) /\ Len(t) = Len(b) + 1 - n
        /\ \A i \in 1..Len(t) : t[i] = b[n - 1 + i]
    BY <1>2, <1>4, TailOf
  <1>. HIDE DEF a, b, n, t
  <1>6. \A i, j \in 1..Len(b) : i <= j => b[j] <= b[i]
    <2>. SUFFICES ASSUME NEW i \in 1..Len(b), NEW j \in 1..Len(b), i <= j
                  PROVE  b[j] <= b[i]
      OBVIOUS
    <2>1. repairs[j] <= repairs[i] /\ repairs[i] \in 0..Window /\ repairs[j] \in 0..Window
      BY <1>1, <1>2 DEF AgesInv
    <2>. QED BY <1>2, <2>1, SupervisorAssumption
  <1>7. \A i \in 1..Len(t) : t[i] \in 0..Window
    <2>. SUFFICES ASSUME NEW i \in 1..Len(t) PROVE t[i] \in 0..Window
      OBVIOUS
    <2>1. n <= Len(b) /\ n - 1 + i \in 1..Len(b) /\ n <= n - 1 + i /\ n \in 1..Len(b)
      BY <1>2, <1>4, <1>5
    <2>2. b[n - 1 + i] <= b[n] /\ b[n] <= Window
      BY <1>4, <1>6, <2>1
    <2>3. b[n - 1 + i] \in Ages /\ b[n] \in Ages
      BY <1>2, <2>1
    <2>. QED BY <1>5, <2>2, <2>3, SupervisorAssumption DEF Ages
  <1>8. t \in Seq(0..Window)
    <2>1. Len(t) \in Nat /\ t \in [1..Len(t) -> Ages]
      BY <1>5, LenProperties
    <2>2. t \in [1..Len(t) -> 0..Window]
      BY <1>7, <2>1
    <2>. QED BY <2>1, <2>2, SeqDef
  <1>9. Len(t) <= Budget /\ Len(t) <= Len(a) /\ Len(t) \in Nat
    BY <1>1, <1>2, <1>4, <1>5, SupervisorAssumption DEF AgesInv
  <1>10. \A i, j \in 1..Len(t) : i <= j => t[j] <= t[i]
    <2>. SUFFICES ASSUME NEW i \in 1..Len(t), NEW j \in 1..Len(t), i <= j PROVE t[j] <= t[i]
      OBVIOUS
    <2>1. n - 1 + i \in 1..Len(b) /\ n - 1 + j \in 1..Len(b) /\ n - 1 + i <= n - 1 + j
      BY <1>1, <1>2, <1>4, <1>5
    <2>. QED BY <1>5, <1>6, <2>1
  <1>11. ASSUME NEW i \in 1..Len(t) PROVE t[i] = a[Len(a) - Len(t) + i]
    <2>. DEFINE k == n - 1 + i
    <2>1. k \in 1..Len(b) /\ Len(a) - Len(b) + k \in 1..Len(a) /\ Len(a) - Len(t) + i = Len(a) - Len(b) + k
      BY <1>1, <1>2, <1>4, <1>5 DEF AgesInv
    <2>2. repairs[k] = restarts[Len(a) - Len(b) + k]
      BY <1>2, <2>1 DEF AgesInv
    <2>3. b[k] = a[Len(a) - Len(b) + k]
      BY <1>2, <2>1, <2>2
    <2>. QED BY <1>5, <2>1, <2>3
  <1>12. ASSUME NEW i \in 1..(Len(a) - Len(t)) PROVE a[i] > Window
    <2>1. CASE i <= Len(restarts) - Len(repairs)
      <3>1. restarts[i] > Window /\ i \in 1..Len(a)
        BY <1>1, <1>2, <2>1 DEF AgesInv
      <3>. QED BY <1>2, <3>1
    <2>2. CASE i > Len(restarts) - Len(repairs)
      <3>. DEFINE k == i - (Len(a) - Len(b))
      <3>1. k \in 1..(n - 1) /\ k \in 1..Len(b) /\ i \in 1..Len(a) /\ i = Len(restarts) - Len(repairs) + k
        BY <1>1, <1>2, <1>4, <1>5, <2>2 DEF AgesInv
      <3>2. repairs[k] = restarts[Len(restarts) - Len(repairs) + k]
        BY <1>2, <3>1 DEF AgesInv
      <3>3. b[k] = a[i] /\ b[k] > Window
        BY <1>2, <1>4, <3>1, <3>2
      <3>. QED BY <3>3
    <2>. QED BY <1>1, <2>1, <2>2
  <1>. QED BY <1>2, <1>3, <1>8, <1>9, <1>10, <1>11, <1>12 DEF AgesInv

LEMMA AgesStep == AgesInv /\ [Next]_vars => AgesInv'
  <1>. SUFFICES ASSUME AgesInv, [Next]_vars PROVE AgesInv'
    OBVIOUS
  <1>1. ASSUME UNCHANGED <<restarts, repairs>> PROVE AgesInv'
    BY <1>1 DEF AgesInv
  <1>2. ASSUME NEW h \in Hosts, Spawn(h) \/ SweepKills(h) \/ ForgottenEnds(h) \/ StoppedEnds(h)
        PROVE  AgesInv'
    BY <1>1, <1>2 DEF Spawn, SweepKills, ForgottenEnds, StoppedEnds, supVars, history
  <1>3. ASSUME NEW h \in Hosts, Crashed(h) PROVE AgesInv'
    BY <1>1, <1>3, ScheduleKeepsAges DEF Crashed
  <1>4. ASSUME NEW r \in Requests, StartRequest(r) PROVE AgesInv'
    BY <1>1, <1>4, AgesEmpty DEF StartRequest, Rearms
  <1>5. ASSUME NEW r \in Requests, StopRequest(r) \/ Progress(r) PROVE AgesInv'
    BY <1>1, <1>5 DEF StopRequest, Progress, Readied, ReadyTimesOut, Cleared, StopEnds, supVars, history
  <1>6. CASE StartFails \/ TimerFires
    BY <1>1, <1>6 DEF StartFails, TimerFires, history
  <1>7. CASE Elapse
    BY <1>7, ElapseKeepsAges
  <1>8. CASE RelayRestarts
    BY <1>8, AgesEmpty DEF RelayRestarts
  <1>9. CASE UNCHANGED vars
    BY <1>1, <1>9 DEF vars, supVars, history
  <1>. QED BY <1>2, <1>3, <1>4, <1>5, <1>6, <1>7, <1>8, <1>9 DEF Next, Exits, Request

LEMMA AgesInit == Init => AgesInv
  <1>. SUFFICES ASSUME Init PROVE AgesInv
    OBVIOUS
  <1>1. restarts \in Seq(Ages) /\ repairs \in Seq(0..Window) /\ Len(restarts) = 0 /\ Len(repairs) = 0
    BY DEF Init
  <1>. QED BY <1>1, SupervisorAssumption DEF AgesInv

\* The breaker, for any window and any budget: between two deliberate starts no
\* window sees more automatic restarts than the budget.
THEOREM BreakerWorks == Spec => []BreakerHolds
  <1>1. AgesInv => BreakerHolds
    BY DEF AgesInv, BreakerHolds
  <1>. QED BY <1>1, AgesInit, AgesStep, PTL DEF Spec

\* Type correctness of the supervisor.
THEOREM TypeCorrect == Spec => []TypeOK
  <1>1. HostTypes /\ HandleInv /\ AgesInv => TypeOK
    BY DEF HostTypes, HandleInv, AgesInv, Ages, Moves, TypeOK
  <1>. QED BY <1>1, HostInit, HostStep, AgesInit, AgesStep, PTL DEF Spec

-----------------------------------------------------------------------------
(* Crashes are seen.                                                        *)

LEMMA CrashIsSeen ==
    ASSUME HostTypes, HandleInv, AgesInv, [Next]_vars,
           child \in live, child \notin doomed, child \notin live'
    PROVE  manual \/ timer' \/ Len(repairs) = Budget
  <1>1. ~stopping
    BY SupervisorAssumption DEF HostTypes, HandleInv
  <1>2. PICK h \in Hosts : Exits(h)
    BY DEF Next, Spawn, SweepKills, Request, StartRequest, StopRequest, Progress, Readied,
       ReadyTimesOut, Cleared, StopEnds, StartFails, TimerFires, Elapse, RelayRestarts, vars, procVars
  <1>3. Crashed(h)
    BY <1>1, <1>2 DEF Exits, ForgottenEnds, StoppedEnds, Ends
  <1>4. manual \/ ScheduleRestart
    BY <1>3 DEF Crashed
  <1>. QED BY <1>4, ScheduleKeepsAges

\* A child that ends without having been asked to is put down for a restart,
\* unless the user stopped the host or the budget is used up.
THEOREM CrashesAreSeen == Spec => NoCrashIsMissed
  <1>1. HostTypes /\ HandleInv /\ AgesInv /\ [Next]_vars
           => [(child \in live /\ child \notin doomed /\ child \notin live')
                 => manual \/ timer' \/ Len(repairs) = Budget]_vars
    BY CrashIsSeen
  <1>. QED BY <1>1, HostInit, HostStep, AgesInit, AgesStep, PTL DEF Spec, NoCrashIsMissed
=============================================================================
