---------------------------- MODULE Stream_proofs ----------------------------
(***************************************************************************)
(* Proofs about one streaming request: about KeepAlive, the loop that asks *)
(* for the stream, for plans of any length, any retry budget and responses *)
(* of any number of pieces; and about StreamGuard, which lets the stream   *)
(* through, for streams of any number of frames and any calls.             *)
(***************************************************************************)
EXTENDS KeepAlive, StreamGuard, WellFoundedInduction, TLAPS

-----------------------------------------------------------------------------
(* KeepAlive: plans.                                                       *)

LEMMA PlanTypes ==
    ASSUME NEW p \in Plans
    PROVE  /\ p.size \in 1..MaxMembers /\ p.size \in Nat
           /\ p.budget \in 0..MaxBudget /\ p.budget \in Nat
           /\ p.kind \in {"chain", "pool"} /\ p.onTier \in BOOLEAN
  BY KeepAliveAssumption DEF Plans

-----------------------------------------------------------------------------
(* KeepAlive: the continuation of a cut response.                          *)

\* Between two calls the shadow is all the client saw; during a call it is
\* what the call carries.
ShadowInv ==
    /\ {segment, seen, shadow, carried} \subseteq Nat
    /\ pc \in {"ready", "backoff"} => shadow = seen
    /\ pc = "calling" => shadow = seen /\ carried = seen
    /\ pc = "piping" => shadow = carried /\ carried + segment = seen

LEMMA ShadowInit == Init => ShadowInv
  BY DEF Init, ShadowInv

LEMMA ShadowStep == ShadowInv /\ [Next]_vars => ShadowInv'
  <1>. SUFFICES ASSUME ShadowInv, [Next]_vars PROVE ShadowInv'
    OBVIOUS
  <1>. USE DEF ShadowInv
  <1>1. CASE Call
    BY <1>1 DEF Call, Settle
  <1>2. CASE CallThrows
    BY <1>2 DEF CallThrows, Settle
  <1>3. ASSUME NEW status \in Status, CallStatus(status) PROVE ShadowInv'
    BY <1>3 DEF CallStatus, Settle, Backoff, MemberFails
  <1>4. CASE CallStream
    BY <1>4 DEF CallStream
  <1>5. CASE Piece
    BY <1>5 DEF Piece
  <1>6. CASE PipeOk
    BY <1>6 DEF PipeOk, Settle
  <1>7. CASE PipeRetryable
    BY <1>7 DEF PipeRetryable, Backoff, MemberFails, Settle
  <1>8. CASE PipeResume
    <2>1. shadow' = seen /\ seen' = seen /\ carried' = carried /\ segment' = segment
      BY <1>8 DEF PipeResume, MergedShadow
    <2>2. pc' \in {"backoff", "ready", "done"}
      BY <1>8 DEF PipeResume, Backoff, MemberFails, Settle
    <2>. QED BY <2>1, <2>2
  <1>9. CASE PipeCut \/ PipeAborted
    BY <1>9 DEF PipeCut, PipeAborted, Settle
  <1>10. CASE Wake
    BY <1>10 DEF Wake, Settle
  <1>11. CASE ClientLeaves
    BY <1>11 DEF ClientLeaves
  <1>12. CASE UNCHANGED vars
    BY <1>12 DEF vars
  <1>. QED BY <1>1, <1>2, <1>3, <1>4, <1>5, <1>6, <1>7, <1>8, <1>9, <1>10, <1>11,
              <1>12 DEF Next, Verdict

\* A cut response is continued from exactly what the client has seen, after
\* any number of cuts, retries and member switches.
THEOREM Continues == Spec => []ContinuesWhatTheClientSaw
  <1>1. ShadowInv => ContinuesWhatTheClientSaw
    BY DEF ShadowInv, ContinuesWhatTheClientSaw
  <1>. QED BY <1>1, ShadowInit, ShadowStep, PTL DEF Spec

-----------------------------------------------------------------------------
(* KeepAlive: type correctness.                                            *)

\* TypeOK is kept by its part about the loop and its part about the pieces.
LoopInv ==
    /\ plan \in Plans
    /\ pc \in {"ready", "calling", "piping", "backoff", "done"}
    /\ member \in 1..plan.size
    /\ attempt \in 0..plan.budget
    /\ gone \in BOOLEAN
    /\ end \in Ends \cup {None}
    /\ told \in Seq((1..plan.size) \X {"failure", "success"})
    /\ pc = "backoff" => attempt < plan.budget
    /\ (pc # "done" /\ end # None) => gone

PiecesInv ==
    /\ {segment, seen, shadow, carried} \subseteq 0..MaxPieces
    /\ model \in {None, "concrete", "virtual"}

LEMMA LoopInit == Init => LoopInv
  <1>. SUFFICES ASSUME Init PROVE LoopInv
    OBVIOUS
  <1>1. plan \in Plans
    BY DEF Init
  <1>2. plan.size \in 1..MaxMembers /\ plan.budget \in 0..MaxBudget
    BY <1>1, PlanTypes
  <1>3. 1 \in 1..plan.size /\ 0 \in 0..plan.budget
    BY <1>2, KeepAliveAssumption
  <1>4. /\ member = 1 /\ attempt = 0 /\ pc = "ready" /\ gone = FALSE /\ end = None
        /\ told = <<>>
    BY DEF Init
  <1>5. told \in Seq((1..plan.size) \X {"failure", "success"})
    BY <1>4
  <1>. QED BY <1>1, <1>3, <1>4, <1>5 DEF LoopInv

LEMMA MemberFailsKeepsLoopInv ==
    ASSUME LoopInv, pc # "done", MemberFails, UNCHANGED <<plan, gone>>
    PROVE  LoopInv'
  <1>1. plan.size \in Nat /\ plan.budget \in Nat
    BY PlanTypes DEF LoopInv
  <1>2. told' \in Seq((1..plan.size) \X {"failure", "success"})
    BY DEF MemberFails, Failed, LoopInv
  <1>3. CASE member < plan.size
    <2>1. member' \in 1..plan.size /\ attempt' \in 0..plan.budget
      BY <1>1, <1>3 DEF MemberFails, LoopInv
    <2>2. pc' = "ready" /\ end' = end
      BY <1>3 DEF MemberFails
    <2>. QED BY <1>2, <2>1, <2>2 DEF LoopInv
  <1>4. CASE ~(member < plan.size)
    BY <1>2, <1>4 DEF MemberFails, Settle, RecordEnd, Ends, LoopInv
  <1>. QED BY <1>3, <1>4

LEMMA LoopStep == LoopInv /\ [Next]_vars => LoopInv'
  <1>. SUFFICES ASSUME LoopInv, [Next]_vars PROVE LoopInv'
    OBVIOUS
  <1>0. plan.size \in Nat /\ plan.budget \in Nat
    BY PlanTypes DEF LoopInv
  <1>1. CASE Call
    BY <1>1 DEF LoopInv, Call, Settle, RecordEnd, Ends
  <1>2. CASE CallThrows
    BY <1>2 DEF LoopInv, CallThrows, Settle, RecordEnd, Ends
  <1>3. ASSUME NEW status \in Status, CallStatus(status) PROVE LoopInv'
    <2>1. CASE status = "server" /\ BudgetLeft /\ ~gone
      BY <1>3, <2>1 DEF LoopInv, CallStatus, Backoff, BudgetLeft
    <2>2. CASE ~(status = "server" /\ BudgetLeft /\ ~gone) /\ ShouldFailover(status)
      BY <1>3, <2>2, MemberFailsKeepsLoopInv DEF CallStatus
    <2>3. CASE ~(status = "server" /\ BudgetLeft /\ ~gone) /\ ~ShouldFailover(status)
      BY <1>3, <2>3 DEF LoopInv, CallStatus, Settle, RecordEnd, Ends
    <2>. QED BY <2>1, <2>2, <2>3
  <1>4. CASE CallStream
    BY <1>4 DEF LoopInv, CallStream
  <1>5. CASE Piece
    BY <1>5 DEF LoopInv, Piece
  <1>6. CASE PipeOk
    <2>1. told' \in Seq((1..plan.size) \X {"failure", "success"})
      BY <1>6 DEF PipeOk, Answered, LoopInv
    <2>. QED BY <1>6, <2>1 DEF LoopInv, PipeOk, Settle, RecordEnd, Ends
  <1>7. CASE PipeRetryable \/ PipeResume
    <2>1. pc # "done" /\ UNCHANGED <<plan, gone>>
      BY <1>7 DEF PipeRetryable, PipeResume
    <2>2. CASE BudgetLeft
      BY <1>7, <2>1, <2>2 DEF LoopInv, PipeRetryable, PipeResume, Backoff, BudgetLeft
    <2>3. CASE ~BudgetLeft
      BY <1>7, <2>1, <2>3, MemberFailsKeepsLoopInv DEF PipeRetryable, PipeResume
    <2>. QED BY <2>2, <2>3
  <1>8. CASE PipeCut \/ PipeAborted
    BY <1>8 DEF LoopInv, PipeCut, PipeAborted, Settle, RecordEnd, Ends
  <1>9. CASE Wake
    BY <1>0, <1>9 DEF LoopInv, Wake, Settle, RecordEnd, Ends
  <1>10. CASE ClientLeaves
    BY <1>10 DEF LoopInv, ClientLeaves, RecordEnd, Ends
  <1>11. CASE UNCHANGED vars
    BY <1>11 DEF LoopInv, vars
  <1>. QED BY <1>1, <1>2, <1>3, <1>4, <1>5, <1>6, <1>7, <1>8, <1>9, <1>10,
              <1>11 DEF Next, Verdict

LEMMA PiecesStep == ShadowInv /\ PiecesInv /\ [Next]_vars => PiecesInv'
  <1>. SUFFICES ASSUME ShadowInv, PiecesInv, [Next]_vars PROVE PiecesInv'
    OBVIOUS
  <1>. USE KeepAliveAssumption
  <1>1. CASE Piece
    <2>1. segment <= seen /\ seen < MaxPieces
      BY <1>1 DEF ShadowInv, Piece
    <2>. QED BY <1>1, <2>1 DEF ShadowInv, PiecesInv, Piece
  <1>2. CASE PipeResume
    <2>1. shadow' = seen
      BY <1>2 DEF PipeResume, MergedShadow, ShadowInv
    <2>. QED BY <1>2, <2>1 DEF PipeResume, PiecesInv
  <1>3. CASE Call
    BY <1>3 DEF Call, PiecesInv
  <1>4. CASE CallStream
    BY <1>4 DEF CallStream, PiecesInv
  <1>5. CASE UNCHANGED <<segment, seen, shadow, carried, model>>
    BY <1>5 DEF PiecesInv
  <1>. QED BY <1>1, <1>2, <1>3, <1>4, <1>5 DEF Next, Verdict, CallThrows, CallStatus, PipeOk,
              PipeRetryable, PipeCut, PipeAborted, Wake, ClientLeaves, vars

\* Every reachable state of the loop is well-typed, the retry budget is never
\* overdrawn, and a request that is still under way has an open tracker entry
\* unless its client left.
THEOREM TypeCorrect == Spec => []TypeOK
  <1>1. Init => LoopInv /\ ShadowInv /\ PiecesInv
    BY LoopInit, ShadowInit, KeepAliveAssumption DEF Init, PiecesInv
  <1>2. LoopInv /\ ShadowInv /\ PiecesInv /\ [Next]_vars
           => LoopInv' /\ ShadowInv' /\ PiecesInv'
    BY LoopStep, ShadowStep, PiecesStep
  <1>3. LoopInv /\ PiecesInv => TypeOK
    BY DEF LoopInv, PiecesInv, TypeOK
  <1>. QED BY <1>1, <1>2, <1>3, PTL DEF Spec

-----------------------------------------------------------------------------
(* KeepAlive: the one end of a request.                                    *)

\* A request under way has no end but the abort of a departed client, and
\* the tables were told of failures only; what its settling makes of that is
\* the property.
EndInv ==
    /\ gone \in BOOLEAN
    /\ told \in Seq(Nat \X {"failure", "success"})
    /\ pc # "done" =>
          /\ end = IF gone THEN "aborted" ELSE None
          /\ \A i \in 1..Len(told) : told[i][2] = "failure"
    /\ SettledTruthfully

LEMMA EndInit == Init => EndInv
  <1>. SUFFICES ASSUME Init PROVE EndInv
    OBVIOUS
  <1>1. told \in Seq(Nat \X {"failure", "success"}) /\ Len(told) = 0
    BY DEF Init
  <1>2. \A i \in 1..Len(told) : told[i][2] = "failure"
    BY <1>1
  <1>3. pc = "ready" /\ gone = FALSE /\ end = None
    BY DEF Init
  <1>4. SettledTruthfully
    BY <1>3 DEF SettledTruthfully
  <1>. QED BY <1>1, <1>2, <1>3, <1>4 DEF EndInv

\* A member's failure is no answer.
LEMMA FailureIsNoAnswer ==
    ASSUME NEW m \in Nat, NEW n \in Nat, NEW s \in Seq(Nat \X {"failure", "success"}),
           \A i \in 1..Len(s) : s[i][2] = "failure"
    PROVE  /\ Append(s, Failed(m)) \in Seq(Nat \X {"failure", "success"})
           /\ \A i \in 1..Len(Append(s, Failed(m))) : Append(s, Failed(m))[i][2] = "failure"
           /\ Last(Append(s, Failed(m))) # Answered(n)
           /\ s # <<>> => Last(s) # Answered(n)
  <1>1. /\ Failed(m) \in Nat \X {"failure", "success"} /\ Failed(m)[2] = "failure"
        /\ Answered(n)[2] = "success"
    BY DEF Failed, Answered
  <1>. DEFINE t == Append(s, Failed(m))
  <1>2. t \in Seq(Nat \X {"failure", "success"}) /\ Len(t) = Len(s) + 1
    BY <1>1
  <1>3. ASSUME NEW i \in 1..Len(t) PROVE t[i][2] = "failure"
    <2>1. CASE i = Len(s) + 1
      BY <1>1, <2>1
    <2>2. CASE i \in 1..Len(s)
      BY <1>1, <2>2
    <2>. QED BY <1>2, <2>1, <2>2
  <1>4. Last(t) # Answered(n)
    BY <1>1, <1>2, <1>3 DEF Last
  <1>5. s # <<>> => Last(s) # Answered(n)
    BY <1>1 DEF Last
  <1>. QED BY <1>2, <1>3, <1>4, <1>5

LEMMA AnswerComesLast ==
    ASSUME NEW m \in Nat, NEW s \in Seq(Nat \X {"failure", "success"})
    PROVE  /\ Append(s, Answered(m)) \in Seq(Nat \X {"failure", "success"})
           /\ Append(s, Answered(m)) # <<>>
           /\ Last(Append(s, Answered(m))) = Answered(m)
  <1>1. Answered(m) \in Nat \X {"failure", "success"}
    BY DEF Answered
  <1>2. /\ Append(s, Answered(m)) \in Seq(Nat \X {"failure", "success"})
        /\ Len(Append(s, Answered(m))) = Len(s) + 1
        /\ Append(s, Answered(m))[Len(s) + 1] = Answered(m)
    BY <1>1
  <1>. QED BY <1>2 DEF Last

\* A request that settles with another end than "ok", without an answer.
LEMMA SettlesWell ==
    ASSUME EndInv, member \in Nat, pc # "done", UNCHANGED gone,
           NEW e \in Ends \ {"ok"}, Settle(e),
           told' = told \/ told' = Append(told, Failed(member)),
           e = "aborted" => gone
    PROVE  EndInv'
  <1>1. pc' = "done" /\ member' = member
    BY DEF Settle
  <1>2. end' = IF gone THEN "aborted" ELSE e
    BY KeepAliveAssumption DEF Settle, RecordEnd, EndInv, Ends
  <1>3. /\ told' \in Seq(Nat \X {"failure", "success"})
        /\ told' # <<>> => Last(told') # Answered(member)
    BY FailureIsNoAnswer DEF EndInv
  <1>4. SettledTruthfully'
    <2>1. end' # None /\ end' # "ok" /\ (gone' <=> end' = "aborted")
      BY <1>2, KeepAliveAssumption DEF Ends, EndInv
    <2>2. ~(told' # <<>> /\ Last(told') = (Answered(member))')
      BY <1>1, <1>3 DEF Answered
    <2>. QED BY <2>1, <2>2 DEF SettledTruthfully
  <1>. QED BY <1>1, <1>3, <1>4 DEF EndInv

\* A request that goes on.
LEMMA GoesOnWell ==
    ASSUME EndInv, member \in Nat, pc # "done", pc' # "done", UNCHANGED <<gone, end>>,
           told' = told \/ told' = Append(told, Failed(member))
    PROVE  EndInv'
  <1>1. /\ told' \in Seq(Nat \X {"failure", "success"})
        /\ \A i \in 1..Len(told') : told'[i][2] = "failure"
    BY FailureIsNoAnswer DEF EndInv
  <1>. QED BY <1>1 DEF EndInv, SettledTruthfully

LEMMA MemberFailsWell ==
    ASSUME EndInv, member \in Nat, pc # "done", MemberFails, UNCHANGED gone
    PROVE  EndInv'
  <1>1. CASE member < plan.size
    BY <1>1, GoesOnWell DEF MemberFails
  <1>2. CASE ~(member < plan.size)
    BY <1>2, SettlesWell DEF MemberFails, Ends
  <1>. QED BY <1>1, <1>2

LEMMA EndStep == LoopInv /\ EndInv /\ [Next]_vars => EndInv'
  <1>. SUFFICES ASSUME LoopInv, EndInv, [Next]_vars PROVE EndInv'
    OBVIOUS
  <1>0. member \in Nat
    BY PlanTypes DEF LoopInv
  <1>1. CASE Call
    <2>1. CASE gone
      BY <1>0, <1>1, <2>1, SettlesWell DEF Call, Ends
    <2>2. CASE ~gone
      BY <1>0, <1>1, <2>2, GoesOnWell DEF Call
    <2>. QED BY <2>1, <2>2
  <1>2. CASE CallThrows
    BY <1>0, <1>2, SettlesWell DEF CallThrows, Ends
  <1>3. ASSUME NEW status \in Status, CallStatus(status) PROVE EndInv'
    <2>1. pc # "done" /\ UNCHANGED gone
      BY <1>3 DEF CallStatus
    <2>2. CASE Backoff
      BY <1>0, <2>1, <2>2, GoesOnWell DEF Backoff
    <2>3. CASE MemberFails
      BY <1>0, <2>1, <2>3, MemberFailsWell
    <2>4. CASE Settle("rejected") /\ UNCHANGED told
      BY <1>0, <2>1, <2>4, SettlesWell DEF Ends
    <2>. QED BY <1>3, <2>2, <2>3, <2>4 DEF CallStatus
  <1>4. CASE CallStream \/ Piece
    BY <1>0, <1>4, GoesOnWell DEF CallStream, Piece
  <1>5. CASE PipeOk
    <2>1. pc' = "done" /\ member' = member /\ told' = Append(told, Answered(member))
      BY <1>5 DEF PipeOk, Settle
    <2>2. ~gone' /\ gone' \in BOOLEAN /\ end' = "ok"
      BY <1>5, KeepAliveAssumption DEF PipeOk, Settle, RecordEnd, EndInv, Ends
    <2>3. told' \in Seq(Nat \X {"failure", "success"}) /\ told' # <<>>
          /\ Last(told') = (Answered(member))'
      BY <1>0, <2>1, AnswerComesLast DEF EndInv, Answered
    <2>. QED BY <2>1, <2>2, <2>3, KeepAliveAssumption DEF EndInv, SettledTruthfully, Ends
  <1>6. CASE PipeRetryable \/ PipeResume
    <2>1. pc # "done" /\ UNCHANGED gone
      BY <1>6 DEF PipeRetryable, PipeResume
    <2>2. CASE Backoff
      BY <1>0, <2>1, <2>2, GoesOnWell DEF Backoff
    <2>3. CASE MemberFails
      BY <1>0, <2>1, <2>3, MemberFailsWell
    <2>. QED BY <1>6, <2>2, <2>3 DEF PipeRetryable, PipeResume
  <1>7. CASE PipeCut
    BY <1>0, <1>7, SettlesWell DEF PipeCut, Ends
  <1>8. CASE PipeAborted
    BY <1>0, <1>8, SettlesWell DEF PipeAborted, Ends
  <1>9. CASE Wake
    <2>1. CASE gone
      BY <1>0, <1>9, <2>1, SettlesWell DEF Wake, Ends
    <2>2. CASE ~gone
      BY <1>0, <1>9, <2>2, GoesOnWell DEF Wake
    <2>. QED BY <2>1, <2>2
  <1>10. CASE ClientLeaves
    <2>1. gone' /\ gone' \in BOOLEAN /\ end' = "aborted" /\ pc' = pc /\ pc # "done" /\ told' = told
      BY <1>10 DEF ClientLeaves, RecordEnd, EndInv
    <2>. QED BY <2>1 DEF EndInv, SettledTruthfully
  <1>11. CASE UNCHANGED vars
    BY <1>11 DEF EndInv, SettledTruthfully, Answered, vars
  <1>. QED BY <1>1, <1>2, <1>3, <1>4, <1>5, <1>6, <1>7, <1>8, <1>9, <1>10,
              <1>11 DEF Next, Verdict

\* "A tracker request records exactly one end": whatever calls, pipes, waits and
\* the client did, a settled request has an end, it is the abort just when
\* the client left first, and "ok" just when the tables were told of the answer.
THEOREM EndsTruthfully == Spec => []SettledTruthfully
  <1>1. Init => LoopInv /\ EndInv
    BY LoopInit, EndInit
  <1>2. LoopInv /\ EndInv /\ [Next]_vars => LoopInv' /\ EndInv'
    BY LoopStep, EndStep
  <1>3. EndInv => SettledTruthfully
    BY DEF EndInv
  <1>. QED BY <1>1, <1>2, <1>3, PTL DEF Spec

-----------------------------------------------------------------------------
(* KeepAlive: refinement.                                                  *)

\* A member that failed for good: the walk goes on, or is over.
LEMMA MemberFailsRefines ==
    ASSUME LoopInv, pc # "done", MemberFails, plan' = plan
    PROVE  Walk!Fault
  <1>1. member \in Nat /\ member # 0 /\ plan.size \in Nat
    BY PlanTypes DEF LoopInv
  <1>. QED BY <1>1 DEF MemberFails, Settle, Walk!Fault, Walk!Over, Walk!Failed, Failed

LEMMA StepRefines == LoopInv /\ [Next]_vars => [Walk!WalkNext]_(Walk!walkVars)
  <1>. SUFFICES ASSUME LoopInv, [Next]_vars
                PROVE  [Walk!WalkNext]_(Walk!walkVars)
    OBVIOUS
  <1>0. member \in Nat /\ member # 0
    BY PlanTypes DEF LoopInv
  <1>. DEFINE Stays == /\ UNCHANGED <<plan, member, told>>
                       /\ pc # "done" /\ pc' # "done"
              Stops == pc # "done" /\ pc' = "done" /\ UNCHANGED <<plan, told>>
  <1>1. CASE Stays
    BY <1>1 DEF Walk!walkVars
  <1>2. CASE Stops
    BY <1>0, <1>2 DEF Walk!WalkNext, Walk!Leave, Walk!Over
  <1>3. CASE Call \/ CallThrows \/ CallStream \/ Piece \/ PipeCut \/ PipeAborted \/ ClientLeaves
    <2>1. Stays \/ Stops
      BY <1>3 DEF Call, CallThrows, CallStream, Piece, PipeCut, PipeAborted, ClientLeaves, Settle
    <2>. QED BY <1>1, <1>2, <2>1
  <1>4. ASSUME NEW status \in Status, CallStatus(status)
        PROVE  [Walk!WalkNext]_(Walk!walkVars)
    <2>1. Stays \/ Stops \/ MemberFails
      BY <1>4 DEF CallStatus, Backoff, Settle
    <2>2. pc # "done" /\ plan' = plan
      BY <1>4 DEF CallStatus
    <2>. QED BY <1>1, <1>2, <2>1, <2>2, MemberFailsRefines DEF Walk!WalkNext
  <1>5. CASE PipeRetryable \/ PipeResume
    <2>1. Stays \/ MemberFails
      BY <1>5 DEF PipeRetryable, PipeResume, Backoff
    <2>2. pc # "done" /\ plan' = plan
      BY <1>5 DEF PipeRetryable, PipeResume
    <2>. QED BY <1>1, <2>1, <2>2, MemberFailsRefines DEF Walk!WalkNext
  <1>6. CASE PipeOk
    BY <1>0, <1>6 DEF PipeOk, Settle, Answered, Walk!WalkNext, Walk!Answer, Walk!Over,
       Walk!Answered
  <1>7. CASE Wake
    <2>1. Stays \/ Stops
      BY <1>7 DEF Wake, Settle
    <2>. QED BY <1>1, <1>2, <2>1
  <1>8. CASE UNCHANGED vars
    BY <1>8 DEF vars, Walk!walkVars
  <1>. QED BY <1>3, <1>4, <1>5, <1>6, <1>7, <1>8 DEF Next, Verdict

\* The loop tells the routing tables of its members exactly as a walk does:
\* in plan order, each failed member once, and nothing after an answer.  (That
\* every request is settled, the walk's fairness, is left to model checking.)
THEOREM LoopIsAWalk == Spec => Walk!WalkInit /\ [][Walk!WalkNext]_(Walk!walkVars)
  <1>1. Init => LoopInv /\ Walk!WalkInit
    <2>. SUFFICES ASSUME Init PROVE LoopInv /\ Walk!WalkInit
      OBVIOUS
    <2>1. plan.size \in 1..MaxMembers
      BY PlanTypes DEF Init
    <2>. QED BY <2>1, LoopInit DEF Init, Walk!WalkInit
  <1>2. LoopInv /\ [Next]_vars => LoopInv' /\ [Walk!WalkNext]_(Walk!walkVars)
    BY LoopStep, StepRefines
  <1>. QED BY <1>1, <1>2, PTL DEF Spec

-----------------------------------------------------------------------------
(* StreamGuard: frames and the calls in them.                               *)

\* What is tracked of some frames is what is tracked of each.
LEMMA FrameByFrame ==
    ASSUME NEW F, NEW c
    PROVE  /\ c \in Tracked(F) <=> \E f \in F : c \in Tracked({f})
           /\ Named(F, c) <=> \E f \in F : Named({f}, c)
           /\ ArgsOf(F, c) = UNION {ArgsOf({f}, c) : f \in F}
  <1>1. \A d : d \in DeltasOf(F, c) <=> \E f \in F : d \in DeltasOf({f}, c)
    BY DEF DeltasOf
  <1>2. c \in Tracked(F) <=> \E f \in F : c \in Tracked({f})
    BY <1>1 DEF Tracked
  <1>3. Named(F, c) <=> \E f \in F : Named({f}, c)
    BY <1>1 DEF Named
  <1>4. \A p : p \in ArgsOf(F, c) <=> \E f \in F : p \in ArgsOf({f}, c)
    BY <1>1 DEF ArgsOf
  <1>5. ArgsOf(F, c) = UNION {ArgsOf({f}, c) : f \in F}
    BY <1>4
  <1>. QED BY <1>2, <1>3, <1>5

LEMMA FramesTogether ==
    ASSUME NEW F, NEW G, NEW c
    PROVE  /\ c \in Tracked(F \cup G) <=> c \in Tracked(F) \/ c \in Tracked(G)
           /\ Named(F \cup G, c) <=> Named(F, c) \/ Named(G, c)
           /\ ArgsOf(F \cup G, c) = ArgsOf(F, c) \cup ArgsOf(G, c)
  <1>1. DeltasOf(F \cup G, c) = DeltasOf(F, c) \cup DeltasOf(G, c)
    BY DEF DeltasOf
  <1>. QED BY <1>1 DEF Tracked, Named, ArgsOf

\* The shape of a frame.
LEMMA FrameShape ==
    ASSUME NEW f \in Frames(Nat)
    PROVE  /\ f.at \in Nat
           /\ f.calls = <<>> \/ (\E d \in Deltas : f.calls = <<d>>) \/ f.calls \in Batches
           /\ f.calls = <<>> <=> f.kind # "calls"
  <1>1. \A d \in Deltas : <<d>> # <<>>
    OBVIOUS
  <1>2. \A b \in Batches : b # <<>>
    <2>. SUFFICES ASSUME NEW b \in Batches PROVE b # <<>>
      OBVIOUS
    <2>1. PICK x \in Deltas, y \in Deltas : b = <<x, y>>
      BY DEF Batches
    <2>. QED BY <2>1
  <1>. QED BY <1>1, <1>2 DEF Frames, Plain

LEMMA FrameCalls ==
    ASSUME NEW f \in Frames(Nat)
    PROVE  /\ f.calls = <<>> =>
                \A c : c \notin Tracked({f}) /\ ~Named({f}, c) /\ ArgsOf({f}, c) = {}
           /\ f.calls # <<>> =>
                /\ f.calls[1] \in Deltas
                /\ f.calls[1].index \in Calls /\ f.calls[1].index \in Tracked({f})
           /\ \A c : Named({f}, c) => c \in Tracked({f})
           /\ \A c : ArgsOf({f}, c) \in SUBSET Pieces
           /\ \A c \in Tracked({f}) :
                /\ c \in Calls
                /\ c # f.calls[1].index =>
                     /\ f.calls[1].index < c /\ Len(f.calls) > 1
                     /\ Named({f}, c) /\ ArgsOf({f}, c) \in {{}, {"whole"}}
  <1>1. \A c : DeltasOf({f}, c) = {d \in Range(f.calls) : d.index = c}
    BY DEF DeltasOf
  <1>2. \A d \in Deltas : d.index \in Calls /\ d.named \in BOOLEAN /\ d.args \in SUBSET Pieces
    BY DEF Deltas, Pieces
  <1>3. CASE f.calls = <<>>
    <2>1. Range(f.calls) = {}
      BY <1>3 DEF Range
    <2>. QED BY <1>1, <1>3, <2>1 DEF Tracked, Named, ArgsOf
  <1>4. CASE \E d \in Deltas : f.calls = <<d>>
    <2>1. PICK d \in Deltas : f.calls = <<d>>
      BY <1>4
    <2>2. Range(f.calls) = {d} /\ f.calls[1] = d /\ f.calls # <<>>
      BY <2>1 DEF Range
    <2>3. \A c : DeltasOf({f}, c) = IF d.index = c THEN {d} ELSE {}
      BY <1>1, <2>2
    <2>. QED BY <1>2, <2>2, <2>3 DEF Tracked, Named, ArgsOf
  <1>5. CASE f.calls \in Batches
    <2>1. PICK a \in Deltas, b \in Deltas :
            /\ f.calls = <<a, b>> /\ a.index < b.index /\ a.named /\ b.named
            /\ b.args \in {{}, {"whole"}}
      BY <1>5 DEF Batches
    <2>2. /\ Range(f.calls) = {a, b} /\ f.calls[1] = a /\ f.calls # <<>> /\ Len(f.calls) > 1
          /\ a.index # b.index
      <3>1. DOMAIN f.calls = 1..2 /\ f.calls[1] = a /\ f.calls[2] = b /\ Len(f.calls) = 2
        BY <2>1
      <3>2. Range(f.calls) = {a, b}
        BY <3>1 DEF Range
      <3>3. a.index # b.index
        <4>1. a.index \in Nat /\ b.index \in Nat
          BY <1>2, GuardAssumption
        <4>. QED BY <2>1, <4>1
      <3>. QED BY <2>1, <3>1, <3>2, <3>3
    <2>3. \A c : DeltasOf({f}, c) = IF a.index = c THEN {a} ELSE IF b.index = c THEN {b} ELSE {}
      BY <1>1, <2>2
    <2>4. \A c : Tracked({f}) = {a.index, b.index}
      BY <1>2, <2>3, <2>2 DEF Tracked
    <2>5. \A c : ArgsOf({f}, c) = IF a.index = c THEN a.args ELSE IF b.index = c THEN b.args ELSE {}
      BY <2>3 DEF ArgsOf
    <2>6. \A c : Named({f}, c) <=> c \in {a.index, b.index}
      BY <2>1, <2>2, <2>3 DEF Named
    <2>7. \A c : ArgsOf({f}, c) \in SUBSET Pieces
      BY <1>2, <2>5
    <2>8. ASSUME NEW c \in Tracked({f}), c # f.calls[1].index
          PROVE  /\ f.calls[1].index < c /\ Len(f.calls) > 1
                 /\ Named({f}, c) /\ ArgsOf({f}, c) \in {{}, {"whole"}}
      <3>1. c = b.index
        BY <2>2, <2>4, <2>8
      <3>2. ArgsOf({f}, c) = b.args
        BY <2>2, <2>5, <3>1
      <3>. QED BY <2>1, <2>2, <2>6, <3>1, <3>2
    <2>9. f.calls[1].index \in Tracked({f}) /\ \A c \in Tracked({f}) : c \in Calls
      BY <1>2, <2>2, <2>4
    <2>10. \A c : Named({f}, c) => c \in Tracked({f})
      BY <2>4, <2>6
    <2>. QED BY <1>2, <2>2, <2>7, <2>8, <2>9, <2>10
  <1>. QED BY <1>3, <1>4, <1>5, FrameShape

LEMMA OneFrameMore ==
    ASSUME NEW F, NEW f, NEW c
    PROVE  /\ c \in Tracked(F \cup {f}) <=> c \in Tracked(F) \/ c \in Tracked({f})
           /\ Named(F \cup {f}, c) <=> Named(F, c) \/ Named({f}, c)
           /\ ArgsOf(F \cup {f}, c) = ArgsOf(F, c) \cup ArgsOf({f}, c)
  <1>. DEFINE G == {f}
  <1>. HIDE DEF G
  <1>1. /\ c \in Tracked(F \cup G) <=> c \in Tracked(F) \/ c \in Tracked(G)
        /\ Named(F \cup G, c) <=> Named(F, c) \/ Named(G, c)
        /\ ArgsOf(F \cup G, c) = ArgsOf(F, c) \cup ArgsOf(G, c)
    BY FramesTogether
  <1>. QED BY <1>1 DEF G

\* What holds of no frame.
LEMMA Untracked ==
    ASSUME NEW F \in SUBSET Frames(Nat), NEW c, c \notin Tracked(F)
    PROVE  ~Named(F, c) /\ (c \in Calls => ArgsOf(F, c) = {})
  <1>1. \A f \in F : ~Named({f}, c)
    BY FrameByFrame, FrameCalls
  <1>2. ~Named(F, c)
    BY <1>1, FrameByFrame
  <1>3. c \in Calls => DeltasOf(F, c) = {}
    BY DEF Tracked
  <1>. QED BY <1>2, <1>3 DEF ArgsOf

\* Sequences of frames.
LEMMA AppendFrame ==
    ASSUME NEW S, NEW s \in Seq(S), NEW f \in S
    PROVE  Append(s, f) \in Seq(S) /\ Range(Append(s, f)) = Range(s) \cup {f}
  <1>1. /\ Append(s, f) \in Seq(S) /\ DOMAIN Append(s, f) = 1..(Len(s) + 1) /\ DOMAIN s = 1..Len(s)
        /\ Len(s) \in Nat /\ Append(s, f)[Len(s) + 1] = f
        /\ \A i \in 1..Len(s) : Append(s, f)[i] = s[i]
    OBVIOUS
  <1>2. \A i \in 1..(Len(s) + 1) : i \in 1..Len(s) \/ i = Len(s) + 1
    BY <1>1
  <1>. QED BY <1>1, <1>2 DEF Range

LEMMA JoinFrames ==
    ASSUME NEW S, NEW s \in Seq(S), NEW t \in Seq(S)
    PROVE  s \o t \in Seq(S) /\ Range(s \o t) = Range(s) \cup Range(t)
  <1>1. /\ s \o t \in Seq(S) /\ DOMAIN (s \o t) = 1..(Len(s) + Len(t))
        /\ DOMAIN s = 1..Len(s) /\ DOMAIN t = 1..Len(t) /\ Len(s) \in Nat /\ Len(t) \in Nat
        /\ \A i \in 1..Len(s) : (s \o t)[i] = s[i]
        /\ \A i \in 1..Len(t) : (s \o t)[Len(s) + i] = t[i]
    OBVIOUS
  <1>2. Range(s \o t) \subseteq Range(s) \cup Range(t)
    <2>. SUFFICES ASSUME NEW i \in 1..(Len(s) + Len(t))
                  PROVE  (s \o t)[i] \in Range(s) \cup Range(t)
      BY <1>1 DEF Range
    <2>1. CASE i <= Len(s)
      <3>1. i \in 1..Len(s)
        BY <1>1, <2>1
      <3>. QED BY <1>1, <3>1 DEF Range
    <2>2. CASE i > Len(s)
      <3>1. i - Len(s) \in 1..Len(t) /\ i = Len(s) + (i - Len(s))
        BY <1>1, <2>2
      <3>2. (s \o t)[i] = t[i - Len(s)]
        BY <1>1, <3>1
      <3>. QED BY <1>1, <3>1, <3>2 DEF Range
    <2>. QED BY <1>1, <2>1, <2>2
  <1>3. \A i \in 1..Len(s) : i \in 1..(Len(s) + Len(t))
    BY <1>1
  <1>4. \A j \in 1..Len(t) : Len(s) + j \in 1..(Len(s) + Len(t))
    BY <1>1
  <1>5. Range(s) \cup Range(t) \subseteq Range(s \o t)
    BY <1>1, <1>3, <1>4 DEF Range
  <1>. QED BY <1>1, <1>2, <1>5

LEMMA AppendInOrder ==
    ASSUME NEW s \in Seq(Frames(Nat)), NEW f \in Frames(Nat), InOrder(s),
           f.kind # "ping" => \A g \in Range(s) : g.kind # "ping" => g.at < f.at
    PROVE  InOrder(Append(s, f))
  <1>1. /\ DOMAIN Append(s, f) = 1..(Len(s) + 1) /\ DOMAIN s = 1..Len(s)
        /\ Len(s) \in Nat /\ Append(s, f)[Len(s) + 1] = f
        /\ \A i \in 1..Len(s) : Append(s, f)[i] = s[i]
    OBVIOUS
  <1>2. SUFFICES ASSUME NEW i \in 1..(Len(s) + 1), NEW j \in 1..(Len(s) + 1), i < j,
                        "ping" \notin {Append(s, f)[i].kind, Append(s, f)[j].kind}
                 PROVE  Append(s, f)[i].at < Append(s, f)[j].at
    BY <1>1 DEF InOrder
  <1>3. i \in 1..Len(s) /\ Append(s, f)[i] = s[i]
    BY <1>1, <1>2
  <1>4. s[i] \in Range(s)
    BY <1>1, <1>3 DEF Range
  <1>5. CASE j = Len(s) + 1
    BY <1>1, <1>2, <1>3, <1>4, <1>5
  <1>6. CASE j \in 1..Len(s)
    BY <1>1, <1>2, <1>3, <1>6 DEF InOrder
  <1>. QED BY <1>1, <1>5, <1>6

LEMMA JoinInOrder ==
    ASSUME NEW s \in Seq(Frames(Nat)), NEW t \in Seq(Frames(Nat)), InOrder(s), InOrder(t),
           \A f \in Range(s), g \in Range(t) :
               "ping" \notin {f.kind, g.kind} => f.at < g.at
    PROVE  InOrder(s \o t)
  <1>1. /\ DOMAIN (s \o t) = 1..(Len(s) + Len(t))
        /\ DOMAIN s = 1..Len(s) /\ DOMAIN t = 1..Len(t) /\ Len(s) \in Nat /\ Len(t) \in Nat
        /\ \A i \in 1..Len(s) : (s \o t)[i] = s[i]
        /\ \A i \in 1..(Len(s) + Len(t)) : i > Len(s) => (s \o t)[i] = t[i - Len(s)]
    OBVIOUS
  <1>2. SUFFICES ASSUME NEW i \in 1..(Len(s) + Len(t)), NEW j \in 1..(Len(s) + Len(t)), i < j,
                        "ping" \notin {(s \o t)[i].kind, (s \o t)[j].kind}
                 PROVE  (s \o t)[i].at < (s \o t)[j].at
    BY <1>1 DEF InOrder
  <1>3. CASE j <= Len(s)
    <2>1. i \in 1..Len(s) /\ j \in 1..Len(s)
      BY <1>1, <1>2, <1>3
    <2>. QED BY <1>1, <1>2, <2>1 DEF InOrder
  <1>4. CASE i > Len(s)
    <2>1. i - Len(s) \in 1..Len(t) /\ j - Len(s) \in 1..Len(t) /\ i - Len(s) < j - Len(s) /\ j > Len(s)
      BY <1>1, <1>2, <1>4
    <2>2. (s \o t)[i] = t[i - Len(s)] /\ (s \o t)[j] = t[j - Len(s)]
      BY <1>1, <1>2, <1>4, <2>1
    <2>. QED BY <1>1, <1>2, <2>1, <2>2 DEF InOrder
  <1>5. CASE i <= Len(s) /\ j > Len(s)
    <2>1. i \in 1..Len(s) /\ j - Len(s) \in 1..Len(t)
      BY <1>1, <1>2, <1>5
    <2>2. (s \o t)[i] = s[i] /\ (s \o t)[j] = t[j - Len(s)]
      BY <1>1, <1>2, <1>5, <2>1
    <2>3. s[i] \in Range(s) /\ t[j - Len(s)] \in Range(t)
      BY <1>1, <2>1 DEF Range
    <2>. QED BY <1>2, <2>2, <2>3
  <1>. QED BY <1>1, <1>3, <1>4, <1>5

-----------------------------------------------------------------------------
(* StreamGuard: what an upstream sends.                                     *)

Earlier(F, f) == {g \in F : g.at < f.at}

\* A frame that may follow these: it names no call again, and adds nothing to a
\* call that is complete.
Fits(F, f) ==
    /\ \A g \in F : g.at < f.at
    /\ \A c \in Tracked({f}) : /\ Named({f}, c) => ~Named(F, c)
                               /\ ~(Named(F, c) /\ Parses(ArgsOf(F, c)))

WellSent(F) ==
    /\ F \subseteq Frames(Nat)
    /\ \A f, g \in F : f.at = g.at => f = g
    /\ \A f \in F : Fits(Earlier(F, f), f)

\* A call is named by one frame.
LEMMA NamedOnce ==
    ASSUME NEW F, WellSent(F), NEW f \in F, NEW g \in F, NEW c, Named({f}, c), Named({g}, c)
    PROVE  f = g
  <1>1. \A x, y \in F : x.at < y.at /\ Named({x}, c) /\ Named({y}, c) => FALSE
    <2>. SUFFICES ASSUME NEW x \in F, NEW y \in F, x.at < y.at, Named({x}, c), Named({y}, c)
                  PROVE  FALSE
      OBVIOUS
    <2>1. x \in Earlier(F, y)
      BY DEF Earlier
    <2>2. Named(Earlier(F, y), c)
      BY <2>1, FrameByFrame
    <2>3. y \in Frames(Nat)
      BY DEF WellSent
    <2>4. c \in Tracked({y})
      BY <2>3, FrameCalls
    <2>. QED BY <2>2, <2>4 DEF WellSent, Fits
  <1>2. f.at \in Nat /\ g.at \in Nat
    BY FrameShape DEF WellSent
  <1>3. f.at = g.at
    BY <1>1, <1>2
  <1>. QED BY <1>3 DEF WellSent

\* One more frame.
LEMMA SendMore ==
    ASSUME NEW F, WellSent(F), NEW f \in Frames(Nat), Fits(F, f)
    PROVE  WellSent(F \cup {f})
  <1>1. f.at \in Nat /\ \A g \in F : g.at \in Nat /\ g.at < f.at
    BY FrameShape DEF WellSent, Fits
  <1>2. \A g, h \in F \cup {f} : g.at = h.at => g = h
    BY <1>1 DEF WellSent
  <1>3. Earlier(F \cup {f}, f) = F
    BY <1>1 DEF Earlier
  <1>4. \A g \in F : Earlier(F \cup {f}, g) = Earlier(F, g)
    BY <1>1 DEF Earlier
  <1>. QED BY <1>2, <1>3, <1>4 DEF WellSent

-----------------------------------------------------------------------------
(* StreamGuard: what the client has been shown.  s is the state of the      *)
(* route, G the frames it has taken, P the calls of the earlier segment.    *)

Routes == [open : OpenCalls \cup {None}, completed : Seq(ToolCalls), prior : SUBSET ToolCalls,
           out : Seq(Frames(Nat))]

\* The frames withheld with the open call.
Mine(s) == IF s.open = None THEN {} ELSE Range(s.open.withheld)

OnlyWhole(F) ==
    \A c \in Tracked(F) : Named(F, c) /\ (ArgsOf(F, c) = {} \/ Parses(ArgsOf(F, c)))

OnlyOnce(F, P) ==
    \A call \in P : call[1] \in Tracked(F) /\ ArgsOf(F, call[1]) = call[2] => InBatch(F, call[1])

\* An open call is what the frames withheld with it say, and they come after
\* all the client has been shown.
OpenInv(s) ==
    s.open # None =>
        /\ InOrder(s.open.withheld)
        /\ \A f \in Mine(s) : /\ f.kind # "ping"
                              /\ f.calls # <<>> => f.calls[1].index = s.open.index
                              /\ \A g \in Range(s.out) : g.kind # "ping" => g.at < f.at
        /\ s.open.named = Named(Mine(s), s.open.index)
        /\ s.open.args = ArgsOf(Mine(s), s.open.index)

\* A call of the earlier segment that no longer counts as such was dropped, with
\* the frame that named it.
PriorInv(s, G, P) ==
    /\ s.prior \subseteq P
    /\ \A call \in P \ s.prior :
         \E f \in G \ (Range(s.out) \cup Mine(s)) : Named({f}, call[1])

ClientInv(s, G, P) ==
    /\ s \in Routes /\ P \subseteq ToolCalls
    /\ Range(s.out) \cup Mine(s) \subseteq G
    /\ InOrder(s.out)
    /\ OpenInv(s)
    /\ OnlyWhole(Range(s.out))
    /\ OnlyOnce(Range(s.out), P)
    /\ PriorInv(s, G, P)

\* None is no open call.
LEMMA NoneIsClosed == None \notin OpenCalls
  BY GuardAssumption

LEMMA OpenIsTyped ==
    ASSUME NEW s \in Routes, s.open # None
    PROVE  /\ s.open \in OpenCalls
           /\ s.open.index \in Calls /\ s.open.named \in BOOLEAN /\ s.open.args \in SUBSET Pieces
           /\ s.open.withheld \in Seq(Frames(Nat))
  <1>1. s.open \in OpenCalls
    BY DEF Routes
  <1>. QED BY <1>1 DEF OpenCalls

\* What Close does.
LEMMA CloseCases ==
    ASSUME NEW s \in Routes, s.open # None, NEW final \in BOOLEAN,
           NEW call, call = ToolCall(s.open.index, s.open.args)
    PROVE  /\ Close(s, final) \in Routes /\ Close(s, final).open = None
           /\ ~Whole(s.open, final) =>
                Close(s, final).out = s.out /\ Close(s, final).prior = s.prior
           /\ Whole(s.open, final) /\ call \in s.prior =>
                Close(s, final).out = s.out /\ Close(s, final).prior = s.prior \ {call}
           /\ Whole(s.open, final) /\ call \notin s.prior =>
                /\ Close(s, final).out = s.out \o s.open.withheld
                /\ Close(s, final).prior = s.prior
  <1>1. /\ s.open.index \in Calls /\ s.open.args \in SUBSET Pieces
        /\ s.open.withheld \in Seq(Frames(Nat))
    BY OpenIsTyped
  <1>2. call \in ToolCalls
    BY <1>1 DEF ToolCall, ToolCalls
  <1>3. /\ s.completed \in Seq(ToolCalls) /\ s.prior \in SUBSET ToolCalls /\ s.out \in Seq(Frames(Nat))
        /\ s = [open |-> s.open, completed |-> s.completed, prior |-> s.prior, out |-> s.out]
    BY DEF Routes
  <1>4. CASE ~Whole(s.open, final)
    <2>1. Close(s, final) = [s EXCEPT !.open = None]
      BY <1>4 DEF Close
    <2>2. Close(s, final)
             = [open |-> None, completed |-> s.completed, prior |-> s.prior, out |-> s.out]
      BY <2>1, <1>3
    <2>. QED BY <1>3, <1>4, <2>2 DEF Routes
  <1>5. CASE Whole(s.open, final) /\ call \in s.prior
    <2>1. Close(s, final) = [[s EXCEPT !.open = None] EXCEPT !.prior = s.prior \ {call}]
      BY <1>5, <1>3 DEF Close, Replayed
    <2>2. Close(s, final) = [open |-> None, completed |-> s.completed,
                             prior |-> s.prior \ {call}, out |-> s.out]
      BY <2>1, <1>3
    <2>. QED BY <1>3, <1>5, <2>2 DEF Routes
  <1>6. CASE Whole(s.open, final) /\ call \notin s.prior
    <2>1. Close(s, final) = [[s EXCEPT !.open = None] EXCEPT
                                !.completed = Append(s.completed, call),
                                !.out = s.out \o s.open.withheld]
      BY <1>6, <1>3 DEF Close, Replayed
    <2>2. Close(s, final) = [open |-> None, completed |-> Append(s.completed, call),
                             prior |-> s.prior, out |-> s.out \o s.open.withheld]
      BY <2>1, <1>3
    <2>3. Append(s.completed, call) \in Seq(ToolCalls) /\ s.out \o s.open.withheld \in Seq(Frames(Nat))
      BY <1>1, <1>2, <1>3
    <2>. QED BY <1>3, <1>6, <2>2, <2>3 DEF Routes
  <1>. QED BY <1>4, <1>5, <1>6

\* The calls that come to the client with an open call that is whole are whole,
\* and it has not heard of them.
LEMMA WholeBlock ==
    ASSUME NEW s, NEW G, NEW P, WellSent(G), ClientInv(s, G, P), s.open # None,
           NEW final \in BOOLEAN, Whole(s.open, final)
    PROVE  \A c \in Tracked(Mine(s)) :
              /\ Named(Mine(s), c) /\ (ArgsOf(Mine(s), c) = {} \/ Parses(ArgsOf(Mine(s), c)))
              /\ c \notin Tracked(Range(s.out))
              /\ c # s.open.index => InBatch(Mine(s), c)
  <1>. DEFINE W == Mine(s)
  <1>0. /\ W \subseteq G /\ Range(s.out) \subseteq G /\ G \subseteq Frames(Nat)
        /\ OpenInv(s) /\ OnlyWhole(Range(s.out))
    BY DEF ClientInv, WellSent
  <1>1. SUFFICES ASSUME NEW c \in Tracked(W)
                 PROVE  /\ Named(W, c) /\ (ArgsOf(W, c) = {} \/ Parses(ArgsOf(W, c)))
                        /\ c \notin Tracked(Range(s.out))
                        /\ c # s.open.index => InBatch(W, c)
    OBVIOUS
  <1>. HIDE DEF W
  <1>2. ASSUME c = s.open.index
        PROVE  Named(W, c) /\ (ArgsOf(W, c) = {} \/ Parses(ArgsOf(W, c)))
    BY <1>0, <1>2 DEF OpenInv, Whole, W
  <1>3. ASSUME c # s.open.index
        PROVE  /\ Named(W, c) /\ (ArgsOf(W, c) = {} \/ Parses(ArgsOf(W, c)))
               /\ InBatch(W, c)
    <2>1. \A f \in W : c \in Tracked({f}) =>
              Named({f}, c) /\ ArgsOf({f}, c) \in {{}, {"whole"}} /\ f.calls[1].index # c
      <3>. SUFFICES ASSUME NEW f \in W, c \in Tracked({f})
                    PROVE  Named({f}, c) /\ ArgsOf({f}, c) \in {{}, {"whole"}} /\ f.calls[1].index # c
        OBVIOUS
      <3>1. f \in Frames(Nat)
        BY <1>0 DEF W
      <3>2. f.calls # <<>>
        BY <3>1, FrameCalls
      <3>3. f.calls[1].index = s.open.index
        BY <1>0, <3>2 DEF OpenInv, W
      <3>. QED BY <1>3, <3>1, <3>3, FrameCalls
    <2>2. PICK f \in W : c \in Tracked({f})
      BY <1>1, FrameByFrame
    <2>3. \A g \in W : c \in Tracked({g}) => g = f
      BY <1>0, <2>1, <2>2, NamedOnce DEF W
    <2>4. \A g \in W : g # f => ArgsOf({g}, c) = {}
      <3>. SUFFICES ASSUME NEW g \in W, g # f PROVE ArgsOf({g}, c) = {}
        OBVIOUS
      <3>1. {g} \in SUBSET Frames(Nat) /\ c \notin Tracked({g})
        BY <1>0, <2>3 DEF W
      <3>2. c \in Calls
        BY <1>1 DEF Tracked
      <3>. QED BY <3>1, <3>2, Untracked
    <2>5. ArgsOf(W, c) = ArgsOf({f}, c)
      <3>1. ArgsOf(W, c) = UNION {ArgsOf({g}, c) : g \in W}
        BY FrameByFrame
      <3>. QED BY <3>1, <2>2, <2>4
    <2>6. Named(W, c)
      BY <2>1, <2>2, FrameByFrame
    <2>7. InBatch(W, c)
      BY <2>1, <2>2 DEF InBatch
    <2>. QED BY <2>1, <2>2, <2>5, <2>6, <2>7 DEF Parses
  <1>4. c \notin Tracked(Range(s.out))
    <2>. SUFFICES ASSUME c \in Tracked(Range(s.out)) PROVE FALSE
      OBVIOUS
    <2>1. PICK g \in Range(s.out) : Named({g}, c)
      BY <1>0, FrameByFrame DEF OnlyWhole
    <2>2. PICK f \in W : Named({f}, c)
      BY <1>2, <1>3, FrameByFrame
    <2>3. f = g
      BY <1>0, <2>1, <2>2, NamedOnce DEF W
    <2>4. f.at < f.at /\ f.at \in Nat
      BY <1>0, <2>1, <2>2, <2>3, FrameShape DEF OpenInv, W
    <2>. QED BY <2>4
  <1>. QED BY <1>2, <1>3, <1>4

\* What is shown together: each call from one side.
LEMMA ShownTogether ==
    ASSUME NEW F \in SUBSET Frames(Nat), NEW G \in SUBSET Frames(Nat),
           \A c \in Tracked(G) : c \notin Tracked(F)
    PROVE  \A c \in Tracked(F \cup G) :
              \/ c \in Tracked(G) /\ ArgsOf(F \cup G, c) = ArgsOf(G, c)
              \/ c \in Tracked(F) /\ c \notin Tracked(G) /\ ArgsOf(F \cup G, c) = ArgsOf(F, c)
  <1>. SUFFICES ASSUME NEW c \in Tracked(F \cup G)
                PROVE  \/ c \in Tracked(G) /\ ArgsOf(F \cup G, c) = ArgsOf(G, c)
                       \/ /\ c \in Tracked(F) /\ c \notin Tracked(G)
                          /\ ArgsOf(F \cup G, c) = ArgsOf(F, c)
    OBVIOUS
  <1>1. c \in Calls
    BY DEF Tracked
  <1>2. ArgsOf(F \cup G, c) = ArgsOf(F, c) \cup ArgsOf(G, c)
    BY FramesTogether
  <1>3. c \in Tracked(F) \/ c \in Tracked(G)
    BY FramesTogether
  <1>4. c \notin Tracked(F) => ArgsOf(F, c) = {}
    BY <1>1, Untracked
  <1>5. c \notin Tracked(G) => ArgsOf(G, c) = {}
    BY <1>1, Untracked
  <1>. QED BY <1>2, <1>3, <1>4, <1>5

\* Closing the open call: shown with all that waited for it, or dropped with it.
LEMMA CloseKeepsClient ==
    ASSUME NEW s, NEW G, NEW P, WellSent(G), ClientInv(s, G, P), s.open # None,
           NEW final \in BOOLEAN
    PROVE  ClientInv(Close(s, final), G, P) /\ Close(s, final).open = None
  <1>. DEFINE W == Mine(s)
              O == Range(s.out)
              call == ToolCall(s.open.index, s.open.args)
              t == Close(s, final)
  <1>0. /\ s \in Routes /\ P \subseteq ToolCalls /\ W \subseteq G /\ O \subseteq G
        /\ G \subseteq Frames(Nat) /\ InOrder(s.out) /\ OpenInv(s)
        /\ OnlyWhole(O) /\ OnlyOnce(O, P) /\ PriorInv(s, G, P)
    BY DEF ClientInv, WellSent
  <1>1. /\ t \in Routes /\ t.open = None
        /\ ~Whole(s.open, final) => t.out = s.out /\ t.prior = s.prior
        /\ Whole(s.open, final) /\ call \in s.prior => t.out = s.out /\ t.prior = s.prior \ {call}
        /\ Whole(s.open, final) /\ call \notin s.prior =>
             t.out = s.out \o s.open.withheld /\ t.prior = s.prior
    BY <1>0, CloseCases
  <1>2. W = Range(s.open.withheld) /\ s.open.withheld \in Seq(Frames(Nat))
    BY <1>0, OpenIsTyped DEF Mine
  <1>3. Mine(t) = {} /\ OpenInv(t)
    BY <1>1 DEF Mine, OpenInv
  <1>. HIDE DEF W, O, t
  <1>4. CASE ~Whole(s.open, final)
    <2>1. t.out = s.out /\ t.prior = s.prior
      BY <1>1, <1>4
    <2>2. PriorInv(t, G, P)
      BY <1>0, <1>3, <2>1 DEF PriorInv
    <2>. QED BY <1>0, <1>1, <1>3, <2>1, <2>2 DEF ClientInv, O, t
  <1>5. CASE Whole(s.open, final) /\ call \in s.prior
    <2>1. t.out = s.out /\ t.prior = s.prior \ {call}
      BY <1>1, <1>5
    <2>2. PICK f \in W : Named({f}, s.open.index)
      BY <1>0, <1>5, FrameByFrame DEF Whole, OpenInv, W
    <2>3. f \in G \ O
      <3>1. f.at \in Nat
        BY <1>0, <2>2, FrameShape
      <3>. QED BY <1>0, <2>2, <3>1 DEF OpenInv, W, O
    <2>4. call[1] = s.open.index
      BY DEF ToolCall
    <2>5. PriorInv(t, G, P)
      BY <1>0, <1>3, <2>1, <2>2, <2>3, <2>4 DEF PriorInv, O
    <2>. QED BY <1>0, <1>1, <1>3, <2>1, <2>5 DEF ClientInv, O, t
  <1>6. CASE Whole(s.open, final) /\ call \notin s.prior
    <2>1. t.out = s.out \o s.open.withheld /\ t.prior = s.prior
      BY <1>1, <1>6
    <2>2. s.out \in Seq(Frames(Nat))
      BY <1>0 DEF Routes
    <2>3. Range(t.out) = O \cup W
      BY <1>2, <2>1, <2>2, JoinFrames DEF O
    <2>4. \A c \in Tracked(W) :
             /\ Named(W, c) /\ (ArgsOf(W, c) = {} \/ Parses(ArgsOf(W, c)))
             /\ c \notin Tracked(O)
             /\ c # s.open.index => InBatch(W, c)
      BY <1>6, WholeBlock DEF W, O
    <2>5. \A c \in Tracked(O \cup W) :
             \/ c \in Tracked(W) /\ ArgsOf(O \cup W, c) = ArgsOf(W, c)
             \/ c \in Tracked(O) /\ c \notin Tracked(W) /\ ArgsOf(O \cup W, c) = ArgsOf(O, c)
      BY <1>0, <2>4, ShownTogether
    <2>6. InOrder(t.out)
      <3>1. InOrder(s.open.withheld)
        BY <1>0 DEF OpenInv
      <3>2. \A g \in O, f \in W : "ping" \notin {g.kind, f.kind} => g.at < f.at
        BY <1>0 DEF OpenInv, O, W
      <3>. QED BY <1>0, <1>2, <2>1, <2>2, <3>1, <3>2, JoinInOrder DEF O
    <2>7. OnlyWhole(O \cup W)
      <3>. SUFFICES ASSUME NEW c \in Tracked(O \cup W)
                    PROVE  /\ Named(O \cup W, c)
                           /\ ArgsOf(O \cup W, c) = {} \/ Parses(ArgsOf(O \cup W, c))
        BY DEF OnlyWhole
      <3>1. Named(O \cup W, c) <=> Named(O, c) \/ Named(W, c)
        BY FramesTogether
      <3>. QED BY <1>0, <2>4, <2>5, <3>1 DEF OnlyWhole
    <2>8. OnlyOnce(O \cup W, P)
      <3>. SUFFICES ASSUME NEW old \in P, old[1] \in Tracked(O \cup W),
                           ArgsOf(O \cup W, old[1]) = old[2], ~InBatch(O \cup W, old[1])
                    PROVE  FALSE
        BY DEF OnlyOnce
      <3>1. ~InBatch(O, old[1]) /\ ~InBatch(W, old[1])
        BY DEF InBatch
      <3>2. old[1] \in Tracked(W) /\ ArgsOf(W, old[1]) = old[2]
        BY <1>0, <2>5, <3>1 DEF OnlyOnce
      <3>3. old[1] = s.open.index /\ Named(W, old[1])
        BY <2>4, <3>1, <3>2
      <3>4. old = call
        <4>1. old[2] = s.open.args
          BY <1>0, <3>2, <3>3 DEF OpenInv, W
        <4>2. old = <<old[1], old[2]>>
          BY <1>0 DEF ToolCalls
        <4>. QED BY <3>3, <4>1, <4>2 DEF ToolCall
      <3>5. PICK f \in G \ (O \cup W) : Named({f}, old[1])
        BY <1>0, <1>6, <3>4 DEF PriorInv, O, W
      <3>6. PICK g \in W : Named({g}, old[1])
        BY <3>3, FrameByFrame
      <3>7. f = g
        BY <1>0, <3>5, <3>6, NamedOnce
      <3>. QED BY <3>5, <3>6, <3>7
    <2>9. PriorInv(t, G, P)
      BY <1>0, <1>3, <2>1, <2>3 DEF PriorInv, O, W
    <2>. QED BY <1>0, <1>1, <1>3, <2>3, <2>6, <2>7, <2>8, <2>9 DEF ClientInv, t
  <1>. QED BY <1>4, <1>5, <1>6

\* A frame that goes through, beside an open call or without one.
LEMMA ShowKeepsClient ==
    ASSUME NEW s, NEW G, NEW P, WellSent(G), ClientInv(s, G, P),
           NEW f \in Frames(Nat), Fits(G, f), f.calls = <<>>, s.open = None \/ f.kind = "ping",
           NEW t, t = [s EXCEPT !.out = Append(@, f)]
    PROVE  ClientInv(t, G \cup {f}, P) /\ t.open = s.open
  <1>0. /\ s \in Routes /\ Range(s.out) \subseteq G /\ G \subseteq Frames(Nat)
        /\ InOrder(s.out) /\ OpenInv(s) /\ PriorInv(s, G, P) /\ s.out \in Seq(Frames(Nat))
        /\ OnlyWhole(Range(s.out)) /\ OnlyOnce(Range(s.out), P) /\ Mine(s) \subseteq G
        /\ P \subseteq ToolCalls
    BY DEF ClientInv, WellSent, Routes
  <1>1. /\ t \in Routes /\ t.open = s.open /\ t.prior = s.prior /\ t.out = Append(s.out, f)
    <2>1. /\ s = [open |-> s.open, completed |-> s.completed, prior |-> s.prior, out |-> s.out]
          /\ s.open \in OpenCalls \cup {None} /\ s.completed \in Seq(ToolCalls)
          /\ s.prior \in SUBSET ToolCalls
      BY <1>0 DEF Routes
    <2>2. t = [open |-> s.open, completed |-> s.completed, prior |-> s.prior,
               out |-> Append(s.out, f)]
      BY <2>1
    <2>3. Append(s.out, f) \in Seq(Frames(Nat))
      BY <1>0, AppendFrame
    <2>. QED BY <2>1, <2>2, <2>3 DEF Routes
  <1>2. Range(t.out) = Range(s.out) \cup {f} /\ Mine(t) = Mine(s)
    BY <1>0, <1>1, AppendFrame DEF Mine
  <1>3. InOrder(t.out)
    <2>1. \A g \in Range(s.out) : g.at < f.at
      BY <1>0 DEF Fits
    <2>. QED BY <1>0, <1>1, <2>1, AppendInOrder
  <1>4. OpenInv(t)
    BY <1>0, <1>1, <1>2 DEF OpenInv, Mine
  <1>5. \A c : /\ c \in Tracked(Range(t.out)) <=> c \in Tracked(Range(s.out))
               /\ Named(Range(t.out), c) <=> Named(Range(s.out), c)
               /\ ArgsOf(Range(t.out), c) = ArgsOf(Range(s.out), c)
    <2>. SUFFICES ASSUME NEW c
                  PROVE  /\ c \in Tracked(Range(t.out)) <=> c \in Tracked(Range(s.out))
                         /\ Named(Range(t.out), c) <=> Named(Range(s.out), c)
                         /\ ArgsOf(Range(t.out), c) = ArgsOf(Range(s.out), c)
      OBVIOUS
    <2>1. c \notin Tracked({f}) /\ ~Named({f}, c) /\ ArgsOf({f}, c) = {}
      BY FrameCalls
    <2>2. /\ c \in Tracked(Range(s.out) \cup {f}) <=> c \in Tracked(Range(s.out)) \/ c \in Tracked({f})
          /\ Named(Range(s.out) \cup {f}, c) <=> Named(Range(s.out), c) \/ Named({f}, c)
          /\ ArgsOf(Range(s.out) \cup {f}, c) = ArgsOf(Range(s.out), c) \cup ArgsOf({f}, c)
      BY OneFrameMore
    <2>. QED BY <1>2, <2>1, <2>2
  <1>6. OnlyWhole(Range(t.out)) /\ OnlyOnce(Range(t.out), P)
    <2>1. \A c : InBatch(Range(s.out), c) => InBatch(Range(t.out), c)
      BY <1>2 DEF InBatch
    <2>. QED BY <1>0, <1>5, <2>1 DEF OnlyWhole, OnlyOnce
  <1>7. f \notin G
    <2>1. f.at \in Nat
      BY FrameShape
    <2>. QED BY <2>1 DEF Fits
  <1>8. PriorInv(t, G \cup {f}, P)
    BY <1>0, <1>1, <1>2, <1>7 DEF PriorInv
  <1>. QED BY <1>0, <1>1, <1>2, <1>3, <1>4, <1>6, <1>8 DEF ClientInv

\* A frame that is withheld with the open call.
Withheld(s, f) ==
    [s EXCEPT !.open = [index |-> s.open.index,
                        named |-> s.open.named \/ Named({f}, s.open.index),
                        args |-> s.open.args \cup ArgsOf({f}, s.open.index),
                        withheld |-> Append(s.open.withheld, f)]]

LEMMA WithheldIsTyped ==
    ASSUME NEW s \in Routes, s.open # None, NEW f \in Frames(Nat)
    PROVE  /\ Withheld(s, f) \in Routes /\ Withheld(s, f).open # None
           /\ Withheld(s, f).out = s.out /\ Withheld(s, f).prior = s.prior
           /\ Withheld(s, f).open.index = s.open.index
           /\ Withheld(s, f).open.named = (s.open.named \/ Named({f}, s.open.index))
           /\ Withheld(s, f).open.args = s.open.args \cup ArgsOf({f}, s.open.index)
           /\ Withheld(s, f).open.withheld = Append(s.open.withheld, f)
           /\ Mine(Withheld(s, f)) = Mine(s) \cup {f}
  <1>1. /\ s.open.index \in Calls /\ s.open.named \in BOOLEAN /\ s.open.args \in SUBSET Pieces
        /\ s.open.withheld \in Seq(Frames(Nat))
    BY OpenIsTyped
  <1>2. /\ s.completed \in Seq(ToolCalls) /\ s.prior \in SUBSET ToolCalls
        /\ s.out \in Seq(Frames(Nat))
        /\ s = [open |-> s.open, completed |-> s.completed, prior |-> s.prior, out |-> s.out]
    BY DEF Routes
  <1>. DEFINE o == [index |-> s.open.index,
                    named |-> s.open.named \/ Named({f}, s.open.index),
                    args |-> s.open.args \cup ArgsOf({f}, s.open.index),
                    withheld |-> Append(s.open.withheld, f)]
  <1>3. o \in OpenCalls /\ o # None
    <2>1. ArgsOf({f}, s.open.index) \in SUBSET Pieces
      BY FrameCalls
    <2>2. Append(s.open.withheld, f) \in Seq(Frames(Nat))
      BY <1>1, AppendFrame
    <2>3. (s.open.named \/ Named({f}, s.open.index)) \in BOOLEAN
      OBVIOUS
    <2>4. o \in OpenCalls
      BY <1>1, <2>1, <2>2, <2>3 DEF OpenCalls
    <2>. QED BY <2>4, NoneIsClosed
  <1>4. Withheld(s, f) = [open |-> o, completed |-> s.completed, prior |-> s.prior, out |-> s.out]
    <2>1. Withheld(s, f) = [s EXCEPT !.open = o]
      BY DEF Withheld
    <2>. HIDE DEF o
    <2>. QED BY <1>2, <2>1
  <1>. HIDE DEF o
  <1>5. Withheld(s, f) \in Routes /\ Withheld(s, f).open = o
        /\ Withheld(s, f).out = s.out /\ Withheld(s, f).prior = s.prior
    BY <1>2, <1>3, <1>4 DEF Routes
  <1>6. Range(Append(s.open.withheld, f)) = Range(s.open.withheld) \cup {f}
    BY <1>1, AppendFrame
  <1>7. o.index = s.open.index /\ o.args = s.open.args \cup ArgsOf({f}, s.open.index)
        /\ o.withheld = Append(s.open.withheld, f)
    BY DEF o
  <1>8. o.named = (s.open.named \/ Named({f}, s.open.index))
    BY DEF o
  <1>. QED BY <1>3, <1>5, <1>6, <1>7, <1>8 DEF Mine

LEMMA WithholdKeepsClient ==
    ASSUME NEW s, NEW G, NEW P, WellSent(G), ClientInv(s, G, P), s.open # None,
           NEW f \in Frames(Nat), Fits(G, f), f.kind # "ping",
           f.calls # <<>> => f.calls[1].index = s.open.index
    PROVE  ClientInv(Withheld(s, f), G \cup {f}, P)
  <1>. DEFINE t == Withheld(s, f)
              c == s.open.index
  <1>0. /\ s \in Routes /\ Range(s.out) \subseteq G /\ G \subseteq Frames(Nat)
        /\ InOrder(s.out) /\ OpenInv(s) /\ PriorInv(s, G, P)
        /\ OnlyWhole(Range(s.out)) /\ OnlyOnce(Range(s.out), P) /\ Mine(s) \subseteq G
        /\ P \subseteq ToolCalls
    BY DEF ClientInv, WellSent
  <1>1. /\ t \in Routes /\ t.open # None /\ t.out = s.out /\ t.prior = s.prior
        /\ t.open.index = c /\ t.open.named = (s.open.named \/ Named({f}, c))
        /\ t.open.args = s.open.args \cup ArgsOf({f}, c)
        /\ t.open.withheld = Append(s.open.withheld, f) /\ Mine(t) = Mine(s) \cup {f}
    BY <1>0, WithheldIsTyped
  <1>2. s.open.withheld \in Seq(Frames(Nat)) /\ Mine(s) = Range(s.open.withheld)
    BY <1>0, OpenIsTyped DEF Mine
  <1>. HIDE DEF t
  <1>3. \A g \in G : g.at < f.at
    BY DEF Fits
  <1>4. OpenInv(t)
    <2>1. InOrder(t.open.withheld)
      BY <1>0, <1>1, <1>2, <1>3, AppendInOrder DEF OpenInv
    <2>2. t.open.named = Named(Mine(t), c) /\ t.open.args = ArgsOf(Mine(t), c)
      <3>1. s.open.named = Named(Mine(s), c) /\ s.open.args = ArgsOf(Mine(s), c)
        BY <1>0 DEF OpenInv
      <3>2. /\ Named(Mine(s) \cup {f}, c) <=> Named(Mine(s), c) \/ Named({f}, c)
            /\ ArgsOf(Mine(s) \cup {f}, c) = ArgsOf(Mine(s), c) \cup ArgsOf({f}, c)
        BY OneFrameMore
      <3>3. Named(Mine(t), c) \in BOOLEAN
        BY DEF Named
      <3>. QED BY <1>1, <3>1, <3>2, <3>3
    <2>3. \A g \in Mine(t) : /\ g.kind # "ping"
                             /\ g.calls # <<>> => g.calls[1].index = c
                             /\ \A h \in Range(t.out) : h.kind # "ping" => h.at < g.at
      BY <1>0, <1>1, <1>3 DEF OpenInv
    <2>. QED BY <1>1, <2>1, <2>2, <2>3 DEF OpenInv
  <1>5. f \notin G
    <2>1. f.at \in Nat
      BY FrameShape
    <2>. QED BY <2>1, <1>3
  <1>6. PriorInv(t, G \cup {f}, P)
    BY <1>0, <1>1, <1>5 DEF PriorInv
  <1>. QED BY <1>0, <1>1, <1>4, <1>6 DEF ClientInv, t

\* A call that opens has withheld nothing yet.
LEMMA OpenKeepsClient ==
    ASSUME NEW s, NEW G, NEW P, ClientInv(s, G, P), s.open = None,
           NEW d \in Deltas
    PROVE  /\ ClientInv(Opened(s, d), G, P)
           /\ Opened(s, d).open # None /\ Opened(s, d).open.index = d.index
           /\ Mine(Opened(s, d)) = {} /\ Opened(s, d).out = s.out
           /\ Opened(s, d).prior = s.prior
  <1>. DEFINE t == Opened(s, d)
              o == [index |-> d.index, named |-> FALSE, args |-> {}, withheld |-> <<>>]
  <1>1. o \in OpenCalls /\ o # None
    <2>1. d.index \in Calls
      BY DEF Deltas
    <2>2. <<>> \in Seq(Frames(Nat))
      OBVIOUS
    <2>3. o \in OpenCalls
      BY <2>1, <2>2 DEF OpenCalls
    <2>. QED BY <2>3, NoneIsClosed
  <1>. HIDE DEF o
  <1>2. t = [open |-> o, completed |-> s.completed, prior |-> s.prior, out |-> s.out]
    <2>1. t = [s EXCEPT !.open = o]
      BY DEF Opened, o
    <2>2. s = [open |-> s.open, completed |-> s.completed, prior |-> s.prior, out |-> s.out]
      BY DEF ClientInv, Routes
    <2>. HIDE DEF t
    <2>. QED BY <2>1, <2>2
  <1>3. t \in Routes /\ t.open = o /\ t.prior = s.prior /\ t.out = s.out
    BY <1>1, <1>2 DEF ClientInv, Routes
  <1>4. o.index = d.index /\ o.named = FALSE /\ o.args = {} /\ o.withheld = <<>>
    BY DEF o
  <1>. HIDE DEF t
  <1>5. Mine(t) = {} /\ Mine(s) = {}
    <2>1. Range(<<>>) = {}
      BY DEF Range
    <2>. QED BY <1>3, <1>4, <2>1 DEF Mine
  <1>6. OpenInv(t)
    <2>1. Named({}, d.index) = FALSE /\ ArgsOf({}, d.index) = {}
      BY DEF Named, ArgsOf, DeltasOf
    <2>2. InOrder(<<>>)
      BY DEF InOrder
    <2>. QED BY <1>3, <1>4, <1>5, <2>1, <2>2 DEF OpenInv
  <1>. QED BY <1>1, <1>3, <1>4, <1>5, <1>6 DEF ClientInv, PriorInv, t

-----------------------------------------------------------------------------
(* StreamGuard: what a stream in turn leaves out.  F are the frames sent    *)
(* so far, G those the route has taken.                                     *)

\* No frame in turn belongs to call c any more: it is complete, or another call
\* has come after it.
Over(F, c) ==
    \/ Named(F, c) /\ Parses(ArgsOf(F, c))
    \/ \E f \in F : /\ c \in Tracked({f})
                    /\ Len(f.calls) > 1 \/ \E g \in F : f.at < g.at /\ \E b \in Tracked({g}) : c < b

\* A call that is over and will never pass.
Lost(F, c) ==
    /\ c \in Tracked(F) /\ Over(F, c)
    /\ ~Named(F, c) \/ (ArgsOf(F, c) # {} /\ ~Parses(ArgsOf(F, c)))

TurnInv(s, F, G, P) ==
    InTurn(F) =>
        /\ \A c \in Tracked(G) : Over(F, c) \/ (s.open # None /\ c = s.open.index)
        /\ s.open # None => \A f \in G : s.open.index \in Tracked({f}) => f \in Mine(s)
        /\ P = {} => \/ \A f \in G : f.kind # "ping" => f \in Range(s.out) \cup Mine(s)
                     \/ \E c \in Calls : Lost(F, c)

LEMMA TurnIsPrefixClosed ==
    ASSUME NEW F, NEW G \in SUBSET F, InTurn(F)
    PROVE  InTurn(G)
  BY DEF InTurn

LEMMA TrackedAreCalls ==
    ASSUME NEW F
    PROVE  Tracked(F) \subseteq Calls /\ Calls \subseteq Nat
  BY GuardAssumption DEF Tracked

LEMMA OverIsOver ==
    ASSUME NEW F, WellSent(F), NEW f \in Frames(Nat), Fits(F, f), InTurn(F \cup {f}),
           NEW c \in Tracked({f})
    PROVE  ~Over(F, c)
  <1>. SUFFICES ASSUME Over(F, c) PROVE FALSE
    OBVIOUS
  <1>1. PICK g \in F : /\ c \in Tracked({g})
                       /\ Len(g.calls) > 1 \/ \E h \in F : g.at < h.at /\ \E b \in Tracked({h}) : c < b
    BY DEF Over, Fits
  <1>2. g.at < f.at
    BY DEF Fits
  <1>3. CASE Len(g.calls) > 1
    <2>1. c < c
      BY <1>1, <1>2, <1>3 DEF InTurn
    <2>. QED BY <2>1, TrackedAreCalls
  <1>4. CASE \E h \in F : g.at < h.at /\ \E b \in Tracked({h}) : c < b
    <2>1. PICK h \in F : g.at < h.at /\ \E b \in Tracked({h}) : c < b
      BY <1>4
    <2>5. PICK b \in Tracked({h}) : c < b
      BY <2>1
    <2>2. h.at < f.at
      BY DEF Fits
    <2>3. b <= c
      BY <2>2 DEF InTurn
    <2>4. b \in Nat /\ c \in Nat
      BY TrackedAreCalls
    <2>. QED BY <2>3, <2>4, <2>5
  <1>. QED BY <1>1, <1>3, <1>4

\* What is over stays over, and what is lost stays lost.
LEMMA OverStaysOver ==
    ASSUME NEW F, WellSent(F), NEW f \in Frames(Nat), Fits(F, f), InTurn(F \cup {f}),
           NEW c \in Calls, Over(F, c)
    PROVE  /\ Over(F \cup {f}, c)
           /\ Lost(F, c) => Lost(F \cup {f}, c)
  <1>1. c \notin Tracked({f})
    BY OverIsOver
  <1>2. {f} \in SUBSET Frames(Nat)
    OBVIOUS
  <1>3. ~Named({f}, c) /\ ArgsOf({f}, c) = {}
    BY <1>1, <1>2, Untracked
  <1>4. /\ c \in Tracked(F \cup {f}) <=> c \in Tracked(F)
        /\ Named(F \cup {f}, c) <=> Named(F, c)
        /\ ArgsOf(F \cup {f}, c) = ArgsOf(F, c)
    <2>1. /\ c \in Tracked(F \cup {f}) <=> c \in Tracked(F) \/ c \in Tracked({f})
          /\ Named(F \cup {f}, c) <=> Named(F, c) \/ Named({f}, c)
          /\ ArgsOf(F \cup {f}, c) = ArgsOf(F, c) \cup ArgsOf({f}, c)
      BY OneFrameMore
    <2>. QED BY <1>1, <1>3, <2>1
  <1>5. Over(F \cup {f}, c)
    BY <1>4 DEF Over
  <1>. QED BY <1>4, <1>5 DEF Lost

\* A frame arrives that the route has not taken yet.
LEMMA ArriveKeepsTurn ==
    ASSUME NEW s, NEW F, NEW P, WellSent(F), NEW f \in Frames(Nat), Fits(F, f),
           TurnInv(s, F, F, P)
    PROVE  TurnInv(s, F \cup {f}, F, P)
  <1>. SUFFICES ASSUME InTurn(F \cup {f})
                PROVE  /\ \A c \in Tracked(F) : Over(F \cup {f}, c) \/ (s.open # None /\ c = s.open.index)
                       /\ s.open # None =>
                            \A g \in F : s.open.index \in Tracked({g}) => g \in Mine(s)
                       /\ P = {} =>
                            \/ \A g \in F : g.kind # "ping" => g \in Range(s.out) \cup Mine(s)
                            \/ \E c \in Calls : Lost(F \cup {f}, c)
    BY DEF TurnInv
  <1>1. InTurn(F)
    BY TurnIsPrefixClosed
  <1>2. \A c \in Calls : Over(F, c) => Over(F \cup {f}, c) /\ (Lost(F, c) => Lost(F \cup {f}, c))
    BY OverStaysOver
  <1>3. \A c \in Calls : Lost(F, c) => Over(F, c)
    BY DEF Lost
  <1>4. \A c \in Tracked(F) : c \in Calls
    BY TrackedAreCalls
  <1>. QED BY <1>1, <1>2, <1>3, <1>4 DEF TurnInv

\* Closing a call that is over, and lost if it is dropped.
LEMMA CloseKeepsTurn ==
    ASSUME NEW s, NEW F, NEW G \in SUBSET F, NEW P, ClientInv(s, G, P), TurnInv(s, F, G, P),
           s.open # None, NEW final \in BOOLEAN,
           InTurn(F) => Over(F, s.open.index),
           InTurn(F) /\ ~Whole(s.open, final) => Lost(F, s.open.index)
    PROVE  TurnInv(Close(s, final), F, G, P)
  <1>. DEFINE t == Close(s, final)
              call == ToolCall(s.open.index, s.open.args)
  <1>0. s \in Routes /\ s.prior \subseteq P
    BY DEF ClientInv, PriorInv
  <1>1. /\ t.open = None
        /\ Whole(s.open, final) /\ call \notin s.prior => t.out = s.out \o s.open.withheld
    BY <1>0, CloseCases
  <1>2. s.out \in Seq(Frames(Nat)) /\ s.open.withheld \in Seq(Frames(Nat)) /\ s.open.index \in Calls
    BY <1>0, OpenIsTyped DEF Routes
  <1>3. Mine(t) = {} /\ Mine(s) = Range(s.open.withheld)
    BY <1>1 DEF Mine
  <1>. HIDE DEF t, call
  <1>. SUFFICES ASSUME InTurn(F)
                PROVE  /\ \A c \in Tracked(G) : Over(F, c)
                       /\ P = {} =>
                            \/ \A f \in G : f.kind # "ping" => f \in Range(t.out)
                            \/ \E c \in Calls : Lost(F, c)
    BY <1>1, <1>3 DEF TurnInv, t
  <1>4. \A c \in Tracked(G) : Over(F, c)
    BY DEF TurnInv
  <1>5. ASSUME P = {}, ~ \E c \in Calls : Lost(F, c)
        PROVE  \A f \in G : f.kind # "ping" => f \in Range(t.out)
    <2>1. Whole(s.open, final)
      BY <1>2, <1>5
    <2>2. call \notin s.prior
      BY <1>0, <1>5
    <2>3. t.out = s.out \o s.open.withheld
      BY <1>1, <2>1, <2>2
    <2>4. Range(s.out \o s.open.withheld) = Range(s.out) \cup Range(s.open.withheld)
      BY <1>2, JoinFrames
    <2>. QED BY <1>3, <1>5, <2>3, <2>4 DEF TurnInv
  <1>. QED BY <1>4, <1>5

\* A frame that belongs to no call.
LEMMA PlainKeepsTurn ==
    ASSUME NEW s, NEW F, NEW G, NEW P, NEW f \in Frames(Nat), f.calls = <<>>,
           TurnInv(s, F, G, P),
           NEW t, t.open # None <=> s.open # None,
           t.open # None => t.open.index = s.open.index,
           Mine(s) \subseteq Mine(t), Range(s.out) \subseteq Range(t.out),
           f \in Range(t.out) \cup Mine(t)
    PROVE  TurnInv(t, F, G \cup {f}, P)
  <1>1. \A c : c \notin Tracked({f})
    BY FrameCalls
  <1>2. \A c : c \in Tracked(G \cup {f}) => c \in Tracked(G)
    BY <1>1, OneFrameMore
  <1>. QED BY <1>1, <1>2 DEF TurnInv

\* A frame that is withheld with its call.
LEMMA WithholdKeepsTurn ==
    ASSUME NEW s \in Routes, NEW G, NEW P, NEW f \in Frames(Nat), f.calls # <<>>, s.open # None,
           f.calls[1].index = s.open.index, TurnInv(s, G \cup {f}, G, P)
    PROVE  TurnInv(Withheld(s, f), G \cup {f}, G \cup {f}, P)
  <1>. DEFINE t == Withheld(s, f)
  <1>1. /\ t.open # None /\ t.out = s.out /\ t.open.index = s.open.index
        /\ Mine(t) = Mine(s) \cup {f}
    BY WithheldIsTyped
  <1>2. \A c \in Tracked({f}) : c = s.open.index \/ Over(G \cup {f}, c)
    BY FrameCalls DEF Over
  <1>3. \A c : c \in Tracked(G \cup {f}) <=> c \in Tracked(G) \/ c \in Tracked({f})
    BY OneFrameMore
  <1>. HIDE DEF t
  <1>4. ASSUME InTurn(G \cup {f})
        PROVE  /\ \A c \in Tracked(G \cup {f}) : Over(G \cup {f}, c) \/ (t.open # None /\ c = t.open.index)
               /\ \A g \in G \cup {f} : t.open.index \in Tracked({g}) => g \in Mine(t)
               /\ P = {} =>
                    \/ \A g \in G \cup {f} : g.kind # "ping" => g \in Range(t.out) \cup Mine(t)
                    \/ \E c \in Calls : Lost(G \cup {f}, c)
    <2>1. /\ \A c \in Tracked(G) : Over(G \cup {f}, c) \/ c = s.open.index
          /\ \A g \in G : s.open.index \in Tracked({g}) => g \in Mine(s)
          /\ P = {} =>
               \/ \A g \in G : g.kind # "ping" => g \in Range(s.out) \cup Mine(s)
               \/ \E c \in Calls : Lost(G \cup {f}, c)
      BY <1>4 DEF TurnInv
    <2>2. \A c \in Tracked(G \cup {f}) : Over(G \cup {f}, c) \/ (t.open # None /\ c = t.open.index)
      BY <1>1, <1>2, <1>3, <2>1
    <2>. QED BY <1>1, <2>1, <2>2
  <1>. QED BY <1>4 DEF t, TurnInv

\* A call that opens for the first time.
LEMMA OpenKeepsTurn ==
    ASSUME NEW s, NEW F, NEW G, NEW P, ClientInv(s, G, P), TurnInv(s, F, G, P), s.open = None,
           NEW d \in Deltas, InTurn(F) => d.index \notin Tracked(G)
    PROVE  TurnInv(Opened(s, d), F, G, P)
  <1>. DEFINE t == Opened(s, d)
  <1>1. /\ t.open # None /\ t.open.index = d.index /\ Mine(t) = {} /\ t.out = s.out
    BY OpenKeepsClient
  <1>2. Mine(s) = {}
    BY DEF Mine
  <1>3. InTurn(F) => \A f \in G : d.index \notin Tracked({f})
    BY FrameByFrame
  <1>. HIDE DEF t
  <1>4. ASSUME InTurn(F)
        PROVE  /\ \A c \in Tracked(G) : Over(F, c) \/ (t.open # None /\ c = t.open.index)
               /\ \A f \in G : t.open.index \in Tracked({f}) => f \in Mine(t)
               /\ P = {} =>
                    \/ \A f \in G : f.kind # "ping" => f \in Range(t.out) \cup Mine(t)
                    \/ \E c \in Calls : Lost(F, c)
    <2>1. /\ \A c \in Tracked(G) : Over(F, c)
          /\ P = {} =>
               \/ \A f \in G : f.kind # "ping" => f \in Range(s.out) \cup Mine(s)
               \/ \E c \in Calls : Lost(F, c)
      BY <1>4 DEF TurnInv
    <2>. QED BY <1>1, <1>2, <1>3, <1>4, <2>1
  <1>. QED BY <1>4 DEF t, TurnInv

-----------------------------------------------------------------------------
(* StreamGuard: one frame through routeForward.                             *)

\* An open call has begun, and is not complete.
Unfinished(s) ==
    s.open # None => /\ s.open.index \in Tracked(Mine(s))
                     /\ ~(s.open.named /\ Parses(s.open.args))

RouteInv(s, G, P) ==
    /\ ClientInv(s, G, P)
    /\ TurnInv(s, G, G, P)
    /\ Unfinished(s)

\* In turn, all that was sent of the open call waits with it.
LEMMA AllIsMine ==
    ASSUME NEW s, NEW F, NEW G \in SUBSET Frames(Nat), NEW P, ClientInv(s, G, P), TurnInv(s, F, G, P),
           InTurn(F), s.open # None
    PROVE  /\ Named(G, s.open.index) = s.open.named
           /\ ArgsOf(G, s.open.index) = s.open.args
  <1>. DEFINE c == s.open.index
              W == Mine(s)
  <1>1. W \subseteq G /\ s.open.named = Named(W, c) /\ s.open.args = ArgsOf(W, c)
    BY DEF ClientInv, OpenInv
  <1>2. \A g \in G : c \in Tracked({g}) => g \in W
    BY DEF TurnInv
  <1>. HIDE DEF c, W
  <1>3. Named(G, c) = Named(W, c)
    <2>1. Named(G, c) <=> \E g \in G : Named({g}, c)
      BY FrameByFrame
    <2>2. Named(W, c) <=> \E g \in W : Named({g}, c)
      BY FrameByFrame
    <2>3. \A g \in G : Named({g}, c) => c \in Tracked({g})
      BY FrameCalls
    <2>4. Named(G, c) \in BOOLEAN /\ Named(W, c) \in BOOLEAN
      BY DEF Named
    <2>. QED BY <1>1, <1>2, <2>1, <2>2, <2>3, <2>4
  <1>4. ArgsOf(G, c) = ArgsOf(W, c)
    <2>1. ArgsOf(G, c) = UNION {ArgsOf({g}, c) : g \in G}
      BY FrameByFrame
    <2>2. ArgsOf(W, c) = UNION {ArgsOf({g}, c) : g \in W}
      BY FrameByFrame
    <2>3. c \in Calls
      <3>1. s \in Routes
        BY DEF ClientInv
      <3>. QED BY <3>1, OpenIsTyped DEF c
    <2>4. \A g \in G : g \notin W => ArgsOf({g}, c) = {}
      <3>. SUFFICES ASSUME NEW g \in G, g \notin W PROVE ArgsOf({g}, c) = {}
        OBVIOUS
      <3>1. {g} \in SUBSET Frames(Nat) /\ c \notin Tracked({g})
        BY <1>2
      <3>. QED BY <2>3, <3>1, Untracked
    <2>5. \A p : (\E g \in G : p \in ArgsOf({g}, c)) <=> \E g \in W : p \in ArgsOf({g}, c)
      BY <1>1, <2>4
    <2>6. \A p : p \in ArgsOf(G, c) <=> p \in ArgsOf(W, c)
      BY <2>1, <2>2, <2>5
    <2>. QED BY <2>6
  <1>. QED BY <1>1, <1>3, <1>4 DEF c, W

\* A call in turn that was met before is the open one.
LEMMA MetIsOpen ==
    ASSUME NEW s, NEW G, NEW P, WellSent(G), TurnInv(s, G, G, P), NEW f \in Frames(Nat), Fits(G, f),
           InTurn(G \cup {f}), NEW c \in Tracked({f}), c \in Tracked(G)
    PROVE  s.open # None /\ c = s.open.index
  <1>1. InTurn(G)
    <2>1. G \in SUBSET (G \cup {f})
      OBVIOUS
    <2>. QED BY <2>1, TurnIsPrefixClosed
  <1>2. Over(G, c) \/ (s.open # None /\ c = s.open.index)
    BY <1>1 DEF TurnInv
  <1>3. ~Over(G, c)
    BY OverIsOver
  <1>. QED BY <1>2, <1>3

\* A ping goes through.
LEMMA PingKeepsRoute ==
    ASSUME NEW s, NEW G, NEW P, WellSent(G), RouteInv(s, G, P), NEW f \in Frames(Nat), Fits(G, f),
           f.kind = "ping"
    PROVE  RouteInv([s EXCEPT !.out = Append(@, f)], G \cup {f}, P)
  <1>. DEFINE t == [s EXCEPT !.out = Append(@, f)]
  <1>1. f.calls = <<>>
    BY FrameShape
  <1>2. ClientInv(t, G \cup {f}, P) /\ t.open = s.open
    BY <1>1, ShowKeepsClient DEF RouteInv
  <1>3. Mine(t) = Mine(s) /\ Range(t.out) = Range(s.out) \cup {f}
    <2>1. s.out \in Seq(Frames(Nat)) /\ t.out = Append(s.out, f)
      BY DEF RouteInv, ClientInv, Routes
    <2>2. Range(t.out) = Range(s.out) \cup {f}
      BY <2>1, AppendFrame
    <2>. QED BY <1>2, <2>2 DEF Mine
  <1>. HIDE DEF t
  <1>4. TurnInv(s, G \cup {f}, G, P)
    BY ArriveKeepsTurn DEF RouteInv
  <1>5. TurnInv(t, G \cup {f}, G \cup {f}, P)
    BY <1>1, <1>2, <1>3, <1>4, PlainKeepsTurn
  <1>6. Unfinished(t)
    BY <1>2, <1>3 DEF RouteInv, Unfinished
  <1>. QED BY <1>2, <1>5, <1>6 DEF RouteInv, t

\* So does a frame without calls while none is open; beside one it waits.
LEMMA PlainKeepsRoute ==
    ASSUME NEW s, NEW G, NEW P, WellSent(G), RouteInv(s, G, P), NEW f \in Frames(Nat), Fits(G, f),
           f.kind # "ping", f.calls = <<>>
    PROVE  RouteInv(Route(s, f), G \cup {f}, P)
  <1>. DEFINE t == Route(s, f)
  <1>1. TurnInv(s, G \cup {f}, G, P)
    BY ArriveKeepsTurn DEF RouteInv
  <1>2. s \in Routes
    BY DEF RouteInv, ClientInv
  <1>3. CASE s.open = None
    <2>1. t = [s EXCEPT !.out = Append(@, f)]
      BY <1>3 DEF Route, Overtakes
    <2>2. ClientInv(t, G \cup {f}, P) /\ t.open = s.open
      BY <1>3, <2>1, ShowKeepsClient DEF RouteInv
    <2>3. Mine(t) = Mine(s) /\ Range(t.out) = Range(s.out) \cup {f}
      <3>1. s.out \in Seq(Frames(Nat)) /\ t.out = Append(s.out, f)
        BY <1>2, <2>1 DEF Routes
      <3>2. Range(t.out) = Range(s.out) \cup {f}
        BY <3>1, AppendFrame
      <3>. QED BY <2>2, <3>2 DEF Mine
    <2>. HIDE DEF t
    <2>4. TurnInv(t, G \cup {f}, G \cup {f}, P)
      BY <1>1, <2>2, <2>3, PlainKeepsTurn
    <2>. QED BY <1>3, <2>2, <2>4 DEF RouteInv, Unfinished, t
  <1>4. CASE s.open # None
    <2>1. t = Withheld(s, f)
      <3>1. t = [s EXCEPT !.open.withheld = Append(@, f)]
        BY <1>4 DEF Route, Overtakes
      <3>2. Named({f}, s.open.index) = FALSE /\ ArgsOf({f}, s.open.index) = {}
        BY FrameCalls DEF Named
      <3>3. s.open \in OpenCalls
        BY <1>2, <1>4, OpenIsTyped
      <3>4. /\ s.open = [index |-> s.open.index, named |-> s.open.named, args |-> s.open.args,
                         withheld |-> s.open.withheld]
            /\ s.open.named \in BOOLEAN
        BY <3>3 DEF OpenCalls
      <3>5. s = [open |-> s.open, completed |-> s.completed, prior |-> s.prior, out |-> s.out]
        BY <1>2 DEF Routes
      <3>6. [s.open EXCEPT !.withheld = Append(@, f)]
              = [index |-> s.open.index, named |-> s.open.named \/ Named({f}, s.open.index),
                 args |-> s.open.args \cup ArgsOf({f}, s.open.index),
                 withheld |-> Append(s.open.withheld, f)]
        <4>1. (s.open.named \/ Named({f}, s.open.index)) = s.open.named
          BY <3>2, <3>4
        <4>2. s.open.args \cup ArgsOf({f}, s.open.index) = s.open.args
          BY <3>2
        <4>. DEFINE n == s.open.named \/ Named({f}, s.open.index)
                    a == s.open.args \cup ArgsOf({f}, s.open.index)
        <4>3. n = s.open.named /\ a = s.open.args
          BY <4>1, <4>2
        <4>. HIDE DEF n, a
        <4>4. [s.open EXCEPT !.withheld = Append(@, f)]
                = [index |-> s.open.index, named |-> n, args |-> a,
                   withheld |-> Append(s.open.withheld, f)]
          BY <3>4, <4>3
        <4>. QED BY <4>4 DEF n, a
      <3>7. t = [s EXCEPT !.open = [s.open EXCEPT !.withheld = Append(@, f)]]
        BY <3>1, <3>5
      <3>. QED BY <3>6, <3>7 DEF Withheld
    <2>2. ClientInv(t, G \cup {f}, P)
      BY <1>4, <2>1, WithholdKeepsClient DEF RouteInv
    <2>3. /\ t.open # None /\ t.open.index = s.open.index /\ t.out = s.out
          /\ Mine(t) = Mine(s) \cup {f}
          /\ t.open.named = (s.open.named \/ Named({f}, s.open.index))
          /\ t.open.args = s.open.args \cup ArgsOf({f}, s.open.index)
      <3>1. /\ Withheld(s, f).open # None /\ Withheld(s, f).open.index = s.open.index
            /\ Withheld(s, f).out = s.out /\ Mine(Withheld(s, f)) = Mine(s) \cup {f}
            /\ Withheld(s, f).open.named = (s.open.named \/ Named({f}, s.open.index))
            /\ Withheld(s, f).open.args = s.open.args \cup ArgsOf({f}, s.open.index)
        BY <1>2, <1>4, WithheldIsTyped
      <3>. HIDE DEF t
      <3>. QED BY <2>1, <3>1, Zenon
    <2>. HIDE DEF t
    <2>4. TurnInv(t, G \cup {f}, G \cup {f}, P)
      BY <1>1, <1>4, <2>3, PlainKeepsTurn
    <2>5. Unfinished(t)
      <3>1. ~Named({f}, s.open.index) /\ ArgsOf({f}, s.open.index) = {}
        BY FrameCalls
      <3>2. s.open.index \in Tracked(Mine(s) \cup {f})
        BY <1>4, OneFrameMore DEF RouteInv, Unfinished
      <3>3. ~(s.open.named /\ Parses(s.open.args))
        BY <1>4 DEF RouteInv, Unfinished
      <3>4. s.open.args \cup {} = s.open.args
        OBVIOUS
      <3>. QED BY <2>3, <3>1, <3>2, <3>3, <3>4 DEF Unfinished
    <2>. QED BY <2>2, <2>4, <2>5 DEF RouteInv, t
  <1>. QED BY <1>3, <1>4

\* A frame with a call finds its call open, or none.
LEMMA RoomForCall ==
    ASSUME NEW s, NEW G, NEW P, WellSent(G), RouteInv(s, G, P), NEW f \in Frames(Nat), Fits(G, f),
           f.calls # <<>>,
           NEW r, r = IF s.open # None /\ s.open.index # f.calls[1].index THEN Close(s, TRUE) ELSE s
    PROVE  /\ ClientInv(r, G, P) /\ TurnInv(r, G \cup {f}, G, P)
           /\ r.open # None => r.open.index = f.calls[1].index
           /\ r.open = None /\ InTurn(G \cup {f}) => f.calls[1].index \notin Tracked(G)
  <1>. DEFINE F == G \cup {f}
              d == f.calls[1].index
  <1>1. /\ ClientInv(s, G, P) /\ TurnInv(s, F, G, P) /\ TurnInv(s, G, G, P) /\ Unfinished(s)
        /\ s \in Routes /\ G \subseteq Frames(Nat)
    BY ArriveKeepsTurn DEF RouteInv, ClientInv, WellSent
  <1>2. d \in Tracked({f}) /\ d \in Calls
    BY FrameCalls
  <1>3. InTurn(F) /\ d \in Tracked(G) => s.open # None /\ d = s.open.index
    BY <1>1, <1>2, MetIsOpen
  <1>. HIDE DEF d
  <1>4. CASE ~(s.open # None /\ s.open.index # d)
    BY <1>1, <1>3, <1>4 DEF d
  <1>5. CASE s.open # None /\ s.open.index # d
    <2>. DEFINE c == s.open.index
    <2>1. c \in Calls /\ c \in Tracked(Mine(s)) /\ Mine(s) \subseteq G
      BY <1>1, <1>5, OpenIsTyped DEF Unfinished, ClientInv
    <2>2. PICK g \in Mine(s) : c \in Tracked({g})
      BY <2>1, FrameByFrame
    <2>3. g \in F /\ g.at < f.at
      BY <2>1 DEF Fits
    <2>4. c \in Nat /\ d \in Nat
      BY <1>2, <2>1, TrackedAreCalls
    <2>5. ASSUME InTurn(F)
          PROVE  c < d /\ c \notin Tracked({f})
      <3>1. c <= d
        BY <1>2, <2>2, <2>3, <2>5 DEF InTurn
      <3>2. c < d
        BY <1>5, <2>4, <3>1
      <3>3. c \in Tracked({f}) => d <= c
        <4>1. c # d /\ c \in Tracked({f}) => d < c
          BY FrameCalls DEF d
        <4>. QED BY <1>5, <2>4, <4>1
      <3>. QED BY <2>4, <3>2, <3>3
    <2>6. InTurn(F) => Over(F, c)
      BY <1>2, <2>2, <2>3, <2>5 DEF Over
    <2>7. ASSUME InTurn(F), ~Whole(s.open, TRUE)
          PROVE  Lost(F, c)
      <3>1. Named(G, c) = s.open.named /\ ArgsOf(G, c) = s.open.args
        BY <1>1, <1>5, <2>7, AllIsMine
      <3>2. ~Named({f}, c) /\ ArgsOf({f}, c) = {}
        <4>1. {f} \in SUBSET Frames(Nat)
          OBVIOUS
        <4>. QED BY <2>1, <2>5, <2>7, <4>1, Untracked
      <3>3. /\ Named(F, c) <=> Named(G, c) \/ Named({f}, c)
            /\ ArgsOf(F, c) = ArgsOf(G, c) \cup ArgsOf({f}, c)
        BY OneFrameMore
      <3>4. c \in Tracked(F)
        BY <2>2, <2>3, FrameByFrame
      <3>5. (Named(F, c) <=> s.open.named) /\ ArgsOf(F, c) = s.open.args
        BY <3>1, <3>2, <3>3
      <3>6. ~s.open.named \/ (s.open.args # {} /\ ~Parses(s.open.args))
        BY <2>7 DEF Whole
      <3>. QED BY <2>6, <2>7, <3>4, <3>5, <3>6 DEF Lost
    <2>8. r = Close(s, TRUE)
      BY <1>5 DEF d
    <2>9. ClientInv(r, G, P) /\ r.open = None
      BY <1>1, <1>5, <2>8, CloseKeepsClient
    <2>10. TurnInv(r, F, G, P)
      <3>1. G \in SUBSET F
        OBVIOUS
      <3>. HIDE DEF F
      <3>. QED BY <1>1, <1>5, <2>6, <2>7, <2>8, <3>1, CloseKeepsTurn
    <2>. QED BY <1>3, <1>5, <2>9, <2>10 DEF d
  <1>. QED BY <1>4, <1>5

\* The frame is withheld with its call, which closes when it is complete.
LEMMA AbsorbKeepsRoute ==
    ASSUME NEW s, NEW G, NEW P, WellSent(G), ClientInv(s, G, P), NEW f \in Frames(Nat), Fits(G, f),
           TurnInv(s, G \cup {f}, G, P), s.open # None, f.calls # <<>>,
           f.calls[1].index = s.open.index
    PROVE  RouteInv(Absorb(s, f), G \cup {f}, P)
  <1>. DEFINE F == G \cup {f}
              t == Withheld(s, f)
              c == s.open.index
  <1>1. s \in Routes /\ WellSent(F) /\ F \in SUBSET Frames(Nat)
    BY SendMore DEF ClientInv, WellSent
  <1>2. f.kind # "ping"
    BY FrameShape
  <1>3. ClientInv(t, F, P) /\ TurnInv(t, F, F, P)
    BY <1>1, <1>2, WithholdKeepsClient, WithholdKeepsTurn
  <1>4. t \in Routes /\ t.open # None /\ t.open.index = c /\ Mine(t) = Mine(s) \cup {f}
    BY <1>1, WithheldIsTyped
  <1>5. c \in Tracked(Mine(t))
    <2>1. c \in Tracked({f})
      BY FrameCalls
    <2>. QED BY <1>4, <2>1, OneFrameMore
  <1>6. Absorb(s, f) = IF t.open.args # {} /\ Whole(t.open, FALSE) THEN Close(t, FALSE) ELSE t
    <2>. DEFINE o == s.open
                n == o.named \/ Named({f}, c)
                a == o.args \cup ArgsOf({f}, c)
                w == Append(o.withheld, f)
                more == [s EXCEPT !.open.withheld = Append(@, f),
                                  !.open.args = @ \cup ArgsOf({f}, c),
                                  !.open.named = @ \/ Named({f}, c)]
    <2>1. /\ o = [index |-> o.index, named |-> o.named, args |-> o.args, withheld |-> o.withheld]
          /\ s = [open |-> o, completed |-> s.completed, prior |-> s.prior, out |-> s.out]
      <3>1. s.open \in OpenCalls
        BY <1>1, OpenIsTyped
      <3>. QED BY <1>1, <3>1 DEF Routes, OpenCalls
    <2>2. more = [s EXCEPT !.open = [[[o EXCEPT !.withheld = w] EXCEPT !.args = a] EXCEPT !.named = n]]
      <3>. HIDE DEF o
      <3>. QED BY <2>1 DEF o
    <2>3. [[[o EXCEPT !.withheld = w] EXCEPT !.args = a] EXCEPT !.named = n]
            = [index |-> c, named |-> n, args |-> a, withheld |-> w]
      <3>1. c = o.index
        OBVIOUS
      <3>2. o = [index |-> o.index, named |-> o.named, args |-> o.args, withheld |-> o.withheld]
        BY <2>1
      <3>. HIDE DEF o, n, a, w, c
      <3>. DEFINE o1 == [o EXCEPT !.withheld = w]
                  o2 == [o1 EXCEPT !.args = a]
                  o3 == [o2 EXCEPT !.named = n]
      <3>3. o1 = [index |-> o.index, named |-> o.named, args |-> o.args, withheld |-> w]
        BY <3>2
      <3>. HIDE DEF o1
      <3>4. o2 = [index |-> o.index, named |-> o.named, args |-> a, withheld |-> w]
        BY <3>3
      <3>. HIDE DEF o2
      <3>5. o3 = [index |-> c, named |-> n, args |-> a, withheld |-> w]
        BY <3>1, <3>4
      <3>. QED BY <3>5 DEF o1, o2, o3
    <2>4. more = t
      BY <2>2, <2>3 DEF Withheld
    <2>5. Absorb(s, f)
            = IF more.open.args # {} /\ Whole(more.open, FALSE) THEN Close(more, FALSE) ELSE more
      BY DEF Absorb
    <2>. HIDE DEF more, t
    <2>. QED BY <2>4, <2>5
  <1>. HIDE DEF t
  <1>7. CASE ~(t.open.args # {} /\ Whole(t.open, FALSE))
    <2>1. ~(t.open.named /\ Parses(t.open.args))
      BY <1>7 DEF Whole, Parses
    <2>. QED BY <1>3, <1>4, <1>5, <1>6, <1>7, <2>1 DEF RouteInv, Unfinished
  <1>8. CASE t.open.args # {} /\ Whole(t.open, FALSE)
    <2>1. Absorb(s, f) = Close(t, FALSE)
      BY <1>6, <1>8
    <2>2. ClientInv(Close(t, FALSE), F, P) /\ Close(t, FALSE).open = None
      BY <1>1, <1>3, <1>4, CloseKeepsClient
    <2>3. InTurn(F) => Over(F, c)
      <3>1. ASSUME InTurn(F) PROVE Named(F, c) = t.open.named /\ ArgsOf(F, c) = t.open.args
        BY <1>1, <1>3, <1>4, <3>1, AllIsMine
      <3>. QED BY <1>8, <3>1 DEF Over, Whole
    <2>4. TurnInv(Close(t, FALSE), F, F, P)
      <3>1. F \in SUBSET F
        OBVIOUS
      <3>. QED BY <1>3, <1>4, <1>8, <2>3, <3>1, CloseKeepsTurn
    <2>. QED BY <2>1, <2>2, <2>4 DEF RouteInv, Unfinished
  <1>. QED BY <1>7, <1>8

\* Every frame that goes through the route.
LEMMA RouteKeeps ==
    ASSUME NEW s, NEW G, NEW P, WellSent(G), RouteInv(s, G, P), NEW f \in Frames(Nat), Fits(G, f),
           f.kind # "ping"
    PROVE  RouteInv(Route(s, f), G \cup {f}, P)
  <1>1. CASE f.calls = <<>>
    BY <1>1, PlainKeepsRoute
  <1>2. CASE f.calls # <<>>
    <2>. DEFINE d == f.calls[1]
                r == IF s.open # None /\ s.open.index # d.index THEN Close(s, TRUE) ELSE s
    <2>1. /\ ClientInv(r, G, P) /\ TurnInv(r, G \cup {f}, G, P)
          /\ r.open # None => r.open.index = d.index
          /\ r.open = None /\ InTurn(G \cup {f}) => d.index \notin Tracked(G)
      BY <1>2, RoomForCall
    <2>2. d \in Deltas
      BY <1>2, FrameCalls
    <2>3. Route(s, f) = Absorb(IF r.open = None THEN Opened(r, d) ELSE r, f)
      BY <1>2 DEF Route, Overtakes
    <2>. HIDE DEF r
    <2>4. CASE r.open = None
      <3>1. /\ ClientInv(Opened(r, d), G, P) /\ Opened(r, d).open # None
            /\ Opened(r, d).open.index = d.index
        BY <2>1, <2>2, <2>4, OpenKeepsClient
      <3>2. TurnInv(Opened(r, d), G \cup {f}, G, P)
        <4>. DEFINE F == G \cup {f}
        <4>. HIDE DEF F
        <4>1. TurnInv(r, F, G, P) /\ (InTurn(F) => d.index \notin Tracked(G))
          BY <2>1, <2>4 DEF F
        <4>2. TurnInv(Opened(r, d), F, G, P)
          BY <2>1, <2>2, <2>4, <4>1, OpenKeepsTurn
        <4>. QED BY <4>2 DEF F
      <3>3. RouteInv(Absorb(Opened(r, d), f), G \cup {f}, P)
        BY <1>2, <3>1, <3>2, AbsorbKeepsRoute
      <3>. QED BY <2>3, <2>4, <3>3
    <2>5. CASE r.open # None
      <3>1. RouteInv(Absorb(r, f), G \cup {f}, P)
        BY <1>2, <2>1, <2>5, AbsorbKeepsRoute
      <3>. QED BY <2>3, <2>5, <3>1
    <2>. QED BY <2>4, <2>5
  <1>. QED BY <1>1, <1>2

-----------------------------------------------------------------------------
(* StreamGuard: the frames that were held, one after the other.             *)

\* A set of numbers from 0 upwards that holds each with its predecessor holds all.
LEMMA Upwards ==
    ASSUME NEW N \in Nat, NEW T \in SUBSET (0..N), 0 \in T,
           \A n \in 1..N : n - 1 \in T => n \in T
    PROVE  T = 0..N
  <1>. DEFINE B == (0..N) \ T
  <1>. SUFFICES ASSUME B # {} PROVE FALSE
    OBVIOUS
  <1>1. B \subseteq Nat
    OBVIOUS
  <1>2. \E n \in B : \A m \in B : ~ (<<m, n>> \in OpToRel(<, Nat))
    BY <1>1, NatLessThanWellFounded, WFMin
  <1>. HIDE DEF B
  <1>3. PICK n \in B : \A m \in B : ~ (m < n)
    BY <1>1, <1>2, Zenon DEF OpToRel
  <1>. USE DEF B
  <1>4. n \in 1..N /\ n - 1 \in 0..N /\ n - 1 < n
    OBVIOUS
  <1>5. n - 1 \in T
    BY <1>3, <1>4
  <1>. QED BY <1>4, <1>5

\* The runs of the first frames are one longer than the other.
LEMMA ReplayRuns ==
    ASSUME NEW s, NEW fs, NEW N \in Nat
    PROVE  \E r : r = [k \in 0..N |-> IF k = 0 THEN s ELSE Replay(r[k - 1], fs[k])]
  <1>. DEFINE Runs(n) == \E r : r = [k \in 0..n |-> IF k = 0 THEN s ELSE Replay(r[k - 1], fs[k])]
              T == {n \in 0..N : Runs(n)}
  <1>1. 0 \in T
    <2>. DEFINE r == [k \in 0..0 |-> s]
    <2>1. r = [k \in 0..0 |-> IF k = 0 THEN s ELSE Replay(r[k - 1], fs[k])]
      OBVIOUS
    <2>2. Runs(0)
      BY <2>1
    <2>. HIDE DEF Runs
    <2>. QED BY <2>2
  <1>2. ASSUME NEW n \in 1..N, n - 1 \in T
        PROVE  n \in T
    <2>1. PICK r : r = [k \in 0..(n - 1) |-> IF k = 0 THEN s ELSE Replay(r[k - 1], fs[k])]
      BY <1>2
    <2>. DEFINE q == [k \in 0..n |-> IF k = n THEN Replay(r[n - 1], fs[n]) ELSE r[k]]
    <2>2. \A k \in 0..(n - 1) : q[k] = r[k] /\ k \in 0..n /\ k # n
      OBVIOUS
    <2>3. q[n] = Replay(r[n - 1], fs[n]) /\ n - 1 \in 0..(n - 1) /\ n # 0
      OBVIOUS
    <2>4. \A k \in 0..n : q[k] = IF k = 0 THEN s ELSE Replay(q[k - 1], fs[k])
      <3>. SUFFICES ASSUME NEW k \in 0..n
                    PROVE  q[k] = IF k = 0 THEN s ELSE Replay(q[k - 1], fs[k])
        OBVIOUS
      <3>. HIDE DEF q
      <3>1. CASE k = n
        BY <2>2, <2>3, <3>1
      <3>2. CASE k = 0
        <4>1. k \in 0..(n - 1)
          BY <3>2
        <4>. QED BY <2>1, <2>2, <3>2, <4>1
      <3>3. CASE k # n /\ k # 0
        <4>1. k \in 0..(n - 1) /\ k - 1 \in 0..(n - 1)
          BY <3>3
        <4>. QED BY <2>1, <2>2, <3>3, <4>1
      <3>. QED BY <3>1, <3>2, <3>3
    <2>5. q = [k \in 0..n |-> IF k = 0 THEN s ELSE Replay(q[k - 1], fs[k])]
      <3>1. q = [k \in 0..n |-> q[k]]
        OBVIOUS
      <3>. HIDE DEF q
      <3>. QED BY <2>4, <3>1
    <2>6. Runs(n)
      BY <2>5
    <2>. HIDE DEF Runs
    <2>. QED BY <2>6
  <1>3. T \in SUBSET (0..N)
    OBVIOUS
  <1>. HIDE DEF T
  <1>4. N \in T
    BY <1>1, <1>2, <1>3, Upwards
  <1>5. Runs(N)
    <2>. HIDE DEF Runs
    <2>. QED BY <1>4 DEF T
  <1>. QED BY <1>5

LEMMA ReplayUnfolds ==
    ASSUME NEW s, NEW fs \in Seq(Frames(Nat))
    PROVE  \E r : /\ r[0] = s
                  /\ \A n \in 1..Len(fs) : r[n] = Replay(r[n - 1], fs[n])
                  /\ ReplayAll(s, fs) = r[Len(fs)]
  <1>. DEFINE q == CHOOSE r : r = [n \in 0..Len(fs) |-> IF n = 0 THEN s ELSE Replay(r[n - 1], fs[n])]
  <1>1. q = [n \in 0..Len(fs) |-> IF n = 0 THEN s ELSE Replay(q[n - 1], fs[n])]
    BY ReplayRuns
  <1>2. ReplayAll(s, fs) = q[Len(fs)]
    BY DEF ReplayAll
  <1>. HIDE DEF q
  <1>3. q[0] = s /\ \A n \in 1..Len(fs) : q[n] = Replay(q[n - 1], fs[n])
    BY <1>1
  <1>. QED BY <1>2, <1>3

\* Every frame fits those before it.
FitInTurn(fs) == \A n \in DOMAIN fs : Fits({fs[m] : m \in 1..(n - 1)}, fs[n])

LEMMA ReplayKeeps ==
    ASSUME NEW s, NEW P, NEW fs \in Seq(Frames(Nat)), FitInTurn(fs), RouteInv(s, {}, P)
    PROVE  RouteInv(ReplayAll(s, fs), Range(fs), P)
  <1>. DEFINE G(n) == {fs[m] : m \in 1..n}
  <1>1. PICK r : /\ r[0] = s
                 /\ \A n \in 1..Len(fs) : r[n] = Replay(r[n - 1], fs[n])
                 /\ ReplayAll(s, fs) = r[Len(fs)]
    BY ReplayUnfolds
  <1>. DEFINE T == {n \in 0..Len(fs) : WellSent(G(n)) /\ RouteInv(r[n], G(n), P)}
  <1>2. 0 \in T
    <2>1. G(0) = {}
      OBVIOUS
    <2>2. WellSent({})
      BY DEF WellSent
    <2>3. WellSent(G(0)) /\ RouteInv(r[0], G(0), P) /\ 0 \in 0..Len(fs)
      BY <1>1, <2>1, <2>2
    <2>. HIDE DEF G
    <2>. QED BY <2>3
  <1>3. ASSUME NEW n \in 1..Len(fs), n - 1 \in T
        PROVE  n \in T
    <2>1. G(n) = G(n - 1) \cup {fs[n]}
      <3>1. \A m : m \in 1..n <=> m \in 1..(n - 1) \/ m = n
        OBVIOUS
      <3>. QED BY <3>1
    <2>2. fs[n] \in Frames(Nat) /\ Fits(G(n - 1), fs[n])
      BY DEF FitInTurn
    <2>3. WellSent(G(n - 1)) /\ RouteInv(r[n - 1], G(n - 1), P) /\ n - 1 \in 0..Len(fs)
      BY <1>3
    <2>4. r[n] = Replay(r[n - 1], fs[n])
      BY <1>1
    <2>. HIDE DEF G
    <2>5. WellSent(G(n))
      BY <2>1, <2>2, <2>3, SendMore
    <2>6. RouteInv(r[n], G(n), P)
      <3>1. CASE fs[n].kind = "ping"
        <4>1. r[n] = [r[n - 1] EXCEPT !.out = Append(@, fs[n])]
          BY <2>4, <3>1 DEF Replay
        <4>. QED BY <2>1, <2>2, <2>3, <3>1, <4>1, PingKeepsRoute
      <3>2. CASE fs[n].kind # "ping"
        <4>1. r[n] = Route(r[n - 1], fs[n])
          BY <2>4, <3>2 DEF Replay
        <4>. QED BY <2>1, <2>2, <2>3, <3>2, <4>1, RouteKeeps
      <3>. QED BY <3>1, <3>2
    <2>. QED BY <2>5, <2>6
  <1>4. T \in SUBSET (0..Len(fs)) /\ Len(fs) \in Nat
    OBVIOUS
  <1>5. G(Len(fs)) = Range(fs)
    BY DEF Range
  <1>. HIDE DEF T
  <1>6. Len(fs) \in T
    BY <1>2, <1>3, <1>4, Upwards
  <1>. QED BY <1>1, <1>5, <1>6 DEF T

-----------------------------------------------------------------------------
(* StreamGuard: the invariant.                                              *)

\* What the route takes in the end: all but the terminator and broken lines.
Carried == {f \in Sent : f.kind \notin {"done", "broken"}}

\* Frames that carry no calls do not count.
LEMMA CallsOnly ==
    ASSUME NEW F \in SUBSET Frames(Nat), NEW G \in SUBSET F, \A g \in F \ G : g.calls = <<>>, NEW c
    PROVE  /\ c \in Tracked(F) <=> c \in Tracked(G)
           /\ Named(F, c) <=> Named(G, c)
           /\ ArgsOf(F, c) = ArgsOf(G, c)
  <1>1. \A g \in F \ G : c \notin Tracked({g}) /\ ~Named({g}, c) /\ ArgsOf({g}, c) = {}
    BY FrameCalls
  <1>2. c \in Tracked(F) <=> c \in Tracked(G)
    BY <1>1, FrameByFrame
  <1>3. Named(F, c) <=> Named(G, c)
    <2>1. Named(F, c) <=> \E f \in F : Named({f}, c)
      BY FrameByFrame
    <2>2. Named(G, c) <=> \E f \in G : Named({f}, c)
      BY FrameByFrame
    <2>. QED BY <1>1, <2>1, <2>2
  <1>4. ArgsOf(F, c) = ArgsOf(G, c)
    <2>1. ArgsOf(F, c) = UNION {ArgsOf({f}, c) : f \in F}
      BY FrameByFrame
    <2>2. ArgsOf(G, c) = UNION {ArgsOf({f}, c) : f \in G}
      BY FrameByFrame
    <2>3. \A p : (\E f \in F : p \in ArgsOf({f}, c)) <=> \E f \in G : p \in ArgsOf({f}, c)
      BY <1>1
    <2>4. \A p : p \in ArgsOf(F, c) <=> p \in ArgsOf(G, c)
      BY <2>1, <2>2, <2>3
    <2>. QED BY <2>4
  <1>. QED BY <1>2, <1>3, <1>4

LEMMA FitsAmongCalls ==
    ASSUME NEW F \in SUBSET Frames(Nat), NEW G \in SUBSET F, \A g \in F \ G : g.calls = <<>>,
           NEW f, Fits(F, f)
    PROVE  Fits(G, f)
  BY CallsOnly DEF Fits

\* The invariant of the stream itself.
StreamInv ==
    /\ frames \in Seq(Frames(Nat)) /\ Len(frames) <= MaxFrames
    /\ \A i \in DOMAIN frames : frames[i] \in Frames({i})
    /\ \A f, g \in Sent : f.kind = "done" => g.at <= f.at
    /\ WellSent(Carried)
    /\ prior \subseteq ToolCalls
    /\ verdict \in Verdicts \cup {None}

\* Nothing has been proved yet.
HoldInv ==
    holding =>
        /\ route = FreshRoute /\ pending = <<>> /\ verdict # "pass"
        /\ held \in Seq(Frames(Nat)) /\ FitInTurn(held)
        /\ Range(held) = {f \in Sent : f.kind # "broken"}

\* The verdicts with which the loop asks again.
RetryVerdicts ==
    {"empty", "reject incomplete call", "reject malformed", "reject think only"}

\* The terminator waits for the verdict.
Kept(fs) ==
    \/ fs = <<>> /\ ~Saw("done")
    \/ \E f \in Sent : f.kind = "done" /\ fs = <<f>>

LiveInv ==
    ~holding /\ verdict = None =>
        /\ held = <<>> /\ Kept(pending)
        /\ RouteInv(route, Carried, prior)

OverInv ==
    ~holding /\ verdict # None =>
        /\ verdict \notin RetryVerdicts
        /\ held = <<>> /\ Kept(pending)
        /\ route \in Routes /\ route.open = None /\ route.prior \subseteq prior
        /\ Shown \subseteq Sent
        /\ OnlyWhole(Shown) /\ InOrder(route.out) /\ OnlyOnce(Shown, prior)
        /\ PassMeansAll

GuardInv ==
    /\ StreamInv
    /\ holding \in BOOLEAN
    /\ HoldInv
    /\ LiveInv
    /\ OverInv

LEMMA SentAreFrames ==
    ASSUME StreamInv
    PROVE  /\ Sent \subseteq Frames(Nat) /\ Carried \subseteq Sent
           /\ \A f \in Sent : f.at \in 1..Len(frames)
           /\ \A f, g \in Sent : f.at = g.at => f = g
           /\ \A g \in Sent \ Carried : g.calls = <<>>
  <1>1. \A f \in Sent : f.at \in 1..Len(frames) /\ f = frames[f.at] /\ f \in Frames(Nat)
    <2>. SUFFICES ASSUME NEW i \in 1..Len(frames)
                  PROVE  frames[i].at = i /\ frames[i] \in Frames(Nat)
      BY DEF StreamInv, Sent, Range
    <2>1. frames[i] \in Frames({i})
      BY DEF StreamInv
    <2>. QED BY <2>1 DEF Frames, StreamInv
  <1>2. \A g \in Sent \ Carried : g.calls = <<>>
    <2>. SUFFICES ASSUME NEW g \in Sent \ Carried PROVE g.calls = <<>>
      OBVIOUS
    <2>1. g \in Frames(Nat) /\ g.kind # "calls"
      BY <1>1 DEF Carried
    <2>. QED BY <2>1, FrameShape
  <1>. QED BY <1>1, <1>2 DEF Carried

\* The parts of the invariant the client has to do with.
LEMMA HeldFromStart ==
    ASSUME prior \subseteq ToolCalls
    PROVE  /\ RouteInv(FreshRoute, {}, prior) /\ FreshRoute.out = <<>> /\ FreshRoute.open = None
           /\ FreshRoute \in Routes /\ FreshRoute.prior = prior
  <1>1. /\ FreshRoute \in Routes /\ FreshRoute.open = None /\ FreshRoute.out = <<>>
        /\ FreshRoute.prior = prior
    BY DEF FreshRoute, Routes
  <1>2. Range(<<>>) = {} /\ InOrder(<<>>)
    BY DEF Range, InOrder
  <1>3. \A c : c \notin Tracked({})
    BY DEF Tracked, DeltasOf
  <1>4. OnlyWhole({}) /\ OnlyOnce({}, prior)
    BY <1>3 DEF OnlyWhole, OnlyOnce
  <1>5. ClientInv(FreshRoute, {}, prior)
    BY <1>1, <1>2, <1>4 DEF ClientInv, OpenInv, PriorInv, Mine
  <1>6. TurnInv(FreshRoute, {}, {}, prior)
    BY <1>1, <1>3 DEF TurnInv
  <1>. QED BY <1>1, <1>5, <1>6 DEF RouteInv, Unfinished

LEMMA GuardInitInv ==
    ASSUME GuardInit
    PROVE  GuardInv
  <1>1. frames = <<>> /\ Sent = {} /\ Carried = {}
    <2>1. Range(<<>>) = {}
      BY DEF Range
    <2>. QED BY <2>1 DEF GuardInit, Sent, Carried
  <1>2. prior \subseteq ToolCalls
    BY DEF GuardInit, ToolCall, ToolCalls, Pieces
  <1>3. StreamInv
    <2>1. WellSent({})
      BY DEF WellSent
    <2>2. verdict = None
      BY DEF GuardInit
    <2>. QED BY <1>1, <1>2, <2>1, <2>2, GuardAssumption DEF StreamInv
  <1>4. HoldInv
    <2>1. FitInTurn(<<>>) /\ Range(<<>>) = {}
      BY DEF FitInTurn, Range
    <2>2. verdict # "pass"
      BY GuardAssumption DEF GuardInit, Verdicts
    <2>. QED BY <1>1, <2>1, <2>2 DEF GuardInit, HoldInv
  <1>. QED BY <1>3, <1>4 DEF GuardInit, GuardInv, LiveInv, OverInv

\* A frame the upstream may send fits what it has sent.
LEMMA SendableFits ==
    ASSUME StreamInv, NEW f \in Frames({Len(frames) + 1}), Sendable(f)
    PROVE  f \in Frames(Nat) /\ Fits(Sent, f) /\ f.at = Len(frames) + 1
  <1>1. f \in Frames(Nat) /\ f.at = Len(frames) + 1
    BY DEF Frames, StreamInv
  <1>2. \A g \in Sent : g.at < f.at
    BY <1>1, SentAreFrames DEF StreamInv
  <1>3. ASSUME NEW c \in Tracked({f})
        PROVE  /\ Named({f}, c) => ~Named(Sent, c)
               /\ ~(Named(Sent, c) /\ Parses(ArgsOf(Sent, c)))
    <2>1. DeltasOf({f}, c) = {d \in Range(f.calls) : d.index = c}
      BY DEF DeltasOf
    <2>2. Named({f}, c) => ~Named(Sent, c)
      BY <2>1 DEF Named, Sendable
    <2>3. PICK d \in Range(f.calls) : d.index = c
      BY <1>3, <2>1 DEF Tracked
    <2>4. /\ d.args \cap ArgsOf(Sent, c) = {}
          /\ d.args \cup ArgsOf(Sent, c) \in {{}, {"part"}, {"part", "rest"}, {"whole"}}
          /\ d.named => ~Named(Sent, c)
          /\ d.args = {} => d.named \/ c \notin Tracked(Sent)
      BY <2>3 DEF Sendable
    <2>5. Parses(ArgsOf(Sent, c)) => d.args = {}
      BY <2>4 DEF Parses
    <2>6. Named(Sent, c) => c \in Tracked(Sent)
      <3>1. Sent \in SUBSET Frames(Nat)
        BY SentAreFrames
      <3>. QED BY <3>1, Untracked
    <2>. QED BY <2>2, <2>4, <2>5, <2>6
  <1>. QED BY <1>1, <1>2, <1>3 DEF Fits

\* A frame arrives.
LEMMA OneFrameSent ==
    ASSUME StreamInv, Running, NEW f \in Frames({Len(frames) + 1}), Sendable(f),
           frames' = Append(frames, f), UNCHANGED <<prior, verdict>>
    PROVE  /\ StreamInv' /\ Sent' = Sent \cup {f} /\ ~Saw("done")
           /\ f \in Frames(Nat) /\ Fits(Carried, f)
           /\ \A G \in SUBSET Sent : (\A g \in Sent \ G : g.calls = <<>>) => Fits(G, f)
           /\ f.kind \notin {"done", "broken"} => Carried' = Carried \cup {f}
           /\ f.kind \in {"done", "broken"} => Carried' = Carried
  <1>1. /\ f \in Frames(Nat) /\ Fits(Sent, f) /\ f.at = Len(frames) + 1
        /\ Sent \subseteq Frames(Nat) /\ Carried \subseteq Sent
        /\ \A g \in Sent : g.at \in 1..Len(frames)
        /\ \A g \in Sent \ Carried : g.calls = <<>>
    BY SendableFits, SentAreFrames
  <1>2. \A G \in SUBSET Sent : (\A g \in Sent \ G : g.calls = <<>>) => Fits(G, f)
    BY <1>1, FitsAmongCalls
  <1>3. frames' \in Seq(Frames(Nat)) /\ Sent' = Sent \cup {f}
    BY <1>1, AppendFrame DEF StreamInv, Sent
  <1>4. /\ f.kind \notin {"done", "broken"} => Carried' = Carried \cup {f}
        /\ f.kind \in {"done", "broken"} => Carried' = Carried
    BY <1>3 DEF Carried
  <1>5. Fits(Carried, f)
    BY <1>1, <1>2
  <1>6. WellSent(Carried')
    BY <1>1, <1>4, <1>5, SendMore DEF StreamInv
  <1>7. WellSent(Carried)'
    BY <1>6 DEF WellSent, Earlier, Fits
  <1>8. ~Saw("done")
    BY DEF Sendable
  <1>9. \A g, h \in Sent' : g.kind = "done" => h.at <= g.at
    <2>. SUFFICES ASSUME NEW g \in Sent', NEW h \in Sent', g.kind = "done"
                  PROVE  h.at <= g.at
      OBVIOUS
    <2>1. g = f
      BY <1>3, <1>8 DEF Saw
    <2>2. Len(frames) \in Nat
      BY DEF StreamInv
    <2>. QED BY <1>1, <1>3, <2>1, <2>2
  <1>10. Len(frames') <= MaxFrames /\ \A i \in DOMAIN frames' : frames'[i] \in Frames({i})
    <2>1. /\ DOMAIN frames' = 1..(Len(frames) + 1) /\ Len(frames') = Len(frames) + 1
          /\ DOMAIN frames = 1..Len(frames) /\ Len(frames) \in Nat
          /\ frames'[Len(frames) + 1] = f /\ \A i \in 1..Len(frames) : frames'[i] = frames[i]
      BY <1>1 DEF StreamInv
    <2>2. Len(frames') <= MaxFrames
      BY <2>1, GuardAssumption DEF Running
    <2>3. ASSUME NEW i \in 1..(Len(frames) + 1) PROVE frames'[i] \in Frames({i})
      <3>1. i \in 1..Len(frames) \/ i = Len(frames) + 1
        BY <2>1
      <3>2. \A k \in 1..Len(frames) : frames[k] \in Frames({k})
        BY <2>1 DEF StreamInv
      <3>. QED BY <2>1, <3>1, <3>2
    <2>. QED BY <2>1, <2>2, <2>3
  <1>11. prior' \subseteq ToolCalls /\ verdict' \in Verdicts \cup {None}
    BY DEF StreamInv
  <1>12. StreamInv'
    BY <1>3, <1>7, <1>9, <1>10, <1>11 DEF StreamInv
  <1>. QED BY <1>1, <1>2, <1>3, <1>4, <1>5, <1>8, <1>12

\* One more frame is held.
LEMMA HoldMore ==
    ASSUME NEW fs \in Seq(Frames(Nat)), FitInTurn(fs), NEW f \in Frames(Nat), Fits(Range(fs), f)
    PROVE  /\ Append(fs, f) \in Seq(Frames(Nat)) /\ FitInTurn(Append(fs, f))
           /\ Range(Append(fs, f)) = Range(fs) \cup {f}
  <1>. DEFINE more == Append(fs, f)
  <1>1. more \in Seq(Frames(Nat)) /\ Range(more) = Range(fs) \cup {f}
    BY AppendFrame
  <1>2. /\ DOMAIN more = 1..(Len(fs) + 1) /\ DOMAIN fs = 1..Len(fs) /\ Len(fs) \in Nat
        /\ more[Len(fs) + 1] = f /\ \A i \in 1..Len(fs) : more[i] = fs[i]
    OBVIOUS
  <1>. HIDE DEF more
  <1>3. ASSUME NEW n \in 1..(Len(fs) + 1)
        PROVE  Fits({more[m] : m \in 1..(n - 1)}, more[n])
    <2>1. \A m \in 1..(n - 1) : m \in 1..Len(fs)
      BY <1>2
    <2>2. {more[m] : m \in 1..(n - 1)} = {fs[m] : m \in 1..(n - 1)}
      BY <1>2, <2>1
    <2>3. CASE n = Len(fs) + 1
      <3>1. {fs[m] : m \in 1..(n - 1)} = Range(fs)
        BY <1>2, <2>3 DEF Range
      <3>. QED BY <1>2, <2>2, <2>3, <3>1
    <2>4. CASE n # Len(fs) + 1
      <3>1. n \in 1..Len(fs)
        BY <1>2, <2>4
      <3>. QED BY <1>2, <2>2, <3>1 DEF FitInTurn
    <2>. QED BY <2>3, <2>4
  <1>. QED BY <1>1, <1>2, <1>3 DEF FitInTurn, more

\* A line of the stream keeps the invariant: held, released or routed.
LEMMA LineKeeps ==
    ASSUME GuardInv, Line
    PROVE  GuardInv'
  <1>0. /\ StreamInv /\ HoldInv /\ LiveInv /\ Running /\ holding \in BOOLEAN
        /\ prior' = prior /\ verdict' = verdict /\ verdict = None
    BY DEF GuardInv, Line, Running
  <1>1. PICK f \in Frames({Len(frames) + 1}) :
          /\ Sendable(f)
          /\ Terminator(f) \/ Broken(f) \/ Ping(f) \/ Held(f) \/ Released(f) \/ Routed(f)
          /\ frames' = Append(frames, f)
    BY DEF Line
  <1>2. /\ StreamInv' /\ Sent' = Sent \cup {f} /\ ~Saw("done")
        /\ f \in Frames(Nat) /\ Fits(Carried, f)
        /\ \A G \in SUBSET Sent : (\A g \in Sent \ G : g.calls = <<>>) => Fits(G, f)
        /\ f.kind \notin {"done", "broken"} => Carried' = Carried \cup {f}
        /\ f.kind \in {"done", "broken"} => Carried' = Carried
    BY <1>0, <1>1, OneFrameSent
  <1>3. WellSent(Carried) /\ prior \subseteq ToolCalls
    BY <1>0 DEF StreamInv
  <1>4. OverInv'
    BY <1>0 DEF OverInv
  \* What is held, and what is kept.
  <1>5. ASSUME holding, f.kind # "broken"
        PROVE  /\ held \in Seq(Frames(Nat)) /\ FitInTurn(held)
               /\ Append(held, f) \in Seq(Frames(Nat)) /\ FitInTurn(Append(held, f))
               /\ Range(Append(held, f)) = {g \in Sent' : g.kind # "broken"}
    <2>1. /\ held \in Seq(Frames(Nat)) /\ FitInTurn(held)
          /\ Range(held) = {g \in Sent : g.kind # "broken"}
      BY <1>0, <1>5 DEF HoldInv
    <2>2. \A g \in Sent \ Range(held) : g.calls = <<>>
      <3>1. \A g \in Sent \ Carried : g.calls = <<>>
        BY <1>0, SentAreFrames
      <3>. QED BY <2>1, <3>1 DEF Carried
    <2>3. Fits(Range(held), f)
      BY <1>2, <2>1, <2>2
    <2>. QED BY <1>2, <1>5, <2>1, <2>3, HoldMore
  <1>6. ASSUME holding, f.kind # "broken", holding' = holding, held' = Append(held, f),
               UNCHANGED <<route, pending>>
        PROVE  GuardInv'
    <2>1. HoldInv'
      <3>1. route' = FreshRoute'
        BY <1>0, <1>6 DEF HoldInv, FreshRoute
      <3>2. pending' = <<>> /\ verdict' # "pass"
        BY <1>0, <1>6, GuardAssumption DEF HoldInv, Verdicts
      <3>. QED BY <1>5, <1>6, <3>1, <3>2 DEF HoldInv
    <2>. QED BY <1>0, <1>2, <1>4, <1>6, <2>1 DEF GuardInv, LiveInv
  <1>7. ASSUME ~holding, f.kind # "done", holding' = holding, held' = held, pending' = pending,
               RouteInv(route', Carried', prior)
        PROVE  GuardInv'
    <2>1. held = <<>> /\ Kept(pending)
      BY <1>0, <1>7 DEF LiveInv
    <2>2. Kept(pending)'
      BY <1>2, <1>7, <2>1 DEF Kept, Saw
    <2>3. RouteInv(route, Carried, prior)'
      BY <1>0, <1>7
    <2>4. LiveInv'
      BY <1>7, <2>1, <2>2, <2>3 DEF LiveInv
    <2>. QED BY <1>0, <1>2, <1>4, <1>7, <2>4 DEF GuardInv, HoldInv
  <1>8. CASE Terminator(f)
    <2>1. f.kind = "done" /\ holding' = holding /\ route' = route
      BY <1>8 DEF Terminator
    <2>2. CASE holding
      <3>1. held' = Append(held, f) /\ pending' = pending
        BY <1>8, <2>2 DEF Terminator
      <3>. QED BY <1>6, <2>1, <2>2, <3>1
    <2>3. CASE ~holding
      <3>1. pending' = <<f>> /\ held' = held
        BY <1>8, <2>3 DEF Terminator
      <3>2. held = <<>> /\ RouteInv(route, Carried, prior)
        BY <1>0, <2>3 DEF LiveInv
      <3>3. Kept(pending)'
        BY <1>2, <2>1, <3>1 DEF Kept
      <3>4. RouteInv(route, Carried, prior)'
        BY <1>0, <1>2, <2>1, <3>2
      <3>5. LiveInv'
        BY <3>1, <3>2, <3>3, <3>4 DEF LiveInv
      <3>. QED BY <1>0, <1>2, <1>4, <2>1, <2>3, <3>5 DEF GuardInv, HoldInv
    <2>. QED BY <2>2, <2>3
  <1>9. CASE Broken(f)
    <2>1. f.kind = "broken" /\ UNCHANGED <<holding, held, pending, route>> /\ Carried' = Carried
      BY <1>2, <1>9 DEF Broken
    <2>2. CASE holding
      <3>1. HoldInv'
        <4>1. route' = FreshRoute'
          BY <1>0, <2>1, <2>2 DEF HoldInv, FreshRoute
        <4>2. {g \in Sent' : g.kind # "broken"} = {g \in Sent : g.kind # "broken"}
          BY <1>2, <2>1
        <4>. QED BY <1>0, <2>1, <2>2, <4>1, <4>2 DEF HoldInv
      <3>. QED BY <1>0, <1>2, <1>4, <2>1, <2>2, <3>1 DEF GuardInv, LiveInv
    <2>3. CASE ~holding
      <3>1. RouteInv(route', Carried', prior)
        BY <1>0, <2>1, <2>3 DEF LiveInv
      <3>. QED BY <1>7, <2>1, <2>3, <3>1
    <2>. QED BY <2>2, <2>3
  <1>10. CASE Ping(f)
    <2>1. f.kind = "ping" /\ UNCHANGED <<holding, pending>>
      BY <1>10 DEF Ping
    <2>2. CASE holding
      <3>1. held' = Append(held, f) /\ route' = route
        BY <1>10, <2>2 DEF Ping
      <3>. QED BY <1>6, <2>1, <2>2, <3>1
    <2>3. CASE ~holding
      <3>1. route' = [route EXCEPT !.out = Append(@, f)] /\ held' = held
        BY <1>10, <2>3 DEF Ping
      <3>2. RouteInv(route, Carried, prior)
        BY <1>0, <2>3 DEF LiveInv
      <3>3. RouteInv(route', Carried', prior)
        BY <1>2, <1>3, <2>1, <3>1, <3>2, PingKeepsRoute
      <3>. QED BY <1>7, <2>1, <2>3, <3>1, <3>3
    <2>. QED BY <2>2, <2>3
  <1>11. CASE Held(f)
    <2>1. /\ f.kind \notin {"done", "broken", "ping"} /\ holding /\ held' = Append(held, f)
          /\ UNCHANGED <<holding, pending, route>>
      BY <1>11 DEF Held
    <2>. QED BY <1>6, <2>1
  <1>12. CASE Released(f)
    <2>1. /\ f.kind \notin {"done", "broken", "ping"} /\ holding /\ holding' = FALSE /\ held' = <<>>
          /\ route' = ReplayAll(route, Append(held, f)) /\ pending' = pending
      BY <1>12 DEF Released, Proving
    <2>2. route = FreshRoute /\ pending = <<>>
      BY <1>0, <2>1 DEF HoldInv
    <2>3. RouteInv(route, {}, prior)
      BY <1>3, <2>2, HeldFromStart
    <2>4. Range(Append(held, f)) = Carried'
      <3>1. Range(Append(held, f)) = {g \in Sent' : g.kind # "broken"}
        BY <1>5, <2>1
      <3>2. \A g \in Sent' : g.kind # "done"
        BY <1>2, <2>1 DEF Saw
      <3>. QED BY <3>1, <3>2 DEF Carried
    <2>5. RouteInv(route', Carried', prior)
      BY <1>5, <2>1, <2>3, <2>4, ReplayKeeps
    <2>6. Kept(pending)'
      BY <1>2, <2>1, <2>2 DEF Kept, Saw
    <2>7. RouteInv(route, Carried, prior)'
      BY <1>0, <2>5
    <2>8. LiveInv'
      BY <2>1, <2>6, <2>7 DEF LiveInv
    <2>. QED BY <1>2, <1>4, <2>1, <2>8 DEF GuardInv, HoldInv
  <1>13. CASE Routed(f)
    <2>1. /\ f.kind \notin {"done", "broken", "ping"} /\ ~holding /\ route' = Route(route, f)
          /\ UNCHANGED <<holding, held, pending>>
      BY <1>13 DEF Routed
    <2>2. RouteInv(route, Carried, prior)
      BY <1>0, <2>1 DEF LiveInv
    <2>3. RouteInv(route', Carried', prior)
      BY <1>2, <1>3, <2>1, <2>2, RouteKeeps
    <2>. QED BY <1>7, <2>1, <2>3
  <1>. QED BY <1>1, <1>8, <1>9, <1>10, <1>11, <1>12, <1>13

\* The open call is closed when the upstream ends.
LEMMA TailIsClosed ==
    ASSUME GuardInv, ~holding, verdict = None
    PROVE  ClientInv(CloseTail, Carried, prior) /\ CloseTail.open = None
  <1>1. RouteInv(route, Carried, prior) /\ WellSent(Carried)
    BY DEF GuardInv, LiveInv, StreamInv
  <1>2. CASE route.open = None
    BY <1>1, <1>2 DEF RouteInv, CloseTail
  <1>3. CASE route.open # None
    BY <1>1, <1>3, CloseKeepsClient DEF RouteInv, CloseTail
  <1>. QED BY <1>2, <1>3

\* A stream that passes has no call that is not whole: nothing is lost, and
\* closing the last call gives the client all that waited.
LEMMA PassIsWhole ==
    ASSUME GuardInv, ~holding, verdict = None, ReleasedVerdict = "pass", InTurn(Sent), prior = {}
    PROVE  \A f \in Sent : f.kind # "ping" => f \in Range(CloseTail.out) \cup Range(pending)
  <1>0. /\ StreamInv /\ RouteInv(route, Carried, prior) /\ Kept(pending)
        /\ Sent \in SUBSET Frames(Nat) /\ Carried \in SUBSET Sent
        /\ \A g \in Sent \ Carried : g.calls = <<>>
    BY SentAreFrames DEF GuardInv, LiveInv
  <1>1. ~HasIncompleteToolCall /\ ~Saw("broken") /\ ~HasTruncatedToolArgs
    BY DEF ReleasedVerdict
  <1>2. \A c \in Tracked(Sent) :
           Named(Sent, c) /\ (ArgsOf(Sent, c) = {} \/ Parses(ArgsOf(Sent, c)))
    BY <1>1 DEF HasIncompleteToolCall, HasTruncatedToolArgs
  <1>3. \A c \in Tracked(Carried) :
           Named(Carried, c) /\ (ArgsOf(Carried, c) = {} \/ Parses(ArgsOf(Carried, c)))
    BY <1>0, <1>2, CallsOnly
  <1>4. InTurn(Carried)
    BY <1>0, TurnIsPrefixClosed
  <1>5. \A f \in Carried : f.kind # "ping" => f \in Range(route.out) \cup Mine(route)
    <2>1. ~ \E c \in Calls : Lost(Carried, c)
      BY <1>3 DEF Lost
    <2>. QED BY <1>0, <1>4, <2>1 DEF RouteInv, TurnInv
  <1>6. Range(CloseTail.out) = Range(route.out) \cup Mine(route)
    <2>1. CASE route.open = None
      BY <2>1 DEF CloseTail, Mine
    <2>2. CASE route.open # None
      <3>. DEFINE c == route.open.index
      <3>1. /\ route \in Routes /\ ClientInv(route, Carried, prior)
            /\ TurnInv(route, Carried, Carried, prior) /\ route.prior = {}
        BY <1>0 DEF RouteInv, ClientInv, PriorInv
      <3>2. c \in Tracked(Carried)
        <4>1. c \in Tracked(Mine(route)) /\ Mine(route) \subseteq Carried
          BY <1>0, <2>2 DEF RouteInv, Unfinished, ClientInv
        <4>. QED BY <4>1, FrameByFrame
      <3>3. Named(Carried, c) = route.open.named /\ ArgsOf(Carried, c) = route.open.args
        <4>1. Carried \in SUBSET Frames(Nat)
          BY <1>0
        <4>. QED BY <1>4, <2>2, <3>1, <4>1, AllIsMine
      <3>4. Whole(route.open, TRUE)
        BY <1>3, <3>2, <3>3 DEF Whole
      <3>5. CloseTail.out = route.out \o route.open.withheld
        BY <2>2, <3>1, <3>4, CloseCases DEF CloseTail
      <3>6. route.out \in Seq(Frames(Nat)) /\ route.open.withheld \in Seq(Frames(Nat))
        BY <2>2, <3>1, OpenIsTyped DEF Routes
      <3>7. Range(route.out \o route.open.withheld) = Range(route.out) \cup Range(route.open.withheld)
        BY <3>6, JoinFrames
      <3>. QED BY <2>2, <3>5, <3>7 DEF Mine
    <2>. QED BY <2>1, <2>2
  <1>7. \A f \in Sent \ Carried : f \in Range(pending)
    <2>. SUFFICES ASSUME NEW f \in Sent, f \notin Carried PROVE f \in Range(pending)
      OBVIOUS
    <2>1. f.kind = "done"
      BY <1>1 DEF Carried, Saw
    <2>2. PICK g \in Sent : g.kind = "done" /\ pending = <<g>>
      BY <1>0, <2>1 DEF Kept, Saw
    <2>3. f = g
      <3>1. f.at <= g.at /\ g.at <= f.at
        BY <1>0, <2>1, <2>2 DEF StreamInv
      <3>2. f.at \in Nat /\ g.at \in Nat
        BY <1>0, FrameShape
      <3>. QED BY <1>0, <3>1, <3>2, SentAreFrames
    <2>. QED BY <2>2, <2>3 DEF Range
  <1>. QED BY <1>5, <1>6, <1>7

\* What is shown together with a pass.
LEMMA PassShows ==
    ASSUME GuardInv, ~holding, verdict = None,
           NEW r, ClientInv(r, Carried, prior), NEW o, o = r.out \o pending
    PROVE  /\ o \in Seq(Frames(Nat)) /\ Range(o) = Range(r.out) \cup Range(pending)
           /\ Range(o) \subseteq Sent
           /\ OnlyWhole(Range(o)) /\ InOrder(o) /\ OnlyOnce(Range(o), prior)
  <1>0. /\ StreamInv /\ Kept(pending) /\ r.out \in Seq(Frames(Nat)) /\ Range(r.out) \subseteq Carried
        /\ OnlyWhole(Range(r.out)) /\ InOrder(r.out) /\ OnlyOnce(Range(r.out), prior)
        /\ Sent \in SUBSET Frames(Nat) /\ Carried \in SUBSET Sent
    BY SentAreFrames DEF GuardInv, LiveInv, ClientInv, Routes
  <1>1. /\ pending \in Seq(Frames(Nat)) /\ InOrder(pending)
        /\ \A f \in Range(pending) : f \in Sent /\ f.kind = "done"
    <2>1. CASE pending = <<>>
      BY <2>1 DEF InOrder, Range
    <2>2. CASE \E f \in Sent : f.kind = "done" /\ pending = <<f>>
      <3>1. PICK f \in Sent : f.kind = "done" /\ pending = <<f>>
        BY <2>2
      <3>2. f \in Frames(Nat)
        BY <1>0
      <3>3. pending \in Seq(Frames(Nat)) /\ DOMAIN pending = 1..1 /\ pending[1] = f
        BY <3>1, <3>2
      <3>4. InOrder(pending) /\ Range(pending) = {f}
        BY <3>3 DEF InOrder, Range
      <3>. QED BY <3>1, <3>3, <3>4
    <2>. QED BY <1>0, <2>1, <2>2 DEF Kept
  <1>2. /\ o \in Seq(Frames(Nat)) /\ Range(o) = Range(r.out) \cup Range(pending)
        /\ Range(o) \subseteq Sent
    BY <1>0, <1>1, JoinFrames
  <1>3. InOrder(o)
    <2>1. \A f \in Range(r.out), g \in Range(pending) : f.at < g.at
      <3>. SUFFICES ASSUME NEW f \in Range(r.out), NEW g \in Range(pending) PROVE f.at < g.at
        OBVIOUS
      <3>1. f \in Sent /\ g \in Sent /\ g.kind = "done" /\ f.kind # "done"
        BY <1>0, <1>1 DEF Carried
      <3>2. f.at <= g.at /\ f.at # g.at
        BY <1>0, <3>1, SentAreFrames DEF StreamInv
      <3>3. f.at \in Nat /\ g.at \in Nat
        BY <1>0, <3>1, FrameShape
      <3>. QED BY <3>2, <3>3
    <2>. QED BY <1>0, <1>1, <2>1, JoinInOrder
  <1>4. \A g \in Range(o) \ Range(r.out) : g.calls = <<>>
    <2>. SUFFICES ASSUME NEW g \in Range(pending) PROVE g.calls = <<>>
      BY <1>2
    <2>1. g \in Frames(Nat) /\ g.kind # "calls"
      BY <1>0, <1>1
    <2>. QED BY <2>1, FrameShape
  <1>5. /\ Range(o) \in SUBSET Frames(Nat) /\ Range(r.out) \in SUBSET Range(o)
    BY <1>0, <1>2
  <1>6. \A c : /\ c \in Tracked(Range(o)) <=> c \in Tracked(Range(r.out))
               /\ Named(Range(o), c) <=> Named(Range(r.out), c)
               /\ ArgsOf(Range(o), c) = ArgsOf(Range(r.out), c)
    BY <1>4, <1>5, CallsOnly
  <1>7. \A c : InBatch(Range(r.out), c) => InBatch(Range(o), c)
    BY <1>5 DEF InBatch
  <1>8. OnlyWhole(Range(o))
    BY <1>0, <1>6 DEF OnlyWhole
  <1>9. OnlyOnce(Range(o), prior)
    BY <1>0, <1>6, <1>7 DEF OnlyOnce
  <1>. QED BY <1>2, <1>3, <1>8, <1>9

LEMMA FinishKeeps ==
    ASSUME GuardInv, Finish
    PROVE  GuardInv'
  <1>0. /\ StreamInv /\ HoldInv /\ LiveInv /\ holding \in BOOLEAN /\ verdict = None
        /\ UNCHANGED <<frames, holding, held, pending, prior>>
        /\ verdict' = IF holding THEN HoldingVerdict ELSE ReleasedVerdict
        /\ route' = IF verdict' = "pass" THEN [CloseTail EXCEPT !.out = @ \o pending]
                    ELSE [CloseTail EXCEPT !.out = route.out]
    BY DEF GuardInv, Finish
  <1>1. HoldingVerdict \in Verdicts \ {"pass"} /\ ReleasedVerdict \in Verdicts \ RetryVerdicts
    BY DEF HoldingVerdict, ReleasedVerdict, Verdicts, RetryVerdicts
  <1>2. verdict' \in Verdicts /\ verdict' # None /\ (holding => verdict' # "pass")
    BY <1>0, <1>1, GuardAssumption
  <1>3. Sent' = Sent /\ Carried' = Carried
    BY <1>0 DEF Sent, Carried
  <1>4. StreamInv'
    <2>1. WellSent(Carried)'
      BY <1>0, <1>3 DEF StreamInv
    <2>. QED BY <1>0, <1>2, <1>3, <2>1 DEF StreamInv
  <1>5. CASE holding
    <2>1. route = FreshRoute /\ prior \subseteq ToolCalls
      BY <1>0, <1>5 DEF HoldInv, StreamInv
    <2>2. route \in Routes /\ route.open = None
      BY <2>1, HeldFromStart
    <2>3. route' = [route EXCEPT !.out = route.out]
      BY <1>0, <1>2, <1>5, <2>2 DEF CloseTail
    <2>4. route' = route
      BY <2>2, <2>3 DEF Routes
    <2>5. HoldInv'
      <3>1. route' = FreshRoute'
        BY <1>0, <2>1, <2>4 DEF FreshRoute
      <3>. QED BY <1>0, <1>2, <1>3, <1>5, <3>1 DEF HoldInv
    <2>. QED BY <1>0, <1>4, <1>5, <2>5 DEF GuardInv, LiveInv, OverInv
  <1>6. CASE ~holding
    <2>. DEFINE r == CloseTail
    <2>1. ClientInv(r, Carried, prior) /\ r.open = None
      BY <1>0, <1>6, TailIsClosed
    <2>2. /\ held = <<>> /\ Kept(pending) /\ ClientInv(route, Carried, prior)
      BY <1>0, <1>6 DEF LiveInv, RouteInv
    <2>3. /\ r = [open |-> None, completed |-> r.completed, prior |-> r.prior, out |-> r.out]
          /\ r.completed \in Seq(ToolCalls) /\ r.prior \in SUBSET ToolCalls /\ r.prior \subseteq prior
          /\ Carried \subseteq Sent
      BY <1>0, <2>1, SentAreFrames DEF ClientInv, Routes, PriorInv
    <2>4. Kept(pending)'
      BY <1>0, <1>3, <2>2 DEF Kept, Saw
    <2>5. ASSUME NEW o, o \in Seq(Frames(Nat)), route' = [r EXCEPT !.out = o],
                 Range(o) \subseteq Sent, OnlyWhole(Range(o)), InOrder(o), OnlyOnce(Range(o), prior),
                 verdict' = "pass" /\ InTurn(Sent) /\ prior = {} =>
                     \A f \in Sent : f.kind # "ping" => f \in Range(o)
          PROVE  OverInv'
      <3>. HIDE DEF r
      <3>1. route' = [open |-> None, completed |-> r.completed, prior |-> r.prior, out |-> o]
        BY <2>3, <2>5
      <3>2. route' \in Routes /\ route'.open = None /\ route'.prior \subseteq prior /\ route'.out = o
        BY <2>3, <2>5, <3>1 DEF Routes
      <3>3. Shown' = Range(o)
        BY <3>2 DEF Shown
      <3>4. PassMeansAll'
        BY <1>0, <1>3, <2>5, <3>3 DEF PassMeansAll
      <3>5. verdict' \notin RetryVerdicts
        BY <1>0, <1>1, <1>6
      <3>. QED BY <1>0, <1>3, <2>2, <2>4, <2>5, <3>2, <3>3, <3>4, <3>5 DEF OverInv
    <2>6. CASE verdict' = "pass"
      <3>. DEFINE o == r.out \o pending
      <3>1. route' = [r EXCEPT !.out = o]
        BY <1>0, <2>3, <2>6
      <3>2. /\ o \in Seq(Frames(Nat)) /\ Range(o) = Range(r.out) \cup Range(pending)
            /\ Range(o) \subseteq Sent
            /\ OnlyWhole(Range(o)) /\ InOrder(o) /\ OnlyOnce(Range(o), prior)
        BY <1>0, <1>6, <2>1, PassShows
      <3>3. InTurn(Sent) /\ prior = {} => \A f \in Sent : f.kind # "ping" => f \in Range(o)
        <4>1. ReleasedVerdict = "pass"
          BY <1>0, <1>6, <2>6
        <4>. QED BY <1>0, <1>6, <3>2, <4>1, PassIsWhole
      <3>. HIDE DEF o, r
      <3>4. OverInv'
        BY <2>5, <3>1, <3>2, <3>3
      <3>. QED BY <1>0, <1>4, <1>6, <1>2, <3>4 DEF GuardInv, HoldInv, LiveInv
    <2>7. CASE verdict' # "pass"
      <3>1. route' = [r EXCEPT !.out = route.out]
        BY <1>0, <2>7
      <3>2. /\ route.out \in Seq(Frames(Nat)) /\ Range(route.out) \subseteq Sent
            /\ OnlyWhole(Range(route.out)) /\ InOrder(route.out)
            /\ OnlyOnce(Range(route.out), prior)
        BY <2>2, <2>3 DEF ClientInv, Routes
      <3>. HIDE DEF r
      <3>3. OverInv'
        BY <2>5, <2>7, <3>1, <3>2
      <3>. QED BY <1>0, <1>4, <1>6, <1>2, <3>3 DEF GuardInv, HoldInv, LiveInv
    <2>. QED BY <2>6, <2>7
  <1>. QED BY <1>0, <1>5, <1>6

LEMMA GuardInvStep == GuardInv /\ [GuardNext]_guardVars => GuardInv'
  <1>. SUFFICES ASSUME GuardInv, [GuardNext]_guardVars PROVE GuardInv'
    OBVIOUS
  <1>1. CASE Done \/ UNCHANGED guardVars
    <2>1. /\ UNCHANGED <<frames, holding, held, route, pending, prior, verdict>>
          /\ Sent' = Sent /\ Carried' = Carried /\ Shown' = Shown
      BY <1>1 DEF Done, guardVars, Sent, Carried, Shown
    <2>2. StreamInv'
      <3>1. WellSent(Carried)'
        BY <2>1 DEF GuardInv, StreamInv
      <3>. QED BY <2>1, <3>1 DEF GuardInv, StreamInv
    <2>3. HoldInv'
      <3>1. FreshRoute' = FreshRoute
        BY <2>1 DEF FreshRoute
      <3>. QED BY <2>1, <3>1 DEF GuardInv, HoldInv
    <2>4. Kept(pending)' = Kept(pending)
      BY <2>1 DEF Kept, Saw
    <2>5. LiveInv'
      <3>1. RouteInv(route, Carried, prior)' = RouteInv(route, Carried, prior)
        BY <2>1
      <3>. QED BY <2>1, <2>4, <3>1 DEF GuardInv, LiveInv
    <2>6. OverInv'
      <3>1. PassMeansAll' = PassMeansAll
        BY <2>1 DEF PassMeansAll
      <3>. QED BY <2>1, <2>4, <3>1 DEF GuardInv, OverInv
    <2>. QED BY <2>1, <2>2, <2>3, <2>5, <2>6 DEF GuardInv
  <1>2. CASE GuardNext
    BY <1>1, <1>2, LineKeeps, FinishKeeps DEF GuardNext
  <1>. QED BY <1>1, <1>2

LEMMA GuardInvHolds == GuardSpec => []GuardInv
  <1>. QED BY GuardInitInv, GuardInvStep, PTL DEF GuardSpec

\* What the invariant says of the client.
LEMMA GuardKeepsClient ==
    ASSUME GuardInv
    PROVE  /\ OnlyWhole(Shown) /\ InOrder(route.out) /\ OnlyOnce(Shown, prior)
           /\ route \in Routes /\ route.prior \subseteq prior
           /\ Shown \subseteq Sent
  <1>1. CASE holding
    <2>1. route = FreshRoute /\ prior \subseteq ToolCalls
      BY <1>1 DEF GuardInv, HoldInv, StreamInv
    <2>2. ClientInv(route, {}, prior) /\ route.out = <<>>
      BY <2>1, HeldFromStart DEF RouteInv
    <2>3. Shown = {}
      BY <2>2 DEF Shown, Range
    <2>. QED BY <2>2, <2>3 DEF ClientInv, PriorInv, Shown
  <1>2. CASE ~holding /\ verdict = None
    <2>1. ClientInv(route, Carried, prior)
      BY <1>2 DEF GuardInv, LiveInv, RouteInv
    <2>2. Carried \subseteq Sent
      BY DEF Carried
    <2>. QED BY <2>1, <2>2 DEF ClientInv, PriorInv, Shown
  <1>3. CASE ~holding /\ verdict # None
    BY <1>3 DEF GuardInv, OverInv
  <1>. QED BY <1>1, <1>2, <1>3

\* Types, for streams of any length and any calls.
THEOREM GuardTypeCorrect == GuardSpec => []GuardTypeOK
  <1>1. GuardInv => GuardTypeOK
    <2>. SUFFICES ASSUME GuardInv PROVE GuardTypeOK
      OBVIOUS
    <2>1. /\ Len(frames) <= MaxFrames /\ \A i \in DOMAIN frames : frames[i] \in Frames({i})
          /\ holding \in BOOLEAN /\ verdict \in Verdicts \cup {None}
      BY DEF GuardInv, StreamInv
    <2>2. route \in Routes /\ route.prior \subseteq prior /\ Shown \subseteq Sent
      BY GuardKeepsClient
    <2>3. route \in [open : OpenCalls \cup {None}, completed : Seq(ToolCalls), prior : SUBSET prior,
                     out : Seq(Frames(Nat))]
      BY <2>2 DEF Routes
    <2>4. /\ ~holding => held = <<>>
          /\ Range(held) \cup Range(pending) \subseteq Sent
      <3>1. Range(<<>>) = {} /\ \A f : Range(<<f>>) = {f}
        BY DEF Range
      <3>2. CASE holding
        <4>1. pending = <<>> /\ Range(held) = {f \in Sent : f.kind # "broken"}
          BY <3>2 DEF GuardInv, HoldInv
        <4>. QED BY <3>1, <3>2, <4>1
      <3>3. CASE ~holding
        <4>1. held = <<>> /\ Kept(pending)
          BY <3>3 DEF GuardInv, LiveInv, OverInv
        <4>. QED BY <3>1, <4>1 DEF Kept
      <3>. QED BY <3>2, <3>3
    <2>5. holding => route.open = None /\ pending = <<>>
      BY HeldFromStart DEF GuardInv, HoldInv, StreamInv
    <2>6. ASSUME route.open # None
          PROVE  /\ route.open.withheld # <<>> /\ Range(route.open.withheld) \subseteq Sent
                 /\ ~(route.open.named /\ Parses(route.open.args))
      <3>1. RouteInv(route, Carried, prior)
        BY <2>5, <2>6 DEF GuardInv, LiveInv, OverInv
      <3>2. Mine(route) = Range(route.open.withheld) /\ Mine(route) \subseteq Carried
        BY <2>6, <3>1 DEF RouteInv, ClientInv, Mine
      <3>3. Carried \subseteq Sent
        BY DEF Carried
      <3>4. Mine(route) # {}
        <4>1. route.open.index \in Tracked(Mine(route))
          BY <2>6, <3>1 DEF RouteInv, Unfinished
        <4>. QED BY <4>1, FrameByFrame
      <3>5. Range(<<>>) = {}
        BY DEF Range
      <3>6. ~(route.open.named /\ Parses(route.open.args))
        BY <2>6, <3>1 DEF RouteInv, Unfinished
      <3>. QED BY <3>2, <3>3, <3>4, <3>5, <3>6
    <2>. QED BY <2>1, <2>2, <2>3, <2>4, <2>5, <2>6 DEF GuardTypeOK
  <1>. QED BY <1>1, GuardInvHolds, PTL

\* A stream that is handed back to be asked again has shown the client nothing,
\* whatever frames the upstream sent and wherever it was cut.
THEOREM AskingAgainIsSafe == GuardSpec => []RetryIsSafe
  <1>1. GuardInv => RetryIsSafe
    <2>. SUFFICES ASSUME GuardInv, verdict \in RetryVerdicts PROVE route.out = <<>>
      BY DEF RetryVerdicts, RetryIsSafe
    <2>1. verdict # None
      BY GuardAssumption DEF RetryVerdicts, Verdicts
    <2>2. holding
      BY <2>1 DEF GuardInv, OverInv
    <2>. QED BY <2>2, HeldFromStart DEF GuardInv, HoldInv, StreamInv
  <1>. QED BY <1>1, GuardInvHolds, PTL

\* At no moment, so wherever the upstream is cut, has the client been shown a
\* call without name or with arguments that do not parse, or frames out of order.
THEOREM OnlyWholeCallsAreSeen == GuardSpec => []ClientSeesWholeCalls
  <1>1. GuardInv => ClientSeesWholeCalls
    BY GuardKeepsClient DEF OnlyWhole, ClientSeesWholeCalls
  <1>. QED BY <1>1, GuardInvHolds, PTL

\* A call of an earlier segment does not reach the client again, unless it
\* shares a frame with one of lower index.
THEOREM CallsAreSeenOnce == GuardSpec => []NoCallTwice
  <1>1. GuardInv => NoCallTwice
    BY GuardKeepsClient DEF OnlyOnce, NoCallTwice
  <1>. QED BY <1>1, GuardInvHolds, PTL

\* A stream whose calls come in turn and that passes is shown in full.
THEOREM PassIsComplete == GuardSpec => []PassMeansAll
  <1>1. GuardInv => PassMeansAll
    <2>. SUFFICES ASSUME GuardInv, verdict = "pass" PROVE PassMeansAll
      BY DEF PassMeansAll
    <2>1. ~holding /\ verdict # None
      BY GuardAssumption DEF GuardInv, HoldInv, Verdicts
    <2>. QED BY <2>1 DEF GuardInv, OverInv
  <1>. QED BY <1>1, GuardInvHolds, PTL
=============================================================================
