------------------------------ MODULE KeepAlive ------------------------------
(***************************************************************************)
(* One streaming request in the keep-alive loop of the OpenAI frontend:    *)
(* runStreamWithKeepAlive and pipeGuardedStream of                         *)
(* src/src/relay/stream-pipe.mjs, with openAIStreamChannel and             *)
(* attemptChatCompletion (src/src/relay/openai-handler.mjs).               *)
(*                                                                         *)
(* The loop awaits three things: the upstream call, the pipe and the       *)
(* backoff sleep.  The client may leave during any of them.  Content is    *)
(* counted in pieces; what a piece says is not modelled.                   *)
(***************************************************************************)
EXTENDS NoValue, Naturals, Sequences, SequencesExt

CONSTANTS
    MaxMembers,     \* longest plan
    MaxBudget,      \* largest maxRetries
    MaxPieces       \* bound on the pieces of content of one response

(***************************************************************************)
(* A request's configuration.  budget is maxRetries, 0 when the master or  *)
(* the endpoint switch is off; onTier is keepAliveConfig.mode === "on",    *)
(* which does not look at the endpoint switch.                             *)
(***************************************************************************)
Plans == [kind : {"chain", "pool"}, size : 1..MaxMembers,
          budget : 0..MaxBudget, onTier : BOOLEAN]

Status == {"server", "node", "shape"}   \* 5xx; 401, 403, 429...; other 4xx

Ends == {"ok", "aborted", "fault", "rejected", "crashed"}

ASSUME KeepAliveAssumption ==
    /\ MaxMembers \in Nat \ {0}
    /\ MaxBudget \in Nat
    /\ MaxPieces \in Nat
    /\ None \notin Ends

VARIABLES
    plan,       \* the request's configuration
    pc,         \* what the loop awaits
    member,     \* memberIndex + 1
    attempt,
    segment,    \* pieces the pipe forwarded of the current upstream stream
    seen,       \* pieces the client has received
    shadow,     \* pieces in resumeShadow; 0 is null
    carried,    \* pieces the last call's body continues from
    model,      \* the model the last call's body names
    gone,       \* the client left: abortController.signal.aborted
    end,        \* the tracker's recordEnd that counted
    told        \* noteFailure and noteSuccess calls made for the request

vars == <<plan, pc, member, attempt, segment, seen, shadow, carried, model,
          gone, end, told>>

Failed(m)   == <<m, "failure">>
Answered(m) == <<m, "success">>

Init ==
    /\ plan \in Plans
    /\ pc = "ready" /\ member = 1 /\ attempt = 0
    /\ segment = 0 /\ seen = 0 /\ shadow = 0 /\ carried = 0
    /\ model = None
    /\ gone = FALSE
    /\ end = None
    /\ told = <<>>

-----------------------------------------------------------------------------
(* Pieces of the loop.                                                      *)

BudgetLeft == attempt < plan.budget

\* isChainFailoverStatus and isPoolFailoverStatus.
ShouldFailover(status) == plan.kind = "chain" \/ status \in {"server", "node"}

\* recordEnd: the first terminal record wins.
RecordEnd(e) == end' = IF end = None THEN e ELSE end

Settle(e) == pc' = "done" /\ RecordEnd(e) /\ UNCHANGED <<member, attempt>>

Backoff == pc' = "backoff" /\ UNCHANGED <<member, attempt, end, told>>

\* Variant: the crossed member is not told to the tables, only the last one.
OnlyLastMemberFails ==
    /\ told' = IF member < plan.size THEN told ELSE Append(told, Failed(member))
    /\ IF member < plan.size
       THEN /\ pc' = "ready" /\ member' = member + 1 /\ attempt' = 0
            /\ UNCHANGED end
       ELSE Settle("fault")

\* Variant: the exhausted request leaves its tracker entry open.
UnrecordedExhaustion ==
    /\ told' = Append(told, Failed(member))
    /\ IF member < plan.size
       THEN pc' = "ready" /\ member' = member + 1 /\ attempt' = 0
       ELSE pc' = "done" /\ UNCHANGED <<member, attempt>>
    /\ UNCHANGED end

\* onMemberFault, then the next member or the definitive 502.
MemberFails ==
    /\ told' = Append(told, Failed(member))
    /\ IF member < plan.size
       THEN /\ pc' = "ready" /\ member' = member + 1 /\ attempt' = 0
            /\ UNCHANGED end
       ELSE Settle("fault")

\* Variant: only the last segment is continued.
LastSegmentOnly == segment

\* mergeResumeShadow
MergedShadow == shadow + segment

-----------------------------------------------------------------------------
(* Actions.                                                                 *)

\* The top of the loop.  A first call of a chain member carries the node's
\* bound model; buildResumeBody starts from the client's own body.
Call ==
    /\ pc = "ready"
    /\ IF gone THEN Settle("aborted") /\ UNCHANGED <<carried, model>>
       ELSE /\ pc' = "calling"
            /\ carried' = shadow
            /\ model' = IF plan.kind = "chain" /\ shadow > 0 THEN "virtual" ELSE "concrete"
            /\ UNCHANGED <<member, attempt, end>>
    /\ UNCHANGED <<plan, segment, seen, shadow, gone, told>>

\* member.call threw.
CallThrows ==
    /\ pc = "calling"
    /\ Settle(IF gone THEN "aborted" ELSE "crashed")
    /\ UNCHANGED <<plan, segment, seen, shadow, carried, model, gone, told>>

\* The call came back with an error status: of the upstream, or the 502 of
\* a credential that could not be loaded or an upstream out of reach.
CallStatus(status) ==
    /\ pc = "calling"
    /\ IF status = "server" /\ BudgetLeft /\ ~gone THEN Backoff
       ELSE IF ShouldFailover(status) THEN MemberFails
       ELSE Settle("rejected") /\ UNCHANGED told
    /\ UNCHANGED <<plan, segment, seen, shadow, carried, model, gone>>

CallStream ==
    /\ pc = "calling"
    /\ pc' = "piping" /\ segment' = 0
    /\ UNCHANGED <<plan, member, attempt, seen, shadow, carried, model, gone, end, told>>

\* The guard let a piece of content through.
Piece ==
    /\ pc = "piping" /\ ~gone
    /\ seen < MaxPieces
    /\ segment' = segment + 1 /\ seen' = seen + 1
    /\ UNCHANGED <<plan, pc, member, attempt, shadow, carried, model, gone, end, told>>

\* Outcome "ok".
PipeOk ==
    /\ pc = "piping" /\ ~gone /\ segment > 0
    /\ told' = Append(told, Answered(member))
    /\ Settle("ok")
    /\ UNCHANGED <<plan, segment, seen, shadow, carried, model, gone>>

\* Outcome "retryable": the stream ended, or broke, before any content.
PipeRetryable ==
    /\ pc = "piping" /\ ~gone /\ segment = 0
    /\ IF BudgetLeft THEN Backoff ELSE MemberFails
    /\ UNCHANGED <<plan, segment, seen, shadow, carried, model, gone>>

\* Outcome "resume": cut after content, on the keep-alive tier.
PipeResume ==
    /\ pc = "piping" /\ ~gone /\ segment > 0 /\ plan.onTier
    /\ shadow' = MergedShadow
    /\ IF BudgetLeft THEN Backoff ELSE MemberFails
    /\ UNCHANGED <<plan, segment, seen, carried, model, gone>>

\* Outcome "terminal": cut after content off the tier, or a connection that
\* broke after content on either tier.
PipeCut ==
    /\ pc = "piping" /\ ~gone /\ segment > 0
    /\ Settle("fault")
    /\ UNCHANGED <<plan, segment, seen, shadow, carried, model, gone, told>>

\* Outcome "terminal", clientAborted.
PipeAborted ==
    /\ pc = "piping" /\ gone
    /\ Settle("aborted")
    /\ UNCHANGED <<plan, segment, seen, shadow, carried, model, gone, told>>

\* sleepWithAbort resolves after the delay, or rejects as the client leaves.
Wake ==
    /\ pc = "backoff"
    /\ IF gone THEN Settle("aborted")
       ELSE pc' = "ready" /\ attempt' = attempt + 1 /\ UNCHANGED <<member, end>>
    /\ UNCHANGED <<plan, segment, seen, shadow, carried, model, gone, told>>

\* The client closes the connection: res "close" before res.end().
ClientLeaves ==
    /\ pc # "done" /\ ~gone
    /\ gone' = TRUE
    /\ RecordEnd("aborted")
    /\ UNCHANGED <<plan, pc, member, attempt, segment, seen, shadow, carried, model, told>>

Verdict == PipeOk \/ PipeRetryable \/ PipeResume \/ PipeCut \/ PipeAborted

Next ==
    \/ Call
    \/ CallThrows
    \/ \E status \in Status : CallStatus(status)
    \/ CallStream
    \/ Piece
    \/ Verdict
    \/ Wake
    \/ ClientLeaves

Spec == Init /\ [][Next]_vars

\* A call has a deadline, a stream ends or breaks, a timer fires.
Returns == CallThrows \/ CallStream \/ \E status \in Status : CallStatus(status)

LiveSpec == Spec /\ WF_vars(Call) /\ WF_vars(Returns) /\ WF_vars(Verdict) /\ WF_vars(Wake)

-----------------------------------------------------------------------------
(* Properties.                                                              *)

\* Types, and what holds while a request is under way: the budget is never
\* overdrawn and a tracker entry that has an end belongs to a departed client.
TypeOK ==
    /\ plan \in Plans
    /\ pc \in {"ready", "calling", "piping", "backoff", "done"}
    /\ member \in 1..plan.size
    /\ attempt \in 0..plan.budget
    /\ {segment, seen, shadow, carried} \subseteq 0..MaxPieces
    /\ model \in {None, "concrete", "virtual"}
    /\ gone \in BOOLEAN
    /\ end \in Ends \cup {None}
    /\ told \in Seq((1..plan.size) \X {"failure", "success"})
    /\ pc = "backoff" => attempt < plan.budget
    /\ (pc # "done" /\ end # None) => gone

\* "The next request sent upstream must carry everything the client has seen
\* so far": however often the response was cut, whatever calls failed or
\* streams ended empty in between and whichever member is asked now.
ContinuesWhatTheClientSaw ==
    /\ pc = "calling" => carried = seen
    /\ pc = "piping" => carried + segment = seen

\* "A tracker request records exactly one end": a settled request never
\* leaks an open entry, the end of a departed client's request is the
\* abort, and a completed one was told to the tables as a success.
SettledTruthfully ==
    pc = "done" =>
        /\ end # None
        /\ gone <=> end = "aborted"
        /\ end = "ok" <=> told # <<>> /\ Last(told) = Answered(member)

\* The tables are told of the request's members as MemberWalk promises, and
\* every request is settled.
Walk == INSTANCE MemberWalk
            WITH size <- plan.size, at <- IF pc = "done" THEN 0 ELSE member

WalksTheMembers == Walk!WalkSpec

\* The virtual model "auto" "never reaches an upstream; each chain node
\* carries its own concrete bound model instead".
OnlyConcreteModels == pc = "calling" => model = "concrete"
=============================================================================
