----------------------------- MODULE StreamGuard -----------------------------
(***************************************************************************)
(* OpenAIStreamGuard (src/src/relay/openai-stream-guard.mjs) over one      *)
(* upstream stream: what of it reaches the client, in which order, and the *)
(* verdict when it ends.                                                   *)
(*                                                                         *)
(* The stream is a sequence of frames.  A frame is text, reasoning,        *)
(* deltas of tool calls, a finish_reason, the terminator, a line that      *)
(* proves nothing (a ping) or a broken one; its number tells it from others *)
(* like it.  Arguments are sets of pieces, which the upstream sends in     *)
(* order: "whole" parses as JSON, so do "part" and "rest" together,        *)
(* nothing else does.                                                      *)
(***************************************************************************)
EXTENDS NoValue, Naturals, Sequences, Functions

CONSTANTS
    MaxFrames,  \* bound on the frames of the stream
    Calls       \* tool call indices, 0 upwards

\* What finish() can answer.
Verdicts == {"pass", "empty", "reject incomplete call", "reject malformed", "reject think only",
             "error incomplete call", "error malformed", "error cut",
             "error truncated arguments", "error think only"}

Pieces == {"part", "rest", "whole"}

\* named: the delta carries both id and function name.
Delta(index, named, args) == [index |-> index, named |-> named, args |-> args]

Deltas == [index : Calls, named : BOOLEAN, args : {{}} \cup {{p} : p \in Pieces}]

\* Some upstreams put parallel calls into one frame.
Batches == {b \in Deltas \X Deltas :
                /\ b[1].index < b[2].index
                /\ b[1].named /\ b[2].named /\ {b[1].args, b[2].args} \subseteq {{}, {"whole"}}}

Plain == {"text", "reason", "finish", "length", "done", "ping", "broken"}

\* The frames with these numbers.
Frames(N) == [kind : Plain, calls : {<<>>}, at : N]
             \cup [kind : {"calls"}, calls : {<<d>> : d \in Deltas} \cup Batches, at : N]

Parses(args) == args \in {{"whole"}, {"part", "rest"}}

\* A tool call as the client and the resume shadow know it; its index stands for
\* the name of the function.
ToolCall(index, args) == <<index, args>>
ToolCalls == Calls \X SUBSET Pieces

\* A call whose deltas still arrive, and the frames withheld with it.
OpenCalls == [index : Calls, named : BOOLEAN, args : SUBSET Pieces, withheld : Seq(Frames(Nat))]

ASSUME GuardAssumption ==
    /\ None \notin Verdicts /\ None \notin OpenCalls
    /\ MaxFrames \in Nat
    /\ Calls \subseteq Nat

VARIABLES
    frames,     \* the frames the upstream sent
    holding,    \* nothing proved usable yet
    held,       \* frames withheld until then
    route,      \* what routeForward keeps, and what it let through
    pending,    \* the terminator, withheld until the verdict
    prior,      \* the calls of an earlier segment of this response
    verdict     \* None while the stream runs

guardVars == <<frames, holding, held, route, pending, prior, verdict>>

\* Nothing is open, nothing shown; prior is what an earlier segment has delivered.
FreshRoute == [open |-> None, completed |-> <<>>, prior |-> prior, out |-> <<>>]

GuardInit ==
    /\ frames = <<>> /\ holding = TRUE /\ held = <<>> /\ pending = <<>>
    /\ prior \in SUBSET {ToolCall(c, {"whole"}) : c \in Calls}
    /\ route = FreshRoute
    /\ verdict = None

-----------------------------------------------------------------------------
(* What the guard has tracked: a function of the set of frames so far.      *)

DeltasOf(F, c) == {d \in UNION {Range(f.calls) : f \in F} : d.index = c}

Tracked(F)  == {c \in Calls : DeltasOf(F, c) # {}}
Named(F, c) == \E d \in DeltasOf(F, c) : d.named
ArgsOf(F, c) == UNION {d.args : d \in DeltasOf(F, c)}

\* The delta with which a call began carried no id.
BeganNameless(F, c) ==
    \E f \in F : /\ \E d \in DeltasOf({f}, c) : ~d.named
                 /\ \A g \in F : c \in Tracked({g}) => f.at <= g.at

Sent == Range(frames)

Saw(kind) == \E f \in Sent : f.kind = kind

SawFinishReason == Saw("finish") \/ Saw("length")

\* isHealthy: text, reasoning, or a call of this frame that has id and name by now.
IsHealthy(f, F) == f.kind \in {"text", "reason"} \/ \E c \in Tracked({f}) : Named(F, c)

HasIncompleteToolCall == \E c \in Tracked(Sent) : BeganNameless(Sent, c) \/ ~Named(Sent, c)

HasTruncatedToolArgs ==
    \E c \in Tracked(Sent) : ArgsOf(Sent, c) # {} /\ ~Parses(ArgsOf(Sent, c))

HasThinkOnlyTurn ==
    /\ Saw("reason") /\ ~Saw("text") /\ Tracked(Sent) = {} /\ ~Saw("length")
    /\ Saw("done") \/ Saw("finish")

-----------------------------------------------------------------------------
(* routeForward and its helpers, over the record of its state.              *)

\* Variant: a call without arguments is never whole.
WholeWithArgs(open, final) == open.named /\ Parses(open.args)

\* Variant: the arguments are not looked at.
WholeIfNamed(open, final) == open.named

Whole(open, final) ==
    open.named /\ IF open.args = {} THEN final ELSE Parses(open.args)

\* Variant: a replayed call is forwarded once more.
ReplayedNever(s, call) == FALSE

Replayed(s, call) == call \in s.prior

\* closeOpenCall: a call that is not whole is dropped with all it withheld, and
\* so is one copy of each call of the earlier segment.
Close(s, final) ==
    LET call   == ToolCall(s.open.index, s.open.args)
        closed == [s EXCEPT !.open = None]
    IN  IF ~Whole(s.open, final) THEN closed
        ELSE IF Replayed(s, call)
        THEN [closed EXCEPT !.prior = @ \ {call}]
        ELSE [closed EXCEPT !.completed = Append(@, call), !.out = @ \o s.open.withheld]

Opened(s, d) ==
    [s EXCEPT !.open = [index |-> d.index, named |-> FALSE, args |-> {}, withheld |-> <<>>]]

\* absorbCallFrame: the deltas of the open call count, the frame is kept whole.
Absorb(s, f) ==
    LET c    == s.open.index
        more == [s EXCEPT !.open.withheld = Append(@, f),
                          !.open.args = @ \cup ArgsOf({f}, c),
                          !.open.named = @ \/ Named({f}, c)]
    IN  IF more.open.args # {} /\ Whole(more.open, FALSE) THEN Close(more, FALSE) ELSE more

\* Nothing overtakes an open call.
Overtakes(s, f) == f.calls = <<>> /\ s.open = None

Route(s, f) ==
    IF Overtakes(s, f) THEN [s EXCEPT !.out = Append(@, f)]
    ELSE IF f.calls = <<>> THEN [s EXCEPT !.open.withheld = Append(@, f)]
    ELSE LET d      == f.calls[1]
             closed == IF s.open # None /\ s.open.index # d.index THEN Close(s, TRUE) ELSE s
         IN  Absorb(IF closed.open = None THEN Opened(closed, d) ELSE closed, f)

-----------------------------------------------------------------------------
(* The stream.                                                              *)

\* What an upstream sends: nothing after the terminator, no finish_reason but
\* one, per call one name and arguments that only grow towards JSON, and no
\* call before those of lower index.
Sendable(f) ==
    /\ ~Saw("done")
    /\ f.kind \in {"finish", "length"} => ~SawFinishReason
    /\ \A d \in Range(f.calls) :
         /\ d.args \cap ArgsOf(Sent, d.index) = {}
         /\ d.args \cup ArgsOf(Sent, d.index) \in {{}, {"part"}, {"part", "rest"}, {"whole"}}
         /\ d.named => ~Named(Sent, d.index)
         /\ d.args = {} => d.named \/ d.index \notin Tracked(Sent)
         /\ \A c \in Calls : c < d.index => c \in Tracked(Sent \cup {f})

Proving(f) == holding /\ IsHealthy(f, Sent \cup {f})

Running == verdict = None /\ Len(frames) < MaxFrames

Terminator(f) ==
    /\ f.kind = "done"
    /\ IF holding THEN held' = Append(held, f) /\ UNCHANGED pending
                  ELSE pending' = <<f>> /\ UNCHANGED held
    /\ UNCHANGED <<holding, route>>

\* A broken line is swallowed; finish() remembers it.
Broken(f) == f.kind = "broken" /\ UNCHANGED <<holding, held, pending, route>>

\* Variant: what proves nothing goes straight through.
PingForwarded(f) ==
    /\ f.kind = "ping"
    /\ route' = [route EXCEPT !.out = Append(@, f)]
    /\ UNCHANGED <<holding, held, pending>>

\* A line that proves nothing is held, or goes through beside an open call.
Ping(f) ==
    /\ f.kind = "ping"
    /\ IF holding THEN held' = Append(held, f) /\ UNCHANGED route
                  ELSE route' = [route EXCEPT !.out = Append(@, f)] /\ UNCHANGED held
    /\ UNCHANGED <<holding, pending>>

\* A frame that proves nothing yet.
Held(f) ==
    /\ f.kind \notin {"done", "broken", "ping"} /\ holding /\ ~Proving(f)
    /\ held' = Append(held, f)
    /\ UNCHANGED <<holding, pending, route>>

\* releaseHeldLine: every held frame goes through what a live one does.
Replay(s, f) == IF f.kind = "ping" THEN [s EXCEPT !.out = Append(@, f)] ELSE Route(s, f)

ReplayAll(s, fs) ==
    LET upTo[n \in 0..Len(fs)] == IF n = 0 THEN s ELSE Replay(upTo[n - 1], fs[n])
    IN  upTo[Len(fs)]

\* The first proof releases all that was held.
Released(f) ==
    /\ f.kind \notin {"done", "broken", "ping"} /\ Proving(f)
    /\ holding' = FALSE /\ held' = <<>>
    /\ route' = ReplayAll(route, Append(held, f))
    /\ UNCHANGED pending

Routed(f) ==
    /\ f.kind \notin {"done", "broken", "ping"} /\ ~holding
    /\ route' = Route(route, f)
    /\ UNCHANGED <<holding, held, pending>>

Line ==
    /\ Running
    /\ \E f \in Frames({Len(frames) + 1}) :
        /\ Sendable(f)
        /\ Terminator(f) \/ Broken(f) \/ Ping(f) \/ Held(f) \/ Released(f) \/ Routed(f)
        /\ frames' = Append(frames, f)
    /\ UNCHANGED <<prior, verdict>>

Truncated == ~Saw("done") /\ ~SawFinishReason

\* finish()'s verdict on a stream of which nothing was forwarded.
HoldingVerdict ==
    IF HasIncompleteToolCall THEN "reject incomplete call"
    ELSE IF Saw("broken") THEN "reject malformed"
    ELSE IF HasThinkOnlyTurn THEN "reject think only"
    ELSE "empty"

\* And on one that has reached the client.
ReleasedVerdict ==
    IF HasIncompleteToolCall THEN "error incomplete call"
    ELSE IF Saw("broken") THEN "error malformed"
    ELSE IF Truncated THEN "error cut"
    ELSE IF HasTruncatedToolArgs THEN "error truncated arguments"
    ELSE IF HasThinkOnlyTurn THEN "error think only"
    ELSE "pass"

CloseTail == IF route.open = None THEN route ELSE Close(route, TRUE)

\* The upstream ends, properly or not.  A call still open is closed; what the
\* tail releases reaches the client only with a pass: on an error the OpenAI
\* channel writes the error instead.
Finish ==
    /\ verdict = None
    /\ verdict' = IF holding THEN HoldingVerdict ELSE ReleasedVerdict
    /\ route' = IF verdict' = "pass" THEN [CloseTail EXCEPT !.out = @ \o pending]
                ELSE [CloseTail EXCEPT !.out = route.out]
    /\ UNCHANGED <<frames, holding, held, pending, prior>>

Done == verdict # None /\ UNCHANGED guardVars

GuardNext == Line \/ Finish \/ Done

GuardSpec == GuardInit /\ [][GuardNext]_guardVars

-----------------------------------------------------------------------------
(* Properties.                                                              *)

\* Frames in the order the upstream sent them, pings aside.
InOrder(fs) ==
    \A i, j \in DOMAIN fs :
        i < j /\ "ping" \notin {fs[i].kind, fs[j].kind} => fs[i].at < fs[j].at

Shown == Range(route.out)

\* Types, and the hold: it ends with the first proof, after which nothing but
\* one open call and the terminator is withheld; an open call has withheld
\* its frames and its arguments are not finished.
GuardTypeOK ==
    /\ Len(frames) <= MaxFrames /\ \A i \in DOMAIN frames : frames[i] \in Frames({i})
    /\ holding \in BOOLEAN
    /\ route \in [open : OpenCalls \cup {None}, completed : Seq(ToolCalls), prior : SUBSET prior,
                  out : Seq(Frames(Nat))]
    /\ Range(held) \cup Range(pending) \cup Shown \subseteq Sent
    /\ verdict \in Verdicts \cup {None}
    /\ ~holding => held = <<>>
    /\ holding => route.open = None /\ pending = <<>>
    /\ route.open # None =>
        /\ route.open.withheld # <<>> /\ Range(route.open.withheld) \subseteq Sent
        /\ ~(route.open.named /\ Parses(route.open.args))

\* A stream that is handed back to be asked again ("reject" and "empty" are
\* retried as if nothing had happened) has shown the client nothing, not even
\* a frame that only opens a call or keeps the line alive.
RetryIsSafe ==
    verdict \in {"empty", "reject incomplete call", "reject malformed", "reject think only"} =>
        route.out = <<>>

\* Strict clients abort on a call without id and name and on arguments that
\* are not JSON: at no moment, so wherever the upstream is cut, has the client
\* been shown such a call, and nothing said has reached it out of order.
ClientSeesWholeCalls ==
    /\ \A c \in Tracked(Shown) :
        Named(Shown, c) /\ (ArgsOf(Shown, c) = {} \/ Parses(ArgsOf(Shown, c)))
    /\ InOrder(route.out)

\* A call that shares a frame with one of lower index.
InBatch(F, c) == \E f \in F : c \in Tracked({f}) /\ f.calls[1].index # c

\* A call the client has from an earlier segment of its response is not given
\* to it again, however its arguments are cut up: the tool would run twice.
\* The code looks at the call a frame opens, so a call further back in a frame
\* of several is left out here (NoCallTwiceAtAll).
NoCallTwice ==
    \A call \in prior :
        call[1] \in Tracked(Shown) /\ ArgsOf(Shown, call[1]) = call[2] => InBatch(Shown, call[1])

\* Calls come one after the other, none taken up again once the next began.
InTurn(F) ==
    \A f, g \in F : f.at < g.at =>
        \A b \in Tracked({f}), c \in Tracked({g}) :
            b <= c /\ (Len(f.calls) > 1 => b < c)

\* A stream that passes as healthy has reached the client in full (and in
\* order, see above): what was held, withheld with a call or kept for the verdict.
PassMeansAll ==
    (verdict = "pass" /\ InTurn(Sent) /\ prior = {}) =>
        \A f \in Sent : f.kind # "ping" => f \in Shown

\* "Same name + same arguments = the same call, dropped on sight": without the
\* exception for calls that share a frame.
NoCallTwiceAtAll ==
    \A call \in prior : ~(call[1] \in Tracked(Shown) /\ ArgsOf(Shown, call[1]) = call[2])

\* "Everything the client has already seen (forwarded text and reasoning) plus
\* every completed tool call (released to the client when it closed) goes back
\* upstream": a call the continuation is told of has reached the client.
ShadowWasSeen ==
    verdict \in {"error malformed", "error cut", "error truncated arguments", "error think only"} =>
        \A call \in Range(route.completed) :
            Named(Shown, call[1]) /\ ArgsOf(Shown, call[1]) = call[2]
=============================================================================
