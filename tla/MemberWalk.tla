----------------------------- MODULE MemberWalk -----------------------------
(***************************************************************************)
(* What the keep-alive loop promises to the routing tables about one       *)
(* request over a plan of members: they are told, member by member in plan *)
(* order, of the ones that failed it and then of the one that answered, if *)
(* any; nobody is skipped, blamed twice or blamed after the answer.  This  *)
(* is the walk of a request in RelayRouting, seen from a single request.   *)
(***************************************************************************)
EXTENDS Naturals, Sequences

CONSTANT MaxMembers     \* longest plan

VARIABLES
    size,       \* members of the plan
    at,         \* the member being tried, Over when the request is settled
    told        \* what the tables were told: noteFailure, noteSuccess calls

walkVars == <<size, at, told>>

Over == 0

Failed(m)   == <<m, "failure">>
Answered(m) == <<m, "success">>

WalkInit == size \in 1..MaxMembers /\ at = 1 /\ told = <<>>

Answer == /\ at # Over
          /\ told' = Append(told, Answered(at))
          /\ at' = Over
          /\ UNCHANGED size

\* After a member failed, the next one is tried; after the last, nobody is.
Fault == /\ at # Over
         /\ told' = Append(told, Failed(at))
         /\ at' = IF at < size THEN at + 1 ELSE Over
         /\ UNCHANGED size

\* The request ends without a verdict on the member.
Leave == at # Over /\ at' = Over /\ UNCHANGED <<size, told>>

WalkNext == Answer \/ Fault \/ Leave

WalkSpec == WalkInit /\ [][WalkNext]_walkVars /\ WF_walkVars(WalkNext)
=============================================================================
