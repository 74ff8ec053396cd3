------------------------------ MODULE MCRouting ------------------------------
(***************************************************************************)
(* Small instances of RelayRouting, which MCRoutingHistory shares.         *)
(*   pool   a pool of two members, m1 and m2, as a node of a chain         *)
(*   mid    a channel behind it                                            *)
(*   tail   another channel                                                *)
(***************************************************************************)
EXTENDS RelayRouting, TLC

CONSTANTS auto, pool, mid, tail, m1, m2, u1, u2, r1, r2

MCRequests == {r1, r2}
RequestSymmetry == Permutations(MCRequests)

Expand(members, middle, last) ==
    [e \in Entries |-> CASE e = pool -> members [] e = mid -> middle [] OTHER -> last]

Config(chain, calls, pools) ==
    [chain |-> [k \in Keys |-> chain], calls |-> calls, pools |-> pools]

BothMembers == Expand(<<m1, m2>>, <<u1>>, <<u2>>)

\* One chain that is never edited: a pool and two channels behind it.
ThreeHops == {Config(<<pool, mid, tail>>, BothMembers, {pool})}

\* The user rearranges the pool and takes it out of the chain, and back.
Edited == {Config(<<pool, mid>>, BothMembers, {pool}),
           Config(<<mid>>, Expand(<<m2, m1>>, <<u1>>, <<u2>>), {pool})}
=============================================================================
