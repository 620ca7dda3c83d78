------------------------------ MODULE MCClient ------------------------------
(***************************************************************************)
(* Instances of PyzorClient for TLC.  The cfg files choose among the       *)
(* constants defined here.                                                 *)
(***************************************************************************)
EXTENDS PyzorClient, TLC

CONSTANTS c1, c2, c3, d1, p1, p2, p3

OneServer == <<"s1">>
ThreeServers == <<"s1", "s2", "s1">>

OneThread == {1024}
ThreeThreads == {1024, 1025, 1026}

AllRequests == Request
ChecksOnly == [op : {"check"}, dgst : Digests]

\* Callers are interchangeable, in PyzorService too: only for runs without
\* liveness properties.
CallSymmetry == Permutations(Calls)

NoFault == [kind |-> "none", key |-> "Code"]
Refused == [kind |-> "refused", key |-> "Code"]

SomeFaults == {NoFault, [kind |-> "missing", key |-> "Count"]}

OneGoodOneBad == {NoFault, Refused}

Unseen == {[r |-> 0, wl |-> 0]}
Seen == {[r |-> 0, wl |-> 0], [r |-> 2, wl |-> 0], [r |-> 1, wl |-> 1]}

============================================================================
