------------------------------ MODULE MCServe ------------------------------
\* Instances of Serve for TLC.
EXTENDS Serve, TLC

CONSTANTS q1, q2

RequestSymmetry == Permutations(Requests)

Sidecar == [token |-> FALSE, tcp |-> "loopback", unix |-> FALSE, maxConc |-> 1, verbose |-> FALSE]
Exposed == [token |-> TRUE, tcp |-> "open", unix |-> TRUE, maxConc |-> 2, verbose |-> TRUE]
Unsafe == [Sidecar EXCEPT !.tcp = "open"]
Nowhere == [Sidecar EXCEPT !.tcp = "off"]

AllConfigs == {Sidecar, Exposed, Unsafe, Nowhere}

============================================================================
