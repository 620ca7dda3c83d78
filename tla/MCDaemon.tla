------------------------------ MODULE MCDaemon ------------------------------
\* An instance of Daemon for TLC.
EXTENDS Daemon, TLC

CONSTANTS q1, q2, d1, p1

\* A check and a report (/revoke is /report with other names).
CheckAndReport == (q1 :> {"check"}) @@ (q2 :> {"report"})

\* One token; a Unix socket beside the loopback address.
BothListeners ==
  {[token |-> FALSE, tcp |-> "loopback", unix |-> TRUE, maxConc |-> 1, verbose |-> FALSE]}

OneServer == <<"s1">>

TwoThreads == {1024, 1025}

GoodOrRefused == {[kind |-> k, key |-> "Code"] : k \in {"none", "refused"}}

Unseen == {[r |-> 0, wl |-> 0]}

============================================================================
