------------------------------- MODULE Timing -------------------------------
(***************************************************************************)
(* How long a request to the daemon takes (cmd/gyzor/serve.go:132-140 with *)
(* queryAll and query in pyzor/client.go): the body arrives, the queries   *)
(* run maxFanout at a time, and the answer is written, unless the write    *)
(* deadline that net/http set when it had read the header has passed.      *)
(*                                                                         *)
(* now counts time units since the header.  What takes no time happens     *)
(* before the clock moves on, and the clock does not pass a moment at      *)
(* which a timeout ends something.  The names of the steps are those of    *)
(* PyzorClient and Serve, which have all of their behaviour but no clock.  *)
(***************************************************************************)
EXTENDS Integers, FiniteSets

CONSTANTS
  N,          \* how many servers are configured
  maxFanout,
  Timeout,    \* the client's timeout
  Slack,      \* what WriteTimeout adds to it (15 s)
  ReadTimeout,  \* how long the body may take (30 s)
  LookupTime  \* how long the resolver may take for a name

ASSUME TimingAssumption ==
  /\ {N, maxFanout, Timeout} \subseteq Nat \ {0}
  /\ {Slack, ReadTimeout, LookupTime} \subseteq Nat

VARIABLES
  now,
  pc,      \* where the handler is
  query,   \* query[i]: where the query of the i-th server is
  due,     \* due[i]: when that ends at the latest
  bodyAt,  \* when the body was complete (history)
  startAt  \* startAt[i]: when query i was started (history)

vars == <<now, pc, query, due, bodyAt, startAt>>

Jobs == 1 .. N

Live == {i \in Jobs : query[i] \in {"resolve", "read"}}

----------------------------------------------------------------------------
Init ==
  /\ now = 0
  /\ pc = "body"
  /\ query = [i \in Jobs |-> "todo"]
  /\ due = [i \in Jobs |-> 0]
  /\ bodyAt = 0
  /\ startAt = [i \in Jobs |-> 0]

\* readBody is done, and queryAll begins.
BodyRead ==
  /\ pc = "body"
  /\ pc' = "query"
  /\ bodyAt' = now
  /\ UNCHANGED <<now, query, due, startAt>>

\* ReadTimeout ends the wait for the body.
BodyTimeout ==
  /\ pc = "body" /\ now = ReadTimeout
  /\ pc' = "refused"
  /\ UNCHANGED <<now, query, due, bodyAt, startAt>>

\* The next query in the order of the list.
NextJob == {i \in Jobs : query[i] = "todo" /\ \A j \in 1 .. i - 1 : query[j] # "todo"}

\* Mutants of Free: no limit; one token less.
FreeAlways == 1

FreeFewer == maxFanout - 1 - Cardinality(Live)

\* The tokens left in the semaphore: a query gives its own back when it ends.
Free == maxFanout - Cardinality(Live)

\* One turn of the loop in queryAll.
Spawn(i) ==
  /\ pc = "query" /\ i \in NextJob /\ Free > 0
  /\ query' = [query EXCEPT ![i] = "resolve"]
  /\ due' = [due EXCEPT ![i] = now + LookupTime]
  /\ startAt' = [startAt EXCEPT ![i] = now]
  /\ UNCHANGED <<now, pc, bodyAt>>

\* The name is resolved, and SetDeadline starts the client's timeout.
Dial(i) ==
  /\ query[i] = "resolve"
  /\ query' = [query EXCEPT ![i] = "read"]
  /\ due' = [due EXCEPT ![i] = now + Timeout]
  /\ UNCHANGED <<now, pc, bodyAt, startAt>>

\* The query ends: no address, a reply, an error, or the deadline.
Exit(i) ==
  /\ i \in Live
  /\ query' = [query EXCEPT ![i] = "over"]
  /\ UNCHANGED <<now, pc, due, bodyAt, startAt>>

Join ==
  /\ pc = "query" /\ \A i \in Jobs : query[i] = "over"
  /\ pc' = "write"
  /\ UNCHANGED <<now, query, due, bodyAt, startAt>>

\* Mutant of WriteTimeout: the client's timeout alone.
WriteTimeoutBare == Timeout

WriteTimeout == Timeout + Slack

\* writeJSON: the answer goes out before the write deadline, or not at all.
Write ==
  /\ pc = "write"
  /\ pc' = IF now <= WriteTimeout THEN "answered" ELSE "cut"
  /\ UNCHANGED <<now, query, due, bodyAt, startAt>>

\* Time passes while somebody waits and nothing has to happen first.
Tick ==
  /\ \/ pc = "body" /\ now < ReadTimeout
     \/ pc = "query" /\ Live # {} /\ \A i \in Live : now < due[i]
  /\ pc = "query" => NextJob = {} \/ Free = 0
  /\ now' = now + 1
  /\ UNCHANGED <<pc, query, due, bodyAt, startAt>>

QueryStep(i) == Spawn(i) \/ Dial(i) \/ Exit(i)

\* The request is over.  In any other state somebody can do something: a deadlock
\* would be a wait that no timeout ends.
Over ==
  /\ pc \in {"answered", "cut", "refused"}
  /\ UNCHANGED vars

Next ==
  \/ BodyRead
  \/ BodyTimeout
  \/ \E i \in Jobs : QueryStep(i)
  \/ Join
  \/ Write
  \/ Tick
  \/ Over

Spec == Init /\ [][Next]_vars

----------------------------------------------------------------------------
\* Type correctness; the queries that have ended or run are a prefix of the
\* list, and at most maxFanout of them run.
TypeOK ==
  /\ now \in Nat /\ bodyAt \in 0 .. ReadTimeout
  /\ pc \in {"body", "query", "write", "answered", "cut", "refused"}
  /\ query \in [Jobs -> {"todo", "resolve", "read", "over"}]
  /\ {due, startAt} \subseteq [Jobs -> Nat]
  /\ Cardinality(Live) <= maxFanout

\* The longest a query takes.
QueryTime == LookupTime + Timeout

(***************************************************************************)
(* "beyond maxFanout, queries proceed in waves" (client.go:299), although  *)
(* no code waits for a wave to end: query i starts when the waves before   *)
(* it could have ended at the latest, in whatever order queries end.       *)
(***************************************************************************)
StartsWithItsWave ==
  \A i \in Jobs :
    query[i] # "todo" => startAt[i] <= bodyAt + ((i - 1) \div maxFanout) * QueryTime

\* The number of waves.
Waves == (N + maxFanout - 1) \div maxFanout

(***************************************************************************)
(* When WriteTimeout does what its comment says (serve.go:132): if the     *)
(* upload and all waves together fit into it, no answer is cut off.        *)
(***************************************************************************)
NotCutWithinBudget ==
  pc = "cut" => bodyAt + Waves * QueryTime > Timeout + Slack

(***************************************************************************)
(* "WriteTimeout must exceed the pyzor client budget so a slow upstream is *)
(* not cut off mid-answer" (serve.go:132).                                 *)
(***************************************************************************)
NeverCut == pc # "cut"

============================================================================
