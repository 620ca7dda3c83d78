---------------------------- MODULE PyzorClient ----------------------------
(***************************************************************************)
(* pyzor.Client at work: concurrent calls of CheckDigest, ReportDigest,    *)
(* WhitelistDigest and Ping on one shared Client, each fanning out to all  *)
(* servers from queryAll, over UDP.                                        *)
(*                                                                         *)
(* The network never forgets: a request or reply that was sent stays in    *)
(* reqs or reps, and may be delivered late, out of order, more than once   *)
(* or not at all.  Local ports are reused, so a late reply can meet the    *)
(* socket of a later query; only the Thread header tells them apart.       *)
(*                                                                         *)
(* The servers (pyzord) are external; they are modelled from the fields    *)
(* the client reads: a report or whitelist adds one to a counter of the    *)
(* digest, and a check returns both counters.                              *)
(***************************************************************************)
EXTENDS PyzorMessage, FiniteSets

CONSTANTS
  Servers,        \* Client.Servers, a non-empty sequence of addresses
  Calls,          \* the callers sharing the Client; each makes one call
  Digests,        \* message digests
  NoDigest,       \* the empty digest of a ping
  Requests,       \* the operations a caller may ask for
  MaxFanout,      \* maxFanout
  Threads,        \* thread ids drawn by generateThread
  Ports,          \* ephemeral local UDP ports
  Faults,         \* what may be wrong with a reply
  InitCounters,   \* counters a server may hold for a digest beforehand
  MaxDeliveries,  \* bound: how often one request reaches its server
  RCount,         \* --r-count
  WLCount         \* --wl-count

VARIABLES
  call,     \* call[c]: where the caller is in queryAll, and what it asked for
  sem,      \* sem[c]: tokens in the semaphore channel of c's queryAll
  wg,       \* wg[c]: the counter of its WaitGroup
  gor,      \* gor[c][i]: the goroutine that queries Servers[i]
  results,  \* results[c]: the results slice of c's queryAll
  ret,      \* ret[c]: what the call returned
  reqs,     \* every request datagram sent so far
  reps,     \* every reply datagram sent so far
  db,       \* db[s][d]: the counters server s keeps for digest d
  handled,  \* handled[c][i]: deliveries of the request of c's goroutine i
  applied,  \* requests <<c, i>> that a server has carried out
  start     \* start[c]: db, and the calls that had succeeded, when c began

clientVars == <<call, sem, wg, gor, results, ret>>
serverVars == <<db, handled, applied>>
vars == <<call, sem, wg, gor, results, ret, reqs, reps, db, handled, applied, start>>

----------------------------------------------------------------------------
Idx == 1 .. Len(Servers)

Addrs == {Servers[i] : i \in Idx}

Ids == Calls \X Idx

\* The public operations, with the digest that Compute produced.
Request == [op : {"check", "report", "whitelist"}, dgst : Digests]
             \cup [op : {"ping"}, dgst : {NoDigest}]

\* A fault of a reply: none at all, a refusal by the server, a success with
\* the reserved thread id 0, or one field missing, repeated or not a number.
Fault == [kind : {"none", "refused", "zeroThread"}, key : {"Code"}]
           \cup [kind : {"missing", "garbled", "repeated"}, key : Keys]

Counters == [r : Nat, wl : Nat]

ReqMsg == [id : Ids, srv : Addrs, port : Ports, thread : Threads,
           op : {"check", "report", "whitelist", "ping"}, dgst : Digests \cup {NoDigest}]

IsReply(m) ==
  /\ m.id \in Ids /\ m.srv \in Addrs /\ m.port \in Ports
  /\ DOMAIN m.packet \subseteq Keys
  /\ \A k \in DOMAIN m.packet : m.packet[k] \in Seq(Int \cup {NotNum}) \ {<<>>}

Goroutine == [pc : {"none", "run", "sent", "stored", "exit"}, thread : Threads, port : Ports]

Return == [ok : BOOLEAN, hit : BOOLEAN, count : Int, wl : Int]

ASSUME ClientAssumption ==
  /\ Servers \in Seq(STRING) /\ Servers # <<>>
  /\ Requests \subseteq Request
  /\ NoDigest \notin Digests
  /\ MaxFanout \in Nat \ {0}
  /\ Threads \subseteq ThreadIds /\ Threads # {}
  /\ Ports # {}
  /\ Faults \subseteq Fault
  /\ InitCounters \subseteq Counters /\ InitCounters # {}
  /\ MaxDeliveries \in Nat
  /\ RCount \in Int /\ WLCount \in Int

----------------------------------------------------------------------------
\* The sockets open on this host: DialUDP picks a port no other query holds.
PortsInUse == {p \in Ports : \E c \in Calls, i \in Idx : gor[c][i].pc = "sent" /\ gor[c][i].port = p}

Init ==
  /\ call = [c \in Calls |-> [pc |-> "idle", op |-> "ping", dgst |-> NoDigest, next |-> 1]]
  /\ sem = [c \in Calls |-> 0]
  /\ wg = [c \in Calls |-> 0]
  /\ gor = [c \in Calls |-> [i \in Idx |->
              [pc |-> "none", thread |-> CHOOSE t \in Threads : TRUE, port |-> CHOOSE p \in Ports : TRUE]]]
  /\ results = [c \in Calls |-> [i \in Idx |-> zeroResult]]
  /\ ret = [c \in Calls |-> [ok |-> FALSE, hit |-> FALSE, count |-> 0, wl |-> 0]]
  /\ reqs = {}
  /\ reps = {}
  /\ db \in [Addrs -> [Digests -> InitCounters]]
  /\ handled = [c \in Calls |-> [i \in Idx |-> 0]]
  /\ applied = {}
  /\ start = [c \in Calls |-> [db |-> db, succeeded |-> {}]]

----------------------------------------------------------------------------
\* Mutant of Begin: the loop starts at index 0.
BeginAtZero(c, rq) ==
  /\ call[c].pc = "idle"
  /\ call' = [call EXCEPT ![c] = [pc |-> "loop", op |-> rq.op, dgst |-> rq.dgst, next |-> 0]]
  /\ UNCHANGED <<sem, wg, gor, results, ret, reqs, reps, serverVars, start>>

\* A caller enters CheckDigest, ReportDigest, WhitelistDigest or Ping.
Begin(c, rq) ==
  /\ call[c].pc = "idle"
  /\ call' = [call EXCEPT ![c] = [pc |-> "loop", op |-> rq.op, dgst |-> rq.dgst, next |-> 1]]
  /\ start' = [start EXCEPT ![c] =
                 [db |-> db, succeeded |-> {k \in Calls : call[k].pc = "done" /\ ret[k].ok}]]
  /\ UNCHANGED <<sem, wg, gor, results, ret, reqs, reps, serverVars>>

\* Mutant of Spawn: no semaphore.
SpawnUnbounded(c) ==
  /\ call[c].pc = "loop"
  /\ call[c].next \in Idx
  /\ call' = [call EXCEPT ![c].next = @ + 1]
  /\ sem' = [sem EXCEPT ![c] = @ + 1]
  /\ wg' = [wg EXCEPT ![c] = @ + 1]
  /\ gor' = [gor EXCEPT ![c][call[c].next].pc = "run"]
  /\ UNCHANGED <<results, ret, reqs, reps, serverVars, start>>

\* One turn of the loop in queryAll: wg.Add, take a semaphore token, go.
Spawn(c) ==
  /\ call[c].pc = "loop"
  /\ call[c].next \in Idx
  /\ sem[c] < MaxFanout
  /\ call' = [call EXCEPT ![c].next = @ + 1]
  /\ sem' = [sem EXCEPT ![c] = @ + 1]
  /\ wg' = [wg EXCEPT ![c] = @ + 1]
  /\ gor' = [gor EXCEPT ![c][call[c].next].pc = "run"]
  /\ UNCHANGED <<results, ret, reqs, reps, serverVars, start>>

\* Mutant of Join: the caller does not wait for the goroutines.
JoinWithoutWait(c) ==
  /\ call[c].pc = "loop"
  /\ call[c].next \notin Idx
  /\ call' = [call EXCEPT ![c].pc = "done"]
  /\ UNCHANGED <<sem, wg, gor, results, ret, reqs, reps, serverVars, start>>

\* wg.Wait returns, and the caller folds the results into its answer.
Join(c) ==
  /\ call[c].pc = "loop"
  /\ call[c].next \notin Idx
  /\ wg[c] = 0
  /\ call' = [call EXCEPT ![c].pc = "done"]
  /\ ret' = [ret EXCEPT ![c] =
               [ok    |-> AllOK(results[c]),
                hit   |-> call[c].op = "check" /\ Hit(results[c], RCount, WLCount),
                count |-> maxCount(results[c]),
                wl    |-> maxWhitelist(results[c])]]
  /\ UNCHANGED <<sem, wg, gor, results, reqs, reps, serverVars, start>>

----------------------------------------------------------------------------
\* query: draw a thread id, resolve and dial the server, send the request.
Send(c, i) ==
  /\ gor[c][i].pc = "run"
  /\ \E t \in Threads, p \in Ports \ PortsInUse :
       /\ gor' = [gor EXCEPT ![c][i] = [pc |-> "sent", thread |-> t, port |-> p]]
       /\ reqs' = reqs \cup {[id |-> <<c, i>>, srv |-> Servers[i], port |-> p, thread |-> t,
                              op |-> call[c].op, dgst |-> call[c].dgst]}
  /\ UNCHANGED <<call, sem, wg, results, ret, reps, serverVars, start>>

\* query returns; its goroutine stores sr in its own slot of the slice.
Store(c, i, sr) ==
  /\ results' = [results EXCEPT ![c][i] = sr]
  /\ gor' = [gor EXCEPT ![c][i].pc = "stored"]
  /\ UNCHANGED <<call, sem, wg, ret, reqs, reps, serverVars, start>>

\* Resolving, dialling or sending failed.
SendFails(c, i) ==
  /\ gor[c][i].pc = "run"
  /\ Store(c, i, errResult)

\* The one conn.Read of a query got a datagram, its own or a late one.
Receive(c, i) ==
  /\ gor[c][i].pc = "sent"
  /\ \E m \in reps :
       /\ m.srv = Servers[i] /\ m.port = gor[c][i].port
       /\ Store(c, i, resultOf(call[c].op, m.packet, gor[c][i].thread))

\* Mutant of ReadFails: no SetDeadline, and conn.Read waits for an answer.
ReadFailsNever(c, i) == FALSE

\* conn.Read failed, at the deadline or before.
ReadFails(c, i) ==
  /\ gor[c][i].pc = "sent"
  /\ Store(c, i, errResult)

\* Mutant of Exit: the token is not given back.
ExitKeepsToken(c, i) ==
  /\ gor[c][i].pc = "stored"
  /\ gor' = [gor EXCEPT ![c][i].pc = "exit"]
  /\ wg' = [wg EXCEPT ![c] = @ - 1]
  /\ UNCHANGED <<call, sem, results, ret, reqs, reps, serverVars, start>>

\* The deferred calls of the goroutine: <-sem, then wg.Done.
Exit(c, i) ==
  /\ gor[c][i].pc = "stored"
  /\ gor' = [gor EXCEPT ![c][i].pc = "exit"]
  /\ sem' = [sem EXCEPT ![c] = @ - 1]
  /\ wg' = [wg EXCEPT ![c] = @ - 1]
  /\ UNCHANGED <<call, results, ret, reqs, reps, serverVars, start>>

----------------------------------------------------------------------------
\* External: the counters after a server has carried out a request.
Effect(cnt, op) == CASE op = "report" -> [cnt EXCEPT !.r = @ + 1]
                     [] op = "whitelist" -> [cnt EXCEPT !.wl = @ + 1]
                     [] OTHER -> cnt

\* External: a server's reply to q.  Only a check reply carries counters.
Reply(q, cnt, f) ==
  LET good == [k \in IF q.op = "check" THEN Keys ELSE Keys \ {"Count", "WL-Count"} |->
                 CASE k = "Code" -> <<200>>
                   [] k = "Thread" -> <<q.thread>>
                   [] k = "Count" -> <<cnt.r>>
                   [] k = "WL-Count" -> <<cnt.wl>>
                   [] OTHER -> <<NotNum>>]
  IN CASE f.kind = "none" -> good
       [] f.kind = "refused" ->
            [k \in Keys \ {"Count", "WL-Count"} |->
               CASE k = "Code" -> <<400>> [] k = "Thread" -> <<0>> [] OTHER -> <<NotNum>>]
       [] f.kind = "zeroThread" -> [good EXCEPT !["Thread"] = <<0>>]
       [] f.kind = "missing" -> [k \in DOMAIN good \ {f.key} |-> good[k]]
       [] f.kind = "garbled" -> [k \in DOMAIN good |-> IF k = f.key THEN <<NotNum>> ELSE good[k]]
       [] f.kind = "repeated" -> [k \in DOMAIN good |-> IF k = f.key THEN good[k] \o <<NotNum>> ELSE good[k]]

\* External: a server handles a delivery of request q and answers.
Serve(q, f) ==
  LET c == q.id[1]
      i == q.id[2]
      carriesOut == f.kind # "refused" /\ q.op # "ping"
      after == IF carriesOut THEN Effect(db[q.srv][q.dgst], q.op) ELSE [r |-> 0, wl |-> 0]
  IN /\ handled[c][i] < MaxDeliveries
     /\ handled' = [handled EXCEPT ![c][i] = @ + 1]
     /\ db' = IF carriesOut THEN [db EXCEPT ![q.srv][q.dgst] = after] ELSE db
     /\ applied' = IF f.kind = "refused" THEN applied ELSE applied \cup {q.id}
     /\ reps' = reps \cup {[id |-> q.id, srv |-> q.srv, port |-> q.port, packet |-> Reply(q, after, f)]}
     /\ UNCHANGED <<clientVars, reqs, start>>

----------------------------------------------------------------------------
CallStep(c) ==
  \/ \E rq \in Requests : Begin(c, rq)
  \/ Spawn(c)
  \/ Join(c)

QueryStep(c, i) ==
  \/ Send(c, i)
  \/ SendFails(c, i)
  \/ Receive(c, i)
  \/ ReadFails(c, i)
  \/ Exit(c, i)

Next ==
  \/ \E c \in Calls : CallStep(c)
  \/ \E c \in Calls, i \in Idx : QueryStep(c, i)
  \/ \E q \in reqs, f \in Faults : Serve(q, f)

Spec == Init /\ [][Next]_vars

(***************************************************************************)
(* The scheduler runs every goroutine, the resolver answers or fails, and  *)
(* SetDeadline makes conn.Read return by the deadline: a step of a started *)
(* call or query is not put off for ever.  No fairness for the callers,    *)
(* the servers or the network.                                             *)
(***************************************************************************)
Fairness ==
  /\ \A c \in Calls : WF_vars(Spawn(c)) /\ WF_vars(Join(c))
  /\ \A c \in Calls, i \in Idx : WF_vars(QueryStep(c, i))

FairSpec == Spec /\ Fairness

----------------------------------------------------------------------------
\* Type correctness of the client, the network and the servers.
TypeOK ==
  /\ call \in [Calls -> [pc : {"idle", "loop", "done"},
                         op : {"check", "report", "whitelist", "ping"},
                         dgst : Digests \cup {NoDigest},
                         next : 1 .. Len(Servers) + 1]]
  /\ sem \in [Calls -> Int]
  /\ wg \in [Calls -> Int]
  /\ gor \in [Calls -> [Idx -> Goroutine]]
  /\ results \in [Calls -> [Idx -> ServerResult]]
  /\ ret \in [Calls -> Return]
  /\ reqs \subseteq ReqMsg
  /\ \A m \in reps : IsReply(m)
  /\ db \in [Addrs -> [Digests -> Counters]]
  /\ handled \in [Calls -> [Idx -> Nat]]
  /\ applied \subseteq Ids
  /\ start \in [Calls -> [db : [Addrs -> [Digests -> Counters]], succeeded : SUBSET Calls]]

\* Thread ids tell replies apart: no two queries sent the same server the same
\* id from the same port (generateThread draws from 64512 ids, so this is likely,
\* not certain), and no server answers a success with a reserved id.
ThreadsTellApart ==
  /\ \A q, r \in reqs : q.srv = r.srv /\ q.port = r.port /\ q.thread = r.thread => q.id = r.id
  /\ \A f \in Faults : f.kind # "zeroThread"

(***************************************************************************)
(* Fresh answers.  Unless thread ids collided, the counts a check accepted *)
(* from a server are counts that server held at some moment during the     *)
(* call: no lower than when the call began, no higher than now.  So query  *)
(* never takes a late reply to an earlier query on the same port (nor one  *)
(* with a missing or garbled count) for an answer.                         *)
(***************************************************************************)
FreshCounts ==
  ThreadsTellApart =>
    \A c \in Calls, i \in Idx :
      gor[c][i].pc \in {"stored", "exit"} /\ call[c].op = "check" /\ ok(results[c][i]) =>
        LET old == start[c].db[Servers[i]][call[c].dgst]
            now == db[Servers[i]][call[c].dgst]
        IN /\ old.r <= results[c][i].count /\ results[c][i].count <= now.r
           /\ old.wl <= results[c][i].wl /\ results[c][i].wl <= now.wl

(***************************************************************************)
(* A true answer is the truth.  Unless thread ids collided, a ReportDigest *)
(* or WhitelistDigest that returned true has been carried out by every     *)
(* server on the list.                                                     *)
(***************************************************************************)
TrueMeansApplied ==
  ThreadsTellApart =>
    \A c \in Calls :
      call[c].pc = "done" /\ ret[c].ok => \A i \in Idx : <<c, i>> \in applied

(***************************************************************************)
(* Revocation is final.  Once WhitelistDigest(d) has returned true, no     *)
(* check of d that begins afterwards is a hit, however many reports there  *)
(* are (with the default --wl-count 0).                                    *)
(***************************************************************************)
RevokedIsNoHit ==
  ThreadsTellApart /\ WLCount = 0 =>
    \A c \in Calls : \A k \in start[c].succeeded :
      call[k].op = "whitelist" /\ call[k].dgst = call[c].dgst => ~ret[c].hit

(***************************************************************************)
(* Reports are seen.  Once ReportDigest(d) has returned true, a check of d *)
(* that begins afterwards, gets every server's answer and finds d          *)
(* whitelisted nowhere is a hit (with the default --r-count 0).            *)
(***************************************************************************)
ReportedIsHit ==
  ThreadsTellApart /\ RCount = 0 /\ WLCount = 0 =>
    \A c \in Calls : \A k \in start[c].succeeded :
      /\ call[k].op = "report" /\ call[k].dgst = call[c].dgst
      /\ call[c].pc = "done" /\ call[c].op = "check" /\ ret[c].ok
      /\ \A s \in Addrs : db[s][call[c].dgst].wl = 0
      => ret[c].hit

\* The tokens in the semaphore are the goroutines of this call that have been
\* started and have not run their deferred calls, and so is the WaitGroup.
SemCountsGoroutines ==
  \A c \in Calls :
    LET live == {i \in Idx : gor[c][i].pc \in {"run", "sent", "stored"}}
    IN sem[c] = Cardinality(live) /\ wg[c] = Cardinality(live)

\* Bounded fan-out: one call never holds more than maxFanout sockets.
FanoutBounded ==
  \A c \in Calls : Cardinality({i \in Idx : gor[c][i].pc = "sent"}) <= MaxFanout

(***************************************************************************)
(* wg.Wait covers every write: when a call has returned, all its           *)
(* goroutines have finished and its slice is not written any more.         *)
(***************************************************************************)
NoWriteAfterReturn ==
  [][\A c \in Calls : call[c].pc = "done" => results'[c] = results[c]]_vars

(***************************************************************************)
(* The counts shown with a verdict explain it: when every server answered, *)
(* a check is a hit exactly if the aggregated Count is over --r-count and  *)
(* the aggregated Whitelist is not over --wl-count (thresholds not         *)
(* negative).  Count and Whitelist are maxima, computed apart from Hit.    *)
(***************************************************************************)
VerdictExplained ==
  RCount >= 0 /\ WLCount >= 0 =>
    \A c \in Calls :
      call[c].pc = "done" /\ call[c].op = "check" /\ ret[c].ok =>
        (ret[c].hit <=> ret[c].count > RCount /\ ret[c].wl <= WLCount)

\* The calls, seen by those who make them.
Service == INSTANCE PyzorService WITH
             phase    <- [c \in Calls |-> call[c].pc],
             asked    <- [c \in Calls |-> [op |-> call[c].op, dgst |-> call[c].dgst]],
             from     <- [c \in Calls |-> start[c].db],
             done     <- applied,
             answer   <- [c \in Calls |-> [ok |-> ret[c].ok, hit |-> ret[c].hit]],
             confused <- ~ThreadsTellApart

(***************************************************************************)
(* The client implements PyzorService: goroutines, ports, late, repeated,  *)
(* lost and mangled datagrams and the folding of partial results come down *)
(* to answers that fit the counters the servers held during the call, and  *)
(* a true report or revocation that every server has carried out           *)
(* (CheckDigest, ReportDigest, WhitelistDigest and Ping, client.go:193).   *)
(***************************************************************************)
ImplementsService == Service!Spec

\* Every call returns, whatever the servers and the network do: no query
\* waits past its deadline and no goroutine waits for a token for ever.
CallsReturn == \A c \in Calls : call[c].pc = "loop" ~> call[c].pc = "done"

============================================================================
