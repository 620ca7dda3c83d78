------------------------- MODULE PyzorServiceProofs -------------------------
(***************************************************************************)
(* PyzorClient implements PyzorService, for every list of servers, number  *)
(* of callers, fan-out limit, thresholds, and behaviour of the network.    *)
(***************************************************************************)
EXTENDS PyzorClientProofs

----------------------------------------------------------------------------
\* A step that changes nothing of what callers and servers see is a stutter.
LEMMA NothingSeen ==
  ASSUME db' = db, applied' = applied, ThreadsTellApart' <=> ThreadsTellApart,
         \A c \in Calls : /\ call'[c].pc = call[c].pc
                          /\ call'[c].op = call[c].op /\ call'[c].dgst = call[c].dgst
                          /\ ret'[c].ok = ret[c].ok /\ ret'[c].hit = ret[c].hit
                          /\ start'[c].db = start[c].db
  PROVE  UNCHANGED Service!vars
<1>1. [c \in Calls |-> call'[c].pc] = [c \in Calls |-> call[c].pc]
  OBVIOUS
<1>2. [c \in Calls |-> [op |-> call'[c].op, dgst |-> call'[c].dgst]]
        = [c \in Calls |-> [op |-> call[c].op, dgst |-> call[c].dgst]]
  OBVIOUS
<1>3. [c \in Calls |-> start'[c].db] = [c \in Calls |-> start[c].db]
  OBVIOUS
<1>4. [c \in Calls |-> [ok |-> ret'[c].ok, hit |-> ret'[c].hit]]
        = [c \in Calls |-> [ok |-> ret[c].ok, hit |-> ret[c].hit]]
  OBVIOUS
<1>5. (~ThreadsTellApart)' = ~ThreadsTellApart
  BY Zenon
<1> QED
  BY <1>1, <1>2, <1>3, <1>4, <1>5, Zenon DEF Service!vars

\* Whether thread ids tell replies apart depends on the requests sent alone.
LEMMA SameRequests == reqs' = reqs => (ThreadsTellApart' <=> ThreadsTellApart)
BY DEF ThreadsTellApart

\* The initial states are initial for the callers.
LEMMA ServiceInit == Init => Service!Init
<1> SUFFICES ASSUME Init PROVE Service!Init
  OBVIOUS
<1>1. db \in [{Servers[i] : i \in Service!Idx} -> [Digests -> Service!Counters]]
  <2>1. db \in [Addrs -> [Digests -> InitCounters]]
    BY DEF Init
  <2>2. InitCounters \subseteq Service!Counters
    BY ClientAssumption DEF Counters, Service!Counters
  <2>3. Addrs = {Servers[i] : i \in Service!Idx}
    BY DEF Addrs, Idx, Service!Idx
  <2>4. \A s \in Addrs : db[s] \in [Digests -> Service!Counters]
    BY <2>1, <2>2
  <2> QED
    BY <2>1, <2>3, <2>4
<1>2. /\ [c \in Calls |-> call[c].pc] = [c \in Calls |-> "idle"]
      /\ [c \in Calls |-> [op |-> call[c].op, dgst |-> call[c].dgst]]
           = [c \in Calls |-> [op |-> "ping", dgst |-> NoDigest]]
      /\ [c \in Calls |-> start[c].db] = [c \in Calls |-> db]
      /\ applied = {}
      /\ [c \in Calls |-> [ok |-> ret[c].ok, hit |-> ret[c].hit]]
           = [c \in Calls |-> [ok |-> FALSE, hit |-> FALSE]]
  BY DEF Init
<1>3. (~ThreadsTellApart) \in BOOLEAN
  BY Zenon
<1> QED
  BY <1>1, <1>2, <1>3, Zenon DEF Service!Init

\* A call begins.
LEMMA BeginStep ==
  ASSUME TypeInv, NEW c \in Calls, NEW rq \in Requests, Begin(c, rq)
  PROVE  Service!Begin(c)
<1>0. /\ call \in [Calls -> [pc : {"idle", "loop", "done"},
                             op : Ops, dgst : Digests \cup {NoDigest}, next : 1 .. Len(Servers) + 1]]
      /\ DOMAIN start = Calls
  BY DEF TypeInv, TypeOK, Ops
<1>1. /\ call[c].pc = "idle"
      /\ call' = [call EXCEPT ![c] = [pc |-> "loop", op |-> rq.op, dgst |-> rq.dgst, next |-> 1]]
      /\ start' = [start EXCEPT ![c] =
                     [db |-> db, succeeded |-> {k \in Calls : call[k].pc = "done" /\ ret[k].ok}]]
      /\ reqs' = reqs /\ ret' = ret /\ db' = db /\ applied' = applied
  BY DEF Begin, serverVars
<1>2. [k \in Calls |-> call'[k].pc] = [[k \in Calls |-> call[k].pc] EXCEPT ![c] = "loop"]
  BY <1>0, <1>1
<1>3. rq = [op |-> rq.op, dgst |-> rq.dgst]
  BY ClientAssumption DEF Request
<1>4. [k \in Calls |-> [op |-> call'[k].op, dgst |-> call'[k].dgst]]
        = [[k \in Calls |-> [op |-> call[k].op, dgst |-> call[k].dgst]] EXCEPT ![c] = rq]
  BY <1>0, <1>1, <1>3
<1>5. [k \in Calls |-> start'[k].db] = [[k \in Calls |-> start[k].db] EXCEPT ![c] = db]
  BY <1>0, <1>1
<1>6. (~ThreadsTellApart)' = ~ThreadsTellApart
  BY <1>1, SameRequests, Zenon
<1>7. [k \in Calls |-> [ok |-> ret'[k].ok, hit |-> ret'[k].hit]]
        = [k \in Calls |-> [ok |-> ret[k].ok, hit |-> ret[k].hit]]
  BY <1>1
<1>8. [k \in Calls |-> call[k].pc][c] = "idle"
  BY <1>1
<1> QED
  BY <1>1, <1>2, <1>4, <1>5, <1>6, <1>7, <1>8, Zenon DEF Service!Begin

\* A call returns: the results its goroutines stored justify the answer.
LEMMA ReturnAnswers ==
  ASSUME TypeInv, TypeInv', FanoutInv', FreshInv, ReturnInv', VerdictInv',
         NEW c \in Calls, Join(c)
  PROVE  Service!Justified(c, [ok |-> ret'[c].ok, hit |-> ret'[c].hit])
<1>0. /\ results \in [Calls -> [Idx -> ServerResult]]
      /\ results' = results /\ start' = start /\ db' = db /\ gor' = gor /\ reqs' = reqs
      /\ applied' = applied
      /\ call'[c].pc = "done" /\ call'[c].op = call[c].op /\ call'[c].dgst = call[c].dgst
  BY DEF Join, TypeInv, TypeOK, serverVars
<1>1. DOMAIN results[c] = Idx /\ results[c] # <<>>
  <2>1. 1 \in Idx
    BY ClientAssumption DEF Idx
  <2> QED
    BY <1>0, <2>1
<1>2. ret'[c].ok <=> AllOK(results[c])
  <2>1. ret'[c].ok = AllOK(results'[c])
    BY <1>0 DEF ReturnInv
  <2>2. AllOK(results'[c]) <=> AllOK(results[c])
    BY <1>0, Zenon
  <2> QED
    BY <2>1, <2>2, Zenon
<1>3. ret'[c].hit <=> call[c].op = "check" /\ Hit(results[c], RCount, WLCount)
  <2>1. ret'[c].hit <=> call'[c].op = "check" /\ Hit(results'[c], RCount, WLCount)
    BY <1>0, Zenon DEF VerdictInv
  <2>2. Hit(results'[c], RCount, WLCount) <=> Hit(results[c], RCount, WLCount)
    BY <1>0, Zenon
  <2> QED
    BY <1>0, <2>1, <2>2, Zenon
<1>4. ret'[c].ok => \A i \in Idx : ok(results[c][i])
  BY <1>1, <1>2 DEF AllOK
<1>5. ret'[c].hit => /\ call[c].op = "check" /\ ret'[c].ok
                     /\ \A i \in Idx : results[c][i].wl <= WLCount
                     /\ \E i \in Idx : results[c][i].count > RCount
  BY <1>1, <1>2, <1>3 DEF Hit, AllOK
<1>6. call[c].op = "check" /\ ret'[c].ok /\ ~ret'[c].hit =>
        \/ \E i \in Idx : ~(results[c][i].wl <= WLCount)
        \/ \A i \in Idx : ~(results[c][i].count > RCount)
  BY <1>1, <1>3, <1>4 DEF Hit
<1>7. ASSUME ThreadsTellApart, ret'[c].ok, NEW i \in Idx
      PROVE  /\ <<c, i>> \in applied
             /\ call[c].op = "check" =>
                  /\ Within(c, Servers[i], call[c].dgst, results[c][i])
                  /\ results[c][i].count \in Int /\ results[c][i].wl \in Int
                  /\ start[c].db[Servers[i]][call[c].dgst] \in Counters
                  /\ db[Servers[i]][call[c].dgst] \in Counters
  <2>1. gor[c][i].pc = "exit"
    BY <1>0 DEF FanoutInv
  <2>2. Genuine(c, i)
    BY <1>7 DEF FreshInv, ResultsInv
  <2>3. results[c][i] \in ServerResult
    BY <1>0
  <2>4. results[c][i].count \in Int /\ results[c][i].wl \in Int
    BY <2>3, MessageAssumption DEF ServerResult, IntRange
  <2>5. call[c].op = "check" => call[c].dgst \in Digests /\ Servers[i] \in Addrs
    BY IdxFacts DEF TypeInv, DigestOK
  <2>6. call[c].op = "check" => /\ start[c].db[Servers[i]][call[c].dgst] \in Counters
                                /\ db[Servers[i]][call[c].dgst] \in Counters
    BY <2>5 DEF TypeInv, TypeOK
  <2> QED
    BY <1>4, <1>7, <2>1, <2>2, <2>4, <2>6 DEF Genuine
<1> DEFINE old(i) == start[c].db[Servers[i]][call[c].dgst]
           new(i) == db[Servers[i]][call[c].dgst]
<1>8. ASSUME ThreadsTellApart, ret'[c].ok, call[c].op = "check", NEW i \in Idx
      PROVE  /\ old(i).r <= results[c][i].count /\ results[c][i].count <= new(i).r
             /\ old(i).wl <= results[c][i].wl /\ results[c][i].wl <= new(i).wl
             /\ {old(i).r, old(i).wl, new(i).r, new(i).wl} \subseteq Int
             /\ {results[c][i].count, results[c][i].wl} \subseteq Int
  <2>1. /\ Within(c, Servers[i], call[c].dgst, results[c][i])
        /\ results[c][i].count \in Int /\ results[c][i].wl \in Int
        /\ old(i) \in Counters /\ new(i) \in Counters
    BY <1>7, <1>8
  <2>2. \A cnt \in Counters : cnt.r \in Int /\ cnt.wl \in Int
    BY DEF Counters
  <2>3. {old(i).r, old(i).wl, new(i).r, new(i).wl} \subseteq Int
    BY <2>1, <2>2, Zenon
  <2> QED
    BY <2>1, <2>3 DEF Within
<1> HIDE DEF old, new
<1>bounds. RCount \in Int /\ WLCount \in Int
  BY ClientAssumption
<1>9. ASSUME ThreadsTellApart, ret'[c].ok, call[c].op = "check"
      PROVE  IF ret'[c].hit
             THEN (\A i \in Idx : old(i).wl <= WLCount) /\ \E i \in Idx : new(i).r > RCount
             ELSE (\E i \in Idx : new(i).wl > WLCount) \/ \A i \in Idx : old(i).r <= RCount
  <2>1. CASE ret'[c].hit
    <3>1. ASSUME NEW i \in Idx PROVE old(i).wl <= WLCount
      <4>1. results[c][i].wl <= WLCount
        BY <1>5, <2>1
      <4> QED
        BY <1>8, <1>9, <1>bounds, <4>1
    <3>2. PICK i \in Idx : results[c][i].count > RCount
      BY <1>5, <2>1
    <3>3. new(i).r > RCount
      BY <1>8, <1>9, <1>bounds, <3>2
    <3> QED
      BY <2>1, <3>1, <3>3
  <2>2. CASE ~ret'[c].hit
    <3>1. CASE \E i \in Idx : ~(results[c][i].wl <= WLCount)
      <4>1. PICK i \in Idx : ~(results[c][i].wl <= WLCount)
        BY <3>1
      <4>2. new(i).wl > WLCount
        BY <1>8, <1>9, <1>bounds, <4>1
      <4> QED
        BY <2>2, <4>2
    <3>2. CASE \A i \in Idx : ~(results[c][i].count > RCount)
      <4>1. ASSUME NEW i \in Idx PROVE old(i).r <= RCount
        <5>1. ~(results[c][i].count > RCount)
          BY <3>2
        <5> QED
          BY <1>8, <1>9, <1>bounds, <5>1
      <4> QED
        BY <2>2, <4>1
    <3> QED
      BY <1>6, <1>9, <2>2, <3>1, <3>2
  <2> QED
    BY <2>1, <2>2
<1>10. /\ [k \in Calls |-> [op |-> call[k].op, dgst |-> call[k].dgst]][c]
            = [op |-> call[c].op, dgst |-> call[c].dgst]
       /\ [k \in Calls |-> start[k].db][c] = start[c].db
       /\ Service!Idx = Idx
  BY DEF Idx, Service!Idx
<1> QED
  BY <1>5, <1>7, <1>9, <1>10, Zenon
  DEF Service!Justified, Service!MayHit, Service!MayMiss, Service!Old, Service!New, old, new

\* So the step is one of the abstract specification.
LEMMA JoinStep ==
  ASSUME TypeInv, TypeInv', FanoutInv', FreshInv, ReturnInv', VerdictInv',
         NEW c \in Calls, Join(c)
  PROVE  Service!Return(c)
<1> DEFINE ans == [ok |-> ret'[c].ok, hit |-> ret'[c].hit]
<1>0. /\ DOMAIN call = Calls /\ DOMAIN ret = Calls
      /\ ret'[c] \in Return
  BY DEF TypeInv, TypeOK
<1>1. /\ call[c].pc = "loop"
      /\ call' = [call EXCEPT ![c].pc = "done"]
      /\ db' = db /\ applied' = applied /\ reqs' = reqs /\ start' = start
      /\ \A k \in Calls : k # c => ret'[k] = ret[k]
  BY <1>0 DEF Join, serverVars
<1>2. [k \in Calls |-> call'[k].pc] = [[k \in Calls |-> call[k].pc] EXCEPT ![c] = "done"]
  <2>1. call'[c].pc = "done" /\ \A k \in Calls : k # c => call'[k] = call[k]
    BY <1>0 DEF Join, TypeInv, TypeOK
  <2> QED
    BY <2>1
<1>3. [k \in Calls |-> [ok |-> ret'[k].ok, hit |-> ret'[k].hit]]
        = [[k \in Calls |-> [ok |-> ret[k].ok, hit |-> ret[k].hit]] EXCEPT ![c] = ans]
  BY <1>1
<1>4. ans \in [ok : BOOLEAN, hit : BOOLEAN]
  BY <1>0 DEF Return
<1>5. [k \in Calls |-> [op |-> call'[k].op, dgst |-> call'[k].dgst]]
        = [k \in Calls |-> [op |-> call[k].op, dgst |-> call[k].dgst]]
  <2>1. ASSUME NEW k \in Calls
        PROVE  call'[k].op = call[k].op /\ call'[k].dgst = call[k].dgst
    BY <1>1 DEF TypeInv, TypeOK
  <2> QED
    BY <2>1
<1>6. [k \in Calls |-> start'[k].db] = [k \in Calls |-> start[k].db]
  BY <1>1
<1>7. (~ThreadsTellApart)' = ~ThreadsTellApart
  BY <1>1, SameRequests, Zenon
<1>8. [k \in Calls |-> call[k].pc][c] = "loop"
  BY <1>1
<1>9. Service!Justified(c, ans)
  BY ReturnAnswers
<1> QED
  BY <1>1, <1>2, <1>3, <1>4, <1>5, <1>6, <1>7, <1>8, <1>9, Zenon DEF Service!Return

\* A server handles a request: it carries it out, or nothing is seen of it.
LEMMA ServeStep ==
  ASSUME TypeInv, RequestsInv, NEW q \in reqs, NEW f \in Faults, Serve(q, f)
  PROVE  \/ UNCHANGED Service!vars
         \/ \E c \in Calls, i \in Service!Idx : Service!CarryOut(c, i)
<1>0. /\ db \in [Addrs -> [Digests -> Counters]]
      /\ q \in ReqMsg
      /\ call' = call /\ ret' = ret /\ start' = start /\ reqs' = reqs
  BY DEF TypeInv, TypeOK, Serve, clientVars
<1>1. PICK c \in Calls, i \in Idx : RequestOf(q, c, i)
  BY DEF RequestsInv
<1>2. /\ q.id = <<c, i>> /\ q.srv = Servers[i] /\ q.srv \in Addrs
      /\ call[c].pc # "idle" /\ q.op = call[c].op /\ q.dgst = call[c].dgst
  BY <1>0, <1>1 DEF RequestOf, ReqMsg
<1>3. ThreadsTellApart' <=> ThreadsTellApart
  BY <1>0, SameRequests
<1>4. CASE f.kind = "refused"
  <2>1. db' = db /\ applied' = applied
    BY <1>4 DEF Serve
  <2> QED
    BY <1>0, <1>3, <2>1, NothingSeen
<1>5. CASE f.kind # "refused"
  <2> DEFINE s == Servers[i]
             d == call[c].dgst
  <2>1. /\ applied' = applied \cup {<<c, i>>}
        /\ db' = IF q.op # "ping" THEN [db EXCEPT ![s][d] = Effect(db[s][d], q.op)] ELSE db
    BY <1>2, <1>5 DEF Serve
  <2>2. q.op # "ping" => d \in Digests
    BY <1>2 DEF TypeInv, DigestOK
  <2> HIDE DEF s, d
  <2>3. db' = CASE call[c].op = "report" -> [db EXCEPT ![s][d].r = @ + 1]
                [] call[c].op = "whitelist" -> [db EXCEPT ![s][d].wl = @ + 1]
                [] OTHER -> db
    <3>1. CASE q.op = "report"
      <4>1. Effect(db[s][d], q.op) = [db[s][d] EXCEPT !.r = @ + 1]
        BY <3>1 DEF Effect
      <4>2. db' = [db EXCEPT ![s][d] = [db[s][d] EXCEPT !.r = @ + 1]]
        BY <2>1, <3>1, <4>1
      <4> QED
        BY <1>2, <3>1, <4>2
    <3>2. CASE q.op = "whitelist"
      <4>1. Effect(db[s][d], q.op) = [db[s][d] EXCEPT !.wl = @ + 1]
        BY <3>2 DEF Effect
      <4>2. db' = [db EXCEPT ![s][d] = [db[s][d] EXCEPT !.wl = @ + 1]]
        BY <2>1, <3>2, <4>1
      <4> QED
        BY <1>2, <3>2, <4>2
    <3>3. CASE q.op = "check"
      <4>1. Effect(db[s][d], q.op) = db[s][d]
        BY <3>3 DEF Effect
      <4>2. db' = [db EXCEPT ![s][d] = db[s][d]]
        BY <2>1, <3>3, <4>1
      <4>3. s \in Addrs /\ d \in Digests
        BY <1>2, <2>2, <3>3 DEF s
      <4>4. db' = db
        BY <1>0, <4>2, <4>3
      <4> QED
        BY <1>2, <3>3, <4>4
    <3>4. CASE q.op = "ping"
      BY <1>2, <2>1, <3>4
    <3> QED
      BY <1>0, <3>1, <3>2, <3>3, <3>4 DEF ReqMsg
  <2>4. /\ [k \in Calls |-> call[k].pc][c] # "idle"
        /\ [k \in Calls |-> [op |-> call[k].op, dgst |-> call[k].dgst]][c] = [op |-> call[c].op, dgst |-> d]
        /\ Service!Idx = Idx
    BY <1>2 DEF d, Idx, Service!Idx
  <2>5. /\ [k \in Calls |-> call'[k].pc] = [k \in Calls |-> call[k].pc]
        /\ [k \in Calls |-> [op |-> call'[k].op, dgst |-> call'[k].dgst]]
             = [k \in Calls |-> [op |-> call[k].op, dgst |-> call[k].dgst]]
        /\ [k \in Calls |-> start'[k].db] = [k \in Calls |-> start[k].db]
        /\ [k \in Calls |-> [ok |-> ret'[k].ok, hit |-> ret'[k].hit]]
             = [k \in Calls |-> [ok |-> ret[k].ok, hit |-> ret[k].hit]]
    BY <1>0
  <2>6. (~ThreadsTellApart)' = ~ThreadsTellApart
    BY <1>3, Zenon
  <2>7. [op |-> call[c].op, dgst |-> d].op = call[c].op /\ [op |-> call[c].op, dgst |-> d].dgst = d
    OBVIOUS
  <2>8. Service!CarryOut(c, i)
    BY <2>1, <2>3, <2>4, <2>5, <2>6, <2>7, Zenon DEF Service!CarryOut, s
  <2> QED
    BY <2>4, <2>8
<1> QED
  BY <1>4, <1>5

\* A step of a goroutine shows only when it makes thread ids collide.
LEMMA QueryUnseen ==
  ASSUME NEW c \in Calls, NEW i \in Idx, QueryStep(c, i)
  PROVE  UNCHANGED Service!vars \/ Service!Confuse
<1>1. /\ call' = call /\ ret' = ret /\ start' = start /\ db' = db /\ applied' = applied
      /\ reqs \subseteq reqs'
  <2>1. CASE Send(c, i)
    BY <2>1 DEF Send, serverVars
  <2>2. CASE SendFails(c, i)
    BY <2>2 DEF SendFails, Store, serverVars
  <2>3. CASE Receive(c, i)
    BY <2>3 DEF Receive, Store, serverVars
  <2>4. CASE ReadFails(c, i)
    BY <2>4 DEF ReadFails, Store, serverVars
  <2>5. CASE Exit(c, i)
    BY <2>5 DEF Exit, serverVars
  <2> QED
    BY <2>1, <2>2, <2>3, <2>4, <2>5 DEF QueryStep
<1>2. ThreadsTellApart' => ThreadsTellApart
  BY <1>1 DEF ThreadsTellApart
<1>3. CASE ThreadsTellApart' <=> ThreadsTellApart
  BY <1>1, <1>3, NothingSeen
<1>4. CASE ThreadsTellApart /\ ~ThreadsTellApart'
  <2>1. (~ThreadsTellApart)' = TRUE /\ ~~ThreadsTellApart
    BY <1>4, Zenon
  <2>2. /\ [k \in Calls |-> call'[k].pc] = [k \in Calls |-> call[k].pc]
        /\ [k \in Calls |-> [op |-> call'[k].op, dgst |-> call'[k].dgst]]
             = [k \in Calls |-> [op |-> call[k].op, dgst |-> call[k].dgst]]
        /\ [k \in Calls |-> start'[k].db] = [k \in Calls |-> start[k].db]
        /\ [k \in Calls |-> [ok |-> ret'[k].ok, hit |-> ret'[k].hit]]
             = [k \in Calls |-> [ok |-> ret[k].ok, hit |-> ret[k].hit]]
    BY <1>1
  <2> QED
    BY <1>1, <2>1, <2>2, Zenon DEF Service!Confuse
<1> QED
  BY <1>2, <1>3, <1>4

\* The loop of queryAll goes on without the caller seeing it.
LEMMA SpawnUnseen ==
  ASSUME TypeInv, NEW c \in Calls, Spawn(c)
  PROVE  UNCHANGED Service!vars
<1>1. /\ db' = db /\ applied' = applied /\ reqs' = reqs /\ ret' = ret /\ start' = start
      /\ call' = [call EXCEPT ![c].next = call[c].next + 1]
  BY DEF Spawn, serverVars
<1>2. ASSUME NEW k \in Calls
      PROVE  call'[k].pc = call[k].pc /\ call'[k].op = call[k].op /\ call'[k].dgst = call[k].dgst
  BY <1>1 DEF TypeInv, TypeOK
<1> QED
  BY <1>1, <1>2, SameRequests, NothingSeen

\* Every step is a step of the abstract specification or a stutter.
LEMMA ServiceStep ==
  ASSUME TypeInv, TypeInv', FanoutInv', FreshInv, ReturnInv', VerdictInv', [Next]_vars
  PROVE  [Service!Next]_Service!vars
<1>1. ASSUME NEW c \in Calls, NEW rq \in Requests, Begin(c, rq)
      PROVE  Service!Next
  BY <1>1, BeginStep, Zenon DEF Service!Next
<1>2. ASSUME NEW c \in Calls, Join(c)
      PROVE  Service!Next
  BY <1>2, JoinStep, Zenon DEF Service!Next
<1>3. ASSUME NEW q \in reqs, NEW f \in Faults, Serve(q, f)
      PROVE  Service!Next \/ UNCHANGED Service!vars
  BY <1>3, ServeStep, Zenon DEF Service!Next, FreshInv
<1>4. ASSUME NEW c \in Calls, NEW i \in Idx, QueryStep(c, i)
      PROVE  Service!Next \/ UNCHANGED Service!vars
  BY <1>4, QueryUnseen, Zenon DEF Service!Next
<1>5. ASSUME NEW c \in Calls, Spawn(c)
      PROVE  UNCHANGED Service!vars
  BY <1>5, SpawnUnseen
<1>6. CASE UNCHANGED vars
  <2>1. /\ call' = call /\ ret' = ret /\ start' = start /\ db' = db /\ applied' = applied
        /\ reqs' = reqs
    BY <1>6 DEF vars
  <2> QED
    BY <2>1, SameRequests, NothingSeen
<1> QED
  BY <1>1, <1>2, <1>3, <1>4, <1>5, <1>6, Zenon DEF Next, CallStep

(***************************************************************************)
(* The client implements its abstract specification: whatever goroutines,  *)
(* network and servers do, answers fit the counters during the call, and   *)
(* a true report or revocation has been carried out by every server.       *)
(***************************************************************************)
THEOREM ClientImplementsService == Spec => ImplementsService
<1>1. TypeInv /\ FanoutInv /\ FreshInv /\ SeenInv
        /\ (TypeInv /\ FanoutInv /\ FreshInv /\ SeenInv)' /\ [Next]_vars
        => [Service!Next]_Service!vars
  BY ServiceStep DEF FreshInv, SeenInv
<1> QED
  BY <1>1, ServiceInit, SeenAlways, PTL DEF Spec, ImplementsService, Service!Spec

============================================================================
