------------------------- MODULE PyzorClientProofs -------------------------
(***************************************************************************)
(* Theorems about PyzorClient for every list of servers, number of         *)
(* callers, fan-out limit, and behaviour of the network.                   *)
(***************************************************************************)
EXTENDS PyzorClient, FiniteSetTheorems, WellFoundedInduction, TLAPS

----------------------------------------------------------------------------
(* The operators of PyzorMessage, for every packet, thread id and slice *)

\* strconv.Atoi returns an int whatever the text.
LEMMA AtoiInRange == \A v : Atoi(v) \in IntRange
BY MessageAssumption DEF Atoi, IntRange

LEMMA IntFieldInRange == \A fields, key : intField(fields, key) \in IntRange
BY AtoiInRange, MessageAssumption DEF intField, IntRange

\* query leaves a well-formed ServerResult for every datagram it may read.
LEMMA ResultType == \A op, packet, thread : resultOf(op, packet, thread) \in ServerResult
<1>1. 0 \in IntRange
  BY MessageAssumption DEF IntRange
<1> QED
  BY <1>1, IntFieldInRange DEF resultOf, ServerResult, errResult, zeroResult, code

\* A set of ints that is not empty has a maximum.
LEMMA MaxOfInts ==
  ASSUME NEW S, S \subseteq IntRange, S # {}
  PROVE  Max(S) \in S /\ \A x \in S : Max(S) >= x
<1> DEFINE D == {MaxInt - x : x \in S}
           Less == {p \in Nat \X Nat : p[1] < p[2]}
<1>1. D \subseteq Nat
  <2>1. \A x \in S : MaxInt - x \in Nat
    BY MessageAssumption DEF IntRange
  <2> QED
    BY <2>1
<1>2. D # {}
  OBVIOUS
<1>3. IsWellFoundedOn(Less, Nat)
  BY NatLessThanWellFounded, Zenon DEF OpToRel
<1>4. PICK d \in D : \A e \in D : <<e, d>> \notin Less
  <2> HIDE DEF D, Less
  <2> QED
    BY <1>1, <1>2, <1>3, WFMin
<1>5. PICK m \in S : d = MaxInt - m
  OBVIOUS
<1>6. ASSUME NEW x \in S
      PROVE  m >= x
  <2>1. MaxInt - x \in D
    OBVIOUS
  <2>2. <<MaxInt - x, d>> \notin Less
    BY <1>4, <2>1
  <2>3. ~(MaxInt - x < d)
    BY <1>1, <2>1, <2>2
  <2> QED
    BY <1>5, <2>3, MessageAssumption DEF IntRange
<1> QED
  BY <1>6 DEF Max

----------------------------------------------------------------------------
(* Thread ids and sequences *)

\* Every thread id a query draws is outside the reserved range.
LEMMA ThreadIdBound == \A t \in ThreadIds : t \in Int /\ t >= threadOKMin
<1>1. threadOKMin \in Int
  BY DEF threadOKMin
<1> QED
  BY <1>1 DEF ThreadIds

\* The last element of a sequence of one or two.
LEMMA LastOfOne == \A v : <<v>>[Len(<<v>>)] = v
OBVIOUS

\* The last element of a sequence of two, and of the concatenation that makes it.
LEMMA LastOfTwo == \A v, w : (<<v>> \o <<w>>)[Len(<<v>> \o <<w>>)] = w
<1>1. SUFFICES ASSUME NEW v, NEW w PROVE (<<v>> \o <<w>>)[Len(<<v>> \o <<w>>)] = w
  OBVIOUS
<1>2. <<v>> \in Seq({v, w}) /\ <<w>> \in Seq({v, w}) /\ Len(<<v>>) = 1 /\ Len(<<w>>) = 1
  OBVIOUS
<1>3. Len(<<v>> \o <<w>>) = 2 /\ (<<v>> \o <<w>>)[2] = <<w>>[1]
  BY <1>2
<1> QED
  BY <1>3

\* What the client can find in a reply (without the reserved thread id on a
\* success): the last values of the fields that its verdict depends on.
LEMMA ReplyFields ==
  ASSUME NEW q \in ReqMsg, NEW cnt \in Counters, NEW f \in Fault, f.kind # "zeroThread",
         NEW fields, fields = parseResponse(Reply(q, cnt, f)), f.kind # "refused"
  PROVE  /\ "Thread" \in DOMAIN fields => fields["Thread"] \in {q.thread, NotNum}
         /\ "Count" \in DOMAIN fields => q.op = "check" /\ fields["Count"] \in {cnt.r, NotNum}
         /\ "WL-Count" \in DOMAIN fields => fields["WL-Count"] \in {cnt.wl, NotNum}
<1> DEFINE good == [k \in IF q.op = "check" THEN Keys ELSE Keys \ {"Count", "WL-Count"} |->
                 CASE k = "Code" -> <<200>>
                   [] k = "Thread" -> <<q.thread>>
                   [] k = "Count" -> <<cnt.r>>
                   [] k = "WL-Count" -> <<cnt.wl>>
                   [] OTHER -> <<NotNum>>]
<1>1. f.kind \in {"none", "missing", "garbled", "repeated"} /\ f.key \in Keys
  BY DEF Fault, Keys
<1>2. /\ "Thread" \in DOMAIN good => good["Thread"] = <<q.thread>>
      /\ "Count" \in DOMAIN good => q.op = "check" /\ good["Count"] = <<cnt.r>>
      /\ "WL-Count" \in DOMAIN good => good["WL-Count"] = <<cnt.wl>>
  BY DEF Keys
<1> HIDE DEF good
<1> DEFINE P == Reply(q, cnt, f)
           Shows(k, v) == k \in DOMAIN P =>
                            /\ k \in DOMAIN good
                            /\ good[k] = <<v>> => P[k] \in {<<v>>, <<NotNum>>, <<v>> \o <<NotNum>>}
<1>3. \A k, v : Shows(k, v)
  <2>1. CASE f.kind = "none"
    <3>1. P = good
      BY <2>1 DEF Reply, good
    <3> QED
      BY <3>1
  <2>2. CASE f.kind = "missing"
    <3>1. P = [k \in DOMAIN good \ {f.key} |-> good[k]]
      BY <2>2 DEF Reply, good
    <3> QED
      BY <3>1
  <2>3. CASE f.kind = "garbled"
    <3>1. P = [k \in DOMAIN good |-> IF k = f.key THEN <<NotNum>> ELSE good[k]]
      BY <2>3 DEF Reply, good
    <3> QED
      BY <3>1
  <2>4. CASE f.kind = "repeated"
    <3>1. P = [k \in DOMAIN good |-> IF k = f.key THEN good[k] \o <<NotNum>> ELSE good[k]]
      BY <2>4 DEF Reply, good
    <3> QED
      BY <3>1, Zenon
  <2> QED
    BY <1>1, <2>1, <2>2, <2>3, <2>4
<1>4. \A k, v : k \in DOMAIN fields /\ good[k] = <<v>> =>
                  k \in DOMAIN good /\ fields[k] \in {v, NotNum}
  <2>1. fields = [k \in DOMAIN P |-> P[k][Len(P[k])]]
    BY DEF parseResponse
  <2>2. ASSUME NEW k, NEW v, k \in DOMAIN fields, good[k] = <<v>>
        PROVE  k \in DOMAIN good /\ fields[k] \in {v, NotNum}
    <3> HIDE DEF P
    <3>1. k \in DOMAIN P /\ fields[k] = P[k][Len(P[k])]
      BY <2>1, <2>2
    <3>2. k \in DOMAIN good /\ P[k] \in {<<v>>, <<NotNum>>, <<v>> \o <<NotNum>>}
      BY <1>3, <2>2, <3>1, Zenon
    <3>3. CASE P[k] = <<v>>
      BY <3>1, <3>2, <3>3, LastOfOne, Zenon
    <3>4. CASE P[k] = <<NotNum>>
      BY <3>1, <3>2, <3>4, LastOfOne, Zenon
    <3>5. CASE P[k] = <<v>> \o <<NotNum>>
      BY <3>1, <3>2, <3>5, LastOfTwo
    <3> QED
      BY <3>2, <3>3, <3>4, <3>5, Zenon
  <2> QED
    BY <2>2
<1>5. \A k \in {"Thread", "Count", "WL-Count"} : k \in DOMAIN fields => k \in DOMAIN good
  <2>1. fields = [k \in DOMAIN P |-> P[k][Len(P[k])]]
    BY DEF parseResponse
  <2> HIDE DEF P
  <2> QED
    BY <1>3, <2>1, Zenon
<1> HIDE DEF P
<1> QED
  BY <1>2, <1>4, <1>5, Zenon

\* A query with thread id t that takes a reply to request q for a success has
\* q's thread id, the server carried q out, and the counts are the server's.
LEMMA ReplyAccepted ==
  ASSUME NEW q \in ReqMsg, NEW cnt \in Counters, NEW f \in Fault, f.kind # "zeroThread",
         NEW op, NEW t \in Threads, NEW sr, sr = resultOf(op, Reply(q, cnt, f), t), ok(sr)
  PROVE  /\ f.kind # "refused"
         /\ t = q.thread
         /\ op = "check" => q.op = "check" /\ sr.count = cnt.r /\ sr.wl = cnt.wl
<1> DEFINE fields == parseResponse(Reply(q, cnt, f))
<1>1. /\ validate(fields, t)
      /\ op = "check" /\ code(fields) = 200 => requireCounts(fields)
      /\ sr = [err |-> FALSE, code |-> code(fields),
               count |-> intField(fields, "Count"), wl |-> intField(fields, "WL-Count")]
  BY DEF resultOf, ok, errResult, zeroResult
<1>2. code(fields) = 200
  BY <1>1 DEF ok
<1>3. f.kind # "refused"
  <2>1. SUFFICES ASSUME f.kind = "refused" PROVE code(fields) = 400
    BY <1>2
  <2>2. Reply(q, cnt, f) = [k \in Keys \ {"Count", "WL-Count"} |->
               CASE k = "Code" -> <<400>> [] k = "Thread" -> <<0>> [] OTHER -> <<NotNum>>]
    BY <2>1 DEF Reply
  <2>3. "Code" \in DOMAIN fields /\ fields["Code"] = 400
    BY <2>2 DEF parseResponse, Keys
  <2> QED
    BY <2>3, MessageAssumption DEF code, intField, Atoi, IntRange
<1>4. q.thread \in ThreadIds /\ t \in ThreadIds
  BY ClientAssumption DEF ReqMsg
<1> HIDE DEF fields
<1>5. /\ "Thread" \in DOMAIN fields => fields["Thread"] \in {q.thread, NotNum}
      /\ "Count" \in DOMAIN fields => q.op = "check" /\ fields["Count"] \in {cnt.r, NotNum}
      /\ "WL-Count" \in DOMAIN fields => fields["WL-Count"] \in {cnt.wl, NotNum}
  BY <1>3, ReplyFields DEF fields
<1>6. t = q.thread
  <2>1. "Thread" \in DOMAIN fields /\ ~AtoiFails(fields["Thread"])
    BY <1>1 DEF validate
  <2>2. fields["Thread"] = q.thread
    BY <1>5, <2>1, MessageAssumption DEF AtoiFails, IntRange
  <2>3. Atoi(fields["Thread"]) = q.thread
    BY <2>1, <2>2 DEF AtoiFails, Atoi
  <2>4. q.thread >= threadOKMin
    BY <1>4, ThreadIdBound
  <2> QED
    BY <1>1, <2>3, <2>4 DEF validate
<1>7. ASSUME op = "check"
      PROVE  q.op = "check" /\ sr.count = cnt.r /\ sr.wl = cnt.wl
  <2>1. /\ "Count" \in DOMAIN fields /\ ~AtoiFails(fields["Count"])
        /\ "WL-Count" \in DOMAIN fields /\ ~AtoiFails(fields["WL-Count"])
    BY <1>1, <1>2, <1>7 DEF requireCounts
  <2>2. q.op = "check" /\ fields["Count"] = cnt.r /\ fields["WL-Count"] = cnt.wl
    BY <1>5, <2>1, MessageAssumption DEF AtoiFails, IntRange
  <2>3. Atoi(fields["Count"]) = cnt.r /\ Atoi(fields["WL-Count"]) = cnt.wl
    BY <2>1, <2>2 DEF AtoiFails, Atoi
  <2> QED
    BY <1>1, <2>1, <2>2, <2>3 DEF intField
<1> QED
  BY <1>3, <1>6, <1>7

----------------------------------------------------------------------------
\* A request other than a ping is about a digest of a message.
DigestOK ==
  /\ \A c \in Calls : call[c].op # "ping" => call[c].dgst \in Digests
  /\ \A q \in reqs : q.op # "ping" => q.dgst \in Digests

TypeInv == TypeOK /\ DigestOK

\* The slots of a results slice are finitely many numbers, each with a server.
LEMMA IdxFacts ==
  /\ Len(Servers) \in Nat
  /\ Idx \subseteq Nat
  /\ \A i \in Idx : Servers[i] \in Addrs
  /\ IsFiniteSet(Idx)
<1>1. Len(Servers) \in Nat
  BY ClientAssumption
<1>2. IsFiniteSet(Idx)
  BY <1>1, FS_Interval DEF Idx
<1> QED
  BY <1>1, <1>2 DEF Idx, Addrs

\* The aggregated counts of a slice of results are ints.
LEMMA AggregateType ==
  ASSUME NEW rs \in [Idx -> ServerResult]
  PROVE  maxCount(rs) \in IntRange /\ maxWhitelist(rs) \in IntRange
<1> DEFINE good == {j \in DOMAIN rs : ok(rs[j])}
           C == {0} \cup {rs[i].count : i \in good}
           W == {0} \cup {rs[i].wl : i \in good}
<1>1. 0 \in IntRange
  BY MessageAssumption DEF IntRange
<1>2. C \subseteq IntRange /\ W \subseteq IntRange /\ C # {} /\ W # {}
  BY <1>1 DEF ServerResult
<1> HIDE DEF C, W
<1>3. Max(C) \in IntRange /\ Max(W) \in IntRange
  BY <1>2, MaxOfInts
<1> QED
  BY <1>3 DEF C, W, maxCount, maxWhitelist

\* A server's reply is a datagram that the client can parse.
LEMMA ReplyType ==
  ASSUME NEW q \in ReqMsg, NEW cnt \in Counters, NEW f \in Fault,
         NEW P, P = Reply(q, cnt, f)
  PROVE  /\ DOMAIN P \subseteq Keys
         /\ \A k \in DOMAIN P : P[k] \in Seq(Int \cup {NotNum}) \ {<<>>}
<1> DEFINE good == [k \in IF q.op = "check" THEN Keys ELSE Keys \ {"Count", "WL-Count"} |->
                 CASE k = "Code" -> <<200>>
                   [] k = "Thread" -> <<q.thread>>
                   [] k = "Count" -> <<cnt.r>>
                   [] k = "WL-Count" -> <<cnt.wl>>
                   [] OTHER -> <<NotNum>>]
           V == Seq(Int \cup {NotNum}) \ {<<>>}
<1>1. /\ f.kind \in {"none", "refused", "zeroThread", "missing", "garbled", "repeated"}
      /\ f.kind = "zeroThread" => f.key = "Code"
  BY DEF Fault
<1>2. q.thread \in Int /\ cnt.r \in Int /\ cnt.wl \in Int
  BY ClientAssumption, ThreadIdBound DEF ReqMsg, Counters
<1>3. \A v \in Int \cup {NotNum} : <<v>> \in V
  OBVIOUS
<1>4. DOMAIN good \subseteq Keys /\ \A k \in DOMAIN good : good[k] \in V
  <2>1. ASSUME NEW k \in DOMAIN good
        PROVE  good[k] \in {<<200>>, <<q.thread>>, <<cnt.r>>, <<cnt.wl>>, <<NotNum>>}
    OBVIOUS
  <2>2. DOMAIN good \subseteq Keys
    OBVIOUS
  <2>3. {<<200>>, <<q.thread>>, <<cnt.r>>, <<cnt.wl>>, <<NotNum>>} \subseteq V
    BY <1>2, <1>3
  <2> HIDE DEF good, V
  <2> QED
    BY <2>1, <2>2, <2>3
<1>5. \A s \in V : s \o <<NotNum>> \in V
  OBVIOUS
<1> HIDE DEF good, V
<1>6. CASE f.kind = "none"
  <2>1. P = good
    BY <1>6 DEF Reply, good
  <2> QED
    BY <1>4, <2>1 DEF V
<1>7. CASE f.kind = "refused"
  <2>1. P = [k \in Keys \ {"Count", "WL-Count"} |->
               CASE k = "Code" -> <<400>> [] k = "Thread" -> <<0>> [] OTHER -> <<NotNum>>]
    BY <1>7 DEF Reply
  <2>2. \A k \in DOMAIN P : \E v \in Int \cup {NotNum} : P[k] = <<v>>
    BY <2>1
  <2> QED
    BY <1>3, <2>1, <2>2 DEF V
<1>8. CASE f.kind = "zeroThread"
  <2>1. P = [good EXCEPT !["Thread"] = <<0>>]
    BY <1>8 DEF Reply, good
  <2> QED
    BY <1>3, <1>4, <2>1 DEF V
<1>9. CASE f.kind = "missing"
  <2>1. P = [k \in DOMAIN good \ {f.key} |-> good[k]]
    BY <1>9 DEF Reply, good
  <2> QED
    BY <1>4, <2>1 DEF V
<1>10. CASE f.kind = "garbled"
  <2>1. P = [k \in DOMAIN good |-> IF k = f.key THEN <<NotNum>> ELSE good[k]]
    BY <1>10 DEF Reply, good
  <2> QED
    BY <1>3, <1>4, <2>1 DEF V
<1>11. CASE f.kind = "repeated"
  <2>1. P = [k \in DOMAIN good |-> IF k = f.key THEN good[k] \o <<NotNum>> ELSE good[k]]
    BY <1>11 DEF Reply, good
  <2> QED
    BY <1>4, <1>5, <2>1 DEF V
<1> QED
  BY <1>1, <1>6, <1>7, <1>8, <1>9, <1>10, <1>11

\* A goroutine that moves on keeps its thread id and port.
LEMMA GoroutineMoves ==
  ASSUME NEW g \in Goroutine, NEW v \in {"none", "run", "sent", "stored", "exit"}
  PROVE  /\ [g EXCEPT !.pc = v] \in Goroutine
         /\ [g EXCEPT !.pc = v] = [pc |-> v, thread |-> g.thread, port |-> g.port]
BY DEF Goroutine

\* A server's counters stay counters.
LEMMA EffectType ==
  ASSUME NEW cnt \in Counters, NEW op
  PROVE  Effect(cnt, op) \in Counters
<1>1. cnt = [r |-> cnt.r, wl |-> cnt.wl] /\ cnt.r \in Nat /\ cnt.wl \in Nat
  BY DEF Counters
<1>2. /\ [cnt EXCEPT !.r = @ + 1] = [r |-> cnt.r + 1, wl |-> cnt.wl]
      /\ [cnt EXCEPT !.wl = @ + 1] = [r |-> cnt.r, wl |-> cnt.wl + 1]
  BY <1>1
<1>3. Effect(cnt, op) \in {cnt, [r |-> cnt.r + 1, wl |-> cnt.wl], [r |-> cnt.r, wl |-> cnt.wl + 1]}
  BY <1>2 DEF Effect
<1> QED
  BY <1>1, <1>3 DEF Counters

\* The initial states are of the right types.
LEMMA TypeInit == Init => TypeInv
<1> SUFFICES ASSUME Init PROVE TypeInv
  OBVIOUS
<1>1. TypeOK
  <2>1. 0 \in IntRange /\ 1 \in 1 .. Len(Servers) + 1
    BY MessageAssumption, IdxFacts DEF IntRange
  <2>2. /\ (CHOOSE t \in Threads : TRUE) \in Threads
        /\ (CHOOSE p \in Ports : TRUE) \in Ports
    BY ClientAssumption
  <2>3. zeroResult \in ServerResult
    BY <2>1 DEF zeroResult, ServerResult
  <2>4. gor \in [Calls -> [Idx -> Goroutine]]
    BY <2>2 DEF Init, Goroutine
  <2>5. results \in [Calls -> [Idx -> ServerResult]]
    BY <2>3 DEF Init
  <2>6. db \in [Addrs -> [Digests -> Counters]]
    BY ClientAssumption DEF Init
  <2>7. start \in [Calls -> [db : [Addrs -> [Digests -> Counters]], succeeded : SUBSET Calls]]
    BY <2>6 DEF Init
  <2> QED
    BY <2>1, <2>4, <2>5, <2>6, <2>7 DEF Init, TypeOK, Return
<1>2. DigestOK
  BY DEF Init, DigestOK
<1> QED
  BY <1>1, <1>2 DEF TypeInv

\* Every step keeps the types.
LEMMA TypeStep == TypeInv /\ [Next]_vars => TypeInv'
<1> SUFFICES ASSUME TypeInv, [Next]_vars PROVE TypeInv'
  OBVIOUS
<1> USE DEF TypeInv, TypeOK, DigestOK
<1>1. ASSUME NEW c \in Calls, NEW rq \in Requests, Begin(c, rq)
      PROVE  TypeInv'
  <2>1. rq \in Request
    BY ClientAssumption
  <2>2. /\ rq.op \in {"check", "report", "whitelist", "ping"}
        /\ rq.dgst \in Digests \cup {NoDigest}
        /\ rq.op # "ping" => rq.dgst \in Digests
    BY <2>1 DEF Request
  <2>3. 1 \in 1 .. Len(Servers) + 1
    BY IdxFacts
  <2> QED
    BY <1>1, <2>2, <2>3 DEF Begin, serverVars
<1>2. ASSUME NEW c \in Calls, Spawn(c)
      PROVE  TypeInv'
  <2>1. call[c].next \in Idx /\ call[c].next + 1 \in 1 .. Len(Servers) + 1
    BY <1>2, IdxFacts DEF Spawn, Idx
  <2>2. gor' \in [Calls -> [Idx -> Goroutine]]
    <3>1. gor' = [gor EXCEPT ![c][call[c].next].pc = "run"]
      BY <1>2 DEF Spawn
    <3>2. gor \in [Calls -> [Idx -> Goroutine]] /\ gor[c][call[c].next] \in Goroutine
      BY <2>1
    <3>3. [gor[c][call[c].next] EXCEPT !.pc = "run"] \in Goroutine
      BY <3>2, GoroutineMoves
    <3> QED
      BY ONLY <2>1, <3>1, <3>2, <3>3
  <2>3. call' = [call EXCEPT ![c] = [call[c] EXCEPT !.next = call[c].next + 1]]
    BY <1>2 DEF Spawn
  <2>6. [call[c] EXCEPT !.next = call[c].next + 1] =
           [pc |-> call[c].pc, op |-> call[c].op, dgst |-> call[c].dgst, next |-> call[c].next + 1]
    <3>1. call[c] \in [pc : {"idle", "loop", "done"},
                       op : {"check", "report", "whitelist", "ping"},
                       dgst : Digests \cup {NoDigest},
                       next : 1 .. Len(Servers) + 1]
      OBVIOUS
    <3> QED
      BY ONLY <3>1
  <2>5. call' \in [Calls -> [pc : {"idle", "loop", "done"},
                             op : {"check", "report", "whitelist", "ping"},
                             dgst : Digests \cup {NoDigest},
                             next : 1 .. Len(Servers) + 1]]
    BY <2>1, <2>3, <2>6
  <2>4. \A k \in Calls : call'[k].op # "ping" => call'[k].dgst \in Digests
    BY <1>2 DEF Spawn
  <2> QED
    BY <1>2, <2>2, <2>5, <2>4 DEF Spawn, serverVars
<1>3. ASSUME NEW c \in Calls, Join(c)
      PROVE  TypeInv'
  <2>1. results[c] \in [Idx -> ServerResult]
    OBVIOUS
  <2>2. maxCount(results[c]) \in Int /\ maxWhitelist(results[c]) \in Int
    BY <2>1, AggregateType, MessageAssumption DEF IntRange
  <2>3. AllOK(results[c]) \in BOOLEAN /\ Hit(results[c], RCount, WLCount) \in BOOLEAN
    BY DEF AllOK, Hit
  <2>4. ret' \in [Calls -> Return]
    BY <1>3, <2>2, <2>3 DEF Join, Return
  <2>5. call' \in [Calls -> [pc : {"idle", "loop", "done"},
                             op : {"check", "report", "whitelist", "ping"},
                             dgst : Digests \cup {NoDigest},
                             next : 1 .. Len(Servers) + 1]]
    BY <1>3 DEF Join
  <2>6. \A k \in Calls : call'[k].op # "ping" => call'[k].dgst \in Digests
    BY <1>3 DEF Join
  <2> QED
    BY <1>3, <2>4, <2>5, <2>6 DEF Join, serverVars
<1>4. ASSUME NEW c \in Calls, NEW i \in Idx, Send(c, i)
      PROVE  TypeInv'
  <2>1. PICK t \in Threads, p \in Ports :
          /\ gor' = [gor EXCEPT ![c][i] = [pc |-> "sent", thread |-> t, port |-> p]]
          /\ reqs' = reqs \cup {[id |-> <<c, i>>, srv |-> Servers[i], port |-> p, thread |-> t,
                                 op |-> call[c].op, dgst |-> call[c].dgst]}
    BY <1>4 DEF Send
  <2>2. gor' \in [Calls -> [Idx -> Goroutine]]
    BY <2>1 DEF Goroutine
  <2>3. reqs' \subseteq ReqMsg
    BY <2>1, IdxFacts DEF ReqMsg, Ids
  <2>4. \A q \in reqs' : q.op # "ping" => q.dgst \in Digests
    BY <2>1
  <2> QED
    BY <1>4, <2>2, <2>3, <2>4 DEF Send, serverVars
<1>5. ASSUME NEW c \in Calls, NEW i \in Idx, NEW sr \in ServerResult, Store(c, i, sr)
      PROVE  TypeInv'
  <2>1. gor' \in [Calls -> [Idx -> Goroutine]]
    <3>1. gor' = [gor EXCEPT ![c][i].pc = "stored"]
      BY <1>5 DEF Store
    <3>2. gor \in [Calls -> [Idx -> Goroutine]] /\ gor[c][i] \in Goroutine
      OBVIOUS
    <3>3. [gor[c][i] EXCEPT !.pc = "stored"] \in Goroutine
      BY <3>2, GoroutineMoves
    <3> QED
      BY ONLY <3>1, <3>2, <3>3
  <2>2. results' \in [Calls -> [Idx -> ServerResult]]
    BY <1>5 DEF Store
  <2> QED
    BY <1>5, <2>1, <2>2 DEF Store, serverVars
<1>6. errResult \in ServerResult
  BY MessageAssumption DEF errResult, ServerResult, IntRange
<1>7. ASSUME NEW c \in Calls, NEW i \in Idx, Exit(c, i)
      PROVE  TypeInv'
  <2>1. gor' \in [Calls -> [Idx -> Goroutine]]
    <3>1. gor' = [gor EXCEPT ![c][i].pc = "exit"]
      BY <1>7 DEF Exit
    <3>2. gor \in [Calls -> [Idx -> Goroutine]] /\ gor[c][i] \in Goroutine
      OBVIOUS
    <3>3. [gor[c][i] EXCEPT !.pc = "exit"] \in Goroutine
      BY <3>2, GoroutineMoves
    <3> QED
      BY ONLY <3>1, <3>2, <3>3
  <2> QED
    BY <1>7, <2>1 DEF Exit, serverVars
<1>8. ASSUME NEW q \in reqs, NEW f \in Faults, Serve(q, f)
      PROVE  TypeInv'
  <2> DEFINE carriesOut == f.kind # "refused" /\ q.op # "ping"
             after == IF carriesOut THEN Effect(db[q.srv][q.dgst], q.op) ELSE [r |-> 0, wl |-> 0]
  <2>1. /\ handled' = [handled EXCEPT ![q.id[1]][q.id[2]] = @ + 1]
        /\ db' = IF carriesOut THEN [db EXCEPT ![q.srv][q.dgst] = after] ELSE db
        /\ applied' = IF f.kind = "refused" THEN applied ELSE applied \cup {q.id}
        /\ reps' = reps \cup {[id |-> q.id, srv |-> q.srv, port |-> q.port,
                               packet |-> Reply(q, after, f)]}
        /\ UNCHANGED <<clientVars, reqs, start>>
    BY <1>8 DEF Serve
  <2>2. q \in ReqMsg /\ f \in Fault /\ q.id \in Ids /\ q.srv \in Addrs /\ q.port \in Ports
    BY ClientAssumption DEF ReqMsg
  <2>3. after \in Counters /\ (carriesOut => q.dgst \in Digests)
    <3>1. CASE carriesOut
      <4>1. db[q.srv][q.dgst] \in Counters
        BY <2>2, <3>1
      <4> QED
        BY <3>1, <4>1, EffectType
    <3>2. CASE ~carriesOut
      BY <3>2 DEF Counters
    <3> QED
      BY <3>1, <3>2
  <2> HIDE DEF after
  <2>4. db' \in [Addrs -> [Digests -> Counters]]
    BY <2>1, <2>2, <2>3
  <2>5. handled' \in [Calls -> [Idx -> Nat]]
    BY <2>1, <2>2 DEF Ids
  <2>6. applied' \subseteq Ids
    BY <2>1, <2>2
  <2>7. \A m \in reps' : IsReply(m)
    BY <2>1, <2>2, <2>3, ReplyType DEF IsReply
  <2> QED
    BY <2>1, <2>4, <2>5, <2>6, <2>7 DEF clientVars, IsReply
<1>9. CASE UNCHANGED vars
  BY <1>9 DEF vars, clientVars, serverVars, IsReply
<1>10. ASSUME NEW c \in Calls, NEW i \in Idx, QueryStep(c, i)
       PROVE  TypeInv'
  BY <1>4, <1>5, <1>6, <1>7, <1>10, ResultType DEF QueryStep, SendFails, Receive, ReadFails
<1> QED
  BY <1>1, <1>2, <1>3, <1>8, <1>9, <1>10 DEF Next, CallStep

(***************************************************************************)
(* Every state of every instance is well-typed.                            *)
(***************************************************************************)
THEOREM TypeCorrect == Spec => []TypeOK
<1>1. Spec => []TypeInv
  BY TypeInit, TypeStep, PTL DEF Spec
<1>2. TypeInv => TypeOK
  BY DEF TypeInv
<1> QED
  BY <1>1, <1>2, PTL

----------------------------------------------------------------------------
\* The goroutines of call c that have been started and are not over.
Live(c) == {i \in Idx : gor[c][i].pc \in {"run", "sent", "stored"}}

(***************************************************************************)
(* The bookkeeping of queryAll: the loop has started exactly the           *)
(* goroutines below its index, tokens and WaitGroup count the live ones,   *)
(* and a call that has returned has none.                                  *)
(***************************************************************************)
FanoutInv ==
  /\ \A c \in Calls : sem[c] = Cardinality(Live(c)) /\ wg[c] = Cardinality(Live(c))
  /\ \A c \in Calls : sem[c] <= MaxFanout
  /\ \A c \in Calls, i \in Idx : gor[c][i].pc = "none" <=> i >= call[c].next
  /\ \A c \in Calls : call[c].pc = "idle" => call[c].next = 1
  /\ \A c \in Calls, i \in Idx : call[c].pc = "done" => gor[c][i].pc = "exit"

\* A call has finitely many live goroutines.
LEMMA LiveFinite ==
  \A c \in Calls : IsFiniteSet(Live(c)) /\ Cardinality(Live(c)) \in Nat
BY IdxFacts, FS_Subset, FS_CardinalityType DEF Live

\* The bookkeeping of queryAll is right at first.
LEMMA FanoutInit == Init => FanoutInv
<1> SUFFICES ASSUME Init PROVE FanoutInv
  OBVIOUS
<1>1. \A c \in Calls : Live(c) = {}
  BY DEF Init, Live
<1>2. \A c \in Calls : Cardinality(Live(c)) = 0
  BY <1>1, FS_EmptySet
<1>3. \A c \in Calls, i \in Idx : gor[c][i].pc = "none" /\ i >= call[c].next
  BY IdxFacts DEF Init, Idx
<1> QED
  BY <1>2, <1>3, ClientAssumption DEF Init, FanoutInv

\* A step that leaves the places of all goroutines among the live ones.
LEMMA LiveSame ==
  ASSUME \A c \in Calls, i \in Idx :
           gor'[c][i].pc \in {"run", "sent", "stored"} <=> gor[c][i].pc \in {"run", "sent", "stored"}
  PROVE  \A c \in Calls : Live(c)' = Live(c)
BY DEF Live

\* Every step keeps the bookkeeping of queryAll right.
LEMMA FanoutStep == TypeInv /\ FanoutInv /\ [Next]_vars => FanoutInv'
<1> SUFFICES ASSUME TypeInv, FanoutInv, [Next]_vars PROVE FanoutInv'
  OBVIOUS
<1>0. /\ call \in [Calls -> [pc : {"idle", "loop", "done"},
                             op : {"check", "report", "whitelist", "ping"},
                             dgst : Digests \cup {NoDigest},
                             next : 1 .. Len(Servers) + 1]]
      /\ sem \in [Calls -> Int] /\ wg \in [Calls -> Int]
      /\ gor \in [Calls -> [Idx -> Goroutine]]
      /\ \A c \in Calls : call[c].next \in Int
      /\ \A c \in Calls, i \in Idx : gor[c][i] \in Goroutine
  BY DEF TypeInv, TypeOK
<1>1. ASSUME NEW c \in Calls, NEW rq \in Requests, Begin(c, rq)
      PROVE  FanoutInv'
  <2>1. /\ \A k \in Calls : call'[k].next = call[k].next
        /\ \A k \in Calls : call'[k].pc # call[k].pc => call'[k].pc = "loop"
        /\ UNCHANGED <<sem, wg, gor>>
    BY <1>0, <1>1 DEF Begin, FanoutInv
  <2>2. \A k \in Calls : Live(k)' = Live(k)
    BY <2>1 DEF Live
  <2> QED
    BY <2>1, <2>2 DEF FanoutInv
<1>2. ASSUME NEW c \in Calls, Spawn(c)
      PROVE  FanoutInv'
  <2> DEFINE n == call[c].next
  <2>1. /\ call[c].pc = "loop" /\ n \in Idx /\ sem[c] < MaxFanout
        /\ call' = [call EXCEPT ![c].next = n + 1]
        /\ sem' = [sem EXCEPT ![c] = @ + 1]
        /\ wg' = [wg EXCEPT ![c] = @ + 1]
        /\ gor' = [gor EXCEPT ![c][n].pc = "run"]
    BY <1>2 DEF Spawn
  <2>2. gor[c][n].pc = "none"
    BY <1>0, <2>1 DEF FanoutInv
  <2>3. /\ gor'[c][n].pc = "run"
        /\ \A k \in Calls, i \in Idx : k # c \/ i # n => gor'[k][i] = gor[k][i]
    BY <1>0, <2>1
  <2>4. Live(c)' = Live(c) \cup {n} /\ n \notin Live(c)
    BY <2>1, <2>2, <2>3 DEF Live
  <2>5. \A k \in Calls : k # c => Live(k)' = Live(k)
    BY <2>3 DEF Live
  <2>6. Cardinality(Live(c)') = Cardinality(Live(c)) + 1
    BY <2>4, LiveFinite, FS_AddElement
  <2>7. \A k \in Calls : sem'[k] = Cardinality(Live(k)') /\ wg'[k] = Cardinality(Live(k)')
    BY <1>0, <2>1, <2>5, <2>6 DEF FanoutInv
  <2>8. \A k \in Calls : sem'[k] <= MaxFanout
    BY <1>0, <2>1, ClientAssumption DEF FanoutInv
  <2>9. /\ call'[c].pc = "loop" /\ call'[c].next = n + 1
        /\ \A k \in Calls : k # c => call'[k] = call[k]
    BY <1>0, <2>1
  <2>10. \A k \in Calls, i \in Idx : gor'[k][i].pc = "none" <=> i >= call'[k].next
    <3>1. TAKE k \in Calls, i \in Idx
    <3>2. CASE k # c
      BY <2>3, <2>9, <3>2 DEF FanoutInv
    <3>3. CASE k = c /\ i = n
      BY <1>0, <2>3, <2>9, <3>3
    <3>4. CASE k = c /\ i # n
      BY <1>0, <2>3, <2>9, <3>4, IdxFacts DEF FanoutInv
    <3> QED
      BY <3>2, <3>3, <3>4
  <2>11. \A k \in Calls, i \in Idx : call'[k].pc = "done" => gor'[k][i].pc = "exit"
    BY <2>3, <2>9 DEF FanoutInv
  <2>12. \A k \in Calls : call'[k].pc = "idle" => call'[k].next = 1
    BY <2>9 DEF FanoutInv
  <2> QED
    BY <2>7, <2>8, <2>10, <2>11, <2>12 DEF FanoutInv
<1>3. ASSUME NEW c \in Calls, Join(c)
      PROVE  FanoutInv'
  <2>1. /\ call[c].next \notin Idx /\ wg[c] = 0
        /\ call' = [call EXCEPT ![c].pc = "done"]
        /\ UNCHANGED <<sem, wg, gor>>
    BY <1>3 DEF Join
  <2>2. \A k \in Calls : Live(k)' = Live(k)
    BY <2>1 DEF Live
  <2>3. Live(c) = {}
    BY <2>1, LiveFinite, FS_EmptySet DEF FanoutInv
  <2>4. \A i \in Idx : gor[c][i].pc = "exit"
    <3>1. TAKE i \in Idx
    <3>2. gor[c][i].pc # "none"
      BY <1>0, <2>1, IdxFacts DEF Idx, FanoutInv
    <3>3. gor[c][i].pc \notin {"run", "sent", "stored"}
      BY <2>3 DEF Live
    <3> QED
      BY <1>0, <3>2, <3>3 DEF Goroutine
  <2>5. /\ call'[c].pc = "done" /\ call'[c].next = call[c].next
        /\ \A k \in Calls : k # c => call'[k] = call[k]
    BY <1>0, <2>1
  <2> QED
    BY <2>1, <2>2, <2>4, <2>5 DEF FanoutInv
<1>4. ASSUME NEW c \in Calls, NEW i \in Idx, gor[c][i].pc \in {"run", "sent"},
             gor'[c][i].pc \in {"sent", "stored"},
             \A k \in Calls, j \in Idx : k # c \/ j # i => gor'[k][j] = gor[k][j],
             UNCHANGED <<call, sem, wg>>
      PROVE  FanoutInv'
  <2>1. \A k \in Calls : Live(k)' = Live(k)
    BY <1>4, LiveSame
  <2>2. \A k \in Calls, j \in Idx :
          /\ gor'[k][j].pc = "none" <=> gor[k][j].pc = "none"
          /\ gor[k][j].pc = "exit" => gor'[k][j].pc = "exit"
    BY <1>4
  <2> QED
    BY <1>4, <2>1, <2>2 DEF FanoutInv
<1>5. ASSUME NEW c \in Calls, NEW i \in Idx, Send(c, i)
      PROVE  FanoutInv'
  <2>1. PICK t \in Threads, p \in Ports :
          gor' = [gor EXCEPT ![c][i] = [pc |-> "sent", thread |-> t, port |-> p]]
    BY <1>5 DEF Send
  <2> QED
    BY <1>0, <1>4, <1>5, <2>1 DEF Send
<1>6. ASSUME NEW c \in Calls, NEW i \in Idx, NEW sr, Store(c, i, sr), gor[c][i].pc \in {"run", "sent"}
      PROVE  FanoutInv'
  BY <1>0, <1>4, <1>6 DEF Store
<1>7. ASSUME NEW c \in Calls, NEW i \in Idx, Exit(c, i)
      PROVE  FanoutInv'
  <2>1. /\ gor[c][i].pc = "stored"
        /\ gor' = [gor EXCEPT ![c][i].pc = "exit"]
        /\ sem' = [sem EXCEPT ![c] = @ - 1]
        /\ wg' = [wg EXCEPT ![c] = @ - 1]
        /\ call' = call
    BY <1>7 DEF Exit
  <2>2. /\ gor'[c][i].pc = "exit"
        /\ \A k \in Calls, j \in Idx : k # c \/ j # i => gor'[k][j] = gor[k][j]
    BY <1>0, <2>1
  <2>3. Live(c)' = Live(c) \ {i} /\ i \in Live(c)
    BY <2>1, <2>2 DEF Live
  <2>4. \A k \in Calls : k # c => Live(k)' = Live(k)
    BY <2>2 DEF Live
  <2>5. Cardinality(Live(c)') = Cardinality(Live(c)) - 1
    BY <2>3, LiveFinite, FS_RemoveElement
  <2>6. \A k \in Calls : sem'[k] = Cardinality(Live(k)') /\ wg'[k] = Cardinality(Live(k)')
    BY <1>0, <2>1, <2>4, <2>5 DEF FanoutInv
  <2>7. \A k \in Calls : sem'[k] <= MaxFanout
    BY <1>0, <2>1, ClientAssumption DEF FanoutInv
  <2>8. \A k \in Calls, j \in Idx :
          /\ gor'[k][j].pc = "none" <=> gor[k][j].pc = "none"
          /\ gor[k][j].pc = "exit" => gor'[k][j].pc = "exit"
    BY <2>1, <2>2
  <2> QED
    BY <2>1, <2>6, <2>7, <2>8 DEF FanoutInv
<1>8. ASSUME UNCHANGED clientVars
      PROVE  FanoutInv'
  BY <1>8, LiveSame DEF clientVars, FanoutInv
<1>9. ASSUME NEW c \in Calls, NEW i \in Idx, QueryStep(c, i)
      PROVE  FanoutInv'
  BY <1>5, <1>6, <1>7, <1>9 DEF QueryStep, SendFails, Receive, ReadFails
<1>10. ASSUME NEW q \in reqs, NEW f \in Faults, Serve(q, f)
       PROVE  FanoutInv'
  BY <1>8, <1>10 DEF Serve
<1>11. CASE UNCHANGED vars
  BY <1>8, <1>11 DEF vars, clientVars
<1> QED
  BY <1>1, <1>2, <1>3, <1>9, <1>10, <1>11 DEF Next, CallStep

\* So it is always right.
LEMMA FanoutAlways == Spec => [](TypeInv /\ FanoutInv)
BY TypeInit, TypeStep, FanoutInit, FanoutStep, PTL DEF Spec

(***************************************************************************)
(* The semaphore and the WaitGroup of every call count its live goroutines *)
(* in every state.                                                         *)
(***************************************************************************)
THEOREM SemaphoreCounts == Spec => []SemCountsGoroutines
<1>1. FanoutInv => SemCountsGoroutines
  BY DEF FanoutInv, Live, SemCountsGoroutines
<1> QED
  BY <1>1, FanoutAlways, PTL

(***************************************************************************)
(* No call ever has more than maxFanout requests in flight, however long   *)
(* the list of servers.                                                    *)
(***************************************************************************)
THEOREM FanoutIsBounded == Spec => []FanoutBounded
<1>1. ASSUME TypeInv, FanoutInv, NEW c \in Calls
      PROVE  Cardinality({i \in Idx : gor[c][i].pc = "sent"}) <= MaxFanout
  <2> DEFINE S == {i \in Idx : gor[c][i].pc = "sent"}
  <2>1. S \subseteq Live(c)
    BY DEF Live
  <2>2. Cardinality(S) <= Cardinality(Live(c)) /\ Cardinality(S) \in Nat
    BY <2>1, LiveFinite, FS_Subset, FS_CardinalityType
  <2>3. Cardinality(Live(c)) <= MaxFanout
    BY <1>1 DEF FanoutInv
  <2> QED
    BY <2>2, <2>3, LiveFinite, ClientAssumption
<1>2. TypeInv /\ FanoutInv => FanoutBounded
  BY <1>1 DEF FanoutBounded
<1> QED
  BY <1>2, FanoutAlways, PTL

\* When a call has returned, all its goroutines have exited: none stores.
LEMMA DoneIsFinal ==
  ASSUME TypeInv, FanoutInv, [Next]_vars, NEW c \in Calls, call[c].pc = "done"
  PROVE  results'[c] = results[c]
<1>1. \A i \in Idx : gor[c][i].pc = "exit"
  BY DEF FanoutInv
<1>2. results \in [Calls -> [Idx -> ServerResult]]
  BY DEF TypeInv, TypeOK
<1>3. ASSUME NEW k \in Calls, NEW i \in Idx, NEW sr, Store(k, i, sr), gor[k][i].pc \in {"run", "sent"}
      PROVE  results'[c] = results[c]
  <2>1. k # c
    BY <1>1, <1>3
  <2> QED
    BY <1>2, <1>3, <2>1 DEF Store
<1> QED
  BY <1>3 DEF Next, CallStep, QueryStep, Begin, Spawn, Join, Send, SendFails, Receive,
     ReadFails, Exit, Serve, clientVars, vars

(***************************************************************************)
(* No goroutine writes a slice of results after its call has returned it.  *)
(***************************************************************************)
THEOREM ResultsAreFinal == Spec => NoWriteAfterReturn
<1>1. TypeInv /\ FanoutInv /\ [Next]_vars
        => [\A c \in Calls : call[c].pc = "done" => results'[c] = results[c]]_vars
  BY DoneIsFinal
<1> QED
  BY <1>1, FanoutAlways, PTL DEF Spec, NoWriteAfterReturn

----------------------------------------------------------------------------
(***************************************************************************)
(* Why answers are fresh.  Every request in the network is the request of  *)
(* the call and slot in its id; a query that waits has sent one from its   *)
(* port with its thread id; and a reply that some query could accept       *)
(* carries the thread id of the request it answers, was sent after that    *)
(* request was carried out, and shows counters the server held between the *)
(* start of that call and now.                                             *)
(***************************************************************************)
Ops == {"check", "report", "whitelist", "ping"}

NoReserved == \A f \in Faults : f.kind # "zeroThread"

\* The counts of sr lie between those at the start of c and the present ones.
Within(c, s, d, sr) ==
  /\ start[c].db[s][d].r <= sr.count /\ sr.count <= db[s][d].r
  /\ start[c].db[s][d].wl <= sr.wl /\ sr.wl <= db[s][d].wl

RequestOf(q, c, i) ==
  /\ q.id = <<c, i>> /\ q.srv = Servers[i]
  /\ call[c].pc # "idle" /\ q.op = call[c].op /\ q.dgst = call[c].dgst

\* What a query that runs op with thread id t can make of m, a reply to q.
Answers(m, q) ==
  /\ m.srv = q.srv /\ m.port = q.port
  /\ \A op \in Ops, t \in Threads : LET sr == resultOf(op, m.packet, t) IN
       ok(sr) => /\ t = q.thread
                 /\ q.id \in applied
                 /\ op = "check" => q.op = "check" /\ Within(q.id[1], q.srv, q.dgst, sr)

RequestsInv == \A q \in reqs : \E c \in Calls, i \in Idx : RequestOf(q, c, i)

WaitingInv ==
  \A c \in Calls, i \in Idx : gor[c][i].pc = "sent" =>
    \E q \in reqs : RequestOf(q, c, i) /\ q.port = gor[c][i].port /\ q.thread = gor[c][i].thread

GrowthInv ==
  \A c \in Calls, s \in Addrs, d \in Digests :
    start[c].db[s][d].r <= db[s][d].r /\ start[c].db[s][d].wl <= db[s][d].wl

RepliesInv == NoReserved => \A m \in reps : \E q \in reqs : Answers(m, q)

\* What holds of a result once a goroutine has stored it.
Genuine(c, i) ==
  gor[c][i].pc \in {"stored", "exit"} /\ ok(results[c][i]) =>
    /\ <<c, i>> \in applied
    /\ call[c].op = "check" => Within(c, Servers[i], call[c].dgst, results[c][i])

ResultsInv == ThreadsTellApart => \A c \in Calls, i \in Idx : Genuine(c, i)

ReturnInv == \A c \in Calls : call[c].pc = "done" => ret[c].ok = AllOK(results[c])

FreshInv == RequestsInv /\ WaitingInv /\ GrowthInv /\ RepliesInv /\ ResultsInv /\ ReturnInv

\* Nothing has been sent or stored at first.
LEMMA FreshInit == Init => FreshInv
<1> SUFFICES ASSUME Init PROVE FreshInv
  OBVIOUS
<1>1. GrowthInv
  <2>1. db \in [Addrs -> [Digests -> Counters]]
    BY ClientAssumption DEF Init
  <2> QED
    BY <2>1 DEF Init, GrowthInv, Counters
<1> QED
  BY <1>1 DEF Init, FreshInv, RequestsInv, WaitingInv, RepliesInv, ResultsInv, Genuine, ReturnInv

\* What no step takes back: requests, what servers have done, and the
\* operation, digest and start of a call that has begun.
Grows ==
  /\ reqs \subseteq reqs' /\ applied \subseteq applied'
  /\ \A s \in Addrs, d \in Digests :
       db[s][d].r <= db'[s][d].r /\ db[s][d].wl <= db'[s][d].wl
  /\ \A c \in Calls : call[c].pc # "idle" =>
       /\ call'[c].pc # "idle" /\ call'[c].op = call[c].op /\ call'[c].dgst = call[c].dgst
       /\ start'[c] = start[c]

\* All counters, present and at the start of a call, are numbers.
LEMMA CounterTypes ==
  ASSUME TypeInv
  PROVE  /\ \A s \in Addrs, d \in Digests : db[s][d] \in Counters
         /\ \A c \in Calls, s \in Addrs, d \in Digests : start[c].db[s][d] \in Counters
         /\ \A s \in Addrs, d \in Digests : db[s][d].r \in Int /\ db[s][d].wl \in Int
BY DEF TypeInv, TypeOK, Counters

\* Carrying out a request lowers no counter.
LEMMA EffectGrows ==
  ASSUME NEW cnt \in Counters, NEW op
  PROVE  cnt.r <= Effect(cnt, op).r /\ cnt.wl <= Effect(cnt, op).wl
<1>1. cnt.r \in Nat /\ cnt.wl \in Nat
  BY DEF Counters
<1>2. /\ [cnt EXCEPT !.r = @ + 1] = [r |-> cnt.r + 1, wl |-> cnt.wl]
      /\ [cnt EXCEPT !.wl = @ + 1] = [r |-> cnt.r, wl |-> cnt.wl + 1]
  BY DEF Counters
<1>3. Effect(cnt, op) \in {cnt, [r |-> cnt.r + 1, wl |-> cnt.wl], [r |-> cnt.r, wl |-> cnt.wl + 1]}
  BY <1>2 DEF Effect
<1> QED
  BY <1>1, <1>3

\* A server handles a request and its counters do not fall.
LEMMA ServeGrows ==
  ASSUME TypeInv, NEW q \in reqs, NEW f \in Faults, Serve(q, f)
  PROVE  Grows
<1>1. q \in ReqMsg /\ q.srv \in Addrs
  BY DEF TypeInv, TypeOK, ReqMsg
<1>2. \A s \in Addrs, d \in Digests :
        db[s][d].r <= db'[s][d].r /\ db[s][d].wl <= db'[s][d].wl
  <2>1. CASE db' = db
    BY <2>1, CounterTypes
  <2>2. CASE db' # db
    <3>1. /\ q.op # "ping"
          /\ db' = [db EXCEPT ![q.srv][q.dgst] = Effect(db[q.srv][q.dgst], q.op)]
      BY <2>2 DEF Serve
    <3>2. q.dgst \in Digests
      BY <3>1 DEF TypeInv, DigestOK
    <3>3. db \in [Addrs -> [Digests -> Counters]] /\ db[q.srv][q.dgst] \in Counters
      BY <1>1, <3>2 DEF TypeInv, TypeOK
    <3>4. \A s \in Addrs, d \in Digests :
            db'[s][d] = IF s = q.srv /\ d = q.dgst THEN Effect(db[q.srv][q.dgst], q.op) ELSE db[s][d]
      BY <1>1, <3>1, <3>2, <3>3
    <3> QED
      BY <3>3, <3>4, EffectGrows, CounterTypes
  <2> QED
    BY <2>1, <2>2
<1> QED
  BY <1>2 DEF Serve, Grows, clientVars

\* Every step only grows what Grows lists.
LEMMA StepGrows == TypeInv /\ [Next]_vars => Grows
<1> SUFFICES ASSUME TypeInv, [Next]_vars PROVE Grows
  OBVIOUS
<1>1. ASSUME db' = db, reqs \subseteq reqs', applied' = applied,
             \A c \in Calls : call[c].pc # "idle" =>
               /\ call'[c].pc # "idle" /\ call'[c].op = call[c].op /\ call'[c].dgst = call[c].dgst
               /\ start'[c] = start[c]
      PROVE  Grows
  BY <1>1, CounterTypes DEF Grows
<1>2. call \in [Calls -> [pc : {"idle", "loop", "done"},
                          op : Ops, dgst : Digests \cup {NoDigest}, next : 1 .. Len(Servers) + 1]]
  BY DEF TypeInv, TypeOK, Ops
<1>3. ASSUME NEW c \in Calls, CallStep(c)
      PROVE  Grows
  <2>1. ASSUME NEW rq \in Requests, Begin(c, rq)
        PROVE  Grows
    <3>1. /\ call[c].pc = "idle"
          /\ \A k \in Calls : k # c => call'[k] = call[k] /\ start'[k] = start[k]
          /\ UNCHANGED <<db, reqs, applied>>
      BY <1>2, <2>1 DEF Begin, serverVars, TypeInv, TypeOK
    <3> QED
      BY <1>1, <3>1
  <2>2. ASSUME Spawn(c) \/ Join(c)
        PROVE  Grows
    <3>1. /\ call'[c].op = call[c].op /\ call'[c].dgst = call[c].dgst /\ call'[c].pc # "idle"
          /\ \A k \in Calls : k # c => call'[k] = call[k]
          /\ UNCHANGED <<start, db, reqs, applied>>
      BY <1>2, <2>2 DEF Spawn, Join, serverVars
    <3> QED
      BY <1>1, <3>1
  <2> QED
    BY <1>3, <2>1, <2>2 DEF CallStep
<1>4. ASSUME NEW c \in Calls, NEW i \in Idx, QueryStep(c, i)
      PROVE  Grows
  <2>1. UNCHANGED <<call, start, db, applied>> /\ reqs \subseteq reqs'
    BY <1>4 DEF QueryStep, Send, SendFails, Receive, ReadFails, Exit, Store, serverVars
  <2> QED
    BY <1>1, <2>1
<1>5. CASE UNCHANGED vars
  BY <1>1, <1>5 DEF vars
<1> QED
  BY <1>3, <1>4, <1>5, ServeGrows DEF Next

\* What growth keeps.
LEMMA RequestKept ==
  ASSUME Grows, NEW q, NEW c \in Calls, NEW i, RequestOf(q, c, i)
  PROVE  RequestOf(q, c, i)'
BY DEF Grows, RequestOf

\* Counts that lay between the start of a call and now still do.
LEMMA WithinKept ==
  ASSUME TypeInv, TypeInv', Grows, NEW c \in Calls, call[c].pc # "idle",
         NEW s \in Addrs, NEW d \in Digests, NEW sr \in ServerResult, Within(c, s, d, sr)
  PROVE  Within(c, s, d, sr)'
<1>1. sr.count \in Int /\ sr.wl \in Int
  BY MessageAssumption DEF ServerResult, IntRange
<1>2. /\ db[s][d].r \in Int /\ db[s][d].wl \in Int
      /\ db'[s][d].r \in Int /\ db'[s][d].wl \in Int
  <2>1. db[s][d] \in Counters /\ db'[s][d] \in Counters
    BY DEF TypeInv, TypeOK
  <2> QED
    BY <2>1 DEF Counters
<1> QED
  BY <1>1, <1>2 DEF Within, Grows

\* What a reply shows of a request stays true.
LEMMA AnswerKept ==
  ASSUME TypeInv, TypeInv', Grows, NEW q \in reqs, NEW c \in Calls, NEW i \in Idx,
         RequestOf(q, c, i), NEW m, Answers(m, q)
  PROVE  Answers(m, q)'
<1> SUFFICES ASSUME NEW op \in Ops, NEW t \in Threads, ok(resultOf(op, m.packet, t))
             PROVE  /\ t = q.thread
                    /\ q.id \in applied'
                    /\ op = "check" => q.op = "check"
                         /\ Within(q.id[1], q.srv, q.dgst, resultOf(op, m.packet, t))'
  BY DEF Answers
<1>1. /\ t = q.thread /\ q.id \in applied
      /\ op = "check" => q.op = "check" /\ Within(q.id[1], q.srv, q.dgst, resultOf(op, m.packet, t))
  BY DEF Answers
<1>2. q.id[1] = c /\ q.srv \in Addrs /\ call[c].pc # "idle"
  BY DEF RequestOf, TypeInv, TypeOK, ReqMsg
<1>3. op = "check" => q.dgst \in Digests
  BY <1>1 DEF TypeInv, DigestOK
<1> QED
  BY <1>1, <1>2, <1>3, WithinKept, ResultType DEF Grows

\* A result once stored stays genuine.
LEMMA GenuineKept ==
  ASSUME TypeInv, TypeInv', Grows, NEW c \in Calls, NEW i \in Idx, Genuine(c, i),
         gor[c][i].pc \in {"stored", "exit"}, call[c].pc # "idle", results'[c][i] = results[c][i]
  PROVE  Genuine(c, i)'
<1>1. results[c][i] \in ServerResult /\ Servers[i] \in Addrs
  BY IdxFacts DEF TypeInv, TypeOK
<1>2. call[c].op = "check" => call[c].dgst \in Digests
  BY DEF TypeInv, DigestOK
<1>3. call'[c].op = call[c].op /\ call'[c].dgst = call[c].dgst /\ applied \subseteq applied'
  BY DEF Grows
<1>4. \A d \in Digests, sr \in ServerResult : Within(c, Servers[i], d, sr) => Within(c, Servers[i], d, sr)'
  BY <1>1, WithinKept
<1> SUFFICES ASSUME ok(results[c][i])
             PROVE  /\ <<c, i>> \in applied'
                    /\ call[c].op = "check" =>
                         /\ start'[c].db[Servers[i]][call[c].dgst].r <= results[c][i].count
                         /\ results[c][i].count <= db'[Servers[i]][call[c].dgst].r
                         /\ start'[c].db[Servers[i]][call[c].dgst].wl <= results[c][i].wl
                         /\ results[c][i].wl <= db'[Servers[i]][call[c].dgst].wl
  BY <1>3 DEF Genuine, Within
<1>5. <<c, i>> \in applied
  BY DEF Genuine
<1>6. call[c].op = "check" => Within(c, Servers[i], call[c].dgst, results[c][i])
  BY DEF Genuine
<1> QED
  BY <1>1, <1>2, <1>3, <1>4, <1>5, <1>6 DEF Within

\* A call whose goroutines have started has itself begun.
LEMMA StartedNotIdle ==
  ASSUME FanoutInv, NEW c \in Calls, NEW i \in Idx, gor[c][i].pc # "none"
  PROVE  call[c].pc # "idle"
BY IdxFacts DEF FanoutInv, Idx

\* The counters of a server stay above those at the start of any call.
LEMMA GrowthStep == TypeInv /\ TypeInv' /\ GrowthInv /\ [Next]_vars => GrowthInv'
<1> SUFFICES ASSUME TypeInv, TypeInv', GrowthInv, [Next]_vars PROVE GrowthInv'
  OBVIOUS
<1>1. Grows
  BY StepGrows
<1>2. \A s \in Addrs, d \in Digests :
        /\ db[s][d].r \in Int /\ db[s][d].wl \in Int
        /\ db'[s][d].r \in Int /\ db'[s][d].wl \in Int
  <2>1. \A s \in Addrs, d \in Digests : db[s][d] \in Counters /\ db'[s][d] \in Counters
    BY DEF TypeInv, TypeOK
  <2> QED
    BY <2>1 DEF Counters
<1>3. \A c \in Calls, s \in Addrs, d \in Digests :
        start[c].db[s][d].r \in Int /\ start[c].db[s][d].wl \in Int
  BY CounterTypes DEF Counters
<1>4. \A c \in Calls : start'[c] = start[c] \/ (start'[c].db = db /\ db' = db)
  <2>1. ASSUME NEW k \in Calls, NEW rq \in Requests, Begin(k, rq), NEW c \in Calls
        PROVE  start'[c] = start[c] \/ (start'[c].db = db /\ db' = db)
    <3>1. CASE c = k
      BY <2>1, <3>1 DEF Begin, serverVars, TypeInv, TypeOK
    <3>2. CASE c # k
      BY <2>1, <3>2 DEF Begin, TypeInv, TypeOK
    <3> QED
      BY <3>1, <3>2
  <2>2. UNCHANGED start \/ \E k \in Calls, rq \in Requests : Begin(k, rq)
    BY DEF Next, CallStep, QueryStep, Spawn, Join, Send, SendFails, Receive, ReadFails, Store, Exit,
       Serve, vars
  <2> QED
    BY <2>1, <2>2
<1> QED
  BY <1>1, <1>2, <1>3, <1>4 DEF GrowthInv, Grows

\* Every request, new ones too, belongs to a slot of a call.
LEMMA RequestsStep == TypeInv /\ TypeInv' /\ FanoutInv /\ RequestsInv /\ [Next]_vars => RequestsInv'
<1> SUFFICES ASSUME TypeInv, TypeInv', FanoutInv, RequestsInv, [Next]_vars PROVE RequestsInv'
  OBVIOUS
<1>1. Grows
  BY StepGrows
<1>2. \A q \in reqs : \E c \in Calls, i \in Idx : RequestOf(q, c, i)'
  BY <1>1, RequestKept DEF RequestsInv
<1>3. CASE reqs' = reqs
  BY <1>2, <1>3 DEF RequestsInv
<1>4. ASSUME NEW c \in Calls, NEW i \in Idx, Send(c, i)
      PROVE  RequestsInv'
  <2>1. PICK t \in Threads, p \in Ports \ PortsInUse :
          reqs' = reqs \cup {[id |-> <<c, i>>, srv |-> Servers[i], port |-> p, thread |-> t,
                              op |-> call[c].op, dgst |-> call[c].dgst]}
    BY <1>4 DEF Send
  <2>2. call' = call /\ call[c].pc # "idle"
    <3>1. gor[c][i].pc # "none" /\ call' = call
      BY <1>4 DEF Send
    <3> QED
      BY <3>1, StartedNotIdle
  <2>3. ASSUME NEW q, q = [id |-> <<c, i>>, srv |-> Servers[i], port |-> p, thread |-> t,
                           op |-> call[c].op, dgst |-> call[c].dgst]
        PROVE  RequestOf(q, c, i)'
    BY <2>2, <2>3 DEF RequestOf
  <2> QED
    BY <1>2, <2>1, <2>3 DEF RequestsInv
<1>5. reqs' = reqs \/ \E c \in Calls, i \in Idx : Send(c, i)
  BY DEF Next, CallStep, QueryStep, Begin, Spawn, Join, SendFails, Receive, ReadFails, Store, Exit,
     Serve, vars
<1> QED
  BY <1>3, <1>4, <1>5

\* What one step can do to a goroutine: nothing, start it, send its request,
\* store its result, or let it exit.
LEMMA GoroutineStep ==
  ASSUME TypeInv, FanoutInv, [Next]_vars, NEW c \in Calls, NEW i \in Idx
  PROVE  \/ gor'[c][i] = gor[c][i] /\ results'[c][i] = results[c][i]
         \/ gor'[c][i].pc = "run" /\ gor[c][i].pc = "none"
         \/ Send(c, i)
         \/ SendFails(c, i) \/ Receive(c, i) \/ ReadFails(c, i)
         \/ gor[c][i].pc = "stored" /\ gor'[c][i].pc = "exit" /\ results'[c][i] = results[c][i]
<1>0. /\ gor \in [Calls -> [Idx -> Goroutine]]
      /\ results \in [Calls -> [Idx -> ServerResult]]
  BY DEF TypeInv, TypeOK
<1>1. ASSUME NEW k \in Calls, Spawn(k)
      PROVE  \/ gor'[c][i] = gor[c][i] /\ results'[c][i] = results[c][i]
             \/ gor'[c][i].pc = "run" /\ gor[c][i].pc = "none"
  <2>1. /\ call[k].next \in Idx /\ results' = results
        /\ gor' = [gor EXCEPT ![k][call[k].next].pc = "run"]
    BY <1>1 DEF Spawn
  <2>2. gor[k][call[k].next].pc = "none"
    BY <2>1, IdxFacts DEF FanoutInv
  <2>3. CASE c = k /\ i = call[k].next
    BY <1>0, <2>1, <2>2, <2>3
  <2>4. CASE ~(c = k /\ i = call[k].next)
    BY <1>0, <2>1, <2>4
  <2> QED
    BY <2>3, <2>4
<1>2. ASSUME NEW k \in Calls, NEW j \in Idx, QueryStep(k, j), ~(k = c /\ j = i)
      PROVE  gor'[c][i] = gor[c][i] /\ results'[c][i] = results[c][i]
  <2>1. CASE Send(k, j)
    BY <1>0, <1>2, <2>1 DEF Send
  <2>2. CASE Exit(k, j)
    BY <1>0, <1>2, <2>2 DEF Exit
  <2>3. ASSUME NEW sr, Store(k, j, sr)
        PROVE  gor'[c][i] = gor[c][i] /\ results'[c][i] = results[c][i]
    BY <1>0, <1>2, <2>3 DEF Store
  <2> QED
    BY <1>2, <2>1, <2>2, <2>3 DEF QueryStep, SendFails, Receive, ReadFails
<1>3. CASE Exit(c, i)
  BY <1>0, <1>3 DEF Exit
<1>4. CASE QueryStep(c, i)
  BY <1>3, <1>4 DEF QueryStep
<1> QED
  BY <1>1, <1>2, <1>4 DEF Next, CallStep, Begin, Join, Serve, clientVars, vars

\* A query that waits has sent its request, with its port and thread id.
LEMMA WaitingStep == TypeInv /\ FanoutInv /\ WaitingInv /\ [Next]_vars => WaitingInv'
<1> SUFFICES ASSUME TypeInv, FanoutInv, WaitingInv, [Next]_vars,
                    NEW c \in Calls, NEW i \in Idx, gor'[c][i].pc = "sent"
             PROVE  \E q \in reqs' : /\ RequestOf(q, c, i)'
                                     /\ q.port = gor'[c][i].port /\ q.thread = gor'[c][i].thread
  BY DEF WaitingInv
<1>1. CASE gor'[c][i] = gor[c][i]
  <2>1. PICK q \in reqs : RequestOf(q, c, i) /\ q.port = gor[c][i].port /\ q.thread = gor[c][i].thread
    BY <1>1 DEF WaitingInv
  <2>2. RequestOf(q, c, i)' /\ q \in reqs'
    BY <2>1, StepGrows, RequestKept DEF Grows
  <2> QED
    BY <1>1, <2>1, <2>2
<1>2. CASE Send(c, i)
  <2>1. PICK t \in Threads, p \in Ports \ PortsInUse :
          /\ gor' = [gor EXCEPT ![c][i] = [pc |-> "sent", thread |-> t, port |-> p]]
          /\ reqs' = reqs \cup {[id |-> <<c, i>>, srv |-> Servers[i], port |-> p, thread |-> t,
                                 op |-> call[c].op, dgst |-> call[c].dgst]}
    BY <1>2 DEF Send
  <2>2. gor[c][i].pc # "none" /\ call' = call
    BY <1>2 DEF Send
  <2>3. call[c].pc # "idle"
    BY <2>2, StartedNotIdle
  <2>4. gor'[c][i] = [pc |-> "sent", thread |-> t, port |-> p]
    BY <2>1 DEF TypeInv, TypeOK
  <2>5. PICK q : q = [id |-> <<c, i>>, srv |-> Servers[i], port |-> p, thread |-> t,
                      op |-> call[c].op, dgst |-> call[c].dgst]
    OBVIOUS
  <2>6. RequestOf(q, c, i)'
    BY <2>2, <2>3, <2>5 DEF RequestOf
  <2> QED
    BY <2>1, <2>4, <2>5, <2>6
<1>3. ASSUME NEW sr, Store(c, i, sr)
      PROVE  FALSE
  <2>1. gor' = [gor EXCEPT ![c][i].pc = "stored"] /\ gor[c][i] \in Goroutine
    BY <1>3 DEF Store, TypeInv, TypeOK
  <2>2. gor'[c][i].pc = "stored"
    BY <2>1 DEF TypeInv, TypeOK, Goroutine
  <2> QED
    BY <2>2
<1> QED
  BY <1>1, <1>2, <1>3, GoroutineStep DEF SendFails, Receive, ReadFails

\* Every reply, new ones too, answers a request.
LEMMA RepliesStep ==
  ASSUME TypeInv, TypeInv', RequestsInv, GrowthInv, RepliesInv, [Next]_vars
  PROVE  RepliesInv'
<1> SUFFICES ASSUME NoReserved, NEW m \in reps' PROVE \E q \in reqs' : Answers(m, q)'
  BY DEF RepliesInv, NoReserved
<1>0. Grows
  BY StepGrows
<1>1. CASE m \in reps
  <2>1. PICK q \in reqs : Answers(m, q)
    BY <1>1 DEF RepliesInv
  <2>2. PICK c \in Calls, i \in Idx : RequestOf(q, c, i)
    BY DEF RequestsInv
  <2>3. Answers(m, q)'
    BY <1>0, <2>1, <2>2, AnswerKept
  <2> QED
    BY <1>0, <2>3 DEF Grows
<1>2. ASSUME NEW q \in reqs, NEW f \in Faults, Serve(q, f), m \notin reps
      PROVE  Answers(m, q)' /\ q \in reqs'
  <2> DEFINE carriesOut == f.kind # "refused" /\ q.op # "ping"
             after == IF carriesOut THEN Effect(db[q.srv][q.dgst], q.op) ELSE [r |-> 0, wl |-> 0]
  <2>1. /\ m = [id |-> q.id, srv |-> q.srv, port |-> q.port, packet |-> Reply(q, after, f)]
        /\ db' = IF carriesOut THEN [db EXCEPT ![q.srv][q.dgst] = after] ELSE db
        /\ f.kind # "refused" => q.id \in applied'
        /\ reqs' = reqs /\ start' = start
    BY <1>2 DEF Serve
  <2>2. q \in ReqMsg /\ q.srv \in Addrs /\ f \in Fault /\ f.kind # "zeroThread"
    BY ClientAssumption DEF TypeInv, TypeOK, ReqMsg, NoReserved
  <2>3. q.op # "ping" => q.dgst \in Digests
    BY DEF TypeInv, DigestOK
  <2>4. PICK cnt : cnt = after
    OBVIOUS
  <2>5. cnt \in Counters
    <3>1. CASE carriesOut
      <4>1. db[q.srv][q.dgst] \in Counters
        BY <2>2, <2>3, <3>1 DEF TypeInv, TypeOK
      <4> QED
        BY <2>4, <3>1, <4>1, EffectType
    <3>2. CASE ~carriesOut
      BY <2>4, <3>2 DEF Counters
    <3> QED
      BY <3>1, <3>2
  <2>6. ASSUME NEW op \in Ops, NEW t \in Threads, NEW sr, sr = resultOf(op, m.packet, t), ok(sr)
        PROVE  /\ t = q.thread /\ q.id \in applied'
               /\ op = "check" => q.op = "check" /\ Within(q.id[1], q.srv, q.dgst, sr)'
    <3>1. sr = resultOf(op, Reply(q, cnt, f), t)
      BY <2>1, <2>4, <2>6
    <3>2. /\ f.kind # "refused" /\ t = q.thread
          /\ op = "check" => q.op = "check" /\ sr.count = cnt.r /\ sr.wl = cnt.wl
      BY <2>2, <2>5, <2>6, <3>1, ReplyAccepted
    <3>3. ASSUME op = "check"
          PROVE  Within(q.id[1], q.srv, q.dgst, sr)'
      <4>1. q.op = "check" /\ q.dgst \in Digests
        BY <2>3, <3>2, <3>3
      <4>2. cnt = db[q.srv][q.dgst] /\ db' = [db EXCEPT ![q.srv][q.dgst] = cnt]
        BY <2>1, <2>4, <3>2, <4>1 DEF Effect
      <4>3. db'[q.srv][q.dgst] = cnt
        BY <2>2, <4>1, <4>2 DEF TypeInv, TypeOK
      <4>4. q.id[1] \in Calls
        BY <2>2 DEF ReqMsg, Ids
      <4>5. /\ start[q.id[1]].db[q.srv][q.dgst].r <= cnt.r
            /\ start[q.id[1]].db[q.srv][q.dgst].wl <= cnt.wl
        BY <2>2, <4>1, <4>2, <4>4 DEF GrowthInv
      <4>6. cnt.r <= cnt.r /\ cnt.wl <= cnt.wl
        BY <2>5 DEF Counters
      <4> QED
        BY <2>1, <3>2, <3>3, <4>3, <4>5, <4>6 DEF Within
    <3> QED
      BY <2>1, <3>2, <3>3
  <2> HIDE DEF after
  <2>7. m.srv = q.srv /\ m.port = q.port
    BY <2>1
  <2> QED
    BY <2>1, <2>6, <2>7 DEF Answers
<1>3. reps' = reps \/ \E q \in reqs, f \in Faults : Serve(q, f)
  BY DEF Next, CallStep, QueryStep, Begin, Spawn, Join, Send, SendFails, Receive, ReadFails, Store,
     Exit, vars
<1> QED
  BY <1>1, <1>2, <1>3

\* What holds of a result that a query takes from a datagram it reads.
LEMMA ReceivedIsGenuine ==
  ASSUME TypeInv, FanoutInv, RequestsInv, WaitingInv, RepliesInv, ThreadsTellApart,
         NEW c \in Calls, NEW i \in Idx, Receive(c, i)
  PROVE  Genuine(c, i)'
<1>1. PICK m \in reps :
        /\ m.srv = Servers[i] /\ m.port = gor[c][i].port
        /\ Store(c, i, resultOf(call[c].op, m.packet, gor[c][i].thread))
  BY DEF Receive
<1>2. PICK sr : sr = resultOf(call[c].op, m.packet, gor[c][i].thread)
  OBVIOUS
<1>3. /\ results'[c][i] = sr
      /\ UNCHANGED <<call, db, applied, start>>
  BY <1>1, <1>2 DEF Store, serverVars, TypeInv, TypeOK
<1>4. PICK q1 \in reqs : RequestOf(q1, c, i) /\ q1.port = gor[c][i].port /\ q1.thread = gor[c][i].thread
  BY DEF WaitingInv, Receive
<1>5. PICK q \in reqs : Answers(m, q)
  BY DEF RepliesInv, ThreadsTellApart, NoReserved
<1>6. ASSUME ok(sr)
      PROVE  /\ <<c, i>> \in applied
             /\ call[c].op = "check" => Within(c, Servers[i], call[c].dgst, sr)
  <2>1. call[c].op \in Ops /\ gor[c][i].thread \in Threads
    BY DEF TypeInv, TypeOK, Ops, Goroutine
  <2>2. /\ gor[c][i].thread = q.thread /\ q.id \in applied /\ m.srv = q.srv /\ m.port = q.port
        /\ call[c].op = "check" => Within(q.id[1], q.srv, q.dgst, sr)
    BY <1>2, <1>5, <1>6, <2>1 DEF Answers
  <2>3. q.id = <<c, i>>
    <3>1. q1.srv = q.srv /\ q1.port = q.port /\ q1.thread = q.thread
      BY <1>1, <1>4, <2>2 DEF RequestOf
    <3>2. q1.id = q.id
      BY <3>1 DEF ThreadsTellApart
    <3> QED
      BY <1>4, <3>2 DEF RequestOf
  <2>4. q.dgst = call[c].dgst /\ q.srv = Servers[i]
    <3>1. PICK k \in Calls, j \in Idx : RequestOf(q, k, j)
      BY DEF RequestsInv
    <3>2. k = c /\ j = i
      BY <2>3, <3>1 DEF RequestOf
    <3> QED
      BY <3>1, <3>2 DEF RequestOf
  <2> QED
    BY <2>2, <2>3, <2>4
<1> QED
  BY <1>3, <1>6 DEF Genuine, Within

\* Every result, new ones too, is genuine.
LEMMA ResultsStep ==
  ASSUME TypeInv, TypeInv', FanoutInv, FreshInv, [Next]_vars
  PROVE  ResultsInv'
<1> SUFFICES ASSUME ThreadsTellApart', NEW c \in Calls, NEW i \in Idx PROVE Genuine(c, i)'
  BY DEF ResultsInv
<1> USE DEF FreshInv
<1>1. Grows
  BY StepGrows
<1>2. ThreadsTellApart
  BY <1>1 DEF Grows, ThreadsTellApart
<1>3. Genuine(c, i)
  BY <1>2 DEF ResultsInv
<1>4. ASSUME gor[c][i].pc \in {"stored", "exit"}, results'[c][i] = results[c][i]
      PROVE  Genuine(c, i)'
  <2>1. call[c].pc # "idle"
    BY <1>4, StartedNotIdle
  <2> QED
    BY <1>1, <1>3, <1>4, <2>1, GenuineKept
<1>5. CASE gor'[c][i] = gor[c][i] /\ results'[c][i] = results[c][i]
  <2>1. CASE gor[c][i].pc \in {"stored", "exit"}
    BY <1>4, <1>5, <2>1
  <2>2. CASE gor[c][i].pc \notin {"stored", "exit"}
    BY <1>5, <2>2 DEF Genuine
  <2> QED
    BY <2>1, <2>2
<1>6. CASE gor'[c][i].pc = "run"
  BY <1>6 DEF Genuine
<1>7. CASE Send(c, i)
  <2>1. gor'[c][i].pc = "sent"
    BY <1>7 DEF Send, TypeInv, TypeOK
  <2> QED
    BY <2>1 DEF Genuine
<1>8. ASSUME Store(c, i, errResult)
      PROVE  Genuine(c, i)'
  <2>1. results'[c][i] = errResult
    BY <1>8 DEF Store, TypeInv, TypeOK
  <2>2. ~ok(errResult)
    BY DEF ok, errResult
  <2> QED
    BY <2>1, <2>2 DEF Genuine, ok
<1>9. CASE Receive(c, i)
  BY <1>2, <1>9, ReceivedIsGenuine
<1>10. CASE gor[c][i].pc = "stored" /\ results'[c][i] = results[c][i]
  BY <1>4, <1>10
<1> QED
  BY <1>5, <1>6, <1>7, <1>8, <1>9, <1>10, GoroutineStep DEF SendFails, ReadFails

\* A call that has returned did so in this step, or is over.
LEMMA Returned ==
  ASSUME TypeInv, FanoutInv, [Next]_vars, NEW c \in Calls, call'[c].pc = "done"
  PROVE  Join(c) \/ (call[c].pc = "done" /\ ret'[c] = ret[c] /\ results'[c] = results[c])
<1>1. ret \in [Calls -> Return]
  BY DEF TypeInv, TypeOK
<1>2. Join(c) \/ (call[c].pc = "done" /\ ret'[c] = ret[c])
  <2>1. ASSUME NEW k \in Calls, CallStep(k), ~Join(c)
        PROVE  call[c].pc = "done" /\ ret'[c] = ret[c]
    <3>1. CASE Spawn(k)
      <4>1. call' = [call EXCEPT ![k].next = @ + 1] /\ ret' = ret
        BY <3>1 DEF Spawn
      <4> QED
        BY <4>1 DEF TypeInv, TypeOK
    <3>2. CASE Join(k)
      BY <1>1, <2>1, <3>2 DEF Join, TypeInv, TypeOK
    <3>3. ASSUME NEW rq \in Requests, Begin(k, rq)
          PROVE  call[c].pc = "done" /\ ret'[c] = ret[c]
      BY <3>3 DEF Begin, TypeInv, TypeOK
    <3> QED
      BY <2>1, <3>1, <3>2, <3>3 DEF CallStep
  <2>2. ASSUME UNCHANGED <<call, ret>>
        PROVE  call[c].pc = "done" /\ ret'[c] = ret[c]
    BY <2>2
  <2> QED
    BY <2>1, <2>2 DEF Next, QueryStep, Send, SendFails, Receive, ReadFails, Store, Exit, Serve,
       clientVars, vars
<1> QED
  BY <1>2, DoneIsFinal

\* A call that has returned gave the answer its results give.
LEMMA ReturnStep ==
  ASSUME TypeInv, FanoutInv, ReturnInv, [Next]_vars
  PROVE  ReturnInv'
<1> SUFFICES ASSUME NEW c \in Calls, call'[c].pc = "done"
             PROVE  ret'[c].ok = AllOK(results'[c])
  BY DEF ReturnInv, AllOK, ok
<1>1. CASE Join(c)
  <2>1. results' = results /\ ret'[c].ok = AllOK(results[c])
    BY <1>1 DEF Join, TypeInv, TypeOK
  <2> QED
    BY <2>1
<1>2. CASE call[c].pc = "done" /\ ret'[c] = ret[c] /\ results'[c] = results[c]
  BY <1>2 DEF ReturnInv
<1> QED
  BY <1>1, <1>2, Returned

\* Every step keeps answers fresh.
LEMMA FreshStep == TypeInv /\ TypeInv' /\ FanoutInv /\ FreshInv /\ [Next]_vars => FreshInv'
BY GrowthStep, RequestsStep, WaitingStep, RepliesStep, ResultsStep, ReturnStep DEF FreshInv

\* So they are always fresh.
LEMMA FreshAlways == Spec => [](TypeInv /\ FanoutInv /\ FreshInv)
<1>1. Init => TypeInv /\ FanoutInv /\ FreshInv
  BY TypeInit, FanoutInit, FreshInit
<1>2. TypeInv /\ FanoutInv /\ FreshInv /\ [Next]_vars => (TypeInv /\ FanoutInv /\ FreshInv)'
  BY TypeStep, FanoutStep, FreshStep
<1> QED
  BY <1>1, <1>2, PTL DEF Spec

(***************************************************************************)
(* Fresh answers: unless thread ids collided, the counts that a check took *)
(* from a server were that server's at some moment during the call.        *)
(***************************************************************************)
THEOREM AnswersAreFresh == Spec => []FreshCounts
<1>1. TypeInv /\ FanoutInv /\ FreshInv => FreshCounts
  BY DEF FreshInv, ResultsInv, Genuine, Within, FreshCounts
<1> QED
  BY <1>1, FreshAlways, PTL

\* What the invariant says of a call that returned true.
LEMMA TrueNow == TypeInv /\ FanoutInv /\ FreshInv => TrueMeansApplied
<1>1. ASSUME TypeInv, FanoutInv, FreshInv, ThreadsTellApart,
             NEW c \in Calls, call[c].pc = "done", ret[c].ok, NEW i \in Idx
      PROVE  <<c, i>> \in applied
  <2>1. DOMAIN results[c] = Idx
    <3>1. results \in [Calls -> [Idx -> ServerResult]]
      BY <1>1 DEF TypeInv, TypeOK
    <3> QED
      BY <3>1
  <2>2. ok(results[c][i])
    BY <1>1, <2>1 DEF FreshInv, ReturnInv, AllOK
  <2>3. gor[c][i].pc = "exit"
    BY <1>1 DEF FanoutInv
  <2> QED
    BY <1>1, <2>2, <2>3 DEF FreshInv, ResultsInv, Genuine
<1> QED
  BY <1>1 DEF TrueMeansApplied

(***************************************************************************)
(* A true answer is the truth: unless thread ids collided, what returned   *)
(* true has been carried out by every server on the list.                  *)
(***************************************************************************)
THEOREM TrueIsTrue == Spec => []TrueMeansApplied
BY TrueNow, FreshAlways, PTL

----------------------------------------------------------------------------
(***************************************************************************)
(* Why revocations and reports that succeeded are seen.  What a server has *)
(* carried out shows in its counters; the calls that had succeeded when a  *)
(* call began had been carried out everywhere, so the counters at its      *)
(* start show them, and fresh answers cannot fall behind those.            *)
(***************************************************************************)
Shows(cnt, op) == (op = "report" => cnt.r >= 1) /\ (op = "whitelist" => cnt.wl >= 1)

AppliedInv ==
  \A c \in Calls, i \in Idx : <<c, i>> \in applied =>
    call[c].pc # "idle" /\ (call[c].dgst \in Digests => Shows(db[Servers[i]][call[c].dgst], call[c].op))

SucceededInv ==
  ThreadsTellApart => \A c \in Calls : \A k \in start[c].succeeded :
    /\ call[k].pc = "done"
    /\ call[k].dgst \in Digests => \A i \in Idx : Shows(start[c].db[Servers[i]][call[k].dgst], call[k].op)

VerdictInv ==
  \A c \in Calls :
    ret[c].hit <=> call[c].pc = "done" /\ call[c].op = "check" /\ Hit(results[c], RCount, WLCount)

SeenInv == AppliedInv /\ SucceededInv /\ VerdictInv

\* Nothing has been carried out, and no call has succeeded, at first.
LEMMA SeenInit == Init => SeenInv
BY DEF Init, SeenInv, AppliedInv, SucceededInv, VerdictInv

\* Counters that show an operation still show it when they have grown.
LEMMA ShowsKept ==
  ASSUME NEW a \in Counters, NEW b \in Counters, a.r <= b.r, a.wl <= b.wl, NEW op, Shows(a, op)
  PROVE  Shows(b, op)
BY DEF Shows, Counters

\* A request that has just been carried out shows in its server's counters.
LEMMA EffectShows ==
  ASSUME NEW cnt \in Counters, NEW op
  PROVE  Shows(Effect(cnt, op), op)
<1>1. cnt.r \in Nat /\ cnt.wl \in Nat
  BY DEF Counters
<1>2. CASE op = "report"
  <2>1. Effect(cnt, op).r = cnt.r + 1
    BY <1>2 DEF Effect, Counters
  <2> QED
    BY <1>1, <1>2, <2>1 DEF Shows
<1>3. CASE op = "whitelist"
  <2>1. Effect(cnt, op).wl = cnt.wl + 1
    BY <1>3 DEF Effect, Counters
  <2> QED
    BY <1>1, <1>3, <2>1 DEF Shows
<1> QED
  BY <1>2, <1>3 DEF Shows

\* Every step keeps what was carried out visible in the counters.
LEMMA AppliedStep ==
  ASSUME TypeInv, TypeInv', RequestsInv, AppliedInv, [Next]_vars
  PROVE  AppliedInv'
<1>0. Grows
  BY StepGrows
<1>1. ASSUME NEW c \in Calls, NEW i \in Idx, <<c, i>> \in applied
      PROVE  /\ call'[c].pc # "idle"
             /\ call'[c].dgst \in Digests => Shows(db'[Servers[i]][call'[c].dgst], call'[c].op)
  <2>1. /\ call[c].pc # "idle" /\ call'[c].pc # "idle"
        /\ call'[c].dgst = call[c].dgst /\ call'[c].op = call[c].op
    BY <1>0, <1>1 DEF AppliedInv, Grows
  <2>2. ASSUME NEW d \in Digests, d = call[c].dgst
        PROVE  Shows(db'[Servers[i]][d], call[c].op)
    <3>1. Shows(db[Servers[i]][d], call[c].op)
      BY <1>1, <2>2 DEF AppliedInv
    <3>2. Servers[i] \in Addrs
      BY IdxFacts
    <3>3. db[Servers[i]][d] \in Counters /\ db'[Servers[i]][d] \in Counters
      BY <3>2 DEF TypeInv, TypeOK
    <3> QED
      BY <1>0, <3>1, <3>2, <3>3, ShowsKept DEF Grows
  <2> QED
    BY <2>1, <2>2
<1>2. ASSUME NEW q \in reqs, NEW f \in Faults, Serve(q, f), NEW c \in Calls, NEW i \in Idx,
             q.id = <<c, i>>, f.kind # "refused"
      PROVE  /\ call'[c].pc # "idle"
             /\ call'[c].dgst \in Digests => Shows(db'[Servers[i]][call'[c].dgst], call'[c].op)
  <2>1. RequestOf(q, c, i)
    <3>1. PICK k \in Calls, j \in Idx : RequestOf(q, k, j)
      BY DEF RequestsInv
    <3>2. k = c /\ j = i
      BY <1>2, <3>1 DEF RequestOf
    <3> QED
      BY <3>1, <3>2
  <2>2. call' = call /\ call[c].pc # "idle" /\ q.op = call[c].op /\ q.dgst = call[c].dgst /\ q.srv = Servers[i]
    BY <1>2, <2>1 DEF Serve, clientVars, RequestOf
  <2>3. ASSUME q.dgst \in Digests
        PROVE  Shows(db'[q.srv][q.dgst], q.op)
    <3>1. CASE q.op = "ping"
      BY <3>1 DEF Shows
    <3>2. CASE q.op # "ping"
      <4>1. db' = [db EXCEPT ![q.srv][q.dgst] = Effect(db[q.srv][q.dgst], q.op)]
        BY <1>2, <3>2 DEF Serve
      <4>2. q.srv \in Addrs
        BY <2>2, IdxFacts
      <4>3. db \in [Addrs -> [Digests -> Counters]] /\ db[q.srv][q.dgst] \in Counters
        BY <2>3, <4>2 DEF TypeInv, TypeOK
      <4>4. db'[q.srv][q.dgst] = Effect(db[q.srv][q.dgst], q.op)
        BY <2>3, <4>1, <4>2, <4>3
      <4> QED
        BY <4>3, <4>4, EffectShows
    <3> QED
      BY <3>1, <3>2
  <2> QED
    BY <2>2, <2>3
<1>3. applied' = applied \/ \E q \in reqs, f \in Faults :
                              /\ Serve(q, f)
                              /\ applied' = applied \cup {q.id} /\ f.kind # "refused"
  <2>1. ASSUME NEW q \in reqs, NEW f \in Faults, Serve(q, f)
        PROVE  applied' = applied \/ (applied' = applied \cup {q.id} /\ f.kind # "refused")
    BY <2>1 DEF Serve
  <2>2. applied' = applied \/ \E q \in reqs, f \in Faults : Serve(q, f)
    BY DEF Next, CallStep, QueryStep, Begin, Spawn, Join, Send, SendFails, Receive, ReadFails, Store,
       Exit, serverVars, vars
  <2> QED
    BY <2>1, <2>2
<1> QED
  BY <1>1, <1>2, <1>3 DEF AppliedInv

\* Every step keeps what calls found done when they began.
LEMMA SucceededStep ==
  ASSUME TypeInv, FanoutInv, FreshInv, AppliedInv, SucceededInv, [Next]_vars
  PROVE  SucceededInv'
<1> SUFFICES ASSUME ThreadsTellApart', NEW c \in Calls, NEW k \in start'[c].succeeded
             PROVE  /\ call'[k].pc = "done"
                    /\ call'[k].dgst \in Digests =>
                         \A i \in Idx : Shows(start'[c].db[Servers[i]][call'[k].dgst], call'[k].op)
  BY DEF SucceededInv
<1>1. ThreadsTellApart
  BY StepGrows DEF Grows, ThreadsTellApart
<1>2. call \in [Calls -> [pc : {"idle", "loop", "done"},
                          op : Ops, dgst : Digests \cup {NoDigest}, next : 1 .. Len(Servers) + 1]]
  BY DEF TypeInv, TypeOK, Ops
<1>3. ASSUME NEW j \in Calls, call[j].pc = "done"
      PROVE  call'[j] = call[j]
  <2>1. ASSUME NEW h \in Calls, CallStep(h)
        PROVE  call'[j] = call[j]
    <3>1. call[h].pc # "done" /\ \A x \in Calls : x # h => call'[x] = call[x]
      BY <1>2, <2>1 DEF CallStep, Begin, Spawn, Join
    <3> QED
      BY <1>3, <3>1
  <2> QED
    BY <2>1 DEF Next, QueryStep, Send, SendFails, Receive, ReadFails, Store, Exit, Serve, clientVars, vars
<1>4. CASE start'[c] = start[c]
  <2>1. k \in Calls
    BY <1>4 DEF TypeInv, TypeOK
  <2>2. /\ call[k].pc = "done"
        /\ call[k].dgst \in Digests => \A i \in Idx : Shows(start[c].db[Servers[i]][call[k].dgst], call[k].op)
    BY <1>1, <1>4 DEF SucceededInv
  <2>3. call'[k] = call[k]
    BY <1>3, <2>1, <2>2
  <2> QED
    BY <1>4, <2>2, <2>3
<1>5. ASSUME NEW rq \in Requests, Begin(c, rq)
      PROVE  /\ call'[k].pc = "done"
             /\ call'[k].dgst \in Digests =>
                  \A i \in Idx : Shows(start'[c].db[Servers[i]][call'[k].dgst], call'[k].op)
  <2>1. start'[c] = [db |-> db, succeeded |-> {j \in Calls : call[j].pc = "done" /\ ret[j].ok}]
    BY <1>5 DEF Begin, TypeInv, TypeOK
  <2>2. k \in Calls /\ call[k].pc = "done" /\ ret[k].ok
    BY <2>1
  <2>3. call'[k] = call[k]
    BY <1>3, <2>2
  <2>4. \A i \in Idx : <<k, i>> \in applied
    BY <1>1, <2>2, TrueNow DEF TrueMeansApplied
  <2>5. call[k].dgst \in Digests => \A i \in Idx : Shows(db[Servers[i]][call[k].dgst], call[k].op)
    BY <2>2, <2>4 DEF AppliedInv
  <2> QED
    BY <2>1, <2>2, <2>3, <2>5
<1>6. start'[c] = start[c] \/ \E rq \in Requests : Begin(c, rq)
  <2>1. ASSUME NEW h \in Calls, NEW rq \in Requests, Begin(h, rq), h # c
        PROVE  start'[c] = start[c]
    BY <2>1 DEF Begin, TypeInv, TypeOK
  <2>2. UNCHANGED start \/ \E h \in Calls, rq \in Requests : Begin(h, rq)
    BY DEF Next, CallStep, QueryStep, Spawn, Join, Send, SendFails, Receive, ReadFails, Store, Exit,
       Serve, vars
  <2> QED
    BY <2>1, <2>2
<1> QED
  BY <1>4, <1>5, <1>6

\* The verdict of a call is the one its results give, and it stays.
LEMMA VerdictStep ==
  ASSUME TypeInv, FanoutInv, VerdictInv, [Next]_vars
  PROVE  VerdictInv'
<1> SUFFICES ASSUME NEW c \in Calls
             PROVE  ret'[c].hit <=> /\ call'[c].pc = "done" /\ call'[c].op = "check"
                                    /\ Hit(results'[c], RCount, WLCount)
  BY DEF VerdictInv, Hit, ok
<1>0. /\ ret \in [Calls -> Return]
      /\ call \in [Calls -> [pc : {"idle", "loop", "done"},
                             op : Ops, dgst : Digests \cup {NoDigest}, next : 1 .. Len(Servers) + 1]]
  BY DEF TypeInv, TypeOK, Ops
<1>1. CASE Join(c)
  <2>1. /\ results' = results /\ call'[c].pc = "done" /\ call'[c].op = call[c].op
        /\ ret'[c] = [ok    |-> AllOK(results[c]),
                      hit   |-> call[c].op = "check" /\ Hit(results[c], RCount, WLCount),
                      count |-> maxCount(results[c]),
                      wl    |-> maxWhitelist(results[c])]
    BY <1>0, <1>1 DEF Join
  <2>2. ret'[c].hit = (call[c].op = "check" /\ Hit(results[c], RCount, WLCount))
    BY <2>1
  <2>3. results' = results /\ call'[c].pc = "done" /\ call'[c].op = call[c].op
    BY <2>1
  <2>4. Hit(results'[c], RCount, WLCount) <=> Hit(results[c], RCount, WLCount)
    BY <2>3, Zenon
  <2> QED
    BY <2>2, <2>3, <2>4, Zenon
<1>2. ASSUME ret'[c] = ret[c], call'[c].pc # "done", call[c].pc # "done"
      PROVE  ret'[c].hit <=> /\ call'[c].pc = "done" /\ call'[c].op = "check"
                             /\ Hit(results'[c], RCount, WLCount)
  BY <1>2 DEF VerdictInv
<1>3. ASSUME ret'[c] = ret[c], call'[c] = call[c]
      PROVE  ret'[c].hit <=> /\ call'[c].pc = "done" /\ call'[c].op = "check"
                             /\ Hit(results'[c], RCount, WLCount)
  <2>1. CASE call[c].pc = "done"
    <3>1. results'[c] = results[c]
      BY <2>1, DoneIsFinal
    <3> QED
      BY <1>3, <3>1 DEF VerdictInv
  <2>2. CASE call[c].pc # "done"
    BY <1>2, <1>3, <2>2
  <2> QED
    BY <2>1, <2>2
<1>4. ASSUME NEW h \in Calls, CallStep(h), ~Join(c)
      PROVE  \/ ret'[c] = ret[c] /\ call'[c] = call[c]
             \/ ret'[c] = ret[c] /\ call'[c].pc # "done" /\ call[c].pc # "done"
  <2>1. CASE h # c
    BY <1>0, <1>4, <2>1 DEF CallStep, Begin, Spawn, Join
  <2>2. CASE h = c
    <3>1. CASE Spawn(c)
      BY <1>0, <3>1 DEF Spawn
    <3>2. ASSUME NEW rq \in Requests, Begin(c, rq)
          PROVE  ret'[c] = ret[c] /\ call'[c].pc # "done" /\ call[c].pc # "done"
      BY <1>0, <3>2 DEF Begin
    <3> QED
      BY <1>4, <2>2, <3>1, <3>2 DEF CallStep
  <2> QED
    BY <2>1, <2>2
<1>5. (call' = call /\ ret' = ret) \/ \E h \in Calls : CallStep(h)
  <2>1. ASSUME NEW k \in Calls, NEW i \in Idx, QueryStep(k, i)
        PROVE  call' = call /\ ret' = ret
    <3>1. CASE Send(k, i)
      BY <3>1 DEF Send
    <3>2. CASE SendFails(k, i)
      BY <3>2 DEF SendFails, Store
    <3>3. CASE Receive(k, i)
      BY <3>3 DEF Receive, Store
    <3>4. CASE ReadFails(k, i)
      BY <3>4 DEF ReadFails, Store
    <3>5. CASE Exit(k, i)
      BY <3>5 DEF Exit
    <3> QED
      BY <2>1, <3>1, <3>2, <3>3, <3>4, <3>5 DEF QueryStep
  <2>2. ASSUME NEW q \in reqs, NEW f \in Faults, Serve(q, f)
        PROVE  call' = call /\ ret' = ret
    BY <2>2 DEF Serve, clientVars
  <2>3. CASE UNCHANGED vars
    BY <2>3 DEF vars
  <2> QED
    BY <2>1, <2>2, <2>3 DEF Next
<1>6. CASE call' = call /\ ret' = ret
  BY <1>3, <1>6
<1>7. ASSUME NEW h \in Calls, CallStep(h)
      PROVE  ret'[c].hit <=> /\ call'[c].pc = "done" /\ call'[c].op = "check"
                             /\ Hit(results'[c], RCount, WLCount)
  <2>1. CASE Join(c)
    BY <1>1, <2>1
  <2>2. CASE ret'[c] = ret[c] /\ call'[c] = call[c]
    BY <1>3, <2>2
  <2>3. CASE ret'[c] = ret[c] /\ call'[c].pc # "done" /\ call[c].pc # "done"
    BY <1>2, <2>3
  <2> QED
    BY <1>4, <1>7, <2>1, <2>2, <2>3
<1> QED
  BY <1>5, <1>6, <1>7, Zenon

\* So what had succeeded is always seen.
LEMMA SeenAlways == Spec => [](TypeInv /\ FanoutInv /\ FreshInv /\ SeenInv)
<1>1. Init => TypeInv /\ FanoutInv /\ FreshInv /\ SeenInv
  BY TypeInit, FanoutInit, FreshInit, SeenInit
<1>2. TypeInv /\ FanoutInv /\ FreshInv /\ SeenInv /\ [Next]_vars
        => (TypeInv /\ FanoutInv /\ FreshInv /\ SeenInv)'
  <2>1. TypeInv /\ FanoutInv /\ FreshInv /\ [Next]_vars => (TypeInv /\ FanoutInv /\ FreshInv)'
    BY TypeStep, FanoutStep, FreshStep
  <2>2. TypeInv /\ TypeInv' /\ FanoutInv /\ FreshInv /\ SeenInv /\ [Next]_vars => SeenInv'
    BY AppliedStep, SucceededStep, VerdictStep DEF SeenInv, FreshInv
  <2> QED
    BY <2>1, <2>2
<1> QED
  BY <1>1, <1>2, PTL DEF Spec

\* What a check that has all its answers found, compared with its start and now.
LEMMA CheckBounds ==
  ASSUME TypeInv, FanoutInv, FreshInv, ThreadsTellApart,
         NEW c \in Calls, call[c].pc = "done", call[c].op = "check", NEW i \in Idx, ok(results[c][i])
  PROVE  /\ call[c].dgst \in Digests
         /\ Within(c, Servers[i], call[c].dgst, results[c][i])
         /\ results[c][i].count \in Int /\ results[c][i].wl \in Int
         /\ start[c].db[Servers[i]][call[c].dgst] \in Counters
         /\ db[Servers[i]][call[c].dgst] \in Counters
<1>1. call[c].dgst \in Digests /\ Servers[i] \in Addrs
  BY IdxFacts DEF TypeInv, DigestOK
<1>2. gor[c][i].pc = "exit"
  BY DEF FanoutInv
<1>3. Within(c, Servers[i], call[c].dgst, results[c][i])
  BY <1>2 DEF FreshInv, ResultsInv, Genuine
<1>4. results[c][i] \in ServerResult
  BY DEF TypeInv, TypeOK
<1>5. results[c][i].count \in Int /\ results[c][i].wl \in Int
  BY <1>4, MessageAssumption DEF ServerResult, IntRange
<1>6. start[c].db[Servers[i]][call[c].dgst] \in Counters /\ db[Servers[i]][call[c].dgst] \in Counters
  BY <1>1 DEF TypeInv, TypeOK
<1> QED
  BY <1>1, <1>3, <1>5, <1>6

(***************************************************************************)
(* Revocation is final: unless thread ids collided, no check that begins   *)
(* after WhitelistDigest returned true is a hit (with --wl-count 0).       *)
(***************************************************************************)
THEOREM RevocationIsFinal == Spec => []RevokedIsNoHit
<1>1. ASSUME TypeInv, FanoutInv, FreshInv, SeenInv, ThreadsTellApart, WLCount = 0,
             NEW c \in Calls, NEW k \in start[c].succeeded,
             call[k].op = "whitelist", call[k].dgst = call[c].dgst, ret[c].hit
      PROVE  FALSE
  <2>1. call[c].pc = "done" /\ call[c].op = "check" /\ Hit(results[c], RCount, WLCount)
    BY <1>1 DEF SeenInv, VerdictInv
  <2>2. DOMAIN results[c] = Idx /\ 1 \in Idx
    <3>1. results \in [Calls -> [Idx -> ServerResult]]
      BY <1>1 DEF TypeInv, TypeOK
    <3>2. 1 \in Idx
      BY ClientAssumption DEF Idx
    <3> QED
      BY <3>1, <3>2
  <2>3. ok(results[c][1]) /\ results[c][1].wl <= 0
    BY <1>1, <2>1, <2>2 DEF Hit
  <2>4. /\ call[c].dgst \in Digests
        /\ Within(c, Servers[1], call[c].dgst, results[c][1])
        /\ results[c][1].wl \in Int
        /\ start[c].db[Servers[1]][call[c].dgst] \in Counters
    BY <1>1, <2>1, <2>2, <2>3, CheckBounds
  <2>5. Shows(start[c].db[Servers[1]][call[c].dgst], "whitelist")
    BY <1>1, <2>2, <2>4 DEF SeenInv, SucceededInv
  <2> QED
    BY <2>3, <2>4, <2>5 DEF Shows, Within, Counters
<1>2. TypeInv /\ FanoutInv /\ FreshInv /\ SeenInv => RevokedIsNoHit
  BY <1>1 DEF RevokedIsNoHit
<1> QED
  BY <1>2, SeenAlways, PTL

(***************************************************************************)
(* Reports are seen: unless thread ids collided, a check that begins after *)
(* ReportDigest returned true, gets every answer and finds no whitelisting *)
(* is a hit (with both thresholds 0).                                      *)
(***************************************************************************)
THEOREM ReportsAreSeen == Spec => []ReportedIsHit
<1>1. ASSUME TypeInv, FanoutInv, FreshInv, SeenInv, ThreadsTellApart, RCount = 0, WLCount = 0,
             NEW c \in Calls, NEW k \in start[c].succeeded,
             call[k].op = "report", call[k].dgst = call[c].dgst,
             call[c].pc = "done", call[c].op = "check", ret[c].ok,
             \A s \in Addrs : db[s][call[c].dgst].wl = 0
      PROVE  ret[c].hit
  <2>1. AllOK(results[c])
    BY <1>1 DEF FreshInv, ReturnInv
  <2>2. DOMAIN results[c] = Idx /\ 1 \in Idx
    <3>1. results \in [Calls -> [Idx -> ServerResult]]
      BY <1>1 DEF TypeInv, TypeOK
    <3>2. 1 \in Idx
      BY ClientAssumption DEF Idx
    <3> QED
      BY <3>1, <3>2
  <2>3. ASSUME NEW i \in Idx
        PROVE  ok(results[c][i]) /\ results[c][i].wl <= WLCount /\ results[c][i].count > RCount
    <3>1. ok(results[c][i])
      BY <2>1, <2>2 DEF AllOK
    <3>2. /\ call[c].dgst \in Digests
          /\ Within(c, Servers[i], call[c].dgst, results[c][i])
          /\ results[c][i].count \in Int /\ results[c][i].wl \in Int
          /\ start[c].db[Servers[i]][call[c].dgst] \in Counters
      BY <1>1, <3>1, CheckBounds
    <3>3. Shows(start[c].db[Servers[i]][call[c].dgst], "report")
      BY <1>1, <3>2 DEF SeenInv, SucceededInv
    <3>4. db[Servers[i]][call[c].dgst].wl = 0
      BY <1>1, IdxFacts
    <3> QED
      BY <1>1, <3>1, <3>2, <3>3, <3>4 DEF Shows, Within, Counters
  <2>4. Hit(results[c], RCount, WLCount)
    BY <2>1, <2>2, <2>3 DEF Hit, AllOK
  <2> QED
    BY <1>1, <2>4 DEF SeenInv, VerdictInv
<1>2. TypeInv /\ FanoutInv /\ FreshInv /\ SeenInv => ReportedIsHit
  BY <1>1 DEF ReportedIsHit
<1> QED
  BY <1>2, SeenAlways, PTL

----------------------------------------------------------------------------
\* A call that has returned shows the maxima of its slice.
CountsInv ==
  \A c \in Calls : call[c].pc = "done" =>
    ret[c].count = maxCount(results[c]) /\ ret[c].wl = maxWhitelist(results[c])

LEMMA CountsAlways == Spec => []CountsInv
<1>1. Init => CountsInv
  BY DEF Init, CountsInv
<1>2. ASSUME TypeInv, FanoutInv, CountsInv, [Next]_vars PROVE CountsInv'
  <2> SUFFICES ASSUME NEW c \in Calls, call'[c].pc = "done"
               PROVE  /\ ret'[c].count = maxCount(results'[c])
                      /\ ret'[c].wl = maxWhitelist(results'[c])
    BY DEF CountsInv, maxCount, maxWhitelist, ok
  <2>1. CASE Join(c)
    <3>1. /\ results' = results
          /\ ret'[c].count = maxCount(results[c]) /\ ret'[c].wl = maxWhitelist(results[c])
      BY <1>2, <2>1 DEF Join, TypeInv, TypeOK
    <3> QED
      BY <3>1
  <2>2. CASE call[c].pc = "done" /\ ret'[c] = ret[c] /\ results'[c] = results[c]
    BY <1>2, <2>2 DEF CountsInv
  <2> QED
    BY <1>2, <2>1, <2>2, Returned
<1> QED
  BY <1>1, <1>2, FanoutAlways, PTL DEF Spec

\* The aggregated counts of a slice in which every server is ok.
LEMMA AggregateBounds ==
  ASSUME NEW rs \in [Idx -> ServerResult], AllOK(rs), NEW t \in Int, t >= 0
  PROVE  /\ maxCount(rs) > t <=> \E i \in Idx : rs[i].count > t
         /\ maxWhitelist(rs) <= t <=> \A i \in Idx : rs[i].wl <= t
<1> DEFINE C == {0} \cup {rs[i].count : i \in {j \in DOMAIN rs : ok(rs[j])}}
           W == {0} \cup {rs[i].wl : i \in {j \in DOMAIN rs : ok(rs[j])}}
<1>1. \A i \in Idx : ok(rs[i]) /\ rs[i].count \in IntRange /\ rs[i].wl \in IntRange
  BY DEF AllOK, ServerResult
<1>2. C = {0} \cup {rs[i].count : i \in Idx} /\ W = {0} \cup {rs[i].wl : i \in Idx}
  BY <1>1
<1>3. C \subseteq IntRange /\ W \subseteq IntRange /\ C # {} /\ W # {}
  BY <1>1, <1>2, MessageAssumption DEF IntRange
<1> HIDE DEF C, W
<1> DEFINE m == Max(C)
           n == Max(W)
<1>4. m \in C /\ (\A x \in C : m >= x) /\ n \in W /\ \A x \in W : n >= x
  BY <1>3, MaxOfInts
<1>5. C \subseteq Int /\ W \subseteq Int
  BY <1>3 DEF IntRange
<1> HIDE DEF m, n
<1>6. m > t <=> \E i \in Idx : rs[i].count > t
  <2>1. \A x : x \in C <=> x = 0 \/ \E i \in Idx : x = rs[i].count
    BY <1>2
  <2>2. m > t <=> \E x \in C : x > t
    BY <1>4, <1>5
  <2> QED
    BY <2>1, <2>2
<1>7. n <= t <=> \A i \in Idx : rs[i].wl <= t
  <2>1. \A x : x \in W <=> x = 0 \/ \E i \in Idx : x = rs[i].wl
    BY <1>2
  <2>2. n <= t <=> \A x \in W : x <= t
    BY <1>4, <1>5
  <2> QED
    BY <2>1, <2>2
<1>8. maxCount(rs) = m /\ maxWhitelist(rs) = n
  BY DEF m, n, C, W, maxCount, maxWhitelist
<1> QED
  BY <1>6, <1>7, <1>8

(***************************************************************************)
(* The counts shown with a verdict explain it: when every server answered, *)
(* hit or no hit follows from the two maxima, although CheckDigest folds   *)
(* them apart from Hit.                                                    *)
(***************************************************************************)
THEOREM VerdictIsExplained == Spec => []VerdictExplained
<1>1. ASSUME TypeInv, FreshInv, SeenInv, CountsInv, RCount >= 0, WLCount >= 0,
             NEW c \in Calls, call[c].pc = "done", call[c].op = "check", ret[c].ok
      PROVE  ret[c].hit <=> ret[c].count > RCount /\ ret[c].wl <= WLCount
  <2> DEFINE rs == results[c]
  <2>1. rs \in [Idx -> ServerResult] /\ AllOK(rs)
    BY <1>1 DEF TypeInv, TypeOK, FreshInv, ReturnInv
  <2>2. ret[c].hit <=> Hit(rs, RCount, WLCount)
    BY <1>1 DEF SeenInv, VerdictInv
  <2>3. ret[c].count = maxCount(rs) /\ ret[c].wl = maxWhitelist(rs)
    BY <1>1 DEF CountsInv
  <2> HIDE DEF rs
  <2>4. /\ maxCount(rs) > RCount <=> \E i \in Idx : rs[i].count > RCount
        /\ maxWhitelist(rs) <= WLCount <=> \A i \in Idx : rs[i].wl <= WLCount
    BY <1>1, <2>1, AggregateBounds, ClientAssumption
  <2>5. Hit(rs, RCount, WLCount) <=> /\ \A i \in Idx : rs[i].wl <= WLCount
                                     /\ \E i \in Idx : rs[i].count > RCount
    BY <2>1 DEF Hit, AllOK
  <2> QED
    BY <2>2, <2>3, <2>4, <2>5
<1>2. TypeInv /\ FreshInv /\ SeenInv /\ CountsInv => VerdictExplained
  BY <1>1 DEF VerdictExplained
<1> QED
  BY <1>2, SeenAlways, CountsAlways, PTL

============================================================================
