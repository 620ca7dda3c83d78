----------------------------- MODULE ServeProofs -----------------------------
(***************************************************************************)
(* The bookkeeping of the daemon, for any number of requests, servers and  *)
(* any configuration: types, the limit of requests in flight, the token,   *)
(* the access log, the metrics and what a scrape shows of them.            *)
(***************************************************************************)
EXTENDS Serve, FiniteSetTheorems, TLAPS

----------------------------------------------------------------------------
(* Sets that change in one element *)

Bit(x) == IF x THEN 1 ELSE 0

\* Only r may have entered or left the set.
LEMMA OneElement ==
  ASSUME NEW S, NEW T, NEW r, IsFiniteSet(S), T \ {r} = S \ {r}
  PROVE  /\ IsFiniteSet(T)
         /\ Cardinality(S) \in Nat /\ Cardinality(T) \in Nat
         /\ Cardinality(T) = Cardinality(S) + Bit(r \in T) - Bit(r \in S)
<1>1. Cardinality(S) \in Nat
  BY FS_CardinalityType
<1>2. IsFiniteSet(S \ {r}) /\ Cardinality(S \ {r}) = Cardinality(S) - Bit(r \in S)
  BY <1>1, FS_RemoveElement DEF Bit
<1>3. CASE r \in T
  <2>1. T = (S \ {r}) \cup {r}
    BY <1>3
  <2>2. r \notin S \ {r}
    OBVIOUS
  <2>3. IsFiniteSet(T) /\ Cardinality(T) = Cardinality(S \ {r}) + 1
    BY <1>2, <2>1, <2>2, FS_AddElement
  <2>4. Cardinality(T) \in Nat
    BY <2>3, FS_CardinalityType
  <2> QED
    BY <1>1, <1>2, <1>3, <2>3, <2>4 DEF Bit
<1>4. CASE r \notin T
  <2>1. T = S \ {r}
    BY <1>4
  <2>2. Cardinality(T) \in Nat
    BY <1>2, <2>1, FS_CardinalityType
  <2> QED
    BY <1>1, <1>2, <1>4, <2>1, <2>2 DEF Bit
<1> QED
  BY <1>3, <1>4

----------------------------------------------------------------------------
(* Types *)

Places == {"new", "auth", "gate", "body", "count", "query", "errors", "verdict",
           "write", "observe", "log", "release", "done"}
Statuses == {0, 200, 400, 401, 405, 413, 502, 503}
Refusals == {400, 405, 413}  \* of readBody
Results == {200, 502}

\* A request keeps its type when its fields change as they may.
LEMMA RequestFields ==
  ASSUME NEW q \in Request
  PROVE  /\ \A pc \in Places : [q EXCEPT !.pc = pc] \in Request
         /\ \A x \in BOOLEAN : [q EXCEPT !.authorized = x] \in Request
         /\ \A x \in BOOLEAN : [q EXCEPT !.logged = x] \in Request
         /\ \A x \in BOOLEAN : [q EXCEPT !.allOK = x] \in Request
         /\ \A x \in BOOLEAN : [q EXCEPT !.hit = x] \in Request
         /\ \A x \in 0 .. NServers : [q EXCEPT !.errs = x] \in Request
         /\ \A x \in {"check", "report", "revoke"} : [q EXCEPT !.op = x] \in Request
         /\ \A x \in Listeners : [q EXCEPT !.via = x] \in Request
<1>1. \A pc \in Places : [q EXCEPT !.pc = pc] \in Request
  BY DEF Request, Places
<1>3. \A x \in BOOLEAN : [q EXCEPT !.authorized = x] \in Request
  BY DEF Request
<1>4. \A x \in BOOLEAN : [q EXCEPT !.logged = x] \in Request
  BY DEF Request
<1>5. \A x \in BOOLEAN : [q EXCEPT !.allOK = x] \in Request
  BY DEF Request
<1>6. \A x \in BOOLEAN : [q EXCEPT !.hit = x] \in Request
  BY DEF Request
<1>7. \A x \in 0 .. NServers : [q EXCEPT !.errs = x] \in Request
  BY DEF Request
<1>8. \A x \in {"check", "report", "revoke"} : [q EXCEPT !.op = x] \in Request
  BY DEF Request
<1>9. \A x \in Listeners : [q EXCEPT !.via = x] \in Request
  BY DEF Request
<1> QED
  BY <1>1, <1>3, <1>4, <1>5, <1>6, <1>7, <1>8, <1>9

LEMMA StatusField ==
  ASSUME NEW q \in Request, NEW x \in Statuses
  PROVE  [q EXCEPT !.status = x] \in Request
BY DEF Request, Statuses

LEMMA StatusOf ==
  /\ 200 \in Statuses /\ 400 \in Statuses /\ 401 \in Statuses /\ 405 \in Statuses
  /\ 413 \in Statuses /\ 502 \in Statuses /\ 503 \in Statuses
BY DEF Statuses

\* Request r becomes q, and no other request changes.
Becomes(r, q) ==
  /\ req' \in [Requests -> Request] /\ req'[r] = q
  /\ \A k \in Requests \ {r} : req'[k] = req[k]

LEMMA OneRequest ==
  ASSUME TypeOK, NEW r \in Requests, NEW q \in Request, req' = [req EXCEPT ![r] = q]
  PROVE  Becomes(r, q)
BY DEF TypeOK, Becomes

LEMMA Moves ==
  ASSUME TypeOK, NEW r \in Requests, NEW pc \in Places, Goto(r, pc)
  PROVE  Becomes(r, [req[r] EXCEPT !.pc = pc])
<1>1. req[r] \in Request
  BY DEF TypeOK
<1>2. [req[r] EXCEPT !.pc = pc] \in Request
  BY <1>1, RequestFields
<1>3. req' = [req EXCEPT ![r] = [req[r] EXCEPT !.pc = pc]]
  BY DEF Goto
<1> QED
  BY <1>2, <1>3, OneRequest

LEMMA Answers ==
  ASSUME TypeOK, NEW r \in Requests, NEW pc \in Places, NEW x \in Statuses, Answer(r, pc, x)
  PROVE  Becomes(r, [req[r] EXCEPT !.pc = pc, !.status = x])
<1>1. req \in [Requests -> Request] /\ req[r] \in Request
  BY DEF TypeOK
<1>2. [req[r] EXCEPT !.pc = pc] \in Request
  BY <1>1, RequestFields
<1>3. [req[r] EXCEPT !.pc = pc, !.status = x] \in Request
  BY <1>2, StatusField
<1>4. req' = [req EXCEPT ![r] = [req[r] EXCEPT !.pc = pc, !.status = x]]
  BY <1>1 DEF Answer
<1> QED
  BY <1>3, <1>4, OneRequest

\* What each step makes of its request.
LEMMA ArriveEffect ==
  ASSUME TypeOK, NEW r \in Requests, NEW op \in {"check", "report", "revoke"}, NEW l \in Listeners,
         Arrive(r, op, l)
  PROVE  req[r].pc = "new" /\ Becomes(r, [req[r] EXCEPT !.pc = "auth", !.op = op, !.via = l])
<1>1. req \in [Requests -> Request] /\ req[r] \in Request
  BY DEF TypeOK
<1>2. [req[r] EXCEPT !.pc = "auth"] \in Request
  BY <1>1, RequestFields DEF Places
<1>3. [req[r] EXCEPT !.pc = "auth", !.op = op] \in Request
  BY <1>2, RequestFields
<1>4. [req[r] EXCEPT !.pc = "auth", !.op = op, !.via = l] \in Request
  BY <1>3, RequestFields
<1>5. req' = [req EXCEPT ![r] = [req[r] EXCEPT !.pc = "auth", !.op = op, !.via = l]]
  BY <1>1 DEF Arrive
<1> QED
  BY <1>4, <1>5, OneRequest DEF Arrive, At

LEMMA AuthEffect ==
  ASSUME TypeOK, NEW r \in Requests, NEW authorized \in BOOLEAN, auth(r, authorized)
  PROVE  /\ req[r].pc = "auth"
         /\ \/ /\ cfg.token /\ ~authorized
               /\ Becomes(r, [req[r] EXCEPT !.pc = "done", !.status = 401])
            \/ /\ ~(cfg.token /\ ~authorized)
               /\ Becomes(r, [req[r] EXCEPT !.pc = "gate", !.authorized = cfg.token /\ authorized])
<1>1. req \in [Requests -> Request] /\ req[r] \in Request /\ cfg \in Config
  BY ServeAssumption DEF TypeOK
<1>2. CASE cfg.token /\ ~authorized
  <2>1. [req[r] EXCEPT !.pc = "done"] \in Request
    BY <1>1, RequestFields DEF Places
  <2>2. [req[r] EXCEPT !.pc = "done", !.status = 401] \in Request
    BY <2>1, StatusField, StatusOf
  <2>3. req' = [req EXCEPT ![r] = [req[r] EXCEPT !.pc = "done", !.status = 401]]
    BY <1>1, <1>2 DEF auth
  <2> QED
    BY <1>2, <2>2, <2>3, OneRequest DEF auth, At
<1>3. CASE ~(cfg.token /\ ~authorized)
  <2>1. [req[r] EXCEPT !.pc = "gate"] \in Request
    BY <1>1, RequestFields DEF Places
  <2>2. [req[r] EXCEPT !.pc = "gate", !.authorized = cfg.token /\ authorized] \in Request
    BY <1>1, <2>1, RequestFields DEF Config
  <2>3. req' = [req EXCEPT ![r] = [req[r] EXCEPT !.pc = "gate", !.authorized = cfg.token /\ authorized]]
    BY <1>1, <1>3 DEF auth
  <2> QED
    BY <1>3, <2>2, <2>3, OneRequest DEF auth, At
<1> QED
  BY <1>2, <1>3

LEMMA GateEffect ==
  ASSUME TypeOK, NEW r \in Requests, gate(r)
  PROVE  /\ req[r].pc = "gate"
         /\ \/ sem < maxConc /\ sem' = sem + 1 /\ Becomes(r, [req[r] EXCEPT !.pc = "body"])
            \/ sem' = sem /\ Becomes(r, [req[r] EXCEPT !.pc = "done", !.status = 503])
<1>1. "body" \in Places /\ "done" \in Places
  BY DEF Places
<1>2. CASE sem < maxConc
  <2>1. Goto(r, "body")
    BY <1>2 DEF gate
  <2> QED
    BY <1>1, <1>2, <2>1, Moves DEF gate, At
<1>3. CASE ~(sem < maxConc)
  <2>1. Answer(r, "done", 503)
    BY <1>3 DEF gate
  <2>2. Becomes(r, [req[r] EXCEPT !.pc = "done", !.status = 503])
    BY <1>1, <2>1, StatusOf, Answers
  <2> QED
    BY <1>3, <2>2 DEF gate, At
<1> QED
  BY <1>2, <1>3

LEMMA BodyEffect ==
  ASSUME TypeOK, NEW r \in Requests, NEW body \in {"ok", "notPost", "tooLarge", "broken"},
         readBody(r, body)
  PROVE  /\ req[r].pc = "body"
         /\ \/ Becomes(r, [req[r] EXCEPT !.pc = "count"])
            \/ \E x \in Refusals : Becomes(r, [req[r] EXCEPT !.pc = "observe", !.status = x])
<1>1. "count" \in Places /\ "observe" \in Places
  BY DEF Places
<1>2. \/ Goto(r, "count")
      \/ Answer(r, "observe", 400) \/ Answer(r, "observe", 405) \/ Answer(r, "observe", 413)
  BY Zenon DEF readBody
<1>3. Goto(r, "count") => Becomes(r, [req[r] EXCEPT !.pc = "count"])
  BY <1>1, Moves
<1>4. ASSUME NEW x \in Refusals, Answer(r, "observe", x)
      PROVE  Becomes(r, [req[r] EXCEPT !.pc = "observe", !.status = x])
  <2>1. x \in Statuses
    BY <1>4, StatusOf DEF Refusals
  <2> QED
    BY <1>1, <1>4, <2>1, Answers
<1> QED
  BY <1>2, <1>3, <1>4 DEF readBody, At, Refusals

LEMMA CountEffect ==
  ASSUME TypeOK, NEW r \in Requests, Count(r)
  PROVE  req[r].pc = "count" /\ Becomes(r, [req[r] EXCEPT !.pc = "query"])
<1>1. "query" \in Places
  BY DEF Places
<1> QED
  BY <1>1, Moves DEF Count, At

\* What the client's answer makes of a request.
Queried(q, a, h, e) == [q EXCEPT !.pc = "errors", !.allOK = a, !.hit = h, !.errs = e]

LEMMA QueryEffect ==
  ASSUME TypeOK, NEW r \in Requests, NEW failed \in 0 .. NServers, NEW refused \in 0 .. NServers,
         NEW hit \in BOOLEAN, Query(r, failed, refused, hit)
  PROVE  /\ req[r].pc = "query"
         /\ \E a, h, e : Becomes(r, Queried(req[r], a, h, e))
<1>1. req \in [Requests -> Request] /\ req[r] \in Request
  BY DEF TypeOK
<1> DEFINE e == IF req[r].op = "check" THEN failed ELSE IF failed + refused = 0 THEN 0 ELSE 1
           a == failed + refused = 0
<1>2. e \in 0 .. NServers /\ a \in BOOLEAN
  BY ServeAssumption
<1>3. req' = [req EXCEPT ![r] = [req[r] EXCEPT !.pc = "errors", !.allOK = a, !.hit = hit, !.errs = e]]
  BY <1>1 DEF Query
<1> HIDE DEF e, a
<1>4. [req[r] EXCEPT !.pc = "errors"] \in Request
  BY <1>1, RequestFields DEF Places
<1>5. [req[r] EXCEPT !.pc = "errors", !.allOK = a] \in Request
  BY <1>2, <1>4, RequestFields
<1>6. [req[r] EXCEPT !.pc = "errors", !.allOK = a, !.hit = hit] \in Request
  BY <1>5, RequestFields
<1>7. [req[r] EXCEPT !.pc = "errors", !.allOK = a, !.hit = hit, !.errs = e] \in Request
  BY <1>2, <1>6, RequestFields
<1>8. Becomes(r, Queried(req[r], a, hit, e))
  BY <1>3, <1>7, OneRequest DEF Queried
<1> QED
  BY <1>8 DEF Query, At

LEMMA CountErrorEffect ==
  ASSUME TypeOK, NEW r \in Requests, CountError(r)
  PROVE  req[r].pc = "errors" /\ \E e : Becomes(r, [req[r] EXCEPT !.errs = e])
<1>1. req[r] \in Request
  BY DEF TypeOK
<1>2. req[r].errs - 1 \in 0 .. NServers
  BY <1>1, ServeAssumption DEF CountError, Request
<1>3. [req[r] EXCEPT !.errs = req[r].errs - 1] \in Request
  BY <1>1, <1>2, RequestFields
<1>4. req' = [req EXCEPT ![r] = [req[r] EXCEPT !.errs = req[r].errs - 1]]
  BY DEF CountError
<1> QED
  BY <1>3, <1>4, OneRequest DEF CountError, At

LEMMA ErrorsCountedEffect ==
  ASSUME TypeOK, NEW r \in Requests, ErrorsCounted(r)
  PROVE  /\ req[r].pc = "errors"
         /\ \/ req[r].op = "check" /\ Becomes(r, [req[r] EXCEPT !.pc = "verdict"])
            \/ req[r].op # "check" /\ Becomes(r, [req[r] EXCEPT !.pc = "write"])
<1>1. "verdict" \in Places /\ "write" \in Places
  BY DEF Places
<1>2. \/ req[r].op = "check" /\ Goto(r, "verdict")
      \/ req[r].op # "check" /\ Goto(r, "write")
  BY DEF ErrorsCounted
<1> QED
  BY <1>1, <1>2, Moves DEF ErrorsCounted, At

LEMMA VerdictEffect ==
  ASSUME TypeOK, NEW r \in Requests, verdictInc(r)
  PROVE  req[r].pc = "verdict" /\ Becomes(r, [req[r] EXCEPT !.pc = "write"])
<1>1. "write" \in Places
  BY DEF Places
<1> QED
  BY <1>1, Moves DEF verdictInc, At

LEMMA WriteEffect ==
  ASSUME TypeOK, NEW r \in Requests, writeJSON(r)
  PROVE  /\ req[r].pc = "write"
         /\ \E x \in Results : Becomes(r, [req[r] EXCEPT !.pc = "observe", !.status = x])
<1>1. "observe" \in Places
  BY DEF Places
<1>2. \E x \in Results : Answer(r, "observe", x)
  BY DEF writeJSON, Results
<1>3. ASSUME NEW x \in Results, Answer(r, "observe", x)
      PROVE  Becomes(r, [req[r] EXCEPT !.pc = "observe", !.status = x])
  <2>1. x \in Statuses
    BY <1>3, StatusOf DEF Results
  <2> QED
    BY <1>1, <1>3, <2>1, Answers
<1> QED
  BY <1>2, <1>3 DEF writeJSON, At

LEMMA ObserveEffect ==
  ASSUME TypeOK, NEW r \in Requests, observe(r)
  PROVE  req[r].pc = "observe" /\ Becomes(r, [req[r] EXCEPT !.pc = "log"])
<1>1. "log" \in Places
  BY DEF Places
<1> QED
  BY <1>1, Moves DEF observe, At

LEMMA AccessEffect ==
  ASSUME TypeOK, NEW r \in Requests, access(r)
  PROVE  /\ req[r].pc = "log"
         /\ Becomes(r, [req[r] EXCEPT !.pc = "release", !.logged = req[r].op # "check" \/ cfg.verbose])
<1>1. req \in [Requests -> Request] /\ req[r] \in Request /\ cfg \in Config
  BY ServeAssumption DEF TypeOK
<1>2. [req[r] EXCEPT !.pc = "release"] \in Request
  BY <1>1, RequestFields DEF Places
<1>3. (req[r].op # "check" \/ cfg.verbose) \in BOOLEAN
  BY <1>1 DEF Config
<1>4. [req[r] EXCEPT !.pc = "release", !.logged = req[r].op # "check" \/ cfg.verbose] \in Request
  BY <1>2, <1>3, RequestFields
<1>5. req' = [req EXCEPT ![r] = [req[r] EXCEPT !.pc = "release",
                                               !.logged = req[r].op # "check" \/ cfg.verbose]]
  BY <1>1 DEF access
<1> QED
  BY <1>4, <1>5, OneRequest DEF access, At

LEMMA ReleaseEffect ==
  ASSUME TypeOK, NEW r \in Requests, Release(r)
  PROVE  req[r].pc = "release" /\ Becomes(r, [req[r] EXCEPT !.pc = "done"])
<1>1. "done" \in Places
  BY DEF Places
<1> QED
  BY <1>1, Moves DEF Release, At

\* A step of a request changes that request only, and nothing of runServe.
LEMMA StepOfOne ==
  ASSUME TypeOK, NEW r \in Requests, RequestStep(r)
  PROVE  /\ req' \in [Requests -> Request]
         /\ \A k \in Requests \ {r} : req'[k] = req[k]
         /\ UNCHANGED <<cfg, main, lns, errc, scrape>>
<1>1. UNCHANGED <<cfg, main, lns, errc, scrape>>
  BY DEF RequestStep, auth, gate, readBody, Count, Query, CountError, ErrorsCounted, verdictInc,
         writeJSON, observe, access, Release
<1> DEFINE Kept == req' \in [Requests -> Request] /\ \A k \in Requests \ {r} : req'[k] = req[k]
<1>2. \A q : Becomes(r, q) => Kept
  BY DEF Becomes
<1> HIDE DEF Kept
<1>3. ASSUME NEW authorized \in BOOLEAN, auth(r, authorized) PROVE Kept
  BY <1>2, <1>3, AuthEffect
<1>4. ASSUME gate(r) PROVE Kept
  BY <1>2, <1>4, GateEffect
<1>5. ASSUME NEW body \in {"ok", "notPost", "tooLarge", "broken"}, readBody(r, body) PROVE Kept
  BY <1>2, <1>5, BodyEffect, Zenon
<1>6. ASSUME Count(r) PROVE Kept
  BY <1>2, <1>6, CountEffect
<1>7. ASSUME NEW failed \in 0 .. NServers, NEW refused \in 0 .. NServers, NEW hit \in BOOLEAN,
             Query(r, failed, refused, hit)
      PROVE  Kept
  BY <1>2, <1>7, QueryEffect
<1>8. ASSUME CountError(r) PROVE Kept
  BY <1>2, <1>8, CountErrorEffect
<1>9. ASSUME ErrorsCounted(r) PROVE Kept
  BY <1>2, <1>9, ErrorsCountedEffect
<1>10. ASSUME verdictInc(r) PROVE Kept
  BY <1>2, <1>10, VerdictEffect
<1>11. ASSUME writeJSON(r) PROVE Kept
  BY <1>2, <1>11, WriteEffect
<1>12. ASSUME observe(r) PROVE Kept
  BY <1>2, <1>12, ObserveEffect
<1>13. ASSUME access(r) PROVE Kept
  BY <1>2, <1>13, AccessEffect
<1>14. ASSUME Release(r) PROVE Kept
  BY <1>2, <1>14, ReleaseEffect
<1>15. Kept
  BY <1>3, <1>4, <1>5, <1>6, <1>7, <1>8, <1>9, <1>10, <1>11, <1>12, <1>13, <1>14 DEF RequestStep
<1> QED
  BY <1>1, <1>15 DEF Kept

LEMMA MetricsTyped ==
  ASSUME TypeOK, NEW r \in Requests, RequestStep(r)
  PROVE  sem' \in Int /\ m' \in Metrics
<1>1. sem \in Int /\ m \in Metrics
  BY DEF TypeOK
<1>2. ASSUME Count(r) PROVE m' \in Metrics
  <2>1. req[r].op \in {"check", "report", "revoke"}
    BY DEF TypeOK, Request
  <2> QED
    BY <1>1, <1>2, <2>1 DEF Count, Metrics
<1>3. ASSUME CountError(r) PROVE m' \in Metrics
  BY <1>1, <1>3 DEF CountError, Metrics
<1>4. ASSUME verdictInc(r) PROVE m' \in Metrics
  BY <1>1, <1>4 DEF verdictInc, Metrics
<1>5. ASSUME observe(r) PROVE m' \in Metrics
  BY <1>1, <1>5 DEF observe, Metrics
<1>6. m' = m \/ Count(r) \/ CountError(r) \/ verdictInc(r) \/ observe(r)
  BY DEF RequestStep, auth, gate, readBody, Query, ErrorsCounted, writeJSON, access, Release
<1>7. m' \in Metrics
  BY <1>1, <1>2, <1>3, <1>4, <1>5, <1>6
<1>8. sem' = sem \/ gate(r) \/ Release(r)
  BY DEF RequestStep, auth, readBody, Count, Query, CountError, ErrorsCounted, verdictInc,
         writeJSON, observe, access
<1>9. sem' \in Int
  BY <1>1, <1>8 DEF gate, Release
<1> QED
  BY <1>7, <1>9

\* The variables of the daemon keep their types.
THEOREM ServeTypeCorrect == Spec => []TypeOK
<1>1. Init => TypeOK
  BY ServeAssumption DEF Init, TypeOK, Request, Metrics, Listeners, ScrapeOrder, Config
<1>2. TypeOK /\ [Next]_vars => TypeOK'
  <2> SUFFICES ASSUME TypeOK, [Next]_vars PROVE TypeOK'
    OBVIOUS
  <2>1. CASE UNCHANGED vars
    BY <2>1 DEF vars, TypeOK
  <2>2. ASSUME MainStep PROVE TypeOK'
    <3> USE DEF TypeOK
    <3>1. ASSUME Refuse \/ ListenFails PROVE TypeOK'
      BY <3>1 DEF Refuse, ListenFails, Exit
    <3>2. ASSUME Listen PROVE TypeOK'
      BY <3>2 DEF Listen
    <3>3. ASSUME ReceiveError PROVE TypeOK'
      BY <3>3 DEF ReceiveError
    <3>4. ASSUME Return PROVE TypeOK'
      BY <3>4 DEF Return, Exit
    <3> QED
      BY <2>2, <3>1, <3>2, <3>3, <3>4 DEF MainStep
  <2>3. ASSUME NEW l \in Listeners, ServeReturns(l) PROVE TypeOK'
    BY <2>3 DEF ServeReturns, TypeOK
  <2>4. ASSUME NEW r \in Requests, NEW op \in {"check", "report", "revoke"}, NEW l \in Listeners,
               Arrive(r, op, l)
        PROVE  TypeOK'
    <3>1. req' \in [Requests -> Request]
      BY <2>4, ArriveEffect DEF Becomes
    <3> QED
      BY <2>4, <3>1 DEF Arrive, TypeOK
  <2>5. ASSUME NEW r \in Requests, RequestStep(r) PROVE TypeOK'
    BY <2>5, StepOfOne, MetricsTyped DEF TypeOK
  <2>6. ASSUME Scrape PROVE TypeOK'
    <3> DEFINE next == ScrapeOrder[scrape.read + 1]
    <3>1. /\ scrape.read \in 0 .. 6 /\ scrape.open \in Int /\ scrape.unseen \in Int
          /\ Len(ScrapeOrder) = 7
      BY <2>6 DEF Scrape, ScrapeOrder, TypeOK
    <3>2. m \in Metrics
      BY DEF TypeOK
    <3>3. next \in {"check", "report", "revoke", "reject", "accept", "unknown", "count"}
      BY <3>1 DEF ScrapeOrder
    <3>4. m[next] \in Nat /\ m.check \in Nat /\ m.count \in Nat
      BY <3>2, <3>3 DEF Metrics
    <3> HIDE DEF next
    <3>5. scrape' \in [read : 0 .. 7, open : Int, unseen : Int]
      BY <2>6, <3>1, <3>4 DEF Scrape, next
    <3> QED
      BY <2>6, <3>1, <3>5 DEF Scrape, TypeOK
  <2> QED
    BY <2>1, <2>2, <2>3, <2>4, <2>5, <2>6 DEF Next
<1> QED
  BY <1>1, <1>2, PTL DEF Spec

----------------------------------------------------------------------------
(* Where a request is, and what that says of it *)

Early == {"new", "auth", "gate", "body", "count", "query", "errors", "verdict", "write"}
Inside == {"body", "count", "query", "errors", "verdict", "write", "observe", "log", "release"}

PlaceInv(r) ==
  /\ req[r].pc \in Early => req[r].status = 0
  /\ req[r].pc \in {"observe", "log", "release"} => req[r].status \in Results \cup Refusals
  /\ req[r].pc = "verdict" => req[r].op = "check"
  /\ req[r].pc = "release" /\ req[r].op # "check" => req[r].logged
  /\ req[r].pc = "done" /\ req[r].op # "check" /\ req[r].status \notin {401, 503} => req[r].logged
  /\ req[r].pc = "auth" => safetyCheck
  /\ req[r].pc \in Inside \cup {"gate"} /\ req[r].via = "tcp" /\ cfg.tcp = "open" =>
       req[r].authorized

\* Nothing is served unless the configuration is safe.
PlacesInv ==
  /\ \A l \in Listeners : lns[l] = "serving" => safetyCheck
  /\ \A r \in Requests : PlaceInv(r)

\* The fields of a request after a step that changes only some of them.
LEMMA FieldsOf ==
  ASSUME NEW q \in Request
  PROVE  /\ \A pc : LET p == [q EXCEPT !.pc = pc]
                    IN /\ p.pc = pc /\ p.op = q.op /\ p.via = q.via /\ p.authorized = q.authorized
                       /\ p.status = q.status /\ p.logged = q.logged
         /\ \A pc, x : LET p == [q EXCEPT !.pc = pc, !.status = x]
                       IN /\ p.pc = pc /\ p.op = q.op /\ p.via = q.via /\ p.authorized = q.authorized
                          /\ p.status = x /\ p.logged = q.logged
         /\ \A pc, x : LET p == [q EXCEPT !.pc = pc, !.authorized = x]
                       IN /\ p.pc = pc /\ p.op = q.op /\ p.via = q.via /\ p.authorized = x
                          /\ p.status = q.status /\ p.logged = q.logged
         /\ \A pc, x : LET p == [q EXCEPT !.pc = pc, !.logged = x]
                       IN /\ p.pc = pc /\ p.op = q.op /\ p.via = q.via /\ p.authorized = q.authorized
                          /\ p.status = q.status /\ p.logged = x
         /\ \A e : LET p == [q EXCEPT !.errs = e]
                   IN /\ p.pc = q.pc /\ p.op = q.op /\ p.via = q.via /\ p.authorized = q.authorized
                      /\ p.status = q.status /\ p.logged = q.logged
         /\ \A a, h, e : LET p == [q EXCEPT !.pc = "errors", !.allOK = a, !.hit = h, !.errs = e]
                         IN /\ p.pc = "errors" /\ p.op = q.op /\ p.via = q.via
                            /\ p.authorized = q.authorized
                            /\ p.status = q.status /\ p.logged = q.logged
         /\ \A x, l : LET p == [q EXCEPT !.pc = "auth", !.op = x, !.via = l]
                      IN /\ p.pc = "auth" /\ p.op = x /\ p.via = l /\ p.authorized = q.authorized
                         /\ p.status = q.status /\ p.logged = q.logged
BY DEF Request

LEMMA PlaceStep ==
  ASSUME TypeOK, PlacesInv, NEW r \in Requests, RequestStep(r)
  PROVE  PlaceInv(r)'
<1> DEFINE q == req[r]
           p == req'[r]
<1>1. q \in Request /\ PlaceInv(r) /\ UNCHANGED cfg
  BY StepOfOne DEF TypeOK, PlacesInv
<1>2. PlaceInv(r)' <=>
        /\ p.pc \in Early => p.status = 0
        /\ p.pc \in {"observe", "log", "release"} => p.status \in Results \cup Refusals
        /\ p.pc = "verdict" => p.op = "check"
        /\ p.pc = "release" /\ p.op # "check" => p.logged
        /\ p.pc = "done" /\ p.op # "check" /\ p.status \notin {401, 503} => p.logged
        /\ p.pc = "auth" => safetyCheck
        /\ p.pc \in Inside \cup {"gate"} /\ p.via = "tcp" /\ cfg.tcp = "open" => p.authorized
  BY <1>1 DEF PlaceInv, safetyCheck
<1>3. \A x : Becomes(r, x) => p = x
  BY DEF Becomes
<1> HIDE DEF p
<1> DEFINE Same == p.op = q.op /\ p.via = q.via /\ p.authorized = q.authorized
<1>4. ASSUME NEW authorized \in BOOLEAN, auth(r, authorized) PROVE PlaceInv(r)'
  <2>1. \/ p = [q EXCEPT !.pc = "done", !.status = 401]
        \/ /\ ~(cfg.token /\ ~authorized)
           /\ p = [q EXCEPT !.pc = "gate", !.authorized = cfg.token /\ authorized]
    <3>1. \/ Becomes(r, [req[r] EXCEPT !.pc = "done", !.status = 401])
          \/ /\ ~(cfg.token /\ ~authorized)
             /\ Becomes(r, [req[r] EXCEPT !.pc = "gate", !.authorized = cfg.token /\ authorized])
      BY <1>4, AuthEffect
    <3> QED
      BY <1>3, <3>1, Zenon
  <2>2. q.pc = "auth"
    BY <1>4, AuthEffect
  <2>3. CASE p = [q EXCEPT !.pc = "done", !.status = 401]
    <3>1. p.pc = "done" /\ p.status = 401
      BY <1>1, <2>3, FieldsOf
    <3> QED
      BY <1>2, <3>1 DEF Early, Inside
  <2>4. CASE /\ ~(cfg.token /\ ~authorized)
             /\ p = [q EXCEPT !.pc = "gate", !.authorized = cfg.token /\ authorized]
    <3>1. p.pc = "gate" /\ p.authorized = (cfg.token /\ authorized) /\ p.status = q.status
      BY <1>1, <2>4, FieldsOf
    <3>2. safetyCheck /\ q.status = 0
      BY <1>1, <2>2 DEF PlaceInv, Early
    <3> QED
      BY <1>2, <2>4, <3>1, <3>2 DEF Early, Inside, safetyCheck
  <2> QED
    BY <2>1, <2>3, <2>4
<1>5. ASSUME gate(r) PROVE PlaceInv(r)'
  <2>1. q.pc = "gate" /\ (p = [q EXCEPT !.pc = "body"] \/ p = [q EXCEPT !.pc = "done", !.status = 503])
    BY <1>3, <1>5, GateEffect
  <2>2. CASE p = [q EXCEPT !.pc = "body"]
    <3>1. p.pc = "body" /\ p.status = q.status /\ Same
      BY <1>1, <2>2, FieldsOf
    <3> QED
      BY <1>1, <1>2, <2>1, <3>1 DEF PlaceInv, Early, Inside
  <2>3. CASE p = [q EXCEPT !.pc = "done", !.status = 503]
    <3>1. p.pc = "done" /\ p.status = 503
      BY <1>1, <2>3, FieldsOf
    <3> QED
      BY <1>2, <3>1 DEF Early, Inside
  <2> QED
    BY <2>1, <2>2, <2>3
<1>6. ASSUME NEW body \in {"ok", "notPost", "tooLarge", "broken"}, readBody(r, body) PROVE PlaceInv(r)'
  <2>1. q.pc = "body" /\ (\/ p = [q EXCEPT !.pc = "count"]
                          \/ \E x \in Refusals : p = [q EXCEPT !.pc = "observe", !.status = x])
    BY <1>3, <1>6, BodyEffect
  <2>2. CASE p = [q EXCEPT !.pc = "count"]
    <3>1. p.pc = "count" /\ p.status = q.status /\ Same
      BY <1>1, <2>2, FieldsOf
    <3> QED
      BY <1>1, <1>2, <2>1, <3>1 DEF PlaceInv, Early, Inside
  <2>3. ASSUME NEW x \in Refusals, p = [q EXCEPT !.pc = "observe", !.status = x] PROVE PlaceInv(r)'
    <3>1. p.pc = "observe" /\ p.status \in Refusals /\ Same
      BY <1>1, <2>3, FieldsOf
    <3> QED
      BY <1>1, <1>2, <2>1, <3>1 DEF PlaceInv, Early, Inside
  <2> QED
    BY <2>1, <2>2, <2>3
<1>7. ASSUME Count(r) PROVE PlaceInv(r)'
  <2>1. q.pc = "count" /\ p = [q EXCEPT !.pc = "query"]
    BY <1>3, <1>7, CountEffect
  <2>2. p.pc = "query" /\ p.status = q.status /\ Same
    BY <1>1, <2>1, FieldsOf
  <2> QED
    BY <1>1, <1>2, <2>1, <2>2 DEF PlaceInv, Early, Inside
<1>8. ASSUME NEW failed \in 0 .. NServers, NEW refused \in 0 .. NServers, NEW hit \in BOOLEAN,
             Query(r, failed, refused, hit)
      PROVE  PlaceInv(r)'
  <2>1. q.pc = "query" /\ \E a, h, e : p = Queried(q, a, h, e)
    BY <1>3, <1>8, QueryEffect
  <2>2. PICK a, h, e : p = Queried(q, a, h, e)
    BY <2>1
  <2>3. p.pc = "errors" /\ p.status = q.status /\ Same
    BY <1>1, <2>2, FieldsOf DEF Queried
  <2> QED
    BY <1>1, <1>2, <2>1, <2>3 DEF PlaceInv, Early, Inside
<1>9. ASSUME CountError(r) PROVE PlaceInv(r)'
  <2>1. q.pc = "errors" /\ \E e : p = [q EXCEPT !.errs = e]
    BY <1>3, <1>9, CountErrorEffect
  <2>2. PICK e : p = [q EXCEPT !.errs = e]
    BY <2>1
  <2>3. p.pc = q.pc /\ p.status = q.status /\ Same
    BY <1>1, <2>2, FieldsOf
  <2> QED
    BY <1>1, <1>2, <2>1, <2>3 DEF PlaceInv, Early, Inside
<1>10. ASSUME ErrorsCounted(r) PROVE PlaceInv(r)'
  <2>1. q.pc = "errors" /\ (\/ q.op = "check" /\ p = [q EXCEPT !.pc = "verdict"]
                            \/ p = [q EXCEPT !.pc = "write"])
    BY <1>3, <1>10, ErrorsCountedEffect
  <2>2. ((p.pc = "verdict" /\ q.op = "check") \/ p.pc = "write") /\ p.status = q.status /\ Same
    <3>1. CASE q.op = "check" /\ p = [q EXCEPT !.pc = "verdict"]
      BY <1>1, <3>1, FieldsOf
    <3>2. CASE p = [q EXCEPT !.pc = "write"]
      BY <1>1, <3>2, FieldsOf
    <3> QED
      BY <2>1, <3>1, <3>2
  <2> QED
    BY <1>1, <1>2, <2>1, <2>2 DEF PlaceInv, Early, Inside
<1>11. ASSUME verdictInc(r) PROVE PlaceInv(r)'
  <2>1. q.pc = "verdict" /\ p = [q EXCEPT !.pc = "write"]
    BY <1>3, <1>11, VerdictEffect
  <2>2. p.pc = "write" /\ p.status = q.status /\ Same
    BY <1>1, <2>1, FieldsOf
  <2> QED
    BY <1>1, <1>2, <2>1, <2>2 DEF PlaceInv, Early, Inside
<1>12. ASSUME writeJSON(r) PROVE PlaceInv(r)'
  <2>1. q.pc = "write" /\ \E x \in Results : p = [q EXCEPT !.pc = "observe", !.status = x]
    BY <1>3, <1>12, WriteEffect
  <2>2. PICK x \in Results : p = [q EXCEPT !.pc = "observe", !.status = x]
    BY <2>1
  <2>3. p.pc = "observe" /\ p.status \in Results /\ Same
    BY <1>1, <2>2, FieldsOf
  <2> QED
    BY <1>1, <1>2, <2>1, <2>3 DEF PlaceInv, Early, Inside
<1>13. ASSUME observe(r) PROVE PlaceInv(r)'
  <2>1. q.pc = "observe" /\ p = [q EXCEPT !.pc = "log"]
    BY <1>3, <1>13, ObserveEffect
  <2>2. p.pc = "log" /\ p.status = q.status /\ Same
    BY <1>1, <2>1, FieldsOf
  <2> QED
    BY <1>1, <1>2, <2>1, <2>2 DEF PlaceInv, Early, Inside
<1>14. ASSUME access(r) PROVE PlaceInv(r)'
  <2>1. q.pc = "log" /\ p = [q EXCEPT !.pc = "release", !.logged = q.op # "check" \/ cfg.verbose]
    BY <1>3, <1>14, AccessEffect
  <2>2. /\ p.pc = "release" /\ p.status = q.status /\ Same
        /\ p.logged = (q.op # "check" \/ cfg.verbose)
    <3> DEFINE x == q.op # "check" \/ cfg.verbose
    <3>1. p = [q EXCEPT !.pc = "release", !.logged = x]
      BY <2>1
    <3> HIDE DEF x
    <3>2. p.pc = "release" /\ p.status = q.status /\ Same /\ p.logged = x
      BY <1>1, <3>1, FieldsOf
    <3> QED
      BY <3>2 DEF x
  <2> QED
    BY <1>1, <1>2, <2>1, <2>2 DEF PlaceInv, Early, Inside
<1>15. ASSUME Release(r) PROVE PlaceInv(r)'
  <2>1. q.pc = "release" /\ p = [q EXCEPT !.pc = "done"]
    BY <1>3, <1>15, ReleaseEffect
  <2>2. p.pc = "done" /\ p.op = q.op /\ p.logged = q.logged
    BY <1>1, <2>1, FieldsOf
  <2> QED
    BY <1>1, <1>2, <2>1, <2>2 DEF PlaceInv, Early, Inside
<1> QED
  BY <1>4, <1>5, <1>6, <1>7, <1>8, <1>9, <1>10, <1>11, <1>12, <1>13, <1>14, <1>15
  DEF RequestStep

LEMMA PlacesInductive ==
  /\ Init => PlacesInv
  /\ TypeOK /\ PlacesInv /\ [Next]_vars => PlacesInv'
<1>1. Init => PlacesInv
  BY DEF Init, PlacesInv, PlaceInv, Early, Inside
<1>2. ASSUME TypeOK, PlacesInv, [Next]_vars PROVE PlacesInv'
  <2>1. ASSUME UNCHANGED <<cfg, req>>, \A l \in Listeners : lns'[l] = "serving" => lns[l] = "serving" \/ safetyCheck
        PROVE  PlacesInv'
    BY <1>2, <2>1 DEF PlacesInv, PlaceInv, safetyCheck
  <2>2. CASE UNCHANGED vars \/ Scrape
    BY <2>1, <2>2 DEF vars, Scrape
  <2>3. ASSUME MainStep PROVE PlacesInv'
    BY <2>1, <2>3 DEF MainStep, Refuse, ListenFails, Listen, ReceiveError, Return
  <2>4. ASSUME NEW l \in Listeners, ServeReturns(l) PROVE PlacesInv'
    BY <1>2, <2>1, <2>4 DEF ServeReturns, TypeOK
  <2>5. ASSUME NEW r \in Requests, NEW op \in {"check", "report", "revoke"}, NEW l \in Listeners,
               Arrive(r, op, l)
        PROVE  PlacesInv'
    <3>1. Becomes(r, [req[r] EXCEPT !.pc = "auth", !.op = op, !.via = l])
      BY <1>2, <2>5, ArriveEffect
    <3>2. req[r] \in Request /\ PlaceInv(r) /\ req[r].pc = "new" /\ safetyCheck /\ UNCHANGED <<cfg, lns>>
      BY <1>2, <2>5 DEF TypeOK, PlacesInv, Arrive, At
    <3>3. PlaceInv(r)'
      BY <3>1, <3>2 DEF PlaceInv, Becomes, Request, safetyCheck, Early, Inside
    <3>4. \A k \in Requests \ {r} : PlaceInv(k)'
      BY <1>2, <3>1, <3>2 DEF PlacesInv, PlaceInv, Becomes, safetyCheck
    <3> QED
      BY <1>2, <3>2, <3>3, <3>4 DEF PlacesInv, safetyCheck
  <2>6. ASSUME NEW r \in Requests, RequestStep(r) PROVE PlacesInv'
    <3>1. PlaceInv(r)'
      BY <1>2, <2>6, PlaceStep
    <3>2. UNCHANGED <<cfg, lns>> /\ \A k \in Requests \ {r} : req'[k] = req[k]
      BY <1>2, <2>6, StepOfOne
    <3>3. \A k \in Requests \ {r} : PlaceInv(k)'
      BY <1>2, <3>2 DEF PlacesInv, PlaceInv, safetyCheck
    <3> QED
      BY <1>2, <3>1, <3>2, <3>3 DEF PlacesInv, safetyCheck
  <2> QED
    BY <1>2, <2>2, <2>3, <2>4, <2>5, <2>6 DEF Next
<1> QED
  BY <1>1, <1>2

\* Requests from outside reach a handler with the token only.
THEOREM TokenRequired == Spec => []NoOpenWrites
<1>1. PlacesInv => NoOpenWrites
  BY DEF PlacesInv, PlaceInv, NoOpenWrites, Admitted, In, Inside
<1> QED
  BY <1>1, ServeTypeCorrect, PlacesInductive, PTL DEF Spec

\* Reports and revocations are in the access log whatever way they ended, unless
\* auth or gate turned them away.
THEOREM WritesAreLogged == Spec => []WritesLogged
<1>1. PlacesInv => WritesLogged
  BY DEF PlacesInv, PlaceInv, WritesLogged
<1> QED
  BY <1>1, ServeTypeCorrect, PlacesInductive, PTL DEF Spec

----------------------------------------------------------------------------
(* The way of a request *)

\* r goes on to another place, with or without an answer.
Moved(r, from, to) ==
  /\ req[r].pc = from /\ req'[r].pc = to
  /\ req'[r].op = req[r].op /\ req'[r].status = req[r].status

Answered(r, from, to, statuses) ==
  /\ req[r].pc = from /\ req'[r].pc = to
  /\ req'[r].op = req[r].op /\ req'[r].status \in statuses

\* A counter is one more.
Counted(name) == m' = [m EXCEPT ![name] = @ + 1]

\* All there is to a step of a request, as far as the metrics and the semaphore go.
Transition(r) ==
  \/ /\ UNCHANGED <<sem, m>>
     /\ \/ Moved(r, "auth", "gate")
        \/ Answered(r, "auth", "done", {401})
        \/ Answered(r, "gate", "done", {503})
        \/ Moved(r, "body", "count")
        \/ Answered(r, "body", "observe", Refusals)
        \/ Moved(r, "query", "errors")
        \/ Moved(r, "errors", "verdict") /\ req[r].op = "check"
        \/ Moved(r, "errors", "write") /\ req[r].op # "check"
        \/ Answered(r, "write", "observe", Results)
        \/ Moved(r, "log", "release")
  \/ /\ m' = m
     /\ \/ Moved(r, "gate", "body") /\ sem < maxConc /\ sem' = sem + 1
        \/ Moved(r, "release", "done") /\ sem' = sem - 1
  \/ /\ sem' = sem
     /\ \/ Moved(r, "count", "query") /\ Counted(req[r].op)
        \/ Moved(r, "errors", "errors") /\ Counted("error")
        \/ Moved(r, "verdict", "write") /\ \E v \in {"reject", "accept", "unknown"} : Counted(v)
        \/ Moved(r, "observe", "log") /\ Counted("count")

LEMMA Transitions ==
  ASSUME TypeOK, NEW r \in Requests, RequestStep(r)
  PROVE  Transition(r)
<1> DEFINE q == req[r]
           p == req'[r]
<1>1. q \in Request
  BY DEF TypeOK
<1>2. \A x : Becomes(r, x) => p = x
  BY DEF Becomes
<1> HIDE DEF p
<1>3. ASSUME NEW from, NEW to, q.pc = from, p = [q EXCEPT !.pc = to] PROVE Moved(r, from, to)
  BY <1>1, <1>3, FieldsOf DEF Moved, p
<1>4. ASSUME NEW from, NEW to, NEW statuses, NEW x \in statuses,
             q.pc = from, p = [q EXCEPT !.pc = to, !.status = x]
      PROVE  Answered(r, from, to, statuses)
  BY <1>1, <1>4, FieldsOf DEF Answered, p
<1>5. ASSUME NEW authorized \in BOOLEAN, auth(r, authorized) PROVE Transition(r)
  <2>1. UNCHANGED <<sem, m>>
    BY <1>5 DEF auth
  <2>2. CASE Becomes(r, [req[r] EXCEPT !.pc = "done", !.status = 401])
    <3>1. Answered(r, "auth", "done", {401})
      BY <1>2, <1>4, <1>5, <2>2, AuthEffect
    <3> QED
      BY <2>1, <3>1 DEF Transition
  <2>3. CASE Becomes(r, [req[r] EXCEPT !.pc = "gate", !.authorized = cfg.token /\ authorized])
    <3> DEFINE x == cfg.token /\ authorized
    <3>1. p.pc = "gate" /\ p.op = q.op /\ p.status = q.status
      <4>1. p = [q EXCEPT !.pc = "gate", !.authorized = x]
        BY <1>2, <2>3
      <4> HIDE DEF x
      <4> QED
        BY <1>1, <4>1, FieldsOf
    <3>2. Moved(r, "auth", "gate")
      BY <1>5, <3>1, AuthEffect DEF Moved, p
    <3> QED
      BY <2>1, <3>2 DEF Transition
  <2> QED
    BY <1>5, <2>2, <2>3, AuthEffect
<1>6. ASSUME gate(r) PROVE Transition(r)
  <2>1. m' = m /\ q.pc = "gate"
    BY <1>6, GateEffect DEF gate
  <2>2. CASE sem < maxConc /\ sem' = sem + 1 /\ Becomes(r, [req[r] EXCEPT !.pc = "body"])
    <3>1. Moved(r, "gate", "body")
      BY <1>2, <1>3, <2>1, <2>2
    <3> QED
      BY <2>1, <2>2, <3>1 DEF Transition
  <2>3. CASE sem' = sem /\ Becomes(r, [req[r] EXCEPT !.pc = "done", !.status = 503])
    <3>1. Answered(r, "gate", "done", {503})
      BY <1>2, <1>4, <2>1, <2>3
    <3> QED
      BY <2>1, <2>3, <3>1 DEF Transition
  <2> QED
    BY <1>6, <2>2, <2>3, GateEffect
<1>7. ASSUME NEW body \in {"ok", "notPost", "tooLarge", "broken"}, readBody(r, body) PROVE Transition(r)
  <2>1. UNCHANGED <<sem, m>> /\ q.pc = "body"
    <3>1. UNCHANGED <<sem, m>>
      BY <1>7 DEF readBody
    <3> QED
      BY <1>7, <3>1, BodyEffect
  <2>2. CASE Becomes(r, [req[r] EXCEPT !.pc = "count"])
    <3>1. Moved(r, "body", "count")
      BY <1>2, <1>3, <2>1, <2>2
    <3> QED
      BY <2>1, <3>1 DEF Transition
  <2>3. ASSUME NEW x \in Refusals, Becomes(r, [req[r] EXCEPT !.pc = "observe", !.status = x])
        PROVE  Transition(r)
    <3>1. Answered(r, "body", "observe", Refusals)
      BY <1>2, <1>4, <2>1, <2>3
    <3> QED
      BY <2>1, <3>1 DEF Transition
  <2> QED
    BY <1>7, <2>2, <2>3, BodyEffect
<1>8. ASSUME Count(r) PROVE Transition(r)
  <2>1. Moved(r, "count", "query")
    BY <1>2, <1>3, <1>8, CountEffect
  <2>2. q.op \in {"check", "report", "revoke"} /\ m \in Metrics
    BY <1>1 DEF Request, TypeOK
  <2>3. sem' = sem /\ Counted(q.op)
    BY <1>8, <2>2 DEF Count, Counted, Metrics
  <2> QED
    BY <2>1, <2>3 DEF Transition
<1>9. ASSUME NEW failed \in 0 .. NServers, NEW refused \in 0 .. NServers, NEW hit \in BOOLEAN,
             Query(r, failed, refused, hit)
      PROVE  Transition(r)
  <2>1. q.pc = "query" /\ \E a, h, e : p = Queried(q, a, h, e)
    BY <1>2, <1>9, QueryEffect
  <2>2. PICK a, h, e : p = Queried(q, a, h, e)
    BY <2>1
  <2>3. p.pc = "errors" /\ p.op = q.op /\ p.status = q.status
    BY <1>1, <2>2, FieldsOf DEF Queried
  <2>4. Moved(r, "query", "errors")
    BY <2>1, <2>3 DEF Moved, p
  <2> QED
    BY <1>9, <2>4 DEF Transition, Query
<1>10. ASSUME CountError(r) PROVE Transition(r)
  <2>1. q.pc = "errors" /\ \E e : p = [q EXCEPT !.errs = e]
    BY <1>2, <1>10, CountErrorEffect
  <2>2. PICK e : p = [q EXCEPT !.errs = e]
    BY <2>1
  <2>3. p.pc = q.pc /\ p.op = q.op /\ p.status = q.status
    BY <1>1, <2>2, FieldsOf
  <2>4. Moved(r, "errors", "errors")
    BY <2>1, <2>3 DEF Moved, p
  <2>5. sem' = sem /\ Counted("error")
    BY <1>10 DEF CountError, Counted
  <2> QED
    BY <2>4, <2>5 DEF Transition
<1>11. ASSUME ErrorsCounted(r) PROVE Transition(r)
  <2>1. UNCHANGED <<sem, m>> /\ q.pc = "errors"
    BY <1>11, ErrorsCountedEffect DEF ErrorsCounted
  <2>2. CASE q.op = "check" /\ Becomes(r, [req[r] EXCEPT !.pc = "verdict"])
    <3>1. Moved(r, "errors", "verdict")
      BY <1>2, <1>3, <2>1, <2>2
    <3> QED
      BY <2>1, <2>2, <3>1 DEF Transition
  <2>3. CASE q.op # "check" /\ Becomes(r, [req[r] EXCEPT !.pc = "write"])
    <3>1. Moved(r, "errors", "write")
      BY <1>2, <1>3, <2>1, <2>3
    <3> QED
      BY <2>1, <2>3, <3>1 DEF Transition
  <2> QED
    BY <1>11, <2>2, <2>3, ErrorsCountedEffect
<1>12. ASSUME verdictInc(r) PROVE Transition(r)
  <2>1. Moved(r, "verdict", "write")
    BY <1>2, <1>3, <1>12, VerdictEffect
  <2>2. sem' = sem /\ (Counted("reject") \/ Counted("accept") \/ Counted("unknown"))
    BY <1>12 DEF verdictInc, Counted
  <2> QED
    BY <2>1, <2>2 DEF Transition
<1>13. ASSUME writeJSON(r) PROVE Transition(r)
  <2>1. UNCHANGED <<sem, m>> /\ q.pc = "write"
    BY <1>13, WriteEffect DEF writeJSON
  <2>2. PICK x \in Results : Becomes(r, [req[r] EXCEPT !.pc = "observe", !.status = x])
    BY <1>13, WriteEffect
  <2>3. Answered(r, "write", "observe", Results)
    BY <1>2, <1>4, <2>1, <2>2
  <2> QED
    BY <2>1, <2>3 DEF Transition
<1>14. ASSUME observe(r) PROVE Transition(r)
  <2>1. Moved(r, "observe", "log")
    BY <1>2, <1>3, <1>14, ObserveEffect
  <2>2. sem' = sem /\ Counted("count")
    BY <1>14 DEF observe, Counted
  <2> QED
    BY <2>1, <2>2 DEF Transition
<1>15. ASSUME access(r) PROVE Transition(r)
  <2> DEFINE x == q.op # "check" \/ cfg.verbose
  <2>1. q.pc = "log" /\ p = [q EXCEPT !.pc = "release", !.logged = x]
    BY <1>2, <1>15, AccessEffect
  <2> HIDE DEF x
  <2>2. p.pc = "release" /\ p.op = q.op /\ p.status = q.status
    BY <1>1, <2>1, FieldsOf
  <2>3. Moved(r, "log", "release")
    BY <2>1, <2>2 DEF Moved, p
  <2> QED
    BY <1>15, <2>3 DEF Transition, access
<1>16. ASSUME Release(r) PROVE Transition(r)
  <2>1. Moved(r, "release", "done")
    BY <1>2, <1>3, <1>16, ReleaseEffect
  <2>2. m' = m /\ sem' = sem - 1
    BY <1>16 DEF Release
  <2> QED
    BY <2>1, <2>2 DEF Transition
<1> QED
  BY <1>5, <1>6, <1>7, <1>8, <1>9, <1>10, <1>11, <1>12, <1>13, <1>14, <1>15, <1>16
  DEF RequestStep

----------------------------------------------------------------------------
(* The limit *)

LimitInv == IsFiniteSet(Admitted) /\ InFlightBounded

\* Who is past the gate, when one request has moved.
LEMMA AdmittedOne ==
  ASSUME NEW r \in Requests, \A k \in Requests \ {r} : req'[k] = req[k]
  PROVE  /\ Admitted' \ {r} = Admitted \ {r}
         /\ r \in Admitted <=> req[r].pc \in Inside
         /\ r \in Admitted' <=> req'[r].pc \in Inside
BY DEF Admitted, In, Inside

LEMMA LimitStep ==
  ASSUME TypeOK, LimitInv, NEW r \in Requests, UNCHANGED cfg,
         \A k \in Requests \ {r} : req'[k] = req[k],
         sem' = sem + Bit(req'[r].pc \in Inside) - Bit(req[r].pc \in Inside),
         sem' > sem => sem < maxConc
  PROVE  LimitInv'
<1>1. /\ Admitted' \ {r} = Admitted \ {r}
      /\ r \in Admitted <=> req[r].pc \in Inside
      /\ r \in Admitted' <=> req'[r].pc \in Inside
  BY AdmittedOne
<1>2. IsFiniteSet(Admitted) /\ sem = Cardinality(Admitted) /\ sem <= maxConc /\ sem \in Int
  BY DEF LimitInv, InFlightBounded, TypeOK
<1>3. /\ IsFiniteSet(Admitted')
      /\ Cardinality(Admitted') = Cardinality(Admitted) + Bit(r \in Admitted') - Bit(r \in Admitted)
  BY <1>1, <1>2, OneElement
<1>4. maxConc' = maxConc /\ maxConc \in Int
  BY ServeAssumption DEF maxConc, TypeOK, Config
<1>5. sem' = Cardinality(Admitted')
  BY <1>1, <1>2, <1>3
<1>6. sem' <= maxConc
  BY <1>2, <1>4 DEF Bit
<1> QED
  BY <1>3, <1>4, <1>5, <1>6 DEF LimitInv, InFlightBounded

LEMMA LimitInductive ==
  /\ Init => LimitInv
  /\ TypeOK /\ LimitInv /\ [Next]_vars => LimitInv'
<1>1. ASSUME Init PROVE LimitInv
  <2>1. Admitted = {}
    BY <1>1 DEF Init, Admitted, In
  <2>2. sem = 0 /\ maxConc >= 0
    BY <1>1, ServeAssumption DEF Init, maxConc, Config
  <2> QED
    BY <2>1, <2>2, FS_EmptySet DEF LimitInv, InFlightBounded
<1>2. ASSUME TypeOK, LimitInv, [Next]_vars PROVE LimitInv'
  <2>1. ASSUME UNCHANGED <<cfg, req, sem>> PROVE LimitInv'
    BY <1>2, <2>1 DEF LimitInv, InFlightBounded, Admitted, In, maxConc
  <2>2. CASE UNCHANGED vars \/ Scrape
    BY <2>1, <2>2 DEF vars, Scrape
  <2>3. ASSUME MainStep PROVE LimitInv'
    BY <2>1, <2>3 DEF MainStep, Refuse, ListenFails, Listen, ReceiveError, Return
  <2>4. ASSUME NEW l \in Listeners, ServeReturns(l) PROVE LimitInv'
    BY <2>1, <2>4 DEF ServeReturns
  <2>5. sem \in Int
    BY <1>2 DEF TypeOK
  <2>6. ASSUME NEW r \in Requests, NEW op \in {"check", "report", "revoke"}, NEW l \in Listeners,
               Arrive(r, op, l)
        PROVE  LimitInv'
    <3>1. /\ \A k \in Requests \ {r} : req'[k] = req[k]
          /\ req'[r] = [req[r] EXCEPT !.pc = "auth", !.op = op, !.via = l] /\ req[r].pc = "new"
      <4>1. req[r].pc = "new" /\ Becomes(r, [req[r] EXCEPT !.pc = "auth", !.op = op, !.via = l])
        BY <1>2, <2>6, ArriveEffect
      <4> QED
        BY <4>1 DEF Becomes
    <3>2. req[r] \in Request /\ UNCHANGED <<cfg, sem>>
      BY <1>2, <2>6 DEF Arrive, TypeOK
    <3>3. req'[r].pc = "auth"
      BY <3>1, <3>2 DEF Request
    <3>4. sem' = sem + Bit(req'[r].pc \in Inside) - Bit(req[r].pc \in Inside)
      BY <2>5, <3>1, <3>2, <3>3 DEF Bit, Inside
    <3>5. ~(sem' > sem)
      BY <2>5, <3>2
    <3> QED
      BY <1>2, <3>1, <3>2, <3>4, <3>5, LimitStep
  <2>7. ASSUME NEW r \in Requests, RequestStep(r) PROVE LimitInv'
    <3>1. UNCHANGED cfg /\ \A k \in Requests \ {r} : req'[k] = req[k]
      BY <1>2, <2>7, StepOfOne
    <3>2. Transition(r)
      BY <1>2, <2>7, Transitions
    <3>3. /\ sem' = sem + Bit(req'[r].pc \in Inside) - Bit(req[r].pc \in Inside)
          /\ sem' > sem => sem < maxConc
      BY <2>5, <3>2 DEF Transition, Moved, Answered, Bit, Inside
    <3> QED
      BY <1>2, <3>1, <3>3, LimitStep
  <2> QED
    BY <1>2, <2>2, <2>3, <2>4, <2>6, <2>7 DEF Next
<1> QED
  BY <1>1, <1>2

\* Never more requests than the limit are inside, and no token is lost.
THEOREM InFlightIsBounded == Spec => []InFlightBounded
<1>1. LimitInv => InFlightBounded
  BY DEF LimitInv
<1> QED
  BY <1>1, ServeTypeCorrect, LimitInductive, PTL DEF Spec

----------------------------------------------------------------------------
(* The metrics *)

\* The requests each sum of counters stands for.
InPast(q) == q.pc \in {"query", "errors", "verdict"} /\ q.op = "check"
InOver(q) == q.pc \in {"log", "release", "done"} /\ q.status \notin {401, 503}
InEntered(q) == q.pc \in {"query", "errors", "verdict", "write"} \/ q.status \in Results

Past == {r \in Requests : InPast(req[r])}
Over == {r \in Requests : InOver(req[r])}
Entered == {r \in Requests : InEntered(req[r])}

MetricsInv ==
  /\ IsFiniteSet(Past) /\ m.check = m.reject + m.accept + m.unknown + Cardinality(Past)
  /\ IsFiniteSet(Over) /\ m.count = Cardinality(Over)
  /\ IsFiniteSet(Entered) /\ m.check + m.report + m.revoke = Cardinality(Entered)

LEMMA MetricsOne ==
  ASSUME NEW r \in Requests, \A k \in Requests \ {r} : req'[k] = req[k]
  PROVE  /\ Past' \ {r} = Past \ {r}
         /\ r \in Past <=> InPast(req[r])
         /\ r \in Past' <=> InPast(req'[r])
         /\ Over' \ {r} = Over \ {r}
         /\ r \in Over <=> InOver(req[r])
         /\ r \in Over' <=> InOver(req'[r])
         /\ Entered' \ {r} = Entered \ {r}
         /\ r \in Entered <=> InEntered(req[r])
         /\ r \in Entered' <=> InEntered(req'[r])
BY DEF Past, Over, Entered, InPast, InOver, InEntered

\* The counters change with the sets.
LEMMA MetricsFollow ==
  ASSUME TypeOK, PlacesInv, NEW r \in Requests, Transition(r)
  PROVE  /\ m'.check = m.check + (m'.reject - m.reject) + (m'.accept - m.accept)
                         + (m'.unknown - m.unknown)
                         + Bit(InPast(req'[r])) - Bit(InPast(req[r]))
         /\ m'.count = m.count + Bit(InOver(req'[r])) - Bit(InOver(req[r]))
         /\ m'.check + m'.report + m'.revoke =
              m.check + m.report + m.revoke + Bit(InEntered(req'[r])) - Bit(InEntered(req[r]))
<1> DEFINE q == req[r]
           p == req'[r]
           Goal(n) == /\ n.check = m.check + (n.reject - m.reject) + (n.accept - m.accept)
                                     + (n.unknown - m.unknown) + Bit(InPast(p)) - Bit(InPast(q))
                      /\ n.count = m.count + Bit(InOver(p)) - Bit(InOver(q))
                      /\ n.check + n.report + n.revoke =
                           m.check + m.report + m.revoke + Bit(InEntered(p)) - Bit(InEntered(q))
<1>1. m \in Metrics /\ q \in Request /\ PlaceInv(r)
  BY DEF TypeOK, PlacesInv
<1>2. /\ q.pc \in Early => q.status = 0
      /\ q.pc \in {"observe", "log", "release"} => q.status \in Results \cup Refusals
      /\ q.pc = "verdict" => q.op = "check"
  BY <1>1 DEF PlaceInv
<1>3. q.op \in {"check", "report", "revoke"}
  BY <1>1 DEF Request
<1> HIDE DEF p, q
<1>4. ASSUME m' = m, InPast(p) <=> InPast(q), InOver(p) <=> InOver(q), InEntered(p) <=> InEntered(q)
      PROVE  Goal(m')
  BY <1>1, <1>4 DEF Bit, Metrics
<1>5. ASSUME UNCHANGED <<sem, m>>,
             \/ Moved(r, "auth", "gate")
             \/ Answered(r, "auth", "done", {401})
             \/ Answered(r, "gate", "done", {503})
             \/ Moved(r, "body", "count")
             \/ Answered(r, "body", "observe", Refusals)
             \/ Moved(r, "query", "errors")
             \/ Moved(r, "errors", "verdict") /\ req[r].op = "check"
             \/ Moved(r, "errors", "write") /\ req[r].op # "check"
             \/ Answered(r, "write", "observe", Results)
             \/ Moved(r, "log", "release")
      PROVE  Goal(m')
  <2>1. InPast(p) <=> InPast(q)
    BY <1>5 DEF Moved, Answered, InPast, p, q
  <2>2. InOver(p) <=> InOver(q)
    BY <1>5 DEF Moved, Answered, InOver, p, q
  <2>3. InEntered(p) <=> InEntered(q)
    BY <1>2, <1>5 DEF Moved, Answered, InEntered, Early, Results, Refusals, p, q
  <2> QED
    BY <1>4, <1>5, <2>1, <2>2, <2>3
<1>6. ASSUME m' = m, Moved(r, "gate", "body") \/ Moved(r, "release", "done") PROVE Goal(m')
  <2>1. (InPast(p) <=> InPast(q)) /\ (InOver(p) <=> InOver(q)) /\ (InEntered(p) <=> InEntered(q))
    BY <1>6 DEF Moved, InPast, InOver, InEntered, p, q
  <2> QED
    BY <1>4, <1>6, <2>1
<1>7. ASSUME Moved(r, "count", "query"), Counted(req[r].op) PROVE Goal(m')
  <2>1. /\ InPast(p) <=> q.op = "check"
        /\ ~InPast(q) /\ ~InOver(p) /\ ~InOver(q) /\ InEntered(p) /\ ~InEntered(q)
    BY <1>2, <1>7 DEF Moved, InPast, InOver, InEntered, Early, Results, p, q
  <2>2. m' = [m EXCEPT ![q.op] = @ + 1]
    BY <1>7 DEF Counted, q
  <2> QED
    BY <1>1, <1>3, <2>1, <2>2 DEF Bit, Metrics
<1>8. ASSUME Moved(r, "errors", "errors"), Counted("error") PROVE Goal(m')
  <2>1. (InPast(p) <=> InPast(q)) /\ (InOver(p) <=> InOver(q)) /\ (InEntered(p) <=> InEntered(q))
    BY <1>8 DEF Moved, InPast, InOver, InEntered, p, q
  <2> QED
    BY <1>1, <1>8, <2>1 DEF Bit, Metrics, Counted
<1>9. ASSUME Moved(r, "verdict", "write"), NEW v \in {"reject", "accept", "unknown"}, Counted(v)
      PROVE  Goal(m')
  <2>1. InPast(q) /\ ~InPast(p) /\ ~InOver(p) /\ ~InOver(q) /\ InEntered(p) /\ InEntered(q)
    BY <1>2, <1>9 DEF Moved, InPast, InOver, InEntered, p, q
  <2> QED
    BY <1>1, <1>9, <2>1 DEF Bit, Metrics, Counted
<1>10. ASSUME Moved(r, "observe", "log"), Counted("count") PROVE Goal(m')
  <2>1. ~InPast(p) /\ ~InPast(q) /\ InOver(p) /\ ~InOver(q) /\ (InEntered(p) <=> InEntered(q))
    BY <1>2, <1>10 DEF Moved, InPast, InOver, InEntered, Results, Refusals, p, q
  <2> QED
    BY <1>1, <1>10, <2>1 DEF Bit, Metrics, Counted
<1>11. Goal(m')
  BY <1>5, <1>6, <1>7, <1>8, <1>9, <1>10 DEF Transition
<1> QED
  BY <1>11 DEF p, q

LEMMA MetricsStep ==
  ASSUME TypeOK, PlacesInv, MetricsInv, NEW r \in Requests, Transition(r), m' \in Metrics,
         \A k \in Requests \ {r} : req'[k] = req[k]
  PROVE  MetricsInv'
<1>1. /\ IsFiniteSet(Past')
      /\ Cardinality(Past) \in Nat /\ Cardinality(Past') \in Nat
      /\ Cardinality(Past') = Cardinality(Past) + Bit(InPast(req'[r])) - Bit(InPast(req[r]))
  <2>1. /\ Past' \ {r} = Past \ {r}
        /\ r \in Past <=> InPast(req[r])
        /\ r \in Past' <=> InPast(req'[r])
    BY MetricsOne
  <2>2. IsFiniteSet(Past)
    BY DEF MetricsInv
  <2>3. /\ IsFiniteSet(Past')
        /\ Cardinality(Past) \in Nat /\ Cardinality(Past') \in Nat
        /\ Cardinality(Past') = Cardinality(Past) + Bit(r \in Past') - Bit(r \in Past)
    BY <2>1, <2>2, OneElement
  <2> QED
    BY <2>1, <2>3 DEF Bit
<1>2. /\ IsFiniteSet(Over')
      /\ Cardinality(Over) \in Nat /\ Cardinality(Over') \in Nat
      /\ Cardinality(Over') = Cardinality(Over) + Bit(InOver(req'[r])) - Bit(InOver(req[r]))
  <2>1. /\ Over' \ {r} = Over \ {r}
        /\ r \in Over <=> InOver(req[r])
        /\ r \in Over' <=> InOver(req'[r])
    BY MetricsOne
  <2>2. IsFiniteSet(Over)
    BY DEF MetricsInv
  <2>3. /\ IsFiniteSet(Over')
        /\ Cardinality(Over) \in Nat /\ Cardinality(Over') \in Nat
        /\ Cardinality(Over') = Cardinality(Over) + Bit(r \in Over') - Bit(r \in Over)
    BY <2>1, <2>2, OneElement
  <2> QED
    BY <2>1, <2>3 DEF Bit
<1>3. /\ IsFiniteSet(Entered')
      /\ Cardinality(Entered) \in Nat /\ Cardinality(Entered') \in Nat
      /\ Cardinality(Entered') = Cardinality(Entered) + Bit(InEntered(req'[r])) - Bit(InEntered(req[r]))
  <2>1. /\ Entered' \ {r} = Entered \ {r}
        /\ r \in Entered <=> InEntered(req[r])
        /\ r \in Entered' <=> InEntered(req'[r])
    BY MetricsOne
  <2>2. IsFiniteSet(Entered)
    BY DEF MetricsInv
  <2>3. /\ IsFiniteSet(Entered')
        /\ Cardinality(Entered) \in Nat /\ Cardinality(Entered') \in Nat
        /\ Cardinality(Entered') = Cardinality(Entered) + Bit(r \in Entered') - Bit(r \in Entered)
    BY <2>1, <2>2, OneElement
  <2> QED
    BY <2>1, <2>3 DEF Bit
<1>4. \A x : Bit(x) \in Int
  BY DEF Bit
<1>5. \A n \in Metrics : /\ n.check \in Int /\ n.report \in Int /\ n.revoke \in Int /\ n.count \in Int
                         /\ n.reject \in Int /\ n.accept \in Int /\ n.unknown \in Int
  BY DEF Metrics
<1>6. m \in Metrics
  BY DEF TypeOK
<1>7. m'.check = m'.reject + m'.accept + m'.unknown + Cardinality(Past')
  BY <1>1, <1>4, <1>5, <1>6, MetricsFollow DEF MetricsInv
<1>8. m'.count = Cardinality(Over')
  BY <1>2, <1>4, <1>5, <1>6, MetricsFollow DEF MetricsInv
<1>9. m'.check + m'.report + m'.revoke = Cardinality(Entered')
  BY <1>3, <1>4, <1>5, <1>6, MetricsFollow DEF MetricsInv
<1> QED
  BY <1>1, <1>2, <1>3, <1>7, <1>8, <1>9 DEF MetricsInv

LEMMA MetricsInductive ==
  /\ Init => MetricsInv
  /\ TypeOK /\ PlacesInv /\ MetricsInv /\ [Next]_vars => MetricsInv'
<1>1. ASSUME Init PROVE MetricsInv
  <2>1. Past = {} /\ Over = {} /\ Entered = {}
    BY <1>1 DEF Init, Past, Over, Entered, InPast, InOver, InEntered, Results
  <2> QED
    BY <1>1, <2>1, FS_EmptySet DEF Init, MetricsInv
<1>2. ASSUME TypeOK, PlacesInv, MetricsInv, [Next]_vars PROVE MetricsInv'
  <2>1. ASSUME UNCHANGED <<req, m>> PROVE MetricsInv'
    BY <1>2, <2>1 DEF MetricsInv, Past, Over, Entered
  <2>2. CASE UNCHANGED vars \/ Scrape
    BY <2>1, <2>2 DEF vars, Scrape
  <2>3. ASSUME MainStep PROVE MetricsInv'
    BY <2>1, <2>3 DEF MainStep, Refuse, ListenFails, Listen, ReceiveError, Return
  <2>4. ASSUME NEW l \in Listeners, ServeReturns(l) PROVE MetricsInv'
    BY <2>1, <2>4 DEF ServeReturns
  <2>5. ASSUME NEW r \in Requests, NEW op \in {"check", "report", "revoke"}, NEW l \in Listeners,
               Arrive(r, op, l)
        PROVE  MetricsInv'
    <3>1. req[r].pc = "new" /\ Becomes(r, [req[r] EXCEPT !.pc = "auth", !.op = op, !.via = l])
      BY <1>2, <2>5, ArriveEffect
    <3>2. req[r] \in Request /\ UNCHANGED m /\ req[r].status = 0
      BY <1>2, <2>5, <3>1 DEF Arrive, TypeOK, PlacesInv, PlaceInv, Early
    <3>3. req'[r].pc = "auth" /\ req'[r].status = 0
      BY <3>1, <3>2 DEF Request, Becomes
    <3>4. \A k \in Requests \ {r} : req'[k] = req[k]
      BY <3>1 DEF Becomes
    <3>5. Past' = Past /\ Over' = Over /\ Entered' = Entered
      BY <3>1, <3>2, <3>3, <3>4 DEF Past, Over, Entered, InPast, InOver, InEntered, Results
    <3> QED
      BY <1>2, <3>2, <3>5 DEF MetricsInv
  <2>6. ASSUME NEW r \in Requests, RequestStep(r) PROVE MetricsInv'
    BY <1>2, <2>6, Transitions, StepOfOne, MetricsTyped, MetricsStep
  <2> QED
    BY <1>2, <2>2, <2>3, <2>4, <2>5, <2>6 DEF Next
<1> QED
  BY <1>1, <1>2

\* The totals, the verdicts and the histogram agree at every moment, up to the
\* requests on their way.
THEOREM MetricsAreRight == Spec => []MetricsAddUp
<1>1. PlacesInv /\ MetricsInv => MetricsAddUp
  <2> SUFFICES ASSUME PlacesInv, MetricsInv PROVE MetricsAddUp
    OBVIOUS
  <2>1. Past = {r \in In({"query", "errors", "verdict"}) : req[r].op = "check"}
    BY DEF Past, InPast, In
  <2>2. Over = {r \in In({"log", "release", "done"}) : req[r].status \notin {401, 503}}
    BY DEF Over, InOver, In
  <2>3. Entered = In({"query", "errors", "verdict", "write"})
                    \cup {r \in Requests : req[r].status \in {200, 502}}
    BY DEF Entered, InEntered, In, Results
  <2> QED
    BY <2>1, <2>2, <2>3 DEF MetricsInv, MetricsAddUp
<1> QED
  BY <1>1, ServeTypeCorrect, PlacesInductive, MetricsInductive, PTL DEF Spec

----------------------------------------------------------------------------
(* A scrape *)

\* What a scrape has read so far, against the counters as they are now.
ScrapeInv ==
  LET n == scrape.read
  IN /\ n = 0 => scrape.open = 0 /\ scrape.unseen = 0
     /\ n \in 1 .. 3 => scrape.open - m.reject - m.accept - m.unknown <= maxConc
     /\ n = 4 => scrape.open - m.accept - m.unknown <= maxConc
     /\ n = 5 => scrape.open - m.unknown <= maxConc
     /\ n \in 6 .. 7 => scrape.open <= maxConc
     /\ n = 1 => scrape.unseen <= m.check
     /\ n = 2 => scrape.unseen <= m.check + m.report
     /\ n \in 3 .. 6 => scrape.unseen - m.count <= maxConc
     /\ n = 7 => scrape.unseen <= maxConc

\* What is on its way is past the gate.
LEMMA OnTheWay ==
  ASSUME TypeOK, PlacesInv, LimitInv, MetricsInv
  PROVE  /\ m.check - m.reject - m.accept - m.unknown <= maxConc
         /\ m.check + m.report + m.revoke - m.count <= maxConc
         /\ maxConc \in Int
<1>1. maxConc \in Int
  BY ServeAssumption DEF maxConc, TypeOK, Config
<1>2. IsFiniteSet(Admitted) /\ Cardinality(Admitted) \in Nat /\ Cardinality(Admitted) <= maxConc
  BY FS_CardinalityType DEF LimitInv, InFlightBounded
<1>3. /\ IsFiniteSet(Past) /\ IsFiniteSet(Over) /\ IsFiniteSet(Entered)
      /\ Cardinality(Past) \in Nat /\ Cardinality(Over) \in Nat /\ Cardinality(Entered) \in Nat
  BY FS_CardinalityType DEF MetricsInv
<1>4. /\ m.check \in Int /\ m.report \in Int /\ m.revoke \in Int /\ m.count \in Int
      /\ m.reject \in Int /\ m.accept \in Int /\ m.unknown \in Int
  BY DEF TypeOK, Metrics
<1>5. Past \subseteq Admitted
  BY DEF Past, InPast, Admitted, In
<1>6. Cardinality(Past) <= Cardinality(Admitted)
  BY <1>2, <1>5, FS_Subset
<1>7. Entered \subseteq Admitted \cup Over
  <2> SUFFICES ASSUME NEW r \in Requests, InEntered(req[r]) PROVE r \in Admitted \cup Over
    BY DEF Entered
  <2>1. PlaceInv(r) /\ req[r] \in Request
    BY DEF PlacesInv, TypeOK
  <2>2. CASE req[r].pc \in {"query", "errors", "verdict", "write", "observe", "log", "release"}
    BY <2>2 DEF Admitted, In
  <2>3. CASE req[r].status \in Results /\ req[r].pc = "done"
    BY <2>3 DEF Over, InOver, Results
  <2>4. CASE req[r].status \in Results /\ req[r].pc \in Early
    BY <2>1, <2>4 DEF PlaceInv, Results
  <2>5. req[r].pc \in Early \cup {"observe", "log", "release", "done"}
    BY <2>1 DEF Request, Early
  <2> QED
    BY <2>2, <2>3, <2>4, <2>5 DEF InEntered
<1>8. /\ IsFiniteSet(Admitted \cup Over)
      /\ Cardinality(Admitted \cup Over) <= Cardinality(Admitted) + Cardinality(Over)
  <2>1. /\ IsFiniteSet(Admitted \cup Over)
        /\ Cardinality(Admitted \cup Over) =
             Cardinality(Admitted) + Cardinality(Over) - Cardinality(Admitted \cap Over)
    BY <1>2, <1>3, FS_Union
  <2>2. Cardinality(Admitted \cap Over) \in Nat
    BY <1>2, FS_Intersection, FS_CardinalityType
  <2> QED
    BY <1>2, <1>3, <2>1, <2>2
<1>9. Cardinality(Entered) <= Cardinality(Admitted \cup Over)
  BY <1>7, <1>8, FS_Subset
<1>10. Cardinality(Admitted \cup Over) \in Nat
  BY <1>8, FS_CardinalityType
<1>11. m.check - m.reject - m.accept - m.unknown <= maxConc
  BY <1>1, <1>2, <1>3, <1>4, <1>6 DEF MetricsInv
<1>12. m.check + m.report + m.revoke - m.count <= maxConc
  BY <1>1, <1>2, <1>3, <1>4, <1>8, <1>9, <1>10 DEF MetricsInv
<1> QED
  BY <1>1, <1>11, <1>12

LEMMA ScrapeInductive ==
  /\ Init => ScrapeInv
  /\ TypeOK /\ PlacesInv /\ LimitInv /\ MetricsInv /\ ScrapeInv /\ [Next]_vars => ScrapeInv'
<1>1. Init => ScrapeInv
  BY DEF Init, ScrapeInv
<1>2. ASSUME TypeOK, PlacesInv, LimitInv, MetricsInv, ScrapeInv, [Next]_vars PROVE ScrapeInv'
  <2> DEFINE n == scrape.read
  <2>1. /\ m.check \in Nat /\ m.report \in Nat /\ m.revoke \in Nat /\ m.count \in Nat
        /\ m.reject \in Nat /\ m.accept \in Nat /\ m.unknown \in Nat
    BY <1>2 DEF TypeOK, Metrics
  <2>2. n \in 0 .. 7 /\ scrape.open \in Int /\ scrape.unseen \in Int
    BY <1>2 DEF TypeOK, ScrapeOrder
  <2>3. /\ m.check - m.reject - m.accept - m.unknown <= maxConc
        /\ m.check + m.report + m.revoke - m.count <= maxConc
        /\ maxConc \in Int
    <3>1. TypeOK /\ PlacesInv /\ LimitInv /\ MetricsInv
      BY <1>2
    <3>2. m.check - m.reject - m.accept - m.unknown <= maxConc /\ maxConc \in Int
      BY <3>1, OnTheWay
    <3>3. m.check + m.report + m.revoke - m.count <= maxConc
      BY <3>1, OnTheWay
    <3> QED
      BY <3>2, <3>3
  <2>4. ASSUME UNCHANGED <<cfg, scrape, m>> PROVE ScrapeInv'
    BY <1>2, <2>4 DEF ScrapeInv, maxConc
  <2>5. CASE UNCHANGED vars
    BY <2>4, <2>5 DEF vars
  <2>6. ASSUME MainStep PROVE ScrapeInv'
    BY <2>4, <2>6 DEF MainStep, Refuse, ListenFails, Listen, ReceiveError, Return
  <2>7. ASSUME NEW l \in Listeners, ServeReturns(l) PROVE ScrapeInv'
    BY <2>4, <2>7 DEF ServeReturns
  <2>8. ASSUME NEW r \in Requests, NEW op \in {"check", "report", "revoke"}, NEW l \in Listeners,
               Arrive(r, op, l)
        PROVE  ScrapeInv'
    BY <2>4, <2>8 DEF Arrive
  <2>9. ASSUME NEW r \in Requests, RequestStep(r) PROVE ScrapeInv'
    <3>1. UNCHANGED <<cfg, scrape>> /\ Transition(r) /\ m \in Metrics
      BY <1>2, <2>9, StepOfOne, Transitions DEF TypeOK
    <3>2. req[r].op \in {"check", "report", "revoke"}
      BY <1>2 DEF TypeOK, Request
    <3>3. m' = m \/ \E c \in {"check", "report", "revoke", "error", "reject", "accept", "unknown", "count"} :
                      Counted(c)
      BY <3>1, <3>2 DEF Transition
    <3>4. /\ m'.check \in Nat /\ m'.report \in Nat /\ m'.count \in Nat
          /\ m'.reject \in Nat /\ m'.accept \in Nat /\ m'.unknown \in Nat
          /\ m.check <= m'.check /\ m.report <= m'.report /\ m.count <= m'.count
          /\ m.reject <= m'.reject /\ m.accept <= m'.accept /\ m.unknown <= m'.unknown
      BY <2>1, <3>1, <3>3 DEF Counted, Metrics
    <3>5. maxConc' = maxConc
      BY <3>1 DEF maxConc
    <3> QED
      BY <1>2, <2>1, <2>2, <2>3, <3>1, <3>4, <3>5 DEF ScrapeInv
  <2>10. ASSUME Scrape PROVE ScrapeInv'
    <3>1. /\ n \in 0 .. 6 /\ scrape'.read = n + 1 /\ UNCHANGED <<cfg, m>> /\ maxConc' = maxConc
      BY <2>2, <2>10 DEF Scrape, ScrapeOrder, maxConc
    <3>2. /\ n = 0 => scrape'.open = scrape.open + m.check /\ scrape'.unseen = scrape.unseen + m.check
          /\ n = 1 => scrape'.open = scrape.open /\ scrape'.unseen = scrape.unseen + m.report
          /\ n = 2 => scrape'.open = scrape.open /\ scrape'.unseen = scrape.unseen + m.revoke
          /\ n = 3 => scrape'.open = scrape.open - m.reject /\ scrape'.unseen = scrape.unseen
          /\ n = 4 => scrape'.open = scrape.open - m.accept /\ scrape'.unseen = scrape.unseen
          /\ n = 5 => scrape'.open = scrape.open - m.unknown /\ scrape'.unseen = scrape.unseen
          /\ n = 6 => scrape'.open = scrape.open /\ scrape'.unseen = scrape.unseen - m.count
      <4>1. /\ ScrapeOrder[1] = "check" /\ ScrapeOrder[2] = "report" /\ ScrapeOrder[3] = "revoke"
            /\ ScrapeOrder[4] = "reject" /\ ScrapeOrder[5] = "accept" /\ ScrapeOrder[6] = "unknown"
            /\ ScrapeOrder[7] = "count"
        BY DEF ScrapeOrder
      <4>2. ASSUME NEW k \in 0 .. 6, n = k
            PROVE  /\ scrape'.open =
                        CASE ScrapeOrder[k + 1] = "check" -> scrape.open + m.check
                          [] ScrapeOrder[k + 1] \in {"reject", "accept", "unknown"} ->
                               scrape.open - m[ScrapeOrder[k + 1]]
                          [] OTHER -> scrape.open
                   /\ scrape'.unseen =
                        CASE ScrapeOrder[k + 1] \in {"check", "report", "revoke"} ->
                               scrape.unseen + m[ScrapeOrder[k + 1]]
                          [] ScrapeOrder[k + 1] = "count" -> scrape.unseen - m.count
                          [] OTHER -> scrape.unseen
        BY <2>10, <4>2 DEF Scrape
      <4> QED
        BY <2>2, <4>1, <4>2
    <3>3. scrape'.open \in Int /\ scrape'.unseen \in Int
      BY <2>1, <2>2, <3>1, <3>2
    <3> QED
      BY <1>2, <2>1, <2>2, <2>3, <3>1, <3>2, <3>3 DEF ScrapeInv
  <2> QED
    BY <1>2, <2>5, <2>6, <2>7, <2>8, <2>9, <2>10 DEF Next
<1> QED
  BY <1>1, <1>2

\* What a scrape shows is never further apart than the requests in flight.
THEOREM ScrapesAreClose == Spec => []ScrapeMissesFew
<1>1. ScrapeInv => ScrapeMissesFew
  BY DEF ScrapeInv, ScrapeMissesFew, ScrapeOrder
<1> QED
  BY <1>1, ServeTypeCorrect, PlacesInductive, LimitInductive, MetricsInductive, ScrapeInductive, PTL
  DEF Spec

============================================================================
