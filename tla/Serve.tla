------------------------------- MODULE Serve -------------------------------
(***************************************************************************)
(* The HTTP daemon (cmd/gyzor/serve.go, metrics.go): runServe with its     *)
(* listeners and its end, and the requests to /check, /report and /revoke, *)
(* each in a goroutine of net/http that runs                               *)
(*     auth(gate(access(instrument(handler))))                             *)
(* and shares with the others the semaphore of gate and the metrics.       *)
(*                                                                         *)
(* net/http is external, and so is the call of the pyzor client here: it   *)
(* returns, with an outcome for each server (Daemon puts PyzorClient in    *)
(* its place).                                                             *)
(***************************************************************************)
EXTENDS Integers, FiniteSets, Sequences

CONSTANTS
  Configs,   \* the configurations serve may be started with
  Requests,  \* HTTP requests; each is sent at most once
  NServers   \* how many pyzor servers the client queries

Config == [token : BOOLEAN,    \* a shared secret is configured
           tcp : {"off", "loopback", "open"},  \* what --listen binds
           unix : BOOLEAN,     \* --unix is given
           maxConc : Int,      \* --max-concurrent
           verbose : BOOLEAN]

ASSUME ServeAssumption == Configs \subseteq Config /\ NServers \in Nat \ {0}

VARIABLES
  cfg,   \* the configuration
  main,  \* where runServe is, and the exit code
  lns,   \* lns[l]: the listener and the goroutine serving it
  errc,  \* the errors that Serve calls returned, not yet received
  sem,   \* tokens in the channel of gate
  req,   \* req[r]: where request r is
  m,     \* the metrics
  scrape \* a request to /metrics: how much it has read, and what that shows

vars == <<cfg, main, lns, errc, sem, req, m, scrape>>

----------------------------------------------------------------------------
Listeners == {"tcp", "unix"}

wanted == {l \in Listeners : IF l = "tcp" THEN cfg.tcp # "off" ELSE cfg.unix}

\* A value below 1 means 8.
maxConc == IF cfg.maxConc < 1 THEN 8 ELSE cfg.maxConc

\* Mutant of safetyCheck: every configuration will do.
safetyCheckNone == TRUE

\* safetyCheck: no token, no address but a loopback one.
safetyCheck == cfg.token \/ cfg.tcp # "open"

\* How a request looks to the handlers, and what becomes of it.
Request == [pc : {"new", "auth", "gate", "body", "count", "query", "errors", "verdict",
                  "write", "observe", "log", "release", "done"},
            op : {"check", "report", "revoke"}, via : Listeners, authorized : BOOLEAN,
            errs : 0 .. NServers, allOK : BOOLEAN, hit : BOOLEAN,
            status : {0, 200, 400, 401, 405, 413, 502, 503}, logged : BOOLEAN]

Metrics == [check : Nat, report : Nat, revoke : Nat, error : Nat,
            reject : Nat, accept : Nat, unknown : Nat, count : Nat]

Init ==
  /\ cfg \in Configs
  /\ main = [pc |-> "start", exit |-> 0]
  /\ lns = [l \in Listeners |-> "closed"]
  /\ errc = <<>>
  /\ sem = 0
  /\ req = [r \in Requests |->
              [pc |-> "new", op |-> "check", via |-> "tcp", authorized |-> FALSE,
               errs |-> 0, allOK |-> FALSE, hit |-> FALSE, status |-> 0, logged |-> FALSE]]
  /\ m = [check |-> 0, report |-> 0, revoke |-> 0, error |-> 0,
          reject |-> 0, accept |-> 0, unknown |-> 0, count |-> 0]
  /\ scrape = [read |-> 0, open |-> 0, unseen |-> 0]

----------------------------------------------------------------------------
Exit(code) == main' = [pc |-> "exit", exit |-> code]

\* The configuration is refused: unsafe, or nothing to listen on.
Refuse ==
  /\ main.pc = "start"
  /\ ~safetyCheck \/ wanted = {}
  /\ Exit(2)
  /\ UNCHANGED <<cfg, lns, errc, sem, req, m, scrape>>

\* net.Listen fails for one of the addresses.
ListenFails ==
  /\ main.pc = "start"
  /\ safetyCheck /\ wanted # {}
  /\ Exit(1)
  /\ UNCHANGED <<cfg, lns, errc, sem, req, m, scrape>>

\* All addresses are bound, and a goroutine serves each.
Listen ==
  /\ main.pc = "start"
  /\ safetyCheck /\ wanted # {}
  /\ main' = [main EXCEPT !.pc = "serving"]
  /\ lns' = [l \in Listeners |-> IF l \in wanted THEN "serving" ELSE "closed"]
  /\ UNCHANGED <<cfg, errc, sem, req, m, scrape>>

\* Mutant of ServeReturns: errc has no buffer, and is received from once.
ServeReturnsUnbuffered(l) ==
  /\ lns[l] = "serving" /\ main.pc = "serving"
  /\ errc = <<>>
  /\ lns' = [lns EXCEPT ![l] = "ended"]
  /\ errc' = Append(errc, "error")
  /\ UNCHANGED <<cfg, main, sem, req, m, scrape>>

\* srv.Serve(ln) returns: on an error of its own, or because of srv.Close.
\* errc has room for one error of each listener.
ServeReturns(l) ==
  /\ lns[l] = "serving" /\ main.pc # "exit"
  /\ Len(errc) < Cardinality(wanted)
  /\ lns' = [lns EXCEPT ![l] = "ended"]
  /\ errc' = Append(errc, IF main.pc = "waiting" THEN "ErrServerClosed" ELSE "error")
  /\ UNCHANGED <<cfg, main, sem, req, m, scrape>>

\* err := <-errc, then srv.Close.
ReceiveError ==
  /\ main.pc = "serving"
  /\ errc # <<>>
  /\ main' = [pc |-> "waiting", exit |-> IF Head(errc) = "ErrServerClosed" THEN 0 ELSE 1]
  /\ errc' = Tail(errc)
  /\ UNCHANGED <<cfg, lns, sem, req, m, scrape>>

\* wg.Wait returns, and so does runServe.
Return ==
  /\ main.pc = "waiting"
  /\ \A l \in wanted : lns[l] = "ended"
  /\ Exit(main.exit)
  /\ UNCHANGED <<cfg, lns, errc, sem, req, m, scrape>>

----------------------------------------------------------------------------
\* r's goroutine goes from one place to another, while the process lives.
At(r, pc) == main.pc # "exit" /\ req[r].pc = pc

Goto(r, pc) == req' = [req EXCEPT ![r].pc = pc]

\* The deferred and wrapping calls skip to the end with an answer.
Answer(r, pc, status) == req' = [req EXCEPT ![r].pc = pc, ![r].status = status]

Arrive(r, op, l) ==
  /\ At(r, "new")
  /\ lns[l] = "serving" /\ main.pc = "serving"
  /\ req' = [req EXCEPT ![r].pc = "auth", ![r].op = op, ![r].via = l]
  /\ UNCHANGED <<cfg, main, lns, errc, sem, m, scrape>>

\* authorized: the request's Authorization header is the secret.
auth(r, authorized) ==
  /\ At(r, "auth")
  /\ req' = IF cfg.token /\ ~authorized
            THEN [req EXCEPT ![r].pc = "done", ![r].status = 401]
            ELSE [req EXCEPT ![r].pc = "gate", ![r].authorized = cfg.token /\ authorized]
  /\ UNCHANGED <<cfg, main, lns, errc, sem, m, scrape>>

\* Mutant of gate: one token too many.
gateOffByOne(r) ==
  /\ At(r, "gate")
  /\ IF sem <= maxConc
     THEN /\ sem' = sem + 1
          /\ Goto(r, "body")
     ELSE /\ Answer(r, "done", 503)
          /\ UNCHANGED sem
  /\ UNCHANGED <<cfg, main, lns, errc, m, scrape>>

\* gate takes a token if there is one, and does not wait for one.
gate(r) ==
  /\ At(r, "gate")
  /\ IF sem < maxConc
     THEN /\ sem' = sem + 1
          /\ Goto(r, "body")
     ELSE /\ Answer(r, "done", 503)
          /\ UNCHANGED sem
  /\ UNCHANGED <<cfg, main, lns, errc, m, scrape>>

\* Mutant of readBody: an error ends the request without the wrappers.
readBodyLeaks(r, body) ==
  /\ At(r, "body")
  /\ IF body = "ok" THEN Goto(r, "count") ELSE Answer(r, "done", 400)
  /\ UNCHANGED <<cfg, main, lns, errc, sem, m, scrape>>

\* The body as it turns out to be.  On an error the handler is over, but not the
\* wrappers around it.
readBody(r, body) ==
  /\ At(r, "body")
  /\ CASE body = "ok" -> Goto(r, "count")
       [] body = "notPost" -> Answer(r, "observe", 405)
       [] body = "tooLarge" -> Answer(r, "observe", 413)
       [] body = "broken" -> Answer(r, "observe", 400)
  /\ UNCHANGED <<cfg, main, lns, errc, sem, m, scrape>>

\* m.inc of the operation's total.
Count(r) ==
  /\ At(r, "count")
  /\ m' = CASE req[r].op = "check" -> [m EXCEPT !.check = @ + 1]
            [] req[r].op = "report" -> [m EXCEPT !.report = @ + 1]
            [] req[r].op = "revoke" -> [m EXCEPT !.revoke = @ + 1]
  /\ Goto(r, "query")
  /\ UNCHANGED <<cfg, main, lns, errc, sem, scrape>>

\* The client call returns.  failed servers gave an error, refused ones a code
\* other than 200; a hit needs neither.  errs is how often errorTotal is to grow.
Query(r, failed, refused, hit) ==
  /\ At(r, "query")
  /\ failed + refused <= NServers
  /\ LET allOK == failed + refused = 0
     IN /\ hit => allOK /\ req[r].op = "check"
        /\ req' = [req EXCEPT
             ![r].pc = "errors", ![r].allOK = allOK, ![r].hit = hit,
             ![r].errs = IF req[r].op = "check" THEN failed ELSE IF allOK THEN 0 ELSE 1]
  /\ UNCHANGED <<cfg, main, lns, errc, sem, m, scrape>>

\* Mutant of CountError: no end to the loop.
CountErrorAlways(r) ==
  /\ At(r, "errors")
  /\ m' = [m EXCEPT !.error = @ + 1]
  /\ req' = [req EXCEPT ![r].errs = @ - 1]
  /\ UNCHANGED <<cfg, main, lns, errc, sem, scrape>>

\* m.inc(&m.errorTotal), for each failed server or once.
CountError(r) ==
  /\ At(r, "errors")
  /\ req[r].errs > 0
  /\ m' = [m EXCEPT !.error = @ + 1]
  /\ req' = [req EXCEPT ![r].errs = @ - 1]
  /\ UNCHANGED <<cfg, main, lns, errc, sem, scrape>>

ErrorsCounted(r) ==
  /\ At(r, "errors")
  /\ req[r].errs = 0
  /\ Goto(r, IF req[r].op = "check" THEN "verdict" ELSE "write")
  /\ UNCHANGED <<cfg, main, lns, errc, sem, m, scrape>>

\* Mutant of verdictInc: no case for unknown.
verdictIncKnown(r) ==
  /\ At(r, "verdict")
  /\ m' = IF req[r].hit THEN [m EXCEPT !.reject = @ + 1]
          ELSE IF req[r].allOK THEN [m EXCEPT !.accept = @ + 1] ELSE m
  /\ Goto(r, "write")
  /\ UNCHANGED <<cfg, main, lns, errc, sem, scrape>>

\* verdictInc of a check.
verdictInc(r) ==
  /\ At(r, "verdict")
  /\ m' = IF ~req[r].allOK THEN [m EXCEPT !.unknown = @ + 1]
          ELSE IF req[r].hit THEN [m EXCEPT !.reject = @ + 1]
          ELSE [m EXCEPT !.accept = @ + 1]
  /\ Goto(r, "write")
  /\ UNCHANGED <<cfg, main, lns, errc, sem, scrape>>

writeJSON(r) ==
  /\ At(r, "write")
  /\ Answer(r, "observe", IF req[r].allOK THEN 200 ELSE 502)
  /\ UNCHANGED <<cfg, main, lns, errc, sem, m, scrape>>

\* instrument, after the handler.
observe(r) ==
  /\ At(r, "observe")
  /\ m' = [m EXCEPT !.count = @ + 1]
  /\ Goto(r, "log")
  /\ UNCHANGED <<cfg, main, lns, errc, sem, scrape>>

\* access, after instrument.
access(r) ==
  /\ At(r, "log")
  /\ req' = [req EXCEPT ![r].pc = "release", ![r].logged = req[r].op # "check" \/ cfg.verbose]
  /\ UNCHANGED <<cfg, main, lns, errc, sem, m, scrape>>

\* The deferred <-sem of gate.
Release(r) ==
  /\ At(r, "release")
  /\ sem' = sem - 1
  /\ Goto(r, "done")
  /\ UNCHANGED <<cfg, main, lns, errc, m, scrape>>

----------------------------------------------------------------------------
\* Mutant of ScrapeOrder: the verdicts before the totals.
ScrapeOrderSwapped == <<"reject", "accept", "unknown", "check", "report", "revoke", "count">>

\* The order in which ServeHTTP of the metrics reads them; the histogram, under
\* its mutex, comes last.  (The errors are read too, and compared with nothing.)
ScrapeOrder == <<"check", "report", "revoke", "reject", "accept", "unknown", "count">>

\* ServeHTTP reads the next value; the first one when a scrape arrives.  Of the
\* values two differences are kept: the checks without a verdict, and the
\* requests that are not in the histogram.  (Bound: there is one scrape.)
Scrape ==
  /\ scrape.read < Len(ScrapeOrder) /\ main.pc # "exit"
  /\ scrape.read = 0 => main.pc = "serving" /\ \E l \in Listeners : lns[l] = "serving"
  /\ LET next == ScrapeOrder[scrape.read + 1]
         total == next \in {"check", "report", "revoke"}
     IN scrape' = [read   |-> scrape.read + 1,
                   open   |-> CASE next = "check" -> scrape.open + m.check
                                [] next \in {"reject", "accept", "unknown"} -> scrape.open - m[next]
                                [] OTHER -> scrape.open,
                   unseen |-> CASE total -> scrape.unseen + m[next]
                                [] next = "count" -> scrape.unseen - m.count
                                [] OTHER -> scrape.unseen]
  /\ UNCHANGED <<cfg, main, lns, errc, sem, req, m>>

RequestStep(r) ==
  \/ \E authorized \in BOOLEAN : auth(r, authorized)
  \/ gate(r)
  \/ \E body \in {"ok", "notPost", "tooLarge", "broken"} : readBody(r, body)
  \/ Count(r)
  \/ \E failed, refused \in 0 .. NServers, hit \in BOOLEAN : Query(r, failed, refused, hit)
  \/ CountError(r)
  \/ ErrorsCounted(r)
  \/ verdictInc(r)
  \/ writeJSON(r)
  \/ observe(r)
  \/ access(r)
  \/ Release(r)

MainStep ==
  \/ Refuse
  \/ ListenFails
  \/ Listen
  \/ ReceiveError
  \/ Return

Next ==
  \/ MainStep
  \/ \E l \in Listeners : ServeReturns(l)
  \/ \E r \in Requests, op \in {"check", "report", "revoke"}, l \in Listeners : Arrive(r, op, l)
  \/ \E r \in Requests : RequestStep(r)
  \/ Scrape

Spec == Init /\ [][Next]_vars

\* The scheduler runs every goroutine, the client call returns, and srv.Close
\* makes the Serve calls that are left return.  Nothing else is due.
Fairness ==
  /\ WF_vars(MainStep)
  /\ \A r \in Requests : WF_vars(RequestStep(r))
  /\ \A l \in Listeners : WF_vars(main.pc = "waiting" /\ ServeReturns(l))

FairSpec == Spec /\ Fairness

----------------------------------------------------------------------------
\* Type correctness of the daemon.
TypeOK ==
  /\ cfg \in Configs
  /\ main \in [pc : {"start", "serving", "waiting", "exit"}, exit : 0 .. 2]
  /\ lns \in [Listeners -> {"closed", "serving", "ended"}]
  /\ errc \in Seq({"error", "ErrServerClosed"})
  /\ sem \in Int
  /\ req \in [Requests -> Request]
  /\ m \in Metrics
  /\ scrape \in [read : 0 .. Len(ScrapeOrder), open : Int, unseen : Int]

\* The requests that are at one of the places pcs.
In(pcs) == {r \in Requests : req[r].pc \in pcs}

\* Past the gate, its token not yet given back.
Admitted == In({"body", "count", "query", "errors", "verdict", "write", "observe", "log", "release"})

(***************************************************************************)
(* "bounds in-flight requests" (README.md:144): never more than the limit  *)
(* are between gate and its deferred release, so never more than that many *)
(* fan-outs run, and a request is turned away as busy only when the limit  *)
(* is reached: no way out of the handlers loses a token.                   *)
(***************************************************************************)
InFlightBounded == sem = Cardinality(Admitted) /\ sem <= maxConc

(***************************************************************************)
(* The metrics add up, however the requests interleave: every counted      *)
(* check has a verdict or is on its way to one, the latency histogram has  *)
(* an observation for every request past the gate that has been handled,   *)
(* and the totals count those whose body was read.                         *)
(***************************************************************************)
MetricsAddUp ==
  LET past(op) == {r \in In({"query", "errors", "verdict"}) : req[r].op = op}
      over == {r \in In({"log", "release", "done"}) : req[r].status \notin {401, 503}}
  IN /\ m.check = m.reject + m.accept + m.unknown + Cardinality(past("check"))
     /\ m.count = Cardinality(over)
     /\ m.check + m.report + m.revoke =
          Cardinality(In({"query", "errors", "verdict", "write"})
                        \cup {r \in Requests : req[r].status \in {200, 502}})

(***************************************************************************)
(* A scrape reads the metrics one after the other while requests go on     *)
(* (metrics.go:76), so its numbers belong to different moments.  Because   *)
(* totals are read before what comes of them, no more requests are missing *)
(* among the verdicts or in the histogram than may be in flight.           *)
(***************************************************************************)
ScrapeMissesFew ==
  scrape.read = Len(ScrapeOrder) => scrape.open <= maxConc /\ scrape.unseen <= maxConc

(***************************************************************************)
(* Safe by default (README.md:143): a request that came in through an      *)
(* address other than loopback reaches a handler only with the token.      *)
(***************************************************************************)
NoOpenWrites ==
  \A r \in Admitted : req[r].via = "tcp" /\ cfg.tcp = "open" => req[r].authorized

\* When one listener fails, the daemon does not linger on the other, and ends with
\* an exit code that tells a supervisor of the failure.
FailureEndsServe ==
  (\E l \in Listeners : lns[l] = "ended") ~> main.pc = "exit" /\ main.exit # 0

(***************************************************************************)
(* "/report+/revoke access logged always" (README.md:91): on every way out *)
(* of the handlers, good or bad.  Requests that auth or gate turn away do  *)
(* not get as far as the access log, whatever that line says.              *)
(***************************************************************************)
WritesLogged ==
  \A r \in Requests :
    req[r].pc = "done" /\ req[r].op # "check" /\ req[r].status \notin {401, 503} => req[r].logged

============================================================================
