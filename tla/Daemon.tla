------------------------------- MODULE Daemon -------------------------------
(***************************************************************************)
(* The daemon and the one pyzor client that its handlers share: Serve with *)
(* the client call of a handler no longer assumed but made, by PyzorClient.*)
(* A request whose body was read is a caller of the client; it goes on     *)
(* when queryAll has returned, with what the servers answered.             *)
(***************************************************************************)
EXTENDS Serve

CONSTANTS
  PyzorServers,   \* Client.Servers
  Endpoints,      \* bound: Endpoints[r] are those that request r may go to
  Digests, MaxFanout, Threads, Ports, Faults, InitCounters, MaxDeliveries,
  RCount, WLCount, NoDigest, NotNum, MaxInt  \* as in PyzorClient

VARIABLES
  call, tokens, wg, gor, results, ret,       \* the client (tokens: its sem),
  reqs, reps, db, handled, applied, start    \* the network and the servers

clientVars == <<call, tokens, wg, gor, results, ret, reqs, reps, db, handled, applied, start>>
daemonVars == <<vars, clientVars>>

\* What the handlers ask of the client.
Operations == [op : {"check", "report", "whitelist"}, dgst : Digests]

Client == INSTANCE PyzorClient WITH
            Servers <- PyzorServers, Calls <- Requests, Requests <- Operations,
            sem <- tokens

ASSUME DaemonAssumption ==
  /\ NServers = Len(PyzorServers)
  /\ Endpoints \in [Requests -> SUBSET {"check", "report", "revoke"}]

----------------------------------------------------------------------------
DaemonInit == Init /\ Client!Init

\* The handler counts the request and calls Check, Report or Whitelist.
CallClient(r) ==
  /\ Count(r)
  /\ \E d \in Digests :
       Client!Begin(r, [op |-> IF req[r].op = "revoke" THEN "whitelist" ELSE req[r].op,
                        dgst |-> d])

\* The call returns: the handler goes on with its outcome.
ClientReturns(r) ==
  /\ Client!Join(r)
  /\ LET failed == {i \in Client!Idx : results[r][i].err}
         refused == {i \in Client!Idx \ failed : results[r][i].code # 200}
     IN Query(r, Cardinality(failed), Cardinality(refused), ret'[r].hit)

\* The goroutines of a call, while the process lives.
ClientStep(r) ==
  /\ main.pc # "exit"
  /\ Client!Spawn(r) \/ \E i \in Client!Idx : Client!QueryStep(r, i)
  /\ UNCHANGED vars

HandlerStep(r) ==
  /\ \/ \E authorized \in BOOLEAN : auth(r, authorized)
     \/ gate(r)
     \/ \E body \in {"ok", "notPost", "tooLarge", "broken"} : readBody(r, body)
     \/ CountError(r)
     \/ ErrorsCounted(r)
     \/ verdictInc(r)
     \/ writeJSON(r)
     \/ observe(r)
     \/ access(r)
     \/ Release(r)
  /\ UNCHANGED clientVars

\* runServe and arrivals.  (Scrapes, which only read, are left to Serve.)
ServerStep ==
  /\ \/ MainStep
     \/ \E l \in Listeners : ServeReturns(l)
     \/ \E r \in Requests, l \in Listeners : \E op \in Endpoints[r] : Arrive(r, op, l)
  /\ UNCHANGED clientVars

PyzordStep ==
  /\ \E q \in reqs, f \in Faults : Client!Serve(q, f)
  /\ UNCHANGED vars

DaemonNext ==
  \/ ServerStep
  \/ \E r \in Requests : HandlerStep(r) \/ CallClient(r) \/ ClientReturns(r) \/ ClientStep(r)
  \/ PyzordStep

DaemonSpec == DaemonInit /\ [][DaemonNext]_daemonVars

(***************************************************************************)
(* The fairness of Serve without the return of the client call, and that   *)
(* of PyzorClient instead: goroutines run, and SetDeadline ends a Read.    *)
(***************************************************************************)
DaemonFairness ==
  /\ WF_daemonVars(MainStep /\ UNCHANGED clientVars)
  /\ \A l \in Listeners :
       WF_daemonVars(main.pc = "waiting" /\ ServeReturns(l) /\ UNCHANGED clientVars)
  /\ \A r \in Requests :
       /\ WF_daemonVars(HandlerStep(r) \/ CallClient(r) \/ ClientReturns(r))
       /\ WF_daemonVars(main.pc # "exit" /\ Client!Spawn(r) /\ UNCHANGED vars)
       /\ \A i \in Client!Idx :
            WF_daemonVars(main.pc # "exit" /\ Client!QueryStep(r, i) /\ UNCHANGED vars)

FairDaemonSpec == DaemonSpec /\ DaemonFairness

----------------------------------------------------------------------------
(***************************************************************************)
(* Whatever the pyzor servers do, the gate opens again: when the limit of  *)
(* requests in flight is reached, some request ends and gives its token    *)
(* back, or the daemon ends.  Nothing in a handler, a fan-out or a query   *)
(* waits for an answer that does not come (serve.go:102, client.go:337).   *)
(***************************************************************************)
GateReopens == sem = maxConc ~> sem < maxConc \/ main.pc = "exit"

(***************************************************************************)
(* What Serve assumes of the client call holds of this client: it returns, *)
(* with an outcome that the handlers know how to count, and a handler that *)
(* is at the call goes on.                                                 *)
(***************************************************************************)
ImplementsServe == FairSpec

============================================================================
