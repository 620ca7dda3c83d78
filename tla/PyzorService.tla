---------------------------- MODULE PyzorService ----------------------------
(***************************************************************************)
(* What the callers of one pyzor.Client may rely on, without goroutines,   *)
(* datagrams or replies: servers carry out requests at any moment after    *)
(* they were made, repeatedly or never, and a call that returns says what  *)
(* fits the counters the servers held between its beginning and its end.   *)
(***************************************************************************)
EXTENDS Integers, Sequences

CONSTANTS
  Servers, Calls, Digests, NoDigest,
  Requests,       \* the requests a caller may make
  RCount, WLCount \* the thresholds of Hit

VARIABLES
  db,       \* db[s][d]: the counters server s keeps for digest d
  phase,    \* phase[c]: "idle", "loop" while c runs, or "done"
  asked,    \* asked[c]: what c asked for
  from,     \* from[c]: db when c began
  done,     \* the pairs of a call and an entry of the list that was carried out
  answer,   \* answer[c]: what the call returned
  confused  \* replies to different queries can no longer be told apart

vars == <<db, phase, asked, from, done, answer, confused>>

Idx == 1 .. Len(Servers)

Counters == [r : Nat, wl : Nat]

Init ==
  /\ db \in [{Servers[i] : i \in Idx} -> [Digests -> Counters]]
  /\ phase = [c \in Calls |-> "idle"]
  /\ asked = [c \in Calls |-> [op |-> "ping", dgst |-> NoDigest]]
  /\ from = [c \in Calls |-> db]
  /\ done = {}
  /\ answer = [c \in Calls |-> [ok |-> FALSE, hit |-> FALSE]]
  /\ confused \in BOOLEAN

----------------------------------------------------------------------------
Begin(c) ==
  /\ phase[c] = "idle"
  /\ phase' = [phase EXCEPT ![c] = "loop"]
  /\ \E rq \in Requests : asked' = [asked EXCEPT ![c] = rq]
  /\ from' = [from EXCEPT ![c] = db]
  /\ UNCHANGED <<db, done, answer, confused>>

\* Server Servers[i] does what c asked for, once more perhaps, and perhaps after
\* c has returned.
CarryOut(c, i) ==
  LET s == Servers[i]
      d == asked[c].dgst
  IN /\ phase[c] # "idle"
     /\ done' = done \cup {<<c, i>>}
     /\ db' = CASE asked[c].op = "report" -> [db EXCEPT ![s][d].r = @ + 1]
                [] asked[c].op = "whitelist" -> [db EXCEPT ![s][d].wl = @ + 1]
                [] OTHER -> db
     /\ UNCHANGED <<phase, asked, from, answer, confused>>

\* The counters of the i-th server for c's digest: when c began, and now.
Old(c, i) == from[c][Servers[i]][asked[c].dgst]
New(c, i) == db[Servers[i]][asked[c].dgst]

\* Some counters between those make a hit, and some do not.
MayHit(c) ==
  /\ \A i \in Idx : Old(c, i).wl <= WLCount
  /\ \E i \in Idx : New(c, i).r > RCount

MayMiss(c) ==
  \/ \E i \in Idx : New(c, i).wl > WLCount
  \/ \A i \in Idx : Old(c, i).r <= RCount

\* What a call may return: nothing but "not ok" is free.
Justified(c, ans) ==
  /\ ans.hit => ans.ok /\ asked[c].op = "check"
  /\ ans.ok /\ ~confused =>
       IF asked[c].op = "check" THEN IF ans.hit THEN MayHit(c) ELSE MayMiss(c)
       ELSE \A i \in Idx : <<c, i>> \in done

Return(c) ==
  /\ phase[c] = "loop"
  /\ phase' = [phase EXCEPT ![c] = "done"]
  /\ \E ans \in [ok : BOOLEAN, hit : BOOLEAN] :
       /\ answer' = [answer EXCEPT ![c] = ans]
       /\ Justified(c, ans)
  /\ UNCHANGED <<db, asked, from, done, confused>>

\* Two queries drew the same thread id on the same port.
Confuse ==
  /\ ~confused /\ confused' = TRUE
  /\ UNCHANGED <<db, phase, asked, from, done, answer>>

Next ==
  \/ \E c \in Calls :
       \/ Begin(c)
       \/ \E i \in Idx : CarryOut(c, i)
       \/ Return(c)
  \/ Confuse

Spec == Init /\ [][Next]_vars

============================================================================
