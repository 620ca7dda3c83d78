----------------------------- MODULE AddrCache -----------------------------
(***************************************************************************)
(* The resolved-address cache of pyzor.Client: resolve and invalidateAddr  *)
(* (pyzor/client.go:74-102) as query uses them (client.go:337-358), called *)
(* by any number of goroutines.  The mutex is held only around the two map *)
(* accesses, so a lookup, the resolution and the store are separate steps  *)
(* and others run between them.                                            *)
(*                                                                         *)
(* The name service is external: a host has one current address, a number  *)
(* that grows when the host is renumbered.  The clock is Go's monotonic    *)
(* one; it advances between any two steps.                                 *)
(***************************************************************************)
EXTENDS Integers, Functions

CONSTANTS
  Hosts,       \* the keys host:port of the servers
  Queries,     \* the goroutines running query
  TTL,         \* addrTTL
  MaxTime,     \* bound: the clock stops here
  MaxRenumber, \* bound: how often one host changes its address
  MaxFailures  \* bound: how many dials or sends to one host fail

ASSUME AddrAssumption ==
  /\ Hosts # {}
  /\ TTL \in Nat \ {0} /\ {MaxTime, MaxRenumber, MaxFailures} \subseteq Nat

VARIABLES
  clock,    \* time.Now
  retired,  \* retired[h][a]: when host h gave up its a-th address
  current,  \* current[h]: the present address of h
  cache,    \* addrCache: host -> address, expiry, and the epoch of its resolution
  epoch,    \* epoch[h]: how many failures have invalidated h (history)
  settled,  \* settled[h]: the last of them that found no address about to be stored
  q         \* q[x]: the state of goroutine x inside query

vars == <<clock, retired, current, cache, epoch, settled, q>>

----------------------------------------------------------------------------
Address == 0 .. MaxRenumber

\* An address not yet given up.
InUse == -1

Entry == [addr : Address, exp : Int, epoch : Nat]

\* now is the local variable of resolve, began what was settled then.
Query == [pc : {"idle", "lookup", "resolve", "save", "dial", "sent", "failed"},
          host : Hosts, now : Nat, began : Nat, addr : Address, epoch : Nat]

Cached(h) == h \in DOMAIN cache

Init ==
  /\ clock = 0
  /\ retired = [h \in Hosts |-> [a \in Address |-> InUse]]
  /\ current = [h \in Hosts |-> 0]
  /\ cache = [h \in {} |-> 0]
  /\ epoch = [h \in Hosts |-> 0]
  /\ settled = [h \in Hosts |-> 0]
  /\ q = [x \in Queries |->
            [pc |-> "idle", host |-> CHOOSE h \in Hosts : TRUE, now |-> 0,
             began |-> 0, addr |-> 0, epoch |-> 0]]

Tick ==
  /\ clock < MaxTime
  /\ clock' = clock + 1
  /\ UNCHANGED <<retired, current, cache, epoch, settled, q>>

\* External: host h moves to a new address.
Renumber(h) ==
  /\ current[h] < MaxRenumber
  /\ current' = [current EXCEPT ![h] = @ + 1]
  /\ retired' = [retired EXCEPT ![h][current[h]] = clock]
  /\ UNCHANGED <<clock, cache, epoch, settled, q>>

----------------------------------------------------------------------------
\* Mutant of Start: the clock is read a tick late.
StartBehind(x, h) ==
  /\ q[x].pc \in {"idle", "failed"}
  /\ q' = [q EXCEPT ![x].pc = "lookup", ![x].host = h, ![x].now = clock - 1, ![x].began = settled[h]]
  /\ UNCHANGED <<clock, retired, current, cache, epoch, settled>>

\* resolve starts: now := time.Now().
Start(x, h) ==
  /\ q[x].pc \in {"idle", "failed"}
  /\ q' = [q EXCEPT ![x].pc = "lookup", ![x].host = h, ![x].now = clock, ![x].began = settled[h]]
  /\ UNCHANGED <<clock, retired, current, cache, epoch, settled>>

\* The first critical section: a live entry is used, anything else is not.
Lookup(x) ==
  /\ q[x].pc = "lookup"
  /\ LET h == q[x].host
         live == Cached(h) /\ q[x].now < cache[h].exp
     IN q' = IF live
             THEN [q EXCEPT ![x].pc = "dial", ![x].addr = cache[h].addr, ![x].epoch = cache[h].epoch]
             ELSE [q EXCEPT ![x].pc = "resolve"]
  /\ UNCHANGED <<clock, retired, current, cache, epoch, settled>>

\* ResolveUDPAddr obtained the host's address.
Resolve(x) ==
  /\ q[x].pc = "resolve"
  /\ q' = [q EXCEPT ![x].pc = "save", ![x].addr = current[q[x].host], ![x].epoch = epoch[q[x].host]]
  /\ UNCHANGED <<clock, retired, current, cache, epoch, settled>>

\* ResolveUDPAddr failed: query returns, nothing is cached.
ResolveFails(x) ==
  /\ q[x].pc = "resolve"
  /\ q' = [q EXCEPT ![x].pc = "failed"]
  /\ UNCHANGED <<clock, retired, current, cache, epoch, settled>>

\* Mutant of NewEntry: the TTL counts from the store, not from the call.
NewEntryLate(x) == [addr |-> q[x].addr, exp |-> clock + TTL, epoch |-> q[x].epoch]

\* The entry resolve stores: it expires addrTTL after the call began.
NewEntry(x) == [addr |-> q[x].addr, exp |-> q[x].now + TTL, epoch |-> q[x].epoch]

\* The second critical section.
Save(x) ==
  /\ q[x].pc = "save"
  /\ cache' = [h \in DOMAIN cache \cup {q[x].host} |->
                 IF h = q[x].host THEN NewEntry(x) ELSE cache[h]]
  /\ q' = [q EXCEPT ![x].pc = "dial"]
  /\ UNCHANGED <<clock, retired, current, epoch, settled>>

----------------------------------------------------------------------------
\* DialUDP and conn.Write succeeded.
Sent(x) ==
  /\ q[x].pc = "dial"
  /\ q' = [q EXCEPT ![x].pc = "sent"]
  /\ UNCHANGED <<clock, retired, current, cache, epoch, settled>>

\* Another goroutine has resolved h and not stored the address yet.
Pending(x, h) == \E y \in Queries \ {x} : q[y].pc = "save" /\ q[y].host = h

\* The failure of x is one more, and settles its host unless one is pending.
Fail(x) ==
  LET h == q[x].host
  IN /\ epoch[h] < MaxFailures
     /\ epoch' = [epoch EXCEPT ![h] = @ + 1]
     /\ settled' = IF Pending(x, h) THEN settled ELSE [settled EXCEPT ![h] = epoch[h] + 1]
     /\ q' = [q EXCEPT ![x].pc = "failed"]

\* invalidateAddr, the third critical section.
invalidateAddr(h) == cache' = Restrict(cache, DOMAIN cache \ {h})

\* Mutant of SendFails: the entry stays.
SendFailsKeeps(x) ==
  /\ q[x].pc = "dial"
  /\ Fail(x)
  /\ UNCHANGED <<clock, retired, current, cache>>

\* DialUDP or conn.Write failed: invalidateAddr, and query returns.
SendFails(x) ==
  /\ q[x].pc = "dial"
  /\ invalidateAddr(q[x].host)
  /\ Fail(x)
  /\ UNCHANGED <<clock, retired, current>>

\* conn.Read failed: query returns, and leaves the cache alone.
ReadFails(x) ==
  /\ q[x].pc = "sent"
  /\ q' = [q EXCEPT ![x].pc = "failed"]
  /\ UNCHANGED <<clock, retired, current, cache, epoch, settled>>

\* conn.Read returned a datagram.
Answered(x) ==
  /\ q[x].pc = "sent"
  /\ q' = [q EXCEPT ![x].pc = "idle"]
  /\ UNCHANGED <<clock, retired, current, cache, epoch, settled>>

----------------------------------------------------------------------------
QueryStep(x) ==
  \/ \E h \in Hosts : Start(x, h)
  \/ Lookup(x)
  \/ Resolve(x)
  \/ ResolveFails(x)
  \/ Save(x)
  \/ Sent(x)
  \/ SendFails(x)
  \/ ReadFails(x)
  \/ Answered(x)

Next ==
  \/ Tick
  \/ \E h \in Hosts : Renumber(h)
  \/ \E x \in Queries : QueryStep(x)

Spec == Init /\ [][Next]_vars

----------------------------------------------------------------------------
\* Type correctness of the name service, the cache and the queries.
TypeOK ==
  /\ clock \in Nat
  /\ retired \in [Hosts -> [Address -> Nat \cup {InUse}]]
  /\ current \in [Hosts -> Address]
  /\ DOMAIN cache \subseteq Hosts
  /\ \A h \in DOMAIN cache : cache[h] \in Entry
  /\ epoch \in [Hosts -> Nat]
  /\ settled \in [Hosts -> Nat]
  /\ q \in [Queries -> Query]

\* Host h still had address a at time t, or got it later.
HeldAt(h, a, t) == a <= current[h] /\ (retired[h][a] = InUse \/ retired[h][a] >= t)

(***************************************************************************)
(* Bounded staleness.  The address a query sends to was an address of the  *)
(* server less than addrTTL before that query called resolve: however long *)
(* other goroutines take between resolving and storing, a cached address   *)
(* is never used for longer than the TTL after it was right.               *)
(***************************************************************************)
BoundedStaleness ==
  \A x \in Queries :
    q[x].pc \in {"dial", "sent"} => HeldAt(q[x].host, q[x].addr, q[x].now - TTL + 1)

(***************************************************************************)
(* "re-resolve next time instead of waiting out the TTL" (client.go:343,   *)
(* beside invalidateAddr): a query that begins after a dial or send to a   *)
(* server failed uses an address resolved after that failure.  It takes    *)
(* that no goroutine was between resolving that server and storing the     *)
(* address when it failed: such a goroutine puts the old address back.     *)
(***************************************************************************)
ReResolvesAfterFailure ==
  \A x \in Queries : q[x].pc \in {"dial", "sent"} => q[x].began <= q[x].epoch

\* "invalidateAddr drops a cached address after an I/O failure"
\* (client.go:97): when query gives up on a server, its address is not kept.
FailureDropsAddress ==
  [][\A x \in Queries :
       q[x].pc \in {"dial", "sent"} /\ q'[x].pc = "failed" => q[x].host \notin DOMAIN cache']_vars

============================================================================
