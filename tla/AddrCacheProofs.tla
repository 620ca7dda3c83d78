-------------------------- MODULE AddrCacheProofs --------------------------
(***************************************************************************)
(* The address cache, for any hosts, goroutines and TTL, and whatever the  *)
(* bounds on the clock, on renumberings and on failures are: types, how    *)
(* old a cached address may be, and what a failure achieves.               *)
(***************************************************************************)
EXTENDS AddrCache, TLAPS

----------------------------------------------------------------------------
(* Types *)

LEMMA CacheTyped ==
  ASSUME TypeOK, NEW x \in Queries, Save(x)
  PROVE  /\ DOMAIN cache' = DOMAIN cache \cup {q[x].host}
         /\ DOMAIN cache' \subseteq Hosts
         /\ cache'[q[x].host] = NewEntry(x) /\ NewEntry(x) \in Entry
         /\ \A h \in DOMAIN cache \ {q[x].host} : cache'[h] = cache[h]
<1>1. q[x] \in Query
  BY DEF TypeOK
<1>2. NewEntry(x) \in Entry
  BY <1>1, AddrAssumption DEF NewEntry, Entry, Query
<1> QED
  BY <1>1, <1>2 DEF Save, TypeOK, Query

LEMMA Invalidated ==
  ASSUME TypeOK, NEW x \in Queries, SendFails(x)
  PROVE  /\ DOMAIN cache' = DOMAIN cache \ {q[x].host}
         /\ \A h \in DOMAIN cache' : cache'[h] = cache[h]
BY DEF SendFails, invalidateAddr, Restrict

\* A step of a goroutine changes that goroutine's state only.
LEMMA OnlyOne ==
  ASSUME TypeOK, NEW x \in Queries, QueryStep(x)
  PROVE  /\ q' \in [Queries -> Query]
         /\ \A y \in Queries \ {x} : q'[y] = q[y]
         /\ UNCHANGED <<clock, retired, current>>
<1> DEFINE Kept == /\ q' \in [Queries -> Query]
                   /\ \A y \in Queries \ {x} : q'[y] = q[y]
                   /\ UNCHANGED <<clock, retired, current>>
<1>1. q \in [Queries -> Query] /\ q[x] \in Query
  BY DEF TypeOK
<1>2. ASSUME NEW h \in Hosts, Start(x, h) PROVE Kept
  BY <1>1, <1>2 DEF Start, TypeOK, Query
<1>3. ASSUME Lookup(x) PROVE Kept
  <2>1. CASE Cached(q[x].host) /\ q[x].now < cache[q[x].host].exp
    <3>1. cache[q[x].host] \in Entry
      BY <2>1 DEF TypeOK, Cached
    <3> QED
      BY <1>1, <1>3, <2>1, <3>1 DEF Lookup, Query, Entry
  <2>2. CASE ~(Cached(q[x].host) /\ q[x].now < cache[q[x].host].exp)
    BY <1>1, <1>3, <2>2 DEF Lookup, Query
  <2> QED
    BY <2>1, <2>2
<1>4. ASSUME Resolve(x) PROVE Kept
  BY <1>1, <1>4 DEF Resolve, TypeOK, Query
<1>5. ASSUME ResolveFails(x) PROVE Kept
  BY <1>1, <1>5 DEF ResolveFails, Query
<1>6. ASSUME Save(x) PROVE Kept
  BY <1>1, <1>6 DEF Save, Query
<1>7. ASSUME Sent(x) PROVE Kept
  BY <1>1, <1>7 DEF Sent, Query
<1>8. ASSUME SendFails(x) PROVE Kept
  BY <1>1, <1>8 DEF SendFails, Fail, Query
<1>9. ASSUME ReadFails(x) PROVE Kept
  BY <1>1, <1>9 DEF ReadFails, Query
<1>10. ASSUME Answered(x) PROVE Kept
  BY <1>1, <1>10 DEF Answered, Query
<1> QED
  BY <1>2, <1>3, <1>4, <1>5, <1>6, <1>7, <1>8, <1>9, <1>10 DEF QueryStep

\* The variables of the name service, the cache and the queries keep their types.
THEOREM AddrTypeCorrect == Spec => []TypeOK
<1>1. Init => TypeOK
  BY AddrAssumption DEF Init, TypeOK, Address, InUse, Query
<1>2. ASSUME TypeOK, [Next]_vars PROVE TypeOK'
  <2>1. CASE UNCHANGED vars
    BY <1>2, <2>1 DEF vars, TypeOK
  <2>2. CASE Tick
    BY <1>2, <2>2 DEF Tick, TypeOK
  <2>3. ASSUME NEW h \in Hosts, Renumber(h) PROVE TypeOK'
    BY <1>2, <2>3, AddrAssumption DEF Renumber, TypeOK, Address
  <2>4. ASSUME NEW x \in Queries, QueryStep(x) PROVE TypeOK'
    <3>1. q' \in [Queries -> Query] /\ UNCHANGED <<clock, retired, current>>
      BY <1>2, <2>4, OnlyOne
    <3>2. q[x] \in Query
      BY <1>2 DEF TypeOK
    <3>3. ASSUME Save(x) PROVE TypeOK'
      BY <1>2, <3>1, <3>3, CacheTyped DEF Save, TypeOK
    <3>4. ASSUME SendFails(x) PROVE TypeOK'
      <4>1. epoch' \in [Hosts -> Nat] /\ settled' \in [Hosts -> Nat]
        BY <1>2, <3>2, <3>4 DEF SendFails, Fail, TypeOK, Query
      <4> QED
        BY <1>2, <3>1, <3>4, <4>1, Invalidated DEF TypeOK
    <3>5. ASSUME UNCHANGED <<cache, epoch, settled>> PROVE TypeOK'
      BY <1>2, <3>1, <3>5 DEF TypeOK
    <3> QED
      BY <2>4, <3>3, <3>4, <3>5 DEF QueryStep, Start, Lookup, Resolve, ResolveFails, Sent, ReadFails,
         Answered
  <2> QED
    BY <1>2, <2>1, <2>2, <2>3, <2>4 DEF Next
<1> QED
  BY <1>1, <1>2, PTL DEF Spec

----------------------------------------------------------------------------
(* How old an address may be *)

\* What holds of the name service and the clock.
ServiceInv ==
  /\ \A h \in Hosts, a \in Address : a >= current[h] => retired[h][a] = InUse
  /\ \A x \in Queries : q[x].now <= clock

\* An entry was right when the call that stored it began, an address that is
\* about to be stored when this call began; and nothing expires later than a TTL
\* from now.
StaleInv ==
  /\ ServiceInv
  /\ \A x \in Queries : q[x].pc = "save" => HeldAt(q[x].host, q[x].addr, q[x].now)
  /\ \A h \in DOMAIN cache :
       cache[h].exp <= clock + TTL /\ HeldAt(h, cache[h].addr, cache[h].exp - TTL)
  /\ BoundedStaleness

\* An address that was held at some time was held before.
LEMMA HeldEarlier ==
  ASSUME TypeOK, NEW h \in Hosts, NEW a \in Address, NEW t \in Int, NEW u \in Int,
         u <= t, HeldAt(h, a, t)
  PROVE  HeldAt(h, a, u)
<1>1. retired[h][a] \in Nat \cup {InUse}
  BY DEF TypeOK
<1> QED
  BY <1>1 DEF HeldAt, InUse

\* Renumbering makes no difference to what was held up to now.
LEMMA StillHeld ==
  ASSUME TypeOK, NEW g \in Hosts, Renumber(g),
         NEW h \in Hosts, NEW a \in Address, NEW t \in Int, t <= clock, HeldAt(h, a, t)
  PROVE  HeldAt(h, a, t)'
<1>1. /\ current \in [Hosts -> Address] /\ retired \in [Hosts -> [Address -> Nat \cup {InUse}]]
      /\ clock \in Nat
  BY DEF TypeOK
<1>2. current'[h] >= current[h]
  BY <1>1, AddrAssumption DEF Renumber, Address
<1>3. retired'[h][a] = retired[h][a] \/ retired'[h][a] = clock
  BY <1>1 DEF Renumber
<1>4. current[h] \in Int /\ current'[h] \in Int /\ a \in Int
  BY <1>1, AddrAssumption DEF Renumber, Address
<1> QED
  BY <1>1, <1>2, <1>3, <1>4 DEF HeldAt

LEMMA StaleInductive ==
  /\ Init => StaleInv
  /\ TypeOK /\ StaleInv /\ [Next]_vars => StaleInv'
<1>1. Init => StaleInv
  BY AddrAssumption DEF Init, StaleInv, ServiceInv, BoundedStaleness
<1>2. ASSUME TypeOK, StaleInv, [Next]_vars PROVE StaleInv'
  <2>1. /\ clock \in Nat /\ TTL \in Nat \ {0}
        /\ q \in [Queries -> Query]
        /\ \A h \in DOMAIN cache : h \in Hosts /\ cache[h] \in Entry
    BY <1>2, AddrAssumption DEF TypeOK
  <2>2. \A x \in Queries : /\ q[x].host \in Hosts /\ q[x].addr \in Address /\ q[x].now \in Int
                           /\ q[x].now <= clock
    BY <1>2, <2>1 DEF Query, StaleInv, ServiceInv
  <2>3. \A h \in DOMAIN cache : cache[h].addr \in Address /\ cache[h].exp \in Int
    BY <2>1 DEF Entry
  <2>4. CASE UNCHANGED vars
    BY <1>2, <2>4 DEF vars, StaleInv, ServiceInv, BoundedStaleness, HeldAt
  <2>5. CASE Tick
    <3>1. UNCHANGED <<retired, current, cache, q>> /\ clock' = clock + 1
      BY <2>5 DEF Tick
    <3> QED
      BY <1>2, <2>1, <2>2, <2>3, <3>1 DEF StaleInv, ServiceInv, BoundedStaleness, HeldAt
  <2>6. ASSUME NEW g \in Hosts, Renumber(g) PROVE StaleInv'
    <3>1. UNCHANGED <<clock, cache, q>>
      BY <2>6 DEF Renumber
    <3>2. ServiceInv'
      <4>1. \A h \in Hosts : current[h] \in Int /\ current'[h] \in Int
        BY <1>2, <2>6, AddrAssumption DEF TypeOK, Renumber, Address
      <4>2. \A a \in Address : a \in Int
        BY AddrAssumption DEF Address
      <4>3. ASSUME NEW h \in Hosts, NEW a \in Address, a >= current'[h] PROVE retired'[h][a] = InUse
        <5>1. a >= current[h] /\ (h = g => a # current[h])
          BY <1>2, <2>6, <4>1, <4>2, <4>3 DEF Renumber, TypeOK
        <5>2. retired'[h][a] = retired[h][a]
          BY <1>2, <2>6, <5>1 DEF Renumber, TypeOK
        <5> QED
          BY <1>2, <5>1, <5>2 DEF StaleInv, ServiceInv
      <4> QED
        BY <2>2, <3>1, <4>3 DEF ServiceInv
    <3>3. ASSUME NEW x \in Queries, q'[x].pc = "save" PROVE HeldAt(q[x].host, q[x].addr, q[x].now)'
      BY <1>2, <2>2, <2>6, <3>1, <3>3, StillHeld DEF StaleInv
    <3>4. ASSUME NEW h \in DOMAIN cache
          PROVE  cache[h].exp <= clock + TTL /\ HeldAt(h, cache[h].addr, cache[h].exp - TTL)'
      BY <1>2, <2>1, <2>3, <2>6, <3>1, StillHeld DEF StaleInv
    <3>5. ASSUME NEW x \in Queries, q'[x].pc \in {"dial", "sent"}
          PROVE  HeldAt(q[x].host, q[x].addr, q[x].now - TTL + 1)'
      BY <1>2, <2>1, <2>2, <2>6, <3>1, <3>5, StillHeld DEF StaleInv, BoundedStaleness
    <3> QED
      BY <3>1, <3>2, <3>3, <3>4, <3>5 DEF StaleInv, BoundedStaleness
  <2>7. ASSUME NEW x \in Queries, QueryStep(x) PROVE StaleInv'
    <3>1. /\ q' \in [Queries -> Query] /\ \A y \in Queries \ {x} : q'[y] = q[y]
          /\ UNCHANGED <<clock, retired, current>>
      BY <1>2, <2>7, OnlyOne
    <3> DEFINE p == q'[x]
    \* It takes that x and the cache are right afterwards.
    <3>2. ASSUME p.now <= clock,
                 p.pc = "save" => HeldAt(p.host, p.addr, p.now),
                 p.pc \in {"dial", "sent"} => HeldAt(p.host, p.addr, p.now - TTL + 1),
                 \A h \in DOMAIN cache' :
                    cache'[h].exp <= clock + TTL /\ HeldAt(h, cache'[h].addr, cache'[h].exp - TTL)
          PROVE  StaleInv'
      <4>1. \A h, a, t : HeldAt(h, a, t)' <=> HeldAt(h, a, t)
        BY <3>1 DEF HeldAt
      <4>2. ServiceInv'
        BY <1>2, <3>1, <3>2 DEF StaleInv, ServiceInv
      <4>3. \A y \in Queries : q'[y].pc = "save" => HeldAt(q'[y].host, q'[y].addr, q'[y].now)
        BY <1>2, <3>1, <3>2 DEF StaleInv
      <4>4. \A y \in Queries : q'[y].pc \in {"dial", "sent"} =>
                                 HeldAt(q'[y].host, q'[y].addr, q'[y].now - TTL + 1)
        BY <1>2, <3>1, <3>2 DEF StaleInv, BoundedStaleness
      <4> QED
        BY <3>1, <3>2, <4>2, <4>3, <4>4 DEF StaleInv, BoundedStaleness, HeldAt
    <3>3. \A h \in DOMAIN cache :
            cache[h].exp <= clock + TTL /\ HeldAt(h, cache[h].addr, cache[h].exp - TTL)
      BY <1>2 DEF StaleInv
    <3> HIDE DEF p
    <3>4. ASSUME NEW h \in Hosts, Start(x, h) PROVE StaleInv'
      <4>1. p.now = clock /\ p.pc = "lookup" /\ cache' = cache
        BY <2>1, <3>4 DEF Start, Query, p
      <4> QED
        BY <2>1, <3>2, <3>3, <4>1
    <3>5. ASSUME Lookup(x) PROVE StaleInv'
      <4>1. CASE Cached(q[x].host) /\ q[x].now < cache[q[x].host].exp
        <5> DEFINE e == cache[q[x].host]
        <5>1. q[x].host \in DOMAIN cache
          BY <4>1 DEF Cached
        <5>2. /\ p.pc = "dial" /\ p.addr = e.addr /\ p.now = q[x].now /\ p.host = q[x].host
              /\ cache' = cache
          BY <2>1, <3>5, <4>1 DEF Lookup, Query, p
        <5>3. HeldAt(q[x].host, e.addr, e.exp - TTL)
          BY <3>3, <5>1
        <5>4. e.exp \in Int /\ e.addr \in Address /\ q[x].now < e.exp
          BY <2>3, <4>1, <5>1
        <5> HIDE DEF e
        <5>5. HeldAt(q[x].host, e.addr, q[x].now - TTL + 1)
          BY <1>2, <2>1, <2>2, <5>3, <5>4, HeldEarlier
        <5> QED
          BY <2>2, <3>2, <3>3, <5>2, <5>5
      <4>2. CASE ~(Cached(q[x].host) /\ q[x].now < cache[q[x].host].exp)
        <5>1. p.pc = "resolve" /\ p.now = q[x].now /\ cache' = cache
          BY <2>1, <3>5, <4>2 DEF Lookup, Query, p
        <5> QED
          BY <2>2, <3>2, <3>3, <5>1
      <4> QED
        BY <4>1, <4>2
    <3>6. ASSUME Resolve(x) PROVE StaleInv'
      <4>1. /\ p.pc = "save" /\ p.addr = current[q[x].host] /\ p.now = q[x].now /\ p.host = q[x].host
            /\ cache' = cache
        BY <2>1, <3>6 DEF Resolve, Query, p
      <4>2. current[q[x].host] \in Address /\ current[q[x].host] \in Int
        BY <1>2, <2>2, AddrAssumption DEF TypeOK, Address
      <4>3. HeldAt(p.host, p.addr, p.now)
        BY <1>2, <2>2, <4>1, <4>2 DEF StaleInv, ServiceInv, HeldAt
      <4> QED
        BY <2>2, <3>2, <3>3, <4>1, <4>3
    <3>7. ASSUME Save(x) PROVE StaleInv'
      <4>1. p.pc = "dial" /\ p.addr = q[x].addr /\ p.now = q[x].now /\ p.host = q[x].host
        BY <2>1, <3>7 DEF Save, Query, p
      <4>2. HeldAt(q[x].host, q[x].addr, q[x].now)
        BY <1>2, <3>7 DEF StaleInv, Save
      <4>3. HeldAt(p.host, p.addr, p.now - TTL + 1)
        BY <1>2, <2>1, <2>2, <4>1, <4>2, HeldEarlier
      <4>4. /\ NewEntry(x).exp <= clock + TTL
            /\ HeldAt(q[x].host, NewEntry(x).addr, NewEntry(x).exp - TTL)
        <5>1. NewEntry(x).exp = q[x].now + TTL /\ NewEntry(x).addr = q[x].addr
          BY DEF NewEntry
        <5>2. NewEntry(x).exp - TTL = q[x].now /\ NewEntry(x).exp <= clock + TTL
          BY <2>1, <2>2, <5>1
        <5> QED
          BY <4>2, <5>1, <5>2
      <4>5. \A h \in DOMAIN cache' :
              cache'[h].exp <= clock + TTL /\ HeldAt(h, cache'[h].addr, cache'[h].exp - TTL)
        BY <1>2, <3>3, <3>7, <4>4, CacheTyped
      <4> QED
        BY <2>2, <3>2, <4>1, <4>3, <4>5
    <3>8. ASSUME SendFails(x) PROVE StaleInv'
      <4>1. p.pc = "failed" /\ p.now = q[x].now
        BY <2>1, <3>8 DEF SendFails, Fail, Query, p
      <4>2. \A h \in DOMAIN cache' : h \in DOMAIN cache /\ cache'[h] = cache[h]
        BY <1>2, <3>8, Invalidated
      <4> QED
        BY <2>2, <3>2, <3>3, <4>1, <4>2
    <3>9. ASSUME Sent(x) PROVE StaleInv'
      <4>1. /\ p.pc = "sent" /\ q[x].pc = "dial" /\ p.addr = q[x].addr /\ p.now = q[x].now
            /\ p.host = q[x].host /\ cache' = cache
        BY <2>1, <3>9 DEF Sent, Query, p
      <4> QED
        BY <1>2, <2>2, <3>2, <3>3, <4>1 DEF StaleInv, BoundedStaleness
    <3>10. ASSUME ResolveFails(x) \/ ReadFails(x) \/ Answered(x) PROVE StaleInv'
      <4>1. p.pc \in {"failed", "idle"} /\ p.now = q[x].now /\ cache' = cache
        BY <2>1, <3>10 DEF ResolveFails, ReadFails, Answered, Query, p
      <4> QED
        BY <2>2, <3>2, <3>3, <4>1
    <3> QED
      BY <2>7, <3>4, <3>5, <3>6, <3>7, <3>8, <3>9, <3>10 DEF QueryStep
  <2> QED
    BY <1>2, <2>4, <2>5, <2>6, <2>7 DEF Next
<1> QED
  BY <1>1, <1>2

\* No address is used for longer than the TTL after it was right, however slow the
\* goroutines between their critical sections are.
THEOREM StalenessIsBounded == Spec => []BoundedStaleness
<1>1. StaleInv => BoundedStaleness
  BY DEF StaleInv
<1> QED
  BY <1>1, AddrTypeCorrect, StaleInductive, PTL DEF Spec

----------------------------------------------------------------------------
(* What a failure achieves *)

\* Nothing that was resolved before the last settled failure of its host is in
\* the cache or about to be stored.
SettledInv ==
  /\ \A h \in Hosts : settled[h] <= epoch[h]
  /\ \A x \in Queries : q[x].began <= settled[q[x].host]
  /\ \A x \in Queries : q[x].pc = "save" => settled[q[x].host] <= q[x].epoch
  /\ \A h \in DOMAIN cache : settled[h] <= cache[h].epoch
  /\ ReResolvesAfterFailure

LEMMA SettledInductive ==
  /\ Init => SettledInv
  /\ TypeOK /\ SettledInv /\ [Next]_vars => SettledInv'
<1>1. Init => SettledInv
  BY AddrAssumption DEF Init, SettledInv, ReResolvesAfterFailure
<1>2. ASSUME TypeOK, SettledInv, [Next]_vars PROVE SettledInv'
  <2>1. /\ q \in [Queries -> Query]
        /\ epoch \in [Hosts -> Nat] /\ settled \in [Hosts -> Nat]
        /\ \A h \in DOMAIN cache : h \in Hosts /\ cache[h] \in Entry
    BY <1>2 DEF TypeOK
  <2>2. \A x \in Queries : q[x].host \in Hosts /\ q[x].began \in Nat /\ q[x].epoch \in Nat
    BY <2>1 DEF Query
  <2>3. \A h \in DOMAIN cache : cache[h].epoch \in Nat
    BY <2>1 DEF Entry
  <2>4. ASSUME UNCHANGED <<cache, epoch, settled, q>> PROVE SettledInv'
    BY <1>2, <2>4 DEF SettledInv, ReResolvesAfterFailure
  <2>5. CASE UNCHANGED vars \/ Tick \/ \E h \in Hosts : Renumber(h)
    BY <2>4, <2>5 DEF vars, Tick, Renumber
  <2>6. ASSUME NEW x \in Queries, QueryStep(x) PROVE SettledInv'
    <3>1. \A y \in Queries \ {x} : q'[y] = q[y]
      BY <1>2, <2>6, OnlyOne
    <3> DEFINE p == q'[x]
    \* Unless a failure is settled, it takes that x and the cache are right.
    <3>2. ASSUME UNCHANGED <<epoch, settled>>,
                 p.began <= settled[p.host],
                 p.pc = "save" => settled[p.host] <= p.epoch,
                 p.pc \in {"dial", "sent"} => p.began <= p.epoch,
                 \A h \in DOMAIN cache' : settled[h] <= cache'[h].epoch
          PROVE  SettledInv'
      BY <1>2, <3>1, <3>2 DEF SettledInv, ReResolvesAfterFailure
    <3>3. /\ \A h \in DOMAIN cache : settled[h] <= cache[h].epoch
          /\ q[x].began <= settled[q[x].host]
      BY <1>2 DEF SettledInv
    <3> HIDE DEF p
    <3>4. ASSUME NEW h \in Hosts, Start(x, h) PROVE SettledInv'
      <4>1. /\ p.host = h /\ p.began = settled[h] /\ p.pc = "lookup"
            /\ UNCHANGED <<cache, epoch, settled>>
        BY <2>1, <3>4 DEF Start, Query, p
      <4>2. settled[h] \in Nat
        BY <2>1
      <4> QED
        BY <3>2, <3>3, <4>1, <4>2
    <3>5. ASSUME Lookup(x) PROVE SettledInv'
      <4>1. CASE Cached(q[x].host) /\ q[x].now < cache[q[x].host].exp
        <5>1. q[x].host \in DOMAIN cache
          BY <4>1 DEF Cached
        <5>2. /\ p.pc = "dial" /\ p.epoch = cache[q[x].host].epoch /\ p.began = q[x].began
              /\ p.host = q[x].host /\ UNCHANGED <<cache, epoch, settled>>
          BY <2>1, <3>5, <4>1 DEF Lookup, Query, p
        <5>3. p.began <= p.epoch
          BY <2>1, <2>2, <2>3, <3>3, <5>1, <5>2
        <5> QED
          BY <3>2, <3>3, <5>2, <5>3
      <4>2. CASE ~(Cached(q[x].host) /\ q[x].now < cache[q[x].host].exp)
        <5>1. /\ p.pc = "resolve" /\ p.began = q[x].began /\ p.host = q[x].host
              /\ UNCHANGED <<cache, epoch, settled>>
          BY <2>1, <3>5, <4>2 DEF Lookup, Query, p
        <5> QED
          BY <3>2, <3>3, <5>1
      <4> QED
        BY <4>1, <4>2
    <3>6. ASSUME Resolve(x) PROVE SettledInv'
      <4>1. /\ p.pc = "save" /\ p.epoch = epoch[q[x].host] /\ p.began = q[x].began
            /\ p.host = q[x].host /\ UNCHANGED <<cache, epoch, settled>>
        BY <2>1, <3>6 DEF Resolve, Query, p
      <4>2. settled[p.host] <= p.epoch
        BY <1>2, <2>2, <4>1 DEF SettledInv
      <4> QED
        BY <3>2, <3>3, <4>1, <4>2
    <3>7. ASSUME Save(x) PROVE SettledInv'
      <4>1. /\ p.pc = "dial" /\ p.epoch = q[x].epoch /\ p.began = q[x].began
            /\ p.host = q[x].host /\ UNCHANGED <<epoch, settled>>
        BY <2>1, <3>7 DEF Save, Query, p
      <4>2. settled[q[x].host] <= q[x].epoch
        BY <1>2, <3>7 DEF SettledInv, Save
      <4>3. p.began <= p.epoch
        BY <2>1, <2>2, <3>3, <4>1, <4>2
      <4>4. NewEntry(x).epoch = q[x].epoch
        BY DEF NewEntry
      <4>5. \A h \in DOMAIN cache' : settled[h] <= cache'[h].epoch
        BY <1>2, <3>3, <3>7, <4>2, <4>4, CacheTyped
      <4> QED
        BY <3>2, <3>3, <4>1, <4>3, <4>5
    <3>8. ASSUME SendFails(x) PROVE SettledInv'
      <4> DEFINE g == q[x].host
      <4>1. /\ p.pc = "failed" /\ p.began = q[x].began /\ p.host = g
            /\ epoch' = [epoch EXCEPT ![g] = @ + 1]
            /\ settled' = IF Pending(x, g) THEN settled ELSE [settled EXCEPT ![g] = epoch[g] + 1]
        BY <2>1, <3>8 DEF SendFails, Fail, Query, p
      <4>2. g \in Hosts /\ g \notin DOMAIN cache'
        BY <1>2, <2>2, <3>8, Invalidated
      <4>3. \A h \in DOMAIN cache' : h \in DOMAIN cache /\ cache'[h] = cache[h] /\ h # g
        BY <1>2, <3>8, Invalidated
      <4> HIDE DEF g
      <4>4. \A h \in Hosts : /\ settled[h] <= settled'[h] /\ settled'[h] <= epoch'[h]
                             /\ settled'[h] \in Nat
                             /\ h # g => settled'[h] = settled[h]
        BY <1>2, <2>1, <4>1, <4>2 DEF SettledInv
      <4>5. \A y \in Queries : q'[y].began <= settled'[q'[y].host]
        <5> SUFFICES ASSUME NEW y \in Queries PROVE q'[y].began <= settled'[q'[y].host]
          OBVIOUS
        <5>1. q'[y].began = q[y].began /\ q'[y].host = q[y].host
          BY <3>1, <4>1 DEF p, g
        <5>2. q[y].began <= settled[q[y].host] /\ settled[q[y].host] <= settled'[q[y].host]
          BY <1>2, <2>2, <4>4 DEF SettledInv
        <5> QED
          BY <2>1, <2>2, <4>4, <5>1, <5>2
      <4>6. \A y \in Queries : q'[y].pc = "save" => settled'[q'[y].host] <= q'[y].epoch
        <5> SUFFICES ASSUME NEW y \in Queries, q'[y].pc = "save"
                     PROVE  settled'[q'[y].host] <= q'[y].epoch
          OBVIOUS
        <5>1. y # x /\ q'[y] = q[y]
          BY <3>1, <4>1 DEF p
        <5>2. settled'[q[y].host] = settled[q[y].host]
          <6>1. CASE q[y].host = g
            BY <4>1, <5>1, <6>1 DEF Pending
          <6>2. CASE q[y].host # g
            BY <2>2, <4>4, <6>2
          <6> QED
            BY <6>1, <6>2
        <5> QED
          BY <1>2, <5>1, <5>2 DEF SettledInv
      <4>7. \A h \in DOMAIN cache' : settled'[h] <= cache'[h].epoch
        BY <2>1, <3>3, <4>3, <4>4
      <4>8. ReResolvesAfterFailure'
        BY <1>2, <3>1, <4>1 DEF SettledInv, ReResolvesAfterFailure, p
      <4> QED
        BY <4>4, <4>5, <4>6, <4>7, <4>8 DEF SettledInv
    <3>9. ASSUME Sent(x) PROVE SettledInv'
      <4>1. /\ p.pc = "sent" /\ q[x].pc = "dial" /\ p.epoch = q[x].epoch /\ p.began = q[x].began
            /\ p.host = q[x].host /\ UNCHANGED <<cache, epoch, settled>>
        BY <2>1, <3>9 DEF Sent, Query, p
      <4> QED
        BY <1>2, <3>2, <3>3, <4>1 DEF SettledInv, ReResolvesAfterFailure
    <3>10. ASSUME ResolveFails(x) \/ ReadFails(x) \/ Answered(x) PROVE SettledInv'
      <4>1. /\ p.pc \in {"failed", "idle"} /\ p.began = q[x].began /\ p.host = q[x].host
            /\ UNCHANGED <<cache, epoch, settled>>
        BY <2>1, <3>10 DEF ResolveFails, ReadFails, Answered, Query, p
      <4> QED
        BY <3>2, <3>3, <4>1
    <3> QED
      BY <2>6, <3>4, <3>5, <3>6, <3>7, <3>8, <3>9, <3>10 DEF QueryStep
  <2> QED
    BY <1>2, <2>5, <2>6 DEF Next
<1> QED
  BY <1>1, <1>2

\* After a failure that found no address about to be stored, no query that begins
\* uses an address resolved before it.
THEOREM FailuresMakeResolve == Spec => []ReResolvesAfterFailure
<1>1. SettledInv => ReResolvesAfterFailure
  BY DEF SettledInv
<1> QED
  BY <1>1, AddrTypeCorrect, SettledInductive, PTL DEF Spec

============================================================================
