---------------------------- MODULE TimingProofs ----------------------------
(***************************************************************************)
(* The time a request takes, for any number of servers, any limits and     *)
(* timeouts: types, the waves of queries, and when an answer is in time.   *)
(***************************************************************************)
EXTENDS Timing, FiniteSetTheorems, TLAPS

----------------------------------------------------------------------------
(* Division *)

LEMMA Division ==
  ASSUME NEW a \in Nat, NEW b \in Nat \ {0}
  PROVE  /\ a \div b \in Nat
         /\ (a \div b) * b <= a /\ a < (a \div b) * b + b
OBVIOUS

\* The quotient is determined by its bounds.
LEMMA Quotient ==
  ASSUME NEW a \in Nat, NEW b \in Nat \ {0}, NEW k \in Nat, k * b <= a, a < k * b + b
  PROVE  a \div b = k
OBVIOUS

LEMMA DivisionStep ==
  ASSUME NEW a \in Nat, NEW b \in Nat \ {0}
  PROVE  (a + b) \div b = a \div b + 1
<1> DEFINE k == a \div b
<1>1. k \in Nat /\ k * b <= a /\ a < k * b + b
  BY Division
<1> HIDE DEF k
<1>2. (k + 1) * b = k * b + b
  BY <1>1
<1>3. (a + b) \div b = k + 1
  BY <1>1, <1>2, Quotient
<1> QED
  BY <1>3 DEF k

LEMMA Products ==
  ASSUME NEW k \in Nat, NEW l \in Nat, NEW b \in Nat, k <= l
  PROVE  k * b \in Nat /\ l * b \in Nat /\ k * b <= l * b
OBVIOUS

LEMMA DivisionGrows ==
  ASSUME NEW a \in Nat, NEW c \in Nat, NEW b \in Nat \ {0}, a <= c
  PROVE  a \div b <= c \div b
<1> DEFINE k == a \div b
           l == c \div b
<1>1. k \in Nat /\ k * b <= a
  BY Division
<1>2. l \in Nat /\ c < l * b + b
  BY Division
<1> HIDE DEF k, l
<1>3. (l + 1) * b = l * b + b
  BY <1>2
<1>4. ASSUME l + 1 <= k PROVE FALSE
  <2>1. (l + 1) * b <= k * b
    BY <1>1, <1>2, <1>4, Products
  <2>2. l * b \in Nat /\ k * b \in Nat
    BY <1>1, <1>2, Products
  <2> QED
    BY <1>1, <1>2, <1>3, <2>1, <2>2
<1> QED
  BY <1>1, <1>2, <1>4 DEF k, l

----------------------------------------------------------------------------
(* Types *)

LEMMA Jobs1 == N \in Nat /\ IsFiniteSet(Jobs) /\ Cardinality(Jobs) = N /\ Jobs \subseteq Nat
<1>1. N \in Nat /\ N \in Int /\ 1 \in Int
  BY TimingAssumption
<1>2. IsFiniteSet(1 .. N) /\ Cardinality(1 .. N) = IF 1 > N THEN 0 ELSE N - 1 + 1
  BY <1>1, FS_Interval
<1> QED
  BY <1>1, <1>2, TimingAssumption DEF Jobs

LEMMA LiveFinite == IsFiniteSet(Live) /\ Cardinality(Live) \in Nat
BY Jobs1, FS_Subset, FS_CardinalityType DEF Live

\* Only Spawn makes a query live.
LEMMA LiveSteps ==
  ASSUME TypeOK, NEW i \in Jobs, QueryStep(i)
  PROVE  /\ query' \in [Jobs -> {"todo", "resolve", "read", "over"}]
         /\ due' \in [Jobs -> Nat] /\ startAt' \in [Jobs -> Nat]
         /\ \A j \in Jobs \ {i} : query'[j] = query[j] /\ due'[j] = due[j] /\ startAt'[j] = startAt[j]
         /\ UNCHANGED <<now, pc, bodyAt>>
         /\ Cardinality(Live') <= maxFanout
<1>1. /\ now \in Nat /\ query \in [Jobs -> {"todo", "resolve", "read", "over"}]
      /\ due \in [Jobs -> Nat] /\ startAt \in [Jobs -> Nat] /\ Cardinality(Live) <= maxFanout
  BY DEF TypeOK
<1>2. LookupTime \in Nat /\ Timeout \in Nat /\ maxFanout \in Nat
  BY TimingAssumption
<1>3. ASSUME Live' \subseteq Live PROVE Cardinality(Live') <= maxFanout
  BY <1>1, <1>2, <1>3, LiveFinite, LiveFinite, FS_Subset, FS_CardinalityType
<1>4. CASE Spawn(i)
  <2>1. Live' = Live \cup {i} /\ i \notin Live
    BY <1>1, <1>4 DEF Spawn, Live, NextJob
  <2>2. Cardinality(Live') = Cardinality(Live) + 1
    BY <2>1, LiveFinite, FS_AddElement
  <2>3. Cardinality(Live') <= maxFanout
    BY <1>2, <1>4, <2>2, LiveFinite DEF Spawn, Free
  <2> QED
    BY <1>1, <1>2, <1>4, <2>3 DEF Spawn
<1>5. CASE Dial(i)
  <2>1. Live' \subseteq Live
    BY <1>1, <1>5 DEF Dial, Live
  <2> QED
    BY <1>1, <1>2, <1>3, <1>5, <2>1 DEF Dial
<1>6. CASE Exit(i)
  <2>1. Live' \subseteq Live
    BY <1>1, <1>6 DEF Exit, Live
  <2> QED
    BY <1>1, <1>2, <1>3, <1>6, <2>1 DEF Exit
<1> QED
  BY <1>4, <1>5, <1>6 DEF QueryStep

\* What changes the clock or the handler, and no query.
HandlerStep == BodyRead \/ BodyTimeout \/ Join \/ Write \/ Tick \/ Over

LEMMA HandlerKeeps ==
  ASSUME HandlerStep \/ UNCHANGED vars
  PROVE  UNCHANGED <<query, due, startAt>>
BY DEF HandlerStep, BodyRead, BodyTimeout, Join, Write, Tick, Over, vars

\* While the body is read the time to do so is not over.
BodyInTime == pc = "body" => now <= ReadTimeout

LEMMA TypesInductive ==
  /\ Init => TypeOK /\ BodyInTime
  /\ TypeOK /\ BodyInTime /\ [Next]_vars => TypeOK' /\ BodyInTime'
<1>1. Init => TypeOK /\ BodyInTime
  <2>1. Init => Live = {}
    BY DEF Init, Live
  <2> QED
    BY <2>1, FS_EmptySet, TimingAssumption DEF Init, TypeOK, BodyInTime
<1>2. ASSUME TypeOK, BodyInTime, [Next]_vars PROVE TypeOK' /\ BodyInTime'
  <2>1. ASSUME HandlerStep \/ UNCHANGED vars PROVE TypeOK' /\ BodyInTime'
    <3>1. UNCHANGED <<query, due, startAt>>
      BY <2>1, HandlerKeeps
    <3>2. Live' = Live
      BY <3>1 DEF Live
    <3>3. now \in Nat /\ bodyAt \in 0 .. ReadTimeout /\ ReadTimeout \in Nat
      BY <1>2, TimingAssumption DEF TypeOK
    <3>4. /\ now' \in Nat /\ bodyAt' \in 0 .. ReadTimeout
          /\ pc' \in {"body", "query", "write", "answered", "cut", "refused"}
          /\ BodyInTime'
      BY <1>2, <2>1, <3>3 DEF HandlerStep, BodyRead, BodyTimeout, Join, Write, Tick, Over, vars, TypeOK,
         BodyInTime
    <3> QED
      BY <1>2, <3>1, <3>2, <3>4 DEF TypeOK
  <2>2. ASSUME NEW i \in Jobs, QueryStep(i) PROVE TypeOK' /\ BodyInTime'
    BY <1>2, <2>2, LiveSteps DEF TypeOK, BodyInTime
  <2> QED
    BY <1>2, <2>1, <2>2 DEF Next, HandlerStep
<1> QED
  BY <1>1, <1>2

\* The variables of a request and of its queries keep their types, and never more
\* than maxFanout queries run at a time, as the semaphore of queryAll promises.
THEOREM TimingTypeCorrect == Spec => []TypeOK
BY TypesInductive, PTL DEF Spec

----------------------------------------------------------------------------
(* Waves *)

\* When query i starts at the latest, as StartsWithItsWave has it.
WaveOf(i) == (i - 1) \div maxFanout
Latest(i) == bodyAt + WaveOf(i) * QueryTime

LEMMA WaveTimes ==
  ASSUME bodyAt \in Nat, NEW i \in Nat \ {0}, NEW k \in Nat \ {0}, i <= k
  PROVE  /\ QueryTime \in Nat \ {0} /\ Latest(i) \in Nat /\ bodyAt <= Latest(i)
         /\ Latest(k) \in Nat /\ Latest(i) <= Latest(k)
         /\ Latest(i + maxFanout) = Latest(i) + QueryTime
<1>1. maxFanout \in Nat \ {0} /\ QueryTime \in Nat \ {0} /\ bodyAt \in Nat
  BY TimingAssumption DEF QueryTime
<1> DEFINE a == i - 1
           c == k - 1
<1>2. a \in Nat /\ c \in Nat /\ a <= c /\ (i + maxFanout) - 1 = a + maxFanout
  BY <1>1
<1>3. WaveOf(i) = a \div maxFanout /\ WaveOf(k) = c \div maxFanout
  BY DEF WaveOf
<1>4. WaveOf(i + maxFanout) = (a + maxFanout) \div maxFanout
  BY <1>2 DEF WaveOf
<1> HIDE DEF a, c
<1>5. WaveOf(i + maxFanout) = WaveOf(i) + 1
  BY <1>1, <1>2, <1>3, <1>4, DivisionStep
<1>6. WaveOf(i) \in Nat /\ WaveOf(k) \in Nat /\ WaveOf(i) <= WaveOf(k)
  <2>1. a \div maxFanout \in Nat /\ c \div maxFanout \in Nat
    BY <1>1, <1>2, Division
  <2>2. a \div maxFanout <= c \div maxFanout
    BY <1>1, <1>2, DivisionGrows
  <2> QED
    BY <1>3, <2>1, <2>2
<1> HIDE DEF WaveOf, QueryTime
<1>7. /\ WaveOf(i) * QueryTime \in Nat /\ WaveOf(k) * QueryTime \in Nat
      /\ WaveOf(i) * QueryTime <= WaveOf(k) * QueryTime
  BY <1>1, <1>6, Products
<1>8. (WaveOf(i) + 1) * QueryTime = WaveOf(i) * QueryTime + QueryTime
  BY <1>1, <1>6
<1> QED
  BY <1>1, <1>5, <1>7, <1>8 DEF Latest

\* The first n queries have been started.  Those that run end in time, and the next
\* one, if there is one, is not late: when all tokens are taken, somebody of its
\* last wave still runs.
WavesInv ==
  /\ \A i, j \in Jobs : i < j /\ query[j] # "todo" => query[i] # "todo"
  /\ \A i \in Jobs : query[i] # "todo" => startAt[i] <= Latest(i) /\ pc # "body"
  /\ \A i \in Live : now <= due[i] /\ due[i] <= startAt[i] + QueryTime
  /\ \A i \in Jobs : query[i] = "resolve" => due[i] <= startAt[i] + LookupTime
  /\ pc = "query" => \A i \in NextJob : now <= Latest(i)

\* When all tokens are taken, one is held by a query that started a wave earlier.
LEMMA OneIsOlder ==
  ASSUME TypeOK, WavesInv, NEW i \in NextJob, Free = 0
  PROVE  \E j \in Live : j + maxFanout <= i
<1>1. i \in Jobs /\ i \in Nat /\ maxFanout \in Nat \ {0} /\ query[i] = "todo"
  BY Jobs1, TimingAssumption DEF NextJob
<1>2. Cardinality(Live) = maxFanout
  BY <1>1, LiveFinite DEF Free
<1>3. ASSUME \A j \in Live : ~(j + maxFanout <= i) PROVE FALSE
  <2>1. Live \subseteq i - maxFanout + 1 .. i - 1
    <3> SUFFICES ASSUME NEW j \in Live PROVE j \in i - maxFanout + 1 .. i - 1
      OBVIOUS
    <3>1. j \in Jobs /\ j \in Nat /\ query[j] # "todo"
      BY Jobs1 DEF Live
    <3>2. j <= i - 1
      BY <1>1, <3>1 DEF WavesInv
    <3> QED
      BY <1>1, <1>3, <3>1, <3>2
  <2>2. /\ IsFiniteSet(i - maxFanout + 1 .. i - 1)
        /\ Cardinality(i - maxFanout + 1 .. i - 1) = maxFanout - 1
    BY <1>1, FS_Interval
  <2>3. Cardinality(Live) <= maxFanout - 1
    BY <2>1, <2>2, FS_Subset
  <2> QED
    BY <1>1, <1>2, <2>3
<1> QED
  BY <1>3

\* A query that runs is over when its wave can have ended at the latest.
LEMMA LiveEnds ==
  ASSUME TypeOK, WavesInv, NEW j \in Live
  PROVE  due[j] \in Nat /\ now <= due[j] /\ due[j] <= Latest(j + maxFanout)
<1>1. j \in Jobs /\ j \in Nat \ {0} /\ bodyAt \in Nat /\ due[j] \in Nat /\ startAt[j] \in Nat
      /\ query[j] # "todo"
  BY TimingAssumption DEF TypeOK, Live, Jobs
<1>2. now <= due[j] /\ due[j] <= startAt[j] + QueryTime /\ startAt[j] <= Latest(j)
  BY <1>1 DEF WavesInv
<1>3. QueryTime \in Nat /\ Latest(j) \in Nat /\ Latest(j + maxFanout) = Latest(j) + QueryTime
  BY <1>1, WaveTimes
<1> QED
  BY <1>1, <1>2, <1>3

LEMMA TickWaves ==
  ASSUME TypeOK, WavesInv, Tick
  PROVE  WavesInv'
<1>1. /\ now' = now + 1 /\ now \in Nat /\ bodyAt \in Nat
      /\ UNCHANGED <<pc, query, due, bodyAt, startAt>>
  BY TimingAssumption DEF TypeOK, Tick
<1>2. Live' = Live /\ NextJob' = NextJob /\ \A i : Latest(i)' = Latest(i)
  BY <1>1 DEF Live, NextJob, Latest
<1>3. ASSUME NEW i \in Live PROVE now + 1 <= due[i]
  <2>1. i \in Jobs /\ query[i] # "todo"
    BY <1>3 DEF Live
  <2>2. pc = "query"
    BY <2>1 DEF Tick, WavesInv
  <2> QED
    BY <1>1, <1>3, <2>2, LiveEnds DEF Tick
<1>4. ASSUME pc = "query", NEW i \in NextJob PROVE now + 1 <= Latest(i)
  <2>1. i \in Nat \ {0} /\ Free = 0
    BY <1>4, TimingAssumption DEF NextJob, Jobs, Tick
  <2>2. PICK j \in Live : j + maxFanout <= i
    BY <1>4, <2>1, OneIsOlder
  <2>3. j \in Nat \ {0} /\ j + maxFanout \in Nat \ {0} /\ maxFanout \in Nat \ {0}
    BY TimingAssumption DEF Live, Jobs
  <2>4. Latest(j + maxFanout) <= Latest(i) /\ Latest(j + maxFanout) \in Nat /\ Latest(i) \in Nat
    BY <1>1, <2>1, <2>2, <2>3, WaveTimes
  <2>5. now + 1 <= due[j] /\ due[j] <= Latest(j + maxFanout) /\ due[j] \in Nat
    BY <1>3, LiveEnds
  <2> QED
    BY <1>1, <2>4, <2>5
<1> QED
  BY <1>1, <1>2, <1>3, <1>4 DEF WavesInv

LEMMA SpawnWaves ==
  ASSUME TypeOK, WavesInv, NEW n \in Jobs, Spawn(n)
  PROVE  WavesInv'
<1>1. /\ now \in Nat /\ bodyAt \in Nat /\ Jobs \subseteq Nat \ {0}
      /\ LookupTime \in Nat /\ QueryTime \in Nat /\ LookupTime <= QueryTime
      /\ query \in [Jobs -> {"todo", "resolve", "read", "over"}]
      /\ due \in [Jobs -> Nat] /\ startAt \in [Jobs -> Nat]
  BY TimingAssumption DEF TypeOK, QueryTime, Jobs
<1>2. /\ UNCHANGED <<now, pc, bodyAt>> /\ pc = "query" /\ n \in NextJob
      /\ query' = [query EXCEPT ![n] = "resolve"]
      /\ due' = [due EXCEPT ![n] = now + LookupTime]
      /\ startAt' = [startAt EXCEPT ![n] = now]
  BY DEF Spawn
<1>3. now <= Latest(n) /\ \A i : Latest(i)' = Latest(i)
  BY <1>2 DEF WavesInv, Latest
<1>4. \A j \in Jobs : j < n => query[j] # "todo"
  BY <1>1, <1>2 DEF NextJob, Jobs
<1>5. \A i, j \in Jobs : i < j /\ query'[j] # "todo" => query'[i] # "todo"
  BY <1>1, <1>2, <1>4 DEF WavesInv
<1>6. \A i \in Jobs : query'[i] # "todo" => startAt'[i] <= Latest(i)' /\ pc' # "body"
  BY <1>1, <1>2, <1>3 DEF WavesInv
<1>7. \A i \in Live' : now' <= due'[i] /\ due'[i] <= startAt'[i] + QueryTime
  <2> SUFFICES ASSUME NEW i \in Live'
               PROVE  now' <= due'[i] /\ due'[i] <= startAt'[i] + QueryTime
    OBVIOUS
  <2>1. i \in Jobs
    BY DEF Live
  <2>2. CASE i = n
    BY <1>1, <1>2, <2>2
  <2>3. CASE i # n
    <3>1. i \in Live /\ due'[i] = due[i] /\ startAt'[i] = startAt[i]
      BY <1>1, <1>2, <2>1, <2>3 DEF Live
    <3> QED
      BY <1>2, <3>1 DEF WavesInv
  <2> QED
    BY <2>2, <2>3
<1>8. \A i \in Jobs : query'[i] = "resolve" => due'[i] <= startAt'[i] + LookupTime
  BY <1>1, <1>2 DEF WavesInv
<1>9. ASSUME NEW k \in NextJob' PROVE now' <= Latest(k)'
  <2>1. k \in Jobs /\ k # n /\ query[k] = "todo"
    BY <1>1, <1>2, <1>9 DEF NextJob
  <2>2. n <= k
    BY <1>1, <1>4, <2>1
  <2>3. Latest(n) <= Latest(k) /\ Latest(n) \in Nat /\ Latest(k) \in Nat
    BY <1>1, <2>1, <2>2, WaveTimes
  <2> QED
    BY <1>1, <1>2, <1>3, <2>3
<1> QED
  BY <1>5, <1>6, <1>7, <1>8, <1>9 DEF WavesInv, QueryTime

\* A query that leaves the resolver, or ends.
LEMMA EndWaves ==
  ASSUME TypeOK, WavesInv, NEW n \in Jobs, Dial(n) \/ Exit(n)
  PROVE  WavesInv'
<1>1. /\ now \in Nat /\ Jobs \subseteq Nat \ {0} /\ LookupTime \in Nat /\ Timeout \in Nat
      /\ query \in [Jobs -> {"todo", "resolve", "read", "over"}]
      /\ due \in [Jobs -> Nat] /\ startAt \in [Jobs -> Nat]
  BY TimingAssumption DEF TypeOK, Jobs
<1>2. UNCHANGED <<now, pc, bodyAt, startAt>> /\ \A i : Latest(i)' = Latest(i)
  BY DEF Dial, Exit, Latest
<1>3. /\ n \in Live
      /\ \E s \in {"read", "over"} : query' = [query EXCEPT ![n] = s]
      /\ \A i \in Jobs : due'[i] = IF i = n /\ Dial(n) THEN now + Timeout ELSE due[i]
  BY <1>1 DEF Dial, Exit, Live
<1>4. query[n] # "todo" /\ \A i \in Jobs : query'[i] = "todo" <=> query[i] = "todo"
  BY <1>1, <1>3 DEF Live
<1>5. NextJob' = NextJob
  <2>1. \A i \in Jobs : \A j \in 1 .. i - 1 : j \in Jobs
    BY TimingAssumption DEF Jobs
  <2> QED
    BY <1>4, <2>1 DEF NextJob
<1>6. Live' \subseteq Live /\ (Exit(n) => n \notin Live')
  BY <1>1, <1>3 DEF Live, Exit
<1>7. \A i \in Live' : now' <= due'[i] /\ due'[i] <= startAt'[i] + QueryTime
  <2> SUFFICES ASSUME NEW i \in Live'
               PROVE  now' <= due'[i] /\ due'[i] <= startAt'[i] + QueryTime
    OBVIOUS
  <2>1. i \in Jobs /\ i \in Live /\ now <= due[i] /\ due[i] <= startAt[i] + QueryTime
    BY <1>6 DEF Live, WavesInv
  <2>2. CASE i = n /\ Dial(n)
    <3>1. due[i] <= startAt[i] + LookupTime
      BY <2>1, <2>2 DEF Dial, WavesInv
    <3> QED
      BY <1>1, <1>2, <1>3, <2>1, <2>2, <3>1 DEF QueryTime
  <2>3. CASE ~(i = n /\ Dial(n))
    BY <1>2, <1>3, <2>1, <2>3
  <2> QED
    BY <2>2, <2>3
<1>8. \A i \in Jobs : query'[i] = "resolve" => query[i] = "resolve" /\ i # n
  BY <1>1, <1>3
<1>9. \A i \in Jobs : query'[i] = "resolve" => due'[i] <= startAt'[i] + LookupTime
  BY <1>2, <1>3, <1>8 DEF WavesInv
<1> QED
  BY <1>2, <1>4, <1>5, <1>7, <1>9 DEF WavesInv, QueryTime

LEMMA BodyWaves ==
  ASSUME TypeOK, WavesInv, BodyRead
  PROVE  WavesInv'
<1>1. /\ UNCHANGED <<now, query, due, startAt>> /\ pc' = "query" /\ bodyAt' = now /\ now \in Nat
      /\ pc = "body"
  BY DEF TypeOK, BodyRead
<1>2. \A i \in Jobs : query[i] = "todo"
  BY <1>1 DEF WavesInv
<1>3. Live' = {}
  BY <1>1, <1>2 DEF Live
<1>4. ASSUME NEW i \in Jobs PROVE now' <= Latest(i)'
  <2>1. i \in Nat \ {0} /\ bodyAt' \in Nat
    BY <1>1, TimingAssumption DEF Jobs
  <2>2. QueryTime \in Nat /\ WaveOf(i) \in Nat
    BY <2>1, TimingAssumption, Division DEF WaveOf, QueryTime
  <2>3. WaveOf(i) * QueryTime \in Nat
    BY <2>2, Products
  <2> QED
    BY <1>1, <2>3 DEF Latest
<1> QED
  BY <1>1, <1>2, <1>3, <1>4 DEF WavesInv, NextJob

LEMMA WavesInductive ==
  /\ Init => WavesInv
  /\ TypeOK /\ WavesInv /\ [Next]_vars => WavesInv'
<1>1. Init => WavesInv
  BY DEF Init, WavesInv, Live
<1>2. ASSUME TypeOK, WavesInv, [Next]_vars PROVE WavesInv'
  <2>1. CASE BodyRead
    BY <1>2, <2>1, BodyWaves
  <2>2. ASSUME NEW i \in Jobs, QueryStep(i) PROVE WavesInv'
    BY <1>2, <2>2, SpawnWaves, EndWaves DEF QueryStep
  <2>3. CASE Tick
    BY <1>2, <2>3, TickWaves
  <2>4. CASE BodyTimeout \/ Join \/ Write \/ Over \/ UNCHANGED vars
    <3>1. UNCHANGED <<now, query, due, bodyAt, startAt>> /\ (pc' = pc \/ pc' \notin {"body", "query"})
      BY <2>4 DEF BodyTimeout, Join, Write, Over, vars
    <3>2. Live' = Live /\ NextJob' = NextJob /\ \A i : Latest(i)' = Latest(i)
      BY <3>1 DEF Live, NextJob, Latest
    <3> QED
      BY <1>2, <3>1, <3>2 DEF WavesInv
  <2> QED
    BY <1>2, <2>1, <2>2, <2>3, <2>4 DEF Next
<1> QED
  BY <1>1, <1>2

\* Query i starts when the waves before it could have ended at the latest: the
\* semaphore of queryAll makes waves although nothing waits for one to end.
THEOREM WavesAreReal == Spec => []StartsWithItsWave
<1>1. WavesInv => StartsWithItsWave
  BY DEF WavesInv, StartsWithItsWave, Latest, WaveOf
<1> QED
  BY <1>1, TypesInductive, WavesInductive, PTL DEF Spec

----------------------------------------------------------------------------
(* The write deadline *)

\* All queries are over when the last wave can have ended at the latest, and an
\* answer is cut off only after the write deadline.
InTimeInv ==
  /\ pc \in {"query", "write", "cut"} => now <= bodyAt + Waves * QueryTime
  /\ pc = "cut" => now > Timeout + Slack

LEMMA LastWave ==
  ASSUME bodyAt \in Nat, NEW j \in Jobs
  PROVE  /\ Waves * QueryTime \in Nat /\ Latest(j + maxFanout) \in Nat
         /\ Latest(j + maxFanout) <= bodyAt + Waves * QueryTime
<1> DEFINE k == N + maxFanout
<1>1. j \in Nat \ {0} /\ j <= N /\ N \in Nat /\ maxFanout \in Nat \ {0}
  BY TimingAssumption DEF Jobs
<1>2. j + maxFanout \in Nat \ {0} /\ k \in Nat \ {0} /\ j + maxFanout <= k
  BY <1>1
<1>3. WaveOf(k) = Waves
  <2>1. k - 1 = N + maxFanout - 1
    BY <1>1
  <2> QED
    BY <2>1 DEF WaveOf, Waves
<1> HIDE DEF k
<1>4. Latest(j + maxFanout) \in Nat /\ Latest(j + maxFanout) <= Latest(k)
  BY <1>2, WaveTimes
<1>5. Latest(k) = bodyAt + Waves * QueryTime
  BY <1>3 DEF Latest
<1>6. Waves \in Nat /\ QueryTime \in Nat
  <2>1. k - 1 \in Nat
    BY <1>2
  <2>2. (k - 1) \div maxFanout \in Nat
    BY <1>1, <2>1, Division
  <2> QED
    BY <1>3, <2>2, TimingAssumption DEF WaveOf, QueryTime
<1>7. Waves * QueryTime \in Nat
  BY <1>6, Products
<1> QED
  BY <1>4, <1>5, <1>7

LEMMA InTimeInductive ==
  /\ Init => InTimeInv
  /\ TypeOK /\ WavesInv /\ InTimeInv /\ [Next]_vars => InTimeInv'
<1>1. Init => InTimeInv
  BY DEF Init, InTimeInv
<1>2. ASSUME TypeOK, WavesInv, InTimeInv, [Next]_vars PROVE InTimeInv'
  <2> DEFINE W == Waves * QueryTime
  <2>1. now \in Nat /\ bodyAt \in Nat /\ W \in Nat
    <3>1. 1 \in Jobs
      BY TimingAssumption DEF Jobs
    <3> QED
      BY <1>2, <3>1, LastWave DEF TypeOK
  <2>2. W' = W
    BY DEF Waves, QueryTime
  <2>3. InTimeInv <=> /\ pc \in {"query", "write", "cut"} => now <= bodyAt + W
                      /\ pc = "cut" => now > Timeout + Slack
    BY DEF InTimeInv
  <2>4. InTimeInv' <=> /\ pc' \in {"query", "write", "cut"} => now' <= bodyAt' + W
                       /\ pc' = "cut" => now' > Timeout + Slack
    BY DEF InTimeInv
  <2>5. \A j \in Live : due[j] <= bodyAt + W /\ due[j] \in Nat
    <3> SUFFICES ASSUME NEW j \in Live PROVE due[j] <= bodyAt + W /\ due[j] \in Nat
      OBVIOUS
    <3>1. /\ Latest(j + maxFanout) \in Nat /\ Latest(j + maxFanout) <= bodyAt + W
      BY <2>1, LastWave DEF Live
    <3>2. due[j] \in Nat /\ due[j] <= Latest(j + maxFanout)
      BY <1>2, LiveEnds
    <3> QED
      BY <2>1, <3>1, <3>2
  <2> HIDE DEF W
  <2>6. CASE BodyRead
    BY <2>1, <2>4, <2>6 DEF BodyRead
  <2>7. CASE Write
    <3>1. Timeout \in Nat /\ Slack \in Nat
      BY TimingAssumption
    <3> QED
      BY <1>2, <2>1, <2>3, <2>4, <2>7, <3>1 DEF Write, WriteTimeout
  <2>8. CASE Tick
    BY <1>2, <2>1, <2>3, <2>4, <2>5, <2>8 DEF Tick
  <2>9. CASE BodyTimeout \/ Join \/ Over \/ (\E i \in Jobs : QueryStep(i)) \/ UNCHANGED vars
    <3>1. UNCHANGED <<now, bodyAt>> /\ (pc' = pc \/ pc' = "refused" \/ (pc = "query" /\ pc' = "write"))
      BY <2>9 DEF BodyTimeout, Join, Over, QueryStep, Spawn, Dial, Exit, vars
    <3> QED
      BY <1>2, <2>3, <2>4, <3>1
  <2> QED
    BY <1>2, <2>6, <2>7, <2>8, <2>9 DEF Next
<1> QED
  BY <1>1, <1>2

\* No answer is cut off when the upload and all waves of queries together fit into
\* WriteTimeout.
THEOREM BudgetIsKept == Spec => []NotCutWithinBudget
<1>1. TypeOK /\ InTimeInv => NotCutWithinBudget
  <2> SUFFICES ASSUME TypeOK, InTimeInv, pc = "cut"
               PROVE  bodyAt + Waves * QueryTime > Timeout + Slack
    BY DEF NotCutWithinBudget
  <2>1. 1 \in Jobs /\ Timeout \in Nat /\ Slack \in Nat
    BY TimingAssumption DEF Jobs
  <2>2. now \in Nat /\ bodyAt \in Nat
    BY DEF TypeOK
  <2>3. Waves * QueryTime \in Nat
    BY <2>1, <2>2, LastWave
  <2>4. now <= bodyAt + Waves * QueryTime /\ now > Timeout + Slack
    BY DEF InTimeInv
  <2> HIDE DEF Waves, QueryTime
  <2> DEFINE W == Waves * QueryTime
  <2> HIDE DEF W
  <2>5. W \in Nat /\ now <= bodyAt + W
    BY <2>3, <2>4 DEF W
  <2>6. bodyAt + W > Timeout + Slack
    BY <2>1, <2>2, <2>4, <2>5
  <2> QED
    BY <2>6 DEF W
<1> QED
  BY <1>1, TypesInductive, WavesInductive, InTimeInductive, PTL DEF Spec
============================================================================
