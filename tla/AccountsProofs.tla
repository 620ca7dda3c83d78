--------------------------- MODULE AccountsProofs ---------------------------
(***************************************************************************)
(* The accounts file, for any servers, identities, contents of the file,   *)
(* and number of register commands and clients.                            *)
(***************************************************************************)
EXTENDS Accounts, WellFoundedInduction, TLAPS

----------------------------------------------------------------------------
(* Sets of numbers *)

LEMMA LeastNumber ==
  ASSUME NEW S, S \subseteq Nat, S # {}
  PROVE  \E n \in S : \A m \in S : n <= m
<1> DEFINE Less == {p \in Nat \X Nat : p[1] < p[2]}
<1>1. IsWellFoundedOn(Less, Nat)
  BY NatLessThanWellFounded, Zenon DEF OpToRel
<1>2. PICK n \in S : \A m \in S : ~(<<m, n>> \in Less)
  BY <1>1, WFMin, Zenon
<1>3. ASSUME NEW m \in S PROVE n <= m
  <2>1. <<m, n>> \in Nat \X Nat /\ ~(<<m, n>> \in Less)
    BY <1>2
  <2>2. ~(m < n)
    BY <2>1
  <2> QED
    BY <2>2
<1> QED
  BY <1>3

LEMMA MaxOfLines ==
  ASSUME NEW n \in Nat, NEW S, S \subseteq 1 .. n, S # {}
  PROVE  Max(S) \in S /\ \A i \in S : i <= Max(S)
<1>1. {n - i : i \in S} \subseteq Nat
  OBVIOUS
<1>2. PICK d \in {n - i : i \in S} : \A e \in {n - i : i \in S} : d <= e
  BY <1>1, LeastNumber
<1>3. PICK x \in S : d = n - x
  OBVIOUS
<1>4. \A i \in S : i <= x
  <2> TAKE i \in S
  <2>1. n - x <= n - i
    BY <1>2, <1>3
  <2> QED
    BY <2>1
<1>5. \E y \in S : \A i \in S : y >= i
  BY <1>4
<1> QED
  BY <1>5 DEF Max

----------------------------------------------------------------------------
(* The lines that SaveAccount keeps *)

\* The function kept of newLines.
Kept(old, servers) ==
  CHOOSE kept : kept = [n \in 0 .. Len(old) |->
    IF n = 0 THEN <<>>
    ELSE IF old[n].addr \in Range(servers) THEN kept[n - 1]
    ELSE Append(kept[n - 1], old[n])]

LEMMA NewLinesKeep ==
  \A old, servers, acc :
    newLines(old, servers, acc)
      = Kept(old, servers)[Len(old)] \o [i \in DOMAIN servers |-> accountLine(servers[i], acc)]
BY DEF newLines, Kept

\* The definition of kept is one: a function with these values exists.
LEMMA KeptIs ==
  ASSUME NEW old, Len(old) \in Nat, NEW servers
  PROVE  /\ Kept(old, servers)[0] = <<>>
         /\ \A n \in 1 .. Len(old) :
              Kept(old, servers)[n] = IF old[n].addr \in Range(servers)
                                      THEN Kept(old, servers)[n - 1]
                                      ELSE Append(Kept(old, servers)[n - 1], old[n])
<1> DEFINE turn(k, n) == IF old[n].addr \in Range(servers) THEN k ELSE Append(k, old[n])
           defined(m) == \E f : f = [n \in 0 .. m |-> IF n = 0 THEN <<>> ELSE turn(f[n - 1], n)]
           bad == {m \in 0 .. Len(old) : ~defined(m)}
<1>1. ASSUME bad # {} PROVE FALSE
  <2>0. bad \subseteq Nat
    OBVIOUS
  <2>1. PICK m \in bad : \A k \in bad : m <= k
    <3> HIDE DEF bad
    <3> QED
      BY <1>1, <2>0, LeastNumber
  <2>2. m \in Nat /\ m <= Len(old) /\ ~defined(m)
    <3> HIDE DEF defined
    <3> QED
      BY <2>1
  <2>3. defined(0)
    <3> HIDE DEF turn
    <3> DEFINE f == [n \in 0 .. 0 |-> <<>>]
    <3>1. f = [n \in 0 .. 0 |-> IF n = 0 THEN <<>> ELSE turn(f[n - 1], n)]
      OBVIOUS
    <3> QED
      BY <3>1
  <2>4. m # 0 /\ defined(m - 1)
    <3> HIDE DEF defined
    <3>1. m # 0
      BY <2>2, <2>3
    <3>2. m - 1 \in 0 .. Len(old) /\ ~(m <= m - 1)
      BY <2>2, <3>1
    <3> QED
      BY <2>1, <3>1, <3>2
  <2> HIDE DEF turn
  <2>5. PICK f : f = [n \in 0 .. m - 1 |-> IF n = 0 THEN <<>> ELSE turn(f[n - 1], n)]
    BY <2>4
  <2> DEFINE g == [n \in 0 .. m |-> IF n = m THEN turn(f[m - 1], m) ELSE f[n]]
  <2>6. \A n \in 0 .. m : g[n] = IF n = 0 THEN <<>> ELSE turn(g[n - 1], n)
    <3> TAKE n \in 0 .. m
    <3>1. CASE n = m
      <4>1. g[n - 1] = f[m - 1] /\ g[n] = turn(f[m - 1], m)
        BY <2>2, <2>4, <3>1
      <4> QED
        BY <2>4, <3>1, <4>1
    <3>2. CASE n # m
      <4>1. n \in 0 .. m - 1 /\ g[n] = f[n] /\ (n # 0 => g[n - 1] = f[n - 1])
        BY <2>2, <3>2
      <4>2. f[n] = IF n = 0 THEN <<>> ELSE turn(f[n - 1], n)
        BY <2>5, <4>1
      <4> QED
        BY <4>1, <4>2
    <3> QED
      BY <3>1, <3>2
  <2>7. g = [n \in 0 .. m |-> IF n = 0 THEN <<>> ELSE turn(g[n - 1], n)]
    BY <2>6
  <2> HIDE DEF g
  <2> QED
    BY <2>2, <2>7
<1>2. defined(Len(old))
  <2> HIDE DEF defined
  <2> QED
    BY <1>1
<1> DEFINE k == Kept(old, servers)
<1>3. k = [n \in 0 .. Len(old) |-> IF n = 0 THEN <<>> ELSE turn(k[n - 1], n)]
  BY <1>2 DEF Kept
<1> HIDE DEF k
<1>4. k[0] = <<>>
  BY <1>3
<1>5. \A n \in 1 .. Len(old) : k[n] = turn(k[n - 1], n)
  <2> TAKE n \in 1 .. Len(old)
  <2>1. n \in 0 .. Len(old) /\ n # 0
    OBVIOUS
  <2> HIDE DEF turn
  <2> QED
    BY <1>3, <2>1
<1> QED
  BY <1>4, <1>5 DEF k

----------------------------------------------------------------------------
(* Which account a file gives a server *)

Entry(lines, i, s) == lines[i].addr = s /\ lines[i].acc # None

\* The last entry of s among the first n lines is a.
Last(lines, n, s, a) ==
  \E p \in 1 .. n : /\ Entry(lines, p, s) /\ lines[p].acc = a
                    /\ \A q \in p + 1 .. n : ~Entry(lines, q, s)

LEMMA LastStep ==
  ASSUME NEW lines, NEW n \in Nat, NEW s, NEW a
  PROVE  Last(lines, n + 1, s, a) <=> IF Entry(lines, n + 1, s) THEN lines[n + 1].acc = a
                                      ELSE Last(lines, n, s, a)
<1> DEFINE e(i) == Entry(lines, i, s)
           acc(i) == lines[i].acc
<1>1. /\ Last(lines, n, s, a)
           <=> \E p \in 1 .. n : e(p) /\ acc(p) = a /\ \A q \in p + 1 .. n : ~e(q)
      /\ Last(lines, n + 1, s, a)
           <=> \E p \in 1 .. n + 1 : e(p) /\ acc(p) = a /\ \A q \in p + 1 .. n + 1 : ~e(q)
  BY DEF Last
<1> HIDE DEF e, acc
<1>2. CASE e(n + 1)
  <2>1. ASSUME Last(lines, n + 1, s, a) PROVE acc(n + 1) = a
    <3>1. PICK p \in 1 .. n + 1 : e(p) /\ acc(p) = a /\ \A q \in p + 1 .. n + 1 : ~e(q)
      BY <1>1, <2>1
    <3>2. ~(n + 1 \in p + 1 .. n + 1)
      BY <1>2, <3>1
    <3>3. p = n + 1
      BY <3>2
    <3> QED
      BY <3>1, <3>3
  <2>2. ASSUME acc(n + 1) = a PROVE Last(lines, n + 1, s, a)
    <3>1. n + 1 \in 1 .. n + 1 /\ (n + 1) + 1 .. n + 1 = {}
      OBVIOUS
    <3> QED
      BY <1>1, <1>2, <2>2, <3>1
  <2> QED
    BY <1>2, <2>1, <2>2 DEF e, acc
<1>3. CASE ~e(n + 1)
  <2>1. ASSUME Last(lines, n + 1, s, a) PROVE Last(lines, n, s, a)
    <3>1. PICK p \in 1 .. n + 1 : e(p) /\ acc(p) = a /\ \A q \in p + 1 .. n + 1 : ~e(q)
      BY <1>1, <2>1
    <3>2. p \in 1 .. n
      BY <1>3, <3>1
    <3>3. \A q \in p + 1 .. n : ~e(q)
      BY <3>1
    <3> QED
      BY <1>1, <3>1, <3>2, <3>3
  <2>2. ASSUME Last(lines, n, s, a) PROVE Last(lines, n + 1, s, a)
    <3>1. PICK p \in 1 .. n : e(p) /\ acc(p) = a /\ \A q \in p + 1 .. n : ~e(q)
      BY <1>1, <2>2
    <3>2. p \in 1 .. n + 1
      OBVIOUS
    <3>3. \A q \in p + 1 .. n + 1 : ~e(q)
      BY <1>3, <3>1
    <3> QED
      BY <1>1, <3>1, <3>2, <3>3
  <2> QED
    BY <1>3, <2>1, <2>2 DEF e
<1> QED
  BY <1>2, <1>3

\* It depends on those lines only.
LEMMA LastSame ==
  ASSUME NEW f, NEW g, NEW n \in Nat, \A i \in 1 .. n : f[i] = g[i], NEW s, NEW a
  PROVE  Last(f, n, s, a) <=> Last(g, n, s, a)
<1>1. \A p \in 1 .. n : \A q \in p + 1 .. n : q \in 1 .. n
  OBVIOUS
<1>2. \A i \in 1 .. n : (Entry(f, i, s) <=> Entry(g, i, s)) /\ f[i].acc = g[i].acc
  BY DEF Entry
<1> HIDE DEF Entry
<1> QED
  BY <1>1, <1>2, Zenon DEF Last

LEMMA LineFacts ==
  /\ \A l \in Line : /\ l.addr \in Addrs \cup {None} /\ l.acc \in Account \cup {None}
                     /\ l.long \in BOOLEAN /\ (l.addr = None => l.acc = None)
  /\ None \notin Addrs /\ None \notin Account
BY AccountsAssumption DEF Line

\* What SaveAccount keeps of the first m lines of a file: the entries of the servers
\* it does not register, in their order.
KeptWell(old, servers, m) ==
  LET k == Kept(old, servers)[m]
  IN /\ k \in Seq(Line)
     /\ \A j \in 1 .. Len(k) : k[j].addr \notin Range(servers)
     /\ \A s : s \notin Range(servers) => \A a : Last(k, Len(k), s, a) <=> Last(old, m, s, a)
     /\ \A j \in 1 .. Len(k) : k[j].long => \E i \in 1 .. m : old[i].long

LEMMA KeptTurn ==
  ASSUME NEW old \in Seq(Line), NEW servers, NEW m \in 1 .. Len(old), KeptWell(old, servers, m - 1)
  PROVE  KeptWell(old, servers, m)
<1> DEFINE k == Kept(old, servers)[m - 1]
           l == old[m]
           kk == Kept(old, servers)[m]
<1>1. l \in Line /\ m \in Nat /\ m - 1 \in Nat /\ (m - 1) + 1 = m
  OBVIOUS
<1>2. kk = IF l.addr \in Range(servers) THEN k ELSE Append(k, l)
  BY KeptIs
<1>3. /\ k \in Seq(Line)
      /\ \A j \in 1 .. Len(k) : k[j].addr \notin Range(servers)
      /\ \A s : s \notin Range(servers) => \A a : Last(k, Len(k), s, a) <=> Last(old, m - 1, s, a)
      /\ \A j \in 1 .. Len(k) : k[j].long => \E i \in 1 .. m - 1 : old[i].long
  BY DEF KeptWell
<1>4. \A s, a : Last(old, m, s, a) <=> IF Entry(old, m, s) THEN l.acc = a ELSE Last(old, m - 1, s, a)
  BY <1>1, LastStep
<1>5. \A i : i \in 1 .. m - 1 => i \in 1 .. m
  BY <1>1
<1>6. SUFFICES /\ kk \in Seq(Line)
               /\ \A j \in 1 .. Len(kk) : kk[j].addr \notin Range(servers)
               /\ \A s : s \notin Range(servers) => \A a : Last(kk, Len(kk), s, a) <=> Last(old, m, s, a)
               /\ \A j \in 1 .. Len(kk) : kk[j].long => \E i \in 1 .. m : old[i].long
  BY DEF KeptWell
<1>7. CASE l.addr \in Range(servers)
  <2>1. \A s : s \notin Range(servers) => ~Entry(old, m, s)
    BY <1>7 DEF Entry
  <2> HIDE DEF k, kk
  <2>2. kk = k
    BY <1>2, <1>7
  <2> QED
    BY <1>3, <1>4, <1>5, <2>1, <2>2, Zenon
<1>8. CASE l.addr \notin Range(servers)
  <2>1. kk = Append(k, l)
    BY <1>2, <1>8
  <2> HIDE DEF k, kk
  <2>2. /\ kk \in Seq(Line) /\ Len(kk) = Len(k) + 1 /\ Len(k) \in Nat
        /\ \A j \in 1 .. Len(k) : kk[j] = k[j]
        /\ kk[Len(k) + 1] = l
    BY <1>1, <1>3, <2>1
  <2>3. \A j \in 1 .. Len(kk) : j \in 1 .. Len(k) \/ j = Len(k) + 1
    BY <2>2
  <2>4. ASSUME NEW s, NEW a, s \notin Range(servers)
        PROVE  Last(kk, Len(kk), s, a) <=> Last(old, m, s, a)
    <3>1. Last(kk, Len(k) + 1, s, a)
            <=> IF Entry(kk, Len(k) + 1, s) THEN kk[Len(k) + 1].acc = a ELSE Last(kk, Len(k), s, a)
      BY <2>2, LastStep
    <3>2. Last(kk, Len(k), s, a) <=> Last(k, Len(k), s, a)
      BY <2>2, LastSame
    <3>3. Entry(kk, Len(k) + 1, s) <=> Entry(old, m, s)
      BY <2>2 DEF Entry, l
    <3>4. Last(k, Len(k), s, a) <=> Last(old, m - 1, s, a)
      BY <1>3, <2>4
    <3> QED
      BY <1>4, <2>2, <3>1, <3>2, <3>3, <3>4
  <2>5. \A j \in 1 .. Len(kk) : kk[j].addr \notin Range(servers)
    BY <1>3, <1>8, <2>2, <2>3
  <2>6. \A j \in 1 .. Len(kk) : kk[j].long => \E i \in 1 .. m : old[i].long
    <3>1. l.long => \E i \in 1 .. m : old[i].long
      BY <1>1 DEF l
    <3> QED
      BY <1>3, <1>5, <2>2, <2>3, <3>1
  <2> QED
    BY <2>2, <2>4, <2>5, <2>6
<1> QED
  BY <1>7, <1>8

LEMMA KeptAll ==
  ASSUME NEW old \in Seq(Line), NEW servers
  PROVE  KeptWell(old, servers, Len(old))
<1> DEFINE bad == {m \in 0 .. Len(old) : ~KeptWell(old, servers, m)}
<1>1. KeptWell(old, servers, 0)
  <2>1. Kept(old, servers)[0] = <<>>
    BY KeptIs
  <2>2. \A f, s, a : ~Last(f, 0, s, a)
    BY DEF Last
  <2> QED
    BY <2>1, <2>2 DEF KeptWell
<1>2. ASSUME bad # {} PROVE FALSE
  <2>1. bad \subseteq Nat
    OBVIOUS
  <2>2. PICK m \in bad : \A k \in bad : m <= k
    <3> HIDE DEF bad
    <3> QED
      BY <1>2, <2>1, LeastNumber
  <2>3. m \in 1 .. Len(old) /\ m - 1 \in 0 .. Len(old) /\ ~(m <= m - 1)
    BY <1>1, <2>2
  <2>4. KeptWell(old, servers, m - 1)
    BY <2>2, <2>3
  <2> QED
    BY <2>2, <2>3, <2>4, KeptTurn
<1> QED
  BY <1>2

LEMMA LastUnique ==
  ASSUME NEW f, NEW n \in Nat, NEW s, NEW a, NEW b, Last(f, n, s, a), Last(f, n, s, b)
  PROVE  a = b
<1>1. PICK p \in 1 .. n : f[p].acc = a /\ Entry(f, p, s) /\ \A q \in p + 1 .. n : ~Entry(f, q, s)
  BY DEF Last
<1>2. PICK r \in 1 .. n : f[r].acc = b /\ Entry(f, r, s) /\ \A q \in r + 1 .. n : ~Entry(f, q, s)
  BY DEF Last
<1> HIDE DEF Entry
<1>3. ~(p < r) /\ ~(r < p)
  BY <1>1, <1>2
<1>4. p = r
  BY <1>3
<1> QED
  BY <1>1, <1>2, <1>4

\* Lines without an entry of s change nothing for s.
LEMMA LastPast ==
  ASSUME NEW f, NEW n \in Nat, NEW m \in Nat, n <= m, NEW s, NEW a,
         \A q \in n + 1 .. m : ~Entry(f, q, s)
  PROVE  Last(f, m, s, a) <=> Last(f, n, s, a)
<1> DEFINE e(i) == Entry(f, i, s)
           acc(i) == f[i].acc
<1>1. /\ Last(f, n, s, a) <=> \E p \in 1 .. n : e(p) /\ acc(p) = a /\ \A q \in p + 1 .. n : ~e(q)
      /\ Last(f, m, s, a) <=> \E p \in 1 .. m : e(p) /\ acc(p) = a /\ \A q \in p + 1 .. m : ~e(q)
      /\ \A q \in n + 1 .. m : ~e(q)
  BY DEF Last
<1> HIDE DEF e, acc
<1>2. ASSUME NEW p \in 1 .. n PROVE p \in 1 .. m
  OBVIOUS
<1>3. ASSUME NEW p \in 1 .. m, e(p) PROVE p \in 1 .. n
  BY <1>1, <1>3
<1>4. ASSUME NEW p \in 1 .. n
      PROVE  (\A q \in p + 1 .. n : ~e(q)) <=> (\A q \in p + 1 .. m : ~e(q))
  BY <1>1
<1> QED
  BY <1>1, <1>2, <1>3, <1>4

\* The accounts on some lines of a file: of each server, those on the last of them.
LEMMA EntriesAre ==
  ASSUME NEW f \in Seq(Line), NEW I, I \subseteq 1 .. Len(f)
  PROVE  LET map == entries(f, I)
         IN /\ map = [s \in DOMAIN map |-> map[s]]
            /\ DOMAIN map \subseteq Addrs
            /\ \A s : s \in DOMAIN map <=> \E i \in I : Entry(f, i, s)
            /\ \A s \in DOMAIN map :
                 /\ map[s] \in Account
                 /\ \E p \in I : /\ Entry(f, p, s) /\ map[s] = f[p].acc
                                 /\ \A q \in I : Entry(f, q, s) => q <= p
<1> DEFINE good == {i \in I : f[i].acc # None}
           D == {f[i].addr : i \in good}
           of(s) == {i \in good : f[i].addr = s}
           map == [s \in D |-> f[Max(of(s))].acc]
<1>1. entries(f, I) = map
  BY DEF entries
<1>2. \A i \in I : i \in 1 .. Len(f) /\ f[i] \in Line
  OBVIOUS
<1>3. \A s, i : i \in of(s) <=> i \in I /\ Entry(f, i, s)
  BY DEF Entry
<1>4. DOMAIN map = D /\ \A s : s \in D <=> \E i \in I : Entry(f, i, s)
  BY DEF Entry
<1>5. D \subseteq Addrs
  BY <1>2, LineFacts
<1>6. ASSUME NEW s \in D
      PROVE  /\ map[s] \in Account
             /\ \E p \in I : /\ Entry(f, p, s) /\ map[s] = f[p].acc
                             /\ \A q \in I : Entry(f, q, s) => q <= p
  <2>1. map[s] = f[Max(of(s))].acc
    OBVIOUS
  <2>2. of(s) \subseteq 1 .. Len(f) /\ of(s) # {}
    BY <1>2, <1>3, <1>4
  <2> HIDE DEF of, map, D
  <2>3. Max(of(s)) \in of(s) /\ \A i \in of(s) : i <= Max(of(s))
    BY <2>2, MaxOfLines
  <2> DEFINE p == Max(of(s))
  <2>4. p \in I /\ Entry(f, p, s) /\ \A q \in I : Entry(f, q, s) => q <= p
    BY <1>3, <2>3
  <2>5. f[p].acc \in Account
    BY <1>2, <2>4, LineFacts DEF Entry
  <2> QED
    BY <2>1, <2>4, <2>5
<1> HIDE DEF D
<1>7. map = [s \in DOMAIN map |-> map[s]]
  BY <1>4
<1> HIDE DEF map
<1> QED
  BY <1>1, <1>4, <1>5, <1>6, <1>7

\* All that a file records.
whole(f) == entries(f, DOMAIN f)

LEMMA WholeIs ==
  ASSUME NEW f \in Seq(Line)
  PROVE  /\ whole(f) = [s \in DOMAIN whole(f) |-> whole(f)[s]]
         /\ DOMAIN whole(f) \subseteq Addrs
         /\ \A s \in DOMAIN whole(f) : whole(f)[s] \in Account /\ Last(f, Len(f), s, whole(f)[s])
         /\ \A s : s \in DOMAIN whole(f) <=> \E i \in 1 .. Len(f) : Entry(f, i, s)
         /\ \A s, a : Last(f, Len(f), s, a) => s \in DOMAIN whole(f) /\ whole(f)[s] = a
<1> DEFINE map == whole(f)
           n == Len(f)
<1>1. DOMAIN f = 1 .. n /\ n \in Nat
  OBVIOUS
<1>2. /\ map = [s \in DOMAIN map |-> map[s]]
      /\ DOMAIN map \subseteq Addrs
      /\ \A s : s \in DOMAIN map <=> \E i \in 1 .. n : Entry(f, i, s)
      /\ \A s \in DOMAIN map :
           /\ map[s] \in Account
           /\ \E p \in 1 .. n : /\ Entry(f, p, s) /\ map[s] = f[p].acc
                                /\ \A q \in 1 .. n : Entry(f, q, s) => q <= p
  <2>1. map = entries(f, 1 .. n) /\ 1 .. n \subseteq 1 .. Len(f)
    BY <1>1 DEF whole
  <2>2. LET m == entries(f, 1 .. n)
        IN /\ m = [s \in DOMAIN m |-> m[s]]
           /\ DOMAIN m \subseteq Addrs
           /\ \A s : s \in DOMAIN m <=> \E i \in 1 .. n : Entry(f, i, s)
           /\ \A s \in DOMAIN m :
                /\ m[s] \in Account
                /\ \E p \in 1 .. n : /\ Entry(f, p, s) /\ m[s] = f[p].acc
                                     /\ \A q \in 1 .. n : Entry(f, q, s) => q <= p
    <3> HIDE DEF n, Entry
    <3> QED
      BY <2>1, EntriesAre, Zenon
  <2> HIDE DEF map, n, Entry
  <2> QED
    BY <2>1, <2>2, Zenon
<1> HIDE DEF map, n, Entry
<1>3. ASSUME NEW s \in DOMAIN map PROVE Last(f, n, s, map[s])
  <2>1. PICK p \in 1 .. n : /\ Entry(f, p, s) /\ map[s] = f[p].acc
                            /\ \A q \in 1 .. n : Entry(f, q, s) => q <= p
    BY <1>2
  <2>2. \A q \in p + 1 .. n : ~Entry(f, q, s)
    BY <1>1, <2>1
  <2> QED
    BY <2>1, <2>2 DEF Last
<1>4. ASSUME NEW s, NEW a, Last(f, n, s, a) PROVE s \in DOMAIN map /\ map[s] = a
  <2>1. s \in DOMAIN map
    BY <1>2, <1>4 DEF Last
  <2> QED
    BY <1>1, <1>3, <1>4, <2>1, LastUnique
<1> QED
  BY <1>2, <1>3, <1>4 DEF map, n

\* What accountLine writes for a server is an entry of this server, or none at all.
LEMMA AccountLineIs ==
  ASSUME NEW s \in Addrs, NEW acc \in [user : Users, salt : Salts, key : Keys]
  PROVE  LET l == accountLine(s, acc)
         IN /\ l \in Line /\ ~l.long /\ l.addr \in {None, s}
            /\ l.acc # None => l.addr = s
<1>1. parsedAccount(acc) \in Account
  <2>1. Trim[acc.user] \in Users /\ Trim[acc.salt] \in Salts /\ Trim[acc.key] \in Keys
    BY AccountsAssumption
  <2> QED
    BY <2>1 DEF parsedAccount, Account
<1> HIDE DEF Account
<1>2. CASE {s, acc.user, acc.salt, acc.key} \cap Colon # {}
  BY <1>2 DEF accountLine, Line
<1>3. CASE {s, acc.user, acc.salt, acc.key} \cap Colon = {}
  <2>1. accountLine(s, acc) = [addr |-> s, acc |-> parsedAccount(acc), long |-> FALSE]
    BY <1>3 DEF accountLine
  <2> QED
    BY <1>1, <2>1, AccountsAssumption DEF Line
<1> QED
  BY <1>2, <1>3

\* The lines of a registration: those kept, then one for each server.
LEMMA NewShape ==
  ASSUME NEW old \in Seq(Line), NEW servers \in Seq(Addrs),
         NEW acc \in [user : Users, salt : Salts, key : Keys]
  PROVE  LET new == newLines(old, servers, acc)
             k == Kept(old, servers)[Len(old)]
         IN /\ new \in Seq(Line) /\ Len(new) = Len(k) + Len(servers)
            /\ k \in Seq(Line)
            /\ \A j \in 1 .. Len(k) : new[j] = k[j]
            /\ \A i \in 1 .. Len(servers) : new[Len(k) + i] = accountLine(servers[i], acc)
<1> DEFINE new == newLines(old, servers, acc)
           k == Kept(old, servers)[Len(old)]
           t == [i \in DOMAIN servers |-> accountLine(servers[i], acc)]
<1>1. k \in Seq(Line)
  BY KeptAll DEF KeptWell
<1>2. \A i \in 1 .. Len(servers) : servers[i] \in Addrs /\ accountLine(servers[i], acc) \in Line
  BY AccountLineIs
<1>3. t \in Seq(Line) /\ Len(t) = Len(servers) /\ Len(servers) \in Nat
      /\ \A i \in 1 .. Len(servers) : t[i] = accountLine(servers[i], acc)
  BY <1>2
<1>4. new = k \o t
  BY NewLinesKeep
<1> HIDE DEF new, k, t
<1>5. /\ new \in Seq(Line) /\ Len(new) = Len(k) + Len(servers)
      /\ \A j \in 1 .. Len(k) : new[j] = k[j]
  <2>1. new \in Seq(Line) /\ Len(new) = Len(k) + Len(t)
    <3>1. \A a, b \in Seq(Line) : a \o b \in Seq(Line) /\ Len(a \o b) = Len(a) + Len(b)
      OBVIOUS
    <3>2. t \in Seq(Line)
      BY <1>3
    <3> QED
      BY <1>1, <1>4, <3>1, <3>2
  <2>2. ASSUME NEW j \in 1 .. Len(k) PROVE new[j] = k[j]
    BY <1>1, <1>3, <1>4
  <2>3. Len(new) = Len(k) + Len(servers)
    BY <1>3, <2>1, Zenon
  <2> QED
    BY <2>1, <2>2, <2>3
<1>6. ASSUME NEW i \in 1 .. Len(servers) PROVE new[Len(k) + i] = accountLine(servers[i], acc)
  <2>1. Len(k) \in Nat /\ i \in Nat /\ i >= 1 /\ i <= Len(t)
    BY <1>1, <1>3
  <2>2. new[Len(k) + i] = t[i]
    BY <1>1, <1>3, <1>4, <2>1
  <2> QED
    BY <1>3, <2>2
<1> QED
  BY <1>1, <1>5, <1>6 DEF new, k

\* Each server's entry is of the registration; the others' are as before.
LEMMA NewEntries ==
  ASSUME NEW old \in Seq(Line), NEW servers \in Seq(Addrs),
         NEW acc \in [user : Users, salt : Salts, key : Keys]
  PROVE  LET new == newLines(old, servers, acc)
         IN /\ \A s : s \in Range(servers) =>
                 /\ s \in DOMAIN whole(new) <=> accountLine(s, acc).acc # None
                 /\ s \in DOMAIN whole(new) => whole(new)[s] = accountLine(s, acc).acc
            /\ \A s : s \notin Range(servers) =>
                 /\ s \in DOMAIN whole(new) <=> s \in DOMAIN whole(old)
                 /\ s \in DOMAIN whole(new) => whole(new)[s] = whole(old)[s]
            /\ blocks(new) => blocks(old)
<1> DEFINE new == newLines(old, servers, acc)
           k == Kept(old, servers)[Len(old)]
           n == Len(k)
<1>1. /\ new \in Seq(Line) /\ Len(new) = n + Len(servers) /\ k \in Seq(Line)
      /\ \A j \in 1 .. n : new[j] = k[j]
      /\ \A i \in 1 .. Len(servers) : new[n + i] = accountLine(servers[i], acc)
  BY NewShape
<1>2. /\ \A j \in 1 .. n : k[j].addr \notin Range(servers)
      /\ \A s : s \notin Range(servers) => \A a : Last(k, n, s, a) <=> Last(old, Len(old), s, a)
      /\ \A j \in 1 .. n : k[j].long => \E i \in 1 .. Len(old) : old[i].long
  BY KeptAll DEF KeptWell
<1> HIDE DEF new, k, n
<1>3. n \in Nat /\ Len(servers) \in Nat /\ Len(old) \in Nat /\ Len(new) \in Nat
  BY <1>1 DEF n
<1>4. \A j \in 1 .. Len(new) : j \in 1 .. n \/ \E i \in 1 .. Len(servers) : j = n + i
  <2> TAKE j \in 1 .. Len(new)
  <2>1. CASE j > n
    <3>1. j - n \in 1 .. Len(servers) /\ j = n + (j - n)
      BY <1>1, <1>3, <2>1
    <3> QED
      BY <3>1
  <2> QED
    BY <1>3, <2>1
<1>5. \A s : s \in Range(servers) <=> \E i \in 1 .. Len(servers) : s = servers[i]
  BY DEF Range
<1>6. \A i \in 1 .. Len(servers) : servers[i] \in Addrs
  OBVIOUS
<1>7. \A s \in Addrs : /\ ~accountLine(s, acc).long
                       /\ accountLine(s, acc).acc # None => accountLine(s, acc).addr = s
                       /\ accountLine(s, acc).addr \in {None, s}
  BY AccountLineIs
<1>8. ASSUME NEW s, s \in Range(servers)
      PROVE  /\ s \in DOMAIN whole(new) <=> accountLine(s, acc).acc # None
             /\ s \in DOMAIN whole(new) => whole(new)[s] = accountLine(s, acc).acc
  <2> DEFINE a == accountLine(s, acc).acc
  <2>1. PICK i \in 1 .. Len(servers) : s = servers[i]
    BY <1>5, <1>8
  <2>2. s \in Addrs /\ s # None
    BY <1>6, <2>1, LineFacts
  <2>3. ASSUME NEW j \in 1 .. Len(new), Entry(new, j, s) PROVE a # None /\ new[j].acc = a
    <3>1. new[j].addr = s /\ new[j].acc # None
      BY <2>3 DEF Entry
    <3>2. ~(j \in 1 .. n)
      BY <1>1, <1>2, <1>8, <3>1
    <3>3. PICK h \in 1 .. Len(servers) : j = n + h
      BY <1>4, <3>2
    <3>4. new[j] = accountLine(servers[h], acc)
      BY <1>1, <3>3
    <3>5. servers[h] = s
      BY <1>6, <1>7, <3>1, <3>4
    <3> QED
      BY <3>1, <3>4, <3>5
  <2>4. ASSUME a # None PROVE \E j \in 1 .. Len(new) : Entry(new, j, s)
    <3>1. n + i \in 1 .. Len(new)
      BY <1>1, <1>3
    <3>2. new[n + i] = accountLine(s, acc)
      BY <1>1, <2>1
    <3>3. Entry(new, n + i, s)
      BY <1>7, <2>2, <2>4, <3>2 DEF Entry
    <3> QED
      BY <3>1, <3>3
  <2> HIDE DEF a
  <2>5. s \in DOMAIN whole(new) <=> \E j \in 1 .. Len(new) : Entry(new, j, s)
    BY <1>1, WholeIs
  <2>6. ASSUME s \in DOMAIN whole(new) PROVE whole(new)[s] = a
    <3>1. Last(new, Len(new), s, whole(new)[s])
      BY <1>1, <2>6, WholeIs
    <3> QED
      BY <2>3, <3>1 DEF Last
  <2> QED
    BY <2>3, <2>4, <2>5, <2>6 DEF a
<1>9. ASSUME NEW s, s \notin Range(servers)
      PROVE  /\ s \in DOMAIN whole(new) <=> s \in DOMAIN whole(old)
             /\ s \in DOMAIN whole(new) => whole(new)[s] = whole(old)[s]
  <2>1. \A j \in n + 1 .. Len(new) : ~Entry(new, j, s)
    <3> SUFFICES ASSUME NEW j \in n + 1 .. Len(new), Entry(new, j, s) PROVE FALSE
      OBVIOUS
    <3>1. j \in 1 .. Len(new) /\ ~(j \in 1 .. n)
      BY <1>3
    <3>2. PICK h \in 1 .. Len(servers) : j = n + h
      BY <1>4, <3>1
    <3>3. accountLine(servers[h], acc).acc # None /\ accountLine(servers[h], acc).addr = s
      BY <1>1, <3>2 DEF Entry
    <3>4. servers[h] = s
      BY <1>6, <1>7, <3>3
    <3> QED
      BY <1>5, <1>9, <3>4
  <2>2. \A a : Last(new, Len(new), s, a) <=> Last(old, Len(old), s, a)
    <3> TAKE a
    <3>1. Last(new, Len(new), s, a) <=> Last(new, n, s, a)
      BY <1>1, <1>3, <2>1, LastPast
    <3>2. Last(new, n, s, a) <=> Last(k, n, s, a)
      BY <1>1, <1>3, LastSame
    <3> QED
      BY <1>2, <1>9, <3>1, <3>2
  <2>3. \A f \in Seq(Line) :
          /\ \A a : Last(f, Len(f), s, a) => s \in DOMAIN whole(f) /\ whole(f)[s] = a
          /\ s \in DOMAIN whole(f) => Last(f, Len(f), s, whole(f)[s])
    BY WholeIs
  <2> QED
    BY <1>1, <2>2, <2>3, Zenon
<1>10. ASSUME blocks(new) PROVE blocks(old)
  <2>1. PICK j \in 1 .. Len(new) : new[j].long
    BY <1>1, <1>10 DEF blocks
  <2>2. j \in 1 .. n
    BY <1>1, <1>4, <1>6, <1>7, <2>1
  <2>3. \E i \in 1 .. Len(old) : old[i].long
    BY <1>1, <1>2, <2>1, <2>2
  <2> QED
    BY <2>3 DEF blocks
<1> QED
  BY <1>8, <1>9, <1>10 DEF new

----------------------------------------------------------------------------
(***************************************************************************)
(* Why readers see whole files.  A file that the path names, or ever       *)
(* named, is never written again; a command writes only its own temporary  *)
(* file, and renames it when all its lines are there.                      *)
(***************************************************************************)
Named == {"old"} \cup Range(renamed)

Prefix(a, b) == Len(a) <= Len(b) /\ \A i \in 1 .. Len(a) : a[i] = b[i]

PathInv ==
  /\ path \in {None} \cup Named
  /\ path = None => content["old"] = <<>>
  /\ temps \subseteq {r \in Commands : cmd[r].pc \in {"write", "rename", "remove", "killed"}}

\* The lines of a command are those of a registration, based on a file that the
\* path named.
Based(r) ==
  /\ cmd[r].base \in {None} \cup Named
  /\ cmd[r].base = None => content["old"] = <<>>
  /\ cmd[r].lines = newLines(LinesAt(cmd[r].base), Servers[r], Identity[r])

CmdInv(r) ==
  /\ r \in Range(renamed) <=> cmd[r].pc = "done"
  /\ cmd[r].pc \in {"start", "create"} => content[r] = <<>>
  /\ cmd[r].pc \in {"create", "write", "rename", "done"} => Based(r)
  /\ cmd[r].pc = "write" => Prefix(content[r], cmd[r].lines)
  /\ cmd[r].pc \in {"rename", "done"} => content[r] = cmd[r].lines

ClInv(x) ==
  /\ cl[x].file \in {None} \cup Named
  /\ cl[x].pc = "start" => cl[x].file = None /\ cl[x].got = <<>>
  /\ cl[x].pc = "scan" => /\ cl[x].file # None /\ Prefix(cl[x].got, content[cl[x].file])
                          /\ \A i \in 1 .. Len(cl[x].got) : ~cl[x].got[i].long
  /\ cl[x].pc = "loaded" => cl[x].got = readable(LinesAt(cl[x].file))

FileInv ==
  TypeOK /\ PathInv /\ (\A r \in Commands : CmdInv(r)) /\ (\A x \in Clients : ClInv(x))

Phase == {"start", "create", "write", "rename", "remove", "done", "failed", "killed"}

LEMMA AccountsFields ==
  ASSUME TypeOK
  PROVE  /\ content \in [{"old"} \cup Commands -> Seq(Line)]
         /\ cmd \in [Commands -> [pc : Phase, lines : Seq(Line), base : {None, "old"} \cup Commands]]
         /\ cl \in [Clients -> [pc : {"start", "scan", "loaded"},
                                file : {None, "old"} \cup Commands, got : Seq(Line)]]
         /\ renamed \in Seq(Commands) /\ Range(renamed) \subseteq Commands
         /\ stale \subseteq Range(renamed) /\ Named \subseteq {"old"} \cup Commands /\ "old" \in Named
         /\ None \notin {"old"} \cup Commands /\ "old" \notin Commands
<1>1. renamed \in Seq(Commands) /\ stale \subseteq Range(renamed)
  BY DEF TypeOK
<1>2. Range(renamed) \subseteq Commands
  BY <1>1 DEF Range
<1> QED
  BY <1>1, <1>2, AccountsAssumption DEF TypeOK, Named, Phase

LEMMA RangeAppend ==
  ASSUME NEW S, NEW q \in Seq(S), NEW r \in S
  PROVE  Append(q, r) \in Seq(S) /\ Range(Append(q, r)) = Range(q) \cup {r}
<1>1. /\ Append(q, r) \in Seq(S) /\ Len(Append(q, r)) = Len(q) + 1 /\ Len(q) \in Nat
      /\ \A i \in 1 .. Len(q) : Append(q, r)[i] = q[i]
      /\ Append(q, r)[Len(q) + 1] = r
  OBVIOUS
<1> DEFINE a == Append(q, r)
<1> HIDE DEF a
<1>2. \A x : x \in Range(a) <=> \E i \in 1 .. Len(q) + 1 : a[i] = x
  BY <1>1 DEF a, Range
<1>3. \A x : x \in Range(q) <=> \E i \in 1 .. Len(q) : q[i] = x
  BY DEF Range
<1>4. \A i : i \in 1 .. Len(q) + 1 <=> i \in 1 .. Len(q) \/ i = Len(q) + 1
  BY <1>1
<1>5. \A x : x \in Range(a) <=> x \in Range(q) \/ x = r
  BY <1>1, <1>2, <1>3, <1>4 DEF a
<1> QED
  BY <1>1, <1>5 DEF a

\* The first n + 1 lines, when the first n are there.
LEMMA OneMore ==
  ASSUME NEW b \in Seq(Line), NEW a \in Seq(Line), Prefix(a, b), a # b
  PROVE  /\ Len(a) + 1 \in 1 .. Len(b)
         /\ SubSeq(b, 1, Len(a) + 1) \in Seq(Line) /\ Prefix(SubSeq(b, 1, Len(a) + 1), b)
         /\ Append(a, b[Len(a) + 1]) \in Seq(Line) /\ Prefix(Append(a, b[Len(a) + 1]), b)
<1>1. Len(a) \in Nat /\ Len(b) \in Nat /\ Len(a) <= Len(b)
      /\ \A i \in 1 .. Len(a) : a[i] = b[i]
  BY DEF Prefix
<1>2. Len(a) # Len(b)
  BY <1>1
<1>3. Len(a) + 1 \in 1 .. Len(b)
  BY <1>1, <1>2
<1>4. SubSeq(b, 1, Len(a) + 1) \in Seq(Line) /\ Prefix(SubSeq(b, 1, Len(a) + 1), b)
  BY <1>1, <1>3 DEF Prefix
<1>5. b[Len(a) + 1] \in Line
  BY <1>3
<1>6. Append(a, b[Len(a) + 1]) \in Seq(Line) /\ Prefix(Append(a, b[Len(a) + 1]), b)
  BY <1>1, <1>3, <1>5 DEF Prefix
<1> QED
  BY <1>3, <1>4, <1>6

\* Who has read some lines, none of them too long, and meets the end or a long one,
\* has all that can be read.
LEMMA ReadableIs ==
  ASSUME NEW b \in Seq(Line), NEW a \in Seq(Line), Prefix(a, b),
         \A i \in 1 .. Len(a) : ~a[i].long,
         Len(a) + 1 \in DOMAIN b => b[Len(a) + 1].long
  PROVE  a = readable(b)
<1> DEFINE n == Len(a)
<1>1. /\ n \in Nat /\ Len(b) \in Nat /\ n <= Len(b) /\ DOMAIN b = 1 .. Len(b)
      /\ \A i \in 1 .. n : a[i] = b[i] /\ ~b[i].long
      /\ n + 1 \in 1 .. Len(b) => b[n + 1].long
      /\ a = [i \in 1 .. n |-> a[i]]
  BY DEF Prefix
<1> HIDE DEF n
<1>2. scanned(b) = 1 .. n
  <2>1. ASSUME NEW i \in 1 .. n PROVE i \in scanned(b)
    <3>1. i \in DOMAIN b /\ \A j \in 1 .. i : j \in 1 .. n
      BY <1>1
    <3> QED
      BY <1>1, <3>1 DEF scanned
  <2>2. ASSUME NEW i \in scanned(b) PROVE i \in 1 .. n
    <3>1. i \in 1 .. Len(b) /\ \A j \in 1 .. i : ~b[j].long
      BY <1>1 DEF scanned
    <3>2. CASE i > n
      <4>1. n + 1 \in 1 .. i /\ n + 1 \in 1 .. Len(b)
        BY <1>1, <3>1, <3>2
      <4> QED
        BY <1>1, <3>1, <4>1
    <3> QED
      BY <1>1, <3>1, <3>2
  <2> QED
    BY <2>1, <2>2
<1>3. readable(b) = [i \in 1 .. n |-> b[i]]
  BY <1>2 DEF readable
<1> QED
  BY <1>1, <1>3

\* A command that does nothing, while no named file is written.
LEMMA CmdStays ==
  ASSUME NEW r \in Commands, CmdInv(r), cmd'[r] = cmd[r], content'[r] = content[r],
         \A f \in Named : content'[f] = content[f], Named \subseteq Named',
         r \in Range(renamed') => r \in Range(renamed), Range(renamed) \subseteq Range(renamed')
  PROVE  CmdInv(r)'
<1>1. "old" \in Named
  BY DEF Named
<1>2. Based(r) => Based(r)'
  BY <1>1 DEF Based, LinesAt
<1> QED
  BY <1>2 DEF CmdInv

LEMMA ClientStays ==
  ASSUME NEW x \in Clients, ClInv(x), cl'[x] = cl[x],
         \A f \in Named : content'[f] = content[f], Named \subseteq Named'
  PROVE  ClInv(x)'
BY DEF ClInv, LinesAt

LEMMA PathStays ==
  ASSUME PathInv, path' = path, Named \subseteq Named', content'["old"] = content["old"],
         temps' \subseteq {r \in Commands : cmd'[r].pc \in {"write", "rename", "remove", "killed"}}
  PROVE  PathInv'
BY DEF PathInv

LEMMA FileInit == Init => FileInv
<1> SUFFICES ASSUME Init PROVE FileInv
  OBVIOUS
<1>1. PICK f \in Files :
        /\ path = IF f = None THEN None ELSE "old"
        /\ content = [g \in {"old"} \cup Commands |-> IF g = "old" /\ f # None THEN f ELSE <<>>]
  BY DEF Init
<1>2. f = None \/ f \in Seq(Line)
  BY AccountsAssumption
<1>3. content \in [{"old"} \cup Commands -> Seq(Line)] /\ \A r \in Commands : content[r] = <<>>
  BY <1>1, <1>2, AccountsAssumption
<1>4. Range(renamed) = {} /\ renamed \in Seq(Commands)
  BY DEF Init, Range
<1>5. TypeOK
  BY <1>1, <1>3, <1>4 DEF Init, TypeOK
<1>6. PathInv
  BY <1>1, <1>3, <1>4, AccountsAssumption DEF Init, PathInv, Named
<1>7. \A r \in Commands : CmdInv(r)
  BY <1>3, <1>4 DEF Init, CmdInv
<1>8. \A x \in Clients : ClInv(x)
  BY DEF Init, ClInv
<1> QED
  BY <1>5, <1>6, <1>7, <1>8 DEF FileInv

\* The command gives up, fails or is killed.
LEMMA EndStep ==
  ASSUME FileInv, NEW r \in Commands, Refuse(r) \/ WriteFails(r) \/ Kill(r)
  PROVE  FileInv'
<1>1. TypeOK /\ PathInv /\ CmdInv(r)
  BY DEF FileInv
<1>2. /\ UNCHANGED <<path, content, temps, cl, renamed, stale>>
      /\ \E q \in {"failed", "remove", "killed"} : cmd' = [cmd EXCEPT ![r].pc = q]
      /\ cmd[r].pc # "done"
      /\ cmd'[r].pc = "failed" => cmd[r].pc \in {"start", "create"}
  BY <1>1, AccountsFields DEF Refuse, WriteFails, Kill, Running
<1>3. cmd \in [Commands -> [pc : Phase, lines : Seq(Line), base : {None, "old"} \cup Commands]]
  BY <1>1, AccountsFields
<1>4. /\ cmd'[r].pc \in {"failed", "remove", "killed"}
      /\ \A k \in Commands : k # r => cmd'[k] = cmd[k]
      /\ cmd' \in [Commands -> [pc : Phase, lines : Seq(Line), base : {None, "old"} \cup Commands]]
  BY <1>2, <1>3 DEF Phase
<1>5. temps' \subseteq {k \in Commands : cmd'[k].pc \in {"write", "rename", "remove", "killed"}}
  BY <1>1, <1>2, <1>3, <1>4 DEF PathInv
<1>6. Named' = Named
  BY <1>2 DEF Named
<1>7. TypeOK'
  BY <1>1, <1>2, <1>4, <1>5 DEF TypeOK, Phase
<1>8. PathInv'
  BY <1>1, <1>2, <1>5, <1>6, PathStays
<1>9. CmdInv(r)'
  BY <1>1, <1>2, <1>4 DEF CmdInv
<1>10. ASSUME NEW k \in Commands, k # r PROVE CmdInv(k)'
  BY <1>2, <1>4, <1>6, <1>10, CmdStays DEF FileInv
<1>11. \A x \in Clients : ClInv(x)'
  BY <1>2, <1>6, ClientStays DEF FileInv
<1> QED
  BY <1>7, <1>8, <1>9, <1>10, <1>11 DEF FileInv

\* A command moves on before its file is complete.
LEMMA ReadStep ==
  ASSUME FileInv, NEW r \in Commands, Read(r)
  PROVE  FileInv'
<1>1. TypeOK /\ PathInv /\ CmdInv(r)
  BY DEF FileInv
<1> DEFINE new == newLines(LinesAt(path), Servers[r], Identity[r])
<1>2. /\ UNCHANGED <<path, content, temps, cl, renamed, stale>> /\ cmd[r].pc = "start"
      /\ cmd' = [cmd EXCEPT ![r] = [pc |-> "create", base |-> path, lines |-> new]]
  BY DEF Read
<1>3. /\ cmd \in [Commands -> [pc : Phase, lines : Seq(Line), base : {None, "old"} \cup Commands]]
      /\ content \in [{"old"} \cup Commands -> Seq(Line)] /\ Named \subseteq {"old"} \cup Commands
  BY <1>1, AccountsFields
<1>4. path \in {None} \cup Named /\ LinesAt(path) \in Seq(Line)
  BY <1>1, <1>3 DEF PathInv, LinesAt
<1>5. new \in Seq(Line)
  <2>1. Servers[r] \in Seq(Addrs) /\ Identity[r] \in [user : Users, salt : Salts, key : Keys]
    BY AccountsAssumption
  <2> QED
    BY <1>4, <2>1, NewShape
<1> HIDE DEF new
<1>6. /\ cmd'[r] = [pc |-> "create", base |-> path, lines |-> new]
      /\ \A k \in Commands : k # r => cmd'[k] = cmd[k]
      /\ cmd' \in [Commands -> [pc : Phase, lines : Seq(Line), base : {None, "old"} \cup Commands]]
  BY <1>2, <1>3, <1>4, <1>5 DEF Phase
<1>7. temps' \subseteq {k \in Commands : cmd'[k].pc \in {"write", "rename", "remove", "killed"}}
  BY <1>1, <1>2, <1>6 DEF PathInv
<1>8. Named' = Named
  BY <1>2 DEF Named
<1>9. TypeOK'
  BY <1>1, <1>2, <1>6, <1>7 DEF TypeOK, Phase
<1>10. PathInv'
  BY <1>1, <1>2, <1>7, <1>8, PathStays
<1>11. CmdInv(r)'
  <2>1. Based(r)'
    BY <1>1, <1>2, <1>4, <1>6, <1>8 DEF Based, PathInv, LinesAt, new
  <2> QED
    BY <1>1, <1>2, <1>6, <2>1 DEF CmdInv
<1>12. ASSUME NEW k \in Commands, k # r PROVE CmdInv(k)'
  BY <1>2, <1>6, <1>8, <1>12, CmdStays DEF FileInv
<1>13. \A x \in Clients : ClInv(x)'
  BY <1>2, <1>8, ClientStays DEF FileInv
<1> QED
  BY <1>9, <1>10, <1>11, <1>12, <1>13 DEF FileInv

LEMMA CreateStep ==
  ASSUME FileInv, NEW r \in Commands, CreateTemp(r)
  PROVE  FileInv'
<1>1. TypeOK /\ PathInv /\ CmdInv(r)
  BY DEF FileInv
<1>2. /\ UNCHANGED <<path, content, cl, renamed, stale>> /\ cmd[r].pc = "create"
      /\ temps' = temps \cup {r} /\ cmd' = [cmd EXCEPT ![r].pc = "write"]
  BY DEF CreateTemp
<1>3. /\ cmd \in [Commands -> [pc : Phase, lines : Seq(Line), base : {None, "old"} \cup Commands]]
      /\ content \in [{"old"} \cup Commands -> Seq(Line)]
  BY <1>1, AccountsFields
<1>4. /\ cmd'[r].pc = "write" /\ cmd'[r].base = cmd[r].base /\ cmd'[r].lines = cmd[r].lines
      /\ \A k \in Commands : k # r => cmd'[k] = cmd[k]
      /\ cmd' \in [Commands -> [pc : Phase, lines : Seq(Line), base : {None, "old"} \cup Commands]]
  BY <1>2, <1>3 DEF Phase
<1>5. temps' \subseteq {k \in Commands : cmd'[k].pc \in {"write", "rename", "remove", "killed"}}
  BY <1>1, <1>2, <1>4 DEF PathInv
<1>6. Named' = Named
  BY <1>2 DEF Named
<1>7. TypeOK'
  BY <1>1, <1>2, <1>4, <1>5 DEF TypeOK, Phase
<1>8. PathInv'
  BY <1>1, <1>2, <1>5, <1>6, PathStays
<1>9. CmdInv(r)'
  <2>1. Based(r)'
    BY <1>1, <1>2, <1>4, <1>6 DEF CmdInv, Based, LinesAt
  <2>2. Prefix(content[r], cmd[r].lines)
    BY <1>1, <1>2, <1>3 DEF CmdInv, Prefix
  <2> QED
    BY <1>1, <1>2, <1>4, <2>1, <2>2 DEF CmdInv
<1>10. ASSUME NEW k \in Commands, k # r PROVE CmdInv(k)'
  BY <1>2, <1>4, <1>6, <1>10, CmdStays DEF FileInv
<1>11. \A x \in Clients : ClInv(x)'
  BY <1>2, <1>6, ClientStays DEF FileInv
<1> QED
  BY <1>7, <1>8, <1>9, <1>10, <1>11 DEF FileInv

LEMMA WriteStep ==
  ASSUME FileInv, NEW r \in Commands, Write(r)
  PROVE  FileInv'
<1>1. TypeOK /\ PathInv /\ CmdInv(r)
  BY DEF FileInv
<1>2. UNCHANGED <<path, temps, cl, renamed, stale>> /\ cmd[r].pc = "write"
  BY DEF Write
<1>3. /\ cmd \in [Commands -> [pc : Phase, lines : Seq(Line), base : {None, "old"} \cup Commands]]
      /\ content \in [{"old"} \cup Commands -> Seq(Line)] /\ "old" \notin Commands
      /\ Range(renamed) \subseteq Commands
  BY <1>1, AccountsFields
<1>4. Based(r) /\ Prefix(content[r], cmd[r].lines) /\ r \notin Range(renamed)
  BY <1>1, <1>2 DEF CmdInv
<1>5. Named' = Named /\ r \notin Named
  BY <1>2, <1>3, <1>4 DEF Named
<1>6. /\ \A k \in Commands : k # r => cmd'[k] = cmd[k] /\ content'[k] = content[k]
      /\ content'["old"] = content["old"]
      /\ cmd'[r].base = cmd[r].base /\ cmd'[r].lines = cmd[r].lines
      /\ \/ cmd'[r].pc = "write" /\ Prefix(content'[r], cmd[r].lines)
         \/ cmd'[r].pc = "rename" /\ content'[r] = cmd[r].lines
      /\ cmd' \in [Commands -> [pc : Phase, lines : Seq(Line), base : {None, "old"} \cup Commands]]
      /\ content' \in [{"old"} \cup Commands -> Seq(Line)]
  <2>1. CASE content[r] = cmd[r].lines
    <3>1. content' = content /\ cmd' = [cmd EXCEPT ![r].pc = "rename"]
      BY <2>1 DEF Write
    <3>2. /\ cmd'[r].pc = "rename" /\ cmd'[r].base = cmd[r].base /\ cmd'[r].lines = cmd[r].lines
          /\ \A k \in Commands : k # r => cmd'[k] = cmd[k]
      BY <1>3, <3>1
    <3>3. cmd' \in [Commands -> [pc : Phase, lines : Seq(Line), base : {None, "old"} \cup Commands]]
      <4>1. "rename" \in Phase
        BY DEF Phase
      <4>2. cmd \in [Commands -> [pc : Phase, lines : Seq(Line), base : {None, "old"} \cup Commands]]
        BY <1>3
      <4>3. cmd[r] \in [pc : Phase, lines : Seq(Line), base : {None, "old"} \cup Commands]
        BY <4>2
      <4>4. [cmd[r] EXCEPT !.pc = "rename"]
              \in [pc : Phase, lines : Seq(Line), base : {None, "old"} \cup Commands]
        BY <4>1, <4>3
      <4>5. cmd' = [cmd EXCEPT ![r] = [cmd[r] EXCEPT !.pc = "rename"]]
        BY <3>1
      <4> QED
        BY <4>2, <4>4, <4>5
    <3> QED
      BY <1>3, <2>1, <3>1, <3>2, <3>3
  <2>2. CASE content[r] # cmd[r].lines
    <3> DEFINE more == SubSeq(cmd[r].lines, 1, Len(content[r]) + 1)
    <3>1. cmd' = cmd /\ content' = [content EXCEPT ![r] = more]
      BY <2>2 DEF Write
    <3>2. more \in Seq(Line) /\ Prefix(more, cmd[r].lines)
      BY <1>3, <1>4, <2>2, OneMore
    <3> HIDE DEF more
    <3> QED
      BY <1>2, <1>3, <3>1, <3>2
  <2> QED
    BY <2>1, <2>2
<1>7. \A f \in Named : content'[f] = content[f]
  BY <1>3, <1>5, <1>6 DEF Named
<1>8. temps' \subseteq {k \in Commands : cmd'[k].pc \in {"write", "rename", "remove", "killed"}}
  BY <1>1, <1>2, <1>6 DEF PathInv
<1>9. TypeOK'
  BY <1>1, <1>2, <1>6, <1>8 DEF TypeOK, Phase
<1>10. PathInv'
  BY <1>1, <1>2, <1>5, <1>6, <1>8, PathStays
<1>11. CmdInv(r)'
  <2>1. Based(r)'
    BY <1>4, <1>5, <1>6, <1>7 DEF Based, LinesAt, Named
  <2> QED
    BY <1>2, <1>4, <1>6, <2>1 DEF CmdInv
<1>12. ASSUME NEW k \in Commands, k # r PROVE CmdInv(k)'
  BY <1>2, <1>5, <1>6, <1>7, <1>12, CmdStays DEF FileInv
<1>13. \A x \in Clients : ClInv(x)'
  BY <1>2, <1>5, <1>7, ClientStays DEF FileInv
<1> QED
  BY <1>9, <1>10, <1>11, <1>12, <1>13 DEF FileInv

LEMMA RenameStep ==
  ASSUME FileInv, NEW r \in Commands, Rename(r)
  PROVE  FileInv'
<1>1. TypeOK /\ PathInv /\ CmdInv(r)
  BY DEF FileInv
<1>2. /\ UNCHANGED <<content, cl>> /\ cmd[r].pc = "rename" /\ path' = r /\ temps' = temps \ {r}
      /\ renamed' = Append(renamed, r) /\ cmd' = [cmd EXCEPT ![r].pc = "done"]
      /\ stale' = stale \/ stale' = stale \cup {r}
  BY DEF Rename
<1>3. /\ cmd \in [Commands -> [pc : Phase, lines : Seq(Line), base : {None, "old"} \cup Commands]]
      /\ content \in [{"old"} \cup Commands -> Seq(Line)] /\ renamed \in Seq(Commands)
      /\ stale \subseteq Range(renamed) /\ None \notin Commands
  BY <1>1, AccountsFields
<1>4. renamed' \in Seq(Commands) /\ Range(renamed') = Range(renamed) \cup {r}
  BY <1>2, <1>3, RangeAppend
<1>5. Named' = Named \cup {r} /\ r \in Named'
  BY <1>4 DEF Named
<1>6. /\ cmd'[r].pc = "done" /\ cmd'[r].base = cmd[r].base /\ cmd'[r].lines = cmd[r].lines
      /\ \A k \in Commands : k # r => cmd'[k] = cmd[k]
      /\ cmd' \in [Commands -> [pc : Phase, lines : Seq(Line), base : {None, "old"} \cup Commands]]
  BY <1>2, <1>3 DEF Phase
<1>7. temps' \subseteq {k \in Commands : cmd'[k].pc \in {"write", "rename", "remove", "killed"}}
  BY <1>1, <1>2, <1>6 DEF PathInv
<1>8. TypeOK'
  BY <1>1, <1>2, <1>3, <1>4, <1>6, <1>7 DEF TypeOK, Phase
<1>9. PathInv'
  BY <1>2, <1>3, <1>5, <1>7 DEF PathInv
<1>10. CmdInv(r)'
  <2>1. Based(r)'
    BY <1>1, <1>2, <1>5, <1>6 DEF CmdInv, Based, LinesAt
  <2> QED
    BY <1>1, <1>2, <1>4, <1>6, <2>1 DEF CmdInv
<1>11. ASSUME NEW k \in Commands, k # r PROVE CmdInv(k)'
  BY <1>2, <1>4, <1>5, <1>6, <1>11, CmdStays DEF FileInv
<1>12. \A x \in Clients : ClInv(x)'
  BY <1>2, <1>5, ClientStays DEF FileInv
<1> QED
  BY <1>8, <1>9, <1>10, <1>11, <1>12 DEF FileInv

LEMMA RemoveStep ==
  ASSUME FileInv, NEW r \in Commands, Remove(r)
  PROVE  FileInv'
<1>1. TypeOK /\ PathInv /\ CmdInv(r)
  BY DEF FileInv
<1>2. /\ UNCHANGED <<path, content, cl, renamed, stale>> /\ cmd[r].pc = "remove"
      /\ temps' = temps \ {r} /\ cmd' = [cmd EXCEPT ![r].pc = "failed"]
  BY DEF Remove
<1>3. cmd \in [Commands -> [pc : Phase, lines : Seq(Line), base : {None, "old"} \cup Commands]]
  BY <1>1, AccountsFields
<1>4. /\ cmd'[r].pc = "failed" /\ \A k \in Commands : k # r => cmd'[k] = cmd[k]
      /\ cmd' \in [Commands -> [pc : Phase, lines : Seq(Line), base : {None, "old"} \cup Commands]]
  BY <1>2, <1>3 DEF Phase
<1>5. temps' \subseteq {k \in Commands : cmd'[k].pc \in {"write", "rename", "remove", "killed"}}
  BY <1>1, <1>2, <1>4 DEF PathInv
<1>6. Named' = Named
  BY <1>2 DEF Named
<1>7. TypeOK'
  BY <1>1, <1>2, <1>4, <1>5 DEF TypeOK, Phase
<1>8. PathInv'
  BY <1>1, <1>2, <1>5, <1>6, PathStays
<1>9. CmdInv(r)'
  BY <1>1, <1>2, <1>4 DEF CmdInv
<1>10. ASSUME NEW k \in Commands, k # r PROVE CmdInv(k)'
  BY <1>2, <1>4, <1>6, <1>10, CmdStays DEF FileInv
<1>11. \A x \in Clients : ClInv(x)'
  BY <1>2, <1>6, ClientStays DEF FileInv
<1> QED
  BY <1>7, <1>8, <1>9, <1>10, <1>11 DEF FileInv

\* A client opens the file that the path names, and reads it to its end.
LEMMA LoadStep ==
  ASSUME FileInv, NEW x \in Clients, ClientStep(x)
  PROVE  FileInv'
<1>1. TypeOK /\ PathInv /\ ClInv(x)
  BY DEF FileInv
<1>2. UNCHANGED <<path, content, temps, cmd, renamed, stale>>
  BY DEF ClientStep, Open, Scan
<1>3. /\ content \in [{"old"} \cup Commands -> Seq(Line)] /\ Named \subseteq {"old"} \cup Commands
      /\ cl \in [Clients -> [pc : {"start", "scan", "loaded"},
                             file : {None, "old"} \cup Commands, got : Seq(Line)]]
  BY <1>1, AccountsFields
<1>4. Named' = Named
  BY <1>2 DEF Named
<1>5. /\ \A y \in Clients : y # x => cl'[y] = cl[y]
      /\ cl' \in [Clients -> [pc : {"start", "scan", "loaded"},
                              file : {None, "old"} \cup Commands, got : Seq(Line)]]
      /\ ClInv(x)'
  <2>1. CASE Open(x)
    <3> DEFINE q == IF path = None THEN "loaded" ELSE "scan"
    <3>1. cl' = [cl EXCEPT ![x].pc = q, ![x].file = path] /\ cl[x].pc = "start" /\ cl[x].got = <<>>
      BY <1>1, <2>1 DEF Open, ClInv
    <3>2. path \in {None} \cup Named
      BY <1>1 DEF PathInv
    <3>3. q \in {"loaded", "scan"} /\ (q = "loaded" <=> path = None)
      OBVIOUS
    <3> HIDE DEF q
    <3>4. /\ cl'[x].pc = q /\ cl'[x].file = path /\ cl'[x].got = <<>>
          /\ \A y \in Clients : y # x => cl'[y] = cl[y]
          /\ cl' \in [Clients -> [pc : {"start", "scan", "loaded"},
                                  file : {None, "old"} \cup Commands, got : Seq(Line)]]
      BY <1>3, <3>1, <3>2, <3>3
    <3>5. q = "scan" => Prefix(<<>>, content[path])
      BY <1>3, <3>2, <3>3 DEF Prefix
    <3>6. readable(<<>>) = <<>>
      BY DEF readable, scanned
    <3>7. q = "loaded" => LinesAt(path)' = <<>>
      BY <1>2, <3>3 DEF LinesAt
    <3>8. ClInv(x)'
      BY <1>2, <1>4, <3>2, <3>3, <3>4, <3>5, <3>6, <3>7 DEF ClInv, LinesAt
    <3> QED
      BY <3>4, <3>8
  <2>2. CASE Scan(x)
    <3> DEFINE got == cl[x].got
               all == content[cl[x].file]
               n == Len(got) + 1
    <3>1. /\ cl[x].pc = "scan" /\ cl[x].file # None /\ cl[x].file \in Named
          /\ Prefix(got, all) /\ got \in Seq(Line) /\ all \in Seq(Line)
          /\ \A i \in 1 .. Len(got) : ~got[i].long
      BY <1>1, <1>3, <2>2 DEF Scan, ClInv
    <3>2. cl' = IF n \in DOMAIN all /\ ~all[n].long THEN [cl EXCEPT ![x].got = Append(@, all[n])]
                ELSE [cl EXCEPT ![x].pc = "loaded"]
      BY <2>2 DEF Scan
    <3>3. CASE n \in DOMAIN all /\ ~all[n].long
      <4> DEFINE more == Append(got, all[n])
      <4>1. got # all
        BY <3>1, <3>3
      <4>2. more \in Seq(Line) /\ Prefix(more, all)
        BY <3>1, <4>1, OneMore
      <4>3. \A i \in 1 .. Len(more) : ~more[i].long
        BY <3>1, <3>3
      <4>4. cl' = [cl EXCEPT ![x].got = more]
        BY <1>3, <3>2, <3>3
      <4> HIDE DEF more
      <4>5. /\ cl'[x].pc = "scan" /\ cl'[x].file = cl[x].file /\ cl'[x].got = more
            /\ \A y \in Clients : y # x => cl'[y] = cl[y]
            /\ cl' \in [Clients -> [pc : {"start", "scan", "loaded"},
                                    file : {None, "old"} \cup Commands, got : Seq(Line)]]
        BY <1>3, <3>1, <4>2, <4>4
      <4>6. ClInv(x)'
        BY <1>2, <1>4, <3>1, <4>2, <4>3, <4>5 DEF ClInv
      <4> QED
        BY <4>5, <4>6
    <3>4. CASE ~(n \in DOMAIN all /\ ~all[n].long)
      <4>1. got = readable(all)
        BY <3>1, <3>4, ReadableIs
      <4>2. cl' = [cl EXCEPT ![x].pc = "loaded"]
        BY <3>2, <3>4
      <4>3. /\ cl'[x].pc = "loaded" /\ cl'[x].file = cl[x].file /\ cl'[x].got = got
            /\ \A y \in Clients : y # x => cl'[y] = cl[y]
            /\ cl' \in [Clients -> [pc : {"start", "scan", "loaded"},
                                    file : {None, "old"} \cup Commands, got : Seq(Line)]]
        BY <1>3, <4>2
      <4>4. LinesAt(cl[x].file)' = all
        BY <1>2, <3>1, <4>3 DEF LinesAt
      <4>5. ClInv(x)'
        BY <1>4, <3>1, <4>1, <4>3, <4>4 DEF ClInv, LinesAt
      <4> QED
        BY <4>3, <4>5
    <3> QED
      BY <3>3, <3>4
  <2> QED
    BY <2>1, <2>2 DEF ClientStep
<1>6. TypeOK'
  BY <1>1, <1>2, <1>5 DEF TypeOK
<1>7. PathInv'
  BY <1>1, <1>2, <1>4 DEF PathInv
<1>8. \A r \in Commands : CmdInv(r)'
  BY <1>2, <1>4, CmdStays DEF FileInv
<1>9. ASSUME NEW y \in Clients, y # x PROVE ClInv(y)'
  BY <1>2, <1>4, <1>5, <1>9, ClientStays DEF FileInv
<1> QED
  BY <1>5, <1>6, <1>7, <1>8, <1>9 DEF FileInv

LEMMA FileStep == FileInv /\ [Next]_vars => FileInv'
<1> SUFFICES ASSUME FileInv, [Next]_vars PROVE FileInv'
  OBVIOUS
<1>1. ASSUME NEW r \in Commands, CommandStep(r) PROVE FileInv'
  BY <1>1, EndStep, ReadStep, CreateStep, WriteStep, RenameStep, RemoveStep, Zenon DEF CommandStep
<1>2. ASSUME NEW x \in Clients, ClientStep(x) PROVE FileInv'
  BY <1>2, LoadStep
<1>3. CASE UNCHANGED vars
  BY <1>3 DEF vars, FileInv, TypeOK, PathInv, CmdInv, ClInv, Based, Named, LinesAt
<1> QED
  BY <1>1, <1>2, <1>3 DEF Next

LEMMA FileAlways == Spec => []FileInv
BY FileInit, FileStep, PTL DEF Spec

\* The variables keep their types, and a command that ended by itself has removed
\* its temporary file (the deferred Remove of writeFileAtomic).
THEOREM AccountsTypeCorrect == Spec => []TypeOK
<1>1. FileInv => TypeOK
  BY DEF FileInv
<1> QED
  BY <1>1, FileAlways, PTL

(***************************************************************************)
(* "a reader never observes a half-written accounts file" (account.go:186):*)
(* what a client has loaded is what can be read of the first file, or of   *)
(* all lines of a command that renamed, for any number of commands and     *)
(* clients, killed or failing anywhere.                                    *)
(***************************************************************************)
THEOREM WholeFilesOnly == Spec => []ReadersSeeWholeFiles
<1>1. ASSUME FileInv, NEW x \in Clients, cl[x].pc = "loaded"
      PROVE  \/ cl[x].file \in {None, "old"} /\ cl[x].got = readable(LinesAt(cl[x].file))
             \/ cl[x].file \in Range(renamed) /\ cl[x].got = readable(cmd[cl[x].file].lines)
  <2>1. cl[x].file \in {None} \cup Named /\ cl[x].got = readable(LinesAt(cl[x].file))
    BY <1>1 DEF FileInv, ClInv
  <2>2. CASE cl[x].file \in Range(renamed)
    <3>1. cl[x].file \in Commands /\ cl[x].file # None
      BY <1>1, <2>2, AccountsFields DEF FileInv
    <3>2. content[cl[x].file] = cmd[cl[x].file].lines
      BY <1>1, <2>2, <3>1 DEF FileInv, CmdInv
    <3> QED
      BY <2>1, <2>2, <3>1, <3>2 DEF LinesAt
  <2> QED
    BY <2>1, <2>2 DEF Named
<1>2. FileInv => ReadersSeeWholeFiles
  BY <1>1 DEF ReadersSeeWholeFiles
<1> QED
  BY <1>2, FileAlways, PTL

----------------------------------------------------------------------------
(* What a rename does to the accounts *)

recordedMap(f) == whole(LinesAt(f))

LEMMA RecordedIs ==
  /\ \A f : recorded(f) = [map |-> recordedMap(f), blocked |-> blocks(LinesAt(f))]
  /\ \A f : recorded(f)' = [map |-> recordedMap(f)', blocked |-> blocks(LinesAt(f)')]
BY DEF recorded, recordedMap, whole

\* A step that renames nothing leaves all named files alone.
LEMMA OthersKeep ==
  ASSUME FileInv, [Next]_vars, \A r \in Commands : ~Rename(r)
  PROVE  /\ UNCHANGED <<path, renamed, stale>>
         /\ \A f \in Named : content'[f] = content[f]
<1>1. TypeOK
  BY DEF FileInv
<1>2. ASSUME NEW r \in Commands, Write(r)
      PROVE  UNCHANGED <<path, renamed, stale>> /\ \A f \in Named : content'[f] = content[f]
  <2>1. r \notin Named
    <3>1. cmd[r].pc = "write" /\ CmdInv(r)
      BY <1>2 DEF Write, FileInv
    <3> QED
      BY <1>1, <3>1, AccountsFields DEF CmdInv, Named
  <2>2. content' = content \/ \E t : content' = [content EXCEPT ![r] = t]
    BY <1>2 DEF Write
  <2>3. content \in [{"old"} \cup Commands -> Seq(Line)] /\ Named \subseteq {"old"} \cup Commands
    BY <1>1, AccountsFields
  <2> QED
    BY <1>2, <2>1, <2>2, <2>3 DEF Write
<1>3. ASSUME NEW r \in Commands, CommandStep(r), ~Write(r)
      PROVE  UNCHANGED <<path, renamed, stale>> /\ \A f \in Named : content'[f] = content[f]
  BY <1>3 DEF CommandStep, Read, Refuse, CreateTemp, WriteFails, Remove, Kill
<1>4. ASSUME NEW x \in Clients, ClientStep(x)
      PROVE  UNCHANGED <<path, renamed, stale>> /\ \A f \in Named : content'[f] = content[f]
  BY <1>4 DEF ClientStep, Open, Scan
<1>5. CASE UNCHANGED vars
  BY <1>5 DEF vars
<1> QED
  BY <1>2, <1>3, <1>4, <1>5 DEF Next

\* A rename makes the path name a registration, based on a file it has named.
LEMMA RenamedIs ==
  ASSUME FileInv, NEW r \in Commands, Rename(r)
  PROVE  LET base == cmd[r].base
         IN /\ content' = content /\ path' = r /\ renamed' = Append(renamed, r)
            /\ stale' = IF path = base THEN stale ELSE stale \cup {r}
            /\ base \in {None} \cup Named
            /\ LinesAt(base) \in Seq(Line)
            /\ content[r] = newLines(LinesAt(base), Servers[r], Identity[r])
            /\ LinesAt(path)' = content[r] /\ content[r] \in Seq(Line)
<1>1. TypeOK /\ CmdInv(r) /\ cmd[r].pc = "rename"
  BY DEF FileInv, Rename
<1>2. /\ content \in [{"old"} \cup Commands -> Seq(Line)]
      /\ Named \subseteq {"old"} \cup Commands /\ None \notin Commands
  BY <1>1, AccountsFields
<1>3. /\ cmd[r].base \in {None} \cup Named
      /\ content[r] = newLines(LinesAt(cmd[r].base), Servers[r], Identity[r])
  BY <1>1 DEF CmdInv, Based
<1>4. LinesAt(cmd[r].base) \in Seq(Line)
  <2>1. CASE cmd[r].base = None
    BY <2>1 DEF LinesAt
  <2>2. CASE cmd[r].base # None
    <3>1. cmd[r].base \in {"old"} \cup Commands
      BY <1>2, <1>3, <2>2
    <3>2. LinesAt(cmd[r].base) = content[cmd[r].base]
      BY <2>2 DEF LinesAt
    <3> QED
      BY <1>2, <3>1, <3>2
  <2> QED
    BY <2>1, <2>2
<1>5. /\ content' = content /\ path' = r /\ renamed' = Append(renamed, r)
      /\ stale' = IF path = cmd[r].base THEN stale ELSE stale \cup {r}
  BY DEF Rename
<1>6. LinesAt(path)' = content[r]
  BY <1>2, <1>5 DEF LinesAt
<1> QED
  BY <1>2, <1>3, <1>4, <1>5, <1>6

\* So it enters the account of the command for its servers, and nothing else.
LEMMA RenameRegisters ==
  ASSUME FileInv, NEW r \in Commands, Rename(r)
  PROVE  LET old == recordedMap(cmd[r].base)
             new == recordedMap(path)'
         IN /\ \A s : s \in serversOf(r) =>
                 /\ s \in DOMAIN new <=> accountOf(r, s) # None
                 /\ s \in DOMAIN new => new[s] = accountOf(r, s)
            /\ \A s : s \notin serversOf(r) =>
                 /\ s \in DOMAIN new <=> s \in DOMAIN old
                 /\ s \in DOMAIN new => new[s] = old[s]
            /\ new = [s \in DOMAIN new |-> new[s]]
            /\ blocks(LinesAt(path)') => blocks(LinesAt(cmd[r].base))
<1> DEFINE lines == LinesAt(cmd[r].base)
           new == newLines(lines, Servers[r], Identity[r])
<1>1. lines \in Seq(Line) /\ new \in Seq(Line) /\ LinesAt(path)' = new
  BY RenamedIs
<1>2. Servers[r] \in Seq(Addrs) /\ Identity[r] \in [user : Users, salt : Salts, key : Keys]
  BY AccountsAssumption
<1>3. recordedMap(cmd[r].base) = whole(lines) /\ recordedMap(path)' = whole(new)
  BY <1>1 DEF recordedMap, whole
<1>4. /\ \A s : s \in Range(Servers[r]) =>
           /\ s \in DOMAIN whole(new) <=> accountLine(s, Identity[r]).acc # None
           /\ s \in DOMAIN whole(new) => whole(new)[s] = accountLine(s, Identity[r]).acc
      /\ \A s : s \notin Range(Servers[r]) =>
           /\ s \in DOMAIN whole(new) <=> s \in DOMAIN whole(lines)
           /\ s \in DOMAIN whole(new) => whole(new)[s] = whole(lines)[s]
      /\ blocks(new) => blocks(lines)
  BY <1>1, <1>2, NewEntries
<1>5. whole(new) = [s \in DOMAIN whole(new) |-> whole(new)[s]]
  BY <1>1, WholeIs
<1> HIDE DEF lines, new
<1>6. blocks(LinesAt(path)') => blocks(lines)
  BY <1>1, <1>4
<1>7. \A s : accountOf(r, s) = accountLine(s, Identity[r]).acc
  BY DEF accountOf
<1>8. serversOf(r) = Range(Servers[r])
  BY DEF serversOf
<1> QED
  BY <1>3, <1>4, <1>5, <1>6, <1>7, <1>8, Zenon DEF lines

\* What a client loads is all that the file records, unless a long line blocks it.
LEMMA LoadedIs ==
  ASSUME NEW f \in Seq(Line)
  PROVE  /\ \E D \in SUBSET Addrs : LoadAccounts(f) \in [D -> Account]
         /\ ~blocks(f) => LoadAccounts(f) = whole(f)
<1> DEFINE m == LoadAccounts(f)
<1>1. scanned(f) \subseteq 1 .. Len(f) /\ DOMAIN f = 1 .. Len(f)
  BY DEF scanned
<1>2. /\ m = [s \in DOMAIN m |-> m[s]] /\ DOMAIN m \subseteq Addrs
      /\ \A s \in DOMAIN m : m[s] \in Account
  BY <1>1, EntriesAre DEF LoadAccounts
<1> HIDE DEF m
<1>3. m \in [DOMAIN m -> Account] /\ DOMAIN m \in SUBSET Addrs
  BY <1>2
<1>4. ASSUME ~blocks(f) PROVE scanned(f) = DOMAIN f
  <2>1. \A i \in 1 .. Len(f) : \A j \in 1 .. i : j \in 1 .. Len(f)
    OBVIOUS
  <2> QED
    BY <1>1, <1>4, <2>1 DEF blocks, scanned
<1> QED
  BY <1>3, <1>4, Zenon DEF m, LoadAccounts, whole

----------------------------------------------------------------------------
(***************************************************************************)
(* Why what was registered signs.  From the k-th rename on, every file     *)
(* that is based on this file, or on one that is based on it, and so on,   *)
(* records the account of a server that no later command registered.       *)
(***************************************************************************)
Recorded(n, k, s) ==
  /\ s \in DOMAIN recordedMap(renamed[n])
  /\ recordedMap(renamed[n])[s] = Identity[renamed[k]]

\* The k-th rename registered s, and none after it up to the n-th.
LastUpTo(k, n, s) ==
  /\ s \in Range(Servers[renamed[k]])
  /\ \A j \in k + 1 .. n : s \notin Range(Servers[renamed[j]])

RegisteredInv ==
  /\ renamed # <<>> => path = renamed[Len(renamed)]
  /\ \A n \in 1 .. Len(renamed) : \A k \in 1 .. n, s \in Addrs :
       LastUpTo(k, n, s) /\ Writable(s, renamed[k]) => Recorded(n, k, s) \/ Outrun(k, n)

LEMMA WritableEnters ==
  ASSUME NEW r \in Commands, NEW s \in Addrs, Writable(s, r)
  PROVE  accountOf(r, s) = Identity[r] /\ Identity[r] # None
<1>1. Identity[r] \in [user : Users, salt : Salts, key : Keys]
  BY AccountsAssumption
<1>2. Identity[r] \in Account
  BY <1>1 DEF Account
<1>3. accountOf(r, s) = parsedAccount(Identity[r])
  BY DEF Writable, accountOf, accountLine
<1>4. parsedAccount(Identity[r]) = Identity[r]
  BY <1>1 DEF Writable, parsedAccount
<1> QED
  BY <1>2, <1>3, <1>4, AccountsAssumption

\* A command that has renamed, and its file, stay as they are.
LEMMA RenamedStay ==
  ASSUME FileInv, [Next]_vars, NEW r \in Range(renamed)
  PROVE  cmd'[r] = cmd[r] /\ content'[r] = content[r]
<1>1. r \in Commands /\ cmd[r].pc = "done"
  BY AccountsFields DEF FileInv, CmdInv
<1>2. /\ content \in [{"old"} \cup Commands -> Seq(Line)]
      /\ cmd \in [Commands -> [pc : Phase, lines : Seq(Line), base : {None, "old"} \cup Commands]]
  BY AccountsFields DEF FileInv
<1>3. ASSUME NEW q \in Commands, CommandStep(q)
      PROVE  q # r /\ (\A t \in Commands : t # q => cmd'[t] = cmd[t] /\ content'[t] = content[t])
  <2>1. cmd[q].pc # "done"
    BY <1>3 DEF CommandStep, Read, Refuse, CreateTemp, Write, Rename, WriteFails, Remove, Kill, Running
  <2>2. content' = content \/ \E v : content' = [content EXCEPT ![q] = v]
    BY <1>3 DEF CommandStep, Read, Refuse, CreateTemp, Write, Rename, WriteFails, Remove, Kill
  <2>3. cmd' = cmd \/ \E v : cmd' = [cmd EXCEPT ![q] = v]
    BY <1>3 DEF CommandStep, Read, Refuse, CreateTemp, Write, Rename, WriteFails, Remove, Kill
  <2>4. \A t \in Commands : t # q => content'[t] = content[t]
    BY <1>2, <2>2
  <2>5. \A t \in Commands : t # q => cmd'[t] = cmd[t]
    BY <1>2, <2>3
  <2> QED
    BY <1>1, <2>1, <2>4, <2>5
<1>4. ASSUME NEW x \in Clients, ClientStep(x) PROVE cmd' = cmd /\ content' = content
  BY <1>4 DEF ClientStep, Open, Scan
<1>5. CASE UNCHANGED vars
  BY <1>5 DEF vars
<1> QED
  BY <1>1, <1>3, <1>4, <1>5 DEF Next

\* So what is said of the files up to the n-th rename stays true.
LEMMA RegisteredStay ==
  ASSUME FileInv, [Next]_vars, NEW n \in 1 .. Len(renamed), NEW k \in 1 .. n, NEW s \in Addrs,
         \A i \in 1 .. Len(renamed) : renamed'[i] = renamed[i]
  PROVE  /\ LastUpTo(k, n, s)' <=> LastUpTo(k, n, s)
         /\ Recorded(n, k, s)' <=> Recorded(n, k, s)
         /\ Outrun(k, n)' <=> Outrun(k, n)
         /\ renamed'[k] = renamed[k]
<1>1. renamed \in Seq(Commands) /\ None \notin Commands
  BY AccountsFields DEF FileInv
<1>2. \A i \in 1 .. Len(renamed) : /\ renamed[i] \in Range(renamed) /\ renamed[i] \in Commands
                                   /\ renamed'[i] = renamed[i]
  BY <1>1 DEF Range
<1>3. \A i \in 1 .. Len(renamed) : /\ cmd'[renamed[i]] = cmd[renamed[i]]
                                   /\ content'[renamed[i]] = content[renamed[i]]
  BY <1>2, RenamedStay
<1>4. k \in 1 .. Len(renamed) /\ Len(renamed) \in Nat
  BY <1>1
<1>5. \A j \in k + 1 .. n : j \in 1 .. Len(renamed) /\ \A i \in k .. j - 1 : i \in 1 .. Len(renamed)
  BY <1>4
<1>6. LastUpTo(k, n, s)' <=> LastUpTo(k, n, s)
  BY <1>2, <1>4, <1>5 DEF LastUpTo
<1>7. recordedMap(renamed[n])' = recordedMap(renamed[n])
  <2>1. LinesAt(renamed[n])' = LinesAt(renamed[n])
    BY <1>1, <1>2, <1>3 DEF LinesAt
  <2> QED
    BY <2>1 DEF recordedMap, whole
<1>8. Recorded(n, k, s)' <=> Recorded(n, k, s)
  BY <1>2, <1>4, <1>7 DEF Recorded
<1>9. ASSUME NEW j \in k + 1 .. n
      PROVE  (cmd[renamed[j]].base \notin {renamed[i] : i \in k .. j - 1})'
               <=> cmd[renamed[j]].base \notin {renamed[i] : i \in k .. j - 1}
  <2>1. cmd'[renamed'[j]].base = cmd[renamed[j]].base
    BY <1>2, <1>3, <1>5
  <2>2. {renamed[i] : i \in k .. j - 1}' = {renamed[i] : i \in k .. j - 1}
    BY <1>2, <1>5
  <2> QED
    BY <2>1, <2>2
<1>10. Outrun(k, n)' <=> Outrun(k, n)
  BY <1>9 DEF Outrun
<1> QED
  BY <1>2, <1>4, <1>6, <1>8, <1>10

LEMMA RegisteredRename ==
  ASSUME FileInv, RegisteredInv, NEW r \in Commands, Rename(r)
  PROVE  RegisteredInv'
<1> DEFINE base == cmd[r].base
           old == recordedMap(base)
           new == recordedMap(path)'
<1>1. renamed' = Append(renamed, r) /\ path' = r /\ content' = content /\ base \in {None} \cup Named
  BY RenamedIs
<1>2. renamed \in Seq(Commands) /\ None \notin Commands /\ "old" \notin Commands
  BY AccountsFields DEF FileInv
<1>0. PICK m \in Nat : m = Len(renamed)
  BY <1>2
<1>3. /\ Len(renamed') = m + 1 /\ renamed'[m + 1] = r
      /\ \A i \in 1 .. m : renamed'[i] = renamed[i]
  BY <1>0, <1>1, <1>2
<1>4. /\ \A s : s \in serversOf(r) =>
           /\ s \in DOMAIN new <=> accountOf(r, s) # None
           /\ s \in DOMAIN new => new[s] = accountOf(r, s)
      /\ \A s : s \notin serversOf(r) =>
           /\ s \in DOMAIN new <=> s \in DOMAIN old
           /\ s \in DOMAIN new => new[s] = old[s]
  BY RenameRegisters
<1>5. \A k, s : Recorded(m + 1, k, s)' <=> s \in DOMAIN new /\ new[s] = Identity[renamed'[k]]
  <2>1. recordedMap(renamed[m + 1])' = new
    BY <1>1, <1>3 DEF recordedMap, LinesAt
  <2> QED
    BY <2>1 DEF Recorded
<1>6. [Next]_vars
  BY DEF Next, CommandStep
<1>7. cmd'[r].base = base
  BY AccountsFields DEF FileInv, Rename
<1> HIDE DEF base, new, old
<1>8. (renamed # <<>> => path = renamed[Len(renamed)])'
  BY <1>1, <1>3
<1>9. ASSUME NEW n \in 1 .. m, NEW k \in 1 .. n, NEW s \in Addrs,
             LastUpTo(k, n, s)', Writable(s, renamed'[k])
      PROVE  Recorded(n, k, s)' \/ Outrun(k, n)'
  <2>1. /\ LastUpTo(k, n, s)' <=> LastUpTo(k, n, s)
        /\ Recorded(n, k, s)' <=> Recorded(n, k, s)
        /\ Outrun(k, n)' <=> Outrun(k, n)
        /\ renamed'[k] = renamed[k]
    BY <1>0, <1>3, <1>6, RegisteredStay
  <2>2. Recorded(n, k, s) \/ Outrun(k, n)
    BY <1>0, <1>9, <2>1 DEF RegisteredInv
  <2> QED
    BY <2>1, <2>2
<1>10. ASSUME NEW k \in 1 .. m + 1, NEW s \in Addrs,
              LastUpTo(k, m + 1, s)', Writable(s, renamed'[k])
       PROVE  Recorded(m + 1, k, s)' \/ Outrun(k, m + 1)'
  <2>1. /\ s \in Range(Servers[renamed'[k]])
        /\ \A j \in k + 1 .. m + 1 : s \notin Range(Servers[renamed'[j]])
    BY <1>10 DEF LastUpTo
  <2>2. CASE k = m + 1
    <3>1. s \in serversOf(r) /\ Writable(s, r)
      BY <1>3, <1>10, <2>1, <2>2 DEF serversOf
    <3>2. accountOf(r, s) = Identity[r] /\ accountOf(r, s) # None
      BY <3>1, WritableEnters
    <3> QED
      BY <1>3, <1>4, <1>5, <2>2, <3>1, <3>2
  <2>3. CASE k # m + 1 /\ \E i \in k .. m : base = renamed[i]
    <3>1. k \in 1 .. m /\ m + 1 \in k + 1 .. m + 1
      BY <1>3, <2>3
    <3>2. s \notin serversOf(r)
      BY <1>3, <2>1, <3>1 DEF serversOf
    <3>3. PICK i \in k .. m : base = renamed[i]
      BY <2>3
    <3>4. i \in 1 .. m /\ k \in 1 .. i
      BY <1>3, <3>1
    <3>5. \A j \in k + 1 .. i : j \in k + 1 .. m + 1
      BY <1>3, <3>1, <3>4
    <3>6. LastUpTo(k, i, s)'
      BY <2>1, <3>5 DEF LastUpTo
    <3>7. Recorded(i, k, s)' \/ Outrun(k, i)'
      BY <1>9, <1>10, <3>4, <3>6
    <3>8. CASE Outrun(k, i)'
      BY <3>5, <3>8 DEF Outrun
    <3>9. CASE Recorded(i, k, s)'
      <4>1. recordedMap(renamed[i])' = old
        BY <1>1, <1>3, <3>3, <3>4 DEF recordedMap, LinesAt, old
      <4>2. s \in DOMAIN old /\ old[s] = Identity[renamed'[k]]
        BY <3>9, <4>1 DEF Recorded
      <4> QED
        BY <1>4, <1>5, <3>2, <4>2
    <3> QED
      BY <3>7, <3>8, <3>9
  <2>4. CASE k # m + 1 /\ ~(\E i \in k .. m : base = renamed[i])
    <3>1. m + 1 \in k + 1 .. m + 1 /\ (m + 1) - 1 = m
      BY <1>3, <2>4
    <3>2. \A i \in k .. m : i \in 1 .. m
      BY <1>3
    <3>3. base \notin {renamed'[i] : i \in k .. m}
      BY <1>3, <2>4, <3>2
    <3>4. cmd'[renamed'[m + 1]].base \notin {renamed'[i] : i \in k .. (m + 1) - 1}
      BY <1>3, <1>7, <3>1, <3>3
    <3> QED
      BY <3>1, <3>4 DEF Outrun
  <2> QED
    BY <2>2, <2>3, <2>4
<1>11. \A n \in 1 .. m + 1 : n \in 1 .. m \/ n = m + 1
  BY <1>3
<1>12. \A k, s : Writable(s, renamed[k])' <=> Writable(s, renamed'[k])
  BY DEF Writable
<1> QED
  BY <1>3, <1>8, <1>9, <1>10, <1>11, <1>12 DEF RegisteredInv

LEMMA RegisteredAlways == Spec => []RegisteredInv
<1>1. Init => RegisteredInv
  BY DEF Init, RegisteredInv
<1>2. ASSUME FileInv, RegisteredInv, [Next]_vars PROVE RegisteredInv'
  <2>1. CASE \E r \in Commands : Rename(r)
    BY <1>2, <2>1, RegisteredRename
  <2>2. CASE \A r \in Commands : ~Rename(r)
    <3>1. renamed' = renamed /\ path' = path
      BY <1>2, <2>2, OthersKeep
    <3>2. ASSUME NEW n \in 1 .. Len(renamed), NEW k \in 1 .. n, NEW s \in Addrs,
                 LastUpTo(k, n, s)', Writable(s, renamed'[k])
          PROVE  Recorded(n, k, s)' \/ Outrun(k, n)'
      <4>1. /\ LastUpTo(k, n, s)' <=> LastUpTo(k, n, s)
            /\ Recorded(n, k, s)' <=> Recorded(n, k, s)
            /\ Outrun(k, n)' <=> Outrun(k, n)
            /\ renamed'[k] = renamed[k]
        BY <1>2, <3>1, RegisteredStay
      <4>2. Recorded(n, k, s) \/ Outrun(k, n)
        BY <1>2, <3>2, <4>1 DEF RegisteredInv
      <4> QED
        BY <4>1, <4>2
    <3>3. \A k, s : Writable(s, renamed[k])' <=> Writable(s, renamed'[k])
      BY DEF Writable
    <3> QED
      BY <1>2, <3>1, <3>2, <3>3 DEF RegisteredInv
  <2> QED
    BY <2>1, <2>2
<1> QED
  BY <1>1, <1>2, FileAlways, PTL DEF Spec

(***************************************************************************)
(* "saves the identity ... for every configured server, so later runs sign *)
(* automatically" (README.md:107), with the exceptions of the code: a name *)
(* that does not survive the file, a line too long for the scanner, and a  *)
(* later command that had read the file before this one's rename.          *)
(***************************************************************************)
THEOREM RegisteredIsLoaded == Spec => []RegisteredSigns
<1>1. ASSUME FileInv, RegisteredInv, ~Blocked, NEW k \in DOMAIN renamed, NEW s \in Addrs,
             LastFor(k, s), Writable(s, renamed[k])
      PROVE  Signs(k, s) \/ Outrun(k, Len(renamed))
  <2>1. LinesAt(path) \in Seq(Line)
    <3>1. content \in [{"old"} \cup Commands -> Seq(Line)] /\ path \in {None, "old"} \cup Commands
      BY <1>1 DEF FileInv, TypeOK
    <3>2. CASE path = None
      BY <3>2 DEF LinesAt
    <3>3. CASE path # None
      BY <3>1, <3>3 DEF LinesAt
    <3> QED
      BY <3>2, <3>3
  <2>2. Loaded = recordedMap(path)
    BY <1>1, <2>1, LoadedIs DEF Loaded, Blocked, recordedMap
  <2>3. renamed \in Seq(Commands)
    BY <1>1, AccountsFields DEF FileInv
  <2>4. k \in 1 .. Len(renamed) /\ Len(renamed) \in 1 .. Len(renamed) /\ renamed # <<>>
    BY <2>3
  <2>5. LastUpTo(k, Len(renamed), s)
    BY <1>1 DEF LastFor, LastUpTo
  <2>6. path = renamed[Len(renamed)]
    BY <1>1, <2>4 DEF RegisteredInv
  <2>7. Recorded(Len(renamed), k, s) \/ Outrun(k, Len(renamed))
    BY <1>1, <2>4, <2>5 DEF RegisteredInv
  <2> QED
    BY <2>2, <2>6, <2>7 DEF Recorded, Signs
<1>2. FileInv /\ RegisteredInv => RegisteredSigns
  BY <1>1 DEF RegisteredSigns
<1> QED
  BY <1>2, FileAlways, RegisteredAlways, PTL

----------------------------------------------------------------------------
(* The refinement of AccountStore *)

LEMMA PathLines ==
  ASSUME FileInv
  PROVE  LinesAt(path) \in Seq(Line)
<1>1. content \in [{"old"} \cup Commands -> Seq(Line)] /\ path \in {None, "old"} \cup Commands
  BY DEF FileInv, TypeOK
<1>2. CASE path = None
  BY <1>2 DEF LinesAt
<1>3. CASE path # None
  BY <1>1, <1>3 DEF LinesAt
<1> QED
  BY <1>2, <1>3

\* What clients load is what the file records, unless a line blocks them.
LEMMA PathReadable ==
  ASSUME FileInv
  PROVE  Store!Readable
<1>1. \E D \in SUBSET Addrs : Loaded \in [D -> Account]
  BY PathLines, LoadedIs DEF Loaded
<1>2. ~blocks(LinesAt(path)) => Loaded = recordedMap(path)
  BY PathLines, LoadedIs DEF Loaded, recordedMap
<1>3. recorded(path).map = recordedMap(path) /\ recorded(path).blocked = blocks(LinesAt(path))
  BY RecordedIs
<1> QED
  BY <1>1, <1>2, <1>3 DEF Store!Readable, Store!IsMap

LEMMA StoreInit == Init => Store!Init
<1> SUFFICES ASSUME Init PROVE Store!Init
  OBVIOUS
<1>1. FileInv
  BY FileInit
<1>2. LinesAt(path) = content["old"] \/ LinesAt("old") = LinesAt(path)
  BY AccountsAssumption DEF Init, LinesAt
<1>3. LinesAt("old") = content["old"]
  BY AccountsAssumption DEF LinesAt
<1>4. recorded("old") = recorded(path)
  BY <1>2, <1>3 DEF recorded
<1>5. {recorded(f) : f \in {"old"} \cup Range(renamed)} = {recorded(path)}
  BY <1>4 DEF Init, Range
<1>6. \E D \in SUBSET Addrs : recorded(path) \in [map : [D -> Account], blocked : BOOLEAN]
  <2> DEFINE m == recordedMap(path)
  <2>1. /\ m = [s \in DOMAIN m |-> m[s]] /\ DOMAIN m \subseteq Addrs
        /\ \A s \in DOMAIN m : m[s] \in Account
    BY <1>1, PathLines, WholeIs DEF recordedMap
  <2> HIDE DEF m
  <2>2. m \in [DOMAIN m -> Account]
    BY <2>1
  <2>3. recorded(path) = [map |-> m, blocked |-> blocks(LinesAt(path))]
    BY RecordedIs DEF m
  <2>4. blocks(LinesAt(path)) \in BOOLEAN
    BY DEF blocks
  <2> QED
    BY <2>1, <2>2, <2>3, <2>4
<1>7. renamed = <<>> /\ stale = {}
  BY DEF Init
<1> QED
  BY <1>1, <1>5, <1>6, <1>7, PathReadable DEF Store!Init

\* A rename is a registration: on the file as it is, or on one it has been.
LEMMA RenameIsRegister ==
  ASSUME FileInv, FileInv', NEW r \in Commands, Rename(r)
  PROVE  Store!Next
<1> DEFINE base == recorded(cmd[r].base)
           past == {recorded(f) : f \in {"old"} \cup Range(renamed)}
           new == recordedMap(path)'
           old == recordedMap(cmd[r].base)
<1>1. /\ content' = content /\ path' = r /\ renamed' = Append(renamed, r)
      /\ stale' = IF path = cmd[r].base THEN stale ELSE stale \cup {r}
      /\ cmd[r].base \in {None} \cup Named
  BY RenamedIs
<1>2. base \in past
  <2>1. CASE cmd[r].base = None
    <3>1. cmd[r].pc = "rename" /\ CmdInv(r)
      BY DEF Rename, FileInv
    <3>2. content["old"] = <<>>
      BY <2>1, <3>1 DEF CmdInv, Based
    <3>3. LinesAt(cmd[r].base) = LinesAt("old")
      BY <2>1, <3>2, AccountsAssumption DEF LinesAt
    <3>4. base = recorded("old")
      BY <3>3 DEF recorded
    <3> QED
      BY <3>4
  <2>2. CASE cmd[r].base # None
    BY <1>1, <2>2 DEF Named
  <2> QED
    BY <2>1, <2>2
<1>3. path = cmd[r].base => base = recorded(path)
  BY Zenon
<1>4. /\ recorded(path)' = [map |-> new, blocked |-> blocks(LinesAt(path)')]
      /\ base = [map |-> old, blocked |-> blocks(LinesAt(cmd[r].base))]
  <2>1. recorded(path)' = [map |-> new, blocked |-> blocks(LinesAt(path)')]
    BY DEF recorded, recordedMap, whole
  <2> QED
    BY <2>1, RecordedIs
<1>5. /\ \A s : s \in serversOf(r) =>
           /\ s \in DOMAIN new <=> accountOf(r, s) # None
           /\ s \in DOMAIN new => new[s] = accountOf(r, s)
      /\ \A s : s \notin serversOf(r) =>
           /\ s \in DOMAIN new <=> s \in DOMAIN old
           /\ s \in DOMAIN new => new[s] = old[s]
      /\ new = [s \in DOMAIN new |-> new[s]]
      /\ blocks(LinesAt(path)') => blocks(LinesAt(cmd[r].base))
  BY RenameRegisters
<1>6. new = Store!Registered(r, old)
  <2> HIDE DEF new, old
  <2> DEFINE D == (DOMAIN old \ serversOf(r)) \cup {s \in serversOf(r) : accountOf(r, s) # None}
             value(s) == IF s \in serversOf(r) THEN accountOf(r, s) ELSE old[s]
  <2>1. DOMAIN new = D
    BY <1>5
  <2>2. \A s \in D : new[s] = value(s)
    BY <1>5, <2>1
  <2>3. Store!Registered(r, old) = [s \in D |-> value(s)]
    BY DEF Store!Registered, Store!Entered
  <2> HIDE DEF D, value
  <2> QED
    BY <1>5, <2>1, <2>2, <2>3
<1>7. past \cup {recorded(path)'} = {recorded(f) : f \in {"old"} \cup Range(renamed)}'
  <2>1. \A f : recorded(f)' = recorded(f)
    BY <1>1 DEF recorded, LinesAt
  <2>2. recorded(path)' = recorded(r)
    BY <1>1 DEF recorded, LinesAt
  <2>3. Range(renamed') = Range(renamed) \cup {r}
    BY <1>1, RangeAppend, AccountsFields DEF FileInv
  <2>4. {recorded(f) : f \in {"old"} \cup Range(renamed)}'
          = {recorded(f) : f \in {"old"} \cup Range(renamed')}
    BY <2>1
  <2> HIDE DEF recorded
  <2> QED
    BY <2>2, <2>3, <2>4
<1>8. Store!Readable'
  BY PathReadable, PTL
<1> DEFINE b == blocks(LinesAt(path)')
<1>9. b \in BOOLEAN
  BY DEF blocks
<1>10. /\ b => base.blocked
       /\ recorded(path)' = [map |-> Store!Registered(r, base.map), blocked |-> b]
  BY <1>4, <1>5, <1>6
<1> HIDE DEF base, b
<1>11. Store!Register(r, base)
  BY <1>1, <1>7, <1>8, <1>9, <1>10, Zenon DEF Store!Register
<1>12. CASE path = cmd[r].base
  <2>1. Store!Register(r, recorded(path)) /\ stale' = stale
    BY <1>1, <1>3, <1>11, <1>12
  <2> QED
    BY <2>1, Zenon DEF Store!Next
<1>13. CASE path # cmd[r].base
  <2>1. stale' = stale \cup {r}
    BY <1>1, <1>13
  <2> QED
    BY <1>2, <1>11, <2>1, Zenon DEF Store!Next
<1> QED
  BY <1>12, <1>13

(***************************************************************************)
(* The commands implement AccountStore (README.md:107): whatever they and  *)
(* the clients do, the file changes only by whole registrations, each of   *)
(* which keeps the entries of all other servers, those of the moment when  *)
(* the command read the file.                                              *)
(***************************************************************************)
THEOREM CommandsImplementStore == Spec => ImplementsStore
<1>1. ASSUME FileInv, FileInv', [Next]_vars PROVE [Store!Next]_Store!vars
  <2>1. CASE \E r \in Commands : Rename(r)
    BY <1>1, <2>1, RenameIsRegister, Zenon
  <2>2. CASE \A r \in Commands : ~Rename(r)
    <3>1. UNCHANGED <<path, renamed, stale>> /\ \A f \in Named : content'[f] = content[f]
      BY <1>1, <2>2, OthersKeep
    <3>2. path \in {None} \cup Named
      BY <1>1 DEF FileInv, PathInv
    <3>3. \A f \in {None} \cup Named : recorded(f)' = recorded(f)
      BY <3>1 DEF recorded, LinesAt
    <3>4. recorded(path)' = recorded(path)
      BY <3>1, <3>2 DEF recorded, LinesAt
    <3>5. {recorded(f) : f \in {"old"} \cup Range(renamed)}'
            = {recorded(f) : f \in {"old"} \cup Range(renamed)}
      BY <3>1, <3>3 DEF Named
    <3>6. Loaded' = Loaded
      BY <3>1, <3>2 DEF Loaded, LinesAt
    <3> QED
      BY <3>1, <3>4, <3>5, <3>6, Zenon DEF Store!vars
  <2> QED
    BY <2>1, <2>2
<1>2. Spec => Store!Spec
  BY <1>1, StoreInit, FileAlways, PTL DEF Spec, Store!Spec
<1> QED
  BY <1>2 DEF ImplementsStore

============================================================================
