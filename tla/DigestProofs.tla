---------------------------- MODULE DigestProofs ----------------------------
(***************************************************************************)
(* The digest, for any mails, however long their texts and however deep    *)
(* their parts are nested.                                                 *)
(***************************************************************************)
EXTENDS Digest, SequenceTheorems, WellFoundedInduction, TLAPS

----------------------------------------------------------------------------
(* Induction over numbers and over sequences, as facts about sets *)

LEMMA LeastNumber ==
  ASSUME NEW S, S \subseteq Nat, S # {}
  PROVE  \E n \in S : \A m \in S : n <= m
<1> DEFINE Less == {p \in Nat \X Nat : p[1] < p[2]}
<1>1. IsWellFoundedOn(Less, Nat)
  BY NatLessThanWellFounded, Zenon DEF OpToRel
<1>2. PICK n \in S : \A m \in S : ~(<<m, n>> \in Less)
  BY <1>1, WFMin, Zenon
<1>3. ASSUME NEW m \in S PROVE n <= m
  <2>1. <<m, n>> \in Nat \X Nat /\ ~(<<m, n>> \in Less)
    BY <1>2
  <2>2. ~(m < n)
    BY <2>1
  <2> QED
    BY <2>2
<1> QED
  BY <1>3

\* A set that holds 0 and, up to n, with a number the next one, holds 0 .. n.
LEMMA Climb ==
  ASSUME NEW n \in Nat, NEW S, 0 \in S,
         \A k \in 0 .. n : k < n /\ k \in S => k + 1 \in S
  PROVE  0 .. n \subseteq S
<1> DEFINE Out == {k \in 0 .. n : k \notin S}
<1>1. SUFFICES ASSUME Out # {} PROVE FALSE
  OBVIOUS
<1>0. Out \subseteq Nat
  OBVIOUS
<1>2. PICK k \in Out : \A m \in Out : k <= m
  <2> HIDE DEF Out
  <2> QED
    BY <1>0, <1>1, LeastNumber
<1>3. k # 0 /\ k \in 1 .. n
  BY <1>2
<1>4. k - 1 \in 0 .. n /\ k - 1 < n /\ k - 1 \notin Out
  BY <1>2, <1>3
<1>5. k - 1 + 1 \in S
  BY <1>4
<1> QED
  BY <1>2, <1>3, <1>5

\* A set that holds the empty sequence and, with a sequence, the longer ones.
LEMMA SeqInduct ==
  ASSUME NEW A, NEW S, <<>> \in S,
         \A s \in Seq(A) : s \in S => \A c \in A : Append(s, c) \in S
  PROVE  Seq(A) \subseteq S
<1> DEFINE T == {n \in Nat : \A s \in Seq(A) : Len(s) = n => s \in S}
<1>1. 0 \in T
  OBVIOUS
<1>2. ASSUME NEW n \in Nat, n \in T PROVE n + 1 \in T
  <2>1. ASSUME NEW s \in Seq(A), Len(s) = n + 1 PROVE s \in S
    <3> DEFINE t == SubSeq(s, 1, n)
    <3>1. t \in Seq(A) /\ Len(t) = n /\ s[n + 1] \in A
      BY <2>1
    <3>2. s = Append(t, s[n + 1])
      BY <2>1
    <3> QED
      BY <1>2, <3>1, <3>2
  <2> QED
    BY <2>1
<1>3. ASSUME NEW s \in Seq(A) PROVE s \in S
  <2>1. Len(s) \in Nat
    OBVIOUS
  <2>2. 0 .. Len(s) \subseteq T
    <3> HIDE DEF T
    <3>1. \A k \in 0 .. Len(s) : k < Len(s) /\ k \in T => k + 1 \in T
      BY <1>2, <2>1
    <3> QED
      BY <1>1, <2>1, <3>1, Climb
  <2> QED
    BY <2>1, <2>2
<1> QED
  BY <1>3

----------------------------------------------------------------------------
(* Left folds *)

\* The greatest element of a set of numbers, and of a range that starts at 1.
LEMMA MaxOfRange ==
  ASSUME NEW n \in Nat, NEW T \in SUBSET (1 .. n), T # {}
  PROVE  Max(T) \in T /\ \A i \in T : i <= Max(T)
<1>1. {n - i : i \in T} \subseteq Nat /\ {n - i : i \in T} # {}
  <2>1. {n - i : i \in T} \subseteq Nat
    OBVIOUS
  <2>2. {n - i : i \in T} # {}
    OBVIOUS
  <2> QED
    BY <2>1, <2>2
<1>2. PICK d \in {n - i : i \in T} : \A e \in {n - i : i \in T} : d <= e
  BY <1>1, LeastNumber
<1>3. PICK x \in T : d = n - x
  OBVIOUS
<1>4. \A i \in T : x >= i
  <2> TAKE i \in T
  <2>1. n - x <= n - i
    BY <1>2, <1>3
  <2> QED
    BY <2>1
<1>5. \E y \in T : \A i \in T : y >= i
  BY <1>4
<1>6. Max(T) \in T /\ \A i \in T : Max(T) >= i
  BY <1>5 DEF Max
<1> QED
  BY <1>6

LEMMA MaxOfFirst ==
  ASSUME NEW k \in Nat, k # 0
  PROVE  Max(1 .. k) = k /\ (1 .. k) \ {Max(1 .. k)} = 1 .. k - 1
<1> DEFINE m == Max(1 .. k)
<1>1. 1 .. k # {} /\ k \in 1 .. k
  OBVIOUS
<1>2. m \in 1 .. k /\ \A i \in 1 .. k : i <= m
  BY <1>1, MaxOfRange
<1> HIDE DEF m
<1>3. m = k
  BY <1>1, <1>2
<1> QED
  BY <1>3 DEF m

\* The states that a loop with the step G goes through from b on.
Traces(St, G, b, s) ==
  {h \in [0 .. Len(s) -> St] :
     h[0] = b /\ \A k \in 1 .. Len(s) : h[k] = G[<<h[k - 1], s[k]>>]}

Ends(St, G, b, s, x) == \E h \in Traces(St, G, b, s) : x = h[Len(s)]

\* What FoldLeft takes its result from: a value for every set of positions.
Iter(G, b, s, D, f) ==
  f = [T \in SUBSET D |-> IF T = {} THEN b ELSE G[<<f[T \ {Max(T)}], s[Max(T)]>>]]

LEMMA IterExists ==
  ASSUME NEW St, NEW A, NEW G \in [St \X A -> St], NEW b \in St, NEW s \in Seq(A)
  PROVE  \E f \in [SUBSET (1 .. Len(s)) -> St] : Iter(G, b, s, 1 .. Len(s), f)
<1> DEFINE S == {n \in Nat : n <= Len(s) =>
                   \E f \in [SUBSET (1 .. n) -> St] : Iter(G, b, s, 1 .. n, f)}
<1>0. Len(s) \in Nat
  OBVIOUS
<1>1. 0 \in S
  <2> DEFINE f == [T \in SUBSET (1 .. 0) |-> b]
  <2>1. f \in [SUBSET (1 .. 0) -> St]
    OBVIOUS
  <2>2. Iter(G, b, s, 1 .. 0, f)
    BY DEF Iter
  <2> QED
    BY <2>1, <2>2
<1>2. ASSUME NEW n \in 0 .. Len(s), n < Len(s), n \in S PROVE n + 1 \in S
  <2>a. n <= Len(s)
    BY <1>0, <1>2
  <2>1. PICK f \in [SUBSET (1 .. n) -> St] : Iter(G, b, s, 1 .. n, f)
    BY <1>2, <2>a, Zenon
  <2>2. \A T \in SUBSET (1 .. n) :
          f[T] = IF T = {} THEN b ELSE G[<<f[T \ {Max(T)}], s[Max(T)]>>]
    BY <2>1 DEF Iter
  <2> DEFINE m == n + 1
             g == [T \in SUBSET (1 .. m) |->
                     IF m \in T THEN G[<<f[T \ {m}], s[m]>>] ELSE f[T]]
  <2>0. m \in 1 .. Len(s) /\ m \in Nat
    BY <1>0, <1>2
  <2>3. m \in 1 .. Len(s) /\ s[m] \in A /\ m \in Nat
    BY <2>0, ElementOfSeq
  <2>4. ASSUME NEW T \in SUBSET (1 .. m) PROVE g[T] \in St
    <3>1. CASE m \in T
      <4>1. T \ {m} \in SUBSET (1 .. n)
        OBVIOUS
      <4>2. f[T \ {m}] \in St
        BY <4>1
      <4>3. G[<<f[T \ {m}], s[m]>>] \in St
        BY <4>2, <2>3
      <4> QED
        BY <3>1, <4>3
    <3>2. CASE m \notin T
      <4>1. T \in SUBSET (1 .. n)
        BY <3>2
      <4> QED
        BY <3>2, <4>1
    <3> QED
      BY <3>1, <3>2
  <2>5. g \in [SUBSET (1 .. m) -> St]
    BY <2>4
  <2>6. ASSUME NEW T \in SUBSET (1 .. m)
        PROVE  g[T] = IF T = {} THEN b ELSE G[<<g[T \ {Max(T)}], s[Max(T)]>>]
    <3>1. CASE m \in T
      <4>1. Max(T) = m
        <5>1. Max(T) \in T /\ \A i \in T : i <= Max(T)
          BY <3>1, <2>3, MaxOfRange
        <5> DEFINE x == Max(T)
        <5> HIDE DEF m, x
        <5>2. x \in 1 .. m /\ m <= x
          BY <5>1, <3>1 DEF x
        <5>3. x = m
          BY <5>2, <2>3
        <5> QED
          BY <5>3 DEF x
      <4>2. T \ {m} \in SUBSET (1 .. m) /\ m \notin T \ {m}
        OBVIOUS
      <4>3. g[T \ {m}] = f[T \ {m}]
        BY <4>2
      <4> QED
        BY <3>1, <4>1, <4>3
    <3>2. CASE m \notin T
      <4>1. T \in SUBSET (1 .. n) /\ g[T] = f[T]
        BY <3>2
      <4>2. CASE T = {}
        BY <4>1, <4>2, <2>2
      <4>3. CASE T # {}
        <5>1. T \ {Max(T)} \in SUBSET (1 .. m) /\ m \notin T \ {Max(T)}
          BY <3>2
        <5>2. g[T \ {Max(T)}] = f[T \ {Max(T)}]
          BY <5>1
        <5> HIDE DEF g
        <5> QED
          BY <4>1, <4>3, <5>2, <2>2
      <4> QED
        BY <4>2, <4>3
    <3> QED
      BY <3>1, <3>2
  <2>7. Iter(G, b, s, 1 .. m, g)
    <3>1. g = [T \in SUBSET (1 .. m) |-> g[T]]
      OBVIOUS
    <3> HIDE DEF g, m
    <3> QED
      BY <2>6, <3>1 DEF Iter
  <2> HIDE DEF g
  <2>8. \E h \in [SUBSET (1 .. n + 1) -> St] : Iter(G, b, s, 1 .. n + 1, h)
    BY <2>5, <2>7
  <2> QED
    BY <2>8
<1>3. 0 .. Len(s) \subseteq S
  <2> HIDE DEF S
  <2> QED
    BY <1>0, <1>1, <1>2, Climb
<1>4. Len(s) \in S
  <2> HIDE DEF S
  <2> QED
    BY <1>0, <1>3
<1>5. Len(s) <= Len(s)
  BY <1>0
<1> QED
  BY <1>4, <1>5, Zenon

\* A function that solves that equation where its values are states.
Solves(St, G, b, s, f) ==
  /\ f[{}] = b
  /\ \A T \in SUBSET (1 .. Len(s)) : T # {} /\ f[T \ {Max(T)}] \in St =>
       f[T] = G[<<f[T \ {Max(T)}], s[Max(T)]>>]

LEMMA IterTrace ==
  ASSUME NEW St, NEW A, NEW G \in [St \X A -> St], NEW b \in St, NEW s \in Seq(A), NEW f,
         Solves(St, G, b, s, f)
  PROVE  Ends(St, G, b, s, f[1 .. Len(s)])
<1> DEFINE S == {k \in Nat : k <= Len(s) => f[1 .. k] \in St}
           h == [k \in 0 .. Len(s) |-> f[1 .. k]]
<1>0. Len(s) \in Nat
  OBVIOUS
<1>1. 0 \in S
  <2>1. 1 .. 0 = {}
    OBVIOUS
  <2> QED
    BY <2>1 DEF Solves
<1>2. ASSUME NEW k \in 1 .. Len(s), f[1 .. k - 1] \in St
      PROVE  f[1 .. k] = G[<<f[1 .. k - 1], s[k]>>] /\ f[1 .. k] \in St
  <2>0. k \in Nat /\ k # 0
    BY <1>0
  <2>1. Max(1 .. k) = k /\ (1 .. k) \ {Max(1 .. k)} = 1 .. k - 1
    BY <2>0, MaxOfFirst
  <2>2. 1 .. k \in SUBSET (1 .. Len(s)) /\ 1 .. k # {}
    <3>1. 1 .. k \subseteq 1 .. Len(s)
      BY <1>0
    <3>2. k \in 1 .. k
      BY <2>0
    <3> QED
      BY <3>1, <3>2
  <2>4. s[k] \in A
    BY ElementOfSeq
  <2>3. f[1 .. k] = G[<<f[1 .. k - 1], s[k]>>]
    BY <1>2, <2>1, <2>2 DEF Solves
  <2> QED
    BY <1>2, <2>4, <2>3
<1>3. ASSUME NEW k \in 0 .. Len(s), k < Len(s), k \in S PROVE k + 1 \in S
  <2>1. k + 1 \in 1 .. Len(s) /\ (k + 1) - 1 = k /\ k <= Len(s) /\ k + 1 \in Nat
    BY <1>0, <1>3
  <2>2. f[1 .. (k + 1) - 1] \in St
    BY <1>3, <2>1
  <2>3. f[1 .. (k + 1)] \in St
    BY <1>2, <2>1, <2>2
  <2> QED
    BY <2>1, <2>3
<1>4. 0 .. Len(s) \subseteq S
  <2> HIDE DEF S
  <2> QED
    BY <1>0, <1>1, <1>3, Climb
<1>5. \A k \in 0 .. Len(s) : f[1 .. k] \in St
  BY <1>4
<1>6. h \in [0 .. Len(s) -> St]
  BY <1>5
<1>7. h[0] = b
  <2>1. 1 .. 0 = {} /\ 0 \in 0 .. Len(s)
    BY <1>0
  <2> QED
    BY <2>1 DEF Solves
<1>8. ASSUME NEW k \in 1 .. Len(s) PROVE h[k] = G[<<h[k - 1], s[k]>>]
  <2>1. k - 1 \in 0 .. Len(s) /\ k \in 0 .. Len(s)
    BY <1>0
  <2> QED
    BY <1>2, <1>5, <2>1
<1>9. h[Len(s)] = f[1 .. Len(s)]
  BY <1>0
<1> HIDE DEF h
<1> QED
  BY <1>6, <1>7, <1>8, <1>9 DEF Traces, Ends

\* Two traces agree as far as their sequences do.
LEMMA TraceSnoc ==
  ASSUME NEW St, NEW A, NEW G, NEW b, NEW s \in Seq(A), NEW c \in A,
         NEW h \in Traces(St, G, b, s), NEW j \in Traces(St, G, b, Append(s, c))
  PROVE  j[Len(s) + 1] = G[<<h[Len(s)], c>>]
<1> DEFINE S == {k \in Nat : k <= Len(s) => j[k] = h[k]}
           n == Len(s)
           t == Append(s, c)
<1>0. n \in Nat /\ Len(t) = n + 1 /\ t[n + 1] = c /\ \A k \in 1 .. n : t[k] = s[k]
  OBVIOUS
<1> HIDE DEF t
<1>1. /\ h[0] = b /\ \A k \in 1 .. n : h[k] = G[<<h[k - 1], s[k]>>]
      /\ j[0] = b /\ \A k \in 1 .. n + 1 : j[k] = G[<<j[k - 1], t[k]>>]
  BY <1>0 DEF Traces, t
<1> HIDE DEF n
<1>2. 0 \in S
  BY <1>1
<1>3. ASSUME NEW k \in 0 .. n, k < n, k \in S PROVE k + 1 \in S
  <2>1. k + 1 \in 1 .. n /\ k + 1 \in 1 .. n + 1 /\ (k + 1) - 1 = k /\ k <= n
    BY <1>0, <1>3
  <2>2. j[k] = h[k]
    BY <1>3, <2>1 DEF n
  <2>3. j[k + 1] = G[<<j[k], t[k + 1]>>] /\ h[k + 1] = G[<<h[k], s[k + 1]>>]
    BY <1>1, <2>1
  <2>4. j[k + 1] = h[k + 1]
    BY <1>0, <2>1, <2>2, <2>3
  <2> QED
    BY <2>4
<1>4. 0 .. n \subseteq S
  <2> HIDE DEF S
  <2> QED
    BY <1>0, <1>2, <1>3, Climb
<1>5. j[n] = h[n]
  BY <1>0, <1>4 DEF n
<1>6. n + 1 \in 1 .. n + 1 /\ (n + 1) - 1 = n
  BY <1>0
<1>7. j[n + 1] = G[<<j[n], t[n + 1]>>]
  BY <1>1, <1>6
<1> QED
  BY <1>0, <1>5, <1>7 DEF n

LEMMA EndsEmpty ==
  ASSUME NEW St, NEW G, NEW b, NEW x, Ends(St, G, b, <<>>, x)
  PROVE  x = b
  BY DEF Ends, Traces

LEMMA EndsType ==
  ASSUME NEW St, NEW A, NEW G, NEW b, NEW s \in Seq(A), NEW x, Ends(St, G, b, s, x)
  PROVE  x \in St
<1>1. Len(s) \in 0 .. Len(s)
  OBVIOUS
<1> QED
  BY <1>1 DEF Ends, Traces

LEMMA EndsSnoc ==
  ASSUME NEW St, NEW A, NEW G, NEW b, NEW s \in Seq(A), NEW c \in A, NEW x, NEW y,
         Ends(St, G, b, s, x), Ends(St, G, b, Append(s, c), y)
  PROVE  y = G[<<x, c>>]
<1>1. PICK h \in Traces(St, G, b, s) : x = h[Len(s)]
  BY DEF Ends
<1>2. PICK j \in Traces(St, G, b, Append(s, c)) : y = j[Len(Append(s, c))]
  BY DEF Ends
<1>3. j[Len(s) + 1] = G[<<h[Len(s)], c>>]
  BY TraceSnoc
<1>4. Len(Append(s, c)) = Len(s) + 1
  OBVIOUS
<1> QED
  BY <1>1, <1>2, <1>3, <1>4

----------------------------------------------------------------------------
(* The loop of Sift: what it leaves, and one character more *)

SiftG(A, W) ==
  [x \in Seq(A \cap W) \X A |-> IF x[2] \in W THEN Append(x[1], x[2]) ELSE x[1]]

LEMMA SiftTrace ==
  ASSUME NEW E, NEW W, NEW s \in Seq(E)
  PROVE  /\ SiftG(E, W) \in [Seq(E \cap W) \X E -> Seq(E \cap W)]
         /\ Ends(Seq(E \cap W), SiftG(E, W), <<>>, s, Sift(s, W))
<1> DEFINE St == Seq(E \cap W)
           A == E
           q == s
           b == <<>>
           G == SiftG(E, W)
           Turn(a, c) == IF c \in W THEN Append(a, c) ELSE a
           Eq(h) == h = [T \in SUBSET (DOMAIN q) |->
                           IF T = {} THEN b ELSE Turn(h[T \ {Max(T)}], q[Max(T)])]
           f == CHOOSE h : Eq(h)
<1>1. Sift(s, W) = f[DOMAIN q]
  BY DEF Sift, FoldLeft, MapThenFoldSet
<1>2. \A a \in St, c \in A : Turn(a, c) \in St /\ G[<<a, c>>] = Turn(a, c)
  BY DEF SiftG
<1>3. G \in [St \X A -> St]
  BY DEF SiftG
<1>4. b \in St /\ q \in Seq(A) /\ DOMAIN q = 1 .. Len(q) /\ Len(q) \in Nat
  OBVIOUS
<1> HIDE DEF Turn, G, St, b, A, q
<1>5. PICK g \in [SUBSET (1 .. Len(q)) -> St] : Iter(G, b, q, 1 .. Len(q), g)
  BY <1>3, <1>4, IterExists
<1>6. ASSUME NEW T \in SUBSET (1 .. Len(q)), T # {}
      PROVE  T \ {Max(T)} \in SUBSET (1 .. Len(q)) /\ q[Max(T)] \in A
  <2>1. Max(T) \in 1 .. Len(q)
    BY <1>4, <1>6, MaxOfRange
  <2> QED
    BY <1>4, <2>1, ElementOfSeq
<1>7. Eq(g)
  <2>1. ASSUME NEW T \in SUBSET (1 .. Len(q)), T # {}
        PROVE  G[<<g[T \ {Max(T)}], q[Max(T)]>>] = Turn(g[T \ {Max(T)}], q[Max(T)])
    BY <1>2, <1>6, <2>1
  <2> QED
    BY <1>4, <1>5, <2>1 DEF Iter
<1>8. Eq(f)
  <2> HIDE DEF Eq
  <2> QED
    BY <1>7
<1>9. Solves(St, G, b, q, f)
  <2> HIDE DEF f
  <2>1. f[{}] = b
    BY <1>8
  <2>2. ASSUME NEW T \in SUBSET (1 .. Len(q)), T # {}, f[T \ {Max(T)}] \in St
        PROVE  f[T] = G[<<f[T \ {Max(T)}], q[Max(T)]>>]
    <3>1. f[T] = Turn(f[T \ {Max(T)}], q[Max(T)])
      BY <1>4, <1>8, <2>2
    <3> QED
      BY <1>2, <1>6, <2>2, <3>1
  <2> QED
    BY <2>1, <2>2 DEF Solves
<1>10. Ends(St, G, b, q, f[1 .. Len(q)])
  <2> HIDE DEF f
  <2> QED
    BY <1>3, <1>4, <1>9, IterTrace
<1> HIDE DEF f
<1>11. G \in [St \X A -> St] /\ Ends(St, G, b, q, Sift(s, W))
  BY <1>1, <1>3, <1>4, <1>10
<1> QED
  BY <1>11 DEF St, G, A, q, b

\* Sift leaves nothing of nothing, and of one character more that one if it is
\* wanted.
Sifting(A, W) ==
  /\ Sift(<<>>, W) = <<>>
  /\ \A s \in Seq(A) : Sift(s, W) \in Seq(A \cap W)
  /\ \A s \in Seq(A), c \in A :
       Sift(Append(s, c), W) = IF c \in W THEN Append(Sift(s, W), c) ELSE Sift(s, W)

LEMMA SiftFacts ==
  ASSUME NEW A, NEW W
  PROVE  Sifting(A, W)
<1> DEFINE St == Seq(A \cap W)
<1>1. \A s \in Seq(A) : Ends(St, SiftG(A, W), <<>>, s, Sift(s, W))
  BY SiftTrace
<1>2. Sift(<<>>, W) = <<>>
  <2>1. <<>> \in Seq(A)
    OBVIOUS
  <2> HIDE DEF St
  <2> QED
    BY <1>1, <2>1, EndsEmpty
<1>3. \A s \in Seq(A) : Sift(s, W) \in St
  <2> HIDE DEF St
  <2> QED
    BY <1>1, EndsType
<1>4. ASSUME NEW s \in Seq(A), NEW c \in A
      PROVE  Sift(Append(s, c), W) = IF c \in W THEN Append(Sift(s, W), c) ELSE Sift(s, W)
  <2>1. Append(s, c) \in Seq(A)
    OBVIOUS
  <2>2. Sift(Append(s, c), W) = SiftG(A, W)[<<Sift(s, W), c>>]
    <3>1. Ends(St, SiftG(A, W), <<>>, s, Sift(s, W))
      BY <1>1
    <3>2. Ends(St, SiftG(A, W), <<>>, Append(s, c), Sift(Append(s, c), W))
      BY <1>1, <2>1
    <3> HIDE DEF St
    <3> QED
      BY <3>1, <3>2, EndsSnoc
  <2>3. Sift(s, W) \in Seq(A \cap W)
    BY <1>3
  <2> QED
    BY <2>2, <2>3 DEF SiftG
<1> HIDE DEF St
<1> QED
  BY <1>2, <1>3, <1>4 DEF Sifting, St

----------------------------------------------------------------------------
(* The loop of splitLines *)

SplitStates == [out : Seq(Seq(Chars)), cur : Seq(Chars), cr : BOOLEAN]
SplitStart == [out |-> <<>>, cur |-> <<>>, cr |-> FALSE]
SplitG == [x \in SplitStates \X Chars |-> SplitTurn(x[1], x[2])]

LEMMA SplitTurnType ==
  ASSUME NEW a \in SplitStates, NEW c \in Chars
  PROVE  SplitTurn(a, c) \in SplitStates
<1> DEFINE Cs == Chars
<1>1. a.out \in Seq(Seq(Cs)) /\ a.cur \in Seq(Cs) /\ a.cr \in BOOLEAN /\ c \in Cs
  BY DEF SplitStates
<1>2. [a EXCEPT !.cr = FALSE] \in SplitStates
  BY DEF SplitStates
<1>3. [out |-> Append(a.out, a.cur), cur |-> <<>>, cr |-> c = "CR"] \in SplitStates
  <2> HIDE DEF Cs
  <2>1. Append(a.out, a.cur) \in Seq(Seq(Cs)) /\ <<>> \in Seq(Cs)
    BY <1>1
  <2> QED
    BY <2>1 DEF SplitStates, Cs
<1>4. [out |-> a.out, cur |-> Append(a.cur, c), cr |-> FALSE] \in SplitStates
  <2> HIDE DEF Cs
  <2>1. Append(a.cur, c) \in Seq(Cs)
    BY <1>1
  <2> QED
    BY <1>1, <2>1 DEF SplitStates, Cs
<1> QED
  BY <1>2, <1>3, <1>4 DEF SplitTurn

LEMMA SplitTrace ==
  ASSUME NEW s \in Seq(Chars)
  PROVE  /\ SplitG \in [SplitStates \X Chars -> SplitStates]
         /\ Ends(SplitStates, SplitG, SplitStart, s, SplitLoop(s))
<1> DEFINE St == SplitStates
           A == Chars
           q == s
           b == SplitStart
           G == SplitG
           Turn(a, c) == SplitTurn(a, c)
           Eq(h) == h = [T \in SUBSET (DOMAIN q) |->
                           IF T = {} THEN b ELSE Turn(h[T \ {Max(T)}], q[Max(T)])]
           f == CHOOSE h : Eq(h)
<1>1. SplitLoop(s) = f[DOMAIN q]
  BY DEF SplitLoop, FoldLeft, MapThenFoldSet, SplitStart
<1>2. \A a \in St, c \in A : Turn(a, c) \in St /\ G[<<a, c>>] = Turn(a, c)
  BY SplitTurnType DEF SplitG
<1>3. G \in [St \X A -> St]
  BY SplitTurnType DEF SplitG
<1>4. b \in St /\ q \in Seq(A) /\ DOMAIN q = 1 .. Len(q) /\ Len(q) \in Nat
  BY DEF SplitStates, SplitStart
<1> HIDE DEF Turn, G, St, b, A, q
<1>5. PICK g \in [SUBSET (1 .. Len(q)) -> St] : Iter(G, b, q, 1 .. Len(q), g)
  BY <1>3, <1>4, IterExists
<1>6. ASSUME NEW T \in SUBSET (1 .. Len(q)), T # {}
      PROVE  T \ {Max(T)} \in SUBSET (1 .. Len(q)) /\ q[Max(T)] \in A
  <2>1. Max(T) \in 1 .. Len(q)
    BY <1>4, <1>6, MaxOfRange
  <2> QED
    BY <1>4, <2>1, ElementOfSeq
<1>7. Eq(g)
  <2>1. ASSUME NEW T \in SUBSET (1 .. Len(q)), T # {}
        PROVE  G[<<g[T \ {Max(T)}], q[Max(T)]>>] = Turn(g[T \ {Max(T)}], q[Max(T)])
    BY <1>2, <1>6, <2>1
  <2> QED
    BY <1>4, <1>5, <2>1 DEF Iter
<1>8. Eq(f)
  <2> HIDE DEF Eq
  <2> QED
    BY <1>7
<1>9. Solves(St, G, b, q, f)
  <2> HIDE DEF f
  <2>1. f[{}] = b
    BY <1>8
  <2>2. ASSUME NEW T \in SUBSET (1 .. Len(q)), T # {}, f[T \ {Max(T)}] \in St
        PROVE  f[T] = G[<<f[T \ {Max(T)}], q[Max(T)]>>]
    <3>1. f[T] = Turn(f[T \ {Max(T)}], q[Max(T)])
      BY <1>4, <1>8, <2>2
    <3> QED
      BY <1>2, <1>6, <2>2, <3>1
  <2> QED
    BY <2>1, <2>2 DEF Solves
<1>10. Ends(St, G, b, q, f[1 .. Len(q)])
  <2> HIDE DEF f
  <2> QED
    BY <1>3, <1>4, <1>9, IterTrace
<1> HIDE DEF f
<1>11. G \in [St \X A -> St] /\ Ends(St, G, b, q, SplitLoop(s))
  BY <1>1, <1>3, <1>4, <1>10
<1> QED
  BY <1>11 DEF St, G, A, q, b

LEMMA SplitFacts ==
  /\ SplitLoop(<<>>) = SplitStart
  /\ \A s \in Seq(Chars) : SplitLoop(s) \in SplitStates
  /\ \A s \in Seq(Chars), c \in Chars : SplitLoop(Append(s, c)) = SplitTurn(SplitLoop(s), c)
<1>1. \A s \in Seq(Chars) : Ends(SplitStates, SplitG, SplitStart, s, SplitLoop(s))
  BY SplitTrace
<1>2. SplitLoop(<<>>) = SplitStart
  <2>1. <<>> \in Seq(Chars)
    OBVIOUS
  <2> QED
    BY <1>1, <2>1, EndsEmpty
<1>3. \A s \in Seq(Chars) : SplitLoop(s) \in SplitStates
  BY <1>1, EndsType
<1>4. ASSUME NEW s \in Seq(Chars), NEW c \in Chars
      PROVE  SplitLoop(Append(s, c)) = SplitTurn(SplitLoop(s), c)
  <2>1. Append(s, c) \in Seq(Chars)
    OBVIOUS
  <2>2. SplitLoop(Append(s, c)) = SplitG[<<SplitLoop(s), c>>]
    <3>1. Ends(SplitStates, SplitG, SplitStart, s, SplitLoop(s))
      BY <1>1
    <3>2. Ends(SplitStates, SplitG, SplitStart, Append(s, c), SplitLoop(Append(s, c)))
      BY <1>1, <2>1
    <3> QED
      BY <3>1, <3>2, EndsSnoc
  <2>3. SplitLoop(s) \in SplitStates
    BY <1>3
  <2> QED
    BY <2>2, <2>3 DEF SplitG
<1> QED
  BY <1>2, <1>3, <1>4

LEMMA splitLinesType ==
  ASSUME NEW s \in Seq(Chars)
  PROVE  splitLines(s) \in Seq(Seq(Chars))
<1> DEFINE end == SplitLoop(s)
           Cs == Chars
<1>1. end \in SplitStates
  BY SplitFacts
<1> HIDE DEF end
<1>2. end.out \in Seq(Seq(Cs)) /\ end.cur \in Seq(Cs)
  BY <1>1 DEF SplitStates
<1>3. splitLines(s) = IF end.cur = <<>> THEN end.out ELSE Append(end.out, end.cur)
  BY DEF splitLines, end
<1> HIDE DEF Cs
<1>4. Append(end.out, end.cur) \in Seq(Seq(Cs))
  BY <1>2
<1> QED
  BY <1>2, <1>3, <1>4 DEF Cs

----------------------------------------------------------------------------
(* The loop of removeLongRuns *)

LongRunStates(s) ==
  [runStart : 0 .. Len(s), runes : Nat, last : 0 .. Len(s), out : Seq(Chars)]
LongRunStart == [runStart |-> 0, runes |-> 0, last |-> 0, out |-> <<>>]
LongRunG(s) == [x \in LongRunStates(s) \X (1 .. Len(s)) |-> LongRunTurn(s, x[1], x[2])]

\* A part of a text, wherever it starts and ends.
LEMMA PieceType ==
  ASSUME NEW A, NEW s \in Seq(A), NEW m \in Nat, NEW n \in Int, n <= Len(s)
  PROVE  SubSeq(s, m + 1, n) \in Seq(A)
<1>1. \A i \in m + 1 .. n : i \in 1 .. Len(s)
  OBVIOUS
<1>2. \A i \in m + 1 .. n : s[i] \in A
  BY <1>1, ElementOfSeq
<1>3. m + 1 \in Int
  OBVIOUS
<1> QED
  BY <1>2, <1>3, SubSeqProperties

LEMMA CutRunType ==
  ASSUME NEW s \in Seq(Chars), NEW a \in LongRunStates(s), NEW i \in 0 .. Len(s)
  PROVE  CutRun(s, a, i) \in LongRunStates(s)
<1> DEFINE Cs == Chars
           piece == SubSeq(s, a.last + 1, a.runStart - 1)
<1>1. /\ a.last \in 0 .. Len(s) /\ a.runStart \in 0 .. Len(s) /\ a.out \in Seq(Cs)
      /\ a.runes \in Nat /\ s \in Seq(Cs) /\ Len(s) \in Nat
  BY DEF LongRunStates
<1> HIDE DEF Cs
<1>2. piece \in Seq(Cs)
  <2>1. a.last \in Nat /\ a.runStart - 1 \in Int /\ a.runStart - 1 <= Len(s)
    BY <1>1
  <2> QED
    BY <1>1, <2>1, PieceType
<1> HIDE DEF piece
<1>3. a.out \o piece \in Seq(Cs)
  BY <1>1, <1>2
<1> DEFINE out == a.out \o piece
<1> HIDE DEF out
<1>4. [a EXCEPT !.out = out, !.last = i] \in LongRunStates(s)
  BY <1>3 DEF LongRunStates, Cs, out
<1>5. CutRun(s, a, i) \in {a, [a EXCEPT !.out = out, !.last = i]}
  BY DEF CutRun, out, piece
<1> QED
  BY <1>4, <1>5

LEMMA LongRunTurnType ==
  ASSUME NEW s \in Seq(Chars), NEW a \in LongRunStates(s), NEW i \in 1 .. Len(s)
  PROVE  LongRunTurn(s, a, i) \in LongRunStates(s)
<1> DEFINE cut == CutRun(s, a, i - 1)
<1>1. i - 1 \in 0 .. Len(s) /\ i \in 0 .. Len(s) /\ a.runes + 1 \in Nat
      /\ a.runStart \in 0 .. Len(s)
  BY DEF LongRunStates
<1>2. cut \in LongRunStates(s)
  BY <1>1, CutRunType
<1> HIDE DEF cut
<1>3. [cut EXCEPT !.runes = 0] \in LongRunStates(s)
  BY <1>2 DEF LongRunStates
<1> DEFINE from == IF a.runes = 0 THEN i ELSE a.runStart
<1>4. from \in 0 .. Len(s)
  BY <1>1
<1> HIDE DEF from
<1>5. [a EXCEPT !.runStart = from, !.runes = a.runes + 1] \in LongRunStates(s)
  BY <1>1, <1>4 DEF LongRunStates
<1>6. LongRunTurn(s, a, i) \in {[cut EXCEPT !.runes = 0],
                               [a EXCEPT !.runStart = from, !.runes = a.runes + 1]}
  BY DEF LongRunTurn, cut, from
<1> QED
  BY <1>3, <1>5, <1>6

LEMMA LongRunTrace ==
  ASSUME NEW s \in Seq(Chars)
  PROVE  /\ LongRunG(s) \in [LongRunStates(s) \X (1 .. Len(s)) -> LongRunStates(s)]
         /\ Ends(LongRunStates(s), LongRunG(s), LongRunStart, [i \in DOMAIN s |-> i], LongRunLoop(s))
<1> DEFINE St == LongRunStates(s)
           A == (1 .. Len(s))
           q == [i \in DOMAIN s |-> i]
           b == LongRunStart
           G == LongRunG(s)
           Turn(a, c) == LongRunTurn(s, a, c)
           Eq(h) == h = [T \in SUBSET (DOMAIN q) |->
                           IF T = {} THEN b ELSE Turn(h[T \ {Max(T)}], q[Max(T)])]
           f == CHOOSE h : Eq(h)
<1>1. LongRunLoop(s) = f[DOMAIN q]
  BY DEF LongRunLoop, FoldLeftDomain, FoldLeft, MapThenFoldSet, LongRunStart
<1>2. \A a \in St, c \in A : Turn(a, c) \in St /\ G[<<a, c>>] = Turn(a, c)
  BY LongRunTurnType DEF LongRunG
<1>3. G \in [St \X A -> St]
  BY LongRunTurnType DEF LongRunG
<1>4. b \in St /\ q \in Seq(A) /\ DOMAIN q = 1 .. Len(q) /\ Len(q) \in Nat
  BY DEF LongRunStates, LongRunStart
<1> HIDE DEF Turn, G, St, b, A, q
<1>5. PICK g \in [SUBSET (1 .. Len(q)) -> St] : Iter(G, b, q, 1 .. Len(q), g)
  BY <1>3, <1>4, IterExists
<1>6. ASSUME NEW T \in SUBSET (1 .. Len(q)), T # {}
      PROVE  T \ {Max(T)} \in SUBSET (1 .. Len(q)) /\ q[Max(T)] \in A
  <2>1. Max(T) \in 1 .. Len(q)
    BY <1>4, <1>6, MaxOfRange
  <2> QED
    BY <1>4, <2>1, ElementOfSeq
<1>7. Eq(g)
  <2>1. ASSUME NEW T \in SUBSET (1 .. Len(q)), T # {}
        PROVE  G[<<g[T \ {Max(T)}], q[Max(T)]>>] = Turn(g[T \ {Max(T)}], q[Max(T)])
    BY <1>2, <1>6, <2>1
  <2> QED
    BY <1>4, <1>5, <2>1 DEF Iter
<1>8. Eq(f)
  <2> HIDE DEF Eq
  <2> QED
    BY <1>7
<1>9. Solves(St, G, b, q, f)
  <2> HIDE DEF f
  <2>1. f[{}] = b
    BY <1>8
  <2>2. ASSUME NEW T \in SUBSET (1 .. Len(q)), T # {}, f[T \ {Max(T)}] \in St
        PROVE  f[T] = G[<<f[T \ {Max(T)}], q[Max(T)]>>]
    <3>1. f[T] = Turn(f[T \ {Max(T)}], q[Max(T)])
      BY <1>4, <1>8, <2>2
    <3> QED
      BY <1>2, <1>6, <2>2, <3>1
  <2> QED
    BY <2>1, <2>2 DEF Solves
<1>10. Ends(St, G, b, q, f[1 .. Len(q)])
  <2> HIDE DEF f
  <2> QED
    BY <1>3, <1>4, <1>9, IterTrace
<1> HIDE DEF f
<1>11. G \in [St \X A -> St] /\ Ends(St, G, b, q, LongRunLoop(s))
  BY <1>1, <1>3, <1>4, <1>10
<1> QED
  BY <1>11 DEF St, G, A, q, b

LEMMA removeLongRunsType ==
  ASSUME NEW s \in Seq(Chars)
  PROVE  removeLongRuns(s) \in Seq(Chars)
<1> DEFINE Cs == Chars
           q == [i \in DOMAIN s |-> i]
           end == CutRun(s, LongRunLoop(s), Len(s))
<1>1. q \in Seq(1 .. Len(s)) /\ Len(s) \in 0 .. Len(s)
  OBVIOUS
<1>2. LongRunLoop(s) \in LongRunStates(s)
  <2>1. Ends(LongRunStates(s), LongRunG(s), LongRunStart, q, LongRunLoop(s))
    BY LongRunTrace
  <2> HIDE DEF q
  <2> QED
    BY <1>1, <2>1, EndsType
<1>3. end \in LongRunStates(s)
  BY <1>1, <1>2, CutRunType
<1>4. removeLongRuns(s) = end.out \o SubSeq(s, end.last + 1, Len(s))
  BY DEF removeLongRuns
<1> HIDE DEF end
<1>5. end.out \in Seq(Cs) /\ end.last \in Nat /\ s \in Seq(Cs) /\ Len(s) \in Int /\ Len(s) <= Len(s)
  BY <1>3 DEF LongRunStates
<1> HIDE DEF Cs
<1>6. SubSeq(s, end.last + 1, Len(s)) \in Seq(Cs)
  BY <1>5, PieceType
<1>7. end.out \o SubSeq(s, end.last + 1, Len(s)) \in Seq(Cs)
  BY <1>5, <1>6, ConcatProperties
<1> QED
  BY <1>4, <1>7 DEF Cs

----------------------------------------------------------------------------
(* Lines *)

LEMMA KeptType ==
  ASSUME NEW A, NEW s \in Seq(A), NEW cut
  PROVE  Kept(s, cut) \in Seq(A)
<1> DEFINE q == [i \in DOMAIN s |-> i]
           W == DOMAIN s \ cut
           left == Sift(q, W)
<1>1. q \in Seq(1 .. Len(s)) /\ (1 .. Len(s)) \cap W \subseteq 1 .. Len(s)
  OBVIOUS
<1>2. left \in Seq((1 .. Len(s)) \cap W)
  <2> HIDE DEF q, W
  <2> QED
    BY <1>1, SiftFacts DEF Sifting
<1>3. Kept(s, cut) = [k \in DOMAIN left |-> s[left[k]]]
  BY DEF Kept
<1> HIDE DEF left, W
<1>4. Len(left) \in Nat /\ DOMAIN left = 1 .. Len(left)
  BY <1>2, LenProperties
<1>5. ASSUME NEW k \in 1 .. Len(left) PROVE s[left[k]] \in A
  <2>1. left[k] \in 1 .. Len(s)
    BY <1>1, <1>2, ElementOfSeq
  <2> QED
    BY <2>1, ElementOfSeq
<1> QED
  BY <1>3, <1>4, <1>5

\* What is left of a line is text without blanks.
LEMMA normalizeType ==
  ASSUME NEW s \in Seq(Chars)
  PROVE  normalize(s) \in Seq(Chars \ Blank)
<1> DEFINE Cs == Chars
           t1 == WithoutNUL(s)
           t2 == removeLongRuns(t1)
           t3 == removeEmails(t2)
           t4 == removeURLs(t3)
           W == {c \in Chars : Visible(c)}
<1>1. t1 \in Seq(Chars)
  <2>1. Sift(s, Cs \ {"NUL"}) \in Seq(Cs \cap (Cs \ {"NUL"}))
    <3> HIDE DEF Cs
    <3> QED
      BY SiftFacts DEF Sifting, Cs
  <2>2. Cs \cap (Cs \ {"NUL"}) \subseteq Cs
    OBVIOUS
  <2> HIDE DEF Cs
  <2>3. Sift(s, Cs \ {"NUL"}) \in Seq(Cs)
    BY <2>1, <2>2, SeqMonotonic
  <2> QED
    BY <2>3 DEF WithoutNUL, Cs
<1> HIDE DEF t1
<1>2. t2 \in Seq(Chars)
  BY <1>1, removeLongRunsType
<1> HIDE DEF t2
<1>3. t3 \in Seq(Chars)
  BY <1>2, KeptType DEF removeEmails
<1> HIDE DEF t3
<1>4. t4 \in Seq(Chars)
  BY <1>3, KeptType DEF removeURLs
<1> HIDE DEF t4
<1>5. Sift(t4, W) \in Seq(Chars \cap W)
  <2> HIDE DEF W
  <2> QED
    BY <1>4, SiftFacts DEF Sifting
<1>6. Chars \cap W = Chars \ Blank
  BY DEF Visible, isPySpace
<1>7. normalize(s) = Sift(t4, W)
  BY DEF normalize, removePyWhitespace, t4, t3, t2, t1
<1> QED
  BY <1>5, <1>6, <1>7

GoodLine == {l \in Seq(Chars \ Blank) : Len(l) >= minLineLength}
WithLineG == [x \in Seq(GoodLine) \X Seq(Chars) |-> WithLine(x[1], x[2])]
Handled(split) == FoldLeft(WithLine, <<>>, split)

LEMMA WithLineType ==
  ASSUME NEW a \in Seq(GoodLine), NEW l \in Seq(Chars)
  PROVE  WithLine(a, l) \in Seq(GoodLine)
<1> DEFINE norm == normalize(l)
<1>1. norm \in Seq(Chars \ Blank)
  BY normalizeType
<1> HIDE DEF norm
<1>2. shouldHandleLine(norm) => norm \in GoodLine
  BY <1>1 DEF shouldHandleLine, GoodLine
<1>3. WithLine(a, l) = IF shouldHandleLine(norm) THEN Append(a, norm) ELSE a
  BY DEF WithLine, norm
<1> QED
  BY <1>2, <1>3

LEMMA HandledTrace ==
  ASSUME NEW s \in Seq(Seq(Chars))
  PROVE  /\ WithLineG \in [Seq(GoodLine) \X Seq(Chars) -> Seq(GoodLine)]
         /\ Ends(Seq(GoodLine), WithLineG, <<>>, s, Handled(s))
<1> DEFINE St == Seq(GoodLine)
           A == Seq(Chars)
           q == s
           b == <<>>
           G == WithLineG
           Turn(a, c) == WithLine(a, c)
           Eq(h) == h = [T \in SUBSET (DOMAIN q) |->
                           IF T = {} THEN b ELSE Turn(h[T \ {Max(T)}], q[Max(T)])]
           f == CHOOSE h : Eq(h)
<1>1. Handled(s) = f[DOMAIN q]
  BY DEF Handled, FoldLeft, MapThenFoldSet
<1>2. \A a \in St, c \in A : Turn(a, c) \in St /\ G[<<a, c>>] = Turn(a, c)
  BY WithLineType DEF WithLineG
<1>3. G \in [St \X A -> St]
  BY WithLineType DEF WithLineG
<1>4. b \in St /\ q \in Seq(A) /\ DOMAIN q = 1 .. Len(q) /\ Len(q) \in Nat
  OBVIOUS
<1> HIDE DEF Turn, G, St, b, A, q
<1>5. PICK g \in [SUBSET (1 .. Len(q)) -> St] : Iter(G, b, q, 1 .. Len(q), g)
  BY <1>3, <1>4, IterExists
<1>6. ASSUME NEW T \in SUBSET (1 .. Len(q)), T # {}
      PROVE  T \ {Max(T)} \in SUBSET (1 .. Len(q)) /\ q[Max(T)] \in A
  <2>1. Max(T) \in 1 .. Len(q)
    BY <1>4, <1>6, MaxOfRange
  <2> QED
    BY <1>4, <2>1, ElementOfSeq
<1>7. Eq(g)
  <2>1. ASSUME NEW T \in SUBSET (1 .. Len(q)), T # {}
        PROVE  G[<<g[T \ {Max(T)}], q[Max(T)]>>] = Turn(g[T \ {Max(T)}], q[Max(T)])
    BY <1>2, <1>6, <2>1
  <2> QED
    BY <1>4, <1>5, <2>1 DEF Iter
<1>8. Eq(f)
  <2> HIDE DEF Eq
  <2> QED
    BY <1>7
<1>9. Solves(St, G, b, q, f)
  <2> HIDE DEF f
  <2>1. f[{}] = b
    BY <1>8
  <2>2. ASSUME NEW T \in SUBSET (1 .. Len(q)), T # {}, f[T \ {Max(T)}] \in St
        PROVE  f[T] = G[<<f[T \ {Max(T)}], q[Max(T)]>>]
    <3>1. f[T] = Turn(f[T \ {Max(T)}], q[Max(T)])
      BY <1>4, <1>8, <2>2
    <3> QED
      BY <1>2, <1>6, <2>2, <3>1
  <2> QED
    BY <2>1, <2>2 DEF Solves
<1>10. Ends(St, G, b, q, f[1 .. Len(q)])
  <2> HIDE DEF f
  <2> QED
    BY <1>3, <1>4, <1>9, IterTrace
<1> HIDE DEF f
<1>11. G \in [St \X A -> St] /\ Ends(St, G, b, q, Handled(s))
  BY <1>1, <1>3, <1>4, <1>10
<1> QED
  BY <1>11 DEF St, G, A, q, b

LEMMA HandledFacts ==
  /\ Handled(<<>>) = <<>>
  /\ \A s \in Seq(Seq(Chars)) : Handled(s) \in Seq(GoodLine)
  /\ \A s \in Seq(Seq(Chars)), c \in Seq(Chars) : Handled(Append(s, c)) = WithLine(Handled(s), c)
<1>1. \A s \in Seq(Seq(Chars)) : Ends(Seq(GoodLine), WithLineG, <<>>, s, Handled(s))
  BY HandledTrace
<1>2. Handled(<<>>) = <<>>
  <2>1. <<>> \in Seq(Seq(Chars))
    OBVIOUS
  <2> QED
    BY <1>1, <2>1, EndsEmpty
<1>3. \A s \in Seq(Seq(Chars)) : Handled(s) \in Seq(GoodLine)
  BY <1>1, EndsType
<1>4. ASSUME NEW s \in Seq(Seq(Chars)), NEW c \in Seq(Chars)
      PROVE  Handled(Append(s, c)) = WithLine(Handled(s), c)
  <2>1. Append(s, c) \in Seq(Seq(Chars))
    OBVIOUS
  <2>2. Handled(Append(s, c)) = WithLineG[<<Handled(s), c>>]
    <3>1. Ends(Seq(GoodLine), WithLineG, <<>>, s, Handled(s))
      BY <1>1
    <3>2. Ends(Seq(GoodLine), WithLineG, <<>>, Append(s, c), Handled(Append(s, c)))
      BY <1>1, <2>1
    <3> QED
      BY <3>1, <3>2, EndsSnoc
  <2>3. Handled(s) \in Seq(GoodLine)
    BY <1>3
  <2> QED
    BY <2>2, <2>3 DEF WithLineG
<1> QED
  BY <1>2, <1>3, <1>4

LEMMA HandledLinesType ==
  ASSUME NEW s \in Seq(Chars)
  PROVE  HandledLines(s) \in Seq(GoodLine)
<1>1. HandledLines(s) = Handled(splitLines(s))
  BY DEF HandledLines, Handled
<1> QED
  BY <1>1, splitLinesType, HandledFacts

----------------------------------------------------------------------------
(* The loop of normalizeHTMLPart *)

LEMMA LeastShown ==
  ASSUME NEW n \in Nat, NEW T \in SUBSET (1 .. n), T # {}
  PROVE  Min(T) \in T /\ \A i \in T : Min(T) <= i
<1>1. T \subseteq Nat
  OBVIOUS
<1>2. \E x \in T : \A i \in T : x <= i
  BY <1>1, LeastNumber
<1> QED
  BY <1>2 DEF Min

LEMMA TrimSpaceType ==
  ASSUME NEW s \in Seq(Chars)
  PROVE  TrimSpace(s) \in Seq(Chars)
<1> DEFINE shown == {i \in DOMAIN s : s[i] \notin Trimmable}
<1>1. shown \in SUBSET (1 .. Len(s)) /\ Len(s) \in Nat
  OBVIOUS
<1>2. TrimSpace(s) = IF shown = {} THEN <<>> ELSE SubSeq(s, Min(shown), Max(shown))
  BY DEF TrimSpace
<1> HIDE DEF shown
<1>3. ASSUME shown # {} PROVE SubSeq(s, Min(shown), Max(shown)) \in Seq(Chars)
  <2>1. Min(shown) \in 1 .. Len(s) /\ Max(shown) \in 1 .. Len(s)
    BY <1>1, <1>3, LeastShown, MaxOfRange
  <2> DEFINE m == Min(shown) - 1
             n == Max(shown)
             Cs == Chars
  <2>2. m \in Nat /\ n \in Int /\ n <= Len(s) /\ m + 1 = Min(shown)
    BY <1>1, <2>1
  <2> HIDE DEF m, n, Cs
  <2>3. SubSeq(s, m + 1, n) \in Seq(Cs)
    BY <2>2, PieceType DEF Cs
  <2> QED
    BY <2>2, <2>3 DEF n, Cs
<1> QED
  BY <1>2, <1>3

TokenStates == [out : Seq(Chars), tok : Seq(Chars), collect : BOOLEAN]
TokenStart == [out |-> <<>>, tok |-> <<>>, collect |-> TRUE]
TokenG == [x \in TokenStates \X Chars |-> TokenTurn(x[1], x[2])]

LEMMA WithTokenType ==
  ASSUME NEW a \in TokenStates
  PROVE  WithToken(a) \in Seq(Chars)
<1> DEFINE Cs == Chars
           t == TrimSpace(a.tok)
           gap == IF a.out = <<>> THEN <<>> ELSE <<" ">>
<1>1. a.out \in Seq(Cs) /\ a.tok \in Seq(Cs)
  BY DEF TokenStates
<1>2. t \in Seq(Cs)
  BY <1>1, TrimSpaceType
<1>3. " " \in Cs
  BY DEF Chars, Blank
<1>4. WithToken(a) = IF a.collect /\ t # <<>> THEN a.out \o gap \o t ELSE a.out
  BY DEF WithToken
<1> HIDE DEF t, Cs
<1>5. gap \in Seq(Cs)
  <2> DEFINE blank == " "
  <2>0. blank \in Cs
    BY <1>3
  <2> HIDE DEF blank
  <2>1. <<blank>> \in Seq(Cs) /\ <<>> \in Seq(Cs)
    BY <2>0
  <2>2. <<" ">> \in Seq(Cs)
    BY <2>1, Zenon DEF blank
  <2> QED
    BY <2>1, <2>2
<1> HIDE DEF gap
<1>6. a.out \o gap \in Seq(Cs)
  BY <1>1, <1>5, ConcatProperties
<1>7. a.out \o gap \o t \in Seq(Cs)
  BY <1>2, <1>6, ConcatProperties
<1> QED
  BY <1>1, <1>4, <1>7 DEF Cs

LEMMA TokenTurnType ==
  ASSUME NEW a \in TokenStates, NEW c \in Chars
  PROVE  TokenTurn(a, c) \in TokenStates
<1> DEFINE Cs == Chars
           out == WithToken(a)
           tok == Append(a.tok, c)
<1>1. a.tok \in Seq(Cs) /\ a.collect \in BOOLEAN /\ c \in Cs
  BY DEF TokenStates
<1>2. out \in Seq(Cs)
  BY WithTokenType
<1>3. collectAfter(c, a.collect) \in BOOLEAN
  BY <1>1 DEF collectAfter
<1> HIDE DEF out, Cs
<1>4. [out |-> out, tok |-> <<>>, collect |-> collectAfter(c, a.collect)] \in TokenStates
  BY <1>2, <1>3 DEF TokenStates, Cs
<1>5. tok \in Seq(Cs)
  BY <1>1
<1> HIDE DEF tok
<1>6. [a EXCEPT !.tok = tok] \in TokenStates
  BY <1>5 DEF TokenStates, Cs
<1> QED
  BY <1>4, <1>6 DEF TokenTurn, out, tok

LEMMA TokenTrace ==
  ASSUME NEW s \in Seq(Chars)
  PROVE  /\ TokenG \in [TokenStates \X Chars -> TokenStates]
         /\ Ends(TokenStates, TokenG, TokenStart, s, TokenLoop(s))
<1> DEFINE St == TokenStates
           A == Chars
           q == s
           b == TokenStart
           G == TokenG
           Turn(a, c) == TokenTurn(a, c)
           Eq(h) == h = [T \in SUBSET (DOMAIN q) |->
                           IF T = {} THEN b ELSE Turn(h[T \ {Max(T)}], q[Max(T)])]
           f == CHOOSE h : Eq(h)
<1>1. TokenLoop(s) = f[DOMAIN q]
  BY DEF TokenLoop, FoldLeft, MapThenFoldSet, TokenStart
<1>2. \A a \in St, c \in A : Turn(a, c) \in St /\ G[<<a, c>>] = Turn(a, c)
  BY TokenTurnType DEF TokenG
<1>3. G \in [St \X A -> St]
  BY TokenTurnType DEF TokenG
<1>4. b \in St /\ q \in Seq(A) /\ DOMAIN q = 1 .. Len(q) /\ Len(q) \in Nat
  BY DEF TokenStates, TokenStart
<1> HIDE DEF Turn, G, St, b, A, q
<1>5. PICK g \in [SUBSET (1 .. Len(q)) -> St] : Iter(G, b, q, 1 .. Len(q), g)
  BY <1>3, <1>4, IterExists
<1>6. ASSUME NEW T \in SUBSET (1 .. Len(q)), T # {}
      PROVE  T \ {Max(T)} \in SUBSET (1 .. Len(q)) /\ q[Max(T)] \in A
  <2>1. Max(T) \in 1 .. Len(q)
    BY <1>4, <1>6, MaxOfRange
  <2> QED
    BY <1>4, <2>1, ElementOfSeq
<1>7. Eq(g)
  <2>1. ASSUME NEW T \in SUBSET (1 .. Len(q)), T # {}
        PROVE  G[<<g[T \ {Max(T)}], q[Max(T)]>>] = Turn(g[T \ {Max(T)}], q[Max(T)])
    BY <1>2, <1>6, <2>1
  <2> QED
    BY <1>4, <1>5, <2>1 DEF Iter
<1>8. Eq(f)
  <2> HIDE DEF Eq
  <2> QED
    BY <1>7
<1>9. Solves(St, G, b, q, f)
  <2> HIDE DEF f
  <2>1. f[{}] = b
    BY <1>8
  <2>2. ASSUME NEW T \in SUBSET (1 .. Len(q)), T # {}, f[T \ {Max(T)}] \in St
        PROVE  f[T] = G[<<f[T \ {Max(T)}], q[Max(T)]>>]
    <3>1. f[T] = Turn(f[T \ {Max(T)}], q[Max(T)])
      BY <1>4, <1>8, <2>2
    <3> QED
      BY <1>2, <1>6, <2>2, <3>1
  <2> QED
    BY <2>1, <2>2 DEF Solves
<1>10. Ends(St, G, b, q, f[1 .. Len(q)])
  <2> HIDE DEF f
  <2> QED
    BY <1>3, <1>4, <1>9, IterTrace
<1> HIDE DEF f
<1>11. G \in [St \X A -> St] /\ Ends(St, G, b, q, TokenLoop(s))
  BY <1>1, <1>3, <1>4, <1>10
<1> QED
  BY <1>11 DEF St, G, A, q, b

LEMMA TokenFacts ==
  /\ TokenLoop(<<>>) = TokenStart
  /\ \A s \in Seq(Chars) : TokenLoop(s) \in TokenStates
  /\ \A s \in Seq(Chars), c \in Chars : TokenLoop(Append(s, c)) = TokenTurn(TokenLoop(s), c)
<1>1. \A s \in Seq(Chars) : Ends(TokenStates, TokenG, TokenStart, s, TokenLoop(s))
  BY TokenTrace
<1>2. TokenLoop(<<>>) = TokenStart
  <2>1. <<>> \in Seq(Chars)
    OBVIOUS
  <2> QED
    BY <1>1, <2>1, EndsEmpty
<1>3. \A s \in Seq(Chars) : TokenLoop(s) \in TokenStates
  BY <1>1, EndsType
<1>4. ASSUME NEW s \in Seq(Chars), NEW c \in Chars
      PROVE  TokenLoop(Append(s, c)) = TokenTurn(TokenLoop(s), c)
  <2>1. Append(s, c) \in Seq(Chars)
    OBVIOUS
  <2>2. TokenLoop(Append(s, c)) = TokenG[<<TokenLoop(s), c>>]
    <3>1. Ends(TokenStates, TokenG, TokenStart, s, TokenLoop(s))
      BY <1>1
    <3>2. Ends(TokenStates, TokenG, TokenStart, Append(s, c), TokenLoop(Append(s, c)))
      BY <1>1, <2>1
    <3> QED
      BY <3>1, <3>2, EndsSnoc
  <2>3. TokenLoop(s) \in TokenStates
    BY <1>3
  <2> QED
    BY <2>2, <2>3 DEF TokenG
<1> QED
  BY <1>2, <1>3, <1>4

LEMMA normalizeHTMLPartType ==
  ASSUME NEW s \in Seq(Chars)
  PROVE  normalizeHTMLPart(s) \in Seq(Chars)
  BY TokenFacts, WithTokenType DEF normalizeHTMLPart

----------------------------------------------------------------------------
(* Parts *)

LEMMA Constants ==
  /\ MaxDepth \in Nat /\ Messages \subseteq Parts
  /\ longRun \in Nat \ {0} /\ minLineLength \in Nat \ {0} /\ atomicNumLines \in Nat \ {0}
  /\ Bad \notin Seq(Seq(Chars))
  BY DigestAssumption DEF DigestAssumption

\* The parts whose kids are in K.
PartsWith(K) ==
  [type : STRING, cte : STRING, charset : STRING, body : Seq(Chars), quoted : Seq(Chars),
   parsed : BOOLEAN, kids : K]

LEMMA PartsOfDef ==
  \A n \in 0 .. MaxDepth :
    PartsOf[n] = PartsWith(IF n = 0 THEN {<<>>} ELSE Seq(PartsOf[n - 1]))
<1> DEFINE Level(f, n) == PartsWith(IF n = 0 THEN {<<>>} ELSE Seq(f[n - 1]))
           Eq(f, m) == f = [n \in 0 .. m |-> Level(f, n)]
           S == {m \in Nat : \E f : Eq(f, m)}
<1>1. 0 \in S
  <2> DEFINE f == [n \in 0 .. 0 |-> PartsWith({<<>>})]
  <2>1. \A n \in 0 .. 0 : n = 0
    OBVIOUS
  <2>2. \A n \in 0 .. 0 : Level(f, n) = PartsWith({<<>>})
    BY <2>1
  <2>3. Eq(f, 0)
    <3> HIDE DEF Level
    <3> QED
      BY <2>2
  <2> HIDE DEF Eq, f
  <2> QED
    BY <2>3
<1>2. ASSUME NEW m \in Nat, m \in S PROVE m + 1 \in S
  <2>1. PICK f : Eq(f, m)
    BY <1>2
  <2> DEFINE g == [n \in 0 .. m + 1 |-> Level(f, n)]
  <2>2. ASSUME NEW n \in 0 .. m + 1 PROVE g[n] = Level(g, n)
    <3>1. CASE n = 0
      BY <3>1
    <3>2. CASE n # 0
      <4>1. n - 1 \in 0 .. m /\ n - 1 \in 0 .. m + 1
        BY <3>2
      <4>2. f[n - 1] = Level(f, n - 1) /\ g[n - 1] = Level(f, n - 1)
        <5> HIDE DEF Level
        <5> QED
          BY <2>1, <4>1
      <4>3. g[n] = Level(f, n)
        <5> HIDE DEF Level
        <5> QED
          OBVIOUS
      <4> HIDE DEF g
      <4>4. Level(f, n) = Level(g, n)
        BY <4>2
      <4> QED
        BY <4>3, <4>4
    <3> QED
      BY <3>1, <3>2
  <2>3. Eq(g, m + 1)
    <3> DEFINE H(n) == Level(g, n)
    <3>1. \A n \in 0 .. m + 1 : g[n] = H(n)
      BY <2>2
    <3>2. g = [n \in 0 .. m + 1 |-> g[n]]
      <4> HIDE DEF Level
      <4> QED
        OBVIOUS
    <3> HIDE DEF g, H
    <3>3. [n \in 0 .. m + 1 |-> g[n]] = [n \in 0 .. m + 1 |-> H(n)]
      BY <3>1
    <3>4. g = [n \in 0 .. m + 1 |-> H(n)]
      BY <3>2, <3>3
    <3> QED
      BY <3>4 DEF H
  <2>4. m + 1 \in Nat
    OBVIOUS
  <2> HIDE DEF Eq, g
  <2> QED
    BY <2>3, <2>4
<1>3. MaxDepth \in S
  <2> HIDE DEF S
  <2>1. MaxDepth \in Nat /\ MaxDepth \in 0 .. MaxDepth
    BY Constants
  <2>2. 0 .. MaxDepth \subseteq S
    BY <1>1, <1>2, <2>1, Climb
  <2> QED
    BY <2>1, <2>2
<1>4. PICK f : Eq(f, MaxDepth)
  BY <1>3
<1>5. PartsOf = CHOOSE g : Eq(g, MaxDepth)
  BY DEF PartsOf, PartsWith
<1>6. Eq(PartsOf, MaxDepth)
  <2> HIDE DEF Eq
  <2> QED
    BY <1>4, <1>5
<1>7. \A n \in 0 .. MaxDepth : PartsOf[n] = Level(PartsOf, n)
  <2> HIDE DEF Level
  <2> QED
    BY <1>6
<1> QED
  BY <1>7

\* A part in which parts are nested at most k deep may stand where n are allowed.
LEMMA PartsNested ==
  \A n \in 0 .. MaxDepth : n < MaxDepth => PartsOf[n] \subseteq PartsOf[n + 1]
<1> DEFINE S == {n \in Nat : n < MaxDepth => PartsOf[n] \subseteq PartsOf[n + 1]}
<1>0. MaxDepth \in Nat
  BY Constants
<1>1. \A K, M : K \subseteq M => PartsWith(K) \subseteq PartsWith(M)
  BY DEF PartsWith
<1>2. 0 \in S
  <2>1. ASSUME 0 < MaxDepth PROVE PartsOf[0] \subseteq PartsOf[0 + 1]
    <3>1. 0 \in 0 .. MaxDepth /\ 1 \in 0 .. MaxDepth
      BY <1>0, <2>1
    <3>2. PartsOf[0] = PartsWith({<<>>}) /\ PartsOf[1] = PartsWith(Seq(PartsOf[0]))
      BY <3>1, PartsOfDef
    <3>3. {<<>>} \subseteq Seq(PartsOf[0])
      OBVIOUS
    <3> DEFINE K == {<<>>}
               M == Seq(PartsOf[0])
    <3>4. PartsOf[0] \subseteq PartsOf[1]
      <4>1. PartsOf[0] = PartsWith(K) /\ PartsOf[1] = PartsWith(M) /\ K \subseteq M
        BY <3>2, <3>3
      <4> HIDE DEF K, M
      <4> QED
        BY <1>1, <4>1
    <3> QED
      BY <3>4
  <2> QED
    BY <2>1
<1>3. ASSUME NEW n \in 0 .. MaxDepth, n < MaxDepth, n \in S PROVE n + 1 \in S
  <2>1. n + 1 \in Nat
    OBVIOUS
  <2>2. ASSUME n + 1 < MaxDepth PROVE PartsOf[n + 1] \subseteq PartsOf[(n + 1) + 1]
    <3>1. n + 1 \in 0 .. MaxDepth /\ n + 2 \in 0 .. MaxDepth /\ n + 1 # 0 /\ n + 2 # 0
          /\ (n + 1) - 1 = n /\ (n + 2) - 1 = n + 1 /\ (n + 1) + 1 = n + 2
      BY <1>0, <2>2
    <3>2. PartsOf[n + 1] = PartsWith(Seq(PartsOf[n]))
          /\ PartsOf[n + 2] = PartsWith(Seq(PartsOf[n + 1]))
      BY <3>1, PartsOfDef
    <3>3. PartsOf[n] \subseteq PartsOf[n + 1]
      BY <1>3
    <3>4. Seq(PartsOf[n]) \subseteq Seq(PartsOf[n + 1])
      BY <3>3, SeqMonotonic
    <3> QED
      BY <1>1, <3>1, <3>2, <3>4
  <2> QED
    BY <2>1, <2>2
<1>4. 0 .. MaxDepth \subseteq S
  <2> HIDE DEF S
  <2> QED
    BY <1>0, <1>2, <1>3, Climb
<1> QED
  BY <1>4

LEMMA PartFacts ==
  ASSUME NEW p \in Parts
  PROVE  /\ p \in PartsWith(Seq(Parts))
         /\ p.body \in Seq(Chars) /\ p.quoted \in Seq(Chars) /\ p.kids \in Seq(Parts)
<1>0. MaxDepth \in Nat /\ MaxDepth \in 0 .. MaxDepth
  BY Constants
<1>1. CASE MaxDepth = 0
  <2>1. Parts = PartsWith({<<>>})
    BY <1>0, <1>1, PartsOfDef DEF Parts
  <2>2. p \in PartsWith({<<>>})
    BY <2>1
  <2>3. {<<>>} \subseteq Seq(Parts)
    OBVIOUS
  <2>4. PartsWith({<<>>}) \subseteq PartsWith(Seq(Parts))
    BY <2>3 DEF PartsWith
  <2>5. p \in PartsWith(Seq(Parts))
    BY <2>2, <2>4
  <2> QED
    BY <2>5 DEF PartsWith
<1>2. CASE MaxDepth # 0
  <2>1. MaxDepth - 1 \in 0 .. MaxDepth /\ MaxDepth - 1 < MaxDepth /\ (MaxDepth - 1) + 1 = MaxDepth
    BY <1>0, <1>2
  <2>2. Parts = PartsWith(Seq(PartsOf[MaxDepth - 1]))
    BY <1>0, <1>2, PartsOfDef DEF Parts
  <2>3. PartsOf[MaxDepth - 1] \subseteq Parts
    BY <2>1, PartsNested DEF Parts
  <2>4. Seq(PartsOf[MaxDepth - 1]) \subseteq Seq(Parts)
    BY <2>3, SeqMonotonic
  <2>5. p.kids \in Seq(Parts)
    BY <2>2, <2>4 DEF PartsWith
  <2>6. p.body \in Seq(Chars) /\ p.quoted \in Seq(Chars)
    BY <2>2 DEF PartsWith
  <2>7. p \in PartsWith(Seq(Parts))
    BY <2>2, <2>4 DEF PartsWith
  <2> QED
    BY <2>5, <2>6, <2>7
<1> QED
  BY <1>1, <1>2

LEMMA StdEncodingType ==
  ASSUME NEW s \in Seq({"a", "1"})
  PROVE  StdEncoding(s) = Bad \/ StdEncoding(s) \in Seq(Chars)
<1> DEFINE n == Len(s) \div 2
           Byte(k) == CASE s[2 * k - 1] = "a" /\ s[2 * k] = "a" -> "a"
                        [] s[2 * k - 1] = "a" /\ s[2 * k] = "1" -> "LF"
                        [] s[2 * k - 1] = "1" /\ s[2 * k] = "a" -> "1"
                        [] OTHER -> "hi"
           Cs == Chars
<1>1. n \in Nat
  OBVIOUS
<1>2. ASSUME NEW k \in 1 .. n PROVE Byte(k) \in Cs
  BY DEF Chars, Blank, Breaks, NonASCII
<1>3. StdEncoding(s) = IF Len(s) % 2 = 1 THEN Bad ELSE [k \in 1 .. n |-> Byte(k)]
  BY DEF StdEncoding
<1> HIDE DEF Byte, n, Cs
<1>4. [k \in 1 .. n |-> Byte(k)] \in Seq(Cs)
  BY <1>1, <1>2
<1> QED
  BY <1>3, <1>4 DEF Cs

LEMMA decodeCTEType ==
  ASSUME NEW p, p.body \in Seq(Chars), p.quoted \in Seq(Chars)
  PROVE  decodeCTE(p) \in Seq(Chars)
<1> DEFINE s == filterBase64(p.body)
           B == {"a", "1"}
<1>1. Sift(p.body, B) \in Seq(Chars \cap B)
  <2> HIDE DEF B
  <2> QED
    BY SiftFacts DEF Sifting
<1>2. Chars \cap B = {"a", "1"}
  BY DEF Chars
<1>3. s \in Seq({"a", "1"})
  BY <1>1, <1>2 DEF filterBase64
<1> HIDE DEF s
<1>4. StdEncoding(s) = Bad \/ StdEncoding(s) \in Seq(Chars)
  BY <1>3, StdEncodingType
<1> QED
  BY <1>4 DEF decodeCTE, s

LEMMA decodeCharsetType ==
  ASSUME NEW s \in Seq(Chars), NEW cs
  PROVE  decodeCharset(s, cs) \in Seq(Chars)
<1> DEFINE Cs == Chars
           known == [i \in DOMAIN s |-> IF s[i] \in NonASCII THEN "u" ELSE s[i]]
<1>0. s \in Seq(Cs)
  OBVIOUS
<1>1. \A W : Sift(s, W) \in Seq(Cs)
  <2> TAKE W
  <2> HIDE DEF Cs
  <2>1. Sift(s, W) \in Seq(Cs \cap W) /\ Cs \cap W \subseteq Cs
    BY <1>0, SiftFacts DEF Sifting
  <2> QED
    BY <2>1, SeqMonotonic
<1>2. "u" \in Cs
  BY DEF Chars, NonASCII
<1>3. known \in Seq(Cs)
  <2> HIDE DEF Cs
  <2>1. DOMAIN s = 1 .. Len(s) /\ Len(s) \in Nat /\ \A i \in 1 .. Len(s) : s[i] \in Cs
    BY <1>0
  <2>2. \A i \in 1 .. Len(s) : (IF s[i] \in NonASCII THEN "u" ELSE s[i]) \in Cs
    BY <1>2, <2>1
  <2> QED
    BY <2>1, <2>2
<1> QED
  BY <1>1, <1>3 DEF decodeCharset

LEMMA PayloadType ==
  ASSUME NEW p, p.body \in Seq(Chars), p.quoted \in Seq(Chars)
  PROVE  Payload(p) \in Seq(Chars)
<1> DEFINE text == decodeCharset(decodeCTE(p), Charset(p))
<1>1. text \in Seq(Chars)
  BY decodeCTEType, decodeCharsetType
<1> HIDE DEF text
<1>2. normalizeHTMLPart(text) \in Seq(Chars)
  BY <1>1, normalizeHTMLPartType
<1> QED
  BY <1>1, <1>2 DEF Payload, text

----------------------------------------------------------------------------
(* Which lines are hashed *)

\* A window, which starts before the last line, holds 1 to 3 lines that exist.
LEMMA WindowFacts ==
  ASSUME NEW n \in Nat, n # 0, NEW o \in {20, 60}
  PROVE  \E start \in Nat, length \in 1 .. 3 :
           /\ start = (o * n) \div 100
           /\ length = (IF start + 3 <= n THEN 3 ELSE n - start)
           /\ start + length <= n
           /\ Window([offset |-> o, length |-> 3], n) = [i \in 1 .. length |-> start + i]
<1> DEFINE start == (o * n) \div 100
           length == IF start + 3 <= n THEN 3 ELSE n - start
<1>1. start \in Nat /\ start < n
  <2>1. CASE o = 20
    BY <2>1
  <2>2. CASE o = 60
    BY <2>2
  <2> QED
    BY <2>1, <2>2
<1>2. Window([offset |-> o, length |-> 3], n) = [i \in 1 .. length |-> start + i]
  BY DEF Window
<1> HIDE DEF start
<1>3. length \in 1 .. 3 /\ start + length <= n
  BY <1>1
<1> HIDE DEF length
<1>4. start = (o * n) \div 100 /\ length = (IF start + 3 <= n THEN 3 ELSE n - start)
  BY DEF start, length
<1>5. Window([offset |-> o, length |-> 3], n) = [i \in 1 .. length |-> start + i]
  BY <1>2 DEF length
<1> WITNESS start \in Nat, length \in 1 .. 3
<1> QED
  BY <1>3, <1>4, <1>5

\* The two windows of a mail of more than 6 lines do not meet.
LEMMA WindowsApart ==
  ASSUME NEW n \in Nat
  PROVE  /\ n > 6 => (20 * n) \div 100 + 3 <= (60 * n) \div 100
         /\ (20 * n) \div 100 <= (60 * n) \div 100
  OBVIOUS

LEMMA PiecesFacts ==
  ASSUME NEW n \in Nat
  PROVE  /\ Pieces(n) \in Seq(1 .. n)
         /\ n <= atomicNumLines => Pieces(n) = [i \in 1 .. n |-> i]
         /\ n > 0 => Pieces(n) # <<>>
         /\ \A i, j \in DOMAIN Pieces(n) :
              i < j => Pieces(n)[i] < Pieces(n)[j] \/ n \in atomicNumLines + 1 .. 6
<1>0. atomicNumLines \in Nat /\ atomicNumLines # 0
  BY Constants
<1>1. CASE n <= atomicNumLines
  <2>1. Pieces(n) = [i \in 1 .. n |-> i]
    BY <1>1 DEF Pieces
  <2> DEFINE q == [i \in 1 .. n |-> i]
  <2>2. /\ q \in Seq(1 .. n) /\ Len(q) = n /\ DOMAIN q = 1 .. n
        /\ \A i, j \in 1 .. n : i < j => q[i] < q[j]
    OBVIOUS
  <2>3. n > 0 => q # <<>>
    BY <2>2
  <2> HIDE DEF q
  <2> QED
    BY <1>1, <2>1, <2>2, <2>3 DEF q
<1>2. CASE ~(n <= atomicNumLines)
  <2>0. n # 0 /\ n > atomicNumLines
    BY <1>0, <1>2
  <2> DEFINE W(o) == Window([offset |-> o, length |-> 3], n)
  <2>1. PICK s1 \in Nat, l1 \in 1 .. 3 :
          /\ s1 = (20 * n) \div 100
          /\ l1 = (IF s1 + 3 <= n THEN 3 ELSE n - s1)
          /\ s1 + l1 <= n
          /\ W(20) = [i \in 1 .. l1 |-> s1 + i]
    BY <2>0, WindowFacts
  <2>2. PICK s2 \in Nat, l2 \in 1 .. 3 :
          /\ s2 = (60 * n) \div 100
          /\ l2 = (IF s2 + 3 <= n THEN 3 ELSE n - s2)
          /\ s2 + l2 <= n
          /\ W(60) = [i \in 1 .. l2 |-> s2 + i]
    BY <2>0, WindowFacts
  <2>3. Pieces(n) = W(20) \o W(60)
    BY <1>2 DEF Pieces, digestSpec
  <2>4. n > 6 => s1 + 3 <= s2
    BY <2>1, <2>2, WindowsApart
  <2> HIDE DEF W
  <2>5. W(20) \in Seq(1 .. n) /\ Len(W(20)) = l1
    <3> DEFINE e == [i \in 1 .. l1 |-> s1 + i]
    <3>1. \A i \in 1 .. l1 : s1 + i \in 1 .. n
      BY <2>1
    <3>2. e \in [1 .. l1 -> 1 .. n] /\ l1 \in Nat
      BY <3>1
    <3>3. e \in Seq(1 .. n) /\ Len(e) = l1
      BY <3>2
    <3>4. W(20) = e
      BY <2>1
    <3> HIDE DEF e
    <3> QED
      BY <3>3, <3>4
  <2>6. W(60) \in Seq(1 .. n) /\ Len(W(60)) = l2
    <3> DEFINE e == [i \in 1 .. l2 |-> s2 + i]
    <3>1. \A i \in 1 .. l2 : s2 + i \in 1 .. n
      BY <2>2
    <3>2. e \in [1 .. l2 -> 1 .. n] /\ l2 \in Nat
      BY <3>1
    <3>3. e \in Seq(1 .. n) /\ Len(e) = l2
      BY <3>2
    <3>4. W(60) = e
      BY <2>2
    <3> HIDE DEF e
    <3> QED
      BY <3>3, <3>4
  <2> DEFINE q == Pieces(n)
  <2>7. q \in Seq(1 .. n) /\ Len(q) = l1 + l2
    BY <2>3, <2>5, <2>6
  <2>8. \A i \in 1 .. l1 + l2 : q[i] = IF i <= l1 THEN s1 + i ELSE s2 + (i - l1)
    <3> TAKE i \in 1 .. l1 + l2
    <3>1. q[i] = IF i <= l1 THEN W(20)[i] ELSE W(60)[i - l1]
      BY <2>3, <2>5, <2>6
    <3>2. i <= l1 => i \in 1 .. l1
      OBVIOUS
    <3>3. ~(i <= l1) => i - l1 \in 1 .. l2
      OBVIOUS
    <3> QED
      BY <2>1, <2>2, <3>1, <3>2, <3>3
  <2> HIDE DEF q
  <2>9. q # <<>> /\ DOMAIN q = 1 .. l1 + l2
    BY <2>7
  <2>10. ASSUME NEW i \in 1 .. l1 + l2, NEW j \in 1 .. l1 + l2, i < j, n > 6
         PROVE  q[i] < q[j]
    <3>1. s1 + 3 <= s2
      BY <2>4, <2>10
    <3> QED
      BY <2>8, <2>10, <3>1
  <2>11. n > 6 \/ n \in atomicNumLines + 1 .. 6
    BY <1>0, <2>0
  <2> QED
    BY <1>2, <2>7, <2>9, <2>10, <2>11 DEF q
<1> QED
  BY <1>1, <1>2

----------------------------------------------------------------------------
(* The types of the variables *)

\* What Hash feeds to the hash.
Chosen(ls) == [k \in DOMAIN Pieces(Len(ls)) |-> ls[Pieces(Len(ls))[k]]]

TypeInv ==
  /\ msg \in Parts
  /\ parts \in Seq(Parts)
  /\ payloads \in Seq(Seq(Chars))
  /\ read \in 0 .. Len(payloads)
  /\ lines \in Seq(GoodLine)
  /\ digest \in {Bad} \cup Seq(Seq(Chars))

LEMMA GoodLineFacts ==
  /\ GoodLine \subseteq Seq(Chars \ Blank)
  /\ GoodLine \subseteq Seq(Chars)
  /\ \A l \in GoodLine : Len(l) >= minLineLength
<1> DEFINE Vs == Chars \ Blank
           Cs == Chars
<1>1. Vs \subseteq Cs
  OBVIOUS
<1>2. Seq(Vs) \subseteq Seq(Cs)
  <2> HIDE DEF Vs, Cs
  <2> QED
    BY <1>1, SeqMonotonic
<1> QED
  BY <1>2 DEF GoodLine

LEMMA ChosenFacts ==
  ASSUME NEW ls \in Seq(GoodLine)
  PROVE  /\ Chosen(ls) \in Seq(GoodLine)
         /\ Len(Chosen(ls)) = Len(Pieces(Len(ls)))
         /\ Len(ls) <= atomicNumLines => Chosen(ls) = ls
<1> DEFINE n == Len(ls)
           q == Pieces(n)
<1>1. n \in Nat /\ ls = [i \in 1 .. n |-> ls[i]]
  OBVIOUS
<1>2. q \in Seq(1 .. n) /\ (n <= atomicNumLines => q = [i \in 1 .. n |-> i])
  BY <1>1, PiecesFacts
<1>3. Chosen(ls) = [k \in DOMAIN q |-> ls[q[k]]]
  BY DEF Chosen
<1> HIDE DEF q
<1>4. DOMAIN q = 1 .. Len(q) /\ Len(q) \in Nat
  BY <1>2
<1>5. \A k \in 1 .. Len(q) : ls[q[k]] \in GoodLine
  <2> TAKE k \in 1 .. Len(q)
  <2>1. q[k] \in 1 .. Len(ls)
    BY <1>2, ElementOfSeq
  <2> QED
    BY <2>1, ElementOfSeq
<1>6. [k \in 1 .. Len(q) |-> ls[q[k]]] \in Seq(GoodLine)
  BY <1>4, <1>5
<1>7. Len([k \in 1 .. Len(q) |-> ls[q[k]]]) = Len(q)
  BY <1>4
<1>8. ASSUME n <= atomicNumLines PROVE Chosen(ls) = ls
  <2>1. q = [i \in 1 .. n |-> i]
    BY <1>2, <1>8
  <2> DEFINE e == [k \in DOMAIN q |-> ls[q[k]]]
  <2>2. e = [k \in 1 .. n |-> ls[k]]
    BY <1>1, <2>1
  <2> HIDE DEF e
  <2>3. e = ls
    BY <1>1, <2>2
  <2> QED
    BY <1>3, <2>3 DEF e
<1> QED
  BY <1>3, <1>4, <1>6, <1>7, <1>8 DEF q

LEMMA InitType ==
  ASSUME Init
  PROVE  TypeInv
<1>1. msg \in Parts
  BY Constants DEF Init
<1>2. parts \in Seq(Parts)
  BY <1>1 DEF Init
<1> DEFINE Cs == Chars
<1>3. payloads \in Seq(Seq(Cs)) /\ read \in 0 .. Len(payloads)
  <2> HIDE DEF Cs
  <2> QED
    BY DEF Init
<1>4. lines \in Seq(GoodLine) /\ digest \in {Bad} \cup Seq(Seq(Chars))
  BY DEF Init
<1> QED
  BY <1>1, <1>2, <1>3, <1>4 DEF TypeInv

LEMMA walkPartType ==
  ASSUME TypeInv, walkPart
  PROVE  TypeInv'
<1> DEFINE p == Head(parts)
           Cs == Chars
<1>1. parts \in Seq(Parts) /\ parts # <<>> /\ payloads \in Seq(Seq(Cs))
      /\ read \in 0 .. Len(payloads)
  BY DEF TypeInv, walkPart
<1>2. p \in Parts /\ Tail(parts) \in Seq(Parts)
  BY <1>1
<1> HIDE DEF p
<1>3. p.body \in Seq(Chars) /\ p.quoted \in Seq(Chars) /\ p.kids \in Seq(Parts)
  BY <1>2, PartFacts
<1>4. Payload(p) \in Seq(Cs)
  BY <1>3, PayloadType
<1> HIDE DEF Cs
<1>5. \/ parts' = p.kids \o Tail(parts) /\ payloads' = payloads
      \/ parts' = Tail(parts) /\ payloads' = Append(payloads, Payload(p))
  BY DEF walkPart, p
<1>6. p.kids \o Tail(parts) \in Seq(Parts)
  BY <1>2, <1>3, ConcatProperties
<1>7. Append(payloads, Payload(p)) \in Seq(Seq(Cs))
      /\ Len(Append(payloads, Payload(p))) = Len(payloads) + 1
  BY <1>1, <1>4
<1>8. parts' \in Seq(Parts)
  BY <1>2, <1>5, <1>6
<1>9. payloads' \in Seq(Seq(Cs)) /\ read \in 0 .. Len(payloads')
  <2>1. Len(payloads) \in Nat
    BY <1>1
  <2> QED
    <3>1. CASE payloads' = payloads
      BY <1>1, <3>1
    <3>2. CASE payloads' = Append(payloads, Payload(p))
      <4>1. \A r \in 0 .. Len(payloads) : r \in 0 .. Len(payloads) + 1
        BY <2>1
      <4> QED
        BY <1>1, <1>7, <3>2, <4>1
    <3> QED
      BY <1>5, <3>1, <3>2
<1>10. UNCHANGED <<msg, read, lines, digest>>
  BY DEF walkPart
<1> QED
  BY <1>8, <1>9, <1>10 DEF TypeInv, Cs

LEMMA ReadLinesType ==
  ASSUME TypeInv, ReadLines
  PROVE  TypeInv'
<1> DEFINE Cs == Chars
           new == HandledLines(payloads[read + 1])
<1>1. payloads \in Seq(Seq(Cs)) /\ read \in 0 .. Len(payloads) /\ read < Len(payloads)
      /\ lines \in Seq(GoodLine)
  BY DEF TypeInv, ReadLines
<1> HIDE DEF Cs
<1>2. read + 1 \in 1 .. Len(payloads) /\ read + 1 \in 0 .. Len(payloads)
  BY <1>1
<1>3. payloads[read + 1] \in Seq(Cs)
  BY <1>1, <1>2, ElementOfSeq
<1>4. new \in Seq(GoodLine)
  BY <1>3, HandledLinesType DEF Cs
<1> HIDE DEF new
<1>5. lines \o new \in Seq(GoodLine)
  BY <1>1, <1>4, ConcatProperties
<1>6. lines' = lines \o new /\ read' = read + 1 /\ UNCHANGED <<msg, parts, payloads, digest>>
  BY DEF ReadLines, new
<1> QED
  BY <1>2, <1>5, <1>6 DEF TypeInv

LEMMA HashType ==
  ASSUME TypeInv, Hash
  PROVE  TypeInv'
<1> DEFINE Cs == Chars
<1>1. digest' = Chosen(lines) /\ UNCHANGED <<msg, parts, payloads, read, lines>>
  BY DEF Hash, Chosen
<1>2. Chosen(lines) \in Seq(GoodLine)
  BY ChosenFacts DEF TypeInv
<1>3. GoodLine \subseteq Seq(Cs)
  BY GoodLineFacts
<1> HIDE DEF Cs
<1>4. Chosen(lines) \in Seq(Seq(Cs))
  BY <1>2, <1>3, SeqMonotonic
<1>5. digest' \in {Bad} \cup Seq(Seq(Chars))
  BY <1>1, <1>4 DEF Cs
<1> QED
  BY <1>1, <1>5 DEF TypeInv

THEOREM SpecTypeInv == Spec => []TypeInv
<1>1. Init => TypeInv
  BY InitType
<1>2. TypeInv /\ [Next]_vars => TypeInv'
  <2> SUFFICES ASSUME TypeInv, [Next]_vars PROVE TypeInv'
    OBVIOUS
  <2>1. CASE walkPart
    BY <2>1, walkPartType
  <2>2. CASE ReadLines
    BY <2>2, ReadLinesType
  <2>3. CASE Hash
    BY <2>3, HashType
  <2>4. CASE UNCHANGED vars
    BY <2>4 DEF TypeInv, vars
  <2> QED
    BY <2>1, <2>2, <2>3, <2>4 DEF Next
<1> QED
  BY <1>1, <1>2, PTL DEF Spec

(***************************************************************************)
(* The variables keep their types, and whatever the mail, a line that      *)
(* counts holds no blank and is long enough (normalize, shouldHandleLine). *)
(***************************************************************************)
THEOREM TypeCorrect == Spec => []TypeOK
<1>1. TypeInv => TypeOK
  <2> SUFFICES ASSUME TypeInv PROVE TypeOK
    OBVIOUS
  <2> DEFINE Vs == Chars \ Blank
  <2>1. GoodLine \subseteq Seq(Vs) /\ lines \in Seq(GoodLine)
    BY GoodLineFacts DEF TypeInv
  <2> HIDE DEF Vs
  <2>2. lines \in Seq(Seq(Vs))
    BY <2>1, SeqMonotonic
  <2>3. \A i \in DOMAIN lines : Len(lines[i]) >= minLineLength
    BY <2>1, GoodLineFacts
  <2> QED
    BY <2>2, <2>3 DEF TypeInv, TypeOK, Vs
<1> QED
  BY <1>1, SpecTypeInv, PTL

----------------------------------------------------------------------------
(* The digest is the choice among the lines *)

HashInv ==
  digest # Bad => parts = <<>> /\ read = Len(payloads) /\ digest = Chosen(lines)

LEMMA HashInvStep ==
  ASSUME HashInv, TypeInv, [Next]_vars
  PROVE  HashInv'
<1>1. CASE walkPart
  BY <1>1 DEF HashInv, walkPart
<1>2. CASE ReadLines
  <2>1. digest = Bad
    <3>1. read < Len(payloads) /\ Len(payloads) \in Nat /\ read \in Nat
      BY <1>2 DEF ReadLines, TypeInv
    <3> QED
      BY <3>1 DEF HashInv
  <2> QED
    BY <1>2, <2>1 DEF HashInv, ReadLines
<1>3. CASE Hash
  BY <1>3 DEF HashInv, Hash, Chosen
<1>4. CASE UNCHANGED vars
  BY <1>4 DEF HashInv, vars
<1> QED
  BY <1>1, <1>2, <1>3, <1>4 DEF Next

(***************************************************************************)
(* However many lines a mail gives, none to any number, the choice is as   *)
(* PieceChoice says: the windows of Compute never reach beyond the lines,  *)
(* never are empty, and beyond 6 lines never share one.                    *)
(***************************************************************************)
THEOREM PieceChoiceHolds == Spec => []PieceChoice
<1>1. Init => HashInv
  BY DEF Init, HashInv
<1>2. HashInv /\ TypeInv => PieceChoice
  <2> SUFFICES ASSUME HashInv, TypeInv, digest # Bad
               PROVE  LET n == Len(lines)
                          chosen == Pieces(n)
                      IN /\ n <= atomicNumLines => digest = lines
                         /\ n > 0 => digest # <<>>
                         /\ Len(digest) = Len(chosen) /\ Range(chosen) \subseteq 1 .. n
                         /\ \A i, j \in DOMAIN chosen :
                              i < j => chosen[i] < chosen[j] \/ n \in atomicNumLines + 1 .. 6
    BY DEF PieceChoice
  <2> DEFINE n == Len(lines)
             q == Pieces(n)
  <2>1. lines \in Seq(GoodLine) /\ n \in Nat
    BY DEF TypeInv
  <2>2. digest = Chosen(lines)
    BY DEF HashInv
  <2>3. /\ digest \in Seq(GoodLine) /\ Len(digest) = Len(q)
        /\ n <= atomicNumLines => digest = lines
    BY <2>1, <2>2, ChosenFacts
  <2>4. /\ q \in Seq(1 .. n)
        /\ n > 0 => q # <<>>
        /\ \A i, j \in DOMAIN q : i < j => q[i] < q[j] \/ n \in atomicNumLines + 1 .. 6
    BY <2>1, PiecesFacts
  <2> HIDE DEF n, q
  <2>5. n > 0 => digest # <<>>
    BY <2>3, <2>4
  <2>6. Range(q) \subseteq 1 .. n
    <3>1. DOMAIN q = 1 .. Len(q) /\ \A k \in 1 .. Len(q) : q[k] \in 1 .. n
      BY <2>4, ElementOfSeq, LenProperties
    <3> QED
      BY <3>1 DEF Range
  <2> QED
    BY <2>3, <2>4, <2>5, <2>6 DEF n, q
<1>3. HashInv /\ TypeInv /\ [Next]_vars => HashInv'
  BY HashInvStep
<1> QED
  BY <1>1, <1>2, <1>3, SpecTypeInv, PTL DEF Spec

----------------------------------------------------------------------------
(* FlattenSeq *)

LEMMA TraceExists ==
  ASSUME NEW St, NEW A, NEW G \in [St \X A -> St], NEW b \in St, NEW s \in Seq(A)
  PROVE  \E h \in [0 .. Len(s) -> St] : h \in Traces(St, G, b, s)
<1>1. PICK g \in [SUBSET (1 .. Len(s)) -> St] : Iter(G, b, s, 1 .. Len(s), g)
  BY IterExists
<1>2. Solves(St, G, b, s, g)
  <2>1. {} \in SUBSET (1 .. Len(s))
    OBVIOUS
  <2> QED
    BY <1>1, <2>1 DEF Iter, Solves
<1>3. Ends(St, G, b, s, g[1 .. Len(s)])
  BY <1>2, IterTrace
<1> QED
  BY <1>3 DEF Ends, Traces

ConcatG(A) == [x \in Seq(A) \X Seq(A) |-> x[1] \o x[2]]

LEMMA FlattenTrace ==
  ASSUME NEW A, NEW ss \in Seq(Seq(A))
  PROVE  Ends(Seq(A), ConcatG(A), <<>>, ss, FlattenSeq(ss))
<1> DEFINE n == Len(ss)
           St == Seq(A)
           G == ConcatG(A)
           Eq(f) == f = [i \in 1 .. n |-> IF i = 1 THEN ss[i] ELSE f[i - 1] \o ss[i]]
           f == CHOOSE g : Eq(g)
<1>0. /\ n \in Nat /\ <<>> \in St /\ (n = 0 => ss = <<>>) /\ ss \in Seq(St)
      /\ \A i \in 1 .. n : ss[i] \in St
      /\ \A x \in St : <<>> \o x = x
  OBVIOUS
<1>1. G \in [St \X St -> St]
  BY DEF ConcatG
<1>2. \A x, y \in St : G[<<x, y>>] = x \o y
  BY DEF ConcatG
<1> HIDE DEF G, St
<1>3. PICK h \in [0 .. n -> St] : h \in Traces(St, G, <<>>, ss)
  BY <1>0, <1>1, TraceExists
<1>4. h[0] = <<>> /\ \A k \in 1 .. n : h[k] = G[<<h[k - 1], ss[k]>>]
  BY <1>3 DEF Traces
<1> HIDE DEF n
<1>5. ASSUME NEW k \in 1 .. n PROVE h[k] = h[k - 1] \o ss[k] /\ (k = 1 => h[k] = ss[k])
  <2>1. k - 1 \in 0 .. n
    BY <1>0
  <2>2. h[k - 1] \in St /\ ss[k] \in St
    BY <1>0, <1>3, <2>1
  <2>3. h[k] = h[k - 1] \o ss[k]
    BY <1>2, <1>4, <2>2
  <2>4. ASSUME k = 1 PROVE h[k] = ss[k]
    <3>1. k - 1 = 0
      BY <2>4
    <3>2. h[k - 1] = <<>>
      BY <1>4, <3>1
    <3>3. <<>> \o ss[k] = ss[k]
      BY <1>0, <2>2
    <3> QED
      BY <2>3, <3>2, <3>3
  <2> QED
    BY <2>3, <2>4
<1>6. Eq([i \in 1 .. n |-> h[i]])
  <2> DEFINE g == [i \in 1 .. n |-> h[i]]
  <2>1. \A i \in 1 .. n : g[i] = IF i = 1 THEN ss[i] ELSE g[i - 1] \o ss[i]
    <3> TAKE i \in 1 .. n
    <3>1. CASE i = 1
      BY <1>5, <3>1
    <3>2. CASE i # 1
      <4>1. i - 1 \in 1 .. n
        BY <1>0, <3>2
      <4> QED
        BY <1>5, <3>2, <4>1
    <3> QED
      BY <3>1, <3>2
  <2>2. g = [i \in 1 .. n |-> g[i]]
    OBVIOUS
  <2> HIDE DEF g
  <2> QED
    BY <2>1, <2>2 DEF g
<1>7. Eq(f)
  <2> HIDE DEF Eq
  <2> QED
    BY <1>6
<1> HIDE DEF f
<1>8. \A i \in 1 .. n : f[i] = IF i = 1 THEN ss[i] ELSE f[i - 1] \o ss[i]
  BY <1>7
<1> DEFINE S == {k \in Nat : k # 0 => f[k] = h[k]}
<1>9. ASSUME NEW k \in 0 .. n, k < n, k \in S PROVE k + 1 \in S
  <2>1. k + 1 \in 1 .. n /\ (k + 1) - 1 = k /\ (k + 1 = 1 <=> k = 0) /\ k + 1 \in Nat
    BY <1>0, <1>9
  <2>2. CASE k = 0
    <3>1. 1 \in 1 .. n /\ k + 1 = 1
      BY <2>1, <2>2
    <3>2. f[1] = ss[1] /\ h[1] = ss[1]
      BY <1>5, <1>8, <3>1
    <3> QED
      BY <3>1, <3>2
  <2>3. CASE k # 0
    <3>1. f[k] = h[k]
      BY <1>9, <2>3
    <3>2. f[k + 1] = f[k] \o ss[k + 1] /\ h[k + 1] = h[k] \o ss[k + 1]
      BY <1>5, <1>8, <2>1, <2>3
    <3>3. f[k + 1] = h[k + 1]
      BY <3>1, <3>2
    <3> QED
      BY <2>1, <3>3
  <2> QED
    BY <2>2, <2>3
<1>10. n \in S
  <2>1. 0 \in S
    OBVIOUS
  <2> HIDE DEF S
  <2>2. 0 .. n \subseteq S
    BY <1>0, <1>9, <2>1, Climb
  <2> QED
    BY <1>0, <2>2
<1>11. FlattenSeq(ss) = IF n = 0 THEN ss ELSE f[n]
  BY DEF FlattenSeq, f, n
<1>12. FlattenSeq(ss) = h[n]
  BY <1>0, <1>4, <1>10, <1>11
<1> QED
  BY <1>3, <1>12 DEF Ends, G, St, n

LEMMA FlattenFacts ==
  ASSUME NEW A
  PROVE  /\ FlattenSeq(<<>>) = <<>>
         /\ \A ss \in Seq(Seq(A)) : FlattenSeq(ss) \in Seq(A)
         /\ \A ss \in Seq(Seq(A)), x \in Seq(A) :
              FlattenSeq(Append(ss, x)) = FlattenSeq(ss) \o x
<1> DEFINE St == Seq(A)
           G == ConcatG(A)
<1>1. \A ss \in Seq(St) : Ends(St, G, <<>>, ss, FlattenSeq(ss))
  BY FlattenTrace
<1>2. \A x, y \in St : G[<<x, y>>] = x \o y
  BY DEF ConcatG
<1> HIDE DEF St, G
<1>3. FlattenSeq(<<>>) = <<>>
  <2>1. <<>> \in Seq(St)
    OBVIOUS
  <2> QED
    BY <1>1, <2>1, EndsEmpty
<1>4. \A ss \in Seq(St) : FlattenSeq(ss) \in St
  BY <1>1, EndsType
<1>5. ASSUME NEW ss \in Seq(St), NEW x \in St
      PROVE  FlattenSeq(Append(ss, x)) = FlattenSeq(ss) \o x
  <2>1. Append(ss, x) \in Seq(St)
    OBVIOUS
  <2>2. Ends(St, G, <<>>, ss, FlattenSeq(ss))
        /\ Ends(St, G, <<>>, Append(ss, x), FlattenSeq(Append(ss, x)))
    BY <1>1, <2>1
  <2>3. FlattenSeq(Append(ss, x)) = G[<<FlattenSeq(ss), x>>]
    BY <2>2, EndsSnoc
  <2> QED
    BY <1>2, <1>4, <2>3
<1> QED
  BY <1>3, <1>4, <1>5 DEF St

\* Of three sequences any two neighbours may be joined first.
Regroups(A) == \A x, y, z \in Seq(A) : (x \o y) \o z = x \o (y \o z)

LEMMA RegroupsAll ==
  ASSUME NEW A
  PROVE  Regroups(A)
<1> SUFFICES ASSUME NEW x \in Seq(A), NEW y \in Seq(A), NEW z \in Seq(A)
             PROVE  (x \o y) \o z = x \o (y \o z)
  BY DEF Regroups
<1> QED
  BY ConcatAssociative

LEMMA FlattenConcat ==
  ASSUME NEW A, NEW ss \in Seq(Seq(A)), NEW tt \in Seq(Seq(A))
  PROVE  FlattenSeq(ss \o tt) = FlattenSeq(ss) \o FlattenSeq(tt)
<1> DEFINE St == Seq(A)
           S == {t \in Seq(St) : FlattenSeq(ss \o t) = FlattenSeq(ss) \o FlattenSeq(t)}
<1>0. /\ FlattenSeq(<<>>) = <<>>
      /\ \A t \in Seq(St) : FlattenSeq(t) \in St
      /\ \A t \in Seq(St), x \in St : FlattenSeq(Append(t, x)) = FlattenSeq(t) \o x
  BY FlattenFacts
<1>1. Regroups(A)
  BY RegroupsAll
<1>2. ss \in Seq(St) /\ tt \in Seq(St)
  OBVIOUS
<1> HIDE DEF St
<1>3. <<>> \in S
  <2>1. ss \o <<>> = ss /\ <<>> \in Seq(St)
    BY <1>2
  <2>2. FlattenSeq(ss) \o <<>> = FlattenSeq(ss)
    BY <1>0, <1>2, ConcatEmptySeq DEF St
  <2> QED
    BY <1>0, <2>1, <2>2
<1>4. ASSUME NEW t \in Seq(St), t \in S, NEW x \in St PROVE Append(t, x) \in S
  <2>1. ss \o Append(t, x) = Append(ss \o t, x) /\ ss \o t \in Seq(St) /\ Append(t, x) \in Seq(St)
    BY <1>2
  <2>2. FlattenSeq(ss \o Append(t, x)) = FlattenSeq(ss \o t) \o x
    BY <1>0, <2>1
  <2>3. FlattenSeq(ss \o t) = FlattenSeq(ss) \o FlattenSeq(t)
    BY <1>4
  <2>4. FlattenSeq(Append(t, x)) = FlattenSeq(t) \o x
    BY <1>0
  <2>5. FlattenSeq(ss) \in St /\ FlattenSeq(t) \in St
    BY <1>0, <1>2
  <2>6. (FlattenSeq(ss) \o FlattenSeq(t)) \o x = FlattenSeq(ss) \o (FlattenSeq(t) \o x)
    BY <1>1, <2>5 DEF Regroups, St
  <2>7. FlattenSeq(ss \o Append(t, x)) = FlattenSeq(ss) \o FlattenSeq(Append(t, x))
    BY <2>2, <2>3, <2>4, <2>6
  <2> QED
    BY <2>1, <2>7
<1>5. Seq(St) \subseteq S
  <2> HIDE DEF S
  <2> QED
    BY <1>3, <1>4, SeqInduct
<1> QED
  BY <1>2, <1>5

LEMMA FlattenOne ==
  ASSUME NEW A, NEW x \in Seq(A)
  PROVE  FlattenSeq(<<x>>) = x
<1>1. <<x>> = Append(<<>>, x) /\ <<>> \in Seq(Seq(A)) /\ <<>> \o x = x
  OBVIOUS
<1>2. FlattenSeq(Append(<<>>, x)) = FlattenSeq(<<>>) \o x /\ FlattenSeq(<<>>) = <<>>
  BY <1>1, FlattenFacts
<1> QED
  BY <1>1, <1>2

----------------------------------------------------------------------------
(* The leaves of a mail *)

LEMMA PartsOfInParts ==
  \A n \in 0 .. MaxDepth : PartsOf[n] \subseteq Parts
<1> DEFINE S == {k \in Nat : k <= MaxDepth => PartsOf[MaxDepth - k] \subseteq Parts}
<1>0. MaxDepth \in Nat
  BY Constants
<1>1. 0 \in S
  <2>1. MaxDepth - 0 = MaxDepth
    BY <1>0
  <2>2. PartsOf[MaxDepth - 0] \subseteq Parts
    BY <2>1 DEF Parts
  <2> QED
    BY <2>2
<1>2. ASSUME NEW k \in 0 .. MaxDepth, k < MaxDepth, k \in S PROVE k + 1 \in S
  <2> DEFINE n == MaxDepth - (k + 1)
  <2>1. n \in 0 .. MaxDepth /\ n < MaxDepth /\ n + 1 = MaxDepth - k /\ k + 1 \in Nat /\ k <= MaxDepth
    BY <1>0, <1>2
  <2>2. PartsOf[MaxDepth - k] \subseteq Parts
    BY <1>2, <2>1
  <2> HIDE DEF n
  <2>3. PartsOf[n] \subseteq PartsOf[n + 1]
    BY <2>1, PartsNested
  <2>4. PartsOf[n] \subseteq Parts
    BY <2>1, <2>2, <2>3
  <2> QED
    BY <2>1, <2>4 DEF n
<1>3. 0 .. MaxDepth \subseteq S
  <2> HIDE DEF S
  <2> QED
    BY <1>0, <1>1, <1>2, Climb
<1>4. ASSUME NEW n \in 0 .. MaxDepth PROVE PartsOf[n] \subseteq Parts
  <2>1. MaxDepth - n \in 0 .. MaxDepth /\ MaxDepth - (MaxDepth - n) = n /\ MaxDepth - n <= MaxDepth
    BY <1>0
  <2>2. MaxDepth - n \in S
    BY <1>3, <2>1
  <2>3. PartsOf[MaxDepth - (MaxDepth - n)] \subseteq Parts
    BY <2>1, <2>2
  <2> QED
    BY <2>1, <2>3
<1> QED
  BY <1>4

\* The leaves of a part, given those of its kids.
LeavesFrom(g, p) ==
  IF HasKids(p) THEN FlattenSeq([i \in DOMAIN p.kids |-> g[p.kids[i]]]) ELSE <<p>>

LEMMA LeavesOfDef ==
  \A p \in Parts : LeavesOf[p] = LeavesFrom(LeavesOf, p)
<1> DEFINE Eq(g, n) == g = [p \in PartsOf[n] |-> LeavesFrom(g, p)]
           S == {n \in Nat : n <= MaxDepth => \E g : Eq(g, n)}
<1>0. MaxDepth \in Nat
  BY Constants
<1>1. ASSUME NEW g, NEW h, NEW p, \A i \in DOMAIN p.kids : g[p.kids[i]] = h[p.kids[i]]
      PROVE  LeavesFrom(g, p) = LeavesFrom(h, p)
  <2>1. [i \in DOMAIN p.kids |-> g[p.kids[i]]] = [i \in DOMAIN p.kids |-> h[p.kids[i]]]
    BY <1>1
  <2> QED
    BY <2>1 DEF LeavesFrom
<1>2. 0 \in S
  <2> DEFINE h == [p \in PartsOf[0] |-> <<>>]
             g == [p \in PartsOf[0] |-> LeavesFrom(h, p)]
  <2>1. ASSUME NEW p \in PartsOf[0] PROVE LeavesFrom(h, p) = LeavesFrom(g, p)
    <3>1. 0 \in 0 .. MaxDepth
      BY <1>0
    <3>2. p \in PartsWith({<<>>})
      BY <3>1, PartsOfDef
    <3>3. p.kids = <<>>
      BY <3>2 DEF PartsWith
    <3> HIDE DEF h, g
    <3>4. \A i \in DOMAIN p.kids : g[p.kids[i]] = h[p.kids[i]]
      BY <3>3
    <3> QED
      BY <1>1, <3>4
  <2>2. g = [p \in PartsOf[0] |-> LeavesFrom(g, p)]
    <3>1. g = [p \in PartsOf[0] |-> LeavesFrom(h, p)]
      OBVIOUS
    <3> HIDE DEF g, h
    <3> QED
      BY <2>1, <3>1
  <2> HIDE DEF g
  <2> QED
    BY <2>2
<1>3. ASSUME NEW n \in 0 .. MaxDepth, n < MaxDepth, n \in S PROVE n + 1 \in S
  <2>0. n <= MaxDepth /\ n + 1 \in 0 .. MaxDepth /\ n + 1 # 0 /\ (n + 1) - 1 = n /\ n + 1 \in Nat
    BY <1>0, <1>3
  <2>1. PICK h : Eq(h, n)
    BY <1>3, <2>0
  <2> DEFINE g == [p \in PartsOf[n + 1] |-> LeavesFrom(h, p)]
  <2>2. PartsOf[n] \subseteq PartsOf[n + 1]
    BY <1>3, PartsNested
  <2>3. \A p \in PartsOf[n] : g[p] = h[p]
    <3>1. \A p \in PartsOf[n] : h[p] = LeavesFrom(h, p)
      BY <2>1
    <3>2. \A p \in PartsOf[n + 1] : g[p] = LeavesFrom(h, p)
      OBVIOUS
    <3> HIDE DEF g
    <3> QED
      BY <2>2, <3>1, <3>2
  <2>4. ASSUME NEW p \in PartsOf[n + 1] PROVE LeavesFrom(h, p) = LeavesFrom(g, p)
    <3>1. p \in PartsWith(Seq(PartsOf[n]))
      BY <2>0, PartsOfDef
    <3>2. p.kids \in Seq(PartsOf[n])
      BY <3>1 DEF PartsWith
    <3> HIDE DEF g
    <3>3. \A i \in DOMAIN p.kids : p.kids[i] \in PartsOf[n]
      BY <3>2
    <3>4. \A i \in DOMAIN p.kids : g[p.kids[i]] = h[p.kids[i]]
      BY <2>3, <3>3
    <3> QED
      BY <1>1, <3>4
  <2>5. Eq(g, n + 1)
    <3>1. g = [p \in PartsOf[n + 1] |-> LeavesFrom(h, p)]
      OBVIOUS
    <3> HIDE DEF g
    <3> QED
      BY <2>4, <3>1
  <2> HIDE DEF Eq, g
  <2> QED
    BY <2>0, <2>5
<1>4. MaxDepth \in S
  <2>1. MaxDepth \in 0 .. MaxDepth
    BY <1>0
  <2> HIDE DEF S
  <2>2. 0 .. MaxDepth \subseteq S
    BY <1>0, <1>2, <1>3, Climb
  <2> QED
    BY <2>1, <2>2
<1>5. MaxDepth <= MaxDepth
  BY <1>0
<1>6. PICK g : Eq(g, MaxDepth)
  <2> HIDE DEF Eq
  <2> QED
    BY <1>4, <1>5
<1>7. LeavesOf = CHOOSE h : Eq(h, MaxDepth)
  BY DEF LeavesOf, LeavesFrom, Parts
<1>8. Eq(LeavesOf, MaxDepth)
  <2> HIDE DEF Eq
  <2> QED
    BY <1>6, <1>7
<1> QED
  BY <1>8 DEF Parts

\* The leaves of several parts.
LeafSeqs(ps) == [i \in DOMAIN ps |-> LeavesOf[ps[i]]]
LeavesOfAll(ps) == FlattenSeq(LeafSeqs(ps))

LEMMA LeavesOfType ==
  \A p \in Parts : LeavesOf[p] \in Seq(Parts)
<1> DEFINE S == {n \in Nat : n <= MaxDepth => \A p \in PartsOf[n] : LeavesOf[p] \in Seq(Parts)}
<1>0. MaxDepth \in Nat
  BY Constants
<1>1. ASSUME NEW p \in Parts, \A i \in DOMAIN p.kids : LeavesOf[p.kids[i]] \in Seq(Parts)
      PROVE  LeavesOf[p] \in Seq(Parts)
  <2> DEFINE ss == [i \in DOMAIN p.kids |-> LeavesOf[p.kids[i]]]
             St == Seq(Parts)
  <2>1. p.kids \in Seq(Parts)
    BY PartFacts
  <2>2. DOMAIN p.kids = 1 .. Len(p.kids) /\ Len(p.kids) \in Nat
    BY <2>1
  <2>3. ss \in Seq(St)
    <3> HIDE DEF St
    <3> QED
      BY <1>1, <2>2 DEF St
  <2> HIDE DEF ss
  <2>4. FlattenSeq(ss) \in St
    BY <2>3, FlattenFacts
  <2>5. <<p>> \in St
    OBVIOUS
  <2>6. LeavesOf[p] = IF HasKids(p) THEN FlattenSeq(ss) ELSE <<p>>
    BY LeavesOfDef DEF LeavesFrom, ss
  <2> QED
    BY <2>4, <2>5, <2>6
<1>2. 0 \in S
  <2>1. ASSUME NEW p \in PartsOf[0] PROVE LeavesOf[p] \in Seq(Parts)
    <3>1. 0 \in 0 .. MaxDepth
      BY <1>0
    <3>2. p \in PartsWith({<<>>}) /\ p \in Parts
      BY <3>1, PartsOfDef, PartsOfInParts
    <3>3. p.kids = <<>>
      BY <3>2 DEF PartsWith
    <3> QED
      BY <1>1, <3>2, <3>3
  <2> QED
    BY <2>1
<1>3. ASSUME NEW n \in 0 .. MaxDepth, n < MaxDepth, n \in S PROVE n + 1 \in S
  <2>0. n <= MaxDepth /\ n + 1 \in 0 .. MaxDepth /\ n + 1 # 0 /\ (n + 1) - 1 = n /\ n + 1 \in Nat
    BY <1>0, <1>3
  <2>1. ASSUME NEW p \in PartsOf[n + 1] PROVE LeavesOf[p] \in Seq(Parts)
    <3>1. p \in PartsWith(Seq(PartsOf[n])) /\ p \in Parts
      BY <2>0, PartsOfDef, PartsOfInParts
    <3>2. p.kids \in Seq(PartsOf[n])
      BY <3>1 DEF PartsWith
    <3>3. \A i \in DOMAIN p.kids : p.kids[i] \in PartsOf[n]
      BY <3>2
    <3> QED
      BY <1>1, <1>3, <2>0, <3>1, <3>3
  <2> QED
    BY <2>0, <2>1
<1>4. MaxDepth \in S
  <2>1. MaxDepth \in 0 .. MaxDepth
    BY <1>0
  <2> HIDE DEF S
  <2>2. 0 .. MaxDepth \subseteq S
    BY <1>0, <1>2, <1>3, Climb
  <2> QED
    BY <2>1, <2>2
<1>5. MaxDepth <= MaxDepth
  BY <1>0
<1> QED
  BY <1>4, <1>5 DEF Parts

LEMMA LeavesOfAllFacts ==
  /\ \A ps \in Seq(Parts) : LeafSeqs(ps) \in Seq(Seq(Parts)) /\ LeavesOfAll(ps) \in Seq(Parts)
  /\ \A ps, qs \in Seq(Parts) : LeavesOfAll(ps \o qs) = LeavesOfAll(ps) \o LeavesOfAll(qs)
  /\ \A p \in Parts : LeavesOfAll(<<p>>) = LeavesOf[p]
<1> DEFINE St == Seq(Parts)
           Ps == Parts
<1>0. \A p \in Ps : LeavesOf[p] \in St
  BY LeavesOfType
<1>1. ASSUME NEW ps \in Seq(Ps)
      PROVE  LeafSeqs(ps) \in Seq(St) /\ Len(LeafSeqs(ps)) = Len(ps)
  <2> HIDE DEF Ps, St
  <2>1. Len(ps) \in Nat /\ DOMAIN ps = 1 .. Len(ps) /\ \A i \in 1 .. Len(ps) : ps[i] \in Ps
    OBVIOUS
  <2>2. \A i \in 1 .. Len(ps) : LeavesOf[ps[i]] \in St
    BY <1>0, <2>1
  <2> QED
    BY <2>1, <2>2 DEF LeafSeqs
<1>2. \A ps \in Seq(Ps) : LeavesOfAll(ps) \in St
  BY <1>1, FlattenFacts DEF LeavesOfAll
<1>3. ASSUME NEW ps \in Seq(Ps), NEW qs \in Seq(Ps)
      PROVE  LeavesOfAll(ps \o qs) = LeavesOfAll(ps) \o LeavesOfAll(qs)
  <2>1. LeafSeqs(ps) \in Seq(St) /\ LeafSeqs(qs) \in Seq(St)
        /\ Len(LeafSeqs(ps)) = Len(ps) /\ Len(LeafSeqs(qs)) = Len(qs)
    BY <1>1
  <2> HIDE DEF Ps
  <2>2. ps \o qs \in Seq(Ps) /\ Len(ps \o qs) = Len(ps) + Len(qs)
        /\ Len(ps) \in Nat /\ Len(qs) \in Nat
    OBVIOUS
  <2>3. LeafSeqs(ps \o qs) \in Seq(St) /\ Len(LeafSeqs(ps \o qs)) = Len(ps) + Len(qs)
    BY <1>1, <2>2
  <2>4. ASSUME NEW i \in 1 .. Len(ps) + Len(qs)
        PROVE  LeafSeqs(ps \o qs)[i] = (LeafSeqs(ps) \o LeafSeqs(qs))[i]
    <3>1. LeafSeqs(ps \o qs)[i] = LeavesOf[(ps \o qs)[i]]
      BY <2>2 DEF LeafSeqs
    <3>2. CASE i <= Len(ps)
      <4>1. i \in 1 .. Len(ps) /\ (ps \o qs)[i] = ps[i]
        BY <2>2, <3>2
      <4>2. (LeafSeqs(ps) \o LeafSeqs(qs))[i] = LeafSeqs(ps)[i]
        BY <2>1, <2>2, <4>1
      <4>3. LeafSeqs(ps)[i] = LeavesOf[ps[i]]
        BY <4>1 DEF LeafSeqs
      <4> QED
        BY <3>1, <4>1, <4>2, <4>3
    <3>3. CASE ~(i <= Len(ps))
      <4> DEFINE j == i - Len(ps)
      <4>1. j \in 1 .. Len(qs) /\ (ps \o qs)[i] = qs[j]
        BY <2>2, <3>3
      <4>2. (LeafSeqs(ps) \o LeafSeqs(qs))[i] = LeafSeqs(qs)[j]
        BY <2>1, <2>2, <3>3
      <4>3. LeafSeqs(qs)[j] = LeavesOf[qs[j]]
        BY <4>1 DEF LeafSeqs
      <4> QED
        BY <3>1, <4>1, <4>2, <4>3
    <3> QED
      BY <3>2, <3>3
  <2>5. LeafSeqs(ps) \o LeafSeqs(qs) \in Seq(St)
        /\ Len(LeafSeqs(ps) \o LeafSeqs(qs)) = Len(ps) + Len(qs)
    <3> HIDE DEF St
    <3> QED
      BY <2>1, <2>2
  <2>6. LeafSeqs(ps \o qs) = LeafSeqs(ps) \o LeafSeqs(qs)
    <3> HIDE DEF St
    <3> QED
      BY <2>3, <2>4, <2>5, SeqEqual
  <2> QED
    BY <2>1, <2>6, FlattenConcat DEF LeavesOfAll
<1>4. ASSUME NEW p \in Ps PROVE LeavesOfAll(<<p>>) = LeavesOf[p]
  <2>1. LeafSeqs(<<p>>) = <<LeavesOf[p]>>
    BY DEF LeafSeqs
  <2> QED
    BY <1>0, <2>1, FlattenOne DEF LeavesOfAll
<1> QED
  BY <1>1, <1>2, <1>3, <1>4

LEMMA PayloadsFacts ==
  /\ \A ps \in Seq(Parts) : Payloads(ps) \in Seq(Seq(Chars)) /\ Len(Payloads(ps)) = Len(ps)
  /\ \A ps \in Seq(Parts), p \in Parts :
       Payloads(<<p>> \o ps) = <<Payload(p)>> \o Payloads(ps)
<1> DEFINE St == Seq(Chars)
           Ps == Parts
<1>0. \A p \in Ps : Payload(p) \in St
  BY PartFacts, PayloadType
<1> HIDE DEF St, Ps
<1>1. ASSUME NEW ps \in Seq(Ps) PROVE Payloads(ps) \in Seq(St) /\ Len(Payloads(ps)) = Len(ps)
  <2>1. Len(ps) \in Nat /\ DOMAIN ps = 1 .. Len(ps) /\ \A i \in 1 .. Len(ps) : ps[i] \in Ps
    OBVIOUS
  <2>2. \A i \in 1 .. Len(ps) : Payload(ps[i]) \in St
    BY <1>0, <2>1
  <2> QED
    BY <2>1, <2>2 DEF Payloads
<1>2. ASSUME NEW ps \in Seq(Ps), NEW p \in Ps
      PROVE  Payloads(<<p>> \o ps) = <<Payload(p)>> \o Payloads(ps)
  <2> DEFINE l == <<p>> \o ps
             r == <<Payload(p)>> \o Payloads(ps)
  <2>1. l \in Seq(Ps) /\ Len(l) = Len(ps) + 1 /\ Len(ps) \in Nat
        /\ l[1] = p /\ \A i \in 2 .. Len(ps) + 1 : l[i] = ps[i - 1]
    OBVIOUS
  <2>2. Payloads(l) \in Seq(St) /\ Len(Payloads(l)) = Len(ps) + 1
    BY <1>1, <2>1
  <2>3. Payloads(ps) \in Seq(St) /\ Len(Payloads(ps)) = Len(ps) /\ Payload(p) \in St
    BY <1>0, <1>1
  <2>4. r \in Seq(St) /\ Len(r) = Len(ps) + 1 /\ r[1] = Payload(p)
        /\ \A i \in 2 .. Len(ps) + 1 : r[i] = Payloads(ps)[i - 1]
    BY <2>1, <2>3
  <2> HIDE DEF l, r
  <2>5. ASSUME NEW i \in 1 .. Len(ps) + 1 PROVE Payloads(l)[i] = r[i]
    <3>1. Payloads(l)[i] = Payload(l[i])
      BY <2>1 DEF Payloads
    <3>2. CASE i = 1
      BY <2>1, <2>4, <3>1, <3>2
    <3>3. CASE i # 1
      <4>1. i \in 2 .. Len(ps) + 1 /\ i - 1 \in 1 .. Len(ps)
        BY <2>1, <3>3
      <4>2. Payloads(ps)[i - 1] = Payload(ps[i - 1])
        BY <4>1 DEF Payloads
      <4> QED
        BY <2>1, <2>4, <3>1, <4>1, <4>2
    <3> QED
      BY <3>2, <3>3
  <2>6. Payloads(l) = r
    BY <2>1, <2>2, <2>4, <2>5, SeqEqual
  <2> QED
    BY <2>6 DEF l, r
<1> QED
  BY <1>1, <1>2 DEF St, Ps

\* The walk keeps what LeavesInOrder says.
LEMMA walkPartLeaves ==
  ASSUME TypeInv, LeavesInOrder, walkPart
  PROVE  LeavesInOrder'
<1> DEFINE p == Head(parts)
           rest == LeavesOfAll(Tail(parts))
           St == Seq(Chars)
<1>1. parts \in Seq(Parts) /\ parts # <<>> /\ payloads \in Seq(St)
  BY DEF TypeInv, walkPart
<1>2. p \in Parts /\ Tail(parts) \in Seq(Parts) /\ parts = <<p>> \o Tail(parts)
  BY <1>1
<1>3. <<p>> \in Seq(Parts)
  BY <1>2
<1> HIDE DEF p
<1>4. LeavesOfAll(parts) = LeavesOf[p] \o rest
  BY <1>2, <1>3, LeavesOfAllFacts
<1>5. rest \in Seq(Parts)
  BY <1>2, LeavesOfAllFacts
<1>6. payloads \o Payloads(LeavesOfAll(parts)) = Payloads(LeavesOf[msg])
  BY DEF LeavesInOrder, LeavesOfAll, LeafSeqs
<1>7. msg' = msg
  BY DEF walkPart
<1>8. payloads' \o Payloads(LeavesOfAll(parts')) = Payloads(LeavesOf[msg])
  <2>1. CASE HasKids(p)
    <3>1. parts' = p.kids \o Tail(parts) /\ payloads' = payloads
      BY <2>1 DEF walkPart, p
    <3>2. p.kids \in Seq(Parts)
      BY <1>2, PartFacts
    <3>3. LeavesOfAll(parts') = LeavesOfAll(p.kids) \o rest
      BY <1>2, <3>1, <3>2, LeavesOfAllFacts
    <3>4. LeavesOf[p] = LeavesOfAll(p.kids)
      BY <1>2, <2>1, LeavesOfDef DEF LeavesFrom, LeavesOfAll, LeafSeqs
    <3> QED
      BY <1>4, <1>6, <3>1, <3>3, <3>4
  <2>2. CASE ~HasKids(p)
    <3>1. parts' = Tail(parts) /\ payloads' = Append(payloads, Payload(p))
      BY <2>2 DEF walkPart, p
    <3>2. LeavesOf[p] = <<p>>
      BY <1>2, <2>2, LeavesOfDef DEF LeavesFrom
    <3>3. Payloads(LeavesOfAll(parts)) = <<Payload(p)>> \o Payloads(rest)
      BY <1>2, <1>4, <1>5, <3>2, PayloadsFacts
    <3>4. Payload(p) \in St /\ Payloads(rest) \in Seq(St)
      BY <1>2, <1>5, PartFacts, PayloadType, PayloadsFacts
    <3> DEFINE x == Payload(p)
               t == Payloads(rest)
    <3> HIDE DEF St, rest, x, t
    <3>5. Append(payloads, x) \o t = payloads \o (<<x>> \o t)
      <4>1. Append(payloads, x) = payloads \o <<x>> /\ <<x>> \in Seq(St)
        BY <1>1, <3>4 DEF x
      <4>2. (payloads \o <<x>>) \o t = payloads \o (<<x>> \o t)
        BY <1>1, <3>4, <4>1, ConcatAssociative DEF t
      <4> QED
        BY <4>1, <4>2
    <3> QED
      BY <1>6, <3>1, <3>3, <3>5 DEF x, t, rest
  <2> QED
    BY <2>1, <2>2
<1>9. payloads' \o Payloads(LeavesOfAll(parts')) = Payloads(LeavesOf[msg'])
  BY <1>7, <1>8
<1> QED
  BY <1>9 DEF LeavesInOrder, LeavesOfAll, LeafSeqs

LEMMA InitLeaves ==
  ASSUME Init
  PROVE  LeavesInOrder
<1>1. parts = <<msg>> /\ payloads = <<>>
  BY DEF Init
<1>2. msg \in Parts
  BY InitType DEF TypeInv
<1>3. LeavesOfAll(parts) = LeavesOf[msg]
  BY <1>1, <1>2, LeavesOfAllFacts
<1>4. Payloads(LeavesOf[msg]) \in Seq(Seq(Chars))
  BY <1>2, LeavesOfType, PayloadsFacts
<1> DEFINE t == Payloads(LeavesOf[msg])
           St == Seq(Chars)
<1> HIDE DEF t, St
<1>5. t \in Seq(St)
  BY <1>4 DEF t, St
<1>6. payloads \o t = t
  BY <1>1, <1>5
<1> QED
  BY <1>3, <1>6 DEF LeavesInOrder, LeavesOfAll, LeafSeqs, t

(***************************************************************************)
(* However many parts a mail has and however deep containers and embedded  *)
(* mails are nested, the walk collects the payloads of its leaves, all of  *)
(* them, each once, in the order of the mail (walkPart).                   *)
(***************************************************************************)
THEOREM LeavesInOrderHolds == Spec => []LeavesInOrder
<1>1. Init => LeavesInOrder
  BY InitLeaves
<1>2. LeavesInOrder /\ TypeInv /\ [Next]_vars => LeavesInOrder'
  <2> SUFFICES ASSUME LeavesInOrder, TypeInv, [Next]_vars PROVE LeavesInOrder'
    OBVIOUS
  <2>1. CASE walkPart
    BY <2>1, walkPartLeaves
  <2>2. CASE UNCHANGED <<msg, parts, payloads>>
    BY <2>2 DEF LeavesInOrder
  <2>3. ReadLines \/ Hash \/ UNCHANGED vars => UNCHANGED <<msg, parts, payloads>>
    BY DEF ReadLines, Hash, vars
  <2> QED
    BY <2>1, <2>2, <2>3 DEF Next
<1> QED
  BY <1>1, <1>2, SpecTypeInv, PTL DEF Spec

----------------------------------------------------------------------------
(* Line endings *)

\* What the lemmas put in the place of an LF: splitLines breaks a text at either.
Endings == {<<"CR">>, <<"CR", "LF">>}

LEMMA EndingType ==
  ASSUME NEW A, "CR" \in A, "LF" \in A, NEW e \in Endings
  PROVE  e \in Seq(A)
<1> DEFINE St == Seq(A)
<1>1. e \in St
  <2>1. <<"CR">> \in St /\ <<"CR", "LF">> \in St
    <3> DEFINE cr == "CR"
               lf == "LF"
    <3>1. cr \in A /\ lf \in A
      OBVIOUS
    <3> HIDE DEF cr, lf
    <3>2. <<cr>> \in St /\ <<cr, lf>> \in St
      BY <3>1
    <3> QED
      BY <3>2, Zenon DEF cr, lf
  <2> QED
    BY <2>1, Zenon DEF Endings
<1> QED
  BY <1>1

\* What WithEndings makes of a text, one character after another.
LEMMA WithEndingsFacts ==
  ASSUME NEW A, "CR" \in A, "LF" \in A, NEW e \in Endings
  PROVE  /\ WithEndings(<<>>, e) = <<>>
         /\ \A s \in Seq(A) : WithEndings(s, e) \in Seq(A)
         /\ \A s \in Seq(A), c \in A :
              WithEndings(Append(s, c), e)
                = WithEndings(s, e) \o (IF c = "LF" THEN e ELSE <<c>>)
<1> DEFINE Piece(c) == IF c = "LF" THEN e ELSE <<c>>
           PiecesOf(s) == [i \in DOMAIN s |-> Piece(s[i])]
           St == Seq(A)
<1>1. e \in St
  BY EndingType
<1>2. \A c \in A : Piece(c) \in St
  <2> TAKE c \in A
  <2>1. <<c>> \in St
    OBVIOUS
  <2> QED
    BY <1>1, <2>1
<1> HIDE DEF Piece, St
<1>3. ASSUME NEW s \in Seq(A) PROVE PiecesOf(s) \in Seq(St)
  <2>1. Len(s) \in Nat /\ DOMAIN s = 1 .. Len(s) /\ \A i \in 1 .. Len(s) : s[i] \in A
    OBVIOUS
  <2>2. \A i \in 1 .. Len(s) : Piece(s[i]) \in St
    BY <1>2, <2>1
  <2> QED
    BY <2>1, <2>2
<1>4. ASSUME NEW s \in Seq(A), NEW c \in A
      PROVE  PiecesOf(Append(s, c)) = Append(PiecesOf(s), Piece(c))
  <2> DEFINE l == PiecesOf(Append(s, c))
             r == Append(PiecesOf(s), Piece(c))
  <2>1. Append(s, c) \in Seq(A) /\ Len(s) \in Nat /\ Len(Append(s, c)) = Len(s) + 1
        /\ \A i \in 1 .. Len(s) + 1 : Append(s, c)[i] = IF i <= Len(s) THEN s[i] ELSE c
    OBVIOUS
  <2>2. l \in Seq(St) /\ Len(l) = Len(s) + 1
        /\ \A i \in 1 .. Len(s) + 1 : l[i] = Piece(Append(s, c)[i])
    <3>1. l \in Seq(St)
      BY <1>3, <2>1
    <3>2. DOMAIN Append(s, c) = 1 .. Len(s) + 1
      BY <2>1
    <3> QED
      BY <2>1, <3>1, <3>2
  <2>3. PiecesOf(s) \in Seq(St) /\ Len(PiecesOf(s)) = Len(s) /\ Piece(c) \in St
        /\ \A i \in 1 .. Len(s) : PiecesOf(s)[i] = Piece(s[i])
    BY <1>2, <1>3
  <2>4. r \in Seq(St) /\ Len(r) = Len(s) + 1
        /\ \A i \in 1 .. Len(s) + 1 : r[i] = IF i <= Len(s) THEN PiecesOf(s)[i] ELSE Piece(c)
    <3> HIDE DEF PiecesOf
    <3> QED
      BY <2>1, <2>3
  <2> HIDE DEF l, r
  <2>5. \A i \in 1 .. Len(s) + 1 : l[i] = r[i]
    <3> TAKE i \in 1 .. Len(s) + 1
    <3>1. CASE i <= Len(s)
      <4>1. i \in 1 .. Len(s)
        BY <2>1, <3>1
      <4> QED
        BY <2>1, <2>2, <2>3, <2>4, <3>1, <4>1
    <3>2. CASE ~(i <= Len(s))
      BY <2>1, <2>2, <2>4, <3>2
    <3> QED
      BY <3>1, <3>2
  <2>6. l = r
    BY <2>1, <2>2, <2>4, <2>5, SeqEqual
  <2> QED
    BY <2>6 DEF l, r
<1>5. \A s : WithEndings(s, e) = FlattenSeq(PiecesOf(s))
  BY DEF WithEndings, Piece
<1> HIDE DEF PiecesOf
<1>6. \A s \in Seq(A) : WithEndings(s, e) \in St
  BY <1>3, <1>5, FlattenFacts DEF St
<1>7. ASSUME NEW s \in Seq(A), NEW c \in A
      PROVE  WithEndings(Append(s, c), e) = WithEndings(s, e) \o Piece(c)
  <2>1. PiecesOf(s) \in Seq(Seq(A)) /\ Piece(c) \in Seq(A)
    BY <1>2, <1>3 DEF St
  <2>2. FlattenSeq(Append(PiecesOf(s), Piece(c))) = FlattenSeq(PiecesOf(s)) \o Piece(c)
    BY <2>1, FlattenFacts
  <2> QED
    BY <1>4, <1>5, <2>2
<1>8. WithEndings(<<>>, e) = <<>>
  <2>1. PiecesOf(<<>>) = <<>>
    BY DEF PiecesOf
  <2> QED
    BY <1>5, <2>1, FlattenFacts
<1> QED
  BY <1>6, <1>7, <1>8 DEF Piece, St

LEMMA CharNames ==
  /\ "CR" \in Chars /\ "LF" \in Chars /\ " " \in Chars /\ "u" \in Chars
  /\ "CR" \in Blank /\ "LF" \in Blank /\ Blank \subseteq Chars
  /\ "CR" \notin NonASCII /\ "LF" \notin NonASCII /\ "CR" \notin Tags /\ "LF" \notin Tags
  BY DEF Chars, Blank, Breaks, NonASCII, Tags

\* One character more.
LEMMA WithEndingsSnoc ==
  ASSUME NEW e \in Endings, NEW s \in Seq(Chars), NEW c \in Chars
  PROVE  /\ WithEndings(s, e) \in Seq(Chars)
         /\ c # "LF" => WithEndings(Append(s, c), e) = Append(WithEndings(s, e), c)
         /\ c = "LF" =>
              WithEndings(Append(s, c), e) \in
                {Append(WithEndings(s, e), "CR"),
                 Append(Append(WithEndings(s, e), "CR"), "LF")}
<1> DEFINE w == WithEndings(s, e)
           Cs == Chars
           cr == "CR"
           lf == "LF"
<1>1. cr \in Cs /\ lf \in Cs /\ c \in Cs
  BY CharNames
<1>2. w \in Seq(Cs) /\ WithEndings(Append(s, c), e) = w \o (IF c = "LF" THEN e ELSE <<c>>)
  BY CharNames, WithEndingsFacts
<1>3. e = <<cr>> \/ e = <<cr, lf>>
  BY DEF Endings
<1> HIDE DEF w, Cs, cr, lf
<1>4. w \o <<c>> = Append(w, c)
  BY <1>1, <1>2
<1>5. w \o <<cr>> = Append(w, cr) /\ w \o <<cr, lf>> = Append(Append(w, cr), lf)
  BY <1>1, <1>2
<1>6. c = "LF" => w \o e \in {Append(w, cr), Append(Append(w, cr), lf)}
  BY <1>3, <1>5
<1> QED
  BY <1>2, <1>4, <1>6, Zenon DEF w, Cs, cr, lf

LEMMA WithEndingsConcat ==
  ASSUME NEW e \in Endings, NEW s \in Seq(Chars), NEW t \in Seq(Chars)
  PROVE  WithEndings(s \o t, e) = WithEndings(s, e) \o WithEndings(t, e)
<1> DEFINE Cs == Chars
           W(x) == WithEndings(x, e)
           Piece(c) == IF c = "LF" THEN e ELSE <<c>>
           S == {x \in Seq(Cs) : W(s \o x) = W(s) \o W(x)}
<1>0. /\ W(<<>>) = <<>>
      /\ \A x \in Seq(Cs) : W(x) \in Seq(Cs)
      /\ \A x \in Seq(Cs), c \in Cs : W(Append(x, c)) = W(x) \o Piece(c)
  BY CharNames, WithEndingsFacts
<1>a. \A c \in Cs : Piece(c) \in Seq(Cs)
  <2> TAKE c \in Cs
  <2>1. <<c>> \in Seq(Cs)
    OBVIOUS
  <2>2. e \in Seq(Cs)
    BY CharNames, EndingType
  <2> QED
    BY <2>1, <2>2
<1>1. s \in Seq(Cs) /\ t \in Seq(Cs)
  OBVIOUS
<1> HIDE DEF Cs, W, Piece
<1>2. <<>> \in S
  <2>1. W(s) \in Seq(Cs)
    BY <1>0, <1>1
  <2>2. s \o <<>> = s /\ W(s) \o <<>> = W(s) /\ <<>> \in Seq(Cs)
    BY <1>1, <2>1
  <2> QED
    BY <1>0, <2>2
<1>3. ASSUME NEW x \in Seq(Cs), x \in S, NEW c \in Cs PROVE Append(x, c) \in S
  <2>1. s \o Append(x, c) = Append(s \o x, c) /\ s \o x \in Seq(Cs) /\ Append(x, c) \in Seq(Cs)
    BY <1>1
  <2>2. W(s \o Append(x, c)) = W(s \o x) \o Piece(c) /\ W(Append(x, c)) = W(x) \o Piece(c)
    BY <1>0, <2>1
  <2>3. W(s \o x) = W(s) \o W(x)
    BY <1>3
  <2>4. (W(s) \o W(x)) \o Piece(c) = W(s) \o (W(x) \o Piece(c))
    <3>1. W(s) \in Seq(Cs) /\ W(x) \in Seq(Cs) /\ Piece(c) \in Seq(Cs)
      BY <1>0, <1>1, <1>a
    <3>2. Regroups(Cs)
      BY RegroupsAll
    <3> HIDE DEF W
    <3> QED
      BY <3>1, <3>2 DEF Regroups
  <2> QED
    BY <2>1, <2>2, <2>3, <2>4
<1>4. Seq(Cs) \subseteq S
  <2> HIDE DEF S
  <2> QED
    BY <1>2, <1>3, SeqInduct
<1> QED
  BY <1>1, <1>4 DEF W

\* One ending writes every LF in the same way.
LEMMA EndingCases ==
  ASSUME NEW e \in Endings
  PROVE  \/ \A y \in Seq(Chars) :
              WithEndings(Append(y, "LF"), e) = Append(WithEndings(y, e), "CR")
         \/ \A y \in Seq(Chars) :
              WithEndings(Append(y, "LF"), e) = Append(Append(WithEndings(y, e), "CR"), "LF")
<1> DEFINE Cs == Chars
           W(x) == WithEndings(x, e)
           cr == "CR"
           lf == "LF"
<1>1. \A x \in Seq(Cs) : W(x) \in Seq(Cs) /\ W(Append(x, lf)) = W(x) \o e
  BY CharNames, WithEndingsFacts
<1>2. e = <<cr>> \/ e = <<cr, lf>>
  BY DEF Endings
<1>3. cr \in Cs /\ lf \in Cs
  BY CharNames
<1> HIDE DEF cr, lf, Cs, W
<1>4. \A y \in Seq(Cs) : y \o <<cr>> = Append(y, cr) /\ y \o <<cr, lf>> = Append(Append(y, cr), lf)
  BY <1>3
<1>5. CASE e = <<cr>>
  <2>1. \A x \in Seq(Cs) : W(Append(x, lf)) = Append(W(x), cr)
    BY <1>1, <1>4, <1>5
  <2> QED
    BY <2>1, Zenon DEF cr, lf, W, Cs
<1>6. CASE e = <<cr, lf>>
  <2>1. \A x \in Seq(Cs) : W(Append(x, lf)) = Append(Append(W(x), cr), lf)
    BY <1>1, <1>4, <1>6
  <2> QED
    BY <2>1, Zenon DEF cr, lf, W, Cs
<1> QED
  BY <1>2, <1>5, <1>6

\* Dropping characters before or after is the same; of the line endings
\* themselves none are left, however they are written.
LEMMA SiftEndings ==
  ASSUME NEW e \in Endings, NEW s \in Seq(Chars), NEW V
  PROVE  /\ "CR" \in V /\ "LF" \in V => Sift(WithEndings(s, e), V) = WithEndings(Sift(s, V), e)
         /\ "CR" \notin V /\ "LF" \notin V => Sift(WithEndings(s, e), V) = Sift(s, V)
<1> DEFINE Cs == Chars
           W(x) == WithEndings(x, e)
           F(x) == Sift(x, V)
           S == {x \in Seq(Cs) : F(W(x)) = W(F(x))}
           T == {x \in Seq(Cs) : F(W(x)) = F(x)}
<1>0. "CR" \in Cs /\ "LF" \in Cs
  BY CharNames
<1>1. /\ F(<<>>) = <<>>
      /\ \A x \in Seq(Cs) : F(x) \in Seq(Cs \cap V)
      /\ \A x \in Seq(Cs), c \in Cs : F(Append(x, c)) = IF c \in V THEN Append(F(x), c) ELSE F(x)
  <2> HIDE DEF Cs
  <2>1. Sifting(Cs, V)
    BY SiftFacts
  <2> QED
    BY <2>1 DEF Sifting
<1>2. \A x \in Seq(Cs) : F(x) \in Seq(Cs)
  <2> HIDE DEF Cs, F
  <2>1. Cs \cap V \subseteq Cs
    OBVIOUS
  <2> QED
    BY <1>1, <2>1, SeqMonotonic
<1>3. W(<<>>) = <<>>
  BY CharNames, WithEndingsFacts
<1>4. \A x \in Seq(Cs), c \in Cs :
        /\ W(x) \in Seq(Cs)
        /\ c # "LF" => W(Append(x, c)) = Append(W(x), c)
        /\ c = "LF" => W(Append(x, c)) = Append(W(x), "CR")
                       \/ W(Append(x, c)) = Append(Append(W(x), "CR"), "LF")
  BY WithEndingsSnoc
<1>5. \/ \A y \in Seq(Cs) : W(Append(y, "LF")) = Append(W(y), "CR")
      \/ \A y \in Seq(Cs) : W(Append(y, "LF")) = Append(Append(W(y), "CR"), "LF")
  BY EndingCases
<1> HIDE DEF W, F, Cs
<1>6. ASSUME "CR" \in V, "LF" \in V PROVE Seq(Cs) \subseteq S
  <2>1. <<>> \in S
    BY <1>1, <1>3
  <2>2. ASSUME NEW x \in Seq(Cs), x \in S, NEW c \in Cs PROVE Append(x, c) \in S
    <3>0. F(W(x)) = W(F(x)) /\ F(x) \in Seq(Cs) /\ W(x) \in Seq(Cs) /\ Append(x, c) \in Seq(Cs)
      BY <1>2, <1>4, <2>2
    <3>1. CASE c # "LF"
      <4>0. W(Append(x, c)) = Append(W(x), c) /\ W(Append(F(x), c)) = Append(W(F(x)), c)
        BY <1>4, <3>0, <3>1
      <4>1. F(W(Append(x, c))) = IF c \in V THEN Append(F(W(x)), c) ELSE F(W(x))
        <5>1. F(Append(W(x), c)) = IF c \in V THEN Append(F(W(x)), c) ELSE F(W(x))
          BY <1>1, <3>0
        <5> QED
          BY <4>0, <5>1
      <4>2. W(F(Append(x, c))) = IF c \in V THEN Append(W(F(x)), c) ELSE W(F(x))
        <5>1. F(Append(x, c)) = IF c \in V THEN Append(F(x), c) ELSE F(x)
          BY <1>1
        <5> QED
          BY <4>0, <5>1
      <4>3. F(W(Append(x, c))) = W(F(Append(x, c)))
        BY <3>0, <4>1, <4>2
      <4> QED
        BY <3>0, <4>3
    <3>2. CASE c = "LF"
      <4>1. F(Append(x, c)) = Append(F(x), "LF")
        BY <1>1, <1>6, <3>2
      <4>2. F(Append(W(x), "CR")) = Append(F(W(x)), "CR") /\ Append(W(x), "CR") \in Seq(Cs)
        BY <1>0, <1>1, <1>6, <3>0
      <4>3. F(Append(Append(W(x), "CR"), "LF")) = Append(Append(F(W(x)), "CR"), "LF")
        BY <1>0, <1>1, <1>6, <4>2
      <4>4. F(W(Append(x, "LF"))) = W(Append(F(x), "LF"))
        <5>1. CASE \A y \in Seq(Cs) : W(Append(y, "LF")) = Append(W(y), "CR")
          BY <3>0, <4>2, <5>1
        <5>2. CASE \A y \in Seq(Cs) : W(Append(y, "LF")) = Append(Append(W(y), "CR"), "LF")
          <6>1. W(Append(x, "LF")) = Append(Append(W(x), "CR"), "LF")
                /\ W(Append(F(x), "LF")) = Append(Append(W(F(x)), "CR"), "LF")
            BY <3>0, <5>2
          <6> QED
            BY <3>0, <4>3, <6>1
        <5> QED
          BY <1>5, <5>1, <5>2
      <4> QED
        BY <3>0, <3>2, <4>1, <4>4
    <3> QED
      BY <3>1, <3>2
  <2> HIDE DEF S
  <2> QED
    BY <2>1, <2>2, SeqInduct
<1>7. ASSUME "CR" \notin V, "LF" \notin V PROVE Seq(Cs) \subseteq T
  <2>1. <<>> \in T
    BY <1>1, <1>3
  <2>2. ASSUME NEW x \in Seq(Cs), x \in T, NEW c \in Cs PROVE Append(x, c) \in T
    <3>0. F(W(x)) = F(x) /\ W(x) \in Seq(Cs) /\ Append(x, c) \in Seq(Cs)
      BY <1>4, <2>2
    <3>1. CASE c # "LF"
      <4>1. F(W(Append(x, c))) = IF c \in V THEN Append(F(W(x)), c) ELSE F(W(x))
        BY <1>1, <1>4, <3>0, <3>1
      <4> QED
        BY <1>1, <3>0, <4>1
    <3>2. CASE c = "LF"
      <4>1. F(Append(x, c)) = F(x)
        BY <1>1, <1>7, <3>2
      <4>2. F(Append(W(x), "CR")) = F(W(x)) /\ Append(W(x), "CR") \in Seq(Cs)
        BY <1>0, <1>1, <1>7, <3>0
      <4>3. F(Append(Append(W(x), "CR"), "LF")) = F(W(x))
        BY <1>0, <1>1, <1>7, <4>2
      <4>4. W(Append(x, c)) = Append(W(x), "CR") \/ W(Append(x, c)) = Append(Append(W(x), "CR"), "LF")
        BY <1>4, <3>2
      <4> QED
        BY <3>0, <4>1, <4>2, <4>3, <4>4
    <3> QED
      BY <3>1, <3>2
  <2> HIDE DEF T
  <2> QED
    BY <2>1, <2>2, SeqInduct
<1> QED
  BY <1>6, <1>7 DEF W, F, Cs

----------------------------------------------------------------------------
(* Lines under other line endings *)

LEMMA NoLongRuns == LongRunLoop(<<>>) = LongRunStart /\ removeLongRuns(<<>>) = <<>>
<1> DEFINE none == <<>>
           st == LongRunStates(none)
           loop == LongRunLoop(none)
<1>1. none \in Seq(Chars) /\ Len(none) = 0 /\ DOMAIN none = 1 .. 0
  OBVIOUS
<1>2. [i \in DOMAIN none |-> i] = <<>>
  OBVIOUS
<1>3. Ends(st, LongRunG(none), LongRunStart, <<>>, loop)
  BY <1>1, <1>2, LongRunTrace, Zenon
<1>4. loop = LongRunStart
  <2> HIDE DEF st, loop, none
  <2> QED
    BY <1>3, EndsEmpty
<1>5. CutRun(none, loop, Len(none)) = LongRunStart
  BY <1>4, Constants DEF CutRun, LongRunStart
<1>6. removeLongRuns(none) = LongRunStart.out \o SubSeq(none, LongRunStart.last + 1, Len(none))
  BY <1>5 DEF removeLongRuns
<1>7. SubSeq(none, 1, 0) = <<>>
  OBVIOUS
<1> QED
  BY <1>4, <1>6, <1>7 DEF LongRunStart

LEMMA normalizeNothing == normalize(<<>>) = <<>>
<1> DEFINE nul == WithoutNUL(<<>>)
<1>1. nul = <<>>
  BY SiftFacts DEF Sifting, WithoutNUL
<1>2. removeLongRuns(<<>>) = <<>>
  BY NoLongRuns
<1>3. \A cut : Kept(<<>>, cut) = <<>>
  <2> TAKE cut
  <2>1. <<>> \in Seq({})
    OBVIOUS
  <2>2. Kept(<<>>, cut) \in Seq({})
    BY <2>1, KeptType
  <2> QED
    BY <2>2
<1>4. removeEmails(<<>>) = <<>> /\ removeURLs(<<>>) = <<>>
  BY <1>3 DEF removeEmails, removeURLs
<1>5. removePyWhitespace(<<>>) = <<>>
  BY SiftFacts DEF Sifting, removePyWhitespace
<1> QED
  BY <1>1, <1>2, <1>4, <1>5 DEF normalize

\* An empty line is never hashed.
LEMMA EmptyLine ==
  ASSUME NEW h
  PROVE  WithLine(h, <<>>) = h
<1>1. ~shouldHandleLine(<<>>)
  BY Constants DEF shouldHandleLine
<1> QED
  BY <1>1, normalizeNothing DEF WithLine

\* The loop of splitLines is between two lines after a CR.
Settled(a) == a \in SplitStates /\ (a.cr => a.cur = <<>>)

\* Every line break ends the line, whether or not it follows a CR.
LEMMA SplitTurnFacts ==
  ASSUME NEW a, Settled(a), NEW c \in Chars
  PROVE  /\ Settled(SplitTurn(a, c))
         /\ c \notin Breaks => /\ SplitTurn(a, c).out = a.out
                               /\ SplitTurn(a, c).cur = Append(a.cur, c)
         /\ c \in Breaks => /\ Handled(SplitTurn(a, c).out) = WithLine(Handled(a.out), a.cur)
                            /\ SplitTurn(a, c).cur = <<>>
<1>0. a \in SplitStates /\ (a.cr => a.cur = <<>>) /\ a.out \in Seq(Seq(Chars)) /\ a.cur \in Seq(Chars)
  BY DEF Settled, SplitStates
<1>1. SplitTurn(a, c) \in SplitStates
  BY <1>0, SplitTurnType
<1>2. CASE c \notin Breaks
  <2>1. SplitTurn(a, c) = [out |-> a.out, cur |-> Append(a.cur, c), cr |-> FALSE]
    BY <1>2 DEF SplitTurn, Breaks
  <2> QED
    BY <1>1, <1>2, <2>1 DEF Settled
<1>3. CASE c \in Breaks /\ ~(c = "LF" /\ a.cr)
  <2>1. SplitTurn(a, c) = [out |-> Append(a.out, a.cur), cur |-> <<>>, cr |-> c = "CR"]
    BY <1>3 DEF SplitTurn
  <2>2. Handled(Append(a.out, a.cur)) = WithLine(Handled(a.out), a.cur)
    BY <1>0, HandledFacts
  <2>3. SplitTurn(a, c).cur = <<>> /\ SplitTurn(a, c).out = Append(a.out, a.cur)
    BY <2>1
  <2> QED
    BY <1>1, <1>3, <2>2, <2>3 DEF Settled
<1>4. CASE c = "LF" /\ a.cr
  <2>1. SplitTurn(a, c) = [a EXCEPT !.cr = FALSE]
    BY <1>4 DEF SplitTurn
  <2>2. SplitTurn(a, c).cur = <<>> /\ SplitTurn(a, c).out = a.out
    BY <1>0, <1>4, <2>1 DEF SplitStates
  <2>3. WithLine(Handled(a.out), a.cur) = Handled(a.out)
    BY <1>0, <1>4, EmptyLine
  <2>4. c \in Breaks
    BY <1>4 DEF Breaks
  <2> QED
    BY <1>1, <2>2, <2>3, <2>4 DEF Settled
<1> QED
  BY <1>2, <1>3, <1>4

\* The two loops have found the same lines that count, and hold the same line.
Alike(a, b) ==
  Settled(a) /\ Settled(b) /\ a.cur = b.cur /\ Handled(a.out) = Handled(b.out)

LEMMA SplitLoopEndings ==
  ASSUME NEW e \in Endings, NEW s \in Seq(Chars)
  PROVE  Alike(SplitLoop(WithEndings(s, e)), SplitLoop(s))
<1> DEFINE W(x) == WithEndings(x, e)
           L(x) == SplitLoop(x)
           S == {x \in Seq(Chars) : Alike(L(W(x)), L(x))}
<1>1. W(<<>>) = <<>>
  BY CharNames, WithEndingsFacts
<1>2. <<>> \in S
  <2>1. Settled(SplitStart)
    <3>1. <<>> \in Seq(Chars) /\ <<>> \in Seq(Seq(Chars))
      OBVIOUS
    <3> QED
      BY <3>1 DEF Settled, SplitStart, SplitStates
  <2>2. L(<<>>) = SplitStart
    BY SplitFacts
  <2> HIDE DEF L, W
  <2>3. Alike(L(W(<<>>)), L(<<>>))
    BY <1>1, <2>1, <2>2 DEF Alike
  <2> QED
    BY <2>3
<1>3. ASSUME NEW x \in Seq(Chars), x \in S, NEW c \in Chars PROVE Append(x, c) \in S
  <2>0. /\ Append(x, c) \in Seq(Chars)
        /\ W(x) \in Seq(Chars)
        /\ c # "LF" => W(Append(x, c)) = Append(W(x), c)
        /\ c = "LF" => W(Append(x, c)) \in {Append(W(x), "CR"), Append(Append(W(x), "CR"), "LF")}
    <3>1. Append(x, c) \in Seq(Chars)
      OBVIOUS
    <3> QED
      BY <3>1, WithEndingsSnoc, Zenon
  <2>1. Alike(L(W(x)), L(x))
    BY <1>3
  <2>2. L(Append(x, c)) = SplitTurn(L(x), c)
    BY SplitFacts
  <2>3. \A y \in Seq(Chars), d \in Chars : L(Append(y, d)) = SplitTurn(L(y), d)
    BY SplitFacts
  <2> HIDE DEF W, L
  <2>4. CASE c # "LF"
    <3>1. L(W(Append(x, c))) = SplitTurn(L(W(x)), c)
      BY <2>0, <2>3, <2>4
    <3>2. Alike(SplitTurn(L(W(x)), c), SplitTurn(L(x), c))
      <4> DEFINE a == L(W(x))
                 b == L(x)
      <4>1. Alike(a, b)
        BY <2>1
      <4> HIDE DEF a, b
      <4>2. Alike(SplitTurn(a, c), SplitTurn(b, c))
        <5>1. Settled(a) /\ Settled(b) /\ a.cur = b.cur /\ Handled(a.out) = Handled(b.out)
          BY <4>1 DEF Alike
        <5>2. Settled(SplitTurn(a, c)) /\ Settled(SplitTurn(b, c))
          BY <5>1, SplitTurnFacts
        <5>3. CASE c \in Breaks
          BY <5>1, <5>2, <5>3, SplitTurnFacts DEF Alike
        <5>4. CASE c \notin Breaks
          BY <5>1, <5>2, <5>4, SplitTurnFacts DEF Alike
        <5> QED
          BY <5>3, <5>4
      <4> QED
        BY <4>2 DEF a, b
    <3> QED
      BY <2>0, <2>2, <3>1, <3>2
  <2>5. CASE c = "LF"
    <3> DEFINE a == L(W(x))
               b == L(x)
    <3>1. Alike(a, b)
      BY <2>1
    <3>2. "CR" \in Chars /\ "LF" \in Chars /\ "CR" \in Breaks /\ "LF" \in Breaks
      BY CharNames DEF Breaks
    <3>3. Append(W(x), "CR") \in Seq(Chars)
      BY <2>0, <3>2
    <3>4. L(Append(W(x), "CR")) = SplitTurn(a, "CR")
      BY <2>0, <2>3, <3>2
    <3>5. L(Append(Append(W(x), "CR"), "LF")) = SplitTurn(SplitTurn(a, "CR"), "LF")
      BY <2>3, <3>2, <3>3, <3>4
    <3>6. L(Append(x, c)) = SplitTurn(b, "LF")
      BY <2>2, <2>5
    <3> HIDE DEF a, b
    <3>7. Alike(SplitTurn(a, "CR"), SplitTurn(b, "LF"))
      <4>1. Settled(a) /\ Settled(b) /\ a.cur = b.cur /\ Handled(a.out) = Handled(b.out)
        BY <3>1 DEF Alike
      <4>2. /\ Settled(SplitTurn(a, "CR")) /\ SplitTurn(a, "CR").cur = <<>>
            /\ Handled(SplitTurn(a, "CR").out) = WithLine(Handled(a.out), a.cur)
        BY <3>2, <4>1, SplitTurnFacts
      <4>3. /\ Settled(SplitTurn(b, "LF")) /\ SplitTurn(b, "LF").cur = <<>>
            /\ Handled(SplitTurn(b, "LF").out) = WithLine(Handled(b.out), b.cur)
        BY <3>2, <4>1, SplitTurnFacts
      <4> QED
        BY <4>1, <4>2, <4>3 DEF Alike
    <3>8. Alike(SplitTurn(SplitTurn(a, "CR"), "LF"), SplitTurn(b, "LF"))
      <4> DEFINE d == SplitTurn(a, "CR")
      <4>1. Settled(d) /\ d.cur = <<>>
        BY <3>1, <3>2, SplitTurnFacts DEF Alike
      <4>2. Alike(d, SplitTurn(b, "LF"))
        BY <3>7
      <4> HIDE DEF d
      <4>3. /\ Settled(SplitTurn(d, "LF")) /\ SplitTurn(d, "LF").cur = <<>>
            /\ Handled(SplitTurn(d, "LF").out) = WithLine(Handled(d.out), <<>>)
        BY <3>2, <4>1, SplitTurnFacts
      <4>4. WithLine(Handled(d.out), <<>>) = Handled(d.out)
        BY EmptyLine
      <4>5. Alike(SplitTurn(d, "LF"), SplitTurn(b, "LF"))
        BY <4>1, <4>2, <4>3, <4>4 DEF Alike
      <4> QED
        BY <4>5 DEF d
    <3>9. Alike(L(W(Append(x, c))), L(Append(x, c)))
      <4>1. CASE W(Append(x, c)) = Append(W(x), "CR")
        BY <3>4, <3>6, <3>7, <4>1
      <4>2. CASE W(Append(x, c)) = Append(Append(W(x), "CR"), "LF")
        BY <3>5, <3>6, <3>8, <4>2
      <4> QED
        BY <2>0, <2>5, <4>1, <4>2
    <3> QED
      BY <2>0, <3>9
  <2> QED
    BY <2>4, <2>5
<1>4. Seq(Chars) \subseteq S
  <2> HIDE DEF S
  <2> QED
    BY <1>2, <1>3, SeqInduct
<1> QED
  BY <1>4

\* The lines that count are the same, however line breaks are written.
LEMMA HandledLinesEndings ==
  ASSUME NEW e \in Endings, NEW s \in Seq(Chars)
  PROVE  HandledLines(WithEndings(s, e)) = HandledLines(s)
<1>1. ASSUME NEW t \in Seq(Chars)
      PROVE  HandledLines(t) = WithLine(Handled(SplitLoop(t).out), SplitLoop(t).cur)
  <2> DEFINE end == SplitLoop(t)
  <2>1. end \in SplitStates /\ end.out \in Seq(Seq(Chars)) /\ end.cur \in Seq(Chars)
    BY SplitFacts DEF SplitStates
  <2>2. HandledLines(t) = Handled(IF end.cur = <<>> THEN end.out ELSE Append(end.out, end.cur))
    BY DEF HandledLines, Handled, splitLines
  <2> HIDE DEF end
  <2>3. CASE end.cur = <<>>
    BY <2>2, <2>3, EmptyLine DEF end
  <2>4. CASE end.cur # <<>>
    <3>1. Handled(Append(end.out, end.cur)) = WithLine(Handled(end.out), end.cur)
      BY <2>1, HandledFacts
    <3> QED
      BY <2>2, <2>4, <3>1 DEF end
  <2> QED
    BY <2>3, <2>4
<1>2. WithEndings(s, e) \in Seq(Chars)
  BY CharNames, WithEndingsFacts
<1>3. Alike(SplitLoop(WithEndings(s, e)), SplitLoop(s))
  BY SplitLoopEndings
<1>4. HandledLines(WithEndings(s, e))
        = WithLine(Handled(SplitLoop(WithEndings(s, e)).out), SplitLoop(WithEndings(s, e)).cur)
  BY <1>1, <1>2
<1>5. HandledLines(s) = WithLine(Handled(SplitLoop(s).out), SplitLoop(s).cur)
  BY <1>1
<1> QED
  BY <1>3, <1>4, <1>5 DEF Alike

----------------------------------------------------------------------------
(* Parts under other line endings *)

LEMMA WithEndingsNone ==
  ASSUME NEW e \in Endings, NEW s \in Seq(Chars), WithEndings(s, e) = <<>>
  PROVE  s = <<>>
<1> DEFINE S == {x \in Seq(Chars) : WithEndings(x, e) = <<>> => x = <<>>}
<1>1. <<>> \in S
  OBVIOUS
<1>2. ASSUME NEW x \in Seq(Chars), NEW c \in Chars PROVE Append(x, c) \in S
  <2> DEFINE w == WithEndings(x, e)
             Cs == Chars
             cr == "CR"
             lf == "LF"
  <2>1. w \in Seq(Cs) /\ cr \in Cs /\ lf \in Cs
    BY CharNames, WithEndingsFacts
  <2>2. WithEndings(Append(x, c), e) \in {Append(w, c), Append(w, cr), Append(Append(w, cr), lf)}
    <3>1. CASE c = "LF"
      BY <3>1, WithEndingsSnoc, Zenon
    <3>2. CASE c # "LF"
      BY <3>2, WithEndingsSnoc, Zenon
    <3> QED
      BY <3>1, <3>2
  <2>3. Append(x, c) \in Seq(Chars)
    OBVIOUS
  <2>4. c \in Cs
    OBVIOUS
  <2> HIDE DEF w, cr, lf, Cs
  <2>5. \A v \in Seq(Cs), d \in Cs : Append(v, d) \in Seq(Cs) /\ Append(v, d) # <<>>
    <3> TAKE v \in Seq(Cs), d \in Cs
    <3>1. Append(v, d) \in Seq(Cs) /\ Len(Append(v, d)) = Len(v) + 1 /\ Len(v) \in Nat
      OBVIOUS
    <3>2. Len(<<>>) = 0
      OBVIOUS
    <3> QED
      BY <3>1, <3>2
  <2> QED
    BY <2>1, <2>2, <2>3, <2>4, <2>5
<1>3. Seq(Chars) \subseteq S
  <2> HIDE DEF S
  <2> QED
    BY <1>1, <1>2, SeqInduct
<1> QED
  BY <1>3

----------------------------------------------------------------------------
(* Decoding *)

Known(c) == IF c \in NonASCII THEN "u" ELSE c
KnownText(s) == [i \in DOMAIN s |-> Known(s[i])]

LEMMA KnownTextFacts ==
  /\ KnownText(<<>>) = <<>>
  /\ \A s \in Seq(Chars) : KnownText(s) \in Seq(Chars)
  /\ \A s \in Seq(Chars), c \in Chars : KnownText(Append(s, c)) = Append(KnownText(s), Known(c))
<1>1. \A c \in Chars : Known(c) \in Chars
  BY CharNames DEF Known
<1>2. KnownText(<<>>) = <<>>
  BY DEF KnownText
<1>3. ASSUME NEW s \in Seq(Chars) PROVE KnownText(s) \in Seq(Chars)
  <2>1. Len(s) \in Nat /\ DOMAIN s = 1 .. Len(s) /\ \A i \in 1 .. Len(s) : s[i] \in Chars
    OBVIOUS
  <2> QED
    BY <1>1, <2>1 DEF KnownText
<1>4. ASSUME NEW s \in Seq(Chars), NEW c \in Chars
      PROVE  KnownText(Append(s, c)) = Append(KnownText(s), Known(c))
  <2> DEFINE l == KnownText(Append(s, c))
             r == Append(KnownText(s), Known(c))
  <2>1. Append(s, c) \in Seq(Chars) /\ Len(s) \in Nat /\ Len(Append(s, c)) = Len(s) + 1
        /\ DOMAIN Append(s, c) = 1 .. Len(s) + 1
        /\ \A i \in 1 .. Len(s) + 1 : Append(s, c)[i] = IF i <= Len(s) THEN s[i] ELSE c
    OBVIOUS
  <2>2. l \in Seq(Chars) /\ Len(l) = Len(s) + 1
        /\ \A i \in 1 .. Len(s) + 1 : l[i] = Known(Append(s, c)[i])
    <3>1. l \in Seq(Chars)
      BY <1>3, <2>1
    <3> QED
      BY <2>1, <3>1 DEF KnownText
  <2>3. KnownText(s) \in Seq(Chars) /\ Len(KnownText(s)) = Len(s) /\ Known(c) \in Chars
        /\ \A i \in 1 .. Len(s) : KnownText(s)[i] = Known(s[i])
    BY <1>1, <1>3 DEF KnownText
  <2>4. r \in Seq(Chars) /\ Len(r) = Len(s) + 1
        /\ \A i \in 1 .. Len(s) + 1 : r[i] = IF i <= Len(s) THEN KnownText(s)[i] ELSE Known(c)
    BY <2>1, <2>3
  <2> HIDE DEF l, r
  <2>5. \A i \in 1 .. Len(s) + 1 : l[i] = r[i]
    <3> TAKE i \in 1 .. Len(s) + 1
    <3>1. CASE i <= Len(s)
      <4>1. i \in 1 .. Len(s)
        BY <2>1, <3>1
      <4> QED
        BY <2>1, <2>2, <2>3, <2>4, <3>1, <4>1
    <3>2. CASE ~(i <= Len(s))
      BY <2>1, <2>2, <2>4, <3>2
    <3> QED
      BY <3>1, <3>2
  <2>6. l = r
    BY <2>1, <2>2, <2>4, <2>5, SeqEqual
  <2> QED
    BY <2>6 DEF l, r
<1> QED
  BY <1>2, <1>3, <1>4

LEMMA KnownTextEndings ==
  ASSUME NEW e \in Endings, NEW s \in Seq(Chars)
  PROVE  KnownText(WithEndings(s, e)) = WithEndings(KnownText(s), e)
<1> DEFINE Cs == Chars
           W(x) == WithEndings(x, e)
           F(x) == KnownText(x)
           S == {x \in Seq(Cs) : F(W(x)) = W(F(x))}
<1>0. "CR" \in Cs /\ "LF" \in Cs /\ Known("CR") = "CR" /\ Known("LF") = "LF"
  BY CharNames DEF Known
<1>1. \A c \in Cs : Known(c) \in Cs /\ (c # "LF" => Known(c) # "LF")
  BY CharNames DEF Known
<1>2. /\ F(<<>>) = <<>>
      /\ \A x \in Seq(Cs) : F(x) \in Seq(Cs)
      /\ \A x \in Seq(Cs), c \in Cs : F(Append(x, c)) = Append(F(x), Known(c))
  BY KnownTextFacts
<1>3. W(<<>>) = <<>>
  BY CharNames, WithEndingsFacts
<1>4. \A x \in Seq(Cs), c \in Cs :
        /\ W(x) \in Seq(Cs)
        /\ c # "LF" => W(Append(x, c)) = Append(W(x), c)
  BY WithEndingsSnoc
<1>5. \/ \A y \in Seq(Cs) : W(Append(y, "LF")) = Append(W(y), "CR")
      \/ \A y \in Seq(Cs) : W(Append(y, "LF")) = Append(Append(W(y), "CR"), "LF")
  BY EndingCases
<1> HIDE DEF W, F, Cs
<1>6. <<>> \in S
  BY <1>2, <1>3
<1>7. ASSUME NEW x \in Seq(Cs), x \in S, NEW c \in Cs PROVE Append(x, c) \in S
  <2>0. F(W(x)) = W(F(x)) /\ F(x) \in Seq(Cs) /\ W(x) \in Seq(Cs) /\ Append(x, c) \in Seq(Cs)
    BY <1>2, <1>4, <1>7
  <2>1. CASE c # "LF"
    <3>1. F(W(Append(x, c))) = Append(F(W(x)), Known(c))
      BY <1>2, <1>4, <2>0, <2>1
    <3>2. W(F(Append(x, c))) = Append(W(F(x)), Known(c))
      <4>1. Known(c) \in Cs /\ Known(c) # "LF"
        BY <1>1, <2>1
      <4>2. F(Append(x, c)) = Append(F(x), Known(c))
        BY <1>2
      <4>3. W(Append(F(x), Known(c))) = Append(W(F(x)), Known(c))
        BY <1>4, <2>0, <4>1
      <4> QED
        BY <4>2, <4>3
    <3> QED
      BY <2>0, <3>1, <3>2
  <2>2. CASE c = "LF"
    <3>1. F(Append(x, c)) = Append(F(x), "LF")
      BY <1>0, <1>2, <2>2
    <3>2. F(Append(W(x), "CR")) = Append(F(W(x)), "CR") /\ Append(W(x), "CR") \in Seq(Cs)
      <4>1. F(Append(W(x), "CR")) = Append(F(W(x)), Known("CR"))
        BY <1>0, <1>2, <2>0
      <4>2. Append(W(x), "CR") \in Seq(Cs)
        BY <1>0, <2>0
      <4> QED
        BY <1>0, <4>1, <4>2
    <3>3. F(Append(Append(W(x), "CR"), "LF")) = Append(Append(F(W(x)), "CR"), "LF")
      <4>1. F(Append(Append(W(x), "CR"), "LF")) = Append(F(Append(W(x), "CR")), "LF")
        BY <1>0, <1>2, <3>2
      <4> QED
        BY <3>2, <4>1
    <3>4. F(W(Append(x, "LF"))) = W(Append(F(x), "LF"))
      <4>1. CASE \A y \in Seq(Cs) : W(Append(y, "LF")) = Append(W(y), "CR")
        BY <2>0, <3>2, <4>1
      <4>2. CASE \A y \in Seq(Cs) : W(Append(y, "LF")) = Append(Append(W(y), "CR"), "LF")
        BY <2>0, <3>3, <4>2
      <4> QED
        BY <1>5, <4>1, <4>2
    <3> QED
      BY <2>0, <2>2, <3>1, <3>4
  <2> QED
    BY <2>1, <2>2
<1>8. Seq(Cs) \subseteq S
  <2> HIDE DEF S
  <2> QED
    BY <1>6, <1>7, SeqInduct
<1> QED
  BY <1>8 DEF W, F, Cs

LEMMA decodeCharsetEndings ==
  ASSUME NEW e \in Endings, NEW s \in Seq(Chars), NEW cs
  PROVE  decodeCharset(WithEndings(s, e), cs) = WithEndings(decodeCharset(s, cs), e)
<1>1. CASE cs = "utf8"
  <2>1. "CR" \in Chars \ {"hi"} /\ "LF" \in Chars \ {"hi"}
    BY CharNames
  <2>2. \A x : decodeCharset(x, cs) = Sift(x, Chars \ {"hi"})
    BY <1>1 DEF decodeCharset
  <2> QED
    BY <2>1, <2>2, SiftEndings
<1>2. CASE cs = "known"
  <2>1. \A x : decodeCharset(x, cs) = KnownText(x)
    BY <1>2 DEF decodeCharset, KnownText, Known
  <2> QED
    BY <2>1, KnownTextEndings
<1>3. CASE cs # "utf8" /\ cs # "known"
  <2>1. "CR" \in Chars \ NonASCII /\ "LF" \in Chars \ NonASCII
    BY CharNames
  <2>2. \A x : decodeCharset(x, cs) = Sift(x, Chars \ NonASCII)
    BY <1>3 DEF decodeCharset
  <2> QED
    BY <2>1, <2>2, SiftEndings
<1> QED
  BY <1>1, <1>2, <1>3

\* The part as a relay leaves it.
Relayed(p, e) == [p EXCEPT !.body = WithEndings(@, e)]

LEMMA RelayedFacts ==
  ASSUME NEW p \in Parts, NEW e
  PROVE  /\ Relayed(p, e).type = p.type /\ Relayed(p, e).cte = p.cte
         /\ Relayed(p, e).charset = p.charset
         /\ Relayed(p, e).body = WithEndings(p.body, e)
         /\ Relayed(p, e).quoted = p.quoted
<1>1. p \in PartsWith(Seq(Parts))
  BY PartFacts
<1> HIDE DEF Parts
<1> QED
  BY <1>1 DEF PartsWith, Relayed

LEMMA decodeCTEEndings ==
  ASSUME NEW p \in Parts, NEW e \in Endings
  PROVE  decodeCTE(Relayed(p, e)) \in {decodeCTE(p), WithEndings(decodeCTE(p), e)}
<1> DEFINE q == Relayed(p, e)
<1>1. q.cte = p.cte /\ q.body = WithEndings(p.body, e) /\ q.quoted = p.quoted
  BY RelayedFacts
<1>2. p.body \in Seq(Chars)
  BY PartFacts
<1>3. filterBase64(WithEndings(p.body, e)) = filterBase64(p.body)
  <2>1. "CR" \notin {"a", "1"} /\ "LF" \notin {"a", "1"}
    OBVIOUS
  <2> QED
    BY <1>2, <2>1, SiftEndings DEF filterBase64
<1> HIDE DEF q
<1>4. decodeCTE(q) \in {decodeCTE(p), WithEndings(decodeCTE(p), e)}
  <2> DEFINE decoded == StdEncoding(filterBase64(p.body))
  <2>1. StdEncoding(filterBase64(q.body)) = decoded
    BY <1>1, <1>3
  <2> HIDE DEF decoded
  <2>2. CASE p.cte = "base64"
    <3>1. decodeCTE(p) = IF decoded = Bad THEN p.body ELSE decoded
      BY <2>2 DEF decodeCTE, decoded
    <3>2. decodeCTE(q) = IF decoded = Bad THEN q.body ELSE decoded
      BY <1>1, <2>1, <2>2 DEF decodeCTE
    <3> QED
      BY <1>1, <3>1, <3>2
  <2>3. CASE p.cte = "quoted-printable"
    BY <1>1, <2>3 DEF decodeCTE
  <2>4. CASE p.cte # "base64" /\ p.cte # "quoted-printable"
    BY <1>1, <2>4 DEF decodeCTE
  <2> QED
    BY <2>2, <2>3, <2>4
<1> QED
  BY <1>4 DEF q

----------------------------------------------------------------------------
(* Trimming *)

Trimmed(t) == t # <<>> => t[1] \notin Trimmable /\ t[Len(t)] \notin Trimmable

LEMMA TrimmableFacts ==
  /\ "CR" \in Trimmable /\ "LF" \in Trimmable
  /\ Trimmable \subseteq Blank /\ Trimmable \subseteq Chars
BY DEF Trimmable, Chars, Blank, Breaks

LEMMA ConcatThree ==
  ASSUME NEW C, NEW x \in Seq(C), NEW t \in Seq(C), NEW y \in Seq(C)
  PROVE  /\ x \o t \o y \in Seq(C)
         /\ Len(x \o t \o y) = Len(x) + Len(t) + Len(y)
         /\ \A i \in 1 .. Len(x) + Len(t) + Len(y) :
              (x \o t \o y)[i] =
                IF i <= Len(x) THEN x[i]
                ELSE IF i <= Len(x) + Len(t) THEN t[i - Len(x)] ELSE y[i - Len(x) - Len(t)]
<1> DEFINE u == x \o t
           s == u \o y
<1>0. Len(x) \in Nat /\ Len(t) \in Nat /\ Len(y) \in Nat
  OBVIOUS
<1>1. /\ u \in Seq(C) /\ Len(u) = Len(x) + Len(t)
      /\ \A i \in 1 .. Len(x) + Len(t) : u[i] = IF i <= Len(x) THEN x[i] ELSE t[i - Len(x)]
  BY ConcatProperties
<1>a. u \in Seq(C)
  BY <1>1
<1> HIDE DEF u
<1>2. /\ s \in Seq(C) /\ Len(s) = Len(u) + Len(y)
      /\ \A i \in 1 .. Len(u) + Len(y) : s[i] = IF i <= Len(u) THEN u[i] ELSE y[i - Len(u)]
  BY <1>a, ConcatProperties
<1> HIDE DEF s
<1>3. ASSUME NEW i \in 1 .. Len(x) + Len(t) + Len(y)
      PROVE  s[i] = IF i <= Len(x) THEN x[i]
                    ELSE IF i <= Len(x) + Len(t) THEN t[i - Len(x)] ELSE y[i - Len(x) - Len(t)]
  <2>1. i - (Len(x) + Len(t)) = i - Len(x) - Len(t)
    BY <1>0
  <2>2. i <= Len(x) => i <= Len(x) + Len(t)
    BY <1>0
  <2>3. i <= Len(x) + Len(t) => i \in 1 .. Len(x) + Len(t)
    BY <1>0
  <2> QED
    BY <1>1, <1>2, <2>1, <2>2, <2>3
<1> QED
  BY <1>1, <1>2, <1>3 DEF s, u

\* What is between the blanks around it is all that TrimSpace leaves.
LEMMA TrimJoin ==
  ASSUME NEW x \in Seq(Trimmable), NEW t \in Seq(Chars), NEW y \in Seq(Trimmable), Trimmed(t)
  PROVE  TrimSpace(x \o t \o y) = t
<1> DEFINE s == x \o t \o y
           shown == {i \in DOMAIN s : s[i] \notin Trimmable}
           Cs == Chars
           B == Trimmable
           nx == Len(x)
           nt == Len(t)
           ny == Len(y)
<1>1. B \subseteq Cs
  BY TrimmableFacts
<1>2. x \in Seq(B) /\ y \in Seq(B) /\ t \in Seq(Cs) /\ nx \in Nat /\ nt \in Nat /\ ny \in Nat
  OBVIOUS
<1>3. shown = {i \in DOMAIN s : s[i] \notin B}
  OBVIOUS
<1> HIDE DEF Cs, B
<1>4. x \in Seq(Cs) /\ y \in Seq(Cs)
  BY <1>1, <1>2, SeqMonotonic
<1>5. /\ s \in Seq(Cs) /\ Len(s) = nx + nt + ny
      /\ \A i \in 1 .. nx + nt + ny :
           s[i] = IF i <= nx THEN x[i] ELSE IF i <= nx + nt THEN t[i - nx] ELSE y[i - nx - nt]
  BY <1>2, <1>4, ConcatThree
<1>6. \A i \in 1 .. nx : x[i] \in B
  BY <1>2
<1>7. \A i \in 1 .. ny : y[i] \in B
  BY <1>2
<1> HIDE DEF s
<1>8. DOMAIN s = 1 .. nx + nt + ny
  BY <1>2, <1>5
<1> HIDE DEF nx, nt, ny, shown
<1>9. shown \subseteq nx + 1 .. nx + nt
  <2> SUFFICES ASSUME NEW i \in 1 .. nx + nt + ny, s[i] \notin B
               PROVE  i \in nx + 1 .. nx + nt
    BY <1>3, <1>8
  <2>1. CASE i <= nx
    <3>1. s[i] = x[i] /\ i \in 1 .. nx
      BY <1>2, <1>5, <2>1
    <3> QED
      BY <1>6, <3>1
  <2>2. CASE i > nx + nt
    <3>1. s[i] = y[i - nx - nt] /\ i - nx - nt \in 1 .. ny
      BY <1>2, <1>5, <2>2
    <3> QED
      BY <1>7, <3>1
  <2> QED
    BY <1>2, <2>1, <2>2
<1>10. TrimSpace(s) = IF shown = {} THEN <<>> ELSE SubSeq(s, Min(shown), Max(shown))
  BY DEF TrimSpace, shown
<1>11. CASE t = <<>>
  <2>1. nt = 0
    BY <1>11 DEF nt
  <2>2. shown = {}
    BY <1>2, <1>9, <2>1
  <2> QED
    BY <1>10, <1>11, <2>2 DEF s
<1>12. CASE t # <<>>
  <2>1. nt \in Nat /\ nt # 0 /\ nt = Len(t)
    BY <1>2, <1>12 DEF nt
  <2>2. t[1] \notin B /\ t[nt] \notin B
    BY <1>12, <2>1 DEF Trimmed, B
  <2>3. nx + 1 \in shown /\ nx + nt \in shown
    <3>1. nx + 1 \in 1 .. nx + nt + ny /\ nx + nt \in 1 .. nx + nt + ny
      BY <1>2, <2>1
    <3>2. s[nx + 1] = t[1] /\ s[nx + nt] = t[nt]
      <4>1. s[nx + 1] = t[nx + 1 - nx]
        BY <1>2, <1>5, <2>1, <3>1
      <4>2. s[nx + nt] = t[nx + nt - nx]
        BY <1>2, <1>5, <2>1, <3>1
      <4>3. nx + 1 - nx = 1 /\ nx + nt - nx = nt
        BY <1>2, <2>1
      <4> QED
        BY <4>1, <4>2, <4>3
    <3> QED
      BY <1>3, <1>8, <2>2, <3>1, <3>2
  <2>4. shown \in SUBSET (1 .. nx + nt + ny) /\ shown # {} /\ nx + nt + ny \in Nat
    BY <1>2, <1>3, <1>8, <2>3
  <2>5. Min(shown) \in shown /\ \A i \in shown : Min(shown) <= i
    BY <2>4, LeastShown
  <2>6. Max(shown) \in shown /\ \A i \in shown : i <= Max(shown)
    BY <2>4, MaxOfRange
  <2>7. Min(shown) = nx + 1 /\ Max(shown) = nx + nt
    <3> DEFINE m == Min(shown)
               k == Max(shown)
    <3>1. m \in nx + 1 .. nx + nt /\ k \in nx + 1 .. nx + nt /\ m <= nx + 1 /\ nx + nt <= k
      BY <1>9, <2>3, <2>5, <2>6
    <3> HIDE DEF m, k
    <3>2. m = nx + 1 /\ k = nx + nt
      BY <1>2, <2>1, <3>1
    <3> QED
      BY <3>2 DEF m, k
  <2>8. SubSeq(s, nx + 1, nx + nt) = t
    <3> DEFINE u == x \o t
    <3>1. u \in Seq(Cs) /\ Len(u) = nx + nt
      BY <1>2, <1>4 DEF nx, nt
    <3>2. s = u \o y
      BY DEF s
    <3>3. nx + 1 \in 1 .. nx + nt /\ nx + nt \in 1 .. nx + nt
      BY <1>2, <2>1
    <3>4. SubSeq(u \o y, nx + 1, nx + nt) = SubSeq(u, nx + 1, nx + nt)
      <4> HIDE DEF u
      <4> QED
        BY <1>4, <3>1, <3>3, SubSeqOfConcat1
    <3>5. SubSeq(x \o t, nx + 1, nx + nt) = SubSeq(t, nx + 1 - nx, nx + nt - nx)
      <4>1. nx + 1 \in nx + 1 .. nx + nt /\ nx + nt \in nx + 1 .. nx + nt
        BY <1>2, <2>1
      <4> QED
        BY <1>2, <1>4, <4>1, SubSeqOfConcat2 DEF nx, nt
    <3>6. nx + 1 - nx = 1 /\ nx + nt - nx = nt
      BY <1>2, <2>1
    <3>7. SubSeq(t, 1, nt) = t
      BY <1>2, SubSeqFull DEF nt
    <3> QED
      BY <3>2, <3>4, <3>5, <3>6, <3>7
  <2> QED
    BY <1>10, <2>4, <2>7, <2>8 DEF s
<1> QED
  BY <1>11, <1>12

\* A text is what TrimSpace leaves of it, with blanks around it.
LEMMA TrimSplit ==
  ASSUME NEW s \in Seq(Chars)
  PROVE  \E x \in Seq(Trimmable), y \in Seq(Trimmable) :
           s = x \o TrimSpace(s) \o y /\ Trimmed(TrimSpace(s))
<1> DEFINE shown == {i \in DOMAIN s : s[i] \notin Trimmable}
           Cs == Chars
           B == Trimmable
           n == Len(s)
           t == TrimSpace(s)
<1>1. n \in Nat /\ DOMAIN s = 1 .. n /\ s \in Seq(Cs) /\ \A i \in 1 .. n : s[i] \in Cs
  OBVIOUS
<1>2. shown = {i \in 1 .. n : s[i] \notin B}
  BY <1>1
<1>3. t = IF shown = {} THEN <<>> ELSE SubSeq(s, Min(shown), Max(shown))
  BY DEF TrimSpace
<1>4. B \subseteq Cs
  BY TrimmableFacts
<1>5. (\E x \in Seq(B), y \in Seq(B) : s = x \o t \o y) /\ Trimmed(t)
  <2> HIDE DEF Cs, B, n, t, shown
  <2>1. CASE shown = {}
    <3>1. t = <<>>
      BY <1>3, <2>1
    <3>2. \A i \in 1 .. n : s[i] \in B
      BY <1>2, <2>1
    <3>3. s \in Seq(B)
      BY <1>1, <3>2 DEF n
    <3>4. s = s \o t \o <<>> /\ <<>> \in Seq(B)
      BY <3>1, <3>3
    <3>5. Trimmed(t)
      BY <3>1 DEF Trimmed
    <3> QED
      BY <3>3, <3>4, <3>5
  <2>2. CASE shown # {}
    <3> DEFINE m == Min(shown)
               k == Max(shown)
               x == SubSeq(s, 1, m - 1)
               y == SubSeq(s, k + 1, n)
    <3>1. shown \in SUBSET (1 .. n)
      BY <1>2
    <3>2. m \in shown /\ \A i \in shown : m <= i
      BY <1>1, <2>2, <3>1, LeastShown
    <3>3. k \in shown /\ \A i \in shown : i <= k
      BY <1>1, <2>2, <3>1, MaxOfRange
    <3>4. t = SubSeq(s, m, k)
      BY <1>3, <2>2
    <3> HIDE DEF m, k
    <3>5. m \in 1 .. n /\ k \in 1 .. n /\ m <= k /\ s[m] \notin B /\ s[k] \notin B
      BY <1>2, <3>2, <3>3
    <3>6. /\ x \in Seq(Cs) /\ Len(x) = m - 1
          /\ \A i \in 1 .. m - 1 : x[i] = s[i]
      BY <1>1, <3>5 DEF n
    <3>7. /\ y \in Seq(Cs) /\ Len(y) = n - k
          /\ \A i \in 1 .. n - k : y[i] = s[k + i]
      <4>1. k + 1 \in Int /\ n \in Int /\ \A i \in k + 1 .. n : s[i] \in Cs
        BY <1>1, <3>5
      <4>2. /\ y \in Seq(Cs) /\ Len(y) = IF k + 1 <= n THEN n - (k + 1) + 1 ELSE 0
            /\ \A i \in 1 .. n - (k + 1) + 1 : y[i] = s[k + 1 + i - 1]
        BY <4>1, SubSeqProperties
      <4> HIDE DEF y
      <4>3. n - (k + 1) + 1 = n - k /\ (~(k + 1 <= n) => n - k = 0)
        BY <1>1, <3>5
      <4>4. \A i \in 1 .. n - k : k + 1 + i - 1 = k + i
        BY <1>1, <3>5
      <4> QED
        BY <4>2, <4>3, <4>4
    <3>8. /\ t \in Seq(Cs) /\ Len(t) = k - m + 1
          /\ \A i \in 1 .. k - m + 1 : t[i] = s[m + i - 1]
      <4>1. m \in Int /\ k \in Int /\ \A i \in m .. k : s[i] \in Cs
        BY <1>1, <3>5
      <4> QED
        BY <3>4, <3>5, <4>1, SubSeqProperties
    <3> HIDE DEF x, y
    <3>9. x \in Seq(B)
      <4>1. \A i \in 1 .. m - 1 : i \in 1 .. n /\ i \notin shown
        BY <1>1, <3>2, <3>5
      <4>2. \A i \in 1 .. m - 1 : x[i] \in B
        BY <1>2, <3>6, <4>1
      <4> QED
        BY <3>6, <4>2
    <3>10. y \in Seq(B)
      <4>1. \A i \in 1 .. n - k : k + i \in 1 .. n /\ k + i \notin shown
        BY <1>1, <3>3, <3>5
      <4>2. \A i \in 1 .. n - k : y[i] \in B
        BY <1>2, <3>7, <4>1
      <4> QED
        BY <3>7, <4>2
    <3>11. s = x \o t \o y
      <4>1. /\ m - 1 \in 1 - 1 .. n /\ k \in m - 1 .. n /\ m \in 1 .. n + 1 /\ k \in 0 .. n
            /\ 1 \in 1 .. n + 1 /\ k \in m - 1 .. n /\ n \in k .. n /\ m - 1 + 1 = m
        BY <1>1, <3>5
      <4>2. SubSeq(s, 1, m - 1) \o SubSeq(s, m - 1 + 1, k) = SubSeq(s, 1, k)
        <5> DEFINE i == m - 1
        <5>1. 1 \in 1 .. Len(s) + 1 /\ i \in 1 - 1 .. Len(s) /\ k \in i .. Len(s)
          BY <4>1 DEF n
        <5> HIDE DEF i
        <5>2. SubSeq(s, 1, i) \o SubSeq(s, i + 1, k) = SubSeq(s, 1, k)
          BY <1>1, <5>1, ConcatAdjacentSubSeq
        <5> QED
          BY <5>2 DEF i
      <4>3. SubSeq(s, 1, k) \o SubSeq(s, k + 1, n) = SubSeq(s, 1, n)
        <5>1. 1 \in 1 .. Len(s) + 1 /\ k \in 1 - 1 .. Len(s) /\ Len(s) \in k .. Len(s)
          BY <1>1, <3>5, <4>1 DEF n
        <5>2. SubSeq(s, 1, k) \o SubSeq(s, k + 1, Len(s)) = SubSeq(s, 1, Len(s))
          BY <1>1, <5>1, ConcatAdjacentSubSeq
        <5> QED
          BY <5>2 DEF n
      <4>4. SubSeq(s, 1, n) = s
        BY <1>1, SubSeqFull DEF n
      <4> QED
        BY <3>4, <4>1, <4>2, <4>3, <4>4 DEF x, y
    <3>12. Trimmed(t)
      <4>1. t[1] = s[m] /\ t[k - m + 1] = s[k]
        <5>1. 1 \in 1 .. k - m + 1 /\ k - m + 1 \in 1 .. k - m + 1
          BY <1>1, <3>5
        <5>2. m + 1 - 1 = m /\ m + (k - m + 1) - 1 = k
          BY <1>1, <3>5
        <5> QED
          BY <3>8, <5>1, <5>2
      <4> QED
        BY <3>5, <3>8, <4>1 DEF Trimmed, B
    <3> QED
      BY <3>9, <3>10, <3>11, <3>12
  <2> QED
    BY <2>1, <2>2
<1> QED
  BY <1>5, Zenon

\* The ends of a text that is trimmed stay where they are.
LEMMA TrimmedEndings ==
  ASSUME NEW e \in Endings, NEW t \in Seq(Chars), Trimmed(t)
  PROVE  Trimmed(WithEndings(t, e))
<1> DEFINE Cs == Chars
           W(x) == WithEndings(x, e)
<1>0. "LF" \in Trimmable
  BY TrimmableFacts
<1>1. \A x \in Seq(Cs), c \in Cs : W(x) \in Seq(Cs) /\ (c # "LF" => W(Append(x, c)) = Append(W(x), c))
  BY WithEndingsSnoc
<1>2. W(<<>>) = <<>>
  BY CharNames, WithEndingsFacts
<1>3. \A x \in Seq(Cs), y \in Seq(Cs) : W(x \o y) = W(x) \o W(y)
  BY WithEndingsConcat
<1>4. t \in Seq(Cs)
  OBVIOUS
<1>5. CASE t = <<>>
  BY <1>2, <1>5 DEF Trimmed
<1>6. CASE t # <<>>
  <2> HIDE DEF Cs, W
  <2>1. /\ Len(t) \in Nat /\ Len(t) # 0 /\ t[1] \in Cs /\ t[Len(t)] \in Cs
        /\ t[1] \notin Trimmable /\ t[Len(t)] \notin Trimmable
    BY <1>4, <1>6 DEF Trimmed
  <2>2. PICK u \in Seq(Cs), z \in Cs : t = Append(u, z)
    BY <1>4, <1>6, SequenceEmptyOrAppend
  <2>3. t[Len(t)] = z
    BY <2>2
  <2>4. z # "LF"
    BY <1>0, <2>1, <2>3
  <2>5. W(t) = Append(W(u), z) /\ W(u) \in Seq(Cs)
    BY <1>1, <2>2, <2>4
  <2>6. W(t)[Len(W(t))] = z /\ W(t) # <<>> /\ Len(W(t)) \in Nat
    BY <2>2, <2>5
  <2> DEFINE a == t[1]
             v == Tail(t)
             one == <<a>>
  <2>7. t = one \o v /\ v \in Seq(Cs) /\ one \in Seq(Cs) /\ one = Append(<<>>, a)
    BY <1>4, <1>6, <2>1
  <2>8. a # "LF" /\ a \in Cs /\ <<>> \in Seq(Cs)
    BY <1>0, <2>1
  <2>9. W(one) = one
    BY <1>1, <1>2, <2>7, <2>8
  <2>10. W(t) = one \o W(v) /\ W(v) \in Seq(Cs)
    <3> HIDE DEF one, v
    <3> QED
      BY <1>1, <1>3, <2>7, <2>9
  <2>11. W(t)[1] = a
    <3> HIDE DEF v, a
    <3> QED
      BY <2>8, <2>10
  <2>12. Trimmed(W(t))
    BY <2>1, <2>3, <2>6, <2>11 DEF Trimmed
  <2> QED
    BY <2>12 DEF W
<1> QED
  BY <1>5, <1>6

LEMMA TrimSpaceEndings ==
  ASSUME NEW e \in Endings, NEW s \in Seq(Chars)
  PROVE  TrimSpace(WithEndings(s, e)) = WithEndings(TrimSpace(s), e)
<1> DEFINE W(x) == WithEndings(x, e)
           t == TrimSpace(s)
           B == Trimmable
           Cs == Chars
<1>1. PICK x \in Seq(B), y \in Seq(B) : s = x \o t \o y /\ Trimmed(t)
  BY TrimSplit, Zenon
<1>2. t \in Seq(Cs)
  BY TrimSpaceType
<1>3. W(x) \in Seq(B) /\ W(y) \in Seq(B)
  BY TrimmableFacts, WithEndingsFacts
<1>4. x \in Seq(Cs) /\ y \in Seq(Cs)
  <2>1. B \subseteq Cs
    BY TrimmableFacts
  <2> HIDE DEF B, Cs
  <2> QED
    BY <2>1, SeqMonotonic
<1>5. \A u \in Seq(Cs), v \in Seq(Cs) : W(u \o v) = W(u) \o W(v)
  BY WithEndingsConcat
<1>6. W(t) \in Seq(Cs)
  BY <1>2, CharNames, WithEndingsFacts
<1>7. Trimmed(W(t))
  BY <1>1, <1>2, TrimmedEndings
<1>8. TrimSpace(W(x) \o W(t) \o W(y)) = W(t)
  <2> HIDE DEF W, t
  <2> QED
    BY <1>3, <1>6, <1>7, TrimJoin
<1> HIDE DEF W, t, Cs, B
<1>9. W(s) = W(x) \o W(t) \o W(y)
  <2>1. x \o t \in Seq(Cs)
    BY <1>2, <1>4
  <2>2. W(x \o t \o y) = W(x \o t) \o W(y)
    BY <1>4, <1>5, <2>1
  <2>3. W(x \o t) = W(x) \o W(t)
    BY <1>2, <1>4, <1>5
  <2> QED
    BY <1>1, <2>2, <2>3
<1>10. TrimSpace(W(s)) = W(t)
  BY <1>8, <1>9
<1> QED
  BY <1>10 DEF W, t

----------------------------------------------------------------------------
(* HTML under other line endings *)

\* The state of the tokenizer loop that has met the text with these endings.
Rewritten(a, e) ==
  [out |-> WithEndings(a.out, e), tok |-> WithEndings(a.tok, e), collect |-> a.collect]

LEMMA WithTokenEndings ==
  ASSUME NEW e \in Endings, NEW a \in TokenStates
  PROVE  WithToken(Rewritten(a, e)) = WithEndings(WithToken(a), e)
<1> DEFINE W(x) == WithEndings(x, e)
           Cs == Chars
           t == TrimSpace(a.tok)
           o == a.out
           sp == " "
<1>1. a.tok \in Seq(Cs) /\ o \in Seq(Cs) /\ t \in Seq(Cs)
  BY TrimSpaceType DEF TokenStates
<1>2. TrimSpace(W(a.tok)) = W(t)
  BY <1>1, TrimSpaceEndings
<1>3. W(<<>>) = <<>> /\ sp \in Cs /\ sp # "LF"
  BY CharNames, WithEndingsFacts
<1>4. \A x \in Seq(Cs) : W(x) = <<>> => x = <<>>
  BY WithEndingsNone
<1>5. \A x \in Seq(Cs), y \in Seq(Cs) : W(x \o y) = W(x) \o W(y)
  BY WithEndingsConcat
<1>6. W(<<sp>>) = <<sp>>
  <2>1. \A x \in Seq(Cs), c \in Cs : c # "LF" => W(Append(x, c)) = Append(W(x), c)
    BY WithEndingsSnoc
  <2>2. <<>> \in Seq(Cs) /\ Append(<<>>, sp) = <<sp>>
    OBVIOUS
  <2> HIDE DEF sp, W, Cs
  <2> QED
    BY <1>3, <2>1, <2>2
<1>7. WithToken(a) = IF a.collect /\ t # <<>>
                     THEN o \o (IF o = <<>> THEN <<>> ELSE <<sp>>) \o t ELSE o
  BY DEF WithToken
<1>8. WithToken(Rewritten(a, e)) =
        IF a.collect /\ W(t) # <<>>
        THEN W(o) \o (IF W(o) = <<>> THEN <<>> ELSE <<sp>>) \o W(t) ELSE W(o)
  BY <1>2 DEF WithToken, Rewritten
<1> HIDE DEF W, Cs, t, o, sp
<1>9. (W(t) = <<>> <=> t = <<>>) /\ (W(o) = <<>> <=> o = <<>>)
  BY <1>1, <1>3, <1>4
<1>10. W(WithToken(a)) = IF a.collect /\ t # <<>>
                         THEN W(o) \o (IF o = <<>> THEN <<>> ELSE <<sp>>) \o W(t) ELSE W(o)
  <2> DEFINE gap == IF o = <<>> THEN <<>> ELSE <<sp>>
  <2>1. gap \in Seq(Cs) /\ W(gap) = gap
    <3>1. <<>> \in Seq(Cs) /\ <<sp>> \in Seq(Cs)
      BY <1>3
    <3> QED
      BY <1>3, <1>6, <3>1
  <2>2. WithToken(a) = IF a.collect /\ t # <<>> THEN o \o gap \o t ELSE o
    BY <1>7
  <2> HIDE DEF gap
  <2>3. o \o gap \in Seq(Cs)
    BY <1>1, <2>1
  <2>4. W(o \o gap \o t) = W(o \o gap) \o W(t)
    <3> DEFINE og == o \o gap
    <3>1. og \in Seq(Cs)
      BY <2>3
    <3> HIDE DEF og
    <3>2. W(og \o t) = W(og) \o W(t)
      BY <1>1, <1>5, <3>1
    <3> QED
      BY <3>2 DEF og
  <2>5. W(o \o gap) = W(o) \o gap
    <3>1. W(o \o gap) = W(o) \o W(gap)
      BY <1>1, <1>5, <2>1
    <3> QED
      BY <2>1, <3>1
  <2>6. W(WithToken(a)) = IF a.collect /\ t # <<>> THEN W(o) \o gap \o W(t) ELSE W(o)
    BY <2>2, <2>4, <2>5
  <2> QED
    BY <2>6 DEF gap
<1>11. WithToken(Rewritten(a, e)) = W(WithToken(a))
  BY <1>8, <1>9, <1>10
<1> QED
  BY <1>11 DEF W

\* A tag, or a character that is no LF.
LEMMA TokenTurnEndings ==
  ASSUME NEW e \in Endings, NEW a \in TokenStates, NEW c \in Chars, c # "LF"
  PROVE  TokenTurn(Rewritten(a, e), c) = Rewritten(TokenTurn(a, c), e)
<1>1. CASE c \in Tags
  <2>1. TokenTurn(a, c) = [out |-> WithToken(a), tok |-> <<>>, collect |-> collectAfter(c, a.collect)]
    BY <1>1 DEF TokenTurn
  <2>2. TokenTurn(Rewritten(a, e), c)
          = [out |-> WithToken(Rewritten(a, e)), tok |-> <<>>, collect |-> collectAfter(c, a.collect)]
    BY <1>1 DEF TokenTurn, Rewritten
  <2>3. WithEndings(<<>>, e) = <<>>
    BY CharNames, WithEndingsFacts
  <2>4. WithToken(Rewritten(a, e)) = WithEndings(WithToken(a), e)
    BY WithTokenEndings
  <2> QED
    BY <2>1, <2>2, <2>3, <2>4 DEF Rewritten
<1>2. CASE c \notin Tags
  <2>0. a = [out |-> a.out, tok |-> a.tok, collect |-> a.collect] /\ a.tok \in Seq(Chars)
    BY DEF TokenStates
  <2>1. TokenTurn(a, c) = [out |-> a.out, tok |-> Append(a.tok, c), collect |-> a.collect]
    BY <1>2, <2>0 DEF TokenTurn
  <2>2. TokenTurn(Rewritten(a, e), c)
          = [out |-> WithEndings(a.out, e), tok |-> Append(WithEndings(a.tok, e), c),
             collect |-> a.collect]
    BY <1>2 DEF TokenTurn, Rewritten
  <2>3. WithEndings(Append(a.tok, c), e) = Append(WithEndings(a.tok, e), c)
    BY <2>0, WithEndingsSnoc
  <2>4. /\ TokenTurn(a, c).out = a.out /\ TokenTurn(a, c).tok = Append(a.tok, c)
        /\ TokenTurn(a, c).collect = a.collect
    BY <2>1
  <2>5. Rewritten(TokenTurn(a, c), e)
          = [out |-> WithEndings(a.out, e), tok |-> WithEndings(Append(a.tok, c), e),
             collect |-> a.collect]
    BY <2>4 DEF Rewritten
  <2> QED
    BY <2>2, <2>3, <2>5
<1> QED
  BY <1>1, <1>2

\* An LF.
LEMMA TokenTurnLF ==
  ASSUME NEW e \in Endings, NEW a \in TokenStates
  PROVE  Rewritten(TokenTurn(a, "LF"), e)
           = [Rewritten(a, e) EXCEPT !.tok = WithEndings(Append(a.tok, "LF"), e)]
<1>1. "LF" \notin Tags
  BY CharNames
<1>2. a = [out |-> a.out, tok |-> a.tok, collect |-> a.collect]
  BY DEF TokenStates
<1>3. TokenTurn(a, "LF") = [out |-> a.out, tok |-> Append(a.tok, "LF"), collect |-> a.collect]
  BY <1>1, <1>2 DEF TokenTurn
<1>4. /\ TokenTurn(a, "LF").out = a.out /\ TokenTurn(a, "LF").tok = Append(a.tok, "LF")
      /\ TokenTurn(a, "LF").collect = a.collect
  BY <1>3
<1>5. Rewritten(TokenTurn(a, "LF"), e)
        = [out |-> WithEndings(a.out, e), tok |-> WithEndings(Append(a.tok, "LF"), e),
           collect |-> a.collect]
  BY <1>4 DEF Rewritten
<1> QED
  BY <1>5 DEF Rewritten

LEMMA TokenLoopEndings ==
  ASSUME NEW e \in Endings, NEW s \in Seq(Chars)
  PROVE  TokenLoop(WithEndings(s, e)) = Rewritten(TokenLoop(s), e)
<1> DEFINE Cs == Chars
           W(x) == WithEndings(x, e)
           L(x) == TokenLoop(x)
           R(a) == Rewritten(a, e)
           S == {x \in Seq(Cs) : L(W(x)) = R(L(x))}
<1>0. "CR" \in Cs /\ "LF" \in Cs
  BY CharNames
<1>1. /\ L(<<>>) = TokenStart
      /\ \A x \in Seq(Cs) : L(x) \in TokenStates
      /\ \A x \in Seq(Cs), c \in Cs : L(Append(x, c)) = TokenTurn(L(x), c)
  BY TokenFacts
<1>2. W(<<>>) = <<>>
  BY CharNames, WithEndingsFacts
<1>3. \A x \in Seq(Cs), c \in Cs :
        W(x) \in Seq(Cs) /\ (c # "LF" => W(Append(x, c)) = Append(W(x), c))
  BY WithEndingsSnoc
<1>4. \/ \A y \in Seq(Cs) : W(Append(y, "LF")) = Append(W(y), "CR")
      \/ \A y \in Seq(Cs) : W(Append(y, "LF")) = Append(Append(W(y), "CR"), "LF")
  BY EndingCases
<1>5. \A a \in TokenStates, c \in Cs : c # "LF" => TokenTurn(R(a), c) = R(TokenTurn(a, c))
  BY TokenTurnEndings
<1>6. R(TokenStart) = TokenStart
  BY <1>2 DEF Rewritten, TokenStart
<1>7. \A a \in TokenStates : R(TokenTurn(a, "LF")) = [R(a) EXCEPT !.tok = W(Append(a.tok, "LF"))]
  BY TokenTurnLF
<1>8. \A a \in TokenStates : /\ a.tok \in Seq(Cs) /\ R(a).tok = W(a.tok)
                             /\ R(a) \in [out : {W(a.out)}, tok : {W(a.tok)}, collect : BOOLEAN]
  BY DEF TokenStates, Rewritten
<1>9. \A b : TokenTurn(b, "CR") = [b EXCEPT !.tok = Append(@, "CR")]
             /\ TokenTurn(b, "LF") = [b EXCEPT !.tok = Append(@, "LF")]
  BY CharNames DEF TokenTurn
<1> HIDE DEF W, L, R, Cs
<1>10. <<>> \in S
  BY <1>1, <1>2, <1>6
<1>11. ASSUME NEW x \in Seq(Cs), x \in S, NEW c \in Cs PROVE Append(x, c) \in S
  <2>0. L(W(x)) = R(L(x)) /\ W(x) \in Seq(Cs) /\ Append(x, c) \in Seq(Cs) /\ L(x) \in TokenStates
    BY <1>1, <1>3, <1>11
  <2>1. CASE c # "LF"
    <3>1. W(Append(x, c)) = Append(W(x), c)
      BY <1>3, <2>1
    <3>2. L(Append(W(x), c)) = TokenTurn(R(L(x)), c)
      BY <1>1, <2>0
    <3>3. TokenTurn(R(L(x)), c) = R(TokenTurn(L(x), c))
      BY <1>5, <2>0, <2>1
    <3>4. L(Append(x, c)) = TokenTurn(L(x), c)
      BY <1>1
    <3> QED
      BY <2>0, <3>1, <3>2, <3>3, <3>4
  <2>2. CASE c = "LF"
    <3> DEFINE a == L(x)
               b == R(a)
    <3>1. L(W(x)) = b /\ a \in TokenStates
      BY <2>0
    <3>2. R(L(Append(x, c))) = [b EXCEPT !.tok = W(Append(a.tok, "LF"))]
      BY <1>1, <1>7, <2>2, <3>1
    <3> HIDE DEF a
    <3>3. a.tok \in Seq(Cs) /\ b.tok = W(a.tok)
          /\ b \in [out : {W(a.out)}, tok : {W(a.tok)}, collect : BOOLEAN]
      BY <1>8, <3>1
    <3>4. L(Append(W(x), "CR")) = TokenTurn(b, "CR") /\ Append(W(x), "CR") \in Seq(Cs)
      BY <1>0, <1>1, <2>0, <3>1
    <3>5. L(Append(Append(W(x), "CR"), "LF")) = TokenTurn(TokenTurn(b, "CR"), "LF")
      BY <1>0, <1>1, <3>4
    <3> HIDE DEF b
    <3>6. TokenTurn(b, "CR") = [b EXCEPT !.tok = Append(b.tok, "CR")]
      BY <1>9
    <3>7. TokenTurn(TokenTurn(b, "CR"), "LF")
            = [b EXCEPT !.tok = Append(Append(b.tok, "CR"), "LF")]
      <4> DEFINE d == TokenTurn(b, "CR")
      <4>1. TokenTurn(d, "LF") = [d EXCEPT !.tok = Append(@, "LF")]
        BY <1>9
      <4>2. d = [b EXCEPT !.tok = Append(b.tok, "CR")]
        BY <3>6
      <4> HIDE DEF d
      <4>3. TokenTurn(d, "LF") = [b EXCEPT !.tok = Append(Append(b.tok, "CR"), "LF")]
        BY <3>3, <4>1, <4>2
      <4> QED
        BY <4>3 DEF d
    <3>8. L(W(Append(x, "LF"))) = [b EXCEPT !.tok = W(Append(a.tok, "LF"))]
      <4>1. CASE \A y \in Seq(Cs) : W(Append(y, "LF")) = Append(W(y), "CR")
        BY <2>0, <3>3, <3>4, <3>6, <4>1
      <4>2. CASE \A y \in Seq(Cs) : W(Append(y, "LF")) = Append(Append(W(y), "CR"), "LF")
        BY <2>0, <3>3, <3>5, <3>7, <4>2
      <4> QED
        BY <1>4, <4>1, <4>2
    <3> QED
      BY <2>0, <2>2, <3>2, <3>8
  <2> QED
    BY <2>1, <2>2
<1>12. Seq(Cs) \subseteq S
  <2> HIDE DEF S
  <2> QED
    BY <1>10, <1>11, SeqInduct
<1> QED
  BY <1>12 DEF W, L, R, Cs

LEMMA normalizeHTMLPartEndings ==
  ASSUME NEW e \in Endings, NEW s \in Seq(Chars)
  PROVE  normalizeHTMLPart(WithEndings(s, e)) = WithEndings(normalizeHTMLPart(s), e)
<1>1. TokenLoop(s) \in TokenStates
  BY TokenFacts
<1>2. TokenLoop(WithEndings(s, e)) = Rewritten(TokenLoop(s), e)
  BY TokenLoopEndings
<1>3. WithToken(Rewritten(TokenLoop(s), e)) = WithEndings(WithToken(TokenLoop(s)), e)
  BY <1>1, WithTokenEndings
<1> QED
  BY <1>2, <1>3 DEF normalizeHTMLPart

LEMMA PayloadEndings ==
  ASSUME NEW p \in Parts, NEW e \in Endings
  PROVE  Payload(Relayed(p, e)) \in {Payload(p), WithEndings(Payload(p), e)}
<1> DEFINE q == Relayed(p, e)
           cs == Charset(p)
           text == decodeCharset(decodeCTE(p), cs)
           other == decodeCharset(decodeCTE(q), cs)
<1>1. q.type = p.type /\ q.charset = p.charset /\ q.body = WithEndings(p.body, e)
  BY RelayedFacts
<1>2. Charset(q) = cs /\ MediaType(q) = MediaType(p)
  BY <1>1 DEF Charset, MediaType
<1>3. p.body \in Seq(Chars) /\ p.quoted \in Seq(Chars)
  BY PartFacts
<1>4. decodeCTE(p) \in Seq(Chars)
  BY <1>3, decodeCTEType
<1>5. text \in Seq(Chars)
  BY <1>4, decodeCharsetType
<1>6. other \in {text, WithEndings(text, e)}
  <2>1. decodeCTE(q) \in {decodeCTE(p), WithEndings(decodeCTE(p), e)}
    BY decodeCTEEndings
  <2>2. decodeCharset(WithEndings(decodeCTE(p), e), cs) = WithEndings(text, e)
    BY <1>4, decodeCharsetEndings
  <2> QED
    BY <2>1, <2>2
<1>7. normalizeHTMLPart(WithEndings(text, e)) = WithEndings(normalizeHTMLPart(text), e)
  BY <1>5, normalizeHTMLPartEndings
<1>8. Payload(p) = CASE MediaType(p) = "text" -> text
                     [] MediaType(p) = "html" -> normalizeHTMLPart(text)
                     [] OTHER -> p.body
  BY DEF Payload
<1>9. Payload(q) = CASE MediaType(p) = "text" -> other
                     [] MediaType(p) = "html" -> normalizeHTMLPart(other)
                     [] OTHER -> q.body
  BY <1>2 DEF Payload
<1> HIDE DEF q, text, other
<1>10. CASE MediaType(p) = "text"
  BY <1>6, <1>8, <1>9, <1>10 DEF q
<1>11. CASE MediaType(p) = "html"
  BY <1>6, <1>7, <1>8, <1>9, <1>11 DEF q
<1>12. CASE MediaType(p) # "text" /\ MediaType(p) # "html"
  BY <1>1, <1>8, <1>9, <1>12 DEF q
<1> QED
  BY <1>10, <1>11, <1>12

(***************************************************************************)
(* A part whose lines a relay ends with CR LF instead of LF gives the same *)
(* lines, whatever it holds, in base64 or not, in any charset, text or     *)
(* HTML (splitLines, filterBase64, decodeCharset and normalizeHTMLPart of  *)
(* digest.go); quoted-printable parts are left out.                        *)
(***************************************************************************)
THEOREM LineEndingsHold == Spec => []LineEndingsIrrelevant
<1>1. ASSUME NEW p \in Parts, NEW e \in Endings
      PROVE  HandledLines(Payload(Relayed(p, e))) = HandledLines(Payload(p))
  <2>1. Payload(p) \in Seq(Chars)
    BY PartFacts, PayloadType
  <2>2. HandledLines(WithEndings(Payload(p), e)) = HandledLines(Payload(p))
    BY <2>1, HandledLinesEndings
  <2> QED
    BY <2>2, PayloadEndings
<1>2. TypeInv => LineEndingsIrrelevant
  <2> DEFINE e == <<"CR", "LF">>
  <2> SUFFICES ASSUME TypeInv, parts # <<>>
               PROVE  HandledLines(Payload(Relayed(Head(parts), e)))
                        = HandledLines(Payload(Head(parts)))
    BY DEF LineEndingsIrrelevant, Relayed
  <2>0. e \in Endings
    BY DEF Endings
  <2> HIDE DEF e
  <2>1. Head(parts) \in Parts
    <3>1. parts \in Seq(Parts)
      BY DEF TypeInv
    <3> HIDE DEF Parts
    <3> QED
      BY <3>1
  <2> QED
    BY <1>1, <2>0, <2>1
<1> QED
  BY <1>2, SpecTypeInv, PTL

----------------------------------------------------------------------------
(* Words *)

Vis == Chars \ Blank

WordStates == [words : Seq(Seq(Vis)), word : Seq(Vis)]
WordStart == [words |-> <<>>, word |-> <<>>]
WordG == [x \in WordStates \X Chars |-> WordTurn(x[1], x[2])]

LEMMA ConcatAppend ==
  ASSUME NEW A, NEW x \in Seq(A), NEW y \in Seq(A), NEW c \in A
  PROVE  x \o Append(y, c) = Append(x \o y, c)
  OBVIOUS

LEMMA WithWordType ==
  ASSUME NEW a \in WordStates
  PROVE  WithWord(a) \in Seq(Seq(Vis))
<1> DEFINE V == Seq(Vis)
<1>1. a.words \in Seq(V) /\ a.word \in V
  BY DEF WordStates
<1> HIDE DEF V
<1>2. Append(a.words, a.word) \in Seq(V)
  BY <1>1
<1>3. WithWord(a) \in Seq(V)
  BY <1>1, <1>2 DEF WithWord
<1> QED
  BY <1>3 DEF V

LEMMA WordTurnType ==
  ASSUME NEW a \in WordStates, NEW c \in Chars
  PROVE  WordTurn(a, c) \in WordStates
<1> DEFINE V == Vis
<1>1. a.words \in Seq(Seq(V)) /\ a.word \in Seq(V)
  BY DEF WordStates
<1>2. Visible(c) => c \in V
  BY DEF Visible, isPySpace, Vis
<1>3. WithWord(a) \in Seq(Seq(V))
  BY WithWordType
<1> HIDE DEF V
<1> DEFINE longer == Append(a.word, c)
           words == WithWord(a)
<1>4. Visible(c) => longer \in Seq(V)
  BY <1>1, <1>2
<1> HIDE DEF longer, words
<1>5. Visible(c) => [a EXCEPT !.word = longer] \in WordStates
  BY <1>4 DEF WordStates, V
<1>6. [words |-> words, word |-> <<>>] \in WordStates
  <2>1. <<>> \in Seq(V)
    OBVIOUS
  <2> QED
    BY <1>3, <2>1 DEF WordStates, V, words
<1> QED
  BY <1>5, <1>6 DEF WordTurn, longer, words

LEMMA WordTrace ==
  ASSUME NEW s \in Seq(Chars)
  PROVE  /\ WordG \in [WordStates \X Chars -> WordStates]
         /\ Ends(WordStates, WordG, WordStart, s, WordLoop(s))
<1> DEFINE St == WordStates
           A == Chars
           q == s
           b == WordStart
           G == WordG
           Turn(a, c) == WordTurn(a, c)
           Eq(h) == h = [T \in SUBSET (DOMAIN q) |->
                           IF T = {} THEN b ELSE Turn(h[T \ {Max(T)}], q[Max(T)])]
           f == CHOOSE h : Eq(h)
<1>1. WordLoop(s) = f[DOMAIN q]
  BY DEF WordLoop, FoldLeft, MapThenFoldSet, WordStart
<1>2. \A a \in St, c \in A : Turn(a, c) \in St /\ G[<<a, c>>] = Turn(a, c)
  BY WordTurnType DEF WordG
<1>3. G \in [St \X A -> St]
  BY WordTurnType DEF WordG
<1>4. b \in St /\ q \in Seq(A) /\ DOMAIN q = 1 .. Len(q) /\ Len(q) \in Nat
  BY DEF WordStates, WordStart
<1> HIDE DEF Turn, G, St, b, A, q
<1>5. PICK g \in [SUBSET (1 .. Len(q)) -> St] : Iter(G, b, q, 1 .. Len(q), g)
  BY <1>3, <1>4, IterExists
<1>6. ASSUME NEW T \in SUBSET (1 .. Len(q)), T # {}
      PROVE  T \ {Max(T)} \in SUBSET (1 .. Len(q)) /\ q[Max(T)] \in A
  <2>1. Max(T) \in 1 .. Len(q)
    BY <1>4, <1>6, MaxOfRange
  <2> QED
    BY <1>4, <2>1, ElementOfSeq
<1>7. Eq(g)
  <2>1. ASSUME NEW T \in SUBSET (1 .. Len(q)), T # {}
        PROVE  G[<<g[T \ {Max(T)}], q[Max(T)]>>] = Turn(g[T \ {Max(T)}], q[Max(T)])
    BY <1>2, <1>6, <2>1
  <2> QED
    BY <1>4, <1>5, <2>1 DEF Iter
<1>8. Eq(f)
  <2> HIDE DEF Eq
  <2> QED
    BY <1>7
<1>9. Solves(St, G, b, q, f)
  <2> HIDE DEF f
  <2>1. f[{}] = b
    BY <1>8
  <2>2. ASSUME NEW T \in SUBSET (1 .. Len(q)), T # {}, f[T \ {Max(T)}] \in St
        PROVE  f[T] = G[<<f[T \ {Max(T)}], q[Max(T)]>>]
    <3>1. f[T] = Turn(f[T \ {Max(T)}], q[Max(T)])
      BY <1>4, <1>8, <2>2
    <3> QED
      BY <1>2, <1>6, <2>2, <3>1
  <2> QED
    BY <2>1, <2>2 DEF Solves
<1>10. Ends(St, G, b, q, f[1 .. Len(q)])
  <2> HIDE DEF f
  <2> QED
    BY <1>3, <1>4, <1>9, IterTrace
<1> HIDE DEF f
<1>11. G \in [St \X A -> St] /\ Ends(St, G, b, q, WordLoop(s))
  BY <1>1, <1>3, <1>4, <1>10
<1> QED
  BY <1>11 DEF St, G, A, q, b

LEMMA WordFacts ==
  /\ WordLoop(<<>>) = WordStart
  /\ \A s \in Seq(Chars) : WordLoop(s) \in WordStates
  /\ \A s \in Seq(Chars), c \in Chars : WordLoop(Append(s, c)) = WordTurn(WordLoop(s), c)
<1>1. \A s \in Seq(Chars) : Ends(WordStates, WordG, WordStart, s, WordLoop(s))
  BY WordTrace
<1>2. WordLoop(<<>>) = WordStart
  <2>1. <<>> \in Seq(Chars)
    OBVIOUS
  <2> QED
    BY <1>1, <2>1, EndsEmpty
<1>3. \A s \in Seq(Chars) : WordLoop(s) \in WordStates
  BY <1>1, EndsType
<1>4. ASSUME NEW s \in Seq(Chars), NEW c \in Chars
      PROVE  WordLoop(Append(s, c)) = WordTurn(WordLoop(s), c)
  <2>1. Append(s, c) \in Seq(Chars)
    OBVIOUS
  <2>2. WordLoop(Append(s, c)) = WordG[<<WordLoop(s), c>>]
    <3>1. Ends(WordStates, WordG, WordStart, s, WordLoop(s))
      BY <1>1
    <3>2. Ends(WordStates, WordG, WordStart, Append(s, c), WordLoop(Append(s, c)))
      BY <1>1, <2>1
    <3> QED
      BY <3>1, <3>2, EndsSnoc
  <2>3. WordLoop(s) \in WordStates
    BY <1>3
  <2> QED
    BY <2>2, <2>3 DEF WordG
<1> QED
  BY <1>2, <1>3, <1>4

LEMMA TokensType ==
  ASSUME NEW s \in Seq(Chars)
  PROVE  Tokens(s) \in Seq(Seq(Vis))
  BY WordFacts, WithWordType DEF Tokens

LEMMA VisFacts ==
  /\ Vis \subseteq Chars /\ Blank \subseteq Chars
  /\ \A c \in Vis : Visible(c)
  /\ \A c \in Blank : ~Visible(c)
  /\ \A c \in Chars : c \in Vis \/ c \in Blank
  BY CharNames DEF Vis, Visible, isPySpace

LEMMA WordsBlank ==
  ASSUME NEW s \in Seq(Chars), NEW b \in Blank
  PROVE  WordLoop(Append(s, b)) = [words |-> Tokens(s), word |-> <<>>]
<1>1. b \in Chars /\ ~Visible(b)
  BY VisFacts
<1>2. WordLoop(Append(s, b)) = WordTurn(WordLoop(s), b)
  BY <1>1, WordFacts
<1> QED
  BY <1>1, <1>2 DEF WordTurn, Tokens

LEMMA WordsVisible ==
  ASSUME NEW t \in Seq(Vis)
  PROVE  /\ WordLoop(t) = [words |-> <<>>, word |-> t]
         /\ Tokens(t) = IF t = <<>> THEN <<>> ELSE <<t>>
<1> DEFINE V == Vis
           Cs == Chars
           L(x) == WordLoop(x)
           S == {x \in Seq(V) : L(x) = [words |-> <<>>, word |-> x]}
<1>1. V \subseteq Cs /\ \A c \in V : Visible(c)
  BY VisFacts
<1>2. L(<<>>) = WordStart /\ \A x \in Seq(Cs), c \in Cs : L(Append(x, c)) = WordTurn(L(x), c)
  BY WordFacts
<1> HIDE DEF V, Cs, L
<1>3. <<>> \in S
  BY <1>2 DEF WordStart
<1>4. ASSUME NEW x \in Seq(V), x \in S, NEW c \in V PROVE Append(x, c) \in S
  <2>1. x \in Seq(Cs) /\ c \in Cs /\ Visible(c) /\ Append(x, c) \in Seq(V)
    BY <1>1, SeqMonotonic
  <2>2. L(Append(x, c)) = WordTurn(L(x), c)
    BY <1>2, <2>1
  <2>3. L(x) = [words |-> <<>>, word |-> x]
    BY <1>4
  <2>4. WordTurn(L(x), c) = [words |-> <<>>, word |-> Append(x, c)]
    BY <2>1, <2>3 DEF WordTurn
  <2> QED
    BY <2>1, <2>2, <2>4
<1>5. Seq(V) \subseteq S
  <2> HIDE DEF S
  <2> QED
    BY <1>3, <1>4, SeqInduct
<1>6. WordLoop(t) = [words |-> <<>>, word |-> t]
  BY <1>5 DEF V, L
<1>7. Tokens(t) = IF t = <<>> THEN <<>> ELSE Append(<<>>, t)
  BY <1>6 DEF Tokens, WithWord
<1>8. Append(<<>>, t) = <<t>>
  OBVIOUS
<1> QED
  BY <1>6, <1>7, <1>8

\* The words of x are those of y after the words us.
Follows(x, us, y) == x.words = us \o y.words /\ x.word = y.word

LEMMA WithWordFollows ==
  ASSUME NEW us \in Seq(Seq(Vis)), NEW x \in WordStates, NEW y \in WordStates, Follows(x, us, y)
  PROVE  WithWord(x) = us \o WithWord(y)
<1> DEFINE V == Seq(Vis)
<1>1. x.words = us \o y.words /\ x.word = y.word
  BY DEF Follows
<1>2. us \in Seq(V) /\ y.words \in Seq(V) /\ y.word \in V
  BY DEF WordStates
<1> HIDE DEF V
<1>3. CASE y.word = <<>>
  BY <1>1, <1>3 DEF WithWord
<1>4. CASE y.word # <<>>
  <2>1. \A z \in Seq(V), d \in V : us \o Append(z, d) = Append(us \o z, d)
    BY <1>2, ConcatAppend
  <2>2. us \o Append(y.words, y.word) = Append(us \o y.words, y.word)
    BY <1>2, <2>1
  <2> QED
    BY <1>1, <1>4, <2>2 DEF WithWord
<1> QED
  BY <1>3, <1>4

LEMMA WordTurnFollows ==
  ASSUME NEW us \in Seq(Seq(Vis)), NEW x \in WordStates, NEW y \in WordStates, Follows(x, us, y),
         NEW c \in Chars
  PROVE  Follows(WordTurn(x, c), us, WordTurn(y, c))
<1>1. CASE Visible(c)
  <2>1. WordTurn(x, c) = [x EXCEPT !.word = Append(x.word, c)]
        /\ WordTurn(y, c) = [y EXCEPT !.word = Append(y.word, c)]
    BY <1>1 DEF WordTurn
  <2>2. WordTurn(x, c).words = x.words /\ WordTurn(x, c).word = Append(x.word, c)
        /\ WordTurn(y, c).words = y.words /\ WordTurn(y, c).word = Append(y.word, c)
    BY <2>1 DEF WordStates
  <2> QED
    BY <2>2 DEF Follows
<1>2. CASE ~Visible(c)
  <2>1. WordTurn(x, c) = [words |-> WithWord(x), word |-> <<>>]
        /\ WordTurn(y, c) = [words |-> WithWord(y), word |-> <<>>]
    BY <1>2 DEF WordTurn
  <2>2. WithWord(x) = us \o WithWord(y)
    BY WithWordFollows
  <2> QED
    BY <2>1, <2>2 DEF Follows
<1> QED
  BY <1>1, <1>2

\* After a word has ended, the rest of the text adds its words.
LEMMA WordsAfter ==
  ASSUME NEW u \in Seq(Chars), NEW v \in Seq(Chars), WordLoop(u).word = <<>>
  PROVE  Follows(WordLoop(u \o v), WordLoop(u).words, WordLoop(v))
<1> DEFINE Cs == Chars
           St == WordStates
           L(x) == WordLoop(x)
           us == L(u).words
           S == {x \in Seq(Cs) : Follows(L(u \o x), us, L(x))}
<1>1. /\ L(<<>>) = WordStart
      /\ \A x \in Seq(Cs) : L(x) \in St
      /\ \A x \in Seq(Cs), c \in Cs : L(Append(x, c)) = WordTurn(L(x), c)
  BY WordFacts
<1>2. u \in Seq(Cs) /\ v \in Seq(Cs) /\ L(u).word = <<>>
  OBVIOUS
<1>3. us \in Seq(Seq(Vis))
  BY <1>1, <1>2 DEF WordStates
<1>4. \A x \in St, y \in St, c \in Cs :
        Follows(x, us, y) => Follows(WordTurn(x, c), us, WordTurn(y, c))
  <2> HIDE DEF us
  <2> QED
    BY <1>3, WordTurnFollows
<1> HIDE DEF Cs, St, L, us
<1>5. <<>> \in S
  <2>1. L(<<>>).words = <<>> /\ L(<<>>).word = <<>>
    BY <1>1 DEF WordStart
  <2>2. u \o <<>> = u /\ us \o <<>> = us /\ <<>> \in Seq(Cs)
    BY <1>2, <1>3
  <2> QED
    BY <1>2, <2>1, <2>2 DEF us, Follows
<1>6. ASSUME NEW x \in Seq(Cs), x \in S, NEW c \in Cs PROVE Append(x, c) \in S
  <2>1. u \o x \in Seq(Cs) /\ u \o Append(x, c) = Append(u \o x, c) /\ Append(x, c) \in Seq(Cs)
    BY <1>2
  <2>2. L(u \o x) \in St /\ L(x) \in St /\ L(u \o Append(x, c)) = WordTurn(L(u \o x), c)
        /\ L(Append(x, c)) = WordTurn(L(x), c)
    BY <1>1, <2>1
  <2>3. Follows(L(u \o x), us, L(x))
    BY <1>6
  <2>4. Follows(WordTurn(L(u \o x), c), us, WordTurn(L(x), c))
    BY <1>4, <2>2, <2>3
  <2> QED
    BY <2>1, <2>2, <2>4
<1>7. Seq(Cs) \subseteq S
  <2> HIDE DEF S
  <2> QED
    BY <1>5, <1>6, SeqInduct
<1> QED
  BY <1>2, <1>7 DEF L, us

LEMMA TokensAfter ==
  ASSUME NEW u \in Seq(Chars), NEW v \in Seq(Chars), WordLoop(u).word = <<>>
  PROVE  Tokens(u \o v) = WordLoop(u).words \o Tokens(v)
<1>1. u \o v \in Seq(Chars)
  BY ConcatProperties
<1>2. /\ WordLoop(u) \in WordStates /\ WordLoop(v) \in WordStates
      /\ WordLoop(u \o v) \in WordStates
  BY <1>1, WordFacts
<1>3. WordLoop(u).words \in Seq(Seq(Vis))
  BY <1>2 DEF WordStates
<1>4. Follows(WordLoop(u \o v), WordLoop(u).words, WordLoop(v))
  BY WordsAfter
<1> QED
  BY <1>2, <1>3, <1>4, WithWordFollows DEF Tokens

\* A blank parts words.
LEMMA TokensParted ==
  ASSUME NEW x \in Seq(Chars), NEW b \in Blank, NEW y \in Seq(Chars)
  PROVE  Tokens(x \o <<b>> \o y) = Tokens(x) \o Tokens(y)
<1> DEFINE u == Append(x, b)
           Cs == Chars
<1>1. WordLoop(u) = [words |-> Tokens(x), word |-> <<>>]
  BY WordsBlank
<1>2. b \in Cs
  BY VisFacts
<1> HIDE DEF Cs
<1>3. u \in Seq(Cs) /\ x \o <<b>> = u
  BY <1>2 DEF Cs
<1> HIDE DEF u
<1>4. WordLoop(u).word = <<>> /\ WordLoop(u).words = Tokens(x)
  BY <1>1
<1>5. Tokens(u \o y) = WordLoop(u).words \o Tokens(y)
  BY <1>3, <1>4, TokensAfter DEF Cs
<1> QED
  BY <1>3, <1>4, <1>5

\* Blanks around a text are no words.
LEMMA BlankWords ==
  ASSUME NEW x \in Seq(Blank)
  PROVE  /\ x \in Seq(Chars)
         /\ WordLoop(x) = WordStart
         /\ \A s \in Seq(Chars) : Tokens(s \o x) = Tokens(s)
<1> DEFINE B == Blank
           Cs == Chars
           L(z) == WordLoop(z)
           S == {z \in Seq(B) : L(z) = WordStart}
<1>1. B \subseteq Cs
  BY VisFacts
<1>2. \A z \in Seq(Cs), c \in B : L(Append(z, c)) = [words |-> Tokens(z), word |-> <<>>]
  BY WordsBlank
<1>3. L(<<>>) = WordStart /\ \A z \in Seq(Cs) : L(z) \in WordStates
  BY WordFacts
<1>4. \A z : Tokens(z) = IF L(z).word = <<>> THEN L(z).words ELSE Append(L(z).words, L(z).word)
  BY DEF Tokens, WithWord
<1>a. x \in Seq(B)
  OBVIOUS
<1> HIDE DEF B, Cs, L
<1>b. \A z \in Seq(B) : z \in Seq(Cs)
  BY <1>1, SeqMonotonic
<1>5. <<>> \in S
  BY <1>3
<1>6. ASSUME NEW z \in Seq(B), z \in S, NEW c \in B PROVE Append(z, c) \in S
  <2>1. Tokens(z) = <<>>
    BY <1>4, <1>6 DEF WordStart
  <2>2. L(Append(z, c)) = [words |-> Tokens(z), word |-> <<>>] /\ Append(z, c) \in Seq(B)
    BY <1>2, <1>b
  <2> QED
    BY <2>1, <2>2 DEF WordStart
<1>7. Seq(B) \subseteq S
  <2> HIDE DEF S
  <2> QED
    BY <1>5, <1>6, SeqInduct
<1>8. ASSUME NEW s \in Seq(Cs) PROVE Tokens(s \o x) = Tokens(s)
  <2> DEFINE T == {z \in Seq(B) : Tokens(s \o z) = Tokens(s)}
  <2>1. <<>> \in T
    OBVIOUS
  <2>2. ASSUME NEW z \in Seq(B), z \in T, NEW c \in B PROVE Append(z, c) \in T
    <3>1. z \in Seq(Cs) /\ c \in Cs /\ Append(z, c) \in Seq(B)
      BY <1>1, <1>b
    <3>2. s \o Append(z, c) = Append(s \o z, c) /\ s \o z \in Seq(Cs)
      BY <3>1
    <3>3. L(Append(s \o z, c)) = [words |-> Tokens(s \o z), word |-> <<>>]
      BY <1>2, <3>2
    <3>4. Tokens(Append(s \o z, c)) = Tokens(s \o z)
      BY <1>4, <3>3
    <3> QED
      BY <2>2, <3>1, <3>2, <3>4
  <2>3. Seq(B) \subseteq T
    <3> HIDE DEF T
    <3> QED
      BY <2>1, <2>2, SeqInduct
  <2> QED
    BY <1>a, <2>3
<1> QED
  BY <1>a, <1>b, <1>7, <1>8 DEF Cs, L

LEMMA TrimWords ==
  ASSUME NEW s \in Seq(Chars)
  PROVE  Tokens(TrimSpace(s)) = Tokens(s)
<1> DEFINE t == TrimSpace(s)
           Cs == Chars
<1>1. PICK x \in Seq(Blank), y \in Seq(Blank) : s = x \o t \o y
  <2>1. PICK x \in Seq(Trimmable), y \in Seq(Trimmable) : s = x \o t \o y
    BY TrimSplit, Zenon
  <2>2. x \in Seq(Blank) /\ y \in Seq(Blank)
    <3> DEFINE B == Blank
               T == Trimmable
    <3>1. T \subseteq B
      BY TrimmableFacts
    <3> HIDE DEF B, T
    <3> QED
      BY <3>1, SeqMonotonic DEF B, T
  <2> QED
    BY <2>1, <2>2, Zenon
<1>2. t \in Seq(Cs)
  BY TrimSpaceType
<1>3. x \in Seq(Cs) /\ WordLoop(x) = WordStart /\ y \in Seq(Cs)
  BY BlankWords
<1>4. \A z \in Seq(Cs) : Tokens(z \o y) = Tokens(z)
  BY BlankWords
<1> HIDE DEF t
<1>5. Tokens(x \o t) = WordLoop(x).words \o Tokens(t)
  <2>1. WordLoop(x).word = <<>>
    BY <1>3 DEF WordStart
  <2> QED
    BY <1>2, <1>3, <2>1, TokensAfter
<1>6. WordLoop(x).words \o Tokens(t) = Tokens(t)
  <2> DEFINE V == Seq(Vis)
  <2>1. Tokens(t) \in Seq(V)
    BY <1>2, TokensType
  <2> HIDE DEF V
  <2>2. WordLoop(x).words = <<>>
    BY <1>3 DEF WordStart
  <2> QED
    BY <2>1, <2>2
<1> HIDE DEF Cs
<1>7. x \o t \in Seq(Cs)
  BY <1>2, <1>3
<1> QED
  BY <1>1, <1>4, <1>5, <1>6, <1>7 DEF t

\* What holds of a text without blanks, and of x, a blank and such a text if it
\* holds of x, holds of every text.
LEMMA WordInduct ==
  ASSUME NEW S, Seq(Vis) \subseteq S,
         \A x \in Seq(Chars), b \in Blank, t \in Seq(Vis) : x \in S => x \o <<b>> \o t \in S
  PROVE  Seq(Chars) \subseteq S
<1> DEFINE Cs == Chars
           V == Vis
           B == Blank
           Parted(w) == \E x \in Seq(Cs), b \in B, t \in Seq(V) : x \in S /\ w = x \o <<b>> \o t
           T == {w \in Seq(Cs) : w \in Seq(V) \/ Parted(w)}
<1>1. V \subseteq Cs /\ B \subseteq Cs /\ \A c \in Cs : c \in V \/ c \in B
  BY VisFacts
<1>2. \A x \in Seq(Cs), b \in B, t \in Seq(V) : x \in S => x \o <<b>> \o t \in S
  OBVIOUS
<1>3. Seq(V) \subseteq S
  OBVIOUS
<1> HIDE DEF Cs, V, B
<1>4. <<>> \in T
  OBVIOUS
<1>5. ASSUME NEW w \in Seq(Cs), w \in T, NEW c \in Cs PROVE Append(w, c) \in T
  <2>0. Append(w, c) \in Seq(Cs)
    OBVIOUS
  <2>1. w \in S
    BY <1>2, <1>3, <1>5
  <2>2. CASE c \in B
    <3>1. Append(w, c) = w \o <<c>> \o <<>> /\ <<>> \in Seq(V)
      OBVIOUS
    <3>2. Parted(Append(w, c))
      BY <2>1, <2>2, <3>1, Zenon
    <3> HIDE DEF Parted
    <3> QED
      BY <2>0, <3>2
  <2>3. CASE c \in V
    <3>1. CASE w \in Seq(V)
      <4>1. Append(w, c) \in Seq(V)
        BY <2>3, <3>1
      <4> HIDE DEF Parted
      <4> QED
        BY <2>0, <4>1
    <3>2. CASE Parted(w)
      <4>1. PICK x \in Seq(Cs), b \in B, t \in Seq(V) : x \in S /\ w = x \o <<b>> \o t
        BY <3>2
      <4>2. t \in Seq(Cs) /\ b \in Cs
        BY <1>1, SeqMonotonic
      <4>3. Append(t, c) \in Seq(V)
        BY <2>3
      <4>4. x \o <<b>> \o Append(t, c) = Append(x \o <<b>> \o t, c)
        <5> DEFINE u == x \o <<b>>
        <5>1. u \in Seq(Cs)
          BY <4>2
        <5> HIDE DEF u
        <5>2. u \o Append(t, c) = Append(u \o t, c)
          BY <4>2, <5>1
        <5> QED
          BY <5>2 DEF u
      <4>5. Parted(Append(w, c))
        BY <4>1, <4>3, <4>4, Zenon
      <4> HIDE DEF Parted
      <4> QED
        BY <2>0, <4>5
    <3> HIDE DEF Parted
    <3> QED
      BY <1>5, <3>1, <3>2
  <2> QED
    BY <1>1, <2>2, <2>3
<1>6. Seq(Cs) \subseteq T
  <2> HIDE DEF T
  <2> QED
    BY <1>4, <1>5, SeqInduct
<1>7. T \subseteq S
  BY <1>2, <1>3
<1> QED
  BY <1>6, <1>7 DEF Cs

----------------------------------------------------------------------------
(* The words of an HTML part *)

Seen(a) == IF a.collect THEN a.tok ELSE <<>>

LEMMA NoWords == WordLoop(<<>>) = WordStart /\ Tokens(<<>>) = <<>>
<1>1. WordLoop(<<>>) = WordStart
  BY WordFacts
<1> QED
  BY <1>1 DEF Tokens, WithWord, WordStart

LEMMA WithTokenWords ==
  ASSUME NEW a \in TokenStates
  PROVE  Tokens(WithToken(a)) = Tokens(a.out) \o Tokens(Seen(a))
<1> DEFINE t == TrimSpace(a.tok)
           o == a.out
           V == Seq(Vis)
           sp == " "
<1>1. a.tok \in Seq(Chars) /\ o \in Seq(Chars)
  BY DEF TokenStates
<1>2. Tokens(t) = Tokens(a.tok) /\ t \in Seq(Chars)
  BY <1>1, TrimWords, TrimSpaceType
<1>3. Tokens(o) \in Seq(V) /\ Tokens(a.tok) \in Seq(V)
  BY <1>1, TokensType
<1>4. WithToken(a) = IF a.collect /\ t # <<>>
                     THEN o \o (IF o = <<>> THEN <<>> ELSE <<sp>>) \o t ELSE o
  BY DEF WithToken
<1>5. sp \in Blank
  BY DEF Blank
<1> HIDE DEF t, o, V, sp
<1>6. Tokens(o) \o <<>> = Tokens(o) /\ <<>> \o Tokens(a.tok) = Tokens(a.tok)
  BY <1>3
<1>7. CASE ~a.collect
  BY <1>4, <1>6, <1>7, NoWords DEF Seen, o
<1>8. CASE a.collect /\ t = <<>>
  BY <1>2, <1>4, <1>6, <1>8, NoWords DEF Seen, o
<1>9. CASE a.collect /\ t # <<>> /\ o = <<>>
  <2>1. <<>> \o <<>> \o t = t
    BY <1>2
  <2>2. Tokens(WithToken(a)) = Tokens(t)
    BY <1>4, <1>9, <2>1
  <2> QED
    BY <1>2, <1>6, <1>9, <2>2, NoWords DEF Seen, o
<1>10. CASE a.collect /\ t # <<>> /\ o # <<>>
  <2>1. Tokens(o \o <<sp>> \o t) = Tokens(o) \o Tokens(t)
    BY <1>1, <1>2, <1>5, TokensParted
  <2>2. WithToken(a) = o \o <<sp>> \o t
    BY <1>4, <1>10
  <2> QED
    BY <1>2, <1>10, <2>1, <2>2 DEF Seen, o
<1> QED
  BY <1>7, <1>8, <1>9, <1>10

\* The tags that start or end a script or style, up to position i.
Marks(s, i) == {j \in 1 .. i : s[j] \in {"<s>", "</s>"}}
HiddenAt(s, i) == Marks(s, i) # {} /\ s[Max(Marks(s, i))] = "<s>"
Shade(s, i) == IF s[i] \in Tags \/ HiddenAt(s, i) THEN " " ELSE s[i]

LEMMA BlankedDef ==
  ASSUME NEW s
  PROVE  Blanked(s) = [i \in DOMAIN s |-> Shade(s, i)]
  BY DEF Blanked, Shade, HiddenAt, Marks

\* What comes later does not change what is hidden.
LEMMA HiddenBefore ==
  ASSUME NEW s \in Seq(Chars), NEW c \in Chars, NEW i \in 0 .. Len(s)
  PROVE  HiddenAt(Append(s, c), i) <=> HiddenAt(s, i)
<1> DEFINE m == Marks(s, i)
<1>1. Len(s) \in Nat /\ \A j \in 1 .. Len(s) : Append(s, c)[j] = s[j]
  OBVIOUS
<1>2. Marks(Append(s, c), i) = m
  BY <1>1 DEF Marks
<1>3. m \in SUBSET (1 .. i) /\ i \in Nat
  BY <1>1 DEF Marks
<1>4. m # {} => Max(m) \in 1 .. i
  <2> HIDE DEF m
  <2> QED
    BY <1>3, MaxOfRange
<1> HIDE DEF m
<1>5. m # {} => Append(s, c)[Max(m)] = s[Max(m)]
  BY <1>1, <1>4
<1> QED
  BY <1>2, <1>5 DEF HiddenAt, m

\* A script or style ends the sight of the text, its end tag starts it again.
LEMMA HiddenNext ==
  ASSUME NEW s \in Seq(Chars), NEW c \in Chars
  PROVE  HiddenAt(Append(s, c), Len(s) + 1) <=>
           IF c \in {"<s>", "</s>"} THEN c = "<s>" ELSE HiddenAt(s, Len(s))
<1> DEFINE q == Append(s, c)
           n == Len(s)
           m == Marks(q, n + 1)
<1>1. n \in Nat /\ q[n + 1] = c
  OBVIOUS
<1>2. m \in SUBSET (1 .. n + 1) /\ n + 1 \in Nat
  BY <1>1 DEF Marks
<1>3. CASE c \in {"<s>", "</s>"}
  <2>1. n + 1 \in m
    BY <1>1, <1>3 DEF Marks
  <2>2. m # {} /\ Max(m) \in m /\ n + 1 <= Max(m)
    <3> HIDE DEF m
    <3> QED
      BY <1>2, <2>1, MaxOfRange
  <2>3. Max(m) = n + 1
    <3> DEFINE k == Max(m)
    <3>1. k \in 1 .. n + 1 /\ n + 1 <= k
      BY <1>2, <2>2
    <3> HIDE DEF k
    <3>2. k = n + 1
      BY <1>1, <3>1
    <3> QED
      BY <3>2 DEF k
  <2>4. HiddenAt(q, n + 1) <=> c = "<s>"
    BY <1>1, <2>2, <2>3 DEF HiddenAt
  <2> QED
    BY <1>3, <2>4
<1>4. CASE c \notin {"<s>", "</s>"}
  <2>1. m = Marks(q, n)
    BY <1>1, <1>4 DEF Marks
  <2>2. HiddenAt(q, n + 1) <=> HiddenAt(q, n)
    BY <2>1 DEF HiddenAt
  <2>3. HiddenAt(q, n) <=> HiddenAt(s, n)
    <3>1. n \in 0 .. Len(s)
      BY <1>1
    <3> QED
      BY <3>1, HiddenBefore
  <2> QED
    BY <1>4, <2>2, <2>3
<1> QED
  BY <1>3, <1>4

LEMMA BlankedFacts ==
  /\ Blanked(<<>>) = <<>>
  /\ \A s \in Seq(Chars) : Blanked(s) \in Seq(Chars)
  /\ \A s \in Seq(Chars), c \in Chars :
       Blanked(Append(s, c)) =
         Append(Blanked(s), IF c \in Tags \/ HiddenAt(s, Len(s)) THEN " " ELSE c)
<1>1. Blanked(<<>>) = <<>>
  BY BlankedDef
<1>2. ASSUME NEW s \in Seq(Chars) PROVE Blanked(s) \in Seq(Chars)
  <2>1. Len(s) \in Nat /\ DOMAIN s = 1 .. Len(s) /\ \A i \in 1 .. Len(s) : s[i] \in Chars
    OBVIOUS
  <2>2. \A i \in 1 .. Len(s) : Shade(s, i) \in Chars
    BY <2>1, CharNames DEF Shade
  <2> QED
    BY <2>1, <2>2, BlankedDef
<1>3. ASSUME NEW s \in Seq(Chars), NEW c \in Chars
      PROVE  Blanked(Append(s, c)) =
               Append(Blanked(s), IF c \in Tags \/ HiddenAt(s, Len(s)) THEN " " ELSE c)
  <2> DEFINE Cs == Chars
             q == Append(s, c)
             n == Len(s)
             d == IF c \in Tags \/ HiddenAt(s, n) THEN " " ELSE c
             l == Blanked(q)
             b == Blanked(s)
             r == Append(b, d)
  <2>1. n \in Nat /\ q \in Seq(Cs) /\ Len(q) = n + 1 /\ DOMAIN q = 1 .. n + 1 /\ DOMAIN s = 1 .. n
        /\ q[n + 1] = c /\ \A i \in 1 .. n : q[i] = s[i]
    OBVIOUS
  <2>2. d \in Cs
    BY CharNames
  <2>3. b \in Seq(Cs) /\ Len(b) = n /\ \A i \in 1 .. n : b[i] = Shade(s, i)
    <3>1. b = [i \in 1 .. n |-> Shade(s, i)]
      BY <2>1, BlankedDef
    <3>2. b \in Seq(Cs)
      BY <1>2
    <3> HIDE DEF b, Cs
    <3> QED
      BY <2>1, <3>1, <3>2
  <2>4. l \in Seq(Cs) /\ Len(l) = n + 1 /\ \A i \in 1 .. n + 1 : l[i] = Shade(q, i)
    <3>1. l = [i \in 1 .. n + 1 |-> Shade(q, i)]
      BY <2>1, BlankedDef
    <3>2. l \in Seq(Cs)
      BY <1>2, <2>1
    <3> HIDE DEF l, q, Cs
    <3> QED
      BY <2>1, <3>1, <3>2
  <2>5. \A i \in 1 .. n : Shade(q, i) = Shade(s, i)
    <3> TAKE i \in 1 .. n
    <3>1. i \in 0 .. Len(s)
      BY <2>1
    <3>2. HiddenAt(q, i) <=> HiddenAt(s, i)
      BY <3>1, HiddenBefore
    <3> QED
      BY <2>1, <3>2 DEF Shade
  <2>6. Shade(q, n + 1) = d
    <3>1. HiddenAt(q, n + 1) <=> IF c \in {"<s>", "</s>"} THEN c = "<s>" ELSE HiddenAt(s, n)
      BY HiddenNext
    <3>2. c \in {"<s>", "</s>"} => c \in Tags
      BY DEF Tags
    <3> QED
      BY <2>1, <3>1, <3>2 DEF Shade
  <2> HIDE DEF Cs, q, n, d, l, b
  <2>7. r \in Seq(Cs) /\ Len(r) = n + 1 /\ r[n + 1] = d /\ \A i \in 1 .. n : r[i] = b[i]
    BY <2>1, <2>2, <2>3
  <2> HIDE DEF r
  <2>8. \A i \in 1 .. n + 1 : l[i] = r[i]
    <3> TAKE i \in 1 .. n + 1
    <3>1. CASE i = n + 1
      BY <2>4, <2>6, <2>7, <3>1
    <3>2. CASE i # n + 1
      <4>1. i \in 1 .. n
        BY <2>1, <3>2
      <4> QED
        BY <2>3, <2>4, <2>5, <2>7, <4>1
    <3> QED
      BY <3>1, <3>2
  <2>9. l = r
    BY <2>1, <2>4, <2>7, <2>8, SeqEqual
  <2> QED
    BY <2>9 DEF l, r, q, b, d, n
<1> QED
  BY <1>1, <1>2, <1>3

\* The tokenizer loop collects text where Blanked hides none.
LEMMA CollectFacts ==
  ASSUME NEW s \in Seq(Chars)
  PROVE  TokenLoop(s).collect <=> ~HiddenAt(s, Len(s))
<1> DEFINE L(x) == TokenLoop(x)
           S == {x \in Seq(Chars) : L(x).collect <=> ~HiddenAt(x, Len(x))}
<1>1. /\ L(<<>>) = TokenStart
      /\ \A x \in Seq(Chars) : L(x) \in TokenStates
      /\ \A x \in Seq(Chars), c \in Chars : L(Append(x, c)) = TokenTurn(L(x), c)
  BY TokenFacts
<1> HIDE DEF L
<1>2. <<>> \in S
  <2>1. L(<<>>).collect
    BY <1>1 DEF TokenStart
  <2>2. Marks(<<>>, Len(<<>>)) = {}
    BY DEF Marks
  <2>3. ~HiddenAt(<<>>, Len(<<>>))
    BY <2>2 DEF HiddenAt
  <2> QED
    BY <2>1, <2>3
<1>3. ASSUME NEW x \in Seq(Chars), x \in S, NEW c \in Chars PROVE Append(x, c) \in S
  <2> DEFINE a == L(x)
  <2>1. Append(x, c) \in Seq(Chars) /\ Len(Append(x, c)) = Len(x) + 1
    OBVIOUS
  <2>2. a \in TokenStates /\ L(Append(x, c)) = TokenTurn(a, c)
    BY <1>1
  <2>3. a.collect <=> ~HiddenAt(x, Len(x))
    BY <1>3
  <2> HIDE DEF a
  <2>4. HiddenAt(Append(x, c), Len(x) + 1) <=>
          IF c \in {"<s>", "</s>"} THEN c = "<s>" ELSE HiddenAt(x, Len(x))
    BY HiddenNext
  <2>5. TokenTurn(a, c).collect = IF c \in Tags THEN collectAfter(c, a.collect) ELSE a.collect
    BY <2>2 DEF TokenTurn, TokenStates
  <2>6. a.collect \in BOOLEAN
    BY <2>2 DEF TokenStates
  <2>7. TokenTurn(a, c).collect <=> ~HiddenAt(Append(x, c), Len(x) + 1)
    <3>1. CASE c \in {"<s>", "</s>"}
      BY <2>4, <2>5, <3>1 DEF collectAfter, Tags
    <3>2. CASE c \notin {"<s>", "</s>"}
      BY <2>3, <2>4, <2>5, <3>2 DEF collectAfter, Tags
    <3> QED
      BY <3>1, <3>2
  <2> QED
    BY <2>1, <2>2, <2>7
<1>4. Seq(Chars) \subseteq S
  <2> HIDE DEF S
  <2> QED
    BY <1>2, <1>3, SeqInduct
<1> QED
  BY <1>4 DEF L

LEMMA BlankedWords ==
  ASSUME NEW s \in Seq(Chars)
  PROVE  Follows(WordLoop(Blanked(s)), Tokens(TokenLoop(s).out), WordLoop(Seen(TokenLoop(s))))
<1> DEFINE Cs == Chars
           L(x) == TokenLoop(x)
           B(x) == Blanked(x)
           Joined(x) == Follows(WordLoop(B(x)), Tokens(L(x).out), WordLoop(Seen(L(x))))
           S == {x \in Seq(Cs) : Joined(x)}
<1>1. /\ L(<<>>) = TokenStart
      /\ \A x \in Seq(Cs) : L(x) \in TokenStates
      /\ \A x \in Seq(Cs), c \in Cs : L(Append(x, c)) = TokenTurn(L(x), c)
  BY TokenFacts
<1>2. /\ B(<<>>) = <<>>
      /\ \A x \in Seq(Cs) : B(x) \in Seq(Cs)
      /\ \A x \in Seq(Cs), c \in Cs :
           B(Append(x, c)) = Append(B(x), IF c \in Tags \/ ~L(x).collect THEN " " ELSE c)
  BY BlankedFacts, CollectFacts
<1>3. \A a \in TokenStates : a.out \in Seq(Cs) /\ Seen(a) \in Seq(Cs)
  BY DEF TokenStates, Seen
<1>4. \A x \in Seq(Cs) : WordLoop(x) \in WordStates /\ Tokens(x) \in Seq(Seq(Vis))
  BY WordFacts, TokensType
<1>5. \A x \in Seq(Cs), c \in Cs : WordLoop(Append(x, c)) = WordTurn(WordLoop(x), c)
  BY WordFacts
<1>6. \A x \in Seq(Cs) : WordLoop(Append(x, " ")) = [words |-> Tokens(x), word |-> <<>>]
  <2>1. " " \in Blank
    BY DEF Blank
  <2> QED
    BY <2>1, WordsBlank
<1> HIDE DEF Cs, L, B
<1>7. <<>> \in S
  <2>1. L(<<>>).out = <<>> /\ Seen(L(<<>>)) = <<>>
    BY <1>1 DEF TokenStart, Seen
  <2>2. Follows(WordStart, <<>>, WordStart)
    BY DEF Follows, WordStart
  <2>3. Joined(<<>>)
    BY <1>2, <2>1, <2>2, NoWords
  <2> HIDE DEF Joined
  <2> QED
    BY <2>3
<1>8. ASSUME NEW x \in Seq(Cs), x \in S, NEW c \in Cs PROVE Append(x, c) \in S
  <2> DEFINE a == L(x)
             b == B(x)
             d == L(Append(x, c))
  <2>1. Append(x, c) \in Seq(Cs) /\ a \in TokenStates /\ b \in Seq(Cs) /\ d = TokenTurn(a, c)
    <3>1. Append(x, c) \in Seq(Cs)
      OBVIOUS
    <3> QED
      BY <1>1, <1>2, <3>1
  <2>2. Follows(WordLoop(b), Tokens(a.out), WordLoop(Seen(a)))
    BY <1>8
  <2>3. B(Append(x, c)) = Append(b, IF c \in Tags \/ ~a.collect THEN " " ELSE c)
    BY <1>2
  <2>4. a.out \in Seq(Cs) /\ Seen(a) \in Seq(Cs)
    BY <1>3, <2>1
  <2>5. /\ Tokens(a.out) \in Seq(Seq(Vis)) /\ Tokens(b) \in Seq(Seq(Vis))
        /\ WordLoop(b) \in WordStates /\ WordLoop(Seen(a)) \in WordStates
    BY <1>4, <2>1, <2>4
  <2>a. a = [out |-> a.out, tok |-> a.tok, collect |-> a.collect]
    BY <2>1 DEF TokenStates
  <2> HIDE DEF a, b, d
  <2>6. Tokens(b) = Tokens(a.out) \o Tokens(Seen(a))
    BY <2>2, <2>5, WithWordFollows DEF Tokens
  <2>7. Tokens(b) \o <<>> = Tokens(b)
    BY <2>5
  <2>8. Follows(WordLoop(B(Append(x, c))), Tokens(d.out), WordLoop(Seen(d)))
    <3>1. CASE c \in Tags
      <4>1. d = [out |-> WithToken(a), tok |-> <<>>, collect |-> collectAfter(c, a.collect)]
        BY <2>1, <3>1 DEF TokenTurn
      <4>2. d.out = WithToken(a) /\ Seen(d) = <<>>
        BY <4>1 DEF Seen
      <4>3. Tokens(d.out) = Tokens(b)
        BY <2>1, <2>6, <4>2, WithTokenWords
      <4>4. WordLoop(B(Append(x, c))) = [words |-> Tokens(b), word |-> <<>>]
        BY <1>6, <2>1, <2>3, <3>1
      <4> QED
        <5>1. WordLoop(Seen(d)).words = <<>> /\ WordLoop(Seen(d)).word = <<>>
          BY <4>2, NoWords DEF WordStart
        <5>2. WordLoop(B(Append(x, c))).words = Tokens(b) /\ WordLoop(B(Append(x, c))).word = <<>>
          BY <4>4
        <5> QED
          BY <2>7, <4>2, <4>3, <5>1, <5>2 DEF Follows
    <3>2. CASE c \notin Tags /\ a.collect
      <4>1. d = [out |-> a.out, tok |-> Append(a.tok, c), collect |-> a.collect]
        BY <2>1, <2>a, <3>2 DEF TokenTurn
      <4>2. d.out = a.out /\ Seen(d) = Append(Seen(a), c)
        BY <3>2, <4>1 DEF Seen
      <4>3. WordLoop(B(Append(x, c))) = WordTurn(WordLoop(b), c)
            /\ WordLoop(Seen(d)) = WordTurn(WordLoop(Seen(a)), c)
        BY <1>5, <2>1, <2>3, <2>4, <3>2, <4>2
      <4>4. Follows(WordTurn(WordLoop(b), c), Tokens(a.out), WordTurn(WordLoop(Seen(a)), c))
        BY <2>2, <2>5, WordTurnFollows DEF Cs
      <4> QED
        BY <4>2, <4>3, <4>4
    <3>3. CASE c \notin Tags /\ ~a.collect
      <4>1. d = [out |-> a.out, tok |-> Append(a.tok, c), collect |-> a.collect]
        BY <2>1, <2>a, <3>3 DEF TokenTurn
      <4>2. d.out = a.out /\ Seen(d) = <<>> /\ Seen(a) = <<>>
        BY <3>3, <4>1 DEF Seen
      <4>3. Tokens(b) = Tokens(a.out)
        <5>1. Tokens(a.out) \o <<>> = Tokens(a.out)
          BY <2>5
        <5> QED
          BY <2>6, <4>2, <5>1, NoWords
      <4>4. WordLoop(B(Append(x, c))) = [words |-> Tokens(b), word |-> <<>>]
        BY <1>6, <2>1, <2>3, <3>3
      <4> QED
        <5>1. WordLoop(Seen(d)).words = <<>> /\ WordLoop(Seen(d)).word = <<>>
          BY <4>2, NoWords DEF WordStart
        <5>2. WordLoop(B(Append(x, c))).words = Tokens(b) /\ WordLoop(B(Append(x, c))).word = <<>>
          BY <4>4
        <5> QED
          BY <2>7, <4>2, <4>3, <5>1, <5>2 DEF Follows
    <3> QED
      BY <3>1, <3>2, <3>3
  <2>9. Joined(Append(x, c))
    BY <2>8 DEF d
  <2> HIDE DEF Joined
  <2> QED
    BY <2>1, <2>9
<1>9. Seq(Cs) \subseteq S
  <2> HIDE DEF S
  <2> QED
    BY <1>7, <1>8, SeqInduct
<1> QED
  BY <1>9 DEF L, B, Cs

(***************************************************************************)
(* Of an HTML part the digest sees the words outside scripts and styles,   *)
(* and a tag parts words, whatever the text (normalizeHTMLPart,            *)
(* digest.go:436).                                                         *)
(***************************************************************************)
THEOREM TagsPartWordsHolds == Spec => []TagsPartWords
<1>1. ASSUME NEW s \in Seq(Chars)
      PROVE  Tokens(normalizeHTMLPart(s)) = Tokens(Blanked(s))
  <2> DEFINE a == TokenLoop(s)
             b == Blanked(s)
  <2>1. a \in TokenStates /\ b \in Seq(Chars)
    BY TokenFacts, BlankedFacts
  <2>2. a.out \in Seq(Chars) /\ Seen(a) \in Seq(Chars)
    BY <2>1 DEF TokenStates, Seen
  <2>3. /\ Tokens(a.out) \in Seq(Seq(Vis))
        /\ WordLoop(b) \in WordStates /\ WordLoop(Seen(a)) \in WordStates
    BY <2>1, <2>2, WordFacts, TokensType
  <2>4. Follows(WordLoop(b), Tokens(a.out), WordLoop(Seen(a)))
    BY BlankedWords
  <2>5. Tokens(b) = Tokens(a.out) \o Tokens(Seen(a))
    BY <2>3, <2>4, WithWordFollows DEF Tokens
  <2>6. Tokens(WithToken(a)) = Tokens(a.out) \o Tokens(Seen(a))
    BY <2>1, WithTokenWords
  <2> QED
    BY <2>5, <2>6 DEF normalizeHTMLPart
<1>2. TypeInv => TagsPartWords
  <2> SUFFICES ASSUME TypeInv, NEW k \in DOMAIN payloads
               PROVE  Tokens(normalizeHTMLPart(payloads[k])) = Tokens(Blanked(payloads[k]))
    BY DEF TagsPartWords
  <2>1. payloads[k] \in Seq(Chars)
    <3>1. payloads \in Seq(Seq(Chars))
      BY DEF TypeInv
    <3> QED
      BY <3>1
  <2> QED
    BY <1>1, <2>1
<1> QED
  BY <1>2, SpecTypeInv, PTL

----------------------------------------------------------------------------
(* Dropping characters by what they are, or by where they are *)

LEMMA SiftConcat ==
  ASSUME NEW A, NEW W, NEW x \in Seq(A), NEW y \in Seq(A)
  PROVE  Sift(x \o y, W) = Sift(x, W) \o Sift(y, W)
<1> DEFINE F(z) == Sift(z, W)
           AW == A \cap W
           S == {z \in Seq(A) : F(x \o z) = F(x) \o F(z)}
<1>1. /\ F(<<>>) = <<>>
      /\ \A z \in Seq(A) : F(z) \in Seq(AW)
      /\ \A z \in Seq(A), c \in A : F(Append(z, c)) = IF c \in W THEN Append(F(z), c) ELSE F(z)
  <2>1. Sifting(A, W)
    BY SiftFacts
  <2> QED
    BY <2>1 DEF Sifting
<1> HIDE DEF F
<1>2. <<>> \in S
  <2>1. F(x) \in Seq(AW)
    BY <1>1
  <2>2. x \o <<>> = x /\ F(x) \o <<>> = F(x)
    BY <2>1
  <2> QED
    BY <1>1, <2>2
<1>3. ASSUME NEW z \in Seq(A), z \in S, NEW c \in A PROVE Append(z, c) \in S
  <2>1. x \o z \in Seq(A) /\ x \o Append(z, c) = Append(x \o z, c) /\ Append(z, c) \in Seq(A)
    OBVIOUS
  <2>2. F(x \o z) = F(x) \o F(z) /\ F(x) \in Seq(AW) /\ F(z) \in Seq(AW)
    BY <1>1, <1>3
  <2>3. F(x \o Append(z, c)) = IF c \in W THEN Append(F(x \o z), c) ELSE F(x \o z)
    BY <1>1, <2>1
  <2>4. F(Append(z, c)) = IF c \in W THEN Append(F(z), c) ELSE F(z)
    BY <1>1
  <2>5. CASE c \in W
    <3>1. c \in AW
      BY <2>5
    <3> HIDE DEF AW
    <3>3. F(x) \o Append(F(z), c) = Append(F(x) \o F(z), c)
      BY <2>2, <3>1, ConcatAppend
    <3> QED
      BY <2>1, <2>2, <2>3, <2>4, <2>5, <3>3
  <2>6. CASE c \notin W
    BY <2>1, <2>2, <2>3, <2>4, <2>6
  <2> QED
    BY <2>5, <2>6
<1>4. Seq(A) \subseteq S
  <2> HIDE DEF S
  <2> QED
    BY <1>2, <1>3, SeqInduct
<1> QED
  BY <1>4 DEF F

LEMMA SiftSame ==
  ASSUME NEW A, NEW V, NEW W, \A c \in A : c \in V <=> c \in W, NEW s \in Seq(A)
  PROVE  Sift(s, V) = Sift(s, W)
<1> DEFINE F(z) == Sift(z, V)
           G(z) == Sift(z, W)
           S == {z \in Seq(A) : F(z) = G(z)}
<1>1. /\ F(<<>>) = <<>>
      /\ \A z \in Seq(A), c \in A : F(Append(z, c)) = IF c \in V THEN Append(F(z), c) ELSE F(z)
  <2>1. Sifting(A, V)
    BY SiftFacts
  <2> QED
    BY <2>1 DEF Sifting
<1>2. /\ G(<<>>) = <<>>
      /\ \A z \in Seq(A), c \in A : G(Append(z, c)) = IF c \in W THEN Append(G(z), c) ELSE G(z)
  <2>1. Sifting(A, W)
    BY SiftFacts
  <2> QED
    BY <2>1 DEF Sifting
<1> HIDE DEF F, G
<1>3. <<>> \in S
  BY <1>1, <1>2
<1>4. ASSUME NEW z \in Seq(A), z \in S, NEW c \in A PROVE Append(z, c) \in S
  <2>a. F(z) = G(z) /\ Append(z, c) \in Seq(A) /\ (c \in V <=> c \in W)
    BY <1>4
  <2>b. F(Append(z, c)) = IF c \in V THEN Append(F(z), c) ELSE F(z)
    BY <1>1
  <2>c. G(Append(z, c)) = IF c \in W THEN Append(G(z), c) ELSE G(z)
    BY <1>2
  <2>1. F(Append(z, c)) = G(Append(z, c))
    BY <2>a, <2>b, <2>c
  <2> QED
    BY <2>1
<1>5. Seq(A) \subseteq S
  <2> HIDE DEF S
  <2> QED
    BY <1>3, <1>4, SeqInduct
<1> QED
  BY <1>5 DEF F, G

LEMMA SiftAll ==
  ASSUME NEW A, NEW W, A \subseteq W, NEW s \in Seq(A)
  PROVE  Sift(s, W) = s
<1> DEFINE F(z) == Sift(z, W)
           S == {z \in Seq(A) : F(z) = z}
<1>1. /\ F(<<>>) = <<>>
      /\ \A z \in Seq(A), c \in A : F(Append(z, c)) = IF c \in W THEN Append(F(z), c) ELSE F(z)
  <2>1. Sifting(A, W)
    BY SiftFacts
  <2> QED
    BY <2>1 DEF Sifting
<1> HIDE DEF F
<1>2. <<>> \in S
  BY <1>1
<1>3. ASSUME NEW z \in Seq(A), z \in S, NEW c \in A PROVE Append(z, c) \in S
  <2>1. F(Append(z, c)) = Append(z, c)
    BY <1>1, <1>3
  <2> QED
    BY <2>1
<1>4. Seq(A) \subseteq S
  <2> HIDE DEF S
  <2> QED
    BY <1>2, <1>3, SeqInduct
<1> QED
  BY <1>4 DEF F

\* The positions of a text, and those that are left of them.
Places(s) == [i \in DOMAIN s |-> i]
Left(s, cut) == Sift(Places(s), DOMAIN s \ cut)

LEMMA KeptDef ==
  ASSUME NEW s, NEW cut
  PROVE  Kept(s, cut) = [k \in DOMAIN Left(s, cut) |-> s[Left(s, cut)[k]]]
  BY DEF Kept, Left, Places

LEMMA PlacesFacts ==
  ASSUME NEW A, NEW s \in Seq(A), NEW c \in A
  PROVE  /\ Places(s) \in Seq(1 .. Len(s))
         /\ Places(Append(s, c)) = Append(Places(s), Len(s) + 1)
<1> DEFINE n == Len(s)
           l == Places(Append(s, c))
           r == Append(Places(s), n + 1)
<1>1. n \in Nat /\ DOMAIN s = 1 .. n /\ DOMAIN Append(s, c) = 1 .. n + 1
  OBVIOUS
<1>2. Places(s) \in Seq(1 .. n) /\ Len(Places(s)) = n /\ \A i \in 1 .. n : Places(s)[i] = i
  BY <1>1 DEF Places
<1>3. l \in Seq(Nat) /\ Len(l) = n + 1 /\ \A i \in 1 .. n + 1 : l[i] = i
  BY <1>1 DEF Places
<1>4. r \in Seq(Nat) /\ Len(r) = n + 1 /\ \A i \in 1 .. n + 1 : r[i] = i
  <2> DEFINE p == Places(s)
  <2>1. p \in Seq(Nat) /\ Len(p) = n /\ \A i \in 1 .. n : p[i] = i
    BY <1>1, <1>2
  <2> HIDE DEF p, n
  <2>2. Append(p, n + 1) \in Seq(Nat) /\ Len(Append(p, n + 1)) = n + 1
        /\ \A i \in 1 .. n + 1 : Append(p, n + 1)[i] = IF i <= n THEN p[i] ELSE n + 1
    BY <1>1, <2>1
  <2>3. \A i \in 1 .. n + 1 : i <= n => i \in 1 .. n
    BY <1>1
  <2>4. \A i \in 1 .. n + 1 : ~(i <= n) => i = n + 1
    BY <1>1
  <2> QED
    BY <2>1, <2>2, <2>3, <2>4 DEF p
<1> HIDE DEF l, r, n
<1>5. l = r
  BY <1>1, <1>3, <1>4, SeqEqual
<1> QED
  BY <1>2, <1>5 DEF l, r, n

LEMMA LeftFacts ==
  ASSUME NEW A, NEW s \in Seq(A), NEW c \in A, NEW cut
  PROVE  /\ Left(s, cut) \in Seq(1 .. Len(s))
         /\ Left(Append(s, c), cut) =
              IF Len(s) + 1 \in cut THEN Left(s, cut) ELSE Append(Left(s, cut), Len(s) + 1)
<1> DEFINE n == Len(s)
           D == 1 .. n
           E == 1 .. n + 1
           p == Places(s)
           V == E \ cut
           W == D \ cut
<1>1. n \in Nat /\ DOMAIN s = D /\ DOMAIN Append(s, c) = E
  OBVIOUS
<1>2. p \in Seq(D) /\ Places(Append(s, c)) = Append(p, n + 1)
  BY PlacesFacts
<1>3. D \subseteq E /\ n + 1 \in E /\ \A i \in D : i \in V <=> i \in W
  BY <1>1
<1>4. D \cap W \subseteq D
  OBVIOUS
<1>5. n + 1 \in V <=> n + 1 \notin cut
  BY <1>3
<1>6. Left(s, cut) = Sift(p, W) /\ Left(Append(s, c), cut) = Sift(Append(p, n + 1), V)
  BY <1>1, <1>2 DEF Left
<1> HIDE DEF n, D, E, p, V, W
<1>7. Sift(p, W) \in Seq(D)
  <2>1. Sift(p, W) \in Seq(D \cap W)
    BY <1>2, SiftFacts DEF Sifting
  <2> QED
    BY <1>4, <2>1, SeqMonotonic
<1>8. Sift(p, V) = Sift(p, W)
  BY <1>2, <1>3, SiftSame
<1>9. Sift(Append(p, n + 1), V) = IF n + 1 \in V THEN Append(Sift(p, V), n + 1) ELSE Sift(p, V)
  <2>1. p \in Seq(E)
    BY <1>2, <1>3, SeqMonotonic
  <2> DEFINE m == n + 1
  <2>2. m \in E
    BY <1>3
  <2> HIDE DEF m
  <2>3. Sift(Append(p, m), V) = IF m \in V THEN Append(Sift(p, V), m) ELSE Sift(p, V)
    <3>1. \A z \in Seq(E), d \in E :
            Sift(Append(z, d), V) = IF d \in V THEN Append(Sift(z, V), d) ELSE Sift(z, V)
      <4>1. Sifting(E, V)
        BY SiftFacts
      <4> QED
        BY <4>1 DEF Sifting
    <3> QED
      BY <2>1, <2>2, <3>1
  <2> QED
    BY <2>3 DEF m
<1> QED
  BY <1>5, <1>6, <1>7, <1>8, <1>9 DEF D, n

LEMMA KeptSnoc ==
  ASSUME NEW A, NEW s \in Seq(A), NEW c \in A, NEW cut
  PROVE  Kept(Append(s, c), cut) =
           IF Len(s) + 1 \in cut THEN Kept(s, cut) ELSE Append(Kept(s, cut), c)
<1> DEFINE n == Len(s)
           q == Append(s, c)
           lo == Left(s, cut)
           hi == Left(q, cut)
           k == Kept(s, cut)
           m == Len(lo)
<1>1. n \in Nat /\ \A i \in 1 .. n : q[i] = s[i]
  OBVIOUS
<1>a. q[n + 1] = c
  OBVIOUS
<1>2. lo \in Seq(1 .. n) /\ hi = IF n + 1 \in cut THEN lo ELSE Append(lo, n + 1)
  BY LeftFacts
<1>3. k = [j \in DOMAIN lo |-> s[lo[j]]] /\ Kept(q, cut) = [j \in DOMAIN hi |-> q[hi[j]]]
  BY KeptDef
<1>4. k \in Seq(A) /\ Kept(q, cut) \in Seq(A)
  <2>1. q \in Seq(A)
    OBVIOUS
  <2> QED
    BY <2>1, KeptType
<1> HIDE DEF n, q, lo, hi, k
<1>5. m \in Nat /\ DOMAIN lo = 1 .. m /\ \A j \in 1 .. m : lo[j] \in 1 .. n
  <2> DEFINE D == 1 .. n
  <2>1. lo \in Seq(D)
    BY <1>2
  <2> HIDE DEF D
  <2>2. m \in Nat /\ DOMAIN lo = 1 .. m /\ \A j \in 1 .. m : lo[j] \in D
    BY <2>1
  <2> QED
    BY <2>2 DEF D
<1>6. \A j \in 1 .. m : q[lo[j]] = s[lo[j]]
  BY <1>1, <1>5
<1>7. CASE n + 1 \in cut
  <2>1. Kept(q, cut) = k
    BY <1>2, <1>3, <1>5, <1>6, <1>7
  <2> QED
    BY <1>7, <2>1 DEF n, q, k
<1>8. CASE n + 1 \notin cut
  <2>1. hi = Append(lo, n + 1)
    BY <1>2, <1>8
  <2>2. /\ DOMAIN hi = 1 .. m + 1 /\ hi[m + 1] = n + 1
        /\ \A j \in 1 .. m : hi[j] = lo[j]
    <3> DEFINE e == n + 1
    <3>1. lo \in Seq(Nat) /\ e \in Nat
      <4>1. 1 .. n \subseteq Nat
        OBVIOUS
      <4> QED
        BY <1>1, <1>2, <4>1, SeqMonotonic
    <3> HIDE DEF e
    <3>2. DOMAIN Append(lo, e) = 1 .. m + 1 /\ Append(lo, e)[m + 1] = e
          /\ \A j \in 1 .. m : Append(lo, e)[j] = lo[j]
      BY <1>5, <3>1
    <3> QED
      BY <2>1, <3>2 DEF e
  <2> DEFINE l == Kept(q, cut)
             r == Append(k, c)
  <2>3. Len(k) = m /\ \A j \in 1 .. m : k[j] = s[lo[j]]
    BY <1>3, <1>4, <1>5
  <2>4. Len(l) = m + 1 /\ l[m + 1] = c /\ \A j \in 1 .. m : l[j] = k[j]
    <3>1. l = [j \in 1 .. m + 1 |-> q[hi[j]]]
      BY <1>3, <2>2
    <3>2. Len(l) = m + 1
      BY <1>4, <1>5, <3>1
    <3>3. l[m + 1] = q[hi[m + 1]]
      BY <1>5, <3>1
    <3>4. \A j \in 1 .. m : l[j] = q[hi[j]]
      BY <1>5, <3>1
    <3> QED
      BY <1>6, <1>a, <2>2, <2>3, <3>2, <3>3, <3>4
  <2>5. r \in Seq(A) /\ Len(r) = m + 1 /\ r[m + 1] = c /\ \A j \in 1 .. m : r[j] = k[j]
    BY <1>4, <1>5, <2>3
  <2> HIDE DEF l, r
  <2>6. \A j \in 1 .. m + 1 : l[j] = r[j]
    <3> TAKE j \in 1 .. m + 1
    <3>1. j = m + 1 \/ j \in 1 .. m
      BY <1>5
    <3> QED
      BY <2>4, <2>5, <3>1
  <2>7. l = r
    <3>1. l \in Seq(A)
      BY <1>4 DEF l
    <3> QED
      BY <1>5, <2>4, <2>5, <2>6, <3>1, SeqEqual
  <2> QED
    BY <1>8, <2>7 DEF l, r, n, q, k
<1> QED
  BY <1>7, <1>8

LEMMA KeptSame ==
  ASSUME NEW s, NEW cut, NEW other, \A i \in DOMAIN s : i \in cut <=> i \in other
  PROVE  Kept(s, cut) = Kept(s, other)
<1>1. DOMAIN s \ cut = DOMAIN s \ other
  OBVIOUS
<1> QED
  BY <1>1 DEF Kept

LEMMA KeptEmpty ==
  ASSUME NEW cut
  PROVE  Kept(<<>>, cut) = <<>>
<1>1. <<>> \in Seq({})
  OBVIOUS
<1>2. Kept(<<>>, cut) \in Seq({})
  BY <1>1, KeptType
<1> QED
  BY <1>2

\* The positions to cut, from n + 1 on.
Shifted(n, cut) == {j \in Nat : n + j \in cut}

LEMMA KeptConcat ==
  ASSUME NEW A, NEW x \in Seq(A), NEW y \in Seq(A), NEW cut
  PROVE  Kept(x \o y, cut) = Kept(x, cut) \o Kept(y, Shifted(Len(x), cut))
<1> DEFINE n == Len(x)
           K(z) == Kept(z, cut)
           rest == Shifted(n, cut)
           R(z) == Kept(z, rest)
           S == {z \in Seq(A) : K(x \o z) = K(x) \o R(z)}
<1>1. n \in Nat
  OBVIOUS
<1>2. \A z \in Seq(A), c \in A :
        K(z) \in Seq(A) /\ K(Append(z, c)) = IF Len(z) + 1 \in cut THEN K(z) ELSE Append(K(z), c)
  BY KeptSnoc, KeptType
<1>3. \A z \in Seq(A) : K(z) \in Seq(A) /\ R(z) \in Seq(A)
  BY KeptType
<1>4. \A z \in Seq(A), c \in A : R(Append(z, c)) = IF Len(z) + 1 \in rest THEN R(z) ELSE Append(R(z), c)
  <2> HIDE DEF rest
  <2> QED
    BY KeptSnoc
<1>5. R(<<>>) = <<>>
  BY KeptEmpty
<1> HIDE DEF K, R
<1>6. <<>> \in S
  <2>1. K(x) \in Seq(A)
    BY <1>3
  <2>2. K(x) \o <<>> = K(x) /\ x \o <<>> = x
    BY <2>1
  <2>3. K(x \o <<>>) = K(x) \o R(<<>>)
    BY <1>5, <2>2
  <2>4. <<>> \in Seq(A)
    OBVIOUS
  <2> QED
    BY <2>3, <2>4
<1>7. ASSUME NEW z \in Seq(A), z \in S, NEW c \in A PROVE Append(z, c) \in S
  <2>1. x \o z \in Seq(A) /\ x \o Append(z, c) = Append(x \o z, c) /\ Append(z, c) \in Seq(A)
        /\ Len(x \o z) = n + Len(z) /\ Len(z) \in Nat
    OBVIOUS
  <2>2. K(x \o z) = K(x) \o R(z) /\ K(x) \in Seq(A) /\ R(z) \in Seq(A)
    BY <1>3, <1>7
  <2>3. Len(x \o z) + 1 \in cut <=> Len(z) + 1 \in rest
    <3>1. Len(x \o z) + 1 = n + (Len(z) + 1) /\ Len(z) + 1 \in Nat
      BY <1>1, <2>1
    <3> HIDE DEF n
    <3> QED
      BY <3>1 DEF Shifted
  <2> HIDE DEF rest, n
  <2>4. K(x \o Append(z, c)) = IF Len(z) + 1 \in rest THEN K(x \o z) ELSE Append(K(x \o z), c)
    BY <1>2, <2>1, <2>3
  <2>5. R(Append(z, c)) = IF Len(z) + 1 \in rest THEN R(z) ELSE Append(R(z), c)
    BY <1>4
  <2>6. Append(K(x) \o R(z), c) = K(x) \o Append(R(z), c)
    <3>1. \A s \in Seq(A), d \in A : K(x) \o Append(s, d) = Append(K(x) \o s, d)
      BY <2>2, ConcatAppend
    <3> QED
      BY <2>2, <3>1
  <2>7. K(x \o Append(z, c)) = K(x) \o R(Append(z, c))
    BY <2>2, <2>4, <2>5, <2>6
  <2> QED
    BY <2>1, <2>7
<1>8. Seq(A) \subseteq S
  <2> HIDE DEF S
  <2> QED
    BY <1>6, <1>7, SeqInduct
<1> QED
  BY <1>8 DEF K, R

LEMMA KeptApart ==
  ASSUME NEW A, NEW x \in Seq(A), NEW y \in Seq(A), NEW cut, NEW rest,
         \A j \in DOMAIN y : j \in rest <=> Len(x) + j \in cut
  PROVE  Kept(x \o y, cut) = Kept(x, cut) \o Kept(y, rest)
<1> DEFINE other == Shifted(Len(x), cut)
<1>1. Kept(x \o y, cut) = Kept(x, cut) \o Kept(y, other)
  BY KeptConcat
<1>2. \A j \in DOMAIN y : j \in other <=> j \in rest
  <2>1. \A j \in DOMAIN y : j \in Nat
    OBVIOUS
  <2> QED
    BY <2>1 DEF Shifted
<1> HIDE DEF other
<1>3. Kept(y, other) = Kept(y, rest)
  BY <1>2, KeptSame
<1> QED
  BY <1>1, <1>3

LEMMA KeptNone ==
  ASSUME NEW A, NEW s \in Seq(A), NEW cut, \A i \in DOMAIN s : i \notin cut
  PROVE  Kept(s, cut) = s
<1> DEFINE none == {}
           S == {z \in Seq(A) : Kept(z, none) = z}
<1>1. <<>> \in S
  BY KeptEmpty
<1>2. ASSUME NEW z \in Seq(A), z \in S, NEW c \in A PROVE Append(z, c) \in S
  <2>1. Len(z) + 1 \notin none
    OBVIOUS
  <2> HIDE DEF none
  <2>2. Kept(Append(z, c), none) = Append(Kept(z, none), c)
    BY <2>1, KeptSnoc
  <2>3. Append(z, c) \in Seq(A)
    OBVIOUS
  <2> QED
    BY <1>2, <2>2, <2>3
<1>3. Seq(A) \subseteq S
  <2> HIDE DEF S
  <2> QED
    BY <1>1, <1>2, SeqInduct
<1>4. Kept(s, cut) = Kept(s, none)
  BY KeptSame
<1> QED
  BY <1>3, <1>4

LEMMA KeptGone ==
  ASSUME NEW A, NEW s \in Seq(A), NEW cut, \A i \in DOMAIN s : i \in cut
  PROVE  Kept(s, cut) = <<>>
<1> DEFINE all == Nat
           S == {z \in Seq(A) : Kept(z, all) = <<>>}
<1>1. <<>> \in S
  BY KeptEmpty
<1>2. ASSUME NEW z \in Seq(A), z \in S, NEW c \in A PROVE Append(z, c) \in S
  <2>1. Len(z) + 1 \in all
    OBVIOUS
  <2> HIDE DEF all
  <2>2. Kept(Append(z, c), all) = Kept(z, all)
    BY <2>1, KeptSnoc
  <2>3. Append(z, c) \in Seq(A)
    OBVIOUS
  <2> QED
    BY <1>2, <2>2, <2>3
<1>3. Seq(A) \subseteq S
  <2> HIDE DEF S
  <2> QED
    BY <1>1, <1>2, SeqInduct
<1>4. \A i \in DOMAIN s : i \in all
  OBVIOUS
<1>5. Kept(s, cut) = Kept(s, all)
  <2> HIDE DEF all
  <2> QED
    BY <1>4, KeptSame
<1> QED
  BY <1>3, <1>5

----------------------------------------------------------------------------
(* Two texts with a blank between them *)

LEMMA PartedFacts ==
  ASSUME NEW x \in Seq(Chars), NEW b \in Blank, NEW t \in Seq(Chars)
  PROVE  /\ x \o <<b>> \in Seq(Chars) /\ Len(x \o <<b>>) = Len(x) + 1
         /\ x \o <<b>> \o t \in Seq(Chars)
         /\ Len(x \o <<b>> \o t) = Len(x) + 1 + Len(t)
         /\ \A i \in 1 .. Len(x) : (x \o <<b>> \o t)[i] = x[i]
         /\ (x \o <<b>> \o t)[Len(x) + 1] = b
         /\ \A i \in 1 .. Len(t) : (x \o <<b>> \o t)[Len(x) + 1 + i] = t[i]
<1> DEFINE Cs == Chars
           one == <<b>>
           u == x \o one \o t
           n == Len(x)
           m == Len(t)
<1>1. b \in Cs /\ x \in Seq(Cs) /\ t \in Seq(Cs) /\ n \in Nat /\ m \in Nat
  BY VisFacts
<1> HIDE DEF Cs
<1>2. one \in Seq(Cs) /\ Len(one) = 1 /\ one[1] = b
  BY <1>1
<1>3. x \o one \in Seq(Cs) /\ Len(x \o one) = n + 1
  <2>1. one \in Seq(Cs)
    BY <1>2
  <2>2. x \in Seq(Cs)
    BY <1>1
  <2> HIDE DEF one
  <2>3. x \o one \in Seq(Cs) /\ Len(x \o one) = Len(x) + Len(one)
    BY <2>1, <2>2, ConcatProperties
  <2> QED
    BY <1>2, <2>3
<1> HIDE DEF one
<1>4. /\ u \in Seq(Cs) /\ Len(u) = Len(x) + Len(one) + Len(t)
      /\ \A i \in 1 .. Len(x) + Len(one) + Len(t) :
           u[i] = IF i <= Len(x) THEN x[i]
                  ELSE IF i <= Len(x) + Len(one) THEN one[i - Len(x)] ELSE t[i - Len(x) - Len(one)]
  <2>1. one \in Seq(Cs)
    BY <1>2
  <2>2. x \in Seq(Cs)
    BY <1>1
  <2>3. t \in Seq(Cs)
    BY <1>1
  <2> QED
    BY <2>1, <2>2, <2>3, ConcatThree
<1> HIDE DEF u, n, m
<1>5. /\ Len(u) = n + 1 + m
      /\ \A i \in 1 .. n + 1 + m :
           u[i] = IF i <= n THEN x[i] ELSE IF i <= n + 1 THEN one[i - n] ELSE t[i - n - 1]
  BY <1>2, <1>4 DEF n, m
<1>6. \A i \in 1 .. n : u[i] = x[i]
  <2> TAKE i \in 1 .. n
  <2>1. i \in 1 .. n + 1 + m /\ i <= n
    BY <1>1
  <2> QED
    BY <1>5, <2>1
<1>7. u[n + 1] = b
  <2> DEFINE k == n + 1
  <2>2. k \in 1 .. n + 1 + m /\ ~(k <= n) /\ k <= n + 1 /\ k - n = 1
    BY <1>1
  <2> HIDE DEF k
  <2>3. u[k] = one[k - n]
    BY <1>5, <2>2
  <2> QED
    BY <1>2, <2>2, <2>3 DEF k
<1>8. \A i \in 1 .. m : u[n + 1 + i] = t[i]
  <2> TAKE i \in 1 .. m
  <2> DEFINE k == n + 1 + i
  <2>1. k \in 1 .. n + 1 + m /\ ~(k <= n) /\ ~(k <= n + 1) /\ k - n - 1 = i
    BY <1>1
  <2> HIDE DEF k
  <2>2. u[k] = t[k - n - 1]
    BY <1>5, <2>1
  <2> QED
    BY <2>1, <2>2 DEF k
<1> QED
  BY <1>3, <1>4, <1>5, <1>6, <1>7, <1>8 DEF u, n, m, one, Cs

\* The cut of both with a blank between is the cut of each.
CutParted(x, t, cut, left, right) ==
  /\ \A i \in 1 .. Len(x) : i \in cut <=> i \in left
  /\ Len(x) + 1 \notin cut
  /\ \A i \in 1 .. Len(t) : Len(x) + 1 + i \in cut <=> i \in right

LEMMA KeptParted ==
  ASSUME NEW x \in Seq(Chars), NEW b \in Blank, NEW t \in Seq(Chars),
         NEW cut, NEW left, NEW right, CutParted(x, t, cut, left, right)
  PROVE  Kept(x \o <<b>> \o t, cut) = Kept(x, left) \o <<b>> \o Kept(t, right)
<1> DEFINE n == Len(x)
           one == <<b>>
           v == x \o one
<1>1. /\ \A i \in 1 .. n : i \in cut <=> i \in left
      /\ n + 1 \notin cut
      /\ \A i \in 1 .. Len(t) : n + 1 + i \in cut <=> i \in right
  BY DEF CutParted
<1>2. one \in Seq(Chars) /\ Len(one) = 1 /\ DOMAIN one = {1}
  <2>1. b \in Chars
    BY VisFacts
  <2> QED
    BY <2>1
<1>3. v \in Seq(Chars) /\ Len(v) = n + 1
  BY PartedFacts
<1>4. n \in Nat /\ DOMAIN x = 1 .. n /\ DOMAIN t = 1 .. Len(t) /\ Len(t) \in Nat
  OBVIOUS
<1>5. Kept(v \o t, cut) = Kept(v, cut) \o Kept(t, right)
  <2>1. v \in Seq(Chars)
    BY <1>3
  <2>2. \A j \in DOMAIN t : j \in right <=> Len(v) + j \in cut
    BY <1>1, <1>3, <1>4
  <2> HIDE DEF v
  <2> QED
    BY <2>1, <2>2, KeptApart
<1>6. Kept(v, cut) = Kept(x, cut) \o Kept(one, {})
  <2>1. one \in Seq(Chars)
    BY <1>2
  <2>2. \A j \in DOMAIN one : j \in Shifted(n, cut) <=> j \in {}
    BY <1>1, <1>2 DEF Shifted
  <2> HIDE DEF one
  <2>a. Kept(x \o one, cut) = Kept(x, cut) \o Kept(one, Shifted(n, cut))
    BY <2>1, KeptConcat
  <2>b. Kept(one, Shifted(n, cut)) = Kept(one, {})
    BY <2>1, <2>2, KeptSame
  <2>3. Kept(x \o one, cut) = Kept(x, cut) \o Kept(one, {})
    BY <2>a, <2>b
  <2> QED
    BY <2>3 DEF v
<1>7. Kept(x, cut) = Kept(x, left)
  BY <1>1, <1>4, KeptSame
<1>8. Kept(one, {}) = one
  <2>1. one \in Seq(Chars)
    BY <1>2
  <2> HIDE DEF one
  <2> QED
    BY <2>1, KeptNone
<1> QED
  BY <1>5, <1>6, <1>7, <1>8

\* A token does not reach over a blank.
LEMMA TokenLeft ==
  ASSUME NEW x \in Seq(Chars), NEW b \in Blank, NEW t \in Seq(Chars), NEW i \in 1 .. Len(x)
  PROVE  Token(x \o <<b>> \o t, i) = Token(x, i)
<1> DEFINE u == x \o <<b>> \o t
           n == Len(x)
           m == Len(t)
<1>1. n \in Nat /\ m \in Nat /\ DOMAIN x = 1 .. n /\ i \in 1 .. n
  OBVIOUS
<1>2. DOMAIN u = 1 .. n + 1 + m /\ (\A k \in 1 .. n : u[k] = x[k]) /\ u[n + 1] = b
  BY PartedFacts
<1>3. ~Visible(b)
  BY VisFacts
<1> HIDE DEF u, n, m
<1>4. ASSUME NEW j \in Token(u, i) PROVE j \in Token(x, i)
  <2>1. j \in 1 .. n + 1 + m /\ \A k \in (i .. j) \cup (j .. i) : Visible(u[k])
    BY <1>2 DEF Token
  <2>2. j \in 1 .. n
    <3>1. n + 1 \notin i .. j
      BY <1>2, <1>3, <2>1
    <3> QED
      BY <1>1, <2>1, <3>1
  <2>3. \A k \in (i .. j) \cup (j .. i) : k \in 1 .. n
    BY <1>1, <2>2
  <2> QED
    BY <1>1, <1>2, <2>1, <2>2, <2>3 DEF Token
<1>5. ASSUME NEW j \in Token(x, i) PROVE j \in Token(u, i)
  <2>1. j \in 1 .. n /\ \A k \in (i .. j) \cup (j .. i) : Visible(x[k])
    BY <1>1 DEF Token
  <2>2. \A k \in (i .. j) \cup (j .. i) : k \in 1 .. n
    BY <1>1, <2>1
  <2>3. j \in 1 .. n + 1 + m
    BY <1>1, <2>1
  <2> QED
    BY <1>2, <2>1, <2>2, <2>3 DEF Token
<1>6. Token(u, i) = Token(x, i)
  BY <1>4, <1>5
<1> QED
  BY <1>6 DEF u

LEMMA TokenRight ==
  ASSUME NEW x \in Seq(Chars), NEW b \in Blank, NEW t \in Seq(Chars), NEW i \in 1 .. Len(t)
  PROVE  /\ \A j \in Int : Len(x) + 1 + j \in Token(x \o <<b>> \o t, Len(x) + 1 + i)
                             <=> j \in Token(t, i)
         /\ \A k \in Token(x \o <<b>> \o t, Len(x) + 1 + i) :
              \E j \in Token(t, i) : k = Len(x) + 1 + j
<1> DEFINE u == x \o <<b>> \o t
           p == Len(x) + 1
           m == Len(t)
<1>1. p \in Nat /\ m \in Nat /\ DOMAIN t = 1 .. m /\ i \in 1 .. m /\ p # 0
  OBVIOUS
<1>2. DOMAIN u = 1 .. p + m /\ (\A k \in 1 .. m : u[p + k] = t[k]) /\ u[p] = b
  BY PartedFacts
<1>3. ~Visible(b)
  BY VisFacts
<1> HIDE DEF u, p, m
<1>4. ASSUME NEW j \in Int, p + j \in Token(u, p + i) PROVE j \in Token(t, i)
  <2>1. p + j \in 1 .. p + m /\ \A k \in (p + i .. p + j) \cup (p + j .. p + i) : Visible(u[k])
    BY <1>2, <1>4 DEF Token
  <2>2. j \in 1 .. m
    <3>1. p \notin p + j .. p + i
      BY <1>2, <1>3, <2>1
    <3> QED
      BY <1>1, <2>1, <3>1
  <2>3. \A k \in (i .. j) \cup (j .. i) : k \in 1 .. m /\ p + k \in (p + i .. p + j) \cup (p + j .. p + i)
    BY <1>1, <2>2
  <2>4. \A k \in (i .. j) \cup (j .. i) : Visible(t[k])
    BY <1>2, <2>1, <2>3
  <2> QED
    BY <1>1, <2>2, <2>4 DEF Token
<1>5. ASSUME NEW j \in Int, j \in Token(t, i) PROVE p + j \in Token(u, p + i)
  <2>1. j \in 1 .. m /\ \A k \in (i .. j) \cup (j .. i) : Visible(t[k])
    BY <1>1, <1>5 DEF Token
  <2>2. ASSUME NEW k \in (p + i .. p + j) \cup (p + j .. p + i) PROVE Visible(u[k])
    <3>1. k \in Int /\ k - p \in (i .. j) \cup (j .. i) /\ k - p \in 1 .. m /\ p + (k - p) = k
      BY <1>1, <2>1
    <3> DEFINE l == k - p
    <3>2. l \in (i .. j) \cup (j .. i) /\ l \in 1 .. m /\ p + l = k
      BY <3>1
    <3> HIDE DEF l
    <3> QED
      BY <1>2, <2>1, <3>2
  <2>3. p + j \in 1 .. p + m
    BY <1>1, <2>1
  <2> QED
    BY <1>2, <2>2, <2>3 DEF Token
<1>6. ASSUME NEW k \in Token(u, p + i) PROVE \E j \in Token(t, i) : k = p + j
  <2>1. k \in 1 .. p + m
    BY <1>2 DEF Token
  <2>2. k - p \in Int /\ p + (k - p) = k
    BY <1>1, <2>1
  <2>3. k - p \in Token(t, i)
    BY <1>4, <2>2
  <2> QED
    BY <2>2, <2>3
<1> QED
  BY <1>4, <1>5, <1>6 DEF u, p

----------------------------------------------------------------------------
(* Addresses and URLs *)

AddressAt(s, i) ==
  /\ Visible(s[i])
  /\ \E j \in Token(s, i) : s[j] = "@" /\ {j - 1, j + 1} \subseteq Token(s, i)

LinkAt(s, i) ==
  /\ Visible(s[i])
  /\ \E p \in Token(s, i) : \E q \in Token(s, i) :
       /\ p <= i /\ p < q
       /\ s[q] = ":" /\ q + 1 \in Token(s, i)
       /\ \A k \in p .. q - 1 : s[k] = "a"

Addresses(s) == {i \in DOMAIN s : AddressAt(s, i)}
Links(s) == {i \in DOMAIN s : LinkAt(s, i)}

LEMMA RemovalDefs ==
  ASSUME NEW s
  PROVE  removeEmails(s) = Kept(s, Addresses(s)) /\ removeURLs(s) = Kept(s, Links(s))
  BY DEF removeEmails, removeURLs, Addresses, Links, AddressAt, LinkAt

LEMMA TokenIn ==
  ASSUME NEW s \in Seq(Chars), NEW i
  PROVE  \A j \in Token(s, i) : j \in 1 .. Len(s)
  BY DEF Token

LEMMA AddressesParted ==
  ASSUME NEW x \in Seq(Chars), NEW b \in Blank, NEW t \in Seq(Chars)
  PROVE  CutParted(x, t, Addresses(x \o <<b>> \o t), Addresses(x), Addresses(t))
<1> DEFINE u == x \o <<b>> \o t
           n == Len(x)
           m == Len(t)
           p == n + 1
<1>1. n \in Nat /\ m \in Nat /\ DOMAIN x = 1 .. n /\ DOMAIN t = 1 .. m
  OBVIOUS
<1>2. DOMAIN u = 1 .. p + m /\ (\A k \in 1 .. n : u[k] = x[k]) /\ u[p] = b
      /\ \A k \in 1 .. m : u[p + k] = t[k]
  BY PartedFacts
<1>3. ~Visible(b)
  BY VisFacts
<1>4. \A i \in 1 .. n : Token(u, i) = Token(x, i)
  BY TokenLeft
<1>5. \A i \in 1 .. m :
        /\ \A j \in Int : p + j \in Token(u, p + i) <=> j \in Token(t, i)
        /\ \A k \in Token(u, p + i) : \E j \in Token(t, i) : k = p + j
  BY TokenRight
<1>6. \A i : \A j \in Token(t, i) : j \in 1 .. m
  BY TokenIn
<1>7. \A i : \A j \in Token(x, i) : j \in 1 .. n
  BY TokenIn
<1>8. p \in Nat
  BY <1>1
<1> HIDE DEF u, m
<1>9. ASSUME NEW i \in 1 .. n PROVE i \in Addresses(u) <=> i \in Addresses(x)
  <2>1. i \in DOMAIN u /\ i \in DOMAIN x
    BY <1>1, <1>2
  <2>2. AddressAt(u, i) <=> AddressAt(x, i)
    BY <1>2, <1>4, <1>7 DEF AddressAt
  <2> QED
    BY <2>1, <2>2 DEF Addresses
<1>10. p \notin Addresses(u)
  BY <1>2, <1>3 DEF Addresses, AddressAt
<1> HIDE DEF p
<1>11. ASSUME NEW i \in 1 .. m PROVE p + i \in Addresses(u) <=> i \in Addresses(t)
  <2>1. p + i \in DOMAIN u /\ i \in DOMAIN t
    BY <1>1, <1>2, <1>8
  <2> DEFINE T == Token(t, i)
             U == Token(u, p + i)
  <2>2. (\A j \in Int : p + j \in U <=> j \in T) /\ (\A k \in U : \E j \in T : k = p + j)
        /\ \A j \in T : j \in 1 .. m
    BY <1>5, <1>6
  <2>3. AddressAt(u, p + i) <=>
          Visible(t[i]) /\ \E k \in U : u[k] = "@" /\ {k - 1, k + 1} \subseteq U
    BY <1>2 DEF AddressAt
  <2>4. AddressAt(t, i) <=>
          Visible(t[i]) /\ \E j \in T : t[j] = "@" /\ {j - 1, j + 1} \subseteq T
    BY DEF AddressAt
  <2> HIDE DEF T, U
  <2>5. \A j \in T : /\ j \in Int /\ u[p + j] = t[j] /\ p + j \in U
                     /\ ((p + j) - 1 \in U <=> j - 1 \in T) /\ (p + j + 1 \in U <=> j + 1 \in T)
    <3> TAKE j \in T
    <3>1. j \in 1 .. m /\ j \in Int
      BY <2>2
    <3>2. j - 1 \in Int /\ j + 1 \in Int /\ (p + j) - 1 = p + (j - 1) /\ p + j + 1 = p + (j + 1)
      BY <1>8, <3>1
    <3>3. u[p + j] = t[j]
      BY <1>2, <3>1
    <3>4. p + j \in U
      BY <2>2, <3>1
    <3>5. (p + j) - 1 \in U <=> j - 1 \in T
      BY <2>2, <3>2
    <3>6. p + j + 1 \in U <=> j + 1 \in T
      BY <2>2, <3>2
    <3> QED
      BY <3>1, <3>3, <3>4, <3>5, <3>6
  <2>6. (\E k \in U : u[k] = "@" /\ {k - 1, k + 1} \subseteq U)
          <=> \E j \in T : t[j] = "@" /\ {j - 1, j + 1} \subseteq T
    <3>1. ASSUME NEW k \in U, u[k] = "@", {k - 1, k + 1} \subseteq U
          PROVE  \E j \in T : t[j] = "@" /\ {j - 1, j + 1} \subseteq T
      <4>1. PICK j \in T : k = p + j
        BY <2>2
      <4>a. k - 1 \in U /\ k + 1 \in U
        BY <3>1
      <4>2. (p + j) - 1 \in U /\ p + j + 1 \in U
        BY <4>a, <4>1, Zenon
      <4>3. t[j] = "@"
        BY <2>5, <3>1, <4>1
      <4>4. j - 1 \in T /\ j + 1 \in T
        BY <2>5, <4>2
      <4> QED
        BY <4>3, <4>4
    <3>2. ASSUME NEW j \in T, t[j] = "@", {j - 1, j + 1} \subseteq T
          PROVE  \E k \in U : u[k] = "@" /\ {k - 1, k + 1} \subseteq U
      <4>0. j - 1 \in T /\ j + 1 \in T
        BY <3>2
      <4>a. p + j \in U /\ u[p + j] = "@"
        BY <2>5, <3>2
      <4>b. (p + j) - 1 \in U
        BY <2>5, <4>0
      <4>c. p + j + 1 \in U
        BY <2>5, <4>0
      <4>1. p + j \in U /\ u[p + j] = "@" /\ (p + j) - 1 \in U /\ p + j + 1 \in U
        BY <4>a, <4>b, <4>c
      <4> DEFINE k == p + j
      <4>2. k \in U /\ u[k] = "@" /\ k - 1 \in U /\ k + 1 \in U
        BY <4>1, Zenon
      <4> HIDE DEF k
      <4> QED
        BY <4>2
    <3> QED
      BY <3>1, <3>2
  <2>7. AddressAt(u, p + i) <=> AddressAt(t, i)
    BY <2>3, <2>4, <2>6
  <2> QED
    BY <2>1, <2>7 DEF Addresses
<1> QED
  BY <1>9, <1>10, <1>11 DEF CutParted, u, m, p

LEMMA LinksParted ==
  ASSUME NEW x \in Seq(Chars), NEW b \in Blank, NEW t \in Seq(Chars)
  PROVE  CutParted(x, t, Links(x \o <<b>> \o t), Links(x), Links(t))
<1> DEFINE u == x \o <<b>> \o t
           n == Len(x)
           m == Len(t)
           p == n + 1
           Link(s, T, i, c, e) == /\ c <= i /\ c < e
                                  /\ s[e] = ":" /\ e + 1 \in T
                                  /\ \A k \in c .. e - 1 : s[k] = "a"
<1>1. n \in Nat /\ m \in Nat /\ DOMAIN x = 1 .. n /\ DOMAIN t = 1 .. m
  OBVIOUS
<1>2. DOMAIN u = 1 .. p + m /\ (\A k \in 1 .. n : u[k] = x[k]) /\ u[p] = b
      /\ \A k \in 1 .. m : u[p + k] = t[k]
  BY PartedFacts
<1>3. ~Visible(b)
  BY VisFacts
<1>4. \A i \in 1 .. n : Token(u, i) = Token(x, i)
  BY TokenLeft
<1>5. \A i \in 1 .. m :
        /\ \A j \in Int : p + j \in Token(u, p + i) <=> j \in Token(t, i)
        /\ \A k \in Token(u, p + i) : \E j \in Token(t, i) : k = p + j
  BY TokenRight
<1>6. \A i : \A j \in Token(t, i) : j \in 1 .. m
  BY TokenIn
<1>7. \A i : \A j \in Token(x, i) : j \in 1 .. n
  BY TokenIn
<1>8. p \in Nat
  BY <1>1
<1>a. \A s, i : LinkAt(s, i) <=>
        Visible(s[i]) /\ \E c \in Token(s, i) : \E e \in Token(s, i) : Link(s, Token(s, i), i, c, e)
  BY DEF LinkAt
<1> HIDE DEF u, m
<1>9. ASSUME NEW i \in 1 .. n PROVE i \in Links(u) <=> i \in Links(x)
  <2>1. i \in DOMAIN u /\ i \in DOMAIN x
    BY <1>1, <1>2
  <2> DEFINE T == Token(x, i)
  <2>2. Token(u, i) = T /\ \A j \in T : j \in 1 .. n
    BY <1>4, <1>7
  <2> HIDE DEF T
  <2>3. ASSUME NEW c \in T, NEW e \in T PROVE Link(u, T, i, c, e) <=> Link(x, T, i, c, e)
    <3>1. u[e] = x[e] /\ \A k \in c .. e - 1 : u[k] = x[k]
      <4>1. \A k \in c .. e - 1 : k \in 1 .. n
        BY <1>1, <2>2
      <4> QED
        BY <1>2, <2>2, <4>1
    <3> QED
      BY <3>1
  <2>4. u[i] = x[i]
    BY <1>2
  <2> HIDE DEF Link
  <2>5. LinkAt(u, i) <=> LinkAt(x, i)
    BY <1>a, <2>2, <2>3, <2>4 DEF T
  <2> QED
    BY <2>1, <2>5 DEF Links
<1>10. p \notin Links(u)
  BY <1>2, <1>3 DEF Links, LinkAt
<1> HIDE DEF p
<1>11. ASSUME NEW i \in 1 .. m PROVE p + i \in Links(u) <=> i \in Links(t)
  <2>1. p + i \in DOMAIN u /\ i \in DOMAIN t
    BY <1>1, <1>2, <1>8
  <2> DEFINE T == Token(t, i)
             U == Token(u, p + i)
  <2>2. (\A j \in Int : p + j \in U <=> j \in T) /\ (\A k \in U : \E j \in T : k = p + j)
        /\ \A j \in T : j \in 1 .. m
    BY <1>5, <1>6
  <2> HIDE DEF T, U
  <2>3. ASSUME NEW c \in T, NEW e \in T
        PROVE  Link(u, U, p + i, p + c, p + e) <=> Link(t, T, i, c, e)
    <3>0. /\ Link(u, U, p + i, p + c, p + e) <=>
               /\ p + c <= p + i /\ p + c < p + e
               /\ u[p + e] = ":" /\ p + e + 1 \in U
               /\ \A k \in p + c .. (p + e) - 1 : u[k] = "a"
          /\ Link(t, T, i, c, e) <=>
               /\ c <= i /\ c < e
               /\ t[e] = ":" /\ e + 1 \in T
               /\ \A k \in c .. e - 1 : t[k] = "a"
      BY Zenon
    <3> HIDE DEF Link
    <3>1. c \in 1 .. m /\ e \in 1 .. m
      BY <2>2
    <3>2. (p + c <= p + i <=> c <= i) /\ (p + c < p + e <=> c < e)
      BY <1>1, <1>8, <3>1
    <3>3. u[p + e] = t[e]
      BY <1>2, <3>1
    <3>4. p + e + 1 \in U <=> e + 1 \in T
      <4>1. e + 1 \in Int /\ p + e + 1 = p + (e + 1)
        BY <1>1, <1>8, <3>1
      <4> QED
        BY <2>2, <4>1
    <3>5. (\A k \in p + c .. (p + e) - 1 : u[k] = "a") <=> (\A k \in c .. e - 1 : t[k] = "a")
      <4>1. \A k \in c .. e - 1 : k \in 1 .. m /\ p + k \in p + c .. (p + e) - 1
        BY <1>1, <1>8, <3>1
      <4>2. \A k \in p + c .. (p + e) - 1 : k - p \in c .. e - 1 /\ p + (k - p) = k
        BY <1>1, <1>8, <3>1
      <4>3. \A k \in c .. e - 1 : u[p + k] = t[k]
        BY <1>2, <4>1
      <4>4. ASSUME \A k \in p + c .. (p + e) - 1 : u[k] = "a" PROVE \A k \in c .. e - 1 : t[k] = "a"
        BY <4>1, <4>3, <4>4
      <4>5. ASSUME \A k \in c .. e - 1 : t[k] = "a"
            PROVE  \A k \in p + c .. (p + e) - 1 : u[k] = "a"
        <5> TAKE k \in p + c .. (p + e) - 1
        <5> DEFINE l == k - p
        <5>1. l \in c .. e - 1 /\ p + l = k
          BY <4>2
        <5> HIDE DEF l
        <5> QED
          BY <4>3, <4>5, <5>1
      <4> QED
        BY <4>4, <4>5
    <3> DEFINE A1 == p + c <= p + i
               A2 == p + c < p + e
               A3 == u[p + e] = ":"
               A4 == p + e + 1 \in U
               A5 == \A k \in p + c .. (p + e) - 1 : u[k] = "a"
               B1 == c <= i
               B2 == c < e
               B3 == t[e] = ":"
               B4 == e + 1 \in T
               B5 == \A k \in c .. e - 1 : t[k] = "a"
    <3>6. /\ Link(u, U, p + i, p + c, p + e) <=> A1 /\ A2 /\ A3 /\ A4 /\ A5
          /\ Link(t, T, i, c, e) <=> B1 /\ B2 /\ B3 /\ B4 /\ B5
      BY <3>0, Zenon
    <3>7. (A1 <=> B1) /\ (A2 <=> B2)
      BY <3>2
    <3>8. A3 <=> B3
      BY <3>3
    <3>9. A4 <=> B4
      BY <3>4
    <3>10. A5 <=> B5
      BY <3>5
    <3> HIDE DEF A1, A2, A3, A4, A5, B1, B2, B3, B4, B5
    <3> QED
      BY <3>6, <3>7, <3>8, <3>9, <3>10
  <2> HIDE DEF Link
  <2>4. \A j \in T : p + j \in U
    BY <2>2
  <2>5. (\E c \in U : \E e \in U : Link(u, U, p + i, c, e))
          <=> \E c \in T : \E e \in T : Link(t, T, i, c, e)
    <3>1. ASSUME NEW c \in U, NEW e \in U, Link(u, U, p + i, c, e)
          PROVE  \E d \in T : \E f \in T : Link(t, T, i, d, f)
      <4>1. PICK d \in T : c = p + d
        BY <2>2
      <4>2. PICK f \in T : e = p + f
        BY <2>2
      <4>3. Link(t, T, i, d, f)
        BY <2>3, <3>1, <4>1, <4>2
      <4> QED
        BY <4>3
    <3>2. ASSUME NEW c \in T, NEW e \in T, Link(t, T, i, c, e)
          PROVE  \E d \in U : \E f \in U : Link(u, U, p + i, d, f)
      <4>1. Link(u, U, p + i, p + c, p + e)
        BY <2>3, <3>2
      <4> QED
        BY <2>4, <4>1
    <3> QED
      BY <3>1, <3>2
  <2>6. u[p + i] = t[i]
    BY <1>2
  <2>7. LinkAt(u, p + i) <=> LinkAt(t, i)
    BY <1>a, <2>5, <2>6 DEF T, U
  <2> QED
    BY <2>1, <2>7 DEF Links
<1> QED
  BY <1>9, <1>10, <1>11 DEF CutParted, u, m, p

----------------------------------------------------------------------------
(* Long runs *)

LEMMA SubSeqSnoc ==
  ASSUME NEW A, NEW s \in Seq(A), NEW c \in A, NEW m \in Nat, m <= Len(s)
  PROVE  /\ \A k \in Nat : k <= Len(s) => SubSeq(Append(s, c), m + 1, k) = SubSeq(s, m + 1, k)
         /\ SubSeq(Append(s, c), m + 1, Len(s) + 1) = Append(SubSeq(s, m + 1, Len(s)), c)
         /\ SubSeq(s, Len(s) + 1, Len(s)) = <<>>
<1> DEFINE n == Len(s)
           q == Append(s, c)
<1>1. /\ n \in Nat /\ q \in Seq(A) /\ Len(q) = n + 1 /\ q[n + 1] = c
      /\ \A i \in 1 .. n : q[i] = s[i] /\ q[i] \in A
  OBVIOUS
<1>2. \A i \in m + 1 .. n + 1 : q[i] \in A
  <2>1. \A i \in m + 1 .. n + 1 : i \in 1 .. n \/ i = n + 1
    BY <1>1
  <2> QED
    BY <1>1, <2>1
<1>3. m + 1 \in Int /\ n \in Int /\ n + 1 \in Int /\ m <= n
  BY <1>1
<1>4. \A i \in m + 1 .. n : s[i] \in A
  <2>1. \A i \in m + 1 .. n : i \in 1 .. n
    BY <1>1
  <2> QED
    BY <1>1, <2>1
<1> HIDE DEF n, q
<1>5. ASSUME NEW k \in Nat, k <= n PROVE SubSeq(q, m + 1, k) = SubSeq(s, m + 1, k)
  <2> DEFINE l == SubSeq(q, m + 1, k)
             r == SubSeq(s, m + 1, k)
  <2>1. \A i \in m + 1 .. k : i \in m + 1 .. n /\ i \in m + 1 .. n + 1 /\ i \in 1 .. n
    BY <1>1, <1>5
  <2>2. k \in Int /\ m + 1 \in Int
    OBVIOUS
  <2>3. \A i \in m + 1 .. k : q[i] \in A /\ s[i] \in A
    BY <1>2, <1>4, <2>1
  <2>4. /\ l \in Seq(A) /\ Len(l) = IF m + 1 <= k THEN k - (m + 1) + 1 ELSE 0
        /\ \A i \in 1 .. k - (m + 1) + 1 : l[i] = q[(m + 1) + i - 1]
    BY <2>2, <2>3, SubSeqProperties
  <2>5. /\ r \in Seq(A) /\ Len(r) = IF m + 1 <= k THEN k - (m + 1) + 1 ELSE 0
        /\ \A i \in 1 .. k - (m + 1) + 1 : r[i] = s[(m + 1) + i - 1]
    BY <2>2, <2>3, SubSeqProperties
  <2> HIDE DEF l, r
  <2>6. \A i \in 1 .. Len(l) : i \in 1 .. k - (m + 1) + 1 /\ (m + 1) + i - 1 \in 1 .. n
    BY <1>1, <1>5, <2>4
  <2>7. \A i \in 1 .. Len(l) : l[i] = r[i]
    BY <1>1, <2>4, <2>5, <2>6
  <2>8. l = r
    BY <2>4, <2>5, <2>7, SeqEqual
  <2> QED
    BY <2>8 DEF l, r
<1>6. SubSeq(q, m + 1, n + 1) = Append(SubSeq(s, m + 1, n), c)
  <2> DEFINE r == SubSeq(s, m + 1, n)
             l == SubSeq(q, m + 1, n + 1)
             e == Append(r, c)
  <2>1. /\ l \in Seq(A) /\ Len(l) = IF m + 1 <= n + 1 THEN n + 1 - (m + 1) + 1 ELSE 0
        /\ \A i \in 1 .. n + 1 - (m + 1) + 1 : l[i] = q[(m + 1) + i - 1]
    BY <1>2, <1>3, SubSeqProperties
  <2>2. /\ r \in Seq(A) /\ Len(r) = IF m + 1 <= n THEN n - (m + 1) + 1 ELSE 0
        /\ \A i \in 1 .. n - (m + 1) + 1 : r[i] = s[(m + 1) + i - 1]
    BY <1>3, <1>4, SubSeqProperties
  <2> HIDE DEF l, r
  <2> DEFINE z == n - m
  <2>3. Len(l) = z + 1 /\ Len(r) = z /\ z \in Nat /\ n - (m + 1) + 1 = z /\ n + 1 - (m + 1) + 1 = z + 1
    BY <1>1, <1>3, <2>1, <2>2
  <2>4. /\ e \in Seq(A) /\ Len(e) = z + 1 /\ e[z + 1] = c
        /\ \A i \in 1 .. z : e[i] = r[i]
    <3> HIDE DEF z
    <3> QED
      BY <2>2, <2>3
  <2>5. (m + 1) + (z + 1) - 1 = n + 1 /\ z + 1 \in 1 .. z + 1
        /\ \A i \in 1 .. z : (m + 1) + i - 1 \in 1 .. n /\ i \in 1 .. z + 1
    BY <1>1, <1>3, <2>3
  <2> HIDE DEF e, z
  <2>6. l[z + 1] = c
    BY <1>1, <2>1, <2>3, <2>5
  <2>7. \A i \in 1 .. z : l[i] = e[i]
    BY <1>1, <2>1, <2>2, <2>3, <2>4, <2>5
  <2>8. \A i \in 1 .. z + 1 : i \in 1 .. z \/ i = z + 1
    BY <2>3
  <2>9. l = e
    BY <2>1, <2>3, <2>4, <2>6, <2>7, <2>8, SeqEqual
  <2> QED
    BY <2>9 DEF l, e, r
<1>7. SubSeq(s, n + 1, n) = <<>>
  <2>1. n < n + 1 /\ n \in Int /\ n + 1 \in Int
    BY <1>1
  <2> HIDE DEF n
  <2> QED
    BY <2>1, SubSeqEmpty
<1> QED
  BY <1>5, <1>6, <1>7 DEF n, q

\* The loop over a longer text goes through the same states.
LEMMA LongRunSnoc ==
  ASSUME NEW s \in Seq(Chars), NEW c \in Chars
  PROVE  /\ LongRunLoop(s) \in LongRunStates(s)
         /\ LongRunLoop(Append(s, c)) = LongRunTurn(Append(s, c), LongRunLoop(s), Len(s) + 1)
<1> DEFINE n == Len(s)
           q == Append(s, c)
           p == [i \in DOMAIN s |-> i]
           r == [i \in DOMAIN q |-> i]
           A == LongRunStates(s)
           B == LongRunStates(q)
<1>1. /\ n \in Nat /\ q \in Seq(Chars) /\ Len(q) = n + 1
      /\ \A i \in 1 .. n : q[i] = s[i]
  OBVIOUS
<1>2. p \in Seq(1 .. n) /\ Len(p) = n /\ (\A i \in 1 .. n : p[i] = i)
      /\ Len(r) = n + 1 /\ (\A i \in 1 .. n + 1 : r[i] = i)
  <2>1. DOMAIN s = 1 .. n /\ DOMAIN q = 1 .. n + 1
    OBVIOUS
  <2>2. p = [i \in 1 .. n |-> i] /\ r = [i \in 1 .. n + 1 |-> i]
    BY <2>1
  <2> HIDE DEF p, r, n
  <2> QED
    BY <1>1, <2>2
<1>3. Ends(A, LongRunG(s), LongRunStart, p, LongRunLoop(s))
  BY LongRunTrace
<1>4. Ends(B, LongRunG(q), LongRunStart, r, LongRunLoop(q))
  BY <1>1, LongRunTrace
<1> HIDE DEF n, q, p, r, A, B
<1>5. PICK h \in Traces(A, LongRunG(s), LongRunStart, p) : LongRunLoop(s) = h[n]
  BY <1>2, <1>3 DEF Ends
<1>6. PICK j \in Traces(B, LongRunG(q), LongRunStart, r) : LongRunLoop(q) = j[n + 1]
  BY <1>2, <1>4 DEF Ends
<1>7. /\ h \in [0 .. n -> A] /\ h[0] = LongRunStart
      /\ \A k \in 1 .. n : h[k] = LongRunG(s)[<<h[k - 1], p[k]>>]
  BY <1>2, <1>5 DEF Traces
<1>8. /\ j \in [0 .. n + 1 -> B] /\ j[0] = LongRunStart
      /\ \A k \in 1 .. n + 1 : j[k] = LongRunG(q)[<<j[k - 1], r[k]>>]
  BY <1>2, <1>6 DEF Traces
<1>9. ASSUME NEW k \in 1 .. n PROVE h[k] = LongRunTurn(s, h[k - 1], k)
  <2>1. h[k - 1] \in A /\ k \in 1 .. n
    BY <1>1, <1>7
  <2>2. LongRunG(s)[<<h[k - 1], k>>] = LongRunTurn(s, h[k - 1], k)
    BY <2>1 DEF LongRunG, A, n
  <2> QED
    BY <1>2, <1>7, <2>2
<1>10. ASSUME NEW k \in 1 .. n + 1 PROVE j[k] = LongRunTurn(q, j[k - 1], k)
  <2>1. j[k - 1] \in B /\ k \in 1 .. Len(q)
    BY <1>1, <1>8
  <2>2. LongRunG(q)[<<j[k - 1], k>>] = LongRunTurn(q, j[k - 1], k)
    BY <2>1 DEF LongRunG, B
  <2> QED
    BY <1>2, <1>8, <2>2
<1>11. ASSUME NEW a \in A, NEW i \in 1 .. n PROVE LongRunTurn(q, a, i) = LongRunTurn(s, a, i)
  <2>1. a.runStart \in 0 .. n /\ a.last \in 0 .. n
    BY <1>11 DEF A, LongRunStates, n
  <2>2. SubSeq(q, a.last + 1, a.runStart - 1) = SubSeq(s, a.last + 1, a.runStart - 1)
    <3> DEFINE m == a.last
               k == a.runStart - 1
    <3>1. m \in Nat /\ m <= Len(s) /\ s \in Seq(Chars) /\ c \in Chars
      BY <1>1, <2>1 DEF n
    <3>2. CASE k \in Nat
      <4>1. k <= Len(s)
        BY <1>1, <2>1 DEF n
      <4> HIDE DEF k, m
      <4>2. SubSeq(q, m + 1, k) = SubSeq(s, m + 1, k)
        BY <3>1, <3>2, <4>1, SubSeqSnoc DEF q
      <4> QED
        BY <4>2 DEF k, m
    <3>3. CASE k \notin Nat
      <4>1. k \in Int /\ m + 1 \in Int /\ k < m + 1
        BY <1>1, <2>1, <3>3
      <4> HIDE DEF k, m
      <4>2. SubSeq(q, m + 1, k) = <<>> /\ SubSeq(s, m + 1, k) = <<>>
        BY <4>1, SubSeqEmpty
      <4> QED
        BY <4>2 DEF k, m
    <3> QED
      BY <3>2, <3>3
  <2>3. CutRun(q, a, i - 1) = CutRun(s, a, i - 1)
    BY <2>2 DEF CutRun
  <2>4. q[i] = s[i]
    BY <1>1
  <2> QED
    BY <2>3, <2>4 DEF LongRunTurn
<1> DEFINE S == {k \in Nat : k <= n => j[k] = h[k]}
<1>12. 0 \in S
  BY <1>7, <1>8
<1>13. ASSUME NEW k \in 0 .. n, k < n, k \in S PROVE k + 1 \in S
  <2>1. k + 1 \in 1 .. n /\ k + 1 \in 1 .. n + 1 /\ (k + 1) - 1 = k /\ k <= n
    BY <1>1, <1>13
  <2>2. j[k] = h[k] /\ h[k] \in A
    BY <1>7, <1>13, <2>1
  <2>3. j[k + 1] = LongRunTurn(q, j[k], k + 1) /\ h[k + 1] = LongRunTurn(s, h[k], k + 1)
    BY <1>9, <1>10, <2>1
  <2>4. j[k + 1] = h[k + 1]
    BY <1>11, <2>1, <2>2, <2>3
  <2> QED
    BY <2>4
<1>14. 0 .. n \subseteq S
  <2> HIDE DEF S
  <2> QED
    BY <1>1, <1>12, <1>13, Climb
<1>15. j[n] = h[n] /\ h[n] \in A
  BY <1>1, <1>7, <1>14
<1>16. j[n + 1] = LongRunTurn(q, j[n], n + 1)
  <2>1. n + 1 \in 1 .. n + 1 /\ (n + 1) - 1 = n
    BY <1>1
  <2> QED
    BY <1>10, <2>1
<1> QED
  BY <1>5, <1>6, <1>15, <1>16 DEF n, q, A

\* The loop knows where the run that reaches the end of the text starts.
Running(s, a) ==
  /\ a \in LongRunStates(s)
  /\ a.last + a.runes <= Len(s)
  /\ a.runes > 0 => a.runStart + a.runes = Len(s) + 1

LEMMA RunningTurn ==
  ASSUME NEW s \in Seq(Chars), NEW c \in Chars, NEW a, Running(s, a)
  PROVE  LET q == Append(s, c)
             next == LongRunTurn(q, a, Len(s) + 1)
         IN /\ Running(q, next)
            /\ Visible(c) => /\ next.out = a.out /\ next.last = a.last
                             /\ next.runes = a.runes + 1
            /\ ~Visible(c) =>
                 /\ next.runes = 0
                 /\ next.out = IF a.runes >= longRun
                               THEN a.out \o SubSeq(q, a.last + 1, Len(s) - a.runes) ELSE a.out
                 /\ next.last = IF a.runes >= longRun THEN Len(s) ELSE a.last
<1> DEFINE n == Len(s)
           q == Append(s, c)
           i == n + 1
           next == LongRunTurn(q, a, i)
<1>1. n \in Nat /\ q \in Seq(Chars) /\ Len(q) = n + 1 /\ q[n + 1] = c /\ i - 1 = n
  OBVIOUS
<1>2. /\ a.runStart \in 0 .. n /\ a.runes \in Nat /\ a.last \in 0 .. n /\ a.out \in Seq(Chars)
      /\ a.last + a.runes <= n /\ (a.runes > 0 => a.runStart + a.runes = n + 1)
      /\ DOMAIN a = {"runStart", "runes", "last", "out"}
  BY DEF Running, LongRunStates
<1>3. longRun \in Nat /\ longRun > 0
  BY Constants
<1>4. a \in LongRunStates(q)
  <2>1. \A k \in 0 .. n : k \in 0 .. n + 1
    BY <1>1
  <2>2. a \in [runStart : 0 .. n, runes : Nat, last : 0 .. n, out : Seq(Chars)]
    BY DEF Running, LongRunStates
  <2> HIDE DEF n, q
  <2>3. a \in [runStart : 0 .. n + 1, runes : Nat, last : 0 .. n + 1, out : Seq(Chars)]
    BY <2>1, <2>2
  <2> QED
    BY <1>1, <2>3 DEF LongRunStates
<1>5. next \in LongRunStates(q)
  <2>1. i \in 1 .. Len(q)
    BY <1>1
  <2> HIDE DEF q, i
  <2> QED
    BY <1>1, <1>4, <2>1, LongRunTurnType
<1>6. next = IF ~Visible(c) THEN [CutRun(q, a, n) EXCEPT !.runes = 0]
             ELSE [a EXCEPT !.runStart = IF a.runes = 0 THEN i ELSE a.runStart,
                            !.runes = a.runes + 1]
  BY <1>1 DEF LongRunTurn, Visible
<1> HIDE DEF next, q, n, i
<1>7. CASE Visible(c)
  <2>1. next.out = a.out /\ next.last = a.last /\ next.runes = a.runes + 1
        /\ next.runStart = IF a.runes = 0 THEN i ELSE a.runStart
    BY <1>2, <1>6, <1>7
  <2> DEFINE rs == next.runStart
             ru == next.runes
             la == next.last
  <2>a. ru = a.runes + 1 /\ la = a.last /\ rs = IF a.runes = 0 THEN n + 1 ELSE a.runStart
    BY <2>1 DEF i
  <2> HIDE DEF rs, ru, la
  <2>b. la + ru <= n + 1
    BY <1>1, <1>2, <2>a
  <2>c. rs + ru = (n + 1) + 1
    <3> DEFINE old == a.runes
               st == a.runStart
    <3>1. old \in Nat /\ st \in Nat /\ n \in Nat /\ (old > 0 => st + old = n + 1)
      BY <1>1, <1>2
    <3>2. ru = old + 1 /\ rs = IF old = 0 THEN n + 1 ELSE st
      BY <2>a
    <3> HIDE DEF old, st
    <3>3. CASE old = 0
      BY <3>1, <3>2, <3>3
    <3>4. CASE old # 0
      BY <3>1, <3>2, <3>4
    <3> QED
      BY <3>3, <3>4
  <2>2. Running(q, next)
    BY <1>1, <1>5, <2>b, <2>c DEF Running, rs, ru, la
  <2> QED
    BY <1>7, <2>1, <2>2 DEF next, q, i, n
<1>8. CASE ~Visible(c)
  <2> DEFINE piece == SubSeq(q, a.last + 1, a.runStart - 1)
  <2>1. CASE a.runes >= longRun
    <3>1. a.runStart - 1 = n - a.runes
      BY <1>1, <1>2, <1>3, <2>1
    <3>2. CutRun(q, a, n) = [a EXCEPT !.out = a.out \o piece, !.last = n]
      BY <2>1 DEF CutRun
    <3>3. piece = SubSeq(q, a.last + 1, n - a.runes)
      BY <3>1
    <3> HIDE DEF piece
    <3>4. next.out = a.out \o piece /\ next.last = n /\ next.runes = 0
      BY <1>2, <1>6, <1>8, <3>2
    <3>5. Running(q, next)
      BY <1>1, <1>5, <3>4 DEF Running
    <3> QED
      BY <1>8, <2>1, <3>3, <3>4, <3>5 DEF next, q, i, n
  <2>2. CASE ~(a.runes >= longRun)
    <3>1. CutRun(q, a, n) = a
      BY <2>2 DEF CutRun
    <3>2. next.out = a.out /\ next.last = a.last /\ next.runes = 0
      BY <1>2, <1>6, <1>8, <3>1
    <3>3. Running(q, next)
      BY <1>1, <1>2, <1>5, <3>2 DEF Running
    <3> QED
      BY <1>8, <2>2, <3>2, <3>3 DEF next, q, i, n
  <2> QED
    BY <2>1, <2>2
<1> QED
  BY <1>7, <1>8

\* The run that reaches the end of the text, and what is kept before it.
Run(s) == SubSeq(s, (Len(s) - LongRunLoop(s).runes) + 1, Len(s))
Done(s) ==
  LongRunLoop(s).out \o SubSeq(s, LongRunLoop(s).last + 1, Len(s) - LongRunLoop(s).runes)

LEMMA LongRunRunning ==
  ASSUME NEW s \in Seq(Chars)
  PROVE  Running(s, LongRunLoop(s))
<1> DEFINE Cs == Chars
           S == {z \in Seq(Cs) : Running(z, LongRunLoop(z))}
<1>1. <<>> \in S
  <2> DEFINE none == <<>>
             a == LongRunLoop(none)
  <2>1. none \in Seq(Cs) /\ Len(none) = 0
    OBVIOUS
  <2>2. a = LongRunStart
    BY NoLongRuns
  <2> HIDE DEF a
  <2>3. a \in LongRunStates(none) /\ a.last + a.runes <= Len(none) /\ a.runes = 0
    BY <2>1, <2>2 DEF LongRunStart, LongRunStates
  <2> QED
    BY <2>1, <2>3 DEF Running, a
<1>2. ASSUME NEW z \in Seq(Cs), z \in S, NEW c \in Cs PROVE Append(z, c) \in S
  <2> DEFINE q == Append(z, c)
             a == LongRunLoop(z)
  <2>1. q \in Seq(Cs)
    OBVIOUS
  <2>2. LongRunLoop(q) = LongRunTurn(q, a, Len(z) + 1)
    BY <1>2, LongRunSnoc
  <2>3. Running(z, a)
    BY <1>2
  <2> HIDE DEF a
  <2>4. Running(q, LongRunTurn(q, a, Len(z) + 1))
    BY <1>2, <2>3, RunningTurn
  <2> QED
    BY <2>1, <2>2, <2>4
<1>3. Seq(Cs) \subseteq S
  <2> HIDE DEF S, Cs
  <2> QED
    BY <1>1, <1>2, SeqInduct
<1> QED
  BY <1>3

LEMMA RunFacts ==
  ASSUME NEW s \in Seq(Chars)
  PROVE  /\ Run(s) \in Seq(Chars) /\ Len(Run(s)) = LongRunLoop(s).runes
         /\ Done(s) \in Seq(Chars)
         /\ removeLongRuns(s) = IF Len(Run(s)) >= longRun THEN Done(s) ELSE Done(s) \o Run(s)
<1> DEFINE Cs == Chars
           n == Len(s)
           a == LongRunLoop(s)
           m == n - a.runes
           done == SubSeq(s, a.last + 1, m)
           run == SubSeq(s, m + 1, n)
<1>1. Running(s, a)
  BY LongRunRunning
<1>2. s \in Seq(Cs) /\ n \in Nat
  OBVIOUS
<1>3. /\ a.runStart \in 0 .. n /\ a.runes \in Nat /\ a.last \in 0 .. n /\ a.out \in Seq(Cs)
      /\ a.last + a.runes <= n /\ (a.runes > 0 => a.runStart + a.runes = n + 1)
      /\ DOMAIN a = {"runStart", "runes", "last", "out"}
  BY <1>1 DEF Running, LongRunStates
<1>4. longRun \in Nat /\ longRun > 0
  BY Constants
<1> HIDE DEF a, n, Cs
<1>5. m \in Nat /\ a.last <= m /\ m <= n /\ n - m = a.runes
  BY <1>2, <1>3
<1>6. run \in Seq(Cs) /\ Len(run) = a.runes
  <2>1. \A i \in m + 1 .. n : i \in 1 .. n
    BY <1>2, <1>5
  <2>2. \A i \in m + 1 .. n : s[i] \in Cs
    BY <1>2, <2>1, ElementOfSeq DEF n
  <2>3. m + 1 \in Int /\ n \in Int
    BY <1>2, <1>5
  <2> DEFINE k == m + 1
  <2>4. k \in Int /\ (IF k <= n THEN n - k + 1 ELSE 0) = a.runes
    <3> HIDE DEF m
    <3>1. n \in Nat /\ m \in Nat /\ m <= n /\ n - m = a.runes
      BY <1>2, <1>5
    <3>2. CASE m + 1 <= n
      <4>1. n - (m + 1) + 1 = n - m
        BY <3>1
      <4> QED
        BY <3>1, <3>2, <4>1
    <3>3. CASE ~(m + 1 <= n)
      <4>1. n - m = 0
        BY <3>1, <3>3
      <4> QED
        BY <3>1, <3>3, <4>1
    <3> QED
      BY <3>2, <3>3
  <2>5. \A i \in k .. n : s[i] \in Cs
    BY <2>2
  <2> HIDE DEF k, m
  <2>6. SubSeq(s, k, n) \in Seq(Cs) /\ Len(SubSeq(s, k, n)) = IF k <= n THEN n - k + 1 ELSE 0
    BY <2>3, <2>4, <2>5, SubSeqProperties
  <2> QED
    BY <2>4, <2>6 DEF k
<1>7. done \in Seq(Cs)
  <2>1. a.last \in Nat /\ m \in Int /\ m <= Len(s)
    BY <1>2, <1>3, <1>5 DEF n
  <2> HIDE DEF m
  <2> QED
    BY <1>2, <2>1, PieceType
<1>8. done \o run = SubSeq(s, a.last + 1, n)
  <2> DEFINE k == a.last + 1
  <2>1. k \in 1 .. n + 1 /\ m \in k - 1 .. n /\ n \in m .. n
    <3> HIDE DEF m
    <3> DEFINE l == a.last
    <3>1. l \in Nat /\ l <= m /\ m <= n /\ m \in Nat /\ n \in Nat
      BY <1>2, <1>3, <1>5
    <3> HIDE DEF l
    <3>2. l + 1 \in 1 .. n + 1 /\ m \in (l + 1) - 1 .. n /\ n \in m .. n
      BY <3>1
    <3> QED
      BY <3>2 DEF l
  <2> HIDE DEF k, m
  <2>2. SubSeq(s, k, m) \o SubSeq(s, m + 1, n) = SubSeq(s, k, n)
    BY <1>2, <2>1, ConcatAdjacentSubSeq DEF n
  <2> QED
    BY <2>2 DEF k
<1>9. Run(s) = run /\ Done(s) = a.out \o done
  BY DEF Run, Done, a, n
<1>10. removeLongRuns(s) = CutRun(s, a, n).out \o SubSeq(s, CutRun(s, a, n).last + 1, n)
  BY DEF removeLongRuns, a, n
<1>11. SubSeq(s, n + 1, n) = <<>>
  <2>1. n < n + 1 /\ n \in Int /\ n + 1 \in Int
    BY <1>2
  <2> QED
    BY <2>1, SubSeqEmpty
<1>a. a.out \o done \in Seq(Cs)
  BY <1>3, <1>7, ConcatProperties
<1>12. CASE a.runes >= longRun
  <2>1. a.runStart - 1 = m
    BY <1>2, <1>3, <1>4, <1>12
  <2>2. CutRun(s, a, n) = [a EXCEPT !.out = a.out \o done, !.last = n]
    BY <1>12, <2>1 DEF CutRun
  <2> HIDE DEF done
  <2>3. CutRun(s, a, n).out = a.out \o done /\ CutRun(s, a, n).last = n
    BY <1>3, <2>2
  <2>4. (a.out \o done) \o <<>> = a.out \o done
    BY <1>a
  <2> QED
    BY <1>6, <1>9, <1>10, <1>11, <1>12, <1>a, <2>3, <2>4 DEF Cs, a
<1>13. CASE ~(a.runes >= longRun)
  <2>1. CutRun(s, a, n) = a
    BY <1>13 DEF CutRun
  <2>2. (a.out \o done) \o run = a.out \o (done \o run)
    <3>1. a.out \in Seq(Cs) /\ done \in Seq(Cs) /\ run \in Seq(Cs)
      BY <1>3, <1>6, <1>7
    <3> HIDE DEF done, run
    <3>2. \A x, y, z \in Seq(Cs) : (x \o y) \o z = x \o (y \o z)
      <4>1. Regroups(Cs)
        BY RegroupsAll
      <4> QED
        BY <4>1 DEF Regroups
    <3> QED
      BY <3>1, <3>2
  <2> HIDE DEF done, run
  <2> QED
    BY <1>6, <1>8, <1>9, <1>10, <1>13, <1>a, <2>1, <2>2 DEF Cs, a
<1> QED
  BY <1>12, <1>13

LEMMA RunSnoc ==
  ASSUME NEW s \in Seq(Chars), NEW c \in Chars
  PROVE  /\ Visible(c) => /\ Done(Append(s, c)) = Done(s)
                          /\ Run(Append(s, c)) = Append(Run(s), c)
         /\ ~Visible(c) => /\ Done(Append(s, c)) = Append(removeLongRuns(s), c)
                           /\ Run(Append(s, c)) = <<>>
<1> DEFINE Cs == Chars
           n == Len(s)
           q == Append(s, c)
           a == LongRunLoop(s)
           e == LongRunLoop(q)
           m == n - a.runes
<1>1. s \in Seq(Cs) /\ c \in Cs /\ n \in Nat /\ q \in Seq(Cs) /\ Len(q) = n + 1
  OBVIOUS
<1>2. Running(s, a)
  BY LongRunRunning
<1>3. /\ a.runes \in Nat /\ a.last \in 0 .. n /\ a.out \in Seq(Cs) /\ a.last + a.runes <= n
  BY <1>2 DEF Running, LongRunStates
<1>4. /\ Visible(c) => e.out = a.out /\ e.last = a.last /\ e.runes = a.runes + 1
      /\ ~Visible(c) =>
           /\ e.runes = 0
           /\ e.out = IF a.runes >= longRun THEN a.out \o SubSeq(q, a.last + 1, m) ELSE a.out
           /\ e.last = IF a.runes >= longRun THEN n ELSE a.last
  <2>1. e = LongRunTurn(q, a, n + 1)
    BY LongRunSnoc
  <2> HIDE DEF a, e
  <2> QED
    BY <1>2, <2>1, RunningTurn
<1>5. /\ Done(s) = a.out \o SubSeq(s, a.last + 1, m)
      /\ Run(s) = SubSeq(s, m + 1, n)
      /\ Done(q) = e.out \o SubSeq(q, e.last + 1, (n + 1) - e.runes)
      /\ Run(q) = SubSeq(q, ((n + 1) - e.runes) + 1, n + 1)
  BY <1>1 DEF Done, Run
<1>6. \A l \in Nat : l <= n =>
        /\ \A k \in Nat : k <= n => SubSeq(q, l + 1, k) = SubSeq(s, l + 1, k)
        /\ SubSeq(q, l + 1, n + 1) = Append(SubSeq(s, l + 1, n), c)
  <2> TAKE l \in Nat
  <2>1. ASSUME l <= n
        PROVE  /\ \A k \in Nat : k <= n => SubSeq(q, l + 1, k) = SubSeq(s, l + 1, k)
               /\ SubSeq(q, l + 1, n + 1) = Append(SubSeq(s, l + 1, n), c)
    BY <1>1, <2>1, SubSeqSnoc
  <2> QED
    BY <2>1
<1>7. m \in Nat /\ m <= n /\ a.last \in Nat /\ a.last <= m /\ a.last <= n
  BY <1>1, <1>3
<1>8. SubSeq(q, a.last + 1, m) = SubSeq(s, a.last + 1, m)
  BY <1>6, <1>7
<1>9. /\ Len(Run(s)) = a.runes
      /\ Run(s) \in Seq(Cs) /\ Done(s) \in Seq(Cs)
      /\ removeLongRuns(s) = IF a.runes >= longRun THEN Done(s) ELSE Done(s) \o Run(s)
  BY RunFacts
<1> HIDE DEF a, e, q, n, Cs
<1>10. CASE Visible(c)
  <2>1. (n + 1) - e.runes = m
    BY <1>1, <1>3, <1>4, <1>10
  <2>2. Done(q) = Done(s)
    BY <1>4, <1>5, <1>8, <1>10, <2>1
  <2>3. Run(q) = Append(Run(s), c)
    BY <1>5, <1>6, <1>7, <2>1
  <2> QED
    BY <1>10, <2>2, <2>3 DEF q
<1>11. CASE ~Visible(c)
  <2>1. (n + 1) - e.runes = n + 1 /\ n + 1 \in Nat
    BY <1>1, <1>4, <1>11
  <2>2. Run(q) = <<>>
    <3> DEFINE k == n + 1
    <3>1. Run(q) = SubSeq(q, k + 1, k) /\ k \in Int /\ k + 1 \in Int /\ k < k + 1
      BY <1>5, <2>1
    <3> HIDE DEF k
    <3> QED
      BY <3>1, SubSeqEmpty
  <2>3. CASE a.runes >= longRun
    <3>1. e.out = Done(s) /\ e.last = n
      BY <1>4, <1>5, <1>8, <1>11, <2>3
    <3>2. SubSeq(q, n + 1, n + 1) = Append(SubSeq(s, n + 1, n), c)
      BY <1>1, <1>6
    <3>3. SubSeq(s, n + 1, n) = <<>>
      BY <1>1, SubSeqEmpty
    <3>4. Done(q) = Done(s) \o Append(<<>>, c)
      BY <1>5, <2>1, <3>1, <3>2, <3>3
    <3>5. \A x \in Seq(Cs), y \in Seq(Cs), d \in Cs : x \o Append(y, d) = Append(x \o y, d)
      BY ConcatAppend
    <3>6. <<>> \in Seq(Cs)
      OBVIOUS
    <3>7. Done(s) \o <<>> = Done(s)
      BY <1>9
    <3>8. Done(q) = Append(Done(s), c)
      BY <1>1, <1>9, <3>4, <3>5, <3>6, <3>7
    <3> QED
      BY <1>9, <1>11, <2>2, <2>3, <3>8 DEF q
  <2>4. CASE ~(a.runes >= longRun)
    <3> DEFINE done == SubSeq(s, a.last + 1, m)
               all == SubSeq(s, a.last + 1, n)
    <3>1. e.out = a.out /\ e.last = a.last
      BY <1>4, <1>11, <2>4
    <3>2. Done(q) = a.out \o Append(all, c)
      BY <1>5, <1>6, <1>7, <2>1, <3>1
    <3>3. all = done \o Run(s)
      <4> DEFINE k == a.last + 1
      <4>1. k \in 1 .. n + 1 /\ m \in k - 1 .. n /\ n \in m .. n
        BY <1>1, <1>3, <1>7
      <4> HIDE DEF k, m
      <4>2. SubSeq(s, k, m) \o SubSeq(s, m + 1, n) = SubSeq(s, k, n)
        BY <1>1, <4>1, ConcatAdjacentSubSeq DEF n
      <4> QED
        BY <1>5, <4>2 DEF k
    <3>4. done \in Seq(Cs)
      <4>1. m \in Int /\ m <= Len(s)
        BY <1>7 DEF n
      <4> HIDE DEF m
      <4> QED
        BY <1>1, <1>7, <4>1, PieceType
    <3>a. Done(s) = a.out \o done
      BY <1>5
    <3> HIDE DEF done, all
    <3>5. \A x \in Seq(Cs), y \in Seq(Cs), d \in Cs : x \o Append(y, d) = Append(x \o y, d)
      BY ConcatAppend
    <3>6. all \in Seq(Cs)
      BY <1>9, <3>3, <3>4, ConcatProperties
    <3>7. Done(q) = Append(a.out \o all, c)
      BY <1>1, <1>3, <3>2, <3>5, <3>6
    <3>b. \A x, y, z \in Seq(Cs) : (x \o y) \o z = x \o (y \o z)
      <4>1. Regroups(Cs)
        BY RegroupsAll
      <4> QED
        BY <4>1 DEF Regroups
    <3>8. (a.out \o done) \o Run(s) = a.out \o (done \o Run(s))
      BY <1>3, <1>9, <3>4, <3>b
    <3>9. a.out \o all = removeLongRuns(s)
      BY <1>9, <2>4, <3>3, <3>8, <3>a
    <3> QED
      BY <1>11, <2>2, <3>7, <3>9 DEF q
  <2> QED
    BY <2>3, <2>4
<1> QED
  BY <1>10, <1>11

LEMMA LongRunsParted ==
  ASSUME NEW x \in Seq(Chars), NEW b \in Blank, NEW t \in Seq(Vis)
  PROVE  /\ removeLongRuns(t) = IF Len(t) >= longRun THEN <<>> ELSE t
         /\ removeLongRuns(x \o <<b>> \o t) = removeLongRuns(x) \o <<b>> \o removeLongRuns(t)
<1> DEFINE Cs == Chars
           V == Vis
           u == Append(x, b)
           D(z) == Done(z)
           R(z) == Run(z)
           S == {z \in Seq(V) : D(u \o z) = D(u) /\ R(u \o z) = z}
           T == {z \in Seq(V) : D(z) = <<>> /\ R(z) = z}
<1>1. b \in Cs /\ ~Visible(b) /\ V \subseteq Cs /\ \A c \in V : Visible(c)
  BY VisFacts
<1>2. u \in Seq(Cs) /\ x \o <<b>> = u /\ x \in Seq(Cs)
  BY <1>1
<1>3. D(u) = Append(removeLongRuns(x), b) /\ R(u) = <<>>
  <2> HIDE DEF D, R
  <2> QED
    BY <1>1, RunSnoc DEF D, R
<1>4. \A z \in Seq(Cs), c \in Cs : Visible(c) => D(Append(z, c)) = D(z) /\ R(Append(z, c)) = Append(R(z), c)
  BY RunSnoc
<1>5. \A z \in Seq(Cs) :
        removeLongRuns(z) = IF Len(R(z)) >= longRun THEN D(z) ELSE D(z) \o R(z)
  BY RunFacts
<1>6. D(<<>>) = <<>> /\ R(<<>>) = <<>>
  <2> DEFINE none == <<>>
  <2>1. none \in Seq(Chars) /\ Len(none) = 0
    OBVIOUS
  <2>3. R(none) \in Seq(Chars) /\ Len(R(none)) = LongRunLoop(none).runes
        /\ D(none) \in Seq(Chars)
        /\ removeLongRuns(none) = IF Len(R(none)) >= longRun THEN D(none) ELSE D(none) \o R(none)
    BY <2>1, RunFacts
  <2>4. LongRunLoop(none).runes = 0
    BY NoLongRuns DEF LongRunStart
  <2> HIDE DEF D, R
  <2>5. R(none) = <<>>
    BY <2>3, <2>4
  <2>a. Len(R(none)) = 0 /\ longRun \in Nat /\ longRun > 0
    BY <2>3, <2>4, Constants
  <2>b. removeLongRuns(none) = D(none) \o R(none)
    BY <2>3, <2>a
  <2>c. D(none) \o <<>> = D(none)
    BY <2>3
  <2>6. removeLongRuns(none) = D(none)
    BY <2>5, <2>b, <2>c
  <2>7. removeLongRuns(none) = <<>>
    BY NoLongRuns
  <2> QED
    BY <2>5, <2>6, <2>7
<1>7. x \o <<b>> \o t = u \o t /\ t \in Seq(V) /\ t \in Seq(Cs)
  <2>1. t \in Seq(Cs)
    BY <1>1, SeqMonotonic
  <2> QED
    BY <1>2, <2>1
<1>8. removeLongRuns(x) \in Seq(Cs)
  BY <1>2, removeLongRunsType
<1> HIDE DEF Cs, V, u, D, R
<1>9. <<>> \in S
  BY <1>2, <1>3
<1>10. ASSUME NEW z \in Seq(V), z \in S, NEW c \in V PROVE Append(z, c) \in S
  <2>1. z \in Seq(Cs) /\ c \in Cs /\ Visible(c) /\ Append(z, c) \in Seq(V)
    BY <1>1, SeqMonotonic
  <2>2. u \o Append(z, c) = Append(u \o z, c) /\ u \o z \in Seq(Cs)
    BY <1>2, <2>1
  <2>3. D(Append(u \o z, c)) = D(u \o z) /\ R(Append(u \o z, c)) = Append(R(u \o z), c)
    BY <1>4, <2>1, <2>2
  <2> QED
    BY <1>10, <2>1, <2>2, <2>3
<1>11. <<>> \in T
  BY <1>6
<1>12. ASSUME NEW z \in Seq(V), z \in T, NEW c \in V PROVE Append(z, c) \in T
  <2>1. z \in Seq(Cs) /\ c \in Cs /\ Visible(c) /\ Append(z, c) \in Seq(V)
    BY <1>1, SeqMonotonic
  <2>2. D(Append(z, c)) = D(z) /\ R(Append(z, c)) = Append(R(z), c)
    BY <1>4, <2>1
  <2> QED
    BY <1>12, <2>1, <2>2
<1>13. Seq(V) \subseteq S
  <2> HIDE DEF S
  <2> QED
    BY <1>9, <1>10, SeqInduct
<1>14. Seq(V) \subseteq T
  <2> HIDE DEF T
  <2> QED
    BY <1>11, <1>12, SeqInduct
<1>15. D(t) = <<>> /\ R(t) = t /\ D(u \o t) = D(u) /\ R(u \o t) = t
  BY <1>7, <1>13, <1>14
<1>16. removeLongRuns(t) = IF Len(t) >= longRun THEN <<>> ELSE t
  <2>1. removeLongRuns(t) = IF Len(t) >= longRun THEN <<>> ELSE <<>> \o t
    BY <1>5, <1>7, <1>15
  <2>2. <<>> \o t = t
    BY <1>7
  <2> QED
    BY <2>1, <2>2
<1>17. removeLongRuns(u \o t) = IF Len(t) >= longRun THEN D(u) ELSE D(u) \o t
  <2>1. u \o t \in Seq(Cs)
    BY <1>2, <1>7
  <2> QED
    BY <1>5, <1>15, <2>1
<1>18. D(u) = removeLongRuns(x) \o <<b>> /\ D(u) \in Seq(Cs)
  BY <1>1, <1>3, <1>8
<1>19. D(u) \o <<>> = D(u)
  BY <1>18
<1>20. removeLongRuns(u \o t) = D(u) \o removeLongRuns(t)
  BY <1>16, <1>17, <1>19
<1> QED
  BY <1>7, <1>16, <1>18, <1>20

----------------------------------------------------------------------------
(* A line is normalized token by token *)

LEMMA RemovalsParted ==
  ASSUME NEW x \in Seq(Chars), NEW b \in Blank, NEW t \in Seq(Chars)
  PROVE  /\ removeEmails(x) \in Seq(Chars) /\ removeURLs(x) \in Seq(Chars)
         /\ removeEmails(x \o <<b>> \o t) = removeEmails(x) \o <<b>> \o removeEmails(t)
         /\ removeURLs(x \o <<b>> \o t) = removeURLs(x) \o <<b>> \o removeURLs(t)
         /\ removePyWhitespace(x \o <<b>> \o t) = removePyWhitespace(x) \o removePyWhitespace(t)
<1> DEFINE Cs == Chars
           u == x \o <<b>> \o t
           W == {c \in Chars : Visible(c)}
           K(s, cut) == Kept(s, cut)
<1>1. removeEmails(x) \in Seq(Cs) /\ removeURLs(x) \in Seq(Cs)
  BY KeptType DEF removeEmails, removeURLs
<1>2. removeEmails(u) = removeEmails(x) \o <<b>> \o removeEmails(t)
  <2>1. CutParted(x, t, Addresses(u), Addresses(x), Addresses(t))
    BY AddressesParted
  <2>2. \A cut, l, r : CutParted(x, t, cut, l, r) => Kept(u, cut) = Kept(x, l) \o <<b>> \o Kept(t, r)
    BY KeptParted
  <2> HIDE DEF u
  <2>3. Kept(u, Addresses(u)) = Kept(x, Addresses(x)) \o <<b>> \o Kept(t, Addresses(t))
    BY <2>1, <2>2
  <2> QED
    BY <2>3, RemovalDefs
<1>3. removeURLs(u) = removeURLs(x) \o <<b>> \o removeURLs(t)
  <2>1. CutParted(x, t, Links(u), Links(x), Links(t))
    BY LinksParted
  <2>2. \A cut, l, r : CutParted(x, t, cut, l, r) => Kept(u, cut) = Kept(x, l) \o <<b>> \o Kept(t, r)
    BY KeptParted
  <2> HIDE DEF u
  <2>3. Kept(u, Links(u)) = Kept(x, Links(x)) \o <<b>> \o Kept(t, Links(t))
    BY <2>1, <2>2
  <2> QED
    BY <2>3, RemovalDefs
<1>4. removePyWhitespace(u) = removePyWhitespace(x) \o removePyWhitespace(t)
  <2> DEFINE F(s) == Sift(s, W)
             v == Append(x, b)
  <2>1. b \in Cs /\ b \notin W
    BY VisFacts
  <2>2. v \in Seq(Cs) /\ v = x \o <<b>> /\ t \in Seq(Cs) /\ x \in Seq(Cs)
    BY <2>1
  <2> HIDE DEF W
  <2>3. \A y, z \in Seq(Cs) : F(y \o z) = F(y) \o F(z)
    <3> HIDE DEF Cs
    <3> QED
      BY SiftConcat
  <2>4. \A y \in Seq(Cs), c \in Cs : F(Append(y, c)) = IF c \in W THEN Append(F(y), c) ELSE F(y)
    <3> HIDE DEF Cs
    <3>1. Sifting(Cs, W)
      BY SiftFacts
    <3> QED
      BY <3>1 DEF Sifting
  <2>5. F(v) = F(x)
    BY <2>1, <2>2, <2>4
  <2> HIDE DEF F, v, Cs
  <2>6. F(v \o t) = F(x) \o F(t)
    BY <2>2, <2>3, <2>5
  <2> QED
    BY <2>2, <2>6 DEF F, W, removePyWhitespace
<1> QED
  BY <1>1, <1>2, <1>3, <1>4 DEF u, Cs

\* What normalize does after the NULs are gone.
Stripped(s) == removePyWhitespace(removeURLs(removeEmails(removeLongRuns(s))))

LEMMA StrippedParted ==
  ASSUME NEW x \in Seq(Chars), NEW b \in Blank, NEW t \in Seq(Vis)
  PROVE  Stripped(x \o <<b>> \o t) = Stripped(x) \o Stripped(t)
<1> DEFINE Cs == Chars
           x1 == removeLongRuns(x)
           t1 == removeLongRuns(t)
           x2 == removeEmails(x1)
           t2 == removeEmails(t1)
           x3 == removeURLs(x2)
           t3 == removeURLs(t2)
           join(y, z) == y \o <<b>> \o z
<1>1. t \in Seq(Cs)
  BY VisFacts, SeqMonotonic
<1>2. removeLongRuns(join(x, t)) = join(x1, t1)
  BY LongRunsParted
<1>3. x1 \in Seq(Cs) /\ t1 \in Seq(Cs)
  BY <1>1, removeLongRunsType
<1> HIDE DEF x1, t1
<1>4. \A y, z \in Seq(Cs) :
        /\ removeEmails(y) \in Seq(Cs) /\ removeURLs(y) \in Seq(Cs)
        /\ removeEmails(join(y, z)) = join(removeEmails(y), removeEmails(z))
        /\ removeURLs(join(y, z)) = join(removeURLs(y), removeURLs(z))
        /\ removePyWhitespace(join(y, z)) = removePyWhitespace(y) \o removePyWhitespace(z)
  BY RemovalsParted
<1> HIDE DEF Cs, join
<1>5. removeEmails(join(x1, t1)) = join(x2, t2) /\ x2 \in Seq(Cs) /\ t2 \in Seq(Cs)
  BY <1>3, <1>4
<1> HIDE DEF x2, t2
<1>6. removeURLs(join(x2, t2)) = join(x3, t3) /\ x3 \in Seq(Cs) /\ t3 \in Seq(Cs)
  BY <1>4, <1>5
<1> HIDE DEF x3, t3
<1>7. removePyWhitespace(join(x3, t3)) = removePyWhitespace(x3) \o removePyWhitespace(t3)
  BY <1>4, <1>6
<1>8. Stripped(join(x, t)) = removePyWhitespace(x3) \o removePyWhitespace(t3)
  BY <1>2, <1>5, <1>6, <1>7 DEF Stripped
<1>9. Stripped(x) = removePyWhitespace(x3) /\ Stripped(t) = removePyWhitespace(t3)
  BY DEF Stripped, x1, t1, x2, t2, x3, t3
<1> QED
  BY <1>8, <1>9 DEF join

\* All positions of a text without blanks are one token.
LEMMA OneToken ==
  ASSUME NEW t \in Seq(Vis), NEW i \in 1 .. Len(t)
  PROVE  Visible(t[i]) /\ Token(t, i) = 1 .. Len(t)
<1> DEFINE n == Len(t)
           V == Vis
<1>1. \A c \in V : Visible(c)
  BY VisFacts
<1>2. t \in Seq(V) /\ i \in 1 .. n
  OBVIOUS
<1> HIDE DEF V
<1>3. n \in Nat /\ DOMAIN t = 1 .. n /\ \A k \in 1 .. n : t[k] \in V
  BY <1>2
<1>4. \A k \in 1 .. n : Visible(t[k])
  BY <1>1, <1>3
<1> HIDE DEF n
<1>5. ASSUME NEW j \in 1 .. n PROVE \A k \in (i .. j) \cup (j .. i) : Visible(t[k])
  <2>1. \A k \in (i .. j) \cup (j .. i) : k \in 1 .. n
    BY <1>2, <1>3
  <2> QED
    BY <1>4, <2>1
<1>6. Token(t, i) = 1 .. n
  BY <1>3, <1>5 DEF Token
<1> QED
  BY <1>2, <1>4, <1>6 DEF n

HasAddress(t) == \E j \in 2 .. Len(t) - 1 : t[j] = "@"

LEMMA OneAddress ==
  ASSUME NEW t \in Seq(Vis)
  PROVE  removeEmails(t) = IF HasAddress(t) THEN <<>> ELSE t
<1> DEFINE n == Len(t)
           D == 1 .. n
           here == \E j \in D : t[j] = "@" /\ {j - 1, j + 1} \subseteq D
<1>1. n \in Nat /\ DOMAIN t = D
  OBVIOUS
<1>2. \A i \in D : Visible(t[i]) /\ Token(t, i) = D
  BY OneToken
<1>3. here <=> HasAddress(t)
  <2>1. ASSUME NEW j \in D, t[j] = "@", {j - 1, j + 1} \subseteq D PROVE HasAddress(t)
    <3>1. j - 1 \in 1 .. n /\ j + 1 \in 1 .. n
      BY <2>1
    <3>2. j \in 2 .. n - 1
      BY <1>1, <3>1
    <3> QED
      BY <2>1, <3>2 DEF HasAddress
  <2>2. ASSUME NEW j \in 2 .. n - 1, t[j] = "@" PROVE here
    <3>1. j \in D /\ j - 1 \in D /\ j + 1 \in D
      BY <1>1
    <3> HIDE DEF D
    <3> QED
      BY <2>2, <3>1
  <2> QED
    BY <2>1, <2>2 DEF HasAddress
<1> HIDE DEF D
<1>4. \A i \in D : AddressAt(t, i) <=> here
  BY <1>2 DEF AddressAt
<1> HIDE DEF here
<1>5. removeEmails(t) = Kept(t, Addresses(t))
  BY RemovalDefs
<1>6. CASE here
  <2>1. \A i \in DOMAIN t : i \in Addresses(t)
    BY <1>1, <1>4, <1>6 DEF Addresses
  <2>2. Kept(t, Addresses(t)) = <<>>
    BY <2>1, KeptGone
  <2> QED
    BY <1>3, <1>5, <1>6, <2>2
<1>7. CASE ~here
  <2>1. \A i \in DOMAIN t : i \notin Addresses(t)
    BY <1>1, <1>4, <1>7 DEF Addresses
  <2>2. Kept(t, Addresses(t)) = t
    BY <2>1, KeptNone
  <2> QED
    BY <1>3, <1>5, <1>7, <2>2
<1> QED
  BY <1>6, <1>7

Schemes(t) ==
  {p \in DOMAIN t : \E q \in p + 1 .. Len(t) - 1 : t[q] = ":" /\ \A k \in p .. q - 1 : t[k] = "a"}

LEMMA OneLink ==
  ASSUME NEW t \in Seq(Vis)
  PROVE  removeURLs(t) = IF Schemes(t) = {} THEN t ELSE SubSeq(t, 1, Min(Schemes(t)) - 1)
<1> DEFINE n == Len(t)
           D == 1 .. n
           Sc == Schemes(t)
           Scheme(p, q) == t[q] = ":" /\ \A k \in p .. q - 1 : t[k] = "a"
<1>1. n \in Nat /\ DOMAIN t = D
  OBVIOUS
<1>2. \A i \in D : Visible(t[i]) /\ Token(t, i) = D
  BY OneToken
<1>3. ASSUME NEW i \in D
      PROVE  i \in Links(t) <=> \E p \in D : \E q \in D : p <= i /\ p < q /\ q + 1 \in D /\ Scheme(p, q)
  <2>1. LinkAt(t, i) <=> \E p \in D : \E q \in D :
          p <= i /\ p < q /\ t[q] = ":" /\ q + 1 \in D /\ \A k \in p .. q - 1 : t[k] = "a"
    <3> HIDE DEF D
    <3> QED
      BY <1>2 DEF LinkAt
  <2>2. i \in Links(t) <=> LinkAt(t, i)
    BY <1>1 DEF Links
  <2> HIDE DEF D
  <2> QED
    BY <2>1, <2>2
<1>4. \A p : p \in Sc <=> p \in D /\ \E q \in p + 1 .. n - 1 : Scheme(p, q)
  BY <1>1 DEF Schemes
<1> HIDE DEF Scheme, Sc
<1>5. ASSUME NEW i \in D PROVE i \in Links(t) <=> \E p \in Sc : p <= i
  <2>1. ASSUME NEW p \in D, NEW q \in D, p <= i, p < q, q + 1 \in D, Scheme(p, q)
        PROVE  p \in Sc
    <3>1. q \in p + 1 .. n - 1
      BY <1>1, <2>1
    <3> QED
      BY <1>4, <2>1, <3>1
  <2>2. ASSUME NEW p \in Sc, p <= i
        PROVE  \E e \in D : \E q \in D : e <= i /\ e < q /\ q + 1 \in D /\ Scheme(e, q)
    <3>1. PICK q \in p + 1 .. n - 1 : Scheme(p, q)
      BY <1>4
    <3>2. p \in D
      BY <1>4
    <3>3. q \in D /\ p < q /\ q + 1 \in D
      BY <1>1, <3>2
    <3> QED
      BY <2>2, <3>1, <3>2, <3>3
  <2> QED
    BY <1>3, <2>1, <2>2
<1>6. removeURLs(t) = Kept(t, Links(t))
  BY RemovalDefs
<1>7. CASE Sc = {}
  <2>1. \A i \in DOMAIN t : i \notin Links(t)
    BY <1>1, <1>5, <1>7
  <2>2. Kept(t, Links(t)) = t
    BY <2>1, KeptNone
  <2> QED
    BY <1>6, <1>7, <2>2 DEF Sc
<1>8. CASE Sc # {}
  <2> DEFINE m == Min(Sc)
             z == m - 1
             x == SubSeq(t, 1, z)
             y == SubSeq(t, z + 1, n)
             cut == Links(t)
  <2>1. Sc \in SUBSET (1 .. n)
    BY <1>4
  <2>2. m \in Sc /\ \A p \in Sc : m <= p
    BY <1>1, <1>8, <2>1, LeastShown
  <2>3. m \in 1 .. n
    BY <2>1, <2>2
  <2> HIDE DEF m
  <2>4. z \in Nat /\ z + 1 = m /\ z <= n /\ z \in Int
    BY <1>1, <2>3
  <2> HIDE DEF z
  <2>5. x \in Seq(Vis) /\ Len(x) = z /\ DOMAIN x = 1 .. z
    <3>1. x \in Seq(Vis) /\ Len(x) = z
      BY <1>1, <2>4
    <3> QED
      BY <3>1, LenProperties
  <2>6. y \in Seq(Vis) /\ Len(y) = n - z /\ DOMAIN y = 1 .. n - z
    <3> DEFINE w == z + 1
    <3>0. \A i \in w .. n : i \in 1 .. n
      BY <1>1, <2>4
    <3>a. \A i \in w .. n : t[i] \in Vis
      BY <3>0, ElementOfSeq
    <3>b. w \in Int /\ n \in Int /\ (IF w <= n THEN n - w + 1 ELSE 0) = n - z
      <4>1. CASE z = n
        BY <1>1, <2>4, <4>1
      <4>2. CASE z # n
        <5>a. z \in Nat /\ n \in Nat /\ z <= n
          BY <1>1, <2>4
        <5> HIDE DEF n, D
        <5>1. z + 1 <= n /\ n - (z + 1) + 1 = n - z /\ z + 1 \in Int /\ n \in Int
          BY <4>2, <5>a
        <5> QED
          BY <5>1
      <4> QED
        BY <4>1, <4>2
    <3> HIDE DEF w
    <3>c. SubSeq(t, w, n) \in Seq(Vis) /\ Len(SubSeq(t, w, n)) = IF w <= n THEN n - w + 1 ELSE 0
      BY <3>a, <3>b, SubSeqProperties
    <3>1. y \in Seq(Vis) /\ Len(y) = n - z
      BY <3>b, <3>c DEF w
    <3> QED
      BY <3>1, LenProperties
  <2>7. x \o y = t
    <3>1. 1 \in 1 .. n + 1 /\ z \in 1 - 1 .. n /\ n \in z .. n
      BY <1>1, <2>4
    <3>2. SubSeq(t, 1, z) \o SubSeq(t, z + 1, n) = SubSeq(t, 1, n)
      BY <3>1, ConcatAdjacentSubSeq
    <3> QED
      BY <3>2, SubSeqFull
  <2> HIDE DEF x, y
  <2>8. ASSUME NEW i \in DOMAIN x PROVE i \notin cut
    <3>1. i \in D /\ i < m
      BY <1>1, <2>4, <2>5
    <3>2. ASSUME NEW p \in Sc PROVE ~(p <= i)
      <4>1. p \in 1 .. n /\ m <= p
        BY <2>1, <2>2
      <4> QED
        BY <2>3, <3>1, <4>1
    <3> QED
      BY <1>5, <3>1, <3>2
  <2>9. ASSUME NEW j \in DOMAIN y PROVE Len(x) + j \in cut
    <3>1. z + j \in D /\ m <= z + j
      BY <1>1, <2>4, <2>6
    <3> QED
      BY <1>5, <2>2, <2>5, <3>1
  <2> HIDE DEF cut
  <2>10. Kept(x, cut) = x
    BY <2>5, <2>8, KeptNone
  <2> DEFINE all == Shifted(Len(x), cut)
  <2>11. Kept(y, all) = <<>>
    <3>1. \A j \in DOMAIN y : j \in Nat
      BY <2>6
    <3>2. \A j \in DOMAIN y : j \in all
      BY <2>9, <3>1 DEF Shifted
    <3> HIDE DEF all
    <3> QED
      BY <2>6, <3>2, KeptGone
  <2>12. Kept(x \o y, cut) = Kept(x, cut) \o Kept(y, all)
    BY <2>5, <2>6, KeptConcat
  <2>13. x \o <<>> = x
    BY <2>5
  <2>14. removeURLs(t) = x
    BY <1>6, <2>7, <2>10, <2>11, <2>12, <2>13 DEF cut
  <2> QED
    BY <1>8, <2>14 DEF x, z, m, Sc
<1> QED
  BY <1>7, <1>8

LEMMA StrippedToken ==
  ASSUME NEW t \in Seq(Vis)
  PROVE  Stripped(t) = Reduced(t) /\ Reduced(t) \in Seq(Chars)
<1> DEFINE V == Vis
           long == Len(t) >= longRun
           none == <<>>
           short == SubSeq(t, 1, Min(Schemes(t)) - 1)
<1>1. \A s \in Seq(V) : removeLongRuns(s) = IF Len(s) >= longRun THEN <<>> ELSE s
  <2>1. "LF" \in Blank /\ <<>> \in Seq(Chars)
    BY DEF Blank, Breaks
  <2> QED
    BY <2>1, LongRunsParted
<1>2. \A s \in Seq(V) : removeEmails(s) = IF HasAddress(s) THEN <<>> ELSE s
  BY OneAddress
<1>3. \A s \in Seq(V) : removeURLs(s) = IF Schemes(s) = {} THEN s ELSE SubSeq(s, 1, Min(Schemes(s)) - 1)
  BY OneLink
<1>4. \A s \in Seq(V) : removePyWhitespace(s) = s
  <2> DEFINE W == {c \in Chars : Visible(c)}
  <2>1. V \subseteq W
    BY VisFacts
  <2> HIDE DEF V, W
  <2>2. \A s \in Seq(V) : Sift(s, W) = s
    BY <2>1, SiftAll
  <2> QED
    BY <2>2 DEF W, removePyWhitespace
<1>5. none \in Seq(V) /\ Schemes(none) = {} /\ ~HasAddress(none)
  BY DEF Schemes, HasAddress
<1>6. Reduced(t) = IF long \/ HasAddress(t) THEN none ELSE IF Schemes(t) = {} THEN t ELSE short
  BY DEF Reduced, HasAddress, Schemes
<1>7. t \in Seq(V)
  OBVIOUS
<1>8. Schemes(t) # {} => short \in Seq(V)
  <2> DEFINE Sc == Schemes(t)
             n == Len(t)
             m == Min(Sc)
  <2>1. n \in Nat /\ Sc \in SUBSET (1 .. n)
    BY DEF Schemes
  <2> HIDE DEF Sc
  <2>2. Sc # {} => m \in Sc
    BY <2>1, LeastShown
  <2> HIDE DEF m
  <2>3. Sc # {} => m \in 1 .. n
    BY <2>1, <2>2
  <2>4. m \in 1 .. n => SubSeq(t, 1, m - 1) \in Seq(V)
    BY <1>7, <2>1
  <2> QED
    BY <2>3, <2>4 DEF m, Sc
<1> HIDE DEF V, none, short
<1>9. Reduced(t) \in Seq(V)
  BY <1>5, <1>6, <1>7, <1>8
<1>10. removeEmails(none) = none /\ removeURLs(none) = none /\ removePyWhitespace(none) = none
  BY <1>2, <1>3, <1>4, <1>5 DEF none
<1>a. Reduced(t) \in Seq(Chars)
  BY <1>9, VisFacts, SeqMonotonic DEF V
<1>11. CASE long
  BY <1>1, <1>6, <1>7, <1>10, <1>11, <1>a DEF Stripped, none
<1>12. CASE ~long /\ HasAddress(t)
  BY <1>1, <1>2, <1>6, <1>7, <1>10, <1>12, <1>a DEF Stripped, none
<1>13. CASE ~long /\ ~HasAddress(t) /\ Schemes(t) = {}
  <2>1. removeLongRuns(t) = t
    BY <1>1, <1>7, <1>13
  <2>2. removeEmails(t) = t
    BY <1>2, <1>7, <1>13
  <2>3. removeURLs(t) = t
    BY <1>3, <1>7, <1>13
  <2>4. removePyWhitespace(t) = t
    BY <1>4, <1>7
  <2>5. Stripped(t) = t
    BY <2>1, <2>2, <2>3, <2>4 DEF Stripped
  <2>6. Reduced(t) = t
    <3> HIDE DEF long
    <3> QED
      BY <1>6, <1>13
  <2> QED
    BY <1>a, <2>5, <2>6
<1>14. CASE ~long /\ ~HasAddress(t) /\ Schemes(t) # {}
  <2>1. removeLongRuns(t) = t /\ removeEmails(t) = t
    BY <1>1, <1>2, <1>7, <1>14
  <2>2. removeURLs(t) = short
    BY <1>3, <1>7, <1>14 DEF short
  <2>3. removePyWhitespace(short) = short
    BY <1>4, <1>8, <1>14
  <2> QED
    <3>1. Stripped(t) = short
      BY <2>1, <2>2, <2>3 DEF Stripped
    <3>2. Reduced(t) = short
      <4> HIDE DEF long
      <4> QED
        BY <1>6, <1>14
    <3> QED
      BY <1>a, <3>1, <3>2
<1> QED
  BY <1>11, <1>12, <1>13, <1>14

Reductions(words) == [j \in DOMAIN words |-> Reduced(words[j])]

LEMMA ReductionsFacts ==
  /\ Reductions(<<>>) = <<>>
  /\ \A ws \in Seq(Seq(Vis)) : Reductions(ws) \in Seq(Seq(Chars))
  /\ \A ws \in Seq(Seq(Vis)), t \in Seq(Vis) :
       Reductions(Append(ws, t)) = Append(Reductions(ws), Reduced(t))
<1> DEFINE V == Seq(Vis)
           C == Seq(Chars)
<1>1. \A t \in V : Reduced(t) \in C
  BY StrippedToken
<1> HIDE DEF V, C
<1>2. ASSUME NEW ws \in Seq(V)
      PROVE  Reductions(ws) \in Seq(C) /\ Len(Reductions(ws)) = Len(ws)
             /\ \A j \in 1 .. Len(ws) : Reductions(ws)[j] = Reduced(ws[j])
  <2>1. Len(ws) \in Nat /\ DOMAIN ws = 1 .. Len(ws) /\ \A j \in 1 .. Len(ws) : ws[j] \in V
    OBVIOUS
  <2>2. Reductions(ws) = [j \in 1 .. Len(ws) |-> Reduced(ws[j])]
    BY <2>1 DEF Reductions
  <2>3. \A j \in 1 .. Len(ws) : Reduced(ws[j]) \in C
    BY <1>1, <2>1
  <2> QED
    BY <2>1, <2>2, <2>3
<1>3. Reductions(<<>>) = <<>>
  BY DEF Reductions
<1>4. ASSUME NEW ws \in Seq(V), NEW t \in V
      PROVE  Reductions(Append(ws, t)) = Append(Reductions(ws), Reduced(t))
  <2> DEFINE n == Len(ws)
             q == Append(ws, t)
             l == Reductions(q)
             R == Reductions(ws)
             d == Reduced(t)
             r == Append(R, d)
  <2>1. n \in Nat /\ q \in Seq(V) /\ Len(q) = n + 1 /\ q[n + 1] = t
        /\ \A j \in 1 .. n : q[j] = ws[j]
    OBVIOUS
  <2>2. l \in Seq(C) /\ Len(l) = n + 1 /\ \A j \in 1 .. n + 1 : l[j] = Reduced(q[j])
    BY <1>2, <2>1
  <2>3. R \in Seq(C) /\ Len(R) = n /\ \A j \in 1 .. n : R[j] = Reduced(ws[j])
    BY <1>2
  <2>4. d \in C
    BY <1>1
  <2> HIDE DEF n, q, l, R, d
  <2>5. r \in Seq(C) /\ Len(r) = n + 1 /\ r[n + 1] = d /\ \A j \in 1 .. n : r[j] = R[j]
    BY <2>1, <2>3, <2>4
  <2> HIDE DEF r
  <2>6. \A j \in 1 .. n + 1 : l[j] = r[j]
    <3> TAKE j \in 1 .. n + 1
    <3>1. j \in 1 .. n \/ j = n + 1
      BY <2>1
    <3> QED
      BY <2>1, <2>2, <2>3, <2>5, <3>1 DEF d
  <2>7. l = r
    BY <2>1, <2>2, <2>5, <2>6, SeqEqual
  <2> QED
    BY <2>7 DEF l, q, r, R, d
<1> QED
  BY <1>2, <1>3, <1>4 DEF V, C

LEMMA StrippedByToken ==
  ASSUME NEW s \in Seq(Chars)
  PROVE  Stripped(s) = FlattenSeq(Reductions(Tokens(s)))
<1> DEFINE Cs == Chars
           V == Vis
           C == Seq(Chars)
           F(ws) == FlattenSeq(Reductions(ws))
           Good(z) == Stripped(z) = F(Tokens(z))
           S == {z \in Seq(Cs) : Good(z)}
<1>1. \A t \in Seq(V) : Stripped(t) = Reduced(t) /\ Reduced(t) \in C
  BY StrippedToken
<1>2. \A ws \in Seq(Seq(V)), t \in Seq(V) :
        F(ws) \in C /\ F(Append(ws, t)) = F(ws) \o Reduced(t)
  <2> TAKE ws \in Seq(Seq(V)), t \in Seq(V)
  <2>1. Reductions(ws) \in Seq(C) /\ Reduced(t) \in C
    BY <1>1, ReductionsFacts
  <2>2. Reductions(Append(ws, t)) = Append(Reductions(ws), Reduced(t))
    BY ReductionsFacts
  <2>3. /\ \A ss \in Seq(C) : FlattenSeq(ss) \in C
        /\ \A ss \in Seq(C), x \in C : FlattenSeq(Append(ss, x)) = FlattenSeq(ss) \o x
    BY FlattenFacts
  <2> HIDE DEF C, V
  <2> QED
    BY <2>1, <2>2, <2>3
<1>3. F(<<>>) = <<>>
  BY ReductionsFacts, FlattenFacts
<1>4. \A t \in Seq(V) : Tokens(t) = IF t = <<>> THEN <<>> ELSE <<t>>
  BY WordsVisible
<1>5. \A x \in Seq(Cs), b \in Blank, t \in Seq(V) :
        /\ x \o <<b>> \o t \in Seq(Cs)
        /\ Tokens(x \o <<b>> \o t) = Tokens(x) \o Tokens(t)
        /\ Stripped(x \o <<b>> \o t) = Stripped(x) \o Stripped(t)
        /\ Tokens(x) \in Seq(Seq(V))
  <2> TAKE x \in Seq(Cs), b \in Blank, t \in Seq(V)
  <2>1. t \in Seq(Cs)
    BY VisFacts, SeqMonotonic
  <2>2. x \o <<b>> \o t \in Seq(Cs)
    BY <2>1, PartedFacts
  <2>3. Tokens(x \o <<b>> \o t) = Tokens(x) \o Tokens(t)
    BY <2>1, TokensParted
  <2>4. Stripped(x \o <<b>> \o t) = Stripped(x) \o Stripped(t)
    BY StrippedParted
  <2>5. Tokens(x) \in Seq(Seq(V))
    BY TokensType
  <2> QED
    BY <2>2, <2>3, <2>4, <2>5
<1>6. Reduced(<<>>) = <<>>
  <2>1. Stripped(<<>>) = <<>>
    <3>1. WithoutNUL(<<>>) = <<>>
      BY SiftFacts DEF Sifting, WithoutNUL
    <3>2. normalize(<<>>) = Stripped(WithoutNUL(<<>>))
      BY DEF normalize, Stripped
    <3> QED
      BY <3>1, <3>2, normalizeNothing
  <2>2. <<>> \in Seq(V)
    OBVIOUS
  <2> QED
    BY <1>1, <2>1, <2>2
<1>a. Seq(V) \subseteq Seq(Cs)
  BY VisFacts, SeqMonotonic
<1> DEFINE nothing == <<>>
<1>b. nothing \in Seq(Seq(V)) /\ \A w \in C : nothing \o w = w
  OBVIOUS
<1>c. \A w : <<w>> = Append(<<>>, w)
  OBVIOUS
<1>d. \A w \in C : w \o <<>> = w
  OBVIOUS
<1>e. \A ws \in Seq(Seq(V)), t \in Seq(V) : ws \o <<t>> = Append(ws, t) /\ ws \o <<>> = ws
  <2> HIDE DEF V
  <2> QED
    OBVIOUS
<1> HIDE DEF Cs, V, C, F
<1>7. ASSUME NEW t \in Seq(V) PROVE t \in S
  <2>1. CASE t = <<>>
    BY <1>1, <1>3, <1>4, <1>6, <1>a, <2>1
  <2>2. CASE t # <<>>
    <3>1. Tokens(t) = Append(nothing, t)
      BY <1>4, <1>c, <2>2
    <3>2. F(Append(nothing, t)) = F(nothing) \o Reduced(t)
      BY <1>2, <1>b
    <3>3. F(Tokens(t)) = Reduced(t)
      BY <1>1, <1>3, <1>b, <3>1, <3>2
    <3> QED
      BY <1>1, <1>a, <3>3
  <2> QED
    BY <2>1, <2>2
<1>8. ASSUME NEW x \in Seq(Cs), NEW b \in Blank, NEW t \in Seq(V), x \in S
      PROVE  x \o <<b>> \o t \in S
  <2> DEFINE u == x \o <<b>> \o t
  <2>1. /\ u \in Seq(Cs) /\ Tokens(u) = Tokens(x) \o Tokens(t)
        /\ Stripped(u) = Stripped(x) \o Stripped(t) /\ Tokens(x) \in Seq(Seq(V))
    BY <1>5
  <2> HIDE DEF u
  <2>2. Stripped(x) = F(Tokens(x)) /\ Stripped(t) = Reduced(t) /\ Reduced(t) \in C
    BY <1>1, <1>8
  <2>3. F(Tokens(x)) \in C
    BY <1>2, <2>1
  <2>4. CASE t = <<>>
    <3>1. Tokens(u) = Tokens(x)
      BY <1>4, <1>e, <2>1, <2>4
    <3>2. Stripped(u) = F(Tokens(x))
      BY <1>6, <1>d, <2>1, <2>2, <2>3, <2>4
    <3> QED
      BY <2>1, <3>1, <3>2 DEF u
  <2>5. CASE t # <<>>
    <3>1. Tokens(u) = Append(Tokens(x), t)
      BY <1>4, <1>e, <2>1, <2>5
    <3>2. F(Append(Tokens(x), t)) = F(Tokens(x)) \o Reduced(t)
      BY <1>2, <2>1
    <3> QED
      BY <2>1, <2>2, <3>1, <3>2 DEF u
  <2> QED
    BY <2>4, <2>5
<1>9. Seq(Cs) \subseteq S
  <2>1. Seq(Vis) \subseteq S
    BY <1>7 DEF V
  <2>2. \A x \in Seq(Chars), b \in Blank, t \in Seq(Vis) : x \in S => x \o <<b>> \o t \in S
    BY <1>8 DEF V, Cs
  <2> HIDE DEF S
  <2>3. Seq(Chars) \subseteq S
    BY <2>1, <2>2, WordInduct
  <2> QED
    BY <2>3 DEF Cs
<1> QED
  BY <1>9 DEF Cs, F

\* Every line of every payload leaves what its tokens leave, in order.
THEOREM NormalizesByTokenHolds == Spec => []NormalizesByToken
<1>1. TypeInv => NormalizesByToken
  <2> SUFFICES ASSUME TypeInv, NEW k \in DOMAIN payloads, NEW i \in DOMAIN splitLines(payloads[k])
               PROVE  LET line == splitLines(payloads[k])[i]
                          tokens == Tokens(WithoutNUL(line))
                      IN normalize(line) = FlattenSeq([j \in DOMAIN tokens |-> Reduced(tokens[j])])
    BY DEF NormalizesByToken
  <2> DEFINE text == payloads[k]
             line == splitLines(text)[i]
             s == WithoutNUL(line)
             C == Seq(Chars)
  <2>1. text \in C
    BY ElementOfSeq DEF TypeInv
  <2>2. splitLines(text) \in Seq(C)
    BY <2>1, splitLinesType
  <2> HIDE DEF text
  <2>3. line \in C
    <3> HIDE DEF C
    <3> QED
      BY <2>2 DEF text
  <2> HIDE DEF line
  <2>4. s \in Seq(Chars)
    <3> DEFINE Cs == Chars
               W == Chars \ {"NUL"}
    <3>1. Cs \cap W \subseteq Cs /\ line \in Seq(Cs)
      BY <2>3
    <3> HIDE DEF Cs, W
    <3>2. Sift(line, W) \in Seq(Cs \cap W)
      BY <3>1, SiftFacts DEF Sifting
    <3>3. Sift(line, W) \in Seq(Cs)
      BY <3>1, <3>2, SeqMonotonic
    <3> QED
      BY <3>3 DEF Cs, W, WithoutNUL
  <2>5. normalize(line) = Stripped(s)
    BY DEF normalize, Stripped
  <2> HIDE DEF s
  <2>6. Stripped(s) = FlattenSeq(Reductions(Tokens(s)))
    BY <2>4, StrippedByToken
  <2>7. normalize(line) = FlattenSeq([j \in DOMAIN Tokens(s) |-> Reduced(Tokens(s)[j])])
    BY <2>5, <2>6 DEF Reductions
  <2> QED
    BY <2>7 DEF s, line, text
<1> QED
  BY <1>1, SpecTypeInv, PTL

=============================================================================
