--------------------------- MODULE GatewayProofs ---------------------------
(* Proofs about Gateway: the maps stay within their limits, a sender's history and      *)
(* outbox are the sender's own, what was just written is kept, and the rate is kept, for *)
(* any senders, sizes, times and limits.                                                 *)
(*                                                                                       *)
(* The first part is about BoundedMap: what sums, filters and the operations of a map    *)
(* return, for sequences and maps of any length.  The recursive functions are reasoned   *)
(* about by induction over an interval, which the well-foundedness of the naturals gives. *)
EXTENDS Gateway, SequenceTheorems, WellFoundedInduction, FiniteSetTheorems, TLAPS

-----------------------------------------------------------------------------
(* Induction and recursion over an interval. *)

LEMMA LeastExists ==
  ASSUME NEW S \in SUBSET Nat, S # {}
  PROVE  \E n \in S : \A m \in S : n <= m
<1> DEFINE R == OpToRel(<, Nat)
<1>1. \A x, y \in Nat : x < y => <<x, y>> \in R
  BY DEF OpToRel
<1>2. IsWellFoundedOn(R, Nat)
  BY NatLessThanWellFounded
<1> HIDE DEF R
<1>3. PICK n \in S : \A m \in S : ~(<<m, n>> \in R)
  BY <1>2, WFMin
<1>4. ASSUME NEW m \in S PROVE n <= m
  <2>1. m \in Nat /\ n \in Nat
    OBVIOUS
  <2>2. ~(m < n)
    BY <2>1, <1>1, <1>3
  <2> QED BY <2>1, <2>2
<1> QED BY <1>4

LEMMA IntervalInduction ==
  ASSUME NEW N \in Nat, NEW S, 0 \in S, \A n \in 1 .. N : n - 1 \in S => n \in S
  PROVE  0 .. N \subseteq S
<1> DEFINE Bad == (0 .. N) \ S
<1>1. SUFFICES ASSUME Bad # {} PROVE FALSE
  OBVIOUS
<1>2. PICK n \in Bad : \A m \in Bad : n <= m
  <2>1. Bad \in SUBSET Nat
    OBVIOUS
  <2> QED BY <1>1, <2>1, LeastExists
<1>3. n \in 1 .. N /\ n - 1 \in 0 .. N /\ ~(n <= n - 1)
  BY <1>2
<1>4. n - 1 \in S
  BY <1>2, <1>3
<1> QED BY <1>2, <1>3, <1>4

\* A recursion whose step is a function on V has a solution.
Steps(N, V) == [1 .. N -> [V -> V]]
Solutions(N, V, base, step) ==
  {g \in [0 .. N -> V] : g[0] = base /\ \A n \in 1 .. N : g[n] = step[n][g[n - 1]]}

LEMMA RecursionExists ==
  ASSUME NEW N \in Nat, NEW V, NEW base \in V, NEW step \in Steps(N, V)
  PROVE  \E g : g \in Solutions(N, V, base, step)
<1> DEFINE Solves(k, g) == g[0] = base /\ \A n \in 1 .. k : g[n] = step[n][g[n - 1]]
           S == {k \in 0 .. N : \E g \in [0 .. k -> V] : Solves(k, g)}
<1>0. step \in [1 .. N -> [V -> V]]
  BY DEF Steps
<1>1. 0 \in S
  <2> DEFINE h == [n \in 0 .. 0 |-> base]
  <2>1. h \in [0 .. 0 -> V] /\ Solves(0, h)
    OBVIOUS
  <2> HIDE DEF h, Solves
  <2> QED BY <2>1
<1>2. ASSUME NEW k \in 1 .. N, k - 1 \in S PROVE k \in S
  <2>1. PICK g \in [0 .. k - 1 -> V] : Solves(k - 1, g)
    BY <1>2
  <2> DEFINE h == [n \in 0 .. k |-> IF n = k THEN step[k][g[k - 1]] ELSE g[n]]
  <2>2. g[k - 1] \in V /\ step[k][g[k - 1]] \in V
    BY <1>0
  <2>3. h \in [0 .. k -> V]
    BY <2>2
  <2>4. Solves(k, h)
    <3>1. h[0] = base
      BY <2>1
    <3>2. ASSUME NEW n \in 1 .. k PROVE h[n] = step[n][h[n - 1]]
      <4>1. CASE n = k
        <5>1. h[k] = step[k][g[k - 1]] /\ h[k - 1] = g[k - 1]
          OBVIOUS
        <5> QED BY <4>1, <5>1
      <4>2. CASE n # k
        BY <4>2, <2>1
      <4> QED BY <4>1, <4>2
    <3> HIDE DEF h
    <3> QED BY <3>1, <3>2
  <2> HIDE DEF h, Solves
  <2> QED BY <2>3, <2>4
<1>3. N \in S
  <2>1. 0 .. N \subseteq S
    <3> HIDE DEF S
    <3> QED BY <1>1, <1>2, IntervalInduction
  <2>2. N \in 0 .. N
    OBVIOUS
  <2> HIDE DEF S
  <2> QED BY <2>1, <2>2
<1> QED BY <1>3 DEF Solutions

\* Two functions that agree at 0, and at n when they agree before, are one.
Agree(N, f, g) == f[0] = g[0] /\ \A n \in 1 .. N : f[n - 1] = g[n - 1] => f[n] = g[n]

LEMMA RecursionUnique ==
  ASSUME NEW N \in Nat, NEW f, NEW g, Agree(N, f, g)
  PROVE  \A n \in 0 .. N : f[n] = g[n]
<1> DEFINE S == {n \in 0 .. N : f[n] = g[n]}
<1>1. 0 \in S /\ \A n \in 1 .. N : n - 1 \in S => n \in S
  BY DEF Agree
<1>2. 0 .. N \subseteq S
  <2> HIDE DEF S
  <2> QED BY <1>1, IntervalInduction
<1> QED BY <1>2

-----------------------------------------------------------------------------
(* Sums. *)

\* g holds the sums of the beginnings of s.
Sums(s, g) == g[0] = 0 /\ \A n \in 1 .. Len(s) : g[n] = g[n - 1] + s[n]

LEMMA SumUnfolds ==
  ASSUME NEW s \in Seq(Int)
  PROVE  \E g \in [0 .. Len(s) -> Int] : Sums(s, g) /\ SumOf(s) = g[Len(s)]
<1> DEFINE N == Len(s)
           U(h) == h = [n \in 0 .. N |-> IF n = 0 THEN 0 ELSE h[n - 1] + s[n]]
           c == CHOOSE h : U(h)
           step == [n \in 1 .. N |-> [v \in Int |-> v + s[n]]]
<1>0. N \in Nat /\ \A n \in 1 .. N : s[n] \in Int
  BY LenProperties
<1>1. SumOf(s) = c[N]
  BY DEF SumOf
<1>2. PICK g : g \in Solutions(N, Int, 0, step)
  <2>1. step \in Steps(N, Int)
    BY <1>0 DEF Steps
  <2>2. N \in Nat /\ 0 \in Int
    BY <1>0
  <2> HIDE DEF step
  <2> QED BY <2>1, <2>2, RecursionExists
<1>3. g \in [0 .. N -> Int] /\ Sums(s, g)
  <2>0. g \in [0 .. N -> Int] /\ g[0] = 0 /\ \A n \in 1 .. N : g[n] = step[n][g[n - 1]]
    <3> HIDE DEF step
    <3> QED BY <1>2 DEF Solutions
  <2>1. ASSUME NEW n \in 1 .. N PROVE g[n] = g[n - 1] + s[n]
    <3>1. g[n - 1] \in Int
      BY <1>0, <2>0, SMTT(60)
    <3>2. \A v \in Int : step[n][v] = v + s[n]
      OBVIOUS
    <3> HIDE DEF step
    <3> QED BY <2>0, <3>1, <3>2
  <2> QED BY <2>0, <2>1 DEF Sums
<1>4. U(g)
  BY <1>0, <1>3 DEF Sums
<1>5. U(c)
  <2> HIDE DEF U
  <2> QED BY <1>4
<1>6. c[0] = 0 /\ \A n \in 1 .. N : c[n] = c[n - 1] + s[n]
  <2>1. c = [n \in 0 .. N |-> IF n = 0 THEN 0 ELSE c[n - 1] + s[n]]
    BY <1>5
  <2> HIDE DEF c
  <2>2. ASSUME NEW n \in 0 .. N PROVE c[n] = IF n = 0 THEN 0 ELSE c[n - 1] + s[n]
    BY <2>1
  <2>3. 0 \in 0 .. N /\ \A n \in 1 .. N : n \in 0 .. N /\ n # 0
    BY <1>0
  <2> QED BY <2>2, <2>3
<1>7. \A n \in 0 .. N : c[n] = g[n]
  <2>1. Agree(N, c, g)
    <3> HIDE DEF c
    <3> QED BY <1>3, <1>6 DEF Sums, Agree
  <2>2. N \in Nat
    BY <1>0
  <2> HIDE DEF c
  <2> QED BY <2>1, <2>2, RecursionUnique, ZenonT(60)
<1> QED
  <2> HIDE DEF c
  <2> QED BY <1>0, <1>1, <1>3, <1>7

LEMMA SumIs ==
  ASSUME NEW s \in Seq(Int), NEW g, Sums(s, g)
  PROVE  SumOf(s) = g[Len(s)]
<1>1. PICK h \in [0 .. Len(s) -> Int] : Sums(s, h) /\ SumOf(s) = h[Len(s)]
  BY SumUnfolds
<1>2. Len(s) \in Nat
  BY LenProperties
<1>3. Agree(Len(s), h, g)
  BY <1>1 DEF Sums, Agree
<1>4. \A n \in 0 .. Len(s) : h[n] = g[n]
  BY <1>2, <1>3, RecursionUnique, ZenonT(60)
<1> QED BY <1>1, <1>2, <1>4

LEMMA SumType ==
  ASSUME NEW s \in Seq(Int)
  PROVE  SumOf(s) \in Int
BY SumUnfolds, LenProperties

LEMMA SumEmpty == SumOf(<<>>) = 0
<1>1. <<>> \in Seq(Int) /\ Len(<<>>) = 0
  OBVIOUS
<1>2. Sums(<<>>, [n \in {0} |-> 0])
  BY DEF Sums
<1> QED BY <1>1, <1>2, SumIs

LEMMA SumAppend ==
  ASSUME NEW s \in Seq(Int), NEW e \in Int
  PROVE  SumOf(Append(s, e)) = SumOf(s) + e
<1> DEFINE N == Len(s)
           t == Append(s, e)
<1>0. N \in Nat /\ t \in Seq(Int) /\ Len(t) = N + 1 /\ t[N + 1] = e /\ \A n \in 1 .. N : t[n] = s[n]
  OBVIOUS
<1>1. PICK g \in [0 .. N -> Int] : Sums(s, g) /\ SumOf(s) = g[N]
  BY SumUnfolds
<1> DEFINE h == [n \in 0 .. N + 1 |-> IF n = N + 1 THEN g[N] + e ELSE g[n]]
<1>2. Sums(t, h)
  <2>1. h[0] = 0
    BY <1>0, <1>1 DEF Sums
  <2>2. ASSUME NEW n \in 1 .. N + 1 PROVE h[n] = h[n - 1] + t[n]
    <3>1. CASE n = N + 1
      BY <1>0, <3>1
    <3>2. CASE n # N + 1
      BY <1>0, <1>1, <3>2 DEF Sums
    <3> QED BY <3>1, <3>2
  <2> HIDE DEF h, t
  <2> QED BY <1>0, <2>1, <2>2 DEF Sums
<1>3. SumOf(t) = h[N + 1]
  <2> HIDE DEF h, t
  <2> QED BY <1>0, <1>2, SumIs
<1>4. h[N + 1] = g[N] + e
  BY <1>0
<1> QED BY <1>1, <1>3, <1>4

LEMMA SumSplit ==
  ASSUME NEW s \in Seq(Int), NEW k \in 0 .. Len(s)
  PROVE  SumOf(s) = SumOf(SubSeq(s, 1, k)) + SumOf(SubSeq(s, k + 1, Len(s)))
<1> DEFINE N == Len(s)
           a == SubSeq(s, 1, k)
           b == SubSeq(s, k + 1, N)
<1>0. N \in Nat /\ k \in Nat /\ \A n \in 1 .. N : s[n] \in Int
  BY LenProperties
<1>1. a \in Seq(Int) /\ Len(a) = k /\ \A n \in 1 .. k : a[n] = s[n]
  BY <1>0, SubSeqProperties
<1>2. b \in Seq(Int) /\ Len(b) = N - k /\ \A n \in 1 .. N - k : b[n] = s[k + n]
  <2>1. k + 1 \in 1 .. N + 1 /\ N \in (k + 1) - 1 .. N
    BY <1>0
  <2>2. Len(b) = N - (k + 1) + 1 /\ \A n \in 1 .. N - (k + 1) + 1 : b[n] = s[(k + 1) + n - 1]
    BY <1>0, <2>1, SubSeqProperties
  <2>3. N - (k + 1) + 1 = N - k /\ \A n \in 1 .. N - k : (k + 1) + n - 1 = k + n
    BY <1>0
  <2>4. b \in Seq(Int)
    BY <1>0, <2>1, SubSeqProperties
  <2> HIDE DEF b
  <2> QED BY <2>2, <2>3, <2>4
<1>3. PICK g \in [0 .. N -> Int] : Sums(s, g) /\ SumOf(s) = g[N]
  BY SumUnfolds
<1> DEFINE h == [n \in 0 .. N - k |-> g[k + n] - g[k]]
<1>4. Sums(a, g)
  BY <1>0, <1>1, <1>3 DEF Sums
<1>5. Sums(b, h)
  <2>1. h[0] = 0
    BY <1>0
  <2>2. ASSUME NEW n \in 1 .. N - k PROVE h[n] = h[n - 1] + b[n]
    <3>1. k + n \in 1 .. N /\ k + n - 1 \in 0 .. N /\ k \in 0 .. N
      BY <1>0
    <3>2. g[k + n] = g[k + n - 1] + s[k + n]
      BY <1>3, <3>1 DEF Sums
    <3>3. h[n] = g[k + n] - g[k] /\ h[n - 1] = g[k + n - 1] - g[k]
      <4>1. n \in 0 .. N - k /\ n - 1 \in 0 .. N - k /\ k + (n - 1) = k + n - 1
        BY <1>0
      <4> QED BY <4>1
    <3>4. g[k + n - 1] \in Int /\ g[k] \in Int /\ s[k + n] \in Int
      BY <1>0, <3>1
    <3> QED BY <1>2, <3>2, <3>3, <3>4, SMTT(60)
  <2> HIDE DEF h, b
  <2> QED BY <1>2, <2>1, <2>2 DEF Sums
<1>6. SumOf(a) = g[k] /\ SumOf(b) = h[N - k]
  <2> HIDE DEF h, a, b
  <2> QED BY <1>1, <1>2, <1>4, <1>5, SumIs, ZenonT(60)
<1>7. h[N - k] = g[N] - g[k] /\ g[N] \in Int /\ g[k] \in Int
  <2>1. N - k \in 0 .. N - k /\ k + (N - k) = N /\ N \in 0 .. N /\ k \in 0 .. N
    BY <1>0
  <2> QED BY <2>1
<1> QED BY <1>3, <1>6, <1>7

-----------------------------------------------------------------------------
(* Filters. *)

\* g holds what the beginnings of s have at the positions P.
Filters(s, P, g) ==
  /\ g[0] = <<>>
  /\ \A n \in 1 .. Len(s) : g[n] = IF n \in P THEN Append(g[n - 1], s[n]) ELSE g[n - 1]

LEMMA AtUnfolds ==
  ASSUME NEW V, NEW s \in Seq(V), NEW P
  PROVE  \E g \in [0 .. Len(s) -> Seq(V)] : Filters(s, P, g) /\ At(s, P) = g[Len(s)]
<1> DEFINE N == Len(s)
           Next1(n, v) == IF n \in P THEN Append(v, s[n]) ELSE v
           U(h) == h = [n \in 0 .. N |-> IF n = 0 THEN <<>> ELSE IF n \in P THEN Append(h[n - 1], s[n]) ELSE h[n - 1]]
           c == CHOOSE h : U(h)
           step == [n \in 1 .. N |-> [v \in Seq(V) |-> Next1(n, v)]]
<1>0. N \in Nat /\ \A n \in 1 .. N : s[n] \in V
  BY LenProperties
<1>1. At(s, P) = c[N]
  BY DEF At
<1>2. PICK g : g \in Solutions(N, Seq(V), <<>>, step)
  <2>1. step \in Steps(N, Seq(V))
    BY <1>0 DEF Steps
  <2>2. N \in Nat /\ <<>> \in Seq(V)
    BY <1>0
  <2> HIDE DEF step
  <2> QED BY <2>1, <2>2, RecursionExists
<1>3. g \in [0 .. N -> Seq(V)] /\ Filters(s, P, g)
  <2>0. g \in [0 .. N -> Seq(V)] /\ g[0] = <<>> /\ \A n \in 1 .. N : g[n] = step[n][g[n - 1]]
    <3> HIDE DEF step
    <3> QED BY <1>2 DEF Solutions
  <2>1. ASSUME NEW n \in 1 .. N PROVE g[n] = Next1(n, g[n - 1])
    <3>1. g[n - 1] \in Seq(V)
      BY <1>0, <2>0, SMTT(60)
    <3>2. \A v \in Seq(V) : step[n][v] = Next1(n, v)
      OBVIOUS
    <3> HIDE DEF step, Next1
    <3> QED BY <2>0, <3>1, <3>2
  <2> QED BY <2>0, <2>1 DEF Filters
<1>4. U(g)
  <2> DEFINE body(n) == IF n = 0 THEN <<>> ELSE IF n \in P THEN Append(g[n - 1], s[n]) ELSE g[n - 1]
  <2>1. ASSUME NEW n \in 0 .. N PROVE g[n] = body(n)
    <3>1. n = 0 \/ (n \in 1 .. N /\ n # 0)
      BY <1>0
    <3> QED BY <1>3, <3>1 DEF Filters
  <2>2. g = [n \in 0 .. N |-> g[n]]
    BY <1>3
  <2> HIDE DEF body
  <2>3. g = [n \in 0 .. N |-> body(n)]
    BY <2>1, <2>2
  <2> QED BY <2>3 DEF body
<1>5. U(c)
  <2> HIDE DEF U
  <2> QED BY <1>4
<1>6. c[0] = <<>> /\ \A n \in 1 .. N : c[n] = Next1(n, c[n - 1])
  <2>1. c = [n \in 0 .. N |-> IF n = 0 THEN <<>> ELSE IF n \in P THEN Append(c[n - 1], s[n]) ELSE c[n - 1]]
    BY <1>5
  <2> HIDE DEF c
  <2>2. ASSUME NEW n \in 0 .. N PROVE c[n] = IF n = 0 THEN <<>> ELSE Next1(n, c[n - 1])
    BY <2>1
  <2>3. 0 \in 0 .. N /\ \A n \in 1 .. N : n \in 0 .. N /\ n # 0
    BY <1>0
  <2> HIDE DEF Next1
  <2> QED BY <2>2, <2>3
<1>7. \A n \in 0 .. N : c[n] = g[n]
  <2>1. Agree(N, c, g)
    <3> HIDE DEF c
    <3> QED BY <1>3, <1>6 DEF Filters, Agree
  <2>2. N \in Nat
    BY <1>0
  <2> HIDE DEF c
  <2> QED BY <2>1, <2>2, RecursionUnique, ZenonT(60)
<1> QED
  <2> HIDE DEF c
  <2> QED BY <1>0, <1>1, <1>3, <1>7

\* r has what s has at those of the positions P up to n: f says where each of its elements
\* comes from, in order and without omission.
Places(s, P, n, r, f) ==
  /\ f \in [1 .. Len(r) -> P \cap (1 .. n)]
  /\ \A i \in 1 .. Len(r) : r[i] = s[f[i]]
  /\ \A i, j \in 1 .. Len(r) : i < j => f[i] < f[j]
  /\ \A p \in P \cap (1 .. n) : \E i \in 1 .. Len(r) : f[i] = p

LEMMA AtPlaces ==
  ASSUME NEW V, NEW s \in Seq(V), NEW P
  PROVE  /\ At(s, P) \in Seq(V) /\ Len(At(s, P)) <= Len(s)
         /\ \E f : Places(s, P, Len(s), At(s, P), f)
<1>0. Len(s) \in Nat /\ \A n \in 1 .. Len(s) : s[n] \in V
  BY LenProperties
<1>1. PICK g \in [0 .. Len(s) -> Seq(V)] : Filters(s, P, g) /\ At(s, P) = g[Len(s)]
  BY AtUnfolds
<1> DEFINE S == {n \in 0 .. Len(s) : Len(g[n]) <= n /\ \E f : Places(s, P, n, g[n], f)}
<1>2. 0 \in S
  <2>1. g[0] = <<>> /\ Len(g[0]) = 0
    BY <1>1 DEF Filters
  <2> DEFINE f == [i \in 1 .. 0 |-> i]
  <2>2. Places(s, P, 0, g[0], f)
    BY <2>1 DEF Places
  <2> HIDE DEF f
  <2> QED BY <1>0, <2>1, <2>2
<1>3. ASSUME NEW n \in 1 .. Len(s), n - 1 \in S PROVE n \in S
  <2>1. PICK f : Places(s, P, n - 1, g[n - 1], f)
    BY <1>3
  <2>2. g[n - 1] \in Seq(V) /\ Len(g[n - 1]) \in Nat /\ Len(g[n - 1]) <= n - 1 /\ s[n] \in V /\ n \in 0 .. Len(s)
    BY <1>0, <1>3, LenProperties
  <2> DEFINE m == Len(g[n - 1])
  <2>3. CASE n \in P
    <3>1. g[n] = Append(g[n - 1], s[n])
      BY <1>1, <2>3 DEF Filters
    <3>2. Len(g[n]) = m + 1 /\ g[n][m + 1] = s[n] /\ \A i \in 1 .. m : g[n][i] = g[n - 1][i]
      BY <2>2, <3>1
    <3> DEFINE h == [i \in 1 .. m + 1 |-> IF i = m + 1 THEN n ELSE f[i]]
    <3>3. \A i \in 1 .. m : h[i] = f[i] /\ f[i] \in P \cap (1 .. n - 1) /\ i # m + 1
      <4> SUFFICES ASSUME NEW i \in 1 .. m PROVE h[i] = f[i] /\ f[i] \in P \cap (1 .. n - 1) /\ i # m + 1
        OBVIOUS
      <4>1. f[i] \in P \cap (1 .. n - 1)
        <5> HIDE DEF h
        <5> QED BY <2>1 DEF Places
      <4>2. i \in 1 .. m + 1 /\ i # m + 1
        BY <2>2
      <4> QED BY <4>1, <4>2
    <3>4. h[m + 1] = n
      BY <2>2
    <3>5. \A i \in 1 .. m + 1 : i \in 1 .. m \/ i = m + 1
      BY <2>2
    <3>6. h \in [1 .. Len(g[n]) -> P \cap (1 .. n)]
      <4>1. \A i \in 1 .. m + 1 : h[i] \in P \cap (1 .. n)
        <5> SUFFICES ASSUME NEW i \in 1 .. m + 1 PROVE h[i] \in P \cap (1 .. n)
          OBVIOUS
        <5> HIDE DEF h
        <5>1. CASE i \in 1 .. m
          BY <3>3, <5>1
        <5>2. CASE i = m + 1
          BY <2>3, <3>4, <5>2
        <5> QED BY <3>5, <5>1, <5>2
      <4>2. h = [i \in 1 .. m + 1 |-> h[i]]
        OBVIOUS
      <4> HIDE DEF h
      <4> QED BY <3>2, <4>1, <4>2
    <3>7. \A i \in 1 .. Len(g[n]) : g[n][i] = s[h[i]]
      <4> HIDE DEF h
      <4> QED BY <2>1, <3>2, <3>3, <3>4, <3>5 DEF Places
    <3>8. \A i, j \in 1 .. Len(g[n]) : i < j => h[i] < h[j]
      <4> SUFFICES ASSUME NEW i \in 1 .. m + 1, NEW j \in 1 .. m + 1, i < j PROVE h[i] < h[j]
        BY <3>2
      <4>1. i \in 1 .. m
        BY <2>2
      <4> HIDE DEF h
      <4>2. CASE j \in 1 .. m
        BY <2>1, <3>3, <4>1, <4>2 DEF Places
      <4>3. CASE j = m + 1
        BY <3>3, <3>4, <4>1, <4>3, SMTT(60)
      <4> QED BY <3>5, <4>2, <4>3
    <3>9. \A p \in P \cap (1 .. n) : \E i \in 1 .. Len(g[n]) : h[i] = p
      <4> SUFFICES ASSUME NEW p \in P \cap (1 .. n) PROVE \E i \in 1 .. m + 1 : h[i] = p
        BY <3>2
      <4> HIDE DEF h
      <4>1. CASE p = n
        BY <2>2, <3>4, <4>1
      <4>2. CASE p # n
        <5>1. PICK i \in 1 .. m : f[i] = p
          BY <2>1, <4>2 DEF Places
        <5>2. i \in 1 .. m + 1 /\ h[i] = p
          BY <2>2, <3>3, <5>1
        <5> QED BY <5>2
      <4> QED BY <4>1, <4>2
    <3> HIDE DEF h
    <3>10. Places(s, P, n, g[n], h)
      BY <3>6, <3>7, <3>8, <3>9 DEF Places
    <3> QED BY <2>2, <3>2, <3>10
  <2>4. CASE n \notin P
    <3>1. g[n] = g[n - 1]
      BY <1>1, <2>4 DEF Filters
    <3>2. P \cap (1 .. n) = P \cap (1 .. n - 1)
      BY <2>4
    <3>3. Places(s, P, n, g[n], f)
      BY <2>1, <3>1, <3>2 DEF Places
    <3> QED BY <2>2, <3>1, <3>3
  <2> QED BY <2>3, <2>4
<1>4. Len(s) \in S
  <2>1. 0 .. Len(s) \subseteq S
    <3> HIDE DEF S
    <3> QED BY <1>0, <1>2, <1>3, IntervalInduction
  <2> HIDE DEF S
  <2> QED BY <1>0, <2>1
<1> QED BY <1>0, <1>1, <1>4

-----------------------------------------------------------------------------
(* Weights: the sum of what each element of a sequence weighs. *)

Weights(s, w) == [i \in DOMAIN s |-> w[s[i]]]
Weigh(s, w) == SumOf(Weights(s, w))

\* what the elements at the positions P weigh, and 0 elsewhere
WeightsAt(s, w, P) == [i \in 1 .. Len(s) |-> IF i \in P THEN w[s[i]] ELSE 0]

LEMMA WeightsType ==
  ASSUME NEW V, NEW s \in Seq(V), NEW w \in [V -> Int]
  PROVE  /\ Weights(s, w) \in Seq(Int) /\ Len(Weights(s, w)) = Len(s)
         /\ \A i \in 1 .. Len(s) : Weights(s, w)[i] = w[s[i]]
         /\ Weigh(s, w) \in Int
<1>1. Len(s) \in Nat /\ DOMAIN s = 1 .. Len(s) /\ \A i \in 1 .. Len(s) : s[i] \in V
  BY LenProperties, ElementOfSeq
<1>2. \A i \in 1 .. Len(s) : w[s[i]] \in Int
  BY <1>1
<1>3. Weights(s, w) = [i \in 1 .. Len(s) |-> w[s[i]]]
  BY <1>1 DEF Weights
<1>4. Weights(s, w) \in Seq(Int) /\ Len(Weights(s, w)) = Len(s)
  BY <1>1, <1>2, <1>3
<1> QED BY <1>3, <1>4, SumType DEF Weigh

LEMMA WeighAppend ==
  ASSUME NEW V, NEW s \in Seq(V), NEW e \in V, NEW w \in [V -> Int]
  PROVE  Weigh(Append(s, e), w) = Weigh(s, w) + w[e]
<1>1. Len(s) \in Nat /\ DOMAIN s = 1 .. Len(s)
  BY LenProperties
<1>2. /\ Append(s, e) \in Seq(V) /\ Len(Append(s, e)) = Len(s) + 1
      /\ Append(s, e)[Len(s) + 1] = e /\ \A i \in 1 .. Len(s) : Append(s, e)[i] = s[i]
  OBVIOUS
<1>3. Weights(Append(s, e), w) = Append(Weights(s, w), w[e])
  <2> DEFINE a == Weights(Append(s, e), w)
             b == Append(Weights(s, w), w[e])
  <2>1. /\ a \in Seq(Int) /\ Len(a) = Len(s) + 1 
        /\ \A i \in 1 .. Len(s) + 1 : a[i] = w[Append(s, e)[i]]
    <3> DEFINE t == Append(s, e)
    <3>1. t \in Seq(V) /\ Len(t) = Len(s) + 1
      BY <1>2
    <3> HIDE DEF t
    <3>2. /\ Weights(t, w) \in Seq(Int) /\ Len(Weights(t, w)) = Len(t)
          /\ \A i \in 1 .. Len(t) : Weights(t, w)[i] = w[t[i]]
      BY <3>1, WeightsType, SMTT(60)
    <3> QED BY <3>1, <3>2 DEF t
  <2>2. /\ Weights(s, w) \in Seq(Int) /\ Len(Weights(s, w)) = Len(s)
        /\ \A i \in 1 .. Len(s) : Weights(s, w)[i] = w[s[i]]
    BY WeightsType
  <2>3. b \in Seq(Int) /\ Len(b) = Len(s) + 1 /\ b[Len(s) + 1] = w[e] /\ \A i \in 1 .. Len(s) : b[i] = w[s[i]]
    BY <1>1, <2>2
  <2>4. \A i \in 1 .. Len(s) + 1 : i \in 1 .. Len(s) \/ i = Len(s) + 1
    BY <1>1
  <2> HIDE DEF a, b
  <2>5. \A i \in 1 .. Len(a) : a[i] = b[i]
    BY <1>1, <1>2, <2>1, <2>3, <2>4
  <2>6. a = b
    BY <2>1, <2>3, <2>5, SeqEqual
  <2> QED BY <2>6 DEF a, b
<1>4. Weights(s, w) \in Seq(Int) /\ w[e] \in Int
  BY WeightsType
<1> QED BY <1>3, <1>4, SumAppend DEF Weigh

LEMMA WeighSplit ==
  ASSUME NEW V, NEW s \in Seq(V), NEW w \in [V -> Int], NEW k \in 0 .. Len(s)
  PROVE  Weigh(s, w) = Weigh(SubSeq(s, 1, k), w) + Weigh(SubSeq(s, k + 1, Len(s)), w)
<1> DEFINE z == Weights(s, w)
<1>1. Len(s) \in Nat /\ k \in Nat
  BY LenProperties
<1>2. z \in Seq(Int) /\ Len(z) = Len(s) /\ \A i \in 1 .. Len(s) : z[i] = w[s[i]]
  BY WeightsType
<1> HIDE DEF z
<1>3. ASSUME NEW a \in 1 .. Len(s) + 1, NEW b \in a - 1 .. Len(s)
      PROVE  Weights(SubSeq(s, a, b), w) = SubSeq(z, a, b)
  <2> DEFINE u == SubSeq(s, a, b)
             v == SubSeq(z, a, b)
             x == Weights(u, w)
  <2>0. a \in Int /\ b \in Int
    BY <1>1
  <2>1. u \in Seq(V) /\ Len(u) = b - a + 1 /\ \A i \in 1 .. b - a + 1 : u[i] = s[a + i - 1]
    BY SubSeqProperties
  <2>2. v \in Seq(Int) /\ Len(v) = b - a + 1 /\ \A i \in 1 .. b - a + 1 : v[i] = z[a + i - 1]
    BY <1>2, SubSeqProperties, SMTT(60)
  <2> HIDE DEF u, v
  <2>3. x \in Seq(Int) /\ Len(x) = Len(u) /\ \A i \in 1 .. Len(u) : x[i] = w[u[i]]
    BY <2>1, WeightsType, ZenonT(60)
  <2> HIDE DEF x
  <2>4. \A i \in 1 .. b - a + 1 : a + i - 1 \in 1 .. Len(s)
    BY <1>1, <2>0
  <2>5. ASSUME NEW i \in 1 .. Len(x) PROVE x[i] = v[i]
    <3>1. i \in 1 .. b - a + 1 /\ i \in 1 .. Len(u)
      BY <2>1, <2>3
    <3>2. x[i] = w[s[a + i - 1]] /\ v[i] = z[a + i - 1]
      BY <2>1, <2>2, <2>3, <3>1
    <3> QED BY <1>2, <2>4, <3>1, <3>2
  <2>6. x = v
    BY <2>1, <2>2, <2>3, <2>5, SeqEqual
  <2> QED BY <2>6 DEF x, u, v
<1>4. Weights(SubSeq(s, 1, k), w) = SubSeq(z, 1, k)
  BY <1>1, <1>3
<1>5. Weights(SubSeq(s, k + 1, Len(s)), w) = SubSeq(z, k + 1, Len(z))
  <2>1. k + 1 \in 1 .. Len(s) + 1 /\ Len(s) \in (k + 1) - 1 .. Len(s)
    BY <1>1
  <2> QED BY <1>2, <1>3, <2>1
<1>6. SumOf(z) = SumOf(SubSeq(z, 1, k)) + SumOf(SubSeq(z, k + 1, Len(z)))
  BY <1>2, SumSplit
<1> QED BY <1>4, <1>5, <1>6 DEF Weigh, z

\* A filter weighs what the elements it leaves in place weigh.
LEMMA WeighAt ==
  ASSUME NEW V, NEW s \in Seq(V), NEW P, NEW w \in [V -> Int]
  PROVE  WeightsAt(s, w, P) \in Seq(Int) /\ Weigh(At(s, P), w) = SumOf(WeightsAt(s, w, P))
<1> DEFINE N == Len(s)
           d == WeightsAt(s, w, P)
<1>0. N \in Nat /\ \A n \in 1 .. N : s[n] \in V
  BY LenProperties
<1>1. d \in Seq(Int) /\ Len(d) = N /\ \A n \in 1 .. N : d[n] = IF n \in P THEN w[s[n]] ELSE 0
  <2>1. d = [i \in 1 .. N |-> IF i \in P THEN w[s[i]] ELSE 0]
    BY DEF WeightsAt
  <2>2. \A i \in 1 .. N : (IF i \in P THEN w[s[i]] ELSE 0) \in Int
    BY <1>0
  <2> QED BY <1>0, <2>1, <2>2
<1>2. PICK g \in [0 .. N -> Seq(V)] : Filters(s, P, g) /\ At(s, P) = g[N]
  BY AtUnfolds
<1> DEFINE h == [n \in 0 .. N |-> Weigh(g[n], w)]
<1> HIDE DEF d
<1>3. h[0] = 0
  <2>1. h[0] = Weigh(<<>>, w)
    BY <1>0, <1>2 DEF Filters
  <2>2. Weights(<<>>, w) = <<>>
    BY DEF Weights
  <2> QED BY <2>1, <2>2, SumEmpty DEF Weigh
<1>4. ASSUME NEW n \in 1 .. N PROVE h[n] = h[n - 1] + d[n]
  <2>1. n \in 0 .. N /\ n - 1 \in 0 .. N
    BY <1>0
  <2>2. h[n] = Weigh(g[n], w) /\ h[n - 1] = Weigh(g[n - 1], w)
    BY <2>1
  <2>3. g[n - 1] \in Seq(V) /\ s[n] \in V
    BY <1>0, <1>2, <2>1
  <2>4. Weigh(g[n - 1], w) \in Int
    BY <2>3, WeightsType
  <2> HIDE DEF h
  <2>5. CASE n \in P
    <3>1. g[n] = Append(g[n - 1], s[n])
      BY <1>2, <2>5 DEF Filters
    <3>2. Weigh(g[n], w) = Weigh(g[n - 1], w) + w[s[n]]
      BY <2>3, <3>1, WeighAppend
    <3> QED BY <1>1, <2>2, <2>5, <3>2
  <2>6. CASE n \notin P
    <3>1. g[n] = g[n - 1]
      BY <1>2, <2>6 DEF Filters
    <3> QED BY <1>1, <2>2, <2>4, <2>6, <3>1
  <2> QED BY <2>5, <2>6
<1>5. Sums(d, h)
  <2> HIDE DEF h
  <2> QED BY <1>1, <1>3, <1>4 DEF Sums
<1>6. SumOf(d) = h[N]
  <2> HIDE DEF h
  <2> QED BY <1>1, <1>5, SumIs
<1>7. h[N] = Weigh(At(s, P), w)
  BY <1>0, <1>2
<1> QED BY <1>1, <1>6, <1>7 DEF d

LEMMA SumMonotone ==
  ASSUME NEW s \in Seq(Int), NEW t \in Seq(Int), Len(s) = Len(t),
         \A n \in 1 .. Len(s) : s[n] <= t[n]
  PROVE  SumOf(s) <= SumOf(t)
<1> DEFINE N == Len(s)
<1>0. N \in Nat /\ \A n \in 1 .. N : s[n] \in Int /\ t[n] \in Int
  BY LenProperties
<1>1. PICK g \in [0 .. N -> Int] : Sums(s, g) /\ SumOf(s) = g[N]
  BY SumUnfolds
<1>2. PICK h \in [0 .. N -> Int] : Sums(t, h) /\ SumOf(t) = h[N]
  BY SumUnfolds
<1> DEFINE S == {n \in 0 .. N : g[n] <= h[n]}
<1>3. 0 \in S
  BY <1>0, <1>1, <1>2 DEF Sums
<1>4. ASSUME NEW n \in 1 .. N, n - 1 \in S PROVE n \in S
  <2>1. n - 1 \in 0 .. N /\ n \in 0 .. N
    BY <1>0
  <2>2. g[n - 1] \in Int /\ h[n - 1] \in Int /\ s[n] \in Int /\ t[n] \in Int /\ s[n] <= t[n]
    BY <1>0, <2>1
  <2>3. g[n] = g[n - 1] + s[n] /\ h[n] = h[n - 1] + t[n]
    BY <1>1, <1>2 DEF Sums
  <2> QED BY <1>4, <2>1, <2>2, <2>3, SMTT(60)
<1>5. 0 .. N \subseteq S
  <2> HIDE DEF S
  <2> QED BY <1>0, <1>3, <1>4, IntervalInduction
<1> QED BY <1>0, <1>1, <1>2, <1>5

\* Two sequences that differ at p alone: their sums differ by as much.
LEMMA SumExcept ==
  ASSUME NEW s \in Seq(Int), NEW t \in Seq(Int), Len(s) = Len(t), NEW p \in 1 .. Len(s),
         \A n \in 1 .. Len(s) : n # p => t[n] = s[n]
  PROVE  SumOf(t) = SumOf(s) - s[p] + t[p]
<1> DEFINE N == Len(s)
<1>0. N \in Nat /\ \A n \in 1 .. N : s[n] \in Int /\ t[n] \in Int
  BY LenProperties
<1>1. PICK g \in [0 .. N -> Int] : Sums(s, g) /\ SumOf(s) = g[N]
  BY SumUnfolds
<1> DEFINE h == [n \in 0 .. N |-> IF n < p THEN g[n] ELSE g[n] - s[p] + t[p]]
<1>2. \A n \in 0 .. N : g[n] \in Int
  OBVIOUS
<1>3. Sums(t, h)
  <2>1. h[0] = 0
    BY <1>0, <1>1 DEF Sums
  <2>2. ASSUME NEW n \in 1 .. N PROVE h[n] = h[n - 1] + t[n]
    <3>1. n \in 0 .. N /\ n - 1 \in 0 .. N /\ p \in 1 .. N
      BY <1>0
    <3>2. /\ h[n] = (IF n < p THEN g[n] ELSE g[n] - s[p] + t[p])
          /\ h[n - 1] = (IF n - 1 < p THEN g[n - 1] ELSE g[n - 1] - s[p] + t[p])
      BY <3>1
    <3>3. g[n] = g[n - 1] + s[n]
      BY <1>1 DEF Sums
    <3>4. /\ g[n] \in Int /\ g[n - 1] \in Int /\ s[n] \in Int
          /\ t[n] \in Int /\ s[p] \in Int /\ t[p] \in Int
      BY <1>0, <1>2, <3>1
    <3> HIDE DEF h
    <3>5. CASE n = p
      BY <3>1, <3>2, <3>3, <3>4, <3>5, SMTT(60)
    <3>6. CASE n # p
      <4>1. t[n] = s[n]
        BY <3>6
      <4>2. CASE n < p
        BY <3>1, <3>2, <3>3, <3>4, <4>1, <4>2
      <4>3. CASE p < n
        <5>1. ~(n < p) /\ ~(n - 1 < p)
          BY <3>1, <4>3
        <5>2. h[n] = g[n] - s[p] + t[p] /\ h[n - 1] = g[n - 1] - s[p] + t[p]
          BY <3>2, <5>1
        <5> DEFINE Swap(a, b, c, d) == (a + b) - c + d = (a - c + d) + b
        <5>3. \A a, b, c, d \in Int : Swap(a, b, c, d)
          OBVIOUS
        <5>4. Swap(g[n - 1], s[n], s[p], t[p])
          <6> HIDE DEF Swap
          <6> QED BY <3>4, <5>3
        <5>5. g[n] - s[p] + t[p] = (g[n - 1] - s[p] + t[p]) + t[n]
          BY <3>3, <4>1, <5>4, Zenon
        <5> QED BY <5>2, <5>5, Zenon
      <4> QED BY <3>1, <3>6, <4>2, <4>3
    <3> QED BY <3>5, <3>6
  <2> HIDE DEF h
  <2> QED BY <2>1, <2>2 DEF Sums
<1>4. SumOf(t) = h[N]
  <2> HIDE DEF h
  <2> QED BY <1>3, SumIs
<1>5. h[N] = g[N] - s[p] + t[p]
  BY <1>0
<1> QED BY <1>1, <1>4, <1>5

LEMMA SumEqual ==
  ASSUME NEW s \in Seq(Int), NEW t \in Seq(Int), Len(s) = Len(t),
         \A n \in 1 .. Len(s) : s[n] = t[n]
  PROVE  SumOf(s) = SumOf(t)
BY SeqEqual

LEMMA SumNonNegative ==
  ASSUME NEW s \in Seq(Int), \A n \in 1 .. Len(s) : s[n] >= 0
  PROVE  SumOf(s) \in Nat
<1> DEFINE N == Len(s)
<1>0. N \in Nat /\ \A n \in 1 .. N : s[n] \in Nat
  BY LenProperties
<1>1. PICK g \in [0 .. N -> Int] : Sums(s, g) /\ SumOf(s) = g[N]
  BY SumUnfolds
<1> DEFINE S == {n \in 0 .. N : g[n] >= 0}
<1>2. 0 \in S
  BY <1>0, <1>1 DEF Sums
<1>3. ASSUME NEW n \in 1 .. N, n - 1 \in S PROVE n \in S
  <2>1. n - 1 \in 0 .. N /\ n \in 0 .. N
    BY <1>0
  <2>2. g[n - 1] \in Int /\ s[n] \in Nat /\ g[n] = g[n - 1] + s[n]
    BY <1>0, <1>1, <2>1 DEF Sums
  <2> QED BY <1>3, <2>1, <2>2
<1>4. 0 .. N \subseteq S
  <2> HIDE DEF S
  <2> QED BY <1>0, <1>2, <1>3, IntervalInduction
<1> QED BY <1>0, <1>1, <1>4

Ones(V) == [e \in V |-> 1]

LEMMA WeighOnes ==
  ASSUME NEW V, NEW s \in Seq(V)
  PROVE  Ones(V) \in [V -> Int] /\ Weigh(s, Ones(V)) = Len(s)
<1> DEFINE z == Weights(s, Ones(V))
           g == [n \in 0 .. Len(s) |-> n]
<1>0. Len(s) \in Nat /\ \A n \in 1 .. Len(s) : s[n] \in V
  BY LenProperties
<1>1. Ones(V) \in [V -> Int]
  BY DEF Ones
<1>2. z \in Seq(Int) /\ Len(z) = Len(s) /\ \A i \in 1 .. Len(s) : z[i] = Ones(V)[s[i]]
  BY <1>1, WeightsType
<1>3. \A i \in 1 .. Len(s) : z[i] = 1
  BY <1>0, <1>2 DEF Ones
<1> HIDE DEF z
<1>4. Sums(z, g)
  <2>1. g[0] = 0
    BY <1>0
  <2>2. ASSUME NEW n \in 1 .. Len(s) PROVE g[n] = g[n - 1] + 1
    <3>1. n \in 0 .. Len(s) /\ n - 1 \in 0 .. Len(s)
      BY <1>0
    <3>2. g[n] = n /\ g[n - 1] = n - 1
      BY <3>1
    <3> QED BY <3>2
  <2> HIDE DEF g
  <2> QED BY <1>2, <1>3, <2>1, <2>2 DEF Sums
<1>5. SumOf(z) = g[Len(s)]
  <2> HIDE DEF g
  <2> QED BY <1>2, <1>4, SumIs
<1> QED BY <1>0, <1>1, <1>5 DEF z, Weigh

\* Where nothing weighs less than 0, a part weighs at most what the whole does.
LEMMA WeighPart ==
  ASSUME NEW V, NEW s \in Seq(V), NEW P, NEW w \in [V -> Int], \A e \in V : w[e] >= 0
  PROVE  Weigh(At(s, P), w) <= Weigh(s, w) /\ Weigh(s, w) \in Nat
<1> DEFINE d == WeightsAt(s, w, P)
           z == Weights(s, w)
<1>0. Len(s) \in Nat /\ \A n \in 1 .. Len(s) : s[n] \in V
  BY LenProperties
<1>1. d \in Seq(Int) /\ Weigh(At(s, P), w) = SumOf(d)
  BY WeighAt
<1>2. z \in Seq(Int) /\ Len(z) = Len(s) /\ \A i \in 1 .. Len(s) : z[i] = w[s[i]]
  BY WeightsType
<1>3. Len(d) = Len(s) /\ \A i \in 1 .. Len(s) : d[i] = IF i \in P THEN w[s[i]] ELSE 0
  BY <1>0, <1>1 DEF WeightsAt
<1> HIDE DEF d, z
<1>4. \A i \in 1 .. Len(s) : d[i] <= z[i] /\ z[i] >= 0
  BY <1>0, <1>2, <1>3, SMTT(60)
<1>5. SumOf(d) <= SumOf(z)
  BY <1>1, <1>2, <1>3, <1>4, SumMonotone
<1>6. SumOf(z) \in Nat
  BY <1>2, <1>4, SumNonNegative
<1> QED BY <1>1, <1>5, <1>6 DEF z, Weigh

\* Where the elements left out weigh nothing, the filter weighs what the whole does.
LEMMA WeighSame ==
  ASSUME NEW V, NEW s \in Seq(V), NEW P, NEW w \in [V -> Int],
         \A i \in 1 .. Len(s) : i \notin P => w[s[i]] = 0
  PROVE  Weigh(At(s, P), w) = Weigh(s, w)
<1> DEFINE d == WeightsAt(s, w, P)
           z == Weights(s, w)
<1>0. Len(s) \in Nat
  BY LenProperties
<1>1. d \in Seq(Int) /\ Weigh(At(s, P), w) = SumOf(d)
  BY WeighAt
<1>2. z \in Seq(Int) /\ Len(z) = Len(s) /\ \A i \in 1 .. Len(s) : z[i] = w[s[i]]
  BY WeightsType
<1>3. Len(d) = Len(s) /\ \A i \in 1 .. Len(s) : d[i] = IF i \in P THEN w[s[i]] ELSE 0
  BY <1>0, <1>1 DEF WeightsAt
<1> HIDE DEF d, z
<1>4. \A i \in 1 .. Len(d) : d[i] = z[i]
  BY <1>2, <1>3
<1>5. SumOf(d) = SumOf(z)
  BY <1>1, <1>2, <1>3, <1>4, SumEqual
<1> QED BY <1>1, <1>5 DEF z, Weigh

\* Without the element at p.
LEMMA WeighWithout ==
  ASSUME NEW V, NEW s \in Seq(V), NEW P, NEW w \in [V -> Int], NEW p \in 1 .. Len(s),
         \A i \in 1 .. Len(s) : i \in P <=> i # p
  PROVE  Weigh(At(s, P), w) = Weigh(s, w) - w[s[p]]
<1> DEFINE d == WeightsAt(s, w, P)
           z == Weights(s, w)
<1>0. Len(s) \in Nat /\ \A n \in 1 .. Len(s) : s[n] \in V
  BY LenProperties
<1>1. d \in Seq(Int) /\ Weigh(At(s, P), w) = SumOf(d)
  BY WeighAt
<1>2. z \in Seq(Int) /\ Len(z) = Len(s) /\ \A i \in 1 .. Len(s) : z[i] = w[s[i]]
  BY WeightsType, SMTT(60)
<1>3. Len(d) = Len(s) /\ \A i \in 1 .. Len(s) : d[i] = IF i \in P THEN w[s[i]] ELSE 0
  BY <1>0, <1>1 DEF WeightsAt
<1> HIDE DEF d, z
<1>4. \A n \in 1 .. Len(z) : n # p => d[n] = z[n]
  BY <1>2, <1>3
<1>5. SumOf(d) = SumOf(z) - z[p] + d[p]
  BY <1>1, <1>2, <1>3, <1>4, SumExcept
<1>6. z[p] = w[s[p]] /\ d[p] = 0 /\ w[s[p]] \in Int /\ SumOf(z) \in Int
  BY <1>0, <1>2, <1>3, SumType
<1>7. SumOf(z) = Weigh(s, w)
  BY DEF z, Weigh
<1> QED BY <1>1, <1>5, <1>6, <1>7

-----------------------------------------------------------------------------
(* Maps. *)

Sized(E) == \A e \in E : e.bytes \in Nat
Sizes(E) == [e \in E |-> e.bytes]
Maps(E) == [data : Seq(E), total : Int]
Held(m) == {m.data[i] : i \in 1 .. Len(m.data)}
UniqueKeys(m) == \A i, j \in 1 .. Len(m.data) : m.data[i].key = m.data[j].key => i = j

\* a map of entries of E whose keys are unique and whose total is exact
Fine(m, E) == m \in Maps(E) /\ m.total = Bytes(m.data) /\ UniqueKeys(m)

LEMMA BytesWeigh ==
  ASSUME NEW E, Sized(E), NEW s \in Seq(E)
  PROVE  /\ Sizes(E) \in [E -> Int] /\ \A e \in E : Sizes(E)[e] = e.bytes
         /\ Bytes(s) = Weigh(s, Sizes(E)) /\ Bytes(s) \in Nat
<1>1. Sizes(E) \in [E -> Int] /\ \A e \in E : Sizes(E)[e] = e.bytes /\ Sizes(E)[e] >= 0
  BY DEF Sizes, Sized
<1>2. DOMAIN s = 1 .. Len(s) /\ \A i \in 1 .. Len(s) : s[i] \in E
  BY LenProperties
<1>3. Bytes(s) = Weigh(s, Sizes(E))
  <2>1. \A i \in DOMAIN s : s[i].bytes = Sizes(E)[s[i]]
    BY <1>1, <1>2
  <2>2. [i \in DOMAIN s |-> s[i].bytes] = Weights(s, Sizes(E))
    BY <2>1 DEF Weights
  <2> QED BY <2>2 DEF Bytes, Weigh
<1> QED BY <1>1, <1>3, WeighPart

LEMMA FineFacts ==
  ASSUME NEW E, Sized(E), NEW m, Fine(m, E)
  PROVE  /\ m.data \in Seq(E) /\ Len(m.data) \in Nat /\ DOMAIN m.data = 1 .. Len(m.data)
         /\ \A i \in 1 .. Len(m.data) : m.data[i] \in E /\ m.data[i].bytes \in Nat
         /\ m.total = Bytes(m.data) /\ m.total \in Nat
         /\ UniqueKeys(m)
<1>1. m.data \in Seq(E)
  BY DEF Fine, Maps
<1>2. Len(m.data) \in Nat /\ DOMAIN m.data = 1 .. Len(m.data) /\ \A i \in 1 .. Len(m.data) : m.data[i] \in E
  BY <1>1, LenProperties
<1>3. Bytes(m.data) \in Nat
  BY <1>1, BytesWeigh
<1> QED BY <1>1, <1>2, <1>3 DEF Fine, Sized

LEMMA EmptyFine ==
  ASSUME NEW E
  PROVE  Fine(Empty, E) /\ Bytes(<<>>) = 0
<1>1. Bytes(<<>>) = SumOf(<<>>)
  <2>1. [i \in DOMAIN <<>> |-> <<>>[i].bytes] = <<>>
    OBVIOUS
  <2> QED BY <2>1 DEF Bytes
<1> QED BY <1>1, SumEmpty DEF Fine, Empty, Maps, UniqueKeys

\* Keeping some positions keeps a map in order, within its limits, and adds nothing.
LEMMA KeepFine ==
  ASSUME NEW E, Sized(E), NEW m, Fine(m, E), NEW P
  PROVE  /\ Fine(Keep(m, P), E)
         /\ Keep(m, P).total <= m.total /\ Len(Keep(m, P).data) <= Len(m.data)
         /\ \A e \in Held(Keep(m, P)) : \E i \in 1 .. Len(m.data) : i \in P /\ e = m.data[i]
<1> DEFINE s == m.data
           a == At(m.data, P)
           k == Keep(m, P)
<1>1. /\ s \in Seq(E) /\ Len(s) \in Nat /\ m.total = Bytes(s) /\ m.total \in Nat /\ UniqueKeys(m)
  BY FineFacts
<1>2. a \in Seq(E) /\ Len(a) <= Len(s)
  BY <1>1, AtPlaces
<1>3. PICK f : Places(s, P, Len(s), a, f)
  BY <1>1, AtPlaces
<1>4. Len(a) \in Nat /\ Bytes(a) \in Nat
  BY <1>2, BytesWeigh, LenProperties
<1>5. Bytes(a) <= Bytes(s)
  <2>1. Sizes(E) \in [E -> Int] /\ \A e \in E : Sizes(E)[e] >= 0
    BY <1>1, BytesWeigh DEF Sized
  <2>2. Bytes(s) = Weigh(s, Sizes(E)) /\ Bytes(a) = Weigh(a, Sizes(E))
    BY <1>1, <1>2, BytesWeigh
  <2> QED BY <1>1, <2>1, <2>2, WeighPart
<1>6. k = [data |-> a, total |-> m.total - (Bytes(s) - Bytes(a))]
  BY DEF Keep
<1> HIDE DEF a, s, k
<1>7. k.data = a /\ k.total = Bytes(a) /\ k \in Maps(E)
  BY <1>1, <1>2, <1>4, <1>6 DEF Maps
<1>8. \A i \in 1 .. Len(a) : f[i] \in P /\ f[i] \in 1 .. Len(s) /\ a[i] = s[f[i]]
  BY <1>3 DEF Places
<1>9. UniqueKeys(k)
  <2> SUFFICES ASSUME NEW i \in 1 .. Len(a), NEW j \in 1 .. Len(a), a[i].key = a[j].key
               PROVE  i = j
    BY <1>7 DEF UniqueKeys
  <2>0. \A x, y \in 1 .. Len(s) : s[x].key = s[y].key => x = y
    BY <1>1 DEF UniqueKeys, s
  <2>a. f[i] \in 1 .. Len(s) /\ f[j] \in 1 .. Len(s) /\ a[i] = s[f[i]] /\ a[j] = s[f[j]]
    BY <1>8, Zenon
  <2>1. f[i] = f[j]
    BY <2>0, <2>a, Zenon
  <2>2. f[i] \in Int /\ i \in Int /\ j \in Int
    BY <1>1, <1>4, <1>8
  <2>3. ~(i < j) /\ ~(j < i)
    BY <1>3, <2>1, <2>2 DEF Places
  <2> QED BY <2>2, <2>3
<1>10. Fine(k, E)
  BY <1>7, <1>9 DEF Fine
<1>11. \A e \in Held(k) : \E i \in 1 .. Len(s) : i \in P /\ e = s[i]
  BY <1>7, <1>8 DEF Held
<1> QED BY <1>1, <1>2, <1>5, <1>7, <1>10, <1>11 DEF k, s

LEMMA RemoveFine ==
  ASSUME NEW E, Sized(E), NEW m, Fine(m, E), NEW k
  PROVE  /\ Fine(Remove(m, k), E)
         /\ Remove(m, k).total <= m.total /\ Len(Remove(m, k).data) <= Len(m.data)
         /\ \A e \in Held(Remove(m, k)) : e \in Held(m) /\ e.key # k
<1> DEFINE P == {i \in DOMAIN m.data : m.data[i].key # k}
<1>1. Remove(m, k) = Keep(m, P)
  BY DEF Remove
<1>2. \A i \in P : i \in 1 .. Len(m.data) /\ m.data[i].key # k
  BY FineFacts
<1> HIDE DEF P
<1>3. /\ Fine(Keep(m, P), E)
      /\ Keep(m, P).total <= m.total /\ Len(Keep(m, P).data) <= Len(m.data)
      /\ \A e \in Held(Keep(m, P)) : \E i \in 1 .. Len(m.data) : i \in P /\ e = m.data[i]
  BY KeepFine
<1>4. ASSUME NEW e \in Held(Keep(m, P)) PROVE e \in Held(m) /\ e.key # k
  <2>1. PICK i \in 1 .. Len(m.data) : i \in P /\ e = m.data[i]
    BY <1>3
  <2> QED BY <1>2, <2>1 DEF Held
<1> QED BY <1>1, <1>3, <1>4

LEMMA PruneFine ==
  ASSUME NEW E, Sized(E), NEW m, Fine(m, E), NEW t
  PROVE  /\ Fine(PruneExpired(m, t), E)
         /\ PruneExpired(m, t).total <= m.total /\ Len(PruneExpired(m, t).data) <= Len(m.data)
         /\ Held(PruneExpired(m, t)) \subseteq Held(m)
<1> DEFINE P == {i \in DOMAIN m.data : m.data[i].expires > t}
<1>1. PruneExpired(m, t) = Keep(m, P)
  BY DEF PruneExpired
<1> HIDE DEF P
<1>3. /\ Fine(Keep(m, P), E)
      /\ Keep(m, P).total <= m.total /\ Len(Keep(m, P).data) <= Len(m.data)
      /\ \A e \in Held(Keep(m, P)) : \E i \in 1 .. Len(m.data) : i \in P /\ e = m.data[i]
  BY KeepFine
<1> QED BY <1>1, <1>3 DEF Held

Pushed(m, e) == [data |-> Append(m.data, e), total |-> m.total + e.bytes]

LEMMA PushFine ==
  ASSUME NEW E, Sized(E), NEW m, Fine(m, E), NEW e \in E, \A x \in Held(m) : x.key # e.key
  PROVE  /\ Fine(Pushed(m, e), E)
         /\ Len(Pushed(m, e).data) = Len(m.data) + 1 /\ Pushed(m, e).data[Len(m.data) + 1] = e
         /\ Held(Pushed(m, e)) = Held(m) \cup {e}
<1> DEFINE s == m.data
           a == Append(m.data, e)
           k == Pushed(m, e)
<1>1. /\ s \in Seq(E) /\ Len(s) \in Nat /\ m.total = Bytes(s) /\ m.total \in Nat /\ UniqueKeys(m)
      /\ e.bytes \in Nat
  BY FineFacts DEF Sized
<1>2. a \in Seq(E) /\ Len(a) = Len(s) + 1 /\ a[Len(s) + 1] = e /\ \A i \in 1 .. Len(s) : a[i] = s[i]
  BY <1>1
<1>3. Bytes(a) = Bytes(s) + e.bytes
  <2>1. Sizes(E) \in [E -> Int] /\ Sizes(E)[e] = e.bytes
    BY <1>1, BytesWeigh
  <2>2. Bytes(s) = Weigh(s, Sizes(E)) /\ Bytes(a) = Weigh(a, Sizes(E))
    BY <1>1, <1>2, BytesWeigh
  <2>3. Weigh(a, Sizes(E)) = Weigh(s, Sizes(E)) + Sizes(E)[e]
    BY <1>1, <2>1, WeighAppend
  <2> QED BY <2>1, <2>2, <2>3
<1>4. k.data = a /\ k.total = m.total + e.bytes /\ k \in Maps(E)
  BY <1>1, <1>2 DEF Pushed, Maps
<1>5. \A i \in 1 .. Len(s) : s[i] \in Held(m) /\ s[i].key # e.key
  BY DEF Held
<1>6. \A x, y \in 1 .. Len(s) : s[x].key = s[y].key => x = y
  BY <1>1 DEF UniqueKeys
<1> HIDE DEF a, s, k
<1>7. \A i \in 1 .. Len(a) : i \in 1 .. Len(s) \/ i = Len(s) + 1
  BY <1>1, <1>2
<1>8. \A i, j \in 1 .. Len(a) : a[i].key = a[j].key => i = j
  BY <1>2, <1>5, <1>6, <1>7
<1>9. Fine(k, E)
  BY <1>1, <1>3, <1>4, <1>8 DEF Fine, UniqueKeys
<1>10. Held(k) = Held(m) \cup {e}
  <2>1. Held(k) = {a[i] : i \in 1 .. Len(a)} /\ Held(m) = {s[i] : i \in 1 .. Len(s)}
    BY <1>4 DEF Held, s
  <2>2. \A i \in 1 .. Len(s) : i \in 1 .. Len(a)
    BY <1>1, <1>2
  <2>3. Len(s) + 1 \in 1 .. Len(a)
    BY <1>1, <1>2
  <2> QED BY <1>2, <1>7, <2>1, <2>2, <2>3
<1> QED BY <1>2, <1>4, <1>9, <1>10 DEF k, s

LEMMA GetFine ==
  ASSUME NEW E, Sized(E), NEW m, Fine(m, E), NEW k, NEW t
  PROVE  /\ Fine(Get(m, k, t), E)
         /\ Get(m, k, t).total <= m.total /\ Len(Get(m, k, t).data) <= Len(m.data)
         /\ Held(Get(m, k, t)) \subseteq Held(m)
         /\ Has(m, k, t) => EntryOf(m, k) \in Held(m) /\ EntryOf(m, k).key = k
<1> DEFINE s == m.data
           r == Remove(m, k)
           e == EntryOf(m, k)
<1>1. /\ s \in Seq(E) /\ Len(s) \in Nat /\ DOMAIN s = 1 .. Len(s)
      /\ m.total = Bytes(s) /\ m.total \in Nat /\ UniqueKeys(m) /\ \A i \in 1 .. Len(s) : s[i] \in E
  BY FineFacts
<1>2. /\ Fine(r, E) /\ r.total <= m.total /\ Len(r.data) <= Len(s)
      /\ \A x \in Held(r) : x \in Held(m) /\ x.key # k
  BY RemoveFine
<1>3. CASE ~Has(m, k, t)
  <2>1. Get(m, k, t) = r
    BY <1>3 DEF Get
  <2> QED BY <1>2, <1>3, <2>1
<1>4. CASE Has(m, k, t)
  <2>1. PICK p \in 1 .. Len(s) : s[p].key = k
    BY <1>1, <1>4 DEF Has
  <2>2. \A i \in 1 .. Len(s) : s[i].key = k <=> i = p
    BY <1>1, <2>1 DEF UniqueKeys
  <2>3. e = s[p]
    <3>1. (CHOOSE i \in DOMAIN s : s[i].key = k) = p
      BY <1>1, <2>1, <2>2
    <3> QED BY <3>1 DEF EntryOf
  <2>4. e \in E /\ e \in Held(m) /\ e.key = k
    BY <1>1, <2>1, <2>3 DEF Held
  <2> DEFINE P == {i \in DOMAIN m.data : m.data[i].key # k}
  <2>5. \A i \in 1 .. Len(s) : i \in P <=> i # p
    BY <1>1, <2>2
  <2>6. r.data = At(s, P) /\ r.total = Bytes(r.data)
    BY <1>2 DEF Remove, Keep, Fine
  <2>7. Bytes(At(s, P)) = Bytes(s) - e.bytes /\ Len(At(s, P)) = Len(s) - 1
    <3> HIDE DEF P, s, e
    <3>1. At(s, P) \in Seq(E)
      BY <1>1, AtPlaces
    <3>2. Sizes(E) \in [E -> Int] /\ Sizes(E)[s[p]] = e.bytes
      BY <1>1, <2>3, BytesWeigh
    <3>3. Bytes(s) = Weigh(s, Sizes(E)) /\ Bytes(At(s, P)) = Weigh(At(s, P), Sizes(E))
      BY <1>1, <3>1, BytesWeigh
    <3>4. Weigh(At(s, P), Sizes(E)) = Weigh(s, Sizes(E)) - Sizes(E)[s[p]]
      BY <1>1, <2>5, <3>2, WeighWithout, SMTT(60)
    <3>5. Ones(E) \in [E -> Int] /\ Weigh(s, Ones(E)) = Len(s) /\ Weigh(At(s, P), Ones(E)) = Len(At(s, P))
      BY <1>1, <3>1, WeighOnes
    <3>6. Weigh(At(s, P), Ones(E)) = Weigh(s, Ones(E)) - Ones(E)[s[p]]
      <4>1. Ones(E) \in [E -> Int] /\ s \in Seq(E)
        BY <1>1, <3>5
      <4> QED BY <2>5, <4>1, WeighWithout
    <3>7. Ones(E)[s[p]] = 1
      BY <1>1 DEF Ones
    <3> QED BY <3>2, <3>3, <3>4, <3>5, <3>6, <3>7
  <2>8. Get(m, k, t) = Pushed(r, e)
    <3>1. r.total + e.bytes = m.total
      <4>1. e.bytes \in Nat
        BY <2>4 DEF Sized
      <4> QED BY <1>1, <2>6, <2>7, <4>1
    <3>2. Get(m, k, t) = [m EXCEPT !.data = Append(r.data, e)]
      BY <1>4 DEF Get
    <3>3. m = [data |-> m.data, total |-> m.total]
      BY DEF Fine, Maps
    <3>4. Get(m, k, t) = [data |-> Append(r.data, e), total |-> m.total]
      BY <3>2, <3>3
    <3> HIDE DEF r, e
    <3> QED BY <3>1, <3>4 DEF Pushed
  <2>9. r.data \in Seq(E) /\ Len(r.data) \in Nat /\ Pushed(r, e).total = m.total
    <3>1. r.data \in Seq(E) /\ Len(r.data) \in Nat
      BY <1>2, FineFacts
    <3>2. e.bytes \in Nat
      BY <2>4 DEF Sized
    <3> HIDE DEF r, e
    <3> QED BY <1>1, <2>6, <2>7, <3>1, <3>2 DEF Pushed
  <2> HIDE DEF r, e, P, s
  <2>10. /\ Fine(Pushed(r, e), E) /\ Len(Pushed(r, e).data) = Len(r.data) + 1
         /\ Held(Pushed(r, e)) = Held(r) \cup {e}
    BY <1>2, <2>4, PushFine
  <2>11. Len(Pushed(r, e).data) = Len(s) /\ Pushed(r, e).total <= m.total
    <3>1. Len(r.data) = Len(s) - 1
      BY <2>6, <2>7
    <3>2. Len(Pushed(r, e).data) = Len(s)
      <4>1. Len(s) \in Nat /\ \A x \in Nat : (x - 1) + 1 = x
        BY <1>1
      <4> QED BY <2>10, <3>1, <4>1, Zenon
    <3> QED BY <1>1, <2>9, <3>2
  <2>12. Held(Pushed(r, e)) \subseteq Held(m)
    BY <1>2, <2>4, <2>10
  <2> QED BY <1>1, <2>4, <2>8, <2>10, <2>11, <2>12 DEF e, s
<1> QED BY <1>3, <1>4

-----------------------------------------------------------------------------
(* Limits. *)

Options == [maxEntries : Nat, maxBytes : Nat, ttl : Nat]

LEMMA BoundedIsFine ==
  ASSUME NEW E, Sized(E), NEW m \in Maps(E), NEW o \in Options
  PROVE  WithinBounds(m, o) <=>
           Fine(m, E) /\ m.total <= o.maxBytes /\ Len(m.data) <= o.maxEntries
<1>1. DOMAIN m.data = 1 .. Len(m.data)
  BY LenProperties DEF Maps
<1> QED BY <1>1 DEF WithinBounds, Fine, UniqueKeys

\* enforce() ends within the limits with a subset of the entries, and keeps the last entry
\* unless that one alone is over the limits.
LEMMA EnforceBounds ==
  ASSUME NEW E, Sized(E), NEW m, Fine(m, E), NEW o \in Options
  PROVE  /\ Fine(Enforce(m, o), E) /\ WithinBounds(Enforce(m, o), o)
         /\ Held(Enforce(m, o)) \subseteq Held(m)
         /\ Len(m.data) > 0 /\ o.maxEntries > 0 /\ m.data[Len(m.data)].bytes <= o.maxBytes
              => m.data[Len(m.data)] \in Held(Enforce(m, o))
<1> DEFINE s == m.data
           N == Len(m.data)
           Rest(n) == SubSeq(m.data, n + 1, Len(m.data))
           Left(n) == m.total - Bytes(SubSeq(m.data, 1, n))
           enough == {n \in 0 .. Len(m.data) : Len(m.data) - n <= o.maxEntries /\ Left(n) <= o.maxBytes}
           least == Min(enough)
           k == Enforce(m, o)
<1>1. /\ s \in Seq(E) /\ N \in Nat /\ DOMAIN s = 1 .. N /\ \A i \in 1 .. N : s[i] \in E /\ s[i].bytes \in Nat
      /\ m.total = Bytes(s) /\ m.total \in Nat
      /\ \A x, y \in 1 .. N : s[x].key = s[y].key => x = y
  BY FineFacts DEF UniqueKeys
<1>2. o.maxEntries \in Nat /\ o.maxBytes \in Nat
  BY DEF Options
<1>3. k = [data |-> Rest(least), total |-> Left(least)]
  BY DEF Enforce
<1>4. ASSUME NEW n \in 0 .. N
      PROVE  /\ Rest(n) \in Seq(E) /\ Len(Rest(n)) = N - n
             /\ \A i \in 1 .. N - n : Rest(n)[i] = s[n + i] /\ n + i \in 1 .. N
             /\ Left(n) = Bytes(Rest(n)) /\ Left(n) \in Int
  <2> DEFINE a == SubSeq(s, 1, n)
             b == Rest(n)
  <2>1. n + 1 \in 1 .. N + 1 /\ N \in (n + 1) - 1 .. N /\ n \in Nat
    BY <1>1
  <2>2. a \in Seq(E) /\ b \in Seq(E) /\ Len(b) = N - (n + 1) + 1
        /\ \A i \in 1 .. N - (n + 1) + 1 : b[i] = s[(n + 1) + i - 1]
    <3> HIDE DEF s
    <3>1. \A i \in 1 .. n : s[i] \in E
      BY <1>1
    <3>2. \A i \in n + 1 .. N : s[i] \in E
      BY <1>1
    <3>3. a \in Seq(E)
      BY <2>1, <3>1, SubSeqProperties
    <3>4. b \in Seq(E) /\ \A i \in 1 .. N - (n + 1) + 1 : b[i] = s[(n + 1) + i - 1]
      BY <1>1, <2>1, <3>2, SubSeqProperties, SMTT(60) DEF s
    <3>5. Len(b) = IF n + 1 <= N THEN N - (n + 1) + 1 ELSE 0
      BY <1>1, <2>1, <3>2, SubSeqProperties DEF s
    <3>6. N \in Nat /\ n \in 0 .. N
      BY <1>1
    <3>7. (IF n + 1 <= N THEN N - (n + 1) + 1 ELSE 0) = N - (n + 1) + 1
      BY <3>6
    <3> HIDE DEF a, b
    <3> QED BY <3>3, <3>4, <3>5, <3>7, Zenon
  <2>3. N - (n + 1) + 1 = N - n /\ \A i \in 1 .. N - n : (n + 1) + i - 1 = n + i /\ n + i \in 1 .. N
    BY <1>1, SMTT(60)
  <2>4. Bytes(s) = Bytes(a) + Bytes(b) /\ Bytes(a) \in Nat /\ Bytes(b) \in Nat
    <3> HIDE DEF a
    <3>1. Sizes(E) \in [E -> Int] /\ Bytes(s) = Weigh(s, Sizes(E))
      BY <1>1, BytesWeigh
    <3>2. Bytes(a) = Weigh(a, Sizes(E)) /\ Bytes(b) = Weigh(b, Sizes(E)) /\ Bytes(a) \in Nat /\ Bytes(b) \in Nat
      <4> HIDE DEF b
      <4> QED BY <2>2, BytesWeigh
    <3>3. Weigh(s, Sizes(E)) = Weigh(a, Sizes(E)) + Weigh(b, Sizes(E))
      BY <1>1, <3>1, WeighSplit DEF a
    <3> QED BY <3>1, <3>2, <3>3
  <2>5. Left(n) = m.total - Bytes(a)
    OBVIOUS
  <2> HIDE DEF a, b, Left
  <2>6. Left(n) = Bytes(b) /\ Left(n) \in Int
    BY <1>1, <2>4, <2>5
  <2> QED BY <2>2, <2>3, <2>6 DEF b
<1>5. N \in enough
  <2>1. Left(N) = Bytes(Rest(N)) /\ Len(Rest(N)) = 0 /\ Rest(N) \in Seq(E)
    <3> HIDE DEF Rest, Left
    <3>1. N \in 0 .. N
      BY <1>1
    <3> QED BY <1>1, <1>4, <3>1
  <2> HIDE DEF Rest, Left
  <2>2. Rest(N) = <<>>
    BY <2>1
  <2>3. Left(N) = 0
    BY <2>1, <2>2, EmptyFine
  <2> QED BY <1>1, <1>2, <2>3
<1>6. least \in enough /\ \A n \in enough : least <= n
  <2>1. enough \in SUBSET Nat /\ enough # {}
    BY <1>1, <1>5
  <2> HIDE DEF enough
  <2>2. \E n \in enough : \A x \in enough : n <= x
    BY <2>1, LeastExists
  <2> QED BY <2>2 DEF Min
<1>7. least \in 0 .. N /\ N - least <= o.maxEntries /\ Left(least) <= o.maxBytes
  <2> HIDE DEF least, Left
  <2> QED BY <1>6
<1> HIDE DEF least, Rest, Left, k, s
<1>8. /\ k.data \in Seq(E) /\ Len(k.data) = N - least /\ k.total = Bytes(k.data) /\ k \in Maps(E)
      /\ \A i \in 1 .. N - least : k.data[i] = s[least + i] /\ least + i \in 1 .. N
  BY <1>3, <1>4, <1>7 DEF Maps
<1>9. UniqueKeys(k)
  <2> SUFFICES ASSUME NEW i \in 1 .. N - least, NEW j \in 1 .. N - least, k.data[i].key = k.data[j].key
               PROVE  i = j
    BY <1>8 DEF UniqueKeys
  <2>1. least + i = least + j
    BY <1>1, <1>8, SMTT(60)
  <2> QED BY <1>1, <1>7, <2>1
<1>10. Fine(k, E)
  BY <1>8, <1>9 DEF Fine
<1>11. WithinBounds(k, o)
  <2>1. k.total <= o.maxBytes /\ Len(k.data) <= o.maxEntries
    BY <1>3, <1>7, <1>8
  <2> QED BY <1>8, <1>10, <2>1, BoundedIsFine
<1>12. Held(k) \subseteq Held(m)
  BY <1>8 DEF Held, s
<1>13. ASSUME N > 0, o.maxEntries > 0, s[N].bytes <= o.maxBytes PROVE s[N] \in Held(k)
  <2>1. N - 1 \in 0 .. N /\ N - (N - 1) = 1 /\ 1 \in 1 .. 1 /\ (N - 1) + 1 = N
    BY <1>1, <1>13
  <2>2. /\ Left(N - 1) = Bytes(Rest(N - 1)) /\ Rest(N - 1) \in Seq(E)
        /\ Len(Rest(N - 1)) = 1 /\ Rest(N - 1)[1] = s[N]
    BY <1>4, <2>1, ZenonT(60)
  <2>3. Left(N - 1) = s[N].bytes
    <3> DEFINE z == Rest(N - 1)
    <3>1. z = Append(<<>>, s[N]) /\ <<>> \in Seq(E) /\ s[N] \in E
      BY <1>1, <1>13, <2>2
    <3>2. Sizes(E) \in [E -> Int] /\ Sizes(E)[s[N]] = s[N].bytes
          /\ Bytes(<<>>) = Weigh(<<>>, Sizes(E)) /\ Bytes(z) = Weigh(z, Sizes(E))
      BY <2>2, <3>1, BytesWeigh
    <3>3. Weigh(z, Sizes(E)) = Weigh(<<>>, Sizes(E)) + Sizes(E)[s[N]]
      BY <3>1, <3>2, WeighAppend, ZenonT(60)
    <3>4. Bytes(<<>>) = 0 /\ s[N].bytes \in Nat
      BY <1>1, <1>13, EmptyFine
    <3> QED BY <2>2, <3>2, <3>3, <3>4
  <2>4. N - 1 \in enough
    BY <1>2, <1>13, <2>1, <2>3
  <2>5. least <= N - 1
    BY <1>6, <2>4
  <2>6. N - least \in 1 .. N - least /\ least + (N - least) = N
    BY <1>1, <1>7, <2>5
  <2>7. k.data[N - least] = s[N] /\ N - least \in 1 .. Len(k.data)
    BY <1>8, <2>6
  <2> QED BY <2>7 DEF Held
<1> QED BY <1>10, <1>11, <1>12, <1>13 DEF k, s

NewEntry(k, v, size, t, o) == [key |-> k, value |-> v, bytes |-> size, expires |-> t + o.ttl]

\* set() keeps a map within its limits, adds nothing but the new entry, and that one is
\* there afterwards unless it is over the byte limit by itself.
LEMMA SetBounds ==
  ASSUME NEW E, Sized(E), NEW o \in Options, NEW m \in Maps(E), WithinBounds(m, o),
         NEW k, NEW v, NEW size, NEW t, NewEntry(k, v, size, t, o) \in E
  PROVE  /\ Set(m, k, v, size, t, o) \in Maps(E) /\ WithinBounds(Set(m, k, v, size, t, o), o)
         /\ Held(Set(m, k, v, size, t, o)) \subseteq Held(m) \cup {NewEntry(k, v, size, t, o)}
         /\ size <= o.maxBytes /\ o.maxEntries > 0
              => NewEntry(k, v, size, t, o) \in Held(Set(m, k, v, size, t, o))
<1> DEFINE e == NewEntry(k, v, size, t, o)
           r == Remove(m, k)
           p == Pushed(r, e)
           q == Enforce(p, o)
<1>1. e.key = k /\ e.bytes = size /\ size \in Nat /\ o.maxBytes \in Nat
  BY DEF NewEntry, Sized, Options
<1>2. Fine(m, E)
  BY BoundedIsFine
<1>3. CASE size > o.maxBytes
  <2>1. Set(m, k, v, size, t, o) = m
    BY <1>3 DEF Set
  <2> QED BY <1>1, <1>3, <2>1
<1>4. CASE ~(size > o.maxBytes)
  <2>1. Set(m, k, v, size, t, o) = q
    BY <1>1, <1>4 DEF Set, Replaced, Pushed, NewEntry
  <2>2. Fine(r, E) /\ \A x \in Held(r) : x \in Held(m) /\ x.key # e.key
    BY <1>1, <1>2, RemoveFine
  <2>3. r.data \in Seq(E) /\ Len(r.data) \in Nat
    BY <2>2, FineFacts
  <2> HIDE DEF e, r
  <2>4. /\ Fine(p, E) /\ Held(p) = Held(r) \cup {e}
        /\ Len(p.data) = Len(r.data) + 1 /\ p.data[Len(r.data) + 1] = e
    BY <2>2, PushFine DEF e
  <2> HIDE DEF p
  <2>5. /\ Fine(q, E) /\ WithinBounds(q, o) /\ Held(q) \subseteq Held(p)
        /\ Len(p.data) > 0 /\ o.maxEntries > 0 /\ p.data[Len(p.data)].bytes <= o.maxBytes
             => p.data[Len(p.data)] \in Held(q)
    BY <2>4, EnforceBounds
  <2>6. Len(p.data) > 0 /\ p.data[Len(p.data)] = e /\ p.data[Len(p.data)].bytes = size
    BY <1>1, <2>3, <2>4
  <2>7. size <= o.maxBytes
    BY <1>1, <1>4
  <2>8. q \in Maps(E) /\ Held(q) \subseteq Held(m) \cup {e}
    BY <2>2, <2>4, <2>5 DEF Fine
  <2>9. o.maxEntries > 0 => e \in Held(q)
    BY <2>5, <2>6, <2>7
  <2> HIDE DEF q
  <2> QED BY <2>1, <2>5, <2>8, <2>9 DEF e
<1> QED BY <1>3, <1>4

\* A smaller map with unique keys is within the same limits.
LEMMA SmallerBounded ==
  ASSUME NEW E, Sized(E), NEW o \in Options, NEW m \in Maps(E), WithinBounds(m, o),
         NEW r, Fine(r, E), r.total <= m.total, Len(r.data) <= Len(m.data)
  PROVE  r \in Maps(E) /\ WithinBounds(r, o)
<1>1. /\ m.total <= o.maxBytes /\ Len(m.data) <= o.maxEntries /\ m.total \in Int /\ Len(m.data) \in Nat
      /\ o.maxBytes \in Nat /\ o.maxEntries \in Nat
  BY LenProperties DEF WithinBounds, Maps, Options
<1>2. r \in Maps(E) /\ r.total \in Int /\ Len(r.data) \in Nat
  BY LenProperties DEF Fine, Maps
<1>3. r.total <= o.maxBytes /\ Len(r.data) <= o.maxEntries
  BY <1>1, <1>2
<1> QED BY <1>2, <1>3, BoundedIsFine

-----------------------------------------------------------------------------
(* The inductive invariant. *)

Entries == [key : Allowed, value : Requests, bytes : Nat, expires : Int]
Handlers == [from : Allowed, at : Nat, history : Requests, state : {"asking", "answered"}]
Messages == [role : {"user", "assistant"}, of : Requests, size : Nat]
Replies == [of : Requests, size : Nat]

Typed ==
  /\ now \in Nat
  /\ windows \in [Senders -> Seq(Int)]
  /\ request \in Seq(Handlers) /\ Len(request) <= MaxRequests
  /\ history \in [Requests -> Seq(Messages)]
  /\ outbox \in [Requests -> Seq(Replies)]
  /\ sessions \in Maps(Entries)
  /\ outboxes \in Maps(Entries)

\* r is, among the requests q, one of s
Of(r, s, q) == r \in 1 .. Len(q) /\ q[r].from = s

\* each array holds messages of the sender of the request that created it
Belongs(f, q) ==
  \A r \in Requests : \A i \in 1 .. Len(f[r]) :
    r \in 1 .. Len(q) /\ Of(f[r][i].of, q[r].from, q)

\* each sender's entry holds an array of the sender
Stored(m, q) == \A e \in Held(m) : Of(e.value, e.key, q)

Owned ==
  /\ Belongs(history, request) /\ Belongs(outbox, request)
  /\ Stored(sessions, request) /\ Stored(outboxes, request)
  /\ \A r \in 1 .. Len(request) : Of(request[r].history, request[r].from, request)

Newer(t) == [x \in Int |-> IF x >= t THEN 1 ELSE 0]
Since(s, t) == {r \in 1 .. Len(request) : request[r].from = s /\ request[r].at >= t}

\* The limiter remembers every accepted request of a sender that is still in its window.
Counted ==
  \A s \in Senders, t \in Int :
    t > now - Window => Cardinality(Since(s, t)) <= Weigh(windows[s], Newer(t))

Inv == Typed /\ Owned /\ StateBounded

-----------------------------------------------------------------------------
(* Constants and helpers. *)

LEMMA ConstantFacts ==
  /\ Allowed \subseteq Senders /\ \A z \in ReplySizes : z \in Nat
  /\ SessionMap \in Options /\ OutboxMap \in Options
  /\ SessionMap.maxEntries > 0 /\ OutboxMap.maxEntries > 0 /\ SessionMap.maxBytes = MaxStateBytes
  /\ MaxMessages \in Nat \ {0} /\ MaxOutbox \in Nat \ {0}
  /\ MaxRequests \in Nat /\ MaxPerWindow \in Nat /\ Window \in Nat \ {0} /\ MaxTime \in Nat
<1>1. MaxRequests \in Nat /\ MaxTime \in Nat /\ MaxPerWindow \in Nat /\ SessionTtl \in Nat /\ OutboxTtl \in Nat
  BY LimitsAssumption
<1>2. /\ Window \in Nat \ {0} /\ MaxSessions \in Nat \ {0} /\ MaxPrincipals \in Nat \ {0}
      /\ MaxStateBytes \in Nat \ {0} /\ MaxMessages \in Nat \ {0} /\ MaxOutbox \in Nat \ {0}
  BY LimitsAssumption
<1> QED BY <1>1, <1>2, SendersAssumption DEF SessionMap, OutboxMap, Options

LEMMA SizedEntries == Sized(Entries)
BY DEF Sized, Entries

\* The last n of a sequence are its own, and end as it does.
LEMMA LastNFacts ==
  ASSUME NEW V, NEW s \in Seq(V), Len(s) > 0, NEW n \in Nat \ {0}
  PROVE  /\ LastN(s, n) \in Seq(V) /\ Len(LastN(s, n)) > 0
         /\ LastN(s, n)[Len(LastN(s, n))] = s[Len(s)]
         /\ \A i \in 1 .. Len(LastN(s, n)) : \E j \in 1 .. Len(s) : LastN(s, n)[i] = s[j]
<1> DEFINE N == Len(s)
           a == N - n + 1
           u == SubSeq(s, a, N)
<1>1. N \in Nat /\ N > 0 /\ \A i \in 1 .. N : s[i] \in V
  BY LenProperties
<1>2. CASE N <= n
  <2>1. LastN(s, n) = s
    BY <1>2 DEF LastN
  <2> QED BY <1>1, <2>1
<1>3. CASE ~(N <= n)
  <2>1. LastN(s, n) = u
    BY <1>3 DEF LastN
  <2>2. a \in Int /\ N \in Int /\ a <= N /\ a >= 1 /\ N - a + 1 = n
    BY <1>1, <1>3
  <2>3. \A i \in a .. N : s[i] \in V
    BY <1>1, <2>2
  <2>4. u \in Seq(V) /\ Len(u) = N - a + 1 /\ \A i \in 1 .. N - a + 1 : u[i] = s[a + i - 1]
    <3> HIDE DEF a
    <3> QED BY <2>2, <2>3, SubSeqProperties
  <2>5. \A i \in 1 .. n : a + i - 1 \in 1 .. N
    BY <1>1, <1>3
  <2>6. n \in 1 .. n /\ a + n - 1 = N
    BY <1>1
  <2> HIDE DEF u, a
  <2> QED BY <2>1, <2>2, <2>4, <2>5, <2>6
<1> QED BY <1>2, <1>3

LEMMA WeightType ==
  ASSUME NEW V, NEW s \in Seq(V), \A x \in V : x.size \in Nat
  PROVE  Weight(s) \in Nat
<1> DEFINE w == [x \in V |-> x.size]
<1>1. w \in [V -> Int] /\ \A x \in V : w[x] >= 0 /\ w[x] = x.size
  OBVIOUS
<1>2. DOMAIN s = 1 .. Len(s) /\ \A i \in 1 .. Len(s) : s[i] \in V
  BY LenProperties
<1> HIDE DEF w
<1>3. [i \in DOMAIN s |-> s[i].size] = Weights(s, w)
  BY <1>1, <1>2 DEF Weights
<1>4. Weigh(s, w) \in Nat
  BY <1>1, WeighPart
<1> QED BY <1>3, <1>4 DEF Weight, Weigh

\* No request changes hands.
Follows(q, p) == \A r, s : Of(r, s, q) => Of(r, s, p)

LEMMA FollowsAppend ==
  ASSUME NEW q \in Seq(Handlers), NEW x \in Handlers
  PROVE  Follows(q, Append(q, x)) /\ Of(Len(q) + 1, x.from, Append(q, x))
<1>1. /\ Len(q) \in Nat /\ Len(Append(q, x)) = Len(q) + 1
      /\ Append(q, x)[Len(q) + 1] = x /\ \A i \in 1 .. Len(q) : Append(q, x)[i] = q[i]
  OBVIOUS
<1>2. \A i \in 1 .. Len(q) : i \in 1 .. Len(Append(q, x))
  BY <1>1
<1> QED BY <1>1, <1>2 DEF Follows, Of

LEMMA HandlerType ==
  ASSUME NEW q \in Seq(Handlers), NEW r \in 1 .. Len(q)
  PROVE  q[r].from \in Allowed /\ q[r].history \in Requests /\ q[r].at \in Nat
<1>1. q[r] \in Handlers
  BY LenProperties
<1> QED BY <1>1 DEF Handlers

Answered(q, r) == [q EXCEPT ![r].state = "answered"]

LEMMA FollowsAnswer ==
  ASSUME NEW q \in Seq(Handlers), NEW r \in 1 .. Len(q), NEW p, p = Answered(q, r)
  PROVE  /\ p \in Seq(Handlers) /\ Len(p) = Len(q) /\ Follows(q, p)
         /\ \A i \in 1 .. Len(q) : p[i].from = q[i].from /\ p[i].at = q[i].at /\ p[i].history = q[i].history
<1>0. p = [q EXCEPT ![r].state = "answered"]
  BY DEF Answered
<1>1. Len(q) \in Nat /\ DOMAIN q = 1 .. Len(q) /\ \A i \in 1 .. Len(q) : q[i] \in Handlers
  BY LenProperties
<1>2. ASSUME NEW i \in 1 .. Len(q)
      PROVE  p[i] \in Handlers /\ p[i].from = q[i].from /\ p[i].at = q[i].at /\ p[i].history = q[i].history
  <2>0. q[i] \in Handlers /\ i \in DOMAIN q
    BY <1>1
  <2>1. CASE i = r
    <3>1. p[i] = [q[i] EXCEPT !.state = "answered"]
      BY <1>0, <2>0, <2>1
    <3> QED BY <2>0, <3>1 DEF Handlers
  <2>2. CASE i # r
    BY <1>0, <2>0, <2>2
  <2> QED BY <2>1, <2>2
<1>3. DOMAIN p = 1 .. Len(q)
  BY <1>0, <1>1
<1>4. p = [i \in 1 .. Len(q) |-> p[i]]
  BY <1>0, <1>3
<1>5. p \in Seq(Handlers) /\ Len(p) = Len(q)
  <2>1. \A i \in 1 .. Len(q) : p[i] \in Handlers
    BY <1>2
  <2> DEFINE v(i) == p[i]
  <2>2. p = [i \in 1 .. Len(q) |-> v(i)] /\ \A i \in 1 .. Len(q) : v(i) \in Handlers
    BY <1>4, <2>1
  <2> HIDE DEF v
  <2> QED BY <1>1, <2>2
<1> QED BY <1>2, <1>5 DEF Follows, Of

\* g is f with e said in the array h, and perhaps older messages of h left out.
Said(f, g, h, e) ==
  \A r \in Requests : \A i \in 1 .. Len(g[r]) :
    (r = h /\ g[r][i] = e) \/ (\E j \in 1 .. Len(f[r]) : g[r][i] = f[r][j])

LEMMA BelongsKept ==
  ASSUME NEW f, NEW q, NEW p, Belongs(f, q), Follows(q, p)
  PROVE  /\ Belongs(f, p)
         /\ \A g, h, e : Said(f, g, h, e) /\ h \in 1 .. Len(p) /\ Of(e.of, p[h].from, p) => Belongs(g, p)
<1>1. ASSUME NEW r \in Requests, NEW i \in 1 .. Len(f[r])
      PROVE  r \in 1 .. Len(p) /\ Of(f[r][i].of, p[r].from, p)
  <2>1. Of(r, q[r].from, q) /\ Of(f[r][i].of, q[r].from, q)
    BY DEF Belongs, Of
  <2>2. Of(r, q[r].from, p) /\ Of(f[r][i].of, q[r].from, p)
    BY <2>1 DEF Follows
  <2> QED BY <2>2 DEF Of
<1>2. ASSUME NEW g, NEW h, NEW e, Said(f, g, h, e), h \in 1 .. Len(p), Of(e.of, p[h].from, p),
             NEW r \in Requests, NEW i \in 1 .. Len(g[r])
      PROVE  r \in 1 .. Len(p) /\ Of(g[r][i].of, p[r].from, p)
  <2>1. CASE r = h /\ g[r][i] = e
    BY <1>2, <2>1
  <2>2. CASE \E j \in 1 .. Len(f[r]) : g[r][i] = f[r][j]
    BY <1>1, <2>2
  <2> QED BY <1>2, <2>1, <2>2 DEF Said
<1> QED BY <1>1, <1>2 DEF Belongs

\* The arrays g are the arrays f, of elements of V, but for h, which now ends with e.
EndsWith(V, f, g, h, e) ==
  /\ g \in [Requests -> Seq(V)] /\ Said(f, g, h, e)
  /\ g[h][Len(g[h])] = e
  /\ \A r \in Requests : r # h => g[r] = f[r]

LEMMA EndsWithFacts ==
  ASSUME NEW V, NEW f \in [Requests -> Seq(V)], NEW h \in Requests, NEW e \in V, NEW g
  PROVE  /\ g = [f EXCEPT ![h] = Append(@, e)] => EndsWith(V, f, g, h, e)
         /\ \A n \in Nat \ {0} : g = [f EXCEPT ![h] = LastN(Append(@, e), n)] => EndsWith(V, f, g, h, e)
<1> DEFINE a == Append(f[h], e)
<1>1. /\ a \in Seq(V) /\ Len(a) > 0 /\ a[Len(a)] = e
      /\ \A i \in 1 .. Len(a) : a[i] = e \/ (\E j \in 1 .. Len(f[h]) : a[i] = f[h][j])
  <2>1. /\ f[h] \in Seq(V) /\ Len(f[h]) \in Nat
        /\ a \in Seq(V) /\ Len(a) = Len(f[h]) + 1 /\ a[Len(f[h]) + 1] = e
        /\ \A i \in 1 .. Len(f[h]) : a[i] = f[h][i]
    OBVIOUS
  <2>2. \A i \in 1 .. Len(a) : i \in 1 .. Len(f[h]) \/ i = Len(f[h]) + 1
    BY <2>1
  <2> HIDE DEF a
  <2> QED BY <2>1, <2>2
<1> HIDE DEF a
<1>2. ASSUME NEW b \in Seq(V), b[Len(b)] = e, \A i \in 1 .. Len(b) : \E j \in 1 .. Len(a) : b[i] = a[j],
             g = [f EXCEPT ![h] = b]
      PROVE  EndsWith(V, f, g, h, e)
  <2>1. g \in [Requests -> Seq(V)] /\ g[h] = b /\ \A r \in Requests : r # h => g[r] = f[r]
    BY <1>2
  <2>2. ASSUME NEW r \in Requests, NEW i \in 1 .. Len(g[r])
        PROVE  (r = h /\ g[r][i] = e) \/ (\E j \in 1 .. Len(f[r]) : g[r][i] = f[r][j])
    <3>1. CASE r = h
      BY <1>1, <1>2, <2>1, <3>1, SMTT(60)
    <3>2. CASE r # h
      BY <2>1, <3>2
    <3> QED BY <3>1, <3>2
  <2>3. Said(f, g, h, e)
    BY <2>2 DEF Said
  <2> QED BY <1>2, <2>1, <2>3 DEF EndsWith
<1>3. ASSUME g = [f EXCEPT ![h] = Append(@, e)] PROVE EndsWith(V, f, g, h, e)
  <2>1. g = [f EXCEPT ![h] = a]
    BY <1>3 DEF a
  <2>2. \A i \in 1 .. Len(a) : \E j \in 1 .. Len(a) : a[i] = a[j]
    OBVIOUS
  <2> QED BY <1>1, <1>2, <2>1, <2>2
<1>4. ASSUME NEW n \in Nat \ {0}, g = [f EXCEPT ![h] = LastN(Append(@, e), n)]
      PROVE  EndsWith(V, f, g, h, e)
  <2>1. g = [f EXCEPT ![h] = LastN(a, n)]
    BY <1>4 DEF a
  <2>2. /\ LastN(a, n) \in Seq(V) /\ LastN(a, n)[Len(LastN(a, n))] = e
        /\ \A i \in 1 .. Len(LastN(a, n)) : \E j \in 1 .. Len(a) : LastN(a, n)[i] = a[j]
    BY <1>1, LastNFacts
  <2> QED BY <1>2, <2>1, <2>2
<1> QED BY <1>3, <1>4

LEMMA ArraysWeigh ==
  /\ \A f \in [Requests -> Seq(Messages)], h \in Requests : Weight(f[h]) \in Nat
  /\ \A f \in [Requests -> Seq(Replies)], h \in Requests : Weight(f[h]) \in Nat
<1>1. (\A x \in Messages : x.size \in Nat) /\ (\A x \in Replies : x.size \in Nat)
  BY DEF Messages, Replies
<1> QED BY <1>1, WeightType

-----------------------------------------------------------------------------
(* The maps. *)

LEMMA GetStored ==
  ASSUME NEW m \in Maps(Entries), NEW o \in Options, WithinBounds(m, o), NEW s, NEW t
  PROVE  /\ Get(m, s, t) \in Maps(Entries) /\ WithinBounds(Get(m, s, t), o)
         /\ Held(Get(m, s, t)) \subseteq Held(m)
         /\ Has(m, s, t) => EntryOf(m, s) \in Held(m) /\ EntryOf(m, s).key = s
<1>1. Sized(Entries)
  BY SizedEntries
<1>2. Fine(m, Entries)
  BY <1>1, BoundedIsFine
<1>3. /\ Fine(Get(m, s, t), Entries)
      /\ Get(m, s, t).total <= m.total /\ Len(Get(m, s, t).data) <= Len(m.data)
      /\ Held(Get(m, s, t)) \subseteq Held(m)
      /\ Has(m, s, t) => EntryOf(m, s) \in Held(m) /\ EntryOf(m, s).key = s
  BY <1>1, <1>2, GetFine
<1>4. Get(m, s, t) \in Maps(Entries) /\ WithinBounds(Get(m, s, t), o)
  BY <1>1, <1>3, SmallerBounded
<1> QED BY <1>3, <1>4

LEMMA PrunedStored ==
  ASSUME NEW m \in Maps(Entries), NEW o \in Options, WithinBounds(m, o), NEW x \in MaybePruned(m)
  PROVE  x \in Maps(Entries) /\ WithinBounds(x, o) /\ Held(x) \subseteq Held(m)
<1>1. Sized(Entries)
  BY SizedEntries
<1>2. Fine(m, Entries)
  BY <1>1, BoundedIsFine
<1>3. CASE x = m
  BY <1>3
<1>4. CASE x = PruneExpired(m, now)
  <2>1. /\ Fine(PruneExpired(m, now), Entries)
        /\ PruneExpired(m, now).total <= m.total /\ Len(PruneExpired(m, now).data) <= Len(m.data)
        /\ Held(PruneExpired(m, now)) \subseteq Held(m)
    BY <1>1, <1>2, PruneFine
  <2> QED BY <1>1, <1>4, <2>1, SmallerBounded
<1> QED BY <1>3, <1>4 DEF MaybePruned

\* What set() leaves: the old entries at most, and the new one, which is there unless it
\* is over the byte limit by itself.
LEMMA SetStored ==
  ASSUME NEW m \in Maps(Entries), NEW o \in Options, WithinBounds(m, o), NEW x \in MaybePruned(m),
         NEW s \in Allowed, NEW v \in Requests, NEW size \in Nat, now \in Nat
  PROVE  LET n == Set(x, s, v, size, now, o)
         IN /\ n \in Maps(Entries) /\ WithinBounds(n, o)
            /\ \A e \in Held(n) : e \in Held(m) \/ (e.key = s /\ e.value = v)
            /\ size <= o.maxBytes /\ o.maxEntries > 0 => \E e \in Held(n) : e.key = s /\ e.value = v
<1> DEFINE e0 == NewEntry(s, v, size, now, o)
           n == Set(x, s, v, size, now, o)
<1>1. x \in Maps(Entries) /\ WithinBounds(x, o) /\ Held(x) \subseteq Held(m)
  BY PrunedStored
<1>2. e0 \in Entries /\ e0.key = s /\ e0.value = v
  BY DEF NewEntry, Entries, Options
<1> HIDE DEF e0
<1>3. /\ n \in Maps(Entries) /\ WithinBounds(n, o) /\ Held(n) \subseteq Held(x) \cup {e0}
      /\ size <= o.maxBytes /\ o.maxEntries > 0 => e0 \in Held(n)
  BY <1>1, <1>2, SizedEntries, SetBounds DEF e0
<1> HIDE DEF n
<1> QED BY <1>1, <1>2, <1>3 DEF n

LEMMA StoredKept ==
  ASSUME NEW m, NEW q, NEW p, Stored(m, q), Follows(q, p)
  PROVE  /\ Stored(m, p)
         /\ \A n, s, v : (\A e \in Held(n) : e \in Held(m) \/ (e.key = s /\ e.value = v)) /\ Of(v, s, p)
              => Stored(n, p)
BY DEF Stored, Follows

-----------------------------------------------------------------------------
(* The steps. *)

LEMMA InitInv == Init => Inv
<1> SUFFICES ASSUME Init PROVE Inv
  OBVIOUS
<1>1. Typed
  <2>1. Empty \in Maps(Entries)
    BY EmptyFine DEF Fine
  <2>2. <<>> \in Seq(Int) /\ <<>> \in Seq(Handlers) /\ <<>> \in Seq(Messages) /\ <<>> \in Seq(Replies) /\ Len(<<>>) = 0
    OBVIOUS
  <2>3. [r \in Requests |-> <<>>] \in [Requests -> Seq(Messages)] /\ [r \in Requests |-> <<>>] \in [Requests -> Seq(Replies)]
        /\ [s \in Senders |-> <<>>] \in [Senders -> Seq(Int)]
    BY <2>2
  <2> QED BY <2>1, <2>2, <2>3, ConstantFacts DEF Init, Typed
<1>2. Owned
  <2>1. Held(Empty) = {}
    BY DEF Held, Empty
  <2>2. \A r \in Requests : Len(history[r]) = 0 /\ Len(outbox[r]) = 0
    BY DEF Init
  <2>3. Len(request) = 0
    BY DEF Init
  <2> QED BY <2>1, <2>2, <2>3 DEF Init, Owned, Belongs, Stored
<1>3. StateBounded
  <2>1. Fine(Empty, Entries) /\ Empty \in Maps(Entries) /\ Empty.total = 0 /\ Len(Empty.data) = 0
    BY EmptyFine DEF Fine, Empty
  <2>2. SessionMap.maxBytes \in Nat /\ SessionMap.maxEntries \in Nat /\ OutboxMap.maxBytes \in Nat /\ OutboxMap.maxEntries \in Nat
    BY ConstantFacts DEF Options
  <2>3. WithinBounds(Empty, SessionMap) /\ WithinBounds(Empty, OutboxMap)
    BY <2>1, <2>2, SizedEntries, ConstantFacts, BoundedIsFine
  <2> QED BY <2>3 DEF Init, StateBounded
<1> QED BY <1>1, <1>2, <1>3 DEF Inv

\* What the limiter does to the window of one sender.
LEMMA WindowType ==
  ASSUME Typed, NEW s \in Senders
  PROVE  Recent(s) \in Seq(Int) /\ Append(Recent(s), now) \in Seq(Int)
<1>1. windows[s] \in Seq(Int) /\ now \in Int
  BY DEF Typed
<1>2. Recent(s) \in Seq(Int)
  BY <1>1, AtPlaces DEF Recent
<1> QED BY <1>1, <1>2

LEMMA QuietInv ==
  ASSUME Inv, Tick \/ (\E s \in Senders : Refuse(s) \/ Forbid(s) \/ ReadOutbox(s)) \/ UNCHANGED vars
  PROVE  Inv'
<1>1. CASE Tick
  BY <1>1 DEF Tick, Inv, Typed, Owned, StateBounded
<1>2. ASSUME NEW s \in Senders, Refuse(s) PROVE Inv'
  <2>1. windows' \in [Senders -> Seq(Int)]
    BY <1>2, WindowType DEF Refuse, Inv, Typed
  <2> QED BY <1>2, <2>1 DEF Refuse, Inv, Typed, Owned, StateBounded
<1>3. ASSUME NEW s \in Senders, Forbid(s) PROVE Inv'
  <2>1. windows' \in [Senders -> Seq(Int)]
    BY <1>3, WindowType DEF Forbid, Inv, Typed
  <2> QED BY <1>3, <2>1 DEF Forbid, Inv, Typed, Owned, StateBounded
<1>4. ASSUME NEW s \in Senders, ReadOutbox(s) PROVE Inv'
  <2>1. outboxes \in Maps(Entries) /\ WithinBounds(outboxes, OutboxMap) /\ OutboxMap \in Options
    BY ConstantFacts DEF Inv, Typed, StateBounded
  <2>2. outboxes' \in Maps(Entries) /\ WithinBounds(outboxes', OutboxMap) /\ Held(outboxes') \subseteq Held(outboxes)
    BY <1>4, <2>1, GetStored DEF ReadOutbox
  <2>3. Stored(outboxes', request)
    BY <2>2 DEF Inv, Owned, Stored
  <2> QED BY <1>4, <2>2, <2>3 DEF ReadOutbox, Inv, Typed, Owned, StateBounded, SessionMap, OutboxMap
<1>5. CASE UNCHANGED vars
  BY <1>5 DEF vars, Inv, Typed, Owned, StateBounded
<1> QED BY <1>1, <1>2, <1>3, <1>4, <1>5

LEMMA AcceptInv ==
  ASSUME Inv, NEW s \in Senders, Accept(s)
  PROVE  /\ Inv'
         /\ LET h == request'[Len(request) + 1].history
            IN /\ \A r \in Requests : r # h => history'[r] = history[r]
               /\ history'[h][Len(history'[h])].of = Len(request) + 1
               /\ request'[Len(request) + 1].from = s
               /\ Weight(history'[h]) <= MaxStateBytes
                    => \E e \in Held(sessions') : e.key = s /\ e.value = h
<1> DEFINE r == Len(request) + 1
           h == HistoryFor(s, r)
           said == [role |-> "user", of |-> r, size |-> 1]
           x == [from |-> s, at |-> now, history |-> h, state |-> "asking"]
<1>1. /\ now \in Nat /\ request \in Seq(Handlers) /\ Len(request) \in Nat
      /\ history \in [Requests -> Seq(Messages)] /\ outbox \in [Requests -> Seq(Replies)]
      /\ sessions \in Maps(Entries) /\ outboxes \in Maps(Entries)
      /\ WithinBounds(sessions, SessionMap) /\ WithinBounds(outboxes, OutboxMap)
      /\ SessionMap \in Options
  BY LenProperties, ConstantFacts DEF Inv, Typed, StateBounded
<1>2. s \in Allowed /\ r \in Requests /\ request' = Append(request, x)
      /\ history' = [history EXCEPT ![h] = LastN(Append(@, said), MaxMessages)]
  BY DEF Accept
<1>3. PICK m \in MaybePruned(Get(sessions, s, now)) :
        sessions' = Set(m, s, h, Weight(history'[h]), now, SessionMap)
  BY DEF Accept
<1>4. Owned
  BY DEF Inv
<1>5. /\ Get(sessions, s, now) \in Maps(Entries) /\ WithinBounds(Get(sessions, s, now), SessionMap)
      /\ Held(Get(sessions, s, now)) \subseteq Held(sessions)
      /\ Has(sessions, s, now) => EntryOf(sessions, s) \in Held(sessions) /\ EntryOf(sessions, s).key = s
  BY <1>1, GetStored
<1>6. h \in Requests /\ (Of(h, s, request) \/ h = r)
  <2>1. CASE Has(sessions, s, now)
    <3>1. Of(h, s, request)
      BY <1>4, <1>5, <2>1 DEF Owned, Stored, HistoryFor
    <3>2. Len(request) <= MaxRequests /\ MaxRequests \in Nat
      BY ConstantFacts DEF Inv, Typed
    <3>3. h \in Requests
      <4> HIDE DEF h
      <4> QED BY <1>1, <3>1, <3>2 DEF Of, Requests
    <3> QED BY <3>1, <3>3
  <2>2. CASE ~Has(sessions, s, now)
    BY <1>2, <2>2 DEF HistoryFor
  <2> QED BY <2>1, <2>2
<1> HIDE DEF h
<1>7. x \in Handlers /\ x.from = s /\ x.history = h
  BY <1>1, <1>2, <1>6 DEF Handlers
<1> HIDE DEF x
<1>8. /\ request' \in Seq(Handlers) /\ Len(request') = r /\ request'[r] = x
      /\ \A i \in 1 .. Len(request) : request'[i] = request[i]
      /\ \A i \in 1 .. Len(request') : i \in 1 .. Len(request) \/ i = r
  BY <1>1, <1>2, <1>7
<1>9. Follows(request, request') /\ Of(r, s, request')
  BY <1>1, <1>2, <1>7, FollowsAppend
<1>10. Of(h, s, request')
  BY <1>6, <1>9 DEF Follows
<1>11. EndsWith(Messages, history, history', h, said)
  <2>1. said \in Messages /\ MaxMessages \in Nat \ {0}
    BY <1>2, ConstantFacts DEF Messages
  <2> HIDE DEF said
  <2> QED BY <1>1, <1>2, <1>6, <2>1, EndsWithFacts
<1>12. Weight(history'[h]) \in Nat
  BY <1>6, <1>11, ArraysWeigh DEF EndsWith
<1>13. /\ sessions' \in Maps(Entries) /\ WithinBounds(sessions', SessionMap)
       /\ \A e \in Held(sessions') : e \in Held(sessions) \/ (e.key = s /\ e.value = h)
       /\ Weight(history'[h]) <= SessionMap.maxBytes /\ SessionMap.maxEntries > 0
            => \E e \in Held(sessions') : e.key = s /\ e.value = h
  BY <1>1, <1>2, <1>3, <1>5, <1>6, <1>12, SetStored
<1>14. Typed'
  <2>1. windows' \in [Senders -> Seq(Int)]
    BY WindowType DEF Accept, Inv, Typed
  <2>2. Len(request') <= MaxRequests
    BY <1>2, <1>8, ConstantFacts DEF Requests
  <2> QED BY <1>1, <1>8, <1>11, <1>13, <2>1, <2>2 DEF Accept, Typed, EndsWith
<1>15. Owned'
  <2>1. Belongs(history', request')
    <3>1. h \in 1 .. Len(request') /\ request'[h].from = s /\ said.of = r
      BY <1>10 DEF Of
    <3> HIDE DEF said
    <3> QED BY <1>4, <1>9, <1>11, <3>1, BelongsKept DEF Owned, EndsWith
  <2>2. Belongs(outbox', request')
    BY <1>4, <1>9, BelongsKept DEF Owned, Accept
  <2>3. Stored(sessions', request')
    BY <1>4, <1>9, <1>10, <1>13, StoredKept DEF Owned
  <2>4. Stored(outboxes', request')
    BY <1>4, <1>9, StoredKept DEF Owned, Accept
  <2>5. \A i \in 1 .. Len(request') : Of(request'[i].history, request'[i].from, request')
    <3>1. ASSUME NEW i \in 1 .. Len(request) PROVE Of(request'[i].history, request'[i].from, request')
      BY <1>4, <1>8, <1>9 DEF Owned, Follows
    <3>2. Of(request'[r].history, request'[r].from, request')
      BY <1>7, <1>8, <1>10
    <3> QED BY <1>8, <3>1, <3>2
  <2> QED BY <2>1, <2>2, <2>3, <2>4, <2>5 DEF Owned
<1>16. StateBounded'
  BY <1>1, <1>13 DEF Accept, StateBounded, SessionMap, OutboxMap
<1>17. request'[r].history = h /\ request'[r].from = s
  BY <1>7, <1>8
<1>18. Weight(history'[h]) <= MaxStateBytes => \E e \in Held(sessions') : e.key = s /\ e.value = h
  BY <1>13, ConstantFacts
<1>19. history'[h][Len(history'[h])].of = r /\ \A q \in Requests : q # h => history'[q] = history[q]
  BY <1>11 DEF EndsWith
<1> QED BY <1>14, <1>15, <1>16, <1>17, <1>18, <1>19 DEF Inv

\* What respondTo() does to the outbox, and to nothing else.
LEMMA RespondFacts ==
  ASSUME Inv, NEW r \in 1 .. Len(request), NEW size \in Nat, Respond(r, size)
  PROVE  /\ request' \in Seq(Handlers) /\ Len(request') = Len(request) /\ Follows(request, request')
         /\ \A i \in 1 .. Len(request) : /\ request'[i].from = request[i].from
                                         /\ request'[i].at = request[i].at
                                         /\ request'[i].history = request[i].history
         /\ outbox' \in [Requests -> Seq(Replies)] /\ Belongs(outbox', request')
         /\ outboxes' \in Maps(Entries) /\ WithinBounds(outboxes', OutboxMap) /\ Stored(outboxes', request')
         /\ Of(r, request[r].from, request')
<1> DEFINE s == request[r].from
           b == IF Has(outboxes, s, now) THEN EntryOf(outboxes, s).value ELSE r
           said == [of |-> r, size |-> size]
<1>1. /\ now \in Nat /\ request \in Seq(Handlers) /\ Len(request) \in Nat /\ Len(request) <= MaxRequests
      /\ MaxRequests \in Nat /\ outbox \in [Requests -> Seq(Replies)] /\ outboxes \in Maps(Entries)
      /\ WithinBounds(outboxes, OutboxMap) /\ OutboxMap \in Options
  BY LenProperties, ConstantFacts DEF Inv, Typed, StateBounded
<1>2. /\ request' = [request EXCEPT ![r].state = "answered"]
      /\ outbox' = [outbox EXCEPT ![b] = LastN(Append(@, said), MaxOutbox)]
  BY DEF Respond
<1>3. PICK m \in MaybePruned(Get(outboxes, s, now)) :
        outboxes' = Set(m, s, b, Weight(outbox'[b]), now, OutboxMap)
  BY DEF Respond
<1>4. Owned
  BY DEF Inv
<1>5. /\ Get(outboxes, s, now) \in Maps(Entries) /\ WithinBounds(Get(outboxes, s, now), OutboxMap)
      /\ Held(Get(outboxes, s, now)) \subseteq Held(outboxes)
      /\ Has(outboxes, s, now) => EntryOf(outboxes, s) \in Held(outboxes) /\ EntryOf(outboxes, s).key = s
  BY <1>1, GetStored
<1>6. s \in Allowed /\ Of(r, s, request)
  BY <1>1, HandlerType DEF Of
<1>7. Of(b, s, request)
  BY <1>4, <1>5, <1>6 DEF Owned, Stored
<1> HIDE DEF b
<1>8. b \in Requests /\ r \in Requests
  BY <1>1, <1>7 DEF Of, Requests
<1>9. /\ request' \in Seq(Handlers) /\ Len(request') = Len(request) /\ Follows(request, request')
      /\ \A i \in 1 .. Len(request) : /\ request'[i].from = request[i].from
                                      /\ request'[i].at = request[i].at
                                      /\ request'[i].history = request[i].history
  <2>1. request \in Seq(Handlers) /\ request' = Answered(request, r)
    BY <1>1, <1>2 DEF Answered
  <2> QED BY <2>1, FollowsAnswer
<1>10. Of(b, s, request') /\ Of(r, s, request')
  BY <1>6, <1>7, <1>9 DEF Follows
<1>11. EndsWith(Replies, outbox, outbox', b, said)
  <2>1. said \in Replies /\ MaxOutbox \in Nat \ {0}
    BY <1>8, ConstantFacts DEF Replies
  <2> HIDE DEF said
  <2> QED BY <1>1, <1>2, <1>8, <2>1, EndsWithFacts
<1>12. Belongs(outbox', request')
  <2>1. b \in 1 .. Len(request') /\ request'[b].from = s /\ said.of = r
    BY <1>10 DEF Of
  <2> HIDE DEF said, s
  <2> QED BY <1>4, <1>9, <1>10, <1>11, <2>1, BelongsKept DEF Owned, EndsWith
<1>13. Weight(outbox'[b]) \in Nat
  BY <1>8, <1>11, ArraysWeigh DEF EndsWith
<1>14. /\ outboxes' \in Maps(Entries) /\ WithinBounds(outboxes', OutboxMap)
       /\ \A e \in Held(outboxes') : e \in Held(outboxes) \/ (e.key = s /\ e.value = b)
  <2> HIDE DEF s
  <2>1. LET n == Set(m, s, b, Weight(outbox'[b]), now, OutboxMap)
        IN /\ n \in Maps(Entries) /\ WithinBounds(n, OutboxMap)
           /\ \A e \in Held(n) : e \in Held(Get(outboxes, s, now)) \/ (e.key = s /\ e.value = b)
    BY <1>1, <1>3, <1>5, <1>6, <1>8, <1>13, SetStored
  <2> QED BY <1>3, <1>5, <2>1
<1>15. Stored(outboxes', request')
  BY <1>4, <1>9, <1>10, <1>14, StoredKept DEF Owned
<1> QED BY <1>9, <1>10, <1>11, <1>12, <1>14, <1>15 DEF EndsWith

LEMMA FailInv ==
  ASSUME Inv, NEW r \in 1 .. Len(request), Fail(r)
  PROVE  Inv'
<1>1. Respond(r, 1)
  BY DEF Fail
<1>2. /\ request' \in Seq(Handlers) /\ Len(request') = Len(request) /\ Follows(request, request')
      /\ \A i \in 1 .. Len(request) : /\ request'[i].from = request[i].from
                                      /\ request'[i].history = request[i].history
      /\ outbox' \in [Requests -> Seq(Replies)] /\ Belongs(outbox', request')
      /\ outboxes' \in Maps(Entries) /\ WithinBounds(outboxes', OutboxMap) /\ Stored(outboxes', request')
  BY <1>1, RespondFacts
<1>3. Typed'
  BY <1>2 DEF Fail, Inv, Typed
<1>4. Owned'
  <2>1. Belongs(history', request')
    BY <1>2, BelongsKept DEF Fail, Inv, Owned
  <2>2. Stored(sessions', request')
    BY <1>2, StoredKept DEF Fail, Inv, Owned
  <2>3. \A i \in 1 .. Len(request') : Of(request'[i].history, request'[i].from, request')
    BY <1>2 DEF Inv, Owned, Follows
  <2> QED BY <1>2, <2>1, <2>2, <2>3 DEF Owned
<1>5. StateBounded'
  BY <1>2 DEF Fail, Inv, StateBounded, SessionMap, OutboxMap
<1> QED BY <1>3, <1>4, <1>5 DEF Inv

LEMMA ReplyInv ==
  ASSUME Inv, NEW r \in 1 .. Len(request), NEW size \in ReplySizes, Reply(r, size)
  PROVE  /\ Inv'
         /\ LET h == request'[r].history
            IN /\ \A q \in Requests : q # h => history'[q] = history[q]
               /\ history'[h][Len(history'[h])].of = r
               /\ Weight(history'[h]) <= MaxStateBytes
                    => \E e \in Held(sessions') : e.key = request'[r].from /\ e.value = h
<1> DEFINE s == request[r].from
           h == request[r].history
           said == [role |-> "assistant", of |-> r, size |-> size]
<1>1. /\ now \in Nat /\ request \in Seq(Handlers) /\ Len(request) \in Nat /\ Len(request) <= MaxRequests
      /\ MaxRequests \in Nat /\ history \in [Requests -> Seq(Messages)] /\ sessions \in Maps(Entries)
      /\ WithinBounds(sessions, SessionMap) /\ SessionMap \in Options /\ size \in Nat
  BY LenProperties, ConstantFacts DEF Inv, Typed, StateBounded
<1>2. Respond(r, size) /\ history' = [history EXCEPT ![h] = Append(@, said)]
  BY DEF Reply
<1>3. PICK m \in MaybePruned(sessions) : sessions' = Set(m, s, h, Weight(history'[h]), now, SessionMap)
  BY DEF Reply, SessionOf
<1>4. Owned
  BY DEF Inv
<1>5. /\ request' \in Seq(Handlers) /\ Len(request') = Len(request) /\ Follows(request, request')
      /\ \A i \in 1 .. Len(request) : /\ request'[i].from = request[i].from
                                      /\ request'[i].history = request[i].history
      /\ outbox' \in [Requests -> Seq(Replies)] /\ Belongs(outbox', request')
      /\ outboxes' \in Maps(Entries) /\ WithinBounds(outboxes', OutboxMap) /\ Stored(outboxes', request')
      /\ Of(r, request[r].from, request')
  BY <1>1, <1>2, RespondFacts
<1>6. s \in Allowed /\ Of(h, s, request) /\ h \in Requests
  BY <1>1, <1>4, HandlerType DEF Owned
<1>7. r \in Requests /\ Of(h, s, request')
  <2>1. r \in Requests
    BY <1>1 DEF Requests
  <2> HIDE DEF s, h
  <2> QED BY <1>5, <1>6, <2>1 DEF Follows
<1>8. EndsWith(Messages, history, history', h, said)
  <2>1. said \in Messages
    BY <1>1, <1>7 DEF Messages
  <2> HIDE DEF said, h
  <2> QED BY <1>1, <1>2, <1>6, <2>1, EndsWithFacts
<1>9. Weight(history'[h]) \in Nat
  BY <1>6, <1>8, ArraysWeigh DEF EndsWith
<1>10. /\ sessions' \in Maps(Entries) /\ WithinBounds(sessions', SessionMap)
       /\ \A e \in Held(sessions') : e \in Held(sessions) \/ (e.key = s /\ e.value = h)
       /\ Weight(history'[h]) <= SessionMap.maxBytes /\ SessionMap.maxEntries > 0
            => \E e \in Held(sessions') : e.key = s /\ e.value = h
  <2> HIDE DEF s, h
  <2> QED BY <1>1, <1>3, <1>6, <1>7, <1>9, SetStored, SMTT(60)
<1>11. Typed'
  BY <1>5, <1>8, <1>10 DEF Reply, Inv, Typed, EndsWith
<1>12. Owned'
  <2>1. Belongs(history', request')
    <3>1. h \in 1 .. Len(request') /\ request'[h].from = s /\ said.of = r
      BY <1>7 DEF Of
    <3> HIDE DEF said, h
    <3> QED BY <1>4, <1>5, <1>8, <3>1, BelongsKept DEF Owned, EndsWith
  <2>2. Stored(sessions', request')
    BY <1>4, <1>5, <1>7, <1>10, StoredKept DEF Owned
  <2>3. \A i \in 1 .. Len(request') : Of(request'[i].history, request'[i].from, request')
    BY <1>4, <1>5 DEF Owned, Follows
  <2> QED BY <1>5, <2>1, <2>2, <2>3 DEF Owned
<1>13. StateBounded'
  BY <1>5, <1>10 DEF StateBounded, SessionMap, OutboxMap
<1>14. request'[r].history = h /\ request'[r].from = s
  BY <1>5
<1>15. Weight(history'[h]) <= MaxStateBytes => \E e \in Held(sessions') : e.key = s /\ e.value = h
  BY <1>10, ConstantFacts
<1>16. history'[h][Len(history'[h])].of = r /\ \A q \in Requests : q # h => history'[q] = history[q]
  BY <1>8 DEF EndsWith
<1> QED BY <1>11, <1>12, <1>13, <1>14, <1>15, <1>16 DEF Inv

-----------------------------------------------------------------------------
(* The theorems. *)

LEMMA StepInv == Inv /\ [Next]_vars => Inv'
<1> SUFFICES ASSUME Inv, [Next]_vars PROVE Inv'
  OBVIOUS
<1>1. DOMAIN request = 1 .. Len(request)
  BY LenProperties DEF Inv, Typed
<1>2. CASE Tick \/ UNCHANGED vars
  BY <1>2, QuietInv
<1>3. ASSUME NEW s \in Senders, Refuse(s) \/ Forbid(s) \/ Accept(s) \/ ReadOutbox(s) PROVE Inv'
  BY <1>3, QuietInv, AcceptInv
<1>4. ASSUME NEW r \in DOMAIN request, Fail(r) \/ \E size \in ReplySizes : Reply(r, size) PROVE Inv'
  BY <1>1, <1>4, FailInv, ReplyInv
<1> QED BY <1>2, <1>3, <1>4 DEF Next

LEMMA AlwaysInv == Spec => []Inv
BY InitInv, StepInv, PTL DEF Spec

\* Sessions and outboxes stay within their limits and the byte totals stay exact: BoundedMap.ts
\* as CoworkGateway and GatewayServer use it.
THEOREM BoundsHold == Spec => []StateBounded
<1>1. Inv => StateBounded
  BY ZenonT(60) DEF Inv
<1> QED BY <1>1, AlwaysInv, PTL

\* A sender's history and outbox only ever hold what was said by and to that sender.
THEOREM StateIsPrivate == Spec => []PrivateState
<1>1. Inv => PrivateState
  <2> SUFFICES ASSUME Inv PROVE PrivateState
    OBVIOUS
  <2>1. /\ DOMAIN sessions.data = 1 .. Len(sessions.data)
        /\ DOMAIN outboxes.data = 1 .. Len(outboxes.data)
    BY LenProperties DEF Inv, Typed, Maps
  <2>2. Len(request) <= MaxRequests /\ MaxRequests \in Nat /\ Len(request) \in Nat
    BY LenProperties, ConstantFacts DEF Inv, Typed
  <2>3. ASSUME NEW e, e \in Held(sessions) \/ e \in Held(outboxes)
        PROVE  e.value \in Requests /\ e.value \in 1 .. Len(request) /\ request[e.value].from = e.key
    <3>1. Of(e.value, e.key, request)
      BY <2>3 DEF Inv, Owned, Stored
    <3>2. \A v : v \in 1 .. Len(request) => v \in Requests
      BY <2>2 DEF Requests
    <3> QED BY <3>1, <3>2 DEF Of
  <2>4. ASSUME NEW r \in Requests
        PROVE  /\ DOMAIN history[r] = 1 .. Len(history[r]) /\ DOMAIN outbox[r] = 1 .. Len(outbox[r])
               /\ \A j \in 1 .. Len(history[r]) : request[history[r][j].of].from = request[r].from
               /\ \A j \in 1 .. Len(outbox[r]) : request[outbox[r][j].of].from = request[r].from
    <3>1. history[r] \in Seq(Messages) /\ outbox[r] \in Seq(Replies)
      BY DEF Inv, Typed
    <3> QED BY <3>1, LenProperties DEF Inv, Owned, Belongs, Of
  <2>5. ASSUME NEW i \in DOMAIN sessions.data, NEW j \in DOMAIN history[sessions.data[i].value]
        PROVE  request[history[sessions.data[i].value][j].of].from = sessions.data[i].key
    <3>1. sessions.data[i] \in Held(sessions)
      BY <2>1 DEF Held
    <3> QED BY <2>3, <2>4, <3>1, ZenonT(60)
  <2>6. ASSUME NEW i \in DOMAIN outboxes.data, NEW j \in DOMAIN outbox[outboxes.data[i].value]
        PROVE  request[outbox[outboxes.data[i].value][j].of].from = outboxes.data[i].key
    <3>1. outboxes.data[i] \in Held(outboxes)
      BY <2>1 DEF Held
    <3> QED BY <2>3, <2>4, <3>1, ZenonT(60)
  <2> QED BY <2>5, <2>6 DEF PrivateState
<1> QED BY <1>1, AlwaysInv, PTL

\* Making room never throws out the session that a message or a reply has just changed.
THEOREM WrittenStays == Spec => WrittenIsKept
<1> DEFINE A == \A r \in DOMAIN request' :
       LET h == request'[r].history
       IN (Len(history'[h]) > 0 /\ history'[h] # history[h] /\ Weight(history'[h]) <= MaxStateBytes
           /\ history'[h][Len(history'[h])].of = r)
          => \E i \in DOMAIN sessions'.data :
               sessions'.data[i].key = request'[r].from /\ sessions'.data[i].value = h
<1>1. Inv /\ Inv' /\ [Next]_vars => [A]_vars
  <2> SUFFICES ASSUME Inv, Inv', Next PROVE A
    OBVIOUS
  <2>1. DOMAIN request = 1 .. Len(request) /\ DOMAIN request' = 1 .. Len(request')
        /\ DOMAIN sessions'.data = 1 .. Len(sessions'.data)
    BY LenProperties DEF Inv, Typed, Maps
  <2>2. CASE history' = history
    BY <2>2
  <2>3. ASSUME NEW r0, NEW h0,
               \A q \in Requests : q # h0 => history'[q] = history[q],
               history'[h0][Len(history'[h0])].of = r0, request'[r0].history = h0,
               Weight(history'[h0]) <= MaxStateBytes
                 => \E e \in Held(sessions') : e.key = request'[r0].from /\ e.value = h0
        PROVE  A
    <3> SUFFICES ASSUME NEW r \in DOMAIN request', NEW h, h = request'[r].history,
                        history'[h] # history[h], Weight(history'[h]) <= MaxStateBytes,
                        history'[h][Len(history'[h])].of = r
                 PROVE  \E i \in DOMAIN sessions'.data :
                          sessions'.data[i].key = request'[r].from /\ sessions'.data[i].value = h
      OBVIOUS
    <3>1. h \in Requests
      BY <2>1, HandlerType DEF Inv, Typed
    <3>2. h = h0 /\ r = r0
      BY <2>3, <3>1
    <3>3. PICK e \in Held(sessions') : e.key = request'[r].from /\ e.value = h
      BY <2>3, <3>2
    <3> QED BY <2>1, <3>3 DEF Held
  <2>4. ASSUME NEW s \in Senders, Accept(s) PROVE A
    <3> DEFINE r0 == Len(request) + 1
    <3>1. /\ \A q \in Requests : q # request'[r0].history => history'[q] = history[q]
          /\ history'[request'[r0].history][Len(history'[request'[r0].history])].of = r0
          /\ Weight(history'[request'[r0].history]) <= MaxStateBytes
               => \E e \in Held(sessions') : e.key = request'[r0].from /\ e.value = request'[r0].history
      BY <2>4, AcceptInv
    <3> HIDE DEF A, r0
    <3> QED BY <2>3, <3>1
  <2>5. ASSUME NEW r0 \in DOMAIN request, NEW size \in ReplySizes, Reply(r0, size) PROVE A
    <3>1. /\ \A q \in Requests : q # request'[r0].history => history'[q] = history[q]
          /\ history'[request'[r0].history][Len(history'[request'[r0].history])].of = r0
          /\ Weight(history'[request'[r0].history]) <= MaxStateBytes
               => \E e \in Held(sessions') : e.key = request'[r0].from /\ e.value = request'[r0].history
      BY <2>1, <2>5, ReplyInv
    <3> HIDE DEF A
    <3> QED BY <2>3, <3>1
  <2>6. ASSUME NEW r \in DOMAIN request, Fail(r) PROVE A
    <3>1. history' = history
      BY <2>6 DEF Fail
    <3> HIDE DEF A
    <3> QED BY <2>2, <3>1
  <2>7. ASSUME NEW s \in Senders, Refuse(s) \/ Forbid(s) \/ ReadOutbox(s) PROVE A
    <3>1. history' = history
      BY <2>7 DEF Refuse, Forbid, ReadOutbox
    <3> HIDE DEF A
    <3> QED BY <2>2, <3>1
  <2>8. CASE Tick
    <3>1. history' = history
      BY <2>8 DEF Tick
    <3> HIDE DEF A
    <3> QED BY <2>2, <3>1
  <2> HIDE DEF A
  <2> QED BY <2>4, <2>5, <2>6, <2>7, <2>8 DEF Next
<1> QED BY <1>1, AlwaysInv, PTL DEF Spec, WrittenIsKept

-----------------------------------------------------------------------------
(* The rate.  The window of a sender forgets only what is no longer in it, so it counts   *)
(* at least the accepted requests of the last Window, and it never counts too many.       *)

RateInv == Inv /\ Counted /\ RateKept

\* the accepted requests of s in the window that ends at t
Within(s, t) == {r \in DOMAIN request : request[r].from = s /\ request[r].at \in t - Window + 1 .. t}

LEMMA NewerFacts ==
  ASSUME NEW t \in Int
  PROVE  /\ Newer(t) \in [Int -> Int] /\ \A x \in Int : Newer(t)[x] = IF x >= t THEN 1 ELSE 0
         /\ \A s \in Seq(Int) : Weigh(s, Newer(t)) \in Nat /\ Weigh(s, Newer(t)) <= Len(s)
<1>1. Newer(t) \in [Int -> Int] /\ \A x \in Int : Newer(t)[x] = IF x >= t THEN 1 ELSE 0
  BY DEF Newer
<1>2. ASSUME NEW s \in Seq(Int) PROVE Weigh(s, Newer(t)) \in Nat /\ Weigh(s, Newer(t)) <= Len(s)
  <2>0. ASSUME NEW x \in Int PROVE Newer(t)[x] >= 0
    <3>1. Newer(t)[x] = IF x >= t THEN 1 ELSE 0
      BY <1>1
    <3> QED BY <3>1
  <2>1. Weigh(s, Newer(t)) \in Nat
    BY <1>1, <2>0, WeighPart, Zenon
  <2>2. Ones(Int) \in [Int -> Int] /\ Weigh(s, Ones(Int)) = Len(s)
    BY WeighOnes, Zenon
  <2> DEFINE a == Weights(s, Newer(t))
             b == Weights(s, Ones(Int))
  <2>3. /\ a \in Seq(Int) /\ Len(a) = Len(s) /\ \A i \in 1 .. Len(s) : a[i] = Newer(t)[s[i]]
        /\ b \in Seq(Int) /\ Len(b) = Len(s) /\ \A i \in 1 .. Len(s) : b[i] = Ones(Int)[s[i]]
    <3> DEFINE V == Int
               n == Newer(t)
               o == Ones(Int)
    <3>1. s \in Seq(V) /\ n \in [V -> Int] /\ o \in [V -> Int]
      BY <1>1, <2>2
    <3> HIDE DEF V, n, o
    <3>2. /\ Weights(s, n) \in Seq(Int) /\ Len(Weights(s, n)) = Len(s)
          /\ \A i \in 1 .. Len(s) : Weights(s, n)[i] = n[s[i]]
      BY <3>1, WeightsType, ZenonT(60)
    <3>3. /\ Weights(s, o) \in Seq(Int) /\ Len(Weights(s, o)) = Len(s)
          /\ \A i \in 1 .. Len(s) : Weights(s, o)[i] = o[s[i]]
      BY <3>1, WeightsType, ZenonT(60)
    <3> QED BY <3>2, <3>3 DEF n, o
  <2>4. \A i \in 1 .. Len(s) : s[i] \in Int
    BY LenProperties
  <2> HIDE DEF a, b
  <2>5. ASSUME NEW i \in 1 .. Len(a) PROVE a[i] <= b[i]
    <3> DEFINE x == s[i]
    <3>1. x \in Int /\ a[i] = Newer(t)[x] /\ b[i] = Ones(Int)[x]
      BY <2>3, <2>4
    <3> HIDE DEF x
    <3>2. Ones(Int)[x] = 1 /\ Newer(t)[x] = IF x >= t THEN 1 ELSE 0
      BY <1>1, <3>1 DEF Ones
    <3> QED BY <3>1, <3>2
  <2>6. SumOf(a) <= SumOf(b)
    <3>1. \A i \in 1 .. Len(a) : a[i] <= b[i]
      BY <2>5
    <3>2. Len(a) = Len(b)
      BY <2>3
    <3> QED BY <2>3, <3>1, <3>2, SumMonotone, Zenon
  <2> QED BY <2>1, <2>2, <2>6 DEF Weigh, a, b
<1> QED BY <1>1, <1>2

\* The filter of the limiter forgets nothing that is still in the window.
LEMMA RecentKeeps ==
  ASSUME Typed, NEW s \in Senders, NEW t \in Int, t > now - Window
  PROVE  Weigh(Recent(s), Newer(t)) = Weigh(windows[s], Newer(t))
<1> DEFINE P == {i \in DOMAIN windows[s] : windows[s][i] > now - Window}
<1>1. windows[s] \in Seq(Int) /\ now \in Int /\ Window \in Int
  BY ConstantFacts DEF Typed
<1>2. DOMAIN windows[s] = 1 .. Len(windows[s]) /\ \A i \in 1 .. Len(windows[s]) : windows[s][i] \in Int
  BY <1>1, LenProperties
<1>3. ASSUME NEW i \in 1 .. Len(windows[s]), i \notin P PROVE Newer(t)[windows[s][i]] = 0
  <2> DEFINE x == windows[s][i]
  <2>1. x \in Int /\ ~(x > now - Window)
    BY <1>2, <1>3
  <2> HIDE DEF x
  <2>2. ~(x >= t)
    BY <1>1, <2>1
  <2>3. Newer(t)[x] = 0
    BY <2>1, <2>2, NewerFacts
  <2> QED BY <2>3 DEF x
<1>4. Newer(t) \in [Int -> Int]
  BY NewerFacts
<1> HIDE DEF P
<1>5. Weigh(At(windows[s], P), Newer(t)) = Weigh(windows[s], Newer(t))
  <2>1. \A i \in 1 .. Len(windows[s]) : i \notin P => Newer(t)[windows[s][i]] = 0
    BY <1>3
  <2> DEFINE V == Int
             z == windows[s]
             n == Newer(t)
  <2>2. z \in Seq(V) /\ n \in [V -> Int] /\ \A i \in 1 .. Len(z) : i \notin P => n[z[i]] = 0
    BY <1>1, <1>4, <2>1
  <2> HIDE DEF V, z, n
  <2>3. Weigh(At(z, P), n) = Weigh(z, n)
    BY <2>2, WeighSame
  <2> QED BY <2>3 DEF z, n
<1> QED BY <1>5 DEF Recent, P

LEMMA FiniteRequests ==
  ASSUME NEW n \in Nat, NEW S, S \subseteq 1 .. n
  PROVE  /\ IsFiniteSet(S) /\ Cardinality(S) \in Nat
         /\ \A T : T \subseteq S => Cardinality(T) <= Cardinality(S)
         /\ \A T, x : T \subseteq S \cup {x} => Cardinality(T) <= Cardinality(S) + 1
<1>1. IsFiniteSet(1 .. n)
  BY FS_Interval
<1>2. IsFiniteSet(S) /\ Cardinality(S) \in Nat
  BY <1>1, FS_Subset, FS_CardinalityType
<1>3. ASSUME NEW T, T \subseteq S PROVE Cardinality(T) <= Cardinality(S)
  BY <1>2, <1>3, FS_Subset
<1>4. ASSUME NEW T, NEW x, T \subseteq S \cup {x} PROVE Cardinality(T) <= Cardinality(S) + 1
  <2>1. /\ IsFiniteSet(S \cup {x})
        /\ Cardinality(S \cup {x}) = (IF x \in S THEN Cardinality(S) ELSE Cardinality(S) + 1)
    BY <1>2, FS_AddElement
  <2>2. Cardinality(T) <= Cardinality(S \cup {x}) /\ Cardinality(T) \in Nat
    BY <1>4, <2>1, FS_Subset, FS_CardinalityType
  <2>3. Cardinality(S \cup {x}) <= Cardinality(S) + 1 /\ Cardinality(S \cup {x}) \in Nat
    BY <1>2, <2>1
  <2> QED BY <1>2, <2>2, <2>3
<1> QED BY <1>2, <1>3, <1>4

LEMMA SinceFacts ==
  ASSUME Typed, NEW s, NEW t
  PROVE  /\ Len(request) \in Nat /\ DOMAIN request = 1 .. Len(request)
         /\ Since(s, t) \subseteq 1 .. Len(request) /\ Cardinality(Since(s, t)) \in Nat
         /\ \A i \in 1 .. Len(request) : request[i].at \in Nat
<1>1. request \in Seq(Handlers) /\ Len(request) \in Nat /\ DOMAIN request = 1 .. Len(request)
  BY LenProperties DEF Typed
<1>2. Since(s, t) \subseteq 1 .. Len(request)
  BY DEF Since
<1> QED BY <1>1, <1>2, FiniteRequests, HandlerType

\* A step that accepts nothing.
LEMMA RateUnchanged ==
  ASSUME RateInv, Typed', Len(request') = Len(request),
         \A i \in 1 .. Len(request) : request'[i].from = request[i].from /\ request'[i].at = request[i].at,
         now' >= now,
         \A s \in Senders, t \in Int : t > now' - Window
           => Weigh(windows[s], Newer(t)) <= Weigh(windows'[s], Newer(t))
  PROVE  Counted' /\ RateKept'
<1>1. DOMAIN request = 1 .. Len(request) /\ DOMAIN request' = 1 .. Len(request')
  BY SinceFacts, LenProperties DEF RateInv, Inv, Typed
<1>2. \A s, t : Since(s, t)' = Since(s, t) /\ Within(s, t)' = Within(s, t)
  BY <1>1 DEF Since, Within
<1>3. Counted'
  <2> SUFFICES ASSUME NEW s \in Senders, NEW t \in Int, t > now' - Window
               PROVE  Cardinality(Since(s, t)') <= Weigh(windows'[s], Newer(t))
    BY DEF Counted
  <2>1. now \in Int /\ now' \in Int /\ Window \in Int /\ windows[s] \in Seq(Int) /\ windows'[s] \in Seq(Int)
    BY ConstantFacts DEF RateInv, Inv, Typed
  <2>2. Cardinality(Since(s, t)) <= Weigh(windows[s], Newer(t))
    <3>1. \A a, b, c, d \in Int : a > b - d /\ b >= c => a > c - d
      OBVIOUS
    <3>2. t > now - Window
      BY <2>1, <3>1, Zenon
    <3> QED BY <3>2 DEF RateInv, Counted
  <2>3. /\ Cardinality(Since(s, t)) \in Nat
        /\ Weigh(windows[s], Newer(t)) \in Nat /\ Weigh(windows'[s], Newer(t)) \in Nat
    BY <2>1, SinceFacts, NewerFacts DEF RateInv, Inv
  <2> QED BY <1>2, <2>2, <2>3
<1>4. RateKept'
  <2>1. \A s \in Senders, t \in 0 .. MaxTime : Cardinality(Within(s, t)) <= MaxPerWindow
    BY DEF RateInv, RateKept, Within
  <2>2. \A s \in Senders, t \in 0 .. MaxTime : Cardinality(Within(s, t)') <= MaxPerWindow
    BY <1>2, <2>1
  <2> QED BY <2>2 DEF RateKept, Within
<1> QED BY <1>3, <1>4

LEMMA AppendNewer ==
  ASSUME Typed, NEW s \in Senders, NEW t \in Int
  PROVE  /\ Weigh(Append(Recent(s), now), Newer(t))
              = Weigh(Recent(s), Newer(t)) + (IF now >= t THEN 1 ELSE 0)
         /\ Len(Append(Recent(s), now)) = Len(Recent(s)) + 1 /\ Len(Recent(s)) \in Nat
<1> DEFINE V == Int
           z == Recent(s)
           n == Newer(t)
<1>1. now \in Int /\ z \in Seq(Int)
  BY WindowType DEF Typed
<1>2. n \in [V -> Int] /\ z \in Seq(V) /\ now \in V /\ n[now] = IF now >= t THEN 1 ELSE 0
  BY <1>1, NewerFacts
<1> HIDE DEF V, z, n
<1>3. Weigh(Append(z, now), n) = Weigh(z, n) + n[now]
  BY <1>2, WeighAppend
<1>4. Len(Append(z, now)) = Len(z) + 1 /\ Len(z) \in Nat
  BY <1>1
<1> QED BY <1>2, <1>3, <1>4 DEF z, n

\* The window of each sender counts at least what it counted.
LEMMA WindowGrows ==
  ASSUME Typed, NEW s0 \in Senders,
         \/ windows' = windows
         \/ windows' = [windows EXCEPT ![s0] = Recent(s0)]
         \/ windows' = [windows EXCEPT ![s0] = Append(Recent(s0), now)],
         NEW s \in Senders, NEW t \in Int, t > now - Window
  PROVE  Weigh(windows[s], Newer(t)) <= Weigh(windows'[s], Newer(t))
<1>1. windows \in [Senders -> Seq(Int)] /\ windows[s] \in Seq(Int)
  BY DEF Typed
<1>2. Weigh(windows[s], Newer(t)) \in Nat
  BY <1>1, NewerFacts
<1>3. CASE windows'[s] = windows[s]
  BY <1>2, <1>3
<1>4. CASE windows'[s] = Recent(s)
  <2>1. Weigh(Recent(s), Newer(t)) = Weigh(windows[s], Newer(t))
    BY RecentKeeps
  <2> QED BY <1>2, <1>4, <2>1
<1>5. CASE windows'[s] = Append(Recent(s), now)
  <2>1. Weigh(Recent(s), Newer(t)) = Weigh(windows[s], Newer(t))
    BY RecentKeeps
  <2>2. Weigh(Append(Recent(s), now), Newer(t)) = Weigh(Recent(s), Newer(t)) + (IF now >= t THEN 1 ELSE 0)
    BY AppendNewer
  <2> QED BY <1>2, <1>5, <2>1, <2>2
<1>6. windows'[s] = windows[s] \/ windows'[s] = Recent(s) \/ windows'[s] = Append(Recent(s), now)
  BY <1>1
<1> QED BY <1>3, <1>4, <1>5, <1>6

LEMMA AcceptRate ==
  ASSUME RateInv, Inv', NEW s0 \in Senders, Accept(s0)
  PROVE  Counted' /\ RateKept'
<1> DEFINE n == Len(request)
           r == n + 1
<1>1. /\ Typed /\ Typed' /\ Counted /\ RateKept /\ request \in Seq(Handlers) /\ n \in Nat
      /\ now \in Nat /\ now' = now /\ Window \in Nat \ {0} /\ MaxPerWindow \in Nat /\ MaxTime \in Nat
      /\ DOMAIN request = 1 .. n
  BY ConstantFacts, LenProperties DEF RateInv, Inv, Typed, Accept
<1>2. PICK x : request' = Append(request, x) /\ x.from = s0 /\ x.at = now
  BY DEF Accept
<1>3. /\ Len(request') = r /\ DOMAIN request' = 1 .. r /\ request'[r] = x
      /\ \A i \in 1 .. n : request'[i] = request[i]
      /\ \A i \in 1 .. r : i \in 1 .. n \/ i = r
  <2>1. request' \in Seq(Handlers)
    BY <1>1 DEF Typed
  <2>2. DOMAIN request' = 1 .. Len(request')
    BY <2>1, LenProperties
  <2> QED BY <1>1, <1>2, <2>2
<1>4. /\ Admits(s0) /\ windows' = [windows EXCEPT ![s0] = Append(Recent(s0), now)]
      /\ windows \in [Senders -> Seq(Int)]
  BY <1>1 DEF Accept, Typed
<1> HIDE DEF n
<1>5. ASSUME NEW s \in Senders, NEW t \in Int, t > now - Window
      PROVE  Cardinality(Since(s, t)') <= Weigh(windows'[s], Newer(t))
  <2>1. /\ Since(s, t) \subseteq 1 .. n /\ Cardinality(Since(s, t)) \in Nat
        /\ Cardinality(Since(s, t)) <= Weigh(windows[s], Newer(t))
    BY <1>1, <1>5, SinceFacts DEF Counted, n
  <2>2. windows[s] \in Seq(Int) /\ Weigh(windows[s], Newer(t)) \in Nat
    BY <1>4, NewerFacts
  <2>3. Since(s, t)' \subseteq 1 .. r /\ r \in Nat /\ Cardinality(Since(s, t)') \in Nat
    <3>1. Since(s, t)' \subseteq 1 .. r
      BY <1>3 DEF Since
    <3> QED BY <1>1, <3>1, FiniteRequests
  <2>4. \A i \in Since(s, t)' : i \in Since(s, t) \/ (i = r /\ s = s0 /\ now >= t)
    BY <1>2, <1>3 DEF Since, n
  <2>5. CASE s = s0 /\ now >= t
    <3>1. Weigh(windows'[s], Newer(t)) = Weigh(windows[s], Newer(t)) + 1
      <4>1. windows'[s] = Append(Recent(s), now)
        BY <1>4, <2>5
      <4>2. Weigh(Recent(s), Newer(t)) = Weigh(windows[s], Newer(t))
        BY <1>1, <1>5, RecentKeeps
      <4>3. Weigh(Append(Recent(s), now), Newer(t))
              = Weigh(Recent(s), Newer(t)) + (IF now >= t THEN 1 ELSE 0)
        BY <1>1, AppendNewer
      <4> QED BY <2>5, <4>1, <4>2, <4>3
    <3>2. Since(s, t)' \subseteq Since(s, t) \cup {r}
      BY <2>4
    <3>3. Cardinality(Since(s, t)') <= Cardinality(Since(s, t)) + 1
      BY <1>1, <2>1, <3>2, FiniteRequests
    <3> QED BY <2>1, <2>2, <2>3, <3>1, <3>3
  <2>6. CASE ~(s = s0 /\ now >= t)
    <3>1. Since(s, t)' \subseteq Since(s, t)
      BY <2>4, <2>6
    <3>2. Cardinality(Since(s, t)') <= Cardinality(Since(s, t))
      BY <1>1, <2>1, <3>1, FiniteRequests
    <3>3. Weigh(windows[s], Newer(t)) <= Weigh(windows'[s], Newer(t))
      BY <1>1, <1>4, <1>5, WindowGrows
    <3>4. windows'[s] \in Seq(Int) /\ Weigh(windows'[s], Newer(t)) \in Nat
      BY <1>1, NewerFacts DEF Typed
    <3> QED BY <2>1, <2>2, <2>3, <3>2, <3>3, <3>4
  <2> QED BY <2>5, <2>6
<1>6. ASSUME NEW s \in Senders, NEW t \in 0 .. MaxTime
      PROVE  Cardinality(Within(s, t)') <= MaxPerWindow
  <2>0. t \in Int /\ \A i \in 1 .. n : request[i].at \in Nat
    BY <1>1, SinceFacts DEF n
  <2>1. Within(s, t) \subseteq 1 .. n /\ Cardinality(Within(s, t)) \in Nat /\ Cardinality(Within(s, t)) <= MaxPerWindow
    <3>1. Within(s, t) \subseteq 1 .. n
      BY <1>1 DEF Within
    <3> QED BY <1>1, <3>1, FiniteRequests DEF RateKept, Within
  <2>2. Within(s, t)' \subseteq 1 .. r /\ r \in Nat /\ Cardinality(Within(s, t)') \in Nat
    <3>1. Within(s, t)' \subseteq 1 .. r
      BY <1>3 DEF Within
    <3> QED BY <1>1, <3>1, FiniteRequests
  <2>3. CASE s # s0 \/ t < now
    <3>1. Within(s, t)' \subseteq Within(s, t)
      BY <1>1, <1>2, <1>3, <2>0, <2>3 DEF Within
    <3>2. Cardinality(Within(s, t)') <= Cardinality(Within(s, t))
      BY <1>1, <2>1, <3>1, FiniteRequests
    <3> QED BY <1>1, <2>1, <2>2, <3>2
  <2>4. CASE s = s0 /\ ~(t < now)
    <3> DEFINE t0 == t - Window + 1
    <3>1. t0 \in Int /\ t0 > now - Window
      BY <1>1, <2>0, <2>4
    <3>2. Within(s, t)' \subseteq Since(s, t0)'
      <4>1. \A i \in 1 .. r : request'[i].at \in t - Window + 1 .. t => request'[i].at >= t0
        BY <1>1, <2>0
      <4> HIDE DEF t0
      <4> QED BY <1>3, <4>1 DEF Within, Since
    <3>3. Cardinality(Within(s, t)') <= Cardinality(Since(s, t0)') /\ Cardinality(Since(s, t0)') \in Nat
      <4> HIDE DEF t0
      <4>1. Since(s, t0)' \subseteq 1 .. r
        BY <1>3 DEF Since
      <4> QED BY <2>2, <3>2, <4>1, FiniteRequests
    <3>4. Cardinality(Since(s, t0)') <= Weigh(windows'[s], Newer(t0))
      <4> HIDE DEF t0
      <4> QED BY <1>5, <3>1
    <3>5. windows'[s] = Append(Recent(s), now) /\ windows'[s] \in Seq(Int)
      BY <1>1, <1>4, <2>4 DEF Typed
    <3>6. Weigh(windows'[s], Newer(t0)) \in Nat /\ Weigh(windows'[s], Newer(t0)) <= Len(windows'[s])
      <4> HIDE DEF t0
      <4> QED BY <3>1, <3>5, NewerFacts
    <3>7. Len(windows'[s]) = Len(Recent(s)) + 1 /\ Len(Recent(s)) \in Nat /\ Len(Recent(s)) < MaxPerWindow
      <4>1. Len(Append(Recent(s), now)) = Len(Recent(s)) + 1 /\ Len(Recent(s)) \in Nat
        BY <1>1, <3>1, AppendNewer
      <4> QED BY <1>4, <2>4, <3>5, <4>1 DEF Admits
    <3> HIDE DEF t0
    <3> QED BY <1>1, <2>2, <3>3, <3>4, <3>6, <3>7
  <2> QED BY <2>3, <2>4
<1> QED BY <1>1, <1>5, <1>6 DEF Counted, RateKept, Within

LEMMA InitRate == Init => RateInv
<1> SUFFICES ASSUME Init PROVE RateInv
  OBVIOUS
<1>1. Inv
  BY InitInv
<1>2. request = <<>> /\ Len(request) = 0 /\ DOMAIN request = {}
  BY DEF Init
<1>3. Cardinality({}) = 0
  BY FS_EmptySet
<1>4. Counted
  <2> SUFFICES ASSUME NEW s \in Senders, NEW t \in Int
               PROVE  Cardinality(Since(s, t)) <= Weigh(windows[s], Newer(t))
    BY DEF Counted
  <2>1. Since(s, t) = {}
    BY <1>2 DEF Since
  <2>2. windows[s] \in Seq(Int)
    BY <1>1 DEF Inv, Typed
  <2>3. Weigh(windows[s], Newer(t)) \in Nat
    BY <2>2, NewerFacts
  <2> QED BY <1>3, <2>1, <2>3
<1>5. RateKept
  <2>1. \A s, t : Within(s, t) = {}
    BY <1>2 DEF Within
  <2>2. 0 <= MaxPerWindow
    BY ConstantFacts
  <2>3. \A s, t : Cardinality(Within(s, t)) <= MaxPerWindow
    BY <1>3, <2>1, <2>2
  <2> QED BY <2>3 DEF RateKept, Within
<1> QED BY <1>1, <1>4, <1>5 DEF RateInv

LEMMA StepRate == RateInv /\ [Next]_vars => RateInv'
<1> SUFFICES ASSUME RateInv, [Next]_vars PROVE RateInv'
  OBVIOUS
<1>1. Inv /\ Inv' /\ Typed /\ Typed' /\ DOMAIN request = 1 .. Len(request) /\ now \in Nat /\ request \in Seq(Handlers)
  BY StepInv, LenProperties DEF RateInv, Inv, Typed
<1>2. ASSUME NEW s0 \in Senders, Refuse(s0) \/ Forbid(s0) \/ ReadOutbox(s0) PROVE RateInv'
  <2>1. /\ request' = request /\ now' = now
        /\ \/ windows' = windows
           \/ windows' = [windows EXCEPT ![s0] = Recent(s0)]
           \/ windows' = [windows EXCEPT ![s0] = Append(Recent(s0), now)]
    BY <1>2 DEF Refuse, Forbid, ReadOutbox
  <2>2. ASSUME NEW s \in Senders, NEW t \in Int, t > now' - Window
        PROVE  Weigh(windows[s], Newer(t)) <= Weigh(windows'[s], Newer(t))
    BY <1>1, <2>1, <2>2, WindowGrows
  <2>3. now' >= now
    BY <1>1, <2>1
  <2>4. Counted' /\ RateKept'
    BY <1>1, <2>1, <2>2, <2>3, RateUnchanged
  <2> QED BY <1>1, <2>4 DEF RateInv
<1>3. ASSUME windows' = windows, now' >= now, Len(request') = Len(request),
             \A i \in 1 .. Len(request) : request'[i].from = request[i].from /\ request'[i].at = request[i].at
      PROVE  RateInv'
  <2>1. ASSUME NEW s \in Senders, NEW t \in Int PROVE Weigh(windows[s], Newer(t)) <= Weigh(windows'[s], Newer(t))
    <3>1. windows[s] \in Seq(Int)
      BY <1>1 DEF Typed
    <3>2. Weigh(windows[s], Newer(t)) \in Nat
      BY <3>1, NewerFacts
    <3> QED BY <1>3, <3>2
  <2>2. Counted' /\ RateKept'
    BY <1>1, <1>3, <2>1, RateUnchanged
  <2> QED BY <1>1, <2>2 DEF RateInv
<1>4. CASE Tick \/ UNCHANGED vars
  <2>1. windows' = windows /\ request' = request /\ now' >= now
    BY <1>1, <1>4 DEF Tick, vars
  <2> QED BY <1>3, <2>1
<1>5. ASSUME NEW s0 \in Senders, Accept(s0) PROVE RateInv'
  BY <1>1, <1>5, AcceptRate DEF RateInv
<1>6. ASSUME NEW r \in 1 .. Len(request), Fail(r) \/ \E size \in ReplySizes : Reply(r, size) PROVE RateInv'
  <2>1. windows' = windows /\ now' = now /\ request' = Answered(request, r)
    BY <1>6 DEF Fail, Reply, Respond, Answered
  <2>2. /\ Len(request') = Len(request)
        /\ \A i \in 1 .. Len(request) : request'[i].from = request[i].from /\ request'[i].at = request[i].at
    BY <1>1, <2>1, FollowsAnswer
  <2>3. now' >= now
    BY <1>1, <2>1
  <2> QED BY <1>3, <2>1, <2>2, <2>3, SMTT(60)
<1> QED BY <1>1, <1>2, <1>4, <1>5, <1>6 DEF Next

\* No sender has more than rateLimitPerMinute messages accepted in any window: RateLimiter,
\* whatever it has forgotten.
THEOREM RateHolds == Spec => []RateKept
<1>1. RateInv => RateKept
  BY DEF RateInv
<1> QED BY <1>1, InitRate, StepRate, PTL DEF Spec
=============================================================================
