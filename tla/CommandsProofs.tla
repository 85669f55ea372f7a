--------------------------- MODULE CommandsProofs ---------------------------
(* Proofs about the commands.  Each has an inductive invariant over its own variables; a       *)
(* behaviour runs one of them, and leaves the variables of the others alone.                    *)
EXTENDS MCCommands, FiniteSetTheorems, SequenceTheorems, WellFoundedInduction, TLAPS

-----------------------------------------------------------------------------
(* Induction and recursion over an interval. *)

LEMMA LeastExists ==
  ASSUME NEW S \in SUBSET Nat, S # {}
  PROVE  \E n \in S : \A m \in S : n <= m
<1> DEFINE R == OpToRel(<, Nat)
<1>1. \A x, y \in Nat : x < y => <<x, y>> \in R
  BY DEF OpToRel
<1>2. IsWellFoundedOn(R, Nat)
  BY NatLessThanWellFounded
<1> HIDE DEF R
<1>3. PICK n \in S : \A m \in S : ~(<<m, n>> \in R)
  BY <1>2, WFMin
<1>4. ASSUME NEW m \in S PROVE n <= m
  <2>1. m \in Nat /\ n \in Nat
    OBVIOUS
  <2>2. ~(m < n)
    BY <2>1, <1>1, <1>3
  <2> QED BY <2>1, <2>2
<1> QED BY <1>4

LEMMA IntervalInduction ==
  ASSUME NEW N \in Nat, NEW S, 0 \in S, \A n \in 1 .. N : n - 1 \in S => n \in S
  PROVE  0 .. N \subseteq S
<1> DEFINE Bad == (0 .. N) \ S
<1>1. SUFFICES ASSUME Bad # {} PROVE FALSE
  OBVIOUS
<1>2. PICK n \in Bad : \A m \in Bad : n <= m
  <2>1. Bad \in SUBSET Nat
    OBVIOUS
  <2> QED BY <1>1, <2>1, LeastExists
<1>3. n \in 1 .. N /\ n - 1 \in 0 .. N /\ ~(n <= n - 1)
  BY <1>2
<1>4. n - 1 \in S
  BY <1>2, <1>3
<1> QED BY <1>2, <1>3, <1>4

\* A recursion whose step is a function on V has a solution.
Steps(N, V) == [1 .. N -> [V -> V]]
Solutions(N, V, base, step) ==
  {g \in [0 .. N -> V] : g[0] = base /\ \A n \in 1 .. N : g[n] = step[n][g[n - 1]]}

LEMMA RecursionExists ==
  ASSUME NEW N \in Nat, NEW V, NEW base \in V, NEW step \in Steps(N, V)
  PROVE  \E g : g \in Solutions(N, V, base, step)
<1> DEFINE Solves(k, g) == g[0] = base /\ \A n \in 1 .. k : g[n] = step[n][g[n - 1]]
           S == {k \in 0 .. N : \E g \in [0 .. k -> V] : Solves(k, g)}
<1>0. step \in [1 .. N -> [V -> V]]
  BY DEF Steps
<1>1. 0 \in S
  <2> DEFINE h == [n \in 0 .. 0 |-> base]
  <2>1. h \in [0 .. 0 -> V] /\ Solves(0, h)
    OBVIOUS
  <2> HIDE DEF h, Solves
  <2> QED BY <2>1
<1>2. ASSUME NEW k \in 1 .. N, k - 1 \in S PROVE k \in S
  <2>1. PICK g \in [0 .. k - 1 -> V] : Solves(k - 1, g)
    BY <1>2
  <2> DEFINE h == [n \in 0 .. k |-> IF n = k THEN step[k][g[k - 1]] ELSE g[n]]
  <2>2. g[k - 1] \in V /\ step[k][g[k - 1]] \in V
    BY <1>0
  <2>3. h \in [0 .. k -> V]
    BY <2>2
  <2>4. Solves(k, h)
    <3>1. h[0] = base
      BY <2>1
    <3>2. ASSUME NEW n \in 1 .. k PROVE h[n] = step[n][h[n - 1]]
      <4>1. CASE n = k
        <5>1. h[k] = step[k][g[k - 1]] /\ h[k - 1] = g[k - 1]
          OBVIOUS
        <5> QED BY <4>1, <5>1
      <4>2. CASE n # k
        BY <4>2, <2>1
      <4> QED BY <4>1, <4>2
    <3> HIDE DEF h
    <3> QED BY <3>1, <3>2
  <2> HIDE DEF h, Solves
  <2> QED BY <2>3, <2>4
<1>3. N \in S
  <2>1. 0 .. N \subseteq S
    <3> HIDE DEF S
    <3> QED BY <1>1, <1>2, IntervalInduction
  <2>2. N \in 0 .. N
    OBVIOUS
  <2> HIDE DEF S
  <2> QED BY <2>1, <2>2
<1> QED BY <1>3 DEF Solutions

\* Two functions that agree at 0, and at n when they agree before, are one.
Agree(N, f, g) == f[0] = g[0] /\ \A n \in 1 .. N : f[n - 1] = g[n - 1] => f[n] = g[n]

LEMMA RecursionUnique ==
  ASSUME NEW N \in Nat, NEW f, NEW g, Agree(N, f, g)
  PROVE  \A n \in 0 .. N : f[n] = g[n]
<1> DEFINE S == {n \in 0 .. N : f[n] = g[n]}
<1>1. 0 \in S /\ \A n \in 1 .. N : n - 1 \in S => n \in S
  BY DEF Agree
<1>2. 0 .. N \subseteq S
  <2> HIDE DEF S
  <2> QED BY <1>1, IntervalInduction
<1> QED BY <1>2

-----------------------------------------------------------------------------
(* Sums. *)

\* g holds the sums of the beginnings of s.
Sums(s, g) == g[0] = 0 /\ \A n \in 1 .. Len(s) : g[n] = g[n - 1] + s[n]

LEMMA SumUnfolds ==
  ASSUME NEW s \in Seq(Int)
  PROVE  \E g \in [0 .. Len(s) -> Int] : Sums(s, g) /\ TokensOf(s) = g[Len(s)]
<1> DEFINE N == Len(s)
           U(h) == h = [n \in 0 .. N |-> IF n = 0 THEN 0 ELSE h[n - 1] + s[n]]
           c == CHOOSE h : U(h)
           step == [n \in 1 .. N |-> [v \in Int |-> v + s[n]]]
<1>0. N \in Nat /\ \A n \in 1 .. N : s[n] \in Int
  BY LenProperties
<1>1. TokensOf(s) = c[N]
  BY DEF TokensOf
<1>2. PICK g : g \in Solutions(N, Int, 0, step)
  <2>1. step \in Steps(N, Int)
    BY <1>0 DEF Steps
  <2>2. N \in Nat /\ 0 \in Int
    BY <1>0
  <2> HIDE DEF step
  <2> QED BY <2>1, <2>2, RecursionExists
<1>3. g \in [0 .. N -> Int] /\ Sums(s, g)
  <2>0. g \in [0 .. N -> Int] /\ g[0] = 0 /\ \A n \in 1 .. N : g[n] = step[n][g[n - 1]]
    <3> HIDE DEF step
    <3> QED BY <1>2 DEF Solutions
  <2>1. ASSUME NEW n \in 1 .. N PROVE g[n] = g[n - 1] + s[n]
    <3>1. g[n - 1] \in Int
      BY <1>0, <2>0, SMTT(60)
    <3>2. \A v \in Int : step[n][v] = v + s[n]
      OBVIOUS
    <3> HIDE DEF step
    <3> QED BY <2>0, <3>1, <3>2
  <2> QED BY <2>0, <2>1 DEF Sums
<1>4. U(g)
  BY <1>0, <1>3 DEF Sums
<1>5. U(c)
  <2> HIDE DEF U
  <2> QED BY <1>4
<1>6. c[0] = 0 /\ \A n \in 1 .. N : c[n] = c[n - 1] + s[n]
  <2>1. c = [n \in 0 .. N |-> IF n = 0 THEN 0 ELSE c[n - 1] + s[n]]
    BY <1>5
  <2> HIDE DEF c
  <2>2. ASSUME NEW n \in 0 .. N PROVE c[n] = IF n = 0 THEN 0 ELSE c[n - 1] + s[n]
    BY <2>1
  <2>3. 0 \in 0 .. N /\ \A n \in 1 .. N : n \in 0 .. N /\ n # 0
    BY <1>0
  <2> QED BY <2>2, <2>3
<1>7. \A n \in 0 .. N : c[n] = g[n]
  <2>1. Agree(N, c, g)
    <3> HIDE DEF c
    <3> QED BY <1>3, <1>6 DEF Sums, Agree
  <2>2. N \in Nat
    BY <1>0
  <2> HIDE DEF c
  <2> QED BY <2>1, <2>2, RecursionUnique, ZenonT(60)
<1> QED
  <2> HIDE DEF c
  <2> QED BY <1>0, <1>1, <1>3, <1>7

LEMMA SumIs ==
  ASSUME NEW s \in Seq(Int), NEW g, Sums(s, g)
  PROVE  TokensOf(s) = g[Len(s)]
<1>1. PICK h \in [0 .. Len(s) -> Int] : Sums(s, h) /\ TokensOf(s) = h[Len(s)]
  BY SumUnfolds
<1>2. Len(s) \in Nat
  BY LenProperties
<1>3. Agree(Len(s), h, g)
  BY <1>1 DEF Sums, Agree
<1>4. \A n \in 0 .. Len(s) : h[n] = g[n]
  BY <1>2, <1>3, RecursionUnique, ZenonT(60)
<1> QED BY <1>1, <1>2, <1>4

LEMMA SumEmpty == TokensOf(<<>>) = 0
<1>1. <<>> \in Seq(Int) /\ Len(<<>>) = 0
  OBVIOUS
<1>2. Sums(<<>>, [n \in {0} |-> 0])
  BY DEF Sums
<1> QED BY <1>1, <1>2, SumIs

LEMMA SumAppend ==
  ASSUME NEW s \in Seq(Int), NEW e \in Int
  PROVE  TokensOf(Append(s, e)) = TokensOf(s) + e
<1> DEFINE N == Len(s)
           t == Append(s, e)
<1>0. N \in Nat /\ t \in Seq(Int) /\ Len(t) = N + 1 /\ t[N + 1] = e /\ \A n \in 1 .. N : t[n] = s[n]
  OBVIOUS
<1>1. PICK g \in [0 .. N -> Int] : Sums(s, g) /\ TokensOf(s) = g[N]
  BY SumUnfolds
<1> DEFINE h == [n \in 0 .. N + 1 |-> IF n = N + 1 THEN g[N] + e ELSE g[n]]
<1>2. Sums(t, h)
  <2>1. h[0] = 0
    BY <1>0, <1>1 DEF Sums
  <2>2. ASSUME NEW n \in 1 .. N + 1 PROVE h[n] = h[n - 1] + t[n]
    <3>1. CASE n = N + 1
      BY <1>0, <3>1
    <3>2. CASE n # N + 1
      BY <1>0, <1>1, <3>2 DEF Sums
    <3> QED BY <3>1, <3>2
  <2> HIDE DEF h, t
  <2> QED BY <1>0, <2>1, <2>2 DEF Sums
<1>3. TokensOf(t) = h[N + 1]
  <2> HIDE DEF h, t
  <2> QED BY <1>0, <1>2, SumIs
<1>4. h[N + 1] = g[N] + e
  BY <1>0
<1> QED BY <1>1, <1>3, <1>4

\* Two sequences that differ at p alone: their sums differ by as much.
LEMMA SumExcept ==
  ASSUME NEW s \in Seq(Int), NEW t \in Seq(Int), Len(s) = Len(t), NEW p \in 1 .. Len(s),
         \A n \in 1 .. Len(s) : n # p => t[n] = s[n]
  PROVE  TokensOf(t) = TokensOf(s) - s[p] + t[p]
<1> DEFINE N == Len(s)
<1>0. N \in Nat /\ \A n \in 1 .. N : s[n] \in Int /\ t[n] \in Int
  BY LenProperties
<1>1. PICK g \in [0 .. N -> Int] : Sums(s, g) /\ TokensOf(s) = g[N]
  BY SumUnfolds
<1> DEFINE h == [n \in 0 .. N |-> IF n < p THEN g[n] ELSE g[n] - s[p] + t[p]]
<1>2. \A n \in 0 .. N : g[n] \in Int
  OBVIOUS
<1>3. Sums(t, h)
  <2>1. h[0] = 0
    BY <1>0, <1>1 DEF Sums
  <2>2. ASSUME NEW n \in 1 .. N PROVE h[n] = h[n - 1] + t[n]
    <3>1. n \in 0 .. N /\ n - 1 \in 0 .. N /\ p \in 1 .. N
      BY <1>0
    <3>2. /\ h[n] = (IF n < p THEN g[n] ELSE g[n] - s[p] + t[p])
          /\ h[n - 1] = (IF n - 1 < p THEN g[n - 1] ELSE g[n - 1] - s[p] + t[p])
      BY <3>1
    <3>3. g[n] = g[n - 1] + s[n]
      BY <1>1 DEF Sums
    <3>4. /\ g[n] \in Int /\ g[n - 1] \in Int /\ s[n] \in Int
          /\ t[n] \in Int /\ s[p] \in Int /\ t[p] \in Int
      BY <1>0, <1>2, <3>1
    <3> HIDE DEF h
    <3>5. CASE n = p
      BY <3>1, <3>2, <3>3, <3>4, <3>5, SMTT(60)
    <3>6. CASE n # p
      <4>1. t[n] = s[n]
        BY <3>6
      <4>2. CASE n < p
        BY <3>1, <3>2, <3>3, <3>4, <4>1, <4>2
      <4>3. CASE p < n
        <5>1. ~(n < p) /\ ~(n - 1 < p)
          BY <3>1, <4>3
        <5>2. h[n] = g[n] - s[p] + t[p] /\ h[n - 1] = g[n - 1] - s[p] + t[p]
          BY <3>2, <5>1
        <5> DEFINE Swap(a, b, c, d) == (a + b) - c + d = (a - c + d) + b
        <5>3. \A a, b, c, d \in Int : Swap(a, b, c, d)
          OBVIOUS
        <5>4. Swap(g[n - 1], s[n], s[p], t[p])
          <6> HIDE DEF Swap
          <6> QED BY <3>4, <5>3
        <5>5. g[n] - s[p] + t[p] = (g[n - 1] - s[p] + t[p]) + t[n]
          BY <3>3, <4>1, <5>4, Zenon
        <5> QED BY <5>2, <5>5, Zenon
      <4> QED BY <3>1, <3>6, <4>2, <4>3
    <3> QED BY <3>5, <3>6
  <2> HIDE DEF h
  <2> QED BY <2>1, <2>2 DEF Sums
<1>4. TokensOf(t) = h[N]
  <2> HIDE DEF h
  <2> QED BY <1>3, SumIs
<1>5. h[N] = g[N] - s[p] + t[p]
  BY <1>0
<1> QED BY <1>1, <1>4, <1>5

-----------------------------------------------------------------------------
(* The members of a set of numbers that have fewer than k smaller ones: k, when there are k. *)

Below(S, p) == {q \in S : q < p}
First(S, k) == {p \in S : Cardinality(Below(S, p)) < k}

LEMMA BelowIs ==
  ASSUME NEW S \in SUBSET Nat, IsFiniteSet(S), NEW p \in S
  PROVE  IsFiniteSet(Below(S, p)) /\ Cardinality(Below(S, p)) \in Nat
<1>1. Below(S, p) \subseteq S
  BY DEF Below
<1>2. IsFiniteSet(Below(S, p))
  BY <1>1, FS_Subset
<1> QED BY <1>2, FS_CardinalityType

LEMMA FirstGrows ==
  ASSUME NEW S \in SUBSET Nat, IsFiniteSet(S), NEW k \in 1 .. Cardinality(S),
         Cardinality(First(S, k - 1)) = k - 1
  PROVE  Cardinality(First(S, k)) = k
<1> DEFINE F == First(S, k - 1)
<1>0. Cardinality(S) \in Nat /\ k \in Nat /\ k - 1 \in Nat /\ k - 1 < Cardinality(S)
  BY FS_CardinalityType
<1>1. F \subseteq S
  BY DEF First
<1>2. IsFiniteSet(F) /\ F # S
  BY <1>0, <1>1, FS_Subset
<1>3. PICK m \in S \ F : \A p \in S \ F : m <= p
  <2>1. S \ F \in SUBSET Nat /\ S \ F # {}
    BY <1>1, <1>2
  <2> HIDE DEF F
  <2> QED BY <2>1, LeastExists
<1>4. Cardinality(Below(S, m)) = k - 1
  <2>1. Below(S, m) \subseteq F
    <3> SUFFICES ASSUME NEW q \in S, q < m PROVE q \in F
      BY DEF Below
    <3>1. ~(m <= q)
      OBVIOUS
    <3> QED BY <1>3, <3>1
  <2>2. Cardinality(Below(S, m)) <= k - 1
    BY <1>2, <2>1, FS_Subset
  <2>3. ~(Cardinality(Below(S, m)) < k - 1)
    BY <1>3 DEF First
  <2>4. Cardinality(Below(S, m)) \in Nat
    BY <1>3, BelowIs
  <2> QED BY <1>0, <2>2, <2>3, <2>4
<1>5. First(S, k) = F \cup {m}
  <2>1. F \cup {m} \subseteq First(S, k)
    <3>1. ASSUME NEW p \in F PROVE p \in First(S, k)
      <4>1. p \in S /\ Cardinality(Below(S, p)) < k - 1
        BY DEF First
      <4>2. Cardinality(Below(S, p)) \in Nat
        BY <4>1, BelowIs
      <4>3. Cardinality(Below(S, p)) < k
        BY <1>0, <4>1, <4>2
      <4> QED BY <4>1, <4>3 DEF First
    <3>2. m \in First(S, k)
      <4>1. Cardinality(Below(S, m)) < k
        BY <1>0, <1>4
      <4> QED BY <1>3, <4>1 DEF First
    <3> QED BY <3>1, <3>2
  <2>2. ASSUME NEW p \in First(S, k), p \notin F PROVE p = m
    <3>1. p \in S /\ m <= p /\ Cardinality(Below(S, p)) < k
      BY <1>3, <2>2 DEF First
    <3>2. ASSUME m < p PROVE FALSE
      <4> DEFINE A == Below(S, m)
      <4>1. A \cup {m} \subseteq Below(S, p) /\ m \notin A
        <5>1. m \in S /\ m \in Nat /\ p \in Nat /\ ~(m < m)
          BY <1>3, <3>1
        <5>2. ASSUME NEW q \in S, q < m PROVE q < p
          <6>1. q \in Nat
            OBVIOUS
          <6> QED BY <3>2, <5>1, <5>2, <6>1
        <5> QED BY <3>2, <5>1, <5>2 DEF Below
      <4>2. IsFiniteSet(A) /\ IsFiniteSet(Below(S, p)) /\ Cardinality(Below(S, p)) \in Nat
        BY <1>3, <3>1, BelowIs
      <4>3. Cardinality(A) = k - 1
        BY <1>4
      <4> HIDE DEF A
      <4>4. Cardinality(A \cup {m}) = k
        <5>1. Cardinality(A \cup {m}) = Cardinality(A) + 1
          BY <4>1, <4>2, FS_AddElement
        <5> QED BY <1>0, <4>3, <5>1
      <4>5. k <= Cardinality(Below(S, p))
        BY <4>1, <4>2, <4>4, FS_Subset
      <4> QED BY <1>0, <3>1, <4>2, <4>5
    <3>3. m \in Nat /\ p \in Nat
      BY <1>3, <3>1
    <3> QED BY <3>1, <3>2, <3>3
  <2> QED BY <2>1, <2>2
<1>6. m \notin F
  BY <1>3
<1> HIDE DEF F
<1>7. Cardinality(F \cup {m}) = Cardinality(F) + 1
  BY <1>2, <1>6, FS_AddElement
<1> QED BY <1>0, <1>5, <1>7 DEF F

LEMMA FirstCounts ==
  ASSUME NEW S \in SUBSET Nat, IsFiniteSet(S), NEW k \in 0 .. Cardinality(S)
  PROVE  Cardinality(First(S, k)) = k
<1> DEFINE N == Cardinality(S)
           K == {j \in 0 .. N : Cardinality(First(S, j)) = j}
<1>1. N \in Nat
  BY FS_CardinalityType
<1>2. 0 \in K
  <2>1. First(S, 0) = {}
    <3> SUFFICES ASSUME NEW p \in S PROVE ~(Cardinality(Below(S, p)) < 0)
      BY DEF First
    <3>1. Cardinality(Below(S, p)) \in Nat
      BY BelowIs
    <3> QED BY <3>1
  <2>2. Cardinality(First(S, 0)) = 0
    BY <2>1, FS_EmptySet
  <2> QED BY <1>1, <2>2
<1>3. ASSUME NEW j \in 1 .. N, j - 1 \in K PROVE j \in K
  <2>1. Cardinality(First(S, j - 1)) = j - 1
    BY <1>3
  <2>2. Cardinality(First(S, j)) = j
    BY <2>1, FirstGrows
  <2> QED BY <1>1, <2>2
<1>4. 0 .. N \subseteq K
  <2> HIDE DEF K, N
  <2> QED BY <1>1, <1>2, <1>3, IntervalInduction
<1> QED BY <1>4

-----------------------------------------------------------------------------
(* The evaluation runner. *)

Phases == {"new", "prepare", "run", "judge", "result", "rejected"}

EvalTyped ==
  /\ suite \in Seq(EvalCases)
  /\ evaluating \in {"idle", "batch", "done", "rejected"}
  /\ phase \in [cases -> Phases]
  /\ workspaces \subseteq cases /\ loops \subseteq cases /\ acted \subseteq cases
  /\ output \in [cases -> Outputs]
  /\ verdicts \in Seq(Nat \X BOOLEAN) /\ Len(verdicts) <= Len(suite)
  /\ evaluating = "done" => Len(verdicts) = Len(suite)

\* A verdict is about a case whose output will not change any more.
VerdictsTell ==
  \A i \in DOMAIN verdicts :
    verdicts[i][1] = i /\ phase[i] = "result" /\ (verdicts[i][2] => Passed(i))

\* What holds of a case with its phase: it has been started with its batch, a failure is the
\* last thing it records, and its directory lives as long as its query loop is waited for.
CaseTells(c) ==
  /\ phase[c] # "new" => c <= Len(verdicts) + MaxConcurrency
  /\ output[c].error => /\ phase[c] \in {"judge", "result", "rejected"}
                        /\ output[c].text = "" /\ output[c].toolsCalled = {}
  /\ phase[c] \in {"prepare", "run"} => c \in workspaces
  /\ c \in workspaces => c \in acted \/ phase[c] \in {"prepare", "run", "rejected"}

EvalInv == EvalTyped /\ VerdictsTell /\ \A c \in cases : CaseTells(c)

LEMMA EvalBegins == EvalInit => EvalInv
<1> SUFFICES ASSUME EvalInit PROVE EvalInv
  OBVIOUS
<1>1. suite \in Seq(EvalCases) /\ MaxConcurrency \in Nat
  BY EvalAssumption DEF EvalInit
<1>0. verdicts = <<>> /\ Len(verdicts) = 0 /\ DOMAIN verdicts = {} /\ verdicts \in Seq(Nat \X BOOLEAN)
  <2>1. verdicts = <<>>
    BY DEF EvalInit
  <2> QED BY <2>1
<1>2. EvalTyped
  <2>1. Len(suite) \in Nat
    BY <1>1
  <2>2. output \in [cases -> Outputs]
    BY DEF EvalInit, NoOutput, Outputs
  <2>3. phase \in [cases -> Phases]
    BY DEF EvalInit, Phases
  <2>4. evaluating = "idle" /\ workspaces = {} /\ loops = {} /\ acted = {}
    BY DEF EvalInit
  <2> QED BY <1>0, <1>1, <2>1, <2>2, <2>3, <2>4 DEF EvalTyped
<1>3. VerdictsTell
  BY <1>0, Zenon DEF VerdictsTell
<1>4. \A c \in cases : CaseTells(c)
  BY <1>1 DEF EvalInit, NoOutput, CaseTells
<1> QED BY <1>2, <1>3, <1>4 DEF EvalInv

LEMMA CasesAre ==
  ASSUME EvalTyped
  PROVE  /\ Len(suite) \in Nat /\ cases = 1 .. Len(suite)
         /\ Len(verdicts) \in Nat /\ DOMAIN verdicts = 1 .. Len(verdicts)
         /\ Len(verdicts) <= Len(suite) /\ DOMAIN verdicts \subseteq cases
         /\ MaxConcurrency \in Nat
<1>1. Len(suite) \in Nat /\ cases = 1 .. Len(suite)
  BY DEF EvalTyped, cases
<1>2. Len(verdicts) \in Nat /\ DOMAIN verdicts = 1 .. Len(verdicts) /\ Len(verdicts) <= Len(suite)
  BY DEF EvalTyped
<1> QED BY <1>1, <1>2, EvalAssumption

\* The batch that begins after the verdicts is an interval.
LEMMA BatchIs ==
  ASSUME EvalTyped
  PROVE  \E k \in Nat : /\ runningCases = Len(verdicts) + 1 .. Len(verdicts) + k
                        /\ k <= MaxConcurrency /\ Len(verdicts) + k <= Len(suite)
                        /\ Cardinality(runningCases) = k /\ IsFiniteSet(runningCases)
<1> DEFINE n == Len(verdicts)
           l == Len(suite)
           k == IF n + MaxConcurrency <= l THEN MaxConcurrency ELSE l - n
<1>1. l \in Nat /\ cases = 1 .. l /\ n \in Nat /\ n <= l /\ MaxConcurrency \in Nat
  BY CasesAre
<1>2. runningCases = {c \in 1 .. l : c >= n + 1 /\ c < n + 1 + MaxConcurrency}
  BY <1>1 DEF runningCases, Batch
<1> HIDE DEF n, l
<1>3. k \in Nat /\ k <= MaxConcurrency /\ n + k <= l
  BY <1>1
<1>4. runningCases = n + 1 .. n + k
  BY <1>1, <1>2
<1>5. Cardinality(n + 1 .. n + k) = k /\ IsFiniteSet(n + 1 .. n + k)
  <2>1. n + 1 \in Int /\ n + k \in Int
    BY <1>1, <1>3
  <2>2. /\ IsFiniteSet(n + 1 .. n + k)
        /\ Cardinality(n + 1 .. n + k) = IF n + 1 > n + k THEN 0 ELSE (n + k) - (n + 1) + 1
    BY <2>1, FS_Interval
  <2> HIDE DEF k
  <2> QED BY <1>1, <1>3, <2>2
<1> HIDE DEF k
<1> QED BY <1>3, <1>4, <1>5 DEF n, l

LEMMA StartBatchKeeps ==
  ASSUME EvalInv, StartBatch
  PROVE  EvalInv'
<1> DEFINE batch == Batch(Len(verdicts) + 1)
<1>0. EvalTyped /\ VerdictsTell /\ \A c \in cases : CaseTells(c)
  BY DEF EvalInv
<1>1. PICK k \in Nat : /\ batch = Len(verdicts) + 1 .. Len(verdicts) + k
                       /\ k <= MaxConcurrency
  BY <1>0, BatchIs DEF runningCases
<1>2. /\ evaluating' = IF Len(verdicts) = Len(suite) THEN "done" ELSE "batch"
      /\ \A c \in cases : phase[c] # "new" => c <= Len(verdicts)
      /\ phase' = [c \in cases |-> IF c \in batch THEN "prepare" ELSE phase[c]]
      /\ workspaces' = workspaces \cup batch
      /\ UNCHANGED <<suite, loops, acted, output, verdicts>> /\ cases' = cases
  BY DEF StartBatch, cases
<1>3. /\ Len(verdicts) \in Nat /\ cases = 1 .. Len(suite) /\ Len(suite) \in Nat
      /\ DOMAIN verdicts = 1 .. Len(verdicts) /\ DOMAIN verdicts \subseteq cases /\ MaxConcurrency \in Nat
  BY <1>0, CasesAre
<1>4. batch \subseteq cases
  BY DEF Batch
<1> HIDE DEF batch
<1>5. EvalTyped'
  <2>1. phase' \in [cases -> Phases] /\ workspaces' \subseteq cases
    BY <1>0, <1>2, <1>4 DEF EvalTyped, Phases
  <2> QED BY <1>0, <1>2, <2>1 DEF EvalTyped
<1>6. VerdictsTell'
  <2>1. ASSUME NEW i \in DOMAIN verdicts PROVE phase'[i] = phase[i]
    BY <1>1, <1>2, <1>3
  <2> QED BY <1>0, <1>2, <2>1 DEF VerdictsTell, Passed
<1>7. ASSUME NEW c \in cases PROVE CaseTells(c)'
  <2>1. CASE c \in batch
    <3>1. phase[c] = "new" /\ c <= Len(verdicts) + MaxConcurrency
      BY <1>1, <1>2, <1>3, <2>1
    <3>2. ~output[c].error
      BY <1>0, <3>1 DEF CaseTells
    <3>3. phase'[c] = "prepare" /\ c \in workspaces'
      BY <1>2, <2>1
    <3> QED BY <1>2, <3>1, <3>2, <3>3 DEF CaseTells
  <2>2. CASE c \notin batch
    <3>1. phase'[c] = phase[c] /\ (c \in workspaces' <=> c \in workspaces)
      BY <1>2, <2>2
    <3> QED BY <1>0, <1>2, <3>1 DEF CaseTells
  <2> QED BY <2>1, <2>2
<1> QED BY <1>2, <1>5, <1>6, <1>7 DEF EvalInv

\* A step of one case: what a verdict is about stays, and so does every other case.
LEMMA CaseStepKeeps ==
  ASSUME EvalInv, NEW c \in cases, UNCHANGED <<suite, evaluating, verdicts>>, EvalTyped',
         \A d \in cases : d # c => /\ phase'[d] = phase[d] /\ output'[d] = output[d]
                                   /\ (d \in workspaces' <=> d \in workspaces)
                                   /\ (d \in acted' <=> d \in acted),
         phase[c] = "result" => phase'[c] = "result" /\ output'[c] = output[c],
         CaseTells(c)'
  PROVE  EvalInv'
<1>0. EvalTyped /\ VerdictsTell /\ (\A d \in cases : CaseTells(d)) /\ cases' = cases
  BY DEF EvalInv, cases
<1>1. VerdictsTell'
  <2> SUFFICES ASSUME NEW i \in DOMAIN verdicts
               PROVE  verdicts[i][1] = i /\ phase'[i] = "result" /\ (verdicts[i][2] => Passed(i)')
    BY DEF VerdictsTell
  <2>1. i \in cases
    BY <1>0, CasesAre
  <2>2. verdicts[i][1] = i /\ phase[i] = "result" /\ (verdicts[i][2] => Passed(i))
    BY <1>0 DEF VerdictsTell
  <2>3. phase'[i] = "result" /\ output'[i] = output[i]
    BY <2>1, <2>2
  <2> QED BY <2>2, <2>3 DEF Passed
<1>2. ASSUME NEW d \in cases PROVE CaseTells(d)'
  <2>1. CASE d # c
    BY <1>0, <2>1 DEF CaseTells
  <2> QED BY <2>1
<1> QED BY <1>0, <1>1, <1>2 DEF EvalInv

LEMMA PrepareKeeps ==
  ASSUME EvalInv, NEW c \in cases, Prepare(c)
  PROVE  EvalInv'
<1>0. EvalTyped /\ CaseTells(c)
  BY DEF EvalInv
<1>1. /\ phase[c] = "prepare" /\ phase' = [phase EXCEPT ![c] = phase'[c]]
      /\ phase'[c] \in {"run", "rejected"} /\ loops' \subseteq cases
      /\ UNCHANGED <<suite, evaluating, workspaces, acted, output, verdicts>> /\ cases' = cases
  BY <1>0 DEF Prepare, EvalTyped, cases
<1>2. EvalTyped'
  BY <1>0, <1>1 DEF EvalTyped, Phases
<1>3. CaseTells(c)'
  BY <1>0, <1>1 DEF CaseTells
<1>4. \A d \in cases : d # c => phase'[d] = phase[d]
  BY <1>0, <1>1 DEF EvalTyped
<1> QED BY <1>1, <1>2, <1>3, <1>4, CaseStepKeeps

LEMMA LoopActsKeeps ==
  ASSUME EvalInv, NEW c \in cases, LoopActs(c)
  PROVE  EvalInv'
<1>0. EvalTyped /\ CaseTells(c)
  BY DEF EvalInv
<1>1. /\ acted' = acted \cup {c} /\ workspaces' \in {workspaces, workspaces \cup {c}}
      /\ UNCHANGED <<suite, evaluating, phase, loops, verdicts>> /\ cases' = cases
  BY DEF LoopActs, cases
<1>2. /\ output' \in [cases -> Outputs] /\ output'[c].error = output[c].error
      /\ output'[c].text = output[c].text
      /\ \A d \in cases : d # c => output'[d] = output[d]
      /\ phase[c] # "run" => output' = output
  <2>1. CASE phase[c] = "run"
    <3> DEFINE o == [output[c] EXCEPT !.toolsCalled = output[c].toolsCalled \cup Recorded(c)]
    <3>1. output' = [output EXCEPT ![c] = o]
      BY <2>1 DEF LoopActs
    <3>2. output[c] \in Outputs /\ output \in [cases -> Outputs]
      BY <1>0 DEF EvalTyped
    <3>3. o \in Outputs /\ o.error = output[c].error /\ o.text = output[c].text
      BY <3>2 DEF Outputs, Recorded
    <3> HIDE DEF o
    <3> QED BY <2>1, <3>1, <3>2, <3>3
  <2>2. CASE phase[c] # "run"
    BY <1>0, <2>2 DEF LoopActs, EvalTyped
  <2> QED BY <2>1, <2>2
<1>3. EvalTyped'
  <2>1. workspaces' \subseteq cases /\ acted' \subseteq cases
    BY <1>0, <1>1 DEF EvalTyped
  <2> QED BY <1>0, <1>1, <1>2, <2>1 DEF EvalTyped
<1>4. CaseTells(c)'
  <2>1. c \in acted' /\ (c \in workspaces => c \in workspaces')
    BY <1>1
  <2>2. output'[c].error => phase[c] \in {"judge", "result", "rejected"} /\ output' = output
    BY <1>0, <1>2 DEF CaseTells
  <2> QED BY <1>0, <1>1, <2>1, <2>2 DEF CaseTells
<1>5. \A d \in cases : d # c => /\ (d \in workspaces' <=> d \in workspaces)
                                /\ (d \in acted' <=> d \in acted)
  BY <1>1
<1>6. phase[c] = "result" => phase'[c] = "result" /\ output'[c] = output[c]
  BY <1>1, <1>2
<1> QED BY <1>1, <1>2, <1>3, <1>4, <1>5, <1>6, CaseStepKeeps

LEMMA SettleKeeps ==
  ASSUME EvalInv, NEW c \in cases, NEW out \in Outputs, Settle(c, out), loops' \subseteq loops,
         out.error => out.text = "" /\ out.toolsCalled = {}
  PROVE  EvalInv'
<1>0. EvalTyped /\ CaseTells(c)
  BY DEF EvalInv
<1>1. /\ phase[c] = "run" /\ phase' = [phase EXCEPT ![c] = "judge"]
      /\ output' = [output EXCEPT ![c] = out] /\ workspaces' = workspaces \ {c}
      /\ UNCHANGED <<suite, evaluating, acted, verdicts>> /\ cases' = cases
  BY DEF Settle, cases
<1>2. /\ phase \in [cases -> Phases] /\ output \in [cases -> Outputs]
  BY <1>0 DEF EvalTyped
<1>3. EvalTyped'
  <2>1. phase' \in [cases -> Phases] /\ output' \in [cases -> Outputs]
    BY <1>1, <1>2 DEF Phases
  <2>2. workspaces' \subseteq cases /\ loops' \subseteq cases
    BY <1>0, <1>1 DEF EvalTyped
  <2> QED BY <1>0, <1>1, <2>1, <2>2 DEF EvalTyped
<1>4. phase'[c] = "judge" /\ output'[c] = out /\ c \notin workspaces'
  BY <1>1, <1>2
<1>5. CaseTells(c)'
  BY <1>0, <1>1, <1>4 DEF CaseTells
<1>6. \A d \in cases : d # c => /\ phase'[d] = phase[d] /\ output'[d] = output[d]
                                /\ (d \in workspaces' <=> d \in workspaces)
  BY <1>1, <1>2
<1> QED BY <1>1, <1>3, <1>5, <1>6, CaseStepKeeps

LEMMA FailureIs == Failure \in Outputs /\ Failure.text = "" /\ Failure.toolsCalled = {} /\ Failure.error
BY DEF Failure, NoOutput, Outputs

LEMMA LoopCompletesKeeps ==
  ASSUME EvalInv, NEW c \in cases, LoopCompletes(c)
  PROVE  EvalInv'
<1>1. PICK o \in Outcomes : Settle(c, [o EXCEPT !.toolsCalled = output[c].toolsCalled])
  BY DEF LoopCompletes
<1> DEFINE out == [o EXCEPT !.toolsCalled = output[c].toolsCalled]
<1>2. output[c] \in Outputs /\ o \in Outputs /\ ~o.error
  BY EvalAssumption DEF EvalInv, EvalTyped
<1>3. out \in Outputs /\ ~out.error
  BY <1>2 DEF Outputs
<1>4. loops' \subseteq loops
  BY DEF LoopCompletes
<1>5. Settle(c, out)
  BY <1>1
<1> HIDE DEF out
<1> QED BY <1>3, <1>4, <1>5, SettleKeeps

LEMMA JudgeKeeps ==
  ASSUME EvalInv, NEW c \in cases, Judge(c)
  PROVE  EvalInv'
<1>0. EvalTyped /\ CaseTells(c)
  BY DEF EvalInv
<1>1. /\ phase[c] = "judge" /\ phase' = [phase EXCEPT ![c] = phase'[c]]
      /\ phase'[c] \in {"result", "rejected"}
      /\ UNCHANGED <<suite, evaluating, workspaces, loops, acted, verdicts>> /\ cases' = cases
  BY <1>0 DEF Judge, EvalTyped, cases
<1>2. PICK passes \in BOOLEAN : output' = [output EXCEPT ![c].judged = passes]
  BY DEF Judge
<1>3. /\ output' \in [cases -> Outputs] /\ \A d \in cases : d # c => output'[d] = output[d]
      /\ output'[c].error = output[c].error /\ output'[c].text = output[c].text
      /\ output'[c].toolsCalled = output[c].toolsCalled
  <2> DEFINE o == [output[c] EXCEPT !.judged = passes]
  <2>1. output[c] \in Outputs /\ output \in [cases -> Outputs]
    BY <1>0 DEF EvalTyped
  <2>2. o \in Outputs /\ o.error = output[c].error /\ o.text = output[c].text /\ o.toolsCalled = output[c].toolsCalled
    BY <2>1 DEF Outputs
  <2>3. output' = [output EXCEPT ![c] = o]
    BY <1>2
  <2> HIDE DEF o
  <2> QED BY <2>1, <2>2, <2>3
<1>4. EvalTyped'
  BY <1>0, <1>1, <1>3 DEF EvalTyped, Phases
<1>5. CaseTells(c)'
  BY <1>0, <1>1, <1>3 DEF CaseTells
<1>6. \A d \in cases : d # c => phase'[d] = phase[d]
  BY <1>0, <1>1 DEF EvalTyped
<1> QED BY <1>1, <1>3, <1>4, <1>5, <1>6, CaseStepKeeps

LEMMA LoopEndsLateKeeps ==
  ASSUME EvalInv, NEW c \in cases, LoopEndsLate(c)
  PROVE  EvalInv'
<1>0. EvalTyped /\ CaseTells(c)
  BY DEF EvalInv
<1>1. loops' \subseteq loops /\ UNCHANGED <<suite, evaluating, phase, workspaces, acted, output, verdicts>>
      /\ cases' = cases
  BY DEF LoopEndsLate, cases
<1>2. EvalTyped' /\ CaseTells(c)'
  BY <1>0, <1>1 DEF EvalTyped, CaseTells
<1> QED BY <1>1, <1>2, CaseStepKeeps

\* The verdicts of a batch are about the cases that follow those judged before.
LEMMA CollectBatchKeeps ==
  ASSUME EvalInv, CollectBatch
  PROVE  EvalInv'
<1> DEFINE n == Len(verdicts)
           more == [i \in 1 .. Cardinality(runningCases) |-> <<n + i, Passed(n + i)>>]
<1>0. EvalTyped /\ VerdictsTell /\ \A c \in cases : CaseTells(c)
  BY DEF EvalInv
<1>1. PICK k \in Nat : /\ runningCases = n + 1 .. n + k /\ n + k <= Len(suite)
                       /\ Cardinality(runningCases) = k
  BY <1>0, BatchIs
<1>2. /\ evaluating = "batch" /\ \A c \in n + 1 .. n + k : phase[c] = "result"
      /\ verdicts' = verdicts \o more
      /\ UNCHANGED <<suite, evaluating, phase, workspaces, loops, acted, output>> /\ cases' = cases
  BY <1>1 DEF CollectBatch, cases
<1>3. n \in Nat /\ DOMAIN verdicts = 1 .. n /\ verdicts \in Seq(Nat \X BOOLEAN) /\ MaxConcurrency \in Nat
      /\ cases = 1 .. Len(suite) /\ Len(suite) \in Nat
  BY <1>0, CasesAre DEF EvalTyped
<1>4. \A i \in 1 .. k : more[i] = <<n + i, Passed(n + i)>>
  BY <1>1
<1>5. more \in Seq(Nat \X BOOLEAN) /\ Len(more) = k
  <2>1. \A i \in 1 .. k : n + i \in Nat
    BY <1>3
  <2>2. \A i \in 1 .. k : <<n + i, Passed(n + i)>> \in Nat \X BOOLEAN
    BY <2>1 DEF Passed
  <2>3. more \in [1 .. k -> Nat \X BOOLEAN]
    BY <1>1, <2>2
  <2>4. Len(more) = k
    BY <1>1
  <2> HIDE DEF more
  <2> QED BY <2>3, <2>4
<1> HIDE DEF more
<1>6. /\ verdicts' \in Seq(Nat \X BOOLEAN) /\ Len(verdicts') = n + k /\ DOMAIN verdicts' = 1 .. n + k
      /\ \A i \in 1 .. n : verdicts'[i] = verdicts[i]
      /\ \A i \in n + 1 .. n + k : verdicts'[i] = more[i - n]
  <2>1. verdicts' \in Seq(Nat \X BOOLEAN)
    BY <1>2, <1>3, <1>5
  <2>2. Len(verdicts') = n + k
    <3>1. Len(verdicts \o more) = Len(verdicts) + Len(more)
      BY <1>3, <1>5, ConcatProperties
    <3> QED BY <1>2, <1>5, <3>1
  <2>3. \A i \in 1 .. n : verdicts'[i] = verdicts[i]
    BY <1>2, <1>3, <1>5
  <2>4. \A i \in n + 1 .. n + k : verdicts'[i] = more[i - n]
    BY <1>2, <1>3, <1>5
  <2> QED BY <2>1, <2>2, <2>3, <2>4
<1> HIDE DEF n
<1>7. EvalTyped'
  BY <1>0, <1>1, <1>2, <1>6 DEF EvalTyped
<1>8. VerdictsTell'
  <2> SUFFICES ASSUME NEW i \in 1 .. n + k
               PROVE  verdicts'[i][1] = i /\ phase[i] = "result" /\ (verdicts'[i][2] => Passed(i))
    BY <1>2, <1>6 DEF VerdictsTell, Passed
  <2>1. CASE i \in 1 .. n
    BY <1>0, <1>3, <1>6, <2>1 DEF VerdictsTell
  <2>2. CASE i \notin 1 .. n
    <3>1. i \in n + 1 .. n + k /\ i - n \in 1 .. k /\ n + (i - n) = i
      BY <1>3, <2>2
    <3>2. verdicts'[i] = <<i, Passed(i)>>
      BY <1>4, <1>6, <3>1
    <3> QED BY <1>2, <3>1, <3>2
  <2> QED BY <2>1, <2>2
<1>9. ASSUME NEW c \in cases PROVE CaseTells(c)'
  <2>1. c <= n + MaxConcurrency => c <= n + k + MaxConcurrency
    BY <1>3
  <2> QED BY <1>0, <1>2, <1>6, <2>1 DEF CaseTells, n
<1> QED BY <1>2, <1>7, <1>8, <1>9 DEF EvalInv

LEMMA EvalKeeps ==
  ASSUME EvalInv, EvalNext
  PROVE  EvalInv'
<1>1. CASE StartBatch
  BY <1>1, StartBatchKeeps
<1>2. CASE CollectBatch
  BY <1>2, CollectBatchKeeps
<1>3. CASE RejectSuite
  BY <1>3 DEF RejectSuite, EvalInv, EvalTyped, VerdictsTell, CaseTells, Passed, cases
<1>4. ASSUME NEW c \in cases,
             \/ Prepare(c) \/ LoopCompletes(c) \/ LoopFails(c) \/ CaseTimesOut(c)
             \/ LoopEndsLate(c) \/ Judge(c) \/ LoopActs(c)
      PROVE  EvalInv'
  <2>1. CASE LoopFails(c) \/ CaseTimesOut(c)
    <3>1. Settle(c, Failure) /\ loops' \subseteq loops
      BY <2>1 DEF LoopFails, CaseTimesOut
    <3> QED BY <3>1, FailureIs, SettleKeeps
  <2> QED BY <1>4, <2>1, PrepareKeeps, LoopCompletesKeeps, LoopEndsLateKeeps, JudgeKeeps, LoopActsKeeps
<1> QED BY <1>1, <1>2, <1>3, <1>4 DEF EvalNext, EvalProgress

LEMMA EvalStays == EvalInv /\ UNCHANGED evalVars => EvalInv'
BY ZenonT(60) DEF EvalInv, EvalTyped, VerdictsTell, CaseTells, Passed, cases, evalVars

LEMMA EvalHolds ==
  ASSUME EvalInv
  PROVE  EvalSound
<1>0. EvalTyped /\ VerdictsTell /\ \A c \in cases : CaseTells(c)
  BY DEF EvalInv
<1>1. /\ Len(verdicts) \in Nat /\ cases = 1 .. Len(suite) /\ Len(suite) \in Nat
      /\ DOMAIN verdicts = 1 .. Len(verdicts) /\ DOMAIN verdicts \subseteq cases /\ MaxConcurrency \in Nat
  BY <1>0, CasesAre
<1>2. \A i \in DOMAIN verdicts : verdicts[i][1] = i
  BY <1>0 DEF VerdictsTell
<1>3. evaluating = "done" => Len(verdicts) = Len(suite)
  BY <1>0 DEF EvalTyped
<1>4. ASSUME NEW i \in DOMAIN verdicts, verdicts[i][2], output[i].error
      PROVE  suite[i].assertions \subseteq MetByNothing
  <2>1. output[i].text = "" /\ output[i].toolsCalled = {}
    BY <1>0, <1>1, <1>4 DEF CaseTells
  <2>2. \A type \in suite[i].assertions : Holds(type, output[i])
    BY <1>0, <1>4 DEF VerdictsTell, Passed
  <2>3. suite[i].assertions \subseteq AssertionTypes
    <3>1. suite[i] \in EvalCases
      BY <1>0, <1>1 DEF EvalTyped
    <3> QED BY <3>1 DEF EvalCases
  <2>4. ASSUME NEW type \in suite[i].assertions PROVE type \in MetByNothing
    BY <1>4, <2>1, <2>2, <2>3, <2>4 DEF Holds, AssertionTypes, MetByNothing
  <2> QED BY <2>4
<1>5. ASSUME NEW i \in DOMAIN verdicts, verdicts[i][2], output[i].broke
      PROVE  "no_error" \notin suite[i].assertions
  <2>1. \A type \in suite[i].assertions : Holds(type, output[i])
    BY <1>0, <1>5 DEF VerdictsTell, Passed
  <2> QED BY <1>5, <2>1 DEF Holds
<1>6. Cardinality({c \in loops : phase[c] = "run"}) <= MaxConcurrency
  <2> DEFINE running == {c \in loops : phase[c] = "run"}
  <2>1. PICK k \in Nat : /\ runningCases = Len(verdicts) + 1 .. Len(verdicts) + k
                         /\ k <= MaxConcurrency /\ Cardinality(runningCases) = k
                         /\ IsFiniteSet(runningCases)
    BY <1>0, BatchIs
  <2>2. ASSUME NEW c \in running PROVE c \in runningCases
    <3>1. c \in cases /\ phase[c] = "run"
      BY <1>0 DEF EvalTyped
    <3>2. c <= Len(verdicts) + MaxConcurrency
      BY <1>0, <3>1 DEF CaseTells
    <3>3. c \notin DOMAIN verdicts
      BY <1>0, <3>1 DEF VerdictsTell
    <3> QED BY <1>1, <3>1, <3>2, <3>3 DEF runningCases, Batch
  <2>3. running \subseteq runningCases
    BY <2>2
  <2> HIDE DEF running
  <2>4. IsFiniteSet(running) /\ Cardinality(running) <= Cardinality(runningCases)
    BY <2>1, <2>3, FS_Subset
  <2>5. Cardinality(running) \in Nat
    BY <2>4, FS_CardinalityType
  <2>6. Cardinality(running) <= MaxConcurrency
    BY <1>1, <2>1, <2>4, <2>5
  <2> QED BY <2>6 DEF running
<1>7. \A c \in cases : phase[c] = "run" => c \in workspaces
  BY <1>0 DEF CaseTells
<1>8. evaluating = "done" => workspaces \subseteq acted
  <2> SUFFICES ASSUME evaluating = "done", NEW c \in workspaces PROVE c \in acted
    OBVIOUS
  <2>1. c \in cases /\ c \in DOMAIN verdicts
    BY <1>0, <1>1, <1>3 DEF EvalTyped
  <2>2. phase[c] = "result"
    BY <1>0, <2>1 DEF VerdictsTell
  <2> QED BY <1>0, <2>1, <2>2 DEF CaseTells
<1> QED BY <1>2, <1>3, <1>4, <1>5, <1>6, <1>7, <1>8 DEF EvalSound

-----------------------------------------------------------------------------
(* The orchestrator engine. *)

EngineTyped ==
  /\ stage \in {"idle", "planning", "round", "running", "done", "failed", "deadlock"}
  /\ plan \in Seq(Tasks)
  /\ remaining \subseteq DOMAIN plan /\ round \subseteq remaining /\ calling \subseteq DOMAIN plan
  /\ results \in Seq(SUBSET DOMAIN plan)
  /\ informed \in [DOMAIN plan -> SUBSET TaskIds]
  /\ stage \in {"idle", "planning"} => plan = <<>> /\ results = <<>>
  /\ stage \notin {"running", "failed"} => round = {}
  /\ stage = "done" => remaining = {}
  /\ stage = "deadlock" => remaining # {} /\ Ready = {}

\* What was started was ready, and was told so.
Told ==
  /\ \A p \in round : plan[p].dependsOn \subseteq completed
  /\ \A p \in round \cup ran : plan[p].dependsOn \subseteq informed[p]

\* Nothing that can never run has run.
StuckWaits == \A B \in SUBSET DOMAIN plan : Stuck(B) => B \cap ran = {}

\* Every id has as many results as it has tasks that are gone.
Counted == \A t \in TaskIds : ResultsOf(t) + Cardinality(OfId(remaining, t)) = TasksOf(t)

\* What is gone has run, or a later task of its id has.
GoneRan == \A p \in DOMAIN plan \ (remaining \cup ran) : \E q \in OfId(ran, Id(p)) : q > p

EngineInv == EngineTyped /\ Told /\ StuckWaits /\ Counted /\ GoneRan

ranVars == <<plan, results>>

LEMMA PlanIs ==
  ASSUME EngineTyped
  PROVE  /\ DOMAIN plan \in SUBSET Nat /\ IsFiniteSet(DOMAIN plan)
         /\ \A p \in DOMAIN plan : plan[p] \in Tasks /\ Id(p) \in TaskIds /\ plan[p].dependsOn \subseteq TaskIds
         /\ Len(results) \in Nat /\ DOMAIN results = 1 .. Len(results)
         /\ \A r \in DOMAIN results : results[r] \subseteq DOMAIN plan
         /\ ran \subseteq DOMAIN plan /\ completed \subseteq TaskIds
<1>1. Len(plan) \in Nat /\ DOMAIN plan = 1 .. Len(plan)
  BY DEF EngineTyped
<1>2. IsFiniteSet(1 .. Len(plan))
  <2>1. 1 \in Int /\ Len(plan) \in Int
    BY <1>1
  <2> QED BY <2>1, FS_Interval
<1>3. \A p \in DOMAIN plan : plan[p] \in Tasks
  BY DEF EngineTyped
<1>4. \A p \in DOMAIN plan : Id(p) \in TaskIds /\ plan[p].dependsOn \subseteq TaskIds
  BY <1>3 DEF Tasks, Id
<1>5. Len(results) \in Nat /\ DOMAIN results = 1 .. Len(results)
  BY DEF EngineTyped
<1>6. \A r \in DOMAIN results : results[r] \subseteq DOMAIN plan
  BY DEF EngineTyped
<1>7. ran \subseteq DOMAIN plan
  BY <1>6 DEF ran
<1>8. completed \subseteq TaskIds
  BY <1>4, <1>7 DEF completed
<1> QED BY <1>1, <1>2, <1>3, <1>4, <1>5, <1>6, <1>7, <1>8

LEMMA EmptyPlan ==
  /\ <<>> \in Seq(Tasks) /\ DOMAIN <<>> = {}
  /\ \A S : <<>> \in Seq(S) /\ <<>> \in [{} -> S]
OBVIOUS

\* Before the first round there is nothing to tell or to count.
FreshState ==
  plan \in Seq(Tasks) /\ results = <<>> /\ round = {} /\ remaining = DOMAIN plan

LEMMA FreshPlan == FreshState => Told /\ StuckWaits /\ Counted /\ GoneRan
<1> SUFFICES ASSUME FreshState PROVE Told /\ StuckWaits /\ Counted /\ GoneRan
  OBVIOUS
<1> USE DEF FreshState
<1>1. ran = {}
  <2>1. DOMAIN results = {}
    BY EmptyPlan
  <2> QED BY <2>1 DEF ran
<1>2. Told /\ StuckWaits /\ GoneRan
  BY <1>1 DEF Told, StuckWaits, GoneRan
<1>3. ASSUME NEW t \in TaskIds
      PROVE  ResultsOf(t) + Cardinality(OfId(remaining, t)) = TasksOf(t)
  <2>1. {x \in (DOMAIN results) \X (DOMAIN plan) : x[2] \in OfId(results[x[1]], t)} = {}
    <3>1. DOMAIN results = {}
      BY EmptyPlan
    <3>2. (DOMAIN results) \X (DOMAIN plan) = {}
      BY <3>1
    <3> QED BY <3>2, Zenon
  <2>2. ResultsOf(t) = 0
    BY <2>1, FS_EmptySet DEF ResultsOf
  <2>3. TasksOf(t) \in Nat
    <3>1. IsFiniteSet(DOMAIN plan)
      <4>1. Len(plan) \in Nat /\ DOMAIN plan = 1 .. Len(plan)
        OBVIOUS
      <4>2. 1 \in Int /\ Len(plan) \in Int
        BY <4>1
      <4> QED BY <4>1, <4>2, FS_Interval
    <3>2. OfId(DOMAIN plan, t) \subseteq DOMAIN plan
      BY DEF OfId
    <3> QED BY <3>1, <3>2, FS_Subset, FS_CardinalityType DEF TasksOf
  <2>4. Cardinality(OfId(remaining, t)) = TasksOf(t)
    BY DEF TasksOf
  <2> QED BY <2>2, <2>3, <2>4
<1>4. Counted
  BY <1>3 DEF Counted
<1> QED BY <1>2, <1>4

LEMMA EngineBegins == EngineInit => EngineInv
<1> SUFFICES ASSUME EngineInit PROVE EngineInv
  OBVIOUS
<1>1. /\ stage = "idle" /\ plan = <<>> /\ remaining = {} /\ round = {} /\ calling = {}
      /\ results = <<>> /\ informed = <<>> /\ DOMAIN plan = {}
  BY EmptyPlan DEF EngineInit
<1>2. plan \in Seq(Tasks) /\ results \in Seq(SUBSET DOMAIN plan) /\ informed \in [DOMAIN plan -> SUBSET TaskIds]
  BY <1>1, EmptyPlan
<1>3. EngineTyped
  BY <1>1, <1>2 DEF EngineTyped
<1>4. Told /\ StuckWaits /\ Counted /\ GoneRan
  <2>1. FreshState
    BY <1>1, <1>2 DEF FreshState
  <2> QED BY <2>1, FreshPlan
<1> QED BY <1>3, <1>4 DEF EngineInv

LEMMA FallbackIs == Plans \cup Fallback \subseteq Seq(Tasks)
<1> SUFFICES ASSUME NEW s \in BOOLEAN
             PROVE  <<[id |-> CHOOSE t \in TaskIds : TRUE, dependsOn |-> {}, served |-> s]>> \in Seq(Tasks)
  BY PlansAssumption DEF Fallback
<1> DEFINE id == CHOOSE t \in TaskIds : TRUE
           task == [id |-> id, dependsOn |-> {}, served |-> s]
<1>1. id \in TaskIds
  BY PlansAssumption
<1> HIDE DEF id
<1>2. task \in Tasks
  BY <1>1 DEF Tasks
<1> HIDE DEF task
<1>3. <<task>> \in Seq(Tasks)
  BY <1>2
<1> QED BY <1>3 DEF task, id

LEMMA PlanKeeps ==
  ASSUME EngineInv, Plan
  PROVE  EngineInv'
<1>1. PICK p \in Seq(Tasks) : Planned(p) /\ stage = "planning"
  BY FallbackIs DEF Plan
<1>2. /\ stage' = "round" /\ plan' = p /\ remaining' = DOMAIN p /\ informed' = [i \in DOMAIN p |-> {}]
      /\ round' = {} /\ calling' = {} /\ results' = <<>>
  <2>1. plan = <<>> /\ results = <<>> /\ round = {} /\ calling \subseteq DOMAIN plan
    BY <1>1 DEF EngineInv, EngineTyped
  <2>2. calling = {}
    BY <2>1, EmptyPlan
  <2> QED BY <1>1, <2>1, <2>2 DEF Planned
<1>3. results' \in Seq(SUBSET DOMAIN plan') /\ informed' \in [DOMAIN plan' -> SUBSET TaskIds]
  <2>1. results' \in Seq(SUBSET DOMAIN plan')
    BY <1>2, EmptyPlan
  <2>2. {} \in SUBSET TaskIds
    OBVIOUS
  <2> QED BY <1>2, <2>1, <2>2
<1>4. EngineTyped'
  BY <1>2, <1>3 DEF EngineTyped
<1>5. (Told /\ StuckWaits /\ Counted /\ GoneRan)'
  <2>1. FreshState'
    BY <1>2 DEF FreshState
  <2> QED BY <2>1, FreshPlan, PTL
<1> QED BY <1>4, <1>5 DEF EngineInv

\* Steps that neither start tasks nor collect results.
LEMMA QuietKeeps ==
  ASSUME EngineInv, UNCHANGED <<plan, remaining, round, results, informed>>, EngineTyped'
  PROVE  EngineInv'
<1>1. UNCHANGED <<ran, completed>> /\ \A p : Id(p)' = Id(p)
  BY DEF ran, completed, Id
<1>2. Told' /\ StuckWaits' /\ GoneRan'
  BY <1>1 DEF EngineInv, Told, StuckWaits, GoneRan, Stuck, OfId
<1>3. Counted'
  BY <1>1 DEF EngineInv, Counted, ResultsOf, TasksOf, OfId
<1> QED BY <1>2, <1>3 DEF EngineInv

LEMMA QuietSteps ==
  ASSUME EngineInv,
         \/ Orchestrate \/ PlanFails \/ Deadlock \/ Synthesize
         \/ \E p \in DOMAIN plan : TaskEnds(p) \/ TaskThrows(p)
  PROVE  EngineInv'
<1>0. EngineTyped
  BY DEF EngineInv
<1>1. UNCHANGED <<plan, remaining, round, results, informed>> /\ Ready' = Ready
  BY DEF Orchestrate, PlanFails, Deadlock, Synthesize, TaskEnds, TaskThrows, Fail, Ready, completed, ran, Id
<1>2. EngineTyped'
  <2>1. CASE Orchestrate
    BY <1>0, <1>1, <2>1 DEF Orchestrate, EngineTyped
  <2>2. CASE PlanFails
    BY <1>0, <1>1, <2>2 DEF PlanFails, Fail, EngineTyped
  <2>3. CASE Deadlock
    BY <1>0, <1>1, <2>3 DEF Deadlock, EngineTyped
  <2>4. CASE Synthesize
    BY <1>0, <1>1, <2>4 DEF Synthesize, Fail, EngineTyped
  <2>5. ASSUME NEW p \in DOMAIN plan, TaskEnds(p) PROVE EngineTyped'
    BY <1>0, <1>1, <2>5 DEF TaskEnds, EngineTyped
  <2>6. ASSUME NEW p \in DOMAIN plan, TaskThrows(p) PROVE EngineTyped'
    BY <1>0, <1>1, <2>6 DEF TaskThrows, Fail, EngineTyped
  <2> QED BY <2>1, <2>2, <2>3, <2>4, <2>5, <2>6
<1> QED BY <1>1, <1>2, QuietKeeps

LEMMA StartRoundKeeps ==
  ASSUME EngineInv, StartRound
  PROVE  EngineInv'
<1>0. EngineTyped /\ Told /\ StuckWaits /\ Counted /\ GoneRan
  BY DEF EngineInv
<1>1. /\ stage' = "running" /\ round' = Ready /\ calling' \subseteq Ready
      /\ informed' = [p \in DOMAIN plan |-> IF p \in Ready THEN completed ELSE informed[p]]
      /\ UNCHANGED <<plan, remaining, results>>
  BY DEF StartRound
<1>2. Ready \subseteq remaining /\ \A p \in Ready : plan[p].dependsOn \subseteq completed
  BY DEF Ready
<1>3. ran' = ran /\ completed' = completed /\ \A p : Id(p)' = Id(p)
  BY <1>1 DEF ran, completed, Id
<1>4. ran \subseteq DOMAIN plan /\ completed \subseteq TaskIds
  BY <1>0, PlanIs
<1>5. EngineTyped'
  <2>1. informed' \in [DOMAIN plan -> SUBSET TaskIds]
    BY <1>0, <1>1, <1>4 DEF EngineTyped
  <2>2. Ready \subseteq DOMAIN plan
    BY <1>0, <1>2 DEF EngineTyped
  <2> QED BY <1>0, <1>1, <1>2, <2>1, <2>2 DEF EngineTyped
<1>6. Told'
  <2>1. ASSUME NEW p \in Ready PROVE plan[p].dependsOn \subseteq informed'[p]
    <3>1. p \in DOMAIN plan
      BY <1>0, <1>2 DEF EngineTyped
    <3> QED BY <1>1, <1>2, <3>1
  <2>2. ASSUME NEW p \in ran, p \notin Ready PROVE plan[p].dependsOn \subseteq informed'[p]
    BY <1>0, <1>1, <1>4, <2>2 DEF Told
  <2> QED BY <1>1, <1>2, <1>3, <2>1, <2>2 DEF Told
<1>7. StuckWaits' /\ GoneRan'
  BY <1>0, <1>1, <1>3 DEF StuckWaits, GoneRan, Stuck, OfId
<1>8. Counted'
  BY <1>0, <1>1, <1>3 DEF Counted, ResultsOf, TasksOf, OfId
<1> QED BY <1>5, <1>6, <1>7, <1>8 DEF EngineInv

LEMMA OfIdIs ==
  ASSUME EngineTyped, NEW S \in SUBSET DOMAIN plan, NEW t
  PROVE  /\ OfId(S, t) \subseteq S /\ OfId(S, t) \in SUBSET Nat
         /\ IsFiniteSet(OfId(S, t)) /\ Cardinality(OfId(S, t)) \in Nat
<1>1. OfId(S, t) \subseteq S
  BY DEF OfId
<1>2. DOMAIN plan \in SUBSET Nat /\ IsFiniteSet(DOMAIN plan)
  BY PlanIs
<1>3. OfId(S, t) \subseteq DOMAIN plan
  BY <1>1
<1>4. IsFiniteSet(OfId(S, t))
  BY <1>2, <1>3, FS_Subset
<1> QED BY <1>1, <1>2, <1>3, <1>4, FS_CardinalityType

\* Of each id, as many tasks go as have run.
LEMMA RemovedCounts ==
  ASSUME EngineTyped, NEW t
  PROVE  Cardinality(OfId(Removed, t)) = Cardinality(OfId(round, t))
<1> DEFINE S == OfId(remaining, t)
           k == Cardinality(OfId(round, t))
<1>1. remaining \in SUBSET DOMAIN plan /\ round \in SUBSET DOMAIN plan /\ round \subseteq remaining
  BY DEF EngineTyped
<1>2. /\ S \in SUBSET Nat /\ IsFiniteSet(S) /\ Cardinality(S) \in Nat
      /\ k \in Nat
  BY <1>1, OfIdIs
<1>3. OfId(round, t) \subseteq S
  BY <1>1 DEF OfId
<1>4. k <= Cardinality(S)
  BY <1>2, <1>3, FS_Subset
<1>5. OfId(Removed, t) = First(S, k)
  BY DEF OfId, Removed, First, Below
<1> HIDE DEF S, k
<1>6. k \in 0 .. Cardinality(S)
  BY <1>2, <1>4
<1>7. Cardinality(First(S, k)) = k
  BY <1>2, <1>6, FirstCounts
<1> QED BY <1>5, <1>7 DEF k

LEMMA ColumnCounts ==
  ASSUME NEW n, NEW S, IsFiniteSet(S)
  PROVE  IsFiniteSet({n} \X S) /\ Cardinality({n} \X S) = Cardinality(S)
<1>1. IsFiniteSet({n}) /\ Cardinality({n}) = 1
  BY FS_Singleton
<1>2. /\ IsFiniteSet({n} \X S)
      /\ Cardinality({n} \X S) = Cardinality({n}) * Cardinality(S)
  BY <1>1, FS_Product
<1>3. Cardinality(S) \in Nat
  BY FS_CardinalityType
<1>4. Cardinality({n} \X S) = 1 * Cardinality(S)
  BY <1>1, <1>2
<1>5. \A c \in Nat : 1 * c = c
  OBVIOUS
<1> QED BY <1>2, <1>3, <1>4, <1>5

LEMMA ResultsGrow ==
  ASSUME EngineTyped, plan' = plan, results' = Append(results, round), NEW t
  PROVE  /\ ResultsOf(t)' = ResultsOf(t) + Cardinality(OfId(round, t))
         /\ ResultsOf(t) \in Nat
<1> DEFINE n == Len(results)
           old == {x \in (DOMAIN results) \X (DOMAIN plan) : x[2] \in OfId(results[x[1]], t)}
           new == {n + 1} \X OfId(round, t)
           all == {x \in (DOMAIN results') \X (DOMAIN plan) : x[2] \in OfId(results'[x[1]], t)}
<1>1. /\ n \in Nat /\ DOMAIN results = 1 .. n /\ results \in Seq(SUBSET DOMAIN plan)
      /\ round \in SUBSET DOMAIN plan /\ IsFiniteSet(DOMAIN plan)
  BY PlanIs DEF EngineTyped
<1>2. /\ DOMAIN results' = 1 .. n + 1 /\ results'[n + 1] = round
      /\ \A r \in 1 .. n : results'[r] = results[r]
  BY <1>1
<1>3. IsFiniteSet(OfId(round, t)) /\ OfId(round, t) \subseteq DOMAIN plan
  BY <1>1, OfIdIs
<1>4. IsFiniteSet(old)
  <2>1. old \subseteq (1 .. n) \X (DOMAIN plan)
    BY <1>1
  <2>2. IsFiniteSet(1 .. n)
    <3>1. 1 \in Int /\ n \in Int
      BY <1>1
    <3> QED BY <3>1, FS_Interval
  <2>3. IsFiniteSet((1 .. n) \X (DOMAIN plan))
    BY <1>1, <2>2, FS_Product
  <2> HIDE DEF old
  <2> QED BY <2>1, <2>3, FS_Subset
<1>5. IsFiniteSet(new) /\ Cardinality(new) = Cardinality(OfId(round, t))
  BY <1>3, ColumnCounts
<1>6. all = old \cup new /\ old \cap new = {}
  <2>0. n + 1 \notin 1 .. n /\ 1 .. n + 1 = (1 .. n) \cup {n + 1}
    BY <1>1
  <2> HIDE DEF n
  <2>1. all \subseteq old \cup new
    <3> SUFFICES ASSUME NEW r \in 1 .. n + 1, NEW p \in DOMAIN plan, p \in OfId(results'[r], t)
                 PROVE  <<r, p>> \in old \cup new
      BY <1>2
    <3>1. CASE r = n + 1
      BY <1>2, <3>1
    <3>2. CASE r \in 1 .. n
      BY <1>1, <1>2, <3>2
    <3> QED BY <2>0, <3>1, <3>2
  <2>2. old \subseteq all
    <3> SUFFICES ASSUME NEW r \in 1 .. n, NEW p \in DOMAIN plan, p \in OfId(results[r], t)
                 PROVE  <<r, p>> \in all
      BY <1>1
    <3> QED BY <1>2, <2>0
  <2>3. new \subseteq all
    BY <1>2, <1>3, <2>0
  <2>4. old \cap new = {}
    BY <1>1, <2>0
  <2> QED BY <2>1, <2>2, <2>3, <2>4
<1>7. Cardinality(old) \in Nat /\ Cardinality(new) \in Nat
  BY <1>4, <1>5, FS_CardinalityType
<1>8. ResultsOf(t) = Cardinality(old) /\ ResultsOf(t)' = Cardinality(all)
  BY DEF ResultsOf, OfId, Id
<1> HIDE DEF old, new, all
<1>9. Cardinality(all) = Cardinality(old) + Cardinality(new) - Cardinality(old \cap new)
  BY <1>4, <1>5, <1>6, FS_Union
<1>10. Cardinality(old \cap new) = 0
  BY <1>6, FS_EmptySet
<1>11. Cardinality(all) = Cardinality(old) + Cardinality(new)
  BY <1>7, <1>9, <1>10
<1> QED BY <1>5, <1>7, <1>8, <1>11

\* A task that goes without having run gives its place to a later one of its id.
LEMMA RemovedEarlier ==
  ASSUME EngineTyped, NEW p \in Removed, p \notin round
  PROVE  \E q \in OfId(round, Id(p)) : q > p
<1> DEFINE S == OfId(remaining, Id(p))
           low == {q \in S : q < p}
           R == OfId(round, Id(p))
<1>1. remaining \in SUBSET DOMAIN plan /\ round \subseteq remaining /\ p \in remaining /\ DOMAIN plan \in SUBSET Nat
  BY PlanIs DEF EngineTyped, Removed
<1>2. Cardinality(low) < Cardinality(R)
  BY DEF Removed
<1>3. IsFiniteSet(S) /\ S \in SUBSET Nat /\ R \subseteq S /\ p \notin R /\ p \in Nat
  BY <1>1, OfIdIs DEF OfId
<1> SUFFICES ASSUME \A q \in R : ~(q > p) PROVE FALSE
  OBVIOUS
<1> HIDE DEF S, R
<1>4. R \subseteq low
  BY <1>3
<1>5. IsFiniteSet(low)
  <2>1. low \subseteq S
    OBVIOUS
  <2> QED BY <1>3, <2>1, FS_Subset
<1> HIDE DEF low
<1>6. IsFiniteSet(R) /\ Cardinality(R) <= Cardinality(low)
  BY <1>4, <1>5, FS_Subset
<1>7. Cardinality(R) \in Nat /\ Cardinality(low) \in Nat
  BY <1>5, <1>6, FS_CardinalityType
<1> QED BY <1>2, <1>6, <1>7

LEMMA CollectKeeps ==
  ASSUME EngineInv, Collect
  PROVE  EngineInv'
<1>0. EngineTyped /\ Told /\ StuckWaits /\ Counted /\ GoneRan
  BY DEF EngineInv
<1>1. /\ stage' = "round" /\ round' = {} /\ remaining' = remaining \ Removed
      /\ results' = Append(results, round) /\ UNCHANGED <<plan, calling, informed>>
  BY DEF Collect
<1>2. Removed \subseteq remaining /\ round \subseteq DOMAIN plan
  BY <1>0 DEF Removed, EngineTyped
<1>3. ran' = ran \cup round
  <2>1. Len(results) \in Nat /\ DOMAIN results = 1 .. Len(results)
    BY <1>0, PlanIs
  <2>2. DOMAIN results' = 1 .. Len(results) + 1
    BY <1>0, <1>1, <2>1 DEF EngineTyped
  <2>3. results'[Len(results) + 1] = round
    BY <1>0, <1>1, <2>1 DEF EngineTyped
  <2>4. \A r \in 1 .. Len(results) : results'[r] = results[r]
    BY <1>0, <1>1, <2>1 DEF EngineTyped
  <2>5. \A r \in 1 .. Len(results) + 1 : r \in 1 .. Len(results) \/ r = Len(results) + 1
    BY <2>1
  <2>6. Len(results) + 1 \in 1 .. Len(results) + 1 /\ \A r \in 1 .. Len(results) : r \in 1 .. Len(results) + 1
    BY <2>1
  <2>7. ran = UNION {results[r] : r \in 1 .. Len(results)}
    BY <2>1 DEF ran
  <2>8. ran' = UNION {results'[r] : r \in 1 .. Len(results) + 1}
    BY <2>2 DEF ran
  <2> HIDE <1>1
  <2>9. ran' \subseteq ran \cup round
    BY <2>3, <2>4, <2>5, <2>7, <2>8
  <2>10. ran \cup round \subseteq ran'
    BY <2>3, <2>4, <2>6, <2>7, <2>8
  <2> QED BY <2>9, <2>10
<1>4. EngineTyped'
  <2>1. results' \in Seq(SUBSET DOMAIN plan)
    BY <1>0, <1>1, <1>2 DEF EngineTyped
  <2> QED BY <1>0, <1>1, <1>2, <2>1 DEF EngineTyped
<1>5. Told'
  BY <1>0, <1>1, <1>3 DEF Told
<1>6. StuckWaits'
  <2> SUFFICES ASSUME NEW B \in SUBSET DOMAIN plan, Stuck(B), NEW p \in B, p \in ran'
               PROVE  FALSE
    <3>1. \A B \in SUBSET DOMAIN plan : Stuck(B)' <=> Stuck(B)
      BY <1>1 DEF Stuck, Id
    <3> QED BY <1>1, <3>1 DEF StuckWaits
  <2>1. B \cap ran = {}
    BY <1>0 DEF StuckWaits
  <2>2. p \in round
    BY <1>3, <2>1
  <2>3. PICK d \in plan[p].dependsOn : \A q \in DOMAIN plan : Id(q) = d => q \in B
    BY DEF Stuck
  <2>4. d \in completed
    BY <1>0, <2>2 DEF Told
  <2>5. PICK q \in ran : Id(q) = d
    BY <2>4 DEF completed
  <2>6. q \in DOMAIN plan
    BY <1>0, <2>5, PlanIs
  <2> QED BY <2>1, <2>3, <2>5, <2>6
<1>7. GoneRan'
  <2> SUFFICES ASSUME NEW p \in DOMAIN plan, p \notin remaining', p \notin ran'
               PROVE  \E q \in ran' : Id(q) = Id(p) /\ q > p
    BY <1>1 DEF GoneRan, OfId, Id
  <2>1. CASE p \notin remaining
    <3>1. PICK q \in OfId(ran, Id(p)) : q > p
      BY <1>0, <1>3, <2>1 DEF GoneRan
    <3> QED BY <1>3, <3>1 DEF OfId
  <2>2. CASE p \in remaining
    <3>1. p \in Removed /\ p \notin round
      BY <1>1, <1>3, <2>2
    <3>2. PICK q \in OfId(round, Id(p)) : q > p
      BY <1>0, <3>1, RemovedEarlier
    <3> QED BY <1>3, <3>2 DEF OfId
  <2> QED BY <2>1, <2>2
<1>8. Counted'
  <2> SUFFICES ASSUME NEW t \in TaskIds
               PROVE  ResultsOf(t)' + Cardinality(OfId(remaining, t)') = TasksOf(t)'
    BY DEF Counted
  <2>1. ResultsOf(t)' = ResultsOf(t) + Cardinality(OfId(round, t)) /\ ResultsOf(t) \in Nat
    BY <1>0, <1>1, ResultsGrow
  <2>2. TasksOf(t)' = TasksOf(t) /\ OfId(remaining, t)' = OfId(remaining, t) \ OfId(Removed, t)
    BY <1>1 DEF TasksOf, OfId, Id
  <2>3. OfId(Removed, t) \subseteq OfId(remaining, t)
    BY <1>2 DEF OfId
  <2>4. IsFiniteSet(OfId(remaining, t)) /\ Cardinality(OfId(remaining, t)) \in Nat
    BY <1>0, OfIdIs DEF EngineTyped
  <2> DEFINE A == OfId(remaining, t)
             B == OfId(Removed, t)
  <2>5. Cardinality(B) = Cardinality(OfId(round, t)) /\ Cardinality(B) \in Nat
    <3>1. Cardinality(B) = Cardinality(OfId(round, t))
      BY <1>0, RemovedCounts
    <3>2. IsFiniteSet(B)
      BY <2>3, <2>4, FS_Subset
    <3> QED BY <3>1, <3>2, FS_CardinalityType
  <2>6. Cardinality(A \ B) = Cardinality(A) - Cardinality(B)
    <3>1. Cardinality(A \ B) = Cardinality(A) - Cardinality(A \cap B)
      BY <2>4, FS_Difference
    <3>2. A \cap B = B
      BY <2>3
    <3> QED BY <3>1, <3>2
  <2>7. ResultsOf(t) + Cardinality(A) = TasksOf(t)
    BY <1>0 DEF Counted
  <2>8. OfId(remaining, t)' = A \ B
    BY <2>2
  <2> HIDE DEF A, B
  <2>9. (ResultsOf(t) + Cardinality(B)) + (Cardinality(A) - Cardinality(B)) = TasksOf(t)
    <3>1. Cardinality(A) \in Nat
      BY <2>4 DEF A
    <3> QED BY <2>1, <2>5, <2>7, <3>1
  <2> QED BY <2>1, <2>2, <2>5, <2>6, <2>8, <2>9
<1> QED BY <1>4, <1>5, <1>6, <1>7, <1>8 DEF EngineInv

LEMMA EngineKeeps ==
  ASSUME EngineInv, EngineNext
  PROVE  EngineInv'
BY QuietSteps, PlanKeeps, StartRoundKeeps, CollectKeeps DEF EngineNext, EngineProgress

LEMMA EngineStays == EngineInv /\ UNCHANGED engineVars => EngineInv'
<1> SUFFICES ASSUME EngineInv, UNCHANGED engineVars PROVE EngineInv'
  OBVIOUS
<1>1. UNCHANGED <<plan, remaining, round, results, informed>> /\ Ready' = Ready
  BY DEF engineVars, Ready, completed, ran, Id
<1>2. EngineTyped'
  BY <1>1 DEF EngineInv, EngineTyped, engineVars
<1> QED BY <1>1, <1>2, QuietKeeps

LEMMA EngineHolds ==
  ASSUME EngineInv
  PROVE  OrchestrationSound
<1>0. EngineTyped /\ Told /\ StuckWaits /\ Counted /\ GoneRan
  BY DEF EngineInv
<1>1. ran \subseteq DOMAIN plan /\ remaining \subseteq DOMAIN plan
  BY <1>0, PlanIs DEF EngineTyped
<1>2. Blocked \cap ran = {}
  BY <1>0 DEF Blocked, StuckWaits
<1>3. Blocked \subseteq DOMAIN plan
  BY DEF Blocked
<1>8. ASSUME UniqueIds PROVE remaining \cup ran = DOMAIN plan
  <2> SUFFICES ASSUME NEW p \in DOMAIN plan, p \notin remaining \cup ran PROVE FALSE
    BY <1>1
  <2>1. PICK q \in OfId(ran, Id(p)) : q > p
    BY <1>0 DEF GoneRan
  <2>2. q = p /\ p \in Nat
    BY <1>0, <1>1, <1>8, <2>1, PlanIs DEF OfId, UniqueIds
  <2> QED BY <2>1, <2>2
<1>4. ASSUME UniqueIds, stage = "deadlock" PROVE remaining = Blocked /\ Blocked # {}
  <2>1. remaining # {} /\ Ready = {} /\ remaining \cup ran = DOMAIN plan
    BY <1>0, <1>4, <1>8 DEF EngineTyped
  <2>2. Stuck(remaining)
    <3> SUFFICES ASSUME NEW p \in remaining
                 PROVE  \E d \in plan[p].dependsOn : \A q \in DOMAIN plan : Id(q) = d => q \in remaining
      BY DEF Stuck
    <3>1. PICK d \in plan[p].dependsOn : d \notin completed
      BY <2>1 DEF Ready
    <3>2. \A q \in DOMAIN plan : Id(q) = d => q \in remaining
      BY <2>1, <3>1 DEF completed
    <3> QED BY <3>2
  <2>3. remaining \subseteq Blocked
    BY <1>1, <2>2 DEF Blocked
  <2> QED BY <1>2, <1>3, <2>1, <2>3
<1>5. ASSUME UniqueIds, stage = "done" PROVE Blocked = {}
  BY <1>0, <1>2, <1>3, <1>5, <1>8 DEF EngineTyped
<1>6. ASSUME NEW t \in TaskIds
      PROVE  ResultsOf(t) <= TasksOf(t) /\ (stage = "done" => ResultsOf(t) = TasksOf(t))
  <2>1. Cardinality(OfId(remaining, t)) \in Nat /\ OfId(remaining, t) \subseteq remaining
    BY <1>0, OfIdIs DEF EngineTyped
  <2>2. ResultsOf(t) + Cardinality(OfId(remaining, t)) = TasksOf(t)
    BY <1>0 DEF Counted
  <2>3. ResultsOf(t) \in Nat
    <3> DEFINE old == {x \in (DOMAIN results) \X (DOMAIN plan) : x[2] \in OfId(results[x[1]], t)}
    <3>1. Len(results) \in Nat /\ DOMAIN results = 1 .. Len(results) /\ IsFiniteSet(DOMAIN plan)
      BY <1>0, PlanIs
    <3>2. IsFiniteSet(DOMAIN results)
      <4>1. 1 \in Int /\ Len(results) \in Int
        BY <3>1
      <4> QED BY <3>1, <4>1, FS_Interval
    <3>3. IsFiniteSet((DOMAIN results) \X (DOMAIN plan))
      BY <3>1, <3>2, FS_Product
    <3>4. old \subseteq (DOMAIN results) \X (DOMAIN plan)
      OBVIOUS
    <3>5. ResultsOf(t) = Cardinality(old)
      BY DEF ResultsOf
    <3> HIDE DEF old
    <3> QED BY <3>3, <3>4, <3>5, FS_Subset, FS_CardinalityType
  <2>4. ResultsOf(t) <= TasksOf(t)
    BY <2>1, <2>2, <2>3
  <2>5. ASSUME stage = "done" PROVE ResultsOf(t) = TasksOf(t)
    <3>1. OfId(remaining, t) = {}
      BY <1>0, <2>1, <2>5 DEF EngineTyped
    <3>2. Cardinality(OfId(remaining, t)) = 0
      BY <3>1, FS_EmptySet
    <3> QED BY <2>2, <2>3, <3>2
  <2> QED BY <2>4, <2>5
<1>7. \A p \in ran : plan[p].dependsOn \subseteq informed[p]
  BY <1>0 DEF Told
<1> QED BY <1>0, <1>4, <1>5, <1>6, <1>7 DEF OrchestrationSound, GoneRan

-----------------------------------------------------------------------------
(* The council. *)

All == ToSet(Members)
Arguments == {"answer", "", "failure"}
Sayings == [member : All, argument : Arguments, tokens : Nat, heard : SUBSET (Nat \X All)]

\* What members of a round say: one after the other, having heard the rounds before.
InTurn(speeches, r) ==
  \A i \in DOMAIN speeches :
    i \in DOMAIN Members /\ speeches[i].member = Members[i] /\ speeches[i].heard = (1 .. (r - 1)) \X All

CouncilInv ==
  /\ sitting \in {"closed", "debate", "verdict", "over"} /\ rounds \in Nat /\ spent \in Nat
  /\ said \in Seq(Seq(Sayings)) /\ turn \in Seq(Sayings)
  /\ \A r \in DOMAIN said : InTurn(said[r], r) /\ DOMAIN said[r] = DOMAIN Members
  /\ InTurn(turn, Len(said) + 1) /\ Len(turn) < Len(Members)
  /\ prior = (1 .. Len(said)) \X All
  /\ sitting = "closed" => said = <<>> /\ turn = <<>>
  /\ sitting \in {"verdict", "over"} => Len(said) = rounds

LEMMA MembersAre ==
  /\ Len(Members) \in Nat /\ Len(Members) >= 1 /\ DOMAIN Members = 1 .. Len(Members)
  /\ \A i \in DOMAIN Members : Members[i] \in All
  /\ \A m \in All : \E i \in DOMAIN Members : Members[i] = m
<1>1. Members \in Seq(All) /\ Members # <<>>
  BY CouncilAssumption DEF All
<1>2. Len(Members) \in Nat /\ Len(Members) >= 1 /\ DOMAIN Members = 1 .. Len(Members)
  BY <1>1
<1>3. \A m \in All : \E i \in DOMAIN Members : Members[i] = m
  BY DEF All, ToSet
<1> QED BY <1>1, <1>2, <1>3

LEMMA CouncilBegins == CouncilInit => CouncilInv
<1> SUFFICES ASSUME CouncilInit PROVE CouncilInv
  OBVIOUS
<1>1. /\ sitting = "closed" /\ rounds = 0 /\ said = <<>> /\ turn = <<>> /\ prior = {} /\ spent = 0
  BY DEF CouncilInit
<1>2. Len(said) = 0 /\ Len(turn) = 0 /\ DOMAIN said = {} /\ DOMAIN turn = {}
  BY <1>1
<1>3. said \in Seq(Seq(Sayings)) /\ turn \in Seq(Sayings)
  BY <1>1
<1>4. (1 .. 0) \X All = {}
  OBVIOUS
<1>5. 0 < Len(Members) /\ 0 \in Nat
  BY MembersAre
<1> QED BY <1>1, <1>2, <1>3, <1>4, <1>5 DEF CouncilInv, InTurn

\* A speech after those of the turn.
LEMMA SpeechFollows ==
  ASSUME CouncilInv, sitting = "debate", NEW argument \in Arguments, NEW n \in Nat
  PROVE  LET spoken == Append(turn, Speech(Members[Len(turn) + 1], argument, n, Heard))
         IN /\ spoken \in Seq(Sayings) /\ Len(spoken) = Len(turn) + 1
            /\ DOMAIN spoken = 1 .. Len(turn) + 1
            /\ InTurn(spoken, Len(said) + 1)
<1> DEFINE m == Members[Len(turn) + 1]
           speech == Speech(m, argument, n, Heard)
           spoken == Append(turn, speech)
<1>1. Len(said) \in Nat /\ Len(turn) \in Nat /\ turn \in Seq(Sayings) /\ Len(turn) < Len(Members)
      /\ DOMAIN turn = 1 .. Len(turn)
  BY DEF CouncilInv
<1>2. Len(turn) + 1 \in DOMAIN Members /\ m \in All
  <2>1. Len(turn) + 1 \in 1 .. Len(Members)
    BY <1>1, MembersAre
  <2> QED BY <2>1, MembersAre
<1> HIDE DEF m
<1>3. Heard = (1 .. Len(said)) \X All
  <2>1. CASE said = <<>>
    <3>1. Len(said) = 0
      BY <2>1
    <3>2. 1 .. Len(said) = {}
      BY <3>1
    <3> QED BY <2>1, <3>2 DEF Heard
  <2>2. CASE said # <<>>
    BY <2>2 DEF Heard, CouncilInv
  <2> QED BY <2>1, <2>2
<1>4. speech \in Sayings /\ speech.member = m /\ speech.heard = (1 .. Len(said)) \X All
  <2>1. (1 .. Len(said)) \X All \in SUBSET (Nat \X All)
    BY <1>1
  <2> QED BY <1>2, <1>3, <2>1 DEF Speech, Sayings
<1> HIDE DEF speech
<1>5. spoken \in Seq(Sayings) /\ Len(spoken) = Len(turn) + 1 /\ DOMAIN spoken = 1 .. Len(turn) + 1
  BY <1>1, <1>4
<1>6. spoken[Len(turn) + 1] = speech /\ \A i \in 1 .. Len(turn) : spoken[i] = turn[i]
  BY <1>1, <1>4
<1> HIDE DEF spoken
<1>7. InTurn(spoken, Len(said) + 1)
  <2> SUFFICES ASSUME NEW i \in 1 .. Len(turn) + 1
               PROVE  i \in DOMAIN Members /\ spoken[i].member = Members[i]
                      /\ spoken[i].heard = (1 .. ((Len(said) + 1) - 1)) \X All
    BY <1>5 DEF InTurn
  <2>1. (Len(said) + 1) - 1 = Len(said)
    BY <1>1
  <2>2. CASE i = Len(turn) + 1
    BY <1>2, <1>4, <1>6, <2>1, <2>2 DEF m
  <2>3. CASE i # Len(turn) + 1
    <3>1. i \in 1 .. Len(turn)
      BY <1>1, <2>3
    <3> QED BY <1>1, <1>6, <3>1 DEF CouncilInv, InTurn
  <2> QED BY <2>2, <2>3
<1> QED BY <1>5, <1>7 DEF spoken, speech, m

\* The rounds are quoted in full.
LEMMA QuotedIs ==
  ASSUME NEW finished \in Seq(Seq(Sayings)),
         \A r \in DOMAIN finished : /\ DOMAIN finished[r] = DOMAIN Members
                                    /\ \A i \in DOMAIN Members : finished[r][i].member = Members[i]
  PROVE  Quoted(finished) = (1 .. Len(finished)) \X All
<1>1. DOMAIN finished = 1 .. Len(finished)
  OBVIOUS
<1>2. ASSUME NEW r \in DOMAIN finished
      PROVE  {<<r, finished[r][i].member>> : i \in DOMAIN finished[r]} = {r} \X All
  <2>1. \A i \in DOMAIN finished[r] : finished[r][i].member \in All
    BY MembersAre
  <2>2. \A m \in All : \E i \in DOMAIN finished[r] : finished[r][i].member = m
    BY MembersAre
  <2> QED BY <2>1, <2>2
<1>3. Quoted(finished) = UNION {{r} \X All : r \in DOMAIN finished}
  BY <1>2 DEF Quoted
<1> QED BY <1>1, <1>3

LEMMA SpeakKeeps ==
  ASSUME CouncilInv, NEW argument \in Arguments, NEW n \in Nat, Speak(argument, n)
  PROVE  CouncilInv'
<1> DEFINE spoken == Append(turn, Speech(Members[Len(turn) + 1], argument, n, Heard))
           finished == Append(said, spoken)
<1>1. /\ sitting = "debate" /\ spent' = spent + n /\ rounds' = rounds
      /\ IF Len(spoken) < Len(Members)
         THEN turn' = spoken /\ UNCHANGED <<sitting, said, prior>>
         ELSE /\ turn' = <<>> /\ said' = finished /\ prior' = Quoted(finished)
              /\ sitting' = IF Len(said) + 1 = rounds THEN "verdict" ELSE "debate"
  BY DEF Speak
<1>2. /\ spoken \in Seq(Sayings) /\ Len(spoken) = Len(turn) + 1 /\ DOMAIN spoken = 1 .. Len(turn) + 1
      /\ InTurn(spoken, Len(said) + 1)
  BY <1>1, SpeechFollows
<1> HIDE DEF spoken
<1>3. /\ rounds' \in Nat /\ spent' \in Nat /\ Len(said) \in Nat /\ Len(turn) \in Nat /\ Len(turn) < Len(Members)
      /\ said \in Seq(Seq(Sayings)) /\ DOMAIN said = 1 .. Len(said)
  BY <1>1 DEF CouncilInv
<1>4. CASE Len(spoken) < Len(Members)
  BY <1>1, <1>2, <1>3, <1>4 DEF CouncilInv
<1>5. CASE ~(Len(spoken) < Len(Members))
  <2>1. DOMAIN spoken = DOMAIN Members
    <3>1. Len(turn) + 1 = Len(Members)
      <4>1. ~(Len(turn) + 1 < Len(Members)) /\ Len(Members) \in Nat
        BY <1>2, <1>5, MembersAre
      <4> QED BY <1>3, <4>1
    <3> QED BY <1>2, <3>1, MembersAre
  <2>2. /\ finished \in Seq(Seq(Sayings)) /\ Len(finished) = Len(said) + 1
        /\ DOMAIN finished = 1 .. Len(said) + 1 /\ finished[Len(said) + 1] = spoken
        /\ \A r \in 1 .. Len(said) : finished[r] = said[r]
    BY <1>2, <1>3
  <2> HIDE DEF finished
  <2>3. ASSUME NEW r \in DOMAIN finished
        PROVE  InTurn(finished[r], r) /\ DOMAIN finished[r] = DOMAIN Members
    <3>1. CASE r = Len(said) + 1
      BY <1>2, <2>1, <2>2, <3>1, SMTT(60)
    <3>2. CASE r # Len(said) + 1
      <4>1. r \in 1 .. Len(said)
        BY <1>3, <2>2, <3>2
      <4> QED BY <1>3, <2>2, <4>1 DEF CouncilInv
    <3> QED BY <3>1, <3>2
  <2>4. Quoted(finished) = (1 .. Len(finished)) \X All
    <3>1. \A r \in DOMAIN finished : /\ DOMAIN finished[r] = DOMAIN Members
                                     /\ \A i \in DOMAIN Members : finished[r][i].member = Members[i]
      BY <2>3 DEF InTurn
    <3> QED BY <2>2, <3>1, QuotedIs
  <2>5. said' = finished /\ prior' = (1 .. Len(finished)) \X All /\ turn' = <<>>
        /\ sitting' = IF Len(said) + 1 = rounds THEN "verdict" ELSE "debate"
    BY <1>1, <1>5, <2>4
  <2>6. turn' \in Seq(Sayings) /\ Len(turn') = 0 /\ DOMAIN turn' = {} /\ 0 < Len(Members)
    BY <2>5, MembersAre
  <2> QED BY <1>1, <1>3, <2>2, <2>3, <2>5, <2>6 DEF CouncilInv, InTurn
<1> QED BY <1>4, <1>5

LEMMA CouncilKeeps ==
  ASSUME CouncilInv, CouncilNext
  PROVE  CouncilInv'
<1>1. ASSUME NEW n \in 0 .. MaxRounds, Debate(n) PROVE CouncilInv'
  <2>1. n \in Nat
    OBVIOUS
  <2>2. /\ sitting = "closed" /\ rounds' = n /\ UNCHANGED <<said, turn, prior, spent>>
        /\ sitting' = IF n = 0 THEN "verdict" ELSE "debate"
    BY <1>1 DEF Debate
  <2>3. Len(said) = 0
    BY <2>2 DEF CouncilInv
  <2> QED BY <2>1, <2>2, <2>3 DEF CouncilInv
<1>2. ASSUME NEW n \in 0 .. SpeechTokens, Speak("answer", n) PROVE CouncilInv'
  <2>1. n \in Nat
    OBVIOUS
  <2>2. "answer" \in Arguments
    BY DEF Arguments
  <2> QED BY <1>2, <2>1, <2>2, SpeakKeeps
<1>3. CASE Silent \/ CannotRespond
  BY <1>3, SpeakKeeps DEF Silent, CannotRespond, Arguments
<1>4. ASSUME NEW n \in 0 .. SpeechTokens, Verdict(n) PROVE CouncilInv'
  <2>1. sitting = "verdict" /\ sitting' = "over" /\ spent' = spent + n
        /\ UNCHANGED <<rounds, said, turn, prior>>
    BY <1>4 DEF Verdict
  <2> QED BY <2>1 DEF CouncilInv
<1> QED BY <1>1, <1>2, <1>3, <1>4 DEF CouncilNext, CouncilProgress, Answers

LEMMA CouncilStays == CouncilInv /\ UNCHANGED councilVars => CouncilInv'
BY DEF CouncilInv, councilVars

LEMMA CouncilHolds ==
  ASSUME CouncilInv
  PROVE  EverybodyHeard
<1>1. \A r \in DOMAIN said : \A i \in DOMAIN said[r] :
        said[r][i].heard = (1 .. (r - 1)) \X All
  BY SMTT(60) DEF CouncilInv, InTurn
<1>2. \A i \in DOMAIN turn : turn[i].heard = (1 .. Len(said)) \X All
  <2>1. Len(said) \in Nat
    BY DEF CouncilInv
  <2>2. (Len(said) + 1) - 1 = Len(said)
    BY <2>1
  <2> QED BY <2>2 DEF CouncilInv, InTurn
<1>3. sitting \in {"verdict", "over"} => prior = (1 .. rounds) \X All
  BY DEF CouncilInv
<1> QED BY <1>1, <1>2, <1>3 DEF EverybodyHeard, All

-----------------------------------------------------------------------------
(* Sequences. *)

\* A sequence with one element more, as a set too.
LEMMA Grows ==
  ASSUME NEW S, NEW s \in Seq(S), NEW e \in S
  PROVE  /\ Append(s, e) \in Seq(S) /\ Append(s, e) # <<>>
         /\ Len(s) \in Nat /\ Len(Append(s, e)) = Len(s) + 1
         /\ DOMAIN s = 1 .. Len(s) /\ DOMAIN Append(s, e) = 1 .. Len(s) + 1
         /\ Append(s, e)[Len(s) + 1] = e
         /\ \A i \in 1 .. Len(s) : Append(s, e)[i] = s[i]
         /\ ToSet(Append(s, e)) = ToSet(s) \cup {e}
<1> DEFINE t == Append(s, e)
<1>1. /\ t \in Seq(S) /\ t # <<>> /\ Len(s) \in Nat /\ Len(t) = Len(s) + 1
      /\ DOMAIN s = 1 .. Len(s) /\ DOMAIN t = 1 .. Len(s) + 1
      /\ t[Len(s) + 1] = e /\ \A i \in 1 .. Len(s) : t[i] = s[i]
  OBVIOUS
<1>2. /\ Len(s) + 1 \in 1 .. Len(s) + 1 /\ \A i \in 1 .. Len(s) : i \in 1 .. Len(s) + 1
      /\ \A i \in 1 .. Len(s) + 1 : i \in 1 .. Len(s) \/ i = Len(s) + 1
  BY <1>1
<1> HIDE DEF t
<1>3. ToSet(t) = ToSet(s) \cup {e}
  <2>1. ToSet(t) \subseteq ToSet(s) \cup {e}
    BY <1>1, <1>2 DEF ToSet
  <2>2. ToSet(s) \cup {e} \subseteq ToSet(t)
    BY <1>1, <1>2 DEF ToSet
  <2> QED BY <2>1, <2>2
<1> QED BY <1>1, <1>3 DEF t

LEMMA GrowsInjective ==
  ASSUME NEW S, NEW s \in Seq(S), NEW e \in S, IsInjective(s), e \notin ToSet(s)
  PROVE  IsInjective(Append(s, e))
<1> DEFINE t == Append(s, e)
<1>1. /\ Len(s) \in Nat /\ DOMAIN s = 1 .. Len(s) /\ DOMAIN t = 1 .. Len(s) + 1
      /\ t[Len(s) + 1] = e /\ \A i \in 1 .. Len(s) : t[i] = s[i]
  BY Grows
<1> HIDE DEF t
<1>2. \A i \in 1 .. Len(s) + 1 : i \in 1 .. Len(s) \/ i = Len(s) + 1
  BY <1>1
<1>3. \A i \in 1 .. Len(s) : s[i] # e
  BY <1>1 DEF ToSet
<1>4. ASSUME NEW i \in 1 .. Len(s) + 1, NEW j \in 1 .. Len(s) + 1, t[i] = t[j] PROVE i = j
  <2>1. CASE i \in 1 .. Len(s) /\ j \in 1 .. Len(s)
    BY <1>1, <1>4, <2>1 DEF IsInjective
  <2>2. CASE i = Len(s) + 1 /\ j \in 1 .. Len(s)
    BY <1>1, <1>3, <1>4, <2>2
  <2>3. CASE j = Len(s) + 1 /\ i \in 1 .. Len(s)
    BY <1>1, <1>3, <1>4, <2>3
  <2> QED BY <1>2, <2>1, <2>2, <2>3
<1> QED BY <1>1, <1>4 DEF IsInjective, t

-----------------------------------------------------------------------------
(* The session of the command line. *)

Utterances == [role : {"user", "assistant"}, line : Nat]
LineStates == {"clearing", "recording", "recorded", "asking", "saving", "saved", "over"}

CliTyped ==
  /\ flags \in [oneshot : BOOLEAN, approval : {"allow", "ask", "deny"},
                resume : {"no", "known", "unknown"}, wants : Wishes]
  /\ messages \in Seq(Utterances) /\ transcript \in Seq(Utterances)
  /\ lines \in Seq(LineStates)
  /\ contexts \in Seq(Seq(Utterances)) /\ Len(contexts) = Len(lines)

\* Where a line is, and what of it has been written and said.
LineTells(n) ==
  /\ lines[n] = "recording" => User(n) \notin ToSet(transcript)
  /\ lines[n] = "recorded" => User(n) \notin ToSet(messages)
  /\ lines[n] \in {"recorded", "asking", "saving", "saved"} => User(n) \in ToSet(transcript)
  /\ lines[n] \in {"recording", "recorded", "asking", "saving"} => Assistant(n) \notin ToSet(transcript)
  /\ lines[n] = "saved" => Assistant(n) \in ToSet(transcript) /\ Assistant(n) \notin ToSet(messages)

\* What is written once, and after what it answers.
WrittenWell ==
  /\ IsInjective(messages) /\ IsInjective(transcript)
  /\ ToSet(messages) \subseteq ToSet(transcript)
  /\ \A u \in ToSet(transcript) : u.line \in DOMAIN lines
  /\ \A i \in DOMAIN transcript : transcript[i].role = "assistant" =>
       \E j \in 1 .. i - 1 : transcript[j] = User(transcript[i].line)

GivenWell == \A n \in DOMAIN contexts : contexts[n] # <<>> =>
  Last(contexts[n]) = User(n) /\ Len(contexts[n]) <= MaxContext

LogInv == CliTyped /\ (\A n \in DOMAIN lines : LineTells(n)) /\ WrittenWell /\ GivenWell

LEMMA UtterancesAre ==
  ASSUME NEW n \in Nat
  PROVE  /\ User(n) \in Utterances /\ User(n).line = n /\ User(n).role = "user"
         /\ Assistant(n) \in Utterances /\ Assistant(n).line = n /\ Assistant(n).role = "assistant"
         /\ User(n) # Assistant(n)
         /\ \A m \in Nat : m # n => User(n) # User(m) /\ Assistant(n) # Assistant(m)
                                    /\ User(n) # Assistant(m) /\ Assistant(n) # User(m)
<1>1. User(n) \in Utterances /\ Assistant(n) \in Utterances
  BY DEF User, Assistant, Utterances
<1>2. \A m \in Nat : /\ User(m).line = m /\ User(m).role = "user"
                     /\ Assistant(m).line = m /\ Assistant(m).role = "assistant"
  BY DEF User, Assistant
<1>3. ASSUME NEW m \in Nat PROVE User(n) # Assistant(m) /\ Assistant(n) # User(m)
  BY <1>2
<1>4. ASSUME NEW m \in Nat, m # n PROVE User(n) # User(m) /\ Assistant(n) # Assistant(m)
  BY <1>2, <1>4
<1> QED BY <1>1, <1>2, <1>3, <1>4

LEMMA LinesAre ==
  ASSUME CliTyped
  PROVE  /\ Len(lines) \in Nat /\ DOMAIN lines = 1 .. Len(lines) /\ DOMAIN contexts = 1 .. Len(lines)
         /\ \A n \in DOMAIN lines : n \in Nat /\ lines[n] \in LineStates
         /\ \A n \in DOMAIN lines : n # Len(lines) + 1
<1>1. Len(lines) \in Nat /\ DOMAIN lines = 1 .. Len(lines)
  BY DEF CliTyped
<1>2. DOMAIN contexts = 1 .. Len(lines)
  BY DEF CliTyped
<1>3. \A n \in DOMAIN lines : lines[n] \in LineStates
  BY DEF CliTyped
<1> QED BY <1>1, <1>2, <1>3

LEMMA LogBegins == CliInit => LogInv
<1> SUFFICES ASSUME CliInit PROVE LogInv
  OBVIOUS
<1>1. /\ messages = <<>> /\ transcript = <<>> /\ lines = <<>> /\ contexts = <<>>
      /\ DOMAIN lines = {} /\ DOMAIN transcript = {} /\ DOMAIN contexts = {} /\ DOMAIN messages = {}
      /\ Len(lines) = 0 /\ Len(contexts) = 0
  <2>1. messages = <<>> /\ transcript = <<>> /\ lines = <<>> /\ contexts = <<>>
    BY DEF CliInit
  <2> QED BY <2>1
<1>2. CliTyped
  BY <1>1 DEF CliInit, CliTyped
<1>3. WrittenWell
  BY <1>1 DEF WrittenWell, IsInjective, ToSet
<1>4. GivenWell /\ \A n \in DOMAIN lines : LineTells(n)
  BY <1>1 DEF GivenWell
<1> QED BY <1>2, <1>3, <1>4 DEF LogInv

\* A line that is typed is new.
LEMMA TypeKeeps ==
  ASSUME LogInv, NEW entered \in {"prompt", "continued", "clear"}, Type(entered)
  PROVE  LogInv'
<1> DEFINE N == Len(lines)
           st == Entered[entered]
<1>0. CliTyped /\ (\A n \in DOMAIN lines : LineTells(n)) /\ WrittenWell /\ GivenWell
  BY DEF LogInv
<1>1. /\ lines' = Append(lines, st) /\ contexts' = Append(contexts, <<>>)
      /\ messages' = messages /\ transcript' = transcript /\ flags' = flags
  BY DEF Type, serviceVars
<1>2. st \in {"recording", "clearing", "over"} /\ st \in LineStates /\ <<>> \in Seq(Utterances)
  BY DEF LineStates, Entered
<1> HIDE DEF st
<1>3. /\ N \in Nat /\ DOMAIN lines = 1 .. N /\ DOMAIN lines' = 1 .. N + 1 /\ Len(lines') = N + 1
      /\ lines' \in Seq(LineStates) /\ lines'[N + 1] = st /\ \A n \in 1 .. N : lines'[n] = lines[n]
  BY <1>0, <1>1, <1>2, Grows DEF CliTyped
<1>4. /\ contexts' \in Seq(Seq(Utterances)) /\ Len(contexts') = N + 1
      /\ DOMAIN contexts = 1 .. N /\ DOMAIN contexts' = 1 .. N + 1
      /\ contexts'[N + 1] = <<>> /\ \A n \in 1 .. N : contexts'[n] = contexts[n]
  <2>1. contexts \in Seq(Seq(Utterances)) /\ Len(contexts) = N
    BY <1>0 DEF CliTyped
  <2> QED BY <1>1, <1>2, <2>1, Grows
<1>5. messages' \in Seq(Utterances) /\ ToSet(messages') \subseteq ToSet(messages) /\ IsInjective(messages')
  BY <1>0, <1>1 DEF CliTyped, WrittenWell
<1> HIDE DEF N
<1>6. \A n \in 1 .. N + 1 : n \in 1 .. N \/ n = N + 1
  BY <1>3
<1>7. CliTyped'
  BY <1>0, <1>1, <1>3, <1>4, <1>5 DEF CliTyped
<1>8. ASSUME NEW n \in 1 .. N + 1 PROVE LineTells(n)'
  <2>1. CASE n \in 1 .. N
    BY <1>0, <1>1, <1>3, <1>5, <2>1 DEF LineTells
  <2>2. CASE n = N + 1
    <3>1. n \in Nat /\ n \notin DOMAIN lines
      BY <1>3, <2>2
    <3>2. User(n) \notin ToSet(transcript) /\ Assistant(n) \notin ToSet(transcript)
      BY <1>0, <3>1, UtterancesAre DEF WrittenWell
    <3>3. lines'[n] = st
      BY <1>3, <2>2
    <3> QED BY <1>1, <1>2, <3>2, <3>3 DEF LineTells
  <2> QED BY <1>6, <2>1, <2>2
<1>9. WrittenWell'
  <2>1. \A n \in 1 .. N : n \in 1 .. N + 1
    BY <1>3
  <2> QED BY <1>0, <1>1, <1>3, <1>5, <2>1 DEF WrittenWell
<1>10. GivenWell'
  BY <1>0, <1>4, <1>6 DEF GivenWell
<1> QED BY <1>3, <1>7, <1>8, <1>9, <1>10 DEF LogInv

\* A line that goes on, and what follows for the others when nothing of them is written.
LEMMA LineKeeps ==
  ASSUME LogInv, NEW n \in DOMAIN lines, NEW st \in LineStates,
         lines' = [lines EXCEPT ![n] = st], flags' = flags,
         messages' \in Seq(Utterances), transcript' \in Seq(Utterances),
         contexts' \in Seq(Seq(Utterances)), Len(contexts') = Len(contexts),
         \A u \in Utterances : u.line # n =>
           /\ u \in ToSet(messages') <=> u \in ToSet(messages)
           /\ u \in ToSet(transcript') <=> u \in ToSet(transcript),
         LineTells(n)', WrittenWell', GivenWell'
  PROVE  LogInv'
<1>0. CliTyped /\ \A m \in DOMAIN lines : LineTells(m)
  BY DEF LogInv
<1>1. /\ lines' \in Seq(LineStates) /\ Len(lines') = Len(lines) /\ DOMAIN lines' = DOMAIN lines
      /\ \A m \in DOMAIN lines : m # n => lines'[m] = lines[m]
  BY <1>0 DEF CliTyped
<1>2. CliTyped'
  BY <1>0, <1>1 DEF CliTyped
<1>3. ASSUME NEW m \in DOMAIN lines, m # n PROVE LineTells(m)'
  <2>1. m \in Nat
    BY <1>0, LinesAre
  <2>2. /\ User(m) \in Utterances /\ User(m).line # n
        /\ Assistant(m) \in Utterances /\ Assistant(m).line # n
    BY <1>3, <2>1, UtterancesAre
  <2>3. /\ User(m) \in ToSet(messages') <=> User(m) \in ToSet(messages)
        /\ User(m) \in ToSet(transcript') <=> User(m) \in ToSet(transcript)
        /\ Assistant(m) \in ToSet(messages') <=> Assistant(m) \in ToSet(messages)
        /\ Assistant(m) \in ToSet(transcript') <=> Assistant(m) \in ToSet(transcript)
    BY <2>2
  <2>4. LineTells(m) /\ lines'[m] = lines[m]
    BY <1>0, <1>1, <1>3
  <2> QED BY <2>3, <2>4 DEF LineTells
<1> QED BY <1>1, <1>2, <1>3 DEF LogInv

\* A line that only changes its state.
LEMMA LineMoves ==
  ASSUME LogInv, NEW n \in DOMAIN lines, NEW st \in {"saving", "over"},
         lines' = [lines EXCEPT ![n] = st], st = "saving" => lines[n] = "asking",
         UNCHANGED <<flags, messages, transcript, contexts>>
  PROVE  LogInv'
<1>0. CliTyped /\ (\A m \in DOMAIN lines : LineTells(m)) /\ WrittenWell /\ GivenWell
  BY DEF LogInv
<1>1. lines'[n] = st /\ DOMAIN lines' = DOMAIN lines /\ st \in LineStates
  BY <1>0 DEF CliTyped, LineStates
<1>2. LineTells(n)'
  BY <1>0, <1>1 DEF LineTells
<1>3. WrittenWell' /\ GivenWell'
  BY <1>0, <1>1 DEF WrittenWell, GivenWell
<1>4. /\ messages' \in Seq(Utterances) /\ transcript' \in Seq(Utterances)
      /\ contexts' \in Seq(Seq(Utterances)) /\ Len(contexts') = Len(contexts)
  BY <1>0 DEF CliTyped
<1> QED BY <1>1, <1>2, <1>3, <1>4, LineKeeps

LEMMA RecordedKeeps ==
  ASSUME LogInv, NEW n \in DOMAIN lines, PromptRecorded(n) \/ AnswerRecorded(n)
  PROVE  LogInv'
<1> DEFINE asked == lines[n] = "recording"
           u == IF asked THEN User(n) ELSE Assistant(n)
           st == IF asked THEN "recorded" ELSE "saved"
<1>0. CliTyped /\ (\A m \in DOMAIN lines : LineTells(m)) /\ WrittenWell /\ GivenWell
  BY DEF LogInv
<1>1. /\ lines[n] \in {"recording", "saving"} /\ transcript' = Append(transcript, u)
      /\ lines' = [lines EXCEPT ![n] = st]
      /\ UNCHANGED <<flags, messages, contexts>>
  BY DEF PromptRecorded, AnswerRecorded, Goes, serviceVars
<1>2. n \in Nat /\ st \in LineStates /\ lines \in Seq(LineStates)
  BY <1>0, LinesAre DEF LineStates, CliTyped
<1>3. /\ u \in Utterances /\ u.line = n /\ u \notin ToSet(transcript) /\ u \notin ToSet(messages)
      /\ asked => u = User(n)
      /\ ~asked => u = Assistant(n) /\ User(n) \in ToSet(transcript) /\ lines[n] = "saving"
  BY <1>0, <1>1, <1>2, UtterancesAre DEF LineTells, WrittenWell
<1>4. lines'[n] = st /\ DOMAIN lines' = DOMAIN lines /\ (asked => st = "recorded") /\ (~asked => st = "saved")
  BY <1>1, <1>2
<1> HIDE DEF u, st
<1>5. /\ transcript' \in Seq(Utterances) /\ ToSet(transcript') = ToSet(transcript) \cup {u}
      /\ DOMAIN transcript = 1 .. Len(transcript) /\ DOMAIN transcript' = 1 .. Len(transcript) + 1
      /\ Len(transcript) \in Nat
      /\ transcript'[Len(transcript) + 1] = u
      /\ \A i \in 1 .. Len(transcript) : transcript'[i] = transcript[i]
  BY <1>0, <1>1, <1>3, Grows DEF CliTyped
<1>6. IsInjective(transcript')
  BY <1>0, <1>1, <1>3, GrowsInjective DEF CliTyped, WrittenWell
<1>7. LineTells(n)'
  <2>1. User(n) # Assistant(n)
    BY <1>2, UtterancesAre
  <2>2. CASE asked
    <3>1. Assistant(n) \notin ToSet(transcript) /\ u = User(n) /\ lines'[n] = "recorded"
      BY <1>0, <1>3, <1>4, <2>2 DEF LineTells
    <3> QED BY <1>1, <1>3, <1>5, <2>1, <3>1 DEF LineTells
  <2>3. CASE ~asked
    <3>1. u = Assistant(n) /\ lines'[n] = "saved" /\ User(n) \in ToSet(transcript)
      BY <1>3, <1>4, <2>3
    <3> QED BY <1>1, <1>3, <1>5, <3>1 DEF LineTells
  <2> QED BY <2>2, <2>3
<1>8. WrittenWell'
  <2>1. ASSUME NEW i \in 1 .. Len(transcript) + 1, transcript'[i].role = "assistant"
        PROVE  \E j \in 1 .. i - 1 : transcript'[j] = User(transcript'[i].line)
    <3>1. CASE i = Len(transcript) + 1
      <4>1. transcript'[i] = u /\ u.role = "assistant"
        BY <1>5, <2>1, <3>1
      <4>2. ~asked
        BY <1>2, <1>3, <4>1, UtterancesAre
      <4>3. PICK j \in 1 .. Len(transcript) : transcript[j] = User(n)
        BY <1>3, <1>5, <4>2 DEF ToSet
      <4>4. i - 1 = Len(transcript)
        BY <1>5, <3>1
      <4> QED BY <1>3, <1>5, <4>1, <4>3, <4>4
    <3>2. CASE i # Len(transcript) + 1
      <4>1. i \in 1 .. Len(transcript)
        BY <1>5, <3>2
      <4>2. PICK j \in 1 .. i - 1 : transcript[j] = User(transcript[i].line)
        BY <1>0, <1>5, <2>1, <4>1 DEF WrittenWell
      <4>3. j \in 1 .. Len(transcript)
        BY <1>5, <4>1
      <4>4. transcript'[j] = transcript[j] /\ transcript'[i] = transcript[i]
        BY <1>5, <4>1, <4>3
      <4>5. transcript'[j] = User(transcript'[i].line)
        BY <4>2, <4>4
      <4> QED BY <4>5
    <3> QED BY <3>1, <3>2
  <2>2. \A w \in ToSet(transcript') : w.line \in DOMAIN lines
    BY <1>0, <1>3, <1>5 DEF WrittenWell
  <2> QED BY <1>0, <1>1, <1>4, <1>5, <1>6, <2>1, <2>2 DEF WrittenWell
<1>9. GivenWell'
  BY <1>0, <1>1 DEF GivenWell
<1>10. \A w \in Utterances : w.line # n =>
         /\ w \in ToSet(messages') <=> w \in ToSet(messages)
         /\ w \in ToSet(transcript') <=> w \in ToSet(transcript)
  BY <1>1, <1>3, <1>5
<1>11. /\ messages' \in Seq(Utterances) /\ contexts' \in Seq(Seq(Utterances))
       /\ Len(contexts') = Len(contexts)
  BY <1>0, <1>1 DEF CliTyped
<1> QED BY <1>1, <1>2, <1>5, <1>7, <1>8, <1>9, <1>10, <1>11, LineKeeps

\* What is added to the conversation is in the transcript.
LEMMA MessageKeeps ==
  ASSUME LogInv, NEW n \in DOMAIN lines, NEW u \in Utterances, u.line = n,
         u \in ToSet(transcript), u \notin ToSet(messages), messages' = Append(messages, u),
         NEW st \in LineStates, lines' = [lines EXCEPT ![n] = st], UNCHANGED <<flags, transcript>>,
         contexts' \in Seq(Seq(Utterances)), Len(contexts') = Len(contexts), GivenWell',
         LineTells(n)'
  PROVE  LogInv'
<1>0. CliTyped /\ WrittenWell
  BY DEF LogInv
<1>1. messages' \in Seq(Utterances) /\ ToSet(messages') = ToSet(messages) \cup {u}
  BY <1>0, Grows DEF CliTyped
<1>2. IsInjective(messages')
  BY <1>0, GrowsInjective DEF CliTyped, WrittenWell
<1>3. DOMAIN lines' = DOMAIN lines /\ transcript' \in Seq(Utterances)
  BY <1>0 DEF CliTyped
<1>4. WrittenWell'
  BY <1>0, <1>1, <1>2, <1>3 DEF WrittenWell
<1>5. \A w \in Utterances : w.line # n =>
        /\ w \in ToSet(messages') <=> w \in ToSet(messages)
        /\ w \in ToSet(transcript') <=> w \in ToSet(transcript)
  BY <1>1
<1> QED BY <1>1, <1>3, <1>4, <1>5, LineKeeps

\* The last messages, at least one of them, end with the last.
LEMMA RecentIs ==
  ASSUME NEW S, NEW s \in Seq(S), s # <<>>, NEW k \in Nat \ {0}
  PROVE  /\ Recent(k, s) \in Seq(S) /\ Len(Recent(k, s)) <= k
         /\ Last(Recent(k, s)) = s[Len(s)]
<1> DEFINE from == IF Len(s) > k THEN Len(s) - k + 1 ELSE 1
           r == SubSeq(s, from, Len(s))
<1>1. Len(s) \in Nat /\ Len(s) >= 1
  BY EmptySeq, LenProperties
<1>2. from \in 1 .. Len(s) /\ Len(s) - from + 1 <= k /\ Len(s) - from + 1 \in Nat \ {0}
  BY <1>1
<1>3. Recent(k, s) = r
  BY DEF Recent
<1> HIDE DEF from
<1>4. from \in 1 .. Len(s) + 1 /\ Len(s) \in from - 1 .. Len(s)
  BY <1>1, <1>2
<1>5. r \in Seq(S) /\ Len(r) = Len(s) - from + 1
  BY <1>1, <1>2, <1>4, SubSeqProperties
<1>6. r[Len(r)] = s[Len(s)]
  <2>1. \A i \in 1 .. Len(s) - from + 1 : r[i] = s[from + i - 1]
    BY <1>1, <1>2, <1>4, SubSeqProperties
  <2>2. from + (Len(s) - from + 1) - 1 = Len(s)
    BY <1>1, <1>2
  <2>3. Len(s) - from + 1 \in 1 .. Len(s) - from + 1
    BY <1>2
  <2>4. r[Len(s) - from + 1] = s[from + (Len(s) - from + 1) - 1]
    BY <2>1, <2>3
  <2> QED BY <1>5, <2>2, <2>4
<1> HIDE DEF r
<1> QED BY <1>2, <1>3, <1>5, <1>6 DEF Last

LEMMA AskModelKeeps ==
  ASSUME LogInv, NEW n \in DOMAIN lines, AskModel(n)
  PROVE  LogInv'
<1>0. CliTyped /\ (\A m \in DOMAIN lines : LineTells(m)) /\ WrittenWell /\ GivenWell
  BY DEF LogInv
<1>1. /\ lines[n] = "recorded" /\ messages' = Append(messages, User(n))
      /\ contexts' = [contexts EXCEPT ![n] = Given(n)]
      /\ lines' = [lines EXCEPT ![n] = "asking"]
      /\ UNCHANGED <<flags, transcript>>
  BY DEF AskModel, Goes, serviceVars
<1>2. n \in Nat /\ "asking" \in LineStates /\ n \in DOMAIN contexts
  BY <1>0, LinesAre DEF LineStates
<1>3. User(n) \in Utterances /\ User(n).line = n
  BY <1>2, UtterancesAre
<1>4. User(n) \in ToSet(transcript) /\ User(n) \notin ToSet(messages) /\ Assistant(n) \notin ToSet(transcript)
  BY <1>0, <1>1 DEF LineTells
<1>5. /\ Given(n) \in Seq(Utterances) /\ Len(Given(n)) <= MaxContext /\ Last(Given(n)) = User(n)
  <2> DEFINE s == Append(messages, User(n))
  <2>1. s \in Seq(Utterances) /\ s # <<>> /\ Len(s) = Len(messages) + 1 /\ s[Len(messages) + 1] = User(n)
    <3>1. messages \in Seq(Utterances)
      BY <1>0 DEF CliTyped
    <3> HIDE <1>0
    <3> QED BY <1>3, <3>1, Grows
  <2>2. MaxContext \in Nat \ {0}
    BY CliAssumption
  <2> HIDE DEF s
  <2>3. /\ Recent(MaxContext, s) \in Seq(Utterances) /\ Len(Recent(MaxContext, s)) <= MaxContext
        /\ Last(Recent(MaxContext, s)) = s[Len(s)]
    BY <2>1, <2>2, RecentIs
  <2>4. Given(n) = Recent(MaxContext, s)
    BY DEF Given, s
  <2> QED BY <2>1, <2>3, <2>4
<1>6. /\ contexts' \in Seq(Seq(Utterances)) /\ Len(contexts') = Len(contexts)
      /\ DOMAIN contexts' = DOMAIN contexts /\ contexts'[n] = Given(n)
      /\ \A m \in DOMAIN contexts : m # n => contexts'[m] = contexts[m]
  BY <1>0, <1>1, <1>2, <1>5 DEF CliTyped
<1>7. GivenWell'
  BY <1>0, <1>5, <1>6 DEF GivenWell
<1>8. LineTells(n)'
  <2>1. lines'[n] = "asking"
    BY <1>0, <1>1 DEF CliTyped
  <2> QED BY <1>1, <1>4, <2>1 DEF LineTells
<1> QED BY <1>1, <1>2, <1>3, <1>4, <1>6, <1>7, <1>8, MessageKeeps

LEMMA AnswerKeptKeeps ==
  ASSUME LogInv, NEW n \in DOMAIN lines, AnswerKept(n)
  PROVE  LogInv'
<1>0. CliTyped /\ (\A m \in DOMAIN lines : LineTells(m)) /\ WrittenWell /\ GivenWell
  BY DEF LogInv
<1>1. /\ lines[n] = "saved" /\ messages' = Append(messages, Assistant(n))
      /\ lines' = [lines EXCEPT ![n] = "over"]
      /\ UNCHANGED <<flags, transcript, contexts>>
  BY DEF AnswerKept, Goes, serviceVars
<1>2. n \in Nat /\ "over" \in LineStates
  BY <1>0, LinesAre DEF LineStates
<1>3. Assistant(n) \in Utterances /\ Assistant(n).line = n
  BY <1>2, UtterancesAre
<1>4. Assistant(n) \in ToSet(transcript) /\ Assistant(n) \notin ToSet(messages)
  BY <1>0, <1>1 DEF LineTells
<1>5. contexts' \in Seq(Seq(Utterances)) /\ Len(contexts') = Len(contexts) /\ GivenWell'
  BY <1>0, <1>1 DEF CliTyped, GivenWell
<1>6. LineTells(n)'
  <2>1. lines'[n] = "over"
    BY <1>0, <1>1 DEF CliTyped
  <2> QED BY <2>1 DEF LineTells
<1> QED BY <1>1, <1>2, <1>3, <1>4, <1>5, <1>6, MessageKeeps

LEMMA ClearKeeps ==
  ASSUME LogInv, NEW n \in DOMAIN lines, Clear(n)
  PROVE  LogInv'
<1>0. CliTyped /\ (\A m \in DOMAIN lines : LineTells(m)) /\ WrittenWell /\ GivenWell
  BY DEF LogInv
<1>1. /\ lines' = [lines EXCEPT ![n] = "over"] /\ messages' = <<>>
      /\ UNCHANGED <<flags, transcript, contexts>>
  BY DEF Clear, Goes, serviceVars
<1>2. <<>> \in Seq(Utterances) /\ ToSet(<<>>) = {} /\ IsInjective(<<>>)
  BY DEF ToSet, IsInjective
<1>3. /\ lines' \in Seq(LineStates) /\ Len(lines') = Len(lines) /\ DOMAIN lines' = DOMAIN lines
      /\ lines'[n] = "over" /\ \A m \in DOMAIN lines : m # n => lines'[m] = lines[m]
  BY <1>0, <1>1 DEF CliTyped, LineStates
<1>4. CliTyped' /\ WrittenWell' /\ GivenWell'
  BY <1>0, <1>1, <1>2, <1>3 DEF CliTyped, WrittenWell, GivenWell
<1>5. \A m \in DOMAIN lines : LineTells(m)'
  BY <1>0, <1>1, <1>2, <1>3 DEF LineTells
<1> QED BY <1>3, <1>4, <1>5 DEF LogInv

LEMMA LogStays ==
  LogInv /\ UNCHANGED <<flags, messages, transcript, lines, contexts>> => LogInv'
BY DEF LogInv, CliTyped, LineTells, WrittenWell, GivenWell

LEMMA LogKeeps ==
  ASSUME LogInv, CliNext
  PROVE  LogInv'
<1>1. CASE \/ StartStep \/ StartFails \/ StartOneShot \/ OneShotDone \/ StartRepl
           \/ ShutdownStep \/ ShutdownFails \/ LoopEmpty \/ Leave
  <2>1. UNCHANGED <<flags, messages, transcript, lines, contexts>>
    BY <1>1 DEF StartStep, StartFails, StartOneShot, OneShotDone, StartRepl, ShutdownStep,
                ShutdownFails, LoopEmpty, Leave, Exit, replVars
  <2> QED BY <2>1, LogStays
<1>2. ASSUME NEW entered \in {"prompt", "continued", "clear"}, Type(entered) PROVE LogInv'
  BY <1>2, TypeKeeps
<1>3. ASSUME NEW n \in DOMAIN lines,
             \/ Clear(n) \/ PromptRecorded(n) \/ AskModel(n)
             \/ Answered(n) \/ AnswerRecorded(n) \/ AnswerKept(n) \/ TurnFails(n)
      PROVE  LogInv'
  <2>1. CASE Answered(n)
    <3>1. /\ lines' = [lines EXCEPT ![n] = "saving"] /\ lines[n] = "asking"
          /\ UNCHANGED <<flags, messages, transcript, contexts>>
      BY <2>1 DEF Answered, Goes, serviceVars
    <3> QED BY <3>1, LineMoves
  <2>2. CASE TurnFails(n)
    <3>1. /\ lines' = [lines EXCEPT ![n] = "over"]
          /\ UNCHANGED <<flags, messages, transcript, contexts>>
      BY <2>2 DEF TurnFails, Goes, serviceVars
    <3> QED BY <3>1, LineMoves
  <2> QED BY <1>3, <2>1, <2>2, RecordedKeeps, AskModelKeeps, AnswerKeptKeeps, ClearKeeps
<1> QED BY <1>1, <1>2, <1>3 DEF CliNext

\* A line that nothing has come between with is under way alone.
AloneTells ==
  \A n \in DOMAIN lines : n \notin overlapped /\ lines[n] # "over" =>
    \A m \in DOMAIN lines : m # n => lines[m] = "over"

\* Its prompt is the last message until its answer comes.
PromptWaits ==
  \A n \in DOMAIN lines : n \notin overlapped /\ lines[n] \in {"asking", "saving", "saved"} =>
    messages # <<>> /\ messages[Len(messages)] = User(n)

AnswersFollow ==
  /\ \A i \in DOMAIN messages : messages[i].role = "assistant" =>
       \/ User(messages[i].line) \in dropped
       \/ \E j \in 1 .. i - 1 : messages[j] = User(messages[i].line)
  /\ \A i \in DOMAIN messages : messages[i].role = "assistant" /\ messages[i].line \notin overlapped =>
       i > 1 /\ messages[i - 1] = User(messages[i].line)

KeptWell == ToSet(messages) \cup dropped \cup OnTheWay = ToSet(transcript)

TalkInv == AloneTells /\ PromptWaits /\ AnswersFollow /\ KeptWell
CliInv == LogInv /\ TalkInv

\* A line that goes on was under way, and so it overlaps with all others that are.
LEMMA OthersOver ==
  ASSUME LogInv, AloneTells, NEW n \in DOMAIN lines, lines[n] # "over",
         NEW st \in LineStates, lines' = [lines EXCEPT ![n] = st], overlapped' = overlapped
  PROVE  /\ DOMAIN lines' = DOMAIN lines /\ lines'[n] = st /\ AloneTells'
         /\ \A m \in DOMAIN lines : m # n => lines'[m] = lines[m] /\ (m \notin overlapped => lines'[m] = "over")
<1>1. lines \in Seq(LineStates)
  BY DEF LogInv, CliTyped
<1>2. DOMAIN lines' = DOMAIN lines /\ lines'[n] = st /\ \A m \in DOMAIN lines : m # n => lines'[m] = lines[m]
  BY <1>1
<1>3. \A m \in DOMAIN lines : m # n => (m \notin overlapped => lines'[m] = "over")
  BY <1>2 DEF AloneTells
<1> QED BY <1>2, <1>3 DEF AloneTells

\* What is on its way changes with the line that goes on.
LEMMA OnTheWayGoes ==
  ASSUME LogInv, NEW n \in DOMAIN lines, NEW st \in LineStates, lines' = [lines EXCEPT ![n] = st]
  PROVE  OnTheWay' = (OnTheWay \ {User(n), Assistant(n)})
                     \cup (IF st = "recorded" THEN {User(n)} ELSE {})
                     \cup (IF st = "saved" THEN {Assistant(n)} ELSE {})
<1>1. lines \in Seq(LineStates) /\ \A m \in DOMAIN lines : m \in Nat
  BY LinesAre DEF LogInv, CliTyped
<1>2. DOMAIN lines' = DOMAIN lines /\ lines'[n] = st /\ \A m \in DOMAIN lines : m # n => lines'[m] = lines[m]
  BY <1>1
<1>3. \A m \in DOMAIN lines : m # n => /\ User(m) \notin {User(n), Assistant(n)}
                                       /\ Assistant(m) \notin {User(n), Assistant(n)}
  BY <1>1, UtterancesAre
<1>4. \A k \in DOMAIN lines : User(k)' = User(k) /\ Assistant(k)' = Assistant(k)
  BY DEF User, Assistant
<1> QED BY <1>2, <1>3, <1>4 DEF OnTheWay

LEMMA OnTheWayIs ==
  ASSUME LogInv, NEW n \in DOMAIN lines
  PROVE  /\ User(n) \in OnTheWay <=> lines[n] = "recorded"
         /\ Assistant(n) \in OnTheWay <=> lines[n] = "saved"
<1>1. \A m \in DOMAIN lines : m \in Nat
  BY LinesAre DEF LogInv
<1>2. \A m \in DOMAIN lines : /\ User(m) # Assistant(n) /\ Assistant(m) # User(n)
                              /\ m # n => User(m) # User(n) /\ Assistant(m) # Assistant(n)
  BY <1>1, UtterancesAre
<1> QED BY <1>2 DEF OnTheWay

LEMMA TalkBegins == CliInit => TalkInv
<1> SUFFICES ASSUME CliInit PROVE TalkInv
  OBVIOUS
<1>1. /\ messages = <<>> /\ transcript = <<>> /\ dropped = {}
      /\ DOMAIN lines = {} /\ DOMAIN messages = {} /\ ToSet(messages) = {} /\ ToSet(transcript) = {}
  <2>1. messages = <<>> /\ transcript = <<>> /\ lines = <<>> /\ dropped = {}
    BY DEF CliInit
  <2> QED BY <2>1 DEF ToSet
<1>2. AloneTells /\ PromptWaits /\ AnswersFollow
  BY <1>1 DEF AloneTells, PromptWaits, AnswersFollow
<1>3. KeptWell
  BY <1>1 DEF KeptWell, OnTheWay
<1> QED BY <1>2, <1>3 DEF TalkInv

LEMMA TalkTypes ==
  ASSUME LogInv, TalkInv, NEW entered \in {"prompt", "continued", "clear"}, Type(entered)
  PROVE  TalkInv'
<1> DEFINE N == Len(lines)
           st == Entered[entered]
<1>1. /\ lines' = Append(lines, st) /\ UNCHANGED <<messages, transcript, dropped>>
      /\ overlapped' = IF entered = "continued" \/ Underway = {} THEN overlapped
                       ELSE overlapped \cup Underway \cup {N + 1}
  BY DEF Type
<1>2. /\ st \in {"recording", "clearing", "over"} /\ st \in LineStates
      /\ entered = "continued" => st = "over"
  BY DEF LineStates, Entered
<1> HIDE DEF st
<1>3. /\ N \in Nat /\ DOMAIN lines = 1 .. N /\ DOMAIN lines' = 1 .. N + 1
      /\ lines'[N + 1] = st /\ \A n \in 1 .. N : lines'[n] = lines[n]
  BY <1>1, <1>2, Grows DEF LogInv, CliTyped
<1> HIDE DEF N
<1>4. \A n \in 1 .. N + 1 : n \in 1 .. N \/ n = N + 1
  BY <1>3
<1>5. overlapped \subseteq overlapped'
  BY <1>1
<1>6. AloneTells'
  <2> SUFFICES ASSUME NEW n \in 1 .. N + 1, n \notin overlapped', lines'[n] # "over",
                      NEW m \in 1 .. N + 1, m # n, lines'[m] # "over"
               PROVE  FALSE
    BY <1>3 DEF AloneTells
  <2>1. CASE n \in 1 .. N /\ m \in 1 .. N
    BY <1>3, <1>5, <2>1 DEF TalkInv, AloneTells
  <2>2. CASE n = N + 1
    <3>1. m \in Underway /\ st # "over"
      BY <1>3, <1>4, <2>2 DEF Underway
    <3> QED BY <1>1, <1>2, <2>2, <3>1
  <2>3. CASE m = N + 1
    <3>1. n \in Underway /\ st # "over"
      BY <1>3, <1>4, <2>3 DEF Underway
    <3> QED BY <1>1, <1>2, <3>1
  <2> QED BY <1>4, <2>1, <2>2, <2>3
<1>7. PromptWaits'
  BY <1>1, <1>2, <1>3, <1>4, <1>5 DEF TalkInv, PromptWaits, User
<1>8. AnswersFollow'
  BY <1>1, <1>5 DEF TalkInv, AnswersFollow, User
<1>9. KeptWell'
  <2>1. OnTheWay' = OnTheWay
    <3>1. {m \in DOMAIN lines' : lines'[m] = "recorded"} = {m \in DOMAIN lines : lines[m] = "recorded"}
      BY <1>2, <1>3, <1>4
    <3>2. {m \in DOMAIN lines' : lines'[m] = "saved"} = {m \in DOMAIN lines : lines[m] = "saved"}
      BY <1>2, <1>3, <1>4
    <3> QED BY <3>1, <3>2 DEF OnTheWay, User, Assistant
  <2> QED BY <1>1, <2>1 DEF TalkInv, KeptWell
<1> QED BY <1>6, <1>7, <1>8, <1>9 DEF TalkInv

\* Steps of a line that leave the conversation as it is.
LEMMA TalkWaits ==
  ASSUME LogInv, TalkInv, NEW n \in DOMAIN lines,
         PromptRecorded(n) \/ Answered(n) \/ AnswerRecorded(n) \/ TurnFails(n)
  PROVE  TalkInv'
<1>1. PICK st \in {"recorded", "saving", "saved", "over"} :
        /\ lines' = [lines EXCEPT ![n] = st] /\ lines[n] \notin {"over", "recorded", "saved"}
        /\ st \in {"saving", "saved"} => lines[n] \in {"asking", "saving"}
        /\ UNCHANGED <<messages, dropped, overlapped>>
        /\ transcript' = IF st = "recorded" THEN Append(transcript, User(n))
                         ELSE IF st = "saved" THEN Append(transcript, Assistant(n)) ELSE transcript
  BY DEF PromptRecorded, Answered, AnswerRecorded, TurnFails, Goes
<1>2. st \in LineStates /\ AloneTells /\ PromptWaits /\ AnswersFollow /\ KeptWell
  BY DEF LineStates, TalkInv
<1>3. /\ DOMAIN lines' = DOMAIN lines /\ lines'[n] = st /\ AloneTells'
      /\ \A m \in DOMAIN lines : m # n => lines'[m] = lines[m]
  BY <1>1, <1>2, OthersOver
<1>4. PromptWaits'
  BY <1>1, <1>2, <1>3 DEF PromptWaits, User
<1>5. AnswersFollow'
  BY <1>1, <1>2 DEF AnswersFollow, User
<1>6. KeptWell'
  <2>1. User(n) \notin OnTheWay /\ Assistant(n) \notin OnTheWay
    BY <1>1, OnTheWayIs
  <2>2. OnTheWay' = (OnTheWay \ {User(n), Assistant(n)})
                    \cup (IF st = "recorded" THEN {User(n)} ELSE {})
                    \cup (IF st = "saved" THEN {Assistant(n)} ELSE {})
    BY <1>1, <1>2, OnTheWayGoes
  <2>3. User(n) \in Utterances /\ Assistant(n) \in Utterances /\ transcript \in Seq(Utterances)
    BY LinesAre, UtterancesAre DEF LogInv, CliTyped
  <2>4. ToSet(transcript') = ToSet(transcript)
                             \cup (IF st = "recorded" THEN {User(n)} ELSE {})
                             \cup (IF st = "saved" THEN {Assistant(n)} ELSE {})
    <3>1. CASE st = "recorded"
      BY <1>1, <2>3, <3>1, Grows
    <3>2. CASE st = "saved"
      BY <1>1, <2>3, <3>2, Grows
    <3>3. CASE st \notin {"recorded", "saved"}
      BY <1>1, <3>3
    <3> QED BY <3>1, <3>2, <3>3
  <2> QED BY <1>1, <1>2, <2>1, <2>2, <2>4 DEF KeptWell
<1> QED BY <1>3, <1>4, <1>5, <1>6 DEF TalkInv

LEMMA TalkClears ==
  ASSUME LogInv, TalkInv, NEW n \in DOMAIN lines, Clear(n)
  PROVE  TalkInv'
<1>1. /\ lines' = [lines EXCEPT ![n] = "over"] /\ lines[n] = "clearing" /\ messages' = <<>>
      /\ dropped' = dropped \cup ToSet(messages) /\ UNCHANGED <<overlapped, transcript>>
  BY DEF Clear, Goes
<1>2. "over" \in LineStates /\ AloneTells /\ KeptWell
  BY DEF LineStates, TalkInv
<1>3. /\ DOMAIN lines' = DOMAIN lines /\ lines'[n] = "over" /\ AloneTells'
      /\ \A m \in DOMAIN lines : m # n /\ m \notin overlapped => lines'[m] = "over"
  BY <1>1, <1>2, OthersOver
<1>4. PromptWaits'
  BY <1>1, <1>3 DEF PromptWaits
<1>5. DOMAIN messages' = {} /\ ToSet(messages') = {}
  BY <1>1 DEF ToSet
<1>6. AnswersFollow'
  BY <1>5 DEF AnswersFollow
<1>7. KeptWell'
  <2>1. User(n) \notin OnTheWay /\ Assistant(n) \notin OnTheWay
    BY <1>1, OnTheWayIs
  <2>2. OnTheWay' = OnTheWay
    <3>1. OnTheWay' = (OnTheWay \ {User(n), Assistant(n)})
                      \cup (IF "over" = "recorded" THEN {User(n)} ELSE {})
                      \cup (IF "over" = "saved" THEN {Assistant(n)} ELSE {})
      BY <1>1, <1>2, OnTheWayGoes
    <3> QED BY <2>1, <3>1
  <2> QED BY <1>1, <1>2, <1>5, <2>2 DEF KeptWell
<1> QED BY <1>3, <1>4, <1>6, <1>7 DEF TalkInv

\* Steps of a line that add a message: the prompt, or the answer after it.
LEMMA TalkGrows ==
  ASSUME LogInv, TalkInv, NEW n \in DOMAIN lines, AskModel(n) \/ AnswerKept(n)
  PROVE  TalkInv'
<1> DEFINE asks == lines[n] = "recorded"
           u == IF asks THEN User(n) ELSE Assistant(n)
           st == IF asks THEN "asking" ELSE "over"
           N == Len(messages)
<1>1. /\ lines' = [lines EXCEPT ![n] = st] /\ lines[n] \in {"recorded", "saved"}
      /\ messages' = Append(messages, u) /\ UNCHANGED <<dropped, overlapped, transcript>>
  BY DEF AskModel, AnswerKept, Goes
<1>2. st \in LineStates /\ AloneTells /\ PromptWaits /\ AnswersFollow /\ KeptWell
  BY DEF LineStates, TalkInv
<1>3. /\ DOMAIN lines' = DOMAIN lines /\ lines'[n] = st /\ AloneTells'
      /\ \A m \in DOMAIN lines : m # n /\ m \notin overlapped => lines'[m] = "over"
  BY <1>1, <1>2, OthersOver
<1>4. n \in Nat /\ messages \in Seq(Utterances) /\ LineTells(n)
  BY LinesAre DEF LogInv, CliTyped
<1>5. /\ User(n) \in Utterances /\ User(n).line = n /\ User(n).role = "user"
      /\ Assistant(n) \in Utterances /\ Assistant(n).line = n /\ Assistant(n).role = "assistant"
  BY <1>4, UtterancesAre
<1>6. /\ u \in Utterances /\ u.line = n
      /\ asks => u = User(n) /\ st = "asking"
      /\ ~asks => u = Assistant(n) /\ st = "over" /\ lines[n] = "saved"
  BY <1>1, <1>5
<1> HIDE DEF u, st
<1>7. /\ N \in Nat /\ DOMAIN messages = 1 .. N /\ DOMAIN messages' = 1 .. N + 1 /\ Len(messages') = N + 1
      /\ messages' \in Seq(Utterances) /\ messages'[N + 1] = u
      /\ (\A i \in 1 .. N : messages'[i] = messages[i]) /\ ToSet(messages') = ToSet(messages) \cup {u}
  BY <1>1, <1>4, <1>6, Grows
<1>8. PromptWaits'
  <2> SUFFICES ASSUME NEW m \in DOMAIN lines, m \notin overlapped, lines'[m] \in {"asking", "saving", "saved"}
               PROVE  messages' # <<>> /\ messages'[Len(messages')] = User(m)
    BY <1>1, <1>3 DEF PromptWaits, User
  <2>1. m = n /\ asks
    BY <1>3, <1>6
  <2>2. messages' # <<>>
    BY <1>7
  <2> QED BY <1>6, <1>7, <2>1, <2>2
<1>9. ~asks => User(n) \in dropped \cup ToSet(messages)
  <2>1. ~asks => User(n) \in ToSet(transcript) /\ User(n) \notin OnTheWay
    BY <1>4, <1>6, OnTheWayIs DEF LineTells
  <2> QED BY <1>2, <2>1 DEF KeptWell
<1>10. ASSUME NEW i \in 1 .. N + 1, messages'[i].role = "assistant"
       PROVE  \/ User(messages'[i].line) \in dropped
              \/ \E j \in 1 .. i - 1 : messages'[j] = User(messages'[i].line)
  <2>1. CASE i \in 1 .. N
    <3>1. messages'[i] = messages[i] /\ \A j \in 1 .. i - 1 : messages'[j] = messages[j]
      BY <1>7, <2>1
    <3> QED BY <1>2, <1>7, <1>10, <2>1, <3>1 DEF AnswersFollow
  <2>2. CASE i = N + 1
    <3>1. u = Assistant(n) /\ ~asks /\ messages'[i].line = n
      BY <1>5, <1>6, <1>7, <1>10, <2>2
    <3>2. CASE User(n) \in ToSet(messages)
      <4>1. PICK j \in 1 .. N : messages[j] = User(n)
        BY <1>7, <3>2 DEF ToSet
      <4>2. messages'[j] = User(n) /\ j \in 1 .. i - 1
        BY <1>7, <2>2, <4>1
      <4> QED BY <3>1, <4>2
    <3> QED BY <1>9, <3>1, <3>2
  <2> QED BY <1>7, <2>1, <2>2
<1>11. ASSUME NEW i \in 1 .. N + 1, messages'[i].role = "assistant", messages'[i].line \notin overlapped
       PROVE  i > 1 /\ messages'[i - 1] = User(messages'[i].line)
  <2>1. CASE i \in 1 .. N
    <3>1. messages'[i] = messages[i]
      BY <1>7, <2>1
    <3>2. i > 1 /\ messages[i - 1] = User(messages[i].line)
      BY <1>2, <1>7, <1>11, <2>1, <3>1 DEF AnswersFollow
    <3>3. i - 1 \in 1 .. N
      BY <1>7, <2>1, <3>2
    <3> QED BY <1>7, <3>1, <3>2, <3>3
  <2>2. CASE i = N + 1
    <3>1. u = Assistant(n) /\ ~asks /\ messages'[i].line = n
      BY <1>5, <1>6, <1>7, <1>11, <2>2
    <3>2. messages # <<>> /\ messages[N] = User(n)
      BY <1>2, <1>6, <1>11, <3>1 DEF PromptWaits
    <3>3. N >= 1
      BY <1>4, <1>7, <3>2
    <3> QED BY <1>7, <2>2, <3>1, <3>2, <3>3
  <2> QED BY <1>7, <2>1, <2>2
<1>12. AnswersFollow'
  BY <1>1, <1>7, <1>10, <1>11 DEF AnswersFollow, User
<1>13. KeptWell'
  <2>1. User(n) \in OnTheWay <=> asks
    BY OnTheWayIs
  <2>2. Assistant(n) \in OnTheWay <=> ~asks
    BY <1>1, OnTheWayIs
  <2>3. OnTheWay' = OnTheWay \ {User(n), Assistant(n)}
    <3>1. OnTheWay' = (OnTheWay \ {User(n), Assistant(n)})
                      \cup (IF st = "recorded" THEN {User(n)} ELSE {})
                      \cup (IF st = "saved" THEN {Assistant(n)} ELSE {})
      BY <1>1, <1>2, OnTheWayGoes
    <3> QED BY <1>6, <3>1
  <2>4. OnTheWay' \cup {u} = OnTheWay
    <3>1. CASE asks
      BY <1>6, <2>1, <2>2, <2>3, <3>1
    <3>2. CASE ~asks
      BY <1>6, <2>1, <2>2, <2>3, <3>2
    <3> QED BY <3>1, <3>2
  <2> QED BY <1>1, <1>2, <1>7, <2>4 DEF KeptWell
<1> QED BY <1>3, <1>8, <1>12, <1>13 DEF TalkInv

LEMMA CliBegins == CliInit => CliInv
BY LogBegins, TalkBegins DEF CliInv

LEMMA CliStays == CliInv /\ UNCHANGED <<flags, replVars>> => CliInv'
<1> SUFFICES ASSUME CliInv, UNCHANGED <<flags, replVars>> PROVE CliInv'
  OBVIOUS
<1>1. LogInv'
  BY LogStays DEF CliInv, replVars
<1>2. TalkInv'
  BY DEF CliInv, replVars, TalkInv, AloneTells, PromptWaits, AnswersFollow, KeptWell, OnTheWay, User, Assistant
<1> QED BY <1>1, <1>2 DEF CliInv

LEMMA CliKeeps ==
  ASSUME CliInv, CliNext
  PROVE  CliInv'
<1>0. LogInv /\ TalkInv /\ LogInv'
  BY LogKeeps DEF CliInv
<1>1. CASE \/ StartStep \/ StartFails \/ StartOneShot \/ OneShotDone \/ StartRepl
           \/ ShutdownStep \/ ShutdownFails \/ LoopEmpty \/ Leave
  <2>1. UNCHANGED <<flags, replVars>>
    BY <1>1 DEF StartStep, StartFails, StartOneShot, OneShotDone, StartRepl, ShutdownStep,
                ShutdownFails, LoopEmpty, Leave, Exit
  <2> QED BY <2>1, CliStays
<1>2. ASSUME NEW entered \in {"prompt", "continued", "clear"}, Type(entered) PROVE CliInv'
  BY <1>0, <1>2, TalkTypes DEF CliInv
<1>3. ASSUME NEW n \in DOMAIN lines,
             \/ Clear(n) \/ PromptRecorded(n) \/ AskModel(n)
             \/ Answered(n) \/ AnswerRecorded(n) \/ AnswerKept(n) \/ TurnFails(n)
      PROVE  CliInv'
  BY <1>0, <1>3, TalkWaits, TalkClears, TalkGrows DEF CliInv
<1> QED BY <1>1, <1>2, <1>3 DEF CliNext

LEMMA CliHolds ==
  ASSUME CliInv
  PROVE  CliSound
<1>0. CliTyped /\ WrittenWell /\ GivenWell /\ AnswersFollow /\ KeptWell
  BY DEF CliInv, LogInv, TalkInv
<1>1. ASSUME NEW level \in 0 .. 2
      PROVE  /\ {NestedPolicy(level).approval, RemotePolicy(level).approval} = {"deny"}
             /\ NestedPolicy(level).level = level /\ RemotePolicy(level).level = 0
  <2>1. NestedPolicy(level).approval = "deny" /\ NestedPolicy(level).level = level
    BY DEF NestedPolicy, Derive, MainPolicy
  <2>2. RemotePolicy(level).approval = "deny" /\ RemotePolicy(level).level = 0
    BY <2>1 DEF RemotePolicy, Derive
  <2> QED BY <2>1, <2>2
<1> QED BY <1>0, <1>1 DEF WrittenWell, GivenWell, AnswersFollow, KeptWell, CliSound

-----------------------------------------------------------------------------
(* The loop that reads free text. *)

Seen == {"result", "tool error", "refused", "not found"}
StepsOf == [action : Actions, final : BOOLEAN, observation : Seen \cup {"none"}]

ReActInv ==
  /\ agent \in {"none", "loop", "planner"}
  /\ reacting \in {"idle", "call", "act", "answered", "exhausted", "thrown"}
  /\ steps \in Seq(StepsOf) /\ scratchpad \in Seq(Seen)
  /\ executed \subseteq Permitted
  /\ ShownInOrder
  /\ Len(steps) <= MaxSteps
  /\ reacting \in {"idle", "call"} => Len(steps) < MaxSteps
  /\ reacting = "act" => steps # <<>> /\ steps[Len(steps)].observation = "none"
  /\ \A i \in DOMAIN steps : steps[i].final <=> (reacting = "answered" /\ i = Len(steps))

\* How the observations of a list of steps are shown.
Shown(pad, done, at) ==
  /\ at \in [DOMAIN pad -> DOMAIN done]
  /\ \A j, k \in DOMAIN pad : j < k => at[j] < at[k]
  /\ {at[k] : k \in DOMAIN pad} = {i \in DOMAIN done : done[i].observation # "none"}
  /\ \A k \in DOMAIN pad : pad[k] = done[at[k]].observation

LEMMA ShownIs == ShownInOrder <=> \E at : Shown(scratchpad, steps, at)
<1>1. ASSUME ShownInOrder PROVE \E at : Shown(scratchpad, steps, at)
  <2>1. PICK at \in [DOMAIN scratchpad -> DOMAIN steps] :
          /\ \A j, k \in DOMAIN scratchpad : j < k => at[j] < at[k]
          /\ {at[k] : k \in DOMAIN scratchpad} = {i \in DOMAIN steps : steps[i].observation # "none"}
          /\ \A k \in DOMAIN scratchpad : scratchpad[k] = steps[at[k]].observation
    BY <1>1 DEF ShownInOrder
  <2>2. Shown(scratchpad, steps, at)
    BY <2>1 DEF Shown
  <2> QED BY <2>2
<1>2. ASSUME NEW at, Shown(scratchpad, steps, at) PROVE ShownInOrder
  BY <1>2 DEF Shown, ShownInOrder
<1> QED BY <1>1, <1>2

LEMMA ShownIsNext == ASSUME NEW at, Shown(scratchpad', steps', at) PROVE ShownInOrder'
BY DEF Shown, ShownInOrder

\* A step without an observation changes nothing of what is shown.
LEMMA ShownWithout ==
  ASSUME NEW pad, NEW done \in Seq(StepsOf), NEW e \in StepsOf, e.observation = "none",
         NEW at, Shown(pad, done, at)
  PROVE  Shown(pad, Append(done, e), at)
<1> DEFINE t == Append(done, e)
<1>1. /\ Len(done) \in Nat /\ DOMAIN done = 1 .. Len(done) /\ DOMAIN t = 1 .. Len(done) + 1
      /\ t[Len(done) + 1] = e /\ \A i \in 1 .. Len(done) : t[i] = done[i]
  BY Grows
<1>2. /\ \A i \in 1 .. Len(done) + 1 : i \in 1 .. Len(done) \/ i = Len(done) + 1
      /\ \A i \in 1 .. Len(done) : i \in 1 .. Len(done) + 1
  BY <1>1
<1> HIDE DEF t
<1>3. {i \in DOMAIN t : t[i].observation # "none"} = {i \in DOMAIN done : done[i].observation # "none"}
  BY <1>1, <1>2
<1>4. at \in [DOMAIN pad -> DOMAIN t]
  BY <1>1, <1>2 DEF Shown
<1>5. \A k \in DOMAIN pad : at[k] \in DOMAIN done
  BY DEF Shown
<1>6. \A k \in DOMAIN pad : pad[k] = t[at[k]].observation
  BY <1>1, <1>5 DEF Shown
<1> QED BY <1>3, <1>4, <1>6 DEF Shown, t

\* The observation of the last step comes last.
LEMMA ShownMore ==
  ASSUME NEW pad \in Seq(Seen), NEW done \in Seq(StepsOf), NEW at, Shown(pad, done, at), NEW o \in Seen,
         done # <<>>, done[Len(done)].observation = "none",
         NEW next \in Seq(StepsOf), Len(next) = Len(done), next[Len(done)].observation = o,
         \A i \in DOMAIN done : i # Len(done) => next[i] = done[i]
  PROVE  \E f : Shown(Append(pad, o), next, f)
<1> DEFINE t == Append(pad, o)
           N == Len(done)
           f == [k \in 1 .. Len(pad) + 1 |-> IF k = Len(pad) + 1 THEN N ELSE at[k]]
<1>1. /\ Len(pad) \in Nat /\ DOMAIN pad = 1 .. Len(pad) /\ DOMAIN t = 1 .. Len(pad) + 1
      /\ t[Len(pad) + 1] = o /\ \A i \in 1 .. Len(pad) : t[i] = pad[i]
  BY Grows
<1>2. N \in Nat /\ N \in 1 .. N /\ DOMAIN done = 1 .. N /\ DOMAIN next = 1 .. N
  BY EmptySeq, LenProperties
<1>3. \A k \in 1 .. Len(pad) : at[k] \in 1 .. N /\ at[k] # N
  <2> SUFFICES ASSUME NEW k \in 1 .. Len(pad) PROVE at[k] \in 1 .. N /\ at[k] # N
    OBVIOUS
  <2>1. at[k] \in {i \in DOMAIN done : done[i].observation # "none"}
    BY <1>1 DEF Shown
  <2> QED BY <1>2, <2>1
<1>4. /\ f[Len(pad) + 1] = N /\ DOMAIN f = 1 .. Len(pad) + 1
      /\ \A k \in 1 .. Len(pad) : f[k] = at[k]
  BY <1>1
<1>5. f \in [1 .. Len(pad) + 1 -> 1 .. N]
  BY <1>1, <1>2, <1>3
<1> HIDE DEF t, N, f
<1>6. \A k \in 1 .. Len(pad) + 1 : k \in 1 .. Len(pad) \/ k = Len(pad) + 1
  BY <1>1
<1>7. ASSUME NEW j \in 1 .. Len(pad) + 1, NEW k \in 1 .. Len(pad) + 1, j < k PROVE f[j] < f[k]
  <2>0. j \in 1 .. Len(pad)
    BY <1>1, <1>7
  <2>1. CASE k \in 1 .. Len(pad)
    <3>1. at[j] < at[k]
      BY <1>1, <1>7, <2>0, <2>1 DEF Shown
    <3> QED BY <1>4, <2>0, <2>1, <3>1
  <2>2. CASE k = Len(pad) + 1
    <3>1. f[j] = at[j] /\ f[k] = N
      BY <1>4, <2>0, <2>2
    <3>2. at[j] \in 1 .. N /\ at[j] # N
      BY <1>3, <2>0
    <3> QED BY <1>2, <3>1, <3>2
  <2> QED BY <1>6, <2>1, <2>2
<1>8. {f[k] : k \in 1 .. Len(pad) + 1} = {i \in 1 .. N : next[i].observation # "none"}
  <2>1. {at[k] : k \in 1 .. Len(pad)} = {i \in 1 .. N : done[i].observation # "none"}
    BY <1>1, <1>2 DEF Shown
  <2>2. o # "none"
    BY DEF Seen
  <2>3. {i \in 1 .. N : next[i].observation # "none"} = {i \in 1 .. N : done[i].observation # "none"} \cup {N}
    BY <1>2, <2>2 DEF N
  <2>4. {f[k] : k \in 1 .. Len(pad) + 1} = {at[k] : k \in 1 .. Len(pad)} \cup {N}
    <3>1. Len(pad) + 1 \in 1 .. Len(pad) + 1 /\ \A k \in 1 .. Len(pad) : k \in 1 .. Len(pad) + 1
      BY <1>1
    <3> QED BY <1>4, <1>6, <3>1
  <2> QED BY <2>1, <2>3, <2>4
<1>9. ASSUME NEW k \in 1 .. Len(pad) + 1 PROVE t[k] = next[f[k]].observation
  <2>1. CASE k \in 1 .. Len(pad)
    <3>1. t[k] = pad[k] /\ f[k] = at[k] /\ at[k] \in 1 .. N /\ at[k] # N
      BY <1>1, <1>3, <1>4, <2>1
    <3>2. next[at[k]] = done[at[k]]
      BY <1>2, <3>1 DEF N
    <3> QED BY <1>1, <2>1, <3>1, <3>2 DEF Shown
  <2>2. CASE k = Len(pad) + 1
    BY <1>1, <1>4, <2>2 DEF N
  <2> QED BY <1>6, <2>1, <2>2
<1>10. Shown(t, next, f)
  BY <1>1, <1>2, <1>5, <1>7, <1>8, <1>9 DEF Shown
<1> QED BY <1>10 DEF t

LEMMA ReActBegins == ReActInit => ReActInv
<1> SUFFICES ASSUME ReActInit PROVE ReActInv
  OBVIOUS
<1>1. /\ agent = "none" /\ reacting = "idle" /\ steps = <<>> /\ scratchpad = <<>> /\ executed = {}
      /\ DOMAIN steps = {} /\ DOMAIN scratchpad = {} /\ Len(steps) = 0
  <2>1. steps = <<>> /\ scratchpad = <<>>
    BY DEF ReActInit
  <2> QED BY <2>1 DEF ReActInit
<1>2. 0 < MaxSteps /\ 0 <= MaxSteps
  BY ReActAssumption
<1>3. Shown(scratchpad, steps, <<>>)
  <2>1. <<>> \in [{} -> {}]
    OBVIOUS
  <2> QED BY <1>1, <2>1 DEF Shown
<1>4. steps \in Seq(StepsOf) /\ scratchpad \in Seq(Seen)
  BY <1>1
<1> QED BY <1>1, <1>2, <1>3, <1>4, ShownIs DEF ReActInv

LEMMA ParsedKeeps ==
  ASSUME ReActInv, NEW action \in Actions, NEW final \in BOOLEAN, Parsed(action, final)
  PROVE  ReActInv'
<1> DEFINE e == Step(action, final)
<1>1. /\ reacting = "call" /\ steps' = Append(steps, e)
      /\ reacting' = IF final THEN "answered"
                     ELSE IF action = NoTool /\ agent = "loop" THEN NoAction(Len(steps) + 1) ELSE "act"
      /\ UNCHANGED <<agent, scratchpad, executed>>
  BY DEF Parsed
<1>2. e \in StepsOf /\ e.observation = "none" /\ e.final = final
  BY DEF Step, StepsOf
<1> HIDE DEF e
<1>3. /\ steps' \in Seq(StepsOf) /\ steps' # <<>> /\ Len(steps) \in Nat /\ Len(steps') = Len(steps) + 1
      /\ DOMAIN steps = 1 .. Len(steps) /\ DOMAIN steps' = 1 .. Len(steps) + 1
      /\ steps'[Len(steps) + 1] = e /\ \A i \in 1 .. Len(steps) : steps'[i] = steps[i]
  <2>1. steps \in Seq(StepsOf)
    BY DEF ReActInv
  <2> QED BY <1>1, <1>2, <2>1, Grows
<1>4. ShownInOrder'
  <2>1. PICK at : Shown(scratchpad, steps, at)
    BY ShownIs DEF ReActInv
  <2>2. steps \in Seq(StepsOf)
    BY DEF ReActInv
  <2>3. Shown(scratchpad, Append(steps, e), at)
    BY <1>2, <2>1, <2>2, ShownWithout
  <2> QED BY <1>1, <2>3, ShownIsNext
<1>5. Len(steps') <= MaxSteps /\ (reacting' = "call" => Len(steps') < MaxSteps)
  <2>1. Len(steps) < MaxSteps /\ MaxSteps \in Nat
    BY <1>1, ReActAssumption DEF ReActInv
  <2>2. reacting' = "call" => ~(Len(steps) + 1 >= MaxSteps - 1)
    BY <1>1 DEF NoAction
  <2> QED BY <1>3, <2>1, <2>2
<1>6. /\ reacting' \in {"call", "act", "answered", "exhausted"}
      /\ reacting' = "answered" <=> final
  BY <1>1 DEF NoAction
<1>7. ASSUME NEW i \in 1 .. Len(steps) + 1
      PROVE  steps'[i].final <=> (reacting' = "answered" /\ i = Len(steps'))
  <2>1. CASE i = Len(steps) + 1
    BY <1>2, <1>3, <1>6, <2>1
  <2>2. CASE i # Len(steps) + 1
    <3>1. i \in 1 .. Len(steps)
      BY <1>3, <2>2
    <3>2. steps'[i].final = FALSE
      <4>1. ~steps[i].final
        BY <1>1, <1>3, <3>1, SMTT(60) DEF ReActInv
      <4>2. steps[i] \in StepsOf
        BY <1>3, <3>1 DEF ReActInv
      <4> QED BY <1>3, <3>1, <4>1, <4>2 DEF StepsOf
    <3> QED BY <1>3, <2>2, <3>2
  <2> QED BY <2>1, <2>2
<1> QED BY <1>1, <1>2, <1>3, <1>4, <1>5, <1>6, <1>7 DEF ReActInv

LEMMA ObserveKeeps ==
  ASSUME ReActInv, Observe
  PROVE  ReActInv'
<1> DEFINE tool == Last(steps).action
           N == Len(steps)
<1>1. PICK o \in Observations(tool) :
        steps' = [steps EXCEPT ![N].observation = o] /\ scratchpad' = Append(scratchpad, o)
  BY DEF Observe
<1>2. /\ reacting = "act" /\ executed' = executed \cup ({tool} \cap Permitted)
      /\ reacting' = IF N < MaxSteps THEN "call" ELSE "exhausted"
      /\ agent' = agent
  BY DEF Observe
<1>3. o \in Seen
  BY DEF Observations, Seen
<1>4. /\ steps \in Seq(StepsOf) /\ N \in Nat /\ DOMAIN steps = 1 .. N /\ N \in 1 .. N
      /\ steps # <<>> /\ steps[N].observation = "none"
  BY <1>2, EmptySeq, LenProperties DEF ReActInv
<1>5. /\ steps' \in Seq(StepsOf) /\ Len(steps') = N /\ DOMAIN steps' = 1 .. N
      /\ steps'[N].observation = o /\ steps'[N].final = steps[N].final
      /\ \A i \in 1 .. N : i # N => steps'[i] = steps[i]
  <2> DEFINE e == [steps[N] EXCEPT !.observation = o]
  <2>1. steps[N] \in StepsOf
    BY <1>4
  <2>2. e \in StepsOf /\ e.observation = o /\ e.final = steps[N].final
    BY <1>3, <2>1 DEF StepsOf
  <2>3. steps' = [steps EXCEPT ![N] = e]
    BY <1>1
  <2> HIDE DEF e, N
  <2> QED BY <1>4, <2>2, <2>3
<1> HIDE DEF tool
<1>6. ShownInOrder'
  <2>1. PICK at : Shown(scratchpad, steps, at)
    BY ShownIs DEF ReActInv
  <2>2. scratchpad \in Seq(Seen)
    BY DEF ReActInv
  <2>3. \E f : Shown(Append(scratchpad, o), steps', f)
    BY <1>3, <1>4, <1>5, <2>1, <2>2, ShownMore
  <2> QED BY <1>1, <2>3, ShownIsNext
<1>7. scratchpad' \in Seq(Seen) /\ executed' \subseteq Permitted
  BY <1>1, <1>2, <1>3 DEF ReActInv
<1>8. N <= MaxSteps /\ MaxSteps \in Nat
  BY ReActAssumption DEF ReActInv
<1>9. ASSUME NEW i \in 1 .. N
      PROVE  steps'[i].final <=> (reacting' = "answered" /\ i = N)
  <2>1. ~steps[i].final
    BY <1>2, <1>4 DEF ReActInv
  <2>2. steps'[i].final = steps[i].final
    BY <1>5
  <2> QED BY <1>2, <2>1, <2>2
<1> HIDE DEF N
<1> QED BY <1>2, <1>5, <1>6, <1>7, <1>8, <1>9 DEF ReActInv, N

LEMMA ReActKeeps ==
  ASSUME ReActInv, ReActNext
  PROVE  ReActInv'
<1>1. ASSUME NEW a \in {"loop", "planner"}, React(a) PROVE ReActInv'
  <2>1. /\ reacting = "idle" /\ agent' = a /\ reacting' = "call"
        /\ UNCHANGED <<steps, scratchpad, executed>>
    BY <1>1 DEF React
  <2> QED BY <2>1 DEF ReActInv, ShownInOrder
<1>2. CASE CallFails
  <2>1. /\ reacting = "call" /\ reacting' \in {"thrown", "exhausted"}
        /\ UNCHANGED <<agent, steps, scratchpad, executed>>
    BY <1>2 DEF CallFails
  <2> QED BY <2>1 DEF ReActInv, ShownInOrder
<1>3. ASSUME NEW action \in Actions, NEW final \in BOOLEAN, Parsed(action, final) PROVE ReActInv'
  BY <1>3, ParsedKeeps
<1> QED BY <1>1, <1>2, <1>3, ObserveKeeps DEF ReActNext, ReActProgress, Answer

LEMMA ReActStays == ReActInv /\ UNCHANGED reactVars => ReActInv'
BY DEF ReActInv, ShownInOrder, reactVars

LEMMA ReActHolds == ReActInv => ReActGated
BY ReActAssumption DEF ReActInv, ReActGated, Permitted

-----------------------------------------------------------------------------
(* The research executor. *)

LEMMA ZerosAreNothing ==
  ASSUME NEW n \in Nat, NEW s, s = [i \in 1 .. n |-> 0]
  PROVE  s \in Seq(Nat) /\ Len(s) = n /\ TokensOf(s) = 0
<1>1. s \in [1 .. n -> Nat]
  OBVIOUS
<1>2. s \in Seq(Nat) /\ Len(s) = n
  BY <1>1 DEF Seq
<1> DEFINE g == [i \in 0 .. Len(s) |-> 0]
<1>3. Sums(s, g)
  <2>1. g[0] = 0 /\ \A i \in 1 .. Len(s) : g[i] = 0 /\ g[i - 1] = 0 /\ s[i] = 0
    BY <1>2
  <2> HIDE DEF g
  <2> QED BY <2>1 DEF Sums
<1>4. g[Len(s)] = 0
  BY <1>2
<1>5. s \in Seq(Int)
  BY <1>2
<1> HIDE DEF g
<1> QED BY <1>2, <1>3, <1>4, <1>5, SumIs

\* A step that was asked knows what it needs, which does not change any more, and one that is
\* not complete has cost nothing.
StepKnows(s) ==
  /\ standing[s] # "waiting" =>
       /\ \A d \in needs[s] : standing[d] = "completed"
       /\ known[s] = {d \in needs[s] : outcome[d] # ""}
  /\ standing[s] # "completed" => spentOn[s] = 0

ResearchInv ==
  /\ spentOn \in Seq(Nat) /\ planned = 1 .. Len(spentOn)
  /\ DOMAIN standing = planned /\ DOMAIN outcome = planned /\ DOMAIN known = planned
  /\ \A s \in planned : StepKnows(s) /\ needs[s] \subseteq planned
  /\ tokens = TokensOf(spentOn)
  /\ inquiry \in {"idle", "planning"} => spentOn = <<>>
  /\ inquiry \in {"reporting", "reported", "failed"} => \A s \in planned : standing[s] = "completed"

LEMMA NthIs ==
  ASSUME NEW S \in SUBSET Nat, IsFiniteSet(S), NEW i \in 1 .. Cardinality(S)
  PROVE  Nth(S, i) \in S
<1>0. Cardinality(S) \in Nat
  BY FS_CardinalityType
<1>1. Cardinality(First(S, i)) = i /\ Cardinality(First(S, i - 1)) = i - 1
  <2>1. i \in 0 .. Cardinality(S) /\ i - 1 \in 0 .. Cardinality(S)
    BY <1>0
  <2>2. Cardinality(First(S, i)) = i
    BY <2>1, FirstCounts
  <2>3. Cardinality(First(S, i - 1)) = i - 1
    BY <2>1, FirstCounts
  <2> QED BY <2>2, <2>3
<1>2. PICK m \in First(S, i) : m \notin First(S, i - 1)
  <2>1. First(S, i) \subseteq S /\ First(S, i - 1) \subseteq S
    BY DEF First
  <2>2. IsFiniteSet(First(S, i)) /\ IsFiniteSet(First(S, i - 1))
    BY <2>1, FS_Subset
  <2>3. ASSUME First(S, i) \subseteq First(S, i - 1) PROVE FALSE
    <3>1. Cardinality(First(S, i)) <= Cardinality(First(S, i - 1))
      BY <2>2, <2>3, FS_Subset
    <3> QED BY <1>0, <1>1, <3>1
  <2> QED BY <2>3
<1>3. m \in S /\ Cardinality(Below(S, m)) < i /\ ~(Cardinality(Below(S, m)) < i - 1)
  BY <1>2 DEF First
<1>4. IsFiniteSet(Below(S, m)) /\ Cardinality(Below(S, m)) \in Nat
  BY <1>3, BelowIs
<1>5. {j \in S : j <= m} = Below(S, m) \cup {m} /\ m \notin Below(S, m)
  <2>1. m \in Nat
    BY <1>3
  <2>2. ASSUME NEW j \in S PROVE j <= m <=> j < m \/ j = m
    <3>1. j \in Nat
      OBVIOUS
    <3> QED BY <2>1, <3>1
  <2>3. ~(m < m)
    BY <2>1
  <2> QED BY <1>3, <2>2, <2>3, Zenon DEF Below
<1>6. Cardinality(Below(S, m) \cup {m}) = Cardinality(Below(S, m)) + 1
  BY <1>4, <1>5, FS_AddElement
<1>7. Cardinality({j \in S : j <= m}) = i
  <2>1. Cardinality(Below(S, m)) + 1 = i
    BY <1>0, <1>3, <1>4
  <2> QED BY <1>5, <1>6, <2>1
<1> QED BY <1>3, <1>7 DEF Nth

\* A parsed step depends on steps before it.
PlanOf(parsed) == \E n \in Nat : DOMAIN parsed = 1 .. n /\ \A i \in 1 .. n : parsed[i] \subseteq 1 .. n

LEMMA ParseIs ==
  ASSUME NEW n \in Nat, NEW blocks \in [1 .. n -> Blocks]
  PROVE  PlanOf(Parse(blocks))
<1> DEFINE usable == {k \in DOMAIN blocks : blocks[k].parses}
           N == Cardinality(usable)
<1>1. IsFiniteSet(usable) /\ usable \in SUBSET Nat /\ usable \subseteq 1 .. n
  <2>1. IsFiniteSet(1 .. n)
    BY FS_Interval
  <2>2. usable \subseteq 1 .. n
    OBVIOUS
  <2> QED BY <2>1, <2>2, FS_Subset
<1>2. N \in Nat
  BY <1>1, FS_CardinalityType
<1>3. CASE usable = {}
  <2>1. Parse(blocks) = <<{}>>
    BY <1>3 DEF Parse
  <2>2. DOMAIN <<{}>> = 1 .. 1 /\ <<{}>>[1] = {} /\ 1 \in Nat
    OBVIOUS
  <2> QED BY <2>1, <2>2 DEF PlanOf
<1>4. CASE usable # {}
  <2>1. Parse(blocks) = [i \in 1 .. N |-> KnownSteps(blocks[Nth(usable, i)].numbers, i - 1)]
    BY <1>4 DEF Parse
  <2>2. ASSUME NEW i \in 1 .. N
        PROVE  KnownSteps(blocks[Nth(usable, i)].numbers, i - 1) \subseteq 1 .. N
    <3> DEFINE k == Nth(usable, i)
    <3>1. k \in 1 .. n
      <4> HIDE DEF usable
      <4> QED BY <1>1, NthIs
    <3>2. blocks[k].numbers \subseteq 1 .. MaxBlocks
      BY <3>1 DEF Blocks
    <3> HIDE DEF k, usable
    <3>3. ASSUME NEW d \in blocks[k].numbers, d <= i - 1 PROVE d \in 1 .. N
      <4>1. d \in 1 .. MaxBlocks /\ MaxBlocks \in Nat
        BY <3>2, ResearchAssumption
      <4> QED BY <1>2, <3>3, <4>1
    <3> QED BY <3>3 DEF KnownSteps, k
  <2> QED BY <1>2, <2>1, <2>2 DEF PlanOf
<1> QED BY <1>3, <1>4

LEMMA ResearchBegins == ResearchInit => ResearchInv
<1> SUFFICES ASSUME ResearchInit PROVE ResearchInv
  OBVIOUS
<1>1. spentOn \in Seq(Nat) /\ Len(spentOn) = 0 /\ spentOn = <<>> /\ tokens = 0
  BY DEF ResearchInit
<1>2. TokensOf(spentOn) = 0
  BY <1>1, SumEmpty
<1> QED BY <1>1, <1>2 DEF ResearchInit, ResearchInv, planned

LEMMA AdoptKeeps ==
  ASSUME NEW parsed, PlanOf(parsed), ResearchInv, AdoptSteps(parsed)
  PROVE  ResearchInv'
<1>1. PICK n \in Nat : DOMAIN parsed = 1 .. n /\ \A i \in 1 .. n : parsed[i] \subseteq 1 .. n
  BY DEF PlanOf
<1>2. /\ inquiry = "planning" /\ inquiry' = "executing" /\ needs' = parsed /\ tokens' = tokens
      /\ standing' = [s \in 1 .. n |-> "waiting"]
      /\ outcome' = [s \in 1 .. n |-> ""]
      /\ known' = [s \in 1 .. n |-> {}]
      /\ spentOn' = [s \in 1 .. n |-> 0]
  BY <1>1 DEF AdoptSteps
<1>3. spentOn' \in Seq(Nat) /\ Len(spentOn') = n /\ TokensOf(spentOn') = 0
  BY <1>2, ZerosAreNothing
<1>4. tokens = 0
  BY <1>2, SumEmpty DEF ResearchInv
<1>5. planned' = 1 .. n
  BY <1>1, <1>2 DEF planned
<1>6. ASSUME NEW s \in 1 .. n PROVE StepKnows(s)' /\ needs'[s] \subseteq 1 .. n
  BY <1>1, <1>2 DEF StepKnows
<1> QED BY <1>2, <1>3, <1>4, <1>5, <1>6 DEF ResearchInv

LEMMA AskKeeps ==
  ASSUME NEW s \in planned, ResearchInv, Ask(s)
  PROVE  ResearchInv'
<1>1. /\ inquiry = "executing" /\ standing[s] = "waiting"
      /\ \A d \in needs[s] : standing[d] = "completed"
      /\ standing' = [standing EXCEPT ![s] = "asking"]
      /\ known' = [known EXCEPT ![s] = {d \in needs[s] : outcome[d] # ""}]
      /\ UNCHANGED <<inquiry, needs, outcome, tokens, spentOn>>
  BY DEF Ask, DependenciesComplete
<1>2. DOMAIN standing = planned /\ DOMAIN known = planned
  BY DEF ResearchInv
<1>4. ASSUME NEW r \in planned PROVE StepKnows(r)'
  <2>1. StepKnows(r) /\ StepKnows(s) /\ needs[r] \subseteq planned
    BY DEF ResearchInv
  <2>2. ASSUME NEW d \in planned, standing[d] = "completed" PROVE standing'[d] = "completed"
    <3>1. d # s
      BY <1>1, <2>2
    <3> QED BY <1>1, <1>2, <2>2, <3>1
  <2>3. CASE r = s
    BY <1>1, <1>2, <2>1, <2>2, <2>3 DEF StepKnows
  <2>4. CASE r # s
    <3>1. standing'[r] = standing[r] /\ known'[r] = known[r]
      BY <1>1, <1>2, <2>4
    <3> QED BY <1>1, <2>1, <2>2, <3>1 DEF StepKnows
  <2> QED BY <2>3, <2>4
<1> QED BY <1>1, <1>2, <1>4 DEF ResearchInv, planned

LEMMA CompleteKeeps ==
  ASSUME NEW s \in planned, NEW result, NEW used \in Nat, ResearchInv, Complete(s, result, used)
  PROVE  ResearchInv'
<1>1. /\ standing[s] = "asking"
      /\ standing' = [standing EXCEPT ![s] = "completed"]
      /\ outcome' = [outcome EXCEPT ![s] = result]
      /\ spentOn' = [spentOn EXCEPT ![s] = used]
      /\ tokens' = tokens + used
      /\ UNCHANGED <<inquiry, needs, known>>
  BY DEF Complete
<1>2. /\ DOMAIN standing = planned /\ DOMAIN known = planned /\ DOMAIN outcome = planned
      /\ spentOn \in Seq(Nat) /\ planned = 1 .. Len(spentOn)
      /\ tokens = TokensOf(spentOn)
  BY DEF ResearchInv
<1>3. spentOn[s] = 0
  BY <1>1 DEF ResearchInv, StepKnows
<1>4. spentOn' \in Seq(Nat) /\ Len(spentOn') = Len(spentOn)
  BY <1>1, <1>2
<1>5. TokensOf(spentOn') = TokensOf(spentOn) + used
  <2>1. spentOn \in Seq(Int) /\ s \in 1 .. Len(spentOn) /\ used \in Int
    BY <1>2
  <2>2. TokensOf([spentOn EXCEPT ![s] = used]) = TokensOf(spentOn) - spentOn[s] + used
    BY <2>1, SumExcept
  <2>3. TokensOf(spentOn) \in Int
    <3>1. PICK g \in [0 .. Len(spentOn) -> Int] : TokensOf(spentOn) = g[Len(spentOn)]
      BY <2>1, SumUnfolds
    <3>2. Len(spentOn) \in 0 .. Len(spentOn)
      BY <2>1, LenProperties
    <3> QED BY <3>1, <3>2
  <2> QED BY <1>1, <1>3, <2>2, <2>3
<1>6. ASSUME NEW r \in planned PROVE StepKnows(r)'
  <2>1. StepKnows(r) /\ StepKnows(s) /\ needs[r] \subseteq planned
    BY DEF ResearchInv
  <2>2. ASSUME NEW d \in planned, standing[d] = "completed"
        PROVE  standing'[d] = "completed" /\ outcome'[d] = outcome[d]
    <3>1. d # s
      BY <1>1, <2>2
    <3> QED BY <1>1, <1>2, <2>2, <3>1
  <2>3. \A d \in needs[r] : standing[r] # "waiting" => standing'[d] = "completed" /\ outcome'[d] = outcome[d]
    BY <2>1, <2>2 DEF StepKnows
  <2>4. standing'[r] # "waiting" => standing[r] # "waiting"
    BY <1>1, <1>2
  <2>5. standing'[r] # "completed" => spentOn'[r] = 0
    <3>1. CASE r = s
      BY <1>1, <1>2, <3>1
    <3>2. CASE r # s
      <4>1. standing'[r] = standing[r] /\ spentOn'[r] = spentOn[r]
        BY <1>1, <1>2, <3>2
      <4> QED BY <2>1, <4>1 DEF StepKnows
    <3> QED BY <3>1, <3>2
  <2> QED BY <1>1, <2>1, <2>3, <2>4, <2>5 DEF StepKnows
<1>7. planned' = planned
  BY <1>1 DEF planned
<1>8. \A r \in planned : standing[r] = "completed" => standing'[r] = "completed"
  BY <1>1, <1>2
<1>9. inquiry \in {"idle", "planning"} => FALSE
  <2>1. Len(<<>>) = 0
    OBVIOUS
  <2> QED BY <1>2, <2>1 DEF ResearchInv
<1> QED BY <1>1, <1>2, <1>4, <1>5, <1>6, <1>7, <1>8, <1>9 DEF ResearchInv

LEMMA ResearchKeeps ==
  ASSUME ResearchInv, ResearchNext
  PROVE  ResearchInv'
<1>1. CASE Research
  BY <1>1 DEF Research, ResearchInv, StepKnows, planned
<1>2. CASE PlanResearch
  <2>1. PICK n \in 0 .. MaxBlocks : \E blocks \in [1 .. n -> Blocks] : AdoptSteps(Parse(blocks))
    BY <1>2 DEF PlanResearch, ParsedPlans
  <2>3. PICK blocks \in [1 .. n -> Blocks] : AdoptSteps(Parse(blocks))
    BY <2>1
  <2>2. n \in Nat
    BY ResearchAssumption
  <2> QED BY <2>3, <2>2, ParseIs, AdoptKeeps
<1>3. CASE PlanFallback
  <2>1. DOMAIN <<{}>> = 1 .. 1 /\ <<{}>>[1] = {} /\ 1 \in Nat
    OBVIOUS
  <2>2. PlanOf(<<{}>>)
    BY <2>1 DEF PlanOf
  <2> QED BY <1>3, <2>2, AdoptKeeps DEF PlanFallback
<1>4. CASE Finish
  BY <1>4 DEF Finish, ResearchInv, StepKnows, planned
<1>5. CASE Report
  BY <1>5 DEF Report, ResearchInv, StepKnows, planned
<1>6. ASSUME NEW s \in planned, StepEnds(s) PROVE ResearchInv'
  <2>1. ASSUME NEW used \in 0 .. StepTokens, Complete(s, "text", used) PROVE ResearchInv'
    <3>1. used \in Nat
      BY ResearchAssumption
    <3> QED BY <2>1, <3>1, CompleteKeeps
  <2>2. ASSUME NEW result, Complete(s, result, 0) PROVE ResearchInv'
    <3>1. 0 \in Nat
      OBVIOUS
    <3> QED BY <2>2, <3>1, CompleteKeeps
  <2> QED BY <1>6, <2>1, <2>2 DEF StepEnds
<1> QED BY <1>1, <1>2, <1>3, <1>4, <1>5, <1>6, AskKeeps DEF ResearchNext, ResearchProgress

LEMMA ResearchStays == ResearchInv /\ UNCHANGED researchVars => ResearchInv'
<1> SUFFICES ASSUME ResearchInv, UNCHANGED researchVars PROVE ResearchInv'
  OBVIOUS
<1>1. UNCHANGED <<inquiry, needs, standing, outcome, known, tokens, spentOn>>
  BY DEF researchVars
<1>2. planned' = planned
  BY <1>1 DEF planned
<1>3. ASSUME NEW s \in planned PROVE StepKnows(s)'
  BY <1>1 DEF ResearchInv, StepKnows
<1> QED BY <1>1, <1>2, <1>3 DEF ResearchInv

LEMMA ResearchHolds == ResearchInv => ResearchSound
BY DEF ResearchInv, StepKnows, ResearchSound

-----------------------------------------------------------------------------
(* The shell tool. *)

Starts(s, t) == Len(s) <= Len(t) /\ \A i \in 1 .. Len(s) : s[i] = t[i]

LEMMA PrefixIs ==
  ASSUME NEW S, NEW s \in Seq(S), NEW t \in Seq(S), Starts(s, t)
  PROVE  IsPrefix(s, t)
<1> DEFINE u == SubSeq(s, 1, Len(s))
           v == SubSeq(t, 1, Len(s))
<1>1. Len(s) \in Nat /\ Len(t) \in Nat /\ Len(s) <= Len(t)
  BY LenProperties DEF Starts
<1>2. u \in Seq(S) /\ Len(u) = Len(s) /\ \A i \in 1 .. Len(s) : u[i] = s[i]
  BY <1>1
<1>3. v \in Seq(S) /\ Len(v) = Len(s) /\ \A i \in 1 .. Len(s) : v[i] = t[i]
  BY <1>1
<1> HIDE DEF u, v
<1>4. u = v
  <2>1. \A i \in 1 .. Len(u) : u[i] = v[i]
    BY <1>2, <1>3 DEF Starts
  <2> QED BY <1>2, <1>3, <2>1, SeqEqual
<1> QED BY <1>1, <1>4 DEF IsPrefix, u, v

\* What is shown is the beginning of what was written, and all of it until a piece did not fit.
OutputInv ==
  /\ emitted \in Seq(Int) /\ keptOutput \in Seq(Int) /\ truncated \in BOOLEAN
  /\ Starts(keptOutput, emitted)
  /\ TokensOf(keptOutput) \in Int /\ TokensOf(keptOutput) <= MaxOutput
  /\ IF truncated THEN Len(keptOutput) < Len(emitted)
                  ELSE keptOutput = emitted /\ bytes = TokensOf(keptOutput)

ShellInv ==
  /\ OutputInv
  /\ shellCall = "asked" => leader = "none" /\ ~helper /\ ~stray /\ ~shellTimer /\ ~listening
  /\ shellCall = "ok" => leader = "clean"
  /\ shellCall \in {"ok", "error"} => ~shellTimer /\ ~listening /\ ~HoldsOutput
  /\ shellCall = "running" /\ ~shellTimer => leader # "alive" /\ ~helper
  /\ shellCall \in {"asked", "running", "ok", "error"}

LEMMA ShellBegins == ShellInit => ShellInv
<1> SUFFICES ASSUME ShellInit PROVE ShellInv
  OBVIOUS
<1>1. emitted = <<>> /\ keptOutput = <<>> /\ bytes = 0 /\ truncated = FALSE
  BY DEF ShellInit
<1>2. TokensOf(<<>>) = 0 /\ MaxOutput \in Nat
  BY SumEmpty, ShellAssumption
<1>3. <<>> \in Seq(Int) /\ Starts(<<>>, <<>>)
  BY DEF Starts
<1>4. TokensOf(keptOutput) = 0 /\ 0 \in Int /\ 0 <= MaxOutput
  BY <1>1, <1>2
<1>5. emitted \in Seq(Int) /\ keptOutput \in Seq(Int) /\ Starts(keptOutput, emitted)
  BY <1>1, <1>3
<1>6. OutputInv
  BY <1>1, <1>4, <1>5 DEF OutputInv
<1> QED BY <1>6 DEF ShellInit, ShellInv

LEMMA OutputStays == OutputInv /\ UNCHANGED outputVars => OutputInv'
BY DEF OutputInv, Starts, outputVars

LEMMA PieceKeeps ==
  ASSUME NEW size \in PieceSizes, OutputInv, PieceOfOutput(size)
  PROVE  OutputInv'
<1>1. /\ emitted' = Append(emitted, size)
      /\ bytes' = IF truncated THEN bytes ELSE bytes + size
      /\ keptOutput' = IF Fits(size) THEN Append(keptOutput, size) ELSE keptOutput
      /\ truncated' = ~Fits(size)
  BY DEF PieceOfOutput
<1>2. size \in Int /\ MaxOutput \in Int
  BY ShellAssumption
<1>3. /\ emitted \in Seq(Int) /\ keptOutput \in Seq(Int) /\ Starts(keptOutput, emitted)
      /\ Len(emitted) \in Nat /\ Len(keptOutput) \in Nat
      /\ TokensOf(keptOutput) \in Int /\ TokensOf(keptOutput) <= MaxOutput
  BY LenProperties DEF OutputInv
<1>4. emitted' \in Seq(Int) /\ Len(emitted') = Len(emitted) + 1 /\ \A i \in 1 .. Len(emitted) : emitted'[i] = emitted[i]
  BY <1>1, <1>2, <1>3
<1>5. CASE Fits(size)
  <2>1. ~truncated /\ bytes + size <= MaxOutput
    BY <1>5 DEF Fits
  <2>2. keptOutput = emitted /\ bytes = TokensOf(keptOutput)
    BY <2>1 DEF OutputInv
  <2>3. TokensOf(Append(keptOutput, size)) = TokensOf(keptOutput) + size
    BY <1>2, <1>3, SumAppend
  <2>4. keptOutput' = emitted' /\ Starts(keptOutput', emitted')
    <3>1. keptOutput' = emitted'
      BY <1>1, <1>5, <2>2
    <3> QED BY <1>3, <1>4, <3>1 DEF Starts
  <2>5. keptOutput' = Append(keptOutput, size) /\ bytes' = bytes + size /\ truncated' = FALSE
    BY <1>1, <1>5, <2>1
  <2>6. TokensOf(keptOutput') = bytes' /\ TokensOf(keptOutput') \in Int /\ TokensOf(keptOutput') <= MaxOutput
    BY <1>2, <1>3, <2>1, <2>2, <2>3, <2>5
  <2> QED BY <1>4, <2>4, <2>5, <2>6 DEF OutputInv
<1>6. CASE ~Fits(size)
  <2>1. keptOutput' = keptOutput /\ truncated' = TRUE
    BY <1>1, <1>6
  <2>2. Len(keptOutput) < Len(emitted')
    BY <1>3, <1>4 DEF Starts
  <2>3. \A i \in 1 .. Len(keptOutput) : keptOutput[i] = emitted'[i]
    BY <1>3, <1>4 DEF Starts
  <2>4. Starts(keptOutput, emitted')
    BY <1>3, <1>4, <2>2, <2>3 DEF Starts
  <2> QED BY <1>3, <1>4, <2>1, <2>2, <2>4 DEF OutputInv
<1> QED BY <1>5, <1>6

LEMMA ShellKeeps ==
  ASSUME ShellInv, ShellNext
  PROVE  ShellInv'
<1>0. /\ OutputInv
      /\ shellCall \in {"asked", "running", "ok", "error"}
      /\ shellCall = "asked" => leader = "none" /\ ~helper /\ ~stray /\ ~shellTimer /\ ~listening
  BY DEF ShellInv
<1>1. CASE RefuseCommand
  <2>1. OutputInv'
    BY <1>0, <1>1, OutputStays DEF RefuseCommand
  <2> QED BY <1>1, <2>1 DEF RefuseCommand, SettleCall, ShellInv, HoldsOutput, processVars
<1>2. CASE SpawnShell
  <2>1. OutputInv'
    BY <1>0, <1>2, OutputStays DEF SpawnShell
  <2> QED BY <1>2, <2>1 DEF SpawnShell, ShellInv
<1>3. CASE SpawnShellFails
  <2>1. OutputInv'
    BY <1>0, <1>3, OutputStays DEF SpawnShellFails
  <2> QED BY <1>3, <2>1 DEF SpawnShellFails, SettleCall, ShellInv, HoldsOutput, processVars
<1>4. CASE ProcessStep
  <2>1. OutputInv'
    BY <1>0, <1>4, OutputStays DEF ProcessStep
  <2>2. UNCHANGED <<shellCall, shellTimer, listening>>
    BY <1>4 DEF ProcessStep
  <2>3. CASE StartHelper
    BY <2>1, <2>2, <2>3 DEF StartHelper, ShellInv, HoldsOutput
  <2>4. CASE HelperEnds
    BY <2>1, <2>2, <2>4 DEF HelperEnds, ShellInv, HoldsOutput
  <2>5. CASE LeaveGroup
    BY <2>1, <2>2, <2>5 DEF LeaveGroup, ShellInv, HoldsOutput
  <2>6. CASE StrayEnds
    BY <2>1, <2>2, <2>6 DEF StrayEnds, ShellInv, HoldsOutput
  <2>7. CASE ShellExits
    BY <2>1, <2>2, <2>7 DEF ShellExits, ShellInv, HoldsOutput
  <2> QED BY <1>4, <2>3, <2>4, <2>5, <2>6, <2>7 DEF ProcessStep
<1>5. CASE TimeoutKills
  <2>1. OutputInv'
    BY <1>0, <1>5, OutputStays DEF TimeoutKills
  <2> QED BY <1>5, <2>1 DEF TimeoutKills, KillTree, ShellInv, HoldsOutput
<1>6. CASE AbortCall
  <2>1. OutputInv'
    BY <1>0, <1>6, OutputStays DEF AbortCall
  <2>2. UNCHANGED <<shellCall, shellTimer>> /\ listening' = FALSE
    BY <1>6 DEF AbortCall
  <2>3. \/ UNCHANGED <<leader, helper, stray>>
        \/ /\ listening /\ leader' = IF leader = "alive" THEN "killed" ELSE leader
           /\ helper' = FALSE /\ stray' = stray
    BY <1>6 DEF AbortCall, KillTree, processVars
  <2> QED BY <2>1, <2>2, <2>3 DEF ShellInv, HoldsOutput
<1>7. CASE OutputCloses
  <2>1. OutputInv'
    BY <1>0, <1>7, OutputStays DEF OutputCloses
  <2> QED BY <1>7, <2>1 DEF OutputCloses, SettleCall, CallFailed, ShellInv, HoldsOutput, processVars
<1>8. ASSUME NEW size \in PieceSizes, PieceOfOutput(size) PROVE ShellInv'
  <2>1. OutputInv'
    BY <1>0, <1>8, PieceKeeps
  <2>2. UNCHANGED <<shellCall, leader, helper, stray, shellTimer, listening>>
    BY <1>8 DEF PieceOfOutput, processVars
  <2> QED BY <2>1, <2>2 DEF ShellInv, HoldsOutput
<1> QED BY <1>1, <1>2, <1>3, <1>4, <1>5, <1>6, <1>7, <1>8 DEF ShellNext

LEMMA ShellStays == ShellInv /\ UNCHANGED shellVars => ShellInv'
<1> SUFFICES ASSUME ShellInv, UNCHANGED shellVars PROVE ShellInv'
  OBVIOUS
<1>1. UNCHANGED <<shellCall, leader, helper, stray, shellTimer, listening, emitted, keptOutput, bytes, truncated>>
  BY DEF shellVars
<1>2. OutputInv'
  BY <1>1, OutputStays DEF ShellInv, outputVars
<1> QED BY <1>1, <1>2 DEF ShellInv, HoldsOutput

LEMMA ShellHolds == ShellInv => ShellSound
<1> SUFFICES ASSUME ShellInv PROVE ShellSound
  OBVIOUS
<1>1. SizeOf(keptOutput) = TokensOf(keptOutput)
  BY DEF SizeOf, TokensOf
<1>2. IsPrefix(keptOutput, emitted)
  <2>1. keptOutput \in Seq(Int) /\ emitted \in Seq(Int) /\ Starts(keptOutput, emitted)
    BY DEF ShellInv, OutputInv
  <2> QED BY <2>1, PrefixIs
<1>3. truncated <=> keptOutput # emitted
  <2>1. keptOutput \in Seq(Int)
    BY DEF ShellInv, OutputInv
  <2>2. Len(keptOutput) \in Nat
    BY <2>1, LenProperties
  <2>3. ~(Len(keptOutput) < Len(keptOutput))
    BY <2>2
  <2> QED BY <2>3 DEF ShellInv, OutputInv
<1>4. TokensOf(keptOutput) <= MaxOutput
  BY DEF ShellInv, OutputInv
<1> QED BY <1>1, <1>2, <1>3, <1>4 DEF ShellInv, ShellSound

-----------------------------------------------------------------------------
(* Guarded fetching: the ranges of the sandbox are those of the registry. *)

LEMMA SpecialUseAre ==
  /\ \A r \in SpecialUse :
       \/ r = <<0, 0, 0, 8>>
       \/ r = <<10, 0, 0, 8>>
       \/ r = <<100, 64, 0, 10>>
       \/ r = <<127, 0, 0, 8>>
       \/ r = <<169, 254, 0, 16>>
       \/ r = <<172, 16, 0, 12>>
       \/ r = <<192, 0, 0, 24>>
       \/ r = <<192, 0, 2, 24>>
       \/ r = <<192, 88, 99, 24>>
       \/ r = <<192, 168, 0, 16>>
       \/ r = <<198, 18, 0, 15>>
       \/ r = <<198, 51, 100, 24>>
       \/ r = <<203, 0, 113, 24>>
       \/ r = <<224, 0, 0, 3>>
  /\ <<0, 0, 0, 8>> \in SpecialUse
  /\ <<10, 0, 0, 8>> \in SpecialUse
  /\ <<100, 64, 0, 10>> \in SpecialUse
  /\ <<127, 0, 0, 8>> \in SpecialUse
  /\ <<169, 254, 0, 16>> \in SpecialUse
  /\ <<172, 16, 0, 12>> \in SpecialUse
  /\ <<192, 0, 0, 24>> \in SpecialUse
  /\ <<192, 0, 2, 24>> \in SpecialUse
  /\ <<192, 88, 99, 24>> \in SpecialUse
  /\ <<192, 168, 0, 16>> \in SpecialUse
  /\ <<198, 18, 0, 15>> \in SpecialUse
  /\ <<198, 51, 100, 24>> \in SpecialUse
  /\ <<203, 0, 113, 24>> \in SpecialUse
  /\ <<224, 0, 0, 3>> \in SpecialUse
BY SMT DEF SpecialUse

LEMMA InSpecialUse ==
  ASSUME NEW a, NEW b, NEW c, NEW r \in SpecialUse, InRange(a, b, c, r)
  PROVE  \/ InRange(a, b, c, <<0, 0, 0, 8>>)
         \/ InRange(a, b, c, <<10, 0, 0, 8>>)
         \/ InRange(a, b, c, <<100, 64, 0, 10>>)
         \/ InRange(a, b, c, <<127, 0, 0, 8>>)
         \/ InRange(a, b, c, <<169, 254, 0, 16>>)
         \/ InRange(a, b, c, <<172, 16, 0, 12>>)
         \/ InRange(a, b, c, <<192, 0, 0, 24>>)
         \/ InRange(a, b, c, <<192, 0, 2, 24>>)
         \/ InRange(a, b, c, <<192, 88, 99, 24>>)
         \/ InRange(a, b, c, <<192, 168, 0, 16>>)
         \/ InRange(a, b, c, <<198, 18, 0, 15>>)
         \/ InRange(a, b, c, <<198, 51, 100, 24>>)
         \/ InRange(a, b, c, <<203, 0, 113, 24>>)
         \/ InRange(a, b, c, <<224, 0, 0, 3>>)
BY SMT DEF SpecialUse

LEMMA RangesAgree ==
  ASSUME NEW a \in 0 .. 255, NEW b \in 0 .. 255, NEW c \in 0 .. 255
  PROVE  BlockedIpv4(a, b, c) <=> \E r \in SpecialUse : InRange(a, b, c, r)
<1>1. InRange(a, b, c, <<0, 0, 0, 8>>) <=> a = 0
  BY DEF InRange
<1>2. InRange(a, b, c, <<10, 0, 0, 8>>) <=> a = 10
  BY DEF InRange
<1>3. InRange(a, b, c, <<100, 64, 0, 10>>) <=> a = 100 /\ b \in 64 .. 127
  BY DEF InRange
<1>4. InRange(a, b, c, <<127, 0, 0, 8>>) <=> a = 127
  BY DEF InRange
<1>5. InRange(a, b, c, <<169, 254, 0, 16>>) <=> a = 169 /\ b = 254
  BY DEF InRange
<1>6. InRange(a, b, c, <<172, 16, 0, 12>>) <=> a = 172 /\ b \in 16 .. 31
  BY DEF InRange
<1>7. InRange(a, b, c, <<192, 0, 0, 24>>) <=> a = 192 /\ b = 0 /\ c = 0
  BY DEF InRange
<1>8. InRange(a, b, c, <<192, 0, 2, 24>>) <=> a = 192 /\ b = 0 /\ c = 2
  BY DEF InRange
<1>9. InRange(a, b, c, <<192, 88, 99, 24>>) <=> a = 192 /\ b = 88 /\ c = 99
  BY DEF InRange
<1>10. InRange(a, b, c, <<192, 168, 0, 16>>) <=> a = 192 /\ b = 168
  BY DEF InRange
<1>11. InRange(a, b, c, <<198, 18, 0, 15>>) <=> a = 198 /\ b \in {18, 19}
  BY DEF InRange
<1>12. InRange(a, b, c, <<198, 51, 100, 24>>) <=> a = 198 /\ b = 51 /\ c = 100
  BY DEF InRange
<1>13. InRange(a, b, c, <<203, 0, 113, 24>>) <=> a = 203 /\ b = 0 /\ c = 113
  BY DEF InRange
<1>14. InRange(a, b, c, <<224, 0, 0, 3>>) <=> a >= 224
  BY DEF InRange
<1>15. BlockedIpv4(a, b, c) <=>
        \/ InRange(a, b, c, <<0, 0, 0, 8>>)
        \/ InRange(a, b, c, <<10, 0, 0, 8>>)
        \/ InRange(a, b, c, <<100, 64, 0, 10>>)
        \/ InRange(a, b, c, <<127, 0, 0, 8>>)
        \/ InRange(a, b, c, <<169, 254, 0, 16>>)
        \/ InRange(a, b, c, <<172, 16, 0, 12>>)
        \/ InRange(a, b, c, <<192, 0, 0, 24>>)
        \/ InRange(a, b, c, <<192, 0, 2, 24>>)
        \/ InRange(a, b, c, <<192, 88, 99, 24>>)
        \/ InRange(a, b, c, <<192, 168, 0, 16>>)
        \/ InRange(a, b, c, <<198, 18, 0, 15>>)
        \/ InRange(a, b, c, <<198, 51, 100, 24>>)
        \/ InRange(a, b, c, <<203, 0, 113, 24>>)
        \/ InRange(a, b, c, <<224, 0, 0, 3>>)
  BY <1>1, <1>2, <1>3, <1>4, <1>5, <1>6, <1>7,
     <1>8, <1>9, <1>10, <1>11, <1>12, <1>13, <1>14, SMT DEF BlockedIpv4
<1> QED BY <1>15, InSpecialUse, SpecialUseAre, SMT

Joined(g, p, x, y) ==
  /\ g[1] = p[1] /\ g[2] = p[2] /\ g[3] = p[3] /\ g[4] = p[4] /\ g[5] = p[5] /\ g[6] = p[6]
  /\ g[7] = x /\ g[8] = y

LEMMA JoinIs ==
  ASSUME NEW p \in Seq(Int), NEW q \in Seq(Int), Len(p) = 6, Len(q) = 2, NEW g, g = p \o q
  PROVE  Joined(g, p, q[1], q[2])
<1>1. \A i \in 1 .. Len(p) + Len(q) : g[i] = IF i <= Len(p) THEN p[i] ELSE q[i - Len(p)]
  BY ConcatProperties
<1>2. ASSUME NEW i \in 1 .. 6 PROVE g[i] = p[i]
  <2>1. i \in 1 .. Len(p) + Len(q) /\ i <= Len(p)
    OBVIOUS
  <2> QED BY <1>1, <2>1
<1>3. ASSUME NEW i \in 7 .. 8 PROVE g[i] = q[i - 6]
  <2>1. i \in 1 .. Len(p) + Len(q) /\ ~(i <= Len(p)) /\ i - Len(p) = i - 6
    OBVIOUS
  <2> QED BY <1>1, <2>1
<1>4. 7 \in 7 .. 8 /\ 8 \in 7 .. 8 /\ 7 - 6 = 1 /\ 8 - 6 = 2
  OBVIOUS
<1>5. {1, 2, 3, 4, 5, 6} \subseteq 1 .. 6
  OBVIOUS
<1>6. g[7] = q[7 - 6] /\ g[8] = q[8 - 6]
  BY <1>3, <1>4
<1>7. g[7] = q[1] /\ g[8] = q[2]
  BY <1>4, <1>6
<1>8. 1 \in 1 .. 6 /\ 2 \in 1 .. 6 /\ 3 \in 1 .. 6 /\ 4 \in 1 .. 6 /\ 5 \in 1 .. 6 /\ 6 \in 1 .. 6
  OBVIOUS
<1> QED BY <1>2, <1>8, <1>7 DEF Joined
LEMMA PairIs ==
  ASSUME NEW x \in Int, NEW y \in Int, NEW q, q = <<x, y>>
  PROVE  q \in Seq(Int) /\ Len(q) = 2 /\ q[1] = x /\ q[2] = y
  OBVIOUS
LEMMA AppendTwo ==
  ASSUME NEW p \in Seq(Int), Len(p) = 6, NEW x \in Int, NEW y \in Int
  PROVE  Joined(p \o <<x, y>>, p, x, y)
<1>1. PICK q : q = <<x, y>>
  OBVIOUS
<1>2. q \in Seq(Int) /\ Len(q) = 2 /\ q[1] = x /\ q[2] = y
  BY <1>1, PairIs
<1>3. Joined(p \o q, p, q[1], q[2])
  BY <1>2, JoinIs
<1> QED BY <1>1, <1>2, <1>3

\* An IPv4 address in the last two groups, after a prefix that carries one.
Carries(g) ==
  \/ g[1] = 0 /\ g[2] = 0 /\ g[3] = 0 /\ g[4] = 0 /\ g[5] = 0 /\ g[6] = 65535
  \/ g[1] = 100 /\ g[2] = 65435 /\ g[3] = 0 /\ g[4] = 0 /\ g[5] = 0 /\ g[6] = 0

LEMMA CarriedIs ==
  ASSUME NEW a \in 0 .. 255, NEW b \in 0 .. 255, NEW c \in 0 .. 255, NEW g,
         g[7] = a * 256 + b, g[8] = c * 256, Carries(g)
  PROVE  BlockedIpv6(g) <=> BlockedIpv4(a, b, c)
<1>1. g[7] \div 256 = a /\ g[7] % 256 = b /\ g[8] \div 256 = c
  BY SMT
<1>2. \/ (\A i \in 1 .. 5 : g[i] = 0) /\ g[6] = 65535
      \/ g[1] = 100 /\ g[2] = 65435 /\ \A i \in 3 .. 5 : g[i] = 0
  <2>1. \A i \in 1 .. 5 : i \in {1, 2, 3, 4, 5}
    BY SMT
  <2>2. \A i \in 3 .. 5 : i \in {3, 4, 5}
    BY SMT
  <2> QED BY <2>1, <2>2, SMT DEF Carries
<1>3. ~(\A i \in 1 .. 7 : g[i] = 0)
  <2>1. 1 \in 1 .. 7 /\ 6 \in 1 .. 7
    BY SMT
  <2> QED BY <2>1, SMT DEF Carries
<1>4. BlockedIpv6(g) <=> BlockedIpv4(g[7] \div 256, g[7] % 256, g[8] \div 256)
  BY <1>2, <1>3, SMT DEF BlockedIpv6
<1> QED BY <1>1, <1>4, SMT

LEMMA RegistryBlocked ==
  ASSUME NEW a \in 0 .. 255, NEW b \in 0 .. 255, NEW c \in 0 .. 255
  PROVE  BlocksTheRegistry(a, b, c)
<1> DEFINE inside == \E r \in SpecialUse : InRange(a, b, c, r)
<1>1. BlockedIpv4(a, b, c) <=> inside
  BY RangesAgree
<1> HIDE DEF inside
<1>2. ASSUME NEW prefix \in {Mapped, Nat64}
      PROVE  BlockedIpv6(prefix \o <<a * 256 + b, c * 256>>) <=> inside
  <2> DEFINE x == a * 256 + b
             y == c * 256
             g == prefix \o <<x, y>>
  <2>1. x \in Int /\ y \in Int /\ x = a * 256 + b /\ y = c * 256
    OBVIOUS
  <2>2. prefix \in Seq(Int) /\ Len(prefix) = 6 /\ Carries(prefix)
    <3>1. CASE prefix = Mapped
      BY <3>1, SMT DEF Mapped, Carries
    <3>2. CASE prefix = Nat64
      BY <3>2, SMT DEF Nat64, Carries
    <3> QED BY <3>1, <3>2
  <2> HIDE DEF x, y
  <2>3. Joined(g, prefix, x, y)
    BY <2>1, <2>2, AppendTwo
  <2> HIDE DEF g
  <2>4. Carries(g)
    BY <2>2, <2>3, SMTT(60) DEF Carries, Joined
  <2>5. BlockedIpv6(g) <=> BlockedIpv4(a, b, c)
    <3>1. g[7] = a * 256 + b /\ g[8] = c * 256
      BY <2>1, <2>3 DEF Joined
    <3> QED BY <2>4, <3>1, CarriedIs
  <2> QED BY <1>1, <2>5 DEF g, x, y
<1> QED BY <1>1, <1>2, SMTT(60) DEF BlocksTheRegistry, inside

Reachable(v) ==
  /\ policy.block => v[1] \notin Reserved /\ ~BlockedIp(v[2])
  /\ policy.enabled /\ policy.allow # {} => v[1] \in policy.allow

\* What is resolved is allowed, and what is pinned was checked: it cannot change before the
\* connection is made.
FetchInv ==
  /\ fetch \in {"resolving", "connecting", "reading"} => IsAllowed(target)
  /\ fetch = "connecting" => AnswerOk(pinned)
  /\ \A v \in visited : Reachable(v)
  /\ hops \in Nat /\ allowedHops \in Nat /\ hops <= allowedHops
  /\ received \in Nat /\ received <= MaxBytes
  /\ probe \in 0 .. 255

LEMMA FetchBegins == FetchInit => FetchInv
BY FetchAssumption DEF FetchInit, FetchInv

LEMMA FetchKeeps ==
  ASSUME FetchInv, FetchNext
  PROVE  FetchInv'
<1>1. MaxBytes \in Nat /\ ProbeStep \in Nat
  BY FetchAssumption
<1>2. ASSUME UNCHANGED <<policy, target, pinned, visited>>,
             fetch' \in {"resolving", "connecting", "reading"} => fetch' = fetch \/ IsAllowed(target),
             fetch' = "connecting" => fetch = "connecting"
      PROVE  /\ fetch' \in {"resolving", "connecting", "reading"} => IsAllowed(target)'
             /\ fetch' = "connecting" => AnswerOk(pinned)'
             /\ \A v \in visited' : Reachable(v)'
  BY <1>2 DEF FetchInv, IsAllowed, AnswerOk, Reachable
<1>3. CASE Call
  BY <1>2, <1>3 DEF Call, FetchInv
<1>4. CASE Fails
  BY <1>2, <1>4 DEF Fails, FetchInv
<1>5. CASE Check
  BY <1>2, <1>4, <1>5 DEF Check, FetchInv
<1>6. CASE Resolve
  <2>1. PICK answers : IF answers # {} /\ AnswerOk(answers)
                         THEN /\ fetch' = "connecting" /\ pinned' = answers
                              /\ UNCHANGED <<policy, target, hops, allowedHops, received, visited, probe>>
                         ELSE Fails
    BY <1>6 DEF Resolve
  <2>2. fetch = "resolving" /\ IsAllowed(target)
    BY <1>6 DEF Resolve, FetchInv
  <2> QED BY <1>4, <2>1, <2>2 DEF FetchInv, IsAllowed, AnswerOk, Reachable
<1>7. CASE Connect
  <2>1. /\ fetch = "connecting" /\ fetch' = "reading" /\ received' = 0
        /\ UNCHANGED <<policy, target, hops, allowedHops, pinned, probe>>
    BY <1>7 DEF Connect
  <2>2. PICK ip \in pinned : visited' = visited \cup {<<target, ip>>}
    BY <1>7 DEF Connect
  <2>3. IsAllowed(target) /\ AnswerOk(pinned)
    BY <2>1 DEF FetchInv
  <2>4. Reachable(<<target, ip>>)
    BY <2>3 DEF IsAllowed, AnswerOk, Reachable
  <2>5. \A v \in visited' : Reachable(v)
    BY <2>2, <2>4 DEF FetchInv
  <2>6. \A v \in visited' : Reachable(v)'
    BY <2>1, <2>5 DEF Reachable
  <2>7. IsAllowed(target)'
    BY <2>1, <2>3 DEF IsAllowed
  <2> QED BY <1>1, <2>1, <2>6, <2>7 DEF FetchInv
<1>8. CASE Chunk
  <2>1. CASE Within
    <3>1. /\ fetch = "reading" /\ received' = received + 1
          /\ UNCHANGED <<policy, fetch, target, hops, allowedHops, pinned, visited, probe>>
      BY <1>8, <2>1 DEF Chunk
    <3>2. received' \in Nat /\ received' <= MaxBytes
      BY <1>1, <2>1, <3>1 DEF FetchInv, Within
    <3> QED BY <1>2, <3>1, <3>2 DEF FetchInv
  <2>2. CASE ~Within
    BY <1>4, <1>8, <2>2 DEF Chunk
  <2> QED BY <2>1, <2>2
<1>9. CASE TimedOut
  BY <1>4, <1>9 DEF TimedOut
<1>10. CASE End
  <2>1. CASE Returned
    BY <1>2, <2>1 DEF Returned, FetchInv
  <2>2. ASSUME NEW next, hops # allowedHops, IsAllowed(next),
               fetch' = "checking", target' = next, hops' = hops + 1,
               UNCHANGED <<policy, allowedHops, pinned, received, visited, probe>>
        PROVE  FetchInv'
    <3>1. hops' \in Nat /\ hops' <= allowedHops
      BY <2>2 DEF FetchInv
    <3>2. \A v \in visited : Reachable(v)'
      BY <2>2 DEF FetchInv, Reachable
    <3> QED BY <2>2, <3>1, <3>2 DEF FetchInv
  <2> QED BY <1>4, <1>10, <2>1, <2>2 DEF End
<1>11. CASE Probe
  <2>1. /\ fetch = "comparing" /\ probe + ProbeStep <= 255 /\ probe' = probe + ProbeStep
        /\ UNCHANGED <<policy, fetch, target, hops, allowedHops, pinned, received, visited>>
    BY <1>11 DEF Probe
  <2>2. probe' \in 0 .. 255
    BY <1>1, <2>1 DEF FetchInv
  <2> QED BY <1>2, <2>1, <2>2 DEF FetchInv
<1> QED BY <1>3, <1>5, <1>6, <1>7, <1>8, <1>9, <1>10, <1>11 DEF FetchNext

LEMMA FetchStays == FetchInv /\ UNCHANGED fetchVars => FetchInv'
BY DEF FetchInv, IsAllowed, AnswerOk, Reachable, fetchVars

LEMMA FetchHolds == FetchInv => FetchSound
<1> SUFFICES ASSUME FetchInv PROVE FetchSound
  OBVIOUS
<1>1. ASSUME NEW b \in Octets, NEW c \in Octets PROVE BlocksTheRegistry(probe, b, c)
  <2>1. probe \in 0 .. 255 /\ b \in 0 .. 255 /\ c \in 0 .. 255
    BY FetchAssumption DEF FetchInv
  <2> QED BY <2>1, RegistryBlocked
<1>2. \A v \in visited : Reachable(v)
  BY DEF FetchInv
<1>3. hops <= allowedHops /\ received <= MaxBytes
  BY DEF FetchInv
<1> QED BY <1>1, <1>2, <1>3, SMTT(60) DEF FetchSound, Reachable

-----------------------------------------------------------------------------
(* A step of the system is a step of one command, or of none. *)

LEMMA OthersWait ==
  ASSUME [Next]_commandVars
  PROVE  /\ EngineNext \/ UNCHANGED engineVars
         /\ CouncilNext \/ UNCHANGED councilVars
         /\ ReActNext \/ UNCHANGED reactVars
         /\ ResearchNext \/ UNCHANGED researchVars
         /\ EvalNext \/ UNCHANGED evalVars
         /\ CliNext \/ UNCHANGED cliVars
         /\ FetchNext \/ UNCHANGED fetchVars
         /\ ShellNext \/ UNCHANGED shellVars
BY DEF Next, Is, commandVars

\* The engine gives up exactly on the tasks that wait for a cycle or for a task nobody planned,
\* gives every id as many results as tasks, also when ids repeat, and tells a task the results
\* of its dependencies; a suite gets a result per case in its order, a case that failed or timed
\* out passes only by assertions that an output of nothing may meet, and every running loop has
\* a workspace: for every plan, every suite and every limit, a concurrency of 0 included.
THEOREM WorkSound == Spec => []WorkAccounted
<1> DEFINE I == EngineInv /\ EvalInv
<1>1. Init => I
  BY EngineBegins, EvalBegins DEF Init
<1>2. I /\ [Next]_commandVars => I'
  <2> SUFFICES ASSUME I, [Next]_commandVars PROVE I'
    OBVIOUS
  <2>1. EngineInv'
    BY OthersWait, EngineKeeps, EngineStays
  <2>2. EvalInv'
    BY OthersWait, EvalKeeps, EvalStays
  <2> QED BY <2>1, <2>2
<1>3. I => WorkAccounted
  BY EngineHolds, EvalHolds DEF WorkAccounted
<1> HIDE DEF I
<1> QED BY <1>1, <1>2, <1>3, PTL DEF Spec

\* The members of a council speak in their order, whatever fails, and hear everything that was
\* said before.  A prompt of the REPL is asked with itself last; answers follow their prompts in
\* the transcript and, unless /clear took the prompt out, in the conversation, directly when no
\* other line was under way; the transcript is the conversation, what /clear took out of it and
\* what is on its way: for every council, any number of rounds and of overlapping lines.
THEOREM SpeakersSound == Spec => []SpeakersHeard
<1> DEFINE I == CouncilInv /\ CliInv
<1>1. Init => I
  BY CouncilBegins, CliBegins DEF Init
<1>2. I /\ [Next]_commandVars => I'
  <2> SUFFICES ASSUME I, [Next]_commandVars PROVE I'
    OBVIOUS
  <2>1. CouncilInv'
    BY OthersWait, CouncilKeeps, CouncilStays
  <2>2. ASSUME UNCHANGED cliVars PROVE CliInv'
    BY <2>2, CliStays DEF cliVars, serviceVars
  <2>3. CliInv'
    BY <2>2, OthersWait, CliKeeps
  <2> QED BY <2>1, <2>3
<1>3. I => SpeakersHeard
  BY CouncilHolds, CliHolds DEF SpeakersHeard
<1> HIDE DEF I
<1> QED BY <1>1, <1>2, <1>3, PTL DEF Spec

\* No tool before it is permitted, no question before those that it depends on are answered,
\* no connection before its address is checked, for all tools, plans, names and answers; the
\* sandbox blocks the ranges of the registry at every address; and a shell call's output and
\* outcome are those of its command, for pieces of every size.
THEOREM OrderSound == Spec => []StepsInOrder
<1> DEFINE I == ReActInv /\ ResearchInv /\ FetchInv /\ ShellInv
<1>1. Init => I
  BY ReActBegins, ResearchBegins, FetchBegins, ShellBegins DEF Init
<1>2. I /\ [Next]_commandVars => I'
  <2> SUFFICES ASSUME I, [Next]_commandVars PROVE I'
    OBVIOUS
  <2>1. ReActInv'
    BY OthersWait, ReActKeeps, ReActStays
  <2>2. ResearchInv'
    BY OthersWait, ResearchKeeps, ResearchStays
  <2>3. FetchInv'
    BY OthersWait, FetchKeeps, FetchStays
  <2>4. ShellInv'
    BY OthersWait, ShellKeeps, ShellStays
  <2> QED BY <2>1, <2>2, <2>3, <2>4
<1>3. I => StepsInOrder
  BY ReActHolds, ResearchHolds, FetchHolds, ShellHolds DEF StepsInOrder
<1> HIDE DEF I
<1> QED BY <1>1, <1>2, <1>3, PTL DEF Spec
=============================================================================
