-------------------------- MODULE CoordinatorProofs --------------------------
(* Proofs about Coordinator for every set of runs, limit and number of workers. *)
EXTENDS Coordinator, FiniteSetTheorems, TLAPS

\* The size of the chunks of a run.
Width(r) == Parallel(r, count[r])

\* Nothing of a run is enqueued before it is planned.
Unplanned ==
  \A r \in Runs :
    IF phase[r] \in {"new", "planning"} THEN count[r] = 0 /\ chunk[r] = 0
    ELSE count[r] >= 1 /\ chunk[r] >= 1

\* Tasks are known up to the current chunk; the chunks before it have settled, and all
\* of them once the results are recorded.
ChunksInOrder ==
  \A r \in Runs : \A i \in 1 .. MaxSubtasks :
    /\ exec[<<r, i>>] # "none" => i <= count[r] /\ i <= chunk[r] * Width(r)
    /\ i <= count[r] /\ i <= (chunk[r] - 1) * Width(r) => Settled(<<r, i>>)
    /\ i <= count[r] /\ phase[r] \in {"synthesizing", "returned"} => Settled(<<r, i>>)

\* Workers and running tasks are matched.
Assigned ==
  /\ \A w \in Workers : worker[w].status = "idle" => worker[w].task = None
  /\ \A v, w \in Workers : worker[v].task = worker[w].task /\ worker[v].task # None => v = w
  /\ \A t \in Tasks : exec[t] = "running" <=> \E w \in Workers : worker[w].task = t

\* The inductive invariant.
IInv == TypeOK /\ Unplanned /\ ChunksInOrder /\ Assigned /\ RecordedAsExecuted

-----------------------------------------------------------------------------
(* The operators. *)

LEMMA WidthIs ==
  ASSUME NEW r \in Runs, NEW n \in 1 .. MaxSubtasks
  PROVE  Parallel(r, n) \in 1 .. Limit[r] /\ Parallel(r, n) <= n /\ Limit[r] \in Nat
<1>1. Limit[r] \in Nat \ {0}
  BY LimitAssumption
<1>2. n \in Nat \ {0}
  BY PoolAssumption
<1> QED BY <1>1, <1>2 DEF Parallel, Least

\* A chunk is a stretch of the run's tasks, after those of the chunks before it.
LEMMA ChunkIs ==
  ASSUME NEW r \in Runs, NEW n \in 1 .. MaxSubtasks, NEW c \in Nat \ {0}
  PROVE  \A t : t \in ChunkOf(r, n, c) <=>
           \E i \in 1 .. n : /\ t = <<r, i>>
                             /\ (c - 1) * Parallel(r, n) < i /\ i <= c * Parallel(r, n)
<1> DEFINE P == Parallel(r, n)
<1>1. P \in Nat /\ c * P \in Int /\ (c - 1) * P \in Nat
  BY WidthIs
<1>2. n \in Int
  OBVIOUS
<1>3. \A i : i \in (c - 1) * P + 1 .. Least(c * P, n)
             <=> i \in 1 .. n /\ (c - 1) * P < i /\ i <= c * P
  <2> HIDE DEF P
  <2>1. PICK a \in Int : a = c * P
    BY <1>1
  <2>2. PICK b \in Nat : b = (c - 1) * P
    BY <1>1
  <2>3. \A i : i \in b + 1 .. Least(a, n) <=> i \in 1 .. n /\ b < i /\ i <= a
    BY <1>2 DEF Least
  <2> QED BY <2>1, <2>2, <2>3
<1> QED BY <1>3 DEF ChunkOf

LEMMA NextMultiple == \A k, p \in Nat : k * p \in Nat /\ (k + 1) * p = k * p + p
OBVIOUS

LEMMA NoneApart == \A t \in Tasks : t # None
BY DEF Tasks, None

\* A stretch of a run's tasks is no larger than its length.
LEMMA StretchBound ==
  ASSUME NEW r, NEW a \in Int, NEW b \in Int, a <= b + 1,
         NEW S, S \subseteq {r} \X (a .. b)
  PROVE  IsFiniteSet(S) /\ Cardinality(S) <= b - a + 1
<1>1. IsFiniteSet(a .. b) /\ Cardinality(a .. b) = b - a + 1
  BY FS_Interval
<1>2. IsFiniteSet({r}) /\ Cardinality({r}) = 1
  BY FS_Singleton
<1>3. /\ IsFiniteSet({r} \X (a .. b))
      /\ Cardinality({r} \X (a .. b)) = Cardinality({r}) * Cardinality(a .. b)
  BY <1>1, <1>2, FS_Product
<1>4. IsFiniteSet(S) /\ Cardinality(S) <= Cardinality({r} \X (a .. b))
  BY <1>3, FS_Subset
<1>5. Cardinality({r} \X (a .. b)) = b - a + 1
  BY <1>1, <1>2, <1>3
<1> QED BY <1>4, <1>5

\* The idle workers are ranked from 1, without ties.
LEMMA RankIs ==
  ASSUME NEW w \in Workers
  PROVE  /\ IdleRank(w) \in Nat
         /\ worker[w].status = "idle" => IdleRank(w) >= 1
         /\ worker[w].status = "idle" =>
              \A v \in Workers : v < w => IdleRank(v) < IdleRank(w)
<1> DEFINE Upto(x) == {v \in 1 .. x : worker[v].status = "idle"}
<1> USE PoolAssumption DEF Workers
<1>1. \A x \in Workers : IsFiniteSet(Upto(x)) /\ Cardinality(Upto(x)) \in Nat
  <2> SUFFICES ASSUME NEW x \in Workers PROVE IsFiniteSet(Upto(x)) /\ Cardinality(Upto(x)) \in Nat
    OBVIOUS
  <2>1. IsFiniteSet(1 .. x)
    BY FS_Interval
  <2>2. IsFiniteSet(Upto(x))
    BY <2>1, FS_Subset
  <2> QED BY <2>2, FS_CardinalityType
<1>2. ASSUME worker[w].status = "idle" PROVE Cardinality(Upto(w)) >= 1
  <2>1. w \in Upto(w)
    BY <1>2
  <2>2. Cardinality(Upto(w)) # 0
    BY <1>1, <2>1, FS_EmptySet
  <2> QED BY <1>1, <2>2
<1>3. ASSUME worker[w].status = "idle", NEW v \in Workers, v < w
      PROVE  Cardinality(Upto(v)) < Cardinality(Upto(w))
  <2>1. Upto(v) \subseteq Upto(w)
    BY <1>3
  <2>2. w \in Upto(w) /\ w \notin Upto(v)
    BY <1>3
  <2>3. /\ Cardinality(Upto(v)) <= Cardinality(Upto(w))
        /\ Cardinality(Upto(w)) = Cardinality(Upto(v)) => Upto(w) = Upto(v)
    BY <1>1, <2>1, FS_Subset
  <2> QED BY <1>1, <2>2, <2>3
<1> QED BY <1>1, <1>2, <1>3 DEF IdleRank

\* So no two workers take the same task of a chunk.
LEMMA TakenApart ==
  ASSUME NEW v \in Workers, NEW w \in Workers, NEW r, NEW n, NEW c,
         (c - 1) * Parallel(r, n) \in Int,
         worker[v].status = "idle", worker[w].status = "idle",
         TakenBy(v, r, n, c) = TakenBy(w, r, n, c)
  PROVE  v = w
<1>1. IdleRank(v) \in Nat /\ IdleRank(w) \in Nat
  BY RankIs
<1>2. IdleRank(v) = IdleRank(w)
  BY <1>1 DEF TakenBy
<1>3. ~(v < w) /\ ~(w < v)
  BY <1>1, <1>2, RankIs
<1> QED BY <1>3, PoolAssumption DEF Workers

-----------------------------------------------------------------------------
(* A chunk that starts, as the rest of the proof sees it. *)

LEMMA StartIs ==
  ASSUME TypeOK, NEW r \in Runs, NEW n \in 1 .. MaxSubtasks, NEW c \in Nat \ {0},
         StartChunk(r, n, c)
  PROVE  /\ ChunkOf(r, n, c) \subseteq Tasks
         /\ chunk' = [chunk EXCEPT ![r] = c] /\ chunk' \in [Runs -> Nat]
         /\ exec' \in [Tasks -> {"none", "waiting", "running", "ok", "error"}]
         /\ \A t \in ChunkOf(r, n, c) : exec'[t] \in {"waiting", "running"}
         /\ \A t \in Tasks \ ChunkOf(r, n, c) : exec'[t] = exec[t]
         /\ worker' \in [Workers -> WorkerRec]
<1> DEFINE C == ChunkOf(r, n, c)
           Take(w) == TakenBy(w, r, n, c)
           taking == {w \in Workers : worker[w].status = "idle" /\ Take(w) \in C}
<1>1. C \subseteq Tasks
  BY ChunkIs, PoolAssumption DEF Tasks
<1> HIDE DEF C, Take
<1>2. /\ exec' = [t \in Tasks |-> IF t \in {Take(w) : w \in taking} THEN "running"
                                  ELSE IF t \in C THEN "waiting" ELSE exec[t]]
      /\ worker' = [w \in Workers |-> IF w \in taking THEN [status |-> "busy", task |-> Take(w)]
                                      ELSE worker[w]]
      /\ chunk' = [chunk EXCEPT ![r] = c]
  BY DEF StartChunk, C, Take
<1>3. \A w \in taking : Take(w) \in C
  OBVIOUS
<1>4. worker' \in [Workers -> WorkerRec]
  BY <1>1, <1>2, <1>3 DEF TypeOK, WorkerRec
<1>5. chunk' \in [Runs -> Nat]
  BY <1>2 DEF TypeOK
<1> HIDE DEF taking
<1>6. exec' \in [Tasks -> {"none", "waiting", "running", "ok", "error"}]
  BY <1>2 DEF TypeOK
<1>7. \A t \in C : exec'[t] \in {"waiting", "running"}
  BY <1>1, <1>2
<1>8. \A t \in Tasks \ C : exec'[t] = exec[t]
  BY <1>2, <1>3
<1> QED BY <1>1, <1>2, <1>4, <1>5, <1>6, <1>7, <1>8 DEF C

\* A chunk that starts is matched with the workers it takes.
LEMMA StartMatches ==
  ASSUME TypeOK, Assigned, NEW r \in Runs, NEW n \in 1 .. MaxSubtasks, NEW c \in Nat \ {0},
         StartChunk(r, n, c), \A t \in ChunkOf(r, n, c) : exec[t] = "none"
  PROVE  Assigned'
<1> DEFINE C == ChunkOf(r, n, c)
           Take(w) == TakenBy(w, r, n, c)
           taking == {w \in Workers : worker[w].status = "idle" /\ Take(w) \in C}
<1>1. \A v, w \in taking : Take(v) = Take(w) => v = w
  <2>1. (c - 1) * Parallel(r, n) \in Int
    BY WidthIs
  <2> QED BY <2>1, TakenApart
<1>2. C \subseteq Tasks /\ \A t \in C : exec[t] = "none"
  BY StartIs
<1> HIDE DEF C, Take
<1>3. /\ exec' = [t \in Tasks |-> IF t \in {Take(w) : w \in taking} THEN "running"
                                  ELSE IF t \in C THEN "waiting" ELSE exec[t]]
      /\ worker' = [w \in Workers |-> IF w \in taking THEN [status |-> "busy", task |-> Take(w)]
                                      ELSE worker[w]]
  BY DEF StartChunk, C, Take
<1>4. \A w \in taking : w \in Workers /\ worker[w].task = None /\ Take(w) \in C
  BY DEF Assigned
<1>5. \A w \in Workers \ taking : Take(w) \notin C \/ worker[w].status # "idle"
  OBVIOUS
<1>6. \A w \in Workers : worker[w].task \notin C
  BY <1>2 DEF Assigned, TypeOK
<1>7. None \notin C
  BY <1>2 DEF Tasks, None
<1> HIDE DEF taking
<1>8. ASSUME NEW w \in Workers
      PROVE  /\ w \in taking => worker'[w].status = "busy" /\ worker'[w].task = Take(w)
             /\ w \notin taking => worker'[w] = worker[w]
  BY <1>3, <1>8
<1>9. ASSUME NEW w \in Workers, worker'[w].status = "idle" PROVE worker'[w].task = None
  BY <1>8, <1>9 DEF Assigned
<1>10. ASSUME NEW v \in Workers, NEW w \in Workers,
              worker'[v].task = worker'[w].task, worker'[v].task # None
       PROVE  v = w
  <2>1. CASE v \in taking /\ w \in taking
    BY <2>1, <1>1, <1>8, <1>10
  <2>2. CASE v \notin taking /\ w \notin taking
    BY <2>2, <1>8, <1>10 DEF Assigned
  <2>3. CASE v \in taking /\ w \notin taking
    BY <2>3, <1>4, <1>6, <1>8, <1>10
  <2>4. CASE v \notin taking /\ w \in taking
    BY <2>4, <1>4, <1>6, <1>8, <1>10
  <2> QED BY <2>1, <2>2, <2>3, <2>4
<1>11. ASSUME NEW t \in Tasks
       PROVE  exec'[t] = "running" <=> \E w \in Workers : worker'[w].task = t
  <2>1. CASE t \in C
    <3>1. exec'[t] = "running" <=> \E w \in taking : Take(w) = t
      BY <2>1, <1>3
    <3>2. (\E w \in Workers : worker'[w].task = t) <=> \E w \in taking : Take(w) = t
      BY <2>1, <1>4, <1>6, <1>8
    <3> QED BY <3>1, <3>2
  <2>2. CASE t \notin C
    <3>1. exec'[t] = exec[t]
      BY <2>2, <1>3, <1>4
    <3>2. \A w \in Workers : worker'[w].task = t <=> worker[w].task = t
      <4>1. \A w \in taking : worker'[w].task # t /\ worker[w].task # t
        BY <2>2, <1>4, <1>8 DEF Tasks, None
      <4> QED BY <4>1, <1>8
    <3> QED BY <3>1, <3>2 DEF Assigned
  <2> QED BY <2>1, <2>2
<1> QED BY <1>9, <1>10, <1>11 DEF Assigned

-----------------------------------------------------------------------------
LEMMA EnqueueKeeps ==
  ASSUME IInv, NEW r \in Runs, NEW n \in 1 .. MaxSubtasks,
         phase[r] \in {"new", "planning"}, Enqueue(r, n)
  PROVE  IInv'
<1> USE PoolAssumption DEF IInv
<1> DEFINE P == Parallel(r, n)
<1>1. P \in Nat /\ P >= 1 /\ P <= n
  BY WidthIs
<1>2. \A i \in 1 .. MaxSubtasks : exec[<<r, i>>] = "none"
  BY DEF Unplanned, ChunksInOrder
<1>3. StartChunk(r, n, 1)
  BY DEF Enqueue
<1>4. \A t : t \in ChunkOf(r, n, 1) <=> \E i \in 1 .. n : t = <<r, i>> /\ i <= P
  BY <1>1, ChunkIs
<1>5. /\ \A t \in ChunkOf(r, n, 1) : exec'[t] \in {"waiting", "running"}
      /\ \A t \in Tasks \ ChunkOf(r, n, 1) : exec'[t] = exec[t]
      /\ exec' \in [Tasks -> {"none", "waiting", "running", "ok", "error"}]
      /\ worker' \in [Workers -> WorkerRec]
      /\ chunk' = [chunk EXCEPT ![r] = 1] /\ chunk' \in [Runs -> Nat]
  BY <1>3, StartIs
<1>6. /\ phase' = [phase EXCEPT ![r] = "executing"]
      /\ count' = [count EXCEPT ![r] = n]
      /\ status' = [t \in Tasks |-> IF t \in {r} \X (1 .. n) THEN "queued" ELSE status[t]]
      /\ planning' = planning
  BY DEF Enqueue
<1>7. TypeOK'
  BY <1>5, <1>6 DEF TypeOK
<1>8. Unplanned'
  BY <1>5, <1>6 DEF Unplanned, TypeOK
<1>9. Assigned'
  <2>1. \A t \in ChunkOf(r, n, 1) : exec[t] = "none"
    BY <1>2, <1>4
  <2> QED BY <1>3, <2>1, StartMatches
<1>10. \A q \in Runs \ {r} : /\ phase'[q] = phase[q] /\ count'[q] = count[q] /\ chunk'[q] = chunk[q]
                             /\ Width(q)' = Width(q)
                             /\ \A i \in 1 .. MaxSubtasks : /\ exec'[<<q, i>>] = exec[<<q, i>>]
                                                            /\ status'[<<q, i>>] = status[<<q, i>>]
  <2> SUFFICES ASSUME NEW q \in Runs \ {r}
               PROVE  /\ phase'[q] = phase[q] /\ count'[q] = count[q] /\ chunk'[q] = chunk[q]
                      /\ \A i \in 1 .. MaxSubtasks : /\ exec'[<<q, i>>] = exec[<<q, i>>]
                                                     /\ status'[<<q, i>>] = status[<<q, i>>]
    BY DEF Width, Parallel
  <2>1. phase'[q] = phase[q] /\ count'[q] = count[q] /\ chunk'[q] = chunk[q]
    BY <1>5, <1>6 DEF TypeOK
  <2>2. ASSUME NEW i \in 1 .. MaxSubtasks
        PROVE  exec'[<<q, i>>] = exec[<<q, i>>] /\ status'[<<q, i>>] = status[<<q, i>>]
    BY <1>4, <1>5, <1>6 DEF Tasks
  <2> QED BY <2>1, <2>2
<1>11. ChunksInOrder'
  <2> SUFFICES ASSUME NEW q \in Runs, NEW i \in 1 .. MaxSubtasks
               PROVE  /\ exec'[<<q, i>>] # "none" => i <= count'[q] /\ i <= chunk'[q] * Width(q)'
                      /\ i <= count'[q] /\ i <= (chunk'[q] - 1) * Width(q)' => Settled(<<q, i>>)'
                      /\ i <= count'[q] /\ phase'[q] \in {"synthesizing", "returned"} => Settled(<<q, i>>)'
    BY DEF ChunksInOrder
  <2>1. CASE q # r
    BY <2>1, <1>10 DEF ChunksInOrder, Settled
  <2>2. CASE q = r
    <3>1. count'[r] = n /\ chunk'[r] = 1 /\ phase'[r] = "executing" /\ Width(r)' = P
      BY <1>5, <1>6 DEF TypeOK, Width, Parallel
    <3>2. exec'[<<r, i>>] # "none" => i <= n /\ i <= P
      BY <1>2, <1>4, <1>5 DEF Tasks
    <3>3. 1 * P = P /\ (1 - 1) * P = 0
      BY <1>1
    <3> QED BY <2>2, <3>1, <3>2, <3>3
  <2> QED BY <2>1, <2>2
<1>12. RecordedAsExecuted'
  <2>1. phase'[r] = "executing"
    BY <1>6 DEF TypeOK
  <2>2. \A q \in Runs : count[q] \in 0 .. MaxSubtasks
    BY DEF TypeOK
  <2> QED BY <1>10, <2>1, <2>2 DEF RecordedAsExecuted
<1> QED BY <1>7, <1>8, <1>9, <1>11, <1>12

\* When a chunk has ended, every task up to its end has settled.
LEMMA EndedSettled ==
  ASSUME IInv, NEW r \in Runs, ChunkEnded(r)
  PROVE  \A i \in 1 .. MaxSubtasks :
           i <= count[r] /\ i <= chunk[r] * Width(r) => Settled(<<r, i>>)
<1> USE PoolAssumption DEF IInv
<1>1. count[r] \in 1 .. MaxSubtasks /\ chunk[r] \in Nat \ {0}
  BY DEF ChunkEnded, TypeOK, Unplanned
<1>2. \A t : t \in ChunkOf(r, count[r], chunk[r]) <=>
        \E i \in 1 .. count[r] :
          t = <<r, i>> /\ (chunk[r] - 1) * Width(r) < i /\ i <= chunk[r] * Width(r)
  BY <1>1, ChunkIs DEF Width
<1>3. PICK a \in Int : a = (chunk[r] - 1) * Width(r)
  BY <1>1, WidthIs DEF Width
<1> SUFFICES ASSUME NEW i \in 1 .. MaxSubtasks, i <= count[r], i <= chunk[r] * Width(r)
             PROVE  Settled(<<r, i>>)
  OBVIOUS
<1>4. CASE i <= a
  BY <1>3, <1>4 DEF ChunksInOrder
<1>5. CASE a < i
  BY <1>1, <1>2, <1>3, <1>5 DEF ChunkEnded
<1> QED BY <1>3, <1>4, <1>5

LEMMA NextChunkKeeps ==
  ASSUME IInv, NEW r \in Runs, NextChunk(r)
  PROVE  IInv'
<1> USE PoolAssumption DEF IInv
<1> DEFINE n == count[r]
           c == chunk[r] + 1
           P == Parallel(r, n)
<1>0. /\ phase[r] = "executing" /\ StartChunk(r, n, c)
      /\ UNCHANGED <<planning, phase, count, status>>
  BY DEF NextChunk, ChunkEnded
<1>1. n \in 1 .. MaxSubtasks /\ chunk[r] \in Nat \ {0} /\ c \in Nat \ {0}
  BY <1>0 DEF TypeOK, Unplanned
<1>2. P \in Nat /\ P >= 1 /\ P <= n /\ Width(r) = P
  BY <1>1, WidthIs DEF Width
<1>3. /\ chunk' = [chunk EXCEPT ![r] = c] /\ chunk' \in [Runs -> Nat]
      /\ exec' \in [Tasks -> {"none", "waiting", "running", "ok", "error"}]
      /\ worker' \in [Workers -> WorkerRec]
      /\ \A t \in ChunkOf(r, n, c) : exec'[t] \in {"waiting", "running"}
      /\ \A t \in Tasks \ ChunkOf(r, n, c) : exec'[t] = exec[t]
  BY <1>0, <1>1, StartIs
<1>4. \A t : t \in ChunkOf(r, n, c) <=>
        \E i \in 1 .. n : t = <<r, i>> /\ chunk[r] * P < i /\ i <= c * P
  <2>1. c - 1 = chunk[r]
    BY <1>1
  <2> QED BY <1>1, <2>1, ChunkIs
<1>6. PICK b \in Int : b = chunk[r] * P
  BY <1>1, <1>2
<1>8. PICK d \in Int : d = c * P /\ b <= d
  <2>1. c * P \in Int /\ c * P = b + P
    <3> HIDE DEF P
    <3>1. chunk[r] \in Nat /\ P \in Nat
      BY <1>1, <1>2
    <3>2. (chunk[r] + 1) * P = chunk[r] * P + P
      BY <3>1, NextMultiple
    <3> QED BY <3>1, <3>2, <1>6
  <2> QED BY <1>2, <2>1
<1>9. \A i \in 1 .. MaxSubtasks : i <= n /\ i <= b => Settled(<<r, i>>)
  BY <1>2, <1>6, EndedSettled DEF NextChunk
<1>10. TypeOK'
  BY <1>0, <1>3 DEF TypeOK
<1>11. Unplanned'
  BY <1>0, <1>1, <1>3 DEF Unplanned, TypeOK
<1>12. Assigned'
  <2>1. \A t \in ChunkOf(r, n, c) : exec[t] = "none"
    <3> SUFFICES ASSUME NEW i \in 1 .. MaxSubtasks, b < i PROVE exec[<<r, i>>] = "none"
      BY <1>1, <1>4, <1>6
    <3>1. exec[<<r, i>>] # "none" => i <= b
      BY <1>2, <1>6 DEF ChunksInOrder
    <3> QED BY <3>1, <1>6
  <2> QED BY <1>0, <1>1, <2>1, StartMatches
<1>13. \A q \in Runs : q # r => \A i \in 1 .. MaxSubtasks : exec'[<<q, i>>] = exec[<<q, i>>]
  BY <1>3, <1>4 DEF Tasks
<1>14. \A q \in Runs : /\ phase'[q] = phase[q] /\ count'[q] = count[q] /\ Width(q)' = Width(q)
                       /\ q # r => chunk'[q] = chunk[q]
  BY <1>0, <1>3 DEF Width, Parallel, TypeOK
<1>15. chunk'[r] = c /\ chunk'[r] - 1 = chunk[r]
  BY <1>1, <1>3 DEF TypeOK
<1>16. ChunksInOrder'
  <2> SUFFICES ASSUME NEW q \in Runs, NEW i \in 1 .. MaxSubtasks
               PROVE  /\ exec'[<<q, i>>] # "none" => i <= count'[q] /\ i <= chunk'[q] * Width(q)'
                      /\ i <= count'[q] /\ i <= (chunk'[q] - 1) * Width(q)' => Settled(<<q, i>>)'
                      /\ i <= count'[q] /\ phase'[q] \in {"synthesizing", "returned"} => Settled(<<q, i>>)'
    BY DEF ChunksInOrder
  <2>1. CASE q # r
    BY <2>1, <1>13, <1>14 DEF ChunksInOrder, Settled
  <2>2. CASE q = r
    <3> HIDE DEF n, c, P
    <3>1. ASSUME exec'[<<r, i>>] # "none" PROVE i <= n /\ i <= d
      <4>1. CASE <<r, i>> \in ChunkOf(r, n, c)
        BY <4>1, <1>4, <1>8
      <4>2. CASE <<r, i>> \notin ChunkOf(r, n, c)
        <5>1. exec[<<r, i>>] # "none"
          BY <4>2, <3>1, <1>3 DEF Tasks
        <5>2. i <= n /\ i <= b
          BY <5>1, <1>2, <1>6 DEF ChunksInOrder, n
        <5> QED BY <5>2, <1>8
      <4> QED BY <4>1, <4>2
    <3>2. ASSUME i <= n, i <= b PROVE Settled(<<r, i>>)'
      <4>1. <<r, i>> \notin ChunkOf(r, n, c) /\ <<r, i>> \in Tasks
        BY <3>2, <1>4, <1>6 DEF Tasks
      <4>2. exec'[<<r, i>>] = exec[<<r, i>>]
        BY <4>1, <1>3
      <4> QED BY <4>2, <3>2, <1>9 DEF Settled
    <3>3. count'[r] = n /\ chunk'[r] * Width(r)' = d /\ (chunk'[r] - 1) * Width(r)' = b
          /\ phase'[r] = "executing"
      BY <1>0, <1>2, <1>6, <1>8, <1>14, <1>15 DEF n
    <3> QED BY <2>2, <3>1, <3>2, <3>3
  <2> QED BY <2>1, <2>2
<1>17. RecordedAsExecuted'
  <2>1. \A q \in Runs : count[q] \in 0 .. MaxSubtasks
    BY DEF TypeOK
  <2> QED BY <1>0, <1>13, <1>14, <2>1 DEF RecordedAsExecuted
<1> QED BY <1>10, <1>11, <1>12, <1>16, <1>17

\* Actions that leave the runs, their chunks and the settled tasks alone.
LEMMA ExecutingKeeps ==
  ASSUME IInv, TypeOK', UNCHANGED <<phase, count, chunk, status>>,
         \A t \in Tasks : /\ exec'[t] # "none" <=> exec[t] # "none"
                          /\ Settled(t) => exec'[t] = exec[t]
  PROVE  Unplanned' /\ ChunksInOrder' /\ RecordedAsExecuted'
<1>1. Unplanned'
  BY DEF IInv, Unplanned
<1>2. \A r \in Runs : Width(r)' = Width(r)
  BY DEF Width, Parallel
<1>3. \A r \in Runs, i \in 1 .. MaxSubtasks : <<r, i>> \in Tasks
  BY DEF Tasks
<1>4. \A t \in Tasks : Settled(t) => Settled(t)'
  BY DEF Settled
<1>5. ChunksInOrder'
  BY <1>2, <1>3, <1>4 DEF IInv, ChunksInOrder
<1>6. ASSUME NEW r \in Runs, phase[r] \in {"synthesizing", "returned"}, NEW i \in 1 .. count[r]
      PROVE  i \in 1 .. MaxSubtasks /\ Settled(<<r, i>>)
  BY <1>6, PoolAssumption DEF IInv, ChunksInOrder, TypeOK
<1>7. RecordedAsExecuted'
  BY <1>3, <1>6 DEF IInv, RecordedAsExecuted
<1> QED BY <1>1, <1>5, <1>7

LEMMA ClaimKeeps ==
  ASSUME IInv, NEW t \in Tasks, Claim(t)
  PROVE  IInv'
<1> USE DEF IInv
<1>1. PICK w \in Workers : /\ worker[w].status = "idle"
                           /\ worker' = [worker EXCEPT ![w] = [status |-> "busy", task |-> t]]
  BY DEF Claim
<1>2. exec[t] = "waiting" /\ exec' = [exec EXCEPT ![t] = "running"]
      /\ UNCHANGED <<planning, phase, count, chunk, status>>
  BY DEF Claim
<1>3. TypeOK'
  BY <1>1, <1>2 DEF TypeOK, WorkerRec
<1>4. Assigned'
  <2>1. worker[w].task = None /\ t # None
    BY <1>1 DEF Assigned, Tasks, None
  <2>2. worker'[w].task = t /\ worker'[w].status = "busy"
        /\ \A v \in Workers \ {w} : worker'[v] = worker[v]
    BY <1>1 DEF TypeOK
  <2>3. \A v \in Workers : worker[v].task # t
    BY <1>2 DEF Assigned
  <2>4. exec'[t] = "running" /\ \A s \in Tasks \ {t} : exec'[s] = exec[s]
    BY <1>2 DEF TypeOK
  <2>5. \A v \in Workers : worker'[v].status = "idle" => worker'[v].task = None
    BY <2>2 DEF Assigned
  <2>6. \A u, v \in Workers : worker'[u].task = worker'[v].task /\ worker'[u].task # None => u = v
    BY <2>2, <2>3 DEF Assigned
  <2>7. ASSUME NEW s \in Tasks
        PROVE  exec'[s] = "running" <=> \E v \in Workers : worker'[v].task = s
    <3>1. CASE s = t
      BY <3>1, <2>2, <2>4
    <3>2. CASE s # t
      <4>1. s # None
        BY DEF Tasks, None
      <4> QED BY <3>2, <4>1, <2>1, <2>2, <2>4 DEF Assigned
    <3> QED BY <3>1, <3>2
  <2> QED BY <2>5, <2>6, <2>7 DEF Assigned
<1>5. \A s \in Tasks : /\ exec'[s] # "none" <=> exec[s] # "none"
                       /\ Settled(s) => exec'[s] = exec[s]
  BY <1>2 DEF TypeOK, Settled
<1> QED BY <1>2, <1>3, <1>4, <1>5, ExecutingKeeps

LEMMA FinishKeeps ==
  ASSUME IInv, NEW w \in Workers, Finish(w)
  PROVE  IInv'
<1> USE DEF IInv
<1> DEFINE t == worker[w].task
<1>1. t \in Tasks /\ t # None /\ exec[t] = "running"
  BY DEF Finish, TypeOK, WorkerRec, Assigned
<1>2. PICK result \in {"ok", "error"} : exec' = [exec EXCEPT ![t] = result]
  BY DEF Finish
<1>3. worker' = [worker EXCEPT ![w] = Released]
      /\ UNCHANGED <<planning, phase, count, chunk, status>>
  BY DEF Finish
<1>4. TypeOK'
  BY <1>1, <1>2, <1>3 DEF TypeOK, WorkerRec, Released
<1>5. Assigned'
  <2>1. worker'[w].task = None /\ \A v \in Workers \ {w} : worker'[v] = worker[v]
    BY <1>3 DEF TypeOK, Released
  <2>2. exec'[t] = result /\ \A s \in Tasks \ {t} : exec'[s] = exec[s]
    BY <1>1, <1>2 DEF TypeOK
  <2>3. \A v \in Workers : worker'[v].status = "idle" => worker'[v].task = None
    BY <2>1 DEF Assigned
  <2>4. \A u, v \in Workers : worker'[u].task = worker'[v].task /\ worker'[u].task # None => u = v
    BY <2>1 DEF Assigned
  <2>5. ASSUME NEW s \in Tasks
        PROVE  exec'[s] = "running" <=> \E v \in Workers : worker'[v].task = s
    <3>0. s # None
      BY NoneApart
    <3>1. CASE s = t
      <4>1. \A v \in Workers : worker'[v].task # t
        BY <1>1, <2>1 DEF Assigned
      <4> QED BY <3>1, <4>1, <2>2
    <3>2. CASE s # t
      <4>1. \A v \in Workers : worker'[v].task = s <=> worker[v].task = s
        BY <3>0, <3>2, <2>1
      <4> QED BY <3>2, <4>1, <2>2 DEF Assigned
    <3> QED BY <3>1, <3>2
  <2> QED BY <2>3, <2>4, <2>5 DEF Assigned
<1>6. \A s \in Tasks : /\ exec'[s] # "none" <=> exec[s] # "none"
                       /\ Settled(s) => exec'[s] = exec[s]
  BY <1>1, <1>2 DEF TypeOK, Settled
<1> QED BY <1>3, <1>4, <1>5, <1>6, ExecutingKeeps

LEMMA StopAllKeeps ==
  ASSUME IInv, StopAll
  PROVE  IInv'
<1> USE DEF IInv
<1>1. /\ UNCHANGED <<planning, phase, count, chunk, status, exec>>
      /\ \A w \in Workers : worker'[w] = [worker[w] EXCEPT !.status = "stopped"]
      /\ worker' = [w \in Workers |-> [worker[w] EXCEPT !.status = "stopped"]]
  BY DEF StopAll
<1>2. TypeOK'
  BY <1>1 DEF TypeOK, WorkerRec
<1>3. \A w \in Workers : worker'[w].status = "stopped" /\ worker'[w].task = worker[w].task
  BY <1>1 DEF TypeOK, WorkerRec
<1>4. Assigned'
  <2>1. exec' = exec
    BY <1>1
  <2>2. \A v, w \in Workers : worker'[v].task = worker'[w].task /\ worker'[v].task # None => v = w
    BY <1>3 DEF Assigned
  <2>3. \A t \in Tasks : exec'[t] = "running" <=> \E w \in Workers : worker'[w].task = t
    BY <2>1, <1>3 DEF Assigned
  <2> QED BY <1>3, <2>2, <2>3 DEF Assigned
<1> QED BY <1>1, <1>2, <1>4, ExecutingKeeps DEF Settled

LEMMA RecordResultsKeeps ==
  ASSUME IInv, NEW r \in Runs, RecordResults(r)
  PROVE  IInv'
<1> USE PoolAssumption DEF IInv
<1> DEFINE next == IF count[r] = 1 THEN "returned" ELSE "synthesizing"
<1>1. /\ phase[r] = "executing" /\ UNCHANGED <<planning, count, chunk, exec, worker>>
      /\ phase' = [phase EXCEPT ![r] = next]
      /\ status' = [t \in Tasks |->
           IF t \in {r} \X (1 .. count[r]) THEN Verdict(t) ELSE status[t]]
  BY DEF RecordResults, ChunkEnded
<1>2. \A i \in 1 .. MaxSubtasks : i <= count[r] => Settled(<<r, i>>)
  <2>1. \A i \in 1 .. MaxSubtasks :
          i <= count[r] /\ i <= chunk[r] * Width(r) => Settled(<<r, i>>)
    BY EndedSettled DEF RecordResults
  <2>2. count[r] \in 1 .. MaxSubtasks /\ chunk[r] \in Nat
    BY <1>1 DEF Unplanned, TypeOK
  <2>3. chunk[r] * Width(r) \in Nat
    BY <2>2, WidthIs DEF Width
  <2>4. count[r] <= chunk[r] * Width(r)
    BY DEF RecordResults, LastChunk, Width
  <2> QED BY <2>1, <2>2, <2>3, <2>4
<1>3. TypeOK'
  BY <1>1 DEF TypeOK, Verdict
<1>4. phase'[r] = next /\ next \in {"returned", "synthesizing"}
      /\ \A q \in Runs \ {r} : phase'[q] = phase[q]
  BY <1>1 DEF TypeOK
<1>5. Unplanned'
  BY <1>1, <1>4 DEF Unplanned
<1>6. Assigned'
  BY <1>1 DEF Assigned
<1>7. ChunksInOrder'
  <2>1. \A q \in Runs : Width(q)' = Width(q)
    BY <1>1 DEF Width, Parallel
  <2>2. \A t \in Tasks : Settled(t)' <=> Settled(t)
    BY <1>1 DEF Settled
  <2>3. \A q \in Runs, i \in 1 .. MaxSubtasks : <<q, i>> \in Tasks
    BY DEF Tasks
  <2> QED BY <1>1, <1>2, <1>4, <2>1, <2>2, <2>3 DEF ChunksInOrder
<1>8. RecordedAsExecuted'
  <2> SUFFICES ASSUME NEW q \in Runs, phase'[q] \in {"synthesizing", "returned"},
                      NEW i \in 1 .. count[q]
               PROVE  status'[<<q, i>>] = IF exec[<<q, i>>] = "ok" THEN "complete" ELSE "failed"
    BY <1>1 DEF RecordedAsExecuted
  <2>1. i \in 1 .. MaxSubtasks /\ <<q, i>> \in Tasks
    BY DEF TypeOK, Tasks
  <2>2. CASE q = r
    <3>1. Settled(<<q, i>>)
      BY <2>1, <2>2, <1>2
    <3>2. status'[<<q, i>>] = Verdict(<<q, i>>)
      BY <2>1, <2>2, <1>1
    <3> QED BY <3>1, <3>2 DEF Settled, Verdict
  <2>3. CASE q # r
    <3>1. status'[<<q, i>>] = status[<<q, i>>] /\ phase'[q] = phase[q]
      BY <2>1, <2>3, <1>1, <1>4
    <3> QED BY <3>1 DEF RecordedAsExecuted
  <2> QED BY <2>2, <2>3
<1> QED BY <1>3, <1>5, <1>6, <1>7, <1>8

\* RunWithPlan and Synthesized only move the run to a phase of the same kind.
LEMMA MoveKeeps ==
  ASSUME IInv, NEW r \in Runs, RunWithPlan(r) \/ Synthesized(r)
  PROVE  IInv'
<1> USE DEF IInv
<1>1. UNCHANGED <<planning, count, chunk, status, exec, worker>>
  BY DEF RunWithPlan, Synthesized
<1>2. \/ phase[r] = "new" /\ phase' = [phase EXCEPT ![r] = "planning"]
      \/ phase[r] = "synthesizing" /\ phase' = [phase EXCEPT ![r] = "returned"]
  BY DEF RunWithPlan, Synthesized
<1>3. TypeOK'
  BY <1>1, <1>2 DEF TypeOK
<1>4. \A q \in Runs : /\ phase'[q] \in {"new", "planning"} <=> phase[q] \in {"new", "planning"}
                      /\ phase'[q] \in {"synthesizing", "returned"}
                           <=> phase[q] \in {"synthesizing", "returned"}
                      /\ Width(q)' = Width(q)
  BY <1>1, <1>2 DEF TypeOK, Width, Parallel
<1>5. Unplanned'
  BY <1>1, <1>4 DEF Unplanned
<1>6. ChunksInOrder'
  BY <1>1, <1>4 DEF ChunksInOrder, Settled
<1>7. Assigned'
  BY <1>1 DEF Assigned
<1>8. RecordedAsExecuted'
  BY <1>1, <1>4 DEF RecordedAsExecuted
<1> QED BY <1>3, <1>5, <1>6, <1>7, <1>8

LEMMA Initially == Init => IInv
<1> SUFFICES ASSUME Init PROVE IInv
  OBVIOUS
<1>0. planning \in BOOLEAN
  BY DEF Init
<1> USE PoolAssumption DEF Init
<1>1. TypeOK
  BY <1>0 DEF TypeOK, WorkerRec
<1>2. Unplanned
  BY DEF Unplanned
<1>3. ChunksInOrder
  <2>1. \A r \in Runs, i \in 1 .. MaxSubtasks : exec[<<r, i>>] = "none"
    BY DEF Tasks
  <2>2. \A r \in Runs : count[r] = 0 /\ phase[r] = "new"
    OBVIOUS
  <2>3. \A i \in 1 .. MaxSubtasks : ~(i <= 0)
    OBVIOUS
  <2> HIDE DEF Init
  <2> QED BY <2>1, <2>2, <2>3 DEF ChunksInOrder
<1>4. Assigned
  <2>1. \A w \in Workers : worker[w].task = None
    OBVIOUS
  <2>2. \A t \in Tasks : t # None
    BY NoneApart
  <2>3. \A t \in Tasks : exec[t] = "none"
    OBVIOUS
  <2>4. \A w \in Workers : worker[w].status = "idle"
    OBVIOUS
  <2> HIDE DEF Init
  <2> QED BY <2>1, <2>2, <2>3, <2>4 DEF Assigned
<1>5. RecordedAsExecuted
  BY DEF RecordedAsExecuted
<1> QED BY <1>1, <1>2, <1>3, <1>4, <1>5 DEF IInv

LEMMA Inductive == IInv /\ [Next]_vars => IInv'
<1> SUFFICES ASSUME IInv, [Next]_vars PROVE IInv'
  OBVIOUS
<1>1. ASSUME NEW r \in Runs, RunWithPlan(r) \/ Synthesized(r) PROVE IInv'
  BY <1>1, MoveKeeps
<1>2. ASSUME NEW r \in Runs, RunDirectly(r) PROVE IInv'
  BY <1>2, PoolAssumption, EnqueueKeeps DEF RunDirectly
<1>3. ASSUME NEW r \in Runs, Decomposed(r) PROVE IInv'
  BY <1>3, EnqueueKeeps DEF Decomposed
<1>4. ASSUME NEW r \in Runs, NextChunk(r) PROVE IInv'
  BY <1>4, NextChunkKeeps
<1>5. ASSUME NEW r \in Runs, RecordResults(r) PROVE IInv'
  BY <1>5, RecordResultsKeeps
<1>6. ASSUME NEW t \in Tasks, Claim(t) PROVE IInv'
  BY <1>6, ClaimKeeps
<1>7. ASSUME NEW w \in Workers, Finish(w) PROVE IInv'
  BY <1>7, FinishKeeps
<1>8. CASE StopAll
  BY <1>8, StopAllKeeps
<1>9. CASE UNCHANGED vars
  BY <1>9 DEF vars, IInv, TypeOK, Unplanned, ChunksInOrder, Width, Parallel, Settled, Assigned,
              RecordedAsExecuted
<1> QED BY <1>1, <1>2, <1>3, <1>4, <1>5, <1>6, <1>7, <1>8, <1>9 DEF Next

LEMMA Always == Spec => []IInv
BY Initially, Inductive, PTL DEF Spec

-----------------------------------------------------------------------------
(* The properties. *)

\* However a run is cut into chunks, at most Limit[r] of its tasks are out, and none is
\* out before those that are Limit[r] places ahead of it have settled.
LEMMA BarrierHolds == IInv => ChunkBarrier
<1> SUFFICES ASSUME IInv, NEW r \in Runs
             PROVE  /\ Cardinality({t \in {r} \X (1 .. MaxSubtasks) :
                                      exec[t] \in {"waiting", "running"}}) <= Limit[r]
                    /\ \A i, j \in 1 .. MaxSubtasks :
                         i + Limit[r] <= j /\ exec[<<r, j>>] # "none" => Settled(<<r, i>>)
  BY DEF ChunkBarrier
<1> USE PoolAssumption DEF IInv
<1> DEFINE Out == {t \in {r} \X (1 .. MaxSubtasks) : exec[t] \in {"waiting", "running"}}
<1>0. Limit[r] \in Nat \ {0}
  BY LimitAssumption
<1>1. CASE count[r] = 0
  <2>1. \A i \in 1 .. MaxSubtasks : exec[<<r, i>>] = "none"
    BY <1>1 DEF ChunksInOrder
  <2>2. Out = {}
    BY <2>1
  <2> QED BY <1>0, <2>1, <2>2, FS_EmptySet
<1>2. CASE count[r] # 0
  <2>1. count[r] \in 1 .. MaxSubtasks /\ chunk[r] \in Nat \ {0}
    BY <1>2 DEF TypeOK, Unplanned
  <2>2. Width(r) \in 1 .. Limit[r] /\ Width(r) \in Nat
    BY <2>1, <1>0, WidthIs DEF Width
  <2>3. PICK a \in Int, b \in Int :
           a = (chunk[r] - 1) * Width(r) /\ b = chunk[r] * Width(r) /\ b = a + Width(r)
    <3>1. chunk[r] - 1 \in Nat /\ (chunk[r] - 1) + 1 = chunk[r]
      BY <2>1
    <3>2. ((chunk[r] - 1) + 1) * Width(r) = (chunk[r] - 1) * Width(r) + Width(r)
          /\ (chunk[r] - 1) * Width(r) \in Nat
      BY <3>1, <2>2, NextMultiple
    <3> QED BY <3>1, <3>2, <2>2
  <2>4. \A i \in 1 .. MaxSubtasks : /\ exec[<<r, i>>] # "none" => i <= count[r] /\ i <= b
                                    /\ i <= count[r] /\ i <= a => Settled(<<r, i>>)
    BY <2>3 DEF ChunksInOrder
  <2>5. Out \subseteq {r} \X (a + 1 .. b)
    <3> SUFFICES ASSUME NEW i \in 1 .. MaxSubtasks, exec[<<r, i>>] \in {"waiting", "running"}
                 PROVE  i \in a + 1 .. b
      OBVIOUS
    <3>1. ~Settled(<<r, i>>) /\ exec[<<r, i>>] # "none"
      BY DEF Settled
    <3> QED BY <3>1, <2>3, <2>4
  <2>6. Cardinality(Out) <= b - (a + 1) + 1
    <3>1. a + 1 \in Int /\ a + 1 <= b + 1
      BY <2>2, <2>3
    <3> QED BY <3>1, <2>3, <2>5, StretchBound
  <2>7. IsFiniteSet(Out) /\ Cardinality(Out) \in Nat
    <3>1. Out \subseteq {r} \X (1 .. MaxSubtasks) /\ MaxSubtasks \in Int /\ 1 <= MaxSubtasks + 1
      OBVIOUS
    <3>2. IsFiniteSet(Out)
      BY <3>1, StretchBound
    <3> QED BY <3>2, FS_CardinalityType
  <2>8. Cardinality(Out) <= Limit[r]
    BY <1>0, <2>2, <2>3, <2>6, <2>7
  <2>9. ASSUME NEW i \in 1 .. MaxSubtasks, NEW j \in 1 .. MaxSubtasks,
               i + Limit[r] <= j, exec[<<r, j>>] # "none"
        PROVE  Settled(<<r, i>>)
    <3>1. j <= count[r] /\ j <= b
      BY <2>4, <2>9
    <3>2. i <= count[r] /\ i <= a
      <4>1. i <= j /\ i + Width(r) <= b
        BY <3>1, <1>0, <2>2, <2>3, <2>9
      <4> QED BY <3>1, <4>1, <2>1, <2>2, <2>3
    <3> QED BY <3>2, <2>4
  <2> QED BY <2>8, <2>9
<1> QED BY <1>1, <1>2

\* Runs keep to their chunks and the queue records what the workers reported.
THEOREM RunsAreSound == Spec => []RunsSound
<1>1. IInv => RunsSound
  BY BarrierHolds DEF IInv, RunsSound
<1> QED BY <1>1, Always, PTL

\* A task runs on exactly one worker, and a task that does not run on none.
THEOREM AssignedOnce == Spec => []ExclusiveAssignment
<1>1. IInv => ExclusiveAssignment
  <2> SUFFICES ASSUME IInv, NEW t \in Tasks
               PROVE  Cardinality({w \in Workers : worker[w].task = t})
                        = (IF exec[t] = "running" THEN 1 ELSE 0)
    BY DEF ExclusiveAssignment
  <2> DEFINE On == {w \in Workers : worker[w].task = t}
  <2>0. t # None
    BY DEF Tasks, None
  <2>1. CASE exec[t] = "running"
    <3>1. PICK w \in Workers : worker[w].task = t
      BY <2>1 DEF IInv, Assigned
    <3>2. On = {w}
      BY <3>1, <2>0 DEF IInv, Assigned
    <3> QED BY <2>1, <3>2, FS_Singleton
  <2>2. CASE exec[t] # "running"
    <3>1. On = {}
      BY <2>2 DEF IInv, Assigned
    <3> QED BY <2>2, <3>1, FS_EmptySet
  <2> QED BY <2>1, <2>2
<1> QED BY <1>1, Always, PTL

-----------------------------------------------------------------------------
(* The caller's view. *)

Todo(r) == {t \in {r} \X (1 .. count[r]) : exec[t] \in {"none", "waiting"}}
Active(r) == {t \in {r} \X (1 .. count[r]) : exec[t] = "running"}
Ended(r) == {t \in {r} \X (1 .. count[r]) : Settled(t)}
Returned == {r \in Runs : phase[r] = "returned"}

\* The runs other than r look as before.
OthersKept(r) ==
  \A q \in Runs \ {r} : Todo(q)' = Todo(q) /\ Active(q)' = Active(q) /\ Ended(q)' = Ended(q)

\* No run has more than Limit[r] tasks running, and all of them no more than there are workers.
LEMMA RunningFits ==
  ASSUME IInv
  PROVE  /\ \A r \in Runs : Cardinality(Active(r)) <= Limit[r]
         /\ Cardinality(UNION {Active(q) : q \in Runs}) <= PoolSize
<1> USE PoolAssumption DEF IInv
<1>1. ASSUME NEW r \in Runs PROVE Cardinality(Active(r)) <= Limit[r]
  <2> DEFINE Out == {t \in {r} \X (1 .. MaxSubtasks) : exec[t] \in {"waiting", "running"}}
  <2>1. Active(r) \subseteq Out
    BY DEF Active, TypeOK
  <2>2. Out \subseteq {r} \X (1 .. MaxSubtasks) /\ MaxSubtasks \in Int /\ 1 <= MaxSubtasks + 1
    OBVIOUS
  <2>3. IsFiniteSet(Out)
    BY <2>2, StretchBound
  <2>4. Cardinality(Out) <= Limit[r]
    BY BarrierHolds DEF ChunkBarrier
  <2>5. Cardinality(Active(r)) <= Cardinality(Out) /\ IsFiniteSet(Active(r))
    BY <2>1, <2>3, FS_Subset
  <2>6. Cardinality(Active(r)) \in Nat /\ Cardinality(Out) \in Nat /\ Limit[r] \in Nat
    BY <2>3, <2>5, FS_CardinalityType, LimitAssumption
  <2> QED BY <2>4, <2>5, <2>6
<1>2. Cardinality(UNION {Active(q) : q \in Runs}) <= PoolSize
  <2> DEFINE All == UNION {Active(q) : q \in Runs}
             on == [t \in All |-> CHOOSE w \in Workers : worker[w].task = t]
  <2>1. \A t \in All : t \in Tasks /\ exec[t] = "running"
    BY DEF Active, TypeOK, Tasks
  <2>2. \A t \in All : \E w \in Workers : worker[w].task = t
    BY <2>1 DEF Assigned
  <2>3. \A t \in All : on[t] \in Workers /\ worker[on[t]].task = t
    BY <2>2
  <2>4. on \in Injection(All, Workers)
    <3>1. on \in [All -> Workers]
      BY <2>3
    <3> HIDE DEF on, All
    <3>2. \A s, t \in All : on[s] = on[t] => s = t
      BY <2>3
    <3> QED BY <3>1, <3>2 DEF Injection, IsInjective
  <2>5. IsFiniteSet(Workers) /\ Cardinality(Workers) = PoolSize
    <3>1. PoolSize \in Int /\ 1 \in Int /\ PoolSize >= 1
      OBVIOUS
    <3> QED BY <3>1, FS_Interval DEF Workers
  <2> HIDE DEF on, All
  <2> QED BY <2>4, <2>5, FS_Injection DEF All
<1> QED BY <1>1, <1>2

LEMMA StutterSeen ==
  ASSUME UNCHANGED <<count, exec>>, Returned' = Returned
  PROVE  UNCHANGED Batches!vars
BY DEF Batches!vars, Returned, Settled

\* The actions of the caller's view, over these names.
BatchTodo == [r \in Runs |-> Todo(r)]
BatchActive == [r \in Runs |-> Active(r)]
BatchEnded == [r \in Runs |-> Ended(r)]
Fits(r, B) ==
  /\ Cardinality(BatchActive[r] \cup B) <= Limit[r]
  /\ Cardinality((UNION {BatchActive[q] : q \in Runs}) \cup B) <= PoolSize

LEMMA SameCardinality == \A S : Batches!Cardinality(S) = Cardinality(S)
BY DEF Batches!Cardinality, Cardinality

LEMMA FitsIs ==
  ASSUME NEW r, NEW B, Fits(r, B)
  PROVE  Batches!Fits(r, B)
BY SameCardinality DEF Batches!Fits, Fits, BatchActive, Active

LEMMA BeginIs ==
  ASSUME NEW r, NEW B \in SUBSET BatchTodo[r], Fits(r, B),
         BatchTodo' = [BatchTodo EXCEPT ![r] = @ \ B],
         BatchActive' = [BatchActive EXCEPT ![r] = @ \cup B],
         BatchEnded' = BatchEnded, Returned' = Returned
  PROVE  Batches!Begin(r)
BY FitsIs DEF Batches!Begin, BatchTodo, BatchActive, BatchEnded, Returned,
       Todo, Active, Ended

LEMMA SubmitIs ==
  ASSUME NEW r, NEW n \in 1 .. MaxSubtasks, NEW B \in SUBSET ({r} \X (1 .. n)), Fits(r, B),
         BatchTodo[r] = {}, BatchActive[r] = {}, BatchEnded[r] = {}, r \notin Returned,
         BatchTodo' = [BatchTodo EXCEPT ![r] = ({r} \X (1 .. n)) \ B],
         BatchActive' = [BatchActive EXCEPT ![r] = B],
         BatchEnded' = BatchEnded, Returned' = Returned
  PROVE  Batches!Submit(r)
BY FitsIs DEF Batches!Submit, Batches!Idle, Batches!Subtasks, BatchTodo, BatchActive,
              BatchEnded, Returned, Todo, Active, Ended

LEMMA EndIs ==
  ASSUME NEW r, NEW t \in BatchActive[r],
         BatchActive' = [BatchActive EXCEPT ![r] = @ \ {t}],
         BatchEnded' = [BatchEnded EXCEPT ![r] = @ \cup {t}],
         BatchTodo' = BatchTodo, Returned' = Returned
  PROVE  Batches!End(r)
BY DEF Batches!End, BatchTodo, BatchActive, BatchEnded, Returned, Todo, Active, Ended

LEMMA ReturnIs ==
  ASSUME NEW r, BatchTodo[r] = {}, BatchActive[r] = {}, BatchEnded[r] # {}, r \notin Returned,
         Returned' = Returned \cup {r},
         BatchTodo' = BatchTodo, BatchActive' = BatchActive, BatchEnded' = BatchEnded
  PROVE  Batches!Return(r)
BY DEF Batches!Return, BatchTodo, BatchActive, BatchEnded, Returned, Todo, Active, Ended

\* No run has more than Limit[r] tasks running, all runs together no more than there are
\* workers: what a step reaches fits.
FitsNow ==
  /\ \A r \in Runs : Cardinality(Active(r)) <= Limit[r]
  /\ Cardinality(UNION {Active(q) : q \in Runs}) <= PoolSize

LEMMA RunningFitsNext == IInv' => FitsNow'
<1>1. IInv => FitsNow
  BY RunningFits DEF FitsNow
<1> QED BY <1>1, PTL

LEMMA ReachedFits ==
  ASSUME IInv', NEW r \in Runs, NEW B,
         BatchActive' = [BatchActive EXCEPT ![r] = BatchActive[r] \cup B]
  PROVE  Fits(r, B)
<1>1. \A q \in Runs : Active(q)' = IF q = r THEN Active(r) \cup B ELSE Active(q)
  BY DEF BatchActive
<1>2. Cardinality(Active(r) \cup B) <= Limit[r]
  BY <1>1, RunningFitsNext DEF FitsNow
<1>3. (UNION {Active(q) : q \in Runs}) \cup B = UNION {Active(q)' : q \in Runs}
  BY <1>1
<1>4. Cardinality((UNION {Active(q) : q \in Runs}) \cup B) <= PoolSize
  BY <1>3, RunningFitsNext DEF FitsNow
<1>5. {BatchActive[q] : q \in Runs} = {Active(q) : q \in Runs} /\ BatchActive[r] = Active(r)
  BY DEF BatchActive
<1> QED BY <1>2, <1>4, <1>5 DEF Fits

LEMMA EnqueueSeen ==
  ASSUME IInv, IInv', NEW r \in Runs, NEW n \in 1 .. MaxSubtasks,
         phase[r] \in {"new", "planning"}, Enqueue(r, n)
  PROVE  Batches!Submit(r)
<1> USE PoolAssumption DEF IInv
<1> DEFINE B == Active(r)'
<1>1. /\ phase' = [phase EXCEPT ![r] = "executing"] /\ count' = [count EXCEPT ![r] = n]
      /\ StartChunk(r, n, 1)
  BY DEF Enqueue
<1>2. count[r] = 0
  BY DEF Unplanned
<1>3. BatchTodo[r] = {} /\ BatchActive[r] = {} /\ BatchEnded[r] = {}
  BY <1>2 DEF BatchTodo, BatchActive, BatchEnded, Todo, Active, Ended
<1>4. r \notin Returned /\ Returned' = Returned
  BY <1>1 DEF Returned, TypeOK
<1>5. count'[r] = n /\ \A q \in Runs \ {r} : count'[q] = count[q]
  BY <1>1 DEF TypeOK
<1>6. \A i \in 1 .. n : exec'[<<r, i>>] \in {"none", "waiting", "running"}
  <2>1. \A i \in 1 .. MaxSubtasks : exec[<<r, i>>] = "none" /\ <<r, i>> \in Tasks
    BY <1>2 DEF ChunksInOrder, Tasks
  <2>2. /\ \A t \in ChunkOf(r, n, 1) : exec'[t] \in {"waiting", "running"}
        /\ \A t \in Tasks \ ChunkOf(r, n, 1) : exec'[t] = exec[t]
    BY <1>1, StartIs
  <2> QED BY <2>1, <2>2
<1>7. \A q \in Runs \ {r} : \A i \in 1 .. MaxSubtasks : exec'[<<q, i>>] = exec[<<q, i>>]
  <2>1. \A t \in Tasks \ ChunkOf(r, n, 1) : exec'[t] = exec[t]
    BY <1>1, StartIs
  <2>2. \A q \in Runs \ {r} : \A i \in 1 .. MaxSubtasks : <<q, i>> \in Tasks \ ChunkOf(r, n, 1)
    BY ChunkIs DEF Tasks
  <2> QED BY <2>1, <2>2
<1>8. /\ Todo(r)' = ({r} \X (1 .. n)) \ B /\ Ended(r)' = {} /\ B \subseteq {r} \X (1 .. n)
  BY <1>5, <1>6 DEF Todo, Active, Ended, Settled
<1>9. ASSUME NEW q \in Runs \ {r}
      PROVE  Todo(q)' = Todo(q) /\ Active(q)' = Active(q) /\ Ended(q)' = Ended(q)
  <2>1. \A t \in {q} \X (1 .. count[q]) : exec'[t] = exec[t]
    BY <1>7 DEF TypeOK
  <2> QED BY <1>5, <2>1 DEF Todo, Active, Ended, Settled
<1>10. /\ BatchTodo' = [BatchTodo EXCEPT ![r] = ({r} \X (1 .. n)) \ B]
       /\ BatchActive' = [BatchActive EXCEPT ![r] = B]
       /\ BatchEnded' = BatchEnded
  BY <1>3, <1>8, <1>9 DEF BatchTodo, BatchActive, BatchEnded
<1>11. Fits(r, B)
  BY <1>3, <1>10, ReachedFits
<1> QED BY <1>3, <1>4, <1>8, <1>10, <1>11, SubmitIs

\* Tasks of one run that were not running yet do: the caller sees them begin.
LEMMA BeginSeen ==
  ASSUME TypeOK, IInv', NEW r \in Runs, UNCHANGED <<phase, count>>,
         \A t \in Tasks : exec'[t] = exec[t] \/ /\ t \in Todo(r)
                                                /\ exec'[t] \in {"waiting", "running"}
  PROVE  Batches!Begin(r)
<1> DEFINE B == {t \in Todo(r) : exec'[t] = "running"}
<1>1. \A q \in Runs : \A t \in {q} \X (1 .. count[q]) : t \in Tasks /\ (q # r => t \notin Todo(r))
  BY PoolAssumption DEF TypeOK, Tasks, Todo
<1>2. ASSUME NEW q \in Runs \ {r}
      PROVE  Todo(q)' = Todo(q) /\ Active(q)' = Active(q) /\ Ended(q)' = Ended(q)
  <2>1. \A t \in {q} \X (1 .. count[q]) : exec'[t] = exec[t]
    BY <1>1
  <2> QED BY <2>1 DEF Todo, Active, Ended, Settled
<1>3. Todo(r)' = Todo(r) \ B /\ Active(r)' = Active(r) \cup B /\ Ended(r)' = Ended(r)
  <2>1. \A t \in {r} \X (1 .. count[r]) :
          \/ exec'[t] = exec[t]
          \/ exec[t] \in {"none", "waiting"} /\ exec'[t] \in {"waiting", "running"}
    BY <1>1 DEF Todo
  <2> QED BY <2>1 DEF Todo, Active, Ended, Settled
<1>4. /\ BatchTodo' = [BatchTodo EXCEPT ![r] = BatchTodo[r] \ B]
      /\ BatchActive' = [BatchActive EXCEPT ![r] = BatchActive[r] \cup B]
      /\ BatchEnded' = BatchEnded
  BY <1>2, <1>3 DEF BatchTodo, BatchActive, BatchEnded
<1>5. Fits(r, B)
  BY <1>4, ReachedFits
<1>6. Returned' = Returned /\ B \in SUBSET BatchTodo[r]
  BY DEF Returned, BatchTodo
<1> QED BY <1>4, <1>5, <1>6, BeginIs

LEMMA NextChunkSeen ==
  ASSUME IInv, IInv', NEW r \in Runs, NextChunk(r)
  PROVE  Batches!Begin(r)
<1> USE PoolAssumption DEF IInv
<1> DEFINE n == count[r]
           c == chunk[r] + 1
<1>1. phase[r] = "executing" /\ StartChunk(r, n, c) /\ UNCHANGED <<phase, count>>
  BY DEF NextChunk, ChunkEnded
<1>2. n \in 1 .. MaxSubtasks /\ chunk[r] \in Nat \ {0} /\ c \in Nat \ {0} /\ c - 1 = chunk[r]
  BY <1>1 DEF TypeOK, Unplanned
<1>3. /\ \A t \in ChunkOf(r, n, c) : exec'[t] \in {"waiting", "running"}
      /\ \A t \in Tasks \ ChunkOf(r, n, c) : exec'[t] = exec[t]
  BY <1>1, <1>2, StartIs
<1>4. PICK b \in Int : b = chunk[r] * Width(r)
  BY <1>2, WidthIs DEF Width
<1>5. ASSUME NEW t \in ChunkOf(r, n, c) PROVE t \in Todo(r)
  <2>1. PICK i \in 1 .. n : t = <<r, i>> /\ b < i
    BY <1>2, <1>4, ChunkIs DEF Width
  <2>2. exec[<<r, i>>] # "none" => i <= b
    BY <1>2, <1>4, <2>1 DEF ChunksInOrder
  <2>3. exec[<<r, i>>] = "none"
    BY <1>4, <2>1, <2>2
  <2> QED BY <2>1, <2>3 DEF Todo
<1> QED BY <1>1, <1>3, <1>5, BeginSeen

LEMMA ClaimSeen ==
  ASSUME IInv, IInv', NEW t \in Tasks, Claim(t)
  PROVE  \E r \in Runs : Batches!Begin(r)
<1> USE PoolAssumption DEF IInv
<1>1. PICK r \in Runs, i \in 1 .. MaxSubtasks : t = <<r, i>>
  BY DEF Tasks
<1>2. exec[t] = "waiting" /\ exec' = [exec EXCEPT ![t] = "running"] /\ UNCHANGED <<phase, count>>
  BY DEF Claim
<1>3. i \in 1 .. count[r]
  BY <1>1, <1>2 DEF ChunksInOrder, TypeOK
<1>4. t \in Todo(r)
  BY <1>1, <1>2, <1>3 DEF Todo
<1>5. exec'[t] = "running" /\ \A s \in Tasks \ {t} : exec'[s] = exec[s]
  BY <1>2 DEF TypeOK
<1> QED BY <1>2, <1>4, <1>5, BeginSeen

LEMMA FinishSeen ==
  ASSUME IInv, NEW w \in Workers, Finish(w)
  PROVE  \E r \in Runs : Batches!End(r)
<1> USE PoolAssumption DEF IInv
<1> DEFINE t == worker[w].task
<1>1. t \in Tasks /\ exec[t] = "running"
  BY DEF Finish, TypeOK, WorkerRec, Assigned
<1>2. PICK result \in {"ok", "error"} : exec' = [exec EXCEPT ![t] = result]
  BY DEF Finish
<1>3. UNCHANGED <<phase, count>>
  BY DEF Finish
<1>4. PICK r \in Runs, i \in 1 .. MaxSubtasks : t = <<r, i>>
  BY <1>1 DEF Tasks
<1>5. i \in 1 .. count[r]
  BY <1>1, <1>4 DEF ChunksInOrder, TypeOK
<1>6. exec'[t] = result /\ \A s \in Tasks \ {t} : exec'[s] = exec[s]
  BY <1>1, <1>2 DEF TypeOK
<1>7. \A q \in Runs : \A s \in {q} \X (1 .. count[q]) : s \in Tasks /\ (q # r => s # t)
  BY <1>4 DEF TypeOK, Tasks
<1>8. ASSUME NEW q \in Runs \ {r}
      PROVE  Todo(q)' = Todo(q) /\ Active(q)' = Active(q) /\ Ended(q)' = Ended(q)
  <2>1. \A s \in {q} \X (1 .. count[q]) : exec'[s] = exec[s]
    BY <1>6, <1>7
  <2> QED BY <1>3, <2>1 DEF Todo, Active, Ended, Settled
<1>9. t \in {r} \X (1 .. count[r]) /\ t \in Active(r)
  BY <1>1, <1>4, <1>5 DEF Active
<1>10. Todo(r)' = Todo(r) /\ Active(r)' = Active(r) \ {t} /\ Ended(r)' = Ended(r) \cup {t}
  <2>1. \A s \in {r} \X (1 .. count[r]) : s # t => exec'[s] = exec[s]
    BY <1>6, <1>7
  <2> HIDE DEF t
  <2> QED BY <1>1, <1>3, <1>6, <1>9, <2>1 DEF Todo, Active, Ended, Settled
<1>11. /\ BatchActive' = [BatchActive EXCEPT ![r] = BatchActive[r] \ {t}]
       /\ BatchEnded' = [BatchEnded EXCEPT ![r] = BatchEnded[r] \cup {t}]
       /\ BatchTodo' = BatchTodo /\ Returned' = Returned /\ t \in BatchActive[r]
  BY <1>3, <1>8, <1>9, <1>10 DEF BatchTodo, BatchActive, BatchEnded, Returned
<1> QED BY <1>11, EndIs

\* A run whose results are recorded, or whose answers are synthesized, is seen to return.
LEMMA ReturnSeen ==
  ASSUME IInv, IInv', NEW r \in Runs, phase[r] # "returned", phase[r] \notin {"new", "planning"},
         phase' = [phase EXCEPT ![r] = "returned"], UNCHANGED <<count, exec>>
  PROVE  Batches!Return(r)
<1> USE PoolAssumption DEF IInv
<1>1. count[r] \in 1 .. MaxSubtasks
  BY DEF Unplanned, TypeOK
<1>2. phase'[r] = "returned" /\ count'[r] = count[r]
  BY DEF TypeOK
<1>3. \A i \in 1 .. MaxSubtasks : i <= count[r] => Settled(<<r, i>>)'
  BY <1>2 DEF ChunksInOrder
<1>4. \A t \in {r} \X (1 .. count[r]) : Settled(t)
  BY <1>1, <1>3 DEF Settled
<1>5. <<r, 1>> \in {r} \X (1 .. count[r])
  BY <1>1
<1>6. BatchTodo[r] = {} /\ BatchActive[r] = {} /\ BatchEnded[r] # {}
  BY <1>4, <1>5 DEF BatchTodo, BatchActive, BatchEnded, Todo, Active, Ended, Settled
<1>7. r \notin Returned /\ Returned' = Returned \cup {r}
  BY DEF Returned, TypeOK
<1>8. BatchTodo' = BatchTodo /\ BatchActive' = BatchActive /\ BatchEnded' = BatchEnded
  BY DEF BatchTodo, BatchActive, BatchEnded, Todo, Active, Ended, Settled
<1> QED BY <1>6, <1>7, <1>8, ReturnIs

LEMMA InitSeen == Init => Batches!Init
<1> SUFFICES ASSUME Init PROVE Batches!Init
  OBVIOUS
<1>1. \A r \in Runs : count[r] = 0 /\ phase[r] = "new"
  BY DEF Init
<1>2. \A r \in Runs : {r} \X (1 .. count[r]) = {}
  BY <1>1
<1> QED BY <1>1, <1>2 DEF Batches!Init

LEMMA StepSeen == IInv /\ IInv' /\ [Next]_vars => [Batches!Next]_(Batches!vars)
<1> SUFFICES ASSUME IInv, IInv', [Next]_vars
             PROVE  Batches!Next \/ UNCHANGED Batches!vars
  OBVIOUS
<1> USE DEF Batches!Next
<1>1. ASSUME NEW r \in Runs, RunWithPlan(r) PROVE UNCHANGED Batches!vars
  <2>1. Returned' = Returned
    BY <1>1 DEF RunWithPlan, Returned, IInv, TypeOK
  <2> QED BY <1>1, <2>1, StutterSeen DEF RunWithPlan
<1>2. ASSUME NEW r \in Runs, RunDirectly(r) PROVE Batches!Next
  BY <1>2, PoolAssumption, EnqueueSeen DEF RunDirectly
<1>3. ASSUME NEW r \in Runs, Decomposed(r) PROVE Batches!Next
  BY <1>3, EnqueueSeen DEF Decomposed
<1>4. ASSUME NEW r \in Runs, NextChunk(r) PROVE Batches!Next
  BY <1>4, NextChunkSeen
<1>5. ASSUME NEW r \in Runs, RecordResults(r) PROVE Batches!Next \/ UNCHANGED Batches!vars
  <2>1. phase[r] = "executing" /\ UNCHANGED <<count, exec>>
    BY <1>5 DEF RecordResults, ChunkEnded
  <2>2. CASE count[r] = 1
    <3>1. phase' = [phase EXCEPT ![r] = "returned"]
      BY <1>5, <2>2 DEF RecordResults
    <3> QED BY <2>1, <3>1, ReturnSeen
  <2>3. CASE count[r] # 1
    <3>1. phase' = [phase EXCEPT ![r] = "synthesizing"]
      BY <1>5, <2>3 DEF RecordResults
    <3>2. Returned' = Returned
      BY <2>1, <3>1 DEF Returned, IInv, TypeOK
    <3> QED BY <2>1, <3>2, StutterSeen
  <2> QED BY <2>2, <2>3
<1>6. ASSUME NEW r \in Runs, Synthesized(r) PROVE Batches!Next
  BY <1>6, ReturnSeen DEF Synthesized
<1>7. ASSUME NEW t \in Tasks, Claim(t) PROVE Batches!Next
  BY <1>7, ClaimSeen
<1>8. ASSUME NEW w \in Workers, Finish(w) PROVE Batches!Next
  BY <1>8, FinishSeen
<1>9. CASE StopAll \/ UNCHANGED vars
  BY <1>9, StutterSeen DEF StopAll, vars, Returned
<1> QED BY <1>1, <1>2, <1>3, <1>4, <1>5, <1>6, <1>7, <1>8, <1>9 DEF Next

\* Chunks, polling and shared workers implement the caller's view of a run: each of its
\* subtasks is executed once, within its limit and the workers there are, before it returns.
THEOREM RefinesBatches == Spec => ImplementsBatches
<1>1. Init => Batches!Init
  BY InitSeen
<1>2. IInv /\ IInv' /\ [Next]_vars => [Batches!Next]_(Batches!vars)
  BY StepSeen
<1>3. Spec => Batches!Spec
  BY <1>1, <1>2, Always, PTL DEF Spec, Batches!Spec
<1> QED BY <1>3 DEF ImplementsBatches
=============================================================================
