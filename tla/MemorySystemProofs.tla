-------------------------- MODULE MemorySystemProofs --------------------------
(* Proofs about MemorySystem, for any clients, facts, drafts and bounds: clients that   *)
(* take turns leave an exact index, a consolidation that nobody disturbs leaves one      *)
(* entry of each body, and a fact that was saved stays told while one client             *)
(* consolidates next to the others, but for the losses SavedIsKept names.                *)
EXTENDS MemorySystem, SequenceTheorems, FiniteSetTheorems, TLAPS

-----------------------------------------------------------------------------
(* Types. *)

Texts == [tells : SUBSET Facts, relative : BOOLEAN, stamps : Nat]
Entries == [text : Texts, sure : 0 .. 2]
Listings == [id : Ids, entry : Entries]
Files == [there : BOOLEAN, entry : Entries, writers : SUBSET Clients]
Purposes == {"index", "dream", "model", "clusters", "count"}

OpenJobs == [do : {"open"}, id : Ids, entry : Entries]
WriteJobs == [do : {"write"}, id : Ids, entry : Entries]
UnlinkJobs == [do : {"unlink"}, id : Ids, asked : BOOLEAN]
ListJobs == [do : {"list"}, purpose : Purposes]
LoadJobs == [do : {"load"}, purpose : Purposes, left : SUBSET Ids, all : SUBSET Listings]
SummarizeJobs == [do : {"summarize"}, order : Seq(Ids), cluster : SUBSET Listings]
Jobs == OpenJobs \cup WriteJobs \cup UnlinkJobs \cup ListJobs \cup LoadJobs \cup SummarizeJobs

Saves(job) == job.do \in {"open", "write"}
Removes(job, asked) == job.do = "unlink" /\ job.asked = asked
Lists(job, purposes) == job.do \in {"list", "load"} /\ job.purpose \in purposes

\* the ids a job was planned with
Mentions(job, id) ==
  \/ (Saves(job) \/ job.do = "unlink") /\ job.id = id
  \/ job.do = "load" /\ (id \in job.left \/ id \in IdsOf(job.all))
  \/ job.do = "summarize" /\ id \in IdsOf(job.cluster)

\* x may stand before y in an agenda: writes and loads come first only, a consolidation is
\* planned when nothing but the model's is left to do, what is written is not deleted as
\* a duplicate, and what is deleted is not written again
MayPrecede(x, y) ==
  /\ y.do \notin {"write", "load"}
  /\ Lists(x, {"dream", "count"}) => y = List("model")
  /\ ~Lists(x, {"model", "clusters"})
  /\ x.do = "summarize" => y.do = "summarize"
  /\ Saves(x) /\ Removes(y, FALSE) => x.id # y.id
  /\ x.do = "unlink" /\ y.do = "open" => x.id # y.id
  /\ Saves(x) /\ Saves(y) /\ x.id = y.id => x.entry = y.entry

JobsOf(a) == {a[i] : i \in DOMAIN a}
Ordered(a) == \A i, j \in DOMAIN a : i < j => MayPrecede(a[i], a[j])
HeadOk(a) == a # <<>> /\ Head(a).do = "write" => Tail(a) # <<>> /\ Head(Tail(a)) = List("index")

LoadOk(job) ==
  /\ job.purpose = "index" => job.left = {}
  /\ \A d, e \in job.all : d.id = e.id => d = e
  /\ job.left \cap IdsOf(job.all) = {}
JobOk(job, n) ==
  /\ \A id \in Ids : Mentions(job, id) => id <= n
  /\ job.do = "load" => LoadOk(job)

\* what a client does that does not consolidate
Modest(job) == Saves(job) \/ Removes(job, TRUE) \/ Lists(job, {"index"})

AgendaOk(c) ==
  /\ Ordered(agenda[c])
  /\ HeadOk(agenda[c])
  /\ \A job \in JobsOf(agenda[c]) : JobOk(job, issued) /\ (c # Dreamer => Modest(job))

Typed ==
  /\ file \in [Ids -> Files]
  /\ \A id \in Ids : file[id].there => id <= issued
  /\ index \in SUBSET Ids
  /\ issued \in 0 .. MaxEntries
  /\ agenda \in [Clients -> Seq(Jobs)]
  /\ kept \in SUBSET Facts
  /\ alone \in BOOLEAN
  /\ \A c \in Clients : AgendaOk(c)

-----------------------------------------------------------------------------
(* Agendas as sequences. *)

LEMMA SingleIs ==
  ASSUME NEW S, NEW x \in S
  PROVE  /\ <<x>> \in Seq(S) /\ <<x>> # <<>> /\ Head(<<x>>) = x /\ Tail(<<x>>) = <<>>
         /\ JobsOf(<<x>>) = {x} /\ Ordered(<<x>>)
<1>1. <<x>> \in Seq(S) /\ Len(<<x>>) = 1 /\ <<x>>[1] = x /\ Head(<<x>>) = x /\ Tail(<<x>>) = <<>>
  OBVIOUS
<1>2. DOMAIN <<x>> = {1}
  OBVIOUS
<1>3. JobsOf(<<x>>) = {x}
  BY <1>1, <1>2 DEF JobsOf
<1>4. Ordered(<<x>>)
  BY <1>2 DEF Ordered
<1> QED BY <1>1, <1>3, <1>4

LEMMA NothingIs ==
  ASSUME NEW S
  PROVE  <<>> \in Seq(S) /\ JobsOf(<<>>) = {} /\ Ordered(<<>>)
BY DEF JobsOf, Ordered

LEMMA TailIs ==
  ASSUME NEW S, NEW a \in Seq(S), a # <<>>
  PROVE  /\ Tail(a) \in Seq(S) /\ Head(a) \in S /\ Head(a) = a[1]
         /\ JobsOf(a) = {Head(a)} \cup JobsOf(Tail(a))
         /\ Ordered(a) => /\ Ordered(Tail(a))
                          /\ \A y \in JobsOf(Tail(a)) : MayPrecede(Head(a), y)
<1>1. Len(a) \in Nat /\ Len(a) >= 1 /\ DOMAIN a = 1 .. Len(a)
  OBVIOUS
<1>2. /\ Tail(a) \in Seq(S) /\ Len(Tail(a)) = Len(a) - 1 /\ DOMAIN Tail(a) = 1 .. Len(a) - 1
      /\ \A i \in 1 .. Len(a) - 1 : Tail(a)[i] = a[i + 1]
  BY <1>1
<1>3. Head(a) = a[1] /\ Head(a) \in S
  BY <1>1
<1>4. \A i \in DOMAIN a : i = 1 \/ (i - 1 \in DOMAIN Tail(a) /\ a[i] = Tail(a)[i - 1])
  BY <1>1, <1>2
<1>5. \A i \in DOMAIN Tail(a) : i + 1 \in DOMAIN a /\ 1 \in DOMAIN a /\ 1 < i + 1 /\ Tail(a)[i] = a[i + 1]
  BY <1>1, <1>2
<1>6. JobsOf(a) = {Head(a)} \cup JobsOf(Tail(a))
  <2>1. ASSUME NEW x \in JobsOf(a) PROVE x = Head(a) \/ x \in JobsOf(Tail(a))
    <3>1. PICK i \in DOMAIN a : x = a[i]
      BY DEF JobsOf
    <3> QED BY <1>3, <1>4, <3>1 DEF JobsOf
  <2>2. Head(a) \in JobsOf(a)
    <3>1. 1 \in DOMAIN a
      BY <1>1
    <3> QED BY <1>3, <3>1 DEF JobsOf
  <2>3. ASSUME NEW x \in JobsOf(Tail(a)) PROVE x \in JobsOf(a)
    <3>1. PICK i \in DOMAIN Tail(a) : x = Tail(a)[i]
      BY DEF JobsOf
    <3> QED BY <1>5, <3>1 DEF JobsOf
  <2> QED BY <2>1, <2>2, <2>3
<1>7. ASSUME Ordered(a)
      PROVE  Ordered(Tail(a)) /\ \A y \in JobsOf(Tail(a)) : MayPrecede(Head(a), y)
  <2>1. ASSUME NEW i \in DOMAIN Tail(a), NEW j \in DOMAIN Tail(a), i < j
        PROVE  MayPrecede(Tail(a)[i], Tail(a)[j])
    <3>1. i + 1 < j + 1
      BY <1>2, <2>1
    <3> QED BY <1>5, <1>7, <3>1 DEF Ordered
  <2>2. \A i \in DOMAIN Tail(a) : MayPrecede(Head(a), Tail(a)[i])
    BY <1>3, <1>5, <1>7 DEF Ordered
  <2> QED BY <2>1, <2>2 DEF Ordered, JobsOf
<1> QED BY <1>2, <1>3, <1>6, <1>7

LEMMA ConcatIs ==
  ASSUME NEW S, NEW a \in Seq(S), NEW b \in Seq(S)
  PROVE  /\ a \o b \in Seq(S) /\ JobsOf(a \o b) = JobsOf(a) \cup JobsOf(b)
         /\ a # <<>> => a \o b # <<>> /\ Head(a \o b) = Head(a) /\ Tail(a \o b) = Tail(a) \o b
         /\ a = <<>> => a \o b = b
         /\ Ordered(a) /\ Ordered(b) /\ (\A x \in JobsOf(a), y \in JobsOf(b) : MayPrecede(x, y))
              => Ordered(a \o b)
<1>1. /\ Len(a) \in Nat /\ Len(b) \in Nat /\ DOMAIN a = 1 .. Len(a) /\ DOMAIN b = 1 .. Len(b)
  OBVIOUS
<1>2. /\ a \o b \in Seq(S) /\ Len(a \o b) = Len(a) + Len(b) /\ DOMAIN (a \o b) = 1 .. Len(a) + Len(b)
      /\ \A i \in 1 .. Len(a) + Len(b) :
           (a \o b)[i] = IF i <= Len(a) THEN a[i] ELSE b[i - Len(a)]
  BY <1>1
<1>3. \A i \in DOMAIN (a \o b) :
        \/ i \in DOMAIN a /\ (a \o b)[i] = a[i]
        \/ i - Len(a) \in DOMAIN b /\ i > Len(a) /\ (a \o b)[i] = b[i - Len(a)]
  BY <1>1, <1>2
<1>4. /\ \A i \in DOMAIN a : i \in DOMAIN (a \o b) /\ (a \o b)[i] = a[i]
      /\ \A i \in DOMAIN b : i + Len(a) \in DOMAIN (a \o b) /\ (a \o b)[i + Len(a)] = b[i]
  BY <1>1, <1>2
<1>5. JobsOf(a \o b) = JobsOf(a) \cup JobsOf(b)
  <2>1. ASSUME NEW x \in JobsOf(a \o b) PROVE x \in JobsOf(a) \/ x \in JobsOf(b)
    <3>1. PICK i \in DOMAIN (a \o b) : x = (a \o b)[i]
      BY DEF JobsOf
    <3> QED BY <1>3, <3>1 DEF JobsOf
  <2>2. ASSUME NEW x \in JobsOf(a) PROVE x \in JobsOf(a \o b)
    <3>1. PICK i \in DOMAIN a : x = a[i]
      BY DEF JobsOf
    <3> QED BY <1>4, <3>1 DEF JobsOf
  <2>3. ASSUME NEW x \in JobsOf(b) PROVE x \in JobsOf(a \o b)
    <3>1. PICK i \in DOMAIN b : x = b[i]
      BY DEF JobsOf
    <3> QED BY <1>4, <3>1 DEF JobsOf
  <2> QED BY <2>1, <2>2, <2>3
<1>6. a # <<>> => a \o b # <<>> /\ Head(a \o b) = Head(a) /\ Tail(a \o b) = Tail(a) \o b
  BY <1>1, <1>2
<1>7. a = <<>> => a \o b = b
  OBVIOUS
<1>8. ASSUME Ordered(a), Ordered(b), \A x \in JobsOf(a), y \in JobsOf(b) : MayPrecede(x, y)
      PROVE  Ordered(a \o b)
  <2>1. ASSUME NEW i \in DOMAIN (a \o b), NEW j \in DOMAIN (a \o b), i < j
        PROVE  MayPrecede((a \o b)[i], (a \o b)[j])
    <3>1. CASE j \in DOMAIN a /\ (a \o b)[j] = a[j]
      <4>1. i \in DOMAIN a /\ (a \o b)[i] = a[i]
        BY <1>1, <1>2, <1>4, <2>1, <3>1
      <4> QED BY <1>8, <2>1, <3>1, <4>1 DEF Ordered
    <3>2. CASE j - Len(a) \in DOMAIN b /\ (a \o b)[j] = b[j - Len(a)] /\ i \in DOMAIN a /\ (a \o b)[i] = a[i]
      BY <1>8, <3>2 DEF JobsOf
    <3>3. CASE j - Len(a) \in DOMAIN b /\ (a \o b)[j] = b[j - Len(a)]
                 /\ i - Len(a) \in DOMAIN b /\ (a \o b)[i] = b[i - Len(a)]
      <4>1. i - Len(a) < j - Len(a)
        BY <1>1, <1>2, <2>1
      <4> QED BY <1>8, <3>3, <4>1 DEF Ordered
    <3> QED BY <1>3, <3>1, <3>2, <3>3
  <2> QED BY <2>1 DEF Ordered
<1> QED BY <1>2, <1>5, <1>6, <1>7, <1>8

LEMMA ConcatOrdered ==
  ASSUME NEW S, NEW a \in Seq(S), NEW b \in Seq(S), Ordered(a), Ordered(b),
         \A x \in JobsOf(a), y \in JobsOf(b) : MayPrecede(x, y)
  PROVE  Ordered(a \o b)
BY ConcatIs

LEMMA Joined ==
  ASSUME NEW S, NEW a \in Seq(S), NEW b \in Seq(S), Ordered(a), Ordered(b),
         \A x \in JobsOf(a), y \in JobsOf(b) : MayPrecede(x, y)
  PROVE  a \o b \in Seq(S) /\ JobsOf(a \o b) = JobsOf(a) \cup JobsOf(b) /\ Ordered(a \o b)
BY ConcatIs, ConcatOrdered

LEMMA PairIs ==
  ASSUME NEW S, NEW x \in S, NEW y \in S, MayPrecede(x, y)
  PROVE  /\ <<x>> \o <<y>> \in Seq(S) /\ Ordered(<<x>> \o <<y>>)
         /\ JobsOf(<<x>> \o <<y>>) = {x, y}
         /\ <<x>> \o <<y>> # <<>> /\ Head(<<x>> \o <<y>>) = x /\ Tail(<<x>> \o <<y>>) = <<y>>
<1> DEFINE a == <<x>>
           b == <<y>>
<1>1. a \in Seq(S) /\ JobsOf(a) = {x} /\ Ordered(a) /\ a # <<>> /\ Head(a) = x /\ Tail(a) = <<>>
  BY SingleIs
<1>2. b \in Seq(S) /\ JobsOf(b) = {y} /\ Ordered(b) /\ <<>> \o b = b
  BY SingleIs
<1> HIDE DEF a, b
<1>3. \A v \in JobsOf(a), w \in JobsOf(b) : MayPrecede(v, w)
  BY <1>1, <1>2
<1>4. a \in Seq(S) /\ b \in Seq(S) /\ Ordered(a) /\ Ordered(b) /\ a # <<>>
  BY <1>1, <1>2
<1>5. /\ a \o b \in Seq(S) /\ JobsOf(a \o b) = JobsOf(a) \cup JobsOf(b)
      /\ a \o b # <<>> /\ Head(a \o b) = Head(a) /\ Tail(a \o b) = Tail(a) \o b
  BY <1>4, ConcatIs
<1>6. Ordered(a \o b)
  BY <1>3, <1>4, ConcatOrdered
<1>7. JobsOf(a \o b) = {x, y}
  BY <1>1, <1>2, <1>5
<1> QED BY <1>1, <1>2, <1>5, <1>6, <1>7 DEF a, b

LEMMA OrdersAre ==
  ASSUME NEW ids \in SUBSET Ids, NEW gone \in Orders(ids)
  PROVE  gone \in Seq(Ids) /\ ToSet(gone) = ids
<1>1. IsFiniteSet(ids)
  <2>1. MaxEntries \in Int
    BY BoundsAssumption
  <2>2. IsFiniteSet(Ids)
    BY <2>1, FS_Interval DEF Ids
  <2> QED BY <2>2, FS_Subset
<1>2. Cardinality(ids) \in Nat
  BY <1>1, FS_CardinalityType
<1>3. gone \in [1 .. Cardinality(ids) -> ids] /\ ToSet(gone) = ids
  BY DEF Orders
<1>4. gone \in [1 .. Cardinality(ids) -> Ids]
  BY <1>3
<1> QED BY <1>2, <1>3, <1>4

LEMMA InOrderIs ==
  ASSUME NEW ids \in SUBSET Ids, NEW order, NEW gone \in InOrder(order, ids)
  PROVE  gone \in Seq(Ids) /\ ToSet(gone) = ids
<1>1. gone \in Orders(ids)
  BY DEF InOrder
<1> QED BY <1>1, OrdersAre

LEMMA DeleteAllIs ==
  ASSUME NEW gone \in Seq(Ids), NEW asked \in BOOLEAN
  PROVE  /\ DeleteAll(gone, asked) \in Seq(Jobs) /\ Ordered(DeleteAll(gone, asked))
         /\ JobsOf(DeleteAll(gone, asked)) = {Unlink(id, asked) : id \in ToSet(gone)}
<1> DEFINE d == DeleteAll(gone, asked)
<1>1. DOMAIN gone = 1 .. Len(gone) /\ Len(gone) \in Nat /\ \A i \in DOMAIN gone : gone[i] \in Ids
  OBVIOUS
<1>2. DOMAIN d = DOMAIN gone /\ \A i \in DOMAIN gone : d[i] = Unlink(gone[i], asked)
  BY DEF DeleteAll
<1>3. \A id \in Ids : Unlink(id, asked) \in Jobs
  BY DEF Unlink, Jobs, UnlinkJobs
<1>4. d \in [1 .. Len(gone) -> Jobs]
  <2>1. d = [i \in DOMAIN gone |-> Unlink(gone[i], asked)]
    BY DEF DeleteAll
  <2> QED BY <1>1, <1>3, <2>1
<1>5. d \in Seq(Jobs)
  BY <1>1, <1>4
<1>6. JobsOf(d) = {Unlink(id, asked) : id \in ToSet(gone)}
  BY <1>2 DEF JobsOf, ToSet
<1>7. \A x, y \in Ids : MayPrecede(Unlink(x, asked), Unlink(y, asked))
  BY DEF MayPrecede, Unlink, Lists, Saves
<1>8. Ordered(d)
  BY <1>1, <1>2, <1>7 DEF Ordered
<1> QED BY <1>5, <1>6, <1>8

LEMMA JobKinds ==
  ASSUME NEW job \in Jobs
  PROVE  /\ job.do = "open" => job \in OpenJobs
         /\ job.do = "write" => job \in WriteJobs
         /\ job.do = "unlink" => job \in UnlinkJobs
         /\ job.do = "list" => job \in ListJobs
         /\ job.do = "load" => job \in LoadJobs
         /\ job.do = "summarize" => job \in SummarizeJobs
BY DEF Jobs, OpenJobs, WriteJobs, UnlinkJobs, ListJobs, LoadJobs, SummarizeJobs

LEMMA JobOkLater ==
  ASSUME NEW job, NEW n \in Int, NEW m \in Int, n <= m, JobOk(job, n)
  PROVE  JobOk(job, m)
BY DEF JobOk, Ids

\* A client's agenda after its first job was done and some were planned instead.
LEMMA ContinueIs ==
  ASSUME Typed, NEW c \in Clients, Busy(c), NEW jobs \in Seq(Jobs), Continue(c, jobs),
         Ordered(jobs), HeadOk(jobs),
         \A x \in JobsOf(jobs), y \in JobsOf(Tail(agenda[c])) : MayPrecede(x, y)
  PROVE  \E b \in Seq(Jobs) :
           /\ agenda' = [agenda EXCEPT ![c] = b]
           /\ b = jobs \o Tail(agenda[c])
           /\ Ordered(b) /\ HeadOk(b)
           /\ JobsOf(b) = JobsOf(jobs) \cup JobsOf(Tail(agenda[c]))
<1> DEFINE a == agenda[c]
           b == jobs \o Tail(a)
<1>1. a \in Seq(Jobs) /\ a # <<>> /\ Ordered(a)
  BY DEF Typed, AgendaOk, Busy
<1>2. /\ Tail(a) \in Seq(Jobs) /\ Ordered(Tail(a))
      /\ \A y \in JobsOf(Tail(a)) : MayPrecede(Head(a), y)
  BY <1>1, TailIs
<1>3. /\ b \in Seq(Jobs) /\ JobsOf(b) = JobsOf(jobs) \cup JobsOf(Tail(a)) /\ Ordered(b)
      /\ jobs # <<>> => b # <<>> /\ Head(b) = Head(jobs) /\ Tail(b) = Tail(jobs) \o Tail(a)
      /\ jobs = <<>> => b = Tail(a)
  <2>1. \A x \in JobsOf(jobs), y \in JobsOf(Tail(a)) : MayPrecede(x, y)
    OBVIOUS
  <2>2. Ordered(jobs) /\ jobs \in Seq(Jobs)
    OBVIOUS
  <2> DEFINE t == Tail(a)
  <2>3. t \in Seq(Jobs) /\ Ordered(t) /\ \A x \in JobsOf(jobs), y \in JobsOf(t) : MayPrecede(x, y)
    BY <1>2, <2>1
  <2> HIDE DEF t
  <2>4. /\ jobs \o t \in Seq(Jobs) /\ JobsOf(jobs \o t) = JobsOf(jobs) \cup JobsOf(t)
        /\ Ordered(jobs \o t)
        /\ jobs # <<>> => /\ jobs \o t # <<>> /\ Head(jobs \o t) = Head(jobs)
                          /\ Tail(jobs \o t) = Tail(jobs) \o t
        /\ jobs = <<>> => jobs \o t = t
    BY <2>2, <2>3, ConcatIs
  <2> QED BY <2>4 DEF t
<1>4. agenda' = [agenda EXCEPT ![c] = b]
  BY DEF Continue
<1>5. HeadOk(b)
  <2>1. CASE jobs = <<>>
    <3>1. Tail(a) # <<>> => Head(Tail(a)) \in JobsOf(Tail(a))
      BY <1>2, TailIs
    <3>2. Tail(a) # <<>> => Head(Tail(a)).do # "write"
      BY <1>2, <3>1 DEF MayPrecede
    <3> QED BY <1>3, <2>1, <3>2 DEF HeadOk
  <2>2. CASE jobs # <<>>
    <3>1. Tail(jobs) \in Seq(Jobs)
      BY <2>2, TailIs
    <3>2. Tail(jobs) # <<>> =>
            Tail(jobs) \o Tail(a) # <<>> /\ Head(Tail(jobs) \o Tail(a)) = Head(Tail(jobs))
      BY <1>2, <3>1, ConcatIs
    <3> QED BY <1>3, <2>2, <3>2 DEF HeadOk
  <2> QED BY <2>1, <2>2
<1> QED BY <1>3, <1>4, <1>5

\* Typed is about one agenda and the rest.
LEMMA PlanTyped ==
  ASSUME Typed, NEW c \in Clients, NEW b \in Seq(Jobs), agenda' = [agenda EXCEPT ![c] = b],
         Ordered(b), HeadOk(b), issued' \in issued .. MaxEntries,
         \A job \in JobsOf(b) : JobOk(job, issued') /\ (c # Dreamer => Modest(job)),
         file' \in [Ids -> Files], \A id \in Ids : file'[id].there => id <= issued',
         index' \in SUBSET Ids, kept' \in SUBSET Facts, alone' \in BOOLEAN
  PROVE  Typed'
<1>1. agenda \in [Clients -> Seq(Jobs)] /\ issued \in 0 .. MaxEntries
  BY DEF Typed
<1>2. agenda' \in [Clients -> Seq(Jobs)] /\ agenda'[c] = b
      /\ \A d \in Clients \ {c} : agenda'[d] = agenda[d]
  BY <1>1
<1>3. issued' \in 0 .. MaxEntries /\ issued \in Int /\ issued' \in Int /\ issued <= issued'
  BY <1>1, BoundsAssumption
<1>4. ASSUME NEW d \in Clients PROVE AgendaOk(d)'
  <2>1. CASE d = c
    BY <1>2, <2>1 DEF AgendaOk
  <2>2. CASE d # c
    <3>1. agenda'[d] = agenda[d] /\ AgendaOk(d)
      BY <1>2, <2>2 DEF Typed
    <3>2. \A job \in JobsOf(agenda[d]) : JobOk(job, issued')
      BY <1>3, <3>1, JobOkLater DEF AgendaOk
    <3> QED BY <3>1, <3>2 DEF AgendaOk
  <2> QED BY <2>1, <2>2
<1> QED BY <1>2, <1>3, <1>4 DEF Typed

LEMMA HeadIs ==
  ASSUME Typed, NEW c \in Clients, Busy(c)
  PROVE  /\ Job(c) \in Jobs /\ JobOk(Job(c), issued) /\ (c # Dreamer => Modest(Job(c)))
         /\ JobsOf(agenda[c]) = {Job(c)} \cup JobsOf(Tail(agenda[c]))
         /\ Tail(agenda[c]) \in Seq(Jobs) /\ Ordered(Tail(agenda[c]))
         /\ \A y \in JobsOf(Tail(agenda[c])) :
              /\ y \in Jobs /\ JobOk(y, issued) /\ (c # Dreamer => Modest(y))
              /\ MayPrecede(Job(c), y)
<1>1. agenda[c] \in Seq(Jobs) /\ agenda[c] # <<>> /\ AgendaOk(c)
  BY DEF Typed, Busy
<1>2. /\ Tail(agenda[c]) \in Seq(Jobs) /\ Head(agenda[c]) \in Jobs
      /\ JobsOf(agenda[c]) = {Head(agenda[c])} \cup JobsOf(Tail(agenda[c]))
      /\ Ordered(Tail(agenda[c]))
      /\ \A y \in JobsOf(Tail(agenda[c])) : MayPrecede(Head(agenda[c]), y)
  BY <1>1, TailIs DEF AgendaOk
<1>3. \A y \in JobsOf(Tail(agenda[c])) : y \in Jobs
  BY <1>2 DEF JobsOf
<1> QED BY <1>1, <1>2, <1>3 DEF AgendaOk, Job

LEMMA ContinueTyped ==
  ASSUME Typed, NEW c \in Clients, Busy(c), NEW jobs \in Seq(Jobs), Continue(c, jobs),
         Ordered(jobs), HeadOk(jobs), issued' \in issued .. MaxEntries,
         \A x \in JobsOf(jobs) :
           /\ JobOk(x, issued') /\ (c # Dreamer => Modest(x))
           /\ \A y \in JobsOf(Tail(agenda[c])) : MayPrecede(x, y),
         file' \in [Ids -> Files], \A id \in Ids : file'[id].there => id <= issued',
         index' \in SUBSET Ids, kept' \in SUBSET Facts, alone' \in BOOLEAN
  PROVE  Typed'
<1>1. PICK b \in Seq(Jobs) :
        /\ agenda' = [agenda EXCEPT ![c] = b] /\ Ordered(b) /\ HeadOk(b)
        /\ JobsOf(b) = JobsOf(jobs) \cup JobsOf(Tail(agenda[c]))
  BY ContinueIs
<1>2. issued \in Int /\ issued' \in Int /\ issued <= issued'
  BY BoundsAssumption DEF Typed
<1>3. \A y \in JobsOf(Tail(agenda[c])) : JobOk(y, issued') /\ (c # Dreamer => Modest(y))
  BY <1>2, HeadIs, JobOkLater
<1>4. \A job \in JobsOf(b) : JobOk(job, issued') /\ (c # Dreamer => Modest(job))
  BY <1>1, <1>3
<1> QED BY <1>1, <1>4, PlanTyped

\* The same for a single job, or none, when only the agenda changes.
LEMMA SingleTyped ==
  ASSUME Typed, NEW c \in Clients, Busy(c), NEW x \in Jobs, Continue(c, <<x>>),
         x.do # "write", JobOk(x, issued), c # Dreamer => Modest(x),
         \A y \in Jobs : MayPrecede(Job(c), y) => MayPrecede(x, y),
         UNCHANGED <<file, index, issued, kept, alone>>
  PROVE  Typed'
<1>1. /\ <<x>> \in Seq(Jobs) /\ Head(<<x>>) = x /\ JobsOf(<<x>>) = {x} /\ Ordered(<<x>>)
  BY SingleIs
<1>2. HeadOk(<<x>>)
  BY <1>1 DEF HeadOk
<1>3. \A y \in JobsOf(Tail(agenda[c])) : MayPrecede(x, y)
  BY HeadIs
<1>4. /\ file' \in [Ids -> Files] /\ \A id \in Ids : file'[id].there => id <= issued'
      /\ index' \in SUBSET Ids /\ kept' \in SUBSET Facts /\ alone' \in BOOLEAN
      /\ issued' = issued
  BY DEF Typed
<1>5. issued' \in issued .. MaxEntries
  BY <1>4, BoundsAssumption DEF Typed
<1>6. \A z \in JobsOf(<<x>>) :
        /\ JobOk(z, issued') /\ (c # Dreamer => Modest(z))
        /\ \A y \in JobsOf(Tail(agenda[c])) : MayPrecede(z, y)
  BY <1>1, <1>3, <1>4
<1> QED BY <1>1, <1>2, <1>4, <1>5, <1>6, ContinueTyped

LEMMA NoneTyped ==
  ASSUME Typed, NEW c \in Clients, Busy(c), Continue(c, <<>>), issued' = issued,
         file' \in [Ids -> Files], \A id \in Ids : file'[id].there => id <= issued,
         index' \in SUBSET Ids, kept' \in SUBSET Facts, alone' \in BOOLEAN
  PROVE  Typed'
<1>1. <<>> \in Seq(Jobs) /\ JobsOf(<<>>) = {} /\ Ordered(<<>>)
  BY NothingIs
<1>2. HeadOk(<<>>)
  BY DEF HeadOk
<1>3. issued' \in issued .. MaxEntries
  BY BoundsAssumption DEF Typed
<1>4. \A id \in Ids : file'[id].there => id <= issued'
  OBVIOUS
<1>5. \A z \in JobsOf(<<>>) :
        /\ JobOk(z, issued') /\ (c # Dreamer => Modest(z))
        /\ \A y \in JobsOf(Tail(agenda[c])) : MayPrecede(z, y)
  BY <1>1
<1> QED BY <1>1, <1>2, <1>3, <1>4, <1>5, ContinueTyped

\* A client that is not busy plans jobs.
LEMMA StartTyped ==
  ASSUME Typed, NEW c \in Clients, NEW b \in Seq(Jobs), Start(c, b),
         Ordered(b), HeadOk(b), issued' \in issued .. MaxEntries,
         \A job \in JobsOf(b) : JobOk(job, issued') /\ (c # Dreamer => Modest(job)),
         UNCHANGED <<file, index, kept>>
  PROVE  Typed'
<1>1. agenda' = [agenda EXCEPT ![c] = b] /\ alone' \in BOOLEAN
  BY DEF Start, Typed
<1>2. issued \in Int /\ issued' \in Int /\ issued <= issued'
  BY BoundsAssumption DEF Typed
<1>3. \A id \in Ids : file'[id].there => id <= issued'
  BY <1>2 DEF Typed, Ids
<1>4. file' \in [Ids -> Files] /\ index' \in SUBSET Ids /\ kept' \in SUBSET Facts
  BY DEF Typed
<1> QED BY <1>1, <1>3, <1>4, PlanTyped

-----------------------------------------------------------------------------
(* Type correctness, one lemma per action. *)

LEMMA EntriesAre ==
  /\ Entry(Blank, 2) \in Entries /\ Absent \in Files
  /\ \A draft \in Drafts : Entry(Unstamped(draft[1]), draft[2]) \in Entries
<1>1. Entry(Blank, 2) \in Entries
  BY DEF Entry, Blank, Entries, Texts
<1>2. Absent \in Files
  BY <1>1 DEF Absent, Files
<1>3. ASSUME NEW draft \in Drafts
      PROVE  Entry(Unstamped(draft[1]), draft[2]) \in Entries
  <2>1. draft[1] \in Facts /\ draft[2] \in 0 .. 2
    BY ClientsAssumption
  <2>2. Unstamped(draft[1]) \in Texts
    BY <2>1 DEF Unstamped, Texts
  <2> QED BY <2>1, <2>2 DEF Entry, Entries
<1> QED BY <1>1, <1>2, <1>3

LEMMA InitTyped ==
  ASSUME Init
  PROVE  Typed
<1>1. file \in [Ids -> Files] /\ \A id \in Ids : ~file[id].there
  BY EntriesAre DEF Init, Absent
<1>2. \A c \in Clients : agenda[c] = <<>>
  BY DEF Init
<1>3. agenda \in [Clients -> Seq(Jobs)]
  BY DEF Init
<1>4. \A c \in Clients : AgendaOk(c)
  BY <1>2, NothingIs DEF AgendaOk, HeadOk
<1> QED BY <1>1, <1>3, <1>4, BoundsAssumption DEF Typed, Init

LEMMA SaveTyped ==
  ASSUME Typed, NEW c \in Clients, NEW draft \in Drafts, Save(c, draft)
  PROVE  Typed'
<1> DEFINE x == Open(issued + 1, Entry(Unstamped(draft[1]), draft[2]))
<1>1. issued + 1 \in Ids /\ issued \in Int /\ issued' = issued + 1 /\ issued' \in issued .. MaxEntries
  BY BoundsAssumption DEF Save, Ids, Typed
<1>2. x \in Jobs
  BY <1>1, EntriesAre DEF Open, Jobs, OpenJobs
<1>3. x.do = "open" /\ x.id = issued + 1
  BY DEF Open
<1>4. JobOk(x, issued') /\ Modest(x)
  <2>1. \A id \in Ids : Mentions(x, id) => id <= issued'
    BY <1>1, <1>3 DEF Mentions
  <2> QED BY <1>3, <2>1 DEF JobOk, Modest, Saves
<1>5. Start(c, <<x>>) /\ UNCHANGED <<file, index, kept>>
  BY DEF Save
<1> HIDE DEF x
<1>6. <<x>> \in Seq(Jobs) /\ JobsOf(<<x>>) = {x} /\ Ordered(<<x>>) /\ HeadOk(<<x>>)
  BY <1>2, <1>3, SingleIs DEF HeadOk
<1> QED BY <1>1, <1>4, <1>5, <1>6, StartTyped

LEMMA StartOneTyped ==
  ASSUME Typed, NEW c \in Clients, NEW x \in Jobs, Start(c, <<x>>), x.do # "write",
         JobOk(x, issued), c # Dreamer => Modest(x), UNCHANGED <<file, index, issued, kept>>
  PROVE  Typed'
<1>1. <<x>> \in Seq(Jobs) /\ JobsOf(<<x>>) = {x} /\ Ordered(<<x>>) /\ HeadOk(<<x>>)
  BY SingleIs DEF HeadOk
<1>2. issued' \in issued .. MaxEntries /\ issued' = issued
  BY BoundsAssumption DEF Typed
<1>3. \A job \in JobsOf(<<x>>) : JobOk(job, issued') /\ (c # Dreamer => Modest(job))
  BY <1>1, <1>2
<1> QED BY <1>1, <1>2, <1>3, StartTyped

LEMMA DeleteTyped ==
  ASSUME Typed, NEW c \in Clients, NEW id \in Ids, Delete(c, id)
  PROVE  Typed'
<1>1. Unlink(id, TRUE) \in Jobs /\ Unlink(id, TRUE).do = "unlink"
  BY DEF Unlink, Jobs, UnlinkJobs
<1>2. id <= issued
  BY DEF Typed, Delete, Present
<1>3. JobOk(Unlink(id, TRUE), issued) /\ Modest(Unlink(id, TRUE))
  BY <1>2 DEF JobOk, Mentions, Modest, Removes, Saves, Unlink
<1> QED BY <1>1, <1>3, StartOneTyped DEF Delete

LEMMA ListJobIs ==
  ASSUME NEW purpose \in Purposes, NEW n
  PROVE  /\ List(purpose) \in Jobs /\ List(purpose).do = "list" /\ List(purpose).purpose = purpose
         /\ JobOk(List(purpose), n)
         /\ purpose = "index" => Modest(List(purpose))
BY DEF List, Jobs, ListJobs, JobOk, Mentions, Saves, Modest, Lists

LEMMA DreamTyped ==
  ASSUME Typed, NEW withModel \in BOOLEAN, Dream(withModel)
  PROVE  Typed'
<1>1. Dreamer \in Clients
  BY ClientsAssumption
<1>2. List("dream") \in Jobs /\ List("model") \in Jobs
      /\ JobOk(List("dream"), issued) /\ JobOk(List("model"), issued)
  BY ListJobIs DEF Purposes
<1>3. CASE ~withModel
  <2>1. Start(Dreamer, <<List("dream")>>) /\ UNCHANGED <<file, index, issued, kept>>
    BY <1>3 DEF Dream
  <2>2. List("dream").do # "write"
    BY DEF List
  <2> QED BY <1>1, <1>2, <2>1, <2>2, StartOneTyped
<1>4. CASE withModel
  <2> DEFINE b == <<List("dream"), List("model")>>
  <2>1. Start(Dreamer, b) /\ UNCHANGED <<file, index, issued, kept>>
    BY <1>4 DEF Dream
  <2>2. b \in Seq(Jobs) /\ b = <<List("dream")>> \o <<List("model")>>
    BY <1>2
  <2>3. MayPrecede(List("dream"), List("model"))
    BY DEF MayPrecede, List, Lists, Saves
  <2>4. JobsOf(b) = {List("dream"), List("model")} /\ Ordered(b)
    <3> DEFINE x == List("dream")
               y == List("model")
    <3>1. x \in Jobs /\ y \in Jobs /\ MayPrecede(x, y) /\ b = <<x>> \o <<y>>
      BY <1>2, <2>2, <2>3
    <3> HIDE DEF x, y, b
    <3>2. JobsOf(b) = {x, y} /\ Ordered(b)
      BY <3>1, PairIs
    <3> QED BY <3>2 DEF x, y
  <2>5. HeadOk(b)
    BY DEF HeadOk, List
  <2>6. issued' \in issued .. MaxEntries /\ issued' = issued
    BY <2>1, BoundsAssumption DEF Typed
  <2> HIDE DEF b
  <2>7. \A job \in JobsOf(b) : JobOk(job, issued') /\ (Dreamer # Dreamer => Modest(job))
    BY <1>2, <2>4, <2>6
  <2> QED BY <1>1, <2>1, <2>2, <2>4, <2>5, <2>6, <2>7, StartTyped
<1> QED BY <1>3, <1>4

LEMMA ConsolidateV2Typed ==
  ASSUME Typed, ConsolidateV2
  PROVE  Typed'
<1>1. List("clusters") \in Jobs /\ JobOk(List("clusters"), issued) /\ List("clusters").do # "write"
  BY ListJobIs DEF Purposes, List
<1> QED BY <1>1, ClientsAssumption, StartOneTyped DEF ConsolidateV2

LEMMA OpenTyped ==
  ASSUME Typed, NEW c \in Clients, OpenFile(c)
  PROVE  Typed'
<1> DEFINE j == Job(c)
           x == Write(j.id, j.entry)
           y == List("index")
           jobs == <<x>> \o Rebuild
<1>1. Busy(c) /\ j.do = "open" /\ Continue(c, jobs) /\ UNCHANGED <<index, issued, kept, alone>>
  BY DEF OpenFile, Doing, Job
<1>2. j \in OpenJobs /\ JobOk(j, issued) /\ (c # Dreamer => Modest(j))
  BY <1>1, HeadIs, JobKinds
<1>3. j.id \in Ids /\ j.entry \in Entries /\ j.id <= issued
  BY <1>1, <1>2 DEF OpenJobs, JobOk, Mentions, Saves
<1>4. x \in Jobs /\ y \in Jobs
  BY <1>3, ListJobIs DEF Write, Jobs, WriteJobs, Purposes
<1>5. x.do = "write" /\ x.id = j.id /\ x.entry = j.entry /\ y.do = "list" /\ y.purpose = "index"
  BY DEF Write, List
<1>6. JobOk(x, issued) /\ JobOk(y, issued) /\ Modest(x) /\ Modest(y)
  BY <1>3, <1>5 DEF JobOk, Mentions, Saves, Modest, Lists
<1>7. MayPrecede(x, y)
  BY <1>5 DEF MayPrecede, Lists, Saves, Removes
<1>8. \A z \in Jobs : MayPrecede(j, z) => MayPrecede(x, z) /\ MayPrecede(y, z)
  BY <1>1, <1>5 DEF MayPrecede, Lists, Saves, Removes
<1>9. Rebuild = <<y>>
  BY DEF Rebuild
<1>10. /\ file' \in [Ids -> Files]
       /\ \A id \in Ids : file'[id].there => file[id].there \/ id = j.id
  <2> DEFINE f == [there |-> TRUE, entry |-> Entry(Blank, 2), writers |-> file[j.id].writers \cup {c}]
  <2>1. file' = [file EXCEPT ![j.id] = f]
    BY DEF OpenFile
  <2>2. file \in [Ids -> Files]
    BY DEF Typed
  <2>3. f \in Files
    BY <1>3, <2>2, EntriesAre DEF Files
  <2> HIDE DEF f
  <2> QED BY <1>3, <2>1, <2>2, <2>3
<1>11. \A id \in Ids : file'[id].there => id <= issued
  BY <1>3, <1>10 DEF Typed
<1> HIDE DEF x, y, j
<1>12. /\ jobs \in Seq(Jobs) /\ JobsOf(jobs) = {x, y} /\ Ordered(jobs)
       /\ jobs # <<>> /\ Tail(jobs) = <<y>> /\ <<y>> # <<>> /\ Head(<<y>>) = y
  <2>1. /\ <<x>> \o <<y>> \in Seq(Jobs) /\ Ordered(<<x>> \o <<y>>)
        /\ JobsOf(<<x>> \o <<y>>) = {x, y}
        /\ <<x>> \o <<y>> # <<>> /\ Tail(<<x>> \o <<y>>) = <<y>>
    BY <1>4, <1>7, PairIs
  <2>2. <<y>> # <<>> /\ Head(<<y>>) = y
    BY <1>4, SingleIs
  <2> QED BY <1>9, <2>1, <2>2
<1>13. HeadOk(jobs)
  BY <1>12 DEF HeadOk, y
<1> HIDE DEF jobs
<1>14. \A z \in JobsOf(Tail(agenda[c])) : MayPrecede(x, z) /\ MayPrecede(y, z)
  BY <1>1, <1>8, HeadIs DEF j
<1>15. issued' \in issued .. MaxEntries /\ issued' = issued
  BY <1>1, BoundsAssumption DEF Typed
<1>16. index' \in SUBSET Ids /\ kept' \in SUBSET Facts /\ alone' \in BOOLEAN
  BY <1>1 DEF Typed
<1>17. \A z \in JobsOf(jobs) :
         /\ JobOk(z, issued') /\ (c # Dreamer => Modest(z))
         /\ \A w \in JobsOf(Tail(agenda[c])) : MayPrecede(z, w)
  BY <1>6, <1>12, <1>14, <1>15
<1>18. \A id \in Ids : file'[id].there => id <= issued'
  BY <1>11, <1>15
<1> QED BY <1>1, <1>10, <1>12, <1>13, <1>15, <1>16, <1>17, <1>18, ContinueTyped

LEMMA WriteTyped ==
  ASSUME Typed, NEW c \in Clients, WriteFile(c)
  PROVE  Typed'
<1> DEFINE j == Job(c)
<1>1. Busy(c) /\ j.do = "write" /\ Continue(c, <<>>) /\ UNCHANGED <<index, issued, alone>>
  BY DEF WriteFile, Doing, Job
<1>2. j \in WriteJobs
  BY <1>1, HeadIs, JobKinds
<1>3. j.id \in Ids /\ j.entry \in Entries /\ j.entry.text.tells \subseteq Facts
  BY <1>2 DEF WriteJobs, Entries, Texts
<1>4. file \in [Ids -> Files] /\ kept \in SUBSET Facts
      /\ index' \in SUBSET Ids /\ alone' \in BOOLEAN
      /\ \A id \in Ids : file[id].there => id <= issued
  BY <1>1 DEF Typed
<1>5. /\ file' \in [Ids -> Files] /\ kept' \in SUBSET Facts
      /\ \A id \in Ids : file'[id].there => id <= issued
  <2>1. CASE c \in file[j.id].writers
    <3> DEFINE f == [file[j.id] EXCEPT !.entry = j.entry, !.writers = @ \ {c}]
    <3>1. file' = [file EXCEPT ![j.id] = f] /\ kept' \subseteq kept \cup j.entry.text.tells
      BY <1>3, <1>4, <2>1 DEF WriteFile
    <3>2. f \in Files /\ f.there = file[j.id].there
      BY <1>3, <1>4 DEF Files
    <3> HIDE DEF f
    <3> QED BY <1>3, <1>4, <3>1, <3>2
  <2>2. CASE c \notin file[j.id].writers
    BY <1>4, <2>2 DEF WriteFile
  <2> QED BY <2>1, <2>2
<1> QED BY <1>1, <1>4, <1>5, NoneTyped

LEMMA UnlinkTyped ==
  ASSUME Typed, NEW c \in Clients, UnlinkFile(c)
  PROVE  Typed'
<1> DEFINE j == Job(c)
           x == List("index")
<1>1. Busy(c) /\ j.do = "unlink" /\ UNCHANGED <<index, issued, alone>>
  BY DEF UnlinkFile, Doing, Job
<1>2. j \in UnlinkJobs
  BY <1>1, HeadIs, JobKinds
<1>3. j.id \in Ids
  BY <1>2 DEF UnlinkJobs
<1>4. file \in [Ids -> Files] /\ kept \in SUBSET Facts
      /\ index' \in SUBSET Ids /\ alone' \in BOOLEAN
      /\ \A id \in Ids : file[id].there => id <= issued
  BY <1>1 DEF Typed
<1>5. /\ file' \in [Ids -> Files] /\ kept' \in SUBSET Facts
      /\ \A id \in Ids : file'[id].there => id <= issued
  <2>1. CASE file[j.id].there
    <3>1. file' = [file EXCEPT ![j.id] = Absent] /\ kept' \subseteq kept
      BY <2>1 DEF UnlinkFile
    <3>2. ~Absent.there /\ Absent \in Files
      BY EntriesAre DEF Absent
    <3> QED BY <1>3, <1>4, <3>1, <3>2
  <2>2. CASE ~file[j.id].there
    BY <1>4, <2>2 DEF UnlinkFile
  <2> QED BY <2>1, <2>2
<1>6. CASE ~file[j.id].there
  <2>1. Continue(c, <<>>)
    BY <1>6 DEF UnlinkFile
  <2> QED BY <1>1, <1>4, <1>5, <2>1, NoneTyped
<1>7. CASE file[j.id].there
  <2>1. Continue(c, <<x>>)
    BY <1>7 DEF UnlinkFile, Unlinked, Rebuild
  <2>2. x \in Jobs /\ x.do = "list" /\ x.purpose = "index" /\ JobOk(x, issued) /\ Modest(x)
    BY ListJobIs DEF Purposes
  <2>3. \A y \in JobsOf(Tail(agenda[c])) : MayPrecede(j, y)
    BY <1>1, HeadIs
  <2>4. \A y \in JobsOf(Tail(agenda[c])) : MayPrecede(x, y)
    BY <2>2, <2>3 DEF MayPrecede, Lists, Saves
  <2> HIDE DEF x
  <2>5. <<x>> \in Seq(Jobs) /\ JobsOf(<<x>>) = {x} /\ Ordered(<<x>>) /\ HeadOk(<<x>>)
    BY <2>2, SingleIs DEF HeadOk
  <2>6. issued' \in issued .. MaxEntries /\ issued' = issued
    BY <1>1, BoundsAssumption DEF Typed
  <2>7. \A z \in JobsOf(<<x>>) :
          /\ JobOk(z, issued') /\ (c # Dreamer => Modest(z))
          /\ \A y \in JobsOf(Tail(agenda[c])) : MayPrecede(z, y)
    BY <2>2, <2>4, <2>5, <2>6
  <2>8. \A id \in Ids : file'[id].there => id <= issued'
    BY <1>5, <2>6
  <2> QED BY <1>1, <1>4, <1>5, <2>1, <2>5, <2>6, <2>7, <2>8, ContinueTyped
<1> QED BY <1>6, <1>7

LEMMA HeldIs ==
  ASSUME Typed, NEW ids \in SUBSET Ids
  PROVE  /\ Held(ids) \in SUBSET Listings
         /\ \A e \in Held(ids) : e.id \in ids /\ file[e.id].there /\ e.entry = file[e.id].entry
         /\ \A id \in ids : file[id].there => [id |-> id, entry |-> file[id].entry] \in Held(ids)
         /\ IdsOf(Held(ids)) = {id \in ids : file[id].there}
<1>1. \A id \in Ids : file[id].entry \in Entries
  BY DEF Typed, Files
<1>2. ASSUME NEW e \in Held(ids)
      PROVE  e \in Listings /\ e.id \in ids /\ file[e.id].there /\ e.entry = file[e.id].entry
  <2>1. PICK id \in {i \in ids : file[i].there} : e = [id |-> id, entry |-> file[id].entry]
    BY DEF Held
  <2> QED BY <1>1, <2>1 DEF Listings
<1>3. ASSUME NEW id \in ids, file[id].there
      PROVE  [id |-> id, entry |-> file[id].entry] \in Held(ids) /\ id \in IdsOf(Held(ids))
  <2>1. [id |-> id, entry |-> file[id].entry] \in Held(ids)
    BY <1>3 DEF Held
  <2>2. [id |-> id, entry |-> file[id].entry].id = id
    OBVIOUS
  <2> QED BY <2>1, <2>2 DEF IdsOf
<1>4. \A id \in IdsOf(Held(ids)) : id \in ids /\ file[id].there
  BY <1>2 DEF IdsOf
<1> QED BY <1>2, <1>3, <1>4

LEMMA LoadJobIs ==
  ASSUME NEW purpose, NEW left, NEW all
  PROVE  /\ purpose \in Purposes /\ left \in SUBSET Ids /\ all \in SUBSET Listings
              => Load(purpose, left, all) \in Jobs
         /\ Load(purpose, left, all).do = "load" /\ Load(purpose, left, all).purpose = purpose
         /\ Load(purpose, left, all).left = left /\ Load(purpose, left, all).all = all
         /\ purpose = "index" => Modest(Load(purpose, left, all))
         /\ \A y : MayPrecede(List(purpose), y) => MayPrecede(Load(purpose, left, all), y)
BY DEF Load, List, Jobs, LoadJobs, Modest, Lists, Saves, MayPrecede

LEMMA ListTyped ==
  ASSUME Typed, NEW c \in Clients, ListFiles(c)
  PROVE  Typed'
<1> DEFINE j == Job(c)
           x == IF j.purpose = "index" THEN Load("index", {}, Held(Present))
                ELSE Load(j.purpose, Present, {})
<1>1. /\ Busy(c) /\ j.do = "list" /\ Continue(c, <<x>>)
      /\ UNCHANGED <<file, index, issued, kept, alone>>
  BY DEF ListFiles, Doing, Job
<1>2. j \in ListJobs /\ (c # Dreamer => Modest(j))
  BY <1>1, HeadIs, JobKinds
<1>3. j.purpose \in Purposes /\ j = List(j.purpose)
  BY <1>2 DEF ListJobs, List
<1>4. Present \in SUBSET Ids /\ \A id \in Present : id <= issued /\ file[id].there
  BY DEF Present, Typed
<1>5. /\ Held(Present) \in SUBSET Listings /\ IdsOf(Held(Present)) \subseteq Present
      /\ \A e \in Held(Present) : e.entry = file[e.id].entry
  BY <1>4, HeldIs
<1>6. /\ x \in Jobs /\ x.do = "load" /\ x.purpose = j.purpose
      /\ x.left \cup IdsOf(x.all) \subseteq Present
      /\ x.purpose = "index" => Modest(x) /\ x.left = {} /\ x.all = Held(Present)
      /\ x.purpose # "index" => x.all = {}
      /\ \A y : MayPrecede(List(j.purpose), y) => MayPrecede(x, y)
  <2>1. CASE j.purpose = "index"
    BY <1>3, <1>4, <1>5, <2>1, LoadJobIs
  <2>2. CASE j.purpose # "index"
    <3> DEFINE none == {}
    <3>1. none \in SUBSET Listings /\ IdsOf(none) = {} /\ none = {}
      BY DEF IdsOf
    <3>2. x = Load(j.purpose, Present, none)
      BY <2>2
    <3> HIDE DEF none, x
    <3>3. /\ x \in Jobs /\ x.do = "load" /\ x.purpose = j.purpose /\ x.left = Present /\ x.all = none
          /\ \A y : MayPrecede(List(j.purpose), y) => MayPrecede(x, y)
      BY <1>3, <1>4, <3>1, <3>2, LoadJobIs
    <3> QED BY <2>2, <3>1, <3>3
  <2> QED BY <2>1, <2>2
<1> HIDE DEF x
<1>7. JobOk(x, issued)
  <2>1. \A id \in Ids : Mentions(x, id) => id <= issued
    BY <1>4, <1>6 DEF Mentions, Saves
  <2>2. \A d, e \in x.all : d.id = e.id => d = e
    <3>1. CASE x.purpose = "index"
      <4>1. x.all = Held(Present)
        BY <1>6, <3>1
      <4> QED BY <1>5, <4>1 DEF Listings
    <3>2. CASE x.purpose # "index"
      BY <1>6, <3>2
    <3> QED BY <3>1, <3>2
  <2>3. x.left \cap IdsOf(x.all) = {}
    BY <1>6 DEF IdsOf
  <2> QED BY <1>6, <2>1, <2>2, <2>3 DEF JobOk, LoadOk
<1>8. c # Dreamer => Modest(x)
  <2>1. c # Dreamer => j.purpose = "index"
    BY <1>1, <1>2 DEF Modest, Saves, Removes, Lists
  <2> QED BY <1>6, <2>1
<1>9. \A y \in Jobs : MayPrecede(Job(c), y) => MayPrecede(x, y)
  BY <1>3, <1>6
<1> QED BY <1>1, <1>6, <1>7, <1>8, <1>9, SingleTyped

LEMMA LoadTyped ==
  ASSUME Typed, NEW c \in Clients, LoadEntry(c)
  PROVE  Typed'
<1> DEFINE j == Job(c)
<1>1. PICK id \in j.left : Continue(c, <<Load(j.purpose, j.left \ {id}, j.all \cup Held({id}))>>)
  BY DEF LoadEntry
<1> DEFINE x == Load(j.purpose, j.left \ {id}, j.all \cup Held({id}))
<1>2. /\ Busy(c) /\ j.do = "load" /\ Continue(c, <<x>>) /\ j.left # {}
      /\ UNCHANGED <<file, index, issued, kept, alone>>
  BY <1>1 DEF LoadEntry, Doing, Job
<1>3. j \in LoadJobs /\ JobOk(j, issued) /\ (c # Dreamer => Modest(j))
  BY <1>2, HeadIs, JobKinds
<1>4. /\ j.purpose \in Purposes /\ j.left \in SUBSET Ids /\ j.all \in SUBSET Listings
  BY <1>3 DEF LoadJobs
<1>5. id \in Ids /\ {id} \in SUBSET Ids
  BY <1>4
<1>6. /\ Held({id}) \in SUBSET Listings
      /\ \A e \in Held({id}) : e.id = id /\ e.entry = file[id].entry
      /\ IdsOf(Held({id})) \subseteq {id}
  BY <1>5, HeldIs
<1>7. /\ x \in Jobs /\ x.do = "load" /\ x.purpose = j.purpose /\ x.left = j.left \ {id}
      /\ x.all = j.all \cup Held({id})
  <2> DEFINE left == j.left \ {id}
             all == j.all \cup Held({id})
  <2>1. left \in SUBSET Ids /\ all \in SUBSET Listings /\ x = Load(j.purpose, left, all)
    BY <1>4, <1>6
  <2> HIDE DEF left, all, x
  <2>2. /\ x \in Jobs /\ x.do = "load" /\ x.purpose = j.purpose /\ x.left = left /\ x.all = all
    BY <1>4, <2>1, LoadJobIs
  <2> QED BY <2>2 DEF left, all
<1>8. j.purpose # "index" /\ LoadOk(j)
  BY <1>2, <1>3 DEF JobOk, LoadOk
<1> HIDE DEF x
<1>9. IdsOf(x.all) \subseteq IdsOf(j.all) \cup {id}
  BY <1>6, <1>7 DEF IdsOf
<1>10. JobOk(x, issued)
  <2>1. \A i \in Ids : Mentions(x, i) => Mentions(j, i)
    BY <1>2, <1>7, <1>9 DEF Mentions, Saves
  <2>2. \A d, e \in x.all : d.id = e.id => d = e
    <3>1. id \notin IdsOf(j.all) /\ \A d, e \in j.all : d.id = e.id => d = e
      BY <1>8 DEF LoadOk
    <3>2. \A d, e \in Held({id}) : d = e
      BY <1>6 DEF Listings
    <3> QED BY <1>6, <1>7, <3>1, <3>2 DEF IdsOf
  <2>3. x.left \cap IdsOf(x.all) = {}
    BY <1>7, <1>8, <1>9 DEF LoadOk
  <2> QED BY <1>3, <1>7, <1>8, <2>1, <2>2, <2>3 DEF JobOk, LoadOk
<1>11. c # Dreamer => Modest(x)
  BY <1>2, <1>3, <1>8 DEF Modest, Saves, Removes, Lists
<1>12. \A y \in Jobs : MayPrecede(Job(c), y) => MayPrecede(x, y)
  BY <1>2, <1>7 DEF MayPrecede, Lists, Saves
<1>13. x.do # "write"
  BY <1>7
<1> QED BY <1>2, <1>7, <1>10, <1>11, <1>12, <1>13, SingleTyped

LEMMA RebuildTyped ==
  ASSUME Typed, NEW c \in Clients, RebuildIndex(c)
  PROVE  Typed'
<1>1. /\ Busy(c) /\ Job(c).do = "load" /\ Continue(c, <<>>) /\ index' = IdsOf(Job(c).all)
      /\ UNCHANGED <<file, issued, kept, alone>>
  BY DEF RebuildIndex, Listed, Doing, Job
<1>2. Job(c) \in LoadJobs
  BY <1>1, HeadIs, JobKinds
<1>3. index' \in SUBSET Ids
  BY <1>1, <1>2 DEF LoadJobs, Listings, IdsOf
<1>4. /\ file' \in [Ids -> Files] /\ \A id \in Ids : file'[id].there => id <= issued
      /\ kept' \in SUBSET Facts /\ alone' \in BOOLEAN
  BY <1>1 DEF Typed
<1> QED BY <1>1, <1>3, <1>4, NoneTyped

LEMMA DropTyped ==
  ASSUME Typed, Busy(Dreamer), Continue(Dreamer, <<>>),
         UNCHANGED <<file, index, issued, kept, alone>>
  PROVE  Typed'
<1>1. /\ file' \in [Ids -> Files] /\ \A id \in Ids : file'[id].there => id <= issued
      /\ kept' \in SUBSET Facts /\ alone' \in BOOLEAN /\ index' \in SUBSET Ids
  BY DEF Typed
<1> QED BY <1>1, ClientsAssumption, NoneTyped

LEMMA CountTyped ==
  ASSUME Typed, Count
  PROVE  Typed'
BY DropTyped DEF Count, Listed, Doing

LEMMA NoWrites ==
  ASSUME NEW jobs \in Seq(Jobs), \A x \in JobsOf(jobs) : x.do # "write"
  PROVE  HeadOk(jobs)
<1>1. jobs # <<>> => Head(jobs) \in JobsOf(jobs)
  BY TailIs
<1> QED BY <1>1 DEF HeadOk

\* Nothing follows a listing for the model or for clusters.
LEMMA NothingFollows ==
  ASSUME Typed, NEW c \in Clients, Busy(c), Lists(Job(c), {"model", "clusters"})
  PROVE  JobsOf(Tail(agenda[c])) = {}
<1>1. \A y \in JobsOf(Tail(agenda[c])) : MayPrecede(Job(c), y)
  BY HeadIs
<1> QED BY <1>1 DEF MayPrecede

LEMMA DreamerPlans ==
  ASSUME Typed, Busy(Dreamer), NEW jobs \in Seq(Jobs), Continue(Dreamer, jobs),
         Ordered(jobs), \A x \in JobsOf(jobs) : x.do # "write" /\ JobOk(x, issued'),
         \A x \in JobsOf(jobs), y \in JobsOf(Tail(agenda[Dreamer])) : MayPrecede(x, y),
         issued' \in issued .. MaxEntries, UNCHANGED <<file, index, alone>>, kept' \subseteq kept
  PROVE  Typed'
<1>1. HeadOk(jobs) /\ Dreamer \in Clients
  BY NoWrites, ClientsAssumption
<1>2. \A x \in JobsOf(jobs) :
        /\ JobOk(x, issued') /\ (Dreamer # Dreamer => Modest(x))
        /\ \A y \in JobsOf(Tail(agenda[Dreamer])) : MayPrecede(x, y)
  OBVIOUS
<1>3. issued \in Int /\ issued' \in Int /\ issued <= issued'
  BY BoundsAssumption DEF Typed
<1>4. /\ file' \in [Ids -> Files] /\ \A id \in Ids : file'[id].there => id <= issued'
      /\ index' \in SUBSET Ids /\ kept' \in SUBSET Facts /\ alone' \in BOOLEAN
  BY <1>3 DEF Typed, Ids
<1> QED BY <1>1, <1>2, <1>4, ContinueTyped

\* What a load has read, or will read, are known ids, and one entry for each.
LEMMA LoadedIs ==
  ASSUME Typed, NEW c \in Clients, Doing(c, "load")
  PROVE  /\ Busy(c) /\ Job(c) \in LoadJobs /\ LoadOk(Job(c))
         /\ Job(c).all \in SUBSET Listings /\ Job(c).left \in SUBSET Ids
         /\ IdsOf(Job(c).all) \in SUBSET Ids
         /\ \A id \in IdsOf(Job(c).all) \cup Job(c).left : id <= issued
<1>1. Busy(c) /\ Job(c).do = "load"
  BY DEF Doing, Job
<1>2. Job(c) \in LoadJobs /\ JobOk(Job(c), issued)
  BY <1>1, HeadIs, JobKinds
<1>3. Job(c).all \in SUBSET Listings /\ Job(c).left \in SUBSET Ids
  BY <1>2 DEF LoadJobs
<1>4. IdsOf(Job(c).all) \in SUBSET Ids
  BY <1>3 DEF IdsOf, Listings
<1>5. \A id \in IdsOf(Job(c).all) \cup Job(c).left : Mentions(Job(c), id)
  BY <1>1 DEF Mentions
<1> QED BY <1>1, <1>2, <1>3, <1>4, <1>5 DEF JobOk

\* What is planned after the model named entries to delete.
LEMMA ModelPlanned ==
  ASSUME Typed, ModelVerdicts
  PROVE  /\ Dreamer \in Clients /\ Doing(Dreamer, "load") /\ Job(Dreamer).do = "load"
         /\ Job(Dreamer).purpose = "model" /\ UNCHANGED <<file, index, issued, kept, alone>>
         /\ \/ Continue(Dreamer, <<>>)
            \/ \E ids \in SUBSET IdsOf(Job(Dreamer).all), jobs \in Seq(Jobs) :
                 /\ Continue(Dreamer, jobs) /\ Ordered(jobs)
                 /\ JobsOf(jobs) = {Unlink(id, TRUE) : id \in ids} \cup {List("index")}
<1> DEFINE j == Job(Dreamer)
           y == List("index")
<1>1. /\ Dreamer \in Clients /\ Doing(Dreamer, "load") /\ j.purpose = "model" /\ j.do = "load"
      /\ UNCHANGED <<file, index, issued, kept, alone>>
  BY ClientsAssumption DEF ModelVerdicts, Listed, Doing, Job
<1>2. /\ Busy(Dreamer) /\ IdsOf(j.all) \in SUBSET Ids /\ \A id \in IdsOf(j.all) : id <= issued
  BY <1>1, LoadedIs
<1>3. ASSUME NEW ids \in SUBSET IdsOf(j.all), NEW gone \in Orders(ids),
             Continue(Dreamer, DeleteAll(gone, TRUE) \o Rebuild)
      PROVE  \E jobs \in Seq(Jobs) :
               /\ Continue(Dreamer, jobs) /\ Ordered(jobs)
               /\ JobsOf(jobs) = {Unlink(id, TRUE) : id \in ids} \cup {y}
  <2> DEFINE d == DeleteAll(gone, TRUE)
             jobs == d \o Rebuild
  <2>1. gone \in Seq(Ids) /\ ToSet(gone) = ids
    <3>1. ids \in SUBSET Ids
      BY <1>2
    <3> QED BY <3>1, OrdersAre
  <2>2. d \in Seq(Jobs) /\ Ordered(d) /\ JobsOf(d) = {Unlink(id, TRUE) : id \in ids}
    BY <2>1, DeleteAllIs
  <2>3. y \in Jobs /\ y.do = "list" /\ JobOk(y, issued)
    BY ListJobIs DEF Purposes
  <2>4. \A x \in JobsOf(d) : MayPrecede(x, y) /\ x.do = "unlink" /\ JobOk(x, issued)
    <3>1. \A id \in ids : MayPrecede(Unlink(id, TRUE), y) /\ Unlink(id, TRUE).do = "unlink"
      BY DEF MayPrecede, Unlink, List, Lists, Saves, Removes
    <3>2. \A id \in ids : JobOk(Unlink(id, TRUE), issued)
      BY <1>2 DEF JobOk, Mentions, Unlink, Saves
    <3> QED BY <2>2, <3>1, <3>2
  <2> HIDE DEF d, y
  <2>5. Rebuild = <<y>> /\ <<y>> \in Seq(Jobs) /\ JobsOf(<<y>>) = {y} /\ Ordered(<<y>>)
    BY <2>3, SingleIs DEF Rebuild, y
  <2>6. \A x \in JobsOf(d), z \in JobsOf(<<y>>) : MayPrecede(x, z)
    BY <2>4, <2>5
  <2>7. jobs \in Seq(Jobs) /\ JobsOf(jobs) = JobsOf(d) \cup {y} /\ Ordered(jobs)
    <3> DEFINE r == <<y>>
    <3>1. r \in Seq(Jobs) /\ JobsOf(r) = {y} /\ Ordered(r) /\ jobs = d \o r
      BY <2>5
    <3>2. d \in Seq(Jobs) /\ Ordered(d) /\ \A x \in JobsOf(d), z \in JobsOf(r) : MayPrecede(x, z)
      BY <2>2, <2>6
    <3> HIDE DEF r, jobs
    <3>3. d \o r \in Seq(Jobs) /\ JobsOf(d \o r) = JobsOf(d) \cup JobsOf(r)
      BY <3>1, <3>2, ConcatIs
    <3>4. Ordered(d \o r)
      BY <3>1, <3>2, ConcatOrdered
    <3> QED BY <3>1, <3>3, <3>4
  <2> HIDE DEF jobs
  <2>8. Continue(Dreamer, jobs)
    BY <1>3 DEF jobs, d
  <2> QED BY <2>2, <2>7, <2>8
<1> QED BY <1>1, <1>3 DEF ModelVerdicts

LEMMA ModelTyped ==
  ASSUME Typed, ModelVerdicts
  PROVE  Typed'
<1> DEFINE j == Job(Dreamer)
           y == List("index")
<1>1. /\ Dreamer \in Clients /\ Doing(Dreamer, "load") /\ j.purpose = "model" /\ j.do = "load"
      /\ UNCHANGED <<file, index, issued, kept, alone>>
  BY ModelPlanned
<1>2. /\ Busy(Dreamer) /\ IdsOf(j.all) \in SUBSET Ids /\ \A id \in IdsOf(j.all) : id <= issued
  BY <1>1, LoadedIs
<1>3. CASE Continue(Dreamer, <<>>)
  BY <1>1, <1>2, <1>3, DropTyped
<1>4. ASSUME NEW ids \in SUBSET IdsOf(j.all), NEW jobs \in Seq(Jobs),
             Continue(Dreamer, jobs), Ordered(jobs),
             JobsOf(jobs) = {Unlink(id, TRUE) : id \in ids} \cup {y}
      PROVE  Typed'
  <2>1. y.do = "list" /\ JobOk(y, issued)
    BY ListJobIs DEF Purposes
  <2>2. \A id \in ids : Unlink(id, TRUE).do = "unlink" /\ JobOk(Unlink(id, TRUE), issued)
    BY <1>2 DEF JobOk, Mentions, Unlink, Saves
  <2> HIDE DEF y
  <2>3. \A x \in JobsOf(jobs) : x.do # "write" /\ JobOk(x, issued)
    BY <1>4, <2>1, <2>2
  <2>4. JobsOf(Tail(agenda[Dreamer])) = {}
    BY <1>1, <1>2, NothingFollows DEF Lists
  <2>5. issued' = issued /\ issued' \in issued .. MaxEntries
    BY <1>1, BoundsAssumption DEF Typed
  <2> QED BY <1>1, <1>2, <1>4, <2>3, <2>4, <2>5, DreamerPlans
<1> QED BY <1>3, <1>4, ModelPlanned

LEMMA StampAllIs ==
  ASSUME NEW won \in SUBSET Listings, \A d, e \in won : d.id = e.id => d = e,
         NEW dated \in Seq(Ids), ToSet(dated) = IdsOf(Relative(won))
  PROVE  /\ StampAll(dated, won) \in Seq(Jobs) /\ Ordered(StampAll(dated, won))
         /\ JobsOf(StampAll(dated, won)) = {Open(w.id, Stamped(w.entry)) : w \in Relative(won)}
<1> DEFINE s == StampAll(dated, won)
           Read(id) == (CHOOSE w \in won : w.id = id).entry
<1>1. /\ DOMAIN dated = 1 .. Len(dated) /\ Len(dated) \in Nat
      /\ \A i \in DOMAIN dated : dated[i] \in Ids /\ dated[i] \in ToSet(dated)
  BY DEF ToSet
<1>2. s = [i \in DOMAIN dated |-> Open(dated[i], Stamped(Read(dated[i])))]
  BY DEF StampAll
<1>3. \A w \in won : Read(w.id) = w.entry
  BY DEF Listings
<1>4. \A w \in Listings : Stamped(w.entry) \in Entries
  BY DEF Stamped, Listings, Entries, Texts
<1> HIDE DEF Read, s
<1>5. ASSUME NEW i \in DOMAIN dated
      PROVE  \E w \in Relative(won) : dated[i] = w.id /\ s[i] = Open(w.id, Stamped(w.entry)) /\ s[i] \in Jobs
  <2>1. PICK w \in Relative(won) : w.id = dated[i]
    BY <1>1 DEF IdsOf
  <2>2. w \in won /\ w \in Listings
    BY DEF Relative
  <2>3. s[i] = Open(w.id, Stamped(w.entry))
    BY <1>2, <1>3, <2>1, <2>2
  <2>4. Open(w.id, Stamped(w.entry)) \in Jobs
    BY <1>4, <2>2 DEF Open, Jobs, OpenJobs, Listings
  <2> QED BY <2>1, <2>3, <2>4
<1>6. DOMAIN s = DOMAIN dated
  BY <1>2
<1>7. s \in Seq(Jobs)
  <2>1. s \in [1 .. Len(dated) -> Jobs]
    BY <1>1, <1>2, <1>5, <1>6
  <2> QED BY <1>1, <2>1
<1>8. ASSUME NEW w \in Relative(won) PROVE Open(w.id, Stamped(w.entry)) \in JobsOf(s)
  <2>1. w.id \in ToSet(dated)
    BY DEF IdsOf
  <2>2. PICK i \in DOMAIN dated : dated[i] = w.id
    BY <2>1 DEF ToSet
  <2>3. w \in won
    BY DEF Relative
  <2>4. s[i] = Open(w.id, Stamped(w.entry))
    BY <1>2, <1>3, <2>2, <2>3
  <2> QED BY <1>6, <2>4 DEF JobsOf
<1>9. JobsOf(s) = {Open(w.id, Stamped(w.entry)) : w \in Relative(won)}
  <2>1. ASSUME NEW x \in JobsOf(s) PROVE \E w \in Relative(won) : x = Open(w.id, Stamped(w.entry))
    BY <1>5, <1>6 DEF JobsOf
  <2> QED BY <1>8, <2>1
<1>10. ASSUME NEW v \in Relative(won), NEW w \in Relative(won)
       PROVE  MayPrecede(Open(v.id, Stamped(v.entry)), Open(w.id, Stamped(w.entry)))
  <2>1. v.id = w.id => v = w
    BY DEF Relative
  <2> QED BY <2>1 DEF MayPrecede, Open, Lists, Saves, Removes
<1>11. Ordered(s)
  BY <1>5, <1>6, <1>10 DEF Ordered
<1> QED BY <1>7, <1>9, <1>11 DEF s

\* What a mechanical consolidation plans.
DreamPlan(all, won) ==
  {Unlink(id, FALSE) : id \in IdsOf(all \ won)}
    \cup {Open(w.id, Stamped(w.entry)) : w \in Relative(won)}
    \cup {Unlink(id, TRUE) : id \in IdsOf(Stale(won))}
    \cup {List("index"), List("count")}

LEMMA DreamJobsAre ==
  ASSUME NEW all, all \subseteq Listings, \A d, e \in all : d.id = e.id => d = e,
         NEW won, won \subseteq all, NEW order,
         NEW losers \in InOrder(order, IdsOf(all \ won)),
         NEW dated \in InOrder(order, IdsOf(Relative(won))),
         NEW stale \in InOrder(order, IdsOf(Stale(won)))
  PROVE  /\ DreamJobs(losers, dated, stale, won) \in Seq(Jobs)
         /\ Ordered(DreamJobs(losers, dated, stale, won))
         /\ JobsOf(DreamJobs(losers, dated, stale, won)) = DreamPlan(all, won)
<1> DEFINE a == DeleteAll(losers, FALSE)
           b == StampAll(dated, won)
           c == DeleteAll(stale, TRUE)
           d == <<List("index")>>
           e == <<List("count")>>
<1>1. \A s \in SUBSET all : IdsOf(s) \in SUBSET Ids
  BY DEF IdsOf, Listings
<1>2. /\ losers \in Seq(Ids) /\ ToSet(losers) = IdsOf(all \ won)
      /\ dated \in Seq(Ids) /\ ToSet(dated) = IdsOf(Relative(won))
      /\ stale \in Seq(Ids) /\ ToSet(stale) = IdsOf(Stale(won))
  <2>1. /\ IdsOf(all \ won) \in SUBSET Ids /\ IdsOf(Relative(won)) \in SUBSET Ids
        /\ IdsOf(Stale(won)) \in SUBSET Ids
    BY <1>1 DEF Relative, Stale
  <2> QED BY <2>1, InOrderIs
<1>3. /\ a \in Seq(Jobs) /\ Ordered(a) /\ JobsOf(a) = {Unlink(id, FALSE) : id \in IdsOf(all \ won)}
      /\ c \in Seq(Jobs) /\ Ordered(c) /\ JobsOf(c) = {Unlink(id, TRUE) : id \in IdsOf(Stale(won))}
  BY <1>2, DeleteAllIs
<1>4. /\ b \in Seq(Jobs) /\ Ordered(b)
      /\ JobsOf(b) = {Open(w.id, Stamped(w.entry)) : w \in Relative(won)}
  <2>1. won \in SUBSET Listings /\ \A v, w \in won : v.id = w.id => v = w
    OBVIOUS
  <2> QED BY <1>2, <2>1, StampAllIs
<1>5. /\ d \in Seq(Jobs) /\ JobsOf(d) = {List("index")} /\ Ordered(d)
      /\ e \in Seq(Jobs) /\ JobsOf(e) = {List("count")} /\ Ordered(e)
  <2>1. List("index") \in Jobs /\ List("count") \in Jobs
    BY ListJobIs DEF Purposes
  <2> QED BY <2>1, SingleIs
<1>6. DreamJobs(losers, dated, stale, won) = (((a \o b) \o c) \o d) \o e
  BY DEF DreamJobs, Rebuild
<1> HIDE DEF a, b, c, d, e
<1>7. /\ \A x \in JobsOf(a) : x.do = "unlink" /\ ~x.asked /\ x.id \in IdsOf(all \ won)
      /\ \A x \in JobsOf(b) : x.do = "open" /\ x.id \in IdsOf(won)
      /\ \A x \in JobsOf(c) : x.do = "unlink" /\ x.asked
  <2>1. ASSUME NEW x \in JobsOf(a) PROVE x.do = "unlink" /\ ~x.asked /\ x.id \in IdsOf(all \ won)
    <3>1. PICK id \in IdsOf(all \ won) : x = Unlink(id, FALSE)
      BY <1>3
    <3> QED BY <3>1 DEF Unlink
  <2>2. ASSUME NEW x \in JobsOf(b) PROVE x.do = "open" /\ x.id \in IdsOf(won)
    <3>1. PICK w \in Relative(won) : x = Open(w.id, Stamped(w.entry))
      BY <1>4
    <3> QED BY <3>1 DEF Open, Relative, IdsOf
  <2>3. ASSUME NEW x \in JobsOf(c) PROVE x.do = "unlink" /\ x.asked
    <3>1. PICK id \in IdsOf(Stale(won)) : x = Unlink(id, TRUE)
      BY <1>3
    <3> QED BY <3>1 DEF Unlink
  <2> QED BY <2>1, <2>2, <2>3
<1>8. \A x \in IdsOf(all \ won), y \in IdsOf(won) : x # y
  BY DEF IdsOf
<1>9. \A x \in JobsOf(a), y \in JobsOf(b) : MayPrecede(x, y)
  BY <1>7, <1>8 DEF MayPrecede, Lists, Saves, Removes
<1>10. \A x \in JobsOf(a) \cup JobsOf(b), y \in JobsOf(c) : MayPrecede(x, y)
  BY <1>7 DEF MayPrecede, Lists, Saves, Removes
<1>11. \A x \in JobsOf(a) \cup JobsOf(b) \cup JobsOf(c), y \in {List("index"), List("count")} :
         MayPrecede(x, y)
  BY <1>7 DEF MayPrecede, List, Lists, Saves, Removes
<1>12. MayPrecede(List("index"), List("count"))
  BY DEF MayPrecede, List, Lists, Saves, Removes
<1>13. a \in Seq(Jobs) /\ Ordered(a) /\ b \in Seq(Jobs) /\ Ordered(b)
  BY <1>3, <1>4
<1>14. c \in Seq(Jobs) /\ Ordered(c) /\ d \in Seq(Jobs) /\ Ordered(d) /\ e \in Seq(Jobs) /\ Ordered(e)
  BY <1>3, <1>5
<1> DEFINE ab == a \o b
           abc == ab \o c
           abcd == abc \o d
<1>15. ab \in Seq(Jobs) /\ JobsOf(ab) = JobsOf(a) \cup JobsOf(b) /\ Ordered(ab)
  BY <1>9, <1>13, Joined
<1> HIDE DEF ab
<1>16. abc \in Seq(Jobs) /\ JobsOf(abc) = JobsOf(ab) \cup JobsOf(c) /\ Ordered(abc)
  <2>1. \A x \in JobsOf(ab), y \in JobsOf(c) : MayPrecede(x, y)
    BY <1>10, <1>15
  <2> QED BY <1>14, <1>15, <2>1, Joined
<1> HIDE DEF abc
<1>17. abcd \in Seq(Jobs) /\ JobsOf(abcd) = JobsOf(abc) \cup JobsOf(d) /\ Ordered(abcd)
  <2>1. \A x \in JobsOf(abc), y \in JobsOf(d) : MayPrecede(x, y)
    BY <1>5, <1>11, <1>15, <1>16
  <2> QED BY <1>14, <1>16, <2>1, Joined
<1> HIDE DEF abcd
<1>18. /\ abcd \o e \in Seq(Jobs) /\ JobsOf(abcd \o e) = JobsOf(abcd) \cup JobsOf(e)
       /\ Ordered(abcd \o e)
  <2>1. \A x \in JobsOf(abcd), y \in JobsOf(e) : MayPrecede(x, y)
    BY <1>5, <1>11, <1>12, <1>15, <1>16, <1>17
  <2> QED BY <1>14, <1>17, <2>1, Joined
<1>19. DreamJobs(losers, dated, stale, won) = abcd \o e
  BY <1>6 DEF ab, abc, abcd
<1>20. JobsOf(abcd \o e) =
         JobsOf(a) \cup JobsOf(b) \cup JobsOf(c) \cup {List("index"), List("count")}
  BY <1>5, <1>15, <1>16, <1>17, <1>18
<1>21. JobsOf(DreamJobs(losers, dated, stale, won)) = DreamPlan(all, won)
  BY <1>3, <1>4, <1>19, <1>20 DEF DreamPlan
<1> QED BY <1>18, <1>19, <1>21

\* What a consolidation plans.
LEMMA DreamPlanned ==
  ASSUME Typed, DecideDream
  PROVE  /\ Dreamer \in Clients /\ Doing(Dreamer, "load") /\ Busy(Dreamer)
         /\ Job(Dreamer).purpose = "dream" /\ Job(Dreamer).do = "load" /\ Job(Dreamer).left = {}
         /\ UNCHANGED <<file, index, issued, alone>> /\ kept' \subseteq kept
         /\ \A id \in IdsOf(Job(Dreamer).all) : id \in Ids /\ id <= issued
         /\ \A y \in JobsOf(Tail(agenda[Dreamer])) : y = List("model")
         /\ \E won \in SUBSET Job(Dreamer).all, jobs \in Seq(Jobs) :
              /\ Winners(Job(Dreamer).all, won)
              /\ kept' = kept \ Overlooked(Job(Dreamer).all \ won, won)
              /\ Continue(Dreamer, jobs) /\ Ordered(jobs)
              /\ JobsOf(jobs) = DreamPlan(Job(Dreamer).all, won)
<1> DEFINE all == Job(Dreamer).all
<1>1. /\ Dreamer \in Clients /\ Doing(Dreamer, "load") /\ Job(Dreamer).purpose = "dream"
      /\ Job(Dreamer).do = "load" /\ Job(Dreamer).left = {}
      /\ UNCHANGED <<file, index, issued, alone>>
  BY ClientsAssumption DEF DecideDream, Listed, Doing, Job
<1>2. PICK won \in SUBSET all, order \in Orders(IdsOf(all)) :
        /\ Winners(all, won)
        /\ kept' = kept \ Overlooked(all \ won, won)
        /\ \E losers \in InOrder(order, IdsOf(all \ won)),
              dated \in InOrder(order, IdsOf(Relative(won))),
              stale \in InOrder(order, IdsOf(Stale(won))) :
             Continue(Dreamer, DreamJobs(losers, dated, stale, won))
  BY DEF DecideDream
<1>3. PICK losers \in InOrder(order, IdsOf(all \ won)),
           dated \in InOrder(order, IdsOf(Relative(won))),
           stale \in InOrder(order, IdsOf(Stale(won))) :
        Continue(Dreamer, DreamJobs(losers, dated, stale, won))
  BY <1>2
<1>4. /\ Busy(Dreamer) /\ all \subseteq Listings /\ \A d, e \in all : d.id = e.id => d = e
      /\ won \subseteq all
      /\ \A id \in IdsOf(all) : id \in Ids /\ id <= issued
  BY <1>1, LoadedIs DEF LoadOk
<1> DEFINE jobs == DreamJobs(losers, dated, stale, won)
<1> HIDE DEF all
<1>5. jobs \in Seq(Jobs) /\ Ordered(jobs) /\ JobsOf(jobs) = DreamPlan(all, won)
  <2>1. all \subseteq Listings /\ (\A d, e \in all : d.id = e.id => d = e) /\ won \subseteq all
    BY <1>4
  <2> QED BY <2>1, DreamJobsAre
<1>6. Continue(Dreamer, jobs)
  BY <1>3
<1> HIDE DEF jobs
<1>7. \A y \in JobsOf(Tail(agenda[Dreamer])) : y = List("model")
  <2>1. \A y \in JobsOf(Tail(agenda[Dreamer])) : MayPrecede(Job(Dreamer), y)
    BY <1>1, <1>4, HeadIs
  <2> QED BY <1>1, <2>1 DEF MayPrecede, Lists
<1> QED BY <1>1, <1>2, <1>4, <1>5, <1>6, <1>7 DEF all

LEMMA DecideDreamTyped ==
  ASSUME Typed, DecideDream
  PROVE  Typed'
<1> DEFINE all == Job(Dreamer).all
<1>1. PICK won \in SUBSET all, jobs \in Seq(Jobs) :
        Continue(Dreamer, jobs) /\ Ordered(jobs) /\ JobsOf(jobs) = DreamPlan(all, won)
  BY DreamPlanned
<1>2. /\ Dreamer \in Clients /\ Busy(Dreamer) /\ UNCHANGED <<file, index, issued, alone>>
      /\ kept' \subseteq kept
      /\ \A id \in IdsOf(all) : id \in Ids /\ id <= issued
      /\ \A y \in JobsOf(Tail(agenda[Dreamer])) : y = List("model")
  BY DreamPlanned
<1> HIDE DEF all
<1>3. \A x \in JobsOf(jobs) : x.do # "write" /\ JobOk(x, issued) /\ MayPrecede(x, List("model"))
  <2>1. ASSUME NEW id \in IdsOf(all), NEW asked \in BOOLEAN
        PROVE  /\ Unlink(id, asked).do # "write" /\ JobOk(Unlink(id, asked), issued)
               /\ MayPrecede(Unlink(id, asked), List("model"))
    BY <1>2 DEF Unlink, JobOk, Mentions, Saves, MayPrecede, List, Lists, Removes
  <2>2. ASSUME NEW w \in all
        PROVE  /\ Open(w.id, Stamped(w.entry)).do # "write" /\ JobOk(Open(w.id, Stamped(w.entry)), issued)
               /\ MayPrecede(Open(w.id, Stamped(w.entry)), List("model"))
    <3>1. w.id <= issued
      BY <1>2 DEF IdsOf
    <3> QED BY <3>1 DEF Open, JobOk, Mentions, Saves, MayPrecede, List, Lists, Removes
  <2>3. ASSUME NEW p \in {"index", "count"}
        PROVE  List(p).do # "write" /\ JobOk(List(p), issued) /\ MayPrecede(List(p), List("model"))
    BY DEF List, JobOk, Mentions, Saves, MayPrecede, Lists, Removes
  <2>4. \A id \in IdsOf(all \ won) \cup IdsOf(Stale(won)) : id \in IdsOf(all)
    BY DEF IdsOf, Stale
  <2>5. \A w \in Relative(won) : w \in all
    BY DEF Relative
  <2> QED BY <1>1, <2>1, <2>2, <2>3, <2>4, <2>5 DEF DreamPlan
<1>4. issued' = issued /\ issued' \in issued .. MaxEntries
  BY <1>2, BoundsAssumption DEF Typed
<1>5. \A x \in JobsOf(jobs), y \in JobsOf(Tail(agenda[Dreamer])) : MayPrecede(x, y)
  BY <1>2, <1>3
<1>6. \A x \in JobsOf(jobs) : x.do # "write" /\ JobOk(x, issued')
  BY <1>3, <1>4
<1> QED BY <1>1, <1>2, <1>4, <1>5, <1>6, DreamerPlans

Summaries(order, seeds, active, linked) ==
  [i \in DOMAIN seeds |-> Summarize(order, ClusterAt(seeds[i], active, linked))]

LEMMA SummariesAre ==
  ASSUME NEW order \in Seq(Ids), NEW seeds \in Seq(Ids), NEW active, NEW linked,
         \A e \in active : e \in Listings
  PROVE  /\ Summaries(order, seeds, active, linked) \in Seq(Jobs)
         /\ Ordered(Summaries(order, seeds, active, linked))
         /\ \A x \in JobsOf(Summaries(order, seeds, active, linked)) :
              \E id \in ToSet(seeds) : x = Summarize(order, ClusterAt(id, active, linked))
<1> DEFINE s == Summaries(order, seeds, active, linked)
<1>1. DOMAIN seeds = 1 .. Len(seeds) /\ Len(seeds) \in Nat
  OBVIOUS
<1>2. \A id : Summarize(order, ClusterAt(id, active, linked)) \in Jobs
  BY DEF Summarize, ClusterAt, Jobs, SummarizeJobs
<1>3. s \in [1 .. Len(seeds) -> Jobs]
  BY <1>1, <1>2 DEF Summaries
<1>4. s \in Seq(Jobs)
  BY <1>1, <1>3
<1>5. \A i \in DOMAIN s : i \in DOMAIN seeds /\ s[i] = Summarize(order, ClusterAt(seeds[i], active, linked))
  BY DEF Summaries
<1>6. \A c, d : MayPrecede(Summarize(order, c), Summarize(order, d))
  BY DEF MayPrecede, Summarize, Lists, Saves, Removes
<1>7. Ordered(s)
  BY <1>5, <1>6 DEF Ordered
<1>8. ASSUME NEW x \in JobsOf(s)
      PROVE  \E id \in ToSet(seeds) : x = Summarize(order, ClusterAt(id, active, linked))
  <2>1. PICK i \in DOMAIN s : x = s[i]
    BY DEF JobsOf
  <2>2. seeds[i] \in ToSet(seeds)
    BY <1>5, <2>1 DEF ToSet
  <2> QED BY <1>5, <2>1, <2>2
<1> QED BY <1>4, <1>7, <1>8

\* A cluster of two or more holds no empty entry: those have no neighbours.
\* What ConsolidationV2 plans.
LEMMA ClustersPlanned ==
  ASSUME Typed, DecideClusters
  PROVE  /\ Doing(Dreamer, "load") /\ Job(Dreamer).purpose = "clusters" /\ Job(Dreamer).do = "load"
         /\ UNCHANGED <<file, index, issued, kept, alone>>
         /\ \E jobs \in Seq(Jobs) :
              /\ Continue(Dreamer, jobs) /\ Ordered(jobs)
              /\ \A x \in JobsOf(jobs) :
                   \/ \E id \in IdsOf(Job(Dreamer).all) : x = Unlink(id, TRUE)
                   \/ x.do = "summarize" /\ x.cluster \subseteq Job(Dreamer).all
<1> DEFINE all == Job(Dreamer).all
           weak == {e \in all : e.entry.sure < 2}
           Active(zero) == (all \ weak) \cup zero
<1>1. /\ Dreamer \in Clients /\ Doing(Dreamer, "load") /\ Job(Dreamer).purpose = "clusters"
      /\ Job(Dreamer).do = "load" /\ UNCHANGED <<file, index, issued, kept, alone>>
  BY ClientsAssumption DEF DecideClusters, Listed, Doing, Job
<1>2. /\ all \subseteq Listings /\ \A d, e \in all : d.id = e.id => d = e
      /\ \A id \in IdsOf(all) : id \in Ids
  BY <1>1, LoadedIs DEF LoadOk
<1>3. PICK zero \in SUBSET Stale(all), order \in Orders(IdsOf(all)) :
        \E gone \in InOrder(order, IdsOf(weak)), linked \in TagLinks(Active(zero)) :
          \E ids \in Seeds(order, Active(zero), linked) :
            \E seeds \in InOrder(order, ids) :
              Continue(Dreamer,
                DeleteAll(gone, TRUE)
                  \o [i \in DOMAIN seeds |->
                        Summarize(order, ClusterAt(seeds[i], Active(zero), linked))])
  BY DEF DecideClusters
<1> DEFINE active == Active(zero)
<1>4. PICK gone \in InOrder(order, IdsOf(weak)), linked \in TagLinks(active) :
        \E ids \in Seeds(order, active, linked) :
          \E seeds \in InOrder(order, ids) :
            Continue(Dreamer,
              DeleteAll(gone, TRUE)
                \o [i \in DOMAIN seeds |-> Summarize(order, ClusterAt(seeds[i], active, linked))])
  BY <1>3
<1>5. PICK ids \in Seeds(order, active, linked) :
        \E seeds \in InOrder(order, ids) :
          Continue(Dreamer,
            DeleteAll(gone, TRUE)
              \o [i \in DOMAIN seeds |-> Summarize(order, ClusterAt(seeds[i], active, linked))])
  BY <1>4
<1>6. PICK seeds \in InOrder(order, ids) :
        Continue(Dreamer,
          DeleteAll(gone, TRUE)
            \o [i \in DOMAIN seeds |-> Summarize(order, ClusterAt(seeds[i], active, linked))])
  BY <1>5
<1>7. active \subseteq all /\ weak \subseteq all
  BY DEF Stale
<1>8. IdsOf(active) \subseteq IdsOf(all) /\ IdsOf(weak) \subseteq IdsOf(all)
  BY <1>7 DEF IdsOf
<1> DEFINE a == DeleteAll(gone, TRUE)
           b == Summaries(order, seeds, active, linked)
<1> HIDE DEF all, weak, Active
<1>9. gone \in Seq(Ids) /\ ToSet(gone) = IdsOf(weak)
  <2>1. IdsOf(weak) \in SUBSET Ids
    BY <1>2, <1>8
  <2> QED BY <2>1, InOrderIs
<1>10. order \in Seq(Ids) /\ ToSet(order) = IdsOf(all)
  <2>1. IdsOf(all) \in SUBSET Ids
    BY <1>2
  <2> QED BY <2>1, OrdersAre
<1>11. ids \in SUBSET IdsOf(active)
  BY DEF Seeds
<1>12. seeds \in Seq(Ids) /\ ToSet(seeds) = ids
  <2>1. ids \in SUBSET Ids
    BY <1>2, <1>8, <1>11
  <2> QED BY <2>1, InOrderIs
<1>13. a \in Seq(Jobs) /\ Ordered(a) /\ JobsOf(a) = {Unlink(id, TRUE) : id \in IdsOf(weak)}
  BY <1>9, DeleteAllIs
<1>14. /\ b \in Seq(Jobs) /\ Ordered(b)
       /\ \A x \in JobsOf(b) :
            \E id \in ToSet(seeds) : x = Summarize(order, ClusterAt(id, active, linked))
  <2>1. \A e \in active : e \in Listings
    BY <1>2, <1>7
  <2>2. order \in Seq(Ids) /\ seeds \in Seq(Ids)
    BY <1>10, <1>12
  <2> HIDE DEF active
  <2> QED BY <2>1, <2>2, SummariesAre
<1>15. ASSUME NEW x \in JobsOf(a) PROVE \E id \in IdsOf(all) : x = Unlink(id, TRUE)
  BY <1>8, <1>13
<1>16. ASSUME NEW x \in JobsOf(b)
       PROVE  x.do = "summarize" /\ x.cluster \subseteq all
  <2>1. PICK id \in ids : x = Summarize(order, ClusterAt(id, active, linked))
    BY <1>12, <1>14
  <2>2. x.do = "summarize" /\ x.cluster = ClusterAt(id, active, linked)
    BY <2>1 DEF Summarize
  <2>3. x.cluster \subseteq all
    BY <1>7, <2>2 DEF ClusterAt
  <2> QED BY <2>2, <2>3
<1> DEFINE jobs == a \o b
<1>17. jobs \in Seq(Jobs) /\ JobsOf(jobs) = JobsOf(a) \cup JobsOf(b) /\ Ordered(jobs)
  <2>1. \A x \in JobsOf(a), y \in JobsOf(b) : MayPrecede(x, y)
    <3>1. \A x \in JobsOf(a) : x.do = "unlink"
      <4>1. \A id : Unlink(id, TRUE).do = "unlink"
        BY DEF Unlink
      <4> HIDE DEF a
      <4> QED BY <1>15, <4>1
    <3> QED BY <1>16, <3>1 DEF MayPrecede, Lists, Saves, Removes
  <2>2. a \in Seq(Jobs) /\ Ordered(a) /\ b \in Seq(Jobs) /\ Ordered(b)
    BY <1>13, <1>14
  <2> HIDE DEF a, b
  <2> QED BY <2>1, <2>2, Joined
<1>18. Continue(Dreamer, jobs)
  BY <1>6 DEF Summaries
<1> HIDE DEF jobs, a, b
<1>19. \A x \in JobsOf(jobs) :
         \/ \E id \in IdsOf(all) : x = Unlink(id, TRUE)
         \/ x.do = "summarize" /\ x.cluster \subseteq all
  BY <1>15, <1>16, <1>17
<1> QED BY <1>1, <1>17, <1>18, <1>19 DEF all

LEMMA DecideClustersTyped ==
  ASSUME Typed, DecideClusters
  PROVE  Typed'
<1>1. /\ Doing(Dreamer, "load") /\ Job(Dreamer).purpose = "clusters" /\ Job(Dreamer).do = "load"
      /\ UNCHANGED <<file, index, issued, kept, alone>>
  BY ClustersPlanned
<1>2. PICK jobs \in Seq(Jobs) :
        /\ Continue(Dreamer, jobs) /\ Ordered(jobs)
        /\ \A x \in JobsOf(jobs) :
             \/ \E id \in IdsOf(Job(Dreamer).all) : x = Unlink(id, TRUE)
             \/ x.do = "summarize" /\ x.cluster \subseteq Job(Dreamer).all
  BY ClustersPlanned
<1>3. /\ Busy(Dreamer) /\ \A id \in IdsOf(Job(Dreamer).all) : id <= issued
      /\ Dreamer \in Clients
  BY <1>1, LoadedIs, ClientsAssumption
<1>4. JobsOf(Tail(agenda[Dreamer])) = {}
  BY <1>1, <1>3, NothingFollows DEF Lists
<1>5. ASSUME NEW x \in JobsOf(jobs) PROVE x.do # "write" /\ JobOk(x, issued)
  <2>1. CASE \E id \in IdsOf(Job(Dreamer).all) : x = Unlink(id, TRUE)
    BY <1>3, <2>1 DEF Unlink, JobOk, Mentions, Saves
  <2>2. CASE x.do = "summarize" /\ x.cluster \subseteq Job(Dreamer).all
    <3>1. IdsOf(x.cluster) \subseteq IdsOf(Job(Dreamer).all)
      BY <2>2 DEF IdsOf
    <3> QED BY <1>3, <2>2, <3>1 DEF JobOk, Mentions, Saves
  <2> QED BY <1>2, <2>1, <2>2
<1>6. issued' = issued /\ issued' \in issued .. MaxEntries
  BY <1>1, BoundsAssumption DEF Typed
<1>7. \A x \in JobsOf(jobs) : x.do # "write" /\ JobOk(x, issued')
  BY <1>5, <1>6
<1>8. Continue(Dreamer, jobs) /\ Ordered(jobs)
  BY <1>2
<1>9. \A x \in JobsOf(jobs), y \in JobsOf(Tail(agenda[Dreamer])) : MayPrecede(x, y)
  BY <1>4
<1> QED BY <1>1, <1>3, <1>6, <1>7, <1>8, <1>9, DreamerPlans

Summary(told) == Entry([tells |-> told, relative |-> FALSE, stamps |-> 0], 2)

MergePlan(n, told, cluster) ==
  {Open(n, Summary(told))} \cup {Unlink(id, FALSE) : id \in IdsOf(cluster)}

\* What the merge of a cluster plans.
LEMMA MergedIs ==
  ASSUME NEW n \in Ids, NEW cluster, \A e \in cluster : e \in Listings,
         \A id \in IdsOf(cluster) : id < n,
         NEW order, NEW gone \in InOrder(order, IdsOf(cluster)),
         NEW told \in SUBSET Facts
  PROVE  /\ Summary(told) \in Entries
         /\ Merged(n, told, gone) \in Seq(Jobs) /\ Ordered(Merged(n, told, gone))
         /\ JobsOf(Merged(n, told, gone)) = MergePlan(n, told, cluster)
<1> DEFINE entry == Summary(told)
<1>1. entry \in Entries
  BY DEF Summary, Entry, Entries, Texts
<1> DEFINE x == Open(n, entry)
           a == <<x>>
           b == DeleteAll(gone, FALSE)
<1>2. x \in Jobs /\ x.do = "open" /\ x.id = n
  BY <1>1 DEF Open, Jobs, OpenJobs
<1>3. Merged(n, told, gone) = a \o b
  BY DEF Merged, Summary
<1>4. gone \in Seq(Ids) /\ ToSet(gone) = IdsOf(cluster)
  <2>1. IdsOf(cluster) \in SUBSET Ids
    BY DEF IdsOf, Listings
  <2> QED BY <2>1, InOrderIs
<1>5. b \in Seq(Jobs) /\ Ordered(b) /\ JobsOf(b) = {Unlink(id, FALSE) : id \in IdsOf(cluster)}
  BY <1>4, DeleteAllIs
<1> HIDE DEF x
<1>6. a \in Seq(Jobs) /\ Ordered(a) /\ JobsOf(a) = {x} /\ a # <<>> /\ Head(a) = x
  BY <1>2, SingleIs
<1>7. \A y \in JobsOf(b) : y.do = "unlink" /\ y.id < n
  <2>1. \A id \in IdsOf(cluster) : Unlink(id, FALSE).do = "unlink" /\ Unlink(id, FALSE).id < n
    BY DEF Unlink
  <2> HIDE DEF b
  <2> QED BY <1>5, <2>1
<1>8. \A y \in JobsOf(b) : MayPrecede(x, y)
  <2>1. \A y \in JobsOf(b) : y.id # n
    <3>1. ASSUME NEW y \in JobsOf(b), y.id = n PROVE FALSE
      <4>1. n < n
        BY <1>7, <3>1
      <4> QED BY <4>1, BoundsAssumption DEF Ids
    <3> QED BY <3>1
  <2> HIDE DEF b
  <2> QED BY <1>2, <1>7, <2>1 DEF MayPrecede, Lists, Saves, Removes
<1> HIDE DEF a, b
<1>9. a \o b \in Seq(Jobs) /\ JobsOf(a \o b) = JobsOf(a) \cup JobsOf(b) /\ Ordered(a \o b)
  <2>1. \A v \in JobsOf(a), y \in JobsOf(b) : MayPrecede(v, y)
    BY <1>6, <1>8
  <2>2. a \in Seq(Jobs) /\ Ordered(a) /\ b \in Seq(Jobs) /\ Ordered(b)
    BY <1>5, <1>6
  <2> QED BY <2>1, <2>2, Joined
<1>10. JobsOf(a \o b) = {x} \cup {Unlink(id, FALSE) : id \in IdsOf(cluster)}
  BY <1>5, <1>6, <1>9
<1> QED BY <1>1, <1>3, <1>9, <1>10 DEF x, MergePlan

LEMMA MergedStarts ==
  ASSUME NEW x \in Jobs, NEW gone \in Seq(Ids)
  PROVE  /\ <<x>> \o DeleteAll(gone, FALSE) # <<>>
         /\ Head(<<x>> \o DeleteAll(gone, FALSE)) = x
<1> DEFINE a == <<x>>
           b == DeleteAll(gone, FALSE)
<1>1. a \in Seq(Jobs) /\ a # <<>> /\ Head(a) = x
  BY SingleIs
<1>2. b \in Seq(Jobs)
  BY DeleteAllIs
<1> HIDE DEF a, b
<1>3. a \o b # <<>> /\ Head(a \o b) = Head(a)
  BY <1>1, <1>2, ConcatIs
<1> QED BY <1>1, <1>3 DEF a, b

LEMMA ClusterMerged ==
  ASSUME Typed, SummarizeCluster
  PROVE  /\ Busy(Dreamer) /\ Job(Dreamer).do = "summarize" /\ Job(Dreamer) \in SummarizeJobs
         /\ issued \in Int /\ issued + 1 \in Ids /\ issued' = issued + 1
         /\ UNCHANGED <<file, index, alone>> /\ kept' \subseteq kept
         /\ \A id \in IdsOf(Job(Dreamer).cluster) : id \in Ids /\ id <= issued
         /\ \E told \in SUBSET Facts, jobs \in Seq(Jobs) :
              /\ kept' = kept \ (WrittenIn(Job(Dreamer).cluster) \ told)
              /\ Summary(told) \in Entries
              /\ Continue(Dreamer, jobs) /\ Ordered(jobs)
              /\ JobsOf(jobs) = {Open(issued + 1, Summary(told))}
                                  \cup {Unlink(id, FALSE) : id \in IdsOf(Job(Dreamer).cluster)}
              /\ jobs # <<>> /\ Head(jobs) = Open(issued + 1, Summary(told))
<1> DEFINE cluster == Job(Dreamer).cluster
<1>1. /\ Busy(Dreamer) /\ Job(Dreamer).do = "summarize" /\ issued < MaxEntries
      /\ issued' = issued + 1 /\ UNCHANGED <<file, index, alone>> /\ Dreamer \in Clients
  BY ClientsAssumption DEF SummarizeCluster, Doing, Job
<1>2. PICK told \in SUBSET ToldBy(cluster), gone \in InOrder(Job(Dreamer).order, IdsOf(cluster)) :
        /\ Continue(Dreamer, Merged(issued + 1, told, gone))
        /\ kept' = kept \ (WrittenIn(cluster) \ told)
  BY DEF SummarizeCluster
<1>3. Job(Dreamer) \in SummarizeJobs /\ JobOk(Job(Dreamer), issued)
  BY <1>1, HeadIs, JobKinds
<1>4. \A e \in cluster : e \in Listings
  BY <1>3 DEF SummarizeJobs
<1>5. \A id \in IdsOf(cluster) : id \in Ids /\ id <= issued
  <2>1. \A id \in IdsOf(cluster) : id \in Ids /\ Mentions(Job(Dreamer), id)
    BY <1>1, <1>4 DEF IdsOf, Mentions, Listings
  <2> QED BY <1>3, <2>1 DEF JobOk
<1>6. issued \in Int /\ issued + 1 \in Ids
  BY <1>1, BoundsAssumption DEF Typed, Ids
<1>7. told \in SUBSET Facts
  <2>1. \A e \in cluster : e.entry.text.tells \subseteq Facts
    BY <1>4 DEF Listings, Entries, Texts
  <2> QED BY <1>2, <2>1 DEF ToldBy
<1> DEFINE entry == Summary(told)
<1>8. entry = Entry([tells |-> told, relative |-> FALSE, stamps |-> 0], 2) /\ entry = Summary(told)
  BY DEF Summary
<1> HIDE DEF cluster, entry
<1>9. /\ entry \in Entries
      /\ Merged(issued + 1, told, gone) \in Seq(Jobs) /\ Ordered(Merged(issued + 1, told, gone))
      /\ JobsOf(Merged(issued + 1, told, gone)) =
           {Open(issued + 1, entry)} \cup {Unlink(id, FALSE) : id \in IdsOf(cluster)}
  <2> DEFINE order == Job(Dreamer).order
             n == issued + 1
  <2>1. \A id \in IdsOf(cluster) : id < n
    BY <1>5, <1>6 DEF Ids
  <2>2. n \in Ids /\ gone \in InOrder(order, IdsOf(cluster))
    BY <1>6
  <2> HIDE DEF n, order
  <2>3. /\ Summary(told) \in Entries
        /\ Merged(n, told, gone) \in Seq(Jobs) /\ Ordered(Merged(n, told, gone))
        /\ JobsOf(Merged(n, told, gone)) = MergePlan(n, told, cluster)
    BY <1>4, <1>7, <2>1, <2>2, MergedIs
  <2> QED BY <1>8, <2>3 DEF n, MergePlan
<1>10. /\ Merged(issued + 1, told, gone) # <<>>
       /\ Head(Merged(issued + 1, told, gone)) = Open(issued + 1, entry)
  <2> DEFINE x == Open(issued + 1, entry)
  <2>1. x \in Jobs
    BY <1>6, <1>9 DEF Open, Jobs, OpenJobs
  <2>2. gone \in Seq(Ids)
    <3>1. IdsOf(cluster) \in SUBSET Ids
      BY <1>5
    <3> QED BY <3>1, InOrderIs
  <2>3. Merged(issued + 1, told, gone) = <<x>> \o DeleteAll(gone, FALSE)
    BY <1>8 DEF Merged
  <2> HIDE DEF x
  <2>4. <<x>> \o DeleteAll(gone, FALSE) # <<>> /\ Head(<<x>> \o DeleteAll(gone, FALSE)) = x
    BY <2>1, <2>2, MergedStarts
  <2> QED BY <2>3, <2>4 DEF x
<1> QED BY <1>1, <1>2, <1>3, <1>5, <1>6, <1>7, <1>9, <1>10 DEF cluster, entry

LEMMA SummarizeTyped ==
  ASSUME Typed, SummarizeCluster
  PROVE  Typed'
<1> DEFINE ids == IdsOf(Job(Dreamer).cluster)
<1>1. /\ Busy(Dreamer) /\ Job(Dreamer).do = "summarize"
      /\ issued \in Int /\ issued + 1 \in Ids /\ issued' = issued + 1
      /\ UNCHANGED <<file, index, alone>> /\ kept' \subseteq kept
      /\ \A id \in ids : id \in Ids /\ id <= issued
  BY ClusterMerged
<1>2. PICK told \in SUBSET Facts, jobs \in Seq(Jobs) :
        /\ Continue(Dreamer, jobs) /\ Ordered(jobs)
        /\ JobsOf(jobs) = {Open(issued + 1, Summary(told))} \cup {Unlink(id, FALSE) : id \in ids}
  BY ClusterMerged
<1>3. \A y \in JobsOf(Tail(agenda[Dreamer])) : y.do = "summarize"
  <2>1. \A y \in JobsOf(Tail(agenda[Dreamer])) : MayPrecede(Job(Dreamer), y)
    BY <1>1, HeadIs, ClientsAssumption
  <2> QED BY <1>1, <2>1 DEF MayPrecede
<1>4. ASSUME NEW x \in JobsOf(jobs)
      PROVE  x.do \in {"open", "unlink"} /\ x.do # "write" /\ JobOk(x, issued')
  <2>1. CASE x = Open(issued + 1, Summary(told))
    BY <1>1, <2>1 DEF Open, JobOk, Mentions, Saves
  <2>2. ASSUME NEW id \in ids, x = Unlink(id, FALSE)
        PROVE  x.do \in {"open", "unlink"} /\ x.do # "write" /\ JobOk(x, issued')
    <3>1. id <= issued + 1
      BY <1>1 DEF Ids
    <3> QED BY <1>1, <2>2, <3>1 DEF Unlink, JobOk, Mentions, Saves
  <2> QED BY <1>2, <2>1, <2>2
<1>5. \A x \in JobsOf(jobs), y \in JobsOf(Tail(agenda[Dreamer])) : MayPrecede(x, y)
  BY <1>3, <1>4 DEF MayPrecede, Lists, Saves, Removes
<1>6. issued' \in issued .. MaxEntries
  BY <1>1 DEF Ids
<1>7. \A x \in JobsOf(jobs) : x.do # "write" /\ JobOk(x, issued')
  BY <1>4
<1>8. Continue(Dreamer, jobs) /\ Ordered(jobs)
  BY <1>2
<1> QED BY <1>1, <1>5, <1>6, <1>7, <1>8, DreamerPlans

LEMMA SummaryFailsTyped ==
  ASSUME Typed, SummaryFails
  PROVE  Typed'
<1>1. /\ Busy(Dreamer) /\ UNCHANGED <<file, index, issued, kept, alone>> /\ Dreamer \in Clients
  BY ClientsAssumption DEF SummaryFails, Doing
<1>2. CASE Continue(Dreamer, <<>>)
  BY <1>1, <1>2, DropTyped
<1>3. CASE agenda' = [agenda EXCEPT ![Dreamer] = <<>>]
  <2>1. <<>> \in Seq(Jobs) /\ JobsOf(<<>>) = {} /\ Ordered(<<>>) /\ HeadOk(<<>>)
    BY NothingIs DEF HeadOk
  <2>2. /\ file' \in [Ids -> Files] /\ (\A id \in Ids : file'[id].there => id <= issued')
        /\ kept' \in SUBSET Facts /\ alone' \in BOOLEAN /\ index' \in SUBSET Ids
    BY <1>1 DEF Typed
  <2>3. issued' \in issued .. MaxEntries
    BY <1>1, BoundsAssumption DEF Typed
  <2>4. \A job \in JobsOf(<<>>) : JobOk(job, issued') /\ (Dreamer # Dreamer => Modest(job))
    BY <2>1
  <2> QED BY <1>1, <1>3, <2>1, <2>2, <2>3, <2>4, PlanTyped
<1> QED BY <1>2, <1>3 DEF SummaryFails

LEMMA NextTyped ==
  ASSUME Typed, [Next]_vars
  PROVE  Typed'
<1>1. ASSUME NEW c \in Clients, NEW draft \in Drafts, Save(c, draft) PROVE Typed'
  BY <1>1, SaveTyped
<1>2. ASSUME NEW c \in Clients, NEW id \in Ids, Delete(c, id) PROVE Typed'
  BY <1>2, DeleteTyped
<1>3. ASSUME NEW withModel \in BOOLEAN, Dream(withModel) PROVE Typed'
  BY <1>3, DreamTyped
<1>4. ASSUME ConsolidateV2 PROVE Typed'
  BY <1>4, ConsolidateV2Typed
<1>5. ASSUME NEW c \in Clients, ClientStep(c) PROVE Typed'
  BY <1>5, OpenTyped, WriteTyped, UnlinkTyped, ListTyped, LoadTyped, RebuildTyped DEF ClientStep
<1>6. ASSUME DecideDream \/ Count \/ ModelVerdicts PROVE Typed'
  BY <1>6, DecideDreamTyped, CountTyped, ModelTyped
<1>7. ASSUME DecideClusters \/ SummarizeCluster \/ SummaryFails PROVE Typed'
  BY <1>7, DecideClustersTyped, SummarizeTyped, SummaryFailsTyped
<1>8. ASSUME UNCHANGED vars PROVE Typed'
  <2>1. UNCHANGED <<file, index, issued, agenda, kept, alone>>
    BY <1>8 DEF vars
  <2>2. \A c \in Clients : AgendaOk(c)'
    BY <2>1 DEF Typed, AgendaOk
  <2> QED BY <2>1, <2>2 DEF Typed
<1> QED BY <1>1, <1>2, <1>3, <1>4, <1>5, <1>6, <1>7, <1>8 DEF Next

\* In every state the agendas, files and entries are well formed, what is planned is in a
\* sensible order, and only ids that were issued are used.
THEOREM AgendasSound == Spec => []Typed
<1>1. Init => Typed
  BY InitTyped
<1>2. Typed /\ [Next]_vars => Typed'
  BY NextTyped
<1> QED BY <1>1, <1>2, PTL DEF Spec

-----------------------------------------------------------------------------
(* The index. *)

\* An agenda after its first job was done.
LEMMA AfterIs ==
  ASSUME Typed, NEW c \in Clients, Busy(c), NEW jobs \in Seq(Jobs), Continue(c, jobs)
  PROVE  \E b \in Seq(Jobs) :
           /\ agenda' = [agenda EXCEPT ![c] = b]
           /\ JobsOf(b) = JobsOf(jobs) \cup JobsOf(Tail(agenda[c]))
           /\ jobs # <<>> => b # <<>> /\ Head(b) = Head(jobs) /\ Tail(b) = Tail(jobs) \o Tail(agenda[c])
           /\ jobs = <<>> => b = Tail(agenda[c])
           /\ b # <<>> => Head(b) \in JobsOf(b)
<1> DEFINE t == Tail(agenda[c])
<1>1. t \in Seq(Jobs)
  BY HeadIs
<1>2. agenda' = [agenda EXCEPT ![c] = jobs \o t]
  BY DEF Continue
<1> HIDE DEF t
<1>3. /\ jobs \o t \in Seq(Jobs) /\ JobsOf(jobs \o t) = JobsOf(jobs) \cup JobsOf(t)
      /\ jobs # <<>> => /\ jobs \o t # <<>> /\ Head(jobs \o t) = Head(jobs)
                        /\ Tail(jobs \o t) = Tail(jobs) \o t
      /\ jobs = <<>> => jobs \o t = t
  BY <1>1, ConcatIs
<1> DEFINE b == jobs \o t
<1>4. b \in Seq(Jobs)
  BY <1>3
<1> HIDE DEF b
<1>5. b # <<>> => Head(b) \in JobsOf(b)
  BY <1>4, TailIs
<1> QED BY <1>2, <1>3, <1>4, <1>5 DEF b, t

\* What the consolidating client decides changes its agenda only, and what it plans neither
\* writes nor reads at once.
LEMMA DreamerDecides ==
  ASSUME Typed, DecideDream \/ Count \/ ModelVerdicts \/ DecideClusters \/ SummarizeCluster \/ SummaryFails
  PROVE  /\ Dreamer \in Clients /\ Busy(Dreamer) /\ UNCHANGED <<file, index, alone>>
         /\ Job(Dreamer).do \in {"load", "summarize"}
         /\ Job(Dreamer).do = "load" => Job(Dreamer).purpose # "index"
         /\ \E b \in Seq(Jobs) :
              /\ agenda' = [agenda EXCEPT ![Dreamer] = b]
              /\ \A x \in JobsOf(b) : x.do \notin {"write", "load"}
              /\ b # <<>> => Head(b) \in JobsOf(b)
<1>0. Dreamer \in Clients
  BY ClientsAssumption
<1>1. ASSUME Busy(Dreamer), NEW jobs \in Seq(Jobs), Continue(Dreamer, jobs),
             \A x \in JobsOf(jobs) : x.do \notin {"write", "load"}
      PROVE  \E b \in Seq(Jobs) :
               /\ agenda' = [agenda EXCEPT ![Dreamer] = b]
               /\ \A x \in JobsOf(b) : x.do \notin {"write", "load"}
               /\ b # <<>> => Head(b) \in JobsOf(b)
  <2>1. PICK b \in Seq(Jobs) :
          /\ agenda' = [agenda EXCEPT ![Dreamer] = b]
          /\ JobsOf(b) = JobsOf(jobs) \cup JobsOf(Tail(agenda[Dreamer]))
          /\ b # <<>> => Head(b) \in JobsOf(b)
    BY <1>0, <1>1, AfterIs
  <2>2. \A y \in JobsOf(Tail(agenda[Dreamer])) : y.do \notin {"write", "load"}
    BY <1>0, <1>1, HeadIs DEF MayPrecede
  <2> QED BY <1>1, <2>1, <2>2
<1>2. <<>> \in Seq(Jobs) /\ \A x \in JobsOf(<<>>) : x.do \notin {"write", "load"}
  BY NothingIs
<1>3. /\ \A id, asked : Unlink(id, asked).do = "unlink"
      /\ \A id, entry : Open(id, entry).do = "open"
      /\ \A purpose : List(purpose).do = "list"
  BY DEF Unlink, Open, List
<1>4. CASE DecideDream
  <2>1. /\ Busy(Dreamer) /\ UNCHANGED <<file, index, issued, alone>>
        /\ Job(Dreamer).do = "load" /\ Job(Dreamer).purpose = "dream"
    BY <1>4, DreamPlanned
  <2>2. PICK won \in SUBSET Job(Dreamer).all, jobs \in Seq(Jobs) :
          Continue(Dreamer, jobs) /\ JobsOf(jobs) = DreamPlan(Job(Dreamer).all, won)
    BY <1>4, DreamPlanned
  <2>3. \A x \in JobsOf(jobs) : x.do \notin {"write", "load"}
    BY <1>3, <2>2 DEF DreamPlan
  <2> QED BY <1>0, <1>1, <2>1, <2>2, <2>3
<1>5. CASE Count
  <2>1. /\ Busy(Dreamer) /\ UNCHANGED <<file, index, issued, kept, alone>>
        /\ Job(Dreamer).do = "load" /\ Job(Dreamer).purpose = "count" /\ Continue(Dreamer, <<>>)
    BY <1>5 DEF Count, Listed, Doing, Job
  <2> QED BY <1>0, <1>1, <1>2, <2>1
<1>6. CASE ModelVerdicts
  <2>1. /\ Doing(Dreamer, "load") /\ UNCHANGED <<file, index, issued, kept, alone>>
        /\ Job(Dreamer).do = "load" /\ Job(Dreamer).purpose = "model"
    BY <1>6, ModelPlanned
  <2>2. Busy(Dreamer)
    BY <2>1 DEF Doing
  <2>3. CASE Continue(Dreamer, <<>>)
    BY <1>0, <1>1, <1>2, <2>1, <2>2, <2>3
  <2>4. ASSUME NEW ids \in SUBSET IdsOf(Job(Dreamer).all), NEW jobs \in Seq(Jobs),
               Continue(Dreamer, jobs),
               JobsOf(jobs) = {Unlink(id, TRUE) : id \in ids} \cup {List("index")}
        PROVE  \E b \in Seq(Jobs) :
                 /\ agenda' = [agenda EXCEPT ![Dreamer] = b]
                 /\ \A x \in JobsOf(b) : x.do \notin {"write", "load"}
                 /\ b # <<>> => Head(b) \in JobsOf(b)
    <3>1. \A x \in JobsOf(jobs) : x.do \notin {"write", "load"}
      BY <1>3, <2>4
    <3> QED BY <1>1, <2>2, <2>4, <3>1
  <2> QED BY <1>0, <1>6, <2>1, <2>2, <2>3, <2>4, ModelPlanned
<1>7. CASE DecideClusters
  <2>1. /\ Doing(Dreamer, "load") /\ Job(Dreamer).purpose = "clusters" /\ Job(Dreamer).do = "load"
        /\ UNCHANGED <<file, index, issued, kept, alone>>
    BY <1>7, ClustersPlanned
  <2>2. PICK jobs \in Seq(Jobs) :
          /\ Continue(Dreamer, jobs)
          /\ \A x \in JobsOf(jobs) :
               (\E id \in IdsOf(Job(Dreamer).all) : x = Unlink(id, TRUE)) \/ x.do = "summarize"
    BY <1>7, ClustersPlanned
  <2>3. \A x \in JobsOf(jobs) : x.do \notin {"write", "load"}
    BY <1>3, <2>2
  <2>4. Busy(Dreamer)
    BY <2>1 DEF Doing
  <2> QED BY <1>0, <1>1, <2>1, <2>2, <2>3, <2>4
<1>8. CASE SummarizeCluster
  <2>1. /\ Busy(Dreamer) /\ Job(Dreamer).do = "summarize" /\ UNCHANGED <<file, index, alone>>
    BY <1>8, ClusterMerged
  <2>2. PICK told \in SUBSET Facts, jobs \in Seq(Jobs) :
          /\ Continue(Dreamer, jobs)
          /\ JobsOf(jobs) = {Open(issued + 1, Summary(told))}
                              \cup {Unlink(id, FALSE) : id \in IdsOf(Job(Dreamer).cluster)}
    BY <1>8, ClusterMerged
  <2>3. \A x \in JobsOf(jobs) : x.do \notin {"write", "load"}
    BY <1>3, <2>2
  <2> QED BY <1>0, <1>1, <2>1, <2>2, <2>3
<1>9. CASE SummaryFails
  <2>1. /\ Busy(Dreamer) /\ Job(Dreamer).do = "summarize" /\ UNCHANGED <<file, index, kept, alone>>
    BY <1>9 DEF SummaryFails, Doing, Job
  <2>2. CASE Continue(Dreamer, <<>>)
    BY <1>0, <1>1, <1>2, <2>1, <2>2
  <2>3. CASE agenda' = [agenda EXCEPT ![Dreamer] = <<>>]
    BY <1>0, <1>2, <2>1, <2>3
  <2> QED BY <1>9, <2>2, <2>3 DEF SummaryFails
<1> QED BY <1>4, <1>5, <1>6, <1>7, <1>8, <1>9

\* the client will have rebuilt the index before it is done
OwesIndex(a) == a # <<>> /\ (Head(a).do = "write" \/ Lists(Head(a), {"index"}))
ReadsIndex(a) == a # <<>> /\ Head(a).do = "load" /\ Head(a).purpose = "index"

TakingTurns == \A c, d \in Clients : Busy(c) /\ Busy(d) => c = d
IndexInv ==
  alone =>
    /\ TakingTurns
    /\ index = Present \/ \E c \in Clients : OwesIndex(agenda[c])
    /\ \A c \in Clients : ReadsIndex(agenda[c]) => IdsOf(Job(c).all) = Present

LEMMA StartIndexed ==
  ASSUME Typed, IndexInv, NEW c \in Clients, NEW b \in Seq(Jobs), Start(c, b), ~ReadsIndex(b),
         UNCHANGED <<file, index>>
  PROVE  IndexInv'
<1> SUFFICES ASSUME alone'
             PROVE  /\ TakingTurns' /\ index' = Present'
                    /\ \A d \in Clients : ReadsIndex(agenda[d])' => (IdsOf(Job(d).all) = Present)'
  BY DEF IndexInv
<1>1. alone /\ (\A d \in Clients : ~Busy(d)) /\ agenda' = [agenda EXCEPT ![c] = b]
  BY DEF Start
<1>2. agenda'[c] = b /\ \A d \in Clients \ {c} : agenda'[d] = <<>>
  BY <1>1 DEF Typed, Busy
<1>3. index = Present
  BY <1>1 DEF IndexInv, OwesIndex, Busy
<1> QED BY <1>2, <1>3 DEF TakingTurns, Busy, ReadsIndex, Present

LEMMA StepIndexed ==
  ASSUME Typed, IndexInv, NEW c \in Clients, Busy(c), NEW b \in Seq(Jobs),
         agenda' = [agenda EXCEPT ![c] = b], UNCHANGED alone,
         alone => index' = Present' \/ OwesIndex(b),
         alone /\ ReadsIndex(b) => IdsOf(Head(b).all) = Present'
  PROVE  IndexInv'
<1> SUFFICES ASSUME alone
             PROVE  /\ TakingTurns' /\ (index' = Present' \/ \E d \in Clients : OwesIndex(agenda[d])')
                    /\ \A d \in Clients : ReadsIndex(agenda[d])' => (IdsOf(Job(d).all) = Present)'
  BY DEF IndexInv
<1>1. \A d \in Clients \ {c} : agenda[d] = <<>>
  BY DEF IndexInv, TakingTurns, Busy
<1>2. agenda'[c] = b /\ \A d \in Clients \ {c} : agenda'[d] = <<>>
  BY <1>1 DEF Typed
<1> QED BY <1>2 DEF TakingTurns, Busy, ReadsIndex, OwesIndex, Job

\* Before a step of the only client at work.
LEMMA Undisturbed ==
  ASSUME Typed, IndexInv, alone, NEW c \in Clients, Busy(c)
  PROVE  /\ ~OwesIndex(agenda[c]) => index = Present
         /\ ReadsIndex(agenda[c]) => IdsOf(Job(c).all) = Present
BY DEF IndexInv, TakingTurns, Busy, OwesIndex

\* A step that leaves files and index alone, of a client that does not owe the index.
LEMMA PassIndexed ==
  ASSUME Typed, IndexInv, NEW c \in Clients, Busy(c), ~OwesIndex(agenda[c]), NEW b \in Seq(Jobs),
         agenda' = [agenda EXCEPT ![c] = b], UNCHANGED <<file, index, alone>>, ~ReadsIndex(b)
  PROVE  IndexInv'
<1>1. Present' = Present
  BY DEF Present
<1>2. alone => index' = Present'
  BY <1>1, Undisturbed
<1> QED BY <1>2, StepIndexed

LEMMA AfterStarts ==
  ASSUME Typed, NEW c \in Clients, Busy(c), NEW jobs \in Seq(Jobs), Continue(c, jobs), jobs # <<>>
  PROVE  \E b \in Seq(Jobs) :
           agenda' = [agenda EXCEPT ![c] = b] /\ b # <<>> /\ Head(b) = Head(jobs)
<1>1. PICK b \in Seq(Jobs) :
        /\ agenda' = [agenda EXCEPT ![c] = b]
        /\ JobsOf(b) = JobsOf(jobs) \cup JobsOf(Tail(agenda[c]))
        /\ jobs # <<>> => b # <<>> /\ Head(b) = Head(jobs) /\ Tail(b) = Tail(jobs) \o Tail(agenda[c])
        /\ jobs = <<>> => b = Tail(agenda[c])
        /\ b # <<>> => Head(b) \in JobsOf(b)
  BY AfterIs
<1> QED BY <1>1

LEMMA AfterSingle ==
  ASSUME Typed, NEW c \in Clients, Busy(c), NEW x \in Jobs, Continue(c, <<x>>)
  PROVE  \E b \in Seq(Jobs) :
           agenda' = [agenda EXCEPT ![c] = b] /\ b # <<>> /\ Head(b) = x
<1> DEFINE jobs == <<x>>
<1>1. jobs \in Seq(Jobs) /\ jobs # <<>> /\ Head(jobs) = x /\ Continue(c, jobs)
  BY SingleIs
<1> HIDE DEF jobs
<1> QED BY <1>1, AfterStarts

LEMMA ClientIndexed ==
  ASSUME Typed, IndexInv, NEW c \in Clients, ClientStep(c)
  PROVE  IndexInv'
<1>0. Rebuild \in Seq(Jobs) /\ Rebuild # <<>> /\ Head(Rebuild) = List("index") /\ <<>> \in Seq(Jobs)
  BY ListJobIs, SingleIs, NothingIs DEF Rebuild, Purposes
<1>1. CASE OpenFile(c)
  <2> DEFINE x == Write(Job(c).id, Job(c).entry)
             jobs == <<x>> \o Rebuild
  <2>1. Busy(c) /\ Job(c).do = "open" /\ Continue(c, jobs) /\ UNCHANGED <<index, alone>>
    BY <1>1 DEF OpenFile, Doing, Job
  <2>2. Job(c) \in OpenJobs
    BY <2>1, HeadIs, JobKinds
  <2>3. x \in Jobs /\ x.do = "write"
    BY <2>2 DEF Write, Jobs, WriteJobs, OpenJobs
  <2> HIDE DEF x
  <2>4. jobs \in Seq(Jobs) /\ jobs # <<>> /\ Head(jobs) = x
    <3> DEFINE a == <<x>>
    <3>1. a \in Seq(Jobs) /\ a # <<>> /\ Head(a) = x
      BY <2>3, SingleIs
    <3> HIDE DEF a
    <3>2. a \o Rebuild \in Seq(Jobs) /\ a \o Rebuild # <<>> /\ Head(a \o Rebuild) = Head(a)
      BY <1>0, <3>1, ConcatIs
    <3> QED BY <3>1, <3>2 DEF a
  <2> HIDE DEF jobs
  <2>5. PICK b \in Seq(Jobs) :
          agenda' = [agenda EXCEPT ![c] = b] /\ b # <<>> /\ Head(b) = x
    BY <2>1, <2>4, AfterStarts
  <2> QED BY <2>1, <2>3, <2>5, StepIndexed DEF OwesIndex, ReadsIndex
<1>2. CASE WriteFile(c)
  <2>1. Busy(c) /\ Job(c).do = "write" /\ Continue(c, <<>>) /\ UNCHANGED <<index, alone>>
    BY <1>2 DEF WriteFile, Doing, Job
  <2>2. PICK b \in Seq(Jobs) : agenda' = [agenda EXCEPT ![c] = b] /\ b = Tail(agenda[c])
    BY <1>0, <2>1, AfterIs
  <2>3. b # <<>> /\ Head(b) = List("index")
    BY <2>1, <2>2 DEF Typed, AgendaOk, HeadOk, Busy, Job
  <2>4. OwesIndex(b) /\ ~ReadsIndex(b)
    BY <2>3 DEF OwesIndex, ReadsIndex, List, Lists
  <2> QED BY <2>1, <2>2, <2>4, StepIndexed
<1>3. CASE UnlinkFile(c)
  <2>1. Busy(c) /\ Job(c).do = "unlink" /\ UNCHANGED <<index, alone>>
    BY <1>3 DEF UnlinkFile, Doing, Job
  <2>2. CASE file[Job(c).id].there
    <3>1. Continue(c, Rebuild)
      BY <1>3, <2>2 DEF UnlinkFile, Unlinked
    <3>2. PICK b \in Seq(Jobs) :
            agenda' = [agenda EXCEPT ![c] = b] /\ b # <<>> /\ Head(b) = List("index")
      BY <1>0, <2>1, <3>1, AfterStarts
    <3>3. OwesIndex(b) /\ ~ReadsIndex(b)
      BY <3>2 DEF OwesIndex, ReadsIndex, List, Lists
    <3> QED BY <2>1, <3>2, <3>3, StepIndexed
  <2>3. CASE ~file[Job(c).id].there
    <3>1. Continue(c, <<>>) /\ UNCHANGED file
      BY <1>3, <2>3 DEF UnlinkFile
    <3>2. PICK b \in Seq(Jobs) :
            agenda' = [agenda EXCEPT ![c] = b] /\ b = Tail(agenda[c]) /\ (b # <<>> => Head(b) \in JobsOf(b))
      BY <1>0, <2>1, <3>1, AfterIs
    <3>3. ~ReadsIndex(b)
      BY <2>1, <3>2, HeadIs DEF ReadsIndex, MayPrecede
    <3>4. ~OwesIndex(agenda[c])
      BY <2>1 DEF OwesIndex, Job, Lists
    <3> QED BY <2>1, <3>1, <3>2, <3>3, <3>4, PassIndexed
  <2> QED BY <2>2, <2>3
<1>4. CASE ListFiles(c)
  <2> DEFINE x == IF Job(c).purpose = "index" THEN Load("index", {}, Held(Present))
                  ELSE Load(Job(c).purpose, Present, {})
  <2>1. Busy(c) /\ Job(c).do = "list" /\ Continue(c, <<x>>) /\ UNCHANGED <<file, index, alone>>
    BY <1>4 DEF ListFiles, Doing, Job
  <2>2. Job(c).purpose \in Purposes
    BY <2>1, HeadIs, JobKinds DEF ListJobs
  <2>3. Present \in SUBSET Ids /\ Present' = Present
    BY <2>1 DEF Present
  <2>4. Held(Present) \in SUBSET Listings /\ IdsOf(Held(Present)) = Present
    BY <2>3, HeldIs DEF Present
  <2>5. /\ x \in Jobs /\ x.do = "load" /\ x.purpose = Job(c).purpose
        /\ x.purpose = "index" => IdsOf(x.all) = Present
    <3>1. CASE Job(c).purpose = "index"
      <4>1. x = Load("index", {}, Held(Present))
        BY <3>1
      <4>2. /\ Load("index", {}, Held(Present)) \in Jobs
            /\ Load("index", {}, Held(Present)).do = "load"
            /\ Load("index", {}, Held(Present)).purpose = "index"
            /\ Load("index", {}, Held(Present)).all = Held(Present)
        BY <2>4, LoadJobIs DEF Purposes
      <4> QED BY <2>4, <3>1, <4>1, <4>2
    <3>2. CASE Job(c).purpose # "index"
      <4>1. x = Load(Job(c).purpose, Present, {})
        BY <3>2
      <4>2. /\ Load(Job(c).purpose, Present, {}) \in Jobs
            /\ Load(Job(c).purpose, Present, {}).do = "load"
            /\ Load(Job(c).purpose, Present, {}).purpose = Job(c).purpose
        BY <2>2, <2>3, LoadJobIs
      <4> QED BY <3>2, <4>1, <4>2
    <3> QED BY <3>1, <3>2
  <2> HIDE DEF x
  <2>7. PICK b \in Seq(Jobs) : agenda' = [agenda EXCEPT ![c] = b] /\ b # <<>> /\ Head(b) = x
    BY <2>1, <2>5, AfterSingle
  <2>8. CASE Job(c).purpose = "index"
    <3>1. OwesIndex(b)
      BY <2>5, <2>7, <2>8 DEF OwesIndex, Lists
    <3>2. IdsOf(Head(b).all) = Present'
      BY <2>3, <2>5, <2>7, <2>8
    <3> QED BY <2>1, <2>7, <3>1, <3>2, StepIndexed
  <2>9. CASE Job(c).purpose # "index"
    <3>1. ~OwesIndex(agenda[c]) /\ ~ReadsIndex(b)
      BY <2>1, <2>5, <2>7, <2>9 DEF OwesIndex, ReadsIndex, Lists, Job
    <3> QED BY <2>1, <2>7, <3>1, PassIndexed
  <2> QED BY <2>8, <2>9
<1>5. CASE LoadEntry(c)
  <2>1. Doing(c, "load") /\ Job(c).left # {} /\ UNCHANGED <<file, index, alone>>
    BY <1>5 DEF LoadEntry
  <2>2. Busy(c) /\ Job(c).do = "load" /\ LoadOk(Job(c)) /\ Job(c) \in LoadJobs
    BY <2>1, LoadedIs DEF Doing, Job
  <2>3. Job(c).purpose # "index" /\ Job(c).purpose \in Purposes
    BY <2>1, <2>2 DEF LoadOk, LoadJobs
  <2>4. PICK id \in Job(c).left :
          Continue(c, <<Load(Job(c).purpose, Job(c).left \ {id}, Job(c).all \cup Held({id}))>>)
    BY <1>5 DEF LoadEntry
  <2> DEFINE x == Load(Job(c).purpose, Job(c).left \ {id}, Job(c).all \cup Held({id}))
  <2>5. x \in Jobs /\ x.do = "load" /\ x.purpose = Job(c).purpose
    <3>1. Job(c).left \in SUBSET Ids /\ Job(c).all \in SUBSET Listings
      BY <2>1, LoadedIs
    <3>2. {id} \in SUBSET Ids
      BY <3>1
    <3>3. Job(c).all \cup Held({id}) \in SUBSET Listings
      BY <3>1, <3>2, HeldIs
    <3>4. Job(c).left \ {id} \in SUBSET Ids
      BY <3>1
    <3> DEFINE left == Job(c).left \ {id}
               all == Job(c).all \cup Held({id})
    <3>5. left \in SUBSET Ids /\ all \in SUBSET Listings
      BY <3>3, <3>4
    <3> HIDE DEF left, all
    <3>6. /\ Load(Job(c).purpose, left, all) \in Jobs /\ Load(Job(c).purpose, left, all).do = "load"
          /\ Load(Job(c).purpose, left, all).purpose = Job(c).purpose
      BY <2>3, <3>5, LoadJobIs
    <3> QED BY <3>6 DEF left, all
  <2>6. Continue(c, <<x>>)
    BY <2>4
  <2> HIDE DEF x
  <2>8. PICK b \in Seq(Jobs) : agenda' = [agenda EXCEPT ![c] = b] /\ b # <<>> /\ Head(b) = x
    BY <2>2, <2>5, <2>6, AfterSingle
  <2>9. ~OwesIndex(agenda[c]) /\ ~ReadsIndex(b)
    BY <2>2, <2>3, <2>5, <2>8 DEF OwesIndex, ReadsIndex, Lists, Job
  <2> QED BY <2>1, <2>2, <2>8, <2>9, PassIndexed
<1>6. CASE RebuildIndex(c)
  <2>1. /\ Busy(c) /\ Job(c).do = "load" /\ Job(c).purpose = "index" /\ Continue(c, <<>>)
        /\ index' = IdsOf(Job(c).all) /\ UNCHANGED <<file, alone>>
    BY <1>6 DEF RebuildIndex, Listed, Doing, Job
  <2>2. PICK b \in Seq(Jobs) :
          agenda' = [agenda EXCEPT ![c] = b] /\ b = Tail(agenda[c]) /\ (b # <<>> => Head(b) \in JobsOf(b))
    BY <1>0, <2>1, AfterIs
  <2>3. ~ReadsIndex(b)
    BY <2>1, <2>2, HeadIs DEF ReadsIndex, MayPrecede
  <2>4. ReadsIndex(agenda[c]) /\ Present' = Present
    BY <2>1 DEF ReadsIndex, Busy, Job, Present
  <2>5. alone => index' = Present'
    BY <2>1, <2>4, Undisturbed
  <2> QED BY <2>1, <2>2, <2>3, <2>5, StepIndexed
<1> QED BY <1>1, <1>2, <1>3, <1>4, <1>5, <1>6 DEF ClientStep

LEMMA NextIndexed ==
  ASSUME Typed, IndexInv, [Next]_vars
  PROVE  IndexInv'
<1>1. ASSUME NEW c \in Clients, NEW x \in Jobs, Start(c, <<x>>), x.do # "load", UNCHANGED <<file, index>>
      PROVE  IndexInv'
  <2> DEFINE b == <<x>>
  <2>1. b \in Seq(Jobs) /\ Head(b) = x
    BY SingleIs
  <2>2. ~ReadsIndex(b) /\ Start(c, b)
    BY <1>1, <2>1 DEF ReadsIndex
  <2> HIDE DEF b
  <2> QED BY <1>1, <2>1, <2>2, StartIndexed
<1>2. ASSUME NEW c \in Clients, NEW draft \in Drafts, Save(c, draft) PROVE IndexInv'
  <2> DEFINE x == Open(issued + 1, Entry(Unstamped(draft[1]), draft[2]))
  <2>1. issued + 1 \in Ids
    BY <1>2, BoundsAssumption DEF Save, Ids, Typed
  <2>2. x \in Jobs /\ x.do = "open"
    BY <2>1, EntriesAre DEF Open, Jobs, OpenJobs
  <2>3. Start(c, <<x>>) /\ UNCHANGED <<file, index>>
    BY <1>2 DEF Save
  <2> HIDE DEF x
  <2> QED BY <1>1, <2>2, <2>3
<1>3. ASSUME NEW c \in Clients, NEW id \in Ids, Delete(c, id) PROVE IndexInv'
  <2>1. Unlink(id, TRUE) \in Jobs /\ Unlink(id, TRUE).do = "unlink"
    BY DEF Unlink, Jobs, UnlinkJobs
  <2> QED BY <1>1, <1>3, <2>1 DEF Delete
<1>4. Dreamer \in Clients /\ \A p \in Purposes : List(p) \in Jobs /\ List(p).do = "list"
  BY ClientsAssumption, ListJobIs
<1>5. ASSUME NEW withModel \in BOOLEAN, Dream(withModel) PROVE IndexInv'
  <2>1. CASE ~withModel
    <3>1. Start(Dreamer, <<List("dream")>>) /\ UNCHANGED <<file, index>>
      BY <1>5, <2>1 DEF Dream
    <3>2. List("dream") \in Jobs /\ List("dream").do # "load"
      BY <1>4 DEF Purposes
    <3> QED BY <1>1, <1>4, <3>1, <3>2
  <2>2. CASE withModel
    <3> DEFINE b == <<List("dream"), List("model")>>
    <3>1. Start(Dreamer, b) /\ UNCHANGED <<file, index>>
      BY <1>5, <2>2 DEF Dream
    <3>2. List("dream") \in Jobs /\ List("model") \in Jobs /\ List("dream").do # "load"
      BY <1>4 DEF Purposes
    <3>3. b \in Seq(Jobs) /\ Head(b) = List("dream")
      BY <3>2
    <3> HIDE DEF b
    <3>4. ~ReadsIndex(b)
      BY <3>2, <3>3 DEF ReadsIndex
    <3> QED BY <1>4, <3>1, <3>3, <3>4, StartIndexed
  <2> QED BY <2>1, <2>2
<1>6. ASSUME ConsolidateV2 PROVE IndexInv'
  <2>1. Start(Dreamer, <<List("clusters")>>) /\ UNCHANGED <<file, index>>
    BY <1>6 DEF ConsolidateV2
  <2>2. List("clusters") \in Jobs /\ List("clusters").do # "load"
    BY <1>4 DEF Purposes
  <2> QED BY <1>1, <1>4, <2>1, <2>2
<1>7. ASSUME DecideDream \/ Count \/ ModelVerdicts \/ DecideClusters \/ SummarizeCluster \/ SummaryFails
      PROVE  IndexInv'
  <2>1. /\ Dreamer \in Clients /\ Busy(Dreamer) /\ UNCHANGED <<file, index, alone>>
        /\ Job(Dreamer).do \in {"load", "summarize"}
        /\ Job(Dreamer).do = "load" => Job(Dreamer).purpose # "index"
    BY <1>7, DreamerDecides
  <2>2. PICK b \in Seq(Jobs) :
          /\ agenda' = [agenda EXCEPT ![Dreamer] = b]
          /\ \A x \in JobsOf(b) : x.do \notin {"write", "load"}
          /\ b # <<>> => Head(b) \in JobsOf(b)
    BY <1>7, DreamerDecides
  <2>3. ~OwesIndex(agenda[Dreamer]) /\ ~ReadsIndex(b)
    BY <2>1, <2>2 DEF OwesIndex, ReadsIndex, Lists, Job
  <2> QED BY <2>1, <2>2, <2>3, PassIndexed
<1>8. ASSUME UNCHANGED vars PROVE IndexInv'
  <2>1. UNCHANGED <<file, index, agenda, alone>>
    BY <1>8 DEF vars
  <2> QED BY <2>1 DEF IndexInv, TakingTurns, Busy, Present, OwesIndex, ReadsIndex, Job, Lists
<1> QED BY <1>2, <1>3, <1>5, <1>6, <1>7, <1>8, ClientIndexed DEF Next

\* Clients that have taken turns leave an index of exactly the entries there are.
THEOREM IndexSound == Spec => []IndexAgrees
<1>1. Init => Typed /\ IndexInv
  <2>1. Init => Typed
    BY InitTyped
  <2>2. ASSUME Init PROVE IndexInv
    <3>1. (\A c \in Clients : agenda[c] = <<>>) /\ index = {} /\ \A id \in Ids : ~file[id].there
      BY <2>2 DEF Init, Absent
    <3> QED BY <3>1 DEF IndexInv, TakingTurns, Busy, Present, ReadsIndex
  <2> QED BY <2>1, <2>2
<1>2. Typed /\ IndexInv /\ [Next]_vars => (Typed /\ IndexInv)'
  BY NextTyped, NextIndexed
<1>3. Typed /\ IndexInv => IndexAgrees
  BY DEF IndexInv, IndexAgrees, Idle, OwesIndex, Busy
<1> QED BY <1>1, <1>2, <1>3, PTL DEF Spec

-----------------------------------------------------------------------------
(* A consolidation that nobody disturbs. *)

Deletes(a, id) == \E job \in JobsOf(a) : job.do = "unlink" /\ job.id = id
SavesAs(a, id, entry) == \E job \in JobsOf(a) : Saves(job) /\ job.id = id /\ job.entry = entry
\* id is an entry when agenda a is done
EndsAs(a, id, entry) ==
  /\ ~Deletes(a, id)
  /\ \/ SavesAs(a, id, entry)
     \/ /\ \A job \in JobsOf(a) : Saves(job) => job.id # id
        /\ file[id].there /\ file[id].entry = entry
CleanEnd(a) ==
  \A i, j \in Ids, d, e \in Entries :
    EndsAs(a, i, d) /\ EndsAs(a, j, e) => d.sure > 0 /\ (d.text = e.text => i = j)

ReadsFiles(job) ==
  /\ job.left \cup IdsOf(job.all) = Present
  /\ \A e \in job.all : file[e.id].there /\ file[e.id].entry = e.entry

Counts(a) == \E job \in JobsOf(a) : Lists(job, {"count"})

DreamOk(a) ==
  /\ Head(a).do = "write" => Dreamer \in file[Head(a).id].writers
  /\ Head(a).do = "load" /\ Head(a).purpose \in {"dream", "count"} => ReadsFiles(Head(a))
  /\ Counts(a) => CleanEnd(a)

DreamInv == alone /\ Busy(Dreamer) => DreamOk(agenda[Dreamer])

LEMMA EndsKept ==
  ASSUME NEW a, NEW b, CleanEnd(a),
         \A i \in Ids, e \in Entries : EndsAs(b, i, e)' => EndsAs(a, i, e)
  PROVE  CleanEnd(b)'
BY DEF CleanEnd

\* An agenda that has just been made does not write or read at once.
LEMMA PlanClean ==
  ASSUME NEW b, Head(b).do \notin {"write", "load"}, Counts(b) => CleanEnd(b)'
  PROVE  DreamOk(b)'
BY DEF DreamOk

\* A step of the client that consolidates, as far as its agenda goes.
LEMMA DreamerClean ==
  ASSUME Typed, IndexInv, DreamInv, NEW c \in Clients, Busy(c), NEW b \in Seq(Jobs),
         agenda' = [agenda EXCEPT ![c] = b], UNCHANGED alone,
         alone /\ c = Dreamer /\ b # <<>> => DreamOk(b)'
  PROVE  DreamInv'
<1> SUFFICES ASSUME alone, Busy(Dreamer)' PROVE DreamOk(agenda[Dreamer])'
  BY DEF DreamInv
<1>1. agenda'[c] = b /\ \A d \in Clients \ {c} : agenda'[d] = agenda[d]
  BY DEF Typed
<1>2. Dreamer = c
  BY <1>1, ClientsAssumption DEF Busy, IndexInv, TakingTurns
<1> QED BY <1>1, <1>2 DEF Busy

LEMMA StartClean ==
  ASSUME Typed, DreamInv, NEW c \in Clients, NEW b \in Seq(Jobs), b # <<>>, Start(c, b),
         \A x \in JobsOf(b) : x.do \notin {"write", "load"} /\ ~Lists(x, {"count"})
  PROVE  DreamInv'
<1> SUFFICES ASSUME alone', Busy(Dreamer)' PROVE DreamOk(agenda[Dreamer])'
  BY DEF DreamInv
<1>1. (\A d \in Clients : ~Busy(d)) /\ agenda' = [agenda EXCEPT ![c] = b]
  BY DEF Start
<1>2. agenda'[c] = b /\ \A d \in Clients \ {c} : agenda'[d] = <<>>
  BY <1>1 DEF Typed, Busy
<1>3. agenda'[Dreamer] = b
  BY <1>2, ClientsAssumption DEF Busy
<1>4. Head(b) \in JobsOf(b)
  BY TailIs
<1> QED BY <1>3, <1>4, PlanClean DEF Counts

-----------------------------------------------------------------------------
(* The file operations, by the set of jobs they leave. *)

Rest(c) == JobsOf(Tail(agenda[c]))

LEMMA RestIs ==
  ASSUME Typed, NEW c \in Clients, Busy(c)
  PROVE  /\ JobsOf(agenda[c]) = {Job(c)} \cup Rest(c) /\ Job(c) \in Jobs
         /\ \A y \in Rest(c) : y \in Jobs /\ JobOk(y, issued) /\ MayPrecede(Job(c), y) /\ (c # Dreamer => Modest(y))
         /\ JobOk(Job(c), issued) /\ (c # Dreamer => Modest(Job(c)))
BY HeadIs DEF Rest

\* the jobs of b are those of the set jobs and the rest of c's
Leaves(c, b, jobs) ==
  /\ agenda' = [agenda EXCEPT ![c] = b]
  /\ JobsOf(b) = jobs \cup Rest(c)
  /\ b # <<>> => Head(b) \in JobsOf(b)

LEMMA Left ==
  ASSUME Typed, NEW c \in Clients, Busy(c), NEW jobs \in Seq(Jobs), Continue(c, jobs)
  PROVE  \E b \in Seq(Jobs) :
           /\ Leaves(c, b, JobsOf(jobs))
           /\ jobs # <<>> =>
                b # <<>> /\ Head(b) = Head(jobs) /\ Tail(b) = Tail(jobs) \o Tail(agenda[c])
           /\ jobs = <<>> => b = Tail(agenda[c])
<1>1. PICK b \in Seq(Jobs) :
        /\ agenda' = [agenda EXCEPT ![c] = b]
        /\ JobsOf(b) = JobsOf(jobs) \cup JobsOf(Tail(agenda[c]))
        /\ jobs # <<>> => b # <<>> /\ Head(b) = Head(jobs) /\ Tail(b) = Tail(jobs) \o Tail(agenda[c])
        /\ jobs = <<>> => b = Tail(agenda[c])
        /\ b # <<>> => Head(b) \in JobsOf(b)
  BY AfterIs
<1> QED BY <1>1 DEF Leaves, Rest

LEMMA LeftNone ==
  ASSUME Typed, NEW c \in Clients, Busy(c), Continue(c, <<>>)
  PROVE  \E b \in Seq(Jobs) : Leaves(c, b, {}) /\ b = Tail(agenda[c])
<1> DEFINE jobs == <<>>
<1>1. jobs \in Seq(Jobs) /\ JobsOf(jobs) = {} /\ jobs = <<>> /\ Continue(c, jobs)
  BY NothingIs
<1> HIDE DEF jobs
<1>2. PICK b \in Seq(Jobs) :
           /\ Leaves(c, b, JobsOf(jobs))
           /\ jobs # <<>> =>
                b # <<>> /\ Head(b) = Head(jobs) /\ Tail(b) = Tail(jobs) \o Tail(agenda[c])
           /\ jobs = <<>> => b = Tail(agenda[c])
  BY <1>1, Left
<1> QED BY <1>1, <1>2

LEMMA LeftOne ==
  ASSUME Typed, NEW c \in Clients, Busy(c), NEW x \in Jobs, Continue(c, <<x>>)
  PROVE  \E b \in Seq(Jobs) : Leaves(c, b, {x}) /\ b # <<>> /\ Head(b) = x
<1> DEFINE jobs == <<x>>
<1>1. jobs \in Seq(Jobs) /\ JobsOf(jobs) = {x} /\ jobs # <<>> /\ Head(jobs) = x /\ Continue(c, jobs)
  BY SingleIs
<1> HIDE DEF jobs
<1>2. PICK b \in Seq(Jobs) :
           /\ Leaves(c, b, JobsOf(jobs))
           /\ jobs # <<>> =>
                b # <<>> /\ Head(b) = Head(jobs) /\ Tail(b) = Tail(jobs) \o Tail(agenda[c])
           /\ jobs = <<>> => b = Tail(agenda[c])
  BY <1>1, Left
<1> QED BY <1>1, <1>2

LEMMA OpenLeaves ==
  ASSUME Typed, NEW c \in Clients, OpenFile(c)
  PROVE  /\ Busy(c) /\ Job(c).do = "open" /\ Job(c) \in OpenJobs /\ Job(c).id \in Ids
         /\ UNCHANGED <<index, issued, kept, alone>>
         /\ file' = [file EXCEPT ![Job(c).id] =
              [there |-> TRUE, entry |-> Entry(Blank, 2), writers |-> file[Job(c).id].writers \cup {c}]]
         /\ \E b \in Seq(Jobs) :
              /\ Leaves(c, b, {Write(Job(c).id, Job(c).entry), List("index")})
              /\ b # <<>> /\ Head(b) = Write(Job(c).id, Job(c).entry)
              /\ JobsOf(Tail(b)) = {List("index")} \cup Rest(c)
<1> DEFINE x == Write(Job(c).id, Job(c).entry)
           y == List("index")
           jobs == <<x>> \o Rebuild
<1>1. /\ Busy(c) /\ Job(c).do = "open" /\ Continue(c, jobs) /\ UNCHANGED <<index, issued, kept, alone>>
      /\ file' = [file EXCEPT ![Job(c).id] =
           [there |-> TRUE, entry |-> Entry(Blank, 2), writers |-> file[Job(c).id].writers \cup {c}]]
  BY DEF OpenFile, Doing, Job
<1>2. Job(c) \in OpenJobs /\ Job(c).id \in Ids
  BY <1>1, HeadIs, JobKinds DEF OpenJobs
<1>3. x \in Jobs /\ y \in Jobs
  BY <1>2, ListJobIs DEF Write, Jobs, WriteJobs, OpenJobs, Purposes
<1>4. MayPrecede(x, y)
  BY DEF MayPrecede, Write, List, Lists, Saves, Removes
<1>5. Rebuild = <<y>>
  BY DEF Rebuild
<1> HIDE DEF x, y
<1>6. /\ <<x>> \o <<y>> \in Seq(Jobs) /\ JobsOf(<<x>> \o <<y>>) = {x, y}
      /\ <<x>> \o <<y>> # <<>> /\ Head(<<x>> \o <<y>>) = x /\ Tail(<<x>> \o <<y>>) = <<y>>
  BY <1>3, <1>4, PairIs
<1> DEFINE r == <<y>>
           t == Tail(agenda[c])
<1>7. jobs \in Seq(Jobs) /\ JobsOf(jobs) = {x, y} /\ jobs # <<>> /\ Head(jobs) = x /\ Tail(jobs) = r
  BY <1>5, <1>6
<1>8. r \in Seq(Jobs) /\ JobsOf(r) = {y} /\ t \in Seq(Jobs) /\ JobsOf(t) = Rest(c)
  BY <1>1, <1>3, SingleIs, HeadIs DEF Rest
<1> HIDE DEF jobs, r
<1>9. PICK b \in Seq(Jobs) :
           /\ Leaves(c, b, JobsOf(jobs))
           /\ jobs # <<>> =>
                b # <<>> /\ Head(b) = Head(jobs) /\ Tail(b) = Tail(jobs) \o Tail(agenda[c])
           /\ jobs = <<>> => b = Tail(agenda[c])
  BY <1>1, <1>7, Left
<1>10. JobsOf(Tail(b)) = {y} \cup Rest(c)
  <2>1. Tail(b) = r \o t
    BY <1>7, <1>9
  <2> HIDE DEF t
  <2>2. JobsOf(r \o t) = JobsOf(r) \cup JobsOf(t)
    BY <1>8, ConcatIs
  <2> QED BY <1>8, <2>1, <2>2
<1> QED BY <1>1, <1>2, <1>7, <1>9, <1>10 DEF x, y

LEMMA WriteLeaves ==
  ASSUME Typed, NEW c \in Clients, WriteFile(c)
  PROVE  /\ Busy(c) /\ Job(c).do = "write" /\ Job(c) \in WriteJobs /\ Job(c).id \in Ids
         /\ UNCHANGED <<index, issued, alone>>
         /\ IF c \in file[Job(c).id].writers
            THEN /\ kept' = kept \cup (IF Doomed(Job(c).id) THEN {} ELSE Job(c).entry.text.tells)
                 /\ \A i \in Ids \ {Job(c).id} : file'[i] = file[i]
                 /\ file'[Job(c).id].there = file[Job(c).id].there
                 /\ file'[Job(c).id].entry = Job(c).entry
                 /\ file'[Job(c).id].writers = file[Job(c).id].writers \ {c}
            ELSE UNCHANGED <<file, kept>>
         /\ \E b \in Seq(Jobs) : Leaves(c, b, {}) /\ b # <<>> /\ Head(b) = List("index")
<1>1. Busy(c) /\ Job(c).do = "write" /\ Continue(c, <<>>) /\ UNCHANGED <<index, issued, alone>>
  BY DEF WriteFile, Doing, Job
<1>2. Job(c) \in WriteJobs /\ Job(c).id \in Ids
  BY <1>1, HeadIs, JobKinds DEF WriteJobs
<1>3. IF c \in file[Job(c).id].writers
      THEN /\ kept' = kept \cup (IF Doomed(Job(c).id) THEN {} ELSE Job(c).entry.text.tells)
           /\ \A i \in Ids \ {Job(c).id} : file'[i] = file[i]
           /\ file'[Job(c).id].there = file[Job(c).id].there
           /\ file'[Job(c).id].entry = Job(c).entry
           /\ file'[Job(c).id].writers = file[Job(c).id].writers \ {c}
      ELSE UNCHANGED <<file, kept>>
  <2>1. file[Job(c).id] \in Files /\ file \in [Ids -> Files]
    BY <1>2 DEF Typed
  <2> DEFINE f == [file[Job(c).id] EXCEPT !.entry = Job(c).entry, !.writers = @ \ {c}]
  <2>2. /\ f.there = file[Job(c).id].there /\ f.entry = Job(c).entry
        /\ f.writers = file[Job(c).id].writers \ {c}
    BY <2>1 DEF Files
  <2>3. CASE c \in file[Job(c).id].writers
    <3>1. /\ kept' = kept \cup (IF Doomed(Job(c).id) THEN {} ELSE Job(c).entry.text.tells)
          /\ file' = [file EXCEPT ![Job(c).id] = f]
      BY <1>2, <2>1, <2>3 DEF WriteFile
    <3> HIDE DEF f
    <3>2. file'[Job(c).id] = f /\ \A i \in Ids \ {Job(c).id} : file'[i] = file[i]
      BY <1>2, <2>1, <3>1
    <3> QED BY <2>2, <2>3, <3>1, <3>2
  <2>4. CASE c \notin file[Job(c).id].writers
    BY <2>4 DEF WriteFile
  <2> QED BY <2>3, <2>4
<1>4. PICK b \in Seq(Jobs) : Leaves(c, b, {}) /\ b = Tail(agenda[c])
  BY <1>1, LeftNone
<1>5. b # <<>> /\ Head(b) = List("index")
  BY <1>1, <1>4 DEF Typed, AgendaOk, HeadOk, Busy, Job
<1> QED BY <1>1, <1>2, <1>3, <1>4, <1>5

LEMMA UnlinkLeaves ==
  ASSUME Typed, NEW c \in Clients, UnlinkFile(c)
  PROVE  /\ Busy(c) /\ Job(c).do = "unlink" /\ Job(c) \in UnlinkJobs /\ Job(c).id \in Ids
         /\ UNCHANGED <<index, issued, alone>>
         /\ file[Job(c).id].there =>
              /\ file' = [file EXCEPT ![Job(c).id] = Absent]
              /\ kept' = IF Job(c).asked THEN kept \ Written(Job(c).id) ELSE kept
              /\ \E b \in Seq(Jobs) : Leaves(c, b, {List("index")}) /\ b # <<>> /\ Head(b) = List("index")
         /\ ~file[Job(c).id].there =>
              UNCHANGED <<file, kept>> /\ \E b \in Seq(Jobs) : Leaves(c, b, {}) /\ b = Tail(agenda[c])
<1>1. Busy(c) /\ Job(c).do = "unlink" /\ UNCHANGED <<index, issued, alone>>
  BY DEF UnlinkFile, Doing, Job
<1>2. Job(c) \in UnlinkJobs /\ Job(c).id \in Ids
  BY <1>1, HeadIs, JobKinds DEF UnlinkJobs
<1>3. CASE file[Job(c).id].there
  <2>1. /\ Continue(c, <<List("index")>>)
        /\ file' = [file EXCEPT ![Job(c).id] = Absent]
        /\ kept' = IF Job(c).asked THEN kept \ Written(Job(c).id) ELSE kept
    BY <1>3 DEF UnlinkFile, Unlinked, Rebuild
  <2>2. List("index") \in Jobs
    BY ListJobIs DEF Purposes
  <2>3. PICK b \in Seq(Jobs) : Leaves(c, b, {List("index")}) /\ b # <<>> /\ Head(b) = List("index")
    BY <1>1, <2>1, <2>2, LeftOne
  <2> QED BY <1>1, <1>2, <1>3, <2>1, <2>3
<1>4. CASE ~file[Job(c).id].there
  <2>1. Continue(c, <<>>) /\ UNCHANGED <<file, kept>>
    BY <1>4 DEF UnlinkFile
  <2> QED BY <1>1, <1>2, <1>4, <2>1, LeftNone
<1> QED BY <1>3, <1>4

LEMMA ListLeaves ==
  ASSUME Typed, NEW c \in Clients, ListFiles(c)
  PROVE  /\ Busy(c) /\ Job(c).do = "list" /\ Job(c).purpose \in Purposes
         /\ UNCHANGED <<file, index, issued, kept, alone>>
         /\ \E b \in Seq(Jobs), all \in SUBSET Listings :
              LET left == IF Job(c).purpose = "index" THEN {} ELSE Present
              IN /\ Leaves(c, b, {Load(Job(c).purpose, left, all)})
                 /\ b # <<>> /\ Head(b) = Load(Job(c).purpose, left, all)
                 /\ Job(c).purpose # "index" => all = {}
                 /\ \A e \in all : e.id \in Present /\ e.entry = file[e.id].entry
<1>1. Busy(c) /\ Job(c).do = "list" /\ UNCHANGED <<file, index, issued, kept, alone>>
  BY DEF ListFiles, Doing, Job
<1>2. Job(c).purpose \in Purposes
  BY <1>1, HeadIs, JobKinds DEF ListJobs
<1>3. Present \in SUBSET Ids
  BY DEF Present
<1>4. CASE Job(c).purpose = "index"
  <2> DEFINE x == Load("index", {}, Held(Present))
  <2>1. /\ Held(Present) \in SUBSET Listings
        /\ \A e \in Held(Present) : e.id \in Present /\ e.entry = file[e.id].entry
    BY <1>3, HeldIs
  <2>2. x \in Jobs
    BY <2>1 DEF Load, Jobs, LoadJobs, Purposes
  <2>3. Continue(c, <<x>>)
    BY <1>4 DEF ListFiles
  <2> HIDE DEF x
  <2>4. PICK b \in Seq(Jobs) : Leaves(c, b, {x}) /\ b # <<>> /\ Head(b) = x
    BY <1>1, <2>2, <2>3, LeftOne
  <2> QED BY <1>1, <1>2, <1>4, <2>1, <2>4 DEF x
<1>5. CASE Job(c).purpose # "index"
  <2> DEFINE x == Load(Job(c).purpose, Present, {})
  <2>1. {} \in SUBSET Listings
    OBVIOUS
  <2>2. x \in Jobs
    BY <1>2, <1>3 DEF Load, Jobs, LoadJobs
  <2>3. Continue(c, <<x>>)
    BY <1>5 DEF ListFiles
  <2> HIDE DEF x
  <2>4. PICK b \in Seq(Jobs) : Leaves(c, b, {x}) /\ b # <<>> /\ Head(b) = x
    BY <1>1, <2>2, <2>3, LeftOne
  <2> QED BY <1>1, <1>2, <1>5, <2>1, <2>4 DEF x
<1> QED BY <1>4, <1>5

LEMMA LoadLeaves ==
  ASSUME Typed, NEW c \in Clients, LoadEntry(c)
  PROVE  /\ Busy(c) /\ Doing(c, "load") /\ Job(c).do = "load" /\ Job(c) \in LoadJobs
         /\ Job(c).purpose # "index" /\ Job(c).left \in SUBSET Ids /\ Job(c).all \in SUBSET Listings
         /\ UNCHANGED <<file, index, issued, kept, alone>>
         /\ \E id \in Job(c).left, b \in Seq(Jobs) :
              LET x == Load(Job(c).purpose, Job(c).left \ {id}, Job(c).all \cup Held({id}))
              IN Leaves(c, b, {x}) /\ b # <<>> /\ Head(b) = x
<1>1. /\ Busy(c) /\ Doing(c, "load") /\ Job(c).do = "load" /\ Job(c).left # {}
      /\ UNCHANGED <<file, index, issued, kept, alone>>
  BY DEF LoadEntry, Doing, Job
<1>2. /\ Job(c) \in LoadJobs /\ LoadOk(Job(c)) /\ Job(c).left \in SUBSET Ids
      /\ Job(c).all \in SUBSET Listings
  BY <1>1, LoadedIs
<1>3. Job(c).purpose \in Purposes /\ Job(c).purpose # "index"
  BY <1>1, <1>2 DEF LoadOk, LoadJobs
<1>4. PICK id \in Job(c).left :
        Continue(c, <<Load(Job(c).purpose, Job(c).left \ {id}, Job(c).all \cup Held({id}))>>)
  BY DEF LoadEntry
<1> DEFINE left == Job(c).left \ {id}
           all == Job(c).all \cup Held({id})
           x == Load(Job(c).purpose, left, all)
<1>5. left \in SUBSET Ids /\ all \in SUBSET Listings
  <2>1. {id} \in SUBSET Ids
    BY <1>2
  <2>2. Held({id}) \in SUBSET Listings
    BY <2>1, HeldIs
  <2> QED BY <1>2, <2>2
<1>6. Continue(c, <<x>>)
  BY <1>4
<1> HIDE DEF left, all
<1>7. x \in Jobs
  BY <1>3, <1>5 DEF Load, Jobs, LoadJobs
<1> HIDE DEF x
<1>8. PICK b \in Seq(Jobs) : Leaves(c, b, {x}) /\ b # <<>> /\ Head(b) = x
  BY <1>1, <1>6, <1>7, LeftOne
<1>9. \E i \in Job(c).left, d \in Seq(Jobs) :
        LET y == Load(Job(c).purpose, Job(c).left \ {i}, Job(c).all \cup Held({i}))
        IN Leaves(c, d, {y}) /\ d # <<>> /\ Head(d) = y
  BY <1>4, <1>8 DEF x, left, all
<1> QED BY <1>1, <1>2, <1>3, <1>9

LEMMA RebuildLeaves ==
  ASSUME Typed, NEW c \in Clients, RebuildIndex(c)
  PROVE  /\ Busy(c) /\ Job(c).do = "load" /\ Job(c).purpose = "index"
         /\ UNCHANGED <<file, issued, kept, alone>> /\ index' = IdsOf(Job(c).all)
         /\ \E b \in Seq(Jobs) : Leaves(c, b, {}) /\ b = Tail(agenda[c])
<1>1. /\ Busy(c) /\ Job(c).do = "load" /\ Job(c).purpose = "index" /\ Continue(c, <<>>)
      /\ index' = IdsOf(Job(c).all) /\ UNCHANGED <<file, issued, kept, alone>>
  BY DEF RebuildIndex, Listed, Doing, Job
<1> QED BY <1>1, LeftNone

LEMMA CountLeaves ==
  ASSUME Typed, Count
  PROVE  /\ Busy(Dreamer) /\ Job(Dreamer).do = "load" /\ Job(Dreamer).purpose = "count"
         /\ UNCHANGED <<file, index, issued, kept, alone>>
         /\ \E b \in Seq(Jobs) : Leaves(Dreamer, b, {}) /\ b = Tail(agenda[Dreamer])
<1>1. /\ Busy(Dreamer) /\ Job(Dreamer).do = "load" /\ Job(Dreamer).purpose = "count"
      /\ Continue(Dreamer, <<>>) /\ UNCHANGED <<file, index, issued, kept, alone>>
  BY DEF Count, Listed, Doing, Job
<1> QED BY <1>1, LeftNone, ClientsAssumption

LEMMA DreamLeaves ==
  ASSUME Typed, DecideDream
  PROVE  /\ Busy(Dreamer) /\ Job(Dreamer).do = "load" /\ Job(Dreamer).purpose = "dream"
         /\ Job(Dreamer).left = {} /\ UNCHANGED <<file, index, issued, alone>>
         /\ \A y \in Rest(Dreamer) : y = List("model")
         /\ \E won \in SUBSET Job(Dreamer).all, b \in Seq(Jobs) :
              /\ Winners(Job(Dreamer).all, won)
              /\ kept' = kept \ Overlooked(Job(Dreamer).all \ won, won)
              /\ Leaves(Dreamer, b, DreamPlan(Job(Dreamer).all, won))
<1>1. PICK won \in SUBSET Job(Dreamer).all, jobs \in Seq(Jobs) :
        /\ Winners(Job(Dreamer).all, won) /\ Continue(Dreamer, jobs)
        /\ kept' = kept \ Overlooked(Job(Dreamer).all \ won, won)
        /\ JobsOf(jobs) = DreamPlan(Job(Dreamer).all, won)
  BY DreamPlanned
<1>2. /\ Dreamer \in Clients /\ Busy(Dreamer) /\ Job(Dreamer).do = "load"
      /\ Job(Dreamer).purpose = "dream" /\ Job(Dreamer).left = {}
      /\ UNCHANGED <<file, index, issued, alone>>
      /\ \A y \in Rest(Dreamer) : y = List("model")
  BY DreamPlanned DEF Rest
<1>3. PICK b \in Seq(Jobs) : Leaves(Dreamer, b, JobsOf(jobs))
  BY <1>1, <1>2, Left
<1> QED BY <1>1, <1>2, <1>3

LEMMA ModelLeaves ==
  ASSUME Typed, ModelVerdicts
  PROVE  /\ Busy(Dreamer) /\ Job(Dreamer).do = "load" /\ Job(Dreamer).purpose = "model"
         /\ UNCHANGED <<file, index, issued, kept, alone>> /\ Rest(Dreamer) = {}
         /\ \E ids \in SUBSET IdsOf(Job(Dreamer).all), b \in Seq(Jobs) :
              \/ Leaves(Dreamer, b, {})
              \/ Leaves(Dreamer, b, {Unlink(id, TRUE) : id \in ids} \cup {List("index")})
<1>1. /\ Dreamer \in Clients /\ Busy(Dreamer) /\ Job(Dreamer).do = "load"
      /\ Job(Dreamer).purpose = "model" /\ UNCHANGED <<file, index, issued, kept, alone>>
  BY ModelPlanned DEF Doing
<1>2. Rest(Dreamer) = {}
  BY <1>1, NothingFollows DEF Rest, Lists
<1>3. CASE Continue(Dreamer, <<>>)
  <2>1. PICK b \in Seq(Jobs) : Leaves(Dreamer, b, {}) /\ b = Tail(agenda[Dreamer])
    BY <1>1, <1>3, LeftNone
  <2> QED BY <1>1, <1>2, <2>1
<1>4. ASSUME NEW ids \in SUBSET IdsOf(Job(Dreamer).all), NEW jobs \in Seq(Jobs),
             Continue(Dreamer, jobs),
             JobsOf(jobs) = {Unlink(id, TRUE) : id \in ids} \cup {List("index")}
      PROVE  \E b \in Seq(Jobs) :
               Leaves(Dreamer, b, {Unlink(id, TRUE) : id \in ids} \cup {List("index")})
  <2>1. PICK b \in Seq(Jobs) : Leaves(Dreamer, b, JobsOf(jobs))
    BY <1>1, <1>4, Left
  <2> QED BY <1>4, <2>1
<1>5. CASE ~Continue(Dreamer, <<>>)
  <2>1. PICK ids \in SUBSET IdsOf(Job(Dreamer).all), jobs \in Seq(Jobs) :
             /\ Continue(Dreamer, jobs)
             /\ JobsOf(jobs) = {Unlink(id, TRUE) : id \in ids} \cup {List("index")}
    BY <1>5, ModelPlanned
  <2> QED BY <1>1, <1>2, <1>4, <2>1
<1> QED BY <1>3, <1>5

LEMMA ClustersLeave ==
  ASSUME Typed, DecideClusters
  PROVE  /\ Busy(Dreamer) /\ Job(Dreamer).do = "load" /\ Job(Dreamer).purpose = "clusters"
         /\ UNCHANGED <<file, index, issued, kept, alone>> /\ Rest(Dreamer) = {}
         /\ \E jobs, b \in Seq(Jobs) :
              /\ Leaves(Dreamer, b, JobsOf(jobs))
              /\ \A x \in JobsOf(jobs) :
                   \/ \E id \in IdsOf(Job(Dreamer).all) : x = Unlink(id, TRUE)
                   \/ x.do = "summarize" /\ x.cluster \subseteq Job(Dreamer).all
<1>1. /\ Dreamer \in Clients /\ Busy(Dreamer) /\ Job(Dreamer).do = "load"
      /\ Job(Dreamer).purpose = "clusters" /\ UNCHANGED <<file, index, issued, kept, alone>>
  BY ClustersPlanned, ClientsAssumption DEF Doing
<1>2. Rest(Dreamer) = {}
  BY <1>1, NothingFollows DEF Rest, Lists
<1>3. PICK jobs \in Seq(Jobs) :
        /\ Continue(Dreamer, jobs)
        /\ \A x \in JobsOf(jobs) :
             \/ \E id \in IdsOf(Job(Dreamer).all) : x = Unlink(id, TRUE)
             \/ x.do = "summarize" /\ x.cluster \subseteq Job(Dreamer).all
  BY ClustersPlanned
<1>4. PICK b \in Seq(Jobs) : Leaves(Dreamer, b, JobsOf(jobs))
  BY <1>1, <1>3, Left
<1> QED BY <1>1, <1>2, <1>3, <1>4

LEMMA ClusterLeaves ==
  ASSUME Typed, SummarizeCluster
  PROVE  /\ Busy(Dreamer) /\ Job(Dreamer).do = "summarize" /\ Job(Dreamer) \in SummarizeJobs
         /\ issued \in Int /\ issued + 1 \in Ids /\ issued' = issued + 1
         /\ UNCHANGED <<file, index, alone>>
         /\ \A y \in Rest(Dreamer) : y.do = "summarize"
         /\ \E told \in SUBSET Facts, b \in Seq(Jobs) :
              /\ kept' = kept \ (WrittenIn(Job(Dreamer).cluster) \ told)
              /\ Leaves(Dreamer, b, {Open(issued + 1, Summary(told))}
                                      \cup {Unlink(id, FALSE) : id \in IdsOf(Job(Dreamer).cluster)})
              /\ b # <<>> /\ Head(b) = Open(issued + 1, Summary(told))
<1>1. /\ Busy(Dreamer) /\ Job(Dreamer).do = "summarize" /\ Job(Dreamer) \in SummarizeJobs
      /\ issued \in Int /\ issued + 1 \in Ids /\ issued' = issued + 1
      /\ UNCHANGED <<file, index, alone>> /\ Dreamer \in Clients
  BY ClusterMerged, ClientsAssumption
<1>2. PICK told \in SUBSET Facts, jobs \in Seq(Jobs) :
        /\ kept' = kept \ (WrittenIn(Job(Dreamer).cluster) \ told)
        /\ Continue(Dreamer, jobs)
        /\ JobsOf(jobs) = {Open(issued + 1, Summary(told))}
                            \cup {Unlink(id, FALSE) : id \in IdsOf(Job(Dreamer).cluster)}
        /\ jobs # <<>> /\ Head(jobs) = Open(issued + 1, Summary(told))
  BY ClusterMerged
<1> DEFINE x == Open(issued + 1, Summary(told))
           plan == {x} \cup {Unlink(id, FALSE) : id \in IdsOf(Job(Dreamer).cluster)}
<1>3. JobsOf(jobs) = plan /\ jobs # <<>> /\ Head(jobs) = x
  BY <1>2
<1> HIDE DEF x, plan
<1>4. PICK b \in Seq(Jobs) :
           /\ Leaves(Dreamer, b, JobsOf(jobs))
           /\ jobs # <<>> =>
                b # <<>> /\ Head(b) = Head(jobs) /\ Tail(b) = Tail(jobs) \o Tail(agenda[Dreamer])
           /\ jobs = <<>> => b = Tail(agenda[Dreamer])
  BY <1>1, <1>2, Left
<1>5. \A y \in Rest(Dreamer) : y.do = "summarize"
  BY <1>1, RestIs DEF MayPrecede
<1>6. Leaves(Dreamer, b, plan) /\ b # <<>> /\ Head(b) = x
  BY <1>3, <1>4
<1> QED BY <1>1, <1>2, <1>5, <1>6 DEF x, plan

LEMMA FailureLeaves ==
  ASSUME Typed, SummaryFails
  PROVE  /\ Busy(Dreamer) /\ Job(Dreamer).do = "summarize"
         /\ UNCHANGED <<file, index, issued, kept, alone>>
         /\ \E b \in Seq(Jobs) :
              /\ agenda' = [agenda EXCEPT ![Dreamer] = b]
              /\ \A x \in JobsOf(b) : x \in Rest(Dreamer)
              /\ \A x \in JobsOf(b) : x.do = "summarize"
              /\ b # <<>> => Head(b) \in JobsOf(b)
<1>1. /\ Busy(Dreamer) /\ Job(Dreamer).do = "summarize" /\ Dreamer \in Clients
      /\ UNCHANGED <<file, index, issued, kept, alone>>
  BY ClientsAssumption DEF SummaryFails, Doing, Job
<1>2. CASE Continue(Dreamer, <<>>)
  <2>1. PICK b \in Seq(Jobs) : Leaves(Dreamer, b, {}) /\ b = Tail(agenda[Dreamer])
    BY <1>1, <1>2, LeftNone
  <2>2. JobsOf(b) = Rest(Dreamer) /\ agenda' = [agenda EXCEPT ![Dreamer] = b]
        /\ (b # <<>> => Head(b) \in JobsOf(b))
    BY <2>1 DEF Leaves
  <2>3. \A x \in Rest(Dreamer) : x.do = "summarize"
    BY <1>1, RestIs DEF MayPrecede
  <2> QED BY <1>1, <2>2, <2>3
<1>3. CASE agenda' = [agenda EXCEPT ![Dreamer] = <<>>]
  <2> DEFINE b == <<>>
  <2>1. b \in Seq(Jobs) /\ JobsOf(b) = {} /\ b = <<>>
    BY NothingIs
  <2>2. agenda' = [agenda EXCEPT ![Dreamer] = b]
    BY <1>3
  <2> HIDE DEF b
  <2> QED BY <1>1, <2>1, <2>2
<1> QED BY <1>2, <1>3 DEF SummaryFails

-----------------------------------------------------------------------------
(* What a consolidation comes to, step by step. *)

LEMMA EntriesTyped ==
  ASSUME Typed
  PROVE  /\ \A id \in Ids : file[id] \in Files /\ file[id].entry \in Entries
         /\ \A id \in Ids : id \in Present <=> file[id].there
BY DEF Typed, Files, Present

\* Steps of the consolidating client that leave the files alone and plan no saves or deletes.
LEMMA QuietClean ==
  ASSUME Typed, IndexInv, DreamInv, NEW c \in Clients, Busy(c), NEW b \in Seq(Jobs), NEW jobs,
         Leaves(c, b, jobs), UNCHANGED <<file, alone>>,
         ~Saves(Job(c)), Job(c).do # "unlink",
         \A x \in jobs : x.do \in {"list", "load"},
         Counts(b) => Counts(agenda[c]),
         b # <<>> => Head(b).do # "write",
         alone /\ c = Dreamer /\ b # <<>> /\ Head(b).do = "load" /\ Head(b).purpose \in {"dream", "count"}
           => ReadsFiles(Head(b))
  PROVE  DreamInv'
<1>1. agenda' = [agenda EXCEPT ![c] = b] /\ JobsOf(b) = jobs \cup Rest(c)
  BY DEF Leaves
<1>2. JobsOf(agenda[c]) = {Job(c)} \cup Rest(c)
  BY RestIs
<1>3. ASSUME alone, c = Dreamer, b # <<>> PROVE DreamOk(b)'
  <2>1. DreamOk(agenda[c])
    BY <1>3 DEF DreamInv
  <2>2. ASSUME Counts(b) PROVE CleanEnd(b)'
    <3>1. CleanEnd(agenda[c])
      BY <2>1, <2>2 DEF DreamOk
    <3>2. ASSUME NEW i \in Ids, NEW e \in Entries, EndsAs(b, i, e)'
          PROVE  EndsAs(agenda[c], i, e)
      <4>1. \A x \in JobsOf(agenda[c]) : x.do = "unlink" \/ Saves(x) => x \in JobsOf(b)
        BY <1>1, <1>2
      <4>2. \A x \in JobsOf(b) : Saves(x) => x \in JobsOf(agenda[c])
        BY <1>1, <1>2 DEF Saves
      <4>3. ~Deletes(agenda[c], i)
        BY <3>2, <4>1 DEF EndsAs, Deletes
      <4> QED BY <3>2, <4>1, <4>2, <4>3 DEF EndsAs, SavesAs
    <3> QED BY <3>1, <3>2, EndsKept
  <2>3. ReadsFiles(Head(b)) => ReadsFiles(Head(b))'
    BY DEF ReadsFiles, Present
  <2> QED BY <1>3, <2>2, <2>3 DEF DreamOk
<1> QED BY <1>1, <1>3, DreamerClean

LEMMA OpenClean ==
  ASSUME Typed, IndexInv, DreamInv, NEW c \in Clients, OpenFile(c)
  PROVE  DreamInv'
<1> DEFINE j == Job(c)
           x == Write(j.id, j.entry)
           f == [there |-> TRUE, entry |-> Entry(Blank, 2), writers |-> file[j.id].writers \cup {c}]
<1>1. /\ Busy(c) /\ j.do = "open" /\ j.id \in Ids /\ alone' = alone
      /\ file' = [file EXCEPT ![j.id] = f]
  BY OpenLeaves
<1>2. PICK b \in Seq(Jobs) : Leaves(c, b, {x, List("index")}) /\ b # <<>> /\ Head(b) = x
  BY OpenLeaves
<1>3. x.do = "write" /\ x.id = j.id /\ x.entry = j.entry /\ List("index").do = "list"
      /\ List("index").purpose = "index"
  BY DEF Write, List
<1>4. /\ agenda' = [agenda EXCEPT ![c] = b] /\ JobsOf(b) = {x, List("index")} \cup Rest(c)
      /\ JobsOf(agenda[c]) = {j} \cup Rest(c)
  BY <1>1, <1>2, RestIs DEF Leaves
<1>5. file'[j.id].writers = file[j.id].writers \cup {c}
      /\ \A i \in Ids \ {j.id} : file'[i] = file[i]
  BY <1>1 DEF Typed
<1> HIDE DEF x, j, f
<1>6. ASSUME alone, c = Dreamer PROVE DreamOk(b)'
  <2>1. DreamOk(agenda[c])
    BY <1>1, <1>6 DEF DreamInv
  <2>2. ASSUME Counts(b) PROVE CleanEnd(b)'
    <3>1. Counts(agenda[c])
      BY <1>3, <1>4, <2>2 DEF Counts, Lists
    <3>2. CleanEnd(agenda[c])
      BY <2>1, <3>1 DEF DreamOk
    <3>3. ASSUME NEW i \in Ids, NEW e \in Entries, EndsAs(b, i, e)'
          PROVE  EndsAs(agenda[c], i, e)
      <4>1. ~Deletes(agenda[c], i)
        BY <1>1, <1>4, <3>3 DEF EndsAs, Deletes
      <4>2. CASE SavesAs(b, i, e)
        BY <1>1, <1>3, <1>4, <4>1, <4>2 DEF EndsAs, SavesAs, Saves
      <4>3. CASE ~SavesAs(b, i, e)
        <5>1. /\ \A y \in JobsOf(b) : Saves(y) => y.id # i
              /\ file'[i].there /\ file'[i].entry = e
          BY <3>3, <4>3 DEF EndsAs, SavesAs
        <5>2. i # j.id
          BY <1>3, <1>4, <5>1 DEF Saves
        <5>3. \A y \in JobsOf(agenda[c]) : Saves(y) => y.id # i
          BY <1>4, <5>1, <5>2
        <5> QED BY <1>5, <4>1, <5>1, <5>2, <5>3 DEF EndsAs
      <4> QED BY <4>2, <4>3
    <3> QED BY <3>2, <3>3, EndsKept
  <2>3. Head(b).do = "write" /\ Dreamer \in file'[Head(b).id].writers
    BY <1>2, <1>3, <1>5, <1>6
  <2> QED BY <2>2, <2>3 DEF DreamOk
<1> QED BY <1>1, <1>4, <1>6, DreamerClean

LEMMA WriteClean ==
  ASSUME Typed, IndexInv, DreamInv, NEW c \in Clients, WriteFile(c)
  PROVE  DreamInv'
<1> DEFINE j == Job(c)
<1>1. Busy(c) /\ j.do = "write" /\ j.id \in Ids /\ alone' = alone /\ j \in Jobs
  BY WriteLeaves, RestIs
<1>2. PICK b \in Seq(Jobs) : Leaves(c, b, {}) /\ b # <<>> /\ Head(b) = List("index")
  BY WriteLeaves
<1>3. /\ agenda' = [agenda EXCEPT ![c] = b] /\ JobsOf(b) = Rest(c)
      /\ JobsOf(agenda[c]) = {j} \cup Rest(c)
      /\ \A y \in Rest(c) : MayPrecede(j, y)
  BY <1>1, <1>2, RestIs DEF Leaves
<1>4. c \in file[j.id].writers =>
        /\ \A i \in Ids \ {j.id} : file'[i] = file[i]
        /\ file'[j.id].entry = j.entry
  BY WriteLeaves
<1>5. Head(agenda[c]) = j
  BY DEF Job
<1> HIDE DEF j
<1>6. ASSUME alone, c = Dreamer PROVE DreamOk(b)'
  <2>1. DreamOk(agenda[c])
    BY <1>1, <1>6 DEF DreamInv
  <2>2. c \in file[j.id].writers
    BY <1>1, <1>5, <1>6, <2>1 DEF DreamOk
  <2>3. ASSUME Counts(b) PROVE CleanEnd(b)'
    <3>1. Counts(agenda[c])
      BY <1>3, <2>3 DEF Counts
    <3>2. CleanEnd(agenda[c])
      BY <2>1, <3>1 DEF DreamOk
    <3>3. ASSUME NEW i \in Ids, NEW e \in Entries, EndsAs(b, i, e)'
          PROVE  EndsAs(agenda[c], i, e)
      <4>1. ~Deletes(agenda[c], i)
        BY <1>1, <1>3, <3>3 DEF EndsAs, Deletes
      <4>2. CASE SavesAs(b, i, e)
        BY <1>3, <4>1, <4>2 DEF EndsAs, SavesAs
      <4>3. CASE ~SavesAs(b, i, e)
        <5>1. /\ \A y \in JobsOf(b) : Saves(y) => y.id # i
              /\ file'[i].there /\ file'[i].entry = e
          BY <3>3, <4>3 DEF EndsAs, SavesAs
        <5>2. CASE i = j.id
          <6>1. Saves(j) /\ j.id = i /\ j.entry = e
            BY <1>1, <1>4, <2>2, <5>1, <5>2 DEF Saves
          <6>2. SavesAs(agenda[c], i, e)
            BY <1>3, <6>1 DEF SavesAs
          <6> QED BY <4>1, <6>2 DEF EndsAs
        <5>3. CASE i # j.id
          <6>1. \A y \in JobsOf(agenda[c]) : Saves(y) => y.id # i
            BY <1>3, <5>1, <5>3
          <6> QED BY <1>4, <2>2, <4>1, <5>1, <5>3, <6>1 DEF EndsAs
        <5> QED BY <5>2, <5>3
      <4> QED BY <4>2, <4>3
    <3> QED BY <3>2, <3>3, EndsKept
  <2>4. Head(b).do = "list"
    BY <1>2 DEF List
  <2> QED BY <2>3, <2>4 DEF DreamOk
<1> QED BY <1>1, <1>3, <1>6, DreamerClean

LEMMA UnlinkClean ==
  ASSUME Typed, IndexInv, DreamInv, NEW c \in Clients, UnlinkFile(c)
  PROVE  DreamInv'
<1> DEFINE j == Job(c)
<1>1. Busy(c) /\ j.do = "unlink" /\ j.id \in Ids /\ alone' = alone
  BY UnlinkLeaves
<1>2. PICK b \in Seq(Jobs), jobs \in SUBSET {List("index")} : Leaves(c, b, jobs)
  <2>1. CASE file[j.id].there
    <3>1. PICK b \in Seq(Jobs) : Leaves(c, b, {List("index")})
      BY <2>1, UnlinkLeaves
    <3> QED BY <3>1
  <2>2. CASE ~file[j.id].there
    <3>1. PICK b \in Seq(Jobs) : Leaves(c, b, {})
      BY <2>2, UnlinkLeaves
    <3> QED BY <3>1
  <2> QED BY <2>1, <2>2
<1>3. /\ agenda' = [agenda EXCEPT ![c] = b] /\ JobsOf(b) = jobs \cup Rest(c)
      /\ JobsOf(agenda[c]) = {j} \cup Rest(c) /\ (b # <<>> => Head(b) \in JobsOf(b))
      /\ \A y \in Rest(c) : MayPrecede(j, y)
  BY <1>1, <1>2, RestIs DEF Leaves
<1>4. /\ \A i \in Ids \ {j.id} : file'[i] = file[i]
      /\ ~file'[j.id].there
  <2>1. file \in [Ids -> Files]
    BY DEF Typed
  <2>2. CASE file[j.id].there
    <3>1. file' = [file EXCEPT ![j.id] = Absent]
      BY <2>2, UnlinkLeaves
    <3>2. file'[j.id] = Absent
      BY <1>1, <2>1, <3>1
    <3> QED BY <2>1, <3>1, <3>2 DEF Absent
  <2>3. CASE ~file[j.id].there
    <3>1. file' = file
      BY <2>3, UnlinkLeaves
    <3> QED BY <2>3, <3>1
  <2> QED BY <2>2, <2>3
<1>5. \A x \in jobs : x.do = "list" /\ ~Lists(x, {"count"})
  BY DEF List, Lists
<1> HIDE DEF j
<1>6. ASSUME alone, c = Dreamer, b # <<>> PROVE DreamOk(b)'
  <2>1. DreamOk(agenda[c])
    BY <1>1, <1>6 DEF DreamInv
  <2>2. ASSUME Counts(b) PROVE CleanEnd(b)'
    <3>1. Counts(agenda[c])
      BY <1>3, <1>5, <2>2 DEF Counts
    <3>2. CleanEnd(agenda[c])
      BY <2>1, <3>1 DEF DreamOk
    <3>3. \A y \in JobsOf(b) : Saves(y) => y \in Rest(c) /\ y.id # j.id
      <4>1. \A y \in Rest(c) : Saves(y) => y.do = "open" /\ y.id # j.id
        BY <1>1, <1>3 DEF Saves, MayPrecede
      <4> QED BY <1>3, <1>5, <4>1 DEF Saves
    <3>4. ASSUME NEW i \in Ids, NEW e \in Entries, EndsAs(b, i, e)'
          PROVE  EndsAs(agenda[c], i, e)
      <4>1. i # j.id
        BY <1>4, <3>3, <3>4 DEF EndsAs, SavesAs
      <4>2. ~Deletes(agenda[c], i)
        BY <1>3, <3>4, <4>1 DEF EndsAs, Deletes
      <4>3. CASE SavesAs(b, i, e)
        BY <1>3, <3>3, <4>2, <4>3 DEF EndsAs, SavesAs
      <4>4. CASE ~SavesAs(b, i, e)
        <5>1. /\ \A y \in JobsOf(b) : Saves(y) => y.id # i
              /\ file'[i].there /\ file'[i].entry = e
          BY <3>4, <4>4 DEF EndsAs, SavesAs
        <5>2. \A y \in JobsOf(agenda[c]) : Saves(y) => y.id # i
          BY <1>1, <1>3, <5>1 DEF Saves
        <5> QED BY <1>4, <4>1, <4>2, <5>1, <5>2 DEF EndsAs
      <4> QED BY <4>3, <4>4
    <3> QED BY <3>2, <3>4, EndsKept
  <2>3. Head(b).do \notin {"write", "load"}
    BY <1>3, <1>5, <1>6 DEF MayPrecede
  <2> QED BY <2>2, <2>3, PlanClean
<1> QED BY <1>1, <1>3, <1>6, DreamerClean

LEMMA ListClean ==
  ASSUME Typed, IndexInv, DreamInv, NEW c \in Clients, ListFiles(c)
  PROVE  DreamInv'
<1> DEFINE left == IF Job(c).purpose = "index" THEN {} ELSE Present
<1>1. Busy(c) /\ Job(c).do = "list" /\ UNCHANGED <<file, alone>>
  BY ListLeaves
<1>2. PICK b \in Seq(Jobs), all \in SUBSET Listings :
        /\ Leaves(c, b, {Load(Job(c).purpose, left, all)})
        /\ b # <<>> /\ Head(b) = Load(Job(c).purpose, left, all)
        /\ Job(c).purpose # "index" => all = {}
        /\ \A e \in all : e.id \in Present /\ e.entry = file[e.id].entry
  BY ListLeaves
<1> DEFINE x == Load(Job(c).purpose, left, all)
<1>3. x.do = "load" /\ x.purpose = Job(c).purpose /\ x.left = left /\ x.all = all
  BY DEF Load
<1>4. Job(c).purpose # "index" => left = Present /\ all = {}
  BY <1>2
<1>5. Leaves(c, b, {x}) /\ b # <<>> /\ Head(b) = x
  BY <1>2
<1> HIDE DEF x, left
<1>6. ~Saves(Job(c)) /\ Job(c).do # "unlink" /\ Head(b).do # "write"
      /\ \A y \in {x} : y.do \in {"list", "load"}
  BY <1>1, <1>3, <1>5 DEF Saves
<1>7. Counts(b) => Counts(agenda[c])
  <2>1. JobsOf(b) = {x} \cup Rest(c) /\ JobsOf(agenda[c]) = {Job(c)} \cup Rest(c)
    BY <1>1, <1>5, RestIs DEF Leaves
  <2>2. Lists(x, {"count"}) => Lists(Job(c), {"count"})
    BY <1>1, <1>3 DEF Lists
  <2> QED BY <2>1, <2>2 DEF Counts
<1>8. x.purpose # "index" => ReadsFiles(x)
  BY <1>3, <1>4 DEF ReadsFiles, IdsOf
<1>9. Head(b).do = "load" /\ Head(b).purpose \in {"dream", "count"} => ReadsFiles(Head(b))
  BY <1>5, <1>8
<1> QED BY <1>1, <1>5, <1>6, <1>7, <1>9, QuietClean

LEMMA LoadClean ==
  ASSUME Typed, IndexInv, DreamInv, NEW c \in Clients, LoadEntry(c)
  PROVE  DreamInv'
<1> DEFINE j == Job(c)
<1>1. /\ Busy(c) /\ j.do = "load" /\ j.left \in SUBSET Ids /\ j.all \in SUBSET Listings
      /\ UNCHANGED <<file, alone>>
  BY LoadLeaves
<1>2. PICK id \in j.left, b \in Seq(Jobs) :
        LET y == Load(j.purpose, j.left \ {id}, j.all \cup Held({id}))
        IN Leaves(c, b, {y}) /\ b # <<>> /\ Head(b) = y
  BY LoadLeaves
<1> DEFINE x == Load(j.purpose, j.left \ {id}, j.all \cup Held({id}))
<1>3. /\ x.do = "load" /\ x.purpose = j.purpose /\ x.left = j.left \ {id}
      /\ x.all = j.all \cup Held({id})
  BY DEF Load
<1>4. Leaves(c, b, {x}) /\ b # <<>> /\ Head(b) = x
  BY <1>2
<1> HIDE DEF x
<1>5. ~Saves(Job(c)) /\ Job(c).do # "unlink" /\ Head(b).do # "write"
      /\ \A y \in {x} : y.do \in {"list", "load"}
  BY <1>1, <1>3, <1>4 DEF Saves
<1>6. Counts(b) => Counts(agenda[c])
  <2>1. JobsOf(b) = {x} \cup Rest(c) /\ JobsOf(agenda[c]) = {Job(c)} \cup Rest(c)
    BY <1>1, <1>4, RestIs DEF Leaves
  <2>2. Lists(x, {"count"}) => Lists(Job(c), {"count"})
    BY <1>1, <1>3 DEF Lists
  <2> QED BY <2>1, <2>2 DEF Counts
<1>7. ASSUME alone, c = Dreamer, x.purpose \in {"dream", "count"}
      PROVE  ReadsFiles(x)
  <2>1. ReadsFiles(j)
    <3>1. DreamOk(agenda[c])
      BY <1>1, <1>7 DEF DreamInv
    <3> QED BY <1>1, <1>3, <1>7, <3>1 DEF DreamOk, Job
  <2>2. {id} \in SUBSET Ids
    BY <1>1
  <2>3. /\ \A e \in Held({id}) : e.id \in {id} /\ file[e.id].there /\ e.entry = file[e.id].entry
        /\ IdsOf(Held({id})) = {i \in {id} : file[i].there}
    BY <2>2, HeldIs
  <2>4. file[id].there
    BY <1>1, <2>1, EntriesTyped DEF ReadsFiles
  <2>5. IdsOf(j.all \cup Held({id})) = IdsOf(j.all) \cup {id}
    <3>1. IdsOf(j.all \cup Held({id})) = IdsOf(j.all) \cup IdsOf(Held({id}))
      BY DEF IdsOf
    <3> QED BY <2>3, <2>4, <3>1
  <2>6. x.left \cup IdsOf(x.all) = Present
    <3>1. j.left \cup IdsOf(j.all) = Present /\ id \in j.left
      BY <2>1 DEF ReadsFiles
    <3>2. x.left = j.left \ {id} /\ IdsOf(x.all) = IdsOf(j.all) \cup {id}
      BY <1>3, <2>5
    <3> HIDE DEF j
    <3> QED BY <3>1, <3>2
  <2>7. \A e \in x.all : file[e.id].there /\ file[e.id].entry = e.entry
    BY <1>3, <2>1, <2>3 DEF ReadsFiles
  <2> QED BY <2>6, <2>7 DEF ReadsFiles
<1> QED BY <1>1, <1>4, <1>5, <1>6, <1>7, QuietClean

LEMMA TailClean ==
  ASSUME Typed, IndexInv, DreamInv, NEW c \in Clients, Busy(c), Job(c).do = "load", NEW b \in Seq(Jobs),
         Leaves(c, b, {}), UNCHANGED <<file, alone>>
  PROVE  DreamInv'
<1>1. JobsOf(b) = Rest(c) /\ JobsOf(agenda[c]) = {Job(c)} \cup Rest(c)
      /\ (b # <<>> => Head(b) \in JobsOf(b)) /\ \A y \in Rest(c) : MayPrecede(Job(c), y)
  BY RestIs DEF Leaves
<1>2. Counts(b) => Counts(agenda[c])
  BY <1>1 DEF Counts
<1>3. b # <<>> => Head(b).do \notin {"write", "load"}
  BY <1>1 DEF MayPrecede
<1>4. ~Saves(Job(c)) /\ Job(c).do # "unlink"
  BY DEF Saves
<1> DEFINE jobs == {}
<1>5. Leaves(c, b, jobs) /\ \A x \in jobs : x.do \in {"list", "load"}
  OBVIOUS
<1> HIDE DEF jobs
<1> QED BY <1>2, <1>3, <1>4, <1>5, QuietClean

LEMMA DreamIsClean ==
  ASSUME Typed, IndexInv, DreamInv, DecideDream
  PROVE  DreamInv'
<1> DEFINE all == Job(Dreamer).all
<1>1. /\ Busy(Dreamer) /\ Job(Dreamer).do = "load" /\ Job(Dreamer).purpose = "dream"
      /\ Job(Dreamer).left = {} /\ UNCHANGED <<file, alone>> /\ Dreamer \in Clients
      /\ \A y \in Rest(Dreamer) : y = List("model")
  BY DreamLeaves, ClientsAssumption
<1>2. PICK won \in SUBSET all, b \in Seq(Jobs) :
        Winners(all, won) /\ Leaves(Dreamer, b, DreamPlan(all, won))
  BY DreamLeaves
<1>3. /\ agenda' = [agenda EXCEPT ![Dreamer] = b]
      /\ JobsOf(b) = DreamPlan(all, won) \cup Rest(Dreamer)
      /\ (b # <<>> => Head(b) \in JobsOf(b))
  BY <1>2 DEF Leaves
<1>4. /\ \A d, e \in all : d.id = e.id => d = e
      /\ \A e \in all : e.id \in Ids /\ e.entry \in Entries
  <2>1. Doing(Dreamer, "load")
    BY <1>1 DEF Doing, Job
  <2>2. all \in SUBSET Listings /\ LoadOk(Job(Dreamer))
    BY <1>1, <2>1, LoadedIs
  <2> QED BY <2>2 DEF LoadOk, Listings
<1>5. /\ \A id, asked : Unlink(id, asked).do = "unlink" /\ Unlink(id, asked).id = id
      /\ \A id, entry : /\ Open(id, entry).do = "open" /\ Open(id, entry).id = id
                        /\ Open(id, entry).entry = entry
      /\ \A purpose : List(purpose).do = "list"
  BY DEF Unlink, Open, List
<1>6. \A x \in JobsOf(b) :
        \/ \E id \in Ids, asked \in BOOLEAN : x = Unlink(id, asked)
        \/ \E w \in Relative(won) : x = Open(w.id, Stamped(w.entry))
        \/ \E purpose \in Purposes : x = List(purpose)
  <2>1. \A id \in IdsOf(all \ won) \cup IdsOf(Stale(won)) : id \in Ids
    BY <1>4 DEF IdsOf, Stale
  <2>2. ASSUME NEW x \in DreamPlan(all, won)
        PROVE  \/ \E id \in Ids, asked \in BOOLEAN : x = Unlink(id, asked)
               \/ \E w \in Relative(won) : x = Open(w.id, Stamped(w.entry))
               \/ \E purpose \in Purposes : x = List(purpose)
    BY <2>1, <2>2 DEF DreamPlan, Purposes
  <2>3. List("model") = List("model") /\ "model" \in Purposes
    BY DEF Purposes
  <2> QED BY <1>1, <1>3, <2>2, <2>3
<1>7. ASSUME alone, b # <<>> PROVE DreamOk(b)'
  <2>1. ReadsFiles(Job(Dreamer))
    BY <1>1, <1>7 DEF DreamInv, DreamOk, Job
  <2>2. \A i \in Ids : file[i].there => \E e \in all : e.id = i /\ e.entry = file[i].entry
    BY <1>1, <2>1, EntriesTyped DEF ReadsFiles, IdsOf
  <2> DEFINE
        \* what remains of id comes from a winner
        From(w, i, e) ==
          /\ w \in won /\ w.id = i /\ w.entry.sure # 0
          /\ e = IF w.entry.text.relative THEN Stamped(w.entry) ELSE w.entry
  <2>3. ASSUME NEW i \in Ids, NEW e, EndsAs(b, i, e)'
        PROVE  \E w \in won : From(w, i, e)
    <3>1. /\ \A id \in IdsOf(all \ won) \cup IdsOf(Stale(won)) : id # i
      <4>1. ASSUME NEW id \in IdsOf(all \ won) PROVE id # i
        <5>1. Unlink(id, FALSE) \in JobsOf(b)
          BY <1>3, <4>1 DEF DreamPlan
        <5> QED BY <1>5, <2>3, <5>1 DEF EndsAs, Deletes
      <4>2. ASSUME NEW id \in IdsOf(Stale(won)) PROVE id # i
        <5>1. Unlink(id, TRUE) \in JobsOf(b)
          BY <1>3, <4>2 DEF DreamPlan
        <5> QED BY <1>5, <2>3, <5>1 DEF EndsAs, Deletes
      <4> QED BY <4>1, <4>2
    <3>2. \A w \in won : w.id = i => w.entry.sure # 0
      BY <3>1 DEF IdsOf, Stale
    <3>3. \A w \in all : w.id = i => w \in won
      BY <3>1 DEF IdsOf
    <3>4. CASE SavesAs(b, i, e)
      <4>1. PICK job \in JobsOf(b) : Saves(job) /\ job.id = i /\ job.entry = e
        BY <3>4 DEF SavesAs
      <4>2. PICK w \in Relative(won) : job = Open(w.id, Stamped(w.entry))
        BY <1>5, <1>6, <4>1 DEF Saves
      <4>3. w \in won /\ w.entry.text.relative
        BY <4>2 DEF Relative
      <4>4. w.id = i /\ e = Stamped(w.entry)
        BY <1>5, <4>1, <4>2
      <4> QED BY <3>2, <4>3, <4>4
    <3>5. CASE ~SavesAs(b, i, e)
      <4>1. /\ \A job \in JobsOf(b) : Saves(job) => job.id # i
            /\ file[i].there /\ file[i].entry = e
        BY <1>1, <2>3, <3>5 DEF EndsAs, SavesAs
      <4>2. PICK w \in all : w.id = i /\ w.entry = e
        BY <2>2, <4>1
      <4>3. w \in won
        BY <3>3, <4>2
      <4>4. ~w.entry.text.relative
        <5>1. SUFFICES ASSUME w.entry.text.relative PROVE FALSE
          OBVIOUS
        <5>2. Open(w.id, Stamped(w.entry)) \in JobsOf(b)
          BY <1>3, <4>3, <5>1 DEF DreamPlan, Relative
        <5> QED BY <1>5, <4>1, <4>2, <5>2 DEF Saves
      <4> QED BY <3>2, <4>2, <4>3, <4>4
    <3> QED BY <3>4, <3>5
  <2>4. ASSUME NEW v \in won, NEW w \in won, NEW i, NEW j, NEW d, NEW e,
               From(v, i, d), From(w, j, e), d.text = e.text
        PROVE  i = j
    <3>1. v.entry \in Entries /\ w.entry \in Entries /\ v.entry.text \in Texts /\ w.entry.text \in Texts
      BY <1>4 DEF Entries
    <3>2. \A u \in Entries :
            /\ Stamped(u).text.relative = u.text.relative /\ Stamped(u).text.tells = u.text.tells
            /\ Stamped(u).text.stamps = u.text.stamps + 1
      BY DEF Stamped, Entries, Texts
    <3>3. v.entry.text.relative = w.entry.text.relative
      BY <2>4, <3>1, <3>2
    <3>4. v.entry.text.tells = w.entry.text.tells /\ v.entry.text.stamps = w.entry.text.stamps
      <4>1. v.entry.text.stamps \in Nat /\ w.entry.text.stamps \in Nat
        BY <3>1 DEF Texts
      <4>2. CASE v.entry.text.relative
        <5>1. d = Stamped(v.entry) /\ e = Stamped(w.entry)
          BY <2>4, <3>3, <4>2
        <5>2. v.entry.text.stamps + 1 = w.entry.text.stamps + 1 /\ v.entry.text.tells = w.entry.text.tells
          BY <2>4, <3>1, <3>2, <5>1
        <5> QED BY <4>1, <5>2
      <4>3. CASE ~v.entry.text.relative
        BY <2>4, <3>3, <4>3
      <4> QED BY <4>2, <4>3
    <3>5. v.entry.text = w.entry.text
      BY <3>1, <3>3, <3>4 DEF Texts
    <3> QED BY <1>2, <2>4, <3>5 DEF Winners, SameBody
  <2>5. ASSUME NEW w \in won, NEW i, NEW e, From(w, i, e) PROVE e.sure > 0
    <3>1. w.entry \in Entries /\ w.entry.sure \in 0 .. 2 /\ w.entry.sure # 0
      BY <1>4, <2>5 DEF Entries
    <3>2. Stamped(w.entry).sure = w.entry.sure
      BY <3>1 DEF Stamped, Entries
    <3>3. e.sure = w.entry.sure
      BY <2>5, <3>2
    <3> QED BY <3>1, <3>3
  <2> HIDE DEF From
  <2>6. CleanEnd(b)'
    <3>1. ASSUME NEW i \in Ids, NEW j \in Ids, NEW d \in Entries, NEW e \in Entries,
                 EndsAs(b, i, d)', EndsAs(b, j, e)'
          PROVE  d.sure > 0 /\ (d.text = e.text => i = j)
      BY <2>3, <2>4, <2>5, <3>1
    <3> QED BY <3>1 DEF CleanEnd
  <2>7. Head(b).do \notin {"write", "load"}
    <3>1. Head(b) \in JobsOf(b)
      BY <1>3, <1>7
    <3> QED BY <1>5, <1>6, <3>1
  <2> QED BY <2>6, <2>7, PlanClean
<1> QED BY <1>1, <1>3, <1>7, DreamerClean

LEMMA NextClean ==
  ASSUME Typed, IndexInv, DreamInv, [Next]_vars
  PROVE  DreamInv'
<1>0. Dreamer \in Clients
  BY ClientsAssumption
<1>1. ASSUME NEW c \in Clients, NEW x \in Jobs, Start(c, <<x>>),
             x.do \notin {"write", "load"}, ~Lists(x, {"count"})
      PROVE  DreamInv'
  <2> DEFINE b == <<x>>
  <2>1. b \in Seq(Jobs) /\ b # <<>> /\ JobsOf(b) = {x} /\ Start(c, b)
    BY <1>1, SingleIs
  <2>2. \A y \in JobsOf(b) : y.do \notin {"write", "load"} /\ ~Lists(y, {"count"})
    BY <1>1, <2>1
  <2> HIDE DEF b
  <2> QED BY <2>1, <2>2, StartClean
<1>2. ASSUME NEW c \in Clients, NEW draft \in Drafts, Save(c, draft) PROVE DreamInv'
  <2> DEFINE x == Open(issued + 1, Entry(Unstamped(draft[1]), draft[2]))
  <2>1. issued + 1 \in Ids
    BY <1>2, BoundsAssumption DEF Save, Ids, Typed
  <2>2. x \in Jobs /\ x.do \notin {"write", "load"} /\ ~Lists(x, {"count"})
    BY <2>1, EntriesAre DEF Open, Jobs, OpenJobs, Lists
  <2>3. Start(c, <<x>>)
    BY <1>2 DEF Save
  <2> HIDE DEF x
  <2> QED BY <1>1, <2>2, <2>3
<1>3. ASSUME NEW c \in Clients, NEW id \in Ids, Delete(c, id) PROVE DreamInv'
  <2>1. /\ Unlink(id, TRUE) \in Jobs /\ Unlink(id, TRUE).do \notin {"write", "load"}
        /\ ~Lists(Unlink(id, TRUE), {"count"})
    BY DEF Unlink, Jobs, UnlinkJobs, Lists
  <2> QED BY <1>1, <1>3, <2>1 DEF Delete
<1>4. \A p \in Purposes : /\ List(p) \in Jobs /\ List(p).do \notin {"write", "load"}
                          /\ p # "count" => ~Lists(List(p), {"count"})
  <2>1. \A p \in Purposes : List(p) \in Jobs /\ List(p).do = "list" /\ List(p).purpose = p
    BY ListJobIs
  <2> QED BY <2>1 DEF Lists
<1>5. ASSUME NEW withModel \in BOOLEAN, Dream(withModel) PROVE DreamInv'
  <2>1. CASE ~withModel
    <3>1. Start(Dreamer, <<List("dream")>>)
      BY <1>5, <2>1 DEF Dream
    <3>2. List("dream") \in Jobs /\ List("dream").do \notin {"write", "load"} /\ ~Lists(List("dream"), {"count"})
      BY <1>4 DEF Purposes
    <3> QED BY <1>0, <1>1, <3>1, <3>2
  <2>2. CASE withModel
    <3> DEFINE x == List("dream")
               y == List("model")
               b == <<x, y>>
    <3>1. Start(Dreamer, b)
      BY <1>5, <2>2 DEF Dream
    <3>2. \A z \in {x, y} : z \in Jobs /\ z.do \notin {"write", "load"} /\ ~Lists(z, {"count"})
      BY <1>4 DEF Purposes
    <3> HIDE DEF x, y
    <3>3. b \in Seq(Jobs) /\ b # <<>> /\ JobsOf(b) = {x, y}
      <4>1. b \in Seq(Jobs) /\ b # <<>> /\ DOMAIN b = {1, 2} /\ b[1] = x /\ b[2] = y
        BY <3>2
      <4> QED BY <4>1 DEF JobsOf
    <3> HIDE DEF b
    <3>4. \A z \in JobsOf(b) : z.do \notin {"write", "load"} /\ ~Lists(z, {"count"})
      BY <3>2, <3>3
    <3> QED BY <1>0, <3>1, <3>3, <3>4, StartClean
  <2> QED BY <2>1, <2>2
<1>6. ASSUME ConsolidateV2 PROVE DreamInv'
  <2>1. Start(Dreamer, <<List("clusters")>>)
    BY <1>6 DEF ConsolidateV2
  <2>2. List("clusters") \in Jobs /\ List("clusters").do \notin {"write", "load"} /\ ~Lists(List("clusters"), {"count"})
    BY <1>4 DEF Purposes
  <2> QED BY <1>0, <1>1, <2>1, <2>2
<1>7. ASSUME NEW c \in Clients, ClientStep(c) PROVE DreamInv'
  <2>1. CASE RebuildIndex(c)
    <3>1. Busy(c) /\ Job(c).do = "load" /\ UNCHANGED <<file, alone>>
      BY <2>1, RebuildLeaves
    <3>2. PICK b \in Seq(Jobs) : Leaves(c, b, {}) /\ b = Tail(agenda[c])
      BY <2>1, RebuildLeaves
    <3> QED BY <3>1, <3>2, TailClean
  <2> QED BY <1>7, <2>1, OpenClean, WriteClean, UnlinkClean, ListClean, LoadClean DEF ClientStep
<1>8. ASSUME Count PROVE DreamInv'
  <2>1. Busy(Dreamer) /\ Job(Dreamer).do = "load" /\ UNCHANGED <<file, alone>>
    BY <1>8, CountLeaves
  <2>2. PICK b \in Seq(Jobs) : Leaves(Dreamer, b, {}) /\ b = Tail(agenda[Dreamer])
    BY <1>8, CountLeaves
  <2> QED BY <1>0, <2>1, <2>2, TailClean
<1>9. ASSUME Busy(Dreamer), UNCHANGED alone, NEW b \in Seq(Jobs),
             agenda' = [agenda EXCEPT ![Dreamer] = b], b # <<>> => Head(b) \in JobsOf(b),
             \A x \in JobsOf(b) : x.do \notin {"write", "load"} /\ ~Lists(x, {"count"})
      PROVE  DreamInv'
  <2>1. b # <<>> => DreamOk(b)'
    <3>1. ~Counts(b)
      BY <1>9 DEF Counts
    <3> QED BY <1>9, <3>1, PlanClean
  <2> QED BY <1>0, <1>9, <2>1, DreamerClean
<1>10. /\ \A id, asked : Unlink(id, asked).do = "unlink"
       /\ \A id, entry : Open(id, entry).do = "open"
       /\ List("index").do = "list" /\ List("index").purpose = "index"
  BY DEF Unlink, Open, List
<1>11. ASSUME ModelVerdicts PROVE DreamInv'
  <2>1. Busy(Dreamer) /\ UNCHANGED alone /\ Rest(Dreamer) = {}
    BY <1>11, ModelLeaves
  <2>2. PICK ids \in SUBSET IdsOf(Job(Dreamer).all), b \in Seq(Jobs) :
          \/ Leaves(Dreamer, b, {})
          \/ Leaves(Dreamer, b, {Unlink(id, TRUE) : id \in ids} \cup {List("index")})
    BY <1>11, ModelLeaves
  <2>3. ASSUME NEW x \in JobsOf(b) PROVE x = List("index") \/ \E id \in ids : x = Unlink(id, TRUE)
    <3>1. CASE Leaves(Dreamer, b, {})
      BY <2>1, <3>1 DEF Leaves
    <3>2. CASE Leaves(Dreamer, b, {Unlink(id, TRUE) : id \in ids} \cup {List("index")})
      <4>1. x \in {Unlink(id, TRUE) : id \in ids} \cup {List("index")}
        BY <2>1, <3>2 DEF Leaves
      <4> QED BY <4>1
    <3> QED BY <2>2, <3>1, <3>2
  <2>4. \A x \in JobsOf(b) : x.do \notin {"write", "load"} /\ ~Lists(x, {"count"})
    BY <1>10, <2>3 DEF Lists
  <2>5. agenda' = [agenda EXCEPT ![Dreamer] = b] /\ (b # <<>> => Head(b) \in JobsOf(b))
    BY <2>2 DEF Leaves
  <2> QED BY <1>9, <2>1, <2>4, <2>5
<1>12. ASSUME DecideClusters PROVE DreamInv'
  <2>1. Busy(Dreamer) /\ UNCHANGED alone /\ Rest(Dreamer) = {}
    BY <1>12, ClustersLeave
  <2>2. PICK jobs \in Seq(Jobs), b \in Seq(Jobs) :
          /\ Leaves(Dreamer, b, JobsOf(jobs))
          /\ \A x \in JobsOf(jobs) :
               (\E id \in IdsOf(Job(Dreamer).all) : x = Unlink(id, TRUE)) \/ x.do = "summarize"
    BY <1>12, ClustersLeave
  <2>3. \A x \in JobsOf(b) : x.do \notin {"write", "load"} /\ ~Lists(x, {"count"})
    BY <1>10, <2>1, <2>2 DEF Leaves, Lists
  <2>4. agenda' = [agenda EXCEPT ![Dreamer] = b] /\ (b # <<>> => Head(b) \in JobsOf(b))
    BY <2>2 DEF Leaves
  <2> QED BY <1>9, <2>1, <2>3, <2>4
<1>13. ASSUME SummarizeCluster PROVE DreamInv'
  <2>1. Busy(Dreamer) /\ UNCHANGED alone /\ \A y \in Rest(Dreamer) : y.do = "summarize"
    BY <1>13, ClusterLeaves
  <2>2. PICK told \in SUBSET Facts, b \in Seq(Jobs) :
          Leaves(Dreamer, b, {Open(issued + 1, Summary(told))}
                               \cup {Unlink(id, FALSE) : id \in IdsOf(Job(Dreamer).cluster)})
    BY <1>13, ClusterLeaves
  <2>3. \A x \in JobsOf(b) : x.do \in {"open", "unlink", "summarize"}
    BY <1>10, <2>1, <2>2 DEF Leaves
  <2>4. \A x \in JobsOf(b) : x.do \notin {"write", "load"} /\ ~Lists(x, {"count"})
    BY <2>3 DEF Lists
  <2>5. agenda' = [agenda EXCEPT ![Dreamer] = b] /\ (b # <<>> => Head(b) \in JobsOf(b))
    BY <2>2 DEF Leaves
  <2> QED BY <1>9, <2>1, <2>4, <2>5
<1>14. ASSUME SummaryFails PROVE DreamInv'
  <2>1. Busy(Dreamer) /\ UNCHANGED alone
    BY <1>14, FailureLeaves
  <2>2. PICK b \in Seq(Jobs) :
          /\ agenda' = [agenda EXCEPT ![Dreamer] = b]
          /\ \A x \in JobsOf(b) : x.do = "summarize"
          /\ b # <<>> => Head(b) \in JobsOf(b)
    BY <1>14, FailureLeaves
  <2>3. \A x \in JobsOf(b) : x.do \notin {"write", "load"} /\ ~Lists(x, {"count"})
    BY <2>2 DEF Lists
  <2> QED BY <1>9, <2>1, <2>2, <2>3
<1>15. ASSUME UNCHANGED vars PROVE DreamInv'
  <2>1. UNCHANGED <<file, agenda, alone>>
    BY <1>15 DEF vars
  <2> QED BY <2>1 DEF DreamInv, DreamOk, ReadsFiles, Present, Counts, CleanEnd, EndsAs, Busy,
                      Deletes, SavesAs
<1> QED BY <1>2, <1>3, <1>5, <1>6, <1>7, <1>8, <1>11, <1>12, <1>13, <1>14, <1>15, DreamIsClean DEF Next

\* A consolidation that nobody disturbs leaves one entry of each body and no stale one.
THEOREM DreamSound == Spec => []DreamCleans
<1>1. Init => Typed /\ IndexInv /\ DreamInv
  <2>1. Init => Typed
    BY InitTyped
  <2>2. ASSUME Init PROVE IndexInv /\ DreamInv
    <3>1. (\A c \in Clients : agenda[c] = <<>>) /\ index = {} /\ \A id \in Ids : ~file[id].there
      BY <2>2 DEF Init, Absent
    <3> QED BY <3>1, ClientsAssumption DEF IndexInv, TakingTurns, Busy, Present, ReadsIndex, DreamInv
  <2> QED BY <2>1, <2>2
<1>2. Typed /\ IndexInv /\ DreamInv /\ [Next]_vars => (Typed /\ IndexInv /\ DreamInv)'
  BY NextTyped, NextIndexed, NextClean
<1>3. ASSUME Typed, DreamInv PROVE DreamCleans
  <2> DEFINE all == Job(Dreamer).all
  <2>1. SUFFICES ASSUME alone, Listed(Dreamer, "count"), NEW d \in all, NEW e \in all
                 PROVE  d.entry.sure > 0 /\ (SameBody(d, e) => d = e)
    BY DEF DreamCleans
  <2>2. /\ Busy(Dreamer) /\ Dreamer \in Clients /\ Job(Dreamer).do = "load"
        /\ Job(Dreamer).purpose = "count" /\ Doing(Dreamer, "load") /\ Head(agenda[Dreamer]) = Job(Dreamer)
    BY <2>1, ClientsAssumption DEF Listed, Doing, Job
  <2>3. DreamOk(agenda[Dreamer])
    BY <1>3, <2>1, <2>2 DEF DreamInv
  <2>4. LoadOk(Job(Dreamer)) /\ all \in SUBSET Listings
    BY <1>3, <2>2, LoadedIs
  <2>5. \A y \in JobsOf(agenda[Dreamer]) : y = Job(Dreamer) \/ y = List("model")
    BY <1>3, <2>2, RestIs DEF MayPrecede, Lists
  <2>6. CleanEnd(agenda[Dreamer])
    <3>1. Job(Dreamer) \in JobsOf(agenda[Dreamer])
      BY <1>3, <2>2, RestIs
    <3>2. Counts(agenda[Dreamer])
      BY <2>2, <3>1 DEF Counts, Lists
    <3> QED BY <2>3, <3>2 DEF DreamOk
  <2>7. \A x \in all : EndsAs(agenda[Dreamer], x.id, x.entry)
    <3>1. \A x \in all : file[x.id].there /\ file[x.id].entry = x.entry
      BY <2>2, <2>3 DEF DreamOk, ReadsFiles
    <3>2. \A y \in JobsOf(agenda[Dreamer]) : y.do # "unlink" /\ ~Saves(y)
      BY <2>2, <2>5 DEF List, Saves
    <3> QED BY <3>1, <3>2 DEF EndsAs, Deletes
  <2>8. d.id \in Ids /\ e.id \in Ids /\ d.entry \in Entries /\ e.entry \in Entries
    BY <2>4 DEF Listings
  <2>9. d.entry.sure > 0 /\ (d.entry.text = e.entry.text => d.id = e.id)
    BY <2>6, <2>7, <2>8 DEF CleanEnd
  <2> QED BY <2>4, <2>9 DEF SameBody, LoadOk
<1> QED BY <1>1, <1>2, <1>3, PTL DEF Spec

-----------------------------------------------------------------------------
(* What was saved stays told, but for the losses that SavedIsKept names. *)

\* what a file of each id tells, whenever it has been written
Tellings == [Ids -> SUBSET Facts]
JobTells(T, job) ==
  /\ Saves(job) => job.entry.text.tells = T[job.id]
  /\ job.do = "load" =>
       \A e \in job.all : e.entry.text = Blank \/ e.entry.text.tells = T[e.id]
AgendasTell(T) == \A c \in Clients : \A job \in JobsOf(agenda[c]) : JobTells(T, job)

\* a file is written, or empty while it is open
FilesOk(T) ==
  \A id \in Ids :
    /\ ~file[id].there => file[id].writers = {} /\ file[id].entry.text = Blank
    /\ file[id].there =>
         IF file[id].writers = {} THEN file[id].entry.text.tells = T[id]
         ELSE file[id].entry.text = Blank
    /\ \A c \in file[id].writers : Busy(c) /\ Job(c).do = "write" /\ Job(c).id = id

\* the job will write id, or has read its text
Settles(job, id) ==
  \/ Saves(job) /\ job.id = id
  \/ job.do = "load" /\ \E e \in job.all : e.id = id /\ e.entry.text # Blank

\* what another client o, with agenda a, is about to save is nothing that the agenda b of
\* the consolidating client writes or has read
HeldApart(o, a, b) ==
  a # <<>> =>
    /\ \A y \in JobsOf(Tail(a)) : ~Saves(y)
    /\ Head(a).do = "open" =>
         ~file[Head(a).id].there /\ \A x \in JobsOf(b) : ~Mentions(x, Head(a).id)
    /\ Head(a).do = "write" =>
         /\ file[Head(a).id].there => o \in file[Head(a).id].writers
         /\ \A x \in JobsOf(b) : ~Settles(x, Head(a).id)
Apart == \A o \in Clients \ {Dreamer} : HeldApart(o, agenda[o], agenda[Dreamer])

\* each of the other clients saves an entry of its own
Saving(a, id) == a # <<>> /\ Saves(Head(a)) /\ Head(a).id = id
OwnEntries ==
  \A o, p \in Clients \ {Dreamer} : \A id \in Ids :
    Saving(agenda[o], id) /\ Saving(agenda[p], id) => o = p

SavedAll(T) == \A f \in kept : \E id \in Ids : file[id].there /\ f \in T[id]

Condemned(a, id) == \E job \in JobsOf(a) : Removes(job, FALSE) /\ job.id = id
Opens(a, id) == a # <<>> /\ Head(a).do = "open" /\ Head(a).id = id
\* what the consolidating client is going to remove unasked is told elsewhere
KeptAll(K, T, a) ==
  \A f \in K : \E id \in Ids :
    f \in T[id] /\ ~Condemned(a, id) /\ (file[id].there \/ Opens(a, id))

KeptOk(T) ==
  /\ AgendasTell(T) /\ FilesOk(T) /\ Apart /\ OwnEntries /\ SavedAll(T)
  /\ KeptAll(kept, T, agenda[Dreamer])
KeptInv == \E T \in Tellings : KeptOk(T)

LEMMA WrittenIs ==
  ASSUME Typed, NEW T \in Tellings, AgendasTell(T), FilesOk(T), NEW id \in Ids
  PROVE  \A f : f \in Written(id) <=> file[id].there /\ f \in T[id]
<1>1. ASSUME NEW c \in file[id].writers
      PROVE  agenda[c][1].entry.text.tells = T[id] /\ Doing(c, "write") /\ c \in Clients
  <2>1. c \in Clients
    BY DEF Typed, Files
  <2>2. Busy(c) /\ Job(c).do = "write" /\ Job(c).id = id
    BY <1>1 DEF FilesOk
  <2>3. Job(c) \in JobsOf(agenda[c])
    BY <2>1, <2>2, RestIs
  <2>4. Job(c).entry.text.tells = T[id]
    BY <2>1, <2>2, <2>3 DEF AgendasTell, JobTells, Saves
  <2>5. agenda[c][1] = Job(c)
    <3>1. agenda[c] \in Seq(Jobs) /\ agenda[c] # <<>>
      BY <2>1, <2>2 DEF Typed, Busy
    <3> QED BY <3>1 DEF Job
  <2> QED BY <2>1, <2>2, <2>4, <2>5 DEF Doing, Job
<1>2. Blank.tells = {}
  BY DEF Blank
<1>3. CASE ~file[id].there
  <2>1. file[id].entry.text.tells = {} /\ file[id].writers = {}
    BY <1>2, <1>3 DEF FilesOk
  <2> QED BY <1>3, <2>1 DEF Written
<1>4. CASE file[id].there /\ file[id].writers = {}
  <2>1. file[id].entry.text.tells = T[id]
    BY <1>4 DEF FilesOk
  <2> QED BY <1>4, <2>1 DEF Written
<1>5. CASE file[id].there /\ file[id].writers # {}
  <2>1. file[id].entry.text.tells = {}
    BY <1>2, <1>5 DEF FilesOk
  <2>2. \A f : f \in Written(id) <=> \E c \in file[id].writers : f \in agenda[c][1].entry.text.tells
    BY <1>1, <2>1 DEF Written
  <2> QED BY <1>1, <1>5, <2>2
<1> QED BY <1>3, <1>4, <1>5

LEMMA KeptOkSaves ==
  ASSUME Typed, NEW T \in Tellings, KeptOk(T)
  PROVE  SavedIsKept
<1>1. ASSUME NEW f \in kept PROVE \E id \in Ids : f \in Written(id)
  <2>1. PICK id \in Ids : file[id].there /\ f \in T[id]
    BY DEF KeptOk, SavedAll
  <2> QED BY <2>1, WrittenIs DEF KeptOk
<1> QED BY <1>1 DEF SavedIsKept

\* An id that has not been issued may come to tell anything.
LEMMA Extended ==
  ASSUME Typed, NEW T \in Tellings, KeptOk(T), NEW n \in Ids, n > issued,
         NEW S \in SUBSET Facts
  PROVE  [T EXCEPT ![n] = S] \in Tellings /\ KeptOk([T EXCEPT ![n] = S])
<1> DEFINE U == [T EXCEPT ![n] = S]
<1>1. U \in Tellings /\ U[n] = S /\ \A i \in Ids \ {n} : U[i] = T[i]
  BY DEF Tellings
<1>2. \A i \in Ids : i <= issued => i # n
  BY BoundsAssumption DEF Typed, Ids
<1>3. \A i \in Ids : file[i].there => U[i] = T[i]
  BY <1>1, <1>2 DEF Typed
<1>4. ASSUME NEW c \in Clients, NEW job \in JobsOf(agenda[c])
      PROVE  \A i \in Ids : Mentions(job, i) => U[i] = T[i]
  <2>1. JobOk(job, issued)
    BY DEF Typed, AgendaOk
  <2> QED BY <1>1, <1>2, <2>1 DEF JobOk
<1> HIDE DEF U
<1>5. AgendasTell(U)
  <2>1. ASSUME NEW c \in Clients, NEW job \in JobsOf(agenda[c]) PROVE JobTells(U, job)
    <3>1. JobTells(T, job) /\ job \in Jobs
      <4>1. agenda[c] \in Seq(Jobs)
        BY DEF Typed
      <4> QED BY <4>1 DEF KeptOk, AgendasTell, JobsOf
    <3>2. Saves(job) => job.id \in Ids /\ Mentions(job, job.id)
      BY <3>1, JobKinds DEF Saves, OpenJobs, WriteJobs, Mentions
    <3>3. job.do = "load" => \A e \in job.all : e.id \in Ids /\ Mentions(job, e.id)
      BY <3>1, JobKinds DEF LoadJobs, Listings, Mentions, IdsOf
    <3> QED BY <1>4, <3>1, <3>2, <3>3 DEF JobTells
  <2> QED BY <2>1 DEF AgendasTell
<1>6. FilesOk(U)
  BY <1>3 DEF KeptOk, FilesOk
<1>7. Apart /\ OwnEntries /\ SavedAll(U)
  BY <1>3 DEF KeptOk, SavedAll
<1>8. Dreamer \in Clients
  BY ClientsAssumption
<1>9. KeptAll(kept, U, agenda[Dreamer])
  <2>1. ASSUME NEW i \in Ids, Opens(agenda[Dreamer], i) PROVE U[i] = T[i]
    <3>1. Busy(Dreamer) /\ Job(Dreamer).do = "open" /\ Job(Dreamer).id = i
      BY <2>1 DEF Opens, Busy, Job
    <3>2. Job(Dreamer) \in JobsOf(agenda[Dreamer]) /\ Mentions(Job(Dreamer), i)
      BY <1>8, <3>1, RestIs DEF Mentions, Saves
    <3> QED BY <1>4, <1>8, <3>2
  <2> QED BY <1>3, <2>1 DEF KeptOk, KeptAll
<1> QED BY <1>1, <1>5, <1>6, <1>7, <1>9 DEF KeptOk, U

LEMMA NotWriting ==
  ASSUME NEW T, FilesOk(T), NEW c \in Clients, Busy(c) => Job(c).do # "write"
  PROVE  \A id \in Ids : c \notin file[id].writers
BY DEF FilesOk

\* A step of one client that leaves the files alone.
LEMMA QuietKept ==
  ASSUME Typed, NEW T \in Tellings, KeptOk(T), NEW c \in Clients, NEW b \in Seq(Jobs),
         agenda' = [agenda EXCEPT ![c] = b], UNCHANGED file, kept' \subseteq kept,
         \A id \in Ids : c \notin file[id].writers,
         \A x \in JobsOf(b) : JobTells(T, x),
         c = Dreamer => /\ \A o \in Clients \ {Dreamer} : HeldApart(o, agenda[o], b)
                        /\ KeptAll(kept', T, b),
         c # Dreamer => /\ HeldApart(c, b, agenda[Dreamer])
                        /\ \A p \in Clients \ {Dreamer}, id \in Ids :
                             Saving(b, id) => ~Saving(agenda[p], id)
  PROVE  KeptOk(T)'
<1>0. Dreamer \in Clients
  BY ClientsAssumption
<1>1. agenda'[c] = b /\ \A d \in Clients \ {c} : agenda'[d] = agenda[d]
  BY DEF Typed
<1>2. AgendasTell(T)'
  <2>1. \A d \in Clients : \A x \in JobsOf(agenda'[d]) : JobTells(T, x)
    BY <1>1 DEF KeptOk, AgendasTell
  <2> QED BY <2>1 DEF AgendasTell
<1>3. FilesOk(T)'
  <2>1. \A id \in Ids : \A d \in file[id].writers : d \in Clients /\ d # c
    BY DEF Typed, Files
  <2> QED BY <1>1, <2>1 DEF KeptOk, FilesOk, Busy, Job
<1>4. Apart'
  <2>1. ASSUME NEW o \in Clients \ {Dreamer} PROVE HeldApart(o, agenda[o], agenda[Dreamer])'
    <3>1. CASE c = Dreamer
      <4>1. HeldApart(o, agenda[o], b) /\ agenda'[o] = agenda[o] /\ agenda'[Dreamer] = b
        BY <1>1, <3>1
      <4> QED BY <4>1 DEF HeldApart
    <3>2. CASE c # Dreamer /\ o = c
      <4>1. HeldApart(o, b, agenda[Dreamer]) /\ agenda'[o] = b /\ agenda'[Dreamer] = agenda[Dreamer]
        BY <1>0, <1>1, <3>2
      <4> QED BY <4>1 DEF HeldApart
    <3>3. CASE c # Dreamer /\ o # c
      <4>1. /\ HeldApart(o, agenda[o], agenda[Dreamer]) /\ agenda'[o] = agenda[o]
            /\ agenda'[Dreamer] = agenda[Dreamer]
        BY <1>0, <1>1, <3>3 DEF KeptOk, Apart
      <4> QED BY <4>1 DEF HeldApart
    <3> QED BY <3>1, <3>2, <3>3
  <2> QED BY <2>1 DEF Apart
<1>5. SavedAll(T)'
  BY DEF KeptOk, SavedAll
<1>6. KeptAll(kept, T, agenda[Dreamer])'
  <2>1. KeptAll(kept', T, agenda'[Dreamer])
    <3>1. CASE c = Dreamer
      BY <1>1, <3>1
    <3>2. CASE c # Dreamer
      <4>1. agenda'[Dreamer] = agenda[Dreamer] /\ KeptAll(kept, T, agenda[Dreamer])
        BY <1>0, <1>1, <3>2 DEF KeptOk
      <4> QED BY <4>1 DEF KeptAll
    <3> QED BY <3>1, <3>2
  <2> QED BY <2>1 DEF KeptAll
<1>7. OwnEntries'
  <2>1. ASSUME NEW o \in Clients \ {Dreamer}, NEW p \in Clients \ {Dreamer}, NEW id \in Ids,
               Saving(agenda'[o], id), Saving(agenda'[p], id), o # p
        PROVE  FALSE
    <3>1. o # c /\ p # c
      <4>1. \A q \in Clients \ {Dreamer} : c # Dreamer /\ q # c /\ Saving(agenda'[q], id) => ~Saving(b, id)
        BY <1>1
      <4> QED BY <1>1, <2>1, <4>1
    <3> QED BY <1>1, <2>1, <3>1 DEF KeptOk, OwnEntries
  <2> QED BY <2>1 DEF OwnEntries, Saving
<1> QED BY <1>2, <1>3, <1>4, <1>5, <1>6, <1>7 DEF KeptOk

\* A step of another client after which it has nothing to save.
LEMMA OthersKept ==
  ASSUME Typed, NEW T \in Tellings, KeptOk(T), NEW c \in Clients \ {Dreamer}, NEW b \in Seq(Jobs),
         agenda' = [agenda EXCEPT ![c] = b], UNCHANGED <<file, kept>>,
         \A id \in Ids : c \notin file[id].writers,
         \A x \in JobsOf(b) : JobTells(T, x) /\ ~Saves(x)
  PROVE  KeptOk(T)'
<1>1. b # <<>> => Head(b) \in JobsOf(b) /\ \A x \in JobsOf(Tail(b)) : x \in JobsOf(b)
  BY TailIs
<1>2. HeldApart(c, b, agenda[Dreamer]) /\ \A id : ~Saving(b, id)
  BY <1>1 DEF HeldApart, Saves, Saving
<1>3. \A x \in JobsOf(b) : JobTells(T, x)
  OBVIOUS
<1> QED BY <1>2, <1>3, QuietKept

\* the id is of an entry that is there, or that the consolidating client has listed, or of
\* one that was never saved
Known(id) == id > issued \/ file[id].there \/ \E y \in JobsOf(agenda[Dreamer]) : Mentions(y, id)
Decided(id) ==
  \/ id > issued
  \/ file[id].there /\ file[id].entry.text # Blank
  \/ \E y \in JobsOf(agenda[Dreamer]) : Settles(y, id)
Sound(T, x) ==
  /\ JobTells(T, x)
  /\ \A id \in Ids : (Mentions(x, id) => Known(id)) /\ (Settles(x, id) => Decided(id))

LEMMA StaysApart ==
  ASSUME Typed, NEW T \in Tellings, KeptOk(T), NEW b \in Seq(Jobs), NEW o \in Clients \ {Dreamer},
         \A x \in JobsOf(b) : Sound(T, x)
  PROVE  HeldApart(o, agenda[o], b)
<1>0. HeldApart(o, agenda[o], agenda[Dreamer])
  BY DEF KeptOk, Apart
<1>1. ASSUME agenda[o] # <<>>, Saves(Head(agenda[o])) PROVE Head(agenda[o]).id \in Ids /\ Head(agenda[o]).id <= issued
  <2>1. Busy(o) /\ Job(o) = Head(agenda[o])
    BY <1>1 DEF Busy, Job
  <2>2. Job(o) \in Jobs /\ JobOk(Job(o), issued)
    BY <2>1, HeadIs
  <2>3. Job(o).id \in Ids /\ Mentions(Job(o), Job(o).id)
    BY <1>1, <2>1, <2>2, JobKinds DEF Saves, Mentions, OpenJobs, WriteJobs
  <2> QED BY <2>1, <2>2, <2>3 DEF JobOk
<1>2. ASSUME agenda[o] # <<>>, Head(agenda[o]).do = "open", NEW x \in JobsOf(b)
      PROVE  ~Mentions(x, Head(agenda[o]).id)
  <2>1. ~Known(Head(agenda[o]).id) /\ Head(agenda[o]).id \in Ids
    BY <1>0, <1>1, <1>2 DEF Known, HeldApart, Saves, Typed, Ids
  <2> QED BY <2>1 DEF Sound
<1>3. ASSUME agenda[o] # <<>>, Head(agenda[o]).do = "write", NEW x \in JobsOf(b)
      PROVE  ~Settles(x, Head(agenda[o]).id)
  <2>1. Head(agenda[o]).id \in Ids /\ Head(agenda[o]).id <= issued
    BY <1>1, <1>3 DEF Saves
  <2>2. file[Head(agenda[o]).id].there => file[Head(agenda[o]).id].entry.text = Blank
    BY <1>0, <1>3, <2>1 DEF HeldApart, KeptOk, FilesOk
  <2>3. ~(Head(agenda[o]).id > issued)
    BY <2>1 DEF Typed, Ids
  <2>4. ~Decided(Head(agenda[o]).id)
    BY <1>0, <1>3, <2>2, <2>3 DEF Decided, HeldApart
  <2> QED BY <2>1, <2>4 DEF Sound
<1> QED BY <1>0, <1>2, <1>3 DEF HeldApart

\* What is left to the consolidating client is sound as it was.
LEMMA RestSound ==
  ASSUME NEW T, KeptOk(T), NEW x \in JobsOf(agenda[Dreamer])
  PROVE  Sound(T, x)
BY ClientsAssumption DEF Sound, Known, Decided, KeptOk, AgendasTell

\* A step of the consolidating client that leaves the files alone.
LEMMA PlanKept ==
  ASSUME Typed, NEW T \in Tellings, KeptOk(T), NEW b \in Seq(Jobs),
         agenda' = [agenda EXCEPT ![Dreamer] = b], UNCHANGED file, kept' \subseteq kept,
         \A id \in Ids : Dreamer \notin file[id].writers,
         \A x \in JobsOf(b) : Sound(T, x),
         KeptAll(kept', T, b)
  PROVE  KeptOk(T)'
<1>1. \A o \in Clients \ {Dreamer} : HeldApart(o, agenda[o], b)
  BY StaysApart
<1>2. \A x \in JobsOf(b) : JobTells(T, x)
  BY DEF Sound
<1>3. Dreamer \in Clients
  BY ClientsAssumption
<1> QED BY <1>1, <1>2, <1>3, QuietKept

\* Nothing more is condemned and no file was about to be opened.
LEMMA StillAll ==
  ASSUME NEW T, SavedAll(T), KeptAll(kept, T, agenda[Dreamer]), NEW b,
         Busy(Dreamer) => Job(Dreamer).do # "open",
         \A x \in JobsOf(b) : Removes(x, FALSE) => x \in JobsOf(agenda[Dreamer])
  PROVE  KeptAll(kept, T, b)
BY DEF KeptAll, Condemned, Opens, Busy, Job

-----------------------------------------------------------------------------
(* What clients start. *)

LEMMA StartKept ==
  ASSUME Typed, NEW T \in Tellings, KeptOk(T), NEW c \in Clients, NEW b \in Seq(Jobs),
         Start(c, b), UNCHANGED <<file, kept>>,
         \A x \in JobsOf(b) : Sound(T, x) /\ ~Removes(x, FALSE),
         c # Dreamer => /\ HeldApart(c, b, agenda[Dreamer])
                        /\ \A p \in Clients \ {Dreamer}, id \in Ids :
                             Saving(b, id) => ~Saving(agenda[p], id)
  PROVE  KeptOk(T)'
<1>1. agenda' = [agenda EXCEPT ![c] = b] /\ ~Busy(c)
  BY DEF Start
<1>2. \A id \in Ids : c \notin file[id].writers
  BY <1>1, NotWriting DEF KeptOk
<1>3. CASE c = Dreamer
  <2>1. KeptAll(kept, T, b)
    BY <1>1, <1>3, StillAll DEF KeptOk
  <2>2. KeptAll(kept', T, b) /\ kept' \subseteq kept
    BY <2>1
  <2>3. agenda' = [agenda EXCEPT ![Dreamer] = b] /\ \A id \in Ids : Dreamer \notin file[id].writers
    BY <1>1, <1>2, <1>3
  <2>4. \A x \in JobsOf(b) : Sound(T, x)
    OBVIOUS
  <2> QED BY <2>2, <2>3, <2>4, PlanKept
<1>4. CASE c # Dreamer
  <2>1. (\A x \in JobsOf(b) : JobTells(T, x)) /\ kept' \subseteq kept
    BY DEF Sound
  <2> QED BY <1>1, <1>2, <1>4, <2>1, QuietKept
<1> QED BY <1>3, <1>4

LEMMA StartOneKept ==
  ASSUME Typed, NEW T \in Tellings, KeptOk(T), NEW c \in Clients, NEW x \in Jobs,
         Start(c, <<x>>), UNCHANGED <<file, kept>>,
         Sound(T, x), ~Removes(x, FALSE), x.do # "write",
         c # Dreamer /\ x.do = "open" =>
           /\ ~file[x.id].there /\ \A y \in JobsOf(agenda[Dreamer]) : ~Mentions(y, x.id)
           /\ \A p \in Clients \ {Dreamer} : ~Saving(agenda[p], x.id)
  PROVE  KeptOk(T)'
<1> DEFINE b == <<x>>
           n == <<>>
<1>1. /\ b \in Seq(Jobs) /\ b # <<>> /\ Head(b) = x /\ Tail(b) = n /\ JobsOf(b) = {x} /\ Start(c, b)
      /\ JobsOf(n) = {}
  BY SingleIs, NothingIs
<1> HIDE DEF b, n
<1>2. c # Dreamer => /\ HeldApart(c, b, agenda[Dreamer])
                     /\ \A p \in Clients \ {Dreamer}, id \in Ids :
                          Saving(b, id) => ~Saving(agenda[p], id)
  BY <1>1 DEF HeldApart, Saving, Saves
<1>3. \A y \in JobsOf(b) : Sound(T, y) /\ ~Removes(y, FALSE)
  BY <1>1
<1> QED BY <1>1, <1>2, <1>3, StartKept

LEMMA ListSound ==
  ASSUME NEW T, NEW purpose
  PROVE  /\ Sound(T, List(purpose)) /\ ~Removes(List(purpose), FALSE)
         /\ List(purpose).do = "list" /\ ~Saves(List(purpose))
BY DEF List, Sound, JobTells, Mentions, Settles, Saves, Removes

LEMMA SaveKept ==
  ASSUME Typed, KeptInv, NEW c \in Clients, NEW draft \in Drafts, Save(c, draft)
  PROVE  KeptInv'
<1> DEFINE x == Open(issued + 1, Entry(Unstamped(draft[1]), draft[2]))
<1>1. /\ issued + 1 \in Ids /\ issued + 1 > issued /\ issued \in Int
      /\ Start(c, <<x>>) /\ UNCHANGED <<file, kept>>
  BY BoundsAssumption DEF Save, Ids, Typed
<1>2. x \in Jobs
  BY <1>1, EntriesAre DEF Open, Jobs, OpenJobs
<1>3. x.do = "open" /\ x.id = issued + 1 /\ x.entry.text.tells = {draft[1]}
  BY DEF Open, Entry, Unstamped
<1>4. {draft[1]} \in SUBSET Facts
  BY ClientsAssumption
<1>5. PICK T \in Tellings : KeptOk(T)
  BY DEF KeptInv
<1>6. PICK U \in Tellings : U = [T EXCEPT ![issued + 1] = {draft[1]}] /\ KeptOk(U)
  BY <1>1, <1>4, <1>5, Extended
<1>7. U[issued + 1] = {draft[1]}
  BY <1>1, <1>5, <1>6 DEF Tellings
<1> HIDE DEF x
<1>8. Sound(U, x) /\ ~Removes(x, FALSE) /\ x.do # "write"
  <2>1. JobTells(U, x)
    BY <1>3, <1>7 DEF JobTells, Saves
  <2>2. \A id \in Ids : Mentions(x, id) \/ Settles(x, id) => id > issued
    BY <1>1, <1>3 DEF Mentions, Settles
  <2> QED BY <1>3, <2>1, <2>2 DEF Sound, Known, Decided, Removes
<1>9. /\ ~file[x.id].there /\ \A y \in JobsOf(agenda[Dreamer]) : ~Mentions(y, x.id)
      /\ \A p \in Clients \ {Dreamer} : ~Saving(agenda[p], x.id)
  <2>1. ~(issued + 1 <= issued)
    BY <1>1
  <2>3. ASSUME NEW p \in Clients \ {Dreamer}, Saving(agenda[p], x.id) PROVE FALSE
    <3>1. Busy(p) /\ Job(p) = Head(agenda[p])
      BY <2>3 DEF Saving, Busy, Job
    <3>2. JobOk(Job(p), issued)
      BY <3>1, HeadIs
    <3>3. Mentions(Job(p), x.id)
      BY <2>3, <3>1 DEF Saving, Mentions
    <3> QED BY <1>1, <1>3, <2>1, <3>2, <3>3 DEF JobOk
  <2>2. \A y \in JobsOf(agenda[Dreamer]) : JobOk(y, issued)
    BY ClientsAssumption DEF Typed, AgendaOk
  <2> QED BY <1>1, <1>3, <2>1, <2>2, <2>3 DEF JobOk, Typed
<1>10. KeptOk(U)'
  BY <1>1, <1>2, <1>6, <1>8, <1>9, StartOneKept
<1> QED BY <1>6, <1>10 DEF KeptInv

LEMMA DeleteKept ==
  ASSUME Typed, KeptInv, NEW c \in Clients, NEW id \in Ids, Delete(c, id)
  PROVE  KeptInv'
<1> DEFINE x == Unlink(id, TRUE)
<1>1. Start(c, <<x>>) /\ UNCHANGED <<file, kept>> /\ file[id].there
  BY DEF Delete, Present
<1>2. x \in Jobs /\ x.do = "unlink" /\ x.id = id /\ x.asked = TRUE
  BY DEF Unlink, Jobs, UnlinkJobs
<1>3. PICK T \in Tellings : KeptOk(T)
  BY DEF KeptInv
<1> HIDE DEF x
<1>4. Sound(T, x) /\ ~Removes(x, FALSE) /\ x.do \notin {"write", "load", "open"}
  BY <1>1, <1>2 DEF Sound, JobTells, Saves, Mentions, Settles, Removes, Known
<1>5. KeptOk(T)'
  BY <1>1, <1>2, <1>3, <1>4, StartOneKept
<1> QED BY <1>3, <1>5 DEF KeptInv

LEMMA ConsolidateKept ==
  ASSUME Typed, KeptInv, ConsolidateV2
  PROVE  KeptInv'
<1> DEFINE x == List("clusters")
<1>1. Start(Dreamer, <<x>>) /\ UNCHANGED <<file, kept>> /\ Dreamer \in Clients
  BY ClientsAssumption DEF ConsolidateV2
<1>2. PICK T \in Tellings : KeptOk(T)
  BY DEF KeptInv
<1>3. x \in Jobs
  BY ListJobIs DEF Purposes
<1>4. Sound(T, x) /\ ~Removes(x, FALSE) /\ x.do \notin {"write", "load", "open"}
  BY ListSound
<1> HIDE DEF x
<1>5. KeptOk(T)'
  BY <1>1, <1>2, <1>3, <1>4, StartOneKept
<1> QED BY <1>2, <1>5 DEF KeptInv

LEMMA DreamKept ==
  ASSUME Typed, KeptInv, NEW withModel \in BOOLEAN, Dream(withModel)
  PROVE  KeptInv'
<1> DEFINE x == List("dream")
           y == List("model")
<1>1. /\ Start(Dreamer, IF withModel THEN <<x, y>> ELSE <<x>>) /\ UNCHANGED <<file, kept>>
      /\ Dreamer \in Clients
  BY ClientsAssumption DEF Dream
<1>2. PICK T \in Tellings : KeptOk(T)
  BY DEF KeptInv
<1>3. x \in Jobs /\ y \in Jobs
  BY ListJobIs DEF Purposes
<1>4. /\ Sound(T, x) /\ ~Removes(x, FALSE) /\ x.do \notin {"write", "load", "open"}
      /\ Sound(T, y) /\ ~Removes(y, FALSE) /\ y.do \notin {"write", "load", "open"}
  BY ListSound
<1> HIDE DEF x, y
<1>5. CASE withModel
  <2> DEFINE b == <<x, y>>
  <2>1. b \in Seq(Jobs) /\ Start(Dreamer, b)
    BY <1>1, <1>3, <1>5
  <2>2. JobsOf(b) = {x, y}
    <3>1. DOMAIN b = {1, 2} /\ b[1] = x /\ b[2] = y
      OBVIOUS
    <3> HIDE DEF b
    <3> QED BY <3>1 DEF JobsOf
  <2> HIDE DEF b
  <2>3. \A z \in JobsOf(b) : Sound(T, z) /\ ~Removes(z, FALSE)
    BY <1>4, <2>2
  <2>4. KeptOk(T)'
    BY <1>1, <1>2, <2>1, <2>3, StartKept
  <2> QED BY <1>2, <2>4 DEF KeptInv
<1>6. CASE ~withModel
  <2>1. Start(Dreamer, <<x>>)
    BY <1>1, <1>6
  <2>2. KeptOk(T)'
    BY <1>1, <1>2, <1>3, <1>4, <2>1, StartOneKept
  <2> QED BY <1>2, <2>2 DEF KeptInv
<1> QED BY <1>5, <1>6

-----------------------------------------------------------------------------
(* What clients read and decide. *)

LEMMA DreamerLeaves ==
  ASSUME Typed, NEW T \in Tellings, KeptOk(T), Busy(Dreamer), Job(Dreamer).do \notin {"open", "write"},
         NEW b \in Seq(Jobs), NEW jobs, Leaves(Dreamer, b, jobs), UNCHANGED file, kept' \subseteq kept,
         \A x \in jobs : Sound(T, x), KeptAll(kept', T, b)
  PROVE  KeptOk(T)'
<1>1. Dreamer \in Clients /\ agenda' = [agenda EXCEPT ![Dreamer] = b] /\ JobsOf(b) = jobs \cup Rest(Dreamer)
  BY ClientsAssumption DEF Leaves
<1>2. \A x \in Rest(Dreamer) : x \in JobsOf(agenda[Dreamer])
  BY <1>1, RestIs
<1>3. \A x \in JobsOf(b) : Sound(T, x)
  BY <1>1, <1>2, RestSound
<1>4. \A id \in Ids : Dreamer \notin file[id].writers
  BY <1>1, NotWriting DEF KeptOk
<1> QED BY <1>1, <1>3, <1>4, PlanKept

LEMMA DreamerReads ==
  ASSUME Typed, NEW T \in Tellings, KeptOk(T), Busy(Dreamer), Job(Dreamer).do \notin {"open", "write"},
         NEW b \in Seq(Jobs), NEW jobs, Leaves(Dreamer, b, jobs), UNCHANGED <<file, kept>>,
         \A x \in jobs : Sound(T, x) /\ ~Removes(x, FALSE)
  PROVE  KeptOk(T)'
<1>1. JobsOf(b) = jobs \cup Rest(Dreamer) /\ Dreamer \in Clients
  BY ClientsAssumption DEF Leaves
<1>2. \A x \in Rest(Dreamer) : x \in JobsOf(agenda[Dreamer])
  BY <1>1, RestIs
<1>3. \A x \in JobsOf(b) : Removes(x, FALSE) => x \in JobsOf(agenda[Dreamer])
  BY <1>1, <1>2
<1>4. KeptAll(kept', T, b) /\ kept' \subseteq kept
  BY <1>3, StillAll DEF KeptOk
<1>5. \A x \in jobs : Sound(T, x)
  OBVIOUS
<1> QED BY <1>4, <1>5, DreamerLeaves

LEMMA OtherLeaves ==
  ASSUME Typed, NEW T \in Tellings, KeptOk(T), NEW c \in Clients \ {Dreamer}, Busy(c),
         NEW b \in Seq(Jobs), NEW jobs, Leaves(c, b, jobs), UNCHANGED <<file, kept>>,
         \A id \in Ids : c \notin file[id].writers,
         \A x \in jobs : JobTells(T, x) /\ ~Saves(x)
  PROVE  KeptOk(T)'
<1>1. agenda' = [agenda EXCEPT ![c] = b] /\ JobsOf(b) = jobs \cup Rest(c)
  BY DEF Leaves
<1>2. \A x \in Rest(c) : x \in JobsOf(agenda[c]) /\ ~Saves(x)
  <2>1. HeldApart(c, agenda[c], agenda[Dreamer])
    BY DEF KeptOk, Apart
  <2> QED BY <2>1, RestIs DEF HeldApart, Rest, Busy
<1>3. \A x \in JobsOf(b) : JobTells(T, x) /\ ~Saves(x)
  BY <1>1, <1>2 DEF KeptOk, AgendasTell
<1> QED BY <1>1, <1>3, OthersKept

LEMMA TextsRead ==
  ASSUME Typed, NEW T \in Tellings, KeptOk(T), NEW id \in Ids, file[id].there
  PROVE  file[id].entry.text = Blank \/ file[id].entry.text.tells = T[id]
BY DEF KeptOk, FilesOk

LEMMA ListKept ==
  ASSUME Typed, KeptInv, NEW c \in Clients, ListFiles(c)
  PROVE  KeptInv'
<1> DEFINE left == IF Job(c).purpose = "index" THEN {} ELSE Present
<1>1. Busy(c) /\ Job(c).do = "list" /\ UNCHANGED <<file, kept>>
  BY ListLeaves
<1>2. PICK b \in Seq(Jobs), all \in SUBSET Listings :
        /\ Leaves(c, b, {Load(Job(c).purpose, left, all)})
        /\ b # <<>> /\ Head(b) = Load(Job(c).purpose, left, all)
        /\ Job(c).purpose # "index" => all = {}
        /\ \A e \in all : e.id \in Present /\ e.entry = file[e.id].entry
  BY ListLeaves
<1> DEFINE x == Load(Job(c).purpose, left, all)
<1>3. x.do = "load" /\ x.purpose = Job(c).purpose /\ x.left = left /\ x.all = all
  BY DEF Load
<1>4. PICK T \in Tellings : KeptOk(T)
  BY DEF KeptInv
<1>5. /\ \A e \in all : e.id \in Ids /\ file[e.id].there /\ e.entry = file[e.id].entry
      /\ \A i \in left : i \in Ids /\ file[i].there
      /\ x.purpose # "index" => all = {}
  BY <1>2, <1>3 DEF Present
<1>6. Leaves(c, b, {x}) /\ b # <<>> /\ Head(b) = x
  BY <1>2
<1> HIDE DEF x, left
<1>7. JobTells(T, x) /\ ~Saves(x) /\ ~Removes(x, FALSE)
  <2>1. \A e \in all : e.entry.text = Blank \/ e.entry.text.tells = T[e.id]
    BY <1>4, <1>5, TextsRead
  <2> QED BY <1>3, <2>1 DEF JobTells, Saves, Removes
<1>8. \A id \in Ids : (Mentions(x, id) => Known(id)) /\ (Settles(x, id) => Decided(id))
  <2>1. \A id \in Ids : Mentions(x, id) => file[id].there
    BY <1>3, <1>5 DEF Mentions, Saves, IdsOf
  <2>2. \A id \in Ids : Settles(x, id) => file[id].there /\ file[id].entry.text # Blank
    BY <1>3, <1>5 DEF Settles, Saves, Removes
  <2> QED BY <2>1, <2>2 DEF Known, Decided
<1>9. \A id \in Ids : c \notin file[id].writers
  BY <1>1, <1>4, NotWriting DEF KeptOk
<1>10. CASE c = Dreamer
  <2>3. \A y \in {x} : Sound(T, y) /\ ~Removes(y, FALSE)
    BY <1>7, <1>8 DEF Sound
  <2> DEFINE jobs == {x}
  <2>5. /\ Leaves(Dreamer, b, jobs) /\ Busy(Dreamer) /\ Job(Dreamer).do \notin {"open", "write"}
        /\ \A y \in jobs : Sound(T, y) /\ ~Removes(y, FALSE)
    BY <1>1, <1>6, <1>10, <2>3
  <2> HIDE DEF jobs
  <2>4. KeptOk(T)'
    BY <1>1, <1>4, <2>5, DreamerReads
  <2> QED BY <1>4, <2>4 DEF KeptInv
<1>11. CASE c # Dreamer
  <2>1. \A y \in {x} : JobTells(T, y) /\ ~Saves(y)
    BY <1>7
  <2>2. KeptOk(T)'
    BY <1>1, <1>4, <1>6, <1>9, <1>11, <2>1, OtherLeaves
  <2> QED BY <1>4, <2>2 DEF KeptInv
<1> QED BY <1>10, <1>11

LEMMA LoadKept ==
  ASSUME Typed, KeptInv, NEW c \in Clients, LoadEntry(c)
  PROVE  KeptInv'
<1>1. /\ Busy(c) /\ Job(c).do = "load" /\ Job(c).left \in SUBSET Ids
      /\ Job(c).purpose # "index" /\ Job(c).all \in SUBSET Listings /\ UNCHANGED <<file, kept>>
  BY LoadLeaves
<1>2. c = Dreamer
  <2>1. ~Modest(Job(c))
    BY <1>1 DEF Modest, Saves, Removes, Lists
  <2> QED BY <1>1, <2>1, RestIs
<1>3. PICK id \in Job(c).left, b \in Seq(Jobs) :
        LET y == Load(Job(c).purpose, Job(c).left \ {id}, Job(c).all \cup Held({id}))
        IN Leaves(c, b, {y}) /\ b # <<>> /\ Head(b) = y
  BY LoadLeaves
<1> DEFINE held == Held({id})
           x == Load(Job(c).purpose, Job(c).left \ {id}, Job(c).all \cup held)
           j == Job(c)
<1>4. x.do = "load" /\ x.purpose = j.purpose /\ x.left = j.left \ {id} /\ x.all = j.all \cup held
  BY DEF Load
<1>5. Leaves(c, b, {x}) /\ b # <<>> /\ Head(b) = x
  BY <1>3
<1>6. \A e \in held : e.id = id /\ file[id].there /\ e.entry = file[id].entry
  <2>1. {id} \in SUBSET Ids
    BY <1>1
  <2>2. \A e \in held : e.id \in {id} /\ file[e.id].there /\ e.entry = file[e.id].entry
    BY <2>1, HeldIs
  <2> QED BY <2>2
<1>7. PICK T \in Tellings : KeptOk(T)
  BY DEF KeptInv
<1>8. j \in JobsOf(agenda[Dreamer]) /\ id \in Ids /\ j.do = "load" /\ id \in j.left
  BY <1>1, <1>2, RestIs
<1>9. JobTells(T, j)
  BY <1>2, <1>7, <1>8 DEF KeptOk, AgendasTell
<1>10. file[id].there => file[id].entry.text = Blank \/ file[id].entry.text.tells = T[id]
  BY <1>7, <1>8, TextsRead
<1> HIDE DEF x, held, j
<1>11. JobTells(T, x) /\ ~Removes(x, FALSE) /\ ~Saves(x)
  <2>1. \A e \in x.all : e.entry.text = Blank \/ e.entry.text.tells = T[e.id]
    BY <1>4, <1>6, <1>8, <1>9, <1>10 DEF JobTells
  <2> QED BY <1>4, <2>1 DEF JobTells, Saves, Removes
<1>12. \A i \in Ids : Mentions(x, i) => Mentions(j, i)
  BY <1>4, <1>6, <1>8 DEF Mentions, Saves, IdsOf
<1>13. \A i \in Ids : Settles(x, i) => Settles(j, i) \/ (file[i].there /\ file[i].entry.text # Blank)
  BY <1>4, <1>6, <1>8 DEF Settles, Saves, Removes
<1>14. Sound(T, x)
  BY <1>8, <1>11, <1>12, <1>13 DEF Sound, Known, Decided
<1> DEFINE jobs == {x}
<1>17. /\ Leaves(Dreamer, b, jobs) /\ Busy(Dreamer) /\ Job(Dreamer).do \notin {"open", "write"}
       /\ \A y \in jobs : Sound(T, y) /\ ~Removes(y, FALSE)
  BY <1>1, <1>2, <1>5, <1>11, <1>14
<1> HIDE DEF jobs
<1>18. KeptOk(T)'
  BY <1>1, <1>7, <1>17, DreamerReads
<1> QED BY <1>7, <1>18 DEF KeptInv

\* Nothing is planned when a client drops its first job.
LEMMA DropKept ==
  ASSUME Typed, KeptInv, NEW c \in Clients, Busy(c), Job(c).do \notin {"open", "write"},
         UNCHANGED <<file, kept>>, NEW b \in Seq(Jobs), Leaves(c, b, {}), b = Tail(agenda[c])
  PROVE  KeptInv'
<1>1. PICK T \in Tellings : KeptOk(T)
  BY DEF KeptInv
<1>3. \A id \in Ids : c \notin file[id].writers
  BY <1>1, NotWriting DEF KeptOk
<1> DEFINE jobs == {}
<1>4. Leaves(c, b, jobs) /\ \A x \in jobs : Sound(T, x) /\ ~Removes(x, FALSE) /\ JobTells(T, x) /\ ~Saves(x)
  OBVIOUS
<1> HIDE DEF jobs
<1>5. \A x \in jobs : JobTells(T, x) /\ ~Saves(x)
  BY <1>4
<1>6. \A x \in jobs : Sound(T, x) /\ ~Removes(x, FALSE)
  BY <1>4
<1>7. CASE c = Dreamer
  <2>1. Busy(Dreamer) /\ Job(Dreamer).do \notin {"open", "write"} /\ Leaves(Dreamer, b, jobs)
    BY <1>4, <1>7
  <2>2. KeptOk(T)'
    BY <1>1, <1>6, <2>1, DreamerReads
  <2> QED BY <1>1, <2>2 DEF KeptInv
<1>8. CASE c # Dreamer
  <2>1. KeptOk(T)'
    BY <1>1, <1>3, <1>4, <1>5, <1>8, OtherLeaves
  <2> QED BY <1>1, <2>1 DEF KeptInv
<1> QED BY <1>7, <1>8

LEMMA RebuildKept ==
  ASSUME Typed, KeptInv, NEW c \in Clients, RebuildIndex(c)
  PROVE  KeptInv'
<1>1. Busy(c) /\ Job(c).do = "load" /\ UNCHANGED <<file, kept>>
  BY RebuildLeaves
<1>2. PICK b \in Seq(Jobs) : Leaves(c, b, {}) /\ b = Tail(agenda[c])
  BY RebuildLeaves
<1> QED BY <1>1, <1>2, DropKept

LEMMA CountKept ==
  ASSUME Typed, KeptInv, Count
  PROVE  KeptInv'
<1>1. Busy(Dreamer) /\ Job(Dreamer).do = "load" /\ UNCHANGED <<file, kept>> /\ Dreamer \in Clients
  BY CountLeaves, ClientsAssumption
<1>2. PICK b \in Seq(Jobs) : Leaves(Dreamer, b, {}) /\ b = Tail(agenda[Dreamer])
  BY CountLeaves
<1> QED BY <1>1, <1>2, DropKept

\* An entry that was listed is deleted when its turn comes.
LEMMA VerdictSound ==
  ASSUME NEW T, NEW id \in Ids, \E y \in JobsOf(agenda[Dreamer]) : Mentions(y, id)
  PROVE  Sound(T, Unlink(id, TRUE)) /\ ~Removes(Unlink(id, TRUE), FALSE) /\ Unlink(id, TRUE).do = "unlink"
BY DEF Unlink, Sound, JobTells, Saves, Mentions, Settles, Removes, Known

LEMMA ListedAre ==
  ASSUME Typed, NEW T, KeptOk(T), Busy(Dreamer), Job(Dreamer).do = "load"
  PROVE  /\ Job(Dreamer) \in JobsOf(agenda[Dreamer]) /\ JobTells(T, Job(Dreamer))
         /\ \A id \in IdsOf(Job(Dreamer).all) : id \in Ids /\ Mentions(Job(Dreamer), id)
         /\ \A e \in Job(Dreamer).all : e.id \in Ids /\ e.entry \in Entries
         /\ \A e \in Job(Dreamer).all :
              e.entry.text # Blank => Settles(Job(Dreamer), e.id) /\ e.entry.text.tells = T[e.id]
<1>1. Dreamer \in Clients /\ Doing(Dreamer, "load")
  BY ClientsAssumption DEF Doing, Job
<1>2. Job(Dreamer) \in JobsOf(agenda[Dreamer])
  BY <1>1, RestIs
<1>3. JobTells(T, Job(Dreamer))
  BY <1>1, <1>2 DEF KeptOk, AgendasTell
<1>4. Job(Dreamer).all \in SUBSET Listings /\ IdsOf(Job(Dreamer).all) \in SUBSET Ids
  BY <1>1, LoadedIs
<1> QED BY <1>2, <1>3, <1>4 DEF Listings, Mentions, Settles, JobTells

LEMMA ModelKept ==
  ASSUME Typed, KeptInv, ModelVerdicts
  PROVE  KeptInv'
<1>1. Busy(Dreamer) /\ Job(Dreamer).do = "load" /\ UNCHANGED <<file, kept>> /\ Rest(Dreamer) = {}
  BY ModelLeaves
<1>2. PICK ids \in SUBSET IdsOf(Job(Dreamer).all), b \in Seq(Jobs) :
        \/ Leaves(Dreamer, b, {})
        \/ Leaves(Dreamer, b, {Unlink(id, TRUE) : id \in ids} \cup {List("index")})
  BY ModelLeaves
<1>3. PICK T \in Tellings : KeptOk(T)
  BY DEF KeptInv
<1>4. /\ Job(Dreamer) \in JobsOf(agenda[Dreamer])
      /\ \A id \in ids : id \in Ids /\ Mentions(Job(Dreamer), id)
  BY <1>1, <1>2, <1>3, ListedAre
<1> DEFINE plan == {Unlink(id, TRUE) : id \in ids} \cup {List("index")}
<1>5. \A x \in plan : Sound(T, x) /\ ~Removes(x, FALSE) /\ x.do # "load"
  <2>1. \A id \in ids : /\ Sound(T, Unlink(id, TRUE)) /\ ~Removes(Unlink(id, TRUE), FALSE)
                        /\ Unlink(id, TRUE).do = "unlink"
    BY <1>4, VerdictSound
  <2>2. /\ Sound(T, List("index")) /\ ~Removes(List("index"), FALSE) /\ List("index").do = "list"
    BY ListSound
  <2> QED BY <2>1, <2>2
<1>6. Leaves(Dreamer, b, {}) \/ Leaves(Dreamer, b, plan)
  BY <1>2
<1> HIDE DEF plan
<1>7. PICK jobs : Leaves(Dreamer, b, jobs) /\ \A x \in jobs : x \in plan
  BY <1>6
<1>9. \A x \in jobs : Sound(T, x) /\ ~Removes(x, FALSE)
  BY <1>5, <1>7
<1>10. Job(Dreamer).do \notin {"open", "write"}
  BY <1>1
<1>11. KeptOk(T)'
  BY <1>1, <1>3, <1>7, <1>9, <1>10, DreamerReads
<1> QED BY <1>3, <1>11 DEF KeptInv

LEMMA ClustersKept ==
  ASSUME Typed, KeptInv, DecideClusters
  PROVE  KeptInv'
<1> DEFINE all == Job(Dreamer).all
<1>1. Busy(Dreamer) /\ Job(Dreamer).do = "load" /\ UNCHANGED <<file, kept>> /\ Rest(Dreamer) = {}
  BY ClustersLeave
<1>2. PICK plan, b \in Seq(Jobs) :
        /\ Leaves(Dreamer, b, JobsOf(plan))
        /\ \A x \in JobsOf(plan) :
             \/ \E id \in IdsOf(all) : x = Unlink(id, TRUE)
             \/ x.do = "summarize" /\ x.cluster \subseteq all
  BY ClustersLeave
<1> DEFINE jobs == JobsOf(plan)
<1>3. PICK T \in Tellings : KeptOk(T)
  BY DEF KeptInv
<1>4. /\ Job(Dreamer) \in JobsOf(agenda[Dreamer])
      /\ \A id \in IdsOf(all) : id \in Ids /\ Mentions(Job(Dreamer), id)
      /\ \A e \in all : e.id \in Ids /\ e.entry \in Entries
      /\ \A e \in all : e.entry.text # Blank => Settles(Job(Dreamer), e.id) /\ e.entry.text.tells = T[e.id]
  BY <1>1, <1>3, ListedAre
<1>5. Leaves(Dreamer, b, jobs)
  BY <1>2
<1>6. ASSUME NEW x \in jobs PROVE Sound(T, x) /\ ~Removes(x, FALSE) /\ x.do # "load"
  <2>1. CASE \E id \in IdsOf(all) : x = Unlink(id, TRUE)
    BY <1>4, <2>1, VerdictSound
  <2>2. CASE ~\E id \in IdsOf(all) : x = Unlink(id, TRUE)
    <3>1. x.do = "summarize" /\ \A e \in x.cluster : e \in all
      BY <1>2, <2>2
    <3>2. JobTells(T, x) /\ ~Removes(x, FALSE) /\ \A id : ~Settles(x, id)
      BY <3>1 DEF JobTells, Saves, Removes, Settles
    <3>3. \A id \in Ids : Mentions(x, id) => Mentions(Job(Dreamer), id)
      <4>1. \A id \in Ids : Mentions(x, id) => \E e \in x.cluster : e.id = id
        BY <3>1 DEF Mentions, Saves, IdsOf
      <4>2. \A e \in x.cluster : e.id \in IdsOf(all)
        BY <3>1 DEF IdsOf
      <4> QED BY <1>4, <4>1, <4>2
    <3> QED BY <1>4, <3>1, <3>2, <3>3 DEF Sound, Known
  <2> QED BY <2>1, <2>2
<1>8. \A x \in jobs : Sound(T, x) /\ ~Removes(x, FALSE)
  BY <1>6
<1>9. Job(Dreamer).do \notin {"open", "write"}
  BY <1>1
<1> HIDE DEF jobs
<1>10. KeptOk(T)'
  BY <1>1, <1>3, <1>5, <1>8, <1>9, DreamerReads
<1> QED BY <1>3, <1>10 DEF KeptInv

LEMMA FailureKept ==
  ASSUME Typed, KeptInv, SummaryFails
  PROVE  KeptInv'
<1>1. Busy(Dreamer) /\ Job(Dreamer).do = "summarize" /\ UNCHANGED <<file, kept>> /\ Dreamer \in Clients
  BY FailureLeaves, ClientsAssumption
<1>2. PICK b \in Seq(Jobs) :
        /\ agenda' = [agenda EXCEPT ![Dreamer] = b]
        /\ \A x \in JobsOf(b) : x \in Rest(Dreamer)
        /\ \A x \in JobsOf(b) : x.do = "summarize"
        /\ b # <<>> => Head(b) \in JobsOf(b)
  BY FailureLeaves
<1>3. PICK T \in Tellings : KeptOk(T)
  BY DEF KeptInv
<1>4. \A x \in JobsOf(b) : x \in JobsOf(agenda[Dreamer])
  BY <1>1, <1>2, RestIs
<1>5. \A x \in JobsOf(b) : Sound(T, x)
  BY <1>3, <1>4, RestSound
<1>6. KeptAll(kept', T, b) /\ kept' \subseteq kept
  BY <1>1, <1>3, <1>4, StillAll DEF KeptOk
<1>8. \A id \in Ids : Dreamer \notin file[id].writers
  BY <1>1, <1>3, NotWriting DEF KeptOk
<1>9. KeptOk(T)'
  BY <1>1, <1>2, <1>3, <1>5, <1>6, <1>8, PlanKept
<1> QED BY <1>3, <1>9 DEF KeptInv

\* What a winner that is still there has told, its file tells.
LEMMA HereTells ==
  ASSUME Typed, NEW T \in Tellings, KeptOk(T), Busy(Dreamer), Job(Dreamer).do = "load",
         NEW won \in SUBSET Job(Dreamer).all, NEW f,
         f \in ToldBy({w \in won : file[w.id].there})
  PROVE  \E id \in Ids : f \in T[id] /\ file[id].there /\ id \notin IdsOf(Job(Dreamer).all \ won)
<1> DEFINE j == Job(Dreamer)
           all == j.all
<1>1. /\ \A e \in all : e.id \in Ids
      /\ \A e \in all : e.entry.text # Blank => e.entry.text.tells = T[e.id]
  BY ListedAre
<1>2. \A d, e \in all : d.id = e.id => d = e
  <2>1. Doing(Dreamer, "load") /\ Dreamer \in Clients
    BY ClientsAssumption DEF Doing, Job
  <2> QED BY <2>1, LoadedIs DEF LoadOk
<1>3. PICK w \in won : file[w.id].there /\ f \in w.entry.text.tells
  BY DEF ToldBy
<1>4. w.entry.text # Blank
  BY <1>3 DEF Blank
<1>5. w.id \notin IdsOf(all \ won)
  BY <1>2 DEF IdsOf
<1> QED BY <1>1, <1>3, <1>4, <1>5

\* What is still kept when duplicates are removed, a file tells that is not removed.
LEMMA WinnersTell ==
  ASSUME Typed, NEW T \in Tellings, KeptOk(T), Busy(Dreamer), Job(Dreamer).do = "load",
         NEW won \in SUBSET Job(Dreamer).all, Winners(Job(Dreamer).all, won),
         NEW f \in kept, f \notin Overlooked(Job(Dreamer).all \ won, won)
  PROVE  \E id \in Ids : f \in T[id] /\ file[id].there /\ id \notin IdsOf(Job(Dreamer).all \ won)
<1> DEFINE all == Job(Dreamer).all
           losers == all \ won
           here == {w \in won : file[w.id].there}
<1>1. PICK i \in Ids : file[i].there /\ f \in T[i]
  BY DEF KeptOk, SavedAll
<1>2. CASE i \notin IdsOf(losers)
  BY <1>1, <1>2
<1>3. CASE i \in IdsOf(losers)
  <2>1. f \in Written(i)
    BY <1>1, WrittenIs DEF KeptOk
  <2>2. PICK e \in losers : e.id = i
    BY <1>3 DEF IdsOf
  <2>3. f \in WrittenIn(losers)
    BY <2>1, <2>2 DEF WrittenIn
  <2>4. f \in ToldBy(here) \/ (f \in ToldBy(losers) /\ f \notin ToldBy(won \ here))
    BY <2>3 DEF Overlooked
  <2>5. ASSUME f \in ToldBy(losers), f \notin ToldBy(won \ here) PROVE f \in ToldBy(here)
    <3>1. PICK d \in losers : f \in d.entry.text.tells
      BY <2>5 DEF ToldBy
    <3>2. PICK w \in won : w.entry.text = d.entry.text
      BY <3>1 DEF Winners, SameBody
    <3>3. w \in here
      BY <2>5, <3>1, <3>2 DEF ToldBy
    <3> QED BY <3>1, <3>2, <3>3 DEF ToldBy
  <2>6. f \in ToldBy(here)
    BY <2>4, <2>5
  <2> QED BY <2>6, HereTells
<1> QED BY <1>2, <1>3

LEMMA DreamJobsSound ==
  ASSUME Typed, NEW T \in Tellings, KeptOk(T), Busy(Dreamer), Job(Dreamer).do = "load",
         Job(Dreamer).purpose = "dream", NEW won \in SUBSET Job(Dreamer).all,
         Winners(Job(Dreamer).all, won), NEW x \in DreamPlan(Job(Dreamer).all, won)
  PROVE  /\ Sound(T, x)
         /\ Removes(x, FALSE) => x.id \in IdsOf(Job(Dreamer).all \ won)
<1> DEFINE j == Job(Dreamer)
           all == j.all
<1>1. /\ j.do = "load" /\ j \in JobsOf(agenda[Dreamer])
      /\ \A id \in IdsOf(all) : id \in Ids /\ Mentions(j, id)
      /\ \A e \in all : e.id \in Ids /\ e.entry \in Entries
      /\ \A e \in all : e.entry.text # Blank => Settles(j, e.id) /\ e.entry.text.tells = T[e.id]
  BY ListedAre
<1>2. \A e \in all : e.id \in IdsOf(all)
  BY DEF IdsOf
<1>3. CASE \E id \in IdsOf(all \ won) : x = Unlink(id, FALSE)
  <2>1. PICK e \in all \ won : x = Unlink(e.id, FALSE)
    BY <1>3 DEF IdsOf
  <2>2. x.do = "unlink" /\ x.id = e.id /\ x.asked = FALSE
    BY <2>1 DEF Unlink
  <2>3. Mentions(j, e.id)
    BY <1>1, <1>2
  <2>4. x.id \in IdsOf(all \ won)
    BY <2>2 DEF IdsOf
  <2> HIDE DEF j
  <2>5. \A id \in Ids : (Mentions(x, id) => id = e.id) /\ ~Settles(x, id)
    BY <2>2 DEF Mentions, Settles, Saves
  <2>6. JobTells(T, x)
    BY <2>2 DEF JobTells, Saves
  <2> QED BY <1>1, <2>2, <2>3, <2>4, <2>5, <2>6 DEF Sound, Known, j
<1>4. CASE \E w \in Relative(won) : x = Open(w.id, Stamped(w.entry))
  <2>1. PICK w \in Relative(won) : x = Open(w.id, Stamped(w.entry))
    BY <1>4
  <2>2. w \in all /\ w.entry.text.relative /\ w.id \in Ids /\ w.entry \in Entries
    BY <1>1, <2>1 DEF Relative
  <2>3. w.entry.text # Blank
    BY <2>2 DEF Blank
  <2>4. Settles(j, w.id) /\ Mentions(j, w.id) /\ w.entry.text.tells = T[w.id]
    BY <1>1, <1>2, <2>2, <2>3
  <2>5. x.do = "open" /\ x.id = w.id /\ x.entry.text.tells = w.entry.text.tells
    BY <2>1, <2>2 DEF Open, Stamped, Entries, Texts
  <2> HIDE DEF j
  <2>6. \A id \in Ids : Mentions(x, id) \/ Settles(x, id) => id = w.id
    BY <2>5 DEF Mentions, Settles, Saves, Removes
  <2>7. JobTells(T, x)
    BY <2>4, <2>5 DEF JobTells, Saves
  <2> QED BY <1>1, <2>4, <2>5, <2>6, <2>7 DEF Sound, Known, Decided, j, Removes
<1>5. CASE \E id \in IdsOf(Stale(won)) : x = Unlink(id, TRUE)
  <2>1. PICK id \in IdsOf(Stale(won)) : x = Unlink(id, TRUE)
    BY <1>5
  <2>2. id \in IdsOf(all)
    BY DEF IdsOf, Stale
  <2> QED BY <1>1, <2>1, <2>2, VerdictSound
<1>6. CASE x = List("index") \/ x = List("count")
  <2>1. Sound(T, x) /\ ~Removes(x, FALSE) /\ x.do = "list"
    BY <1>6, ListSound
  <2> QED BY <2>1
<1> QED BY <1>3, <1>4, <1>5, <1>6 DEF DreamPlan

LEMMA DecideDreamKept ==
  ASSUME Typed, KeptInv, DecideDream
  PROVE  KeptInv'
<1> DEFINE all == Job(Dreamer).all
<1>1. /\ Busy(Dreamer) /\ Job(Dreamer).do = "load" /\ Job(Dreamer).purpose = "dream"
      /\ UNCHANGED file /\ \A y \in Rest(Dreamer) : y = List("model")
  BY DreamLeaves
<1>2. PICK won \in SUBSET all, b \in Seq(Jobs) :
        /\ Winners(all, won) /\ kept' = kept \ Overlooked(all \ won, won)
        /\ Leaves(Dreamer, b, DreamPlan(all, won))
  BY DreamLeaves
<1>3. PICK T \in Tellings : KeptOk(T)
  BY DEF KeptInv
<1> DEFINE plan == DreamPlan(all, won)
<1>4. Leaves(Dreamer, b, plan)
  BY <1>2
<1>5. \A x \in plan : Sound(T, x) /\ (Removes(x, FALSE) => x.id \in IdsOf(all \ won))
  BY <1>1, <1>2, <1>3, DreamJobsSound
<1> HIDE DEF plan
<1>6. \A y \in Rest(Dreamer) : ~Removes(y, FALSE)
  BY <1>1 DEF List, Removes
<1>7. JobsOf(b) = plan \cup Rest(Dreamer)
  BY <1>4 DEF Leaves
<1>8. KeptAll(kept', T, b)
  <2>1. ASSUME NEW f \in kept' PROVE \E id \in Ids : f \in T[id] /\ ~Condemned(b, id) /\ file[id].there
    <3>1. PICK id \in Ids : f \in T[id] /\ file[id].there /\ id \notin IdsOf(all \ won)
      BY <1>1, <1>2, <1>3, <2>1, WinnersTell
    <3>2. ~Condemned(b, id)
      BY <1>5, <1>6, <1>7, <3>1 DEF Condemned
    <3> QED BY <3>1, <3>2
  <2> QED BY <2>1 DEF KeptAll
<1>9. (\A x \in plan : Sound(T, x)) /\ kept' \subseteq kept
  BY <1>2, <1>5
<1>10. Job(Dreamer).do \notin {"open", "write"}
  BY <1>1
<1>11. KeptOk(T)'
  BY <1>1, <1>3, <1>4, <1>8, <1>9, <1>10, DreamerLeaves
<1> QED BY <1>3, <1>11 DEF KeptInv

LEMMA SummaryKept ==
  ASSUME Typed, KeptInv, SummarizeCluster
  PROVE  KeptInv'
<1> DEFINE j == Job(Dreamer)
           n == issued + 1
<1>1. /\ Busy(Dreamer) /\ j.do = "summarize" /\ j \in SummarizeJobs
      /\ n \in Ids /\ n > issued /\ UNCHANGED file /\ Dreamer \in Clients
      /\ \A y \in Rest(Dreamer) : y.do = "summarize"
  BY ClusterLeaves, ClientsAssumption
<1>2. PICK told \in SUBSET Facts, b \in Seq(Jobs) :
        /\ kept' = kept \ (WrittenIn(j.cluster) \ told)
        /\ Leaves(Dreamer, b, {Open(n, Summary(told))} \cup {Unlink(id, FALSE) : id \in IdsOf(j.cluster)})
        /\ b # <<>> /\ Head(b) = Open(n, Summary(told))
  BY ClusterLeaves
<1> DEFINE x == Open(n, Summary(told))
           plan == {x} \cup {Unlink(id, FALSE) : id \in IdsOf(j.cluster)}
<1>3. PICK T \in Tellings : KeptOk(T)
  BY DEF KeptInv
<1>4. j \in JobsOf(agenda[Dreamer])
  BY <1>1, RestIs
<1>5. \A e \in j.cluster : e.id \in Ids
  BY <1>1 DEF SummarizeJobs, Listings
<1>6. Leaves(Dreamer, b, plan) /\ b # <<>> /\ Head(b) = x
  BY <1>2
<1>7. x.do = "open" /\ x.id = n /\ x.entry.text.tells = told
  BY DEF Open, Summary, Entry
<1>8. PICK U \in Tellings : U = [T EXCEPT ![n] = told] /\ KeptOk(U)
  BY <1>1, <1>3, Extended
<1>9. U[n] = told
  BY <1>1, <1>3, <1>8 DEF Tellings
<1>10. \A i \in IdsOf(j.cluster) : i \in Ids /\ Mentions(j, i) /\ i # n
  <2>1. JobOk(j, issued)
    BY <1>1, RestIs
  <2>2. ~(n <= issued)
    BY <1>1 DEF Typed
  <2> QED BY <1>1, <1>5, <2>1, <2>2 DEF IdsOf, Mentions, JobOk
<1>11. \A y \in plan : y = x \/ \E i \in IdsOf(j.cluster) : y = Unlink(i, FALSE)
  OBVIOUS
<1> HIDE DEF x, n, plan, j
<1>12. Sound(U, x) /\ ~Removes(x, FALSE)
  <2>1. \A id \in Ids : Mentions(x, id) \/ Settles(x, id) => id > issued
    BY <1>1, <1>7 DEF Mentions, Settles
  <2>2. JobTells(U, x)
    BY <1>7, <1>9 DEF JobTells
  <2> QED BY <1>7, <2>1, <2>2 DEF Sound, Known, Decided, Removes
<1>13. ASSUME NEW i \in IdsOf(j.cluster)
       PROVE  /\ Sound(U, Unlink(i, FALSE)) /\ Unlink(i, FALSE).id = i
  <2>1. Unlink(i, FALSE).do = "unlink" /\ Unlink(i, FALSE).id = i
    BY DEF Unlink
  <2>2. \A id \in Ids : /\ Mentions(Unlink(i, FALSE), id) => id = i
                        /\ ~Settles(Unlink(i, FALSE), id)
    BY <2>1 DEF Mentions, Settles, Saves
  <2>3. JobTells(U, Unlink(i, FALSE))
    BY <2>1 DEF JobTells, Saves
  <2> QED BY <1>4, <1>10, <2>1, <2>2, <2>3 DEF Sound, Known
<1>14. /\ \A y \in plan : Sound(U, y)
       /\ \A y \in plan : Removes(y, FALSE) => y.id \in IdsOf(j.cluster)
  BY <1>11, <1>12, <1>13
<1>15. KeptAll(kept', U, b)
  <2>1. ASSUME NEW i \in Ids, i \notin IdsOf(j.cluster) PROVE ~Condemned(b, i)
    <3>1. \A y \in JobsOf(b) : y \in plan \/ y.do = "summarize"
      BY <1>1, <1>6 DEF Leaves
    <3> QED BY <1>14, <2>1, <3>1 DEF Condemned, Removes
  <2>2. ASSUME NEW f \in kept'
        PROVE \E id \in Ids : f \in U[id] /\ ~Condemned(b, id) /\ (file[id].there \/ Opens(b, id))
    <3>1. PICK i \in Ids : file[i].there /\ f \in U[i]
      BY <1>2, <1>8, <2>2 DEF KeptOk, SavedAll
    <3>2. CASE i \in IdsOf(j.cluster)
      <4>1. f \in Written(i)
        BY <1>8, <3>1, WrittenIs DEF KeptOk
      <4>2. f \in WrittenIn(j.cluster)
        BY <3>2, <4>1 DEF WrittenIn, IdsOf
      <4>3. f \in U[n] /\ n \notin IdsOf(j.cluster) /\ n \in Ids
        BY <1>1, <1>2, <1>9, <1>10, <2>2, <4>2
      <4>4. Opens(b, n)
        BY <1>6, <1>7 DEF Opens
      <4> QED BY <2>1, <4>3, <4>4
    <3>3. CASE i \notin IdsOf(j.cluster)
      BY <2>1, <3>1, <3>3
    <3> QED BY <3>2, <3>3
  <2> QED BY <2>2 DEF KeptAll
<1>16. Job(Dreamer).do \notin {"open", "write"}
  BY <1>1 DEF j
<1>17. Leaves(Dreamer, b, plan) /\ (\A y \in plan : Sound(U, y)) /\ kept' \subseteq kept
  BY <1>2, <1>6, <1>14
<1>18. KeptOk(U)'
  BY <1>1, <1>8, <1>15, <1>16, <1>17, DreamerLeaves
<1> QED BY <1>8, <1>18 DEF KeptInv

-----------------------------------------------------------------------------
(* What clients write and delete. *)

\* What a client is about to save, nothing that is left to the consolidating one is about.
LEMMA ApartIs ==
  ASSUME Typed, NEW T \in Tellings, KeptOk(T), NEW o \in Clients \ {Dreamer}, Busy(o)
  PROVE  /\ \A y \in Rest(o) : ~Saves(y)
         /\ Job(o).do = "open" =>
              ~file[Job(o).id].there /\ \A x \in JobsOf(agenda[Dreamer]) : ~Mentions(x, Job(o).id)
         /\ Job(o).do = "write" =>
              /\ file[Job(o).id].there => o \in file[Job(o).id].writers
              /\ \A x \in JobsOf(agenda[Dreamer]) : ~Settles(x, Job(o).id)
         /\ Saves(Job(o)) => Job(o).id \in Ids
<1>1. HeldApart(o, agenda[o], agenda[Dreamer]) /\ agenda[o] # <<>>
  BY DEF KeptOk, Apart, Busy
<1>2. Job(o) = Head(agenda[o]) /\ Rest(o) = JobsOf(Tail(agenda[o]))
  BY DEF Job, Rest
<1>3. Saves(Job(o)) => Job(o).id \in Ids
  BY RestIs, JobKinds DEF Saves, OpenJobs, WriteJobs
<1> QED BY <1>1, <1>2, <1>3 DEF HeldApart

LEMMA ApartShown ==
  ASSUME NEW o, NEW a, NEW b,
         a # <<>> =>
           /\ \A y \in JobsOf(Tail(a)) : ~Saves(y)
           /\ Head(a).do = "open" =>
                ~file'[Head(a).id].there /\ \A x \in JobsOf(b) : ~Mentions(x, Head(a).id)
           /\ Head(a).do = "write" =>
                /\ file'[Head(a).id].there => o \in file'[Head(a).id].writers
                /\ \A x \in JobsOf(b) : ~Settles(x, Head(a).id),
         agenda'[o] = a, agenda'[Dreamer] = b
  PROVE  HeldApart(o, agenda[o], agenda[Dreamer])'
BY DEF HeldApart

\* Two other clients save entries of their own.
LEMMA OwnFile ==
  ASSUME Typed, NEW T \in Tellings, KeptOk(T), NEW c \in Clients \ {Dreamer},
         NEW o \in Clients \ {Dreamer}, o # c, Busy(c), Saves(Job(c)),
         agenda[o] # <<>>, Saves(Head(agenda[o]))
  PROVE  Head(agenda[o]).id \in Ids /\ Head(agenda[o]).id # Job(c).id
<1>1. Head(agenda[o]).id \in Ids
  BY ApartIs DEF Busy, Job
<1>2. ASSUME Head(agenda[o]).id = Job(c).id PROVE FALSE
  <2>1. Saving(agenda[o], Head(agenda[o]).id) /\ Saving(agenda[c], Head(agenda[o]).id)
    BY <1>2 DEF Saving, Busy, Job
  <2> QED BY <1>1, <2>1 DEF KeptOk, OwnEntries
<1> QED BY <1>1, <1>2

LEMMA OthersApart ==
  ASSUME Typed, NEW T \in Tellings, KeptOk(T), NEW o \in Clients \ {Dreamer},
         agenda'[o] = agenda[o], agenda'[Dreamer] = agenda[Dreamer],
         agenda[o] # <<>> /\ Saves(Head(agenda[o])) =>
           \/ file'[Head(agenda[o]).id] = file[Head(agenda[o]).id]
           \/ ~file'[Head(agenda[o]).id].there
  PROVE  HeldApart(o, agenda[o], agenda[Dreamer])'
<1>1. HeldApart(o, agenda[o], agenda[Dreamer])
  BY DEF KeptOk, Apart
<1>2. agenda[o] # <<>> =>
        /\ \A y \in JobsOf(Tail(agenda[o])) : ~Saves(y)
        /\ Head(agenda[o]).do = "open" =>
             /\ ~file'[Head(agenda[o]).id].there
             /\ \A x \in JobsOf(agenda[Dreamer]) : ~Mentions(x, Head(agenda[o]).id)
        /\ Head(agenda[o]).do = "write" =>
             /\ file'[Head(agenda[o]).id].there => o \in file'[Head(agenda[o]).id].writers
             /\ \A x \in JobsOf(agenda[Dreamer]) : ~Settles(x, Head(agenda[o]).id)
  BY <1>1 DEF HeldApart, Saves
<1> QED BY <1>2, ApartShown

LEMMA StillOwn ==
  ASSUME OwnEntries, NEW c \in Clients, \A d \in Clients \ {c} : agenda'[d] = agenda[d],
         \A id \in Ids : Saving(agenda'[c], id) => Saving(agenda[c], id)
  PROVE  OwnEntries'
<1>1. \A d \in Clients, id \in Ids : Saving(agenda'[d], id) => Saving(agenda[d], id)
  OBVIOUS
<1>2. \A o, p \in Clients \ {Dreamer} : \A id \in Ids :
        Saving(agenda'[o], id) /\ Saving(agenda'[p], id) => o = p
  BY <1>1 DEF OwnEntries
<1> QED BY <1>2 DEF OwnEntries, Saving

LEMMA CondemnedIs ==
  ASSUME Typed, NEW id \in Ids, Condemned(agenda[Dreamer], id)
  PROVE  Doomed(id)
<1>1. PICK n \in DOMAIN agenda[Dreamer] :
        Removes(agenda[Dreamer][n], FALSE) /\ agenda[Dreamer][n].id = id
  BY DEF Condemned, JobsOf
<1> DEFINE y == agenda[Dreamer][n]
<1>2. y \in Jobs
  BY ClientsAssumption DEF Typed
<1>3. y \in UnlinkJobs /\ y.asked = FALSE /\ y.id = id
  BY <1>1, <1>2, JobKinds DEF Removes
<1>4. y = Unlink(id, FALSE)
  <2> HIDE DEF y
  <2> QED BY <1>3 DEF UnlinkJobs, Unlink
<1> QED BY <1>4 DEF Doomed

LEMMA OpenKept ==
  ASSUME Typed, KeptInv, NEW c \in Clients, OpenFile(c)
  PROVE  KeptInv'
<1> DEFINE j == Job(c)
           id == Job(c).id
           x == Write(id, j.entry)
<1>1. Busy(c) /\ j.do = "open" /\ j \in OpenJobs /\ id \in Ids /\ kept' = kept /\ Dreamer \in Clients
  BY OpenLeaves, ClientsAssumption
<1>2. PICK b \in Seq(Jobs) :
        /\ Leaves(c, b, {x, List("index")})
        /\ b # <<>> /\ Head(b) = x
        /\ JobsOf(Tail(b)) = {List("index")} \cup Rest(c)
  BY OpenLeaves
<1>3. /\ file'[id].there /\ file'[id].entry.text = Blank /\ file'[id].writers = file[id].writers \cup {c}
      /\ \A i \in Ids \ {id} : file'[i] = file[i]
  <2> DEFINE f == [there |-> TRUE, entry |-> Entry(Blank, 2), writers |-> file[id].writers \cup {c}]
  <2>1. file' = [file EXCEPT ![id] = f] /\ file \in [Ids -> Files]
    BY OpenLeaves DEF Typed
  <2>2. f.there /\ f.entry.text = Blank /\ f.writers = file[id].writers \cup {c}
    BY DEF Entry
  <2> HIDE DEF f
  <2>3. file'[id] = f /\ \A i \in Ids \ {id} : file'[i] = file[i]
    BY <1>1, <2>1
  <2> QED BY <2>2, <2>3
<1>4. agenda'[c] = b /\ \A d \in Clients \ {c} : agenda'[d] = agenda[d]
  BY <1>2 DEF Leaves, Typed
<1>5. PICK T \in Tellings : KeptOk(T)
  BY DEF KeptInv
<1>6. /\ x.do = "write" /\ x.id = id /\ x.entry = j.entry
      /\ List("index").do = "list"
      /\ \A i : ~Mentions(List("index"), i) /\ ~Settles(List("index"), i)
      /\ ~Saves(List("index"))
  BY DEF Write, List, Mentions, Settles, Saves, Removes
<1>7. j \in JobsOf(agenda[c]) /\ JobsOf(agenda[c]) = {j} \cup Rest(c)
  BY <1>1, RestIs
<1>8. /\ \A y \in JobsOf(b) : y = x \/ y = List("index") \/ y \in Rest(c)
      /\ \A y \in JobsOf(Tail(b)) : y = List("index") \/ y \in Rest(c)
  BY <1>2 DEF Leaves
<1> HIDE DEF x, j
<1>9. AgendasTell(T)'
  <2>1. ASSUME NEW y \in JobsOf(b) PROVE JobTells(T, y)
    <3>1. CASE y = x
      <4>1. JobTells(T, j)
        BY <1>5, <1>7 DEF KeptOk, AgendasTell
      <4>2. j.entry.text.tells = T[id]
        BY <1>1, <4>1 DEF JobTells, Saves, j
      <4> QED BY <1>6, <3>1, <4>2 DEF JobTells
    <3>2. CASE y = List("index")
      BY <3>2, ListSound DEF Sound
    <3>3. CASE y \in Rest(c)
      BY <1>5, <1>7, <3>3 DEF KeptOk, AgendasTell
    <3> QED BY <1>8, <3>1, <3>2, <3>3
  <2>2. \A d \in Clients : \A y \in JobsOf(agenda'[d]) : JobTells(T, y)
    BY <1>4, <1>5, <2>1 DEF KeptOk, AgendasTell
  <2> QED BY <2>2 DEF AgendasTell
<1>10. FilesOk(T)'
  <2>1. \A i \in Ids : c \notin file[i].writers
    BY <1>1, <1>5, NotWriting DEF KeptOk, j
  <2>2. \A i \in Ids : \A d \in file[i].writers :
          /\ d \in Clients /\ agenda'[d] = agenda[d]
          /\ agenda[d] # <<>> /\ Head(agenda[d]).do = "write" /\ Head(agenda[d]).id = i
    BY <1>4, <1>5, <2>1 DEF KeptOk, FilesOk, Typed, Files, Busy, Job
  <2>3. agenda'[c] # <<>> /\ Head(agenda'[c]).do = "write" /\ Head(agenda'[c]).id = id
    BY <1>2, <1>4, <1>6
  <2>4. \A i \in Ids : \A d \in file'[i].writers :
          agenda'[d] # <<>> /\ Head(agenda'[d]).do = "write" /\ Head(agenda'[d]).id = i
    BY <1>3, <2>2, <2>3
  <2>5. \A i \in Ids \ {id} :
          /\ ~file[i].there => file[i].writers = {} /\ file[i].entry.text = Blank
          /\ file[i].there =>
               IF file[i].writers = {} THEN file[i].entry.text.tells = T[i] ELSE file[i].entry.text = Blank
    BY <1>5 DEF KeptOk, FilesOk
  <2>6. file'[id].writers # {}
    BY <1>3
  <2> QED BY <1>3, <2>4, <2>5, <2>6 DEF FilesOk, Busy, Job
<1>11. ASSUME NEW o \in Clients \ {Dreamer} PROVE HeldApart(o, agenda[o], agenda[Dreamer])'
  <2>1. CASE c = Dreamer
    <3>1. ASSUME agenda[o] # <<>>
          PROVE  /\ \A y \in JobsOf(Tail(agenda[o])) : ~Saves(y)
                 /\ Head(agenda[o]).do = "open" =>
                      ~file'[Head(agenda[o]).id].there
                      /\ \A y \in JobsOf(b) : ~Mentions(y, Head(agenda[o]).id)
                 /\ Head(agenda[o]).do = "write" =>
                      /\ file'[Head(agenda[o]).id].there => o \in file'[Head(agenda[o]).id].writers
                      /\ \A y \in JobsOf(b) : ~Settles(y, Head(agenda[o]).id)
      <4>1. Busy(o) /\ Job(o) = Head(agenda[o]) /\ Rest(o) = JobsOf(Tail(agenda[o]))
        BY <3>1 DEF Busy, Job, Rest
      <4>2. Mentions(j, id) /\ Settles(j, id)
        BY <1>1 DEF Mentions, Settles, Saves, j
      <4>3. /\ \A i : Mentions(x, i) => i = id
            /\ \A i : Settles(x, i) => i = id
        BY <1>6 DEF Mentions, Settles, Saves, Removes
      <4>4. \A y \in Rest(c) : y \in JobsOf(agenda[Dreamer])
        BY <1>7, <2>1
      <4>5. \A y \in JobsOf(Tail(agenda[o])) : ~Saves(y)
        BY <1>5, <4>1, ApartIs
      <4>6. ASSUME Job(o).do = "open"
            PROVE  ~file'[Job(o).id].there /\ \A y \in JobsOf(b) : ~Mentions(y, Job(o).id)
        <5>1. /\ ~file[Job(o).id].there /\ Job(o).id \in Ids
              /\ \A y \in JobsOf(agenda[Dreamer]) : ~Mentions(y, Job(o).id)
          BY <1>5, <4>1, <4>6, ApartIs DEF Saves
        <5>2. Job(o).id # id
          BY <1>7, <2>1, <4>2, <5>1
        <5> QED BY <1>3, <1>6, <1>8, <4>3, <4>4, <5>1, <5>2
      <4>7. ASSUME Job(o).do = "write"
            PROVE  /\ file'[Job(o).id].there => o \in file'[Job(o).id].writers
                   /\ \A y \in JobsOf(b) : ~Settles(y, Job(o).id)
        <5>1. /\ file[Job(o).id].there => o \in file[Job(o).id].writers
              /\ Job(o).id \in Ids
              /\ \A y \in JobsOf(agenda[Dreamer]) : ~Settles(y, Job(o).id)
          BY <1>5, <4>1, <4>7, ApartIs DEF Saves
        <5>2. Job(o).id # id
          BY <1>7, <2>1, <4>2, <5>1
        <5> QED BY <1>3, <1>6, <1>8, <4>3, <4>4, <5>1, <5>2
      <4> QED BY <4>1, <4>5, <4>6, <4>7
    <3>2. agenda'[o] = agenda[o] /\ agenda'[Dreamer] = b
      BY <1>4, <2>1
    <3> QED BY <3>1, <3>2, ApartShown
  <2>2. CASE c # Dreamer
    <3>1. CASE o = c
      <4>1. /\ \A y \in Rest(c) : ~Saves(y)
            /\ \A y \in JobsOf(agenda[Dreamer]) : ~Mentions(y, id)
        BY <1>1, <1>5, <2>2, ApartIs DEF j
      <4>2. \A y \in JobsOf(Tail(b)) : ~Saves(y)
        BY <1>6, <1>8, <4>1
      <4>3. \A y \in JobsOf(agenda[Dreamer]) : ~Settles(y, id)
        BY <4>1 DEF Settles, Mentions, IdsOf
      <4>4. o \in file'[id].writers
        BY <1>3, <3>1
      <4>5. agenda'[o] = b /\ agenda'[Dreamer] = agenda[Dreamer]
        BY <1>1, <1>4, <2>2, <3>1
      <4> QED BY <1>2, <1>6, <4>2, <4>3, <4>4, <4>5, ApartShown
    <3>2. CASE o # c
      <4>1. agenda'[o] = agenda[o] /\ agenda'[Dreamer] = agenda[Dreamer]
        BY <1>1, <1>4, <2>2, <3>2
      <4>2. Busy(c) /\ Saves(Job(c)) /\ c \in Clients \ {Dreamer}
        BY <1>1, <2>2 DEF Saves, j
      <4>3. ASSUME agenda[o] # <<>>, Saves(Head(agenda[o]))
            PROVE  file'[Head(agenda[o]).id] = file[Head(agenda[o]).id]
        BY <1>3, <1>5, <3>2, <4>2, <4>3, OwnFile
      <4> QED BY <1>5, <4>1, <4>3, OthersApart
    <3> QED BY <3>1, <3>2
  <2> QED BY <2>1, <2>2
<1>12. SavedAll(T)'
  BY <1>1, <1>3, <1>5 DEF KeptOk, SavedAll
<1>13. KeptAll(kept, T, agenda[Dreamer])'
  <2>1. ASSUME NEW f \in kept
        PROVE  \E i \in Ids : f \in T[i] /\ ~Condemned(agenda'[Dreamer], i)
                              /\ (file'[i].there \/ Opens(agenda'[Dreamer], i))
    <3>1. PICK i \in Ids : /\ f \in T[i] /\ ~Condemned(agenda[Dreamer], i)
                           /\ file[i].there \/ Opens(agenda[Dreamer], i)
      BY <1>5 DEF KeptOk, KeptAll
    <3>2. CASE c = Dreamer
      <4>1. ~Condemned(b, i)
        <5>1. ~Removes(x, FALSE) /\ ~Removes(List("index"), FALSE)
          BY <1>6 DEF Removes
        <5> QED BY <1>7, <1>8, <3>1, <3>2, <5>1 DEF Condemned
      <4>2. Opens(agenda[Dreamer], i) => i = id
        BY <3>2 DEF Opens, Job
      <4>3. file'[i].there
        BY <1>3, <3>1, <4>2
      <4> QED BY <1>4, <3>1, <3>2, <4>1, <4>3
    <3>3. CASE c # Dreamer
      <4>1. agenda'[Dreamer] = agenda[Dreamer]
        BY <1>1, <1>4, <3>3
      <4>2. file[i].there => file'[i].there
        BY <1>3
      <4> QED BY <3>1, <4>1, <4>2
    <3> QED BY <3>2, <3>3
  <2> QED BY <1>1, <2>1 DEF KeptAll
<1>14. OwnEntries'
  <2>1. \A i \in Ids : Saving(b, i) => i = id
    BY <1>2, <1>6 DEF Saving
  <2>2. Saving(agenda[c], id)
    BY <1>1 DEF Saving, Saves, Busy, Job, j
  <2>3. \A i \in Ids : Saving(agenda'[c], i) => Saving(agenda[c], i)
    BY <1>4, <2>1, <2>2
  <2> QED BY <1>4, <1>5, <2>3, StillOwn DEF KeptOk
<1>15. KeptOk(T)'
  BY <1>9, <1>10, <1>11, <1>12, <1>13, <1>14 DEF KeptOk, Apart
<1> QED BY <1>5, <1>15 DEF KeptInv

\* What a client writes to a file that was unlinked meanwhile is lost.
LEMMA LostKept ==
  ASSUME Typed, NEW T \in Tellings, KeptOk(T), NEW c \in Clients, Busy(c), Job(c).do = "write",
         c \notin file[Job(c).id].writers, UNCHANGED <<file, kept>>,
         NEW b \in Seq(Jobs), Leaves(c, b, {}), b # <<>>, Head(b) = List("index")
  PROVE  KeptOk(T)'
<1>1. \A id \in Ids : c \notin file[id].writers
  BY DEF KeptOk, FilesOk
<1>2. agenda' = [agenda EXCEPT ![c] = b] /\ JobsOf(b) = Rest(c)
  BY DEF Leaves
<1>3. \A x \in JobsOf(b) : x \in JobsOf(agenda[c])
  BY <1>2, RestIs
<1>5. CASE c = Dreamer
  <2>1. \A x \in JobsOf(b) : Sound(T, x) /\ x \in JobsOf(agenda[Dreamer])
    BY <1>3, <1>5, RestSound
  <2>2. KeptAll(kept', T, b) /\ kept' \subseteq kept
    BY <1>5, <2>1, StillAll DEF KeptOk
  <2>3. \A x \in JobsOf(b) : Sound(T, x)
    BY <2>1
  <2>4. agenda' = [agenda EXCEPT ![Dreamer] = b] /\ \A id \in Ids : Dreamer \notin file[id].writers
    BY <1>1, <1>2, <1>5
  <2> QED BY <2>2, <2>3, <2>4, PlanKept
<1>6. CASE c # Dreamer
  <2> DEFINE jobs == {}
  <2>1. Leaves(c, b, jobs) /\ \A x \in jobs : JobTells(T, x) /\ ~Saves(x)
    OBVIOUS
  <2> HIDE DEF jobs
  <2> QED BY <1>1, <1>6, <2>1, OtherLeaves
<1> QED BY <1>5, <1>6

LEMMA WrittenKept ==
  ASSUME Typed, NEW T \in Tellings, KeptOk(T), NEW c \in Clients, Busy(c),
         Job(c).do = "write", Job(c).id \in Ids, c \in file[Job(c).id].writers,
         kept' = kept \cup (IF Doomed(Job(c).id) THEN {} ELSE Job(c).entry.text.tells),
         \A i \in Ids \ {Job(c).id} : file'[i] = file[i],
         file'[Job(c).id].there = file[Job(c).id].there,
         file'[Job(c).id].entry = Job(c).entry,
         file'[Job(c).id].writers = file[Job(c).id].writers \ {c},
         NEW b \in Seq(Jobs), Leaves(c, b, {}), b # <<>>, Head(b) = List("index")
  PROVE  KeptOk(T)'
<1> DEFINE j == Job(c)
           id == Job(c).id
<1>0. Dreamer \in Clients
  BY ClientsAssumption
<1>1. agenda'[c] = b /\ (\A d \in Clients \ {c} : agenda'[d] = agenda[d]) /\ JobsOf(b) = Rest(c)
  BY DEF Leaves, Typed
<1>2. j \in JobsOf(agenda[c]) /\ \A y \in JobsOf(b) : y \in JobsOf(agenda[c])
  BY <1>1, RestIs
<1>3. j.entry.text.tells = T[id] /\ T[id] \in SUBSET Facts
  BY <1>2 DEF KeptOk, AgendasTell, JobTells, Saves, Tellings
<1>4. file[id].there /\ file[id].entry.text = Blank
  BY DEF KeptOk, FilesOk
<1>5. file[id].writers = {c}
  <2>1. ASSUME NEW d \in file[id].writers, d # c PROVE FALSE
    <3>1. d \in Clients /\ Busy(d) /\ Job(d).do = "write" /\ Job(d).id = id
      BY DEF KeptOk, FilesOk, Typed, Files
    <3>2. PICK o \in {c, d} : o # Dreamer
      BY <2>1
    <3>3. Dreamer \in {c, d}
      <4>1. Saving(agenda[c], id) /\ Saving(agenda[d], id)
        BY <3>1 DEF Saving, Saves, Busy, Job
      <4> QED BY <2>1, <3>1, <4>1 DEF KeptOk, OwnEntries
    <3>4. /\ o \in Clients \ {Dreamer} /\ Busy(o) /\ Job(o).do = "write" /\ Job(o).id = id
          /\ Busy(Dreamer) /\ Job(Dreamer).do = "write" /\ Job(Dreamer).id = id
      BY <3>1, <3>2, <3>3
    <3>5. Job(Dreamer) \in JobsOf(agenda[Dreamer]) /\ Settles(Job(Dreamer), id)
      BY <1>0, <3>4, RestIs DEF Settles, Saves
    <3> QED BY <3>4, <3>5, ApartIs
  <2> QED BY <2>1
<1>6. file'[id].there /\ file'[id].entry.text.tells = T[id] /\ file'[id].writers = {}
  BY <1>3, <1>4, <1>5
<1>7. \A i \in Ids \ {id} : file'[i] = file[i] /\ file'[i].there = file[i].there
  OBVIOUS
<1>8. \A f \in kept' : f \in kept \/ (f \in T[id] /\ ~Doomed(id))
  BY <1>3
<1>9. Saves(Job(c))
  BY DEF Saves
<1>10. Head(b).do = "list"
  BY DEF List
<1> HIDE DEF j, id
<1>11. id \in Ids /\ id = Job(c).id
  BY DEF id
<1>12. AgendasTell(T)'
  <2>1. \A d \in Clients : \A y \in JobsOf(agenda'[d]) : JobTells(T, y)
    BY <1>1, <1>2 DEF KeptOk, AgendasTell
  <2> QED BY <2>1 DEF AgendasTell
<1>13. FilesOk(T)'
  <2>1. ASSUME NEW i \in Ids, i # id
        PROVE  /\ ~file[i].there => file[i].writers = {} /\ file[i].entry.text = Blank
               /\ file[i].there =>
                    IF file[i].writers = {} THEN file[i].entry.text.tells = T[i]
                    ELSE file[i].entry.text = Blank
               /\ \A d \in file[i].writers :
                    agenda'[d] # <<>> /\ Head(agenda'[d]).do = "write" /\ Head(agenda'[d]).id = i
    <3>1. \A d \in file[i].writers :
            /\ d \in Clients /\ agenda[d] # <<>> /\ Head(agenda[d]).do = "write" /\ Head(agenda[d]).id = i
      BY DEF KeptOk, FilesOk, Typed, Files, Busy, Job
    <3>2. \A d \in file[i].writers : d # c
      BY <1>11, <2>1, <3>1 DEF Job
    <3> QED BY <1>1, <3>1, <3>2 DEF KeptOk, FilesOk
  <2> QED BY <1>6, <1>7, <2>1 DEF FilesOk, Busy, Job
<1>14. ASSUME NEW o \in Clients \ {Dreamer} PROVE HeldApart(o, agenda[o], agenda[Dreamer])'
  <2>1. CASE c = Dreamer
    <3>1. ASSUME agenda[o] # <<>>
          PROVE  /\ \A y \in JobsOf(Tail(agenda[o])) : ~Saves(y)
                 /\ Head(agenda[o]).do = "open" =>
                      ~file'[Head(agenda[o]).id].there
                      /\ \A y \in JobsOf(b) : ~Mentions(y, Head(agenda[o]).id)
                 /\ Head(agenda[o]).do = "write" =>
                      /\ file'[Head(agenda[o]).id].there => o \in file'[Head(agenda[o]).id].writers
                      /\ \A y \in JobsOf(b) : ~Settles(y, Head(agenda[o]).id)
      <4>1. Busy(o) /\ Job(o) = Head(agenda[o]) /\ Rest(o) = JobsOf(Tail(agenda[o]))
        BY <3>1 DEF Busy, Job, Rest
      <4>2. Settles(j, id) /\ j \in JobsOf(agenda[Dreamer])
        BY <1>2, <2>1 DEF Settles, Saves, j, id
      <4>3. \A y \in JobsOf(b) : y \in JobsOf(agenda[Dreamer])
        BY <1>2, <2>1
      <4>4. \A y \in JobsOf(Tail(agenda[o])) : ~Saves(y)
        BY <4>1, ApartIs
      <4>5. ASSUME Job(o).do = "open"
            PROVE  ~file'[Job(o).id].there /\ \A y \in JobsOf(b) : ~Mentions(y, Job(o).id)
        <5>1. /\ ~file[Job(o).id].there /\ Job(o).id \in Ids
              /\ \A y \in JobsOf(agenda[Dreamer]) : ~Mentions(y, Job(o).id)
          BY <4>1, <4>5, ApartIs DEF Saves
        <5> QED BY <1>4, <1>7, <4>3, <5>1 DEF id
      <4>6. ASSUME Job(o).do = "write"
            PROVE  /\ file'[Job(o).id].there => o \in file'[Job(o).id].writers
                   /\ \A y \in JobsOf(b) : ~Settles(y, Job(o).id)
        <5>1. /\ file[Job(o).id].there => o \in file[Job(o).id].writers
              /\ Job(o).id \in Ids
              /\ \A y \in JobsOf(agenda[Dreamer]) : ~Settles(y, Job(o).id)
          BY <4>1, <4>6, ApartIs DEF Saves
        <5>2. Job(o).id # id
          BY <4>2, <5>1
        <5> QED BY <1>7, <4>3, <5>1, <5>2
      <4> QED BY <4>1, <4>4, <4>5, <4>6
    <3>2. agenda'[o] = agenda[o] /\ agenda'[Dreamer] = b
      BY <1>1, <2>1
    <3> QED BY <3>1, <3>2, ApartShown
  <2>2. CASE c # Dreamer
    <3>1. CASE o = c
      <4>1. agenda'[o] = b /\ agenda'[Dreamer] = agenda[Dreamer]
        BY <1>0, <1>1, <2>2, <3>1
      <4>2. \A y \in Rest(c) : ~Saves(y)
        BY <2>2, ApartIs
      <4>3. \A y \in JobsOf(Tail(b)) : ~Saves(y)
        BY <1>1, <4>2, TailIs
      <4> QED BY <1>10, <4>1, <4>3, ApartShown
    <3>2. CASE o # c
      <4>1. agenda'[o] = agenda[o] /\ agenda'[Dreamer] = agenda[Dreamer] /\ c \in Clients \ {Dreamer}
        BY <1>0, <1>1, <2>2, <3>2
      <4>2. ASSUME agenda[o] # <<>>, Saves(Head(agenda[o]))
            PROVE  file'[Head(agenda[o]).id] = file[Head(agenda[o]).id]
        BY <1>7, <1>9, <1>11, <3>2, <4>1, <4>2, OwnFile
      <4> QED BY <4>1, <4>2, OthersApart
    <3> QED BY <3>1, <3>2
  <2> QED BY <2>1, <2>2
<1>15. SavedAll(T)'
  BY <1>6, <1>7, <1>8, <1>11 DEF KeptOk, SavedAll
<1>16. ~Doomed(id) => ~Condemned(agenda'[Dreamer], id)
  <2>1. CASE c = Dreamer
    <3>1. \A y \in Rest(c) : ~(Removes(y, FALSE) /\ y.id = id)
      BY <2>1, RestIs DEF MayPrecede, Saves, id
    <3> QED BY <1>1, <2>1, <3>1 DEF Condemned
  <2>2. CASE c # Dreamer
    <3>1. agenda'[Dreamer] = agenda[Dreamer]
      BY <1>0, <1>1, <2>2
    <3> QED BY <1>11, <3>1, CondemnedIs
  <2> QED BY <2>1, <2>2
<1>17. KeptAll(kept, T, agenda[Dreamer])'
  <2>1. ASSUME NEW f \in kept
        PROVE  \E i \in Ids : f \in T[i] /\ ~Condemned(agenda'[Dreamer], i)
                              /\ (file'[i].there \/ Opens(agenda'[Dreamer], i))
    <3>1. PICK i \in Ids : /\ f \in T[i] /\ ~Condemned(agenda[Dreamer], i)
                           /\ file[i].there \/ Opens(agenda[Dreamer], i)
      BY DEF KeptOk, KeptAll
    <3>2. file[i].there => file'[i].there
      BY <1>6, <1>7
    <3>3. CASE c = Dreamer
      <4>1. ~Condemned(b, i)
        BY <1>2, <3>1, <3>3 DEF Condemned
      <4>2. ~Opens(agenda[Dreamer], i)
        BY <3>3 DEF Opens, Job
      <4> QED BY <1>1, <3>1, <3>2, <3>3, <4>1, <4>2
    <3>4. CASE c # Dreamer
      <4>1. agenda'[Dreamer] = agenda[Dreamer]
        BY <1>0, <1>1, <3>4
      <4> QED BY <3>1, <3>2, <4>1
    <3> QED BY <3>3, <3>4
  <2> QED BY <1>6, <1>8, <1>11, <1>16, <2>1 DEF KeptAll
<1>18. OwnEntries'
  <2>1. \A i \in Ids : ~Saving(agenda'[c], i)
    BY <1>1, <1>10 DEF Saving, Saves
  <2> QED BY <1>1, <2>1, StillOwn DEF KeptOk
<1> QED BY <1>12, <1>13, <1>14, <1>15, <1>17, <1>18 DEF KeptOk, Apart

LEMMA WriteKept ==
  ASSUME Typed, KeptInv, NEW c \in Clients, WriteFile(c)
  PROVE  KeptInv'
<1>1. Busy(c) /\ Job(c).do = "write" /\ Job(c).id \in Ids
  BY WriteLeaves
<1>2. PICK b \in Seq(Jobs) : Leaves(c, b, {}) /\ b # <<>> /\ Head(b) = List("index")
  BY WriteLeaves
<1>3. PICK T \in Tellings : KeptOk(T)
  BY DEF KeptInv
<1>4. CASE c \in file[Job(c).id].writers
  <2>1. /\ kept' = kept \cup (IF Doomed(Job(c).id) THEN {} ELSE Job(c).entry.text.tells)
        /\ \A i \in Ids \ {Job(c).id} : file'[i] = file[i]
        /\ file'[Job(c).id].there = file[Job(c).id].there
        /\ file'[Job(c).id].entry = Job(c).entry
        /\ file'[Job(c).id].writers = file[Job(c).id].writers \ {c}
    BY <1>4, WriteLeaves
  <2>2. KeptOk(T)'
    BY <1>1, <1>2, <1>3, <1>4, <2>1, WrittenKept
  <2> QED BY <1>3, <2>2 DEF KeptInv
<1>5. CASE c \notin file[Job(c).id].writers
  <2>1. UNCHANGED <<file, kept>>
    BY <1>5, WriteLeaves
  <2>2. KeptOk(T)'
    BY <1>1, <1>2, <1>3, <1>5, <2>1, LostKept
  <2> QED BY <1>3, <2>2 DEF KeptInv
<1> QED BY <1>4, <1>5

LEMMA DeletedKept ==
  ASSUME Typed, NEW T \in Tellings, KeptOk(T), NEW c \in Clients, Busy(c),
         Job(c).do = "unlink", Job(c) \in UnlinkJobs, Job(c).id \in Ids, file[Job(c).id].there,
         file' = [file EXCEPT ![Job(c).id] = Absent],
         kept' = IF Job(c).asked THEN kept \ Written(Job(c).id) ELSE kept,
         NEW b \in Seq(Jobs), Leaves(c, b, {List("index")}), b # <<>>, Head(b) = List("index")
  PROVE  KeptOk(T)'
<1> DEFINE j == Job(c)
           id == Job(c).id
<1>0. Dreamer \in Clients
  BY ClientsAssumption
<1>1. /\ agenda'[c] = b /\ \A d \in Clients \ {c} : agenda'[d] = agenda[d]
      /\ \A y \in JobsOf(b) : y = List("index") \/ y \in Rest(c)
  BY DEF Leaves, Typed
<1>2. j \in JobsOf(agenda[c]) /\ \A y \in Rest(c) : y \in JobsOf(agenda[c])
  BY RestIs
<1>3. /\ ~file'[id].there /\ file'[id].writers = {} /\ file'[id].entry.text = Blank
      /\ \A i \in Ids \ {id} : file'[i] = file[i]
  BY DEF Typed, Absent, Entry
<1>4. /\ List("index").do = "list"
      /\ \A i : ~Mentions(List("index"), i) /\ ~Settles(List("index"), i)
      /\ ~Saves(List("index")) /\ ~Removes(List("index"), FALSE)
  BY DEF List, Mentions, Settles, Saves, Removes
<1>5. /\ \A f \in kept' : f \in kept
      /\ j.asked => \A f \in kept' : f \notin T[id]
      /\ ~j.asked => c = Dreamer /\ Removes(j, FALSE) /\ Condemned(agenda[Dreamer], id)
  <2>1. \A f : f \in Written(id) <=> f \in T[id]
    BY WrittenIs DEF KeptOk
  <2>2. ~j.asked => Removes(j, FALSE)
    BY DEF Removes, UnlinkJobs
  <2>3. ASSUME ~j.asked PROVE c = Dreamer
    <3>1. ~Modest(j)
      BY <2>3 DEF Modest, Saves, Removes, Lists
    <3> QED BY <3>1, RestIs
  <2> QED BY <1>2, <2>1, <2>2, <2>3 DEF Condemned
<1> HIDE DEF j, id
<1>7. id \in Ids /\ id = Job(c).id /\ j = Job(c)
  BY DEF id, j
<1>8. AgendasTell(T)'
  <2>1. JobTells(T, List("index"))
    BY ListSound DEF Sound
  <2>2. \A d \in Clients : \A y \in JobsOf(agenda'[d]) : JobTells(T, y)
    BY <1>1, <1>2, <2>1 DEF KeptOk, AgendasTell
  <2> QED BY <2>2 DEF AgendasTell
<1>9. FilesOk(T)'
  <2>1. ASSUME NEW i \in Ids, i # id
        PROVE  /\ ~file[i].there => file[i].writers = {} /\ file[i].entry.text = Blank
               /\ file[i].there =>
                    IF file[i].writers = {} THEN file[i].entry.text.tells = T[i]
                    ELSE file[i].entry.text = Blank
               /\ \A d \in file[i].writers :
                    agenda'[d] # <<>> /\ Head(agenda'[d]).do = "write" /\ Head(agenda'[d]).id = i
    <3>1. \A d \in file[i].writers :
            /\ d \in Clients /\ agenda[d] # <<>> /\ Head(agenda[d]).do = "write" /\ Head(agenda[d]).id = i
      BY DEF KeptOk, FilesOk, Typed, Files, Busy, Job
    <3>2. \A d \in file[i].writers : d # c
      BY <3>1 DEF Job
    <3> QED BY <1>1, <3>1, <3>2 DEF KeptOk, FilesOk
  <2> QED BY <1>3, <2>1 DEF FilesOk, Busy, Job
<1>10. ASSUME NEW o \in Clients \ {Dreamer} PROVE HeldApart(o, agenda[o], agenda[Dreamer])'
  <2>1. CASE c = Dreamer
    <3>1. ASSUME agenda[o] # <<>>
          PROVE  /\ \A y \in JobsOf(Tail(agenda[o])) : ~Saves(y)
                 /\ Head(agenda[o]).do = "open" =>
                      ~file'[Head(agenda[o]).id].there
                      /\ \A y \in JobsOf(b) : ~Mentions(y, Head(agenda[o]).id)
                 /\ Head(agenda[o]).do = "write" =>
                      /\ file'[Head(agenda[o]).id].there => o \in file'[Head(agenda[o]).id].writers
                      /\ \A y \in JobsOf(b) : ~Settles(y, Head(agenda[o]).id)
      <4>1. Busy(o) /\ Job(o) = Head(agenda[o]) /\ Rest(o) = JobsOf(Tail(agenda[o]))
        BY <3>1 DEF Busy, Job, Rest
      <4>2. \A y \in Rest(c) : y \in JobsOf(agenda[Dreamer])
        BY <1>2, <2>1
      <4>3. \A y \in JobsOf(Tail(agenda[o])) : ~Saves(y)
        BY <4>1, ApartIs
      <4>4. ASSUME Job(o).do = "open"
            PROVE  ~file'[Job(o).id].there /\ \A y \in JobsOf(b) : ~Mentions(y, Job(o).id)
        <5>1. /\ ~file[Job(o).id].there /\ Job(o).id \in Ids
              /\ \A y \in JobsOf(agenda[Dreamer]) : ~Mentions(y, Job(o).id)
          BY <4>1, <4>4, ApartIs DEF Saves
        <5> QED BY <1>1, <1>3, <1>4, <4>2, <5>1
      <4>5. ASSUME Job(o).do = "write"
            PROVE  /\ file'[Job(o).id].there => o \in file'[Job(o).id].writers
                   /\ \A y \in JobsOf(b) : ~Settles(y, Job(o).id)
        <5>1. /\ file[Job(o).id].there => o \in file[Job(o).id].writers
              /\ Job(o).id \in Ids
              /\ \A y \in JobsOf(agenda[Dreamer]) : ~Settles(y, Job(o).id)
          BY <4>1, <4>5, ApartIs DEF Saves
        <5> QED BY <1>1, <1>3, <1>4, <4>2, <5>1
      <4> QED BY <4>1, <4>3, <4>4, <4>5
    <3>2. agenda'[o] = agenda[o] /\ agenda'[Dreamer] = b
      BY <1>1, <2>1
    <3> QED BY <3>1, <3>2, ApartShown
  <2>2. CASE c # Dreamer
    <3>1. CASE o = c
      <4>1. agenda'[o] = b /\ agenda'[Dreamer] = agenda[Dreamer]
        BY <1>0, <1>1, <2>2, <3>1
      <4>2. \A y \in Rest(c) : ~Saves(y)
        BY <2>2, ApartIs
      <4>3. \A y \in JobsOf(Tail(b)) : ~Saves(y)
        BY <1>1, <1>4, <4>2, TailIs
      <4> QED BY <1>4, <4>1, <4>3, ApartShown
    <3>2. CASE o # c
      <4>1. agenda'[o] = agenda[o] /\ agenda'[Dreamer] = agenda[Dreamer]
        BY <1>0, <1>1, <2>2, <3>2
      <4>2. ASSUME agenda[o] # <<>>, Saves(Head(agenda[o]))
            PROVE  \/ file'[Head(agenda[o]).id] = file[Head(agenda[o]).id]
                   \/ ~file'[Head(agenda[o]).id].there
        <5>1. Head(agenda[o]).id \in Ids
          BY <4>2, ApartIs DEF Busy, Job
        <5> QED BY <1>3, <5>1
      <4> QED BY <4>1, <4>2, OthersApart
    <3> QED BY <3>1, <3>2
  <2> QED BY <2>1, <2>2
\* each saved fact is told by another file that is there and not condemned
<1>11. ASSUME NEW f \in kept'
       PROVE  \E i \in Ids : /\ i # id /\ f \in T[i] /\ ~Condemned(agenda[Dreamer], i)
                             /\ file[i].there \/ Opens(agenda[Dreamer], i)
  <2>1. PICK i \in Ids : /\ f \in T[i] /\ ~Condemned(agenda[Dreamer], i)
                         /\ file[i].there \/ Opens(agenda[Dreamer], i)
    BY <1>5 DEF KeptOk, KeptAll
  <2> QED BY <1>5, <2>1
<1>12. SavedAll(T)'
  <2>1. ASSUME NEW f \in kept' PROVE \E i \in Ids : file'[i].there /\ f \in T[i]
    <3>1. CASE j.asked
      <4>1. PICK i \in Ids : file[i].there /\ f \in T[i]
        BY <1>5 DEF KeptOk, SavedAll
      <4>2. i # id
        BY <1>5, <3>1, <4>1
      <4> QED BY <1>3, <4>1, <4>2
    <3>2. CASE ~j.asked
      <4>1. c = Dreamer /\ \A i \in Ids : ~Opens(agenda[Dreamer], i)
        BY <1>5, <3>2 DEF Opens, Job
      <4> QED BY <1>3, <1>11, <4>1
    <3> QED BY <3>1, <3>2
  <2> QED BY <2>1 DEF SavedAll
<1>13. KeptAll(kept, T, agenda[Dreamer])'
  <2>1. ASSUME NEW f \in kept'
        PROVE  \E i \in Ids : f \in T[i] /\ ~Condemned(agenda'[Dreamer], i)
                              /\ (file'[i].there \/ Opens(agenda'[Dreamer], i))
    <3>1. PICK i \in Ids : /\ i # id /\ f \in T[i] /\ ~Condemned(agenda[Dreamer], i)
                           /\ file[i].there \/ Opens(agenda[Dreamer], i)
      BY <1>11
    <3>2. CASE c = Dreamer
      <4>1. ~Condemned(b, i)
        BY <1>1, <1>2, <1>4, <3>1, <3>2 DEF Condemned
      <4>2. ~Opens(agenda[Dreamer], i)
        BY <3>2 DEF Opens, Job
      <4> QED BY <1>1, <1>3, <3>1, <3>2, <4>1, <4>2
    <3>3. CASE c # Dreamer
      <4>1. agenda'[Dreamer] = agenda[Dreamer]
        BY <1>0, <1>1, <3>3
      <4> QED BY <1>3, <3>1, <4>1
    <3> QED BY <3>2, <3>3
  <2> QED BY <2>1 DEF KeptAll
<1>14. OwnEntries'
  <2>1. \A i \in Ids : ~Saving(agenda'[c], i)
    BY <1>1, <1>4 DEF Saving
  <2> QED BY <1>1, <2>1, StillOwn DEF KeptOk
<1> QED BY <1>8, <1>9, <1>10, <1>12, <1>13, <1>14 DEF KeptOk, Apart

LEMMA UnlinkKept ==
  ASSUME Typed, KeptInv, NEW c \in Clients, UnlinkFile(c)
  PROVE  KeptInv'
<1>1. Busy(c) /\ Job(c).do = "unlink" /\ Job(c) \in UnlinkJobs /\ Job(c).id \in Ids
  BY UnlinkLeaves
<1>2. PICK T \in Tellings : KeptOk(T)
  BY DEF KeptInv
<1>3. CASE file[Job(c).id].there
  <2>1. /\ file' = [file EXCEPT ![Job(c).id] = Absent]
        /\ kept' = IF Job(c).asked THEN kept \ Written(Job(c).id) ELSE kept
    BY <1>3, UnlinkLeaves
  <2>2. PICK b \in Seq(Jobs) : Leaves(c, b, {List("index")}) /\ b # <<>> /\ Head(b) = List("index")
    BY <1>3, UnlinkLeaves
  <2>3. KeptOk(T)'
    BY <1>1, <1>2, <1>3, <2>1, <2>2, DeletedKept
  <2> QED BY <1>2, <2>3 DEF KeptInv
<1>4. CASE ~file[Job(c).id].there
  <2>1. UNCHANGED <<file, kept>> /\ Job(c).do \notin {"open", "write"}
    BY <1>1, <1>4, UnlinkLeaves
  <2>2. PICK b \in Seq(Jobs) : Leaves(c, b, {}) /\ b = Tail(agenda[c])
    BY <1>4, UnlinkLeaves
  <2> QED BY <1>1, <2>1, <2>2, DropKept
<1> QED BY <1>3, <1>4

LEMMA NextKept ==
  ASSUME Typed, KeptInv, [Next]_vars
  PROVE  KeptInv'
<1>1. ASSUME NEW c \in Clients, NEW draft \in Drafts, Save(c, draft) PROVE KeptInv'
  BY <1>1, SaveKept
<1>2. ASSUME NEW c \in Clients, NEW id \in Ids, Delete(c, id) PROVE KeptInv'
  BY <1>2, DeleteKept
<1>3. ASSUME NEW withModel \in BOOLEAN, Dream(withModel) PROVE KeptInv'
  BY <1>3, DreamKept
<1>4. ASSUME NEW c \in Clients, ClientStep(c) PROVE KeptInv'
  BY <1>4, OpenKept, WriteKept, UnlinkKept, ListKept, LoadKept, RebuildKept DEF ClientStep
<1>5. CASE ConsolidateV2 \/ DecideDream \/ Count \/ ModelVerdicts
  BY <1>5, ConsolidateKept, DecideDreamKept, CountKept, ModelKept
<1>6. CASE DecideClusters \/ SummarizeCluster \/ SummaryFails
  BY <1>6, ClustersKept, SummaryKept, FailureKept
<1>7. CASE UNCHANGED vars
  <2>1. file' = file /\ agenda' = agenda /\ kept' = kept
    BY <1>7 DEF vars
  <2>2. PICK T \in Tellings : KeptOk(T)
    BY DEF KeptInv
  <2>3. AgendasTell(T)' /\ FilesOk(T)' /\ Apart' /\ SavedAll(T)'
    BY <2>1, <2>2 DEF KeptOk, AgendasTell, FilesOk, Busy, Job, Apart, HeldApart, SavedAll
  <2>4. KeptAll(kept, T, agenda[Dreamer])'
    BY <2>1, <2>2 DEF KeptOk, KeptAll
  <2>5. OwnEntries'
    BY <2>1, <2>2 DEF KeptOk, OwnEntries, Saving
  <2>6. KeptOk(T)'
    BY <2>3, <2>4, <2>5 DEF KeptOk
  <2> QED BY <2>2, <2>6 DEF KeptInv
<1> QED BY <1>1, <1>2, <1>3, <1>4, <1>5, <1>6, <1>7 DEF Next

LEMMA InitKept ==
  ASSUME Init
  PROVE  KeptInv
<1>1. Init
  OBVIOUS
<1> DEFINE T == [id \in Ids |-> {}]
<1>2. T \in Tellings
  BY DEF Tellings
<1>3. \A id \in Ids : file[id] = Absent
  BY DEF Init
<1>4. \A c \in Clients : agenda[c] = <<>>
  BY DEF Init
<1>5. \A c \in Clients : JobsOf(agenda[c]) = {}
  BY <1>4, NothingIs
<1>6. kept = {} /\ Dreamer \in Clients
  BY ClientsAssumption DEF Init
<1> HIDE DEF T
<1>7. AgendasTell(T) /\ Apart /\ OwnEntries /\ SavedAll(T) /\ KeptAll(kept, T, agenda[Dreamer])
  BY <1>4, <1>5, <1>6 DEF AgendasTell, Apart, HeldApart, OwnEntries, Saving, SavedAll, KeptAll
<1>8. FilesOk(T)
  BY <1>3 DEF FilesOk, Absent, Entry
<1> QED BY <1>2, <1>7, <1>8 DEF KeptInv, KeptOk

\* SavedIsKept (packages/core/src/memdir: MemoryStore.ts:36-104, AutoDream.ts:43-136;
\* packages/memory-v2/src/ConsolidationV2.ts:50-180): however many clients save and delete
\* next to the one that consolidates, and from whatever size clusters are summarised, a fact
\* that reached a file is told by some file, or is about to be written to one that is open,
\* unless somebody asked for its removal, a summary left it out, or the consolidation did
\* not know of it when it decided to delete the file.
THEOREM SavedSound == Spec => []SavedIsKept
<1>1. ASSUME Init PROVE Typed /\ KeptInv
  BY <1>1, InitTyped, InitKept
<1>2. ASSUME Typed, KeptInv, [Next]_vars PROVE Typed' /\ KeptInv'
  BY <1>2, NextTyped, NextKept
<1>3. ASSUME Typed, KeptInv PROVE SavedIsKept
  <2>1. PICK T \in Tellings : KeptOk(T)
    BY <1>3 DEF KeptInv
  <2> QED BY <1>3, <2>1, KeptOkSaves
<1> QED BY <1>1, <1>2, <1>3, PTL DEF Spec
=============================================================================
