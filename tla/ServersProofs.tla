---------------------------- MODULE ServersProofs ----------------------------
(* Proofs about the servers and the daemons.  Each has an inductive invariant over its own     *)
(* variables; the system takes a step of one of them, or of none, at a time.                    *)
EXTENDS MCServers, FiniteSetTheorems, TLAPS

-----------------------------------------------------------------------------
(* Sequences. *)

\* A sequence with one element more.
LEMMA Appended ==
  ASSUME NEW S, NEW s \in Seq(S), NEW e \in S
  PROVE  /\ Append(s, e) \in Seq(S) /\ Append(s, e) # <<>>
         /\ Len(s) \in Nat /\ Len(Append(s, e)) = Len(s) + 1
         /\ DOMAIN Append(s, e) = 1 .. Len(s) + 1 /\ DOMAIN s = 1 .. Len(s)
         /\ Append(s, e)[Len(s) + 1] = e
         /\ \A i \in 1 .. Len(s) : Append(s, e)[i] = s[i]
         /\ s # <<>> => Len(s) \in 1 .. Len(s) /\ s[Len(s)] \in S
OBVIOUS

LEMMA OneMore == \A m \in Nat : \A j \in 1 .. m + 1 : j \in 1 .. m \/ j = m + 1
OBVIOUS

LEMMA LenIs == \A S : \A s \in Seq(S) : Len(s) \in Nat
OBVIOUS

-----------------------------------------------------------------------------
(* The tick daemon. *)

Records == [here : {TRUE}, enabled : BOOLEAN, lastRunAt : Nat \cup {NotYet},
            status : {"none", "done", "failed"}]

TicksTyped ==
  /\ time \in Nat
  /\ registered \in [Tasks -> Records \cup {Absent}]
  /\ active \subseteq Tasks
  /\ flights \in [Tasks -> Nat]
  /\ starts \in [Tasks -> Seq(Nat)]

\* The record of a task holds the time of its last start.
LastRunKept ==
  \A t \in Tasks : registered[t].here =>
    registered[t].lastRunAt = IF starts[t] = <<>> THEN NotYet ELSE starts[t][Len(starts[t])]

TicksInv == TicksTyped /\ LastRunKept /\ TicksSound

LEMMA TicksBegin == TickInit => TicksInv
<1> SUFFICES ASSUME TickInit PROVE TicksInv
  OBVIOUS
<1>1. TicksTyped
  BY DEF TickInit, TicksTyped
<1>2. LastRunKept /\ TicksSound
  BY DEF TickInit, LastRunKept, TicksSound, Absent
<1> QED BY <1>1, <1>2 DEF TicksInv

\* Starting a task that is due writes the same time into its record and its history.
LEMMA StartAllKeeps ==
  ASSUME TicksInv, StartAll(DueTasks), UNCHANGED <<time, keptDays>>
  PROVE  TicksInv'
<1> USE TickAssumption DEF TicksInv
<1>0. DueTasks \subseteq Tasks
  BY DEF DueTasks
<1>1. ASSUME NEW t \in DueTasks
      PROVE  /\ registered[t] \in Records /\ t \notin active
             /\ registered'[t] = [registered[t] EXCEPT !.lastRunAt = time]
             /\ registered'[t] \in Records
             /\ registered'[t].lastRunAt = time
             /\ starts'[t] = Append(starts[t], time) /\ flights'[t] = 1
             /\ starts[t] # <<>> => time - starts[t][Len(starts[t])] >= Interval[t]
  <2>1. t \in Tasks /\ Due(t) /\ t \notin active /\ registered[t].here
    BY DEF DueTasks, Due
  <2>2. registered[t] \in Records
    BY <2>1 DEF TicksTyped, Absent
  <2>3. registered'[t] = [registered[t] EXCEPT !.lastRunAt = time] /\ starts'[t] = Append(starts[t], time)
    BY <2>1 DEF StartAll
  <2>4. flights'[t] = 1
    BY <2>1 DEF StartAll, TicksSound
  <2>5. \A rec \in Records : [rec EXCEPT !.lastRunAt = time] \in Records
                            /\ [rec EXCEPT !.lastRunAt = time].lastRunAt = time
    BY DEF Records, TicksTyped
  <2>6. starts[t] # <<>> => time - starts[t][Len(starts[t])] >= Interval[t]
    <3> SUFFICES ASSUME starts[t] # <<>> PROVE time - starts[t][Len(starts[t])] >= Interval[t]
      OBVIOUS
    <3>1. registered[t].lastRunAt = starts[t][Len(starts[t])]
      BY <2>1 DEF LastRunKept
    <3>2. starts[t][Len(starts[t])] \in Nat
      BY <2>1 DEF TicksTyped
    <3> QED BY <2>1, <3>1, <3>2 DEF Due, NotYet
  <2> QED BY <2>1, <2>2, <2>3, <2>4, <2>5, <2>6
<1>2. ASSUME NEW t \in Tasks, t \notin DueTasks
      PROVE  registered'[t] = registered[t] /\ starts'[t] = starts[t] /\ flights'[t] = flights[t]
  BY <1>2 DEF StartAll
<1>3. DOMAIN registered' = Tasks /\ DOMAIN starts' = Tasks /\ DOMAIN flights' = Tasks
      /\ registered' = [t \in Tasks |-> registered'[t]] /\ starts' = [t \in Tasks |-> starts'[t]]
      /\ flights' = [t \in Tasks |-> flights'[t]]
  BY DEF StartAll
<1>4. TicksTyped'
  <2>1. ASSUME NEW t \in Tasks
        PROVE  registered'[t] \in Records \cup {Absent} /\ starts'[t] \in Seq(Nat) /\ flights'[t] \in Nat
    <3>1. CASE t \in DueTasks
      <4>1. starts[t] \in Seq(Nat) /\ time \in Nat
        BY DEF TicksTyped
      <4>2. /\ starts'[t] = Append(starts[t], time) /\ registered'[t] \in Records
            /\ flights'[t] = 1
        BY <1>1, <3>1, Zenon
      <4>3. Append(starts[t], time) \in Seq(Nat)
        BY <4>1, Appended, Zenon
      <4> QED BY <4>2, <4>3
    <3>2. CASE t \notin DueTasks
      BY <1>2, <3>2 DEF TicksTyped
    <3> QED BY <3>1, <3>2
  <2>2. active' \subseteq Tasks /\ time' \in Nat
    BY <1>0 DEF StartAll, TicksTyped
  <2> QED BY <1>3, <2>1, <2>2 DEF TicksTyped
<1>5. LastRunKept'
  <2> SUFFICES ASSUME NEW t \in Tasks, registered'[t].here
               PROVE  registered'[t].lastRunAt = IF starts'[t] = <<>> THEN NotYet ELSE starts'[t][Len(starts'[t])]
    BY DEF LastRunKept
  <2>1. CASE t \in DueTasks
    <3>1. Append(starts[t], time) # <<>>
          /\ Append(starts[t], time)[Len(Append(starts[t], time))] = time
      <4>1. starts[t] \in Seq(Nat) /\ time \in Nat
        BY DEF TicksTyped
      <4> QED BY <4>1, Appended
    <3> QED BY <1>1, <2>1, <3>1
  <2>2. CASE t \notin DueTasks
    BY <1>2, <2>2 DEF LastRunKept
  <2> QED BY <2>1, <2>2
<1>6. TicksSound'
  <2>1. ASSUME NEW t \in Tasks PROVE flights'[t] = IF t \in active' THEN 1 ELSE 0
    <3>1. t \in active' <=> t \in active \/ t \in DueTasks
      BY DEF StartAll
    <3> QED BY <1>1, <1>2, <3>1 DEF TicksSound
  <2>2. ASSUME NEW t \in Tasks, NEW i \in 2 .. Len(starts'[t])
        PROVE  starts'[t][i] - starts'[t][i - 1] >= Interval[t]
    <3>1. CASE t \notin DueTasks
      BY <1>2, <2>2, <3>1 DEF TicksSound
    <3>2. CASE t \in DueTasks
      <4>1. starts[t] \in Seq(Nat) /\ time \in Nat
        BY DEF TicksTyped
      <4>2. starts'[t] = Append(starts[t], time)
        BY <1>1, <3>2
      <4>3. CASE i <= Len(starts[t])
        <5>1. i \in 2 .. Len(starts[t]) /\ starts'[t][i] = starts[t][i] /\ starts'[t][i - 1] = starts[t][i - 1]
          BY <4>1, <4>2, <4>3
        <5> QED BY <5>1 DEF TicksSound
      <4>4. CASE i > Len(starts[t])
        <5>1. i = Len(starts[t]) + 1 /\ starts[t] # <<>>
              /\ starts'[t][i] = time /\ starts'[t][i - 1] = starts[t][Len(starts[t])]
          BY <2>2, <4>1, <4>2, <4>4
        <5> QED BY <1>1, <3>2, <5>1
      <4>5. Len(starts[t]) \in Nat /\ i \in Int
        BY <4>1, LenIs
      <4> QED BY <4>3, <4>4, <4>5
    <3> QED BY <3>1, <3>2
  <2> QED BY <2>1, <2>2 DEF TicksSound
<1> QED BY <1>4, <1>5, <1>6

LEMMA TicksStep == TicksInv /\ [TickNext]_tickVars => TicksInv'
<1> SUFFICES ASSUME TicksInv, [TickNext]_tickVars PROVE TicksInv'
  OBVIOUS
<1> USE TickAssumption DEF TicksInv
<1>1. CASE StartDaemon \/ Tick
  BY <1>1, StartAllKeeps DEF StartDaemon, Tick
<1>2. CASE Clock
  BY <1>2 DEF Clock, TicksTyped, LastRunKept, TicksSound
<1>3. CASE StopDaemon
  BY <1>3 DEF StopDaemon, TicksTyped, LastRunKept, TicksSound
<1>4. ASSUME NEW t \in Tasks, Unregister(t) PROVE TicksInv'
  <2>1. TicksTyped'
    BY <1>4 DEF Unregister, TicksTyped
  <2>2. LastRunKept'
    BY <1>4 DEF Unregister, LastRunKept, TicksTyped, Absent
  <2> QED BY <1>4, <2>1, <2>2 DEF Unregister, TicksSound
<1>5. ASSUME NEW t \in Tasks, NEW enabled \in BOOLEAN, Register(t, enabled) PROVE TicksInv'
  <2>0. Fresh(enabled) \in Records /\ Fresh(enabled).lastRunAt = NotYet
    BY DEF Fresh, Records
  <2>1. TicksTyped'
    BY <1>5, <2>0 DEF Register, TicksTyped
  <2>2. LastRunKept'
    BY <1>5, <2>0 DEF Register, LastRunKept, TicksTyped
  <2>3. TicksSound'
    BY <1>5 DEF Register, TicksSound, TicksTyped
  <2> QED BY <2>1, <2>2, <2>3
<1>6. ASSUME NEW t \in Tasks, NEW status \in {"done", "failed"}, Settles(t, status) PROVE TicksInv'
  <2>1. \A rec \in Records : /\ [rec EXCEPT !.status = status] \in Records
                             /\ [rec EXCEPT !.status = status].lastRunAt = rec.lastRunAt
                             /\ [rec EXCEPT !.status = status].here
    BY DEF Records
  <2>2. registered[t].here => registered[t] \in Records
    BY DEF TicksTyped, Absent
  <2>3. /\ registered' \in [Tasks -> Records \cup {Absent}]
        /\ \A u \in Tasks : registered'[u].here =>
             registered[u].here /\ registered'[u].lastRunAt = registered[u].lastRunAt
    BY <1>6, <2>1, <2>2 DEF Settles, TicksTyped
  <2>4. t \in active /\ flights[t] = 1 /\ flights' = [flights EXCEPT ![t] = 0]
    <3>1. flights[t] > 0 /\ flights' = [flights EXCEPT ![t] = @ - 1] /\ flights[t] = IF t \in active THEN 1 ELSE 0
      BY <1>6 DEF Settles, TicksSound
    <3>2. t \in active
      BY <3>1
    <3>3. flights[t] = 1
      BY <3>1, <3>2, Zenon
    <3>4. flights[t] - 1 = 0
      BY <3>3
    <3> QED BY <3>1, <3>2, <3>3, <3>4, Zenon
  <2>5. active' = active \ {t} /\ UNCHANGED <<time, starts>>
    BY <1>6 DEF Settles
  <2>6. TicksTyped'
    BY <2>3, <2>4, <2>5 DEF TicksTyped
  <2>7. LastRunKept'
    BY <2>3, <2>5 DEF LastRunKept
  <2>8. NewDays \subseteq keptDays'
    BY <1>6 DEF Settles, Purged, TicksSound
  <2>9. TicksSound'
    BY <2>4, <2>5, <2>8 DEF TicksSound, TicksTyped
  <2> QED BY <2>6, <2>7, <2>9
<1>7. CASE UNCHANGED tickVars
  BY <1>7 DEF tickVars, TicksTyped, LastRunKept, TicksSound
<1> QED BY <1>1, <1>2, <1>3, <1>4, <1>5, <1>6, <1>7 DEF TickNext

-----------------------------------------------------------------------------
(* Requests to the background daemon. *)

AnswersTyped ==
  \A a \in answers :
    /\ a = [id |-> a.id, ok |-> a.ok] /\ a.ok \in BOOLEAN
    /\ a.ok => a.id \in DOMAIN kinds /\ kinds[a.id] \notin {"nonsense", "shutdown"}

IpcInv ==
  /\ kinds \in [DOMAIN kinds -> IpcKinds] /\ DOMAIN kinds \subseteq RequestIds
  /\ waiting \cup wire \subseteq DOMAIN kinds
  /\ DOMAIN outcomes = RequestIds
  /\ \A r \in RequestIds : outcomes[r] # {} => r \in DOMAIN kinds /\ \E o \in outcomes[r] : outcomes[r] = {o}
  /\ AnswersTyped
  /\ IpcMatched

\* An outcome that is alone is one outcome.
LEMMA OneOutcome == \A o : Cardinality({o}) = 1
BY FS_Singleton

LEMMA NoOutcome == Cardinality({}) = 0
BY FS_EmptySet

LEMMA IpcBegins == IpcInit => IpcInv
<1> SUFFICES ASSUME IpcInit PROVE IpcInv
  OBVIOUS
<1>1. DOMAIN kinds = {} /\ kinds \in [DOMAIN kinds -> IpcKinds]
  BY DEF IpcInit
<1>2. waiting = {} /\ wire = {} /\ answers = {} /\ DOMAIN outcomes = RequestIds
  BY DEF IpcInit
<1>3. \A r \in RequestIds : outcomes[r] = {}
  BY DEF IpcInit
<1>4. \A r \in RequestIds : Cardinality(outcomes[r]) = 0
  BY <1>3, NoOutcome, Zenon
<1>5. IpcMatched
  BY <1>3, <1>4 DEF IpcMatched
<1>6. AnswersTyped /\ waiting \cup wire \subseteq DOMAIN kinds
  BY <1>2 DEF AnswersTyped
<1> QED BY <1>1, <1>2, <1>3, <1>5, <1>6 DEF IpcInv

\* Steps of the process and of its socket: requests and answers are only lost.
LEMMA LosingKeeps ==
  ASSUME IpcInv, UNCHANGED <<kinds, waiting, outcomes>>, wire' \subseteq wire, answers' \subseteq answers
  PROVE  IpcInv'
BY DEF IpcInv, AnswersTyped, IpcMatched

\* A request that waits has no outcome; one of its own is its only one from then on.
LEMMA SettlingKeeps ==
  ASSUME IpcInv, NEW R \in SUBSET waiting, NEW out, UNCHANGED <<kinds, wire>>, answers' \subseteq answers,
         waiting' = waiting \ R,
         \A r \in R : /\ out[r].id = r
                      /\ out[r].ok => kinds[r] \notin {"nonsense", "shutdown"},
         outcomes' = [r \in RequestIds |-> IF r \in R THEN outcomes[r] \cup {out[r]} ELSE outcomes[r]]
  PROVE  IpcInv'
<1>1. ASSUME NEW r \in R PROVE r \in RequestIds /\ r \in DOMAIN kinds /\ outcomes[r] = {} /\ outcomes'[r] = {out[r]}
  BY DEF IpcInv, IpcMatched
<1>2. ASSUME NEW r \in RequestIds, r \notin R PROVE outcomes'[r] = outcomes[r]
  BY <1>2
<1>3. \A r \in RequestIds : outcomes'[r] # {} => r \in DOMAIN kinds /\ \E o \in outcomes'[r] : outcomes'[r] = {o}
  BY <1>1, <1>2 DEF IpcInv
<1>4. AnswersTyped'
  BY DEF IpcInv, AnswersTyped
<1>5. IpcMatched'
  <2> SUFFICES ASSUME NEW r \in RequestIds
               PROVE  /\ Cardinality(outcomes'[r]) <= 1
                      /\ \A o \in outcomes'[r] : o.id = r /\ r \notin waiting'
                           /\ (o.ok => kinds[r] \notin {"nonsense", "shutdown"})
    BY DEF IpcMatched
  <2>1. CASE r \in R
    <3>1. outcomes'[r] = {out[r]} /\ r \notin waiting'
      BY <1>1, <2>1
    <3>2. Cardinality(outcomes'[r]) = 1
      BY <3>1, OneOutcome, Zenon
    <3> QED BY <2>1, <3>1, <3>2
  <2>2. CASE r \notin R
    BY <1>2, <2>2 DEF IpcInv, IpcMatched
  <2> QED BY <2>1, <2>2
<1> QED BY <1>3, <1>4, <1>5 DEF IpcInv

\* The same for one request, as Settle() has it.
LEMMA SettleKeeps ==
  ASSUME IpcInv, NEW r \in waiting, NEW o, Settle(r, o), UNCHANGED <<kinds, wire>>, answers' \subseteq answers,
         o.id = r, o.ok => kinds[r] \notin {"nonsense", "shutdown"}
  PROVE  IpcInv'
<1> DEFINE out == [q \in {r} |-> o]
<1>1. r \in RequestIds /\ DOMAIN outcomes = RequestIds
  BY DEF IpcInv
<1>2. outcomes' = [q \in RequestIds |-> IF q \in {r} THEN outcomes[q] \cup {out[q]} ELSE outcomes[q]]
  BY <1>1 DEF Settle
<1>3. waiting' = waiting \ {r} /\ {r} \in SUBSET waiting
  BY DEF Settle
<1>4. \A q \in {r} : out[q].id = q /\ (out[q].ok => kinds[q] \notin {"nonsense", "shutdown"})
  OBVIOUS
<1> HIDE DEF out
<1> QED BY <1>2, <1>3, <1>4, SettlingKeeps

LEMMA IpcStep == IpcInv /\ [IpcNext]_ipcVars => IpcInv'
<1> SUFFICES ASSUME IpcInv, [IpcNext]_ipcVars PROVE IpcInv'
  OBVIOUS
<1>1. CASE Launch \/ Listen \/ Terminate \/ SocketRemoved \/ Terminated \/ Killed \/ Connect1 \/ Disconnect
  BY <1>1, LosingKeeps DEF Launch, Listen, Terminate, SocketRemoved, Terminated, Killed, Connect1, Disconnect, Gone
<1>2. CASE SocketError
  <2> DEFINE out == [r \in waiting |-> [id |-> r, ok |-> FALSE]]
  <2>1. outcomes' = [r \in RequestIds |-> IF r \in waiting THEN outcomes[r] \cup {out[r]} ELSE outcomes[r]]
    BY <1>2 DEF SocketError
  <2>2. waiting' = waiting \ waiting /\ UNCHANGED <<kinds, wire>> /\ answers' \subseteq answers
    BY <1>2 DEF SocketError
  <2>3. \A r \in waiting : out[r].id = r /\ (out[r].ok => kinds[r] \notin {"nonsense", "shutdown"})
    OBVIOUS
  <2> HIDE DEF out
  <2> QED BY <2>1, <2>2, <2>3, SettlingKeeps
<1>3. ASSUME NEW r \in RequestIds, NEW kind \in IpcKinds, Send(r, kind) PROVE IpcInv'
  <2>1. /\ r \notin DOMAIN kinds /\ DOMAIN kinds' = DOMAIN kinds \cup {r}
        /\ kinds' \in [DOMAIN kinds' -> IpcKinds] /\ \A q \in DOMAIN kinds : kinds'[q] = kinds[q]
    BY <1>3 DEF Send, IpcInv
  <2>2. /\ waiting' = waiting \cup {r} /\ wire' \subseteq wire \cup {r}
        /\ answers' = answers /\ outcomes' = outcomes
    BY <1>3 DEF Send
  <2>3. outcomes[r] = {}
    BY <2>1 DEF IpcInv
  <2>4. AnswersTyped'
    BY <2>1, <2>2 DEF AnswersTyped, IpcInv
  <2>5. IpcMatched'
    <3> SUFFICES ASSUME NEW q \in RequestIds
                 PROVE  /\ Cardinality(outcomes[q]) <= 1
                        /\ \A o \in outcomes[q] : o.id = q /\ q \notin waiting'
                             /\ (o.ok => kinds'[q] \notin {"nonsense", "shutdown"})
      BY <2>2 DEF IpcMatched
    <3>1. CASE q = r
      BY <2>3, <3>1, NoOutcome
    <3>2. CASE q # r
      BY <2>1, <2>2, <3>2 DEF IpcInv, IpcMatched
    <3> QED BY <3>1, <3>2
  <2> QED BY <2>1, <2>2, <2>4, <2>5 DEF IpcInv
<1>4. ASSUME NEW r \in RequestIds, Handle(r) PROVE IpcInv'
  <2>1. PICK reply \in Reply(r) : answers' = answers \cup {reply}
    BY <1>4 DEF Handle
  <2>2. r \in DOMAIN kinds /\ kinds[r] \in IpcKinds /\ kinds[r] # "shutdown"
    BY <1>4 DEF Handle, IpcInv
  <2>3. \/ reply = [id |-> r, ok |-> FALSE]
        \/ reply = [id |-> "unknown", ok |-> FALSE]
        \/ reply = [id |-> r, ok |-> TRUE] /\ kinds[r] # "nonsense"
    BY <2>1, <2>2 DEF Reply, IpcKinds
  <2>4. /\ reply = [id |-> reply.id, ok |-> reply.ok] /\ reply.ok \in BOOLEAN
        /\ reply.ok => reply.id \in DOMAIN kinds /\ kinds[reply.id] \notin {"nonsense", "shutdown"}
    <3>1. CASE reply = [id |-> r, ok |-> FALSE]
      BY <3>1
    <3>2. CASE reply = [id |-> "unknown", ok |-> FALSE]
      BY <3>2
    <3>3. CASE reply = [id |-> r, ok |-> TRUE] /\ kinds[r] # "nonsense"
      BY <2>2, <3>3
    <3> QED BY <2>3, <3>1, <3>2, <3>3
  <2>5. UNCHANGED <<kinds, waiting, outcomes>> /\ wire' \subseteq wire
    BY <1>4 DEF Handle
  <2>6. AnswersTyped'
    BY <2>1, <2>4, <2>5 DEF IpcInv, AnswersTyped
  <2> QED BY <2>5, <2>6 DEF IpcInv, IpcMatched
<1>5. ASSUME NEW r \in RequestIds, HandleShutdown(r) PROVE IpcInv'
  BY <1>5, LosingKeeps DEF HandleShutdown, Gone
<1>6. ASSUME NEW r \in RequestIds, RequestTimeout(r) PROVE IpcInv'
  <2>1. Settle(r, [id |-> r, ok |-> FALSE]) /\ r \in waiting /\ UNCHANGED <<kinds, wire>> /\ answers' \subseteq answers
    BY <1>6 DEF RequestTimeout, Expired
  <2> QED BY <2>1, SettleKeeps
<1>7. ASSUME NEW a \in answers, Receive(a) PROVE IpcInv'
  <2>1. UNCHANGED <<kinds, wire>> /\ answers' \subseteq answers
    BY <1>7 DEF Receive
  <2>2. CASE Matched(a) # {}
    <3>1. PICK r \in Matched(a) : Settle(r, [id |-> a.id, ok |-> a.ok])
      BY <1>7, <2>2 DEF Receive
    <3>2. r \in waiting /\ r = a.id
      BY <3>1 DEF Matched
    <3>3. a.ok => kinds[r] \notin {"nonsense", "shutdown"}
      BY <1>7, <3>2 DEF IpcInv, AnswersTyped
    <3> QED BY <2>1, <3>1, <3>2, <3>3, SettleKeeps
  <2>3. CASE Matched(a) = {}
    BY <1>7, <2>1, <2>3, LosingKeeps DEF Receive
  <2> QED BY <2>2, <2>3
<1>8. CASE UNCHANGED ipcVars
  BY <1>8, LosingKeeps DEF ipcVars
<1> QED BY <1>1, <1>2, <1>3, <1>4, <1>5, <1>6, <1>7, <1>8 DEF IpcNext

-----------------------------------------------------------------------------
(* Polling Telegram. *)

Covered(u) == handled[u] > 0 \/ u \in Fetched
CoveredUpTo(n) == \A u \in Updates : u <= n => Covered(u)

TelegramTyped ==
  /\ confirmed \in Nat /\ lastUpdateId \in Nat /\ allowance \in Nat
  /\ sentUpdates \in 0 .. Cardinality(Updates)
  /\ DOMAIN polls = Polls
  /\ \A p \in Polls : /\ polls[p] = [is |-> polls[p].is, offset |-> polls[p].offset, updates |-> polls[p].updates]
                      /\ polls[p].updates \in Seq(Updates) /\ polls[p].offset \in Nat
  /\ handled \in [Updates -> Nat]
  /\ DOMAIN answered = Updates

\* What a poll has to handle comes after all that is handled, or with a poll.
PollsCover ==
  \A p \in Polls :
    /\ \A i \in DOMAIN polls[p].updates : CoveredUpTo(polls[p].updates[i])
    /\ polls[p].is \in {"unused", "asking", "over"} => polls[p].updates = <<>>
    /\ polls[p].is = "asking" => CoveredUpTo(polls[p].offset - 1)
    /\ polls[p].is = "answering" =>
         polls[p].updates # <<>> /\ handled[polls[p].updates[1]] > 0

Asked == {u \in Updates : "asked" \in answered[u]}

TelegramInv ==
  /\ TelegramTyped /\ PollsCover
  /\ CoveredUpTo(confirmed) /\ CoveredUpTo(lastUpdateId)
  /\ \A u \in Updates \ Welcome : answered[u] \subseteq {"unauthorized"}
  /\ Cardinality(Asked) + allowance <= RatePerMinute

LEMMA UpdatesFinite == IsFiniteSet(Updates)
BY TelegramAssumption, FS_Interval

LEMMA TelegramBegins == TelegramInit => TelegramInv
<1> SUFFICES ASSUME TelegramInit PROVE TelegramInv
  OBVIOUS
<1> USE TelegramAssumption DEF TelegramInit
<1>1. TelegramTyped
  <2>1. \A p \in Polls : polls[p] = [is |-> "unused", offset |-> 0, updates |-> <<>>]
    OBVIOUS
  <2>2. \A p \in Polls : /\ polls[p] = [is |-> polls[p].is, offset |-> polls[p].offset, updates |-> polls[p].updates]
                         /\ polls[p].updates \in Seq(Updates) /\ polls[p].offset \in Nat
    <3> SUFFICES ASSUME NEW p \in Polls
                 PROVE  /\ polls[p] = [is |-> polls[p].is, offset |-> polls[p].offset, updates |-> polls[p].updates]
                        /\ polls[p].updates \in Seq(Updates) /\ polls[p].offset \in Nat
      OBVIOUS
    <3>1. polls[p].is = "unused" /\ polls[p].offset = 0 /\ polls[p].updates = <<>>
      BY <2>1
    <3>2. <<>> \in Seq(Updates) /\ 0 \in Nat
      OBVIOUS
    <3> QED BY <2>1, <3>1, <3>2, Zenon
  <2>3. 0 \in 0 .. Cardinality(Updates)
    OBVIOUS
  <2>4. handled \in [Updates -> Nat] /\ DOMAIN answered = Updates /\ DOMAIN polls = Polls
    OBVIOUS
  <2> QED BY <2>2, <2>3, <2>4 DEF TelegramTyped
<1>2. PollsCover /\ CoveredUpTo(confirmed) /\ CoveredUpTo(lastUpdateId)
  BY DEF PollsCover, CoveredUpTo
<1>3. \A u \in Updates \ Welcome : answered[u] \subseteq {"unauthorized"}
  OBVIOUS
<1>4. Asked = {}
  BY DEF Asked
<1>5. Cardinality(Asked) = 0 /\ allowance = RatePerMinute
  BY <1>4, FS_EmptySet
<1> QED BY <1>1, <1>2, <1>3, <1>5 DEF TelegramInv

LEMMA FetchedIs == \A u : u \in Fetched <=> \E p \in Polls : \E i \in DOMAIN polls[p].updates : polls[p].updates[i] = u
BY DEF Fetched, ToSet

\* No action uncovers an update: then what was covered up to some update still is.
LEMMA CoverGrows ==
  ASSUME \A u \in Updates : Covered(u) => Covered(u)', NEW n, CoveredUpTo(n)
  PROVE  \A u \in Updates : u <= n => Covered(u)'
BY DEF CoveredUpTo

\* Where no reply is written, the rest of the invariant is about polls and updates only.
LEMMA RepliesUnchanged ==
  ASSUME TelegramInv, UNCHANGED <<answered, allowance>>, TelegramTyped', PollsCover',
         CoveredUpTo(confirmed)', CoveredUpTo(lastUpdateId)'
  PROVE  TelegramInv'
BY DEF TelegramInv, Asked

\* A poll that is made asks from an update on before which all are covered.
LEMMA PollKeeps ==
  ASSUME TelegramInv, NEW p \in Polls, Poll(p)
  PROVE  TelegramInv'
<1> USE DEF TelegramInv
<1>1. /\ polls[p].updates = <<>> /\ polls' = [polls EXCEPT ![p] = [is |-> "asking", offset |-> Offset, updates |-> <<>>]]
      /\ UNCHANGED <<sentUpdates, confirmed, lastUpdateId, handled, answered, allowance>>
  BY DEF Poll, PollsCover, Went
<1>2. Offset \in Nat /\ Offset - 1 = lastUpdateId /\ lastUpdateId \in Nat
  BY DEF Offset, TelegramTyped
<1>3. /\ DOMAIN polls' = Polls /\ \A q \in Polls : polls'[q].updates = polls[q].updates
      /\ \A q \in Polls : q # p => polls'[q] = polls[q]
      /\ polls'[p] = [is |-> "asking", offset |-> Offset, updates |-> <<>>]
  BY <1>1 DEF TelegramTyped
<1>4. polls'[p].is = "asking" /\ polls'[p].offset = Offset /\ polls'[p].updates = <<>>
  BY <1>3
<1> HIDE DEF Offset
<1>5. \A v \in Updates : Covered(v) => Covered(v)'
  BY <1>1, <1>3 DEF Covered, Fetched, ToSet
<1>6. TelegramTyped'
  <2>1. <<>> \in Seq(Updates)
    OBVIOUS
  <2>2. /\ polls'[p] = [is |-> polls'[p].is, offset |-> polls'[p].offset, updates |-> polls'[p].updates]
        /\ polls'[p].updates \in Seq(Updates) /\ polls'[p].offset \in Nat
    BY <1>2, <1>3, <1>4, <2>1
  <2> QED BY <1>1, <1>3, <2>2 DEF TelegramTyped
<1>7. CoveredUpTo(confirmed)' /\ CoveredUpTo(lastUpdateId)'
  BY <1>1, <1>5 DEF CoveredUpTo
<1>8. PollsCover'
  <2>1. ASSUME NEW q \in Polls, NEW i \in DOMAIN polls'[q].updates PROVE CoveredUpTo(polls[q].updates[i])'
    BY <1>3, <1>5 DEF PollsCover, CoveredUpTo
  <2>2. ASSUME NEW q \in Polls
        PROVE  /\ polls'[q].is \in {"unused", "asking", "over"} => polls'[q].updates = <<>>
               /\ polls'[q].is = "asking" => CoveredUpTo(polls[q].offset - 1)'
               /\ polls'[q].is = "answering" =>
                    polls'[q].updates # <<>> /\ handled'[polls'[q].updates[1]] > 0
    <3>1. CASE q = p
      <4>1. CoveredUpTo(polls[p].offset - 1)'
        BY <1>1, <1>2, <1>4, <1>7 DEF CoveredUpTo
      <4> QED BY <1>4, <3>1, <4>1
    <3>2. CASE q # p
      BY <1>1, <1>3, <1>5, <3>2 DEF PollsCover, CoveredUpTo
    <3> QED BY <3>1, <3>2
  <2> QED BY <1>3, <2>1, <2>2 DEF PollsCover
<1> QED BY <1>1, <1>6, <1>7, <1>8, RepliesUnchanged

LEMMA ReachKeeps ==
  ASSUME TelegramInv, NEW p \in Polls, Reach(p)
  PROVE  TelegramInv'
<1> USE TelegramAssumption DEF TelegramInv
<1> DEFINE first == IF polls[p].offset > confirmed + 1 THEN polls[p].offset ELSE confirmed + 1
           found == [i \in 1 .. sentUpdates - first + 1 |-> first + i - 1]
<1>1. /\ polls[p].is = "asking" /\ polls[p].updates = <<>>
      /\ UNCHANGED <<sentUpdates, lastUpdateId, handled, answered, allowance>>
      /\ confirmed' \in {confirmed, first - 1}
      /\ \/ polls' = [polls EXCEPT ![p] = [is |-> "handling", offset |-> 0, updates |-> found]] /\ confirmed' = first - 1
         \/ polls' = [polls EXCEPT ![p] = [is |-> "over", offset |-> 0, updates |-> <<>>]]
  BY SMTT(60) DEF Reach, PollsCover, TelegramTyped, Went
<1>2. first \in Nat \ {0} /\ first - 1 \in {confirmed, polls[p].offset - 1}
  BY DEF TelegramTyped
<1>3. found \in Seq(Updates) /\ DOMAIN found = 1 .. sentUpdates - first + 1
      /\ \A i \in DOMAIN found : found[i] = first + i - 1
  <2>1. sentUpdates \in Nat /\ sentUpdates <= Cardinality(Updates)
    BY DEF TelegramTyped
  <2>2. \A i \in 1 .. sentUpdates - first + 1 : first + i - 1 \in Updates
    BY <1>2, <2>1, SMTT(60)
  <2>3. PICK n \in Nat : 1 .. sentUpdates - first + 1 = 1 .. n
    <3>1. \A m \in Int : \E n \in Nat : 1 .. m = 1 .. n
      <4> SUFFICES ASSUME NEW m \in Int PROVE \E n \in Nat : 1 .. m = 1 .. n
        OBVIOUS
      <4>1. CASE m >= 0
        BY <4>1
      <4>2. CASE m < 0
        <5>1. 1 .. m = {} /\ 1 .. 0 = {}
          BY <4>2
        <5> QED BY <5>1
      <4> QED BY <4>1, <4>2
    <3>2. sentUpdates - first + 1 \in Int
      BY <1>2, <2>1
    <3> QED BY <3>1, <3>2
  <2>4. DOMAIN found = 1 .. n /\ \A i \in DOMAIN found : found[i] = first + i - 1
    BY <2>3
  <2>5. found \in [1 .. n -> Updates]
    BY <2>2, <2>3
  <2> HIDE DEF found
  <2>6. found \in Seq(Updates)
    BY <2>5
  <2> QED BY <2>3, <2>4, <2>6
<1> HIDE DEF found, first
<1>4. CoveredUpTo(first - 1)
  BY <1>1, <1>2 DEF PollsCover
<1>5. \A q \in Polls : q # p => polls'[q] = polls[q]
  BY <1>1 DEF TelegramTyped
<1>6. \/ polls'[p] = [is |-> "handling", offset |-> 0, updates |-> found]
      \/ polls'[p] = [is |-> "over", offset |-> 0, updates |-> <<>>]
  BY <1>1 DEF TelegramTyped
<1>7. \A u \in Updates : Covered(u) => Covered(u)'
  BY <1>1, <1>5, FetchedIs DEF Covered, Fetched, ToSet
<1>8. TelegramTyped'
  <2>1. /\ polls'[p] = [is |-> polls'[p].is, offset |-> polls'[p].offset, updates |-> polls'[p].updates]
        /\ polls'[p].updates \in Seq(Updates) /\ polls'[p].offset \in Nat
    <3>1. CASE polls'[p] = [is |-> "handling", offset |-> 0, updates |-> found]
      BY <1>3, <3>1
    <3>2. CASE polls'[p] = [is |-> "over", offset |-> 0, updates |-> <<>>]
      BY <3>2
    <3> QED BY <1>6, <3>1, <3>2
  <2>2. DOMAIN polls' = Polls
    BY <1>1 DEF TelegramTyped
  <2>3. confirmed' \in Nat
    BY <1>1, <1>2 DEF TelegramTyped
  <2> QED BY <1>1, <1>5, <2>1, <2>2, <2>3 DEF TelegramTyped
<1>9. CoveredUpTo(confirmed)' /\ CoveredUpTo(lastUpdateId)'
  BY <1>1, <1>4, <1>7 DEF CoveredUpTo
<1>10. PollsCover'
  <2>1. ASSUME polls'[p].updates = found, NEW i \in DOMAIN found,
               NEW u \in Updates, u <= found[i]
        PROVE  Covered(u)'
    <3>1. /\ i \in 1 .. sentUpdates - first + 1 /\ found[i] = first + i - 1 /\ sentUpdates \in Nat
          /\ u <= first + i - 1
      BY <1>3, <2>1 DEF TelegramTyped
    <3>2. CASE u <= first - 1
      BY <1>4, <1>7, <3>2 DEF CoveredUpTo
    <3>3. CASE u > first - 1
      <4>1. u - first + 1 \in 1 .. sentUpdates - first + 1 /\ first + (u - first + 1) - 1 = u
        BY <1>2, <3>1, <3>3
      <4>2. found[u - first + 1] = u /\ u - first + 1 \in DOMAIN polls'[p].updates
        BY <1>3, <2>1, <4>1
      <4> QED BY <2>1, <4>2 DEF Covered, Fetched, ToSet
    <3> QED BY <1>2, <3>2, <3>3
  <2>2. ASSUME NEW q \in Polls, NEW i \in DOMAIN polls'[q].updates, NEW u \in Updates,
               u <= polls'[q].updates[i]
        PROVE  Covered(u)'
    <3>1. CASE q # p
      <4>1. i \in DOMAIN polls[q].updates /\ u <= polls[q].updates[i]
        BY <1>5, <2>2, <3>1
      <4> QED BY <1>7, <4>1 DEF PollsCover, CoveredUpTo
    <3>2. CASE q = p /\ polls'[p] = [is |-> "handling", offset |-> 0, updates |-> found]
      <4>1. polls'[p].updates = found /\ i \in DOMAIN found /\ u <= found[i]
        BY <2>2, <3>2
      <4> QED BY <2>1, <4>1
    <3>3. CASE q = p /\ polls'[p] = [is |-> "over", offset |-> 0, updates |-> <<>>]
      BY <2>2, <3>3
    <3> QED BY <1>6, <3>1, <3>2, <3>3
  <2>3. ASSUME NEW q \in Polls
        PROVE  /\ polls'[q].is \in {"unused", "asking", "over"} => polls'[q].updates = <<>>
               /\ polls'[q].is = "asking" => CoveredUpTo(polls[q].offset - 1)'
               /\ polls'[q].is = "answering" =>
                    polls'[q].updates # <<>> /\ handled'[polls'[q].updates[1]] > 0
    <3>1. CASE q # p
      BY <1>1, <1>5, <1>7, <3>1 DEF PollsCover, CoveredUpTo
    <3>2. CASE q = p
      BY <1>6, <3>2
    <3> QED BY <3>1, <3>2
  <2>4. \A q \in Polls : \A i \in DOMAIN polls'[q].updates : CoveredUpTo(polls[q].updates[i])'
    BY <2>2 DEF CoveredUpTo
  <2> QED BY <2>3, <2>4 DEF PollsCover
<1> QED BY <1>1, <1>8, <1>9, <1>10, RepliesUnchanged

\* The update a poll comes to is handled from now on, and stays with the poll until answered.
LEMMA TakeKeeps ==
  ASSUME TelegramInv, NEW p \in Polls, Take1(p)
  PROVE  TelegramInv'
<1> USE TelegramAssumption DEF TelegramInv
<1> DEFINE u == polls[p].updates[1]
<1>1. /\ polls[p].is = "handling" /\ polls[p].updates # <<>> /\ lastUpdateId' = u
      /\ polls' = [polls EXCEPT ![p].is = "answering"]
      /\ handled' = [handled EXCEPT ![u] = @ + 1] /\ UNCHANGED <<sentUpdates, confirmed>>
  BY DEF Take1
<1>2. polls[p].updates \in Seq(Updates) /\ 1 \in DOMAIN polls[p].updates /\ u \in Updates /\ u \in Nat
  <2>1. polls[p].updates \in Seq(Updates)
    BY DEF TelegramTyped
  <2> QED BY <1>1, <2>1
<1>3. /\ DOMAIN polls' = Polls /\ \A q \in Polls : polls'[q].updates = polls[q].updates
      /\ \A q \in Polls : q # p => polls'[q] = polls[q]
      /\ polls'[p] = [is |-> "answering", offset |-> polls[p].offset, updates |-> polls[p].updates]
      /\ polls'[p].is = "answering"
  BY <1>1, SMTT(60) DEF TelegramTyped
<1>4. handled' \in [Updates -> Nat] /\ handled'[u] > 0 /\ \A v \in Updates : handled[v] > 0 => handled'[v] > 0
  BY <1>1, <1>2, SMTT(60) DEF TelegramTyped
<1>5. \A v \in Updates : Covered(v) => Covered(v)'
  BY <1>3, <1>4 DEF Covered, Fetched, ToSet
<1>6. CoveredUpTo(u)
  BY <1>2 DEF PollsCover
<1>7. CoveredUpTo(confirmed)' /\ CoveredUpTo(lastUpdateId)'
  BY <1>1, <1>5, <1>6 DEF CoveredUpTo
<1>8. PollsCover'
  <2>1. ASSUME NEW q \in Polls, NEW i \in DOMAIN polls'[q].updates PROVE CoveredUpTo(polls[q].updates[i])'
    BY <1>3, <1>5 DEF PollsCover, CoveredUpTo
  <2>2. ASSUME NEW q \in Polls
        PROVE  /\ polls'[q].is \in {"unused", "asking", "over"} => polls'[q].updates = <<>>
               /\ polls'[q].is = "asking" => CoveredUpTo(polls[q].offset - 1)'
               /\ polls'[q].is = "answering" =>
                    polls'[q].updates # <<>> /\ handled'[polls'[q].updates[1]] > 0
    <3>1. CASE q = p
      BY <1>1, <1>3, <1>4, <3>1
    <3>2. CASE q # p
      <4>1. polls[q].updates # <<>> => polls[q].updates[1] \in Updates
        BY DEF TelegramTyped
      <4>2. polls'[q].is = "asking" => CoveredUpTo(polls[q].offset - 1)'
        BY <1>3, <1>5, <3>2 DEF PollsCover, CoveredUpTo
      <4> QED BY <1>3, <1>4, <3>2, <4>1, <4>2 DEF PollsCover
    <3> QED BY <3>1, <3>2
  <2> QED BY <2>1, <2>2 DEF PollsCover
<1> HIDE DEF u
<1>9. /\ allowance' \in Nat /\ DOMAIN answered' = Updates
      /\ \A v \in Updates \ Welcome : answered'[v] \subseteq {"unauthorized"}
      /\ Cardinality(Asked') + allowance' <= RatePerMinute
  <2>0. IsFiniteSet(Asked) /\ Cardinality(Asked) \in Nat /\ allowance \in Nat
    <3>1. Asked \subseteq Updates
      BY DEF Asked
    <3> QED BY <3>1, UpdatesFinite, FS_Subset, FS_CardinalityType DEF TelegramTyped
  <2>1. CASE UNCHANGED <<allowance, answered>>
    BY <2>1 DEF Asked, TelegramTyped
  <2>2. CASE /\ allowance' = IF u \in Welcome /\ allowance > 0 THEN allowance - 1 ELSE allowance
             /\ answered' = [answered EXCEPT ![u] = @ \cup
                  {IF u \notin Welcome THEN "unauthorized" ELSE IF allowance = 0 THEN "limited" ELSE "asked"}]
    <3>1. DOMAIN answered' = Updates /\ \A v \in Updates : v # u => answered'[v] = answered[v]
      BY <2>2 DEF TelegramTyped
    <3>2. CASE u \notin Welcome
      <4>1. allowance' = allowance /\ answered'[u] = answered[u] \cup {"unauthorized"}
        BY <1>2, <2>2, <3>2 DEF TelegramTyped
      <4>2. Asked' = Asked
        BY <3>1, <4>1 DEF Asked
      <4> QED BY <2>0, <3>1, <4>1, <4>2
    <3>3. CASE u \in Welcome /\ allowance = 0
      <4>1. allowance' = allowance /\ answered'[u] = answered[u] \cup {"limited"}
        BY <1>2, <2>2, <3>3 DEF TelegramTyped
      <4>2. Asked' = Asked
        BY <3>1, <4>1 DEF Asked
      <4> QED BY <2>0, <3>1, <3>3, <4>1, <4>2
    <3>4. CASE u \in Welcome /\ allowance > 0
      <4>1. allowance' = allowance - 1 /\ answered'[u] = answered[u] \cup {"asked"}
        BY <1>2, <2>2, <3>4, <2>0, SMTT(60) DEF TelegramTyped
      <4>2. Asked' = Asked \cup {u}
        BY <1>2, <3>1, <4>1 DEF Asked
      <4>3. Cardinality(Asked') <= Cardinality(Asked) + 1 /\ Cardinality(Asked') \in Nat
        <5>1. Cardinality(Asked \cup {u}) = IF u \in Asked THEN Cardinality(Asked) ELSE Cardinality(Asked) + 1
          BY <2>0, FS_AddElement, Zenon
        <5> QED BY <2>0, <4>2, <5>1
      <4> QED BY <2>0, <3>1, <3>4, <4>1, <4>3
    <3> QED BY <2>0, <3>2, <3>3, <3>4
  <2>3. u = Head(polls[p].updates)
    BY <1>2 DEF u
  <2> QED BY <2>1, <2>2, <2>3 DEF Take1
<1>10. TelegramTyped'
  <2>1. \A q \in Polls : /\ polls'[q] = [is |-> polls'[q].is, offset |-> polls'[q].offset, updates |-> polls'[q].updates]
                         /\ polls'[q].updates \in Seq(Updates) /\ polls'[q].offset \in Nat
    <3> SUFFICES ASSUME NEW q \in Polls
                 PROVE  /\ polls'[q] = [is |-> polls'[q].is, offset |-> polls'[q].offset, updates |-> polls'[q].updates]
                        /\ polls'[q].updates \in Seq(Updates) /\ polls'[q].offset \in Nat
      OBVIOUS
    <3>1. polls[q].updates \in Seq(Updates) /\ polls[q].offset \in Nat
      BY DEF TelegramTyped
    <3>2. CASE q = p
      BY <1>3, <3>1, <3>2
    <3>3. CASE q # p
      BY <1>3, <3>3 DEF TelegramTyped
    <3> QED BY <3>2, <3>3
  <2> QED BY <1>1, <1>2, <1>3, <1>4, <1>9, <2>1 DEF TelegramTyped
<1> QED BY <1>7, <1>8, <1>9, <1>10 DEF Asked

LEMMA AnswerKeeps ==
  ASSUME TelegramInv, NEW p \in Polls, Answer1(p)
  PROVE  TelegramInv'
<1> USE TelegramAssumption DEF TelegramInv
<1> DEFINE s == polls[p].updates
           rest == Tail(s)
<1>1. /\ polls[p].is = "answering"
      /\ polls' = [polls EXCEPT ![p] = [is |-> "handling", offset |-> 0, updates |-> rest]]
      /\ UNCHANGED <<sentUpdates, confirmed, lastUpdateId, handled, answered, allowance>>
  BY DEF Answer1, Went
<1>2. s \in Seq(Updates) /\ s # <<>> /\ handled[s[1]] > 0
  BY <1>1 DEF TelegramTyped, PollsCover
<1>3. /\ rest \in Seq(Updates)
      /\ \A i \in DOMAIN rest : i + 1 \in DOMAIN s /\ rest[i] = s[i + 1]
      /\ \A i \in DOMAIN s : i = 1 \/ (i - 1 \in DOMAIN rest /\ rest[i - 1] = s[i])
  <2> HIDE DEF s
  <2> QED BY <1>2, SMTT(60)
<1> HIDE DEF rest
<1>4. /\ DOMAIN polls' = Polls
      /\ polls'[p].is = "handling" /\ polls'[p].updates = rest
      /\ polls'[p] = [is |-> polls'[p].is, offset |-> polls'[p].offset, updates |-> polls'[p].updates]
      /\ polls'[p].offset = 0
      /\ \A q \in Polls : q # p => polls'[q] = polls[q]
  BY <1>1 DEF TelegramTyped
<1>5. ASSUME NEW v \in Updates, Covered(v) PROVE Covered(v)'
  <2>1. CASE handled[v] > 0
    BY <1>1, <2>1 DEF Covered
  <2>2. CASE v \in Fetched
    <3>0. PICK q \in Polls : \E i \in DOMAIN polls[q].updates : polls[q].updates[i] = v
      BY <2>2, FetchedIs
    <3>1. PICK i \in DOMAIN polls[q].updates : polls[q].updates[i] = v
      BY <3>0
    <3>2. CASE q # p
      BY <1>4, <3>1, <3>2 DEF Covered, Fetched, ToSet
    <3>3. CASE q = p /\ i = 1
      BY <1>1, <1>2, <3>1, <3>3 DEF Covered
    <3>4. CASE q = p /\ i # 1
      <4>1. i - 1 \in DOMAIN polls'[p].updates /\ polls'[p].updates[i - 1] = v
        BY <1>3, <1>4, <3>1, <3>4
      <4> QED BY <4>1 DEF Covered, Fetched, ToSet
    <3> QED BY <3>2, <3>3, <3>4
  <2> QED BY <1>5, <2>1, <2>2 DEF Covered
<1>6. TelegramTyped'
  BY <1>1, <1>3, <1>4 DEF TelegramTyped
<1>7. CoveredUpTo(confirmed)' /\ CoveredUpTo(lastUpdateId)'
  BY <1>1, <1>5 DEF CoveredUpTo
<1>8. PollsCover'
  <2>1. ASSUME NEW q \in Polls, NEW i \in DOMAIN polls'[q].updates
        PROVE  \E j \in DOMAIN polls[q].updates : polls'[q].updates[i] = polls[q].updates[j]
    <3>1. CASE q = p
      BY <1>3, <1>4, <3>1
    <3>2. CASE q # p
      BY <1>4, <3>2
    <3> QED BY <3>1, <3>2
  <2>2. ASSUME NEW q \in Polls, NEW i \in DOMAIN polls'[q].updates PROVE CoveredUpTo(polls[q].updates[i])'
    BY <1>5, <2>1 DEF PollsCover, CoveredUpTo
  <2>3. ASSUME NEW q \in Polls
        PROVE  /\ polls'[q].is \in {"unused", "asking", "over"} => polls'[q].updates = <<>>
               /\ polls'[q].is = "asking" => CoveredUpTo(polls[q].offset - 1)'
               /\ polls'[q].is = "answering" =>
                    polls'[q].updates # <<>> /\ handled'[polls'[q].updates[1]] > 0
    <3>1. CASE q = p
      BY <1>4, <3>1
    <3>2. CASE q # p
      BY <1>1, <1>4, <1>5, <3>2 DEF PollsCover, CoveredUpTo
    <3> QED BY <3>1, <3>2
  <2> QED BY <2>2, <2>3 DEF PollsCover
<1> QED BY <1>1, <1>6, <1>7, <1>8, RepliesUnchanged

\* Steps that leave the updates of the polls where they are.
LEMMA PollsUnchanged ==
  ASSUME TelegramInv, UNCHANGED <<confirmed, lastUpdateId, handled, answered, allowance, polls>>,
         sentUpdates' \in 0 .. Cardinality(Updates)
  PROVE  TelegramInv'
BY DEF TelegramInv, TelegramTyped, PollsCover, CoveredUpTo, Covered, Fetched, Asked

LEMMA PollOverKeeps ==
  ASSUME TelegramInv, NEW p \in Polls, PollOver(p)
  PROVE  TelegramInv'
<1> USE DEF TelegramInv
<1>1. /\ polls[p].updates = <<>> /\ polls' = [polls EXCEPT ![p].is = "over"]
      /\ UNCHANGED <<sentUpdates, confirmed, lastUpdateId, handled, answered, allowance>>
  BY DEF PollOver
<1>2. /\ DOMAIN polls' = Polls /\ \A q \in Polls : polls'[q].updates = polls[q].updates
      /\ \A q \in Polls : q # p => polls'[q] = polls[q]
      /\ polls'[p] = [is |-> "over", offset |-> polls[p].offset, updates |-> polls[p].updates] /\ polls'[p].is = "over"
  BY <1>1 DEF TelegramTyped
<1>3. \A v \in Updates : Covered(v) => Covered(v)'
  BY <1>1, <1>2 DEF Covered, Fetched, ToSet
<1>4. TelegramTyped'
  BY <1>1, <1>2 DEF TelegramTyped
<1>5. CoveredUpTo(confirmed)' /\ CoveredUpTo(lastUpdateId)'
  BY <1>1, <1>3 DEF CoveredUpTo
<1>6. PollsCover'
  <2>1. ASSUME NEW q \in Polls, NEW i \in DOMAIN polls'[q].updates PROVE CoveredUpTo(polls[q].updates[i])'
    BY <1>2, <1>3 DEF PollsCover, CoveredUpTo
  <2>2. ASSUME NEW q \in Polls
        PROVE  /\ polls'[q].is \in {"unused", "asking", "over"} => polls'[q].updates = <<>>
               /\ polls'[q].is = "asking" => CoveredUpTo(polls[q].offset - 1)'
               /\ polls'[q].is = "answering" =>
                    polls'[q].updates # <<>> /\ handled'[polls'[q].updates[1]] > 0
    <3>1. CASE q = p
      BY <1>1, <1>2, <3>1
    <3>2. CASE q # p
      BY <1>1, <1>2, <1>3, <3>2 DEF PollsCover, CoveredUpTo
    <3> QED BY <3>1, <3>2
  <2> QED BY <2>1, <2>2 DEF PollsCover
<1> QED BY <1>1, <1>4, <1>5, <1>6, RepliesUnchanged

LEMMA TelegramStep == TelegramInv /\ [TelegramNext]_telegramVars => TelegramInv'
<1> SUFFICES ASSUME TelegramInv, [TelegramNext]_telegramVars PROVE TelegramInv'
  OBVIOUS
<1>0. sentUpdates \in 0 .. Cardinality(Updates)
  BY DEF TelegramInv, TelegramTyped
<1>1. CASE StartPolling \/ StopPolling \/ UNCHANGED telegramVars
  BY <1>0, <1>1, PollsUnchanged DEF StartPolling, StopPolling, telegramVars
<1>2. CASE UserSends
  <2>1. sentUpdates' \in 0 .. Cardinality(Updates)
    BY <1>0, <1>2, TelegramAssumption DEF UserSends
  <2> QED BY <1>2, <2>1, PollsUnchanged DEF UserSends
<1>3. ASSUME NEW p \in Polls, Poll(p) \/ PollProgress(p) PROVE TelegramInv'
  BY <1>3, PollKeeps, ReachKeeps, TakeKeeps, AnswerKeeps, PollOverKeeps DEF PollProgress
<1> QED BY <1>1, <1>2, <1>3 DEF TelegramNext

\* While polls did not overlap: one at a time, and what it has still to handle comes right
\* after what is handled.
OneGoing == \A p, q \in Polls : Going(p) /\ Going(q) => p = q

GoesOn(p) ==
  /\ polls[p].is = "asking" => polls[p].offset = lastUpdateId + 1
  /\ polls[p].is = "handling" => \A i \in DOMAIN polls[p].updates : polls[p].updates[i] = lastUpdateId + i
  /\ polls[p].is = "answering" => \A i \in DOMAIN polls[p].updates : polls[p].updates[i] = lastUpdateId + i - 1

HandledOnce == \A u \in Updates : handled[u] = IF u <= lastUpdateId THEN 1 ELSE 0

Sequential ==
  /\ overlapped \in BOOLEAN
  /\ ~overlapped => OneGoing /\ HandledOnce /\ confirmed <= lastUpdateId /\ \A p \in Polls : GoesOn(p)

LEMMA SequentialBegins == TelegramInit => Sequential
<1> SUFFICES ASSUME TelegramInit PROVE Sequential
  OBVIOUS
<1>1. \A p \in Polls : polls[p].is = "unused"
  BY DEF TelegramInit
<1>2. OneGoing /\ \A p \in Polls : GoesOn(p)
  BY <1>1 DEF OneGoing, Going, GoesOn
<1>3. HandledOnce
  BY TelegramAssumption DEF HandledOnce, TelegramInit
<1>4. overlapped = FALSE /\ confirmed <= lastUpdateId
  BY DEF TelegramInit
<1> QED BY <1>2, <1>3, <1>4 DEF Sequential

\* A step of the one poll that goes on, of which only its own record tells.
LEMMA GoingAlone ==
  ASSUME TelegramInv, ~overlapped, Sequential, NEW p \in Polls, Going(p), overlapped' = overlapped,
         DOMAIN polls' = Polls, \A q \in Polls : q # p => polls'[q] = polls[q],
         GoesOn(p)', HandledOnce', confirmed' <= lastUpdateId'
  PROVE  Sequential'
<1>1. \A q \in Polls : q # p => polls'[q].is \in {"unused", "over"}
  BY DEF Sequential, OneGoing, Going
<1>2. \A q \in Polls : GoesOn(q)'
  BY <1>1 DEF GoesOn
<1>3. OneGoing'
  BY <1>1 DEF OneGoing, Going
<1> QED BY <1>2, <1>3 DEF Sequential

LEMMA SequentialStep ==
  ASSUME TelegramInv, Sequential, [TelegramNext]_telegramVars
  PROVE  Sequential'
<1> USE DEF TelegramInv
<1>1. CASE StartPolling \/ StopPolling \/ UserSends \/ UNCHANGED telegramVars
  BY <1>1 DEF StartPolling, StopPolling, UserSends, telegramVars, Sequential, OneGoing, Going, HandledOnce, GoesOn
<1>2. ASSUME NEW p \in Polls, Poll(p) PROVE Sequential'
  <2>1. /\ polls[p].is = "unused" /\ UNCHANGED <<confirmed, lastUpdateId, handled>>
        /\ overlapped' = (overlapped \/ \E q \in Polls : Going(q))
    BY <1>2 DEF Poll
  <2>2. /\ \A q \in Polls : q # p => polls'[q] = polls[q]
        /\ polls'[p].is = "asking" /\ polls'[p].offset = lastUpdateId + 1
    BY <1>2 DEF Poll, Went, Offset, TelegramTyped
  <2>3. CASE overlapped'
    BY <2>3 DEF Sequential
  <2>4. CASE ~overlapped'
    <3>1. ~overlapped /\ \A q \in Polls : ~Going(q)
      BY <2>1, <2>4
    <3>2. \A q \in Polls : q # p => polls'[q].is \in {"unused", "over"}
      BY <2>2, <3>1 DEF Going
    <3>3. OneGoing' /\ \A q \in Polls : GoesOn(q)'
      BY <2>1, <2>2, <3>2 DEF OneGoing, Going, GoesOn
    <3>4. HandledOnce' /\ confirmed' <= lastUpdateId'
      BY <2>1, <3>1 DEF Sequential, HandledOnce
    <3> QED BY <2>1, <3>3, <3>4 DEF Sequential
  <2> QED BY <2>1, <2>3, <2>4 DEF Sequential
<1>3. ASSUME NEW p \in Polls, PollProgress(p) PROVE Sequential'
  <2>1. overlapped' = overlapped
    BY <1>3 DEF PollProgress, Reach, Take1, Answer1, PollOver
  <2>2. CASE overlapped
    BY <2>1, <2>2 DEF Sequential
  <2>3. CASE ~overlapped
    <3>1. /\ GoesOn(p) /\ HandledOnce /\ confirmed <= lastUpdateId /\ confirmed \in Nat /\ lastUpdateId \in Nat
          /\ DOMAIN polls = Polls
      BY <2>3 DEF Sequential, TelegramTyped
    <3>2. DOMAIN polls' = Polls /\ \A q \in Polls : q # p => polls'[q] = polls[q]
      BY <1>3, <3>1 DEF PollProgress, Reach, Take1, Answer1, PollOver, Went
    <3>3. Going(p)
      BY <1>3 DEF PollProgress, Reach, Take1, Answer1, PollOver, Going
    <3>4. CASE Reach(p)
      <4> DEFINE first == IF polls[p].offset > confirmed + 1 THEN polls[p].offset ELSE confirmed + 1
                 found == [i \in 1 .. sentUpdates - first + 1 |-> first + i - 1]
      <4>1. first = lastUpdateId + 1
        BY <3>1, <3>4 DEF GoesOn, Reach
      <4>2. /\ confirmed' \in {confirmed, first - 1} /\ UNCHANGED <<lastUpdateId, handled>>
            /\ \/ polls'[p] = [is |-> "handling", offset |-> 0, updates |-> found]
               \/ polls'[p] = [is |-> "over", offset |-> 0, updates |-> <<>>]
        <5>1. \/ polls' = [polls EXCEPT ![p] = [is |-> "handling", offset |-> 0, updates |-> found]]
              \/ polls' = [polls EXCEPT ![p] = [is |-> "over", offset |-> 0, updates |-> <<>>]]
          BY <3>4 DEF Reach, Went
        <5>2. confirmed' \in {confirmed, first - 1} /\ UNCHANGED <<lastUpdateId, handled>>
          BY <3>4 DEF Reach
        <5> HIDE DEF first, found
        <5> QED BY <3>1, <5>1, <5>2
      <4> HIDE DEF first
      <4>3. \A i \in DOMAIN found : found[i] = lastUpdateId + i
        BY <3>1, <4>1
      <4> HIDE DEF found
      <4>4. GoesOn(p)'
        <5>1. CASE polls'[p] = [is |-> "handling", offset |-> 0, updates |-> found]
          BY <4>2, <4>3, <5>1 DEF GoesOn
        <5>2. CASE polls'[p] = [is |-> "over", offset |-> 0, updates |-> <<>>]
          BY <5>2 DEF GoesOn
        <5> QED BY <4>2, <5>1, <5>2
      <4>5. HandledOnce' /\ confirmed' <= lastUpdateId'
        BY <3>1, <4>1, <4>2 DEF HandledOnce
      <4> QED BY <2>1, <2>3, <3>2, <3>3, <4>4, <4>5, GoingAlone
    <3>5. CASE Take1(p)
      <4> DEFINE s == polls[p].updates
      <4>1. /\ polls[p].is = "handling" /\ s # <<>> /\ s \in Seq(Updates)
            /\ UNCHANGED confirmed
        BY <3>5 DEF Take1, TelegramTyped
      <4>2. 1 \in DOMAIN s /\ Head(s) = s[1] /\ s[1] \in Updates
        BY <4>1
      <4>3. s[1] = lastUpdateId + 1 /\ \A i \in DOMAIN s : s[i] = lastUpdateId + i
        BY <3>1, <4>1, <4>2 DEF GoesOn
      <4>4. lastUpdateId' = lastUpdateId + 1
        BY <3>5, <4>2, <4>3 DEF Take1
      <4>5. polls'[p].is = "answering" /\ polls'[p].updates = s
        <5>1. polls' = [polls EXCEPT ![p].is = "answering"] /\ polls[p] = [is |-> polls[p].is, offset |-> polls[p].offset, updates |-> polls[p].updates]
          BY <3>5 DEF Take1, TelegramTyped
        <5> QED BY <3>1, <5>1
      <4>6. GoesOn(p)'
        <5>1. \A i \in DOMAIN s : i \in Nat
          BY <4>1
        <5>2. \A i \in DOMAIN s : s[i] = lastUpdateId' + i - 1
          BY <3>1, <4>3, <4>4, <5>1
        <5> HIDE DEF s
        <5> QED BY <4>5, <5>2 DEF GoesOn
      <4>7. handled' = [handled EXCEPT ![s[1]] = @ + 1] /\ handled \in [Updates -> Nat]
        BY <3>5, <4>2 DEF Take1, TelegramTyped
      <4> HIDE DEF s
      <4>8. HandledOnce'
        <5> SUFFICES ASSUME NEW u \in Updates PROVE handled'[u] = IF u <= lastUpdateId' THEN 1 ELSE 0
          BY DEF HandledOnce
        <5>1. u \in Nat /\ handled[u] = IF u <= lastUpdateId THEN 1 ELSE 0
          BY <3>1, TelegramAssumption DEF HandledOnce
        <5>2. CASE u = s[1]
          BY <3>1, <4>3, <4>4, <4>7, <5>1, <5>2
        <5>3. CASE u # s[1]
          BY <3>1, <4>3, <4>4, <4>7, <5>1, <5>3
        <5> QED BY <5>2, <5>3
      <4> QED BY <2>1, <2>3, <3>1, <3>2, <3>3, <4>1, <4>4, <4>6, <4>8, GoingAlone
    <3>6. CASE Answer1(p)
      <4> DEFINE s == polls[p].updates
      <4>1. /\ polls[p].is = "answering" /\ s # <<>> /\ s \in Seq(Updates)
            /\ UNCHANGED <<confirmed, lastUpdateId, handled>>
        BY <3>6 DEF Answer1, TelegramTyped, PollsCover
      <4>2. polls'[p].is = "handling" /\ polls'[p].updates = Tail(s)
        BY <3>1, <3>6 DEF Answer1, Went
      <4>3. \A i \in DOMAIN s : s[i] = lastUpdateId + i - 1
        BY <3>1, <4>1 DEF GoesOn
      <4> HIDE DEF s
      <4>4. \A i \in DOMAIN Tail(s) : i \in Nat /\ i + 1 \in DOMAIN s /\ Tail(s)[i] = s[i + 1]
        BY <4>1, SMTT(60)
      <4>5. \A i \in DOMAIN Tail(s) : Tail(s)[i] = lastUpdateId' + i
        BY <3>1, <4>1, <4>3, <4>4
      <4>6. GoesOn(p)'
        BY <4>2, <4>5 DEF GoesOn
      <4>7. HandledOnce' /\ confirmed' <= lastUpdateId'
        BY <3>1, <4>1 DEF HandledOnce
      <4> QED BY <2>1, <2>3, <3>2, <3>3, <4>6, <4>7, GoingAlone
    <3>7. CASE PollOver(p)
      <4>1. polls'[p].is = "over" /\ UNCHANGED <<confirmed, lastUpdateId, handled>>
        BY <3>1, <3>7 DEF PollOver
      <4>2. GoesOn(p)' /\ HandledOnce' /\ confirmed' <= lastUpdateId'
        BY <3>1, <4>1 DEF GoesOn, HandledOnce
      <4> QED BY <2>1, <2>3, <3>2, <3>3, <4>2, GoingAlone
    <3> QED BY <1>3, <3>4, <3>5, <3>6, <3>7 DEF PollProgress
  <2> QED BY <2>2, <2>3
<1> QED BY <1>1, <1>2, <1>3 DEF TelegramNext

LEMMA TelegramSafe == TelegramInv /\ Sequential => NoUpdateLost
<1> SUFFICES ASSUME TelegramInv, Sequential PROVE NoUpdateLost
  OBVIOUS
<1>1. Cardinality(Asked) \in Nat /\ allowance \in Nat /\ Cardinality(Asked) + allowance <= RatePerMinute
  <2>1. Asked \subseteq Updates
    BY DEF Asked
  <2> QED BY <2>1, UpdatesFinite, FS_Subset, FS_CardinalityType DEF TelegramInv, TelegramTyped
<1>2. Cardinality(Asked) <= RatePerMinute
  BY <1>1, TelegramAssumption
<1>3. ~overlapped => \A u \in Updates : handled[u] <= 1
  BY DEF Sequential, HandledOnce
<1> QED BY <1>2, <1>3 DEF TelegramInv, NoUpdateLost, CoveredUpTo, Covered, Asked

-----------------------------------------------------------------------------
(* Credentials. *)

GuardTyped ==
  /\ clock \in 0 .. MaxClock
  /\ failures \in [Credentials -> [count : Nat, until : Int]]
  /\ rejections \in [Credentials -> Seq(Nat)]
  /\ limited \subseteq Credentials

LastOf(s) == s[Len(s)]

\* A rejected credential is remembered with its cooldown, unless that is over: and as long
\* as nothing is swept, its count is that of its rejections.
CooldownsKept ==
  /\ \A c \in Accepted : failures[c].count = 0
  /\ \A c \in Wrong : rejections[c] # <<>> =>
       IF failures[c].count > 0
       THEN /\ failures[c].until = LastOf(rejections[c]) + Delay(failures[c].count)
            /\ MaxFailures >= Cardinality(Wrong) => failures[c].count = Len(rejections[c])
       ELSE MaxFailures < Cardinality(Wrong) /\ LastOf(rejections[c]) + Delay(1) < clock
  /\ \A c \in Wrong : rejections[c] = <<>> => failures[c].count = 0

GuardInv == GuardTyped /\ CooldownsKept /\ GuardFair

LEMMA MinOfTwo ==
  ASSUME NEW a \in Int, NEW b \in Int
  PROVE  Min({a, b}) = IF a <= b THEN a ELSE b
<1> DEFINE m == IF a <= b THEN a ELSE b
<1>1. m \in {a, b} /\ \A y \in {a, b} : m <= y
  OBVIOUS
<1>2. \A x \in {a, b} : (\A y \in {a, b} : x <= y) => x = m
  OBVIOUS
<1> HIDE DEF m
<1>3. (CHOOSE x \in {a, b} : \A y \in {a, b} : x <= y) = m
  BY <1>1, <1>2
<1> QED BY <1>3 DEF Min, m

\* A cooldown is never shorter than the first.
LEMMA DelayIs ==
  ASSUME NEW n \in Nat \ {0}
  PROVE  Delay(n) \in Nat /\ Delay(n) >= Delay(1)
<1> USE GuardAssumption
<1>1. \A k \in Nat \ {0} : Min({k, 8}) \in 1 .. 8
  BY MinOfTwo
<1>2. \A k \in 1 .. 8 : Doublings[k] \in Nat /\ Doublings[k] >= 2
  BY DEF Doublings
<1>3. Min({1, 8}) = 1 /\ Doublings[1] = 2
  BY MinOfTwo DEF Doublings
<1> DEFINE d == Doublings[Min({n, 8})]
<1>4. d \in Nat /\ d >= 2
  BY <1>1, <1>2
<1>5. Delay(n) = Min({CapDelay, d})
  BY DEF Delay
<1>6. Delay(1) = Min({CapDelay, 2})
  BY <1>3 DEF Delay
<1> HIDE DEF d
<1>7. Delay(n) = IF CapDelay <= d THEN CapDelay ELSE d
  BY <1>4, <1>5, MinOfTwo
<1>8. Delay(1) = IF CapDelay <= 2 THEN CapDelay ELSE 2
  BY <1>6, MinOfTwo
<1> QED BY <1>4, <1>7, <1>8

LEMMA GuardBegins == GuardInit => GuardInv
<1> SUFFICES ASSUME GuardInit PROVE GuardInv
  OBVIOUS
<1> USE GuardAssumption DEF GuardInit
<1>1. GuardTyped
  BY DEF GuardTyped, None
<1>2. CooldownsKept
  BY DEF CooldownsKept, None, Credentials
<1>3. GuardFair
  <2>1. \A c \in Wrong : Len(rejections[c]) = 0
    BY DEF Credentials
  <2> QED BY <2>1 DEF GuardFair
<1> QED BY <1>1, <1>2, <1>3 DEF GuardInv

\* What is swept is over; nothing is as long as there is room for all wrong credentials.
LEMMA SweptIs ==
  ASSUME NEW entries \in [Credentials -> [count : Nat, until : Int]], clock \in Nat,
         \A c \in Accepted : entries[c].count = 0
  PROVE  /\ Swept(entries) \in [Credentials -> [count : Nat, until : Int]]
         /\ \A c \in Credentials :
              \/ Swept(entries)[c] = entries[c]
              \/ Swept(entries)[c] = None /\ entries[c].until < clock /\ MaxFailures < Cardinality(Wrong)
<1> DEFINE counted == {c \in Credentials : entries[c].count > 0}
<1>1. counted \subseteq Wrong
  BY DEF Credentials
<1>2. Cardinality(counted) \in Nat /\ Cardinality(Wrong) \in Nat /\ Cardinality(counted) <= Cardinality(Wrong)
  BY <1>1, GuardAssumption, FS_Subset, FS_CardinalityType
<1> HIDE DEF counted
<1>3. Swept(entries) = IF Cardinality(counted) > MaxFailures
                       THEN [c \in Credentials |-> IF entries[c].until < clock THEN None ELSE entries[c]]
                       ELSE entries
  BY DEF Swept, counted
<1>4. None \in [count : Nat, until : Int] /\ MaxFailures \in Nat
  BY GuardAssumption DEF None
<1>5. CASE Cardinality(counted) > MaxFailures
  <2>1. MaxFailures < Cardinality(Wrong)
    BY <1>2, <1>4, <1>5
  <2>2. Swept(entries) = [c \in Credentials |-> IF entries[c].until < clock THEN None ELSE entries[c]]
    BY <1>3, <1>5
  <2> QED BY <1>4, <2>1, <2>2
<1>6. CASE ~(Cardinality(counted) > MaxFailures)
  BY <1>3, <1>6
<1> QED BY <1>5, <1>6

\* A wrong credential is compared: its last cooldown is over, and the next one begins.
LEMMA RejectionKeeps ==
  ASSUME GuardInv, NEW c \in Credentials, Unauthorized(c)
  PROVE  GuardInv'
<1> USE DEF GuardInv
<1>0. /\ c \in Wrong /\ ~Cooling(c) /\ failures' = Swept(Counted(c))
      /\ rejections' = [rejections EXCEPT ![c] = Append(@, clock)] /\ UNCHANGED <<guard, clock, limited>>
  BY DEF Unauthorized, Credentials
<1>1. clock \in Nat /\ failures[c].count \in Nat /\ failures[c].until \in Int /\ rejections[c] \in Seq(Nat)
  BY DEF GuardTyped
<1> DEFINE n == failures[c].count + 1
           entry == [count |-> n, until |-> clock + Delay(n)]
<1>2. n \in Nat \ {0} /\ Delay(n) \in Nat /\ entry \in [count : Nat, until : Int]
      /\ entry.count = n /\ entry.until = clock + Delay(n) /\ ~(entry.until < clock) /\ Delay(1) \in Nat
  <2>1. n \in Nat \ {0} /\ 1 \in Nat \ {0}
    BY <1>1
  <2> HIDE DEF n
  <2>2. Delay(n) \in Nat /\ Delay(1) \in Nat
    BY <2>1, DelayIs
  <2> QED BY <1>1, <2>1, <2>2
<1>3. /\ Counted(c) \in [Credentials -> [count : Nat, until : Int]] /\ Counted(c)[c] = entry
      /\ \A d \in Credentials : d # c => Counted(c)[d] = failures[d]
  BY <1>2 DEF Counted, GuardTyped
<1> HIDE DEF n, entry
<1>4. \A d \in Accepted : Counted(c)[d].count = 0
  BY <1>0, <1>3, GuardAssumption DEF CooldownsKept, Credentials
<1>5. /\ failures' \in [Credentials -> [count : Nat, until : Int]]
      /\ \A d \in Credentials :
           \/ failures'[d] = Counted(c)[d]
           \/ failures'[d] = None /\ Counted(c)[d].until < clock /\ MaxFailures < Cardinality(Wrong)
  BY <1>0, <1>1, <1>3, <1>4, SweptIs
<1>6. failures'[c] = entry
  BY <1>2, <1>3, <1>5
<1>7. /\ rejections'[c] = Append(rejections[c], clock) /\ rejections' \in [Credentials -> Seq(Nat)]
      /\ \A d \in Credentials : d # c => rejections'[d] = rejections[d]
  BY <1>0, <1>1 DEF GuardTyped
<1>8. /\ rejections'[c] # <<>> /\ LastOf(rejections'[c]) = clock
      /\ Len(rejections'[c]) = Len(rejections[c]) + 1 /\ Len(rejections[c]) \in Nat
      /\ rejections'[c][Len(rejections[c]) + 1] = clock
      /\ \A i \in 1 .. Len(rejections[c]) : rejections'[c][i] = rejections[c][i]
  BY <1>1, <1>7, Appended, SMTT(60) DEF LastOf
<1>9. MaxFailures \in Nat /\ Cardinality(Wrong) \in Nat
  BY GuardAssumption, FS_CardinalityType
<1>10. rejections[c] = <<>> => failures[c].count = 0
  BY <1>0 DEF CooldownsKept
<1>11. MaxFailures >= Cardinality(Wrong) => n = Len(rejections'[c])
  <2> SUFFICES ASSUME MaxFailures >= Cardinality(Wrong) PROVE n = Len(rejections'[c])
    OBVIOUS
  <2>1. CASE rejections[c] = <<>>
    BY <1>8, <1>10, <2>1 DEF n
  <2>2. CASE rejections[c] # <<>>
    BY <1>0, <1>1, <1>8, <1>9, <2>2, SMTT(60) DEF n, CooldownsKept
  <2> QED BY <2>1, <2>2
<1>12. ASSUME rejections[c] # <<>>
       PROVE  clock - LastOf(rejections[c]) >= Delay(IF MaxFailures >= Cardinality(Wrong) THEN Len(rejections[c]) ELSE 1)
  <2>1. LastOf(rejections[c]) \in Nat /\ Len(rejections[c]) \in Nat \ {0}
    BY <1>1, <1>12, SMTT(60) DEF LastOf
  <2>2. CASE failures[c].count > 0
    <3>1. failures[c].until = LastOf(rejections[c]) + Delay(failures[c].count) /\ failures[c].until <= clock
          /\ (MaxFailures >= Cardinality(Wrong) => failures[c].count = Len(rejections[c]))
      BY <1>0, <1>1, <1>12, <2>2 DEF CooldownsKept, Cooling
    <3>2. Delay(failures[c].count) \in Nat /\ Delay(failures[c].count) >= Delay(1)
      BY <1>1, <2>2, DelayIs
    <3>3. clock - LastOf(rejections[c]) >= Delay(failures[c].count)
      BY <1>1, <2>1, <3>1, <3>2
    <3>4. clock - LastOf(rejections[c]) >= Delay(1)
      BY <1>1, <1>2, <2>1, <3>2, <3>3
    <3> QED BY <3>1, <3>3, <3>4
  <2>3. CASE ~(failures[c].count > 0)
    <3>1. MaxFailures < Cardinality(Wrong) /\ LastOf(rejections[c]) + Delay(1) < clock
      BY <1>0, <1>12, <2>3 DEF CooldownsKept
    <3>2. clock - LastOf(rejections[c]) >= Delay(1) /\ ~(MaxFailures >= Cardinality(Wrong))
      BY <1>1, <1>2, <1>9, <2>1, <3>1, SMTT(60)
    <3> QED BY <3>2
  <2> QED BY <2>2, <2>3
<1>13. GuardTyped'
  BY <1>0, <1>5, <1>7 DEF GuardTyped
<1>14. CooldownsKept'
  <2>1. \A d \in Accepted : failures'[d].count = 0
    BY <1>4, <1>5 DEF Credentials, None
  <2>2. ASSUME NEW d \in Wrong, rejections'[d] = <<>> PROVE failures'[d].count = 0
    <3>1. d # c /\ d \in Credentials
      BY <1>8, <2>2 DEF Credentials
    <3>2. failures[d].count = 0 /\ Counted(c)[d] = failures[d]
      BY <1>3, <1>7, <2>2, <3>1 DEF CooldownsKept
    <3>3. failures'[d] = failures[d] \/ failures'[d] = None
      BY <1>5, <3>1, <3>2
    <3> QED BY <3>2, <3>3 DEF None
  <2>3. ASSUME NEW d \in Wrong, rejections'[d] # <<>>
        PROVE  IF failures'[d].count > 0
               THEN /\ failures'[d].until = LastOf(rejections'[d]) + Delay(failures'[d].count)
                    /\ MaxFailures >= Cardinality(Wrong) => failures'[d].count = Len(rejections'[d])
               ELSE MaxFailures < Cardinality(Wrong) /\ LastOf(rejections'[d]) + Delay(1) < clock
    <3>1. CASE d = c
      BY <1>2, <1>6, <1>8, <1>11, <3>1
    <3>2. CASE d # c /\ failures'[d] = Counted(c)[d]
      <4>1. d \in Credentials /\ failures'[d] = failures[d] /\ rejections'[d] = rejections[d]
        BY <1>3, <1>7, <3>2 DEF Credentials
      <4> QED BY <2>3, <4>1 DEF CooldownsKept
    <3>3. CASE d # c /\ failures'[d] # Counted(c)[d]
      <4>1. d \in Credentials /\ failures'[d] = None /\ rejections'[d] = rejections[d]
            /\ failures[d].until < clock /\ MaxFailures < Cardinality(Wrong)
        BY <1>3, <1>5, <1>7, <3>3 DEF Credentials
      <4>2. failures[d].count \in Nat /\ failures[d].until \in Int /\ rejections[d] \in Seq(Nat)
        BY <4>1 DEF GuardTyped
      <4>3. LastOf(rejections[d]) \in Nat
        BY <2>3, <4>1, <4>2 DEF LastOf
      <4>4. LastOf(rejections[d]) + Delay(1) < clock
        <5>1. CASE failures[d].count > 0
          <6>1. failures[d].until = LastOf(rejections[d]) + Delay(failures[d].count)
            BY <2>3, <4>1, <5>1 DEF CooldownsKept
          <6>2. Delay(failures[d].count) \in Nat /\ Delay(failures[d].count) >= Delay(1)
            BY <4>2, <5>1, DelayIs
          <6> QED BY <1>1, <1>2, <4>1, <4>3, <6>1, <6>2
        <5>2. CASE ~(failures[d].count > 0)
          BY <2>3, <4>1, <5>2 DEF CooldownsKept
        <5> QED BY <5>1, <5>2
      <4> QED BY <4>1, <4>4 DEF None
    <3> QED BY <3>1, <3>2, <3>3
  <2> QED BY <1>0, <2>1, <2>2, <2>3 DEF CooldownsKept
<1>15. GuardFair'
  <2>1. ASSUME NEW d \in Wrong, NEW i \in 1 .. Len(rejections'[d]) - 1
        PROVE  rejections'[d][i + 1] - rejections'[d][i] >= Delay(IF MaxFailures >= Cardinality(Wrong) THEN i ELSE 1)
    <3>1. CASE d # c
      BY <1>7, <2>1, <3>1 DEF GuardFair, Credentials
    <3>2. CASE d = c /\ i < Len(rejections[c])
      <4>1. i \in 1 .. Len(rejections[c]) - 1 /\ rejections'[d][i + 1] = rejections[c][i + 1]
            /\ rejections'[d][i] = rejections[c][i]
        <5>1. i \in 1 .. Len(rejections[c]) - 1 /\ i \in 1 .. Len(rejections[c]) /\ i + 1 \in 1 .. Len(rejections[c])
          BY <1>8, <2>1, <3>2
        <5> QED BY <1>8, <3>2, <5>1
      <4> QED BY <1>0, <3>2, <4>1 DEF GuardFair
    <3>3. CASE d = c /\ i >= Len(rejections[c])
      <4>1. i = Len(rejections[c]) /\ Len(rejections[c]) >= 1 /\ rejections'[d][i + 1] = clock
            /\ rejections'[d][i] = LastOf(rejections[c])
        <5>1. i \in Nat /\ i >= 1 /\ i <= Len(rejections'[c]) - 1
          BY <1>8, <2>1, <3>3
        <5>2. i = Len(rejections[c]) /\ i \in 1 .. Len(rejections[c])
          BY <1>8, <3>3, <5>1
        <5> QED BY <1>8, <3>3, <5>1, <5>2 DEF LastOf
      <4>2. rejections[c] # <<>>
        BY <1>1, <4>1
      <4> QED BY <1>12, <4>1, <4>2
    <3> QED BY <1>8, <2>1, <3>1, <3>2, <3>3
  <2> QED BY <1>0, <2>1 DEF GuardFair
<1> QED BY <1>13, <1>14, <1>15

LEMMA GuardStep == GuardInv /\ [GuardNext]_guardVars => GuardInv'
<1> SUFFICES ASSUME GuardInv, [GuardNext]_guardVars PROVE GuardInv'
  OBVIOUS
<1> USE GuardAssumption DEF GuardInv
<1>1. ASSUME NEW c \in Configurations, Build(c) PROVE GuardInv'
  <2>1. UNCHANGED <<clock, failures, rejections, limited>>
    BY <1>1 DEF Build
  <2>2. guard'.state = "built" /\ ~guard'.loopback => guard'.token = "long"
    BY <1>1 DEF Build, Configurations, Refused
  <2> QED BY <2>1, <2>2 DEF GuardTyped, CooldownsKept, GuardFair
<1>2. CASE GuardTick
  <2>1. clock \in Nat /\ clock' = clock + 1 /\ clock' \in 0 .. MaxClock
        /\ UNCHANGED <<guard, failures, rejections, limited>>
    BY <1>2 DEF GuardTick, GuardTyped
  <2>2. ASSUME NEW c \in Wrong, rejections[c] # <<>>, LastOf(rejections[c]) + Delay(1) < clock
        PROVE  LastOf(rejections[c]) + Delay(1) < clock'
    <3>1. Delay(1) \in Nat /\ LastOf(rejections[c]) \in Nat
      BY <2>2, DelayIs, SMTT(60) DEF GuardTyped, LastOf, Credentials
    <3> QED BY <2>1, <2>2, <3>1
  <2>3. CooldownsKept'
    BY <2>1, <2>2 DEF CooldownsKept
  <2> QED BY <2>1, <2>3 DEF GuardTyped, GuardFair
<1>3. ASSUME NEW c \in Credentials, TooMany(c) PROVE GuardInv'
  <2>1. c \notin Accepted
    BY <1>3 DEF TooMany, Cooling, CooldownsKept
  <2> QED BY <1>3, <2>1 DEF TooMany, GuardTyped, CooldownsKept, GuardFair
<1>4. ASSUME NEW c \in Credentials, Unauthorized(c) PROVE GuardInv'
  BY <1>4, RejectionKeeps
<1>5. ASSUME NEW c \in Credentials, Authorized(c) PROVE GuardInv'
  <2>1. /\ c \in Accepted /\ c \notin Wrong /\ failures' = [failures EXCEPT ![c] = None]
        /\ UNCHANGED <<guard, clock, rejections, limited>>
    BY <1>5 DEF Authorized
  <2>2. GuardTyped'
    BY <2>1 DEF GuardTyped, None
  <2>3. /\ \A d \in Credentials : d # c => failures'[d] = failures[d]
        /\ failures'[c].count = 0
    BY <2>1 DEF GuardTyped, None
  <2>4. CooldownsKept'
    BY <2>1, <2>3 DEF CooldownsKept, Credentials
  <2> QED BY <2>1, <2>2, <2>4 DEF GuardFair
<1>6. ASSUME NEW n \in Nonces, NEW ts \in 0 .. MaxClock, Webhook(n, ts) PROVE GuardInv'
  BY <1>6 DEF Webhook, GuardTyped, CooldownsKept, GuardFair
<1>7. CASE UNCHANGED guardVars
  BY <1>7 DEF guardVars, GuardTyped, CooldownsKept, GuardFair
<1> QED BY <1>1, <1>2, <1>3, <1>4, <1>5, <1>6, <1>7 DEF GuardNext

-----------------------------------------------------------------------------
(* Webhooks. *)

WebhooksTyped ==
  /\ clock \in 0 .. MaxClock
  /\ seen \in [Nonces -> Int]
  /\ DOMAIN delivered = Nonces
  /\ \A n \in Nonces : \A d \in delivered[n] :
       /\ d = [ts |-> d.ts, at |-> d.at] /\ d.ts \in Nat /\ d.at \in Nat
       /\ d.at <= clock /\ d.at - d.ts <= Skew

\* A delivery is remembered, or too old for the same message to come again.
DeliveriesRemembered ==
  \A n \in Nonces : \A d \in delivered[n] : seen[n] >= d.at \/ d.at + Skew < clock

WebhooksInv == WebhooksTyped /\ DeliveriesRemembered /\ DeliveredOnce

LEMMA WebhooksBegin == GuardInit => WebhooksInv
<1> SUFFICES ASSUME GuardInit PROVE WebhooksInv
  OBVIOUS
<1>1. clock \in 0 .. MaxClock /\ DOMAIN delivered = Nonces /\ \A n \in Nonces : delivered[n] = {}
  BY GuardAssumption DEF GuardInit
<1>2. seen \in [Nonces -> Int]
  BY GuardAssumption DEF GuardInit, Never
<1>3. WebhooksTyped
  BY <1>1, <1>2 DEF WebhooksTyped
<1> QED BY <1>1, <1>3 DEF WebhooksInv, DeliveriesRemembered, DeliveredOnce

LEMMA MinBelow ==
  ASSUME NEW a \in Int, NEW b \in Int
  PROVE  Min({a, b}) <= a /\ Min({a, b}) <= b
BY MinOfTwo

\* A message that has taken effect is either still in the cache or too old to be accepted.
LEMMA WebhookKeeps ==
  ASSUME WebhooksInv, NEW n \in Nonces, NEW ts \in 0 .. MaxClock, Webhook(n, ts)
  PROVE  WebhooksInv'
<1> USE GuardAssumption DEF WebhooksInv
<1>0. clock \in Nat /\ clock <= MaxClock /\ ts \in Nat /\ Skew \in Nat /\ MaxClock \in Nat
      /\ clock' = clock /\ clock - ts <= Skew
  BY DEF WebhooksTyped, Webhook
<1> DEFINE kept == Forgotten(seen)
<1>1. /\ kept \in [Nonces -> Int]
      /\ \A m \in Nonces : kept[m] = IF seen[m] + Skew < clock THEN Never ELSE seen[m]
  BY <1>0 DEF Forgotten, Never, WebhooksTyped
<1> HIDE DEF kept
<1>2. ASSUME NEW m \in Nonces, NEW d \in delivered[m] PROVE kept[m] >= d.at \/ d.at + Skew < clock
  <2>1. d.at \in Nat /\ seen[m] \in Int
    BY DEF WebhooksTyped
  <2>2. seen[m] >= d.at \/ d.at + Skew < clock
    BY DEF DeliveriesRemembered
  <2>3. CASE seen[m] + Skew < clock /\ seen[m] >= d.at
    BY <1>0, <2>1, <2>3
  <2>4. CASE ~(seen[m] + Skew < clock)
    BY <1>1, <2>2, <2>4
  <2> QED BY <2>2, <2>3, <2>4
<1>3. CASE Remembers(n)
  <2>1. seen' = kept /\ delivered' = delivered
    BY <1>3 DEF Webhook, kept
  <2> QED BY <1>0, <1>1, <1>2, <2>1 DEF WebhooksTyped, DeliveriesRemembered, DeliveredOnce
<1>4. CASE ~Remembers(n)
  <2> DEFINE new == [ts |-> ts, at |-> clock]
  <2>1. seen' = [kept EXCEPT ![n] = clock] /\ delivered' = [delivered EXCEPT ![n] = @ \cup {new}]
    BY <1>4 DEF Webhook, kept
  <2>2. kept[n] = Never
    BY <1>4 DEF Remembers, kept
  <2>3. /\ DOMAIN delivered' = Nonces /\ delivered'[n] = delivered[n] \cup {new}
        /\ \A m \in Nonces : m # n => delivered'[m] = delivered[m]
    BY <2>1 DEF WebhooksTyped
  <2>4. seen' \in [Nonces -> Int] /\ seen'[n] = clock /\ \A m \in Nonces : m # n => seen'[m] = kept[m]
    BY <1>0, <1>1, <2>1
  <2>5. new.ts = ts /\ new.at = clock /\ new = [ts |-> new.ts, at |-> new.at]
    OBVIOUS
  <2> HIDE DEF new
  <2>6. ASSUME NEW d \in delivered[n] PROVE d.at \in Nat /\ d.ts \in Nat /\ d.at + Skew < clock
    <3>1. d.at \in Nat /\ d.ts \in Nat
      BY DEF WebhooksTyped
    <3>2. Never < d.at
      BY <1>0, <3>1 DEF Never
    <3> QED BY <1>0, <1>2, <2>2, <3>1, <3>2 DEF Never
  <2>7. WebhooksTyped'
    BY <1>0, <2>3, <2>4, <2>5 DEF WebhooksTyped
  <2>8. DeliveriesRemembered'
    <3> SUFFICES ASSUME NEW m \in Nonces, NEW d \in delivered'[m] PROVE seen'[m] >= d.at \/ d.at + Skew < clock
      BY <1>0 DEF DeliveriesRemembered
    <3>1. CASE m # n
      BY <1>2, <2>3, <2>4, <3>1
    <3>2. CASE m = n /\ d = new
      BY <1>0, <2>4, <2>5, <3>2
    <3>3. CASE m = n /\ d \in delivered[n]
      BY <2>6, <3>3
    <3> QED BY <2>3, <3>1, <3>2, <3>3
  <2>9. DeliveredOnce'
    <3> SUFFICES ASSUME NEW m \in Nonces, NEW d \in delivered'[m], NEW e \in delivered'[m],
                        d.ts = e.ts, d.ts <= Min({d.at, e.at})
                 PROVE  d = e
      BY DEF DeliveredOnce
    <3>1. CASE m # n
      BY <2>3, <3>1 DEF DeliveredOnce
    <3>2. ASSUME NEW f \in delivered[n], f.ts = ts, f.ts <= f.at PROVE FALSE
      BY <1>0, <2>6, <3>2
    <3>3. d.at \in Int /\ e.at \in Int
      BY <2>7 DEF WebhooksTyped
    <3>4. d.ts <= d.at /\ e.ts <= e.at
      <4>1. Min({d.at, e.at}) <= d.at /\ Min({d.at, e.at}) <= e.at /\ Min({d.at, e.at}) \in Int
        BY <3>3, MinOfTwo
      <4>2. d.ts \in Int
        BY <2>7 DEF WebhooksTyped
      <4> QED BY <3>3, <4>1, <4>2
    <3>5. CASE m = n /\ d \in delivered[n] /\ e \in delivered[n]
      BY <3>5 DEF DeliveredOnce
    <3>6. CASE m = n /\ (d \notin delivered[n] \/ e \notin delivered[n])
      BY <2>3, <2>5, <3>2, <3>4, <3>6
    <3> QED BY <3>1, <3>5, <3>6
  <2> QED BY <2>7, <2>8, <2>9
<1> QED BY <1>3, <1>4

LEMMA WebhooksStep == WebhooksInv /\ [GuardNext]_guardVars => WebhooksInv'
<1> SUFFICES ASSUME WebhooksInv, [GuardNext]_guardVars PROVE WebhooksInv'
  OBVIOUS
<1> USE GuardAssumption DEF WebhooksInv
<1>1. CASE GuardTick
  <2>1. clock \in Nat /\ clock' = clock + 1 /\ clock' \in 0 .. MaxClock /\ UNCHANGED <<seen, delivered>>
    BY <1>1 DEF GuardTick, WebhooksTyped
  <2>2. ASSUME NEW n \in Nonces, NEW d \in delivered[n]
        PROVE  d.at \in Nat /\ d.at <= clock' /\ (d.at + Skew < clock => d.at + Skew < clock')
    <3>1. d.at \in Nat /\ d.at <= clock
      BY DEF WebhooksTyped
    <3> QED BY <2>1, <3>1
  <2>3. WebhooksTyped'
    BY <2>1, <2>2 DEF WebhooksTyped
  <2>4. DeliveriesRemembered'
    BY <2>1, <2>2 DEF DeliveriesRemembered
  <2>5. DeliveredOnce'
    BY <2>1 DEF DeliveredOnce
  <2> QED BY <2>3, <2>4, <2>5
<1>2. CASE UNCHANGED <<clock, seen, delivered>>
  BY <1>2 DEF WebhooksTyped, DeliveriesRemembered, DeliveredOnce
<1>3. ASSUME NEW c \in Configurations, Build(c) PROVE UNCHANGED <<clock, seen, delivered>>
  BY <1>3 DEF Build
<1>4. ASSUME NEW c \in Credentials, TooMany(c) \/ Unauthorized(c) \/ Authorized(c)
      PROVE  UNCHANGED <<clock, seen, delivered>>
  BY <1>4 DEF TooMany, Unauthorized, Authorized
<1>5. CASE UNCHANGED guardVars
  BY <1>2, <1>5 DEF guardVars
<1>6. ASSUME NEW n \in Nonces, NEW ts \in 0 .. MaxClock, Webhook(n, ts) PROVE WebhooksInv'
  BY <1>6, WebhookKeeps
<1> QED BY <1>1, <1>2, <1>3, <1>4, <1>5, <1>6 DEF GuardNext

-----------------------------------------------------------------------------
(* Streams of the Hermes server. *)

SseInv ==
  /\ activeSse \in Nat
  /\ streams \in [Streams -> {"new", "open", "closed"}]
  /\ SlotsCounted

LEMMA OpenFinite == IsFiniteSet(Open) /\ Cardinality(Open) \in Nat
<1>1. Open \subseteq Streams
  BY DEF Open
<1> QED BY <1>1, HermesAssumption, FS_Subset, FS_CardinalityType

LEMMA SseBegins == HermesInit => SseInv
<1> SUFFICES ASSUME HermesInit PROVE SseInv
  OBVIOUS
<1>1. Open = {}
  BY DEF HermesInit, Open
<1>2. Cardinality(Open) = 0 /\ activeSse = 0
  BY <1>1, FS_EmptySet DEF HermesInit
<1> QED BY <1>2, HermesAssumption DEF HermesInit, SseInv, SlotsCounted

LEMMA ConnectKeeps ==
  ASSUME SseInv, NEW s \in Streams, Connect(s)
  PROVE  SseInv'
<1> USE HermesAssumption DEF SseInv, SlotsCounted
<1>0. Cardinality(Open) \in Nat /\ activeSse \in Nat /\ MaxSse \in Nat /\ UNCHANGED stopped
  BY OpenFinite DEF Connect
<1>1. CASE activeSse >= MaxSse
  <2>1. streams' = [streams EXCEPT ![s] = "closed"] /\ activeSse' = activeSse /\ streams[s] = "new"
    BY <1>1 DEF Connect
  <2>2. Open' = Open
    BY <2>1 DEF Open
  <2> QED BY <1>0, <2>1, <2>2
<1>2. CASE ~(activeSse >= MaxSse)
  <2>1. streams' = [streams EXCEPT ![s] = "open"] /\ activeSse' = activeSse + 1 /\ streams[s] = "new"
    BY <1>2 DEF Connect
  <2>2. Open' = Open \cup {s} /\ s \notin Open
    BY <2>1 DEF Open
  <2>3. Cardinality(Open \cup {s}) = Cardinality(Open) + 1
    BY <2>2, OpenFinite, FS_AddElement
  <2>4. streams' \in [Streams -> {"new", "open", "closed"}]
    BY <2>1
  <2>5. Cardinality(Open') = Cardinality(Open) + 1
    BY <2>2, <2>3
  <2>6. activeSse + 1 <= MaxSse
    BY <1>0, <1>2
  <2>7. /\ ~stopped => activeSse' = Cardinality(Open')
        /\ activeSse' <= Cardinality(Open') /\ activeSse' <= MaxSse /\ activeSse' \in Nat
    BY <1>0, <2>1, <2>5, <2>6
  <2> QED BY <1>0, <2>4, <2>7
<1> QED BY <1>1, <1>2

\* The first event that ends a stream gives its place back, the others change nothing.
LEMMA CleanupKeeps ==
  ASSUME SseInv, NEW s \in Streams, streams[s] # "new", Cleanup(s), UNCHANGED stopped
  PROVE  SseInv'
<1> USE HermesAssumption DEF SseInv, SlotsCounted
<1>0. Cardinality(Open) \in Nat /\ activeSse \in Nat /\ MaxSse \in Nat
  BY OpenFinite
<1>1. CASE streams[s] = "closed"
  BY <1>1 DEF Cleanup, Open
<1>2. CASE streams[s] # "closed"
  <2>1. streams' = [streams EXCEPT ![s] = "closed"] /\ activeSse' = Decremented /\ streams[s] = "open"
    BY <1>2 DEF Cleanup
  <2>2. Open' = Open \ {s} /\ s \in Open
    BY <2>1 DEF Open
  <2>3. Cardinality(Open \ {s}) = Cardinality(Open) - 1 /\ Cardinality(Open \ {s}) \in Nat
    BY <2>2, OpenFinite, FS_RemoveElement, FS_CardinalityType
  <2>4. streams' \in [Streams -> {"new", "open", "closed"}]
    BY <2>1
  <2>5. Cardinality(Open') = Cardinality(Open) - 1 /\ Cardinality(Open') \in Nat
    BY <2>2, <2>3
  <2>6. /\ ~stopped => activeSse' = Cardinality(Open')
        /\ activeSse' <= Cardinality(Open') /\ activeSse' <= MaxSse /\ activeSse' \in Nat
    BY <1>0, <2>1, <2>5 DEF Decremented
  <2> QED BY <2>4, <2>6
<1> QED BY <1>1, <1>2

LEMMA SseUnchanged ==
  ASSUME SseInv, UNCHANGED <<activeSse, streams, stopped>>
  PROVE  SseInv'
BY DEF SseInv, SlotsCounted, Open

LEMMA SseStep == SseInv /\ [HermesNext]_hermesVars => SseInv'
<1> SUFFICES ASSUME SseInv, [HermesNext]_hermesVars PROVE SseInv'
  OBVIOUS
<1>1. CASE StartSse \/ StartStdio \/ StdinEnds \/ HandleLine \/ UNCHANGED hermesVars
  BY <1>1, SseUnchanged DEF StartSse, StartStdio, StdinEnds, HandleLine, hermesVars, sseVars
<1>2. CASE Stop
  <2>1. stopped' = TRUE /\ activeSse' = 0 /\ streams' = streams
    BY <1>2 DEF Stop
  <2>2. Open' = Open
    BY <2>1 DEF Open
  <2>3. 0 <= Cardinality(Open) /\ 0 <= MaxSse
    BY OpenFinite, HermesAssumption
  <2> QED BY <2>1, <2>2, <2>3 DEF SseInv, SlotsCounted
<1>3. ASSUME NEW s \in Streams, Connect(s) PROVE SseInv'
  BY <1>3, ConnectKeeps
<1>4. ASSUME NEW s \in Streams, StreamEvent(s) \/ LifetimeOver(s) PROVE SseInv'
  BY <1>4, CleanupKeeps DEF StreamEvent, LifetimeOver
<1>5. ASSUME NEW length \in 1 .. MaxLine, NEW line \in Requests \cup {"blank", "unfinished"}, Data(length, line)
      PROVE  SseInv'
  BY <1>5, SseUnchanged DEF Data, sseVars
<1> QED BY <1>1, <1>2, <1>3, <1>4, <1>5 DEF HermesNext, HermesProgress

-----------------------------------------------------------------------------
(* Lines of the Hermes server. *)

Lines == [number : Nat, line : Requests]
LineAnswers == UNION {Answer(l.line) : l \in Lines}
Responses == [number : Nat, id : Nat, answer : LineAnswers]

LinesTyped ==
  /\ queued \in Nat
  /\ arrived \in Seq(Lines)
  /\ queue \in Seq(Lines)
  /\ responses \in Seq(Responses)

\* What is answered comes before what is queued, and together they are what arrived.
LinesNumbered ==
  /\ Len(responses) + Len(queue) = Len(arrived)
  /\ \A i \in DOMAIN responses : responses[i].number = i
  /\ \A i \in DOMAIN queue : queue[i].number = Len(responses) + i

IdsKept == \A i \in DOMAIN responses : responses[i].answer # "parse error" => responses[i].id = i

StdioInv ==
  /\ LinesTyped /\ LinesNumbered /\ IdsKept
  /\ Len(queue) = queued /\ queued <= MaxPending
  /\ ran \subseteq AllowedTools

LEMMA StdioBegins == HermesInit => StdioInv
<1> SUFFICES ASSUME HermesInit PROVE StdioInv
  OBVIOUS
<1>1. queue = <<>> /\ responses = <<>> /\ arrived = <<>> /\ queued = 0 /\ ran = {}
  BY DEF HermesInit
<1>2. LinesTyped
  BY <1>1 DEF LinesTyped
<1> QED BY <1>1, <1>2, HermesAssumption DEF StdioInv, LinesNumbered, IdsKept

LEMMA StdioUnchanged ==
  ASSUME StdioInv, UNCHANGED <<queue, queued, arrived, responses, ran>>
  PROVE  StdioInv'
BY DEF StdioInv, LinesTyped, LinesNumbered, IdsKept

\* A line is queued behind the others, under the next number, if there is room.
LEMMA DataKeeps ==
  ASSUME StdioInv, NEW length \in 1 .. MaxLine, NEW line \in Requests \cup {"blank", "unfinished"},
         Data(length, line)
  PROVE  StdioInv'
<1>0. LinesNumbered /\ IdsKept /\ ran \subseteq AllowedTools /\ MaxPending \in Nat
  BY HermesAssumption DEF StdioInv
<1>1. UNCHANGED <<responses, ran>>
  BY DEF Data
<1>2. CASE UNCHANGED <<queue, queued, arrived>>
  BY <1>1, <1>2, StdioUnchanged
<1>3. CASE ~UNCHANGED <<queue, queued, arrived>>
  <2> DEFINE new == [number |-> Len(arrived) + 1, line |-> line]
  <2>1. line \notin {"blank", "unfinished"} /\ Room
        /\ arrived' = Append(arrived, new) /\ queue' = Append(queue, Last(arrived')) /\ queued' = queued + 1
    BY <1>3 DEF Data
  <2>2. /\ arrived \in Seq(Lines) /\ Len(arrived) \in Nat
        /\ queue \in Seq(Lines) /\ queued \in Nat /\ Len(responses) \in Nat
        /\ Len(queue) = queued /\ queued <= MaxPending
        /\ Len(responses) + Len(queue) = Len(arrived)
    BY DEF StdioInv, LinesTyped, LinesNumbered
  <2>3. new \in Lines /\ new.number = Len(arrived) + 1
    BY <2>1, <2>2 DEF Lines
  <2> HIDE DEF new
  <2>4. /\ Append(arrived, new) \in Seq(Lines) /\ Len(Append(arrived, new)) = Len(arrived) + 1
        /\ Append(arrived, new)[Len(arrived) + 1] = new
    BY <2>2, <2>3, Appended
  <2>5. queue' = Append(queue, new)
    BY <2>1, <2>4 DEF Last
  <2>6. /\ queue' \in Seq(Lines) /\ Len(queue') = Len(queue) + 1
        /\ DOMAIN queue' = 1 .. Len(queue) + 1 /\ DOMAIN queue = 1 .. Len(queue)
        /\ queue'[Len(queue) + 1] = new /\ \A i \in 1 .. Len(queue) : queue'[i] = queue[i]
    BY <2>2, <2>3, <2>5, Appended
  <2>7. queued' <= MaxPending /\ queued' \in Nat
    BY <1>0, <2>1, <2>2 DEF Room
  <2>8. LinesTyped'
    <3>1. arrived' \in Seq(Lines) /\ queue' \in Seq(Lines) /\ queued' \in Nat
      BY <2>1, <2>4, <2>6, <2>7, Zenon
    <3>2. responses' \in Seq(Responses)
      BY <1>1 DEF StdioInv, LinesTyped
    <3> QED BY <3>1, <3>2 DEF LinesTyped
  <2>9. ASSUME NEW i \in DOMAIN queue' PROVE queue'[i].number = Len(responses) + i
    <3>1. CASE i \in 1 .. Len(queue)
      BY <1>0, <2>6, <3>1 DEF LinesNumbered
    <3>2. CASE i = Len(queue) + 1
      BY <2>2, <2>3, <2>6, <3>2, SMTT(60)
    <3>3. Len(queue) \in Nat /\ i \in 1 .. Len(queue) + 1
      BY <2>2, <2>6, Zenon
    <3> QED BY <3>1, <3>2, <3>3, OneMore, Zenon
  <2>10. LinesNumbered'
    <3>1. Len(responses) + Len(queue') = Len(arrived')
      <4>1. Len(arrived') = Len(arrived) + 1 /\ Len(queue') = Len(queue) + 1
        BY <2>1, <2>4, <2>6, Zenon
      <4>2. Len(queue) \in Nat /\ Len(responses) \in Nat
        BY <2>2
      <4> QED BY <2>2, <4>1, <4>2
    <3>2. \A i \in DOMAIN responses' : responses'[i].number = i
      BY <1>0, <1>1 DEF LinesNumbered
    <3> QED BY <1>1, <2>9, <3>1, <3>2 DEF LinesNumbered
  <2>11. Len(queue') = queued'
    BY <2>1, <2>2, <2>6
  <2>12. IdsKept'
    BY <1>0, <1>1 DEF IdsKept
  <2> QED BY <1>0, <1>1, <2>7, <2>8, <2>10, <2>11, <2>12 DEF StdioInv
<1> QED BY <1>2, <1>3

\* The first line of the queue is answered under its own number, the next one to answer.
LEMMA HandleKeeps ==
  ASSUME StdioInv, HandleLine
  PROVE  StdioInv'
<1>0. LinesNumbered /\ IdsKept /\ ran \subseteq AllowedTools /\ MaxPending \in Nat
  BY HermesAssumption DEF StdioInv
<1>1. /\ queue \in Seq(Lines) /\ queue # <<>> /\ queued \in Nat
      /\ responses \in Seq(Responses) /\ Len(responses) \in Nat
      /\ Len(responses) + Len(queue) = Len(arrived) /\ Len(queue) = queued /\ queued <= MaxPending
  <2>1. /\ queue \in Seq(Lines) /\ queued \in Nat /\ responses \in Seq(Responses)
        /\ Len(queue) = queued /\ queued <= MaxPending /\ Len(responses) + Len(queue) = Len(arrived)
    BY DEF StdioInv, LinesTyped, LinesNumbered
  <2>2. queue # <<>>
    BY DEF HandleLine
  <2> QED BY <2>1, <2>2
<1>2. PICK reply \in Answer(NextLine.line) :
        responses' = Append(responses,
          [number |-> NextLine.number, id |-> IF reply = "parse error" THEN 0 ELSE NextLine.number,
           answer |-> reply])
  BY DEF HandleLine
<1>3. NextLine = queue[1] /\ 1 \in DOMAIN queue /\ NextLine \in Lines
  BY <1>1 DEF NextLine
<1>4. NextLine.number \in Nat /\ reply \in LineAnswers
  <2>1. NextLine.number \in Nat
    BY <1>3 DEF Lines
  <2>2. reply \in LineAnswers
    BY <1>3 DEF LineAnswers
  <2> QED BY <2>1, <2>2
<1>5. NextLine.number = Len(responses) + 1
  BY <1>0, <1>3 DEF LinesNumbered
<1> DEFINE new == [number |-> NextLine.number, id |-> IF reply = "parse error" THEN 0 ELSE NextLine.number,
                   answer |-> reply]
<1>6. new \in Responses /\ new.number = Len(responses) + 1
  BY <1>3, <1>4, <1>5 DEF Responses
<1>a. new.answer # "parse error" => new.id = Len(responses) + 1
  BY <1>5
<1>7. responses' = Append(responses, new)
  BY <1>2
<1> HIDE DEF new
<1>8. /\ responses' \in Seq(Responses) /\ Len(responses') = Len(responses) + 1
      /\ DOMAIN responses' = 1 .. Len(responses) + 1 /\ DOMAIN responses = 1 .. Len(responses)
      /\ responses'[Len(responses) + 1] = new /\ \A i \in 1 .. Len(responses) : responses'[i] = responses[i]
  BY <1>1, <1>6, <1>7, Appended
<1>9. queue' = Tail(queue) /\ queued' = queued - 1 /\ arrived' = arrived /\ ran' \subseteq ran \cup AllowedTools
  BY DEF HandleLine
<1>10. /\ queue' \in Seq(Lines) /\ Len(queue') = Len(queue) - 1 /\ Len(queue) >= 1
       /\ \A i \in DOMAIN queue' : i \in Nat /\ i + 1 \in DOMAIN queue /\ queue'[i] = queue[i + 1]
  BY <1>1, <1>9
<1>11. queued' \in Nat /\ queued' <= MaxPending /\ Len(queue') = queued'
  <2>1. queued' = queued - 1 /\ Len(queue') = Len(queue) - 1 /\ Len(queue) >= 1
    BY <1>9, <1>10
  <2> QED BY <1>0, <1>1, <2>1
<1>12. LinesTyped'
  <2>1. arrived' \in Seq(Lines)
    BY <1>9 DEF StdioInv, LinesTyped
  <2>2. responses' \in Seq(Responses) /\ queue' \in Seq(Lines) /\ queued' \in Nat
    BY <1>8, <1>10, <1>11, Zenon
  <2> QED BY <2>1, <2>2 DEF LinesTyped
<1>13. ASSUME NEW i \in DOMAIN responses' PROVE responses'[i].number = i
  <2>1. CASE i \in 1 .. Len(responses)
    BY <1>0, <1>8, <2>1 DEF LinesNumbered
  <2>2. CASE i = Len(responses) + 1
    BY <1>6, <1>8, <2>2
  <2> QED BY <1>1, <1>8, <2>1, <2>2
<1>14. ASSUME NEW i \in DOMAIN queue' PROVE queue'[i].number = Len(responses') + i
  <2>1. i \in Nat /\ queue'[i] = queue[i + 1] /\ queue[i + 1].number = Len(responses) + (i + 1)
    BY <1>0, <1>10 DEF LinesNumbered
  <2>2. Len(responses') = Len(responses) + 1 /\ Len(responses) \in Nat
    BY <1>1, <1>8
  <2>3. Len(responses) + (i + 1) = Len(responses') + i
    BY <2>1, <2>2
  <2> QED BY <2>1, <2>3
<1>15. Len(responses') + Len(queue') = Len(arrived')
  <2>1. Len(responses') = Len(responses) + 1 /\ Len(queue') = Len(queue) - 1 /\ arrived' = arrived
    BY <1>8, <1>9, <1>10, Zenon
  <2>2. Len(responses) \in Nat /\ Len(queue) \in Nat /\ Len(responses) + Len(queue) = Len(arrived)
    BY <1>1
  <2>3. Len(arrived') = Len(arrived)
    BY <2>1
  <2> QED BY <2>1, <2>2, <2>3
<1>16. LinesNumbered'
  BY <1>13, <1>14, <1>15 DEF LinesNumbered
<1>17. IdsKept'
  <2> SUFFICES ASSUME NEW i \in DOMAIN responses', responses'[i].answer # "parse error"
               PROVE  responses'[i].id = i
    BY DEF IdsKept
  <2>1. CASE i \in 1 .. Len(responses)
    BY <1>0, <1>8, <2>1 DEF IdsKept
  <2>2. CASE i = Len(responses) + 1
    BY <1>a, <1>8, <2>2
  <2>3. i \in 1 .. Len(responses) \/ i = Len(responses) + 1
    <3>1. Len(responses) \in Nat /\ i \in 1 .. Len(responses) + 1
      BY <1>1, <1>8, Zenon
    <3> QED BY <3>1, OneMore, Zenon
  <2> QED BY <2>1, <2>2, <2>3, Zenon
<1>18. ran' \subseteq AllowedTools
  BY <1>0, <1>9
<1> QED BY <1>11, <1>12, <1>16, <1>17, <1>18 DEF StdioInv

LEMMA StdioStep == StdioInv /\ [HermesNext]_hermesVars => StdioInv'
<1> SUFFICES ASSUME StdioInv, [HermesNext]_hermesVars PROVE StdioInv'
  OBVIOUS
<1>1. CASE StartSse \/ Stop \/ StartStdio \/ StdinEnds \/ UNCHANGED hermesVars
  BY <1>1, StdioUnchanged DEF StartSse, Stop, StartStdio, StdinEnds, hermesVars, stdioVars
<1>2. ASSUME NEW s \in Streams, Connect(s) \/ StreamEvent(s) \/ LifetimeOver(s) PROVE StdioInv'
  BY <1>2, StdioUnchanged DEF Connect, StreamEvent, LifetimeOver, stdioVars
<1>3. CASE HandleLine
  BY <1>3, HandleKeeps
<1>4. ASSUME NEW length \in 1 .. MaxLine, NEW line \in Requests \cup {"blank", "unfinished"}, Data(length, line)
      PROVE  StdioInv'
  BY <1>4, DataKeeps
<1> QED BY <1>1, <1>2, <1>3, <1>4 DEF HermesNext, HermesProgress

\* Numbers that go on from those of the first sequence to those of the second are 1, 2, ...
LEMMA NumberedOn ==
  ASSUME NEW m \in Nat, NEW n \in Nat, NEW s, NEW t,
         s = [i \in 1 .. m |-> i], t = [i \in 1 .. n |-> m + i]
  PROVE  s \o t = [i \in 1 .. m + n |-> i]
<1>1. s \in Seq(Nat) /\ t \in Seq(Nat) /\ Len(s) = m /\ Len(t) = n
  OBVIOUS
<1>2. s \o t \in Seq(Nat) /\ Len(s \o t) = m + n /\ DOMAIN (s \o t) = 1 .. m + n
  BY <1>1
<1>3. ASSUME NEW i \in 1 .. m + n PROVE (s \o t)[i] = i
  <2>1. CASE i <= m
    <3>1. (s \o t)[i] = s[i] /\ i \in 1 .. m
      BY <1>1, <2>1
    <3> QED BY <3>1
  <2>2. CASE i > m
    <3>1. (s \o t)[i] = t[i - m] /\ i - m \in 1 .. n
      BY <1>1, <2>2
    <3> QED BY <3>1
  <2> QED BY <2>1, <2>2
<1> QED BY <1>2, <1>3

LEMMA StdioSafe == StdioInv => StdioOrdered
<1> SUFFICES ASSUME StdioInv PROVE StdioOrdered
  OBVIOUS
<1>0. LinesTyped /\ LinesNumbered
  BY DEF StdioInv
<1>1. /\ Len(responses) \in Nat /\ Len(queue) \in Nat /\ DOMAIN arrived = 1 .. Len(responses) + Len(queue)
      /\ DOMAIN responses = 1 .. Len(responses) /\ DOMAIN queue = 1 .. Len(queue)
  BY <1>0 DEF LinesTyped, LinesNumbered
<1>2. [i \in DOMAIN responses |-> responses[i].number] = [i \in 1 .. Len(responses) |-> i]
  BY <1>0, <1>1 DEF LinesNumbered
<1>3. [i \in DOMAIN queue |-> queue[i].number] = [i \in 1 .. Len(queue) |-> Len(responses) + i]
  BY <1>0, <1>1 DEF LinesNumbered
<1>4. [i \in DOMAIN responses |-> responses[i].number] \o [i \in DOMAIN queue |-> queue[i].number]
       = [i \in DOMAIN arrived |-> i]
  BY <1>1, <1>2, <1>3, NumberedOn, SMTT(60)
<1>5. Len(queue) = queued /\ queued <= MaxPending /\ ran \subseteq AllowedTools /\ IdsKept
  BY Zenon DEF StdioInv
<1> QED BY <1>4, <1>5, Zenon DEF StdioOrdered, IdsKept

-----------------------------------------------------------------------------
(* Resource limits. *)

LimitsInv ==
  /\ limit \in DOMAIN Limits
  /\ resolved \in Nat /\ total \in Nat /\ held \in Nat
  /\ declared \in [given : BOOLEAN, number : BOOLEAN, value : Int]
  /\ resolved = 0 => body = "none"
  /\ body = "none" => held = 0 /\ total = 0
  /\ body = "reading" => held = total
  /\ LimitsHold

\* The built-in value of every limit lies in its range, which has no zero.
LEMMA RowsFit ==
  ASSUME NEW l \in DOMAIN Limits
  PROVE  /\ Limits[l].min \in Nat \ {0} /\ Limits[l].max \in Nat
         /\ Limits[l].default \in Limits[l].min .. Limits[l].max
BY DEF Limits, Row, K, Minute

LEMMA InputsTyped == Inputs \subseteq [given : BOOLEAN, number : BOOLEAN, value : Int]
<1> SUFFICES ASSUME NEW i \in Inputs PROVE i \in [given : BOOLEAN, number : BOOLEAN, value : Int]
  OBVIOUS
<1>0. CASE i = Unset
  BY <1>0 DEF Unset
<1>1. CASE i = Garbage
  BY <1>1 DEF Garbage
<1>2. ASSUME NEW n \in Offered, i = Given(n) PROVE i \in [given : BOOLEAN, number : BOOLEAN, value : Int]
  BY <1>2, LimitsAssumption DEF Given
<1> QED BY <1>0, <1>1, <1>2 DEF Inputs

\* Whatever is given, the limit is one of its range.
LEMMA ResolvedFits ==
  ASSUME NEW env \in Inputs, NEW over \in Inputs, limit \in DOMAIN Limits
  PROVE  Resolved(env, over) \in Limits[limit].min .. Limits[limit].max
BY RowsFit DEF Resolved, ClampInt

LEMMA LimitsBegin == LimitsInit => LimitsInv
<1> SUFFICES ASSUME LimitsInit PROVE LimitsInv
  OBVIOUS
<1>1. limit \in DOMAIN Limits /\ resolved = 0 /\ body = "none" /\ total = 0 /\ held = 0 /\ declared = Unset
  BY DEF LimitsInit
<1>2. declared \in [given : BOOLEAN, number : BOOLEAN, value : Int]
  BY <1>1 DEF Unset
<1>3. LimitsHold
  BY <1>1 DEF LimitsHold
<1> QED BY <1>1, <1>2, <1>3 DEF LimitsInv

LEMMA LimitsStep == LimitsInv /\ [LimitsNext]_limitVars => LimitsInv'
<1> SUFFICES ASSUME LimitsInv, [LimitsNext]_limitVars PROVE LimitsInv'
  OBVIOUS
<1> USE DEF LimitsInv
<1>1. CASE Resolve
  <2>1. PICK env \in Inputs, over \in Inputs : resolved' = Resolved(env, over)
    BY <1>1 DEF Resolve
  <2>2. resolved = 0 /\ UNCHANGED <<limit, body, declared, total, held>>
    BY <1>1 DEF Resolve
  <2>3. resolved' \in Limits[limit].min .. Limits[limit].max
    BY <2>1, ResolvedFits
  <2>4. resolved' \in Nat \ {0}
    BY <2>3, RowsFit
  <2>5. LimitsHold'
    BY <2>2, <2>3, <2>4 DEF LimitsHold
  <2> QED BY <2>2, <2>4, <2>5
<1>2. CASE BodyEnds
  <2>1. body = "reading" /\ body' = "text" /\ UNCHANGED <<limit, fromEnv, override, resolved, declared, total, held>>
    BY <1>2 DEF BodyEnds
  <2> QED BY <2>1 DEF LimitsHold
<1>3. ASSUME NEW length \in Inputs, Request(length) PROVE LimitsInv'
  <2>1. /\ limit' = limit /\ resolved # 0 /\ body = "none" /\ declared' = length
        /\ body' = IF length.number /\ length.value > resolved THEN "too large" ELSE "reading"
        /\ UNCHANGED <<resolved, total, held>>
    BY <1>3 DEF Request
  <2>2. declared' \in [given : BOOLEAN, number : BOOLEAN, value : Int]
    BY <2>1, InputsTyped
  <2>3. body' = "too large" => declared'.value > resolved'
    BY <2>1
  <2>4. body' \in {"too large", "reading"}
    BY <2>1
  <2>5. LimitsHold'
    BY <2>1, <2>3, <2>4 DEF LimitsHold
  <2> QED BY <2>1, <2>2, <2>4, <2>5
<1>4. ASSUME NEW size \in ChunkSizes, Chunk(size) PROVE LimitsInv'
  <2>0. size \in Nat
    BY LimitsAssumption
  <2>1. /\ body = "reading" /\ total' = total + size /\ UNCHANGED <<limit, resolved, declared>>
        /\ resolved # 0 /\ held = total
    BY <1>4 DEF Chunk
  <2>2. CASE Fits(size)
    <3>1. held' = held + size /\ body' = body /\ total + size <= resolved
      BY <1>4, <2>2 DEF Chunk, Fits
    <3>2. held' = total' /\ held' \in Nat /\ held' <= resolved'
      BY <2>0, <2>1, <3>1
    <3>3. LimitsHold'
      BY <2>1, <3>1, <3>2 DEF LimitsHold
    <3> QED BY <2>0, <2>1, <3>1, <3>2, <3>3
  <2>3. CASE ~Fits(size)
    <3>1. held' = 0 /\ body' = "too large" /\ ~(total + size <= resolved)
      BY <1>4, <2>3 DEF Chunk, Fits
    <3>2. total' > resolved' /\ total' \in Nat /\ 0 <= resolved'
      <4>1. total \in Nat /\ resolved \in Nat /\ total' = total + size /\ resolved' = resolved
        BY <2>1
      <4> HIDE DEF LimitsInv
      <4>2. \A a, b, c \in Nat : ~(a + b <= c) => a + b > c /\ a + b \in Nat /\ 0 <= c
        OBVIOUS
      <4> QED BY <2>0, <3>1, <4>1, <4>2, Zenon
    <3>3. LimitsHold'
      BY <2>1, <3>1, <3>2 DEF LimitsHold
    <3> QED BY <2>1, <3>1, <3>2, <3>3
  <2> QED BY <2>2, <2>3
<1>5. CASE UNCHANGED limitVars
  BY <1>5 DEF limitVars, LimitsHold
<1> QED BY <1>1, <1>2, <1>3, <1>4, <1>5 DEF LimitsNext

-----------------------------------------------------------------------------
(* The system.  Whatever surface a step is of, it is a step or a stutter of every other. *)

DaemonsInv == TicksInv /\ IpcInv /\ TelegramInv /\ Sequential
DoorsInv == GuardInv /\ WebhooksInv /\ SseInv /\ StdioInv /\ LimitsInv

LEMMA OneSurface ==
  ASSUME [Next]_serverVars
  PROVE  /\ [GuardNext]_guardVars /\ [HermesNext]_hermesVars /\ [LimitsNext]_limitVars
         /\ [TickNext]_tickVars /\ [IpcNext]_ipcVars /\ [TelegramNext]_telegramVars
<1>1. CASE Guarding
  BY <1>1 DEF Guarding, OnlyGuard
<1>2. CASE Serving
  BY <1>2 DEF Serving, OnlyHermes
<1>3. CASE Limiting
  BY <1>3 DEF Limiting, OnlyLimits
<1>4. CASE Streaming
  BY <1>4 DEF Streaming, OnlyStream
<1>5. CASE CallingModels
  BY <1>5 DEF CallingModels, OnlyCalls
<1>6. CASE Ticking
  BY <1>6 DEF Ticking, OnlyTicks
<1>7. CASE Messaging
  BY <1>7 DEF Messaging, OnlyIpc
<1>8. CASE Polling
  BY <1>8 DEF Polling, OnlyTelegram
<1>9. CASE UNCHANGED serverVars
  BY <1>9 DEF serverVars
<1> QED BY <1>1, <1>2, <1>3, <1>4, <1>5, <1>6, <1>7, <1>8, <1>9 DEF Next

\* The daemons: whatever is registered, removed, stopped or restarted meanwhile, a task runs
\* once at a time and no sooner than its interval, every request, also one to a daemon that is
\* gone, is settled at most once and by its own answer, however polls overlap no update is
\* confirmed that was not handled or is with a poll, and only by polls that overlap is one
\* handled twice.  For any tasks, intervals, requests, updates and polls.
THEOREM DaemonsHold == Spec => []DaemonsSound
<1>1. Init => DaemonsInv
  BY TicksBegin, IpcBegins, TelegramBegins, SequentialBegins DEF Init, DaemonsInv
<1>2. DaemonsInv /\ [Next]_serverVars => DaemonsInv'
  BY OneSurface, TicksStep, IpcStep, TelegramStep, SequentialStep DEF DaemonsInv
<1>3. DaemonsInv => DaemonsSound
  BY TelegramSafe DEF DaemonsInv, DaemonsSound, TicksInv, IpcInv
<1> QED BY <1>1, <1>2, <1>3, PTL DEF Spec

\* The doors of the servers: no accepted token is locked out, wrong ones are compared no sooner
\* than their cooldown, a signed message takes effect once, a stream gives its place back
\* once, accepted lines are answered in order, and limits and bodies keep to their ranges.
\* For any credentials, nonces, clocks, limits, streams and lines.
THEOREM DoorsHold == Spec => []AdmissionSound
<1>1. Init => DoorsInv
  BY GuardBegins, WebhooksBegin, SseBegins, StdioBegins, LimitsBegin DEF Init, DoorsInv
<1>2. DoorsInv /\ [Next]_serverVars => DoorsInv'
  BY OneSurface, GuardStep, WebhooksStep, SseStep, StdioStep, LimitsStep DEF DoorsInv
<1>3. DoorsInv => AdmissionSound
  BY StdioSafe DEF DoorsInv, AdmissionSound, GuardInv, WebhooksInv, SseInv, LimitsInv
<1> QED BY <1>1, <1>2, <1>3, PTL DEF Spec
=============================================================================
