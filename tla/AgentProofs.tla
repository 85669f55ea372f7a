----------------------------- MODULE AgentProofs -----------------------------
(* Proofs about the agent loop, for every set of tools, levels and limits, and about the *)
(* client of its MCP tools, for every limit, reply length and number of requests.        *)
EXTENDS AgentLoop, McpStdioClient, FiniteSetTheorems, SequenceTheorems, TLAPS

Messages == [role : Roles, ids : Seq(CallIds)]

Running == {"top", "compact", "call", "tools", "approval", "execute"}
InTurn == Running \ {"top"}
Calling == {"tools", "approval", "execute"}

\* What TypeOK leaves open: histories are sequences, and a turn in progress has room.
Typed ==
  /\ pc \in Running \cup {"idle"}
  /\ prompts \in 0 .. MaxPrompts /\ turn \in 0 .. MaxTurns
  /\ convo \in Seq(Roles) /\ hist \in Seq(Messages)
  /\ todo \in Seq(CallIds) /\ results \in Seq(CallIds)
  /\ tool \in Tools \cup {NoTool}
  /\ failures \in Nat /\ disabled \in BOOLEAN
  /\ beside \in [Others -> {"new", "turn", "compact", "over"}]
  /\ aborted \in BOOLEAN /\ completes \in Nat /\ thrown \in BOOLEAN
  /\ granted \subseteq CallIds /\ ran \subseteq CallIds \X Tools
  /\ pc \in InTurn => turn < MaxTurns
  /\ pc # "idle" => prompts > 0

\* A tool that waits for an answer is one that asks; one that executes has passed the
\* gate, and was approved for the call at the head of todo if it asks.
Gated ==
  /\ pc \in {"approval", "execute"} => todo # <<>> /\ tool \in Tools /\ ~GateRefuses(tool)
  /\ pc = "execute" /\ GateAsks(tool) => Head(todo) \in granted

\* The calls of message i are answered in the next message, the results of message i
\* answer the one before, and no user message follows results.
AnsweredAt(h, i) ==
  h[i].ids # <<>> =>
    IF h[i].role = "assistant"
    THEN i < Len(h) /\ h[i + 1] = Message("user", h[i].ids)
    ELSE /\ i > 1 /\ h[i - 1] = Message("assistant", h[i].ids)
         /\ i < Len(h) => h[i + 1].role = "assistant"

Answered(h) == h # <<>> /\ h[Len(h)].role = "user" /\ \A i \in 1 .. Len(h) : AnsweredAt(h, i)

\* While calls are handled, the last message asks for the results there are and the
\* calls still to do; everything before it is answered.
HistoryInv ==
  /\ pc \in {"top", "compact", "call"} => Answered(hist)
  /\ pc \in Calling =>
       \E h \in Seq(Messages) : /\ Answered(h)
                                /\ hist = Append(h, Message("assistant", results \o todo))
  /\ pc = "compact" => Len(hist) >= 4

\* The breaker is open when the row is full, and the compactions under way, one in each
\* turn at most, are all that can still add to it.
BreakerInv ==
  /\ failures >= MaxFailures => disabled
  /\ failures + InFlight <= MaxFailures + Cardinality(Others)

\* The inductive invariant.
IInv == Typed /\ Gated /\ GatedExecution /\ HistoryInv /\ BreakerInv /\ CompleteOnce

-----------------------------------------------------------------------------
(* The operators on histories. *)

\* The end of a sequence, and its last message with it.
Drops(s, n, d) ==
  /\ d = IF Len(s) <= n THEN 0 ELSE Len(s) - n
  /\ Len(LastN(s, n)) = Len(s) - d
  /\ \A i \in 1 .. Len(s) - d : LastN(s, n)[i] = s[i + d]

LEMMA LastNIs ==
  ASSUME NEW S, NEW s \in Seq(S), NEW n \in Nat \ {0}
  PROVE  /\ LastN(s, n) \in Seq(S)
         /\ \E d \in 0 .. Len(s) : Drops(s, n, d)
<1>1. Len(s) \in Nat
  BY LenProperties
<1>2. CASE Len(s) <= n
  <2>1. LastN(s, n) = s
    BY <1>2 DEF LastN
  <2>2. \A i \in 1 .. Len(s) - 0 : s[i] = s[i + 0]
    OBVIOUS
  <2> QED BY <1>1, <1>2, <2>1, <2>2 DEF Drops
<1>3. CASE ~(Len(s) <= n)
  <2> DEFINE d == Len(s) - n
             m == Len(s) - n + 1
  <2>1. d \in 0 .. Len(s) /\ m \in Int /\ m <= Len(s) /\ Len(s) - m + 1 = n /\ Len(s) - d = n
    BY <1>1, <1>3
  <2>2. \A i \in m .. Len(s) : s[i] \in S
    BY <1>1, <1>3, ElementOfSeq
  <2>3. LastN(s, n) = SubSeq(s, m, Len(s))
    BY <1>3 DEF LastN
  <2>4. /\ SubSeq(s, m, Len(s)) \in Seq(S)
        /\ Len(SubSeq(s, m, Len(s))) = n
        /\ \A i \in 1 .. n : SubSeq(s, m, Len(s))[i] = s[m + i - 1]
    BY <1>1, <2>1, <2>2, SubSeqProperties, SMTT(60)
  <2>5. \A i \in 1 .. n : m + i - 1 = i + d
    BY <1>1
  <2> HIDE DEF m
  <2>6. \A i \in 1 .. Len(s) - d : LastN(s, n)[i] = s[i + d]
    BY <2>1, <2>3, <2>4, <2>5
  <2> QED BY <1>3, <2>1, <2>3, <2>4, <2>6 DEF Drops
<1> QED BY <1>2, <1>3

LEMMA MessageIs ==
  ASSUME NEW role \in Roles, NEW ids \in Seq(CallIds)
  PROVE  /\ Message(role, ids) \in Messages
         /\ Message(role, ids).role = role /\ Message(role, ids).ids = ids
BY DEF Message, Messages

LEMMA EmptyIds == <<>> \in Seq(CallIds) /\ Message("user", <<>>) \in Messages
BY EmptySeq DEF Message, Messages, Roles

\* The history of a prompt starts from texts alone.
LEMMA TextsAnswered ==
  ASSUME NEW h \in Seq(Messages), h # <<>>, h[Len(h)].role = "user",
         \A i \in 1 .. Len(h) : h[i].ids = <<>>
  PROVE  Answered(h)
BY DEF Answered, AnsweredAt

\* A call that is answered in full leaves the history answered.
LEMMA TurnAnswered ==
  ASSUME NEW h \in Seq(Messages), Answered(h), NEW ids \in Seq(CallIds)
  PROVE  Answered(Append(Append(h, Message("assistant", ids)), Message("user", ids)))
<1> DEFINE ask == Message("assistant", ids)
           reply == Message("user", ids)
           g == Append(h, ask)
           k == Append(g, reply)
<1>1. /\ ask \in Messages /\ ask.role = "assistant" /\ ask.ids = ids
      /\ reply \in Messages /\ reply.role = "user" /\ reply.ids = ids
  BY MessageIs DEF Roles
<1> HIDE DEF ask, reply
<1>2. Len(h) \in Nat \ {0}
  BY EmptySeq DEF Answered
<1>3. /\ g \in Seq(Messages) /\ Len(g) = Len(h) + 1
      /\ \A i \in 1 .. Len(h) : g[i] = h[i]
      /\ g[Len(h) + 1] = ask
  BY <1>1, AppendProperties
<1> HIDE DEF g
<1>4. /\ k \in Seq(Messages) /\ Len(k) = Len(g) + 1 /\ k # <<>>
      /\ \A i \in 1 .. Len(g) : k[i] = g[i]
      /\ k[Len(g) + 1] = reply
  BY <1>1, <1>3, AppendProperties
<1> HIDE DEF k
<1>5. /\ Len(k) = Len(h) + 2 /\ k[Len(h) + 1] = ask /\ k[Len(h) + 2] = reply
      /\ \A i \in 1 .. Len(h) : k[i] = h[i]
  <2>1. /\ Len(g) + 1 = Len(h) + 2 /\ Len(h) + 1 \in 1 .. Len(g)
        /\ \A i \in 1 .. Len(h) : i \in 1 .. Len(g)
    BY <1>2, <1>3
  <2> QED BY <1>3, <1>4, <2>1, Zenon
<1>6. ASSUME NEW i \in 1 .. Len(h) PROVE AnsweredAt(k, i)
  <2>1. AnsweredAt(h, i)
    BY DEF Answered
  <2>2. i = Len(h) => h[i].role = "user" /\ k[i + 1].role = "assistant"
    BY <1>1, <1>5 DEF Answered
  <2>3. i < Len(h) => k[i + 1] = h[i + 1]
    BY <1>2, <1>5
  <2>4. i > 1 => k[i - 1] = h[i - 1]
    BY <1>2, <1>5
  <2> QED BY <1>2, <1>5, <2>1, <2>2, <2>3, <2>4 DEF AnsweredAt
<1>7. AnsweredAt(k, Len(h) + 1)
  <2>1. (Len(h) + 1) + 1 = Len(h) + 2 /\ Len(h) + 1 < Len(k)
    BY <1>2, <1>5
  <2> QED BY <2>1, <1>1, <1>5 DEF AnsweredAt, reply
<1>8. AnsweredAt(k, Len(h) + 2)
  <2>1. (Len(h) + 2) - 1 = Len(h) + 1 /\ Len(h) + 2 > 1 /\ ~(Len(h) + 2 < Len(k))
    BY <1>2, <1>5
  <2> QED BY <2>1, <1>1, <1>5 DEF AnsweredAt, ask
<1>9. \A i \in 1 .. Len(k) : i \in 1 .. Len(h) \/ i = Len(h) + 1 \/ i = Len(h) + 2
  BY <1>2, <1>5
<1>10. Answered(k)
  BY <1>1, <1>4, <1>5, <1>6, <1>7, <1>8, <1>9 DEF Answered
<1> QED BY <1>10 DEF k, g, ask, reply

\* A compacted history is answered: results are never kept without their calls.
LEMMA CompactedAnswered ==
  ASSUME NEW h \in Seq(Messages), Answered(h), Len(h) >= 4
  PROVE  Compacted(h) \in Seq(Messages) /\ Answered(Compacted(h))
<1> DEFINE summary == Message("user", <<>>)
           k == Compacted(h)
           n == Len(h)
<1>1. n \in Nat /\ n >= 4
  BY LenProperties
<1>2. /\ LastN(h, 2) \in Seq(Messages) /\ Len(LastN(h, 2)) = 2
      /\ \A i \in 1 .. 2 : LastN(h, 2)[i] = h[i + (n - 2)]
  <2>0. 2 \in Nat \ {0} /\ LastN(h, 2) \in Seq(Messages)
    BY LastNIs
  <2>a. PICK d \in 0 .. n : Drops(h, 2, d)
    BY <2>0, LastNIs
  <2>1. /\ d = IF n <= 2 THEN 0 ELSE n - 2
        /\ Len(LastN(h, 2)) = n - d
        /\ \A i \in 1 .. n - d : LastN(h, 2)[i] = h[i + d]
    BY <2>a DEF Drops
  <2>2. d = n - 2 /\ n - d = 2
    BY <1>1, <2>1
  <2> QED BY <2>0, <2>1, <2>2
<1>3. summary \in Messages /\ summary.role = "user" /\ summary.ids = <<>>
  BY EmptyIds, MessageIs DEF Roles
<1> HIDE DEF summary
<1>4. <<summary>> \in Seq(Messages) /\ Len(<<summary>>) = 1 /\ <<summary>>[1] = summary
  BY <1>3
<1>5. /\ k \in Seq(Messages) /\ Len(k) = 3
      /\ \A i \in 1 .. 3 : k[i] = IF i <= 1 THEN <<summary>>[i] ELSE LastN(h, 2)[i - 1]
  <2>1. k = <<summary>> \o LastN(h, 2)
    BY DEF Compacted, summary
  <2> HIDE DEF k
  <2>2. /\ k \in Seq(Messages) /\ Len(k) = 1 + 2
        /\ \A i \in 1 .. 1 + 2 : k[i] = IF i <= 1 THEN <<summary>>[i] ELSE LastN(h, 2)[i - 1]
    <3> DEFINE s1 == <<summary>>
               s2 == LastN(h, 2)
    <3>1. /\ s1 \in Seq(Messages) /\ Len(s1) = 1 /\ s2 \in Seq(Messages) /\ Len(s2) = 2
          /\ k = s1 \o s2
      BY <1>2, <1>4, <2>1
    <3> HIDE DEF s1, s2
    <3>2. /\ s1 \o s2 \in Seq(Messages) /\ Len(s1 \o s2) = Len(s1) + Len(s2)
          /\ \A i \in 1 .. Len(s1) + Len(s2) :
               (s1 \o s2)[i] = IF i <= Len(s1) THEN s1[i] ELSE s2[i - Len(s1)]
      BY <3>1, ConcatProperties
    <3> QED BY <3>1, <3>2 DEF s1, s2
  <2> QED BY <2>2
<1>6. k[1] = summary /\ k[2] = h[n - 1] /\ k[3] = h[n] /\ k # <<>>
  <2>1. 1 + (n - 2) = n - 1 /\ 2 + (n - 2) = n
    BY <1>1
  <2>2. LastN(h, 2)[1] = h[n - 1] /\ LastN(h, 2)[2] = h[n]
    BY <1>2, <2>1
  <2> HIDE DEF k
  <2>3. k[1] = summary /\ k[2] = LastN(h, 2)[1] /\ k[3] = LastN(h, 2)[2]
    BY <1>4, <1>5
  <2>4. k # <<>>
    BY <1>5, EmptySeq, SMTT(60)
  <2> QED BY <2>2, <2>3, <2>4, Zenon
<1> HIDE DEF k, n
<1>7. AnsweredAt(h, n - 1) /\ AnsweredAt(h, n) /\ h[n].role = "user"
  BY <1>1 DEF Answered, n
<1>8. AnsweredAt(k, 1)
  BY <1>3, <1>6 DEF AnsweredAt
<1>9. AnsweredAt(k, 2)
  <2>1. (n - 1) + 1 = n /\ n - 1 < n
    BY <1>1
  <2>2. h[n - 1].ids # <<>> => h[n - 1].role = "assistant" /\ h[n] = Message("user", h[n - 1].ids)
    <3> DEFINE a == n - 1
    <3>1. a + 1 = n /\ a < Len(h) /\ AnsweredAt(h, a)
      BY <1>7, <2>1 DEF n
    <3> HIDE DEF a
    <3>2. h[a].ids # <<>> => h[a].role = "assistant" /\ h[n] = Message("user", h[a].ids)
      BY <1>7, <3>1 DEF AnsweredAt
    <3> QED BY <3>2 DEF a
  <2> QED BY <1>5, <1>6, <2>2 DEF AnsweredAt
<1>10. AnsweredAt(k, 3)
  <2>1. h[n].ids # <<>> => h[n - 1] = Message("assistant", h[n].ids)
    BY <1>7 DEF AnsweredAt
  <2> QED BY <1>5, <1>6, <1>7, <2>1 DEF AnsweredAt
<1>11. Answered(k)
  BY <1>5, <1>6, <1>7, <1>8, <1>9, <1>10 DEF Answered
<1> QED BY <1>5, <1>11 DEF k

\* The function built over the first n numbers is a sequence.
LEMMA SeqOfFunction ==
  ASSUME NEW S, NEW n \in Nat, NEW f \in [1 .. n -> S]
  PROVE  f \in Seq(S) /\ Len(f) = n
OBVIOUS

\* A prompt starts from the roles of the last messages, its own among them.
LEMMA PromptHistory ==
  ASSUME Typed, Prompt
  PROVE  convo' \in Seq(Roles) /\ hist' \in Seq(Messages) /\ Answered(hist')
<1> DEFINE last == LastN(convo', MaxContext)
<1>1. /\ convo' \in Seq(Roles) /\ convo' # <<>> /\ Len(convo') = Len(convo) + 1
      /\ convo'[Len(convo')] = "user" /\ Len(convo') \in Nat \ {0}
  <2>1. "user" \in Roles /\ convo \in Seq(Roles) /\ convo' = Append(convo, "user")
    BY DEF Prompt, Typed, Roles
  <2> QED BY <2>1, AppendProperties, LenProperties
<1>2. last \in Seq(Roles) /\ Len(last) \in Nat \ {0} /\ last[Len(last)] = "user"
  <2>1. MaxContext \in Nat \ {0}
    BY LimitsAssumption
  <2>2. last \in Seq(Roles)
    BY <1>1, <2>1, LastNIs
  <2>a. PICK d \in 0 .. Len(convo') : Drops(convo', MaxContext, d)
    BY <1>1, <2>1, LastNIs
  <2>3. /\ d = IF Len(convo') <= MaxContext THEN 0 ELSE Len(convo') - MaxContext
        /\ Len(last) = Len(convo') - d
        /\ \A i \in 1 .. Len(convo') - d : last[i] = convo'[i + d]
    BY <2>a DEF Drops
  <2>4. Len(last) \in Nat \ {0} /\ Len(last) + d = Len(convo')
    BY <1>1, <2>1, <2>3
  <2>5. last[Len(last)] = convo'[Len(last) + d]
    <3> HIDE DEF last
    <3>1. Len(last) \in 1 .. Len(convo') - d
      BY <2>3, <2>4
    <3> QED BY <2>3, <3>1
  <2> QED BY <1>1, <2>2, <2>4, <2>5
<1>3. hist' = [i \in 1 .. Len(last) |-> Message(last[i], <<>>)]
  BY DEF Prompt
<1> HIDE DEF last
<1>4. \A i \in 1 .. Len(last) :
        /\ hist'[i] = Message(last[i], <<>>) /\ hist'[i] \in Messages
        /\ hist'[i].role = last[i] /\ hist'[i].ids = <<>>
  <2> SUFFICES ASSUME NEW i \in 1 .. Len(last)
               PROVE  /\ Message(last[i], <<>>) \in Messages
                      /\ Message(last[i], <<>>).role = last[i]
                      /\ Message(last[i], <<>>).ids = <<>>
    BY <1>3
  <2>1. last[i] \in Roles
    BY <1>2, ElementOfSeq
  <2> QED BY <2>1, EmptyIds, MessageIs
<1>5. hist' \in Seq(Messages) /\ Len(hist') = Len(last)
  <2>1. hist' \in [1 .. Len(last) -> Messages]
    BY <1>3, <1>4
  <2> QED BY <1>2, <2>1, SeqOfFunction
<1>6. Answered(hist')
  <2>1. hist' # <<>> /\ Len(hist') \in 1 .. Len(last)
    BY <1>2, <1>5, EmptySeq
  <2>2. hist'[Len(hist')].role = "user" /\ \A i \in 1 .. Len(hist') : hist'[i].ids = <<>>
    BY <1>2, <1>4, <1>5, <2>1
  <2> QED BY <1>5, <2>1, <2>2, TextsAnswered
<1> QED BY <1>1, <1>5, <1>6

\* Answering the call at the head of todo keeps the order of the calls.
LEMMA AnswerMoves ==
  ASSUME NEW done \in Seq(CallIds), NEW rest \in Seq(CallIds), rest # <<>>
  PROVE  /\ Append(done, Head(rest)) \in Seq(CallIds) /\ Tail(rest) \in Seq(CallIds)
         /\ Append(done, Head(rest)) \o Tail(rest) = done \o rest
<1> DEFINE x == Head(rest)
           t == Tail(rest)
<1>1. /\ x \in CallIds /\ t \in Seq(CallIds) /\ Len(t) = Len(rest) - 1
      /\ \A i \in 1 .. Len(t) : t[i] = rest[i + 1]
  BY HeadTailProperties
<1>2. Len(rest) \in Nat \ {0} /\ Len(done) \in Nat /\ Len(t) \in Nat
  BY <1>1, EmptySeq, LenProperties
<1>3. rest = <<x>> \o t /\ <<x>> \in Seq(CallIds)
  BY <1>1
<1> HIDE DEF x, t
<1>4. Append(done, x) = done \o <<x>> /\ Append(done, x) \in Seq(CallIds)
  BY <1>1, AppendIsConcat, AppendProperties
<1>5. (done \o <<x>>) \o t = done \o (<<x>> \o t)
  BY <1>1, <1>3, ConcatAssociative
<1> QED BY <1>1, <1>3, <1>4, <1>5 DEF x, t

\* The calls of an answer.
LEMMA CallsTyped ==
  ASSUME turn \in Nat, turn < MaxTurns, NEW n \in 0 .. MaxBlocks
  PROVE  [i \in 1 .. n |-> <<turn, i>>] \in Seq(CallIds)
<1>1. [i \in 1 .. n |-> <<turn, i>>] \in [1 .. n -> CallIds]
  BY LimitsAssumption DEF CallIds
<1> QED BY <1>1, SeqOfFunction

-----------------------------------------------------------------------------
(* The steps. *)

LEMMA CompleteTyped ==
  ASSUME Typed, NEW answered \in BOOLEAN, Complete(answered)
  PROVE  /\ convo' \in Seq(Roles) /\ completes' \in Nat /\ pc' = "idle"
         /\ hist' \in Seq(Messages) /\ todo' \in Seq(CallIds) /\ results' \in Seq(CallIds)
         /\ tool' \in Tools \cup {NoTool}
<1>1. convo' \in Seq(Roles)
  BY AppendProperties DEF Complete, Typed, Roles
<1> QED BY <1>1, EmptySeq DEF Complete, Typed

LEMMA AnswerTyped ==
  ASSUME Typed, todo # <<>>, Answer
  PROVE  /\ todo' \in Seq(CallIds) /\ results' \in Seq(CallIds) /\ pc' = "tools"
         /\ tool' \in Tools \cup {NoTool} /\ results' \o todo' = results \o todo
BY AnswerMoves DEF Answer, Typed

\* What another turn leaves alone.
LEMMA OtherLeaves ==
  ASSUME NEW o \in Others, OtherStep(o) PROVE UNCHANGED own
BY DEF OtherStep, OtherPrompt, OtherCompacts, OtherCompactionSucceeds, OtherCompactionFails,
       OtherEnds

LEMMA TypedKept == Typed /\ Gated /\ HistoryInv /\ [Next]_vars => Typed'
<1> SUFFICES ASSUME Typed, Gated, HistoryInv, [Next]_vars PROVE Typed'
  OBVIOUS
<1> USE LimitsAssumption DEF InTurn, Running, session
<1>1. CASE Prompt
  <2>1. convo' \in Seq(Roles) /\ hist' \in Seq(Messages)
    BY <1>1, PromptHistory
  <2>2. prompts' \in 0 .. MaxPrompts /\ prompts' > 0 /\ turn' \in 0 .. MaxTurns
    BY <1>1 DEF Prompt, Typed
  <2> QED BY <1>1, <2>1, <2>2 DEF Prompt, Typed
<1>2. ASSUME NEW answered \in BOOLEAN, Complete(answered),
             UNCHANGED <<prompts, turn, session, aborted, thrown, granted, ran>>
      PROVE  Typed'
  BY <1>2, CompleteTyped DEF Typed
<1>3. CASE HookThrows
  BY <1>3, EmptySeq DEF HookThrows, Typed
<1>4. CASE Abort
  BY <1>4 DEF Abort, Typed
<1>5. CASE StopLoop \/ ModelThrows \/ ModelAnswers
  BY <1>5, <1>2 DEF StopLoop, ModelThrows, ModelAnswers
<1>6. CASE StartTurn \/ StartCompaction
  BY <1>6 DEF StartTurn, StartCompaction, TurnsLeft, Typed
<1>7. CASE CompactionSucceeds
  <2>1. hist' \in Seq(Messages)
    BY <1>7, CompactedAnswered DEF CompactionSucceeds, HistoryInv, Typed
  <2> QED BY <1>7, <2>1 DEF CompactionSucceeds, Typed
<1>8. CASE CompactionFails
  <2>1. disabled' \in BOOLEAN
    BY <1>8, Zenon DEF CompactionFails, Typed
  <2>2. failures' \in Nat
    BY <1>8 DEF CompactionFails, Typed
  <2> QED BY <1>8, <2>1, <2>2 DEF CompactionFails, Typed
<1>9. ASSUME NEW n \in 0 .. MaxBlocks, ModelCallsTools(n) PROVE Typed'
  <2> DEFINE ids == [i \in 1 .. n |-> <<turn, i>>]
  <2>0. turn \in Nat /\ turn < MaxTurns
    BY <1>9 DEF ModelCallsTools, Typed
  <2>1. ids \in Seq(CallIds)
    BY <2>0, CallsTyped
  <2>2. Message("assistant", ids) \in Messages
    BY <2>1, MessageIs DEF Roles
  <2> HIDE DEF ids
  <2>3. hist' = Append(hist, Message("assistant", ids)) /\ todo' = ids /\ results' = <<>>
    BY <1>9 DEF ModelCallsTools, ids
  <2>4. hist' \in Seq(Messages) /\ todo' \in Seq(CallIds) /\ results' \in Seq(CallIds)
    BY <2>1, <2>2, <2>3, AppendProperties, EmptySeq DEF Typed
  <2> QED BY <1>9, <2>4 DEF ModelCallsTools, Typed
<1>10. CASE RejectCall
  BY <1>10, AnswerTyped DEF RejectCall, Typed
<1>11. ASSUME NEW t \in Tools, AskApproval(t) \/ Permit(t) PROVE Typed'
  BY <1>11 DEF AskApproval, Permit, Typed
<1>12. CASE Approve
  <2>1. Head(todo) \in CallIds
    <3>1. todo \in Seq(CallIds) /\ todo # <<>>
      BY <1>12 DEF Approve, Gated, Typed
    <3> QED BY <3>1, HeadTailProperties
  <2> QED BY <1>12, <2>1 DEF Approve, Typed
<1>13. CASE Deny
  BY <1>13, AnswerTyped DEF Deny, Gated, Typed
<1>14. CASE Execute
  <2>1. todo # <<>> /\ tool \in Tools /\ Head(todo) \in CallIds
    BY <1>14, HeadTailProperties DEF Execute, Gated, Typed
  <2> QED BY <1>14, <2>1, AnswerTyped DEF Execute, Typed
<1>15. CASE EndTurn
  <2>1. Message("user", results) \in Messages
    BY MessageIs DEF Typed, Roles
  <2>2. hist' \in Seq(Messages)
    BY <1>15, <2>1, AppendProperties DEF EndTurn, Typed
  <2> QED BY <1>15, <2>2 DEF EndTurn, Typed
<1>16. CASE UNCHANGED vars
  BY <1>16 DEF vars, Typed
<1>17. ASSUME NEW o \in Others, OtherStep(o) PROVE Typed'
  <2>1. UNCHANGED own
    BY <1>17, OtherLeaves
  <2>2. failures' \in Nat /\ beside' \in [Others -> {"new", "turn", "compact", "over"}]
    <3>1. failures' \in {failures, 0, failures + 1}
      BY <1>17 DEF OtherStep, OtherPrompt, OtherCompacts, OtherCompactionSucceeds,
                   OtherCompactionFails, OtherEnds
    <3>2. \E where \in {"turn", "compact", "over"} : beside' = [beside EXCEPT ![o] = where]
      BY <1>17 DEF OtherStep, OtherPrompt, OtherCompacts, OtherCompactionSucceeds,
                   OtherCompactionFails, OtherEnds
    <3> QED BY <3>1, <3>2 DEF Typed
  <2>3. disabled' \in BOOLEAN
    BY <1>17, Zenon DEF OtherStep, OtherPrompt, OtherCompacts, OtherCompactionSucceeds,
                        OtherCompactionFails, OtherEnds, Typed
  <2>4. convo' \in {convo, Append(convo, "user"), Append(convo, "assistant")}
    BY <1>17 DEF OtherStep, OtherPrompt, OtherCompacts, OtherCompactionSucceeds,
                 OtherCompactionFails, OtherEnds
  <2>5. convo' \in Seq(Roles)
    <3>1. convo \in Seq(Roles) /\ "user" \in Roles /\ "assistant" \in Roles
      BY DEF Typed, Roles
    <3>2. Append(convo, "user") \in Seq(Roles)
      BY <3>1, AppendProperties
    <3>3. Append(convo, "assistant") \in Seq(Roles)
      BY <3>1, AppendProperties
    <3> QED BY <2>4, <3>1, <3>2, <3>3
  <2> QED BY <2>1, <2>2, <2>3, <2>5 DEF own, Typed
<1> QED BY <1>1, <1>3, <1>4, <1>5, <1>6, <1>7, <1>8, <1>9, <1>10, <1>11, <1>12, <1>13, <1>14,
           <1>15, <1>16, <1>17 DEF Next, LoopStep

\* What ran had passed the gate, for the very call it was granted for.
LEMMA GatedKept == Typed /\ Gated /\ GatedExecution /\ [Next]_vars => Gated' /\ GatedExecution'
<1> SUFFICES ASSUME Typed, Gated, GatedExecution, [Next]_vars PROVE Gated' /\ GatedExecution'
  OBVIOUS
<1> USE DEF session
<1>1. CASE pc' \notin {"approval", "execute"} /\ ran' = {}
  BY <1>1 DEF Gated, GatedExecution
<1>2. CASE pc' \notin {"approval", "execute"} /\ UNCHANGED <<granted, ran>>
  BY <1>2 DEF Gated, GatedExecution
<1>3. CASE Prompt
  BY <1>1, <1>3 DEF Prompt
<1>4. CASE HookThrows \/ StopLoop \/ ModelThrows \/ ModelAnswers
  BY <1>2, <1>4 DEF HookThrows, StopLoop, ModelThrows, ModelAnswers, Complete
<1>5. CASE StartTurn \/ StartCompaction \/ CompactionSucceeds \/ CompactionFails
  BY <1>2, <1>5 DEF StartTurn, StartCompaction, CompactionSucceeds, CompactionFails
<1>6. ASSUME NEW n \in 0 .. MaxBlocks, ModelCallsTools(n) PROVE Gated' /\ GatedExecution'
  BY <1>2, <1>6 DEF ModelCallsTools
<1>7. CASE RejectCall \/ Deny \/ EndTurn
  BY <1>2, <1>7 DEF RejectCall, Deny, EndTurn, Answer
<1>8. CASE Abort \/ UNCHANGED vars
  BY <1>8 DEF Abort, vars, Gated, GatedExecution
<1>9. ASSUME NEW t \in Tools, AskApproval(t) PROVE Gated' /\ GatedExecution'
  BY <1>9 DEF AskApproval, Gated, GatedExecution, GateAsks
<1>10. ASSUME NEW t \in Tools, Permit(t) PROVE Gated' /\ GatedExecution'
  BY <1>10 DEF Permit, Gated, GatedExecution
<1>11. CASE Approve
  BY <1>11 DEF Approve, Gated, GatedExecution
<1>12. CASE Execute
  <2>1. /\ tool \in Tools /\ ~GateRefuses(tool)
        /\ GateAsks(tool) => Head(todo) \in granted
    BY <1>12 DEF Execute, Gated
  <2>2. Level[tool] \in Int /\ SessionLevel \in Int
    BY <2>1, ToolsAssumption
  <2>3. Level[tool] \in 0 .. SessionLevel
    BY <2>1, <2>2 DEF GateRefuses, ValidLevel, Dangerous
  <2>4. tool \in AsksFirst \/ Level[tool] >= Dangerous => Head(todo) \in granted
    BY <2>1 DEF GateAsks
  <2>5. ran' = ran \cup {<<Head(todo), tool>>} /\ granted' = granted /\ pc' = "tools"
    BY <1>12 DEF Execute, Answer
  <2>6. GatedExecution'
    BY <2>3, <2>4, <2>5 DEF GatedExecution
  <2> QED BY <2>5, <2>6 DEF Gated
<1>13. ASSUME NEW o \in Others, OtherStep(o) PROVE Gated' /\ GatedExecution'
  BY <1>13, OtherLeaves DEF own, Gated, GatedExecution
<1> QED BY <1>3, <1>4, <1>5, <1>6, <1>7, <1>8, <1>9, <1>10, <1>11, <1>12, <1>13
        DEF Next, LoopStep

\* Histories before a call are answered; while calls are handled, what is missing is todo.
LEMMA HistoryKept == Typed /\ Gated /\ HistoryInv /\ [Next]_vars => HistoryInv'
<1> SUFFICES ASSUME Typed, Gated, HistoryInv, [Next]_vars PROVE HistoryInv'
  OBVIOUS
<1> USE DEF session, Calling
<1>1. ASSUME pc' \notin {"top", "compact", "call"} \cup Calling PROVE HistoryInv'
  BY <1>1 DEF HistoryInv
<1>2. ASSUME pc' \in {"top", "call"}, pc \in {"top", "compact", "call"}, hist' = hist
      PROVE  HistoryInv'
  BY <1>2 DEF HistoryInv
<1>3. ASSUME pc \in Calling, pc' \in Calling, hist' = hist, results' \o todo' = results \o todo
      PROVE  HistoryInv'
  BY <1>3 DEF HistoryInv
<1>4. CASE Prompt
  BY <1>4, PromptHistory DEF HistoryInv, Prompt
<1>5. CASE HookThrows \/ StopLoop \/ ModelThrows \/ ModelAnswers
  BY <1>1, <1>5 DEF HookThrows, StopLoop, ModelThrows, ModelAnswers, Complete
<1>6. CASE StartTurn \/ CompactionFails
  BY <1>2, <1>6 DEF StartTurn, CompactionFails
<1>7. CASE StartCompaction
  BY <1>7 DEF StartCompaction, HistoryInv
<1>8. CASE CompactionSucceeds
  <2>1. Answered(hist') /\ pc' = "call"
    BY <1>8, CompactedAnswered DEF CompactionSucceeds, HistoryInv, Typed
  <2> QED BY <2>1 DEF HistoryInv
<1>9. ASSUME NEW n \in 0 .. MaxBlocks, ModelCallsTools(n) PROVE HistoryInv'
  <2> DEFINE ids == [i \in 1 .. n |-> <<turn, i>>]
  <2>0. turn \in Nat /\ turn < MaxTurns
    BY <1>9, LimitsAssumption DEF ModelCallsTools, Typed, InTurn, Running
  <2>1. ids \in Seq(CallIds)
    BY <2>0, CallsTyped
  <2>2. hist' = Append(hist, Message("assistant", ids)) /\ todo' = ids /\ results' = <<>>
        /\ pc' = "tools" /\ pc = "call"
    BY <1>9 DEF ModelCallsTools
  <2> HIDE DEF ids
  <2>3. results' \o todo' = ids
    BY <2>1, <2>2, ConcatEmptySeq
  <2>4. hist \in Seq(Messages) /\ Answered(hist)
        /\ hist' = Append(hist, Message("assistant", results' \o todo'))
    BY <2>2, <2>3 DEF HistoryInv, Typed
  <2> QED BY <2>2, <2>4 DEF HistoryInv
<1>10. CASE RejectCall \/ Deny \/ Execute
  <2>1. todo # <<>> /\ Answer /\ pc \in Calling /\ hist' = hist
    BY <1>10 DEF RejectCall, Deny, Execute, Gated
  <2> QED BY <2>1, <1>3, AnswerTyped
<1>11. ASSUME NEW t \in Tools, AskApproval(t) \/ Permit(t) PROVE HistoryInv'
  BY <1>3, <1>11 DEF AskApproval, Permit
<1>12. CASE Approve
  BY <1>3, <1>12 DEF Approve
<1>13. CASE EndTurn
  <2>1. PICK h \in Seq(Messages) :
           Answered(h) /\ hist = Append(h, Message("assistant", results \o todo))
    BY <1>13 DEF EndTurn, HistoryInv
  <2>2. results \o todo = results /\ results \in Seq(CallIds)
    BY <1>13, ConcatEmptySeq DEF EndTurn, Typed
  <2>3. hist' = Append(Append(h, Message("assistant", results)), Message("user", results))
    BY <1>13, <2>1, <2>2 DEF EndTurn
  <2>4. Answered(hist') /\ pc' = "top"
    BY <1>13, <2>1, <2>2, <2>3, TurnAnswered DEF EndTurn
  <2> QED BY <2>4 DEF HistoryInv
<1>14. CASE Abort \/ UNCHANGED vars
  BY <1>14 DEF Abort, vars, HistoryInv
<1>15. ASSUME NEW o \in Others, OtherStep(o) PROVE HistoryInv'
  BY <1>15, OtherLeaves DEF own, HistoryInv
<1> QED BY <1>4, <1>5, <1>6, <1>7, <1>8, <1>9, <1>10, <1>11, <1>12, <1>13, <1>14, <1>15
        DEF Next, LoopStep

\* The other turns that compact.
Compacting == {o \in Others : beside[o] = "compact"}

LEMMA CompactingFinite ==
  /\ IsFiniteSet(Compacting) /\ Cardinality(Compacting) \in Nat
  /\ Cardinality(Others) \in Nat /\ Cardinality(Compacting) <= Cardinality(Others)
BY OthersAssumption, FS_Subset, FS_CardinalityType DEF Compacting

LEMMA InFlightIs ==
  /\ InFlight = Cardinality(Compacting) + (IF pc = "compact" THEN 1 ELSE 0)
  /\ InFlight' = Cardinality(Compacting') + (IF pc' = "compact" THEN 1 ELSE 0)
BY DEF InFlight, Compacting

\* What a step may do to the breaker.
BreakerStep ==
  /\ ~disabled => (disabled' <=> failures' >= MaxFailures)
  /\ disabled => disabled' /\ InFlight' <= InFlight
  /\ failures' + InFlight' <= MaxFailures + Cardinality(Others)

\* No compaction starts or ends.
LEMMA QuietKeeps ==
  ASSUME Typed, BreakerInv, UNCHANGED session, pc' = "compact" => pc = "compact"
  PROVE  BreakerInv' /\ BreakerStep
<1>1. Compacting' = Compacting
  BY DEF session, Compacting
<1> QED BY <1>1, CompactingFinite, InFlightIs, LimitsAssumption
        DEF session, Typed, BreakerInv, BreakerStep

\* A compaction ends: in a turn beside, or in the turn that is followed.
LEMMA EndingKeeps ==
  ASSUME Typed, BreakerInv, InFlight' = InFlight - 1,
         \/ failures' = 0 /\ disabled' = disabled
         \/ failures' = failures + 1 /\ disabled' = (disabled \/ Tripped(failures'))
  PROVE  BreakerInv' /\ BreakerStep
<1>1. InFlight \in Nat
  BY CompactingFinite, InFlightIs
<1>2. failures' \in Nat /\ failures' <= failures + 1
  BY DEF Typed
<1>3. disabled' <=> disabled \/ failures' >= MaxFailures
  <2>1. CASE failures' = 0 /\ disabled' = disabled
    <3>1. ~(failures' >= MaxFailures)
      BY <2>1, LimitsAssumption
    <3> QED BY <2>1, <3>1, Zenon
  <2>2. CASE failures' = failures + 1 /\ disabled' = (disabled \/ Tripped(failures'))
    BY <2>2, Zenon DEF Tripped
  <2> QED BY <2>1, <2>2
<1>4. failures' + InFlight' <= MaxFailures + Cardinality(Others)
  BY <1>1, <1>2, CompactingFinite, LimitsAssumption DEF Typed, BreakerInv
<1> QED BY <1>1, <1>3, <1>4 DEF BreakerInv, BreakerStep

\* A compaction starts: the breaker is closed, so there is room in the row.
LEMMA StartingKeeps ==
  ASSUME Typed, BreakerInv, ~disabled, UNCHANGED <<failures, disabled>>
  PROVE  BreakerInv' /\ BreakerStep
<1>1. IsFiniteSet(Compacting') /\ Cardinality(Compacting') <= Cardinality(Others)
      /\ Cardinality(Compacting') \in Nat /\ Cardinality(Others) \in Nat
  BY OthersAssumption, FS_Subset, FS_CardinalityType DEF Compacting
<1>2. failures + 1 <= MaxFailures /\ failures \in Nat /\ MaxFailures \in Nat
  BY LimitsAssumption DEF Typed, BreakerInv
<1>3. failures' + InFlight' <= MaxFailures + Cardinality(Others)
  BY <1>1, <1>2, InFlightIs
<1> QED BY <1>2, <1>3 DEF BreakerInv, BreakerStep

\* The set of the others that compact loses the one that ends.
LEMMA OneLess ==
  ASSUME Typed, NEW o \in Others, beside[o] = "compact",
         beside' = [beside EXCEPT ![o] = "turn"], pc' = pc
  PROVE  InFlight' = InFlight - 1
<1>1. Compacting' = Compacting \ {o} /\ o \in Compacting
  BY DEF Compacting, Typed
<1>2. Cardinality(Compacting') = Cardinality(Compacting) - 1
  BY <1>1, CompactingFinite, FS_RemoveElement
<1> QED BY <1>2, CompactingFinite, InFlightIs

\* The breaker opens with the row, stays open, and bounds what is under way.
LEMMA BreakerKept == Typed /\ BreakerInv /\ [Next]_vars => BreakerInv' /\ BreakerStep
<1> SUFFICES ASSUME Typed, BreakerInv, [Next]_vars PROVE BreakerInv' /\ BreakerStep
  OBVIOUS
<1>1. ASSUME UNCHANGED session, pc' # "compact" PROVE BreakerInv' /\ BreakerStep
  BY <1>1, QuietKeeps
<1>2. CASE Prompt
  BY <1>1, <1>2 DEF Prompt
<1>3. CASE HookThrows \/ StopLoop \/ ModelThrows \/ ModelAnswers
  BY <1>1, <1>3 DEF HookThrows, StopLoop, ModelThrows, ModelAnswers, Complete
<1>4. CASE StartTurn
  BY <1>1, <1>4 DEF StartTurn
<1>5. CASE StartCompaction
  BY <1>5, StartingKeeps DEF StartCompaction, session
<1>6. CASE CompactionSucceeds \/ CompactionFails
  <2>1. beside' = beside /\ pc = "compact" /\ pc' # "compact"
    BY <1>6 DEF CompactionSucceeds, CompactionFails
  <2>2. Compacting' = Compacting
    BY <2>1 DEF Compacting
  <2>3. InFlight' = InFlight - 1
    BY <2>1, <2>2, CompactingFinite, InFlightIs
  <2> QED BY <1>6, <2>3, EndingKeeps DEF CompactionSucceeds, CompactionFails
<1>7. ASSUME NEW n \in 0 .. MaxBlocks, ModelCallsTools(n) PROVE BreakerInv' /\ BreakerStep
  BY <1>1, <1>7 DEF ModelCallsTools
<1>8. CASE RejectCall \/ Deny \/ Execute
  BY <1>1, <1>8 DEF RejectCall, Deny, Execute, Answer
<1>9. ASSUME NEW t \in Tools, AskApproval(t) \/ Permit(t) PROVE BreakerInv' /\ BreakerStep
  BY <1>1, <1>9 DEF AskApproval, Permit
<1>10. CASE Approve \/ EndTurn
  BY <1>1, <1>10 DEF Approve, EndTurn
<1>11. CASE Abort \/ UNCHANGED vars
  BY <1>11, QuietKeeps DEF Abort, vars, session
<1>12. ASSUME NEW o \in Others, OtherStep(o) PROVE BreakerInv' /\ BreakerStep
  <2>1. pc' = pc
    BY <1>12, OtherLeaves DEF own
  <2>2. CASE OtherPrompt(o) \/ OtherEnds(o)
    <3>1. Compacting' = Compacting /\ UNCHANGED <<failures, disabled>>
      BY <2>2 DEF OtherPrompt, OtherEnds, Compacting, Typed
    <3> QED BY <2>1, <3>1, CompactingFinite, InFlightIs, LimitsAssumption
            DEF Typed, BreakerInv, BreakerStep
  <2>3. CASE OtherCompacts(o)
    BY <2>3, StartingKeeps DEF OtherCompacts
  <2>4. CASE OtherCompactionSucceeds(o) \/ OtherCompactionFails(o)
    <3>1. InFlight' = InFlight - 1
      BY <2>1, <2>4, OneLess DEF OtherCompactionSucceeds, OtherCompactionFails
    <3> QED BY <2>4, <3>1, EndingKeeps DEF OtherCompactionSucceeds, OtherCompactionFails
  <2> QED BY <1>12, <2>2, <2>3, <2>4 DEF OtherStep
<1> QED BY <1>2, <1>3, <1>4, <1>5, <1>6, <1>7, <1>8, <1>9, <1>10, <1>11, <1>12
        DEF Next, LoopStep

\* A prompt in progress has neither completed nor thrown.
LEMMA CompleteKept == Typed /\ CompleteOnce /\ [Next]_vars => CompleteOnce'
<1> SUFFICES ASSUME Typed, CompleteOnce, [Next]_vars PROVE CompleteOnce'
  OBVIOUS
<1> USE LimitsAssumption DEF session, CompleteOnce
<1>1. ASSUME pc # "idle", pc' # "idle", UNCHANGED <<completes, thrown>> PROVE CompleteOnce'
  BY <1>1
<1>2. ASSUME pc # "idle", NEW answered \in BOOLEAN, Complete(answered), UNCHANGED <<thrown, prompts>>
      PROVE  CompleteOnce'
  <2>1. thrown = FALSE /\ completes = 0 /\ prompts > 0
    BY <1>2 DEF Typed
  <2> QED BY <1>2, <2>1 DEF Complete
<1>3. CASE Prompt
  BY <1>3 DEF Prompt
<1>4. CASE StopLoop \/ ModelThrows \/ ModelAnswers
  BY <1>2, <1>4 DEF StopLoop, ModelThrows, ModelAnswers
<1>5. CASE HookThrows
  <2>1. thrown = FALSE /\ completes = 0 /\ prompts > 0
    BY <1>5 DEF Typed, HookThrows
  <2> QED BY <1>5, <2>1 DEF HookThrows
<1>6. CASE StartTurn \/ StartCompaction \/ CompactionSucceeds \/ CompactionFails
  BY <1>1, <1>6 DEF StartTurn, StartCompaction, CompactionSucceeds, CompactionFails
<1>7. ASSUME NEW n \in 0 .. MaxBlocks, ModelCallsTools(n) PROVE CompleteOnce'
  BY <1>1, <1>7 DEF ModelCallsTools
<1>8. CASE RejectCall \/ Deny \/ Execute
  BY <1>1, <1>8 DEF RejectCall, Deny, Execute, Answer
<1>9. ASSUME NEW t \in Tools, AskApproval(t) \/ Permit(t) PROVE CompleteOnce'
  BY <1>1, <1>9 DEF AskApproval, Permit
<1>10. CASE Approve \/ EndTurn
  BY <1>1, <1>10 DEF Approve, EndTurn
<1>11. CASE Abort \/ UNCHANGED vars
  BY <1>11 DEF Abort, vars
<1>12. ASSUME NEW o \in Others, OtherStep(o) PROVE CompleteOnce'
  BY <1>12, OtherLeaves DEF own
<1> QED BY <1>3, <1>4, <1>5, <1>6, <1>7, <1>8, <1>9, <1>10, <1>11, <1>12 DEF Next, LoopStep

LEMMA Initially == Init => IInv
<1> SUFFICES ASSUME Init PROVE IInv
  OBVIOUS
<1> USE LimitsAssumption DEF Init
<1>0. <<>> \in Seq(Roles) /\ <<>> \in Seq(Messages) /\ <<>> \in Seq(CallIds)
  BY EmptySeq
<1>1. Typed
  <2>1. disabled \in BOOLEAN /\ aborted \in BOOLEAN /\ thrown \in BOOLEAN
    OBVIOUS
  <2>2. prompts \in 0 .. MaxPrompts /\ turn \in 0 .. MaxTurns /\ failures \in Nat /\ completes \in Nat
    OBVIOUS
  <2>3. pc = "idle" /\ granted = {} /\ ran = {} /\ tool = NoTool
    OBVIOUS
  <2>4. convo = <<>> /\ hist = <<>> /\ todo = <<>> /\ results = <<>>
    OBVIOUS
  <2>5. beside \in [Others -> {"new", "turn", "compact", "over"}]
    OBVIOUS
  <2> HIDE DEF Init
  <2> QED BY <1>0, <2>1, <2>2, <2>3, <2>4, <2>5 DEF Typed, InTurn, Running
<1>2. Gated /\ GatedExecution
  BY DEF Gated, GatedExecution
<1>3. HistoryInv
  BY DEF HistoryInv, Calling
<1>4. BreakerInv
  <2>1. Compacting = {}
    BY DEF Compacting
  <2>2. InFlight = 0
    BY <2>1, InFlightIs, FS_EmptySet
  <2> QED BY <2>2, CompactingFinite DEF BreakerInv
<1>5. CompleteOnce
  BY DEF CompleteOnce
<1> QED BY <1>1, <1>2, <1>3, <1>4, <1>5 DEF IInv

LEMMA Inductive == IInv /\ [Next]_vars => IInv'
BY TypedKept, GatedKept, HistoryKept, BreakerKept, CompleteKept DEF IInv

LEMMA Always == Spec => []IInv
BY Initially, Inductive, PTL DEF Spec

-----------------------------------------------------------------------------
(* The properties. *)

\* Types, and one complete event or one exception for each prompt.
THEOREM LoopIsSound == Spec => []LoopSound
<1>1. ASSUME Typed PROVE TypeOK
  <2>1. \A i \in 1 .. Len(hist) : hist[i].role \in Roles /\ IdSeq(hist[i].ids)
    <3> SUFFICES ASSUME NEW i \in 1 .. Len(hist) PROVE hist[i].role \in Roles /\ IdSeq(hist[i].ids)
      OBVIOUS
    <3>1. hist[i] \in Messages
      BY <1>1, ElementOfSeq DEF Typed
    <3> QED BY <3>1, ElementOfSeq DEF Messages, IdSeq
  <2>2. IdSeq(todo) /\ IdSeq(results)
    BY <1>1, ElementOfSeq DEF Typed, IdSeq
  <2> QED BY <1>1, <2>1, <2>2 DEF Typed, TypeOK, Running
<1>2. IInv => LoopSound
  BY <1>1 DEF IInv, LoopSound
<1> QED BY <1>2, Always, PTL

\* No tool runs above the session's level or, if it asks, without an approval of that call.
THEOREM GateHolds == Spec => []GatedExecution
<1>1. IInv => GatedExecution
  BY DEF IInv
<1> QED BY <1>1, Always, PTL

\* Every request answers each of its tool calls in the message after it, in order, and
\* nothing else, whatever was rejected, denied or compacted away before.
THEOREM RequestsAnswered == Spec => []RequestsWellFormed
<1>1. ASSUME IInv PROVE RequestsWellFormed
  <2> SUFFICES ASSUME pc = "call"
               PROVE  /\ hist # <<>> /\ Last(hist).role = "user"
                      /\ \A i \in 1 .. Len(hist) : hist[i].ids # <<>> =>
                           IF hist[i].role = "assistant"
                           THEN i < Len(hist) /\ hist[i + 1] = Message("user", hist[i].ids)
                           ELSE i > 1 /\ hist[i - 1] = Message("assistant", hist[i].ids)
    BY DEF RequestsWellFormed
  <2>1. Answered(hist)
    BY <1>1 DEF IInv, HistoryInv
  <2>2. Last(hist).role = "user" /\ hist # <<>>
    BY <2>1 DEF Answered, Last
  <2> QED BY <2>1, <2>2 DEF Answered, AnsweredAt
<1>2. IInv => RequestsWellFormed
  BY <1>1
<1> QED BY <1>2, Always, PTL

\* The breaker opens with the failure that fills the row and stays open: no turn starts a
\* compaction then, and those under way in overlapping turns are all that still end.
THEOREM BreakerStaysOpen == Spec => BreakerHolds
<1>1. IInv /\ [Next]_vars =>
        [/\ ~disabled => (disabled' <=> failures' >= MaxFailures)
         /\ disabled => disabled' /\ InFlight' <= InFlight
         /\ failures' + InFlight' <= MaxFailures + Cardinality(Others)]_vars
  BY BreakerKept DEF IInv, BreakerStep
<1> QED BY <1>1, Always, PTL DEF Spec, BreakerHolds

-----------------------------------------------------------------------------
(* The MCP client. *)

(* Lines and chunks. *)

\* A finite set of integers has a greatest element: the elements above some x of S form a
\* family of finite sets, and the x of a minimal one has none above it.
LEMMA GreatestExists ==
  ASSUME NEW S \in SUBSET Int, IsFiniteSet(S), S # {}
  PROVE  \E x \in S : \A y \in S : x >= y
<1> DEFINE Above(x) == {y \in S : y > x}
           Family == {Above(x) : x \in S}
           R == StrictSubsetOrdering(S)
<1>1. FiniteSubsetsOf(S) = SUBSET S
  BY FS_FiniteSubsetsOfFinite
<1>2. IsWellFoundedOn(R, FiniteSubsetsOf(S))
  BY FS_StrictSubsetOrderingWellFounded
<1>3. Family \subseteq FiniteSubsetsOf(S) /\ Family # {}
  <2>1. \A x \in S : Above(x) \in SUBSET S
    OBVIOUS
  <2> HIDE DEF Above
  <2>2. Family \subseteq SUBSET S
    BY <2>1
  <2>3. Family # {}
    OBVIOUS
  <2> QED BY <1>1, <2>2, <2>3
<1>4. PICK U \in Family : \A V \in Family : ~(<<V, U>> \in R)
  <2> HIDE DEF R, Family
  <2> QED BY <1>2, <1>3, WFMin
<1>5. PICK x \in S : U = Above(x)
  BY <1>4
<1>6. ASSUME NEW y \in S, y > x PROVE FALSE
  <2>0. Above(y) \in Family
    OBVIOUS
  <2>1. Above(y) \subseteq U /\ y \in U /\ y \notin Above(y)
    <3>1. \A z \in S : z > y => z > x
      BY <1>6
    <3>2. ~(y > y)
      OBVIOUS
    <3> QED BY <1>5, <1>6, <3>1, <3>2
  <2>2. Above(y) # U /\ Above(y) \subseteq S /\ U \subseteq S
    BY <2>1, <1>5
  <2> HIDE DEF Above, Family
  <2>3. <<Above(y), U>> \in R
    BY <2>1, <2>2 DEF StrictSubsetOrdering
  <2> HIDE DEF R
  <2> QED BY <2>0, <2>3, <1>4
<1> QED BY <1>6

LEMMA MaxIs ==
  ASSUME NEW S \in SUBSET Int, IsFiniteSet(S), S # {}
  PROVE  Max(S) \in S /\ \A y \in S : Max(S) >= y
BY GreatestExists DEF Max

\* What is kept of a chunk is its end, after the last newline.
LEMMA RestIs ==
  ASSUME NEW s \in Seq(Cell)
  PROVE  /\ Rest(s) \in Seq(Cell) /\ Len(Rest(s)) <= Len(s)
         /\ \A i \in 1 .. Len(Rest(s)) : ~Rest(s)[i].last
<1> DEFINE N == {0} \cup Newlines(s)
           m == Max(N)
<1>0. Len(s) \in Nat
  BY LenProperties
<1>1. N \subseteq 0 .. Len(s)
  BY <1>0 DEF Newlines
<1>2. IsFiniteSet(N)
  <2>1. IsFiniteSet(0 .. Len(s))
    BY <1>0, FS_Interval
  <2> QED BY <1>1, <2>1, FS_Subset
<1>3. m \in N /\ \A y \in N : m >= y
  <2>1. N \in SUBSET Int /\ N # {}
    BY <1>0, <1>1
  <2> QED BY <1>2, <2>1, MaxIs
<1>4. m \in 0 .. Len(s) /\ \A y \in Newlines(s) : m >= y
  BY <1>1, <1>3
<1>5. Rest(s) = SubSeq(s, m + 1, Len(s))
  BY DEF Rest
<1> HIDE DEF m, N
<1>6. \A i \in m + 1 .. Len(s) : s[i] \in Cell /\ i \in 1 .. Len(s) /\ ~s[i].last
  BY <1>0, <1>4, ElementOfSeq DEF Newlines
<1>7. /\ SubSeq(s, m + 1, Len(s)) \in Seq(Cell)
      /\ Len(SubSeq(s, m + 1, Len(s))) = IF m + 1 <= Len(s) THEN Len(s) - (m + 1) + 1 ELSE 0
      /\ \A i \in 1 .. Len(s) - (m + 1) + 1 : SubSeq(s, m + 1, Len(s))[i] = s[(m + 1) + i - 1]
  <2>1. m + 1 \in Int /\ Len(s) \in Int
    BY <1>0, <1>4
  <2> QED BY <1>6, <2>1, SubSeqProperties
<1>8. Len(Rest(s)) <= Len(s)
  BY <1>0, <1>4, <1>5, <1>7
<1>9. ASSUME NEW i \in 1 .. Len(Rest(s)) PROVE ~Rest(s)[i].last
  <2>1. i \in 1 .. Len(s) - (m + 1) + 1
    BY <1>0, <1>4, <1>5, <1>7, <1>9
  <2>2. (m + 1) + i - 1 \in m + 1 .. Len(s)
    BY <1>0, <1>4, <2>1
  <2>3. Rest(s)[i] = s[(m + 1) + i - 1]
    BY <1>5, <1>7, <2>1
  <2> QED BY <1>6, <2>2, <2>3
<1> QED BY <1>5, <1>7, <1>8, <1>9

\* A cut of the pipe.
LEMMA CutIs ==
  ASSUME NEW s \in Seq(Cell), NEW n \in Nat, n <= Len(s)
  PROVE  SubSeq(s, 1, n) \in Seq(Cell) /\ SubSeq(s, n + 1, Len(s)) \in Seq(Cell)
<1>1. Len(s) \in Nat
  BY LenProperties
<1>2. \A i \in 1 .. Len(s) : s[i] \in Cell
  BY ElementOfSeq
<1>3. SubSeq(s, 1, n) \in Seq(Cell)
  BY <1>1, <1>2, SubSeqProperties
<1>4. SubSeq(s, n + 1, Len(s)) \in Seq(Cell)
  <2>1. n + 1 \in Int /\ \A i \in n + 1 .. Len(s) : s[i] \in Cell
    BY <1>1, <1>2
  <2> QED BY <1>1, <2>1, SubSeqProperties
<1> QED BY <1>3, <1>4

-----------------------------------------------------------------------------
(* The table of requests. *)

Outcome == {"unsent", "pending", "answered", "failed"}

\* What every step does to the table but Request: it settles pending requests.
Settles ==
  /\ req' \in [ReqIds -> Outcome]
  /\ \A id \in ReqIds : req'[id] = req[id] \/ (req[id] = "pending" /\ Settled(id)')

LEMMA PendingFinite == IsFiniteSet(Pending)
<1>1. IsFiniteSet(ReqIds)
  <2>1. 1 \in Int /\ MaxRequests \in Int
    BY ClientLimits
  <2> QED BY <2>1, FS_Interval DEF ReqIds
<1>2. Pending \subseteq ReqIds
  BY DEF Pending
<1> QED BY <1>1, <1>2, FS_Subset

LEMMA PendingFiniteNext == IsFiniteSet(Pending)'
BY PendingFinite, PTL

LEMMA FailAllSettles ==
  ASSUME ClientTypeOK, req' = FailAll
  PROVE  Settles
BY DEF FailAll, Settles, Pending, Settled, ClientTypeOK, Outcome

\* Settling leaves the table typed and no fuller.
LEMMA SettlesKeeps ==
  ASSUME ClientTypeOK, StateBounded, Settles, nextId' = nextId
  PROVE  /\ \A id \in ReqIds : req'[id] = "unsent" <=> id >= nextId'
         /\ Cardinality(Pending)' <= MaxPending
         /\ \A id \in ReqIds : Settled(id) => req'[id] = req[id]
<1>1. \A id \in ReqIds : req'[id] = "unsent" <=> id >= nextId'
  BY DEF Settles, ClientTypeOK, Settled
<1>2. Pending' \subseteq Pending
  BY DEF Pending, Settles, Settled
<1>3. Cardinality(Pending') <= Cardinality(Pending) /\ Cardinality(Pending) \in Nat
      /\ Cardinality(Pending') \in Nat
  BY <1>2, PendingFinite, FS_Subset, FS_CardinalityType
<1>4. Cardinality(Pending') <= MaxPending
  BY <1>3, ClientLimits DEF StateBounded
<1>5. \A id \in ReqIds : Settled(id) => req'[id] = req[id]
  BY DEF Settles, Settled
<1> QED BY <1>1, <1>4, <1>5

\* A new request takes the next id and a free place.
LEMMA RequestKeeps ==
  ASSUME ClientTypeOK, Request
  PROVE  /\ nextId' \in 1 .. MaxRequests + 1 /\ req' \in [ReqIds -> Outcome]
         /\ nextId \in ReqIds
         /\ \A id \in ReqIds : req'[id] = "unsent" <=> id >= nextId'
         /\ sent' \subseteq ReqIds
         /\ Cardinality(Pending)' <= MaxPending
         /\ \A id \in ReqIds : Settled(id) => req'[id] = req[id]
<1> USE ClientLimits DEF ReqIds
<1>1. nextId \in ReqIds /\ nextId' = nextId + 1 /\ req' = [req EXCEPT ![nextId] = "pending"]
  BY DEF Request, CanRequest, ClientTypeOK
<1>2. req[nextId] = "unsent"
  BY <1>1 DEF ClientTypeOK
<1>3. req' \in [ReqIds -> Outcome] /\ nextId' \in 1 .. MaxRequests + 1
  BY <1>1 DEF ClientTypeOK, Outcome
<1>4. req'[nextId] = "pending" /\ \A id \in ReqIds : id # nextId => req'[id] = req[id]
  BY <1>1 DEF ClientTypeOK
<1>5. \A id \in ReqIds : req'[id] = "unsent" <=> id >= nextId'
  BY <1>1, <1>4 DEF ClientTypeOK
<1>6. sent' \subseteq ReqIds
  BY <1>1 DEF Request, ClientTypeOK
<1>7. Pending' = Pending \cup {nextId} /\ nextId \notin Pending
  BY <1>1, <1>2, <1>4 DEF Pending
<1>8. Cardinality(Pending') = Cardinality(Pending) + 1 /\ Cardinality(Pending) \in Nat
  BY <1>7, PendingFinite, FS_AddElement, FS_CardinalityType
<1>9. Cardinality(Pending') <= MaxPending
  BY <1>8 DEF Request, CanRequest
<1>10. \A id \in ReqIds : Settled(id) => req'[id] = req[id]
  BY <1>2, <1>4 DEF Settled
<1> QED BY <1>1, <1>3, <1>5, <1>6, <1>9, <1>10

\* A chunk: what is kept of the line, and who is answered.
LEMMA DeliverKeeps ==
  ASSUME ClientSound, NEW n \in 1 .. MaxPipe, Deliver(n)
  PROVE  /\ pipe' \in Seq(Cell) /\ buffer' \in Seq(Cell) /\ refused' \in BOOLEAN
         /\ Len(buffer') <= MaxLine /\ BufferIsPartial'
         /\ Settles
<1> DEFINE chunk == SubSeq(pipe, 1, n)
           all == buffer \o chunk
<1> USE ClientLimits DEF ClientSound
<1>1. n \in Nat /\ n <= Len(pipe) /\ pipe \in Seq(Cell) /\ buffer \in Seq(Cell)
  BY DEF Deliver, ClientTypeOK
<1>2. chunk \in Seq(Cell) /\ pipe' \in Seq(Cell)
  BY <1>1, CutIs DEF Deliver
<1>3. all \in Seq(Cell) /\ Len(all) \in Nat
  BY <1>1, <1>2, ConcatProperties, LenProperties
<1>4. CASE Len(all) > MaxLine
  <2>1. buffer' = <<>> /\ refused' = TRUE /\ req' = FailAll
    BY <1>4 DEF Deliver
  <2>2. Len(<<>>) = 0 /\ <<>> \in Seq(Cell)
    BY EmptySeq
  <2> QED BY <1>2, <2>1, <2>2, FailAllSettles DEF BufferIsPartial
<1>5. CASE ~(Len(all) > MaxLine)
  <2> HIDE DEF all
  <2>1. /\ buffer' = Rest(all) /\ refused' = refused
        /\ req' = [id \in ReqIds |-> IF id \in Answers(all) THEN "answered" ELSE req[id]]
    BY <1>5 DEF Deliver, all
  <2>2. /\ Rest(all) \in Seq(Cell) /\ Len(Rest(all)) <= Len(all)
        /\ \A i \in 1 .. Len(Rest(all)) : ~Rest(all)[i].last
    BY <1>3, RestIs
  <2>3. Len(Rest(all)) <= MaxLine
    <3>1. Len(Rest(all)) \in Nat
      BY <2>2, LenProperties
    <3> QED BY <1>3, <1>5, <2>2, <3>1
  <2>4. Answers(all) \subseteq Pending
    BY DEF Answers
  <2>5. Settles
    <3>1. req' \in [ReqIds -> Outcome]
      BY <2>1 DEF ClientTypeOK, Outcome
    <3>2. ASSUME NEW id \in ReqIds
          PROVE  req'[id] = req[id] \/ (req[id] = "pending" /\ Settled(id)')
      <4>1. CASE id \in Answers(all)
        <5>1. req'[id] = "answered"
          BY <2>1, <4>1
        <5>2. req[id] = "pending"
          BY <2>4, <4>1 DEF Pending
        <5> QED BY <5>1, <5>2 DEF Settled
      <4>2. CASE id \notin Answers(all)
        BY <2>1, <4>2
      <4> QED BY <4>1, <4>2
    <3> QED BY <3>1, <3>2 DEF Settles
  <2>6. refused' \in BOOLEAN
    BY <2>1 DEF ClientTypeOK
  <2> QED BY <1>2, <2>1, <2>2, <2>3, <2>5, <2>6 DEF BufferIsPartial
<1> QED BY <1>4, <1>5

\* A reply adds cells to the pipe.
LEMMA ReplyTyped ==
  ASSUME ClientTypeOK, NEW id \in ReqIds, NEW n \in ReplyLengths, ServerReplies(id, n)
  PROVE  pipe' \in Seq(Cell)
<1> DEFINE line == [k \in 1 .. n |-> [id |-> id, first |-> k = 1, last |-> k = n]]
<1>1. n \in Nat
  BY ClientLimits
<1>2. \A k \in 1 .. n : [id |-> id, first |-> k = 1, last |-> k = n] \in Cell
  BY DEF Cell
<1>3. line \in [1 .. n -> Cell]
  BY <1>2
<1> HIDE DEF line
<1>4. line \in Seq(Cell)
  BY <1>1, <1>3
<1> QED BY <1>4, ConcatProperties DEF ServerReplies, ClientTypeOK, line

-----------------------------------------------------------------------------
(* The steps: the invariant, and what the caller has seen. *)

Seen == \A id \in ReqIds : Settled(id) => req'[id] = req[id]

\* A step that only settles requests and moves the connection on.
LEMMA LifecycleKeeps ==
  ASSUME ClientSound, Settles,
         conn' \in {"new", "initialize", "list", "ready", "failed", "closing", "closed"},
         proc' \in {"none", "running", "gone"}, handle' \in BOOLEAN, sent' \subseteq ReqIds,
         UNCHANGED <<nextId, pipe, buffer, refused, shut>>
  PROVE  ClientSound' /\ Seen
<1> USE DEF ClientSound
<1>1. /\ \A id \in ReqIds : req'[id] = "unsent" <=> id >= nextId'
      /\ Cardinality(Pending)' <= MaxPending
      /\ Seen
  BY SettlesKeeps DEF Seen
<1>2. ClientTypeOK'
  BY <1>1 DEF ClientTypeOK, Settles, Outcome
<1>3. StateBounded' /\ BufferIsPartial'
  BY <1>1 DEF StateBounded, BufferIsPartial
<1> QED BY <1>1, <1>2, <1>3

\* A step that sends a request.
LEMMA SendKeeps ==
  ASSUME ClientSound, Request,
         conn' \in {"new", "initialize", "list", "ready", "failed", "closing", "closed"},
         proc' \in {"none", "running", "gone"}, handle' \in BOOLEAN, shut' \in {shut, nextId},
         UNCHANGED <<pipe, buffer, refused>>
  PROVE  ClientSound' /\ Seen
<1> USE DEF ClientSound
<1>1. /\ nextId' \in 1 .. MaxRequests + 1 /\ req' \in [ReqIds -> Outcome]
      /\ nextId \in ReqIds
      /\ \A id \in ReqIds : req'[id] = "unsent" <=> id >= nextId'
      /\ sent' \subseteq ReqIds
      /\ Cardinality(Pending)' <= MaxPending
      /\ Seen
  BY RequestKeeps DEF Seen
<1>2. shut' \in 0 .. MaxRequests
  BY <1>1, ClientLimits DEF ClientTypeOK, ReqIds
<1>3. ClientTypeOK'
  BY <1>1, <1>2 DEF ClientTypeOK, Outcome
<1>4. StateBounded' /\ BufferIsPartial'
  BY <1>1 DEF StateBounded, BufferIsPartial
<1> QED BY <1>1, <1>3, <1>4

LEMMA ClientStep == ClientSound /\ [ClientNext]_clientVars => ClientSound' /\ Seen
<1> SUFFICES ASSUME ClientSound, [ClientNext]_clientVars PROVE ClientSound' /\ Seen
  OBVIOUS
<1> DEFINE Kept == ClientSound' /\ Seen
<1>0. ClientTypeOK
  BY DEF ClientSound
<1>a. ASSUME req' = req PROVE Settles
  BY <1>0, <1>a DEF Settles, ClientTypeOK, Outcome
<1>1. CASE Connect \/ ListTools \/ Call
  BY <1>0, <1>1, SendKeeps DEF Connect, ListTools, Call, ClientTypeOK
<1>2. CASE Connected \/ ConnectFails
  BY <1>0, <1>2, <1>a, LifecycleKeeps DEF Connected, ConnectFails, ClientTypeOK
<1>3. CASE AskShutdown
  BY <1>0, <1>3, SendKeeps DEF AskShutdown, ClientTypeOK
<1>4. CASE SkipShutdown \/ FinishDisconnect
  BY <1>0, <1>4, FailAllSettles, LifecycleKeeps DEF SkipShutdown, FinishDisconnect, Close, ClientTypeOK
<1>5. ASSUME NEW id \in ReqIds, Timeout(id) PROVE Kept
  <2>1. Settles
    BY <1>0, <1>5 DEF Timeout, Settles, Settled, Pending, ClientTypeOK, Outcome
  <2> QED BY <1>0, <1>5, <2>1, LifecycleKeeps DEF Timeout, ClientTypeOK
<1>6. ASSUME NEW id \in ReqIds, NEW n \in ReplyLengths, ServerReplies(id, n) PROVE Kept
  <2>1. pipe' \in Seq(Cell)
    BY <1>0, <1>6, ReplyTyped
  <2>2. sent' \subseteq ReqIds
    BY <1>0, <1>6 DEF ServerReplies, ClientTypeOK
  <2>3. UNCHANGED <<conn, proc, handle, nextId, req, buffer, refused, shut>>
    BY <1>6 DEF ServerReplies
  <2>4. ClientTypeOK'
    BY <1>0, <2>1, <2>2, <2>3 DEF ClientTypeOK
  <2>5. StateBounded' /\ BufferIsPartial'
    BY <2>3 DEF ClientSound, StateBounded, BufferIsPartial, Pending
  <2> QED BY <2>3, <2>4, <2>5 DEF ClientSound, Seen
<1>7. CASE ChildExits \/ ChildErrors
  BY <1>0, <1>7, FailAllSettles, LifecycleKeeps DEF ChildExits, ChildErrors, ClientTypeOK
<1>8. ASSUME NEW n \in 1 .. MaxPipe, Deliver(n) PROVE Kept
  <2>1. /\ pipe' \in Seq(Cell) /\ buffer' \in Seq(Cell) /\ refused' \in BOOLEAN
        /\ Len(buffer') <= MaxLine /\ BufferIsPartial'
        /\ Settles
    BY <1>8, DeliverKeeps
  <2>2. UNCHANGED <<conn, proc, handle, nextId, sent, shut>>
    BY <1>8 DEF Deliver
  <2>3. /\ \A id \in ReqIds : req'[id] = "unsent" <=> id >= nextId'
        /\ Cardinality(Pending)' <= MaxPending
        /\ Seen
    BY <2>1, <2>2, SettlesKeeps DEF ClientSound, Seen
  <2>4. ClientTypeOK'
    BY <1>0, <2>1, <2>2, <2>3 DEF ClientTypeOK, Settles, Outcome
  <2> QED BY <2>1, <2>3, <2>4 DEF ClientSound, StateBounded
<1>9. CASE UNCHANGED clientVars
  BY <1>9 DEF clientVars, ClientSound, ClientTypeOK, StateBounded, BufferIsPartial, Pending, Seen
<1> QED BY <1>1, <1>2, <1>3, <1>4, <1>5, <1>6, <1>7, <1>8, <1>9 DEF ClientNext

LEMMA ClientInitially == ClientInit => ClientSound
<1> SUFFICES ASSUME ClientInit PROVE ClientSound
  OBVIOUS
<1>0. handle \in BOOLEAN /\ refused \in BOOLEAN
  BY DEF ClientInit
<1> USE ClientLimits DEF ClientInit
<1>1. pipe \in Seq(Cell) /\ buffer \in Seq(Cell) /\ Len(buffer) = 0
  BY EmptySeq
<1>2. \A id \in ReqIds : req[id] = "unsent" /\ id >= nextId
  BY DEF ReqIds
<1>3. ClientTypeOK
  BY <1>0, <1>1, <1>2 DEF ClientTypeOK
<1>4. Pending = {}
  BY <1>2 DEF Pending
<1>5. StateBounded /\ BufferIsPartial
  BY <1>1, <1>4, FS_EmptySet DEF StateBounded, BufferIsPartial
<1> QED BY <1>3, <1>5 DEF ClientSound

\* The table and the partial line keep to their limits and no reply is left in the buffer,
\* whatever the server writes, however it is cut, and whenever timers, exit and disconnect come.
THEOREM ClientIsSound == ClientSpec => []ClientSound
BY ClientInitially, ClientStep, PTL DEF ClientSpec

\* The outcome a caller has seen is never changed.
THEOREM SettledForGood == ClientSpec => SettledOnce
<1>1. ClientSound /\ [ClientNext]_clientVars => [\A id \in ReqIds : Settled(id) => req'[id] = req[id]]_clientVars
  BY ClientStep DEF Seen
<1> QED BY <1>1, ClientIsSound, PTL DEF ClientSpec, SettledOnce
=============================================================================
