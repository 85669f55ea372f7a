------------------------------- MODULE Gateway -------------------------------
(***************************************************************************)
(* packages/openclaw: GatewayServer takes a message of an authenticated     *)
(* sender through the RateLimiter and the sender list to CoworkGateway,     *)
(* which appends it to the sender's chat history and asks the agent loop;   *)
(* the reply goes to the history, the sender's outbox and the caller.       *)
(* Histories and outboxes are arrays held by reference in BoundedMaps and   *)
(* changed in place: a request keeps its history array across the model     *)
(* call, while other requests of the sender, evictions and expiry go on.    *)
(*                                                                          *)
(* An array is named by the request that created it.                        *)
(***************************************************************************)
EXTENDS Integers, Sequences, FiniteSets, BoundedMap, TLC

CONSTANTS
  Senders,         \* authenticated identities
  Allowed,         \* those allowedSenders lets in
  MaxRequests,     \* bound: messages accepted
  MaxTime,         \* bound: the clock
  Window,          \* the rate limiter's minute
  MaxPerWindow,    \* rateLimitPerMinute
  MaxSessions, MaxPrincipals, MaxStateBytes, SessionTtl, OutboxTtl,
  MaxMessages,     \* 2 * historyTurns
  MaxOutbox,       \* MAX_OUTBOX_MESSAGES
  ReplySizes       \* sizes of replies, a prompt counting 1

ASSUME SendersAssumption == Allowed \subseteq Senders /\ ReplySizes \subseteq Nat \ {0}
ASSUME LimitsAssumption ==
  /\ {MaxRequests, MaxTime, MaxPerWindow, SessionTtl, OutboxTtl} \subseteq Nat
  /\ {Window, MaxSessions, MaxPrincipals, MaxStateBytes, MaxMessages, MaxOutbox} \subseteq Nat \ {0}

VARIABLES
  now,
  windows,    \* RateLimiter.windows: times of the recent requests of a sender
  sessions,   \* CoworkGateway.userSessions
  history,    \* history[r]: contents of the history array created by request r
  outboxes,   \* GatewayServer.outboxes
  outbox,     \* outbox[r]: contents of the outbox array created by request r
  request     \* request[r]: the handler of the r-th accepted message

vars == <<now, windows, sessions, history, outboxes, outbox, request>>

Requests == 1 .. MaxRequests
SessionMap == [maxEntries |-> MaxSessions, maxBytes |-> MaxStateBytes, ttl |-> SessionTtl]
OutboxMap == [maxEntries |-> MaxPrincipals, maxBytes |-> MaxStateBytes, ttl |-> OutboxTtl]

Init ==
  /\ now = 0
  /\ windows = [s \in Senders |-> <<>>]
  /\ sessions = Empty
  /\ history = [r \in Requests |-> <<>>]
  /\ outboxes = Empty
  /\ outbox = [r \in Requests |-> <<>>]
  /\ request = <<>>

\* splice(0, length - n)
LastN(s, n) == IF Len(s) <= n THEN s ELSE SubSeq(s, Len(s) - n + 1, Len(s))

\* estimateHistory and estimateOutbox: a fixed part and the messages
Weight(messages) == 1 + SumOf([i \in DOMAIN messages |-> messages[i].size])

\* maybePrune() sweeps when its interval is over
MaybePruned(m) == {m, PruneExpired(m, now)}

Tick ==
  /\ now < MaxTime
  /\ now' = now + 1
  /\ UNCHANGED <<windows, sessions, history, outboxes, outbox, request>>

-----------------------------------------------------------------------------
(* A message arrives: everything up to the agent loop's first await.        *)

\* Mutant: the window is cut short by one.
RecentCutShort(s) == At(windows[s], {i \in DOMAIN windows[s] : windows[s][i] > now - Window + 1})

Recent(s) == At(windows[s], {i \in DOMAIN windows[s] : windows[s][i] > now - Window})

Admits(s) == Len(Recent(s)) < MaxPerWindow

\* rate limit exceeded
Refuse(s) ==
  /\ ~Admits(s)
  /\ windows' = [windows EXCEPT ![s] = Recent(s)]
  /\ UNCHANGED <<now, sessions, history, outboxes, outbox, request>>

\* counted by the rate limiter, then not on the list
Forbid(s) ==
  /\ Admits(s) /\ s \notin Allowed
  /\ windows' = [windows EXCEPT ![s] = Append(Recent(s), now)]
  /\ UNCHANGED <<now, sessions, history, outboxes, outbox, request>>

\* the session's array, or a new one
HistoryFor(s, r) ==
  IF Has(sessions, s, now) THEN EntryOf(sessions, s).value ELSE r

Accept(s) ==
  LET r == Len(request) + 1
      h == HistoryFor(s, r)
  IN /\ Admits(s) /\ s \in Allowed /\ r \in Requests
     /\ windows' = [windows EXCEPT ![s] = Append(Recent(s), now)]
     /\ history' = [history EXCEPT ![h] =
          LastN(Append(@, [role |-> "user", of |-> r, size |-> 1]), MaxMessages)]
     /\ \E m \in MaybePruned(Get(sessions, s, now)) :
          sessions' = Set(m, s, h, Weight(history'[h]), now, SessionMap)
     /\ request' = Append(request, [from |-> s, at |-> now, history |-> h, state |-> "asking"])
     /\ UNCHANGED <<now, outboxes, outbox>>

-----------------------------------------------------------------------------
(* The agent loop ends.                                                     *)

\* respondTo(): the reply is added to the outbox and returned
Respond(r, size) ==
  LET s == request[r].from
      b == IF Has(outboxes, s, now) THEN EntryOf(outboxes, s).value ELSE r
  IN /\ outbox' = [outbox EXCEPT ![b] = LastN(Append(@, [of |-> r, size |-> size]), MaxOutbox)]
     /\ \E m \in MaybePruned(Get(outboxes, s, now)) :
          outboxes' = Set(m, s, b, Weight(outbox'[b]), now, OutboxMap)
     /\ request' = [request EXCEPT ![r].state = "answered"]

\* Mutant: a reply is stored under the sender of the latest message.
SessionOfLatest(r) == request[Len(request)].from

SessionOf(r) == request[r].from

Reply(r, size) ==
  LET h == request[r].history
  IN /\ request[r].state = "asking"
     /\ history' = [history EXCEPT ![h] = Append(@, [role |-> "assistant", of |-> r, size |-> size])]
     /\ \E m \in MaybePruned(sessions) :
          sessions' = Set(m, SessionOf(r), h, Weight(history'[h]), now, SessionMap)
     /\ Respond(r, size)
     /\ UNCHANGED <<now, windows>>

\* no provider, or the loop threw: the error text is the reply, the prompt stays in the
\* history
Fail(r) ==
  /\ request[r].state = "asking"
  /\ Respond(r, 1)
  /\ UNCHANGED <<now, windows, sessions, history>>

\* GET /outbox by a sender on the list
ReadOutbox(s) ==
  /\ s \in Allowed
  /\ outboxes' = Get(outboxes, s, now)
  /\ UNCHANGED <<now, windows, sessions, history, outbox, request>>

Next ==
  \/ Tick
  \/ \E s \in Senders : Refuse(s) \/ Forbid(s) \/ Accept(s) \/ ReadOutbox(s)
  \/ \E r \in DOMAIN request : Fail(r) \/ \E size \in ReplySizes : Reply(r, size)

Spec == Init /\ [][Next]_vars

\* senders on the list may be exchanged for one another
Interchangeable == Permutations(Allowed)

-----------------------------------------------------------------------------
\* Sessions and outboxes stay within their limits and the byte totals stay exact,
\* through replaced, expired, evicted and refused entries.
StateBounded == WithinBounds(sessions, SessionMap) /\ WithinBounds(outboxes, OutboxMap)

\* A sender's history and outbox only ever hold what was said by and to that sender:
\* also when a reply arrives after the session expired, was evicted or was started anew.
PrivateState ==
  /\ \A i \in DOMAIN sessions.data : \A j \in DOMAIN history[sessions.data[i].value] :
       request[history[sessions.data[i].value][j].of].from = sessions.data[i].key
  /\ \A i \in DOMAIN outboxes.data : \A j \in DOMAIN outbox[outboxes.data[i].value] :
       request[outbox[outboxes.data[i].value][j].of].from = outboxes.data[i].key

\* No sender has more than rateLimitPerMinute messages accepted in any window, wherever
\* the window starts.
RateKept ==
  \A s \in Senders, t \in 0 .. MaxTime :
    Cardinality({r \in DOMAIN request : request[r].from = s /\ request[r].at \in t - Window + 1 .. t})
      <= MaxPerWindow

\* Making room never throws out what was just written: after a message or a reply the
\* sender's session is the array the handler changed, unless that alone is too large.
WrittenIsKept ==
  [][\A r \in DOMAIN request' :
       LET h == request'[r].history
       IN (Len(history'[h]) > 0 /\ history'[h] # history[h] /\ Weight(history'[h]) <= MaxStateBytes
           /\ history'[h][Len(history'[h])].of = r)
          => \E i \in DOMAIN sessions'.data :
               sessions'.data[i].key = request'[r].from /\ sessions'.data[i].value = h]_vars

\* "so the byte ceiling is a real invariant, not a best-effort estimate": the values held
\* by the session map are within its byte limit.
ByteCeilingIsReal ==
  SumOf([i \in DOMAIN sessions.data |-> Weight(history[sessions.data[i].value])]) <= MaxStateBytes
=============================================================================
