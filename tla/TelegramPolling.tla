--------------------------- MODULE TelegramPolling ---------------------------
(***************************************************************************)
(* packages/openclaw/src/telegram/TelegramBot.ts: an interval starts polls   *)
(* whether or not earlier ones are done.  A poll asks for the updates after  *)
(* lastUpdateId, which confirms those before, and handles them in turn; the  *)
(* handler may take longer than the interval.                                *)
(***************************************************************************)
EXTENDS Integers, Sequences, FiniteSets, SequencesExt

CONSTANTS
  Updates,        \* ids of updates 1 .. n, sent by users in this order
  Welcome,        \* those of chats that are allowed
  Polls,          \* bound: polls made
  RatePerMinute   \* messages of the sender that pass within the window modelled

ASSUME TelegramAssumption ==
  Cardinality(Updates) \in Nat /\ Updates = 1 .. Cardinality(Updates) /\ RatePerMinute \in Nat

VARIABLES
  polling,        \* polling
  sentUpdates,    \* updates 1 .. sentUpdates are with Telegram
  confirmed,      \* Telegram forgets updates up to here
  lastUpdateId,
  polls,          \* polls[p]: "unused", "asking" from an offset, "over", or the updates still to be
                  \* handled
  handled,        \* history: how often an update was handled
  answered,       \* history: replies sent, by update
  allowance,      \* calls of the limiter that still pass
  overlapped      \* history: a poll was started before another was over

telegramVars ==
  <<polling, sentUpdates, confirmed, lastUpdateId, polls, handled, answered, allowance, overlapped>>

TelegramInit ==
  /\ polling = FALSE /\ sentUpdates = 0 /\ confirmed = 0 /\ lastUpdateId = 0
  /\ polls = [p \in Polls |-> [is |-> "unused", offset |-> 0, updates |-> <<>>]]
  /\ handled = [u \in Updates |-> 0]
  /\ answered = [u \in Updates |-> {}]
  /\ allowance = RatePerMinute /\ overlapped = FALSE

StartPolling ==
  /\ ~polling
  /\ polling' = TRUE
  /\ UNCHANGED <<sentUpdates, confirmed, lastUpdateId, polls, handled, answered, allowance, overlapped>>

\* polls under way go on
StopPolling ==
  /\ polling
  /\ polling' = FALSE
  /\ UNCHANGED <<sentUpdates, confirmed, lastUpdateId, polls, handled, answered, allowance, overlapped>>

UserSends ==
  /\ sentUpdates + 1 \in Updates
  /\ sentUpdates' = sentUpdates + 1
  /\ UNCHANGED <<polling, confirmed, lastUpdateId, polls, handled, answered, allowance, overlapped>>

\* Mutant: the offset confirms one update more.
OffsetBeyond == lastUpdateId + 2

Offset == lastUpdateId + 1

Going(p) == polls[p].is \notin {"unused", "over"}
Went(p, to) == polls' = [polls EXCEPT ![p] = to]

\* the interval: the offset is read when the request is made
Poll(p) ==
  /\ polling /\ polls[p].is = "unused" /\ \A q \in Polls : q < p => polls[q].is # "unused"
  /\ Went(p, [is |-> "asking", offset |-> Offset, updates |-> <<>>])
  /\ overlapped' = (overlapped \/ \E q \in Polls : Going(q))
  /\ UNCHANGED <<polling, sentUpdates, confirmed, lastUpdateId, handled, answered, allowance>>

\* the request reaches Telegram: what is before the offset is confirmed, and the rest returned;
\* or it, or the answer, is lost on the way
Reach(p) ==
  /\ polls[p].is = "asking"
  /\ LET first == IF polls[p].offset > confirmed + 1 THEN polls[p].offset ELSE confirmed + 1
         found == [i \in 1 .. sentUpdates - first + 1 |-> first + i - 1]
     IN \/ confirmed' = first - 1 /\ Went(p, [is |-> "handling", offset |-> 0, updates |-> found])
        \/ confirmed' \in {confirmed, first - 1} /\ Went(p, [is |-> "over", offset |-> 0, updates |-> <<>>])
  /\ UNCHANGED <<polling, sentUpdates, lastUpdateId, handled, answered, allowance, overlapped>>

\* the poll comes to its next update: lastUpdateId is set before it is handled
Take1(p) ==
  /\ polls[p].is = "handling" /\ polls[p].updates # <<>>
  /\ LET u == Head(polls[p].updates)
     IN /\ lastUpdateId' = u
        /\ polls' = [polls EXCEPT ![p].is = "answering"]
        /\ handled' = [handled EXCEPT ![u] = @ + 1]
        /\ \/ /\ allowance' = IF u \in Welcome /\ allowance > 0 THEN allowance - 1 ELSE allowance
              /\ answered' = [answered EXCEPT ![u] = @ \cup
                   {IF u \notin Welcome THEN "unauthorized" ELSE IF allowance = 0 THEN "limited" ELSE "asked"}]
           \/ UNCHANGED <<allowance, answered>>      \* without a text
  /\ UNCHANGED <<polling, sentUpdates, confirmed, overlapped>>

\* the handler and sendMessage are done, with a response or an error
Answer1(p) ==
  /\ polls[p].is = "answering"
  /\ Went(p, [is |-> "handling", offset |-> 0, updates |-> Tail(polls[p].updates)])
  /\ UNCHANGED <<polling, sentUpdates, confirmed, lastUpdateId, handled, answered, allowance, overlapped>>

PollOver(p) ==
  /\ polls[p].is = "handling" /\ polls[p].updates = <<>>
  /\ polls' = [polls EXCEPT ![p].is = "over"]
  /\ UNCHANGED <<polling, sentUpdates, confirmed, lastUpdateId, handled, answered, allowance, overlapped>>

PollProgress(p) == Reach(p) \/ Take1(p) \/ Answer1(p) \/ PollOver(p)

TelegramNext ==
  \/ StartPolling \/ StopPolling \/ UserSends
  \/ \E p \in Polls : Poll(p) \/ PollProgress(p)

-----------------------------------------------------------------------------
Underway(p) == polls[p].is \in {"handling", "answering"}
Fetched == UNION {ToSet(polls[p].updates) : p \in Polls}

\* However polls overlap, no update is confirmed to Telegram that was not handled or is with
\* a poll, and no chat that is not allowed reaches the handler.  Handled twice is an update only
\* when polls did overlap: a reply that is slower than the interval is what it takes.
NoUpdateLost ==
  /\ \A u \in Updates : u <= confirmed => handled[u] > 0 \/ u \in Fetched
  /\ ~overlapped => \A u \in Updates : handled[u] <= 1
  /\ \A u \in Updates \ Welcome : answered[u] \subseteq {"unauthorized"}
  /\ Cardinality({u \in Updates : "asked" \in answered[u]}) <= RatePerMinute

\* A poll gets through its updates, one failing handler or not.
PollsEnd == \A p \in Polls : Underway(p) ~> polls[p].is = "over"
=============================================================================
