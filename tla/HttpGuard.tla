------------------------------ MODULE HttpGuard ------------------------------
(***************************************************************************)
(* packages/security/src/network/HttpGuard.ts: what every HTTP surface of    *)
(* the system asks before it answers.  A request carries a credential, or    *)
(* none; each failing credential cools down on its own.  Webhooks are signed *)
(* messages that may be delivered again, late and out of order.              *)
(***************************************************************************)
EXTENDS Integers, Sequences, FiniteSets, FiniteSetsExt

CONSTANTS
  Accepted,       \* acceptedTokens
  Wrong,          \* other credentials, and the label of requests without one
  CapDelay,       \* the longest cooldown; the first one is 2
  MaxFailures,    \* entries of failures before it is swept
  Nonces,         \* nonces of signed webhooks
  Skew,           \* maxSkewMs, and the ttl of the replay cache
  MaxClock        \* bound: the clock

ASSUME GuardAssumption ==
  /\ Accepted \cap Wrong = {} /\ IsFiniteSet(Wrong)
  /\ CapDelay \in Nat \ {0} /\ {MaxFailures, Skew, MaxClock} \subseteq Nat

VARIABLES
  guard,          \* "unbuilt", "refused" or the guard's token and interface
  clock,
  failures,       \* failures: count and until of a credential, or count 0
  rejections,     \* history: when a credential was compared in vain, in order
  limited,        \* history: credentials that were ever answered 429
  seen,           \* WebhookReplayCache.seen: the time of a nonce, or Never
  delivered       \* history: when each nonce was accepted

guardVars == <<guard, clock, failures, rejections, limited, seen, delivered>>
credentialVars == <<failures, rejections, limited>>
webhookVars == <<seen, delivered>>

Credentials == Accepted \cup Wrong
Never == 0 - 1 - Skew - MaxClock
None == [count |-> 0, until |-> 0]

GuardInit ==
  /\ guard = [state |-> "unbuilt"]
  /\ clock = 0
  /\ failures = [c \in Credentials |-> None]
  /\ rejections = [c \in Credentials |-> <<>>]
  /\ limited = {}
  /\ seen = [n \in Nonces |-> Never]
  /\ delivered = [n \in Nonces |-> {}]

Configurations == [loopback : BOOLEAN, configured : {"none", "short", "long"},
                   ephemeral : BOOLEAN, extras : {"none", "short", "long"}]

\* the constructor throws
Refused(c) ==
  \/ c.configured = "none" /\ (~c.loopback \/ ~c.ephemeral)
  \/ c.configured = "short" \/ c.extras = "short"

Build(c) ==
  /\ guard.state = "unbuilt"
  /\ guard' = IF Refused(c) THEN [state |-> "refused"]
              ELSE [state |-> "built", loopback |-> c.loopback, token |-> c.configured]
  /\ UNCHANGED <<clock, failures, rejections, limited, seen, delivered>>

GuardTick ==
  /\ guard.state = "built" /\ clock < MaxClock
  /\ clock' = clock + 1
  /\ UNCHANGED <<guard, failures, rejections, limited, seen, delivered>>

Cooling(c) == failures[c].count > 0 /\ failures[c].until > clock
Doublings == <<2, 4, 8, 16, 32, 64, 128, 256>>      \* 2 ** n
Delay(count) == Min({CapDelay, Doublings[Min({count, 8})]})

\* more than MaxFailures entries: those that are over are dropped
Swept(entries) ==
  IF Cardinality({c \in Credentials : entries[c].count > 0}) > MaxFailures
  THEN [c \in Credentials |-> IF entries[c].until < clock THEN None ELSE entries[c]]
  ELSE entries

\* Mutant: failures are counted under one key.
CountedTogether(c) == [d \in Credentials |->
  [count |-> failures[d].count + 1, until |-> clock + Delay(failures[d].count + 1)]]

Counted(c) ==
  [failures EXCEPT ![c] = [count |-> @.count + 1, until |-> clock + Delay(@.count + 1)]]

\* authorize() of a request that is still cooling down
TooMany(c) ==
  /\ guard.state = "built" /\ Cooling(c)
  /\ limited' = limited \cup {c}
  /\ UNCHANGED <<guard, clock, failures, rejections, seen, delivered>>

Unauthorized(c) ==
  /\ guard.state = "built" /\ ~Cooling(c) /\ c \notin Accepted
  /\ failures' = Swept(Counted(c))
  /\ rejections' = [rejections EXCEPT ![c] = Append(@, clock)]
  /\ UNCHANGED <<guard, clock, limited, seen, delivered>>

\* an accepted token; its failures are forgotten, then Host, Origin and Sec-Fetch-Site of
\* a state-changing request decide without a state of their own
Authorized(c) ==
  /\ guard.state = "built" /\ ~Cooling(c) /\ c \in Accepted
  /\ failures' = [failures EXCEPT ![c] = None]
  /\ UNCHANGED <<guard, clock, rejections, limited, seen, delivered>>

-----------------------------------------------------------------------------
Forgotten(times) == [n \in Nonces |-> IF times[n] + Skew < clock THEN Never ELSE times[n]]

\* Mutant: the cache forgets one tick early.
RemembersLess(n) == Forgotten(seen)[n] # Never /\ seen[n] + Skew # clock

Remembers(n) == Forgotten(seen)[n] # Never

\* a correctly signed webhook of the time ts: its sender's clock may differ from ours, and
\* the network may deliver it more than once
Webhook(n, ts) ==
  /\ guard.state = "built"
  /\ clock - ts <= Skew /\ ts - clock <= Skew
  /\ IF Remembers(n)
     THEN seen' = Forgotten(seen) /\ UNCHANGED delivered
     ELSE /\ seen' = [Forgotten(seen) EXCEPT ![n] = clock]
          /\ delivered' = [delivered EXCEPT ![n] = @ \cup {[ts |-> ts, at |-> clock]}]
  /\ UNCHANGED <<guard, clock, failures, rejections, limited>>

GuardNext ==
  \/ \E c \in Configurations : Build(c)
  \/ GuardTick
  \/ \E c \in Credentials : TooMany(c) \/ Unauthorized(c) \/ Authorized(c)
  \/ \E n \in Nonces, ts \in 0 .. MaxClock : Webhook(n, ts)

-----------------------------------------------------------------------------
\* Whatever others fail at, an accepted token is never answered "too many"; a wrong
\* credential is compared again only after its cooldown, which grows as long as it is
\* remembered; and a reachable interface has a configured token.
GuardFair ==
  /\ limited \cap Accepted = {}
  /\ \A c \in Wrong : \A i \in 1 .. Len(rejections[c]) - 1 :
       rejections[c][i + 1] - rejections[c][i] >= Delay(IF MaxFailures >= Cardinality(Wrong) THEN i ELSE 1)
  /\ guard.state = "built" /\ ~guard.loopback => guard.token = "long"

\* A webhook whose sender's clock is not ahead takes effect once, however often and
\* however late it is delivered again.
DeliveredOnce ==
  \A n \in Nonces : \A d \in delivered[n], e \in delivered[n] :
    d.ts = e.ts /\ d.ts <= Min({d.at, e.at}) => d = e
=============================================================================
