---------------------------- MODULE KairosDaemons ----------------------------
(***************************************************************************)
(* packages/kairos/src/KAIROSDaemon.ts: tasks that run at an interval.  A    *)
(* tick starts every task that is due and not running and waits for none;    *)
(* executor.ts dispatches a task by the prefix of its id.                    *)
(***************************************************************************)
EXTENDS Integers, Sequences, FiniteSets

CONSTANTS
  Tasks,          \* ids
  Prefix,         \* Prefix[t]: "dream", "digest", "research", "wiki", "gc" or another
  Interval,       \* intervalMs, in ticks
  MaxTime,        \* bound: the clock
  OldDays,        \* days of transcripts past the retention of 90 days
  NewDays         \* those within it

ASSUME TickAssumption ==
  /\ Prefix \in [Tasks -> STRING] /\ Interval \in [Tasks -> Nat \ {0}]
  /\ MaxTime \in Nat /\ OldDays \cap NewDays = {}

VARIABLES
  ticking,        \* running
  time,
  registered,     \* tasks: id to its record, or Absent
  active,         \* activeTasks
  flights,        \* runTask() calls in flight, by id
  starts,         \* history: when a record was started
  keptDays        \* transcripts on disk

tickVars == <<ticking, time, registered, active, flights, starts, keptDays>>

NotYet == 0 - 1
Absent == [here |-> FALSE]
Fresh(enabled) == [here |-> TRUE, enabled |-> enabled, lastRunAt |-> NotYet, status |-> "none"]

TickInit ==
  /\ ticking = FALSE /\ time = 0
  /\ registered = [t \in Tasks |-> Absent]
  /\ active = {} /\ flights = [t \in Tasks |-> 0]
  /\ starts = [t \in Tasks |-> <<>>]
  /\ keptDays = OldDays \cup NewDays

\* a task registered again starts afresh, also while it runs
Register(t, enabled) ==
  /\ registered' = [registered EXCEPT ![t] = Fresh(enabled)]
  /\ starts' = [starts EXCEPT ![t] = <<>>]
  /\ UNCHANGED <<ticking, time, active, flights, keptDays>>

Unregister(t) ==
  /\ registered[t].here
  /\ registered' = [registered EXCEPT ![t] = Absent]
  /\ UNCHANGED <<ticking, time, active, flights, starts, keptDays>>

\* Mutant: a task that runs is not passed over.
DueAlthoughActive(t) ==
  registered[t].here /\ registered[t].enabled
    /\ (registered[t].lastRunAt = NotYet \/ time - registered[t].lastRunAt >= Interval[t])

\* runImmediately changes nothing: a task that never ran is due as it is
Due(t) ==
  /\ registered[t].here /\ registered[t].enabled /\ t \notin active
  /\ registered[t].lastRunAt = NotYet \/ time - registered[t].lastRunAt >= Interval[t]

DueTasks == {t \in Tasks : Due(t)}

StartAll(due) ==
  /\ active' = active \cup due
  /\ flights' = [t \in Tasks |-> IF t \in due THEN flights[t] + 1 ELSE flights[t]]
  /\ registered' = [t \in Tasks |-> IF t \in due THEN [registered[t] EXCEPT !.lastRunAt = time] ELSE registered[t]]
  /\ starts' = [t \in Tasks |-> IF t \in due THEN Append(starts[t], time) ELSE starts[t]]

\* start(): a tick at once, then one per interval
StartDaemon ==
  /\ ~ticking
  /\ ticking' = TRUE
  /\ StartAll(DueTasks)
  /\ UNCHANGED <<time, keptDays>>

Tick ==
  /\ ticking /\ DueTasks # {}
  /\ StartAll(DueTasks)
  /\ UNCHANGED <<ticking, time, keptDays>>

Clock ==
  /\ time < MaxTime
  /\ time' = time + 1
  /\ UNCHANGED <<ticking, registered, active, flights, starts, keptDays>>

StopDaemon ==
  /\ ticking
  /\ ticking' = FALSE
  /\ UNCHANGED <<time, registered, active, flights, starts, keptDays>>

\* Mutant: the cutoff is not looked at.
PurgedAll == keptDays

Purged == keptDays \cap OldDays

\* executeKairosTask settles.  The outcome goes to the record it started with, which a
\* registration since has replaced: one that never ran.  A dream that fails is only logged, an unknown prefix throws,
\* and the others may
Settles(t, status) ==
  /\ flights[t] > 0
  /\ Prefix[t] \in {"dream", "wiki"} => status = "done"
  /\ Prefix[t] \notin {"dream", "digest", "research", "wiki", "gc"} => status = "failed"
  /\ keptDays' = IF Prefix[t] = "gc" /\ status = "done" THEN keptDays \ Purged ELSE keptDays
  /\ flights' = [flights EXCEPT ![t] = @ - 1]
  /\ active' = active \ {t}
  /\ registered' = IF registered[t].here /\ registered[t].lastRunAt # NotYet
                   THEN [registered EXCEPT ![t].status = status] ELSE registered
  /\ UNCHANGED <<ticking, time, starts>>

TickNext ==
  \/ StartDaemon \/ StopDaemon \/ Tick \/ Clock
  \/ \E t \in Tasks : Unregister(t) \/ \E enabled \in BOOLEAN : Register(t, enabled)
  \/ \E t \in Tasks, status \in {"done", "failed"} : Settles(t, status)

-----------------------------------------------------------------------------
\* A task runs once at a time, whatever is registered, removed or stopped meanwhile, a record
\* is started no sooner than its interval after its last start, and collecting old transcripts
\* spares the recent ones.
TicksSound ==
  /\ \A t \in Tasks : flights[t] = IF t \in active THEN 1 ELSE 0
  /\ \A t \in Tasks : \A i \in 2 .. Len(starts[t]) : starts[t][i] - starts[t][i - 1] >= Interval[t]
  /\ NewDays \subseteq keptDays

\* A running daemon comes to every task that is due.
TasksAreStarted == \A t \in Tasks : ticking /\ Due(t) ~> ~ticking \/ ~Due(t)

-----------------------------------------------------------------------------
(***************************************************************************)
(* The background daemon's process (apps/kairos-daemon/src/index.ts) and its *)
(* client (packages/kairos/src/client/KairosClient.ts): lines of JSON over a *)
(* unix socket, each handled on its own, so that answers come in any order.  *)
(* The socket's file says whether there is a daemon.                         *)
(***************************************************************************)

CONSTANTS
  RequestIds,     \* bound: requests a client makes
  MaxStarts       \* bound: times the daemon is started

VARIABLES
  process,        \* "off", "starting", "listening" or "stopping"
  daemonStarts,
  sockFile,       \* DAEMON_SOCK_PATH exists
  socket,         \* the client's: "none", "open", or "dead" when its daemon is gone: nobody tells it
  kinds,          \* history: kinds of the requests made
  waiting,        \* pending: requests neither settled nor timed out
  wire,           \* requests written and not handled
  answers,        \* answers written and not read
  torn,           \* buffer: the client holds the first part of a line whose rest is lost
  outcomes        \* history: how a request was settled

ipcVars == <<process, daemonStarts, sockFile, socket, kinds, waiting, wire, answers, torn, outcomes>>

IpcKinds == {"ping", "list", "schedule", "cancel", "status", "shutdown", "nonsense"}

IpcInit ==
  /\ process = "off" /\ daemonStarts = 0 /\ sockFile = FALSE /\ socket = "none"
  /\ kinds = [r \in {} |-> ""] /\ waiting = {} /\ wire = {} /\ answers = {} /\ torn = FALSE
  /\ outcomes = [r \in RequestIds |-> {}]

Launch ==
  /\ process = "off" /\ daemonStarts < MaxStarts
  /\ process' = "starting" /\ daemonStarts' = daemonStarts + 1
  /\ UNCHANGED <<sockFile, socket, kinds, waiting, wire, answers, torn, outcomes>>

\* Bun.listen makes the file; on one that a dead daemon left it may fail, and the process ends
Listen ==
  /\ process = "starting"
  /\ \/ process' = "listening" /\ sockFile' = TRUE
     \/ sockFile /\ process' = "off" /\ UNCHANGED sockFile
  /\ UNCHANGED <<daemonStarts, socket, kinds, waiting, wire, answers, torn, outcomes>>

\* the process is gone, with the requests it did not handle: of its answers some still come,
\* or the beginning of one.  The client's socket has no close handler and stays what it is.
Gone ==
  /\ process' = "off" /\ wire' = {}
  /\ socket' = IF socket = "open" THEN "dead" ELSE socket
  /\ \/ answers' \in SUBSET answers /\ UNCHANGED torn
     \/ answers # {} /\ answers' = {} /\ torn' = TRUE

\* SIGTERM or SIGINT: the daemon stops, then the server, and both files are removed; requests
\* that are there meanwhile are still answered
Terminate ==
  /\ process = "listening"
  /\ process' = "stopping"
  /\ UNCHANGED <<daemonStarts, sockFile, socket, kinds, waiting, wire, answers, torn, outcomes>>

SocketRemoved ==
  /\ process = "stopping" /\ sockFile
  /\ sockFile' = FALSE
  /\ UNCHANGED <<process, daemonStarts, socket, kinds, waiting, wire, answers, torn, outcomes>>

Terminated ==
  /\ process = "stopping" /\ ~sockFile
  /\ Gone
  /\ UNCHANGED <<daemonStarts, sockFile, kinds, waiting, outcomes>>

\* killed: its files stay
Killed ==
  /\ process # "off"
  /\ Gone
  /\ UNCHANGED <<daemonStarts, sockFile, kinds, waiting, outcomes>>

-----------------------------------------------------------------------------
\* connect(): a socket that died is replaced, the buffer kept
Connect1 ==
  /\ sockFile /\ process \in {"listening", "stopping"} /\ socket # "open"
  /\ socket' = "open"
  /\ UNCHANGED <<process, daemonStarts, sockFile, kinds, waiting, wire, answers, torn, outcomes>>

Settle(r, outcome) ==
  /\ waiting' = waiting \ {r}
  /\ outcomes' = [outcomes EXCEPT ![r] = @ \cup {outcome}]

\* send(): refused without a socket; one whose daemon is gone takes the request, and loses it
Send(r, kind) ==
  /\ r \notin DOMAIN kinds /\ socket # "none"
  /\ kinds' = [q \in DOMAIN kinds \cup {r} |-> IF q = r THEN kind ELSE kinds[q]]
  /\ waiting' = waiting \cup {r}
  /\ wire' = IF socket = "open" THEN wire \cup {r} ELSE wire
  /\ UNCHANGED <<process, daemonStarts, sockFile, socket, answers, torn, outcomes>>

\* handleIpc.  A kind nobody knows is answered; one that throws has the id "unknown".
Reply(r) ==
  CASE kinds[r] = "nonsense" -> {[id |-> r, ok |-> FALSE]}
    [] kinds[r] \in {"schedule", "cancel"} -> {[id |-> r, ok |-> TRUE], [id |-> "unknown", ok |-> FALSE]}
    [] OTHER -> {[id |-> r, ok |-> TRUE]}

Handle(r) ==
  /\ r \in wire /\ process \in {"listening", "stopping"} /\ kinds[r] # "shutdown"
  /\ wire' = wire \ {r}
  /\ \E reply \in Reply(r) : answers' = answers \cup {reply}
  /\ UNCHANGED <<process, daemonStarts, sockFile, socket, kinds, waiting, torn, outcomes>>

\* "shutdown": the daemon stops and the process exits, without an answer and with its files
\* in place
HandleShutdown(r) ==
  /\ r \in wire /\ process \in {"listening", "stopping"} /\ kinds[r] = "shutdown"
  /\ Gone
  /\ UNCHANGED <<daemonStarts, sockFile, kinds, waiting, outcomes>>

\* Mutant: the first request that waits gets the answer.
MatchedToAny(a) == waiting

\* a line that was begun by a daemon before swallows the answer
Matched(a) == IF torn THEN {} ELSE waiting \cap {a.id}

Receive(a) ==
  /\ a \in answers /\ socket # "none"
  /\ answers' = answers \ {a} /\ torn' = FALSE
  /\ IF Matched(a) # {} THEN \E r \in Matched(a) : Settle(r, [id |-> a.id, ok |-> a.ok])
     ELSE UNCHANGED <<waiting, outcomes>>
  /\ UNCHANGED <<process, daemonStarts, sockFile, socket, kinds, wire>>

\* Mutant: the timer of a request ends it only while there is a daemon.
ExpiredWhileOpen(r) == r \in waiting /\ socket = "open"

Expired(r) == r \in waiting

\* ten seconds after it was sent
RequestTimeout(r) ==
  /\ Expired(r)
  /\ Settle(r, [id |-> r, ok |-> FALSE])
  /\ UNCHANGED <<process, daemonStarts, sockFile, socket, kinds, wire, answers, torn>>

\* the socket fails: every request that waits is rejected
SocketError ==
  /\ socket # "none"
  /\ waiting' = {}
  /\ outcomes' = [r \in RequestIds |-> IF r \in waiting THEN outcomes[r] \cup {[id |-> r, ok |-> FALSE]} ELSE outcomes[r]]
  /\ UNCHANGED <<process, daemonStarts, sockFile, socket, kinds, wire, answers, torn>>

\* disconnect(): what waits is left to its timer; of what is on the way only a shutdown still
\* does something
Disconnect ==
  /\ socket # "none"
  /\ socket' = "none" /\ answers' = {}
  /\ wire' = {r \in wire : kinds[r] = "shutdown"}
  /\ UNCHANGED <<process, daemonStarts, sockFile, kinds, waiting, torn, outcomes>>

IpcNext ==
  \/ Launch \/ Listen \/ Terminate \/ SocketRemoved \/ Terminated \/ Killed \/ Connect1 \/ SocketError \/ Disconnect
  \/ \E r \in RequestIds : \E kind \in IpcKinds : Send(r, kind)
  \/ \E r \in RequestIds : Handle(r) \/ HandleShutdown(r) \/ RequestTimeout(r)
  \/ \E a \in answers : Receive(a)

-----------------------------------------------------------------------------
\* A request is settled once, by its own answer or by its failure, in whatever order answers
\* and timers come; it is answered "ok" only by a daemon that knew its kind, and a daemon asked
\* to shut down answers nothing.
IpcMatched ==
  \A r \in RequestIds :
    /\ Cardinality(outcomes[r]) <= 1
    /\ \A o \in outcomes[r] : o.id = r /\ r \notin waiting
         /\ (o.ok => kinds[r] \notin {"nonsense", "shutdown"})

\* Nobody waits for ever, whether the daemon answers, fails, dies or is left: also not who asks
\* a daemon that is gone, or whose answer is swallowed by a line that a dead one began.
IpcSettles == \A r \in RequestIds : r \in waiting ~> r \notin waiting
==============================================================================
