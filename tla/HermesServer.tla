----------------------------- MODULE HermesServer -----------------------------
(***************************************************************************)
(* packages/hermes/src/server/HermesServer.ts: tools over MCP.  The SSE      *)
(* transport counts its open streams, each of which can be ended by four     *)
(* events; the stdio transport splits chunks into lines and answers them one *)
(* after the other.                                                          *)
(***************************************************************************)
EXTENDS Naturals, Sequences, FiniteSets, SequencesExt

CONSTANTS
  MaxSse,         \* maxSseConnections
  Streams,        \* bound: connections made
  MaxLine,        \* maxMcpLineBytes
  MaxPending,     \* maxMcpPending
  Requests,       \* contents of lines, see Answer
  MaxLines,       \* bound: lines received
  AllowedTools    \* exposed tools the permission gate lets through

ASSUME HermesAssumption ==
  /\ {MaxSse, MaxLine, MaxPending} \subseteq Nat \ {0} /\ MaxLines \in Nat /\ IsFiniteSet(Streams)

VARIABLES
  listening,      \* sseServer # null
  stopped,        \* history: stop() was called
  activeSse,
  streams,        \* streams[s]: "new", "open" or "closed"
  stdin,          \* "idle", "reading", "ended"
  buffer,         \* length of buffer
  queue,          \* lines accepted and not answered: stdioQueue
  queued,
  arrived,        \* history: lines accepted, with their number
  responses,      \* lines written to stdout
  ran             \* history: tools executed

hermesVars ==
  <<listening, stopped, activeSse, streams, stdin, buffer, queue, queued, arrived, responses, ran>>

sseVars == <<listening, stopped, activeSse, streams>>
stdioVars == <<stdin, buffer, queue, queued, arrived, responses, ran>>

HermesInit ==
  /\ listening = FALSE /\ stopped = FALSE /\ activeSse = 0
  /\ streams = [s \in Streams |-> "new"]
  /\ stdin = "idle" /\ buffer = 0 /\ queue = <<>> /\ queued = 0
  /\ arrived = <<>> /\ responses = <<>> /\ ran = {}

StartSse ==
  /\ ~listening
  /\ listening' = TRUE
  /\ UNCHANGED <<stopped, activeSse, streams, stdioVars>>

\* the listener stops, its open streams go on
Stop ==
  /\ listening
  /\ listening' = FALSE /\ stopped' = TRUE
  /\ activeSse' = 0
  /\ UNCHANGED <<streams, stdioVars>>

\* an authorized GET /sse
Connect(s) ==
  /\ listening /\ streams[s] = "new"
  /\ IF activeSse >= MaxSse
     THEN streams' = [streams EXCEPT ![s] = "closed"] /\ UNCHANGED activeSse
     ELSE streams' = [streams EXCEPT ![s] = "open"] /\ activeSse' = activeSse + 1
  /\ UNCHANGED <<listening, stopped, stdioVars>>

Decremented == IF activeSse = 0 THEN 0 ELSE activeSse - 1

\* Mutant: cleanup() runs for every event.
CleanupAgain(s) == activeSse' = Decremented /\ streams' = [streams EXCEPT ![s] = "closed"]

\* cleanup(): the first of its callers ends the stream
Cleanup(s) ==
  IF streams[s] = "closed" THEN UNCHANGED <<activeSse, streams>>
  ELSE activeSse' = Decremented /\ streams' = [streams EXCEPT ![s] = "closed"]

\* the client aborts or cancels, or a heartbeat cannot be written, also after the end
StreamEvent(s) ==
  /\ streams[s] # "new"
  /\ Cleanup(s)
  /\ UNCHANGED <<listening, stopped, stdioVars>>

\* Mutant: stop() clears the timers.
LifetimeWhileListening(s) ==
  /\ listening /\ streams[s] = "open"
  /\ Cleanup(s)
  /\ UNCHANGED <<listening, stopped, stdioVars>>

\* the timer of the stream's absolute lifetime, cleared by cleanup()
LifetimeOver(s) ==
  /\ streams[s] = "open"
  /\ Cleanup(s)
  /\ UNCHANGED <<listening, stopped, stdioVars>>

-----------------------------------------------------------------------------
StartStdio ==
  /\ stdin = "idle"
  /\ stdin' = "reading"
  /\ UNCHANGED <<sseVars, buffer, queue, queued, arrived, responses, ran>>

\* Mutant: a line is queued although the queue is full.
RoomAlways == TRUE

Room == queued < MaxPending

\* "data": more of a line, or its end and the start of the next; a chunk has at most one
\* line end here
Data(length, line) ==
  /\ stdin = "reading" /\ Len(arrived) < MaxLines
  /\ IF buffer + length > MaxLine
     THEN buffer' = 0 /\ UNCHANGED <<queue, queued, arrived>>
     ELSE IF line = "unfinished"
     THEN buffer' = buffer + length /\ UNCHANGED <<queue, queued, arrived>>
     ELSE /\ buffer' \in 0 .. length - 1
          /\ IF line # "blank" /\ Room
             THEN /\ arrived' = Append(arrived, [number |-> Len(arrived) + 1, line |-> line])
                  /\ queue' = Append(queue, Last(arrived'))
                  /\ queued' = queued + 1
             ELSE UNCHANGED <<queue, queued, arrived>>
  /\ UNCHANGED <<sseVars, stdin, responses, ran>>

StdinEnds ==
  /\ stdin = "reading"
  /\ stdin' = "ended"
  /\ UNCHANGED <<sseVars, buffer, queue, queued, arrived, responses, ran>>

\* dispatch(): the kinds of answers to a request; a line that is no JSON object, or null,
\* is answered with id 0
Answer(line) ==
  CASE line \in {"garbage", "null"} -> {"parse error"}
    [] line \in {"initialize", "tools/list", "shutdown"} -> {"result"}
    [] line \in {"no tool", "hidden tool"} -> {"invalid params"}
    [] line \in AllowedTools -> {"result", "tool error"}
    [] line = "gated tool" -> {"tool error"}
    [] OTHER -> {"not found"}

NextLine == Head(queue)

HandleLine ==
  /\ queue # <<>>
  /\ queue' = Tail(queue)
  /\ queued' = queued - 1
  /\ \E answer \in Answer(NextLine.line) :
       responses' = Append(responses,
         [number |-> NextLine.number, id |-> IF answer = "parse error" THEN 0 ELSE NextLine.number,
          answer |-> answer])
  /\ ran' = ran \cup ({NextLine.line} \cap AllowedTools)
  /\ UNCHANGED <<sseVars, stdin, buffer, arrived>>

HermesProgress == HandleLine \/ \E s \in Streams : LifetimeOver(s)

HermesNext ==
  \/ StartSse \/ Stop \/ StartStdio \/ StdinEnds \/ HermesProgress
  \/ \E s \in Streams : Connect(s) \/ StreamEvent(s)
  \/ \E length \in 1 .. MaxLine, line \in Requests \cup {"blank", "unfinished"} : Data(length, line)

-----------------------------------------------------------------------------
Open == {s \in Streams : streams[s] = "open"}

\* However many events end a stream, it gives up its place once: until the first stop() the
\* count is that of the open streams, within the limit.  A count that was reset is too low,
\* never too high, so it refuses nobody in vain.
SlotsCounted ==
  /\ ~stopped => activeSse = Cardinality(Open)
  /\ activeSse <= Cardinality(Open) /\ activeSse <= MaxSse

\* Each accepted line is answered once, in the order of arrival and under its own id, and
\* the queue keeps to its limit; nothing but a permitted tool runs.
StdioOrdered ==
  /\ Len(queue) = queued /\ queued <= MaxPending
  /\ [i \in DOMAIN responses |-> responses[i].number] \o [i \in DOMAIN queue |-> queue[i].number]
       = [i \in DOMAIN arrived |-> i]
  /\ \A i \in DOMAIN responses : responses[i].answer # "parse error" => responses[i].id = i
  /\ ran \subseteq AllowedTools

\* A stream ends although its client stays, and an accepted line is answered, also after
\* the end of the input.
HermesSettles ==
  /\ \A s \in Streams : streams[s] = "open" ~> streams[s] = "closed"
  /\ queue # <<>> ~> queue = <<>>
=============================================================================
