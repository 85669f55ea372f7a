---------------------------- MODULE McpStdioClient ----------------------------
(***************************************************************************)
(* packages/core/src/mcp/McpStdioClient.ts: JSON-RPC requests to a child    *)
(* process over stdin, one line per reply on stdout.  A request is pending  *)
(* until a reply, its timer, the child's exit, a refused chunk or           *)
(* disconnect() settles it; any of them may come first and the others still *)
(* arrive.  buildMcpTools connects the client before anybody may call it.   *)
(*                                                                          *)
(* A reply line is a run of cells, so that a chunk of stdout can end inside *)
(* a line: [id, first, last], with `last` standing for the newline.         *)
(***************************************************************************)
EXTENDS Integers, Sequences, FiniteSets, FiniteSetsExt

CONSTANTS
  MaxPending,    \* limits.maxPending
  MaxLine,       \* limits.maxLineBytes, in cells
  MaxRequests,   \* bound: requests sent over the life of the client
  MaxPipe,       \* bound: cells of stdout on their way to the client
  ReplyLengths,  \* lengths of the reply lines the server writes
  Repeats        \* the server may answer a request twice

ASSUME ClientLimits ==
  /\ MaxPending \in Nat \ {0} /\ MaxLine \in Nat \ {0}
  /\ MaxRequests \in Nat /\ MaxPipe \in Nat /\ ReplyLengths \subseteq Nat \ {0}
  /\ Repeats \in BOOLEAN

VARIABLES
  conn,      \* progress of connect() and disconnect()
  proc,      \* the child: "none", "running", "gone" once its exit event was handled
  handle,    \* this.proc is not null
  nextId,
  req,       \* req[id]: state of the request's promise
  sent,      \* ids the child may answer
  pipe,      \* stdout not yet delivered
  buffer,    \* the partial line kept by the client
  refused,   \* droppedLines > 0
  shut       \* id of the shutdown request, 0 before it

clientVars == <<conn, proc, handle, nextId, req, sent, pipe, buffer, refused, shut>>

ReqIds == 1 .. MaxRequests
Pending == {id \in ReqIds : req[id] = "pending"}
Settled(id) == req[id] \in {"answered", "failed"}

ClientInit ==
  /\ conn = "new" /\ proc = "none" /\ handle = FALSE
  /\ nextId = 1 /\ req = [id \in ReqIds |-> "unsent"] /\ sent = {}
  /\ pipe = <<>> /\ buffer = <<>> /\ refused = FALSE /\ shut = 0

-----------------------------------------------------------------------------
(* request(), settle(), failAll()                                           *)

\* A request over the cap is refused and changes nothing.  Without a child the request
\* is registered all the same, and only its timer can settle it.
\* Mutant: one request over the cap.
CanRequestOverCap == Cardinality(Pending) <= MaxPending /\ nextId <= MaxRequests

CanRequest == Cardinality(Pending) < MaxPending /\ nextId <= MaxRequests

Request ==
  /\ CanRequest
  /\ req' = [req EXCEPT ![nextId] = "pending"]
  /\ nextId' = nextId + 1
  /\ sent' = IF handle' /\ proc' = "running" THEN sent \cup {nextId} ELSE sent

\* Mutant: fails ids that were never sent, too.
FailEveryId == [id \in ReqIds |-> IF Settled(id) THEN req[id] ELSE "failed"]

FailAll == [id \in ReqIds |-> IF id \in Pending THEN "failed" ELSE req[id]]

\* Mutant: timers stop with the connection.
TimeoutWhileConnected(id) ==
  /\ id \in Pending /\ handle
  /\ req' = [req EXCEPT ![id] = "failed"]
  /\ UNCHANGED <<conn, proc, handle, nextId, sent, pipe, buffer, refused, shut>>

Timeout(id) ==
  /\ id \in Pending
  /\ req' = [req EXCEPT ![id] = "failed"]
  /\ UNCHANGED <<conn, proc, handle, nextId, sent, pipe, buffer, refused, shut>>

-----------------------------------------------------------------------------
(* connect()                                                                *)

Connect ==
  /\ conn = "new"
  /\ conn' = "initialize" /\ proc' = "running" /\ handle' = TRUE
  /\ Request
  /\ UNCHANGED <<pipe, buffer, refused, shut>>

ListTools ==
  /\ conn = "initialize" /\ req[1] = "answered"
  /\ conn' = "list"
  /\ UNCHANGED <<proc, handle, pipe, buffer, refused, shut>>
  /\ Request

Connected ==
  /\ conn = "list" /\ req[2] = "answered"
  /\ conn' = "ready"
  /\ UNCHANGED <<proc, handle, nextId, req, sent, pipe, buffer, refused, shut>>

\* the handshake was settled with an error, by whatever came first: connect() rejects
\* and the child is left running
ConnectFails ==
  /\ \/ conn = "initialize" /\ Settled(1)
     \/ conn = "list" /\ Settled(2)
  /\ conn' = "failed"
  /\ UNCHANGED <<proc, handle, nextId, req, sent, pipe, buffer, refused, shut>>

\* call(): the tools stay registered after disconnect()
Call ==
  /\ conn \in {"ready", "closing", "closed"}
  /\ UNCHANGED <<conn, proc, handle, pipe, buffer, refused, shut>>
  /\ Request

-----------------------------------------------------------------------------
(* disconnect()                                                             *)

AskShutdown ==
  /\ conn = "ready" /\ proc = "running"
  /\ conn' = "closing" /\ shut' = nextId
  /\ UNCHANGED <<proc, handle, pipe, buffer, refused>>
  /\ Request

Close ==
  /\ conn' = "closed" /\ handle' = FALSE
  /\ req' = FailAll
  /\ UNCHANGED <<proc, nextId, sent, pipe, buffer, refused, shut>>

\* no shutdown request for a child that has exited, or over the cap
SkipShutdown ==
  /\ conn = "ready"
  /\ proc = "gone" \/ Cardinality(Pending) >= MaxPending
  /\ Close

\* Mutant: only a reply ends the wait.
FinishDisconnectOnReply == conn = "closing" /\ req[shut] = "answered" /\ Close

\* answered or not
FinishDisconnect == conn = "closing" /\ Settled(shut) /\ Close

-----------------------------------------------------------------------------
(* The child and its pipe.                                                  *)

\* The server answers what it received, in any order, late, never, or twice.
ServerReplies(id, n) ==
  /\ proc = "running" /\ id \in sent /\ Len(pipe) + n <= MaxPipe
  /\ pipe' = pipe \o [k \in 1 .. n |-> [id |-> id, first |-> k = 1, last |-> k = n]]
  /\ sent' = IF Repeats THEN sent ELSE sent \ {id}
  /\ UNCHANGED <<conn, proc, handle, nextId, req, buffer, refused, shut>>

\* exit event; output already in the pipe may still be delivered after it
ChildExits ==
  /\ proc = "running"
  /\ proc' = "gone"
  /\ req' = FailAll
  /\ UNCHANGED <<conn, handle, nextId, sent, pipe, buffer, refused, shut>>

\* error event (the child could not be started or signalled): no exit is recorded
ChildErrors ==
  /\ proc = "running"
  /\ req' = FailAll
  /\ UNCHANGED <<conn, proc, handle, nextId, sent, pipe, buffer, refused, shut>>

Newlines(s) == {i \in 1 .. Len(s) : s[i].last}
LineStart(s, i) == Max({0} \cup {j \in Newlines(s) : j < i}) + 1
\* a line whose beginning was dropped is malformed JSON and skipped
RepliesIn(s) == {s[i].id : i \in {j \in Newlines(s) : s[LineStart(s, j)].first}}

\* Mutant: takes one line out of a chunk.
RestAfterFirst(s) ==
  IF Newlines(s) = {} THEN s ELSE SubSeq(s, Min(Newlines(s)) + 1, Len(s))

Rest(s) == SubSeq(s, Max({0} \cup Newlines(s)) + 1, Len(s))

\* Mutant: a reply settles its request again.
AnsweredBy(s) == RepliesIn(s)

\* replies to requests that are still pending; all others are ignored
Answers(s) == Pending \cap RepliesIn(s)

\* pushChunk on the next n cells
Deliver(n) ==
  LET all == buffer \o SubSeq(pipe, 1, n)
  IN /\ n <= Len(pipe)
     /\ pipe' = SubSeq(pipe, n + 1, Len(pipe))
     /\ IF Len(all) > MaxLine
        THEN buffer' = <<>> /\ refused' = TRUE /\ req' = FailAll
        ELSE /\ buffer' = Rest(all)
             /\ req' = [id \in ReqIds |->
                  IF id \in Answers(all) THEN "answered" ELSE req[id]]
             /\ UNCHANGED refused
     /\ UNCHANGED <<conn, proc, handle, nextId, sent, shut>>

ClientNext ==
  \/ Connect \/ ListTools \/ Connected \/ ConnectFails \/ Call
  \/ AskShutdown \/ SkipShutdown \/ FinishDisconnect
  \/ \E id \in ReqIds : Timeout(id)
  \/ \E id \in ReqIds, n \in ReplyLengths : ServerReplies(id, n)
  \/ ChildExits \/ ChildErrors
  \/ \E n \in 1 .. MaxPipe : Deliver(n)

\* Timers fire and awaits resume; nothing is assumed of the child or of its output.
Fairness ==
  /\ \A id \in ReqIds : WF_clientVars(Timeout(id))
  /\ WF_clientVars(ListTools) /\ WF_clientVars(Connected \/ ConnectFails) /\ WF_clientVars(FinishDisconnect)

ClientSpec == ClientInit /\ [][ClientNext]_clientVars
ClientFairSpec == ClientSpec /\ Fairness

-----------------------------------------------------------------------------
Cell == [id : ReqIds, first : BOOLEAN, last : BOOLEAN]

ClientTypeOK ==
  /\ conn \in {"new", "initialize", "list", "ready", "failed", "closing", "closed"}
  /\ proc \in {"none", "running", "gone"} /\ handle \in BOOLEAN
  /\ nextId \in 1 .. MaxRequests + 1
  /\ req \in [ReqIds -> {"unsent", "pending", "answered", "failed"}]
  /\ \A id \in ReqIds : req[id] = "unsent" <=> id >= nextId
  /\ sent \subseteq ReqIds
  /\ pipe \in Seq(Cell) /\ buffer \in Seq(Cell)
  /\ refused \in BOOLEAN /\ shut \in 0 .. MaxRequests

\* Neither the table of requests nor the partial line outgrows its limit, whatever the
\* server writes and however stdout is cut into chunks.
StateBounded == Cardinality(Pending) <= MaxPending /\ Len(buffer) <= MaxLine

\* The partial line that is kept holds no complete reply: none is left undelivered in
\* the buffer while its request waits.
BufferIsPartial == \A i \in 1 .. Len(buffer) : ~buffer[i].last

\* Both, with the types of the variables.
ClientSound == ClientTypeOK /\ StateBounded /\ BufferIsPartial

\* A request is settled once: a late, second or broken reply, the timer, the exit event
\* and disconnect() never change the outcome the caller has seen.
SettledOnce == [][\A id \in ReqIds : Settled(id) => req'[id] = req[id]]_clientVars

\* Every request is settled, also those sent to a child that is gone, silent or already
\* disconnected.
RequestsSettle == \A id \in ReqIds : req[id] = "pending" ~> Settled(id)

\* connect() and disconnect() always end, against any server.
LifecycleEnds ==
  /\ conn = "initialize" ~> conn \in {"ready", "failed", "closing", "closed"}
  /\ conn = "closing" ~> conn = "closed"

\* "Refuse a partial line that never terminates": output is only refused when the server
\* writes a line longer than the limit.
OnlyLongLinesRefused == refused => \E n \in ReplyLengths : n > MaxLine
=============================================================================
