---------------------------- MODULE StreamingLoop ----------------------------
(***************************************************************************)
(* packages/core/src: the agent loop over streamed answers                   *)
(* (streaming/StreamingQueryLoop.ts), its providers (streaming/*Provider.ts),*)
(* and assembleFromStream (services/streaming) with the providers it is made *)
(* for.  An answer is a list of text and tool blocks; the API sends each as a *)
(* start, pieces and an end, in turn.                                        *)
(***************************************************************************)
EXTENDS Naturals, Sequences, SequencesExt, FiniteSets

CONSTANTS
  StreamAnswers,  \* answers a model may give: blocks (texts, names of tools), the stop reason,
                  \* and the pieces that came of the last block when it is a call
  FreeTools,      \* tools of the loop that run without approval
  GuardedTools,   \* those that need it
  MaxStreamTurns  \* maxTurns

ASSUME StreamAssumption ==
  /\ FreeTools \cap GuardedTools = {} /\ MaxStreamTurns \in Nat \ {0}
  /\ \A a \in StreamAnswers :
       a.lastPieces \in 0 .. 2 /\ (a.lastPieces < 2 => a.stop = "max_tokens")

VARIABLES
  provider,       \* "anthropic", "openai" or "other", an implementation of the interface
  streaming,      \* "idle", "reading", "tools", "complete", "error" or "thrown"
  streamTurn,
  answer,         \* the answer being streamed
  chunks,         \* chunks not yet consumed
  toolUse,        \* toolUseBlocks: tool, block and the pieces of its input
  currentTool,    \* currentToolIdx, 0 when there is none
  stopReason,
  results,        \* toolResultContent
  chat,           \* history
  executed,       \* history: tools run: approved or not, input whole or not, stop reason of the turn
  assembled       \* what assembleFromStream made of an answer, or nothing

streamVars == <<provider, streaming, streamTurn, answer, chunks, toolUse, currentTool, stopReason,
                results, chat, executed, assembled>>

NoAnswer == [blocks |-> <<>>, stop |-> "end_turn", lastPieces |-> 2]
Nothing == [made |-> FALSE]

StreamInit ==
  /\ provider \in {"anthropic", "openai", "other"}
  /\ streaming = "idle" /\ streamTurn = 0
  /\ answer = NoAnswer /\ chunks = <<>>
  /\ toolUse = <<>> /\ currentTool = 0 /\ stopReason = "end_turn"
  /\ results = <<>> /\ chat = <<>> /\ executed = {} /\ assembled = Nothing

-----------------------------------------------------------------------------
\* What the providers of streaming/ make of an answer.
Chunk1(type) == [type |-> type]
BlockChunk(type, i) == [type |-> type, block |-> i]
StopChunk(reason) == [type |-> "stop", reason |-> reason]
ToolsOf(a) == SelectSeq([i \in DOMAIN a.blocks |-> i], LAMBDA i : a.blocks[i] # "text")
TextsOf(a) == SelectSeq([i \in DOMAIN a.blocks |-> i], LAMBDA i : a.blocks[i] = "text")
Each(s, F(_)) == FlattenSeq([i \in DOMAIN s |-> F(s[i])])

\* the input of a call comes in two pieces, unless the answer is cut off before
PiecesOf(a, i) == IF i = Len(a.blocks) THEN a.lastPieces ELSE 2
ToolChunks(a, i) ==
  <<BlockChunk("tool_use_start", i)>> \o [j \in 1 .. PiecesOf(a, i) |-> BlockChunk("tool_use_delta", i)]
InOrder(a) ==
  Each([i \in DOMAIN a.blocks |-> i], LAMBDA i :
    IF a.blocks[i] = "text" THEN <<BlockChunk("text_delta", i)>>
    ELSE ToolChunks(a, i) \o <<BlockChunk("tool_use_end", i)>>)

\* message_delta has the stop reason, and message_stop is a stop as well
FromAnthropic(a) == InOrder(a) \o <<StopChunk(a.stop), StopChunk("end_turn")>>

FinishReason(stop) ==
  CASE stop = "tool_use" -> "tool_calls" [] stop = "max_tokens" -> "length" [] OTHER -> "stop"

\* the text, then the calls by index, and with finish_reason the ends of all of them
FromOpenAI(a) ==
  Each(TextsOf(a), LAMBDA i : <<BlockChunk("text_delta", i)>>)
    \o Each(ToolsOf(a), LAMBDA i : ToolChunks(a, i))
    \o Each(ToolsOf(a), LAMBDA i : <<BlockChunk("tool_use_end", i)>>)
    \o <<StopChunk(FinishReason(a.stop))>>

FromOther(a) == InOrder(a) \o <<StopChunk(a.stop)>>

StreamCall(p, a) ==
  CASE p = "anthropic" -> FromAnthropic(a) [] p = "openai" -> FromOpenAI(a) [] OTHER -> FromOther(a)

-----------------------------------------------------------------------------
StartTurn(a) ==
  /\ streaming = "idle"
  /\ IF streamTurn = MaxStreamTurns
     THEN streaming' = "complete" /\ UNCHANGED <<answer, chunks, streamTurn>>
     ELSE /\ streaming' = "reading" /\ streamTurn' = streamTurn + 1
          /\ answer' = a /\ chunks' = StreamCall(provider, a)
  /\ chat' = IF streamTurn = 0 THEN <<[role |-> "user", tools |-> <<>>]>> ELSE chat
  /\ toolUse' = <<>> /\ currentTool' = 0 /\ stopReason' = "end_turn" /\ results' = <<>>
  /\ UNCHANGED <<provider, executed, assembled>>

\* Mutant: a piece goes to the first call.
PieceToFirst(i) == toolUse' = [toolUse EXCEPT ![1].pieces = Append(@, i)]

\* a piece goes to the call that was started last; after an end it is dropped
Piece(i) ==
  IF currentTool > 0 THEN toolUse' = [toolUse EXCEPT ![currentTool].pieces = Append(@, i)]
  ELSE UNCHANGED toolUse

ReadChunk ==
  /\ streaming = "reading" /\ chunks # <<>>
  /\ LET chunk == Head(chunks)
     IN \/ /\ chunk.type = "text_delta"
           /\ UNCHANGED <<toolUse, currentTool, stopReason>>
        \/ /\ chunk.type = "tool_use_start"
           /\ toolUse' = Append(toolUse, [tool |-> answer.blocks[chunk.block], block |-> chunk.block, pieces |-> <<>>])
           /\ currentTool' = Len(toolUse')
           /\ UNCHANGED stopReason
        \/ /\ chunk.type = "tool_use_delta"
           /\ Piece(chunk.block)
           /\ UNCHANGED <<currentTool, stopReason>>
        \/ /\ chunk.type = "tool_use_end"
           /\ currentTool' = 0
           /\ UNCHANGED <<toolUse, stopReason>>
        \/ /\ chunk.type = "stop"
           /\ stopReason' = chunk.reason
           /\ UNCHANGED <<toolUse, currentTool>>
  /\ chunks' = Tail(chunks)
  /\ UNCHANGED <<provider, streaming, streamTurn, answer, results, chat, executed, assembled>>

\* an error chunk ends the loop with an event, a broken stream with an exception
StreamBreaks ==
  /\ streaming = "reading"
  /\ streaming' \in IF provider = "other" THEN {"error", "thrown"} ELSE {"thrown"}
  /\ UNCHANGED <<provider, streamTurn, answer, chunks, toolUse, currentTool, stopReason, results,
                 chat, executed, assembled>>

Ids(s) == [k \in DOMAIN s |-> <<streamTurn, s[k].block>>]

\* input that is not whole does not parse and becomes an empty object
Parsed(pieces) == IF Len(pieces) = 2 THEN pieces ELSE <<>>

\* Mutant: calls run whatever the stop reason.
AnyCalls == toolUse # <<>>

CallsAsked == toolUse # <<>> /\ stopReason = "tool_use"

StreamEnds ==
  /\ streaming = "reading" /\ chunks = <<>>
  /\ chat' = Append(chat, [role |-> "assistant", tools |-> Ids(toolUse)])
  /\ streaming' = IF CallsAsked THEN "tools" ELSE "complete"
  /\ UNCHANGED <<provider, streamTurn, answer, chunks, toolUse, currentTool, stopReason, results,
                 executed, assembled>>

\* one call after the other: unknown, invalid, denied, or run; each has a result
RunTool ==
  /\ streaming = "tools" /\ Len(results) < Len(toolUse)
  /\ LET call == toolUse[Len(results) + 1]
         Run(approved) == executed' = executed \cup
           {[tool |-> call.tool, approved |-> approved, whole |-> Parsed(call.pieces) # <<>>, stop |-> answer.stop]}
     IN /\ results' = Append(results, call)
        /\ \/ UNCHANGED executed
           \/ call.tool \in FreeTools /\ Run(FALSE)
           \/ call.tool \in GuardedTools /\ Run(TRUE)
  /\ UNCHANGED <<provider, streaming, streamTurn, answer, chunks, toolUse, currentTool, stopReason,
                 chat, assembled>>

ResultsSent ==
  /\ streaming = "tools" /\ Len(results) = Len(toolUse)
  /\ chat' = Append(chat, [role |-> "user", tools |-> Ids(results)])
  /\ streaming' = "idle"
  /\ UNCHANGED <<provider, streamTurn, answer, chunks, toolUse, currentTool, stopReason, results,
                 executed, assembled>>

-----------------------------------------------------------------------------
\* providers/*StreamingProvider.ts: every content_block_stop is a tool_use_end, and OpenAI's
\* calls end together, when finish_reason says so
ServiceAnthropic(a) ==
  Each([i \in DOMAIN a.blocks |-> i], LAMBDA i :
    (IF a.blocks[i] = "text" THEN <<BlockChunk("text_delta", i)>> ELSE ToolChunks(a, i))
      \o <<BlockChunk("tool_use_end", i)>>)
    \o <<Chunk1("usage"), Chunk1("message_stop")>>

ServiceOpenAI(a) ==
  Each(TextsOf(a), LAMBDA i : <<BlockChunk("text_delta", i)>>)
    \o Each(ToolsOf(a), LAMBDA i : ToolChunks(a, i))
    \o (IF a.stop = "tool_use" THEN Each(ToolsOf(a), LAMBDA i : <<BlockChunk("tool_use_end", i)>>) ELSE <<>>)
    \o <<Chunk1("usage"), Chunk1("message_stop")>>

\* Mutant: pending text is not flushed.
FlushedNever(r) == r

Flushed(r) ==
  IF r.text = <<>> THEN r
  ELSE [r EXCEPT !.content = Append(@, [type |-> "text", of |-> r.text]), !.text = <<>>]

AssembleChunk(r, chunk) ==
  CASE chunk.type = "text_delta" -> [r EXCEPT !.text = Append(@, chunk.block)]
    [] chunk.type = "tool_use_start" ->
         [Flushed(r) EXCEPT !.tool = <<chunk.block>>, !.input = <<>>, !.stop = "tool_use"]
    [] chunk.type = "tool_use_delta" -> [r EXCEPT !.input = Append(@, chunk.block)]
    [] chunk.type = "tool_use_end" ->
         [r EXCEPT !.content = Append(@, [type |-> "tool_use", of |-> r.tool, input |-> Parsed(r.input)])]
    [] chunk.type = "message_stop" -> Flushed(r)
    [] OTHER -> r

Assemble(s) ==
  LET r == FoldLeft(AssembleChunk,
             [content |-> <<>>, text |-> <<>>, tool |-> <<>>, input |-> <<>>, stop |-> "end_turn"], s)
  IN [content |-> Flushed(r).content, stop |-> r.stop]

AssembleFromStream(a) ==
  /\ streaming = "idle" /\ streamTurn = 0 /\ provider # "other" /\ ~assembled.made
  /\ assembled' = [made |-> TRUE, answer |-> a,
       response |-> Assemble(IF provider = "anthropic" THEN ServiceAnthropic(a) ELSE ServiceOpenAI(a))]
  /\ UNCHANGED <<provider, streaming, streamTurn, answer, chunks, toolUse, currentTool, stopReason,
                 results, chat, executed>>

StreamProgress == (\E a \in StreamAnswers : StartTurn(a)) \/ ReadChunk \/ StreamEnds \/ RunTool \/ ResultsSent

StreamNext ==
  \/ ~assembled.made /\ StreamProgress
  \/ StreamBreaks
  \/ \E a \in StreamAnswers : AssembleFromStream(a)

StreamSpec == StreamInit /\ [][StreamNext]_streamVars

-----------------------------------------------------------------------------
ContentOf(type) == SelectSeq(assembled.response.content, LAMBDA c : c.type = type)

\* A call of a tool is given its own input and, before the next turn, exactly one result in
\* its order; a guarded tool runs only with approval, and none runs of an answer that was cut
\* off.  And however the pieces come, an assembled response holds all of the text in order and
\* says "tool_use" when there is a call.  Of the calls of a whole answer it holds each with its
\* own input where a call ends before the next one starts (Anthropic); where they end
\* together (OpenAI) the last one.
StreamingSound ==
  /\ \A k \in DOMAIN toolUse :
       /\ \A j \in DOMAIN toolUse[k].pieces : toolUse[k].pieces[j] = toolUse[k].block
       /\ streaming = "tools" => Len(toolUse[k].pieces) = 2
  /\ \A i \in 2 .. Len(chat) : chat[i].role = "user" => chat[i].tools = chat[i - 1].tools
  /\ \A e \in executed :
       /\ e.tool \in IF e.approved THEN GuardedTools ELSE FreeTools
       /\ e.whole /\ e.stop = "tool_use"
  /\ assembled.made =>
       LET asked == ToolsOf(assembled.answer)
       IN /\ FlattenSeq([i \in DOMAIN ContentOf("text") |-> ContentOf("text")[i].of]) = TextsOf(assembled.answer)
          /\ (assembled.response.stop = "tool_use") = (asked # <<>>)
          /\ assembled.answer.stop = "tool_use" =>
               \A i \in IF provider = "anthropic" THEN ToSet(asked) ELSE {Last(asked)} :
                 [type |-> "tool_use", of |-> <<i>>, input |-> <<i, i>>] \in ToSet(ContentOf("tool_use"))

\* "Drop-in replacement for queryLoop when the provider supports streaming." (line 4): an answer
\* that asks for tools is not the loop's last one while turns are left, whatever the provider.
StreamedToolsRun ==
  streaming = "complete" /\ streamTurn < MaxStreamTurns => answer.stop # "tool_use"
=============================================================================
