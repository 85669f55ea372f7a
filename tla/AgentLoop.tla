------------------------------ MODULE AgentLoop ------------------------------
(***************************************************************************)
(* The agent loop of packages/core: queryLoop calls the model in turns,     *)
(* runs every tool call of an answer through executeTool (schema check,     *)
(* PermissionGate, approval, execution) and sends the results back with the *)
(* next call.  AutoCompactor may replace the history before a call, behind  *)
(* a circuit breaker that outlives the prompt.  The REPL (apps/cowork-cli)  *)
(* carries the conversation from prompt to prompt, and starts a turn with   *)
(* every line it reads, whether or not another is under way: one turn is    *)
(* followed step by step, the others by what they do to what all share, the *)
(* conversation and the compactor.                                          *)
(*                                                                          *)
(* A message keeps its role and the ids of its tool_use blocks (assistant)  *)
(* or tool_result blocks (user); text is left out.                          *)
(***************************************************************************)
EXTENDS Integers, FiniteSets, Sequences, SequencesExt

CONSTANTS
  Tools,          \* tools offered to the model
  Level,          \* Level[t]: permissionLevel of the tool
  AsksFirst,      \* tools with requiresApproval
  SessionLevel,   \* permissionLevel of the session
  HasApprover,    \* an approver is configured
  MaxTurns,       \* config.maxTurns
  MaxContext,     \* MAX_CONTEXT_MESSAGES of the REPL
  MaxFailures,    \* maxConsecutiveFailures of the compactor
  MaxBlocks,      \* bound: tool calls in one answer
  MaxPrompts,     \* bound: prompts that are followed, one after the other
  Others,         \* the other turns of the session
  NoTool

ASSUME ToolsAssumption ==
  /\ Level \in [Tools -> Int] /\ AsksFirst \subseteq Tools /\ NoTool \notin Tools
  /\ SessionLevel \in Int /\ HasApprover \in BOOLEAN
ASSUME LimitsAssumption ==
  /\ MaxTurns \in Nat \ {0} /\ MaxContext \in Nat \ {0} /\ MaxFailures \in Nat \ {0}
  /\ MaxBlocks \in Nat /\ MaxPrompts \in Nat
ASSUME OthersAssumption == IsFiniteSet(Others)

VARIABLES
  pc,         \* where the generator is suspended; "idle" between prompts
  prompts,    \* prompts so far
  convo,      \* messages of the REPL: roles only
  turn,       \* the turn counter
  hist,       \* the history of this prompt
  todo,       \* ids of tool calls still to be handled in this turn
  results,    \* ids of tool results collected in this turn
  tool,       \* the tool of the call at the head of todo
  failures,   \* AutoCompactor.consecutiveFailures
  disabled,   \* AutoCompactor.disabled
  beside,     \* beside[o]: where the other turn o is
  aborted,    \* abortSignal.aborted
  completes,  \* "complete" events of this prompt
  thrown,     \* this prompt ended with an exception of a hook
  granted,    \* history: calls of this prompt an approver allowed
  ran         \* history: calls of this prompt whose tool code ran

session == <<failures, disabled, beside>>
vars == <<pc, prompts, convo, turn, hist, todo, results, tool, failures, disabled,
          beside, aborted, completes, thrown, granted, ran>>

Dangerous == 5
Message(role, ids) == [role |-> role, ids |-> ids]
CallIds == (0 .. MaxTurns - 1) \X (1 .. MaxBlocks)

\* slice(-n)
LastN(s, n) == IF Len(s) <= n THEN s ELSE SubSeq(s, Len(s) - n + 1, Len(s))

Init ==
  /\ pc = "idle" /\ prompts = 0 /\ convo = <<>>
  /\ turn = 0 /\ hist = <<>> /\ todo = <<>> /\ results = <<>> /\ tool = NoTool
  /\ failures = 0 /\ disabled = FALSE /\ beside = [o \in Others |-> "new"]
  /\ aborted = FALSE /\ completes = 0 /\ thrown = FALSE
  /\ granted = {} /\ ran = {}

-----------------------------------------------------------------------------
(* runTurn of the REPL.                                                     *)

Prompt ==
  /\ pc = "idle" /\ prompts < MaxPrompts
  /\ prompts' = prompts + 1
  /\ convo' = Append(convo, "user")
  /\ hist' = [i \in 1 .. Len(LastN(convo', MaxContext)) |->
                Message(LastN(convo', MaxContext)[i], <<>>)]
  /\ pc' = "top" /\ turn' = 0
  /\ completes' = 0 /\ thrown' = FALSE /\ granted' = {} /\ ran' = {}
  /\ UNCHANGED <<todo, results, tool, session, aborted>>

\* The complete event.  The REPL keeps an answer that is not empty; what is left of
\* the generator is dropped.
Complete(answered) ==
  /\ pc' = "idle"
  /\ completes' = completes + 1
  /\ convo' = IF answered THEN Append(convo, "assistant") ELSE convo
  /\ hist' = <<>> /\ todo' = <<>> /\ results' = <<>> /\ tool' = NoTool

\* A hook (or the approver) throws: the generator rejects, no complete event.  No hook
\* runs while the compactor waits for its summary.
HookThrows ==
  /\ pc \notin {"idle", "compact"}
  /\ pc' = "idle" /\ thrown' = TRUE
  /\ hist' = <<>> /\ todo' = <<>> /\ results' = <<>> /\ tool' = NoTool
  /\ UNCHANGED <<prompts, convo, turn, session, aborted, completes, granted, ran>>

Abort ==
  /\ ~aborted
  /\ aborted' = TRUE
  /\ UNCHANGED <<pc, prompts, convo, turn, hist, todo, results, tool, session,
                 completes, thrown, granted, ran>>

-----------------------------------------------------------------------------
(* The top of a turn.                                                       *)

\* Mutant: one turn too many.
TurnsLeftOffByOne == turn <= MaxTurns /\ ~aborted

TurnsLeft == turn < MaxTurns /\ ~aborted

\* Out of turns or aborted: the commentary of the last turn, if any, is the answer.
StopLoop ==
  /\ pc = "top" /\ ~TurnsLeft
  /\ \E answered \in BOOLEAN : (answered => turn > 0) /\ Complete(answered)
  /\ UNCHANGED <<prompts, turn, session, aborted, thrown, granted, ran>>

\* Below the threshold, breaker open, or fewer than four messages: no summary call.
StartTurn ==
  /\ pc = "top" /\ TurnsLeft
  /\ pc' = "call"
  /\ UNCHANGED <<prompts, convo, turn, hist, todo, results, tool, session, aborted,
                 completes, thrown, granted, ran>>

StartCompaction ==
  /\ pc = "top" /\ TurnsLeft
  /\ ~disabled /\ Len(hist) >= 4
  /\ pc' = "compact"
  /\ UNCHANGED <<prompts, convo, turn, hist, todo, results, tool, session, aborted,
                 completes, thrown, granted, ran>>

\* Mutant: keeps one message less.
CompactedOne(h) == <<Message("user", <<>>)>> \o LastN(h, 1)

\* The summary and the last two messages replace the history.
Compacted(h) == <<Message("user", <<>>)>> \o LastN(h, 2)

CompactionSucceeds ==
  /\ pc = "compact"
  /\ pc' = "call"
  /\ hist' = Compacted(hist)
  /\ failures' = 0
  /\ UNCHANGED <<prompts, convo, turn, todo, results, tool, disabled, beside, aborted,
                 completes, thrown, granted, ran>>

\* Mutants: the breaker opens one failure late; a failed compaction restarts the turn.
TrippedLate(n) == n > MaxFailures
CompactionRetries ==
  /\ pc = "compact"
  /\ pc' = "top"
  /\ UNCHANGED <<prompts, convo, turn, hist, todo, results, tool, session, aborted,
                 completes, thrown, granted, ran>>

Tripped(n) == n >= MaxFailures

CompactionFails ==
  /\ pc = "compact"
  /\ pc' = "call"
  /\ failures' = failures + 1
  /\ disabled' = (disabled \/ Tripped(failures'))
  /\ UNCHANGED <<prompts, convo, turn, hist, todo, results, tool, beside, aborted,
                 completes, thrown, granted, ran>>

-----------------------------------------------------------------------------
(* The model call.                                                          *)

\* Mutant: the error ends the generator without a complete event.
ModelThrowsSilently ==
  /\ pc = "call"
  /\ pc' = "idle"
  /\ hist' = <<>>
  /\ UNCHANGED <<prompts, convo, turn, todo, results, tool, session, aborted, completes,
                 thrown, granted, ran>>

ModelThrows ==
  /\ pc = "call"
  /\ Complete(FALSE)
  /\ UNCHANGED <<prompts, turn, session, aborted, thrown, granted, ran>>

\* stopReason # "tool_use"
ModelAnswers ==
  /\ pc = "call"
  /\ \E answered \in BOOLEAN : Complete(answered)
  /\ UNCHANGED <<prompts, turn, session, aborted, thrown, granted, ran>>

ModelCallsTools(n) ==
  LET ids == [i \in 1 .. n |-> <<turn, i>>]
  IN /\ pc = "call"
     /\ hist' = Append(hist, Message("assistant", ids))
     /\ todo' = ids
     /\ results' = <<>>
     /\ pc' = "tools"
     /\ UNCHANGED <<prompts, convo, turn, tool, session, aborted, completes, thrown,
                    granted, ran>>

-----------------------------------------------------------------------------
(* One tool call: executeTool.                                              *)

Answer ==
  /\ results' = Append(results, Head(todo))
  /\ todo' = Tail(todo)
  /\ tool' = NoTool
  /\ pc' = "tools"

ValidLevel(l) == l \in 0 .. Dangerous
GateRefuses(t) == ~ValidLevel(SessionLevel) \/ ~ValidLevel(Level[t]) \/ SessionLevel < Level[t]
\* Mutant: only DANGEROUS tools ask.
GateAsksAboveFull(t) == ~GateRefuses(t) /\ Level[t] >= Dangerous

GateAsks(t) == ~GateRefuses(t) /\ (t \in AsksFirst \/ Level[t] >= Dangerous)

\* unknown tool, input that fails the schema, or a tool above the session's level
RejectCall ==
  /\ pc = "tools" /\ todo # <<>>
  /\ Answer
  /\ UNCHANGED <<prompts, convo, turn, hist, session, aborted, completes, thrown, granted, ran>>

AskApproval(t) ==
  /\ pc = "tools" /\ todo # <<>>
  /\ GateAsks(t) /\ HasApprover
  /\ tool' = t /\ pc' = "approval"
  /\ UNCHANGED <<prompts, convo, turn, hist, todo, results, session, aborted, completes,
                 thrown, granted, ran>>

Approve ==
  /\ pc = "approval"
  /\ granted' = granted \cup {Head(todo)}
  /\ pc' = "execute"
  /\ UNCHANGED <<prompts, convo, turn, hist, todo, results, tool, session, aborted,
                 completes, thrown, ran>>

Deny ==
  /\ pc = "approval"
  /\ Answer
  /\ UNCHANGED <<prompts, convo, turn, hist, session, aborted, completes, thrown, granted, ran>>

Permit(t) ==
  /\ pc = "tools" /\ todo # <<>>
  /\ ~GateRefuses(t) /\ ~GateAsks(t)
  /\ tool' = t /\ pc' = "execute"
  /\ UNCHANGED <<prompts, convo, turn, hist, todo, results, session, aborted, completes,
                 thrown, granted, ran>>

\* tool.execute returns, or throws and is turned into an error result
Execute ==
  /\ pc = "execute"
  /\ ran' = ran \cup {<<Head(todo), tool>>}
  /\ Answer
  /\ UNCHANGED <<prompts, convo, turn, hist, session, aborted, completes, thrown, granted>>

EndTurn ==
  /\ pc = "tools" /\ todo = <<>>
  /\ hist' = Append(hist, Message("user", results))
  /\ turn' = turn + 1
  /\ pc' = "top"
  /\ UNCHANGED <<prompts, convo, todo, results, tool, session, aborted, completes, thrown,
                 granted, ran>>

-----------------------------------------------------------------------------
(* The other turns: a line is read while this turn is under way.             *)

own == <<pc, prompts, turn, hist, todo, results, tool, aborted, completes, thrown,
         granted, ran>>

OtherPrompt(o) ==
  /\ beside[o] = "new"
  /\ beside' = [beside EXCEPT ![o] = "turn"]
  /\ convo' = Append(convo, "user")
  /\ UNCHANGED <<own, failures, disabled>>

OtherCompacts(o) ==
  /\ beside[o] = "turn" /\ ~disabled
  /\ beside' = [beside EXCEPT ![o] = "compact"]
  /\ UNCHANGED <<own, convo, failures, disabled>>

\* A summary that comes after the breaker opened clears the row and leaves it open.
OtherCompactionSucceeds(o) ==
  /\ beside[o] = "compact"
  /\ beside' = [beside EXCEPT ![o] = "turn"]
  /\ failures' = 0
  /\ UNCHANGED <<own, convo, disabled>>

OtherCompactionFails(o) ==
  /\ beside[o] = "compact"
  /\ beside' = [beside EXCEPT ![o] = "turn"]
  /\ failures' = failures + 1
  /\ disabled' = (disabled \/ Tripped(failures'))
  /\ UNCHANGED <<own, convo>>

\* The turn ends: with an answer that is kept, with none, or with an exception.
OtherEnds(o) ==
  /\ beside[o] = "turn"
  /\ beside' = [beside EXCEPT ![o] = "over"]
  /\ convo' \in {convo, Append(convo, "assistant")}
  /\ UNCHANGED <<own, failures, disabled>>

OtherStep(o) ==
  \/ OtherPrompt(o) \/ OtherCompacts(o) \/ OtherCompactionSucceeds(o)
  \/ OtherCompactionFails(o) \/ OtherEnds(o)

-----------------------------------------------------------------------------
LoopStep ==
  \/ StopLoop \/ StartTurn \/ StartCompaction \/ CompactionSucceeds \/ CompactionFails
  \/ ModelThrows \/ ModelAnswers \/ \E n \in 0 .. MaxBlocks : ModelCallsTools(n)
  \/ RejectCall \/ \E t \in Tools : AskApproval(t) \/ Permit(t)
  \/ Execute \/ EndTurn

Next ==
  \/ Prompt \/ LoopStep \/ Approve \/ Deny \/ HookThrows \/ Abort
  \/ \E o \in Others : OtherStep(o)

\* The loop's own steps and the calls it awaits (model, summary, tool) return or throw;
\* nothing makes the user answer an approval question.
Spec == Init /\ [][Next]_vars
FairSpec == Spec /\ WF_vars(LoopStep)

-----------------------------------------------------------------------------
Roles == {"user", "assistant"}
IdSeq(s) == \A i \in 1 .. Len(s) : s[i] \in CallIds

TypeOK ==
  /\ pc \in {"idle", "top", "compact", "call", "tools", "approval", "execute"}
  /\ prompts \in 0 .. MaxPrompts /\ turn \in 0 .. MaxTurns
  /\ convo \in Seq(Roles)
  /\ \A i \in 1 .. Len(hist) : hist[i].role \in Roles /\ IdSeq(hist[i].ids)
  /\ IdSeq(todo) /\ IdSeq(results)
  /\ tool \in Tools \cup {NoTool}
  /\ failures \in Nat /\ disabled \in BOOLEAN
  /\ beside \in [Others -> {"new", "turn", "compact", "over"}]
  /\ aborted \in BOOLEAN /\ completes \in Nat /\ thrown \in BOOLEAN
  /\ granted \subseteq CallIds /\ ran \subseteq CallIds \X Tools

\* Every history sent to the model answers each tool call of an assistant message
\* exactly once, in order, in the message right after it, holds no other results, and
\* ends with the user: through rejected, denied and failed calls and through compaction.
RequestsWellFormed ==
  pc = "call" =>
    /\ hist # <<>> /\ Last(hist).role = "user"
    /\ \A i \in 1 .. Len(hist) : hist[i].ids # <<>> =>
         IF hist[i].role = "assistant"
         THEN i < Len(hist) /\ hist[i + 1] = Message("user", hist[i].ids)
         ELSE i > 1 /\ hist[i - 1] = Message("assistant", hist[i].ids)

\* No tool code runs above the session's level, and none that must ask runs without an
\* approval given for that very call.
GatedExecution ==
  \A x \in ran :
    /\ Level[x[2]] \in 0 .. SessionLevel
    /\ x[2] \in AsksFirst \/ Level[x[2]] >= Dangerous => x[1] \in granted

\* The compactions under way, of all turns.
InFlight ==
  Cardinality({o \in Others : beside[o] = "compact"}) + (IF pc = "compact" THEN 1 ELSE 0)

\* "if compaction fails three times in a row, stop trying": the breaker opens with the
\* failure that fills the row, and with no other; it never closes, and no turn of the
\* session starts a compaction then.  Those that were under way in turns that overlap
\* still end, so the row passes its limit by as many at most.
BreakerHolds ==
  [][/\ ~disabled => (disabled' <=> failures' >= MaxFailures)
     /\ disabled => disabled' /\ InFlight' <= InFlight
     /\ failures' + InFlight' <= MaxFailures + Cardinality(Others)]_vars

\* A prompt yields exactly one complete event, or an exception of a hook and none.
CompleteOnce ==
  completes + (IF thrown THEN 1 ELSE 0) = (IF pc = "idle" /\ prompts > 0 THEN 1 ELSE 0)

\* A prompt's state is as it should be, and "complete" comes at most once for it.
LoopSound == TypeOK /\ CompleteOnce

\* Every prompt ends, unless an approval question is left unanswered for good.
PromptsEnd == <>[](pc = "approval") \/ (pc # "idle" ~> pc = "idle")
=============================================================================
