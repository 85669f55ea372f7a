------------------------------ MODULE CliSession ------------------------------
(***************************************************************************)
(* apps/cowork-cli: a process of the command line.  session.ts starts the    *)
(* services that were asked for and shuts them down; index.ts runs one       *)
(* prompt or hands over to the REPL, and shuts down afterwards; repl.ts      *)
(* turns lines into turns over one list of messages, also when a second line *)
(* is there before the first is answered.                                    *)
(***************************************************************************)
EXTENDS Naturals, Sequences, SequencesExt

CONSTANTS
  Wishes,         \* sets of services an operator enables
  MaxInputs,      \* bound: lines typed
  MaxContext      \* MAX_CONTEXT_MESSAGES

ASSUME CliAssumption == MaxInputs \in Nat /\ MaxContext \in Nat \ {0}

VARIABLES
  flags,          \* the command line and the environment
  cli,            \* "starting", "oneshot", "repl", "returned", "thrown" or "exited"
  started,        \* steps of buildSessionRuntime done
  up,             \* services running in the process
  ambient,        \* the ambient policy: "none" or "nested"
  sessionRecord,  \* status of the session's record: "absent", "active", "complete"
  stopping,       \* 0, or the step of shutdown() to be done next
  messages,       \* the REPL's conversation: user and assistant messages by line
  transcript,     \* the transcript on disk
  lines,          \* by line: "clearing", "recording", "recorded", "asking", "saving", "saved" or "over"
  contexts,       \* history: the messages each turn was given
  dropped,        \* history: the messages that /clear took out of the conversation
  overlapped      \* history: the lines that were under way together with another

serviceVars == <<flags, cli, started, up, ambient, sessionRecord, stopping>>
replVars == <<messages, transcript, lines, contexts, dropped, overlapped>>
cliVars == <<serviceVars, replVars>>

StartSteps == <<"memory", "record", "kairos", "mcp", "gateway", "telegram", "hermes">>
StopSteps == <<"telegram", "gateway", "kairos", "record", "mcp", "ambient">>
Stopped == Len(StopSteps) + 1

CliInit ==
  /\ flags \in [oneshot : BOOLEAN, approval : {"allow", "ask", "deny"},
                resume : {"no", "known", "unknown"}, wants : Wishes]
  /\ cli = "starting" /\ started = 0 /\ up = {}
  /\ ambient = "none"
  /\ sessionRecord = IF flags.resume = "known" THEN "complete" ELSE "absent"
  /\ stopping = 0
  /\ messages = <<>> /\ transcript = <<>> /\ lines = <<>> /\ contexts = <<>>
  /\ dropped = {} /\ overlapped = {}

-----------------------------------------------------------------------------
\* AgentPolicy.ts.  Mutant: the base's own keys win over the overrides.
DeriveKeeping(base, overrides) == base

\* deriveNestedPolicy: overrides win, but the level is the lower of both
Derive(base, overrides) ==
  [level |-> IF base.level < overrides.level THEN base.level ELSE overrides.level,
   approval |-> overrides.approval]

\* requestApproval of the main loop: allow with --yes, else ask on a terminal, or deny
MainPolicy(level) == [level |-> level, approval |-> flags.approval]
NestedPolicy(level) == Derive(MainPolicy(level), [level |-> level, approval |-> "deny"])
RemotePolicy(level) == Derive(NestedPolicy(level), [level |-> 0, approval |-> "deny"])

-----------------------------------------------------------------------------
NextStep == StartSteps[started + 1]

\* Scheduled tasks have timers of their own, which no stop() of the daemon clears.
Brings(step) ==
  IF step \notin flags.wants THEN {}
  ELSE IF step = "kairos" /\ "tasks" \in flags.wants THEN {"kairos", "tasks"} ELSE {step}

StartStep ==
  /\ cli = "starting" /\ started < Len(StartSteps)
  /\ NextStep = "record" => flags.resume # "unknown"
  /\ started' = started + 1
  /\ up' = up \cup Brings(NextStep)
  /\ sessionRecord' = IF NextStep = "record" /\ flags.resume = "no" THEN "active" ELSE sessionRecord
  /\ ambient' = IF NextStep = "record" THEN "nested" ELSE ambient
  /\ UNCHANGED <<flags, cli, stopping, replVars>>

Exit ==
  /\ cli' = "exited" /\ up' = {}
  /\ UNCHANGED <<flags, started, ambient, sessionRecord, stopping, replVars>>

\* a step throws: the disk, an unknown id, a surface without a token
StartFails == cli = "starting" /\ started < Len(StartSteps) /\ Exit

StartOneShot ==
  /\ cli = "starting" /\ started = Len(StartSteps) /\ flags.oneshot
  /\ cli' = "oneshot"
  /\ UNCHANGED <<flags, started, up, ambient, sessionRecord, stopping, replVars>>

\* the prompt is answered or refused, or the record cannot be written; finally, shutdown()
OneShotDone ==
  /\ cli = "oneshot"
  /\ cli' \in {"returned", "thrown"} /\ stopping' = 1
  /\ sessionRecord' \in {sessionRecord, "complete"}
  /\ UNCHANGED <<flags, started, up, ambient, replVars>>

\* runRepl() returns as soon as its handlers are registered, and main()'s finally follows
StartRepl ==
  /\ cli = "starting" /\ started = Len(StartSteps) /\ ~flags.oneshot
  /\ cli' = "repl" /\ stopping' = 1
  /\ UNCHANGED <<flags, started, up, ambient, sessionRecord, replVars>>

\* Mutant: a stopped daemon is not waited for, and forgotten.
StopsWithoutKairos(step) == {step} \ {"kairos"}

Stops(step) == {step}

ShutdownStep ==
  /\ stopping \in 1 .. Len(StopSteps) /\ cli # "exited"
  /\ LET step == StopSteps[stopping]
     IN /\ up' = up \ Stops(step)
        /\ sessionRecord' = IF step = "record" /\ sessionRecord # "absent" THEN "complete" ELSE sessionRecord
        /\ ambient' = IF step = "ambient" THEN "none" ELSE ambient
  /\ stopping' = stopping + 1
  /\ UNCHANGED <<flags, cli, started, replVars>>

\* the record cannot be written: shutdown() rejects, and main() with it
ShutdownFails ==
  /\ stopping \in 1 .. Len(StopSteps) /\ StopSteps[stopping] = "record" /\ cli # "exited"
  /\ Exit

\* main() has thrown, and process.exit follows; or nothing is left that keeps the event loop alive
LoopEmpty ==
  /\ stopping = Stopped
  /\ cli = "thrown" \/ (cli = "returned" /\ up = {})
  /\ Exit

-----------------------------------------------------------------------------
User(n) == [role |-> "user", line |-> n]
Assistant(n) == [role |-> "assistant", line |-> n]
Recent(n, s) == SubSeq(s, IF Len(s) > n THEN Len(s) - n + 1 ELSE 1, Len(s))

Underway == {n \in DOMAIN lines : lines[n] # "over"}

\* a line that ends in a backslash goes to the history file and nowhere else
Entered == [prompt |-> "recording", clear |-> "clearing", continued |-> "over"]

\* pause() does not hold back lines that have been read: one may come while others are under way
Type(kind) ==
  /\ cli = "repl" /\ Len(lines) < MaxInputs
  /\ lines' = Append(lines, Entered[kind])
  /\ contexts' = Append(contexts, <<>>)
  /\ overlapped' = IF kind = "continued" \/ Underway = {} THEN overlapped
                   ELSE overlapped \cup Underway \cup {Len(lines) + 1}
  /\ UNCHANGED <<serviceVars, messages, transcript, dropped>>

Goes(n, from, to) ==
  /\ cli = "repl" /\ lines[n] \in from
  /\ lines' = [lines EXCEPT ![n] = to]
  /\ UNCHANGED <<serviceVars, overlapped>>

\* /clear has been dispatched
Clear(n) ==
  /\ Goes(n, {"clearing"}, "over")
  /\ messages' = <<>>
  /\ dropped' = dropped \cup ToSet(messages)
  /\ UNCHANGED <<transcript, contexts>>

\* Mutant: the context is taken before the message is added.
GivenBefore(n) == Recent(MaxContext, messages)

Given(n) == Recent(MaxContext, Append(messages, User(n)))

\* appendTranscript is on disk; its continuation follows later
PromptRecorded(n) ==
  /\ Goes(n, {"recording"}, "recorded")
  /\ transcript' = Append(transcript, User(n))
  /\ UNCHANGED <<messages, contexts, dropped>>

AskModel(n) ==
  /\ Goes(n, {"recorded"}, "asking")
  /\ messages' = Append(messages, User(n))
  /\ contexts' = [contexts EXCEPT ![n] = Given(n)]
  /\ UNCHANGED <<transcript, dropped>>

\* "complete" with a text; the on-complete hook has updated the session's record
Answered(n) == Goes(n, {"asking"}, "saving") /\ UNCHANGED <<messages, transcript, contexts, dropped>>

AnswerRecorded(n) ==
  /\ Goes(n, {"saving"}, "saved")
  /\ transcript' = Append(transcript, Assistant(n))
  /\ UNCHANGED <<messages, contexts, dropped>>

AnswerKept(n) ==
  /\ Goes(n, {"saved"}, "over")
  /\ messages' = Append(messages, Assistant(n))
  /\ UNCHANGED <<transcript, contexts, dropped>>

\* an empty answer, or an error that is printed
TurnFails(n) ==
  /\ Goes(n, {"clearing", "recording", "asking", "saving"}, "over")
  /\ UNCHANGED <<messages, transcript, contexts, dropped>>

\* /exit, or the end of the input once shutdown() was called
Leave == cli = "repl" /\ Exit

CliNext ==
  \/ StartStep \/ StartFails \/ StartOneShot \/ OneShotDone \/ StartRepl
  \/ ShutdownStep \/ ShutdownFails \/ LoopEmpty \/ Leave
  \/ \E kind \in {"prompt", "continued", "clear"} : Type(kind)
  \/ \E n \in DOMAIN lines :
       \/ Clear(n) \/ PromptRecorded(n) \/ AskModel(n)
       \/ Answered(n) \/ AnswerRecorded(n) \/ AnswerKept(n) \/ TurnFails(n)

CliSpec == CliInit /\ [][CliNext]_cliVars

CliProgress ==
  \/ StartStep \/ (StartFails /\ NextStep = "record" /\ flags.resume = "unknown")
  \/ StartOneShot \/ OneShotDone \/ ShutdownStep \/ LoopEmpty

-----------------------------------------------------------------------------
\* in the transcript, and soon in the conversation
OnTheWay ==
  {User(n) : n \in {m \in DOMAIN lines : lines[m] = "recorded"}} \cup
  {Assistant(n) : n \in {m \in DOMAIN lines : lines[m] = "saved"}}

\* Each turn is asked with its own prompt last.  In the transcript an answer follows its
\* prompt, other turns between them when lines overlap.  In the conversation it does so too,
\* unless a /clear came between; it follows directly when no other line was under way with
\* its own.  The conversation, what /clear took out of it and what is on its way make up the
\* transcript, nothing twice.  Agents below the main loop never approve, and remote callers
\* have the lowest level.
CliSound ==
  /\ \A n \in DOMAIN contexts : contexts[n] # <<>> =>
       Last(contexts[n]) = User(n) /\ Len(contexts[n]) <= MaxContext
  /\ \A s \in {messages, transcript} : IsInjective(s)
  /\ \A i \in DOMAIN transcript : transcript[i].role = "assistant" =>
       \E j \in 1 .. i - 1 : transcript[j] = User(transcript[i].line)
  /\ \A i \in DOMAIN messages : messages[i].role = "assistant" =>
       \/ User(messages[i].line) \in dropped
       \/ \E j \in 1 .. i - 1 : messages[j] = User(messages[i].line)
  /\ \A i \in DOMAIN messages : messages[i].role = "assistant" /\ messages[i].line \notin overlapped =>
       i > 1 /\ messages[i - 1] = User(messages[i].line)
  /\ ToSet(messages) \cup dropped \cup OnTheWay = ToSet(transcript)
  /\ \A level \in 0 .. 2 :
       /\ {NestedPolicy(level).approval, RemotePolicy(level).approval} = {"deny"}
       /\ NestedPolicy(level).level = level /\ RemotePolicy(level).level = 0

\* A single prompt, with no tool server that listens and no scheduled tasks that keep their
\* timers: the process is to let go of every service and end.
OneShot == flags.oneshot /\ flags.wants \cap {"hermes", "tasks"} = {}

\* "Explicit teardown; hooks no longer stop services after the first turn." (session.ts:75):
\* the services that were asked for are there while a turn of the REPL is under way.
ReplKeepsServices ==
  cli = "repl" /\ (\E n \in DOMAIN lines : lines[n] # "over") => flags.wants \subseteq up
=============================================================================
