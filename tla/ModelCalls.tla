------------------------------ MODULE ModelCalls ------------------------------
(***************************************************************************)
(* packages/core/src: a call of a model.  ProviderRouter.ts picks the        *)
(* provider, the providers translate the conversation to the shape of their  *)
(* API and its answer back, and QueryEngine.ts tries again with growing       *)
(* delays, depending on the error.                                           *)
(***************************************************************************)
EXTENDS Naturals, Sequences, SequencesExt, FiniteSets

CONSTANTS
  MaxRetries,     \* retry.maxRetries
  Conversations,  \* conversations: messages of a role and blocks "text", or of a call or result
  Names,          \* provider names in settings and environment, valid or not
  Texts           \* texts of errors, each the set of its telling words

\* What an error's text may hold: "rate" or 429, "context", "length", a name of a network error,
\* the number of a gateway's error (502-504), or of a denial (401, 403, invalid api key).
Words == {"rate", "context", "length", "network", "gateway", "denied"}

ASSUME CallsAssumption == MaxRetries \in Nat /\ Texts \subseteq SUBSET Words /\ {} \in Texts

VARIABLES
  engine,         \* "idle", "calling", "sleeping", "answered" or "thrown"
  attempt,
  lastError,      \* text of the last error
  slept,          \* history: delays slept, in units of initialDelayMs
  failed,         \* history: texts of the errors of the calls made, in order
  aborted,        \* the caller's signal
  config,         \* resolveProvider's configuration
  sent            \* the conversation, as given and as translated

callVars == <<engine, attempt, lastError, slept, failed, aborted, config, sent>>

Known == {"anthropic", "openai", "ollama", "lmstudio", "deepseek", "openrouter"}
Keyed == Known \ {"ollama", "lmstudio"}

\* resolveProvider: settings win over the environment; ollama otherwise.  Only anthropic
\* insists on a key, the others send a placeholder.
ResolvedName(c) == IF c.setting # "unset" THEN c.setting ELSE IF c.env # "unset" THEN c.env ELSE "ollama"
KeyGiven(c) == c.key \/ (c.envKey /\ ResolvedName(c) \in Keyed)
Rejected(c) == ResolvedName(c) \notin Known \/ (ResolvedName(c) = "anthropic" /\ ~KeyGiven(c))

CallsInit ==
  /\ config \in [setting : Names \cup {"unset"}, env : Names \cup {"unset"}, key : BOOLEAN, envKey : BOOLEAN]
  /\ engine = IF Rejected(config) THEN "thrown" ELSE "idle"
  /\ attempt = 0 /\ lastError = {} /\ slept = <<>> /\ failed = <<>>
  /\ aborted = FALSE
  /\ sent = [given |-> <<>>, made |-> <<>>]

-----------------------------------------------------------------------------
\* OpenAIShim.ts: toOpenAIMessages.  A system prompt first; results become messages of role
\* "tool", and text before a result a message of its own.
IsResult(b) == b.type = "tool_result"
OfRole(role, blocks) == [role |-> role, blocks |-> blocks]

UserMessages(blocks) ==
  LET Put(out, b) ==
        IF IsResult(b) THEN Append(out, OfRole("tool", <<b>>))
        ELSE IF out # <<>> /\ Last(out).role = "user"
        THEN [out EXCEPT ![Len(out)].blocks = Append(@, b)]
        ELSE Append(out, OfRole("user", <<b>>))
  IN FoldLeft(Put, <<>>, SelectSeq(blocks, LAMBDA b : b.type \in {"text", "tool_result"}))

AssistantMessage(blocks) ==
  OfRole("assistant", SelectSeq(blocks, LAMBDA b : b.type = "text")
                        \o SelectSeq(blocks, LAMBDA b : b.type = "tool_use"))

ToOpenAI(conversation) ==
  <<OfRole("system", <<>>)>> \o FlattenSeq([i \in DOMAIN conversation |->
    LET m == conversation[i]
    IN CASE m.role = "user" -> UserMessages(m.blocks)
         [] m.role = "assistant" -> <<AssistantMessage(m.blocks)>>
         [] OTHER -> <<OfRole("system", m.blocks)>>])

\* AnthropicProvider.ts: toAnthropicMessage; a system message becomes a user's note
ToAnthropic(conversation) ==
  [i \in DOMAIN conversation |->
    IF conversation[i].role = "system" THEN OfRole("user", conversation[i].blocks) ELSE conversation[i]]

Call(conversation) ==
  /\ engine = "idle"
  /\ engine' = "calling"
  /\ sent' = [given |-> conversation,
              made |-> IF ResolvedName(config) = "anthropic" THEN ToAnthropic(conversation)
                       ELSE ToOpenAI(conversation)]
  /\ UNCHANGED <<attempt, lastError, slept, failed, aborted, config>>

Answers ==
  /\ engine = "calling" /\ ~aborted
  /\ engine' = "answered"
  /\ UNCHANGED <<attempt, lastError, slept, failed, aborted, config, sent>>

\* classifyError: the first telling word decides
Classify(text) ==
  CASE "rate" \in text -> "rate_limit"
    [] "rate" \notin text /\ {"context", "length"} \subseteq text -> "context_overflow"
    [] OTHER -> IF text \cap {"network", "gateway"} = {} /\ "denied" \in text THEN "fatal" ELSE "transient"

\* Mutant: an overflow is tried again.
FinalOnlyFatal == {"fatal"}

Final == {"context_overflow", "fatal"}

\* an aborted call rejects at once, with a text that tells nothing
CallRejects(text) ==
  /\ engine = "calling"
  /\ aborted => text = {}
  /\ lastError' = text /\ failed' = Append(failed, text)
  /\ engine' = IF Classify(text) \in Final \/ attempt = MaxRetries THEN "thrown" ELSE "sleeping"
  /\ UNCHANGED <<attempt, slept, aborted, config, sent>>

SleepOver ==
  /\ engine = "sleeping"
  /\ slept' = Append(slept, 2 ^ attempt)
  /\ attempt' = attempt + 1
  /\ engine' = "calling"
  /\ UNCHANGED <<lastError, failed, aborted, config, sent>>

AbortSignal ==
  /\ engine \in {"calling", "sleeping"} /\ ~aborted
  /\ aborted' = TRUE
  /\ UNCHANGED <<engine, attempt, lastError, slept, failed, config, sent>>

CallProgress ==
  \/ Answers \/ SleepOver
  \/ \E text \in Texts : CallRejects(text)

CallsNext ==
  \/ CallProgress \/ AbortSignal
  \/ \E conversation \in Conversations : Call(conversation)

-----------------------------------------------------------------------------
Flat(ms) == FlattenSeq([i \in DOMAIN ms |-> ms[i].blocks])
ByType(bs) == [type \in {"text", "tool_use"} |-> SelectSeq(bs, LAMBDA b : b.type = type)]

\* Errors that no retry mends, by their text: the context is too long, or the key is refused;
\* unless the text also speaks of a rate limit, or a denial of the network or a gateway.
Hopeless(text) ==
  /\ "rate" \notin text
  /\ \/ {"context", "length"} \subseteq text
     \/ "denied" \in text /\ text \cap {"network", "gateway"} = {}

\* No more than the retries are made, and none after an error that no retry mends; a call gives
\* up only on such an error or when the retries are used up, and the error thrown is the last
\* one.  A translated conversation keeps its text, calls and results, and where the results of
\* an answer came first they still follow it directly.
CallsSound ==
  /\ Len(failed) <= MaxRetries + 1
  /\ \A i \in 1 .. Len(failed) - 1 : ~Hopeless(failed[i])
  /\ engine = "thrown" /\ failed # <<>> =>
       /\ lastError = Last(failed)
       /\ Hopeless(lastError) \/ Len(failed) = MaxRetries + 1
  /\ \A i \in DOMAIN slept : slept[i] = 2 ^ (i - 1)
  /\ ByType(Flat(sent.made)) = ByType(Flat(sent.given))
  /\ SelectSeq(Flat(sent.made), IsResult) = SelectSeq(Flat(sent.given), IsResult)
  /\ \A i \in DOMAIN sent.made : sent.made[i].role = "tool" =>
       sent.made[i - 1].role \in {"tool", "assistant"}
         \/ \E m \in ToSet(sent.given) : m.role = "user" /\ \E j \in 2 .. Len(m.blocks) :
              IsResult(m.blocks[j]) /\ m.blocks[j - 1].type = "text"

\* A call comes to an answer or an error, whatever fails in between.
CallsEnd == engine = "calling" ~> engine \in {"answered", "thrown"}
=============================================================================
