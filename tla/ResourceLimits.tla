---------------------------- MODULE ResourceLimits ----------------------------
(***************************************************************************)
(* packages/security/src/utils: the limits of every server are resolved from *)
(* the environment and from overrides of trusted callers (resourceLimits.ts),*)
(* and request bodies are read under one of them (boundedBody.ts).           *)
(***************************************************************************)
EXTENDS Integers, Sequences, SequencesExt, FiniteSetsExt

CONSTANTS
  Offered,        \* numbers an operator or a caller may give
  ChunkSizes,     \* sizes of the chunks of a body
  MaxChunks       \* bound: chunks of a body

ASSUME LimitsAssumption == Offered \subseteq Int /\ ChunkSizes \subseteq Nat /\ MaxChunks \in Nat

VARIABLES
  limit,          \* the limit looked up
  fromEnv,        \* its environment variable: unset, not a number, or a number
  override,       \* the caller's override, likewise
  resolved,       \* the limit as the server got it
  body,           \* "none", "reading", "text" or "too large"
  declared,       \* content-length, or Unset
  total,          \* bytes read
  held            \* bytes of chunks

limitVars == <<limit, fromEnv, override, resolved, body, declared, total, held>>

K == 1024
Minute == 60000

\* RANGES and DEFAULT_RESOURCE_LIMITS
Row(min, max, default) == [min |-> min, max |-> max, default |-> default]
Limits ==
  [maxSessions          |-> Row(1, 100000, 1000),
   sessionTtlMs         |-> Row(1000, 1440 * Minute, 30 * Minute),
   maxOutboxPrincipals  |-> Row(1, 100000, 1000),
   outboxTtlMs          |-> Row(1000, 1440 * Minute, 30 * Minute),
   maxStateBytes        |-> Row(K, 64 * K * K, 8 * K * K),
   maxSseConnections    |-> Row(1, 1024, 32),
   sseIdleMs            |-> Row(50, 60 * Minute, 5 * Minute),
   sseHeartbeatMs       |-> Row(10, Minute, 15000),
   maxRequestBytes      |-> Row(128, 8 * K * K, K * K),
   maxMcpLineBytes      |-> Row(128, 8 * K * K, K * K),
   maxMcpPending        |-> Row(1, 10000, 64),
   mcpRequestTimeoutMs  |-> Row(10, 10 * Minute, 30000),
   maxAuditScanBytes    |-> Row(K, 64 * K * K, 8 * K * K),
   maxAuditFiles        |-> Row(1, 365, 30),
   maxAuditRows         |-> Row(1, 100000, 10000),
   maxAuditLineBytes    |-> Row(256, K * K, 256 * K),
   maxAuditExportRows   |-> Row(1, 100000, 5000),
   maxAuditExportBytes  |-> Row(K, 64 * K * K, 8 * K * K),
   mcpMaxToolsPerServer |-> Row(1, 1000, 64),
   mcpMaxToolsTotal     |-> Row(1, 5000, 256),
   mcpMaxDescriptionChars |-> Row(64, 32000, 2000),
   maxTemplateFiles     |-> Row(1, 10000, 500),
   maxTemplateFileBytes |-> Row(1, 8 * K * K, 512 * K),
   maxTemplateTotalBytes |-> Row(1, 64 * K * K, 8 * K * K),
   templatePostInstallTimeoutMs |-> Row(100, 10 * Minute, Minute)]

Unset == [given |-> FALSE, number |-> FALSE, value |-> 0]
Garbage == [given |-> TRUE, number |-> FALSE, value |-> 0]
Given(n) == [given |-> TRUE, number |-> TRUE, value |-> n]
Inputs == {Unset, Garbage} \cup {Given(n) : n \in Offered}

LimitsInit ==
  /\ limit \in DOMAIN Limits
  /\ fromEnv = Unset /\ override = Unset
  /\ resolved = 0
  /\ body = "none" /\ declared = Unset /\ total = 0 /\ held = 0

\* Mutant: a number beyond the range is taken.
TakenAsGiven(input, row) == IF input.number THEN input.value ELSE row.default

\* clampInt: a number outside the range is not clamped, the default takes its place
ClampInt(input, row) ==
  IF input.number /\ input.value \in row.min .. row.max THEN input.value ELSE row.default

\* readBoundedIntEnv, then the override of mergeResourceLimits: its default is the built-in
\* one, whatever the environment said
Resolved(env, over) ==
  LET row == Limits[limit]
  IN IF over.given THEN ClampInt(over, row) ELSE ClampInt(env, row)

Resolve ==
  /\ resolved = 0
  /\ \E env \in Inputs, over \in Inputs :
       fromEnv' = env /\ override' = over /\ resolved' = Resolved(env, over)
  /\ UNCHANGED <<limit, body, declared, total, held>>

-----------------------------------------------------------------------------
\* readBoundedText under maxRequestBytes
Request(length) ==
  /\ limit = "maxRequestBytes" /\ resolved # 0 /\ body = "none"
  /\ declared' = length
  /\ body' = IF length.number /\ length.value > resolved THEN "too large" ELSE "reading"
  /\ UNCHANGED <<limit, fromEnv, override, resolved, total, held>>

\* Mutant: a chunk is kept before it is counted.
FitsBefore(size) == total <= resolved

Fits(size) == total + size <= resolved

Chunk(size) ==
  /\ body = "reading" /\ total <= (MaxChunks - 1) * Max(ChunkSizes)
  /\ total' = total + size
  /\ IF Fits(size) THEN held' = held + size /\ UNCHANGED body
     ELSE held' = 0 /\ body' = "too large"
  /\ UNCHANGED <<limit, fromEnv, override, resolved, declared>>

BodyEnds ==
  /\ body = "reading"
  /\ body' = "text"
  /\ UNCHANGED <<limit, fromEnv, override, resolved, declared, total, held>>

LimitsNext ==
  \/ Resolve \/ BodyEnds
  \/ \E length \in Inputs : Request(length)
  \/ \E size \in ChunkSizes : Chunk(size)

-----------------------------------------------------------------------------
\* Whatever is offered, a limit in force lies in its range; and no body takes more than the
\* limit, whether its length was declared, declared wrongly or not at all, while one that
\* fits is read in full.
LimitsHold ==
  /\ resolved # 0 => resolved \in Limits[limit].min .. Limits[limit].max
  /\ held <= resolved
  /\ body = "text" => held = total
  /\ body = "too large" => total > resolved \/ declared.value > resolved
=============================================================================
