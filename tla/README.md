# LocoWorker: a verification project

TLA+ models of LocoWorker, a TypeScript monorepo: an agent loop with tools, a command line,
a persistent scheduler, orchestrators, servers, stores and the applications around them. The
models are about what depends on the order in which callbacks, awaits, timers, files and
processes act. TLC checks small instances of them; TLAPS proves, for every value of the constants,
that the safety properties of the scheduler, the coordinator, the agent loop, the MCP client, the
gateway, the memory, the daemons and the servers' doors, and most of those of the procedures and
the stores, are invariants.

All paths below are relative to the repository's root as it appears under `src/`.

How to run, in this directory:

    tlc -config Scheduler.cfg TaskScheduler        # any run of PROJECT.json
    tlapm TaskSchedulerProofs.tla                  # the proofs

Contents: 1 inventory, 2 plan, 3 modules, 4 runs, 5 bounds and fairness, 6 proofs,
7 disagreements between the code and what it says, 8 what is not modelled.

## 1. Inventory

LocoWorker is one Node program per surface (CLI, daemons, gateway, Hermes server, dashboard,
desktop). Within a process there is one thread: a handler runs without interruption until its
next `await`, and everything that can go wrong does so *between* two halves of a handler.
Processes share nothing but files under the private state directory.

The core, each in a run of its own:

| Component | State | Operations | Interacts with | Hard part | What makes it correct |
|---|---|---|---|---|---|
| `TaskScheduler` (`packages/kairos/src/scheduler`) | `tasks` map, `timers` map, `tasks.json` | `schedule`, `cancel`, `fire`, `save`, `load`, `stop` | agent prompt (`onFire`), private files, IPC handlers | `fire` awaits a prompt of minutes while the task is cancelled or fires again; saves are not serialised; a crash tears the file | budgets are kept, a cancelled task is over, a finished one has no timer, no run stays "running" |
| `KairosDaemon` + `FileWatcher` (`packages/kairos/src/daemon`, `watcher`) | the process, a watcher | boot, IPC `schedule`/`cancel`, file event, shutdown | the scheduler | a file event walks over a list of tasks taken before the first prompt | a file event revives nothing |
| Private files (`packages/security/src/audit/secureFile.ts`) | one file | check, `open(O_TRUNC)`, write | scheduler, session files | the file is empty between open and write; two writers interleave | a reader finds a whole snapshot or nothing |
| `Coordinator`, `WorkerPool`, `AgentWorker`, `TaskQueue` (`packages/orchestrator/src`) | queue statuses, worker statuses, where each run awaits | `run`, decomposition, chunks, `executeOnAvailable`, results, synthesis, `stopAll` | model calls; concurrent runs share pool and queue | polling instead of a wait queue; chunk barrier; a worker stopped while busy becomes idle | one worker per task, limits kept, results recorded as they came, runs return |
| `queryLoop`, `executeTool`, `PermissionGate`, `AutoCompactor`, hooks, REPL (`packages/core/src`, `apps/cowork-cli/src`) | conversation, history, turn, compactor failures, abort flag | prompt, turn, model call, tool call, approval, compaction, abort | providers, tools, the user | history is rewritten by compaction while tool calls and results must stay paired; hooks throw anywhere; the breaker outlives a prompt | well-formed requests, no tool behind the gate without approval, one `complete` per prompt, prompts end |
| `McpStdioClient` (`packages/core/src/mcp`) | pending requests with timers, line buffer, child handle | `connect`, `call`, `disconnect`, stdout chunk, timeout, exit, error | a child process and its pipes | five events settle one promise; chunks cut lines anywhere; requests after exit | each request settled once and in the end, state bounded, lifecycle ends |
| `GatewayServer`, `CoworkGateway`, `RateLimiter`, `BoundedMap` (`packages/openclaw/src`, `packages/security/src/utils`) | request windows, chat histories, outboxes | authenticated message, reply, outbox read, eviction, expiry | the agent loop | arrays held by reference are changed in place by overlapping requests, while the map evicts and expires | limits kept, histories private, nothing fresh evicted |
| `MemorySystem`, `MemoryStore`, `MemoryIndex`, `AutoDream` (`packages/core/src/memdir`), `ConsolidationV2` (`packages/memory-v2/src`) | one file per entry, the derived index `MEMORY.md` | save, delete, list, index rebuild, consolidation with and without a model | sessions, tools and background jobs on one directory, without locks | a consolidation decides from a listing and then works through many file operations while others save and delete | no saved fact is lost, the index agrees with the files when clients take turns, consolidation leaves no duplicate |

Procedures that drive a model or a child process (run `commands`):

| Component | State | Operations | Hard part | What makes it correct |
|---|---|---|---|---|
| `OrchestratorEngine` (`packages/orchestrator/src`) | plan, remaining tasks, results | plan, rounds, synthesis | the plan is a model's text: duplicate ids, cycles, dependencies on nothing | gives up on exactly the tasks that can never be ready; every id gets as many results as tasks; a task knows its dependencies' results |
| `CouncilDebate` (`packages/orchestrator/src/council`) | rounds of speeches | debate, verdict | members fail in the middle of a round | everybody has heard all earlier rounds and nothing of the running one |
| `ReActLoop`, `ReActPlanner` (`packages/react-agent`, `packages/core/src/planning`) | steps, scratchpad | call, parse, act, observe | free text names tools | no tool that needs approval runs; observations stay in order |
| Research (`packages/research/src`) | steps with dependencies, findings | plan, execute, report | steps are started at once and poll for each other | a step knows the results it needs; the session ends |
| Simulations (`packages/mirofish/src`) | agents, beliefs, memories, actions | spawn, rounds in chunks, propagate | turns of a chunk end in any order; answers without a number | nobody sees its own round; one contribution per agent |
| `EvalRunner` (`packages/eval/src`) | cases, workspaces, results | batches, timeouts, assertions | the timeout does not stop the loop, which works on | a timed-out case passes only what an empty output meets |
| CLI session and REPL (`apps/cowork-cli/src`) | services, policy, messages, transcript | start, prompt, lines, shutdown | lines overlap, `/clear` among them; teardown from several places | answers follow their prompts, the transcript tells the conversation; nested agents never approve |
| `guardedFetch`, `NetworkSandbox` (`packages/security/src`) | the hop, pinned addresses, bytes | resolve, check, connect, read | names that resolve differently, redirects | only checked addresses are connected to |
| `BashTool` (`packages/core/src/tools/bash`) | the process group, timer, listener, output | spawn, output, timeout, abort, close | the shell ends before those who hold its output | the result is of this command, nothing is left behind |

Servers, daemons and model calls (run `servers`):

| Component | State | Operations | Hard part | What makes it correct |
|---|---|---|---|---|
| `HttpGuard` (`packages/security/src/network`) | failed credentials, nonces | authorize, verify webhook | cooldowns beside correct tokens; late and repeated messages | a token is never locked out; a message takes effect once |
| `HermesServer` (`packages/hermes/src`) | open streams, stdio buffer and queue | connect, four ways to end, stop, lines | four events end one stream; `stop()` resets the count | slots are given back once; replies keep the order |
| Limits and bodies (`packages/security/src/utils`) | a limit, a body being read | resolve, read | environment and overrides that are no numbers; wrong lengths | limits hold |
| Streaming loop and providers (`packages/core/src/streaming`, `services/streaming`) | chunks, blocks, history | read, run tools, assemble | blocks come in pieces, the stop reason last; answers are cut off within a call | a tool gets its own whole input; no call of a cut answer runs; results pair with calls |
| Model calls (`packages/core/src/QueryEngine.ts`, `providers`) | attempt, error, conversation | select, translate, retry, abort | which errors may pass is read off their texts; two message formats | bounded retries; conversations survive translation |
| `KAIROSDaemon` (`packages/kairos/src`) | records, active tasks, old files | register, tick, purge | tasks outlast their interval, or are registered anew while they run | a task runs once at a time and is started when due |
| `kairos-daemon`, `KairosClient` (`apps/kairos-daemon`, `packages/kairos/src/client`) | socket file, pending requests | start, request, reply, timeout, signal | answers in any order; a file left by a dead daemon; a socket nobody closes | a request is settled once, by its own answer, or in the end by its timer |
| `TelegramBot` (`packages/openclaw/src/telegram`) | update offset, polls | poll, handle, reply | polls overlap | no update is confirmed that nobody handles, nor handled twice by polls apart |

Stores, readers, graphs and applications (run `stores`):

| Component | State | Operations | Hard part | What makes it correct |
|---|---|---|---|---|
| Projects, research jobs, sessions, costs (`packages/projects`, `research`, `core/src/session`, `telemetry/src/cost`) | one JSON file each | load, change, truncate, write | overlapping clients, torn files | operations that do not overlap lose nothing |
| Settings and dashboard (`packages/core/src/state`, `apps/dashboard`) | four layers, the user's file | resolve, GET, POST | the project's file is untrusted and may not parse; POSTs overlap | a clone chooses no trusted setting; no key is lost or shown |
| Audit log (`packages/security/src/audit`) | a file per day | append, read back | lines cut at a read boundary; budgets | a read is the end of the history without holes |
| Telemetry (`packages/analytics`, `packages/telemetry`) | timers, totals, spans | start, end, flush, report | overlapping calls of a tool; spans during a flush | totals are what the calls took; no span is lost unnoticed |
| Wiki (`packages/wiki/src`) | a file per page | add source, write, compile | every change is a lookup, a scan and a write | sources accumulate while calls take turns and files parse; no two files hold one page |
| Marketplace (`packages/marketplace/src`) | index cache, code, manifest | install, uninstall, load | installers overlap and stop in the middle | only signed bundles are loaded |
| Templates, MCP registration (`packages/templates`, `core/src/mcp`, `security/src/utils/allowedCommand.ts`) | destination files, registered tools | scaffold, connect, register | files of others; names that collide; caps | nothing of others is overwritten; tools belong to consented servers |
| Graphs (`packages/graphify`, `packages/memory-v2`) | nodes, edges, communities | build, divide, walk | cycles, repeated edges, degrees kept by hand | walks agree with their definitions |
| Desktop (`apps/desktop/src`) | child, windows, tray | start, show, close, quit | windows are made while the dashboard is waited for | the reference is to the window that is there |
| Voice (`packages/voice/src`) | history, turns | transcribe, answer, speak | turns overlap and fail | whole exchanges in order |

Not modelled: secret scrubbing and TOTP, memory search, file tools and slash commands, plugin
stubs, prompt cache statistics, the dashboard's user interface (section 8).

`PROJECT.json` lists the same components with their sources, and under `hazards` the places
where the code can go wrong in a way a test would hardly reach, each with the property that
watches it.

## 2. Plan

Order: the parts where state survives an await, a callback or a process come first.

1. done - `TaskScheduler` (timers, saves, crashes, restarts), its proofs; `Coordinator` and the
   caller's view of it; `AgentLoop`; `McpStdioClient`; `Gateway` over `BoundedMap`;
   `MemorySystem`.
2. done - the procedures: `OrchestratorEngine` (with the council), `TextAgents`,
   `Simulation`, `Evaluation`, `CliSession`, `GuardedFetch`, `ShellCalls`.
3. done - the servers: `HttpGuard`, `HermesServer`, `ResourceLimits`, `StreamingLoop`,
   `ModelCalls`, `KairosDaemons`, `TelegramPolling`.
4. done - the stores: `JsonStores`, `Telemetry`, `SettingsStore`, `AuditTail`, `WikiPages`,
   `PluginInstall`, `KnowledgeGraph`, `Applications`, `Launching`.
5. done - proofs (section 6): all safety properties of the runs `scheduler`, `scheduler_live`,
   `coordinator` (with the refinement), `agent_loop`, `mcp_client`, `gateway` and `memory`; of
   `commands` all but `SimulationSound`, of `servers` all but `ConversationsSound`, of `stores` all
   but `DataSound`.
6. left - `HttpGuard` in front of `Gateway` as one composition.

## 3. Modules

| Module | Models | Extends / instantiates |
|---|---|---|
| `TaskScheduler`, `TaskSchedulerProofs` | Kairos scheduler, daemon process, file watcher, `tasks.json`; its theorems | - |
| `BoundedBatches` | abstract: what `Coordinator.run` promises | - |
| `Coordinator`, `MCCoordinator`, `CoordinatorProofs` | coordinator, pool, workers, queue; instance; theorems and refinement | instantiates `BoundedBatches` |
| `AgentLoop`, `MCAgentLoop` | query loop, tools, gate, compactor, REPL turn; instance | - |
| `McpStdioClient` | the MCP client, its child and the pipe | - |
| `AgentProofs` | theorems about both | extends `AgentLoop`, `McpStdioClient` |
| `BoundedMap` | the map as operators on records | - |
| `Gateway`, `GatewayProofs` | gateway server, chat sessions, rate limiter; theorems, with what the operations of the map return | extends `BoundedMap` |
| `MemorySystem`, `MCMemorySystem`, `MemorySystemProofs` | memory store, index, AutoDream, ConsolidationV2; instance; theorems | - |
| `MCCommands`, `CommandsProofs` | the procedures, one per behaviour; theorems | extends `OrchestratorEngine`, `TextAgents`, `Simulation`, `Evaluation`, `CliSession`, `GuardedFetch`, `ShellCalls` |
| `MCServers`, `ServersProofs` | the servers, one per behaviour; theorems | extends `HttpGuard`, `HermesServer`, `ResourceLimits`, `MCStreamingLoop`, `ModelCalls`, `KairosDaemons`, `TelegramPolling` |
| `MCStreamingLoop` | the answers that are streamed | extends `StreamingLoop` |
| `MCStores`, `StoresProofs` | the stores, one per behaviour; theorems | extends `JsonStores`, `Telemetry`, `SettingsStore`, `AuditTail`, `WikiPages`, `PluginInstall`, `KnowledgeGraph`, `Applications`, `Launching` |

Conventions. An action is one uninterrupted piece of a handler: from an event to the
first `await`, or from a settled promise to the next. What the code read before an
`await` and uses after it is kept in a variable (`flight`, `pass`, `write`, `exec`,
`request`, `doing`, `call`), never read again. A definition marked `Mutant:` is a plausible bug
placed next to the definition it would replace; `PROJECT.json` pairs each property with one, and
the property fails when the definition is replaced by it; the other mutants were tried the same
way by hand. A variable commented as `history` exists for the properties only.

A component of `MCCommands`, `MCServers` or `MCStores` shares no state with the others of its
run, so a behaviour chooses one at the start and leaves the rest idle (`Is(c)`). Their
module-level properties are conjuncts of the run's properties.

### TaskScheduler

`task` is the `Map`, `armed` the ids with a live `setTimeout`/`setInterval`, `flight[id]`
the number of `onFire` promises of a task that have not settled, `pass[p]` the rest of
the task list a file event is walking over, `write[s]` a `save()` on its way (its
snapshot was taken when it was called), `disk` what `load()` would find and `bytes`
whether the file has content. `issued` remembers ids across processes: `randomUUID`
does not repeat.

- `Schedule`, `Cancel`: the IPC requests. `schedule` arms its timer only after its save
  (`WriteData` with `arm`), so a cancel may come first; `FireCancelled` is that timer
  firing into the early return.
- `Fire` / `FinishRun`: `fire()` before and after `await this.onFire(task)`. The status is
  overwritten by `Outcome` whatever it became in between, as in the code.
- `OpenTruncate`, `WriteData`, `SaveFails`: `writePrivateFile`. `WriteData` over a longer
  or newer text may leave an unreadable file; `load()` takes that for no tasks.
- `FileEvent`, `PromptWatch`, `PassFails`: the daemon's watcher callback, which awaits one
  prompt after the other over the list it filtered once.
- `Crash`, `Boot`: the process. `Crash` stands for a signal, a "shutdown" request and an
  unhandled rejection alike, at any point of a save.

### Coordinator

`phase[r]` is where run `r` awaits, `chunk[r]` the slice it executes, `exec[t]` the state
of `executeOnAvailable(t)`, `worker` the pool and `status` the queue. `StartChunk` hands
the p-th task of a chunk the p-th idle worker, since lookup and `execute()` have no await
between them and the tasks of a chunk start in order; the rest polls (`Claim`). `Finish`
is `queryLoop` ending inside `AgentWorker.execute`: `finally` makes the worker idle, also
one that `stopAll` had stopped. `BoundedBatches` is the same system to its caller:
subtasks wait, are active within the limits, end, and the run returns after all.

### AgentLoop

The REPL lets turns overlap (`rl.on("line")` is not awaited), and they share one compressor: one
turn is followed through all its steps, the others (`beside`) by what they share with it, their
compactions. `pc` says where the generator awaits: `top` of a turn, `compact` (the summary call),
`call` (the model), `tools`, `approval`, `execute`. `hist` is the list of messages sent to
the model, each reduced to its role and the ids of its `tool_use` or `tool_result` blocks.
`RejectCall` is every early return of `executeTool` before the question (unknown tool,
schema, gate, no approver), `AskApproval`/`Approve`/`Deny` the approval, `Permit` a tool
that needs none, `Execute` the tool. `failures` and `disabled` belong to the compactor and
outlive the prompt and belong to all turns; `convo` belongs to the REPL. `granted` and `ran` are history variables.

### McpStdioClient

`req[id]` is the promise of a request; `Timeout`, `Deliver` (`pushChunk` on any prefix of the
pipe), `ChildExits`, `ChildErrors` and `Close` settle it. A line is a run of cells so that a
chunk can end inside it. `Request` after the exit or after `disconnect()` registers the
request although nobody reads it: only its timer is left. The child is modelled from how
the client uses it: it answers what it was sent, late, twice, or never.

### BoundedMap, Gateway

`BoundedMap` gives `Get`, `Set`, `Enforce`, `PruneExpired` as operators on a record of
entries in order of use and of the running total; the options of a map (`maxEntries`, `maxBytes`,
`ttl`) are a record too, so that `Gateway` extends the module and passes `SessionMap` or
`OutboxMap`. Sums and filters are recursive functions over positions (`SumOf`, `At`), which the
proofs can unfold. `Gateway` holds the arrays outside the maps, named by the request
that created them, because the code holds them by reference: `Accept` and `Reply` change
`history[h]` first and then call `Set`, exactly as `push` and `userSessions.set` do. `Accept`
runs to the agent loop's first await; `Reply`/`Fail` are its end, with the array the request
has held since. `Refuse`, `Forbid` are the early returns, `Tick` the clock.

### MemorySystem

The code of this component is sequences of file operations with an `await` between each two, so
a client is an `agenda`: the operations it has still to do, each an action (`OpenFile`,
`WriteFile`, `UnlinkFile`, `ListFiles`, `LoadEntry`, `RebuildIndex`), and between two of them any
other client moves. `Save`, `Delete`, `Dream`, `ConsolidateV2` start an agenda; `DecideDream`,
`ModelVerdicts`, `DecideClusters`, `SummarizeCluster` extend it from what was listed before, as the
loops of `consolidate()`, `consolidateWithModel()` and `run()` do over their arrays. A client that
takes no further step is one that has crashed. `file[id].writers` are the clients that hold the
file open: a write into a file that was unlinked in between is lost. An entry is reduced to the
facts its body tells, whether a relative date is in it, how often it was stamped, and its
confidence against the two thresholds. A summary tells any part of what its entries told, since the
model is given the first 200 characters of each. `kept` is a history variable: a fact enters it with
the first write and leaves it in three ways, which `SavedIsKept` names: somebody asks for its removal
(a user, the model's verdict, or the documented pruning of entries of low confidence); the summary of
its cluster leaves it out (`SummarizeCluster`); or a consolidation decides to delete its file without
knowing of it (`Overlooked`, `Doomed`).

Abstractions: all entries are of one type (duplicates are only sought within a type); entries of
low confidence come from hand-edited files, since the tools save 1 and the digest 0.7; a body has
a date of which stamping is counted, not the text.

### OrchestratorEngine, TextAgents

`OrchestratorEngine`: positions of the plan stand for tasks, since ids may repeat. `Plan` takes a
plan from the enumerated ones or `Fallback` makes the default one; `StartRound` takes the `Ready`
tasks, `TaskEnds` settles one call, `Collect` continues after `Promise.all` and removes tasks by id:
`Removed` are the first of each id, as many as the round has results of it, as `findIndex` and
`splice` for each result have it, so `remaining` is a set of positions, and of two tasks of one id
one may be dropped that never ran and the other run again (`ran` is the history that tells);
`Deadlock` is the early exit; `TaskThrows` and `PlanFails` reject `run()`. The council, in the same module: `Speak` is one
member's turn of the query loop, with what the prompt quoted; a failing member says that it cannot
respond.

`TextAgents` has the agents that act on what a model wrote. ReAct, of which there are two: `Answer`
parses what a model wrote, `Observe` runs the tool if the gate permits it without asking. Research:
`Parse` takes the blocks that parse (`Nth` is the i-th of them) and keeps the dependencies that name
a step known at that point of the parsing; each step is its own continuation (`Ask`, `StepEnds`,
`Complete`).

### Simulation, Evaluation

`Simulation` has both runners of `mirofish`, told apart by `kind`: a chunk starts with what is
visible, its turns act, pass or fail in any order, `CollectChunk` continues after them in order of
the agents; `Propagate` shifts beliefs in percent and keeps JavaScript's `NaN`, which an agent has
from its persona or from a delta. `Evaluation`: a
case is prepared, runs against its timer, is judged; `LoopActs` goes on after `CaseTimesOut` until
`LoopEndsLate`, as nothing stops the generator; the case itself is judged on an empty output
(`Failure`). `Holds` has every kind of assertion, those about the text by what they ask of it;
`MetByNothing` are the kinds that an empty output may meet. A batch of no cases, of a concurrency
of 0, starts again and again (`Batch`).
`Recorded` is empty: the runner reads `toolName` of an event that has `name`, so `tool_called` never
passes and `tool_not_called` always does (section 7).

### CliSession

`StartStep` is `buildSessionRuntime` up to the next service (`Brings`), `ShutdownStep` one `await`
of `shutdown()` in its order, `StartFails` and `ShutdownFails` their errors. `StartRepl` is
`runRepl`, after which `main` goes on to its `finally`. A line is typed (`Type`) and is a prompt, a
`/clear` or a line that is to be continued. A prompt is appended to the transcript (`PromptRecorded`),
added to the conversation and asked (`AskModel`, with the list `Given`), `Answered`, appended
(`AnswerRecorded`) and added (`AnswerKept`), each after an await; `Clear` empties the conversation
under the turns that are on their way. A pasted line starts while another is under way: `overlapped`
and `dropped` are histories of that. The messages of `--resume`, with which the conversation starts,
are left out. `Derive` and the three policies are the session's.

### GuardedFetch, ShellCalls

`GuardedFetch`: `Resolve` checks every answer of the name service and pins them, `Connect` uses one
of them, `Call` starts a hop or follows a redirect, `Chunk`, `TimedOut` and `End` the body. The
address classes are translated octet by octet; `BlocksTheRegistry` compares them with the special-use
ranges of the registry, for an IPv4 address by itself and inside the two prefixes that carry one
(`Mapped`, `Nat64`).
`ShellCalls`: `SpawnShell`, pieces of output up to the cap, the shell's own end, the helper in its
group and the process that has left it; `TimeoutKills` and `AbortCall` kill the group;
`OutputCloses` is the `close` event, which settles the call.

### HttpGuard, HermesServer, ResourceLimits

`HttpGuard`: `Build` is the constructor with what it refuses, `Unauthorized` and `Authorized` the
two ends of `authorize`, with the count and delay of a credential (`Counted`, `Delay`, units of
250 ms against a cap); `Webhook` verifies a signed message against the clock and the nonces.
`HermesServer`: a stream is open until `StreamEvent` (abort, cancel, failed write) or
`LifetimeOver`; each calls `Cleanup`, which only the first does anything in; `Stop` resets the
count. `Data` splits a chunk into lines and queues them, `HandleLine` answers the first.
`ResourceLimits`: `Resolve` clamps, `Chunk` reads, cancels or returns.

### StreamingLoop, ModelCalls

`FromAnthropic` and `FromOpenAI` turn an answer into the chunks the two providers yield (the API's
events are external). A call's input comes in two pieces; of an answer that is cut off
(`max_tokens`) the last call may have fewer (`lastPieces`), and input that is not whole is parsed to an
empty object (`Parsed`). `ReadChunk` consumes a chunk, `CallsAsked` decides by the stop reason
whether tools run, `RunTool` runs those of a turn one by one,
`Assemble` is `assembleFromStream` on the same answers. `ModelCalls`: `Call`, `CallRejects`,
`SleepOver` are `QueryEngine.call`; a text of an error is the set of its telling words, and
`Classify` makes of it the class, in the order in which the code looks for them; `ToOpenAI` and `ToAnthropic` translate
a conversation block by block; `Keyed` is the provider chosen by settings, keys and environment.

### KairosDaemons, TelegramPolling

The tick daemon: `Tick` starts every `Due` task at once and waits for none; `Settles` is the end of
one, which writes its status to the record it was started with; `Purged` is the garbage collection
of transcripts. The daemon process and its client: a daemon that was killed leaves its socket file,
on which the next may fail to listen; on SIGTERM requests are still answered until the files are
removed; answers are written as their handlers end, and the client matches them by id; a signal or a
shutdown request ends the process (`Gone`). The client is not told: it has no close handler, its
socket is `dead` until somebody connects again, and a request made of it (`Send`) is registered and
lost, so that only its timer ends it. The first part of a line that the dead daemon wrote stays in the
buffer (`torn`) and swallows the first answer of the next one. `TelegramPolling`: the interval
(`Poll`) reads the offset, the request reaches Telegram (`Reach`) and may be lost there or on the way
back, `Take1` handles one update, moves the offset, and `Answer1` replies, if the limiter lets it.
`overlapped` remembers that a poll was started before another was over.

### JsonStores, SettingsStore, WikiPages

An operation is loaded, changed, truncated and written in steps; any other client moves between
them, and one that takes no further step has crashed. `Requests` are the operations of the chosen
store, `Writes` the files they rewrite, `After` what they make of a file; `Enqueue` puts an element
where the stable sort of the queue would. In `SettingsStore` a
layer is a function from keys to values, with 0 for one that does not validate; a file, the user's or
the clone's, is missing, torn (or no JSON) or holds such a layer. `Over` puts one
layer over another, `Merged` is `resolveSettings`, which throws unless both files load (`Resolves`), `PostRead`, `PostTruncate`, `PostWrite` the dashboard's POST. `WikiPages`: titles
are looked up under `SoughtAs` and stored under `StoredAs`, because the tools and the store make
their slugs differently. `NewPage` is what a lookup without a result makes. Which pages keep their
sources depends on the titles: `FoundAgain(t)` holds when every title stored under t's slug is also
looked up under it, so that no write takes the page for missing. `keptSources` is a history: it grows
when a call that ran alone reports success (`Finished`) - also by an update that found no page, unless
a file that does not parse may have hidden it (`AllReadable`).

### Telemetry, AuditTail, PluginInstall

`Telemetry`: `toolTimers` has one entry per tool and millisecond; `Unmatched` is the search by name
prefix for the timer to end; `Flush` takes the spans and `FlushEnds` clears or keeps them.
`AuditTail`: a read goes through files from the newest back (`Files`, `Scan`, `Rows`), in units of
half a line, so that a budget can cut one. `PluginInstall`: the index is fetched or taken from the
cache, the bundle downloaded and verified, code and manifest written, each a step; loading
verifies again.

### KnowledgeGraph

Each query is one walk with its queue, stack or pending calls, a step at a time; orders of insertion
are free. The graph is built from files: they are read (`Extract`), their symbols, bases and imports
linked when all were read (`Link`), an edge added or merged (`MergedEdge`); Louvain visits a vertex
at a time with its degrees kept as the code keeps them, in integers (gains are multiplied by four
squares of the total weight).

### Applications, Launching

`Applications` has two that share nothing. Voice: a turn goes through three services, and the
history is cut to its limit when an exchange is added. The desktop shell: the child comes up or
fails while a window may be opened by `Activate`; `Toggle`, `OpenCoWork`, `Close` are tray, shortcut
and window; `MayOpen` decides what is opened outside. `Launching`: a scaffold looks at a file, opens
and writes it, others write too; then commands run one by one, if allowed (`Allowed`, shared with
the MCP servers, refuses a shell whose argument is one of the flags it compares, "-c" for instance,
and lets "-lc" pass: `StringForShell`). `ConnectServer` registers `NewTools` of
a server while there is room: those whose `ToolName` nobody has, in the order of its list.

## 4. Runs

| Run | Question | Result |
|---|---|---|
| `scheduler` | a one-shot and a budgeted interval task: are budgets, timers and cancellations sound through overlapping runs, two saves in flight, torn files, crashes and restarts? | `PendingHasBudget`, `CompleteDisarmed`, `OvershootOnlyInFlight`, `OnceRunsAlone`, `CancelledStaysQuiet` hold |
| `scheduler_live` | an interval and a file-watch task: does every run end up recorded, and can a file event revive a quiet task? | `RunningSettles`, `CancelledStaysQuiet`, `TypeOK` hold |
| `coordinator` | two runs compete for two workers, with planning on and off and `stopAll` at any time | `ExclusiveAssignment`, `RunsSound`, `RunsReturn` hold; implements `BoundedBatches` |
| `agent_loop` | two prompts with every kind of tool call, compaction, throwing hooks, abort, next to an overlapping turn | `RequestsWellFormed`, `GatedExecution`, `LoopSound`, `BreakerHolds`, `PromptsEnd` hold |
| `mcp_client` | requests against any server, any cut of stdout, any timing | `ClientSound`, `SettledOnce`, `RequestsSettle`, `LifecycleEnds` hold |
| `gateway` | two senders, overlapping prompts, eviction, expiry, rate limit | `StateBounded`, `PrivateState`, `RateKept`, `WrittenIsKept` hold |
| `memory` | a session that saves, deletes and consolidates next to a job that saves and deletes | `SavedIsKept`, `IndexAgrees`, `DreamCleans` hold |
| `commands` | a session of the command line, or one of eight procedures and tools, with every outcome of its models, tools, timers and children | `WorkAccounted`, `SpeakersHeard`, `SimulationSound`, `StepsInOrder`, `CommandsEnd` hold |
| `servers` | a guard, a server, a daemon or a model call, with any clients, answers, errors and timing | `AdmissionSound`, `ConversationsSound`, `DaemonsSound`, `ServersSettle` hold |
| `stores` | a store, a reader, a graph, an installer or an application, with overlapping clients that may stop anywhere | `FilesKept`, `ApplicationsSound`, `DataSound` hold |
| `session_repl` | are the services there while the REPL takes lines? | violated, see 7 |
| `streamed_tools` | does the streaming loop run the tools that an answer asks for? | violated, see 7 |

Three invariants collect what was several: `RunsSound` is type correctness, the barrier between
chunks (`ChunkBarrier`) and that results are those of the executions (`RecordedAsExecuted`);
`LoopSound` adds `CompleteOnce` (one `complete` event per prompt) to the types of the agent loop;
`ClientSound` is the types of the MCP client, its bounded state and that the buffer is a partial
line. The properties of `commands`, `servers` and `stores` are conjunctions over components:

| Property | Conjuncts |
|---|---|
| `WorkAccounted` | `OrchestrationSound`, `EvalSound` |
| `SpeakersHeard` | `EverybodyHeard` (council), `CliSound` |
| `StepsInOrder` | `ReActGated`, `ResearchSound`, `FetchSound`, `ShellSound` |
| `CommandsEnd` | every command that was begun comes to its end (liveness) |
| `AdmissionSound` | `GuardFair`, `DeliveredOnce`, `SlotsCounted`, `StdioOrdered`, `LimitsHold` |
| `ConversationsSound` | `StreamingSound`, `CallsSound` |
| `DaemonsSound` | `TicksSound`, `IpcMatched`, `NoUpdateLost` |
| `ServersSettle` | `HermesSettles`, `CallsEnd`, `IpcSettles`, `PollsEnd`, `TasksAreStarted` (liveness) |
| `FilesKept` | `StoresKeep`, `SettingsSound`, `WikiSound`, `ScaffoldSound` |
| `ApplicationsSound` | `PluginsSound`, `DesktopSound`, `VoiceSound`, `RegistrySound` |
| `DataSound` | `AuditSound`, `TelemetrySound`, `GraphSound`, `QueriesSound` |

Properties worth a word:

- `CancelledStaysQuiet` is an action property about `Quiet`: once a cancellation is in memory,
  in the file and in every save in flight, and no run or file-event pass still holds the task,
  no later step makes it runnable. It is false with fewer of these conditions - a cancel
  during a run is overwritten by the run's outcome - and the conditions say exactly when a
  cancellation has taken hold.
- `OvershootOnlyInFlight`: overlapping interval callbacks do exceed `maxRuns` in this code;
  the property bounds that to the time a run is in flight.
- `ImplementsBatches` is the refinement of `BoundedBatches!Spec` under the mapping given in
  `Coordinator`.
- `RequestsWellFormed` ties each `tool_use` message to the `tool_result` message behind it
  in every history sent, including after `Compacted` cut it to two messages.
- `PrivateState` follows arrays through replaced, evicted and expired sessions: a reply that
  comes late stores its own sender's array, never another's.
- `WrittenIsKept` is about eviction order: making room never removes the entry just written,
  unless it alone is over the byte limit.
- `SavedIsKept` compares a history of what was written with what the files tell, through merges,
  stamps and summaries: the survivor of each merge must outlive the rest of the agenda, a stamp must
  not bring back an older text, and originals go after their summary has come.
- `IndexAgrees` and `DreamCleans` are claims about clients that take turns (`alone`): with
  overlapping clients an older listing may be written last, and the code does not claim otherwise.
- `OrchestrationSound` says which tasks a deadlocked plan leaves: those that wait, directly or
  not, for a cycle or for an id nobody planned, computed as a fixed point of the plan.
  Where ids repeat it counts per id, and says which task took the place of one that never ran.
- `EvalSound` allows what the code allows: a loop outlives its timeout and goes on working, and a
  case that failed or timed out passes the assertions that an output of nothing meets: "not_contains",
  "turns_lte", "cost_lte", "tool_not_called", a demand on the text without a value, and what a judge
  lets pass. It must not pass any other, whatever its loop said or says later.
- `CliSound` allows lines to interleave, as the code does. Its hard part is `/clear` under turns that
  are on their way, which leaves an answer without its prompt in the conversation, and the equation
  between the transcript on one side and the conversation, what was cleared and what is on its way on
  the other.
- `StreamingSound` is exact about what each provider's chunks allow: behind Anthropic's every call of
  a whole answer is assembled with its own input, behind OpenAI's the last one (section 7).
- `SlotsCounted` is exact until the first `stop()`; after it the count may be too low, and the
  property says only that it is never too high.
- `DeliveredOnce` needs a sender whose clock is not ahead: a message stamped in the future stays
  within the skew longer than its nonce stays in the cache.
- `StoresKeep`, `SettingsSound` and `WikiSound` are claims about operations that do not overlap
  and about what holds even when they do (no duplicate, no second file of a page); overlapping
  read-modify-writes do lose updates in this code, and the properties say exactly when. A file that
  does not parse is part of both models: a clone's keeps the settings from resolving, and a page's
  hides others, which is the only way in which a `wiki_write` that runs alone, for a title that is found
  again, may lose its source.
- `NoUpdateLost` forbids that polls apart from each other handle an update twice; overlapping polls
  do (section 7), and the property says that this is what it takes.
- `IpcSettles` rests on the timer of each request, in a model in which requests are made of dead
  daemons: without it (the mutant `ExpiredWhileOpen`) such a request waits for ever.
- `ShellSound` holds without exceptions for the group; a process that left it (`setsid`) holds the
  call open, in the model as in the code, and `CommandsEnd` names it.

## 5. Bounds and fairness

Bounds, and why they are enough for the questions asked:

- `TaskScheduler`: `Slots = {1, 2}` saves at a time (two are needed for a reordered or torn
  file), `Passes = {1}` file event, `MaxCount` runs of a task (one past the budget of 2 in
  `Scheduler.cfg`, so that an overshoot happens), two tasks of different kinds. Tasks only
  meet in the snapshots, so two suffice. When both slots are taken a step that would save
  waits; in the code it would start a third save.
- `Coordinator`: two runs with limits 2 and 1 on two workers, up to three subtasks: a short
  last chunk, a poll and a competition for one worker all occur.
- `AgentLoop`: `MaxBlocks = 2` calls per answer, `MaxTurns = 2`, `MaxPrompts = 2`,
  `MaxContext = 3`, `MaxFailures = 2` (3 in the code), one other turn at a time, begun once: a history is
  compacted in each turn, and the breaker can open in the first prompt or in the second, by either
  turn, while the other one is compacting.
- `McpStdioClient`: two pending requests, lines of 2 and 4 cells against a limit of 3, four
  cells in the pipe, five requests (handshake, listing, two calls, shutdown).
- `Gateway`: three accepted messages, a clock of 0..2 with a window of 2 and lifetimes of 1,
  one outbox and two sessions for two senders, replies of 1 or 4 of at most 6 bytes. The two
  listed senders are interchangeable in every definition, hence the symmetry set; the sender
  outside the list is not in it. All properties of that run are safety properties.
- `MemorySystem`: two clients of which one consolidates, three entries ever created (a pair of
  duplicates or a cluster of two, and a summary), clusters from two entries on (3 in the code),
  one stamp. `SavedIsKept` was
  also checked with three clients and with clusters of one entry, and is proved for any.
- `commands`: plans of up to three tasks over two ids and one that nobody plans, three council
  members for two rounds, three steps of an agent, casts of up to three personas in chunks of two
  with beliefs at both ends of their range, suites of up to three cases two at a time with every kind of
  assertion and outcomes over and under the limits, two lines (prompts, `/clear` or continued), two redirects over three hosts, three pieces of output against a cap of three. Octets are
  those next to every boundary of an address range. `WorkAccounted` and `SpeakersHeard` are proved for
  any plans, suites (a concurrency of 0 included) and lines.
- `servers`: three streams for two slots, three lines, clock up to 7 with a cooldown capped at 4, two
  polls over three updates (they overlap, or one follows the other), two turns of streamed answers with
  up to two tools, cut off before, within and after a call, two retries over five texts of errors, two
  requests to a daemon that is started twice and may die under each; limits are offered below, inside
  and above their ranges.
- `stores`: two clients and three operations (two overlap and a third finds what they left), two
  projects of one name, three wiki calls on three titles, of which two make one slug and one of these is
  looked up under another, three audit
  events over two days, four nodes or vertices with up to four edges, three windows, three turns.

Fairness, and what justifies it:

- scheduler: a save makes progress (`WF` on its two steps: file operations return) and a run
  settles (the prompt has a turn limit). `FinishRun` gets `SF` only because the bound on save
  slots can disable it now and then; in the code nothing does. Timers, boots and file events
  are not fair: nothing says when they come.
- coordinator: model calls return or throw, resolved promises resume, and each polling task
  keeps its own timer. `StopAll` and the start of a run are not fair.
- agent loop: one `WF` on the loop's own steps. Nothing makes a user answer an approval
  question; `PromptsEnd` says so.
- commands: one `WF` on `Progress`, the steps that the runtime, a model call that returns or throws,
  or a timer makes. One suffices because a behaviour runs one command. Nobody has to type a line, a
  server need not answer, and the process that left a shell's group need not end.
- servers: `WF` of the lifetime of each stream, of the queue of lines, of a model call's return and
  of its sleep, of the tick, of each request's timer and of each poll's next step.
- MCP client: timers fire and awaits resume. Nothing is assumed of the server.

`CHECK_DEADLOCK FALSE` is set where the system really stops: all coordinator runs have
returned and the pool is stopped, the session has used its prompts, the client is closed. In
`commands`, `servers` and `stores` a component ends when its work is done. The scheduler, the
gateway and the memory are checked for deadlock. The run `stores` states no liveness: its clients
may crash anywhere.

## 6. Proofs

Eight modules hold theorems. Each theorem is about every value of the constants that the named
assumptions of its modules allow. The
assumptions are as weak as the code allows: limits are numbers, sets that are counted are finite,
an id is not the value that stands for none, updates are numbered from 1. A limit may be zero except
where the code refuses or corrects that, and in `Coordinator`, where a parallel limit of zero would
make the chunking loop endless (a hazard of `PROJECT.json`). The inductive invariants were tried on
the instances of the runs first.

The pattern is the same everywhere: an inductive invariant, a lemma per action (or operation) that
it is kept, and a last step that combines them. Where a property is not inductive by itself the
table says what has to be added, and why.

| Theorem | States | Inductive invariant, and why the property alone is not enough |
|---|---|---|
| `TaskSchedulerProofs!TypeCorrect` | `[]TypeOK` | itself |
| `BudgetKept` | `[]PendingHasBudget` | with `TypeOK`. Stated over *copies* of a task, because a pending copy in an old snapshot comes back through `Boot` |
| `CancellationFinal` | `CancelledStaysQuiet` | `Quiet(id)` is stable: each action copies dead copies, or makes a live one from a live copy, a run or a pass |
| `TimersSound`, `OneShotAlone` | `[]CompleteDisarmed`, `[]OnceRunsAlone` | `ArmingInv`: a save that is still to arm a timer could arm one for a finished task, or a second one. So: an id not issued yet is nowhere, a process that is down holds nothing, a task is armed by one save at most and before its first run |
| `OvershootBounded` | `[]OvershootOnlyInFlight` | adds `ArmedUnrun`: a save arms a timer only for a task that has not run. A restart arms one for a pending task, which `PendingHasBudget` says has budget left |
| `CoordinatorProofs!RunsAreSound` | `[]RunsSound` | `IInv`: `Assigned` (workers and running tasks), `ChunksInOrder` (known up to the current chunk, settled before it), `Unplanned`. The barrier follows from `ChunksInOrder` by counting the tasks of a stretch |
| `AssignedOnce` | `[]ExclusiveAssignment` | follows from `Assigned`. `StartMatches` is the hard step: the p-th task of a chunk gets the p-th idle worker, so rank must be shown to be one to one |
| `RefinesBatches` | `ImplementsBatches` | each action is mapped: `Enqueue` to `Submit`, a chunk's start and `Claim` to `Begin`, `Finish` to `End`, the synthesis to `Return`, the rest to a stutter; limits of the abstract step come from the barrier (per run) and from an injection of running tasks into workers (pool) |
| `AgentProofs!LoopIsSound` | `[]LoopSound` | `IInv`. `TypeOK` leaves the sequences open; `Typed` closes them |
| `GateHolds` | `[]GatedExecution` | `Gated`: what waits or executes has passed the gate, and an approval is of the call at the head of `todo` |
| `RequestsAnswered` | `[]RequestsWellFormed` | `HistoryInv`: while calls are handled, the history is an answered one and one message that asks for `results \o todo`. An answered history must also say that no text follows a message of results, or compaction could cut between a call and its results |
| `BreakerStaysOpen` | `BreakerHolds` | `BreakerInv`: a full row means `disabled`; while it is open the failures and the compactions under way together pass the limit by the number of overlapping turns at most. A compaction under way when the breaker opens still counts, or resets the row without closing the breaker |
| `ClientIsSound` | `[]ClientSound` | itself; `Deliver` needs what a cut of the pipe leaves (`CutIs`, `RestIs`, `MaxIs`) |
| `SettledForGood` | `SettledOnce` | from `ClientSound`, step by step |
| `GatewayProofs!BoundsHold` | `[]StateBounded` | `Typed`, `Owned`; what the operations of the map leave are lemmas of the same module (`SetBounds`, `GetFine`, `PruneFine`) |
| `StateIsPrivate` | `[]PrivateState` | `Owned`: an array holds messages of the sender whose request created it, and a request, an entry and an array agree on the sender |
| `WrittenStays` | `WrittenIsKept` | from `Inv`: `Set` puts the entry last, and `Enforce` drops the fewest from the front |
| `RateHolds` | `[]RateKept` | `Counted`: the limiter's list counts at least the accepted requests of the window that ends now. Older windows hold because no request in them can be added any more |
| `ServersProofs!DaemonsHold` | `[]DaemonsSound` | `TicksInv` (a record holds the time of its last start, or a new registration could start a task early), `IpcInv` (an answer "ok" is to a known kind), `TelegramInv` (everything up to the offset is handled or with a poll, and the chats asked and the allowance left stay within the rate; while no polls have overlapped, one poll is under way at a time, what it holds lies beyond `lastUpdateId` and has not been handled: `Sequential`, `HandledOnce`) |
| `DoorsHold` | `[]AdmissionSound` | `GuardInv` (a remembered failure counts all rejections of a credential, and its cooldown is that of the last), `WebhooksInv` (a delivery is remembered, or too old for its message to come again), `SseInv`, `StdioInv` (replies and queue are numbered through), `LimitsInv` |
| `MemorySystemProofs!AgendasSound` | `[]Typed` | itself: every agenda is a list of jobs in an order that the code makes (`MayPrecede`), which the next three rest on |
| `IndexSound` | `[]IndexAgrees` | `IndexInv`: while clients take turns, the index is that of the files there are, or an agenda still owes a rebuild; a listing under way is of the files there are |
| `DreamSound` | `[]DreamCleans` | `DreamInv`: once duplicates were counted, what the agenda *will* end in is clean (`CleanEnd`), and what was read is what the files say. `DreamCleans` speaks of the end only |
| `SavedSound` | `[]SavedIsKept`, for any number of clients and any size of clusters | `KeptInv`: some assignment of facts to ids fits all files, agendas and listings (`FilesOk`, `AgendasTell`); the other clients save entries of their own (`OwnEntries`), about which nothing was decided (`Apart`); every kept fact is told by a file that is not condemned (`KeptAll`) |
| `CommandsProofs!WorkSound` | `[]WorkAccounted` | `EngineInv`: what started was ready (`Told`), a set of tasks that wait for each other has not run (`StuckWaits`), results and remaining tasks of an id add up (`Counted`), and a task that is gone without having run has a later one of its id that ran (`GoneRan`). `EvalInv`: a verdict is about an output that is final (`VerdictsTell`), and what each phase of a case implies (`CaseTells`) |
| `SpeakersSound` | `[]SpeakersHeard` | `CouncilInv`: speeches come in the members' order and have heard the rounds before (`InTurn`). `CliInv`: what of a line has been written and said, by its stage (`LineTells`), nothing twice and no answer before its question in the transcript (`WrittenWell`) and in the conversation (`KeptWell`). That an answer follows directly needs to know where a prompt stands while it waits for its answer: `AloneTells`, `PromptWaits` |
| `OrderSound` | `[]StepsInOrder` | `ReActInv`; `ResearchInv` (a step that was asked has all it needs, and that does not change any more; tokens are the sum over the steps); `FetchInv` (what is connected to is the address that was checked); `ShellInv` (what is kept is the beginning of what was written, and all of it until a piece did not fit) |
| `StoresProofs!FilesSound` | `[]FilesKept` | `KeepInv`: an operation under way knows all of the file but what others changed since, paths and jobs are apart and the queue descends. `SettingsInv`: a POST that is alone knows every settled key; `LayersAgree` for the clone. `WikiInv`: a page belongs to the call that made it, an undisturbed call knows its sources, and the page it goes back to is found where every file can be read (`Present`, `AloneFinds`). `ScaffoldInv` |
| `ApplicationsHold` | `[]ApplicationsSound` | `PluginsInv` (what a client that is alone has downloaded and written), `DesktopInv`, `VoiceInv` (the history is the latest exchanges, `Latest(k)`, and each turn was asked over whole exchanges, `Asked`), `RegistryInv` (servers connected so far come before the next; their tools fill the room or are all taken) |

`ServersProofs`, `CommandsProofs` and `StoresProofs` are about the specification of a run as a whole:
`OneSurface`, `OthersWait` and `StoresStep` say that a step of the system is a step or a stutter of
each part, so each invariant is proved over the variables of its own part and they are combined at the
end.

Recursion is met at the beginning of `GatewayProofs` (and, in less detail, of `CommandsProofs`). The
prover cannot instantiate the library's theorems on induction and recursion, which take an operator.
What is needed is derived as first-order facts: a non-empty set of naturals has a least element
(`LeastExists`), hence a set that holds 0 and is closed under successor up to n holds 0 .. n
(`IntervalInduction`); a recursive function over an interval exists and is unique (`RecursionExists`,
`RecursionUnique`). From these `SumOf` and `At` are unfolded one position at a time, and sums of
appended, split, changed and filtered sequences follow (`SumAppend`, `SumSplit`, `WeighAt`, ...), for
any length. What an operation of the map does is then a lemma: it keeps the keys apart and the byte
total equal to the sum (`Fine`), and `Set` leaves a map within its limits (`SetBounds`).
`CommandsProofs` sums the tokens of a list the same way (`TokensOf`); there and in `StoresProofs` the
n-th element of a set of numbers, and the first n of them, are found by counting those that are lower.

Only model-checked:

- All liveness (`RunningSettles`, `RunsReturn`, `PromptsEnd`, `RequestsSettle`, `LifecycleEnds`,
  `CommandsEnd`, `ServersSettle`): the prover has no rules for fairness and `ENABLED` here.
- `ConversationsSound`: the message put together from a stream, and the request made of a
  conversation, are built with `FoldLeft`, `SelectSeq` and `FlattenSeq`, which are defined by
  recursion. The prover cannot expand them, and what they return for sequences of any length needs
  induction over the data.
- `SimulationSound`: the same operators, over the actions of each chunk; beliefs are folded over them.
- `DataSound`: the audit reader folds over files, the report of the telemetry sums and sorts, Louvain
  sums degrees over communities, and the queries are compared with balls around a node that are
  defined by recursion.
- The definitions of section 7 that TLC refutes.

## 7. Disagreements between the code and what it says

Two are runs:

- `session_repl`: `main()` awaits `runRepl()`, which returns as soon as its handlers are registered,
  and then shuts the runtime down in its `finally` (`apps/cowork-cli/src/index.ts:134`): daemon,
  gateway and MCP clients are gone while lines are taken. The comment at
  `apps/cowork-cli/src/session.ts:75` says "Explicit teardown; hooks no longer stop services after
  the first turn."
- `streamed_tools`: the streaming loop runs tools only for the stop reason "tool_use"
  (`packages/core/src/streaming/StreamingQueryLoop.ts:121`). The Anthropic provider ends every
  message with "end_turn" and the OpenAI provider says "tool_calls", so the tools are not run, in
  what line 4 calls a "Drop-in replacement for queryLoop when the provider supports streaming."

The others are stated by definitions that no run checks, and TLC refutes them in the instance
given:

- `SurvivorsRearmed` (`Scheduler.cfg` with `Limited = {}`): `load()` gives a timer only to tasks
  saved as "pending", under the comment "Re-arm timers for surviving tasks"
  (`packages/kairos/src/scheduler/TaskScheduler.ts:136`). An interval task that failed last time, or
  was saved as "running" by the save of another task, never gets one again.
- `OnlyLongLinesRefused` (`McpClient.cfg` with `ReplyLengths = {2}`, `Repeats = FALSE`): `pushChunk`
  compares the partial line plus the *whole chunk* with `maxLineBytes` before it looks for
  newlines, under the comment "Refuse a partial line that never terminates, before it can grow"
  (`packages/core/src/mcp/McpStdioClient.ts:178`). Several short replies in one chunk are dropped.
- `ByteCeilingIsReal` (`Gateway.cfg`): `BoundedMap` promises that an over-large entry "is refused
  rather than stored, so the byte ceiling is a real invariant"
  (`packages/security/src/utils/BoundedMap.ts:91-92`). `CoworkGateway` pushes to the array the map
  already holds and then calls `set()`: the refused value is in the map, at its old estimate.
- `StampedOnce` (`Memory.cfg` with `Clients = {cli}`, `MaxStamps = 2`): AutoDream "datestamps anything
  still relative" (`packages/core/src/memdir/AutoDream.ts:10`), but keeps the word it dates, so the
  next pass adds a second date, from the `updatedAt` that the first stamping renewed.
- `AlwaysSafe` (`Memory.cfg` with three clients): the mechanical pass is "Always safe to run"
  (`packages/core/src/memdir/AutoDream.ts:42`). Two files that others have truncated and not yet
  written are listed with empty bodies and count as duplicates; the one that is deleted may have
  been written by then.
- `SourcesAdded` (`WikiSpec` of `WikiPages` with two calls and the slugs of `MCStores`): "Add a source to
  a wiki page (creating it if it doesn't exist)" (`packages/wiki/src/tools/WikiTools.ts:49`). For a
  title that ends in punctuation the tools look up a slug with a dash at its end, the store writes
  one without (`WikiStore.ts:29-32`): the page is never found and is replaced by a new one. A
  page whose title was stored under the same slug goes with it, even if its own title is found.

And others were met while modelling, where the model follows the code:

- Of two tasks of one id `OrchestratorEngine` may leave out one and run the other twice: a result
  removes the first remaining task of its id (`OrchestratorEngine.ts:78-82`).
- A `maxConcurrency` of 0 starts empty batches for ever (`eval/src/EvalRunner.ts:33-36`).
- Behind the OpenAI service provider `assembleFromStream` loses all but the last of parallel calls, as their
  ends come together (`services/streaming/StreamingProvider.ts:62-78`, `OpenAIStreamingProvider.ts:89-94`);
  behind Anthropic's each text block that ends adds a call, one without a name or the call before it once
  more (`AnthropicStreamingProvider.ts:86-90`).
- A refused key is tried again when the text of the error happens to hold "rate", which `classifyError`
  looks for first (`QueryEngine.ts:65-72`).
- Polls that overlap ask from the same offset and handle an update twice, with two answers
  (`TelegramBot.ts:44-47`, `77`).
- `KairosClient` has no close handler, so requests made after its daemon died wait ten seconds, and it
  keeps the beginning of a line over `connect()` (`KairosClient.ts:20`, `39-41`).
- A clone whose `.cowork/settings.json` is no JSON keeps all settings from resolving
  (`Settings.ts:188`, `241-243`).
- "Refuse shell command-string invocation unconditionally" (`allowedCommand.ts:86-87`): the check
  compares an argument with "-c", "-e", "/C" and "/c" (`88-91`); other spellings of such a flag pass it.
- A `wiki_write` whose page lies behind one that does not parse reports success and saves nothing
  (`WikiStore.ts:92-101`, `52-53`, `WikiTools.ts:75-82`).
- A persona's `beliefScore` that is no number becomes `NaN` (`AgentFactory.ts:89`), which no delta mends.
- An extractor that throws leaves the file's node and its directories, without symbols
  (`KnowledgeGraphBuilder.ts:93-102`).
- `eval/src/EvalRunner.ts:159` reads `toolName` of an event whose type has `name`
  (`core/src/types.ts:53`): the assertion "tool_called" never passes, "tool_not_called" always does;
- `graphify/src/Graph.ts:50` says "Worse provenance dominates", the code keeps the better one; the
  bases of Python classes become edges to ids no node has and are dropped
  (`KnowledgeGraphBuilder.ts:106-115`); imports of files in a parent directory become nodes of
  their own; the build does not call the community detection.
- `MemoryGraph.neighbors` marks a node as visited at the depth it is first met by recursion, so at
  depth two and more it can miss nodes; `QueriesSound` claims completeness at one step only.
- A torn file hides the pages behind it from the scan for an id (`WikiStore.ts:92`).
- `BashTool` says "Long-running commands are killed at the timeout": a process that left the group
  keeps the output open, and the call does not settle. An abort that came before the listener was
  registered is left to the timeout.
- `Scaffolder` looks with `lstat` and opens later with `O_TRUNC`: a file made in between is
  overwritten without leave (`Scaffolder.ts:77-95`), and so `ScaffoldSound` speaks of files that were there at the start; a dry
  run lists a path that occurs twice as created twice.
- The voice tools pass the OpenAI key to whatever provider was chosen; `activate` during the two
  seconds of waiting makes a second window of the desktop shell; an audit session that lasts past midnight
  writes to the file of the day before.
- The orchestrator's `maxRetries` has no effect: its loop breaks after the first call
  (`OrchestratorEngine.ts:177-200`). A call that was aborted counts
  as a transient error and is retried (`QueryEngine.ts:42`).

## 8. What is not modelled, and why

- Pure I/O and text: prompts, formatting, HTTP parsing, argument parsing, permission bits (one
  "save fails" outcome), provider HTTP (one nondeterministic call), what an extractor finds in a
  source file, the schema scan of MCP metadata, the rendering of templates.
- Algorithms on text and floating point without state across calls: secret scrubbing, TOTP, memory
  search and embeddings, page ranks, summaries of `FullCompact`, reports of the simulations.
- The file tools and slash commands (one file operation each), plugin stubs, `BeamPlanner`, skills,
  prompt cache statistics, the dashboard's React components and its read-only endpoints, and code
  that nothing imports (`wiki/src/LLMWiki.ts` and the `tools.ts` over it, `core/src/repl-v2`) or only re-exports (`core/src/eval`).
- Timer widths: a delay above 2^31-1 ms fires at once in Node; the models only say that a timer
  fires some time. Glob matching of the file watcher is any subset of the pending watch tasks. A
  container that outlives its killed docker client is outside the model of the shell tool.
- IPC "schedule" spreads its payload over the new task; the model takes well-formed payloads, so
  that ids come from `randomUUID`. Cron tasks have no timer in this code and never run.
- Within modelled parts: the queue's persisted file, which nothing reads; transcripts, ranking and
  the line cap of the memory index, and two entries of one name in one millisecond, which share an
  id; the saved files of the code graph.
