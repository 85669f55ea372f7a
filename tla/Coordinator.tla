----------------------------- MODULE Coordinator -----------------------------
(***************************************************************************)
(* packages/orchestrator: Coordinator.run splits a prompt into subtasks,    *)
(* enqueues them in its TaskQueue and executes them in chunks on its        *)
(* WorkerPool; concurrent runs share the queue and the pool.  A worker is   *)
(* looked up and made busy without an await between (executeOnAvailable),   *)
(* a task that finds no idle worker polls for one, and a chunk starts when  *)
(* the whole chunk before it has ended (executeWithConcurrencyLimit).       *)
(***************************************************************************)
EXTENDS Integers, FiniteSets

CONSTANTS
  Runs,         \* concurrent calls of run()
  PoolSize,     \* config.workerCount ?? 3
  MaxSubtasks,  \* bound: subtasks the planning model answers with
  Limit,        \* Limit[r]: maxParallelTasks ?? workerCount ?? 3, before the min
  MayStop       \* the owner of the pool may call stopAll()

ASSUME PoolAssumption == PoolSize \in Nat \ {0} /\ MaxSubtasks \in Nat \ {0}
ASSUME LimitAssumption == Limit \in [Runs -> Nat \ {0}]
ASSUME FlagAssumption == MayStop \in BOOLEAN

VARIABLES
  planning, \* config.enablePlanning, fixed when the coordinator is built
  phase,    \* phase[r]: where run() awaits
  count,    \* count[r]: subtasks enqueued
  chunk,    \* chunk[r]: the chunk being executed, from 1
  status,   \* TaskQueue: status of each task
  exec,     \* exec[t]: progress of executeOnAvailable(t)
  worker    \* WorkerPool: status and current task of each worker

vars == <<planning, phase, count, chunk, status, exec, worker>>

Workers == 1 .. PoolSize
Tasks == Runs \X (1 .. MaxSubtasks)
None == <<>>

WorkerRec == [status : {"idle", "busy", "stopped"}, task : Tasks \cup {None}]

Init ==
  /\ planning \in BOOLEAN
  /\ phase = [r \in Runs |-> "new"]
  /\ count = [r \in Runs |-> 0]
  /\ chunk = [r \in Runs |-> 0]
  /\ status = [t \in Tasks |-> "none"]
  /\ exec = [t \in Tasks |-> "none"]
  /\ worker = [w \in Workers |-> [status |-> "idle", task |-> None]]

Settled(t) == exec[t] \in {"ok", "error"}
Least(a, b) == IF a <= b THEN a ELSE b

\* tasks.slice(i, i + limit) for the c-th chunk of n tasks
Parallel(r, n) == Least(Limit[r], n)
\* Mutant: the end of the slice is not clamped to the list.
ChunkUnclamped(r, n, c) ==
  {<<r, i>> : i \in (c - 1) * Parallel(r, n) + 1 .. c * Parallel(r, n)}

ChunkOf(r, n, c) ==
  {<<r, i>> : i \in (c - 1) * Parallel(r, n) + 1 .. Least(c * Parallel(r, n), n)}

\* Mutant: stops one chunk early.
LastChunkEarly(r) == count[r] <= (chunk[r] + 1) * Parallel(r, count[r])

LastChunk(r) == count[r] <= chunk[r] * Parallel(r, count[r])

\* Mutant: the lookup does not see the workers just taken.
IdleRankStale(w) == 1

\* getIdleWorker: the first idle worker; so the p-th task of a chunk that starts
\* takes the p-th idle worker
IdleRank(w) == Cardinality({v \in 1 .. w : worker[v].status = "idle"})
TakenBy(w, r, n, c) == <<r, (c - 1) * Parallel(r, n) + IdleRank(w)>>

StartChunk(r, n, c) ==
  LET taking == {w \in Workers : worker[w].status = "idle" /\ TakenBy(w, r, n, c) \in ChunkOf(r, n, c)}
      taken == {TakenBy(w, r, n, c) : w \in taking}
  IN /\ chunk' = [chunk EXCEPT ![r] = c]
     /\ exec' = [t \in Tasks |-> IF t \in taken THEN "running"
                                 ELSE IF t \in ChunkOf(r, n, c) THEN "waiting" ELSE exec[t]]
     /\ worker' = [w \in Workers |->
          IF w \in taking THEN [status |-> "busy", task |-> TakenBy(w, r, n, c)] ELSE worker[w]]

Enqueue(r, n) ==
  /\ phase' = [phase EXCEPT ![r] = "executing"]
  /\ count' = [count EXCEPT ![r] = n]
  /\ status' = [t \in Tasks |-> IF t \in {r} \X (1 .. n) THEN "queued" ELSE status[t]]
  /\ StartChunk(r, n, 1)
  /\ UNCHANGED planning

-----------------------------------------------------------------------------
RunWithPlan(r) ==
  /\ phase[r] = "new" /\ planning
  /\ phase' = [phase EXCEPT ![r] = "planning"]
  /\ UNCHANGED <<planning, count, chunk, status, exec, worker>>

\* no subtask in the answer, or a failed call, leaves the prompt as the one subtask
Decomposed(r) ==
  /\ phase[r] = "planning"
  /\ \E n \in 1 .. MaxSubtasks : Enqueue(r, n)

RunDirectly(r) ==
  /\ phase[r] = "new" /\ ~planning
  /\ Enqueue(r, 1)

\* a polling task wakes up while some worker is idle
Claim(t) ==
  /\ exec[t] = "waiting"
  /\ \E w \in Workers :
       /\ worker[w].status = "idle" /\ IdleRank(w) = 1
       /\ worker' = [worker EXCEPT ![w] = [status |-> "busy", task |-> t]]
  /\ exec' = [exec EXCEPT ![t] = "running"]
  /\ UNCHANGED <<planning, phase, count, chunk, status>>

\* Mutant: the worker forgets its task and stays busy.
ReleasedBusy == [status |-> "busy", task |-> None]

Released == [status |-> "idle", task |-> None]

\* queryLoop ends or throws: idle again, also after a stop() in between
Finish(w) ==
  /\ worker[w].task # None
  /\ worker' = [worker EXCEPT ![w] = Released]
  /\ \E result \in {"ok", "error"} : exec' = [exec EXCEPT ![worker[w].task] = result]
  /\ UNCHANGED <<planning, phase, count, chunk, status>>

\* Mutant: Promise.race for Promise.all.
ChunkRaced(r) ==
  phase[r] = "executing" /\ \E t \in ChunkOf(r, count[r], chunk[r]) : Settled(t)

ChunkEnded(r) ==
  phase[r] = "executing" /\ \A t \in ChunkOf(r, count[r], chunk[r]) : Settled(t)

NextChunk(r) ==
  /\ ChunkEnded(r) /\ ~LastChunk(r)
  /\ StartChunk(r, count[r], chunk[r] + 1)
  /\ UNCHANGED <<planning, phase, count, status>>

\* Mutant: the error of a result is not looked at.
VerdictIgnoringErrors(t) == "complete"

Verdict(t) == IF exec[t] = "error" THEN "failed" ELSE "complete"

\* complete or fail every result; one result needs no synthesis
RecordResults(r) ==
  /\ ChunkEnded(r) /\ LastChunk(r)
  /\ status' = [t \in Tasks |->
       IF t \in {r} \X (1 .. count[r]) THEN Verdict(t) ELSE status[t]]
  /\ phase' = [phase EXCEPT ![r] = IF count[r] = 1 THEN "returned" ELSE "synthesizing"]
  /\ UNCHANGED <<planning, count, chunk, exec, worker>>

Synthesized(r) ==
  /\ phase[r] = "synthesizing"
  /\ phase' = [phase EXCEPT ![r] = "returned"]
  /\ UNCHANGED <<planning, count, chunk, status, exec, worker>>

StopAll ==
  /\ MayStop
  /\ worker' = [w \in Workers |-> [worker[w] EXCEPT !.status = "stopped"]]
  /\ UNCHANGED <<planning, phase, count, chunk, status, exec>>

Next ==
  \/ \E r \in Runs : RunWithPlan(r) \/ RunDirectly(r) \/ Decomposed(r) \/ NextChunk(r)
                     \/ RecordResults(r) \/ Synthesized(r)
  \/ \E t \in Tasks : Claim(t)
  \/ \E w \in Workers : Finish(w)
  \/ StopAll

\* Model calls return or throw, resolved promises are resumed, and every polling task
\* keeps its own timer.
Fairness ==
  /\ \A r \in Runs : WF_vars(Decomposed(r)) /\ WF_vars(NextChunk(r))
                     /\ WF_vars(RecordResults(r)) /\ WF_vars(Synthesized(r))
  /\ \A t \in Tasks : WF_vars(Claim(t))
  /\ \A w \in Workers : WF_vars(Finish(w))

Spec == Init /\ [][Next]_vars
FairSpec == Spec /\ Fairness

-----------------------------------------------------------------------------
TypeOK ==
  /\ planning \in BOOLEAN
  /\ phase \in [Runs -> {"new", "planning", "executing", "synthesizing", "returned"}]
  /\ count \in [Runs -> 0 .. MaxSubtasks]
  /\ chunk \in [Runs -> Nat]
  /\ status \in [Tasks -> {"none", "queued", "complete", "failed"}]
  /\ exec \in [Tasks -> {"none", "waiting", "running", "ok", "error"}]
  /\ worker \in [Workers -> WorkerRec]

\* Tasks of all runs and workers are matched one to one while they execute: no task on
\* two workers, no worker on two tasks, none lost, with polls of several runs racing.
ExclusiveAssignment ==
  \A t \in Tasks :
    Cardinality({w \in Workers : worker[w].task = t}) = (IF exec[t] = "running" THEN 1 ELSE 0)

\* The tasks of a run that are out at once never exceed its limit, and a chunk is only
\* started over settled chunks.
ChunkBarrier ==
  \A r \in Runs :
    /\ Cardinality({t \in {r} \X (1 .. MaxSubtasks) : exec[t] \in {"waiting", "running"}}) <= Limit[r]
    /\ \A i, j \in 1 .. MaxSubtasks :
         i + Limit[r] <= j /\ exec[<<r, j>>] # "none" => Settled(<<r, i>>)

\* What the queue records of a returned run is what its workers reported, for all tasks.
RecordedAsExecuted ==
  \A r \in Runs : phase[r] \in {"synthesizing", "returned"} =>
    \A i \in 1 .. count[r] :
      status[<<r, i>>] = IF exec[<<r, i>>] = "ok" THEN "complete" ELSE "failed"

\* The runs keep to their chunks and record each result for its own task.
RunsSound == TypeOK /\ ChunkBarrier /\ RecordedAsExecuted

\* Every run returns, however many runs compete for the workers, unless the pool is
\* stopped.
RunsReturn ==
  \A r \in Runs : phase[r] # "new" ~>
    (phase[r] = "returned" \/ \E w \in Workers : worker[w].status = "stopped")

\* The coordinator as a caller sees it.
Batches == INSTANCE BoundedBatches WITH
  Capacity <- PoolSize,
  todo <- [r \in Runs |-> {t \in {r} \X (1 .. count[r]) : exec[t] \in {"none", "waiting"}}],
  active <- [r \in Runs |-> {t \in {r} \X (1 .. count[r]) : exec[t] = "running"}],
  ended <- [r \in Runs |-> {t \in {r} \X (1 .. count[r]) : Settled(t)}],
  returned <- {r \in Runs : phase[r] = "returned"}

\* Chunks, polling and shared workers implement the caller's view.
ImplementsBatches == Batches!Spec
=============================================================================
