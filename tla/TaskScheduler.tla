---------------------------- MODULE TaskScheduler ----------------------------
(***************************************************************************)
(* The persistent scheduler of the Kairos daemon (packages/kairos/src):     *)
(* TaskScheduler keeps tasks in a Map, arms one timer per timed task, runs  *)
(* the agent prompt when a timer fires and rewrites tasks.json after every  *)
(* change.  KairosDaemon adds the file watcher.  apps/kairos-daemon owns    *)
(* the process: it boots once, serves IPC and dies (signal, "shutdown" or   *)
(* crash), after which the next process loads the file.                     *)
(*                                                                          *)
(* A handler runs without interruption up to its first await.  What it read *)
(* before the await and still uses after it is kept in the state: runs in   *)
(* flight (`flight`), the tasks a file event selected (`pass`), and the     *)
(* snapshots being written (`write`).                                       *)
(***************************************************************************)
EXTENDS Integers, FiniteSets

CONSTANTS
  Ids,        \* task ids; randomUUID never returns one twice
  Once,       \* ids of kind "once" (with runAt)
  Interval,   \* ids of kind "interval" (with intervalMs)
  Watch,      \* ids of kind "on-file-change"; the other ids are "cron" tasks
  Limited,    \* ids scheduled with maxRuns
  MaxRuns,    \* their maxRuns
  Slots,      \* bound: saves in progress at the same time
  Passes,     \* bound: file events in progress at the same time
  MaxCount,   \* bound: runCount
  NoId

ASSUME IdsAssumption ==
  /\ Once \subseteq Ids /\ Interval \subseteq Ids /\ Watch \subseteq Ids
  /\ Once \cap Interval = {} /\ Once \cap Watch = {} /\ Interval \cap Watch = {}
  /\ Limited \subseteq Ids
  /\ NoId \notin Ids
\* The instances of the runs give every limited task a budget of two.
TwoRuns == [id \in Ids |-> 2]

ASSUME BoundsAssumption == MaxRuns \in [Ids -> Nat] /\ MaxCount \in Nat

VARIABLES
  up,       \* the daemon process is alive
  issued,   \* ids handed out so far, by any process
  task,     \* TaskScheduler.tasks: status and runCount, "none" when absent
  armed,    \* ids with a live timer
  flight,   \* flight[id]: runs of id awaiting onFire
  pass,     \* pass[p]: tasks a file event selected and has not prompted yet
  write,    \* write[s]: a save in progress, its snapshot and what follows it
  disk,     \* what load() would read from tasks.json
  bytes     \* tasks.json is not empty

vars == <<up, issued, task, armed, flight, pass, write, disk, bytes>>

Statuses == {"none", "pending", "running", "complete", "failed", "cancelled"}
TaskRec == [status : Statuses, runCount : Nat]
Snapshot == [Ids -> TaskRec]

NoTask == [status |-> "none", runCount |-> 0]
NoTasks == [id \in Ids |-> NoTask]
FreeSlot == [stage |-> "free", snap |-> NoTasks, arm |-> NoId]
WriteRec == [stage : {"free", "checking", "opened"}, snap : Snapshot, arm : Ids \cup {NoId}]

Timed == Once \cup Interval
Reached(id, n) == id \in Limited /\ n >= MaxRuns[id]

Init ==
  /\ up = FALSE
  /\ issued = {}
  /\ task = NoTasks
  /\ armed = {}
  /\ flight = [id \in Ids |-> 0]
  /\ pass = [p \in Passes |-> {}]
  /\ write = [s \in Slots |-> FreeSlot]
  /\ disk = NoTasks
  /\ bytes = FALSE

-----------------------------------------------------------------------------
(* save(): the snapshot is taken at once, the file is rewritten later.      *)

Save(snapshot, arm) ==
  \E s \in Slots :
    /\ write[s].stage = "free"
    /\ write' = [write EXCEPT ![s] = [stage |-> "checking", snap |-> snapshot, arm |-> arm]]

\* ensurePrivateDir and assertSafeStatePath passed: open(O_TRUNC)
OpenTruncate(s) ==
  /\ write[s].stage = "checking"
  /\ write' = [write EXCEPT ![s].stage = "opened"]
  /\ disk' = NoTasks
  /\ bytes' = FALSE
  /\ UNCHANGED <<up, issued, task, armed, flight, pass>>

\* Mutant: arms a timer whatever the kind.
StartTimerOfAnyKind(timers, id) == IF id \in Ids THEN timers \cup {id} ELSE timers

\* startTimer(): only interval and once tasks get a timer
StartTimer(timers, id) == IF id \in Timed THEN timers \cup {id} ELSE timers

\* writeFile at offset 0.  Bytes of a save that opened before this one and wrote
\* after this one opened are overwritten, or stick out behind a shorter text and
\* make the file unreadable JSON.  schedule() arms its timer when its save is done.
WriteData(s) ==
  /\ write[s].stage = "opened"
  /\ disk' \in IF bytes /\ disk # write[s].snap THEN {write[s].snap, NoTasks} ELSE {write[s].snap}
  /\ bytes' = TRUE
  /\ armed' = StartTimer(armed, write[s].arm)
  /\ write' = [write EXCEPT ![s] = FreeSlot]
  /\ UNCHANGED <<up, issued, task, flight, pass>>

\* writePrivateFile throws (path refused, disk full): schedule() rejects before it
\* arms its timer, the task stays in the Map
SaveFails(s) ==
  /\ write[s].stage # "free"
  /\ write' = [write EXCEPT ![s] = FreeSlot]
  /\ UNCHANGED <<up, issued, task, armed, flight, pass, disk, bytes>>

-----------------------------------------------------------------------------
(* The IPC requests that change state.                                      *)

Schedule(id) ==
  /\ up
  /\ id \notin issued
  /\ issued' = issued \cup {id}
  /\ task' = [task EXCEPT ![id] = [status |-> "pending", runCount |-> 0]]
  /\ Save(task', id)
  /\ UNCHANGED <<up, armed, flight, pass, disk, bytes>>

Cancel(id) ==
  /\ up
  /\ task[id].status # "none"
  /\ armed' = armed \ {id}
  /\ task' = [task EXCEPT ![id].status = "cancelled"]
  /\ Save(task', NoId)
  /\ UNCHANGED <<up, issued, flight, pass, disk, bytes>>

-----------------------------------------------------------------------------
(* fire(): a timer callback up to its await, and the rest of it.            *)

\* Mutant: fires without looking for a cancellation.
RunnableIfPresent(id) == task[id].status # "none"

Runnable(id) == task[id].status \notin {"none", "cancelled"}

\* Mutant: a one-shot task is armed with setInterval.
TimerKept(id) == armed

\* A timeout is spent when it fires, an interval stays armed.  A timer armed after
\* its task was cancelled fires into the early return.
TimerSpent(id) == IF id \in Once THEN armed \ {id} ELSE armed

FireCancelled(id) ==
  /\ up /\ id \in armed
  /\ ~Runnable(id)
  /\ armed' = TimerSpent(id)
  /\ UNCHANGED <<up, issued, task, flight, pass, write, disk, bytes>>

Fire(id) ==
  /\ up /\ id \in armed
  /\ Runnable(id)
  /\ task[id].runCount < MaxCount
  /\ armed' = TimerSpent(id)
  /\ task' = [task EXCEPT ![id] = [status |-> "running", runCount |-> @.runCount + 1]]
  /\ flight' = [flight EXCEPT ![id] = @ + 1]
  /\ UNCHANGED <<up, issued, pass, write, disk, bytes>>

\* Mutants: the result of the run hides a used budget; every run completes its task;
\* a failed run leaves the status alone.
OutcomeBeforeBudget(id, ok) ==
  IF ok THEN IF id \in Once THEN "complete" ELSE "pending"
  ELSE IF Reached(id, task[id].runCount) THEN "complete" ELSE "failed"
OutcomeOfAnyKind(id, ok) == IF ok THEN "complete" ELSE "failed"
OutcomeUncaught(id, ok) == IF ok THEN "pending" ELSE task[id].status

Outcome(id, ok) ==
  CASE Reached(id, task[id].runCount) -> "complete"
    [] ~Reached(id, task[id].runCount) /\ ~ok -> "failed"
    [] ~Reached(id, task[id].runCount) /\ ok -> IF id \in Once THEN "complete" ELSE "pending"

\* Mutant: the timer is cleared one run too late.
ClearedOneLate(id) == IF Reached(id, task[id].runCount - 1) THEN armed \ {id} ELSE armed

\* clearInterval when the budget is used
ClearedAtBudget(id) == IF Reached(id, task[id].runCount) THEN armed \ {id} ELSE armed

\* onFire settled: the status is overwritten, whatever it became meanwhile
FinishRun(id, ok) ==
  /\ up /\ flight[id] > 0
  /\ flight' = [flight EXCEPT ![id] = @ - 1]
  /\ task' = [task EXCEPT ![id].status = Outcome(id, ok)]
  /\ armed' = ClearedAtBudget(id)
  /\ Save(task', NoId)
  /\ UNCHANGED <<up, issued, pass, disk, bytes>>

-----------------------------------------------------------------------------
(* The file watcher: one pass per event over the tasks pending at the event. *)

\* Mutant: the filter forgets the status.
SelectedWhateverStatus == {id \in Watch : task[id].status # "none"}

Selectable == {id \in Watch : task[id].status = "pending"}

FileEvent(p) ==
  /\ up /\ pass[p] = {}
  /\ \E matched \in SUBSET Selectable :
       pass' = [pass EXCEPT ![p] = matched]
  /\ UNCHANGED <<up, issued, task, armed, flight, write, disk, bytes>>

\* the status is not read again before the prompt
PromptWatch(p, id) ==
  /\ up /\ id \in pass[p]
  /\ pass' = [pass EXCEPT ![p] = @ \ {id}]
  /\ UNCHANGED <<up, issued, task, armed, flight, write, disk, bytes>>

\* a prompt rejects: the rest of the pass is abandoned
PassFails(p) ==
  /\ up /\ pass[p] # {}
  /\ pass' = [pass EXCEPT ![p] = {}]
  /\ UNCHANGED <<up, issued, task, armed, flight, write, disk, bytes>>

-----------------------------------------------------------------------------
(* The process.                                                             *)

\* Death at any moment; a save caught while writing may leave part of its text.
Crash ==
  /\ up
  /\ up' = FALSE
  /\ task' = NoTasks
  /\ armed' = {}
  /\ flight' = [id \in Ids |-> 0]
  /\ pass' = [p \in Passes |-> {}]
  /\ write' = [s \in Slots |-> FreeSlot]
  /\ disk' \in {disk} \cup {NoTasks : s \in {t \in Slots : write[t].stage = "opened"}}
  /\ UNCHANGED <<issued, bytes>>

\* start() -> init() -> load(); an unreadable file starts fresh, and only tasks that
\* were saved as "pending" get a timer
Boot ==
  /\ ~up
  /\ up' = TRUE
  /\ task' = disk
  /\ armed' = {id \in Timed : disk[id].status = "pending"}
  /\ UNCHANGED <<issued, flight, pass, write, disk, bytes>>

Next ==
  \/ \E id \in Ids : Schedule(id) \/ Cancel(id) \/ Fire(id) \/ FireCancelled(id)
  \/ \E id \in Ids, ok \in BOOLEAN : FinishRun(id, ok)
  \/ \E s \in Slots : OpenTruncate(s) \/ WriteData(s) \/ SaveFails(s)
  \/ \E p \in Passes : FileEvent(p) \/ PassFails(p)
  \/ \E p \in Passes, id \in Ids : PromptWatch(p, id)
  \/ Crash \/ Boot

\* A run settles and a save makes progress: the prompt has its own turn limit and the
\* file operations return.  Only the slot bound can disable FinishRun meanwhile, hence SF.
Fairness ==
  /\ \A id \in Ids : SF_vars(\E ok \in BOOLEAN : FinishRun(id, ok))
  /\ \A s \in Slots : WF_vars(OpenTruncate(s)) /\ WF_vars(WriteData(s))

Spec == Init /\ [][Next]_vars
FairSpec == Spec /\ Fairness

-----------------------------------------------------------------------------
TypeOK ==
  /\ up \in BOOLEAN /\ bytes \in BOOLEAN
  /\ issued \subseteq Ids
  /\ task \in Snapshot /\ disk \in Snapshot
  /\ armed \subseteq Timed
  /\ flight \in [Ids -> Nat]
  /\ pass \in [Passes -> SUBSET Watch]
  /\ write \in [Slots -> WriteRec]

\* Every copy of a task: in memory, on disk, in a save on its way to the disk.
Copies(id) == {task[id], disk[id]} \cup {write[s].snap[id] : s \in Slots}

\* Across restarts and reordered saves no copy of a task offers another run of a
\* task whose budget is used: "pending" is only ever shown or stored while runs are
\* left (maxRuns = 0 still allows the first run).
PendingHasBudget ==
  \A id \in Ids : \A c \in Copies(id) :
    c.status = "pending" => c.runCount = 0 \/ ~Reached(id, c.runCount)

\* A finished task has no timer left to start it again, and neither a save that is
\* still to arm one.
CompleteDisarmed ==
  \A id \in Ids : task[id].status = "complete" =>
    id \notin armed /\ \A s \in Slots : write[s].arm # id

\* Overlapping interval callbacks may exceed maxRuns, but only while a run is in
\* flight: when the last one settles the timer is gone.
OvershootOnlyInFlight ==
  \A id \in armed : Reached(id, task[id].runCount) =>
    flight[id] > 0 \/ task[id].runCount = 0 \/ task[id].status = "cancelled"

\* A one-shot task runs alone: its timer is spent before its run starts, also when a
\* restart loads it from a file that does not know of the run.
OnceRunsAlone ==
  \A id \in Once : flight[id] + (IF id \in armed THEN 1 ELSE 0) <= 1

Dead(rec) == rec.status \in {"none", "cancelled"}

\* A cancellation that has reached memory, the file and every save in progress, with
\* no run or file-event pass still holding the task.
Quiet(id) ==
  /\ id \in issued
  /\ flight[id] = 0
  /\ \A p \in Passes : id \notin pass[p]
  /\ \A c \in Copies(id) : Dead(c)

\* Once cancelled and quiet, a task never runs again: no late save, torn file, late
\* timer or restart brings it back.
CancelledStaysQuiet == [][\A id \in Ids : Quiet(id) => Quiet(id)']_vars

\* A task does not stay "running" in a live daemon: its run settles and is recorded.
RunningSettles ==
  \A id \in Ids :
    (task[id].status = "running" /\ flight[id] > 0) ~> (task[id].status # "running" \/ ~up)

\* "Re-arm timers for surviving tasks": a restart gives a timer to every interval task
\* it finds neither finished nor cancelled, as the process that died had.
SurvivorsRearmed ==
  [][~up /\ up' => \A id \in Interval :
       task'[id].status \in {"pending", "running", "failed"} => id \in armed']_vars
=============================================================================
