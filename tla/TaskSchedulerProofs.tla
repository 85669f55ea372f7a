------------------------- MODULE TaskSchedulerProofs -------------------------
(* Proofs about TaskScheduler for every set of tasks, kinds, budgets and saves.    *)
EXTENDS TaskScheduler, TLAPS

\* A save puts one snapshot in one free slot and leaves the other slots alone.
LEMMA SaveTyped ==
  ASSUME NEW snapshot \in Snapshot, NEW arm \in Ids \cup {NoId},
         write \in [Slots -> WriteRec], Save(snapshot, arm)
  PROVE  write' \in [Slots -> WriteRec]
BY DEF Save, WriteRec

\* Every slot after a save holds what it held before, or the new snapshot.
LEMMA SaveAdds ==
  ASSUME NEW snapshot \in Snapshot, NEW arm \in Ids \cup {NoId},
         write \in [Slots -> WriteRec], Save(snapshot, arm)
  PROVE  \A s \in Slots :
           \/ write'[s] = write[s]
           \/ /\ write'[s].stage = "checking"
              /\ write'[s].snap = snapshot /\ write'[s].arm = arm
BY DEF Save, WriteRec

LEMMA EmptyTyped == NoTask \in TaskRec /\ NoTasks \in Snapshot /\ FreeSlot \in WriteRec
BY DEF NoTask, NoTasks, FreeSlot, TaskRec, Snapshot, WriteRec, Statuses

LEMMA OutcomeTyped ==
  ASSUME NEW id \in Ids, NEW ok \in BOOLEAN
  PROVE  Outcome(id, ok) \in {"complete", "failed", "pending"}
BY DEF Outcome

-----------------------------------------------------------------------------
LEMMA TypeInductive == TypeOK /\ [Next]_vars => TypeOK'
<1> SUFFICES ASSUME TypeOK, [Next]_vars PROVE TypeOK'
  OBVIOUS
<1> USE IdsAssumption, BoundsAssumption, EmptyTyped
<1>1. ASSUME NEW id \in Ids, Schedule(id) PROVE TypeOK'
  <2>1. task' \in Snapshot
    BY <1>1 DEF Schedule, TypeOK, Snapshot, TaskRec, Statuses
  <2>2. write' \in [Slots -> WriteRec]
    BY <1>1, <2>1, SaveTyped DEF Schedule, TypeOK
  <2> QED BY <1>1, <2>1, <2>2 DEF Schedule, TypeOK
<1>2. ASSUME NEW id \in Ids, Cancel(id) PROVE TypeOK'
  <2>1. task' \in Snapshot
    BY <1>2, ZenonT(60) DEF Cancel, TypeOK, Snapshot, TaskRec, Statuses
  <2>2. write' \in [Slots -> WriteRec]
    BY <1>2, <2>1, SaveTyped DEF Cancel, TypeOK
  <2> QED BY <1>2, <2>1, <2>2 DEF Cancel, TypeOK
<1>3. ASSUME NEW id \in Ids, Fire(id) PROVE TypeOK'
  <2>1. task' \in Snapshot
    BY <1>3 DEF Fire, TypeOK, Snapshot, TaskRec, Statuses
  <2> QED BY <1>3, <2>1 DEF Fire, TimerSpent, TypeOK
<1>4. ASSUME NEW id \in Ids, FireCancelled(id) PROVE TypeOK'
  BY <1>4 DEF FireCancelled, TimerSpent, TypeOK
<1>5. ASSUME NEW id \in Ids, NEW ok \in BOOLEAN, FinishRun(id, ok) PROVE TypeOK'
  <2>1. task' \in Snapshot
    BY <1>5, OutcomeTyped, ZenonT(60) DEF FinishRun, TypeOK, Snapshot, TaskRec, Statuses
  <2>2. write' \in [Slots -> WriteRec]
    BY <1>5, <2>1, SaveTyped DEF FinishRun, TypeOK
  <2>3. flight' \in [Ids -> Nat]
    BY <1>5 DEF FinishRun, TypeOK
  <2> QED BY <1>5, <2>1, <2>2, <2>3 DEF FinishRun, ClearedAtBudget, TypeOK
<1>6. ASSUME NEW s \in Slots, OpenTruncate(s) PROVE TypeOK'
  BY <1>6 DEF OpenTruncate, TypeOK, WriteRec
<1>7. ASSUME NEW s \in Slots, WriteData(s) PROVE TypeOK'
  <2>1. write[s].snap \in Snapshot /\ write[s].arm \in Ids \cup {NoId}
    BY DEF TypeOK, WriteRec
  <2> QED BY <1>7, <2>1 DEF WriteData, StartTimer, Timed, TypeOK
<1>8. ASSUME NEW s \in Slots, SaveFails(s) PROVE TypeOK'
  BY <1>8 DEF SaveFails, TypeOK
<1>9. ASSUME NEW p \in Passes, FileEvent(p) PROVE TypeOK'
  BY <1>9 DEF FileEvent, Selectable, TypeOK
<1>10. ASSUME NEW p \in Passes, PassFails(p) PROVE TypeOK'
  BY <1>10 DEF PassFails, TypeOK
<1>11. ASSUME NEW p \in Passes, NEW id \in Ids, PromptWatch(p, id) PROVE TypeOK'
  BY <1>11 DEF PromptWatch, TypeOK
<1>12. CASE Crash
  <2>1. disk' \in Snapshot
    BY <1>12 DEF Crash, TypeOK
  <2> QED BY <1>12, <2>1 DEF Crash, TypeOK
<1>13. CASE Boot
  BY <1>13 DEF Boot, TypeOK
<1>14. CASE UNCHANGED vars
  BY <1>14 DEF vars, TypeOK
<1> QED
  BY <1>1, <1>2, <1>3, <1>4, <1>5, <1>6, <1>7, <1>8, <1>9, <1>10, <1>11, <1>12, <1>13, <1>14
  DEF Next

LEMMA TypeInitial == Init => TypeOK
<1> SUFFICES ASSUME Init PROVE TypeOK
  OBVIOUS
<1>1. up \in BOOLEAN /\ bytes \in BOOLEAN
  BY DEF Init
<1>2. write \in [Slots -> WriteRec]
  BY EmptyTyped DEF Init
<1> QED BY <1>1, <1>2, EmptyTyped DEF Init, TypeOK

\* Type correctness of the scheduler's memory, its saves and its file.
THEOREM TypeCorrect == Spec => []TypeOK
BY TypeInitial, TypeInductive, PTL DEF Spec

-----------------------------------------------------------------------------
(* PendingHasBudget.  A copy is only ever made of another copy or of the result of  *)
(* a handler, so it is enough that no handler produces a pending task out of budget. *)

Affordable(rec, id) == rec.status = "pending" => rec.runCount = 0 \/ ~Reached(id, rec.runCount)

LEMMA BudgetParts ==
  PendingHasBudget <=>
    /\ \A id \in Ids : Affordable(task[id], id) /\ Affordable(disk[id], id)
    /\ \A s \in Slots, id \in Ids : Affordable(write[s].snap[id], id)
BY DEF PendingHasBudget, Affordable, Copies

LEMMA EmptyAffordable == \A id \in Ids : Affordable(NoTasks[id], id)
BY DEF NoTasks, NoTask, Affordable

LEMMA BudgetInductive == TypeOK /\ PendingHasBudget /\ [Next]_vars => PendingHasBudget'
<1> SUFFICES ASSUME TypeOK, PendingHasBudget, [Next]_vars PROVE PendingHasBudget'
  OBVIOUS
<1> DEFINE Mem == \A i \in Ids : Affordable(task[i], i)
           File == \A i \in Ids : Affordable(disk[i], i)
           Saves == \A s \in Slots, i \in Ids : Affordable(write[s].snap[i], i)
<1>a. Mem /\ File /\ Saves
  BY BudgetParts
<1>b. SUFFICES Mem' /\ File' /\ Saves'
  BY DEF PendingHasBudget, Affordable, Copies
<1>c. TypeOK'
  BY TypeInductive
<1> USE EmptyAffordable
<1>d. ASSUME NEW arm \in Ids \cup {NoId}, Save(task', arm), Mem' PROVE Saves'
  <2>1. \A s \in Slots : write'[s] = write[s] \/ write'[s].snap = task'
    BY <1>c, <1>d, SaveAdds DEF TypeOK
  <2> QED BY <1>a, <1>d, <2>1 DEF Affordable
<1>1. ASSUME NEW id \in Ids, Schedule(id) PROVE Mem' /\ File' /\ Saves'
  <2>1. Mem'
    BY <1>1, <1>a DEF Schedule, TypeOK, Snapshot, Affordable
  <2> QED BY <1>1, <1>a, <1>d, <2>1 DEF Schedule, Affordable
<1>2. ASSUME NEW id \in Ids, Cancel(id) PROVE Mem' /\ File' /\ Saves'
  <2>1. Mem'
    BY <1>2, <1>a DEF Cancel, TypeOK, Snapshot, TaskRec, Affordable
  <2> QED BY <1>2, <1>a, <1>d, <2>1 DEF Cancel, Affordable
<1>3. ASSUME NEW id \in Ids, Fire(id) PROVE Mem' /\ File' /\ Saves'
  <2>1. Mem'
    BY <1>3, <1>a DEF Fire, TypeOK, Snapshot, TaskRec, Affordable
  <2> QED BY <1>3, <1>a, <2>1 DEF Fire, Affordable
<1>4. ASSUME NEW id \in Ids, NEW ok \in BOOLEAN, FinishRun(id, ok) PROVE Mem' /\ File' /\ Saves'
  <2>1. Outcome(id, ok) = "pending" => ~Reached(id, task[id].runCount)
    BY DEF Outcome
  <2>2. Mem'
    BY <1>4, <1>a, <2>1 DEF FinishRun, TypeOK, Snapshot, TaskRec, Affordable
  <2> QED BY <1>4, <1>a, <1>d, <2>2 DEF FinishRun, Affordable
<1>5. ASSUME NEW s \in Slots, OpenTruncate(s) PROVE Mem' /\ File' /\ Saves'
  BY <1>5, <1>a DEF OpenTruncate, TypeOK, WriteRec, Affordable
<1>6. ASSUME NEW s \in Slots, WriteData(s) PROVE Mem' /\ File' /\ Saves'
  <2>1. File'
    BY <1>6, <1>a DEF WriteData
  <2>2. Saves'
    BY <1>6, <1>a DEF WriteData, TypeOK, FreeSlot
  <2> QED BY <1>6, <1>a, <2>1, <2>2 DEF WriteData
<1>7. ASSUME NEW s \in Slots, SaveFails(s) PROVE Mem' /\ File' /\ Saves'
  BY <1>7, <1>a DEF SaveFails, TypeOK, FreeSlot, Affordable
<1>8. CASE Crash
  <2>1. File'
    BY <1>8, <1>a DEF Crash
  <2> QED BY <1>8, <2>1 DEF Crash, FreeSlot, Affordable
<1>9. CASE Boot
  BY <1>9, <1>a DEF Boot, Affordable
<1>10. CASE UNCHANGED <<task, disk, write>>
  BY <1>10, <1>a DEF Affordable
<1> QED
  BY <1>1, <1>2, <1>3, <1>4, <1>5, <1>6, <1>7, <1>8, <1>9, <1>10
  DEF Next, vars, FireCancelled, FileEvent, PassFails, PromptWatch

\* No copy of a task, in memory, on disk or in a save, offers a run beyond maxRuns.
THEOREM BudgetKept == Spec => []PendingHasBudget
<1>1. Init => PendingHasBudget
  BY BudgetParts DEF Init, NoTasks, NoTask, FreeSlot, Affordable
<1> QED BY <1>1, TypeInitial, TypeInductive, BudgetInductive, PTL DEF Spec

-----------------------------------------------------------------------------
(* CancelledStaysQuiet.  A quiet task has no live copy anywhere, and every handler  *)
(* that could make one live needs a live copy, a run in flight or a fresh id.        *)

QuietParts(id) ==
  /\ id \in issued
  /\ flight[id] = 0
  /\ \A p \in Passes : id \notin pass[p]
  /\ Dead(task[id]) /\ Dead(disk[id])
  /\ \A s \in Slots : Dead(write[s].snap[id])

LEMMA QuietSplit == \A id \in Ids : Quiet(id) <=> QuietParts(id)
BY DEF Quiet, QuietParts, Copies

LEMMA QuietStable ==
  ASSUME TypeOK, [Next]_vars, NEW q \in Ids, QuietParts(q)
  PROVE  QuietParts(q)'
<1>c. TypeOK'
  BY TypeInductive
<1>e. Dead(NoTasks[q])
  BY DEF Dead, NoTasks, NoTask
<1>d. ASSUME NEW arm \in Ids \cup {NoId}, Save(task', arm), Dead(task'[q])
      PROVE  \A s \in Slots : Dead(write'[s].snap[q])
  <2>1. \A s \in Slots : write'[s] = write[s] \/ write'[s].snap = task'
    BY <1>c, <1>d, SaveAdds DEF TypeOK
  <2> QED BY <1>d, <2>1 DEF QuietParts
<1>1. ASSUME NEW id \in Ids, Schedule(id) PROVE QuietParts(q)'
  <2>1. Dead(task'[q])
    BY <1>1 DEF Schedule, TypeOK, Snapshot, QuietParts
  <2>2. \A s \in Slots : Dead(write'[s].snap[q])
    BY <1>1, <1>d, <2>1 DEF Schedule
  <2> QED BY <1>1, <2>1, <2>2 DEF Schedule, QuietParts
<1>2. ASSUME NEW id \in Ids, Cancel(id) PROVE QuietParts(q)'
  <2>1. Dead(task'[q])
    BY <1>2 DEF Cancel, TypeOK, Snapshot, TaskRec, QuietParts, Dead
  <2>2. \A s \in Slots : Dead(write'[s].snap[q])
    BY <1>2, <1>d, <2>1 DEF Cancel
  <2> QED BY <1>2, <2>1, <2>2 DEF Cancel, QuietParts
<1>3. ASSUME NEW id \in Ids, Fire(id) PROVE QuietParts(q)'
  <2>1. id # q
    BY <1>3 DEF Fire, Runnable, QuietParts, Dead
  <2> QED BY <1>3, <2>1 DEF Fire, QuietParts, TypeOK, Snapshot
<1>4. ASSUME NEW id \in Ids, FireCancelled(id) PROVE QuietParts(q)'
  BY <1>4 DEF FireCancelled, QuietParts
<1>5. ASSUME NEW id \in Ids, NEW ok \in BOOLEAN, FinishRun(id, ok) PROVE QuietParts(q)'
  <2>1. id # q
    BY <1>5 DEF FinishRun, QuietParts
  <2>2. Dead(task'[q]) /\ flight'[q] = 0
    BY <1>5, <2>1 DEF FinishRun, TypeOK, Snapshot, QuietParts
  <2>3. \A s \in Slots : Dead(write'[s].snap[q])
    BY <1>5, <1>d, <2>2 DEF FinishRun
  <2> QED BY <1>5, <2>2, <2>3 DEF FinishRun, QuietParts
<1>6. ASSUME NEW s \in Slots, OpenTruncate(s) PROVE QuietParts(q)'
  <2>1. \A t \in Slots : write'[t].snap = write[t].snap
    BY <1>6 DEF OpenTruncate, TypeOK, WriteRec
  <2> QED BY <1>6, <1>e, <2>1 DEF OpenTruncate, QuietParts
<1>7. ASSUME NEW s \in Slots, WriteData(s) PROVE QuietParts(q)'
  <2>1. Dead(disk'[q])
    BY <1>7, <1>e DEF WriteData, QuietParts
  <2>2. \A t \in Slots : Dead(write'[t].snap[q])
    BY <1>7, <1>e DEF WriteData, QuietParts, TypeOK, FreeSlot
  <2> QED BY <1>7, <2>1, <2>2 DEF WriteData, QuietParts
<1>8. ASSUME NEW s \in Slots, SaveFails(s) PROVE QuietParts(q)'
  <2>1. \A t \in Slots : Dead(write'[t].snap[q])
    BY <1>8, <1>e DEF SaveFails, QuietParts, TypeOK, FreeSlot
  <2> QED BY <1>8, <2>1 DEF SaveFails, QuietParts
<1>9. ASSUME NEW p \in Passes, FileEvent(p) PROVE QuietParts(q)'
  BY <1>9 DEF FileEvent, Selectable, QuietParts, TypeOK, Dead
<1>10. ASSUME NEW p \in Passes, PassFails(p) PROVE QuietParts(q)'
  BY <1>10 DEF PassFails, QuietParts, TypeOK
<1>11. ASSUME NEW p \in Passes, NEW id \in Ids, PromptWatch(p, id) PROVE QuietParts(q)'
  BY <1>11 DEF PromptWatch, QuietParts, TypeOK
<1>12. CASE Crash
  <2>1. Dead(task'[q]) /\ Dead(disk'[q]) /\ flight'[q] = 0
    BY <1>12, <1>e DEF Crash, QuietParts
  <2>2. \A t \in Slots : Dead(write'[t].snap[q])
    BY <1>12, <1>e DEF Crash, FreeSlot
  <2> QED BY <1>12, <2>1, <2>2 DEF Crash, QuietParts
<1>13. CASE Boot
  BY <1>13 DEF Boot, QuietParts
<1>14. CASE UNCHANGED vars
  BY <1>14 DEF vars, QuietParts
<1> QED
  BY <1>1, <1>2, <1>3, <1>4, <1>5, <1>6, <1>7, <1>8, <1>9, <1>10, <1>11, <1>12, <1>13, <1>14
  DEF Next

\* A task whose cancellation has reached every copy never runs again, whatever late
\* save, torn file, late timer or restart follows.
THEOREM CancellationFinal == Spec => CancelledStaysQuiet
<1>1. TypeOK /\ [Next]_vars => [\A id \in Ids : Quiet(id) => Quiet(id)']_vars
  <2> SUFFICES ASSUME TypeOK, [Next]_vars, NEW id \in Ids, Quiet(id) PROVE Quiet(id)'
    OBVIOUS
  <2>1. QuietParts(id)'
    BY QuietStable, QuietSplit
  <2> QED BY <2>1 DEF Quiet, QuietParts, Copies
<1> QED BY <1>1, TypeCorrect, PTL DEF Spec, CancelledStaysQuiet

-----------------------------------------------------------------------------
(* CompleteDisarmed and OnceRunsAlone.  Neither is inductive: a complete task might  *)
(* be armed by a save still on its way, and a one-shot task by a second timer.  Three *)
(* facts exclude both: an id that was never issued is nowhere (FreshNowhere), a dead  *)
(* process holds nothing (DownHoldsNothing), and the save that is to arm a task is    *)
(* the only one and finds it unarmed, not running and not complete (ArmOnce).         *)

FreshNowhere ==
  \A id \in Ids \ issued :
    /\ task[id] = NoTask /\ disk[id] = NoTask
    /\ flight[id] = 0 /\ id \notin armed
    /\ \A s \in Slots : write[s].snap[id] = NoTask /\ write[s].arm # id

DownHoldsNothing ==
  ~up => /\ armed = {}
         /\ \A id \in Ids : flight[id] = 0
         /\ \A s \in Slots : write[s].arm = NoId

ArmOnce ==
  \A s \in Slots : \A id \in Ids : write[s].arm = id =>
    /\ id \notin armed /\ flight[id] = 0
    /\ task[id].status \in {"pending", "cancelled"}
    /\ \A t \in Slots \ {s} : write[t].arm # id

OnceAlone == \A id \in Once : flight[id] <= 1 /\ (id \in armed => flight[id] = 0)

DoneDisarmed == \A id \in armed : task[id].status # "complete"

ArmingInv == FreshNowhere /\ DownHoldsNothing /\ ArmOnce /\ OnceAlone /\ DoneDisarmed

\* What each handler keeps of ArmingInv, given that types hold before and after it.
LEMMA ArmingInductive == TypeOK /\ ArmingInv /\ [Next]_vars => ArmingInv'
<1> SUFFICES ASSUME TypeOK, ArmingInv, [Next]_vars PROVE ArmingInv'
  OBVIOUS
<1>c. TypeOK'
  BY TypeInductive
<1> USE IdsAssumption
<1>s. ASSUME NEW arm \in Ids \cup {NoId}, Save(task', arm)
      PROVE  \A s \in Slots :
               \/ write'[s] = write[s]
               \/ write'[s].snap = task' /\ write'[s].arm = arm
  BY <1>c, <1>s, SaveAdds DEF TypeOK
<1>1. ASSUME NEW id \in Ids, Schedule(id) PROVE ArmingInv'
  <2>1. \A i \in Ids \ {id} : task'[i] = task[i]
    BY <1>1 DEF Schedule, TypeOK, Snapshot
  <2>2. task'[id].status = "pending"
    BY <1>1 DEF Schedule, TypeOK, Snapshot
  <2>3. FreshNowhere'
    <3> SUFFICES ASSUME NEW i \in Ids \ issued'
                 PROVE  /\ task'[i] = NoTask /\ disk'[i] = NoTask
                        /\ flight'[i] = 0 /\ i \notin armed'
                        /\ \A s \in Slots : write'[s].snap[i] = NoTask /\ write'[s].arm # i
      BY DEF FreshNowhere
    <3>1. i # id /\ i \in Ids \ issued
      BY <1>1 DEF Schedule
    <3>2. task'[i] = NoTask
      BY <2>1, <3>1 DEF ArmingInv, FreshNowhere
    <3>3. \A s \in Slots : write'[s].snap[i] = NoTask /\ write'[s].arm # i
      <4>1. \A s \in Slots :
              write'[s] = write[s] \/ (write'[s].snap = task' /\ write'[s].arm = id)
        BY <1>s, <1>1 DEF Schedule
      <4>2. \A s \in Slots : write[s].snap[i] = NoTask /\ write[s].arm # i
        BY <3>1 DEF ArmingInv, FreshNowhere
      <4> QED BY <3>1, <3>2, <4>1, <4>2
    <3> QED BY <1>1, <2>1, <3>1, <3>2, <3>3 DEF Schedule, ArmingInv, FreshNowhere
  <2>4. ArmOnce'
    <3>1. PICK z \in Slots : write' = [write EXCEPT ![z] =
                               [stage |-> "checking", snap |-> task', arm |-> id]]
      BY <1>1 DEF Schedule, Save
    <3>2. \A s \in Slots : write[s].arm # id /\ (s # z => write'[s] = write[s])
      BY <1>1, <3>1 DEF Schedule, ArmingInv, FreshNowhere, TypeOK
    <3>3. write'[z].arm = id
      BY <3>1 DEF TypeOK
    <3>4. id \notin armed /\ flight[id] = 0
      BY <1>1 DEF Schedule, ArmingInv, FreshNowhere
    <3> QED BY <1>1, <2>1, <2>2, <3>2, <3>3, <3>4 DEF Schedule, ArmingInv, ArmOnce
  <2>5. DownHoldsNothing' /\ OnceAlone'
    BY <1>1 DEF Schedule, ArmingInv, DownHoldsNothing, OnceAlone
  <2>6. DoneDisarmed'
    BY <1>1, <2>1, <2>2, <1>c DEF Schedule, ArmingInv, DoneDisarmed, TypeOK, Timed
  <2> QED BY <2>3, <2>4, <2>5, <2>6 DEF ArmingInv
<1>2. ASSUME NEW id \in Ids, Cancel(id) PROVE ArmingInv'
  <2>1. \A i \in Ids \ {id} : task'[i] = task[i]
    BY <1>2 DEF Cancel, TypeOK, Snapshot
  <2>2. task'[id].status = "cancelled" /\ id \in issued
    BY <1>2 DEF Cancel, TypeOK, Snapshot, TaskRec, ArmingInv, FreshNowhere, NoTask
  <2>3. FreshNowhere'
    <3> SUFFICES ASSUME NEW i \in Ids \ issued'
                 PROVE  /\ task'[i] = NoTask /\ disk'[i] = NoTask
                        /\ flight'[i] = 0 /\ i \notin armed'
                        /\ \A s \in Slots : write'[s].snap[i] = NoTask /\ write'[s].arm # i
      BY DEF FreshNowhere
    <3>1. i # id /\ i \in Ids \ issued
      BY <1>2, <2>2 DEF Cancel
    <3>2. task'[i] = NoTask
      BY <2>1, <3>1 DEF ArmingInv, FreshNowhere
    <3>3. \A s \in Slots : write'[s].snap[i] = NoTask /\ write'[s].arm # i
      <4>1. \A s \in Slots :
              write'[s] = write[s] \/ (write'[s].snap = task' /\ write'[s].arm = NoId)
        BY <1>s, <1>2 DEF Cancel
      <4>2. \A s \in Slots : write[s].snap[i] = NoTask /\ write[s].arm # i
        BY <3>1 DEF ArmingInv, FreshNowhere
      <4> QED BY <3>1, <3>2, <4>1, <4>2
    <3> QED BY <1>2, <2>1, <3>1, <3>2, <3>3 DEF Cancel, ArmingInv, FreshNowhere
  <2>4. \A s \in Slots : write'[s].arm = write[s].arm \/ write'[s].arm = NoId
    BY <1>2, <1>s DEF Cancel
  <2>5. ArmOnce'
    BY <1>2, <2>1, <2>2, <2>4 DEF Cancel, ArmingInv, ArmOnce
  <2>6. DownHoldsNothing' /\ OnceAlone'
    BY <1>2 DEF Cancel, ArmingInv, DownHoldsNothing, OnceAlone
  <2>7. DoneDisarmed'
    BY <1>2, <2>1, <2>2, <1>c DEF Cancel, ArmingInv, DoneDisarmed, TypeOK, Timed
  <2> QED BY <2>3, <2>5, <2>6, <2>7 DEF ArmingInv
<1>3. ASSUME NEW id \in Ids, Fire(id) PROVE ArmingInv'
  <2>1. \A i \in Ids \ {id} : task'[i] = task[i] /\ flight'[i] = flight[i]
    BY <1>3 DEF Fire, TypeOK, Snapshot
  <2>2. task'[id].status = "running" /\ flight'[id] = flight[id] + 1
    BY <1>3 DEF Fire, TypeOK, Snapshot
  <2>3. armed' \subseteq armed /\ (id \in Once => id \notin armed') /\ id \in issued
    BY <1>3 DEF Fire, TimerSpent, ArmingInv, FreshNowhere
  <2>4. FreshNowhere'
    BY <1>3, <2>1, <2>3 DEF Fire, ArmingInv, FreshNowhere
  <2>5. ArmOnce'
    BY <1>3, <2>1, <2>3 DEF Fire, ArmingInv, ArmOnce
  <2>6. OnceAlone'
    BY <1>3, <2>1, <2>2, <2>3 DEF Fire, ArmingInv, OnceAlone, TypeOK
  <2>7. DownHoldsNothing'
    BY <1>3 DEF Fire, ArmingInv, DownHoldsNothing
  <2>8. DoneDisarmed'
    BY <2>1, <2>2, <2>3 DEF ArmingInv, DoneDisarmed, TypeOK, Timed
  <2> QED BY <2>4, <2>5, <2>6, <2>7, <2>8 DEF ArmingInv
<1>4. ASSUME NEW id \in Ids, FireCancelled(id) PROVE ArmingInv'
  BY <1>4 DEF FireCancelled, TimerSpent, ArmingInv, FreshNowhere, DownHoldsNothing, ArmOnce,
     OnceAlone, DoneDisarmed
<1>5. ASSUME NEW id \in Ids, NEW ok \in BOOLEAN, FinishRun(id, ok) PROVE ArmingInv'
  <2>1. \A i \in Ids \ {id} : task'[i] = task[i] /\ flight'[i] = flight[i]
    BY <1>5 DEF FinishRun, TypeOK, Snapshot
  <2>2. task'[id].status = Outcome(id, ok) /\ flight'[id] = flight[id] - 1
    BY <1>5 DEF FinishRun, TypeOK, Snapshot, TaskRec
  <2>3. armed' \subseteq armed /\ id \in issued
    BY <1>5 DEF FinishRun, ClearedAtBudget, ArmingInv, FreshNowhere
  <2>4. \A s \in Slots : write'[s].arm = write[s].arm \/ write'[s].arm = NoId
    BY <1>5, <1>s DEF FinishRun
  <2>5. FreshNowhere'
    <3> SUFFICES ASSUME NEW i \in Ids \ issued'
                 PROVE  /\ task'[i] = NoTask /\ disk'[i] = NoTask
                        /\ flight'[i] = 0 /\ i \notin armed'
                        /\ \A s \in Slots : write'[s].snap[i] = NoTask /\ write'[s].arm # i
      BY DEF FreshNowhere
    <3>1. i # id /\ i \in Ids \ issued
      BY <1>5, <2>3 DEF FinishRun
    <3>2. task'[i] = NoTask
      BY <2>1, <3>1 DEF ArmingInv, FreshNowhere
    <3>3. \A s \in Slots : write'[s].snap[i] = NoTask /\ write'[s].arm # i
      <4>1. \A s \in Slots :
              write'[s] = write[s] \/ (write'[s].snap = task' /\ write'[s].arm = NoId)
        BY <1>s, <1>5 DEF FinishRun
      <4>2. \A s \in Slots : write[s].snap[i] = NoTask /\ write[s].arm # i
        BY <3>1 DEF ArmingInv, FreshNowhere
      <4> QED BY <3>1, <3>2, <4>1, <4>2
    <3> QED BY <1>5, <2>1, <3>1, <3>2, <3>3 DEF FinishRun, ClearedAtBudget, ArmingInv, FreshNowhere
  <2>6. ArmOnce'
    BY <1>5, <2>1, <2>3, <2>4 DEF FinishRun, ArmingInv, ArmOnce
  <2>7. OnceAlone'
    BY <1>5, <2>1, <2>2, <2>3 DEF FinishRun, ArmingInv, OnceAlone, TypeOK
  <2>8. DownHoldsNothing'
    BY <1>5 DEF FinishRun, ArmingInv, DownHoldsNothing
  <2>9. Outcome(id, ok) = "complete" => id \notin armed'
    BY <1>5 DEF FinishRun, ClearedAtBudget, Outcome, ArmingInv, OnceAlone
  <2>10. DoneDisarmed'
    BY <2>1, <2>2, <2>3, <2>9 DEF ArmingInv, DoneDisarmed, TypeOK, Timed
  <2> QED BY <2>5, <2>6, <2>7, <2>8, <2>10 DEF ArmingInv
<1>6. ASSUME NEW s \in Slots, OpenTruncate(s) PROVE ArmingInv'
  <2>1. \A t \in Slots : write'[t].snap = write[t].snap /\ write'[t].arm = write[t].arm
    BY <1>6 DEF OpenTruncate, TypeOK, WriteRec
  <2> QED BY <1>6, <2>1 DEF OpenTruncate, NoTasks, ArmingInv, FreshNowhere, DownHoldsNothing,
          ArmOnce, OnceAlone, DoneDisarmed
<1>7. ASSUME NEW s \in Slots, WriteData(s) PROVE ArmingInv'
  <2>1. \A t \in Slots \ {s} : write'[t] = write[t]
    BY <1>7 DEF WriteData, TypeOK
  <2>2. write'[s] = FreeSlot
    BY <1>7 DEF WriteData, TypeOK
  <2>3. \A i \in armed' : i \in armed \/ (write[s].arm = i /\ i \in Ids)
    BY <1>7 DEF WriteData, StartTimer, Timed
  <2>4. armed \subseteq armed'
    BY <1>7 DEF WriteData, StartTimer
  <2>5. FreshNowhere'
    BY <1>7, <2>1, <2>2, <2>3 DEF WriteData, NoTasks, FreeSlot, ArmingInv, FreshNowhere
  <2>6. ArmOnce'
    <3> SUFFICES ASSUME NEW t \in Slots, NEW i \in Ids, write'[t].arm = i
                 PROVE  /\ i \notin armed' /\ flight'[i] = 0
                        /\ task'[i].status \in {"pending", "cancelled"}
                        /\ \A u \in Slots \ {t} : write'[u].arm # i
      BY DEF ArmOnce
    <3>1. t # s /\ write[t].arm = i
      BY <2>1, <2>2 DEF FreeSlot
    <3>2. i \notin armed /\ flight[i] = 0 /\ task[i].status \in {"pending", "cancelled"}
          /\ \A u \in Slots \ {t} : write[u].arm # i
      BY <3>1 DEF ArmingInv, ArmOnce
    <3> QED BY <1>7, <2>1, <2>2, <2>3, <3>1, <3>2 DEF WriteData, FreeSlot
  <2>7. OnceAlone'
    BY <1>7, <2>3 DEF WriteData, ArmingInv, ArmOnce, OnceAlone
  <2>8. DoneDisarmed'
    BY <1>7, <2>3 DEF WriteData, ArmingInv, ArmOnce, DoneDisarmed
  <2>9. DownHoldsNothing'
    BY <1>7, <2>1, <2>2, <2>3 DEF WriteData, FreeSlot, ArmingInv, DownHoldsNothing
  <2> QED BY <2>5, <2>6, <2>7, <2>8, <2>9 DEF ArmingInv
<1>8. ASSUME NEW s \in Slots, SaveFails(s) PROVE ArmingInv'
  <2>1. \A t \in Slots : write'[t] = write[t] \/ write'[t] = FreeSlot
    BY <1>8 DEF SaveFails, TypeOK
  <2> QED BY <1>8, <2>1 DEF SaveFails, FreeSlot, NoTasks, ArmingInv, FreshNowhere,
          DownHoldsNothing, ArmOnce, OnceAlone, DoneDisarmed
<1>9. CASE Crash
  <2>1. \A s \in Slots : write'[s] = FreeSlot
    BY <1>9 DEF Crash
  <2>2. \A i \in Ids \ issued : disk'[i] = NoTask
    BY <1>9 DEF Crash, NoTasks, ArmingInv, FreshNowhere
  <2> QED BY <1>9, <2>1, <2>2 DEF Crash, FreeSlot, NoTasks, ArmingInv, FreshNowhere,
          DownHoldsNothing, ArmOnce, OnceAlone, DoneDisarmed
<1>10. CASE Boot
  <2>1. \A i \in Ids \ issued : i \notin armed'
    BY <1>10 DEF Boot, ArmingInv, FreshNowhere, NoTask
  <2> QED BY <1>10, <2>1 DEF Boot, ArmingInv, FreshNowhere, DownHoldsNothing, ArmOnce,
          OnceAlone, DoneDisarmed
<1>11. CASE UNCHANGED <<up, issued, task, armed, flight, write, disk>>
  BY <1>11 DEF ArmingInv, FreshNowhere, DownHoldsNothing, ArmOnce, OnceAlone, DoneDisarmed
<1> QED
  BY <1>1, <1>2, <1>3, <1>4, <1>5, <1>6, <1>7, <1>8, <1>9, <1>10, <1>11
  DEF Next, vars, FileEvent, PassFails, PromptWatch

LEMMA ArmingInitial == Init => ArmingInv
BY IdsAssumption DEF Init, NoTasks, FreeSlot, ArmingInv, FreshNowhere, DownHoldsNothing,
   ArmOnce, OnceAlone, DoneDisarmed

LEMMA ArmingMeans == TypeOK /\ ArmingInv => CompleteDisarmed /\ OnceRunsAlone
<1> SUFFICES ASSUME TypeOK, ArmingInv PROVE CompleteDisarmed /\ OnceRunsAlone
  OBVIOUS
<1>1. CompleteDisarmed
  BY DEF ArmingInv, ArmOnce, DoneDisarmed, CompleteDisarmed
<1>2. OnceRunsAlone
  BY IdsAssumption DEF ArmingInv, OnceAlone, OnceRunsAlone, TypeOK
<1> QED BY <1>1, <1>2

LEMMA ArmingCorrect == Spec => []ArmingInv
BY TypeInitial, TypeInductive, ArmingInitial, ArmingInductive, PTL DEF Spec

\* A complete task has no timer and gets none.
THEOREM TimersSound == Spec => []CompleteDisarmed
BY TypeCorrect, ArmingCorrect, ArmingMeans, PTL

\* A one-shot task never overlaps with another run of itself, also after a restart that loads
\* it from a file that does not know of the run.
THEOREM OneShotAlone == Spec => []OnceRunsAlone
BY TypeCorrect, ArmingCorrect, ArmingMeans, PTL

-----------------------------------------------------------------------------
(* OvershootOnlyInFlight.  A timer is armed by a save of schedule(), for a task that    *)
(* has not run yet (ArmedUnrun), or by a restart, for a task that the file offers as      *)
(* pending, which then has budget left (PendingHasBudget).  While it is armed, only fire() *)
(* counts a run, and then the run is in flight; the last one to settle clears the timer.   *)

ArmedUnrun ==
  \A s \in Slots : \A id \in Ids : write[s].arm = id => task[id].runCount = 0

LEMMA OvershootInductive ==
  TypeOK /\ ArmingInv /\ PendingHasBudget /\ ArmedUnrun /\ OvershootOnlyInFlight /\ [Next]_vars
    => ArmedUnrun' /\ OvershootOnlyInFlight'
<1> SUFFICES ASSUME TypeOK, ArmingInv, PendingHasBudget, ArmedUnrun, OvershootOnlyInFlight,
                    [Next]_vars
             PROVE  ArmedUnrun' /\ OvershootOnlyInFlight'
  OBVIOUS
<1>c. TypeOK'
  BY TypeInductive
<1>t. armed \subseteq Ids /\ armed' \subseteq Ids
  BY <1>c, IdsAssumption DEF TypeOK, Timed
<1> USE IdsAssumption
<1>s. ASSUME NEW arm \in Ids \cup {NoId}, Save(task', arm)
      PROVE  \A s \in Slots : write'[s] = write[s] \/ write'[s].arm = arm
  BY <1>c, <1>s, SaveAdds DEF TypeOK
<1>1. ASSUME NEW id \in Ids, Schedule(id) PROVE ArmedUnrun' /\ OvershootOnlyInFlight'
  <2>1. \A i \in Ids \ {id} : task'[i] = task[i]
    BY <1>1 DEF Schedule, TypeOK, Snapshot
  <2>2. task'[id].runCount = 0
    BY <1>1 DEF Schedule, TypeOK, Snapshot
  <2>3. \A s \in Slots : write'[s] = write[s] \/ write'[s].arm = id
    BY <1>1, <1>s DEF Schedule
  <2>4. ArmedUnrun'
    BY <2>1, <2>2, <2>3 DEF ArmedUnrun
  <2>5. OvershootOnlyInFlight'
    BY <1>1, <1>t, <2>1, <2>2 DEF Schedule, OvershootOnlyInFlight
  <2> QED BY <2>4, <2>5
<1>2. ASSUME NEW id \in Ids, Cancel(id) PROVE ArmedUnrun' /\ OvershootOnlyInFlight'
  <2>1. \A i \in Ids \ {id} : task'[i] = task[i]
    BY <1>2 DEF Cancel, TypeOK, Snapshot
  <2>2. task'[id].runCount = task[id].runCount
    BY <1>2 DEF Cancel, TypeOK, Snapshot, TaskRec
  <2>3. \A s \in Slots : write'[s] = write[s] \/ write'[s].arm = NoId
    BY <1>2, <1>s DEF Cancel
  <2>4. ArmedUnrun'
    BY <2>1, <2>2, <2>3 DEF ArmedUnrun
  <2>5. OvershootOnlyInFlight'
    BY <1>2, <1>t, <2>1 DEF Cancel, OvershootOnlyInFlight
  <2> QED BY <2>4, <2>5
<1>3. ASSUME NEW id \in Ids, Fire(id) PROVE ArmedUnrun' /\ OvershootOnlyInFlight'
  <2>1. \A i \in Ids \ {id} : task'[i] = task[i] /\ flight'[i] = flight[i]
    BY <1>3 DEF Fire, TypeOK, Snapshot
  <2>2. flight'[id] > 0 /\ armed' \subseteq armed
    BY <1>3 DEF Fire, TimerSpent, TypeOK
  <2>3. \A s \in Slots : write[s].arm # id
    BY <1>3 DEF Fire, ArmingInv, ArmOnce
  <2>4. ArmedUnrun'
    BY <1>3, <2>1, <2>3 DEF Fire, ArmedUnrun
  <2>5. OvershootOnlyInFlight'
    BY <1>t, <2>1, <2>2 DEF OvershootOnlyInFlight
  <2> QED BY <2>4, <2>5
<1>4. ASSUME NEW id \in Ids, FireCancelled(id) PROVE ArmedUnrun' /\ OvershootOnlyInFlight'
  BY <1>4 DEF FireCancelled, TimerSpent, ArmedUnrun, OvershootOnlyInFlight
<1>5. ASSUME NEW id \in Ids, NEW ok \in BOOLEAN, FinishRun(id, ok)
      PROVE  ArmedUnrun' /\ OvershootOnlyInFlight'
  <2>1. \A i \in Ids \ {id} : task'[i] = task[i] /\ flight'[i] = flight[i]
    BY <1>5 DEF FinishRun, TypeOK, Snapshot
  <2>2. task'[id].runCount = task[id].runCount
    BY <1>5 DEF FinishRun, TypeOK, Snapshot, TaskRec
  <2>3. armed' \subseteq armed /\ (Reached(id, task[id].runCount) => id \notin armed')
    BY <1>5 DEF FinishRun, ClearedAtBudget
  <2>4. \A s \in Slots : write'[s] = write[s] \/ write'[s].arm = NoId
    BY <1>5, <1>s DEF FinishRun
  <2>5. ArmedUnrun'
    BY <2>1, <2>2, <2>4 DEF ArmedUnrun
  <2>6. OvershootOnlyInFlight'
    BY <1>t, <2>1, <2>2, <2>3 DEF OvershootOnlyInFlight
  <2> QED BY <2>5, <2>6
<1>6. ASSUME NEW s \in Slots, OpenTruncate(s) PROVE ArmedUnrun' /\ OvershootOnlyInFlight'
  <2>1. \A t \in Slots : write'[t].arm = write[t].arm
    BY <1>6 DEF OpenTruncate, TypeOK, WriteRec
  <2> QED BY <1>6, <2>1 DEF OpenTruncate, ArmedUnrun, OvershootOnlyInFlight
<1>7. ASSUME NEW s \in Slots, WriteData(s) PROVE ArmedUnrun' /\ OvershootOnlyInFlight'
  <2>1. \A t \in Slots : write'[t] = write[t] \/ write'[t].arm = NoId
    BY <1>7 DEF WriteData, TypeOK, FreeSlot
  <2>2. \A i \in armed' : i \in armed \/ (write[s].arm = i /\ i \in Ids)
    BY <1>7 DEF WriteData, StartTimer, Timed
  <2> QED BY <1>7, <2>1, <2>2 DEF WriteData, ArmedUnrun, OvershootOnlyInFlight
<1>8. ASSUME NEW s \in Slots, SaveFails(s) PROVE ArmedUnrun' /\ OvershootOnlyInFlight'
  <2>1. \A t \in Slots : write'[t] = write[t] \/ write'[t].arm = NoId
    BY <1>8 DEF SaveFails, TypeOK, FreeSlot
  <2> QED BY <1>8, <2>1 DEF SaveFails, ArmedUnrun, OvershootOnlyInFlight
<1>9. CASE Crash
  BY <1>9 DEF Crash, FreeSlot, ArmedUnrun, OvershootOnlyInFlight
<1>10. CASE Boot
  <2>1. \A s \in Slots : write'[s].arm = NoId
    BY <1>10 DEF Boot, ArmingInv, DownHoldsNothing
  <2>2. \A i \in armed' : disk[i].status = "pending"
    BY <1>10 DEF Boot
  <2>3. \A i \in Ids : Affordable(disk[i], i)
    BY BudgetParts
  <2> QED BY <1>10, <1>t, <2>1, <2>2, <2>3 DEF Boot, Affordable, ArmedUnrun, OvershootOnlyInFlight
<1>11. CASE UNCHANGED <<task, armed, flight, write>>
  BY <1>11 DEF ArmedUnrun, OvershootOnlyInFlight
<1> QED
  BY <1>1, <1>2, <1>3, <1>4, <1>5, <1>6, <1>7, <1>8, <1>9, <1>10, <1>11
  DEF Next, vars, FileEvent, PassFails, PromptWatch

\* Runs of an interval task may exceed maxRuns only while one of them is in flight: when the
\* last one has settled, no timer is left to start another.
THEOREM OvershootBounded == Spec => []OvershootOnlyInFlight
<1>1. Init => ArmedUnrun /\ OvershootOnlyInFlight
  BY DEF Init, NoTasks, NoTask, ArmedUnrun, OvershootOnlyInFlight
<1> QED BY <1>1, TypeCorrect, ArmingCorrect, BudgetKept, OvershootInductive, PTL DEF Spec
=============================================================================
