--------------------------- MODULE BoundedBatches ---------------------------
(***************************************************************************)
(* What Coordinator.run promises its caller, without workers, chunks or     *)
(* queues: every subtask of a run is executed exactly once, never more than *)
(* the run's parallel limit at a time and never more in all than there are  *)
(* workers, and the run returns only when all of its subtasks have ended.   *)
(***************************************************************************)
EXTENDS Integers, FiniteSets

CONSTANTS Runs, MaxSubtasks, Limit, Capacity

VARIABLES todo, active, ended, returned

vars == <<todo, active, ended, returned>>

Subtasks(r, n) == {r} \X (1 .. n)

Init ==
  /\ todo = [r \in Runs |-> {}]
  /\ active = [r \in Runs |-> {}]
  /\ ended = [r \in Runs |-> {}]
  /\ returned = {}

Idle(r) == todo[r] = {} /\ active[r] = {} /\ ended[r] = {}
Fits(r, B) ==
  /\ Cardinality(active[r] \cup B) <= Limit[r]
  /\ Cardinality((UNION {active[q] : q \in Runs}) \cup B) <= Capacity

\* The subtasks of a run become known, and some of them start.
Submit(r) ==
  /\ Idle(r) /\ r \notin returned
  /\ \E n \in 1 .. MaxSubtasks : \E B \in SUBSET Subtasks(r, n) :
       /\ Fits(r, B)
       /\ todo' = [todo EXCEPT ![r] = Subtasks(r, n) \ B]
       /\ active' = [active EXCEPT ![r] = B]
  /\ UNCHANGED <<ended, returned>>

Begin(r) ==
  /\ \E B \in SUBSET todo[r] :
       /\ Fits(r, B)
       /\ todo' = [todo EXCEPT ![r] = @ \ B]
       /\ active' = [active EXCEPT ![r] = @ \cup B]
  /\ UNCHANGED <<ended, returned>>

End(r) ==
  /\ \E t \in active[r] :
       /\ active' = [active EXCEPT ![r] = @ \ {t}]
       /\ ended' = [ended EXCEPT ![r] = @ \cup {t}]
  /\ UNCHANGED <<todo, returned>>

Return(r) ==
  /\ todo[r] = {} /\ active[r] = {} /\ ended[r] # {}
  /\ r \notin returned
  /\ returned' = returned \cup {r}
  /\ UNCHANGED <<todo, active, ended>>

Next == \E r \in Runs : Submit(r) \/ Begin(r) \/ End(r) \/ Return(r)

Spec == Init /\ [][Next]_vars
=============================================================================
