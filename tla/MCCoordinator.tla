---------------------------- MODULE MCCoordinator ----------------------------
(* Two concurrent runs share two workers: the wide one keeps two subtasks in flight, *)
(* the narrow one a single one, so they compete for a worker.                       *)
EXTENDS Coordinator

CONSTANTS wide, narrow

Limits == [r \in Runs |-> IF r = wide THEN 2 ELSE 1]
=============================================================================
