----------------------------- MODULE MCAgentLoop -----------------------------
(* A session at level STANDARD with a tool it may use freely, one it must ask for  *)
(* and one above its level, and with one turn beside the one that is followed.      *)
EXTENDS AgentLoop

CONSTANTS read, write, admin, beside1

Levels == [t \in Tools |-> CASE t = read -> 0 [] t = write -> 2 [] OTHER -> 4]
=============================================================================
