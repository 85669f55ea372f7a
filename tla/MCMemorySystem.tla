---------------------------- MODULE MCMemorySystem ----------------------------
(* One session consolidates; a background job, and in a larger instance a third     *)
(* process, save and delete in the same memory directory.                           *)
EXTENDS MemorySystem

CONSTANTS cli, daemon, other, fact, plan

Saved == {<<plan, 2>>, <<fact, 0>>}
=============================================================================
