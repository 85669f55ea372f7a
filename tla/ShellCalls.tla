------------------------------- MODULE ShellCalls -------------------------------
(***************************************************************************)
(* core/src/tools/bash/BashTool.ts: one call of the Bash tool.  The shell    *)
(* is the first process of a group of its own, which the timeout and an      *)
(* abort kill as a whole; the call is settled by the event that says that    *)
(* the shell has ended and that nobody holds its output any more.            *)
(***************************************************************************)
EXTENDS Integers, Sequences, SequencesExt

CONSTANTS
  MaxOutput,      \* MAX_OUTPUT_BYTES, in units
  PieceSizes,     \* sizes of the pieces that output arrives in
  MaxPieces       \* bound: pieces of one call

ASSUME ShellAssumption ==
  MaxOutput \in Nat \ {0} /\ PieceSizes \subseteq Nat \ {0} /\ MaxPieces \in Nat

VARIABLES
  shellCall,      \* "asked", "running", "ok" or "error"
  leader,         \* the shell: "none", "alive", or how it ended: "clean", "failing", "killed"
  helper,         \* a process of its group holds the output
  stray,          \* so does one that has left the group
  shellTimer,     \* the timeout is armed
  listening,      \* the abort listener is registered
  aborted,        \* the session was aborted
  emitted,        \* pieces of output, each its size
  keptOutput,     \* those that the result will show
  bytes, truncated

shellVars == <<shellCall, leader, helper, stray, shellTimer, listening, aborted, emitted, keptOutput,
               bytes, truncated>>
outputVars == <<emitted, keptOutput, bytes, truncated>>
processVars == <<leader, helper, stray>>

ShellInit ==
  /\ shellCall = "asked" /\ leader = "none" /\ helper = FALSE /\ stray = FALSE
  /\ shellTimer = FALSE /\ listening = FALSE
  /\ aborted \in BOOLEAN
  /\ emitted = <<>> /\ keptOutput = <<>> /\ bytes = 0 /\ truncated = FALSE

SettleCall(result) == shellCall' = result /\ shellTimer' = FALSE /\ listening' = FALSE

\* a command that is blocked, a directory outside the project, a sandbox nobody knows
RefuseCommand ==
  /\ shellCall = "asked"
  /\ SettleCall("error")
  /\ UNCHANGED <<processVars, aborted, outputVars>>

\* the listener of a signal that has been aborted before is never called
SpawnShell ==
  /\ shellCall = "asked"
  /\ shellCall' = "running" /\ leader' = "alive"
  /\ shellTimer' = TRUE /\ listening' = TRUE
  /\ UNCHANGED <<helper, stray, aborted, outputVars>>

\* "error": there is no such shell or container runtime
SpawnShellFails ==
  /\ shellCall = "asked"
  /\ SettleCall("error")
  /\ UNCHANGED <<processVars, aborted, outputVars>>

-----------------------------------------------------------------------------
\* The processes, as they please.
StartHelper == leader = "alive" /\ ~helper /\ helper' = TRUE /\ UNCHANGED <<leader, stray>>
HelperEnds == helper /\ helper' = FALSE /\ UNCHANGED <<leader, stray>>
LeaveGroup == helper /\ ~stray /\ helper' = FALSE /\ stray' = TRUE /\ UNCHANGED leader
StrayEnds == stray /\ stray' = FALSE /\ UNCHANGED <<leader, helper>>
ShellExits == leader = "alive" /\ leader' \in {"clean", "failing"} /\ UNCHANGED <<helper, stray>>

ProcessStep ==
  /\ StartHelper \/ HelperEnds \/ LeaveGroup \/ StrayEnds \/ ShellExits
  /\ UNCHANGED <<shellCall, shellTimer, listening, aborted, outputVars>>

HoldsOutput == leader = "alive" \/ helper \/ stray

\* Mutant: the limit is one of each piece.
FitsAlone(size) == ~truncated /\ size <= MaxOutput

Fits(size) == ~truncated /\ bytes + size <= MaxOutput

\* append: the first piece over the limit is counted, and ends the output that is shown
PieceOfOutput(size) ==
  /\ HoldsOutput /\ Len(emitted) < MaxPieces
  /\ emitted' = Append(emitted, size)
  /\ bytes' = IF truncated THEN bytes ELSE bytes + size
  /\ keptOutput' = IF Fits(size) THEN Append(keptOutput, size) ELSE keptOutput
  /\ truncated' = ~Fits(size)
  /\ UNCHANGED <<shellCall, processVars, shellTimer, listening, aborted>>

\* Mutant: only the shell is killed.
KillShell ==
  /\ leader' = IF leader = "alive" THEN "killed" ELSE leader
  /\ UNCHANGED <<helper, stray>>

\* killTree: the whole group, also when the shell itself has ended
KillTree ==
  /\ leader' = IF leader = "alive" THEN "killed" ELSE leader
  /\ helper' = FALSE
  /\ UNCHANGED stray

TimeoutKills ==
  /\ shellTimer
  /\ shellTimer' = FALSE
  /\ KillTree
  /\ UNCHANGED <<shellCall, listening, aborted, outputVars>>

\* once: true
AbortCall ==
  /\ ~aborted
  /\ aborted' = TRUE /\ listening' = FALSE
  /\ IF listening THEN KillTree ELSE UNCHANGED processVars
  /\ UNCHANGED <<shellCall, shellTimer, outputVars>>

\* Mutant: the code of a process that was killed is null, and null counts as 0.
CallFailedByCode == leader = "failing"

CallFailed == leader # "clean"

\* "close": the shell has ended and its output is at its end
OutputCloses ==
  /\ shellCall = "running" /\ ~HoldsOutput
  /\ SettleCall(IF CallFailed THEN "error" ELSE "ok")
  /\ UNCHANGED <<processVars, aborted, outputVars>>

ShellNext ==
  \/ RefuseCommand \/ SpawnShell \/ SpawnShellFails \/ ProcessStep \/ TimeoutKills \/ AbortCall \/ OutputCloses
  \/ \E size \in PieceSizes : PieceOfOutput(size)

ShellProgress == OutputCloses \/ TimeoutKills

-----------------------------------------------------------------------------
SizeOf(s) ==
  LET sum[i \in 0 .. Len(s)] == IF i = 0 THEN 0 ELSE sum[i - 1] + s[i] IN sum[Len(s)]

\* The output that a call returns is the beginning of what was written, without gaps and
\* within the limit, and says when it is cut; a call that succeeds was not killed; one that
\* is settled leaves no timer, no listener and no process of its group; and until then it is
\* within its time, or something outside the group holds it.
ShellSound ==
  /\ IsPrefix(keptOutput, emitted) /\ SizeOf(keptOutput) <= MaxOutput
  /\ truncated <=> keptOutput # emitted
  /\ shellCall = "ok" => leader = "clean"
  /\ shellCall \in {"ok", "error"} => ~shellTimer /\ ~listening /\ ~HoldsOutput
  /\ shellCall = "running" /\ ~shellTimer => leader # "alive" /\ ~helper
=============================================================================
