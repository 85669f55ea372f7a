------------------------------ MODULE Evaluation ------------------------------
(***************************************************************************)
(* EvalRunner of packages/eval: the cases of a suite run in batches, each in *)
(* a workspace of its own, against a timeout that does not stop the query    *)
(* loop; the assertions are checked on what was recorded of the loop.        *)
(***************************************************************************)
EXTENDS Naturals, Sequences, FiniteSets, SequencesExt

CONSTANTS
  Suites,         \* sequences of EvalCases
  MaxConcurrency, \* suite.maxConcurrency, which nothing keeps from being 0
  Outcomes,       \* what a loop that completes leaves: a set of Outputs without an error
  Limit           \* the value of "turns_lte" and "cost_lte"

\* "contains" stands for all demands on the text, "no_value" for such a demand without a
\* value, which every text meets, and "judge" for a model or a function that decides.
AssertionTypes == {"tool_called", "tool_not_called", "no_error", "contains", "regex",
                   "not_contains", "no_value", "turns_lte", "cost_lte", "judge"}
EvalCases == [files : {"inside", "escaping"}, assertions : SUBSET AssertionTypes, wellFormed : BOOLEAN]
Outputs == [error : BOOLEAN, broke : BOOLEAN, text : {"", "value"}, toolsCalled : SUBSET {""},
            turns : Nat, cost : Nat, judged : BOOLEAN]
ASSUME EvalAssumption ==
  /\ Suites \subseteq Seq(EvalCases) /\ MaxConcurrency \in Nat /\ Limit \in Nat
  /\ Outcomes \subseteq {out \in Outputs : ~out.error}

VARIABLES
  suite,        \* suite.cases
  evaluating,   \* "idle", "batch", "done" or "rejected"
  phase,        \* phase[c]: "new", "prepare", "run", "judge", "result" or "rejected"
  workspaces,   \* cases whose temporary directory exists
  loops,        \* cases whose query loop is still running
  acted,        \* history: cases whose loop has called a tool
  output,       \* output[c]: what the assertions see
  verdicts      \* results: pairs of a case and passed

evalVars == <<suite, evaluating, phase, workspaces, loops, acted, output, verdicts>>
cases == DOMAIN suite

NoOutput == [error |-> FALSE, broke |-> FALSE, text |-> "", toolsCalled |-> {}, turns |-> 0,
             cost |-> 0, judged |-> FALSE]

EvalInit ==
  /\ suite \in Suites
  /\ evaluating = "idle"
  /\ phase = [c \in cases |-> "new"]
  /\ workspaces = {} /\ loops = {} /\ acted = {}
  /\ output = [c \in cases |-> NoOutput]
  /\ verdicts = <<>>

Batch(from) == {c \in cases : c >= from /\ c < from + MaxConcurrency}

\* The next batch starts when there is none; every case makes its directory first.  A batch
\* of no cases starts again and again.
StartBatch ==
  LET batch == Batch(Len(verdicts) + 1)
  IN /\ evaluating \in {"idle", "batch"}
     /\ \A c \in cases : phase[c] # "new" => c <= Len(verdicts)
     /\ evaluating' = IF Len(verdicts) = Len(suite) THEN "done" ELSE "batch"
     /\ phase' = [c \in cases |-> IF c \in batch THEN "prepare" ELSE phase[c]]
     /\ workspaces' = workspaces \cup batch
     /\ UNCHANGED <<suite, loops, acted, output, verdicts>>

\* a context file outside the directory rejects the case before the block that cleans up
Prepare(c) ==
  /\ phase[c] = "prepare"
  /\ IF suite[c].files = "inside"
     THEN phase' = [phase EXCEPT ![c] = "run"] /\ loops' = loops \cup {c}
     ELSE phase' = [phase EXCEPT ![c] = "rejected"] /\ UNCHANGED loops
  /\ UNCHANGED <<suite, evaluating, workspaces, acted, output, verdicts>>

\* the event's name is in "name", the runner reads "toolName"
Recorded(c) == {""}

\* A tool call of the loop; a write makes the directories it needs, also those of a
\* workspace that was removed.
LoopActs(c) ==
  /\ c \in loops /\ c \notin acted
  /\ acted' = acted \cup {c}
  /\ workspaces' \in {workspaces, workspaces \cup {c}}
  /\ output' = IF phase[c] = "run"
               THEN [output EXCEPT ![c].toolsCalled = @ \cup Recorded(c)] ELSE output
  /\ UNCHANGED <<suite, evaluating, phase, loops, verdicts>>

\* the outcome of the race, then the removal of the directory
Settle(c, out) ==
  /\ phase[c] = "run"
  /\ phase' = [phase EXCEPT ![c] = "judge"]
  /\ output' = [output EXCEPT ![c] = out]
  /\ workspaces' = workspaces \ {c}
  /\ UNCHANGED <<suite, evaluating, acted, verdicts>>

Failure == [NoOutput EXCEPT !.error = TRUE]

\* the loop comes to its "complete", also after an event "error" of a call that failed
LoopCompletes(c) ==
  /\ c \in loops
  /\ loops' = loops \ {c}
  /\ \E out \in Outcomes : Settle(c, [out EXCEPT !.toolsCalled = output[c].toolsCalled])

LoopFails(c) == c \in loops /\ loops' = loops \ {c} /\ Settle(c, Failure)
CaseTimesOut(c) == loops' = loops /\ Settle(c, Failure)

\* the loop nobody waits for any more comes to its end
LoopEndsLate(c) ==
  /\ c \in loops /\ phase[c] # "run"
  /\ loops' = loops \ {c}
  /\ UNCHANGED <<suite, evaluating, phase, workspaces, acted, output, verdicts>>

Holds(type, out) ==
  CASE type = "tool_called" -> "tool" \in out.toolsCalled
    [] type = "tool_not_called" -> "tool" \notin out.toolsCalled
    [] type = "no_error" -> ~out.error /\ ~out.broke
    [] type = "not_contains" -> out.text # "value"
    [] type = "no_value" -> TRUE
    [] type = "turns_lte" -> out.turns <= Limit
    [] type = "cost_lte" -> out.cost <= Limit
    [] type = "judge" -> out.judged
    [] OTHER -> out.text = "value"

Passed(c) == \A type \in suite[c].assertions : Holds(type, output[c])

\* checkAssertions: the judge decides, and a malformed regular expression rejects the case
Judge(c) ==
  /\ phase[c] = "judge"
  /\ phase' = [phase EXCEPT ![c] =
       IF "regex" \in suite[c].assertions /\ ~suite[c].wellFormed THEN "rejected" ELSE "result"]
  /\ \E passes \in BOOLEAN : output' = [output EXCEPT ![c].judged = passes]
  /\ UNCHANGED <<suite, evaluating, workspaces, loops, acted, verdicts>>

runningCases == Batch(Len(verdicts) + 1)

CollectBatch ==
  /\ evaluating = "batch" /\ runningCases # {}
  /\ \A c \in runningCases : phase[c] = "result"
  /\ verdicts' = verdicts \o [i \in 1 .. Cardinality(runningCases) |->
       <<Len(verdicts) + i, Passed(Len(verdicts) + i)>>]
  /\ UNCHANGED <<suite, evaluating, phase, workspaces, loops, acted, output>>

\* Promise.all rejects while the other cases of the batch go on
RejectSuite ==
  /\ evaluating = "batch"
  /\ \E c \in runningCases : phase[c] = "rejected"
  /\ evaluating' = "rejected"
  /\ UNCHANGED <<suite, phase, workspaces, loops, acted, output, verdicts>>

EvalProgress ==
  \/ CollectBatch \/ RejectSuite
  \/ evaluating # "idle" /\ StartBatch
  \/ \E c \in cases : \/ Prepare(c) \/ LoopCompletes(c) \/ LoopFails(c) \/ CaseTimesOut(c)
                      \/ LoopEndsLate(c) \/ Judge(c)

EvalNext == StartBatch \/ EvalProgress \/ \E c \in cases : LoopActs(c)

-----------------------------------------------------------------------------
\* The assertions that an output of nothing at all may satisfy.
MetByNothing == {"tool_not_called", "not_contains", "no_value", "turns_lte", "cost_lte", "judge"}

\* Results come once per case in the order of the suite.  A case that failed or timed out
\* passes only by assertions that an output of nothing may satisfy, whatever its loop has
\* said or does later.  Only loops that timed out exceed the limit, and a loop has its
\* directory until its case is over.
EvalSound ==
  /\ \A i \in DOMAIN verdicts : verdicts[i][1] = i
  /\ evaluating = "done" => Len(verdicts) = Len(suite)
  /\ \A i \in DOMAIN verdicts :
       verdicts[i][2] /\ output[i].error =>
         suite[i].assertions \subseteq MetByNothing
  /\ \A i \in DOMAIN verdicts : verdicts[i][2] /\ output[i].broke => "no_error" \notin suite[i].assertions
  /\ Cardinality({c \in loops : phase[c] = "run"}) <= MaxConcurrency
  /\ \A c \in cases : phase[c] = "run" => c \in workspaces
  /\ evaluating = "done" => workspaces \subseteq acted
=============================================================================
