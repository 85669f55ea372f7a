------------------------- MODULE OrchestratorEngine --------------------------
(***************************************************************************)
(* OrchestratorEngine (packages/orchestrator/src/OrchestratorEngine.ts): a   *)
(* model plans tasks that depend on each other, run() executes them in       *)
(* rounds of all tasks whose dependencies have a result, and a last call     *)
(* combines the results.  The plan is a model's answer, parsed and never     *)
(* validated: ids may repeat, dependencies may be missing or circular.       *)
(***************************************************************************)
EXTENDS Naturals, Sequences, FiniteSets, SequencesExt

CONSTANTS
  TaskIds,      \* ids the planner uses
  Plans         \* answers of the planner: sequences of Tasks

Tasks == [id : TaskIds, dependsOn : SUBSET TaskIds, served : BOOLEAN]
ASSUME PlansAssumption == TaskIds # {} /\ Plans \subseteq Seq(Tasks)

VARIABLES
  stage,        \* where run() is, or how it ended
  plan,         \* plan.tasks
  remaining,    \* positions of the plan still to execute, which stay in the plan's order
  round,        \* positions executed in this round: those that were ready, in that order
  calling,      \* those whose model call has not settled
  results,      \* taskResults: the positions executed by each finished round
  informed      \* history: the ids in the context a position was given last

engineVars == <<stage, plan, remaining, round, calling, results, informed>>

Id(p) == plan[p].id
ran == UNION {results[r] : r \in DOMAIN results}
completed == {Id(p) : p \in ran}
OfId(S, t) == {p \in S : Id(p) = t}
Ended == {"done", "failed", "deadlock"}

EngineInit ==
  /\ stage = "idle"
  /\ plan = <<>> /\ remaining = {} /\ round = {} /\ calling = {}
  /\ results = <<>> /\ informed = <<>>

\* the Orchestrate tool
Orchestrate ==
  /\ stage = "idle"
  /\ stage' = "planning"
  /\ UNCHANGED <<plan, remaining, round, calling, results, informed>>

Planned(p) ==
  /\ stage' = "round"
  /\ plan' = p
  /\ remaining' = DOMAIN p
  /\ informed' = [i \in DOMAIN p |-> {}]
  /\ UNCHANGED <<round, calling, results>>

\* an answer without JSON is replaced by one task for the executor
Fallback == {<<[id |-> CHOOSE t \in TaskIds : TRUE, dependsOn |-> {}, served |-> s]>> : s \in BOOLEAN}

Plan ==
  /\ stage = "planning"
  /\ \E p \in Plans \cup Fallback : Planned(p)

Fail ==
  /\ stage' = "failed"
  /\ UNCHANGED <<plan, remaining, round, results, informed>>

\* the call fails, or the JSON has no list of tasks with dependencies
PlanFails == stage = "planning" /\ Fail /\ UNCHANGED calling

\* Mutant: a dependency counts as satisfied when its task has started.
ReadyEarly ==
  {p \in remaining :
    plan[p].dependsOn \subseteq completed \cup {Id(q) : q \in remaining \ {p}}}

Ready == {p \in remaining : plan[p].dependsOn \subseteq completed}

\* the ready tasks start; a task whose role has no agent gets a failed result at once
StartRound ==
  /\ stage = "round" /\ Ready # {}
  /\ stage' = "running"
  /\ round' = Ready
  /\ calling' = {p \in Ready : plan[p].served}
  /\ informed' = [p \in DOMAIN plan |-> IF p \in Ready THEN completed ELSE informed[p]]
  /\ UNCHANGED <<plan, remaining, results>>

Deadlock ==
  /\ stage = "round" /\ remaining # {} /\ Ready = {}
  /\ stage' = "deadlock"
  /\ UNCHANGED <<plan, remaining, round, calling, results, informed>>

TaskEnds(p) ==
  /\ p \in calling
  /\ calling' = calling \ {p}
  /\ UNCHANGED <<stage, plan, remaining, round, results, informed>>

\* Promise.all rejects at the first failure; the other calls go on unobserved
TaskThrows(p) ==
  /\ stage = "running" /\ p \in calling
  /\ calling' = calling \ {p}
  /\ Fail

\* findIndex and splice, for each result of the round: the first tasks of an id go, as many
\* as the round has results of that id, whichever of them ran
Removed ==
  {p \in remaining :
    Cardinality({q \in OfId(remaining, Id(p)) : q < p}) < Cardinality(OfId(round, Id(p)))}

Collect ==
  /\ stage = "running" /\ calling = {}
  /\ stage' = "round"
  /\ results' = Append(results, round)
  /\ remaining' = remaining \ Removed
  /\ round' = {}
  /\ UNCHANGED <<plan, calling, informed>>

Synthesize ==
  /\ stage = "round" /\ remaining = {}
  /\ \/ stage' = "done" /\ UNCHANGED <<plan, remaining, round, results, informed>>
     \/ Fail
  /\ UNCHANGED calling

EngineProgress ==
  \/ Plan \/ PlanFails \/ StartRound \/ Deadlock \/ Collect \/ Synthesize
  \/ \E p \in DOMAIN plan : TaskEnds(p) \/ TaskThrows(p)

EngineNext == Orchestrate \/ EngineProgress

-----------------------------------------------------------------------------
UniqueIds == \A p, q \in DOMAIN plan : Id(p) = Id(q) => p = q

\* Positions that can never run: a set whose members each wait for a member of the set or
\* for an id nobody has.
Stuck(B) ==
  \A p \in B : \E d \in plan[p].dependsOn : \A q \in DOMAIN plan : Id(q) = d => q \in B
Blocked == UNION {B \in SUBSET DOMAIN plan : Stuck(B)}

ResultsOf(t) == Cardinality({x \in (DOMAIN results) \X (DOMAIN plan) : x[2] \in OfId(results[x[1]], t)})
TasksOf(t) == Cardinality(OfId(DOMAIN plan, t))

\* run() gives up exactly on the tasks that wait for a cycle or for a task nobody planned,
\* after all others.  A task that is dropped without having run has given its place to a
\* later task of its id that ran, so that every id gets as many results as it has tasks,
\* although with ids that repeat one of them may run twice and another never.  A task was
\* told a result of each of its dependencies.
OrchestrationSound ==
  /\ UniqueIds /\ stage = "deadlock" => remaining = Blocked /\ Blocked # {}
  /\ UniqueIds /\ stage = "done" => Blocked = {}
  /\ \A t \in TaskIds : ResultsOf(t) <= TasksOf(t) /\ (stage = "done" => ResultsOf(t) = TasksOf(t))
  /\ \A p \in DOMAIN plan \ (remaining \cup ran) : \E q \in OfId(ran, Id(p)) : q > p
  /\ \A p \in ran : plan[p].dependsOn \subseteq informed[p]

-----------------------------------------------------------------------------
(***************************************************************************)
(* CouncilDebate (packages/orchestrator/src/council): members speak in turn, *)
(* each in one turn of the query loop, for a number of rounds; a moderator   *)
(* reads the whole debate.  A member that fails stays in the debate.         *)
(***************************************************************************)

CONSTANTS
  Members,      \* a sequence
  MaxRounds,    \* bound: opts.rounds
  SpeechTokens     \* bound: tokens of one answer

ASSUME CouncilAssumption ==
  /\ Members \in Seq(ToSet(Members)) /\ Members # <<>>
  /\ MaxRounds \in Nat /\ SpeechTokens \in Nat

VARIABLES
  sitting,      \* "closed", "debate", "verdict", "over"
  rounds,       \* rounds asked for
  said,         \* allRounds: the finished rounds
  turn,         \* roundResults of the running round
  prior,        \* priorArguments, as the speeches it quotes
  spent         \* totalInputTokens + totalOutputTokens

councilVars == <<sitting, rounds, said, turn, prior, spent>>

\* argument: an answer, a message that the member failed, or empty when the loop ended
\* without "complete"; heard is what the prompt quoted
Speech(member, argument, tokens, heard) ==
  [member |-> member, argument |-> argument, tokens |-> tokens, heard |-> heard]

CouncilInit ==
  /\ sitting = "closed" /\ rounds = 0
  /\ said = <<>> /\ turn = <<>> /\ prior = {} /\ spent = 0

Debate(n) ==
  /\ sitting = "closed"
  /\ rounds' = n
  /\ sitting' = IF n = 0 THEN "verdict" ELSE "debate"
  /\ UNCHANGED <<said, turn, prior, spent>>

\* Mutant: the running round is quoted instead of all finished ones.
QuotedLast(finished) ==
  {<<Len(finished), finished[Len(finished)][i].member>> : i \in DOMAIN finished[Len(finished)]}

\* who has spoken in which round
Quoted(finished) ==
  UNION {{<<r, finished[r][i].member>> : i \in DOMAIN finished[r]} : r \in DOMAIN finished}

Heard == IF said = <<>> THEN {} ELSE prior

\* the speech ends the round when it is the last member's
Speak(argument, tokens) ==
  LET speech == Speech(Members[Len(turn) + 1], argument, tokens, Heard)
      spoken == Append(turn, speech)
  IN /\ sitting = "debate"
     /\ spent' = spent + tokens
     /\ IF Len(spoken) < Len(Members)
        THEN turn' = spoken /\ UNCHANGED <<sitting, said, prior>>
        ELSE /\ turn' = <<>>
             /\ said' = Append(said, spoken)
             /\ prior' = Quoted(Append(said, spoken))
             /\ sitting' = IF Len(said) + 1 = rounds THEN "verdict" ELSE "debate"
     /\ UNCHANGED rounds

Answers == \E n \in 0 .. SpeechTokens : Speak("answer", n)
Silent == Speak("", 0)
CannotRespond == Speak("failure", 0)

\* synthesizeVerdict: its failure is a verdict too
Verdict(tokens) ==
  /\ sitting = "verdict"
  /\ sitting' = "over"
  /\ spent' = spent + tokens
  /\ UNCHANGED <<rounds, said, turn, prior>>

CouncilProgress == Answers \/ Silent \/ CannotRespond \/ \E n \in 0 .. SpeechTokens : Verdict(n)
CouncilNext == (\E n \in 0 .. MaxRounds : Debate(n)) \/ CouncilProgress

-----------------------------------------------------------------------------
Speeches == FlattenSeq(said) \o turn

\* Nobody answers unheard or is heard early: a speech of round r has heard what all members
\* said in all rounds before, and nothing of its own round, whoever failed; the verdict is
\* about all rounds.
EverybodyHeard ==
  /\ \A r \in DOMAIN said : \A i \in DOMAIN said[r] :
       said[r][i].heard = (1 .. (r - 1)) \X ToSet(Members)
  /\ \A i \in DOMAIN turn : turn[i].heard = (1 .. Len(said)) \X ToSet(Members)
  /\ sitting \in {"verdict", "over"} => prior = (1 .. rounds) \X ToSet(Members)
==============================================================================
