----------------------------- MODULE TextAgents ------------------------------
(***************************************************************************)
(* Two text-only agents: ReActLoop (packages/react-agent/src) and            *)
(* ReActPlanner (packages/core/src/planning).  A model writes a thought and  *)
(* an action as free text; the loop parses it, runs the tool through         *)
(* executeTool with an approver that always refuses, and shows the           *)
(* observation to the model in the next prompt.                              *)
(***************************************************************************)
EXTENDS Naturals, Sequences, SequencesExt, FiniteSets

CONSTANTS
  OpenTools,    \* tools the permission level lets through without a question
  AskingTools,  \* tools that need an approval
  MaxSteps      \* maxSteps of ReActLoop, maxCycles of ReActPlanner

ASSUME ReActAssumption == MaxSteps \in Nat \ {0} /\ OpenTools \cap AskingTools = {}

VARIABLES
  agent,        \* "none", "loop" or "planner"
  reacting,     \* "idle", "call", "act", "answered", "exhausted", "thrown"
  steps,        \* steps: what the model wrote and what was observed
  scratchpad,   \* observations in the next prompt
  executed      \* history: tools that were executed

reactVars == <<agent, reacting, steps, scratchpad, executed>>

NoTool == "no tool"
Unknown == "unknown tool"
Actions == OpenTools \cup AskingTools \cup {NoTool, Unknown}
Step(action, final) == [action |-> action, final |-> final, observation |-> "none"]

ReActInit ==
  /\ agent = "none" /\ reacting = "idle"
  /\ steps = <<>> /\ scratchpad = <<>> /\ executed = {}

React(a) ==
  /\ reacting = "idle"
  /\ agent' = a
  /\ reacting' = "call"
  /\ UNCHANGED <<steps, scratchpad, executed>>

\* without an action the loop gives up one step early; the planner looks for a tool that
\* has no name and observes that there is none
NoAction(stepNum) == IF stepNum >= MaxSteps - 1 THEN "exhausted" ELSE "call"

\* parseStep: a final answer anywhere in the text wins over an action
Parsed(action, final) ==
  /\ reacting = "call"
  /\ steps' = Append(steps, Step(action, final))
  /\ reacting' =
       IF final THEN "answered"
       ELSE IF action = NoTool /\ agent = "loop" THEN NoAction(Len(steps) + 1)
       ELSE "act"
  /\ UNCHANGED <<agent, scratchpad, executed>>

\* the planner's action is the tool or FINAL_ANSWER, never both
Answer ==
  \E action \in Actions, final \in BOOLEAN :
    (agent = "planner" /\ final => action = NoTool) /\ Parsed(action, final)

\* ReActLoop has no handler around the call, ReActPlanner keeps what it has
CallFails ==
  /\ reacting = "call"
  /\ reacting' = IF agent = "loop" THEN "thrown" ELSE "exhausted"
  /\ UNCHANGED <<agent, steps, scratchpad, executed>>

\* Mutant: the approver agrees to everything.
PermittedAll == OpenTools \cup AskingTools

\* requestApproval: async () => false
Permitted == OpenTools

\* a result, an error of the tool, a refusal or a missing tool: all are observations
Observations(tool) ==
  IF tool \in Permitted THEN {"result", "tool error"}
  ELSE IF tool \in AskingTools THEN {"refused"} ELSE {"not found"}

Observe ==
  LET tool == Last(steps).action
  IN /\ reacting = "act"
     /\ \E o \in Observations(tool) :
          /\ steps' = [steps EXCEPT ![Len(steps)].observation = o]
          /\ scratchpad' = Append(scratchpad, o)
     /\ executed' = executed \cup ({tool} \cap Permitted)
     /\ reacting' = IF Len(steps) < MaxSteps THEN "call" ELSE "exhausted"
     /\ UNCHANGED agent

ReActProgress == Answer \/ CallFails \/ Observe
ReActNext == (\E a \in {"loop", "planner"} : React(a)) \/ ReActProgress

-----------------------------------------------------------------------------
\* The prompt holds what was observed in each step that took an action, in their order.
ShownInOrder ==
  \E at \in [DOMAIN scratchpad -> DOMAIN steps] :
    /\ \A j, k \in DOMAIN scratchpad : j < k => at[j] < at[k]
    /\ {at[k] : k \in DOMAIN scratchpad} = {i \in DOMAIN steps : steps[i].observation # "none"}
    /\ \A k \in DOMAIN scratchpad : scratchpad[k] = steps[at[k]].observation

\* Free text reaches no tool that needs an approval; the model is shown the observation of
\* each action it took, in order, and a run has an answer exactly when a step is final,
\* which is then the last of at most MaxSteps.
ReActGated ==
  /\ executed \cap AskingTools = {}
  /\ reacting \in {"call", "exhausted"} => ShownInOrder
  /\ Len(steps) <= MaxSteps
  /\ \A i \in DOMAIN steps : steps[i].final <=> (reacting = "answered" /\ i = Len(steps))

-----------------------------------------------------------------------------
(***************************************************************************)
(* packages/research/src (planner, executor and reporter): a model's text is *)
(* parsed into steps that depend on each other, all steps are started at     *)
(* once and poll until their dependencies are complete, and a report is      *)
(* written from the completed ones.                                          *)
(***************************************************************************)

CONSTANTS
  MaxBlocks,     \* bound: blocks of the plan's text
  StepTokens     \* bound: tokens of a step

ASSUME ResearchAssumption == {MaxBlocks, StepTokens} \subseteq Nat

VARIABLES
  inquiry,      \* "idle", "planning", "executing", "reporting", "reported", "failed"
  needs,        \* needs[s]: dependsOn of step s, as steps
  standing,     \* standing[s]: "waiting", "asking", "completed"
  outcome,      \* outcome[s]: step.result
  known,        \* known[s]: the results in the prompt of step s
  tokens,       \* totalInputTokens + totalOutputTokens
  spentOn       \* step.tokens

researchVars == <<inquiry, needs, standing, outcome, known, tokens, spentOn>>
planned == DOMAIN needs

ResearchInit ==
  /\ inquiry = "idle"
  /\ needs = <<>> /\ standing = <<>> /\ outcome = <<>> /\ known = <<>>
  /\ tokens = 0 /\ spentOn = <<>>

Research ==
  /\ inquiry = "idle"
  /\ inquiry' = "planning"
  /\ UNCHANGED <<needs, standing, outcome, known, tokens, spentOn>>

\* a block of the text: whether it parses, and the numbers after DEPENDS_ON, which count
\* blocks
Blocks == [parses : BOOLEAN, numbers : SUBSET (1 .. MaxBlocks)]

\* Mutant: a step may depend on itself.
KnownUpTo(numbers, sofar) == {n \in numbers : n <= sofar + 1}

\* steps[num]: the numbers are taken for places among the steps parsed so far
KnownSteps(numbers, sofar) == {n \in numbers : n <= sofar}

\* parseSteps: blocks that do not parse are skipped; no step at all is one step of its own
Nth(S, i) == CHOOSE k \in S : Cardinality({j \in S : j <= k}) = i
Parse(blocks) ==
  LET usable == {k \in DOMAIN blocks : blocks[k].parses}
  IN IF usable = {} THEN <<{}>>
     ELSE [i \in 1 .. Cardinality(usable) |-> KnownSteps(blocks[Nth(usable, i)].numbers, i - 1)]

AdoptSteps(parsed) ==
  /\ inquiry = "planning"
  /\ inquiry' = "executing"
  /\ needs' = parsed
  /\ standing' = [s \in DOMAIN parsed |-> "waiting"]
  /\ outcome' = [s \in DOMAIN parsed |-> ""]
  /\ known' = [s \in DOMAIN parsed |-> {}]
  /\ spentOn' = [s \in DOMAIN parsed |-> 0]
  /\ UNCHANGED tokens

ParsedPlans == UNION {{Parse(blocks) : blocks \in [1 .. n -> Blocks]} : n \in 0 .. MaxBlocks}

PlanResearch == \E parsed \in ParsedPlans : AdoptSteps(parsed)

\* the model call failed: fallbackPlan
PlanFallback == AdoptSteps(<<{}>>)

\* Mutant: one complete dependency is enough.
SomeComplete(s) == needs[s] = {} \/ \E d \in needs[s] : standing[d] = "completed"

DependenciesComplete(s) == \A d \in needs[s] : standing[d] = "completed"

\* the poll finds all dependencies complete; empty results are left out of the prompt
Ask(s) ==
  /\ inquiry = "executing" /\ standing[s] = "waiting"
  /\ DependenciesComplete(s)
  /\ standing' = [standing EXCEPT ![s] = "asking"]
  /\ known' = [known EXCEPT ![s] = {d \in needs[s] : outcome[d] # ""}]
  /\ UNCHANGED <<inquiry, needs, outcome, tokens, spentOn>>

Complete(s, result, used) ==
  /\ standing[s] = "asking"
  /\ standing' = [standing EXCEPT ![s] = "completed"]
  /\ outcome' = [outcome EXCEPT ![s] = result]
  /\ spentOn' = [spentOn EXCEPT ![s] = used]
  /\ tokens' = tokens + used
  /\ UNCHANGED <<inquiry, needs, known>>

\* the loop completes, ends without "complete", or throws: a failed step is complete too
StepEnds(s) ==
  \/ \E used \in 0 .. StepTokens : Complete(s, "text", used)
  \/ Complete(s, "", 0)
  \/ Complete(s, "Step failed", 0)

Finish ==
  /\ inquiry = "executing"
  /\ \A s \in planned : standing[s] = "completed"
  /\ inquiry' = "reporting"
  /\ UNCHANGED <<needs, standing, outcome, known, tokens, spentOn>>

\* generateReport: a failing model is replaced by the list of findings, a failing wiki is not
Report ==
  /\ inquiry = "reporting"
  /\ inquiry' \in {"reported", "failed"}
  /\ UNCHANGED <<needs, standing, outcome, known, tokens, spentOn>>

ResearchProgress ==
  \/ PlanResearch \/ PlanFallback \/ Finish \/ Report
  \/ \E s \in planned : Ask(s) \/ StepEnds(s)

ResearchNext == Research \/ ResearchProgress

-----------------------------------------------------------------------------
TokensOf(s) ==
  LET sum[i \in 0 .. Len(s)] == IF i = 0 THEN 0 ELSE sum[i - 1] + s[i] IN sum[Len(s)]

\* A step is asked only with the results of everything it needs, except empty ones, and
\* the session's tokens are those of its steps.
ResearchSound ==
  /\ \A s \in planned : standing[s] # "waiting" =>
       /\ \A d \in needs[s] : standing[d] = "completed"
       /\ known[s] = {d \in needs[s] : outcome[d] # ""}
  /\ inquiry \in {"reporting", "reported"} =>
       /\ \A s \in planned : standing[s] = "completed"
       /\ tokens = TokensOf(spentOn)
==============================================================================
