------------------------------ MODULE MCCommands ------------------------------
(* The session of the command line, and the commands and tools that it offers: those that    *)
(* drive a model through a procedure of their own, and fetching.  They share no state here:   *)
(* a behaviour runs one of them, chosen at the start.                                         *)
EXTENDS OrchestratorEngine, TextAgents, Simulation, Evaluation, CliSession, GuardedFetch,
        ShellCalls

VARIABLE command

commandVars == <<command, engineVars, councilVars, reactVars, researchVars, simVars, evalVars,
                 cliVars, fetchVars, shellVars>>

\* The commands that are not run wait in one of their initial states.
Idling ==
  /\ command # "eval" => suite = CHOOSE s \in Suites : TRUE
  /\ command # "session" => flags = [oneshot |-> FALSE, approval |-> "deny", resume |-> "no",
                                     wants |-> {"kairos", "tasks", "hermes"}]
  /\ command # "fetch" => /\ policy = [enabled |-> TRUE, block |-> TRUE, allow |-> {}]
                          /\ fetch = "new" /\ target = "a" /\ allowedHops = 0
  /\ command # "shell" => aborted = FALSE

Init ==
  /\ command \in {"orchestrate", "council", "react", "research", "simulate", "eval", "session", "fetch",
                 "shell"}
  /\ Idling
  /\ EngineInit /\ CouncilInit /\ ReActInit /\ ResearchInit /\ SimInit /\ EvalInit /\ CliInit /\ FetchInit
  /\ ShellInit

Is(c) ==
  /\ command = c /\ command' = c
  /\ c # "orchestrate" => UNCHANGED engineVars
  /\ c # "council" => UNCHANGED councilVars
  /\ c # "react" => UNCHANGED reactVars
  /\ c # "research" => UNCHANGED researchVars
  /\ c # "simulate" => UNCHANGED simVars
  /\ c # "eval" => UNCHANGED evalVars
  /\ c # "session" => UNCHANGED cliVars
  /\ c # "fetch" => UNCHANGED fetchVars
  /\ c # "shell" => UNCHANGED shellVars

Next ==
  \/ Is("orchestrate") /\ EngineNext
  \/ Is("council") /\ CouncilNext
  \/ Is("react") /\ ReActNext
  \/ Is("research") /\ ResearchNext
  \/ Is("simulate") /\ SimNext
  \/ Is("eval") /\ EvalNext
  \/ Is("session") /\ CliNext
  \/ Is("fetch") /\ FetchNext
  \/ Is("shell") /\ ShellNext

Spec == Init /\ [][Next]_commandVars

Progress ==
  \/ Is("orchestrate") /\ EngineProgress
  \/ Is("council") /\ CouncilProgress
  \/ Is("react") /\ ReActProgress
  \/ Is("research") /\ ResearchProgress
  \/ Is("simulate") /\ SimProgress
  \/ Is("eval") /\ EvalProgress
  \/ Is("session") /\ CliProgress
  \/ Is("fetch") /\ FetchProgress
  \/ Is("shell") /\ ShellProgress

\* Calls of models and tools settle, timers fire, and the runtime gets to every continuation;
\* prompts are typed, and servers answer, as they please.  A behaviour runs one command, so this
\* is fairness to the progress of each.
FairSpec == Spec /\ WF_commandVars(Progress)

\* Work that was handed out is accounted for: every task of a plan has run, waits for what cannot
\* come, or has lost its place to one of its id that counts for it, and every case of a suite
\* has a verdict, in its order, which a case without an output earns only by what nothing meets.
WorkAccounted == OrchestrationSound /\ EvalSound

\* The members of a council have heard the rounds before their own and nothing of it; a turn of
\* the REPL has its own prompt last in what it hears, its answer follows the prompt, and the
\* transcript tells all of the conversation.
SpeakersHeard == EverybodyHeard /\ (command = "session" => CliSound)

\* No step is taken before its time: a tool's before it is permitted, a question's before
\* those that it depends on are answered, a connection before its address is checked; and
\* what a shell call returns is how its command began, and ended.
StepsInOrder ==
  /\ ReActGated /\ ResearchSound
  /\ command = "fetch" => FetchSound
  /\ command = "shell" => ShellSound

Begun ==
  \/ stage # "idle" \/ sitting # "closed" \/ reacting # "idle" \/ inquiry # "idle" \/ sim # "idle"
  \/ evaluating # "idle" \/ OneShot \/ fetch \notin {"new", "comparing"} \/ shellCall = "running"

Over ==
  /\ stage # "idle" => stage \in Ended /\ calling = {}
  /\ sitting # "closed" => sitting = "over"
  /\ reacting # "idle" => reacting \in {"answered", "exhausted", "thrown"}
  /\ inquiry # "idle" => inquiry \in {"reported", "failed"}
  /\ sim # "idle" => sim \in {"done", "failed"}
  /\ evaluating # "idle" => evaluating \in {"done", "rejected"} /\ loops = {}
  /\ OneShot => cli = "exited"
  /\ fetch \notin {"new", "comparing"} => fetch \in {"returned", "failed"}
  /\ shellCall = "running" => stray

\* The command that was given comes to its end: plans with cycles, members and agents that
\* fail, dependencies on later steps, cases that time out, servers that send nothing and shell
\* commands that run on do not hold it up, only a process that left a shell's group does; and
\* a single prompt lets go of its services.
CommandsEnd == Begun ~> Over

CONSTANTS t1, t2, lost

SomePlans ==
  LET Dep == SUBSET {t1, t2} \cup {{lost}}
      Two == [id : {t1, t2}, dependsOn : Dep, served : {TRUE}]
      One == [id : {t1}, dependsOn : {{}, {t2}}, served : BOOLEAN]
  IN {<<a, b>> : a \in Two, b \in Two} \cup
     {<<a, b, c>> : a \in [id : {t1}, dependsOn : {{}, {t2}}, served : BOOLEAN],
                    b \in [id : {t1, t2}, dependsOn : {{}, {t1}, {lost}}, served : {TRUE}],
                    c \in [id : {t2, lost}, dependsOn : {{}, {t1}, {t1, t2}}, served : {TRUE}]} \cup
     {<<a>> : a \in One} \cup {<<>>}

SomeCasts ==
  LET P(lurks, strong, b) == [lurker |-> lurks, influential |-> strong, belief |-> b]
  IN {<<>>, <<P(FALSE, TRUE, 90), P(FALSE, FALSE, -20)>>,
      <<P(FALSE, TRUE, NaN), P(TRUE, FALSE, 0), P(FALSE, FALSE, 100)>>}

SomeDeltas == {-40, 20, NaN}

SomeSuites ==
  LET C(files, assertions) == [files |-> files, assertions |-> assertions, wellFormed |-> FALSE]
  IN {<<C("inside", {"tool_called"}), C("inside", {"tool_not_called"}),
        C("inside", {"no_error", "turns_lte", "judge"})>>,
      <<C("inside", {"not_contains", "cost_lte", "no_value"})>>,
      <<C("escaping", {}), C("inside", {"contains"})>>,
      <<C("inside", {"regex"})>>}
\* the loops' outcomes: as asked, after an error without text, at length and at a price
SomeOutcomes ==
  LET Out(broke, text, n) == [error |-> FALSE, broke |-> broke, text |-> text, toolsCalled |-> {},
                              turns |-> n, cost |-> n, judged |-> FALSE]
  IN {Out(FALSE, "value", 1), Out(TRUE, "", 1), Out(FALSE, "", 2)}

SomePrivateIps == {<<10, 0, 0, 1>>, <<0, 0, 0, 0, 0, 65535, 2560, 1>>}
SomePublicIps == {<<8, 8, 8, 8>>}

Council3 == <<"ada", "bob", "cyd">>
=============================================================================
