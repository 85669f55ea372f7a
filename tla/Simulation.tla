------------------------------ MODULE Simulation ------------------------------
(***************************************************************************)
(* The two simulations of packages/mirofish: in SimulationEngine agents act  *)
(* and shift each other's beliefs, in SimulationRunner they talk.  Both run  *)
(* the agents of a round in chunks and show an agent only what happened in   *)
(* earlier rounds.                                                           *)
(***************************************************************************)
EXTENDS Integers, Sequences, FiniteSets, SequencesExt, FiniteSetsExt, TLC

CONSTANTS
  Casts,        \* answers of the persona model: sequences of Personas
  Deltas,       \* beliefDelta in an answer, in percent, or NaN
  SimRounds,    \* config.rounds
  Concurrency   \* config.concurrency

NaN == 1000000  \* what is made of an answer that is no number
Personas == [lurker : BOOLEAN, influential : BOOLEAN, belief : {-20, 0, 50, 90, 100, NaN}]
ASSUME SimulationAssumption ==
  /\ \A cast \in Casts : cast \in Seq(Personas)
  /\ Deltas \subseteq Int /\ SimRounds \in Nat /\ Concurrency \in Nat \ {0}

VARIABLES
  kind,         \* "engine" or "runner"
  sim,          \* "idle", "spawn", "round", "turns", "done" or "failed"
  people,       \* state.agents: personas with the positions they follow
  belief,       \* beliefScore, in percent
  memory,       \* the rounds whose contributions an agent remembers
  awake,        \* agents of the running round not yet started, in order
  chunk,        \* agents whose turns run concurrently
  turns,        \* what the settled turns of the chunk gave
  acts,         \* contributions of the running round
  actions       \* state.actions, allRounds: the contributions of each finished round

simVars == <<kind, sim, people, belief, memory, awake, chunk, turns, acts, actions>>

MemorySize == 5
Spread == 30        \* percent of a delta a follower takes over
Clamp(x, low, high) == IF x = NaN THEN NaN ELSE Max({low, Min({high, x})})
agents == DOMAIN people
simRound == Len(actions) + 1

SimInit ==
  /\ kind = "engine" /\ sim = "idle"
  /\ people = <<>> /\ belief = <<>> /\ memory = <<>>
  /\ awake = <<>> /\ chunk = {} /\ turns = <<>> /\ acts = <<>> /\ actions = <<>>

Simulate(k) ==
  /\ sim = "idle"
  /\ kind' = k
  /\ sim' = "spawn"
  /\ UNCHANGED <<people, belief, memory, awake, chunk, turns, acts, actions>>

\* wireNetwork: two to seven others, the influential ones first
Follows(cast, a, others) ==
  /\ others \subseteq DOMAIN cast \ {a}
  /\ Cardinality(others) \in {Min({n, Len(cast) - 1}) : n \in 2 .. 7}
  /\ \A b \in others, c \in DOMAIN cast \ (others \cup {a}) :
       cast[c].influential => cast[b].influential

\* no array in the answer gives no agents; the list may be shorter than asked for
Spawn(cast) ==
  /\ sim = "spawn"
  /\ \E follows \in [DOMAIN cast -> SUBSET DOMAIN cast] :
       /\ \A a \in DOMAIN cast : Follows(cast, a, follows[a])
       /\ people' = [a \in DOMAIN cast |-> [persona |-> cast[a], following |-> follows[a]]]
  /\ belief' = [a \in DOMAIN cast |-> Clamp(cast[a].belief, 0, 100)]
  /\ memory' = [a \in DOMAIN cast |-> <<>>]
  /\ sim' = "round"
  /\ UNCHANGED <<kind, awake, chunk, turns, acts, actions>>

\* an entry of the list that is no object
SpawnFails ==
  /\ sim = "spawn" /\ kind = "engine"
  /\ sim' = "failed"
  /\ UNCHANGED <<kind, people, belief, memory, awake, chunk, turns, acts, actions>>

\* each round draws anew which lurkers take part
SimRound ==
  /\ sim = "round" /\ Len(actions) < SimRounds
  /\ sim' = "turns"
  /\ \E present \in SUBSET agents :
       /\ \A a \in agents \ present : kind = "engine" /\ people[a].persona.lurker
       /\ awake' = SetToSortSeq(present, <)
  /\ UNCHANGED <<kind, people, belief, memory, chunk, turns, acts, actions>>

StartChunk ==
  LET size == Min({Concurrency, Len(awake)})
  IN /\ sim = "turns" /\ chunk = {} /\ awake # <<>>
     /\ chunk' = ToSet(SubSeq(awake, 1, size))
     /\ awake' = SubSeq(awake, size + 1, Len(awake))
     /\ UNCHANGED <<kind, sim, people, belief, memory, turns, acts, actions>>

LastOf(seq, n) == SubSeq(seq, Max({1, Len(seq) - n + 1}), Len(seq))
Contribution(a, r, delta, heard) == [agent |-> a, round |-> r, delta |-> delta, heard |-> heard]
Source(x) == <<x.round, x.agent>>

\* an agent of the engine sees itself and those it follows, in the two rounds before; a
\* speaker of the runner sees everything
Visible(a) ==
  SelectSeq(FlattenSeq(actions), LAMBDA x :
    kind = "engine" => x.round >= simRound - 2 /\ x.agent \in people[a].following \cup {a})

ShownTo(a) ==
  LET seen == Visible(a)
      shown == IF kind = "engine" THEN LastOf(seen, 5) ELSE seen
  IN [i \in DOMAIN shown |-> Source(shown[i])]

Remembered(a) ==
  Append(IF kind = "engine" THEN LastOf(memory[a], MemorySize - 1) ELSE memory[a], simRound)

pendingTurns == chunk \ DOMAIN turns

\* agentTurn, or respond, whose failure is a message too
Acts(a, delta) ==
  /\ a \in pendingTurns
  /\ turns' = turns @@ (a :> <<Contribution(a, simRound, Clamp(delta, -20, 20), ShownTo(a))>>)
  /\ memory' = [memory EXCEPT ![a] = Remembered(a)]
  /\ UNCHANGED <<kind, sim, people, belief, awake, chunk, acts, actions>>

\* a failed call or an answer without JSON: the agent does nothing this round
Passes(a) ==
  /\ kind = "engine" /\ a \in pendingTurns
  /\ turns' = turns @@ (a :> <<>>)
  /\ UNCHANGED <<kind, sim, people, belief, memory, awake, chunk, acts, actions>>

\* Mutant: the contributions of a chunk are put before those of the chunks before it.
CollectedFirst == FlattenSeq([i \in 1 .. Cardinality(chunk) |->
                              turns[SetToSortSeq(chunk, <)[i]]]) \o acts

\* Promise.all keeps the order of the agents
Collected == acts \o FlattenSeq([i \in 1 .. Cardinality(chunk) |->
                                  turns[SetToSortSeq(chunk, <)[i]]])

CollectChunk ==
  /\ chunk # {} /\ pendingTurns = {}
  /\ acts' = Collected
  /\ chunk' = {} /\ turns' = <<>>
  /\ UNCHANGED <<kind, sim, people, belief, memory, awake, actions>>

Shift(beliefs, a, delta) ==
  [beliefs EXCEPT ![a] = IF delta = NaN \/ @ = NaN THEN NaN ELSE Clamp(@ + delta, 0, 100)]

\* propagateBeliefs for one action: the agent, then its followers if it is influential
Propagate(beliefs, act) ==
  LET followers == {b \in agents : act.agent \in people[b].following}
      echo == IF act.delta = NaN THEN NaN ELSE (act.delta * Spread) \div 100
  IN [b \in agents |->
       IF b = act.agent THEN Shift(beliefs, b, act.delta)[b]
       ELSE IF b \in followers /\ people[act.agent].persona.influential
            THEN Shift(beliefs, b, echo)[b] ELSE beliefs[b]]

EndRound ==
  /\ sim = "turns" /\ chunk = {} /\ awake = <<>>
  /\ sim' = "round"
  /\ actions' = Append(actions, acts)
  /\ acts' = <<>>
  /\ belief' = IF kind = "engine" THEN FoldLeft(Propagate, belief, acts) ELSE belief
  /\ UNCHANGED <<kind, people, memory, awake, chunk, turns>>

\* status "done", or the summary of the runner, whose failure is replaced by a text
EndSimulation ==
  /\ sim = "round" /\ Len(actions) = SimRounds
  /\ sim' = "done"
  /\ UNCHANGED <<kind, people, belief, memory, awake, chunk, turns, acts, actions>>

SimProgress ==
  \/ SpawnFails \/ SimRound \/ StartChunk \/ CollectChunk \/ EndRound \/ EndSimulation
  \/ \E cast \in Casts : Spawn(cast)
  \/ \E a \in chunk : Passes(a) \/ \E delta \in IF kind = "engine" THEN Deltas ELSE {0} : Acts(a, delta)

SimNext == (\E k \in {"engine", "runner"} : Simulate(k)) \/ SimProgress

-----------------------------------------------------------------------------
happened == FlattenSeq(actions) \o acts
Own(a) == SelectSeq(happened \o FlattenSeq([b \in 1 .. Len(people) |->
                      IF b \in DOMAIN turns THEN turns[b] ELSE <<>>]), LAMBDA x : x.agent = a)

\* However the turns of a chunk end: a round holds at most one contribution per agent, in
\* the agents' order, each made in sight of earlier rounds only; an agent remembers its own
\* last contributions; and a belief is a percentage unless the persona came with none, or an
\* answer without a number was the agent's own or of one it follows.
SimulationSound ==
  /\ \A i, j \in DOMAIN happened : i < j =>
       \/ happened[i].round < happened[j].round
       \/ happened[i].round = happened[j].round /\ happened[i].agent < happened[j].agent
  /\ \A i \in DOMAIN happened : \A k \in DOMAIN happened[i].heard :
       /\ happened[i].heard[k][1] < happened[i].round
       /\ \E j \in DOMAIN happened : Source(happened[j]) = happened[i].heard[k]
  /\ \A a \in agents :
       LET own == Own(a)
           kept == IF kind = "engine" THEN LastOf(own, MemorySize) ELSE own
       IN memory[a] = [i \in DOMAIN kept |-> kept[i].round]
  /\ \A a \in agents : belief[a] \in 0 .. 100 \/ belief[a] = NaN
  /\ \A a \in agents : belief[a] = NaN =>
       \/ people[a].persona.belief = NaN
       \/ \E i \in DOMAIN happened :
            happened[i].delta = NaN /\ happened[i].agent \in people[a].following \cup {a}
=============================================================================
