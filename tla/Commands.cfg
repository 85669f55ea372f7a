CONSTANTS
  t1 = t1
  t2 = t2
  lost = lost
  TaskIds = {t1, t2, lost}
  Plans <- SomePlans
  Members <- Council3
  MaxRounds = 2
  SpeechTokens = 1
  OpenTools = {"Read"}
  AskingTools = {"Bash"}
  MaxSteps = 3
  MaxBlocks = 3
  StepTokens = 1
  Casts <- SomeCasts
  Deltas <- SomeDeltas
  SimRounds = 2
  Concurrency = 2
  Suites <- SomeSuites
  MaxConcurrency = 2
  Outcomes <- SomeOutcomes
  Limit = 1
  Wishes = {{"kairos", "tasks", "hermes"}, {"kairos", "mcp", "gateway", "telegram"}}
  MaxInputs = 2
  MaxContext = 2
  Hosts = {"a", "b", "local"}
  Reserved = {"local"}
  PublicIps <- SomePublicIps
  PrivateIps <- SomePrivateIps
  MaxHops = 2
  MaxBytes = 2
  Octets = {0, 2, 15, 16, 18, 20, 31, 32, 51, 63, 64, 88, 99, 100, 113, 127, 128, 168, 254, 255}
  ProbeStep = 1
  MaxOutput = 3
  PieceSizes = {1, 2}
  MaxPieces = 3
SPECIFICATION FairSpec
INVARIANTS WorkAccounted SpeakersHeard SimulationSound StepsInOrder
PROPERTIES CommandsEnd
CHECK_DEADLOCK FALSE
