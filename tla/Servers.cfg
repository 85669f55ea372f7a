CONSTANTS
  Accepted = {"token"}
  Wrong = {"typo", "none"}
  CapDelay = 4
  MaxFailures = 2
  Nonces = {"n1"}
  Skew = 2
  MaxClock = 7
  MaxSse = 2
  Streams = {1, 2, 3}
  MaxLine = 2
  MaxPending = 2
  Requests = {"garbage", "initialize", "hidden tool", "Read", "gated tool"}
  MaxLines = 3
  AllowedTools = {"Read"}
  Offered = {0, 1, 128, 1000, 100000000}
  ChunkSizes = {0, 100, 600}
  MaxChunks = 3
  StreamAnswers <- SomeAnswers
  FreeTools = {"Read"}
  GuardedTools = {"Bash"}
  MaxStreamTurns = 2
  MaxRetries = 2
  Conversations <- SomeConversations
  Names = {"anthropic", "openai", "ollama", "acme"}
  Texts <- SomeTexts
  Tasks = {"sweep", "odd"}
  Prefix <- TaskPrefixes
  Interval <- TaskIntervals
  MaxTime = 3
  OldDays = {1}
  NewDays = {2}
  RequestIds = {"r1", "r2"}
  MaxStarts = 2
  Updates = {1, 2, 3}
  Welcome = {1, 3}
  Polls = {1, 2}
  RatePerMinute = 1
SPECIFICATION FairSpec
INVARIANTS AdmissionSound ConversationsSound DaemonsSound
PROPERTIES ServersSettle
CHECK_DEADLOCK FALSE
