CONSTANTS
  Clients = {"c", "d"}
  Paths = {"/a/x", "/b/x"}
  NameOf <- SomeNames
  Priority <- SomePriorities
  MaxOps = 3
  Tools = {"Read", "mcp", "mcp_x"}
  Extends <- MoreTools
  MaxCalls = 3
  MaxMs = 2
  Spans = {1, 2, 3}
  MaxFlushes = 2
  MaxTop = 2
  PastSessions <- SomeSessions
  Posts = {"p", "q"}
  Patches <- SomePatches
  UserFiles <- SomeUserFiles
  ProjectFiles <- SomeProjectFiles
  MaxTurnsValue = 3
  Sessions = {"s", "t"}
  Days = 2
  MaxEvents = 3
  Sizes = {2, 3}
  MaxLineSize = 2
  MaxFiles = 2
  MaxRows = 3
  Budgets = {3, 4, 20}
  WikiCalls = {"c1", "c2", "c3"}
  Titles = {"Plain", "Why?", "Why"}
  StoredAs <- StoredSlugs
  SoughtAs <- SoughtSlugs
  Installers = {"p", "q"}
  Entries <- SomeEntries
  Codes = {"c1", "c2"}
  SigningKeys = {"ours", "theirs"}
  Ttl = 1
  MaxNow = 2
  Nodes = {1, 2, 3, 4}
  Episodes = {1, 2, 3}
  MaxDepth = 2
  MaxEdges = 4
  SourceFiles <- SomeSources
  DirsOf <- SomeDirs
  Extractions <- SomeExtractions
  Vertices = {1, 2, 3, 4}
  Weights = {0, 1, 3}
  MaxPasses = 8
  MaxWindows = 3
  Targets <- SomeTargets
  SpokenTurns = {1, 2, 3}
  MaxHistory = 4
  SttProviders = {"local-whisper", "deepgram", "unknown"}
  TtsProviders = {"elevenlabs"}
  Services = {"deepgram", "elevenlabs"}
  FilePaths = {"a", "b", "up"}
  Denied = {"up"}
  Templates <- SomeTemplates
  Lists <- SomeLists
  ServerLists <- SomeServers
  ToolName <- RegisteredAs
  ValidName <- Registrable
  PerServer = 3
  MaxTotal = 4
SPECIFICATION Spec
INVARIANTS FilesKept ApplicationsSound DataSound
CHECK_DEADLOCK FALSE
