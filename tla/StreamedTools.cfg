CONSTANTS
  StreamAnswers <- SomeAnswers
  FreeTools = {"Read"}
  GuardedTools = {"Bash"}
  MaxStreamTurns = 2
SPECIFICATION StreamSpec
INVARIANT StreamedToolsRun
CHECK_DEADLOCK FALSE
