CONSTANTS
  read = read
  write = write
  admin = admin
  NoTool = NoTool
  Tools = {read, write, admin}
  Level <- Levels
  AsksFirst = {write, admin}
  SessionLevel = 2
  HasApprover = TRUE
  MaxTurns = 2
  MaxContext = 3
  MaxFailures = 2
  MaxBlocks = 2
  MaxPrompts = 2
  beside1 = beside1
  Others = {beside1}
SPECIFICATION FairSpec
INVARIANTS RequestsWellFormed GatedExecution LoopSound
PROPERTIES BreakerHolds PromptsEnd
CHECK_DEADLOCK FALSE
