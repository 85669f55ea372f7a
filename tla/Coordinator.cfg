CONSTANTS
  wide = wide
  narrow = narrow
  Runs = {wide, narrow}
  PoolSize = 2
  MaxSubtasks = 3
  Limit <- Limits
  MayStop = TRUE
SPECIFICATION FairSpec
INVARIANTS ExclusiveAssignment RunsSound
PROPERTIES RunsReturn ImplementsBatches
CHECK_DEADLOCK FALSE
