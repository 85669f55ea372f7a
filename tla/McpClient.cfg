CONSTANTS
  MaxPending = 2
  MaxLine = 3
  MaxRequests = 5
  MaxPipe = 4
  ReplyLengths = {2, 4}
  Repeats = TRUE
SPECIFICATION ClientFairSpec
INVARIANT ClientSound
PROPERTIES SettledOnce RequestsSettle LifecycleEnds
CHECK_DEADLOCK FALSE
