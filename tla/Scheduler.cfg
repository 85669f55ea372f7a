CONSTANTS
  NoId = NoId
  Ids = {once, tick}
  Once = {once}
  Interval = {tick}
  Watch = {}
  Limited = {tick}
  MaxRuns <- TwoRuns
  Slots = {1, 2}
  Passes = {1}
  MaxCount = 3
SPECIFICATION Spec
INVARIANTS PendingHasBudget CompleteDisarmed OvershootOnlyInFlight OnceRunsAlone
PROPERTY CancelledStaysQuiet
