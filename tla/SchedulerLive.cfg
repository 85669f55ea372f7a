CONSTANTS
  NoId = NoId
  Ids = {tick, watch}
  Once = {}
  Interval = {tick}
  Watch = {watch}
  Limited = {tick}
  MaxRuns <- TwoRuns
  Slots = {1, 2}
  Passes = {1}
  MaxCount = 2
SPECIFICATION FairSpec
INVARIANT TypeOK
PROPERTIES CancelledStaysQuiet RunningSettles
