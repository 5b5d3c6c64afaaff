SPECIFICATION FairSpec
CONSTANTS
  Orders = {o1}
  Qty = 2
  BatchCount = 2
  NoRow = NoRow
  NoFee = NoFee
  Scenarios <- MCScenarios
CHECK_DEADLOCK FALSE
INVARIANTS CheckpointCovers FillsBookedOnce CaughtUpAgrees FeesSettled
PROPERTIES EventuallyCaughtUp
