SPECIFICATION Spec
CONSTANTS
  Symbols = {s1}
  RefreshSteps <- TwoSteps
  Skews <- Behind
  FreshSlack = 2
  CloseGap = 6
  BatchCount = 3
  NoRow = NoRow
  OtherSteps = {"positions"}
  MaxTrades = 1
  MaxOthers = 1
  MaxIncidents = 2
CHECK_DEADLOCK FALSE
INVARIANTS LastQueryExact ReadyWasAnswered CapturedAssetFinal CaptureIsWhole
