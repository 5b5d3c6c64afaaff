SPECIFICATION Spec
CONSTANTS
  S = S
  F = F
  Jobs = {j1, j2}
  D = 3
  Menu <- MCMenu
  Nights <- MCNights
  Inceptions <- MCInceptions
  Markets <- MCMarkets
  MaxOrders = 2
  MaxLate = 1
  MaxRuns = 2
INVARIANTS CostIsReplayed ChainContinues
SYMMETRY MCSymmetry
CHECK_DEADLOCK FALSE
