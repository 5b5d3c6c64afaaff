SPECIFICATION Spec
CONSTANTS
  ETF = "etf"
  Component = "component"
  Basket = 1
  Menu <- MCMenu
  MaxOrders = 5
  MaxLost = 1
  Openings <- MCOpenings
  PreClose <- PriceBefore
  Close <- PriceAfter
  Cash = 3
  Inputs <- MCInputs
INVARIANTS AttributionCloses EachShareOnce
CHECK_DEADLOCK FALSE
