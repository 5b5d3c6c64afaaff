SPECIFICATION Spec
CONSTANTS
  D = 2
  W = 1
  P = 8
  Cash0 = 40
  Pos0 = 20
  Gains = {3}
  Deposits = {6}
  Incomes = {2}
  Redemptions <- MCRedemptions
  Forms <- MCForms
  MaxMoves = 3
  MaxOdd = 1
INVARIANTS ResultsAddUp NoFalseAlarm
CHECK_DEADLOCK FALSE
