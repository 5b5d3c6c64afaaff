SPECIFICATION Spec
CONSTANTS
  Accounts = {a1, a2}
  Debounce = 1
  Cooldown = 3
  MaxTimers = 4
CHECK_DEADLOCK FALSE
INVARIANTS AtMostTwoPerCooldown
PROPERTIES EveryRequestServed
