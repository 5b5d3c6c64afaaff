SPECIFICATION Spec
CONSTANTS
  D = 3
  None = None
  Formulas = {"relay", "former", "statement"}
  Statement = "statement"
  Plans <- MCPlans
INVARIANTS OneCurrent ConfirmedWithinWarning
PROPERTIES ImplementsBook
CHECK_DEADLOCK FALSE
