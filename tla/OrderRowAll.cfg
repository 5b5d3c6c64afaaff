SPECIFICATION Spec
CONSTANTS
  Qty = 2
  Words <- MCWords
  Reports <- AllReports
  Codes = {"E1"}
  NoRow = NoRow
CHECK_DEADLOCK FALSE
INVARIANTS TypeOK StatusColumnsAgree FilledIsWhole
PROPERTIES TerminalSticks
