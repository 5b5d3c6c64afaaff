SPECIFICATION Spec
CONSTANTS
  N = 4
  Plans <- Orders
  Requests = {s1}
  StatusKey <- Key
  None = None
  MaxTry = 2
  MaxFaults = 1
  MaxRunning = 2
CHECK_DEADLOCK FALSE
INVARIANTS CurrentIsVerified AuditFaithful
PROPERTIES NeverReactivated NoStaleMove OperationsEnd
