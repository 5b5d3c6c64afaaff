SPECIFICATION Spec
CONSTANTS
  Callers = {h1, h2}
  Procs = {p1}
  ProcOf <- OneProcess
  Accounts = {"a1", "a2"}
  TradingAccounts = {"a1"}
  Names <- Strings
  Bodies = {"b1", "b2"}
  ReportedBody = "reported"
  OrderRequests <- SubmittedOrders
  BatchRequests <- Batches
  CancelRequests <- None
  NoCaller = NoCaller
  NoRow = NoRow
  NoCall = NoCall
  MaxSends = 2
  MaxCalls = 3
  MaxDay = 2
CHECK_DEADLOCK FALSE
SYMMETRY Symmetry
CONSTRAINTS OneGroup OneCopy
INVARIANTS SubmitOncePerOrder ReplayMatchesOriginal ReservedBeforePublished NoSilentOrphan
PROPERTIES ImplementsSubmitOnce
