SPECIFICATION FairSpec
CONSTANTS
  Callers = {h1, h2}
  Procs = {p1}
  ProcOf <- OneProcess
  Accounts = {"a1", "a2"}
  TradingAccounts = {"a1"}
  Names <- Strings
  Bodies = {"b1", "b2"}
  ReportedBody = "reported"
  OrderRequests <- RoutedAndNot
  BatchRequests <- None
  CancelRequests <- Cancels
  NoCaller = NoCaller
  NoRow = NoRow
  NoCall = NoCall
  MaxSends = 2
  MaxCalls = 3
  MaxDay = 1
CHECK_DEADLOCK FALSE
PROPERTIES CancelReceiptFinal EveryCallAnswered
