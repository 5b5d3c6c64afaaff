SPECIFICATION FairSpec
CONSTANTS
  Clients = {c1}
  AccountOf <- FirstAccount
  NoCursor = NoCursor
  Garbage = Garbage
  Accounts = {"a1", "a2"}
  ReplayCapacity = 2
  Buffer = 1
  StartCursors <- AllStarts
  Changes <- MixedChanges
  MaxEpoch = 2
  MaxDrops = 1
  MaxReconnects = 1
CHECK_DEADLOCK FALSE
INVARIANTS NothingSkipped QueuedInOrder
PROPERTIES EventuallyTold
