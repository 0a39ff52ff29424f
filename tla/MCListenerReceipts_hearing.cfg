\* One browser, a medium of two units, a second mount of the player while its grant holds.
\* Receipts do not matter here: the outbox takes none. A documented property that fails.
SPECIFICATION HistorySpec
CONSTANTS
  Browsers = {b1}
  Duration = 2
  MaxGap = 2
  StateTtl = 3
  GrantLimit = 1
  PartitionLimit = 1
  OutboxLimit = 0
  MaxNow = 3
  MaxUpdates = 2
  MaxJoins = 2
  MaxChanges = 0
  MaxRequests = 1
CHECK_DEADLOCK FALSE
INVARIANTS
  CreditedWasHeard
