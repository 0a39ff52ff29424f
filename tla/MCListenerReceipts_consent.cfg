\* A medium of one unit heard in two occurrences, a permission that changes once or a
\* history that is cleared, an outbox with room for one receipt.
SPECIFICATION HistorySpec
CONSTANTS
  Browsers = {b1}
  Duration = 1
  MaxGap = 1
  StateTtl = 1
  GrantLimit = 1
  PartitionLimit = 2
  OutboxLimit = 1
  MaxNow = 3
  MaxUpdates = 1
  MaxJoins = 1
  MaxChanges = 1
  MaxRequests = 1
CHECK_DEADLOCK FALSE
INVARIANTS
  TypeOK
  EmittedIsKept
  CreditedWasHeardOrUnwatched
  OnlyPermittedCounts
