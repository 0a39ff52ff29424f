\* One account or guest, one medium, two drains, calls that fail or come late, a sign-in
\* between any two of them, and a move that is sent again under its own name.
SPECIFICATION Spec
CONSTANTS
  Members = {m}
  Media = {a}
  Kinds = {"legacy", "temporary"}
  Workers = {w1, w2}
  Actions = {0}
  Limit = 2
  OutboxLimit = 2
  PreferenceLimit = 1
  MaxEvents = 2
  MaxNumber = 2
  MaxOccurrences = 0
  MaxDropped = 0
  MaxReports = 1
SYMMETRY Drains
INVARIANTS
  TypeOK
  AccountAgreesWithRoom
PROPERTIES
  ImplementsLedger
