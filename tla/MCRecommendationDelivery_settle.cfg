\* One drain at a time; an outbox of one row may overflow; a failure is reported twice
\* and a move sent twice, before or after the first was delivered.
SPECIFICATION FairSpec
CONSTANTS
  Members = {m}
  Media = {a}
  Kinds = {"temporary"}
  Workers = {w1}
  Actions = {0}
  Limit = 1
  OutboxLimit = 1
  PreferenceLimit = 1
  MaxEvents = 2
  MaxNumber = 2
  MaxOccurrences = 1
  MaxDropped = 1
  MaxReports = 2
PROPERTIES
  SettlesUnlessRefused
