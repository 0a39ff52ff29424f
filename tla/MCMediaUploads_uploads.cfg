SPECIFICATION FairSpec
CONSTANTS
  Calls = {b, d}
  Modes = {"single", "multipart"}
  Strategies = {"direct_ready", "needs_approval", "convert"}
  Parts = {1}
  MaxAssets = 1
  MaxJobs = 2
  MaxGrants = 1
  MaxFaults = 1
\* Bounds leave nothing to do once they are used up.
CHECK_DEADLOCK FALSE
INVARIANTS
  TypeOK
  ReadyIsPlayable
  JobsAreGranted
PROPERTIES
  PartsAreReleased
