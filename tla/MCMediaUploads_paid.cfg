SPECIFICATION Spec
CONSTANTS
  Calls = {b, d}
  Modes = {"single", "multipart"}
  Strategies = {"needs_approval", "convert"}
  Parts = {1}
  MaxAssets = 1
  MaxJobs = 2
  MaxGrants = 2
  MaxFaults = 0
SYMMETRY Invocations
CHECK_DEADLOCK FALSE
INVARIANTS
  OneJobAtATime
