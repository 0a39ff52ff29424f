\* A temporary room and two persistent ones, in one of which something happens that the
\* durable store rejects for ever; passes of one job.
SPECIFICATION FairSpec
CONSTANTS
  Rooms = {t, s, u}
  Temporary = {t}
  Legacy = {}
  Stuck = {s}
  Visited = {s}
  Passes = {p}
  Batch = 1
  MaxFailures = 1
CHECK_DEADLOCK FALSE
PROPERTIES
  EndedIsCleared
