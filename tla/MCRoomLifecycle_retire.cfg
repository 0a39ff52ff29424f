\* A temporary and a legacy room, two overlapping passes of one job each.
SPECIFICATION Spec
CONSTANTS
  Rooms = {t, l}
  Temporary = {t}
  Legacy = {l}
  Stuck = {}
  Visited = {t, l}
  Passes = {p, q}
  Batch = 1
  MaxFailures = 2
SYMMETRY Workers
CHECK_DEADLOCK FALSE
INVARIANTS
  TypeOK
  EndedStaysEmpty
PROPERTIES
  SavedRoomsStayOpen
