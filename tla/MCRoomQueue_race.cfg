\* Two members, either of whom may lose the rights, race their commands over up to two rows
\* of one source, the second of them there from the start or added at any time.
SPECIFICATION RaceSpec
CONSTANTS
  video = video
  upload = upload
  stream = stream
  ref = ref
  NoItem = NoItem
  NoUrl = NoUrl
  Members = {m1, m2}
  RightsChoices <- HostOrNobody
  ItemIds = {i1, i2}
  Sources = {video}
  Uploaded = {}
  YouTube = {video}
  Identifiable = {video}
  SessionRefs = {}
  SessionRef <- NoSessionRef
  Statuses = {"playing"}
  MaxOccurrence = 2
  MaxPosition = 2
  MaxSequence = 1
  MaxClock = 1
  MaxPending = 2
SYMMETRY RowsAndMembers
INVARIANTS
  RecordedProblemsAreShared
PROPERTIES
  AdvancesOncePerOccurrence
  NeverStartsUnavailable
  OutcomesAreFinal
  RevokedCommandsChangeNothing
