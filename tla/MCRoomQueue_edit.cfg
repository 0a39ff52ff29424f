\* One host edits and plays a queue of three rows; no commands in flight.
SPECIFICATION Spec
CONSTANTS
  video = video
  upload = upload
  stream = stream
  ref = ref
  NoItem = NoItem
  NoUrl = NoUrl
  Members = {h}
  RightsChoices <- HostOnly
  ItemIds = {i1, i2, i3}
  Sources = {video, upload}
  Uploaded = {upload}
  YouTube = {video}
  Identifiable = {video, upload}
  SessionRefs = {ref}
  SessionRef <- MCSessionRef
  Statuses = {"playing", "paused"}
  MaxOccurrence = 2
  MaxPosition = 3
  MaxSequence = 2
  MaxClock = 0
  MaxPending = 0
SYMMETRY Rows
INVARIANTS
  TypeOK
  ActiveIsPlaying
  QueuedPositionsDistinct
  OccurrencesAccounted
  HistoryOrdered
PROPERTIES
  OneItemMovesAtATime
  DisplacedItemIsKept
