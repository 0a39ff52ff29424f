\* A listening room of three rows with every mix of sources; two members report.
SPECIFICATION ListenSpec
CONSTANTS
  video = video
  upload = upload
  stream = stream
  ref = ref
  NoItem = NoItem
  NoUrl = NoUrl
  Members = {m1, m2}
  RightsChoices <- HostOnly
  ItemIds = {i1, i2, i3}
  Sources = {video, upload, stream}
  Uploaded = {upload}
  YouTube = {video}
  Identifiable = {video, upload, stream}
  SessionRefs = {ref}
  SessionRef <- MCSessionRef
  Statuses = {"playing", "ended"}
  MaxOccurrence = 3
  MaxPosition = 2
  MaxSequence = 3
  MaxClock = 0
  MaxPending = 2
PROPERTIES
  EveryUpcomingItemPlays
