\* Getting in, being put out and staying out, with one or two browsers.  The clock
\* runs past the kick window and past the life of a grant; three admissions, at
\* most two at a time, let a grant outlive a kick, a revocation, a join and a
\* closing.  Two connections put one browser on both or two browsers on one each.
SPECIFICATION Spec
CONSTANTS
  h = h
  g = g
  Members = {h, g}
  Host = h
  Identities = {b1, b2}
  Connections = {c1, c2}
  NoConnection = NoConnection
  GrantLimit = 2
  GrantLife = 1
  KickWindow = 1
  MaxAdmissions = 3
  MaxClock = 2
SYMMETRY Symmetric
\* A purged room with its clock at the bound accepts nothing more.
CHECK_DEADLOCK FALSE
INVARIANTS
  TypeOK
  RevokedStayOut
  RetiredStaysEmpty
  GrantsLimited
  ReceiptsMirrorSessions
  OnlineIsConnected
  ParticipantFollowsSessions
  HostKeepsRights
PROPERTIES
  AdmittedByGrantOnce
  BackOnlineByNewAdmission
  KickedStayOut
