------------------------ MODULE RoomAdmissionProofs ------------------------
(***************************************************************************)
(* Proofs about RoomAdmission, for any members, browsers, connections and  *)
(* limits: private sessions, connections and aggregate rows agree, and the *)
(* excluded stay out.  Core is the inductive invariant; one lemma per      *)
(* family of reducers shows that it is preserved.                          *)
(***************************************************************************)
EXTENDS RoomAdmission, FiniteSetTheorems, TLAPS

SessionRows == [Identities -> SessionRow]

\* Member m's row p follows the session rows of m.
Follows(rows, p) ==
  IF Online(rows) # {}
  THEN \E i \in Online(rows) : p.status = "online" /\ p.conn = rows[i].conn
  ELSE p.status # "online"

\* Browser i's session row is online exactly on an open connection of i, given
\* which browser is behind each connection.
Connected(behind, i, row) ==
  IF row.status = "online"
  THEN row.conn \in Connections /\ behind[row.conn] = i
  ELSE row.conn = NoConnection

LEMMA Connectedness ==
  ASSUME TypeOK
  PROVE  OnlineIsConnected <=>
           \A m \in Members, i \in Identities : Connected(connection, i, sessions[m][i])
BY DEF TypeOK, OnlineIsConnected, Connected, Open

LEMMA Following ==
  ParticipantFollowsSessions <=> \A m \in Members : Follows(sessions[m], participant[m])
BY DEF ParticipantFollowsSessions, Follows

\* syncAggregateParticipant writes a row that follows the session rows, and does
\* not bring back a member who has none online.
LEMMA SyncedProperties ==
  ASSUME NEW rows \in SessionRows, NEW old \in ParticipantRow, NEW newest \in Identities,
         NEW remove \in BOOLEAN, MayBeNewest(newest, rows)
  PROVE  /\ Synced(old, rows, newest, remove) \in ParticipantRow
         /\ Follows(rows, Synced(old, rows, newest, remove))
         /\ (Online(rows) = {} /\ old = NoParticipant)
              => Synced(old, rows, newest, remove) = NoParticipant
<1>1. CASE Online(rows) # {}
  <2>1. newest \in Online(rows) /\ rows[newest] \in SessionRow
    BY <1>1 DEF MayBeNewest, SessionRows
  <2>2. Synced(old, rows, newest, remove)
          = [status |-> "online", role |-> rows[newest].role, conn |-> rows[newest].conn]
    BY <1>1 DEF Synced, Aggregate
  <2> QED
    BY <1>1, <2>1, <2>2 DEF ParticipantRow, SessionRow, Follows
<1>2. CASE Online(rows) = {} /\ (old = NoParticipant \/ remove)
  <2>1. Synced(old, rows, newest, remove) = NoParticipant
    BY <1>2 DEF Synced
  <2> QED
    BY <1>2, <2>1 DEF NoParticipant, ParticipantRow, Roles, Follows
<1>3. CASE Online(rows) = {} /\ ~(old = NoParticipant \/ remove)
  <2>1. Synced(old, rows, newest, remove)
          = [old EXCEPT !.status = "idle", !.conn = NoConnection]
    BY <1>3 DEF Synced
  <2> QED
    BY <1>3, <2>1 DEF ParticipantRow, Follows
<1> QED
  BY <1>1, <1>2, <1>3

\* The receipts of rows are receipts.
LEMMA ReceiptsType ==
  ASSUME NEW m \in Members, NEW rows \in SessionRows
  PROVE  Receipts(m, rows) \subseteq Presence
<1>1. \A i \in Stored(rows) : rows[i].status \in {"online", "idle"} /\ rows[i].admission \in Nat
  BY DEF Stored, SessionRows, SessionRow
<1> QED
  BY <1>1 DEF Receipts, Presence

----------------------------------------------------------------------------
(* The inductive invariant.                                                *)

\* The rows of one member and what follows from them: the part of the invariant
\* that a reducer for that member must re-establish.
MemberSound(m) ==
  /\ sessions[m] \in SessionRows /\ participant[m] \in ParticipantRow
  /\ \A i \in Identities : Connected(connection, i, sessions[m][i])
  /\ Follows(sessions[m], participant[m])

\* What is left of the invariant when every member's rows are sound.
RoomSound ==
  /\ connection \in [Connections -> Identities \union {"new", "gone"}]
  /\ room \in {"absent", "live", "closed", "purged"}
  /\ seedGrant \in [held: BOOLEAN, expires: Nat]
  /\ grants \subseteq Grant
  /\ issued \in Nat
  /\ presence \subseteq Presence
  /\ permission \in [Members -> PermissionRow]
  /\ kicked \in [Members -> SUBSET Nat]
  /\ revoked \subseteq Members
  /\ now \in Nat

Core ==
  /\ sessions \in [Members -> SessionRows]
  /\ participant \in [Members -> ParticipantRow]
  /\ \A m \in Members : MemberSound(m)
  /\ RoomSound /\ RevokedStayOut /\ RetiredStaysEmpty

LEMMA InitEstablishes == Init => Core
<1> SUFFICES ASSUME Init PROVE Core
  OBVIOUS
<1>1. NoRows \in SessionRows /\ Online(NoRows) = {} /\ NoParticipant \in ParticipantRow
  BY DEF NoRows, NoSession, SessionRows, SessionRow, Roles, Online, NoParticipant, ParticipantRow
<1>2. \A m \in Members : sessions[m] = NoRows /\ participant[m] = NoParticipant
  BY DEF Init
<1>3. \A m \in Members : MemberSound(m)
  BY <1>1, <1>2 DEF MemberSound, Connected, Follows, NoRows, NoSession, NoParticipant
<1>4. RoomSound
  BY DEF Init, RoomSound, NoPermission, PermissionRow
<1>5. /\ sessions \in [Members -> SessionRows]
      /\ participant \in [Members -> ParticipantRow]
  BY <1>1 DEF Init
<1>6. RevokedStayOut /\ RetiredStaysEmpty
  BY DEF Init, RevokedStayOut, RetiredStaysEmpty
<1> QED
  BY <1>3, <1>4, <1>5, <1>6 DEF Core


----------------------------------------------------------------------------
(* What reducers have in common.                                           *)

\* A caller on the connection that carries its session is online, not revoked,
\* and the room is not retired.
LEMMA CurrentIsOnline ==
  ASSUME Core, NEW c \in Connections, NEW m \in Members, IsCurrent(c, m)
  PROVE  /\ connection[c] \in Identities
         /\ sessions[m][connection[c]].status = "online"
         /\ m \notin revoked /\ ~Retired
<1> DEFINE i == connection[c]
<1>1. i \in Identities /\ sessions[m][i].conn = c
  BY DEF IsCurrent, Open
<1>2. MemberSound(m) /\ RevokedStayOut /\ RetiredStaysEmpty
  BY DEF Core

<1>3. sessions[m][i].conn # NoConnection
  BY <1>1, ConnectionsAssumption
<1>4. sessions[m][i].status = "online"
  BY <1>1, <1>2, <1>3 DEF MemberSound, Connected
<1>5. i \in Online(sessions[m])
  BY <1>1, <1>4 DEF Online
<1>6. m \notin revoked
  BY <1>2, <1>5 DEF RevokedStayOut
<1>7. ~Retired
  BY <1>1, <1>2, <1>3 DEF RetiredStaysEmpty, Retired, NoRows, NoSession
<1> QED
  BY <1>1, <1>4, <1>6, <1>7

\* A reducer that touches no session, connection or aggregate row.
LEMMA Untouched ==
  ASSUME Core, UNCHANGED <<connection, sessions, participant>>
  PROVE  /\ (sessions \in [Members -> SessionRows])'
         /\ (participant \in [Members -> ParticipantRow])'
         /\ \A m \in Members : MemberSound(m)'
BY DEF Core, MemberSound, Connected

\* A reducer that writes sound rows for one member.
LEMMA OneMember ==
  ASSUME Core, NEW m \in Members, NEW rows \in SessionRows, NEW p \in ParticipantRow,
         WithRows(m, rows), participant' = [participant EXCEPT ![m] = p],
         UNCHANGED connection,
         \A i \in Identities : Connected(connection, i, rows[i]), Follows(rows, p)
  PROVE  /\ (sessions \in [Members -> SessionRows])'
         /\ (participant \in [Members -> ParticipantRow])'
         /\ \A n \in Members : MemberSound(n)'
         /\ presence' \subseteq Presence
<1>1. /\ sessions \in [Members -> SessionRows]
      /\ participant \in [Members -> ParticipantRow]
      /\ presence \subseteq Presence
      /\ \A n \in Members : MemberSound(n)
  BY DEF Core, RoomSound
<1>2. /\ sessions' = [sessions EXCEPT ![m] = rows]
      /\ presence' = (presence \ Receipts(m, sessions[m])) \union Receipts(m, rows)
  BY DEF WithRows
<1>3. presence' \subseteq Presence
  BY <1>1, <1>2, ReceiptsType
<1>4. ASSUME NEW n \in Members PROVE MemberSound(n)'
  <2>1. CASE n = m
    BY <2>1, <1>1, <1>2 DEF MemberSound, Connected
  <2>2. CASE n # m
    <3>1. sessions'[n] = sessions[n] /\ participant'[n] = participant[n]
      BY <2>2, <1>1, <1>2
    <3> QED
      BY <3>1, <1>1 DEF MemberSound, Connected
  <2> QED
    BY <2>1, <2>2
<1> QED
  BY <1>1, <1>2, <1>3, <1>4

\* A member that is put out has sound rows: none.
LEMMA RemovedMember ==
  ASSUME Core, NEW m \in Members, Removed(m), UNCHANGED connection
  PROVE  /\ (sessions \in [Members -> SessionRows])'
         /\ (participant \in [Members -> ParticipantRow])'
         /\ \A n \in Members : MemberSound(n)'
         /\ presence' \subseteq Presence
         /\ permission' \in [Members -> PermissionRow]
         /\ participant'[m] = NoParticipant /\ Online(sessions'[m]) = {}
         /\ \A n \in Members \ {m} : /\ participant'[n] = participant[n]
                                      /\ sessions'[n] = sessions[n]
<1>1. NoRows \in SessionRows /\ Online(NoRows) = {} /\ NoParticipant \in ParticipantRow
  BY DEF NoRows, NoSession, SessionRows, SessionRow, Roles, Online, NoParticipant, ParticipantRow
<1>2. /\ \A i \in Identities : Connected(connection, i, NoRows[i])
      /\ Follows(NoRows, NoParticipant)
  BY <1>1 DEF Connected, Follows, NoRows, NoSession, NoParticipant
<1>3. /\ WithRows(m, NoRows)
      /\ participant' = [participant EXCEPT ![m] = NoParticipant]
      /\ permission' = [permission EXCEPT ![m] = NoPermission]
  BY DEF Removed
<1>4. /\ (sessions \in [Members -> SessionRows])'
      /\ (participant \in [Members -> ParticipantRow])'
      /\ \A n \in Members : MemberSound(n)'
      /\ presence' \subseteq Presence
  BY <1>1, <1>2, <1>3, OneMember
<1>5. permission' \in [Members -> PermissionRow]
  <2>1. permission \in [Members -> PermissionRow] /\ NoPermission \in PermissionRow
    BY DEF Core, RoomSound, NoPermission, PermissionRow
  <2> QED
    BY <2>1, <1>3
<1>6. /\ participant'[m] = NoParticipant /\ sessions'[m] = NoRows
      /\ \A n \in Members \ {m} : /\ participant'[n] = participant[n]
                                   /\ sessions'[n] = sessions[n]
  BY <1>3 DEF Core, WithRows
<1> QED
  BY <1>1, <1>4, <1>5, <1>6

----------------------------------------------------------------------------
(* The reducers.                                                           *)

LEMMA ConnectPreserves ==
  ASSUME Core, NEW c \in Connections, NEW i \in Identities, Connect(c, i)
  PROVE  Core'
<1>1. /\ connection[c] = "new" /\ connection' = [connection EXCEPT ![c] = i]
      /\ UNCHANGED <<room, seedGrant, grants, issued, sessions, presence, participant,
                     permission, kicked, revoked, now>>
  BY DEF Connect
<1>2. /\ sessions \in [Members -> SessionRows] /\ participant \in [Members -> ParticipantRow]
      /\ RoomSound /\ RevokedStayOut /\ RetiredStaysEmpty
      /\ \A m \in Members : MemberSound(m)
  BY DEF Core

<1>3. RoomSound'
  BY <1>1, <1>2 DEF RoomSound
<1>4. ASSUME NEW m \in Members, NEW j \in Identities
      PROVE  Connected(connection', j, sessions'[m][j])
  <2>1. Connected(connection, j, sessions[m][j])
    BY <1>2 DEF MemberSound
  <2>2. connection[c] \notin Identities
    BY <1>1, ConnectionsAssumption
  <2>3. sessions[m][j].status = "online" => sessions[m][j].conn # c
    BY <2>1, <2>2 DEF Connected
  <2> QED
    BY <1>1, <1>2, <2>1, <2>3 DEF Connected, RoomSound
<1>5. \A m \in Members : MemberSound(m)'
  BY <1>1, <1>2, <1>4 DEF MemberSound
<1>6. (RevokedStayOut /\ RetiredStaysEmpty)'
  BY <1>1, <1>2 DEF RevokedStayOut, RetiredStaysEmpty
<1> QED
  BY <1>1, <1>2, <1>3, <1>5, <1>6 DEF Core


LEMMA GrantingPreserves ==
  ASSUME Core,
         \/ IssueSeedGrant \/ SeedRoom \/ Tick
         \/ \E m \in Members, i \in Identities : IssueGrant(m, i)
  PROVE  Core'
<1>1. /\ RoomSound /\ RevokedStayOut /\ RetiredStaysEmpty
      /\ sessions \in [Members -> SessionRows] /\ participant \in [Members -> ParticipantRow]
  BY DEF Core

<1>2. ASSUME UNCHANGED <<connection, sessions, participant, presence, revoked>>,
             RoomSound', RetiredStaysEmpty',
             \A g \in grants' : g \in grants \/ g.member \notin revoked
      PROVE  Core'
  <2>1. RevokedStayOut'
    BY <1>1, <1>2 DEF RevokedStayOut
  <2> QED
    BY <2>1, <1>2, Untouched DEF Core

<1>3. CASE IssueSeedGrant
  <2>1. now + GrantLife \in Nat
    BY <1>1, NumbersAssumption DEF RoomSound
  <2>2. RoomSound'
    BY <1>1, <1>3, <2>1 DEF IssueSeedGrant, RoomSound
  <2>3. RetiredStaysEmpty'
    BY <1>3 DEF IssueSeedGrant, RetiredStaysEmpty, Retired
  <2> QED
    BY <1>2, <1>3, <2>2, <2>3 DEF IssueSeedGrant
<1>4. CASE SeedRoom
  <2>1. RoomSound'
    BY <1>1, <1>4, HostAssumption DEF SeedRoom, RoomSound, PermissionRow
  <2>2. RetiredStaysEmpty'
    BY <1>4 DEF SeedRoom, RetiredStaysEmpty
  <2> QED
    BY <1>2, <1>4, <2>1, <2>2 DEF SeedRoom
<1>5. CASE Tick
  <2>1. RoomSound' /\ RetiredStaysEmpty'
    BY <1>1, <1>5 DEF Tick, RoomSound, RetiredStaysEmpty
  <2> QED
    BY <1>2, <1>5, <2>1 DEF Tick
<1>6. ASSUME NEW m \in Members, NEW i \in Identities, IssueGrant(m, i) PROVE Core'
  <2> DEFINE new == [admission |-> issued + 1, member |-> m, identity |-> i,
                     expires |-> now + GrantLife]
  <2>1. new \in Grant /\ Unexpired \subseteq grants
    BY <1>1, NumbersAssumption DEF RoomSound, Grant, Unexpired
  <2>2. grants' \subseteq grants \union {new} /\ issued' \in Nat
    BY <1>1, <1>6, <2>1 DEF IssueGrant, RoomSound
  <2>3. RoomSound'
    BY <1>1, <1>6, <2>1, <2>2 DEF IssueGrant, RoomSound
  <2>4. RetiredStaysEmpty'
    BY <1>6 DEF IssueGrant, RetiredStaysEmpty, Retired
  <2>5. \A g \in grants' : g \in grants \/ g.member \notin revoked
    BY <1>6, <2>2 DEF IssueGrant
  <2> QED
    BY <1>2, <1>6, <2>3, <2>4, <2>5 DEF IssueGrant
<1> QED
  BY <1>3, <1>4, <1>5, <1>6

LEMMA JoinPreserves ==
  ASSUME Core, NEW c \in Connections, NEW m \in Members, NEW a \in Nat, JoinRoom(c, m, a)
  PROVE  Core'
<1> DEFINE i == connection[c]
           row == [status |-> "online", admission |-> a, role |-> ResolvedRole(m), conn |-> c]
           rows == Admitted(sessions[m], i, row)
           p == Aggregate(ResolvedRole(m), c)
<1>1. /\ RoomSound /\ RevokedStayOut /\ RetiredStaysEmpty /\ MemberSound(m)
      /\ sessions \in [Members -> SessionRows] /\ participant \in [Members -> ParticipantRow]
  BY DEF Core

<1>2. /\ i \in Identities /\ ~Retired
      /\ UNCHANGED <<connection, room, seedGrant, issued, revoked, now>>
  BY DEF JoinRoom, Open
<1>3. ResolvedRole(m) \in Roles
  BY DEF ResolvedRole, ClaimedRole, Roles
<1>4. ASSUME Readmitted(c, m, a) \/ ValidGrants(c, m, a) # {} PROVE Core'
  <2>1. /\ WithRows(m, rows)
        /\ participant' = [participant EXCEPT ![m] = p]
        /\ grants' \subseteq grants
        /\ kicked' = [kicked EXCEPT ![m] = {}]
        /\ \E r \in SUBSET Rights :
             permission' \in {permission, [permission EXCEPT ![m] = [status |-> "row", rights |-> r]]}
    BY <1>4 DEF JoinRoom, Rights
  <2>2. m \notin revoked
    BY <1>4, CurrentIsOnline DEF Readmitted, ValidGrants
  <2>3. rows \in SessionRows /\ p \in ParticipantRow /\ row \in SessionRow
    BY <1>1, <1>2, <1>3 DEF Admitted, Aggregate, SessionRows, SessionRow, ParticipantRow,
                            MemberSound
  <2>4. \A j \in Identities : Connected(connection, j, rows[j])
    BY <1>1, <1>2 DEF Admitted, Connected, MemberSound, SessionRows
  <2>5. Follows(rows, p)
    <3>1. i \in Online(rows) /\ p.status = "online" /\ p.conn = rows[i].conn
      BY <1>1, <1>2 DEF Admitted, Online, Aggregate, MemberSound, SessionRows
    <3> QED
      BY <3>1 DEF Follows
  <2>6. /\ (sessions \in [Members -> SessionRows])'
        /\ (participant \in [Members -> ParticipantRow])'
        /\ \A n \in Members : MemberSound(n)'
        /\ presence' \subseteq Presence
    BY <2>1, <2>3, <2>4, <2>5, <1>2, OneMember
  <2>7. RoomSound'
    BY <1>1, <1>2, <2>1, <2>6 DEF RoomSound, PermissionRow
  <2>8. RevokedStayOut'
    BY <1>1, <1>2, <2>1, <2>2 DEF RevokedStayOut, WithRows
  <2>9. RetiredStaysEmpty'
    BY <1>2 DEF RetiredStaysEmpty, Retired
  <2> QED
    BY <2>6, <2>7, <2>8, <2>9 DEF Core

<1>5. ASSUME ~(Readmitted(c, m, a) \/ ValidGrants(c, m, a) # {}) PROVE Core'
  <2>1. /\ grants' \subseteq grants
        /\ UNCHANGED <<sessions, presence, participant, kicked, permission>>
    BY <1>5 DEF JoinRoom
  <2>2. RoomSound' /\ RevokedStayOut' /\ RetiredStaysEmpty'
    BY <1>1, <1>2, <2>1 DEF RoomSound, RevokedStayOut, RetiredStaysEmpty, Retired
  <2> QED
    BY <1>2, <2>1, <2>2, Untouched DEF Core

<1> QED
  BY <1>4, <1>5

LEMMA StayPreserves ==
  ASSUME Core, NEW c \in Connections, NEW m \in Members, Heartbeat(c, m) \/ LeaveRoom(c, m)
  PROVE  Core'
<1> DEFINE i == connection[c]
<1>1. /\ RoomSound /\ RevokedStayOut /\ RetiredStaysEmpty /\ MemberSound(m)
      /\ sessions \in [Members -> SessionRows] /\ participant \in [Members -> ParticipantRow]
  BY DEF Core

<1>2. /\ IsCurrent(c, m)
      /\ UNCHANGED <<connection, room, seedGrant, grants, issued, permission, kicked,
                     revoked, now>>
  BY DEF Heartbeat, LeaveRoom
<1>3. /\ i \in Identities /\ sessions[m][i].status = "online" /\ sessions[m][i].conn = c
      /\ m \notin revoked /\ ~Retired
  BY <1>2, CurrentIsOnline DEF IsCurrent
<1>4. ASSUME NEW rows \in SessionRows, NEW p \in ParticipantRow, WithRows(m, rows),
             participant' = [participant EXCEPT ![m] = p],
             \A j \in Identities : Connected(connection, j, rows[j]), Follows(rows, p)
      PROVE  Core'
  <2>1. /\ (sessions \in [Members -> SessionRows])'
        /\ (participant \in [Members -> ParticipantRow])'
        /\ \A n \in Members : MemberSound(n)'
        /\ presence' \subseteq Presence
    BY <1>2, <1>4, OneMember
  <2>2. RoomSound'
    BY <1>1, <1>2, <2>1 DEF RoomSound
  <2>3. RevokedStayOut'
    BY <1>1, <1>2, <1>3, <1>4 DEF RevokedStayOut, WithRows
  <2>4. RetiredStaysEmpty'
    BY <1>2, <1>3 DEF RetiredStaysEmpty, Retired
  <2> QED
    BY <2>1, <2>2, <2>3, <2>4 DEF Core

<1>5. CASE Heartbeat(c, m)
  <2> DEFINE rows == [sessions[m] EXCEPT ![i].status = "online"]
             p == Aggregate(sessions[m][i].role, c)
  <2>1. WithRows(m, rows) /\ participant' = [participant EXCEPT ![m] = p]
    BY <1>5 DEF Heartbeat
  <2>2. rows \in SessionRows /\ p \in ParticipantRow
    BY <1>1, <1>3 DEF SessionRows, SessionRow, ParticipantRow, Aggregate, MemberSound
  <2>3. rows[i].status = "online" /\ rows[i].conn = c
    BY <1>1, <1>3 DEF SessionRows, SessionRow, MemberSound
  <2>4. \A j \in Identities \ {i} : rows[j] = sessions[m][j]
    BY <1>1 DEF SessionRows, MemberSound
  <2>5. \A j \in Identities : Connected(connection, j, rows[j])
    BY <1>1, <2>3, <2>4 DEF Connected, MemberSound
  <2>6. Follows(rows, p)
    BY <1>3, <2>3 DEF Follows, Online, Aggregate
  <2> QED
    BY <1>4, <2>1, <2>2, <2>5, <2>6
<1>6. CASE LeaveRoom(c, m)
  <2> DEFINE rows == [sessions[m] EXCEPT ![i] = NoSession]
  <2>1. PICK newest \in Identities :
          /\ WithRows(m, rows) /\ MayBeNewest(newest, rows)
          /\ participant' = [participant EXCEPT
                               ![m] = Synced(participant[m], rows, newest, TRUE)]
    BY <1>6, <1>1 DEF LeaveRoom
  <2>2. rows \in SessionRows
    BY <1>1 DEF SessionRows, SessionRow, NoSession, Roles, MemberSound
  <2>3. \A j \in Identities : Connected(connection, j, rows[j])
    BY <1>1 DEF Connected, MemberSound, NoSession, SessionRows
  <2>4. /\ Synced(participant[m], rows, newest, TRUE) \in ParticipantRow
        /\ Follows(rows, Synced(participant[m], rows, newest, TRUE))
    BY <1>1, <2>1, <2>2, SyncedProperties DEF MemberSound
  <2> QED
    BY <1>4, <2>1, <2>2, <2>3, <2>4
<1> QED
  BY <1>5, <1>6

LEMMA DisconnectPreserves ==
  ASSUME Core, NEW c \in Connections, Disconnect(c)
  PROVE  Core'
<1> DEFINE added == UNION {Receipts(m, Idled(c, m)) : m \in Affected(c)}
           dropped == UNION {Receipts(m, sessions[m]) : m \in Affected(c)}
<1>1. /\ RoomSound /\ RevokedStayOut /\ RetiredStaysEmpty
      /\ \A m \in Members : MemberSound(m)
      /\ sessions \in [Members -> SessionRows] /\ participant \in [Members -> ParticipantRow]
  BY DEF Core
<1>2. /\ connection[c] \in Identities /\ connection' = [connection EXCEPT ![c] = "gone"]
      /\ sessions' = [m \in Members |-> Idled(c, m)]
      /\ presence' = (presence \ dropped) \union added
      /\ UNCHANGED <<room, seedGrant, grants, issued, permission, kicked, revoked, now>>
  BY DEF Disconnect, Open
<1>3. PICK newest \in [Members -> Identities] :
        /\ \A m \in Members : MayBeNewest(newest[m], Idled(c, m))
        /\ participant' = [m \in Members |->
             IF m \in Affected(c) THEN Synced(participant[m], Idled(c, m), newest[m], FALSE)
             ELSE participant[m]]
  BY DEF Disconnect
<1>4. ASSUME NEW m \in Members
      PROVE  /\ Idled(c, m) \in SessionRows
             /\ \A i \in Identities : Connected(connection', i, Idled(c, m)[i])
             /\ Online(Idled(c, m)) \subseteq Online(sessions[m])
             /\ m \notin Affected(c) => Idled(c, m) = sessions[m]
  <2>1. sessions[m] \in SessionRows
    BY <1>1
  <2>2. Idled(c, m) \in SessionRows
    BY <2>1 DEF SessionRows, SessionRow, Idled
  <2>3. ASSUME NEW i \in Identities
        PROVE  /\ Connected(connection', i, Idled(c, m)[i])
               /\ Idled(c, m)[i].status = "online" => sessions[m][i].status = "online"
    <3>1. CASE i \in Carried(c, m)
      BY <2>1, <3>1 DEF Connected, SessionRows, SessionRow, Idled
    <3>2. CASE i \notin Carried(c, m)
      <4>1. Idled(c, m)[i] = sessions[m][i] /\ sessions[m][i].conn # c
        BY <3>2 DEF Carried, Idled
      <4>2. Connected(connection, i, sessions[m][i])
        BY <1>1 DEF MemberSound
      <4>3. \A d \in Connections \ {c} : connection'[d] = connection[d]
        BY <1>1, <1>2 DEF RoomSound
      <4> QED
        BY <4>1, <4>2, <4>3 DEF Connected
    <3> QED
      BY <3>1, <3>2
  <2>4. m \notin Affected(c) => Idled(c, m) = sessions[m]
    BY <2>1 DEF SessionRows, Affected, Idled
  <2> QED
    BY <2>2, <2>3, <2>4 DEF Online
<1>5. ASSUME NEW m \in Members
      PROVE  /\ participant'[m] \in ParticipantRow
             /\ Follows(Idled(c, m), participant'[m])
             /\ (Online(Idled(c, m)) = {} /\ participant[m] = NoParticipant)
                  => participant'[m] = NoParticipant
  <2>1. CASE m \in Affected(c)
    <3>1. /\ participant'[m] = Synced(participant[m], Idled(c, m), newest[m], FALSE)
          /\ newest[m] \in Identities /\ MayBeNewest(newest[m], Idled(c, m))
      BY <1>3, <2>1
    <3> QED
      BY <1>1, <1>4, <3>1, SyncedProperties
  <2>2. CASE m \notin Affected(c)
    BY <1>1, <1>3, <1>4, <2>2 DEF MemberSound
  <2> QED
    BY <2>1, <2>2
<1>6. /\ sessions' \in [Members -> SessionRows]
      /\ participant' \in [Members -> ParticipantRow]
  BY <1>2, <1>3, <1>4, <1>5
<1>7. \A m \in Members : MemberSound(m)'
  BY <1>2, <1>4, <1>5 DEF MemberSound
<1>8. presence' \subseteq Presence
  <2>1. \A m \in Affected(c) : Receipts(m, Idled(c, m)) \subseteq Presence
    BY <1>4, ReceiptsType DEF Affected
  <2>2. added \subseteq Presence
    BY <2>1
  <2>3. presence \subseteq Presence
    BY <1>1 DEF RoomSound
  <2> QED
    <3> HIDE DEF added, dropped
    <3> QED
      BY <1>2, <2>2, <2>3
<1>9. RoomSound'
  BY <1>1, <1>2, <1>8 DEF RoomSound
<1>10. RevokedStayOut'
  BY <1>1, <1>2, <1>4, <1>5 DEF RevokedStayOut, RoomSound
<1>11. RetiredStaysEmpty'
  <2>1. SUFFICES ASSUME room \in {"closed", "purged"} PROVE RetiredStaysEmpty'
    BY <1>2 DEF RetiredStaysEmpty
  <2>2. \A m \in Members : Carried(c, m) = {}
    BY <1>1, <2>1, ConnectionsAssumption DEF RetiredStaysEmpty, Carried, NoRows, NoSession
  <2>3. Affected(c) = {}
    BY <2>2 DEF Affected
  <2>4. \A m \in Members : sessions'[m] = sessions[m] /\ participant'[m] = participant[m]
    BY <1>2, <1>3, <1>4, <2>3
  <2>5. added = {} /\ dropped = {}
    BY <2>3
  <2>6. presence' = presence
    <3> HIDE DEF added, dropped
    <3> QED
      BY <1>2, <2>5
  <2> QED
    <3> HIDE DEF added, dropped
    <3> QED
      BY <1>1, <1>2, <2>1, <2>4, <2>6 DEF RetiredStaysEmpty
<1> QED
  BY <1>6, <1>7, <1>9, <1>10, <1>11 DEF Core

\* Putting a member out, with or without a record of it.
LEMMA RemovalPreserves ==
  ASSUME Core, NEW m \in Members, Removed(m),
         UNCHANGED <<connection, room, seedGrant, issued, now>>,
         grants' \subseteq grants, kicked' \in [Members -> SUBSET Nat],
         revoked' \subseteq revoked \union {m},
         \A g \in grants' : g.member = m => m \notin revoked'
  PROVE  Core'
<1>1. RoomSound /\ RevokedStayOut /\ RetiredStaysEmpty
  BY DEF Core
<1>2. /\ (sessions \in [Members -> SessionRows])'
      /\ (participant \in [Members -> ParticipantRow])'
      /\ \A n \in Members : MemberSound(n)'
      /\ presence' \subseteq Presence
      /\ permission' \in [Members -> PermissionRow]
      /\ participant'[m] = NoParticipant /\ Online(sessions'[m]) = {}
      /\ \A n \in Members \ {m} : /\ participant'[n] = participant[n]
                                   /\ sessions'[n] = sessions[n]
  BY RemovedMember
<1>3. RoomSound'
  BY <1>1, <1>2 DEF RoomSound
<1>4. RevokedStayOut'
  <2>1. \A n \in revoked' \ {m} : n \in revoked /\ n \in Members
    BY <1>3 DEF RoomSound
  <2> QED
    BY <1>1, <1>2, <2>1 DEF RevokedStayOut
<1>5. RetiredStaysEmpty'
  <2>1. SUFFICES ASSUME room \in {"closed", "purged"} PROVE RetiredStaysEmpty'
    BY DEF RetiredStaysEmpty
  <2>2. /\ sessions' = [sessions EXCEPT ![m] = NoRows]
        /\ presence' = (presence \ Receipts(m, sessions[m])) \union Receipts(m, NoRows)
        /\ participant' = [participant EXCEPT ![m] = NoParticipant]
        /\ permission' = [permission EXCEPT ![m] = NoPermission]
    BY DEF Removed, WithRows
  <2>3. Receipts(m, NoRows) = {}
    BY DEF Receipts, Stored, NoRows, NoSession
  <2>4. /\ presence = {} /\ grants = {} /\ ~seedGrant.held
        /\ \A n \in Members : sessions[n] = NoRows /\ participant[n] = NoParticipant
                               /\ permission[n] = NoPermission
    BY <1>1, <2>1 DEF RetiredStaysEmpty
  <2>5. \A n \in Members : /\ sessions'[n] = NoRows /\ participant'[n] = NoParticipant
                           /\ permission'[n] = NoPermission
    BY <1>1, <2>2, <2>4 DEF RoomSound, Core
  <2> QED
    BY <2>1, <2>2, <2>3, <2>4, <2>5 DEF RetiredStaysEmpty
<1> QED
  BY <1>2, <1>3, <1>4, <1>5 DEF Core

LEMMA ModeratePreserves ==
  ASSUME Core, NEW c \in Connections, Moderate(c)
  PROVE  Core'
<1>1. RoomSound /\ RevokedStayOut /\ RetiredStaysEmpty
  BY DEF Core
<1>2. ASSUME NEW m \in Members, KickMember(c, m) PROVE Core'
  <2>1. kicked' \in [Members -> SUBSET Nat]
    BY <1>1, <1>2 DEF KickMember, RoomSound
  <2>2. \A g \in grants' : g.member = m => m \notin revoked'
    BY <1>1, <1>2 DEF KickMember, RevokedStayOut
  <2> QED
    BY <1>2, <2>1, <2>2, RemovalPreserves DEF KickMember
<1>3. ASSUME NEW m \in Members, RemoveIdleMember(c, m) PROVE Core'
  <2>1. \A g \in grants' : g.member = m => m \notin revoked'
    BY <1>1, <1>3 DEF RemoveIdleMember, RevokedStayOut
  <2> QED
    BY <1>1, <1>3, <2>1, RemovalPreserves DEF RemoveIdleMember, RoomSound
<1>4. ASSUME NEW m \in Members, NEW rights \in SUBSET Rights,
             SetMemberPermissions(c, m, rights)
      PROVE  Core'
  <2>1. Granted(m, rights) \in SUBSET Rights
    BY DEF Granted, Rights
  <2>2. RoomSound'
    BY <1>1, <1>4, <2>1 DEF SetMemberPermissions, RoomSound, PermissionRow
  <2>3. RevokedStayOut' /\ RetiredStaysEmpty'
    BY <1>1, <1>4 DEF SetMemberPermissions, IsHost, RevokedStayOut, RetiredStaysEmpty
  <2>4. /\ (sessions \in [Members -> SessionRows])'
        /\ (participant \in [Members -> ParticipantRow])'
        /\ \A n \in Members : MemberSound(n)'
    BY <1>4, Untouched DEF SetMemberPermissions
  <2> QED
    BY <2>2, <2>3, <2>4 DEF Core
<1> QED
  BY <1>2, <1>3, <1>4 DEF Moderate

LEMMA RevokePreserves ==
  ASSUME Core, NEW m \in Members, RevokeMembership(m)
  PROVE  Core'
<1>1. RoomSound /\ RevokedStayOut /\ RetiredStaysEmpty /\ MemberSound(m)
  BY DEF Core
<1>2. /\ grants' = {g \in grants : g.member # m} /\ revoked' = revoked \union {m}
      /\ kicked' = [kicked EXCEPT ![m] = {now}]
      /\ UNCHANGED <<connection, room, seedGrant, issued, now>>
  BY DEF RevokeMembership, GrantsAfterRevoking
<1>3. kicked' \in [Members -> SUBSET Nat]
  BY <1>1, <1>2 DEF RoomSound
<1>4. CASE participant[m] # NoParticipant
  <2>1. Removed(m)
    BY <1>4 DEF RevokeMembership
  <2> QED
    BY <1>2, <1>3, <2>1, RemovalPreserves
<1>5. CASE participant[m] = NoParticipant
  <2>1. UNCHANGED <<sessions, presence, participant, permission>>
    BY <1>5 DEF RevokeMembership
  <2>2. Online(sessions[m]) = {}
    BY <1>1, <1>5 DEF MemberSound, Follows, NoParticipant
  <2>3. RoomSound'
    BY <1>1, <1>2, <1>3, <2>1 DEF RoomSound
  <2>4. RevokedStayOut' /\ RetiredStaysEmpty'
    BY <1>1, <1>2, <1>5, <2>1, <2>2 DEF RevokedStayOut, RetiredStaysEmpty
  <2> QED
    BY <1>2, <2>1, <2>3, <2>4, Untouched DEF Core
<1> QED
  BY <1>4, <1>5

LEMMA RetirePreserves ==
  ASSUME Core, NEW purge \in BOOLEAN, RetireRoom(purge)
  PROVE  Core'
<1>1. RoomSound
  BY DEF Core
<1>2. /\ sessions' = [m \in Members |-> NoRows] /\ presence' = {} /\ grants' = {}
      /\ participant' = [m \in Members |-> NoParticipant]
      /\ permission' = [m \in Members |-> NoPermission]
      /\ seedGrant' = [held |-> FALSE, expires |-> 0]
      /\ UNCHANGED <<connection, issued, now>>
      /\ room' \in {"closed", "purged"}
      /\ kicked' \in {kicked, [m \in Members |-> {}]} /\ revoked' \in {revoked, {}}
  BY DEF RetireRoom
<1>3. NoRows \in SessionRows /\ Online(NoRows) = {} /\ NoParticipant \in ParticipantRow
  BY DEF NoRows, NoSession, SessionRows, SessionRow, Roles, Online, NoParticipant, ParticipantRow
<1>4. \A m \in Members : MemberSound(m)'
  BY <1>2, <1>3 DEF MemberSound, Connected, Follows, NoRows, NoSession, NoParticipant
<1>5. RoomSound'
  BY <1>1, <1>2 DEF RoomSound, NoPermission, PermissionRow
<1>6. RevokedStayOut' /\ RetiredStaysEmpty'
  BY <1>2, <1>3, <1>5 DEF RevokedStayOut, RetiredStaysEmpty, RoomSound
<1> QED
  BY <1>2, <1>3, <1>4, <1>5, <1>6 DEF Core

----------------------------------------------------------------------------
LEMMA NextPreserves == Core /\ [Next]_vars => Core'
<1> SUFFICES ASSUME Core, [Next]_vars PROVE Core'
  OBVIOUS
<1>1. ASSUME NEW c \in Connections, Enter(c) PROVE Core'
  <2>1. RoomSound /\ 1..issued \subseteq Nat
    BY DEF Core, RoomSound
  <2> QED
    BY <1>1, <2>1, ConnectPreserves, JoinPreserves DEF Enter
<1>2. ASSUME NEW c \in Connections, Stay(c) PROVE Core'
  BY <1>2, StayPreserves DEF Stay
<1>3. ASSUME NEW c \in Connections, Disconnect(c) PROVE Core'
  BY <1>3, DisconnectPreserves
<1>4. ASSUME NEW c \in Connections, Moderate(c) PROVE Core'
  BY <1>4, ModeratePreserves
<1>5. CASE Trusted
  BY <1>5, GrantingPreserves, RevokePreserves, RetirePreserves DEF Trusted
<1>6. CASE Tick
  BY <1>6, GrantingPreserves
<1>7. CASE UNCHANGED vars
  <2>1. RoomSound' /\ RevokedStayOut' /\ RetiredStaysEmpty'
    BY <1>7 DEF vars, Core, RoomSound, RevokedStayOut, RetiredStaysEmpty
  <2> QED
    BY <1>7, <2>1, Untouched DEF vars, Core
<1> QED
  BY <1>1, <1>2, <1>3, <1>4, <1>5, <1>6, <1>7 DEF Next

\* The inductive invariant holds in every reachable state, for any members,
\* browsers, connections and limits.
THEOREM CoreInvariant == Spec => []Core
BY InitEstablishes, NextPreserves, PTL DEF Spec

\* Every variable keeps its type.
THEOREM TypeCorrect == Spec => []TypeOK
<1>1. Core => TypeOK
  BY DEF Core, RoomSound, SessionRows, TypeOK
<1> QED
  BY <1>1, CoreInvariant, PTL

\* No session stays online without its own browser's open connection.
THEOREM NoGhosts == Spec => []OnlineIsConnected
<1>1. TypeOK /\ Core => OnlineIsConnected
  BY Connectedness DEF Core, MemberSound
<1> QED
  BY <1>1, TypeCorrect, CoreInvariant, PTL

\* The aggregate row of a member is online exactly while one of its browsers is.
THEOREM AggregateFollows == Spec => []ParticipantFollowsSessions
<1>1. Core => ParticipantFollowsSessions
  BY Following DEF Core, MemberSound
<1> QED
  BY <1>1, CoreInvariant, PTL

\* No grant, connection or reconnection brings a revoked member back.
THEOREM RevocationHolds == Spec => []RevokedStayOut
<1>1. Core => RevokedStayOut
  BY DEF Core
<1> QED
  BY <1>1, CoreInvariant, PTL

\* Nothing of a retired room's live membership is left or comes back.
THEOREM RetirementHolds == Spec => []RetiredStaysEmpty
<1>1. Core => RetiredStaysEmpty
  BY DEF Core
<1> QED
  BY <1>1, CoreInvariant, PTL

----------------------------------------------------------------------------
(* Admissions: which browser each admission opened, and its receipt.       *)

\* Admissions are handed out once: grants and session rows carry different ones,
\* and an absent session is no session.
AdmissionsApart ==
  /\ \A g \in grants : g.admission \in 1..issued
  /\ \A g, k \in grants : g.admission = k.admission => g = k
  /\ \A m \in Members, i \in Identities :
       sessions[m][i] = NoSession
         \/ (sessions[m][i].status # "none" /\ sessions[m][i].admission \in 1..issued)
  /\ \A m \in Members, i \in Identities : \A g \in grants :
       g.admission # sessions[m][i].admission
  /\ \A m, n \in Members, i, j \in Identities :
       (sessions[m][i] # NoSession /\ sessions[m][i].admission = sessions[n][j].admission)
         => m = n /\ i = j

\* A row that is gone, or still there under its admission.
Kept(old, new) ==
  new = NoSession \/ (/\ old # NoSession /\ new.status # "none"
                      /\ new.admission = old.admission)

\* Reducers that admit nobody.
LEMMA NobodyAdmitted ==
  ASSUME AdmissionsApart, grants' \subseteq grants, issued' = issued,
         \A m \in Members, i \in Identities : Kept(sessions[m][i], sessions'[m][i])
  PROVE  AdmissionsApart'
<1>1. \A m \in Members, i \in Identities :
        \/ sessions'[m][i] = NoSession
        \/ /\ sessions[m][i] # NoSession /\ sessions'[m][i].status # "none"
           /\ sessions'[m][i].admission = sessions[m][i].admission
  BY DEF Kept
<1>2. \A g \in grants : g \in grants => g.admission \in 1..issued /\ g.admission # 0
  BY DEF AdmissionsApart
<1>3. NoSession.admission = 0 /\ 0 \notin 1..issued
  BY DEF NoSession
<1> QED
  BY <1>1, <1>2, <1>3 DEF AdmissionsApart

LEMMA UntouchedRowsKept ==
  ASSUME Core, AdmissionsApart, NEW m \in Members, NEW i \in Identities,
         sessions'[m][i] = sessions[m][i]
  PROVE  Kept(sessions[m][i], sessions'[m][i])
BY DEF AdmissionsApart, Kept

\* A reducer that writes the rows of one member, each kept or gone.
LEMMA OneMemberKept ==
  ASSUME Core, AdmissionsApart, NEW m \in Members, NEW rows, WithRows(m, rows),
         \A i \in Identities : Kept(sessions[m][i], rows[i])
  PROVE  \A n \in Members, i \in Identities : Kept(sessions[n][i], sessions'[n][i])
<1>1. sessions' = [sessions EXCEPT ![m] = rows]
  BY DEF WithRows
<1>2. \A n \in Members : sessions'[n] = IF n = m THEN rows ELSE sessions[n]
  BY <1>1 DEF Core
<1> QED
  BY <1>2, UntouchedRowsKept

\* Nobody can be on a connection without a session there.
LEMMA CurrentIsStored ==
  ASSUME Core, NEW c \in Connections, NEW m \in Members, IsCurrent(c, m)
  PROVE  sessions[m][connection[c]] # NoSession
BY CurrentIsOnline DEF NoSession

LEMMA JoinKeepsApart ==
  ASSUME Core, AdmissionsApart, NEW c \in Connections, NEW m \in Members, NEW a \in 1..issued,
         JoinRoom(c, m, a)
  PROVE  AdmissionsApart'
<1> DEFINE i == connection[c]
           row == [status |-> "online", admission |-> a, role |-> ResolvedRole(m), conn |-> c]
           rows == Admitted(sessions[m], i, row)
<1>1. i \in Identities /\ issued' = issued /\ sessions \in [Members -> SessionRows]
  BY DEF JoinRoom, Open, Core
<1>2. CASE Readmitted(c, m, a)
  <2>1. WithRows(m, rows) /\ grants' = grants
    BY <1>2 DEF JoinRoom
  <2>2. IsCurrent(c, m) /\ sessions[m][i].admission = a
    BY <1>2 DEF Readmitted
  <2>3. Kept(sessions[m][i], row)
    BY <2>2, CurrentIsStored DEF Kept
  <2>4. \A j \in Identities : Kept(sessions[m][j], rows[j])
    BY <1>1, <2>3 DEF Admitted, SessionRows, Kept, AdmissionsApart
  <2> QED
    BY <1>1, <2>1, <2>4, OneMemberKept, NobodyAdmitted
<1>3. CASE ~Readmitted(c, m, a) /\ ValidGrants(c, m, a) # {}
  <2>1. /\ sessions' = [sessions EXCEPT ![m] = rows]
        /\ grants' = grants \ ValidGrants(c, m, a)
    BY <1>3 DEF JoinRoom, WithRows
  <2>2. PICK g \in grants : g.admission = a /\ g \in ValidGrants(c, m, a)
    BY <1>3 DEF ValidGrants, Unexpired
  <2>3. \A k \in grants' : k \in grants /\ k.admission # a
    BY <2>1, <2>2 DEF AdmissionsApart
  <2>4. \A n \in Members, j \in Identities :
          sessions'[n][j] = IF n = m /\ j = i THEN row ELSE sessions[n][j]
    BY <1>1, <2>1 DEF Admitted, SessionRows
  <2>5. \A n \in Members, j \in Identities : sessions[n][j].admission # a
    BY <2>2 DEF AdmissionsApart
  <2>6. row.admission = a /\ row.status # "none"
    OBVIOUS
  <2> HIDE DEF row, rows, i
  <2>7. AdmissionsApart!1' /\ AdmissionsApart!2'
    BY <1>1, <2>3 DEF AdmissionsApart
  <2>8. AdmissionsApart!3'
    BY <1>1, <2>4, <2>6 DEF AdmissionsApart
  <2>9. AdmissionsApart!4'
    BY <1>1, <2>3, <2>4, <2>6 DEF AdmissionsApart
  <2>10. AdmissionsApart!5'
    BY <1>1, <2>4, <2>5, <2>6 DEF AdmissionsApart
  <2> QED
    BY <2>7, <2>8, <2>9, <2>10 DEF AdmissionsApart
<1>4. CASE ~Readmitted(c, m, a) /\ ValidGrants(c, m, a) = {}
  <2>1. sessions' = sessions /\ grants' \subseteq grants
    BY <1>4 DEF JoinRoom
  <2> QED
    BY <1>1, <2>1, UntouchedRowsKept, NobodyAdmitted
<1> QED
  BY <1>2, <1>3, <1>4

LEMMA IssueKeepsApart ==
  ASSUME Core, AdmissionsApart, NEW m \in Members, NEW i \in Identities, IssueGrant(m, i)
  PROVE  AdmissionsApart'
<1> DEFINE new == [admission |-> issued + 1, member |-> m, identity |-> i,
                   expires |-> now + GrantLife]
<1>1. sessions' = sessions /\ issued \in Nat /\ Unexpired \subseteq grants
  BY DEF IssueGrant, Unexpired, Core, RoomSound
<1>2. CASE MayIssue(m)
  <2>1. grants' = Unexpired \union {new} /\ issued' = issued + 1
    BY <1>2 DEF IssueGrant
  <2>2. new.admission = issued + 1
    OBVIOUS
  <2>3. 1..issued \subseteq 1..issued' /\ issued + 1 \in 1..issued' /\ issued + 1 \notin 1..issued
    BY <1>1, <2>1
  <2>4. \A n \in Members, j \in Identities : sessions[n][j].admission # issued + 1
    BY <1>1, <2>3 DEF AdmissionsApart, NoSession
  <2>5. \A g \in grants : g.admission # issued + 1
    BY <2>3 DEF AdmissionsApart
  <2> HIDE DEF new
  <2> QED
    BY <1>1, <2>1, <2>2, <2>3, <2>4, <2>5 DEF AdmissionsApart
<1>3. CASE ~MayIssue(m)
  <2>1. grants' \subseteq grants /\ issued' = issued
    BY <1>1, <1>3 DEF IssueGrant
  <2> QED
    BY <1>1, <2>1, UntouchedRowsKept, NobodyAdmitted
<1> QED
  BY <1>2, <1>3

\* Putting a member out keeps admissions apart.
LEMMA RemovalKeepsApart ==
  ASSUME Core, AdmissionsApart, NEW m \in Members, Removed(m),
         grants' \subseteq grants, issued' = issued
  PROVE  AdmissionsApart'
<1>1. WithRows(m, NoRows) /\ \A i \in Identities : NoRows[i] = NoSession
  BY DEF Removed, NoRows
<1>2. \A i \in Identities : Kept(sessions[m][i], NoRows[i])
  BY <1>1 DEF Kept
<1> QED
  BY <1>1, <1>2, OneMemberKept, NobodyAdmitted

LEMMA StayKeepsApart ==
  ASSUME Core, AdmissionsApart, NEW c \in Connections, Stay(c)
  PROVE  AdmissionsApart'
<1>1. sessions \in [Members -> SessionRows]
  BY DEF Core
<1>2. ASSUME NEW m \in Members, Heartbeat(c, m) PROVE AdmissionsApart'
  <2> DEFINE i == connection[c]
             rows == [sessions[m] EXCEPT ![i].status = "online"]
  <2>1. WithRows(m, rows) /\ grants' = grants /\ issued' = issued /\ IsCurrent(c, m)
    BY <1>2 DEF Heartbeat
  <2>2. i \in Identities /\ sessions[m] \in SessionRows /\ sessions[m][i] # NoSession
    BY <1>1, <2>1, CurrentIsStored DEF IsCurrent, Open
  <2>3. /\ rows[i].status = "online" /\ rows[i].admission = sessions[m][i].admission
        /\ \A j \in Identities \ {i} : rows[j] = sessions[m][j]
    BY <2>2 DEF SessionRows, SessionRow
  <2>4. \A j \in Identities : Kept(sessions[m][j], rows[j])
    BY <2>2, <2>3 DEF Kept, AdmissionsApart
  <2> QED
    BY <2>1, <2>4, OneMemberKept, NobodyAdmitted
<1>3. ASSUME NEW m \in Members, LeaveRoom(c, m) PROVE AdmissionsApart'
  <2> DEFINE rows == [sessions[m] EXCEPT ![connection[c]] = NoSession]
  <2>1. WithRows(m, rows) /\ grants' = grants /\ issued' = issued
    BY <1>3 DEF LeaveRoom
  <2>2. \A j \in Identities : rows[j] \in {NoSession, sessions[m][j]}
    BY <1>1 DEF SessionRows
  <2>3. \A j \in Identities : Kept(sessions[m][j], rows[j])
    BY <2>2 DEF Kept, AdmissionsApart
  <2> QED
    BY <2>1, <2>3, OneMemberKept, NobodyAdmitted
<1> QED
  BY <1>2, <1>3 DEF Stay

LEMMA DisconnectKeepsApart ==
  ASSUME Core, AdmissionsApart, NEW c \in Connections, Disconnect(c)
  PROVE  AdmissionsApart'
<1>1. /\ sessions \in [Members -> SessionRows]
      /\ \A m \in Members, i \in Identities : Connected(connection, i, sessions[m][i])
      /\ sessions' = [m \in Members |-> Idled(c, m)]
      /\ grants' = grants /\ issued' = issued
  BY DEF Core, MemberSound, Disconnect
<1>2. ASSUME NEW m \in Members, NEW i \in Identities
      PROVE  Kept(sessions[m][i], sessions'[m][i])
  <2>1. sessions'[m][i] = IF i \in Carried(c, m)
                          THEN [sessions[m][i] EXCEPT !.status = "idle", !.conn = NoConnection]
                          ELSE sessions[m][i]
    BY <1>1 DEF Idled
  <2>2. CASE i \in Carried(c, m)
    <3>1. sessions[m][i].conn = c /\ c # NoConnection /\ sessions[m][i] \in SessionRow
      BY <1>1, <2>2, ConnectionsAssumption DEF Carried, SessionRows
    <3>2. sessions[m][i] # NoSession
      BY <3>1 DEF NoSession
    <3> QED
      BY <2>1, <2>2, <3>1, <3>2 DEF Kept, SessionRow
  <2>3. CASE i \notin Carried(c, m)
    BY <2>1, <2>3, UntouchedRowsKept
  <2> QED
    BY <2>2, <2>3
<1> QED
  BY <1>1, <1>2, NobodyAdmitted

LEMMA NextKeepsApart == Core /\ AdmissionsApart /\ [Next]_vars => AdmissionsApart'
<1> SUFFICES ASSUME Core, AdmissionsApart, [Next]_vars PROVE AdmissionsApart'
  OBVIOUS
<1>1. ASSUME sessions' = sessions, grants' \subseteq grants, issued' = issued
      PROVE  AdmissionsApart'
  BY <1>1, UntouchedRowsKept, NobodyAdmitted
<1>2. ASSUME NEW c \in Connections, Enter(c) PROVE AdmissionsApart'
  BY <1>1, <1>2, JoinKeepsApart DEF Enter, Connect
<1>3. ASSUME NEW c \in Connections, Stay(c) PROVE AdmissionsApart'
  BY <1>3, StayKeepsApart
<1>4. ASSUME NEW c \in Connections, Disconnect(c) PROVE AdmissionsApart'
  BY <1>4, DisconnectKeepsApart
<1>5. ASSUME NEW c \in Connections, Moderate(c) PROVE AdmissionsApart'
  <2>1. ASSUME NEW m \in Members, KickMember(c, m) PROVE AdmissionsApart'
    BY <2>1, RemovalKeepsApart DEF KickMember
  <2>2. ASSUME NEW m \in Members, RemoveIdleMember(c, m) PROVE AdmissionsApart'
    BY <2>2, RemovalKeepsApart DEF RemoveIdleMember
  <2>3. ASSUME NEW m \in Members, NEW rights \in SUBSET Rights,
               SetMemberPermissions(c, m, rights)
        PROVE  AdmissionsApart'
    BY <1>1, <2>3 DEF SetMemberPermissions
  <2> QED
    BY <1>5, <2>1, <2>2, <2>3 DEF Moderate
<1>6. CASE Trusted
  <2>1. ASSUME NEW m \in Members, RevokeMembership(m) PROVE AdmissionsApart'
    <3>1. grants' \subseteq grants /\ issued' = issued
      BY <2>1 DEF RevokeMembership, GrantsAfterRevoking
    <3> QED
      BY <1>1, <2>1, <3>1, RemovalKeepsApart DEF RevokeMembership
  <2>2. ASSUME NEW purge \in BOOLEAN, RetireRoom(purge) PROVE AdmissionsApart'
    <3>1. /\ grants' = {} /\ issued' = issued
          /\ \A m \in Members, i \in Identities : sessions'[m][i] = NoSession
      BY <2>2 DEF RetireRoom, NoRows
    <3> QED
      BY <3>1, NobodyAdmitted DEF Kept
  <2> QED
    BY <1>1, <1>6, <2>1, <2>2, IssueKeepsApart DEF Trusted, IssueSeedGrant, SeedRoom
<1>7. CASE Tick \/ UNCHANGED vars
  BY <1>1, <1>7 DEF Tick, vars
<1> QED
  BY <1>2, <1>3, <1>4, <1>5, <1>6, <1>7 DEF Next

----------------------------------------------------------------------------
(* The public receipts.                                                    *)

Mirrored == \A r : r \in presence <=> \E m \in Members : r \in Receipts(m, sessions[m])

\* A receipt names its member.
LEMMA ReceiptsNameTheirMember ==
  ASSUME NEW m, NEW rows, NEW r \in Receipts(m, rows)
  PROVE  r.member = m
BY DEF Receipts

LEMMA OneMemberMirrored ==
  ASSUME Core, Mirrored, NEW m \in Members, NEW rows, WithRows(m, rows)
  PROVE  Mirrored'
<1>1. /\ presence' = (presence \ Receipts(m, sessions[m])) \union Receipts(m, rows)
      /\ \A n \in Members : sessions'[n] = IF n = m THEN rows ELSE sessions[n]
  BY DEF WithRows, Core
<1>2. \A n \in Members : sessions'[n] # sessions[n] => n = m
  BY <1>1
<1>3. ASSUME NEW r PROVE r \in presence' <=> \E n \in Members : r \in Receipts(n, sessions'[n])
  <2>1. ASSUME NEW n \in Members, n # m, r \in Receipts(n, sessions[n])
        PROVE  r \notin Receipts(m, sessions[m])
    BY <2>1, ReceiptsNameTheirMember
  <2>2. ASSUME r \in presence' PROVE \E n \in Members : r \in Receipts(n, sessions'[n])
    <3>1. CASE r \in Receipts(m, rows)
      BY <1>1, <3>1
    <3>2. CASE r \notin Receipts(m, rows)
      <4>1. r \in presence /\ r \notin Receipts(m, sessions[m])
        BY <1>1, <2>2, <3>2
      <4>2. PICK n \in Members : r \in Receipts(n, sessions[n])
        BY <4>1 DEF Mirrored
      <4>3. n # m
        BY <4>1, <4>2
      <4>4. sessions'[n] = sessions[n]
        BY <1>2, <4>3
      <4> QED
        BY <4>2, <4>4
    <3> QED
      BY <3>1, <3>2
  <2>3. ASSUME NEW n \in Members, r \in Receipts(n, sessions'[n]) PROVE r \in presence'
    <3>1. CASE n = m
      BY <1>1, <2>3, <3>1
    <3>2. CASE n # m
      <4>1. r \in Receipts(n, sessions[n])
        BY <1>2, <2>3, <3>2
      <4>2. r \in presence
        BY <4>1 DEF Mirrored
      <4> QED
        BY <1>1, <2>1, <3>2, <4>1, <4>2
    <3> QED
      BY <3>1, <3>2
  <2> QED
    BY <2>2, <2>3
<1> QED
  BY <1>3 DEF Mirrored

\* A disconnect rewrites the receipts of every member it reaches.
LEMMA DisconnectMirrored ==
  ASSUME Core, Mirrored, NEW c \in Connections, Disconnect(c)
  PROVE  Mirrored'
<1> DEFINE hit == {m \in Members : Carried(c, m) # {}}
<1>1. /\ \A m \in Members : sessions'[m] = Idled(c, m)
      /\ presence' = (presence \ UNION {Receipts(m, sessions[m]) : m \in hit})
                     \union (UNION {Receipts(m, Idled(c, m)) : m \in hit})
      /\ sessions \in [Members -> SessionRows]
  BY DEF Disconnect, Affected, Core
<1>2. ASSUME NEW m \in Members, m \notin hit PROVE sessions'[m] = sessions[m]
  <2>1. Idled(c, m) = [i \in Identities |-> sessions[m][i]]
    BY <1>2 DEF Idled
  <2> QED
    BY <1>1, <2>1 DEF SessionRows
<1>3. ASSUME NEW r PROVE r \in presence' <=> \E n \in Members : r \in Receipts(n, sessions'[n])
  <2>1. ASSUME NEW n \in Members \ hit, r \in Receipts(n, sessions[n]), NEW m \in hit
        PROVE  r \notin Receipts(m, sessions[m])
    BY <2>1, ReceiptsNameTheirMember
  <2>2. ASSUME r \in presence' PROVE \E n \in Members : r \in Receipts(n, sessions'[n])
    <3>1. CASE \E m \in hit : r \in Receipts(m, Idled(c, m))
      BY <1>1, <3>1
    <3>2. CASE ~\E m \in hit : r \in Receipts(m, Idled(c, m))
      <4>1. r \in presence /\ ~\E m \in hit : r \in Receipts(m, sessions[m])
        BY <1>1, <2>2, <3>2
      <4>2. PICK n \in Members : r \in Receipts(n, sessions[n])
        BY <4>1 DEF Mirrored
      <4> QED
        BY <1>2, <4>1, <4>2
    <3> QED
      BY <3>1, <3>2
  <2>3. ASSUME NEW n \in Members, r \in Receipts(n, sessions'[n]) PROVE r \in presence'
    <3>1. CASE n \in hit
      BY <1>1, <2>3, <3>1
    <3>2. CASE n \notin hit
      <4>1. r \in Receipts(n, sessions[n])
        BY <1>2, <2>3, <3>2
      <4>2. r \in presence
        BY <4>1 DEF Mirrored
      <4>3. r \notin UNION {Receipts(m, sessions[m]) : m \in hit}
        BY <2>1, <3>2, <4>1
      <4> QED
        BY <1>1, <4>2, <4>3
    <3> QED
      BY <3>1, <3>2
  <2> QED
    BY <2>2, <2>3
<1> QED
  BY <1>3 DEF Mirrored

LEMMA NextKeepsMirror == Core /\ Mirrored /\ [Next]_vars => Mirrored'
<1> SUFFICES ASSUME Core, Mirrored, [Next]_vars PROVE Mirrored'
  OBVIOUS
<1>1. ASSUME UNCHANGED <<sessions, presence>> PROVE Mirrored'
  BY <1>1 DEF Mirrored
<1>2. ASSUME NEW m \in Members, Removed(m) PROVE Mirrored'
  BY <1>2, OneMemberMirrored DEF Removed
<1>3. ASSUME NEW c \in Connections, Enter(c) PROVE Mirrored'
  <2>1. ASSUME NEW m \in Members, NEW a \in 1..issued, JoinRoom(c, m, a) PROVE Mirrored'
    BY <1>1, <2>1, OneMemberMirrored DEF JoinRoom
  <2> QED
    BY <1>1, <1>3, <2>1 DEF Enter, Connect
<1>4. ASSUME NEW c \in Connections, Stay(c) PROVE Mirrored'
  BY <1>4, OneMemberMirrored DEF Stay, Heartbeat, LeaveRoom
<1>5. ASSUME NEW c \in Connections, Disconnect(c) PROVE Mirrored'
  BY <1>5, DisconnectMirrored
<1>6. ASSUME NEW c \in Connections, Moderate(c) PROVE Mirrored'
  BY <1>1, <1>2, <1>6 DEF Moderate, KickMember, RemoveIdleMember, SetMemberPermissions
<1>7. CASE Trusted
  <2>1. ASSUME NEW purge \in BOOLEAN, RetireRoom(purge) PROVE Mirrored'
    <3>1. presence' = {} /\ \A m \in Members : sessions'[m] = NoRows
      BY <2>1 DEF RetireRoom
    <3>2. \A m \in Members : Receipts(m, NoRows) = {}
      BY DEF Receipts, Stored, NoRows, NoSession
    <3> QED
      BY <3>1, <3>2 DEF Mirrored
  <2>2. ASSUME NEW m \in Members, RevokeMembership(m) PROVE Mirrored'
    BY <1>1, <1>2, <2>2 DEF RevokeMembership
  <2> QED
    BY <1>1, <1>7, <2>1, <2>2 DEF Trusted, IssueSeedGrant, SeedRoom, IssueGrant
<1>8. CASE Tick \/ UNCHANGED vars
  BY <1>1, <1>8 DEF Tick, vars
<1> QED
  BY <1>3, <1>4, <1>5, <1>6, <1>7, <1>8 DEF Next

\* The public receipts are exactly those of the private sessions, and an admission
\* is the admission of one browser of one member.
THEOREM ReceiptsMirrored == Spec => []ReceiptsMirrorSessions
<1>1. Init => AdmissionsApart /\ Mirrored
  <2>1. \A m \in Members : Receipts(m, NoRows) = {}
    BY DEF Receipts, Stored, NoRows, NoSession
  <2>2. Init => /\ presence = {} /\ grants = {}
                /\ \A m \in Members : sessions[m] = NoRows
                /\ \A m \in Members, i \in Identities : sessions[m][i] = NoSession
    BY DEF Init, NoRows
  <2> QED
    BY <2>1, <2>2 DEF AdmissionsApart, Mirrored
<1>2. AdmissionsApart /\ Mirrored => ReceiptsMirrorSessions
  <2> SUFFICES ASSUME AdmissionsApart, Mirrored PROVE ReceiptsMirrorSessions
    OBVIOUS
  <2>1. presence = UNION {Receipts(m, sessions[m]) : m \in Members}
    BY DEF Mirrored
  <2> QED
    BY <2>1 DEF AdmissionsApart, ReceiptsMirrorSessions
<1> QED
  BY <1>1, <1>2, CoreInvariant, NextKeepsApart, NextKeepsMirror, PTL DEF Spec

----------------------------------------------------------------------------
(* What a step may do to one browser's session.                            *)

Refreshed(old, new) ==
  old.status = "online" /\ new.status = "online" /\ new.admission = old.admission

\* The connection that carried the session has just been closed.
Dropped(old, new) ==
  /\ old.status = "online" /\ new.status = "idle" /\ new.admission = old.admission
  /\ connection'[old.conn] = "gone"

\* A grant for this browser has just been used up.
Opened(m, i, new) ==
  /\ new.status = "online"
  /\ \E g \in grants : g.admission = new.admission /\ g.member = m /\ g.identity = i
  /\ \A g \in grants' : g.admission # new.admission

RowStep(m, i, old, new) ==
  new \in {old, NoSession} \/ Refreshed(old, new) \/ Dropped(old, new) \/ Opened(m, i, new)

RowsStep == \A n \in Members, j \in Identities : RowStep(n, j, sessions[n][j], sessions'[n][j])

\* A reducer that writes the row of one browser of one member.
LEMMA OneRowStep ==
  ASSUME Core, NEW m \in Members, NEW i \in Identities, NEW row,
         sessions' = [sessions EXCEPT ![m] = [sessions[m] EXCEPT ![i] = row]],
         RowStep(m, i, sessions[m][i], row)
  PROVE  RowsStep
<1>1. \A n \in Members, j \in Identities :
        sessions'[n][j] = IF n = m /\ j = i THEN row ELSE sessions[n][j]
  BY DEF Core, SessionRows
<1>2. ASSUME NEW n \in Members, NEW j \in Identities
      PROVE  RowStep(n, j, sessions[n][j], sessions'[n][j])
  <2>1. CASE n = m /\ j = i
    BY <1>1, <2>1
  <2>2. CASE ~(n = m /\ j = i)
    BY <1>1, <2>2 DEF RowStep
  <2> QED
    BY <2>1, <2>2
<1> QED
  BY <1>2 DEF RowsStep

LEMMA JoinRowStep ==
  ASSUME Core, AdmissionsApart, NEW c \in Connections, NEW m \in Members, NEW a \in 1..issued,
         JoinRoom(c, m, a)
  PROVE  RowsStep
<1> DEFINE i == connection[c]
           row == [status |-> "online", admission |-> a, role |-> ResolvedRole(m), conn |-> c]
<1>1. i \in Identities
  BY DEF JoinRoom, Open
<1>2. CASE Readmitted(c, m, a)
  <2>1. sessions' = [sessions EXCEPT ![m] = [sessions[m] EXCEPT ![i] = row]]
    BY <1>2 DEF JoinRoom, WithRows, Admitted
  <2>2. IsCurrent(c, m) /\ sessions[m][i].admission = a
    BY <1>2 DEF Readmitted
  <2>3. Refreshed(sessions[m][i], row)
    BY <2>2, CurrentIsOnline DEF Refreshed
  <2> QED
    BY <1>1, <2>1, <2>3, OneRowStep DEF RowStep
<1>3. CASE ~Readmitted(c, m, a) /\ ValidGrants(c, m, a) # {}
  <2>1. /\ sessions' = [sessions EXCEPT ![m] = [sessions[m] EXCEPT ![i] = row]]
        /\ grants' = grants \ ValidGrants(c, m, a)
    BY <1>3 DEF JoinRoom, WithRows, Admitted
  <2>2. PICK g \in grants : /\ g.admission = a /\ g.member = m /\ g.identity = i
                            /\ g \in ValidGrants(c, m, a)
    BY <1>3 DEF ValidGrants, Unexpired
  <2>3. \A k \in grants' : k.admission # a
    BY <2>1, <2>2 DEF AdmissionsApart
  <2>4. Opened(m, i, row)
    BY <2>2, <2>3 DEF Opened
  <2> QED
    BY <1>1, <2>1, <2>4, OneRowStep DEF RowStep
<1>4. CASE ~Readmitted(c, m, a) /\ ValidGrants(c, m, a) = {}
  <2>1. sessions' = sessions
    BY <1>4 DEF JoinRoom
  <2> QED
    BY <2>1 DEF RowsStep, RowStep
<1> QED
  BY <1>2, <1>3, <1>4

LEMMA StayRowStep ==
  ASSUME Core, NEW c \in Connections, Stay(c)
  PROVE  RowsStep
<1> DEFINE i == connection[c]
<1>1. sessions \in [Members -> SessionRows]
  BY DEF Core
<1>2. ASSUME NEW m \in Members, Heartbeat(c, m)
      PROVE  RowsStep
  <2> DEFINE row == [sessions[m][i] EXCEPT !.status = "online"]
  <2>1. sessions' = [sessions EXCEPT ![m] = [sessions[m] EXCEPT ![i] = row]]
    BY <1>2 DEF Heartbeat, WithRows
  <2>2. IsCurrent(c, m) /\ i \in Identities
    BY <1>2 DEF Heartbeat, IsCurrent, Open
  <2>3. sessions[m][i] \in SessionRow
    BY <1>1, <2>2 DEF SessionRows
  <2>4. row.status = "online" /\ row.admission = sessions[m][i].admission
    BY <2>3 DEF SessionRow
  <2>5. Refreshed(sessions[m][i], row)
    <3>1. sessions[m][i].status = "online"
      BY <2>2, CurrentIsOnline
    <3> QED
      BY <2>4, <3>1 DEF Refreshed
  <2> HIDE DEF row
  <2> QED
    BY <2>1, <2>2, <2>5, OneRowStep DEF RowStep
<1>3. ASSUME NEW m \in Members, LeaveRoom(c, m)
      PROVE  RowsStep
  <2>1. sessions' = [sessions EXCEPT ![m] = [sessions[m] EXCEPT ![i] = NoSession]]
    BY <1>3 DEF LeaveRoom, WithRows
  <2>2. i \in Identities
    BY <1>3 DEF LeaveRoom, IsCurrent, Open
  <2> QED
    BY <2>1, <2>2, OneRowStep DEF RowStep
<1> QED
  BY <1>2, <1>3 DEF Stay

LEMMA DisconnectRowStep ==
  ASSUME Core, NEW c \in Connections, Disconnect(c)
  PROVE  RowsStep
<1>1. /\ sessions \in [Members -> SessionRows]
      /\ \A m \in Members, i \in Identities : Connected(connection, i, sessions[m][i])
      /\ \A m \in Members : sessions'[m] = Idled(c, m)
      /\ connection \in [Connections -> Identities \union {"new", "gone"}]
      /\ connection' = [connection EXCEPT ![c] = "gone"]
  BY DEF Core, RoomSound, MemberSound, Disconnect
<1>2. ASSUME NEW m \in Members, NEW i \in Identities
      PROVE  RowStep(m, i, sessions[m][i], sessions'[m][i])
  <2>1. sessions'[m][i] = IF i \in Carried(c, m)
                          THEN [sessions[m][i] EXCEPT !.status = "idle", !.conn = NoConnection]
                          ELSE sessions[m][i]
    BY <1>1 DEF Idled
  <2>2. CASE i \in Carried(c, m)
    <3>1. sessions[m][i].conn = c /\ c # NoConnection /\ sessions[m][i] \in SessionRow
      BY <1>1, <2>2, ConnectionsAssumption DEF Carried, SessionRows
    <3>2. sessions[m][i].status = "online"
      BY <1>1, <3>1 DEF Connected
    <3>3. connection'[sessions[m][i].conn] = "gone"
      BY <1>1, <3>1
    <3>4. sessions'[m][i].status = "idle" /\ sessions'[m][i].admission = sessions[m][i].admission
      BY <2>1, <2>2, <3>1 DEF SessionRow
    <3> QED
      BY <3>2, <3>3, <3>4 DEF RowStep, Dropped
  <2>3. CASE i \notin Carried(c, m)
    BY <2>1, <2>3 DEF RowStep
  <2> QED
    BY <2>2, <2>3
<1> QED
  BY <1>2 DEF RowsStep

LEMMA NextRowStep ==
  ASSUME Core, AdmissionsApart, [Next]_vars
  PROVE  RowsStep
<1>1. ASSUME sessions' = sessions PROVE RowsStep
  BY <1>1 DEF RowsStep, RowStep
<1>2. ASSUME NEW m \in Members, Removed(m) PROVE RowsStep
  <2>1. \A n \in Members : sessions'[n] = IF n = m THEN NoRows ELSE sessions[n]
    BY <1>2 DEF Removed, WithRows, Core
  <2>2. \A n \in Members, j \in Identities : sessions'[n][j] \in {sessions[n][j], NoSession}
    BY <2>1 DEF NoRows
  <2> QED
    BY <2>2 DEF RowsStep, RowStep
<1>3. ASSUME NEW c \in Connections, Enter(c) PROVE RowsStep
  <2>1. ASSUME NEW i \in Identities, Connect(c, i) PROVE RowsStep
    BY <1>1, <2>1 DEF Connect
  <2> QED
    BY <1>3, <2>1, JoinRowStep DEF Enter
<1>4. ASSUME NEW c \in Connections, Stay(c) PROVE RowsStep
  BY <1>4, StayRowStep
<1>5. ASSUME NEW c \in Connections, Disconnect(c) PROVE RowsStep
  BY <1>5, DisconnectRowStep
<1>6. ASSUME NEW c \in Connections, Moderate(c) PROVE RowsStep
  <2> QED
    BY <1>1, <1>2, <1>6 DEF Moderate, KickMember, RemoveIdleMember, SetMemberPermissions
<1>7. CASE Trusted
  <2>1. ASSUME NEW purge \in BOOLEAN, RetireRoom(purge) PROVE RowsStep
    <3>1. \A m \in Members, i \in Identities : sessions'[m][i] = NoSession
      BY <2>1 DEF RetireRoom, NoRows
    <3> QED
      BY <3>1 DEF RowsStep, RowStep
  <2>2. ASSUME NEW m \in Members, RevokeMembership(m) PROVE RowsStep
    BY <1>1, <1>2, <2>2 DEF RevokeMembership
  <2> QED
    BY <1>1, <1>7, <2>1, <2>2 DEF Trusted, IssueSeedGrant, SeedRoom, IssueGrant
<1>8. CASE Tick \/ UNCHANGED vars
  BY <1>1, <1>8 DEF Tick, vars
<1> QED
  BY <1>3, <1>4, <1>5, <1>6, <1>7, <1>8 DEF Next

LEMMA AdmissionsStayApart == Spec => []AdmissionsApart
<1>1. Init => AdmissionsApart
  BY DEF Init, NoRows, AdmissionsApart
<1> QED
  BY <1>1, CoreInvariant, NextKeepsApart, PTL DEF Spec

\* A grant opens one session, of the browser it was made out to.
THEOREM GrantsOpenOnce == Spec => AdmittedByGrantOnce
<1> DEFINE Once == \A m \in Members, i \in Identities :
       LET a == sessions'[m][i].admission
       IN  a \notin {0, sessions[m][i].admission} =>
             /\ \E g \in grants : g.admission = a /\ g.member = m /\ g.identity = i
             /\ \A g \in grants' : g.admission # a
<1>1. Core /\ AdmissionsApart /\ [Next]_vars => Once
  BY NextRowStep DEF RowsStep, RowStep, Refreshed, Dropped, Opened, NoSession
<1> QED
  BY <1>1, CoreInvariant, AdmissionsStayApart, PTL DEF Spec, AdmittedByGrantOnce

\* An idle session comes back online by a new admission only.
THEOREM IdleNeedsAdmission == Spec => BackOnlineByNewAdmission
<1> DEFINE Anew == \A m \in Members, i \in Identities :
       (sessions[m][i].status = "idle" /\ sessions'[m][i].status = "online")
         => sessions'[m][i].admission # sessions[m][i].admission
<1>1. Core /\ AdmissionsApart /\ [Next]_vars => Anew
  <2> SUFFICES ASSUME Core, AdmissionsApart, [Next]_vars,
                      NEW m \in Members, NEW i \in Identities,
                      sessions[m][i].status = "idle", sessions'[m][i].status = "online"
               PROVE  sessions'[m][i].admission # sessions[m][i].admission
    OBVIOUS
  <2>1. RowStep(m, i, sessions[m][i], sessions'[m][i])
    BY NextRowStep DEF RowsStep
  <2>2. Opened(m, i, sessions'[m][i])
    BY <2>1 DEF RowStep, Refreshed, Dropped, NoSession
  <2> QED
    BY <2>2 DEF Opened, AdmissionsApart
<1> QED
  BY <1>1, CoreInvariant, AdmissionsStayApart, PTL DEF Spec, BackOnlineByNewAdmission

\* Only the end of the connection that carries it makes a session idle.
THEOREM IdleByOwnConnection == Spec => IdledByOwnDisconnect
<1> DEFINE Own == \A m \in Members, i \in Identities :
       (sessions[m][i].status = "online" /\ sessions'[m][i].status = "idle")
         => connection'[sessions[m][i].conn] = "gone"
<1>1. Core /\ AdmissionsApart /\ [Next]_vars => Own
  <2> SUFFICES ASSUME Core, AdmissionsApart, [Next]_vars,
                      NEW m \in Members, NEW i \in Identities,
                      sessions[m][i].status = "online", sessions'[m][i].status = "idle"
               PROVE  connection'[sessions[m][i].conn] = "gone"
    OBVIOUS
  <2>1. RowStep(m, i, sessions[m][i], sessions'[m][i])
    BY NextRowStep DEF RowsStep
  <2> QED
    BY <2>1 DEF RowStep, Refreshed, Dropped, Opened, NoSession
<1> QED
  BY <1>1, CoreInvariant, AdmissionsStayApart, PTL DEF Spec, IdledByOwnDisconnect

----------------------------------------------------------------------------
(* Kicks.                                                                  *)

\* Who was kicked last and has not been back has no row, and one kick on record.
KickedOut ==
  \A m \in Members :
    /\ kicked[m] # {} => participant[m] = NoParticipant
    /\ \A t, u \in kicked[m] : t = u

\* The rows of the kicked: they stay out, unless a join has forgotten the kick.
OutStep ==
  \A m \in Members :
    /\ (kicked'[m] # {} /\ participant[m] = NoParticipant) => participant'[m] = NoParticipant
    /\ kicked'[m] \in {kicked[m], {}} \/ (kicked'[m] = {now} /\ participant'[m] = NoParticipant)
    /\ kicked'[m] # kicked[m] => (participant'[m] = NoParticipant \/ ~Blocked(m))

\* Without a row nobody of the member is on a connection.
LEMMA NobodyWithoutRow ==
  ASSUME Core, NEW m \in Members, participant[m] = NoParticipant
  PROVE  Online(sessions[m]) = {} /\ \A c \in Connections : ~IsCurrent(c, m)
<1>1. Online(sessions[m]) = {}
  BY DEF Core, MemberSound, Follows, NoParticipant
<1>2. ASSUME NEW c \in Connections, IsCurrent(c, m) PROVE FALSE
  <2>1. connection[c] \in Online(sessions[m])
    BY <1>2, CurrentIsOnline DEF Online
  <2> QED
    BY <1>1, <2>1
<1> QED
  BY <1>1, <1>2

LEMMA DisconnectOutStep ==
  ASSUME Core, NEW c \in Connections, Disconnect(c)
  PROVE  OutStep
<1>1. /\ sessions \in [Members -> SessionRows] /\ participant \in [Members -> ParticipantRow]
      /\ kicked' = kicked
  BY DEF Core, Disconnect
<1>2. PICK newest \in [Members -> Identities] :
        participant' = [m \in Members |->
          IF m \in Affected(c) THEN Synced(participant[m], Idled(c, m), newest[m], FALSE)
          ELSE participant[m]]
  BY DEF Disconnect
<1>3. ASSUME NEW m \in Members, participant[m] = NoParticipant
      PROVE  participant'[m] = NoParticipant
  <2>1. Online(sessions[m]) = {}
    BY <1>3, NobodyWithoutRow
  <2>2. \A i \in Identities : Idled(c, m)[i].status \in {sessions[m][i].status, "idle"}
    BY <1>1 DEF Idled, SessionRows, SessionRow
  <2>3. Online(Idled(c, m)) = {}
    BY <2>1, <2>2 DEF Online
  <2>4. Synced(participant[m], Idled(c, m), newest[m], FALSE) = NoParticipant
    BY <1>3, <2>3 DEF Synced
  <2> QED
    BY <1>2, <1>3, <2>4
<1> QED
  BY <1>1, <1>3 DEF OutStep

LEMMA NextOutStep ==
  ASSUME Core, [Next]_vars
  PROVE  OutStep
<1>1. /\ participant \in [Members -> ParticipantRow] /\ kicked \in [Members -> SUBSET Nat]
  BY DEF Core, RoomSound
<1>2. ASSUME UNCHANGED <<participant, kicked>> PROVE OutStep
  BY <1>2 DEF OutStep
<1>3. ASSUME NEW m \in Members, participant' = [participant EXCEPT ![m] = NoParticipant],
             kicked' \in {kicked, [kicked EXCEPT ![m] = {now}]}
      PROVE  OutStep
  BY <1>1, <1>3 DEF OutStep
<1>4. ASSUME NEW c \in Connections, Enter(c) PROVE OutStep
  <2>1. ASSUME NEW m \in Members, NEW a \in 1..issued, JoinRoom(c, m, a) PROVE OutStep
    <3>1. CASE UNCHANGED <<participant, kicked>>
      BY <1>2, <3>1
    <3>2. CASE ~UNCHANGED <<participant, kicked>>
      <4>1. /\ ~Blocked(m) /\ kicked' = [kicked EXCEPT ![m] = {}]
            /\ participant' = [participant EXCEPT ![m] = Aggregate(ResolvedRole(m), c)]
        BY <2>1, <3>2 DEF JoinRoom
      <4> QED
        BY <1>1, <4>1 DEF OutStep
    <3> QED
      BY <3>1, <3>2
  <2> QED
    BY <1>2, <1>4, <2>1 DEF Enter, Connect
<1>5. ASSUME NEW c \in Connections, Stay(c) PROVE OutStep
  <2>1. PICK m \in Members : Heartbeat(c, m) \/ LeaveRoom(c, m)
    BY <1>5 DEF Stay
  <2>2. IsCurrent(c, m) /\ kicked' = kicked
    BY <2>1 DEF Heartbeat, LeaveRoom
  <2>3. participant[m] # NoParticipant
    BY <2>2, NobodyWithoutRow
  <2>4. \A n \in Members \ {m} : participant'[n] = participant[n]
    BY <1>1, <2>1 DEF Heartbeat, LeaveRoom
  <2> QED
    BY <2>2, <2>3, <2>4 DEF OutStep
<1>6. ASSUME NEW c \in Connections, Disconnect(c) PROVE OutStep
  BY <1>6, DisconnectOutStep
<1>7. ASSUME NEW c \in Connections, Moderate(c) PROVE OutStep
  BY <1>2, <1>3, <1>7 DEF Moderate, KickMember, RemoveIdleMember, SetMemberPermissions, Removed
<1>8. CASE Trusted
  <2>1. ASSUME NEW purge \in BOOLEAN, RetireRoom(purge) PROVE OutStep
    BY <1>1, <2>1 DEF RetireRoom, OutStep
  <2>2. ASSUME NEW m \in Members, RevokeMembership(m) PROVE OutStep
    <3>1. CASE participant[m] # NoParticipant
      BY <1>3, <2>2, <3>1 DEF RevokeMembership, Removed
    <3>2. CASE participant[m] = NoParticipant
      <4>1. participant' = participant /\ kicked' = [kicked EXCEPT ![m] = {now}]
        BY <2>2, <3>2 DEF RevokeMembership
      <4> QED
        BY <1>1, <3>2, <4>1 DEF OutStep
    <3> QED
      BY <3>1, <3>2
  <2> QED
    BY <1>2, <1>8, <2>1, <2>2 DEF Trusted, IssueSeedGrant, SeedRoom, IssueGrant
<1>9. CASE Tick \/ UNCHANGED vars
  BY <1>2, <1>9 DEF Tick, vars
<1> QED
  BY <1>4, <1>5, <1>6, <1>7, <1>8, <1>9 DEF Next

LEMMA KickedRemain == Spec => []KickedOut
<1>1. Init => KickedOut
  BY DEF Init, KickedOut
<1>2. Core /\ KickedOut /\ [Next]_vars => KickedOut'
  <2> SUFFICES ASSUME Core, KickedOut, [Next]_vars PROVE KickedOut'
    OBVIOUS
  <2>1. OutStep
    BY NextOutStep
  <2> QED
    BY <2>1 DEF OutStep, KickedOut
<1> QED
  BY <1>1, <1>2, CoreInvariant, PTL DEF Spec

\* Inside the window after a kick nothing brings the guest's row back.
THEOREM KicksHold == Spec => KickedStayOut
<1> DEFINE Out == \A m \in Members \ {Host} : \A t \in kicked[m] :
       now - t < KickWindow => participant'[m] = NoParticipant
<1>1. Core /\ KickedOut /\ [Next]_vars => Out
  <2> SUFFICES ASSUME Core, KickedOut, [Next]_vars, NEW m \in Members \ {Host},
                      NEW t \in kicked[m], now - t < KickWindow
               PROVE  participant'[m] = NoParticipant
    OBVIOUS
  <2>1. OutStep
    BY NextOutStep
  <2>2. participant[m] = NoParticipant /\ \A u \in kicked[m] : u = t
    BY DEF KickedOut
  <2>3. Blocked(m)
    BY <2>2 DEF Blocked, ResolvedRole, ClaimedRole
  <2> QED
    BY <2>1, <2>2, <2>3 DEF OutStep
<1> QED
  BY <1>1, CoreInvariant, KickedRemain, PTL DEF Spec, KickedStayOut

----------------------------------------------------------------------------
(* Limits and rights.                                                      *)

\* The host of an open room holds every right: nobody removes its permission row
\* and what is set for it is every right.
LEMMA NextKeepsHostRights == Core /\ HostKeepsRights /\ [Next]_vars => HostKeepsRights'
<1> SUFFICES ASSUME Core, HostKeepsRights, [Next]_vars, room' = "live"
             PROVE  permission'[Host].rights = Rights
  BY DEF HostKeepsRights
<1>1. permission \in [Members -> PermissionRow] /\ Host \in Members
  BY HostAssumption DEF Core, RoomSound
<1>2. ASSUME UNCHANGED <<room, permission>> PROVE permission'[Host].rights = Rights
  BY <1>2 DEF HostKeepsRights
<1>3. ASSUME NEW m \in Members \ {Host}, UNCHANGED room,
             permission' = [permission EXCEPT ![m] = NoPermission]
      PROVE  permission'[Host].rights = Rights
  BY <1>1, <1>3 DEF HostKeepsRights
<1>4. ASSUME NEW c \in Connections, Enter(c) PROVE permission'[Host].rights = Rights
  <2>1. ASSUME NEW m \in Members, NEW a \in 1..issued, JoinRoom(c, m, a)
        PROVE  permission'[Host].rights = Rights
    <3>1. UNCHANGED room /\ permission[Host].rights = Rights
      BY <2>1 DEF JoinRoom, HostKeepsRights
    <3>2. permission[Host] # NoPermission
      BY <3>1 DEF NoPermission, Rights
    <3>3. permission'[Host] = permission[Host]
      BY <1>1, <2>1, <3>2 DEF JoinRoom
    <3> QED
      BY <3>1, <3>3
  <2> QED
    BY <1>2, <1>4, <2>1 DEF Enter, Connect
<1>5. ASSUME NEW c \in Connections, Moderate(c) PROVE permission'[Host].rights = Rights
  <2>1. ASSUME NEW m \in Members, KickMember(c, m) \/ RemoveIdleMember(c, m)
        PROVE  permission'[Host].rights = Rights
    <3>1. m # Host
      BY <2>1 DEF KickMember, RemoveIdleMember, IsHost
    <3> QED
      BY <1>3, <2>1, <3>1 DEF KickMember, RemoveIdleMember, Removed
  <2>2. ASSUME NEW m \in Members, NEW rights \in SUBSET Rights,
               SetMemberPermissions(c, m, rights)
        PROVE  permission'[Host].rights = Rights
    <3>1. UNCHANGED room /\ participant[Host].role = "host"
      BY <2>2 DEF SetMemberPermissions, IsHost
    <3>2. permission[Host].rights = Rights
      BY <3>1 DEF HostKeepsRights
    <3>3. permission' = [permission EXCEPT ![m] =
                           [status |-> "row", rights |-> Granted(m, rights)]]
      BY <2>2 DEF SetMemberPermissions
    <3>4. CASE m = Host
      BY <1>1, <3>1, <3>3, <3>4 DEF Granted
    <3>5. CASE m # Host
      BY <1>1, <3>2, <3>3, <3>5
    <3> QED
      BY <3>4, <3>5
  <2> QED
    BY <1>5, <2>1, <2>2 DEF Moderate
<1>6. CASE Trusted
  <2>1. CASE SeedRoom
    BY <1>1, <1>2, <2>1 DEF SeedRoom
  <2>2. ASSUME NEW m \in Members, RevokeMembership(m) PROVE permission'[Host].rights = Rights
    BY <1>2, <1>3, <2>2 DEF RevokeMembership, Removed
  <2>3. ASSUME NEW purge \in BOOLEAN, RetireRoom(purge) PROVE permission'[Host].rights = Rights
    BY <2>3 DEF RetireRoom
  <2> QED
    BY <1>2, <1>6, <2>1, <2>2, <2>3 DEF Trusted, IssueSeedGrant, IssueGrant
<1> QED
  BY <1>2, <1>4, <1>5, <1>6 DEF Next, Stay, Heartbeat, LeaveRoom, Disconnect, Tick, vars

\* The host of an open room holds every right.
THEOREM HostRightsKept == Spec => []HostKeepsRights
<1>1. Init => HostKeepsRights
  BY DEF Init, HostKeepsRights
<1> QED
  BY <1>1, CoreInvariant, NextKeepsHostRights, PTL DEF Spec

GrantsFinite == IsFiniteSet(grants)

\* Fewer grants keep the limit.
LEMMA FewerGrants ==
  ASSUME GrantsFinite, GrantsLimited, grants' \subseteq grants
  PROVE  GrantsFinite' /\ GrantsLimited'
<1>1. ASSUME NEW m \in Members
      PROVE  Cardinality({g \in grants' : g.member = m}) <= GrantLimit
  <2> DEFINE old == {g \in grants : g.member = m}
             new == {g \in grants' : g.member = m}
  <2>1. new \subseteq old /\ old \subseteq grants
    OBVIOUS
  <2>2. IsFiniteSet(old)
    BY <2>1, FS_Subset DEF GrantsFinite
  <2>3. Cardinality(new) <= Cardinality(old) /\ IsFiniteSet(new)
    BY <2>1, <2>2, FS_Subset
  <2>4. Cardinality(old) <= GrantLimit
    BY DEF GrantsLimited
  <2>5. Cardinality(new) \in Nat /\ Cardinality(old) \in Nat
    BY <2>2, <2>3, FS_CardinalityType
  <2> QED
    BY <2>3, <2>4, <2>5, NumbersAssumption
<1> QED
  BY <1>1, FS_Subset DEF GrantsFinite, GrantsLimited

LEMMA IssueKeepsLimit ==
  ASSUME Core, GrantsFinite, GrantsLimited, NEW m \in Members, NEW i \in Identities,
         IssueGrant(m, i)
  PROVE  GrantsFinite' /\ GrantsLimited'
<1> DEFINE g0 == [admission |-> issued + 1, member |-> m, identity |-> i,
                  expires |-> now + GrantLife]
<1>1. Unexpired \subseteq grants /\ IsFiniteSet(Unexpired)
  BY FS_Subset DEF Unexpired, GrantsFinite
<1>2. CASE ~MayIssue(m)
  BY <1>1, <1>2, FewerGrants DEF IssueGrant
<1>3. CASE MayIssue(m)
  <2>1. grants' = Unexpired \union {g0} /\ g0.member = m
    BY <1>3 DEF IssueGrant
  <2> HIDE DEF g0
  <2>2. GrantsFinite'
    BY <1>1, <2>1, FS_AddElement DEF GrantsFinite
  <2>3. ASSUME NEW n \in Members
        PROVE  Cardinality({g \in grants' : g.member = n}) <= GrantLimit
    <3> DEFINE old == {g \in grants : g.member = n}
    <3>1. CASE n = m
      <4>1. {g \in grants' : g.member = n} = Held(m) \union {g0}
        BY <2>1, <3>1 DEF Held
      <4>2. IsFiniteSet(Held(m))
        BY <1>1, FS_Subset DEF Held
      <4>3. /\ Cardinality(Held(m)) \in Nat
            /\ Cardinality(Held(m) \union {g0}) \in {Cardinality(Held(m)),
                                                    Cardinality(Held(m)) + 1}
        BY <4>2, FS_AddElement, FS_CardinalityType
      <4>4. Cardinality(Held(m)) < GrantLimit
        BY <1>3 DEF MayIssue
      <4>5. Cardinality(Held(m) \union {g0}) <= GrantLimit
        BY <4>3, <4>4, NumbersAssumption
      <4> QED
        BY <4>1, <4>5
    <3>2. CASE n # m
      <4>1. {g \in grants' : g.member = n} \subseteq old /\ old \subseteq grants
        BY <1>1, <2>1, <3>2
      <4>2. IsFiniteSet(old) /\ Cardinality(old) <= GrantLimit
        BY <4>1, FS_Subset DEF GrantsFinite, GrantsLimited
      <4>3. /\ Cardinality({g \in grants' : g.member = n}) <= Cardinality(old)
            /\ IsFiniteSet({g \in grants' : g.member = n})
        BY <4>1, <4>2, FS_Subset
      <4>4. Cardinality({g \in grants' : g.member = n}) \in Nat /\ Cardinality(old) \in Nat
        BY <4>2, <4>3, FS_CardinalityType
      <4> QED
        BY <4>2, <4>3, <4>4, NumbersAssumption
    <3> QED
      BY <3>1, <3>2
  <2> QED
    BY <2>2, <2>3 DEF GrantsLimited
<1> QED
  BY <1>2, <1>3

LEMMA NextKeepsLimit ==
  ASSUME Core, GrantsFinite, GrantsLimited, [Next]_vars
  PROVE  GrantsFinite' /\ GrantsLimited'
<1>1. ASSUME NEW c \in Connections, Enter(c) PROVE grants' \subseteq grants
  BY <1>1 DEF Enter, Connect, JoinRoom
<1>2. ASSUME NEW c \in Connections, Stay(c) \/ Disconnect(c) \/ Moderate(c)
      PROVE  grants' \subseteq grants
  BY <1>2 DEF Stay, Heartbeat, LeaveRoom, Disconnect, Moderate, KickMember, RemoveIdleMember,
              SetMemberPermissions
<1>3. CASE Trusted
  <2>1. ASSUME ~\E m \in Members, i \in Identities : IssueGrant(m, i)
        PROVE  grants' \subseteq grants
    BY <1>3, <2>1 DEF Trusted, IssueSeedGrant, SeedRoom, RevokeMembership, GrantsAfterRevoking,
                      RetireRoom
  <2> QED
    BY <2>1, FewerGrants, IssueKeepsLimit
<1>4. CASE Tick \/ UNCHANGED vars
  BY <1>4, FewerGrants DEF Tick, vars
<1> QED
  BY <1>1, <1>2, <1>3, <1>4, FewerGrants DEF Next

\* No member ever holds more grants than the limit.
THEOREM LimitHolds == Spec => []GrantsLimited
<1>1. Init => GrantsFinite /\ GrantsLimited
  <2> SUFFICES ASSUME Init PROVE GrantsFinite /\ GrantsLimited
    OBVIOUS
  <2>1. grants = {} /\ \A m \in Members : {g \in grants : g.member = m} = {}
    BY DEF Init
  <2>2. IsFiniteSet({}) /\ Cardinality({}) = 0
    BY FS_EmptySet
  <2> QED
    BY <2>1, <2>2, NumbersAssumption DEF GrantsFinite, GrantsLimited
<1> QED
  BY <1>1, CoreInvariant, NextKeepsLimit, PTL DEF Spec

----------------------------------------------------------------------------
(* The browsers of one member.                                             *)

OneBrowser == \A m \in Members :
  \/ sessions'[m] = NoRows
  \/ \E i \in Identities : \A j \in Identities \ {i} : sessions'[m][j] = sessions[m][j]

LEMMA SameSessionsOneBrowser ==
  ASSUME Core, sessions' = sessions
  PROVE  OneBrowser
<1>1. CASE Identities = {}
  <2>1. \A m \in Members : sessions'[m] = NoRows
    BY <1>1 DEF Core, SessionRows, NoRows
  <2> QED
    BY <2>1 DEF OneBrowser
<1>2. CASE Identities # {}
  BY <1>2 DEF OneBrowser
<1> QED
  BY <1>1, <1>2

LEMMA OneRowOneBrowser ==
  ASSUME Core, NEW m \in Members, NEW i \in Identities, NEW row,
         sessions' = [sessions EXCEPT ![m] = [sessions[m] EXCEPT ![i] = row]]
  PROVE  OneBrowser
<1>1. ASSUME NEW n \in Members, NEW j \in Identities \ {i}
      PROVE  sessions'[n][j] = sessions[n][j]
  BY DEF Core, SessionRows
<1> QED
  BY <1>1 DEF OneBrowser

\* A connection carries sessions of its own browser only.
LEMMA DisconnectOneBrowser ==
  ASSUME Core, NEW c \in Connections, Disconnect(c)
  PROVE  OneBrowser
<1>1. /\ sessions \in [Members -> SessionRows]
      /\ \A m \in Members, i \in Identities : Connected(connection, i, sessions[m][i])
      /\ \A m \in Members : sessions'[m] = Idled(c, m)
      /\ connection[c] \in Identities
  BY DEF Core, MemberSound, Disconnect, Open
<1>2. ASSUME NEW m \in Members, NEW j \in Identities \ {connection[c]}
      PROVE  sessions'[m][j] = sessions[m][j]
  <2>1. j \notin Carried(c, m)
    BY <1>1, ConnectionsAssumption DEF Carried, Connected
  <2> QED
    BY <1>1, <2>1 DEF Idled
<1> QED
  BY <1>1, <1>2 DEF OneBrowser

LEMMA NextOneBrowser ==
  ASSUME Core, [Next]_vars
  PROVE  OneBrowser
<1>1. ASSUME NEW m \in Members, Removed(m) PROVE OneBrowser
  <2>1. \A n \in Members : sessions'[n] = IF n = m THEN NoRows ELSE sessions[n]
    BY <1>1 DEF Removed, WithRows, Core
  <2>2. CASE Identities = {}
    <3>1. \A n \in Members : sessions'[n] = NoRows
      BY <2>1, <2>2 DEF Core, SessionRows, NoRows
    <3> QED
      BY <3>1 DEF OneBrowser
  <2>3. CASE Identities # {}
    BY <2>1, <2>3 DEF OneBrowser
  <2> QED
    BY <2>2, <2>3
<1>2. ASSUME NEW c \in Connections, Enter(c) PROVE OneBrowser
  <2>1. ASSUME NEW m \in Members, NEW a \in 1..issued, JoinRoom(c, m, a) PROVE OneBrowser
    <3>1. connection[c] \in Identities
      BY <2>1 DEF JoinRoom, Open
    <3>2. \/ sessions' = sessions
          \/ \E row : sessions' = [sessions EXCEPT ![m] =
                                     [sessions[m] EXCEPT ![connection[c]] = row]]
      BY <2>1 DEF JoinRoom, WithRows, Admitted
    <3> QED
      BY <3>1, <3>2, OneRowOneBrowser, SameSessionsOneBrowser
  <2> QED
    BY <1>2, <2>1, SameSessionsOneBrowser DEF Enter, Connect
<1>3. ASSUME NEW c \in Connections, Stay(c) PROVE OneBrowser
  <2>1. PICK m \in Members : Heartbeat(c, m) \/ LeaveRoom(c, m)
    BY <1>3 DEF Stay
  <2>2. connection[c] \in Identities
    BY <2>1 DEF Heartbeat, LeaveRoom, IsCurrent, Open
  <2>3. \E row : sessions' = [sessions EXCEPT ![m] =
                                [sessions[m] EXCEPT ![connection[c]] = row]]
    BY <2>1 DEF Heartbeat, LeaveRoom, WithRows
  <2> QED
    BY <2>2, <2>3, OneRowOneBrowser
<1>4. ASSUME NEW c \in Connections, Disconnect(c) PROVE OneBrowser
  BY <1>4, DisconnectOneBrowser
<1>5. ASSUME NEW c \in Connections, Moderate(c) PROVE OneBrowser
  BY <1>1, <1>5, SameSessionsOneBrowser
     DEF Moderate, KickMember, RemoveIdleMember, SetMemberPermissions
<1>6. CASE Trusted
  <2>1. ASSUME NEW purge \in BOOLEAN, RetireRoom(purge) PROVE OneBrowser
    BY <2>1 DEF RetireRoom, OneBrowser
  <2>2. ASSUME NEW m \in Members, RevokeMembership(m) PROVE OneBrowser
    BY <1>1, <2>2, SameSessionsOneBrowser DEF RevokeMembership
  <2> QED
    BY <1>6, <2>1, <2>2, SameSessionsOneBrowser
       DEF Trusted, IssueSeedGrant, SeedRoom, IssueGrant
<1>7. CASE Tick \/ UNCHANGED vars
  BY <1>7, SameSessionsOneBrowser DEF Tick, vars
<1> QED
  BY <1>2, <1>3, <1>4, <1>5, <1>6, <1>7 DEF Next

\* A step changes one session of a member, or the member loses all of them.
THEOREM BrowsersStayApart == Spec => BrowsersCoexist
<1>1. Core /\ [Next]_vars => OneBrowser
  BY NextOneBrowser
<1> QED
  BY <1>1, CoreInvariant, PTL DEF Spec, BrowsersCoexist, OneBrowser
=============================================================================
