---------------------------- MODULE RoomAdmission ----------------------------
(***************************************************************************)
(* Who is in a live room: admission grants, the private session of every   *)
(* admitted browser, the public presence receipts, one aggregate           *)
(* participant per durable member, permissions, kicks, revocations and     *)
(* retirement (room-participation.ts, room-admission.ts,                   *)
(* room-participant-state.ts, room-retirement.ts and the membership        *)
(* reducers of index.ts).  A browser has one SpacetimeDB identity and may  *)
(* open several connections, one after the other or at once; the server    *)
(* processes a disconnect some time after the browser is gone.             *)
(***************************************************************************)
EXTENDS Naturals, FiniteSets

CONSTANTS
  Members,       \* durable members of the room
  Host,          \* the member the room is seeded for
  Identities,    \* SpacetimeDB identities: browsers
  Connections,   \* connection identifiers, never reused
  NoConnection,  \* connection_id undefined
  GrantLimit,    \* ADMISSION_GRANT_MEMBER_LIMIT
  GrantLife,     \* ADMISSION_TTL_MS and the seed grant's life, in ticks
  KickWindow,    \* KICK_REJOIN_BLOCK_MS, in ticks
  MaxAdmissions, \* bound: admission grants issued in a behaviour
  MaxClock       \* bound: the server clock

ASSUME HostAssumption == Host \in Members
ASSUME ConnectionsAssumption ==
  NoConnection \notin Connections /\ Identities \cap {"new", "gone"} = {}
ASSUME NumbersAssumption ==
  /\ GrantLimit \in Nat /\ GrantLife \in Nat /\ KickWindow \in Nat
  /\ MaxAdmissions \in Nat /\ MaxClock \in Nat

VARIABLES
  connection,  \* the browser behind each connection, while it is open
  room,        \* room_session and retired_room
  seedGrant,   \* room_seed_grant of the host: expiry, if there is one
  grants,      \* room_admission_grant
  issued,      \* admission identifiers handed out so far
  sessions,    \* room_participant_session, by member and identity
  presence,    \* room_participant_presence
  participant, \* room_participant
  permission,  \* room_permission
  kicked,      \* room_kick: when
  revoked,     \* room_member_revocation
  now          \* the server clock

vars == <<connection, room, seedGrant, grants, issued, sessions, presence,
          participant, permission, kicked, revoked, now>>

----------------------------------------------------------------------------
(* Rows.                                                                   *)

Rights == {"add", "browser", "playback", "manage"}
Roles == {"host", "guest"}

SessionRow == [status: {"none", "online", "idle"}, admission: Nat, role: Roles,
               conn: Connections \union {NoConnection}]
ParticipantRow == [status: {"none", "online", "idle"}, role: Roles,
                   conn: Connections \union {NoConnection}]
PermissionRow == [status: {"none", "row"}, rights: SUBSET Rights]

NoSession == [status |-> "none", admission |-> 0, role |-> "guest", conn |-> NoConnection]
NoParticipant == [status |-> "none", role |-> "guest", conn |-> NoConnection]
NoPermission == [status |-> "none", rights |-> {}]

Grant == [admission: Nat, member: Members, identity: Identities, expires: Nat]
Presence == [admission: Nat, member: Members, status: {"online", "idle"}]

\* Mutant of Retired: a purged room is no longer found.
RetiredSession == room = "closed"

\* The retired_room marker, which survives the room session.
Retired == room \in {"closed", "purged"}

Open == {c \in Connections : connection[c] \in Identities}

Online(rows) == {i \in Identities : rows[i].status = "online"}
Stored(rows) == {i \in Identities : rows[i].status # "none"}

\* isCurrentParticipantSession: the caller's own session, on this connection.
IsCurrent(c, m) == c \in Open /\ sessions[m][connection[c]].conn = c

\* The canonical role of a member's grant and of its join_room arguments.
ClaimedRole(m) == IF m = Host THEN "host" ELSE "guest"

\* Mutant of ResolvedRole: the durable role, which knows owners, is stored.
DurableRole(m) == IF room = "live" /\ m = Host THEN "owner" ELSE "guest"

\* join_room: without a room session nobody is host.
ResolvedRole(m) == IF room = "live" THEN ClaimedRole(m) ELSE "guest"

\* Receipts of the given rows of member m.
Receipts(m, rows) ==
  {[admission |-> rows[i].admission, member |-> m, status |-> rows[i].status] : i \in Stored(rows)}

\* Mutant of WithRows: receipts are only ever added.
WithRowsOnly(m, rows) ==
  /\ sessions' = [sessions EXCEPT ![m] = rows]
  /\ presence' = presence \union Receipts(m, rows)

\* Session and presence of a member are written together: the receipts of its
\* old rows go, those of the new rows come.
WithRows(m, rows) ==
  /\ sessions' = [sessions EXCEPT ![m] = rows]
  /\ presence' = (presence \ Receipts(m, sessions[m])) \union Receipts(m, rows)

\* upsertAggregateParticipant.
Aggregate(role, c) == [status |-> "online", role |-> role, conn |-> c]

\* Mutant of Synced: the other browsers are forgotten.
SyncedAlone(old, rows, newest, remove) ==
  IF old = NoParticipant \/ remove THEN NoParticipant
  ELSE [old EXCEPT !.status = "idle", !.conn = NoConnection]

\* syncAggregateParticipant: the row of a member with these session rows follows
\* the online session seen last.
Synced(old, rows, newest, remove) ==
  IF Online(rows) # {} THEN Aggregate(rows[newest].role, rows[newest].conn)
  ELSE IF old = NoParticipant \/ remove THEN NoParticipant
  ELSE [old EXCEPT !.status = "idle", !.conn = NoConnection]

\* onlineMemberSessions sorts by last_seen_ms, which is not modelled: any online
\* session may be the one seen last.
MayBeNewest(i, rows) == Online(rows) # {} => i \in Online(rows)

----------------------------------------------------------------------------
(* Opening the room.                                                       *)

Connect(c, i) ==
  /\ connection[c] = "new"
  /\ connection' = [connection EXCEPT ![c] = i]
  /\ UNCHANGED <<room, seedGrant, grants, issued, sessions, presence, participant,
                 permission, kicked, revoked, now>>

\* issue_room_seed_grant, by the server rendering the host's page.
IssueSeedGrant ==
  /\ ~Retired
  /\ seedGrant' = [held |-> TRUE, expires |-> now + GrantLife]
  /\ UNCHANGED <<connection, room, grants, issued, sessions, presence, participant,
                 permission, kicked, revoked, now>>

\* seed_room_session: an expired grant is deleted and seeds nothing.
SeedRoom ==
  /\ room = "absent" /\ seedGrant.held
  /\ seedGrant' = [held |-> FALSE, expires |-> 0]
  /\ IF seedGrant.expires < now THEN UNCHANGED <<room, permission>>
     ELSE /\ room' = "live"
          /\ permission' = [permission EXCEPT ![Host] = [status |-> "row", rights |-> Rights]]
  /\ UNCHANGED <<connection, grants, issued, sessions, presence, participant, kicked,
                 revoked, now>>

----------------------------------------------------------------------------
(* Admission.                                                              *)

Unexpired == {g \in grants : g.expires >= now}
Held(m) == {g \in Unexpired : g.member = m}

\* Mutant of MayIssue: one grant more.
MayIssueAtLimit(m) == Cardinality(Held(m)) <= GrantLimit

MayIssue(m) == Cardinality(Held(m)) < GrantLimit

\* issue_room_admission_grant, for a member the server resolved.  Expired grants
\* of every member are deleted first, also when the limit then refuses this one.
IssueGrant(m, i) ==
  /\ ~Retired /\ m \notin revoked
  /\ issued < MaxAdmissions
  /\ grants' = IF MayIssue(m)
               THEN Unexpired \union {[admission |-> issued + 1, member |-> m, identity |-> i,
                                       expires |-> now + GrantLife]}
               ELSE Unexpired
  /\ issued' = IF MayIssue(m) THEN issued + 1 ELSE issued
  /\ UNCHANGED <<connection, room, seedGrant, sessions, presence, participant, permission,
                 kicked, revoked, now>>

\* Mutant of Blocked: the window is already over.
NeverBlocked(m) == FALSE

\* A kick younger than the window keeps all but the host out.
Blocked(m) == kicked[m] # {} /\ ResolvedRole(m) # "host"
              /\ \A t \in kicked[m] : now - t < KickWindow

\* Mutant of Readmitted: the browser may be on another connection.
ReadmittedAnywhere(c, m, a) == c \in Open /\ sessions[m][connection[c]].admission = a

\* The same admission on the connection that already carries it.
Readmitted(c, m, a) == IsCurrent(c, m) /\ sessions[m][connection[c]].admission = a

\* Mutant of ValidGrants: any browser may use the member's grant.
MemberGrants(c, m, a) ==
  {g \in Unexpired : g.admission = a /\ g.member = m /\ m \notin revoked}

\* getValidRoomAdmissionGrant.
ValidGrants(c, m, a) ==
  {g \in Unexpired : g.admission = a /\ g.member = m /\ g.identity = connection[c]
                     /\ m \notin revoked}

\* A join replaces this browser's own session.
Admitted(rows, i, row) == [rows EXCEPT ![i] = row]

\* join_room with the admission a.  A claim on an expired grant deletes it.
JoinRoom(c, m, a) ==
  LET i == connection[c]
      role == ResolvedRole(m)
      row == [status |-> "online", admission |-> a, role |-> role, conn |-> c]
      stale == {g \in grants \ Unexpired : g.admission = a /\ m \notin revoked}
  IN  /\ c \in Open /\ ~Blocked(m) /\ ~Retired
      /\ IF Readmitted(c, m, a) \/ ValidGrants(c, m, a) # {}
         THEN /\ WithRows(m, Admitted(sessions[m], i, row))
              /\ grants' = IF Readmitted(c, m, a) THEN grants
                           ELSE grants \ ValidGrants(c, m, a)
              /\ participant' = [participant EXCEPT ![m] = Aggregate(role, c)]
              /\ kicked' = [kicked EXCEPT ![m] = {}]
              /\ permission' = IF permission[m] # NoPermission THEN permission
                               ELSE [permission EXCEPT ![m] =
                                       [status |-> "row",
                                        rights |-> IF role = "host" THEN Rights ELSE {"add"}]]
         ELSE /\ stale # {} /\ grants' = grants \ stale
              /\ UNCHANGED <<sessions, presence, participant, kicked, permission>>
      /\ UNCHANGED <<connection, room, seedGrant, issued, revoked, now>>

Heartbeat(c, m) ==
  LET i == connection[c]
  IN  /\ IsCurrent(c, m) /\ participant[m] # NoParticipant
      /\ WithRows(m, [sessions[m] EXCEPT ![i].status = "online"])
      /\ participant' = [participant EXCEPT ![m] = Aggregate(sessions[m][i].role, c)]
      /\ UNCHANGED <<connection, room, seedGrant, grants, issued, permission, kicked,
                     revoked, now>>

LeaveRoom(c, m) ==
  LET rows == [sessions[m] EXCEPT ![connection[c]] = NoSession]
  IN  /\ IsCurrent(c, m)
      /\ WithRows(m, rows)
      /\ \E newest \in Identities :
           /\ MayBeNewest(newest, rows)
           /\ participant' = [participant EXCEPT ![m] = Synced(@, rows, newest, TRUE)]
      /\ UNCHANGED <<connection, room, seedGrant, grants, issued, permission, kicked,
                     revoked, now>>

\* Mutant of Carried: a disconnect finds only the session the aggregate row names.
CarriedInAggregate(c, m) ==
  {i \in Identities : sessions[m][i].conn = c /\ participant[m].conn = c}

\* The sessions of m that connection c carries.
Carried(c, m) == {i \in Identities : sessions[m][i].conn = c}

\* The session rows of m once those on connection c are idle.
Idled(c, m) ==
  [i \in Identities |-> IF i \in Carried(c, m)
                        THEN [sessions[m][i] EXCEPT !.status = "idle", !.conn = NoConnection]
                        ELSE sessions[m][i]]

Affected(c) == {m \in Members : Carried(c, m) # {}}

\* on_disconnect: the server notices that connection c is gone.
Disconnect(c) ==
  /\ c \in Open
  /\ connection' = [connection EXCEPT ![c] = "gone"]
  /\ sessions' = [m \in Members |-> Idled(c, m)]
  /\ presence' = (presence \ UNION {Receipts(m, sessions[m]) : m \in Affected(c)})
                 \union UNION {Receipts(m, Idled(c, m)) : m \in Affected(c)}
  /\ \E newest \in [Members -> Identities] :
       /\ \A m \in Members : MayBeNewest(newest[m], Idled(c, m))
       /\ participant' = [m \in Members |->
            IF m \in Affected(c) THEN Synced(participant[m], Idled(c, m), newest[m], FALSE)
            ELSE participant[m]]
  /\ UNCHANGED <<room, seedGrant, grants, issued, permission, kicked, revoked, now>>

----------------------------------------------------------------------------
(* The host's reducers.                                                    *)

\* getAuthorizedHost, for the caller on connection c.
IsHost(c) == room = "live" /\ participant[Host].role = "host" /\ IsCurrent(c, Host)

NoRows == [i \in Identities |-> NoSession]

\* deleteParticipantAndPermissions.
Removed(m) ==
  /\ WithRows(m, NoRows)
  /\ participant' = [participant EXCEPT ![m] = NoParticipant]
  /\ permission' = [permission EXCEPT ![m] = NoPermission]

KickMember(c, m) ==
  /\ IsHost(c) /\ participant[m] # NoParticipant /\ participant[m].role # "host"
  /\ Removed(m)
  /\ kicked' = [kicked EXCEPT ![m] = {now}]
  /\ UNCHANGED <<connection, room, seedGrant, grants, issued, revoked, now>>

RemoveIdleMember(c, m) ==
  /\ IsHost(c) /\ participant[m].status = "idle" /\ participant[m].role # "host"
  /\ Removed(m)
  /\ UNCHANGED <<connection, room, seedGrant, grants, issued, kicked, revoked, now>>

\* Mutant of Granted: what is asked for is stored.
GrantedAsAsked(m, rights) == rights

\* A host keeps every right; who may add may also manage.
Granted(m, rights) ==
  IF participant[m].role = "host" THEN Rights
  ELSE IF "add" \in rights THEN rights \union {"manage"} ELSE rights

SetMemberPermissions(c, m, rights) ==
  /\ IsHost(c) /\ participant[m] # NoParticipant
  /\ permission' = [permission EXCEPT ![m] = [status |-> "row", rights |-> Granted(m, rights)]]
  /\ UNCHANGED <<connection, room, seedGrant, grants, issued, sessions, presence,
                 participant, kicked, revoked, now>>

----------------------------------------------------------------------------
(* Trusted durable decisions.                                              *)

\* Mutant of GrantsAfterRevoking: outstanding grants stay.
GrantsKept(m) == grants

GrantsAfterRevoking(m) == {g \in grants : g.member # m}

\* revoke_room_membership.  The durable decision never names the owner.  Without
\* a participant row, session rows and the permission row stay.
RevokeMembership(m) ==
  /\ m # Host /\ participant[m].role # "host"
  /\ revoked' = revoked \union {m}
  /\ grants' = GrantsAfterRevoking(m)
  /\ kicked' = [kicked EXCEPT ![m] = {now}]
  /\ IF participant[m] # NoParticipant THEN Removed(m)
     ELSE UNCHANGED <<sessions, presence, participant, permission>>
  /\ UNCHANGED <<connection, room, seedGrant, issued, now>>

\* retire_room: the marker stays for ever; a purge also forgets the room session,
\* the kicks and the revocations.
RetireRoom(purge) ==
  /\ room' = IF purge \/ room = "purged" THEN "purged" ELSE "closed"
  /\ grants' = {} /\ seedGrant' = [held |-> FALSE, expires |-> 0]
  /\ sessions' = [m \in Members |-> NoRows] /\ presence' = {}
  /\ participant' = [m \in Members |-> NoParticipant]
  /\ permission' = [m \in Members |-> NoPermission]
  /\ IF purge THEN kicked' = [m \in Members |-> {}] /\ revoked' = {}
     ELSE UNCHANGED <<kicked, revoked>>
  /\ UNCHANGED <<connection, issued, now>>

Tick ==
  /\ now < MaxClock /\ now' = now + 1
  /\ UNCHANGED <<connection, room, seedGrant, grants, issued, sessions, presence,
                 participant, permission, kicked, revoked>>

----------------------------------------------------------------------------
Init ==
  /\ connection = [c \in Connections |-> "new"]
  /\ room = "absent" /\ seedGrant = [held |-> FALSE, expires |-> 0]
  /\ grants = {} /\ issued = 0
  /\ sessions = [m \in Members |-> NoRows] /\ presence = {}
  /\ participant = [m \in Members |-> NoParticipant]
  /\ permission = [m \in Members |-> NoPermission]
  /\ kicked = [m \in Members |-> {}] /\ revoked = {}
  /\ now = 0

Enter(c) ==
  \/ \E i \in Identities : Connect(c, i)
  \/ \E m \in Members, a \in 1..issued : JoinRoom(c, m, a)

Stay(c) == \E m \in Members : Heartbeat(c, m) \/ LeaveRoom(c, m)

Moderate(c) == \E m \in Members :
  \/ KickMember(c, m) \/ RemoveIdleMember(c, m)
  \/ \E rights \in SUBSET Rights : SetMemberPermissions(c, m, rights)

Trusted ==
  \/ IssueSeedGrant \/ SeedRoom
  \/ \E m \in Members, i \in Identities : IssueGrant(m, i)
  \/ \E m \in Members : RevokeMembership(m)
  \/ \E purge \in BOOLEAN : RetireRoom(purge)

Next ==
  \/ \E c \in Connections : Enter(c) \/ Stay(c) \/ Disconnect(c) \/ Moderate(c)
  \/ Trusted
  \/ Tick

Spec == Init /\ [][Next]_vars

----------------------------------------------------------------------------
(* Invariants.                                                             *)

\* Every variable has its type.
TypeOK ==
  /\ connection \in [Connections -> Identities \union {"new", "gone"}]
  /\ room \in {"absent", "live", "closed", "purged"}
  /\ seedGrant \in [held: BOOLEAN, expires: Nat]
  /\ grants \subseteq Grant
  /\ issued \in Nat
  /\ sessions \in [Members -> [Identities -> SessionRow]]
  /\ presence \subseteq Presence
  /\ participant \in [Members -> ParticipantRow]
  /\ permission \in [Members -> PermissionRow]
  /\ kicked \in [Members -> SUBSET Nat]
  /\ revoked \subseteq Members
  /\ now \in Nat

\* The public receipts are exactly those of the private sessions, one admission
\* each: a client that waits for its own receipt is admitted if it sees it online.
ReceiptsMirrorSessions ==
  /\ presence = UNION {Receipts(m, sessions[m]) : m \in Members}
  /\ \A m, n \in Members, i, j \in Identities :
       (sessions[m][i] # NoSession /\ sessions[m][i].admission = sessions[n][j].admission)
         => m = n /\ i = j

\* A session is online exactly while an open connection of its own browser carries
\* it: no ghost stays online.
OnlineIsConnected ==
  \A m \in Members, i \in Identities :
    IF sessions[m][i].status = "online"
    THEN sessions[m][i].conn \in Open /\ connection[sessions[m][i].conn] = i
    ELSE sessions[m][i].conn = NoConnection

\* The aggregate participant is online exactly while some browser of the member
\* is, and then names the connection of one of them.
ParticipantFollowsSessions ==
  \A m \in Members :
    IF Online(sessions[m]) # {}
    THEN \E i \in Online(sessions[m]) :
           participant[m].status = "online" /\ participant[m].conn = sessions[m][i].conn
    ELSE participant[m].status # "online"

\* A revoked member is out and stays out, whatever grants and connections it had
\* when the decision was taken: until a purge forgets the room.
RevokedStayOut ==
  \A m \in revoked :
    /\ participant[m] = NoParticipant /\ Online(sessions[m]) = {}
    /\ \A g \in grants : g.member # m

\* Nothing of a retired room's live membership is left or comes back.
RetiredStaysEmpty ==
  room \in {"closed", "purged"} =>
    /\ presence = {} /\ grants = {} /\ ~seedGrant.held
    /\ \A m \in Members : sessions[m] = NoRows /\ participant[m] = NoParticipant
                           /\ permission[m] = NoPermission

\* No member ever holds more grants than the limit.
GrantsLimited ==
  \A m \in Members : Cardinality({g \in grants : g.member = m}) <= GrantLimit

\* The host of an open room holds every right, whichever of its browsers came
\* first and whatever it sets for others or for itself.
HostKeepsRights == room = "live" => permission[Host].rights = Rights

----------------------------------------------------------------------------
(* Action properties.                                                      *)

\* A browser is admitted anew only by a grant made out to it, used up in the step:
\* an admission once used, lost or withdrawn never opens a second session.
AdmittedByGrantOnce ==
  [][\A m \in Members, i \in Identities :
       LET a == sessions'[m][i].admission
       IN  a \notin {0, sessions[m][i].admission} =>
             /\ \E g \in grants : g.admission = a /\ g.member = m /\ g.identity = i
             /\ \A g \in grants' : g.admission # a]_vars

\* A browser gone idle comes back online by a new admission only: neither the
\* admission it used before nor a heartbeat on another connection revives it.
BackOnlineByNewAdmission ==
  [][\A m \in Members, i \in Identities :
       (sessions[m][i].status = "idle" /\ sessions'[m][i].status = "online")
         => sessions'[m][i].admission # sessions[m][i].admission]_vars

\* Inside the window after a kick nothing brings the guest's row back: no grant it
\* still holds, no other browser of its own and no heartbeat under way.
KickedStayOut ==
  [][\A m \in Members \ {Host} : \A t \in kicked[m] :
       now - t < KickWindow => participant'[m] = NoParticipant]_vars

\* An online browser goes idle by the end of the connection that carries it, not
\* by the late end of the one it joined on before, nor by another browser's.
IdledByOwnDisconnect ==
  [][\A m \in Members, i \in Identities :
       (sessions[m][i].status = "online" /\ sessions'[m][i].status = "idle")
         => connection'[sessions[m][i].conn] = "gone"]_vars

\* The browsers of one member coexist: a step changes one of its sessions, or the
\* member loses all of them.
BrowsersCoexist ==
  [][\A m \in Members :
       \/ sessions'[m] = NoRows
       \/ \E i \in Identities : \A j \in Identities \ {i} :
            sessions'[m][j] = sessions[m][j]]_vars

----------------------------------------------------------------------------
(* What the documentation says and the code does not keep to.              *)

\* A browser that leaves or disconnects takes no authority from another browser
\* of the same member.
LeavingSparesOtherBrowsers ==
  [][\A c, d \in Open :
       (/\ c # d /\ IsHost(c) /\ connection'[c] = connection[c]
        /\ connection[c] # connection[d]
        /\ Carried(d, Host) # {}
        /\ sessions' = [sessions EXCEPT ![Host][connection[d]] = sessions'[Host][connection[d]]]
        /\ sessions'[Host][connection[d]].status # "online")
         => participant'[Host].role = "host"]_vars
=============================================================================
