-------------------------- MODULE ListenerReceipts --------------------------
(***************************************************************************)
(* What one account's listening counts for in one room: the private        *)
(* listener tables of the SpacetimeDB module (listener-authority.ts,       *)
(* listener-policy.ts), the observer in each of the account's browsers     *)
(* (use-local-listener.ts), the grant route, and the durable side that     *)
(* checks permission again when it records a receipt (SQL migrations       *)
(* 20260911123235 and 20260911123251).                                     *)
(* A unit of time is the five seconds between two reports; a medium is     *)
(* Duration units long and is played at rate 1.                            *)
(***************************************************************************)
EXTENDS Integers, FiniteSets

CONSTANTS Browsers,        \* browsers of the account
          Duration,        \* of every medium
          MaxGap,          \* LISTENER_MAX_GAP_MS
          StateTtl,        \* LISTENER_STATE_TTL_MS
          GrantLimit,      \* grants of a room
          PartitionLimit,  \* LISTENER_ROOM_STATE_LIMIT
          OutboxLimit,     \* LISTENER_ROOM_OUTBOX_LIMIT
          MaxNow,          \* bound on the clock
          MaxUpdates,      \* bound on the updates of the playback
          MaxJoins,        \* bound on the connections of the browsers
          MaxChanges,      \* bound on the changes of the permission
          MaxRequests      \* bound on the grants asked for and not settled

ASSUME TimesAssumption == /\ Duration \in Nat \ {0} /\ MaxGap \in Nat \ {0}
                          /\ StateTtl \in Nat
ASSUME LimitsAssumption == /\ GrantLimit \in Nat /\ PartitionLimit \in Nat
                           /\ OutboxLimit \in Nat
ASSUME BoundsAssumption == /\ MaxNow \in Nat /\ MaxUpdates \in Nat /\ MaxJoins \in Nat
                           /\ MaxChanges \in Nat /\ MaxRequests \in Nat

VARIABLES
  now,
  \* the live room, in SpacetimeDB
  playback,    \* room_session: occurrence, position, playing, time and count of updates
  sessions,    \* connection of each browser's room_participant_session; 0: none
  joins,       \* connections so far
  grants,      \* listener_grant
  cursors,     \* listener_cursor
  coverage,    \* listener_coverage
  outbox,      \* listener_receipt_outbox
  \* the browsers
  elements,    \* the media element: audible; the observer: may report
  requests,    \* grants asked for: not yet arrived, or not yet answered
  \* the durable store, in PostgreSQL
  permission,  \* room_listening_consents and account_listening_history
  recorded,    \* listener_receipts
  \* the server
  drain        \* the receipts recorded and not yet acknowledged

live == <<grants, cursors, coverage, outbox>>
vars == <<now, playback, sessions, joins, live, elements, requests, permission, recorded,
          drain>>

-----------------------------------------------------------------------------
NoGrant == [conn |-> 0, epoch |-> 0, gen |-> 0, from |-> 0, holds |-> FALSE]
NoCursor == [key |-> <<0, 0, 0>>, at |-> 0, anchor |-> 0, pos |-> 0, audible |-> FALSE]

Cells == 0..Duration - 1

\* The partition evidence is collected in: occurrence, consent epoch, history generation.
Partition(g) == <<playback.occ, g.epoch, g.gen>>

\* Where the room is.
Canonical == playback.base + (IF playback.playing THEN now - playback.since ELSE 0)

\* pruneRoom.
Expired(b) == grants[b] # NoGrant /\ ~grants[b].holds
KeptGrants == [b \in Browsers |-> IF Expired(b) THEN NoGrant ELSE grants[b]]

\* Mutant of KeptCursors: the cursor outlives its grant.
CursorsOutlive == cursors

KeptCursors == [b \in Browsers |-> IF Expired(b) THEN NoCursor ELSE cursors[b]]
KeptCoverage == {c \in coverage : now - c.updated <= StateTtl}

-----------------------------------------------------------------------------
(* observe_listener_playback *)

\* Mutant of Throttled: a change of audibility is throttled as well.
AnyThrottled(cursor, key, audible) == cursor.key = key /\ cursor.at = now

\* Ordinary reports are rate-limited, changes of audibility are not.
Throttled(cursor, key, audible) ==
  cursor.key = key /\ cursor.audible = audible /\ cursor.at = now

\* qualifyingInterval: both ends audible, the playback not touched in between, no more
\* progress than time, and the element where the room is.
Qualifies(previous, grant, position, audible) ==
  LET elapsed == now - previous.at
      delta == position - previous.pos
  IN  /\ previous.key = Partition(grant)
      /\ playback.playing /\ previous.audible /\ audible
      /\ previous.anchor = playback.anchor
      /\ previous.at >= grant.from
      /\ elapsed > 0 /\ elapsed <= MaxGap
      /\ delta > 0 /\ delta <= elapsed
      /\ position = Canonical

\* Mutant of Emits: a full outbox does not keep a partition from being done with.
EmitsAtLimit(cells) == Cardinality(cells) * 10000 >= 9000 * Duration

\* A partition is done with once 90% are covered and the outbox has taken its receipt.
Emits(cells) == /\ Cardinality(cells) * 10000 >= 9000 * Duration
                /\ Cardinality(outbox) < OutboxLimit

\* The rows of a partition after cells were added to it.
Cover(key, old, cells, first) ==
  LET row == [key |-> key, cells |-> cells, first |-> first, updated |-> now,
              emitted |-> Emits(cells)]
      receipt == [key |-> key, cells |-> cells, first |-> first, last |-> now]
  IN  /\ coverage' = (IF old = {} THEN KeptCoverage ELSE coverage \ old) \union {row}
      /\ outbox' = IF row.emitted /\ Cardinality(outbox) < OutboxLimit
                        /\ ~ \E r \in outbox : r.key = key
                     THEN outbox \union {receipt} ELSE outbox

\* A new partition prunes the room first, and is not begun where too many are left.
Credit(b, cursor) ==
  LET key == cursor.key
      old == {c \in coverage : c.key = key}
      added == cursors[b].pos..cursor.pos - 1
  IN  IF old # {}
        THEN LET c == CHOOSE c \in old : TRUE
             IN  /\ IF c.emitted THEN UNCHANGED <<coverage, outbox>>
                    ELSE Cover(key, old, c.cells \union added, c.first)
                 /\ cursors' = [cursors EXCEPT ![b] = cursor]
                 /\ UNCHANGED grants
        ELSE /\ IF Cardinality(KeptCoverage) >= PartitionLimit
                  THEN coverage' = KeptCoverage /\ UNCHANGED outbox
                  ELSE Cover(key, {}, added, cursors[b].at)
             /\ grants' = KeptGrants
             /\ cursors' = [KeptCursors EXCEPT ![b] = cursor]

\* What the room accepts from a browser: its live connection, under a grant for it.
Accepts(b) ==
  LET grant == grants[b]
  IN  /\ sessions[b] # 0 /\ grant # NoGrant
      /\ grant.holds /\ grant.conn = sessions[b]

\* One report of a browser, handled by the room.  Where an inaudible element was is
\* never read again.
Observed(b, position, audible) ==
  LET grant == grants[b]
      cursor == [key |-> Partition(grant), at |-> now, audible |-> audible,
                 anchor |-> IF audible THEN playback.anchor ELSE 0,
                 pos |-> IF audible THEN position ELSE 0]
  IN  \/ /\ ~Accepts(b) \/ Throttled(cursors[b], cursor.key, audible)
         /\ UNCHANGED live
      \/ /\ Accepts(b) /\ ~Throttled(cursors[b], cursor.key, audible)
         /\ IF Qualifies(cursors[b], grant, position, audible) THEN Credit(b, cursor)
            ELSE /\ cursors' = [cursors EXCEPT ![b] = cursor]
                 /\ UNCHANGED <<grants, coverage, outbox>>

-----------------------------------------------------------------------------
(* The observer in a browser *)

\* report: nothing is sent without a grant that holds or without a connection.
Reports(b, may) == may /\ sessions[b] # 0

Report(b, position) ==
  /\ Reports(b, elements[b].reports)
  /\ Observed(b, position, elements[b].audible)
  /\ UNCHANGED <<now, playback, sessions, joins, elements, requests, permission, recorded,
                 drain>>

\* Mute, pause, buffering and their ends are reported at once.
ChangeAudible(b, position) ==
  /\ elements' = [elements EXCEPT ![b].audible = ~@]
  /\ IF Reports(b, elements[b].reports) THEN Observed(b, position, ~elements[b].audible)
                                      ELSE UNCHANGED live
  /\ UNCHANGED <<now, playback, sessions, joins, requests, permission, recorded, drain>>

\* The player is mounted anew elsewhere in the page.
Remount(b) ==
  /\ elements' = [elements EXCEPT ![b] = [audible |-> FALSE, reports |-> FALSE]]
  /\ UNCHANGED <<now, playback, sessions, joins, live, requests, permission, recorded, drain>>

\* renew: the route reads the settings before it grants.
Ask(b) ==
  LET request == [browser |-> b, conn |-> sessions[b], epoch |-> permission.epoch,
                  gen |-> permission.gen, granted |-> FALSE]
  IN  /\ sessions[b] # 0
      /\ IF permission.allowed
           THEN /\ Cardinality(requests \union {request}) <= MaxRequests
                /\ requests' = requests \union {request}
                /\ UNCHANGED elements
           ELSE elements' = [elements EXCEPT ![b].reports = FALSE] /\ UNCHANGED requests
      /\ UNCHANGED <<now, playback, sessions, joins, live, permission, recorded, drain>>

\* The answer: reports are on, and one is sent.
Answer(r, position) ==
  /\ r \in requests /\ r.granted
  /\ requests' = requests \ {r}
  /\ sessions[r.browser] = r.conn
  /\ elements' = [elements EXCEPT ![r.browser].reports = TRUE]
  /\ IF Reports(r.browser, TRUE) THEN Observed(r.browser, position, elements[r.browser].audible)
                                    ELSE UNCHANGED live
  /\ UNCHANGED <<now, playback, sessions, joins, permission, recorded, drain>>

\* No answer: the request failed or was given up; what it asked for may still come.
\* Reports are off as well while changed settings are asked for again.
NoAnswer(b) ==
  /\ elements' = [elements EXCEPT ![b].reports = FALSE]
  /\ requests' \in {requests} \union {requests \ {r} : r \in {r \in requests : r.browser = b}}
  /\ UNCHANGED <<now, playback, sessions, joins, live, permission, recorded, drain>>

-----------------------------------------------------------------------------
(* Grants and sessions *)

\* Anything but a renewal of the same grant starts over.
Resets(old, r) == old = NoGrant \/ old.epoch # r.epoch \/ old.gen # r.gen \/ old.conn # r.conn

\* grant_listener_learning.
GrantArrives(r) ==
  LET b == r.browser
      old == KeptGrants[b]
      new == [conn |-> r.conn, epoch |-> r.epoch, gen |-> r.gen, holds |-> TRUE,
              from |-> IF Resets(old, r) THEN now ELSE old.from]
      refused == sessions[b] # r.conn
      full == old = NoGrant
              /\ Cardinality({x \in Browsers : KeptGrants[x] # NoGrant}) >= GrantLimit
  IN  /\ r \in requests /\ ~r.granted
      /\ requests' = (requests \ {r}) \union {[r EXCEPT !.granted = TRUE]}
      /\ IF refused THEN UNCHANGED <<grants, cursors, coverage>>
         ELSE /\ coverage' = KeptCoverage
              /\ grants' = IF full THEN KeptGrants ELSE [KeptGrants EXCEPT ![b] = new]
              /\ cursors' = IF full \/ ~Resets(old, r) THEN KeptCursors
                            ELSE [KeptCursors EXCEPT ![b] = NoCursor]
      /\ UNCHANGED <<now, playback, sessions, joins, outbox, elements, permission, recorded,
                     drain>>

\* A grant that is not renewed runs out, for the observer at the same time.
Expire(b) ==
  /\ grants[b].holds
  /\ grants' = [grants EXCEPT ![b].holds = FALSE]
  /\ elements' = [elements EXCEPT ![b].reports = FALSE]
  /\ UNCHANGED <<now, playback, sessions, joins, cursors, coverage, outbox, requests,
                 permission, recorded, drain>>

\* A browser joins, or comes back on another connection; the observer starts over.
Join(b) ==
  /\ joins < MaxJoins
  /\ joins' = joins + 1
  /\ sessions' = [sessions EXCEPT ![b] = joins + 1]
  /\ elements' = [elements EXCEPT ![b].reports = FALSE]
  /\ UNCHANGED <<now, playback, live, requests, permission, recorded, drain>>

Leave(b) ==
  /\ sessions[b] # 0
  /\ sessions' = [sessions EXCEPT ![b] = 0]
  /\ UNCHANGED <<now, playback, joins, live, elements, requests, permission, recorded, drain>>

-----------------------------------------------------------------------------
(* The room and the clock *)

\* Play, pause, seek; or another occurrence.  Every update has a time of its own.
UpdatePlayback(occ, base, playing) ==
  /\ playback.anchor < MaxUpdates
  /\ playback' = [occ |-> occ, base |-> base, playing |-> playing, since |-> now,
                  anchor |-> playback.anchor + 1]
  /\ UNCHANGED <<now, sessions, joins, live, elements, requests, permission, recorded, drain>>

Tick ==
  /\ now < MaxNow
  /\ now' = now + 1
  /\ UNCHANGED <<playback, sessions, joins, live, elements, requests, permission, recorded,
                 drain>>

-----------------------------------------------------------------------------
(* The durable side *)

\* set_room_listening_consent: every change starts an epoch.
SetConsent(allowed) ==
  /\ permission.epoch + permission.gen <= MaxChanges
  /\ permission.allowed # allowed
  /\ permission' = [permission EXCEPT !.allowed = allowed, !.epoch = @ + 1,
                                      !.since = IF allowed THEN now ELSE @]
  /\ UNCHANGED <<now, playback, sessions, joins, live, elements, requests, recorded, drain>>

\* clear_account_listening_history.
ClearHistory ==
  /\ permission.epoch + permission.gen <= MaxChanges
  /\ permission' = [permission EXCEPT !.gen = @ + 1, !.since = now]
  /\ UNCHANGED <<now, playback, sessions, joins, live, elements, requests, recorded, drain>>

\* check_listener_learning_context.
Allowed(r) == /\ permission.allowed
              /\ r.key[2] = permission.epoch /\ r.key[3] = permission.gen
              /\ r.first >= permission.since

\* Mutant of Counted: what was recorded counts for good.
RecordedCounts == recorded

\* The receipts that count: read_account_listening_counts checks permission again.
Counted == {r \in recorded : Allowed(r)}

\* ingest_listener_receipts: what is not allowed, or took too little time, is rejected.
Ingested(rows) ==
  {r \in rows : /\ Allowed(r) /\ (r.last - r.first) * 4 >= Cardinality(r.cells)
                /\ ~ \E x \in recorded : x.key = r.key}

\* read_listener_receipts removes what expired; what it read is handed to the ingestion,
\* and nothing else ever changes it.
RecordReceipts ==
  /\ drain = {}
  /\ drain' = outbox
  /\ recorded' = recorded \union Ingested(outbox)
  /\ grants' = KeptGrants /\ cursors' = KeptCursors /\ coverage' = KeptCoverage
  /\ UNCHANGED <<now, playback, sessions, joins, outbox, elements, requests, permission>>

\* acknowledge_listener_receipts.
Acknowledged(rows) == {r \in outbox : \A x \in rows : x.key # r.key}

AcknowledgeReceipts ==
  /\ drain # {}
  /\ outbox' = Acknowledged(drain)
  /\ drain' = {}
  /\ UNCHANGED <<now, playback, sessions, joins, grants, cursors, coverage, elements, requests,
                 permission, recorded>>

\* A call fails or its answer is lost: what was not acknowledged is read again.
DrainFails ==
  /\ drain # {}
  /\ drain' = {}
  /\ UNCHANGED <<now, playback, sessions, joins, live, elements, requests, permission,
                 recorded>>

-----------------------------------------------------------------------------
Init ==
  /\ now = 0
  /\ playback = [occ |-> 1, base |-> 0, playing |-> TRUE, since |-> 0, anchor |-> 0]
  /\ sessions = [b \in Browsers |-> 0] /\ joins = 0
  /\ grants = [b \in Browsers |-> NoGrant] /\ cursors = [b \in Browsers |-> NoCursor]
  /\ coverage = {} /\ outbox = {}
  /\ elements = [b \in Browsers |-> [audible |-> FALSE, reports |-> FALSE]]
  /\ requests = {}
  /\ permission = [allowed |-> TRUE, epoch |-> 1, gen |-> 0, since |-> 0]
  /\ recorded = {}
  /\ drain = {}

\* A player is where the room is, or still at the start of its medium.
Positions == {0} \union ({Canonical} \intersect 0..Duration)

Listening ==
  \/ \E b \in Browsers, position \in Positions : Report(b, position) \/ ChangeAudible(b, position)
  \/ \E r \in requests, position \in Positions : Answer(r, position)
  \/ \E r \in requests : GrantArrives(r)
  \/ \E b \in Browsers : Remount(b) \/ Ask(b) \/ Expire(b) \/ NoAnswer(b) \/ Join(b) \/ Leave(b)

Playing ==
  \/ \E base \in Cells, playing \in BOOLEAN : UpdatePlayback(playback.occ, base, playing)
  \/ UpdatePlayback(playback.occ + 1, 0, TRUE)
  \/ Tick

Durable ==
  \/ \E allowed \in BOOLEAN : SetConsent(allowed)
  \/ ClearHistory \/ RecordReceipts \/ AcknowledgeReceipts \/ DrainFails

Next == Listening \/ Playing \/ Durable

Spec == Init /\ [][Next]_vars

-----------------------------------------------------------------------------
(* Properties *)

Keys == (1..MaxUpdates + 1) \X (1..MaxChanges + 1) \X (0..MaxChanges)
Receipt == [key: Keys, cells: SUBSET Cells, first: 0..MaxNow, last: 0..MaxNow]

\* Types of all tables; a browser has a cursor only with a grant, no partition and no
\* receipt is there twice, and the limits of the room hold.
TypeOK ==
  /\ now \in 0..MaxNow
  /\ playback \in [occ: 1..MaxUpdates + 1, base: 0..Duration, playing: BOOLEAN,
                    since: 0..MaxNow, anchor: 0..MaxUpdates]
  /\ sessions \in [Browsers -> 0..MaxJoins] /\ joins \in 0..MaxJoins
  /\ \A b \in Browsers :
       /\ grants[b] # NoGrant =>
            grants[b].conn \in 1..joins /\ grants[b].epoch \in 1..permission.epoch
       /\ cursors[b] = NoCursor \/ grants[b] # NoGrant
       /\ elements[b] \in [audible: BOOLEAN, reports: BOOLEAN]
  /\ Cardinality({b \in Browsers : grants[b] # NoGrant}) <= GrantLimit
  /\ \A c, d \in coverage : c.key = d.key => c = d
  /\ \A c \in coverage : c.key \in Keys /\ c.cells \subseteq Cells /\ c.first < c.updated
  /\ Cardinality(coverage) <= PartitionLimit
  /\ outbox \subseteq Receipt /\ recorded \subseteq Receipt
  /\ \A r, s \in outbox : r.key = s.key => r = s
  /\ \A r, s \in recorded : r.key = s.key => r = s
  /\ Cardinality(outbox) <= OutboxLimit
  /\ Cardinality(requests) <= MaxRequests
  /\ drain \subseteq outbox

\* A partition that is done with has its receipt: it waits, or was recorded, or has
\* lost its permission; a lost answer, a drain that fails or a full outbox lose none.
EmittedIsKept ==
  \A c \in coverage :
    c.emitted => \/ \E r \in outbox \union recorded : r.key = c.key
                 \/ ~permission.allowed \/ c.key[2] # permission.epoch
                 \/ c.key[3] # permission.gen
=============================================================================
