----------------------- MODULE ListenerReceiptsProofs -----------------------
(***************************************************************************)
(* What is credited was heard or passed unwatched under a grant, and what  *)
(* counts was permitted, for any number of browsers, occurrences,          *)
(* connections and changes of permission.                                  *)
(***************************************************************************)
EXTENDS MCListenerReceipts, TLAPS

-----------------------------------------------------------------------------
(* Types *)

Key == Nat \X Nat \X Nat
Grant == [conn : Nat, epoch : Nat, gen : Nat, from : Nat, holds : BOOLEAN]
Cursor == [key : Key, at : Nat, anchor : Nat, pos : Nat, audible : BOOLEAN]
Request == [browser : Browsers, conn : Nat, epoch : Nat, gen : Nat, granted : BOOLEAN]
Playback == [occ : Nat, base : Nat, playing : BOOLEAN, since : Nat, anchor : Nat]
Permission == [allowed : BOOLEAN, epoch : Nat, gen : Nat, since : Nat]
Element == [audible : BOOLEAN, reports : BOOLEAN]

Types ==
  /\ now \in Nat /\ playback \in Playback /\ playback.since <= now
  /\ sessions \in [Browsers -> Nat] /\ joins \in Nat
  /\ grants \in [Browsers -> Grant] /\ cursors \in [Browsers -> Cursor]
  /\ elements \in [Browsers -> Element]
  /\ requests \subseteq Request /\ permission \in Permission

\* Whoever names an epoch or a generation has seen it begin, and a connection is made
\* before a grant for it is asked for.
Seen(epoch, gen) == epoch <= permission.epoch /\ gen <= permission.gen

Known ==
  /\ \A b \in Browsers :
       /\ Seen(grants[b].epoch, grants[b].gen) /\ grants[b].conn <= joins
       /\ Seen(cursors[b].key[2], cursors[b].key[3])
       /\ cursors[b].anchor <= playback.anchor /\ cursors[b].at <= now
       /\ sessions[b] <= joins
  /\ \A r \in requests : Seen(r.epoch, r.gen) /\ r.conn <= joins
  /\ \A r \in coverage \union outbox \union recorded :
       r.key \in Key /\ Seen(r.key[2], r.key[3])

LEMMA NoneTyped ==
  /\ NoGrant \in Grant /\ NoGrant.epoch = 0 /\ NoGrant.gen = 0 /\ NoGrant.conn = 0
  /\ NoGrant.holds = FALSE
  /\ NoCursor \in Cursor /\ NoCursor.key[2] = 0 /\ NoCursor.key[3] = 0
  /\ NoCursor.anchor = 0 /\ NoCursor.at = 0 /\ NoCursor.audible = FALSE
  <1>1. <<0, 0, 0>> \in Key
    BY DEF Key
  <1> QED BY <1>1 DEF NoGrant, NoCursor, Grant, Cursor

-----------------------------------------------------------------------------
(* What a room prunes, and where a player may be *)

LEMMA KeptRows ==
  ASSUME Types
  PROVE  /\ KeptGrants \in [Browsers -> Grant] /\ KeptCursors \in [Browsers -> Cursor]
         /\ KeptCoverage \subseteq coverage
         /\ \A b \in Browsers :
              \/ KeptGrants[b] = grants[b] /\ KeptCursors[b] = cursors[b]
              \/ KeptGrants[b] = NoGrant /\ KeptCursors[b] = NoCursor /\ ~grants[b].holds
         /\ \A b \in Browsers :
              KeptGrants[b] # NoGrant => KeptGrants[b] = grants[b] /\ grants[b].holds
  BY NoneTyped DEF Types, KeptGrants, KeptCursors, KeptCoverage, Expired

LEMMA CanonicalTyped ==
  ASSUME Types
  PROVE  /\ Canonical \in Nat
         /\ playback.playing => Canonical = playback.base + (now - playback.since)
  BY DEF Types, Playback, Canonical

LEMMA PositionTyped ==
  ASSUME Types, NEW position \in Positions
  PROVE  position \in Nat /\ position <= Duration
  BY CanonicalTyped, TimesAssumption DEF Positions

-----------------------------------------------------------------------------
(* What an interval covers *)

\* The units the room played since a cursor's report.
Since(cursor) ==
  {u \in Cells : /\ playback.base + (cursor.at - playback.since) <= u
                 /\ u < playback.base + (now - playback.since)}

\* The room has played on since, in the occurrence the cursor is of.
Follows(cursor) ==
  /\ cursor.audible /\ cursor.anchor = playback.anchor
  /\ playback.playing /\ cursor.key[1] = playback.occ

LEMMA QualifyingIsPlayed ==
  ASSUME Types, Known, NEW b \in Browsers, NEW position \in Positions, NEW audible \in BOOLEAN,
         Qualifies(cursors[b], grants[b], position, audible)
  PROVE  /\ Follows(cursors[b]) /\ cursors[b].key = Partition(grants[b])
         /\ cursors[b].pos..position - 1 \subseteq Since(cursors[b])
  <1> DEFINE k == cursors[b]
  <1>1. /\ k.key = Partition(grants[b]) /\ playback.playing /\ k.audible
        /\ k.anchor = playback.anchor
        /\ position - k.pos <= now - k.at /\ position = Canonical
    BY DEF Qualifies
  <1>2. k.pos \in Nat /\ k.at \in Nat /\ now \in Nat /\ k.at <= now
    BY DEF Types, Known, Cursor
  <1>3. playback.base \in Nat /\ playback.since \in Nat
    BY DEF Types, Playback
  <1>4. position = playback.base + (now - playback.since)
    BY <1>1, CanonicalTyped
  <1>5. position \in Nat /\ position <= Duration
    BY PositionTyped
  <1>6. k.key[1] = playback.occ
    BY <1>1 DEF Partition
  <1>7. ASSUME NEW u \in k.pos..position - 1 PROVE u \in Since(k)
    <2>1. u \in Int /\ k.pos <= u /\ u <= position - 1
      BY <1>2, <1>5
    <2>2. u \in Cells
      BY <1>2, <1>5, <2>1, TimesAssumption DEF Cells
    <2>3. playback.base + (k.at - playback.since) <= u
      BY <1>1, <1>2, <1>3, <1>4, <1>5, <2>1
    <2>4. u < playback.base + (now - playback.since)
      BY <1>4, <1>5, <2>1
    <2> QED BY <2>2, <2>3, <2>4 DEF Since
  <1> QED BY <1>1, <1>6, <1>7 DEF Follows

-----------------------------------------------------------------------------
(* What a report does *)

\* A row of the grant's partition: what was covered before, and the qualifying interval.
Merged(b, position, audible, row) ==
  /\ row.key = Partition(grants[b])
  /\ \A u \in row.cells :
       \/ \E old \in coverage : old.key = row.key /\ u \in old.cells
       \/ /\ Qualifies(cursors[b], grants[b], position, audible)
          /\ u \in cursors[b].pos..position - 1

\* The report is taken: the cursor is that of the report.
Taken(b, position, audible) ==
  /\ Accepts(b)
  /\ grants' \in [Browsers -> Grant] /\ cursors' \in [Browsers -> Cursor]
  /\ cursors'[b].key = Partition(grants[b]) /\ cursors'[b].at = now
  /\ cursors'[b].audible = audible /\ cursors'[b].anchor <= playback.anchor
  /\ grants'[b] = grants[b]
  /\ \A d \in Browsers : d # b =>
       \/ grants'[d] = grants[d] /\ cursors'[d] = cursors[d]
       \/ grants'[d] = NoGrant /\ cursors'[d] = NoCursor
  /\ \A r \in coverage' : r \in coverage \/ Merged(b, position, audible, r)
  /\ \A r \in outbox' : r \in outbox \/ Merged(b, position, audible, r)

LEMMA CoverMerges ==
  ASSUME NEW b \in Browsers, NEW position, NEW audible, NEW key, NEW old, NEW cells, NEW first,
         Cover(key, old, cells, first), old \subseteq coverage, KeptCoverage \subseteq coverage,
         key = Partition(grants[b]),
         \A u \in cells : \/ \E o \in coverage : o.key = key /\ u \in o.cells
                          \/ /\ Qualifies(cursors[b], grants[b], position, audible)
                             /\ u \in cursors[b].pos..position - 1
  PROVE  /\ \A r \in coverage' : r \in coverage \/ Merged(b, position, audible, r)
         /\ \A r \in outbox' : r \in outbox \/ Merged(b, position, audible, r)
  <1> DEFINE row == [key |-> key, cells |-> cells, first |-> first, updated |-> now,
                     emitted |-> Emits(cells)]
             receipt == [key |-> key, cells |-> cells, first |-> first, last |-> now]
  <1>1. Merged(b, position, audible, row) /\ Merged(b, position, audible, receipt)
    BY DEF Merged
  <1>2. coverage' \subseteq coverage \union {row} /\ outbox' \subseteq outbox \union {receipt}
    BY DEF Cover
  <1> QED BY <1>1, <1>2

LEMMA CreditTakes ==
  ASSUME Types, NEW b \in Browsers, NEW position \in Positions, NEW audible \in BOOLEAN,
         NEW cursor \in Cursor, Accepts(b), Credit(b, cursor),
         Qualifies(cursors[b], grants[b], position, audible),
         cursor.key = Partition(grants[b]), cursor.at = now, cursor.audible = audible,
         cursor.anchor <= playback.anchor, cursor.pos = position
  PROVE  Taken(b, position, audible)
  <1> DEFINE old == {c \in coverage : c.key = cursor.key}
             added == cursors[b].pos..cursor.pos - 1
  <1>1. grants[b].holds
    BY DEF Accepts
  <1>2. /\ KeptGrants \in [Browsers -> Grant] /\ KeptCursors \in [Browsers -> Cursor]
        /\ KeptCoverage \subseteq coverage /\ KeptGrants[b] = grants[b]
        /\ \A d \in Browsers : \/ KeptGrants[d] = grants[d] /\ KeptCursors[d] = cursors[d]
                               \/ KeptGrants[d] = NoGrant /\ KeptCursors[d] = NoCursor
    BY <1>1, KeptRows
  <1>3. \A u \in added : /\ Qualifies(cursors[b], grants[b], position, audible)
                         /\ u \in cursors[b].pos..position - 1
    OBVIOUS
  <1>6. old \subseteq coverage /\ cursor.key = Partition(grants[b])
    OBVIOUS
  <1>4. CASE old # {}
    <2> DEFINE c == CHOOSE c \in old : TRUE
    <2>1. c \in coverage /\ c.key = cursor.key
      BY <1>4
    <2>2. /\ IF c.emitted THEN UNCHANGED <<coverage, outbox>>
             ELSE Cover(cursor.key, old, c.cells \union added, c.first)
          /\ cursors' = [cursors EXCEPT ![b] = cursor] /\ grants' = grants
      BY <1>4 DEF Credit
    <2> HIDE DEF c, added, old
    <2>3. /\ \A r \in coverage' : r \in coverage \/ Merged(b, position, audible, r)
          /\ \A r \in outbox' : r \in outbox \/ Merged(b, position, audible, r)
      <3>1. CASE c.emitted
        BY <2>2, <3>1
      <3>2. CASE ~c.emitted
        <4>1. \A u \in c.cells \union added :
                \/ \E o \in coverage : o.key = cursor.key /\ u \in o.cells
                \/ /\ Qualifies(cursors[b], grants[b], position, audible)
                   /\ u \in cursors[b].pos..position - 1
          BY <1>3, <2>1
        <4> QED
          <5>1. Cover(cursor.key, old, c.cells \union added, c.first)
            BY <2>2, <3>2
          <5> QED BY <1>2, <1>6, <4>1, <5>1, CoverMerges
      <3> QED BY <3>1, <3>2
    <2> QED BY <2>2, <2>3 DEF Taken, Types
  <1>5. CASE old = {}
    <2>1. /\ IF Cardinality(KeptCoverage) >= PartitionLimit
             THEN coverage' = KeptCoverage /\ outbox' = outbox
             ELSE Cover(cursor.key, {}, added, cursors[b].at)
          /\ grants' = KeptGrants /\ cursors' = [KeptCursors EXCEPT ![b] = cursor]
      BY <1>5 DEF Credit
    <2> HIDE DEF added
    <2>2. /\ \A r \in coverage' : r \in coverage \/ Merged(b, position, audible, r)
          /\ \A r \in outbox' : r \in outbox \/ Merged(b, position, audible, r)
      <3>1. CASE Cardinality(KeptCoverage) >= PartitionLimit
        BY <1>2, <2>1, <3>1
      <3>2. CASE ~(Cardinality(KeptCoverage) >= PartitionLimit)
        <4> DEFINE none == {}
        <4>1. Cover(cursor.key, none, added, cursors[b].at) /\ none \subseteq coverage
          BY <2>1, <3>2
        <4>2. \A u \in added :
                \/ \E o \in coverage : o.key = cursor.key /\ u \in o.cells
                \/ /\ Qualifies(cursors[b], grants[b], position, audible)
                   /\ u \in cursors[b].pos..position - 1
          BY <1>3
        <4> HIDE DEF none
        <4> QED BY <1>2, <1>6, <4>1, <4>2, CoverMerges
      <3> QED BY <3>1, <3>2
    <2> QED BY <1>2, <2>1, <2>2 DEF Taken
  <1> QED BY <1>4, <1>5

\* A report is taken, or nothing is written: the room takes none of this browser, or has
\* one of this instant that says the same.
LEMMA ObservedDoes ==
  ASSUME Types, NEW b \in Browsers, NEW position \in Positions, NEW audible \in BOOLEAN,
         Observed(b, position, audible)
  PROVE  \/ UNCHANGED live /\ (~Accepts(b) \/ cursors[b].audible = audible)
         \/ Taken(b, position, audible)
  <1> DEFINE cursor == [key |-> Partition(grants[b]), at |-> now, audible |-> audible,
                        anchor |-> IF audible THEN playback.anchor ELSE 0,
                        pos |-> IF audible THEN position ELSE 0]
  <1>1. /\ Partition(grants[b]) \in Key /\ playback.anchor \in Nat
        /\ position \in Nat /\ now \in Nat
    BY PositionTyped DEF Types, Grant, Playback, Partition, Key
  <1>2. /\ cursor \in Cursor /\ cursor.key = Partition(grants[b]) /\ cursor.at = now
        /\ cursor.audible = audible /\ cursor.anchor <= playback.anchor
        /\ audible => cursor.pos = position
    BY <1>1 DEF Cursor
  <1>3. CASE ~Accepts(b) \/ Throttled(cursors[b], cursor.key, audible)
    BY <1>3 DEF Observed, Throttled
  <1>4. CASE Accepts(b) /\ ~Throttled(cursors[b], cursor.key, audible)
    <2>1. IF Qualifies(cursors[b], grants[b], position, audible) THEN Credit(b, cursor)
          ELSE /\ cursors' = [cursors EXCEPT ![b] = cursor]
               /\ UNCHANGED <<grants, coverage, outbox>>
      BY <1>4 DEF Observed
    <2> HIDE DEF cursor
    <2>2. CASE Qualifies(cursors[b], grants[b], position, audible)
      <3>1. audible
        BY <2>2 DEF Qualifies
      <3> QED BY <1>2, <1>4, <2>1, <2>2, <3>1, CreditTakes
    <2>3. CASE ~Qualifies(cursors[b], grants[b], position, audible)
      BY <1>2, <1>4, <2>1, <2>3 DEF Taken, Types
    <2> QED BY <2>2, <2>3
  <1> QED BY <1>3, <1>4

-----------------------------------------------------------------------------
(* The kinds of steps *)

\* Rows are kept, moved or removed.  A cursor that stays is of the same grant, under which
\* the browser reports no more than before.
Rests ==
  /\ UNCHANGED <<now, playback, permission>>
  /\ sessions' \in [Browsers -> Nat] /\ joins' \in Nat /\ joins <= joins'
  /\ grants' \in [Browsers -> Grant] /\ cursors' \in [Browsers -> Cursor]
  /\ elements' \in [Browsers -> Element] /\ requests' \subseteq Request
  /\ \A d \in Browsers :
       Seen(grants'[d].epoch, grants'[d].gen) /\ grants'[d].conn <= joins' /\ sessions'[d] <= joins'
  /\ \A r \in requests' : Seen(r.epoch, r.gen) /\ r.conn <= joins'
  /\ coverage' \subseteq coverage /\ outbox' \subseteq outbox
  /\ recorded' \subseteq recorded \union outbox
  /\ \A d \in Browsers :
       \/ cursors'[d] = NoCursor
       \/ /\ cursors'[d] = cursors[d]
          /\ Accepts(d)' => Accepts(d)
          /\ Accepts(d)' /\ elements'[d].reports =>
               elements[d].reports /\ elements'[d].audible = elements[d].audible

\* A browser reports on its element.
Observes(b, position, audible) ==
  /\ UNCHANGED <<now, playback, permission, sessions, joins, recorded>>
  /\ Observed(b, position, audible)
  /\ requests' \subseteq requests /\ elements' \in [Browsers -> Element]
  /\ elements'[b].audible = audible
  /\ \A d \in Browsers : d # b => elements'[d] = elements[d]

\* Epoch or generation is new, or nobody is allowed to listen.
Decides ==
  /\ UNCHANGED <<now, playback, sessions, joins, live, elements, requests, recorded>>
  /\ permission' \in Permission
  /\ permission.epoch <= permission'.epoch /\ permission.gen <= permission'.gen
  /\ permission' = permission \/ permission.epoch < permission'.epoch
     \/ permission.gen < permission'.gen

\* Only elements and requests change, and who is heard otherwise now reports nothing.
LEMMA PageRests ==
  ASSUME Types, Known,
         UNCHANGED <<now, playback, sessions, joins, live, permission, recorded>>,
         elements' \in [Browsers -> Element], requests' \subseteq Request,
         \A r \in requests' : Seen(r.epoch, r.gen) /\ r.conn <= joins,
         \A d \in Browsers : elements'[d].reports => elements'[d] = elements[d]
  PROVE  Rests
  <1>1. UNCHANGED <<grants, cursors, coverage, outbox>>
    BY DEF live
  <1>2. \A d \in Browsers : Accepts(d)' => Accepts(d)
    BY <1>1 DEF Accepts
  <1>3. /\ sessions' \in [Browsers -> Nat] /\ joins' \in Nat /\ joins <= joins'
        /\ grants' \in [Browsers -> Grant] /\ cursors' \in [Browsers -> Cursor]
    BY <1>1 DEF Types
  <1>4. \A d \in Browsers :
          Seen(grants'[d].epoch, grants'[d].gen) /\ grants'[d].conn <= joins /\ sessions[d] <= joins
    BY <1>1 DEF Known
  <1> QED BY <1>1, <1>2, <1>3, <1>4 DEF Rests

LEMMA GrantRests ==
  ASSUME Types, Known, NEW r \in requests, GrantArrives(r)
  PROVE  Rests
  <1> DEFINE b == r.browser
             new == [conn |-> r.conn, epoch |-> r.epoch, gen |-> r.gen, holds |-> TRUE,
                     from |-> IF Resets(KeptGrants[b], r) THEN now ELSE KeptGrants[b].from]
             full == KeptGrants[b] = NoGrant
                     /\ Cardinality({x \in Browsers : KeptGrants[x] # NoGrant}) >= GrantLimit
             other == [r EXCEPT !.granted = TRUE]
  <1>1. r \in Request /\ b \in Browsers /\ Seen(r.epoch, r.gen) /\ r.conn <= joins
    BY DEF Types, Request, Known
  <1>2. /\ other \in Request /\ other.epoch = r.epoch /\ other.gen = r.gen /\ other.conn = r.conn
    BY <1>1 DEF Request
  <1>3. /\ UNCHANGED <<now, playback, sessions, joins, outbox, elements, permission, recorded>>
        /\ requests' = (requests \ {r}) \union {other}
        /\ IF sessions[b] # r.conn THEN UNCHANGED <<grants, cursors, coverage>>
           ELSE /\ coverage' = KeptCoverage
                /\ grants' = IF full THEN KeptGrants ELSE [KeptGrants EXCEPT ![b] = new]
                /\ cursors' = IF full \/ ~Resets(KeptGrants[b], r) THEN KeptCursors
                              ELSE [KeptCursors EXCEPT ![b] = NoCursor]
    BY DEF GrantArrives
  <1> HIDE DEF full, other
  <1>4. /\ requests' \subseteq Request
        /\ \A x \in requests' : Seen(x.epoch, x.gen) /\ x.conn <= joins
    BY <1>1, <1>2, <1>3 DEF Types, Known
  <1>5. CASE sessions[b] # r.conn
    BY <1>3, <1>4, <1>5, PageRests DEF Types, live
  <1>6. CASE sessions[b] = r.conn
    <2>1. /\ KeptGrants \in [Browsers -> Grant] /\ KeptCursors \in [Browsers -> Cursor]
          /\ KeptCoverage \subseteq coverage
          /\ \A d \in Browsers :
               \/ KeptGrants[d] = grants[d] /\ KeptCursors[d] = cursors[d]
               \/ KeptGrants[d] = NoGrant /\ KeptCursors[d] = NoCursor
          /\ \A d \in Browsers :
               KeptGrants[d] # NoGrant => KeptGrants[d] = grants[d] /\ grants[d].holds
      BY KeptRows
    <2>2. /\ new \in Grant /\ new.epoch = r.epoch /\ new.gen = r.gen /\ new.conn = r.conn
      BY <1>1, <2>1 DEF Types, Grant, Request
    <2>3. coverage' = KeptCoverage /\ coverage' \subseteq coverage
      BY <1>3, <1>6, <2>1
    <2>4. /\ grants' = IF full THEN KeptGrants ELSE [KeptGrants EXCEPT ![b] = new]
          /\ cursors' = IF full \/ ~Resets(KeptGrants[b], r) THEN KeptCursors
                        ELSE [KeptCursors EXCEPT ![b] = NoCursor]
      BY <1>3, <1>6
    <2> HIDE DEF new
    <2>5. grants' \in [Browsers -> Grant] /\ cursors' \in [Browsers -> Cursor]
      BY <2>1, <2>2, <2>4, NoneTyped
    <2>6. \A d \in Browsers : Seen(KeptGrants[d].epoch, KeptGrants[d].gen) /\ KeptGrants[d].conn <= joins
      BY <2>1, NoneTyped DEF Known, Types, Seen, Permission
    <2>7. \A d \in Browsers : Seen(grants'[d].epoch, grants'[d].gen) /\ grants'[d].conn <= joins
      BY <1>1, <2>1, <2>2, <2>4, <2>6
    <2>8. ASSUME NEW d \in Browsers, cursors'[d] # NoCursor
          PROVE  cursors'[d] = cursors[d] /\ (Accepts(d)' => Accepts(d))
      <3>1. cursors'[d] = KeptCursors[d] /\ KeptCursors[d] # NoCursor
        BY <1>1, <2>1, <2>4, <2>8
      <3>2. cursors'[d] = cursors[d] /\ KeptGrants[d] = grants[d]
        BY <2>1, <3>1
      <3>3. CASE grants'[d] = KeptGrants[d]
        BY <1>3, <3>2, <3>3 DEF Accepts
      <3>4. CASE grants'[d] # KeptGrants[d]
        <4>1. d = b /\ ~full /\ ~Resets(KeptGrants[b], r)
          BY <1>1, <2>1, <2>4, <2>8, <3>4
        <4>2. grants[b] # NoGrant /\ grants[b].holds /\ grants[b].conn = r.conn
          BY <2>1, <3>2, <4>1 DEF Resets
        <4> QED BY <1>3, <1>6, <3>2, <4>1, <4>2 DEF Accepts
      <3> QED BY <3>2, <3>3, <3>4
    <2> QED BY <1>3, <1>4, <2>3, <2>5, <2>7, <2>8 DEF Rests, Types, Known
  <1> QED BY <1>5, <1>6

LEMMA ExpireRests ==
  ASSUME Types, Known, NEW b \in Browsers, Expire(b)
  PROVE  Rests
  <1>1. /\ UNCHANGED <<now, playback, sessions, joins, cursors, coverage, outbox, requests,
                       permission, recorded>>
        /\ grants' = [grants EXCEPT ![b].holds = FALSE]
        /\ elements' = [elements EXCEPT ![b].reports = FALSE]
    BY DEF Expire
  <1>2. /\ grants' \in [Browsers -> Grant] /\ elements' \in [Browsers -> Element]
        /\ \A d \in Browsers : d # b => grants'[d] = grants[d] /\ elements'[d] = elements[d]
        /\ grants'[b].epoch = grants[b].epoch /\ grants'[b].gen = grants[b].gen
        /\ grants'[b].conn = grants[b].conn /\ grants'[b].holds = FALSE
    BY <1>1 DEF Types, Grant, Element
  <1>3. ~Accepts(b)'
    BY <1>2 DEF Accepts
  <1>4. \A d \in Browsers : Accepts(d)' => Accepts(d) /\ elements'[d] = elements[d]
    BY <1>1, <1>2, <1>3 DEF Accepts
  <1>5. \A d \in Browsers : Seen(grants'[d].epoch, grants'[d].gen) /\ grants'[d].conn <= joins
    BY <1>2 DEF Known
  <1> QED BY <1>1, <1>2, <1>4, <1>5 DEF Rests, Types, Known

LEMMA JoinRests ==
  ASSUME Types, Known, NEW b \in Browsers, Join(b)
  PROVE  Rests
  <1>1. /\ UNCHANGED <<now, playback, grants, cursors, coverage, outbox, requests, permission,
                       recorded>>
        /\ joins' = joins + 1 /\ sessions' = [sessions EXCEPT ![b] = joins + 1]
        /\ elements' = [elements EXCEPT ![b].reports = FALSE]
    BY DEF Join, live
  <1>2. /\ elements' \in [Browsers -> Element] /\ sessions' \in [Browsers -> Nat]
        /\ joins' \in Nat /\ joins <= joins'
        /\ \A d \in Browsers : d # b => sessions'[d] = sessions[d] /\ elements'[d] = elements[d]
        /\ sessions'[b] = joins + 1
    <2>1. joins + 1 \in Nat /\ joins <= joins + 1
      BY DEF Types
    <2>2. /\ elements' \in [Browsers -> Element]
          /\ \A d \in Browsers : d # b => elements'[d] = elements[d]
      BY <1>1 DEF Types, Element
    <2>3. /\ sessions' \in [Browsers -> Nat] /\ sessions'[b] = joins + 1
          /\ \A d \in Browsers : d # b => sessions'[d] = sessions[d]
      BY <1>1, <2>1 DEF Types
    <2> QED BY <1>1, <2>1, <2>2, <2>3
  <1>3. \A d \in Browsers : grants[d].conn \in Nat /\ grants[d].conn <= joins
    BY DEF Types, Grant, Known
  <1>4. ~Accepts(b)'
    BY <1>1, <1>2, <1>3 DEF Accepts, Types
  <1>5. \A d \in Browsers : Accepts(d)' => Accepts(d) /\ elements'[d] = elements[d]
    BY <1>1, <1>2, <1>4 DEF Accepts
  <1>6. \A d \in Browsers :
          Seen(grants[d].epoch, grants[d].gen) /\ grants[d].conn <= joins' /\ sessions'[d] <= joins'
    <2>1. \A d \in Browsers : sessions[d] \in Nat /\ sessions[d] <= joins
      BY DEF Types, Known
    <2> QED BY <1>1, <1>2, <1>3, <2>1 DEF Known, Types
  <1>7. \A r \in requests : Seen(r.epoch, r.gen) /\ r.conn <= joins'
    BY <1>1 DEF Known, Types, Request
  <1> QED BY <1>1, <1>2, <1>5, <1>6, <1>7 DEF Rests, Types

LEMMA ListeningKinds ==
  ASSUME Types, Known, Listening
  PROVE  \/ Rests
         \/ \E b \in Browsers, position \in Positions, audible \in BOOLEAN :
              Observes(b, position, audible)
  <1>0. /\ \A b \in Browsers : elements[b] \in Element /\ elements[b].audible \in BOOLEAN
        /\ \A b \in Browsers : sessions[b] \in Nat
    BY DEF Types, Element
  <1>1. ASSUME NEW b \in Browsers, NEW position \in Positions, Report(b, position)
        PROVE  Observes(b, position, elements[b].audible)
    BY <1>1 DEF Report, Observes, Types
  <1>2. ASSUME NEW b \in Browsers, NEW position \in Positions, ChangeAudible(b, position)
        PROVE  Rests \/ Observes(b, position, ~elements[b].audible)
    <2>1. /\ elements' \in [Browsers -> Element] /\ elements'[b].audible = ~elements[b].audible
          /\ elements'[b].reports = elements[b].reports
          /\ \A d \in Browsers : d # b => elements'[d] = elements[d]
      BY <1>0, <1>2 DEF ChangeAudible, Types, Element
    <2>2. CASE Reports(b, elements[b].reports)
      BY <1>2, <2>1, <2>2 DEF ChangeAudible, Observes
    <2>3. CASE ~Reports(b, elements[b].reports)
      BY <1>2, <2>1, <2>3 DEF ChangeAudible, Rests, Reports, Accepts, Types, Known, live
    <2> QED BY <2>2, <2>3
  <1>3. ASSUME NEW r \in requests, NEW position \in Positions, Answer(r, position)
        PROVE  Rests \/ Observes(r.browser, position, elements[r.browser].audible)
    <2>0. r.browser \in Browsers
      BY DEF Types, Request
    <2>1. /\ elements' \in [Browsers -> Element]
          /\ elements'[r.browser].audible = elements[r.browser].audible
          /\ \A d \in Browsers : d # r.browser => elements'[d] = elements[d]
      BY <1>0, <1>3, <2>0 DEF Answer, Types, Element
    <2>2. CASE Reports(r.browser, TRUE)
      BY <1>3, <2>0, <2>1, <2>2 DEF Answer, Observes
    <2>3. CASE ~Reports(r.browser, TRUE)
      BY <1>3, <2>0, <2>1, <2>3 DEF Answer, Rests, Reports, Accepts, Types, Known, live
    <2> QED BY <2>2, <2>3
  <1>4. ASSUME NEW r \in requests, GrantArrives(r) PROVE Rests
    BY <1>4, GrantRests
  <1>5. ASSUME NEW b \in Browsers, Remount(b) PROVE Rests
    <2>1. /\ elements' \in [Browsers -> Element]
          /\ \A d \in Browsers : elements'[d].reports => elements'[d] = elements[d]
      BY <1>5 DEF Remount, Types, Element
    <2> QED BY <1>5, <2>1, PageRests DEF Remount, Types, Known
  <1>6. ASSUME NEW b \in Browsers, Ask(b) PROVE Rests
    <2> DEFINE request == [browser |-> b, conn |-> sessions[b], epoch |-> permission.epoch,
                           gen |-> permission.gen, granted |-> FALSE]
    <2>1. /\ request \in Request /\ Seen(request.epoch, request.gen) /\ request.conn <= joins
      BY <1>0 DEF Types, Request, Permission, Seen, Known
    <2>2. /\ elements' \in [Browsers -> Element]
          /\ \A d \in Browsers : elements'[d].reports => elements'[d] = elements[d]
      BY <1>6 DEF Ask, Types, Element
    <2>3. requests' \subseteq requests \union {request}
      BY <1>6 DEF Ask
    <2> HIDE DEF request
    <2> QED BY <1>6, <2>1, <2>2, <2>3, PageRests DEF Ask, Types, Known
  <1>7. ASSUME NEW b \in Browsers, Expire(b) PROVE Rests
    BY <1>7, ExpireRests
  <1>8. ASSUME NEW b \in Browsers, NoAnswer(b) PROVE Rests
    <2>1. /\ elements' \in [Browsers -> Element]
          /\ \A d \in Browsers : elements'[d].reports => elements'[d] = elements[d]
      BY <1>8 DEF NoAnswer, Types, Element
    <2>2. requests' \subseteq requests
      BY <1>8 DEF NoAnswer
    <2> QED BY <1>8, <2>1, <2>2, PageRests DEF NoAnswer, Types, Known
  <1>9. ASSUME NEW b \in Browsers, Join(b) PROVE Rests
    BY <1>9, JoinRests
  <1>10. ASSUME NEW b \in Browsers, Leave(b) PROVE Rests
    BY <1>0, <1>10 DEF Leave, Rests, Accepts, Types, Known, live
  <1>11. CASE \E b \in Browsers, position \in Positions :
                Report(b, position) \/ ChangeAudible(b, position)
    BY <1>0, <1>1, <1>2, <1>11
  <1>12. CASE \E r \in requests, position \in Positions : Answer(r, position)
    <2>1. \A r \in requests : r.browser \in Browsers
      BY DEF Types, Request
    <2> QED BY <1>0, <1>3, <1>12, <2>1
  <1> QED BY <1>4, <1>5, <1>6, <1>7, <1>8, <1>9, <1>10, <1>11, <1>12 DEF Listening

\* The drain and the acknowledgement keep, move or remove rows.
LEMMA DrainRests ==
  ASSUME Types, Known, RecordReceipts \/ AcknowledgeReceipts \/ DrainFails
  PROVE  Rests
  <1>1. CASE RecordReceipts
    <2>1. /\ UNCHANGED <<now, playback, sessions, joins, outbox, elements, requests, permission>>
          /\ recorded' \subseteq recorded \union outbox
          /\ grants' = KeptGrants /\ cursors' = KeptCursors /\ coverage' = KeptCoverage
      BY <1>1 DEF RecordReceipts, Ingested
    <2>2. /\ grants' \in [Browsers -> Grant] /\ cursors' \in [Browsers -> Cursor]
          /\ coverage' \subseteq coverage
          /\ \A d \in Browsers : \/ grants'[d] = grants[d] /\ cursors'[d] = cursors[d]
                                 \/ grants'[d] = NoGrant /\ cursors'[d] = NoCursor
      BY <2>1, KeptRows
    <2>3. \A d \in Browsers : Seen(grants'[d].epoch, grants'[d].gen) /\ grants'[d].conn <= joins
      BY <2>2, NoneTyped DEF Known, Types, Seen, Permission
    <2>4. \A d \in Browsers : grants'[d] = grants[d] => (Accepts(d)' => Accepts(d))
      BY <2>1 DEF Accepts
    <2> QED BY <2>1, <2>2, <2>3, <2>4 DEF Rests, Types, Known
  <1>2. CASE AcknowledgeReceipts \/ DrainFails
    <2>1. /\ UNCHANGED <<now, playback, sessions, joins, grants, cursors, coverage, elements,
                         requests, permission, recorded>>
          /\ outbox' \subseteq outbox
      BY <1>2 DEF AcknowledgeReceipts, DrainFails, Acknowledged, live
    <2>2. \A d \in Browsers : Accepts(d)' => Accepts(d)
      BY <2>1 DEF Accepts
    <2> QED BY <2>1, <2>2 DEF Rests, Types, Known
  <1> QED BY <1>1, <1>2

LEMMA DecisionKinds ==
  ASSUME Types, (\E allowed \in BOOLEAN : SetConsent(allowed)) \/ ClearHistory
  PROVE  Decides
  <1>1. ASSUME NEW allowed \in BOOLEAN, SetConsent(allowed) PROVE Decides
    <2> DEFINE since == IF allowed THEN now ELSE permission.since
               epoch == permission.epoch + 1
    <2>1. since \in Nat /\ epoch \in Nat /\ permission.epoch < epoch
      BY DEF Types, Permission
    <2>2. permission' = [permission EXCEPT !.allowed = allowed, !.epoch = epoch, !.since = since]
      BY <1>1 DEF SetConsent
    <2> HIDE DEF since, epoch
    <2>3. /\ permission' \in Permission /\ permission'.epoch = epoch
          /\ permission'.gen = permission.gen
      BY <2>1, <2>2 DEF Types, Permission
    <2>4. /\ permission.epoch <= permission'.epoch /\ permission.gen <= permission'.gen
          /\ permission.epoch < permission'.epoch
      BY <2>1, <2>3 DEF Types, Permission
    <2> QED BY <1>1, <2>3, <2>4 DEF SetConsent, Decides
  <1>2. CASE ClearHistory
    <2> DEFINE gen == permission.gen + 1
    <2>1. gen \in Nat /\ permission.gen < gen /\ now \in Nat
      BY DEF Types, Permission
    <2>2. permission' = [permission EXCEPT !.gen = gen, !.since = now]
      BY <1>2 DEF ClearHistory
    <2> HIDE DEF gen
    <2>3. /\ permission' \in Permission /\ permission'.gen = gen
          /\ permission'.epoch = permission.epoch
      BY <2>1, <2>2 DEF Types, Permission
    <2>4. /\ permission.epoch <= permission'.epoch /\ permission.gen <= permission'.gen
          /\ permission.gen < permission'.gen
      BY <2>1, <2>3 DEF Types, Permission
    <2> QED BY <1>2, <2>3, <2>4 DEF ClearHistory, Decides
  <1> QED BY <1>1, <1>2

\* Another occurrence, place or state of the room.
Updates ==
  /\ UNCHANGED <<now, sessions, joins, live, elements, requests, permission, recorded>>
  /\ playback' \in Playback /\ playback'.since = now /\ playback'.anchor = playback.anchor + 1

LEMMA PlayingKinds ==
  ASSUME Types, Playing
  PROVE  Updates \/ Tick
  <1>1. ASSUME NEW occ \in Nat, NEW base \in Nat, NEW playing \in BOOLEAN,
               UpdatePlayback(occ, base, playing)
        PROVE  Updates
    <2>1. playback.anchor + 1 \in Nat /\ now \in Nat
      BY DEF Types, Playback
    <2>2. playback' = [occ |-> occ, base |-> base, playing |-> playing, since |-> now,
                       anchor |-> playback.anchor + 1]
      BY <1>1 DEF UpdatePlayback
    <2>3. playback' \in Playback /\ playback'.since = now /\ playback'.anchor = playback.anchor + 1
      BY <2>1, <2>2 DEF Playback
    <2> QED BY <1>1, <2>3 DEF UpdatePlayback, Updates
  <1>2. playback.occ \in Nat /\ playback.occ + 1 \in Nat /\ 0 \in Nat /\ Cells \subseteq Nat
    BY TimesAssumption DEF Types, Playback, Cells
  <1> QED BY <1>1, <1>2 DEF Playing

\* Every step is of one of these kinds.
LEMMA StepKinds ==
  ASSUME Types, Known, Next
  PROVE  \/ Rests \/ Decides \/ Updates \/ Tick
         \/ \E b \in Browsers, position \in Positions, audible \in BOOLEAN :
              Observes(b, position, audible)
  BY ListeningKinds, PlayingKinds, DecisionKinds, DrainRests DEF Next, Durable

-----------------------------------------------------------------------------
(* Types and knowledge are preserved *)

LEMMA ObservesPreserves ==
  ASSUME Types, Known, NEW b \in Browsers, NEW position \in Positions, NEW audible \in BOOLEAN,
         Observes(b, position, audible)
  PROVE  Types' /\ Known'
  <1>1. /\ UNCHANGED <<now, playback, permission, sessions, joins, recorded>>
        /\ Observed(b, position, audible) /\ requests' \subseteq requests
        /\ elements' \in [Browsers -> Element]
    BY DEF Observes
  <1>2. CASE UNCHANGED live
    BY <1>1, <1>2 DEF Types, Known, live, Seen
  <1>3. CASE Taken(b, position, audible)
    <2>1. Types'
      BY <1>1, <1>3 DEF Taken, Types
    <2>2. Seen(grants[b].epoch, grants[b].gen)
      BY DEF Known
    <2>3. /\ Partition(grants[b])[2] = grants[b].epoch /\ Partition(grants[b])[3] = grants[b].gen
      BY DEF Partition
    <2>4. \A d \in Browsers : /\ Seen(grants'[d].epoch, grants'[d].gen) /\ grants'[d].conn <= joins
      BY <1>3, NoneTyped DEF Taken, Known, Types, Seen, Permission
    <2>5. \A d \in Browsers : /\ Seen(cursors'[d].key[2], cursors'[d].key[3])
                              /\ cursors'[d].anchor <= playback.anchor /\ cursors'[d].at <= now
      BY <1>3, <2>2, <2>3, NoneTyped DEF Taken, Known, Types, Seen, Permission, Playback
    <2>6. \A r \in coverage' \union outbox' : r.key \in Key /\ Seen(r.key[2], r.key[3])
      <3>1. Partition(grants[b]) \in Key
        BY DEF Types, Grant, Playback, Partition, Key
      <3> QED BY <1>3, <2>2, <2>3, <3>1 DEF Taken, Merged, Known
    <2> QED BY <1>1, <2>1, <2>4, <2>5, <2>6 DEF Known, Seen
  <1> QED BY <1>1, <1>2, <1>3, ObservedDoes

LEMMA CorePreserved ==
  ASSUME Types, Known, [Next]_vars
  PROVE  Types' /\ Known'
  <1>1. CASE UNCHANGED vars
    BY <1>1 DEF vars, live, Types, Known, Seen
  <1>2. CASE Rests
    <2>1. Types'
      BY <1>2 DEF Rests, Types
    <2>2. \A d \in Browsers : /\ Seen(cursors'[d].key[2], cursors'[d].key[3])
                              /\ cursors'[d].anchor <= playback.anchor /\ cursors'[d].at <= now
      BY <1>2, NoneTyped DEF Rests, Known, Types, Seen, Permission, Playback
    <2> QED BY <1>2, <2>1, <2>2 DEF Rests, Known, Seen
  <1>3. CASE Decides
    <2>1. permission \in Permission
      BY DEF Types
    <2>2. UNCHANGED <<grants, cursors, coverage, outbox, requests, recorded, joins, sessions,
                      now, playback, elements>>
      BY <1>3 DEF Decides, live
    <2>3. Types'
      BY <1>3, <2>2 DEF Decides, Types
    <2>4. \A e, g \in Nat : Seen(e, g) => Seen(e, g)'
      BY <1>3, <2>1 DEF Decides, Seen, Permission
    <2>5. /\ \A d \in Browsers : /\ grants[d].epoch \in Nat /\ grants[d].gen \in Nat
                                 /\ cursors[d].key[2] \in Nat /\ cursors[d].key[3] \in Nat
          /\ \A r \in requests : r.epoch \in Nat /\ r.gen \in Nat
          /\ \A r \in coverage \union outbox \union recorded :
               r.key[2] \in Nat /\ r.key[3] \in Nat
      BY DEF Types, Known, Grant, Cursor, Key, Request
    <2> QED BY <2>2, <2>3, <2>4, <2>5 DEF Known
  <1>4. CASE Updates
    BY <1>4 DEF Updates, live, Types, Known, Seen, Playback, Cursor
  <1>5. CASE Tick
    BY <1>5 DEF Tick, live, Types, Known, Seen, Playback, Cursor
  <1> QED BY <1>1, <1>2, <1>3, <1>4, <1>5, StepKinds, ObservesPreserves

LEMMA InitCore == Init => Types /\ Known
  <1> SUFFICES ASSUME Init PROVE Types /\ Known
    OBVIOUS
  <1>1. Types
    BY NoneTyped DEF Init, Types, Playback, Permission, Element
  <1>2. Known
    BY NoneTyped DEF Init, Known, Seen
  <1> QED BY <1>1, <1>2

-----------------------------------------------------------------------------
(* What counts was permitted *)

\* The key is that of listening permitted now.
Current(key) ==
  permission.allowed /\ key[2] = permission.epoch /\ key[3] = permission.gen

Permitted(occ, u) == <<occ, permission.epoch, permission.gen, u>> \in permitted

\* What a cursor's next report may add was permitted, as long as its key is current,
\* and so was what rows hold.
RunsPermitted ==
  \A b \in Browsers :
    Follows(cursors[b]) /\ Current(cursors[b].key) =>
      \A u \in Since(cursors[b]) : Permitted(playback.occ, u)
RowsPermitted ==
  \A r \in coverage \union outbox \union recorded :
    Current(r.key) => \A u \in r.cells : Permitted(r.key[1], u)

\* A report that was just taken has nothing behind it.
LEMMA NothingSince ==
  ASSUME Types, NEW k, k.at = now
  PROVE  Since(k) = {}
  <1>1. playback.base \in Nat /\ playback.since \in Nat /\ now \in Nat
    BY DEF Types, Playback
  <1>2. Cells \subseteq Int
    BY TimesAssumption DEF Cells
  <1>3. ASSUME NEW u \in Since(k) PROVE FALSE
    <2>1. /\ u \in Int /\ playback.base + (now - playback.since) <= u
          /\ u < playback.base + (now - playback.since)
      BY <1>2 DEF Since
    <2> QED BY <1>1, <2>1
  <1> QED BY <1>3

\* What is remembered of a step of the clock.
LEMMA TickSince ==
  ASSUME Types, Tick, NEW k, NEW u \in Cells, playback.playing,
         playback.base + (k.at - playback.since) <= u, k.at \in Nat,
         u < playback.base + (now' - playback.since)
  PROVE  u \in Since(k) \/ u = Canonical
  <1>1. playback.base \in Nat /\ playback.since \in Nat /\ now \in Nat
    BY DEF Types, Playback
  <1>2. u \in Int /\ now' = now + 1
    BY TimesAssumption DEF Cells, Tick
  <1>3. Canonical = playback.base + (now - playback.since)
    BY CanonicalTyped
  <1>4. u < playback.base + (now - playback.since) \/ u = playback.base + (now - playback.since)
    BY <1>1, <1>2
  <1> QED BY <1>3, <1>4 DEF Since

LEMMA HistoryGrows ==
  ASSUME HistoryNext
  PROVE  /\ heard \union unwatched \subseteq (heard \union unwatched)'
         /\ permitted \subseteq permitted'
         /\ now' # now => Remember
  BY DEF HistoryNext, Remember, history

LEMMA RowsStayPermitted ==
  ASSUME Types, Known, HistoryNext, RunsPermitted, RowsPermitted
  PROVE  RowsPermitted'
  <1>0. permitted \subseteq permitted' /\ Next
    BY HistoryGrows DEF HistoryNext
  <1>1. CASE UNCHANGED permission /\ coverage' \union outbox' \union recorded'
                                       \subseteq coverage \union outbox \union recorded
    BY <1>0, <1>1 DEF RowsPermitted, Current, Permitted
  <1>2. CASE Rests \/ Updates \/ Tick
    BY <1>1, <1>2 DEF Rests, Updates, Tick, live
  <1>3. CASE Decides
    <2>1. UNCHANGED <<coverage, outbox, recorded>>
      BY <1>3 DEF Decides, live
    <2>2. CASE permission' = permission
      BY <1>1, <2>1, <2>2
    <2>3. CASE permission' # permission
      <3>1. permission \in Permission /\ permission' \in Permission
        BY <1>3 DEF Decides, Types
      <3>2. permission.epoch < permission'.epoch \/ permission.gen < permission'.gen
        BY <1>3, <2>3 DEF Decides
      <3>3. ASSUME NEW r \in coverage \union outbox \union recorded PROVE ~Current(r.key)'
        <4>1. /\ r.key[2] \in Nat /\ r.key[3] \in Nat
              /\ r.key[2] <= permission.epoch /\ r.key[3] <= permission.gen
          BY DEF Known, Seen, Key
        <4>2. r.key[2] # permission'.epoch \/ r.key[3] # permission'.gen
          BY <3>1, <3>2, <4>1 DEF Permission
        <4> QED BY <2>1, <4>2 DEF Current
      <3> QED BY <2>1, <3>3 DEF RowsPermitted
    <2> QED BY <2>2, <2>3
  <1>4. ASSUME NEW b \in Browsers, NEW position \in Positions, NEW audible \in BOOLEAN,
               Observes(b, position, audible)
        PROVE  RowsPermitted'
    <2>1. UNCHANGED <<permission, recorded>> /\ Observed(b, position, audible)
      BY <1>4 DEF Observes
    <2>2. CASE UNCHANGED live
      BY <1>1, <2>1, <2>2 DEF live
    <2>3. CASE Taken(b, position, audible)
      <3>1. ASSUME NEW r, Merged(b, position, audible, r), Current(r.key), NEW u \in r.cells
            PROVE  Permitted(r.key[1], u)
        <4>1. CASE \E old \in coverage : old.key = r.key /\ u \in old.cells
          BY <3>1, <4>1 DEF RowsPermitted
        <4>2. CASE /\ Qualifies(cursors[b], grants[b], position, audible)
                   /\ u \in cursors[b].pos..position - 1
          <5>1. /\ Follows(cursors[b]) /\ cursors[b].key = Partition(grants[b])
                /\ u \in Since(cursors[b])
            BY <4>2, QualifyingIsPlayed
          <5>2. r.key = cursors[b].key /\ r.key[1] = playback.occ
            BY <3>1, <5>1 DEF Merged, Follows
          <5> QED BY <3>1, <5>1, <5>2 DEF RunsPermitted
        <4> QED BY <3>1, <4>1, <4>2 DEF Merged
      <3>2. \A r \in coverage' \union outbox' \union recorded' :
              \/ r \in coverage \union outbox \union recorded
              \/ Merged(b, position, audible, r)
        BY <2>1, <2>3 DEF Taken
      <3>3. \A r \in coverage' \union outbox' \union recorded' :
              Current(r.key) => \A u \in r.cells : Permitted(r.key[1], u)
        BY <3>1, <3>2 DEF RowsPermitted
      <3> QED BY <1>0, <2>1, <3>3 DEF RowsPermitted, Current, Permitted
    <2> QED BY <2>1, <2>2, <2>3, ObservedDoes
  <1> QED BY <1>0, <1>2, <1>3, <1>4, StepKinds

\* A cursor that a step leaves alone, or of which it leaves nothing.
LEMMA RunsStayPermitted ==
  ASSUME Types, Known, HistoryNext, RunsPermitted
  PROVE  RunsPermitted'
  <1>0. permitted \subseteq permitted' /\ Next /\ (now' # now => Remember)
    BY HistoryGrows DEF HistoryNext
  <1>1. ASSUME NEW d \in Browsers, UNCHANGED <<now, playback, permission>>,
               \/ cursors'[d] = cursors[d]
               \/ cursors'[d] = NoCursor
               \/ cursors'[d].at = now
        PROVE  (Follows(cursors[d]) /\ Current(cursors[d].key) =>
                  \A u \in Since(cursors[d]) : Permitted(playback.occ, u))'
    <2>1. CASE cursors'[d] = cursors[d]
      BY <1>0, <1>1, <2>1 DEF RunsPermitted, Follows, Current, Since, Permitted
    <2>2. CASE cursors'[d] = NoCursor
      BY <2>2, NoneTyped DEF Follows
    <2>3. CASE cursors'[d].at = now
      <3>1. Since(cursors'[d]) = {}
        BY <2>3, NothingSince
      <3>2. Since(cursors[d])' = {}
        BY <1>1, <3>1 DEF Since
      <3> QED BY <3>2
    <2> QED BY <1>1, <2>1, <2>2, <2>3
  <1>2. CASE Rests
    BY <1>1, <1>2 DEF Rests, RunsPermitted
  <1>3. CASE Decides
    <2>1. UNCHANGED <<now, playback, cursors>>
      BY <1>3 DEF Decides, live
    <2>2. CASE permission' = permission
      BY <1>1, <2>1, <2>2 DEF RunsPermitted
    <2>3. CASE permission' # permission
      <3>1. permission \in Permission /\ permission' \in Permission
        BY <1>3 DEF Decides, Types
      <3>2. permission.epoch < permission'.epoch \/ permission.gen < permission'.gen
        BY <1>3, <2>3 DEF Decides
      <3>3. ASSUME NEW d \in Browsers PROVE ~Current(cursors[d].key)'
        <4>1. /\ cursors[d].key[2] \in Nat /\ cursors[d].key[3] \in Nat
              /\ cursors[d].key[2] <= permission.epoch /\ cursors[d].key[3] <= permission.gen
          BY DEF Types, Known, Seen, Cursor, Key
        <4>2. cursors[d].key[2] # permission'.epoch \/ cursors[d].key[3] # permission'.gen
          BY <3>1, <3>2, <4>1 DEF Permission
        <4> QED BY <2>1, <4>2 DEF Current
      <3> QED BY <3>3 DEF RunsPermitted
    <2> QED BY <2>2, <2>3
  <1>4. CASE Updates
    <2>1. \A d \in Browsers : /\ cursors'[d] = cursors[d] /\ cursors[d].anchor \in Nat
                              /\ cursors[d].anchor <= playback.anchor
      BY <1>4 DEF Updates, live, Known, Types, Cursor
    <2>2. \A d \in Browsers : cursors'[d].anchor # playback'.anchor
      BY <1>4, <2>1 DEF Updates, Types, Playback
    <2> QED BY <2>2 DEF RunsPermitted, Follows
  <1>5. CASE Tick
    <2>1. UNCHANGED <<playback, permission, cursors>> /\ now' # now
      BY <1>5 DEF Tick, live, Types
    <2>2. ASSUME NEW d \in Browsers, (Follows(cursors[d]) /\ Current(cursors[d].key))',
                 NEW u \in Cells, u \in Since(cursors[d])'
          PROVE  Permitted(playback.occ, u)'
      <3>1. Follows(cursors[d]) /\ Current(cursors[d].key)
        BY <2>1, <2>2 DEF Follows, Current
      <3>2. u \in Since(cursors[d]) \/ u = Canonical
        <4>1. cursors[d].at \in Nat
          BY DEF Types, Cursor
        <4>2. /\ playback.base + (cursors[d].at - playback.since) <= u
              /\ u < playback.base + (now' - playback.since)
          BY <2>1, <2>2 DEF Since
        <4> QED BY <1>5, <3>1, <4>1, <4>2, TickSince DEF Follows
      <3>3. CASE u \in Since(cursors[d])
        BY <1>0, <2>1, <3>1, <3>3 DEF RunsPermitted, Permitted
      <3>4. CASE u = Canonical
        <4>1. u \in {c \in Unit : permission.allowed}
          BY <3>1, <3>4 DEF Unit, Follows, Current
        <4> QED BY <1>0, <2>1, <4>1 DEF Remember, Permitted
      <3> QED BY <3>2, <3>3, <3>4
    <2> QED BY <2>2 DEF RunsPermitted, Since
  <1>6. ASSUME NEW b \in Browsers, NEW position \in Positions, NEW audible \in BOOLEAN,
               Observes(b, position, audible)
        PROVE  RunsPermitted'
    <2>1. UNCHANGED <<now, playback, permission>> /\ Observed(b, position, audible)
      BY <1>6 DEF Observes
    <2>2. \A d \in Browsers : \/ cursors'[d] = cursors[d]
                              \/ cursors'[d] = NoCursor
                              \/ cursors'[d].at = now
      BY <2>1, ObservedDoes DEF Taken, live
    <2> QED BY <1>1, <2>1, <2>2 DEF RunsPermitted
  <1> QED BY <1>0, <1>2, <1>3, <1>4, <1>5, <1>6, StepKinds

\* Every reachable state is typed, and nobody names an epoch, generation or connection
\* that has not begun.
THEOREM CoreInvariant == HistorySpec => [](Types /\ Known)
  <1>1. HistoryInit => Types /\ Known
    BY InitCore DEF HistoryInit
  <1>2. (Types /\ Known) /\ [HistoryNext]_<<vars, history>> => (Types /\ Known)'
    BY CorePreserved DEF HistoryNext
  <1> QED BY <1>1, <1>2, PTL DEF HistorySpec

\* What counts was played while the account allowed listening to be learned, after it
\* last cleared its history, though grants, reports and receipts outlive both changes.
THEOREM CountedWasPermitted == HistorySpec => []OnlyPermittedCounts
  <1> DEFINE Inv == RunsPermitted /\ RowsPermitted
  <1>1. HistoryInit => Inv
    <2> SUFFICES ASSUME HistoryInit PROVE Inv
      OBVIOUS
    <2>1. /\ coverage = {} /\ outbox = {} /\ recorded = {}
          /\ \A b \in Browsers : cursors[b] = NoCursor
      BY DEF HistoryInit, Init
    <2> QED BY <2>1, NoneTyped DEF RunsPermitted, RowsPermitted, Follows
  <1>2. (Types /\ Known) /\ Inv /\ [HistoryNext]_<<vars, history>> => Inv'
    <2>1. ASSUME Types, Known, Inv, HistoryNext PROVE Inv'
      BY <2>1, RowsStayPermitted, RunsStayPermitted
    <2>2. ASSUME Inv, UNCHANGED <<vars, history>> PROVE Inv'
      BY <2>2 DEF vars, live, history, RunsPermitted, RowsPermitted, Follows, Current, Since,
                  Permitted
    <2> QED BY <2>1, <2>2
  <1>3. Inv => OnlyPermittedCounts
    BY DEF RowsPermitted, OnlyPermittedCounts, Counted, Allowed, Current, Permitted
  <1> HIDE DEF Inv
  <1> QED BY <1>1, <1>2, <1>3, CoreInvariant, PTL DEF HistorySpec

-----------------------------------------------------------------------------
(* What is credited was heard, or nobody watched *)

\* What a cursor would let the next sample add was heard, or passed unwatched.
RunsHeard ==
  \A b \in Browsers :
    Accepts(b) /\ Follows(cursors[b]) =>
      \A u \in Since(cursors[b]) : <<playback.occ, u>> \in heard \union unwatched

\* A browser whose last accepted sample was audible is audible while its observer is on.
Attentive ==
  \A b \in Browsers :
    Accepts(b) /\ cursors[b].audible /\ elements[b].reports => elements[b].audible

\* A report leaves the other browsers their cursors, or takes them with their grants.
LEMMA OthersKept ==
  ASSUME Types, NEW b \in Browsers, NEW position \in Positions, NEW audible \in BOOLEAN,
         Observes(b, position, audible), NEW d \in Browsers, d # b
  PROVE  \/ cursors'[d] = cursors[d] /\ (Accepts(d)' => Accepts(d)) /\ elements'[d] = elements[d]
         \/ cursors'[d] = NoCursor
  <1>1. UNCHANGED sessions /\ Observed(b, position, audible) /\ elements'[d] = elements[d]
    BY DEF Observes
  <1>2. CASE UNCHANGED live
    BY <1>1, <1>2 DEF live, Accepts
  <1>3. CASE Taken(b, position, audible)
    BY <1>1, <1>3 DEF Taken, Accepts
  <1> QED BY <1>1, <1>2, <1>3, ObservedDoes

LEMMA AttentionStays ==
  ASSUME Types, Known, Next, Attentive
  PROVE  Attentive'
  <1>1. CASE Rests
    BY <1>1, NoneTyped DEF Rests, Attentive
  <1>2. CASE Decides \/ Updates \/ Tick
    <2>1. UNCHANGED <<sessions, grants, cursors, elements>>
      BY <1>2 DEF Decides, Updates, Tick, live
    <2> QED BY <2>1 DEF Attentive, Accepts
  <1>3. ASSUME NEW b \in Browsers, NEW position \in Positions, NEW audible \in BOOLEAN,
               Observes(b, position, audible)
        PROVE  Attentive'
    <2>1. /\ UNCHANGED sessions /\ Observed(b, position, audible)
          /\ elements'[b].audible = audible
      BY <1>3 DEF Observes
    <2>2. (Accepts(b) /\ cursors[b].audible => elements[b].audible)'
      <3>1. CASE UNCHANGED live /\ (~Accepts(b) \/ cursors[b].audible = audible)
        BY <2>1, <3>1 DEF live, Accepts
      <3>2. CASE Taken(b, position, audible)
        BY <2>1, <3>2 DEF Taken
      <3> QED BY <2>1, <3>1, <3>2, ObservedDoes
    <2>3. ASSUME NEW d \in Browsers, d # b
          PROVE  (Accepts(d) /\ cursors[d].audible /\ elements[d].reports => elements[d].audible)'
      BY <1>3, <2>3, OthersKept, NoneTyped DEF Attentive
    <2> QED BY <2>2, <2>3 DEF Attentive
  <1> QED BY <1>1, <1>2, <1>3, StepKinds

LEMMA RowsStayHeard ==
  ASSUME Types, Known, HistoryNext, RunsHeard, CreditedWasHeardOrUnwatched
  PROVE  CreditedWasHeardOrUnwatched'
  <1>0. heard \union unwatched \subseteq (heard \union unwatched)' /\ Next
    BY HistoryGrows DEF HistoryNext
  <1>1. CASE coverage' \subseteq coverage
    BY <1>0, <1>1 DEF CreditedWasHeardOrUnwatched
  <1>2. CASE Rests \/ Decides \/ Updates \/ Tick
    BY <1>1, <1>2 DEF Rests, Decides, Updates, Tick, live
  <1>3. ASSUME NEW b \in Browsers, NEW position \in Positions, NEW audible \in BOOLEAN,
               Observes(b, position, audible)
        PROVE  CreditedWasHeardOrUnwatched'
    <2>1. Observed(b, position, audible)
      BY <1>3 DEF Observes
    <2>2. CASE UNCHANGED live
      BY <1>1, <2>2 DEF live
    <2>3. CASE Taken(b, position, audible)
      <3>1. ASSUME NEW r, Merged(b, position, audible, r), NEW u \in r.cells
            PROVE  <<r.key[1], u>> \in heard \union unwatched
        <4>1. CASE \E old \in coverage : old.key = r.key /\ u \in old.cells
          BY <3>1, <4>1 DEF CreditedWasHeardOrUnwatched
        <4>2. CASE /\ Qualifies(cursors[b], grants[b], position, audible)
                   /\ u \in cursors[b].pos..position - 1
          <5>1. /\ Follows(cursors[b]) /\ cursors[b].key = Partition(grants[b])
                /\ u \in Since(cursors[b])
            BY <4>2, QualifyingIsPlayed
          <5>2. r.key[1] = playback.occ /\ Accepts(b)
            BY <2>3, <3>1, <5>1 DEF Merged, Follows, Taken
          <5> QED BY <5>1, <5>2 DEF RunsHeard
        <4> QED BY <3>1, <4>1, <4>2 DEF Merged
      <3>2. \A r \in coverage' : r \in coverage \/ Merged(b, position, audible, r)
        BY <2>3 DEF Taken
      <3> QED BY <1>0, <3>1, <3>2 DEF CreditedWasHeardOrUnwatched
    <2> QED BY <2>1, <2>2, <2>3, ObservedDoes
  <1> QED BY <1>0, <1>2, <1>3, StepKinds

LEMMA RunsStayHeard ==
  ASSUME Types, Known, HistoryNext, RunsHeard, Attentive
  PROVE  RunsHeard'
  <1>0. /\ heard \union unwatched \subseteq (heard \union unwatched)'
        /\ Next /\ (now' # now => Remember)
    BY HistoryGrows DEF HistoryNext
  <1>1. ASSUME NEW d \in Browsers, UNCHANGED <<now, playback>>,
               \/ cursors'[d] = cursors[d] /\ (Accepts(d)' => Accepts(d))
               \/ cursors'[d] = NoCursor
               \/ cursors'[d].at = now
        PROVE  (Accepts(d) /\ Follows(cursors[d]) =>
                  \A u \in Since(cursors[d]) : <<playback.occ, u>> \in heard \union unwatched)'
    <2>1. CASE cursors'[d] = cursors[d] /\ (Accepts(d)' => Accepts(d))
      BY <1>0, <1>1, <2>1 DEF RunsHeard, Follows, Since
    <2>2. CASE cursors'[d] = NoCursor
      BY <2>2, NoneTyped DEF Follows
    <2>3. CASE cursors'[d].at = now
      <3>1. Since(cursors'[d]) = {}
        BY <2>3, NothingSince
      <3>2. Since(cursors[d])' = {}
        BY <1>1, <3>1 DEF Since
      <3> QED BY <3>2
    <2> QED BY <1>1, <2>1, <2>2, <2>3
  <1>2. CASE Rests
    BY <1>1, <1>2 DEF Rests, RunsHeard
  <1>3. CASE Decides
    <2>1. UNCHANGED <<now, playback, cursors, grants, sessions>>
      BY <1>3 DEF Decides, live
    <2>2. \A d \in Browsers : Accepts(d)' => Accepts(d)
      BY <2>1 DEF Accepts
    <2> QED BY <1>1, <2>1, <2>2 DEF RunsHeard
  <1>4. CASE Updates
    <2>1. \A d \in Browsers : /\ cursors'[d] = cursors[d] /\ cursors[d].anchor \in Nat
                              /\ cursors[d].anchor <= playback.anchor
      BY <1>4 DEF Updates, live, Known, Types, Cursor
    <2>2. \A d \in Browsers : cursors'[d].anchor # playback'.anchor
      BY <1>4, <2>1 DEF Updates, Types, Playback
    <2> QED BY <2>2 DEF RunsHeard, Follows
  <1>5. CASE Tick
    <2>1. UNCHANGED <<playback, cursors, grants, sessions>> /\ now' # now
      BY <1>5 DEF Tick, live, Types
    <2>2. ASSUME NEW d \in Browsers, (Accepts(d) /\ Follows(cursors[d]))',
                 NEW u \in Cells, u \in Since(cursors[d])'
          PROVE  (<<playback.occ, u>> \in heard \union unwatched)'
      <3>1. Accepts(d) /\ Follows(cursors[d])
        BY <2>1, <2>2 DEF Follows, Accepts
      <3>2. u \in Since(cursors[d]) \/ u = Canonical
        <4>1. cursors[d].at \in Nat
          BY DEF Types, Cursor
        <4>2. /\ playback.base + (cursors[d].at - playback.since) <= u
              /\ u < playback.base + (now' - playback.since)
          BY <2>1, <2>2 DEF Since
        <4> QED BY <1>5, <3>1, <4>1, <4>2, TickSince DEF Follows
      <3>3. CASE u \in Since(cursors[d])
        BY <1>0, <2>1, <3>1, <3>3 DEF RunsHeard
      <3>4. CASE u = Canonical
        <4>1. Heard \/ Unwatched
          BY <3>1 DEF Heard, Unwatched, Attentive, Follows
        <4>2. u \in {c \in Unit : Heard} \union {c \in Unit : Unwatched /\ ~Heard}
          BY <3>1, <3>4, <4>1 DEF Unit, Follows
        <4> QED BY <1>0, <2>1, <4>2 DEF Remember
      <3> QED BY <3>2, <3>3, <3>4
    <2> QED BY <2>2 DEF RunsHeard, Since
  <1>6. ASSUME NEW b \in Browsers, NEW position \in Positions, NEW audible \in BOOLEAN,
               Observes(b, position, audible)
        PROVE  RunsHeard'
    <2>1. UNCHANGED <<now, playback, sessions>> /\ Observed(b, position, audible)
      BY <1>6 DEF Observes
    <2>2. \/ cursors'[b] = cursors[b] /\ (Accepts(b)' => Accepts(b))
          \/ cursors'[b].at = now
      BY <2>1, ObservedDoes DEF Taken, live, Accepts
    <2>3. \A d \in Browsers : d # b => \/ cursors'[d] = cursors[d] /\ (Accepts(d)' => Accepts(d))
                                       \/ cursors'[d] = NoCursor
      BY <1>6, OthersKept
    <2> QED BY <1>1, <2>1, <2>2, <2>3 DEF RunsHeard
  <1> QED BY <1>0, <1>2, <1>3, <1>4, <1>5, <1>6, StepKinds

\* Whatever is reported, throttled, muted, seeked or reconnected, a unit is credited only
\* if it was heard in one of the account's browsers, or passed unheard while the observer
\* of one that held a grant was off.
THEOREM CreditedIsHeardOrUnwatched == HistorySpec => []CreditedWasHeardOrUnwatched
  <1> DEFINE Inv == RunsHeard /\ Attentive /\ CreditedWasHeardOrUnwatched
  <1>1. HistoryInit => Inv
    <2> SUFFICES ASSUME HistoryInit PROVE Inv
      OBVIOUS
    <2>1. coverage = {} /\ \A b \in Browsers : cursors[b] = NoCursor
      BY DEF HistoryInit, Init
    <2> QED BY <2>1, NoneTyped DEF RunsHeard, Attentive, CreditedWasHeardOrUnwatched, Follows
  <1>2. (Types /\ Known) /\ Inv /\ [HistoryNext]_<<vars, history>> => Inv'
    <2>1. ASSUME Types, Known, Inv, HistoryNext PROVE Inv'
      <3>1. Next
        BY <2>1 DEF HistoryNext
      <3> QED BY <2>1, <3>1, RowsStayHeard, RunsStayHeard, AttentionStays
    <2>2. ASSUME Inv, UNCHANGED <<vars, history>> PROVE Inv'
      BY <2>2 DEF vars, live, history, RunsHeard, Attentive, CreditedWasHeardOrUnwatched,
                  Follows, Since, Accepts
    <2> QED BY <2>1, <2>2
  <1>3. Inv => CreditedWasHeardOrUnwatched
    OBVIOUS
  <1> HIDE DEF Inv
  <1> QED BY <1>1, <1>2, <1>3, CoreInvariant, PTL DEF HistorySpec
=============================================================================
