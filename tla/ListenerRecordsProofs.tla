------------------------ MODULE ListenerRecordsProofs ------------------------
(***************************************************************************)
(* The tables of ListenerReceipts, for any number of browsers, changes and *)
(* limits: their types and bounds, and that a partition that is done with  *)
(* keeps its receipt.                                                      *)
(***************************************************************************)
EXTENDS ListenerReceiptsProofs, FiniteSetTheorems

-----------------------------------------------------------------------------
(* Types and bounds *)

Counters ==
  /\ now <= MaxNow /\ joins <= MaxJoins
  /\ playback.occ \in 1..playback.anchor + 1 /\ playback.anchor <= MaxUpdates
  /\ playback.base <= Duration
  /\ permission.epoch >= 1 /\ permission.epoch + permission.gen <= MaxChanges + 1
  /\ permission.since <= now

RequestsBounded ==
  /\ \A r \in requests : r.conn >= 1 /\ r.epoch >= 1
  /\ IsFiniteSet(requests) /\ Cardinality(requests) <= MaxRequests

Holders == {b \in Browsers : grants[b] # NoGrant}

GrantsBounded ==
  /\ \A b \in Holders : grants[b].conn >= 1 /\ grants[b].epoch >= 1
  /\ \A b \in Browsers : grants[b] = NoGrant => cursors[b] = NoCursor
  /\ IsFiniteSet(Holders) /\ Cardinality(Holders) <= GrantLimit

RowBounded(c) ==
  /\ c.key \in Keys /\ c.cells \subseteq Cells
  /\ c.first \in Nat /\ c.updated \in Nat /\ c.first < c.updated /\ c.updated <= now

CoverageBounded ==
  /\ \A c \in coverage : RowBounded(c)
  /\ \A c, d \in coverage : c.key = d.key => c = d
  /\ IsFiniteSet(coverage) /\ Cardinality(coverage) <= PartitionLimit

ReceiptsBounded ==
  /\ outbox \subseteq Receipt /\ recorded \subseteq Receipt
  /\ \A r, s \in outbox : r.key = s.key => r = s
  /\ \A r, s \in recorded : r.key = s.key => r = s
  /\ IsFiniteSet(outbox) /\ Cardinality(outbox) <= OutboxLimit
  /\ drain \subseteq outbox

Bounded == Counters /\ RequestsBounded /\ GrantsBounded /\ CoverageBounded /\ ReceiptsBounded

-----------------------------------------------------------------------------
(* Counters *)

LEMMA CountersStep ==
  ASSUME Types, Known, Counters, [Next]_vars
  PROVE  Counters'
  <1> USE BoundsAssumption, TimesAssumption
  <1>1. CASE UNCHANGED <<now, playback, joins, permission>>
    BY <1>1 DEF Counters
  <1>2. CASE Tick
    BY <1>2 DEF Tick, Counters, Types, Playback, Permission
  <1>3. ASSUME NEW occ \in {playback.occ, playback.occ + 1}, NEW base \in Cells \union {0},
               NEW playing, UpdatePlayback(occ, base, playing)
        PROVE  Counters'
    <2>1. /\ playback'.occ = occ /\ playback'.base = base
          /\ playback'.anchor = playback.anchor + 1 /\ playback.anchor < MaxUpdates
          /\ UNCHANGED <<now, joins, permission>>
      BY <1>3 DEF UpdatePlayback
    <2>2. playback.occ \in Nat /\ playback.anchor \in Nat
      BY DEF Types, Playback
    <2>3. base <= Duration
      BY DEF Cells
    <2>4. occ \in 1..playback.anchor + 2
      BY <2>2 DEF Counters
    <2> QED BY <2>1, <2>2, <2>3, <2>4 DEF Counters
  <1>4. ASSUME NEW allowed \in BOOLEAN, SetConsent(allowed) PROVE Counters'
    <2> DEFINE since == IF allowed THEN now ELSE permission.since
               epoch == permission.epoch + 1
    <2>1. permission' = [permission EXCEPT !.allowed = allowed, !.epoch = epoch, !.since = since]
      BY <1>4 DEF SetConsent
    <2>2. since <= now
      BY DEF Counters, Types
    <2> HIDE DEF since
    <2>3. permission'.epoch = epoch /\ permission'.gen = permission.gen /\ permission'.since = since
      BY <2>1 DEF Types, Permission
    <2> QED BY <1>4, <2>2, <2>3 DEF SetConsent, Counters, Types, Permission
  <1>5. CASE ClearHistory
    <2>1. /\ permission'.epoch = permission.epoch /\ permission'.gen = permission.gen + 1
          /\ permission'.since = now
      BY <1>5 DEF ClearHistory, Types, Permission
    <2> QED BY <1>5, <2>1 DEF ClearHistory, Counters, Types, Permission
  <1>6. ASSUME NEW b \in Browsers, Join(b) PROVE Counters'
    BY <1>6 DEF Join, Counters, Types
  <1>7. CASE Listening
    BY <1>1, <1>6, <1>7 DEF Listening, Report, ChangeAudible, Answer, GrantArrives, Remount, Ask,
                             Expire, NoAnswer, Leave
  <1>8. CASE Playing
    BY <1>2, <1>3, <1>8 DEF Playing
  <1>9. CASE Durable
    BY <1>1, <1>4, <1>5, <1>9 DEF Durable, RecordReceipts, AcknowledgeReceipts, DrainFails
  <1> QED BY <1>1, <1>7, <1>8, <1>9 DEF Next, vars

-----------------------------------------------------------------------------
(* Requests *)

LEMMA FewerRequests ==
  ASSUME RequestsBounded, requests' \subseteq requests
  PROVE  RequestsBounded'
  <1>1. IsFiniteSet(requests') /\ Cardinality(requests') <= Cardinality(requests)
    BY FS_Subset DEF RequestsBounded
  <1>2. Cardinality(requests') \in Nat /\ Cardinality(requests) \in Nat
    BY <1>1, FS_CardinalityType DEF RequestsBounded
  <1> QED BY <1>1, <1>2, BoundsAssumption DEF RequestsBounded

LEMMA RequestsStep ==
  ASSUME Types, Known, Counters, RequestsBounded, [Next]_vars
  PROVE  RequestsBounded'
  <1>1. CASE requests' \subseteq requests
    BY <1>1, FewerRequests
  <1>2. ASSUME NEW b \in Browsers, Ask(b) PROVE RequestsBounded'
    <2> DEFINE request == [browser |-> b, conn |-> sessions[b], epoch |-> permission.epoch,
                           gen |-> permission.gen, granted |-> FALSE]
    <2>1. request.conn >= 1 /\ request.epoch >= 1
      BY <1>2 DEF Ask, Types, Counters
    <2>2. \/ requests' = requests
          \/ requests' = requests \union {request} /\ Cardinality(requests') <= MaxRequests
      BY <1>2 DEF Ask
    <2> HIDE DEF request
    <2>3. IsFiniteSet(requests \union {request})
      BY FS_AddElement DEF RequestsBounded
    <2> QED BY <1>1, <2>1, <2>2, <2>3 DEF RequestsBounded
  <1>3. ASSUME NEW r \in requests, GrantArrives(r) PROVE RequestsBounded'
    <2> DEFINE other == [r EXCEPT !.granted = TRUE]
               rest == requests \ {r}
    <2>1. requests' = rest \union {other}
      BY <1>3 DEF GrantArrives
    <2>2. other.conn = r.conn /\ other.epoch = r.epoch
      BY DEF Types, Request
    <2>3. /\ IsFiniteSet(rest) /\ Cardinality(rest) = Cardinality(requests) - 1
          /\ Cardinality(requests) \in Nat
      BY FS_RemoveElement, FS_CardinalityType DEF RequestsBounded
    <2> HIDE DEF other
    <2>4. /\ IsFiniteSet(rest \union {other})
          /\ Cardinality(rest \union {other}) <= Cardinality(requests)
      BY <2>3, FS_AddElement
    <2>5. Cardinality(rest \union {other}) \in Nat
      BY <2>4, FS_CardinalityType
    <2> QED BY <2>1, <2>2, <2>3, <2>4, <2>5, BoundsAssumption DEF RequestsBounded
  <1>4. CASE Listening
    BY <1>1, <1>2, <1>3, <1>4 DEF Listening, Report, ChangeAudible, Answer, Remount, Expire,
                                  NoAnswer, Join, Leave
  <1>5. CASE Playing \/ Durable \/ UNCHANGED vars
    BY <1>1, <1>5 DEF Playing, Durable, UpdatePlayback, Tick, SetConsent, ClearHistory,
                      RecordReceipts, AcknowledgeReceipts, DrainFails, vars
  <1> QED BY <1>4, <1>5 DEF Next

-----------------------------------------------------------------------------
(* Grants and cursors *)

\* A grant and its cursor stay, are reported under, or go; a grant may run out.
Kept(d) ==
  \/ grants'[d] = NoGrant /\ cursors'[d] = NoCursor
  \/ /\ grants[d] # NoGrant <=> grants'[d] # NoGrant
     /\ grants'[d].conn = grants[d].conn /\ grants'[d].epoch = grants[d].epoch
     /\ grants'[d].gen = grants[d].gen /\ grants'[d].from = grants[d].from
     /\ \/ cursors'[d] = cursors[d]
        \/ grants[d] # NoGrant /\ cursors'[d].at = now

\* A grant begins: it starts with the request's arrival, and without a cursor.
Begun(r) ==
  /\ r.browser \in Browsers /\ r \in requests
  /\ \A d \in Browsers : d # r.browser => Kept(d)
  /\ grants'[r.browser].conn = r.conn /\ grants'[r.browser].epoch = r.epoch
  /\ grants'[r.browser].gen = r.gen /\ grants'[r.browser].from = now
  /\ cursors'[r.browser] = NoCursor
  /\ \/ grants[r.browser] # NoGrant
     \/ Cardinality({x \in Browsers : KeptGrants[x] # NoGrant}) < GrantLimit
  /\ \A d \in Browsers : d # r.browser => grants'[d] = KeptGrants[d]

LEMMA ObservedKeeps ==
  ASSUME Types, NEW b \in Browsers, NEW position \in Positions, NEW audible \in BOOLEAN,
         Observed(b, position, audible)
  PROVE  \A d \in Browsers : Kept(d)
  <1>1. CASE UNCHANGED live
    BY <1>1 DEF live, Kept
  <1>2. CASE Taken(b, position, audible)
    <2>1. grants[b] # NoGrant /\ grants'[b] = grants[b] /\ cursors'[b].at = now
      BY <1>2 DEF Taken, Accepts
    <2> QED BY <1>2, <2>1 DEF Taken, Kept
  <1> QED BY <1>1, <1>2, ObservedDoes

LEMMA GrantsKept ==
  ASSUME Types, Known, GrantsBounded, [Next]_vars
  PROVE  \/ \A d \in Browsers : Kept(d)
         \/ \E r \in requests : Begun(r)
  <1>0. \A b \in Browsers : elements[b].audible \in BOOLEAN
    BY DEF Types, Element
  <1>1. ASSUME UNCHANGED <<grants, cursors>> PROVE \A d \in Browsers : Kept(d)
    BY <1>1 DEF Kept
  <1>2. ASSUME NEW b \in Browsers, NEW position \in Positions,
               Report(b, position) \/ ChangeAudible(b, position)
        PROVE  \A d \in Browsers : Kept(d)
    <2>1. \/ \E audible \in BOOLEAN : Observed(b, position, audible)
          \/ UNCHANGED <<grants, cursors>>
      <3>1. (~elements[b].audible) \in BOOLEAN
        BY <1>0
      <3> QED BY <1>0, <1>2, <3>1 DEF Report, ChangeAudible, live
    <2> QED BY <1>1, <2>1, ObservedKeeps
  <1>3. ASSUME NEW r \in requests, NEW position \in Positions, Answer(r, position)
        PROVE  \A d \in Browsers : Kept(d)
    <2>1. r.browser \in Browsers
      BY DEF Types, Request
    <2>2. \/ \E audible \in BOOLEAN : Observed(r.browser, position, audible)
          \/ UNCHANGED <<grants, cursors>>
      BY <1>0, <1>3, <2>1 DEF Answer, live
    <2> QED BY <1>1, <2>1, <2>2, ObservedKeeps
  <1>4. ASSUME NEW b \in Browsers, Expire(b)
        PROVE  \A d \in Browsers : Kept(d)
    <2>1. /\ grants' = [grants EXCEPT ![b].holds = FALSE] /\ cursors' = cursors
          /\ grants[b].holds
      BY <1>4 DEF Expire
    <2>2. /\ \A d \in Browsers : d # b => grants'[d] = grants[d]
          /\ grants'[b].epoch = grants[b].epoch /\ grants'[b].gen = grants[b].gen
          /\ grants'[b].conn = grants[b].conn /\ grants'[b].from = grants[b].from
      BY <2>1 DEF Types, Grant
    <2>3. grants[b] # NoGrant
      BY <2>1, NoneTyped
    <2>4. grants'[b] # NoGrant
      BY <2>2, <2>3, NoneTyped DEF GrantsBounded, Holders
    <2> QED BY <2>1, <2>2, <2>3, <2>4 DEF Kept
  <1>5. ASSUME NEW r \in requests, GrantArrives(r)
        PROVE  (\A d \in Browsers : Kept(d)) \/ Begun(r)
    <2> DEFINE b == r.browser
               old == KeptGrants[b]
               from == IF Resets(old, r) THEN now ELSE old.from
               new == [conn |-> r.conn, epoch |-> r.epoch, gen |-> r.gen, holds |-> TRUE,
                       from |-> from]
               full == old = NoGrant
                       /\ Cardinality({x \in Browsers : KeptGrants[x] # NoGrant}) >= GrantLimit
    <2>1. /\ IF sessions[b] # r.conn THEN UNCHANGED <<grants, cursors, coverage>>
             ELSE /\ coverage' = KeptCoverage
                  /\ grants' = IF full THEN KeptGrants ELSE [KeptGrants EXCEPT ![b] = new]
                  /\ cursors' = IF full \/ ~Resets(old, r) THEN KeptCursors
                                ELSE [KeptCursors EXCEPT ![b] = NoCursor]
      BY <1>5 DEF GrantArrives
    <2>2. /\ KeptGrants \in [Browsers -> Grant] /\ KeptCursors \in [Browsers -> Cursor]
          /\ \A d \in Browsers :
               \/ KeptGrants[d] = grants[d] /\ KeptCursors[d] = cursors[d]
               \/ KeptGrants[d] = NoGrant /\ KeptCursors[d] = NoCursor
          /\ \A d \in Browsers : KeptGrants[d] # NoGrant => KeptGrants[d] = grants[d]
      BY KeptRows
    <2>3. b \in Browsers
      BY DEF Types, Request
    <2>4. new.conn = r.conn /\ new.epoch = r.epoch /\ new.gen = r.gen /\ new.from = from
      OBVIOUS
    <2>5. full => old = NoGrant
      OBVIOUS
    <2>6. ~full => old # NoGrant \/ ~(Cardinality({x \in Browsers : KeptGrants[x] # NoGrant}) >= GrantLimit)
      OBVIOUS
    <2> HIDE DEF new, full
    <2>7. CASE sessions[b] # r.conn
      <3>1. UNCHANGED <<grants, cursors>>
        BY <2>1, <2>7
      <3> QED BY <1>1, <3>1
    <2>8. CASE sessions[b] = r.conn /\ full
      BY <2>1, <2>2, <2>8 DEF Kept
    <2>9. CASE sessions[b] = r.conn /\ ~full
      <3>1. /\ grants' = [KeptGrants EXCEPT ![b] = new]
            /\ cursors' = IF ~Resets(old, r) THEN KeptCursors
                          ELSE [KeptCursors EXCEPT ![b] = NoCursor]
        BY <2>1, <2>9
      <3>2. /\ grants'[b] = new
            /\ \A d \in Browsers : d # b => grants'[d] = KeptGrants[d] /\ cursors'[d] = KeptCursors[d]
        BY <2>2, <2>3, <3>1
      <3>3. \A d \in Browsers : d # b => Kept(d)
        BY <2>2, <3>2 DEF Kept
      <3>4. CASE Resets(old, r)
        <4>1. cursors'[b] = NoCursor /\ from = now
          BY <2>2, <2>3, <3>1, <3>4
        <4>2. \/ grants[b] # NoGrant
              \/ Cardinality({x \in Browsers : KeptGrants[x] # NoGrant}) < GrantLimit
          <5> DEFINE held == {x \in Browsers : KeptGrants[x] # NoGrant}
          <5>1. held \subseteq Holders
            BY <2>2 DEF Holders
          <5>2. IsFiniteSet(held)
            BY <5>1, FS_Subset DEF GrantsBounded
          <5>3. Cardinality(held) \in Nat /\ GrantLimit \in Nat
            BY <5>2, FS_CardinalityType, LimitsAssumption
          <5>4. old # NoGrant => grants[b] # NoGrant
            BY <2>2, <2>3
          <5> QED BY <2>6, <2>9, <5>3, <5>4
        <4> QED BY <2>3, <2>4, <3>2, <3>3, <4>1, <4>2 DEF Begun
      <3>5. CASE ~Resets(old, r)
        <4>1. /\ old # NoGrant /\ old.epoch = r.epoch /\ old.gen = r.gen /\ old.conn = r.conn
              /\ from = old.from /\ old = grants[b] /\ cursors'[b] = KeptCursors[b]
          BY <2>2, <2>3, <3>1, <3>5 DEF Resets
        <4>2. cursors'[b] = cursors[b]
          BY <2>2, <2>3, <4>1
        <4>3. new # NoGrant
          BY <2>3, <2>4, <4>1, NoneTyped DEF GrantsBounded, Holders
        <4> QED BY <2>4, <3>2, <3>3, <4>1, <4>2, <4>3 DEF Kept
      <3> QED BY <3>4, <3>5
    <2> QED BY <2>7, <2>8, <2>9
  <1>6. CASE RecordReceipts
    BY <1>6, KeptRows DEF RecordReceipts, Kept
  <1>7. CASE Listening
    BY <1>1, <1>2, <1>3, <1>4, <1>5, <1>7 DEF Listening, Remount, Ask, NoAnswer, Join, Leave, live
  <1>8. CASE Playing \/ Durable \/ UNCHANGED vars
    BY <1>1, <1>6, <1>8 DEF Playing, Durable, UpdatePlayback, Tick, SetConsent, ClearHistory,
                      AcknowledgeReceipts, DrainFails, vars, live
  <1> QED BY <1>7, <1>8 DEF Next

LEMMA GrantsStep ==
  ASSUME Types, Known, RequestsBounded, GrantsBounded, [Next]_vars
  PROVE  GrantsBounded'
  <1>1. /\ IsFiniteSet(Holders) /\ Cardinality(Holders) \in Nat
        /\ Cardinality(Holders) <= GrantLimit /\ GrantLimit \in Nat
    BY FS_CardinalityType, LimitsAssumption DEF GrantsBounded
  <1>2. CASE \A d \in Browsers : Kept(d)
    <2>1. Holders' \subseteq Holders
      BY <1>2 DEF Holders, Kept
    <2>2. /\ IsFiniteSet(Holders') /\ Cardinality(Holders') <= Cardinality(Holders)
          /\ Cardinality(Holders') \in Nat
      BY <1>1, <2>1, FS_Subset, FS_CardinalityType
    <2>3. /\ \A b \in Holders' : grants'[b].conn >= 1 /\ grants'[b].epoch >= 1
          /\ \A b \in Browsers : grants'[b] = NoGrant => cursors'[b] = NoCursor
      BY <1>2 DEF Kept, GrantsBounded, Holders
    <2> QED BY <1>1, <2>2, <2>3 DEF GrantsBounded
  <1>3. ASSUME NEW r \in requests, Begun(r)
        PROVE  GrantsBounded'
    <2> DEFINE b == r.browser
               held == {x \in Browsers : KeptGrants[x] # NoGrant}
    <2>1. b \in Browsers /\ \A d \in Browsers : d # b => Kept(d) /\ grants'[d] = KeptGrants[d]
      BY <1>3 DEF Begun
    <2>2. grants'[b].conn >= 1 /\ grants'[b].epoch >= 1 /\ cursors'[b] = NoCursor
      BY <1>3 DEF Begun, RequestsBounded
    <2>3. held \subseteq Holders
      BY KeptRows DEF Holders
    <2>4. IsFiniteSet(held) /\ Cardinality(held) \in Nat /\ Cardinality(held) <= Cardinality(Holders)
      BY <1>1, <2>3, FS_Subset, FS_CardinalityType
    <2>5. Holders' \subseteq Holders \union {b} /\ Holders' \subseteq held \union {b}
      BY <2>1 DEF Holders, Kept
    <2>6. IsFiniteSet(Holders') /\ Cardinality(Holders') <= GrantLimit
      <3>1. CASE grants[b] # NoGrant
        <4>1. Holders' \subseteq Holders
          BY <2>1, <2>5, <3>1 DEF Holders
        <4> QED BY <1>1, <4>1, FS_Subset, FS_CardinalityType
      <3>2. CASE Cardinality(held) < GrantLimit
        <4>1. /\ IsFiniteSet(held \union {b})
              /\ Cardinality(held \union {b}) <= Cardinality(held) + 1
          BY <2>4, FS_AddElement
        <4>2. /\ Cardinality(Holders') <= Cardinality(held \union {b}) /\ IsFiniteSet(Holders')
              /\ Cardinality(Holders') \in Nat /\ Cardinality(held \union {b}) \in Nat
          BY <2>5, <4>1, FS_Subset, FS_CardinalityType
        <4> QED BY <1>1, <2>4, <3>2, <4>1, <4>2
      <3> QED BY <1>3, <3>1, <3>2 DEF Begun
    <2>7. /\ \A d \in Holders' : grants'[d].conn >= 1 /\ grants'[d].epoch >= 1
          /\ \A d \in Browsers : grants'[d] = NoGrant => cursors'[d] = NoCursor
      BY <2>1, <2>2 DEF Kept, GrantsBounded, Holders
    <2> QED BY <2>6, <2>7 DEF GrantsBounded
  <1> QED BY <1>2, <1>3, GrantsKept

-----------------------------------------------------------------------------
(* What a report records *)

\* The units a qualifying report adds, the row it leaves and the receipt it sends.
Added(b, position) == cursors[b].pos..position - 1
Row(key, cells, first) ==
  [key |-> key, cells |-> cells, first |-> first, updated |-> now, emitted |-> Emits(cells)]
ReceiptOf(key, cells, first) == [key |-> key, cells |-> cells, first |-> first, last |-> now]

Writes(key, cells, first, kept) ==
  /\ coverage' = kept \union {Row(key, cells, first)}
  /\ outbox' = IF Emits(cells) /\ ~ \E r \in outbox : r.key = key
               THEN outbox \union {ReceiptOf(key, cells, first)} ELSE outbox

\* The first row of a partition, beside those that are not too old; or one that follows.
Starts(b, position, cells, first, kept) ==
  /\ cells = Added(b, position) /\ first = cursors[b].at
  /\ kept \subseteq coverage /\ Cardinality(kept) < PartitionLimit
  /\ \A c \in coverage : c.key # cursors[b].key

Follow(c, b, position, cells, first, kept) ==
  /\ c.key = cursors[b].key /\ first = c.first
  /\ cells = c.cells \union Added(b, position)
  /\ kept = {d \in coverage : d.key # c.key}

Continues(b, position, cells, first, kept) ==
  \E c \in coverage : Follow(c, b, position, cells, first, kept)

Records(b, position) ==
  /\ Accepts(b) /\ Qualifies(cursors[b], grants[b], position, TRUE)
  /\ \E cells, first, kept :
       /\ Writes(cursors[b].key, cells, first, kept)
       /\ Starts(b, position, cells, first, kept) \/ Continues(b, position, cells, first, kept)

LEMMA CoverWrites ==
  ASSUME NEW key, NEW old, NEW cells, NEW first, Cover(key, old, cells, first)
  PROVE  Writes(key, cells, first, IF old = {} THEN KeptCoverage ELSE coverage \ old)
  <1>1. coverage' = (IF old = {} THEN KeptCoverage ELSE coverage \ old)
                      \union {Row(key, cells, first)}
    BY DEF Cover, Row
  <1>2. Emits(cells) => Cardinality(outbox) < OutboxLimit
    BY DEF Emits
  <1>3. outbox' = IF Emits(cells) /\ ~ \E r \in outbox : r.key = key
                  THEN outbox \union {ReceiptOf(key, cells, first)} ELSE outbox
    BY <1>2 DEF Cover, ReceiptOf
  <1> QED BY <1>1, <1>3 DEF Writes

LEMMA KeptCoverageFinite ==
  ASSUME CoverageBounded
  PROVE  KeptCoverage \subseteq coverage /\ Cardinality(KeptCoverage) \in Nat
  <1>1. KeptCoverage \subseteq coverage
    BY DEF KeptCoverage
  <1> QED BY <1>1, FS_Subset, FS_CardinalityType DEF CoverageBounded

LEMMA CreditRecords ==
  ASSUME Types, CoverageBounded, NEW b \in Browsers, NEW position, NEW cursor,
         Accepts(b), Qualifies(cursors[b], grants[b], position, TRUE),
         cursor.key = cursors[b].key, cursor.pos = position, Credit(b, cursor)
  PROVE  \/ coverage' \subseteq coverage /\ outbox' = outbox
         \/ Records(b, position)
  <1> DEFINE key == cursors[b].key
             old == {c \in coverage : c.key = key}
             added == Added(b, position)
  <1>1. CASE old # {}
    <2> DEFINE c == CHOOSE c \in old : TRUE
    <2>1. c \in coverage /\ c.key = key
      BY <1>1
    <2>2. IF c.emitted THEN UNCHANGED <<coverage, outbox>>
          ELSE Cover(key, old, c.cells \union added, c.first)
      BY <1>1 DEF Credit, Added
    <2> HIDE DEF c
    <2>3. CASE c.emitted
      BY <2>2, <2>3
    <2>4. CASE ~c.emitted
      <3> DEFINE cells == c.cells \union added
                 kept == coverage \ old
      <3>1. Cover(key, old, cells, c.first)
        BY <2>2, <2>4
      <3>2. Writes(key, cells, c.first, kept)
        <4> HIDE DEF cells, old, key
        <4> QED BY <1>1, <3>1, CoverWrites
      <3>3. kept = {d \in coverage : d.key # c.key}
        BY <2>1
      <3>4. Follow(c, b, position, cells, c.first, kept)
        BY <2>1, <3>3 DEF Follow
      <3> HIDE DEF cells, kept
      <3> QED BY <2>1, <3>2, <3>4 DEF Records, Continues
    <2> QED BY <2>3, <2>4
  <1>2. CASE old = {}
    <2>1. IF Cardinality(KeptCoverage) >= PartitionLimit
          THEN coverage' = KeptCoverage /\ outbox' = outbox
          ELSE Cover(key, {}, added, cursors[b].at)
      BY <1>2 DEF Credit, Added
    <2>2. KeptCoverage \subseteq coverage /\ Cardinality(KeptCoverage) \in Nat
      BY KeptCoverageFinite
    <2>3. CASE Cardinality(KeptCoverage) >= PartitionLimit
      BY <2>1, <2>2, <2>3
    <2>4. CASE ~(Cardinality(KeptCoverage) >= PartitionLimit)
      <3> DEFINE none == {}
                 kept == KeptCoverage
      <3>1. Cover(key, none, added, cursors[b].at)
        BY <2>1, <2>4
      <3>2. Writes(key, added, cursors[b].at, kept)
        <4>1. none = {}
          OBVIOUS
        <4> HIDE DEF none, added, key
        <4> QED BY <3>1, <4>1, CoverWrites
      <3>3. Cardinality(kept) < PartitionLimit
        BY <2>2, <2>4, LimitsAssumption
      <3>4. Starts(b, position, added, cursors[b].at, kept)
        BY <1>2, <2>2, <3>3 DEF Starts
      <3> HIDE DEF added, kept
      <3> QED BY <3>2, <3>4 DEF Records
    <2> QED BY <2>3, <2>4
  <1> QED BY <1>1, <1>2

LEMMA ObservedRecords ==
  ASSUME Types, CoverageBounded, NEW b \in Browsers, NEW position, NEW audible \in BOOLEAN,
         Observed(b, position, audible)
  PROVE  \/ coverage' \subseteq coverage /\ outbox' = outbox
         \/ Records(b, position)
  <1> DEFINE cursor == [key |-> Partition(grants[b]), at |-> now, audible |-> audible,
                        anchor |-> IF audible THEN playback.anchor ELSE 0,
                        pos |-> IF audible THEN position ELSE 0]
  <1>1. \/ UNCHANGED live
        \/ /\ Accepts(b)
           /\ IF Qualifies(cursors[b], grants[b], position, audible) THEN Credit(b, cursor)
              ELSE /\ cursors' = [cursors EXCEPT ![b] = cursor]
                   /\ UNCHANGED <<grants, coverage, outbox>>
    BY DEF Observed
  <1>2. cursor.key = Partition(grants[b]) /\ (audible => cursor.pos = position)
    OBVIOUS
  <1> HIDE DEF cursor
  <1>3. CASE UNCHANGED live
    BY <1>3 DEF live
  <1>4. CASE Accepts(b) /\ Qualifies(cursors[b], grants[b], position, audible) /\ Credit(b, cursor)
    <2>1. audible = TRUE /\ cursors[b].key = Partition(grants[b])
      BY <1>4 DEF Qualifies
    <2> QED BY <1>2, <1>4, <2>1, CreditRecords
  <1>5. CASE UNCHANGED <<grants, coverage, outbox>>
    BY <1>5
  <1> QED BY <1>1, <1>3, <1>4, <1>5

\* The kinds of steps, for the records.
Still == UNCHANGED <<now, playback, permission, recorded, drain>>

LEMMA RecordKinds ==
  ASSUME Types, Known, CoverageBounded, [Next]_vars
  PROVE  \/ Still /\ coverage' \subseteq coverage /\ outbox' = outbox
         \/ Still /\ \E b \in Browsers, position \in Positions : Records(b, position)
         \/ RecordReceipts \/ AcknowledgeReceipts \/ DrainFails
         \/ Tick \/ (Updates /\ drain' = drain) \/ (Decides /\ drain' = drain)
  <1> DEFINE Less == coverage' \subseteq coverage /\ outbox' = outbox
             Goal == Less \/ \E b \in Browsers, position \in Positions : Records(b, position)
  <1>1. ASSUME NEW b \in Browsers, NEW position \in Positions,
               Report(b, position) \/ ChangeAudible(b, position)
        PROVE  Still /\ Goal
    <2>1. (\E audible \in BOOLEAN : Observed(b, position, audible)) \/ Less
      <3>1. elements[b].audible \in BOOLEAN /\ (~elements[b].audible) \in BOOLEAN
        BY DEF Types, Element
      <3> QED BY <1>1, <3>1 DEF Report, ChangeAudible, live
    <2>2. Still
      BY <1>1 DEF Report, ChangeAudible, Still
    <2> QED BY <2>1, <2>2, ObservedRecords
  <1>2. ASSUME NEW r \in requests, NEW position \in Positions, Answer(r, position)
        PROVE  Still /\ Goal
    <2>1. r.browser \in Browsers
      BY DEF Types, Request
    <2>2. (\E audible \in BOOLEAN : Observed(r.browser, position, audible)) \/ Less
      <3>1. elements[r.browser].audible \in BOOLEAN
        BY <2>1 DEF Types, Element
      <3> QED BY <1>2, <3>1 DEF Answer, live
    <2>3. Still
      BY <1>2 DEF Answer, Still
    <2> QED BY <2>1, <2>2, <2>3, ObservedRecords
  <1>3. ASSUME NEW r \in requests, GrantArrives(r)
        PROVE  Still /\ Less
    BY <1>3, KeptCoverageFinite DEF GrantArrives, Still
  <1>4. ASSUME NEW b \in Browsers,
               Remount(b) \/ Ask(b) \/ Expire(b) \/ NoAnswer(b) \/ Join(b) \/ Leave(b)
        PROVE  Still /\ Less
    BY <1>4 DEF Remount, Ask, Expire, NoAnswer, Join, Leave, live, Still
  <1>5. CASE Listening
    <2> HIDE DEF Less, Goal
    <2>1. Still /\ (Less \/ Goal)
      BY <1>1, <1>2, <1>3, <1>4, <1>5 DEF Listening
    <2> QED BY <2>1 DEF Less, Goal
  <1>6. CASE Playing
    <2>1. Tick \/ drain' = drain
      BY <1>6 DEF Playing, UpdatePlayback
    <2> QED BY <1>6, <2>1, PlayingKinds
  <1>7. CASE (\E allowed \in BOOLEAN : SetConsent(allowed)) \/ ClearHistory
    <2>1. drain' = drain
      BY <1>7 DEF SetConsent, ClearHistory
    <2> QED BY <1>7, <2>1, DecisionKinds
  <1>8. CASE UNCHANGED vars
    BY <1>8 DEF vars, live, Still
  <1> QED BY <1>5, <1>6, <1>7, <1>8 DEF Next, Durable

-----------------------------------------------------------------------------
(* The records keep their types and bounds *)

\* What a qualifying report covers and when.
LEMMA SpanFits ==
  ASSUME Types, Known, Counters, GrantsBounded, NEW b \in Browsers, NEW position \in Positions,
         Accepts(b), Qualifies(cursors[b], grants[b], position, TRUE)
  PROVE  /\ cursors[b].key \in Keys /\ Added(b, position) \subseteq Cells
         /\ cursors[b].at \in Nat /\ cursors[b].at < now
  <1>1. /\ cursors[b].key = Partition(grants[b])
        /\ cursors[b].pos..position - 1 \subseteq Since(cursors[b])
    BY QualifyingIsPlayed
  <1>2. b \in Holders
    BY DEF Accepts, Holders
  <1>3. /\ grants[b].epoch \in Nat /\ grants[b].gen \in Nat
        /\ grants[b].epoch >= 1 /\ grants[b].epoch <= permission.epoch
        /\ grants[b].gen <= permission.gen
    BY <1>2 DEF Types, Grant, Known, Seen, GrantsBounded
  <1>4. permission.epoch \in Nat /\ permission.gen \in Nat /\ MaxChanges \in Nat
    BY BoundsAssumption DEF Types, Permission
  <1>5. /\ grants[b].epoch \in 1..MaxChanges + 1 /\ grants[b].gen \in 0..MaxChanges
    BY <1>3, <1>4 DEF Counters
  <1>6. playback.occ \in 1..MaxUpdates + 1
    BY BoundsAssumption DEF Counters, Types, Playback
  <1>7. Partition(grants[b]) \in Keys
    BY <1>5, <1>6 DEF Partition, Keys
  <1>8. cursors[b].at \in Nat /\ now \in Nat /\ now - cursors[b].at > 0
    BY DEF Types, Cursor, Qualifies
  <1> QED BY <1>1, <1>7, <1>8 DEF Added, Since

LEMMA RowFits ==
  ASSUME Types, Known, Counters, GrantsBounded, CoverageBounded,
         NEW b \in Browsers, NEW position \in Positions,
         Accepts(b), Qualifies(cursors[b], grants[b], position, TRUE),
         NEW cells, NEW first, NEW kept,
         Starts(b, position, cells, first, kept) \/ Continues(b, position, cells, first, kept)
  PROVE  /\ cursors[b].key \in Keys /\ cells \subseteq Cells
         /\ first \in Nat /\ first < now
         /\ kept \subseteq coverage /\ \A c \in kept : c.key # cursors[b].key
         /\ IsFiniteSet(kept) /\ Cardinality(kept) < PartitionLimit
  <1>1. /\ cursors[b].key \in Keys /\ Added(b, position) \subseteq Cells
        /\ cursors[b].at \in Nat /\ cursors[b].at < now
    BY SpanFits
  <1>2. CASE Starts(b, position, cells, first, kept)
    <2>1. IsFiniteSet(kept)
      BY <1>2, FS_Subset DEF Starts, CoverageBounded
    <2> QED BY <1>1, <1>2, <2>1 DEF Starts
  <1>3. ASSUME NEW c \in coverage, Follow(c, b, position, cells, first, kept)
        PROVE  /\ cells \subseteq Cells /\ first \in Nat /\ first < now
               /\ kept \subseteq coverage /\ \A d \in kept : d.key # cursors[b].key
               /\ IsFiniteSet(kept) /\ Cardinality(kept) < PartitionLimit
    <2>1. /\ first = c.first /\ cells = c.cells \union Added(b, position)
          /\ c.key = cursors[b].key /\ kept = {d \in coverage : d.key # c.key}
      BY <1>3 DEF Follow
    <2>2. RowBounded(c)
      BY DEF CoverageBounded
    <2>3. kept = coverage \ {c}
      BY <2>1 DEF CoverageBounded
    <2>4. IsFiniteSet(kept) /\ Cardinality(kept) = Cardinality(coverage) - 1
      BY <2>3, FS_RemoveElement DEF CoverageBounded
    <2>5. Cardinality(coverage) \in Nat /\ Cardinality(coverage) <= PartitionLimit
      BY FS_CardinalityType DEF CoverageBounded
    <2>6. Cardinality(kept) < PartitionLimit
      BY <2>4, <2>5, LimitsAssumption
    <2>7. first \in Nat /\ first < now
      BY <2>1, <2>2 DEF RowBounded, Types
    <2>8. cells \subseteq Cells
      BY <1>1, <2>1, <2>2 DEF RowBounded
    <2> QED BY <2>1, <2>4, <2>6, <2>7, <2>8
  <1> QED BY <1>1, <1>2, <1>3 DEF Continues

LEMMA OneMore ==
  ASSUME NEW S, NEW x, IsFiniteSet(S)
  PROVE  /\ IsFiniteSet(S \union {x}) /\ Cardinality(S \union {x}) <= Cardinality(S) + 1
         /\ Cardinality(S) \in Nat /\ Cardinality(S \union {x}) \in Nat
  <1>1. Cardinality(S) \in Nat
    BY FS_CardinalityType
  <1>2. IsFiniteSet(S \union {x}) /\ Cardinality(S \union {x}) <= Cardinality(S) + 1
    BY <1>1, FS_AddElement
  <1> QED BY <1>1, <1>2, FS_CardinalityType

LEMMA FewerRows ==
  ASSUME CoverageBounded, Types, coverage' \subseteq coverage, now' \in Nat, now <= now'
  PROVE  CoverageBounded'
  <1>1. IsFiniteSet(coverage') /\ Cardinality(coverage') <= Cardinality(coverage)
    BY FS_Subset DEF CoverageBounded
  <1>2. Cardinality(coverage') \in Nat /\ Cardinality(coverage) \in Nat
    BY <1>1, FS_CardinalityType DEF CoverageBounded
  <1>3. Cardinality(coverage') <= PartitionLimit
    BY <1>1, <1>2, LimitsAssumption DEF CoverageBounded
  <1>4. \A c \in coverage : RowBounded(c) => RowBounded(c)'
    BY DEF RowBounded, Types
  <1> QED BY <1>1, <1>3, <1>4 DEF CoverageBounded

LEMMA FewerReceipts ==
  ASSUME ReceiptsBounded, outbox' \subseteq outbox, recorded' \subseteq Receipt,
         \A r, s \in recorded' : r.key = s.key => r = s, drain' \subseteq outbox'
  PROVE  ReceiptsBounded'
  <1>1. IsFiniteSet(outbox') /\ Cardinality(outbox') <= Cardinality(outbox)
    BY FS_Subset DEF ReceiptsBounded
  <1>2. Cardinality(outbox') \in Nat /\ Cardinality(outbox) \in Nat
    BY <1>1, FS_CardinalityType DEF ReceiptsBounded
  <1>3. Cardinality(outbox') <= OutboxLimit
    BY <1>1, <1>2, LimitsAssumption DEF ReceiptsBounded
  <1> QED BY <1>1, <1>3 DEF ReceiptsBounded

LEMMA RecordsBounded ==
  ASSUME Types, Known, Counters, GrantsBounded, CoverageBounded, ReceiptsBounded, Still,
         NEW b \in Browsers, NEW position \in Positions, Records(b, position)
  PROVE  CoverageBounded' /\ ReceiptsBounded'
  <1> DEFINE key == cursors[b].key
  <1>1. PICK cells, first, kept :
          /\ Writes(key, cells, first, kept)
          /\ Starts(b, position, cells, first, kept) \/ Continues(b, position, cells, first, kept)
    BY DEF Records
  <1>2. /\ key \in Keys /\ cells \subseteq Cells /\ first \in Nat /\ first < now
        /\ kept \subseteq coverage /\ \A c \in kept : c.key # key
        /\ IsFiniteSet(kept) /\ Cardinality(kept) < PartitionLimit
    BY <1>1, RowFits DEF Records
  <1> HIDE DEF key
  <1> DEFINE row == Row(key, cells, first)
             receipt == ReceiptOf(key, cells, first)
  <1>3. /\ row.key = key /\ row.cells = cells /\ row.first = first /\ row.updated = now
        /\ receipt.key = key
    BY DEF Row, ReceiptOf
  <1>4. now \in Nat /\ now <= MaxNow
    BY DEF Types, Counters
  <1>5. receipt \in Receipt
    BY <1>2, <1>4, BoundsAssumption DEF Receipt, ReceiptOf
  <1>6. /\ coverage' = kept \union {row}
        /\ outbox' = outbox
           \/ /\ outbox' = outbox \union {receipt} /\ Cardinality(outbox) < OutboxLimit
              /\ \A r \in outbox : r.key # key
    BY <1>1 DEF Writes, Emits
  <1> HIDE DEF row, receipt
  <1>7. CoverageBounded'
    <2>1. /\ IsFiniteSet(coverage') /\ Cardinality(coverage') <= Cardinality(kept) + 1
          /\ Cardinality(kept) \in Nat /\ Cardinality(coverage') \in Nat
      BY <1>2, <1>6, OneMore
    <2>2. Cardinality(coverage') <= PartitionLimit
      BY <1>2, <2>1, LimitsAssumption
    <2>3. RowBounded(row)
      BY <1>2, <1>3, <1>4 DEF RowBounded
    <2>4. \A c \in coverage' : RowBounded(c)'
      BY <1>2, <1>6, <2>3 DEF CoverageBounded, RowBounded, Still
    <2>5. \A c, d \in coverage' : c.key = d.key => c = d
      BY <1>2, <1>3, <1>6 DEF CoverageBounded
    <2> QED BY <2>1, <2>2, <2>4, <2>5 DEF CoverageBounded
  <1>8. ReceiptsBounded'
    <2>1. UNCHANGED <<recorded, drain>>
      BY DEF Still
    <2>2. CASE outbox' = outbox
      BY <2>1, <2>2, FewerReceipts DEF ReceiptsBounded
    <2>3. CASE /\ outbox' = outbox \union {receipt} /\ Cardinality(outbox) < OutboxLimit
               /\ \A r \in outbox : r.key # key
      <3>1. /\ IsFiniteSet(outbox') /\ Cardinality(outbox') <= Cardinality(outbox) + 1
            /\ Cardinality(outbox) \in Nat /\ Cardinality(outbox') \in Nat
        BY <2>3, OneMore DEF ReceiptsBounded
      <3>2. Cardinality(outbox') <= OutboxLimit
        BY <2>3, <3>1, LimitsAssumption
      <3>3. \A r, s \in outbox' : r.key = s.key => r = s
        BY <1>3, <2>3 DEF ReceiptsBounded
      <3>4. outbox' \subseteq Receipt /\ drain' \subseteq outbox'
        BY <1>5, <2>1, <2>3 DEF ReceiptsBounded
      <3> QED BY <2>1, <3>1, <3>2, <3>3, <3>4 DEF ReceiptsBounded
    <2> QED BY <1>6, <2>2, <2>3
  <1> QED BY <1>7, <1>8

LEMMA TablesStep ==
  ASSUME Types, Known, Counters, GrantsBounded, CoverageBounded, ReceiptsBounded, [Next]_vars
  PROVE  CoverageBounded' /\ ReceiptsBounded'
  <1>1. CASE Still /\ coverage' \subseteq coverage /\ outbox' = outbox
    <2>1. now' \in Nat /\ now <= now'
      BY <1>1 DEF Still, Types
    <2> QED BY <1>1, <2>1, FewerRows, FewerReceipts DEF Still, ReceiptsBounded
  <1>2. CASE Still /\ \E b \in Browsers, position \in Positions : Records(b, position)
    BY <1>2, RecordsBounded
  <1>3. CASE RecordReceipts
    <2>1. /\ drain' = outbox /\ outbox' = outbox /\ recorded' = recorded \union Ingested(outbox)
          /\ coverage' \subseteq coverage /\ now' = now
      BY <1>3, KeptCoverageFinite DEF RecordReceipts
    <2>2. /\ Ingested(outbox) \subseteq outbox
          /\ \A r \in Ingested(outbox) : \A x \in recorded : x.key # r.key
      BY DEF Ingested
    <2>3. /\ recorded' \subseteq Receipt
          /\ \A r, s \in recorded' : r.key = s.key => r = s
      BY <2>1, <2>2 DEF ReceiptsBounded
    <2>4. now' \in Nat /\ now <= now'
      BY <2>1 DEF Types
    <2> QED BY <2>1, <2>3, <2>4, FewerRows, FewerReceipts
  <1>4. CASE AcknowledgeReceipts \/ DrainFails
    <2>1. /\ drain' = {} /\ outbox' \subseteq outbox
          /\ UNCHANGED <<recorded, coverage, now>>
      BY <1>4 DEF AcknowledgeReceipts, DrainFails, Acknowledged, live
    <2>2. now' \in Nat /\ now <= now'
      BY <2>1 DEF Types
    <2> QED BY <2>1, <2>2, FewerRows, FewerReceipts DEF ReceiptsBounded
  <1>5. CASE Tick \/ (Updates /\ drain' = drain) \/ (Decides /\ drain' = drain)
    <2>1. UNCHANGED <<coverage, outbox, recorded, drain>>
      BY <1>5 DEF Tick, Updates, Decides, live
    <2>2. now' \in Nat /\ now <= now'
      BY <1>5 DEF Tick, Updates, Decides, Types
    <2> QED BY <2>1, <2>2, FewerRows, FewerReceipts DEF ReceiptsBounded
  <1> QED BY <1>1, <1>2, <1>3, <1>4, <1>5, RecordKinds

LEMMA InitBounded == Init => Bounded
  <1> SUFFICES ASSUME Init PROVE Bounded
    OBVIOUS
  <1>1. Counters
    BY BoundsAssumption, TimesAssumption DEF Init, Counters
  <1>2. RequestsBounded
    BY FS_EmptySet, BoundsAssumption DEF Init, RequestsBounded
  <1>3. GrantsBounded
    <2>1. Holders = {} /\ \A b \in Browsers : cursors[b] = NoCursor
      BY DEF Init, Holders
    <2> QED BY <2>1, FS_EmptySet, LimitsAssumption DEF GrantsBounded
  <1>4. CoverageBounded /\ ReceiptsBounded
    BY FS_EmptySet, LimitsAssumption DEF Init, CoverageBounded, ReceiptsBounded
  <1> QED BY <1>1, <1>2, <1>3, <1>4 DEF Bounded

LEMMA BoundedStep ==
  (Types /\ Known) /\ Bounded /\ [Next]_vars => Bounded'
  BY CountersStep, RequestsStep, GrantsStep, TablesStep DEF Bounded

LEMMA BoundedTypes == Types /\ Known /\ Bounded => TypeOK
  <1> SUFFICES ASSUME Types, Known, Bounded PROVE TypeOK
    OBVIOUS
  <1> USE BoundsAssumption, TimesAssumption
  <1>1. now \in 0..MaxNow /\ joins \in 0..MaxJoins
    BY DEF Types, Bounded, Counters
  <1>2. playback \in [occ: 1..MaxUpdates + 1, base: 0..Duration, playing: BOOLEAN,
                      since: 0..MaxNow, anchor: 0..MaxUpdates]
    <2>1. playback \in Playback /\ playback.since <= now
      BY DEF Types
    <2>2. /\ playback.occ \in 1..MaxUpdates + 1 /\ playback.base \in 0..Duration
          /\ playback.playing \in BOOLEAN /\ playback.since \in 0..MaxNow
          /\ playback.anchor \in 0..MaxUpdates
      BY <1>1, <2>1 DEF Playback, Bounded, Counters
    <2> QED BY <2>1, <2>2 DEF Playback
  <1>3. sessions \in [Browsers -> 0..MaxJoins]
    BY <1>1 DEF Types, Known
  <1>4. ASSUME NEW b \in Browsers
        PROVE  /\ grants[b] # NoGrant =>
                    grants[b].conn \in 1..joins /\ grants[b].epoch \in 1..permission.epoch
               /\ cursors[b] = NoCursor \/ grants[b] # NoGrant
               /\ elements[b] \in [audible: BOOLEAN, reports: BOOLEAN]
    <2>1. /\ grants[b].conn \in Nat /\ grants[b].epoch \in Nat /\ joins \in Nat
          /\ permission.epoch \in Nat /\ grants[b].conn <= joins
          /\ grants[b].epoch <= permission.epoch
      BY DEF Types, Grant, Permission, Known, Seen
    <2>2. grants[b] # NoGrant => grants[b].conn >= 1 /\ grants[b].epoch >= 1
      BY DEF Bounded, GrantsBounded, Holders
    <2>3. elements[b] \in [audible: BOOLEAN, reports: BOOLEAN]
      BY DEF Types, Element
    <2> QED BY <2>1, <2>2, <2>3 DEF Bounded, GrantsBounded
  <1>5. Cardinality({b \in Browsers : grants[b] # NoGrant}) <= GrantLimit
    BY DEF Bounded, GrantsBounded, Holders
  <1>6. \A c \in coverage : c.key \in Keys /\ c.cells \subseteq Cells /\ c.first < c.updated
    BY DEF Bounded, CoverageBounded, RowBounded
  <1> QED BY <1>1, <1>2, <1>3, <1>4, <1>5, <1>6
          DEF TypeOK, Bounded, CoverageBounded, ReceiptsBounded, RequestsBounded

\* The tables of the room have their types, no partition and no receipt is there twice,
\* a cursor has a grant, and the limits of the room hold (grant_listener_learning,
\* pruneRoom, observe_listener_playback, read_listener_receipts).
THEOREM TypeCorrect == Spec => []TypeOK
  <1>1. Init => Types /\ Known /\ Bounded
    BY InitCore, InitBounded
  <1>2. (Types /\ Known /\ Bounded) /\ [Next]_vars => (Types /\ Known /\ Bounded)'
    BY CorePreserved, BoundedStep
  <1> QED BY <1>1, <1>2, BoundedTypes, PTL DEF Spec

-----------------------------------------------------------------------------
(* Receipts are kept *)

\* A grant of the present permission begins after it, and an audible sample of the
\* playback as it is comes after its last update.
Grounded ==
  /\ \A b \in Holders :
       grants[b].epoch = permission.epoch /\ grants[b].gen = permission.gen =>
         grants[b].from >= permission.since
  /\ \A b \in Browsers :
       cursors[b].audible /\ cursors[b].anchor = playback.anchor => cursors[b].at >= playback.since

\* The last units the room played, as many as a report covers.
Latest == Canonical - 4..Canonical - 1

\* A row takes a quarter of the time it covers: where one report may cover more than
\* passed since the row was begun, another browser of the account has just begun it.
Timely(c) ==
  /\ Current(c.key) => c.first >= permission.since
  /\ Cardinality(c.cells) <= 4 * (c.updated - c.first)
  /\ c.updated = now /\ playback.since < now =>
       Cardinality(c.cells \ Latest) <= 4 * (c.updated - c.first - 1)

Acceptable(r) ==
  /\ Current(r.key) => r.first >= permission.since
  /\ Cardinality(r.cells) <= 4 * (r.last - r.first)

Has(rows, key) == \E r \in rows : r.key = key

\* What is drained was recorded or has no permission, and what is emitted is kept.
Settled ==
  /\ \A c \in coverage : Timely(c)
  /\ \A r \in outbox : Acceptable(r)
  /\ \A r \in drain : Current(r.key) => Has(recorded, r.key)
  /\ \A c \in coverage : c.emitted /\ Current(c.key) => Has(outbox \union recorded, c.key)

LEMMA GroundedStep ==
  ASSUME Types, Known, Counters, GrantsBounded, Grounded, [Next]_vars
  PROVE  Grounded'
  <1>1. CASE UNCHANGED <<now, playback, permission>>
    <2>1. /\ now \in Nat /\ playback.since <= now /\ permission.since <= now
          /\ NoCursor.audible = FALSE
      BY NoneTyped DEF Types, Counters
    <2>2. ASSUME NEW d \in Browsers, Kept(d)
          PROVE  /\ (d \in Holders)' /\ grants'[d].epoch = permission.epoch
                    /\ grants'[d].gen = permission.gen => grants'[d].from >= permission.since
                 /\ cursors'[d].audible /\ cursors'[d].anchor = playback.anchor =>
                      cursors'[d].at >= playback.since
      BY <2>1, <2>2 DEF Kept, Holders, Grounded
    <2>3. ASSUME NEW r \in requests, Begun(r)
          PROVE  Grounded'
      BY <1>1, <2>1, <2>2, <2>3 DEF Begun, Grounded, Holders
    <2>4. ASSUME \A d \in Browsers : Kept(d)
          PROVE  Grounded'
      BY <1>1, <2>2, <2>4 DEF Grounded, Holders
    <2> QED BY <2>3, <2>4, GrantsKept
  <1>2. CASE Tick
    BY <1>2 DEF Tick, live, Grounded, Holders
  <1>3. CASE Updates
    <2>1. \A b \in Browsers : /\ cursors'[b] = cursors[b] /\ cursors[b].anchor \in Nat
                              /\ cursors[b].anchor <= playback.anchor
      BY <1>3 DEF Updates, live, Known, Types, Cursor
    <2>2. \A b \in Browsers : cursors'[b].anchor # playback'.anchor
      BY <1>3, <2>1 DEF Updates, Types, Playback
    <2> QED BY <1>3, <2>2 DEF Updates, live, Grounded, Holders
  <1>4. CASE Decides
    <2>1. UNCHANGED <<grants, cursors, playback>>
      BY <1>4 DEF Decides, live
    <2>2. CASE permission' = permission
      BY <2>1, <2>2 DEF Grounded, Holders
    <2>3. CASE permission' # permission
      <3>1. permission \in Permission /\ permission' \in Permission
        BY <1>4 DEF Decides, Types
      <3>2. permission.epoch < permission'.epoch \/ permission.gen < permission'.gen
        BY <1>4, <2>3 DEF Decides
      <3>3. \A b \in Browsers : grants[b].epoch # permission'.epoch \/ grants[b].gen # permission'.gen
        BY <3>1, <3>2 DEF Known, Seen, Types, Grant, Permission
      <3> QED BY <2>1, <3>3 DEF Grounded, Holders
    <2> QED BY <2>2, <2>3
  <1>5. CASE UNCHANGED vars
    BY <1>1, <1>5 DEF vars
  <1>6. CASE Rests
    BY <1>1, <1>6 DEF Rests
  <1>7. ASSUME NEW b \in Browsers, NEW position \in Positions, NEW audible \in BOOLEAN,
               Observes(b, position, audible)
        PROVE  Grounded'
    BY <1>1, <1>7 DEF Observes
  <1> QED BY <1>2, <1>3, <1>4, <1>5, <1>6, <1>7, StepKinds

\* What a qualifying report covers is among the latest units, no more than the time it
\* took, and of the permission in force.
LEMMA SpanTimely ==
  ASSUME Types, Known, Counters, GrantsBounded, Grounded, MaxGap <= 4,
         NEW b \in Browsers, NEW position \in Positions,
         Accepts(b), Qualifies(cursors[b], grants[b], position, TRUE)
  PROVE  /\ Current(cursors[b].key) => cursors[b].at >= permission.since
         /\ playback.since < now
         /\ Added(b, position) \subseteq Latest
         /\ IsFiniteSet(Added(b, position))
         /\ Cardinality(Added(b, position)) <= now - cursors[b].at
  <1> DEFINE k == cursors[b]
  <1>1. /\ k.key = Partition(grants[b]) /\ k.audible /\ k.anchor = playback.anchor
        /\ k.at >= grants[b].from /\ now - k.at > 0 /\ now - k.at <= MaxGap
        /\ position - k.pos > 0 /\ position - k.pos <= now - k.at /\ position = Canonical
    BY DEF Qualifies
  <1>2. /\ k.at \in Nat /\ k.pos \in Nat /\ now \in Nat /\ position \in Nat
        /\ grants[b].from \in Nat /\ MaxGap \in Nat
    BY PositionTyped, TimesAssumption DEF Types, Cursor, Grant
  <1>3. permission.since \in Nat /\ playback.since \in Nat
    BY DEF Types, Permission, Playback
  <1>4. Current(k.key) => k.at >= permission.since
    <2>1. Current(k.key) => grants[b].from >= permission.since
      BY <1>1 DEF Current, Partition, Grounded, Holders, Accepts
    <2> QED BY <1>1, <1>2, <1>3, <2>1
  <1>5. playback.since < now
    <2>1. k.at >= playback.since
      BY <1>1 DEF Grounded
    <2> QED BY <1>1, <1>2, <1>3, <2>1
  <1>6. k.pos..position - 1 \subseteq Latest
    BY <1>1, <1>2 DEF Latest
  <1>7. /\ IsFiniteSet(k.pos..position - 1)
        /\ Cardinality(k.pos..position - 1) = position - k.pos
    <2>1. k.pos \in Int /\ position - 1 \in Int /\ ~(k.pos > position - 1)
      BY <1>1, <1>2
    <2>2. position - 1 - k.pos + 1 = position - k.pos
      BY <1>2
    <2> QED BY <2>1, <2>2, FS_Interval
  <1>8. Added(b, position) = k.pos..position - 1
    BY DEF Added
  <1> HIDE DEF k
  <1> QED BY <1>1, <1>4, <1>5, <1>6, <1>7, <1>8 DEF k

LEMMA LatestFew ==
  ASSUME Types, NEW S, IsFiniteSet(S), NEW A, A \subseteq Latest,
         NEW n \in Int, Cardinality(S \ Latest) <= n
  PROVE  Cardinality((S \union A) \ Latest) <= n /\ Cardinality(S \union A) <= n + 4
  <1> DEFINE L == Latest
             R == S \ L
  <1>1. Canonical \in Nat
    BY CanonicalTyped
  <1>2. IsFiniteSet(L) /\ Cardinality(L) = 4
    <2>1. Canonical - 4 \in Int /\ Canonical - 1 \in Int
      BY <1>1
    <2>2. ~(Canonical - 4 > Canonical - 1) /\ Canonical - 1 - (Canonical - 4) + 1 = 4
      BY <1>1
    <2> QED BY <2>1, <2>2, FS_Interval DEF Latest
  <1>3. (S \union A) \ L = R /\ S \union A \subseteq R \union L
    OBVIOUS
  <1>4. IsFiniteSet(R) /\ Cardinality(R) \in Nat /\ Cardinality(R) <= n
    BY FS_Difference, FS_CardinalityType
  <1> HIDE DEF L, R
  <1>5. /\ IsFiniteSet(R \union L)
        /\ Cardinality(R \union L) = Cardinality(R) + Cardinality(L) - Cardinality(R \intersect L)
    BY <1>2, <1>4, FS_Union
  <1>6. Cardinality(R \intersect L) \in Nat
    BY <1>4, FS_Intersection, FS_CardinalityType
  <1>7. Cardinality(S \union A) <= Cardinality(R \union L) /\ IsFiniteSet(S \union A)
    BY <1>3, <1>5, FS_Subset
  <1>8. Cardinality(S \union A) \in Nat /\ Cardinality(R \union L) \in Nat
    BY <1>5, <1>7, FS_CardinalityType
  <1>9. Cardinality(S \union A) <= n + 4
    BY <1>2, <1>4, <1>5, <1>6, <1>7, <1>8
  <1> QED BY <1>3, <1>4, <1>9 DEF L

LEMMA CellsFinite ==
  ASSUME NEW S, S \subseteq Cells
  PROVE  IsFiniteSet(S) /\ Cardinality(S) \in Nat
  <1>1. IsFiniteSet(Cells)
    BY TimesAssumption, FS_Interval DEF Cells
  <1> QED BY <1>1, FS_Subset, FS_CardinalityType

LEMMA RowTimely ==
  ASSUME Types, Known, Counters, GrantsBounded, CoverageBounded, Grounded, Settled, MaxGap <= 4,
         NEW b \in Browsers, NEW position \in Positions,
         Accepts(b), Qualifies(cursors[b], grants[b], position, TRUE),
         NEW cells, NEW first, NEW kept,
         Starts(b, position, cells, first, kept) \/ Continues(b, position, cells, first, kept)
  PROVE  /\ Current(cursors[b].key) => first >= permission.since
         /\ Cardinality(cells) <= 4 * (now - first)
         /\ Cardinality(cells \ Latest) <= 4 * (now - first - 1)
  <1> DEFINE A == Added(b, position)
  <1>1. /\ Current(cursors[b].key) => cursors[b].at >= permission.since
        /\ playback.since < now /\ A \subseteq Latest
        /\ IsFiniteSet(A) /\ Cardinality(A) <= now - cursors[b].at
    BY SpanTimely
  <1>2. /\ cells \subseteq Cells /\ first \in Nat /\ first < now /\ now \in Nat
    BY RowFits DEF Types
  <1> HIDE DEF A
  <1>3. CASE Starts(b, position, cells, first, kept)
    <2>1. cells = A /\ first = cursors[b].at
      BY <1>3 DEF Starts, A
    <2>2. cells \ Latest = {} /\ Cardinality({}) = 0
      BY <1>1, <2>1, FS_EmptySet
    <2>3. Cardinality(cells) \in Nat
      BY <1>2, CellsFinite
    <2>4. Cardinality(cells) <= now - first
      BY <1>1, <2>1
    <2>5. Cardinality(cells) <= 4 * (now - first) /\ 0 <= 4 * (now - first - 1)
      <3> HIDE <1>1, <1>3, <2>1, <2>2
      <3> DEFINE n == Cardinality(cells)
      <3>1. n \in Nat /\ n <= now - first
        BY <2>3, <2>4
      <3> HIDE DEF n
      <3>2. n <= 4 * (now - first) /\ 0 <= 4 * (now - first - 1)
        BY <1>2, <3>1
      <3> QED BY <3>2 DEF n
    <2> QED BY <1>1, <2>1, <2>2, <2>5
  <1>4. ASSUME NEW c \in coverage, Follow(c, b, position, cells, first, kept)
        PROVE  /\ Current(cursors[b].key) => first >= permission.since
               /\ Cardinality(cells) <= 4 * (now - first)
               /\ Cardinality(cells \ Latest) <= 4 * (now - first - 1)
    <2>1. c.key = cursors[b].key /\ first = c.first /\ cells = c.cells \union A
      BY <1>4 DEF Follow, A
    <2>2. RowBounded(c) /\ Timely(c)
      BY DEF CoverageBounded, Settled
    <2>3. IsFiniteSet(c.cells) /\ Cardinality(c.cells) \in Nat
      BY <2>2, CellsFinite DEF RowBounded
    <2>4. /\ c.updated \in Nat /\ c.updated <= now
          /\ Cardinality(c.cells) <= 4 * (c.updated - first)
          /\ c.updated = now => Cardinality(c.cells \ Latest) <= 4 * (c.updated - first - 1)
      BY <1>1, <2>1, <2>2 DEF RowBounded, Timely
    <2>5. /\ Cardinality(c.cells \ Latest) \in Nat
          /\ Cardinality(c.cells \ Latest) <= Cardinality(c.cells)
      BY <2>3, FS_Subset, FS_CardinalityType
    <2>6. Cardinality(c.cells \ Latest) <= 4 * (now - first - 1)
      BY <1>2, <2>3, <2>4, <2>5
    <2>7. 4 * (now - first - 1) \in Int /\ 4 * (now - first - 1) + 4 = 4 * (now - first)
      BY <1>2
    <2>8. /\ Cardinality(cells \ Latest) <= 4 * (now - first - 1)
          /\ Cardinality(cells) <= 4 * (now - first - 1) + 4
      BY <1>1, <2>1, <2>3, <2>6, <2>7, LatestFew
    <2> QED BY <2>1, <2>2, <2>7, <2>8 DEF Timely
  <1> QED BY <1>3, <1>4 DEF Continues

\* Nothing becomes current by a change of the permission.
LEMMA NothingBecomesCurrent ==
  ASSUME Types, Known, Decides, permission' # permission,
         NEW r \in coverage \union outbox \union recorded
  PROVE  ~Current(r.key)'
  <1>1. permission \in Permission /\ permission' \in Permission
    BY DEF Decides, Types
  <1>2. permission.epoch < permission'.epoch \/ permission.gen < permission'.gen
    BY DEF Decides
  <1>3. /\ r.key[2] \in Nat /\ r.key[3] \in Nat
        /\ r.key[2] <= permission.epoch /\ r.key[3] <= permission.gen
    BY DEF Known, Seen, Key
  <1>4. r.key[2] # permission'.epoch \/ r.key[3] # permission'.gen
    BY <1>1, <1>2, <1>3 DEF Permission
  <1>5. UNCHANGED <<coverage, outbox, recorded>>
    BY DEF Decides, live
  <1> QED BY <1>4, <1>5 DEF Current

\* A step that changes neither the clock, nor the playback, nor the permission.
LEMMA StillSettled ==
  ASSUME Settled, UNCHANGED <<now, playback, permission>>
  PROVE  /\ \A c \in coverage : Timely(c)'
         /\ \A r \in outbox : Acceptable(r)'
         /\ \A key : Current(key)' <=> Current(key)
  <1>1. \A key : Current(key)' <=> Current(key)
    BY DEF Current
  <1>2. Latest' = Latest
    BY DEF Latest, Canonical
  <1>3. \A c \in coverage : Timely(c)'
    BY <1>1, <1>2 DEF Settled, Timely
  <1>4. \A r \in outbox : Acceptable(r)'
    BY <1>1 DEF Settled, Acceptable
  <1> QED BY <1>1, <1>3, <1>4

LEMMA RecordsSettled ==
  ASSUME Types, Known, Counters, GrantsBounded, CoverageBounded, Grounded, Settled, MaxGap <= 4,
         Still, NEW b \in Browsers, NEW position \in Positions, Records(b, position)
  PROVE  Settled'
  <1>0. PICK key : key = cursors[b].key
    OBVIOUS
  <1>1. PICK cells, first, kept :
          /\ Writes(key, cells, first, kept)
          /\ Starts(b, position, cells, first, kept) \/ Continues(b, position, cells, first, kept)
    BY <1>0 DEF Records
  <1>2. kept \subseteq coverage /\ first \in Nat
    BY <1>1, RowFits DEF Records
  <1>3. /\ Current(key) => first >= permission.since
        /\ Cardinality(cells) <= 4 * (now - first)
        /\ Cardinality(cells \ Latest) <= 4 * (now - first - 1)
    BY <1>0, <1>1, RowTimely DEF Records
  <1>row. PICK row : row = Row(key, cells, first)
    OBVIOUS
  <1>receipt. PICK receipt : receipt = ReceiptOf(key, cells, first)
    OBVIOUS
  <1>4. /\ row.key = key /\ row.cells = cells /\ row.first = first /\ row.updated = now
        /\ row.emitted = Emits(cells)
        /\ receipt.key = key /\ receipt.cells = cells /\ receipt.first = first
        /\ receipt.last = now
    BY <1>row, <1>receipt DEF Row, ReceiptOf
  <1>5. /\ coverage' = kept \union {row}
        /\ outbox' = IF Emits(cells) /\ ~ \E r \in outbox : r.key = key
                     THEN outbox \union {receipt} ELSE outbox
    BY <1>1, <1>row, <1>receipt DEF Writes
  <1>6. /\ \A c \in coverage : Timely(c)'
        /\ \A r \in outbox : Acceptable(r)'
        /\ \A k : Current(k)' <=> Current(k)
    BY StillSettled DEF Still
  <1>7. Timely(row)'
    <2>1. Timely(row)
      BY <1>3, <1>4 DEF Timely
    <2>2. Latest' = Latest
      BY DEF Still, Latest, Canonical
    <2> QED BY <1>6, <2>1, <2>2 DEF Timely, Still
  <1>8. Acceptable(receipt)'
    BY <1>3, <1>4, <1>6 DEF Acceptable, Still
  <1>9. \A c \in coverage' : Timely(c)'
    BY <1>2, <1>5, <1>6, <1>7
  <1>10. \A r \in outbox' : Acceptable(r)'
    BY <1>5, <1>6, <1>8
  <1>11. \A c \in coverage' : c.emitted /\ Current(c.key)' => Has(outbox' \union recorded', c.key)
    <2>1. Emits(cells) => Has(outbox', key)
      BY <1>4, <1>5 DEF Has
    <2>2. outbox \subseteq outbox' /\ recorded' = recorded
      BY <1>5 DEF Still
    <2>3. ASSUME NEW c \in kept, c.emitted, Current(c.key)
          PROVE  Has(outbox' \union recorded', c.key)
      BY <1>2, <2>2, <2>3 DEF Settled, Has
    <2>4. row.emitted => Has(outbox' \union recorded', row.key)
      BY <1>4, <2>1 DEF Has
    <2> QED BY <1>5, <1>6, <2>3, <2>4
  <1>12. \A r \in drain' : Current(r.key)' => Has(recorded', r.key)
    BY <1>6 DEF Still, Settled
  <1> QED BY <1>9, <1>10, <1>11, <1>12 DEF Settled, Has

LEMMA SettledStep ==
  ASSUME Types, Known, Counters, GrantsBounded, CoverageBounded, ReceiptsBounded, Grounded,
         Settled, MaxGap <= 4, [Next]_vars
  PROVE  Settled'
  <1>1. CASE Still /\ coverage' \subseteq coverage /\ outbox' = outbox
    <2>1. /\ \A c \in coverage : Timely(c)'
          /\ \A r \in outbox : Acceptable(r)'
          /\ \A k : Current(k)' <=> Current(k)
      BY <1>1, StillSettled DEF Still
    <2> QED BY <1>1, <2>1 DEF Still, Settled, Has
  <1>2. CASE Still /\ \E b \in Browsers, position \in Positions : Records(b, position)
    BY <1>2, RecordsSettled
  <1>3. CASE RecordReceipts
    <2>1. /\ UNCHANGED <<now, playback, permission, outbox>> /\ drain' = outbox
          /\ recorded' = recorded \union Ingested(outbox) /\ coverage' \subseteq coverage
      BY <1>3, KeptCoverageFinite DEF RecordReceipts
    <2>2. /\ \A c \in coverage : Timely(c)'
          /\ \A r \in outbox : Acceptable(r)'
          /\ \A k : Current(k)' <=> Current(k)
      BY <2>1, StillSettled
    <2>3. ASSUME NEW r \in outbox, Current(r.key)
          PROVE  Has(recorded', r.key)
      <3>1. /\ r.first >= permission.since /\ Cardinality(r.cells) <= 4 * (r.last - r.first)
        BY <2>3 DEF Settled, Acceptable
      <3>2. Allowed(r)
        BY <2>3, <3>1 DEF Allowed, Current
      <3>3. (r.last - r.first) * 4 >= Cardinality(r.cells)
        <4>1. r.cells \subseteq Cells /\ r.first \in Nat /\ r.last \in Nat
          BY BoundsAssumption DEF ReceiptsBounded, Receipt
        <4>2. Cardinality(r.cells) \in Nat
          BY <4>1, CellsFinite
        <4> QED BY <3>1, <4>1, <4>2
      <3>4. r \in Ingested(outbox) \/ \E x \in recorded : x.key = r.key
        BY <3>2, <3>3 DEF Ingested
      <3> QED BY <2>1, <3>4 DEF Has
    <2>4. \A c \in coverage' : c.emitted /\ Current(c.key)' => Has(outbox' \union recorded', c.key)
      BY <2>1, <2>2 DEF Settled, Has
    <2>5. /\ \A c \in coverage' : Timely(c)'
          /\ \A r \in outbox' : Acceptable(r)'
          /\ \A r \in drain' : Current(r.key)' => Has(recorded', r.key)
      BY <2>1, <2>2, <2>3
    <2> QED BY <2>4, <2>5 DEF Settled, Has
  <1>4. CASE AcknowledgeReceipts
    <2>1. /\ UNCHANGED <<now, playback, permission, coverage, recorded>> /\ drain' = {}
          /\ outbox' = {r \in outbox : \A x \in drain : x.key # r.key}
      BY <1>4 DEF AcknowledgeReceipts, Acknowledged
    <2>2. /\ \A c \in coverage : Timely(c)'
          /\ \A r \in outbox : Acceptable(r)'
          /\ \A k : Current(k)' <=> Current(k)
      BY <2>1, StillSettled
    <2>3. ASSUME NEW c \in coverage, c.emitted, Current(c.key)
          PROVE  Has(outbox' \union recorded', c.key)
      <3>1. PICK r \in outbox \union recorded : r.key = c.key
        BY <2>3 DEF Settled, Has
      <3>2. CASE r \in outbox' \/ r \in recorded
        BY <2>1, <3>1, <3>2 DEF Has
      <3>3. CASE \E x \in drain : x.key = c.key
        BY <2>1, <2>3, <3>3 DEF Settled, Has
      <3> QED BY <2>1, <3>1, <3>2, <3>3
    <2>4. /\ \A c \in coverage' : Timely(c)'
          /\ \A r \in outbox' : Acceptable(r)'
          /\ \A r \in drain' : Current(r.key)' => Has(recorded', r.key)
      BY <2>1, <2>2
    <2>5. \A c \in coverage' : c.emitted /\ Current(c.key)' => Has(outbox' \union recorded', c.key)
      BY <2>1, <2>2, <2>3
    <2> QED BY <2>4, <2>5 DEF Settled, Has
  <1>5. CASE DrainFails
    <2>1. /\ UNCHANGED <<now, playback, permission, coverage, outbox, recorded>> /\ drain' = {}
      BY <1>5 DEF DrainFails, live
    <2>2. /\ \A c \in coverage : Timely(c)'
          /\ \A r \in outbox : Acceptable(r)'
          /\ \A k : Current(k)' <=> Current(k)
      BY <2>1, StillSettled
    <2> QED BY <2>1, <2>2 DEF Settled, Has
  <1>6. CASE Tick \/ (Updates /\ drain' = drain)
    <2>1. /\ UNCHANGED <<permission, coverage, outbox, recorded, drain>>
          /\ now' = now + 1 \/ (now' = now /\ playback'.since = now)
      BY <1>6 DEF Tick, Updates, live
    <2>2. \A k : Current(k)' <=> Current(k)
      BY <2>1 DEF Current
    <2>3. ASSUME NEW c \in coverage
          PROVE  Timely(c)'
      <3>1. c.updated \in Nat /\ c.updated <= now /\ now \in Nat
        BY DEF CoverageBounded, RowBounded, Types
      <3>2. ~(c.updated = now' /\ playback'.since < now')
        BY <2>1, <3>1
      <3> QED BY <2>1, <2>2, <3>2 DEF Settled, Timely
    <2>4. \A r \in outbox : Acceptable(r)'
      BY <2>1, <2>2 DEF Settled, Acceptable
    <2> QED BY <2>1, <2>2, <2>3, <2>4 DEF Settled, Has
  <1>7. CASE Decides /\ drain' = drain
    <2>1. UNCHANGED <<now, playback, coverage, outbox, recorded, drain>>
      BY <1>7 DEF Decides, live
    <2>2. CASE permission' = permission
      <3>1. /\ \A c \in coverage : Timely(c)'
            /\ \A r \in outbox : Acceptable(r)'
            /\ \A k : Current(k)' <=> Current(k)
        BY <2>1, <2>2, StillSettled
      <3>2. \A c \in coverage' : c.emitted /\ Current(c.key)' => Has(outbox' \union recorded', c.key)
        BY <2>1, <3>1 DEF Settled
      <3>3. \A r \in drain' : Current(r.key)' => Has(recorded', r.key)
        BY <2>1, <3>1 DEF Settled
      <3> QED BY <2>1, <3>1, <3>2, <3>3 DEF Settled, Has
    <2>3. CASE permission' # permission
      <3>1. \A r \in coverage \union outbox \union recorded : ~Current(r.key)'
        BY <1>7, <2>3, NothingBecomesCurrent
      <3>2. Latest' = Latest
        BY <2>1 DEF Latest, Canonical
      <3>3. \A c \in coverage : Timely(c)'
        BY <2>1, <3>1, <3>2 DEF Settled, Timely
      <3>4. \A r \in outbox : Acceptable(r)'
        BY <3>1 DEF Settled, Acceptable
      <3> QED BY <2>1, <3>1, <3>3, <3>4 DEF Settled, ReceiptsBounded
    <2> QED BY <2>2, <2>3
  <1> QED BY <1>1, <1>2, <1>3, <1>4, <1>5, <1>6, <1>7, RecordKinds

\* A partition that is done with has its receipt: it waits, or was recorded, or has lost
\* its permission.  A lost answer, a drain that fails or a full outbox lose none
\* (observe_listener_playback, drainListenerReceipts, ingest_listener_receipts).  The
\* durable store rejects a receipt that takes less than a quarter of the time it covers;
\* that LISTENER_MAX_GAP_MS is four units (20 seconds) is what keeps a browser from
\* covering more than that in a partition another browser has just begun.
THEOREM EmittedKept == ASSUME MaxGap <= 4 PROVE Spec => []EmittedIsKept
  <1> DEFINE Inv == Types /\ Known /\ Bounded /\ Grounded /\ Settled
  <1>1. Init => Inv
    <2> SUFFICES ASSUME Init PROVE Inv
      OBVIOUS
    <2>1. Types /\ Known /\ Bounded
      BY InitCore, InitBounded
    <2>2. Grounded
      BY NoneTyped DEF Init, Grounded, Holders
    <2>3. Settled
      BY DEF Init, Settled
    <2> QED BY <2>1, <2>2, <2>3
  <1>2. Inv /\ [Next]_vars => Inv'
    <2> SUFFICES ASSUME Inv, [Next]_vars PROVE Inv'
      OBVIOUS
    <2>1. Types' /\ Known' /\ Bounded'
      BY CorePreserved, BoundedStep
    <2>2. Grounded' /\ Settled'
      BY GroundedStep, SettledStep DEF Bounded
    <2> QED BY <2>1, <2>2
  <1>3. Inv => EmittedIsKept
    BY DEF Settled, Has, Current, EmittedIsKept
  <1> HIDE DEF Inv
  <1> QED BY <1>1, <1>2, <1>3, PTL DEF Spec

=============================================================================
