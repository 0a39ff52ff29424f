----------------------- MODULE RecommendationDelivery -----------------------
(***************************************************************************)
(* The way of a recommendation event from the live room to the durable     *)
(* store: the outbox of the SpacetimeDB module (recommendation-events.ts,  *)
(* recommendation-authority.ts, room-retirement.ts), the drain workers of  *)
(* the web server (durable-outbox-drain.ts, outbox-drain.ts,               *)
(* persistence.ts), their database lease and the ingestion procedure (SQL  *)
(* migrations 20260911085543 and 20260908124308).                          *)
(* Every call of a worker may fail, lose its answer or take effect after   *)
(* the worker gave up; a worker may die; its lease may run out under it.   *)
(***************************************************************************)
EXTENDS Naturals, SequencesExt

CONSTANTS Members,          \* members of the room
          Media,            \* media identities (source type and media id)
          Kinds,            \* durable kinds the room may have
          Workers,          \* server invocations that may drain at the same time
          Actions,          \* names a client may give its moves of items
          Limit,            \* events of one batch
          OutboxLimit,      \* RECOMMENDATION_OUTBOX_ROOM_LIMIT
          PreferenceLimit,  \* RECOMMENDATION_GUEST_PREFERENCE_MEMBER_LIMIT
          MaxEvents,        \* bound on the events of a behaviour
          MaxNumber,        \* bound on the numbers in their keys
          MaxOccurrences,   \* bound on the items that begin to play
          MaxDropped,       \* bound on the events dropped at a full outbox
          MaxReports        \* bound on the reports of one occurrence's failure

ASSUME LimitAssumption == Limit \in Nat \ {0}
ASSUME BoundsAssumption == /\ OutboxLimit \in Nat \ {0} /\ PreferenceLimit \in Nat \ {0}
                           /\ MaxEvents \in Nat /\ MaxNumber \in Nat /\ MaxDropped \in Nat
                           /\ MaxReports \in Nat /\ MaxOccurrences \in Nat
ASSUME ActionsAssumption == Actions \subseteq Nat
ASSUME KindsAssumption == Kinds \subseteq {"legacy", "shared", "temporary"}

VARIABLES
  \* the live room, in SpacetimeDB
  outbox,       \* recommendation_event_outbox of the room
  accepted,     \* events inserted so far: the time order of event_id
  dropped,      \* recommendation_event_overflow.dropped_count
  preferences,  \* guest_media_preference of each member, least recently set first
  occurrence,   \* recommendation_playback_occurrence
  reports,      \* failures reported in the occurrence
  retired,      \* retired_room marker: "no", "closed", "purged"
  \* the durable store, in PostgreSQL
  kind,         \* rooms.room_kind
  gone,         \* the rooms row is deleted
  linked,       \* from which event on room_members.user_id is set; 0: a guest
  noted,        \* account_guest_migrations: the first event after the latest; 0: none
  tombstones,   \* recommendation_event_tombstones
  tally,        \* recommendation_media_aggregates, per event type
  choice,       \* media_preferences of each account
  lease,        \* recommendation_delivery.lease_token: its worker
  \* the server
  workers       \* the drain each worker runs

live == <<outbox, accepted, dropped, preferences, occurrence, reports, retired>>
durable == <<kind, gone, linked, noted, tombstones, tally, choice>>
delivery == <<lease, workers>>
vars == <<live, durable, delivery>>

-----------------------------------------------------------------------------
(* Events *)

NoWorker == "nobody"
Types == {"preference", "failure", "queue", "move"}
Event == [id: 1..MaxEvents, type: Types, member: Members, media: Media,
          n: 0..MaxNumber, liked: BOOLEAN]

IsPreference(e) == e.type = "preference"

\* Same idempotency_key.
SameKey(e, f) == /\ e.type = f.type /\ e.n = f.n
                 /\ IsPreference(e) => e.member = f.member /\ e.media = f.media
                 /\ e.type = "move" => e.member = f.member

\* selectRecommendationOutboxBatch: the oldest events, created_ms before event_id.
Oldest == {e \in outbox : Cardinality({f \in outbox : f.id < e.id}) < Limit}

\* The drain a worker runs: the call it waits for, the events it read, and those of
\* their members it takes for accounts.
Idle == [pc |-> "idle", batch |-> {}, known |-> {}]
Drain == [pc: {"idle", "read", "look up", "consume", "acknowledge", "finish"},
          batch: SUBSET Event, known: SUBSET Members]

-----------------------------------------------------------------------------
(* Events that happen in the live room *)

Open == retired = "no"

\* A key that still waits.
\* Mutant of Waits: the outbox is not looked up before an insert.
NeverWaits(event) == FALSE
Waits(event) == \E e \in outbox : SameKey(e, event)

\* appendRecommendationEvent: a key that waits is not appended again; a full outbox
\* counts the event as dropped.
AppendEvent(type, m, a, n, liked) ==
  LET event == [id |-> accepted + 1, type |-> type, member |-> m, media |-> a,
                n |-> n, liked |-> liked]
      full == Cardinality(outbox) >= OutboxLimit
  IN  \/ Waits(event) /\ UNCHANGED <<outbox, accepted, dropped>>
      \/ /\ ~Waits(event) /\ full
         /\ dropped < MaxDropped
         /\ dropped' = dropped + 1
         /\ UNCHANGED <<outbox, accepted>>
      \/ /\ ~Waits(event) /\ ~full
         /\ accepted < MaxEvents /\ n \in 0..MaxNumber
         /\ outbox' = outbox \union {event}
         /\ accepted' = accepted + 1
         /\ UNCHANGED dropped

\* A queue or playback command; the action it claims, its occurrence or its row makes
\* the key unique.
QueueAction(m, a) ==
  /\ Open
  /\ AppendEvent("queue", m, a, accepted + dropped, FALSE)
  /\ UNCHANGED <<preferences, occurrence, reports, retired, durable, delivery>>

\* A priority or another place for an item: the key names the client's action n, which
\* is not claimed, so that an action may come again.
MoveItem(m, a, n) ==
  /\ Open
  /\ AppendEvent("move", m, a, n, FALSE)
  /\ UNCHANGED <<preferences, occurrence, reports, retired, durable, delivery>>

\* Another item begins to play: recommendation_playback_occurrence is replaced.
BeginPlayback(m, a) ==
  /\ Open /\ occurrence < MaxOccurrences
  /\ AppendEvent("queue", m, a, accepted + dropped, FALSE)
  /\ occurrence' = occurrence + 1
  /\ reports' = 0
  /\ UNCHANGED <<preferences, retired, durable, delivery>>

\* report_media_failure without an advance: the occurrence stays, its key names the
\* occurrence and the failure code.
SourceFailure(m, a) ==
  /\ Open /\ reports < MaxReports
  /\ AppendEvent("failure", m, a, occurrence, FALSE)
  /\ reports' = reports + 1
  /\ UNCHANGED <<preferences, occurrence, retired, durable, delivery>>

Newest(s, limit) == SubSeq(s, IF Len(s) > limit THEN Len(s) - limit + 1 ELSE 1, Len(s))

\* setGuestMediaPreference with the current revision; any other revision changes
\* nothing.  `forced': the reassertion of a choice, the neutral choice of a medium
\* without one.  The least recently set choices above the limit are forgotten.
SetPreference(m, a, liked, forced) ==
  LET mine == preferences[m]
      places == {i \in DOMAIN mine : mine[i].media = a}
      place == CHOOSE i \in places : TRUE
      current == IF places = {} THEN [media |-> a, liked |-> FALSE, revision |-> 0]
                 ELSE mine[place]
      others == IF places = {} THEN mine ELSE RemoveAt(mine, place)
      next == [media |-> a, liked |-> liked, revision |-> current.revision + 1]
  IN  /\ Open
      /\ liked # current.liked \/ forced
      /\ preferences' = [preferences EXCEPT ![m] = Newest(others \o <<next>>, PreferenceLimit)]
      /\ AppendEvent("preference", m, a, next.revision, liked)
      /\ UNCHANGED <<occurrence, reports, retired, durable, delivery>>

\* retire_room: closing ends all authority; purging also empties the outbox, and is
\* refused while it holds an explicit preference.
RetireRoom(purge) ==
  /\ purge => ~ \E e \in outbox : IsPreference(e)
  /\ retired' = IF purge THEN "purged" ELSE IF Open THEN "closed" ELSE retired
  /\ outbox' = IF purge THEN {} ELSE outbox
  /\ dropped' = IF purge THEN 0 ELSE dropped
  /\ preferences' = IF purge THEN [m \in Members |-> <<>>] ELSE preferences
  /\ UNCHANGED <<accepted, occurrence, reports, durable, delivery>>

-----------------------------------------------------------------------------
(* The durable room *)

\* A guest signs in: first the membership becomes the account's ...
LinkMember(m) ==
  /\ ~gone /\ linked[m] = 0
  /\ linked' = [linked EXCEPT ![m] = accepted + 1]
  /\ UNCHANGED <<live, kind, gone, noted, tombstones, tally, choice, delivery>>

\* ... then, if no call in between fails, the migration is noted.  It is also noted on a
\* membership the account has already, when it signs in from a guest's session.
NoteMigration(m) ==
  /\ ~gone /\ linked[m] > 0
  /\ noted' = [noted EXCEPT ![m] = accepted + 1]
  /\ UNCHANGED <<live, kind, gone, linked, tombstones, tally, choice, delivery>>

\* The rooms row is deleted, its members with it: that of a temporary room by the
\* cleanup once the live room is purged, any other by its owner.
DeleteRoom ==
  /\ ~gone
  /\ kind = "temporary" => retired = "purged"
  /\ gone' = TRUE
  /\ UNCHANGED <<live, kind, linked, noted, tombstones, tally, choice, delivery>>

-----------------------------------------------------------------------------
(* ingest_recommendation_events *)

\* Mutant of Conflicts: a row that is delivered again is a conflict.
ConflictsOnRetry(e) == \E t \in tombstones : t.id = e.id \/ SameKey(t, e)

\* A row whose id or key is known must be the very row that is known.
Conflicts(e) == \E t \in tombstones : (t.id = e.id \/ SameKey(t, e)) /\ t # e

\* The members of some events that are an account's, as far as anything of the events
\* is kept.
Accounts(S) == {m \in Members : linked[m] > 0 /\ \E e \in S : e.member = m}

\* `known': the members found to be an account's before the ingestion.  Outside legacy
\* rooms nothing from before the latest migration teaches the account.
Attributed(e, known) ==
  /\ e.member \in known
  /\ kind = "legacy" \/ noted[e.member] <= e.id

\* Not kept: rows without a room, the implicit history of a temporary room.
Kept(e) == ~gone /\ (kind = "temporary" => IsPreference(e))

\* The new rows of a batch are counted in the aggregates of a legacy room.
Counted(S) ==
  [t \in Types |-> tally[t] + Cardinality({e \in S : e.type = t /\ Kept(e) /\ kind = "legacy"})]

\* The likes and unlikes of S that bear on choice c and are newer than it.
Newer(S, known, c) ==
  {e \in S : /\ IsPreference(e) /\ Kept(e) /\ Attributed(e, known)
             /\ <<e.member, e.media>> = c /\ e.id > choice[c].by}

\* Mutant of Chosen: of several new choices the oldest one stays.
ChosenOldest(S, known) ==
  [c \in Members \X Media |->
     IF Newer(S, known, c) = {} THEN choice[c]
     ELSE LET last == CHOOSE e \in Newer(S, known, c) : \A f \in Newer(S, known, c) : e.id <= f.id
          IN  [liked |-> last.liked, by |-> last.id]]

\* The choices of a batch are applied in the order of their events.
Chosen(S, known) ==
  [c \in Members \X Media |->
     IF Newer(S, known, c) = {} THEN choice[c]
     ELSE LET last == CHOOSE e \in Newer(S, known, c) : \A f \in Newer(S, known, c) : f.id <= e.id
          IN  [liked |-> last.liked, by |-> last.id]]

\* One transaction: a conflict anywhere fails the whole batch.
Ingest(batch, known) ==
  LET new == batch \ tombstones
  IN  IF \E e \in batch : Conflicts(e)
        THEN UNCHANGED <<tombstones, tally, choice>>
        ELSE /\ tombstones' = tombstones \union new
             /\ tally' = Counted(new)
             /\ choice' = Chosen(new, known)

\* Mutant of Acknowledge: as many rows are deleted from the head of the outbox.
AcknowledgeOldest(batch) ==
  outbox' = {e \in outbox : Cardinality({f \in outbox : f.id < e.id}) >= Cardinality(batch)}

\* acknowledge_recommendation_event_outbox deletes the rows with the given ids.
Acknowledge(batch) == outbox' = {e \in outbox : \A f \in batch : f.id # e.id}

-----------------------------------------------------------------------------
(* A drain: deliverRecommendationEvents *)

At(w, pc) == workers[w].pc = pc

\* On to a call that does not need the batch.
Go(w, pc) == workers' = [workers EXCEPT ![w] = [Idle EXCEPT !.pc = pc]]

\* claim_recommendation_delivery; whoever finds it taken is busy and ends.
Claim(w) ==
  /\ At(w, "idle")
  /\ lease = NoWorker
  /\ lease' = w
  /\ Go(w, "read")
  /\ UNCHANGED <<live, durable>>

\* An empty outbox ends the drain.
Read(w) ==
  /\ At(w, "read")
  /\ IF outbox = {} THEN Go(w, "finish")
     ELSE workers' = [workers EXCEPT ![w] = [pc |-> "look up", batch |-> Oldest, known |-> {}]]
  /\ UNCHANGED <<live, durable, lease>>

\* loadMemberAttributions: a call of its own, before the ingestion.
LookUp(w) ==
  /\ At(w, "look up")
  /\ workers' = [workers EXCEPT ![w] =
                   [pc |-> "consume", batch |-> @.batch, known |-> Accounts(@.batch)]]
  /\ UNCHANGED <<live, durable, lease>>

\* The batch is acknowledged only after the store answered.
Consume(w) ==
  /\ At(w, "consume")
  /\ Ingest(workers[w].batch, workers[w].known)
  /\ IF \E e \in workers[w].batch : Conflicts(e) THEN Go(w, "finish")
     ELSE workers' = [workers EXCEPT ![w] =
                        [pc |-> "acknowledge", batch |-> @.batch, known |-> {}]]
  /\ UNCHANGED <<live, kind, gone, linked, noted, lease>>

\* On to the next batch; `budget' is left of the batches and of the time of a run.
AcknowledgeBatch(w) ==
  /\ At(w, "acknowledge")
  /\ Acknowledge(workers[w].batch)
  /\ \E budget \in BOOLEAN : Go(w, IF budget THEN "read" ELSE "finish")
  /\ UNCHANGED <<accepted, dropped, preferences, occurrence, reports, retired, durable,
                 lease>>

\* A call fails, its answer is lost, or it is given up at its timeout or at the
\* deadline of the drain.
Fail(w) ==
  /\ At(w, "read") \/ At(w, "look up") \/ At(w, "consume") \/ At(w, "acknowledge")
  /\ Go(w, "finish")
  /\ UNCHANGED <<live, durable, lease>>

\* finish_recommendation_delivery counts only with the token of the current lease.
Finish(w) ==
  /\ At(w, "finish")
  /\ lease' = IF lease = w THEN NoWorker ELSE lease
  /\ Go(w, "idle")
  /\ UNCHANGED <<live, durable>>

\* The invocation is killed after its last call, or the call that ends it is lost.
Crash(w) ==
  /\ At(w, "finish")
  /\ Go(w, "idle")
  /\ UNCHANGED <<live, durable, lease>>

-----------------------------------------------------------------------------
(* Time *)

\* The lease runs out, under a drain that is still at work too: a call that takes
\* effect late, when another drain is on its way, is the call of such a drain.
LeaseExpires ==
  /\ lease # NoWorker
  /\ lease' = NoWorker
  /\ UNCHANGED <<live, durable, workers>>

-----------------------------------------------------------------------------
Init ==
  /\ outbox = {} /\ accepted = 0 /\ dropped = 0
  /\ preferences = [m \in Members |-> <<>>]
  /\ occurrence = 0 /\ reports = 0
  /\ retired = "no"
  /\ kind \in Kinds /\ gone = FALSE
  /\ linked \in [Members -> 0..1] /\ noted = [m \in Members |-> 0]
  /\ tombstones = {}
  /\ tally = [t \in Types |-> 0]
  /\ choice = [c \in Members \X Media |-> [liked |-> FALSE, by |-> 0]]
  /\ lease = NoWorker
  /\ workers = [w \in Workers |-> Idle]

Room ==
  \/ \E m \in Members, a \in Media :
       \/ QueueAction(m, a) \/ BeginPlayback(m, a) \/ SourceFailure(m, a)
       \/ \E n \in Actions : MoveItem(m, a, n)
       \/ \E liked, forced \in BOOLEAN : SetPreference(m, a, liked, forced)
  \/ \E purge \in BOOLEAN : RetireRoom(purge)
  \/ \E m \in Members : LinkMember(m) \/ NoteMigration(m)
  \/ DeleteRoom

Delivery ==
  \/ \E w \in Workers : \/ Claim(w) \/ Read(w) \/ LookUp(w) \/ Consume(w)
                        \/ AcknowledgeBatch(w) \/ Finish(w)
                        \/ Fail(w) \/ Crash(w)
  \/ LeaseExpires

Next == Room \/ Delivery

Spec == Init /\ [][Next]_vars

\* Deliveries are triggered again and again (requests, the daily cron), the store's
\* clock goes on, an invocation ends, and calls get through again and again.
DeliveryFairness ==
  /\ WF_vars(LeaseExpires)
  /\ \A w \in Workers : WF_vars(Finish(w) \/ Crash(w))
  /\ SF_vars(\E w \in Workers : Claim(w))
  /\ SF_vars(\E w \in Workers : Read(w))
  /\ SF_vars(\E w \in Workers : LookUp(w))
  /\ SF_vars(\E w \in Workers : Consume(w))
  /\ SF_vars(\E w \in Workers : AcknowledgeBatch(w))

FairSpec == Spec /\ DeliveryFairness

-----------------------------------------------------------------------------
(* Properties *)

\* Types and bounds of both databases, the drains and the calls under way: waiting
\* rows have distinct keys and fit the outbox, and a row of the outbox was accepted.
TypeOK ==
  /\ outbox \subseteq Event /\ Cardinality(outbox) <= OutboxLimit
  /\ \A e, f \in outbox : SameKey(e, f) => e = f
  /\ accepted \in 0..MaxEvents /\ \A e \in outbox \union tombstones : e.id <= accepted
  /\ dropped \in 0..MaxDropped
  /\ \A m \in Members : Len(preferences[m]) <= PreferenceLimit
  /\ occurrence \in 0..MaxOccurrences /\ reports \in 0..MaxReports
  /\ retired \in {"no", "closed", "purged"}
  /\ kind \in Kinds /\ gone \in BOOLEAN
  /\ linked \in [Members -> 0..MaxEvents + 1] /\ noted \in [Members -> 0..MaxEvents + 1]
  /\ \A m \in Members : linked[m] = 0 => noted[m] = 0
  /\ tombstones \subseteq Event
  /\ tally \in [Types -> 0..MaxEvents]
  /\ choice \in [Members \X Media -> [liked: BOOLEAN, by: 0..MaxEvents]]
  /\ lease \in Workers \union {NoWorker}
  /\ workers \in [Workers -> Drain]

\* An account's membership since before the first event, and none that, outside legacy
\* rooms, a guest was merged into later.
AllAlong(m) == linked[m] = 1 /\ (kind = "legacy" \/ noted[m] <= 1)

\* When no like or unlike of an account's medium waits, the account's durable choice
\* is the one the live room shows, whatever drains raced, failed or came late.  Only a
\* full outbox, the deletion of the durable room by its owner or, outside legacy rooms,
\* a migration noted on the membership after the first event may come between.
AccountAgreesWithRoom ==
  \A m \in Members : \A i \in 1..Len(preferences[m]) :
    LET p == preferences[m][i]
    IN  (/\ AllAlong(m) /\ dropped = 0 /\ ~gone
         /\ ~ \E e \in outbox : IsPreference(e) /\ e.member = m /\ e.media = p.media)
        => choice[<<m, p.media>>].liked = p.liked

\* What waits to be recorded, and what may still be recorded though its row is gone.
Pending == outbox \ tombstones
Batches == UNION {workers[w].batch : w \in Workers}
Lapsed == Batches \ (outbox \union tombstones)

Ledger == INSTANCE RecommendationLedger WITH pending <- Pending, lapsed <- Lapsed

\* The delivery implements the ledger: an event is recorded once, whatever is retried,
\* and leaves the outbox unrecorded only with a purged room and no choice waiting.
ImplementsLedger == Ledger!Spec

\* Its key was recorded with another event: the store never takes it.
Refused(f) == \E t \in tombstones : SameKey(t, f) /\ t.id # f.id

\* Every event of the outbox leaves it, recorded or with the room, unless an event the
\* store refuses is among the oldest, which then stay for as long as the room is not
\* purged.
SettlesUnlessRefused ==
  \A id \in 1..MaxEvents :
    (\E e \in outbox : e.id = id) ~> \/ ~ \E e \in outbox : e.id = id
                                     \/ \E f \in Oldest : Refused(f)

\* Documented: event retries are idempotent and partial drain failures recoverable.
EveryEventSettles ==
  \A id \in 1..MaxEvents :
    (\E e \in outbox : e.id = id) ~> ~ \E e \in outbox : e.id = id
=============================================================================
