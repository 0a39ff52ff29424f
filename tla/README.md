# Mistake Watch: TLA+ models, checks and proofs

Mistake Watch is a watch-together application: a Next.js site, a SpacetimeDB
module that holds the live state of every room (`src/spacetime/src`), a Supabase
database for durable rooms and accounts (`src/supabase`), and clients that keep
their players in step with the room. This directory models what a room plays and
who may decide it, how what happened there reaches the durable store exactly once,
what an account's listening counts for, how an uploaded file becomes something a room
can play, and how a room ends in all three places. TLC checks the models; TLAPS proves,
for every value of the constants, every safety property that the runs check: of the queue,
of membership, delivery, listening, the end of rooms and uploads. Two of these theorems have
a condition on constants (`AccountKeepsLastChoice`, `EmittedKept`; see Proofs).

A SpacetimeDB reducer is a transaction: it runs alone and all its writes take
effect together; so does an SQL function. What makes the system hard is what
happens between them. Several clients see the same snapshot, build commands from it
and send them; each command is handled after the room has moved on. Browsers come
and go, and the server notices late. The web server joins the two databases with
calls that may fail, lose their answer or take effect after they were given up: it
drains outboxes under a lease that may run out, grants what it checked a moment
ago, buys conversions of what it found uploaded, and retires rooms whose durable row
has ended.

## Inventory

| Component | State it keeps | Operations | What is hard | What makes it correct |
| --- | --- | --- | --- | --- |
| Queue and playback (`index.ts`, `queue-calculations.ts`, `relative-queue-move.ts`, `prepared-youtube.ts`) | `live_queue_item`, playback fields of `room_session` | add, Next, move, remove, clear, play, load, state, advance, prepare/start, report failure | racing reports of one ending; three tables written per advance; replays from history; position arithmetic | session and queue agree; one order; one advance per ending; nothing lost; autoplay goes on |
| Playback occurrences (`recommendation-events.ts`) | `recommendation_playback_occurrence` | begin, begin if missing, finish | every path of the queue must close what it opens | each occurrence is closed once, by its own ending |
| Admission and membership (`room-participation.ts`, `room-admission.ts`, `room-participant-state.ts`, `room-retirement.ts`, `index.ts`) | grants, sessions, presence receipts, participants, permissions, kicks, revocations, retirement markers | seed, issue grant, join, heartbeat, leave, disconnect, kick, remove, set permissions, revoke, retire | late disconnects; several browsers of a member; grants outliving decisions | receipts mirror sessions; the aggregate row follows them; the excluded stay out |
| Event outbox and its drain (`recommendation-events.ts`, `recommendation-authority.ts`, `lib/recommendations/*outbox*`, `persistence.ts`, SQL ingestion) | outbox, overflow counter, guest preferences; tombstones, aggregates, choices; delivery lease | append, set preference, claim, read, ingest, acknowledge, finish | delivery at least once, lost answers, late effects, a lease that runs out, a full outbox | an event is recorded once; an account keeps its member's last choice; every event settles unless the store refuses one before it |
| Listener receipts (`listener-*.ts`, `use-local-listener.ts`, `listening/grant`, SQL permission and receipts) | grants, cursors, coverage, private outbox; consent epochs, history generations, receipts | grant, report, emit, drain, withdraw, clear | retries, throttling, expiry, permission read before the grant | what is credited was heard, or passed where nobody watched; what counts was permitted; a finished partition keeps its receipt |
| Room rhythm (`room-rhythm*.ts`) | `room_rhythm_profile` | publish | late publication for an earlier occurrence | the profile belongs to what is playing |
| Chat and errors (`room-errors.ts`, `index.ts`) | capped logs | append, prune | the bound | newest rows are kept |
| Live room client (`lib/spacetime`) | connection, snapshot, clock offset, admission | connect, reconnect, commands | callbacks of an earlier connection | one live connection drives the controls |
| Player preparation (`lib/player`, `lib/youtube`) | prepared item, failure circuit | prepare, acknowledge, recover | provider callbacks out of order | what starts is what the room prepared |
| Shadow and catalogue workers (`lib/recommendations`) | claimed jobs, leases | claim, compute, store | a lease that runs out under a worker | idempotent results |
| Preferences (`lib/recommendations`) | optimistic choice, revision | set, reconcile | late answers | the last choice wins |
| Uploads (`lib/media/uploads`, `lib/media/processing`, `lib/media/cloudconvert.ts`, `lib/media/library`, webhook and clean-up routes) | `media_upload_sessions`, `media_assets`; objects and multipart uploads in R2; jobs at CloudConvert | create, record parts, resume, fail, abort, clean up, complete, approve and retry, poll, webhook, delete | every handler is a series of calls between which others run and after which it may be killed; repeated completions; answers that are lost | what is ready can be played; no conversion is bought twice; parts of an abandoned upload are released |
| Media sessions, range gateway (`lib/media`, `workers`) | capabilities | create, renew, revoke | expiry racing use | a revoked capability serves nothing |
| Durable rooms (`lib/rooms`, `supabase/migrations`) | rooms, members, invites; retirement receipts, temporary life cycle | join, transfer, remove; touch, close, delete, clean up | the durable and the live decision are two calls; passes overlap and die | the live room never outlives the durable decision, and every persistent room that ended is cleared |
| Audio companion, ranking, user interface, tooling | | | | not protocol state |

How they interact: a page is rendered by the server, which issues a seed grant for
the owner's room and, on request, an admission grant for a browser; the client
seeds, joins and then calls reducers; the queue's reducers ask the membership
tables who may act and write events to the outbox; workers drain the outbox into
the durable database; durable decisions come back as `revoke_room_membership` and
`retire_room`. `PROJECT.json` lists every component with its status, and under
`hazards` where in the code each difficulty bites.

## Modules

`RoomQueue` – queue, session and occurrences of one room, one action per reducer.

| TLA+ | Code |
| --- | --- |
| `queue` | `live_queue_item` rows by identifier; `unused` is a row not inserted yet, `gone` a deleted one; `pos`, `next`, `seq`, `bad`, `fail` are position, Play Next mark, played sequence, unavailability and last failure |
| `session` | playback fields of `room_session`; of `position_seconds` only whether the 90% completion threshold is behind (`pos`) |
| `ledger` | the open `recommendation_playback_occurrence`, and a record of what became of every occurrence begun |
| `failures` | `room_error` rows that suppress a repeated failure report |
| `rights` | result of `getAuthorizedPlaybackActor`, `...QueueAddActor`, `...QueueManager` |
| `pending` | the command each member's client has in flight, built from the snapshot it saw |

The helpers follow the code's own: `Advanced` is `calculateQueueAdvancePatches`,
`Commit` is `commitQueueAdvance`, `Placed` is the splice of a move, `Normalized` is
`normalizeQueuedPositions`, `Upcoming` is `nextPlaybackQueueItem`, `Predicted` is the
client's `predictNextQueueItem`. Reducers that race (advance, advance uploaded,
prepare, start, report failure) are split in two actions, the client's `Send...` and
the server's `Handle`; the others are called on the current state, which any
snapshot they could have been called from makes no difference to, because they
compare nothing with it. `MCRoomQueue` adds instances, the filled queues that the racing runs
start from, and the listening room with its fairness.

`RoomAdmission` – who is in one live room, one action per reducer plus the connection
events. `sessions[m][i]` is the private session of member m's browser i, `presence`
the public receipts, `participant` the aggregate rows, `connection` which browser is
behind which connection (a connection stays open until the server has processed its
end). `WithRows` is the paired write of a session and its receipt; `Synced` is
`syncAggregateParticipant`; `last_seen_ms` is not kept, so whichever online session
may be the one seen last. `MCRoomAdmission` gives the instances.

`RoomQueueProofs` (what holds of queue, session and occurrences), `RoomQueueStepProofs`
(what a reducer may do to them), `RoomAdmissionProofs`, `RecommendationDeliveryProofs`,
`ListenerReceiptsProofs` (what is credited and counted), `ListenerRecordsProofs` (types, and
the receipts that are kept), `RoomLifecycleProofs` and `MediaUploadsProofs` hold the theorems.

`RecommendationLedger` – what delivery promises, without outbox, workers, lease and
calls: an accepted event waits (`pending`), is recorded once, and is discarded only
with a purged room that has no explicit choice waiting. `RecommendationDelivery`
implements it.

| `RecommendationDelivery` | Code |
| --- | --- |
| `outbox`, `accepted`, `dropped` | `recommendation_event_outbox` of the room; the events inserted so far, which number them in the order of `created_ms` and `event_id`; the overflow counter |
| `preferences` | `guest_media_preference`, whose revision names the event of a choice |
| `occurrence`, `reports` | the playback occurrence that names a failure's event, and the failures reported in it |
| `kind`, `gone` | `rooms.room_kind`; whether the row of `rooms` is deleted |
| `linked`, `noted` | from which event on `room_members.user_id` names an account; the first event after the latest row of `account_guest_migrations` for it |
| `tombstones`, `tally`, `choice` | `recommendation_event_tombstones`, aggregates of a legacy room, `media_preferences` of the accounts |
| `lease`, `workers` | `recommendation_delivery.lease_token`; the call each drain waits for, the batch it read, and the members it looked up as accounts |

`Consume` is one call of `ingest_recommendation_events`, a transaction that a single
conflicting row fails. `LookUp` is the call before it, in which the drain learns who is an
account: `Consume` takes what that call found, however old. A sign-in is two calls as well,
`LinkMember` and `NoteMigration`, of which the second may fail, or come later for a
membership that the account has already. A call that takes effect after its worker gave up is
the call of a drain whose lease ran out under it (`LeaseExpires`). Keys of events are fresh
where the code makes them of something it claims or counts. Priorities and moves of an item
(`MoveItem`) have the client's action as their key and failures the occurrence
(`SourceFailure`); both may come again after the first was delivered, with another
identifier, and are then a conflict. The ledger says who an event may be attributed to: to
the account, if the membership was its when the event happened; to either, if it became so
since; to nobody, if it is a guest's. The refinement maps `pending` to the rows of the outbox without a tombstone and
`lapsed` to batches whose rows are gone and were not recorded.

`ListenerReceipts` – what one account's listening counts for in one room.

| TLA+ | Code |
| --- | --- |
| `now`, `playback` | time in units of the five seconds between two reports; occurrence, position and last update of `room_session` |
| `sessions`, `joins` | the connection of each browser's `room_participant_session` |
| `grants`, `cursors`, `coverage`, `outbox` | `listener_grant`, `listener_cursor`, `listener_coverage`, `listener_receipt_outbox` |
| `elements` | of `useLocalListener`: whether the element is audible, whether a grant lets it report |
| `requests` | grants asked for at `listening/grant`: the settings were read, the grant has not arrived, or has not been answered |
| `permission`, `recorded` | consent with its epochs, history with its generations; `listener_receipts` |
| `drain` | the receipts a drain recorded and has not acknowledged |

`Observed` is `observe_listener_playback`, `Qualifies` is `qualifyingInterval`, `Cover`
the merge of an interval and the emission of a receipt. In this unit the tolerances
of 0.25 s and 2.5 s vanish, and so does the throttle of 250 ms but for reports of one
instant. Sequence numbers are implied by calls that arrive in order; positions of
inaudible samples, never read again, are not kept; a change of source mounts the
observer anew (`Remount`). `MCListenerReceipts` adds three history variables: what was
heard, what passed unheard while the room would have accepted the reports of a browser whose
observer was off (`unwatched`), and what was played while listening was permitted.

`RoomLifecycle` – how a room ends.

| TLA+ | Code |
| --- | --- |
| `status`, `active`, `saved`, `aged` | `rooms.status`; activity within the last hour; the save star; closed 24 hours ago |
| `retired`, `expired` | `temporary_room_lifecycle`: `live_retired`, and the order of `closed_at` |
| `receipt`, `line` | `persistent_room_retirements`, and the order its jobs are picked in |
| `marked`, `members`, `admitting`, `content`, `likes`, `rejected` | the live room: `retired_room`; sessions and participants; a checked membership or an issued grant; playback, queue and history; explicit preferences, and events the store will always reject, in the outbox |
| `stale` | legacy rooms that `closeIdleUnsavedRooms` found idle and has not closed |
| `pass` | a `runRoomCleanup` under way: its jobs, and the call it makes next |

`Capture` is the trigger that writes receipts; `StartTemporary`, `StartPersistent` and
`StartWith` list the jobs of a pass; `StopAuthority`, `DrainOutbox`, `RetireRoom`,
`FinishTemporary` and `FinishPersistent` are its calls; `JobFails` and `PassDies` let any
of them fail. Hour and day are events, not a clock. A deletion puts its job back to
where its receipt was made: anywhere among jobs ordered by their last attempt.

`MediaUploads` – one upload of an owner, the asset made of it and the conversions bought
for it.

| TLA+ | Code |
| --- | --- |
| `mode`, `session` | the row of `media_upload_sessions`: `upload_mode`; status, asset, completed parts, and whether `expires_at` or `resumable_until` is over |
| `store` | R2: whether the multipart upload is open, the parts put, the source object, and the assets whose converted object exists |
| `asset`, `wiped` | the row of `media_assets` with this source (a unique index allows one): status, processing status and strategy, the job it names, whether it names a converted object; the assets whose objects their owner began to delete |
| `jobs`, `grants` | jobs of the provider in the order of creation; conversions decided on at completion or approved later |
| `calls` | an invocation of a route handler: the call it makes next, and what it has read |
| `faults` | invocations killed and answers lost |

An operation that starts (`CompleteUpload`, `Approve`, `Poll`, `Webhook`, ...) reads the
rows and checks them; each of its later calls (`MarkCompleting`, `Assemble`, `CheckSource`,
`InsertAsset`, `LinkAsset`, `Claim`, `OrderJob`, `NoteJob`, `Publish`, ...) is an action of
its own, so any two handlers interleave as two invocations may. Reads that nothing is
decided on between are taken together. An update under a condition (`Claim`) or of a row
that may be gone tests that condition where the database does. The two modes, and the
three strategies `decideMediaProcessing` may return for a file, are chosen once and
not computed from names and types.

The modules leave out names, avatars, titles, artwork, durations and error wording,
and model identifiers the server draws at random (rows, occurrences, admissions) as
fresh ones. In a module, the operators marked "Mutant of X" are not part of the
specification: each is what X would be with a plausible mistake, and shows
that the property named with it in `PROJECT.json` notices.

## Runs

| Run | What it asks | Instance |
| --- | --- | --- |
| `edit` | Do queue, history, session and occurrences stay consistent under any sequence of queue and playback reducers, including replays, removals of the playing item and direct loads? | one host, three rows, a video and an uploaded source, two occurrences |
| `race` | When two members report one ending in any mix of reducers, does the room move on once? Can a command in flight, met by another or by the loss of its sender's right, start something unavailable, rewrite an outcome or change anything at all? Is a row that is added unavailable as long as a row of its source records a permanent failure? | two members whose rights come and go, two commands in flight, some of them lost, one or two rows of one video upcoming, the second possibly added at any time, the clock at two values |
| `listen` | Does autoplay bring on every upcoming row, whatever the sources? | two members, three rows, every order and mix of three kinds of source |
| `members` | Can a grant outlive a kick, a revocation, its own expiry, its use or the room's closing and still let somebody in? Does a browser gone idle need a new one? Do sessions, receipts, aggregate row and the owner's rights stay in step while browsers come, idle, reconnect and leave? | owner and guest, two browsers, two connections, three grants, a clock past both windows |
| `delivery` | Do two drains, whose calls fail, lose their answer or come late and whose lease runs out under them, record every event once, for whom the ledger allows, and leave every account with its member's last choice, with a sign-in between any two of their calls? | a guest or account, one medium, legacy or temporary room, two drains, two events, a move that may come again |
| `settle` | Does every event leave the outbox, if calls get through again and again, unless one that the store refuses is before it? | one drain, an outbox of one row that overflows, two events, a failure and a move that come twice |
| `consent` | Do a withdrawn permission and a cleared history reach what is already granted, covered, waiting or recorded? Does a finished partition keep its receipt through full outboxes and failed drains? Is nothing credited that an observer watched and nobody heard? | a medium of one unit in two occurrences, an outbox of one receipt, one change of permission |
| `hearing` | Is only credited what was heard? It is not: see Findings | one browser, a medium of two units, a grant renewed after a mute |
| `retire` | Is what the durable store takes for retired or purged so in the live room, and does it stay so, while passes overlap and fail and the room is deleted or entered between their calls? Is a room saved in time kept open? | a temporary and a legacy room, two passes, two failures |
| `cleared` | Does everybody leave a persistent room that ended, and is it purged, although the job before it fails for ever? | a temporary and two persistent rooms, one with an event that is always rejected, passes of one job |
| `uploads` | Two handlers at a time complete, resume, abort, clean up, convert, poll, hear of and delete one upload, and one may be killed or not hear an answer. Is nothing bought twice, is everything ready playable and are parts released? | two invocations, both modes, every strategy, one part, one asset, two jobs, one grant, one fault |
| `paid` | Do two approvals under way at once buy two jobs of one source? They do: see Findings | two invocations, two grants, no fault |

Bounds. Three rows are the fewest for which a move has a bystander and a replay has
both a row displaced and a row waiting; two occurrences let one close and another
open, which is all a reducer compares. Racing needs two members and two commands in
flight; a third report meets the state the second one met. The race starts with one row or
both, so that a row may be added before, between or after the reports. `MaxPosition`,
`MaxSequence`, `MaxOccurrence`, `MaxClock`, `MaxPending`, `MaxAdmissions` stand in the
guards of the actions that would pass them. Membership needs two browsers for one
member's sessions to interfere and two connections, which one browser may hold
both; the clock reaches past the kick window (1) and past the life of a grant (1),
in that order as in the code (8 s, 60 s), with ticks that may fall between any two
steps.

Delivery needs two drains for a lease to be lost to somebody, and two events for an
order among them, for two choices of one medium, and for a batch that is larger than
what it conflicts with; the one name of an action (`Actions`) lets a move be sent again after
the first was delivered, and two reports of one occurrence do the same for failures; `settle` needs one drain, because what may block is an event, not
another drain. Listening needs two occurrences for a stale report, two
units of one medium for a gap that could be filled by mistake, and a connection to
come back on. `consent` takes a medium of one unit, the one a report may add wrongly, and
reaches the instants of one report, of the next and of one too late; the zero bound on the
outbox of `hearing` takes out what its property does not speak of. A lifecycle needs two passes to overlap, a temporary
and a persistent room because the two are retired by different code, and a third room
behind one whose job fails for ever; passes of one job make that job a full batch, the
case in which a fixed order would starve the others. Two failures put one into each of
two overlapping passes. An upload needs two invocations, since what one of them has read
can be outdated by one other; a poll, a webhook or the clean-up that comes later takes
the place of one that has returned. With one grant and room for two jobs, a second job
would be one that nobody decided on; two grants belong to two approvals, which `paid`
explores, and the theorems about uploads hold for any number of them. One fault puts an
interruption into every place between two calls.

The bounds `MaxPosition`, `MaxSequence`, `MaxOccurrence`, `MaxClock`, `MaxPending`
(queue), `MaxAdmissions`, `MaxClock` (membership), `MaxEvents`, `MaxNumber`,
`MaxDropped`, `MaxReports`, `MaxOccurrences` (delivery), `MaxNow`, `MaxUpdates`, `MaxJoins`, `MaxChanges`,
`MaxRequests` (listening), `MaxFailures` (lifecycle), `MaxAssets`, `MaxJobs`, `MaxGrants`
and `MaxFaults` (uploads) stand in the guards of the
actions that would pass them. Rows, members, browsers, connections, drains and passes
that a specification does not tell apart are symmetric where a run says so; no liveness
run uses symmetry.

Deadlock checking is on for the runs of the queue and of delivery. It is off for
`members`, where a purged room with all connections and admissions used up is the end,
for `hearing` and `consent`, whose clock is bounded, and for `retire` and `cleared`,
where nothing is left to do once every room is deleted, and for `uploads` and `paid`,
which end when the asset is deleted and the window of the upload is over.

Fairness. Four runs assume any.

* `listen`. `WF(Handle(m))`: the server handles a call that reached it, and in a
  listening room nobody disconnects. `WF` on sending an autoplay advance: a medium that
  plays ends, and the clients of a room with autoplay report it
  (`youtube-media-player.tsx` and `direct-media-player.tsx` ask for the next item when
  their medium ends). `WF` on sending a start: the player acknowledges a prepared video
  that is not unavailable. Handling is fair for each member, sending only for the members
  together: one client that stays silent is allowed.
* `settle` (`DeliveryFairness`). The lease of the database runs out (`WF`), an
  invocation ends, by its last call or by being killed (`WF`). Drains are triggered by
  requests and by a daily cron for as long as there are rows, so a claim that is possible
  again and again happens (`SF`), and each of the three calls of a drain, which may fail
  any number of times, gets through again and again (`SF`). Nothing says that a given
  drain gets through.
* `cleared` (`CleanupFairness`). The outbox is delivered in full while nothing in it is
  rejected (`WF`), the schedule and the visits to the list of rooms start the pass of
  persistent rooms whenever one may start again and again (`SF`, because passes that are under
  way keep disabling it), and a pass that is neither killed nor failing takes its next step
  (`WF`). Failures are bounded by `MaxFailures`; the failure that lasts for ever is that of
  the rejected event.
* `uploads` (`Fairness`). A handler takes its next step unless it is killed (`WF`, for each
  invocation). The clean-up is a cron of `vercel.json`, which comes every day (the notes of
  the task say every hour), and so happens if it is possible again and again (`SF`). Nobody
  must poll: a page gives up after 45 minutes or at its first refused answer
  (`upload-transport.ts:390`, 410), no job of the server asks, and webhooks may be lost. That
  a conversion settles is therefore not claimed (see Findings).

## Proofs

`RoomQueueProofs` proves, for any members, rows, sources and bounds that satisfy the
assumptions of `RoomQueue` (rows are finitely many, uploaded and YouTube sources are
different sources, references are not sources):

* `CoreInvariant`: `Spec => [](Core /\ Around)`, the inductive invariant;
* `TypeCorrect`, `PlaybackAgrees`, `PositionsStayDistinct`, `OccurrencesStayAccounted`:
  the properties `TypeOK`, `ActiveIsPlaying`, `QueuedPositionsDistinct` and
  `OccurrencesAccounted` that run `edit` checks on a small instance.

None of the four is inductive alone. Distinct positions after an advance need at most
one row to be playing, because each row displaced by a replay would go to position 0;
that needs `ActiveIsPlaying`. That a finished occurrence is the session's needs the
session's identifier to be that of the open row, and that an occurrence begun is new
needs the ledger's numbering (`LedgerSound`). `Core` conjoins these; `Around` types
the variables that the reducers only read. The argument: what each helper returns is
a lemma (`RankProperties`, `NormalizedProperties`, `PlacedProperties`,
`AdvancedProperties`, `FinishProperties`, ...), resting on `FiniteMaximum`, since the
end of the queue and the last played sequence are largest elements; each family of
reducers preserves the invariant (`EditQueuePreserves`, `ControlPreserves`,
`SendPreserves`, `HandlePreserves`); `NextPreserves` puts them together.

`RoomQueueStepProofs` proves every other safety property of `RoomQueue`: the invariants
`HistoryOrdered`, `OnePlayNext` and `RecordedProblemsAreShared`, and the action properties
`OutcomesAreFinal`, `RevokedCommandsChangeNothing`, `AdvancesOncePerOccurrence`,
`NeverStartsUnavailable`, `DisplacedItemIsKept`, `NewestNextIsHead` and
`OneItemMovesAtATime`. The argument: a reducer does to the rows one of a few things, and
`Kinds` says which (`Rests`, `Updates`, `Starts`, `Marks`, `Adds`, `Prioritises`, `Places`,
`Removes`, `Clears`, `Stops`); what the helpers leave of each row is a lemma
(`NormalizedRows`, `PlacedRows`, `AdvancedRows`, ...); each property then follows kind by
kind from `Core` and a second invariant, `Kept` (`KeptInvariant`). `Kept` conjoins the
three invariants with what they need: a YouTube source that is playing is that of the
active row, and reports under way are about YouTube sources; without that a failure
could mark rows of another source than the one that failed. `HistoryOrdered` compares rows
with a `played_sequence`: a direct load leaves played rows without one, whose order nothing
defines. `RecordedProblemsAreShared` speaks of failures some row still records (see Findings).

`RoomAdmissionProofs` proves every property that run `members` checks, for any members,
browsers, connections and limits of which `RoomAdmission` assumes only that the host
is a member and that `NoConnection` and the marks `"new"` and `"gone"` are not
connections or browsers:

* `CoreInvariant`: `Spec => []Core`, and from it `TypeCorrect`, `NoGhosts`,
  `AggregateFollows`, `RevocationHolds` and `RetirementHolds`;
* `ReceiptsMirrored` (receipts and sessions agree, admissions are unique);
* the action properties `GrantsOpenOnce`, `IdleNeedsAdmission`, `IdleByOwnConnection`,
  `KicksHold` and `BrowsersStayApart`;
* `HostRightsKept` and `LimitHolds`.

`Core` says of each member that its rows are sound (`MemberSound`: an online session is
on an open connection of its own browser, the aggregate row follows the sessions), of
the rest that it has its type, that the revoked are out and that a retired room is
empty. Exclusion is not inductive without the first part. A revocation that finds no
participant row deletes no session, so it leaves nobody online only because the
aggregate row follows the sessions; and a revoked member's heartbeat does nothing only
because an idle session is on no connection. A reducer touches the rows of one member,
those that a closing connection carried, or all, so preservation rests on `OneMember`,
`RemovedMember` and `SyncedProperties`. `AdmissionsApart` adds that grants and sessions
carry different admissions, all of them issued: that an idle session cannot come back
under its old admission follows from it. `NextRowStep` says what a step may do to one
session row, and the properties about idling, reopening and use of grants are its
consequences; `NextOutStep` does the same for kicks, with `KickedOut` (who has a kick
on record has no row, and one kick) as the invariant; `LimitHolds` needs the grants to
be finitely many.

`RecommendationDeliveryProofs` proves `DeliveryImplementsLedger`: every behaviour of
`RecommendationDelivery` is one of `RecommendationLedger`. Its invariant `Core` says that
the identifiers of all events the system still knows (in the outbox, as tombstones, in
a batch) are apart and none is above `accepted`; that a drain which reads or finishes
holds no batch; that a batch about to be acknowledged is recorded in full; and that a
purged room has an empty outbox. It is needed because a call may take effect after its
drain gave up: that an ingestion which arrives late records nothing twice holds only as
identifiers never come back. Each kind of step then maps to `Accept`, `Link`, `Note`, `Delete`,
`Discard`, `Record` or `Forget` of the ledger, or to a stutter. That the outbox and the
ledger choose the same event for an account rests on there being a newest one
(`NewestExists`, `ChoicesAgree`). A batch about to be ingested carries the members that were
accounts when they were looked up, among them all who were so when their event happened
(`DrainSound`): that is what the ledger asks of a recording.

The other theorems of the module are about its tables. `OutboxLosesNothing` and
`EachCountedOnce`, which no run checks, say in the module's own terms what the refinement
promises: a row leaves the outbox only when it is recorded, or with a purge that takes no like
or unlike, and the counters of a legacy room are exact. `TypeCorrect` has `Bounded` as its
invariant, which also says that the outbox is finite and its rows have keys of their own.
`AccountKeepsLastChoice` (`AccountAgreesWithRoom`) is proved under `NothingPruned`: there are
no more media than `PreferenceLimit` (1000 in `recommendation-events.ts`), so the room never
forgets a choice. Without it the property is not one of the code: the row of a forgotten
choice is begun again at revision 1, the key of an earlier event. With a limit of one,
TLC finds a member who likes a medium, likes another, and unlikes the first before the drain:
the unlike has the key of the waiting like and is not appended, and the account keeps the
like. The invariant follows each choice from the row to the account: the last event of a member and medium is in the
outbox, or as a tombstone and in the account, and the newest of those of a batch wins.

`ListenerReceiptsProofs` proves, for any medium, limits, number of browsers, connections and
changes of permission:

* `CountedWasPermitted` (`OnlyPermittedCounts`). The invariant carries what a cursor's next
  report may add: the units the room played since (`Since`) were permitted, as long as the
  cursor's key is the current one (`RunsPermitted`), and so was what rows hold
  (`RowsPermitted`). A key that becomes current again would break it; `Known` excludes
  that, because epochs and generations only grow and nobody names one that has not begun.
  The test of the first report's time at ingestion is not needed for it.
* `CreditedIsHeardOrUnwatched` (`CreditedWasHeardOrUnwatched`), with the same argument about
  what was heard, or passed unheard where nobody watched (`RunsHeard`). It needs `Attentive`:
  a browser whose reports are accepted, whose observer is on, and which the room believes to
  be audible, is audible. That holds as changes of audibility are never throttled, and as
  whatever keeps the room from accepting a report also takes the cursor with the grant
  (expiry) or makes it belong to an earlier connection. The second case is no slack of the
  proof: the run `hearing` shows it.

`ListenerRecordsProofs` builds on it:

* `TypeCorrect` (`TypeOK`), with `Bounded` as the invariant. A step that adds rows adds one of
  two kinds (`RecordKinds`): it starts a partition beside what pruning kept, or continues one.
  What a span may add is inside the medium (`SpanFits`), so a row stays one of cells.
* `EmittedKept` (`EmittedIsKept`), under `MaxGap <= 4`. What could lose a receipt is the drain:
  it acknowledges whatever it read, also a receipt that the store rejected for taking less than
  a quarter of the time it covers, or as played before the permission. `Settled` says that no
  receipt under the current permission is of that kind (`Acceptable`). The second half needs
  `Grounded`: a grant of the current permission counts from a time after it began. The first
  half needs, of each row, `Timely`: its cells are at most four times its duration, and if it
  was written at this instant, those of its cells that the room played before the last four
  are at most four times its duration up to the unit before. Two browsers of one account are why that is not obvious: the row takes its
  start from the one that began it, and a second browser may add a longer span a moment
  later. `LISTENER_MAX_GAP_MS` (20 s) is four of the units between two reports, which is
  exactly enough: with `MaxGap = 5`, two browsers and a medium of five units TLC finds a
  receipt that is rejected, acknowledged and lost. The unit hides one thing: a report of a
  changed audibility may follow another browser's within less than five seconds, so the first
  row may be younger than a unit. A second browser that then reports after a gap of twenty
  seconds can still spoil the receipt of a medium of less than half a minute; the theorem does
  not speak of that.

`RoomLifecycleProofs` proves `TypeOK`, `EndedStaysEmpty` and `SavedRoomsStayOpen` for any rooms, passes and
numbers of failures. `Core` says that a room marked as retired has no members and no grant that could
bring some (`Shut`), and that a pass about to report a job has found or left its room so
(`JobsDone`): the durable row is written a step later, by a pass that may have been
overtaken, so what the row promises has to be known of the pass before. Both last
because no step fills a marked room again (`Lasting`). `TypeCorrect` says of the two lists that
jobs are picked from that they name each room once, and exactly the rooms whose receipt is open or the temporary
rooms that are closed. Its
lemmas are about what the library's `RemoveFirst`, `SubSeq` and concatenation do to a list
without repetitions; an open receipt has its place in line because a deletion only moves it
(`Waiting`), and a closed temporary room has one until it is deleted (`ClosedTemporary`).

`MediaUploadsProofs` proves every safety property that run `uploads` checks, for any number
of invocations, parts, assets, jobs, grants and faults:

* `CoreInvariant`: `Spec => [](Types /\ Agree)`, and from it `TypeCorrect`. `Agree` says that
  the session names the one row there is, that a row and a call about to note a job name
  one of their own asset, and that calls know only parts that were put. `StepKinds` sorts
  the steps: most (`Aside`) leave asset, jobs and grants alone, and `MayBe` says what such a
  step lets its invocation do next; each of the others has a lemma on what it writes
  (`InsertWrites`, `ClaimWrites`, `OrderWrites`, ...).
* `GrantsCoverJobs` (`JobsAreGranted`). That there are at most as many jobs as grants is not
  inductive. `Budget` also counts the calls that are about to order a job and a row that is
  still to be claimed: only the claim turns one into the other, and only one call gets it.
* `ReadyCanBePlayed` (`ReadyIsPlayable`), with `Sound` as the invariant until something is
  deleted: a row that plays as it is has no job and no call that could start one, so no
  late outcome reaches it; and what a job or a call takes for finished is in the store.

Six properties have a theorem and no run: `OnePlayNext` and `NewestNextIsHead` of the
queue, `IdledByOwnDisconnect` and `BrowsersCoexist` of membership, `CountsExact` and `LeavesRecorded` of delivery. They follow quickly from the
invariants, and hold of every instance anyway.

Only model-checked: liveness (`EveryUpcomingItemPlays`, `SettlesUnlessRefused`, `EndedIsCleared`,
`PartsAreReleased`), about which the proof system cannot reason
(fairness and `ENABLED` are out of its reach here).

## Findings

The run `paid` contradicts a document. An approval, which is also the retry of a failed
conversion, reads the row, decides, and later updates it under no condition but its
identifier (`lib/media/processing/service.ts:68`): it clears the job and queues the row,
which is what the lock on starting a conversion asks for. A second approval that read the
row before the first one wrote it unlocks the row again after the first has claimed it, and
both order a job, though
`docs/tasks/TASK-002-incomplete-work-recovery/acceptance-criteria.md:277` says "Repeated
completion or retry requests cannot create multiple CloudConvert jobs for the same uploaded
source object." Completions do keep to this: `JobsAreGranted`.

The run `hearing` contradicts another. While its observer is off (the player is mounted anew,
or a change of settings asks for the grant again) a browser reports nothing
(`use-local-listener.ts:43`), and a grant that is renewed keeps its cursor
(`listener-authority.ts:86-117`). A mute in between lies inside the interval of the next
report and is credited, though
`docs/tasks/TASK-030-personal-music-catalogue/listener-receipts-evidence.md:44` says "First
arrival, seek, pause, buffer, mute, stale session, long gap and reconnect do not fill missing
coverage." What was watched and not heard is never credited: `CreditedWasHeardOrUnwatched`.

Divergences that were found with these modules and have no run of their own:

* loop mode replays the played row of lowest position; positions of played rows do not
  change, so it alternates between the lowest rows and never gets to the others;
* a paused replay carries no occurrence, so a failure report of the earlier, closed
  occurrence is accepted and puts the session in `error` (`index.ts:1701`);
* a direct load leaves the displaced item's occurrence open; the ending of the loaded
  source then completes it (`CompletedItemWasActive` of `RoomQueue`);
* moving on after a permanent failure writes an uploaded row's asset reference into the
  session instead of a session reference (`FailureAdvanceIsPlayable` of `RoomQueue`);
* the client's prediction ignores unavailability, the server's selection does not; the
  expected rows differ and every report is turned down (`EveryUpcomingItemPlays` under
  `ListenWithProblemsSpec`);
* a session keeps the role it had when it joined; an owner's browser admitted before the
  room was seeded is a guest session, and makes the owner's row a guest's when the other
  browser leaves (`room-participant-state.ts:102`);
* a later, transient report of a row overwrites its `failure_code` (`index.ts:1755`), which is
  all that tells a row added afterwards that the source failed for good: the new row is
  available, and the room tries the source again;
* a direct load marks the row it displaces as played and gives it no `played_sequence`; after
  two of them the history has rows whose order nothing defines;
* a legacy room is found idle, used again, and closed nevertheless: the update looks at
  status and star, not at the activity (`lib/rooms/lifecycle.ts:73`; `ClosedWasIdle` of
  `RoomLifecycle`);
* temporary rooms are retired in the order in which they were closed, whatever came of
  earlier attempts (the pass of persistent rooms goes by last attempt, "to avoid
  starvation"). With as many rooms whose purge keeps failing as a pass has jobs, a room
  closed after them is not retired; `EndedIsCleared` speaks of persistent rooms only;
* an event may get the idempotency key of a delivered one, with another identifier: a source
  that fails again in its occurrence with the same code (`recommendation-events.ts:83`), and a
  priority or move whose `client_action_id` comes again (`index.ts:1377`, `index.ts:1927`,
  `relative-queue-move.ts:68`), because these actions are not claimed
  (`claimRecommendationAction`). The ingestion takes it for a conflict and fails the batch,
  the next drain reads the same batch, and nothing behind it ever leaves the outbox, against
  "Event retries are idempotent and partial drain failures are recoverable."
  (`TASK-011-first-party-recommendation-intelligence/acceptance-criteria.md:7`).
  `EveryEventSettles` is that sentence, and fails in the instance of `settle`, which
  therefore checks `SettlesUnlessRefused`;
* while a sign-in has linked a membership and not yet noted the migration, a drain takes the
  guest's earlier events for the account's, also outside legacy rooms, where they would not
  have taught it a moment later; and a sign-in between a drain's look-up and its ingestion
  leaves the events of the batch to nobody, which a later look-up would have given to the
  account of a legacy room;
* a migration that is noted on a membership which the account has already keeps choices that
  wait from counting outside legacy rooms, although the account made them
  (`AccountAgreesWithRoom` makes an exception of it);
* a conversion that is retried may stay `processing` for ever: a poll that read the job
  while it was running writes `processing` between the retry's update and its claim, which
  then finds the row not queued and gives up, while the row names no job to ask for
  (`acceptance-criteria.md:271` of TASK-002 says "Failed conversions can retry from existing
  R2 source objects when a source object exists.");
* a conversion whose webhook is lost stays `processing` once nobody asks for it: the page that
  does gives up after 45 minutes or at its first refused answer (`upload-transport.ts:390`,
  410), and no job of the server polls;
* outcomes are written whatever the row says by then: a webhook of another job is ignored
  only if the row named that other job when it was read, against `review-notes.md:1796`
  of TASK-002 ("stale webhook updates are ignored when the received job id does not match
  the asset's active processing job id");
* when R2 has joined the parts and the answer is lost, the session stays `completing` with
  no open upload: completing it again fails, and resuming it finds nothing to resume;
* a completion or a recording of parts that read the session before an abort writes it
  back to `completing` or `uploading` afterwards (the parts are gone, `PartsAreReleased`);
* an invocation killed between claim and note, or between insertion and claim, leaves the
  asset `processing` or `queued` with no job; nothing retries it, and the owner cannot
  (`Approve` wants a failure or an approval that is due);
* an upload completed twice while its asset is deleted may insert a row that is ready and
  has no object (`ReadyIsPlayable` without `wiped = {}`);
* one event that the store always rejects, of any room, makes every drain fail, and with
  it every purge that waits for a drain (`cleared` therefore promises purges only if
  there is none, `EndedIsCleared`).

## Not modelled, and why

`PROJECT.json` has every component. Ranking, the user interface, signal processing and
tooling have no protocol state; generated database types, agent scripts and the
detectors under `.agents` are not part of the running system. Titles and chat do not
influence the queue. Of the components that are modelled, left out are:

* membership: `controller_identity`, which is written but read nowhere on the server;
  invites and the transfer of shared memberships, which belong to the durable side;
* delivery: the ledger of processed actions beyond the fresh keys it gives; that a membership
  which is removed takes its rows of `account_guest_migrations` with it, and that repeating a
  migration of the same guest identity keeps its time; the retention of tombstones (180 days) and
  of rows (30 days); consents for implicit choices in shared rooms; playback memory; the
  cooldown between runs of a drain. `PreferenceLimit` forgets choices only with more than
  one medium, which no run has; a choice that was forgotten starts again at revision one,
  and can then collide like a repeated failure;
* listening: the expiry of rows after 7 days and the window of 180 days in which receipts
  count; source identifiers; more than one account. A purge leaves the listener's tables
  to that expiry;
* lifecycle: the recovery of idle personal rooms and the status `archived`. What a
  member likes in a persistent room that is deleted before its outbox was drained is
  lost with the purge's member rows; the model has the purge wait for the outbox and does
  not say whom a choice is recorded for;
* uploads: creating sessions and signing part URLs, posters, titles, folders, visibility
  and display events; estimates of credits; the clean-up's limit of sessions per pass.

The remaining components are planned:

## Plan

1. `RoomQueue`, `RoomAdmission`, the proofs of the queue's core and of membership (done).
2. `RecommendationLedger`, `RecommendationDelivery`, `ListenerReceipts`, `RoomLifecycle`
   (done).
3. `MediaUploads` and its proofs (done).
4. The safety properties of every module and the refinement of the ledger as theorems
   (done).
5. `LiveRoom`: `RoomAdmission` and `RoomQueue` composed, the `rights` of the queue being
   those of the session, participant and permission rows, with `RoomQueue` as the
   abstract specification it implements.
6. `PreferenceClient`: optimistic choices, late answers, the last choice wins;
   `LiveRoomClient` and `PreparedAutoplay`: connection attempts, stale callbacks, the
   prepared player; `RoomRhythm` and `RoomLogs`, which are small.
7. `MediaSessions`, `DurableMembership`: the rest of the HTTP and SQL side.
