------------------------------ MODULE RoomQueue ------------------------------
(***************************************************************************)
(* The shared playback queue of one live room, as the SpacetimeDB module   *)
(* (src/spacetime/src) keeps it: the queue rows, the playback session, the *)
(* open playback occurrence, and the reducers that change them.  A reducer *)
(* is one atomic transaction, hence one action.  Clients build the racing  *)
(* commands (advance, prepare, start, report a failure) from the snapshot  *)
(* they see and the commands arrive later, possibly after the room moved   *)
(* on; a command in flight is a record in `pending'.                       *)
(***************************************************************************)
EXTENDS Naturals, FiniteSets

CONSTANTS
  Members,        \* room members that may call reducers
  RightsChoices,  \* the sets of rights a member can hold
  ItemIds,        \* queue row identifiers (UUIDs: never reused)
  Sources,        \* what a queue row's source_url can be
  Uploaded,       \* sources that are uploaded-asset references
  YouTube,        \* sources of source_type "youtube"
  Identifiable,   \* sources recommendationMediaIdentity can name
  SessionRefs,    \* mw-uploaded-session references
  SessionRef,     \* the session reference a client obtains for an asset
  Statuses,       \* what set_playback_state may be asked for
  NoItem,         \* active_queue_item_id undefined
  NoUrl,          \* source_url undefined
  MaxOccurrence,  \* bound: playback occurrences begun in a behaviour
  MaxPosition,    \* bound: largest queue position
  MaxSequence,    \* bound: largest played_sequence
  MaxClock,       \* bound: largest server millisecond
  MaxPending      \* bound: commands in flight at once

Rights == {"host", "playback", "add", "manage"}
PlaybackStatuses == {"paused", "playing", "buffering", "ended", "error"}
Urls == Sources \union SessionRefs

ASSUME SourcesAssumption ==
  /\ Uploaded \subseteq Sources /\ YouTube \subseteq Sources
  /\ Uploaded \cap YouTube = {}
  /\ Identifiable \subseteq Sources
  /\ SessionRefs \cap Sources = {}
  /\ SessionRef \in [Uploaded -> SessionRefs]
  /\ NoUrl \notin Urls
ASSUME ItemsAssumption == IsFiniteSet(ItemIds) /\ NoItem \notin ItemIds
ASSUME ChoicesAssumption ==
  RightsChoices \subseteq SUBSET Rights /\ Statuses \subseteq PlaybackStatuses
ASSUME BoundsAssumption ==
  /\ MaxOccurrence \in Nat /\ MaxPosition \in Nat /\ MaxSequence \in Nat
  /\ MaxClock \in Nat /\ MaxPending \in Nat

VARIABLES
  queue,     \* live_queue_item: one record per row identifier
  session,   \* room_session: the playback fields
  ledger,    \* recommendation_playback_occurrence and what became of each one
  failures,  \* room_error: media failures of the last five seconds
  rights,    \* what each member may do (room_participant, room_permission)
  now,       \* the server clock, in milliseconds
  pending    \* the command each member's client has in flight

vars == <<queue, session, ledger, failures, rights, now, pending>>

----------------------------------------------------------------------------
(* Queue rows.  "unused" rows are not inserted yet, "gone" rows deleted.   *)

Present == {"queued", "playing", "played"}
Failures == {"none", "transient", "permanent"}

Row == [status: Present \union {"unused", "gone"}, pos: Nat, next: BOOLEAN,
        seq: Nat, src: Sources \union {NoUrl}, bad: BOOLEAN, fail: Failures]
Blank(status) == [status |-> status, pos |-> 0, next |-> FALSE, seq |-> 0,
                  src |-> NoUrl, bad |-> FALSE, fail |-> "none"]

With(q, status) == {i \in ItemIds : q[i].status = status}
Queued(q) == With(q, "queued")
Active(q) == Queued(q) \union With(q, "playing")
Stored(q) == {i \in ItemIds : q[i].status \in Present}

Lowest(q, S) == {i \in S : \A j \in S : q[i].pos <= q[j].pos}

\* Mutant of Rank: counts from minus one.
RankOffByOne(q, S, i) == Cardinality({j \in S : q[j].pos < q[i].pos}) - 1

\* How many of the rows in S stand before row i.
Rank(q, S, i) == Cardinality({j \in S : q[j].pos < q[i].pos})

\* normalizeQueuedPositions: queued rows are renumbered from zero, in order.
Normalized(q) ==
  [i \in ItemIds |-> IF i \in Queued(q)
                     THEN [q[i] EXCEPT !.pos = Rank(q, Queued(q), i)] ELSE q[i]]

\* calculateNextQueuePosition: after every queued or playing row.
EndPosition(q) ==
  IF Active(q) = {} THEN 0
  ELSE LET last == CHOOSE i \in Active(q) : \A j \in Active(q) : q[j].pos <= q[i].pos
       IN  q[last].pos + 1

\* Mutant of ShiftedForNext: the other rows keep their place.
NotShiftedForNext(q, except) ==
  [i \in ItemIds |-> IF i \in Queued(q) \ {except} THEN [q[i] EXCEPT !.next = FALSE] ELSE q[i]]

\* shiftQueuedItemsAtOrAfter for an explicit Next.  Positions are never
\* negative, so the Next position min(0, ...upcoming) is 0 and every other
\* queued row moves down and loses its own Next flag.
ShiftedForNext(q, except) ==
  [i \in ItemIds |-> IF i \in Queued(q) \ {except}
                     THEN [q[i] EXCEPT !.pos = @ + 1, !.next = FALSE] ELSE q[i]]

\* Mutant of Placed: the moved row changes places with the row that stands there.
Swapped(q, i, p) ==
  [j \in ItemIds |->
     IF j = i THEN [q[j] EXCEPT !.pos = p]
     ELSE IF j \in Queued(q) /\ Rank(q, Queued(q), j) = p
     THEN [q[j] EXCEPT !.pos = Rank(q, Queued(q), i)] ELSE q[j]]

\* Every queued row renumbered with row i in place p (splice out, splice in).
Placed(q, i, p) ==
  LET others == Queued(q) \ {i}
      place(j) == LET r == Rank(q, others, j) IN IF r >= p THEN r + 1 ELSE r
  IN  [j \in ItemIds |-> IF j = i THEN [q[j] EXCEPT !.pos = p]
                         ELSE IF j \in others THEN [q[j] EXCEPT !.pos = place(j)]
                         ELSE q[j]]

\* nextPlaybackQueueItem: the first available queued row; in loop mode, when
\* there is none, the first available played row.  Rows of equal position come
\* in table order, which nothing fixes: any of them may be the first.
Upcoming(q, loop) ==
  LET available(status) == {i \in With(q, status) : ~q[i].bad}
  IN  Lowest(q, IF available("queued") # {} \/ ~loop
                THEN available("queued") ELSE available("played"))

\* predictNextQueueItem, what a client believes comes next: the row's
\* unavailability is not passed to the selection.
Predicted(q, loop) ==
  Lowest(q, IF Queued(q) # {} \/ ~loop THEN Queued(q) ELSE With(q, "played"))

\* Mutant of LastSequence: the history so far is not counted.
NoSequence(q) == 0

\* calculateNextPlayedSequence.
LastSequence(q) == CHOOSE s \in {0} \union {q[i].seq : i \in ItemIds} :
                     \A i \in ItemIds : q[i].seq <= s

\* Mutant of Advanced: the playing row is not retired.
AdvancedOnly(q, n, keep) ==
  [q EXCEPT ![n].status = "playing", ![n].next = FALSE, ![n].seq = 0]

\* calculateQueueAdvancePatches: row n starts; the playing row goes to the
\* history or, when `keep' asks for it and n comes from the history, to the
\* head of the queue.
Advanced(q, n, keep) ==
  LET current == With(q, "playing") \ {n}
      returns == keep /\ q[n].status = "played" /\ current # {}
      started == [q[n] EXCEPT !.status = "playing", !.next = FALSE, !.seq = 0]
      retired(i) == IF returns
                    THEN [q[i] EXCEPT !.status = "queued", !.pos = 0,
                                      !.next = FALSE, !.seq = 0]
                    ELSE [q[i] EXCEPT !.status = "played", !.seq = LastSequence(q) + 1]
  IN  [i \in ItemIds |->
         IF i = n THEN started
         ELSE IF i \in current THEN retired(i)
         ELSE IF returns /\ i \in Queued(q) THEN [q[i] EXCEPT !.pos = @ + 1]
         ELSE q[i]]

----------------------------------------------------------------------------
(* Playback occurrences.  `open' is the row of                             *)
(* recommendation_playback_occurrence (at most one per room); `outcome'    *)
(* remembers what became of every occurrence begun: closed with an         *)
(* outcome, or replaced, its row deleted without one.                      *)

Outcomes == {"completed", "skipped", "failed"}
OccurrenceIds == 1..MaxOccurrence
NoOccurrence == [id |-> 0, item |-> NoItem]

Ledger == [open: [id: Nat, item: ItemIds \union {NoItem}], begun: Nat,
           outcome: [OccurrenceIds -> Outcomes \union {"none", "open", "replaced"}]]

\* Mutant of Finish: the row of the closed occurrence is not deleted.
FinishKeepingRow(l, result) ==
  [open |-> l.open, begun |-> l.begun,
   outcome |-> [o \in OccurrenceIds |-> IF o = l.open.id THEN result ELSE l.outcome[o]]]

\* finishPlaybackOccurrence.
Finish(l, result) ==
  [open |-> NoOccurrence, begun |-> l.begun,
   outcome |-> [o \in OccurrenceIds |-> IF o = l.open.id THEN result ELSE l.outcome[o]]]

\* beginPlaybackOccurrence: a row still there is deleted, a fresh one inserted.
Begin(l, i) ==
  [open |-> [id |-> l.begun + 1, item |-> i], begun |-> l.begun + 1,
   outcome |-> [o \in OccurrenceIds |-> IF o = l.begun + 1 THEN "open"
                                        ELSE IF o = l.open.id THEN "replaced"
                                        ELSE l.outcome[o]]]

\* Mutant of BeginIfMissing: every update to playing begins an occurrence.
BeginAnyway(l, i) == IF l.begun < MaxOccurrence THEN Begin(l, i) ELSE l

\* beginPlaybackOccurrenceIfMissing.
BeginIfMissing(l, i) == IF l.open = NoOccurrence THEN Begin(l, i) ELSE l

----------------------------------------------------------------------------
(* Session, commands and authority.                                        *)

(* `pos' keeps of position_seconds whether it is before or after the 90%   *)
(* completion threshold of the media.                                      *)
Session == [active: ItemIds \union {NoItem}, url: Urls \union {NoUrl},
            status: PlaybackStatuses, loop: BOOLEAN, autoplay: BOOLEAN,
            occ: Nat, rev: Nat, pos: {"start", "end"}]

Ops == {"advance", "advance_uploaded", "prepare", "start", "fail"}
NoCommand == [op |-> "none"]

\* The expected_* arguments are the snapshot's values; occ 0, NoItem and NoUrl
\* are omitted arguments.  `auto' is autoplay or allow_autoplay_advance.
Command == [op: Ops, active: ItemIds \union {NoItem}, occ: Nat,
            url: Urls \union {NoUrl}, rev: Nat, next: ItemIds \union {NoItem},
            auto: BOOLEAN, permanent: BOOLEAN]

May(m, right) == rights[m] \cap {"host", right} # {}

\* Mutant of Available: unavailable rows can be played.
StoredRow(i) == queue[i].status \in Present

Available(i) == queue[i].status \in Present /\ ~queue[i].bad

\* resolveQueuePlaybackSource for a row with no resolved reference: an uploaded
\* asset reference resolves to nothing.
Playable(src) == src \notin Uploaded

\* sessionCompletionRatioBps against the threshold: a playing session moves on
\* from its anchor, any other stays there; an unknown duration gives no ratio.
NearEnd == CASE session.pos = "end" -> BOOLEAN
             [] session.status = "playing" -> BOOLEAN
             [] OTHER -> {FALSE}

\* classifyPlaybackAdvance.
Classified(auto, nearEnd) ==
  IF auto /\ (session.status = "ended" \/ nearEnd) THEN "completed" ELSE "skipped"

\* commitQueueAdvance, from the queue q the reducer has written so far.
Commit(q, n, url, status, result, keep) ==
  LET begins == status = "playing" /\ q[n].src \in Identifiable
      closed == Finish(ledger, result)
  IN  /\ begins => ledger.begun < MaxOccurrence
      /\ LastSequence(q) < MaxSequence
      /\ queue' = Normalized(Advanced(q, n, keep))
      /\ ledger' = IF begins THEN Begin(closed, n) ELSE closed
      /\ session' = [session EXCEPT !.active = n, !.url = url, !.status = status,
                       !.occ = IF begins THEN ledger.begun + 1 ELSE 0,
                       !.rev = now, !.pos = "start"]

\* applyPlaybackUpdate.
PlaybackUpdate(status, pos) ==
  LET begins == /\ status = "playing" /\ session.active # NoItem
                /\ queue[session.active].src \in Identifiable
      started == BeginIfMissing(ledger, session.active)
  IN  /\ (begins /\ ledger.open = NoOccurrence) => ledger.begun < MaxOccurrence
      /\ ledger' = IF begins THEN started ELSE ledger
      /\ session' = [session EXCEPT !.status = status, !.pos = pos, !.rev = now,
                       !.occ = IF begins THEN started.open.id ELSE @]
      /\ UNCHANGED queue

----------------------------------------------------------------------------
(* Queue editing reducers.                                                 *)

Edit(q) == queue' = q /\ UNCHANGED <<session, ledger, failures, rights, now, pending>>

\* Mutant of KnownProblem: only the queue is searched, not the row that plays.
KnownInQueue(src) == \E i \in Queued(queue) :
  queue[i].bad /\ queue[i].fail = "permanent" /\ queue[i].src = src

\* An unavailable row of this source that failed permanently.
KnownProblem(src) == \E i \in Stored(queue) :
  queue[i].bad /\ queue[i].fail = "permanent" /\ queue[i].src = src

\* Row i is the one this request inserts: client_action_id is fresh, a repeated
\* one is claimed already and changes nothing.
AddQueueItem(m, i, src, next, duplicate, unavailable) ==
  LET q == IF next THEN ShiftedForNext(queue, i) ELSE queue
      known == KnownProblem(src)
  IN  /\ May(m, "add") /\ queue[i].status = "unused"
      /\ duplicate \/ \A j \in Active(queue) : queue[j].src # src
      /\ \A j \in Active(queue) : queue[j].pos < MaxPosition
      /\ Edit([q EXCEPT ![i] =
                [status |-> "queued", pos |-> IF next THEN 0 ELSE EndPosition(queue),
                 next |-> next, seq |-> 0, src |-> src, bad |-> unavailable \/ known,
                 fail |-> IF known THEN "permanent" ELSE "none"]])

SetQueueItemPriority(m, i, next) ==
  LET q == IF next THEN ShiftedForNext(queue, i) ELSE queue
  IN  /\ May(m, "manage") /\ i \in Queued(queue)
      /\ Edit(Normalized([q EXCEPT ![i].next = next,
                                   ![i].pos = IF next THEN 0 ELSE @]))

MoveQueueItem(m, i, position) ==
  LET last == Cardinality(Queued(queue)) - 1
      target == IF position < last THEN position ELSE last
  IN  /\ May(m, "manage") /\ i \in Queued(queue)
      /\ Rank(queue, Queued(queue), i) # target
      /\ Edit(Placed(queue, i, target))

\* registerRelativeQueueMove: to an edge of the queue, or beside an anchor that
\* must still be queued.
MoveQueueItemRelative(m, i) ==
  LET others == Queued(queue) \ {i}
      edges == {0, Cardinality(others)}
      beside(a) == LET r == Rank(queue, others, a) IN {r, r + 1}
  IN  /\ May(m, "manage") /\ i \in Queued(queue)
      /\ \E p \in edges \union UNION {beside(a) : a \in others} :
            Edit(Placed(queue, i, p))

RemoveQueueItem(m, i) ==
  /\ May(m, "manage") /\ i \in Stored(queue)
  /\ queue' = Normalized([queue EXCEPT ![i] = Blank("gone")])
  /\ IF session.active = i
     THEN /\ ledger' = Finish(ledger, "skipped")
          /\ session' = [session EXCEPT !.active = NoItem, !.url = NoUrl, !.occ = 0,
                           !.status = "paused", !.rev = now, !.pos = "start"]
     ELSE UNCHANGED <<ledger, session>>
  /\ UNCHANGED <<failures, rights, now, pending>>

ClearQueue(m) ==
  /\ May(m, "manage")
  /\ Edit([i \in ItemIds |-> IF i \in Queued(queue) THEN Blank("gone") ELSE queue[i]])

----------------------------------------------------------------------------
(* Direct playback reducers.                                               *)

SetQueueMode(m, loop) ==
  /\ "host" \in rights[m]
  /\ session' = [session EXCEPT !.loop = loop]
  /\ UNCHANGED <<queue, ledger, failures, rights, now, pending>>

SetQueueAutoplay(m, enabled) ==
  /\ May(m, "playback")
  /\ session' = [session EXCEPT !.autoplay = enabled]
  /\ UNCHANGED <<queue, ledger, failures, rights, now, pending>>

\* The open occurrence, and the session's copy of its identifier, stay.
LoadMediaSource(m, url) ==
  /\ "host" \in rights[m]
  /\ queue' = [i \in ItemIds |-> IF i \in With(queue, "playing")
                                 THEN [queue[i] EXCEPT !.status = "played"] ELSE queue[i]]
  /\ session' = [session EXCEPT !.active = NoItem, !.url = url, !.status = "paused",
                   !.rev = now, !.pos = "start"]
  /\ UNCHANGED <<ledger, failures, rights, now, pending>>

SetPlaybackState(m, status, pos) ==
  /\ May(m, "playback")
  /\ PlaybackUpdate(status, pos)
  /\ UNCHANGED <<failures, rights, now, pending>>

PlayQueueItem(m, i) ==
  /\ May(m, "playback") /\ Available(i)
  /\ Commit(queue, i, queue[i].src, "paused", "skipped", queue[i].status = "played")
  /\ UNCHANGED <<failures, rights, now, pending>>

PlayUploadedQueueItem(m, i) ==
  /\ May(m, "playback") /\ Available(i) /\ ~Playable(queue[i].src)
  /\ Commit(queue, i, SessionRef[queue[i].src], "playing", "skipped",
            queue[i].status = "played")
  /\ UNCHANGED <<failures, rights, now, pending>>

----------------------------------------------------------------------------
(* Clients: commands built from the snapshot (use-live-room.ts).           *)

Snapshot(op, next, auto, permanent) ==
  [op |-> op, active |-> session.active, occ |-> session.occ, url |-> session.url,
   rev |-> session.rev, next |-> next, auto |-> auto, permanent |-> permanent]

InFlight == {m \in Members : pending[m] # NoCommand}

Send(m, command) ==
  /\ May(m, "playback") /\ m \notin InFlight /\ Cardinality(InFlight) < MaxPending
  /\ pending' = [pending EXCEPT ![m] = command]
  /\ UNCHANGED <<queue, session, ledger, failures, rights, now>>

\* Mutant of AdvanceOp: no client resolves an uploaded asset first.
AdvanceUnresolved(next, auto) ==
  IF next # NoItem /\ queue[next].src \in YouTube /\ auto THEN "prepare" ELSE "advance"

\* The reducer a client chooses for the item it predicts next.
AdvanceOp(next, auto) ==
  CASE next # NoItem /\ queue[next].src \in Uploaded -> "advance_uploaded"
    [] next # NoItem /\ queue[next].src \in YouTube /\ auto -> "prepare"
    [] OTHER -> "advance"

\* A manual Next, or the end of the media under autoplay.
SendAdvance(m, auto) ==
  LET predicted == Predicted(queue, session.loop)
  IN  /\ auto => session.autoplay /\ session.status \in {"playing", "ended"}
      /\ \E n \in IF predicted = {} THEN {NoItem} ELSE predicted :
           Send(m, Snapshot(AdvanceOp(n, auto), n, auto, FALSE))

\* The provider acknowledged playback of the prepared, still paused item.
SendStart(m) ==
  /\ session.status = "paused" /\ session.url \in YouTube /\ session.active # NoItem
  /\ Send(m, Snapshot("start", NoItem, TRUE, FALSE))

\* The YouTube player failed; only permanent failures ask to move on.
SendFailure(m, auto, permanent) ==
  /\ session.url \in YouTube
  /\ auto => permanent
  /\ Send(m, Snapshot("fail", NoItem, auto, permanent))

----------------------------------------------------------------------------
(* Racing reducers: the command of member m is processed.  A command that  *)
(* the reducer turns down leaves everything else as it was.                *)

\* Mutant of ExpectationsHold: the occurrence is not compared.
RowAndSourceExpected(c) ==
  /\ c.active # NoItem => session.active = c.active
  /\ c.url # NoUrl => session.url = c.url

\* Omitted expectations pass.
ExpectationsHold(c) ==
  /\ c.active # NoItem => session.active = c.active
  /\ c.occ # 0 => session.occ = c.occ
  /\ c.url # NoUrl => session.url = c.url

\* Every expectation is compared, omitted or not.
ExactlyExpected(c) ==
  session.url = c.url /\ session.active = c.active /\ session.occ = c.occ
  /\ session.rev = c.rev

Successors == Upcoming(queue, session.loop) \ {session.active}

\* Mutant of CanAdvance: the sender's rights are those of when it sent.
CouldAdvance(m, c, n) == (c.auto => session.autoplay) /\ n \in Successors

CanAdvance(m, c, n) ==
  /\ May(m, "playback")
  /\ c.auto => session.autoplay
  /\ n \in Successors

AdvanceQueueItem(m) ==
  LET c == pending[m]
      accepts(n) == c.op = "advance" /\ CanAdvance(m, c, n) /\ ExpectationsHold(c)
                    /\ Playable(queue[n].src)
  IN  /\ c.op = "advance"
      /\ IF \E n \in ItemIds : accepts(n)
         THEN \E n \in ItemIds, nearEnd \in NearEnd :
                accepts(n) /\ Commit(queue, n, queue[n].src, "playing",
                                     Classified(c.auto, nearEnd), FALSE)
         ELSE UNCHANGED <<queue, ledger, session>>

AdvanceUploadedQueueItem(m) ==
  LET c == pending[m]
      accepts == CanAdvance(m, c, c.next) /\ ExpectationsHold(c)
                 /\ ~Playable(queue[c.next].src)
  IN  /\ c.op = "advance_uploaded"
      /\ IF accepts
         THEN \E nearEnd \in NearEnd :
                Commit(queue, c.next, SessionRef[queue[c.next].src], "playing",
                       Classified(c.auto, nearEnd), FALSE)
         ELSE UNCHANGED <<queue, ledger, session>>

PrepareYoutubeAutoplay(m) ==
  LET c == pending[m]
      accepts == CanAdvance(m, c, c.next) /\ ExactlyExpected(c)
                 /\ queue[c.next].src \in YouTube
  IN  /\ c.op = "prepare"
      /\ IF accepts
         THEN \E nearEnd \in NearEnd :
                Commit(queue, c.next, queue[c.next].src, "paused",
                       Classified(TRUE, nearEnd), FALSE)
         ELSE UNCHANGED <<queue, ledger, session>>

\* The acknowledged position is at most two seconds past the anchor.
StartPreparedYoutube(m) ==
  LET c == pending[m]
      accepts == May(m, "playback") /\ ExactlyExpected(c) /\ session.url \in YouTube
                 /\ session.status = "paused"
  IN  /\ c.op = "start"
      /\ IF accepts
         THEN \E pos \in {session.pos, "end"} : PlaybackUpdate("playing", pos)
         ELSE UNCHANGED <<queue, ledger, session>>

\* mediaProviderId: a nameable YouTube video, otherwise the active row.
Provider == IF session.url \in YouTube \cap Identifiable THEN session.url ELSE session.active

\* The reported row, and for a permanent failure every row of the source.
MarkedFailed(permanent) ==
  [i \in ItemIds |->
     IF i \in Stored(queue)
        /\ (i = session.active \/ (permanent /\ queue[i].src = session.url))
     THEN [queue[i] EXCEPT !.fail = IF permanent THEN "permanent" ELSE "transient",
                           !.bad = @ \/ permanent]
     ELSE queue[i]]

ReportMediaFailure(m) ==
  LET c == pending[m]
      failure == <<c.permanent, Provider>>
      accepts == /\ May(m, "playback") /\ c.url # NoUrl /\ c.url = session.url
                 /\ session.occ # 0 => session.occ = c.occ
                 /\ c.active # NoItem => session.active = c.active
                 /\ failure \notin failures
      marked == MarkedFailed(c.permanent)
      next == Upcoming(marked, session.loop) \ {session.active}
      advances == c.permanent /\ c.auto /\ session.autoplay /\ next # {}
  IN  /\ c.op = "fail"
      /\ IF ~accepts THEN UNCHANGED <<queue, ledger, session, failures>>
         ELSE /\ failures' = failures \union {failure}
              /\ IF advances
                 THEN \E n \in next :
                        Commit(marked, n, marked[n].src, "playing", "failed", FALSE)
                 ELSE /\ queue' = marked
                      /\ session' = [session EXCEPT !.status = "error", !.rev = now]
                      /\ UNCHANGED ledger

Handle(m) ==
  /\ pending[m] # NoCommand
  /\ \/ (AdvanceQueueItem(m) /\ UNCHANGED failures)
     \/ (AdvanceUploadedQueueItem(m) /\ UNCHANGED failures)
     \/ (PrepareYoutubeAutoplay(m) /\ UNCHANGED failures)
     \/ (StartPreparedYoutube(m) /\ UNCHANGED failures)
     \/ ReportMediaFailure(m)
  /\ pending' = [pending EXCEPT ![m] = NoCommand]
  /\ UNCHANGED <<rights, now>>

----------------------------------------------------------------------------
(* The environment of the queue.                                           *)

\* Joining, leaving, roles and permissions.
ChangeRights(m, r) ==
  /\ rights' = [rights EXCEPT ![m] = r]
  /\ UNCHANGED <<queue, session, ledger, failures, now, pending>>

\* The client goes away before its command reaches the server.
LoseCommand(m) ==
  /\ m \in InFlight
  /\ pending' = [pending EXCEPT ![m] = NoCommand]
  /\ UNCHANGED <<queue, session, ledger, failures, rights, now>>

Tick ==
  /\ now < MaxClock
  /\ now' = now + 1
  /\ UNCHANGED <<queue, session, ledger, failures, rights, pending>>

\* Five seconds pass, or room_error is trimmed to its newest hundred rows.
ForgetFailures ==
  /\ failures # {} /\ failures' = {}
  /\ UNCHANGED <<queue, session, ledger, rights, now, pending>>

----------------------------------------------------------------------------
\* seed_room_session.
Init ==
  /\ queue = [i \in ItemIds |-> Blank("unused")]
  /\ session = [active |-> NoItem, url |-> NoUrl, status |-> "paused", loop |-> FALSE,
                autoplay |-> TRUE, occ |-> 0, rev |-> 0, pos |-> "start"]
  /\ ledger = [open |-> NoOccurrence, begun |-> 0,
               outcome |-> [o \in OccurrenceIds |-> "none"]]
  /\ failures = {}
  /\ rights \in [Members -> RightsChoices]
  /\ now = 0
  /\ pending = [m \in Members |-> NoCommand]

EditQueue(m) ==
  \/ \E i \in ItemIds, src \in Sources, next, duplicate, unavailable \in BOOLEAN :
       AddQueueItem(m, i, src, next, duplicate, unavailable)
  \/ \E i \in ItemIds, next \in BOOLEAN : SetQueueItemPriority(m, i, next)
  \/ \E i \in ItemIds, p \in 0..Cardinality(ItemIds) : MoveQueueItem(m, i, p)
  \/ \E i \in ItemIds : MoveQueueItemRelative(m, i)
  \/ \E i \in ItemIds : RemoveQueueItem(m, i)
  \/ ClearQueue(m)

ControlPlayback(m) ==
  \/ \E loop \in BOOLEAN : SetQueueMode(m, loop)
  \/ \E enabled \in BOOLEAN : SetQueueAutoplay(m, enabled)
  \/ \E url \in Urls \ Uploaded : LoadMediaSource(m, url)
  \/ \E status \in Statuses, pos \in {"start", "end"} : SetPlaybackState(m, status, pos)
  \/ \E i \in ItemIds : PlayQueueItem(m, i)
  \/ \E i \in ItemIds : PlayUploadedQueueItem(m, i)

SendCommand(m) ==
  \/ \E auto \in BOOLEAN : SendAdvance(m, auto)
  \/ SendStart(m)
  \/ \E auto, permanent \in BOOLEAN : SendFailure(m, auto, permanent)

Next ==
  \/ \E m \in Members :
       \/ EditQueue(m) \/ ControlPlayback(m) \/ SendCommand(m)
       \/ Handle(m) \/ LoseCommand(m)
       \/ \E r \in RightsChoices : ChangeRights(m, r)
  \/ Tick
  \/ ForgetFailures

Spec == Init /\ [][Next]_vars

----------------------------------------------------------------------------
(* Invariants.                                                             *)

\* Every variable has its type; rows without a stored row hold no data.
TypeOK ==
  /\ queue \in [ItemIds -> Row]
  /\ session \in Session
  /\ ledger \in Ledger
  /\ failures \subseteq (BOOLEAN \X (Sources \union ItemIds \union {NoItem}))
  /\ rights \in [Members -> RightsChoices]
  /\ now \in Nat
  /\ pending \in [Members -> Command \union {NoCommand}]

\* The session's active item and the queue never disagree: the active item is
\* the one row being played, and without one no row is (commitQueueAdvance,
\* remove_queue_item and load_media_source write the two separately).
ActiveIsPlaying ==
  With(queue, "playing") = IF session.active = NoItem THEN {} ELSE {session.active}

\* No two upcoming rows share a position, whatever mix of Next, moves, removals
\* and advances produced them: "the next item" is never a matter of row order.
QueuedPositionsDistinct ==
  \A i, j \in Queued(queue) : queue[i].pos = queue[j].pos => i = j

\* Occurrences are accounted for exactly once: the session carries the identifier
\* of the open one, the open one belongs to the active item (or outlives a
\* direct load), and none is ever dropped without an outcome.
OccurrencesAccounted ==
  /\ session.occ = ledger.open.id
  /\ ledger.open = NoOccurrence \/ session.active \in {NoItem, ledger.open.item}
  /\ \A o \in OccurrenceIds :
       ledger.outcome[o] \in IF o = ledger.open.id THEN {"open"}
                             ELSE IF o <= ledger.begun THEN Outcomes ELSE {"none"}

\* Only played rows carry a played_sequence and no two share one, although replays
\* return rows from the history to the queue.  Only rows with a number are compared:
\* a direct load marks the row it displaces as played without one, so that several
\* played rows may have none and no order among them.
HistoryOrdered ==
  \A i, j \in ItemIds :
    queue[i].seq > 0 => /\ queue[i].status = "played"
                        /\ queue[i].seq = queue[j].seq => i = j

\* At most one upcoming row is marked Play Next (the newest explicit Next wins),
\* and the row being played is not.
OnePlayNext ==
  /\ \A i, j \in Queued(queue) : queue[i].next /\ queue[j].next => i = j
  /\ \A i \in With(queue, "playing") : ~queue[i].next

\* While some stored row records that its source failed for good, every stored row of
\* that source is unavailable, whenever it was added (report_media_failure,
\* findKnownProblemQueueItem).  The record is not for ever: a later transient report
\* overwrites the failure code of the active row, and once the last record of a source
\* is gone a row that is added is available again.
RecordedProblemsAreShared ==
  \A i, j \in Stored(queue) :
    queue[i].fail = "permanent" /\ queue[i].src = queue[j].src => queue[j].bad

----------------------------------------------------------------------------
(* Action properties.                                                      *)

\* A reducer reorders the queue by moving one row: all others keep their order.
OneItemMovesAtATime ==
  [][\E moved \in ItemIds \union {NoItem} :
      \A i, j \in (Queued(queue) \cap Queued(queue')) \ {moved} :
        queue[i].pos < queue[j].pos => queue'[i].pos < queue'[j].pos]_vars

\* A row newly marked Play Next is the head of the queue.
NewestNextIsHead ==
  [][\A i \in Queued(queue') :
        queue'[i].next /\ ~(i \in Queued(queue) /\ queue[i].next)
          => Rank(queue', Queued(queue'), i) = 0]_vars

\* The item an advance displaces is not lost: it is the newest of the history or
\* the head of the queue, unless it was removed or a direct load replaced it.
DisplacedItemIsKept ==
  [][\A i \in ItemIds :
       (session.active = i /\ session'.active \notin {i, NoItem}) =>
         \/ queue'[i].status = "played"
            /\ \A j \in ItemIds \ {i} : queue'[j].seq < queue'[i].seq
         \/ i \in Queued(queue') /\ Rank(queue', Queued(queue'), i) = 0]_vars

\* No step starts an item that is unavailable.
NeverStartsUnavailable ==
  [][session'.active # session.active /\ session'.active # NoItem
       => ~queue'[session'.active].bad]_vars

\* An advance that names an occurrence moves the room on only while that
\* occurrence is the open one, and it closes it: of several members' reports of
\* the same ending, one takes effect.
AdvancesOncePerOccurrence ==
  [][\A m \in InFlight :
       (/\ pending'[m] = NoCommand /\ session'.active # session.active
        /\ pending[m].op # "fail" /\ pending[m].occ # 0) =>
         /\ ledger.outcome[pending[m].occ] = "open"
         /\ ledger'.outcome[pending[m].occ] \in Outcomes]_vars

\* A member whose playback right is withdrawn while its command is in flight
\* changes nothing with it: no reducer relies on the check the client made.
RevokedCommandsChangeNothing ==
  [][\A m \in InFlight :
       (pending'[m] = NoCommand /\ ~May(m, "playback"))
         => UNCHANGED <<queue, session, ledger>>]_vars

\* An outcome once recorded never changes.
OutcomesAreFinal ==
  [][\A o \in OccurrenceIds :
       ledger.outcome[o] \in Outcomes => ledger'.outcome[o] = ledger.outcome[o]]_vars

----------------------------------------------------------------------------
(* What the documentation says and the code does not keep to.              *)

\* A delayed advance or failure report that names an occurrence already closed
\* changes nothing: it cannot reach a newer replay of the item.
DelayedReportsSpareReplays ==
  [][\A m \in InFlight :
       (pending'[m] = NoCommand /\ pending[m].occ # 0 /\ pending[m].occ # ledger.open.id
          /\ ledger.outcome[pending[m].occ] # "open")
         => UNCHANGED <<queue, session>>]_vars

\* An occurrence is completed by the ending of its own item, never by the ending
\* of a source that was loaded over it.
CompletedItemWasActive ==
  [][\A o \in OccurrenceIds :
       ledger.outcome[o] = "open" /\ ledger'.outcome[o] = "completed"
         => session.active = ledger.open.item]_vars

\* Moving on after a failure hands the players a playable source: an uploaded row
\* is started under a session reference.
FailureAdvanceIsPlayable ==
  [][\A m \in InFlight :
       (pending[m].op = "fail" /\ pending'[m] = NoCommand /\ session'.active # session.active)
         => session'.url \notin Uploaded]_vars
=============================================================================
