------------------------ MODULE RoomQueueStepProofs ------------------------
(***************************************************************************)
(* Proofs about the steps of RoomQueue: what a reducer may never do to the *)
(* queue's order, marks, history and known problems, and what a command in *)
(* flight may never do to the room.  Lemmas say what each operator makes   *)
(* of a row; Kinds sorts the steps of Next by what they write; each        *)
(* property is then proved kind by kind from the core invariant.           *)
(***************************************************************************)
EXTENDS RoomQueueProofs

----------------------------------------------------------------------------
(* What the queue operators make of a row.                                 *)

\* Two versions of a row that differ at most in its position.
SameRow(a, b) ==
  /\ a.status = b.status /\ a.next = b.next /\ a.seq = b.seq
  /\ a.src = b.src /\ a.bad = b.bad /\ a.fail = b.fail

\* Nothing stands before the first row.
LEMMA HeadRank ==
  ASSUME NEW q, NEW S, NEW i, \A j \in S : ~(q[j].pos < q[i].pos)
  PROVE  Rank(q, S, i) = 0
<1>1. {j \in S : q[j].pos < q[i].pos} = {}
  OBVIOUS
<1> QED
  BY <1>1, FS_EmptySet DEF Rank

\* Renumbering changes positions only and keeps the order; the first row of the
\* queue gets position 0.
LEMMA NormalizedRows ==
  ASSUME NEW q \in Rows
  PROVE  /\ \A i \in ItemIds : SameRow(Normalized(q)[i], q[i])
         /\ \A i, j \in Queued(q) :
              q[i].pos < q[j].pos => Normalized(q)[i].pos < Normalized(q)[j].pos
         /\ \A i \in Queued(q) :
              (\A j \in Queued(q) : ~(q[j].pos < q[i].pos)) => Normalized(q)[i].pos = 0
<1> DEFINE N == Normalized(q)
<1>1. ASSUME NEW i \in Queued(q)
      PROVE  N[i].pos = Rank(q, Queued(q), i) /\ SameRow(N[i], q[i])
  <2> DEFINE r == Rank(q, Queued(q), i)
  <2>1. N[i] = [q[i] EXCEPT !.pos = r] /\ q[i] \in Row
    BY DEF Normalized, Rows, Queued, With
  <2> HIDE DEF r, N
  <2>2. N[i].pos = r /\ SameRow(N[i], q[i])
    BY <2>1 DEF Row, SameRow
  <2> QED
    BY <2>2 DEF r
<1>2. \A i \in ItemIds \ Queued(q) : SameRow(N[i], q[i])
  BY DEF Normalized, SameRow
<1>3. Queued(q) \in SUBSET ItemIds
  BY DEF Queued, With
<1> HIDE DEF N
<1>4. \A i, j \in Queued(q) : q[i].pos < q[j].pos => N[i].pos < N[j].pos
  BY <1>1, <1>3, RankProperties
<1>5. \A i \in Queued(q) : (\A j \in Queued(q) : ~(q[j].pos < q[i].pos)) => N[i].pos = 0
  BY <1>1, HeadRank
<1> QED
  BY <1>1, <1>2, <1>4, <1>5 DEF N

\* Making room at the head moves the other queued rows down by one and takes
\* their marks.
LEMMA ShiftedRows ==
  ASSUME NEW q \in Rows, NEW except \in ItemIds, NEW i \in ItemIds
  PROVE  LET s == ShiftedForNext(q, except)
         IN  /\ s[i].status = q[i].status /\ s[i].seq = q[i].seq /\ s[i].src = q[i].src
             /\ s[i].bad = q[i].bad /\ s[i].fail = q[i].fail
             /\ i \in Queued(q) \ {except} => ~s[i].next /\ s[i].pos = q[i].pos + 1
             /\ i \notin Queued(q) \ {except} => s[i] = q[i]
<1> DEFINE s == ShiftedForNext(q, except)
<1>1. q[i] \in Row
  BY DEF Rows
<1>2. CASE i \in Queued(q) \ {except}
  <2>1. s[i] = [q[i] EXCEPT !.pos = @ + 1, !.next = FALSE]
    BY <1>2 DEF ShiftedForNext
  <2> DEFINE place == q[i].pos + 1
  <2>2. s[i] = [q[i] EXCEPT !.pos = place, !.next = FALSE]
    BY <2>1
  <2> HIDE DEF s, place
  <2>3. /\ s[i].status = q[i].status /\ s[i].seq = q[i].seq /\ s[i].src = q[i].src
        /\ s[i].bad = q[i].bad /\ s[i].fail = q[i].fail
        /\ ~s[i].next /\ s[i].pos = place
    BY <1>1, <2>2 DEF Row
  <2> QED
    BY <1>2, <2>3 DEF s, place
<1>3. CASE i \notin Queued(q) \ {except}
  BY <1>3 DEF ShiftedForNext
<1> QED
  BY <1>2, <1>3

\* Placing one row renumbers the others without changing their order.
LEMMA PlacedRows ==
  ASSUME NEW q \in Rows, NEW i \in Queued(q), NEW p \in Nat
  PROVE  /\ \A j \in ItemIds : SameRow(Placed(q, i, p)[j], q[j])
         /\ \A j, k \in Queued(q) \ {i} :
              q[j].pos < q[k].pos => Placed(q, i, p)[j].pos < Placed(q, i, p)[k].pos
<1> DEFINE P == Placed(q, i, p)
           others == Queued(q) \ {i}
           rank(j) == Rank(q, others, j)
           place(j) == IF rank(j) >= p THEN rank(j) + 1 ELSE rank(j)
<1>1. others \in SUBSET ItemIds /\ i \in ItemIds
  BY DEF Queued, With
<1>2. \A j \in ItemIds : P[j] = IF j = i THEN [q[j] EXCEPT !.pos = p]
                                ELSE IF j \in others THEN [q[j] EXCEPT !.pos = place(j)]
                                ELSE q[j]
  BY DEF Placed
<1>3. ASSUME NEW j \in ItemIds
      PROVE  SameRow(P[j], q[j]) /\ (j \in others => P[j].pos = place(j))
  <2>1. q[j] \in Row
    BY DEF Rows
  <2> HIDE DEF place, P
  <2> QED
    BY <1>2, <2>1 DEF Row, SameRow
<1>4. ASSUME NEW j \in others, NEW k \in others, q[j].pos < q[k].pos
      PROVE  place(j) < place(k)
  <2>1. rank(j) \in Nat /\ rank(k) \in Nat /\ rank(j) < rank(k)
    BY <1>1, <1>4, RankProperties
  <2> HIDE DEF rank
  <2> QED
    BY <2>1
<1> HIDE DEF place, P
<1>5. \A j, k \in others : q[j].pos < q[k].pos => P[j].pos < P[k].pos
  BY <1>1, <1>3, <1>4
<1> QED
  BY <1>3, <1>5 DEF P

\* An advance starts row n, sends the displaced row to the head of the queue or
\* to the end of the history, and moves the other rows by at most one place, all
\* queued rows alike.
LEMMA AdvancedRows ==
  ASSUME NEW q \in Rows, NEW n \in ItemIds, NEW keep \in BOOLEAN
  PROVE  LET A == Advanced(q, n, keep)
             current == With(q, "playing") \ {n}
             returns == keep /\ q[n].status = "played" /\ current # {}
         IN  /\ \A i \in ItemIds : A[i].src = q[i].src /\ A[i].bad = q[i].bad
                                   /\ A[i].fail = q[i].fail
             /\ A[n].status = "playing" /\ ~A[n].next /\ A[n].seq = 0
             /\ \A i \in current :
                  \/ /\ returns /\ A[i].status = "queued" /\ A[i].pos = 0
                     /\ ~A[i].next /\ A[i].seq = 0
                  \/ /\ ~returns /\ A[i].status = "played"
                     /\ A[i].seq = LastSequence(q) + 1
             /\ \A i \in ItemIds : i \notin current /\ i # n =>
                  /\ SameRow(A[i], q[i])
                  /\ i \in Queued(q) =>
                       A[i].pos = IF returns THEN q[i].pos + 1 ELSE q[i].pos
<1> DEFINE A == Advanced(q, n, keep)
           current == With(q, "playing") \ {n}
           returns == keep /\ q[n].status = "played" /\ current # {}
           latest == LastSequence(q) + 1
<1>1. ASSUME NEW i \in ItemIds
      PROVE  A[i] = IF i = n THEN [q[n] EXCEPT !.status = "playing", !.next = FALSE, !.seq = 0]
                    ELSE IF i \in current
                    THEN IF returns
                         THEN [q[i] EXCEPT !.status = "queued", !.pos = 0, !.next = FALSE,
                                           !.seq = 0]
                         ELSE [q[i] EXCEPT !.status = "played", !.seq = latest]
                    ELSE IF returns /\ i \in Queued(q) THEN [q[i] EXCEPT !.pos = @ + 1]
                    ELSE q[i]
  BY DEF Advanced
<1>2. \A i \in ItemIds : q[i] \in Row
  BY DEF Rows
<1>3. current \subseteq ItemIds
  BY DEF With
<1> HIDE DEF A, latest, returns, current
<1>4. A[n].status = "playing" /\ ~A[n].next /\ A[n].seq = 0
      /\ A[n].src = q[n].src /\ A[n].bad = q[n].bad /\ A[n].fail = q[n].fail
  BY <1>1, <1>2 DEF Row
<1>5. ASSUME NEW i \in ItemIds, i \in current, i # n
      PROVE  /\ A[i].src = q[i].src /\ A[i].bad = q[i].bad /\ A[i].fail = q[i].fail
             /\ \/ /\ returns /\ A[i].status = "queued" /\ A[i].pos = 0
                   /\ ~A[i].next /\ A[i].seq = 0
                \/ ~returns /\ A[i].status = "played" /\ A[i].seq = latest
  BY <1>1, <1>2, <1>5 DEF Row
<1>6. ASSUME NEW i \in ItemIds, i \notin current, i # n
      PROVE  /\ SameRow(A[i], q[i])
             /\ i \in Queued(q) => A[i].pos = IF returns THEN q[i].pos + 1 ELSE q[i].pos
  <2>1. q[i] \in Row
    BY <1>2
  <2>2. CASE returns /\ i \in Queued(q)
    <3> DEFINE place == q[i].pos + 1
    <3>1. A[i] = [q[i] EXCEPT !.pos = place]
      BY <1>1, <1>6, <2>2
    <3> HIDE DEF place
    <3>2. SameRow(A[i], q[i]) /\ A[i].pos = place
      BY <2>1, <3>1 DEF Row, SameRow
    <3> QED
      BY <2>2, <3>2 DEF place
  <2>3. CASE ~(returns /\ i \in Queued(q))
    BY <1>1, <1>6, <2>3 DEF SameRow
  <2> QED
    BY <2>2, <2>3
<1>7. \A i \in current : i # n
  BY DEF current
<1>8. \A i \in ItemIds : A[i].src = q[i].src /\ A[i].bad = q[i].bad /\ A[i].fail = q[i].fail
  BY <1>4, <1>5, <1>6 DEF SameRow
<1> QED
  BY <1>3, <1>4, <1>5, <1>6, <1>7, <1>8 DEF A, latest, returns, current

\* A failure report touches no status, position, mark or history; what it marks
\* as failed for good is unavailable.
LEMMA MarkedRows ==
  ASSUME queue \in Rows, NEW permanent \in BOOLEAN, NEW i \in ItemIds
  PROVE  LET row == MarkedFailed(permanent)[i]
             hit == i \in Stored(queue)
                    /\ (i = session.active \/ (permanent /\ queue[i].src = session.url))
         IN  /\ row.status = queue[i].status /\ row.pos = queue[i].pos
             /\ row.next = queue[i].next /\ row.seq = queue[i].seq
             /\ row.src = queue[i].src
             /\ row.bad = (queue[i].bad \/ (hit /\ permanent))
             /\ row.fail = IF ~hit THEN queue[i].fail
                           ELSE IF permanent THEN "permanent" ELSE "transient"
<1> DEFINE row == MarkedFailed(permanent)[i]
           hit == i \in Stored(queue)
                  /\ (i = session.active \/ (permanent /\ queue[i].src = session.url))
           fail == IF permanent THEN "permanent" ELSE "transient"
           bad == queue[i].bad \/ permanent
<1>1. queue[i] \in Row /\ queue[i].bad \in BOOLEAN
  BY DEF Rows, Row
<1>2. row = IF hit THEN [queue[i] EXCEPT !.fail = fail, !.bad = bad] ELSE queue[i]
  BY DEF MarkedFailed
<1> HIDE DEF row, hit, fail
<1>3. CASE hit
  <2>1. bad \in BOOLEAN /\ (bad <=> (queue[i].bad \/ permanent))
    BY <1>1
  <2> HIDE DEF bad
  <2>2. row = [queue[i] EXCEPT !.fail = fail, !.bad = bad]
    BY <1>2, <1>3
  <2>3. /\ row.status = queue[i].status /\ row.pos = queue[i].pos
        /\ row.next = queue[i].next /\ row.seq = queue[i].seq
        /\ row.src = queue[i].src /\ row.bad = bad /\ row.fail = fail
    BY <1>1, <2>2 DEF Row
  <2>4. row.bad = (queue[i].bad \/ (hit /\ permanent))
    BY <1>1, <1>3, <2>1, <2>3
  <2> QED
    BY <1>3, <2>3, <2>4 DEF row, hit, fail
<1>4. CASE ~hit
  <2>1. row = queue[i]
    BY <1>2, <1>4
  <2>2. row.bad = (queue[i].bad \/ (hit /\ permanent))
    BY <1>1, <1>4, <2>1
  <2> QED
    BY <1>4, <2>1, <2>2 DEF row, hit
<1> QED
  BY <1>3, <1>4

----------------------------------------------------------------------------
(* The kinds of steps.                                                     *)

\* The report being processed names the session's source; it came from a client
\* whose player failed.
Reported == \E m \in Members : pending[m].op = "fail" /\ pending[m].url = session.url

\* The queue an advance starts from.
Origin(q) == q = queue \/ (q = MarkedFailed(TRUE) /\ Reported)

\* An advance: an available row starts, under its own source if that is YouTube.
Starts ==
  \E q \in Rows, n \in ItemIds, url \in Urls \union {NoUrl}, status \in PlaybackStatuses,
     result \in Outcomes, keep \in BOOLEAN :
    /\ Origin(q) /\ n \in Stored(q) /\ ~q[n].bad
    /\ url \in YouTube => url = q[n].src
    /\ Commit(q, n, url, status, result, keep)

\* Nothing that a queue or ledger property speaks of.
Rests == UNCHANGED <<queue, ledger>> /\ session'.active = session.active
         /\ session'.url = session.url

Updates == \E status \in PlaybackStatuses, pos \in {"start", "end"} :
             PlaybackUpdate(status, pos)

Adds == \E m \in Members, i \in ItemIds, src \in Sources,
           next, duplicate, unavailable \in BOOLEAN :
          AddQueueItem(m, i, src, next, duplicate, unavailable)
Prioritises == \E m \in Members, i \in ItemIds, next \in BOOLEAN :
                 SetQueueItemPriority(m, i, next)
Places == \E i \in Queued(queue), p \in Nat : Edit(Placed(queue, i, p))
Clears == \E m \in Members : ClearQueue(m)
Removes == \E m \in Members, i \in ItemIds : RemoveQueueItem(m, i)
Stops == \E m \in Members, url \in Urls : LoadMediaSource(m, url)

\* A failure report that moves nothing on.
Marks == \E permanent \in BOOLEAN :
  /\ Reported /\ queue' = MarkedFailed(permanent) /\ UNCHANGED ledger
  /\ session' = [session EXCEPT !.status = "error", !.rev = now]

\* A reducer picks only stored, available rows, from the queue it is given.
LEMMA SelectedAvailable ==
  ASSUME NEW q, NEW loop, NEW n \in Upcoming(q, loop)
  PROVE  n \in Stored(q) /\ ~q[n].bad
BY DEF Upcoming, Lowest, Stored, With, Present

LEMMA YouTubeIsDirect ==
  SessionRefs \cap YouTube = {} /\ YouTube \cap Uploaded = {}
BY SourcesAssumption

LEMMA HandleKinds ==
  ASSUME Core, Around, NEW m \in Members, Handle(m)
  PROVE  Rests \/ Updates \/ Marks \/ Starts
<1> DEFINE c == pending[m]
<1>1. c \in Command
  BY DEF Around, Handle
<1>2. queue \in Rows /\ session \in Session /\ Origin(queue)
  BY DEF Core, Origin
<1>3. \A n \in ItemIds : queue[n].src \in Sources \union {NoUrl}
  BY <1>2 DEF Rows, Row
<1>4. \A n \in Successors : n \in ItemIds /\ n \in Stored(queue) /\ ~queue[n].bad
  BY SelectedAvailable DEF Successors, Stored
<1>5. ASSUME UNCHANGED <<queue, ledger, session>> PROVE Rests
  BY <1>5 DEF Rests
<1>6. ASSUME NEW n \in Successors, NEW nearEnd, NEW auto, NEW status \in PlaybackStatuses,
             Commit(queue, n, queue[n].src, status, Classified(auto, nearEnd), FALSE)
      PROVE  Starts
  <2>1. queue[n].src \in Urls \union {NoUrl} /\ Classified(auto, nearEnd) \in Outcomes
    BY <1>3, <1>4, ClassifiedOutcome DEF Urls
  <2> QED
    BY <1>2, <1>4, <1>6, <2>1 DEF Starts
<1>7. CASE AdvanceQueueItem(m)
  BY <1>5, <1>6, <1>7 DEF AdvanceQueueItem, CanAdvance, PlaybackStatuses
<1>8. CASE AdvanceUploadedQueueItem(m)
  <2>1. CASE UNCHANGED <<queue, ledger, session>>
    BY <1>5, <2>1
  <2>2. CASE /\ c.next \in Successors /\ ~Playable(queue[c.next].src)
             /\ \E nearEnd \in NearEnd :
                  Commit(queue, c.next, SessionRef[queue[c.next].src], "playing",
                         Classified(c.auto, nearEnd), FALSE)
    <3> DEFINE n == c.next
               url == SessionRef[queue[n].src]
    <3>1. url \in Urls \union {NoUrl} /\ url \notin YouTube
      BY <2>2, SourcesAssumption, YouTubeIsDirect DEF Playable, Urls
    <3>2. PICK nearEnd \in NearEnd :
            Commit(queue, n, url, "playing", Classified(c.auto, nearEnd), FALSE)
      BY <2>2
    <3>3. n \in ItemIds /\ n \in Stored(queue) /\ ~queue[n].bad
      BY <1>4, <2>2
    <3>4. Classified(c.auto, nearEnd) \in Outcomes /\ "playing" \in PlaybackStatuses
      BY ClassifiedOutcome DEF PlaybackStatuses
    <3> HIDE DEF url, n
    <3> QED
      BY <1>2, <3>1, <3>2, <3>3, <3>4 DEF Starts
  <2> QED
    BY <1>8, <2>1, <2>2 DEF AdvanceUploadedQueueItem, CanAdvance
<1>9. CASE PrepareYoutubeAutoplay(m)
  BY <1>5, <1>6, <1>9 DEF PrepareYoutubeAutoplay, CanAdvance, PlaybackStatuses
<1>10. CASE StartPreparedYoutube(m)
  <2>1. session.pos \in {"start", "end"} /\ "playing" \in PlaybackStatuses
    BY <1>2 DEF Session, PlaybackStatuses
  <2> QED
    BY <1>5, <1>10, <2>1 DEF StartPreparedYoutube, Updates
<1>11. CASE ReportMediaFailure(m)
  <2> DEFINE marked == MarkedFailed(c.permanent)
             next == Upcoming(marked, session.loop) \ {session.active}
  <2>1. c.permanent \in BOOLEAN /\ c.op = "fail"
    BY <1>1, <1>11 DEF Command, ReportMediaFailure
  <2>2. CASE UNCHANGED <<queue, ledger, session>>
    BY <1>5, <2>2
  <2>3. CASE /\ c.url = session.url /\ c.permanent
             /\ \E n \in next : Commit(marked, n, marked[n].src, "playing", "failed", FALSE)
    <3>1. Reported
      BY <2>1, <2>3 DEF Reported
    <3>2. Origin(marked) /\ marked \in Rows
      BY <2>1, <2>3, <3>1, MarkedProperties DEF Origin
    <3>3. PICK n \in next : Commit(marked, n, marked[n].src, "playing", "failed", FALSE)
      BY <2>3
    <3>4. n \in ItemIds /\ n \in Stored(marked) /\ ~marked[n].bad
      BY SelectedAvailable, Selected
    <3>5. marked[n].src \in Urls \union {NoUrl}
      BY <3>2, <3>4 DEF Rows, Row, Urls
    <3>6. "playing" \in PlaybackStatuses /\ "failed" \in Outcomes
      BY DEF PlaybackStatuses, Outcomes
    <3> HIDE DEF marked
    <3> QED
      BY <3>2, <3>3, <3>4, <3>5, <3>6 DEF Starts
  <2>4. CASE /\ c.url = session.url /\ queue' = marked /\ UNCHANGED ledger
             /\ session' = [session EXCEPT !.status = "error", !.rev = now]
    BY <2>1, <2>4 DEF Marks, Reported
  <2> QED
    BY <1>11, <2>2, <2>3, <2>4 DEF ReportMediaFailure
<1> QED
  BY <1>7, <1>8, <1>9, <1>10, <1>11 DEF Handle

LEMMA EditKinds ==
  ASSUME Core, NEW m \in Members, EditQueue(m)
  PROVE  Adds \/ Prioritises \/ Places \/ Removes \/ Clears
<1>1. ASSUME NEW i \in ItemIds, NEW p \in 0..Cardinality(ItemIds), MoveQueueItem(m, i, p)
      PROVE  Places
  <2> DEFINE last == Cardinality(Queued(queue)) - 1
             target == IF p < last THEN p ELSE last
  <2>1. i \in Queued(queue) /\ Edit(Placed(queue, i, target))
    BY <1>1 DEF MoveQueueItem
  <2>2. last \in Nat
    <3>1. IsFiniteSet(Queued(queue))
      BY ItemsAssumption, FS_Subset DEF Queued, With
    <3>2. Cardinality(Queued(queue)) \in Nat /\ Cardinality(Queued(queue)) # 0
      BY <2>1, <3>1, FS_CardinalityType, FS_EmptySet
    <3> QED
      BY <3>2
  <2>3. p \in Nat
    BY ItemsAssumption, FS_CardinalityType
  <2> HIDE DEF last
  <2>4. target \in Nat
    BY <2>2, <2>3
  <2> QED
    BY <2>1, <2>4 DEF Places
<1>2. ASSUME NEW i \in ItemIds, MoveQueueItemRelative(m, i)
      PROVE  Places
  <2> DEFINE others == Queued(queue) \ {i}
             beside(a) == LET r == Rank(queue, others, a) IN {r, r + 1}
  <2>1. PICK p \in {0, Cardinality(others)} \union UNION {beside(a) : a \in others} :
          Edit(Placed(queue, i, p))
    BY <1>2 DEF MoveQueueItemRelative
  <2>2. others \in SUBSET ItemIds /\ queue \in Rows /\ i \in Queued(queue)
    BY <1>2 DEF Core, Queued, With, MoveQueueItemRelative
  <2>3. Cardinality(others) \in Nat
    BY <2>2, ItemsAssumption, FS_Subset, FS_CardinalityType
  <2>4. \A a \in others : Rank(queue, others, a) \in Nat
    BY <2>2, RankProperties
  <2> HIDE DEF others
  <2>5. p \in Nat
    BY <2>1, <2>3, <2>4
  <2> QED
    BY <2>1, <2>2, <2>5 DEF Places
<1> QED
  BY <1>1, <1>2 DEF EditQueue, Adds, Prioritises, Removes, Clears

LEMMA ControlKinds ==
  ASSUME Core, Around, NEW m \in Members, ControlPlayback(m)
  PROVE  Rests \/ Updates \/ Stops \/ Starts
<1>1. queue \in Rows /\ session \in Session /\ Origin(queue)
  BY DEF Core, Origin
<1>2. ASSUME NEW i \in ItemIds, Available(i)
      PROVE  i \in Stored(queue) /\ ~queue[i].bad
  BY <1>2 DEF Available, Stored
<1>3. ASSUME NEW loop \in BOOLEAN, SetQueueMode(m, loop) PROVE Rests
  BY <1>1, <1>3 DEF SetQueueMode, Rests, Session
<1>4. ASSUME NEW enabled \in BOOLEAN, SetQueueAutoplay(m, enabled) PROVE Rests
  BY <1>1, <1>4 DEF SetQueueAutoplay, Rests, Session
<1>5. ASSUME NEW url \in Urls \ Uploaded, LoadMediaSource(m, url) PROVE Stops
  BY <1>5 DEF Stops
<1>6. ASSUME NEW status \in Statuses, NEW pos \in {"start", "end"},
             SetPlaybackState(m, status, pos)
      PROVE  Updates
  BY <1>6, ChoicesAssumption DEF SetPlaybackState, Updates
<1>7. ASSUME NEW i \in ItemIds, PlayQueueItem(m, i) PROVE Starts
  <2>1. queue[i].src \in Urls \union {NoUrl}
    BY <1>1 DEF Rows, Row, Urls
  <2>2. "paused" \in PlaybackStatuses /\ "skipped" \in Outcomes
        /\ (queue[i].status = "played") \in BOOLEAN
    BY DEF PlaybackStatuses, Outcomes
  <2> QED
    BY <1>1, <1>2, <1>7, <2>1, <2>2 DEF PlayQueueItem, Starts
<1>8. ASSUME NEW i \in ItemIds, PlayUploadedQueueItem(m, i) PROVE Starts
  <2> DEFINE url == SessionRef[queue[i].src]
             keep == queue[i].status = "played"
  <2>1. url \in Urls \union {NoUrl} /\ url \notin YouTube
    BY <1>8, SourcesAssumption, YouTubeIsDirect DEF PlayUploadedQueueItem, Playable, Urls
  <2>2. "playing" \in PlaybackStatuses /\ "skipped" \in Outcomes /\ keep \in BOOLEAN
    BY DEF PlaybackStatuses, Outcomes
  <2>3. Available(i) /\ Commit(queue, i, url, "playing", "skipped", keep)
    BY <1>8 DEF PlayUploadedQueueItem
  <2> HIDE DEF url, keep
  <2> QED
    BY <1>1, <1>2, <2>1, <2>2, <2>3 DEF Starts
<1> QED
  BY <1>3, <1>4, <1>5, <1>6, <1>7, <1>8 DEF ControlPlayback

\* Every step is of one of these kinds.
LEMMA Kinds ==
  ASSUME Core, Around, [Next]_vars
  PROVE  \/ Rests \/ Updates \/ Starts \/ Marks
         \/ Adds \/ Prioritises \/ Places \/ Removes \/ Clears \/ Stops
<1>1. ASSUME UNCHANGED <<queue, session, ledger>> PROVE Rests
  BY <1>1 DEF Rests
<1>2. ASSUME NEW m \in Members, SendCommand(m) PROVE Rests
  BY <1>1, <1>2 DEF SendCommand, SendAdvance, SendStart, SendFailure, Send
<1> QED
  BY <1>1, <1>2, HandleKinds, EditKinds, ControlKinds
     DEF Next, LoseCommand, ChangeRights, Tick, ForgetFailures, vars

----------------------------------------------------------------------------
(* History, marks and known problems.                                      *)

Ordered(q) == \A i, j \in ItemIds :
  q[i].seq > 0 => q[i].status = "played" /\ (q[i].seq = q[j].seq => i = j)
Marked(q) == /\ \A i, j \in Queued(q) : q[i].next /\ q[j].next => i = j
             /\ \A i \in With(q, "playing") : ~q[i].next
Shared(q) == \A i, j \in Stored(q) :
  q[i].fail = "permanent" /\ q[i].src = q[j].src => q[j].bad

\* What the history, the marks and the known problems rest on: a YouTube source
\* that plays is the active row's, and only YouTube players report failures.
Sourced == session.active # NoItem /\ session.url \in YouTube
             => queue[session.active].src = session.url
ReportsAreYouTube ==
  \A m \in Members : pending[m].op = "fail" => pending[m].url \in YouTube

Kept == /\ Ordered(queue) /\ Marked(queue) /\ Shared(queue)
        /\ Sourced /\ ReportsAreYouTube

\* Positions do not matter to the history, the marks and the problems.
LEMMA SameRowsKeep ==
  ASSUME NEW q \in Rows, NEW r \in Rows, \A i \in ItemIds : SameRow(r[i], q[i])
  PROVE  /\ Ordered(q) => Ordered(r)
         /\ Marked(q) => Marked(r)
         /\ Shared(q) => Shared(r)
<1>1. Queued(r) = Queued(q) /\ With(r, "playing") = With(q, "playing")
      /\ Stored(r) = Stored(q)
  BY DEF SameRow, Queued, With, Stored
<1>2. Queued(q) \subseteq ItemIds /\ With(q, "playing") \subseteq ItemIds
      /\ Stored(q) \subseteq ItemIds
  BY DEF Queued, With, Stored
<1>3. Ordered(q) => Ordered(r)
  BY DEF Ordered, SameRow
<1>4. Marked(q) => Marked(r)
  BY <1>1, <1>2 DEF Marked, SameRow
<1>5. Shared(q) => Shared(r)
  BY <1>1, <1>2 DEF Shared, SameRow
<1> QED
  BY <1>3, <1>4, <1>5

\* An advance keeps all three; the displaced row's sequence number is new.
LEMMA AdvancedKeeps ==
  ASSUME NEW q \in Rows, NEW n \in Stored(q), NEW keep \in BOOLEAN,
         \A i, j \in With(q, "playing") : i = j
  PROVE  /\ Ordered(q) => Ordered(Advanced(q, n, keep))
         /\ Marked(q) => Marked(Advanced(q, n, keep))
         /\ Shared(q) => Shared(Advanced(q, n, keep))
<1> DEFINE A == Advanced(q, n, keep)
           current == With(q, "playing") \ {n}
           latest == LastSequence(q) + 1
<1>1. n \in ItemIds
  BY DEF Stored
<1>2. /\ \A i \in ItemIds : A[i].src = q[i].src /\ A[i].bad = q[i].bad
                            /\ A[i].fail = q[i].fail
      /\ A[n].status = "playing" /\ ~A[n].next /\ A[n].seq = 0
      /\ \A i \in current :
           \/ A[i].status = "queued" /\ ~A[i].next /\ A[i].seq = 0
           \/ A[i].status = "played" /\ A[i].seq = latest
      /\ \A i \in ItemIds : i \notin current /\ i # n => SameRow(A[i], q[i])
  BY <1>1, AdvancedRows
<1>3. latest \in Nat /\ \A i \in ItemIds : q[i].seq \in Nat /\ q[i].seq < latest
  <2>1. \A i \in ItemIds : q[i].seq \in Nat
    BY DEF Rows, Row
  <2> QED
    BY <2>1, LastSequenceProperties
<1>4. \A i, j \in current : i = j
  OBVIOUS
<1>5. current \subseteq ItemIds /\ n \notin current
      /\ \A i \in current : q[i].status = "playing"
  BY DEF With
<1>5a. \A i \in ItemIds : i \notin current => q[i].status # "playing" \/ i = n
  BY DEF With
<1> HIDE DEF A, latest, current
<1>6. ASSUME Ordered(q) PROVE Ordered(A)
  <2>1. SUFFICES ASSUME NEW i \in ItemIds, NEW j \in ItemIds, A[i].seq > 0
                 PROVE  A[i].status = "played" /\ (A[i].seq = A[j].seq => i = j)
    BY DEF Ordered
  <2>2. i # n
    BY <1>2, <2>1
  <2>3. CASE i \in current
    <3>1. A[i].status = "played" /\ A[i].seq = latest
      BY <1>2, <2>1, <2>3
    <3>2. ASSUME j \notin current PROVE A[j].seq # latest
      BY <1>2, <1>3, <3>2 DEF SameRow
    <3> QED
      BY <1>4, <2>3, <3>1, <3>2
  <2>4. CASE i \notin current
    <3>1. SameRow(A[i], q[i])
      BY <1>2, <2>2, <2>4
    <3>2. A[i].status = "played" /\ A[i].seq = q[i].seq /\ q[i].seq < latest
      BY <1>3, <1>6, <2>1, <3>1 DEF Ordered, SameRow
    <3>3. CASE j \in current
      BY <1>2, <2>1, <3>2, <3>3, <1>3
    <3>4. CASE j = n
      BY <1>2, <2>1, <3>2, <3>4
    <3>5. CASE j \notin current /\ j # n
      <4>1. A[j].seq = q[j].seq
        BY <1>2, <3>5 DEF SameRow
      <4> QED
        BY <1>6, <2>1, <3>2, <4>1 DEF Ordered
    <3> QED
      BY <3>2, <3>3, <3>4, <3>5
  <2> QED
    BY <2>3, <2>4
<1>7. ASSUME Marked(q) PROVE Marked(A)
  <2>1. \A i \in Queued(A) : A[i].next => i \in Queued(q) /\ q[i].next
    <3>1. SUFFICES ASSUME NEW i \in ItemIds, A[i].status = "queued", A[i].next
                   PROVE  i \in Queued(q) /\ q[i].next
      BY DEF Queued, With
    <3>2. i # n /\ i \notin current
      BY <1>2, <3>1
    <3> QED
      BY <1>2, <3>1, <3>2 DEF SameRow, Queued, With
  <2>2. ASSUME NEW i \in With(A, "playing") PROVE ~A[i].next
    <3>1. i \in ItemIds /\ A[i].status = "playing"
      BY DEF With
    <3>2. i \notin current
      BY <1>2, <3>1
    <3>3. i = n
      BY <1>2, <1>5a, <3>1, <3>2 DEF SameRow
    <3> QED
      BY <1>2, <3>3
  <2> QED
    BY <1>7, <2>1, <2>2 DEF Marked
<1>8. ASSUME Shared(q) PROVE Shared(A)
  <2>1. Stored(A) \subseteq Stored(q)
    <3>1. ASSUME NEW i \in Stored(A) PROVE i \in Stored(q)
      <4>1. i \in ItemIds /\ A[i].status \in Present
        BY DEF Stored
      <4>2. CASE i = n
        BY <4>2
      <4>3. CASE i \in current
        BY <1>5, <4>1, <4>3 DEF Stored, Present
      <4>4. CASE i \notin current /\ i # n
        BY <1>2, <4>1, <4>4 DEF SameRow, Stored
      <4> QED
        BY <4>2, <4>3, <4>4
    <3> QED
      BY <3>1
  <2>2. Stored(A) \subseteq ItemIds
    BY DEF Stored
  <2> QED
    BY <1>2, <1>8, <2>1, <2>2 DEF Shared
<1> QED
  BY <1>6, <1>7, <1>8 DEF A

\* A failure report keeps all three; with it a source that failed for good is
\* unavailable wherever it is stored.
LEMMA MarkedKeeps ==
  ASSUME Core, Kept, Reported, NEW permanent \in BOOLEAN
  PROVE  LET q == MarkedFailed(permanent) IN Ordered(q) /\ Marked(q) /\ Shared(q)
<1> DEFINE q == MarkedFailed(permanent)
           hit(i) == i \in Stored(queue)
                     /\ (i = session.active \/ (permanent /\ queue[i].src = session.url))
<1>1. queue \in Rows /\ session \in Session
  BY DEF Core
<1>2. \A i \in ItemIds :
        /\ q[i].status = queue[i].status /\ q[i].pos = queue[i].pos
        /\ q[i].next = queue[i].next /\ q[i].seq = queue[i].seq
        /\ q[i].src = queue[i].src
        /\ q[i].bad = (queue[i].bad \/ (hit(i) /\ permanent))
        /\ q[i].fail = IF ~hit(i) THEN queue[i].fail
                       ELSE IF permanent THEN "permanent" ELSE "transient"
  BY <1>1, MarkedRows
<1>3. session.url \in YouTube
  BY DEF Reported, Kept, ReportsAreYouTube
<1>4. \A i \in Stored(queue) : i = session.active => queue[i].src = session.url
  BY <1>3, ItemsAssumption DEF Kept, Sourced, Stored
<1> HIDE DEF q
<1>5. /\ Queued(q) = Queued(queue) /\ With(q, "playing") = With(queue, "playing")
      /\ Stored(q) = Stored(queue) /\ Stored(queue) \subseteq ItemIds
      /\ Queued(queue) \subseteq ItemIds /\ With(queue, "playing") \subseteq ItemIds
  BY <1>2 DEF Queued, With, Stored
<1>6. Ordered(q)
  BY <1>2 DEF Ordered, Kept
<1>7. Marked(q)
  BY <1>2, <1>5 DEF Marked, Kept
<1>8. Shared(q)
  <2>1. SUFFICES ASSUME NEW i \in Stored(queue), NEW j \in Stored(queue),
                        q[i].fail = "permanent", q[i].src = q[j].src
                 PROVE  q[j].bad
    BY <1>5 DEF Shared
  <2>2. i \in ItemIds /\ j \in ItemIds /\ queue[i].src = queue[j].src
    BY <1>2, <1>5, <2>1
  <2>3. CASE hit(i)
    <3>1. permanent
      BY <1>2, <2>1, <2>2, <2>3
    <3>2. queue[i].src = session.url
      BY <1>4, <2>3
    <3>3. hit(j)
      BY <2>2, <3>1, <3>2
    <3> QED
      BY <1>2, <2>2, <3>1, <3>3
  <2>4. CASE ~hit(i)
    <3>1. queue[i].fail = "permanent"
      BY <1>2, <2>1, <2>2, <2>4
    <3>2. queue[j].bad = TRUE
      <4>1. queue[j].bad /\ queue[j].bad \in BOOLEAN
        BY <1>1, <2>2, <3>1 DEF Kept, Shared, Rows, Row
      <4> QED
        BY <4>1
    <3> QED
      BY <1>2, <2>2, <3>2
  <2> QED
    BY <2>3, <2>4
<1> QED
  BY <1>6, <1>7, <1>8 DEF q

\* A new row brings no sequence number, takes the mark if it is Next, and is
\* unavailable when its source is known to have failed.
LEMMA AddKeeps ==
  ASSUME Core, Kept, Adds
  PROVE  Ordered(queue') /\ Marked(queue') /\ Shared(queue')
<1>1. PICK m \in Members, i \in ItemIds, src \in Sources,
           next \in BOOLEAN, duplicate \in BOOLEAN, unavailable \in BOOLEAN :
             AddQueueItem(m, i, src, next, duplicate, unavailable)
  BY DEF Adds
<1> DEFINE q == IF next THEN ShiftedForNext(queue, i) ELSE queue
           known == KnownProblem(src)
           place == IF next THEN 0 ELSE EndPosition(queue)
           bad == unavailable \/ known
           fail == IF known THEN "permanent" ELSE "none"
           row == [status |-> "queued", pos |-> place, next |-> next, seq |-> 0,
                   src |-> src, bad |-> bad, fail |-> fail]
<1>2. queue[i].status = "unused" /\ queue' = [q EXCEPT ![i] = row]
  BY <1>1 DEF AddQueueItem, Edit
<1>3. queue \in Rows
  BY DEF Core
<1>4. /\ q \in Rows
      /\ \A j \in ItemIds : /\ q[j].status = queue[j].status /\ q[j].seq = queue[j].seq
                            /\ q[j].src = queue[j].src /\ q[j].bad = queue[j].bad
                            /\ q[j].fail = queue[j].fail
                            /\ q[j].next => queue[j].next
                            /\ j \in Queued(queue) \ {i} /\ next => ~q[j].next
  BY <1>3, ShiftedRows, ShiftedProperties
<1>5. /\ row.status = "queued" /\ row.next = next /\ row.seq = 0 /\ row.src = src
      /\ known => row.bad
      /\ row.fail = "permanent" => known
  OBVIOUS
<1> HIDE DEF q, row, known
<1>6. /\ queue'[i] = row
      /\ \A j \in ItemIds \ {i} : queue'[j] = q[j]
  BY <1>2, <1>4 DEF Rows
<1>7. Ordered(queue')
  BY <1>4, <1>5, <1>6 DEF Kept, Ordered
<1>8. Marked(queue')
  <2>1. \A j \in Queued(queue') : j # i => j \in Queued(queue) /\ queue'[j] = q[j]
    BY <1>4, <1>6 DEF Queued, With
  <2>2. \A j \in With(queue', "playing") : j # i /\ j \in With(queue, "playing")
                                           /\ queue'[j] = q[j]
    BY <1>4, <1>5, <1>6 DEF With
  <2>3. \A j \in With(queue', "playing") : ~queue'[j].next
    BY <1>4, <2>2 DEF Kept, Marked, With
  <2>4. ASSUME NEW j \in Queued(queue'), NEW k \in Queued(queue'),
               queue'[j].next, queue'[k].next
        PROVE  j = k
    <3>1. Queued(queue) \subseteq ItemIds
      BY DEF Queued, With
    <3>2. CASE next
      BY <1>4, <2>1, <2>4, <3>1, <3>2
    <3>3. CASE ~next
      <4>1. j # i /\ k # i
        BY <1>5, <1>6, <2>4, <3>3
      <4> QED
        BY <1>4, <2>1, <2>4, <3>1, <4>1 DEF Kept, Marked
    <3> QED
      BY <3>2, <3>3
  <2> QED
    BY <2>3, <2>4 DEF Marked
<1>9. Shared(queue')
  <2>1. SUFFICES ASSUME NEW j \in Stored(queue'), NEW k \in Stored(queue'),
                        queue'[j].fail = "permanent", queue'[j].src = queue'[k].src
                 PROVE  queue'[k].bad
    BY DEF Shared
  <2>2. \A l \in Stored(queue') : l # i => l \in Stored(queue)
    BY <1>4, <1>6 DEF Stored
  <2>3. j \in ItemIds /\ k \in ItemIds
    BY DEF Stored
  <2>4. CASE j = i /\ k = i
    BY <1>5, <1>6, <2>1, <2>4
  <2>5. CASE j = i /\ k # i
    <3>1. KnownProblem(src)
      BY <1>5, <1>6, <2>1, <2>5 DEF known
    <3>2. PICK l \in Stored(queue) : queue[l].fail = "permanent" /\ queue[l].src = src
      BY <3>1 DEF KnownProblem
    <3>3. k \in Stored(queue) /\ queue[k].src = src
      BY <1>4, <1>5, <1>6, <2>1, <2>2, <2>3, <2>5
    <3>4. queue[k].bad
      BY <3>2, <3>3 DEF Kept, Shared
    <3> QED
      BY <1>4, <1>6, <2>3, <2>5, <3>4
  <2>6. CASE j # i /\ k = i
    <3>1. j \in Stored(queue) /\ queue[j].fail = "permanent" /\ queue[j].src = src
      BY <1>4, <1>5, <1>6, <2>1, <2>2, <2>3, <2>6
    <3>2. known
      BY <3>1 DEF Kept, Shared, KnownProblem, known
    <3> QED
      BY <1>5, <1>6, <2>6, <3>2
  <2>7. CASE j # i /\ k # i
    <3>1. /\ j \in Stored(queue) /\ queue[j].fail = "permanent"
          /\ k \in Stored(queue) /\ queue[j].src = queue[k].src
      BY <1>4, <1>6, <2>1, <2>2, <2>3, <2>7
    <3>2. queue[k].bad
      BY <3>1 DEF Kept, Shared
    <3> QED
      BY <1>4, <1>6, <2>3, <2>7, <3>2
  <2> QED
    BY <2>4, <2>5, <2>6, <2>7
<1> QED
  BY <1>7, <1>8, <1>9

\* Raising a row to Next takes the mark of every other row.
LEMMA PriorityKeeps ==
  ASSUME Core, Kept, Prioritises
  PROVE  Ordered(queue') /\ Marked(queue') /\ Shared(queue')
<1>1. PICK m \in Members, i \in ItemIds, next \in BOOLEAN : SetQueueItemPriority(m, i, next)
  BY DEF Prioritises
<1> DEFINE q == IF next THEN ShiftedForNext(queue, i) ELSE queue
           place == IF next THEN 0 ELSE q[i].pos
           row == [q[i] EXCEPT !.next = next, !.pos = place]
           marked == [q EXCEPT ![i].next = next, ![i].pos = IF next THEN 0 ELSE @]
<1>2. i \in Queued(queue) /\ queue' = Normalized(marked)
  BY <1>1 DEF SetQueueItemPriority, Edit
<1>3. queue \in Rows
  BY DEF Core
<1>4. /\ q \in Rows
      /\ \A j \in ItemIds : /\ q[j].status = queue[j].status /\ q[j].seq = queue[j].seq
                            /\ q[j].src = queue[j].src /\ q[j].bad = queue[j].bad
                            /\ q[j].fail = queue[j].fail
                            /\ q[j].next => queue[j].next
                            /\ j \in Queued(queue) \ {i} /\ next => ~q[j].next
  BY <1>3, ShiftedRows, ShiftedProperties
<1>5. q[i] \in Row /\ place \in Nat
  BY <1>4 DEF Rows, Row
<1>6. marked = [q EXCEPT ![i] = row]
  BY <1>4 DEF Rows, Row
<1> HIDE DEF q, place, marked
<1>7. /\ row \in Row /\ row.status = q[i].status /\ row.next = next /\ row.seq = q[i].seq
      /\ row.src = q[i].src /\ row.bad = q[i].bad /\ row.fail = q[i].fail
  BY <1>5 DEF Row
<1> HIDE DEF row
<1>8. /\ marked \in Rows /\ marked[i] = row
      /\ \A j \in ItemIds \ {i} : marked[j] = q[j]
  BY <1>4, <1>6, <1>7 DEF Rows
<1>9. \A j \in ItemIds :
        /\ marked[j].status = queue[j].status /\ marked[j].seq = queue[j].seq
        /\ marked[j].src = queue[j].src /\ marked[j].bad = queue[j].bad
        /\ marked[j].fail = queue[j].fail
  BY <1>4, <1>7, <1>8
<1>10. Ordered(marked)
  BY <1>9 DEF Kept, Ordered
<1>11. Shared(marked)
  <2>1. Stored(marked) = Stored(queue) /\ Stored(queue) \subseteq ItemIds
    BY <1>9 DEF Stored
  <2> QED
    BY <1>9, <2>1 DEF Kept, Shared
<1>12. Marked(marked)
  <2>1. Queued(marked) = Queued(queue) /\ With(marked, "playing") = With(queue, "playing")
        /\ Queued(queue) \subseteq ItemIds /\ With(queue, "playing") \subseteq ItemIds
        /\ i \notin With(queue, "playing")
    BY <1>2, <1>9 DEF Queued, With
  <2>2. \A j \in With(queue, "playing") : ~marked[j].next
    BY <1>4, <1>8, <2>1 DEF Kept, Marked
  <2>3. \A j \in Queued(queue) : j # i /\ marked[j].next => ~next /\ queue[j].next
    BY <1>4, <1>8, <2>1
  <2>4. marked[i].next = next
    BY <1>7, <1>8
  <2> QED
    BY <2>1, <2>2, <2>3, <2>4 DEF Kept, Marked
<1> QED
  BY <1>2, <1>8, <1>10, <1>11, <1>12, NormalizedRows, NormalizedProperties, SameRowsKeep

\* Deleting rows keeps all three.
LEMMA DroppedKeeps ==
  ASSUME NEW q, NEW r, \A i \in ItemIds : r[i] = q[i] \/ r[i] = Blank("gone")
  PROVE  /\ Ordered(q) => Ordered(r)
         /\ Marked(q) => Marked(r)
         /\ Shared(q) => Shared(r)
<1>1. Blank("gone").status = "gone" /\ Blank("gone").seq = 0
  BY DEF Blank
<1>2. /\ \A i \in Queued(r) : i \in Queued(q) /\ r[i] = q[i]
      /\ \A i \in With(r, "playing") : i \in With(q, "playing") /\ r[i] = q[i]
      /\ \A i \in Stored(r) : i \in Stored(q) /\ r[i] = q[i]
  BY <1>1 DEF Queued, With, Stored, Present
<1>3. Ordered(q) => Ordered(r)
  BY <1>1 DEF Ordered
<1>4. Marked(q) => Marked(r)
  BY <1>2 DEF Marked
<1>5. Shared(q) => Shared(r)
  BY <1>2 DEF Shared
<1> QED
  BY <1>3, <1>4, <1>5

\* A direct load retires the playing row without a place in the history.
LEMMA StopKeeps ==
  ASSUME Core, Kept, Stops
  PROVE  Ordered(queue') /\ Marked(queue') /\ Shared(queue')
<1>1. queue' = [i \in ItemIds |-> IF i \in With(queue, "playing")
                                  THEN [queue[i] EXCEPT !.status = "played"] ELSE queue[i]]
  BY DEF Stops, LoadMediaSource
<1>2. \A i \in ItemIds : queue[i] \in Row
  BY DEF Core, Rows
<1>3. ASSUME NEW i \in ItemIds
      PROVE  /\ queue'[i].seq = queue[i].seq /\ queue'[i].next = queue[i].next
             /\ queue'[i].src = queue[i].src /\ queue'[i].bad = queue[i].bad
             /\ queue'[i].fail = queue[i].fail
             /\ queue'[i].status = IF queue[i].status = "playing" THEN "played"
                                   ELSE queue[i].status
  BY <1>1, <1>2 DEF With, Row
<1>4. /\ Queued(queue') = Queued(queue) /\ With(queue', "playing") = {}
      /\ Stored(queue') = Stored(queue)
      /\ Queued(queue) \subseteq ItemIds /\ Stored(queue) \subseteq ItemIds
  BY <1>3 DEF Queued, With, Stored, Present
<1>5. Ordered(queue')
  BY <1>3 DEF Kept, Ordered
<1>6. Marked(queue')
  BY <1>3, <1>4 DEF Kept, Marked
<1>7. Shared(queue')
  BY <1>3, <1>4 DEF Kept, Shared
<1> QED
  BY <1>5, <1>6, <1>7

\* What an advance starts from: all three hold of it.
LEMMA OriginKeeps ==
  ASSUME Core, Kept, NEW q, Origin(q)
  PROVE  /\ Ordered(q) /\ Marked(q) /\ Shared(q)
         /\ q \in Rows /\ Distinct(q) /\ With(q, "playing") = With(queue, "playing")
         /\ \A i, j \in With(q, "playing") : i = j
<1>1. CASE q = queue
  BY <1>1, OnlyOnePlays DEF Core, Kept
<1>2. CASE q = MarkedFailed(TRUE) /\ Reported
  BY <1>2, OnlyOnePlays, MarkedKeeps, MarkedProperties DEF Core
<1> QED
  BY <1>1, <1>2 DEF Origin

LEMMA StartKeeps ==
  ASSUME Core, Kept, Starts
  PROVE  Ordered(queue') /\ Marked(queue') /\ Shared(queue') /\ Sourced'
<1>1. PICK q \in Rows, n \in ItemIds, url \in Urls \union {NoUrl},
           status \in PlaybackStatuses, result \in Outcomes, keep \in BOOLEAN :
             /\ Origin(q) /\ n \in Stored(q) /\ ~q[n].bad
             /\ url \in YouTube => url = q[n].src
             /\ Commit(q, n, url, status, result, keep)
  BY DEF Starts
<1> DEFINE A == Advanced(q, n, keep)
<1>2. Ordered(A) /\ Marked(A) /\ Shared(A)
  BY <1>1, OriginKeeps, AdvancedKeeps
<1>3. A \in Rows /\ A[n].src = q[n].src
  BY <1>1, OriginKeeps, AdvancedProperties, AdvancedRows
<1>4. queue' = Normalized(A) /\ session'.active = n /\ session'.url = url
  BY <1>1 DEF Commit, Core, Session
<1> HIDE DEF A
<1>5. Ordered(queue') /\ Marked(queue') /\ Shared(queue') /\ queue'[n].src = q[n].src
  <2>1. Normalized(A) \in Rows /\ \A i \in ItemIds : SameRow(Normalized(A)[i], A[i])
    BY <1>3, NormalizedProperties, NormalizedRows
  <2> QED
    BY <1>2, <1>3, <1>4, <2>1, SameRowsKeep DEF SameRow
<1>6. Sourced'
  BY <1>1, <1>4, <1>5 DEF Sourced
<1> QED
  BY <1>5, <1>6

\* An edit never touches the row being played.
LEMMA EditKeepsSource ==
  ASSUME Core, Kept, UNCHANGED session, NEW q,
         \A j \in ItemIds : queue[j].status = "playing" => q[j].src = queue[j].src,
         queue' = q
  PROVE  Sourced'
<1>1. session.active # NoItem => session.active \in ItemIds
                                 /\ queue[session.active].status = "playing"
  BY DEF Core, Session, ActiveIsPlaying, With
<1> QED
  BY <1>1 DEF Kept, Sourced

LEMMA EditKeeps ==
  ASSUME Core, Kept, Adds \/ Prioritises \/ Places \/ Clears
  PROVE  Ordered(queue') /\ Marked(queue') /\ Shared(queue') /\ Sourced'
<1>1. queue \in Rows
  BY DEF Core
<1>2. CASE Adds
  <2>1. UNCHANGED session
        /\ \A j \in ItemIds : queue[j].status = "playing" => queue'[j].src = queue[j].src
    <3>1. PICK m \in Members, i \in ItemIds, src \in Sources,
               next \in BOOLEAN, duplicate \in BOOLEAN, unavailable \in BOOLEAN :
                 AddQueueItem(m, i, src, next, duplicate, unavailable)
      BY <1>2 DEF Adds
    <3> DEFINE q == IF next THEN ShiftedForNext(queue, i) ELSE queue
    <3>2. q \in Rows /\ \A j \in ItemIds : q[j].src = queue[j].src
      BY <1>1, ShiftedProperties
    <3>3. /\ queue[i].status = "unused" /\ UNCHANGED session
          /\ \A j \in ItemIds : j # i => queue'[j] = q[j]
      BY <3>1, <3>2 DEF AddQueueItem, Edit, Rows
    <3> QED
      BY <3>2, <3>3
  <2> QED
    BY <1>2, <2>1, AddKeeps, EditKeepsSource
<1>3. CASE Prioritises
  <2>1. UNCHANGED session
        /\ \A j \in ItemIds : queue[j].status = "playing" => queue'[j].src = queue[j].src
    <3>1. PICK m \in Members, i \in ItemIds, next \in BOOLEAN : SetQueueItemPriority(m, i, next)
      BY <1>3 DEF Prioritises
    <3> DEFINE q == IF next THEN ShiftedForNext(queue, i) ELSE queue
               row == [q[i] EXCEPT !.next = next, !.pos = IF next THEN 0 ELSE @]
               marked == [q EXCEPT ![i].next = next, ![i].pos = IF next THEN 0 ELSE @]
    <3>2. q \in Rows /\ \A j \in ItemIds : q[j].src = queue[j].src
      BY <1>1, ShiftedProperties
    <3>3. UNCHANGED session /\ i \in Queued(queue) /\ queue' = Normalized(marked)
      BY <3>1 DEF SetQueueItemPriority, Edit
    <3>4. \A j \in ItemIds : j # i => marked[j] = q[j]
      BY <3>2 DEF Rows
    <3>5. \A j \in ItemIds : j # i => Normalized(marked)[j].src = marked[j].src
      <4>1. marked \in [ItemIds -> {marked[j] : j \in ItemIds}]
        BY <3>2 DEF Rows
      <4> HIDE DEF marked
      <4>2. ASSUME NEW j \in ItemIds, j # i, marked[j] \in Row
            PROVE  Normalized(marked)[j].src = marked[j].src
        BY <4>2 DEF Normalized, Row
      <4> QED
        BY <3>2, <3>4, <4>2 DEF Rows
    <3>6. queue[i].status # "playing"
      BY <3>3 DEF Queued, With
    <3> HIDE DEF marked, q
    <3> QED
      BY <3>2, <3>3, <3>4, <3>5, <3>6
  <2> QED
    BY <1>3, <2>1, PriorityKeeps, EditKeepsSource
<1>4. CASE Places
  <2>1. PICK i \in Queued(queue), p \in Nat : Edit(Placed(queue, i, p))
    BY <1>4 DEF Places
  <2>2. /\ queue' \in Rows /\ UNCHANGED session
        /\ \A j \in ItemIds : SameRow(queue'[j], queue[j])
    BY <1>1, <2>1, PlacedRows, PlacedProperties DEF Edit, Core
  <2> QED
    BY <1>1, <2>2, SameRowsKeep, EditKeepsSource DEF Kept, SameRow
<1>5. CASE Clears
  <2>1. UNCHANGED session
        /\ queue' = [i \in ItemIds |-> IF i \in Queued(queue) THEN Blank("gone") ELSE queue[i]]
    BY <1>5 DEF Clears, ClearQueue, Edit
  <2>2. \A i \in ItemIds : queue'[i] = queue[i] \/ queue'[i] = Blank("gone")
    BY <2>1
  <2>3. \A i \in ItemIds : queue[i].status = "playing" => queue'[i] = queue[i]
    BY <2>1 DEF Queued, With
  <2> QED
    BY <2>1, <2>2, <2>3, DroppedKeeps, EditKeepsSource DEF Kept
<1> QED
  BY <1>2, <1>3, <1>4, <1>5

LEMMA RemoveKeeps ==
  ASSUME Core, Kept, Removes
  PROVE  Ordered(queue') /\ Marked(queue') /\ Shared(queue') /\ Sourced'
<1>1. PICK m \in Members, i \in ItemIds : RemoveQueueItem(m, i)
  BY DEF Removes
<1> DEFINE r == [queue EXCEPT ![i] = Blank("gone")]
<1>2. queue \in Rows /\ session \in Session
  BY DEF Core
<1>3. r \in Rows /\ \A j \in ItemIds : r[j] = IF j = i THEN Blank("gone") ELSE queue[j]
  BY <1>2, BlankRow DEF Rows
<1>4. queue' = Normalized(r)
  BY <1>1 DEF RemoveQueueItem
<1> HIDE DEF r
<1>5. Ordered(r) /\ Marked(r) /\ Shared(r)
  BY <1>3, DroppedKeeps DEF Kept
<1>6. Normalized(r) \in Rows /\ \A j \in ItemIds : SameRow(Normalized(r)[j], r[j])
  BY <1>3, NormalizedProperties, NormalizedRows
<1>7. Ordered(queue') /\ Marked(queue') /\ Shared(queue')
  BY <1>3, <1>4, <1>5, <1>6, SameRowsKeep
<1>8. CASE session.active = i
  <2>1. session'.active = NoItem
    BY <1>1, <1>2, <1>8 DEF RemoveQueueItem, Session
  <2> QED
    BY <1>7, <2>1 DEF Sourced
<1>9. CASE session.active # i
  <2>1. UNCHANGED session
    BY <1>1, <1>9 DEF RemoveQueueItem
  <2>2. session.active # NoItem => queue'[session.active].src = queue[session.active].src
    BY <1>2, <1>3, <1>4, <1>6, <1>9 DEF Session, SameRow
  <2> QED
    BY <1>7, <2>1, <2>2 DEF Kept, Sourced
<1> QED
  BY <1>8, <1>9

\* Clients report failures of YouTube sources only.
LEMMA ReportsStayYouTube ==
  ASSUME Around, Kept, [Next]_vars
  PROVE  ReportsAreYouTube'
<1>1. pending \in [Members -> Command \union {NoCommand}] /\ NoCommand.op = "none"
  BY DEF Around, NoCommand
<1>2. ASSUME UNCHANGED pending PROVE ReportsAreYouTube'
  BY <1>2 DEF Kept, ReportsAreYouTube
<1>3. ASSUME NEW m \in Members, pending' = [pending EXCEPT ![m] = NoCommand]
      PROVE  ReportsAreYouTube'
  BY <1>1, <1>3 DEF Kept, ReportsAreYouTube
<1>4. ASSUME NEW m \in Members, SendCommand(m) PROVE ReportsAreYouTube'
  <2>1. ASSUME NEW command, Send(m, command),
               command.op = "fail" => command.url \in YouTube
        PROVE  ReportsAreYouTube'
    BY <1>1, <2>1 DEF Send, Kept, ReportsAreYouTube
  <2>2. \A op, next, auto, permanent :
          LET command == Snapshot(op, next, auto, permanent)
          IN  command.op = op /\ command.url = session.url
    BY DEF Snapshot
  <2>3. \A next, auto : AdvanceOp(next, auto) # "fail"
    BY DEF AdvanceOp
  <2>4. ASSUME NEW auto \in BOOLEAN, SendAdvance(m, auto) PROVE ReportsAreYouTube'
    <3>1. PICK n : Send(m, Snapshot(AdvanceOp(n, auto), n, auto, FALSE))
      BY <2>4 DEF SendAdvance
    <3> DEFINE op == AdvanceOp(n, auto)
               command == Snapshot(op, n, auto, FALSE)
    <3>2. op # "fail"
      BY <2>3
    <3> HIDE DEF op
    <3>3. command.op # "fail"
      BY <2>2, <3>2
    <3>4. Send(m, command)
      BY <3>1 DEF op
    <3> HIDE DEF command
    <3> QED
      BY <2>1, <3>3, <3>4
  <2>5. ASSUME SendStart(m) PROVE ReportsAreYouTube'
    BY <2>1, <2>2, <2>5 DEF SendStart
  <2>6. ASSUME NEW auto \in BOOLEAN, NEW permanent \in BOOLEAN,
               SendFailure(m, auto, permanent)
        PROVE  ReportsAreYouTube'
    BY <2>1, <2>2, <2>6 DEF SendFailure
  <2> QED
    BY <1>4, <2>4, <2>5, <2>6 DEF SendCommand
<1>5. ASSUME NEW m \in Members, EditQueue(m) PROVE UNCHANGED pending
  BY <1>5 DEF EditQueue, AddQueueItem, SetQueueItemPriority, MoveQueueItem,
              MoveQueueItemRelative, RemoveQueueItem, ClearQueue, Edit
<1>6. ASSUME NEW m \in Members, ControlPlayback(m) PROVE UNCHANGED pending
  BY <1>6 DEF ControlPlayback, SetQueueMode, SetQueueAutoplay, LoadMediaSource,
              SetPlaybackState, PlayQueueItem, PlayUploadedQueueItem
<1> QED
  BY <1>2, <1>3, <1>4, <1>5, <1>6
     DEF Next, Handle, LoseCommand, ChangeRights, Tick, ForgetFailures, vars

LEMMA InitKept == Init => Kept
<1> SUFFICES ASSUME Init PROVE Kept
  OBVIOUS
<1>1. \A i \in ItemIds : queue[i].status = "unused" /\ queue[i].seq = 0
  BY DEF Init, Blank
<1>2. Ordered(queue) /\ Marked(queue) /\ Shared(queue)
  BY <1>1 DEF Ordered, Marked, Shared, Queued, With, Stored, Present
<1>3. Sourced /\ ReportsAreYouTube
  BY DEF Init, Sourced, ReportsAreYouTube, NoCommand
<1> QED
  BY <1>2, <1>3 DEF Kept

LEMMA NextKeeps == Core /\ Around /\ Kept /\ [Next]_vars => Kept'
<1> SUFFICES ASSUME Core, Around, Kept, [Next]_vars PROVE Kept'
  OBVIOUS
<1>0. SUFFICES Ordered(queue') /\ Marked(queue') /\ Shared(queue') /\ Sourced'
  <2>1. ASSUME Ordered(queue'), Marked(queue'), Shared(queue')
        PROVE  Ordered(queue)' /\ Marked(queue)' /\ Shared(queue)'
    BY <2>1 DEF Ordered, Marked, Shared, Queued, With, Stored
  <2> QED
    BY <2>1, ReportsStayYouTube DEF Kept
<1>1. ASSUME queue' = queue, session'.active = session.active, session'.url = session.url
      PROVE  Ordered(queue') /\ Marked(queue') /\ Shared(queue') /\ Sourced'
  BY <1>1 DEF Kept, Sourced
<1>2. CASE Rests
  BY <1>1, <1>2 DEF Rests
<1>3. CASE Updates
  <2>1. session'.active = session.active /\ session'.url = session.url /\ queue' = queue
    BY <1>3 DEF Updates, PlaybackUpdate, Core, Session
  <2> QED
    BY <1>1, <2>1
<1>4. CASE Marks
  <2>1. PICK permanent \in BOOLEAN : Reported /\ queue' = MarkedFailed(permanent)
    BY <1>4 DEF Marks
  <2>2. session'.active = session.active /\ session'.url = session.url
    BY <1>4 DEF Marks, Core, Session
  <2>3. \A i \in ItemIds : queue'[i].src = queue[i].src
    BY <2>1, MarkedRows DEF Core
  <2>4. session.active # NoItem => session.active \in ItemIds
    BY DEF Core, Session
  <2>5. Sourced'
    BY <2>2, <2>3, <2>4 DEF Kept, Sourced
  <2> QED
    BY <2>1, <2>5, MarkedKeeps
<1>5. CASE Stops
  <2>1. session'.active = NoItem
    BY <1>5 DEF Stops, LoadMediaSource, Core, Session
  <2>2. Sourced'
    BY <2>1 DEF Sourced
  <2> QED
    BY <1>5, <2>2, StopKeeps
<1> QED
  BY <1>2, <1>3, <1>4, <1>5, Kinds, StartKeeps, EditKeeps, RemoveKeeps

LEMMA KeptInvariant == Spec => []Kept
BY InitKept, NextKeeps, CoreInvariant, PTL DEF Spec

\* No two rows ever share a played_sequence, and only played rows have one, whatever is
\* replayed out of the history.  Rows that a direct load displaced have none.
THEOREM HistoryStaysOrdered == Spec => []HistoryOrdered
<1>1. Core /\ Kept => HistoryOrdered
  BY DEF Kept, Ordered, HistoryOrdered
<1> QED
  BY <1>1, CoreInvariant, KeptInvariant, PTL

\* At most one upcoming row is ever marked Play Next.
THEOREM OnePlaysNext == Spec => []OnePlayNext
<1>1. Kept => OnePlayNext
  BY DEF Kept, Marked, OnePlayNext
<1> QED
  BY <1>1, KeptInvariant, PTL

\* As long as a stored row records that its source failed for good, every stored row of
\* that source is unavailable, rows that were added meanwhile included.  Nothing is said
\* of a source whose last record a transient report has overwritten.
THEOREM RecordedProblemsStayShared == Spec => []RecordedProblemsAreShared
<1>1. Kept => RecordedProblemsAreShared
  BY DEF Kept, Shared, RecordedProblemsAreShared
<1> QED
  BY <1>1, KeptInvariant, PTL

----------------------------------------------------------------------------
(* Occurrences and commands.                                               *)

\* What an advance makes of the ledger: the open occurrence gets the outcome, and
\* the next identifier is opened or not.
LEMMA CommitCloses ==
  ASSUME Core, NEW q, NEW n \in ItemIds, NEW url, NEW status, NEW result \in Outcomes,
         NEW keep, Commit(q, n, url, status, result, keep), NEW o \in OccurrenceIds
  PROVE  /\ o = ledger.open.id => ledger'.outcome[o] = result
         /\ o # ledger.open.id /\ ledger.outcome[o] # "none" =>
              ledger'.outcome[o] = ledger.outcome[o]
<1> DEFINE closed == Finish(ledger, result)
<1>1. ledger' = Begin(closed, n) \/ ledger' = closed
  BY DEF Commit
<1>2. /\ closed.open.id = 0 /\ closed.begun = ledger.begun
      /\ closed.outcome[o] = IF o = ledger.open.id THEN result ELSE ledger.outcome[o]
  BY DEF Finish, NoOccurrence
<1>3. /\ o \in Nat /\ o # 0 /\ ledger.begun \in Nat /\ ledger.open.id \in Nat
      /\ ledger.open.id <= ledger.begun
      /\ ledger.outcome[o] # "none" /\ o # ledger.open.id => o <= ledger.begun
  BY BoundsAssumption DEF Core, LedgerSound, Ledger, OccurrenceIds
<1>4. CASE ledger' = closed
  BY <1>2, <1>4
<1>5. CASE ledger' = Begin(closed, n)
  <2>1. ledger'.outcome[o] = IF o = closed.begun + 1 THEN "open"
                             ELSE IF o = closed.open.id THEN "replaced"
                             ELSE closed.outcome[o]
    BY <1>5 DEF Begin
  <2> HIDE DEF closed
  <2> QED
    BY <1>2, <1>3, <2>1
<1> QED
  BY <1>1, <1>4, <1>5

\* An outcome once recorded never changes.
THEOREM OutcomesStayFinal == Spec => OutcomesAreFinal
<1> DEFINE Final == \A o \in OccurrenceIds :
             ledger.outcome[o] \in Outcomes => ledger'.outcome[o] = ledger.outcome[o]
<1>1. ASSUME Core, Around, [Next]_vars PROVE Final
  <2>1. SUFFICES ASSUME NEW o \in OccurrenceIds, ledger.outcome[o] \in Outcomes
                 PROVE  ledger'.outcome[o] = ledger.outcome[o]
    OBVIOUS
  <2>2. /\ o \in Nat /\ ledger.begun \in Nat /\ ledger.open.id \in Nat
        /\ o <= ledger.begun /\ o # ledger.open.id /\ ledger.outcome[o] # "none"
    BY <1>1, <2>1, BoundsAssumption DEF Core, LedgerSound, Ledger, OccurrenceIds, Outcomes
  <2>3. CASE UNCHANGED ledger
    BY <2>3
  <2>4. CASE Starts
    BY <1>1, <2>2, <2>4, CommitCloses DEF Starts
  <2>5. CASE Updates
    <3>1. ledger' = ledger \/ ledger' = Begin(ledger, session.active)
      BY <2>5 DEF Updates, PlaybackUpdate, BeginIfMissing
    <3> QED
      BY <2>2, <3>1 DEF Begin
  <2>6. CASE Removes
    <3>1. ledger' = ledger \/ ledger' = Finish(ledger, "skipped")
      BY <2>6 DEF Removes, RemoveQueueItem
    <3> QED
      BY <2>2, <3>1 DEF Finish
  <2> QED
    BY <1>1, <2>3, <2>4, <2>5, <2>6, Kinds
       DEF Rests, Marks, Adds, Prioritises, Places, Clears, Stops, AddQueueItem,
           SetQueueItemPriority, ClearQueue, LoadMediaSource, Edit
<1> QED
  BY <1>1, CoreInvariant, PTL DEF Spec, OutcomesAreFinal

\* A command leaves flight when it is handled or lost, never otherwise.
LEMMA LeavesFlight ==
  ASSUME Around, [Next]_vars, NEW m \in InFlight, pending'[m] = NoCommand
  PROVE  Handle(m) \/ LoseCommand(m)
<1>1. m \in Members /\ pending[m] # NoCommand
  BY DEF InFlight
<1>2. pending' # pending
  BY <1>1
<1>3. ASSUME NEW k \in Members, pending' = [pending EXCEPT ![k] = NoCommand] PROVE k = m
  BY <1>1, <1>3 DEF Around
<1>4. ASSUME NEW k \in Members, SendCommand(k) PROVE FALSE
  <2>1. PICK command : k \notin InFlight /\ pending' = [pending EXCEPT ![k] = command]
    BY <1>4 DEF SendCommand, SendAdvance, SendStart, SendFailure, Send
  <2> QED
    BY <1>1, <2>1 DEF Around, InFlight
<1>5. ASSUME NEW k \in Members, EditQueue(k) PROVE UNCHANGED pending
  BY <1>5 DEF EditQueue, AddQueueItem, SetQueueItemPriority, MoveQueueItem,
              MoveQueueItemRelative, RemoveQueueItem, ClearQueue, Edit
<1>6. ASSUME NEW k \in Members, ControlPlayback(k) PROVE UNCHANGED pending
  BY <1>6 DEF ControlPlayback, SetQueueMode, SetQueueAutoplay, LoadMediaSource,
              SetPlaybackState, PlayQueueItem, PlayUploadedQueueItem
<1>7. ASSUME NEW k \in Members, Handle(k) \/ LoseCommand(k) PROVE k = m
  BY <1>3, <1>7 DEF Handle, LoseCommand
<1> QED
  BY <1>2, <1>4, <1>5, <1>6, <1>7 DEF Next, ChangeRights, Tick, ForgetFailures, vars

\* A command whose sender lost the playback right changes nothing.
THEOREM RevokedChangeNothing == Spec => RevokedCommandsChangeNothing
<1> DEFINE Harmless == \A m \in InFlight :
             (pending'[m] = NoCommand /\ ~May(m, "playback"))
               => UNCHANGED <<queue, session, ledger>>
<1>1. ASSUME Around, [Next]_vars PROVE Harmless
  <2>1. SUFFICES ASSUME NEW m \in InFlight, pending'[m] = NoCommand, ~May(m, "playback")
                 PROVE  UNCHANGED <<queue, session, ledger>>
    OBVIOUS
  <2>2. CASE Handle(m)
    BY <2>1, <2>2 DEF Handle, AdvanceQueueItem, AdvanceUploadedQueueItem,
                      PrepareYoutubeAutoplay, StartPreparedYoutube, ReportMediaFailure,
                      CanAdvance
  <2>3. CASE LoseCommand(m)
    BY <2>3 DEF LoseCommand
  <2> QED
    BY <1>1, <2>1, <2>2, <2>3, LeavesFlight
<1> QED
  BY <1>1, CoreInvariant, PTL DEF Spec, RevokedCommandsChangeNothing

\* An advance that names an occurrence closes that occurrence and no other.
THEOREM OneAdvancePerOccurrence == Spec => AdvancesOncePerOccurrence
<1> DEFINE Once == \A m \in InFlight :
             (/\ pending'[m] = NoCommand /\ session'.active # session.active
              /\ pending[m].op # "fail" /\ pending[m].occ # 0) =>
               /\ ledger.outcome[pending[m].occ] = "open"
               /\ ledger'.outcome[pending[m].occ] \in Outcomes
<1>1. ASSUME Core, Around, [Next]_vars PROVE Once
  <2>1. SUFFICES ASSUME NEW m \in InFlight, pending'[m] = NoCommand,
                        session'.active # session.active,
                        pending[m].op # "fail", pending[m].occ # 0
                 PROVE  /\ ledger.outcome[pending[m].occ] = "open"
                        /\ ledger'.outcome[pending[m].occ] \in Outcomes
    OBVIOUS
  <2> DEFINE c == pending[m]
  <2>2. Handle(m) /\ m \in Members
    BY <1>1, <2>1, LeavesFlight DEF LoseCommand, InFlight
  <2>3. ASSUME NEW n \in ItemIds, NEW url, NEW status, NEW nearEnd, NEW auto,
               session.occ = c.occ,
               Commit(queue, n, url, status, Classified(auto, nearEnd), FALSE)
        PROVE  /\ ledger.outcome[c.occ] = "open"
               /\ ledger'.outcome[c.occ] \in Outcomes
    <3>1. c.occ = ledger.open.id /\ c.occ \in OccurrenceIds
      <4>1. session.occ = ledger.open.id
        BY <1>1 DEF Core
      <4>2. /\ ledger.open.id \in Nat /\ ledger.open.id <= ledger.begun
            /\ ledger.begun \in Nat /\ ledger.begun <= MaxOccurrence
        BY <1>1 DEF Core, LedgerSound, Ledger
      <4> QED
        BY <2>1, <2>3, <4>1, <4>2, BoundsAssumption DEF OccurrenceIds
    <3>2. ledger.outcome[c.occ] = "open"
      BY <1>1, <3>1 DEF Core, LedgerSound
    <3>3. ledger'.outcome[c.occ] = Classified(auto, nearEnd)
      BY <1>1, <2>3, <3>1, ClassifiedOutcome, CommitCloses
    <3> QED
      BY <3>2, <3>3, ClassifiedOutcome
  <2>4. \A n \in Successors : n \in ItemIds
    BY Selected DEF Successors
  <2>5. CASE AdvanceQueueItem(m)
    BY <2>1, <2>3, <2>5 DEF AdvanceQueueItem, ExpectationsHold
  <2>6. CASE AdvanceUploadedQueueItem(m)
    BY <2>1, <2>3, <2>4, <2>6 DEF AdvanceUploadedQueueItem, CanAdvance, ExpectationsHold
  <2>7. CASE PrepareYoutubeAutoplay(m)
    BY <2>1, <2>3, <2>4, <2>7 DEF PrepareYoutubeAutoplay, CanAdvance, ExactlyExpected
  <2>8. CASE StartPreparedYoutube(m)
    <3>1. session' = session \/ \E pos : PlaybackUpdate("playing", pos)
      BY <2>8 DEF StartPreparedYoutube
    <3>2. session'.active = session.active
      BY <1>1, <3>1 DEF PlaybackUpdate, Core, Session
    <3> QED
      BY <2>1, <3>2
  <2>9. CASE ReportMediaFailure(m)
    BY <2>1, <2>9 DEF ReportMediaFailure
  <2> QED
    BY <2>2, <2>5, <2>6, <2>7, <2>8, <2>9 DEF Handle
<1> QED
  BY <1>1, CoreInvariant, PTL DEF Spec, AdvancesOncePerOccurrence

----------------------------------------------------------------------------
(* The order of the queue, and what an advance does with it.               *)

\* The queue an advance starts from has the order, marks and history of the room's.
LEMMA OriginRows ==
  ASSUME Core, NEW q, Origin(q)
  PROVE  /\ q \in Rows /\ Distinct(q) /\ With(q, "playing") = With(queue, "playing")
         /\ \A i \in ItemIds : /\ q[i].status = queue[i].status /\ q[i].pos = queue[i].pos
                               /\ q[i].next = queue[i].next /\ q[i].seq = queue[i].seq
<1>1. CASE q = queue
  BY <1>1 DEF Core
<1>2. CASE q = MarkedFailed(TRUE)
  BY <1>2, MarkedRows, MarkedProperties DEF Core
<1> QED
  BY <1>1, <1>2 DEF Origin

\* An advance in terms of the queue operators.
LEMMA StartRows ==
  ASSUME Core, Starts
  PROVE  \E q \in Rows, n \in ItemIds, keep \in BOOLEAN :
           /\ Origin(q) /\ ~q[n].bad /\ session'.active = n
           /\ Advanced(q, n, keep) \in Rows
           /\ queue' = Normalized(Advanced(q, n, keep))
<1>1. PICK q \in Rows, n \in ItemIds, url \in Urls \union {NoUrl},
           status \in PlaybackStatuses, result \in Outcomes, keep \in BOOLEAN :
             /\ Origin(q) /\ n \in Stored(q) /\ ~q[n].bad
             /\ Commit(q, n, url, status, result, keep)
  BY DEF Starts
<1>2. \A i, j \in With(q, "playing") : i = j
  BY <1>1, OriginRows, OnlyOnePlays DEF Core
<1>3. Advanced(q, n, keep) \in Rows
  BY <1>1, <1>2, OriginRows, AdvancedProperties
<1>4. queue' = Normalized(Advanced(q, n, keep)) /\ session'.active = n
  BY <1>1 DEF Commit, Core, Session
<1> QED
  BY <1>1, <1>3, <1>4

\* The row in position 0 is the head.
LEMMA ZeroIsHead ==
  ASSUME NEW q \in Rows, NEW i, q[i].pos = 0
  PROVE  Rank(q, Queued(q), i) = 0
<1>1. \A j \in Queued(q) : q[j].pos \in Nat
  BY DEF Rows, Row, Queued, With
<1> QED
  BY <1>1, HeadRank

\* What the kinds of steps other than an advance make of the queue.
LEMMA AddRows ==
  ASSUME Core, Adds
  PROVE  \E i \in ItemIds, next \in BOOLEAN :
           /\ i \notin Queued(queue)
           /\ queue'[i].next = next /\ (next => queue'[i].pos = 0)
           /\ \A j \in ItemIds \ {i} :
                /\ queue'[j].status = queue[j].status
                /\ queue'[j].next => queue[j].next
                /\ j \in Queued(queue) =>
                     queue'[j].pos = IF next THEN queue[j].pos + 1 ELSE queue[j].pos
<1>1. PICK m \in Members, i \in ItemIds, src \in Sources,
           next \in BOOLEAN, duplicate \in BOOLEAN, unavailable \in BOOLEAN :
             AddQueueItem(m, i, src, next, duplicate, unavailable)
  BY DEF Adds
<1> DEFINE q == IF next THEN ShiftedForNext(queue, i) ELSE queue
<1>2. queue \in Rows
  BY DEF Core
<1>3. /\ q \in Rows
      /\ \A j \in ItemIds :
           /\ q[j].status = queue[j].status
           /\ q[j].next => queue[j].next
           /\ j \in Queued(queue) \ {i} =>
                q[j].pos = IF next THEN queue[j].pos + 1 ELSE queue[j].pos
  BY <1>2, ShiftedRows, ShiftedProperties
<1>4. /\ queue[i].status = "unused"
      /\ \A j \in ItemIds \ {i} : queue'[j] = q[j]
      /\ queue'[i].next = next /\ (next => queue'[i].pos = 0)
  BY <1>1, <1>3 DEF AddQueueItem, Edit, Rows
<1>5. i \notin Queued(queue)
  BY <1>4 DEF Queued, With
<1> HIDE DEF q
<1> QED
  BY <1>3, <1>4, <1>5

LEMMA PriorityRows ==
  ASSUME Core, Prioritises
  PROVE  \E i \in Queued(queue), next \in BOOLEAN, marked \in Rows :
           /\ queue' = Normalized(marked)
           /\ marked[i].next = next /\ (next => marked[i].pos = 0)
           /\ \A j \in ItemIds :
                /\ marked[j].status = queue[j].status
                /\ j # i => (marked[j].next => queue[j].next)
                /\ j \in Queued(queue) \ {i} =>
                     marked[j].pos = IF next THEN queue[j].pos + 1 ELSE queue[j].pos
<1>1. PICK m \in Members, i \in ItemIds, next \in BOOLEAN : SetQueueItemPriority(m, i, next)
  BY DEF Prioritises
<1> DEFINE q == IF next THEN ShiftedForNext(queue, i) ELSE queue
           place == IF next THEN 0 ELSE q[i].pos
           row == [q[i] EXCEPT !.next = next, !.pos = place]
           marked == [q EXCEPT ![i].next = next, ![i].pos = IF next THEN 0 ELSE @]
<1>2. i \in Queued(queue) /\ queue' = Normalized(marked)
  BY <1>1 DEF SetQueueItemPriority, Edit
<1>3. queue \in Rows
  BY DEF Core
<1>4. /\ q \in Rows
      /\ \A j \in ItemIds :
           /\ q[j].status = queue[j].status
           /\ q[j].next => queue[j].next
           /\ j \in Queued(queue) \ {i} =>
                q[j].pos = IF next THEN queue[j].pos + 1 ELSE queue[j].pos
  BY <1>3, ShiftedRows, ShiftedProperties
<1>5. q[i] \in Row /\ place \in Nat
  BY <1>4 DEF Rows, Row
<1>6. marked = [q EXCEPT ![i] = row]
  BY <1>4 DEF Rows, Row
<1>7. next => place = 0
  OBVIOUS
<1> HIDE DEF q, place, marked
<1>8. row \in Row /\ row.status = q[i].status /\ row.next = next /\ row.pos = place
  BY <1>5 DEF Row
<1> HIDE DEF row
<1>9. /\ marked \in Rows /\ marked[i] = row
      /\ \A j \in ItemIds \ {i} : marked[j] = q[j]
  BY <1>4, <1>6, <1>8 DEF Rows
<1>10. \A j \in ItemIds :
         /\ marked[j].status = queue[j].status
         /\ j # i => (marked[j].next => queue[j].next)
         /\ j \in Queued(queue) \ {i} =>
              marked[j].pos = IF next THEN queue[j].pos + 1 ELSE queue[j].pos
  BY <1>4, <1>8, <1>9
<1> QED
  BY <1>2, <1>7, <1>8, <1>9, <1>10

LEMMA RemoveRows ==
  ASSUME Core, Removes
  PROVE  \E i \in ItemIds, r \in Rows :
           /\ queue' = Normalized(r)
           /\ r[i] = Blank("gone") /\ \A j \in ItemIds \ {i} : r[j] = queue[j]
<1>1. PICK m \in Members, i \in ItemIds : RemoveQueueItem(m, i)
  BY DEF Removes
<1> DEFINE r == [queue EXCEPT ![i] = Blank("gone")]
<1>2. r \in Rows /\ r[i] = Blank("gone") /\ \A j \in ItemIds \ {i} : r[j] = queue[j]
  BY BlankRow DEF Core, Rows
<1>3. queue' = Normalized(r)
  BY <1>1 DEF RemoveQueueItem
<1> QED
  BY <1>2, <1>3

\* Steps that keep a row, all but its status, or drop it.
LEMMA QuietRows ==
  ASSUME Core, Rests \/ Updates \/ Marks \/ Clears \/ Stops
  PROVE  \A i \in Queued(queue') : /\ i \in Queued(queue)
                                   /\ queue'[i].pos = queue[i].pos
                                   /\ queue'[i].next = queue[i].next
<1>1. queue \in Rows
  BY DEF Core
<1>2. CASE Rests \/ Updates
  BY <1>2 DEF Rests, Updates, PlaybackUpdate
<1>3. CASE Marks
  <2>1. PICK permanent \in BOOLEAN : queue' = MarkedFailed(permanent)
    BY <1>3 DEF Marks
  <2> QED
    BY <1>1, <2>1, MarkedRows DEF Queued, With
<1>4. CASE Clears
  <2>1. queue' = [i \in ItemIds |-> IF i \in Queued(queue) THEN Blank("gone") ELSE queue[i]]
    BY <1>4 DEF Clears, ClearQueue, Edit
  <2> QED
    BY <2>1, BlankRow DEF Queued, With
<1>5. CASE Stops
  <2>1. queue' = [i \in ItemIds |-> IF i \in With(queue, "playing")
                                    THEN [queue[i] EXCEPT !.status = "played"] ELSE queue[i]]
    BY <1>5 DEF Stops, LoadMediaSource
  <2>2. \A i \in ItemIds : queue[i] \in Row
    BY <1>1 DEF Rows
  <2>3. \A i \in ItemIds : i \in With(queue, "playing") => queue'[i].status = "played"
    BY <2>1, <2>2 DEF Row
  <2> QED
    BY <2>1, <2>3 DEF Queued, With
<1> QED
  BY <1>2, <1>3, <1>4, <1>5

\* No step starts an item that is unavailable.
THEOREM UnavailableNeverStarts == Spec => NeverStartsUnavailable
<1> DEFINE Fit == session'.active # session.active /\ session'.active # NoItem
                    => ~queue'[session'.active].bad
<1>1. ASSUME Core, Around, [Next]_vars PROVE Fit
  <2>1. CASE Starts
    <3>1. PICK q \in Rows, n \in ItemIds, keep \in BOOLEAN :
            /\ ~q[n].bad /\ session'.active = n /\ Advanced(q, n, keep) \in Rows
            /\ queue' = Normalized(Advanced(q, n, keep))
      BY <1>1, <2>1, StartRows
    <3> DEFINE A == Advanced(q, n, keep)
    <3>2. A[n].bad = q[n].bad
      BY AdvancedRows
    <3>3. Normalized(A)[n].bad = A[n].bad
      BY <3>1, NormalizedRows DEF SameRow
    <3> QED
      BY <3>1, <3>2, <3>3
  <2>2. CASE ~Starts
    <3>1. session'.active \in {session.active, NoItem}
      BY <1>1, <2>2, Kinds
         DEF Core, Session, Rests, Updates, PlaybackUpdate, Marks, Adds, Prioritises, Places,
             Removes, Clears, Stops, AddQueueItem, SetQueueItemPriority, RemoveQueueItem,
             ClearQueue, LoadMediaSource, Edit
    <3> QED
      BY <3>1
  <2> QED
    BY <2>1, <2>2
<1> QED
  BY <1>1, CoreInvariant, PTL DEF Spec, NeverStartsUnavailable

\* The item an advance displaces is the newest of the history or the queue's head.
THEOREM DisplacedIsKept == Spec => DisplacedItemIsKept
<1> DEFINE Kept1 == \A i \in ItemIds :
             (session.active = i /\ session'.active \notin {i, NoItem}) =>
               \/ queue'[i].status = "played"
                  /\ \A j \in ItemIds \ {i} : queue'[j].seq < queue'[i].seq
               \/ i \in Queued(queue') /\ Rank(queue', Queued(queue'), i) = 0
<1>1. ASSUME Core, Around, [Next]_vars, Core' PROVE Kept1
  <2>1. SUFFICES ASSUME NEW i \in ItemIds, session.active = i,
                        session'.active \notin {i, NoItem}
                 PROVE  \/ queue'[i].status = "played"
                           /\ \A j \in ItemIds \ {i} : queue'[j].seq < queue'[i].seq
                        \/ i \in Queued(queue') /\ Rank(queue', Queued(queue'), i) = 0
    OBVIOUS
  <2>2. Starts
    <3>1. ASSUME ~Starts PROVE session'.active \in {session.active, NoItem}
      BY <1>1, <3>1, Kinds
         DEF Core, Session, Rests, Updates, PlaybackUpdate, Marks, Adds, Prioritises, Places,
             Removes, Clears, Stops, AddQueueItem, SetQueueItemPriority, RemoveQueueItem,
             ClearQueue, LoadMediaSource, Edit
    <3> QED
      BY <2>1, <3>1
  <2>3. PICK q \in Rows, n \in ItemIds, keep \in BOOLEAN :
          /\ Origin(q) /\ session'.active = n /\ Advanced(q, n, keep) \in Rows
          /\ queue' = Normalized(Advanced(q, n, keep))
    BY <1>1, <2>2, StartRows
  <2> DEFINE A == Advanced(q, n, keep)
             current == With(q, "playing") \ {n}
  <2>4. current = {i} /\ n # i
    <3>1. With(q, "playing") = {i}
      BY <1>1, <2>1, <2>3, ItemsAssumption, OriginRows DEF Core, ActiveIsPlaying
    <3> QED
      BY <2>1, <2>3, <3>1
  <2>5. /\ A[n].seq = 0
        /\ \/ A[i].status = "queued" /\ A[i].pos = 0
           \/ A[i].status = "played" /\ A[i].seq = LastSequence(q) + 1
        /\ \A j \in ItemIds : j # i /\ j # n => A[j].seq = q[j].seq
    BY <2>4, AdvancedRows DEF SameRow
  <2> HIDE DEF A
  <2>6. A \in Rows /\ queue' = Normalized(A)
    BY <2>3 DEF A
  <2>7. /\ \A j \in ItemIds : queue'[j].status = A[j].status /\ queue'[j].seq = A[j].seq
        /\ queue' \in Rows
    BY <2>6, NormalizedRows, NormalizedProperties DEF SameRow
  <2>8. CASE A[i].status = "queued" /\ A[i].pos = 0
    <3>1. i \in Queued(A)
      BY <2>8 DEF Queued, With
    <3>2. \A j \in Queued(A) : A[j].pos \in Nat
      BY <2>6 DEF Rows, Row, Queued, With
    <3>3. queue'[i].pos = 0
      BY <2>6, <2>8, <3>1, <3>2, NormalizedRows
    <3>4. i \in Queued(queue')
      BY <2>7, <2>8 DEF Queued, With
    <3> QED
      BY <2>7, <3>3, <3>4, ZeroIsHead
  <2>9. CASE A[i].status = "played" /\ A[i].seq = LastSequence(q) + 1
    <3>1. /\ LastSequence(q) \in Nat
          /\ \A j \in ItemIds : q[j].seq \in Nat /\ q[j].seq <= LastSequence(q)
      BY LastSequenceProperties DEF Rows, Row
    <3>2. \A j \in ItemIds \ {i} : A[j].seq \in Nat /\ A[j].seq <= LastSequence(q)
      BY <2>5, <3>1
    <3>3. \A j \in ItemIds \ {i} : A[j].seq < A[i].seq
      BY <2>9, <3>1, <3>2
    <3> QED
      BY <2>7, <2>9, <3>3
  <2> QED
    BY <2>5, <2>8, <2>9
<1>2. Core /\ Around /\ [Next]_vars => Core'
  BY NextPreserves
<1> QED
  BY <1>1, <1>2, CoreInvariant, PTL DEF Spec, DisplacedItemIsKept

\* A row newly marked Play Next is the head of the queue.
THEOREM NewestNextHeads == Spec => NewestNextIsHead
<1> DEFINE Heads == \A i \in Queued(queue') :
             queue'[i].next /\ ~(i \in Queued(queue) /\ queue[i].next)
               => Rank(queue', Queued(queue'), i) = 0
<1>1. ASSUME Core, Around, [Next]_vars, Core' PROVE Heads
  <2>1. SUFFICES ASSUME NEW i \in Queued(queue'), queue'[i].next,
                        ~(i \in Queued(queue) /\ queue[i].next)
                 PROVE  queue'[i].pos = 0
    BY <1>1, ZeroIsHead DEF Core
  <2>2. i \in ItemIds /\ queue'[i].status = "queued"
    BY DEF Queued, With
  <2>3. CASE Rests \/ Updates \/ Marks \/ Clears \/ Stops
    BY <1>1, <2>1, <2>3, QuietRows
  <2>4. CASE Adds
    <3>1. PICK k \in ItemIds, next \in BOOLEAN :
            /\ queue'[k].next = next /\ (next => queue'[k].pos = 0)
            /\ \A j \in ItemIds \ {k} : /\ queue'[j].status = queue[j].status
                                        /\ queue'[j].next => queue[j].next
      BY <1>1, <2>4, AddRows
    <3>2. i = k
      BY <2>1, <2>2, <3>1 DEF Queued, With
    <3> QED
      BY <2>1, <3>1, <3>2
  <2>5. CASE Prioritises
    <3>1. PICK k \in Queued(queue), next \in BOOLEAN, marked \in Rows :
            /\ queue' = Normalized(marked)
            /\ marked[k].next = next /\ (next => marked[k].pos = 0)
            /\ \A j \in ItemIds : /\ marked[j].status = queue[j].status
                                  /\ j # k => (marked[j].next => queue[j].next)
      BY <1>1, <2>5, PriorityRows
    <3>2. SameRow(queue'[i], marked[i])
      BY <2>2, <3>1, NormalizedRows
    <3>3. i = k
      BY <2>1, <2>2, <3>1, <3>2 DEF SameRow, Queued, With
    <3>4. i \in Queued(marked) /\ marked[i].pos = 0
      BY <2>1, <2>2, <3>1, <3>2, <3>3 DEF SameRow, Queued, With
    <3>5. \A j \in Queued(marked) : marked[j].pos \in Nat
      BY DEF Rows, Row, Queued, With
    <3> QED
      BY <3>1, <3>4, <3>5, NormalizedRows
  <2>6. CASE Places
    <3>1. PICK k \in Queued(queue), p \in Nat : Edit(Placed(queue, k, p))
      BY <2>6 DEF Places
    <3>2. SameRow(queue'[i], queue[i])
      BY <1>1, <2>2, <3>1, PlacedRows DEF Edit, Core
    <3> QED
      BY <2>1, <2>2, <3>2 DEF SameRow, Queued, With
  <2>7. CASE Removes
    <3>1. PICK k \in ItemIds, r \in Rows :
            /\ queue' = Normalized(r)
            /\ r[k] = Blank("gone") /\ \A j \in ItemIds \ {k} : r[j] = queue[j]
      BY <1>1, <2>7, RemoveRows
    <3>2. SameRow(queue'[i], r[i])
      BY <2>2, <3>1, NormalizedRows
    <3>3. i # k
      BY <2>2, <3>1, <3>2, BlankRow DEF SameRow
    <3> QED
      BY <2>1, <2>2, <3>1, <3>2, <3>3 DEF SameRow, Queued, With
  <2>8. CASE Starts
    <3>1. PICK q \in Rows, n \in ItemIds, keep \in BOOLEAN :
            /\ Origin(q) /\ Advanced(q, n, keep) \in Rows
            /\ queue' = Normalized(Advanced(q, n, keep))
      BY <1>1, <2>8, StartRows
    <3> DEFINE A == Advanced(q, n, keep)
               current == With(q, "playing") \ {n}
    <3>2. SameRow(queue'[i], A[i])
      BY <2>2, <3>1, NormalizedRows
    <3>3. A[i].status = "queued" /\ A[i].next
      BY <2>1, <2>2, <3>2 DEF SameRow
    <3>4. i # n /\ i \notin current
      BY <3>3, AdvancedRows
    <3>5. SameRow(A[i], q[i])
      BY <2>2, <3>4, AdvancedRows
    <3>6. q[i].status = queue[i].status /\ q[i].next = queue[i].next
      BY <1>1, <2>2, <3>1, OriginRows
    <3> QED
      BY <2>1, <2>2, <3>3, <3>5, <3>6 DEF SameRow, Queued, With
  <2> QED
    BY <1>1, <2>3, <2>4, <2>5, <2>6, <2>7, <2>8, Kinds
<1>2. Core /\ Around /\ [Next]_vars => Core'
  BY NextPreserves
<1> QED
  BY <1>1, <1>2, CoreInvariant, PTL DEF Spec, NewestNextIsHead

\* A reducer reorders the queue by moving at most one row.
THEOREM OneMovesAtATime == Spec => OneItemMovesAtATime
<1> DEFINE Still(moved) == \A i, j \in (Queued(queue) \cap Queued(queue')) \ {moved} :
             queue[i].pos < queue[j].pos => queue'[i].pos < queue'[j].pos
           One == \E moved \in ItemIds \union {NoItem} : Still(moved)
<1>1. ASSUME Core, Around, [Next]_vars PROVE One
  <2>1. queue \in Rows /\ Queued(queue) \subseteq ItemIds
    BY <1>1 DEF Core, Queued, With
  <2>2. \A i \in Queued(queue) : queue[i].pos \in Nat
    BY <2>1 DEF Rows, Row
  <2>3. CASE Rests \/ Updates \/ Marks \/ Clears \/ Stops
    <3>1. Still(NoItem)
      BY <1>1, <2>3, QuietRows
    <3> QED
      BY <3>1
  <2>4. CASE Adds
    <3>1. PICK k \in ItemIds, next \in BOOLEAN :
            \A j \in ItemIds \ {k} : j \in Queued(queue) =>
              queue'[j].pos = IF next THEN queue[j].pos + 1 ELSE queue[j].pos
      BY <1>1, <2>4, AddRows
    <3>2. Still(k)
      BY <2>1, <2>2, <3>1
    <3> QED
      BY <3>2
  <2>5. CASE Prioritises
    <3>1. PICK k \in Queued(queue), next \in BOOLEAN, marked \in Rows :
            /\ queue' = Normalized(marked)
            /\ \A j \in ItemIds :
                 /\ marked[j].status = queue[j].status
                 /\ j \in Queued(queue) \ {k} =>
                      marked[j].pos = IF next THEN queue[j].pos + 1 ELSE queue[j].pos
      BY <1>1, <2>5, PriorityRows
    <3>2. Queued(marked) = Queued(queue)
      BY <3>1 DEF Queued, With
    <3>3. \A i, j \in Queued(queue) : marked[i].pos < marked[j].pos => queue'[i].pos < queue'[j].pos
      BY <3>1, <3>2, NormalizedRows
    <3>4. Still(k)
      BY <2>1, <2>2, <3>1, <3>3
    <3> QED
      BY <2>1, <3>4
  <2>6. CASE Places
    <3>1. PICK k \in Queued(queue), p \in Nat : Edit(Placed(queue, k, p))
      BY <2>6 DEF Places
    <3>2. \A i, j \in Queued(queue) \ {k} :
            queue[i].pos < queue[j].pos => queue'[i].pos < queue'[j].pos
      BY <2>1, <3>1, PlacedRows DEF Edit
    <3>3. Still(k)
      BY <3>2
    <3> QED
      BY <2>1, <3>3
  <2>7. CASE Removes
    <3>1. PICK k \in ItemIds, r \in Rows :
            /\ queue' = Normalized(r)
            /\ r[k] = Blank("gone") /\ \A j \in ItemIds \ {k} : r[j] = queue[j]
      BY <1>1, <2>7, RemoveRows
    <3>2. \A j \in Queued(queue) \ {k} : j \in Queued(r) /\ r[j].pos = queue[j].pos
      BY <2>1, <3>1 DEF Queued, With
    <3>3. Still(k)
      BY <3>1, <3>2, NormalizedRows
    <3> QED
      BY <3>3
  <2>8. CASE Starts
    <3>1. PICK q \in Rows, n \in ItemIds, keep \in BOOLEAN :
            /\ Origin(q) /\ Advanced(q, n, keep) \in Rows
            /\ queue' = Normalized(Advanced(q, n, keep))
      BY <1>1, <2>8, StartRows
    <3> DEFINE A == Advanced(q, n, keep)
               current == With(q, "playing") \ {n}
    <3>2. \A j \in ItemIds : q[j].status = queue[j].status /\ q[j].pos = queue[j].pos
      BY <1>1, <3>1, OriginRows
    <3>3. Queued(q) = Queued(queue) /\ \A j \in Queued(queue) : j \notin current
      BY <3>2 DEF Queued, With
    <3>4. PICK shift \in BOOLEAN :
            \A j \in ItemIds : j \notin current /\ j # n =>
              /\ SameRow(A[j], q[j])
              /\ j \in Queued(q) => A[j].pos = IF shift THEN q[j].pos + 1 ELSE q[j].pos
      <4> DEFINE returns == keep /\ q[n].status = "played" /\ current # {}
      <4>1. \A j \in ItemIds : j \notin current /\ j # n =>
              /\ SameRow(A[j], q[j])
              /\ j \in Queued(q) => A[j].pos = IF returns THEN q[j].pos + 1 ELSE q[j].pos
        BY AdvancedRows
      <4>2. returns \in BOOLEAN
        OBVIOUS
      <4> HIDE DEF returns, A, current
      <4> QED
        BY <4>1, <4>2
    <3>5. ASSUME NEW i \in Queued(queue), NEW j \in Queued(queue), i # n, j # n,
                 queue[i].pos < queue[j].pos
          PROVE  queue'[i].pos < queue'[j].pos
      <4>1. A[i].pos < A[j].pos
        BY <2>1, <2>2, <3>2, <3>3, <3>4, <3>5
      <4>2. i \in Queued(A) /\ j \in Queued(A)
        <5>1. \A k \in Queued(queue) : k # n => k \in Queued(A)
          BY <2>1, <3>3, <3>4 DEF SameRow, Queued, With
        <5> QED
          BY <3>5, <5>1
      <4> QED
        BY <3>1, <4>1, <4>2, NormalizedRows
    <3>6. Still(n)
      BY <3>5
    <3> QED
      BY <3>6
  <2> QED
    BY <1>1, <2>3, <2>4, <2>5, <2>6, <2>7, <2>8, Kinds
<1> QED
  BY <1>1, CoreInvariant, PTL DEF Spec, OneItemMovesAtATime
=============================================================================
