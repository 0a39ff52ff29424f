---------------------------- MODULE MCRoomQueue ----------------------------
(* Small instances of RoomQueue: constants and symmetry for TLC. *)
EXTENDS RoomQueue, TLC

CONSTANTS video, upload, stream, ref

\* One uploaded asset, resolved to one session reference.
MCSessionRef == [s \in {upload} |-> ref]
NoSessionRef == [s \in {} |-> ref]

HostOnly == {{"host"}}
HostOrNobody == {{"host"}, {}}

Rows == Permutations(ItemIds)
RowsAndMembers == Permutations(ItemIds) \union Permutations(Members)

\* Racing commands over a queue that is added to and not edited otherwise, of members
\* whose rights may change meanwhile: `count' rows upcoming in order, every source in turn.
Filled(count, order, source, loop) ==
  /\ queue = [i \in ItemIds |->
                IF order[i] < count
                THEN [Blank("queued") EXCEPT !.pos = order[i], !.src = source[i]]
                ELSE Blank("unused")]
  /\ session = [active |-> NoItem, url |-> NoUrl, status |-> "paused", loop |-> loop,
                autoplay |-> TRUE, occ |-> 0, rev |-> 0, pos |-> "start"]
  /\ ledger = [open |-> NoOccurrence, begun |-> 0,
               outcome |-> [o \in OccurrenceIds |-> "none"]]
  /\ failures = {} /\ now = 0
  /\ rights \in [Members -> RightsChoices]
  /\ pending = [m \in Members |-> NoCommand]

InOrder == {order \in [ItemIds -> 0..Cardinality(ItemIds) - 1] :
              \A i, j \in ItemIds : order[i] = order[j] => i = j}

\* Loop mode, which differs only once nothing is upcoming.
RaceInit ==
  \E count \in 1..Cardinality(ItemIds), order \in InOrder, source \in [ItemIds -> Sources] :
    Filled(count, order, source, TRUE)

RaceNext ==
  \/ \E m \in Members :
       \/ \E i \in ItemIds : PlayQueueItem(m, i) \/ PlayUploadedQueueItem(m, i)
       \/ \E status \in Statuses, pos \in {"start", "end"} : SetPlaybackState(m, status, pos)
       \/ \E i \in ItemIds, src \in Sources : AddQueueItem(m, i, src, FALSE, TRUE, FALSE)
       \/ SendCommand(m) \/ Handle(m) \/ LoseCommand(m)
       \/ \E r \in RightsChoices : ChangeRights(m, r)
  \/ Tick
  \/ ForgetFailures

RaceSpec == RaceInit /\ [][RaceNext]_vars

\* A listening room: the first row plays, nobody touches the queue, media end and
\* the clients' autoplay brings on what follows.  Members of `Members' stay
\* connected and keep their rights.
Listening(order, source, bad) ==
  LET first == CHOOSE i \in ItemIds : order[i] = 0
  IN  /\ queue = Normalized([i \in ItemIds |->
               [Blank(IF i = first THEN "playing" ELSE "queued")
                  EXCEPT !.pos = order[i], !.src = source[i], !.bad = bad[i]]])
      /\ ~bad[first]
      /\ session = [active |-> first, status |-> "playing", loop |-> FALSE,
                    url |-> IF source[first] \in Uploaded THEN SessionRef[source[first]]
                            ELSE source[first],
                    autoplay |-> TRUE, occ |-> 1, rev |-> 0, pos |-> "start"]
      /\ ledger = [open |-> [id |-> 1, item |-> first], begun |-> 1,
                   outcome |-> [o \in OccurrenceIds |-> IF o = 1 THEN "open" ELSE "none"]]
      /\ failures = {} /\ now = 0
      /\ rights \in [Members -> RightsChoices]
      /\ pending = [m \in Members |-> NoCommand]

ListenNext == \E m \in Members : SendAdvance(m, TRUE) \/ SendStart(m) \/ Handle(m)

\* The server processes what reaches it; a medium that plays ends; a client that
\* prepared a video gets the provider's acknowledgement.
ListenFairness ==
  /\ \A m \in Members : WF_vars(Handle(m))
  /\ WF_vars(\E m \in Members : SendAdvance(m, TRUE))
  /\ WF_vars(\E m \in Members : SendStart(m))

ListenInit(bad) == \E order \in InOrder, source \in [ItemIds -> Sources] :
                     Listening(order, source, bad)

ListenSpec == /\ ListenInit([i \in ItemIds |-> FALSE])
              /\ [][ListenNext]_vars /\ ListenFairness

\* The same room with rows known to be unavailable among the upcoming ones.
ListenWithProblemsSpec == /\ \E bad \in [ItemIds -> BOOLEAN] : ListenInit(bad)
                          /\ [][ListenNext]_vars /\ ListenFairness

\* Every upcoming row that can be played is played in the end: autoplay never
\* stalls before it, whoever reports the endings and however often.
EveryUpcomingItemPlays ==
  \A i \in ItemIds : (queue[i].status = "queued" /\ ~queue[i].bad)
                       ~> (queue[i].status \in {"playing", "played"})
=============================================================================
