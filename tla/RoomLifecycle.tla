---------------------------- MODULE RoomLifecycle ----------------------------
(***************************************************************************)
(* How a room ends in three places: its durable row and the records beside *)
(* it (PostgreSQL: temporary_room_lifecycle, persistent_room_retirements), *)
(* the live room (SpacetimeDB: retire_room), and the cleanup passes of the *)
(* server that take the second to the state of the first (cleanup-core.ts, *)
(* temporary-cleanup.ts, persistent-retirement.ts).  Any call of a pass    *)
(* may fail, lose its answer or never return, and passes overlap.          *)
(***************************************************************************)
EXTENDS Integers, Sequences, SequencesExt

CONSTANTS Rooms,
          Temporary,  \* rooms that end one hour after the last activity in them
          Legacy,     \* rooms that do so unless saved
          Stuck,      \* rooms in which something may happen that the durable store rejects
          Visited,    \* rooms that are entered and used
          Passes,     \* cleanup passes under way at a time
          Batch,      \* jobs of a pass
          MaxFailures \* bound on the calls that fail and the passes that die

ASSUME KindsAssumption == /\ Temporary \subseteq Rooms /\ Legacy \subseteq Rooms
                          /\ Temporary \intersect Legacy = {} /\ Stuck \subseteq Rooms
                          /\ Visited \subseteq Rooms
ASSUME RoomsAssumption == IsFiniteSet(Rooms)
ASSUME BoundsAssumption == Batch \in Nat \ {0} /\ MaxFailures \in Nat

VARIABLES
  \* the durable store
  status,    \* rooms.status: "open", "closed", or "deleted" with its row
  active,    \* rooms with activity in the last hour
  saved,     \* rooms.is_saved
  aged,      \* rooms closed 24 hours ago
  retired,   \* temporary_room_lifecycle.live_retired
  expired,   \* temporary rooms that are closed, by closed_at
  receipt,   \* persistent_room_retirements: what is asked for, and whether it is done
  line,      \* rooms with a receipt not completed, by last_attempt_at or created_at
  \* the live room
  marked,    \* retired_room
  members,   \* rooms with sessions, participants or permissions
  admitting, \* admission: "no", "checked" by the server, "granted" in the live room
  content,   \* rooms with a session, a queue or a history
  likes,     \* rooms with explicit preferences in the outbox
  rejected,  \* rooms with an event in the outbox that the durable store always rejects
  \* the server
  stale,     \* legacy rooms found idle and without members, and not yet closed
  pass,      \* cleanup passes
  failures   \* calls and passes that failed so far

durable == <<status, active, saved, aged, retired, expired, receipt, line>>
live == <<marked, members, admitting, content, likes, rejected>>
vars == <<durable, live, stale, pass, failures>>

-----------------------------------------------------------------------------
Persistent == Rooms \ Temporary

NoReceipt == [asks |-> "nothing", completed |-> TRUE]
NoPass == [of |-> "nothing", jobs |-> <<>>, next |-> "retire", drained |-> FALSE]

Ended(r) == status[r] # "open"

-----------------------------------------------------------------------------
(* The durable rows *)

\* Anywhere from the front of the line.
PutBack(r) ==
  LET others == RemoveFirst(line, r)
  IN  \E i \in 1..Len(others) + 1 : line' = InsertAt(others, i, r)

\* Mutant of Capture: a receipt that was done with stays so.
CaptureKeepsDone(r, deleted) ==
  IF r \in Temporary THEN UNCHANGED <<receipt, line>>
  ELSE IF receipt[r] = NoReceipt
         THEN /\ receipt' = [receipt EXCEPT ![r] =
                              [asks |-> IF deleted THEN "purge" ELSE "stop", completed |-> FALSE]]
              /\ line' = Append(line, r)
         ELSE receipt' = [receipt EXCEPT ![r].asks = "purge"] /\ PutBack(r)

\* capture_persistent_room_retirement: a receipt for a room that ends.  A deletion asks
\* for a purge even where closing it was dealt with, and goes back in line to where the
\* receipt was made.
Capture(r, deleted) ==
  IF r \in Temporary THEN UNCHANGED <<receipt, line>>
  ELSE IF receipt[r] = NoReceipt
         THEN /\ receipt' = [receipt EXCEPT ![r] =
                              [asks |-> IF deleted THEN "purge" ELSE "stop", completed |-> FALSE]]
              /\ line' = Append(line, r)
         ELSE /\ receipt' = [receipt EXCEPT ![r] = [asks |-> "purge", completed |-> FALSE]]
              /\ PutBack(r)

\* A room is closed, once: retired identities are not opened again.
CloseRoom(r) ==
  /\ status' = [status EXCEPT ![r] = "closed"]
  /\ expired' = IF r \in Temporary THEN Append(expired, r) ELSE expired
  /\ Capture(r, FALSE)
  /\ UNCHANGED <<active, saved, aged, retired>>

\* By its owner, or with the account that owns it.
CloseByOwner(r) ==
  /\ status[r] = "open"
  /\ CloseRoom(r)
  /\ UNCHANGED <<live, stale, pass, failures>>

\* A persistent room goes with its account; a temporary one only by a purge.
DeleteRoom(r) ==
  /\ r \in Persistent /\ status[r] # "deleted"
  /\ status' = [status EXCEPT ![r] = "deleted"]
  /\ Capture(r, TRUE)
  /\ UNCHANGED <<active, saved, aged, retired, expired, live, stale, pass, failures>>

\* A visit or a touch; an hour without, where it makes a difference; a day since the end; the save star.
Touch(r) ==
  /\ status[r] = "open" /\ r \in Temporary => active[r]
  /\ active' = [active EXCEPT ![r] = TRUE]
  /\ UNCHANGED <<status, saved, aged, retired, expired, receipt, line, live, stale, pass, failures>>

HourPasses(r) ==
  /\ r \in Temporary \union Legacy /\ status[r] = "open"
  /\ active' = [active EXCEPT ![r] = FALSE]
  /\ UNCHANGED <<status, saved, aged, retired, expired, receipt, line, live, stale, pass, failures>>

DayPasses(r) ==
  /\ status[r] = "closed" /\ r \in Temporary
  /\ aged' = [aged EXCEPT ![r] = TRUE]
  /\ UNCHANGED <<status, active, saved, retired, expired, receipt, line, live, stale, pass, failures>>

ToggleSaved(r) ==
  /\ r \in Legacy /\ status[r] = "open"
  /\ saved' = [saved EXCEPT ![r] = ~@]
  /\ UNCHANGED <<status, active, aged, retired, expired, receipt, line, live, stale, pass, failures>>

\* close_expired_temporary_rooms: the activity is read again under the lock of the room.
CloseExpired(r) ==
  /\ r \in Temporary /\ status[r] = "open" /\ ~active[r]
  /\ CloseRoom(r)
  /\ UNCHANGED <<live, stale, pass, failures>>

\* closeIdleUnsavedRooms lists the rooms whose deadline is over, counts their members ...
FindIdle(r) ==
  /\ r \in Legacy /\ status[r] = "open" /\ ~saved[r] /\ ~active[r]
  /\ stale' = stale \union {r}
  /\ UNCHANGED <<durable, live, pass, failures>>

\* Mutant of MayCloseIdle: the star is not looked at again.
MayCloseFound(r) == status[r] = "open"

\* ... and closes what is still open and not saved.
MayCloseIdle(r) == status[r] = "open" /\ ~saved[r]

CloseIdle(r) ==
  /\ r \in stale
  /\ stale' = stale \ {r}
  /\ IF MayCloseIdle(r) THEN CloseRoom(r) ELSE UNCHANGED durable
  /\ UNCHANGED <<live, pass, failures>>

-----------------------------------------------------------------------------
(* The live room *)

\* createLiveRoomAdmission reads the durable membership ...
CheckMembership(r) ==
  /\ r \in Visited /\ admitting[r] = "no"
  /\ status[r] = "open" /\ r \in Temporary => active[r]
  /\ admitting' = [admitting EXCEPT ![r] = "checked"]
  /\ UNCHANGED <<durable, marked, members, content, likes, rejected, stale, pass, failures>>

\* ... and issues a grant, which the live room refuses once it is retired.
IssueGrant(r) ==
  /\ admitting[r] = "checked"
  /\ admitting' = [admitting EXCEPT ![r] = IF marked[r] THEN "no" ELSE "granted"]
  /\ UNCHANGED <<durable, marked, members, content, likes, rejected, stale, pass, failures>>

JoinRoom(r) ==
  /\ admitting[r] = "granted"
  /\ admitting' = [admitting EXCEPT ![r] = "no"]
  /\ members' = [members EXCEPT ![r] = @ \/ ~marked[r]]
  /\ UNCHANGED <<durable, marked, content, likes, rejected, stale, pass, failures>>

\* A member plays, queues, or likes what is played.
Act(r) ==
  /\ r \in Visited /\ members[r]
  /\ content' = [content EXCEPT ![r] = TRUE]
  /\ likes' \in {likes, [likes EXCEPT ![r] = TRUE]}
  /\ rejected' \in {rejected, [rejected EXCEPT ![r] = @ \/ r \in Stuck]}
  /\ UNCHANGED <<durable, marked, members, admitting, stale, pass, failures>>

\* Explicit preferences are delivered before a purge.
Refused(r, purge) == purge /\ likes[r]

\* retire_room.
Retired(r, purge) ==
  /\ marked' = [marked EXCEPT ![r] = TRUE]
  /\ members' = [members EXCEPT ![r] = FALSE]
  /\ admitting' = [admitting EXCEPT ![r] = IF @ = "granted" THEN "no" ELSE @]
  /\ content' = [content EXCEPT ![r] = @ /\ ~purge]
  /\ rejected' = [rejected EXCEPT ![r] = @ /\ ~purge]
  /\ UNCHANGED likes

\* A drain delivers the oldest events of all rooms: all of them, those ahead of one that
\* is rejected, or as many as a run may.
Delivered == \E kept \in SUBSET Rooms : likes' = [r \in Rooms |-> likes[r] /\ r \in kept]

Rejecting == \E r \in Rooms : rejected[r]

Deliver ==
  /\ Delivered
  /\ UNCHANGED <<durable, marked, members, admitting, content, rejected, stale, pass, failures>>

DeliverAll == Deliver /\ ~Rejecting /\ ~ \E r \in Rooms : likes'[r]

-----------------------------------------------------------------------------
(* Cleanup passes *)

Job(p) == Head(pass[p].jobs)

\* The pass goes on with its next job.
NextJob(p) ==
  pass' = [pass EXCEPT ![p] =
             IF Len(@.jobs) = 1 THEN NoPass
             ELSE [of |-> @.of, jobs |-> Tail(@.jobs), next |-> "retire", drained |-> @.drained]]

FirstOf(rooms) == SubSeq(rooms, 1, IF Len(rooms) < Batch THEN Len(rooms) ELSE Batch)

\* Rooms to retire, and those to purge a day after they were closed, in their order.
TemporaryJobs(rooms) ==
  LET due == {i \in DOMAIN rooms : ~retired[rooms[i]] \/ aged[rooms[i]]}
      nth(k) == rooms[CHOOSE i \in due : Cardinality({j \in due : j <= i}) = k]
  IN  [k \in {k \in 1..Batch : k <= Cardinality(due)} |->
         [room |-> nth(k), purge |-> retired[nth(k)] /\ aged[nth(k)]]]

PersistentJobs(rooms) ==
  [i \in DOMAIN rooms |-> [room |-> rooms[i], purge |-> receipt[rooms[i]].asks = "purge"]]

Begin(p, kind, jobs) ==
  pass' = [pass EXCEPT ![p] = [of |-> kind, jobs |-> jobs, next |-> "retire", drained |-> FALSE]]

\* pending_temporary_room_cleanup: closes the rooms without activity whose rows are not
\* locked, and lists jobs by closed_at, whatever came of earlier passes.
StartTemporary(p) ==
  /\ pass[p] = NoPass
  /\ \E idle \in SUBSET {r \in Temporary : status[r] = "open" /\ ~active[r]} :
     \E closed \in SetToSeqs(idle) :
       /\ TemporaryJobs(expired \o closed) # <<>>
       /\ status' = [r \in Rooms |-> IF r \in idle THEN "closed" ELSE status[r]]
       /\ expired' = expired \o closed
       /\ Begin(p, "temporary", TemporaryJobs(expired \o closed))
  /\ UNCHANGED <<active, saved, aged, retired, receipt, line, live, stale, failures>>

\* Mutant of Requeued: attempts are not marked.
NotRequeued(others, picked) == picked \o others

\* A job that was attempted goes to the end of the line, whatever comes of it.
Requeued(others, picked) == others \o picked

\* pending_persistent_room_retirements.
PickPersistent(p, picked, others) ==
  /\ pass[p] = NoPass
  /\ Begin(p, "persistent", PersistentJobs(picked))
  /\ line' = Requeued(others, picked)
  /\ UNCHANGED <<status, active, saved, aged, retired, expired, receipt, live, stale, failures>>

StartPersistent(p) ==
  line # <<>> /\ PickPersistent(p, FirstOf(line), SubSeq(line, Len(FirstOf(line)) + 1, Len(line)))

\* Whoever closes a room starts a pass over it alone.
StartWith(p, r) == Contains(line, r) /\ PickPersistent(p, <<r>>, RemoveFirst(line, r))

\* A pass over persistent rooms stops authority first, and purges when the outbox was
\* delivered; one over temporary rooms delivers before its first purge.
Steps(p) ==
  LET job == Job(p)
  IN  CASE pass[p].next = "retire" /\ pass[p].of = "persistent" -> "stop"
        [] pass[p].next = "retire" /\ pass[p].of = "temporary" ->
             IF job.purge /\ ~pass[p].drained THEN "drain" ELSE "empty"
        [] OTHER -> pass[p].next

Proceed(p, next, drained) ==
  pass' = [pass EXCEPT ![p] =
             [of |-> @.of, jobs |-> @.jobs, next |-> next, drained |-> drained]]

StopAuthority(p) ==
  /\ pass[p] # NoPass /\ Steps(p) = "stop"
  /\ Retired(Job(p).room, FALSE)
  /\ Proceed(p, IF ~Job(p).purge THEN "finish"
                ELSE IF pass[p].drained THEN "empty" ELSE "drain", pass[p].drained)
  /\ UNCHANGED <<durable, stale, failures>>

\* A drain that meets a rejected event fails, whichever room it is of; one that finds
\* another at work returns.
DrainOutbox(p) ==
  /\ pass[p] # NoPass /\ Steps(p) = "drain"
  /\ \/ ~Rejecting /\ Delivered /\ Proceed(p, "empty", TRUE)
     \/ UNCHANGED likes /\ Proceed(p, "empty", TRUE)
     \/ Rejecting /\ Delivered /\ NextJob(p)
  /\ UNCHANGED <<durable, marked, members, admitting, content, rejected, stale, failures>>

RetireRoom(p) ==
  LET job == Job(p)
  IN  /\ pass[p] # NoPass /\ Steps(p) = "empty"
      /\ IF Refused(job.room, job.purge) THEN NextJob(p) /\ UNCHANGED live
         ELSE Retired(job.room, job.purge) /\ Proceed(p, "finish", pass[p].drained)
      /\ UNCHANGED <<durable, stale, failures>>

\* finish_temporary_room_cleanup.
FinishTemporary(p) ==
  LET job == Job(p)
      r == job.room
  IN  /\ pass[p] # NoPass /\ pass[p].of = "temporary" /\ Steps(p) = "finish"
      /\ IF status[r] # "closed" THEN UNCHANGED durable
         ELSE /\ retired' = [retired EXCEPT ![r] = @ \/ ~job.purge]
              /\ IF job.purge /\ retired[r] /\ aged[r]
                   THEN /\ status' = [status EXCEPT ![r] = "deleted"]
                        /\ expired' = RemoveFirst(expired, r)
                   ELSE UNCHANGED <<status, expired>>
              /\ UNCHANGED <<active, saved, aged, receipt, line>>
      /\ NextJob(p)
      /\ UNCHANGED <<live, stale, failures>>

\* Mutant of Completes: what was asked for in the meantime is not looked at.
CompletesAnything(job) == TRUE

\* A deletion may have asked for a purge while the room was only being closed.
Completes(job) == (receipt[job.room].asks = "purge") = job.purge

\* finish_persistent_room_retirement.
FinishPersistent(p) ==
  LET job == Job(p)
      r == job.room
  IN  /\ pass[p] # NoPass /\ pass[p].of = "persistent" /\ Steps(p) = "finish"
      /\ IF Completes(job)
           THEN /\ receipt' = [receipt EXCEPT ![r].completed = TRUE]
                /\ line' = RemoveFirst(line, r)
           ELSE UNCHANGED <<receipt, line>>
      /\ NextJob(p)
      /\ UNCHANGED <<status, active, saved, aged, retired, expired, live, stale, failures>>

\* A call fails, or its answer is lost: the job counts as failed.
JobFails(p) ==
  /\ pass[p] # NoPass /\ failures < MaxFailures
  /\ failures' = failures + 1
  /\ NextJob(p)
  /\ UNCHANGED <<durable, live, stale>>

\* The process dies under a pass.
PassDies(p) ==
  /\ pass[p] # NoPass /\ failures < MaxFailures
  /\ failures' = failures + 1
  /\ pass' = [pass EXCEPT ![p] = NoPass]
  /\ UNCHANGED <<durable, live, stale>>

-----------------------------------------------------------------------------
Init ==
  /\ status = [r \in Rooms |-> "open"]
  /\ active = [r \in Rooms |-> TRUE] /\ saved = [r \in Rooms |-> FALSE]
  /\ aged = [r \in Rooms |-> FALSE]
  /\ retired = [r \in Rooms |-> FALSE] /\ expired = <<>>
  /\ receipt = [r \in Rooms |-> NoReceipt] /\ line = <<>>
  /\ marked = [r \in Rooms |-> FALSE] /\ members = [r \in Rooms |-> TRUE]
  /\ admitting = [r \in Rooms |-> "no"] /\ content = [r \in Rooms |-> TRUE]
  /\ likes = [r \in Rooms |-> FALSE] /\ rejected = [r \in Rooms |-> FALSE]
  /\ stale = {}
  /\ pass = [p \in Passes |-> NoPass] /\ failures = 0

Use ==
  \E r \in Rooms :
    \/ CloseByOwner(r) \/ DeleteRoom(r) \/ Touch(r) \/ ToggleSaved(r)
    \/ CheckMembership(r) \/ IssueGrant(r) \/ JoinRoom(r) \/ Act(r)

Time ==
  \E r \in Rooms :
    HourPasses(r) \/ DayPasses(r) \/ CloseExpired(r) \/ FindIdle(r) \/ CloseIdle(r)

Proceeds(p) ==
  \/ StopAuthority(p) \/ DrainOutbox(p) \/ RetireRoom(p)
  \/ FinishTemporary(p) \/ FinishPersistent(p)

CleanUp(p) ==
  \/ StartTemporary(p) \/ StartPersistent(p) \/ \E r \in Rooms : StartWith(p, r)
  \/ Proceeds(p)
  \/ JobFails(p) \/ PassDies(p)

Next == Use \/ Time \/ Deliver \/ \E p \in Passes : CleanUp(p)

Spec == Init /\ [][Next]_vars

\* The passes are started by a schedule, by visits to the list of rooms and by those who
\* close one, a pass that does not fail goes on, and the outbox is delivered.
CleanupFairness ==
  /\ WF_vars(DeliverAll)
  /\ SF_vars(\E p \in Passes : StartPersistent(p))
  /\ \A p \in Passes : WF_vars(Proceeds(p))

FairSpec == Spec /\ CleanupFairness

-----------------------------------------------------------------------------
(* Properties *)

\* Types of all variables; a room is in line exactly while its receipt is open, and in
\* the order of expiry exactly while it is closed and not purged.
TypeOK ==
  /\ status \in [Rooms -> {"open", "closed", "deleted"}]
  /\ \A v \in {active, saved, aged, retired, marked, members, content, likes, rejected} :
       v \in [Rooms -> BOOLEAN]
  /\ admitting \in [Rooms -> {"no", "checked", "granted"}]
  /\ receipt \in [Rooms -> [asks: {"nothing", "stop", "purge"}, completed: BOOLEAN]]
  /\ stale \subseteq Legacy
  /\ IsInjective(line) /\ IsInjective(expired)
  /\ \A r \in Rooms : Contains(line, r) <=> ~receipt[r].completed
  /\ \A r \in Rooms : Contains(expired, r) <=> r \in Temporary /\ status[r] = "closed"
  /\ \A p \in Passes :
       /\ pass[p].of \in {"nothing", "temporary", "persistent"}
       /\ pass[p].next \in {"retire", "drain", "empty", "finish"}
       /\ Len(pass[p].jobs) <= Batch /\ failures <= MaxFailures /\ (pass[p].jobs = <<>> <=> pass[p] = NoPass)

Empty(r, purge) == marked[r] /\ ~members[r] /\ admitting[r] # "granted"
                   /\ (purge => ~content[r] /\ ~likes[r] /\ ~rejected[r])

\* What the durable store takes for retired or purged is so in the live room, and stays
\* so: no membership check or grant from before, no overlapping pass and no deletion in
\* between brings anybody or anything back.
EndedStaysEmpty ==
  \A r \in Rooms :
    /\ r \in Temporary /\ retired[r] => Empty(r, status[r] = "deleted")
    /\ r \in Persistent /\ receipt[r] # NoReceipt /\ receipt[r].completed =>
         Empty(r, receipt[r].asks = "purge")

\* A saved room is not closed as idle, also when it is saved while it is looked at.
SavedRoomsStayOpen ==
  [][\A r \in Rooms : saved[r] /\ r \in stale \ stale' => status'[r] = status[r]]_vars

\* Documented: a room is closed as idle after an hour without activity.
ClosedWasIdle ==
  [][\A r \in Rooms : r \in stale \ stale' /\ status'[r] # status[r] => ~active[r]]_vars

\* Nobody stays in a persistent room that has ended, even if events of other rooms can
\* never be delivered and whatever job before it in line fails; and unless the outbox
\* holds what is always rejected, a deleted one is purged in the end.  Nothing is said of
\* temporary rooms: their line is kept in the order of closing, where jobs that fail stay
\* in front.
EndedIsCleared ==
  \A r \in Persistent :
    /\ Ended(r) ~> marked[r] /\ ~members[r]
    /\ <>[]Rejecting \/ (status[r] = "deleted" ~> ~content[r])
=============================================================================
