------------------------- MODULE RoomLifecycleProofs -------------------------
(***************************************************************************)
(* Proofs about RoomLifecycle, for any rooms, passes and batches: what the *)
(* durable store takes for retired or purged is so in the live room and    *)
(* stays so, a room that is saved is not closed as idle, and the records   *)
(* of a room and its places in the two lines agree.                        *)
(***************************************************************************)
EXTENDS RoomLifecycle, FiniteSetTheorems, SequenceTheorems, TLAPS

\* A pass is the record of its four fields.
PassShape(x) ==
  x = [of |-> x.of, jobs |-> x.jobs, next |-> x.next, drained |-> x.drained]

\* Types of the variables the argument reads.
Typed ==
  /\ status \in [Rooms -> {"open", "closed", "deleted"}]
  /\ retired \in [Rooms -> BOOLEAN] /\ aged \in [Rooms -> BOOLEAN]
  /\ receipt \in [Rooms -> [asks: {"nothing", "stop", "purge"}, completed: BOOLEAN]]
  /\ marked \in [Rooms -> BOOLEAN] /\ members \in [Rooms -> BOOLEAN]
  /\ content \in [Rooms -> BOOLEAN] /\ likes \in [Rooms -> BOOLEAN]
  /\ rejected \in [Rooms -> BOOLEAN]
  /\ admitting \in [Rooms -> {"no", "checked", "granted"}]
  /\ pass = [p \in Passes |-> pass[p]] /\ \A p \in Passes : PassShape(pass[p])

\* Nobody is in a room that is marked, or may come in.
Shut == \A r \in Rooms : marked[r] => ~members[r] /\ admitting[r] # "granted"

\* A pass that is about to report a job has done it.
JobsDone ==
  \A p \in Passes : pass[p].next = "finish" /\ Job(p).room \in Rooms =>
    Empty(Job(p).room, Job(p).purge)

Core == Typed /\ Shut /\ JobsDone /\ EndedStaysEmpty

-----------------------------------------------------------------------------
(* The live room. *)

\* What is empty stays empty.
Lasting == \A r \in Rooms : \A purge : Empty(r, purge) => Empty(r, purge)'

\* Members and visitors of a live room, and the drains of the outbox.
LEMMA UseStep ==
  ASSUME Core, NEW r \in Rooms,
         CheckMembership(r) \/ IssueGrant(r) \/ JoinRoom(r) \/ Act(r)
  PROVE  /\ UNCHANGED <<durable, pass>>
         /\ Typed' /\ Shut' /\ Lasting
<1>1. UNCHANGED <<durable, pass>>
  BY DEF CheckMembership, IssueGrant, JoinRoom, Act
<1>2. CASE CheckMembership(r)
  BY <1>1, <1>2 DEF CheckMembership, Core, Typed, Shut, Lasting, Empty, durable
<1>3. CASE IssueGrant(r)
  BY <1>1, <1>3 DEF IssueGrant, Core, Typed, Shut, Lasting, Empty, durable
<1>4. CASE JoinRoom(r)
  BY <1>1, <1>4 DEF JoinRoom, Core, Typed, Shut, Lasting, Empty, durable
<1>5. CASE Act(r)
  <2>1. /\ content' \in [Rooms -> BOOLEAN] /\ likes' \in [Rooms -> BOOLEAN]
        /\ rejected' \in [Rooms -> BOOLEAN]
    BY <1>5 DEF Act, Core, Typed
  <2>2. Typed' /\ Shut'
    BY <1>1, <1>5, <2>1 DEF Act, Core, Typed, Shut, durable
  <2>3. \A x \in Rooms : x # r => /\ content'[x] = content[x] /\ likes'[x] = likes[x]
                                  /\ rejected'[x] = rejected[x]
    BY <1>5 DEF Act, Core, Typed
  <2>4. Lasting
    BY <1>5, <2>3 DEF Act, Lasting, Empty
  <2> QED
    BY <1>1, <2>2, <2>4
<1> QED
  BY <1>2, <1>3, <1>4, <1>5, <1>1

LEMMA DeliveredStep ==
  ASSUME Core, Delivered, UNCHANGED <<marked, members, admitting, content, rejected>>
  PROVE  /\ likes' \in [Rooms -> BOOLEAN]
         /\ Shut' /\ Lasting
<1>1. \A r \in Rooms : likes'[r] => likes[r]
  BY DEF Delivered
<1>2. likes' \in [Rooms -> BOOLEAN]
  BY DEF Delivered
<1> QED
  BY <1>1, <1>2 DEF Core, Shut, Lasting, Empty

\* retire_room empties what it is asked to empty, unless it is refused.
LEMMA RetiredStep ==
  ASSUME Core, NEW r, NEW purge, Retired(r, purge)
  PROVE  /\ marked' \in [Rooms -> BOOLEAN] /\ members' \in [Rooms -> BOOLEAN]
         /\ content' \in [Rooms -> BOOLEAN] /\ rejected' \in [Rooms -> BOOLEAN]
         /\ likes' \in [Rooms -> BOOLEAN]
         /\ admitting' \in [Rooms -> {"no", "checked", "granted"}]
         /\ Shut' /\ Lasting
         /\ r \in Rooms /\ ~Refused(r, purge) => Empty(r, purge)'
<1>1. /\ marked' \in [Rooms -> BOOLEAN] /\ members' \in [Rooms -> BOOLEAN]
      /\ content' \in [Rooms -> BOOLEAN] /\ rejected' \in [Rooms -> BOOLEAN]
      /\ likes' \in [Rooms -> BOOLEAN]
      /\ admitting' \in [Rooms -> {"no", "checked", "granted"}]
  BY DEF Retired, Core, Typed
<1>2. \A x \in Rooms : x # r =>
        /\ marked'[x] = marked[x] /\ members'[x] = members[x] /\ content'[x] = content[x]
        /\ rejected'[x] = rejected[x] /\ admitting'[x] = admitting[x]
  BY DEF Retired, Core, Typed
<1>3. ASSUME r \in Rooms
      PROVE  /\ marked'[r] /\ ~members'[r] /\ admitting'[r] # "granted"
             /\ content'[r] => content[r] /\ ~purge
             /\ rejected'[r] => rejected[r] /\ ~purge
  BY <1>3 DEF Retired, Core, Typed
<1>4. likes' = likes
  BY DEF Retired
<1>5. Shut'
  BY <1>1, <1>2, <1>3 DEF Core, Shut
<1>6. Lasting
  BY <1>1, <1>2, <1>3, <1>4 DEF Lasting, Empty
<1>7. r \in Rooms /\ ~Refused(r, purge) => Empty(r, purge)'
  BY <1>1, <1>3, <1>4 DEF Empty, Refused
<1> QED
  BY <1>1, <1>5, <1>6, <1>7

-----------------------------------------------------------------------------
(* The durable rows. *)

\* A room that ends has work ahead of it, or none was recorded as done.
LEMMA CaptureStep ==
  ASSUME Core, NEW r \in Rooms, NEW deleted \in BOOLEAN, Capture(r, deleted)
  PROVE  /\ receipt' \in [Rooms -> [asks: {"nothing", "stop", "purge"}, completed: BOOLEAN]]
         /\ \A x \in Rooms : receipt'[x] = receipt[x] \/ ~receipt'[x].completed
<1>1. CASE r \in Temporary
  BY <1>1 DEF Capture, Core, Typed
<1>2. CASE r \notin Temporary
  <2>1. PICK asks \in {"stop", "purge"} :
          receipt' = [receipt EXCEPT ![r] = [asks |-> asks, completed |-> FALSE]]
    BY <1>2 DEF Capture
  <2> QED
    BY <2>1 DEF Core, Typed
<1> QED
  BY <1>1, <1>2

\* Rows that change by themselves: no room is taken for retired or purged.
LEMMA DurableStep ==
  ASSUME Core, UNCHANGED <<live, pass, retired>>,
         aged' \in [Rooms -> BOOLEAN],
         receipt' \in [Rooms -> [asks: {"nothing", "stop", "purge"}, completed: BOOLEAN]],
         \A x \in Rooms : receipt'[x] = receipt[x] \/ ~receipt'[x].completed,
         status' \in [Rooms -> {"open", "closed", "deleted"}],
         \A x \in Temporary : status'[x] = "deleted" => status[x] = "deleted"
  PROVE  Core'
<1>1. Typed' /\ Shut' /\ JobsDone'
  BY DEF Core, Typed, Shut, JobsDone, Job, Empty, live
<1>2. \A r \in Rooms : \A purge : Empty(r, purge)' <=> Empty(r, purge)
  BY DEF Empty, live
<1>3. ASSUME NEW r \in Rooms, r \in Temporary, retired'[r]
      PROVE  Empty(r, status[r] = "deleted")'
  <2>1. Empty(r, status[r] = "deleted")
    BY <1>3 DEF Core, EndedStaysEmpty
  <2> QED
    BY <1>3, <2>1 DEF Empty, live
<1>4. ASSUME NEW r \in Rooms, r \in Persistent, receipt'[r] # NoReceipt, receipt'[r].completed
      PROVE  Empty(r, receipt[r].asks = "purge")'
  <2>1. receipt'[r] = receipt[r]
    BY <1>4
  <2>2. Empty(r, receipt[r].asks = "purge")
    BY <1>4, <2>1 DEF Core, EndedStaysEmpty
  <2> QED
    BY <2>1, <2>2 DEF Empty, live
<1> QED
  BY <1>1, <1>3, <1>4 DEF Core, EndedStaysEmpty, Empty


LEMMA CloseStep ==
  ASSUME Core, NEW r \in Rooms, status[r] = "open", CloseRoom(r), UNCHANGED <<live, pass>>
  PROVE  Core'
<1>1. /\ receipt' \in [Rooms -> [asks: {"nothing", "stop", "purge"}, completed: BOOLEAN]]
      /\ \A x \in Rooms : receipt'[x] = receipt[x] \/ ~receipt'[x].completed
  BY CaptureStep DEF CloseRoom
<1>2. /\ status' \in [Rooms -> {"open", "closed", "deleted"}]
      /\ \A x \in Temporary : status'[x] = "deleted" => status[x] = "deleted"
  BY KindsAssumption DEF CloseRoom, Core, Typed
<1> QED
  BY <1>1, <1>2, DurableStep DEF CloseRoom, Core, Typed

LEMMA RowStep ==
  ASSUME Core, NEW r \in Rooms,
         \/ CloseByOwner(r) \/ DeleteRoom(r) \/ Touch(r) \/ ToggleSaved(r)
         \/ HourPasses(r) \/ DayPasses(r) \/ CloseExpired(r) \/ FindIdle(r) \/ CloseIdle(r)
  PROVE  Core'
<1>1. CASE CloseByOwner(r) \/ CloseExpired(r)
  BY <1>1, CloseStep DEF CloseByOwner, CloseExpired
<1>2. CASE DeleteRoom(r)
  <2>1. /\ receipt' \in [Rooms -> [asks: {"nothing", "stop", "purge"}, completed: BOOLEAN]]
        /\ \A x \in Rooms : receipt'[x] = receipt[x] \/ ~receipt'[x].completed
    BY <1>2, CaptureStep DEF DeleteRoom
  <2>2. /\ status' \in [Rooms -> {"open", "closed", "deleted"}]
        /\ \A x \in Temporary : status'[x] = "deleted" => status[x] = "deleted"
    BY <1>2, KindsAssumption DEF DeleteRoom, Core, Typed, Persistent
  <2> QED
    BY <1>2, <2>1, <2>2, DurableStep DEF DeleteRoom, Core, Typed
<1>3. CASE Touch(r) \/ ToggleSaved(r) \/ HourPasses(r) \/ FindIdle(r)
  <2>1. UNCHANGED <<live, pass, status, aged, retired, receipt>>
    BY <1>3 DEF Touch, ToggleSaved, HourPasses, FindIdle, durable
  <2> QED
    BY <2>1, DurableStep DEF Core, Typed
<1>4. CASE DayPasses(r)
  <2>1. aged' \in [Rooms -> BOOLEAN]
    BY <1>4 DEF DayPasses, Core, Typed
  <2> QED
    BY <1>4, <2>1, DurableStep DEF DayPasses, Core, Typed
<1>5. CASE CloseIdle(r)
  <2>1. CASE MayCloseIdle(r)
    BY <1>5, <2>1, CloseStep DEF CloseIdle, MayCloseIdle
  <2>2. CASE ~MayCloseIdle(r)
    BY <1>5, <2>2, DurableStep DEF CloseIdle, Core, Typed, durable
  <2> QED
    BY <2>1, <2>2
<1> QED
  BY <1>1, <1>2, <1>3, <1>4, <1>5

-----------------------------------------------------------------------------
(* Passes. *)

\* Steps of one pass: that pass reports next what it has just done, or reports nothing.
LEMMA PassStep ==
  ASSUME Core, NEW p \in Passes, NEW x, PassShape(x), pass' = [pass EXCEPT ![p] = x],
         UNCHANGED <<status, retired, aged, receipt>>,
         /\ marked' \in [Rooms -> BOOLEAN] /\ members' \in [Rooms -> BOOLEAN]
         /\ content' \in [Rooms -> BOOLEAN] /\ rejected' \in [Rooms -> BOOLEAN]
         /\ likes' \in [Rooms -> BOOLEAN]
         /\ admitting' \in [Rooms -> {"no", "checked", "granted"}],
         Shut', Lasting,
         x.next = "finish" /\ Head(x.jobs).room \in Rooms =>
           Empty(Head(x.jobs).room, Head(x.jobs).purge)'
  PROVE  Core'
<1>1. \A q \in Passes : pass'[q] = IF q = p THEN x ELSE pass[q]
  BY DEF Core, Typed
<1>2. pass' = [q \in Passes |-> pass'[q]] /\ \A q \in Passes : PassShape(pass'[q])
  BY <1>1 DEF Core, Typed, PassShape
<1>3. Typed'
  BY <1>2 DEF Core, Typed, PassShape
<1>4. JobsDone'
  <2>1. SUFFICES ASSUME NEW q \in Passes, pass'[q].next = "finish",
                        Head(pass'[q].jobs).room \in Rooms
                 PROVE  Empty(Head(pass[q].jobs).room, Head(pass[q].jobs).purge)'
    BY DEF JobsDone, Job
  <2>2. CASE q = p
    <3>1. pass'[q] = x
      BY <1>1, <2>2
    <3> QED
      BY <2>1, <3>1 DEF Empty
  <2>3. CASE q # p
    <3>1. pass'[q] = pass[q]
      BY <1>1, <2>3
    <3>2. Empty(Head(pass[q].jobs).room, Head(pass[q].jobs).purge)
      BY <2>1, <3>1 DEF Core, JobsDone, Job
    <3> DEFINE j == Head(pass[q].jobs)
    <3>3. PICK room, purge : room = j.room /\ purge = j.purge
      OBVIOUS
    <3>4. Empty(room, purge)'
      BY <2>1, <3>1, <3>2, <3>3 DEF Lasting
    <3> QED
      BY <3>1, <3>3, <3>4 DEF Empty
  <2> QED
    BY <2>2, <2>3
<1>5. EndedStaysEmpty'
  <2>1. ASSUME NEW r \in Rooms, r \in Temporary, retired[r]
        PROVE  Empty(r, status[r] = "deleted")'
    <3>1. PICK purge : purge = (status[r] = "deleted")
      OBVIOUS
    <3>2. Empty(r, purge)
      BY <2>1, <3>1 DEF Core, EndedStaysEmpty
    <3>3. Empty(r, purge)'
      BY <3>2 DEF Lasting
    <3> QED
      BY <3>1, <3>3 DEF Empty
  <2>2. ASSUME NEW r \in Rooms, r \in Persistent, receipt[r] # NoReceipt, receipt[r].completed
        PROVE  Empty(r, receipt[r].asks = "purge")'
    <3>1. PICK purge : purge = (receipt[r].asks = "purge")
      OBVIOUS
    <3>2. Empty(r, purge)
      BY <2>2, <3>1 DEF Core, EndedStaysEmpty
    <3>3. Empty(r, purge)'
      BY <3>2 DEF Lasting
    <3> QED
      BY <3>1, <3>3 DEF Empty
  <2> QED
    BY <2>1, <2>2 DEF EndedStaysEmpty, Empty
<1> QED
  BY <1>3, <1>4, <1>5 DEF Core

\* A pass that begins or turns to its next job, while rows may change.
LEMMA QuietStep ==
  ASSUME Core, NEW p \in Passes, NEW x, PassShape(x), x.next # "finish",
         pass' = [pass EXCEPT ![p] = x],
         UNCHANGED live,
         status' \in [Rooms -> {"open", "closed", "deleted"}],
         retired' \in [Rooms -> BOOLEAN], aged' \in [Rooms -> BOOLEAN],
         receipt' \in [Rooms -> [asks: {"nothing", "stop", "purge"}, completed: BOOLEAN]],
         EndedStaysEmpty'
  PROVE  Core'
<1>1. \A q \in Passes : pass'[q] = IF q = p THEN x ELSE pass[q]
  BY DEF Core, Typed
<1>2. pass' = [q \in Passes |-> pass'[q]] /\ \A q \in Passes : PassShape(pass'[q])
  BY <1>1 DEF Core, Typed, PassShape
<1>3. Typed' /\ Shut'
  BY <1>2 DEF Core, Typed, PassShape, Shut, live
<1>4. JobsDone'
  BY <1>1 DEF Core, JobsDone, Job, Empty, live
<1> QED
  BY <1>3, <1>4 DEF Core

LEMMA Begun ==
  ASSUME Core, NEW p \in Passes, NEW kind, NEW jobs, Begin(p, kind, jobs)
  PROVE  \E x : PassShape(x) /\ x.next # "finish" /\ pass' = [pass EXCEPT ![p] = x]
<1> DEFINE x == [of |-> kind, jobs |-> jobs, next |-> "retire", drained |-> FALSE]
<1>1. pass' = [pass EXCEPT ![p] = x]
  BY DEF Begin
<1>2. PassShape(x) /\ x.next # "finish"
  BY DEF PassShape
<1> QED
  BY <1>1, <1>2

LEMMA TurnedToNextJob ==
  ASSUME Core, NEW p \in Passes, NextJob(p)
  PROVE  \E x : PassShape(x) /\ x.next # "finish" /\ pass' = [pass EXCEPT ![p] = x]
<1> DEFINE x == IF Len(pass[p].jobs) = 1 THEN NoPass
                ELSE [of |-> pass[p].of, jobs |-> Tail(pass[p].jobs), next |-> "retire",
                      drained |-> pass[p].drained]
<1>1. pass' = [pass EXCEPT ![p] = x]
  BY DEF NextJob, Core, Typed
<1>2. PassShape(x) /\ x.next # "finish"
  <2>1. PassShape(NoPass) /\ NoPass.next # "finish"
    BY DEF NoPass, PassShape
  <2> QED
    BY <2>1 DEF PassShape
<1> QED
  BY <1>1, <1>2

LEMMA StartStep ==
  ASSUME Core, NEW p \in Passes,
         StartTemporary(p) \/ StartPersistent(p) \/ \E r \in Rooms : StartWith(p, r)
  PROVE  Core'
<1>1. CASE StartTemporary(p)
  <2>1. PICK idle \in SUBSET {r \in Temporary : status[r] = "open" /\ ~active[r]} :
          status' = [r \in Rooms |-> IF r \in idle THEN "closed" ELSE status[r]]
    BY <1>1 DEF StartTemporary
  <2>2. PICK jobs : Begin(p, "temporary", jobs)
    BY <1>1 DEF StartTemporary
  <2>3. PICK x : PassShape(x) /\ x.next # "finish" /\ pass' = [pass EXCEPT ![p] = x]
    BY <2>2, Begun
  <2>4. UNCHANGED <<live, retired, aged, receipt>>
    BY <1>1 DEF StartTemporary
  <2>5. /\ status' \in [Rooms -> {"open", "closed", "deleted"}]
        /\ \A r \in Rooms : status'[r] = "deleted" <=> status[r] = "deleted"
    BY <2>1 DEF Core, Typed
  <2>6. EndedStaysEmpty'
    BY <2>4, <2>5 DEF Core, EndedStaysEmpty, Empty, live
  <2> QED
    BY <2>3, <2>4, <2>5, <2>6, QuietStep DEF Core, Typed
<1>2. CASE StartPersistent(p) \/ \E r \in Rooms : StartWith(p, r)
  <2>1. PICK rooms, others : PickPersistent(p, rooms, others)
    BY <1>2 DEF StartPersistent, StartWith
  <2>2. PICK x : PassShape(x) /\ x.next # "finish" /\ pass' = [pass EXCEPT ![p] = x]
    BY <2>1, Begun DEF PickPersistent
  <2>3. UNCHANGED <<live, status, retired, aged, receipt>>
    BY <2>1 DEF PickPersistent
  <2>4. EndedStaysEmpty'
    BY <2>3 DEF Core, EndedStaysEmpty, Empty, live
  <2> QED
    BY <2>2, <2>3, <2>4, QuietStep DEF Core, Typed
<1> QED
  BY <1>1, <1>2

\* A step of a pass that leaves the live room alone and reports nothing.
LEMMA FailedStep ==
  ASSUME Core, NEW p \in Passes, JobFails(p) \/ PassDies(p)
  PROVE  Core'
<1>1. UNCHANGED <<live, status, retired, aged, receipt>>
  BY DEF JobFails, PassDies, durable
<1>2. EndedStaysEmpty'
  BY <1>1 DEF Core, EndedStaysEmpty, Empty, live
<1>3. \E x : PassShape(x) /\ x.next # "finish" /\ pass' = [pass EXCEPT ![p] = x]
  <2>1. PassShape(NoPass) /\ NoPass.next # "finish"
    BY DEF NoPass, PassShape
  <2> QED
    BY <2>1, TurnedToNextJob DEF JobFails, PassDies
<1> QED
  BY <1>1, <1>2, <1>3, QuietStep DEF Core, Typed

LEMMA Proceeded ==
  ASSUME Core, NEW p \in Passes, NEW next, NEW drained, Proceed(p, next, drained)
  PROVE  \E x : /\ PassShape(x) /\ x.jobs = pass[p].jobs /\ x.next = next
                /\ pass' = [pass EXCEPT ![p] = x]
<1> DEFINE x == [of |-> pass[p].of, jobs |-> pass[p].jobs, next |-> next,
                 drained |-> drained]
<1>1. pass' = [pass EXCEPT ![p] = x]
  BY DEF Proceed, Core, Typed
<1>2. PassShape(x) /\ x.jobs = pass[p].jobs /\ x.next = next
  BY DEF PassShape
<1> QED
  BY <1>1, <1>2

LEMMA StopStep ==
  ASSUME Core, NEW p \in Passes, StopAuthority(p)
  PROVE  Core'
<1>1. PICK next, drained : Proceed(p, next, drained) /\ (next = "finish" => ~Job(p).purge)
  BY DEF StopAuthority
<1>2. PICK x : /\ PassShape(x) /\ x.jobs = pass[p].jobs /\ x.next = next
               /\ pass' = [pass EXCEPT ![p] = x]
  BY <1>1, Proceeded
<1>3. PICK room : room = Head(x.jobs).room
  OBVIOUS
<1>4. Retired(room, FALSE) /\ UNCHANGED <<status, retired, aged, receipt>>
  BY <1>2, <1>3 DEF StopAuthority, durable, Job
<1>5. room \in Rooms => Empty(room, FALSE)'
  BY <1>4, RetiredStep DEF Refused
<1>6. x.next = "finish" /\ Head(x.jobs).room \in Rooms =>
        Empty(Head(x.jobs).room, Head(x.jobs).purge)'
  BY <1>1, <1>2, <1>3, <1>5 DEF Empty, Job
<1>7. /\ marked' \in [Rooms -> BOOLEAN] /\ members' \in [Rooms -> BOOLEAN]
      /\ content' \in [Rooms -> BOOLEAN] /\ rejected' \in [Rooms -> BOOLEAN]
      /\ likes' \in [Rooms -> BOOLEAN]
      /\ admitting' \in [Rooms -> {"no", "checked", "granted"}]
      /\ Shut' /\ Lasting
  BY <1>4, RetiredStep
<1> QED
  BY <1>2, <1>4, <1>6, <1>7, PassStep

LEMMA Stands ==
  ASSUME Core, UNCHANGED live
  PROVE  /\ marked' \in [Rooms -> BOOLEAN] /\ members' \in [Rooms -> BOOLEAN]
         /\ content' \in [Rooms -> BOOLEAN] /\ rejected' \in [Rooms -> BOOLEAN]
         /\ likes' \in [Rooms -> BOOLEAN]
         /\ admitting' \in [Rooms -> {"no", "checked", "granted"}]
         /\ Shut' /\ Lasting
BY DEF Core, Typed, Shut, Lasting, Empty, live

LEMMA DrainStep ==
  ASSUME Core, NEW p \in Passes, DrainOutbox(p)
  PROVE  Core'
<1>1. UNCHANGED <<status, retired, aged, receipt>>
  BY DEF DrainOutbox, durable
<1>2. PICK x : PassShape(x) /\ x.next # "finish" /\ pass' = [pass EXCEPT ![p] = x]
  <2>1. CASE Proceed(p, "empty", TRUE)
    <3>1. PICK x : /\ PassShape(x) /\ x.next = "empty"
                   /\ pass' = [pass EXCEPT ![p] = x]
      BY <2>1, Proceeded
    <3> QED
      BY <3>1
  <2>2. CASE NextJob(p)
    BY <2>2, TurnedToNextJob
  <2> QED
    BY <2>1, <2>2 DEF DrainOutbox
<1>3. /\ marked' \in [Rooms -> BOOLEAN] /\ members' \in [Rooms -> BOOLEAN]
      /\ content' \in [Rooms -> BOOLEAN] /\ rejected' \in [Rooms -> BOOLEAN]
      /\ likes' \in [Rooms -> BOOLEAN]
      /\ admitting' \in [Rooms -> {"no", "checked", "granted"}]
      /\ Shut' /\ Lasting
  <2>1. CASE Delivered
    BY <2>1, DeliveredStep DEF DrainOutbox, Core, Typed
  <2>2. CASE UNCHANGED likes
    BY <2>2, Stands DEF DrainOutbox, live
  <2> QED
    BY <2>1, <2>2 DEF DrainOutbox
<1> QED
  BY <1>1, <1>2, <1>3, PassStep

LEMMA RetireStep ==
  ASSUME Core, NEW p \in Passes, RetireRoom(p)
  PROVE  Core'
<1>1. UNCHANGED <<status, retired, aged, receipt>>
  BY DEF RetireRoom, durable
<1>2. CASE Refused(Job(p).room, Job(p).purge)
  <2>1. PICK x : PassShape(x) /\ x.next # "finish" /\ pass' = [pass EXCEPT ![p] = x]
    BY <1>2, TurnedToNextJob DEF RetireRoom
  <2>2. UNCHANGED live
    BY <1>2 DEF RetireRoom
  <2> QED
    BY <1>1, <2>1, <2>2, Stands, PassStep
<1>3. CASE ~Refused(Job(p).room, Job(p).purge)
  <2>1. PICK x : /\ PassShape(x) /\ x.jobs = pass[p].jobs
                 /\ pass' = [pass EXCEPT ![p] = x]
    BY <1>3, Proceeded DEF RetireRoom
  <2>2. PICK room, purge : room = Head(x.jobs).room /\ purge = Head(x.jobs).purge
    OBVIOUS
  <2>3. Retired(room, purge) /\ ~Refused(room, purge)
    BY <1>3, <2>1, <2>2 DEF RetireRoom, Job
  <2>4. Head(x.jobs).room \in Rooms => Empty(Head(x.jobs).room, Head(x.jobs).purge)'
    <3>1. room \in Rooms => Empty(room, purge)'
      BY <2>3, RetiredStep
    <3> QED
      BY <2>2, <3>1 DEF Empty
  <2>5. /\ marked' \in [Rooms -> BOOLEAN] /\ members' \in [Rooms -> BOOLEAN]
        /\ content' \in [Rooms -> BOOLEAN] /\ rejected' \in [Rooms -> BOOLEAN]
        /\ likes' \in [Rooms -> BOOLEAN]
        /\ admitting' \in [Rooms -> {"no", "checked", "granted"}]
        /\ Shut' /\ Lasting
    BY <2>3, RetiredStep
  <2> QED
    BY <1>1, <2>1, <2>4, <2>5, PassStep
<1> QED
  BY <1>2, <1>3

\* What a pass reports is so.
LEMMA JobIsDone ==
  ASSUME Core, NEW p \in Passes, Steps(p) = "finish", Job(p).room \in Rooms
  PROVE  Empty(Job(p).room, Job(p).purge)
<1>1. pass[p].next = "finish"
  BY DEF Steps
<1> QED
  BY <1>1 DEF Core, JobsDone

LEMMA FinishTemporaryStep ==
  ASSUME Core, NEW p \in Passes, FinishTemporary(p)
  PROVE  Core'
<1> DEFINE room == Job(p).room
           purge == Job(p).purge
<1>1. PICK x : PassShape(x) /\ x.next # "finish" /\ pass' = [pass EXCEPT ![p] = x]
  BY TurnedToNextJob DEF FinishTemporary
<1>2. UNCHANGED <<live, aged, receipt>>
  BY DEF FinishTemporary, durable
<1>3. CASE status[room] # "closed"
  <2>1. UNCHANGED <<status, retired>>
    BY <1>3 DEF FinishTemporary, durable
  <2>2. EndedStaysEmpty'
    BY <1>2, <2>1 DEF Core, EndedStaysEmpty, Empty, live
  <2> QED
    BY <1>1, <1>2, <2>1, <2>2, QuietStep DEF Core, Typed
<1>4. CASE status[room] = "closed"
  <2>1. /\ retired' = [retired EXCEPT ![room] = @ \/ ~purge]
        /\ \/ status' = [status EXCEPT ![room] = "deleted"] /\ purge
           \/ status' = status
    BY <1>4 DEF FinishTemporary
  <2>2. /\ retired' \in [Rooms -> BOOLEAN]
        /\ status' \in [Rooms -> {"open", "closed", "deleted"}]
    BY <2>1 DEF Core, Typed
  <2>3. ASSUME NEW r \in Rooms, r \in Temporary, retired'[r]
        PROVE  Empty(r, status[r] = "deleted")'
    <3>1. CASE r = room
      <4>1. Empty(r, purge)
        BY <3>1, JobIsDone DEF FinishTemporary
      <4>2. status'[r] = "deleted" => purge
        BY <1>4, <2>1, <3>1
      <4> QED
        BY <1>2, <4>1, <4>2 DEF Empty, live
    <3>2. CASE r # room
      <4>1. retired[r] /\ status'[r] = status[r]
        BY <2>1, <2>3, <3>2 DEF Core, Typed
      <4>2. Empty(r, status[r] = "deleted")
        BY <2>3, <4>1 DEF Core, EndedStaysEmpty
      <4> QED
        BY <1>2, <4>1, <4>2 DEF Empty, live
    <3> QED
      BY <3>1, <3>2
  <2>4. EndedStaysEmpty'
    BY <1>2, <2>3 DEF Core, EndedStaysEmpty, Empty, live
  <2> QED
    BY <1>1, <1>2, <2>2, <2>4, QuietStep DEF Core, Typed
<1> QED
  BY <1>3, <1>4

LEMMA FinishPersistentStep ==
  ASSUME Core, NEW p \in Passes, FinishPersistent(p)
  PROVE  Core'
<1> DEFINE room == Job(p).room
           purge == Job(p).purge
<1>1. PICK x : PassShape(x) /\ x.next # "finish" /\ pass' = [pass EXCEPT ![p] = x]
  BY TurnedToNextJob DEF FinishPersistent
<1>2. UNCHANGED <<live, status, retired, aged>>
  BY DEF FinishPersistent
<1>3. CASE ~Completes(Job(p))
  <2>1. UNCHANGED receipt
    BY <1>3 DEF FinishPersistent
  <2>2. EndedStaysEmpty'
    BY <1>2, <2>1 DEF Core, EndedStaysEmpty, Empty, live
  <2> QED
    BY <1>1, <1>2, <2>1, <2>2, QuietStep DEF Core, Typed
<1>4. CASE Completes(Job(p))
  <2>1. /\ receipt' = [receipt EXCEPT ![room].completed = TRUE]
        /\ (receipt[room].asks = "purge") = purge
    BY <1>4 DEF FinishPersistent, Completes
  <2>2. receipt' \in [Rooms -> [asks: {"nothing", "stop", "purge"}, completed: BOOLEAN]]
    BY <2>1 DEF Core, Typed
  <2>3. \A r \in Rooms : /\ receipt'[r].asks = receipt[r].asks
                         /\ r # room => receipt'[r] = receipt[r]
    BY <2>1 DEF Core, Typed
  <2>4. ASSUME NEW r \in Rooms, r \in Persistent, receipt'[r] # NoReceipt,
               receipt'[r].completed
        PROVE  Empty(r, receipt[r].asks = "purge")'
    <3>1. CASE r = room
      <4>1. Empty(r, purge)
        BY <3>1, JobIsDone DEF FinishPersistent
      <4>2. receipt'[r].asks = "purge" => purge
        BY <2>1, <2>3, <3>1
      <4> QED
        BY <1>2, <4>1, <4>2 DEF Empty, live
    <3>2. CASE r # room
      <4>1. receipt'[r] = receipt[r]
        BY <2>3, <3>2
      <4>2. Empty(r, receipt[r].asks = "purge")
        BY <2>4, <4>1 DEF Core, EndedStaysEmpty
      <4> QED
        BY <1>2, <4>1, <4>2 DEF Empty, live
    <3> QED
      BY <3>1, <3>2
  <2>5. EndedStaysEmpty'
    BY <1>2, <2>4 DEF Core, EndedStaysEmpty, Empty, live
  <2> QED
    BY <1>1, <1>2, <2>2, <2>5, QuietStep DEF Core, Typed
<1> QED
  BY <1>3, <1>4

LEMMA NextPreserves == Core /\ [Next]_vars => Core'
<1> SUFFICES ASSUME Core, [Next]_vars PROVE Core'
  OBVIOUS
<1>1. ASSUME UNCHANGED <<durable, pass>>, Typed', Lasting, Shut'
      PROVE  Core'
  <2>1. JobsDone'
    BY <1>1 DEF Core, JobsDone, Job, Lasting, Empty
  <2>2. EndedStaysEmpty'
    BY <1>1 DEF Core, EndedStaysEmpty, Lasting, Empty, durable
  <2> QED
    BY <1>1, <2>1, <2>2 DEF Core
<1>2. CASE Use
  BY <1>1, <1>2, UseStep, RowStep DEF Use
<1>3. CASE Time
  BY <1>3, RowStep DEF Time
<1>4. CASE Deliver
  <2>1. UNCHANGED <<durable, pass>> /\ Lasting /\ Shut'
    BY <1>4, DeliveredStep DEF Deliver
  <2>2. Typed'
    BY <1>4, <2>1, DeliveredStep DEF Deliver, Core, Typed, durable
  <2> QED
    BY <1>1, <2>1, <2>2
<1>5. ASSUME NEW p \in Passes, CleanUp(p)
      PROVE  Core'
  BY <1>5, StartStep, StopStep, DrainStep, RetireStep, FinishTemporaryStep,
     FinishPersistentStep, FailedStep DEF CleanUp, Proceeds
<1>6. CASE UNCHANGED vars
  BY <1>6 DEF vars, durable, live, Core, Typed, Shut, JobsDone, Job, EndedStaysEmpty, Empty
<1> QED
  BY <1>2, <1>3, <1>4, <1>5, <1>6 DEF Next

LEMMA InitSound == Init => Core
<1> SUFFICES ASSUME Init PROVE Core
  OBVIOUS
<1>1. \A p \in Passes : pass[p] = NoPass
  BY DEF Init
<1>2. PassShape(NoPass)
  BY DEF PassShape, NoPass
<1>3. Typed
  <2>1. \A r \in Rooms : receipt[r] \in [asks: {"nothing", "stop", "purge"}, completed: BOOLEAN]
    BY DEF Init, NoReceipt
  <2>2. pass = [p \in Passes |-> pass[p]] /\ \A p \in Passes : PassShape(pass[p])
    BY <1>1, <1>2 DEF Init
  <2> QED
    BY <2>1, <2>2 DEF Init, Typed
<1>4. JobsDone
  BY <1>1 DEF JobsDone, NoPass
<1>5. Shut /\ EndedStaysEmpty
  BY DEF Init, Shut, EndedStaysEmpty, NoReceipt
<1> QED
  BY <1>3, <1>4, <1>5 DEF Core

-----------------------------------------------------------------------------
(* Saved rooms. *)

LEMMA SavedRoomStep ==
  ASSUME [Next]_vars, NEW r \in Rooms, saved[r], r \in stale \ stale'
  PROVE  status'[r] = status[r]
<1>1. PICK x \in Rooms : CloseIdle(x)
  BY DEF Next, Use, Time, Deliver, CleanUp, Proceeds, vars, durable, live,
    CloseByOwner, DeleteRoom, Touch, ToggleSaved, CheckMembership, IssueGrant, JoinRoom,
    Act, HourPasses, DayPasses, CloseExpired, FindIdle, StartTemporary, StartPersistent,
    StartWith, PickPersistent, StopAuthority, DrainOutbox, RetireRoom, FinishTemporary,
    FinishPersistent, JobFails, PassDies
<1>2. x = r
  BY <1>1 DEF CloseIdle
<1> QED
  BY <1>1, <1>2 DEF CloseIdle, MayCloseIdle, durable

-----------------------------------------------------------------------------
(* Theorems. *)

\* Marked rooms are shut, a job about to be reported was done, and what is recorded as
\* retired or purged is so.
THEOREM CoreInvariant == Spec => []Core
<1> QED
  BY InitSound, NextPreserves, PTL DEF Spec

\* What the durable store takes for retired or purged (finish_temporary_room_cleanup,
\* finish_persistent_room_retirement) is so in the live room and stays so, for any
\* number of overlapping and failing passes.
THEOREM RetirementLasts == Spec => []EndedStaysEmpty
<1>1. Core => EndedStaysEmpty
  BY DEF Core
<1> QED
  BY <1>1, CoreInvariant, PTL

\* A saved room is not closed as idle, also when it is saved while closeIdleUnsavedRooms
\* is looking at it.
THEOREM SavedStayOpen == Spec => SavedRoomsStayOpen
<1>1. [Next]_vars => [\A r \in Rooms : saved[r] /\ r \in stale \ stale' => status'[r] = status[r]]_vars
  BY SavedRoomStep
<1> QED
  BY <1>1, PTL DEF Spec, SavedRoomsStayOpen

-----------------------------------------------------------------------------
(* Lines of rooms. *)

\* s names every element of S once, and nothing else.
Lists(s, S) == s \in Seq(S) /\ IsInjective(s) /\ \A x \in S : Contains(s, x)

LEMMA ListConcat ==
  ASSUME NEW S, NEW T, S \intersect T = {}, NEW s, NEW t, Lists(s, S), Lists(t, T)
  PROVE  Lists(s \o t, S \union T)
<1>1. /\ s \in Seq(S \union T) /\ t \in Seq(S \union T)
      /\ Len(s) \in Nat /\ Len(t) \in Nat
      /\ DOMAIN s = 1..Len(s) /\ DOMAIN t = 1..Len(t)
      /\ \A i \in 1..Len(s) : s[i] \in S
      /\ \A i \in 1..Len(t) : t[i] \in T
  BY DEF Lists
<1>2. /\ s \o t \in Seq(S \union T) /\ Len(s \o t) = Len(s) + Len(t)
      /\ \A i \in 1..Len(s) + Len(t) : (s \o t)[i] = IF i <= Len(s) THEN s[i] ELSE t[i - Len(s)]
  BY <1>1, ConcatProperties
<1>3. DOMAIN (s \o t) = 1..Len(s) + Len(t)
  BY <1>2
<1>4. \A i \in 1..Len(s) + Len(t) : i <= Len(s) \/ i - Len(s) \in 1..Len(t)
  BY <1>1
<1>5. \A i \in 1..Len(s) : i \in 1..Len(s) + Len(t) /\ (s \o t)[i] = s[i]
  BY <1>1, <1>2
<1>6. \A i \in 1..Len(t) : i + Len(s) \in 1..Len(s) + Len(t) /\ (s \o t)[i + Len(s)] = t[i]
  BY <1>1, <1>2
<1> DEFINE u == s \o t
<1> HIDE DEF u
<1>7. \A i \in 1..Len(s) + Len(t) :
        \/ i \in 1..Len(s) /\ u[i] = s[i] /\ u[i] \in S
        \/ i - Len(s) \in 1..Len(t) /\ u[i] = t[i - Len(s)] /\ u[i] \in T
  BY <1>1, <1>2, <1>4 DEF u
<1>8. \A i, j \in DOMAIN u : u[i] = u[j] => i = j
  BY <1>1, <1>3, <1>7 DEF Lists, IsInjective, u
<1>9. \A x \in S \union T : Contains(u, x)
  <2>1. Len(u) = Len(s) + Len(t)
    BY <1>2 DEF u
  <2>2. ASSUME NEW x \in S PROVE Contains(u, x)
    <3>1. PICK i \in 1..Len(s) : s[i] = x
      BY DEF Lists, Contains
    <3>2. i \in 1..Len(u) /\ u[i] = x
      BY <1>5, <2>1, <3>1 DEF u
    <3> QED
      BY <3>2 DEF Contains
  <2>3. ASSUME NEW x \in T PROVE Contains(u, x)
    <3>1. PICK i \in 1..Len(t) : t[i] = x
      BY DEF Lists, Contains
    <3>2. i + Len(s) \in 1..Len(u) /\ u[i + Len(s)] = x
      BY <1>6, <2>1, <3>1 DEF u
    <3> QED
      BY <3>2 DEF Contains
  <2> QED
    BY <2>2, <2>3
<1> QED
  BY <1>2, <1>8, <1>9 DEF Lists, IsInjective, u

\* A piece of the line.
LEMMA ListPiece ==
  ASSUME NEW S, NEW s, Lists(s, S), NEW a \in Int, NEW b \in Int, 1 <= a, b <= Len(s)
  PROVE  Lists(SubSeq(s, a, b), {s[i] : i \in a..b})
<1> DEFINE T == {s[i] : i \in a..b}
           t == SubSeq(s, a, b)
<1>1. Len(s) \in Nat /\ DOMAIN s = 1..Len(s) /\ \A i \in a..b : s[i] \in T /\ i \in 1..Len(s)
  BY DEF Lists
<1>2. /\ t \in Seq(T) /\ Len(t) = IF a <= b THEN b - a + 1 ELSE 0
      /\ \A i \in 1..b - a + 1 : t[i] = s[a + i - 1]
  BY <1>1, SubSeqProperties
<1>3. DOMAIN t = 1..Len(t) /\ 1..Len(t) = 1..b - a + 1
  BY <1>2
<1> HIDE DEF t
<1>4. \A i, j \in DOMAIN t : t[i] = t[j] => i = j
  <2>1. SUFFICES ASSUME NEW i \in 1..b - a + 1, NEW j \in 1..b - a + 1, t[i] = t[j]
                 PROVE  i = j
    BY <1>3
  <2>2. a + i - 1 \in 1..Len(s) /\ a + j - 1 \in 1..Len(s)
    BY <1>1
  <2>3. s[a + i - 1] = s[a + j - 1]
    BY <1>2, <2>1
  <2>4. a + i - 1 = a + j - 1
    BY <1>1, <2>2, <2>3 DEF Lists, IsInjective
  <2> QED
    BY <2>4
<1>5. ASSUME NEW i \in a..b PROVE Contains(t, s[i])
  <2>1. i - a + 1 \in 1..b - a + 1 /\ a + (i - a + 1) - 1 = i
    BY <1>5
  <2> QED
    BY <1>2, <1>3, <2>1 DEF Contains
<1> QED
  BY <1>2, <1>4, <1>5 DEF Lists, IsInjective, t

LEMMA ListOne ==
  ASSUME NEW x
  PROVE  Lists(<<x>>, {x})
BY DEF Lists, IsInjective, Contains

LEMMA ListAppend ==
  ASSUME NEW S, NEW s, Lists(s, S), NEW x, x \notin S
  PROVE  Lists(Append(s, x), S \union {x})
<1>1. Lists(s \o <<x>>, S \union {x})
  BY ListConcat, ListOne
<1>2. s \in Seq(S \union {x})
  BY DEF Lists
<1>3. Append(s, x) = s \o <<x>>
  BY <1>2
<1> QED
  BY <1>1, <1>3

\* The line up to a place, and from there on.
LEMMA ListSplit ==
  ASSUME NEW S, NEW s, Lists(s, S), NEW n \in 0..Len(s)
  PROVE  \E A, B : /\ A \union B = S /\ A \intersect B = {}
                   /\ Lists(SubSeq(s, 1, n), A) /\ Lists(SubSeq(s, n + 1, Len(s)), B)
<1> DEFINE A == {s[i] : i \in 1..n}
           B == {s[i] : i \in n + 1..Len(s)}
<1>1. Len(s) \in Nat /\ n \in Int /\ n + 1 \in Int /\ DOMAIN s = 1..Len(s)
  BY DEF Lists
<1>2. Lists(SubSeq(s, 1, n), A) /\ Lists(SubSeq(s, n + 1, Len(s)), B)
  BY <1>1, ListPiece
<1>3. A \union B = S
  <2>1. \A i \in 1..Len(s) : s[i] \in S /\ (i \in 1..n \/ i \in n + 1..Len(s))
    BY <1>1 DEF Lists
  <2>2. \A x \in S : \E i \in 1..Len(s) : s[i] = x
    BY DEF Lists, Contains
  <2> QED
    BY <1>1, <2>1, <2>2
<1>4. A \intersect B = {}
  BY <1>1 DEF Lists, IsInjective
<1> QED
  BY <1>2, <1>3, <1>4

\* The head of the line goes to its end.
LEMMA ListTurned ==
  ASSUME NEW S, NEW s, Lists(s, S), NEW n \in 0..Len(s)
  PROVE  Lists(SubSeq(s, n + 1, Len(s)) \o SubSeq(s, 1, n), S)
<1>1. PICK A, B : /\ A \union B = S /\ A \intersect B = {}
                  /\ Lists(SubSeq(s, 1, n), A) /\ Lists(SubSeq(s, n + 1, Len(s)), B)
  BY ListSplit
<1>2. B \intersect A = {} /\ B \union A = S
  BY <1>1
<1> QED
  BY <1>1, <1>2, ListConcat

\* Somebody comes in anywhere.
LEMMA ListInsert ==
  ASSUME NEW S, NEW s, Lists(s, S), NEW x, x \notin S, NEW i \in 1..Len(s) + 1
  PROVE  Lists(InsertAt(s, i, x), S \union {x})
<1>1. Len(s) \in Nat /\ i - 1 \in 0..Len(s) /\ i - 1 + 1 = i
  BY DEF Lists
<1>2. PICK A, B : /\ A \union B = S /\ A \intersect B = {}
                  /\ Lists(SubSeq(s, 1, i - 1), A) /\ Lists(SubSeq(s, i - 1 + 1, Len(s)), B)
  BY <1>1, ListSplit
<1>3. Lists(SubSeq(s, 1, i - 1) \o <<x>>, A \union {x})
  BY <1>2, ListConcat, ListOne
<1>4. Lists((SubSeq(s, 1, i - 1) \o <<x>>) \o SubSeq(s, i, Len(s)), (A \union {x}) \union B)
  BY <1>1, <1>2, <1>3, ListConcat
<1>5. (A \union {x}) \union B = S \union {x}
  BY <1>2
<1> QED
  BY <1>4, <1>5 DEF InsertAt

\* Somebody leaves.
LEMMA ListRemove ==
  ASSUME NEW S, NEW s, Lists(s, S), NEW x
  PROVE  Lists(RemoveFirst(s, x), S \ {x})
<1>1. Len(s) \in Nat /\ DOMAIN s = 1..Len(s) /\ \A i \in 1..Len(s) : s[i] \in S
  BY DEF Lists
<1>2. CASE ~ \E i \in 1..Len(s) : s[i] = x
  <2>1. RemoveFirst(s, x) = s
    BY <1>2 DEF RemoveFirst
  <2>2. S \ {x} = S
    BY <1>2 DEF Lists, Contains
  <2> QED
    BY <2>1, <2>2, Zenon
<1>3. ASSUME NEW k \in 1..Len(s), s[k] = x
      PROVE  Lists(RemoveFirst(s, x), S \ {x})
  <2>1. {i \in 1..Len(s) : s[i] = x} = {k}
    BY <1>1, <1>3 DEF Lists, IsInjective
  <2>2. Min({k}) = k
    BY DEF Min
  <2>3. SelectInSeq(s, LAMBDA v : v = x) = k
    BY <2>1, <2>2 DEF SelectInSeq
  <2>4. RemoveFirst(s, x) = SubSeq(s, 1, k - 1) \o SubSeq(s, k + 1, Len(s))
    BY <1>3, <2>3 DEF RemoveFirst, RemoveAt
  <2> DEFINE A == {s[i] : i \in 1..k - 1}
             B == {s[i] : i \in k + 1..Len(s)}
  <2>5. Lists(SubSeq(s, 1, k - 1), A) /\ Lists(SubSeq(s, k + 1, Len(s)), B)
    BY <1>1, <1>3, ListPiece
  <2>6. A \intersect B = {}
    BY <1>1 DEF Lists, IsInjective
  <2>7. A \union B = S \ {x}
    <3>1. \A i \in 1..Len(s) : i = k \/ i \in 1..k - 1 \/ i \in k + 1..Len(s)
      BY <1>1
    <3>2. \A i \in 1..Len(s) : i # k => s[i] # x
      BY <2>1
    <3>3. \A y \in S : \E i \in 1..Len(s) : s[i] = y
      BY DEF Lists, Contains
    <3> QED
      BY <1>1, <1>3, <3>1, <3>2, <3>3
  <2> HIDE DEF A, B
  <2>8. Lists(SubSeq(s, 1, k - 1) \o SubSeq(s, k + 1, Len(s)), A \union B)
    BY <2>5, <2>6, ListConcat
  <2> QED
    BY <2>4, <2>7, <2>8
<1> QED
  BY <1>2, <1>3

\* The rooms of a set in some order.
LEMMA ListOrdered ==
  ASSUME NEW S, IsFiniteSet(S), NEW s \in SetToSeqs(S)
  PROVE  Lists(s, S)
<1> DEFINE n == Cardinality(S)
<1>1. n \in Nat
  BY FS_CardinalityType
<1>2. /\ s \in [1..n -> S]
      /\ \A i, j \in 1..n : i # j => s[i] # s[j]
  BY DEF SetToSeqs
<1>3. s \in Seq(S) /\ Len(s) = n
  BY <1>1, <1>2
<1>4. IsInjective(s)
  BY <1>2 DEF IsInjective
<1>5. ASSUME NEW x \in S PROVE Contains(s, x)
  <2>1. SUFFICES ASSUME \A i \in 1..n : s[i] # x
                 PROVE  FALSE
    BY <1>3 DEF Contains
  <2>2. s \in Injection(1..n, S \ {x})
    BY <1>2, <1>4, <2>1 DEF Injection
  <2>3. IsFiniteSet(S \ {x}) /\ Cardinality(S \ {x}) = n - 1
    BY <1>5, FS_RemoveElement
  <2>4. Cardinality(1..n) <= Cardinality(S \ {x})
    BY <2>2, <2>3, FS_Injection
  <2>5. Cardinality(1..n) = n
    BY <1>1, FS_Interval
  <2> QED
    BY <1>1, <2>3, <2>4, <2>5
<1> QED
  BY <1>3, <1>4, <1>5 DEF Lists

-----------------------------------------------------------------------------
(* Types and bounds. *)

Waiting == {r \in Rooms : ~receipt[r].completed}
ClosedTemporary == {r \in Temporary : status[r] = "closed"}

\* A pass has a few jobs; one without jobs is none.
PassBounded(x) ==
  /\ x.of \in {"nothing", "temporary", "persistent"}
  /\ x.next \in {"retire", "drain", "empty", "finish"}
  /\ \E S : x.jobs \in Seq(S)
  /\ Len(x.jobs) <= Batch
  /\ x.jobs = <<>> <=> x = NoPass

Bounded ==
  /\ active \in [Rooms -> BOOLEAN] /\ saved \in [Rooms -> BOOLEAN]
  /\ stale \subseteq Legacy
  /\ failures \in 0..MaxFailures
  /\ Lists(line, Waiting) /\ Lists(expired, ClosedTemporary)
  /\ \A p \in Passes : PassBounded(pass[p])

\* A room with a new receipt goes to the end of the line, one with an old receipt
\* anywhere; it is in line once.
LEMMA CaptureLists ==
  ASSUME Core, Lists(line, Waiting), NEW r \in Rooms, NEW deleted, Capture(r, deleted)
  PROVE  Lists(line, Waiting)'
<1>1. CASE r \in Temporary
  BY <1>1 DEF Capture, Lists, Waiting, IsInjective, Contains
<1>2. CASE r \notin Temporary /\ receipt[r] = NoReceipt
  <2>1. PICK asks : receipt' = [receipt EXCEPT ![r] = [asks |-> asks, completed |-> FALSE]]
    BY <1>2 DEF Capture
  <2>2. Waiting' = Waiting \union {r} /\ r \notin Waiting
    BY <1>2, <2>1 DEF Waiting, Core, Typed, NoReceipt
  <2>3. line' = Append(line, r)
    BY <1>2 DEF Capture
  <2>4. Lists(line', Waiting')
    BY <2>2, <2>3, ListAppend
  <2> QED
    BY <2>4 DEF Lists, IsInjective, Contains
<1>3. CASE r \notin Temporary /\ receipt[r] # NoReceipt
  <2> DEFINE others == RemoveFirst(line, r)
  <2>1. /\ receipt' = [receipt EXCEPT ![r] = [asks |-> "purge", completed |-> FALSE]]
        /\ PutBack(r)
    BY <1>3 DEF Capture
  <2>2. PICK i \in 1..Len(others) + 1 : line' = InsertAt(others, i, r)
    BY <2>1 DEF PutBack
  <2>3. Lists(others, Waiting \ {r})
    BY ListRemove
  <2> HIDE DEF others
  <2>4. Lists(line', (Waiting \ {r}) \union {r})
    BY <2>2, <2>3, ListInsert
  <2>5. Waiting' = (Waiting \ {r}) \union {r}
    BY <2>1 DEF Waiting, Core, Typed
  <2> QED
    BY <2>4, <2>5 DEF Lists, IsInjective, Contains
<1> QED
  BY <1>1, <1>2, <1>3

LEMMA CloseLists ==
  ASSUME Core, Bounded, NEW r \in Rooms, status[r] = "open", CloseRoom(r)
  PROVE  Lists(line, Waiting)' /\ Lists(expired, ClosedTemporary)'
<1>1. Lists(line, Waiting)'
  BY CaptureLists DEF CloseRoom, Bounded
<1>2. CASE r \in Temporary
  <2>1. ClosedTemporary' = ClosedTemporary \union {r} /\ r \notin ClosedTemporary
    BY <1>2, KindsAssumption DEF CloseRoom, ClosedTemporary, Core, Typed
  <2>2. expired' = Append(expired, r)
    BY <1>2 DEF CloseRoom
  <2>3. Lists(expired', ClosedTemporary')
    BY <2>1, <2>2, ListAppend DEF Bounded
  <2> QED
    BY <1>1, <2>3 DEF Lists, IsInjective, Contains
<1>3. CASE r \notin Temporary
  <2>1. ClosedTemporary' = ClosedTemporary /\ expired' = expired
    BY <1>3, KindsAssumption DEF CloseRoom, ClosedTemporary, Core, Typed
  <2> QED
    BY <1>1, <2>1 DEF Lists, IsInjective, Contains, Bounded
<1> QED
  BY <1>2, <1>3

LEMMA NothingListed ==
  ASSUME Bounded, UNCHANGED <<line, expired, receipt, status>>
  PROVE  Lists(line, Waiting)' /\ Lists(expired, ClosedTemporary)'
BY DEF Bounded, Lists, IsInjective, Contains, Waiting, ClosedTemporary

\* Rows that change by themselves.
LEMMA RowsListed ==
  ASSUME Core, Bounded, NEW r \in Rooms,
         \/ CloseByOwner(r) \/ DeleteRoom(r) \/ Touch(r) \/ ToggleSaved(r)
         \/ HourPasses(r) \/ DayPasses(r) \/ CloseExpired(r) \/ FindIdle(r) \/ CloseIdle(r)
         \/ CheckMembership(r) \/ IssueGrant(r) \/ JoinRoom(r) \/ Act(r)
  PROVE  Bounded'
<1>1. UNCHANGED <<pass, failures>>
  BY DEF CloseByOwner, DeleteRoom, Touch, ToggleSaved, HourPasses, DayPasses, CloseExpired,
         FindIdle, CloseIdle, CheckMembership, IssueGrant, JoinRoom, Act
<1>2. /\ active' \in [Rooms -> BOOLEAN] /\ saved' \in [Rooms -> BOOLEAN]
      /\ stale' \subseteq Legacy
  BY DEF CloseByOwner, DeleteRoom, Touch, ToggleSaved, HourPasses, DayPasses, CloseExpired,
         FindIdle, CloseIdle, CheckMembership, IssueGrant, JoinRoom, Act, CloseRoom, Bounded,
         durable
<1>3. Lists(line, Waiting)' /\ Lists(expired, ClosedTemporary)'
  <2>1. CASE CloseByOwner(r) \/ CloseExpired(r)
    BY <2>1, CloseLists DEF CloseByOwner, CloseExpired
  <2>2. CASE CloseIdle(r)
    <3>1. CASE MayCloseIdle(r)
      BY <2>2, <3>1, CloseLists DEF CloseIdle, MayCloseIdle
    <3>2. CASE ~MayCloseIdle(r)
      BY <2>2, <3>2, NothingListed DEF CloseIdle, durable
    <3> QED
      BY <3>1, <3>2
  <2>3. CASE DeleteRoom(r)
    <3>1. Lists(line, Waiting)'
      BY <2>3, CaptureLists DEF DeleteRoom, Bounded
    <3>2. ClosedTemporary' = ClosedTemporary /\ expired' = expired
      BY <2>3, KindsAssumption DEF DeleteRoom, Persistent, ClosedTemporary, Core, Typed
    <3> QED
      BY <3>1, <3>2 DEF Bounded, Lists, IsInjective, Contains
  <2>4. CASE Touch(r) \/ ToggleSaved(r) \/ HourPasses(r) \/ DayPasses(r) \/ FindIdle(r)
             \/ CheckMembership(r) \/ IssueGrant(r) \/ JoinRoom(r) \/ Act(r)
    <3>1. UNCHANGED <<line, expired, receipt, status>>
      BY <2>4 DEF Touch, ToggleSaved, HourPasses, DayPasses, FindIdle, CheckMembership,
                  IssueGrant, JoinRoom, Act, durable
    <3> QED
      BY <3>1, NothingListed
  <2> QED
    BY <2>1, <2>2, <2>3, <2>4
<1> QED
  BY <1>1, <1>2, <1>3 DEF Bounded, PassBounded

\* A pass that begins has at least one job, and not too many.
LEMMA TemporaryJobsBounded ==
  ASSUME NEW rooms, NEW S, rooms \in Seq(S)
  PROVE  (\E T : TemporaryJobs(rooms) \in Seq(T)) /\ Len(TemporaryJobs(rooms)) <= Batch
<1> DEFINE due == {i \in DOMAIN rooms : ~retired[rooms[i]] \/ aged[rooms[i]]}
           nth(k) == rooms[CHOOSE i \in due : Cardinality({j \in due : j <= i}) = k]
           job(k) == [room |-> nth(k), purge |-> retired[nth(k)] /\ aged[nth(k)]]
           n == IF Cardinality(due) <= Batch THEN Cardinality(due) ELSE Batch
           ks == {k \in 1..Batch : k <= Cardinality(due)}
<1>1. IsFiniteSet(due)
  <2>1. DOMAIN rooms = 1..Len(rooms) /\ Len(rooms) \in Nat
    OBVIOUS
  <2>2. IsFiniteSet(1..Len(rooms))
    BY <2>1, FS_Interval
  <2> QED
    BY <2>1, <2>2, FS_Subset
<1>2. Cardinality(due) \in Nat /\ Batch \in Nat
  BY <1>1, FS_CardinalityType, BoundsAssumption
<1>3. TemporaryJobs(rooms) = [k \in ks |-> job(k)]
  BY DEF TemporaryJobs
<1> HIDE DEF due
<1>4. ks = 1..n /\ n \in Nat /\ n <= Batch
  BY <1>2
<1> HIDE DEF n, ks, job
<1> DEFINE T == {job(k) : k \in 1..n}
           jobs == [k \in 1..n |-> job(k)]
<1>5. jobs \in Seq(T) /\ Len(jobs) = n
  BY <1>4
<1> QED
  BY <1>3, <1>4, <1>5

LEMMA PersistentJobsBounded ==
  ASSUME NEW rooms, NEW S, rooms \in Seq(S)
  PROVE  (\E T : PersistentJobs(rooms) \in Seq(T)) /\ Len(PersistentJobs(rooms)) = Len(rooms)
<1> DEFINE job(i) == [room |-> rooms[i], purge |-> receipt[rooms[i]].asks = "purge"]
           T == {job(i) : i \in 1..Len(rooms)}
<1>1. Len(rooms) \in Nat /\ DOMAIN rooms = 1..Len(rooms)
  OBVIOUS
<1>2. PersistentJobs(rooms) = [i \in 1..Len(rooms) |-> job(i)]
  BY <1>1 DEF PersistentJobs
<1> HIDE DEF job
<1>3. [i \in 1..Len(rooms) |-> job(i)] \in Seq(T)
  BY <1>1
<1>4. Len([i \in 1..Len(rooms) |-> job(i)]) = Len(rooms)
  BY <1>1, <1>3
<1> QED
  BY <1>2, <1>3, <1>4

LEMMA BegunBounded ==
  ASSUME Core, Bounded, NEW p \in Passes, NEW kind \in {"temporary", "persistent"},
         NEW jobs, NEW T, jobs \in Seq(T), Len(jobs) <= Batch, jobs # <<>>, Begin(p, kind, jobs)
  PROVE  \A q \in Passes : PassBounded(pass'[q])
<1> DEFINE x == [of |-> kind, jobs |-> jobs, next |-> "retire", drained |-> FALSE]
<1>1. \A q \in Passes : pass'[q] = IF q = p THEN x ELSE pass[q]
  BY DEF Begin, Core, Typed
<1>2. x.of = kind /\ x.jobs = jobs /\ x.next = "retire" /\ x # NoPass
  BY DEF NoPass
<1> HIDE DEF x
<1>3. PassBounded(x)
  BY <1>2 DEF PassBounded
<1> QED
  BY <1>1, <1>3 DEF Bounded

\* A pass that goes on with its next job, or has done its last one.
LEMMA NextJobBounded ==
  ASSUME Core, Bounded, NEW p \in Passes, pass[p] # NoPass, NextJob(p)
  PROVE  \A q \in Passes : PassBounded(pass'[q])
<1> DEFINE jobs == pass[p].jobs
           y == [of |-> pass[p].of, jobs |-> Tail(jobs), next |-> "retire",
                 drained |-> pass[p].drained]
           x == IF Len(jobs) = 1 THEN NoPass ELSE y
<1>1. \A q \in Passes : pass'[q] = IF q = p THEN x ELSE pass[q]
  BY DEF NextJob, Core, Typed
<1>2. PassBounded(pass[p])
  BY DEF Bounded
<1>3. PICK S : jobs \in Seq(S)
  BY <1>2 DEF PassBounded
<1>4. jobs # <<>> /\ Len(jobs) <= Batch
  BY <1>2 DEF PassBounded
<1>5. CASE Len(jobs) = 1
  <2>1. PassBounded(NoPass)
    <3>1. NoPass.jobs = <<>> /\ NoPass.of = "nothing" /\ NoPass.next = "retire"
      BY DEF NoPass
    <3>2. NoPass.jobs \in Seq(S) /\ Len(NoPass.jobs) <= Batch
      BY <3>1, BoundsAssumption
    <3> QED
      BY <3>1, <3>2 DEF PassBounded
  <2> QED
    BY <1>1, <1>5, <2>1 DEF Bounded
<1>6. CASE Len(jobs) # 1
  <2>1. Len(jobs) \in Nat /\ Len(jobs) # 0 /\ Batch \in Nat
    <3> HIDE DEF jobs
    <3> QED
      BY <1>3, <1>4, BoundsAssumption
  <2>2. Tail(jobs) \in Seq(S) /\ Len(Tail(jobs)) = Len(jobs) - 1
    BY <1>3, <1>4
  <2>3. Tail(jobs) # <<>> /\ Len(Tail(jobs)) <= Batch
    <3> DEFINE tail == Tail(jobs)
    <3> HIDE DEF jobs
    <3>1. tail \in Seq(S) /\ Len(tail) = Len(jobs) - 1
      BY <2>2
    <3> HIDE DEF tail
    <3>2. tail # <<>> /\ Len(tail) <= Batch
      BY <1>4, <1>6, <2>1, <3>1
    <3> QED
      BY <3>2 DEF tail
  <2>4. y.of = pass[p].of /\ y.jobs = Tail(jobs) /\ y.next = "retire"
    OBVIOUS
  <2>5. NoPass.jobs = <<>>
    BY DEF NoPass
  <2> HIDE DEF y, jobs
  <2>6. PassBounded(y)
    BY <1>2, <2>2, <2>3, <2>4, <2>5 DEF PassBounded
  <2> QED
    BY <1>1, <1>6, <2>6 DEF Bounded
<1> QED
  BY <1>5, <1>6

\* A pass that goes on with its job.
LEMMA ProceedBounded ==
  ASSUME Core, Bounded, NEW p \in Passes, pass[p] # NoPass,
         NEW next \in {"drain", "empty", "finish"}, NEW drained, Proceed(p, next, drained)
  PROVE  \A q \in Passes : PassBounded(pass'[q])
<1> DEFINE x == [of |-> pass[p].of, jobs |-> pass[p].jobs, next |-> next,
                 drained |-> drained]
<1>1. \A q \in Passes : pass'[q] = IF q = p THEN x ELSE pass[q]
  BY DEF Proceed, Core, Typed
<1>2. PassBounded(pass[p])
  BY DEF Bounded
<1>3. x.of = pass[p].of /\ x.jobs = pass[p].jobs /\ x.next = next
  OBVIOUS
<1>4. NoPass.next = "retire"
  BY DEF NoPass
<1> HIDE DEF x
<1>5. PassBounded(x)
  BY <1>2, <1>3, <1>4 DEF PassBounded
<1> QED
  BY <1>1, <1>5 DEF Bounded

LEMMA StartTemporaryBounded ==
  ASSUME Core, Bounded, NEW p \in Passes, StartTemporary(p)
  PROVE  Bounded'
<1>1. PICK idle \in SUBSET {r \in Temporary : status[r] = "open" /\ ~active[r]} :
      \E closed \in SetToSeqs(idle) :
        /\ TemporaryJobs(expired \o closed) # <<>>
        /\ status' = [r \in Rooms |-> IF r \in idle THEN "closed" ELSE status[r]]
        /\ expired' = expired \o closed
        /\ Begin(p, "temporary", TemporaryJobs(expired \o closed))
  BY DEF StartTemporary
<1>2. PICK closed \in SetToSeqs(idle) :
        /\ TemporaryJobs(expired \o closed) # <<>>
        /\ status' = [r \in Rooms |-> IF r \in idle THEN "closed" ELSE status[r]]
        /\ expired' = expired \o closed
        /\ Begin(p, "temporary", TemporaryJobs(expired \o closed))
  BY <1>1
<1>3. idle \subseteq Rooms /\ IsFiniteSet(idle)
  BY KindsAssumption, RoomsAssumption, FS_Subset
<1>4. Lists(closed, idle)
  BY <1>3, ListOrdered
<1>5. ClosedTemporary' = ClosedTemporary \union idle /\ ClosedTemporary \intersect idle = {}
  BY <1>2, <1>3, KindsAssumption DEF ClosedTemporary
<1>6. Lists(expired', ClosedTemporary')
  BY <1>2, <1>4, <1>5, ListConcat DEF Bounded
<1>7. Lists(line, Waiting)' /\ Lists(expired, ClosedTemporary)'
  <2>1. UNCHANGED <<receipt, line>>
    BY DEF StartTemporary
  <2> QED
    BY <1>6, <2>1 DEF Bounded, Lists, IsInjective, Contains, Waiting
<1>8. \A q \in Passes : PassBounded(pass'[q])
  <2> DEFINE rooms == expired \o closed
             jobs == TemporaryJobs(rooms)
  <2>1. rooms \in Seq(ClosedTemporary')
    BY <1>2, <1>6 DEF Lists
  <2>2. jobs # <<>> /\ Begin(p, "temporary", jobs)
    BY <1>2
  <2> HIDE DEF rooms
  <2>3. (\E T : jobs \in Seq(T)) /\ Len(jobs) <= Batch
    BY <2>1, TemporaryJobsBounded
  <2> HIDE DEF jobs
  <2> QED
    BY <2>2, <2>3, BegunBounded
<1> QED
  BY <1>7, <1>8 DEF StartTemporary, Bounded, PassBounded

LEMMA PickPersistentBounded ==
  ASSUME Core, Bounded, NEW p \in Passes, NEW picked, NEW others,
         picked # <<>>, Len(picked) <= Batch, Lists(others \o picked, Waiting),
         NEW S, picked \in Seq(S), PickPersistent(p, picked, others)
  PROVE  Bounded'
<1>1. Lists(line, Waiting)' /\ Lists(expired, ClosedTemporary)'
  BY DEF PickPersistent, Requeued, Bounded, Lists, IsInjective, Contains, Waiting,
         ClosedTemporary
<1>2. \A q \in Passes : PassBounded(pass'[q])
  <2> DEFINE jobs == PersistentJobs(picked)
  <2>1. (\E T : jobs \in Seq(T)) /\ Len(jobs) = Len(picked)
    BY PersistentJobsBounded
  <2>2. Begin(p, "persistent", jobs)
    BY DEF PickPersistent
  <2> HIDE DEF jobs
  <2>3. Len(jobs) <= Batch /\ jobs # <<>>
    BY <2>1
  <2> QED
    BY <2>1, <2>2, <2>3, BegunBounded
<1> QED
  BY <1>1, <1>2 DEF PickPersistent, Bounded, PassBounded

LEMMA StartPersistentBounded ==
  ASSUME Core, Bounded, NEW p \in Passes, StartPersistent(p)
  PROVE  Bounded'
<1> DEFINE n == IF Len(line) < Batch THEN Len(line) ELSE Batch
           picked == SubSeq(line, 1, n)
           others == SubSeq(line, n + 1, Len(line))
<1>1. line \in Seq(Waiting) /\ Lists(line, Waiting) /\ line # <<>>
  BY DEF Bounded, Lists, StartPersistent
<1>2. Len(line) \in Nat /\ Len(line) > 0
  BY <1>1
<1>3. n \in 0..Len(line) /\ n <= Batch /\ n > 0
  BY <1>2, BoundsAssumption
<1>4. FirstOf(line) = picked
  BY DEF FirstOf
<1> HIDE DEF n
<1>5. picked \in Seq(Waiting) /\ Len(picked) = n
  BY <1>1, <1>2, <1>3, SubSeqProperties
<1>6. PickPersistent(p, picked, others)
  BY <1>4, <1>5 DEF StartPersistent
<1>7. Lists(others \o picked, Waiting)
  BY <1>1, <1>3, ListTurned
<1>8. picked # <<>> /\ Len(picked) <= Batch
  BY <1>3, <1>5
<1> HIDE DEF picked, others
<1> QED
  BY <1>5, <1>6, <1>7, <1>8, PickPersistentBounded

LEMMA StartWithBounded ==
  ASSUME Core, Bounded, NEW p \in Passes, NEW r \in Rooms, StartWith(p, r)
  PROVE  Bounded'
<1> DEFINE others == RemoveFirst(line, r)
<1>1. Lists(others, Waiting \ {r})
  BY ListRemove DEF Bounded
<1>2. PickPersistent(p, <<r>>, others)
  BY DEF StartWith
<1>3. r \in Waiting
  BY DEF StartWith, Contains, Bounded, Lists
<1> HIDE DEF others
<1>4. Lists(others \o <<r>>, (Waiting \ {r}) \union {r})
  BY <1>1, ListConcat, ListOne
<1>5. (Waiting \ {r}) \union {r} = Waiting
  BY <1>3
<1>6. <<r>> # <<>> /\ Len(<<r>>) <= Batch /\ <<r>> \in Seq({r})
  BY BoundsAssumption
<1> QED
  BY <1>2, <1>4, <1>5, <1>6, PickPersistentBounded

\* A pass at work.
LEMMA ProceedsBounded ==
  ASSUME Core, Bounded, NEW p \in Passes, StopAuthority(p) \/ DrainOutbox(p) \/ RetireRoom(p)
  PROVE  Bounded'
<1>1. UNCHANGED <<durable, stale, failures>>
  BY DEF StopAuthority, DrainOutbox, RetireRoom
<1>2. \A q \in Passes : PassBounded(pass'[q])
  <2>1. \/ pass[p] # NoPass /\ NextJob(p)
        \/ pass[p] # NoPass /\ \E next \in {"drain", "empty", "finish"} : \E drained :
                                 Proceed(p, next, drained)
    <3>1. CASE StopAuthority(p)
      BY <3>1 DEF StopAuthority
    <3>2. CASE DrainOutbox(p)
      BY <3>2 DEF DrainOutbox
    <3>3. CASE RetireRoom(p)
      BY <3>3 DEF RetireRoom
    <3> QED
      BY <3>1, <3>2, <3>3
  <2> QED
    BY <2>1, NextJobBounded, ProceedBounded
<1>3. Lists(line, Waiting)' /\ Lists(expired, ClosedTemporary)'
  BY <1>1, NothingListed DEF durable
<1> QED
  BY <1>1, <1>2, <1>3 DEF Bounded, PassBounded, durable

LEMMA FinishTemporaryBounded ==
  ASSUME Core, Bounded, NEW p \in Passes, FinishTemporary(p)
  PROVE  Bounded'
<1> DEFINE r == Job(p).room
<1>1. UNCHANGED <<active, saved, receipt, line, stale, failures>>
  BY DEF FinishTemporary, durable
<1>2. \A q \in Passes : PassBounded(pass'[q])
  BY NextJobBounded DEF FinishTemporary
<1>3. \/ UNCHANGED <<status, expired>>
      \/ status' = [status EXCEPT ![r] = "deleted"] /\ expired' = RemoveFirst(expired, r)
  BY DEF FinishTemporary, durable
<1> HIDE DEF r
<1>4. Lists(line, Waiting)' /\ Lists(expired, ClosedTemporary)'
  <2>1. CASE UNCHANGED <<status, expired>>
    BY <1>1, <2>1, NothingListed
  <2>2. CASE status' = [status EXCEPT ![r] = "deleted"] /\ expired' = RemoveFirst(expired, r)
    <3>1. Lists(expired', ClosedTemporary \ {r})
      BY <2>2, ListRemove DEF Bounded
    <3>2. ClosedTemporary' = ClosedTemporary \ {r}
      BY <2>2, KindsAssumption DEF ClosedTemporary, Core, Typed
    <3> QED
      BY <1>1, <3>1, <3>2 DEF Bounded, Lists, IsInjective, Contains, Waiting
  <2> QED
    BY <1>3, <2>1, <2>2
<1> QED
  BY <1>1, <1>2, <1>4 DEF Bounded, PassBounded

LEMMA FinishPersistentBounded ==
  ASSUME Core, Bounded, NEW p \in Passes, FinishPersistent(p)
  PROVE  Bounded'
<1> DEFINE r == Job(p).room
<1>1. UNCHANGED <<active, saved, status, expired, stale, failures>>
  BY DEF FinishPersistent
<1>2. \A q \in Passes : PassBounded(pass'[q])
  BY NextJobBounded DEF FinishPersistent
<1>3. \/ UNCHANGED <<receipt, line>>
      \/ receipt' = [receipt EXCEPT ![r].completed = TRUE] /\ line' = RemoveFirst(line, r)
  BY DEF FinishPersistent
<1> HIDE DEF r
<1>4. Lists(line, Waiting)' /\ Lists(expired, ClosedTemporary)'
  <2>1. CASE UNCHANGED <<receipt, line>>
    BY <1>1, <2>1, NothingListed
  <2>2. CASE receipt' = [receipt EXCEPT ![r].completed = TRUE] /\ line' = RemoveFirst(line, r)
    <3>1. Lists(line', Waiting \ {r})
      BY <2>2, ListRemove DEF Bounded
    <3>2. Waiting' = Waiting \ {r}
      BY <2>2 DEF Waiting, Core, Typed
    <3> QED
      BY <1>1, <3>1, <3>2 DEF Bounded, Lists, IsInjective, Contains, ClosedTemporary
  <2> QED
    BY <1>3, <2>1, <2>2
<1> QED
  BY <1>1, <1>2, <1>4 DEF Bounded, PassBounded

LEMMA FailedBounded ==
  ASSUME Core, Bounded, NEW p \in Passes, JobFails(p) \/ PassDies(p)
  PROVE  Bounded'
<1>1. UNCHANGED <<durable, stale>> /\ failures' \in 0..MaxFailures
  BY BoundsAssumption DEF JobFails, PassDies, Bounded
<1>2. \A q \in Passes : PassBounded(pass'[q])
  <2>1. CASE JobFails(p)
    BY <2>1, NextJobBounded DEF JobFails
  <2>2. CASE PassDies(p)
    <3>1. \A q \in Passes : pass'[q] = IF q = p THEN NoPass ELSE pass[q]
      BY <2>2 DEF PassDies, Core, Typed
    <3>2. NoPass.jobs = <<>> /\ NoPass.of = "nothing" /\ NoPass.next = "retire"
      BY DEF NoPass
    <3>3. NoPass.jobs \in Seq({}) /\ Len(NoPass.jobs) <= Batch
      BY <3>2, BoundsAssumption
    <3>4. PassBounded(NoPass)
      BY <3>2, <3>3 DEF PassBounded
    <3> QED
      BY <3>1, <3>4 DEF Bounded
  <2> QED
    BY <2>1, <2>2
<1>3. Lists(line, Waiting)' /\ Lists(expired, ClosedTemporary)'
  BY <1>1, NothingListed DEF durable
<1> QED
  BY <1>1, <1>2, <1>3 DEF Bounded, PassBounded, durable

LEMMA BoundedStep == Core /\ Bounded /\ [Next]_vars => Bounded'
<1> SUFFICES ASSUME Core, Bounded, [Next]_vars PROVE Bounded'
  OBVIOUS
<1>1. CASE Use \/ Time
  BY <1>1, RowsListed DEF Use, Time
<1>2. ASSUME UNCHANGED <<durable, stale, pass, failures>> PROVE Bounded'
  <2>1. Lists(line, Waiting)' /\ Lists(expired, ClosedTemporary)'
    BY <1>2, NothingListed DEF durable
  <2> QED
    BY <1>2, <2>1 DEF Bounded, PassBounded, durable
<1>3. CASE Deliver \/ UNCHANGED vars
  BY <1>2, <1>3 DEF Deliver, vars
<1>4. ASSUME NEW p \in Passes, CleanUp(p)
      PROVE  Bounded'
  BY <1>4, StartTemporaryBounded, StartPersistentBounded, StartWithBounded, ProceedsBounded,
     FinishTemporaryBounded, FinishPersistentBounded, FailedBounded DEF CleanUp, Proceeds
<1> QED
  BY <1>1, <1>3, <1>4 DEF Next

LEMMA InitBounded == Init => Bounded
<1> SUFFICES ASSUME Init PROVE Bounded
  OBVIOUS
<1>1. Lists(line, Waiting) /\ Lists(expired, ClosedTemporary)
  <2>1. Waiting = {} /\ ClosedTemporary = {}
    BY KindsAssumption DEF Init, Waiting, ClosedTemporary, NoReceipt
  <2>2. Lists(<<>>, {})
    BY DEF Lists, IsInjective
  <2> QED
    BY <2>1, <2>2 DEF Init
<1>2. \A p \in Passes : PassBounded(pass[p])
  <2>1. NoPass.jobs = <<>> /\ NoPass.of = "nothing" /\ NoPass.next = "retire"
    BY DEF NoPass
  <2>2. NoPass.jobs \in Seq({}) /\ Len(NoPass.jobs) <= Batch
    BY <2>1, BoundsAssumption
  <2> QED
    BY <2>1, <2>2 DEF Init, PassBounded
<1> QED
  BY <1>1, <1>2, BoundsAssumption DEF Init, Bounded

LEMMA BoundedTypes == Core /\ Bounded => TypeOK
<1> SUFFICES ASSUME Core, Bounded PROVE TypeOK
  OBVIOUS
<1>1. \A v \in {active, saved, aged, retired, marked, members, content, likes, rejected} :
        v \in [Rooms -> BOOLEAN]
  BY DEF Core, Typed, Bounded
<1>2. \A r \in Rooms : Contains(line, r) <=> ~receipt[r].completed
  <2>1. \A r \in Rooms : r \in Waiting <=> ~receipt[r].completed
    BY DEF Waiting
  <2>2. \A i \in 1..Len(line) : line[i] \in Waiting
    BY DEF Bounded, Lists
  <2>3. \A r : Contains(line, r) <=> r \in Waiting
    BY <2>2 DEF Bounded, Lists, Contains
  <2> QED
    BY <2>1, <2>3
<1>3. \A r \in Rooms : Contains(expired, r) <=> r \in Temporary /\ status[r] = "closed"
  <2>1. \A r : r \in ClosedTemporary <=> r \in Temporary /\ status[r] = "closed"
    BY DEF ClosedTemporary
  <2>2. \A i \in 1..Len(expired) : expired[i] \in ClosedTemporary
    BY DEF Bounded, Lists
  <2>3. \A r : Contains(expired, r) <=> r \in ClosedTemporary
    BY <2>2 DEF Bounded, Lists, Contains
  <2> QED
    BY <2>1, <2>3
<1>4. \A p \in Passes :
        /\ pass[p].of \in {"nothing", "temporary", "persistent"}
        /\ pass[p].next \in {"retire", "drain", "empty", "finish"}
        /\ Len(pass[p].jobs) <= Batch /\ failures <= MaxFailures
        /\ (pass[p].jobs = <<>> <=> pass[p] = NoPass)
  BY BoundsAssumption DEF Bounded, PassBounded
<1> QED
  BY <1>1, <1>2, <1>3, <1>4 DEF TypeOK, Core, Typed, Bounded, Lists

\* The records of a room agree: it waits in line for a retirement exactly while its
\* receipt is open (capture_persistent_room_retirement, finish_persistent_room_retirement),
\* and in the order of expiry exactly while it is closed and not purged, once each; and no
\* pass takes more than a batch of jobs, or works without one.
THEOREM TypeCorrect == Spec => []TypeOK
<1>1. Init => Core /\ Bounded
  BY InitSound, InitBounded
<1>2. Core /\ Bounded /\ [Next]_vars => (Core /\ Bounded)'
  BY NextPreserves, BoundedStep
<1> QED
  BY <1>1, <1>2, BoundedTypes, PTL DEF Spec

=============================================================================
