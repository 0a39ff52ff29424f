--------------------- MODULE RecommendationDeliveryProofs ---------------------
(***************************************************************************)
(* Proofs about RecommendationDelivery, for any members, media, workers    *)
(* and limits: events keep apart, what a drain acknowledges was recorded,  *)
(* and every step of the delivery is a step of RecommendationLedger, or    *)
(* none.                                                                   *)
(***************************************************************************)
EXTENDS RecommendationDelivery, FiniteSetTheorems, SequenceTheorems,
        WellFoundedInduction, TLAPS

\* Every event that anybody still knows of.
Known == outbox \union tombstones \union Batches

\* The rows of the drain of one worker, given the rows that are recorded and who is an
\* account since when: it takes no guest for an account, and nobody for a guest who did
\* one of its events as an account.
DrainSound(d, recorded, accounts) ==
  /\ d \in Drain
  /\ d.pc \in {"idle", "read", "finish"} => d.batch = {}
  /\ d.pc = "acknowledge" => d.batch \subseteq recorded
  /\ d.pc = "consume" => /\ \A m \in d.known : accounts[m] > 0
                         /\ \A e \in d.batch :
                              accounts[e.member] \in 1..e.id => e.member \in d.known

\* The inductive invariant.
Core ==
  /\ accepted \in 0..MaxEvents /\ occurrence \in 0..MaxOccurrences
  /\ outbox \subseteq Event /\ tombstones \subseteq Event
  /\ \A e \in Known : e.id <= accepted
  /\ \A e, f \in Known : e.id = f.id => e = f
  /\ retired \in {"no", "closed", "purged"}
  /\ retired = "purged" => outbox = {}
  /\ kind \in {"legacy", "shared", "temporary"} /\ gone \in BOOLEAN
  /\ linked \in [Members -> Nat] /\ noted \in [Members -> Nat]
  /\ choice \in [Members \X Media -> [liked: BOOLEAN, by: Nat]]
  /\ workers \in [Workers -> Drain]
  /\ \A w \in Workers : DrainSound(workers[w], tombstones, linked)

abstract == <<kind, linked, noted, gone, accepted, Pending, Lapsed, tally, choice>>

\* A step of the ledger, or none.
LedgerStep == Ledger!Next \/ UNCHANGED abstract

\* What is known are events, those of every drain among them.
LEMMA KnownEvents ==
  ASSUME Core
  PROVE  /\ \A w \in Workers : /\ workers[w].batch \in SUBSET Event
                               /\ workers[w].known \in SUBSET Members
         /\ Known \subseteq Event
         /\ \A e \in Known : /\ e.member \in Members /\ e.id \in Nat /\ e.id > 0 /\ e.n \in Nat
                             /\ e.id <= accepted
         /\ accepted \in Nat
<1>1. \A w \in Workers : /\ workers[w].batch \in SUBSET Event
                         /\ workers[w].known \in SUBSET Members
  BY DEF Core, Drain
<1>2. Known \subseteq Event
  BY <1>1 DEF Core, Known, Batches
<1>3. \A e \in Event : e.member \in Members /\ e.id \in Nat /\ e.id > 0 /\ e.n \in Nat
  BY BoundsAssumption DEF Event
<1> QED
  BY <1>1, <1>2, <1>3, BoundsAssumption DEF Core

\* The drain of one worker is replaced, and no other.
LEMMA DrainReplaced ==
  ASSUME workers \in [Workers -> Drain], NEW w \in Workers, NEW d,
         workers' = [workers EXCEPT ![w] = d]
  PROVE  \A v \in Workers : workers'[v] = IF v = w THEN d ELSE workers[v]
  OBVIOUS

-----------------------------------------------------------------------------
(* Choices. *)

\* Some event of a set is its newest one: what the CHOOSE of Chosen rests on.
LEMMA NewestExists ==
  ASSUME NEW S \in SUBSET Event, S # {}
  PROVE  \E e \in S : \A f \in S : f.id <= e.id
<1> DEFINE Ages == {MaxEvents - e.id : e \in S}
<1>1. MaxEvents \in Nat /\ \A e \in S : e.id \in 1..MaxEvents
  BY BoundsAssumption DEF Event
<1>2. Ages \subseteq Nat /\ Ages # {}
  BY <1>1
<1>3. PICK x \in Ages : \A y \in Ages : ~(y < x)
  <2>1. \E x \in Ages : \A y \in Ages : <<y, x>> \notin OpToRel(<, Nat)
    BY <1>2, WFMin, NatLessThanWellFounded, Zenon
  <2> QED
    BY <2>1, <1>2 DEF OpToRel
<1>4. PICK e \in S : x = MaxEvents - e.id
  BY <1>3
<1>5. \A f \in S : ~(MaxEvents - f.id < MaxEvents - e.id)
  BY <1>3, <1>4
<1> QED
  BY <1>1, <1>5

\* The store and the ledger choose alike: looking only at what is newer than the
\* account's choice, or looking at everything and comparing then.
LEMMA ChoicesAgree ==
  ASSUME NEW S \in SUBSET Event, \A e, f \in S : e.id = f.id => e = f, NEW known,
         choice \in [Members \X Media -> [liked: BOOLEAN, by: Nat]]
  PROVE  Chosen(S, known) = Ledger!ChoiceWith(S, known)
<1>1. SUFFICES ASSUME NEW c \in Members \X Media
               PROVE  Chosen(S, known)[c] = Ledger!ChoiceWith(S, known)[c]
  BY DEF Chosen, Ledger!ChoiceWith
<1> DEFINE mine == {e \in S : /\ IsPreference(e) /\ Kept(e) /\ Attributed(e, known)
                              /\ <<e.member, e.media>> = c}
           IsLast(e, T) == e \in T /\ \A f \in T : f.id <= e.id
           last == CHOOSE e \in mine : \A f \in mine : f.id <= e.id
           new == Newer(S, known, c)
           newest == CHOOSE e \in new : \A f \in new : f.id <= e.id
<1>2. Ledger!ChoiceWith(S, known)[c] = IF mine # {} /\ choice[c].by < last.id
                                  THEN [liked |-> last.liked, by |-> last.id]
                                  ELSE choice[c]
  BY DEF Ledger!ChoiceWith, Ledger!IsPreference, Ledger!Kept, Ledger!Attributed,
         IsPreference, Kept, Attributed
<1>3. Chosen(S, known)[c] = IF new = {} THEN choice[c]
                     ELSE [liked |-> newest.liked, by |-> newest.id]
  BY DEF Chosen
<1>4. new = {e \in mine : e.id > choice[c].by}
  BY DEF Newer
<1>5. choice[c].by \in Nat /\ \A e \in S : e.id \in Nat
  BY DEF Event
<1> HIDE DEF mine
<1>6. mine \in SUBSET S /\ new \in SUBSET mine
  BY <1>4 DEF mine
<1>7. mine # {} => IsLast(last, mine)
  BY <1>6, NewestExists
<1>8. new # {} => IsLast(newest, new)
  BY <1>6, NewestExists
<1> HIDE DEF last, newest, new
<1>9. CASE new = {}
  BY <1>9, <1>2, <1>3, <1>4, <1>5, <1>6, <1>7
<1>10. CASE new # {}
  <2>1. newest \in mine /\ mine # {} /\ last \in mine /\ newest.id <= last.id
    BY <1>10, <1>6, <1>7, <1>8
  <2>2. last \in new /\ last.id <= newest.id
    BY <2>1, <1>4, <1>5, <1>6, <1>8, <1>10
  <2>3. last \in S /\ newest \in S
    BY <2>1, <1>6
  <2>4. last.id = newest.id
    BY <2>1, <2>2, <2>3, <1>5
  <2>5. last = newest
    BY <2>3, <2>4
  <2> QED
    BY <2>1, <2>2, <2>3, <2>5, <1>2, <1>3, <1>4, <1>5, <1>10
<1> QED
  BY <1>9, <1>10

-----------------------------------------------------------------------------
(* The live room and the durable room. *)

\* A new event is newer than all known, so it is nobody's row yet; a step of the live
\* room accepts it or changes nothing that the ledger sees.
LEMMA AppendStep ==
  ASSUME Core, Open, NEW m \in Members, NEW a \in Media, NEW type \in Types,
         NEW n, NEW liked \in BOOLEAN,
         AppendEvent(type, m, a, n, liked), UNCHANGED <<retired, durable, delivery>>,
         occurrence' \in 0..MaxOccurrences
  PROVE  Core' /\ LedgerStep
<1> DEFINE event == [id |-> accepted + 1, type |-> type, member |-> m, media |-> a,
                     n |-> n, liked |-> liked]
<1> USE DEF durable, delivery
<1>1. CASE UNCHANGED <<outbox, accepted>>
  BY <1>1 DEF Core, DrainSound, Known, Batches, LedgerStep, abstract, Pending, Lapsed
<1>2. CASE /\ accepted < MaxEvents /\ n \in 0..MaxNumber
           /\ outbox' = outbox \union {event}
           /\ accepted' = accepted + 1
  <2>1. accepted \in Nat /\ MaxEvents \in Nat /\ accepted + 1 \in 1..MaxEvents
    BY <1>2, BoundsAssumption DEF Core
  <2>2. event \in Event /\ event.id = accepted + 1
    BY <1>2, <2>1 DEF Event, Types
  <2> HIDE DEF event
  <2>3. \A e \in Known : e \in Event /\ e.id \in Nat /\ e.id <= accepted
    BY KnownEvents
  <2>4. event \notin Known
    BY <2>1, <2>2, <2>3
  <2>5. Known' = Known \union {event}
    BY <1>2 DEF Known, Batches
  <2>6. \A e \in Known' : e.id <= accepted'
    BY <1>2, <2>1, <2>2, <2>3, <2>5
  <2>7. \A e, f \in Known' : e.id = f.id => e = f
    <3>1. \A e \in Known : e.id # event.id
      BY <2>1, <2>2, <2>3
    <3> QED
      BY <2>5, <3>1 DEF Core
  <2>8. Core'
    BY <1>2, <2>1, <2>2, <2>6, <2>7 DEF Core, DrainSound, Open
  <2>9. Pending' = Pending \union {event} /\ Lapsed' = Lapsed
    <3>1. Batches' = Batches /\ tombstones' = tombstones
      BY DEF Batches
    <3> QED
      BY <1>2, <2>4, <3>1 DEF Pending, Lapsed, Known
  <2>10. Ledger!Accept(event)
    BY <1>2, <2>2, <2>9 DEF Ledger!Accept
  <2>11. event \in Ledger!Event
    BY <2>2 DEF Ledger!Event, Event, Ledger!Types, Types
  <2> QED
    BY <2>8, <2>10, <2>11 DEF LedgerStep, Ledger!Next
<1> QED
  BY <1>1, <1>2 DEF AppendEvent

LEMMA RoomStep ==
  ASSUME Core, Room
  PROVE  Core' /\ LedgerStep
<1>1. occurrence \in 0..MaxOccurrences /\ MaxOccurrences \in Nat
  BY BoundsAssumption DEF Core
<1>2. ASSUME NEW m \in Members, NEW a \in Media, QueueAction(m, a)
      PROVE  Core' /\ LedgerStep
  <2>1. occurrence' \in 0..MaxOccurrences /\ "queue" \in Types
    BY <1>1, <1>2 DEF QueueAction, Types
  <2> QED
    BY <1>2, <2>1, AppendStep DEF QueueAction
<1>9. ASSUME NEW m \in Members, NEW a \in Media, NEW n \in Actions, MoveItem(m, a, n)
      PROVE  Core' /\ LedgerStep
  <2>1. occurrence' \in 0..MaxOccurrences /\ "move" \in Types
    BY <1>1, <1>9 DEF MoveItem, Types
  <2> QED
    BY <1>9, <2>1, AppendStep DEF MoveItem
<1>3. ASSUME NEW m \in Members, NEW a \in Media, BeginPlayback(m, a)
      PROVE  Core' /\ LedgerStep
  <2>1. occurrence' \in 0..MaxOccurrences /\ "queue" \in Types
    BY <1>1, <1>3 DEF BeginPlayback, Types
  <2> QED
    BY <1>3, <2>1, AppendStep DEF BeginPlayback
<1>4. ASSUME NEW m \in Members, NEW a \in Media, SourceFailure(m, a)
      PROVE  Core' /\ LedgerStep
  <2>1. occurrence' \in 0..MaxOccurrences /\ "failure" \in Types
    BY <1>1, <1>4 DEF SourceFailure, Types
  <2> QED
    BY <1>4, <2>1, AppendStep DEF SourceFailure
<1>5. ASSUME NEW m \in Members, NEW a \in Media, NEW liked \in BOOLEAN,
             NEW forced \in BOOLEAN, SetPreference(m, a, liked, forced)
      PROVE  Core' /\ LedgerStep
  <2>1. occurrence' \in 0..MaxOccurrences /\ "preference" \in Types
    BY <1>1, <1>5 DEF SetPreference, Types
  <2>2. PICK n : AppendEvent("preference", m, a, n, liked)
    BY <1>5 DEF SetPreference
  <2> QED
    BY <1>5, <2>1, <2>2, AppendStep DEF SetPreference
<1>6. ASSUME NEW purge \in BOOLEAN, RetireRoom(purge)
      PROVE  Core' /\ LedgerStep
  <2>1. outbox' \subseteq outbox /\ Known' \subseteq Known
    BY <1>6 DEF RetireRoom, Known, Batches, durable, delivery
  <2>2. Core'
    BY <1>6, <2>1 DEF RetireRoom, Core, DrainSound, Open, durable, delivery
  <2>3. CASE purge
    <3>1. ~ \E e \in Pending : Ledger!IsPreference(e)
      BY <1>6, <2>3 DEF RetireRoom, Pending, IsPreference, Ledger!IsPreference
    <3>2. Pending' = {} /\ Lapsed' \in SUBSET (Lapsed \union Pending)
      <4>1. outbox' = {} /\ tombstones' = tombstones /\ Batches' = Batches
        BY <1>6, <2>3 DEF RetireRoom, Batches, durable, delivery
      <4> QED
        BY <4>1 DEF Pending, Lapsed
    <3>3. Ledger!Discard
      BY <1>6, <3>1, <3>2 DEF Ledger!Discard, RetireRoom, durable
    <3> QED
      BY <2>2, <3>3 DEF LedgerStep, Ledger!Next
  <2>4. CASE ~purge
    BY <1>6, <2>2, <2>4
       DEF RetireRoom, LedgerStep, abstract, Pending, Lapsed, Batches, durable, delivery
  <2> QED
    BY <2>3, <2>4
<1>7. ASSUME NEW m \in Members, LinkMember(m)
      PROVE  Core' /\ LedgerStep
  <2>1. /\ linked' = [linked EXCEPT ![m] = accepted + 1] /\ accepted + 1 \in Nat /\ linked[m] = 0
        /\ UNCHANGED <<live, kind, gone, noted, tombstones, tally, choice, delivery>>
    BY <1>7, BoundsAssumption DEF LinkMember, Core
  <2>2. Known' = Known /\ \A e \in Known : e.id <= accepted
    BY <2>1 DEF Known, Batches, Core, live, delivery
  <2>3. ASSUME NEW w \in Workers
        PROVE  DrainSound(workers[w], tombstones, linked')
    <3>1. /\ DrainSound(workers[w], tombstones, linked) /\ workers[w] \in Drain
          /\ linked \in [Members -> Nat] /\ accepted \in Nat
      BY BoundsAssumption DEF Core
    <3>2. \A e \in workers[w].batch :
            /\ e.member \in Members /\ e.id \in Nat /\ e.id <= accepted
            /\ e.member = m => ~(linked'[e.member] \in 1..e.id)
      <4>1. workers[w].batch \subseteq Known /\ workers[w].batch \subseteq Event
        BY <3>1 DEF Known, Batches, Drain
      <4> QED
        BY <2>1, <2>2, <3>1, <4>1 DEF Event
    <3>3. \A o \in Members : linked[o] > 0 => linked'[o] > 0
      BY <2>1, <3>1
    <3>4. workers[w].known \subseteq Members
      BY <3>1 DEF Drain
    <3> QED
      BY <2>1, <3>1, <3>2, <3>3, <3>4 DEF DrainSound
  <2>4. Core'
    BY <2>1, <2>2, <2>3 DEF Core, live, delivery
  <2>5. Ledger!Link(m)
    BY <1>7 DEF LinkMember, Ledger!Link, Pending, Lapsed, Batches, live, delivery
  <2> QED
    BY <2>4, <2>5 DEF LedgerStep, Ledger!Next
<1>10. ASSUME NEW m \in Members, NoteMigration(m)
      PROVE  Core' /\ LedgerStep
  <2>1. accepted + 1 \in Nat
    BY BoundsAssumption DEF Core
  <2>2. Core'
    BY <1>10, <2>1 DEF NoteMigration, Core, DrainSound, Known, Batches, live, delivery
  <2>3. Ledger!Note(m)
    BY <1>10 DEF NoteMigration, Ledger!Note, Pending, Lapsed, Batches, live, delivery
  <2> QED
    BY <2>2, <2>3 DEF LedgerStep, Ledger!Next
<1>8. ASSUME DeleteRoom
      PROVE  Core' /\ LedgerStep
  <2>1. Core'
    BY <1>8 DEF DeleteRoom, Core, DrainSound, Known, Batches, live, delivery
  <2>2. Ledger!Delete
    BY <1>8 DEF DeleteRoom, Core, Ledger!Delete, Pending, Lapsed, Batches, live, delivery
  <2> QED
    BY <2>1, <2>2 DEF LedgerStep, Ledger!Next
<1> QED
  BY <1>2, <1>3, <1>4, <1>5, <1>6, <1>7, <1>8, <1>9, <1>10 DEF Room

-----------------------------------------------------------------------------
(* Drains. *)

\* A drain that drops its batch, or reads rows of the outbox instead, makes nothing
\* known that was not, and lets what lapsed lapse for good.
LEMMA BatchReplaced ==
  ASSUME Core, NEW w \in Workers, NEW d \in Drain, DrainSound(d, tombstones, linked),
         d.batch \subseteq outbox,
         workers' = [workers EXCEPT ![w] = d],
         UNCHANGED <<live, durable>>
  PROVE  Core' /\ LedgerStep
<1> USE DEF live, durable
<1>1. \A v \in Workers : workers'[v] = IF v = w THEN d ELSE workers[v]
  BY DEF Core
<1>2. Batches' \subseteq Batches \union outbox
  BY <1>1 DEF Batches
<1>3. Known' \subseteq Known
  BY <1>2 DEF Known
<1>4. \A v \in Workers : DrainSound(workers'[v], tombstones', linked')
  BY <1>1 DEF Core, DrainSound
<1>5. workers' \in [Workers -> Drain]
  BY DEF Core
<1>6. Core'
  BY <1>3, <1>4, <1>5 DEF Core
<1>7. Pending' = Pending /\ Lapsed' \in SUBSET Lapsed
  BY <1>2 DEF Pending, Lapsed
<1>8. Ledger!Forget
  BY <1>7 DEF Ledger!Forget
<1> QED
  BY <1>6, <1>8 DEF LedgerStep, Ledger!Next

\* So does a drain that goes on without a batch.
LEMMA GoStep ==
  ASSUME Core, NEW w \in Workers, NEW pc \in {"idle", "read", "finish"}, Go(w, pc),
         UNCHANGED <<live, durable>>
  PROVE  Core' /\ LedgerStep
<1> DEFINE d == [Idle EXCEPT !.pc = pc]
<1>1. d = [pc |-> pc, batch |-> {}, known |-> {}]
  BY DEF Idle
<1>2. d \in Drain /\ d.batch = {} /\ d.pc = pc
  BY <1>1 DEF Drain
<1>3. DrainSound(d, tombstones, linked) /\ d.batch \subseteq outbox
  BY <1>2 DEF DrainSound
<1>4. workers' = [workers EXCEPT ![w] = d]
  BY DEF Go
<1> QED
  BY <1>2, <1>3, <1>4, BatchReplaced

LEMMA ReadStep ==
  ASSUME Core, NEW w \in Workers, Read(w)
  PROVE  Core' /\ LedgerStep
<1>1. CASE outbox = {}
  BY <1>1, GoStep DEF Read
<1>2. CASE outbox # {}
  <2> DEFINE d == [pc |-> "look up", batch |-> Oldest, known |-> {}]
  <2>1. Oldest \subseteq outbox
    BY DEF Oldest
  <2>2. d \in Drain /\ DrainSound(d, tombstones, linked)
    BY <2>1 DEF Core, Drain, DrainSound
  <2> QED
    BY <1>2, <2>1, <2>2, BatchReplaced DEF Read
<1> QED
  BY <1>1, <1>2

\* The look-up finds whoever is an account by then.
LEMMA LookUpStep ==
  ASSUME Core, NEW w \in Workers, LookUp(w)
  PROVE  Core' /\ LedgerStep
<1> DEFINE batch == workers[w].batch
           d == [pc |-> "consume", batch |-> batch, known |-> Accounts(batch)]
<1> USE DEF live, durable
<1>1. batch \subseteq Event /\ Accounts(batch) \subseteq Members /\ linked \in [Members -> Nat]
  BY KnownEvents DEF Core, Accounts
<1>2. workers' = [workers EXCEPT ![w] = d]
  BY DEF LookUp, Core
<1>3. d \in Drain
  BY <1>1 DEF Drain
<1>4. DrainSound(d, tombstones, linked)
  <2>1. \A e \in batch : e.member \in Members /\ e.id \in Nat
    BY <1>1, BoundsAssumption DEF Event
  <2> QED
    BY <1>1, <1>3, <2>1 DEF DrainSound, Accounts
<1>5. \A v \in Workers : workers'[v] = IF v = w THEN d ELSE workers[v]
  BY <1>2 DEF Core
<1>6. Batches' = Batches
  BY <1>5 DEF Batches
<1> HIDE DEF d
<1>7. Core'
  BY <1>2, <1>3, <1>4, <1>5, <1>6 DEF Core, LookUp, Known
<1>8. UNCHANGED abstract
  BY <1>6 DEF LookUp, abstract, Pending, Lapsed
<1> QED
  BY <1>7, <1>8 DEF LedgerStep

\* A batch that was ingested is recorded: what was not recorded before, once.
LEMMA ConsumeStep ==
  ASSUME Core, NEW w \in Workers, Consume(w)
  PROVE  Core' /\ LedgerStep
<1> DEFINE batch == workers[w].batch
           known == workers[w].known
           new == batch \ tombstones
<1>1. CASE \E e \in batch : Conflicts(e)
  <2>1. UNCHANGED <<tombstones, tally, choice>> /\ Go(w, "finish")
    BY <1>1 DEF Consume, Ingest
  <2> QED
    BY <2>1, GoStep DEF Consume, durable
<1>2. CASE ~ \E e \in batch : Conflicts(e)
  <2>1. /\ tombstones' = tombstones \union new
        /\ tally' = Counted(new) /\ choice' = Chosen(new, known)
        /\ UNCHANGED <<live, kind, gone, linked, noted, lease>>
        /\ workers' = [workers EXCEPT ![w] =
                         [pc |-> "acknowledge", batch |-> batch, known |-> {}]]
    BY <1>2 DEF Consume, Ingest, Core
  <2>2. batch \subseteq Event /\ batch \subseteq Batches
    BY KnownEvents DEF Batches
  <2>3. \A v \in Workers : workers'[v] = IF v = w
                              THEN [pc |-> "acknowledge", batch |-> batch, known |-> {}]
                              ELSE workers[v]
    BY <2>1, DrainReplaced DEF Core
  <2>4. \A v \in Workers : workers'[v].batch = workers[v].batch
    BY <2>3
  <2>5. Batches' = Batches
    BY <2>4 DEF Batches
  <2>6. Known' = Known
    BY <2>1, <2>2, <2>5 DEF Known, live
  <2>7. \A v \in Workers : DrainSound(workers'[v], tombstones', linked')
    <3> DEFINE d == [pc |-> "acknowledge", batch |-> batch, known |-> {}]
    <3>1. batch \subseteq tombstones' /\ tombstones \subseteq tombstones' /\ linked' = linked
      BY <2>1
    <3>2. DrainSound(d, tombstones', linked')
      BY <2>2, <3>1 DEF DrainSound, Drain
    <3>3. ASSUME NEW v \in Workers
          PROVE  DrainSound(workers[v], tombstones', linked')
      <4>1. DrainSound(workers[v], tombstones, linked)
        BY DEF Core
      <4> QED
        BY <3>1, <4>1 DEF DrainSound
    <3> QED
      BY <2>3, <3>2, <3>3
  <2>8. workers' \in [Workers -> Drain]
    <3>1. [pc |-> "acknowledge", batch |-> batch, known |-> {}] \in Drain
      BY <2>2 DEF Drain
    <3> QED
      BY <2>1, <3>1 DEF Core
  <2>9. choice' \in [Members \X Media -> [liked: BOOLEAN, by: Nat]]
    <3>1. SUFFICES ASSUME NEW c \in Members \X Media
                   PROVE  Chosen(new, known)[c] \in [liked: BOOLEAN, by: Nat]
      BY <2>1 DEF Chosen
    <3>2. choice[c] \in [liked: BOOLEAN, by: Nat]
      BY DEF Core
    <3>3. Newer(new, known, c) \in SUBSET Event
      BY <2>2 DEF Newer
    <3>4. CASE Newer(new, known, c) = {}
      BY <3>2, <3>4 DEF Chosen
    <3>5. CASE Newer(new, known, c) # {}
      <4> DEFINE last == CHOOSE e \in Newer(new, known, c) : \A f \in Newer(new, known, c) : f.id <= e.id
      <4>1. last \in Newer(new, known, c)
        BY <3>3, <3>5, NewestExists
      <4>2. last.liked \in BOOLEAN /\ last.id \in Nat
        BY <3>3, <4>1 DEF Event
      <4>3. Chosen(new, known)[c] = [liked |-> last.liked, by |-> last.id]
        BY <3>5 DEF Chosen
      <4> HIDE DEF last, new
      <4> QED
        BY <4>2, <4>3
    <3> QED
      BY <3>4, <3>5
  <2>10. Core'
    BY <2>1, <2>2, <2>6, <2>7, <2>8, <2>9 DEF Core, live
  <2>11. /\ new \in SUBSET (Pending \union Lapsed)
         /\ Pending' = Pending \ new
         /\ Lapsed' = Lapsed \ new
    BY <2>1, <2>2, <2>5 DEF Pending, Lapsed, live
  <2>12. tally' = Ledger!TallyWith(new)
    BY <2>1 DEF Counted, Ledger!TallyWith, Types, Ledger!Types, Kept, Ledger!Kept,
                IsPreference, Ledger!IsPreference, Cardinality, Ledger!Cardinality
  <2>13. choice' = Ledger!ChoiceWith(new, known)
    <3>1. new \in SUBSET Event /\ \A e, f \in new : e.id = f.id => e = f
      BY <2>2 DEF Core, Known
    <3> QED
      BY <2>1, <3>1, ChoicesAgree DEF Core
  <2>14. known \in SUBSET Members
    BY DEF Core, Drain
  <2>15. /\ \A m \in known : linked[m] > 0
         /\ \A e \in new : linked[e.member] \in 1..e.id => e.member \in known
    BY DEF Consume, At, Core, DrainSound
  <2>16. Ledger!Record(new, known)
    BY <2>1, <2>11, <2>12, <2>13, <2>15 DEF Ledger!Record, live
  <2> QED
    BY <2>10, <2>11, <2>14, <2>16 DEF LedgerStep, Ledger!Next
<1> QED
  BY <1>1, <1>2

\* The rows that an acknowledgement deletes are recorded.
LEMMA AcknowledgeStep ==
  ASSUME Core, NEW w \in Workers, AcknowledgeBatch(w)
  PROVE  Core' /\ LedgerStep
<1> DEFINE batch == workers[w].batch
<1>1. /\ batch \subseteq tombstones
      /\ outbox' = {e \in outbox : \A f \in batch : f.id # e.id}
  BY DEF AcknowledgeBatch, Acknowledge, At, Core, DrainSound
<1>2. outbox \ tombstones = outbox' \ tombstones
  BY <1>1 DEF Core, Known
<1>3. PICK pc \in {"read", "finish"} :
        workers' = [workers EXCEPT ![w] = [Idle EXCEPT !.pc = pc]]
  BY DEF AcknowledgeBatch, Go
<1>4. [Idle EXCEPT !.pc = pc] = [pc |-> pc, batch |-> {}, known |-> {}]
  BY DEF Idle
<1>5. \A v \in Workers :
        workers'[v] = IF v = w THEN [pc |-> pc, batch |-> {}, known |-> {}] ELSE workers[v]
  BY <1>3, <1>4 DEF Core
<1>6. /\ Batches' \subseteq Batches
      /\ UNCHANGED <<accepted, occurrence, retired, kind, gone, linked, noted, tombstones, tally, choice>>
  <2>1. \A v \in Workers : workers'[v].batch \subseteq workers[v].batch
    BY <1>5
  <2> QED
    BY <2>1 DEF Batches, AcknowledgeBatch, durable
<1>7. Known' \subseteq Known
  BY <1>1, <1>6 DEF Known
<1>8. \A v \in Workers : workers'[v] \in Drain /\ DrainSound(workers'[v], tombstones', linked')
  <2>1. [pc |-> pc, batch |-> {}, known |-> {}] \in Drain
    BY DEF Drain
  <2> QED
    BY <1>5, <1>6, <2>1 DEF Core, DrainSound
<1>9. workers' \in [Workers -> Drain]
  BY <1>3, <1>8 DEF Core
<1>10. outbox' \subseteq outbox
  BY <1>1
<1>11. Core'
  BY <1>6, <1>7, <1>8, <1>9, <1>10 DEF Core
<1>12. Pending' = Pending /\ Lapsed' \in SUBSET Lapsed
  BY <1>2, <1>6 DEF Pending, Lapsed
<1>13. Ledger!Forget
  BY <1>6, <1>12 DEF Ledger!Forget
<1> QED
  BY <1>11, <1>13 DEF LedgerStep, Ledger!Next

LEMMA DeliveryStep ==
  ASSUME Core, Delivery
  PROVE  Core' /\ LedgerStep
<1>1. ASSUME NEW w \in Workers, Claim(w)
      PROVE  Core' /\ LedgerStep
  BY <1>1, GoStep DEF Claim
<1>2. ASSUME NEW w \in Workers, Fail(w)
      PROVE  Core' /\ LedgerStep
  BY <1>2, GoStep DEF Fail
<1>3. ASSUME NEW w \in Workers, Finish(w) \/ Crash(w)
      PROVE  Core' /\ LedgerStep
  BY <1>3, GoStep DEF Finish, Crash
<1>4. CASE LeaseExpires
  BY <1>4 DEF LeaseExpires, Core, DrainSound, Known, Batches, LedgerStep, abstract,
              Pending, Lapsed, live, durable
<1> QED
  BY <1>1, <1>2, <1>3, <1>4, ReadStep, LookUpStep, ConsumeStep, AcknowledgeStep DEF Delivery

-----------------------------------------------------------------------------
(* Theorems. *)

LEMMA InitSound == Init => Core /\ Ledger!Init
<1> SUFFICES ASSUME Init PROVE Core /\ Ledger!Init
  OBVIOUS
<1>1. Batches = {}
  BY DEF Init, Batches, Idle
<1>2. \A w \in Workers : workers[w] \in Drain /\ DrainSound(workers[w], tombstones, linked)
  BY DEF Init, Idle, Drain, DrainSound
<1>3. Core
  <2>1. outbox = {} /\ tombstones = {} /\ Known = {}
    BY <1>1 DEF Init, Known
  <2>2. kind \in {"legacy", "shared", "temporary"} /\ gone \in BOOLEAN
    BY KindsAssumption DEF Init
  <2>3. /\ choice \in [Members \X Media -> [liked: BOOLEAN, by: Nat]]
        /\ workers \in [Workers -> Drain]
    BY <1>2 DEF Init
  <2> QED
    BY <1>2, <2>1, <2>2, <2>3, BoundsAssumption DEF Init, Core
<1>4. Ledger!Init
  BY <1>1, KindsAssumption
     DEF Init, Ledger!Init, Ledger!RoomKinds, Ledger!Types, Types, Ledger!NoChoice,
         Pending, Lapsed
<1> QED
  BY <1>3, <1>4

LEMMA NextStep == Core /\ [Next]_vars => Core' /\ [Ledger!Next]_abstract
<1> SUFFICES ASSUME Core, [Next]_vars PROVE Core' /\ LedgerStep
  BY DEF LedgerStep
<1>1. CASE UNCHANGED vars
  BY <1>1 DEF vars, live, durable, delivery, Core, DrainSound, Known, Batches,
              LedgerStep, abstract, Pending, Lapsed
<1> QED
  BY <1>1, RoomStep, DeliveryStep DEF Next

\* Events keep apart, a drain acknowledges only what is recorded, and a purged room
\* has an empty outbox.
THEOREM CoreInvariant == Spec => []Core
<1> QED
  BY InitSound, NextStep, PTL DEF Spec

\* The delivery implements the ledger (ImplementsLedger): every accepted event is
\* recorded at most once and in the end the account's choice is that of the newest
\* event recorded, whatever drains race, fail, come late or repeat.
THEOREM DeliveryImplementsLedger == Spec => ImplementsLedger
<1>1. Spec => Ledger!Init /\ [][Ledger!Next]_abstract
  BY InitSound, NextStep, CoreInvariant, PTL DEF Spec
<1> QED
  BY <1>1 DEF ImplementsLedger, Ledger!Spec, Ledger!vars, abstract
-----------------------------------------------------------------------------
(* Bounds. *)

Preference == [media: Media, liked: BOOLEAN, revision: Nat]

ChoiceOf(a, liked, revision) == [media |-> a, liked |-> liked, revision |-> revision]

\* Waiting rows fit the outbox and have keys of their own.
OutboxBounded ==
  /\ IsFiniteSet(outbox) /\ Cardinality(outbox) <= OutboxLimit
  /\ \A e, f \in outbox : SameKey(e, f) => e = f
  /\ dropped \in 0..MaxDropped

\* A member's choices fit their limit.
ChoicesBounded ==
  /\ preferences \in [Members -> Seq(Preference)]
  /\ \A m \in Members : Len(preferences[m]) <= PreferenceLimit

\* The aggregates count no more rows than are recorded.
StoreBounded ==
  /\ kind \in Kinds
  /\ linked \in [Members -> 0..MaxEvents + 1] /\ noted \in [Members -> 0..MaxEvents + 1]
  /\ \A m \in Members : linked[m] = 0 => noted[m] = 0
  /\ tally \in [Types -> Nat]
  /\ \A t \in Types : tally[t] <= Cardinality({e \in tombstones : e.type = t})
  /\ \A c \in Members \X Media : choice[c].by <= MaxEvents

Bounded ==
  /\ OutboxBounded /\ ChoicesBounded /\ StoreBounded
  /\ reports \in 0..MaxReports
  /\ lease \in Workers \union {NoWorker}

\* Events with identifiers of their own are no more than their identifiers.
LEMMA EventsCounted ==
  ASSUME NEW S \in SUBSET Event, \A e, f \in S : e.id = f.id => e = f
  PROVE  IsFiniteSet(S) /\ Cardinality(S) <= MaxEvents
<1> DEFINE number == [e \in S |-> e.id]
<1>1. MaxEvents \in Nat
  BY BoundsAssumption
<1>2. number \in Injection(S, 1..MaxEvents)
  BY DEF Injection, IsInjective, Event
<1>3. IsFiniteSet(1..MaxEvents) /\ Cardinality(1..MaxEvents) = MaxEvents
  BY <1>1, FS_Interval
<1> HIDE DEF number
<1> QED
  BY <1>2, <1>3, FS_Injection

\* The queue keeps at most `limit' rows, and only rows it had.
LEMMA NewestKeeps ==
  ASSUME NEW T, NEW s \in Seq(T), NEW limit \in Nat \ {0}
  PROVE  /\ Newest(s, limit) \in Seq(T) /\ Len(Newest(s, limit)) <= limit
         /\ Len(s) <= limit => Newest(s, limit) = s
<1> DEFINE k == IF Len(s) > limit THEN Len(s) - limit + 1 ELSE 1
<1>1. k \in Int /\ k >= 1 /\ Len(s) \in Nat /\ \A i \in k..Len(s) : s[i] \in T
  OBVIOUS
<1>2. Newest(s, limit) = SubSeq(s, k, Len(s))
  BY DEF Newest
<1>3. k <= Len(s) => Len(s) - k + 1 <= limit
  OBVIOUS
<1>4. Len(s) <= limit => k = 1
  OBVIOUS
<1> HIDE DEF k
<1>5. /\ SubSeq(s, k, Len(s)) \in Seq(T)
      /\ Len(SubSeq(s, k, Len(s))) = IF k <= Len(s) THEN Len(s) - k + 1 ELSE 0
  BY <1>1, SubSeqProperties
<1>6. SubSeq(s, 1, Len(s)) = s
  BY SubSeqFull
<1> QED
  BY <1>2, <1>3, <1>4, <1>5, <1>6

\* A sequence without its i-th element.
LEMMA RemovedAt ==
  ASSUME NEW T, NEW s \in Seq(T), NEW i \in DOMAIN s
  PROVE  /\ RemoveAt(s, i) \in Seq(T) /\ Len(RemoveAt(s, i)) = Len(s) - 1
         /\ \A j \in 1..Len(s) - 1 : RemoveAt(s, i)[j] = IF j < i THEN s[j] ELSE s[j + 1]
<1> DEFINE front == SubSeq(s, 1, i - 1)
           back == SubSeq(s, i + 1, Len(s))
<1>1. i \in 1..Len(s) /\ Len(s) \in Nat /\ \A j \in 1..Len(s) : s[j] \in T
  OBVIOUS
<1>2. /\ front \in Seq(T) /\ Len(front) = i - 1
      /\ \A j \in 1..i - 1 : front[j] = s[j]
  <2>1. \A j \in 1..i - 1 : s[j] \in T
    BY <1>1
  <2>2. /\ front \in Seq(T) /\ Len(front) = IF 1 <= i - 1 THEN i - 1 - 1 + 1 ELSE 0
        /\ \A j \in 1..i - 1 - 1 + 1 : front[j] = s[1 + j - 1]
    BY <1>1, <2>1, SubSeqProperties
  <2> QED
    BY <1>1, <2>2
<1>3. /\ back \in Seq(T) /\ Len(back) = Len(s) - i
      /\ \A j \in 1..Len(s) - i : back[j] = s[i + j]
  <2>1. \A j \in i + 1..Len(s) : s[j] \in T
    BY <1>1
  <2>2. /\ back \in Seq(T) /\ Len(back) = IF i + 1 <= Len(s) THEN Len(s) - (i + 1) + 1 ELSE 0
        /\ \A j \in 1..Len(s) - (i + 1) + 1 : back[j] = s[i + 1 + j - 1]
    BY <1>1, <2>1, SubSeqProperties
  <2> QED
    BY <1>1, <2>2
<1>4. RemoveAt(s, i) = front \o back
  BY DEF RemoveAt
<1> HIDE DEF front, back
<1>5. /\ front \o back \in Seq(T) /\ Len(front \o back) = Len(front) + Len(back)
      /\ \A j \in 1..Len(front) + Len(back) :
           (front \o back)[j] = IF j <= Len(front) THEN front[j] ELSE back[j - Len(front)]
  BY <1>2, <1>3, ConcatProperties
<1>6. ASSUME NEW j \in 1..Len(s) - 1
      PROVE  (front \o back)[j] = IF j < i THEN s[j] ELSE s[j + 1]
  <2>1. CASE j < i
    BY <1>1, <1>2, <1>3, <1>5, <2>1
  <2>2. CASE ~(j < i)
    <3>1. j - Len(front) \in 1..Len(s) - i /\ i + (j - Len(front)) = j + 1
      BY <1>1, <1>2, <2>2
    <3>2. (front \o back)[j] = back[j - Len(front)]
      <4>1. j \in 1..Len(front) + Len(back) /\ ~(j <= Len(front))
        BY <1>1, <1>2, <1>3, <2>2
      <4> QED
        BY <1>5, <4>1
    <3>3. back[j - Len(front)] = s[j + 1]
      BY <1>3, <3>1
    <3> QED
      BY <3>2, <3>3, <2>2, Zenon
  <2> QED
    BY <2>1, <2>2, Zenon
<1>7. Len(front \o back) = Len(s) - 1
  BY <1>1, <1>2, <1>3, <1>5
<1> QED
  BY <1>4, <1>5, <1>6, <1>7

\* Setting a choice: where the other choices of the member are afterwards.
LEMMA ChoiceSet ==
  ASSUME preferences \in [Members -> Seq(Preference)],
         NEW m \in Members, NEW a \in Media, NEW liked \in BOOLEAN,
         NEW forced \in BOOLEAN, SetPreference(m, a, liked, forced)
  PROVE  \E others \in Seq(Preference), revision \in Nat :
           /\ preferences' = [preferences EXCEPT ![m] =
                Newest(Append(others, ChoiceOf(a, liked, revision + 1)), PreferenceLimit)]
           /\ AppendEvent("preference", m, a, revision + 1, liked)
           /\ \/ /\ \A i \in DOMAIN preferences[m] : preferences[m][i].media # a
                 /\ others = preferences[m] /\ revision = 0
              \/ \E place \in DOMAIN preferences[m] :
                   /\ preferences[m][place].media = a
                   /\ others = RemoveAt(preferences[m], place)
                   /\ revision = preferences[m][place].revision
<1> DEFINE mine == preferences[m]
           places == {i \in DOMAIN mine : mine[i].media = a}
           place == CHOOSE i \in places : TRUE
<1>1. mine \in Seq(Preference)
  OBVIOUS
<1>2. CASE places = {}
  <2> DEFINE next == ChoiceOf(a, liked, 0 + 1)
  <2>1. /\ preferences' = [preferences EXCEPT ![m] = Newest(mine \o <<next>>, PreferenceLimit)]
        /\ AppendEvent("preference", m, a, 0 + 1, liked)
    BY <1>2 DEF SetPreference, ChoiceOf
  <2>2. mine \o <<next>> = Append(mine, next)
    BY <1>1
  <2> QED
    BY <1>1, <1>2, <2>1, <2>2
<1>3. CASE places # {}
  <2> DEFINE revision == mine[place].revision
             next == ChoiceOf(a, liked, revision + 1)
             others == RemoveAt(mine, place)
  <2>1. /\ preferences' = [preferences EXCEPT ![m] = Newest(others \o <<next>>, PreferenceLimit)]
        /\ AppendEvent("preference", m, a, revision + 1, liked)
    BY <1>3 DEF SetPreference, ChoiceOf
  <2>2. place \in DOMAIN mine /\ mine[place].media = a
    BY <1>3
  <2> HIDE DEF place
  <2>3. others \in Seq(Preference)
    BY <1>1, <2>2, RemovedAt
  <2>4. mine[place] \in Preference
    BY <1>1, <2>2
  <2> HIDE DEF mine
  <2>6. revision \in Nat
    BY <2>4 DEF Preference
  <2>5. others \o <<next>> = Append(others, next)
    BY <2>3
  <2> QED
    BY <2>1, <2>2, <2>3, <2>5, <2>6 DEF mine
<1> QED
  BY <1>2, <1>3

\* A key that waits is not appended again, and a full outbox takes no row.
LEMMA AppendBounded ==
  ASSUME Core, OutboxBounded, NEW type, NEW m, NEW a, NEW n, NEW liked,
         AppendEvent(type, m, a, n, liked)
  PROVE  OutboxBounded'
<1> DEFINE event == [id |-> accepted + 1, type |-> type, member |-> m, media |-> a,
                     n |-> n, liked |-> liked]
<1>1. CASE UNCHANGED <<outbox, dropped>>
  BY <1>1 DEF OutboxBounded, SameKey, IsPreference
<1>2. CASE dropped < MaxDropped /\ dropped' = dropped + 1 /\ UNCHANGED outbox
  BY <1>2, BoundsAssumption DEF OutboxBounded, SameKey, IsPreference
<1>3. CASE /\ ~Waits(event) /\ Cardinality(outbox) < OutboxLimit
           /\ outbox' = outbox \union {event} /\ UNCHANGED dropped
  <2>1. \A e \in outbox : ~SameKey(e, event) /\ ~SameKey(event, e)
    BY <1>3 DEF Waits, SameKey, IsPreference
  <2> HIDE DEF event
  <2>2. \A e, f \in outbox' : SameKey(e, f) => e = f
    BY <1>3, <2>1 DEF OutboxBounded
  <2>3. /\ IsFiniteSet(outbox')
        /\ Cardinality(outbox') = IF event \in outbox THEN Cardinality(outbox)
                                  ELSE Cardinality(outbox) + 1
    BY <1>3, FS_AddElement DEF OutboxBounded
  <2>4. Cardinality(outbox') <= OutboxLimit
    <3>1. Cardinality(outbox) \in Nat /\ OutboxLimit \in Nat
      BY FS_CardinalityType, BoundsAssumption DEF OutboxBounded
    <3> QED
      BY <1>3, <2>3, <3>1
  <2> QED
    BY <1>3, <2>2, <2>3, <2>4 DEF OutboxBounded, SameKey, IsPreference
<1>4. Cardinality(outbox) \in Nat /\ OutboxLimit \in Nat
  BY FS_CardinalityType, BoundsAssumption DEF OutboxBounded
<1> QED
  BY <1>1, <1>2, <1>3, <1>4 DEF AppendEvent

\* Rows that go leave the outbox bounded.
LEMMA RowsGo ==
  ASSUME OutboxBounded, outbox' \subseteq outbox, dropped' \in {dropped, 0}
  PROVE  OutboxBounded'
<1>1. IsFiniteSet(outbox') /\ Cardinality(outbox') <= Cardinality(outbox)
  BY FS_Subset DEF OutboxBounded
<1>2. Cardinality(outbox) \in Nat /\ Cardinality(outbox') \in Nat /\ OutboxLimit \in Nat
  BY <1>1, FS_CardinalityType, BoundsAssumption DEF OutboxBounded
<1>3. Cardinality(outbox') <= OutboxLimit
  BY <1>1, <1>2 DEF OutboxBounded
<1> QED
  BY <1>1, <1>3, BoundsAssumption DEF OutboxBounded, SameKey, IsPreference

LEMMA ChoiceSetBounded ==
  ASSUME ChoicesBounded, NEW m \in Members, NEW a \in Media, NEW liked \in BOOLEAN,
         NEW forced \in BOOLEAN, SetPreference(m, a, liked, forced)
  PROVE  ChoicesBounded'
<1>1. PICK others \in Seq(Preference), revision \in Nat :
        preferences' = [preferences EXCEPT ![m] =
          Newest(Append(others, ChoiceOf(a, liked, revision + 1)), PreferenceLimit)]
  BY ChoiceSet DEF ChoicesBounded
<1> DEFINE next == ChoiceOf(a, liked, revision + 1)
           all == Append(others, next)
<1>2. next \in Preference
  BY DEF Preference, ChoiceOf
<1>3. all \in Seq(Preference)
  BY <1>2
<1>4. Newest(all, PreferenceLimit) \in Seq(Preference) /\ Len(Newest(all, PreferenceLimit)) <= PreferenceLimit
  BY <1>3, NewestKeeps, BoundsAssumption
<1> HIDE DEF all
<1> QED
  BY <1>1, <1>4 DEF ChoicesBounded, all

\* New rows are counted once each.
LEMMA RowsCounted ==
  ASSUME Core, NEW S \in SUBSET Known, NEW T \in SUBSET Known, S \intersect T = {},
         NEW t \in Types, NEW k \in Nat, k <= Cardinality({e \in S : e.type = t})
  PROVE  /\ k + Cardinality({e \in T : e.type = t /\ Kept(e) /\ kind = "legacy"}) \in Nat
         /\ k + Cardinality({e \in T : e.type = t /\ Kept(e) /\ kind = "legacy"})
              <= Cardinality({e \in S \union T : e.type = t})
<1> DEFINE A == {e \in S : e.type = t}
           B == {e \in T : e.type = t}
           C == {e \in T : e.type = t /\ Kept(e) /\ kind = "legacy"}
<1>1. \A R \in SUBSET Known : IsFiniteSet(R)
  BY EventsCounted, KnownEvents DEF Core
<1>2. A \in SUBSET Known /\ B \in SUBSET Known /\ C \in SUBSET B /\ A \intersect B = {}
  OBVIOUS
<1>3. {e \in S \union T : e.type = t} = A \union B
  OBVIOUS
<1> HIDE DEF A, B, C
<1>4. IsFiniteSet(A) /\ IsFiniteSet(B) /\ IsFiniteSet(C)
  BY <1>1, <1>2
<1>5. /\ Cardinality(A \union B) = Cardinality(A) + Cardinality(B) - Cardinality({})
      /\ Cardinality(C) <= Cardinality(B)
  BY <1>2, <1>4, FS_Union, FS_Subset
<1>6. Cardinality(A) \in Nat /\ Cardinality(B) \in Nat /\ Cardinality(C) \in Nat
      /\ Cardinality({}) = 0
  BY <1>4, FS_CardinalityType, FS_EmptySet
<1>7. k <= Cardinality(A)
  BY DEF A
<1>8. k + Cardinality(C) \in Nat /\ k + Cardinality(C) <= Cardinality(A \union B)
  BY <1>5, <1>6, <1>7
<1> QED
  BY <1>3, <1>8, Zenon DEF C

\* A recording counts no row twice.
LEMMA ConsumeBounded ==
  ASSUME Core, StoreBounded, NEW w \in Workers, Consume(w)
  PROVE  StoreBounded'
<1> DEFINE batch == workers[w].batch
           known == workers[w].known
           new == batch \ tombstones
<1>1. CASE \E e \in batch : Conflicts(e)
  BY <1>1 DEF Consume, Ingest, StoreBounded
<1>2. CASE ~ \E e \in batch : Conflicts(e)
  <2>1. /\ tombstones' = tombstones \union new
        /\ tally' = Counted(new) /\ choice' = Chosen(new, known)
        /\ UNCHANGED <<kind, linked, noted>>
    BY <1>2 DEF Consume, Ingest
  <2>2. /\ new \in SUBSET Known /\ tombstones \in SUBSET Known
        /\ tombstones \intersect new = {} /\ new \in SUBSET Event
    BY DEF Known, Batches, Core, Drain
  <2> HIDE DEF new
  <2>3. ASSUME NEW t \in Types
        PROVE  tally'[t] \in Nat /\ tally'[t] <= Cardinality({e \in tombstones' : e.type = t})
    <3>1. tally[t] \in Nat /\ tally[t] <= Cardinality({e \in tombstones : e.type = t})
      BY DEF StoreBounded
    <3>2. tally'[t] = tally[t] + Cardinality({e \in new : e.type = t /\ Kept(e) /\ kind = "legacy"})
      BY <2>1 DEF Counted
    <3> DEFINE sum == tally[t] + Cardinality({e \in new : e.type = t /\ Kept(e) /\ kind = "legacy"})
    <3>3. sum \in Nat /\ sum <= Cardinality({e \in tombstones \union new : e.type = t})
      BY <2>2, <3>1, RowsCounted
    <3> QED
      BY <2>1, <3>2, <3>3, Zenon
  <2>4. tally' \in [Types -> Nat]
    BY <2>1, <2>3 DEF Counted
  <2>5. ASSUME NEW c \in Members \X Media
        PROVE  choice'[c].by <= MaxEvents
    <3>1. CASE Newer(new, known, c) = {}
      BY <2>1, <3>1 DEF Chosen, StoreBounded
    <3>2. CASE Newer(new, known, c) # {}
      <4> DEFINE last == CHOOSE e \in Newer(new, known, c) : \A f \in Newer(new, known, c) : f.id <= e.id
      <4>1. Newer(new, known, c) \in SUBSET Event
        BY <2>2 DEF Newer
      <4>2. last \in Event
        BY <3>2, <4>1, NewestExists
      <4>3. choice'[c] = [liked |-> last.liked, by |-> last.id]
        BY <2>1, <3>2 DEF Chosen
      <4> HIDE DEF last
      <4> QED
        BY <4>2, <4>3, BoundsAssumption DEF Event
    <3> QED
      BY <3>1, <3>2
  <2> QED
    BY <2>1, <2>3, <2>4, <2>5 DEF StoreBounded
<1> QED
  BY <1>1, <1>2

\* The room leaves the delivery alone, and all of the store but who is an account and
\* whether the room is there.
LEMMA RoomLeaves ==
  ASSUME Room
  PROVE  /\ UNCHANGED <<lease, workers, kind, tombstones, tally, choice>>
         /\ \/ UNCHANGED <<gone, linked, noted>>
            \/ DeleteRoom
            \/ \E m \in Members : LinkMember(m) \/ NoteMigration(m)
<1> USE DEF durable, delivery
<1>1. ASSUME NEW m \in Members, NEW a \in Media, NEW n \in Actions, MoveItem(m, a, n)
      PROVE  UNCHANGED <<delivery, durable>>
  BY <1>1 DEF MoveItem
<1>2. ASSUME NEW m \in Members, NEW a \in Media,
             \/ QueueAction(m, a) \/ BeginPlayback(m, a) \/ SourceFailure(m, a)
             \/ \E liked, forced \in BOOLEAN : SetPreference(m, a, liked, forced)
      PROVE  UNCHANGED <<delivery, durable>>
  BY <1>2 DEF QueueAction, BeginPlayback, SourceFailure, SetPreference
<1>3. ASSUME NEW purge \in BOOLEAN, RetireRoom(purge) PROVE UNCHANGED <<delivery, durable>>
  BY <1>3 DEF RetireRoom
<1> QED
  BY <1>1, <1>2, <1>3 DEF Room, LinkMember, NoteMigration, DeleteRoom

LEMMA BoundedStep == Core /\ Bounded /\ [Next]_vars => Bounded'
<1> SUFFICES ASSUME Core, Bounded, [Next]_vars PROVE Bounded'
  OBVIOUS
<1> USE DEF Bounded, live, durable, delivery
<1>1. reports' \in 0..MaxReports
  <2>1. \A m \in Members, a \in Media, n \in Actions : MoveItem(m, a, n) => UNCHANGED reports
    BY DEF MoveItem
  <2>2. Delivery => UNCHANGED reports
    BY DEF Delivery, Claim, Read, LookUp, Consume, AcknowledgeBatch, Finish, Fail, Crash,
           LeaseExpires
  <2>3. \A m \in Members, a \in Media : SourceFailure(m, a) => reports' \in 0..MaxReports
    BY BoundsAssumption DEF SourceFailure
  <2>4. \A m \in Members, a \in Media : BeginPlayback(m, a) => reports' \in 0..MaxReports
    BY BoundsAssumption DEF BeginPlayback
  <2> QED
    BY <2>3, <2>4, <2>1, <2>2
       DEF Next, Room, vars, QueueAction, SetPreference, RetireRoom, LinkMember, NoteMigration,
           DeleteRoom
<1>2. lease' \in Workers \union {NoWorker}
  <2>1. Room => UNCHANGED lease
    BY RoomLeaves
  <2>2. Delivery => lease' \in Workers \union {NoWorker}
    BY DEF Delivery, Claim, Read, LookUp, Consume, AcknowledgeBatch, Finish, Fail, Crash,
           LeaseExpires
  <2> QED
    BY <2>1, <2>2 DEF Next, vars
<1>3. OutboxBounded'
  <2>1. ASSUME NEW m \in Members, NEW a \in Media
        PROVE  /\ QueueAction(m, a) \/ BeginPlayback(m, a) \/ SourceFailure(m, a) => OutboxBounded'
               /\ \A n \in Actions : MoveItem(m, a, n) => OutboxBounded'
               /\ \A liked, forced \in BOOLEAN : SetPreference(m, a, liked, forced) => OutboxBounded'
    BY AppendBounded DEF QueueAction, MoveItem, BeginPlayback, SourceFailure, SetPreference
  <2>2. \A purge \in BOOLEAN : RetireRoom(purge) => OutboxBounded'
    BY RowsGo DEF RetireRoom
  <2>3. \A w \in Workers : AcknowledgeBatch(w) => OutboxBounded'
    BY RowsGo DEF AcknowledgeBatch, Acknowledge
  <2>4. UNCHANGED <<outbox, dropped>> => OutboxBounded'
    BY RowsGo
  <2> QED
    BY <2>1, <2>2, <2>3, <2>4
       DEF Next, Room, Delivery, vars, LinkMember, NoteMigration, DeleteRoom, Claim, Read, LookUp, Consume, Finish,
           Fail, Crash, LeaseExpires
<1>4. ChoicesBounded'
  <2>1. \A m \in Members, a \in Media, liked, forced \in BOOLEAN :
          SetPreference(m, a, liked, forced) => ChoicesBounded'
    BY ChoiceSetBounded
  <2>2. ASSUME NEW purge \in BOOLEAN, RetireRoom(purge) PROVE ChoicesBounded'
    <3>1. <<>> \in Seq(Preference) /\ Len(<<>>) <= PreferenceLimit
      BY BoundsAssumption
    <3> QED
      BY <2>2, <3>1 DEF RetireRoom, ChoicesBounded
  <2>3. UNCHANGED preferences => ChoicesBounded'
    BY DEF ChoicesBounded
  <2> QED
    BY <2>1, <2>2, <2>3
       DEF Next, Room, Delivery, vars, QueueAction, MoveItem, BeginPlayback, SourceFailure, LinkMember, NoteMigration,
           DeleteRoom, Claim, Read, LookUp, Consume, AcknowledgeBatch, Finish, Fail, Crash, LeaseExpires
<1>5. StoreBounded'
  <2>1. \A w \in Workers : Consume(w) => StoreBounded'
    BY ConsumeBounded
  <2>2. \A m \in Members : LinkMember(m) \/ NoteMigration(m) => StoreBounded'
    <3>1. accepted + 1 \in 0..MaxEvents + 1 /\ accepted + 1 # 0
      BY BoundsAssumption DEF Core
    <3> QED
      BY <3>1 DEF LinkMember, NoteMigration, StoreBounded
  <2>3. UNCHANGED <<kind, linked, noted, tally, tombstones, choice>> => StoreBounded'
    BY DEF StoreBounded
  <2>4. Room => StoreBounded'
    BY <2>2, <2>3, RoomLeaves DEF DeleteRoom
  <2> QED
    BY <2>1, <2>3, <2>4
       DEF Next, Delivery, vars, Claim, Read, LookUp, AcknowledgeBatch, Finish, Fail, Crash,
           LeaseExpires
<1> QED
  BY <1>1, <1>2, <1>3, <1>4, <1>5

LEMMA InitBounded == Init => Bounded
<1> SUFFICES ASSUME Init PROVE Bounded
  OBVIOUS
<1>1. OutboxBounded
  BY FS_EmptySet, BoundsAssumption DEF Init, OutboxBounded
<1>2. ChoicesBounded
  BY BoundsAssumption DEF Init, ChoicesBounded
<1>3. StoreBounded
  <2>1. Cardinality({}) = 0
    BY FS_EmptySet
  <2>2. \A t \in Types : {e \in tombstones : e.type = t} = {}
    BY DEF Init
  <2> QED
    BY <2>1, <2>2, BoundsAssumption DEF Init, StoreBounded
<1> QED
  BY <1>1, <1>2, <1>3, BoundsAssumption DEF Init, Bounded

\* TypeOK follows: what is recorded has at most MaxEvents rows of any type.
LEMMA BoundedTypes == Core /\ Bounded => TypeOK
<1> SUFFICES ASSUME Core, Bounded PROVE TypeOK
  OBVIOUS
<1>1. \A e \in outbox \union tombstones : e.id <= accepted
  BY DEF Core, Known
<1>2. ASSUME NEW t \in Types PROVE tally[t] \in 0..MaxEvents
  <2> DEFINE rows == {e \in tombstones : e.type = t}
  <2>1. IsFiniteSet(rows) /\ Cardinality(rows) <= MaxEvents
    BY EventsCounted DEF Core, Known
  <2>2. Cardinality(rows) \in Nat
    BY <2>1, FS_CardinalityType
  <2>3. tally[t] \in Nat /\ tally[t] <= Cardinality(rows)
    BY DEF Bounded, StoreBounded
  <2> QED
    BY <2>1, <2>2, <2>3, BoundsAssumption
<1>3. tally \in [Types -> 0..MaxEvents]
  BY <1>2 DEF Bounded, StoreBounded
<1>4. choice \in [Members \X Media -> [liked: BOOLEAN, by: 0..MaxEvents]]
  <2>1. ASSUME NEW c \in Members \X Media PROVE choice[c] \in [liked: BOOLEAN, by: 0..MaxEvents]
    <3>1. choice[c] \in [liked: BOOLEAN, by: Nat] /\ choice[c].by <= MaxEvents
      BY DEF Core, Bounded, StoreBounded
    <3> QED
      BY <3>1, BoundsAssumption
  <2> QED
    BY <2>1 DEF Core
<1> QED
  BY <1>1, <1>3, <1>4
     DEF Core, Bounded, OutboxBounded, ChoicesBounded, StoreBounded, TypeOK

-----------------------------------------------------------------------------
(* The last choice. *)

\* Every medium has room among the choices of a member: nothing is pruned.
NothingPruned == IsFiniteSet(Media) /\ Cardinality(Media) <= PreferenceLimit

About(e, m, a) == IsPreference(e) /\ e.member = m /\ e.media = a

\* A member has one choice about a medium.
OneChoice ==
  \A m \in Members : \A i, j \in DOMAIN preferences[m] :
    preferences[m][i].media = preferences[m][j].media => i = j

\* The live room remembers what any known like or unlike was about, and its revision
\* has not gone back: the key of the next one is new.
Remembered ==
  retired # "purged" =>
    \A e \in Known : IsPreference(e) =>
      \E i \in DOMAIN preferences[e.member] : /\ preferences[e.member][i].media = e.media
                                             /\ e.n <= preferences[e.member][i].revision

\* Of what the live room shows, the newest event waits or is recorded.
Told ==
  dropped = 0 =>
    \A m \in Members : \A i \in DOMAIN preferences[m] :
      \E e \in outbox \union tombstones :
        /\ About(e, m, preferences[m][i].media) /\ e.liked = preferences[m][i].liked
        /\ \A f \in Known : About(f, m, preferences[m][i].media) => f.id <= e.id

\* The choice of one who was an account all along is that of the newest row recorded.
Applied ==
  \A m \in Members, a \in Media :
    /\ \/ choice[<<m, a>>].by = 0
       \/ \E t \in tombstones : About(t, m, a) /\ t.id = choice[<<m, a>>].by
    /\ AllAlong(m) /\ ~gone =>
         \A t \in tombstones : About(t, m, a) =>
           /\ t.id <= choice[<<m, a>>].by
           /\ t.id = choice[<<m, a>>].by => t.liked = choice[<<m, a>>].liked

ChoiceKept == OneChoice /\ Remembered /\ Told

\* Choices about different media are no more than the media.
LEMMA ChoicesFit ==
  ASSUME NothingPruned, NEW s \in Seq(Preference),
         \A i, j \in DOMAIN s : s[i].media = s[j].media => i = j
  PROVE  Len(s) <= PreferenceLimit
<1> DEFINE medium == [i \in 1..Len(s) |-> s[i].media]
<1>1. \A i \in 1..Len(s) : s[i] \in Preference
  OBVIOUS
<1>2. \A i \in 1..Len(s) : s[i].media \in Media
  BY <1>1 DEF Preference
<1>3. medium \in Injection(1..Len(s), Media)
  BY <1>2 DEF Injection, IsInjective
<1> HIDE DEF medium
<1>4. Cardinality(1..Len(s)) <= Cardinality(Media)
  BY <1>3, FS_Injection DEF NothingPruned
<1>5. Cardinality(1..Len(s)) = Len(s) /\ Len(s) \in Nat
  BY FS_Interval
<1> QED
  BY <1>4, <1>5, FS_CardinalityType, BoundsAssumption DEF NothingPruned

\* The choices of m are the `others' and, last, the new one about a.
Replaced(m, a, liked, others, revision) ==
  /\ preferences' = [preferences EXCEPT ![m] = Append(others, ChoiceOf(a, liked, revision + 1))]
  /\ \A i, j \in DOMAIN others : others[i].media = others[j].media => i = j
  /\ \A i \in DOMAIN others : /\ others[i].media # a
                             /\ \E k \in DOMAIN preferences[m] : preferences[m][k] = others[i]
  /\ \A k \in DOMAIN preferences[m] :
       IF preferences[m][k].media = a THEN preferences[m][k].revision = revision
       ELSE \E i \in DOMAIN others : others[i] = preferences[m][k]

\* Setting a choice replaces it, at the end of the queue, and forgets no other.
LEMMA ChoiceReplaced ==
  ASSUME NothingPruned, ChoicesBounded, OneChoice,
         NEW m \in Members, NEW a \in Media, NEW liked \in BOOLEAN,
         NEW forced \in BOOLEAN, SetPreference(m, a, liked, forced)
  PROVE  \E others \in Seq(Preference), revision \in Nat :
           /\ Replaced(m, a, liked, others, revision)
           /\ AppendEvent("preference", m, a, revision + 1, liked)
<1> DEFINE mine == preferences[m]
<1>1. mine \in Seq(Preference) /\ \A i, j \in DOMAIN mine : mine[i].media = mine[j].media => i = j
  BY DEF ChoicesBounded, OneChoice
<1>2. PICK others \in Seq(Preference), revision \in Nat :
        /\ preferences' = [preferences EXCEPT ![m] =
             Newest(Append(others, ChoiceOf(a, liked, revision + 1)), PreferenceLimit)]
        /\ AppendEvent("preference", m, a, revision + 1, liked)
        /\ \/ /\ \A i \in DOMAIN preferences[m] : preferences[m][i].media # a
              /\ others = preferences[m] /\ revision = 0
           \/ \E place \in DOMAIN preferences[m] :
                /\ preferences[m][place].media = a
                /\ others = RemoveAt(preferences[m], place)
                /\ revision = preferences[m][place].revision
  <2>1. preferences \in [Members -> Seq(Preference)]
    BY DEF ChoicesBounded
  <2> QED
    BY <2>1, ChoiceSet
<1> HIDE DEF mine
<1>3. /\ \A i, j \in DOMAIN others : others[i].media = others[j].media => i = j
      /\ \A i \in DOMAIN others : /\ others[i].media # a
                                 /\ \E k \in DOMAIN mine : mine[k] = others[i]
      /\ \A k \in DOMAIN mine : IF mine[k].media = a THEN mine[k].revision = revision
                                ELSE \E i \in DOMAIN others : others[i] = mine[k]
  <2>1. CASE others = mine /\ \A i \in DOMAIN mine : mine[i].media # a
    BY <1>1, <2>1
  <2>2. ASSUME NEW place \in DOMAIN mine, mine[place].media = a,
               others = RemoveAt(mine, place), revision = mine[place].revision
        PROVE  <1>3!:
    <3>1. /\ DOMAIN others = 1..Len(mine) - 1 /\ DOMAIN mine = 1..Len(mine) /\ Len(mine) \in Nat
          /\ \A j \in 1..Len(mine) - 1 : others[j] = IF j < place THEN mine[j] ELSE mine[j + 1]
      <4>1. /\ RemoveAt(mine, place) \in Seq(Preference) /\ Len(RemoveAt(mine, place)) = Len(mine) - 1
            /\ \A j \in 1..Len(mine) - 1 :
                 RemoveAt(mine, place)[j] = IF j < place THEN mine[j] ELSE mine[j + 1]
        BY <1>1, <2>2, RemovedAt
      <4>2. DOMAIN others = 1..Len(others) /\ DOMAIN mine = 1..Len(mine) /\ Len(mine) \in Nat
        BY <1>1, <2>2, <4>1
      <4> QED
        BY <2>2, <4>1, <4>2
    <3>2. ASSUME NEW i \in DOMAIN others, NEW j \in DOMAIN others, others[i].media = others[j].media
          PROVE  i = j
      BY <1>1, <3>1, <3>2
    <3>3. ASSUME NEW i \in DOMAIN others
          PROVE  /\ others[i].media # a
                 /\ \E k \in DOMAIN mine : mine[k] = others[i]
      <4> DEFINE k == IF i < place THEN i ELSE i + 1
      <4>1. k \in DOMAIN mine /\ k # place /\ others[i] = mine[k]
        BY <3>1, <3>3
      <4> QED
        BY <1>1, <2>2, <4>1
    <3>4. ASSUME NEW k \in DOMAIN mine
          PROVE  IF mine[k].media = a THEN mine[k].revision = revision
                 ELSE \E i \in DOMAIN others : others[i] = mine[k]
      <4>1. CASE mine[k].media = a
        BY <1>1, <2>2, <4>1
      <4>2. CASE mine[k].media # a
        <5> DEFINE i == IF k < place THEN k ELSE k - 1
        <5>1. k # place
          BY <2>2, <4>2
        <5>2. i \in DOMAIN others /\ others[i] = mine[k]
          BY <3>1, <5>1
        <5> QED
          BY <4>2, <5>2
      <4> QED
        BY <4>1, <4>2
    <3> QED
      BY <3>2, <3>3, <3>4
  <2> QED
    BY <1>2, <2>1, <2>2 DEF mine
<1> DEFINE next == ChoiceOf(a, liked, revision + 1)
           all == Append(others, next)
<1>4. next \in Preference /\ next.media = a
  BY DEF Preference, ChoiceOf
<1> HIDE DEF next
<1>5. /\ all \in Seq(Preference) /\ DOMAIN all = 1..Len(others) + 1 /\ DOMAIN others = 1..Len(others)
      /\ Len(others) \in Nat
      /\ \A i \in DOMAIN all : all[i] = IF i <= Len(others) THEN others[i] ELSE next
  BY <1>4
<1> HIDE DEF all
<1>6. \A i, j \in DOMAIN all : all[i].media = all[j].media => i = j
  BY <1>3, <1>4, <1>5
<1>7. Newest(all, PreferenceLimit) = all
  BY <1>5, <1>6, ChoicesFit, NewestKeeps, BoundsAssumption
<1> QED
  BY <1>2, <1>3, <1>7 DEF all, next, mine, Replaced

\* A step without a like or unlike of its own keeps it: no more of them are known, and
\* those that wait or are recorded still do.
LEMMA NoChoiceMade ==
  ASSUME ChoiceKept, UNCHANGED <<preferences, retired>>, dropped' = 0 => dropped = 0,
         \A e \in Known' : IsPreference(e) => e \in Known,
         \A e \in outbox \union tombstones : IsPreference(e) => e \in outbox' \union tombstones'
  PROVE  ChoiceKept'
<1>1. OneChoice' /\ Remembered'
  BY DEF ChoiceKept, OneChoice, Remembered, IsPreference
<1>2. Told'
  <2>1. SUFFICES ASSUME dropped' = 0, NEW m \in Members, NEW i \in DOMAIN preferences[m]
                 PROVE  \E e \in outbox' \union tombstones' :
                          /\ About(e, m, preferences[m][i].media) /\ e.liked = preferences[m][i].liked
                          /\ \A f \in Known' : About(f, m, preferences[m][i].media) => f.id <= e.id
    BY DEF Told, About, IsPreference
  <2>2. PICK e \in outbox \union tombstones :
          /\ About(e, m, preferences[m][i].media) /\ e.liked = preferences[m][i].liked
          /\ \A f \in Known : About(f, m, preferences[m][i].media) => f.id <= e.id
    BY <2>1 DEF ChoiceKept, Told
  <2> QED
    BY <2>2 DEF About
<1> QED
  BY <1>1, <1>2 DEF ChoiceKept

\* An event of another kind is no choice.
LEMMA OtherAppended ==
  ASSUME Core, Bounded, ChoiceKept, NEW type \in Types, type # "preference",
         NEW m, NEW a, NEW n, NEW liked, AppendEvent(type, m, a, n, liked),
         UNCHANGED <<preferences, retired, durable, delivery>>
  PROVE  ChoiceKept'
<1>1. \A e \in outbox' : IsPreference(e) => e \in outbox
  BY DEF AppendEvent, IsPreference
<1>2. outbox \subseteq outbox'
  BY DEF AppendEvent
<1>3. dropped' = 0 => dropped = 0
  BY DEF AppendEvent, Bounded, OutboxBounded
<1>4. Batches' = Batches /\ tombstones' = tombstones
  BY DEF Batches, durable, delivery
<1>5. \A e \in Known' : IsPreference(e) => e \in Known
  BY <1>1, <1>4 DEF Known
<1> QED
  BY <1>2, <1>3, <1>4, <1>5, NoChoiceMade

\* A choice that is set has a key that was never used, so its event is appended
\* unless the outbox is full; it is the newest about its medium.
LEMMA ChoiceMade ==
  ASSUME NothingPruned, Core, Bounded, ChoiceKept,
         NEW m \in Members, NEW a \in Media, NEW liked \in BOOLEAN,
         NEW forced \in BOOLEAN, SetPreference(m, a, liked, forced)
  PROVE  ChoiceKept'
<1>1. PICK others \in Seq(Preference), revision \in Nat :
        /\ Replaced(m, a, liked, others, revision)
        /\ AppendEvent("preference", m, a, revision + 1, liked)
  <2>1. ChoicesBounded /\ OneChoice
    BY DEF Bounded, ChoiceKept
  <2> QED
    BY <2>1, ChoiceReplaced
<1> USE DEF Replaced
<1> DEFINE next == ChoiceOf(a, liked, revision + 1)
           all == Append(others, next)
           event == [id |-> accepted + 1, type |-> "preference", member |-> m, media |-> a,
                     n |-> revision + 1, liked |-> liked]
<1>2. next \in Preference /\ next.media = a /\ next.revision = revision + 1 /\ next.liked = liked
  BY DEF Preference, ChoiceOf
<1> HIDE DEF next
<1>3. /\ DOMAIN all = 1..Len(others) + 1 /\ DOMAIN others = 1..Len(others) /\ Len(others) \in Nat
      /\ \A i \in DOMAIN all : all[i] = IF i <= Len(others) THEN others[i] ELSE next
  BY <1>2
<1> HIDE DEF all
<1>4. /\ preferences \in [Members -> Seq(Preference)]
      /\ \A o \in Members : preferences'[o] = IF o = m THEN all ELSE preferences[o]
  BY <1>1 DEF Bounded, ChoicesBounded, all, next
<1>5. Len(others) + 1 \in DOMAIN all /\ all[Len(others) + 1] = next
  BY <1>3
<1>6. \A i \in DOMAIN all : IF i \in DOMAIN others THEN all[i] = others[i] /\ all[i].media # a
                             ELSE i = Len(others) + 1 /\ all[i] = next
  BY <1>1, <1>3
<1>7. OneChoice'
  <2>1. SUFFICES ASSUME NEW o \in Members, NEW i \in DOMAIN preferences'[o],
                        NEW j \in DOMAIN preferences'[o],
                        preferences'[o][i].media = preferences'[o][j].media
                 PROVE  i = j
    BY DEF OneChoice
  <2>2. CASE o # m
    BY <1>4, <2>1, <2>2 DEF ChoiceKept, OneChoice
  <2>3. CASE o = m
    <3>1. i \in DOMAIN all /\ j \in DOMAIN all /\ all[i].media = all[j].media
      BY <1>4, <2>1, <2>3
    <3> QED
      BY <1>1, <1>2, <1>6, <3>1
  <2> QED
    BY <2>2, <2>3
<1>8. UNCHANGED <<tombstones, retired>> /\ Batches' = Batches /\ retired = "no"
  BY DEF SetPreference, Open, Batches, durable, delivery
<1>9. \A e \in Known : /\ e.member \in Members /\ e.id \in Nat /\ e.id <= accepted /\ e.n \in Nat
                       /\ accepted \in Nat
  BY KnownEvents
<1>10. \A e \in Known : About(e, m, a) => e.n <= revision
  BY <1>1, <1>8 DEF ChoiceKept, Remembered, About
<1>11. ~Waits(event)
  BY <1>9, <1>10 DEF Waits, SameKey, IsPreference, About, Known
<1> HIDE DEF event
<1>12. \/ dropped' = dropped + 1 /\ outbox' = outbox
       \/ outbox' = outbox \union {event} /\ dropped' = dropped
  BY <1>1, <1>11 DEF AppendEvent, event
<1>13. Known' \subseteq Known \union {event}
  BY <1>8, <1>12 DEF Known
<1>14. Remembered'
  <2>1. SUFFICES ASSUME NEW e \in Known \union {event}, IsPreference(e)
                 PROVE  \E i \in DOMAIN preferences'[e.member] :
                          /\ preferences'[e.member][i].media = e.media
                          /\ e.n <= preferences'[e.member][i].revision
    BY <1>13 DEF Remembered, IsPreference
  <2>2. CASE e = event
    <3>1. e.member = m /\ e.media = a /\ e.n = revision + 1
      BY <2>2 DEF event
    <3> QED
      BY <1>2, <1>4, <1>5, <3>1
  <2>3. CASE e \in Known
    <3>1. PICK k \in DOMAIN preferences[e.member] : /\ preferences[e.member][k].media = e.media
                                                   /\ e.n <= preferences[e.member][k].revision
      BY <1>8, <2>1, <2>3 DEF ChoiceKept, Remembered
    <3>2. CASE e.member # m
      BY <1>4, <1>9, <2>3, <3>1, <3>2
    <3>3. CASE e.member = m /\ e.media = a
      <4>1. e.n <= next.revision
        BY <1>2, <1>9, <1>10, <2>1, <2>3, <3>3 DEF About
      <4> QED
        BY <1>2, <1>4, <1>5, <3>3, <4>1
    <3>4. CASE e.member = m /\ e.media # a
      <4>1. PICK i \in DOMAIN others : others[i] = preferences[m][k]
        BY <1>1, <3>1, <3>4
      <4>2. i \in DOMAIN all /\ all[i] = preferences[m][k]
        BY <1>3, <4>1
      <4> QED
        BY <1>4, <3>1, <3>4, <4>2
    <3> QED
      BY <3>2, <3>3, <3>4
  <2> QED
    BY <2>2, <2>3
<1>15. Told'
  <2>1. SUFFICES ASSUME dropped' = 0, NEW o \in Members, NEW i \in DOMAIN preferences'[o]
                 PROVE  \E e \in outbox' \union tombstones' :
                          /\ About(e, o, preferences'[o][i].media) /\ e.liked = preferences'[o][i].liked
                          /\ \A f \in Known' : About(f, o, preferences'[o][i].media) => f.id <= e.id
    BY DEF Told, About, IsPreference
  <2>2. dropped = 0 /\ outbox' = outbox \union {event}
    BY <1>12, <2>1 DEF Bounded, OutboxBounded
  <2>3. CASE o = m /\ preferences'[o][i].media = a
    <3>1. preferences'[o][i] = next
      BY <1>4, <1>6, <2>3
    <3>2. About(event, m, a) /\ event.liked = liked /\ event.id = accepted + 1
      BY DEF event, About, IsPreference
    <3>3. ASSUME NEW f \in Known'
          PROVE  f.id <= event.id
      <4>1. accepted \in Nat
        BY KnownEvents
      <4>2. CASE f \in Known
        BY <1>9, <3>2, <4>1, <4>2
      <4>3. CASE f = event
        BY <3>2, <4>1, <4>3
      <4> QED
        BY <1>13, <4>2, <4>3
    <3> QED
      BY <1>2, <2>2, <2>3, <3>1, <3>2, <3>3
  <2>4. CASE ~(o = m /\ preferences'[o][i].media = a)
    <3>1. \E k \in DOMAIN preferences[o] : preferences[o][k] = preferences'[o][i]
      <4>1. CASE o # m
        BY <1>4, <4>1
      <4>2. CASE o = m
        <5>1. i \in DOMAIN all /\ preferences'[o][i] = all[i] /\ all[i].media # a
          BY <1>4, <2>4, <4>2
        <5>2. i \in DOMAIN others /\ all[i] = others[i]
          BY <1>2, <1>6, <5>1
        <5> QED
          BY <1>1, <4>2, <5>1, <5>2
      <4> QED
        BY <4>1, <4>2
    <3>2. PICK k \in DOMAIN preferences[o] : preferences[o][k] = preferences'[o][i]
      BY <3>1
    <3>3. PICK e \in outbox \union tombstones :
            /\ About(e, o, preferences[o][k].media) /\ e.liked = preferences[o][k].liked
            /\ \A f \in Known : About(f, o, preferences[o][k].media) => f.id <= e.id
      BY <2>2 DEF ChoiceKept, Told
    <3>4. ~About(event, o, preferences[o][k].media)
      BY <2>4, <3>2 DEF About, event
    <3> QED
      BY <1>8, <1>13, <2>2, <3>2, <3>3, <3>4
  <2> QED
    BY <2>3, <2>4
<1> QED
  BY <1>7, <1>14, <1>15 DEF ChoiceKept

LEMMA ChoiceKeptStep ==
  ASSUME NothingPruned, Core, Bounded, ChoiceKept, [Next]_vars
  PROVE  ChoiceKept'
<1> USE DEF live, durable, delivery
<1>1. ASSUME NEW m \in Members, NEW a \in Media,
             \/ QueueAction(m, a) \/ BeginPlayback(m, a) \/ SourceFailure(m, a)
             \/ \E n \in Actions : MoveItem(m, a, n)
      PROVE  ChoiceKept'
  <2>1. PICK type \in {"queue", "move", "failure"} : \E n : AppendEvent(type, m, a, n, FALSE)
    BY <1>1 DEF QueueAction, MoveItem, BeginPlayback, SourceFailure
  <2>2. PICK n : AppendEvent(type, m, a, n, FALSE)
    BY <2>1
  <2>3. type \in Types /\ type # "preference"
    BY <2>1 DEF Types
  <2>4. UNCHANGED <<preferences, retired, durable, delivery>>
    BY <1>1 DEF QueueAction, MoveItem, BeginPlayback, SourceFailure
  <2> QED
    BY <2>2, <2>3, <2>4, OtherAppended
<1>2. ASSUME NEW purge \in BOOLEAN, RetireRoom(purge) PROVE ChoiceKept'
  <2>1. CASE purge
    <3>1. retired' = "purged" /\ \A m \in Members : preferences'[m] = <<>>
      BY <1>2, <2>1 DEF RetireRoom
    <3>2. \A m \in Members : DOMAIN preferences'[m] = {}
      BY <3>1
    <3> QED
      BY <3>1, <3>2 DEF ChoiceKept, OneChoice, Remembered, Told
  <2>2. CASE ~purge
    <3>1. /\ UNCHANGED <<outbox, dropped, preferences, tombstones, workers>>
          /\ retired' = "purged" => retired = "purged"
          /\ retired = "purged" => retired' = "purged"
      BY <1>2, <2>2 DEF RetireRoom, Open
    <3> QED
      BY <3>1 DEF ChoiceKept, OneChoice, Remembered, Told, Known, Batches, About, IsPreference
  <2> QED
    BY <2>1, <2>2
<1>3. ASSUME NEW w \in Workers, Consume(w) PROVE ChoiceKept'
  <2>1. tombstones \subseteq tombstones' /\ tombstones' \subseteq tombstones \union workers[w].batch
    BY <1>3 DEF Consume, Ingest
  <2>2. \A v \in Workers : workers'[v].batch \subseteq workers[v].batch
    <3>1. \/ Go(w, "finish")
          \/ workers' = [workers EXCEPT ![w] = [pc |-> "acknowledge",
                                               batch |-> workers[w].batch, known |-> {}]]
      BY <1>3 DEF Consume, Core
    <3> QED
      BY <3>1 DEF Go, Idle, Core
  <2>3. Known' \subseteq Known
    BY <1>3, <2>1, <2>2 DEF Known, Batches, Consume
  <2> QED
    BY <1>3, <2>1, <2>3, NoChoiceMade DEF Consume
<1>4. ASSUME NEW w \in Workers, AcknowledgeBatch(w) PROVE ChoiceKept'
  <2>1. /\ workers[w].batch \subseteq tombstones
        /\ outbox' = {e \in outbox : \A f \in workers[w].batch : f.id # e.id}
        /\ UNCHANGED <<dropped, preferences, retired, tombstones>>
    BY <1>4 DEF AcknowledgeBatch, Acknowledge, At, Core, DrainSound
  <2>2. outbox \subseteq outbox' \union tombstones'
    BY <2>1 DEF Core, Known
  <2>3. \A v \in Workers : workers'[v].batch \subseteq workers[v].batch
    BY <1>4 DEF AcknowledgeBatch, Go, Idle, Core, Drain
  <2>4. Known' \subseteq Known
    BY <2>1, <2>3 DEF Known, Batches
  <2> QED
    BY <2>1, <2>2, <2>4, NoChoiceMade
<1>5. ASSUME NEW w \in Workers,
             Claim(w) \/ Read(w) \/ LookUp(w) \/ Fail(w) \/ Finish(w) \/ Crash(w)
      PROVE  ChoiceKept'
  <2>1. UNCHANGED <<outbox, dropped, preferences, retired, tombstones>>
    BY <1>5 DEF Claim, Read, LookUp, Fail, Finish, Crash
  <2>2. \A v \in Workers : workers'[v].batch \subseteq workers[v].batch \union outbox
    <3>1. ASSUME NEW pc, Go(w, pc)
          PROVE  \A v \in Workers : workers'[v].batch \subseteq workers[v].batch \union outbox
      BY <3>1 DEF Go, Idle, Core, Drain
    <3>2. ASSUME workers' = [workers EXCEPT ![w] =
                               [pc |-> "look up", batch |-> Oldest, known |-> {}]]
          PROVE  \A v \in Workers : workers'[v].batch \subseteq workers[v].batch \union outbox
      BY <3>2 DEF Oldest, Core, Drain
    <3>3. ASSUME LookUp(w)
          PROVE  \A v \in Workers : workers'[v].batch \subseteq workers[v].batch \union outbox
      BY <3>3, DrainReplaced DEF LookUp, Core
    <3> QED
      BY <1>5, <3>1, <3>2, <3>3 DEF Claim, Read, LookUp, Fail, Finish, Crash
  <2>3. Known' \subseteq Known
    BY <2>1, <2>2 DEF Known, Batches
  <2> QED
    BY <2>1, <2>3, NoChoiceMade
<1>6. UNCHANGED <<outbox, dropped, preferences, retired, tombstones, workers>> => ChoiceKept'
  BY NoChoiceMade DEF Known, Batches
<1> QED
  BY <1>1, <1>2, <1>3, <1>4, <1>5, <1>6, ChoiceMade
     DEF Next, Room, Delivery, vars, LinkMember, NoteMigration, DeleteRoom, LeaseExpires

\* What leaves the recorded rows and the choices alone, and makes nobody an account
\* that was one all along.
LEMMA NothingApplied ==
  ASSUME Applied, UNCHANGED <<tombstones, choice>>, gone => gone',
         \A m \in Members : AllAlong(m)' => AllAlong(m)
  PROVE  Applied'
<1>1. SUFFICES ASSUME NEW m \in Members, NEW a \in Media
               PROVE  /\ \/ choice'[<<m, a>>].by = 0
                         \/ \E t \in tombstones' : About(t, m, a) /\ t.id = choice'[<<m, a>>].by
                      /\ AllAlong(m)' /\ ~gone' =>
                           \A t \in tombstones' : About(t, m, a) =>
                             /\ t.id <= choice'[<<m, a>>].by
                             /\ t.id = choice'[<<m, a>>].by => t.liked = choice'[<<m, a>>].liked
  BY DEF Applied, About, IsPreference
<1>2. /\ \/ choice[<<m, a>>].by = 0
         \/ \E t \in tombstones : About(t, m, a) /\ t.id = choice[<<m, a>>].by
      /\ AllAlong(m) /\ ~gone =>
           \A t \in tombstones : About(t, m, a) =>
             /\ t.id <= choice[<<m, a>>].by
             /\ t.id = choice[<<m, a>>].by => t.liked = choice[<<m, a>>].liked
  BY DEF Applied
<1> QED
  BY <1>2

\* A recording applies the newest of the rows it adds, unless a newer one was applied.
LEMMA ConsumeApplies ==
  ASSUME Core, Applied, NEW w \in Workers, Consume(w)
  PROVE  Applied'
<1> DEFINE batch == workers[w].batch
           known == workers[w].known
           new == batch \ tombstones
<1>1. CASE \E e \in batch : Conflicts(e)
  <2>1. UNCHANGED <<tombstones, choice, gone, kind, linked, noted>>
    BY <1>1 DEF Consume, Ingest
  <2> QED
    BY <2>1, NothingApplied DEF AllAlong
<1>2. CASE ~ \E e \in batch : Conflicts(e)
  <2>1. /\ tombstones' = tombstones \union new /\ choice' = Chosen(new, known)
        /\ UNCHANGED <<kind, gone, linked, noted>>
    BY <1>2 DEF Consume, Ingest
  <2>2. /\ new \in SUBSET Known /\ tombstones \in SUBSET Known /\ new \intersect tombstones = {}
        /\ new \in SUBSET Event /\ tombstones \in SUBSET Event
    BY DEF Known, Batches, Core, Drain
  <2>3. \A e, f \in tombstones \union new : e.id = f.id => e = f
    BY <2>2 DEF Core
  <2> HIDE DEF new
  <2>4. SUFFICES ASSUME NEW m \in Members, NEW a \in Media
                 PROVE  /\ \/ choice'[<<m, a>>].by = 0
                           \/ \E t \in tombstones' : About(t, m, a) /\ t.id = choice'[<<m, a>>].by
                        /\ AllAlong(m) /\ ~gone =>
                             \A t \in tombstones' : About(t, m, a) =>
                               /\ t.id <= choice'[<<m, a>>].by
                               /\ t.id = choice'[<<m, a>>].by => t.liked = choice'[<<m, a>>].liked
    BY <2>1 DEF Applied, AllAlong, About, IsPreference
  <2> DEFINE c == <<m, a>>
             newer == Newer(new, known, c)
  <2>5. /\ c \in Members \X Media /\ choice[c].by \in Nat
        /\ \A e \in tombstones \union new : e.id \in Nat
        /\ \/ choice[c].by = 0
           \/ \E t \in tombstones : About(t, m, a) /\ t.id = choice[c].by
        /\ AllAlong(m) /\ ~gone =>
             \A t \in tombstones : About(t, m, a) =>
               /\ t.id <= choice[c].by
               /\ t.id = choice[c].by => t.liked = choice[c].liked
    BY <2>2 DEF Core, Applied, Event
  <2>6. /\ newer \in SUBSET new
        /\ \A e \in newer : About(e, m, a) /\ e.id > choice[c].by
    BY DEF Newer, About
  <2>7. AllAlong(m) /\ ~gone => \A e \in new : About(e, m, a) => e \in newer \/ e.id <= choice[c].by
    <3>1. SUFFICES ASSUME AllAlong(m), ~gone, NEW e \in new, About(e, m, a)
                   PROVE  e \in newer \/ e.id <= choice[c].by
      OBVIOUS
    <3>2. Kept(e) /\ IsPreference(e) /\ <<e.member, e.media>> = c
      BY <3>1 DEF Kept, About
    <3>3. Attributed(e, known)
      <4>1. e \in batch /\ e.member = m /\ e.id \in Nat /\ 1 <= e.id
        BY <2>2, <3>1, BoundsAssumption DEF About, Event, new
      <4>2. linked[m] = 1 /\ (kind = "legacy" \/ noted[m] <= 1) /\ noted[m] \in Nat
        BY <3>1 DEF AllAlong, Core
      <4>3. m \in known
        BY <4>1, <4>2 DEF Consume, At, Core, DrainSound
      <4> QED
        BY <4>1, <4>2, <4>3 DEF Attributed
    <3> QED
      BY <2>5, <3>2, <3>3 DEF Newer
  <2>8. CASE newer = {}
    <3>1. choice'[c] = choice[c]
      BY <2>1, <2>5, <2>8 DEF Chosen
    <3>2. ASSUME AllAlong(m), ~gone, NEW t \in new, About(t, m, a)
          PROVE  t.id <= choice[c].by /\ t.id # choice[c].by
      <4>1. t.id <= choice[c].by /\ t.id # 0
        BY <2>2, <2>7, <2>8, <3>2 DEF Event
      <4>2. \A u \in tombstones : u.id # t.id
        BY <2>2, <2>3
      <4> QED
        BY <2>5, <4>1, <4>2
    <3> QED
      BY <2>1, <2>5, <3>1, <3>2
  <2>9. CASE newer # {}
    <3> DEFINE last == CHOOSE e \in newer : \A f \in newer : f.id <= e.id
    <3>1. choice'[c] = [liked |-> last.liked, by |-> last.id]
      BY <2>1, <2>5, <2>9 DEF Chosen
    <3>2. last \in newer /\ \A f \in newer : f.id <= last.id
      BY <2>2, <2>6, <2>9, NewestExists
    <3> HIDE DEF last
    <3>3. choice'[c].by = last.id /\ choice'[c].liked = last.liked
      BY <3>1
    <3>4. last \in new /\ About(last, m, a) /\ last.id > choice[c].by
      BY <2>6, <3>2
    <3>5. ASSUME AllAlong(m), ~gone, NEW t \in tombstones \union new, About(t, m, a)
          PROVE  t.id <= last.id /\ (t.id = last.id => t.liked = last.liked)
      <4>1. t \in newer \/ t.id <= choice[c].by
        BY <2>5, <2>7, <3>5
      <4>2. t.id <= last.id
        BY <2>5, <3>2, <3>4, <4>1
      <4> QED
        BY <2>3, <3>4, <4>2
    <3> QED
      BY <2>1, <3>3, <3>4, <3>5
  <2> HIDE DEF newer
  <2> QED
    BY <2>8, <2>9
<1> QED
  BY <1>1, <1>2

LEMMA AppliedStep ==
  ASSUME Core, Bounded, Applied, [Next]_vars
  PROVE  Applied'
<1> USE DEF live, durable, delivery
<1>1. ASSUME NEW m \in Members, LinkMember(m) \/ NoteMigration(m) PROVE Applied'
  <2>1. /\ UNCHANGED <<tombstones, choice, gone, kind>>
        /\ \/ linked' = [linked EXCEPT ![m] = accepted + 1] /\ noted' = noted
           \/ noted' = [noted EXCEPT ![m] = accepted + 1] /\ linked' = linked
    BY <1>1 DEF LinkMember, NoteMigration
  <2>2. linked \in [Members -> Nat] /\ noted \in [Members -> Nat] /\ accepted \in Nat
    BY BoundsAssumption DEF Core
  <2>3. CASE accepted = 0
    <3>1. tombstones = {}
      BY <2>3, BoundsAssumption DEF Core, Known, Event
    <3> QED
      BY <2>1, <3>1 DEF Applied
  <2>4. CASE accepted # 0
    <3>1. \A o \in Members : AllAlong(o)' => AllAlong(o)
      BY <2>1, <2>2, <2>4 DEF AllAlong
    <3> QED
      BY <2>1, <3>1, NothingApplied
  <2> QED
    BY <2>3, <2>4
<1>2. DeleteRoom => Applied'
  BY NothingApplied DEF DeleteRoom, AllAlong
<1>3. UNCHANGED <<tombstones, choice, gone, kind, linked, noted>> => Applied'
  BY NothingApplied DEF AllAlong
<1>4. Room => Applied'
  BY <1>1, <1>2, <1>3, RoomLeaves
<1> QED
  BY <1>3, <1>4, ConsumeApplies
     DEF Next, Delivery, vars, Claim, Read, LookUp, AcknowledgeBatch, Finish, Fail, Crash,
         LeaseExpires

\* No like or unlike of the medium waits: the newest is recorded, and it is the newest
\* recorded; so it is the one that was applied.
LEMMA ChoicesMeet == Core /\ Bounded /\ ChoiceKept /\ Applied => AccountAgreesWithRoom
<1> SUFFICES ASSUME Core, Bounded, ChoiceKept, Applied,
                    NEW m \in Members, NEW i \in 1..Len(preferences[m]),
                    AllAlong(m), dropped = 0, ~gone,
                    ~ \E e \in outbox : About(e, m, preferences[m][i].media)
             PROVE  choice[<<m, preferences[m][i].media>>].liked = preferences[m][i].liked
  BY DEF AccountAgreesWithRoom, About
<1> DEFINE a == preferences[m][i].media
           by == choice[<<m, a>>].by
<1>1. preferences[m] \in Seq(Preference) /\ i \in DOMAIN preferences[m]
  BY DEF Bounded, ChoicesBounded
<1>2. preferences[m][i] \in Preference
  BY <1>1
<1>3. a \in Media
  BY <1>2 DEF Preference
<1>4. PICK e \in tombstones : /\ About(e, m, a) /\ e.liked = preferences[m][i].liked
                             /\ \A f \in Known : About(f, m, a) => f.id <= e.id
  BY <1>1 DEF ChoiceKept, Told
<1>5. e.id <= by /\ (e.id = by => e.liked = choice[<<m, a>>].liked)
  BY <1>3, <1>4 DEF Applied
<1>6. e.id \in Nat /\ e.id > 0 /\ by \in Nat
  <2>1. e \in Event /\ choice[<<m, a>>] \in [liked: BOOLEAN, by: Nat]
    BY <1>3, <1>4 DEF Core
  <2> QED
    BY <2>1, BoundsAssumption DEF Event
<1>7. PICK t \in tombstones : About(t, m, a) /\ t.id = by
  BY <1>3, <1>5, <1>6 DEF Applied
<1>8. by <= e.id
  BY <1>4, <1>7 DEF Known
<1> QED
  BY <1>4, <1>5, <1>6, <1>8

LEMMA InitKept == Init => ChoiceKept /\ Applied
<1> SUFFICES ASSUME Init PROVE ChoiceKept /\ Applied
  OBVIOUS
<1>1. \A m \in Members : DOMAIN preferences[m] = {}
  BY DEF Init
<1>2. Known = {}
  BY DEF Init, Known, Batches, Idle
<1> QED
  BY <1>1, <1>2 DEF Init, ChoiceKept, OneChoice, Remembered, Told, Applied

-----------------------------------------------------------------------------
(* Theorems about the rows of both databases. *)

\* Types and bounds (TypeOK): waiting rows have keys of their own and fit the outbox,
\* a member's choices fit their limit, and the aggregates count no row twice.
THEOREM TypeCorrect == Spec => []TypeOK
<1>1. Spec => []Bounded
  BY InitBounded, BoundedStep, CoreInvariant, PTL DEF Spec
<1> QED
  BY <1>1, CoreInvariant, BoundedTypes, PTL

\* With room for a choice about every medium, the durable choice of an account agrees
\* with the live room's once no like or unlike waits (AccountAgreesWithRoom), whatever
\* drains raced, failed or came late.
THEOREM AccountKeepsLastChoice ==
  ASSUME NothingPruned
  PROVE  Spec => []AccountAgreesWithRoom
<1>1. Spec => []Bounded
  BY InitBounded, BoundedStep, CoreInvariant, PTL DEF Spec
<1>2. Core /\ Bounded /\ ChoiceKept /\ [Next]_vars => ChoiceKept'
  BY ChoiceKeptStep
<1>3. Core /\ Bounded /\ Applied /\ [Next]_vars => Applied'
  BY AppliedStep
<1>4. Spec => [](ChoiceKept /\ Applied)
  BY <1>1, <1>2, <1>3, InitKept, CoreInvariant, PTL DEF Spec
<1> QED
  BY <1>1, <1>4, CoreInvariant, ChoicesMeet, PTL

-----------------------------------------------------------------------------
(* Nothing is lost, nothing is counted twice. *)

\* The aggregates of a legacy room are those of the rows recorded.
CountsExact ==
  kind = "legacy" /\ ~gone =>
    \A t \in Types : tally[t] = Cardinality({e \in tombstones : e.type = t})

\* A row leaves the outbox recorded, or with a purge, which takes no like or unlike; and
\* what was recorded is so for good.
LeavesRecorded ==
  /\ tombstones \subseteq tombstones'
  /\ \A e \in outbox \ outbox' :
       e \in tombstones' \/ (retired' = "purged" /\ ~IsPreference(e))

LEMMA ConsumeCounts ==
  ASSUME Core, CountsExact, NEW w \in Workers, Consume(w)
  PROVE  CountsExact'
<1> DEFINE batch == workers[w].batch
           new == batch \ tombstones
<1>1. UNCHANGED <<kind, gone>>
  BY DEF Consume
<1>2. CASE \E e \in batch : Conflicts(e)
  BY <1>1, <1>2 DEF Consume, Ingest, CountsExact
<1>3. CASE ~ \E e \in batch : Conflicts(e)
  <2>1. tombstones' = tombstones \union new /\ tally' = Counted(new)
    BY <1>3 DEF Consume, Ingest
  <2>2. new \in SUBSET Known /\ tombstones \in SUBSET Known /\ tombstones \intersect new = {}
    BY DEF Known, Batches
  <2> HIDE DEF new
  <2>3. ASSUME kind = "legacy", ~gone, NEW t \in Types
        PROVE  tally'[t] = Cardinality({e \in tombstones' : e.type = t})
    <3> DEFINE A == {e \in tombstones : e.type = t}
               B == {e \in new : e.type = t}
    <3>1. tally[t] = Cardinality(A)
      BY <2>3 DEF CountsExact
    <3>2. {e \in new : e.type = t /\ Kept(e) /\ kind = "legacy"} = B
      BY <2>3 DEF Kept
    <3>3. tally'[t] = Cardinality(A) + Cardinality(B)
      BY <2>1, <3>1, <3>2 DEF Counted
    <3>4. A \in SUBSET Known /\ B \in SUBSET Known /\ A \intersect B = {}
      BY <2>2
    <3>5. IsFiniteSet(A) /\ IsFiniteSet(B)
      BY <3>4, EventsCounted, KnownEvents DEF Core
    <3>6. {e \in tombstones' : e.type = t} = A \union B
      BY <2>1
    <3> HIDE DEF A, B
    <3>7. Cardinality(A \union B) = Cardinality(A) + Cardinality(B) - 0
      BY <3>4, <3>5, FS_Union, FS_EmptySet
    <3>8. Cardinality(A) \in Nat /\ Cardinality(B) \in Nat
      BY <3>5, FS_CardinalityType
    <3>9. Cardinality(A \union B) = Cardinality(A) + Cardinality(B)
      BY <3>7, <3>8
    <3> QED
      BY <3>3, <3>6, <3>9, Zenon
  <2> QED
    BY <1>1, <2>3 DEF CountsExact
<1> QED
  BY <1>2, <1>3

LEMMA CountsStep == Core /\ CountsExact /\ [Next]_vars => CountsExact'
<1> SUFFICES ASSUME Core, CountsExact, [Next]_vars PROVE CountsExact'
  OBVIOUS
<1> USE DEF live, durable, delivery
<1>1. DeleteRoom => CountsExact'
  BY DEF DeleteRoom, CountsExact
<1>2. UNCHANGED <<kind, gone, tally, tombstones>> => CountsExact'
  BY DEF CountsExact
<1>3. Room => CountsExact'
  BY <1>1, <1>2, RoomLeaves DEF LinkMember, NoteMigration
<1> QED
  BY <1>2, <1>3, ConsumeCounts
     DEF Next, Delivery, vars, Claim, Read, LookUp, AcknowledgeBatch, Finish, Fail, Crash,
         LeaseExpires

LEMMA OutboxStep == Core /\ [Next]_vars => LeavesRecorded
<1> SUFFICES ASSUME Core, [Next]_vars PROVE LeavesRecorded
  OBVIOUS
<1> USE DEF live, durable, delivery
<1>1. ASSUME NEW m \in Members, NEW a \in Media,
             \/ QueueAction(m, a) \/ BeginPlayback(m, a) \/ SourceFailure(m, a)
             \/ \E n \in Actions : MoveItem(m, a, n)
             \/ \E liked, forced \in BOOLEAN : SetPreference(m, a, liked, forced)
      PROVE  LeavesRecorded
  <2>1. outbox \subseteq outbox'
    BY <1>1 DEF QueueAction, MoveItem, BeginPlayback, SourceFailure, SetPreference, AppendEvent
  <2>2. UNCHANGED tombstones
    BY <1>1 DEF QueueAction, MoveItem, BeginPlayback, SourceFailure, SetPreference
  <2> QED
    BY <2>1, <2>2 DEF LeavesRecorded
<1>2. ASSUME NEW purge \in BOOLEAN, RetireRoom(purge) PROVE LeavesRecorded
  BY <1>2 DEF RetireRoom, LeavesRecorded
<1>3. ASSUME NEW w \in Workers, Consume(w) PROVE LeavesRecorded
  BY <1>3 DEF Consume, Ingest, LeavesRecorded
<1>4. ASSUME NEW w \in Workers, AcknowledgeBatch(w) PROVE LeavesRecorded
  <2>1. /\ workers[w].batch \subseteq tombstones /\ UNCHANGED tombstones
        /\ outbox' = {e \in outbox : \A f \in workers[w].batch : f.id # e.id}
    BY <1>4 DEF AcknowledgeBatch, Acknowledge, At, Core, DrainSound
  <2>2. ASSUME NEW e \in outbox \ outbox' PROVE e \in tombstones
    <3>1. PICK f \in tombstones : f.id = e.id
      BY <2>1, <2>2
    <3> QED
      BY <2>2, <3>1 DEF Core, Known
  <2> QED
    BY <2>1, <2>2 DEF LeavesRecorded
<1>5. UNCHANGED <<outbox, tombstones>> => LeavesRecorded
  BY DEF LeavesRecorded
<1> QED
  BY <1>1, <1>2, <1>3, <1>4, <1>5
     DEF Next, Room, Delivery, vars, LinkMember, NoteMigration, DeleteRoom, Claim, Read, LookUp, Finish, Fail,
         Crash, LeaseExpires

\* The counters of a legacy room count each recorded event once: deliveries that are
\* retried, overlap or come late neither repeat nor miss one
\* (ingest_recommendation_events).
THEOREM EachCountedOnce == Spec => []CountsExact
<1>1. Init => CountsExact
  <2> SUFFICES ASSUME Init, NEW t \in Types
               PROVE  tally[t] = Cardinality({e \in tombstones : e.type = t})
    BY DEF CountsExact
  <2>1. {e \in tombstones : e.type = t} = {} /\ tally[t] = 0
    BY DEF Init
  <2> QED
    BY <2>1, FS_EmptySet
<1> QED
  BY <1>1, CountsStep, CoreInvariant, PTL DEF Spec

\* Whatever is acknowledged was recorded, and no recorded row is ever lost: a like or
\* unlike that the outbox took reaches the store
\* (acknowledge_recommendation_event_outbox, retire_room).
THEOREM OutboxLosesNothing == Spec => [][LeavesRecorded]_vars
  BY OutboxStep, CoreInvariant, PTL DEF Spec
=============================================================================
