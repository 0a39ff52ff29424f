------------------------ MODULE RecommendationLedger ------------------------
(***************************************************************************)
(* What the delivery of recommendation events promises, without the outbox *)
(* table, the drain workers, their lease and their calls: an accepted      *)
(* event waits, is recorded exactly once in the durable store, and is      *)
(* discarded only with a purged room that has no explicit choice waiting.  *)
(* RecommendationDelivery implements this module.                          *)
(***************************************************************************)
EXTENDS Naturals, FiniteSets

CONSTANTS Members,    \* members of the room
          Media,      \* media identities (source type and media id)
          MaxEvents,  \* bound on the events of a behaviour
          MaxNumber   \* bound on the numbers in their keys

VARIABLES kind,       \* durable kind of the room
          linked,     \* from which event on a member is an account; 0: a guest
          noted,      \* first event after the latest migration to it; 0: none
          gone,       \* the durable room row is deleted
          accepted,   \* number of events accepted so far
          pending,    \* accepted, not yet recorded
          lapsed,     \* discarded, though their recording may be under way
          tally,      \* aggregate counter of each event type
          choice      \* durable media preference of each account

vars == <<kind, linked, noted, gone, accepted, pending, lapsed, tally, choice>>

-----------------------------------------------------------------------------
(* Events: `n' is the revision of a preference, the playback occurrence of *)
(* a source failure, the client's action of anything else.                 *)

RoomKinds == {"legacy", "shared", "temporary"}
Types == {"preference", "failure", "queue", "move"}

Event == [id: 1..MaxEvents, type: Types, member: Members, media: Media,
          n: 0..MaxNumber, liked: BOOLEAN]

IsPreference(e) == e.type = "preference"

NoChoice == [liked |-> FALSE, by |-> 0]

\* Given the members taken for accounts: outside legacy rooms nothing from before the
\* latest migration teaches the account.
Attributed(e, known) ==
  /\ e.member \in known
  /\ kind = "legacy" \/ noted[e.member] <= e.id

\* A row that no longer has a room, and the implicit history of temporary rooms, is
\* acknowledged and not kept.
Kept(e) == ~gone /\ (kind = "temporary" => IsPreference(e))

\* The aggregate counters of legacy rooms after S is recorded.
TallyWith(S) ==
  [t \in Types |-> tally[t] + Cardinality({e \in S : e.type = t /\ Kept(e) /\ kind = "legacy"})]

\* The account's choice is its newest one: the order of recording does not matter.
ChoiceWith(S, known) ==
  [c \in Members \X Media |->
     LET mine == {e \in S : /\ IsPreference(e) /\ Kept(e) /\ Attributed(e, known)
                            /\ <<e.member, e.media>> = c}
         last == CHOOSE e \in mine : \A f \in mine : f.id <= e.id
     IN  IF mine # {} /\ choice[c].by < last.id
           THEN [liked |-> last.liked, by |-> last.id]
           ELSE choice[c]]

-----------------------------------------------------------------------------
Init ==
  /\ kind \in RoomKinds
  /\ linked \in [Members -> 0..1] /\ noted = [m \in Members |-> 0]
  /\ gone = FALSE
  /\ accepted = 0
  /\ pending = {} /\ lapsed = {}
  /\ tally = [t \in Types |-> 0]
  /\ choice = [c \in Members \X Media |-> NoChoice]

\* A guest signs in and keeps the membership; later, or never, the migration is noted.
Link(m) ==
  /\ linked[m] = 0
  /\ linked' = [linked EXCEPT ![m] = accepted + 1]
  /\ UNCHANGED <<kind, noted, gone, accepted, pending, lapsed, tally, choice>>

Note(m) ==
  /\ linked[m] > 0
  /\ noted' = [noted EXCEPT ![m] = accepted + 1]
  /\ UNCHANGED <<kind, linked, gone, accepted, pending, lapsed, tally, choice>>

Accept(e) ==
  /\ e.id = accepted + 1
  /\ accepted' = e.id
  /\ pending' = pending \union {e}
  /\ UNCHANGED <<kind, linked, noted, gone, lapsed, tally, choice>>

\* Who did an event as an account is taken for one, who is a guest is not; a guest that
\* signed in since then may be taken for either.
Record(S, known) ==
  /\ \A m \in known : linked[m] > 0
  /\ \A e \in S : linked[e.member] \in 1..e.id => e.member \in known
  /\ pending' = pending \ S
  /\ lapsed' \in SUBSET (lapsed \ S)
  /\ tally' = TallyWith(S)
  /\ choice' = ChoiceWith(S, known)
  /\ UNCHANGED <<kind, linked, noted, gone, accepted>>

\* The live room is purged: never under a like or unlike that still waits.
Discard ==
  /\ ~ \E e \in pending : IsPreference(e)
  /\ pending' = {}
  /\ lapsed' \in SUBSET (lapsed \union pending)
  /\ UNCHANGED <<kind, linked, noted, gone, accepted, tally, choice>>

Forget ==
  /\ lapsed' \in SUBSET lapsed
  /\ UNCHANGED <<kind, linked, noted, gone, accepted, pending, tally, choice>>

\* The durable room goes; a temporary one never under a like or unlike that waits.
Delete ==
  /\ kind = "temporary" => ~ \E e \in pending : IsPreference(e)
  /\ gone' = TRUE
  /\ UNCHANGED <<kind, linked, noted, accepted, pending, lapsed, tally, choice>>

Next ==
  \/ \E m \in Members : Link(m) \/ Note(m)
  \/ \E e \in Event : Accept(e)
  \/ \E S \in SUBSET (pending \union lapsed), known \in SUBSET Members : Record(S, known)
  \/ Discard \/ Forget \/ Delete

Spec == Init /\ [][Next]_vars
=============================================================================
