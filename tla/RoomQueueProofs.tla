-------------------------- MODULE RoomQueueProofs --------------------------
(***************************************************************************)
(* Proofs about RoomQueue, for any members, rows and sources: the queue,   *)
(* the session and the occurrence ledger agree in every reachable state.   *)
(* Lemmas say what each operator on the queue and on the ledger returns;   *)
(* Core is the inductive invariant; one lemma per family of reducers shows *)
(* that it is preserved, and the theorems at the end draw it together.     *)
(***************************************************************************)
EXTENDS RoomQueue, FiniteSetTheorems, WellFoundedInduction, TLAPS

\* A nonempty finite set has an element on which a natural-valued function is
\* largest: what the CHOOSE of EndPosition and LastSequence rest on.
LEMMA FiniteMaximum ==
  ASSUME NEW S, IsFiniteSet(S), S # {}, NEW f, \A i \in S : f[i] \in Nat
  PROVE  \E i \in S : \A j \in S : f[j] <= f[i]
<1> DEFINE HasMax(R) == \E i \in R : \A j \in R : f[j] <= f[i]
           Sizes == {n \in Nat : \E R \in SUBSET S :
                       R # {} /\ Cardinality(R) = n /\ ~HasMax(R)}
<1>1. SUFFICES ASSUME ~HasMax(S) PROVE FALSE
  OBVIOUS
<1>2. Cardinality(S) \in Sizes
  BY <1>1, FS_CardinalityType
<1>3. PICK n \in Sizes : \A k \in Sizes : ~(k < n)
  <2>1. \E x \in Sizes : \A y \in Sizes : <<y, x>> \notin OpToRel(<, Nat)
    BY <1>2, WFMin, NatLessThanWellFounded, Zenon
  <2> QED
    BY <2>1 DEF OpToRel
<1>4. PICK R \in SUBSET S : R # {} /\ Cardinality(R) = n /\ ~HasMax(R)
  OBVIOUS
<1>5. PICK x \in R : TRUE
  BY <1>4
<1> DEFINE Q == R \ {x}
<1>6. IsFiniteSet(R) /\ IsFiniteSet(Q) /\ Cardinality(Q) = n - 1 /\ Cardinality(Q) \in Nat
  <2>1. IsFiniteSet(R)
    BY FS_Subset
  <2> QED
    BY <2>1, <1>4, <1>5, FS_RemoveElement, FS_CardinalityType
<1>7. CASE Q = {}
  BY <1>7, <1>4, <1>5
<1>8. CASE HasMax(Q)
  <2>1. PICK y \in Q : \A j \in Q : f[j] <= f[y]
    BY <1>8
  <2>2. \A j \in R : j \in Q \/ j = x
    OBVIOUS
  <2>3. CASE f[x] <= f[y]
    BY <2>1, <2>2, <2>3, <1>4
  <2>4. CASE f[y] <= f[x]
    <3>1. \A j \in R : f[j] <= f[x]
      BY <2>1, <2>2, <2>4
    <3> QED
      BY <3>1, <1>4, <1>5
  <2> QED
    BY <2>1, <2>3, <2>4
<1>9. CASE Q # {} /\ ~HasMax(Q)
  <2>1. Cardinality(Q) \in Sizes
    BY <1>9, <1>6
  <2> QED
    BY <2>1, <1>3, <1>6
<1> QED
  BY <1>7, <1>8, <1>9

----------------------------------------------------------------------------
(* Queue operators.                                                        *)

Rows == [ItemIds -> Row]
Distinct(q) == \A i, j \in Queued(q) : q[i].pos = q[j].pos => i = j

\* A rank is a natural number and grows strictly with the position.
LEMMA RankProperties ==
  ASSUME NEW q \in Rows, NEW S \in SUBSET ItemIds
  PROVE  /\ \A i \in S : Rank(q, S, i) \in Nat
         /\ \A i, j \in S : q[i].pos < q[j].pos => Rank(q, S, i) < Rank(q, S, j)
<1> DEFINE Before(i) == {k \in S : q[k].pos < q[i].pos}
<1>1. \A i \in S : IsFiniteSet(Before(i)) /\ Cardinality(Before(i)) \in Nat
  <2>1. IsFiniteSet(S)
    BY ItemsAssumption, FS_Subset
  <2>2. \A i \in S : Before(i) \in SUBSET S
    OBVIOUS
  <2>3. \A i \in S : IsFiniteSet(Before(i))
    BY <2>1, <2>2, FS_Subset
  <2> QED
    BY <2>3, FS_CardinalityType
<1>2. ASSUME NEW i \in S, NEW j \in S, q[i].pos < q[j].pos
      PROVE  Cardinality(Before(i)) < Cardinality(Before(j))
  <2>1. \A k \in S : q[k].pos \in Nat
    BY DEF Rows, Row
  <2>2. Before(i) \in SUBSET Before(j)
    BY <1>2, <2>1
  <2>3. i \in Before(j) /\ i \notin Before(i)
    BY <1>2, <2>1
  <2>4. /\ Cardinality(Before(i)) <= Cardinality(Before(j))
        /\ Cardinality(Before(i)) # Cardinality(Before(j))
    BY <1>1, <2>2, <2>3, FS_Subset
  <2> QED
    BY <2>4, <1>1
<1> QED
  BY <1>1, <1>2 DEF Rank

\* Renumbering changes nothing but positions, and keeps them distinct.
LEMMA NormalizedProperties ==
  ASSUME NEW q \in Rows
  PROVE  /\ Normalized(q) \in Rows
         /\ \A i \in ItemIds : Normalized(q)[i].status = q[i].status
         /\ Distinct(q) => Distinct(Normalized(q))
<1> DEFINE N == Normalized(q)
<1>1. \A i \in Queued(q) : N[i] = [q[i] EXCEPT !.pos = Rank(q, Queued(q), i)]
  BY DEF Normalized, Queued, With
<1>2. \A i \in ItemIds \ Queued(q) : N[i] = q[i]
  BY DEF Normalized
<1>3. \A i \in Queued(q) : Rank(q, Queued(q), i) \in Nat
  BY RankProperties DEF Queued, With
<1>4. \A i \in ItemIds : N[i] \in Row /\ N[i].status = q[i].status
  <2>1. \A i \in Queued(q) : N[i] \in Row /\ N[i].status = q[i].status
    BY <1>1, <1>3 DEF Rows, Row, Queued, With
  <2> QED
    BY <2>1, <1>2 DEF Rows
<1>5. N \in Rows
  <2>1. N = [i \in ItemIds |-> N[i]]
    BY DEF Normalized
  <2> QED
    BY <2>1, <1>4 DEF Rows
<1>6. Queued(N) = Queued(q)
  BY <1>4 DEF Queued, With
<1>7. ASSUME Distinct(q), NEW i \in Queued(q), NEW j \in Queued(q), i # j
      PROVE  N[i].pos # N[j].pos
  <2>1. q[i].pos \in Nat /\ q[j].pos \in Nat /\ q[i].pos # q[j].pos
    BY <1>7 DEF Distinct, Rows, Row, Queued, With
  <2>2. N[i].pos = Rank(q, Queued(q), i) /\ N[j].pos = Rank(q, Queued(q), j)
    BY <1>1 DEF Rows, Row, Queued, With
  <2>3. Rank(q, Queued(q), i) # Rank(q, Queued(q), j)
    <3>1. Queued(q) \in SUBSET ItemIds
      BY DEF Queued, With
    <3> QED
      BY <2>1, <3>1, <1>3, RankProperties
  <2> QED
    BY <2>2, <2>3
<1> QED
  BY <1>4, <1>5, <1>6, <1>7 DEF Distinct

\* The last played_sequence is one of the rows', and no row's exceeds it.
LEMMA LastSequenceProperties ==
  ASSUME NEW q \in Rows
  PROVE  /\ LastSequence(q) \in Nat
         /\ \A i \in ItemIds : q[i].seq <= LastSequence(q)
<1> DEFINE IsLast(s) == \A i \in ItemIds : q[i].seq <= s
<1>1. \A i \in ItemIds : q[i].seq \in Nat
  BY DEF Rows, Row
<1>2. \E s \in {0} \union {q[i].seq : i \in ItemIds} : IsLast(s)
  <2>1. CASE ItemIds = {}
    BY <2>1
  <2>2. CASE ItemIds # {}
    <3> DEFINE f == [i \in ItemIds |-> q[i].seq]
    <3>1. PICK i \in ItemIds : \A j \in ItemIds : f[j] <= f[i]
      BY <2>2, <1>1, ItemsAssumption, FiniteMaximum
    <3> QED
      BY <3>1
  <2> QED
    BY <2>1, <2>2
<1>3. /\ LastSequence(q) \in {0} \union {q[i].seq : i \in ItemIds}
      /\ IsLast(LastSequence(q))
  BY <1>2 DEF LastSequence
<1> QED
  BY <1>1, <1>3

\* The end position is a natural number beyond every queued or playing row.
LEMMA EndPositionProperties ==
  ASSUME NEW q \in Rows
  PROVE  /\ EndPosition(q) \in Nat
         /\ \A i \in Active(q) : q[i].pos < EndPosition(q)
<1>1. \A i \in Active(q) : q[i].pos \in Nat
  BY DEF Rows, Row, Active, Queued, With
<1>2. CASE Active(q) = {}
  BY <1>2 DEF EndPosition
<1>3. CASE Active(q) # {}
  <2> DEFINE f == [i \in ItemIds |-> q[i].pos]
             last == CHOOSE i \in Active(q) : \A j \in Active(q) : q[j].pos <= q[i].pos
  <2>1. Active(q) \in SUBSET ItemIds
    BY DEF Active, Queued, With
  <2>2. IsFiniteSet(Active(q))
    BY <2>1, ItemsAssumption, FS_Subset
  <2>3. \A i \in Active(q) : f[i] = q[i].pos
    BY <2>1
  <2>4. \E i \in Active(q) : \A j \in Active(q) : f[j] <= f[i]
    BY <1>1, <1>3, <2>2, <2>3, FiniteMaximum
  <2>5. last \in Active(q) /\ \A j \in Active(q) : q[j].pos <= q[last].pos
    BY <2>3, <2>4
  <2>6. EndPosition(q) = q[last].pos + 1
    BY <1>3 DEF EndPosition
  <2> HIDE DEF last
  <2> QED
    BY <1>1, <2>5, <2>6
<1> QED
  BY <1>2, <1>3

\* Making room at the head keeps positions distinct and frees position 0.
LEMMA ShiftedProperties ==
  ASSUME NEW q \in Rows, NEW except \in ItemIds
  PROVE  LET s == ShiftedForNext(q, except)
         IN  /\ s \in Rows
             /\ \A i \in ItemIds : s[i].status = q[i].status /\ s[i].src = q[i].src
             /\ s[except] = q[except]
             /\ \A i \in Queued(q) \ {except} : s[i].pos = q[i].pos + 1
<1> DEFINE s == ShiftedForNext(q, except)
<1>1. ASSUME NEW i \in ItemIds
      PROVE  /\ s[i] \in Row /\ s[i].status = q[i].status /\ s[i].src = q[i].src
             /\ i \in Queued(q) \ {except} => s[i].pos = q[i].pos + 1
  <2>1. q[i] \in Row
    BY DEF Rows
  <2>2. CASE i \in Queued(q) \ {except}
    <3>1. s[i] = [q[i] EXCEPT !.pos = @ + 1, !.next = FALSE]
      BY <2>2 DEF ShiftedForNext
    <3> HIDE DEF s
    <3>2. s[i] = [[q[i] EXCEPT !.pos = @ + 1] EXCEPT !.next = FALSE]
      BY <3>1
    <3> DEFINE r == [q[i] EXCEPT !.pos = @ + 1]
    <3>3. r \in Row /\ r.pos = q[i].pos + 1 /\ r.status = q[i].status /\ r.src = q[i].src
      BY <2>1 DEF Row
    <3> HIDE DEF r
    <3>4. s[i] = [r EXCEPT !.next = FALSE]
      BY <3>2 DEF r
    <3> QED
      BY <3>3, <3>4 DEF Row
  <2>3. CASE i \notin Queued(q) \ {except}
    BY <2>1, <2>3 DEF ShiftedForNext
  <2> QED
    BY <2>2, <2>3
<1>2. s = [i \in ItemIds |-> s[i]] /\ s[except] = q[except]
  BY DEF ShiftedForNext
<1>3. s \in Rows
  BY <1>1, <1>2 DEF Rows
<1>4. Queued(q) \subseteq ItemIds
  BY DEF Queued, With
<1> HIDE DEF s
<1>5. \A i \in Queued(q) \ {except} : s[i].pos = q[i].pos + 1
  BY <1>1, <1>4
<1> QED
  BY <1>1, <1>2, <1>3, <1>5 DEF s

\* Placing a queued row renumbers the queue without a tie.
LEMMA PlacedProperties ==
  ASSUME NEW q \in Rows, Distinct(q), NEW i \in Queued(q), NEW p \in Nat
  PROVE  /\ Placed(q, i, p) \in Rows
         /\ \A j \in ItemIds : Placed(q, i, p)[j].status = q[j].status
         /\ Distinct(Placed(q, i, p))
<1> DEFINE P == Placed(q, i, p)
           others == Queued(q) \ {i}
           rank(j) == Rank(q, others, j)
           place(j) == IF rank(j) >= p THEN rank(j) + 1 ELSE rank(j)
<1>1. others \in SUBSET ItemIds /\ i \in ItemIds
  BY DEF Queued, With
<1>2. /\ \A j \in others : rank(j) \in Nat
      /\ \A j, k \in others : q[j].pos < q[k].pos => rank(j) < rank(k)
  BY <1>1, RankProperties
<1>3. \A j \in ItemIds : P[j] = IF j = i THEN [q[j] EXCEPT !.pos = p]
                                ELSE IF j \in others THEN [q[j] EXCEPT !.pos = place(j)]
                                ELSE q[j]
  BY DEF Placed
<1>4. ASSUME NEW j \in ItemIds
      PROVE  /\ P[j] \in Row /\ P[j].status = q[j].status
             /\ j = i => P[j].pos = p
             /\ j \in others => P[j].pos = place(j)
  <2>1. q[j] \in Row
    BY DEF Rows
  <2>2. CASE j = i
    <3>1. P[j] = [q[j] EXCEPT !.pos = p]
      BY <1>3, <2>2
    <3> QED
      BY <3>1, <2>1, <2>2 DEF Row
  <2>3. CASE j \in others
    <3>0. rank(j) \in Nat
      BY <1>2, <2>3
    <3> HIDE DEF rank
    <3>1. place(j) \in Nat
      BY <3>0
    <3> HIDE DEF place, P
    <3>2. P[j] = [q[j] EXCEPT !.pos = place(j)] /\ j # i
      BY <1>3, <2>3
    <3> QED
      BY <3>1, <3>2, <2>1, <2>3 DEF Row
  <2>4. CASE j # i /\ j \notin others
    BY <1>3, <2>1, <2>4
  <2> QED
    BY <2>2, <2>3, <2>4
<1>5. P = [j \in ItemIds |-> P[j]]
  BY DEF Placed
<1>6. P \in Rows
  BY <1>4, <1>5 DEF Rows
<1>7. Queued(P) = others \union {i}
  BY <1>1, <1>4 DEF Queued, With
<1>8. ASSUME NEW j \in others, NEW k \in others, j # k
      PROVE  place(j) # place(k)
  <2>1. q[j].pos \in Nat /\ q[k].pos \in Nat /\ q[j].pos # q[k].pos
    BY <1>8, <1>1 DEF Distinct, Rows, Row
  <2>2. rank(j) \in Nat /\ rank(k) \in Nat
    BY <1>2
  <2>3. rank(j) < rank(k) \/ rank(k) < rank(j)
    BY <1>2, <2>1
  <2> HIDE DEF rank
  <2> QED
    BY <2>2, <2>3
<1>9. ASSUME NEW j \in others PROVE place(j) # p
  <2>1. rank(j) \in Nat
    BY <1>2
  <2> HIDE DEF rank
  <2> QED
    BY <2>1
<1>10. Distinct(P)
  <2>1. SUFFICES ASSUME NEW j \in Queued(P), NEW k \in Queued(P), j # k
                 PROVE  P[j].pos # P[k].pos
    BY DEF Distinct
  <2> HIDE DEF place
  <2> QED
    BY <1>1, <1>4, <1>7, <1>8, <1>9, <2>1
<1> QED
  BY <1>4, <1>6, <1>10

\* An advance leaves exactly the chosen row playing and no tie in the queue, also
\* when the displaced row returns to its head.
LEMMA AdvancedProperties ==
  ASSUME NEW q \in Rows, Distinct(q), NEW n \in ItemIds, NEW keep \in BOOLEAN,
         \A i, j \in With(q, "playing") : i = j
  PROVE  /\ Advanced(q, n, keep) \in Rows
         /\ With(Advanced(q, n, keep), "playing") = {n}
         /\ Distinct(Advanced(q, n, keep))
<1> DEFINE A == Advanced(q, n, keep)
           current == With(q, "playing") \ {n}
           returns == keep /\ q[n].status = "played" /\ current # {}
           started == [q[n] EXCEPT !.status = "playing", !.next = FALSE, !.seq = 0]
           requeued(i) == [q[i] EXCEPT !.status = "queued", !.pos = 0,
                                       !.next = FALSE, !.seq = 0]
           retired(i) == [q[i] EXCEPT !.status = "played", !.seq = LastSequence(q) + 1]
           lowered(i) == [q[i] EXCEPT !.pos = @ + 1]
<1>1. \A i \in ItemIds : A[i] = IF i = n THEN started
                                ELSE IF i \in current
                                THEN IF returns THEN requeued(i) ELSE retired(i)
                                ELSE IF returns /\ i \in Queued(q) THEN lowered(i)
                                ELSE q[i]
  BY DEF Advanced
<1>2. A = [i \in ItemIds |-> A[i]]
  BY DEF Advanced
<1>3. \A i \in ItemIds : q[i] \in Row
  BY DEF Rows
<1>4. LastSequence(q) \in Nat
  BY LastSequenceProperties
<1>5. started \in Row /\ started.status = "playing"
  BY <1>3 DEF Row, Present
<1>6. ASSUME NEW i \in ItemIds
      PROVE  /\ requeued(i) \in Row /\ requeued(i).status = "queued" /\ requeued(i).pos = 0
             /\ retired(i) \in Row /\ retired(i).status = "played"
             /\ lowered(i) \in Row /\ lowered(i).status = q[i].status
             /\ lowered(i).pos = q[i].pos + 1
  <2>1. requeued(i) \in Row /\ requeued(i).status = "queued" /\ requeued(i).pos = 0
    BY <1>3 DEF Row, Present
  <2>2. retired(i) \in Row /\ retired(i).status = "played"
    <3> DEFINE latest == LastSequence(q) + 1
    <3>1. latest \in Nat
      BY <1>4
    <3> HIDE DEF latest
    <3>2. \A row \in Row : [row EXCEPT !.status = "played", !.seq = latest] \in Row
      BY <3>1 DEF Row, Present
    <3>3. retired(i) = [q[i] EXCEPT !.status = "played", !.seq = latest]
      BY DEF latest
    <3> QED
      BY <1>3, <3>2, <3>3 DEF Row
  <2>3. /\ lowered(i) \in Row /\ lowered(i).status = q[i].status
        /\ lowered(i).pos = q[i].pos + 1
    BY <1>3 DEF Row
  <2> QED
    BY <2>1, <2>2, <2>3
<1> HIDE DEF A, started, requeued, retired, lowered, returns
<1>7. A \in Rows
  <2>1. \A i \in ItemIds : A[i] \in Row
    BY <1>1, <1>3, <1>5, <1>6
  <2> QED
    BY <1>2, <2>1 DEF Rows
<1>8. With(A, "playing") = {n}
  <2>1. A[n].status = "playing"
    BY <1>1, <1>5
  <2>2. ASSUME NEW i \in ItemIds, i # n PROVE A[i].status # "playing"
    <3>1. CASE i \in current
      BY <1>1, <1>6, <2>2, <3>1
    <3>2. CASE i \notin current
      BY <1>1, <1>6, <2>2, <3>2 DEF With
    <3> QED
      BY <3>1, <3>2
  <2> QED
    BY <2>1, <2>2 DEF With
<1>9. Distinct(A)
  <2>1. SUFFICES ASSUME NEW i \in Queued(A), NEW j \in Queued(A), i # j
                 PROVE  A[i].pos # A[j].pos
    BY DEF Distinct
  <2>2. i \in ItemIds /\ j \in ItemIds /\ i # n /\ j # n
    BY <1>1, <1>5 DEF Queued, With
  <2>3. \A k \in Queued(q) : q[k].pos \in Nat
    BY <1>3 DEF Row, Queued, With
  <2>4. CASE returns
    <3>1. \A k \in {i, j} : \/ k \in current /\ A[k].pos = 0
                            \/ k \in Queued(q) /\ A[k].pos = q[k].pos + 1
      BY <1>1, <1>6, <2>2, <2>4 DEF Queued, With
    <3> QED
      BY <3>1, <2>1, <2>3 DEF Distinct
  <2>5. CASE ~returns
    <3>1. \A k \in {i, j} : k \in Queued(q) /\ A[k].pos = q[k].pos
      BY <1>1, <1>6, <2>2, <2>5 DEF Queued, With
    <3> QED
      BY <3>1, <2>1 DEF Distinct
  <2> QED
    BY <2>4, <2>5
<1> QED
  BY <1>7, <1>8, <1>9 DEF A

----------------------------------------------------------------------------
(* The ledger of occurrences.                                              *)

\* What the accounting of occurrences rests on: identifiers are handed out in
\* order, and an open row is either a begun occurrence or none at all.
LedgerSound(l) ==
  /\ l \in Ledger
  /\ l.open.id <= l.begun /\ l.begun <= MaxOccurrence
  /\ l.open.id = 0 => l.open = NoOccurrence
  /\ \A o \in OccurrenceIds :
       l.outcome[o] \in IF o = l.open.id THEN {"open"}
                        ELSE IF o <= l.begun THEN Outcomes ELSE {"none"}

\* Finishing closes the open occurrence and keeps the ledger accounted.
LEMMA FinishProperties ==
  ASSUME NEW l, LedgerSound(l), NEW result \in Outcomes
  PROVE  LedgerSound(Finish(l, result)) /\ Finish(l, result).open = NoOccurrence
         /\ Finish(l, result).begun = l.begun
<1> DEFINE outcome == [o \in OccurrenceIds |-> IF o = l.open.id THEN result ELSE l.outcome[o]]
<1>1. Finish(l, result) = [open |-> NoOccurrence, begun |-> l.begun, outcome |-> outcome]
  BY DEF Finish
<1>2. NoOccurrence \in [id: Nat, item: ItemIds \union {NoItem}] /\ NoOccurrence.id = 0
  BY DEF NoOccurrence
<1>3. outcome \in [OccurrenceIds -> Outcomes \union {"none", "open", "replaced"}]
  BY DEF LedgerSound, Ledger
<1>4. \A o \in OccurrenceIds :
        outcome[o] \in IF o <= l.begun THEN Outcomes ELSE {"none"}
  BY BoundsAssumption DEF LedgerSound, Ledger, OccurrenceIds
<1> HIDE DEF outcome
<1>5. l.begun \in Nat /\ l.begun <= MaxOccurrence
  BY DEF LedgerSound, Ledger
<1>6. \A o \in OccurrenceIds : o # 0
  BY DEF OccurrenceIds
<1> QED
  BY <1>1, <1>2, <1>3, <1>4, <1>5, <1>6 DEF LedgerSound, Ledger

\* Beginning, with no row open, opens the next identifier for the given row.
LEMMA BeginProperties ==
  ASSUME NEW l, LedgerSound(l), l.open = NoOccurrence, l.begun < MaxOccurrence,
         NEW i \in ItemIds
  PROVE  LedgerSound(Begin(l, i)) /\ Begin(l, i).open = [id |-> l.begun + 1, item |-> i]
<1> DEFINE outcome == [o \in OccurrenceIds |-> IF o = l.begun + 1 THEN "open"
                                               ELSE IF o = l.open.id THEN "replaced"
                                               ELSE l.outcome[o]]
           open == [id |-> l.begun + 1, item |-> i]
<1>1. Begin(l, i) = [open |-> open, begun |-> l.begun + 1, outcome |-> outcome]
  BY DEF Begin
<1>2. open \in [id: Nat, item: ItemIds \union {NoItem}] /\ open.id = l.begun + 1
  BY DEF LedgerSound, Ledger
<1>3. outcome \in [OccurrenceIds -> Outcomes \union {"none", "open", "replaced"}]
  BY DEF LedgerSound, Ledger
<1>4. \A o \in OccurrenceIds :
        outcome[o] \in IF o = l.begun + 1 THEN {"open"}
                       ELSE IF o <= l.begun + 1 THEN Outcomes ELSE {"none"}
  BY BoundsAssumption DEF LedgerSound, Ledger, OccurrenceIds, NoOccurrence
<1>5. l.begun \in Nat /\ l.begun + 1 <= MaxOccurrence
  BY BoundsAssumption DEF LedgerSound, Ledger
<1> HIDE DEF outcome, open
<1> QED
  BY <1>1, <1>2, <1>3, <1>4, <1>5 DEF LedgerSound, Ledger, open

----------------------------------------------------------------------------
(* The inductive invariant.                                                *)

\* The queue, the session and the ledger agree.  ActiveIsPlaying alone is not
\* inductive for the ledger, nor the accounting of occurrences without the
\* order in which identifiers are handed out.
Core ==
  /\ queue \in Rows /\ Distinct(queue)
  /\ session \in Session /\ ActiveIsPlaying
  /\ LedgerSound(ledger)
  /\ session.occ = ledger.open.id
  /\ ledger.open = NoOccurrence \/ session.active \in {NoItem, ledger.open.item}

\* The variables the queue's reducers read but hardly write.
Around ==
  /\ failures \subseteq (BOOLEAN \X (Sources \union ItemIds \union {NoItem}))
  /\ rights \in [Members -> RightsChoices]
  /\ now \in Nat
  /\ pending \in [Members -> Command \union {NoCommand}]

LEMMA OnlyOnePlays ==
  ASSUME ActiveIsPlaying
  PROVE  \A i, j \in With(queue, "playing") : i = j
BY DEF ActiveIsPlaying

\* Reducers that only rewrite the queue keep the invariant if they make no tie
\* and start or stop no row.
LEMMA EditPreserves ==
  ASSUME Core, NEW q \in Rows, Distinct(q), With(q, "playing") = With(queue, "playing"),
         queue' = q, UNCHANGED <<session, ledger>>
  PROVE  Core'
<1>1. ActiveIsPlaying'
  <2>1. With(queue, "playing")' = With(queue, "playing")
    BY DEF With
  <2> QED
    BY <2>1 DEF Core, ActiveIsPlaying
<1>2. Distinct(queue)'
  BY DEF Distinct, Queued, With
<1> QED
  BY <1>1, <1>2 DEF Core

\* Every advance keeps the invariant, whichever reducer commits it.
LEMMA CommitPreserves ==
  ASSUME Core, now \in Nat, NEW q \in Rows, Distinct(q),
         With(q, "playing") = With(queue, "playing"),
         NEW n \in ItemIds, NEW url \in Urls \union {NoUrl},
         NEW status \in PlaybackStatuses, NEW result \in Outcomes, NEW keep \in BOOLEAN,
         Commit(q, n, url, status, result, keep)
  PROVE  Core'
<1> DEFINE begins == status = "playing" /\ q[n].src \in Identifiable
           closed == Finish(ledger, result)
           A == Advanced(q, n, keep)
<1>1. /\ begins => ledger.begun < MaxOccurrence
      /\ queue' = Normalized(A)
      /\ ledger' = IF begins THEN Begin(closed, n) ELSE closed
      /\ session' = [session EXCEPT !.active = n, !.url = url, !.status = status,
                       !.occ = IF begins THEN ledger.begun + 1 ELSE 0,
                       !.rev = now, !.pos = "start"]
  BY DEF Commit
<1>2. A \in Rows /\ Distinct(A) /\ With(A, "playing") = {n}
  BY AdvancedProperties, OnlyOnePlays DEF Core
<1>3. queue' \in Rows /\ Distinct(queue') /\ With(queue', "playing") = {n}
  BY <1>1, <1>2, NormalizedProperties DEF With
<1>4. /\ LedgerSound(closed) /\ closed.open = NoOccurrence /\ closed.begun = ledger.begun
  BY FinishProperties DEF Core
<1>5. ledger.begun \in Nat
  BY DEF Core, LedgerSound, Ledger
<1> HIDE DEF closed, A, begins
<1>6. /\ LedgerSound(ledger')
      /\ ledger'.open = IF begins THEN [id |-> ledger.begun + 1, item |-> n]
                        ELSE NoOccurrence
  BY <1>1, <1>4, BeginProperties
<1>7. /\ session' \in Session /\ session'.active = n
      /\ session'.occ = IF begins THEN ledger.begun + 1 ELSE 0
  <2> DEFINE occ == IF begins THEN ledger.begun + 1 ELSE 0
  <2>1. occ \in Nat
    BY <1>5
  <2>2. session' = [session EXCEPT !.active = n, !.url = url, !.status = status,
                      !.occ = occ, !.rev = now, !.pos = "start"]
    BY <1>1
  <2>3. session \in Session
    BY DEF Core
  <2> HIDE DEF occ
  <2>4. session' \in Session /\ session'.active = n /\ session'.occ = occ
    BY <2>1, <2>2, <2>3 DEF Session
  <2> QED
    BY <2>4 DEF occ
<1>8. /\ session'.occ = ledger'.open.id
      /\ ledger'.open = NoOccurrence \/ session'.active \in {NoItem, ledger'.open.item}
  BY <1>6, <1>7 DEF NoOccurrence
<1>9. ActiveIsPlaying'
  BY <1>3, <1>7, ItemsAssumption DEF ActiveIsPlaying, With
<1>10. LedgerSound(ledger)' /\ Distinct(queue)'
  BY <1>3, <1>6 DEF LedgerSound, Distinct, Queued, With
<1> QED
  BY <1>3, <1>7, <1>8, <1>9, <1>10 DEF Core

\* Pausing, seeking, resuming and ending keep the invariant.
LEMMA PlaybackUpdatePreserves ==
  ASSUME Core, now \in Nat, NEW status \in PlaybackStatuses, NEW pos \in {"start", "end"},
         PlaybackUpdate(status, pos)
  PROVE  Core'
<1> DEFINE begins == /\ status = "playing" /\ session.active # NoItem
                     /\ queue[session.active].src \in Identifiable
           started == BeginIfMissing(ledger, session.active)
<1>1. /\ (begins /\ ledger.open = NoOccurrence) => ledger.begun < MaxOccurrence
      /\ ledger' = IF begins THEN started ELSE ledger
      /\ session' = [session EXCEPT !.status = status, !.pos = pos, !.rev = now,
                       !.occ = IF begins THEN started.open.id ELSE @]
      /\ queue' = queue
  BY DEF PlaybackUpdate
<1>2. begins => session.active \in ItemIds
  BY DEF Core, Session
<1>3. /\ ledger.open \in [id: Nat, item: ItemIds \union {NoItem}]
      /\ ledger.begun \in Nat
  BY DEF Core, LedgerSound, Ledger
<1>4. begins /\ ledger.open = NoOccurrence =>
        LedgerSound(started) /\ started.open = [id |-> ledger.begun + 1, item |-> session.active]
  BY <1>1, <1>2, BeginProperties DEF Core, BeginIfMissing
<1>5. ledger.open # NoOccurrence => started = ledger
  BY DEF BeginIfMissing
<1> HIDE DEF begins, started
<1>6. /\ LedgerSound(ledger')
      /\ ledger'.open \in [id: Nat, item: ItemIds \union {NoItem}]
      /\ ledger'.open = NoOccurrence \/ session.active \in {NoItem, ledger'.open.item}
      /\ ~begins => ledger'.open = ledger.open
      /\ begins => ledger'.open = started.open
  BY <1>1, <1>2, <1>3, <1>4, <1>5 DEF Core
<1>7. /\ session' \in Session /\ session'.active = session.active
      /\ session'.occ = ledger'.open.id
  BY <1>1, <1>6 DEF Core, Session
<1>8. ActiveIsPlaying'
  BY <1>1, <1>7 DEF Core, ActiveIsPlaying, With
<1>9. LedgerSound(ledger)' /\ Distinct(queue)'
  BY <1>1, <1>6 DEF Core, LedgerSound, Distinct, Queued, With
<1> QED
  BY <1>1, <1>6, <1>7, <1>8, <1>9 DEF Core

----------------------------------------------------------------------------
(* One lemma per reducer that is not a plain edit, advance or update.      *)

LEMMA AddPreserves ==
  ASSUME Core, NEW m, NEW i \in ItemIds, NEW src \in Sources, NEW next \in BOOLEAN,
         NEW duplicate \in BOOLEAN, NEW unavailable \in BOOLEAN,
         AddQueueItem(m, i, src, next, duplicate, unavailable)
  PROVE  Core'
<1> DEFINE q == IF next THEN ShiftedForNext(queue, i) ELSE queue
           place == IF next THEN 0 ELSE EndPosition(queue)
           bad == unavailable \/ KnownProblem(src)
           fail == IF KnownProblem(src) THEN "permanent" ELSE "none"
           row == [status |-> "queued", pos |-> place, next |-> next, seq |-> 0,
                   src |-> src, bad |-> bad, fail |-> fail]
           added == [q EXCEPT ![i] = row]
<1>1. queue[i].status = "unused" /\ Edit(added)
  BY DEF AddQueueItem
<1>2. queue \in Rows /\ Distinct(queue)
  BY DEF Core
<1>3. EndPosition(queue) \in Nat /\ \A j \in Active(queue) : queue[j].pos < EndPosition(queue)
  BY <1>2, EndPositionProperties
<1>4. /\ q \in Rows
      /\ \A j \in ItemIds : q[j].status = queue[j].status
      /\ \A j \in Queued(queue) \ {i} :
           q[j].pos = IF next THEN queue[j].pos + 1 ELSE queue[j].pos
  BY <1>2, ShiftedProperties DEF Queued, With
<1>5. row \in Row /\ row.status = "queued" /\ row.pos = place
  <2>1. place \in Nat /\ bad \in BOOLEAN /\ fail \in Failures
    BY <1>3 DEF Failures, KnownProblem
  <2> HIDE DEF place, bad, fail
  <2> QED
    BY <2>1 DEF Row, Present
<1>6. i \notin Queued(queue)
  BY <1>1 DEF Queued, With
<1> HIDE DEF q, row
<1>7. /\ added \in Rows /\ added[i] = row
      /\ \A j \in ItemIds \ {i} : added[j] = q[j]
  BY <1>4, <1>5 DEF Rows
<1> HIDE DEF added
<1>8. With(added, "playing") = With(queue, "playing")
  BY <1>1, <1>4, <1>5, <1>7 DEF With
<1>9. Distinct(added)
  <2>1. Queued(added) = Queued(queue) \union {i}
    BY <1>4, <1>5, <1>7 DEF Queued, With
  <2>2. \A j \in Queued(queue) :
          /\ queue[j].pos \in Nat
          /\ added[j].pos = IF next THEN queue[j].pos + 1 ELSE queue[j].pos
          /\ queue[j].pos < EndPosition(queue)
    BY <1>2, <1>3, <1>4, <1>6, <1>7 DEF Rows, Row, Queued, With, Active
  <2>3. added[i].pos = place
    BY <1>5, <1>7
  <2>4. \A j \in Queued(queue) : added[j].pos # added[i].pos
    BY <2>2, <2>3, <1>3
  <2>5. \A j, k \in Queued(queue) : added[j].pos = added[k].pos => j = k
    BY <2>2, <1>2 DEF Distinct
  <2> QED
    BY <2>1, <2>4, <2>5 DEF Distinct
<1> QED
  BY <1>1, <1>7, <1>8, <1>9, EditPreserves DEF Edit

LEMMA PriorityPreserves ==
  ASSUME Core, NEW m, NEW i \in ItemIds, NEW next \in BOOLEAN,
         SetQueueItemPriority(m, i, next)
  PROVE  Core'
<1> DEFINE q == IF next THEN ShiftedForNext(queue, i) ELSE queue
           place == IF next THEN 0 ELSE q[i].pos
           marked == [q EXCEPT ![i].next = next, ![i].pos = IF next THEN 0 ELSE @]
<1>1. i \in Queued(queue) /\ Edit(Normalized(marked))
  BY DEF SetQueueItemPriority
<1>2. queue \in Rows /\ Distinct(queue)
  BY DEF Core
<1>3. /\ q \in Rows /\ q[i] = queue[i]
      /\ \A j \in ItemIds : q[j].status = queue[j].status
      /\ \A j \in Queued(queue) \ {i} :
           q[j].pos = IF next THEN queue[j].pos + 1 ELSE queue[j].pos
  BY <1>2, ShiftedProperties DEF Queued, With
<1>4. marked = [q EXCEPT ![i] = [q[i] EXCEPT !.next = next, !.pos = place]]
  BY <1>3 DEF Rows, Row
<1>5. q[i] \in Row /\ place \in Nat
  BY <1>3 DEF Rows, Row
<1> HIDE DEF q, place, marked
<1>6. /\ marked \in Rows /\ marked[i].status = q[i].status /\ marked[i].pos = place
      /\ \A j \in ItemIds \ {i} : marked[j] = q[j]
  <2> DEFINE row == [q[i] EXCEPT !.next = next, !.pos = place]
  <2>1. row \in Row /\ row.status = q[i].status /\ row.pos = place
    BY <1>5 DEF Row
  <2> HIDE DEF row
  <2>2. marked = [q EXCEPT ![i] = row]
    BY <1>4 DEF row
  <2> QED
    BY <2>1, <2>2, <1>3 DEF Rows
<1>7. \A j \in ItemIds : marked[j].status = queue[j].status
  BY <1>3, <1>6
<1>8. Distinct(marked)
  <2>1. Queued(marked) = Queued(queue)
    BY <1>7 DEF Queued, With
  <2>2. \A j \in Queued(queue) : queue[j].pos \in Nat
    BY <1>2 DEF Rows, Row, Queued, With
  <2>3. CASE next
    <3>1. /\ marked[i].pos = 0
          /\ \A j \in Queued(queue) \ {i} : marked[j].pos = queue[j].pos + 1
      BY <1>3, <1>6, <2>3 DEF place, Queued, With
    <3> QED
      BY <1>2, <2>1, <2>2, <3>1 DEF Distinct
  <2>4. CASE ~next
    <3>1. \A j \in Queued(queue) : marked[j].pos = queue[j].pos
      BY <1>1, <1>3, <1>6, <2>4 DEF place, Queued, With
    <3> QED
      BY <1>2, <2>1, <3>1 DEF Distinct
  <2> QED
    BY <2>3, <2>4
<1>9. /\ Normalized(marked) \in Rows /\ Distinct(Normalized(marked))
      /\ With(Normalized(marked), "playing") = With(queue, "playing")
  BY <1>6, <1>7, <1>8, NormalizedProperties DEF With
<1> QED
  BY <1>1, <1>9, EditPreserves DEF Edit

\* Both kinds of move place one queued row.
LEMMA PlacePreserves ==
  ASSUME Core, NEW i \in Queued(queue), NEW p \in Nat, Edit(Placed(queue, i, p))
  PROVE  Core'
<1>1. queue \in Rows /\ Distinct(queue)
  BY DEF Core
<1>2. /\ Placed(queue, i, p) \in Rows /\ Distinct(Placed(queue, i, p))
      /\ With(Placed(queue, i, p), "playing") = With(queue, "playing")
  BY <1>1, PlacedProperties DEF With
<1> QED
  BY <1>2, EditPreserves DEF Edit

\* A deleted row leaves a blank record behind.
LEMMA BlankRow ==
  Blank("gone") \in Row /\ Blank("gone").status = "gone" /\ Blank("unused") \in Row
  /\ Blank("unused").status = "unused" /\ Blank("unused").pos = 0
BY DEF Blank, Row, Present, Failures

LEMMA ClearPreserves ==
  ASSUME Core, NEW m, ClearQueue(m)
  PROVE  Core'
<1> DEFINE c == [i \in ItemIds |-> IF i \in Queued(queue) THEN Blank("gone") ELSE queue[i]]
<1>1. Edit(c)
  BY DEF ClearQueue
<1>2. c \in Rows
  BY BlankRow DEF Core, Rows
<1>3. Queued(c) = {} /\ With(c, "playing") = With(queue, "playing")
  BY BlankRow DEF Queued, With
<1> HIDE DEF c
<1>4. Distinct(c)
  BY <1>3 DEF Distinct
<1> QED
  BY <1>1, <1>2, <1>3, <1>4, EditPreserves DEF Edit

LEMMA RemovePreserves ==
  ASSUME Core, now \in Nat, NEW m, NEW i \in ItemIds, RemoveQueueItem(m, i)
  PROVE  Core'
<1> DEFINE r == [queue EXCEPT ![i] = Blank("gone")]
<1>1. queue \in Rows /\ Distinct(queue)
  BY DEF Core
<1>2. /\ r \in Rows /\ Queued(r) \subseteq Queued(queue) \ {i}
      /\ \A j \in Queued(r) : r[j] = queue[j]
      /\ With(r, "playing") = With(queue, "playing") \ {i}
  BY <1>1, BlankRow DEF Rows, Queued, With
<1>3. Distinct(r)
  BY <1>1, <1>2 DEF Distinct
<1>4. queue' = Normalized(r)
  BY DEF RemoveQueueItem
<1> HIDE DEF r
<1>5. /\ queue' \in Rows /\ Distinct(queue')
      /\ With(queue', "playing") = With(queue, "playing") \ {i}
  BY <1>2, <1>3, <1>4, NormalizedProperties DEF With
<1>6. CASE session.active # i
  <2>1. UNCHANGED <<session, ledger>>
    BY <1>6 DEF RemoveQueueItem
  <2>2. With(queue', "playing") = With(queue, "playing")
    BY <1>5, <1>6, ItemsAssumption DEF Core, ActiveIsPlaying
  <2> QED
    BY <1>5, <2>1, <2>2, EditPreserves
<1>7. CASE session.active = i
  <2>1. /\ ledger' = Finish(ledger, "skipped")
        /\ session' = [session EXCEPT !.active = NoItem, !.url = NoUrl, !.occ = 0,
                         !.status = "paused", !.rev = now, !.pos = "start"]
    BY <1>7 DEF RemoveQueueItem
  <2>2. LedgerSound(ledger') /\ ledger'.open = NoOccurrence
    BY <2>1, FinishProperties DEF Core, Outcomes
  <2>3. session' \in Session /\ session'.active = NoItem /\ session'.occ = 0
    BY <2>1 DEF Core, Session, PlaybackStatuses
  <2>4. With(queue', "playing") = {}
    BY <1>5, <1>7, ItemsAssumption DEF Core, ActiveIsPlaying
  <2>5. ActiveIsPlaying' /\ LedgerSound(ledger)' /\ Distinct(queue)'
    BY <1>5, <2>2, <2>3, <2>4 DEF ActiveIsPlaying, LedgerSound, Distinct, With, Queued
  <2> QED
    BY <1>5, <2>2, <2>3, <2>5 DEF Core, NoOccurrence
<1> QED
  BY <1>6, <1>7

LEMMA LoadPreserves ==
  ASSUME Core, now \in Nat, NEW m, NEW url \in Urls, LoadMediaSource(m, url)
  PROVE  Core'
<1> DEFINE stopped(i) == [queue[i] EXCEPT !.status = "played"]
<1>1. /\ queue' = [i \in ItemIds |-> IF i \in With(queue, "playing") THEN stopped(i) ELSE queue[i]]
      /\ session' = [session EXCEPT !.active = NoItem, !.url = url, !.status = "paused",
                       !.rev = now, !.pos = "start"]
      /\ ledger' = ledger
  BY DEF LoadMediaSource
<1>2. queue \in Rows /\ Distinct(queue)
  BY DEF Core
<1>3. \A i \in ItemIds : stopped(i) \in Row /\ stopped(i).status = "played"
  BY <1>2 DEF Rows, Row, Present
<1> HIDE DEF stopped
<1>4. /\ queue' \in Rows /\ With(queue', "playing") = {}
      /\ Queued(queue') \subseteq Queued(queue)
      /\ \A i \in Queued(queue') : queue'[i] = queue[i]
  BY <1>1, <1>2, <1>3 DEF Rows, With, Queued
<1>5. Distinct(queue')
  BY <1>2, <1>4 DEF Distinct
<1>6. /\ session' \in Session /\ session'.active = NoItem /\ session'.occ = session.occ
  BY <1>1 DEF Core, Session, PlaybackStatuses
<1>7. ActiveIsPlaying' /\ LedgerSound(ledger)' /\ Distinct(queue)'
  BY <1>1, <1>4, <1>5, <1>6 DEF Core, ActiveIsPlaying, LedgerSound, Distinct, With, Queued
<1> QED
  BY <1>1, <1>4, <1>6, <1>7 DEF Core

----------------------------------------------------------------------------
(* Racing commands.                                                        *)

\* What a reducer selects is a row of the queue.
LEMMA Selected ==
  ASSUME NEW q, NEW loop
  PROVE  Upcoming(q, loop) \subseteq ItemIds /\ Predicted(q, loop) \subseteq ItemIds
BY DEF Upcoming, Predicted, Lowest, Queued, With

\* Marking failures touches no status and no position.
LEMMA MarkedProperties ==
  ASSUME Core, NEW permanent \in BOOLEAN
  PROVE  /\ MarkedFailed(permanent) \in Rows /\ Distinct(MarkedFailed(permanent))
         /\ With(MarkedFailed(permanent), "playing") = With(queue, "playing")
<1> DEFINE M == MarkedFailed(permanent)
           fail == IF permanent THEN "permanent" ELSE "transient"
<1>1. queue \in Rows /\ Distinct(queue)
  BY DEF Core
<1>2. \A i \in ItemIds :
        \/ M[i] = queue[i]
        \/ M[i] = [queue[i] EXCEPT !.fail = fail, !.bad = @ \/ permanent]
  BY DEF MarkedFailed
<1>3. M = [i \in ItemIds |-> M[i]]
  BY DEF MarkedFailed
<1>4. fail \in Failures
  BY DEF Failures
<1> HIDE DEF fail, M
<1>5. ASSUME NEW i \in ItemIds
      PROVE  M[i] \in Row /\ M[i].status = queue[i].status /\ M[i].pos = queue[i].pos
  <2>1. queue[i] \in Row
    BY <1>1 DEF Rows
  <2>2. CASE M[i] = queue[i]
    BY <2>1, <2>2
  <2>3. CASE M[i] = [queue[i] EXCEPT !.fail = fail, !.bad = @ \/ permanent]
    <3> DEFINE bad == queue[i].bad \/ permanent
    <3>1. bad \in BOOLEAN
      OBVIOUS
    <3>2. M[i] = [queue[i] EXCEPT !.fail = fail, !.bad = bad]
      BY <2>3
    <3> HIDE DEF bad
    <3> QED
      BY <2>1, <3>1, <3>2, <1>4 DEF Row
  <2> QED
    BY <1>2, <2>2, <2>3
<1>6. M \in Rows
  BY <1>3, <1>5 DEF Rows
<1>7. Distinct(M) /\ With(M, "playing") = With(queue, "playing")
  BY <1>1, <1>5 DEF Distinct, Queued, With
<1> QED
  BY <1>6, <1>7 DEF M

\* An outcome of an advance is one of the three the ledger records.
LEMMA ClassifiedOutcome ==
  ASSUME NEW auto, NEW nearEnd PROVE Classified(auto, nearEnd) \in Outcomes
BY DEF Classified, Outcomes

\* Handling a command keeps the invariant.
LEMMA HandlePreserves ==
  ASSUME Core, Around, NEW m \in Members, Handle(m)
  PROVE  Core' /\ Around'
<1> DEFINE c == pending[m]
<1>1. c \in Command /\ now \in Nat
  BY DEF Around, Handle
<1>2. /\ pending' = [pending EXCEPT ![m] = NoCommand] /\ UNCHANGED <<rights, now>>
  BY DEF Handle
<1>3. queue \in Rows /\ Distinct(queue) /\ session \in Session
  BY DEF Core
<1>4. \A n \in ItemIds : queue[n].src \in Sources \union {NoUrl}
  BY <1>3 DEF Rows, Row
<1>5. \A n \in Successors : n \in ItemIds
  BY Selected DEF Successors
<1>6. ASSUME UNCHANGED <<queue, ledger, session>> PROVE Core'
  BY <1>3, <1>6, EditPreserves
<1>7. ASSUME AdvanceQueueItem(m) PROVE Core'
  <2>1. CASE UNCHANGED <<queue, ledger, session>>
    BY <1>6, <2>1
  <2>2. CASE \E n \in ItemIds, nearEnd \in NearEnd :
               Commit(queue, n, queue[n].src, "playing", Classified(c.auto, nearEnd), FALSE)
    BY <1>1, <1>3, <1>4, <2>2, CommitPreserves, ClassifiedOutcome DEF PlaybackStatuses, Urls
  <2> QED
    BY <1>7, <2>1, <2>2 DEF AdvanceQueueItem
<1>8. ASSUME AdvanceUploadedQueueItem(m) PROVE Core'
  <2>1. CASE UNCHANGED <<queue, ledger, session>>
    BY <1>6, <2>1
  <2>2. CASE /\ c.next \in Successors /\ ~Playable(queue[c.next].src)
             /\ \E nearEnd \in NearEnd :
                  Commit(queue, c.next, SessionRef[queue[c.next].src], "playing",
                         Classified(c.auto, nearEnd), FALSE)
    <3>1. SessionRef[queue[c.next].src] \in Urls
      BY <2>2, SourcesAssumption DEF Playable, Urls
    <3> QED
      BY <1>1, <1>3, <1>5, <2>2, <3>1, CommitPreserves, ClassifiedOutcome DEF PlaybackStatuses
  <2> QED
    BY <1>8, <2>1, <2>2 DEF AdvanceUploadedQueueItem, CanAdvance
<1>9. ASSUME PrepareYoutubeAutoplay(m) PROVE Core'
  <2>1. CASE UNCHANGED <<queue, ledger, session>>
    BY <1>6, <2>1
  <2>2. CASE /\ c.next \in Successors
             /\ \E nearEnd \in NearEnd :
                  Commit(queue, c.next, queue[c.next].src, "paused",
                         Classified(TRUE, nearEnd), FALSE)
    BY <1>1, <1>3, <1>4, <1>5, <2>2, CommitPreserves, ClassifiedOutcome
       DEF PlaybackStatuses, Urls
  <2> QED
    BY <1>9, <2>1, <2>2 DEF PrepareYoutubeAutoplay, CanAdvance
<1>10. ASSUME StartPreparedYoutube(m) PROVE Core'
  <2>1. CASE UNCHANGED <<queue, ledger, session>>
    BY <1>6, <2>1
  <2>2. CASE \E pos \in {session.pos, "end"} : PlaybackUpdate("playing", pos)
    <3>1. session.pos \in {"start", "end"}
      BY <1>3 DEF Session
    <3> QED
      BY <1>1, <2>2, <3>1, PlaybackUpdatePreserves DEF PlaybackStatuses
  <2> QED
    BY <1>10, <2>1, <2>2 DEF StartPreparedYoutube
<1>11. ASSUME ReportMediaFailure(m) PROVE Core'
  <2> DEFINE marked == MarkedFailed(c.permanent)
  <2>1. c.permanent \in BOOLEAN
    BY <1>1 DEF Command
  <2>2. /\ marked \in Rows /\ Distinct(marked)
        /\ With(marked, "playing") = With(queue, "playing")
    BY <2>1, MarkedProperties
  <2>3. CASE UNCHANGED <<queue, ledger, session>>
    BY <1>6, <2>3
  <2>4. CASE \E n \in Upcoming(marked, session.loop) :
               Commit(marked, n, marked[n].src, "playing", "failed", FALSE)
    <3>1. PICK n \in Upcoming(marked, session.loop) :
            Commit(marked, n, marked[n].src, "playing", "failed", FALSE)
      BY <2>4
    <3>2. n \in ItemIds
      BY Selected
    <3>3. marked[n].src \in Urls \union {NoUrl}
      BY <2>2, <3>2 DEF Rows, Row, Urls
    <3> HIDE DEF marked
    <3> QED
      BY <1>1, <2>2, <3>1, <3>2, <3>3, CommitPreserves DEF PlaybackStatuses, Outcomes
  <2>5. CASE /\ queue' = marked /\ UNCHANGED ledger
             /\ session' = [session EXCEPT !.status = "error", !.rev = now]
    <3>1. session' \in Session /\ session'.active = session.active
          /\ session'.occ = session.occ
      BY <1>1, <1>3, <2>5 DEF Session, PlaybackStatuses
    <3>2. queue' \in Rows /\ Distinct(queue')
          /\ With(queue', "playing") = With(queue, "playing")
      BY <2>2, <2>5
    <3>3. ActiveIsPlaying' /\ LedgerSound(ledger)' /\ Distinct(queue)'
      BY <2>5, <3>1, <3>2
         DEF Core, ActiveIsPlaying, LedgerSound, Distinct, With, Queued
    <3> QED
      BY <2>5, <3>1, <3>2, <3>3 DEF Core
  <2> QED
    BY <1>11, <2>3, <2>4, <2>5 DEF ReportMediaFailure
<1>12. Core'
  BY <1>7, <1>8, <1>9, <1>10, <1>11 DEF Handle
<1>13. failures' \subseteq (BOOLEAN \X (Sources \union ItemIds \union {NoItem}))
  <2>1. CASE UNCHANGED failures
    BY <2>1 DEF Around
  <2>2. CASE failures' = failures \union {<<c.permanent, Provider>>}
    <3>1. c.permanent \in BOOLEAN
      BY <1>1 DEF Command
    <3>2. Provider \in Sources \union ItemIds \union {NoItem}
      BY <1>3, SourcesAssumption DEF Provider, Session
    <3> QED
      BY <2>2, <3>1, <3>2 DEF Around
  <2> QED
    BY <2>1, <2>2 DEF Handle, ReportMediaFailure
<1> QED
  BY <1>2, <1>12, <1>13 DEF Around

\* Sending a command stores a command.
LEMMA SendPreserves ==
  ASSUME Core, Around, NEW m \in Members, SendCommand(m)
  PROVE  Core' /\ Around'
<1>1. session \in Session
  BY DEF Core
<1>2. \A op \in Ops, next \in ItemIds \union {NoItem}, auto, permanent \in BOOLEAN :
        Snapshot(op, next, auto, permanent) \in Command
  BY <1>1 DEF Snapshot, Command, Session
<1>3. \A next, auto : AdvanceOp(next, auto) \in Ops
  BY DEF AdvanceOp, Ops
<1>4. ASSUME NEW auto \in BOOLEAN, SendAdvance(m, auto)
      PROVE  \E command \in Command : Send(m, command)
  <2>1. PICK n \in ItemIds \union {NoItem} : Send(m, Snapshot(AdvanceOp(n, auto), n, auto, FALSE))
    BY <1>4, Selected DEF SendAdvance
  <2> QED
    BY <2>1, <1>2, <1>3
<1>5. ASSUME SendStart(m)
      PROVE  \E command \in Command : Send(m, command)
  BY <1>5, <1>2 DEF SendStart, Ops
<1>6. ASSUME NEW auto \in BOOLEAN, NEW permanent \in BOOLEAN, SendFailure(m, auto, permanent)
      PROVE  \E command \in Command : Send(m, command)
  BY <1>6, <1>2 DEF SendFailure, Ops
<1>7. PICK command \in Command : Send(m, command)
  BY <1>4, <1>5, <1>6 DEF SendCommand
<1>8. pending' \in [Members -> Command \union {NoCommand}]
  BY <1>7 DEF Send, Around
<1>9. Core'
  BY <1>7, EditPreserves DEF Core, Send
<1> QED
  BY <1>7, <1>8, <1>9 DEF Send, Around

----------------------------------------------------------------------------
(* The invariant is inductive.                                             *)

LEMMA InitEstablishes == Init => Core /\ Around
<1> SUFFICES ASSUME Init PROVE Core /\ Around
  OBVIOUS
<1>1. queue \in Rows /\ \A i \in ItemIds : queue[i].status = "unused"
  BY BlankRow DEF Init, Rows
<1>2. session \in Session /\ session.active = NoItem /\ session.occ = 0
  BY DEF Init, Session, PlaybackStatuses
<1>3. LedgerSound(ledger) /\ ledger.open = NoOccurrence
  BY BoundsAssumption DEF Init, LedgerSound, Ledger, NoOccurrence, OccurrenceIds
<1>4. ActiveIsPlaying /\ Distinct(queue)
  BY <1>1, <1>2 DEF ActiveIsPlaying, Distinct, With, Queued
<1>5. Around
  BY DEF Init, Around
<1> QED
  BY <1>1, <1>2, <1>3, <1>4, <1>5 DEF Core, NoOccurrence

LEMMA EditQueuePreserves ==
  ASSUME Core, Around, NEW m \in Members, EditQueue(m)
  PROVE  Core' /\ Around'
<1>1. Core'
  <2>1. ASSUME NEW i \in ItemIds, NEW src \in Sources, NEW next \in BOOLEAN,
               NEW duplicate \in BOOLEAN, NEW unavailable \in BOOLEAN,
               AddQueueItem(m, i, src, next, duplicate, unavailable)
        PROVE  Core'
    BY <2>1, AddPreserves
  <2>2. ASSUME NEW i \in ItemIds, NEW next \in BOOLEAN, SetQueueItemPriority(m, i, next)
        PROVE  Core'
    BY <2>2, PriorityPreserves
  <2>3. ASSUME NEW i \in ItemIds, NEW p \in 0..Cardinality(ItemIds), MoveQueueItem(m, i, p)
        PROVE  Core'
    <3> DEFINE last == Cardinality(Queued(queue)) - 1
               target == IF p < last THEN p ELSE last
    <3>1. i \in Queued(queue) /\ Edit(Placed(queue, i, target))
      BY <2>3 DEF MoveQueueItem
    <3>2. last \in Nat
      <4>1. IsFiniteSet(Queued(queue))
        BY ItemsAssumption, FS_Subset DEF Queued, With
      <4>2. Cardinality(Queued(queue)) \in Nat /\ Cardinality(Queued(queue)) # 0
        BY <4>1, <3>1, FS_CardinalityType, FS_EmptySet
      <4> QED
        BY <4>2
    <3>3. p \in Nat
      BY ItemsAssumption, FS_CardinalityType
    <3> HIDE DEF last
    <3>4. target \in Nat
      BY <3>2, <3>3
    <3> QED
      BY <3>1, <3>4, PlacePreserves
  <2>4. ASSUME NEW i \in ItemIds, MoveQueueItemRelative(m, i)
        PROVE  Core'
    <3> DEFINE others == Queued(queue) \ {i}
               beside(a) == LET r == Rank(queue, others, a) IN {r, r + 1}
    <3>1. PICK p \in {0, Cardinality(others)} \union UNION {beside(a) : a \in others} :
            Edit(Placed(queue, i, p))
      BY <2>4 DEF MoveQueueItemRelative
    <3>2. others \in SUBSET ItemIds /\ queue \in Rows /\ i \in Queued(queue)
      BY <2>4 DEF Core, Queued, With, MoveQueueItemRelative
    <3>3. Cardinality(others) \in Nat
      BY <3>2, ItemsAssumption, FS_Subset, FS_CardinalityType
    <3>4. \A a \in others : Rank(queue, others, a) \in Nat
      BY <3>2, RankProperties
    <3> HIDE DEF others
    <3>5. p \in Nat
      BY <3>1, <3>3, <3>4
    <3> QED
      BY <3>1, <3>2, <3>5, PlacePreserves
  <2>5. ASSUME NEW i \in ItemIds, RemoveQueueItem(m, i)
        PROVE  Core'
    BY <2>5, RemovePreserves DEF Around
  <2>6. ASSUME ClearQueue(m) PROVE Core'
    BY <2>6, ClearPreserves
  <2> QED
    BY <2>1, <2>2, <2>3, <2>4, <2>5, <2>6 DEF EditQueue
<1>2. UNCHANGED <<failures, rights, now, pending>>
  BY DEF EditQueue, AddQueueItem, SetQueueItemPriority, MoveQueueItem,
         MoveQueueItemRelative, RemoveQueueItem, ClearQueue, Edit
<1> QED
  BY <1>1, <1>2 DEF Around

LEMMA ControlPreserves ==
  ASSUME Core, Around, NEW m \in Members, ControlPlayback(m)
  PROVE  Core' /\ Around'
<1>1. queue \in Rows /\ Distinct(queue) /\ session \in Session /\ now \in Nat
  BY DEF Core, Around
<1>2. ASSUME /\ queue' = queue /\ ledger' = ledger /\ session' \in Session
             /\ session'.active = session.active /\ session'.occ = session.occ
      PROVE  Core'
  <2>1. ActiveIsPlaying' /\ LedgerSound(ledger)' /\ Distinct(queue)'
    BY <1>2 DEF Core, ActiveIsPlaying, LedgerSound, Distinct, With, Queued
  <2> QED
    BY <1>2, <2>1 DEF Core
<1>3. Core'
  <2>1. ASSUME NEW loop \in BOOLEAN, SetQueueMode(m, loop) PROVE Core'
    BY <1>1, <1>2, <2>1 DEF SetQueueMode, Session
  <2>2. ASSUME NEW enabled \in BOOLEAN, SetQueueAutoplay(m, enabled) PROVE Core'
    BY <1>1, <1>2, <2>2 DEF SetQueueAutoplay, Session
  <2>3. ASSUME NEW url \in Urls, LoadMediaSource(m, url) PROVE Core'
    BY <1>1, <2>3, LoadPreserves
  <2>4. ASSUME NEW status \in Statuses, NEW pos \in {"start", "end"},
               SetPlaybackState(m, status, pos)
        PROVE  Core'
    BY <1>1, <2>4, ChoicesAssumption, PlaybackUpdatePreserves DEF SetPlaybackState
  <2>5. ASSUME NEW i \in ItemIds, PlayQueueItem(m, i) PROVE Core'
    <3>1. queue[i].src \in Urls \union {NoUrl}
      BY <1>1 DEF Rows, Row, Urls
    <3> QED
      BY <1>1, <2>5, <3>1, CommitPreserves DEF PlayQueueItem, PlaybackStatuses, Outcomes
  <2>6. ASSUME NEW i \in ItemIds, PlayUploadedQueueItem(m, i) PROVE Core'
    <3>1. SessionRef[queue[i].src] \in Urls \union {NoUrl}
      BY <2>6, SourcesAssumption DEF PlayUploadedQueueItem, Playable, Urls
    <3> QED
      BY <1>1, <2>6, <3>1, CommitPreserves
         DEF PlayUploadedQueueItem, PlaybackStatuses, Outcomes
  <2> QED
    BY <2>1, <2>2, <2>3, <2>4, <2>5, <2>6 DEF ControlPlayback
<1>4. UNCHANGED <<failures, rights, now, pending>>
  BY DEF ControlPlayback, SetQueueMode, SetQueueAutoplay, LoadMediaSource,
         SetPlaybackState, PlayQueueItem, PlayUploadedQueueItem
<1> QED
  BY <1>3, <1>4 DEF Around

LEMMA NextPreserves == Core /\ Around /\ [Next]_vars => Core' /\ Around'
<1> SUFFICES ASSUME Core, Around, [Next]_vars PROVE Core' /\ Around'
  OBVIOUS
<1>1. ASSUME UNCHANGED <<queue, session, ledger>> PROVE Core'
  BY <1>1, EditPreserves DEF Core
<1>2. ASSUME NEW m \in Members, EditQueue(m) PROVE Core' /\ Around'
  BY <1>2, EditQueuePreserves
<1>3. ASSUME NEW m \in Members, ControlPlayback(m) PROVE Core' /\ Around'
  BY <1>3, ControlPreserves
<1>4. ASSUME NEW m \in Members, SendCommand(m) PROVE Core' /\ Around'
  BY <1>4, SendPreserves
<1>5. ASSUME NEW m \in Members, Handle(m) PROVE Core' /\ Around'
  BY <1>5, HandlePreserves
<1>6. ASSUME NEW m \in Members, LoseCommand(m) PROVE Core' /\ Around'
  BY <1>1, <1>6 DEF LoseCommand, Around
<1>7. ASSUME NEW m \in Members, NEW r \in RightsChoices, ChangeRights(m, r)
      PROVE  Core' /\ Around'
  BY <1>1, <1>7 DEF ChangeRights, Around
<1>8. CASE Tick
  BY <1>1, <1>8 DEF Tick, Around
<1>9. CASE ForgetFailures
  BY <1>1, <1>9 DEF ForgetFailures, Around
<1>10. CASE UNCHANGED vars
  BY <1>1, <1>10 DEF vars, Around
<1> QED
  BY <1>2, <1>3, <1>4, <1>5, <1>6, <1>7, <1>8, <1>9, <1>10 DEF Next

\* The whole inductive invariant holds in every reachable state, for any number
\* of members, rows and sources.
THEOREM CoreInvariant == Spec => [](Core /\ Around)
BY InitEstablishes, NextPreserves, PTL DEF Spec

\* Every variable keeps its type.
THEOREM TypeCorrect == Spec => []TypeOK
<1>1. Core /\ Around => TypeOK
  BY DEF Core, Around, TypeOK, Rows, LedgerSound
<1> QED
  BY <1>1, CoreInvariant, PTL

\* The session's active item is always the one row being played.
THEOREM PlaybackAgrees == Spec => []ActiveIsPlaying
<1>1. Core => ActiveIsPlaying
  BY DEF Core
<1> QED
  BY <1>1, CoreInvariant, PTL

\* No interleaving of edits and advances leaves two upcoming rows in one place.
THEOREM PositionsStayDistinct == Spec => []QueuedPositionsDistinct
<1>1. Core => QueuedPositionsDistinct
  BY DEF Core, Distinct, QueuedPositionsDistinct
<1> QED
  BY <1>1, CoreInvariant, PTL

\* Every occurrence begun is the open one or was closed with an outcome, and the
\* session names the open one.
THEOREM OccurrencesStayAccounted == Spec => []OccurrencesAccounted
<1>1. Core => OccurrencesAccounted
  BY DEF Core, LedgerSound, OccurrencesAccounted
<1> QED
  BY <1>1, CoreInvariant, PTL
=============================================================================
