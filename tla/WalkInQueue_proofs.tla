------------------------- MODULE WalkInQueue_proofs -------------------------
(* Proofs about WalkInQueue, for every number of entries, phones and days. *)
EXTENDS WalkInQueue, OrderLemmas, TLAPS

IInv == TypeOK /\ OrderIsStrict /\ NobodyTwiceInLine /\ ServedMeansAppointment

\* A step that adds nobody to the line and moves nobody: rows stay in the
\* table with their day, ticket and phone, those who wait waited with the same
\* place, and those who are in line were.
KeepsOrder ==
    \A e \in Entries :
        /\ e \in Stored' => /\ e \in Stored
                            /\ entry'[e].day = entry[e].day
                            /\ entry'[e].ticket = entry[e].ticket
                            /\ entry'[e].phone = entry[e].phone
        /\ entry'[e].status = "WAITING" => entry[e].status = "WAITING" /\ entry'[e].key = entry[e].key
        /\ entry'[e].status \in {"WAITING", "CALLED", "IN_SERVICE"}
               => entry[e].status \in {"WAITING", "CALLED", "IN_SERVICE"}

\* Such a step keeps tickets and places distinct and phones single.
LEMMA KeepsOrderSound ==
    ASSUME OrderIsStrict, NobodyTwiceInLine, KeepsOrder
    PROVE  OrderIsStrict' /\ NobodyTwiceInLine'
<1>1. /\ Stored' \subseteq Stored
      /\ \A e \in Stored' : /\ entry'[e].day = entry[e].day /\ entry'[e].ticket = entry[e].ticket
                            /\ entry'[e].phone = entry[e].phone
  BY DEF KeepsOrder, Stored
<1>2. \A d : /\ Waiting(d)' \subseteq Waiting(d)
             /\ \A e \in Waiting(d)' : entry'[e].key = entry[e].key
             /\ Active(d)' \subseteq Active(d)
             /\ \A e \in Active(d)' : entry'[e].phone = entry[e].phone
  <2> TAKE d
  <2>1. OfDay(d)' \subseteq OfDay(d) /\ OfDay(d)' \subseteq Stored'
    BY <1>1 DEF OfDay
  <2>2. OfDay(d)' \subseteq Entries
    BY DEF OfDay, Stored
  <2> QED
    BY <1>1, <2>1, <2>2 DEF KeepsOrder, Waiting, Active
<1>3. OrderIsStrict'
  BY <1>1, <1>2 DEF OrderIsStrict
<1>4. NobodyTwiceInLine'
  BY <1>2 DEF NobodyTwiceInLine
<1> QED
  BY <1>3, <1>4

-----------------------------------------------------------------------------
(* What the sweep does to a row *)

\* A swept row is unchanged, ended, or called forward from waiting.
LEMMA SweptRow ==
    ASSUME TypeOK, NEW e \in Entries
    PROVE  /\ Swept(e) \in Row
           /\ Swept(e).day = entry[e].day /\ Swept(e).ticket = entry[e].ticket
           /\ Swept(e).key = entry[e].key /\ Swept(e).phone = entry[e].phone
           /\ Swept(e).appt = entry[e].appt
           /\ \/ Swept(e) = entry[e]
              \/ /\ entry[e].status \in {"WAITING", "CALLED"}
                 /\ Swept(e).status \in {"CANCELLED", "NO_SHOW"}
              \/ entry[e].status = "WAITING" /\ Swept(e).status = "CALLED"
<1>1. entry[e] \in Row /\ entry[e].day \in Nat /\ day \in Nat
  BY QueueAssumption DEF TypeOK, Row
<1>2. CASE e \in Stale
  <2>1. entry[e].day < day /\ entry[e].status \in {"WAITING", "CALLED"}
    BY <1>2 DEF Stale
  <2>2. e \notin OfDay(day)
    BY <1>1, <2>1 DEF OfDay
  <2>3. e \notin TimedOut /\ e \notin SweptToCall
    BY <2>2 DEF TimedOut, SweptToCall, NextInLine, Waiting
  <2>4. Swept(e) = Ended(e, "CANCELLED", "DAY_ENDED")
    BY <1>2, <2>3 DEF Swept
  <2> QED
    BY <1>1, <2>1, <2>4 DEF Ended, Row, Status, EndReason
<1>3. CASE e \notin Stale /\ e \in TimedOut
  <2>1. entry[e].status = "CALLED"
    BY <1>3 DEF TimedOut
  <2>2. e \notin SweptToCall
    BY <2>1 DEF SweptToCall, NextInLine, Waiting
  <2>3. Swept(e) = Ended(e, "NO_SHOW", "CALL_TIMEOUT")
    BY <1>3, <2>2 DEF Swept
  <2> QED
    BY <1>1, <2>1, <2>3 DEF Ended, Row, Status, EndReason
<1>4. CASE e \notin Stale /\ e \notin TimedOut /\ e \in SweptToCall
  BY <1>1, <1>4 DEF Swept, Called, SweptToCall, NextInLine, Waiting, Row, Status
<1>5. CASE e \notin Stale /\ e \notin TimedOut /\ e \notin SweptToCall
  BY <1>1, <1>5 DEF Swept
<1> QED
  BY <1>2, <1>3, <1>4, <1>5

-----------------------------------------------------------------------------
(* One step                                                                *)

\* One row is given new values without entering the line: the shape of every
\* transition of an entry but a join.
LEMMA OneRowSound ==
    ASSUME IInv, NEW e \in Entries, NEW r \in Row,
           entry' = [entry EXCEPT ![e] = r],
           day' \in 1..LastDay, isOpen' \in BOOLEAN, timeoutOn' \in BOOLEAN,
           r.status \notin {"NONE", "JOINING"} =>
               /\ e \in Stored /\ r.day = entry[e].day /\ r.ticket = entry[e].ticket
               /\ r.phone = entry[e].phone,
           r.status = "WAITING" => entry[e].status = "WAITING" /\ r.key = entry[e].key,
           r.status \in {"WAITING", "CALLED", "IN_SERVICE"}
               => entry[e].status \in {"WAITING", "CALLED", "IN_SERVICE"},
           r.appt # "none" <=> r.status \in {"IN_SERVICE", "DONE"},
           r.status = "DONE" => r.appt = "COMPLETED"
    PROVE  IInv' /\ KeepsOrder
<1>1. entry \in [Entries -> Row] /\ entry' \in [Entries -> Row]
  BY DEF IInv, TypeOK
<1>2. entry'[e] = r /\ \A f \in Entries \ {e} : entry'[f] = entry[f]
  BY <1>1
<1>3. TypeOK'
  BY <1>1 DEF TypeOK
<1>4. KeepsOrder
  BY <1>2 DEF KeepsOrder, Stored
<1>5. ServedMeansAppointment'
  BY <1>2 DEF IInv, ServedMeansAppointment
<1> QED
  BY <1>3, <1>4, <1>5, KeepsOrderSound DEF IInv

\* Rows that are not in the queue: not created, or of a request in flight.
LEMMA NewRowType ==
    ASSUME NEW status \in {"NONE", "JOINING"}, NEW d \in 0..LastDay,
           NEW phone \in Phones \union {NoPhone}
    PROVE  /\ NewRow(status, d, phone) \in Row
           /\ NewRow(status, d, phone).status = status /\ NewRow(status, d, phone).appt = "none"
<1>1. /\ status \in Status /\ "none" \in EndReason /\ "none" \in AppointmentStatus
      /\ 0 \in Nat /\ FALSE \in BOOLEAN
  BY DEF Status, EndReason, AppointmentStatus
<1> QED
  BY <1>1 DEF Row, NewRow

\* The sweep, alone and at the start of a join.
LEMMA SweepSound ==
    ASSUME IInv, SweepQueue \/ \E e \in Entries, phone \in Phones \union {NoPhone} : BeginJoin(e, phone)
    PROVE  IInv' /\ KeepsOrder
<1>1. ASSUME TypeOK',
             \A f \in Entries : \/ entry'[f] = Swept(f)
                               \/ /\ entry'[f].status = "JOINING" /\ entry'[f].appt = "none"
                                  /\ entry[f].status = "NONE"
      PROVE  IInv' /\ KeepsOrder
  <2>1. KeepsOrder
    <3> SUFFICES ASSUME NEW f \in Entries
                 PROVE  /\ f \in Stored' => /\ f \in Stored
                                            /\ entry'[f].day = entry[f].day
                                            /\ entry'[f].ticket = entry[f].ticket
                                            /\ entry'[f].phone = entry[f].phone
                        /\ entry'[f].status = "WAITING" =>
                               entry[f].status = "WAITING" /\ entry'[f].key = entry[f].key
                        /\ entry'[f].status \in {"WAITING", "CALLED", "IN_SERVICE"}
                               => entry[f].status \in {"WAITING", "CALLED", "IN_SERVICE"}
      BY DEF KeepsOrder
    <3>1. CASE entry'[f] = Swept(f)
      BY <3>1, SweptRow DEF Stored, IInv
    <3>2. CASE entry'[f] # Swept(f)
      BY <3>2, <1>1 DEF Stored
    <3> QED
      BY <3>1, <3>2
  <2>2. ServedMeansAppointment'
    <3> SUFFICES ASSUME NEW f \in Entries
                 PROVE  /\ entry'[f].appt # "none" <=> entry'[f].status \in {"IN_SERVICE", "DONE"}
                        /\ entry'[f].status = "DONE" => entry'[f].appt = "COMPLETED"
      BY DEF ServedMeansAppointment
    <3>1. CASE entry'[f] = Swept(f)
      BY <3>1, SweptRow DEF IInv, ServedMeansAppointment
    <3>2. CASE entry'[f] # Swept(f)
      BY <3>2, <1>1
    <3> QED
      BY <3>1, <3>2
  <2> QED
    BY <1>1, <2>1, <2>2, KeepsOrderSound DEF IInv
<1>2. \A f \in Entries : Swept(f) \in Row
  BY SweptRow DEF IInv
<1>3. CASE SweepQueue
  <2>1. TypeOK'
    BY <1>2, <1>3 DEF SweepQueue, IInv, TypeOK
  <2>2. \A f \in Entries : entry'[f] = Swept(f)
    BY <1>3 DEF SweepQueue
  <2> QED
    BY <2>1, <2>2, <1>1
<1>4. ASSUME NEW e \in Entries, NEW phone \in Phones \union {NoPhone}, BeginJoin(e, phone)
      PROVE  IInv' /\ KeepsOrder
  <2>1. /\ NewRow("JOINING", day, phone) \in Row
        /\ NewRow("JOINING", day, phone).status = "JOINING"
        /\ NewRow("JOINING", day, phone).appt = "none"
    BY NewRowType DEF IInv, TypeOK
  <2>2. TypeOK'
    BY <1>2, <1>4, <2>1 DEF BeginJoin, IInv, TypeOK
  <2>3. \A f \in Entries : IF f = e THEN entry'[f] = NewRow("JOINING", day, phone) /\ entry[f].status = "NONE"
                                    ELSE entry'[f] = Swept(f)
    BY <1>4 DEF BeginJoin
  <2>4. \A f \in Entries : \/ entry'[f] = Swept(f)
                           \/ /\ entry'[f].status = "JOINING" /\ entry'[f].appt = "none"
                              /\ entry[f].status = "NONE"
    BY <2>1, <2>3
  <2> QED
    BY <2>2, <2>4, <1>1
<1> QED
  BY <1>3, <1>4

\* The next ticket and place of a day are after all that were given.
LEMMA NextIsNew ==
    ASSUME TypeOK, NEW d
    PROVE  /\ NextTicket(d) \in Nat /\ \A f \in OfDay(d) : entry[f].ticket < NextTicket(d)
           /\ NextKey(d) \in Nat /\ \A f \in OfDay(d) : entry[f].key < NextKey(d)
<1> DEFINE tickets == {entry[f].ticket : f \in OfDay(d)}
           keys == {entry[f].key : f \in OfDay(d)}
<1>1. OfDay(d) \subseteq Entries /\ IsFiniteSet(OfDay(d))
  BY QueueAssumption, FS_Subset DEF OfDay, Stored
<1>2. \A f \in OfDay(d) : entry[f].ticket \in Nat /\ entry[f].key \in Nat
  BY <1>1 DEF TypeOK, Row
<1>3. IsFiniteSet(tickets)
  <2> DEFINE g == [f \in OfDay(d) |-> entry[f].ticket]
  <2>1. g \in Surjection(OfDay(d), tickets)
    BY DEF Surjection
  <2> QED
    BY <1>1, <2>1, FS_Surjection
<1>4. IsFiniteSet(keys)
  <2> DEFINE g == [f \in OfDay(d) |-> entry[f].key]
  <2>1. g \in Surjection(OfDay(d), keys)
    BY DEF Surjection
  <2> QED
    BY <1>1, <2>1, FS_Surjection
<1>5. ASSUME NEW S \in SUBSET Nat, IsFiniteSet(S)
      PROVE  /\ Greatest({0} \union S) \in Nat
             /\ \A n \in S : n <= Greatest({0} \union S)
  <2>1. IsFiniteSet({0} \union S)
    <3>1. {0} \union S = S \union {0}
      OBVIOUS
    <3> QED
      BY <1>5, <3>1, FS_AddElement
  <2>2. \E m \in {0} \union S : \A n \in {0} \union S : n <= m
    <3> DEFINE U == {0} \union S
    <3>1. U \in SUBSET Nat /\ U # {} /\ IsFiniteSet(U)
      BY <2>1
    <3> HIDE DEF U
    <3>2. \E m \in U : \A n \in U : n <= m
      BY <3>1, GreatestOfFinite
    <3> QED
      BY <3>2 DEF U
  <2> QED
    <3> DEFINE U == {0} \union S
    <3>1. U \subseteq Nat /\ S \subseteq U /\ \E m \in U : \A n \in U : n <= m
      BY <2>2
    <3> HIDE DEF U
    <3>2. Greatest(U) \in U /\ \A n \in U : n <= Greatest(U)
      BY <3>1 DEF Greatest
    <3>3. Greatest(U) \in Nat /\ \A n \in S : n <= Greatest(U)
      BY <3>1, <3>2
    <3> QED
      BY <3>3 DEF U
<1>6. tickets \in SUBSET Nat /\ keys \in SUBSET Nat
  BY <1>2
<1>7. Greatest({0} \union tickets) \in Nat /\ \A n \in tickets : n <= Greatest({0} \union tickets)
  BY <1>3, <1>5, <1>6
<1>8. Greatest({0} \union keys) \in Nat /\ \A n \in keys : n <= Greatest({0} \union keys)
  BY <1>4, <1>5, <1>6
<1>9. NextTicket(d) = Greatest({0} \union tickets) + 1 /\ NextKey(d) = Greatest({0} \union keys) + 1
  BY DEF NextTicket, NextKey
<1> HIDE DEF tickets, keys
<1>10. ASSUME NEW G \in Nat, NEW S, \A n \in S : n <= G, NEW N, N = G + 1
       PROVE  N \in Nat /\ \A n \in S : n \in Nat => n < N
  BY <1>10
<1>11. NextTicket(d) \in Nat /\ \A n \in tickets : n \in Nat => n < NextTicket(d)
  BY <1>7, <1>9, <1>10
<1>12. NextKey(d) \in Nat /\ \A n \in keys : n \in Nat => n < NextKey(d)
  BY <1>8, <1>9, <1>10
<1> USE DEF tickets, keys
<1> QED
  BY <1>2, <1>11, <1>12

\* A join: the newcomer's ticket and place are new, and their phone is not in
\* line - it was looked up under the lock, however long ago the request began.
LEMMA JoinSound ==
    ASSUME IInv, NEW e \in Entries, Join(e)
    PROVE  IInv'
<1> DEFINE d == entry[e].day
<1>1. /\ entry \in [Entries -> Row] /\ entry[e] \in Row /\ entry[e].status = "JOINING"
      /\ e \notin Stored /\ ~AlreadyInQueue(e)
  BY DEF Join, IInv, TypeOK, Stored
<1>2. NextTicket(d) \in Nat /\ NextKey(d) \in Nat
  BY NextIsNew DEF IInv
<1> DEFINE r == [entry[e] EXCEPT !.status = "WAITING", !.ticket = NextTicket(d), !.key = NextKey(d)]
<1>3. /\ r \in Row /\ r.status = "WAITING" /\ r.ticket = NextTicket(d) /\ r.key = NextKey(d)
      /\ r.day = d /\ r.phone = entry[e].phone /\ r.appt = entry[e].appt
  BY <1>1, <1>2 DEF Row, Status
<1>4. entry' = [entry EXCEPT ![e] = r]
  BY <1>1 DEF Join
<1> HIDE DEF r, d
<1>5. entry'[e] = r /\ \A f \in Entries \ {e} : entry'[f] = entry[f]
  BY <1>1, <1>4
<1>6. TypeOK'
  BY <1>1, <1>3, <1>4 DEF Join, IInv, TypeOK
<1>7. Stored' = Stored \union {e}
  BY <1>3, <1>5 DEF Stored
<1>8. \A f \in OfDay(d) : entry[f].ticket < NextTicket(d) /\ entry[f].key < NextKey(d)
                          /\ entry[f].ticket \in Nat /\ entry[f].key \in Nat
  BY <1>1, NextIsNew DEF IInv, OfDay, Stored, Row
<1>9. OrderIsStrict'
  <2>1. ASSUME NEW f \in Stored, entry[f].day = d PROVE entry[f].ticket # r.ticket /\ f # e
    BY <1>1, <1>2, <1>3, <1>8, <2>1 DEF OfDay
  <2>2. ASSUME NEW k, NEW f \in Waiting(k), k = d PROVE entry[f].key # r.key /\ f # e
    BY <1>1, <1>2, <1>3, <1>8, <2>2 DEF Waiting, OfDay
  <2>3. \A k : \A f \in Waiting(k)' : f # e => f \in Waiting(k) /\ entry'[f] = entry[f]
    BY <1>5, <1>7 DEF Waiting, OfDay, Stored
  <2>4. \A k : e \in Waiting(k)' => k = d
    BY <1>3, <1>5 DEF Waiting, OfDay
  <2>5. \A f, g \in Stored' : f # g /\ entry'[f].day = entry'[g].day => entry'[f].ticket # entry'[g].ticket
    <3> SUFFICES ASSUME NEW f \in Stored', NEW g \in Stored', f # g, entry'[f].day = entry'[g].day
                 PROVE  entry'[f].ticket # entry'[g].ticket
      OBVIOUS
    <3>0. Stored \subseteq Entries
      BY DEF Stored
    <3>1. CASE f = e
      <4>1. g \in Stored /\ entry'[g] = entry[g]
        BY <3>0, <3>1, <1>5, <1>7
      <4> QED
        BY <3>1, <4>1, <2>1, <1>3, <1>5
    <3>2. CASE g = e
      <4>1. f \in Stored /\ entry'[f] = entry[f]
        BY <3>0, <3>2, <1>5, <1>7
      <4> QED
        BY <3>2, <4>1, <2>1, <1>3, <1>5
    <3>3. CASE f # e /\ g # e
      <4>1. f \in Stored /\ entry'[f] = entry[f] /\ g \in Stored /\ entry'[g] = entry[g]
        BY <3>0, <3>3, <1>5, <1>7
      <4> QED
        BY <4>1 DEF IInv, OrderIsStrict
    <3> QED
      BY <3>1, <3>2, <3>3
  <2>6. \A k \in 1..LastDay : \A f, g \in Waiting(k)' : f # g => entry'[f].key # entry'[g].key
    <3> SUFFICES ASSUME NEW k \in 1..LastDay, NEW f \in Waiting(k)', NEW g \in Waiting(k)', f # g
                 PROVE  entry'[f].key # entry'[g].key
      OBVIOUS
    <3>1. CASE f = e
      BY <3>1, <2>2, <2>3, <2>4, <1>3, <1>5
    <3>2. CASE g = e
      BY <3>2, <2>2, <2>3, <2>4, <1>3, <1>5
    <3>3. CASE f # e /\ g # e
      BY <3>3, <2>3 DEF IInv, OrderIsStrict
    <3> QED
      BY <3>1, <3>2, <3>3
  <2> QED
    BY <2>5, <2>6 DEF OrderIsStrict
<1>10. NobodyTwiceInLine'
  <2>1. \A k : \A f \in Active(k)' : f # e => f \in Active(k) /\ entry'[f] = entry[f]
    BY <1>5, <1>7 DEF Active, OfDay, Stored
  <2>2. \A k : e \in Active(k)' => k = d
    BY <1>3, <1>5 DEF Active, OfDay
  <2>3. \A f \in Active(d) : entry[f].phone = r.phone => r.phone = NoPhone
    BY <1>1, <1>3 DEF AlreadyInQueue, d
  <2> SUFFICES ASSUME NEW k \in 1..LastDay, NEW f \in Active(k)', NEW g \in Active(k)',
                      f # g, entry'[f].phone = entry'[g].phone
               PROVE  entry'[f].phone = NoPhone
    BY DEF NobodyTwiceInLine
  <2>4. CASE f = e
    BY <2>4, <2>1, <2>2, <2>3, <1>5
  <2>5. CASE g = e
    BY <2>5, <2>1, <2>2, <2>3, <1>5
  <2>6. CASE f # e /\ g # e
    BY <2>6, <2>1 DEF IInv, NobodyTwiceInLine
  <2> QED
    BY <2>4, <2>5, <2>6
<1>11. ServedMeansAppointment'
  <2>1. entry[e].appt = "none"
    BY <1>1 DEF IInv, ServedMeansAppointment
  <2> QED
    BY <2>1, <1>3, <1>5 DEF IInv, ServedMeansAppointment
<1> QED
  BY <1>6, <1>9, <1>10, <1>11 DEF IInv

\* The place that a reorder numbers from.
LEMMA FirstKey ==
    ASSUME TypeOK, Waiting(day) # {}
    PROVE  Least({entry[e].key : e \in Waiting(day)}) \in Nat
<1> DEFINE keys == {entry[e].key : e \in Waiting(day)}
<1>1. keys \subseteq Nat /\ keys # {}
  <2>1. \A e \in Entries : entry[e] \in Row
    BY DEF TypeOK
  <2>2. \A e \in Entries : entry[e].key \in Nat
    BY <2>1 DEF Row
  <2>3. \A e \in Waiting(day) : e \in Entries
    BY DEF Waiting, OfDay, Stored
  <2>4. \A k \in keys : k \in Nat
    BY <2>2, <2>3
  <2>5. PICK e \in Waiting(day) : TRUE
    OBVIOUS
  <2>6. entry[e].key \in keys
    BY <2>5
  <2> QED
    BY <2>4, <2>6
<1> HIDE DEF keys
<1>2. \E m \in keys : \A u \in keys : m <= u
  BY <1>1, LeastExists
<1>3. Least(keys) \in keys
  BY <1>2 DEF Least
<1> QED
  BY <1>1, <1>3 DEF keys

\* A reorder: the new places are distinct because the list names everybody who
\* waits today, and nobody else's place is touched.
LEMMA ReorderSound ==
    ASSUME IInv, NEW listed \in SUBSET Entries, ReorderWaiting(listed)
    PROVE  IInv'
<1> DEFINE base == Least({entry[e].key : e \in Waiting(day)})
<1>1. listed = Waiting(day) /\ listed # {} /\ entry \in [Entries -> Row] /\ day \in Nat
  BY QueueAssumption DEF ReorderWaiting, OnScreen, IInv, TypeOK
<1>2. PICK place \in [listed -> 0..(Cardinality(listed) - 1)] :
        /\ \A e, f \in listed : place[e] = place[f] => e = f
        /\ entry' = [e \in Entries |->
               IF e \in listed THEN [entry[e] EXCEPT !.key = base + place[e]] ELSE entry[e]]
  BY DEF ReorderWaiting
<1>3. base \in Nat
  BY <1>1, FirstKey DEF IInv
<1> HIDE DEF base
<1>4. \A e \in listed : place[e] \in Nat /\ base + place[e] \in Nat
  <2>1. IsFiniteSet(listed)
    BY QueueAssumption, FS_Subset
  <2>2. Cardinality(listed) \in Nat
    BY <2>1, FS_CardinalityType
  <2> QED
    BY <1>2, <1>3, <2>2
<1>5. \A e \in Entries : /\ e \in listed => entry'[e] = [entry[e] EXCEPT !.key = base + place[e]]
                         /\ e \notin listed => entry'[e] = entry[e]
  BY <1>2
<1>6. \A e \in Entries : /\ entry'[e] \in Row
                         /\ entry'[e].status = entry[e].status /\ entry'[e].day = entry[e].day
                         /\ entry'[e].ticket = entry[e].ticket /\ entry'[e].phone = entry[e].phone
                         /\ entry'[e].appt = entry[e].appt
                         /\ e \in listed => entry'[e].key = base + place[e]
                         /\ e \notin listed => entry'[e].key = entry[e].key
  <2> SUFFICES ASSUME NEW e \in Entries
               PROVE  /\ entry'[e] \in Row
                      /\ entry'[e].status = entry[e].status /\ entry'[e].day = entry[e].day
                      /\ entry'[e].ticket = entry[e].ticket /\ entry'[e].phone = entry[e].phone
                      /\ entry'[e].appt = entry[e].appt
                      /\ e \in listed => entry'[e].key = base + place[e]
                      /\ e \notin listed => entry'[e].key = entry[e].key
    OBVIOUS
  <2>1. entry[e] \in Row
    BY DEF IInv, TypeOK
  <2>2. CASE e \in listed
    <3>1. entry'[e] = [entry[e] EXCEPT !.key = base + place[e]] /\ base + place[e] \in Nat
      BY <1>4, <1>5, <2>2
    <3> QED
      BY <2>1, <2>2, <3>1 DEF Row
  <2>3. CASE e \notin listed
    BY <1>5, <2>1, <2>3
  <2> QED
    BY <2>2, <2>3
<1>7. TypeOK'
  <2>1. entry' \in [Entries -> Row]
    BY <1>2, <1>6
  <2> QED
    BY <2>1 DEF ReorderWaiting, IInv, TypeOK
<1>8. Stored' = Stored
  BY <1>6 DEF Stored
<1>9. \A d : OfDay(d)' = OfDay(d) /\ OfDay(d) \subseteq Entries
  BY <1>6, <1>8 DEF OfDay, Stored
<1>10. \A d : Waiting(d)' = Waiting(d) /\ Active(d)' = Active(d) /\ Waiting(d) \subseteq Entries
              /\ Active(d) \subseteq Entries
  BY <1>6, <1>9 DEF Waiting, Active
<1>11. OrderIsStrict'
  <2>1. \A e, f \in Stored' : e # f /\ entry'[e].day = entry'[f].day => entry'[e].ticket # entry'[f].ticket
    BY <1>6, <1>8 DEF IInv, OrderIsStrict, Stored
  <2>2. ASSUME NEW d \in 1..LastDay, NEW e \in Waiting(d), NEW f \in Waiting(d), e # f
        PROVE  entry'[e].key # entry'[f].key
    <3>1. CASE d = day
      <4>1. e \in listed /\ f \in listed /\ place[e] # place[f]
        BY <2>2, <3>1, <1>1, <1>2
      <4>2. entry'[e].key = base + place[e] /\ entry'[f].key = base + place[f]
        BY <4>1, <1>6
      <4> QED
        BY <4>1, <4>2, <1>3, <1>4
    <3>2. CASE d # day
      <4>1. e \notin listed /\ f \notin listed
        BY <3>2, <1>1 DEF Waiting, OfDay
      <4> QED
        BY <2>2, <4>1, <1>6, <1>10 DEF IInv, OrderIsStrict
    <3> QED
      BY <3>1, <3>2
  <2> QED
    BY <2>1, <2>2, <1>10 DEF OrderIsStrict
<1>12. NobodyTwiceInLine'
  BY <1>6, <1>10 DEF IInv, NobodyTwiceInLine
<1>13. ServedMeansAppointment'
  BY <1>6 DEF IInv, ServedMeansAppointment
<1> QED
  BY <1>7, <1>11, <1>12, <1>13 DEF IInv

\* Every other transition of one entry.
LEMMA EntrySound ==
    ASSUME IInv, NEW e \in Entries,
           \/ RefuseJoin(e)
           \/ MarkCalled(e) /\ entry[e].status = "WAITING"
           \/ StartService(e) \/ CompleteService(e)
           \/ \E status \in {"NO_SHOW", "CANCELLED"} : Leave(e, status)
           \/ \E to \in AppointmentStatus \ {"none"} : StaffSetsAppointment(e, to)
           \/ CallLapses(e)
    PROVE  IInv' /\ KeepsOrder
<1>1. /\ entry \in [Entries -> Row] /\ entry[e] \in Row
      /\ day \in 1..LastDay /\ isOpen \in BOOLEAN /\ timeoutOn \in BOOLEAN
      /\ entry[e].appt # "none" <=> entry[e].status \in {"IN_SERVICE", "DONE"}
      /\ entry[e].status = "DONE" => entry[e].appt = "COMPLETED"
      /\ entry[e].status \notin {"NONE", "JOINING"} => e \in Stored
  BY DEF IInv, TypeOK, ServedMeansAppointment, Stored
<1>2. CASE RefuseJoin(e)
  <2>1. NoRow \in Row /\ NoRow.status = "NONE" /\ NoRow.appt = "none"
    BY NewRowType, QueueAssumption DEF NoRow
  <2>2. entry' = [entry EXCEPT ![e] = NoRow] /\ day' = day /\ isOpen' = isOpen /\ timeoutOn' = timeoutOn
    BY <1>2 DEF RefuseJoin
  <2> HIDE DEF NoRow
  <2> QED
    BY <1>1, <2>1, <2>2, OneRowSound
<1>3. CASE MarkCalled(e) /\ entry[e].status = "WAITING"
  <2>1. Called(e) \in Row /\ Called(e).status = "CALLED"
        /\ Called(e).day = entry[e].day /\ Called(e).ticket = entry[e].ticket
        /\ Called(e).phone = entry[e].phone /\ Called(e).appt = entry[e].appt
    BY <1>1 DEF Called, Row, Status
  <2>2. entry' = [entry EXCEPT ![e] = Called(e)] /\ day' = day /\ isOpen' = isOpen /\ timeoutOn' = timeoutOn
    BY <1>3 DEF MarkCalled
  <2> QED
    BY <1>1, <1>3, <2>1, <2>2, OneRowSound
<1>4. CASE StartService(e)
  <2> DEFINE r == [entry[e] EXCEPT !.status = "IN_SERVICE", !.lapsed = FALSE, !.appt = "IN_PROGRESS"]
  <2>1. r \in Row /\ r.status = "IN_SERVICE" /\ r.appt = "IN_PROGRESS" /\ r.day = entry[e].day
        /\ r.ticket = entry[e].ticket /\ r.phone = entry[e].phone
    BY <1>1 DEF Row, Status, AppointmentStatus
  <2>2. entry' = [entry EXCEPT ![e] = r] /\ day' = day /\ isOpen' = isOpen /\ timeoutOn' = timeoutOn
        /\ entry[e].status \in {"WAITING", "CALLED"}
    BY <1>1, <1>4 DEF StartService
  <2> HIDE DEF r
  <2> QED
    BY <1>1, <2>1, <2>2, OneRowSound
<1>5. CASE CompleteService(e)
  <2> DEFINE r == [entry[e] EXCEPT !.status = "DONE", !.appt = "COMPLETED"]
  <2>1. r \in Row /\ r.status = "DONE" /\ r.appt = "COMPLETED" /\ r.day = entry[e].day
        /\ r.ticket = entry[e].ticket /\ r.phone = entry[e].phone
    BY <1>1 DEF Row, Status, AppointmentStatus
  <2>2. entry' = [entry EXCEPT ![e] = r] /\ day' = day /\ isOpen' = isOpen /\ timeoutOn' = timeoutOn
        /\ entry[e].status = "IN_SERVICE"
    BY <1>1, <1>5 DEF CompleteService
  <2> HIDE DEF r
  <2> QED
    BY <1>1, <2>1, <2>2, OneRowSound
<1>6. ASSUME NEW status \in {"NO_SHOW", "CANCELLED"}, Leave(e, status) PROVE IInv' /\ KeepsOrder
  <2> DEFINE r == Ended(e, status, "LEFT")
  <2>1. r \in Row /\ r.status = status /\ r.appt = entry[e].appt /\ r.day = entry[e].day
        /\ r.ticket = entry[e].ticket /\ r.phone = entry[e].phone
    BY <1>1 DEF Ended, Row, Status, EndReason
  <2>2. entry' = [entry EXCEPT ![e] = r] /\ day' = day /\ isOpen' = isOpen /\ timeoutOn' = timeoutOn
        /\ entry[e].status \in {"WAITING", "CALLED"}
    BY <1>6 DEF Leave
  <2> HIDE DEF r
  <2> QED
    BY <1>1, <2>1, <2>2, OneRowSound
<1>7. ASSUME NEW to \in AppointmentStatus \ {"none"}, StaffSetsAppointment(e, to) PROVE IInv' /\ KeepsOrder
  <2> DEFINE r == [entry[e] EXCEPT !.appt = to]
  <2>1. r \in Row /\ r.status = entry[e].status /\ r.appt = to /\ r.day = entry[e].day
        /\ r.ticket = entry[e].ticket /\ r.phone = entry[e].phone /\ r.key = entry[e].key
    BY <1>1 DEF Row
  <2>2. entry' = [entry EXCEPT ![e] = r] /\ day' = day /\ isOpen' = isOpen /\ timeoutOn' = timeoutOn
        /\ entry[e].appt # "none" /\ MayBecome(entry[e].appt, to)
    BY <1>1, <1>7 DEF StaffSetsAppointment
  <2>3. entry[e].status # "DONE"
    BY <1>1, <2>2 DEF MayBecome
  <2> HIDE DEF r
  <2> QED
    BY <1>1, <2>1, <2>2, <2>3, OneRowSound
<1>8. CASE CallLapses(e)
  <2> DEFINE r == [entry[e] EXCEPT !.lapsed = TRUE]
  <2>1. r \in Row /\ r.status = entry[e].status /\ r.appt = entry[e].appt /\ r.day = entry[e].day
        /\ r.ticket = entry[e].ticket /\ r.phone = entry[e].phone /\ r.key = entry[e].key
    BY <1>1 DEF Row
  <2>2. entry' = [entry EXCEPT ![e] = r] /\ day' = day /\ isOpen' = isOpen /\ timeoutOn' = timeoutOn
    BY <1>1, <1>8 DEF CallLapses
  <2> HIDE DEF r
  <2> QED
    BY <1>1, <2>1, <2>2, OneRowSound
<1> QED
  BY <1>2, <1>3, <1>4, <1>5, <1>6, <1>7, <1>8

\* Settings and time touch no entry.
LEMMA ElsewhereSound ==
    ASSUME IInv, entry' = entry, day' \in 1..LastDay, isOpen' \in BOOLEAN, timeoutOn' \in BOOLEAN
    PROVE  IInv' /\ KeepsOrder
<1>1. KeepsOrder
  BY DEF KeepsOrder, Stored
<1> QED
  BY <1>1, KeepsOrderSound DEF IInv, TypeOK, ServedMeansAppointment

-----------------------------------------------------------------------------
\* Every step keeps the invariant, and the order of the line unless somebody
\* joins it or staff reorder it.
Step == /\ IInv'
        /\ \/ KeepsOrder
           \/ \E e \in Entries : Join(e)
           \/ \E listed \in SUBSET Entries : ReorderWaiting(listed)

LEMMA StepSound == ASSUME IInv, [Next]_vars PROVE Step
<1> USE DEF Step
<1>1. CASE SweepQueue
  BY <1>1, SweepSound
<1>2. CASE CallNext
  <2>1. PICK e \in NextInLine(1) : MarkCalled(e)
    BY <1>2 DEF CallNext
  <2>2. e \in Entries /\ entry[e].status = "WAITING"
    BY DEF NextInLine, Waiting, OfDay, Stored
  <2> QED
    BY <2>1, <2>2, EntrySound
<1>3. CASE \E listed \in SUBSET Entries : ReorderWaiting(listed)
  BY <1>3, ReorderSound
<1>4. CASE SetOpen \/ SetTimeout \/ DayEnds \/ UNCHANGED vars
  <2>1. entry' = entry /\ isOpen' \in BOOLEAN /\ timeoutOn' \in BOOLEAN
    BY <1>4 DEF SetOpen, SetTimeout, DayEnds, vars, IInv, TypeOK
  <2>2. day' \in 1..LastDay
    BY <1>4, QueueAssumption DEF SetOpen, SetTimeout, DayEnds, vars, IInv, TypeOK
  <2> QED
    BY <2>1, <2>2, ElsewhereSound
<1>5. ASSUME NEW e \in Entries, EntryStep(e) PROVE Step
  <2>1. CASE \E phone \in Phones \union {NoPhone} : BeginJoin(e, phone)
    BY <2>1, SweepSound
  <2>2. CASE Join(e)
    BY <2>2, JoinSound
  <2>3. CASE ~Join(e) /\ ~\E phone \in Phones \union {NoPhone} : BeginJoin(e, phone)
    <3>1. CASE CallEntry(e)
      BY <3>1, EntrySound DEF CallEntry
    <3>2. CASE MarkNoShow(e) \/ CancelEntry(e)
      <4>1. \E status \in {"NO_SHOW", "CANCELLED"} : Leave(e, status)
        BY <3>2 DEF MarkNoShow, CancelEntry
      <4> QED
        BY <4>1, EntrySound
    <3>3. CASE RefuseJoin(e)
      BY <3>3, EntrySound
    <3>4. CASE StartService(e) \/ CompleteService(e)
      BY <3>4, EntrySound
    <3>5. CASE \E to \in AppointmentStatus \ {"none"} : StaffSetsAppointment(e, to)
      BY <3>5, EntrySound
    <3>6. CASE CallLapses(e)
      BY <3>6, EntrySound
    <3>7. \/ RefuseJoin(e) \/ CallEntry(e) \/ StartService(e) \/ CompleteService(e)
          \/ MarkNoShow(e) \/ CancelEntry(e)
          \/ \E to \in AppointmentStatus \ {"none"} : StaffSetsAppointment(e, to)
          \/ CallLapses(e)
      BY <1>5, <2>3, Zenon DEF EntryStep
    <3> QED
      BY <3>1, <3>2, <3>3, <3>4, <3>5, <3>6, <3>7
  <2> QED
    BY <2>1, <2>2, <2>3
<1> QED
  BY <1>1, <1>2, <1>3, <1>4, <1>5 DEF Next

\* The invariant holds initially and in every step.
THEOREM Invariant == Spec => []IInv
<1>1. Init => IInv
  <2> SUFFICES ASSUME Init PROVE IInv
    OBVIOUS
  <2>1. NoRow \in Row /\ NoRow.status = "NONE" /\ NoRow.appt = "none"
    BY NewRowType, QueueAssumption DEF NoRow
  <2>2. \A e \in Entries : entry[e] = NoRow
    BY DEF Init
  <2> HIDE DEF NoRow
  <2>3. TypeOK
    <3>1. entry \in [Entries -> Row]
      BY <2>1 DEF Init
    <3>2. day \in 1..LastDay
      <4>1. LastDay \in Nat /\ LastDay >= 1
        BY QueueAssumption
      <4> QED
        BY <4>1 DEF Init
    <3>3. isOpen \in BOOLEAN /\ timeoutOn \in BOOLEAN
      BY DEF Init
    <3> QED
      BY <3>1, <3>2, <3>3 DEF TypeOK
  <2>4. Stored = {}
    BY <2>1, <2>2 DEF Stored
  <2>5. \A d : OfDay(d) = {} /\ Waiting(d) = {} /\ Active(d) = {}
    BY <2>4 DEF OfDay, Waiting, Active
  <2> QED
    BY <2>1, <2>2, <2>3, <2>4, <2>5 DEF IInv, OrderIsStrict, NobodyTwiceInLine, ServedMeansAppointment
<1>2. IInv /\ [Next]_vars => IInv'
  BY StepSound DEF Step
<1> QED
  BY <1>1, <1>2, PTL DEF Spec

\* Types, for every number of entries, phones and days.
THEOREM TypeCorrect == Spec => []TypeOK
<1>1. IInv => TypeOK
  BY DEF IInv
<1> QED
  BY <1>1, Invariant, PTL

\* Tickets of a day and places in its line are distinct and a phone number has
\* one place in it, however requests race, sweeps run and staff reorder.
THEOREM LineStaysSound == Spec => []LineIsSound
<1>1. IInv => LineIsSound
  BY DEF IInv, LineIsSound
<1> QED
  BY <1>1, Invariant, PTL

\* Appointments exist exactly for walk-ins who were served, and are completed
\* when the walk-in is done.
THEOREM OnlyTheServedHaveAppointments == Spec => []ServedMeansAppointment
<1>1. IInv => ServedMeansAppointment
  BY DEF IInv
<1> QED
  BY <1>1, Invariant, PTL

-----------------------------------------------------------------------------
(* The order of the line                                                   *)

\* Who joins is behind everybody of their day.
LEMMA JoinIsLast ==
    ASSUME IInv, NEW g \in Entries, Join(g), NEW e \in Entries,
           entry[e].status = "WAITING", entry'[e].day = entry'[g].day
    PROVE  Before(e, g)'
<1>1. entry[g].status = "JOINING" /\ entry[g] \in Row /\ entry \in [Entries -> Row]
  BY DEF Join, IInv, TypeOK
<1>2. entry'[e] = entry[e] /\ entry'[g].day = entry[g].day
      /\ entry'[g].key = NextKey(entry[g].day)
  BY <1>1 DEF Join, Row
<1>3. e \in OfDay(entry[g].day)
  BY <1>2 DEF OfDay, Stored
<1> QED
  BY <1>2, <1>3, NextIsNew DEF IInv, Before

\* Places change only when staff reorder the queue, for any queue and any day.
THEOREM NobodyIsOvertaken == Spec => PlacesAreKept
<1>1. ASSUME IInv, [Next]_vars, NEW e \in Entries, NEW f \in Entries,
             entry'[e].status = "WAITING", entry'[f].status = "WAITING",
             entry'[e].day = entry'[f].day, entry[e].status = "WAITING",
             entry[f].status = "WAITING" => Before(e, f)
      PROVE  \/ Before(e, f)'
             \/ \E listed \in SUBSET Entries : ReorderWaiting(listed)
  <2>1. CASE KeepsOrder
    <3>1. e \in Stored' /\ f \in Stored'
      BY <1>1 DEF Stored
    <3> QED
      BY <1>1, <2>1, <3>1 DEF KeepsOrder, Before
  <2>2. ASSUME NEW g \in Entries, Join(g) PROVE Before(e, f)'
    <3>1. CASE f = g
      BY <1>1, <2>2, <3>1, JoinIsLast
    <3>2. CASE f # g
      <4>1. e # g /\ entry \in [Entries -> Row]
        BY <1>1, <2>2 DEF Join, IInv, TypeOK
      <4>2. entry'[f] = entry[f] /\ entry'[e] = entry[e]
        BY <2>2, <3>2, <4>1 DEF Join
      <4> QED
        BY <1>1, <4>2 DEF Before
    <3> QED
      BY <3>1, <3>2
  <2> QED
    BY <1>1, <2>1, <2>2, StepSound DEF Step
<1>2. IInv /\ [Next]_vars =>
        [\A e, f \in Entries :
          /\ entry'[e].status = "WAITING" /\ entry'[f].status = "WAITING"
          /\ entry'[e].day = entry'[f].day
          /\ entry[e].status = "WAITING" /\ (entry[f].status = "WAITING" => Before(e, f))
          => \/ Before(e, f)'
             \/ \E listed \in SUBSET Entries : ReorderWaiting(listed)]_vars
  BY <1>1
<1> QED
  BY <1>2, Invariant, PTL DEF Spec, PlacesAreKept

\* Whoever the sweep calls has nobody before them whom it leaves waiting.
LEMMA SweepCallsInOrder ==
    ASSUME IInv, NEW e \in SweptToCall, NEW f \in Waiting(day), Before(f, e)
    PROVE  f \in SweptToCall
<1> DEFINE inFront(g) == {h \in Waiting(day) : Before(h, g)}
<1>1. Waiting(day) \subseteq Entries /\ e \in Waiting(day)
  BY DEF Waiting, OfDay, Stored, SweptToCall, NextInLine
<1>2. IsFiniteSet(Waiting(day)) /\ IsFiniteSet(TimedOut)
  <2>1. TimedOut \subseteq Entries
    BY DEF TimedOut, OfDay, Stored
  <2> QED
    BY <1>1, <2>1, QueueAssumption, FS_Subset
<1>3. \A g \in Entries : entry[g].key \in Nat /\ entry[g].ticket \in Nat
  BY DEF IInv, TypeOK, Row
<1>4. inFront(f) \subseteq inFront(e) /\ inFront(e) \subseteq Waiting(day)
  BY <1>1, <1>3 DEF Before
<1>5. /\ Cardinality(inFront(f)) \in Nat /\ Cardinality(inFront(e)) \in Nat
      /\ Cardinality(inFront(f)) <= Cardinality(inFront(e))
  <2>1. IsFiniteSet(inFront(e)) /\ IsFiniteSet(inFront(f))
    BY <1>2, <1>4, FS_Subset
  <2> QED
    BY <1>4, <2>1, FS_Subset, FS_CardinalityType
<1>6. Cardinality(inFront(e)) < Cardinality(TimedOut) /\ Cardinality(TimedOut) \in Nat
  BY <1>2, FS_CardinalityType DEF SweptToCall, NextInLine
<1>7. Cardinality(inFront(f)) < Cardinality(TimedOut)
  BY <1>5, <1>6
<1> QED
  BY <1>7 DEF SweptToCall, NextInLine

\* Nobody is called past somebody who keeps waiting, but by staff.
THEOREM CallsAreInTurn == Spec => OnlyStaffCallOutOfTurn
<1>1. ASSUME IInv, [Next]_vars, NEW e \in Entries, NEW f \in Entries,
             entry[e].status = "WAITING", entry'[e].status = "CALLED",
             f \in Waiting(entry[e].day), f \in Waiting(entry[e].day)', Before(f, e)
      PROVE  CallEntry(e)
  <2>1. entry'[f].status = "WAITING" /\ entry[f].status = "WAITING"
    BY <1>1 DEF Waiting
  <2>2. ASSUME entry'[e] = Swept(e), entry'[f] = Swept(f) PROVE FALSE
    <3>1. e \in SweptToCall
      BY <1>1, <2>2 DEF Swept, Ended, Stale, TimedOut, IInv, TypeOK, Row
    <3>2. entry[e].day = day
      BY <3>1 DEF SweptToCall, NextInLine, Waiting, OfDay
    <3>3. f \in SweptToCall
      BY <1>1, <3>1, <3>2, SweepCallsInOrder
    <3>4. f \notin Stale /\ f \notin TimedOut
      BY <1>1, <3>2, <2>1, QueueAssumption DEF Stale, TimedOut, Waiting, OfDay, IInv, TypeOK
    <3>5. Swept(f) = Called(f) /\ entry[f] \in Row
      BY <1>1, <3>3, <3>4 DEF Swept, IInv, TypeOK
    <3>6. entry'[f].status = "CALLED"
      BY <2>2, <3>5 DEF Called, Row
    <3> QED
      BY <2>1, <3>6
  <2>3. CASE SweepQueue
    BY <2>2, <2>3 DEF SweepQueue
  <2>4. ASSUME NEW g \in Entries, NEW phone, BeginJoin(g, phone) PROVE FALSE
    <3>1. g # e /\ g # f
      BY <1>1, <2>1, <2>4 DEF BeginJoin
    <3> QED
      BY <2>2, <2>4, <3>1 DEF BeginJoin
  <2>5. ASSUME NEW g \in Entries, MarkCalled(g), entry[g].status = "WAITING" PROVE CallEntry(e)
    <3>1. g = e
      BY <1>1, <2>5 DEF MarkCalled, IInv, TypeOK
    <3> QED
      BY <2>5, <3>1 DEF CallEntry
  <2>6. CASE CallNext
    <3>1. PICK g \in NextInLine(1) : MarkCalled(g)
      BY <2>6 DEF CallNext
    <3>2. g \in Entries /\ entry[g].status = "WAITING"
      BY DEF NextInLine, Waiting, OfDay, Stored
    <3> QED
      BY <2>5, <3>1, <3>2
  <2>7. ASSUME NEW g \in Entries, CallEntry(g) PROVE CallEntry(e)
    BY <2>5, <2>7 DEF CallEntry
  <2>8. ASSUME \/ SetOpen \/ SetTimeout \/ DayEnds \/ UNCHANGED vars
               \/ \E listed \in SUBSET Entries : ReorderWaiting(listed)
        PROVE  FALSE
    <3>1. entry'[e].status = entry[e].status
      <4>1. CASE SetOpen \/ SetTimeout \/ DayEnds \/ UNCHANGED vars
        BY <4>1 DEF SetOpen, SetTimeout, DayEnds, vars
      <4>2. ASSUME NEW listed, ReorderWaiting(listed) PROVE entry'[e].status = entry[e].status
        <5>1. PICK k : entry'[e] = [entry[e] EXCEPT !.key = k] \/ entry'[e] = entry[e]
          BY <4>2 DEF ReorderWaiting
        <5>2. entry[e] \in Row
          BY <1>1 DEF IInv, TypeOK
        <5> QED
          BY <5>1, <5>2 DEF Row
      <4> QED
        BY <2>8, <4>1, <4>2
    <3> QED
      BY <1>1, <3>1
  <2>9. ASSUME NEW g \in Entries,
               \/ Join(g) \/ RefuseJoin(g) \/ StartService(g) \/ CompleteService(g)
               \/ MarkNoShow(g) \/ CancelEntry(g) \/ CallLapses(g)
               \/ \E to \in AppointmentStatus \ {"none"} : StaffSetsAppointment(g, to)
        PROVE  FALSE
    <3>1. entry \in [Entries -> Row] /\ entry[g] \in Row
      BY <1>1 DEF IInv, TypeOK
    <3>2. g = e
      BY <1>1, <2>9, <3>1 DEF Join, RefuseJoin, StartService, CompleteService, MarkNoShow,
         CancelEntry, Leave, CallLapses, StaffSetsAppointment
    <3>3. entry'[g].status # "CALLED"
      <4>1. entry[g].status = "WAITING"
        BY <1>1, <3>2
      <4>2. CASE Join(g) \/ RefuseJoin(g) \/ CompleteService(g) \/ CallLapses(g)
        BY <4>1, <4>2 DEF Join, RefuseJoin, CompleteService, CallLapses
      <4>3. CASE StartService(g)
        BY <3>1, <4>3 DEF StartService, Row
      <4>4. CASE MarkNoShow(g) \/ CancelEntry(g)
        <5>1. PICK to \in {"NO_SHOW", "CANCELLED"} : Leave(g, to)
          BY <4>4 DEF MarkNoShow, CancelEntry
        <5>2. entry'[g] = Ended(g, to, "LEFT")
          BY <3>1, <5>1 DEF Leave
        <5>3. Ended(g, to, "LEFT").status = to
          BY <3>1 DEF Ended, Row
        <5> QED
          BY <5>2, <5>3
      <4>5. ASSUME NEW to, StaffSetsAppointment(g, to) PROVE entry'[g].status # "CALLED"
        BY <3>1, <4>1, <4>5 DEF StaffSetsAppointment, Row
      <4> QED
        BY <2>9, <4>2, <4>3, <4>4, <4>5
    <3> QED
      BY <1>1, <3>2, <3>3
  <2>10. ASSUME NEW g \in Entries, EntryStep(g) PROVE CallEntry(e)
    BY <2>4, <2>7, <2>9, <2>10, Zenon DEF EntryStep
  <2> QED
    BY <1>1, <2>3, <2>6, <2>8, <2>10 DEF Next
<1>2. IInv /\ [Next]_vars =>
        [\A e, f \in Entries :
          /\ entry[e].status = "WAITING" /\ entry'[e].status = "CALLED"
          /\ f \in Waiting(entry[e].day) /\ f \in Waiting(entry[e].day)' /\ Before(f, e)
          => CallEntry(e)]_vars
  BY <1>1
<1> QED
  BY <1>2, Invariant, PTL DEF Spec, OnlyStaffCallOutOfTurn

-----------------------------------------------------------------------------
(* Freed bays                                                              *)

\* Who is before somebody in today's line.
Ahead(g) == {h \in Waiting(day) : Before(h, g)}

LEMMA OrderIsFinite ==
    /\ Waiting(day) \subseteq Entries /\ IsFiniteSet(Waiting(day))
    /\ \A g : IsFiniteSet(Ahead(g)) /\ Cardinality(Ahead(g)) \in Nat
<1>1. Waiting(day) \subseteq Entries
  BY DEF Waiting, OfDay, Stored
<1>2. IsFiniteSet(Waiting(day))
  BY <1>1, QueueAssumption, FS_Subset
<1>3. \A g : Ahead(g) \subseteq Waiting(day)
  BY DEF Ahead
<1> QED
  BY <1>1, <1>2, <1>3, FS_Subset, FS_CardinalityType

\* Today's line is a strict order.
LEMMA LineIsOrdered ==
    ASSUME IInv
    PROVE  /\ \A e, f \in Waiting(day) : e = f \/ Before(e, f) \/ Before(f, e)
           /\ \A e, f, g \in Waiting(day) : Before(e, f) /\ Before(f, g) => Before(e, g)
           /\ \A e, f \in Waiting(day) : ~(Before(e, f) /\ Before(f, e))
<1>1. \A g \in Waiting(day) : entry[g].key \in Nat /\ entry[g].ticket \in Nat
  BY OrderIsFinite DEF IInv, TypeOK, Row
<1>2. \A e, f \in Waiting(day) : e # f => entry[e].key # entry[f].key
  BY DEF IInv, TypeOK, OrderIsStrict
<1> QED
  BY <1>1, <1>2 DEF Before

\* Somebody is first among any who wait today.
LEMMA SomebodyIsFirst ==
    ASSUME IInv, NEW S \in SUBSET Waiting(day), S # {}
    PROVE  \E m \in S : \A x \in S : x = m \/ Before(m, x)
<1> DEFINE keys == {entry[x].key : x \in S}
<1>1. \A g \in Waiting(day) : entry[g].key \in Nat
  BY OrderIsFinite DEF IInv, TypeOK, Row
<1>2. keys \in SUBSET Nat /\ keys # {}
  BY <1>1
<1>3. PICK k \in keys : \A u \in keys : k <= u
  <2> HIDE DEF keys
  <2> QED
    BY <1>2, LeastExists
<1>4. PICK m \in S : entry[m].key = k
  BY <1>3
<1>5. \A x \in S : entry[m].key <= entry[x].key
  BY <1>3, <1>4
<1>6. \A x \in S : x # m => entry[m].key # entry[x].key
  BY DEF IInv, TypeOK, OrderIsStrict
<1> QED
  BY <1>1, <1>5, <1>6 DEF Before

\* One more place is one more person.
LEMMA OneMoreInLine ==
    ASSUME IInv, NEW n \in Nat, NextInLine(n) # Waiting(day), Cardinality(NextInLine(n)) = n
    PROVE  Cardinality(NextInLine(n + 1)) = n + 1
<1>1. NextInLine(n) = {x \in Waiting(day) : Cardinality(Ahead(x)) < n}
      /\ NextInLine(n + 1) = {x \in Waiting(day) : Cardinality(Ahead(x)) < n + 1}
  BY DEF NextInLine, Ahead
<1> DEFINE S == Waiting(day) \ NextInLine(n)
<1>2. PICK m \in S : \A x \in S : x = m \/ Before(m, x)
  <2>1. S \in SUBSET Waiting(day) /\ S # {}
    BY <1>1
  <2> HIDE DEF S
  <2> QED
    BY <2>1, SomebodyIsFirst
<1>3. ASSUME NEW x \in NextInLine(n), NEW y \in S PROVE Before(x, y)
  <2>1. x \in Waiting(day) /\ y \in Waiting(day) /\ x # y
    BY <1>1, <1>3
  <2>2. CASE Before(y, x)
    <3>1. Ahead(y) \subseteq Ahead(x)
      BY <2>1, <2>2, LineIsOrdered DEF Ahead
    <3>2. Cardinality(Ahead(y)) <= Cardinality(Ahead(x))
      BY <3>1, OrderIsFinite, FS_Subset
    <3>3. Cardinality(Ahead(y)) \in Nat /\ Cardinality(Ahead(x)) \in Nat
      BY OrderIsFinite
    <3> QED
      BY <1>1, <1>3, <3>2, <3>3
  <2> QED
    BY <2>1, <2>2, LineIsOrdered
<1>4. Ahead(m) = NextInLine(n)
  <2>1. \A x \in Ahead(m) : x \notin S
    BY <1>2, LineIsOrdered DEF Ahead
  <2>2. NextInLine(n) \subseteq Ahead(m)
    BY <1>1, <1>2, <1>3 DEF Ahead
  <2> QED
    BY <2>1, <2>2 DEF Ahead
<1>5. m \in NextInLine(n + 1)
  BY <1>1, <1>2, <1>4
<1>6. \A x \in S : x \in NextInLine(n + 1) => x = m
  <2> SUFFICES ASSUME NEW x \in S, x # m PROVE x \notin NextInLine(n + 1)
    OBVIOUS
  <2>1. NextInLine(n) \cup {m} \subseteq Ahead(x)
    BY <1>1, <1>2, <1>3 DEF Ahead
  <2>2. Cardinality(NextInLine(n) \cup {m}) = n + 1
    <3>1. IsFiniteSet(NextInLine(n)) /\ m \notin NextInLine(n)
      BY <1>4, <1>2, OrderIsFinite
    <3>2. Cardinality(NextInLine(n) \cup {m}) = Cardinality(NextInLine(n)) + 1
      BY <3>1, FS_AddElement
    <3> QED
      BY <3>2
  <2>3. n + 1 <= Cardinality(Ahead(x)) /\ Cardinality(Ahead(x)) \in Nat
    BY <2>1, <2>2, OrderIsFinite, FS_Subset
  <2> QED
    BY <1>1, <2>3
<1>7. NextInLine(n) \subseteq NextInLine(n + 1)
  BY <1>1, OrderIsFinite
<1>8. NextInLine(n + 1) = NextInLine(n) \cup {m}
  BY <1>1, <1>5, <1>6, <1>7
<1>9. IsFiniteSet(NextInLine(n)) /\ m \notin NextInLine(n)
  BY <1>2, <1>4, OrderIsFinite
<1> QED
  BY <1>8, <1>9, FS_AddElement

\* The first n of the line are n people, or all of them if there are fewer.
LEMMA FirstInLine ==
    ASSUME IInv, NEW n \in Nat
    PROVE  \/ Cardinality(NextInLine(n)) = n
           \/ NextInLine(n) = Waiting(day) /\ Cardinality(Waiting(day)) <= n
<1> DEFINE full(k) == \/ Cardinality(NextInLine(k)) = k
                      \/ NextInLine(k) = Waiting(day) /\ Cardinality(Waiting(day)) <= k
           bad == {k \in Nat : ~full(k)}
<1> SUFFICES ASSUME bad # {} PROVE FALSE
  OBVIOUS
<1>1. PICK k \in bad : \A j \in bad : k <= j
  <2>1. bad \in SUBSET Nat
    OBVIOUS
  <2> HIDE DEF bad
  <2> QED
    BY <2>1, LeastExists
<1>2. k # 0
  <2>1. NextInLine(0) = {}
    BY OrderIsFinite DEF NextInLine, Ahead
  <2> QED
    BY <1>1, <2>1, FS_EmptySet
<1>3. k - 1 \in Nat /\ (k - 1) + 1 = k /\ full(k - 1)
  BY <1>1, <1>2
<1>4. NextInLine(k - 1) \subseteq NextInLine(k) /\ NextInLine(k) \subseteq Waiting(day)
  <2>1. \A j : NextInLine(j) = {x \in Waiting(day) : Cardinality(Ahead(x)) < j}
    BY DEF NextInLine, Ahead
  <2>2. k \in Nat /\ \A x : Cardinality(Ahead(x)) \in Nat
    BY OrderIsFinite
  <2> HIDE DEF bad
  <2>3. \A x : Cardinality(Ahead(x)) < k - 1 => Cardinality(Ahead(x)) < k
    BY <2>2
  <2> QED
    BY <2>1, <2>3
<1>5. Cardinality(Waiting(day)) \in Nat
  BY OrderIsFinite, FS_CardinalityType
<1>6. CASE NextInLine(k - 1) = Waiting(day)
  BY <1>1, <1>3, <1>4, <1>5, <1>6
<1>7. CASE NextInLine(k - 1) # Waiting(day)
  BY <1>1, <1>3, <1>7, OneMoreInLine
<1> QED
  BY <1>6, <1>7

\* An entry has a reason when it has ended.
EndsHaveReasons ==
    \A e \in Entries : entry[e].reason = "none" \/ entry[e].status \in {"CANCELLED", "NO_SHOW"}

\* A step that sweeps, with the request that ran it perhaps ...
Sweeping ==
    /\ day' = day
    /\ \A e \in Entries :
         \/ entry'[e] = Swept(e)
         \/ /\ entry[e].status = "NONE"
            /\ entry'[e].status = "JOINING" /\ entry'[e].reason = "none"

\* ... and one that does not: it times nobody out.
Quiet ==
    \A e \in Entries :
        \/ /\ entry'[e].reason = entry[e].reason
           /\ entry'[e].status = entry[e].status \/ entry[e].status \notin {"CANCELLED", "NO_SHOW"}
        \/ entry'[e].reason = "none"
        \/ entry'[e].reason = "LEFT" /\ entry'[e].status \in {"CANCELLED", "NO_SHOW"}

LEMMA OneRowQuiet ==
    ASSUME TypeOK, NEW e \in Entries,
           \/ Join(e) \/ RefuseJoin(e)
           \/ MarkCalled(e) /\ entry[e].status = "WAITING"
           \/ StartService(e) \/ CompleteService(e)
           \/ \E status \in {"NO_SHOW", "CANCELLED"} : Leave(e, status)
           \/ \E to \in AppointmentStatus \ {"none"} : StaffSetsAppointment(e, to)
           \/ CallLapses(e)
    PROVE  Quiet
<1>1. entry \in [Entries -> Row] /\ entry[e] \in Row
  BY DEF TypeOK
<1>2. ASSUME NEW r, entry' = [entry EXCEPT ![e] = r],
             \/ /\ r.reason = entry[e].reason
                /\ r.status = entry[e].status \/ entry[e].status \notin {"CANCELLED", "NO_SHOW"}
             \/ r.reason = "none"
             \/ r.reason = "LEFT" /\ r.status \in {"CANCELLED", "NO_SHOW"}
      PROVE  Quiet
  BY <1>1, <1>2 DEF Quiet
<1>3. CASE Join(e)
  <2> DEFINE r == [entry[e] EXCEPT !.status = "WAITING", !.ticket = NextTicket(entry[e].day),
                                   !.key = NextKey(entry[e].day)]
  <2>1. entry' = [entry EXCEPT ![e] = r] /\ entry[e].status = "JOINING"
    BY <1>1, <1>3 DEF Join
  <2>2. r.reason = entry[e].reason
    BY <1>1 DEF Row
  <2> HIDE DEF r
  <2> QED
    BY <1>2, <2>1, <2>2
<1>4. CASE RefuseJoin(e)
  BY <1>2, <1>4 DEF RefuseJoin, NoRow, NewRow
<1>5. CASE MarkCalled(e) /\ entry[e].status = "WAITING"
  <2>1. Called(e).reason = entry[e].reason
    BY <1>1 DEF Called, Row
  <2> QED
    BY <1>2, <1>5, <2>1 DEF MarkCalled
<1>6. CASE StartService(e)
  <2> DEFINE r == [entry[e] EXCEPT !.status = "IN_SERVICE", !.lapsed = FALSE, !.appt = "IN_PROGRESS"]
  <2>1. entry' = [entry EXCEPT ![e] = r] /\ entry[e].status \in {"WAITING", "CALLED"}
    BY <1>1, <1>6 DEF StartService
  <2>2. r.reason = entry[e].reason
    BY <1>1 DEF Row
  <2> HIDE DEF r
  <2> QED
    BY <1>2, <2>1, <2>2
<1>7. CASE CompleteService(e)
  <2> DEFINE r == [entry[e] EXCEPT !.status = "DONE", !.appt = "COMPLETED"]
  <2>1. entry' = [entry EXCEPT ![e] = r] /\ entry[e].status = "IN_SERVICE"
    BY <1>1, <1>7 DEF CompleteService
  <2>2. r.reason = entry[e].reason
    BY <1>1 DEF Row
  <2> HIDE DEF r
  <2> QED
    BY <1>2, <2>1, <2>2
<1>8. ASSUME NEW status \in {"NO_SHOW", "CANCELLED"}, Leave(e, status) PROVE Quiet
  <2>1. Ended(e, status, "LEFT").reason = "LEFT" /\ Ended(e, status, "LEFT").status = status
    BY <1>1 DEF Ended, Row
  <2> QED
    BY <1>2, <1>8, <2>1 DEF Leave
<1>9. ASSUME NEW to, StaffSetsAppointment(e, to) PROVE Quiet
  <2> DEFINE r == [entry[e] EXCEPT !.appt = to]
  <2>1. entry' = [entry EXCEPT ![e] = r]
    BY <1>1, <1>9 DEF StaffSetsAppointment
  <2>2. r.reason = entry[e].reason /\ r.status = entry[e].status
    BY <1>1 DEF Row
  <2> HIDE DEF r
  <2> QED
    BY <1>2, <2>1, <2>2
<1>10. CASE CallLapses(e)
  <2> DEFINE r == [entry[e] EXCEPT !.lapsed = TRUE]
  <2>1. entry' = [entry EXCEPT ![e] = r]
    BY <1>1, <1>10 DEF CallLapses
  <2>2. r.reason = entry[e].reason /\ r.status = entry[e].status
    BY <1>1 DEF Row
  <2> HIDE DEF r
  <2> QED
    BY <1>2, <2>1, <2>2
<1> QED
  BY <1>3, <1>4, <1>5, <1>6, <1>7, <1>8, <1>9, <1>10

LEMMA SweepingOrQuiet ==
    ASSUME TypeOK, [Next]_vars
    PROVE  Sweeping \/ Quiet
<1>1. CASE SweepQueue
  BY <1>1 DEF SweepQueue, Sweeping
<1>2. ASSUME NEW e \in Entries, NEW phone, BeginJoin(e, phone) PROVE Sweeping
  BY <1>2 DEF BeginJoin, Sweeping, NewRow
<1>3. CASE CallNext
  <2>1. PICK e \in NextInLine(1) : MarkCalled(e)
    BY <1>3 DEF CallNext
  <2>2. e \in Entries /\ entry[e].status = "WAITING"
    BY DEF NextInLine, Waiting, OfDay, Stored
  <2> QED
    BY <2>1, <2>2, OneRowQuiet
<1>4. ASSUME NEW listed, ReorderWaiting(listed) PROVE Quiet
  <2> SUFFICES ASSUME NEW e \in Entries
               PROVE  entry'[e].reason = entry[e].reason /\ entry'[e].status = entry[e].status
    BY DEF Quiet
  <2>1. PICK k : entry'[e] = [entry[e] EXCEPT !.key = k] \/ entry'[e] = entry[e]
    BY <1>4 DEF ReorderWaiting
  <2>2. entry[e] \in Row
    BY DEF TypeOK
  <2> QED
    BY <2>1, <2>2 DEF Row
<1>5. CASE SetOpen \/ SetTimeout \/ DayEnds \/ UNCHANGED vars
  BY <1>5 DEF SetOpen, SetTimeout, DayEnds, vars, Quiet
<1>6. ASSUME NEW e \in Entries, EntryStep(e) PROVE Sweeping \/ Quiet
  <2>1. CASE CallEntry(e)
    BY <2>1, OneRowQuiet DEF CallEntry
  <2>2. CASE MarkNoShow(e) \/ CancelEntry(e)
    <3>1. \E status \in {"NO_SHOW", "CANCELLED"} : Leave(e, status)
      BY <2>2 DEF MarkNoShow, CancelEntry
    <3> QED
      BY <3>1, OneRowQuiet
  <2>3. CASE Join(e) \/ RefuseJoin(e) \/ CallLapses(e)
    BY <2>3, OneRowQuiet
  <2>4. CASE StartService(e) \/ CompleteService(e)
    BY <2>4, OneRowQuiet
  <2>5. CASE \E to \in AppointmentStatus \ {"none"} : StaffSetsAppointment(e, to)
    BY <2>5, OneRowQuiet
  <2> QED
    BY <1>2, <1>6, <2>1, <2>2, <2>3, <2>4, <2>5, Zenon DEF EntryStep
<1> QED
  BY <1>1, <1>3, <1>4, <1>5, <1>6 DEF Next

\* What a sweep makes of a row.
LEMMA SweptReason ==
    ASSUME TypeOK, NEW e \in Entries
    PROVE  /\ e \in TimedOut => /\ e \notin Stale /\ entry[e].status = "CALLED"
                                /\ Swept(e).reason = "CALL_TIMEOUT" /\ Swept(e).status = "NO_SHOW"
           /\ e \in SweptToCall => /\ e \notin Stale /\ e \notin TimedOut
                                   /\ Swept(e).reason = entry[e].reason
                                   /\ Swept(e).status = "CALLED"
           /\ e \in Stale => Swept(e).reason = "DAY_ENDED" /\ Swept(e).status = "CANCELLED"
           /\ e \notin Stale /\ e \notin TimedOut /\ e \notin SweptToCall => Swept(e) = entry[e]
<1>1. entry[e] \in Row /\ day \in Nat
  BY QueueAssumption DEF TypeOK
<1>2. e \in TimedOut => e \notin Stale /\ entry[e].status = "CALLED"
  BY <1>1 DEF TimedOut, Stale, OfDay
<1>3. e \in SweptToCall => e \notin Stale /\ e \notin TimedOut
  BY <1>1 DEF SweptToCall, NextInLine, Waiting, TimedOut, Stale, OfDay
<1>4. CASE e \in Stale
  BY <1>1, <1>2, <1>3, <1>4 DEF Swept, Ended, Row
<1>5. CASE e \in TimedOut
  BY <1>1, <1>2, <1>3, <1>5 DEF Swept, Ended, Row
<1>6. CASE e \in SweptToCall
  BY <1>1, <1>3, <1>6 DEF Swept, Called, Row
<1>7. CASE e \notin Stale /\ e \notin TimedOut /\ e \notin SweptToCall
  BY <1>7 DEF Swept
<1> QED
  BY <1>2, <1>3, <1>4, <1>5, <1>6, <1>7

\* A sweep that skips n people calls the first n of the line, or all of it.
LEMMA SweepingOffers ==
    ASSUME IInv, EndsHaveReasons, Sweeping
    PROVE  /\ Cardinality(NewlyCalled) <= Cardinality(NewlyOut)
           /\ Cardinality(NewlyCalled) = Cardinality(NewlyOut) \/ Waiting(day)' = {}
<1>1. NewlyOut = TimedOut
  <2>1. \A e \in Entries : e \in TimedOut => e \in NewlyOut
    <3> SUFFICES ASSUME NEW e \in Entries, e \in TimedOut PROVE e \in NewlyOut
      OBVIOUS
    <3>1. entry[e].status = "CALLED" /\ Swept(e).reason = "CALL_TIMEOUT"
      BY SweptReason DEF IInv
    <3>2. entry'[e] = Swept(e)
      BY <3>1 DEF Sweeping
    <3> QED
      BY <3>1, <3>2 DEF NewlyOut, EndsHaveReasons
  <2>2. \A e \in NewlyOut : e \in TimedOut
    BY SweptReason DEF NewlyOut, Sweeping, IInv, SweptToCall, NextInLine, Waiting
  <2>3. TimedOut \subseteq Entries
    BY DEF TimedOut, OfDay, Stored
  <2> QED
    BY <2>1, <2>2, <2>3 DEF NewlyOut
<1>2. NewlyCalled = SweptToCall
  <2>1. SweptToCall \subseteq Entries /\ \A e \in SweptToCall : entry[e].status = "WAITING"
    BY DEF SweptToCall, NextInLine, Waiting, OfDay, Stored
  <2>2. SweptToCall \subseteq NewlyCalled
    BY <2>1, SweptReason DEF NewlyCalled, Sweeping, IInv
  <2>3. NewlyCalled \subseteq SweptToCall
    BY SweptReason DEF NewlyCalled, Sweeping, IInv
  <2> QED
    BY <2>2, <2>3
<1>3. IsFiniteSet(TimedOut) /\ Cardinality(TimedOut) \in Nat
  <2>1. TimedOut \subseteq Entries
    BY DEF TimedOut, OfDay, Stored
  <2> QED
    BY <2>1, QueueAssumption, FS_Subset, FS_CardinalityType
<1>4. CASE Cardinality(SweptToCall) = Cardinality(TimedOut)
  BY <1>1, <1>2, <1>3, <1>4
<1>5. CASE SweptToCall = Waiting(day) /\ Cardinality(SweptToCall) # Cardinality(TimedOut)
  <2>1. Waiting(day)' = {}
    <3> SUFFICES ASSUME NEW e \in Entries, entry'[e].status = "WAITING", entry'[e].day = day
                 PROVE  FALSE
      BY DEF Waiting, OfDay, Stored, Sweeping
    <3>1. entry'[e] = Swept(e)
      BY DEF Sweeping
    <3>2. Swept(e) = entry[e]
      BY <3>1, SweptReason DEF IInv
    <3>3. e \in Waiting(day)
      BY <3>1, <3>2 DEF Waiting, OfDay, Stored
    <3> QED
      BY <1>5, <3>1, <3>3, SweptReason DEF IInv
  <2>2. Cardinality(Waiting(day)) <= Cardinality(TimedOut)
    BY <1>3, <1>5, FirstInLine DEF SweptToCall
  <2> QED
    BY <1>1, <1>2, <1>5, <2>1, <2>2
<1> QED
  BY <1>3, <1>4, <1>5, FirstInLine DEF SweptToCall

\* An entry keeps "no reason" until it ends.
LEMMA ReasonsStand ==
    ASSUME IInv, EndsHaveReasons, [Next]_vars
    PROVE  EndsHaveReasons'
<1>1. CASE Quiet
  BY <1>1 DEF Quiet, EndsHaveReasons
<1>2. CASE Sweeping
  <2> SUFFICES ASSUME NEW e \in Entries
               PROVE  entry'[e].reason = "none" \/ entry'[e].status \in {"CANCELLED", "NO_SHOW"}
    BY DEF EndsHaveReasons
  <2>1. CASE entry'[e] = Swept(e)
    <3>1. e \in SweptToCall => entry[e].status = "WAITING"
      BY DEF SweptToCall, NextInLine, Waiting
    <3> QED
      BY <2>1, <3>1, SweptReason DEF IInv, EndsHaveReasons
  <2>2. CASE entry'[e] # Swept(e)
    BY <1>2, <2>2 DEF Sweeping
  <2> QED
    BY <2>1, <2>2
<1> QED
  BY <1>1, <1>2, SweepingOrQuiet DEF IInv

\* Each call that times out hands its bay to the next in line, for any queue
\* and any number of calls that time out at once.
THEOREM EveryFreedBayIsOffered == Spec => FreedBaysAreOffered
<1>1. Init => EndsHaveReasons
  BY DEF Init, EndsHaveReasons, NoRow, NewRow
<1>2. IInv /\ EndsHaveReasons /\ [Next]_vars => EndsHaveReasons'
  BY ReasonsStand
<1>3. IInv /\ EndsHaveReasons /\ [Next]_vars =>
        [NewlyOut # {} =>
          /\ Cardinality(NewlyCalled) <= Cardinality(NewlyOut)
          /\ Cardinality(NewlyCalled) = Cardinality(NewlyOut) \/ Waiting(day)' = {}]_vars
  <2> SUFFICES ASSUME IInv, EndsHaveReasons, [Next]_vars, NewlyOut # {}
               PROVE  /\ Cardinality(NewlyCalled) <= Cardinality(NewlyOut)
                      /\ Cardinality(NewlyCalled) = Cardinality(NewlyOut) \/ Waiting(day)' = {}
    OBVIOUS
  <2>1. ~Quiet
    BY DEF Quiet, NewlyOut
  <2> QED
    BY <2>1, SweepingOrQuiet, SweepingOffers DEF IInv
<1> QED
  BY <1>1, <1>2, <1>3, Invariant, PTL DEF Spec, FreedBaysAreOffered

-----------------------------------------------------------------------------
(* The queue implements WalkInPromise                                      *)

\* What is seen of a row tells who waits, who is called and who is in the queue at all.
LEMMA StageIs ==
    ASSUME TypeOK
    PROVE  \A e \in Entries :
               /\ Stage[e] = "waiting" <=> entry[e].status = "WAITING"
               /\ Stage[e] = "called" <=> entry[e].status = "CALLED"
               /\ Stage[e] = "out" <=> e \notin Stored
               /\ e \in Stored => LineOf[e] = entry[e].day
<1> SUFFICES ASSUME NEW e \in Entries
             PROVE  /\ Stage[e] = "waiting" <=> entry[e].status = "WAITING"
                    /\ Stage[e] = "called" <=> entry[e].status = "CALLED"
                    /\ Stage[e] = "out" <=> e \notin Stored
                    /\ e \in Stored => LineOf[e] = entry[e].day
  OBVIOUS
<1>1. entry[e].status \in Status /\ Stage[e] = Seen(entry[e].status)
  BY DEF TypeOK, Row, Stage
<1>2. e \in Stored <=> entry[e].status \notin {"NONE", "JOINING"}
  BY DEF Stored
<1>3. \A s \in Status : /\ Seen(s) = "waiting" <=> s = "WAITING"
                        /\ Seen(s) = "called" <=> s = "CALLED"
                        /\ Seen(s) = "out" <=> s \in {"NONE", "JOINING"}
  BY DEF Seen, Status
<1> QED
  BY <1>1, <1>2, <1>3 DEF LineOf

LEMMA WhoWaits == TypeOK => \A f \in Entries : /\ Stage[f] = "waiting" <=> entry[f].status = "WAITING"
                                               /\ Stage[f] = "out" <=> f \notin Stored
  BY StageIs

\* The pairs of Order, without the tuples.
LEMMA OrderIs ==
    \A p, q : <<p, q>> \in Order <=> /\ p \in Entries /\ q \in Entries
                                     /\ entry[p].status = "WAITING" /\ entry[q].status = "WAITING"
                                     /\ entry[p].day = entry[q].day /\ Before(p, q)
<1> SUFFICES ASSUME NEW p, NEW q
             PROVE  <<p, q>> \in Order <=> /\ p \in Entries /\ q \in Entries
                                          /\ entry[p].status = "WAITING" /\ entry[q].status = "WAITING"
                                          /\ entry[p].day = entry[q].day /\ Before(p, q)
  OBVIOUS
<1>1. PICK x : x = <<p, q>>
  OBVIOUS
<1>2. x[1] = p /\ x[2] = q /\ (x \in Entries \X Entries <=> p \in Entries /\ q \in Entries)
  BY <1>1
<1>3. x \in Order <=> /\ x \in Entries \X Entries
                     /\ entry[x[1]].status = "WAITING" /\ entry[x[2]].status = "WAITING"
                     /\ entry[x[1]].day = entry[x[2]].day /\ Before(x[1], x[2])
  BY DEF Order
<1> QED
  BY <1>1, <1>2, <1>3

LEMMA PromiseCardinality == ASSUME NEW S PROVE Promise!Cardinality(S) = Cardinality(S)
  BY DEF Promise!Cardinality, Cardinality

\* The lines, the first in line and the leftovers of the promise are those of the rows.
LEMMA LinesAre ==
    ASSUME TypeOK
    PROVE  /\ \A d : Promise!Line(d) = Waiting(d)
           /\ \A n : Promise!First(n) = NextInLine(n)
           /\ Promise!Over = Stale
<1>1. \A d : Promise!Line(d) = Waiting(d)
  BY StageIs DEF Promise!Line, Waiting, OfDay, Stored
<1>2. ASSUME NEW n PROVE Promise!First(n) = NextInLine(n)
  <2>1. ASSUME NEW p \in Waiting(day)
        PROVE  {q \in Waiting(day) : <<q, p>> \in Order} = {f \in Waiting(day) : Before(f, p)}
    BY OrderIs DEF Waiting, OfDay, Stored
  <2>2. Promise!First(n) = {p \in Waiting(day) : Cardinality({q \in Waiting(day) : <<q, p>> \in Order}) < n}
    <3>1. Promise!Line(day) = Waiting(day)
      BY <1>1
    <3>2. \A S : Promise!Cardinality(S) = Cardinality(S)
      BY PromiseCardinality
    <3>3. Promise!First(n) = {p \in Waiting(day) :
                                Promise!Cardinality({q \in Waiting(day) : <<q, p>> \in Order}) < n}
      BY <3>1, Zenon DEF Promise!First
    <3> QED
      BY <3>2, <3>3
  <2>3. NextInLine(n) = {p \in Waiting(day) : Cardinality({f \in Waiting(day) : Before(f, p)}) < n}
    BY DEF NextInLine
  <2> QED
    BY <2>1, <2>2, <2>3, Zenon
<1>3. Promise!Over = Stale
  BY StageIs DEF Promise!Over, Stale, Stored
<1> QED
  BY <1>1, <1>2, <1>3

\* A step that moves nobody keeps the pairs of those who still wait.
LEMMA OrderKept ==
    ASSUME KeepsOrder
    PROVE  Order' = {x \in Order : entry'[x[1]].status = "WAITING" /\ entry'[x[2]].status = "WAITING"}
<1>0. (\A p, q : <<p, q>> \in Order <=> /\ p \in Entries /\ q \in Entries
                                        /\ entry[p].status = "WAITING" /\ entry[q].status = "WAITING"
                                        /\ entry[p].day = entry[q].day /\ Before(p, q))'
  BY OrderIs, PTL
<1>1. ASSUME NEW p, NEW q
      PROVE  <<p, q>> \in Order' <=> /\ <<p, q>> \in Order
                                     /\ entry'[p].status = "WAITING" /\ entry'[q].status = "WAITING"
  <2>1. ASSUME NEW e \in Entries, entry'[e].status = "WAITING"
        PROVE  /\ entry[e].status = "WAITING" /\ entry'[e].key = entry[e].key
               /\ entry'[e].day = entry[e].day /\ entry'[e].ticket = entry[e].ticket
    BY <2>1 DEF KeepsOrder, Stored
  <2>2. <<p, q>> \in Order' <=> /\ p \in Entries /\ q \in Entries
                                /\ entry'[p].status = "WAITING" /\ entry'[q].status = "WAITING"
                                /\ entry'[p].day = entry'[q].day /\ Before(p, q)'
    BY <1>0
  <2>3. ASSUME p \in Entries, q \in Entries,
               entry'[p].status = "WAITING", entry'[q].status = "WAITING"
        PROVE  /\ entry'[p].day = entry'[q].day <=> entry[p].day = entry[q].day
               /\ Before(p, q)' <=> Before(p, q)
    BY <2>1, <2>3 DEF Before
  <2> QED
    BY <2>1, <2>2, <2>3, OrderIs
<1>2. \A x \in Order \union Order' : x = <<x[1], x[2]>>
  <2>1. Order \subseteq Entries \X Entries /\ Order' \subseteq Entries \X Entries
    BY DEF Order
  <2> QED
    BY <2>1
<1> QED
  BY <1>1, <1>2

\* Nobody stands in the line of a day that has not come.
InTime == \A e \in Entries : entry[e].status # "NONE" => entry[e].day \in 1..day

\* A row that leaves the line takes its pairs with it.
LEMMA RowGoes ==
    ASSUME TypeOK, TypeOK', KeepsOrder, NEW e \in Entries, entry[e].status \in {"WAITING", "CALLED"},
           entry'[e].status \notin {"NONE", "JOINING", "WAITING"}, day' = day,
           \A f \in Entries \ {e} : entry'[f] = entry[f]
    PROVE  Promise!Goes(e, Seen(entry'[e].status))
<1>1. Stage' = [Stage EXCEPT ![e] = Seen(entry'[e].status)]
  BY DEF Stage
<1>2. LineOf' = LineOf
  <2>1. e \in Stored /\ e \in Stored' /\ entry'[e].day = entry[e].day
    BY DEF Stored, KeepsOrder
  <2>2. Stored' = Stored
    BY <2>1 DEF Stored
  <2> QED
    BY <2>1, <2>2 DEF LineOf
<1>3. Order' = Promise!Without({e})
  <2>1. \A x \in Order : /\ entry'[x[1]].status = "WAITING" <=> x[1] # e
                         /\ entry'[x[2]].status = "WAITING" <=> x[2] # e
    BY DEF Order
  <2> QED
    BY <2>1, OrderKept DEF Promise!Without
<1> QED
  BY <1>1, <1>2, <1>3 DEF Promise!Goes

\* A step that is not seen from the waiting room.
LEMMA RowsHidden ==
    ASSUME TypeOK, TypeOK', KeepsOrder, day' = day,
           \A f \in Entries : Seen(entry'[f].status) = Seen(entry[f].status)
    PROVE  UNCHANGED <<Stage, LineOf, Order, day>>
<1>1. Stage' = Stage
  BY DEF Stage
<1>2. /\ \A f \in Entries : /\ Stage[f] = "waiting" <=> entry[f].status = "WAITING"
                            /\ Stage[f] = "out" <=> f \notin Stored
      /\ (\A f \in Entries : /\ Stage[f] = "waiting" <=> entry[f].status = "WAITING"
                             /\ Stage[f] = "out" <=> f \notin Stored)'
  <2>1. TypeOK' => (\A f \in Entries : /\ Stage[f] = "waiting" <=> entry[f].status = "WAITING"
                                       /\ Stage[f] = "out" <=> f \notin Stored)'
    BY WhoWaits, PTL
  <2> QED
    BY <2>1, WhoWaits
<1>3. Stored' = Stored
  BY <1>1, <1>2 DEF Stored
<1>4. LineOf' = LineOf
  BY <1>3 DEF LineOf, KeepsOrder
<1>5. Order' = Order
  <2>1. \A x \in Order : entry'[x[1]].status = "WAITING" /\ entry'[x[2]].status = "WAITING"
    <3>1. \A f \in Entries : entry[f].status = "WAITING" => entry'[f].status = "WAITING"
      BY <1>1, <1>2
    <3> QED
      BY <3>1 DEF Order
  <2> QED
    BY <2>1, OrderKept
<1> QED
  BY <1>1, <1>4, <1>5

\* A sweep, alone or of a request that joins: the calls that timed out are late.
LEMMA SweepKeeps ==
    ASSUME IInv, IInv', KeepsOrder, day' = day,
           \A f \in Entries : \/ entry'[f] = Swept(f)
                              \/ entry'[f].status = "JOINING" /\ entry[f].status = "NONE"
    PROVE  Promise!Sweep
<1> DEFINE late == TimedOut
           next == Promise!First(Promise!Cardinality(TimedOut))
<1>1. TypeOK /\ TypeOK'
  BY DEF IInv
<1>2. next = SweptToCall /\ Promise!Over = Stale
  BY <1>1, LinesAre, PromiseCardinality DEF SweptToCall
<1>3. late \in SUBSET {p \in Entries : Stage[p] = "called" /\ LineOf[p] = day}
  BY <1>1, StageIs DEF TimedOut, OfDay, Stored
<1>4. /\ \A f \in Stale : entry[f].status \in {"WAITING", "CALLED"} /\ entry[f].day < day
      /\ \A f \in late : entry[f].status = "CALLED" /\ entry[f].day = day
      /\ \A f \in SweptToCall : entry[f].status = "WAITING" /\ entry[f].day = day
  BY DEF Stale, TimedOut, SweptToCall, NextInLine, Waiting, OfDay
<1>5. ASSUME NEW f \in Entries
      PROVE  Seen(entry'[f].status) = IF f \in Stale \union late THEN "gone"
                                      ELSE IF f \in SweptToCall THEN "called" ELSE Stage[f]
  <2>1. entry[f] \in Row /\ Stage[f] = Seen(entry[f].status)
    BY <1>1 DEF TypeOK, Stage
  <2>2. CASE entry'[f].status = "JOINING" /\ entry[f].status = "NONE"
    BY <1>4, <2>1, <2>2 DEF Seen
  <2>3. CASE entry'[f] = Swept(f) /\ f \in Stale
    <3>1. f \notin late /\ f \notin SweptToCall
      BY <1>1, <1>4, <2>3, QueueAssumption DEF TypeOK
    <3>2. Swept(f) = Ended(f, "CANCELLED", "DAY_ENDED")
      BY <2>3, <3>1 DEF Swept
    <3> QED
      BY <2>1, <2>3, <3>2 DEF Ended, Row, Seen
  <2>4. CASE entry'[f] = Swept(f) /\ f \notin Stale /\ f \in late
    <3>1. f \notin SweptToCall
      BY <1>4, <2>4
    <3>2. Swept(f) = Ended(f, "NO_SHOW", "CALL_TIMEOUT")
      BY <2>4, <3>1 DEF Swept
    <3> QED
      BY <2>1, <2>4, <3>2 DEF Ended, Row, Seen
  <2>5. CASE entry'[f] = Swept(f) /\ f \notin Stale /\ f \notin late /\ f \in SweptToCall
    BY <2>1, <2>5 DEF Swept, Called, Row, Seen
  <2>6. CASE entry'[f] = Swept(f) /\ f \notin Stale /\ f \notin late /\ f \notin SweptToCall
    <3>1. entry'[f] = entry[f]
      BY <2>6 DEF Swept
    <3> QED
      BY <2>1, <2>6, <3>1
  <2> QED
    BY <2>2, <2>3, <2>4, <2>5, <2>6
<1>6. Stage' = [f \in Entries |-> IF f \in Stale \union late THEN "gone"
                                  ELSE IF f \in SweptToCall THEN "called" ELSE Stage[f]]
  BY <1>5, Zenon DEF Stage
<1>7. LineOf' = LineOf
  <2>1. ASSUME NEW f \in Entries PROVE f \in Stored' <=> f \in Stored
    <3>1. CASE entry'[f] = Swept(f)
      BY <1>1, <3>1, SweptRow DEF Stored
    <3>2. CASE entry'[f].status = "JOINING" /\ entry[f].status = "NONE"
      BY <3>2 DEF Stored
    <3> QED
      BY <3>1, <3>2
  <2>2. Stored' = Stored
    BY <2>1 DEF Stored
  <2> QED
    BY <2>2 DEF LineOf, KeepsOrder
<1>8. Order' = Promise!Without(Stale \union SweptToCall)
  <2>1. ASSUME NEW f \in Entries, entry[f].status = "WAITING"
        PROVE  entry'[f].status = "WAITING" <=> f \notin Stale \union SweptToCall
    <3>1. Stage[f] = "waiting" /\ f \notin late
      BY <1>1, <1>4, <2>1, StageIs
    <3>2. Seen(entry'[f].status) = "waiting" <=> f \notin Stale \union SweptToCall
      BY <1>5, <3>1
    <3>3. entry'[f].status \in Status
      BY <1>1 DEF TypeOK, Row
    <3> QED
      BY <3>2, <3>3 DEF Seen, Status
  <2>2. \A x \in Order : /\ entry'[x[1]].status = "WAITING" <=> x[1] \notin Stale \union SweptToCall
                         /\ entry'[x[2]].status = "WAITING" <=> x[2] \notin Stale \union SweptToCall
    BY <2>1 DEF Order
  <2> QED
    BY <2>2, OrderKept DEF Promise!Without
<1> HIDE DEF late, next
<1>9. /\ late = TimedOut /\ next = Promise!First(Promise!Cardinality(late))
  BY DEF late, next
<1> QED
  BY <1>2, <1>3, <1>6, <1>7, <1>8, <1>9, Zenon DEF Promise!Sweep

\* A row keeps its day from the moment its request reads the clock.
LEMMA RowKeepsDay ==
    ASSUME IInv, [Next]_vars, NEW f \in Entries, entry'[f].status # "NONE"
    PROVE  \/ entry'[f].day = day
           \/ entry'[f].day = entry[f].day /\ entry[f].status # "NONE"
<1>1. entry \in [Entries -> Row] /\ entry[f] \in Row
  BY DEF IInv, TypeOK
<1>2. CASE entry'[f] = Swept(f)
  <2>1. Swept(f).day = entry[f].day /\ (Swept(f).status # "NONE" => entry[f].status # "NONE")
    BY SweptRow DEF IInv
  <2> QED
    BY <1>2, <2>1
<1>3. CASE entry'[f] = entry[f]
  BY <1>3
<1>4. CASE SweepQueue \/ SetOpen \/ SetTimeout \/ DayEnds \/ UNCHANGED vars
  BY <1>2, <1>3, <1>4 DEF SweepQueue, SetOpen, SetTimeout, DayEnds, vars
<1>5. CASE CallNext
  <2>1. PICK g \in NextInLine(1) : MarkCalled(g)
    BY <1>5 DEF CallNext
  <2>2. entry[g].status = "WAITING"
    BY DEF NextInLine, Waiting
  <2>3. CASE g = f
    BY <1>1, <2>1, <2>2, <2>3 DEF MarkCalled, Called, Row
  <2>4. CASE g # f
    BY <1>1, <1>3, <2>1, <2>4 DEF MarkCalled
  <2> QED
    BY <2>3, <2>4
<1>6. ASSUME NEW listed, ReorderWaiting(listed) PROVE entry'[f].day = entry[f].day /\ entry[f].status # "NONE"
  <2>1. PICK k : entry'[f] = [entry[f] EXCEPT !.key = k] \/ entry'[f] = entry[f]
    BY <1>6 DEF ReorderWaiting
  <2> QED
    BY <1>1, <2>1 DEF Row
<1>7. ASSUME NEW e \in Entries, EntryStep(e)
      PROVE  \/ entry'[f].day = day
             \/ entry'[f].day = entry[f].day /\ entry[f].status # "NONE"
  <2>1. ASSUME NEW phone, BeginJoin(e, phone)
        PROVE  \/ entry'[f].day = day
               \/ entry'[f].day = entry[f].day /\ entry[f].status # "NONE"
    <3>1. entry'[f] = IF f = e THEN NewRow("JOINING", day, phone) ELSE Swept(f)
      BY <2>1 DEF BeginJoin
    <3>2. NewRow("JOINING", day, phone).day = day
      BY DEF NewRow
    <3> QED
      BY <1>2, <3>1, <3>2
  <2>2. ASSUME NEW r, entry' = [entry EXCEPT ![e] = r],
               r.status = "NONE" \/ (r.day = entry[e].day /\ entry[e].status # "NONE")
        PROVE  entry'[f].day = entry[f].day /\ entry[f].status # "NONE"
    BY <1>1, <2>2
  <2>3. entry[e] \in Row
    BY <1>1
  <2>4. CASE Join(e)
    <3>1. PICK t, k : entry' = [entry EXCEPT ![e] = [entry[e] EXCEPT !.status = "WAITING", !.ticket = t, !.key = k]]
      BY <1>1, <2>4 DEF Join
    <3> QED
      BY <2>2, <2>3, <2>4, <3>1 DEF Join, Row
  <2>5. CASE RefuseJoin(e)
    <3>1. NoRow.status = "NONE"
      BY DEF NoRow, NewRow
    <3> QED
      BY <2>2, <2>5, <3>1 DEF RefuseJoin
  <2>6. CASE CallEntry(e)
    BY <2>2, <2>3, <2>6 DEF CallEntry, MarkCalled, Called, Row
  <2>7. CASE StartService(e) \/ CompleteService(e)
    <3>1. PICK r : entry' = [entry EXCEPT ![e] = r] /\ r.day = entry[e].day /\ entry[e].status # "NONE"
      <4>1. CASE StartService(e)
        <5>1. entry' = [entry EXCEPT ![e] = [entry[e] EXCEPT !.status = "IN_SERVICE", !.lapsed = FALSE,
                                                              !.appt = "IN_PROGRESS"]]
          BY <1>1, <4>1 DEF StartService
        <5> QED
          BY <2>3, <4>1, <5>1 DEF StartService, Row
      <4>2. CASE CompleteService(e)
        <5>1. entry' = [entry EXCEPT ![e] = [entry[e] EXCEPT !.status = "DONE", !.appt = "COMPLETED"]]
          BY <1>1, <4>2 DEF CompleteService
        <5> QED
          BY <2>3, <4>2, <5>1 DEF CompleteService, Row
      <4> QED
        BY <2>7, <4>1, <4>2
    <3> QED
      BY <2>2, <3>1
  <2>8. CASE MarkNoShow(e) \/ CancelEntry(e)
    <3>1. PICK to : Leave(e, to)
      BY <2>8 DEF MarkNoShow, CancelEntry
    <3>2. Ended(e, to, "LEFT").day = entry[e].day
      BY <2>3 DEF Ended, Row
    <3> QED
      BY <2>2, <3>1, <3>2 DEF Leave
  <2>9. ASSUME NEW to, StaffSetsAppointment(e, to) PROVE entry'[f].day = entry[f].day /\ entry[f].status # "NONE"
    <3>1. entry' = [entry EXCEPT ![e] = [entry[e] EXCEPT !.appt = to]]
      BY <1>1, <2>9 DEF StaffSetsAppointment
    <3>2. entry[e].status # "NONE"
      BY <2>9 DEF StaffSetsAppointment, IInv, ServedMeansAppointment
    <3> QED
      BY <2>2, <2>3, <3>1, <3>2 DEF Row
  <2>10. CASE CallLapses(e)
    <3>1. entry' = [entry EXCEPT ![e] = [entry[e] EXCEPT !.lapsed = TRUE]]
      BY <1>1, <2>10 DEF CallLapses
    <3> QED
      BY <2>2, <2>3, <2>10, <3>1 DEF CallLapses, Row
  <2> QED
    BY <1>7, <2>1, <2>4, <2>5, <2>6, <2>7, <2>8, <2>9, <2>10, Zenon DEF EntryStep
<1> QED
  BY <1>4, <1>5, <1>6, <1>7 DEF Next

\* The day only moves on.
LEMMA DayMovesOn == ASSUME IInv, [Next]_vars PROVE day \in Nat /\ (day' = day \/ day' = day + 1)
<1>1. day \in Nat
  BY QueueAssumption DEF IInv, TypeOK
<1>2. CASE \E listed \in SUBSET Entries : ReorderWaiting(listed)
  BY <1>1, <1>2 DEF ReorderWaiting
<1>3. CASE SweepQueue \/ CallNext \/ SetOpen \/ SetTimeout \/ DayEnds \/ UNCHANGED vars
  BY <1>1, <1>3 DEF SweepQueue, CallNext, MarkCalled, SetOpen, SetTimeout, DayEnds, vars
<1>4. ASSUME NEW e \in Entries, EntryStep(e) PROVE day' = day
  BY <1>4 DEF EntryStep, BeginJoin, Join, RefuseJoin, CallEntry, MarkCalled, StartService,
     CompleteService, MarkNoShow, CancelEntry, Leave, StaffSetsAppointment, CallLapses
<1> QED
  BY <1>1, <1>2, <1>3, <1>4 DEF Next

LEMMA InTimeKept == ASSUME IInv, InTime, [Next]_vars PROVE InTime'
<1>1. day \in Nat /\ day \in 1..LastDay /\ (day' = day \/ day' = day + 1)
  BY DayMovesOn DEF IInv, TypeOK
<1>2. ASSUME NEW f \in Entries, entry'[f].status # "NONE" PROVE entry'[f].day \in 1..day
  <2>1. entry'[f].day = day \/ (entry'[f].day = entry[f].day /\ entry[f].status # "NONE")
    BY <1>2, RowKeepsDay
  <2> QED
    BY <1>1, <2>1 DEF InTime
<1> QED
  BY <1>1, <1>2 DEF InTime

\* A join: the newcomer is behind everybody who waits for the day they came for.
LEMMA JoinArrives ==
    ASSUME IInv, IInv', InTime, NEW e \in Entries, Join(e)
    PROVE  Promise!Arrive(e)
<1>1. TypeOK /\ TypeOK' /\ entry \in [Entries -> Row] /\ entry[e] \in Row
  BY DEF IInv, TypeOK
<1>2. PICK d \in 1..day : d = entry[e].day
  BY DEF Join, InTime
<1>3. /\ entry[e].status = "JOINING" /\ day' = day
      /\ \A f \in Entries \ {e} : entry'[f] = entry[f]
      /\ entry'[e].status = "WAITING" /\ entry'[e].day = d
  <2>1. PICK t, k : entry' = [entry EXCEPT ![e] = [entry[e] EXCEPT !.status = "WAITING", !.ticket = t, !.key = k]]
    BY <1>1 DEF Join
  <2> QED
    BY <1>1, <1>2, <2>1 DEF Join, Row
<1>4. Stage[e] = "out" /\ Stage' = [Stage EXCEPT ![e] = "waiting"]
  BY <1>3 DEF Stage, Seen
<1>5. LineOf' = [LineOf EXCEPT ![e] = d]
  <2>1. e \in Stored' /\ \A f \in Entries \ {e} : f \in Stored' <=> f \in Stored
    BY <1>3 DEF Stored
  <2> QED
    BY <1>3, <2>1 DEF LineOf
<1>6. Order' = Order \union (Waiting(d) \X {e})
  <2>1. (\A p, q : <<p, q>> \in Order <=> /\ p \in Entries /\ q \in Entries
                                          /\ entry[p].status = "WAITING" /\ entry[q].status = "WAITING"
                                          /\ entry[p].day = entry[q].day /\ Before(p, q))'
    BY OrderIs, PTL
  <2>2. ASSUME NEW p \in Entries, NEW q \in Entries, p # e, q # e
        PROVE  <<p, q>> \in Order' <=> <<p, q>> \in Order
    <3>1. entry'[p] = entry[p] /\ entry'[q] = entry[q]
      BY <1>3, <2>2
    <3>2. Before(p, q)' <=> Before(p, q)
      BY <3>1 DEF Before
    <3> QED
      BY <2>1, <3>1, <3>2, OrderIs
  <2>3. ASSUME NEW p \in Entries, p # e PROVE <<p, e>> \in Order' <=> p \in Waiting(d)
    <3>1. entry'[p] = entry[p]
      BY <1>3, <2>3
    <3>2. p \in Waiting(d) <=> entry[p].status = "WAITING" /\ entry[p].day = d
      BY DEF Waiting, OfDay, Stored
    <3>3. entry[p].status = "WAITING" /\ entry[p].day = d => Before(p, e)'
      BY <1>3, <3>1, JoinIsLast
    <3> QED
      BY <1>3, <2>1, <3>1, <3>2, <3>3
  <2>4. ASSUME NEW q \in Entries PROVE <<e, q>> \notin Order'
    <3> SUFFICES ASSUME <<e, q>> \in Order' PROVE FALSE
      OBVIOUS
    <3>1. entry'[q].status = "WAITING" /\ entry'[q].day = d /\ Before(e, q)'
      BY <1>3, <2>1
    <3>2. \A f \in Entries : entry'[f].key \in Nat /\ entry'[f].ticket \in Nat
      BY <1>1 DEF TypeOK, Row
    <3>3. CASE q = e
      BY <3>1, <3>2, <3>3 DEF Before
    <3>4. CASE q # e
      <4>1. Before(q, e)'
        BY <1>3, <3>1, <3>4, JoinIsLast
      <4> QED
        BY <3>1, <3>2, <4>1 DEF Before
    <3> QED
      BY <3>3, <3>4
  <2>5. \A p, q : <<p, q>> \in Order => p \in Entries /\ q \in Entries /\ p # e /\ q # e
    BY <1>3, OrderIs
  <2>6. \A p, q : <<p, q>> \in Order' => p \in Entries /\ q \in Entries
    BY <2>1
  <2>7. Waiting(d) \subseteq Entries \ {e}
    BY <1>3 DEF Waiting, OfDay, Stored
  <2>8. ASSUME NEW p, NEW q
        PROVE  <<p, q>> \in Order' <=> <<p, q>> \in Order \/ (p \in Waiting(d) /\ q = e)
    BY <2>2, <2>3, <2>4, <2>5, <2>6, <2>7
  <2>9. \A x \in Order \union Order' : x = <<x[1], x[2]>>
    BY DEF Order
  <2> QED
    BY <2>8, <2>9
<1>7. Promise!Line(d) = Waiting(d)
  BY <1>1, LinesAre
<1> QED
  BY <1>2, <1>3, <1>4, <1>5, <1>6, <1>7 DEF Promise!Arrive

\* A reorder gives today's line the order of the list, and no other line another.
LEMMA ReorderIs ==
    ASSUME IInv, IInv', NEW listed \in SUBSET Entries, ReorderWaiting(listed)
    PROVE  Promise!Reorder
<1> DEFINE base == Least({entry[e].key : e \in Waiting(day)})
<1>1. TypeOK /\ TypeOK' /\ entry \in [Entries -> Row] /\ listed = Waiting(day) /\ day' = day
  BY DEF IInv, TypeOK, ReorderWaiting, OnScreen
<1>2. PICK place \in [listed -> 0..(Cardinality(listed) - 1)] :
        /\ \A e, f \in listed : place[e] = place[f] => e = f
        /\ entry' = [e \in Entries |->
               IF e \in listed THEN [entry[e] EXCEPT !.key = base + place[e]] ELSE entry[e]]
  BY DEF ReorderWaiting
<1>3. PICK b \in Nat : b = base
  BY <1>1, FirstKey DEF ReorderWaiting
<1> HIDE DEF base
<1>4. ASSUME NEW e \in Entries
      PROVE  /\ entry'[e].status = entry[e].status /\ entry'[e].day = entry[e].day
             /\ entry'[e].ticket = entry[e].ticket
             /\ e \in listed => entry'[e].key = b + place[e]
             /\ e \notin listed => entry'[e].key = entry[e].key
  <2>1. entry[e] \in Row
    BY <1>1
  <2>2. CASE e \in listed
    <3>1. PICK k : k = b + place[e]
      OBVIOUS
    <3>2. entry'[e] = [entry[e] EXCEPT !.key = k]
      BY <1>2, <1>3, <2>2, <3>1
    <3> QED
      BY <2>1, <2>2, <3>1, <3>2 DEF Row
  <2>3. CASE e \notin listed
    <3>1. entry'[e] = entry[e]
      BY <1>2, <2>3
    <3> QED
      BY <2>3, <3>1
  <2> QED
    BY <2>2, <2>3
<1>5. Stage' = Stage
  BY <1>4 DEF Stage
<1>6. LineOf' = LineOf
  BY <1>4 DEF LineOf, Stored
<1>7. /\ \A e \in listed : e \in Entries /\ entry[e].status = "WAITING" /\ entry[e].day = day
      /\ \A e \in Entries : entry[e].status = "WAITING" /\ entry[e].day = day => e \in listed
  BY <1>1 DEF Waiting, OfDay, Stored
<1>8. (\A p, q : <<p, q>> \in Order <=> /\ p \in Entries /\ q \in Entries
                                        /\ entry[p].status = "WAITING" /\ entry[q].status = "WAITING"
                                        /\ entry[p].day = entry[q].day /\ Before(p, q))'
  BY OrderIs, PTL
<1>9. ASSUME NEW p \in Entries, NEW q \in Entries, p \notin listed
      PROVE  <<p, q>> \in Order' <=> <<p, q>> \in Order
  <2>1. CASE q \in listed
    <3>1. ~(entry[p].status = "WAITING" /\ entry[p].day = entry[q].day)
      BY <1>7, <1>9, <2>1
    <3> QED
      BY <1>4, <1>8, <3>1, OrderIs
  <2>2. CASE q \notin listed
    <3>1. Before(p, q)' <=> Before(p, q)
      BY <1>4, <1>9, <2>2 DEF Before
    <3> QED
      BY <1>4, <1>8, <3>1, OrderIs
  <2> QED
    BY <2>1, <2>2
<1>10. ASSUME NEW p \in Entries, NEW q \in Entries, p \in listed
       PROVE  <<p, q>> \in Order' <=> q \in listed /\ place[p] < place[q]
  <2>1. CASE q \in listed
    <3>1. place[p] \in Int /\ place[q] \in Int /\ (place[p] = place[q] => p = q)
      BY <1>2, <1>10, <2>1
    <3>2. entry'[p].key = b + place[p] /\ entry'[q].key = b + place[q]
      BY <1>4, <1>10, <2>1
    <3>3. entry'[p].ticket \in Nat
      BY <1>1 DEF TypeOK, Row
    <3>4. Before(p, q)' <=> place[p] < place[q]
      BY <3>1, <3>2, <3>3 DEF Before
    <3> QED
      BY <1>4, <1>7, <1>8, <1>10, <2>1, <3>4
  <2>2. CASE q \notin listed
    <3>1. ~(entry[q].status = "WAITING" /\ entry[p].day = entry[q].day)
      BY <1>7, <1>10, <2>2
    <3> QED
      BY <1>4, <1>8, <2>2, <3>1
  <2> QED
    BY <2>1, <2>2
<1>11. /\ \A p, q : <<p, q>> \in Order => p \in Entries /\ q \in Entries
       /\ \A p, q : <<p, q>> \in Order' => p \in Entries /\ q \in Entries
  BY <1>8, OrderIs
<1>12. /\ \A x \in Order : x = <<x[1], x[2]>>
       /\ \A x \in Order' : x = <<x[1], x[2]>>
  BY DEF Order
<1>13. Order' = {x \in Order : x[1] \notin listed}
                \union {x \in listed \X listed : place[x[1]] < place[x[2]]}
  <2> DEFINE New == {x \in Order : x[1] \notin listed}
                    \union {x \in listed \X listed : place[x[1]] < place[x[2]]}
  <2>1. \A p, q : <<p, q>> \in New <=> \/ <<p, q>> \in Order /\ p \notin listed
                                       \/ p \in listed /\ q \in listed /\ place[p] < place[q]
    OBVIOUS
  <2>2. \A x \in New : x = <<x[1], x[2]>>
    BY <1>12
  <2> HIDE DEF New
  <2>3. ASSUME NEW p, NEW q PROVE <<p, q>> \in Order' <=> <<p, q>> \in New
    <3>1. CASE p \in Entries /\ q \in Entries
      BY <1>9, <1>10, <2>1, <3>1
    <3>2. CASE ~(p \in Entries /\ q \in Entries)
      BY <1>7, <1>11, <2>1, <3>2
    <3> QED
      BY <3>1, <3>2
  <2>4. ASSUME NEW x \in Order' PROVE x \in New
    <3>1. <<x[1], x[2]>> \in Order' /\ x = <<x[1], x[2]>>
      BY <1>12, Zenon
    <3> QED
      BY <2>3, <3>1, Zenon
  <2>5. ASSUME NEW x \in New PROVE x \in Order'
    <3>1. <<x[1], x[2]>> \in New /\ x = <<x[1], x[2]>>
      BY <2>2, Zenon
    <3> QED
      BY <2>3, <3>1, Zenon
  <2>6. Order' = New
    BY <2>4, <2>5, Zenon
  <2> QED
    BY <2>6, Zenon DEF New
<1>14. Promise!Line(day) = listed /\ \A S : Promise!Cardinality(S) = Cardinality(S)
  BY <1>1, LinesAre, PromiseCardinality
<1> QED
  BY <1>1, <1>2, <1>5, <1>6, <1>13, <1>14, Zenon DEF Promise!Reorder

TurnStep == Promise!Next \/ UNCHANGED <<Stage, LineOf, Order, day>>

\* One row of those called, served or lost, whatever else it holds.
LEMMA OneGoes ==
    ASSUME IInv, IInv', KeepsOrder, NEW e \in Entries, NEW r, entry' = [entry EXCEPT ![e] = r], day' = day,
           \/ entry[e].status = "WAITING" /\ r.status = "CALLED"
           \/ entry[e].status \in {"WAITING", "CALLED"} /\ r.status \in {"IN_SERVICE", "CANCELLED", "NO_SHOW"}
    PROVE  TurnStep
<1>1. TypeOK /\ TypeOK' /\ entry'[e] = r /\ \A f \in Entries \ {e} : entry'[f] = entry[f]
  BY DEF IInv, TypeOK
<1>2. Promise!Goes(e, Seen(r.status))
  BY <1>1, RowGoes
<1>3. /\ Stage[e] = "waiting" <=> entry[e].status = "WAITING"
      /\ Stage[e] = "called" <=> entry[e].status = "CALLED"
  BY <1>1, StageIs
<1>4. CASE r.status = "CALLED"
  <2>1. Promise!Call(e)
    BY <1>2, <1>3, <1>4 DEF Promise!Call, Seen
  <2> QED
    BY <2>1 DEF TurnStep, Promise!Next
<1>5. CASE r.status = "IN_SERVICE"
  <2>1. Promise!Serve(e)
    BY <1>2, <1>3, <1>5 DEF Promise!Serve, Seen
  <2> QED
    BY <2>1 DEF TurnStep, Promise!Next
<1>6. CASE r.status \in {"CANCELLED", "NO_SHOW"}
  <2>1. Promise!Lose(e)
    BY <1>2, <1>3, <1>6 DEF Promise!Lose, Seen
  <2> QED
    BY <2>1 DEF TurnStep, Promise!Next
<1> QED
  BY <1>4, <1>5, <1>6

\* One row whose place in the queue does not change.
LEMMA OneHidden ==
    ASSUME IInv, IInv', KeepsOrder, NEW e \in Entries, NEW r, entry' = [entry EXCEPT ![e] = r], day' = day,
           Seen(r.status) = Seen(entry[e].status)
    PROVE  TurnStep
<1>1. TypeOK /\ TypeOK' /\ \A f \in Entries : entry'[f] = IF f = e THEN r ELSE entry[f]
  BY DEF IInv, TypeOK
<1>2. \A f \in Entries : Seen(entry'[f].status) = Seen(entry[f].status)
  BY <1>1
<1> QED
  BY <1>1, <1>2, RowsHidden DEF TurnStep

\* Every step of one entry.
LEMMA EntryKeepsTurns ==
    ASSUME IInv, InTime, NEW e \in Entries, EntryStep(e)
    PROVE  TurnStep
<1>1. entry \in [Entries -> Row] /\ entry[e] \in Row
  BY DEF IInv, TypeOK
<1>2. ASSUME NEW phone \in Phones \union {NoPhone}, BeginJoin(e, phone) PROVE TurnStep
  <2>1. IInv' /\ KeepsOrder
    BY <1>2, SweepSound
  <2>2. day' = day /\ \A f \in Entries : \/ entry'[f] = Swept(f)
                                         \/ entry'[f].status = "JOINING" /\ entry[f].status = "NONE"
    BY <1>2 DEF BeginJoin, NewRow
  <2> QED
    BY <2>1, <2>2, SweepKeeps DEF TurnStep, Promise!Next
<1>3. CASE Join(e)
  <2>1. IInv'
    BY <1>3, JoinSound
  <2> QED
    BY <1>3, <2>1, JoinArrives DEF TurnStep, Promise!Next
<1>4. CASE RefuseJoin(e)
  <2>1. IInv' /\ KeepsOrder
    BY <1>4, EntrySound
  <2>2. NoRow.status = "NONE" /\ entry[e].status = "JOINING" /\ entry' = [entry EXCEPT ![e] = NoRow] /\ day' = day
    BY <1>4 DEF RefuseJoin, NoRow, NewRow
  <2>3. Seen(NoRow.status) = Seen(entry[e].status)
    BY <2>2 DEF Seen
  <2> QED
    BY <2>1, <2>2, <2>3, OneHidden
<1>5. CASE CallEntry(e)
  <2>1. entry[e].status = "WAITING" /\ entry' = [entry EXCEPT ![e] = Called(e)] /\ day' = day
    BY <1>5 DEF CallEntry, MarkCalled
  <2>2. IInv' /\ KeepsOrder
    BY <1>5, EntrySound DEF CallEntry
  <2>3. Called(e).status = "CALLED"
    BY <1>1 DEF Called, Row
  <2> QED
    BY <2>1, <2>2, <2>3, OneGoes
<1>6. CASE StartService(e)
  <2>0. PICK r : r = [entry[e] EXCEPT !.status = "IN_SERVICE", !.lapsed = FALSE, !.appt = "IN_PROGRESS"]
    OBVIOUS
  <2>1. r.status = "IN_SERVICE"
    BY <1>1, <2>0 DEF Row
  <2>2. entry[e].status \in {"WAITING", "CALLED"} /\ entry' = [entry EXCEPT ![e] = r] /\ day' = day
    BY <1>1, <1>6, <2>0, <2>1 DEF StartService
  <2>3. IInv' /\ KeepsOrder
    BY <1>6, EntrySound
  <2> QED
    BY <2>1, <2>2, <2>3, OneGoes
<1>7. CASE CompleteService(e)
  <2>0. PICK r : r = [entry[e] EXCEPT !.status = "DONE", !.appt = "COMPLETED"]
    OBVIOUS
  <2>1. r.status = "DONE"
    BY <1>1, <2>0 DEF Row
  <2>2. entry[e].status = "IN_SERVICE" /\ entry' = [entry EXCEPT ![e] = r] /\ day' = day
    BY <1>1, <1>7, <2>0, <2>1 DEF CompleteService
  <2>3. IInv' /\ KeepsOrder
    BY <1>7, EntrySound
  <2>4. Seen(r.status) = Seen(entry[e].status)
    BY <2>1, <2>2 DEF Seen
  <2> QED
    BY <2>2, <2>3, <2>4, OneHidden
<1>8. CASE MarkNoShow(e) \/ CancelEntry(e)
  <2>1. PICK to \in {"NO_SHOW", "CANCELLED"} : Leave(e, to)
    BY <1>8 DEF MarkNoShow, CancelEntry
  <2>2. entry[e].status \in {"WAITING", "CALLED"} /\ entry' = [entry EXCEPT ![e] = Ended(e, to, "LEFT")] /\ day' = day
    BY <2>1 DEF Leave
  <2>3. IInv' /\ KeepsOrder
    BY <2>1, EntrySound
  <2>4. Ended(e, to, "LEFT").status = to
    BY <1>1 DEF Ended, Row
  <2> QED
    BY <2>2, <2>3, <2>4, OneGoes
<1>9. ASSUME NEW to \in AppointmentStatus \ {"none"}, StaffSetsAppointment(e, to) PROVE TurnStep
  <2>0. PICK r : r = [entry[e] EXCEPT !.appt = to]
    OBVIOUS
  <2>1. r.status = entry[e].status
    BY <1>1, <2>0 DEF Row
  <2>2. entry' = [entry EXCEPT ![e] = r] /\ day' = day
    BY <1>1, <1>9, <2>0, <2>1 DEF StaffSetsAppointment
  <2>3. IInv' /\ KeepsOrder
    BY <1>9, EntrySound
  <2> QED
    BY <2>1, <2>2, <2>3, OneHidden
<1>10. CASE CallLapses(e)
  <2>0. PICK r : r = [entry[e] EXCEPT !.lapsed = TRUE]
    OBVIOUS
  <2>1. r.status = entry[e].status
    BY <1>1, <2>0 DEF Row
  <2>2. entry' = [entry EXCEPT ![e] = r] /\ day' = day
    BY <1>1, <1>10, <2>0, <2>1 DEF CallLapses
  <2>3. IInv' /\ KeepsOrder
    BY <1>10, EntrySound
  <2> QED
    BY <2>1, <2>2, <2>3, OneHidden
<1> QED
  BY <1>2, <1>3, <1>4, <1>5, <1>6, <1>7, <1>8, <1>9, <1>10, Zenon DEF EntryStep

\* Every step of the queue is one of the promise, or is not seen from the waiting room.
LEMMA StepKeepsTurns == ASSUME IInv, InTime, [Next]_vars PROVE TurnStep
<1>1. CASE SweepQueue
  <2>1. IInv' /\ KeepsOrder
    BY <1>1, SweepSound
  <2>2. day' = day /\ \A f \in Entries : entry'[f] = Swept(f)
    BY <1>1 DEF SweepQueue
  <2> QED
    BY <2>1, <2>2, SweepKeeps DEF TurnStep, Promise!Next
<1>2. CASE CallNext
  <2>1. PICK e \in NextInLine(1) : MarkCalled(e)
    BY <1>2 DEF CallNext
  <2>2. e \in Entries /\ entry[e].status = "WAITING"
    BY DEF NextInLine, Waiting, OfDay, Stored
  <2>3. CallEntry(e)
    BY <2>1, <2>2 DEF CallEntry
  <2> QED
    BY <2>2, <2>3, EntryKeepsTurns, Zenon DEF EntryStep
<1>3. ASSUME NEW listed \in SUBSET Entries, ReorderWaiting(listed) PROVE TurnStep
  <2>1. IInv'
    BY <1>3, ReorderSound
  <2> QED
    BY <1>3, <2>1, ReorderIs DEF TurnStep, Promise!Next
<1>4. CASE SetOpen \/ SetTimeout \/ UNCHANGED vars
  <2>1. UNCHANGED <<entry, day>>
    BY <1>4 DEF SetOpen, SetTimeout, vars
  <2> QED
    BY <2>1 DEF TurnStep, Stage, LineOf, Stored, Order, Before
<1>5. CASE DayEnds
  <2>1. entry' = entry /\ day' = day + 1
    BY <1>5 DEF DayEnds
  <2>2. UNCHANGED <<Stage, LineOf, Order>>
    BY <2>1 DEF Stage, LineOf, Stored, Order, Before
  <2> QED
    BY <2>1, <2>2 DEF TurnStep, Promise!Next, Promise!NewDay
<1>6. ASSUME NEW e \in Entries, EntryStep(e) PROVE TurnStep
  BY <1>6, EntryKeepsTurns
<1> QED
  BY <1>1, <1>2, <1>3, <1>4, <1>5, <1>6 DEF Next

\* The queue keeps its promise, step by step: whoever joins is last, nobody is moved but
\* by a reorder of today's line, and a sweep gives the turns of those who did not come to
\* the first in line, for any number of entries and days.
THEOREM TurnsAreKept == Spec => KeepsTurns
<1>1. Init => Promise!Init
  <2> SUFFICES ASSUME Init PROVE Promise!Init
    OBVIOUS
  <2>1. NoRow.status = "NONE"
    BY DEF NoRow, NewRow
  <2>2. \A e \in Entries : entry[e].status = "NONE"
    BY <2>1 DEF Init
  <2>3. Stage = [e \in Entries |-> "out"]
    BY <2>2 DEF Stage, Seen
  <2>4. LineOf = [e \in Entries |-> 0]
    BY <2>2 DEF LineOf, Stored
  <2>5. Order = {}
    BY <2>2 DEF Order
  <2> QED
    BY <2>3, <2>4, <2>5 DEF Init, Promise!Init
<1>2. Init => InTime
  <2>1. NoRow.status = "NONE"
    BY DEF NoRow, NewRow
  <2> QED
    BY <2>1 DEF Init, InTime
<1>3. IInv /\ InTime /\ [Next]_vars => InTime'
  BY InTimeKept
<1>4. IInv /\ InTime /\ [Next]_vars => [Promise!Next]_<<Stage, LineOf, Order, day>>
  BY StepKeepsTurns DEF TurnStep
<1> QED
  BY <1>1, <1>2, <1>3, <1>4, Invariant, PTL DEF Spec, KeepsTurns, Promise!Spec, Promise!vars
=============================================================================
