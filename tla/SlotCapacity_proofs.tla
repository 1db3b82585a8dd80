------------------------ MODULE SlotCapacity_proofs -------------------------
(* Proofs about SlotCapacity, for every number of bookings, bays, employees  *)
(* and windows and every length of the day.                                  *)
EXTENDS SlotCapacity, OrderLemmas, TLAPS

\* The service is no longer than the job, and walk-ins and imports are
\* appointments, never requests.
Sound(row) == /\ row.base <= row.minutes
              /\ row.origin # "booked" => row.status \in AppointmentStatus

IInv == TypeOK /\ \A b \in Bookings : Sound(booking[b])

-----------------------------------------------------------------------------
(* The greatest of a set                                                   *)

\* Greatest, which the code writes max(..., default=0), is an upper bound that
\* is attained.
LEMMA GreatestIs ==
    ASSUME NEW k \in Nat, NEW S \in SUBSET (0..k)
    PROVE  /\ Greatest({0} \union S) \in {0} \union S
           /\ \A n \in {0} \union S : n <= Greatest({0} \union S)
<1>1. {0} \union S \in SUBSET (0..k) /\ {0} \union S # {}
  OBVIOUS
<1>2. \E m \in {0} \union S : \A n \in {0} \union S : n <= m
  BY <1>1, GreatestBelow
<1> QED
  BY <1>2 DEF Greatest

-----------------------------------------------------------------------------
(* The sweep over the day's events                                         *)

\* A row has a span, and reserves its bay as the code counts it.
LEMMA RowFacts ==
    ASSUME TypeOK
    PROVE  /\ \A b \in Bookings : /\ Start(b) \in Nat /\ End(b) \in Nat /\ Start(b) < End(b)
                                  /\ booking[b].minutes \in Nat /\ booking[b].base \in Nat
           /\ Reserving = HoldsABay
           /\ capacity \in Nat \ {0}
           /\ IsFiniteSet(Bookings) /\ Horizon \in Nat
<1>1. \A b \in Bookings : booking[b] \in Row
  BY DEF TypeOK
<1>2. \A b \in Bookings : booking[b].start \in Nat /\ booking[b].minutes \in Nat \ {0}
                          /\ booking[b].base \in Nat
  BY <1>1, SlotAssumption DEF Row
<1>3. \A b \in Bookings : booking[b].status \in RequestStatus \union AppointmentStatus
  BY <1>1 DEF Row
<1>4. Reserving = HoldsABay
  BY <1>3 DEF Reserving, HoldsABay, RequestStatus, AppointmentStatus
<1>5. \A b \in Bookings : Start(b) \in Nat /\ End(b) \in Nat /\ Start(b) < End(b)
  BY <1>2 DEF Start, End
<1> QED
  BY <1>2, <1>4, <1>5, SlotAssumption DEF TypeOK

\* At any instant of the window the running count of the sweep is the number
\* of bookings under way.
LEMMA CurrentIsInUse ==
    ASSUME TypeOK, NEW S \in SUBSET Bookings, NEW from \in Nat, NEW to \in Nat,
           NEW t \in Nat, from <= t, t < to
    PROVE  Current(S, from, to, t) = InUse(S, t)
<1> DEFINE Begun == {b \in Touching(S, from, to) : Later(Start(b), from) <= t}
           Over == {b \in Touching(S, from, to) : Earlier(End(b), to) <= t}
           Under == {b \in S : Start(b) <= t /\ t < End(b)}
<1>1. \A b \in S : Start(b) \in Nat /\ End(b) \in Nat /\ Start(b) < End(b)
  BY RowFacts
<1>2. Begun \intersect Over = Over /\ Begun \ Over = Under
  BY <1>1 DEF Touching, Later, Earlier
<1>3. IsFiniteSet(Begun)
  BY RowFacts, FS_Subset, Begun \in SUBSET Bookings DEF Touching
<1>4. Cardinality(Begun \ Over) = Cardinality(Begun) - Cardinality(Begun \intersect Over)
  BY <1>3, FS_Difference
<1> QED
  BY <1>2, <1>4 DEF Current, InUse

\* The number of bookings under way is a number, no more than there are.
LEMMA InUseType ==
    ASSUME TypeOK, NEW S \in SUBSET Bookings, NEW t \in Nat
    PROVE  /\ InUse(S, t) \in 0..Cardinality(Bookings)
           /\ Cardinality(Bookings) \in Nat
           /\ \A T \in SUBSET S : InUse(T, t) <= InUse(S, t)
<1> DEFINE Under(U) == {b \in U : Start(b) <= t /\ t < End(b)}
<1>1. IsFiniteSet(Bookings) /\ Cardinality(Bookings) \in Nat
  BY RowFacts, FS_CardinalityType
<1>2. /\ IsFiniteSet(Under(S)) /\ Cardinality(Under(S)) <= Cardinality(Bookings)
      /\ Cardinality(Under(S)) \in Nat
  BY <1>1, FS_Subset, FS_CardinalityType, Under(S) \in SUBSET Bookings
<1>3. \A T \in SUBSET S : Cardinality(Under(T)) <= Cardinality(Under(S))
  BY <1>2, FS_Subset, \A T \in SUBSET S : Under(T) \in SUBSET Under(S)
<1> QED
  BY <1>1, <1>2, <1>3 DEF InUse

\* _peak_overlap returns the number in use at the busiest instant of the window.
LEMMA PeakIsMaximum ==
    ASSUME TypeOK, NEW S \in SUBSET Bookings, NEW from \in Nat, NEW to \in Nat, from < to
    PROVE  /\ PeakOverlap(S, from, to) \in Nat
           /\ \A t \in from..(to - 1) : InUse(S, t) <= PeakOverlap(S, from, to)
           /\ PeakOverlap(S, from, to) > 0
                  => \E t \in from..(to - 1) : InUse(S, t) = PeakOverlap(S, from, to)
<1> DEFINE At(b) == Later(Start(b), from)
           Counts == {Current(S, from, to, At(b)) : b \in Touching(S, from, to)}
           n == Cardinality(Bookings)
<1>1. \A b \in S : Start(b) \in Nat /\ End(b) \in Nat /\ Start(b) < End(b)
  BY RowFacts
<1>2. \A b \in Touching(S, from, to) : /\ b \in S /\ At(b) \in Nat /\ from <= At(b) /\ At(b) < to
                                       /\ At(b) < End(b) /\ Start(b) <= At(b)
  BY <1>1 DEF Touching, Later
<1>3. \A b \in Touching(S, from, to) : Current(S, from, to, At(b)) = InUse(S, At(b))
  BY <1>2, CurrentIsInUse
<1>4. n \in Nat /\ Counts \in SUBSET (0..n)
  BY <1>2, <1>3, InUseType, RowFacts, FS_CardinalityType
<1>5. /\ PeakOverlap(S, from, to) \in {0} \union Counts
      /\ \A c \in {0} \union Counts : c <= PeakOverlap(S, from, to)
  <2> HIDE DEF Counts, n
  <2>1. /\ Greatest({0} \union Counts) \in {0} \union Counts
        /\ \A c \in {0} \union Counts : c <= Greatest({0} \union Counts)
    BY <1>4, GreatestIs
  <2>2. PeakOverlap(S, from, to) = Greatest({0} \union Counts)
    BY DEF PeakOverlap, Counts
  <2> QED
    BY <2>1, <2>2
<1>6. PeakOverlap(S, from, to) \in Nat
  BY <1>4, <1>5
<1>7. ASSUME NEW t \in from..(to - 1)
      PROVE  InUse(S, t) <= PeakOverlap(S, from, to)
  <2> DEFINE Under == {b \in S : Start(b) <= t /\ t < End(b)}
             Times == {At(b) : b \in {c \in Touching(S, from, to) : At(c) <= t}}
  <2>0. t \in Nat /\ from <= t /\ t < to
    OBVIOUS
  <2>1. CASE Under = {}
    BY <2>1, <1>5, <1>6, FS_EmptySet DEF InUse
  <2>2. CASE Under # {}
    <3>1. \A b \in Under : b \in Touching(S, from, to) /\ At(b) <= t /\ At(b) \in Times
      BY <1>1, <2>0 DEF Touching, Later
    <3>2. Times \in SUBSET (0..t) /\ Times # {}
      BY <3>1, <2>2, <1>2, <2>0
    <3>3. PICK s \in Times : \A u \in Times : u <= s
      BY <3>2, <2>0, GreatestBelow
    <3>4. PICK c \in Touching(S, from, to) : s = At(c) /\ s <= t
      BY <3>3
    <3>5. s \in Nat
      BY <3>4, <1>2
    <3>6. Under \subseteq {b \in S : Start(b) <= s /\ s < End(b)}
      <4> SUFFICES ASSUME NEW b \in Under
                   PROVE  b \in S /\ Start(b) <= s /\ s < End(b)
        OBVIOUS
      <4>1. At(b) <= s /\ At(b) \in Nat /\ Start(b) <= At(b)
        BY <3>1, <3>3, <1>2
      <4>2. s <= t /\ t < End(b) /\ Start(b) \in Nat /\ End(b) \in Nat
        BY <3>4, <1>1
      <4> QED
        BY <4>1, <4>2, <2>0, <3>5
    <3>7. InUse(S, t) <= InUse(S, s)
      <4>1. IsFiniteSet({b \in S : Start(b) <= s /\ s < End(b)})
        BY RowFacts, FS_Subset, {b \in S : Start(b) <= s /\ s < End(b)} \in SUBSET Bookings
      <4> QED
        BY <4>1, <3>6, FS_Subset DEF InUse
    <3>8. InUse(S, s) \in Counts
      BY <3>4, <1>3
    <3>9. InUse(S, s) <= PeakOverlap(S, from, to)
      BY <3>8, <1>5
    <3>10. InUse(S, t) \in Nat /\ InUse(S, s) \in Nat
      BY InUseType, <2>0, <3>5
    <3> QED
      BY <3>7, <3>9, <3>10, <1>6
  <2> QED
    BY <2>1, <2>2
<1>8. ASSUME PeakOverlap(S, from, to) > 0
      PROVE  \E t \in from..(to - 1) : InUse(S, t) = PeakOverlap(S, from, to)
  <2>1. PICK b \in Touching(S, from, to) :
            PeakOverlap(S, from, to) = Current(S, from, to, At(b))
    BY <1>8, <1>5
  <2>2. At(b) \in from..(to - 1)
    BY <1>2
  <2> QED
    BY <2>1, <2>2, <1>3
<1> QED
  BY <1>6, <1>7, <1>8

\* The reservation of a job is a number, and that of every instant of the job
\* is no larger.
LEMMA ReservedCovers ==
    ASSUME TypeOK, NEW from \in Nat, NEW to \in Nat, from < to
    PROVE  /\ ReservedOver(from, to) \in Nat
           /\ \A t \in from..(to - 1) : ReservedAt(t) \in Nat /\ ReservedAt(t) <= ReservedOver(from, to)
<1> DEFINE Bays(W) == {w.bays : w \in W}
           Over == {v \in windows : v.from < to /\ v.to > from}
           At(t) == {v \in windows : v.from <= t /\ t < v.to}
<1>1. /\ IsFiniteSet(windows)
      /\ \A w \in windows : w.from \in Nat /\ w.to \in Nat /\ w.bays \in Nat
  BY SlotAssumption, FS_Subset DEF TypeOK
<1>2. PICK k \in Nat : \A w \in windows : w.bays <= k
  <2>1. Bays(windows) \in SUBSET Nat
    BY <1>1
  <2>2. IsFiniteSet(Bays(windows))
    <3> DEFINE f == [w \in windows |-> w.bays]
    <3>1. f \in Surjection(windows, Bays(windows))
      BY DEF Surjection
    <3> QED
      BY <3>1, <1>1, FS_Surjection
  <2>3. CASE windows = {}
    BY <2>3
  <2>4. CASE windows # {}
    <3>1. Bays(windows) # {}
      BY <2>4
    <3>2. PICK m \in Bays(windows) : \A n \in Bays(windows) : n <= m
      <4> HIDE DEF Bays
      <4> QED
        BY <2>1, <2>2, <3>1, GreatestOfFinite
    <3> QED
      BY <3>2, <2>1
  <2> QED
    BY <2>3, <2>4
<1>3. Bays(Over) \in SUBSET (0..k)
  BY <1>1, <1>2
<1>4. /\ ReservedOver(from, to) \in {0} \union Bays(Over)
      /\ \A n \in {0} \union Bays(Over) : n <= ReservedOver(from, to)
  <2>1. ReservedOver(from, to) = Greatest({0} \union Bays(Over))
    BY DEF ReservedOver
  <2> HIDE DEF Bays, Over
  <2> QED
    BY <1>3, <2>1, GreatestIs
<1>5. ASSUME NEW t \in from..(to - 1)
      PROVE  ReservedAt(t) \in Nat /\ ReservedAt(t) <= ReservedOver(from, to)
  <2>1. At(t) \subseteq Over
    BY <1>1
  <2>2. Bays(At(t)) \in SUBSET (0..k)
    BY <1>1, <1>2
  <2>3. ReservedAt(t) = Greatest({0} \union Bays(At(t)))
    BY DEF ReservedAt
  <2>4. ReservedAt(t) \in {0} \union Bays(At(t))
    <3> HIDE DEF Bays, At
    <3> QED
      BY <2>2, <2>3, GreatestIs
  <2>5. ReservedAt(t) \in {0} \union Bays(Over) /\ ReservedAt(t) \in 0..k
    BY <2>1, <2>2, <2>4
  <2> QED
    BY <2>5, <1>4
<1> QED
  BY <1>3, <1>4, <1>5

\* A job that finds a bay finds one at each of its instants; a job that finds
\* room also leaves the reserved bays alone.
LEMMA BayAtEveryInstant ==
    ASSUME TypeOK, NEW S \in SUBSET Bookings, NEW from \in Nat, NEW to \in Nat, from < to
    PROVE  /\ HasBay(S, from, to) => \A t \in from..(to - 1) : InUse(S, t) + 1 <= capacity
           /\ HasRoom(S, from, to) =>
                  /\ HasBay(S, from, to)
                  /\ \A t \in from..(to - 1) : InUse(S, t) + 1 + ReservedAt(t) <= capacity
<1>1. /\ PeakOverlap(S, from, to) \in Nat /\ capacity \in Nat
      /\ ReservedOver(from, to) \in Nat
  BY PeakIsMaximum, ReservedCovers, RowFacts
<1>2. ASSUME NEW t \in from..(to - 1)
      PROVE  /\ InUse(S, t) \in Nat /\ InUse(S, t) <= PeakOverlap(S, from, to)
             /\ ReservedAt(t) \in Nat /\ ReservedAt(t) <= ReservedOver(from, to)
  <2>1. t \in Nat
    OBVIOUS
  <2> QED
    BY <2>1, PeakIsMaximum, ReservedCovers, InUseType
<1> QED
  BY <1>1, <1>2 DEF HasBay, HasRoom

-----------------------------------------------------------------------------
(* One step                                                                *)

\* Every way a row may change.  A request or an appointment that newly takes
\* its bay and its employee has passed the checks; the rest is a fact that is
\* recorded, a paid request that is reopened, a bay that is released, or one
\* that is kept.
Fact(b, row) == /\ row.status \in AppointmentStatus
                /\ \/ booking[b].status = "NONE" /\ row.origin # "booked"
                   \/ booking[b].origin = "walkIn" /\ row.origin = "booked"
Reopens(b, row) == /\ booking[b].status \in {"EXPIRED", "REJECTED"} /\ row.status = "PENDING"
                   /\ booking[b].deposit = "taken" \/ booking[b].base < booking[b].minutes
Releases(row) == row.status \in {"EXPIRED", "REJECTED", "CANCELLED"}
Keeps(b, row) ==
    /\ b \in Reserving /\ row.start = Start(b) /\ row.minutes = booking[b].minutes
    /\ \/ row.status \in RequestStatus
       \/ /\ booking[b].status \in AppointmentStatus \ {"CANCELLED"} /\ row.emp = booking[b].emp
Requests(b, row) ==
    /\ row.status \in RequestStatus
    /\ HasRoom(Reserving \ {b}, row.start, row.start + row.minutes)
Schedules(b, row) ==
    /\ row.status \in AppointmentStatus
    /\ EmployeeFree(row.emp, row.start, row.start + row.minutes, b)
    /\ HasBay(Reserving \ {b}, row.start, row.start + row.minutes)
    /\ booking[b].status = "PENDING"
           => HasRoom(Reserving \ {b}, row.start, row.start + row.minutes)

Changes(b, row) ==
    /\ row \in Row /\ Sound(row)
    /\ Becomes(b, row)
    /\ Fact(b, row) \/ Reopens(b, row) \/ Releases(row) \/ Keeps(b, row)
       \/ Requests(b, row) \/ Schedules(b, row)

\* A bounded job lies inside the day.
LEMMA JobFacts ==
    ASSUME NEW job \in Jobs
    PROVE  /\ job[1] \in 0..Horizon /\ job[2] \in 1..Horizon
           /\ job[1] \in Nat /\ job[2] \in Nat \ {0}
BY SlotAssumption DEF Jobs

\* A row that does not reserve its bay yet is not counted.
LEMMA NotCounted ==
    ASSUME NEW b \in Bookings, booking[b].status \in {"NONE", "EXPIRED", "REJECTED", "CANCELLED"}
    PROVE  Reserving \ {b} = Reserving
BY DEF Reserving

LEMMA RequestShape ==
    ASSUME IInv, NEW b \in Bookings, RequestStep(b)
    PROVE  \E row : Changes(b, row)
<1>1. booking[b] \in Row /\ Sound(booking[b])
  BY DEF IInv, TypeOK
<1>2. ASSUME NEW job \in Jobs, NEW base \in 1..MaxMinutes, NEW status \in {"HELD", "PENDING"},
             NEW deposit \in {"none", "open"}, Submit(b, job[1], job[2], base, status, deposit)
      PROVE  Changes(b, Request(status, job[1], job[2], base, deposit))
  <2> DEFINE row == Request(status, job[1], job[2], base, deposit)
  <2>1. base \in 0..Horizon /\ base <= job[2]
    BY <1>2, JobFacts, SlotAssumption DEF Submit
  <2>2. row \in Row /\ Sound(row)
    BY <2>1, JobFacts DEF Request, Row, RequestStatus, Sound
  <2>3. Requests(b, row)
    BY <1>2, NotCounted DEF Submit, Request, Requests, RequestStatus
  <2> QED
    BY <1>2, <2>1, <2>2, <2>3 DEF Submit, Changes
<1>3. CASE AcceptTerms(b)
  <2> DEFINE p == [booking[b] EXCEPT !.status = "PENDING"]
             o == [booking[b] EXCEPT !.deposit = "open"]
  <2>1. p \in Row /\ o \in Row
    BY <1>1 DEF Row, RequestStatus
  <2>2. Keeps(b, p) /\ Keeps(b, o)
    BY <1>1, <1>3 DEF AcceptTerms, Keeps, Reserving, Start, Row, RequestStatus
  <2>3. Sound(p) /\ Sound(o)
    BY <1>1, <1>3 DEF AcceptTerms, Row, Sound, AppointmentStatus
  <2> QED
    BY <1>3, <2>1, <2>2, <2>3 DEF AcceptTerms, Changes
<1>4. CASE PaymentSucceeds(b)
  <2> DEFINE p == [booking[b] EXCEPT !.status = "PENDING", !.deposit = "taken"]
  <2>1. p \in Row /\ Sound(p)
    BY <1>1, <1>4 DEF PaymentSucceeds, Row, RequestStatus, Sound, AppointmentStatus
  <2>2. Keeps(b, p)
    BY <1>1, <1>4 DEF PaymentSucceeds, Keeps, Reserving, Start, Row, RequestStatus
  <2> QED
    BY <1>4, <2>1, <2>2 DEF PaymentSucceeds, Changes
<1>5. CASE Expire(b) \/ Reject(b)
  <2> DEFINE e == [booking[b] EXCEPT !.status = "EXPIRED"]
             r == [booking[b] EXCEPT !.status = "REJECTED"]
  <2>1. e \in Row /\ Sound(e) /\ r \in Row /\ Sound(r)
    BY <1>1, <1>5 DEF Expire, Reject, Row, RequestStatus, Sound, AppointmentStatus
  <2>2. Releases(e) /\ Releases(r)
    BY <1>1 DEF Releases, Row
  <2> QED
    BY <1>5, <2>1, <2>2 DEF Expire, Reject, Changes
<1>6. CASE LatePayment(b)
  <2> DEFINE p == [booking[b] EXCEPT !.status = "PENDING", !.deposit = "taken"]
             e == [booking[b] EXCEPT !.deposit = "taken"]
  <2>1. p \in Row /\ Sound(p) /\ e \in Row /\ Sound(e)
    BY <1>1, <1>6 DEF LatePayment, Row, RequestStatus, Sound, AppointmentStatus
  <2>2. p.status = "PENDING" /\ p.start = booking[b].start /\ p.minutes = booking[b].minutes
        /\ e.status = booking[b].status
    BY <1>1 DEF Row
  <2>3. booking[b].status = "EXPIRED"
    BY <1>6 DEF LatePayment
  <2>4. CASE Becomes(b, e)
    BY <2>1, <2>2, <2>3, <2>4 DEF Changes, Releases
  <2>5. CASE /\ HasRoom(Reserving, booking[b].start, booking[b].start + booking[b].base)
             /\ Becomes(b, p)
    <3>1. CASE booking[b].base < booking[b].minutes
      BY <2>1, <2>2, <2>3, <2>5, <3>1 DEF Changes, Reopens
    <3>2. CASE booking[b].base = booking[b].minutes
      <4>1. Requests(b, p)
        BY <2>2, <2>3, <2>5, <3>2, NotCounted DEF Requests, RequestStatus
      <4> QED
        BY <2>1, <2>5, <4>1 DEF Changes
    <3> QED
      BY <1>1, <3>1, <3>2, SlotAssumption DEF Row, Sound
  <2> QED
    BY <1>6, <2>4, <2>5 DEF LatePayment
<1>7. CASE Recover(b)
  <2> DEFINE p == [booking[b] EXCEPT !.status = "PENDING"]
  <2>1. p \in Row /\ Sound(p) /\ p.status = "PENDING"
    BY <1>1, <1>7 DEF Recover, Row, RequestStatus, Sound, AppointmentStatus
  <2> QED
    BY <1>7, <2>1 DEF Recover, Changes, Reopens
<1> QED
  BY <1>2, <1>3, <1>4, <1>5, <1>6, <1>7 DEF RequestStep

LEMMA StaffShape ==
    ASSUME IInv, NEW b \in Bookings, StaffStep(b)
    PROVE  \E row : Changes(b, row)
<1>1. booking[b] \in Row
  BY DEF IInv, TypeOK
<1>2. PICK emp \in Employees, job \in Jobs :
        \/ Approve(b, emp, job[1], job[2])
        \/ StartService(b, emp, job[1], job[2])
        \/ \E status \in AppointmentStatus :
               \/ CreateAppointment(b, emp, job[1], job[2], status)
               \/ PatchAppointment(b, emp, job[1], job[2], status)
               \/ ImportAppointment(b, emp, job[1], job[2], status)
  BY DEF StaffStep
<1> DEFINE row(status, origin) == Appointment(status, job[1], job[2], emp, origin)
<1>3. ASSUME NEW status \in AppointmentStatus, NEW origin \in {"booked", "walkIn", "import"}
      PROVE  /\ row(status, origin) \in Row
             /\ Sound(row(status, origin))
             /\ row(status, origin).status = status /\ row(status, origin).origin = origin
             /\ row(status, origin).start = job[1] /\ row(status, origin).minutes = job[2]
             /\ row(status, origin).emp = emp
  BY JobFacts, SlotAssumption DEF Appointment, Row, Sound
<1> HIDE DEF row
<1>4. CASE Approve(b, emp, job[1], job[2])
  <2>0. "BOOKED" \in AppointmentStatus
    BY DEF AppointmentStatus
  <2>1. HasBay(Reserving \ {b}, job[1], job[1] + job[2])
    <3>1. job[1] \in Nat /\ job[1] + job[2] \in Nat /\ job[1] < job[1] + job[2]
      BY JobFacts
    <3>2. Reserving \ {b} \in SUBSET Bookings
      BY DEF Reserving
    <3> QED
      BY <1>4, <3>1, <3>2, BayAtEveryInstant DEF Approve, IInv
  <2>2. Becomes(b, row("BOOKED", "booked"))
    BY <1>4 DEF Approve, row
  <2>3. Schedules(b, row("BOOKED", "booked"))
    BY <1>3, <1>4, <2>0, <2>1 DEF Approve, Schedules
  <2> QED
    BY <1>3, <2>0, <2>2, <2>3 DEF Changes
<1>5. CASE StartService(b, emp, job[1], job[2])
  <2>0. "BOOKED" \in AppointmentStatus
    BY DEF AppointmentStatus
  <2>1. Becomes(b, row("BOOKED", "walkIn")) /\ booking[b].status = "NONE"
    BY <1>5 DEF StartService, row
  <2> QED
    BY <1>3, <2>0, <2>1 DEF Changes, Fact
<1>6. ASSUME NEW status \in AppointmentStatus, CreateAppointment(b, emp, job[1], job[2], status)
      PROVE  Changes(b, row(status, "booked"))
  <2>1. Becomes(b, row(status, "booked")) /\ booking[b].status = "NONE"
    BY <1>6 DEF CreateAppointment, row
  <2>2. CASE status = "CANCELLED"
    BY <1>3, <2>1, <2>2 DEF Changes, Releases
  <2>3. CASE status # "CANCELLED"
    <3>1. Schedules(b, row(status, "booked"))
      BY <1>3, <1>6, <2>1, <2>3, NotCounted DEF CreateAppointment, Schedules
    <3> QED
      BY <1>3, <2>1, <3>1 DEF Changes
  <2> QED
    BY <2>2, <2>3
<1>7. ASSUME NEW status \in AppointmentStatus, PatchAppointment(b, emp, job[1], job[2], status)
      PROVE  \E r : Changes(b, r)
  <2>1. PICK origin \in {"booked", "walkIn", "import"} : Becomes(b, row(status, origin))
    BY <1>1, <1>7 DEF PatchAppointment, row, Row
  <2>2. CASE status = "CANCELLED"
    BY <1>3, <2>1, <2>2 DEF Changes, Releases
  <2>3. CASE /\ status # "CANCELLED"
             /\ \/ job[1] # booking[b].start \/ job[2] # booking[b].minutes
                \/ emp # booking[b].emp \/ booking[b].status = "CANCELLED"
    <3>1. /\ EmployeeFree(emp, job[1], job[1] + job[2], b)
          /\ HasBay(Reserving \ {b}, job[1], job[1] + job[2])
          /\ booking[b].status # "PENDING"
      BY <1>7, <2>3 DEF PatchAppointment, AppointmentStatus
    <3>2. Schedules(b, row(status, origin))
      BY <1>3, <3>1 DEF Schedules
    <3> QED
      BY <1>3, <2>1, <3>2 DEF Changes
  <2>4. CASE /\ job[1] = booking[b].start /\ job[2] = booking[b].minutes
             /\ emp = booking[b].emp /\ booking[b].status # "CANCELLED"
    <3>1. booking[b].status \in AppointmentStatus \ {"CANCELLED"}
      BY <1>7, <2>4 DEF PatchAppointment
    <3>2. Keeps(b, row(status, origin))
      BY <1>3, <2>4, <3>1 DEF Keeps, Reserving, Start, AppointmentStatus
    <3> QED
      BY <1>3, <2>1, <3>2 DEF Changes
  <2> QED
    BY <2>2, <2>3, <2>4
<1>8. ASSUME NEW status \in AppointmentStatus, ImportAppointment(b, emp, job[1], job[2], status)
      PROVE  Changes(b, row(status, "import"))
  <2>1. Becomes(b, row(status, "import")) /\ booking[b].status = "NONE"
    BY <1>8 DEF ImportAppointment, row
  <2> QED
    BY <1>3, <2>1 DEF Changes, Fact
<1> QED
  BY <1>2, <1>4, <1>5, <1>6, <1>7, <1>8

LEMMA RescheduleShape ==
    ASSUME IInv, NEW b \in Bookings, NEW start \in 0..Horizon, RescheduleByChat(b, start)
    PROVE  \E row : Changes(b, row)
<1> DEFINE row == [booking[b] EXCEPT !.start = start]
<1>1. booking[b] \in Row /\ Sound(booking[b])
  BY DEF IInv, TypeOK
<1>2. row \in Row /\ Sound(row)
  BY <1>1 DEF Row, Sound
<1>3. /\ row.start = start /\ row.minutes = booking[b].minutes
      /\ row.emp = booking[b].emp /\ row.status = booking[b].status
  BY <1>1 DEF Row
<1>4. HasBay(Reserving \ {b}, start, start + booking[b].minutes)
  <2>1. /\ start \in Nat /\ start + booking[b].minutes \in Nat
        /\ start < start + booking[b].minutes
    BY <1>1, SlotAssumption DEF Row
  <2>2. Reserving \ {b} \in SUBSET Bookings
    BY DEF Reserving
  <2> QED
    BY <2>1, <2>2, BayAtEveryInstant DEF RescheduleByChat, IInv
<1>5. Schedules(b, row)
  BY <1>3, <1>4 DEF RescheduleByChat, Schedules, AppointmentStatus
<1> QED
  BY <1>2, <1>5 DEF RescheduleByChat, Changes

LEMMA CompleteShape ==
    ASSUME IInv, NEW b \in Bookings, CompleteService(b)
    PROVE  \E row : Changes(b, row)
<1>1. booking[b] \in Row
  BY DEF IInv, TypeOK
<1>2. PICK minutes \in (IF booking[b].status = "COMPLETED" THEN {booking[b].minutes}
                        ELSE FinalMinutes(b)) :
          Becomes(b, Appointment("COMPLETED", Start(b), minutes, booking[b].emp, "booked"))
  BY DEF CompleteService
<1>3. minutes \in 1..Horizon
  BY <1>1, <1>2, SlotAssumption DEF FinalMinutes, Start, Row
<1> DEFINE row == Appointment("COMPLETED", Start(b), minutes, booking[b].emp, "booked")
<1>4. row \in Row /\ Sound(row) /\ row.origin = "booked" /\ row.status \in AppointmentStatus
  BY <1>1, <1>3, SlotAssumption DEF Appointment, Row, AppointmentStatus, Start, Sound
<1> QED
  BY <1>2, <1>4 DEF CompleteService, Changes, Fact

\* Every step edits the capacity or the windows, or changes one row in one of
\* those ways.
LEMMA StepShape ==
    ASSUME IInv, Next
    PROVE  \/ UNCHANGED booking /\ capacity' \in 1..MaxCapacity /\ windows' \subseteq Windows
           \/ \E b \in Bookings : \E row : Changes(b, row)
<1>1. CASE EditCapacity \/ EditWindows
  BY <1>1 DEF EditCapacity, EditWindows, IInv, TypeOK
<1>2. ASSUME NEW b \in Bookings,
             \/ RequestStep(b) \/ StaffStep(b)
             \/ \E start \in 0..Horizon : RescheduleByChat(b, start)
             \/ CompleteService(b)
      PROVE  \E row : Changes(b, row)
  BY <1>2, RequestShape, StaffShape, RescheduleShape, CompleteShape
<1> QED
  BY <1>1, <1>2 DEF Next

-----------------------------------------------------------------------------
(* Types                                                                   *)

LEMMA InitSound == Init => IInv
  BY SlotAssumption DEF Init, IInv, TypeOK, NoRow, Request, Row, RequestStatus, Sound

LEMMA StepSound == IInv /\ [Next]_vars => IInv'
<1> SUFFICES ASSUME IInv, [Next]_vars PROVE IInv'
  OBVIOUS
<1>1. CASE UNCHANGED vars
  BY <1>1 DEF vars, IInv, TypeOK
<1>2. CASE UNCHANGED booking /\ capacity' \in 1..MaxCapacity /\ windows' \subseteq Windows
  BY <1>2 DEF IInv, TypeOK
<1>3. ASSUME NEW b \in Bookings, NEW row, Changes(b, row)
      PROVE  IInv'
  <2>1. booking' = [booking EXCEPT ![b] = row] /\ UNCHANGED <<capacity, windows>>
        /\ row \in Row /\ Sound(row)
    BY <1>3 DEF Changes, Becomes
  <2> QED
    BY <2>1 DEF IInv, TypeOK
<1> QED
  BY <1>1, <1>2, <1>3, StepShape

LEMMA Invariant == Spec => []IInv
  BY InitSound, StepSound, PTL DEF Spec

\* Rows, bays and windows keep their types, and no booking an empty span: the
\* sweep never meets an event that ends before it starts.
THEOREM TypeCorrect == Spec => []TypeOK
<1>1. IInv => TypeOK
  BY DEF IInv
<1> QED
  BY <1>1, Invariant, PTL

\* _peak_overlap is the number of bookings at the busiest instant of a window,
\* for every set of bookings the program can come to and every window.
THEOREM PeakOverlapIsBusiest == Spec => []PeakIsBusiest
<1>1. TypeOK => PeakIsBusiest
  <2> SUFFICES ASSUME TypeOK, NEW from \in 0..Horizon, NEW to \in 0..Horizon, from < to
               PROVE  LET peak == PeakOverlap(Reserving, from, to)
                      IN  /\ \A t \in from..(to - 1) : InUse(HoldsABay, t) <= peak
                          /\ peak > 0 => \E t \in from..(to - 1) : InUse(HoldsABay, t) = peak
    BY DEF PeakIsBusiest
  <2>1. from \in Nat /\ to \in Nat /\ Reserving = HoldsABay /\ HoldsABay \in SUBSET Bookings
    BY RowFacts DEF HoldsABay
  <2> QED
    BY <2>1, PeakIsMaximum
<1> QED
  BY <1>1, TypeCorrect, PTL

-----------------------------------------------------------------------------
(* What a step may do to the bays and the employees                        *)

\* Changing one row adds at most itself to an instant, and only to an instant
\* of its new span that its old one did not hold.
LEMMA OneRowCounts ==
    ASSUME IInv, NEW b \in Bookings, NEW row \in Row, booking' = [booking EXCEPT ![b] = row],
           NEW t \in Nat
    PROVE  /\ InUse(HoldsABay, t)' \in Nat
           /\ InUse(HoldsABay \ {b}, t) \in Nat
           /\ InUse(HoldsABay, t)' <= InUse(HoldsABay \ {b}, t) + 1
           /\ InUse(HoldsABay, t)' > InUse(HoldsABay, t) =>
                  /\ row.status \notin {"NONE", "EXPIRED", "REJECTED", "CANCELLED"}
                  /\ row.start <= t /\ t < row.start + row.minutes
                  /\ ~(b \in HoldsABay /\ Start(b) <= t /\ t < End(b))
<1> DEFINE Under(S) == {c \in S : Start(c) <= t /\ t < End(c)}
           Others == Under(HoldsABay \ {b})
           Now == {c \in HoldsABay' : booking'[c].start <= t /\ t < booking'[c].start + booking'[c].minutes}
           live == row.status \notin {"NONE", "EXPIRED", "REJECTED", "CANCELLED"}
                   /\ row.start <= t /\ t < row.start + row.minutes
<1>1. booking'[b] = row /\ \A c \in Bookings \ {b} : booking'[c] = booking[c]
  BY DEF IInv, TypeOK
<1>2. InUse(HoldsABay, t)' = Cardinality(Now)
  BY DEF InUse, Start, End
<1>3. InUse(HoldsABay \ {b}, t) = Cardinality(Others) /\ InUse(HoldsABay, t) = Cardinality(Under(HoldsABay))
  BY DEF InUse
<1>4. IsFiniteSet(Others) /\ Cardinality(Others) \in Nat
  <2>1. Others \in SUBSET Bookings
    BY DEF HoldsABay
  <2> QED
    BY <2>1, RowFacts, FS_Subset, FS_CardinalityType DEF IInv
<1>5. \A c \in Bookings \ {b} : c \in Now <=> c \in Others
  BY <1>1 DEF HoldsABay, Start, End
<1>6. Now \subseteq Bookings /\ b \notin Others /\ Others \subseteq Bookings
  BY DEF HoldsABay
<1>7. b \in Now <=> live
  BY <1>1 DEF HoldsABay
<1>8. CASE live
  <2>1. Now = Others \union {b}
    BY <1>5, <1>6, <1>7, <1>8
  <2>2. Cardinality(Now) = Cardinality(Others) + 1
    BY <2>1, <1>4, <1>6, FS_AddElement
  <2>3. ASSUME b \in Under(HoldsABay)
        PROVE  Cardinality(Under(HoldsABay)) = Cardinality(Now)
    BY <2>1, <2>3, Under(HoldsABay) = Others \union {b}
  <2> QED
    BY <1>2, <1>3, <1>4, <1>8, <2>2, <2>3
<1>9. CASE ~live
  <2>1. Now = Others
    BY <1>5, <1>6, <1>7, <1>9
  <2>2. IsFiniteSet(Under(HoldsABay)) /\ Cardinality(Under(HoldsABay)) \in Nat
    <3>1. Under(HoldsABay) \in SUBSET Bookings
      BY DEF HoldsABay
    <3> QED
      BY <3>1, RowFacts, FS_Subset, FS_CardinalityType DEF IInv
  <2>3. Cardinality(Others) <= Cardinality(Under(HoldsABay))
    BY <2>2, FS_Subset, Others \in SUBSET Under(HoldsABay)
  <2>4. InUse(HoldsABay, t)' = Cardinality(Others)
    BY <1>2, <2>1
  <2> HIDE DEF Under, Others
  <2> QED
    BY <1>3, <1>4, <2>2, <2>3, <2>4
<1> QED
  BY <1>8, <1>9

\* The span of a row.
LEMMA SpanFacts ==
    ASSUME NEW row \in Row
    PROVE  /\ row.start \in Nat /\ row.minutes \in Nat
           /\ row.start + row.minutes \in Nat /\ row.start < row.start + row.minutes
BY SlotAssumption DEF Row

\* Whatever was booked, moved, cancelled, brought back, paid late and edited
\* before, only a fact that is recorded or a paid request that is reopened puts
\* more into an instant than there are bays.
THEOREM OnlyFactsOverbook == Spec => OverbookedOnlyByFact
<1> DEFINE A == \A t \in 0..Horizon :
                    InUse(HoldsABay, t)' > capacity' /\ InUse(HoldsABay, t)' > InUse(HoldsABay, t)
                    => FactRecorded \/ \E b \in Bookings : Reopened(b)
<1>1. IInv /\ [Next]_vars => [A]_vars
  <2> SUFFICES ASSUME IInv, Next PROVE A
    OBVIOUS
  <2>1. IInv'
    BY StepSound
  <2>2. CASE UNCHANGED booking
    <3>1. \A t \in 0..Horizon : InUse(HoldsABay, t)' = InUse(HoldsABay, t)
      BY <2>2 DEF InUse, HoldsABay, Start, End
    <3>2. \A t \in 0..Horizon : InUse(HoldsABay, t) \in Nat
      BY InUseType, RowFacts, HoldsABay \in SUBSET Bookings DEF IInv, HoldsABay
    <3> QED
      BY <3>1, <3>2
  <2>3. ASSUME NEW b \in Bookings, NEW row, Changes(b, row), NEW t \in 0..Horizon,
               InUse(HoldsABay, t)' > capacity', InUse(HoldsABay, t)' > InUse(HoldsABay, t)
        PROVE  FactRecorded \/ \E c \in Bookings : Reopened(c)
    <3>1. /\ booking' = [booking EXCEPT ![b] = row] /\ capacity' = capacity /\ row \in Row
          /\ booking'[b] = row /\ t \in Nat
      BY <2>3 DEF Changes, Becomes, IInv, TypeOK
    <3>2. /\ InUse(HoldsABay, t)' <= InUse(HoldsABay \ {b}, t) + 1
          /\ InUse(HoldsABay, t)' \in Nat /\ InUse(HoldsABay \ {b}, t) \in Nat
          /\ row.status \notin {"NONE", "EXPIRED", "REJECTED", "CANCELLED"}
          /\ row.start <= t /\ t < row.start + row.minutes
          /\ ~(b \in HoldsABay /\ Start(b) <= t /\ t < End(b))
      BY <2>3, <3>1, OneRowCounts
    <3>3. Reserving = HoldsABay /\ HoldsABay \ {b} \in SUBSET Bookings /\ capacity \in Nat
      BY RowFacts DEF IInv, HoldsABay
    <3>4. CASE Fact(b, row)
      BY <3>1, <3>4 DEF Fact, FactRecorded
    <3>5. CASE Reopens(b, row)
      BY <3>1, <3>5 DEF Reopens, Reopened
    <3>6. ~Releases(row) /\ ~Keeps(b, row)
      BY <3>2, <3>3 DEF Releases, Keeps, Start, End
    <3>7. CASE Requests(b, row) \/ Schedules(b, row)
      <4>1. HasBay(Reserving \ {b}, row.start, row.start + row.minutes)
        BY <3>1, <3>3, <3>7, SpanFacts, BayAtEveryInstant DEF Requests, Schedules, IInv
      <4>2. t \in row.start..(row.start + row.minutes - 1)
        BY <3>1, <3>2, SpanFacts
      <4>3. InUse(HoldsABay \ {b}, t) + 1 <= capacity
        <5>1. \A i \in row.start..(row.start + row.minutes - 1) :
                  InUse(Reserving \ {b}, i) + 1 <= capacity
          BY <3>1, <3>3, <4>1, SpanFacts, BayAtEveryInstant DEF IInv
        <5> QED
          BY <3>3, <4>2, <5>1
      <4> QED
        BY <2>3, <3>1, <3>2, <3>3, <4>3
    <3> QED
      BY <2>3, <3>4, <3>5, <3>6, <3>7 DEF Changes
  <2> QED
    BY <2>2, <2>3, StepShape
<1> QED
  BY <1>1, Invariant, PTL DEF Spec, OverbookedOnlyByFact

\* A request that comes to reserve its slot, or is approved, leaves the bays
\* that are reserved for walk-ins, at every instant of its job.
THEOREM WalkInBaysAreLeft == Spec => RequestsLeaveReservedBays
<1> DEFINE A == \A b \in Bookings :
                    /\ \/ b \notin HoldsABay /\ booking'[b].status \in {"HELD", "PENDING"} /\ ~Reopened(b)
                       \/ booking[b].status = "PENDING" /\ booking'[b].status = "BOOKED"
                    => \A t \in 0..Horizon : (Start(b) <= t /\ t < End(b))' =>
                           InUse(HoldsABay, t)' + ReservedAt(t) <= capacity
<1>1. IInv /\ [Next]_vars => [A]_vars
  <2> SUFFICES ASSUME IInv, Next PROVE A
    OBVIOUS
  <2>1. CASE UNCHANGED booking
    <3>1. \A b \in Bookings : booking[b].status \in {"HELD", "PENDING"} => b \in HoldsABay
      BY DEF HoldsABay
    <3> QED
      BY <2>1, <3>1
  <2>2. ASSUME NEW d \in Bookings, NEW row, Changes(d, row), NEW b \in Bookings,
               \/ b \notin HoldsABay /\ booking'[b].status \in {"HELD", "PENDING"} /\ ~Reopened(b)
               \/ booking[b].status = "PENDING" /\ booking'[b].status = "BOOKED",
               NEW t \in 0..Horizon, (Start(b) <= t /\ t < End(b))'
        PROVE  InUse(HoldsABay, t)' + ReservedAt(t) <= capacity
    <3>1. /\ booking' = [booking EXCEPT ![d] = row] /\ capacity' = capacity /\ row \in Row
          /\ booking'[d] = row /\ t \in Nat
          /\ \A c \in Bookings \ {d} : booking'[c] = booking[c]
      BY <2>2 DEF Changes, Becomes, IInv, TypeOK
    <3>2. b = d
      BY <2>2, <3>1 DEF HoldsABay
    <3>3. /\ Reserving = HoldsABay /\ HoldsABay \ {b} \in SUBSET Bookings /\ capacity \in Nat
          /\ row.start <= t /\ t < row.start + row.minutes
      BY <2>2, <3>1, <3>2, RowFacts DEF IInv, HoldsABay, Start, End
    <3>4. \/ b \notin HoldsABay /\ row.status \in {"HELD", "PENDING"} /\ ~Reopened(b)
          \/ booking[b].status = "PENDING" /\ row.status = "BOOKED"
      BY <2>2, <3>1, <3>2
    <3>5. HasRoom(Reserving \ {b}, row.start, row.start + row.minutes)
      <4>1. ~Fact(b, row)
        BY <3>4 DEF Fact, AppointmentStatus, IInv, Sound
      <4>2. ~Reopens(b, row) /\ ~Releases(row)
        BY <3>1, <3>2, <3>4 DEF Reopens, Reopened, Releases
      <4>3. ~Keeps(b, row)
        BY <3>3, <3>4 DEF Keeps, RequestStatus, AppointmentStatus
      <4>4. Requests(b, row) \/ Schedules(b, row)
        BY <2>2, <3>2, <4>1, <4>2, <4>3 DEF Changes
      <4> QED
        BY <3>4, <4>4 DEF Requests, Schedules, RequestStatus, AppointmentStatus
    <3>6. t \in row.start..(row.start + row.minutes - 1)
      BY <3>1, <3>3, SpanFacts
    <3>7. InUse(HoldsABay \ {b}, t) + 1 + ReservedAt(t) <= capacity
      <4> DEFINE from == row.start
                 to == row.start + row.minutes
      <4>1. TypeOK /\ from \in Nat /\ to \in Nat /\ from < to /\ Reserving \ {b} \in SUBSET Bookings
        BY <3>1, <3>3, SpanFacts DEF IInv
      <4>2. HasRoom(Reserving \ {b}, from, to)
        BY <3>5
      <4>3. t \in from..(to - 1)
        BY <3>1, <3>3, SpanFacts
      <4> HIDE DEF from, to
      <4> QED
        BY <3>3, <4>1, <4>2, <4>3, BayAtEveryInstant
    <3>8. ReservedAt(t) \in Nat
      BY <3>1, <3>3, <3>6, SpanFacts, ReservedCovers DEF IInv
    <3>9. /\ InUse(HoldsABay, t)' <= InUse(HoldsABay \ {b}, t) + 1
          /\ InUse(HoldsABay, t)' \in Nat /\ InUse(HoldsABay \ {b}, t) \in Nat
      BY <3>1, <3>2, OneRowCounts
    <3> QED
      BY <3>3, <3>7, <3>8, <3>9
  <2> QED
    BY <2>1, <2>2, StepShape
<1> QED
  BY <1>1, Invariant, PTL DEF Spec, RequestsLeaveReservedBays

\* Nothing but a fact that is recorded gives an employee two appointments at
\* the same instant.
THEOREM EmployeesAreSingle == Spec => NoEmployeeDoubleBooked
<1> DEFINE A == \A b, c \in Bookings : Clash(b, c)' /\ ~Clash(b, c) => FactRecorded
<1>1. IInv /\ [Next]_vars => [A]_vars
  <2> SUFFICES ASSUME IInv, Next PROVE A
    OBVIOUS
  <2>1. CASE UNCHANGED booking
    BY <2>1 DEF Clash, Start, End
  <2>2. ASSUME NEW d \in Bookings, NEW row, Changes(d, row), ~FactRecorded,
               NEW c \in Bookings \ {d}, Clash(d, c)'
        PROVE  Clash(d, c)
    <3>1. /\ booking'[d] = row /\ booking'[c] = booking[c] /\ row \in Row
      BY <2>2 DEF Changes, Becomes, IInv, TypeOK
    <3>2. /\ row.emp = booking[c].emp
          /\ {row.status, booking[c].status} \subseteq AppointmentStatus \ {"CANCELLED"}
          /\ row.start < End(c) /\ Start(c) < row.start + row.minutes
      BY <2>2, <3>1 DEF Clash, Start, End
    <3>3. ~Fact(d, row) /\ ~Reopens(d, row) /\ ~Releases(row) /\ ~Requests(d, row)
      BY <2>2, <3>1, <3>2 DEF Fact, FactRecorded, Reopens, Releases, Requests, RequestStatus,
                              AppointmentStatus
    <3>4. ~Schedules(d, row)
      BY <3>2 DEF Schedules, EmployeeFree
    <3>5. Keeps(d, row)
      BY <2>2, <3>3, <3>4 DEF Changes
    <3> QED
      BY <3>2, <3>5 DEF Keeps, Clash, Start, End, RequestStatus, AppointmentStatus
  <2>3. ASSUME NEW d \in Bookings, NEW row, Changes(d, row), ~FactRecorded,
               NEW b \in Bookings, NEW c \in Bookings, Clash(b, c)'
        PROVE  Clash(b, c)
    <3>1. /\ \A e \in Bookings \ {d} : booking'[e] = booking[e]
          /\ b # c
      BY <2>3 DEF Changes, Becomes, IInv, TypeOK, Clash
    <3>2. CASE b = d
      BY <2>2, <2>3, <3>1, <3>2
    <3>3. CASE c = d
      <4>1. Clash(c, b)'
        BY <2>3 DEF Clash
      <4>2. Clash(c, b)
        BY <2>2, <2>3, <3>1, <3>3, <4>1
      <4> QED
        BY <4>2 DEF Clash
    <3>4. CASE b # d /\ c # d
      BY <2>3, <3>1, <3>4 DEF Clash, Start, End
    <3> QED
      BY <3>2, <3>3, <3>4
  <2> QED
    BY <2>1, <2>3, StepShape
<1> QED
  BY <1>1, Invariant, PTL DEF Spec, NoEmployeeDoubleBooked
=============================================================================
