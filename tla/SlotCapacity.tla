---------------------------- MODULE SlotCapacity ----------------------------
(***************************************************************************)
(* The bays of one business on one day: what reserves them, and the checks *)
(* every channel runs before it takes one - the public page, staff         *)
(* approving a request, staff scheduling, a customer rescheduling by chat, *)
(* a late payment - next to those that record a fact without asking: a     *)
(* walk-in taken into service, an import, a payment recovery.              *)
(*                                                                         *)
(* Each of these holds the garage's row lock, so each is one action.  The  *)
(* clock is left out: a hold lapses and a slot passes at any time.         *)
(* Instants are slots of the day.                                          *)
(***************************************************************************)
EXTENDS Integers, FiniteSets

CONSTANTS Bookings,     \* requests and appointments that may be made
          Employees,
          NoEmployee,   \* of a request, which nobody is assigned to yet
          Windows,      \* reserved walk-in windows the owner may have set up
          MaxCapacity,  \* bound: bays
          Opens, Closes,
          Horizon,      \* bound: the day is 0..Horizon
          MaxMinutes    \* bound: how long a job is

ASSUME SlotAssumption ==
    /\ IsFiniteSet(Bookings)
    /\ MaxCapacity \in Nat \ {0} /\ MaxMinutes \in Nat \ {0}
    /\ Opens \in Nat /\ Closes \in Nat /\ Horizon \in Nat \ {0} /\ Closes <= Horizon
    /\ Windows \subseteq [from : Nat, to : Nat, bays : Nat] /\ IsFiniteSet(Windows)
    /\ NoEmployee \notin Employees

VARIABLES booking,   \* BookingRequest rows, and the Appointment each becomes
          capacity,  \* capacity_per_slot, or the number of employees
          windows    \* WalkInReservedWindow rows

vars == <<booking, capacity, windows>>

\* "HELD" is AWAITING_PAYMENT or AWAITING_TERMS, "BOOKED" every status an owner
\* may configure that is not final.
RequestStatus == {"NONE", "HELD", "PENDING", "EXPIRED", "REJECTED"}
AppointmentStatus == {"BOOKED", "COMPLETED", "NO_SHOW", "CANCELLED"}

\* "base" is the service's own length, "minutes" that of the job with its
\* add-ons; "deposit" whether a payment row is open or taken; "origin" tells a
\* walk-in the queue still serves and an imported appointment from the rest.
Row == [status : RequestStatus \union AppointmentStatus, start : 0..Horizon, minutes : 1..Horizon,
        base : 0..Horizon, emp : Employees \union {NoEmployee},
        deposit : {"none", "open", "taken"}, origin : {"booked", "walkIn", "import"}]

Request(status, start, minutes, base, deposit) ==
    [status |-> status, start |-> start, minutes |-> minutes, base |-> base, emp |-> NoEmployee,
     deposit |-> deposit, origin |-> "booked"]
Appointment(status, start, minutes, emp, origin) ==
    [status |-> status, start |-> start, minutes |-> minutes, base |-> 0, emp |-> emp,
     deposit |-> "none", origin |-> origin]
NoRow == Request("NONE", 0, 1, 0, "none")

Init == /\ booking = [b \in Bookings |-> NoRow]
        /\ capacity = MaxCapacity
        /\ windows = {}

-----------------------------------------------------------------------------
(* What is in use *)

Start(b) == booking[b].start
End(b) == booking[b].start + booking[b].minutes

\* _load_day_usage: every appointment that is not cancelled, every live request.
Reserving == {b \in Bookings : booking[b].status \in
                {"HELD", "PENDING", "BOOKED", "COMPLETED", "NO_SHOW"}}

Later(a, c) == IF a < c THEN c ELSE a
Earlier(a, c) == IF a < c THEN a ELSE c
Greatest(S) == CHOOSE m \in S : \A n \in S : n <= m

Touching(S, from, to) == {b \in S : Start(b) < to /\ End(b) > from}

\* The running count of _peak_overlap after the last event that starts at t:
\* events are clipped to the window, and at one instant ends sort before starts.
Current(S, from, to, t) ==
    Cardinality({b \in Touching(S, from, to) : Later(Start(b), from) <= t})
      - Cardinality({b \in Touching(S, from, to) : Earlier(End(b), to) <= t})

\* Mutation of PeakOverlap: the bookings that touch the window anywhere.
TouchCount(S, from, to) == Cardinality(Touching(S, from, to))

\* Mutation of PeakOverlap: what is in use when the job starts.
UsageAtStart(S, from, to) == Cardinality({b \in S : Start(b) <= from /\ from < End(b)})

PeakOverlap(S, from, to) ==
    Greatest({0} \union {Current(S, from, to, Later(Start(b), from)) : b \in Touching(S, from, to)})

\* Mutation of ReservedOver: only the windows open when the job starts.
ReservedAtStart(from, to) ==
    Greatest({0} \union {w.bays : w \in {v \in windows : v.from <= from /\ from < v.to}})

\* _reserved_at: the largest reservation of the windows the job touches.
ReservedOver(from, to) ==
    Greatest({0} \union {w.bays : w \in {v \in windows : v.from < to /\ v.to > from}})

\* slot_capacity_usage without and with the walk-in reservations.
HasBay(S, from, to) == PeakOverlap(S, from, to) < capacity
HasRoom(S, from, to) == PeakOverlap(S, from, to) + ReservedOver(from, to) < capacity

WithinHours(start, minutes) == Opens <= start /\ start + minutes <= Closes

\* Mutation of EmployeeFree: only what is under way when the job starts.
FreeAtStart(emp, from, to, b) ==
    \A c \in Bookings \ {b} :
        booking[c].status \in AppointmentStatus \ {"CANCELLED"} /\ booking[c].emp = emp
            => ~(Start(c) <= from /\ from < End(c))

EmployeeFree(emp, from, to, b) ==
    \A c \in Bookings \ {b} :
        booking[c].status \in AppointmentStatus \ {"CANCELLED"} /\ booking[c].emp = emp
            => ~(Start(c) < to /\ from < End(c))

Becomes(b, row) == /\ booking' = [booking EXCEPT ![b] = row]
                   /\ UNCHANGED <<capacity, windows>>

-----------------------------------------------------------------------------
(* Requests *)

\* The public form, a deposit checkout, or a booking by chat or phone: the slot
\* is validated for the whole job before the request reserves it.
Submit(b, start, minutes, base, status, deposit) ==
    /\ booking[b].status = "NONE"
    /\ status = "PENDING" => deposit = "none"
    /\ base <= minutes
    /\ WithinHours(start, minutes)
    /\ HasRoom(Reserving, start, start + minutes)
    /\ Becomes(b, Request(status, start, minutes, base, deposit))

\* accept_by_token: to the staff, or on to the deposit.
AcceptTerms(b) ==
    /\ booking[b].status = "HELD" /\ booking[b].deposit = "none"
    /\ \/ Becomes(b, [booking[b] EXCEPT !.status = "PENDING"])
       \/ Becomes(b, [booking[b] EXCEPT !.deposit = "open"])

\* A success in time; the slot is already reserved.
PaymentSucceeds(b) ==
    /\ booking[b].status = "HELD" /\ booking[b].deposit = "open"
    /\ Becomes(b, [booking[b] EXCEPT !.status = "PENDING", !.deposit = "taken"])

\* A hold lapses or is abandoned, a slot passes unreviewed, or staff reject.
Expire(b) == /\ booking[b].status \in {"HELD", "PENDING"}
             /\ Becomes(b, [booking[b] EXCEPT !.status = "EXPIRED"])
Reject(b) == /\ booking[b].status = "PENDING"
             /\ Becomes(b, [booking[b] EXCEPT !.status = "REJECTED"])

\* _reinstate_or_flag_expired_booking: the slot is validated again, for the
\* length of the service.
LatePayment(b) ==
    /\ booking[b].status = "EXPIRED" /\ booking[b].deposit = "open"
    /\ LET row == booking[b]
           fits == /\ WithinHours(row.start, row.base)
                   /\ HasRoom(Reserving, row.start, row.start + row.base)
       IN  \/ fits /\ Becomes(b, [row EXCEPT !.status = "PENDING", !.deposit = "taken"])
           \/ Becomes(b, [row EXCEPT !.deposit = "taken"])

\* The recovery of a paid request reopens it without looking at the slot; that
\* of an approved one, which leaves its appointment behind, is DepositBooking's.
Recover(b) ==
    /\ booking[b].status \in {"EXPIRED", "REJECTED"} /\ booking[b].deposit = "taken"
    /\ Becomes(b, [booking[b] EXCEPT !.status = "PENDING"])

\* Staff approve, as requested or at a time of their own; auto-accept is the
\* same with the first free employee.
Approve(b, emp, start, minutes) ==
    /\ booking[b].status = "PENDING"
    /\ EmployeeFree(emp, start, start + minutes, b)
    /\ HasRoom(Reserving \ {b}, start, start + minutes)
    /\ Becomes(b, Appointment("BOOKED", start, minutes, emp, "booked"))

-----------------------------------------------------------------------------
(* Appointments *)

CreateAppointment(b, emp, start, minutes, status) ==
    /\ booking[b].status = "NONE"
    /\ EmployeeFree(emp, start, start + minutes, b)
    /\ status # "CANCELLED" => HasBay(Reserving, start, start + minutes)
    /\ Becomes(b, Appointment(status, start, minutes, emp, "booked"))

MayBecome(from, to) == \/ from = to
                       \/ from = "BOOKED"
                       \/ from = "CANCELLED" /\ to = "BOOKED"

\* The staff form, and its delete, which cancels.  A live schedule that changes,
\* or comes back to life, is checked; an import that is moved is an ordinary
\* appointment from then on.
PatchAppointment(b, emp, start, minutes, status) ==
    LET row == booking[b]
        moved == start # row.start \/ minutes # row.minutes
        rescheduled == moved \/ emp # row.emp \/ row.status = "CANCELLED"
    IN  /\ row.status \in AppointmentStatus
        /\ MayBecome(row.status, status)
        /\ rescheduled /\ status # "CANCELLED" =>
               /\ EmployeeFree(emp, start, start + minutes, b)
               /\ HasBay(Reserving \ {b}, start, start + minutes)
        /\ Becomes(b, Appointment(status, start, minutes, emp,
                                  IF moved /\ row.origin = "import" THEN "booked" ELSE row.origin))

\* reschedule_appointment: the customer moves it by chat, within public rules.
RescheduleByChat(b, start) ==
    LET row == booking[b]
    IN  /\ row.status = "BOOKED"
        /\ WithinHours(start, row.minutes)
        /\ HasRoom(Reserving \ {b}, start, start + row.minutes)
        /\ EmployeeFree(row.emp, start, start + row.minutes, b)
        /\ Becomes(b, [row EXCEPT !.start = start])

\* start_service: the customer is being served, whatever the books say.
StartService(b, emp, start, minutes) ==
    /\ booking[b].status = "NONE"
    /\ Becomes(b, Appointment("BOOKED", start, minutes, emp, "walkIn"))

\* The actual length, at least one minute.
FinalMinutes(b) == 1..(Horizon - Start(b))

\* complete_service: the actual end replaces the planned one, unless staff have
\* completed the appointment already.
CompleteService(b) ==
    /\ booking[b].origin = "walkIn"
    /\ \E minutes \in (IF booking[b].status = "COMPLETED" THEN {booking[b].minutes}
                       ELSE FinalMinutes(b)) :
           Becomes(b, Appointment("COMPLETED", Start(b), minutes, booking[b].emp, "booked"))

\* An import whose warnings about clashes and capacity were acknowledged.
ImportAppointment(b, emp, start, minutes, status) ==
    /\ booking[b].status = "NONE"
    /\ Becomes(b, Appointment(status, start, minutes, emp, "import"))

-----------------------------------------------------------------------------
EditCapacity == /\ capacity' \in 1..MaxCapacity
                /\ UNCHANGED <<booking, windows>>
EditWindows == /\ windows' \in SUBSET Windows
               /\ UNCHANGED <<booking, capacity>>

\* Bounded inputs: a job of at most MaxMinutes inside the day.
Jobs == {job \in (0..Horizon) \X (1..MaxMinutes) : job[1] + job[2] <= Horizon}

RequestStep(b) ==
    \/ \E job \in Jobs, base \in 1..MaxMinutes, status \in {"HELD", "PENDING"}, deposit \in {"none", "open"} :
           Submit(b, job[1], job[2], base, status, deposit)
    \/ AcceptTerms(b) \/ PaymentSucceeds(b) \/ Expire(b) \/ Reject(b)
    \/ LatePayment(b) \/ Recover(b)

StaffStep(b) ==
    \E emp \in Employees, job \in Jobs :
        \/ Approve(b, emp, job[1], job[2])
        \/ StartService(b, emp, job[1], job[2])
        \/ \E status \in AppointmentStatus :
               \/ CreateAppointment(b, emp, job[1], job[2], status)
               \/ PatchAppointment(b, emp, job[1], job[2], status)
               \/ ImportAppointment(b, emp, job[1], job[2], status)

Next == \/ EditCapacity \/ EditWindows
        \/ \E b \in Bookings : \/ RequestStep(b) \/ StaffStep(b)
                               \/ \E start \in 0..Horizon : RescheduleByChat(b, start)
                               \/ CompleteService(b)

Spec == Init /\ [][Next]_vars

-----------------------------------------------------------------------------
(* Properties *)

\* Rows, bays and windows keep their types; no booking has an empty span.
TypeOK == /\ booking \in [Bookings -> Row]
          /\ capacity \in 1..MaxCapacity
          /\ windows \subseteq Windows

\* The reference the checks are measured against: who holds a bay at instant t.
HoldsABay == {b \in Bookings : booking[b].status \notin {"NONE", "EXPIRED", "REJECTED", "CANCELLED"}}
InUse(S, t) == Cardinality({b \in S : Start(b) <= t /\ t < End(b)})
ReservedAt(t) ==
    Greatest({0} \union {w.bays : w \in {v \in windows : v.from <= t /\ t < v.to}})

\* The sweep over clipped events finds the busiest instant of every window, and
\* does not count bookings that only touch it at different times.
PeakIsBusiest ==
    \A from, to \in 0..Horizon : from < to =>
        LET peak == PeakOverlap(Reserving, from, to)
        IN  /\ \A t \in from..(to - 1) : InUse(HoldsABay, t) <= peak
            /\ peak > 0 => \E t \in from..(to - 1) : InUse(HoldsABay, t) = peak

\* Steps that record a fact: a walk-in goes into service or leaves it, or an
\* import with its warnings acknowledged.
FactRecorded ==
    \E b \in Bookings :
        \/ booking[b].status = "NONE" /\ booking'[b].origin # "booked"
        \/ booking[b].origin = "walkIn" /\ booking'[b].origin = "booked"

\* Steps that reopen a paid request without validating the whole job.
Reopened(b) ==
    /\ booking[b].status \in {"EXPIRED", "REJECTED"} /\ booking'[b].status = "PENDING"
    /\ booking[b].deposit = "taken" \/ booking[b].base < booking[b].minutes

\* Nothing but a recorded fact or a reopened payment puts more into an instant
\* than there are bays, whatever was booked, moved, cancelled and edited before.
OverbookedOnlyByFact ==
    [][\A t \in 0..Horizon :
        InUse(HoldsABay, t)' > capacity' /\ InUse(HoldsABay, t)' > InUse(HoldsABay, t)
        => FactRecorded \/ \E b \in Bookings : Reopened(b)]_vars

\* A request that comes to reserve its slot, or to be an appointment, leaves the
\* bays reserved for walk-ins alone, at every instant of its job.
RequestsLeaveReservedBays ==
    [][\A b \in Bookings :
        /\ \/ b \notin HoldsABay /\ booking'[b].status \in {"HELD", "PENDING"} /\ ~Reopened(b)
           \/ booking[b].status = "PENDING" /\ booking'[b].status = "BOOKED"
        => \A t \in 0..Horizon : (Start(b) <= t /\ t < End(b))' =>
               InUse(HoldsABay, t)' + ReservedAt(t) <= capacity]_vars

Clash(b, c) ==
    /\ b # c /\ booking[b].emp = booking[c].emp
    /\ {booking[b].status, booking[c].status} \subseteq AppointmentStatus \ {"CANCELLED"}
    /\ Start(b) < End(c) /\ Start(c) < End(b)

\* Nothing but a recorded fact gives an employee two appointments at once.
NoEmployeeDoubleBooked ==
    [][\A b, c \in Bookings : Clash(b, c)' /\ ~Clash(b, c) => FactRecorded]_vars
=============================================================================
