-------------------------- MODULE BookingCalendar ---------------------------
(* The calendar that customers choose from. Times are offered, days coloured and
   alternatives searched by one computation, and a chosen time is accepted by another,
   over rows that the business, other customers and the clock go on changing. *)
EXTENDS Naturals, FiniteSets, FiniteSetsExt

CONSTANTS Customers, LastDay, Length, Jobs, OpenHours, SpecialDays, SpecialHours, Settings, Advance, None

\* now: the time; a day has Length units. hours: GarageOpeningHours, the same on every
\* weekday. exceptions: GarageScheduleException, by date. settings:
\* GarageScheduleSettings. withheld: a WalkInReservedWindow of every weekday. taken: the
\* bookings and requests that hold their time.
VARIABLES now, hours, exceptions, settings, withheld, taken

calendarVars == <<now, hours, exceptions, settings, withheld, taken>>

Days == 0..LastDay
Instant(day, t) == day * Length + t
Today == now \div Length

Init == /\ now = 0 /\ hours \in OpenHours /\ exceptions = [d \in Days |-> None]
        /\ settings \in Settings /\ withheld = None /\ taken = [c \in Customers |-> None]

-----------------------------------------------------------------------------
\* _day_hours: an exception that is not closed has both of its times.
DayHours(day) == IF exceptions[day] # None THEN exceptions[day] ELSE hours

\* _load_day_usage, _slot_usage and _peak_overlap: the busiest moment of a job.
Holding(u) == {c \in Customers : /\ taken[c] # None
                                 /\ Instant(taken[c].day, taken[c].at) <= u
                                 /\ u < Instant(taken[c].day, taken[c].at) + taken[c].length}
Used(day, t, length) == Max({Cardinality(Holding(u)) : u \in Instant(day, t)..Instant(day, t) + length - 1})

\* _load_reserved_windows and _reserved_at.
Reserved(t, length) == IF withheld = None \/ withheld.from >= t + length \/ withheld.until <= t
                       THEN 0 ELSE withheld.bays

Remaining(day, t, length) ==
    LET away == Reserved(t, length) + Used(day, t, length)
    IN IF away >= settings.capacity THEN 0 ELSE settings.capacity - away

\* Mutation of Fits: a job that starts before closing.
Starts(h, t, length) == t < h.closes
Fits(h, t, length) == t + length <= h.closes

\* day_slots: the times after the notice, and those of them that are free. With room for
\* more than one, the last half of it is shown as limited.
Slots(day, length) ==
    LET h == DayHours(day) IN
    {t \in IF h.closed THEN {} ELSE h.opens..Length :
        /\ (t - h.opens) % settings.interval = 0 /\ Fits(h, t, length)
        /\ Instant(day, t) >= now + settings.lead}
Free(day, length) == {t \in Slots(day, length) : Remaining(day, t, length) > 0}
Limited(day, length) == {t \in Free(day, length) : Remaining(day, t, length) <= settings.capacity \div 2}

SummaryLength(length) == length

\* day_summary, for the service that was chosen.
Level(day, length) ==
    LET l == SummaryLength(length)
        open == Cardinality(Free(day, l)) IN
    CASE day < Today -> "past"
      [] day >= Today /\ DayHours(day).closed -> "closed"
      [] OTHER -> IF open = 0 THEN "full"
                  ELSE IF Limited(day, l) # {} \/ open <= Max({1, Cardinality(Slots(day, l)) \div 3})
                  THEN "limited" ELSE "available"

\* single_day.
Offered(day, length) ==
    IF Level(day, length) \in {"past", "closed"} THEN {} ELSE Free(day, length)

\* booking_window, and find_next_available_days within it.
WindowEnd == Today + Advance
NextDays(start, length) == {d \in Days : d >= start /\ d >= Today /\ d <= WindowEnd /\ Offered(d, length) # {}}

\* validate_slot, on a time that was asked for.
Validate(day, t, length) ==
    LET h == DayHours(day) IN
    CASE day < Today -> "past"
      [] day > WindowEnd -> "out_of_window"
      [] day \in Today..WindowEnd /\ h.closed -> "closed"
      [] OTHER -> IF t < h.opens \/ t + length > h.closes THEN "outside_hours"
                  ELSE IF Instant(day, t) <= now THEN "past"
                  ELSE IF Instant(day, t) < now + settings.lead THEN "too_soon"
                  ELSE IF Remaining(day, t, length) = 0 THEN "full" ELSE "accepted"

-----------------------------------------------------------------------------
\* _lock_and_validate_slot, for a customer with any time in mind.
Book(c, day, t, length) ==
    /\ taken[c] = None /\ Validate(day, t, length) = "accepted"
    /\ taken' = [taken EXCEPT ![c] = [day |-> day, at |-> t, length |-> length]]
    /\ UNCHANGED <<now, hours, exceptions, settings, withheld>>

\* A cancellation, an expiry or a rejection.
Release(c) == /\ taken[c] # None /\ taken' = [taken EXCEPT ![c] = None]
              /\ UNCHANGED <<now, hours, exceptions, settings, withheld>>

\* GarageOpeningHoursResource.put or update_opening_hours: opens before it closes.
EditHours(h) == /\ h.opens < h.closes \/ h.closed
                /\ hours' = h
                /\ UNCHANGED <<now, exceptions, settings, withheld, taken>>

\* GarageScheduleExceptionList.post does not look which comes first.
AddException(day, h) ==
    /\ exceptions[day] = None /\ exceptions' = [exceptions EXCEPT ![day] = h]
    /\ UNCHANGED <<now, hours, settings, withheld, taken>>
DropException(day) ==
    /\ exceptions[day] # None /\ exceptions' = [exceptions EXCEPT ![day] = None]
    /\ UNCHANGED <<now, hours, settings, withheld, taken>>

\* GarageScheduleSettingsResource.put or update_booking_settings; the walk-in windows.
EditSettings(s) == settings' = s /\ UNCHANGED <<now, hours, exceptions, withheld, taken>>
EditWindow(w) == withheld' = w /\ UNCHANGED <<now, hours, exceptions, settings, taken>>

Tick == now < LastDay * Length /\ now' = now + 1
        /\ UNCHANGED <<hours, exceptions, settings, withheld, taken>>

Windows == {None} \union [from : {1}, until : {2, Length}, bays : {1}]

Next == \/ \E c \in Customers : \/ Release(c)
                                \/ \E d \in Days, t \in 0..Length, l \in Jobs : Book(c, d, t, l)
        \/ \E h \in OpenHours : EditHours(h)
        \/ \E d \in SpecialDays : DropException(d) \/ \E h \in SpecialHours : AddException(d, h)
        \/ \E s \in Settings : EditSettings(s)
        \/ \E w \in Windows : EditWindow(w)
        \/ Tick

Spec == Init /\ [][Next]_calendarVars

-----------------------------------------------------------------------------
\* availability.py: "what the calendar offers and what a booking is allowed always agree" -
\* on the days of the booking window, and but for a job that would start this instant. A
\* day is shown as bookable, and found as an alternative, for the jobs it has room for,
\* whatever their length, and as available only if there is more than one time to choose.
CalendarIsHonest ==
    \A d \in Today..WindowEnd \cap Days, l \in Jobs :
        LET accepted == {t \in 0..Length : Validate(d, t, l) = "accepted"}
            later == {t \in Offered(d, l) : Instant(d, t) > now} IN
        /\ later = {t \in accepted : (t - DayHours(d).opens) % settings.interval = 0}
        /\ Instant(d, 0) > now => /\ (d \in NextDays(d, l)) = (later # {})
                                  /\ Level(d, l) \in {"limited", "available"} <=> later # {}
                                  /\ Level(d, l) = "available" => Cardinality(accepted) > 1
=============================================================================
