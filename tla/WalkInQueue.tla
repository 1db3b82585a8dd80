---------------------------- MODULE WalkInQueue ----------------------------
(***************************************************************************)
(* The live walk-in queue of one garage (app/queueing/service.py): joining,*)
(* calling, serving and leaving, the sweep that ends yesterday's leftovers *)
(* and skips whoever does not come forward, staff reordering, and the      *)
(* appointment a walk-in becomes when they are served.                     *)
(*                                                                         *)
(* Every transition holds the garage's row lock, so each is one action.    *)
(* A join is two: it sweeps in a transaction of its own before it takes    *)
(* the lock, and acts on the day it read when it began.                    *)
(***************************************************************************)
EXTENDS Naturals, FiniteSets

CONSTANTS Entries,   \* places in the queue that may be created
          Phones,    \* mobile numbers
          NoPhone,   \* joined without one
          LastDay    \* bound: the days considered are 1..LastDay

ASSUME QueueAssumption == IsFiniteSet(Entries) /\ LastDay \in Nat \ {0}

VARIABLES entry,       \* QueueEntry rows, with the request creating each
          day,         \* the garage's local day
          isOpen,      \* GarageQueueSettings.is_open
          timeoutOn    \* no_show_timeout_minutes is set

vars == <<entry, day, isOpen, timeoutOn>>

Status == {"NONE", "JOINING", "WAITING", "CALLED", "IN_SERVICE", "DONE", "CANCELLED", "NO_SHOW"}
EndReason == {"none", "LEFT", "CALL_TIMEOUT", "DAY_ENDED"}
AppointmentStatus == {"none", "IN_PROGRESS", "COMPLETED", "CANCELLED", "NO_SHOW"}

\* "day" is service_date (for a request in flight, the day it read), "ticket"
\* ticket_number, "key" sort_key, "lapsed" that the call is older than the
\* no-show timeout, "appt" the status of the row's appointment.  "reason" is
\* end_reason, LEFT standing for what staff or the customer decided.
Row == [status : Status, day : 0..LastDay, ticket : Nat, key : Nat, phone : Phones \union {NoPhone},
        reason : EndReason, lapsed : BOOLEAN, appt : AppointmentStatus]

NewRow(status, d, phone) ==
    [status |-> status, day |-> d, ticket |-> 0, key |-> 0, phone |-> phone,
     reason |-> "none", lapsed |-> FALSE, appt |-> "none"]
NoRow == NewRow("NONE", 0, NoPhone)

Init == /\ entry = [e \in Entries |-> NoRow]
        /\ day = 1
        /\ isOpen = FALSE
        /\ timeoutOn = TRUE

Stored == {e \in Entries : entry[e].status \notin {"NONE", "JOINING"}}
OfDay(d) == {e \in Stored : entry[e].day = d}
Waiting(d) == {e \in OfDay(d) : entry[e].status = "WAITING"}
Active(d) == {e \in OfDay(d) : entry[e].status \in {"WAITING", "CALLED", "IN_SERVICE"}}

\* ORDER BY sort_key, created_at; rows of a day are created in ticket order.
Before(e, f) == \/ entry[e].key < entry[f].key
                \/ entry[e].key = entry[f].key /\ entry[e].ticket < entry[f].ticket

Greatest(S) == CHOOSE m \in S : \A n \in S : n <= m
Least(S) == CHOOSE m \in S : \A n \in S : m <= n

-----------------------------------------------------------------------------
(* The sweep *)

Stale == {e \in Stored : entry[e].day < day /\ entry[e].status \in {"WAITING", "CALLED"}}
TimedOut == IF timeoutOn
            THEN {e \in OfDay(day) : entry[e].status = "CALLED" /\ entry[e].lapsed}
            ELSE {}

\* Mutation of NextInLine: only one replacement is called per sweep.
OneReplacement(n) ==
    {e \in Waiting(day) : n > 0 /\ \A f \in Waiting(day) : ~Before(f, e)}

\* Mutation of NextInLine: replacements in ticket order, whatever staff made of it.
ByTicket(n) ==
    {e \in Waiting(day) :
        Cardinality({f \in Waiting(day) : entry[f].ticket < entry[e].ticket}) < n}

\* The n first in line (all of them, if there are fewer).
NextInLine(n) == {e \in Waiting(day) : Cardinality({f \in Waiting(day) : Before(f, e)}) < n}

\* _end and _mark_called, as the new values of a row.
Ended(e, status, reason) == [entry[e] EXCEPT !.status = status, !.reason = reason, !.lapsed = FALSE]
Called(e) == [entry[e] EXCEPT !.status = "CALLED", !.lapsed = FALSE]

SweptToCall == NextInLine(Cardinality(TimedOut))

\* Mutation of Swept: only today's calls are looked at.
StaleForgotten(e) ==
    CASE e \in TimedOut -> Ended(e, "NO_SHOW", "CALL_TIMEOUT")
      [] e \in SweptToCall -> Called(e)
      [] OTHER -> entry[e]

Swept(e) ==
    CASE e \in Stale -> Ended(e, "CANCELLED", "DAY_ENDED")
      [] e \in TimedOut -> Ended(e, "NO_SHOW", "CALL_TIMEOUT")
      [] e \in SweptToCall -> Called(e)
      [] OTHER -> entry[e]

\* sweep_queue as every read of the queue and the command line run it; with
\* nothing due it changes nothing.
SweepQueue ==
    /\ Stale \union TimedOut # {}
    /\ entry' = [e \in Entries |-> Swept(e)]
    /\ UNCHANGED <<day, isOpen, timeoutOn>>

-----------------------------------------------------------------------------
(* Joining *)

\* join_queue's first transaction: the request reads the clock and sweeps.
BeginJoin(e, phone) ==
    /\ entry[e].status = "NONE"
    /\ entry' = [f \in Entries |-> IF f = e THEN NewRow("JOINING", day, phone) ELSE Swept(f)]
    /\ UNCHANGED <<day, isOpen, timeoutOn>>

\* Mutation of AlreadyInQueue: somebody called forward counts as gone.
AlreadyWaiting(e) ==
    /\ entry[e].phone # NoPhone
    /\ \E f \in Waiting(entry[e].day) : entry[f].phone = entry[e].phone

AlreadyInQueue(e) ==
    /\ entry[e].phone # NoPhone
    /\ \E f \in Active(entry[e].day) : entry[f].phone = entry[e].phone

NextTicket(d) == Greatest({0} \union {entry[f].ticket : f \in OfDay(d)}) + 1

\* Mutation of NextKey: the key is left for staff to set.
KeyUnset(d) == 0

NextKey(d) == Greatest({0} \union {entry[f].key : f \in OfDay(d)}) + 1

\* The second transaction, under the garage lock: the entry goes to the back.
Join(e) ==
    /\ entry[e].status = "JOINING"
    /\ isOpen
    /\ ~AlreadyInQueue(e)
    /\ entry' = [entry EXCEPT ![e].status = "WAITING", ![e].ticket = NextTicket(entry[e].day),
                              ![e].key = NextKey(entry[e].day)]
    /\ UNCHANGED <<day, isOpen, timeoutOn>>

\* The join is refused: closed, no time left today, the number is in line
\* already, or the form is incomplete.  Also a request that never returns.
RefuseJoin(e) ==
    /\ entry[e].status = "JOINING"
    /\ entry' = [entry EXCEPT ![e] = NoRow]
    /\ UNCHANGED <<day, isOpen, timeoutOn>>

-----------------------------------------------------------------------------
(* Calling and serving *)

MarkCalled(e) ==
    /\ entry' = [entry EXCEPT ![e] = Called(e)]
    /\ UNCHANGED <<day, isOpen, timeoutOn>>

\* call_entry without an entry: whoever is first in line today.
CallNext == \E e \in NextInLine(1) : MarkCalled(e)

\* call_entry with an entry: staff may call anybody who waits, of any day.
CallEntry(e) == entry[e].status = "WAITING" /\ MarkCalled(e)

\* start_service: the walk-in becomes an appointment in progress.
StartService(e) ==
    /\ entry[e].status \in {"WAITING", "CALLED"}
    /\ entry' = [entry EXCEPT ![e].status = "IN_SERVICE", ![e].lapsed = FALSE,
                              ![e].appt = "IN_PROGRESS"]
    /\ UNCHANGED <<day, isOpen, timeoutOn>>

\* complete_service: whatever the appointment's status is, it is completed.
CompleteService(e) ==
    /\ entry[e].status = "IN_SERVICE"
    /\ entry' = [entry EXCEPT ![e].status = "DONE", ![e].appt = "COMPLETED"]
    /\ UNCHANGED <<day, isOpen, timeoutOn>>

\* Mutation of Leave: an entry being served can be ended too.
LeaveAnyTime(e, status) ==
    /\ entry[e].status \in {"WAITING", "CALLED", "IN_SERVICE"}
    /\ entry' = [entry EXCEPT ![e] = Ended(e, status, "LEFT")]
    /\ UNCHANGED <<day, isOpen, timeoutOn>>

Leave(e, status) ==
    /\ entry[e].status \in {"WAITING", "CALLED"}
    /\ entry' = [entry EXCEPT ![e] = Ended(e, status, "LEFT")]
    /\ UNCHANGED <<day, isOpen, timeoutOn>>

\* mark_no_show by staff; cancel_entry by staff or by the customer.
MarkNoShow(e) == Leave(e, "NO_SHOW")
CancelEntry(e) == Leave(e, "CANCELLED")

\* The list must be exactly today's waiting entries.
OnScreen(listed) == listed = Waiting(day)

\* reorder_waiting: staff's list of entries, as the place of each in it.
ReorderWaiting(listed) ==
    /\ listed # {}
    /\ OnScreen(listed)
    /\ \E place \in [listed -> 0..(Cardinality(listed) - 1)] :
        /\ \A e, f \in listed : place[e] = place[f] => e = f
        /\ LET base == Least({entry[e].key : e \in Waiting(day)})
           IN  entry' = [e \in Entries |->
                   IF e \in listed THEN [entry[e] EXCEPT !.key = base + place[e]] ELSE entry[e]]
    /\ UNCHANGED <<day, isOpen, timeoutOn>>

-----------------------------------------------------------------------------
(* Settings, the appointments page and time *)

SetOpen == /\ isOpen' = ~isOpen
           /\ UNCHANGED <<entry, day, timeoutOn>>

SetTimeout == /\ timeoutOn' = ~timeoutOn
              /\ UNCHANGED <<entry, day, isOpen>>

\* _validate_status_transition, IN_PROGRESS standing for every status that is not
\* final: completion and no-show are final, a cancelled
\* appointment can only be made live again.
MayBecome(from, to) == \/ from = "IN_PROGRESS" /\ to # from
                       \/ from = "CANCELLED" /\ to = "IN_PROGRESS"

\* Staff change or delete (which cancels) the walk-in's appointment.
StaffSetsAppointment(e, to) ==
    /\ entry[e].appt # "none"
    /\ MayBecome(entry[e].appt, to)
    /\ entry' = [entry EXCEPT ![e].appt = to]
    /\ UNCHANGED <<day, isOpen, timeoutOn>>

CallLapses(e) ==
    /\ entry[e].status = "CALLED" /\ ~entry[e].lapsed
    /\ entry' = [entry EXCEPT ![e].lapsed = TRUE]
    /\ UNCHANGED <<day, isOpen, timeoutOn>>

DayEnds == /\ day < LastDay
           /\ day' = day + 1
           /\ UNCHANGED <<entry, isOpen, timeoutOn>>

EntryStep(e) ==
    \/ \E phone \in Phones \union {NoPhone} : BeginJoin(e, phone)
    \/ Join(e) \/ RefuseJoin(e)
    \/ CallEntry(e) \/ StartService(e) \/ CompleteService(e)
    \/ MarkNoShow(e) \/ CancelEntry(e)
    \/ \E to \in AppointmentStatus \ {"none"} : StaffSetsAppointment(e, to)
    \/ CallLapses(e)

Next == \/ SweepQueue \/ CallNext
        \/ \E listed \in SUBSET Entries : ReorderWaiting(listed)
        \/ SetOpen \/ SetTimeout \/ DayEnds
        \/ \E e \in Entries : EntryStep(e)

Spec == Init /\ [][Next]_vars

\* The queue page polls, and a scheduled command runs the same sweep.
FairSpec == Spec /\ WF_vars(SweepQueue)

-----------------------------------------------------------------------------
(* Properties *)

TypeOK == /\ entry \in [Entries -> Row]
          /\ day \in 1..LastDay
          /\ isOpen \in BOOLEAN
          /\ timeoutOn \in BOOLEAN

\* No two entries of a day have the same ticket, so that a join never fails on
\* the unique constraint, and no two people who wait have the same place.
OrderIsStrict ==
    /\ \A e, f \in Stored : e # f /\ entry[e].day = entry[f].day => entry[e].ticket # entry[f].ticket
    /\ \A d \in 1..LastDay : \A e, f \in Waiting(d) : e # f => entry[e].key # entry[f].key

\* A mobile number has at most one place in a day's queue, whichever requests
\* with that number run at the same time.
NobodyTwiceInLine ==
    \A d \in 1..LastDay : \A e, f \in Active(d) :
        e # f /\ entry[e].phone = entry[f].phone => entry[e].phone = NoPhone

\* A line can be served as it stands: tickets and places are distinct, and each
\* phone number stands in it once, however joins, sweeps and staff interleave.
LineIsSound == OrderIsStrict /\ NobodyTwiceInLine

\* Whoever never shows leaves no appointment behind; whoever was served has
\* exactly one, and it is completed once they are done - whatever staff do on
\* the appointments page before and after.
ServedMeansAppointment ==
    \A e \in Entries :
        /\ entry[e].appt # "none" <=> entry[e].status \in {"IN_SERVICE", "DONE"}
        /\ entry[e].status = "DONE" => entry[e].appt = "COMPLETED"

\* Who waits behind whom changes only when staff reorder the queue: nobody else
\* is moved by a join, a call, a sweep or a cancellation, and who joins is last.
PlacesAreKept ==
    [][\A e, f \in Entries :
        /\ entry'[e].status = "WAITING" /\ entry'[f].status = "WAITING"
        /\ entry'[e].day = entry'[f].day
        /\ entry[e].status = "WAITING" /\ (entry[f].status = "WAITING" => Before(e, f))
        => \/ Before(e, f)'
           \/ \E listed \in SUBSET Entries : ReorderWaiting(listed)]_vars

\* Whoever is called while somebody of the same day ahead of them still waits
\* was called by staff: a sweep that fills the bays of those who did not come,
\* whichever request runs it, overtakes nobody.
OnlyStaffCallOutOfTurn ==
    [][\A e, f \in Entries :
        /\ entry[e].status = "WAITING" /\ entry'[e].status = "CALLED"
        /\ f \in Waiting(entry[e].day) /\ f \in Waiting(entry[e].day)' /\ Before(f, e)
        => CallEntry(e)]_vars

NewlyOut == {e \in Entries : entry[e].reason = "none" /\ entry'[e].reason = "CALL_TIMEOUT"}
NewlyCalled == {e \in Entries : entry[e].status = "WAITING" /\ entry'[e].status = "CALLED"}

\* "Each timed-out call hands its bay to the next in line": a step that skips n
\* people calls n others forward, or everybody who still waits.
FreedBaysAreOffered ==
    [][NewlyOut # {} =>
        /\ Cardinality(NewlyCalled) <= Cardinality(NewlyOut)
        /\ Cardinality(NewlyCalled) = Cardinality(NewlyOut) \/ Waiting(day)' = {}]_vars

\* Yesterday's leftovers are ended: whoever still waits or was called on a day
\* that is over leaves the line.
LeftoversEnd ==
    \A e \in Entries : e \in Stale ~> e \notin Stale

\* A call nobody answers ends, and the customer is skipped, called or not by
\* then - unless the owner switches the timeout off.
UnansweredCallsEnd ==
    \A e \in Entries : e \in TimedOut ~> e \notin TimedOut

\* Nobody blocks the line for good: leftovers and unanswered calls both end.
NobodyBlocksTheLine == LeftoversEnd /\ UnansweredCallsEnd

-----------------------------------------------------------------------------
(* What it implements *)

\* What is seen of a row from the waiting room.
Seen(status) == CASE status \in {"NONE", "JOINING"} -> "out"
                  [] status = "WAITING" -> "waiting"
                  [] status = "CALLED" -> "called"
                  [] status \in {"IN_SERVICE", "DONE"} -> "served"
                  [] OTHER -> "gone"

Stage == [e \in Entries |-> Seen(entry[e].status)]
LineOf == [e \in Entries |-> IF e \in Stored THEN entry[e].day ELSE 0]
Order == {x \in Entries \X Entries : /\ entry[x[1]].status = "WAITING" /\ entry[x[2]].status = "WAITING"
                                     /\ entry[x[1]].day = entry[x[2]].day /\ Before(x[1], x[2])}

Promise == INSTANCE WalkInPromise WITH
    People <- Entries, stage <- Stage, lineOf <- LineOf, ahead <- Order, today <- day

\* The rows, keys and sweeps keep WalkInPromise: whoever joins is last, nobody is
\* moved but by a reorder of today's line, and only a decision of staff or of the
\* customer, or a call that nobody answered, changes whose turn it is.
KeepsTurns == Promise!Spec
=============================================================================
