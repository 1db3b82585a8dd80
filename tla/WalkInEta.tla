----------------------------- MODULE WalkInEta -----------------------------
(***************************************************************************)
(* The walk-in estimate (app/queueing/eta.py): when will each person in    *)
(* the live queue be seen?  The business has `capacity' bays.  Appointments*)
(* and called customers hold a bay for an interval; waiting walk-ins are   *)
(* placed in queue order, each at the earliest instant at which a bay is   *)
(* free for the whole service.  One step of this specification is one      *)
(* iteration of the loop of estimate_queue.  Instants are minutes.         *)
(***************************************************************************)
EXTENDS Naturals, Sequences, FiniteSets

CONSTANTS Inputs,        \* the calls of estimate_queue that are considered
          OverrunGrace,  \* how long an overrunning service is assumed to go on
          NoStart        \* the start of somebody who cannot be seen today

\* What holds a bay today: an appointment, or a queue entry called forward.
RowStatus == {"SCHEDULED", "IN_PROGRESS", "FINISHED", "CALLED"}
Row == {r \in [id : Nat, status : RowStatus, start : Nat, end : Nat] : r.start < r.end}

\* A call: the time, the bays, today's hours (open = FALSE when there are
\* none), the rows competing for the bays and the minutes of every waiting
\* walk-in, in queue order.
Call == [now : Nat, capacity : Nat, open : BOOLEAN, opens : Nat, closes : Nat,
         rows : SUBSET Row, queue : Seq(Nat \ {0})]

ASSUME InputsAreCalls == Inputs \subseteq Call /\ \A c \in Inputs : IsFiniteSet(c.rows)
ASSUME GraceIsTime == OverrunGrace \in Nat
ASSUME NoStartIsNoTime == NoStart \notin Nat

VARIABLES call,       \* the arguments of estimate_queue
          estimates,  \* the starts found so far, in queue order
          intervals,  \* the bays' busy intervals the loop has collected
          floor,      \* nobody else may start before this instant
          blocked     \* somebody does not fit today: nobody behind them does

vars == <<call, estimates, intervals, floor, blocked>>

Later(a, b) == IF a < b THEN b ELSE a

-----------------------------------------------------------------------------
(* The intervals *)

\* A scheduled appointment holds its own times.  A service in progress keeps
\* its bay until its planned end or, once overrun, a little past now.  A called
\* customer's bay is held from now.  Rows that are over hold nothing.
EndOf(c, r) == CASE r.status = "IN_PROGRESS" -> Later(r.end, c.now + OverrunGrace)
                 [] r.status = "CALLED" -> c.now + (r.end - r.start)
                 [] OTHER -> r.end
StartOf(c, r) == IF r.status = "CALLED" THEN c.now ELSE r.start
BusyOf(c, r) == [kind |-> "row", id |-> r.id, start |-> StartOf(c, r), end |-> EndOf(c, r)]
BusyIntervals(c) == {BusyOf(c, r) : r \in {q \in c.rows : q.status # "FINISHED"}}

StillBusy(b, from) == b.end > from /\ b.end > b.start

JobInterval(i, start, minutes) ==
    [kind |-> "job", id |-> i, start |-> start, end |-> start + minutes]

-----------------------------------------------------------------------------
(* Where a job fits *)

InUse(ivs, t) == {b \in ivs : b.start <= t /\ t < b.end}
UsageAt(ivs, t) == Cardinality(InUse(ivs, t))

Checkpoints(ivs, start, end) ==
    {start} \union {b.start : b \in {a \in ivs : start < a.start /\ a.start < end}}

\* Mutation of Fits: looks for a free bay at the start of the job only.
FitsAtStart(ivs, start, end, capacity) == UsageAt(ivs, start) < capacity

Fits(ivs, start, end, capacity) ==
    \A t \in Checkpoints(ivs, start, end) : UsageAt(ivs, t) < capacity

Candidates(ivs, notBefore) ==
    {notBefore} \union {b.end : b \in {a \in ivs : a.end > notBefore}}

Good(ivs, notBefore, minutes, capacity) ==
    {t \in Candidates(ivs, notBefore) : Fits(ivs, t, t + minutes, capacity)}

\* The first candidate at which the job fits; the last candidate if there is
\* none (the theorem SomeStartIsGood shows that there always is one).
EarliestStart(ivs, notBefore, minutes, capacity) ==
    LET good == Good(ivs, notBefore, minutes, capacity)
        candidates == Candidates(ivs, notBefore)
    IN  IF good # {} THEN CHOOSE t \in good : \A u \in good : t <= u
                     ELSE CHOOSE t \in candidates : \A u \in candidates : u <= t

-----------------------------------------------------------------------------
(* The loop of estimate_queue *)

Closed(c) == ~c.open \/ c.capacity < 1

Init == /\ call \in Inputs
        /\ estimates = <<>>
        /\ floor = Later(call.now, call.opens)
        /\ intervals = {b \in BusyIntervals(call) : StillBusy(b, floor)}
        /\ blocked = Closed(call)

Next1 == Len(estimates) + 1
NextStart == EarliestStart(intervals, floor, call.queue[Next1], call.capacity)

\* Mutation of FitsToday: a job may not end at closing time.
EndsBeforeClosing(start, minutes) == start + minutes < call.closes

FitsToday(start, minutes) == start + minutes <= call.closes

NextFloor(start) == start

Place ==
    /\ Next1 <= Len(call.queue)
    /\ ~blocked
    /\ FitsToday(NextStart, call.queue[Next1])
    /\ estimates' = Append(estimates, NextStart)
    /\ intervals' = intervals \union {JobInterval(Next1, NextStart, call.queue[Next1])}
    /\ floor' = NextFloor(NextStart)
    /\ UNCHANGED <<call, blocked>>

TurnAway ==
    /\ Next1 <= Len(call.queue)
    /\ blocked \/ ~FitsToday(NextStart, call.queue[Next1])
    /\ estimates' = Append(estimates, NoStart)
    /\ blocked' = TRUE
    /\ UNCHANGED <<call, intervals, floor>>

Next == Place \/ TurnAway

Spec == Init /\ [][Next]_vars

-----------------------------------------------------------------------------
(* Properties *)

Interval == {b \in [kind : {"row", "job"}, id : Nat, start : Nat, end : Nat] : b.start < b.end}

\* Type invariant of the loop's state; every interval is nonempty and there
\* are never more estimates than people.
TypeOK == /\ call \in Inputs
          /\ estimates \in Seq(Nat \union {NoStart})
          /\ Len(estimates) <= Len(call.queue)
          /\ intervals \subseteq Interval
          /\ IsFiniteSet(intervals)
          /\ floor \in Nat
          /\ blocked \in BOOLEAN

Placed == {i \in 1..Len(estimates) : estimates[i] # NoStart}

\* Those who hold a bay at instant t: every row of the day that is not over,
\* and every walk-in placed ahead of person n.
Job(i) == JobInterval(i, estimates[i], call.queue[i])
Holders(n, t) == InUse(BusyIntervals(call) \union {Job(i) : i \in {j \in Placed : j < n}}, t)

\* "Order is FIFO on start times: nobody is estimated to start before someone
\* ahead of them", and behind somebody who cannot be seen today nobody is
\* placed (module docstring of eta.py).
StartsInOrder ==
    \A i, j \in 1..Len(estimates) : i < j /\ j \in Placed =>
        i \in Placed /\ estimates[i] <= estimates[j]

\* Nobody is told a start in the past, before opening, or one whose service
\* would run past closing time, and nobody is placed on a closed day.
WithinHours ==
    \A i \in Placed : /\ ~Closed(call)
                      /\ call.now <= estimates[i] /\ call.opens <= estimates[i]
                      /\ estimates[i] + call.queue[i] <= call.closes

\* A bay is free for the whole of every placed service: counting everything
\* that holds a bay today, whoever is placed never makes it more than there
\* are bays, at any instant of any placed service.
BaysRespected ==
    \A i \in Placed : \A t \in estimates[i]..(estimates[i] + call.queue[i] - 1) :
        Cardinality(Holders(Len(estimates) + 1, t)) <= call.capacity

\* The reference: person n could be served from instant t on, without anyone
\* ahead of them starting later and without ever needing a bay that is held.
CouldStart(n, t) ==
    /\ ~Closed(call) /\ t >= call.now /\ t >= call.opens
    /\ \A i \in Placed : i < n => estimates[i] <= t
    /\ \A u \in t..(t + call.queue[n] - 1) : Cardinality(Holders(n, u)) < call.capacity

\* Nobody waits longer than the people and appointments ahead of them require:
\* there is no instant whatsoever before the estimate at which they could have
\* started, not only none among the candidates the code tries.
NoEarlierStart ==
    \A n \in Placed : \A t \in 0..(estimates[n] - 1) : ~CouldStart(n, t)

\* A walk-in is turned away only if they, or somebody ahead of them, could not
\* be served in full before closing at any instant (a new joiner is refused with
\* `full_for_today' on exactly this answer).
TurnedAwayOnlyIfFull ==
    \A n \in (1..Len(estimates)) \ Placed :
        \E i \in 1..n : /\ i \notin Placed
                        /\ \A t \in 0..call.closes :
                            t + call.queue[i] <= call.closes => ~CouldStart(i, t)

\* What the customers are told can be kept: the times follow the order of the
\* line, lie within the hours and need no bay that somebody else holds.
EstimatesHold == StartsInOrder /\ WithinHours /\ BaysRespected

\* And it is the best that could be told: no earlier instant was possible, and
\* nobody is sent away who could have been served.
EarliestPossible == NoEarlierStart /\ TurnedAwayOnlyIfFull
=============================================================================
