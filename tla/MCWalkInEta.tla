---------------------------- MODULE MCWalkInEta ----------------------------
(* Every call with up to MaxRows rows and MaxQueue walk-ins on a short day. *)
EXTENDS WalkInEta

CONSTANTS MaxTime, MaxRows, MaxQueue, MaxMinutes, MaxCapacity

\* A service in progress has begun; a called customer has a duration only.
Shapes == {[status |-> "FINISHED", start |-> 0, end |-> MaxTime]}
            \union [status : {"IN_PROGRESS"}, start : {0}, end : 1..MaxTime]
            \union [status : {"CALLED"}, start : {0}, end : 1..MaxMinutes]
            \union {s \in [status : {"SCHEDULED"}, start : 0..MaxTime, end : 1..MaxTime] :
                        s.start < s.end}

RowSets == UNION {{{[id |-> i, status |-> f[i].status, start |-> f[i].start, end |-> f[i].end] :
                        i \in 1..n} : f \in [1..n -> Shapes]} : n \in 0..MaxRows}

Queues == UNION {[1..n -> 1..MaxMinutes] : n \in 1..MaxQueue}

MCInputs == [now : {0, 2}, capacity : 0..MaxCapacity, open : {TRUE}, opens : {1},
             closes : {MaxTime - 1, MaxTime}, rows : RowSets, queue : Queues]
              \union [now : {0}, capacity : {1}, open : {FALSE}, opens : {0}, closes : {0},
                      rows : {{}}, queue : Queues]
=============================================================================
