--------------------------- MODULE WalkInPromise ---------------------------
(***************************************************************************)
(* What the walk-in queue promises the people in it, with no tickets, sort *)
(* keys, phone numbers, requests or settings: who stands in which day's    *)
(* line, in which order, and whose turn it is.  WalkInQueue implements it. *)
(***************************************************************************)
EXTENDS Naturals, FiniteSets

CONSTANT People

VARIABLES
    stage,  \* out, waiting, called forward, served, or gone without it
    lineOf, \* the day whose line somebody joined
    ahead,  \* <<p, q>>: both wait for the same day, and p is served before q
    today

vars == <<stage, lineOf, ahead, today>>

Init ==
    /\ stage = [p \in People |-> "out"]
    /\ lineOf = [p \in People |-> 0]
    /\ ahead = {}
    /\ today = 1

Line(d) == {p \in People : stage[p] = "waiting" /\ lineOf[p] = d}
First(n) == {p \in Line(today) : Cardinality({q \in Line(today) : <<q, p>> \in ahead}) < n}
Without(S) == {x \in ahead : x[1] \notin S /\ x[2] \notin S}

\* Whoever comes is last, also in the line of a day that ended meanwhile.
Arrive(p) ==
    /\ stage[p] = "out"
    /\ \E d \in 1..today :
        /\ lineOf' = [lineOf EXCEPT ![p] = d]
        /\ ahead' = ahead \union (Line(d) \X {p})
    /\ stage' = [stage EXCEPT ![p] = "waiting"]
    /\ UNCHANGED today

\* One person is called, served or lost by somebody's decision; the others keep
\* their order.
Goes(p, to) ==
    /\ stage' = [stage EXCEPT ![p] = to]
    /\ ahead' = Without({p})
    /\ UNCHANGED <<lineOf, today>>

Call(p) == stage[p] = "waiting" /\ Goes(p, "called")
Serve(p) == stage[p] \in {"waiting", "called"} /\ Goes(p, "served")
Lose(p) == stage[p] \in {"waiting", "called"} /\ Goes(p, "gone")

\* With nobody's decision: days that are over end, people who were called and did
\* not come lose their turn, and exactly as many of the first in line get it.
Over == {p \in People : stage[p] \in {"waiting", "called"} /\ lineOf[p] < today}

Sweep ==
    \E late \in SUBSET {p \in People : stage[p] = "called" /\ lineOf[p] = today} :
        LET next == First(Cardinality(late))
        IN  /\ UNCHANGED <<lineOf, today>>
            /\ stage' = [p \in People |-> IF p \in Over \union late THEN "gone"
                                          ELSE IF p \in next THEN "called" ELSE stage[p]]
            /\ ahead' = Without(Over \union next)

\* Staff put the people of today's line, and nobody else, in any order.
Reorder ==
    /\ UNCHANGED <<stage, lineOf, today>>
    /\ \E place \in [Line(today) -> 0..(Cardinality(Line(today)) - 1)] :
        /\ \A p, q \in Line(today) : place[p] = place[q] => p = q
        /\ ahead' = {x \in ahead : x[1] \notin Line(today)}
                    \union {x \in Line(today) \X Line(today) : place[x[1]] < place[x[2]]}

NewDay == today' = today + 1 /\ UNCHANGED <<stage, lineOf, ahead>>

Next ==
    \/ \E p \in People : Arrive(p) \/ Call(p) \/ Serve(p) \/ Lose(p)
    \/ Sweep \/ NewDay \/ Reorder

Spec == Init /\ [][Next]_vars
=============================================================================
