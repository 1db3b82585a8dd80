--------------------------- MODULE DepositPromise ---------------------------
(***************************************************************************)
(* What the deposit life cycle promises, with no rows, holds, webhooks or  *)
(* provider calls: where each request stands, which attempts took money    *)
(* for it and how often each was paid back.  DepositBooking implements it. *)
(***************************************************************************)
EXTENDS Naturals

CONSTANTS Requests, Attempts

VARIABLES
    stage,    \* where a request stands for the garage and its customer
    taken,    \* attempts of a request the customer's money was taken for
    returned  \* how many times an attempt's money was paid back

vars == <<stage, taken, returned>>

Init ==
    /\ stage = [r \in Requests |-> "NONE"]
    /\ taken = [r \in Requests |-> {}]
    /\ returned = [r \in Requests |-> [n \in Attempts |-> 0]]

Reserve(r) ==
    /\ stage[r] = "NONE"
    /\ stage' = [stage EXCEPT ![r] = "AWAITING_PAYMENT"]
    /\ UNCHANGED <<taken, returned>>

\* A late payment may reach a request that is no longer waiting for it.
TakeMoney(r, n) ==
    /\ stage[r] # "NONE"
    /\ n \notin taken[r]
    /\ taken' = [taken EXCEPT ![r] = @ \cup {n}]
    /\ UNCHANGED <<stage, returned>>

\* Only for a deposit taken; a recovery does it wherever the request stands.
PutToReview(r) ==
    /\ stage[r] # "NONE"
    /\ taken[r] # {}
    /\ stage' = [stage EXCEPT ![r] = "PENDING"]
    /\ UNCHANGED <<taken, returned>>

Decide(r) ==
    /\ stage[r] = "PENDING"
    /\ \E decision \in {"APPROVED", "REJECTED"} : stage' = [stage EXCEPT ![r] = decision]
    /\ UNCHANGED <<taken, returned>>

Lapse(r) ==
    /\ stage[r] \in {"AWAITING_PAYMENT", "PENDING"}
    /\ stage' = [stage EXCEPT ![r] = "EXPIRED"]
    /\ UNCHANGED <<taken, returned>>

Return(r, n) ==
    /\ n \in taken[r]
    /\ returned[r][n] = 0
    /\ returned' = [returned EXCEPT ![r][n] = 1]
    /\ UNCHANGED <<stage, taken>>

Next ==
    \E r \in Requests :
        \/ Reserve(r) \/ PutToReview(r) \/ Decide(r) \/ Lapse(r)
        \/ \E n \in Attempts : TakeMoney(r, n) \/ Return(r, n)

Spec == Init /\ [][Next]_vars
=============================================================================
