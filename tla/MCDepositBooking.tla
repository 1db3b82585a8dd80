-------------------------- MODULE MCDepositBooking --------------------------
(* TLC instances of DepositBooking. *)
EXTENDS DepositBooking, TLC

CONSTANTS r1, r2

OneRequest  == {r1}
TwoRequests == {r1, r2}

RequestSymmetry == Permutations(Requests)

\* Contention for the slot does not depend on how refunds end.
BeforeRefunds == \A r \in Requests, n \in Attempts : refund[r][n] = "none"
=============================================================================
