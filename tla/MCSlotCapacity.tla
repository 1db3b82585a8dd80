--------------------------- MODULE MCSlotCapacity ---------------------------
(* Bookings and employees are interchangeable; one window takes a bay. *)
EXTENDS SlotCapacity, TLC

MCWindows == {[from |-> 1, to |-> 2, bays |-> 1]}
Symmetry == Permutations(Bookings) \union Permutations(Employees)

\* Bound: a booking is unusual when it is neither a request for a plain service
\* awaiting the staff nor a live appointment that was booked.
Usual(row) ==
    \/ row.status = "NONE"
    \/ row.status = "PENDING" /\ row.deposit = "none" /\ row.base = row.minutes
    \/ row.status = "BOOKED" /\ row.origin = "booked"
OneUnusual == Cardinality({b \in Bookings : ~Usual(booking[b])}) <= 1
=============================================================================
