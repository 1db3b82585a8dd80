------------------------- MODULE LoyaltyRedemption -------------------------
(* The uses of one discount code. A booking (a booking request, then the
   appointment it becomes) may hold a use; the code has a limit that the owner
   edits. Every handler that takes a use holds the row lock of the code from
   its check to its commit, so it is one step; a refused attempt rolls back and
   changes nothing. *)
EXTENDS Naturals, FiniteSets

CONSTANTS Bookings, Customers, Limits, NoLimit, PerCustomer, NoCustomer

VARIABLES code, booked

redemptionVars == <<code, booked>>

RequestStatus == {"AWAITING_PAYMENT", "PENDING", "REJECTED", "EXPIRED"}
AppointmentStatus == {"BOOKED", "COMPLETED", "CANCELLED", "NO_SHOW"}

\* The statuses that give a use back.
Fallen == {"REJECTED", "EXPIRED", "CANCELLED", "NO_SHOW"}

\* NoLimit stands for a null max_uses; owner is NoCustomer for a promotion.
DiscountCode == [limit : Limits \union {NoLimit}, usable : BOOLEAN,
                 owner : Customers \union {NoCustomer}]

\* coded: the booking carries the code's snapshot; use: its latest redemption,
\* charged to the customer it was made for; single: that row's single_use flag.
DiscountRedemption == [status : {"none"} \union RequestStatus \union AppointmentStatus,
                       customer : Customers \union {NoCustomer}, coded : BOOLEAN,
                       use : {"none", "RESERVED", "CONSUMED", "RELEASED"},
                       charged : Customers \union {NoCustomer}, single : BOOLEAN]

NoBooking == [status |-> "none", customer |-> NoCustomer, coded |-> FALSE,
              use |-> "none", charged |-> NoCustomer, single |-> FALSE]

Init == /\ code \in {c \in DiscountCode : c.usable /\ (c.owner # NoCustomer => c.limit = 1)}
        /\ booked = [b \in Bookings |-> NoBooking]

-----------------------------------------------------------------------------
Active(row) == row.use \in {"RESERVED", "CONSUMED"}
Holders(rows) == {b \in Bookings : Active(rows[b])}
Within(n, limit) == IF limit = NoLimit THEN TRUE ELSE n < limit

\* _release_stale_redemptions: uses of bookings that fell through come back.
Healed(rows) == [b \in Bookings |->
                    IF Active(rows[b]) /\ rows[b].status \in Fallen
                    THEN [rows[b] EXCEPT !.use = "RELEASED"] ELSE rows[b]]

\* evaluate_code for customer c, who may not be on record yet, on healed rows.
Applies(rows, c) ==
    /\ code.usable
    /\ code.owner \in {NoCustomer, c}
    /\ Within(Cardinality(Holders(rows)), code.limit)
    /\ Cardinality({b \in Holders(rows) : rows[b].charged = c}) < PerCustomer
    \* uq_discount_redemptions_single_use_active, the backstop in redeem
    /\ (code.limit = 1 => \A b \in Holders(rows) : ~rows[b].single)

\* redeem: a new row for b. A status that gives the use back releases it at once.
Redeemed(rows, b, status, c) ==
    [rows EXCEPT ![b] = [status |-> status, customer |-> c, coded |-> TRUE,
                         use |-> IF status \in Fallen THEN "RELEASED"
                                 ELSE IF status = "AWAITING_PAYMENT" THEN "RESERVED"
                                 ELSE "CONSUMED",
                         charged |-> c, single |-> code.limit = 1]]

\* Mutation of Synced: a booking that stands again takes its use back unasked.
UnaskedSynced(row, status, used) ==
    IF status \in Fallen THEN IF row.use = "none" THEN "none" ELSE "RELEASED"
    ELSE IF row.use = "none" THEN row.use
    ELSE IF status = "AWAITING_PAYMENT" THEN "RESERVED" ELSE "CONSUMED"

\* _move_to and _set_status: what the use of row becomes under a new status. A
\* released use comes back only if the code still has one.
Synced(row, status, used) ==
    IF status \in Fallen THEN IF row.use = "none" THEN "none" ELSE "RELEASED"
    ELSE IF row.use = "none" \/ (row.use = "RELEASED" /\ ~Within(used, code.limit)) THEN row.use
    ELSE IF status = "AWAITING_PAYMENT" THEN "RESERVED" ELSE "CONSUMED"

\* The unique index also refuses a flagged row next to another flagged one.
Move(b, status) ==
    LET row == booked[b]
        use == IF row.coded THEN Synced(row, status, Cardinality(Holders(booked))) ELSE row.use
    IN /\ (row.single /\ use \in {"RESERVED", "CONSUMED"} =>
              \A o \in Holders(booked) \ {b} : ~booked[o].single)
       /\ booked' = [booked EXCEPT ![b].status = status, ![b].use = use]
       /\ UNCHANGED code

-----------------------------------------------------------------------------
\* A customer books, or staff create an appointment, with the code or without.
Book(b, c, status) ==
    /\ booked[b].status = "none"
    /\ status \in {"AWAITING_PAYMENT", "PENDING"} \union AppointmentStatus
    /\ \/ booked' = [booked EXCEPT ![b].status = status, ![b].customer = c]
       \/ Applies(Healed(booked), c) /\ booked' = Redeemed(Healed(booked), b, status, c)
    /\ UNCHANGED code

\* The payment succeeds in time, or is found after the hold or the slot lapsed.
BecomePending(b) ==
    booked[b].status \in {"AWAITING_PAYMENT", "EXPIRED"} /\ Move(b, "PENDING")

Expire(b) == booked[b].status \in {"AWAITING_PAYMENT", "PENDING"} /\ Move(b, "EXPIRED")
Reject(b) == booked[b].status = "PENDING" /\ Move(b, "REJECTED")

\* attach_redemption_to_appointment: the appointment takes the use over.
Approve(b) == booked[b].status = "PENDING" /\ Move(b, "BOOKED")

\* A staff edit of the status; CANCELLED may only become BOOKED again.
PatchStatus(b, status) ==
    /\ booked[b].status \in {"BOOKED", "CANCELLED"}
    /\ status \in AppointmentStatus \ {booked[b].status}
    /\ (booked[b].status = "CANCELLED" => status = "BOOKED")
    /\ Move(b, status)

\* The chat's cancellation writes the status only.
CancelByChat(b) ==
    /\ booked[b].status = "BOOKED"
    /\ booked' = [booked EXCEPT ![b].status = "CANCELLED"]
    /\ UNCHANGED code

\* Staff put the code on an appointment, or take it off.
ApplyCode(b) ==
    /\ booked[b].status \in AppointmentStatus /\ ~booked[b].coded
    /\ Applies(Healed(booked), booked[b].customer)
    /\ LET rows == Redeemed(Healed(booked), b, "BOOKED", booked[b].customer)
       IN booked' = [rows EXCEPT ![b].status = booked[b].status]
    /\ UNCHANGED code

RemoveCode(b) ==
    /\ booked[b].status \in AppointmentStatus /\ booked[b].coded
    /\ booked' = [booked EXCEPT ![b].coded = FALSE,
                                ![b].use = IF @ = "none" THEN @ ELSE "RELEASED"]
    /\ UNCHANGED code

\* Mutation of ChangeCustomer: the applied code is not looked at.
UncheckedChangeCustomer(b, c) ==
    /\ booked[b].status \in AppointmentStatus /\ c # booked[b].customer
    /\ booked' = [booked EXCEPT ![b].customer = c]
    /\ UNCHANGED code

\* A personal code stays with its customer; a promotion moves with the booking.
ChangeCustomer(b, c) ==
    /\ booked[b].status \in AppointmentStatus /\ c # booked[b].customer
    /\ (booked[b].coded => code.owner \in {NoCustomer, c})
    /\ booked' = [booked EXCEPT ![b].customer = c]
    /\ UNCHANGED code

\* The owner edits the code; a personal code stays single-use.
EditCode(limit, usable) ==
    /\ (code.owner # NoCustomer => limit = code.limit)
    /\ code' = [code EXCEPT !.limit = limit, !.usable = usable]
    /\ code' # code
    /\ UNCHANGED booked

Next == \/ \E b \in Bookings : BecomePending(b) \/ Expire(b) \/ Reject(b) \/ Approve(b)
                               \/ CancelByChat(b) \/ ApplyCode(b) \/ RemoveCode(b)
        \/ \E b \in Bookings, c \in Customers :
               \/ ChangeCustomer(b, c)
               \/ \E s \in RequestStatus \union AppointmentStatus : Book(b, c, s)
        \/ \E b \in Bookings, s \in AppointmentStatus : PatchStatus(b, s)
        \/ \E limit \in Limits \union {NoLimit}, usable \in BOOLEAN : EditCode(limit, usable)

Spec == Init /\ [][Next]_redemptionVars

-----------------------------------------------------------------------------
TypeOK == code \in DiscountCode /\ booked \in [Bookings -> DiscountRedemption]

\* A use is only ever taken while the code has one left: submissions, late
\* payments, approvals and reactivations never push a code past the limit in
\* force, whatever the owner or a handler that forgot to sync did before.
UsesRespectLimit ==
    [][Cardinality(Holders(booked')) > Cardinality(Holders(booked)) =>
           code'.limit = NoLimit \/ Cardinality(Holders(booked')) <= code'.limit]_redemptionVars

\* A personal reward discounts its own customer's bookings and nobody else's,
\* through edits of the customer, the code and the status.
RewardStaysPersonal ==
    \A b \in Bookings : code.owner # NoCustomer /\ booked[b].coded =>
        booked[b].customer = code.owner /\ booked[b].charged = code.owner
=============================================================================
