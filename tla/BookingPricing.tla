--------------------------- MODULE BookingPricing ---------------------------
(* What a booking costs: the price of its service, the add-ons chosen and a discount. All
   of it is copied into the booking when it is made, and the catalogue goes on changing:
   the price and the add-ons of the service are edited, hidden and deleted. Staff then
   edit a booking whose price is stored as one discounted total. *)
EXTENDS Integers, Functions

CONSTANTS AddOns, Prices, Deltas, MaxQuantity, OtherPrice, NoPrice, None

\* price: the service's base price. offer: its add-ons, None once deleted. booking: the
\* request (approved: FALSE) or the appointment: its add-on rows, whose link to the add-on
\* is cleared when that is deleted, the price, the price before the discount, which is set
\* with a discount only, and whether it is still of this service or of another one. base:
\* what the service itself cost when the booking was made, or last changed its service.
VARIABLES price, offer, booking, base

pricingVars == <<price, offer, booking, base>>

AddOn == [active : BOOLEAN, most : 1..MaxQuantity, exclusive : BOOLEAN, delta : Deltas]
Row == [quantity : 1..MaxQuantity, delta : Deltas, linked : BOOLEAN]
Discounts == {"none", "fixed", "half"}
Selection == [AddOns -> 0..MaxQuantity]

Init == /\ price \in Prices /\ booking = None /\ base = NoPrice
        /\ offer = [a \in AddOns |-> [active |-> TRUE, most |-> MaxQuantity, exclusive |-> FALSE,
                                      delta |-> CHOOSE d \in Deltas : TRUE]]

NoRows == [a \in AddOns |-> None]
Chosen(sel) == {a \in AddOns : sel[a] > 0}
\* The add-ons a booking has that can still be sent again, with their quantity.
Applied(rows) == [a \in AddOns |-> IF rows[a] # None /\ rows[a].linked THEN rows[a].quantity ELSE 0]
Nothing == [a \in AddOns |-> 0]

-----------------------------------------------------------------------------
\* Mutation of Limit: the maximum of today, for what is on the booking too.
LimitToday(a, had) == offer[a].most
Limit(a, had) == IF had[a] > offer[a].most THEN had[a] ELSE offer[a].most

\* resolve_selection: had is what the edited booking has already.
Resolves(sel, had) ==
    /\ \A a \in Chosen(sel) : /\ offer[a] # None
                              /\ offer[a].active \/ had[a] > 0
                              /\ sel[a] <= Limit(a, had)
    /\ \A a, b \in Chosen(sel) : (a # b /\ offer[a].exclusive /\ offer[b].exclusive)
                                     => had[a] > 0 /\ had[b] > 0

\* price_delta and total_price.
Extra(rows) ==
    FoldFunction(+, 0, [a \in AddOns |-> IF rows[a] = None THEN 0 ELSE rows[a].quantity * rows[a].delta])
Total(of, rows) == IF of = NoPrice THEN NoPrice ELSE of + Extra(rows)
Affordable(of, rows) == of # NoPrice => of + Extra(rows) >= 0

\* compute_discount: two off, or a half, rounded up.
Reduced(total, discount) ==
    CASE total = NoPrice \/ discount = "none" -> total
      [] total # NoPrice /\ discount = "fixed" -> IF total < 2 THEN 0 ELSE total - 2
      [] OTHER -> total - (total + 1) \div 2

\* _plan_add_ons: what stays on the booking keeps the price it was chosen at.
Planned(sel, rows) ==
    [a \in AddOns |-> IF sel[a] = 0 THEN None
                      ELSE IF Applied(rows)[a] > 0 THEN [rows[a] EXCEPT !.quantity = sel[a]]
                      ELSE [quantity |-> sel[a], delta |-> offer[a].delta, linked |-> TRUE]]

Before(total, discount) == IF discount = "none" THEN NoPrice ELSE total

-----------------------------------------------------------------------------
\* AppointmentList.post and BookingRequestSubmit.post. A code needs a price.
Book(sel, discount, approved) ==
    /\ booking = None /\ Resolves(sel, Nothing)
    /\ LET rows == Planned(sel, NoRows)
           total == Total(price, rows) IN
       /\ Affordable(price, rows) /\ (total = NoPrice => discount = "none")
       /\ booking' = [rows |-> rows, price |-> Reduced(total, discount),
                      before |-> Before(total, discount), discount |-> discount,
                      approved |-> approved, other |-> FALSE]
       /\ base' = price
    /\ UNCHANGED <<price, offer>>

\* approve_booking_request copies all of it. A request that had no price gets the one that
\* the service has by now, with its add-ons thrown in,
Approve ==
    /\ booking # None /\ ~booking.approved
    /\ LET priced == booking.price = NoPrice /\ price # NoPrice IN
       /\ booking' = [booking EXCEPT !.approved = TRUE, !.price = IF priced THEN price ELSE @]
       /\ base' = IF priced THEN price - Extra(booking.rows) ELSE base
    /\ UNCHANGED <<price, offer>>
\* or, for another service, drops the add-ons. The price asked for stays, if there was one,
\* unless there were any or there is a discount, which is taken off the other's price.
ApproveAsOther ==
    /\ booking # None /\ ~booking.approved
    /\ LET dropped == booking.rows # NoRows
           reprice == dropped \/ booking.discount # "none" \/ booking.price = NoPrice
           of == IF reprice THEN OtherPrice ELSE booking.price IN
       /\ booking' = [rows |-> NoRows, price |-> Reduced(of, booking.discount),
                      before |-> Before(of, booking.discount), discount |-> booking.discount,
                      approved |-> TRUE, other |-> TRUE]
       /\ base' = of
    /\ UNCHANGED <<price, offer>>

\* pre_discount_total and booked_base_price.
PreDiscount(b) == IF b.before # NoPrice THEN b.before ELSE b.price
\* Mutation of BookedBase: the price of today.
BookedBaseToday(b) == price
BookedBase(b) ==
    LET pre == IF b.discount # "none" THEN b.before ELSE b.price
    IN IF pre = NoPrice THEN NoPrice ELSE pre - Extra(b.rows)

\* AppointmentResource.patch, with other add-ons,
PatchAddOns(sel) ==
    /\ booking # None /\ booking.approved
    /\ booking.other => sel = Nothing
    /\ Resolves(sel, Applied(booking.rows))
    /\ LET rows == Planned(sel, booking.rows)
           of == BookedBase(booking)
           total == Total(of, rows) IN
       /\ Affordable(of, rows)
       /\ booking' = [booking EXCEPT !.rows = rows, !.price = Reduced(total, booking.discount),
                                     !.before = Before(total, booking.discount)]
    /\ UNCHANGED <<price, offer, base>>

\* another code or none,
PatchCode(discount) ==
    /\ booking # None /\ booking.approved
    /\ LET total == PreDiscount(booking) IN
       /\ total = NoPrice => discount = "none"
       /\ booking' = [booking EXCEPT !.discount = discount, !.price = Reduced(total, discount),
                                     !.before = Before(total, discount)]
    /\ UNCHANGED <<price, offer, base>>

\* or another service, which drops the add-ons.
PatchService ==
    /\ booking # None /\ booking.approved /\ ~booking.other
    /\ booking' = [booking EXCEPT !.rows = NoRows, !.other = TRUE,
                                  !.price = Reduced(OtherPrice, booking.discount),
                                  !.before = Before(OtherPrice, booking.discount)]
    /\ base' = OtherPrice
    /\ UNCHANGED <<price, offer>>

-----------------------------------------------------------------------------
\* The owner edits the service; AddOnResource.patch, of which an edit of several fields is
\* so many edits; AddOnResource.delete.
EditPrice(p) == price' = p /\ UNCHANGED <<offer, booking, base>>
EditAddOn(a, new) ==
    /\ offer[a] # None /\ \E c \in DOMAIN new : new = [offer[a] EXCEPT ![c] = new[c]]
    /\ offer' = [offer EXCEPT ![a] = new]
    /\ UNCHANGED <<price, booking, base>>
DeleteAddOn(a) ==
    /\ offer[a] # None /\ offer' = [offer EXCEPT ![a] = None]
    /\ booking' = IF booking = None \/ booking.rows[a] = None THEN booking
                  ELSE [booking EXCEPT !.rows[a].linked = FALSE]
    /\ UNCHANGED <<price, base>>

Next == \/ \E sel \in Selection : \/ \E d \in Discounts, approved \in BOOLEAN : Book(sel, d, approved)
                                  \/ PatchAddOns(sel)
        \/ Approve \/ ApproveAsOther \/ PatchService
        \/ \E d \in Discounts : PatchCode(d)
        \/ \E p \in Prices : EditPrice(p)
        \/ \E a \in AddOns : DeleteAddOn(a) \/ \E new \in AddOn : EditAddOn(a, new)

Spec == Init /\ [][Next]_pricingVars

-----------------------------------------------------------------------------
\* Through every edit a booking costs what its service cost when it was booked, plus its
\* add-ons at the price they were chosen at, less its discount taken off once - although
\* only the discounted total is stored and the catalogue has long changed.
PriceAddsUp ==
    booking # None => /\ booking.price = Reduced(Total(base, booking.rows), booking.discount)
                      /\ booking.price = NoPrice <=> base = NoPrice

\* Sending a booking's own add-ons again, as the form does on every save, is never
\* refused, whatever became of the catalogue, and changes nothing - a booking that has an
\* add-on whose catalogue entry was deleted apart.
ResavingIsHarmless ==
    (booking # None /\ booking.approved /\ \A a \in AddOns : booking.rows[a] # None => booking.rows[a].linked)
        => LET kept == Applied(booking.rows) IN
           /\ Resolves(kept, kept)
           /\ Planned(kept, booking.rows) = booking.rows
           /\ BookedBase(booking) = base
=============================================================================
