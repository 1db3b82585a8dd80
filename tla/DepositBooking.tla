--------------------------- MODULE DepositBooking ---------------------------
(***************************************************************************)
(* The deposit life cycle of public booking requests: the rows of          *)
(* booking_requests and booking_payments, the payment provider that owns   *)
(* the money, the webhooks it sends, and every handler that writes them    *)
(* (public checkout, recovery, abandonment, polling, the expiry sweeps,    *)
(* staff approval, rejection and refunds).                                 *)
(*                                                                         *)
(* Every request asks for the same slot, so a slot is a number of bays,    *)
(* Capacity.  A handler that takes the request row lock first is one step; *)
(* the two that let others in between (the card submission, which commits  *)
(* after the provider answered, and the rejection, which commits before it *)
(* refunds) are two.  What the row locks do not protect because the ORM    *)
(* session read the row before locking it is the subject of StaleSession.  *)
(***************************************************************************)
EXTENDS Naturals, FiniteSets, FiniteSetsExt

CONSTANTS
    Requests,     \* booking requests that may be submitted for the slot
    MaxAttempts,  \* bound on the payment rows of one request
    Capacity,     \* bays of the slot (slot_capacity)
    TwoPhase,     \* provider capability requires_client_token_submission (Square)
    EventCopies,  \* ids under which a provider reports one success (payment.created, .updated)
    Crashes       \* may the worker die between a provider call and its commit

ASSUME DepositAssumption ==
    /\ MaxAttempts \in Nat \ {0}
    /\ Capacity \in Nat \ {0}
    /\ EventCopies \in Nat \ {0}
    /\ TwoPhase \in BOOLEAN
    /\ Crashes \in BOOLEAN

VARIABLES
    request,      \* BookingRequest.status, "NONE" before it is submitted
    hold,         \* payment_hold_expires_at: NULL, in the future or passed
    slotPast,     \* the preferred time of the slot has passed
    appointments, \* appointments made from a request, numbered
    payment,      \* BookingPayment.status of each attempt row
    ref,          \* whether the row's provider_payment_id is stored
    charge,       \* the provider's own state of the attempt's payment
    refund,       \* the provider's own state of its refund
    payouts,      \* how many times the provider paid that refund out
    sent,         \* webhook events the provider has emitted
    recorded,     \* ids in payment_webhook_events
    call,         \* the card submission in flight for a request, if any
    rejecting     \* requests whose rejection is committed and not yet refunded

booking  == <<request, hold, slotPast, appointments>>
rows     == <<payment, ref>>
provider == <<charge, refund, payouts>>
webhooks == <<sent, recorded>>
vars     == <<request, hold, slotPast, appointments, payment, ref, charge, refund,
              payouts, sent, recorded, call, rejecting>>

Attempts == 1..MaxAttempts

RequestStatus == {"NONE", "AWAITING_PAYMENT", "PENDING", "APPROVED", "REJECTED", "EXPIRED"}
Decided       == {"APPROVED", "REJECTED"}
Reserving     == {"AWAITING_PAYMENT", "PENDING"}

PaymentStatus == {"REQUIRES_PAYMENT", "PENDING", "SUCCEEDED", "FAILED", "CANCELLED",
                  "REFUND_PENDING", "REFUNDED", "REFUND_FAILED"}
InFlight      == {"REQUIRES_PAYMENT", "PENDING"}
Closed        == {"CANCELLED", "FAILED"}

ChargeState == {"none", "open", "processing", "paid", "declined", "cancelled"}
RefundState == {"none", "pending", "done", "failed"}
EventKinds  == {"SUCCEEDED", "FAILED", "CANCELLED", "REFUND_PENDING", "REFUNDED", "REFUND_FAILED"}

Event  == [r : Requests, n : Attempts, kind : EventKinds, copy : 1..EventCopies]
NoCall == [n |-> 0, reply |-> "none"]
Calls  == {NoCall} \cup [n : Attempts, reply : {"accepted", "failed", "error"}]

TypeOK ==
    /\ request \in [Requests -> RequestStatus]
    /\ hold \in [Requests -> {"none", "live", "due"}]
    /\ slotPast \in BOOLEAN
    /\ appointments \subseteq Requests \X Nat
    /\ payment \in [Requests -> [Attempts -> PaymentStatus \cup {"NONE"}]]
    /\ ref \in [Requests -> [Attempts -> BOOLEAN]]
    /\ charge \in [Requests -> [Attempts -> ChargeState]]
    /\ refund \in [Requests -> [Attempts -> RefundState]]
    /\ payouts \in [Requests -> [Attempts -> Nat]]
    /\ sent \subseteq Event
    /\ recorded \subseteq Event
    /\ call \in [Requests -> Calls]
    /\ rejecting \subseteq Requests

Init ==
    /\ request = [r \in Requests |-> "NONE"]
    /\ hold = [r \in Requests |-> "none"]
    /\ slotPast = FALSE
    /\ appointments = {}
    /\ payment = [r \in Requests |-> [n \in Attempts |-> "NONE"]]
    /\ ref = [r \in Requests |-> [n \in Attempts |-> FALSE]]
    /\ charge = [r \in Requests |-> [n \in Attempts |-> "none"]]
    /\ refund = [r \in Requests |-> [n \in Attempts |-> "none"]]
    /\ payouts = [r \in Requests |-> [n \in Attempts |-> 0]]
    /\ sent = {}
    /\ recorded = {}
    /\ call = [r \in Requests |-> NoCall]
    /\ rejecting = {}

-----------------------------------------------------------------------------
(* Slot accounting and the active payment row.                             *)

\* _slot_usage for this slot: reserving requests and live appointments.
UsedBy(others) == Cardinality({r \in others : request[r] \in Reserving})
                      + Cardinality(appointments)

\* validate_slot as a fresh submission sees it.
SlotFree == ~slotPast /\ UsedBy(Requests) < Capacity

Rows(r) == {n \in Attempts : payment[r][n] # "NONE"}
OpenRows(r) == {n \in Rows(r) : payment[r][n] \notin Closed}

\* _locked_active_payment: the last row still standing, else the last row.
HasRow(r) == Rows(r) # {}
Active(r) == IF OpenRows(r) # {} THEN Max(OpenRows(r)) ELSE Max(Rows(r))

\* Request and payment rows are locked while a card submission is in flight.
Unlocked(r) == call[r] = NoCall

Emit(r, n, kind) ==
    {[r |-> r, n |-> n, kind |-> kind, copy |-> c] :
        c \in 1..(IF kind = "SUCCEEDED" THEN EventCopies ELSE 1)}

-----------------------------------------------------------------------------
(* Public checkout.                                                        *)

\* POST deposit-intent: the slot is validated under the garage lock and the
\* request, its hold and its first payment row are committed together.  A
\* browser-confirmed provider has its intent already, a two-phase one does not.
DepositIntentCreate(r) ==
    /\ request[r] = "NONE"
    /\ SlotFree
    /\ request' = [request EXCEPT ![r] = "AWAITING_PAYMENT"]
    /\ hold' = [hold EXCEPT ![r] = "live"]
    /\ payment' = [payment EXCEPT ![r][1] = "REQUIRES_PAYMENT"]
    /\ ref' = [ref EXCEPT ![r][1] = ~TwoPhase]
    /\ charge' = [charge EXCEPT ![r][1] = IF TwoPhase THEN "none" ELSE "open"]
    /\ UNCHANGED <<slotPast, appointments, refund, payouts, sent, recorded, call, rejecting>>

\* submit_client_payment_token charges the active row, or a new one when the
\* last attempt is closed.  Its number is the attempt's idempotency key, which
\* a crash can burn: the next row has a new one.
RowToCharge(r) ==
    IF payment[r][Active(r)] \in Closed
    THEN 1 + Max({n \in Attempts : payment[r][n] # "NONE" \/ charge[r][n] # "none"})
    ELSE Active(r)

Chargeable(r) ==
    /\ HasRow(r)
    /\ ~(ref[r][Active(r)] /\ payment[r][Active(r)] # "FAILED")
    /\ request[r] = "AWAITING_PAYMENT"
    /\ hold[r] # "due"

\* What the provider holds once asked to charge key n: a key it knows replays
\* the first charge.  An answer can be lost after the charge was made.
ChargeOutcomes(r, n) ==
    IF charge[r][n] = "none" THEN {"none", "processing", "paid", "declined"} ELSE {charge[r][n]}

ReplyTo(outcome) ==
    CASE outcome = "none"     -> {"error"}
      [] outcome = "declined" -> {"failed", "error"}
      [] OTHER                -> {"accepted", "error"}

SubmitPaymentToken(r) ==
    /\ TwoPhase
    /\ Unlocked(r)
    /\ Chargeable(r)
    /\ RowToCharge(r) \in Attempts
    /\ LET n == RowToCharge(r)
       IN  \E outcome \in ChargeOutcomes(r, n) : \E reply \in ReplyTo(outcome) :
             /\ charge' = [charge EXCEPT ![r][n] = outcome]
             /\ sent' = sent \cup (IF outcome = "paid" THEN Emit(r, n, "SUCCEEDED") ELSE {})
             /\ call' = [call EXCEPT ![r] = [n |-> n, reply |-> reply]]
    /\ UNCHANGED <<booking, rows, refund, payouts, recorded, rejecting>>

\* The answer is committed: never SUCCEEDED from here, whatever it says.
SubmitCommit(r) ==
    /\ ~Unlocked(r)
    /\ LET n == call[r].n
       IN  /\ payment' = [payment EXCEPT ![r][n] =
                              IF call[r].reply = "accepted" THEN "PENDING" ELSE "FAILED"]
           /\ ref' = [ref EXCEPT ![r][n] = call[r].reply # "error" \/ @]
    /\ call' = [call EXCEPT ![r] = NoCall]
    /\ UNCHANGED <<booking, provider, webhooks, rejecting>>

\* The worker dies first: the transaction, a new row included, is rolled back.
SubmitCrash(r) ==
    /\ Crashes
    /\ ~Unlocked(r)
    /\ call' = [call EXCEPT ![r] = NoCall]
    /\ UNCHANGED <<booking, rows, provider, webhooks, rejecting>>

-----------------------------------------------------------------------------
(* Releasing and reconciling holds.                                        *)

\* Mutation of Reconciles: any answer from the provider counts as a success.
AnyAnswerReconciles(r, n, answers) ==
    \/ payment[r][n] = "SUCCEEDED"
    \/ payment[r][n] \in InFlight /\ ref[r][n] /\ answers

\* _reconcile_if_already_succeeded: the row already says so, or the provider,
\* when it answers, does.
Reconciles(r, n, answers) ==
    \/ payment[r][n] = "SUCCEEDED"
    \/ /\ payment[r][n] \in InFlight
       /\ ref[r][n]
       /\ answers
       /\ charge[r][n] = "paid"

\* Whatever the request's status is by then, it becomes PENDING.
Reconcile(r, n) ==
    /\ payment' = [payment EXCEPT ![r][n] = "SUCCEEDED"]
    /\ request' = [request EXCEPT ![r] = "PENDING"]
    /\ hold' = [hold EXCEPT ![r] = "none"]
    /\ UNCHANGED <<slotPast, appointments, ref, provider, webhooks, call, rejecting>>

\* cancel_payment is a no-op on anything that can no longer be cancelled.
ProviderCancels(r, n) ==
    IF charge[r][n] = "open"
    THEN /\ charge' = [charge EXCEPT ![r][n] = "cancelled"]
         /\ sent' = sent \cup Emit(r, n, "CANCELLED")
    ELSE UNCHANGED <<charge, sent>>

\* A released hold: the request expires and an in-flight row is cancelled.  The
\* provider is asked first; its error is only logged, and a worker that dies
\* after asking leaves the rows as they were.
ReleaseHold(r, cancellable) ==
    /\ IF HasRow(r) /\ payment[r][Active(r)] \in cancellable /\ ref[r][Active(r)]
       THEN \E asked \in BOOLEAN :
              IF asked THEN ProviderCancels(r, Active(r)) ELSE UNCHANGED <<charge, sent>>
       ELSE UNCHANGED <<charge, sent>>
    /\ \/ /\ request' = [request EXCEPT ![r] = "EXPIRED"]
          /\ hold' = [hold EXCEPT ![r] = "none"]
          /\ payment' = IF HasRow(r) /\ payment[r][Active(r)] \in cancellable
                        THEN [payment EXCEPT ![r][Active(r)] = "CANCELLED"]
                        ELSE payment
       \/ /\ Crashes
          /\ UNCHANGED <<request, hold, payment>>
    /\ UNCHANGED <<slotPast, appointments, ref, refund, payouts, recorded, call, rejecting>>

\* Mutation of SweepHold: the sweep does not lock the request row.
UnlockedSweepHold(r) ==
    /\ request[r] = "AWAITING_PAYMENT"
    /\ hold[r] = "due"
    /\ \E answers \in BOOLEAN :
         IF HasRow(r) /\ Reconciles(r, Active(r), answers)
         THEN Reconcile(r, Active(r))
         ELSE ReleaseHold(r, InFlight)

\* Mutation of SweepHold: a request whose payment is closed is passed over.
InFlightSweepHold(r) ==
    /\ request[r] = "AWAITING_PAYMENT"
    /\ hold[r] = "due"
    /\ Unlocked(r)
    /\ HasRow(r) /\ payment[r][Active(r)] \in InFlight
    /\ \E answers \in BOOLEAN :
         IF Reconciles(r, Active(r), answers)
         THEN Reconcile(r, Active(r))
         ELSE ReleaseHold(r, InFlight)

\* expire_stale_payment_holds, one stale request at a time: the sweep's single
\* transaction is a sequence of these, with every row it has passed still locked.
SweepHold(r) ==
    /\ request[r] = "AWAITING_PAYMENT"
    /\ hold[r] = "due"
    /\ Unlocked(r)
    /\ \E answers \in BOOLEAN :
         IF HasRow(r) /\ Reconciles(r, Active(r), answers)
         THEN Reconcile(r, Active(r))
         ELSE ReleaseHold(r, InFlight)

\* abandon_public_hold: the customer gives the hold up, but not money already
\* taken (reconciled) nor a payment being confirmed (refused).
AbandonHold(r) ==
    /\ request[r] = "AWAITING_PAYMENT"
    /\ Unlocked(r)
    /\ \E answers \in BOOLEAN :
         IF HasRow(r) /\ Reconciles(r, Active(r), answers)
         THEN Reconcile(r, Active(r))
         ELSE /\ ~(HasRow(r) /\ payment[r][Active(r)] = "PENDING")
              /\ ReleaseHold(r, {"REQUIRES_PAYMENT"})

\* POST deposit-attempt/recover: no condition on the request's status.
RecoverDeposit(r) ==
    /\ request[r] # "NONE"
    /\ Unlocked(r)
    /\ HasRow(r)
    /\ \E answers \in BOOLEAN : Reconciles(r, Active(r), answers)
    /\ Reconcile(r, Active(r))

\* reconcile_submitted_payment, from the status poll of a two-phase checkout.
PollSubmitted(r) ==
    /\ TwoPhase
    /\ request[r] = "AWAITING_PAYMENT"
    /\ Unlocked(r)
    /\ HasRow(r)
    /\ LET n == Active(r)
       IN  /\ payment[r][n] = "PENDING"
           /\ ref[r][n]
           /\ \/ /\ charge[r][n] = "paid"
                 /\ Reconcile(r, n)
              \/ /\ charge[r][n] = "declined"
                 /\ payment' = [payment EXCEPT ![r][n] = "FAILED"]
                 /\ UNCHANGED <<booking, ref, provider, webhooks, call, rejecting>>

-----------------------------------------------------------------------------
(* Staff decisions.                                                        *)

\* is_request_stale, then EXPIRED: the common head of approval and rejection,
\* and all that expire_stale_booking_requests does to one request.
ExpireStaleRequest(r) ==
    /\ request[r] = "PENDING"
    /\ slotPast
    /\ request' = [request EXCEPT ![r] = "EXPIRED"]
    /\ UNCHANGED <<hold, slotPast, appointments, rows, provider, webhooks, call, rejecting>>

\* Mutation of ApproveBookingRequest: the request's status is not looked at.
UncheckedApprove(r) ==
    /\ HasRow(r) /\ payment[r][Active(r)] = "SUCCEEDED"
    /\ ~slotPast
    /\ UsedBy(Requests \ {r}) < Capacity
    /\ request' = [request EXCEPT ![r] = "APPROVED"]
    /\ appointments' = appointments \cup
         {<<r, Cardinality({a \in appointments : a[1] = r})>>}
    /\ UNCHANGED <<hold, slotPast, rows, provider, webhooks, call, rejecting>>

\* approve_booking_request: its own reservation does not count against it.
ApproveBookingRequest(r) ==
    /\ request[r] = "PENDING"
    /\ ~slotPast
    /\ UsedBy(Requests \ {r}) < Capacity
    /\ request' = [request EXCEPT ![r] = "APPROVED"]
    /\ appointments' = appointments \cup
         {<<r, Cardinality({a \in appointments : a[1] = r})>>}
    /\ UNCHANGED <<hold, slotPast, rows, provider, webhooks, call, rejecting>>

\* The rejection commits, then refunds in a transaction of its own.
RejectBookingRequest(r) ==
    /\ request[r] = "PENDING"
    /\ ~slotPast
    /\ request' = [request EXCEPT ![r] = "REJECTED"]
    /\ rejecting' = rejecting \cup {r}
    /\ UNCHANGED <<hold, slotPast, appointments, rows, provider, webhooks, call>>

\* Mutation of RefundIsNew: a fresh idempotency key for every call.
EveryRefundIsNew(r, n) == TRUE

\* What the provider holds once asked for the refund.  The key is the row's,
\* so a repeated call finds the refund of the first.
RefundIsNew(r, n) == refund[r][n] = "none"

RefundOutcomes(r, n) ==
    IF RefundIsNew(r, n) THEN RefundState ELSE {refund[r][n]}

RefundEvents(r, n, outcome) ==
    CASE outcome = "pending" -> Emit(r, n, "REFUND_PENDING")
      [] outcome = "done"    -> Emit(r, n, "REFUNDED")
      [] outcome = "failed"  -> Emit(r, n, "REFUND_FAILED")
      [] OTHER               -> {}

\* Mutation of RefundRow: a provider error leaves the row as it was.
SilentRefundRow(r, n) ==
    \E outcome \in RefundOutcomes(r, n), answered \in BOOLEAN :
      /\ answered => outcome # "none"
      /\ refund' = [refund EXCEPT ![r][n] = outcome]
      /\ payouts' = [payouts EXCEPT ![r][n] =
                        IF RefundIsNew(r, n) /\ outcome = "done" THEN @ + 1 ELSE @]
      /\ sent' = sent \cup RefundEvents(r, n, outcome)
      /\ payment' = IF ~answered THEN payment
                    ELSE [payment EXCEPT ![r][n] =
                             IF outcome = "done" THEN "REFUNDED" ELSE "REFUND_PENDING"]

\* refund_deposit on a SUCCEEDED row: an error, a refund already paid out, or
\* one the provider will report on.  The call is made before the commit.
RefundRow(r, n) ==
    \E outcome \in RefundOutcomes(r, n), answered \in BOOLEAN :
      /\ answered => outcome # "none"
      /\ refund' = [refund EXCEPT ![r][n] = outcome]
      /\ payouts' = [payouts EXCEPT ![r][n] =
                        IF RefundIsNew(r, n) /\ outcome = "done" THEN @ + 1 ELSE @]
      /\ sent' = sent \cup RefundEvents(r, n, outcome)
      /\ \/ payment' = [payment EXCEPT ![r][n] =
                            IF ~answered THEN "REFUND_FAILED"
                            ELSE IF outcome = "done" THEN "REFUNDED" ELSE "REFUND_PENDING"]
         \/ Crashes /\ UNCHANGED payment

Refundable(r) == HasRow(r) /\ payment[r][Active(r)] = "SUCCEEDED"

RejectRefund(r) ==
    /\ r \in rejecting
    /\ Unlocked(r)
    /\ rejecting' = rejecting \ {r}
    /\ IF Refundable(r)
       THEN RefundRow(r, Active(r))
       ELSE UNCHANGED <<payment, refund, payouts, sent>>
    /\ UNCHANGED <<booking, ref, charge, recorded, call>>

RejectCrash(r) ==
    /\ Crashes
    /\ r \in rejecting
    /\ rejecting' = rejecting \ {r}
    /\ UNCHANGED <<booking, rows, provider, webhooks, call>>

\* POST refund, by the owner: whatever became of the request.
RefundBookingRequest(r) ==
    /\ request[r] # "NONE"
    /\ Unlocked(r)
    /\ Refundable(r)
    /\ RefundRow(r, Active(r))
    /\ UNCHANGED <<booking, ref, charge, recorded, call, rejecting>>

-----------------------------------------------------------------------------
(* The provider and its customers.                                         *)

CustomerPays(r, n) ==
    /\ charge[r][n] \in {"open", "processing"}
    /\ charge' = [charge EXCEPT ![r][n] = "paid"]
    /\ sent' = sent \cup Emit(r, n, "SUCCEEDED")
    /\ UNCHANGED <<booking, rows, refund, payouts, recorded, call, rejecting>>

\* A declined card closes a two-phase charge; a browser intent stays payable.
CardDeclined(r, n) ==
    /\ charge[r][n] \in {"open", "processing"}
    /\ charge' = [charge EXCEPT ![r][n] = IF TwoPhase THEN "declined" ELSE "open"]
    /\ sent' = sent \cup Emit(r, n, "FAILED")
    /\ UNCHANGED <<booking, rows, refund, payouts, recorded, call, rejecting>>

RefundSettles(r, n) ==
    /\ refund[r][n] = "pending"
    /\ \E outcome \in {"done", "failed"} :
         /\ refund' = [refund EXCEPT ![r][n] = outcome]
         /\ payouts' = [payouts EXCEPT ![r][n] = IF outcome = "done" THEN @ + 1 ELSE @]
         /\ sent' = sent \cup RefundEvents(r, n, outcome)
    /\ UNCHANGED <<booking, rows, charge, recorded, call, rejecting>>

-----------------------------------------------------------------------------
(* Webhooks.                                                               *)

\* Mutation of MayReinstate: the slot's bays are not counted again.
ReinstateIfAhead(r) == ~slotPast

\* _reinstate_or_flag_expired_booking.
MayReinstate(r) == SlotFree

\* Mutation of HandlePaymentSucceeded: a charge always reopens its request.
ReopeningPaymentSucceeded(r, n) ==
    /\ payment' = [payment EXCEPT ![r][n] = "SUCCEEDED"]
    /\ request' = [request EXCEPT ![r] = "PENDING"]
    /\ hold' = [hold EXCEPT ![r] = "none"]

\* Mutation of HandlePaymentSucceeded: a cancelled row is final.
FinalCancelPaymentSucceeded(r, n) ==
    IF payment[r][n] \in {"SUCCEEDED", "CANCELLED"}
    THEN UNCHANGED <<request, hold, payment>>
    ELSE /\ payment' = [payment EXCEPT ![r][n] = "SUCCEEDED"]
         /\ request' = IF request[r] = "AWAITING_PAYMENT"
                       THEN [request EXCEPT ![r] = "PENDING"] ELSE request
         /\ hold' = [hold EXCEPT ![r] = "none"]

HandlePaymentSucceeded(r, n) ==
    IF payment[r][n] = "SUCCEEDED"
    THEN UNCHANGED <<request, hold, payment>>
    ELSE /\ payment' = [payment EXCEPT ![r][n] = "SUCCEEDED"]
         /\ \/ /\ request[r] = "AWAITING_PAYMENT"
               /\ request' = [request EXCEPT ![r] = "PENDING"]
               /\ hold' = [hold EXCEPT ![r] = "none"]
            \/ /\ request[r] = "EXPIRED"
               /\ request' = IF MayReinstate(r)
                             THEN [request EXCEPT ![r] = "PENDING"] ELSE request
               /\ UNCHANGED hold
            \/ /\ request[r] \notin {"AWAITING_PAYMENT", "EXPIRED"}
               /\ UNCHANGED <<request, hold>>

\* Statuses an event of each other kind leaves as they are.
Settled(kind) ==
    IF kind \in {"FAILED", "CANCELLED"}
    THEN {"SUCCEEDED", "CANCELLED"}
    ELSE {"REFUNDED"}

HandleOtherEvent(r, n, kind) ==
    /\ payment' = IF payment[r][n] \in Settled(kind)
                  THEN payment ELSE [payment EXCEPT ![r][n] = kind]
    /\ UNCHANGED <<request, hold>>

\* process_webhook: an id already recorded is acknowledged and ignored, and so
\* is an event whose payment id no row carries yet; the id is recorded either
\* way.  An event waits for rows a card submission has locked.
ProcessWebhook(e) ==
    /\ e \in sent \ recorded
    /\ Unlocked(e.r) \/ ~ref[e.r][e.n]
    /\ recorded' = recorded \cup {e}
    /\ IF ~ref[e.r][e.n]
       THEN UNCHANGED <<request, hold, payment>>
       ELSE IF e.kind = "SUCCEEDED"
            THEN HandlePaymentSucceeded(e.r, e.n)
            ELSE HandleOtherEvent(e.r, e.n, e.kind)
    /\ UNCHANGED <<slotPast, appointments, ref, provider, sent, call, rejecting>>

-----------------------------------------------------------------------------
(* Time.                                                                   *)

HoldLapses(r) ==
    /\ hold[r] = "live"
    /\ hold' = [hold EXCEPT ![r] = "due"]
    /\ UNCHANGED <<request, slotPast, appointments, rows, provider, webhooks, call, rejecting>>

SlotTimePasses ==
    /\ ~slotPast
    /\ slotPast' = TRUE
    /\ UNCHANGED <<request, hold, appointments, rows, provider, webhooks, call, rejecting>>

-----------------------------------------------------------------------------
Public(r) == \/ DepositIntentCreate(r)
             \/ SubmitPaymentToken(r) \/ SubmitCommit(r) \/ SubmitCrash(r)
             \/ AbandonHold(r) \/ RecoverDeposit(r) \/ PollSubmitted(r)
Staff(r)  == \/ ApproveBookingRequest(r) \/ RejectBookingRequest(r)
             \/ RejectRefund(r) \/ RejectCrash(r) \/ RefundBookingRequest(r)
Sweeps(r) == SweepHold(r) \/ ExpireStaleRequest(r)
Bank(r)   == \E n \in Attempts : CustomerPays(r, n) \/ CardDeclined(r, n) \/ RefundSettles(r, n)

Next == \/ \E r \in Requests : Public(r) \/ Staff(r) \/ Sweeps(r) \/ Bank(r) \/ HoldLapses(r)
        \/ \E e \in Event : ProcessWebhook(e)
        \/ SlotTimePasses

Spec == Init /\ [][Next]_vars

(***************************************************************************)
(* What the system keeps doing: the sweep runs at the head of every        *)
(* availability, checkout and staff-queue request, a running worker ends   *)
(* its transaction, the provider retries a webhook until it is             *)
(* acknowledged.  No customer and no member of staff is obliged to act.    *)
(***************************************************************************)
Fairness ==
    /\ \A r \in Requests : /\ WF_vars(SweepHold(r) /\ request'[r] # request[r])
                           /\ WF_vars(SubmitCommit(r))
                           /\ WF_vars(RejectRefund(r))
                           /\ WF_vars(HoldLapses(r))
    /\ \A e \in Event : WF_vars(ProcessWebhook(e))

FairSpec == Spec /\ Fairness

-----------------------------------------------------------------------------
(* Properties.                                                             *)

Charged(r, n)  == charge[r][n] = "paid"
Revived(r)     == RecoverDeposit(r) /\ request[r] # "AWAITING_PAYMENT"
Overbooked     == UsedBy(Requests) > Capacity

\* A request reaches staff, and is decided by them, only when the provider has
\* taken a deposit for it: no answer, poll, replay or recovery fakes one.
PaidBeforeReview ==
    \A r \in Requests :
        request[r] \in {"PENDING", "APPROVED", "REJECTED"} => \E n \in Attempts : Charged(r, n)

\* The provider pays an attempt's refund out at most once and only for money it
\* took, though late events flip the row back to SUCCEEDED, workers die after
\* the call and both the rejection and the owner's refund may ask again.
RefundedAtMostOnce ==
    \A r \in Requests, n \in Attempts :
        payouts[r][n] <= 1 /\ (payouts[r][n] > 0 => Charged(r, n))

\* Seen from outside, where requests stand, whose money was taken and what was
\* paid back, the handlers, the sweeps and the provider together do nothing but
\* reserve, take a deposit, put a paid request before staff, decide it, let it
\* lapse and return a deposit, one at a time and each only when it may be done:
\* no decision without a review, no lapse of a decided request, no lost charge.
Promise == INSTANCE DepositPromise WITH
    stage    <- request,
    taken    <- [r \in Requests |-> {n \in Attempts : Charged(r, n)}],
    returned <- payouts

KeepsPromise == Promise!Spec

\* No step but the recovery of a checkout that was already decided or expired
\* lets the slot hold more bookings than it has bays.
OverbookedOnlyByRecovery ==
    [][~Overbooked /\ Overbooked' => \E r \in Requests : Revived(r)]_vars

\* A decision is final, and an expired request comes back only into a slot it
\* still fits; again except for a recovery.
DecisionsStand ==
    [][\A r \in Requests :
         /\ request[r] \in Decided => request'[r] = request[r] \/ Revived(r)
         /\ request[r] = "EXPIRED" =>
              request'[r] = "EXPIRED" \/ Revived(r)
                \/ (request'[r] = "PENDING" /\ ~slotPast /\ ~Overbooked')]_vars

\* While a card is being charged nobody else decides that request: the row
\* locks cover the call to the provider.
SubmissionIsExclusive ==
    [][\A r \in Requests : call[r] # NoCall =>
         UNCHANGED <<request[r], payment[r]>> \/ SubmitCommit(r)]_vars

\* A hold that has timed out is released or becomes a paid request.
HoldsAreReleased ==
    \A r \in Requests : request[r] = "AWAITING_PAYMENT" ~> request[r] # "AWAITING_PAYMENT"

\* A success the provider still has to report is not lost on a row that was
\* swept, abandoned, declined or cancelled meanwhile: the charge gets recorded.
ChargesAreRecorded ==
    \A r \in Requests, n \in Attempts :
        Charged(r, n) /\ ~(Emit(r, n, "SUCCEEDED") \subseteq recorded)
            ~> payment[r][n] = "SUCCEEDED"

\* "Only a business rejecting an already-paid request auto-refunds": a rejection
\* that finds the deposit taken gets as far as asking for it back, unless the
\* request is reopened first.
RejectionRefunds ==
    \A r \in Requests :
        r \in rejecting /\ Refundable(r)
            ~> \/ request[r] # "REJECTED"
               \/ payment[r][Active(r)] \in {"REFUND_PENDING", "REFUNDED", "REFUND_FAILED"}

-----------------------------------------------------------------------------
(* A statement of the documentation the code does not keep.                *)

\* "Repeated approval cannot create another appointment."
OneAppointmentPerRequest ==
    \A a, b \in appointments : a[1] = b[1] => a = b
=============================================================================
