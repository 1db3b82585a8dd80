----------------------- MODULE DepositBooking_proofs -----------------------
(* Proofs about DepositBooking, for every number of requests, attempts and bays. *)
EXTENDS DepositBooking, OrderLemmas, TLAPS

\* A set of numbers with an upper bound has a greatest element: the row that
\* _locked_active_payment orders last exists.
LEMMA GreatestExists ==
    ASSUME NEW k \in Nat, NEW S \in SUBSET (1..k), S # {}
    PROVE  /\ Max(S) \in S
           /\ \A m \in S : m <= Max(S)
<1>1. S \subseteq 0..k
  OBVIOUS
<1> QED
  BY <1>1, GreatestBelow DEF Max

-----------------------------------------------------------------------------
(* The inductive invariant.                                                *)

\* A row shown as charged was charged, and so was every row whose success the
\* provider reported: what lets a webhook or a recovery hand a request to staff.
SuccessIsCharged ==
    /\ \A r \in Requests, n \in Attempts : payment[r][n] = "SUCCEEDED" => Charged(r, n)
    /\ \A e \in sent : e.kind = "SUCCEEDED" => Charged(e.r, e.n)

\* The provider knows nothing of a request that was never submitted, so that
\* its first row cannot overwrite a charge.
UnsubmittedIsUncharged ==
    \A r \in Requests : request[r] = "NONE" => \A n \in Attempts : charge[r][n] = "none"

\* The provider pays a refund out when, and only when, it makes it; it makes
\* one only for a charged row.
PayoutIsRefund ==
    \A r \in Requests, n \in Attempts :
        /\ payouts[r][n] = (IF refund[r][n] = "done" THEN 1 ELSE 0)
        /\ refund[r][n] # "none" => Charged(r, n)

IInv ==
    /\ TypeOK
    /\ IsFiniteSet(appointments)
    /\ PaidBeforeReview
    /\ SuccessIsCharged
    /\ UnsubmittedIsUncharged
    /\ PayoutIsRefund

-----------------------------------------------------------------------------
\* An emitted event is about the row that changed.
LEMMA EmitType ==
    ASSUME NEW r \in Requests, NEW n \in Attempts, NEW kind \in EventKinds
    PROVE  /\ Emit(r, n, kind) \subseteq Event
           /\ \A e \in Emit(r, n, kind) : e.r = r /\ e.n = n /\ e.kind = kind
<1>1. \A c \in 1..(IF kind = "SUCCEEDED" THEN EventCopies ELSE 1) : c \in 1..EventCopies
  BY DepositAssumption
<1> QED
  BY <1>1 DEF Emit, Event

\* The active row is one of the request's rows.
LEMMA ActiveIsRow ==
    ASSUME NEW r \in Requests, HasRow(r)
    PROVE  /\ Active(r) \in Attempts
           /\ Active(r) \in Rows(r)
<1>1. Rows(r) \in SUBSET (1..MaxAttempts) /\ OpenRows(r) \in SUBSET (1..MaxAttempts)
  BY DEF Rows, OpenRows, Attempts
<1>2. OpenRows(r) \subseteq Rows(r)
  BY DEF OpenRows
<1>3. MaxAttempts \in Nat
  BY DepositAssumption
<1>4. CASE OpenRows(r) # {}
  BY <1>1, <1>2, <1>3, <1>4, GreatestExists DEF Active, Attempts
<1>5. CASE OpenRows(r) = {}
  BY <1>1, <1>3, <1>5, GreatestExists DEF Active, Attempts, HasRow
<1> QED
  BY <1>4, <1>5

\* The invariant holds of an empty database.
LEMMA InitInvariant == Init => IInv
<1> SUFFICES ASSUME Init PROVE IInv
  OBVIOUS
<1>1. TypeOK
  BY DepositAssumption DEF Init, TypeOK, RequestStatus, ChargeState, RefundState, Calls
<1>2. IsFiniteSet(appointments)
  BY FS_EmptySet DEF Init
<1>3. PaidBeforeReview /\ SuccessIsCharged /\ UnsubmittedIsUncharged /\ PayoutIsRefund
  BY DEF Init, PaidBeforeReview, SuccessIsCharged, UnsubmittedIsUncharged, PayoutIsRefund
<1> QED
  BY <1>1, <1>2, <1>3 DEF IInv

-----------------------------------------------------------------------------
(* Typing.                                                                 *)

\* Writing one row's field keeps a table of rows typed.
LEMMA UpdateType ==
    ASSUME NEW S, NEW f \in [Requests -> [Attempts -> S]], NEW r, NEW n, NEW v \in S
    PROVE  [f EXCEPT ![r][n] = v] \in [Requests -> [Attempts -> S]]
OBVIOUS

\* ... and changes no other value of the table.
LEMMA UpdateValue ==
    ASSUME NEW S, NEW f \in [Requests -> [Attempts -> S]], NEW r, NEW n, NEW v, NEW g,
           g = [f EXCEPT ![r][n] = v]
    PROVE  \A q \in Requests, m \in Attempts :
               g[q][m] = f[q][m] \/ (q = r /\ m = n /\ g[q][m] = v)
OBVIOUS

\* Releasing a hold, from the sweep or from an abandoned checkout, keeps types.
LEMMA ReleaseHoldType ==
    ASSUME TypeOK, NEW r \in Requests, NEW C \in SUBSET PaymentStatus, ReleaseHold(r, C)
    PROVE  TypeOK'
<1> USE DEF TypeOK
<1>1. /\ charge' \in [Requests -> [Attempts -> ChargeState]]
      /\ sent' \subseteq Event
  <2>1. CASE UNCHANGED <<charge, sent>>
    BY <2>1
  <2>2. CASE HasRow(r) /\ ProviderCancels(r, Active(r))
    <3>1. Active(r) \in Attempts
      BY <2>2, ActiveIsRow
    <3>2. Emit(r, Active(r), "CANCELLED") \subseteq Event
      BY <3>1, EmitType DEF EventKinds
    <3>3. "cancelled" \in ChargeState
      BY DEF ChargeState
    <3>4. [charge EXCEPT ![r][Active(r)] = "cancelled"] \in [Requests -> [Attempts -> ChargeState]]
      BY <3>3, UpdateType
    <3> QED
      BY <2>2, <3>2, <3>4 DEF ProviderCancels
  <2> QED
    BY <2>1, <2>2 DEF ReleaseHold
<1>2. "EXPIRED" \in RequestStatus /\ "CANCELLED" \in PaymentStatus \cup {"NONE"}
  BY DEF RequestStatus, PaymentStatus
<1>3. /\ request' \in [Requests -> RequestStatus]
      /\ hold' \in [Requests -> {"none", "live", "due"}]
  <2>1. \/ request' = request /\ hold' = hold
        \/ request' = [request EXCEPT ![r] = "EXPIRED"] /\ hold' = [hold EXCEPT ![r] = "none"]
    BY DEF ReleaseHold
  <2>2. request' \in [Requests -> RequestStatus]
    BY <1>2, <2>1
  <2>3. hold' \in [Requests -> {"none", "live", "due"}]
    BY <2>1
  <2> QED
    BY <2>2, <2>3
<1>4. payment' \in [Requests -> [Attempts -> PaymentStatus \cup {"NONE"}]]
  <2>1. [payment EXCEPT ![r][Active(r)] = "CANCELLED"]
            \in [Requests -> [Attempts -> PaymentStatus \cup {"NONE"}]]
    BY <1>2, UpdateType
  <2> QED
    BY <2>1 DEF ReleaseHold
<1>5. UNCHANGED <<slotPast, appointments, ref, refund, payouts, recorded, call, rejecting>>
  BY DEF ReleaseHold
<1> QED
  BY <1>1, <1>3, <1>4, <1>5

\* Reconciling a row as charged keeps types.
LEMMA ReconcileType ==
    ASSUME TypeOK, NEW r \in Requests, NEW n \in Attempts, Reconcile(r, n)
    PROVE  TypeOK'
BY DEF TypeOK, Reconcile, provider, webhooks, RequestStatus, PaymentStatus

\* Asking for a refund keeps types.
LEMMA RefundRowType ==
    ASSUME TypeOK, NEW r \in Requests, NEW n \in Attempts, RefundRow(r, n)
    PROVE  /\ payment' \in [Requests -> [Attempts -> PaymentStatus \cup {"NONE"}]]
           /\ refund' \in [Requests -> [Attempts -> RefundState]]
           /\ payouts' \in [Requests -> [Attempts -> Nat]]
           /\ sent' \subseteq Event
<1> USE DEF TypeOK
<1>1. PICK outcome \in RefundOutcomes(r, n), answered \in BOOLEAN :
        /\ refund' = [refund EXCEPT ![r][n] = outcome]
        /\ payouts' = [payouts EXCEPT ![r][n] =
                          IF RefundIsNew(r, n) /\ outcome = "done" THEN @ + 1 ELSE @]
        /\ sent' = sent \cup RefundEvents(r, n, outcome)
        /\ \/ payment' = [payment EXCEPT ![r][n] =
                              IF ~answered THEN "REFUND_FAILED"
                              ELSE IF outcome = "done" THEN "REFUNDED" ELSE "REFUND_PENDING"]
           \/ UNCHANGED payment
  BY DEF RefundRow
<1>2. outcome \in RefundState
  BY DEF RefundOutcomes
<1>3. RefundEvents(r, n, outcome) \subseteq Event
  BY <1>2, EmitType DEF RefundEvents, EventKinds, RefundState
<1>4. payouts' \in [Requests -> [Attempts -> Nat]]
  BY <1>1
<1>5. refund' \in [Requests -> [Attempts -> RefundState]]
  BY <1>1, <1>2
<1>6. payment' \in [Requests -> [Attempts -> PaymentStatus \cup {"NONE"}]]
  <2>1. \A v \in {"REFUND_FAILED", "REFUNDED", "REFUND_PENDING"} :
          [payment EXCEPT ![r][n] = v] \in [Requests -> [Attempts -> PaymentStatus \cup {"NONE"}]]
    BY UpdateType DEF PaymentStatus
  <2> QED
    BY <1>1, <2>1
<1> QED
  BY <1>1, <1>3, <1>4, <1>5, <1>6

\* A webhook keeps types.
LEMMA ProcessWebhookType ==
    ASSUME TypeOK, NEW e \in Event, ProcessWebhook(e)
    PROVE  TypeOK'
<1> USE DEF TypeOK
<1>1. e.r \in Requests /\ e.n \in Attempts /\ e.kind \in EventKinds
  BY DEF Event
<1>2. /\ request' \in [Requests -> RequestStatus]
      /\ hold' \in [Requests -> {"none", "live", "due"}]
      /\ payment' \in [Requests -> [Attempts -> PaymentStatus \cup {"NONE"}]]
  <2>1. CASE UNCHANGED <<request, hold, payment>>
    BY <2>1
  <2>2. CASE HandlePaymentSucceeded(e.r, e.n)
    <3>1. [payment EXCEPT ![e.r][e.n] = "SUCCEEDED"]
              \in [Requests -> [Attempts -> PaymentStatus \cup {"NONE"}]]
      BY UpdateType DEF PaymentStatus
    <3>2. [request EXCEPT ![e.r] = "PENDING"] \in [Requests -> RequestStatus]
      BY DEF RequestStatus
    <3> QED
      BY <2>2, <3>1, <3>2 DEF HandlePaymentSucceeded
  <2>3. CASE HandleOtherEvent(e.r, e.n, e.kind)
    BY <1>1, <2>3 DEF HandleOtherEvent, EventKinds, PaymentStatus
  <2> QED
    BY <2>1, <2>2, <2>3 DEF ProcessWebhook
<1>3. recorded' \subseteq Event
  BY DEF ProcessWebhook
<1>4. UNCHANGED <<slotPast, appointments, ref, charge, refund, payouts, sent, call, rejecting>>
  BY DEF ProcessWebhook, provider
<1> QED
  BY <1>2, <1>3, <1>4

\* The card submission and its commit keep types.
LEMMA SubmitType ==
    ASSUME TypeOK, NEW r \in Requests, SubmitPaymentToken(r) \/ SubmitCommit(r) \/ SubmitCrash(r)
    PROVE  TypeOK'
<1> USE DEF TypeOK
<1>1. CASE SubmitPaymentToken(r)
  <2> DEFINE n == RowToCharge(r)
  <2>1. n \in Attempts
    BY <1>1 DEF SubmitPaymentToken
  <2> HIDE DEF n
  <2>2. PICK outcome \in ChargeOutcomes(r, n), reply \in {"accepted", "failed", "error"} :
          /\ charge' = [charge EXCEPT ![r][n] = outcome]
          /\ sent' = sent \cup (IF outcome = "paid" THEN Emit(r, n, "SUCCEEDED") ELSE {})
          /\ call' = [call EXCEPT ![r] = [n |-> n, reply |-> reply]]
    BY <1>1 DEF SubmitPaymentToken, ReplyTo, n
  <2>3. outcome \in ChargeState
    <3>1. charge[r][n] \in ChargeState
      BY <2>1
    <3> QED
      BY <2>2, <3>1 DEF ChargeOutcomes, ChargeState
  <2>4. Emit(r, n, "SUCCEEDED") \subseteq Event
    BY <2>1, EmitType DEF EventKinds
  <2>5. call' \in [Requests -> Calls]
    BY <2>1, <2>2 DEF Calls
  <2> QED
    BY <1>1, <2>1, <2>2, <2>3, <2>4, <2>5 DEF SubmitPaymentToken, booking, rows
<1>2. CASE SubmitCommit(r)
  <2>1. call' \in [Requests -> Calls]
    BY <1>2 DEF SubmitCommit, Calls
  <2>2. payment' \in [Requests -> [Attempts -> PaymentStatus \cup {"NONE"}]]
    BY <1>2 DEF SubmitCommit, PaymentStatus
  <2>3. ref' \in [Requests -> [Attempts -> BOOLEAN]]
    BY <1>2, Zenon DEF SubmitCommit
  <2> QED
    BY <1>2, <2>1, <2>2, <2>3 DEF SubmitCommit, booking, provider, webhooks
<1>3. CASE SubmitCrash(r)
  BY <1>3 DEF SubmitCrash, Calls, booking, rows, provider, webhooks
<1> QED
  BY <1>1, <1>2, <1>3

\* Every other step of a request keeps types.
LEMMA RequestStepType ==
    ASSUME TypeOK, IsFiniteSet(appointments), NEW r \in Requests,
           Public(r) \/ Staff(r) \/ Sweeps(r) \/ Bank(r) \/ HoldLapses(r)
    PROVE  TypeOK' /\ IsFiniteSet(appointments')
<1> USE DEF booking, rows, provider, webhooks
<1>1. CASE DepositIntentCreate(r)
  <2>1. 1 \in Attempts
    BY DepositAssumption DEF Attempts
  <2>2. /\ "REQUIRES_PAYMENT" \in PaymentStatus \cup {"NONE"}
        /\ "AWAITING_PAYMENT" \in RequestStatus
        /\ (IF TwoPhase THEN "none" ELSE "open") \in ChargeState
    BY DEF PaymentStatus, RequestStatus, ChargeState
  <2>3. (~TwoPhase) \in BOOLEAN
    OBVIOUS
  <2>4. /\ payment' \in [Requests -> [Attempts -> PaymentStatus \cup {"NONE"}]]
        /\ ref' \in [Requests -> [Attempts -> BOOLEAN]]
        /\ charge' \in [Requests -> [Attempts -> ChargeState]]
    BY <1>1, <2>1, <2>2, <2>3, UpdateType DEF DepositIntentCreate, TypeOK
  <2> QED
    BY <1>1, <2>2, <2>4 DEF DepositIntentCreate, TypeOK
<1>2. CASE SubmitPaymentToken(r) \/ SubmitCommit(r) \/ SubmitCrash(r)
  BY <1>2, SubmitType DEF SubmitPaymentToken, SubmitCommit, SubmitCrash
<1>3. CASE AbandonHold(r)
  <2>1. CASE HasRow(r) /\ Reconcile(r, Active(r))
    BY <2>1, ReconcileType, ActiveIsRow DEF Reconcile
  <2>2. CASE ReleaseHold(r, {"REQUIRES_PAYMENT"})
    <3>1. {"REQUIRES_PAYMENT"} \in SUBSET PaymentStatus
      BY DEF PaymentStatus
    <3> QED
      BY <2>2, <3>1, ReleaseHoldType DEF ReleaseHold
  <2> QED
    BY <1>3, <2>1, <2>2 DEF AbandonHold
<1>4. CASE RecoverDeposit(r)
  BY <1>4, ReconcileType, ActiveIsRow DEF RecoverDeposit, Reconcile
<1>5. CASE PollSubmitted(r)
  <2>1. Active(r) \in Attempts
    BY <1>5, ActiveIsRow DEF PollSubmitted
  <2>2. CASE Reconcile(r, Active(r))
    BY <2>1, <2>2, ReconcileType DEF Reconcile
  <2>3. CASE /\ payment' = [payment EXCEPT ![r][Active(r)] = "FAILED"]
             /\ UNCHANGED <<booking, ref, provider, webhooks, call, rejecting>>
    <3>1. payment' \in [Requests -> [Attempts -> PaymentStatus \cup {"NONE"}]]
      BY <2>3, UpdateType DEF TypeOK, PaymentStatus
    <3> QED
      BY <2>3, <3>1 DEF TypeOK
  <2> QED
    BY <1>5, <2>2, <2>3 DEF PollSubmitted
<1>6. CASE ApproveBookingRequest(r)
  <2>1. {a \in appointments : a[1] = r} \subseteq appointments
    OBVIOUS
  <2>2. Cardinality({a \in appointments : a[1] = r}) \in Nat
    BY <2>1, FS_Subset, FS_CardinalityType
  <2>3. IsFiniteSet(appointments')
    BY <1>6, FS_AddElement DEF ApproveBookingRequest
  <2>4. appointments' \subseteq Requests \X Nat
    BY <1>6, <2>2 DEF ApproveBookingRequest, TypeOK
  <2>5. request' \in [Requests -> RequestStatus]
    BY <1>6 DEF ApproveBookingRequest, TypeOK, RequestStatus
  <2> QED
    BY <1>6, <2>3, <2>4, <2>5 DEF ApproveBookingRequest, TypeOK
<1>7. CASE RejectBookingRequest(r)
  BY <1>7 DEF RejectBookingRequest, TypeOK, RequestStatus
<1>8. CASE RejectRefund(r)
  <2>1. CASE Refundable(r)
    BY <1>8, <2>1, RefundRowType, ActiveIsRow DEF RejectRefund, Refundable, TypeOK
  <2>2. CASE ~Refundable(r)
    BY <1>8, <2>2 DEF RejectRefund, TypeOK
  <2> QED
    BY <2>1, <2>2
<1>9. CASE RejectCrash(r)
  BY <1>9 DEF RejectCrash, TypeOK
<1>10. CASE RefundBookingRequest(r)
  BY <1>10, RefundRowType, ActiveIsRow DEF RefundBookingRequest, Refundable, TypeOK
<1>11. CASE SweepHold(r)
  <2>1. CASE HasRow(r) /\ Reconcile(r, Active(r))
    BY <2>1, ReconcileType, ActiveIsRow DEF Reconcile
  <2>2. CASE ReleaseHold(r, InFlight)
    <3>1. InFlight \in SUBSET PaymentStatus
      BY DEF PaymentStatus, InFlight
    <3> QED
      BY <2>2, <3>1, ReleaseHoldType DEF ReleaseHold
  <2> QED
    BY <1>11, <2>1, <2>2 DEF SweepHold
<1>12. CASE ExpireStaleRequest(r)
  BY <1>12 DEF ExpireStaleRequest, TypeOK, RequestStatus
<1>13. CASE Bank(r)
  <2>1. PICK n \in Attempts : CustomerPays(r, n) \/ CardDeclined(r, n) \/ RefundSettles(r, n)
    BY <1>13 DEF Bank
  <2>2. CASE CustomerPays(r, n)
    BY <2>2, EmitType, UpdateType DEF CustomerPays, TypeOK, ChargeState, EventKinds
  <2>3. CASE CardDeclined(r, n)
    BY <2>3, EmitType, UpdateType DEF CardDeclined, TypeOK, ChargeState, EventKinds
  <2>4. CASE RefundSettles(r, n)
    <3>1. PICK outcome \in {"done", "failed"} :
            /\ refund' = [refund EXCEPT ![r][n] = outcome]
            /\ payouts' = [payouts EXCEPT ![r][n] = IF outcome = "done" THEN @ + 1 ELSE @]
            /\ sent' = sent \cup RefundEvents(r, n, outcome)
      BY <2>4 DEF RefundSettles
    <3>2. RefundEvents(r, n, outcome) \subseteq Event
      BY <3>1, EmitType DEF RefundEvents, EventKinds
    <3>3. refund' \in [Requests -> [Attempts -> RefundState]]
      BY <3>1, UpdateType DEF TypeOK, RefundState
    <3>4. payouts' \in [Requests -> [Attempts -> Nat]]
      BY <3>1 DEF TypeOK
    <3> QED
      BY <2>4, <3>1, <3>2, <3>3, <3>4 DEF RefundSettles, TypeOK
  <2> QED
    BY <2>1, <2>2, <2>3, <2>4 DEF CustomerPays, CardDeclined, RefundSettles
<1>14. CASE HoldLapses(r)
  BY <1>14 DEF HoldLapses, TypeOK
<1> QED
  BY <1>1, <1>2, <1>3, <1>4, <1>5, <1>6, <1>7, <1>8, <1>9, <1>10, <1>11, <1>12, <1>13, <1>14
  DEF Public, Staff, Sweeps

\* No step leaves the types.
LEMMA TypeStep ==
    ASSUME TypeOK, IsFiniteSet(appointments), [Next]_vars
    PROVE  TypeOK' /\ IsFiniteSet(appointments')
<1>1. CASE \E r \in Requests :
              Public(r) \/ Staff(r) \/ Sweeps(r) \/ Bank(r) \/ HoldLapses(r)
  BY <1>1, RequestStepType
<1>2. CASE \E e \in Event : ProcessWebhook(e)
  BY <1>2, ProcessWebhookType DEF ProcessWebhook
<1>3. CASE SlotTimePasses
  BY <1>3 DEF SlotTimePasses, TypeOK, rows, provider, webhooks
<1>4. CASE UNCHANGED vars
  BY <1>4 DEF vars, TypeOK
<1> QED
  BY <1>1, <1>2, <1>3, <1>4 DEF Next

-----------------------------------------------------------------------------
(* What every step respects, whoever takes it.                             *)

Reviewed == {"PENDING", "APPROVED", "REJECTED"}

Money ==
    \A r \in Requests, n \in Attempts : Charged(r, n) => charge'[r][n] = "paid"

Review ==
    \A r \in Requests : request'[r] \in Reviewed =>
        request[r] \in Reviewed \/ \E n \in Attempts : Charged(r, n)

Success ==
    /\ \A r \in Requests, n \in Attempts : payment'[r][n] = "SUCCEEDED" =>
          payment[r][n] = "SUCCEEDED" \/ Charged(r, n)
    /\ \A e \in sent' : e \in sent \/ e.kind # "SUCCEEDED" \/ charge'[e.r][e.n] = "paid"

Unsubmitted ==
    \A r \in Requests : request'[r] = "NONE" =>
        /\ request[r] = "NONE"
        /\ \A n \in Attempts : charge'[r][n] = charge[r][n]

Payout ==
    \A r \in Requests, n \in Attempts :
        \/ /\ payouts'[r][n] = payouts[r][n]
           /\ refund'[r][n] = refund[r][n]
        \/ /\ Charged(r, n)
           /\ refund[r][n] # "done"
           /\ payouts'[r][n] = IF refund'[r][n] = "done" THEN payouts[r][n] + 1
                                ELSE payouts[r][n]

Sound == Money /\ Review /\ Success /\ Unsubmitted /\ Payout

\* A sound step preserves the invariant.
LEMMA SoundStep ==
    ASSUME IInv, TypeOK', IsFiniteSet(appointments'), Sound
    PROVE  IInv'
<1>1. PaidBeforeReview'
  BY DEF IInv, Sound, Money, Review, Reviewed, PaidBeforeReview, Charged
<1>2. SuccessIsCharged'
  <2>1. \A r \in Requests, n \in Attempts : payment'[r][n] = "SUCCEEDED" => Charged(r, n)'
    BY DEF IInv, Sound, Money, Success, SuccessIsCharged, Charged
  <2>2. ASSUME NEW e \in sent', e.kind = "SUCCEEDED" PROVE Charged(e.r, e.n)'
    <3>1. e.r \in Requests /\ e.n \in Attempts
      BY <2>2 DEF TypeOK, Event
    <3> QED
      BY <2>2, <3>1 DEF IInv, Sound, Money, Success, SuccessIsCharged, Charged
  <2> QED
    BY <2>1, <2>2 DEF SuccessIsCharged
<1>3. UnsubmittedIsUncharged'
  BY DEF IInv, Sound, Unsubmitted, UnsubmittedIsUncharged
<1>4. PayoutIsRefund'
  <2> SUFFICES ASSUME NEW r \in Requests, NEW n \in Attempts
               PROVE  /\ payouts'[r][n] = (IF refund'[r][n] = "done" THEN 1 ELSE 0)
                      /\ refund'[r][n] # "none" => Charged(r, n)'
    BY DEF PayoutIsRefund
  <2>1. Charged(r, n) => Charged(r, n)'
    BY DEF Sound, Money, Charged
  <2>2. /\ payouts[r][n] = (IF refund[r][n] = "done" THEN 1 ELSE 0)
        /\ refund[r][n] # "none" => Charged(r, n)
    BY DEF IInv, PayoutIsRefund
  <2>3. \/ payouts'[r][n] = payouts[r][n] /\ refund'[r][n] = refund[r][n]
        \/ /\ Charged(r, n)
           /\ refund[r][n] # "done"
           /\ payouts'[r][n] = IF refund'[r][n] = "done" THEN payouts[r][n] + 1
                                ELSE payouts[r][n]
    BY DEF Sound, Payout
  <2> QED
    BY <2>1, <2>2, <2>3
<1> QED
  BY <1>1, <1>2, <1>3, <1>4 DEF IInv

\* Steps that leave the provider alone and make nothing charged.
LEMMA QuietStep ==
    ASSUME IInv, UNCHANGED provider, UNCHANGED sent, Review,
           \A r \in Requests : request'[r] = "NONE" => request[r] = "NONE",
           \A r \in Requests, n \in Attempts : payment'[r][n] = "SUCCEEDED" =>
               payment[r][n] = "SUCCEEDED" \/ Charged(r, n)
    PROVE  Sound
BY DEF Sound, Money, Success, Unsubmitted, Payout, provider, Charged

\* The active row of a request that has one, when it is reconciled.
LEMMA ReconcileSound ==
    ASSUME IInv, NEW r \in Requests, HasRow(r), NEW a \in BOOLEAN,
           Reconciles(r, Active(r), a), Reconcile(r, Active(r))
    PROVE  Sound
<1>1. Active(r) \in Attempts /\ Charged(r, Active(r))
  BY ActiveIsRow DEF IInv, SuccessIsCharged, Reconciles, Charged
<1>2. Review
  BY <1>1 DEF Review, Reconcile, IInv, TypeOK, Reviewed
<1>3. \A q \in Requests : request'[q] = "NONE" => request[q] = "NONE"
  BY DEF Reconcile, IInv, TypeOK
<1>4. \A q \in Requests, n \in Attempts : payment'[q][n] = "SUCCEEDED" =>
          payment[q][n] = "SUCCEEDED" \/ Charged(q, n)
  BY <1>1 DEF Reconcile, IInv, TypeOK
<1> QED
  BY <1>2, <1>3, <1>4, QuietStep DEF Reconcile, webhooks

\* A released hold: what the provider cancels was not charged.
LEMMA ReleaseHoldSound ==
    ASSUME IInv, NEW r \in Requests, request[r] # "NONE", NEW C, ReleaseHold(r, C)
    PROVE  Sound
<1> USE DEF IInv, TypeOK
<1>1. \/ UNCHANGED <<charge, sent>>
      \/ HasRow(r) /\ ProviderCancels(r, Active(r))
  BY DEF ReleaseHold
<1>2. /\ \A q \in Requests : q # r => charge'[q] = charge[q]
      /\ Money
      /\ \A e \in sent' : e \in sent \/ e.kind # "SUCCEEDED"
  <2>1. CASE UNCHANGED <<charge, sent>>
    BY <2>1 DEF Money, Charged
  <2>2. CASE HasRow(r) /\ ProviderCancels(r, Active(r))
    <3>1. \A e \in Emit(r, Active(r), "CANCELLED") : e.kind # "SUCCEEDED"
      BY <2>2, ActiveIsRow, EmitType DEF EventKinds
    <3> QED
      BY <2>2, <3>1, ActiveIsRow DEF ProviderCancels, Money, Charged
  <2> QED
    BY <1>1, <2>1, <2>2
<1>3. /\ \A q \in Requests : request'[q] = request[q] \/ (q = r /\ request'[q] = "EXPIRED")
      /\ \A q \in Requests, n \in Attempts :
            payment'[q][n] = payment[q][n] \/ payment'[q][n] = "CANCELLED"
  <2>1. CASE request' = [request EXCEPT ![r] = "EXPIRED"]
    <3>1. \/ payment' = [payment EXCEPT ![r][Active(r)] = "CANCELLED"]
          \/ payment' = payment
      BY DEF ReleaseHold
    <3>2. \A q \in Requests, n \in Attempts :
            payment'[q][n] = payment[q][n] \/ payment'[q][n] = "CANCELLED"
      <4>1. payment \in [Requests -> [Attempts -> PaymentStatus \cup {"NONE"}]]
        OBVIOUS
      <4> HIDE DEF TypeOK, IInv
      <4> QED
        BY <3>1, <4>1, UpdateValue
    <3> QED
      BY <2>1, <3>2
  <2>2. CASE UNCHANGED <<request, payment>>
    BY <2>2
  <2> QED
    BY <2>1, <2>2 DEF ReleaseHold
<1>4. Review /\ Unsubmitted
  BY <1>2, <1>3 DEF Review, Reviewed, Unsubmitted
<1>5. Success
  BY <1>2, <1>3 DEF Success
<1>6. Payout
  BY DEF ReleaseHold, Payout
<1> QED
  BY <1>2, <1>4, <1>5, <1>6 DEF Sound

\* A refund is asked of a charged row, and paid out when it is new.
LEMMA RefundRowSound ==
    ASSUME IInv, NEW r \in Requests, Refundable(r), RefundRow(r, Active(r)),
           UNCHANGED <<request, charge>>
    PROVE  Sound
<1> USE DEF IInv, TypeOK
<1> DEFINE n == Active(r)
<1>1. n \in Attempts /\ Charged(r, n)
  BY ActiveIsRow DEF Refundable, SuccessIsCharged
<1> HIDE DEF n
<1>2. PICK outcome \in RefundOutcomes(r, n), answered \in BOOLEAN :
        /\ refund' = [refund EXCEPT ![r][n] = outcome]
        /\ payouts' = [payouts EXCEPT ![r][n] =
                          IF RefundIsNew(r, n) /\ outcome = "done" THEN @ + 1 ELSE @]
        /\ sent' = sent \cup RefundEvents(r, n, outcome)
        /\ \/ payment' = [payment EXCEPT ![r][n] =
                              IF ~answered THEN "REFUND_FAILED"
                              ELSE IF outcome = "done" THEN "REFUNDED" ELSE "REFUND_PENDING"]
           \/ UNCHANGED payment
  BY DEF RefundRow, n
<1>3. Success
  <2>1. \A e \in RefundEvents(r, n, outcome) : e.kind # "SUCCEEDED"
    BY <1>1, EmitType DEF RefundEvents, EventKinds
  <2>2. \A q \in Requests, m \in Attempts : payment'[q][m] = "SUCCEEDED" =>
            payment[q][m] = "SUCCEEDED"
    <3>1. PICK v \in {"REFUND_FAILED", "REFUNDED", "REFUND_PENDING"} :
            payment' = [payment EXCEPT ![r][n] = v] \/ payment' = payment
      BY <1>2
    <3>2. v # "SUCCEEDED"
      OBVIOUS
    <3> QED
      <4>1. payment \in [Requests -> [Attempts -> PaymentStatus \cup {"NONE"}]]
        OBVIOUS
      <4> HIDE DEF TypeOK, IInv
      <4> QED
        BY <3>1, <3>2, <4>1, UpdateValue
  <2> QED
    BY <1>2, <2>1, <2>2 DEF Success
<1>4. Payout
  <2>1. CASE RefundIsNew(r, n)
    BY <1>1, <1>2, <2>1 DEF Payout, RefundIsNew
  <2>2. CASE ~RefundIsNew(r, n)
    <3>1. refund' = refund /\ payouts' = payouts
      BY <1>1, <1>2, <2>2 DEF RefundOutcomes
    <3> QED
      BY <3>1 DEF Payout
  <2> QED
    BY <2>1, <2>2
<1>5. Money /\ Review /\ Unsubmitted
  BY DEF Money, Review, Unsubmitted, Charged
<1> QED
  BY <1>3, <1>4, <1>5 DEF Sound

\* The card submission: a charge once made is replayed, never undone.
LEMMA SubmitSound ==
    ASSUME IInv, NEW r \in Requests, SubmitPaymentToken(r) \/ SubmitCommit(r) \/ SubmitCrash(r)
    PROVE  Sound
<1> USE DEF IInv, TypeOK
<1>1. CASE SubmitPaymentToken(r)
  <2> DEFINE n == RowToCharge(r)
  <2>1. n \in Attempts /\ request[r] = "AWAITING_PAYMENT"
    BY <1>1 DEF SubmitPaymentToken, Chargeable
  <2> HIDE DEF n
  <2>2. PICK outcome \in ChargeOutcomes(r, n) :
          /\ charge' = [charge EXCEPT ![r][n] = outcome]
          /\ sent' = sent \cup (IF outcome = "paid" THEN Emit(r, n, "SUCCEEDED") ELSE {})
    BY <1>1 DEF SubmitPaymentToken, n
  <2>3. UNCHANGED <<request, payment, refund, payouts>>
    BY <1>1 DEF SubmitPaymentToken, booking, rows
  <2>4. Money
    BY <2>1, <2>2 DEF Money, Charged, ChargeOutcomes
  <2>5. Success
    <3>1. \A e \in Emit(r, n, "SUCCEEDED") : e.r = r /\ e.n = n
      BY <2>1, EmitType DEF EventKinds
    <3> QED
      BY <2>1, <2>2, <2>3, <3>1 DEF Success
  <2>6. Review /\ Unsubmitted /\ Payout
    BY <2>1, <2>2, <2>3 DEF Review, Unsubmitted, Payout
  <2> QED
    BY <2>4, <2>5, <2>6 DEF Sound
<1>2. CASE SubmitCommit(r)
  <2>1. \A q \in Requests, n \in Attempts : payment'[q][n] = "SUCCEEDED" =>
            payment[q][n] = "SUCCEEDED"
    BY <1>2 DEF SubmitCommit
  <2> QED
    BY <1>2, <2>1, QuietStep DEF SubmitCommit, Review, booking, webhooks
<1>3. CASE SubmitCrash(r)
  BY <1>3, QuietStep DEF SubmitCrash, Review, booking, rows, webhooks
<1> QED
  BY <1>1, <1>2, <1>3

\* A webhook only repeats what the provider has done.
LEMMA ProcessWebhookSound ==
    ASSUME IInv, NEW e \in Event, ProcessWebhook(e)
    PROVE  Sound
<1> USE DEF IInv, TypeOK
<1>1. e.r \in Requests /\ e.n \in Attempts /\ e \in sent
  BY DEF Event, ProcessWebhook
<1>2. UNCHANGED provider /\ UNCHANGED sent
  BY DEF ProcessWebhook
<1>3. CASE UNCHANGED <<request, payment>>
  BY <1>2, <1>3, QuietStep DEF Review
<1>4. CASE e.kind = "SUCCEEDED" /\ HandlePaymentSucceeded(e.r, e.n)
  <2>1. Charged(e.r, e.n)
    BY <1>1, <1>4 DEF SuccessIsCharged
  <2>2. \/ request' = request
        \/ request' = [request EXCEPT ![e.r] = "PENDING"]
    BY <1>4 DEF HandlePaymentSucceeded
  <2>3. Review
    BY <1>1, <2>1, <2>2 DEF Review, Reviewed
  <2>4. \A q \in Requests, n \in Attempts : payment'[q][n] = "SUCCEEDED" =>
            payment[q][n] = "SUCCEEDED" \/ Charged(q, n)
    <3>1. \/ payment' = payment
          \/ payment' = [payment EXCEPT ![e.r][e.n] = "SUCCEEDED"]
      BY <1>4 DEF HandlePaymentSucceeded
    <3>2. payment \in [Requests -> [Attempts -> PaymentStatus \cup {"NONE"}]]
      OBVIOUS
    <3> HIDE DEF TypeOK, IInv
    <3> QED
      BY <2>1, <3>1, <3>2, UpdateValue
  <2>5. \A q \in Requests : request'[q] = "NONE" => request[q] = "NONE"
    BY <2>2
  <2> QED
    BY <1>2, <2>3, <2>4, <2>5, QuietStep
<1>5. CASE e.kind # "SUCCEEDED" /\ HandleOtherEvent(e.r, e.n, e.kind)
  <2>1. \A q \in Requests, n \in Attempts : payment'[q][n] = "SUCCEEDED" =>
            payment[q][n] = "SUCCEEDED"
    BY <1>1, <1>5 DEF HandleOtherEvent
  <2> QED
    BY <1>2, <1>5, <2>1, QuietStep DEF HandleOtherEvent, Review
<1> QED
  BY <1>3, <1>4, <1>5 DEF ProcessWebhook

\* The provider charges and refunds, and reports what it did.
LEMMA BankSound ==
    ASSUME IInv, NEW r \in Requests, Bank(r)
    PROVE  Sound
<1> USE DEF IInv, TypeOK
<1>1. PICK n \in Attempts : CustomerPays(r, n) \/ CardDeclined(r, n) \/ RefundSettles(r, n)
  BY DEF Bank
<1>2. UNCHANGED <<request, payment>>
  BY <1>1 DEF CustomerPays, CardDeclined, RefundSettles, booking, rows
<1>3. Review
  BY <1>2 DEF Review
<1>4. CASE CustomerPays(r, n)
  <2>1. charge' = [charge EXCEPT ![r][n] = "paid"] /\ charge[r][n] # "none"
    BY <1>4 DEF CustomerPays
  <2>2. \A e \in sent' : e \in sent \/ (e.r = r /\ e.n = n)
    BY <1>4, EmitType DEF CustomerPays, EventKinds
  <2>3. Money /\ Success /\ Unsubmitted
    BY <1>2, <2>1, <2>2 DEF Money, Success, Unsubmitted, UnsubmittedIsUncharged, Charged
  <2>4. Payout
    BY <1>4 DEF CustomerPays, Payout
  <2> QED
    BY <1>3, <2>3, <2>4 DEF Sound
<1>5. CASE CardDeclined(r, n)
  <2>1. /\ charge' = [charge EXCEPT ![r][n] = IF TwoPhase THEN "declined" ELSE "open"]
        /\ charge[r][n] \in {"open", "processing"}
    BY <1>5 DEF CardDeclined
  <2>2. \A e \in sent' : e \in sent \/ e.kind # "SUCCEEDED"
    BY <1>5, EmitType DEF CardDeclined, EventKinds
  <2>3. Money /\ Success /\ Unsubmitted
    BY <1>2, <2>1, <2>2 DEF Money, Success, Unsubmitted, UnsubmittedIsUncharged, Charged
  <2>4. Payout
    BY <1>5 DEF CardDeclined, Payout
  <2> QED
    BY <1>3, <2>3, <2>4 DEF Sound
<1>6. CASE RefundSettles(r, n)
  <2>1. PICK outcome \in {"done", "failed"} :
          /\ refund' = [refund EXCEPT ![r][n] = outcome]
          /\ payouts' = [payouts EXCEPT ![r][n] = IF outcome = "done" THEN @ + 1 ELSE @]
          /\ sent' = sent \cup RefundEvents(r, n, outcome)
    BY <1>6 DEF RefundSettles
  <2>2. refund[r][n] = "pending" /\ Charged(r, n)
    BY <1>6 DEF RefundSettles, PayoutIsRefund
  <2>3. \A e \in RefundEvents(r, n, outcome) : e.kind # "SUCCEEDED"
    BY <2>1, EmitType DEF RefundEvents, EventKinds
  <2>4. UNCHANGED charge
    BY <1>6 DEF RefundSettles
  <2>5. Money /\ Success /\ Unsubmitted
    BY <1>2, <2>1, <2>3, <2>4 DEF Money, Success, Unsubmitted, Charged
  <2>6. Payout
    BY <2>1, <2>2 DEF Payout
  <2> QED
    BY <1>3, <2>5, <2>6 DEF Sound
<1> QED
  BY <1>1, <1>4, <1>5, <1>6

\* A new request has no charge to lose.
LEMMA IntentSound ==
    ASSUME IInv, NEW r \in Requests, DepositIntentCreate(r)
    PROVE  Sound
<1> USE DEF IInv, TypeOK, DepositIntentCreate
<1>1. 1 \in Attempts
  BY DepositAssumption DEF Attempts
<1>2. /\ request' = [request EXCEPT ![r] = "AWAITING_PAYMENT"]
      /\ payment' = [payment EXCEPT ![r][1] = "REQUIRES_PAYMENT"]
      /\ \A n \in Attempts : charge[r][n] = "none"
  BY DEF UnsubmittedIsUncharged
<1>3. Money /\ Review /\ Unsubmitted
  BY <1>1, <1>2 DEF Money, Review, Reviewed, Unsubmitted, Charged
<1>4. Success
  BY <1>1, <1>2 DEF Success
<1>5. Payout
  BY DEF Payout
<1> QED
  BY <1>3, <1>4, <1>5 DEF Sound

\* Every step of a request is sound.
LEMMA RequestStepSound ==
    ASSUME IInv, NEW r \in Requests,
           Public(r) \/ Staff(r) \/ Sweeps(r) \/ Bank(r) \/ HoldLapses(r)
    PROVE  Sound
<1> USE DEF IInv, TypeOK
<1>1. CASE DepositIntentCreate(r)
  BY <1>1, IntentSound
<1>2. CASE SubmitPaymentToken(r) \/ SubmitCommit(r) \/ SubmitCrash(r)
  BY <1>2, SubmitSound
<1>3. CASE AbandonHold(r)
  <2>1. PICK answers \in BOOLEAN :
          \/ /\ HasRow(r)
             /\ Reconciles(r, Active(r), answers)
             /\ Reconcile(r, Active(r))
          \/ ReleaseHold(r, {"REQUIRES_PAYMENT"})
    BY <1>3 DEF AbandonHold
  <2> QED
    BY <1>3, <2>1, ReconcileSound, ReleaseHoldSound DEF AbandonHold
<1>4. CASE RecoverDeposit(r)
  BY <1>4, ReconcileSound DEF RecoverDeposit
<1>5. CASE PollSubmitted(r)
  <2>1. HasRow(r) /\ request[r] = "AWAITING_PAYMENT" /\ Active(r) \in Attempts
    BY <1>5, ActiveIsRow DEF PollSubmitted
  <2>2. CASE /\ charge[r][Active(r)] = "paid"
             /\ Reconcile(r, Active(r))
    BY <1>5, <2>1, <2>2, ReconcileSound DEF PollSubmitted, Reconciles, InFlight
  <2>3. CASE /\ payment' = [payment EXCEPT ![r][Active(r)] = "FAILED"]
             /\ UNCHANGED <<booking, ref, provider, webhooks, call, rejecting>>
    <3>1. \A q \in Requests, n \in Attempts : payment'[q][n] = "SUCCEEDED" =>
              payment[q][n] = "SUCCEEDED"
      BY <2>1, <2>3
    <3> QED
      BY <2>3, <3>1, QuietStep DEF Review, booking, webhooks
  <2> QED
    BY <1>5, <2>2, <2>3 DEF PollSubmitted
<1>6. CASE ApproveBookingRequest(r)
  BY <1>6, QuietStep DEF ApproveBookingRequest, Review, Reviewed, rows, webhooks
<1>7. CASE RejectBookingRequest(r)
  BY <1>7, QuietStep DEF RejectBookingRequest, Review, Reviewed, rows, webhooks
<1>8. CASE RejectRefund(r)
  <2>1. CASE Refundable(r)
    BY <1>8, <2>1, RefundRowSound DEF RejectRefund, booking
  <2>2. CASE ~Refundable(r)
    <3>1. UNCHANGED <<request, payment, charge, refund, payouts, sent>>
      BY <1>8, <2>2 DEF RejectRefund, booking
    <3> QED
      BY <3>1, QuietStep DEF Review, provider
  <2> QED
    BY <2>1, <2>2
<1>9. CASE RejectCrash(r)
  BY <1>9, QuietStep DEF RejectCrash, Review, booking, rows, webhooks
<1>10. CASE RefundBookingRequest(r)
  BY <1>10, RefundRowSound DEF RefundBookingRequest, booking
<1>11. CASE SweepHold(r)
  <2>1. PICK answers \in BOOLEAN :
          \/ /\ HasRow(r)
             /\ Reconciles(r, Active(r), answers)
             /\ Reconcile(r, Active(r))
          \/ ReleaseHold(r, InFlight)
    BY <1>11 DEF SweepHold
  <2> QED
    BY <1>11, <2>1, ReconcileSound, ReleaseHoldSound DEF SweepHold
<1>12. CASE ExpireStaleRequest(r)
  BY <1>12, QuietStep DEF ExpireStaleRequest, Review, Reviewed, rows, webhooks
<1>13. CASE Bank(r)
  BY <1>13, BankSound
<1>14. CASE HoldLapses(r)
  BY <1>14, QuietStep DEF HoldLapses, Review, rows, webhooks
<1> QED
  BY <1>1, <1>2, <1>3, <1>4, <1>5, <1>6, <1>7, <1>8, <1>9, <1>10, <1>11, <1>12, <1>13, <1>14
  DEF Public, Staff, Sweeps

-----------------------------------------------------------------------------
\* The invariant is inductive.
LEMMA InvariantStep ==
    ASSUME IInv, [Next]_vars
    PROVE  IInv'
<1>1. TypeOK' /\ IsFiniteSet(appointments')
  BY TypeStep DEF IInv
<1>2. Sound
  <2>1. CASE \E r \in Requests :
                Public(r) \/ Staff(r) \/ Sweeps(r) \/ Bank(r) \/ HoldLapses(r)
    BY <2>1, RequestStepSound
  <2>2. CASE \E e \in Event : ProcessWebhook(e)
    BY <2>2, ProcessWebhookSound
  <2>3. CASE SlotTimePasses \/ UNCHANGED vars
    BY <2>3, QuietStep DEF SlotTimePasses, Review, rows, webhooks, provider, vars
  <2> QED
    BY <2>1, <2>2, <2>3 DEF Next
<1> QED
  BY <1>1, <1>2, SoundStep

\* The invariant always holds.
THEOREM Invariant == Spec => []IInv
<1> QED
  BY InitInvariant, InvariantStep, PTL DEF Spec

\* Every variable of the deposit life cycle keeps its type.
THEOREM TypeCorrect == Spec => []TypeOK
<1>1. IInv => TypeOK
  BY DEF IInv
<1> QED
  BY <1>1, Invariant, PTL

\* No request reaches staff, and none is decided, without a charge: however
\* many requests compete and attempts fail, and whatever is replayed or lost.
THEOREM ReviewIsPaidFor == Spec => []PaidBeforeReview
<1>1. IInv => PaidBeforeReview
  BY DEF IInv
<1> QED
  BY <1>1, Invariant, PTL

\* The provider never pays a deposit back twice, nor one it did not take.
THEOREM RefundsAreSingle == Spec => []RefundedAtMostOnce
<1>1. IInv => RefundedAtMostOnce
  <2> SUFFICES ASSUME IInv, NEW r \in Requests, NEW n \in Attempts
               PROVE  payouts[r][n] <= 1 /\ (payouts[r][n] > 0 => Charged(r, n))
    BY DEF RefundedAtMostOnce
  <2>1. /\ payouts[r][n] = (IF refund[r][n] = "done" THEN 1 ELSE 0)
        /\ refund[r][n] # "none" => Charged(r, n)
    BY DEF IInv, PayoutIsRefund
  <2> QED
    BY <2>1
<1> QED
  BY <1>1, Invariant, PTL

-----------------------------------------------------------------------------
(* Who decides a request, and who takes a bay.                             *)

\* What a step may do to the request it is about.  Only an approval adds to
\* the slot's appointments, and only a revival looks past the request's status.
Turn(r) ==
    \/ /\ \/ request[r] = "NONE" /\ request'[r] = "AWAITING_PAYMENT"
          \/ request[r] = "EXPIRED" /\ request'[r] = "PENDING"
       /\ SlotFree /\ slotPast' = slotPast /\ appointments' = appointments
    \/ /\ request[r] \in Reserving /\ request'[r] # "NONE" /\ appointments' = appointments
    \/ ApproveBookingRequest(r)
    \/ Revived(r)

\* ... and every step is about one request at most.
OneTurn ==
    \/ request' = request /\ appointments' = appointments
    \/ \E r \in Requests : /\ Turn(r)
                           /\ \A q \in Requests \ {r} : request'[q] = request[q]

\* A released hold was waiting for its payment.
LEMMA ReleaseHoldTurn ==
    ASSUME TypeOK, NEW r \in Requests, request[r] = "AWAITING_PAYMENT", NEW C, ReleaseHold(r, C)
    PROVE  OneTurn
<1>1. \/ request' = [request EXCEPT ![r] = "EXPIRED"]
      \/ request' = request
  BY DEF ReleaseHold
<1>2. appointments' = appointments
  BY DEF ReleaseHold
<1> QED
  BY <1>1, <1>2 DEF TypeOK, OneTurn, Turn, Reserving

\* A reconciled checkout too, unless it is revived.
LEMMA ReconcileTurn ==
    ASSUME TypeOK, NEW r \in Requests, NEW n, Reconcile(r, n),
           request[r] = "AWAITING_PAYMENT" \/ Revived(r)
    PROVE  OneTurn
BY DEF TypeOK, OneTurn, Turn, Reserving, Reconcile

LEMMA RequestTurn ==
    ASSUME TypeOK, NEW r \in Requests,
           Public(r) \/ Staff(r) \/ Sweeps(r) \/ Bank(r) \/ HoldLapses(r)
    PROVE  OneTurn
<1> USE DEF booking
<1>1. CASE DepositIntentCreate(r)
  BY <1>1 DEF DepositIntentCreate, TypeOK, OneTurn, Turn, Reserving
<1>2. CASE SubmitPaymentToken(r) \/ SubmitCommit(r) \/ SubmitCrash(r)
  BY <1>2 DEF SubmitPaymentToken, SubmitCommit, SubmitCrash, OneTurn
<1>3. CASE AbandonHold(r)
  BY <1>3, ReleaseHoldTurn, ReconcileTurn DEF AbandonHold
<1>4. CASE RecoverDeposit(r)
  <2>1. Reconcile(r, Active(r)) /\ (request[r] = "AWAITING_PAYMENT" \/ Revived(r))
    BY <1>4 DEF RecoverDeposit, Revived
  <2> QED
    BY <2>1, ReconcileTurn
<1>5. CASE PollSubmitted(r)
  BY <1>5, ReconcileTurn DEF PollSubmitted, OneTurn
<1>6. CASE ApproveBookingRequest(r)
  <2>1. \A q \in Requests \ {r} : request'[q] = request[q]
    BY <1>6 DEF ApproveBookingRequest, TypeOK
  <2> QED
    BY <1>6, <2>1 DEF OneTurn, Turn
<1>7. CASE RejectBookingRequest(r)
  BY <1>7 DEF RejectBookingRequest, TypeOK, OneTurn, Turn, Reserving
<1>8. CASE RejectRefund(r) \/ RejectCrash(r) \/ RefundBookingRequest(r)
  BY <1>8 DEF RejectRefund, RejectCrash, RefundBookingRequest, OneTurn
<1>9. CASE SweepHold(r)
  BY <1>9, ReleaseHoldTurn, ReconcileTurn DEF SweepHold
<1>10. CASE ExpireStaleRequest(r)
  BY <1>10 DEF ExpireStaleRequest, TypeOK, OneTurn, Turn, Reserving
<1>11. CASE Bank(r) \/ HoldLapses(r)
  BY <1>11 DEF Bank, CustomerPays, CardDeclined, RefundSettles, HoldLapses, OneTurn
<1> QED
  BY <1>1, <1>2, <1>3, <1>4, <1>5, <1>6, <1>7, <1>8, <1>9, <1>10, <1>11 DEF Public, Staff, Sweeps

\* A webhook reopens an expired request only into a free slot.
LEMMA WebhookTurn ==
    ASSUME TypeOK, NEW e \in Event, ProcessWebhook(e)
    PROVE  OneTurn
<1>1. e.r \in Requests /\ slotPast' = slotPast /\ appointments' = appointments
  BY DEF Event, ProcessWebhook
<1>2. CASE request' = request
  BY <1>1, <1>2 DEF OneTurn
<1>3. CASE request' # request
  <2>1. HandlePaymentSucceeded(e.r, e.n)
    BY <1>3 DEF ProcessWebhook, HandleOtherEvent
  <2>2. /\ request' = [request EXCEPT ![e.r] = "PENDING"]
        /\ request[e.r] = "AWAITING_PAYMENT" \/ (request[e.r] = "EXPIRED" /\ SlotFree)
    BY <1>3, <2>1 DEF HandlePaymentSucceeded, MayReinstate
  <2>3. request'[e.r] = "PENDING" /\ \A q \in Requests \ {e.r} : request'[q] = request[q]
    BY <1>1, <2>2 DEF TypeOK
  <2>4. Turn(e.r)
    BY <1>1, <2>2, <2>3 DEF Turn, Reserving
  <2> QED
    BY <1>1, <2>3, <2>4 DEF OneTurn
<1> QED
  BY <1>2, <1>3

LEMMA StepTurn ==
    ASSUME TypeOK, [Next]_vars
    PROVE  OneTurn
<1>1. CASE SlotTimePasses \/ UNCHANGED vars
  BY <1>1 DEF SlotTimePasses, vars, OneTurn
<1> QED
  BY <1>1, RequestTurn, WebhookTurn DEF Next

-----------------------------------------------------------------------------
Holding == {r \in Requests : request[r] \in Reserving}

\* One more request or appointment uses at most one more bay.
LEMMA OneMore ==
    ASSUME IsFiniteSet(Requests), IsFiniteSet(appointments)
    PROVE  /\ IsFiniteSet(Holding) /\ UsedBy(Requests) \in Nat
           /\ \A S, r : S \subseteq Holding \cup {r} =>
                  Cardinality(S) \in Nat /\ Cardinality(S) <= Cardinality(Holding) + 1
           /\ \A S : S \subseteq Holding => Cardinality(S) <= Cardinality(Holding)
           /\ UsedBy(Requests) = Cardinality(Holding) + Cardinality(appointments)
<1>1. IsFiniteSet(Holding)
  BY FS_Subset DEF Holding
<1>2. Cardinality(Holding) \in Nat /\ Cardinality(appointments) \in Nat
  BY <1>1, FS_CardinalityType
<1>3. UsedBy(Requests) = Cardinality(Holding) + Cardinality(appointments)
  BY DEF UsedBy, Holding
<1>4. ASSUME NEW S, NEW r, S \subseteq Holding \cup {r}
      PROVE  Cardinality(S) \in Nat /\ Cardinality(S) <= Cardinality(Holding) + 1
  <2>1. /\ IsFiniteSet(Holding \cup {r})
        /\ Cardinality(Holding \cup {r}) \in {Cardinality(Holding), Cardinality(Holding) + 1}
    BY <1>1, FS_AddElement
  <2>2. IsFiniteSet(S) /\ Cardinality(S) <= Cardinality(Holding \cup {r})
    BY <1>4, <2>1, FS_Subset
  <2>3. Cardinality(S) \in Nat
    BY <2>2, FS_CardinalityType
  <2> QED
    BY <1>2, <2>1, <2>2, <2>3
<1>5. \A S : S \subseteq Holding => Cardinality(S) <= Cardinality(Holding)
  BY <1>1, FS_Subset
<1> QED
  BY <1>1, <1>2, <1>3, <1>4, <1>5

\* Whatever a request does, short of a revival, the slot is not overbooked by it.
LEMMA TurnFits ==
    ASSUME IsFiniteSet(Requests), IInv, NEW r \in Requests, Turn(r), ~Revived(r),
           \A q \in Requests \ {r} : request'[q] = request[q]
    PROVE  /\ Overbooked' => Overbooked
           /\ request[r] = "EXPIRED" => request'[r] = "PENDING" /\ ~slotPast /\ ~Overbooked'
<1>1. IsFiniteSet(appointments) /\ Capacity \in Nat
  BY DepositAssumption DEF IInv
<1>2. UsedBy(Requests)' = Cardinality(Holding') + Cardinality(appointments')
  BY DEF UsedBy, Holding
<1>3. Holding' \subseteq Holding \cup {r}
  BY DEF Holding
<1>4. Cardinality(Holding) \in Nat /\ Cardinality(appointments) \in Nat
  BY <1>1, OneMore, FS_CardinalityType
<1>5. CASE /\ \/ request[r] = "NONE" /\ request'[r] = "AWAITING_PAYMENT"
              \/ request[r] = "EXPIRED" /\ request'[r] = "PENDING"
           /\ SlotFree /\ appointments' = appointments
  <2>1. Cardinality(Holding') \in Nat /\ Cardinality(Holding') <= Cardinality(Holding) + 1
    BY <1>1, <1>3, OneMore
  <2>2. Cardinality(Holding) + Cardinality(appointments) < Capacity
    BY <1>1, <1>5, OneMore DEF SlotFree
  <2>3. UsedBy(Requests)' <= Capacity /\ UsedBy(Requests)' \in Nat
    BY <1>1, <1>2, <1>4, <1>5, <2>1, <2>2
  <2>4. ~Overbooked' /\ ~slotPast
    BY <1>1, <1>5, <2>3 DEF Overbooked, SlotFree
  <2> QED
    BY <1>5, <2>4
<1>6. CASE request[r] \in Reserving /\ appointments' = appointments
  <2>1. Holding' \subseteq Holding
    BY <1>3, <1>6 DEF Holding
  <2>2. Cardinality(Holding') <= Cardinality(Holding) /\ Cardinality(Holding') \in Nat
    BY <1>1, <1>3, <2>1, OneMore
  <2>3. UsedBy(Requests)' <= UsedBy(Requests)
    BY <1>1, <1>2, <1>4, <1>6, <2>2, OneMore
  <2>4. UsedBy(Requests)' \in Nat /\ UsedBy(Requests) \in Nat
    BY <1>1, <1>2, <1>4, <1>6, <2>2, OneMore
  <2> QED
    BY <1>1, <1>6, <2>3, <2>4 DEF Overbooked, Reserving
<1>7. CASE ApproveBookingRequest(r)
  <2>1. Holding' = {q \in Requests \ {r} : request[q] \in Reserving} /\ request[r] = "PENDING"
    BY <1>7 DEF ApproveBookingRequest, Holding, IInv, TypeOK, Reserving
  <2>2. Cardinality(Holding') + Cardinality(appointments) < Capacity
    BY <1>7, <2>1 DEF ApproveBookingRequest, UsedBy
  <2>3. Cardinality(Holding') \in Nat
    BY <1>1, <1>3, OneMore
  <2>4. Cardinality(appointments') \in {Cardinality(appointments), Cardinality(appointments) + 1}
    BY <1>1, <1>7, FS_AddElement DEF ApproveBookingRequest
  <2>5. UsedBy(Requests)' <= Capacity /\ UsedBy(Requests)' \in Nat
    BY <1>1, <1>2, <1>4, <2>2, <2>3, <2>4
  <2> QED
    BY <1>1, <2>1, <2>5 DEF Overbooked
<1> QED
  BY <1>5, <1>6, <1>7 DEF Turn

\* The two action properties of a step that starts in a state of the invariant.
LEMMA StepFits ==
    ASSUME IsFiniteSet(Requests), IInv, [Next]_vars
    PROVE  /\ ~Overbooked /\ Overbooked' => \E r \in Requests : Revived(r)
           /\ \A r \in Requests :
                /\ request[r] \in Decided => request'[r] = request[r] \/ Revived(r)
                /\ request[r] = "EXPIRED" =>
                     request'[r] = "EXPIRED" \/ Revived(r)
                       \/ (request'[r] = "PENDING" /\ ~slotPast /\ ~Overbooked')
<1>1. OneTurn
  BY StepTurn DEF IInv
<1>2. CASE request' = request /\ appointments' = appointments
  BY <1>2 DEF Overbooked, UsedBy
<1>3. ASSUME NEW r \in Requests, Turn(r), \A q \in Requests \ {r} : request'[q] = request[q],
             ~Revived(r)
      PROVE  /\ Overbooked' => Overbooked
             /\ \A q \in Requests :
                  /\ request[q] \in Decided => request'[q] = request[q]
                  /\ request[q] = "EXPIRED" =>
                       request'[q] = "EXPIRED" \/ (request'[q] = "PENDING" /\ ~slotPast /\ ~Overbooked')
  <2>1. /\ Overbooked' => Overbooked
        /\ request[r] = "EXPIRED" => request'[r] = "PENDING" /\ ~slotPast /\ ~Overbooked'
    BY <1>3, TurnFits
  <2>2. request[r] \notin Decided
    BY <1>3 DEF Turn, Decided, Reserving, ApproveBookingRequest
  <2> QED
    BY <1>3, <2>1, <2>2
<1> QED
  BY <1>1, <1>2, <1>3 DEF OneTurn

\* No step but the recovery of a checkout that was already decided or expired
\* overbooks the slot, for any number of requests and bays.
THEOREM OnlyRecoveryOverbooks == ASSUME IsFiniteSet(Requests) PROVE Spec => OverbookedOnlyByRecovery
<1>1. IInv /\ [Next]_vars => [~Overbooked /\ Overbooked' => \E r \in Requests : Revived(r)]_vars
  BY StepFits
<1> QED
  BY <1>1, Invariant, PTL DEF Spec, OverbookedOnlyByRecovery

\* Short of a recovery no decision is undone, and an expired request comes back
\* only into a slot it fits.
THEOREM DecisionsAreFinal == ASSUME IsFiniteSet(Requests) PROVE Spec => DecisionsStand
<1>1. IInv /\ [Next]_vars =>
        [\A r \in Requests :
           /\ request[r] \in Decided => request'[r] = request[r] \/ Revived(r)
           /\ request[r] = "EXPIRED" =>
                request'[r] = "EXPIRED" \/ Revived(r)
                  \/ (request'[r] = "PENDING" /\ ~slotPast /\ ~Overbooked')]_vars
  BY StepFits
<1> QED
  BY <1>1, Invariant, PTL DEF Spec, DecisionsStand

-----------------------------------------------------------------------------
\* A card is only charged for a request whose hold waits for its payment.
CallsAwait == \A r \in Requests : call[r] # NoCall => request[r] = "AWAITING_PAYMENT"

\* What a step leaves of one request: its rows are untouched, or its rows were
\* not locked, and a charge it begins is for a hold that waits.
Exclusive(q) ==
    \/ UNCHANGED <<request[q], payment[q], call[q]>>
    \/ /\ call[q] = NoCall
       /\ call'[q] = NoCall \/ (request[q] = "AWAITING_PAYMENT" /\ request'[q] = request[q])
    \/ SubmitCommit(q)
    \/ UNCHANGED <<request[q], payment[q]>> /\ call'[q] = NoCall

LEMMA RequestExclusive ==
    ASSUME TypeOK, CallsAwait, NEW r \in Requests,
           Public(r) \/ Staff(r) \/ Sweeps(r) \/ Bank(r) \/ HoldLapses(r),
           NEW q \in Requests
    PROVE  Exclusive(q)
<1> USE DEF TypeOK, booking, rows, webhooks, provider
<1>1. CASE SubmitPaymentToken(r)
  <2>1. /\ call[r] = NoCall /\ request[r] = "AWAITING_PAYMENT"
        /\ UNCHANGED <<request, payment>>
        /\ q # r => call'[q] = call[q]
    BY <1>1 DEF SubmitPaymentToken, Unlocked, Chargeable
  <2> QED
    BY <2>1 DEF Exclusive
<1>2. CASE SubmitCommit(r) \/ SubmitCrash(r)
  <2>1. CASE SubmitCommit(r) /\ q # r
    <3>1. call'[q] = call[q] /\ request' = request
      BY <2>1 DEF SubmitCommit
    <3>2. payment'[q] = payment[q]
      BY <2>1 DEF SubmitCommit
    <3> QED
      BY <3>1, <3>2 DEF Exclusive
  <2>2. CASE SubmitCrash(r)
    BY <2>2 DEF SubmitCrash, Exclusive
  <2> QED
    BY <1>2, <2>1, <2>2 DEF Exclusive
<1>3. CASE Bank(r) \/ HoldLapses(r) \/ RejectCrash(r)
  BY <1>3 DEF Bank, CustomerPays, CardDeclined, RefundSettles, HoldLapses, RejectCrash, Exclusive
<1>4. ASSUME call' = call, call[r] = NoCall,
             \A p \in Requests \ {r} : UNCHANGED <<request[p], payment[p]>>
      PROVE  Exclusive(q)
  BY <1>4 DEF Exclusive
<1>5. CASE \/ DepositIntentCreate(r) \/ ApproveBookingRequest(r) \/ RejectBookingRequest(r)
           \/ ExpireStaleRequest(r)
  <2>1. request[r] # "AWAITING_PAYMENT" /\ call' = call
    BY <1>5 DEF DepositIntentCreate, ApproveBookingRequest, RejectBookingRequest, ExpireStaleRequest
  <2>2. \A p \in Requests \ {r} : UNCHANGED <<request[p], payment[p]>>
    BY <1>5 DEF DepositIntentCreate, ApproveBookingRequest, RejectBookingRequest, ExpireStaleRequest
  <2> QED
    BY <1>4, <2>1, <2>2 DEF CallsAwait
<1>6. ASSUME NEW C, ReleaseHold(r, C), call[r] = NoCall PROVE Exclusive(q)
  <2>1. call' = call /\ \A p \in Requests \ {r} : UNCHANGED <<request[p], payment[p]>>
    BY <1>6 DEF ReleaseHold
  <2> QED
    BY <1>4, <1>6, <2>1
<1>7. ASSUME NEW n, Reconcile(r, n), call[r] = NoCall PROVE Exclusive(q)
  <2>1. call' = call /\ \A p \in Requests \ {r} : UNCHANGED <<request[p], payment[p]>>
    BY <1>7 DEF Reconcile
  <2> QED
    BY <1>4, <1>7, <2>1
<1>8. ASSUME NEW n, RefundRow(r, n), call' = call, request' = request, call[r] = NoCall
      PROVE  Exclusive(q)
  <2>1. \A p \in Requests \ {r} : UNCHANGED <<request[p], payment[p]>>
    BY <1>8 DEF RefundRow
  <2> QED
    BY <1>4, <1>8, <2>1
<1>9. CASE AbandonHold(r) \/ RecoverDeposit(r) \/ SweepHold(r)
  BY <1>6, <1>7, <1>9 DEF AbandonHold, RecoverDeposit, SweepHold, Unlocked
<1>10. CASE PollSubmitted(r)
  <2>1. CASE Reconcile(r, Active(r))
    BY <1>7, <1>10, <2>1 DEF PollSubmitted, Unlocked
  <2>2. CASE /\ payment' = [payment EXCEPT ![r][Active(r)] = "FAILED"]
             /\ UNCHANGED <<booking, ref, provider, webhooks, call, rejecting>>
    BY <1>4, <1>10, <2>2 DEF PollSubmitted, Unlocked
  <2> QED
    BY <1>10, <2>1, <2>2 DEF PollSubmitted
<1>11. CASE RejectRefund(r)
  <2>1. call' = call /\ request' = request /\ call[r] = NoCall
    BY <1>11 DEF RejectRefund, Unlocked
  <2>2. CASE Refundable(r)
    BY <1>8, <1>11, <2>1, <2>2 DEF RejectRefund
  <2>3. CASE ~Refundable(r)
    BY <1>4, <1>11, <2>1, <2>3 DEF RejectRefund
  <2> QED
    BY <2>2, <2>3
<1>12. CASE RefundBookingRequest(r)
  BY <1>8, <1>12 DEF RefundBookingRequest, Unlocked
<1> QED
  BY <1>1, <1>2, <1>3, <1>5, <1>9, <1>10, <1>11, <1>12 DEF Public, Staff, Sweeps

\* A webhook waits for the rows a card submission has locked, or finds no row.
LEMMA WebhookExclusive ==
    ASSUME TypeOK, NEW e \in Event, ProcessWebhook(e), NEW q \in Requests
    PROVE  Exclusive(q)
<1>1. e.r \in Requests /\ call' = call
  BY DEF Event, ProcessWebhook
<1>2. CASE UNCHANGED <<request, payment>>
  BY <1>1, <1>2 DEF Exclusive
<1>3. CASE call[e.r] = NoCall
  <2>1. \A p \in Requests \ {e.r} : UNCHANGED <<request[p], payment[p]>>
    BY <1>1 DEF ProcessWebhook, HandlePaymentSucceeded, HandleOtherEvent, TypeOK
  <2> QED
    BY <1>1, <1>3, <2>1 DEF Exclusive
<1> QED
  BY <1>2, <1>3 DEF ProcessWebhook, Unlocked

LEMMA StepExclusive ==
    ASSUME TypeOK, CallsAwait, [Next]_vars, NEW q \in Requests
    PROVE  Exclusive(q)
<1>1. CASE SlotTimePasses \/ UNCHANGED vars
  BY <1>1 DEF SlotTimePasses, vars, rows, Exclusive
<1> QED
  BY <1>1, RequestExclusive, WebhookExclusive DEF Next

\* While a card is being charged nobody else writes its request or its rows,
\* however many workers, sweeps and webhooks run.
THEOREM SubmissionsAreExclusive == Spec => SubmissionIsExclusive
<1>1. Init => CallsAwait
  BY DEF Init, CallsAwait
<1>2. IInv /\ CallsAwait /\ [Next]_vars => CallsAwait'
  <2> SUFFICES ASSUME IInv, CallsAwait, [Next]_vars, NEW r \in Requests, call'[r] # NoCall
               PROVE  request'[r] = "AWAITING_PAYMENT"
    BY DEF CallsAwait
  <2>1. Exclusive(r)
    BY StepExclusive DEF IInv
  <2>2. ~SubmitCommit(r)
    BY DEF SubmitCommit, IInv, TypeOK
  <2> QED
    BY <2>1, <2>2 DEF Exclusive, CallsAwait
<1>3. IInv /\ CallsAwait /\ [Next]_vars =>
        [\A r \in Requests : call[r] # NoCall =>
           UNCHANGED <<request[r], payment[r]>> \/ SubmitCommit(r)]_vars
  BY StepExclusive DEF IInv, Exclusive
<1> QED
  BY <1>1, <1>2, <1>3, Invariant, PTL DEF Spec, SubmissionIsExclusive
-----------------------------------------------------------------------------
(* DepositBooking implements DepositPromise: every step of a handler, a sweep, *)
(* a webhook or the provider is one abstract step or none.                     *)

Taken == [r \in Requests |-> {n \in Attempts : Charged(r, n)}]

\* The step shows nothing outside.
Stutters == UNCHANGED <<request, Taken, payouts>>

\* A step, or none, of the promise.
Kept == Promise!Next \/ Stutters

\* An abstract step of one request, as the rows show it.
LEMMA PromisedStep ==
    ASSUME NEW r \in Requests,
           \/ Promise!Reserve(r) \/ Promise!PutToReview(r) \/ Promise!Decide(r)
           \/ Promise!Lapse(r)
           \/ \E n \in Attempts : Promise!TakeMoney(r, n) \/ Promise!Return(r, n)
    PROVE  Kept
BY DEF Kept, Promise!Next

\* A step that charges nothing takes no money.
LEMMA SameMoney ==
    ASSUME \A r \in Requests, n \in Attempts : Charged(r, n)' <=> Charged(r, n)
    PROVE  Taken' = Taken
BY DEF Taken

\* A step of the staff or of a sweep moves one request and no money.
LEMMA Moves ==
    ASSUME IInv, NEW r \in Requests, UNCHANGED payouts, Taken' = Taken,
           \/ request' = request
           \/ /\ request[r] = "NONE"
              /\ request' = [request EXCEPT ![r] = "AWAITING_PAYMENT"]
           \/ /\ request[r] # "NONE"
              /\ \E n \in Attempts : Charged(r, n)
              /\ request' = [request EXCEPT ![r] = "PENDING"]
           \/ /\ request[r] = "PENDING"
              /\ \E d \in {"APPROVED", "REJECTED"} : request' = [request EXCEPT ![r] = d]
           \/ /\ request[r] \in Reserving
              /\ request' = [request EXCEPT ![r] = "EXPIRED"]
    PROVE  Kept
<1>1. CASE request' = request
  BY <1>1 DEF Kept, Stutters
<1>2. CASE /\ request[r] = "NONE"
           /\ request' = [request EXCEPT ![r] = "AWAITING_PAYMENT"]
  BY <1>2, PromisedStep DEF Promise!Reserve, Taken
<1>3. CASE /\ request[r] # "NONE"
           /\ \E n \in Attempts : Charged(r, n)
           /\ request' = [request EXCEPT ![r] = "PENDING"]
  <2>1. Taken[r] # {}
    BY <1>3 DEF Taken
  <2> QED
    BY <1>3, <2>1, PromisedStep DEF Promise!PutToReview, Taken
<1>4. CASE /\ request[r] = "PENDING"
           /\ \E d \in {"APPROVED", "REJECTED"} : request' = [request EXCEPT ![r] = d]
  BY <1>4, PromisedStep DEF Promise!Decide, Taken
<1>5. CASE /\ request[r] \in Reserving
           /\ request' = [request EXCEPT ![r] = "EXPIRED"]
  BY <1>5, PromisedStep DEF Promise!Lapse, Taken, Reserving
<1> QED
  BY <1>1, <1>2, <1>3, <1>4, <1>5

\* A change of one attempt at the provider takes its money or none.
LEMMA Charges ==
    ASSUME IInv, NEW r \in Requests, NEW n \in Attempts, NEW outcome,
           UNCHANGED <<request, payouts>>, request[r] # "NONE",
           Charged(r, n) => outcome = "paid",
           charge' = [charge EXCEPT ![r][n] = outcome]
    PROVE  Kept
<1>1. charge \in [Requests -> [Attempts -> ChargeState]]
  BY DEF IInv, TypeOK
<1>2. \A q \in Requests, m \in Attempts :
        Charged(q, m)' <=> Charged(q, m) \/ (q = r /\ m = n /\ outcome = "paid")
  BY <1>1 DEF Charged
<1>3. CASE Charged(r, n) \/ outcome # "paid"
  BY <1>2, <1>3, SameMoney, Moves
<1>4. CASE ~Charged(r, n) /\ outcome = "paid"
  <2>1. \A q \in Requests : Taken'[q] = IF q = r THEN Taken[q] \cup {n} ELSE Taken[q]
    <3> SUFFICES ASSUME NEW q \in Requests
                 PROVE  Taken'[q] = IF q = r THEN Taken[q] \cup {n} ELSE Taken[q]
      OBVIOUS
    <3>1. Taken'[q] = {m \in Attempts : Charged(q, m)'} /\ Taken[q] = {m \in Attempts : Charged(q, m)}
      BY DEF Taken
    <3> QED
      BY <1>2, <1>4, <3>1
  <2>2. Taken' = [Taken EXCEPT ![r] = @ \cup {n}]
    BY <2>1 DEF Taken
  <2>3. n \notin Taken[r]
    BY <1>4 DEF Taken
  <2>4. Promise!TakeMoney(r, n)
    BY <2>2, <2>3 DEF Promise!TakeMoney, Taken
  <2> QED
    BY <2>4, PromisedStep
<1> QED
  BY <1>3, <1>4

\* A refund at the provider returns money taken and not yet returned, or none.
LEMMA Refunds ==
    ASSUME IInv, NEW r \in Requests, NEW n \in Attempts,
           UNCHANGED <<request, charge>>,
           \/ payouts' = payouts
           \/ /\ refund[r][n] # "done"
              /\ Charged(r, n)
              /\ payouts' = [payouts EXCEPT ![r][n] = payouts[r][n] + 1]
    PROVE  Kept
<1>1. Taken' = Taken
  BY SameMoney DEF Charged
<1>2. CASE payouts' = payouts
  BY <1>1, <1>2, Moves
<1>3. CASE /\ refund[r][n] # "done"
           /\ Charged(r, n)
           /\ payouts' = [payouts EXCEPT ![r][n] = payouts[r][n] + 1]
  <2>1. payouts[r][n] = 0
    BY <1>3 DEF IInv, PayoutIsRefund
  <2>2. payouts' = [payouts EXCEPT ![r][n] = 1]
    BY <1>3, <2>1
  <2>3. n \in Taken[r]
    BY <1>3 DEF Taken
  <2>4. Promise!Return(r, n)
    BY <1>1, <2>1, <2>2, <2>3 DEF Promise!Return, Taken
  <2> QED
    BY <2>4, PromisedStep
<1> QED
  BY <1>2, <1>3

-----------------------------------------------------------------------------
(* The handlers.                                                           *)

\* A reconciled row puts its charged request before staff.
LEMMA ReconcilePromised ==
    ASSUME IInv, NEW r \in Requests, HasRow(r), request[r] # "NONE", NEW a \in BOOLEAN,
           Reconciles(r, Active(r), a), Reconcile(r, Active(r))
    PROVE  Kept
<1>1. Active(r) \in Attempts /\ Charged(r, Active(r))
  BY ActiveIsRow DEF IInv, SuccessIsCharged, Reconciles, Charged
<1>2. Taken' = Taken
  BY SameMoney DEF Reconcile, provider, Charged
<1> QED
  BY <1>1, <1>2, Moves DEF Reconcile, provider

\* A released hold lapses, or its worker died; what is cancelled was not charged.
LEMMA ReleaseHoldPromised ==
    ASSUME IInv, NEW r \in Requests, request[r] = "AWAITING_PAYMENT", NEW C, ReleaseHold(r, C)
    PROVE  Kept
<1>1. \A q \in Requests, n \in Attempts : Charged(q, n)' <=> Charged(q, n)
  <2>1. CASE UNCHANGED charge
    BY <2>1 DEF Charged
  <2>2. CASE HasRow(r) /\ ProviderCancels(r, Active(r))
    <3>1. charge \in [Requests -> [Attempts -> ChargeState]] /\ Active(r) \in Attempts
      BY <2>2, ActiveIsRow DEF IInv, TypeOK
    <3> QED
      BY <2>2, <3>1 DEF ProviderCancels, Charged
  <2> QED
    BY <2>1, <2>2 DEF ReleaseHold
<1>2. Taken' = Taken
  BY <1>1, SameMoney
<1>3. request' = request \/ request' = [request EXCEPT ![r] = "EXPIRED"]
  BY DEF ReleaseHold
<1>4. UNCHANGED payouts
  BY DEF ReleaseHold
<1> QED
  BY <1>2, <1>3, <1>4, Moves DEF Reserving

\* A refund asked of the provider, again or for the first time.
LEMMA RefundRowPromised ==
    ASSUME IInv, NEW r \in Requests, Refundable(r), RefundRow(r, Active(r)),
           UNCHANGED <<request, charge>>
    PROVE  Kept
<1>1. Active(r) \in Attempts /\ Charged(r, Active(r))
  BY ActiveIsRow DEF Refundable, IInv, SuccessIsCharged
<1>2. PICK outcome \in RefundOutcomes(r, Active(r)) :
        payouts' = [payouts EXCEPT ![r][Active(r)] =
                       IF RefundIsNew(r, Active(r)) /\ outcome = "done" THEN @ + 1 ELSE @]
  BY DEF RefundRow
<1>3. CASE RefundIsNew(r, Active(r)) /\ outcome = "done"
  BY <1>1, <1>2, <1>3, Refunds DEF RefundIsNew
<1>4. CASE ~(RefundIsNew(r, Active(r)) /\ outcome = "done")
  <2>1. payouts' = payouts
    BY <1>1, <1>2, <1>4 DEF IInv, TypeOK
  <2> QED
    BY <1>1, <2>1, Refunds
<1> QED
  BY <1>3, <1>4

\* A submitted card takes the money of one attempt, if it takes any.
LEMMA SubmitPromised ==
    ASSUME IInv, NEW r \in Requests, SubmitPaymentToken(r) \/ SubmitCommit(r) \/ SubmitCrash(r)
    PROVE  Kept
<1>1. CASE SubmitPaymentToken(r)
  <2>1. RowToCharge(r) \in Attempts /\ request[r] # "NONE"
    BY <1>1 DEF SubmitPaymentToken, Chargeable
  <2>2. PICK outcome \in ChargeOutcomes(r, RowToCharge(r)) :
          charge' = [charge EXCEPT ![r][RowToCharge(r)] = outcome]
    BY <1>1 DEF SubmitPaymentToken
  <2>3. UNCHANGED <<request, payouts>>
    BY <1>1 DEF SubmitPaymentToken, booking
  <2>4. Charged(r, RowToCharge(r)) => outcome = "paid"
    BY <2>2 DEF Charged, ChargeOutcomes
  <2> QED
    BY <2>1, <2>2, <2>3, <2>4, Charges
<1>2. CASE SubmitCommit(r) \/ SubmitCrash(r)
  <2>1. UNCHANGED <<request, charge, payouts>>
    BY <1>2 DEF SubmitCommit, SubmitCrash, booking, provider
  <2> QED
    BY <2>1, SameMoney, Moves DEF Charged
<1> QED
  BY <1>1, <1>2

\* The provider charges or refunds one attempt.
LEMMA BankPromised ==
    ASSUME IInv, NEW r \in Requests, Bank(r)
    PROVE  Kept
<1>1. PICK n \in Attempts : CustomerPays(r, n) \/ CardDeclined(r, n) \/ RefundSettles(r, n)
  BY DEF Bank
<1>2. CASE CustomerPays(r, n)
  <2>1. request[r] # "NONE"
    BY <1>2 DEF CustomerPays, IInv, UnsubmittedIsUncharged
  <2> QED
    BY <1>2, <2>1, Charges DEF CustomerPays, booking
<1>3. CASE CardDeclined(r, n)
  <2>1. request[r] # "NONE" /\ ~Charged(r, n)
    BY <1>3 DEF CardDeclined, IInv, UnsubmittedIsUncharged, Charged
  <2> QED
    BY <1>3, <2>1, Charges DEF CardDeclined, booking
<1>4. CASE RefundSettles(r, n)
  <2>1. PICK outcome \in {"done", "failed"} :
          payouts' = [payouts EXCEPT ![r][n] = IF outcome = "done" THEN @ + 1 ELSE @]
    BY <1>4 DEF RefundSettles
  <2>2. refund[r][n] = "pending" /\ Charged(r, n) /\ UNCHANGED <<request, charge>>
    BY <1>4 DEF RefundSettles, IInv, PayoutIsRefund, booking
  <2>3. CASE outcome = "done"
    BY <2>1, <2>2, <2>3, Refunds
  <2>4. CASE outcome # "done"
    <3>1. payouts' = payouts
      BY <2>1, <2>4 DEF IInv, TypeOK
    <3> QED
      BY <2>2, <3>1, Refunds
  <2> QED
    BY <2>3, <2>4
<1> QED
  BY <1>1, <1>2, <1>3, <1>4

\* A webhook shows a charge that was made, or nothing.
LEMMA ProcessWebhookPromised ==
    ASSUME IInv, NEW e \in Event, ProcessWebhook(e)
    PROVE  Kept
<1>1. e.r \in Requests /\ e.n \in Attempts /\ e \in sent
  BY DEF Event, ProcessWebhook
<1>2. Taken' = Taken /\ UNCHANGED payouts
  BY SameMoney DEF ProcessWebhook, provider, Charged
<1>3. CASE UNCHANGED request
  BY <1>1, <1>2, <1>3, Moves
<1>4. CASE e.kind = "SUCCEEDED" /\ HandlePaymentSucceeded(e.r, e.n) /\ request' # request
  <2>1. Charged(e.r, e.n)
    BY <1>1, <1>4 DEF IInv, SuccessIsCharged
  <2>2. request[e.r] # "NONE" /\ request' = [request EXCEPT ![e.r] = "PENDING"]
    BY <1>4 DEF HandlePaymentSucceeded
  <2> QED
    BY <1>1, <1>2, <2>1, <2>2, Moves
<1> QED
  BY <1>3, <1>4 DEF ProcessWebhook, HandleOtherEvent

\* A new request reserves its place and takes no money.
LEMMA IntentPromised ==
    ASSUME IInv, NEW r \in Requests, DepositIntentCreate(r)
    PROVE  Kept
<1>1. /\ charge' = [charge EXCEPT ![r][1] = IF TwoPhase THEN "none" ELSE "open"]
      /\ charge \in [Requests -> [Attempts -> ChargeState]]
      /\ \A n \in Attempts : charge[r][n] = "none"
  BY DEF DepositIntentCreate, IInv, TypeOK, UnsubmittedIsUncharged
<1>2. Taken' = Taken
  BY <1>1, SameMoney DEF Charged
<1> QED
  BY <1>2, Moves DEF DepositIntentCreate

\* Every step of a request keeps the promise.
LEMMA RequestStepPromised ==
    ASSUME IInv, NEW r \in Requests,
           Public(r) \/ Staff(r) \/ Sweeps(r) \/ Bank(r) \/ HoldLapses(r)
    PROVE  Kept
<1>1. CASE DepositIntentCreate(r)
  BY <1>1, IntentPromised
<1>2. CASE SubmitPaymentToken(r) \/ SubmitCommit(r) \/ SubmitCrash(r)
  BY <1>2, SubmitPromised
<1>3. CASE AbandonHold(r) \/ SweepHold(r)
  <2>1. request[r] = "AWAITING_PAYMENT"
    BY <1>3 DEF AbandonHold, SweepHold
  <2>2. PICK answers \in BOOLEAN, C \in {InFlight, {"REQUIRES_PAYMENT"}} :
          \/ /\ HasRow(r)
             /\ Reconciles(r, Active(r), answers)
             /\ Reconcile(r, Active(r))
          \/ ReleaseHold(r, C)
    BY <1>3 DEF AbandonHold, SweepHold
  <2> QED
    BY <2>1, <2>2, ReconcilePromised, ReleaseHoldPromised
<1>4. CASE RecoverDeposit(r)
  BY <1>4, ReconcilePromised DEF RecoverDeposit
<1>5. CASE PollSubmitted(r)
  <2>1. /\ HasRow(r) /\ request[r] = "AWAITING_PAYMENT"
        /\ payment[r][Active(r)] = "PENDING" /\ ref[r][Active(r)]
    BY <1>5 DEF PollSubmitted
  <2>2. CASE charge[r][Active(r)] = "paid" /\ Reconcile(r, Active(r))
    BY <2>1, <2>2, ReconcilePromised DEF Reconciles, InFlight
  <2>3. CASE UNCHANGED <<booking, provider>>
    BY <2>3, SameMoney, Moves DEF Charged, booking, provider
  <2> QED
    BY <1>5, <2>2, <2>3 DEF PollSubmitted
<1>6. CASE \/ ApproveBookingRequest(r) \/ RejectBookingRequest(r) \/ ExpireStaleRequest(r)
           \/ RejectCrash(r) \/ HoldLapses(r)
  <2>1. UNCHANGED provider
    BY <1>6 DEF ApproveBookingRequest, RejectBookingRequest, ExpireStaleRequest,
                RejectCrash, HoldLapses
  <2>2. Taken' = Taken /\ UNCHANGED payouts
    BY <2>1, SameMoney DEF provider, Charged
  <2> QED
    BY <1>6, <2>2, Moves
    DEF ApproveBookingRequest, RejectBookingRequest, ExpireStaleRequest, RejectCrash,
        HoldLapses, booking, Reserving
<1>7. CASE RejectRefund(r) \/ RefundBookingRequest(r)
  <2>1. UNCHANGED <<request, charge>>
    BY <1>7 DEF RejectRefund, RefundBookingRequest, booking
  <2>2. CASE Refundable(r) /\ RefundRow(r, Active(r))
    BY <2>1, <2>2, RefundRowPromised
  <2>3. CASE UNCHANGED payouts
    BY <2>1, <2>3, SameMoney, Moves DEF Charged
  <2> QED
    BY <1>7, <2>2, <2>3 DEF RejectRefund, RefundBookingRequest
<1>8. CASE Bank(r)
  BY <1>8, BankPromised
<1> QED
  BY <1>1, <1>2, <1>3, <1>4, <1>5, <1>6, <1>7, <1>8 DEF Public, Staff, Sweeps

-----------------------------------------------------------------------------
\* The deposit life cycle implements its promise: whatever the webhooks, the
\* sweeps, the crashes and the retries, what can be seen of requests and money
\* moves only by the steps of DepositPromise.
THEOREM PromiseKept == Spec => KeepsPromise
<1>1. Init => Promise!Init
  <2> SUFFICES ASSUME Init PROVE Promise!Init
    OBVIOUS
  <2>1. Taken = [r \in Requests |-> {}]
    BY DEF Init, Taken, Charged
  <2> QED
    BY <2>1 DEF Init, Promise!Init, Taken
<1>2. IInv /\ [Next]_vars => [Promise!Next]_Promise!vars
  <2> SUFFICES ASSUME IInv, [Next]_vars
               PROVE  Kept
    BY DEF Kept, Stutters, Promise!vars, Taken
  <2>1. CASE \E r \in Requests :
                Public(r) \/ Staff(r) \/ Sweeps(r) \/ Bank(r) \/ HoldLapses(r)
    BY <2>1, RequestStepPromised
  <2>2. CASE \E e \in Event : ProcessWebhook(e)
    BY <2>2, ProcessWebhookPromised
  <2>3. CASE SlotTimePasses \/ UNCHANGED vars
    <3>1. UNCHANGED <<request, charge, payouts>>
      BY <2>3 DEF SlotTimePasses, vars, provider
    <3> QED
      BY <3>1, SameMoney DEF Kept, Stutters, Charged
  <2> QED
    BY <2>1, <2>2, <2>3 DEF Next
<1> QED
  BY <1>1, <1>2, Invariant, PTL DEF Spec, KeepsPromise, Promise!Spec
=============================================================================
