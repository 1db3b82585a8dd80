# TLA+ model of the booking platform

This directory models the backend (`app/`) where several actors write the same
rows: customers on the web, by chat and by phone, staff, payment providers,
webhooks, sweeps and background jobs. `PROJECT.json` maps every definition to the
lines it stands for.

## 1. The system

A Flask application over one PostgreSQL database. Every HTTP request, webhook
and job is one SQLAlchemy session in a worker process; isolation is READ
COMMITTED, and mutual exclusion comes from `SELECT ... FOR UPDATE` on the
garage row (slots, the walk-in queue) or on the row being changed. There is no
scheduler for expiry: the sweeps run at the head of the requests that would see
stale rows.

| component | state it keeps | operations | what is hard |
|---|---|---|---|
| deposit life cycle (`app/payments`) | `booking_payments` rows, `payment_webhook_events` | create, submit token, webhook, sweep, abandon, recover, poll, refund | money moves outside the transaction; late, duplicated, reordered events; crashes between a provider call and a commit |
| public booking (`app/public_booking`) | `booking_requests` rows | availability, plain submission, deposit intent, recovery, abandonment, status | the last bay of a slot, retries of one attempt id, a calendar that offers what is then refused |
| staff queue (`app/booking_requests`) | request status, the appointment made from it | approve, auto-accept, reject, refund, expire | approval against the same slot, rejection and refund in two transactions |
| payment providers (`app/payments/providers`) | none of its own | create, charge, cancel, refund, verify webhook | idempotency keys, answers lost after the effect |
| Square OAuth, Stripe Connect (`app/payments`) | tokens, account status, the provider in use | connect, callback, refresh, set location, disconnect, swap | refreshes of one token at once, an account made twice or forgotten while charged |
| appointments (`app/appointments`) | `appointments` rows, statuses, prices | create, patch, delete | the status machine, conflicts of one employee, a price kept through catalogue edits |
| configuration of services | price, deposit, add-ons, pictures | edit, hide, delete, upload | two partial edits that are valid one by one, a row and an object stored apart |
| walk-in queue (`app/queueing`) | queue entries, positions | join, call, start, complete, no-show, cancel, reorder, sweep | call expiry against a late start, positions after a reorder |
| loyalty (`app/loyalty`) | discount codes, redemptions, rewards | evaluate, redeem, sync, issue, reconcile | the use limit of a code, release of a held use, one reward per visit |
| terms (`app/terms`) | versions, the link of a booking | save, hold, accept, approve | the link tapped twice, a wording replaced while it is read |
| reminders (appointment and MOT) | records of what was sent | daily round | a crash between a send and its record, rounds that overlap |
| communications (`app/communications`) | log of messages, thread state, delivery status | inbound, outbound, reports, archive, delete | duplicated and reordered reports, staff and messages at the same thread |
| telephony | call attempts, callback | menu, assistant, people in turn, callback | reports come twice, phones that forward back |
| provisioning of channels | subaccount, number, sender, carrier objects at Twilio | buy, move, return, register, enable, check | several external calls per press, each may fail or die, pressed again |
| conversation engine (`app/conversation`) | sessions, the pending question | inbound message, expiry, hand-off | two messages of one customer at once, questions reached without their slots |
| AI voice agent (`app/ai_voice`) | the call's controller, tools | call event, tool calls, goodbye | events delivered twice, a booking tool called again |
| platform administration, onboarding | tenants, accounts, operations | onboard, suspend, impersonate, correct | an onboarding run twice, owners that remove each other |
| authentication (`app/auth`) | passwords, links, sessions | login, refresh, reset, set-up, sign out | a session that outlives what ended it |
| booking form (`app/booking_flow`) | steps and fields | edit, preset, vehicle switch | a switch over fields edited by hand |
| bulk import (`app/bulk_import`) | what it inserts | preview, import | a file imported again |
| everything else | rows of its own | CRUD, formatting, configuration | little that a unit test would not reach |

The parts meet in a few tables. A booking request reserves a bay until it is
decided (SlotCapacity), may wait for a payment (DepositBooking) or for the terms
(TermsAcceptance), holds a use of a discount code (LoyaltyRedemption) and a
price (BookingPricing), and becomes an appointment, whose completion earns a
reward (RewardIssuing), whose date brings a reminder (ReminderRounds) and whose
events send mail (Notifications). The public page, the chat (ChatWorkflow), the
phone (VoiceSession) and the walk-in queue create such bookings; all of them
take the garage's row lock and ask the same accounting of bays.

## 2. What each module models

### DepositBooking

The life of public booking requests for one slot. `request`, `hold` and
`appointments` are columns of `booking_requests` and the appointments made from
it; `payment` and `ref` are the attempt rows of `booking_payments`; `charge`,
`refund` and `payouts` are the provider's own books, `sent` the events it has
emitted and `recorded` the ledger of those processed; `call` is a card
submission between the provider call and its commit, `rejecting` a rejection
between its two commits; `slotPast` is the clock.

One action per handler. A handler that takes the request row lock before it
reads is one step. Two handlers let others in: `submit_client_payment_token`
calls the provider with the rows locked (`SubmitPaymentToken`, then
`SubmitCommit` or `SubmitCrash`), and the rejection commits before its refund
(`RejectBookingRequest`, then `RejectRefund` or `RejectCrash`). A crash after
a provider call is a disjunct of the other handlers (`ReleaseHold`,
`RefundRow`) that keeps the provider's effect and drops the rows'.

The provider is modelled by what the handlers rely on: a key replays its first
charge or refund, an answer may be lost after the effect, `cancel_payment` does
nothing to a charge that was made, one success may come under several event ids
(`EventCopies`), and events arrive in any order, late or never. Amounts, audit
rows, e-mails, Connect account events and `AWAITING_TERMS` are left out.

### DepositPromise

The same life cycle without rows, holds, webhooks or provider calls: where each
request stands (`stage`), the attempts whose money was `taken`, and how often
each was `returned`. DepositBooking implements it, with `stage` read off the
request row and `taken` and `returned` off the provider's books. A step outside
the promise would be a decision without a review, a decided request that lapses,
a charge that vanishes, a refund of nothing, or two of these at once; that a paid
request may be put before staff from anywhere is what a recovery does.

### SlotCapacity

The bays of one business on one day, and everything that reserves one. A
`booking` is a `booking_requests` row and the `appointments` row it becomes;
`capacity` is `slot_capacity` and `windows` the reserved walk-in windows. The
accounting is translated from `app/public_booking/availability.py`: `Touching`,
`Current` and `PeakOverlap` are the filter, the running count and the maximum of
`_peak_overlap`, `ReservedOver` is `_reserved_at`, `HasRoom` and `HasBay` the
comparison with and without the walk-in windows. Each channel is one action,
because each holds the garage's row lock while it looks and writes: submission
(public form, deposit, chat, phone), terms, payment, late payment, recovery,
approval, the staff form, rescheduling by chat, a walk-in taken into service and
completed, an import. What the properties compare the checks with is the number
in use at an instant (`InUse`), which the code never computes.

The clock is left out: a hold lapses and a slot passes at any time, and a late
payment may be refused for a reason that depends on the time. `BOOKED` stands
for every status that is not final, add-ons for the difference between the
service's length and the job's. Requests without a preferred time reserve
nothing and are left out. The approval of a request with a stale copy of it in
the session is TermsAcceptance's.

### WalkInQueue

The queue of one garage. `entry` holds the `queue_entries` rows, with `day`,
`ticket` and `key` for `service_date`, `ticket_number` and `sort_key`, and the
status of the appointment a walk-in becomes. Every transition takes the garage
lock and then reads its row with `FOR UPDATE`, so each is one action; a join
reads the day and sweeps in a transaction of its own first and is two
(`BeginJoin`, then `Join` or `RefuseJoin`), so its day may be over when it is
stored. No other handler keeps a clock reading across the lock. `SweepQueue` is
one step over the whole table, as one transaction of `sweep_queue`: leftovers
end, unanswered calls are skipped, and for each skip the next in line is called.
Texts are sent after the commit and are not modelled; neither are the customer
and vehicle rows `start_service` resolves.

### WalkInPromise

What the people in the queue can rely on, without tickets, sort keys, phones,
requests or settings: where each stands (`stage`), in which day's line, who is
`ahead` of whom, and the day. Who arrives is last; a decision calls, serves or
loses one person; a sweep ends the days that are over and gives the turns of
those who did not come to exactly as many of the first in line; staff reorder
today's line and no other. WalkInQueue implements it (`KeepsTurns`): a row's
status is read as a stage by `Seen`, which hides a join under way and a completed
service, and `ahead` is the order of keys and tickets among the waiting of a day.
A step outside the promise would be a key that puts a newcomer before others, a
reorder that moves somebody who waits for another day or was called meanwhile, a
sweep that calls too many or the wrong people, or anybody losing a turn unasked.

### WalkInEta

`estimate_queue`, one iteration of its loop per step, on the intervals
`_busy_intervals` gives it. `NoEarlierStart` measures `_earliest_start`, which
tries only now and the ends of intervals, against a definition that tries every
instant.

### LoyaltyRedemption, RewardIssuing

`code` is a row of `discount_codes`, `booked` the bookings with their snapshot
of it and the status of their latest redemption. A handler that takes a use
holds the code's row from its check to its commit, so each is one step:
`Book`, `Approve`, `PatchStatus`, `ApplyCode`, `ChangeCustomer`, and the paths
that revive a fallen booking (`BecomePending`). `Move` is `_move_to`, which asks
for the limit again only when it takes a released use back. RewardIssuing has the
completed `visits` of one customer in the order `completed_visits` gives them and
the milestones that have a code; issuing runs after the completion's commit and
may fail, and `Reconcile` is `flask loyalty-reconcile`.

### ReminderRounds, BulkImport

A round sends what is due and not recorded, and commits its records at the end; a
text commits the records before it along with its log row (`Send`). Two rounds may
overlap and a round may die. Both reminder services have this shape, and are
modelled once. BulkImport runs a file row by row in one transaction and keeps all
of it or nothing; a later row sees the customers of earlier ones.

### NumberProvisioning, ChannelSetup, CarrierIntegration

NumberProvisioning has the numbers' accounts at Twilio and each business's row;
a press is a worker's job in phases (read, lock the row, ask Twilio, change,
commit), and may be refused, lose its answer or die in between. ChannelSetup is
the console of one business: the statuses of voice, OpenAI and WhatsApp, and for
each action its guards and what it writes. CarrierIntegration creates a SIP
domain, an access list, a policy and a trunk, one commit each, finding by name
what an earlier press made. What one press does to the other components is left
to their modules: they share a row, but no module's guard reads what another's
handler writes while it is under way.

### TenantSetup, AccountAccess

TenantSetup has the `businesses` and the `accounts`, and requests that read
(find_existing_business, the duplicate address, the owners that remain) before
they write; the unique index on addresses refuses the second of two. AccountAccess
follows one employee: `links` with their state, the `grant` of an impersonation,
one `session`, and requests that read the row at one time and write at another.
`epoch` counts what ends sessions, and is the property's: the code compares the
token's `iat` with `sessions_valid_from`.

### PaymentAccounts, SquareConnection

PaymentAccounts keeps the Stripe account of a business in `account`, what Stripe
itself holds in `stripe`, and a deposit under way: an account is created before
its id is committed, and only the provider's choice and the replacement lock the
row. SquareConnection has each business's row, the `tokens` Square issued and the
`news` of revocations; writers lock, the readers, `set_location` and the callback's
first look do not, and the ORM writes only columns that differ from what was
loaded (`Written`).

### ImageUploads

The key in a row (`image`), the objects in the `bucket`, and the `tickets` handed
out. `retired` and `excused` are the properties' record of what a crash or an
overlap left behind. Groups, services and logos share the code; checklist media
is the second half of the module.

### Notifications, StaffInbox

Notifications has a mail as a task in three stages (look for it in the log, send,
write the row), because the code commits in between; an accident is a lost answer,
a death or an overlap, and is what a repetition needs. StaffInbox has the
`log` of one thread's messages with the time of their stamp, the row of
`archived_at` and `deleted_at`, and staff who load that row before they write it.
`thread` and `archived` say what the staff meant to leave.

### ConversationTurns, ChatWorkflow

ConversationTurns is `handle_message` commit by commit: load or create the
session, log the message, act, finalize, mark the message as handled; a delivery
may be repeated while another worker is still at it. ChatWorkflow is the other
axis: one session, handled one message at a time, through all questions of
`workflows.py`, its corrections, "back", interruptions and resumption. A text is
what the parsers find in it (`Texts`), and availability is free in every turn,
because it is looked up anew. `asked` records what the last question was about.

### PhoneCall, VoiceSession

PhoneCall answers one webhook per step: the menu, the assistant's leg, the people
rung in turn, the relay and the callback. `past` is the list of states a call may
not be in again. VoiceSession starts from OpenAI's call event, which is delivered
more than once, and has each tool in its commits: `create_booking` looks for an
earlier request of the call, takes the slot, inserts, and sends a link.

### BookingCalendar, ServiceSettings, BookingPricing

BookingCalendar computes twice: `Slots`, `Level` and `NextDays` are what is
offered, `Validate` what `validate_slot` accepts; hours, exceptions, settings, a
reserved window, other bookings and the clock change in between. ServiceSettings
merges a partial edit into the row as loaded and writes the columns that differ.
BookingPricing is one booking next to a changing catalogue: what is copied when it
is made, and what an edit of it recomputes.

### BookingForm, TermsAcceptance, PublicSubmission

BookingForm has steps, fields and the vehicle switch in its three phases (read,
work out, commit). TermsAcceptance has versions, the page a customer looks at,
and a booking that waits for its terms while an owner saves another wording;
`overtaken` and `crossed` mark what two overlapping requests did. PublicSubmission
is the two forms of the public page with workers that look for an earlier attempt
under the garage's lock, having read the service before it.

### OrderLemmas

Least and greatest elements of sets of numbers, induction along the indices of a
sequence, and recursion over the subsets of a finite set, for the proofs.

### MCOnlineBooking, MCCustomerContact, MCBackOffice, MCLiveness

These compose components that share a database but no row. `focus` names the one
that moves in a behaviour; the others stay in one of their initial states, and the
action of each step is the component's whole `Next`. Nothing is lost by that: no
guard of one component reads a variable of another, so every behaviour of the
product is, seen from one component, a behaviour of that component alone, and the
properties are each about one component. They are guarded by `focus` to spare the
evaluation in states where nothing moves. Their conjuncts are the named
properties of the modules, together with the modules' type invariants.

In the first three, `Spec` is the composition for any values of the constants, and is
what the theorems are about. TLC runs `MCSpec`, whose `MCInit` picks fewer
starting points of each component (forms, opening hours, phone menus) than its `Init`
allows; the steps are the same.

## 3. What the runs show

| run | instance | shows |
|---|---|---|
| deposit_two_phase | 1 request, 2 attempts, card tokens, 2 ids per success, crashes | `PaidBeforeReview`, `RefundedAtMostOnce`, `KeepsPromise`, `DecisionsStand`, `SubmissionIsExclusive` |
| deposit_contention | 2 requests for 1 bay | `OverbookedOnlyByRecovery` |
| liveness | 1 browser checkout; 2 entries over 2 days; 3 visits | `DepositsSettle` (holds end, reported charges are recorded, rejections refund), `NobodyBlocksTheLine`, `EarnedRewardsArrive` |
| walk_in_eta | all days of 6 instants, 2 rows, 3 walk-ins, 0 to 2 bays | `EstimatesHold`, `EarliestPossible` |
| walk_in_queue | 4 entries, 1 phone, 2 days | `LineIsSound`, `ServedMeansAppointment`, `KeepsTurns`, `OnlyStaffCallOutOfTurn`, `FreedBaysAreOffered` |
| slot_capacity | 3 bookings, 2 bays, 2 employees, 1 window | `PeakIsBusiest`, `OverbookedOnlyByFact`, `RequestsLeaveReservedBays`, `NoEmployeeDoubleBooked` |
| back_office | 11 components, one moving; 2 workers, 2 businesses | the nine below |
| online_booking | 6 components, one moving; 2 workers | the six below |
| customer_contact | 6 components, one moving; 2 workers or deliveries | the five below |

The composed runs, by property and what it joins:

| property | what it says |
|---|---|
| `CodesAreRespected` | a code is never used above its limit except by lowering it, and a personal reward is held only for its owner's bookings (LoyaltyRedemption) |
| `NothingIsRepeated` | a reminder goes out twice only after a crash or an overlap (ReminderRounds); an import run again without edits in between inserts nothing (BulkImport) |
| `NothingIsMixedUp` | a number recorded for a business is in no other's subaccount (NumberProvisioning); carrier objects are duplicated only by overlapping presses (CarrierIntegration) |
| `ChannelsTellTheTruth` | ONLINE means customers reach it, and an offered step is not refused (ChannelSetup) |
| `BusinessesAreSound` | one onboarding, one business; no edit takes the last active owner unless two cross (TenantSetup) |
| `AccountsAreKept` | no Stripe account is forgotten while a deposit may pay into it (PaymentAccounts) |
| `ConnectionsKeepWorking` | a connection shown as ready can charge; no token that works is given up (SquareConnection) |
| `SignInsEnd` | no session outlives a reset, a sign-out, a deactivation or a suspension; a link signs in once (AccountAccess) |
| `PicturesAreKept` | a shown picture's object exists, and no object is kept that nobody shows, crashes and overlaps apart (ImageUploads) |
| `CalendarIsHonest` | what is offered is accepted when it is chosen at once, and days are coloured by what they hold (BookingCalendar) |
| `DepositIsChargeable` | a service that asks for a deposit has one that can be worked out, unless two edits or a price correction crossed (ServiceSettings) |
| `BookingsKeepTheirPrice` | the price of a booking is what its parts were when they were chosen, and saving it again changes nothing (BookingPricing) |
| `SwitchIsExact` | switching the vehicle questions leaves exactly those that were wanted, and the owner's own fields (BookingForm) |
| `AgreementsStand` | an agreement names the wording its customer had before them; a link decides once (TermsAcceptance) |
| `RetriesAreSafe` | a repeated submission books once and is answered with its own booking (PublicSubmission) |
| `NothingComesTwice` | a redelivered message takes no second turn (ConversationTurns); mails and messages repeat only by accident (Notifications) |
| `InboxIsExact` | the inbox shows what the staff left in it, and what was delivered (StaffInbox) |
| `ChatKeepsItsWord` | no question is reached without what its answer needs, and what the chat does is what it asked (ChatWorkflow) |
| `CallsAreAnswered` | a call does not go round, rings each person once and leaves one callback; nobody is given up before everyone was tried (PhoneCall) |
| `AssistantIsExact` | one controller and one booking per call, whatever is repeated; only the caller's own appointments are touched (VoiceSession) |

Three runs refute a sentence of the repository, which `PROJECT.json` quotes.

| run | the code |
|---|---|
| deposit_second_appointment | recovering an approved request reopens it for a second approval |
| phone_goodbye | the assistant says goodbye and ends, and the caller is put through to a person |
| reward_email | the e-mail of a customer's second reward is skipped, because the first is found in the log |

**Bounds.** Deposits: one or two requests and one or two attempts; an attempt
interacts with the one before it (it is made when that one is closed), and a
request with another only through the count of the slot's bays. `BeforeRefunds`
cuts the contention run at the first refund, which never changes the bays.
Slots: three bookings are the fewest for which the peak differs from the count of
those that touch (a long job over two that follow each other), jobs of one and
two slots on a day of three make every overlap, and `OneUnusual` keeps at most
one booking that is held, paid, lapsed, imported, a walk-in or final next to
ordinary ones. Queue: `ThreeOrAllWaiting` admits the fourth entry only on an open
first day on which nobody gave a number or was taken into service, which is what
two calls that time out while two wait need; with `SettingsFirst` the owner opens,
closes and switches the timeout on the first day only, so that the second begins
open with calls that end.
Components with workers: two, because every check in the code is of one row
against one other writer; `ThreeTokensForOne` lets a third Square token (the
refresh of a refreshed one) be issued while one business connects;
`OneEditEach` edits the maximum of one add-on and the price of the other.
The constants named `Max...` bound counters and histories (accounts, tokens,
sessions, links, events, imports, attempts of a call); each is one more than
the first value at which the interesting case (a second copy, a retry, a stale
row) happens. Provisioning presses the same button at most twice at once per
business.

**Symmetry.** Workers, requests, entries, bookings and employees, wordings,
the names of details, services and days are interchangeable where a module
compares them only for equality. No run with a liveness property uses it.

**Fairness.** Deposits: weak fairness on the sweep of a lapsed hold (it runs at
the head of every availability, checkout and staff-queue request), on the commit
of a running worker, on the refund that follows a rejection, on time, and on each
webhook (the endpoint answers 500 on an exception, and providers redeliver).
Queue: weak fairness on the sweep alone, which the queue pages poll and
`flask sweep-walkin-queue` runs on a schedule. Rewards: on `loyalty-reconcile`,
which deployments schedule. None on customers or staff. In MCLiveness the
components out of focus stay in initial states, where no fair action of theirs is
enabled, so fairness asks nothing of them.

**Deadlock.** It is checked for slots and the queue. Elsewhere the system may stop:
a deposit is decided and refunded, an estimate is placed, a call is over, and the
composed runs end when the component in focus has used up its bounds.

## 4. What is proved

For every value of the constants that satisfies the module's assumptions.

`DepositBooking_proofs`: `TypeCorrect`, `ReviewIsPaidFor`, `RefundsAreSingle`,
`OnlyRecoveryOverbooks`, `DecisionsAreFinal` and `SubmissionsAreExclusive`. `PaidBeforeReview` is not inductive: a webhook makes a
request `PENDING` on the word of an event, a recovery on the word of a row.
`IInv` adds that events and rows tell the truth (`SuccessIsCharged`), that an
unsubmitted request has no charge a first attempt could overwrite
(`UnsubmittedIsUncharged`), and that the provider pays out a refund exactly when
it makes it, for a charged row (`PayoutIsRefund`). Every step is shown to be
`Sound`, a relation between the two states that does not mention which handler
ran, and sound steps preserve `IInv` (`SoundStep`). For the action properties
`Turn` says what a step may do to the one request it is about, and `TurnFits` that
no turn but a revival overbooks (requests finite, so that bays can be counted);
`CallsAwait`, a second invariant, says that a card is charged only for a hold that
waits, which keeps staff away from it.

In the same module, `PromiseKept` is the refinement of `DepositPromise`. `IInv` supplies what the
abstract guards ask for: a reconciled or reported row was charged, a charge
belongs to a submitted request, and a refund not yet made was not yet paid out.
`Moves`, `Charges` and `Refunds` are the three kinds of visible change, and each
handler is shown to make at most one.

`SlotCapacity_proofs`: `TypeCorrect`, `PeakOverlapIsBusiest`,
`OnlyFactsOverbook`, `WalkInBaysAreLeft`, `EmployeesAreSingle`. The running count
equals the number in use at each instant (`CurrentIsInUse`), and the maximum is
attained where some clipped booking starts (`PeakIsMaximum`). `StepShape`
classifies every step: it records a fact, reopens a paid request, releases a bay,
keeps one, or has passed the checks; `OneRowCounts` says what one changed row can
add to an instant. The three action properties follow without looking at a
channel again. `IInv` adds that a service is no longer than its job and that
walk-ins and imports are never requests.

`WalkInQueue_proofs`: all the properties of the queue but its liveness. The
invariants (`TypeCorrect`, `LineStaysSound`, `OnlyTheServedHaveAppointments`) are
inductive together; all steps but a join and a reorder satisfy `KeepsOrder`, two
lemmas treat those, and `NobodyIsOvertaken` follows from the three. Whom a sweep
calls is a prefix of a strict order (`SweepCallsInOrder`), which gives
`CallsAreInTurn`; that the prefix has as many people as there are freed bays, or is
the whole line, is counted place by place (`OneMoreInLine`, `FirstInLine`) for
`EveryFreedBayIsOffered`, with the invariant that only ended entries have a reason.

In the same module, `TurnsAreKept` is the refinement of `WalkInPromise`. `IInv` makes
`ahead` a strict order of each line, and a second invariant, `InTime`, puts no entry
in the line of a day that has not begun, so that the sweep's stale entries are those
of days that are over. Steps that satisfy `KeepsOrder` change `ahead` by whoever
leaves the line, and nothing else: `RowGoes` is that for one row, `RowsHidden` for
rows whose place does not change, and `SweepKeeps` for all rows a sweep touches
(how many the first in line are is `EveryFreedBayIsOffered`, which the promise leaves
to its `First`); a join adds one pair for each who waits
(`JoinArrives`) and a reorder replaces today's pairs by those of the new places
(`ReorderIs`). A join's own sweep and its insert are two steps of the promise.
`NobodyIsOvertaken` states the heart of it about the rows themselves: `PlacesAreKept`,
which the refinement implies for what TLC checks.

`WalkInEta_proofs`: a start always exists, so the last line of
`_earliest_start` is not reached (`SomeStartIsGood`), and the first good candidate
is the earliest instant of all (`EarliestStartIsEarliest`); with the loop
invariant they give `EstimatesCanBeKept` and `EstimatesAreEarliest`.

The composed runs are proved about component by component. A step of another
component leaves the variables of the one in focus alone, so each theorem has an
invariant `focus = ... => ...Inv` of its own and looks at the actions of one module.

`OnlineBooking_proofs`

| theorem | what its invariant adds to the property |
|---|---|
| `DepositStaysChargeable` | `ServiceInv`: requests commit what they read earlier, so one that nobody has overtaken still leads to the row it validated |
| `RetriesStaySafe` | `SubmissionInv`: what a worker remembers of an earlier attempt is that attempt's row, as long as the worker holds the lock |
| `AgreementsKeepStanding` | `TermsInv`: versions are numbered in the order they were made, and pages, links and requests under way name a version that exists |
| `SwitchStaysExact` | `FormInv`: fields have an identity and an order of their own, and what a switch works out is about the fields it read |
| `PricesAreKept` | `PricingInv`: the stored price and the price before the discount are what the base price, the kept rows and the discount give, and a row that can be sent again has its add-on |
| `CalendarStaysHonest` | `CalendarInv`: only the types of hours, settings and bookings; the work is that the search for days, the slots of a day and the validation agree |

`BackOffice_proofs`

| theorem | what its invariant adds to the property |
|---|---|
| `CodesStayRespected` | `LoyaltyInv`: a booking carries a code only for its customer; a booking that becomes a holder found room, all others were holders before |
| `NothingGetsRepeated` | `RemindersInv`: a reminder that no record answers for was sent at most once more than accidents and rounds that still hold it explain; `ImportsInv`: every row ever imported would be found again, by the duplicate check or as a customer with both contacts |
| `AccountsStayKept` | `StripeInv`: an account that a deposit under way relies on is the row's or remembered |
| `BusinessesStaySound` | `TenantInv`: what a request read before its check still holds when nothing overlapped it, and owners are counted over a finite set of addresses |
| `ChannelsStayTrue` | `ChannelsInv`: each status of voice, OpenAI and WhatsApp implies the objects it rests on |
| `SignInsStayEnded` | `AccessInv`: a session is as old as its epoch says, an unused link belongs to nobody's request but one, and a request knows whether it was crossed |
| `NothingGetsMixedUp` | `NumbersInv`: a job knows as much as its phase says, the lock has one holder, and rows name different numbers; `CarrierInv`: a press that found nothing found nothing to find |
| `PicturesStayKept` | `ImagesInv`: an object is in the bucket for a row, a ticket, an upload under way or an excused accident |
| `ConnectionsStayWorking` | `SquareInv`: which token is the newest of a connection, and which of them the row, the requests and the pending revocations hold |

`CustomerContact_proofs`

| theorem | what its invariant adds to the property |
|---|---|
| `NothingIsDoubled` | `TurnsInv`: a message nobody has logged has taken no turn, and the unique row lets one worker through; `NotesInv`: a mail that was looked for and not found was not sent, accidents apart |
| `InboxStaysExact` | `InboxInv`: stamps are in the past, and a loaded row is the stored one unless the request was crossed |
| `AssistantStaysExact` | `VoiceInv`: the call has one row and one controller, and a job remembers an earlier request of this call only |
| `CallsStayAnswered` | `PhoneInv`: the person being rung is the next of the chain for the call's target, everyone before was rung, and a status report from an earlier leg finds the call further on |
| `TheChatKeepsItsWord` | `WorkflowInv`: every question has what its answer reads (`Ready`), not only the one that is awaited but the one that is held during an aside, and what a confirmation is about is what the slots say (`Matches`) until a yes is carried out |

The last one has a lemma for each operator that answers a message: from sound slots it makes
good replies only (`AllGood`), down to `StepHandlerIs`, `RepromptIs` and `RepliesAre`. Texts are
any of those the parsers can make (`TextsAreSaid`).

Assumptions. Sets that something is counted over are finite (requests, bookings,
addresses, rounds of reminders, add-ons, workers that write to an inbox), bounds and
limits are naturals, prices are numbers, and lists of people and the rows of a
spreadsheet are sequences. `None` is no member of the sets it is an alternative to, as
NULL is no value and a chat that waits for nothing has no question; the pictures of rows
and of checklists have different keys; a number that no business holds is at Twilio's
market or with the parent account, which is no business's subaccount. Each assumption is
named in the module that declares the constants, and TLC evaluates it in the run of that
module.

Every safety property that a passing run checks is a theorem. Model-checked only:
`DepositsSettle`, `NobodyBlocksTheLine` and `EarnedRewardsArrive`, which are liveness
under fairness and out of the prover's reach.

A price is a fold of the library over the add-ons, and an import a fold over its rows.
The prover cannot do induction over data, but a fold chooses its result by a recursion over
the subsets of a finite set: `RecursionExists` and `RecursionUnique` (`OrderLemmas`) show that
such a recursion has one solution. From there `SumStaysIn` bounds a sum, and `ImportRowsIs`
lays an import out as a sequence of states, one per row, along which `NoneTurnsBad` argues.

No module of the project declares a RECURSIVE operator.

## 5. What the code allows and no property here rules out

Steps that the models contain. Each was met while a stronger property was tried;
the property that is checked says what holds beside it.

*Deposits and requests.* A late success or failure overwrites a refunded row.
Recovering an expired request puts it back into its slot without validating it;
one with add-ons is validated for the service's length alone. A declined intent
stays payable after its hold expires; a charge whose answer was lost is made again
under a new key. A crash between a rejection and its refund keeps the deposit
until staff press refund, and a paid request that nobody reviews expires and keeps
it. A request pending in a walk-in window that staff overrode for somebody else
cannot be approved. Automatic approval decides on the request as it was loaded
before the lock. A retry of a deposit attempt whose hold has ended meets the
unique index on its attempt id. A retry of an attempt id is answered with the
first request even when it was rejected or its details were corrected since.

*Terms.* Two taps on one link decide on stale copies: the second may send the
"received" message again, reopen an approved or expired booking, or make a second
hold. Two owners saving at once may leave one's text under the other's number.

*Walk-ins.* A called or waiting entry of a day that is over can be served before
anything sweeps; the appointment of a walk-in in service can be cancelled on the
appointments page, and completing the service sets it `COMPLETED` again; a worker
that dies after it called somebody has told nobody.

*Appointments, prices, calendar.* A chat cancellation may overwrite a completion.
A request approved as another service keeps its first price unless add-ons or a
discount change; one without a price gets today's, with the add-ons thrown in;
rows of deleted add-ons drop out at the next edit. Platform Admin's price
correction, and two partial edits at once, can make a deposit unworkable. A
single day, or a range, is offered beyond `max_advance_days`; a slot that starts
this instant is offered and refused when no notice is asked for; exceptions may
close before they open; the fallback capacity counts inactive employees.

*Loyalty, reminders, imports.* Completing a walk-in issues no reward until the
reconciliation. A second reschedule sends no e-mail. A diary imported again after
its customers were edited repeats appointments.

*Communications.* `called_sms_sent_at` is set although the text failed; a late
"sent" overwrites "delivered"; a report that comes before its row is dropped. A
message stamped before a deletion and committed after it is never seen; an archive
from a stale page archives the thread that was reopened; deleted messages count as
unread. A session that is handed off returns to the automation when it expires;
`expire_stale_sessions` has no schedule. A call's leg is looked up and inserted
without a lock; a connection that flaps resets the count of its failures; a second
`create_booking` may be answered with the first one's request. A message delivered
again while its first delivery is at work ends in an exception of the unique row; a
worker that finishes after staff took the thread over still ends the session. A leg
of the assistant that closes while its control connection is down counts as served.

*Provisioning.* Switching off and on turns `WEBHOOKS_CONFIGURED`, `TESTING` and
`ACTION_REQUIRED` into `ONLINE`; checking the status of a business that is off
switches it on; a returned number leaves OpenAI `READY`; a number bought by a
double press is a second number; a sender registered just before a crash is not
recorded; a number may be moved elsewhere between the check and the move.

*Accounts.* Two links may be unused at once, or one used twice, by overlapping
requests; a login that overlaps a reset keeps its token; two deactivations at once
remove the last owner; an archived tenant can be reactivated. An onboarding run
again after its owner changed address makes a second business. A Stripe account
made by an overlapping or dying request is not remembered; a late revocation wipes
a Square connection made since, and a reconnection that waited for a disconnection
keeps its status with fresh tokens. A finalize repeated after a bad overwrite
deletes the live picture.

## 6. Not modelled

Rows that one request writes and nobody else depends on (statuses, roles, the
customer and vehicle pages, checklist items, feedback, profile texts), reads
(statistics, audit pages, the customer portal), formatting (calendar feeds, TwiML,
e-mail), text understanding (intents, dates, registrations), file formats, and
set-up code. Of modelled components: forms of single services and required
answers, read flags of messages, the average of service minutes, percentages of
discounts, clock changes. Daylight saving is outside the calendar's model, whose
day has the same instants every day. The order in which a webhook and a sweep lock
a payment and its request is not modelled, so a deadlock of the two, which the
database would break, is not either. The component list of `PROJECT.json` says for
each part what is left out.

Two extensions would add most: a life cycle of a booking that both DepositBooking
and SlotCapacity implement, and the provisioning modules over one shared row.
