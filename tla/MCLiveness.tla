----------------------------- MODULE MCLiveness -----------------------------
(* What must happen in the end: a deposit's hold, charge and refund, a queue that
   moves, and rewards that were earned. A behaviour follows one of the three and the
   other two keep still in their initial state, where nothing of theirs is due. *)
EXTENDS Naturals, FiniteSets

CONSTANTS r1, e1, e2, p1, NoPhone

VARIABLES focus, request, hold, slotPast, appointments, payment, ref, charge, refund, payouts,
          sent, recorded, call, rejecting, entry, day, isOpen, timeoutOn, programme, visits, codes

\* A browser-confirmed checkout.
Deposits == INSTANCE DepositBooking WITH Requests <- {r1}, MaxAttempts <- 1, Capacity <- 1,
    TwoPhase <- FALSE, EventCopies <- 1, Crashes <- FALSE
Queue == INSTANCE WalkInQueue WITH Entries <- {e1, e2}, Phones <- {p1}, LastDay <- 2
Rewards == INSTANCE RewardIssuing WITH MaxVisits <- 3, Required <- {1, 2}

depositVars == <<request, hold, slotPast, appointments, payment, ref, charge, refund, payouts,
                 sent, recorded, call, rejecting>>
queueVars == <<entry, day, isOpen, timeoutOn>>
rewardVars == <<programme, visits, codes>>
vars == <<focus, depositVars, queueVars, rewardVars>>

Init == /\ focus \in {"deposit", "queue", "rewards"}
        /\ Deposits!Init /\ Queue!Init
        /\ Rewards!Init /\ (focus # "rewards" => programme.required = 1)

DepositStep == focus = "deposit" /\ Deposits!Next /\ UNCHANGED <<focus, queueVars, rewardVars>>
QueueStep == focus = "queue" /\ Queue!Next /\ UNCHANGED <<focus, depositVars, rewardVars>>
RewardStep == focus = "rewards" /\ Rewards!Next /\ UNCHANGED <<focus, depositVars, queueVars>>

Next == DepositStep \/ QueueStep \/ RewardStep

\* The sweeps run by schedule and by poll, webhooks are redelivered, visits reconciled.
Spec == /\ Init /\ [][Next]_vars
        /\ Deposits!Fairness
        /\ WF_queueVars(Queue!SweepQueue)
        /\ WF_rewardVars(Rewards!Reconcile)

\* Every hold ends, every reported charge is recorded, and the rejection of a paid request
\* reaches the refund.
DepositsSettle == Deposits!HoldsAreReleased /\ Deposits!ChargesAreRecorded /\ Deposits!RejectionRefunds
\* Yesterday's leftovers end and unanswered calls are skipped.
NobodyBlocksTheLine == Queue!NobodyBlocksTheLine
\* A reward that was earned is issued, at the latest by a later reconciliation.
EarnedRewardsArrive == Rewards!EarnedRewardsArrive
=============================================================================
