--------------------------- MODULE RewardIssuing ---------------------------
(* The loyalty rewards of one customer. Every required-th completed visit earns
   a personal code; the code is issued in a transaction of its own after the
   completion commits, so it may be lost, and `flask loyalty-reconcile` issues
   what was missed. visits is completed_visits: the rows without completed_at
   (imported, or completed by the walk-in queue) first, the others in the order
   of their completion. codes holds the milestones with a code: the unique
   index on customer and count makes it a set. *)
EXTENDS Naturals, Sequences, SequencesExt

CONSTANTS MaxVisits, Required

VARIABLES programme, visits, codes

rewardVars == <<programme, visits, codes>>

LoyaltySettings == [enabled : BOOLEAN, required : Required]

\* since: completed in the app and not before enabled_at; due: its request has
\* not come to issuing yet.
Visit == [app : BOOLEAN, since : BOOLEAN, due : BOOLEAN]
History == [app |-> FALSE, since |-> FALSE, due |-> FALSE]

Init == /\ programme \in [enabled : {FALSE}, required : Required]
        /\ visits = <<>> /\ codes = {}

Milestone(p) == p % programme.required = 0

-----------------------------------------------------------------------------
\* Staff complete an appointment: completed_at is taken under the garage lock.
CompleteAppointment ==
    /\ Len(visits) < MaxVisits
    /\ visits' = Append(visits, [app |-> TRUE, since |-> TRUE, due |-> TRUE])
    /\ UNCHANGED <<programme, codes>>

\* The queue completes a walk-in, or a diary is imported: completed_at stays null.
CompleteUndated(p) ==
    /\ Len(visits) < MaxVisits
    /\ \A q \in 1..p - 1 : ~visits[q].app
    /\ visits' = InsertAt(visits, p, History)
    /\ UNCHANGED <<programme, codes>>

\* issue_reward_for_completion, for the visit now at position p.
IssueReward(p) ==
    /\ visits[p].due
    /\ visits' = [visits EXCEPT ![p].due = FALSE]
    /\ codes' = IF programme.enabled /\ Milestone(p) THEN codes \union {p} ELSE codes
    /\ UNCHANGED programme

\* The worker dies, or issue_reward_safely swallows an exception.
IssueFails(p) ==
    /\ visits[p].due
    /\ visits' = [visits EXCEPT ![p].due = FALSE]
    /\ UNCHANGED <<programme, codes>>

\* The settings are saved; switching on restarts the window of the reconcile.
SaveSettings(settings) ==
    /\ settings # programme
    /\ programme' = settings
    /\ visits' = IF settings.enabled /\ ~programme.enabled
                 THEN [p \in DOMAIN visits |-> [visits[p] EXCEPT !.since = FALSE]]
                 ELSE visits
    /\ UNCHANGED codes

\* Mutation of Missed: only the latest visit is looked at.
LatestMissed == {p \in {Len(visits)} \ {0} : Milestone(p) /\ visits[p].since /\ p \notin codes}

\* Missed: what a reconcile run within the window still has to issue.
Missed == {p \in DOMAIN visits : Milestone(p) /\ visits[p].since /\ p \notin codes}

Reconcile ==
    /\ programme.enabled /\ Missed # {}
    /\ codes' = codes \union Missed
    /\ UNCHANGED <<programme, visits>>

Next == \/ CompleteAppointment \/ Reconcile
        \/ \E p \in 1..Len(visits) + 1 : CompleteUndated(p)
        \/ \E p \in 1..Len(visits) : IssueReward(p) \/ IssueFails(p)
        \/ \E settings \in LoyaltySettings : SaveSettings(settings)

Spec == Init /\ [][Next]_rewardVars

\* The command is run again and again.
FairSpec == Spec /\ WF_rewardVars(Reconcile)

-----------------------------------------------------------------------------
TypeOK == /\ programme \in LoyaltySettings
          /\ visits \in Seq(Visit) /\ Len(visits) <= MaxVisits
          /\ codes \subseteq 1..MaxVisits

Earned(p) == /\ programme.enabled /\ p \in DOMAIN visits
             /\ visits[p].app /\ visits[p].since /\ Milestone(p)

\* A visit that earns a reward gets it although the worker died after the
\* completion: again and again, however the programme is edited and the visits
\* are renumbered meanwhile, no reward that was earned is missing.
EarnedRewardsArrive == []<>(\A p \in 1..MaxVisits : Earned(p) => p \in codes)
=============================================================================
