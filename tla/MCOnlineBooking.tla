-------------------------- MODULE MCOnlineBooking ---------------------------
(* Booking online: the calendar that is offered, what a service asks for and costs, the
   form, the terms, and the submission. They write rows of their own, so a behaviour
   follows one of them and the others keep still. *)
EXTENDS Integers, FiniteSets, TLC

CONSTANTS Workers, None,
          Customers, LastDay, Length, Jobs, OpenHours, SpecialDays, SpecialHours, Settings, Advance,
          MaxAmount,
          AddOns, Prices, Deltas, MaxQuantity, OtherPrice, NoPrice,
          Steps, MaxCopies, MaxFields,
          Wordings, MaxVersions, Bays,
          Attempts, Choices, Details, MaxRequests, Capacity

\* A business whose customers agree to terms has a version of them.
ASSUME VersionsAssumption == MaxVersions \in Nat \ {0}
\* Times are whole, a job takes some, and a grid of times has a step.
ASSUME CalendarAssumption ==
    /\ IsFiniteSet(Customers) /\ LastDay \in Nat /\ Length \in Nat \ {0} /\ Advance \in Nat
    /\ Jobs \subseteq Nat \ {0}
    /\ OpenHours \union SpecialHours \subseteq [opens : Nat, closes : Nat, closed : BOOLEAN]
    /\ Settings \subseteq [interval : Nat \ {0}, lead : Nat, capacity : Nat]
VARIABLES focus,
          now, hours, exceptions, settings, withheld, taken,
          row, change, loose,
          price, offer, booked, base,
          steps, fields, switch, done,
          bodies, terms, booking, lapsed, deposit, auto, page, agreed, appointments, received,
          holds, tap, crossed, overtaken,
          requests, charged, attempt, answer

Calendar == INSTANCE BookingCalendar
Service == INSTANCE ServiceSettings WITH task <- change
Pricing == INSTANCE BookingPricing WITH booking <- booked
Form == INSTANCE BookingForm WITH task <- switch
Terms == INSTANCE TermsAcceptance WITH task <- tap
Submission == INSTANCE PublicSubmission WITH deposit <- charged, task <- attempt

\* There are finitely many add-ons, prices count pence, and NoPrice and None stand for NULL:
\* no price, and no add-on or row of one.
ASSUME PricingAssumption ==
    /\ IsFiniteSet(AddOns) /\ MaxQuantity \in Nat \ {0} /\ Deltas \subseteq Int /\ Deltas # {}
    /\ Prices \union {OtherPrice} \subseteq Nat \union {NoPrice} /\ NoPrice \notin Int
    /\ None \notin Pricing!Row \union Pricing!AddOn

calendarVars == <<now, hours, exceptions, settings, withheld, taken>>
serviceVars == <<row, change, loose>>
pricingVars == <<price, offer, booked, base>>
formVars == <<steps, fields, switch, done>>
termsVars == <<bodies, terms, booking, lapsed, deposit, auto, page, agreed, appointments, received,
               holds, tap, crossed, overtaken>>
submissionVars == <<requests, charged, attempt, answer>>
catalogueVars == <<calendarVars, serviceVars, pricingVars>>
customerVars == <<formVars, termsVars, submissionVars>>
vars == <<focus, catalogueVars, customerVars>>

Init == /\ focus \in {"calendar", "service", "pricing", "form", "terms", "submission"}
        /\ Calendar!Init /\ Service!Init /\ Pricing!Init /\ Form!Init /\ Terms!Init /\ Submission!Init

CalendarStep == /\ focus = "calendar" /\ Calendar!Next
                /\ UNCHANGED <<focus, serviceVars, pricingVars, customerVars>>
ServiceStep == /\ focus = "service" /\ Service!Next
               /\ UNCHANGED <<focus, calendarVars, pricingVars, customerVars>>
PricingStep == /\ focus = "pricing" /\ Pricing!Next
               /\ UNCHANGED <<focus, calendarVars, serviceVars, customerVars>>
FormStep == /\ focus = "form" /\ Form!Next
            /\ UNCHANGED <<focus, catalogueVars, termsVars, submissionVars>>
TermsStep == /\ focus = "terms" /\ Terms!Next
             /\ UNCHANGED <<focus, catalogueVars, formVars, submissionVars>>
SubmissionStep == /\ focus = "submission" /\ Submission!Next
                  /\ UNCHANGED <<focus, catalogueVars, formVars, termsVars>>

Next == \/ CalendarStep \/ ServiceStep \/ PricingStep
        \/ FormStep \/ TermsStep \/ SubmissionStep

Spec == Init /\ [][Next]_vars

-----------------------------------------------------------------------------
\* The instance that TLC checks. Workers are interchangeable, and so are wordings, and the
\* names of steps and of details.
Alike == Permutations(Workers) \union Permutations(Wordings) \union Permutations(Steps)

Hours(opens, closes, closed) == [opens |-> opens, closes |-> closes, closed |-> closed]
Rules(interval, lead, capacity) == [interval |-> interval, lead |-> lead, capacity |-> capacity]
MCOpenHours == {Hours(0, 3, FALSE), Hours(1, 3, FALSE), Hours(0, 2, TRUE)}
\* A bank holiday, a short day, and one whose times were entered the wrong way round.
MCSpecialHours == {Hours(0, 0, TRUE), Hours(0, 2, FALSE), Hours(2, 1, FALSE)}
MCSettings == {Rules(1, 0, 1), Rules(2, 0, 1), Rules(1, 2, 2)}
MCPrices == {NoPrice, 3}
MCDeltas == {-1, 2}

\* What is out of focus starts, and stays, in one of its initial states only.
MCInit == /\ focus \in {"calendar", "service", "pricing", "form", "terms", "submission"}
          /\ Calendar!Init /\ (focus # "calendar" => hours.opens = 1 /\ settings = Rules(1, 0, 1))
          /\ Service!Init /\ (focus # "service" => ~row.required /\ row.price = 0)
          /\ Pricing!Init /\ (focus # "pricing" => price = 3)
          /\ Form!Init
          /\ Terms!Init /\ (focus # "terms" => bodies = <<CHOOSE t \in Wordings : TRUE>> /\ ~deposit /\ ~auto)
          /\ Submission!Init /\ (focus # "submission" => ~charged)

MCSpec == MCInit /\ [][Next]_vars

\* The maximum of one add-on and the price of the other are edited.
OneEditEach ==
    LET a1 == CHOOSE a \in AddOns : TRUE IN
    \A a \in AddOns : offer[a] = None \/ (IF a = a1 THEN offer[a].delta = -1 ELSE offer[a].most = 2)

-----------------------------------------------------------------------------
\* Each property is about the component in focus: the others are in initial states of theirs.
\* What the calendar offers is what a booking is allowed.
CalendarIsHonest == focus = "calendar" => Calendar!CalendarIsHonest
\* A service that asks for a deposit has one that can be worked out.
DepositIsChargeable == focus = "service" => Service!DepositIsChargeable
\* A booking keeps its price through the edits of the catalogue and of itself, and saving
\* it again changes nothing.
BookingsKeepTheirPrice == focus = "pricing" => Pricing!PriceAddsUp /\ Pricing!ResavingIsHarmless
\* Switching the vehicle questions leaves exactly those that were wanted.
SwitchIsExact == focus = "form" => Form!SwitchIsExact
\* An agreement names the wording that its customer had before them, and a texted terms link
\* decides on its booking once.
AgreementsStand ==
    focus = "terms" => Terms!TypeOK /\ Terms!AgreedToWhatWasShown /\ Terms!LinkIsUsedOnce
\* A submission that is repeated books once and is answered with its own booking.
RetriesAreSafe == focus = "submission" => Submission!RetriesBookOnce /\ Submission!AnswersFit
=============================================================================
