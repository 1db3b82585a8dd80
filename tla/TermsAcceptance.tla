-------------------------- MODULE TermsAcceptance --------------------------
(* A business's Terms & Conditions and one booking made by chat that waits for the
   customer to accept them. An owner's save, the acceptance and the automatic
   approval each load a row first and lock it afterwards; the lock does not refresh
   what was loaded, and only columns that differ from it are written back. *)
EXTENDS Naturals, SequencesExt

CONSTANTS Wordings, Workers, MaxVersions, Bays, None

\* bodies: GarageTermsVersion, by number. terms: the garage's text and version. booking:
\* the request, with the version it is stamped with (0 for none). lapsed: its hold or its
\* time has passed. deposit, auto: how its service and its business are configured.
\* page: what the customer's open page shows, agreed: what it showed at the acceptance.
\* appointments, received, holds: appointments, "request received" messages and deposit
\* payments made for the booking. crossed: a save used a row that another save had moved
\* on. overtaken: so did a decision about the booking.
VARIABLES bodies, terms, booking, lapsed, deposit, auto, page, agreed,
          appointments, received, holds, task, crossed, overtaken

termsVars == <<bodies, terms, booking, lapsed, deposit, auto, page, agreed,
               appointments, received, holds, task, crossed, overtaken>>
wording == <<bodies, terms, crossed>>
outcome == <<appointments, received, holds>>
setting == <<deposit, auto>>

Version == 1..MaxVersions
Text == Wordings \union {None}
Terms == [text : Text, version : {0} \union Version]
Status == {"AWAITING_TERMS", "AWAITING_PAYMENT", "PENDING", "APPROVED", "REJECTED", "EXPIRED"}
Booking == [status : Status, version : {0} \union Version]
Idle == [op |-> "none"]
\* save: save_terms, with the garage as loaded. accept: accept_by_token, with the rows as
\* loaded and what the page had shown. approve: auto_accept_booking_request.
Task == [op : {"save"}, row : Terms, text : Text]
        \union [op : {"accept"}, row : Booking, terms : Terms, page : Terms]
        \union [op : {"accepted"}]
        \union [op : {"approve"}, row : Booking]

TypeOK == /\ bodies \in Seq(Wordings) /\ Len(bodies) <= MaxVersions
          /\ terms \in Terms /\ booking \in Booking
          /\ {lapsed, deposit, auto, crossed, overtaken} \subseteq BOOLEAN
          /\ page \in Terms \union {None} /\ agreed \in Text
          /\ appointments \in Nat /\ received \in Nat /\ holds \in Nat
          /\ task \in [Workers -> Task \union {Idle}]

\* hold_for_acceptance: a chat booking of a business that has terms.
Init == \E text \in Wordings :
        /\ bodies = <<text>> /\ terms = [text |-> text, version |-> 1]
        /\ booking = [status |-> "AWAITING_TERMS", version |-> 0]
        /\ lapsed = FALSE /\ deposit \in BOOLEAN /\ auto \in BOOLEAN
        /\ page = None /\ agreed = None
        /\ appointments = 0 /\ received = 0 /\ holds = 0
        /\ task = [w \in Workers |-> Idle]
        /\ crossed = FALSE /\ overtaken = FALSE

Begin(w, t) == task' = [task EXCEPT ![w] = t]
Done(w) == task' = [task EXCEPT ![w] = Idle]
HasTerms(garage) == garage.text # None /\ garage.version # 0
\* What an UPDATE leaves in the row: only what differs from the loaded row is written.
Written(row, loaded, new) == [c \in DOMAIN row |-> IF new[c] = loaded[c] THEN row[c] ELSE new[c]]

-----------------------------------------------------------------------------
\* save_terms, for an owner whose garage is loaded with their session,
OpenSave(w, text) ==
    /\ task[w] = Idle
    /\ Begin(w, [op |-> "save", row |-> terms, text |-> text])
    /\ UNCHANGED <<wording, booking, lapsed, setting, page, agreed, outcome, overtaken>>

\* which gives words that differ from the latest version's the next number.
Numbered(text) == IF bodies # <<>> /\ Last(bodies) = text THEN bodies ELSE Append(bodies, text)

Save(w) ==
    /\ task[w].op = "save"
    /\ LET t == task[w]
           new == IF t.text = None THEN [t.row EXCEPT !.text = None]
                  ELSE [text |-> t.text, version |-> Len(Numbered(t.text))] IN
       /\ IF t.text = None THEN UNCHANGED bodies
          ELSE bodies' = Numbered(t.text) /\ Len(bodies') <= MaxVersions
       /\ terms' = Written(terms, t.row, new)
       /\ crossed' = (crossed \/ t.row # terms)
    /\ Done(w)
    /\ UNCHANGED <<booking, lapsed, setting, page, agreed, outcome, overtaken>>

-----------------------------------------------------------------------------
\* Mutation of State: an accepted link is not told from a waiting one.
StateForgetful(row) == IF lapsed THEN "EXPIRED" ELSE "AWAITING_ACCEPTANCE"

\* acceptance_state.
State(row) == CASE row.version # 0 -> "ACCEPTED"
                [] row.version = 0 /\ (row.status = "EXPIRED" \/ (row.status = "AWAITING_TERMS" /\ lapsed))
                     -> "EXPIRED"
                [] row.version = 0 /\ row.status = "AWAITING_TERMS" /\ ~lapsed -> "AWAITING_ACCEPTANCE"
                [] OTHER -> "CLOSED"

Expires == booking.status \in {"AWAITING_TERMS", "AWAITING_PAYMENT"} /\ lapsed

\* TermsAcceptanceLookup, after the sweep.
OpenPage ==
    /\ ~Expires /\ State(booking) = "AWAITING_ACCEPTANCE"
    /\ page' = IF HasTerms(terms) THEN terms ELSE [text |-> None, version |-> 0]
    /\ UNCHANGED <<wording, booking, lapsed, setting, agreed, outcome, task, overtaken>>

\* TermsAcceptanceAccept: the customer ticks the box of the page they have open. The
\* token finds the request, which is loaded,
Tap(w) ==
    /\ task[w] = Idle /\ page # None
    /\ Begin(w, [op |-> "accept", row |-> booking, terms |-> terms, page |-> page])
    /\ UNCHANGED <<wording, booking, lapsed, setting, page, agreed, outcome, overtaken>>

\* Mutation of Agreed: the version is not compared.
AgreedAlways(garage, shown) == TRUE

\* require_web_acceptance: the version to stamp (0 for none), or no leave at all.
Agreed(garage, shown) == ~HasTerms(garage) \/ shown.version = garage.version
Stamp(garage) == IF HasTerms(garage) THEN garage.version ELSE 0

\* and accept_by_token locks it and decides on what was loaded.
Accept(w) ==
    /\ task[w].op = "accept"
    /\ LET t == task[w]
           state == State(t.row)
           going == state = "AWAITING_ACCEPTANCE" /\ Agreed(t.terms, t.page)
           new == CASE going -> [status |-> IF deposit THEN "AWAITING_PAYMENT" ELSE "PENDING",
                                 version |-> Stamp(t.terms)]
                    [] state = "EXPIRED" -> [t.row EXCEPT !.status = "EXPIRED"]
                    [] OTHER -> t.row IN
       /\ booking' = Written(booking, t.row, new)
       /\ overtaken' = (overtaken \/ (new # t.row /\ t.row # booking))
       /\ IF going
          THEN /\ agreed' = IF HasTerms(t.terms) THEN t.page.text ELSE agreed
               /\ holds' = IF deposit THEN holds + 1 ELSE holds
               /\ received' = IF deposit THEN received ELSE received + 1
               /\ IF deposit THEN Done(w) ELSE Begin(w, [op |-> "accepted"])
          ELSE Done(w) /\ UNCHANGED <<agreed, holds, received>>
    /\ UNCHANGED <<wording, lapsed, setting, page, appointments>>

-----------------------------------------------------------------------------
\* auto_accept_booking_request: the request is read, and when the business takes
\* bookings without review and somebody is free,
Choose(w) ==
    /\ task[w].op = "accepted"
    /\ IF auto /\ booking.status = "PENDING" /\ appointments < Bays
       THEN Begin(w, [op |-> "approve", row |-> booking]) ELSE Done(w)
    /\ UNCHANGED <<wording, booking, lapsed, setting, page, agreed, outcome, overtaken>>

\* approve_booking_request decides on that request once the locks are held.
Approve(w) ==
    /\ task[w].op = "approve"
    /\ IF lapsed
       THEN /\ booking' = [booking EXCEPT !.status = "EXPIRED"]
            /\ overtaken' = (overtaken \/ task[w].row # booking)
            /\ UNCHANGED appointments
       ELSE IF appointments < Bays
       THEN /\ booking' = [booking EXCEPT !.status = "APPROVED"]
            /\ overtaken' = (overtaken \/ task[w].row # booking)
            /\ appointments' = appointments + 1
       ELSE UNCHANGED <<booking, overtaken, appointments>>
    /\ Done(w)
    /\ UNCHANGED <<wording, lapsed, setting, page, agreed, received, holds>>

\* A member of staff reviews the request, loaded under the lock.
Review(verdict) ==
    /\ booking.status = "PENDING" /\ ~lapsed
    /\ verdict = "APPROVED" => appointments < Bays
    /\ booking' = [booking EXCEPT !.status = verdict]
    /\ appointments' = appointments + IF verdict = "APPROVED" THEN 1 ELSE 0
    /\ UNCHANGED <<wording, lapsed, setting, page, agreed, received, holds, task, overtaken>>

\* expire_stale_payment_holds and expire_stale_booking_requests.
Sweep ==
    /\ Expires \/ (booking.status = "PENDING" /\ lapsed)
    /\ booking' = [booking EXCEPT !.status = "EXPIRED"]
    /\ UNCHANGED <<wording, lapsed, setting, page, agreed, outcome, task, overtaken>>

\* The hold runs out, or the time asked for passes.
Lapse ==
    /\ ~lapsed /\ lapsed' = TRUE
    /\ UNCHANGED <<wording, booking, setting, page, agreed, outcome, task, overtaken>>

\* The worker dies before its commit, or between its two transactions.
Die(w) ==
    /\ task[w] # Idle /\ Done(w)
    /\ UNCHANGED <<wording, booking, lapsed, setting, page, agreed, outcome, overtaken>>

Next == \/ OpenPage \/ Sweep \/ Lapse
        \/ \E verdict \in {"APPROVED", "REJECTED"} : Review(verdict)
        \/ \E w \in Workers : \/ \E text \in Text : OpenSave(w, text)
                              \/ Save(w) \/ Tap(w) \/ Accept(w) \/ Choose(w) \/ Approve(w) \/ Die(w)

Spec == Init /\ [][Next]_termsVars

-----------------------------------------------------------------------------
\* The version a booking is stamped with has the very words that its customer's page
\* showed, and the version a business shows has the words it shows - unless two owners
\* saved at once, which may leave one's text under the other's number.
AgreedToWhatWasShown ==
    crossed \/ /\ booking.version # 0 => bodies[booking.version] = agreed
               /\ HasTerms(terms) => bodies[terms.version] = terms.text

\* A link is used once: one message, one deposit, and the appointment of a
\* booking that was approved and of no other - as long as no
\* decision was made on a copy of the request that another had already settled.
LinkIsUsedOnce ==
    overtaken \/ /\ appointments = (IF booking.status = "APPROVED" THEN 1 ELSE 0)
                 /\ received <= 1 /\ holds <= 1
=============================================================================
