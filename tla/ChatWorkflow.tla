---------------------------- MODULE ChatWorkflow ----------------------------
(* One customer's automated conversation: the question it waits on, the slots
   filled so far and what a message does to them. Texts are abstracted to what
   the parsers find in them; availability is looked up anew in every turn, so
   its outcome is free. Staff edit the customer's appointments meanwhile. *)
EXTENDS Naturals, FiniteSets

CONSTANTS Types, Days, Times, Appts, None, MaxRounds, MaxUnresolved

VARIABLES chat, asked, pending, diary, known, fleet

chatVars == <<chat, asked, pending, diary, known, fleet>>

BookingSteps == {"AWAITING_TYPE", "AWAITING_TYPE_CHOICE", "AWAITING_NAME", "AWAITING_DATE",
                 "AWAITING_TIME", "AWAITING_VEHICLE_CHOICE", "AWAITING_VEHICLE_CONFIRM",
                 "AWAITING_VEHICLE_REG", "AWAITING_BOOKING_CONFIRMATION"}
VehicleSteps == {"AWAITING_VEHICLE_CHOICE", "AWAITING_VEHICLE_CONFIRM", "AWAITING_VEHICLE_REG"}
PostDateSteps == VehicleSteps \union {"AWAITING_TIME", "AWAITING_BOOKING_CONFIRMATION"}
ChoiceSteps == {"AWAITING_CANCEL_CHOICE", "AWAITING_RESCHEDULE_CHOICE"}
OtherSteps == ChoiceSteps \union
              {"AWAITING_CANCEL_CONFIRMATION", "AWAITING_RESCHEDULE_DATE",
               "AWAITING_RESCHEDULE_TIME", "AWAITING_RESCHEDULE_CONFIRMATION",
               "AWAITING_NAME_CORRECTION", "AWAITING_NAME_CORRECTION_CONFIRM",
               "AWAITING_VEHICLE_REG_FOR_MOT", "AWAITING_CALLBACK_REASON"}
Steps == BookingSteps \union OtherSteps \union {"AWAITING_RESUME", None}

Context == [type : Types \union {None}, day : Days \union {None}, time : Times \union {None},
          target : Appts \union {None}, newDay : Days \union {None},
          newTime : Times \union {None}, name : BOOLEAN, resume : Steps,
          rounds : 0..MaxRounds, unresolved : 0..MaxUnresolved]

Empty == [type |-> None, day |-> None, time |-> None, target |-> None, newDay |-> None,
          newTime |-> None, name |-> FALSE, resume |-> None, rounds |-> 0, unresolved |-> 0]

Intents == {"CREATE_BOOKING", "CHECK_AVAILABILITY", "CANCEL_APPOINTMENT", "RESCHEDULE_APPOINTMENT",
            "UPDATE_CUSTOMER_NAME", "CALLBACK_REQUEST", "SPEAK_TO_HUMAN", "MOT_EXPIRY_QUERY",
            "RESET_FLOW", "ABANDON_FLOW", "GO_BACK", "FAQ", "ANSWERED", "UNKNOWN"}

NavIntents == {"RESET_FLOW", "ABANDON_FLOW", "GO_BACK"}
InterruptIntents == {"SPEAK_TO_HUMAN", "CALLBACK_REQUEST", "CANCEL_APPOINTMENT",
                     "RESCHEDULE_APPOINTMENT", "UPDATE_CUSTOMER_NAME"}

\* What the parsers find in a text. pick: it answers a list, a registration or
\* a full name; cue: it is phrased as a correction; other: "another day".
Plain == [intent |-> "UNKNOWN", yes |-> FALSE, no |-> FALSE, day |-> None, time |-> None,
          type |-> None, pick |-> FALSE, cue |-> FALSE, other |-> FALSE]
Texts == {[Plain EXCEPT !.intent = i] : i \in Intents \ {"UNKNOWN"}}
            \union {[Plain EXCEPT !.intent = i, !.type = t, !.day = d] :
                       i \in {"CREATE_BOOKING", "RESCHEDULE_APPOINTMENT"},
                       t \in Types \union {None}, d \in Days \union {None}}
            \union {[Plain EXCEPT !.yes = y, !.no = n] : y, n \in BOOLEAN}
            \union {[Plain EXCEPT !.day = d, !.cue = c] : d \in Days, c \in BOOLEAN}
            \union {[Plain EXCEPT !.type = t, !.cue = c] : t \in Types, c \in BOOLEAN}
            \union {[Plain EXCEPT !.time = t] : t \in Times}
            \union {[Plain EXCEPT !.pick = TRUE], [Plain EXCEPT !.other = TRUE]}

Idle == [status |-> "ACTIVE", step |-> None, intent |-> "UNKNOWN", slots |-> Empty]
Nothing == [kind |-> "nothing"]

Init == /\ chat = Idle /\ asked = Nothing /\ pending = Nothing
        /\ known \in BOOLEAN /\ fleet \in 0..2 /\ (~known => fleet = 0)
        /\ \E d \in Days, t \in Times :
               diary = [a \in Appts |-> [status |-> "BOOKED", day |-> d, time |-> t]]

-----------------------------------------------------------------------------
(* StepResult. what: the thing a confirmation asks about, or the act to do.  *)
Ask(step, slots) == [end |-> "open", step |-> step, slots |-> slots, what |-> Nothing]
Confirm(step, slots, what) == [Ask(step, slots) EXCEPT !.what = what]
Complete == [Ask(None, Empty) EXCEPT !.end = "complete"]
Human == [Ask(None, Empty) EXCEPT !.end = "human"]
Do(what) == [Ask(None, Empty) EXCEPT !.end = "act", !.what = what]
ResetFlow == {Ask(None, Empty)}

Upcoming == {a \in Appts : diary[a].status # "CANCELLED"}
Target(s) == IF known /\ s.target \in Upcoming THEN {s.target} ELSE {}

\* Mutation of OfferTimes: the day the times are for is not put down.
UndatedTimes(day, s) == {Ask("AWAITING_TIME", s), Ask("AWAITING_DATE", s), Human}

\* _offer_times_for_date: times that day, other days, or nothing at all.
OfferTimes(day, s) == {Ask("AWAITING_TIME", [s EXCEPT !.day = day]),
                       Ask("AWAITING_DATE", s), Human}

RestartDate(s) == {Ask("AWAITING_DATE", [s EXCEPT !.day = None, !.time = None])}
ListTypes(s) == {Ask("AWAITING_TYPE", s)}

AfterTypeResolved(type, day, slots) ==
    LET s == [slots EXCEPT !.type = type, !.rounds = 0]
    IN IF ~known THEN {Ask("AWAITING_NAME", IF day = None THEN s ELSE [s EXCEPT !.day = day])}
       ELSE IF day # None THEN OfferTimes(day, s) ELSE {Ask("AWAITING_DATE", s)}

\* Mutation of AskWhichType: the rounds of asking are not bounded.
AskForever(step, s) == {Ask(step, [s EXCEPT !.rounds = @ + 1])}

AskWhichType(step, s) == IF s.rounds >= MaxRounds THEN {Human}
                         ELSE {Ask(step, [s EXCEPT !.rounds = @ + 1])}

StartBooking(s, m) ==
    IF m.type # None THEN AfterTypeResolved(m.type, m.day, s)
    ELSE AskWhichType("AWAITING_TYPE", s) \union {Ask("AWAITING_TYPE_CHOICE", s), Human}

AfterTimeResolved(s) ==
    {Ask(IF ~known \/ fleet = 0 THEN "AWAITING_VEHICLE_REG"
         ELSE IF fleet = 1 THEN "AWAITING_VEHICLE_CONFIRM" ELSE "AWAITING_VEHICLE_CHOICE", s)}

Booking(s) == [kind |-> "book", type |-> s.type, day |-> s.day, time |-> s.time]
ToConfirmation(s) == {Confirm("AWAITING_BOOKING_CONFIRMATION", s, Booking(s))}

StepBack(step, s) ==
    CASE step \in {"AWAITING_NAME", "AWAITING_DATE", "AWAITING_TYPE_CHOICE"} -> ListTypes(s)
      [] step = "AWAITING_TIME" -> RestartDate(s)
      [] step \in VehicleSteps -> IF s.day # None THEN OfferTimes(s.day, [s EXCEPT !.time = None])
                                  ELSE RestartDate(s)
      [] step = "AWAITING_BOOKING_CONFIRMATION" -> AfterTimeResolved(s)
      [] OTHER -> ListTypes(s)

ApplyTypeChange(type, s) ==
    IF s.day # None THEN OfferTimes(s.day, [s EXCEPT !.type = type, !.time = None])
    ELSE {Ask("AWAITING_DATE", [s EXCEPT !.type = type, !.day = None, !.time = None])}

\* _maybe_correct; the empty set when the text answers the question. The step
\* is the session's, also when a paused question is being answered.
MaybeCorrect(step, s, m) ==
    IF s.type # None /\ m.type \notin {None, s.type} /\ m.cue THEN ApplyTypeChange(m.type, s)
    ELSE IF step \in PostDateSteps /\ m.day # None THEN OfferTimes(m.day, [s EXCEPT !.time = None])
    ELSE IF step \in PostDateSteps /\ m.other THEN RestartDate(s)
    ELSE {}

-----------------------------------------------------------------------------
(* The answer to each question.                                              *)
AnswerType(s, m) ==
    IF m.type # None THEN AfterTypeResolved(m.type, None, s)
    ELSE AskWhichType("AWAITING_TYPE_CHOICE", s)

AnswerName(s, m) == IF ~m.pick THEN {Ask("AWAITING_NAME", s)}
                    ELSE IF s.day # None THEN OfferTimes(s.day, [s EXCEPT !.day = None])
                    ELSE {Ask("AWAITING_DATE", s)}

AnswerDate(s, m) == {Ask("AWAITING_DATE", s)}
                    \union (IF m.day = None THEN {} ELSE OfferTimes(m.day, s))

AnswerTime(s, m) == OfferTimes(s.day, s) \union
                    (IF m.time = None THEN {Ask("AWAITING_TIME", s)}
                     ELSE AfterTimeResolved([s EXCEPT !.time = m.time]))

AnswerVehicle(step, s, m) ==
    CASE step = "AWAITING_VEHICLE_CONFIRM" ->
             IF m.yes THEN ToConfirmation(s)
             ELSE {Ask(IF m.no THEN "AWAITING_VEHICLE_REG" ELSE step, s)}
      [] OTHER -> IF step = "AWAITING_VEHICLE_CHOICE" /\ ~known THEN {Human}
                  ELSE IF m.pick THEN ToConfirmation(s) ELSE {Ask(step, s)}

AnswerBooking(s, m) == IF m.yes THEN {Do(Booking(s))} \union OfferTimes(s.day, s)
                       ELSE IF m.no THEN {Complete}
                       ELSE {Confirm("AWAITING_BOOKING_CONFIRMATION", s, Booking(s))}

CancelQuestion(a, s) == Confirm("AWAITING_CANCEL_CONFIRMATION", [s EXCEPT !.target = a],
                                [kind |-> "cancel", target |-> a])
Move(s) == [kind |-> "move", target |-> s.target, day |-> s.newDay, time |-> s.newTime]

OfferReschedule(a, day, s) == {Ask("AWAITING_RESCHEDULE_DATE", [s EXCEPT !.target = a]),
                               Ask("AWAITING_RESCHEDULE_TIME", [s EXCEPT !.target = a, !.newDay = day])}

StartCancel(s) == IF ~known THEN {Human} ELSE IF Upcoming = {} THEN {Complete}
                  ELSE IF Cardinality(Upcoming) = 1 THEN {CancelQuestion(a, s) : a \in Upcoming}
                  ELSE {Ask("AWAITING_CANCEL_CHOICE", s)}

StartReschedule(s, m) ==
    IF ~known THEN {Human} ELSE IF Upcoming = {} THEN {Complete}
    ELSE IF Cardinality(Upcoming) > 1 THEN {Ask("AWAITING_RESCHEDULE_CHOICE", s)}
    ELSE UNION {IF m.day # None THEN OfferReschedule(a, m.day, s)
                ELSE {Ask("AWAITING_RESCHEDULE_DATE", [s EXCEPT !.target = a])} : a \in Upcoming}

AnswerChoice(step, s, m) ==
    IF ~known THEN {Human}
    ELSE {Ask(step, s)} \union
         (IF ~m.pick THEN {}
          ELSE IF step = "AWAITING_CANCEL_CHOICE" THEN {CancelQuestion(a, s) : a \in Upcoming}
          ELSE {Ask("AWAITING_RESCHEDULE_DATE", [s EXCEPT !.target = a]) : a \in Upcoming})

\* cancel_appointment refuses what is over; so does reschedule_appointment.
AnswerCancel(s, m) ==
    IF ~m.yes THEN {Complete}
    ELSE IF Target(s) = {} \/ diary[s.target].status = "COMPLETED" THEN {Human}
    ELSE {Do([kind |-> "cancel", target |-> s.target])}

AnswerReschedule(step, s, m) ==
    IF step = "AWAITING_RESCHEDULE_CONFIRMATION" /\ ~m.yes THEN {Complete}
    ELSE IF Target(s) = {} THEN {Human}
    ELSE CASE step = "AWAITING_RESCHEDULE_DATE" ->
                  IF m.day = None THEN {Ask(step, s)} ELSE OfferReschedule(s.target, m.day, s)
           [] step = "AWAITING_RESCHEDULE_TIME" ->
                  IF m.time = None THEN {Ask(step, s)}
                  ELSE LET t == [s EXCEPT !.newTime = m.time]
                       IN {Confirm("AWAITING_RESCHEDULE_CONFIRMATION", t, Move(t))}
           [] OTHER -> {Human} \union (IF diary[s.target].status = "COMPLETED" THEN {}
                                       ELSE {Do(Move(s))})

\* The question about a name offers the one just extracted from the text.
StartUpdateName(s, m) ==
    IF ~known THEN {Human}
    ELSE IF m.pick THEN {Confirm("AWAITING_NAME_CORRECTION_CONFIRM", [s EXCEPT !.name = TRUE],
                                 [kind |-> "rename"])}
    ELSE {Ask("AWAITING_NAME_CORRECTION", s)}

AnswerNameChange(s, m) ==
    IF ~s.name THEN StartUpdateName(s, Plain) ELSE IF ~known THEN {Human}
    ELSE IF m.no THEN {Complete}
    ELSE IF m.yes THEN {Do([kind |-> "rename"])}
    ELSE {Confirm("AWAITING_NAME_CORRECTION_CONFIRM", s, [kind |-> "rename"])}

StartMotQuery(s) == IF known /\ fleet = 1 THEN {Complete}
                    ELSE {Ask("AWAITING_VEHICLE_REG_FOR_MOT", s)}
AnswerMot(s, m) == IF known THEN {Complete, Human, Ask("AWAITING_VEHICLE_REG_FOR_MOT", s)}
                   ELSE {Human}

-----------------------------------------------------------------------------
(* The engine: navigation, interruptions, asides, then the step's handler.   *)
StepHandler(step, s, m) ==
    LET correction == IF step \in BookingSteps \ {"AWAITING_TYPE"}
                      THEN MaybeCorrect(chat.step, s, m) ELSE {}
    IN IF correction # {} THEN correction
       ELSE CASE step = "AWAITING_TYPE" -> StartBooking(s, m)
              [] step = "AWAITING_TYPE_CHOICE" -> AnswerType(s, m)
              [] step = "AWAITING_NAME" -> AnswerName(s, m)
              [] step = "AWAITING_DATE" -> AnswerDate(s, m)
              [] step = "AWAITING_TIME" -> AnswerTime(s, m)
              [] step \in VehicleSteps -> AnswerVehicle(step, s, m)
              [] step = "AWAITING_BOOKING_CONFIRMATION" -> AnswerBooking(s, m)
              [] step \in ChoiceSteps -> AnswerChoice(step, s, m)
              [] step = "AWAITING_CANCEL_CONFIRMATION" -> AnswerCancel(s, m)
              [] step = "AWAITING_NAME_CORRECTION" -> StartUpdateName(s, m)
              [] step = "AWAITING_NAME_CORRECTION_CONFIRM" -> AnswerNameChange(s, m)
              [] step = "AWAITING_VEHICLE_REG_FOR_MOT" -> AnswerMot(s, m)
              [] step = "AWAITING_CALLBACK_REASON" -> {Complete}
              [] OTHER -> AnswerReschedule(step, s, m)

\* _reprompt_step: what cannot be re-entered starts afresh.
Reprompt(step, s) ==
    CASE step \in {"AWAITING_TYPE", "AWAITING_TYPE_CHOICE"} -> ListTypes(s)
      [] step \in {"AWAITING_NAME", "AWAITING_DATE", "AWAITING_VEHICLE_REG"} -> {Ask(step, s)}
      [] step = "AWAITING_TIME" /\ s.day # None -> OfferTimes(s.day, s)
      [] step \in VehicleSteps \ {"AWAITING_VEHICLE_REG"} /\ s.time # None -> AfterTimeResolved(s)
      [] step = "AWAITING_BOOKING_CONFIRMATION" /\ s.time # None -> ToConfirmation(s)
      [] step \in {"AWAITING_RESCHEDULE_DATE", "AWAITING_RESCHEDULE_TIME"} ->
             {Ask("AWAITING_RESCHEDULE_DATE", s)}
      [] OTHER -> ResetFlow

\* Mutation of AnswerResume: carrying on answers the held question as well.
EagerResume(s, m) == IF m.no THEN {Complete} ELSE IF s.resume = None THEN {Ask(None, s)}
                     ELSE StepHandler(s.resume, s, m)

AnswerResume(s, m) == IF m.no THEN {Complete} ELSE IF s.resume = None THEN {Ask(None, s)}
                      ELSE IF m.yes THEN Reprompt(s.resume, s)
                      ELSE StepHandler(s.resume, s, m)

GoBack(s) == IF chat.intent = "CREATE_BOOKING" /\ chat.step \in BookingSteps
             THEN StepBack(chat.step, s)
             ELSE IF chat.step = "AWAITING_RESUME" THEN Reprompt(s.resume, s) ELSE ResetFlow

\* _answer_aside: answer, and hold the flow; a second aside keeps what is held.
Aside(s) == {Ask("AWAITING_RESUME",
                 IF chat.step = "AWAITING_RESUME" THEN s ELSE [s EXCEPT !.resume = chat.step])}

Unresolved(s) == IF s.unresolved + 1 >= MaxUnresolved THEN {Human}
                 ELSE {Ask(None, [s EXCEPT !.unresolved = @ + 1])}

StartIntent(s, m) ==
    CASE m.intent \in {"CREATE_BOOKING", "CHECK_AVAILABILITY"} -> StartBooking(s, m)
      [] m.intent = "CANCEL_APPOINTMENT" -> StartCancel(s)
      [] m.intent = "RESCHEDULE_APPOINTMENT" -> StartReschedule(s, m)
      [] m.intent = "UPDATE_CUSTOMER_NAME" -> StartUpdateName(s, m)
      [] m.intent = "CALLBACK_REQUEST" -> {Ask("AWAITING_CALLBACK_REASON", s)}
      [] m.intent = "SPEAK_TO_HUMAN" -> {Human}
      [] m.intent = "MOT_EXPIRY_QUERY" -> StartMotQuery(s)
      [] m.intent \in NavIntents -> ResetFlow
      [] m.intent \in {"FAQ", "ANSWERED"} -> {Complete, Human}
      [] OTHER -> Unresolved(s)

Replies(m) ==
    LET s == chat.slots IN
    IF chat.step = None THEN StartIntent(s, m)
    ELSE CASE m.intent = "RESET_FLOW" -> ResetFlow
           [] m.intent = "ABANDON_FLOW" -> {Complete}
           [] m.intent = "GO_BACK" -> GoBack(s)
           [] m.intent \in InterruptIntents -> StartIntent(s, m)
           [] m.intent = "FAQ" -> Aside(s)
           [] chat.step = "AWAITING_RESUME" -> AnswerResume(s, m)
           [] OTHER -> StepHandler(chat.step, s, m)

IntentAfter(m) == IF chat.step = None \/ m.intent \in InterruptIntents \union {"RESET_FLOW"}
                  THEN m.intent ELSE chat.intent

-----------------------------------------------------------------------------
\* One message: handle_message up to the act it leads to. A session that ends
\* is followed by a fresh one.
Turn(m) ==
    /\ chat.status = "ACTIVE" /\ pending = Nothing
    /\ \E r \in Replies(m) :
           /\ asked' = IF r.end = "open" THEN r.what ELSE Nothing
           /\ pending' = IF r.end = "act" THEN r.what ELSE Nothing
           /\ chat' = CASE r.end = "open" -> [chat EXCEPT !.step = r.step, !.slots = r.slots,
                                                           !.intent = IntentAfter(m)]
                        [] r.end = "complete" -> Idle
                        [] r.end = "human" -> [Idle EXCEPT !.status = "HUMAN_HANDOFF"]
                        [] OTHER -> chat
    /\ UNCHANGED <<diary, known, fleet>>

\* The write of a cancellation or a move rests on the row the turn has loaded.
CommitAct ==
    /\ pending # Nothing
    /\ diary' = CASE pending.kind = "cancel" -> [diary EXCEPT ![pending.target].status = "CANCELLED"]
                  [] pending.kind = "move" -> [diary EXCEPT ![pending.target].day = pending.day,
                                                            ![pending.target].time = pending.time]
                  [] OTHER -> diary
    /\ pending' = Nothing /\ chat' = Idle
    /\ UNCHANGED <<asked, known, fleet>>

\* Staff take the thread over, or hand it back: a clean start either way.
TakeOver == /\ chat.status = "ACTIVE" /\ pending = Nothing
            /\ chat' = [Idle EXCEPT !.status = "HUMAN_HANDOFF"] /\ asked' = Nothing
            /\ UNCHANGED <<pending, diary, known, fleet>>
ResumeAutomation == /\ chat.status = "HUMAN_HANDOFF" /\ chat' = Idle
                    /\ UNCHANGED <<asked, pending, diary, known, fleet>>

\* The session times out: the next message starts a fresh one.
Expire == /\ chat.status = "ACTIVE" /\ pending = Nothing /\ chat' = Idle /\ asked' = Nothing
          /\ UNCHANGED <<pending, diary, known, fleet>>

\* Staff edit an appointment, or put the number on a customer's record.
StaffEdit(a, status) ==
    /\ <<diary[a].status, status>> \in {<<"BOOKED", "COMPLETED">>, <<"BOOKED", "CANCELLED">>,
                                        <<"CANCELLED", "BOOKED">>}
    /\ diary' = [diary EXCEPT ![a].status = status]
    /\ UNCHANGED <<chat, asked, pending, known, fleet>>
RecordCustomer == ~known /\ known' = TRUE /\ UNCHANGED <<chat, asked, pending, diary, fleet>>

Next == \/ \E m \in Texts : Turn(m)
        \/ CommitAct \/ TakeOver \/ ResumeAutomation \/ Expire \/ RecordCustomer
        \/ \E a \in Appts, status \in {"BOOKED", "CANCELLED", "COMPLETED"} : StaffEdit(a, status)

Spec == Init /\ [][Next]_chatVars

-----------------------------------------------------------------------------
\* Sessions, appointments and what a confirmation is about keep their shape.
Acts == [kind : {"nothing", "rename"}] \union [kind : {"cancel"}, target : Appts]
        \union [kind : {"book"}, type : Types, day : Days, time : Times]
        \union [kind : {"move"}, target : Appts, day : Days, time : Times]
TypeOK == /\ chat \in [status : {"ACTIVE", "HUMAN_HANDOFF"}, step : Steps, intent : Intents,
                       slots : Context]
          /\ asked \in Acts /\ pending \in Acts /\ known \in BOOLEAN /\ fleet \in 0..2
          /\ diary \in [Appts -> [status : {"BOOKED", "CANCELLED", "COMPLETED"}, day : Days,
                                 time : Times]]

\* What the handler of the awaited (or paused) question reads from the context
\* was put there, however the customer went back, changed their mind or asked
\* about something else: no turn ever ends in a missing date or time.
StepHasItsSlots ==
    LET s == chat.slots
        step == IF chat.step = "AWAITING_RESUME" THEN s.resume ELSE chat.step
    IN /\ s.resume # "AWAITING_RESUME"
       /\ (step \in PostDateSteps => s.day # None)
       /\ (step \in PostDateSteps \ {"AWAITING_TIME"} => s.type # None /\ s.time # None)
       /\ (step = "AWAITING_RESCHEDULE_TIME" => s.newDay # None)
       /\ (step = "AWAITING_RESCHEDULE_CONFIRMATION" => s.newDay # None /\ s.newTime # None)

\* The customer's yes does exactly what the last reply asked about: the same
\* service, day and time, the same appointment, the same move.
ActsAsAsked == [][pending' # pending /\ pending' # Nothing => pending' = asked]_chatVars
=============================================================================
