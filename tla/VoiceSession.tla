--------------------------- MODULE VoiceSession ---------------------------
(* The assistant on the phone: OpenAI's call event, delivered more than once,
   starts one controller; the controller runs the tools the model calls, and a
   booking made by a tool that is called again must stay one booking. *)
EXTENDS Naturals, FiniteSets

\* ToolCalls: function calls of the model; Appts: appointments in the diary.
CONSTANTS Deliveries, ToolCalls, Services, Slots, Appts, None

VARIABLES hook, accepted, row, running, shop, offered, listed, busy, answers,
          requests, texted, taken, diary

voiceVars == <<hook, accepted, row, running, shop, offered, listed, busy, answers,
               requests, texted, taken, diary>>

Request == [service : Services, slot : Slots,
            status : {"PENDING", "AWAITING_TERMS", "AWAITING_PAYMENT"}]
\* What create_booking asks for, and whether its lookups found an earlier request.
Job == [tool : ToolCalls, service : Services, slot : Slots, found : ToolCalls \union {None}]
\* The tool's output: refused, failed, or the request it names.
Answer == [kind : {"refused", "failed"}] \union
          [kind : {"booked"}, slot : Slots, request : ToolCalls, link : BOOLEAN]
Appointment == [mine : BOOLEAN, status : {"CONFIRMED", "CANCELLED", "COMPLETED"}, slot : Slots]

Init == /\ hook = [d \in Deliveries |-> "new"] /\ accepted = FALSE /\ row = FALSE
        /\ running = 0 /\ offered = {} /\ listed = {} /\ busy = None
        /\ shop \in [terms : BOOLEAN, deposits : SUBSET Services]
        /\ answers = [t \in ToolCalls |-> None] /\ requests = [t \in ToolCalls |-> None]
        /\ texted = {} /\ taken = {}
        /\ diary \in [Appts -> [mine : BOOLEAN, status : {"CONFIRMED"}, slot : Slots]]

-----------------------------------------------------------------------------
\* realtime_webhook: no row of this call yet?
LookUp(d) == /\ hook[d] = "new"
             /\ hook' = [hook EXCEPT ![d] = IF row THEN "duplicate" ELSE "looked"]
             /\ UNCHANGED <<accepted, row, running, shop, offered, listed, busy, answers,
                            requests, texted, taken, diary>>

\* accept_call: OpenAI may refuse a call that is already accepted.
Accept(d, refused) ==
    /\ hook[d] = "looked" /\ (refused => accepted)
    /\ accepted' = TRUE
    /\ hook' = [hook EXCEPT ![d] = IF refused THEN "rejected" ELSE "accepted"]
    /\ UNCHANGED <<row, running, shop, offered, listed, busy, answers, requests, texted,
                   taken, diary>>

\* The row is committed; its unique external_id lets one delivery through.
LogCall(d) == /\ hook[d] = "accepted" /\ row' = TRUE
              /\ hook' = [hook EXCEPT ![d] = IF row THEN "failed" ELSE "logged"]
Log(d) == LogCall(d) /\ UNCHANGED <<accepted, running, shop, offered, listed, busy, answers,
                                    requests, texted, taken, diary>>

\* _spawn_call_controller.
Spawn(d) == /\ hook[d] = "logged"
            /\ hook' = [hook EXCEPT ![d] = "spawned"] /\ running' = running + 1
            /\ UNCHANGED <<accepted, row, shop, offered, listed, busy, answers, requests,
                           texted, taken, diary>>

\* A worker dies: the controller and what it knew go with it.
Crash(d) == /\ hook[d] \in {"looked", "accepted", "logged", "spawned"}
            /\ hook' = [hook EXCEPT ![d] = "dead"]
            /\ running' = IF hook[d] = "spawned" THEN running - 1 ELSE running
            /\ busy' = IF hook[d] = "spawned" THEN None ELSE busy
            /\ UNCHANGED <<accepted, row, shop, offered, listed, answers, requests, texted,
                           taken, diary>>

-----------------------------------------------------------------------------
Booked == {t \in ToolCalls : requests[t] # None}
Free(slot) == /\ slot \notin taken
              /\ \A t \in Booked : requests[t].slot # slot
              /\ \A a \in Appts : diary[a].status = "CANCELLED" \/ diary[a].slot # slot
Idle == running > 0 /\ busy = None

\* get_available_slots, remembered for this call.
CheckSlots(service) ==
    /\ Idle
    /\ offered' = offered \union {<<service, s>> : s \in {x \in Slots : Free(x)}}
    /\ UNCHANGED <<hook, accepted, row, running, shop, listed, busy, answers, requests,
                   texted, taken, diary>>

\* Mutation of ProvedSlot: a time offered for another service is taken for this one.
ProvedTime(service, slot) == \E s \in Services : <<s, slot>> \in offered
\* VoiceToolState.includes_slot.
ProvedSlot(service, slot) == <<service, slot>> \in offered

\* The keys of an earlier request: its voice_tool_call_id, or its voice_call_id,
\* which every request of the model shares.
SameRequest(t, tool) == t = tool \/ t \in Booked

Earlier(tool) == {t \in Booked : SameRequest(t, tool)}
Named(tool) == IF Earlier(tool) = {} THEN None ELSE CHOOSE t \in Earlier(tool) : TRUE

Answered(tool, answer) == answers' = [answers EXCEPT ![tool] = answer]
Says(t, link) == [kind |-> "booked", slot |-> requests'[t].slot, request |-> t, link |-> link]

\* create_booking: a replay changes nothing; a slot that was not offered is refused.
AskBooking(tool, service, slot) ==
    /\ Idle /\ answers[tool] = None
    /\ IF ProvedSlot(service, slot) \/ Earlier(tool) # {}
       THEN /\ busy' = [tool |-> tool, service |-> service, slot |-> slot,
                        found |-> Named(tool)]
            /\ UNCHANGED answers
       ELSE Answered(tool, [kind |-> "refused"]) /\ UNCHANGED busy
    /\ UNCHANGED <<hook, accepted, row, running, shop, offered, listed, requests, texted,
                   taken, diary>>

\* The request the lookups found is named; its link cannot be sent again.
NameEarlier ==
    /\ busy # None /\ busy.found # None
    /\ UNCHANGED <<requests, texted>>
    /\ Answered(busy.tool, Says(busy.found, FALSE))

\* hold_for_acceptance, create_deposit_hold, or a plain request.
HoldStatus(service) == IF shop.terms THEN "AWAITING_TERMS"
                       ELSE IF service \in shop.deposits THEN "AWAITING_PAYMENT" ELSE "PENDING"

\* Under the garage lock: revalidate, insert, text the link. The provider may fail
\* the deposit hold or the text. The unique keys answer an insertion that lost a
\* race, which a second controller would have to run: OneController rules it out.
InsertRequest(fails, sent) ==
    LET status == HoldStatus(busy.service)
        new == [service |-> busy.service, slot |-> busy.slot, status |-> status]
    IN /\ busy # None /\ busy.found = None
       /\ (fails => status = "AWAITING_PAYMENT") /\ (sent => status # "PENDING")
       /\ IF ~Free(busy.slot)
          THEN Answered(busy.tool, [kind |-> "refused"]) /\ UNCHANGED <<requests, texted>>
          ELSE IF fails
          THEN Answered(busy.tool, [kind |-> "failed"]) /\ UNCHANGED <<requests, texted>>
          ELSE IF Earlier(busy.tool) # {}
          THEN UNCHANGED <<requests, texted>> /\ Answered(busy.tool, Says(Named(busy.tool), FALSE))
          ELSE /\ requests' = [requests EXCEPT ![busy.tool] = new]
               /\ texted' = IF sent THEN texted \union {busy.tool} ELSE texted
               /\ Answered(busy.tool, Says(busy.tool, sent))

FinishBooking == /\ running > 0
                 /\ NameEarlier \/ \E fails, sent \in BOOLEAN : InsertRequest(fails, sent)
                 /\ busy' = None
                 /\ UNCHANGED <<hook, accepted, row, running, shop, offered, listed, taken, diary>>

-----------------------------------------------------------------------------
Own(a) == diary[a].mine /\ diary[a].status # "CANCELLED"

\* get_my_appointments.
ListMine == /\ Idle /\ listed' = listed \union {a \in Appts : Own(a)}
            /\ UNCHANGED <<hook, accepted, row, running, shop, offered, busy, answers, requests,
                           texted, taken, diary>>

\* Mutation of MayChange: any appointment may be named.
AnyAppointment(a) == diary[a].status # "CANCELLED"
\* Listed in this call, and still the caller's own.
MayChange(a) == a \in listed /\ Own(a)

\* cancel_appointment: decided on the status read, no lock (the wait is in ChatWorkflow).
CancelByVoice(a) == /\ Idle /\ MayChange(a) /\ diary[a].status = "CONFIRMED"
                    /\ diary' = [diary EXCEPT ![a].status = "CANCELLED"]
                    /\ UNCHANGED <<hook, accepted, row, running, shop, offered, listed, busy,
                                   answers, requests, texted, taken>>

\* reschedule_appointment: a time offered for any service, revalidated for its own.
MoveByVoice(a, slot) ==
    /\ Idle /\ MayChange(a) /\ (\E s \in Services : <<s, slot>> \in offered)
    /\ diary[a].status = "CONFIRMED" /\ (Free(slot) \/ slot = diary[a].slot)
    /\ diary' = [diary EXCEPT ![a].slot = slot]
    /\ UNCHANGED <<hook, accepted, row, running, shop, offered, listed, busy, answers, requests,
                   texted, taken>>

\* Other channels meanwhile: a slot is sold or given back, a visit completed.
Others == /\ \/ \E s \in Slots : Free(s) /\ taken' = taken \union {s} /\ UNCHANGED diary
             \/ \E s \in taken : taken' = taken \ {s} /\ UNCHANGED diary
             \/ \E a \in Appts : /\ diary[a].status = "CONFIRMED"
                                 /\ diary' = [diary EXCEPT ![a].status = "COMPLETED"]
                                 /\ UNCHANGED taken
          /\ UNCHANGED <<hook, accepted, row, running, shop, offered, listed, busy, answers,
                         requests, texted>>

Next == \/ \E d \in Deliveries : \/ LookUp(d) \/ Log(d) \/ Spawn(d) \/ Crash(d)
                                 \/ \E refused \in BOOLEAN : Accept(d, refused)
        \/ \E s \in Services : CheckSlots(s)
        \/ \E t \in ToolCalls, s \in Services, x \in Slots : AskBooking(t, s, x)
        \/ FinishBooking \/ ListMine \/ Others
        \/ \E a \in Appts : CancelByVoice(a) \/ \E x \in Slots : MoveByVoice(a, x)

Spec == Init /\ [][Next]_voiceVars

-----------------------------------------------------------------------------
TypeOK == /\ hook \in [Deliveries -> {"new", "looked", "duplicate", "rejected", "accepted",
                                      "failed", "logged", "spawned", "dead"}]
          /\ accepted \in BOOLEAN /\ row \in BOOLEAN /\ running \in Nat
          /\ shop \in [terms : BOOLEAN, deposits : SUBSET Services]
          /\ offered \subseteq Services \X Slots /\ listed \subseteq Appts
          /\ busy \in Job \union {None} /\ answers \in [ToolCalls -> Answer \union {None}]
          /\ requests \in [ToolCalls -> Request \union {None}] /\ texted \subseteq ToolCalls
          /\ taken \subseteq Slots /\ diary \in [Appts -> Appointment]

\* However often the event is delivered, one controller speaks.
OneController == running <= 1

\* However often the model asks, a call leaves one request, for a slot that was
\* offered for that service in this call; and no answer names another slot or
\* promises a link that was not sent.
OneTrueBooking ==
    /\ Cardinality(Booked) <= 1
    /\ \A t \in Booked : <<requests[t].service, requests[t].slot>> \in offered
    /\ \A t \in ToolCalls : answers[t] # None /\ answers[t].kind = "booked" =>
          /\ answers[t].request \in Booked
          /\ answers[t].slot = requests[answers[t].request].slot
          /\ (answers[t].link => answers[t].request \in texted)

\* One caller, one assistant, one booking.
OneOfEach == OneController /\ OneTrueBooking

\* The assistant changes only what it listed for this caller, and moves it only
\* to a time nobody else holds.
ChangesAreTheCallers ==
    [][\A a \in Appts : diary'[a] # diary[a] /\ diary'[a].status # "COMPLETED" =>
          a \in listed /\ diary[a].mine /\ (diary'[a].slot # diary[a].slot
              => \A b \in Appts \ {a} : diary[b].status # "CANCELLED" => diary[b].slot # diary'[a].slot)]_voiceVars
=============================================================================
