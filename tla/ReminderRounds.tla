--------------------------- MODULE ReminderRounds ---------------------------
(* Automatic reminders of one subject: an appointment, or the MOT of a vehicle.
   A round is one run of the batch. It sends each reminder that is due and not
   recorded, and commits its records at the end; a text also writes its own log
   entry, which commits the records before it. Rounds take no lock, so two of
   them may overlap. A record answers for the due instant that its stage had
   when it was sent, so a subject that moves gets a fresh reminder. *)
EXTENDS Naturals, FiniteSets

\* Horizon bounds the clock, MaxAccidents what goes wrong.
CONSTANTS Rounds, Dates, Leads, Horizon, MaxAccidents

VARIABLES subject, now, round, records, sends, accidents

reminderVars == <<subject, now, round, records, sends, accidents>>

\* live: BOOKED and not imported, or an MOT for which no test is booked.
\* text: its channel is SMS or WhatsApp, which logs every send, and not e-mail.
Subject == [date : Dates, live : BOOLEAN, text : BOOLEAN]
Due == Dates \X Leads

\* sent: what the round has sent and not recorded yet.
Idle == [phase |-> "idle", todo |-> {}, sent |-> {}]
Round == [phase : {"idle", "sending"}, todo : SUBSET Due, sent : SUBSET Due]

Init == /\ subject \in [date : Dates, live : {TRUE}, text : BOOLEAN]
        /\ now = 0 /\ records = {} /\ accidents = 0
        /\ round = [r \in Rounds |-> Idle]
        /\ sends = [d \in Due |-> 0]

DueNow == {<<subject.date, lead>> : lead \in {l \in Leads : subject.date <= now + l}}
Running == {r \in Rounds : round[r].phase = "sending"}

-----------------------------------------------------------------------------
\* send_due_appointment_reminders, send_due_automatic_reminders: the candidates.
StartRound(r) ==
    /\ round[r].phase = "idle" /\ subject.live /\ subject.date > now /\ DueNow # {}
    /\ round' = [round EXCEPT ![r] = [phase |-> "sending", todo |-> DueNow, sent |-> {}]]
    /\ accidents' = accidents + Cardinality(Running)
    /\ UNCHANGED <<subject, now, records, sends>>

\* _already_sent, asked just before the send.
Skip(r, d) ==
    /\ d \in round[r].todo /\ d \in records
    /\ round' = [round EXCEPT ![r].todo = @ \ {d}]
    /\ UNCHANGED <<subject, now, records, sends, accidents>>

\* record_and_send: it goes out, or a text fails and is recorded as FAILED.
Send(r, d, ok) ==
    /\ d \in round[r].todo \ records
    /\ ok \/ subject.text
    /\ records' = IF subject.text THEN records \union round[r].sent ELSE records
    /\ round' = [round EXCEPT ![r].todo = @ \ {d},
                              ![r].sent = (IF subject.text THEN {} ELSE @) \union (IF ok THEN {d} ELSE {})]
    /\ sends' = [sends EXCEPT ![d] = @ + (IF ok THEN 1 ELSE 0)]
    /\ UNCHANGED <<subject, now, accidents>>

\* Mutation of CommitRound: what was skipped is committed, what was sent is not.
ForgetfulCommit(r) ==
    /\ round[r].phase = "sending" /\ round[r].todo = {}
    /\ round' = [round EXCEPT ![r] = Idle]
    /\ UNCHANGED <<subject, now, records, sends, accidents>>

CommitRound(r) ==
    /\ round[r].phase = "sending" /\ round[r].todo = {}
    /\ records' = records \union round[r].sent
    /\ round' = [round EXCEPT ![r] = Idle]
    /\ UNCHANGED <<subject, now, sends, accidents>>

\* The worker dies, or an e-mail raises: what is not committed is forgotten.
AbortRound(r) ==
    /\ round[r].phase = "sending"
    /\ round' = [round EXCEPT ![r] = Idle]
    /\ accidents' = accidents + (IF round[r].sent = {} THEN 0 ELSE 1)
    /\ UNCHANGED <<subject, now, records, sends>>

\* The appointment is moved, cancelled or booked again; the MOT is renewed.
Change(date, live) ==
    /\ subject' = [subject EXCEPT !.date = date, !.live = live] /\ subject' # subject
    /\ UNCHANGED <<now, round, records, sends, accidents>>

Tick == now < Horizon /\ now' = now + 1 /\ UNCHANGED <<subject, round, records, sends, accidents>>

Next == \/ Tick
        \/ accidents < MaxAccidents /\ \E r \in Rounds : StartRound(r) \/ AbortRound(r)
        \/ \E r \in Rounds : \/ CommitRound(r)
                             \/ \E d \in Due : Skip(r, d) \/ \E ok \in BOOLEAN : Send(r, d, ok)
        \/ \E date \in Dates, live \in BOOLEAN : Change(date, live)

Spec == Init /\ [][Next]_reminderVars

-----------------------------------------------------------------------------
TypeOK == /\ subject \in Subject /\ now \in 0..Horizon /\ records \subseteq Due
          /\ round \in [Rounds -> Round]
          /\ sends \in [Due -> Nat] /\ accidents \in Nat

\* A customer is reminded again of the same instant only after an accident: a
\* round that lost sends it had made, or two rounds at once. A reschedule away
\* and back, a failed text or a round that finds nothing to do repeats nothing.
RepeatsNeedAccidents == \A d \in Due : sends[d] <= 1 + accidents
=============================================================================
