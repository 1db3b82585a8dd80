--------------------------- MODULE Notifications ---------------------------
(* What reaches one customer: the emails that events raise, each logged after
   the provider took it and skipped if the log holds it already; the text that
   calls a walk-in forward; delivery reports; and inbound messages that the
   provider delivers again. Handlers run in several workers. *)
EXTENDS Naturals, Sequences, Functions, FiniteSets

\* Codes: loyalty rewards of the customer. MaxEvents bounds what raises a mail or
\* asks for one, MaxAccidents the crashes and lost answers.
CONSTANTS Workers, Codes, Copies, None, MaxEvents, MaxAccidents

VARIABLES task, rows, inbox, skipped, raised, accidents, asked, textSent, reports, inbound

noteVars == <<task, rows, inbox, skipped, raised, accidents, asked, textSent, reports, inbound>>

\* about: the one request, the one appointment, the ticket, or a code.
Mails == [trigger : {"received", "confirmed", "changed", "completed", "called"}, about : {None}]
         \union [trigger : {"reward"}, about : Codes]
Task == [mail : Mails, stage : {"check", "send", "log"}, status : {"", "SENT", "FAILED"},
         force : BOOLEAN, retry : Nat]
Row == [mail : Mails, status : {"SENT", "FAILED", "delivered"}, retry : Nat]

Zero == [m \in Mails |-> 0]
Init == /\ task = [w \in Workers |-> None] /\ rows = <<>> /\ inbox = Zero
        /\ skipped = {} /\ raised = Zero /\ accidents = Zero /\ asked = Zero /\ textSent = FALSE
        /\ reports = {}
        /\ inbound = [copy |-> [c \in Copies |-> "new"], rows |-> 0]

Text(m) == m.trigger = "called"
Total == FoldFunction(+, 0, raised) + FoldFunction(+, 0, asked)
Start(w, m, force, retry) ==
    task' = [task EXCEPT ![w] = [mail |-> m, stage |-> IF retry > 0 THEN "send" ELSE "check",
                                 status |-> "", force |-> force, retry |-> retry]]

\* emit_event: a request is received and approved once, a completion may be
\* taken back and repeated, an appointment moved and a walk-in called again.
Emit(w, m) ==
    /\ task[w] = None
    /\ Total < MaxEvents
    /\ (m.trigger \notin {"changed", "completed", "called"} => raised[m] = 0)
    /\ raised' = [raised EXCEPT ![m] = @ + 1]
    /\ Start(w, m, FALSE, 0)
    /\ UNCHANGED <<rows, inbox, skipped, accidents, asked, textSent, reports, inbound>>

\* The owner's Resend of a reward; Platform Admin's resend of a failed row.
ResendReward(w, m) ==
    /\ task[w] = None /\ m.trigger = "reward" /\ raised[m] = 1 /\ Total < MaxEvents
    /\ Start(w, m, TRUE, 0) /\ asked' = [asked EXCEPT ![m] = @ + 1]
    /\ UNCHANGED <<rows, inbox, skipped, raised, accidents, textSent, reports, inbound>>
ResendFailed(w, i) ==
    /\ task[w] = None /\ rows[i].status = "FAILED" /\ ~Text(rows[i].mail)
    /\ Total < MaxEvents
    /\ Start(w, rows[i].mail, FALSE, i) /\ asked' = [asked EXCEPT ![rows[i].mail] = @ + 1]
    /\ UNCHANGED <<rows, inbox, skipped, raised, accidents, textSent, reports, inbound>>

\* Mutation of AlreadySent: called_sms_sent_at is not looked at.
Logged(m) == \E i \in DOMAIN rows : /\ rows[i].status = "SENT" /\ ~Text(m)
                                    /\ rows[i].mail.trigger = m.trigger
\* called_sms_sent_at, or _already_sent: a reward is looked up by its customer.
AlreadySent(m) == \/ Text(m) /\ textSent
                  \/ \E i \in DOMAIN rows : /\ rows[i].status = "SENT"
                                            /\ rows[i].mail.trigger = m.trigger /\ ~Text(m)

\* An accident is possible when another worker is sending the same mail.
Overlaps(w, m) == \E v \in Workers \ {w} : task[v] # None /\ task[v].mail = m
CheckSent(w) ==
    /\ task[w] # None /\ task[w].stage = "check"
    /\ LET m == task[w].mail
       IN IF AlreadySent(m) /\ ~task[w].force
          THEN /\ task' = [task EXCEPT ![w] = None] /\ skipped' = skipped \union {m}
               /\ UNCHANGED accidents
          ELSE /\ task' = [task EXCEPT ![w].stage = "send"] /\ UNCHANGED skipped
               /\ accidents' = IF Overlaps(w, m) THEN [accidents EXCEPT ![m] = @ + 1] ELSE accidents
    /\ UNCHANGED <<rows, inbox, raised, asked, textSent, reports, inbound>>

\* The provider takes it, refuses it, or takes it without our hearing so.
Send(w, taken, heard) ==
    /\ task[w] # None /\ task[w].stage = "send" /\ (~taken => ~heard)
    /\ LET m == task[w].mail
           lost == taken /\ ~heard
       IN /\ (lost => FoldFunction(+, 0, accidents) < MaxAccidents)
          /\ accidents' = IF lost THEN [accidents EXCEPT ![m] = @ + 1] ELSE accidents
          /\ inbox' = IF taken THEN [inbox EXCEPT ![m] = @ + 1] ELSE inbox
          /\ task' = [task EXCEPT ![w].stage = "log", ![w].status = IF heard THEN "SENT" ELSE "FAILED"]
    /\ UNCHANGED <<rows, skipped, raised, asked, textSent, reports, inbound>>

\* The row is written; a text is marked sent whatever came of it.
LogSend(w) ==
    /\ task[w] # None /\ task[w].stage = "log"
    /\ rows' = Append(rows, [mail |-> task[w].mail, status |-> task[w].status, retry |-> task[w].retry])
    /\ textSent' = (textSent \/ Text(task[w].mail))
    /\ task' = [task EXCEPT ![w] = None]
    /\ UNCHANGED <<inbox, skipped, raised, accidents, asked, reports, inbound>>

\* A worker dies before it has logged.
Crash(w) ==
    /\ task[w] # None /\ FoldFunction(+, 0, accidents) < MaxAccidents
    /\ accidents' = [accidents EXCEPT ![task[w].mail] = @ + 1]
    /\ task' = [task EXCEPT ![w] = None]
    /\ UNCHANGED <<rows, inbox, skipped, raised, asked, textSent, reports, inbound>>

\* update_communication_status: the row of that sid, if it is there yet.
Report == /\ \E i \in DOMAIN rows : /\ Text(rows[i].mail) /\ rows[i].status = "SENT" /\ i \notin reports
                                    /\ rows' = [rows EXCEPT ![i].status = "delivered"]
                                    /\ reports' = reports \union {i}
          /\ UNCHANGED <<task, inbox, skipped, raised, accidents, asked, textSent, inbound>>

-----------------------------------------------------------------------------
\* record_inbound_communication: a lost race returns the row that won.
InsertInbound(c) == [copy |-> [inbound.copy EXCEPT ![c] = "done"],
                     rows |-> IF inbound.rows = 0 THEN 1 ELSE inbound.rows]

LookInbound(c) == inbound' = [inbound EXCEPT !.copy[c] = IF inbound.rows > 0 THEN "done" ELSE "looked"]
Inbound(c) == /\ \/ inbound.copy[c] = "new" /\ LookInbound(c)
                 \/ inbound.copy[c] = "looked" /\ inbound' = InsertInbound(c)
              /\ UNCHANGED <<task, rows, inbox, skipped, raised, accidents, asked, textSent, reports>>

Next == \/ \E w \in Workers : \/ \E m \in Mails : Emit(w, m) \/ ResendReward(w, m)
                              \/ \E i \in DOMAIN rows : ResendFailed(w, i)
                              \/ CheckSent(w) \/ LogSend(w) \/ Crash(w)
                              \/ \E taken, heard \in BOOLEAN : Send(w, taken, heard)
        \/ Report \/ \E c \in Copies : Inbound(c)

Spec == Init /\ [][Next]_noteVars

-----------------------------------------------------------------------------
TypeOK == /\ task \in [Workers -> Task \union {None}] /\ rows \in Seq(Row)
          /\ inbox \in [Mails -> Nat] /\ skipped \subseteq Mails
          /\ raised \in [Mails -> Nat] /\ accidents \in [Mails -> Nat] /\ asked \in [Mails -> Nat]
          /\ textSent \in BOOLEAN /\ reports \subseteq DOMAIN rows
          /\ inbound \in [copy : [Copies -> {"new", "looked", "done"}], rows : Nat]

\* The same mail comes twice only by a crash, a lost answer, two workers at once
\* or a person who asked for it; an inbound message is kept once.
NothingComesTwice == /\ \A m \in Mails : inbox[m] <= 1 + accidents[m] + asked[m]
                     /\ inbound.rows <= 1
                     /\ (\E c \in Copies : inbound.copy[c] = "done") => inbound.rows = 1

\* A mail is skipped only if that customer has it: one email per issued code.
EveryRewardIsSent == \A m \in skipped : m.trigger = "reward" => inbox[m] > 0
=============================================================================
