----------------------------- MODULE StaffInbox -----------------------------
(* A business's WhatsApp thread with one customer, as its staff see it. There is no table
   of conversations: the inbox is worked out from the log of messages and one row that
   says when the thread was archived and when it was deleted. Messages are stamped before
   they are committed, staff load that row before they write it, and the provider reports
   on a message as soon as it has accepted it. *)
EXTENDS Naturals, FiniteSets

CONSTANTS Messages, Workers, MaxTime, None

\* clock: time, which orders the stamps. log: CommunicationLog, by message. row:
\* WhatsAppConversationState, 0 for a time that is not set. reports: status callbacks under
\* way. For the properties: thread and archived, what staff have asked for;
\* crossed: a request of theirs overlapped another or a message; spoilt: messages reported
\* on before they were logged, or in the wrong order.
VARIABLES clock, log, row, task, reports, thread, archived, crossed, spoilt

inboxVars == <<clock, log, row, task, reports, thread, archived, crossed, spoilt>>
wanted == <<thread, archived, crossed>>

Time == 1..MaxTime
Status == {"received", "FAILED", "queued", "sent", "delivered"}
Message == [at : Time, status : Status]
Row == [archived_at : {0} \union Time, deleted_at : {0} \union Time]
NoRow == [archived_at |-> 0, deleted_at |-> 0]
\* What a request of the server is doing: at is 0 until it has taken the time.
Task == [op : {"send"}, id : Messages, status : {"queued", "FAILED"}]
        \union [op : {"write"}, id : Messages, at : Time, status : {"received", "queued", "FAILED"}]
        \union [op : {"archive", "restore", "delete"}, row : Row \union {None}, at : {0} \union Time]

Init == /\ clock = 0 /\ log = [m \in Messages |-> None] /\ row = None
        /\ task = [w \in Workers |-> None] /\ reports = {}
        /\ thread = {} /\ archived = FALSE /\ crossed = FALSE /\ spoilt = {}

Tick == clock < MaxTime /\ clock' = clock + 1
Begin(w, t) == task[w] = None /\ task' = [task EXCEPT ![w] = t]
Done(w) == task' = [task EXCEPT ![w] = None]
Underway(m) == \E w \in Workers : task[w] # None /\ task[w].op \in {"send", "write"} /\ task[w].id = m
New(m) == log[m] = None /\ ~Underway(m) /\ \A r \in reports : r[1] # m

-----------------------------------------------------------------------------
\* incoming_whatsapp, or the engine that logs for it: the row gets its time,
Receive(w, m) ==
    /\ New(m) /\ Tick
    /\ Begin(w, [op |-> "write", id |-> m, at |-> clock', status |-> "received"])
    /\ UNCHANGED <<log, row, reports, wanted, spoilt>>

\* send_whatsapp_message: the provider takes the message, and will report on it, or does not.
Send(w, m, taken) ==
    /\ New(m) /\ m \notin spoilt
    /\ Begin(w, [op |-> "send", id |-> m, status |-> IF taken THEN "queued" ELSE "FAILED"])
    /\ reports' = IF taken THEN reports \union {<<m, "sent">>, <<m, "delivered">>} ELSE reports
    /\ UNCHANGED <<clock, log, row, wanted, spoilt>>
Stamp(w) ==
    /\ task[w] # None /\ task[w].op = "send" /\ Tick
    /\ task' = [task EXCEPT ![w] = [op |-> "write", id |-> @.id, at |-> clock', status |-> @.status]]
    /\ UNCHANGED <<log, row, reports, wanted, spoilt>>

\* _create_log: and is committed.
Write(w) ==
    /\ task[w] # None /\ task[w].op = "write"
    /\ LET t == task[w] IN
       /\ log' = [log EXCEPT ![t.id] = [at |-> t.at, status |-> t.status]]
       /\ thread' = thread \union {t.id}
       /\ crossed' = (crossed \/ (row # None /\ t.at <= row.deleted_at))
    /\ Done(w)
    /\ UNCHANGED <<clock, row, reports, archived, spoilt>>

\* Mutation of Overwrites: a report changes a message that waits for its first one.
OverwritesQueued(old, new) == old = "queued"

\* update_communication_status takes whatever is reported last.
Overwrites(old, new) == TRUE

Report(m, status) ==
    /\ <<m, status>> \in reports
    /\ reports' = reports \ {<<m, status>>}
    /\ IF log[m] = None
       THEN spoilt' = spoilt \union {m} /\ UNCHANGED log
       ELSE /\ log' = IF Overwrites(log[m].status, status)
                      THEN [log EXCEPT ![m].status = status] ELSE log
            /\ spoilt' = IF log[m].status = "delivered" THEN spoilt \union {m} ELSE spoilt
    /\ UNCHANGED <<clock, row, task, wanted>>

-----------------------------------------------------------------------------
\* Archive, restore and delete load the thread's row, if there is one,
Ask(w, op) ==
    /\ Begin(w, [op |-> op, row |-> row, at |-> 0])
    /\ UNCHANGED <<clock, log, row, reports, wanted, spoilt>>
\* take the time,
Now(w) ==
    /\ task[w] # None /\ task[w].op \in {"archive", "restore", "delete"} /\ task[w].at = 0 /\ Tick
    /\ task' = [task EXCEPT ![w].at = clock']
    /\ UNCHANGED <<log, row, reports, wanted, spoilt>>

\* set_conversation_archived and soft_delete_conversation: what differs from the loaded
\* row is written. A first row that somebody else has made meanwhile makes it fail.
Loaded(t) == IF t.row = None THEN NoRow ELSE t.row
Changed(t) == CASE t.op = "archive" -> [Loaded(t) EXCEPT !.archived_at = t.at]
                [] t.op = "restore" -> [Loaded(t) EXCEPT !.archived_at = 0]
                [] t.op = "delete" -> [archived_at |-> 0, deleted_at |-> t.at]
Settle(w) ==
    /\ task[w] # None /\ task[w].op \in {"archive", "restore", "delete"} /\ task[w].at # 0
    /\ LET t == task[w]
           there == IF row = None THEN NoRow ELSE row
           later == {m \in thread : log[m].at > t.at} IN
       IF t.row = None /\ row # None
       THEN UNCHANGED <<row, wanted>>
       ELSE /\ row' = [c \in DOMAIN there |->
                         IF Changed(t)[c] = Loaded(t)[c] THEN there[c] ELSE Changed(t)[c]]
            /\ archived' = (t.op = "archive")
            /\ thread' = IF t.op = "delete" THEN later ELSE thread
            /\ crossed' = (crossed \/ t.row # row)
    /\ Done(w)
    /\ UNCHANGED <<clock, log, reports, spoilt>>

\* The worker dies, perhaps between the provider's answer and the row.
Die(w) == task[w] # None /\ Done(w) /\ UNCHANGED <<clock, log, row, reports, wanted, spoilt>>

Next == \/ \E w \in Workers : \/ \E m \in Messages : \/ Receive(w, m)
                                                     \/ \E taken \in BOOLEAN : Send(w, m, taken)
                              \/ \E op \in {"archive", "restore", "delete"} : Ask(w, op)
                              \/ Stamp(w) \/ Write(w) \/ Now(w) \/ Settle(w) \/ Die(w)
        \/ \E m \in Messages, status \in {"sent", "delivered"} : Report(m, status)

Spec == Init /\ [][Next]_inboxVars

-----------------------------------------------------------------------------
TypeOK == /\ clock \in 0..MaxTime /\ log \in [Messages -> Message \union {None}]
          /\ row \in Row \union {None} /\ task \in [Workers -> Task \union {None}]
          /\ reports \subseteq Messages \X {"sent", "delivered"}
          /\ thread \subseteq Messages /\ archived \in BOOLEAN /\ crossed \in BOOLEAN
          /\ spoilt \subseteq Messages

\* Mutation of Shown: a deleted thread never comes back.
ShownAlive(m) == log[m] # None /\ (row = None \/ row.deleted_at = 0)

\* list_conversations and get_conversation_messages.
Shown(m) == log[m] # None /\ (row = None \/ log[m].at > row.deleted_at)
Archived == row # None /\ row.archived_at > row.deleted_at

\* The inbox shows the messages since the last deletion, all of them and no other, in the
\* place where staff last put the thread - unless their requests overlapped, or one overlapped
\* the arrival of a message.
InboxIsExact == crossed \/ /\ {m \in Messages : Shown(m)} = thread
                           /\ Archived = archived

\* A message that was delivered says so when its reports are in, unless they came before
\* it was logged or in the wrong order.
DeliveryIsTold ==
    \A m \in Messages : log[m] # None =>
        \/ m \in spoilt \/ log[m].status \in {"received", "FAILED", "delivered"}
        \/ \E r \in reports : r[1] = m
=============================================================================
