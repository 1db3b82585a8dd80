------------------------- MODULE CustomerContact_proofs -------------------------
(* Proofs about what meets the customer, for any number of workers, messages, mails and
   redeliveries: each component in focus keeps an inductive invariant of its own. *)
EXTENDS MCCustomerContact, OrderLemmas, FiniteSetTheorems, SequenceTheorems, TLAPS

-----------------------------------------------------------------------------
(* The chat's messages. A message that nobody has logged has taken no turn and nobody is at
   its turn; the unique row lets one worker through to the turn, and the turn is its first. *)
AtTurn(W, d) == W[d].pc = "act"
HasSession == {"log", "act", "finalize", "mark"}

OneAtTheTurn(W) == \A c, d \in Turns!Arrivals : AtTurn(W, c) /\ AtTurn(W, d) /\ c[1] = d[1] => c = d
TurnsTakenLogged(W, L, N) ==
    /\ \A m \in Messages : m \notin L => N[m] = 0
    /\ \A d \in Turns!Arrivals : AtTurn(W, d) => d[1] \in L /\ N[d[1]] = 0
SessionsHeld(W, S) == \A d \in Turns!Arrivals : W[d].pc \in HasSession => W[d].at \in 1..Len(S)

TurnsInv == /\ Turns!TypeOK
            /\ turns \in [Messages -> Nat] /\ \A m \in Messages : turns[m] <= 1
            /\ OneAtTheTurn(worker)
            /\ TurnsTakenLogged(worker, logged, turns)
            /\ SessionsHeld(worker, sessions)

-----------------------------------------------------------------------------
(* The mails. Whatever reached the customer, and whatever is about to, is paid for: by an
   accident, by somebody who asked for it, or by the one claim that the log or a worker
   holds on the mail. *)
\* Workers that will send the mail m without looking it up any more.
Sends(t, m) == /\ t # None /\ t.mail = m
               /\ (t.stage = "send" \/ (t.stage = "check" /\ t.force))
Senders(T, m) == {w \in Workers : Sends(T[w], m)}
Holds(t, m) == /\ t # None /\ t.mail = m
               /\ (t.stage = "send" \/ (t.stage = "log" /\ (Notes!Text(m) \/ t.status = "SENT")))
Sent(R, told, m) == \/ Notes!Text(m) /\ told
                    \/ \E i \in DOMAIN R : /\ R[i].status = "SENT" /\ R[i].mail.trigger = m.trigger
                                           /\ ~Notes!Text(m)
Claimed(T, R, told, m) == Sent(R, told, m) \/ \E w \in Workers : Holds(T[w], m)
Sending(t, m) == IF Sends(t, m) THEN 1 ELSE 0
Claim(T, R, told, m) == IF Claimed(T, R, told, m) THEN 1 ELSE 0
Paid(T, R, told, box, acc, ask, m) ==
    box[m] + Cardinality(Senders(T, m)) <= acc[m] + ask[m] + Claim(T, R, told, m)

Decided(T) == \A w \in Workers : T[w] # None /\ T[w].stage = "log" => T[w].status # ""

NotesInv == /\ Notes!TypeOK /\ Decided(task)
            /\ \A m \in Notes!Mails : Paid(task, mails, textSent, inbox, accidents, again, m)
            /\ inbound.rows \in {0, 1}
            /\ \A c \in Copies : inbound.copy[c] = "done" => inbound.rows = 1

-----------------------------------------------------------------------------
(* The staff's inbox. Every time is past, and a request of the staff took its time after the
   deletion it loaded; a message is written once, and while one that the provider took does
   not say it was delivered, that report is on its way. *)
Asks(t) == t # None /\ t.op \in {"archive", "restore", "delete"}
Brings(t) == t # None /\ t.op \in {"send", "write"}
Deleted(r) == IF r = None THEN 0 ELSE r.deleted_at
Hidden(r) == IF r = None THEN 0 ELSE r.archived_at
PastRow(r, now) == Deleted(r) <= now /\ Hidden(r) <= now
PastTasks(T, now) == \A w \in Workers : Asks(T[w]) => /\ PastRow(T[w].row, now) /\ T[w].at <= now
                                                      /\ (T[w].at # 0 => T[w].at > Deleted(T[w].row))
ToldOf(P, m) == {r \in P : r[1] = m}
WrittenOnce(T, L) == /\ \A w \in Workers : Brings(T[w]) => L[T[w].id] = None
                     /\ \A v, w \in Workers : Brings(T[v]) /\ Brings(T[w]) /\ T[v].id = T[w].id => v = w
TakenIsReported(T, P, S) ==
    \A w \in Workers : Brings(T[w]) =>
        IF T[w].status = "queued" THEN T[w].id \in S \/ <<T[w].id, "delivered">> \in P
        ELSE ToldOf(P, T[w].id) = {}
LoggedIsReported(L, P, S) ==
    \A m \in Messages : L[m] # None =>
        /\ (L[m].status \in {"queued", "sent"} => m \in S \/ <<m, "delivered">> \in P)
        /\ (L[m].status \in {"received", "FAILED"} => ToldOf(P, m) = {})

InboxInv == /\ Inbox!TypeOK
            /\ PastRow(stored, clock) /\ PastTasks(clerk, clock)
            /\ WrittenOnce(clerk, log)
            /\ TakenIsReported(clerk, pings, spoilt) /\ LoggedIsReported(log, pings, spoilt)
            /\ Inbox!InboxIsExact

-----------------------------------------------------------------------------

LEMMA TurnsInitOK == Turns!Init => TurnsInv
<1> SUFFICES ASSUME Turns!Init PROVE TurnsInv
  OBVIOUS
<1>1. sessions \in Seq(Turns!ConversationSession) /\ Len(sessions) = 0
  BY EmptySeq DEF Turns!Init
<1>2. worker \in [Turns!Arrivals -> Turns!Worker]
  BY TurnsAssumption DEF Turns!Init, Turns!Worker
<1>3. \A d \in Turns!Arrivals : worker[d].pc = "idle"
  BY DEF Turns!Init
<1> QED
  BY <1>1, <1>2, <1>3, TurnsAssumption DEF Turns!Init, TurnsInv, Turns!TypeOK, OneAtTheTurn, TurnsTakenLogged,
     SessionsHeld, AtTurn, HasSession

LEMMA DeliveryOf == \A d \in Turns!Arrivals : d[1] \in Messages
  BY TurnsAssumption DEF Turns!Arrivals

\* What a worker may do that is neither logging nor the turn: it does not come to the turn,
\* and a session in hand is there.
LEMMA QuietWorker ==
    ASSUME TurnsInv, NEW W \in [Turns!Arrivals -> Turns!Worker], NEW d \in Turns!Arrivals,
           NEW S \in Seq(Turns!ConversationSession), Len(sessions) <= Len(S), Len(S) <= MaxSessions,
           ~AtTurn(W, d), W[d].pc \in HasSession => W[d].at \in 1..Len(S),
           \A c \in Turns!Arrivals \ {d} : W[c] = worker[c],
           worker' = W, sessions' = S, logged' = logged, turns' = turns
    PROVE  TurnsInv'
<1>1. Turns!TypeOK'
  BY DEF TurnsInv, Turns!TypeOK
<1>2. OneAtTheTurn(W)
  BY DEF TurnsInv, OneAtTheTurn, AtTurn
<1>3. TurnsTakenLogged(W, logged, turns)
  BY DEF TurnsInv, TurnsTakenLogged, AtTurn
<1>4. SessionsHeld(W, S)
  <2>1. Len(sessions) \in Nat /\ Len(S) \in Nat
    BY LenProperties DEF TurnsInv, Turns!TypeOK
  <2> QED
    BY <2>1 DEF TurnsInv, SessionsHeld
<1> QED
  BY <1>1, <1>2, <1>3, <1>4 DEF TurnsInv

\* A change of the status or the mark of one session leaves a sequence of sessions.
LEMMA SessionsChange ==
    ASSUME NEW S \in Seq(Turns!ConversationSession), NEW i \in 1..Len(S), NEW x \in Turns!ConversationSession
    PROVE  /\ [S EXCEPT ![i] = x] \in Seq(Turns!ConversationSession)
           /\ Len([S EXCEPT ![i] = x]) = Len(S)
  BY ExceptSeq

LEMMA StatusChanges ==
    ASSUME NEW S \in Seq(Turns!ConversationSession), NEW i \in 1..Len(S),
           NEW s \in {"ACTIVE", "EXPIRED", "COMPLETED", "HUMAN_HANDOFF"},
           NEW T, T = [S EXCEPT ![i].status = s]
    PROVE  T \in Seq(Turns!ConversationSession) /\ Len(T) = Len(S)
<1>1. S[i] \in Turns!ConversationSession
  BY ElementOfSeq
<1> DEFINE x == [S[i] EXCEPT !.status = s]
<1>2. x \in Turns!ConversationSession
  BY <1>1 DEF Turns!ConversationSession
<1>3. [S EXCEPT ![i].status = s] = [S EXCEPT ![i] = x]
  OBVIOUS
<1> HIDE DEF x
<1> QED
  BY <1>2, <1>3, SessionsChange

LEMMA MarkChanges ==
    ASSUME NEW S \in Seq(Turns!ConversationSession), NEW i \in 1..Len(S), NEW m \in Messages,
           NEW T, T = [S EXCEPT ![i].last = m]
    PROVE  T \in Seq(Turns!ConversationSession) /\ Len(T) = Len(S)
<1>1. S[i] \in Turns!ConversationSession
  BY ElementOfSeq
<1> DEFINE x == [S[i] EXCEPT !.last = m]
<1>2. x \in Turns!ConversationSession
  BY <1>1 DEF Turns!ConversationSession
<1>3. [S EXCEPT ![i].last = m] = [S EXCEPT ![i] = x]
  OBVIOUS
<1> HIDE DEF x
<1> QED
  BY <1>2, <1>3, SessionsChange

\* The newest live session is one of the sessions, if any is live.
LEMMA ActiveIsThere ==
    ASSUME TurnsInv, Turns!ActiveSession # 0
    PROVE  Turns!ActiveSession \in 1..Len(sessions)
<1> DEFINE live == {i \in 1..Len(sessions) : Turns!Live(i)}
<1>1. Len(sessions) \in Nat
  BY LenProperties DEF TurnsInv, Turns!TypeOK
<1>2. live # {} /\ Turns!ActiveSession = CHOOSE i \in live : \A j \in live : j <= i
  BY DEF Turns!ActiveSession
<1>3. live \in SUBSET (0..Len(sessions))
  BY <1>1
<1>4. \E i \in live : \A j \in live : j <= i
  BY <1>1, <1>2, <1>3, GreatestBelow
<1>5. Turns!ActiveSession \in live
  BY <1>2, <1>4
<1> QED
  BY <1>5

LEMMA DeliverOK == ASSUME TurnsInv, NEW d \in Turns!Arrivals, Turns!Deliver(d) PROVE TurnsInv'
<1>1. worker' = [worker EXCEPT ![d].pc = "load"] /\ UNCHANGED <<sessions, logged, turns>>
  BY DEF Turns!Deliver, Turns!Goto
<1>2. worker \in [Turns!Arrivals -> Turns!Worker] /\ sessions \in Seq(Turns!ConversationSession)
      /\ Len(sessions) <= MaxSessions
  BY DEF TurnsInv, Turns!TypeOK
<1> DEFINE W == [worker EXCEPT ![d].pc = "load"]
<1>3. W \in [Turns!Arrivals -> Turns!Worker] /\ W[d].pc = "load"
      /\ \A c \in Turns!Arrivals \ {d} : W[c] = worker[c]
  BY <1>2 DEF Turns!Worker
<1>4. worker' = W
  BY <1>1
<1> HIDE DEF W
<1>5. ~AtTurn(W, d) /\ W[d].pc \notin HasSession
  BY <1>3 DEF AtTurn, HasSession
<1>6. Len(sessions) <= Len(sessions)
  BY <1>2, LenProperties
<1> QED
  BY <1>1, <1>2, <1>3, <1>4, <1>5, <1>6, QuietWorker

LEMMA TurnsCrashOK == ASSUME TurnsInv, NEW d \in Turns!Arrivals, Turns!Crash(d) PROVE TurnsInv'
<1>1. worker' = [worker EXCEPT ![d].pc = "dead"] /\ UNCHANGED <<sessions, logged, turns>>
  BY DEF Turns!Crash, Turns!Goto
<1>2. worker \in [Turns!Arrivals -> Turns!Worker] /\ sessions \in Seq(Turns!ConversationSession)
      /\ Len(sessions) <= MaxSessions
  BY DEF TurnsInv, Turns!TypeOK
<1> DEFINE W == [worker EXCEPT ![d].pc = "dead"]
<1>3. W \in [Turns!Arrivals -> Turns!Worker] /\ W[d].pc = "dead"
      /\ \A c \in Turns!Arrivals \ {d} : W[c] = worker[c]
  BY <1>2 DEF Turns!Worker
<1>4. worker' = W
  BY <1>1
<1> HIDE DEF W
<1>5. ~AtTurn(W, d) /\ W[d].pc \notin HasSession
  BY <1>3 DEF AtTurn, HasSession
<1>6. Len(sessions) <= Len(sessions)
  BY <1>2, LenProperties
<1> QED
  BY <1>1, <1>2, <1>3, <1>4, <1>5, <1>6, QuietWorker

LEMMA LoadOK == ASSUME TurnsInv, NEW d \in Turns!Arrivals, Turns!Load(d) PROVE TurnsInv'
<1>1. /\ worker \in [Turns!Arrivals -> Turns!Worker] /\ sessions \in Seq(Turns!ConversationSession)
      /\ Len(sessions) <= MaxSessions /\ Len(sessions) \in Nat /\ MaxSessions \in Nat
  BY LenProperties, TurnsAssumption DEF TurnsInv, Turns!TypeOK
<1>2. UNCHANGED <<logged, turns>>
  BY DEF Turns!Load
<1> DEFINE a == Turns!ActiveSession
<1>3. CASE Turns!Goto(d, "create") /\ (\/ UNCHANGED sessions
                                       \/ a # 0 /\ sessions' = [sessions EXCEPT ![a].status = "EXPIRED"])
  <2> DEFINE W == [worker EXCEPT ![d].pc = "create"]
  <2>1. W \in [Turns!Arrivals -> Turns!Worker] /\ W[d].pc = "create"
        /\ \A c \in Turns!Arrivals \ {d} : W[c] = worker[c]
    BY <1>1 DEF Turns!Worker
  <2>2. worker' = W
    BY <1>3 DEF Turns!Goto
  <2> HIDE DEF W
  <2>3. ~AtTurn(W, d) /\ W[d].pc \notin HasSession
    BY <2>1 DEF AtTurn, HasSession
  <2>4. sessions' \in Seq(Turns!ConversationSession) /\ Len(sessions') = Len(sessions)
    BY <1>1, <1>3, ActiveIsThere, StatusChanges
  <2> QED
    BY <1>1, <1>2, <2>1, <2>2, <2>3, <2>4, QuietWorker
<1>4. CASE a # 0 /\ Turns!Attach(d, a) /\ UNCHANGED sessions
  <2> DEFINE p == IF sessions[a].last = d[1] THEN "done" ELSE "log"
             W == [worker EXCEPT ![d].at = a, ![d].pc = p]
  <2>0. a \in 1..Len(sessions)
    BY <1>4, ActiveIsThere
  <2>1. a \in 0..MaxSessions /\ p \in {"done", "log"}
    BY <1>1, <2>0
  <2>2. worker' = W
    BY <1>4 DEF Turns!Attach
  <2> HIDE DEF p, a
  <2>3. W \in [Turns!Arrivals -> Turns!Worker] /\ W[d].pc = p /\ W[d].at = a
        /\ \A c \in Turns!Arrivals \ {d} : W[c] = worker[c]
    BY <1>1, <2>1 DEF Turns!Worker
  <2> HIDE DEF W
  <2>4. ~AtTurn(W, d)
    BY <2>1, <2>3 DEF AtTurn
  <2> QED
    BY <1>1, <1>2, <1>4, <2>0, <2>2, <2>3, <2>4, QuietWorker
<1> QED
  BY <1>3, <1>4 DEF Turns!Load

LEMMA CreateOK == ASSUME TurnsInv, NEW d \in Turns!Arrivals, Turns!Create(d) PROVE TurnsInv'
<1>1. /\ worker \in [Turns!Arrivals -> Turns!Worker] /\ sessions \in Seq(Turns!ConversationSession)
      /\ Len(sessions) < MaxSessions /\ Len(sessions) \in Nat /\ MaxSessions \in Nat
  BY LenProperties, TurnsAssumption DEF TurnsInv, Turns!TypeOK, Turns!Create
<1> DEFINE n == Len(sessions) + 1
           x == [status |-> "ACTIVE", last |-> ""]
           W == [worker EXCEPT ![d].at = n, ![d].pc = "log"]
<1>2. sessions' = Append(sessions, x) /\ worker' = W /\ UNCHANGED <<logged, turns>>
  BY DEF Turns!Create
<1>3. x \in Turns!ConversationSession
  BY DEF Turns!ConversationSession
<1> HIDE DEF x
<1>4. Append(sessions, x) \in Seq(Turns!ConversationSession) /\ Len(Append(sessions, x)) = n
  BY <1>1, <1>3, AppendProperties
<1>5. n \in 0..MaxSessions /\ n \in 1..n /\ n <= MaxSessions /\ Len(sessions) <= n
  BY <1>1
<1> HIDE DEF n
<1>6. W \in [Turns!Arrivals -> Turns!Worker] /\ W[d].pc = "log" /\ W[d].at = n
      /\ \A c \in Turns!Arrivals \ {d} : W[c] = worker[c]
  BY <1>1, <1>5 DEF Turns!Worker
<1> HIDE DEF W
<1>7. ~AtTurn(W, d)
  BY <1>6 DEF AtTurn
<1> QED
  BY <1>1, <1>2, <1>4, <1>5, <1>6, <1>7, QuietWorker

\* The unique row: of the workers with one message, one comes to the turn, before any turn.
LEMMA LogInboundOK == ASSUME TurnsInv, NEW d \in Turns!Arrivals, Turns!LogInbound(d) PROVE TurnsInv'
<1> DEFINE p == IF d[1] \in logged THEN "raised"
                ELSE IF sessions[worker[d].at].status = "HUMAN_HANDOFF" THEN "mark" ELSE "act"
           W == [worker EXCEPT ![d].pc = p]
<1>1. worker' = W /\ UNCHANGED <<sessions, turns>> /\ logged' = logged \union {d[1]} /\ worker[d].pc = "log"
  BY DEF Turns!LogInbound, Turns!Goto
<1>2. worker \in [Turns!Arrivals -> Turns!Worker] /\ logged \subseteq Messages /\ d[1] \in Messages
  BY DeliveryOf DEF TurnsInv, Turns!TypeOK
<1>3. p \in {"raised", "mark", "act"} /\ (p = "act" => d[1] \notin logged)
  OBVIOUS
<1> HIDE DEF p
<1>4. W \in [Turns!Arrivals -> Turns!Worker] /\ W[d].pc = p /\ W[d].at = worker[d].at
      /\ \A c \in Turns!Arrivals \ {d} : W[c] = worker[c]
  BY <1>2, <1>3 DEF Turns!Worker
<1> HIDE DEF W
<1>5. Turns!TypeOK'
  BY <1>1, <1>2, <1>4 DEF TurnsInv, Turns!TypeOK
<1>6. OneAtTheTurn(W)
  BY <1>3, <1>4 DEF TurnsInv, OneAtTheTurn, TurnsTakenLogged, AtTurn
<1>7. TurnsTakenLogged(W, logged \union {d[1]}, turns)
  BY <1>2, <1>3, <1>4 DEF TurnsInv, TurnsTakenLogged, AtTurn
<1>8. SessionsHeld(W, sessions)
  BY <1>1, <1>3, <1>4 DEF TurnsInv, SessionsHeld, HasSession
<1> QED
  BY <1>1, <1>5, <1>6, <1>7, <1>8 DEF TurnsInv

\* The turn is the first of its message, and nobody else is at it.
LEMMA DispatchOK == ASSUME TurnsInv, NEW d \in Turns!Arrivals, Turns!Dispatch(d) PROVE TurnsInv'
<1>1. PICK reply \in {"ask", "complete", "human"} :
          worker' = [worker EXCEPT ![d].pc = "finalize", ![d].reply = reply]
  BY DEF Turns!Dispatch
<1> DEFINE W == [worker EXCEPT ![d].pc = "finalize", ![d].reply = reply]
           N == [turns EXCEPT ![d[1]] = @ + 1]
<1>2. worker[d].pc = "act" /\ turns' = N /\ UNCHANGED <<sessions, logged>>
  BY DEF Turns!Dispatch
<1>3. worker \in [Turns!Arrivals -> Turns!Worker] /\ d[1] \in Messages /\ turns \in [Messages -> Nat]
  BY DeliveryOf DEF TurnsInv, Turns!TypeOK
<1>4. W \in [Turns!Arrivals -> Turns!Worker] /\ W[d].pc = "finalize" /\ W[d].at = worker[d].at
      /\ \A c \in Turns!Arrivals \ {d} : W[c] = worker[c]
  BY <1>3 DEF Turns!Worker
<1>5. worker' = W
  BY <1>1
<1> HIDE DEF W
<1>6. turns[d[1]] = 0 /\ d[1] \in logged
  BY <1>2 DEF TurnsInv, TurnsTakenLogged, AtTurn
<1>7. N \in [Messages -> Nat] /\ N[d[1]] = 1 /\ \A m \in Messages \ {d[1]} : N[m] = turns[m]
  BY <1>3, <1>6
<1> HIDE DEF N
<1>8. Turns!TypeOK'
  BY <1>2, <1>4, <1>5 DEF TurnsInv, Turns!TypeOK
<1>9. OneAtTheTurn(W)
  BY <1>4 DEF TurnsInv, OneAtTheTurn, AtTurn
<1>10. \A c \in Turns!Arrivals : AtTurn(W, c) => AtTurn(worker, c) /\ c[1] # d[1]
  BY <1>2, <1>4 DEF TurnsInv, OneAtTheTurn, AtTurn
<1>11. TurnsTakenLogged(W, logged, N)
  <2>1. \A m \in Messages : m \notin logged => N[m] = 0
    BY <1>6, <1>7 DEF TurnsInv, TurnsTakenLogged
  <2>2. \A c \in Turns!Arrivals : AtTurn(W, c) => c[1] \in logged /\ N[c[1]] = 0
    BY <1>7, <1>10, DeliveryOf DEF TurnsInv, TurnsTakenLogged
  <2> QED
    BY <2>1, <2>2 DEF TurnsTakenLogged
<1>12. SessionsHeld(W, sessions)
  BY <1>2, <1>4 DEF TurnsInv, SessionsHeld, HasSession
<1>13. \A m \in Messages : N[m] <= 1
  BY <1>7 DEF TurnsInv
<1> QED
  BY <1>2, <1>5, <1>7, <1>8, <1>9, <1>11, <1>12, <1>13 DEF TurnsInv

LEMMA FinalizeOK == ASSUME TurnsInv, NEW d \in Turns!Arrivals, Turns!Finalize(d) PROVE TurnsInv'
<1> DEFINE i == worker[d].at
           s == CASE worker[d].reply = "human" -> "HUMAN_HANDOFF"
                  [] worker[d].reply = "complete" -> "COMPLETED"
                  [] OTHER -> sessions[i].status
           W == [worker EXCEPT ![d].pc = "mark"]
<1>1. /\ worker \in [Turns!Arrivals -> Turns!Worker] /\ sessions \in Seq(Turns!ConversationSession)
      /\ Len(sessions) <= MaxSessions /\ Len(sessions) \in Nat
  BY LenProperties DEF TurnsInv, Turns!TypeOK
<1>2. worker[d].pc = "finalize" /\ worker' = W /\ UNCHANGED <<logged, turns>>
  BY DEF Turns!Finalize, Turns!Goto
<1>3. i \in 1..Len(sessions)
  BY <1>2 DEF TurnsInv, SessionsHeld, HasSession
<1>4. sessions' = [sessions EXCEPT ![i].status = s]
  BY <1>1, <1>3 DEF Turns!Finalize
<1>5. sessions[i] \in Turns!ConversationSession
  BY <1>1, <1>3, ElementOfSeq
<1>6. s \in {"ACTIVE", "EXPIRED", "COMPLETED", "HUMAN_HANDOFF"}
  BY <1>5 DEF Turns!ConversationSession
<1> DEFINE x == [sessions[i] EXCEPT !.status = s]
<1>7. x \in Turns!ConversationSession /\ sessions' = [sessions EXCEPT ![i] = x]
  BY <1>4, <1>5, <1>6 DEF Turns!ConversationSession
<1> HIDE DEF x, s
<1>8. sessions' \in Seq(Turns!ConversationSession) /\ Len(sessions') = Len(sessions)
  BY <1>1, <1>3, <1>7, ExceptSeq
<1>9. W \in [Turns!Arrivals -> Turns!Worker] /\ W[d].pc = "mark" /\ W[d].at = i
      /\ \A c \in Turns!Arrivals \ {d} : W[c] = worker[c]
  BY <1>1 DEF Turns!Worker
<1> HIDE DEF W, i
<1>10. ~AtTurn(W, d)
  BY <1>9 DEF AtTurn
<1> QED
  BY <1>1, <1>2, <1>3, <1>8, <1>9, <1>10, QuietWorker

LEMMA MarkProcessedOK == ASSUME TurnsInv, NEW d \in Turns!Arrivals, Turns!MarkProcessed(d) PROVE TurnsInv'
<1> DEFINE i == worker[d].at
           W == [worker EXCEPT ![d].pc = "done"]
<1>1. /\ worker \in [Turns!Arrivals -> Turns!Worker] /\ sessions \in Seq(Turns!ConversationSession)
      /\ Len(sessions) <= MaxSessions /\ Len(sessions) \in Nat
  BY LenProperties DEF TurnsInv, Turns!TypeOK
<1>2. /\ worker[d].pc = "mark" /\ worker' = W /\ UNCHANGED <<logged, turns>>
      /\ sessions' = [sessions EXCEPT ![i].last = d[1]]
  BY DEF Turns!MarkProcessed, Turns!Goto
<1>3. i \in 1..Len(sessions)
  BY <1>2 DEF TurnsInv, SessionsHeld, HasSession
<1>4. W \in [Turns!Arrivals -> Turns!Worker] /\ W[d].pc = "done"
      /\ \A c \in Turns!Arrivals \ {d} : W[c] = worker[c]
  BY <1>1 DEF Turns!Worker
<1> HIDE DEF W, i
<1>5. sessions' \in Seq(Turns!ConversationSession) /\ Len(sessions') = Len(sessions)
  <2>1. PICK m \in Messages : m = d[1]
    BY DeliveryOf
  <2>2. PICK T : T = [sessions EXCEPT ![i].last = m]
    OBVIOUS
  <2>3. T \in Seq(Turns!ConversationSession) /\ Len(T) = Len(sessions)
    BY <1>1, <1>3, <2>2, MarkChanges
  <2>4. sessions' = T
    BY <1>2, <2>1, <2>2
  <2> QED
    BY <2>3, <2>4
<1>6. ~AtTurn(W, d) /\ W[d].pc \notin HasSession
  BY <1>4 DEF AtTurn, HasSession
<1>7. Len(sessions) <= Len(sessions') /\ Len(sessions') <= MaxSessions
  BY <1>1, <1>5
<1> QED
  BY <1>2, <1>4, <1>5, <1>6, <1>7, QuietWorker

\* The staff change the status of the newest session.
LEMMA StaffOK ==
    ASSUME TurnsInv, NEW s \in {"ACTIVE", "HUMAN_HANDOFF"}, sessions # <<>>,
           sessions' = [sessions EXCEPT ![Len(sessions)].status = s], UNCHANGED <<logged, worker, turns>>
    PROVE  TurnsInv'
<1>1. /\ sessions \in Seq(Turns!ConversationSession) /\ Len(sessions) <= MaxSessions /\ Len(sessions) \in Nat
      /\ Len(sessions) \in 1..Len(sessions)
  BY LenProperties, EmptySeq DEF TurnsInv, Turns!TypeOK
<1>2. sessions' \in Seq(Turns!ConversationSession) /\ Len(sessions') = Len(sessions)
  BY <1>1, StatusChanges
<1> QED
  BY <1>1, <1>2 DEF TurnsInv, Turns!TypeOK, OneAtTheTurn, TurnsTakenLogged, SessionsHeld, AtTurn

LEMMA TurnsStepOK == TurnsInv /\ [Turns!Next]_(Turns!turnVars) => TurnsInv'
<1> SUFFICES ASSUME TurnsInv, [Turns!Next]_(Turns!turnVars) PROVE TurnsInv'
  OBVIOUS
<1>1. CASE UNCHANGED Turns!turnVars
  BY <1>1 DEF Turns!turnVars, TurnsInv, Turns!TypeOK, OneAtTheTurn, TurnsTakenLogged, SessionsHeld, AtTurn
<1>2. CASE Turns!TakeOver \/ Turns!ResumeAutomation
  BY <1>2, StaffOK DEF Turns!TakeOver, Turns!ResumeAutomation
<1> QED
  BY <1>1, <1>2, DeliverOK, LoadOK, CreateOK, LogInboundOK, DispatchOK, FinalizeOK, MarkProcessedOK,
     TurnsCrashOK DEF Turns!Next

-----------------------------------------------------------------------------

LEMMA NotesTyped ==
    ASSUME NotesInv
    PROVE  /\ task \in [Workers -> Notes!Task \union {None}] /\ mails \in Seq(Notes!Row)
           /\ inbox \in [Notes!Mails -> Nat] /\ accidents \in [Notes!Mails -> Nat]
           /\ again \in [Notes!Mails -> Nat] /\ raised \in [Notes!Mails -> Nat]
           /\ skipped \subseteq Notes!Mails /\ textSent \in BOOLEAN /\ reports \subseteq DOMAIN mails
           /\ inbound \in [copy : [Copies -> {"new", "looked", "done"}], rows : Nat]
  BY DEF NotesInv, Notes!TypeOK

\* A worker's task in its fields.
LEMMA TaskFields ==
    ASSUME NEW t \in Notes!Task
    PROVE  /\ t # None /\ t.mail \in Notes!Mails /\ t.stage \in {"check", "send", "log"}
           /\ t.status \in {"", "SENT", "FAILED"} /\ t.force \in BOOLEAN /\ t.retry \in Nat
  BY NoneAssumption DEF Notes!Task

\* What a worker that has a task holds.
LEMMA TaskHeld ==
    ASSUME NotesInv, NEW w \in Workers, task[w] # None
    PROVE  task[w] \in Notes!Task
<1>1. task[w] \in Notes!Task \union {None}
  BY NotesTyped
<1> QED
  BY <1>1

\* One worker's task changes: it sends, or stops sending, and nobody else does.
LEMMA SendersChange ==
    ASSUME NEW T, NEW U, NEW w \in Workers, \A v \in Workers \ {w} : U[v] = T[v], NEW m
    PROVE  /\ Cardinality(Senders(T, m)) \in Nat
           /\ Cardinality(Senders(U, m)) \in Nat
           /\ Cardinality(Senders(U, m)) + Sending(T[w], m) = Cardinality(Senders(T, m)) + Sending(U[w], m)
<1> DEFINE S == Senders(T, m) \ {w}
<1>1. IsFiniteSet(Workers) /\ S \subseteq Workers
  BY WorkersAssumption DEF Senders
<1>2. IsFiniteSet(S)
  BY <1>1, FS_Subset
<1>3. Cardinality(S) \in Nat /\ Cardinality(S \union {w}) = Cardinality(S) + 1
  <2>1. Cardinality(S) \in Nat
    BY <1>2, FS_CardinalityType
  <2>2. w \notin S
    OBVIOUS
  <2>3. Cardinality(S \union {w}) = Cardinality(S) + 1
    BY <1>2, <2>2, FS_AddElement
  <2> QED
    BY <2>1, <2>3
<1>4. Senders(T, m) = IF Sends(T[w], m) THEN S \union {w} ELSE S
  BY DEF Senders
<1>5. Senders(U, m) = IF Sends(U[w], m) THEN S \union {w} ELSE S
  BY DEF Senders
<1>6. Cardinality(Senders(T, m)) = Cardinality(S) + Sending(T[w], m)
  BY <1>3, <1>4 DEF Sending, Claim
<1>7. Cardinality(Senders(U, m)) = Cardinality(S) + Sending(U[w], m)
  BY <1>3, <1>5 DEF Sending, Claim
<1>8. Sending(T[w], m) \in {0, 1} /\ Sending(U[w], m) \in {0, 1}
  BY DEF Sending, Claim
<1> HIDE DEF S
<1> QED
  BY <1>3, <1>6, <1>7, <1>8

\* A mail stays paid for when what a worker's step adds to it is paid for.
LEMMA StillPaid ==
    ASSUME NotesInv, NEW w \in Workers, NEW U, \A v \in Workers \ {w} : U[v] = task[v],
           NEW R, NEW told, NEW box \in [Notes!Mails -> Nat], NEW acc \in [Notes!Mails -> Nat],
           NEW ask \in [Notes!Mails -> Nat], NEW m \in Notes!Mails,
           box[m] + Sending(U[w], m) + accidents[m] + again[m] + Claim(task, mails, textSent, m)
             <= inbox[m] + Sending(task[w], m) + acc[m] + ask[m] + Claim(U, R, told, m)
    PROVE  Paid(U, R, told, box, acc, ask, m)
<1>1. \A v \in Workers \ {w} : U[v] = task[v]
  OBVIOUS
<1>2. /\ Cardinality(Senders(task, m)) \in Nat
      /\ Cardinality(Senders(U, m)) \in Nat
      /\ Cardinality(Senders(U, m)) + Sending(task[w], m)
           = Cardinality(Senders(task, m)) + Sending(U[w], m)
  <2>1. Cardinality(Senders(U, m)) \in Nat
    BY <1>1, SendersChange
  <2>3. Cardinality(Senders(task, m)) \in Nat
    BY <1>1, SendersChange
  <2>2. Cardinality(Senders(U, m)) + Sending(task[w], m)
           = Cardinality(Senders(task, m)) + Sending(U[w], m)
    BY <1>1, SendersChange
  <2> QED
    BY <2>1, <2>2, <2>3
<1> DEFINE n == Cardinality(Senders(task, m))
           k == Cardinality(Senders(U, m))
           s == Sending(task[w], m)
           u == Sending(U[w], m)
           c == Claim(task, mails, textSent, m)
           d == Claim(U, R, told, m)
<1>3. n \in Nat /\ k \in Nat /\ k + s = n + u
  BY <1>2
<1>4. s \in Nat /\ u \in Nat /\ c \in Nat /\ d \in Nat
  BY DEF Sending, Claim
<1>5. inbox[m] + n <= accidents[m] + again[m] + c
  BY DEF NotesInv, Paid
<1>6. inbox[m] \in Nat /\ accidents[m] \in Nat /\ again[m] \in Nat /\ box[m] \in Nat /\ acc[m] \in Nat
      /\ ask[m] \in Nat
  BY NotesTyped
<1>7. box[m] + u + accidents[m] + again[m] + c <= inbox[m] + s + acc[m] + ask[m] + d
  OBVIOUS
<1>8. box[m] + k <= acc[m] + ask[m] + d
  <2> HIDE DEF n, k, s, u, c, d
  <2> QED
    BY <1>3, <1>4, <1>5, <1>6, <1>7
<1> QED
  BY <1>8 DEF Paid

\* A claim on a mail outlives a step of a worker that passes its own on.
LEMMA StillClaimed ==
    ASSUME NEW T, NEW U, NEW w \in Workers, \A v \in Workers \ {w} : U[v] = T[v],
           NEW R, NEW told, NEW Q, NEW said, NEW m,
           Sent(R, told, m) => Sent(Q, said, m), Holds(T[w], m) => Holds(U[w], m) \/ Sent(Q, said, m)
    PROVE  Claimed(T, R, told, m) => Claimed(U, Q, said, m)
  BY DEF Claimed

\* Nobody's mail but one, and that one's worker, changed.
LEMMA OtherMails ==
    ASSUME NotesInv, NEW w \in Workers, NEW U, \A v \in Workers \ {w} : U[v] = task[v],
           NEW R, NEW told, NEW box \in [Notes!Mails -> Nat], NEW acc \in [Notes!Mails -> Nat],
           NEW ask \in [Notes!Mails -> Nat], NEW m \in Notes!Mails,
           ~Sends(U[w], m), ~Holds(task[w], m), Sent(mails, textSent, m) => Sent(R, told, m),
           box[m] = inbox[m], acc[m] = accidents[m], ask[m] = again[m]
    PROVE  Paid(U, R, told, box, acc, ask, m)
<1>1. Claimed(task, mails, textSent, m) => Claimed(U, R, told, m)
  BY StillClaimed
<1>2. Claim(task, mails, textSent, m) <= Claim(U, R, told, m)
      /\ Sending(U[w], m) = 0 /\ Sending(task[w], m) \in {0, 1}
      /\ Claim(task, mails, textSent, m) \in {0, 1} /\ Claim(U, R, told, m) \in {0, 1}
  BY <1>1 DEF Sending, Claim
<1>3. inbox[m] \in Nat /\ accidents[m] \in Nat /\ again[m] \in Nat
  BY NotesTyped
<1>4. box[m] + Sending(U[w], m) + accidents[m] + again[m] + Claim(task, mails, textSent, m)
             <= inbox[m] + Sending(task[w], m) + acc[m] + ask[m] + Claim(U, R, told, m)
  BY <1>2, <1>3
<1> QED
  BY <1>4, StillPaid

LEMMA StillDecided ==
    ASSUME NotesInv, NEW w \in Workers, NEW U, \A v \in Workers \ {w} : U[v] = task[v],
           U[w] = None \/ U[w].stage # "log" \/ U[w].status # ""
    PROVE  Decided(U)
  BY DEF NotesInv, Decided

\* What a step keeps is the invariant.
LEMMA NotesParts ==
    ASSUME NotesInv, Notes!TypeOK', inbound' = inbound, Decided(task'),
           \A m \in Notes!Mails : Paid(task', mails', textSent', inbox', accidents', again', m)
    PROVE  NotesInv'
  BY DEF NotesInv, Decided, Paid, Claim, Claimed, Senders, Sent, Holds, Sends

\* A worker takes a task, or drops one, that sends nothing and claims nothing.
LEMMA IdleStepPaid ==
    ASSUME NotesInv, NEW w \in Workers, NEW U, \A v \in Workers \ {w} : U[v] = task[v],
           \A m \in Notes!Mails : ~Sends(U[w], m) /\ ~Holds(task[w], m)
    PROVE  \A m \in Notes!Mails : Paid(U, mails, textSent, inbox, accidents, again, m)
<1>1. inbox \in [Notes!Mails -> Nat] /\ accidents \in [Notes!Mails -> Nat] /\ again \in [Notes!Mails -> Nat]
  BY NotesTyped
<1> QED
  BY <1>1, OtherMails

LEMMA EmitOK ==
    ASSUME NotesInv, NEW w \in Workers, NEW m \in Notes!Mails, Notes!Emit(w, m) PROVE NotesInv'
<1> DEFINE t == [mail |-> m, stage |-> IF 0 > 0 THEN "send" ELSE "check", status |-> "",
                 force |-> FALSE, retry |-> 0]
           U == [task EXCEPT ![w] = t]
<1>1. task' = U /\ task[w] = None /\ raised' = [raised EXCEPT ![m] = @ + 1]
      /\ UNCHANGED <<mails, inbox, skipped, accidents, again, textSent, reports, inbound>>
  BY DEF Notes!Emit, Notes!Start
<1>2. t \in Notes!Task /\ t.stage = "check" /\ t.force = FALSE
  BY DEF Notes!Task
<1> HIDE DEF t
<1>3. U \in [Workers -> Notes!Task \union {None}] /\ U[w] = t /\ \A v \in Workers \ {w} : U[v] = task[v]
  BY <1>2, NotesTyped
<1> HIDE DEF U
<1>4. \A k \in Notes!Mails : ~Sends(U[w], k) /\ ~Holds(task[w], k)
  BY <1>1, <1>2, <1>3 DEF Sends, Holds
<1>5. \A k \in Notes!Mails : Paid(U, mails, textSent, inbox, accidents, again, k)
  BY <1>3, <1>4, IdleStepPaid
<1>6. raised' \in [Notes!Mails -> Nat]
  BY <1>1, NotesTyped
<1>7. Notes!TypeOK'
  BY <1>1, <1>3, <1>6, NotesTyped DEF Notes!TypeOK
<1>8. Decided(U)
  BY <1>2, <1>3, StillDecided
<1> QED
  BY <1>1, <1>5, <1>7, <1>8, NotesParts

\* Somebody asks for a mail, and a free worker takes it up.
LEMMA AskedPaid ==
    ASSUME NotesInv, NEW w \in Workers, task[w] = None, NEW t \in Notes!Task, NEW m \in Notes!Mails,
           t.mail = m, t.stage # "log",
           task' = [task EXCEPT ![w] = t], again' = [again EXCEPT ![m] = @ + 1],
           UNCHANGED <<mails, inbox, skipped, raised, accidents, textSent, reports, inbound>>
    PROVE  NotesInv'
<1> DEFINE U == [task EXCEPT ![w] = t]
           ask == [again EXCEPT ![m] = @ + 1]
<1>1. U \in [Workers -> Notes!Task \union {None}] /\ U[w] = t /\ \A v \in Workers \ {w} : U[v] = task[v]
  BY NotesTyped
<1>2. ask \in [Notes!Mails -> Nat] /\ ask[m] = again[m] + 1 /\ \A k \in Notes!Mails \ {m} : ask[k] = again[k]
  BY NotesTyped
<1>3. task' = U /\ again' = ask
  OBVIOUS
<1> HIDE DEF U, ask
<1>4. Notes!TypeOK'
  BY <1>1, <1>2, <1>3, NotesTyped DEF Notes!TypeOK
<1>5. \A k \in Notes!Mails : ~Holds(task[w], k) /\ ~Sends(task[w], k)
  BY DEF Holds, Sends
<1>6. inbox \in [Notes!Mails -> Nat] /\ accidents \in [Notes!Mails -> Nat] /\ again \in [Notes!Mails -> Nat]
  BY NotesTyped
<1>7. Paid(U, mails, textSent, inbox, accidents, ask, m)
  <2>1. Claimed(task, mails, textSent, m) => Claimed(U, mails, textSent, m)
    BY <1>1, <1>5, StillClaimed
  <2>2. Claim(task, mails, textSent, m) <= Claim(U, mails, textSent, m)
        /\ Sending(U[w], m) \in {0, 1} /\ Sending(task[w], m) = 0
        /\ Claim(task, mails, textSent, m) \in {0, 1} /\ Claim(U, mails, textSent, m) \in {0, 1}
    BY <1>5, <2>1 DEF Claim, Sending
  <2>3. inbox[m] + Sending(U[w], m) + accidents[m] + again[m] + Claim(task, mails, textSent, m)
             <= inbox[m] + Sending(task[w], m) + accidents[m] + ask[m] + Claim(U, mails, textSent, m)
    BY <1>2, <1>6, <2>2
  <2> QED
    BY <1>1, <1>2, <1>6, <2>3, StillPaid
<1>8. \A k \in Notes!Mails \ {m} : Paid(U, mails, textSent, inbox, accidents, ask, k)
  <2> TAKE k \in Notes!Mails \ {m}
  <2>1. ~Sends(U[w], k)
    BY <1>1 DEF Sends
  <2> QED
    BY <1>1, <1>2, <1>5, <1>6, <2>1, OtherMails
<1>9. Decided(U)
  BY <1>1, StillDecided
<1> QED
  BY <1>3, <1>4, <1>7, <1>8, <1>9, NotesParts

LEMMA ResendRewardOK ==
    ASSUME NotesInv, NEW w \in Workers, NEW m \in Notes!Mails, Notes!ResendReward(w, m) PROVE NotesInv'
<1> DEFINE t == [mail |-> m, stage |-> IF 0 > 0 THEN "send" ELSE "check", status |-> "",
                 force |-> TRUE, retry |-> 0]
<1>1. /\ task' = [task EXCEPT ![w] = t] /\ task[w] = None /\ again' = [again EXCEPT ![m] = @ + 1]
      /\ UNCHANGED <<mails, inbox, skipped, raised, accidents, textSent, reports, inbound>>
  BY DEF Notes!ResendReward, Notes!Start
<1>2. t \in Notes!Task /\ t.mail = m /\ t.stage # "log"
  BY DEF Notes!Task
<1> HIDE DEF t
<1> QED
  BY <1>1, <1>2, AskedPaid

LEMMA ResendFailedOK ==
    ASSUME NotesInv, NEW w \in Workers, NEW i \in DOMAIN mails, Notes!ResendFailed(w, i) PROVE NotesInv'
<1> DEFINE m == mails[i].mail
           t == [mail |-> m, stage |-> IF i > 0 THEN "send" ELSE "check", status |-> "",
                 force |-> FALSE, retry |-> i]
<1>1. /\ task' = [task EXCEPT ![w] = t] /\ task[w] = None /\ again' = [again EXCEPT ![m] = @ + 1]
      /\ UNCHANGED <<mails, inbox, skipped, raised, accidents, textSent, reports, inbound>>
  BY DEF Notes!ResendFailed, Notes!Start
<1>2. i \in Nat /\ m \in Notes!Mails
  <2>1. i \in 1..Len(mails) /\ Len(mails) \in Nat /\ mails[i] \in Notes!Row
    BY NotesTyped, LenProperties, ElementOfSeq
  <2> QED
    BY <2>1 DEF Notes!Row
<1> HIDE DEF m
<1>3. t \in Notes!Task /\ t.mail = m /\ t.stage # "log"
  BY <1>2 DEF Notes!Task
<1> HIDE DEF t
<1> QED
  BY <1>1, <1>2, <1>3, AskedPaid

\* What looks the mail up before sending finds no claim on it, unless another worker is there.
LEMMA CheckSentOK == ASSUME NotesInv, NEW w \in Workers, Notes!CheckSent(w) PROVE NotesInv'
<1> DEFINE t == task[w]
           m == t.mail
<1>1. t \in Notes!Task /\ t # None /\ t.stage = "check" /\ m \in Notes!Mails /\ t.force \in BOOLEAN
  <2>1. t # None /\ t.stage = "check"
    BY DEF Notes!CheckSent
  <2>2. t \in Notes!Task
    BY <2>1, TaskHeld
  <2> QED
    BY <2>1, <2>2, TaskFields
<1>2. UNCHANGED <<mails, inbox, raised, again, textSent, reports, inbound>>
  BY DEF Notes!CheckSent
<1>3. \A k \in Notes!Mails : ~Holds(t, k)
  BY <1>1 DEF Holds
<1>4. inbox \in [Notes!Mails -> Nat] /\ accidents \in [Notes!Mails -> Nat] /\ again \in [Notes!Mails -> Nat]
  BY NotesTyped
<1>5. CASE task' = [task EXCEPT ![w] = None] /\ skipped' = skipped \union {m} /\ UNCHANGED accidents
  <2> DEFINE U == [task EXCEPT ![w] = None]
  <2>1. U \in [Workers -> Notes!Task \union {None}] /\ U[w] = None /\ \A v \in Workers \ {w} : U[v] = task[v]
    BY NotesTyped
  <2> HIDE DEF U
  <2>2. \A k \in Notes!Mails : Paid(U, mails, textSent, inbox, accidents, again, k)
    BY <1>3, <2>1, IdleStepPaid DEF Sends
  <2>3. Notes!TypeOK'
    BY <1>1, <1>2, <1>5, <2>1, NotesTyped DEF Notes!TypeOK, U
  <2>4. Decided(U)
    BY <2>1, StillDecided
  <2> QED
    BY <1>2, <1>5, <2>2, <2>3, <2>4, NotesParts DEF U
<1>6. CASE /\ ~(Notes!AlreadySent(m) /\ ~t.force)
           /\ task' = [task EXCEPT ![w].stage = "send"] /\ UNCHANGED skipped
           /\ accidents' = IF Notes!Overlaps(w, m) THEN [accidents EXCEPT ![m] = @ + 1] ELSE accidents
  <2> DEFINE n == [t EXCEPT !.stage = "send"]
             U == [task EXCEPT ![w] = n]
             acc == IF Notes!Overlaps(w, m) THEN [accidents EXCEPT ![m] = @ + 1] ELSE accidents
  <2>1. n \in Notes!Task /\ n.mail = m /\ n.stage = "send"
    BY <1>1 DEF Notes!Task
  <2>2. task' = U /\ accidents' = acc
    BY <1>6
  <2> HIDE DEF n
  <2>3. U \in [Workers -> Notes!Task \union {None}] /\ U[w] = n /\ \A v \in Workers \ {w} : U[v] = task[v]
    BY <2>1, NotesTyped
  <2>4. /\ acc \in [Notes!Mails -> Nat] /\ \A k \in Notes!Mails \ {m} : acc[k] = accidents[k]
        /\ (Notes!Overlaps(w, m) => acc[m] = accidents[m] + 1)
        /\ (~Notes!Overlaps(w, m) => acc[m] = accidents[m])
    BY <1>1, <1>4
  <2> HIDE DEF U, acc
  <2>5. Notes!TypeOK'
    BY <1>2, <1>6, <2>2, <2>3, <2>4, NotesTyped DEF Notes!TypeOK
  <2>6. Claimed(task, mails, textSent, m) => Claimed(U, mails, textSent, m)
    BY <1>1, <1>3, <2>3, StillClaimed
  <2>7. Sends(U[w], m) /\ Claimed(U, mails, textSent, m)
    BY <2>1, <2>3, TaskFields DEF Sends, Claimed, Holds
  <2>8. \/ Sends(task[w], m) \/ Notes!Overlaps(w, m) \/ ~Claimed(task, mails, textSent, m)
    <3>1. CASE t.force
      BY <1>1, <3>1 DEF Sends
    <3>2. CASE ~t.force /\ ~Notes!Overlaps(w, m)
      <4>1. ~Sent(mails, textSent, m)
        BY <1>6, <3>2 DEF Notes!AlreadySent, Sent
      <4>2. \A v \in Workers : ~Holds(task[v], m)
        BY <1>1, <1>3, <3>2 DEF Notes!Overlaps, Holds
      <4> QED
        BY <4>1, <4>2 DEF Claimed
    <3> QED
      BY <3>1, <3>2
  <2>9. /\ Sending(U[w], m) = 1 /\ Claim(U, mails, textSent, m) = 1
        /\ Sending(task[w], m) \in {0, 1} /\ Claim(task, mails, textSent, m) \in {0, 1}
        /\ (Sending(task[w], m) = 1 \/ acc[m] = accidents[m] + 1 \/ Claim(task, mails, textSent, m) = 0)
        /\ (acc[m] = accidents[m] + 1 \/ acc[m] = accidents[m])
    BY <2>4, <2>7, <2>8 DEF Claim, Sending
  <2>10. inbox[m] + Sending(U[w], m) + accidents[m] + again[m] + Claim(task, mails, textSent, m)
             <= inbox[m] + Sending(task[w], m) + acc[m] + again[m] + Claim(U, mails, textSent, m)
    <3>1. inbox[m] \in Nat /\ accidents[m] \in Nat /\ again[m] \in Nat
      BY <1>1, <1>4
    <3> QED
      BY <2>9, <3>1
  <2>11. Paid(U, mails, textSent, inbox, acc, again, m)
    BY <1>1, <1>4, <2>3, <2>4, <2>10, StillPaid
  <2>12. \A k \in Notes!Mails \ {m} : Paid(U, mails, textSent, inbox, acc, again, k)
    <3> TAKE k \in Notes!Mails \ {m}
    <3>1. ~Sends(U[w], k) /\ ~Holds(task[w], k)
      BY <1>3, <2>1, <2>3 DEF Sends
    <3> QED
      BY <1>4, <2>3, <2>4, <3>1, OtherMails
  <2>13. Decided(U)
    BY <2>1, <2>3, StillDecided
  <2> QED
    BY <1>2, <2>2, <2>5, <2>11, <2>12, <2>13, NotesParts
<1> QED
  BY <1>5, <1>6 DEF Notes!CheckSent

\* The provider's answer: what arrived takes the worker's place in the account, and an answer
\* that is lost is an accident.
LEMMA SendOK ==
    ASSUME NotesInv, NEW w \in Workers, NEW got \in BOOLEAN, NEW heard \in BOOLEAN, Notes!Send(w, got, heard)
    PROVE  NotesInv'
<1> DEFINE t == task[w]
           m == t.mail
           lost == got /\ ~heard
           status == IF heard THEN "SENT" ELSE "FAILED"
           n == [t EXCEPT !.stage = "log", !.status = status]
           U == [task EXCEPT ![w] = n]
           acc == IF lost THEN [accidents EXCEPT ![m] = @ + 1] ELSE accidents
           box == IF got THEN [inbox EXCEPT ![m] = @ + 1] ELSE inbox
<1>1. t \in Notes!Task /\ t # None /\ t.stage = "send" /\ m \in Notes!Mails /\ (heard => got)
  <2>1. t # None /\ t.stage = "send" /\ (heard => got)
    BY DEF Notes!Send
  <2>2. t \in Notes!Task
    BY <2>1, TaskHeld
  <2> QED
    BY <2>1, <2>2, TaskFields
<1>2. /\ UNCHANGED <<mails, skipped, raised, again, textSent, reports, inbound>>
      /\ task' = U /\ accidents' = acc /\ inbox' = box
  BY DEF Notes!Send
<1>3. inbox \in [Notes!Mails -> Nat] /\ accidents \in [Notes!Mails -> Nat] /\ again \in [Notes!Mails -> Nat]
  BY NotesTyped
<1>4. n \in Notes!Task /\ n.mail = m /\ n.stage = "log" /\ n.status # ""
      /\ (heard => n.status = "SENT")
  BY <1>1 DEF Notes!Task
<1> HIDE DEF n
<1>5. U \in [Workers -> Notes!Task \union {None}] /\ U[w] = n /\ \A v \in Workers \ {w} : U[v] = task[v]
  BY <1>4, NotesTyped
<1>6. /\ acc \in [Notes!Mails -> Nat] /\ box \in [Notes!Mails -> Nat]
      /\ \A k \in Notes!Mails \ {m} : acc[k] = accidents[k] /\ box[k] = inbox[k]
      /\ acc[m] = IF got /\ ~heard THEN accidents[m] + 1 ELSE accidents[m]
      /\ box[m] = IF got THEN inbox[m] + 1 ELSE inbox[m]
  BY <1>1, <1>3
<1> HIDE DEF U, acc, box
<1>7. Notes!TypeOK'
  BY <1>2, <1>5, <1>6, NotesTyped DEF Notes!TypeOK
<1>8. ~Sends(U[w], m) /\ Sends(t, m) /\ Holds(t, m) /\ (heard => Holds(U[w], m))
  BY <1>1, <1>4, <1>5, TaskFields DEF Sends, Holds
<1>9. heard => (Claimed(task, mails, textSent, m) => Claimed(U, mails, textSent, m))
  BY <1>5, <1>8, StillClaimed
<1>10. /\ Sending(U[w], m) = 0 /\ Sending(task[w], m) = 1
       /\ Claim(U, mails, textSent, m) \in {0, 1} /\ Claim(task, mails, textSent, m) \in {0, 1}
       /\ (heard => Claim(task, mails, textSent, m) <= Claim(U, mails, textSent, m))
  BY <1>8, <1>9 DEF Claim, Sending
<1>11. box[m] + Sending(U[w], m) + accidents[m] + again[m] + Claim(task, mails, textSent, m)
             <= inbox[m] + Sending(task[w], m) + acc[m] + again[m] + Claim(U, mails, textSent, m)
  <2>1. inbox[m] \in Nat /\ accidents[m] \in Nat /\ again[m] \in Nat
    BY <1>1, <1>3
  <2>2. CASE heard
    BY <1>1, <1>6, <1>10, <2>1, <2>2
  <2>3. CASE ~heard
    BY <1>6, <1>10, <2>1, <2>3
  <2> QED
    BY <2>2, <2>3
<1>12. Paid(U, mails, textSent, box, acc, again, m)
  BY <1>1, <1>3, <1>5, <1>6, <1>11, StillPaid
<1>13. \A k \in Notes!Mails \ {m} : Paid(U, mails, textSent, box, acc, again, k)
  <2> TAKE k \in Notes!Mails \ {m}
  <2>1. ~Sends(U[w], k) /\ ~Holds(task[w], k)
    BY <1>4, <1>5 DEF Sends, Holds
  <2> QED
    BY <1>3, <1>5, <1>6, <2>1, OtherMails
<1>14. Decided(U)
  BY <1>4, <1>5, StillDecided
<1> QED
  BY <1>2, <1>7, <1>12, <1>13, <1>14, NotesParts

\* The row takes over the claim of the worker that writes it.
LEMMA LogSendOK == ASSUME NotesInv, NEW w \in Workers, Notes!LogSend(w) PROVE NotesInv'
<1> DEFINE t == task[w]
           r == [mail |-> t.mail, status |-> t.status, retry |-> t.retry]
           R == Append(mails, r)
           told == textSent \/ Notes!Text(t.mail)
           U == [task EXCEPT ![w] = None]
<1>1. t \in Notes!Task /\ t # None /\ t.stage = "log" /\ t.mail \in Notes!Mails
      /\ t.status \in {"", "SENT", "FAILED"} /\ t.retry \in Nat
  <2>1. t # None /\ t.stage = "log"
    BY DEF Notes!LogSend
  <2>2. t \in Notes!Task
    BY <2>1, TaskHeld
  <2> QED
    BY <2>1, <2>2, TaskFields
<1>2. /\ UNCHANGED <<inbox, skipped, raised, accidents, again, reports, inbound>>
      /\ task' = U /\ mails' = R /\ textSent' = told
  BY DEF Notes!LogSend
<1>3. inbox \in [Notes!Mails -> Nat] /\ accidents \in [Notes!Mails -> Nat] /\ again \in [Notes!Mails -> Nat]
  BY NotesTyped
<1>4. U \in [Workers -> Notes!Task \union {None}] /\ U[w] = None /\ \A v \in Workers \ {w} : U[v] = task[v]
  BY NotesTyped
<1>5. t.status \in {"SENT", "FAILED"}
  BY <1>1 DEF NotesInv, Decided
<1>6. r \in Notes!Row /\ r.mail = t.mail /\ r.status = t.status
  BY <1>1, <1>5 DEF Notes!Row
<1> HIDE DEF r, U
<1>7. mails \in Seq(Notes!Row)
  BY NotesTyped
<1>8. /\ R \in Seq(Notes!Row) /\ DOMAIN R = DOMAIN mails \union {Len(mails) + 1}
      /\ \A i \in DOMAIN mails : R[i] = mails[i] /\ R[Len(mails) + 1] = r
      /\ R[Len(mails) + 1] = r
  <2>1. /\ R \in Seq(Notes!Row) /\ Len(R) = Len(mails) + 1
        /\ \A i \in 1..Len(mails) : R[i] = mails[i]
        /\ R[Len(mails) + 1] = r
    BY <1>6, <1>7, AppendProperties
  <2>2. DOMAIN R = 1..Len(R) /\ DOMAIN mails = 1..Len(mails) /\ Len(mails) \in Nat
    BY <1>7, <2>1, LenProperties
  <2> QED
    BY <2>1, <2>2
<1> HIDE DEF R
<1>9. told \in BOOLEAN /\ (textSent => told) /\ (Notes!Text(t.mail) => told)
  BY NotesTyped DEF Notes!Text
<1> HIDE DEF told
<1>10. Notes!TypeOK'
  BY <1>2, <1>4, <1>8, <1>9, NotesTyped DEF Notes!TypeOK
<1>11. \A k \in Notes!Mails : Sent(mails, textSent, k) => Sent(R, told, k)
  BY <1>8, <1>9 DEF Sent
<1>12. \A k \in Notes!Mails : Holds(t, k) => Sent(R, told, k)
  BY <1>1, <1>6, <1>8, <1>9 DEF Holds, Sent
<1>13. \A k \in Notes!Mails : Paid(U, R, told, inbox, accidents, again, k)
  <2> TAKE k \in Notes!Mails
  <2>1. Claimed(task, mails, textSent, k) => Claimed(U, R, told, k)
    BY <1>4, <1>11, <1>12, StillClaimed
  <2>2. ~Sends(U[w], k) /\ ~Sends(task[w], k)
    BY <1>1, <1>4 DEF Sends
  <2>3. /\ Sending(U[w], k) = 0 /\ Sending(task[w], k) = 0
        /\ Claim(U, R, told, k) \in {0, 1} /\ Claim(task, mails, textSent, k) \in {0, 1}
        /\ Claim(task, mails, textSent, k) <= Claim(U, R, told, k)
    BY <2>1, <2>2 DEF Claim, Sending
  <2>4. inbox[k] + Sending(U[w], k) + accidents[k] + again[k] + Claim(task, mails, textSent, k)
             <= inbox[k] + Sending(task[w], k) + accidents[k] + again[k] + Claim(U, R, told, k)
    <3>1. inbox[k] \in Nat /\ accidents[k] \in Nat /\ again[k] \in Nat
      BY <1>3
    <3> QED
      BY <2>3, <3>1
  <2> QED
    BY <1>3, <1>4, <2>4, StillPaid
<1>14. Decided(U)
  BY <1>4, StillDecided
<1> QED
  BY <1>2, <1>10, <1>13, <1>14, NotesParts

\* A worker that dies gives up its claim, which is an accident.
LEMMA NotesCrashOK == ASSUME NotesInv, NEW w \in Workers, Notes!Crash(w) PROVE NotesInv'
<1> DEFINE t == task[w]
           m == t.mail
           acc == [accidents EXCEPT ![m] = @ + 1]
           U == [task EXCEPT ![w] = None]
<1>1. t \in Notes!Task /\ t # None /\ m \in Notes!Mails
  <2>1. t # None
    BY DEF Notes!Crash
  <2>2. t \in Notes!Task
    BY <2>1, TaskHeld
  <2> QED
    BY <2>1, <2>2, TaskFields
<1>2. /\ UNCHANGED <<mails, inbox, skipped, raised, again, textSent, reports, inbound>>
      /\ task' = U /\ accidents' = acc
  BY DEF Notes!Crash
<1>3. inbox \in [Notes!Mails -> Nat] /\ accidents \in [Notes!Mails -> Nat] /\ again \in [Notes!Mails -> Nat]
  BY NotesTyped
<1>4. U \in [Workers -> Notes!Task \union {None}] /\ U[w] = None /\ \A v \in Workers \ {w} : U[v] = task[v]
  BY NotesTyped
<1>5. /\ acc \in [Notes!Mails -> Nat] /\ acc[m] = accidents[m] + 1
      /\ \A k \in Notes!Mails \ {m} : acc[k] = accidents[k]
  BY <1>1, <1>3
<1> HIDE DEF U, acc
<1>6. Notes!TypeOK'
  BY <1>2, <1>4, <1>5, NotesTyped DEF Notes!TypeOK
<1>7. Paid(U, mails, textSent, inbox, acc, again, m)
  <2>1. /\ Sending(U[w], m) = 0 /\ Sending(task[w], m) \in {0, 1}
        /\ Claim(U, mails, textSent, m) \in {0, 1} /\ Claim(task, mails, textSent, m) \in {0, 1}
    BY <1>4 DEF Claim, Sending, Sends
  <2>2. inbox[m] \in Nat /\ accidents[m] \in Nat /\ again[m] \in Nat
    BY <1>1, <1>3
  <2>3. inbox[m] + Sending(U[w], m) + accidents[m] + again[m] + Claim(task, mails, textSent, m)
             <= inbox[m] + Sending(task[w], m) + acc[m] + again[m] + Claim(U, mails, textSent, m)
    BY <1>5, <2>1, <2>2
  <2> QED
    BY <1>1, <1>3, <1>4, <1>5, <2>3, StillPaid
<1>8. \A k \in Notes!Mails \ {m} : Paid(U, mails, textSent, inbox, acc, again, k)
  <2> TAKE k \in Notes!Mails \ {m}
  <2>1. ~Sends(U[w], k) /\ ~Holds(task[w], k)
    BY <1>4 DEF Sends, Holds
  <2> QED
    BY <1>3, <1>4, <1>5, <2>1, OtherMails
<1>9. Decided(U)
  BY <1>4, StillDecided
<1> QED
  BY <1>2, <1>6, <1>7, <1>8, <1>9, NotesParts

\* A delivery report touches the row of a text, which no mail is looked up by.
LEMMA NotesReportOK == ASSUME NotesInv, Notes!Report PROVE NotesInv'
<1>1. PICK i \in DOMAIN mails : /\ Notes!Text(mails[i].mail)
                                /\ mails' = [mails EXCEPT ![i].status = "delivered"]
                                /\ reports' = reports \union {i}
  BY DEF Notes!Report
<1>2. UNCHANGED <<task, inbox, skipped, raised, accidents, again, textSent, inbound>>
  BY DEF Notes!Report
<1>3. mails \in Seq(Notes!Row) /\ i \in 1..Len(mails) /\ mails[i] \in Notes!Row
  BY NotesTyped, LenProperties, ElementOfSeq
<1> DEFINE r == [mails[i] EXCEPT !.status = "delivered"]
<1>4. r \in Notes!Row /\ r.mail = mails[i].mail
  BY <1>3 DEF Notes!Row
<1>5. mails' = [mails EXCEPT ![i] = r]
  BY <1>1
<1> HIDE DEF r
<1>6. /\ mails' \in Seq(Notes!Row) /\ Len(mails') = Len(mails)
      /\ mails'[i] = r /\ \A j \in 1..Len(mails) \ {i} : mails'[j] = mails[j]
  BY <1>3, <1>4, <1>5, ExceptSeq
<1>7. DOMAIN mails' = DOMAIN mails /\ DOMAIN mails = 1..Len(mails)
  BY <1>3, <1>6, LenProperties
<1>8. Notes!TypeOK'
  BY <1>1, <1>2, <1>6, <1>7, NotesTyped DEF Notes!TypeOK
<1>9. \A m \in Notes!Mails : Sent(mails, textSent, m) => Sent(mails', textSent, m)
  BY <1>1, <1>6, <1>7 DEF Sent, Notes!Text
<1>10. \A m \in Notes!Mails : Paid(task, mails', textSent, inbox, accidents, again, m)
  <2> TAKE m \in Notes!Mails
  <2>1. Claimed(task, mails, textSent, m) => Claimed(task, mails', textSent, m)
    BY <1>9 DEF Claimed
  <2>2. /\ Claim(task, mails', textSent, m) \in {0, 1} /\ Claim(task, mails, textSent, m) \in {0, 1}
        /\ Claim(task, mails, textSent, m) <= Claim(task, mails', textSent, m)
    BY <2>1 DEF Claim
  <2>3. inbox[m] \in Nat /\ accidents[m] \in Nat /\ again[m] \in Nat
    BY NotesTyped
  <2>4. Cardinality(Senders(task, m)) \in Nat
    <3>1. Senders(task, m) \subseteq Workers /\ IsFiniteSet(Workers)
      BY WorkersAssumption DEF Senders
    <3>2. IsFiniteSet(Senders(task, m))
      BY <3>1, FS_Subset
    <3> QED
      BY <3>2, FS_CardinalityType
  <2>5. inbox[m] + Cardinality(Senders(task, m)) <= accidents[m] + again[m] + Claim(task, mails, textSent, m)
    BY DEF NotesInv, Paid
  <2>6. inbox[m] + Cardinality(Senders(task, m)) <= accidents[m] + again[m] + Claim(task, mails', textSent, m)
    BY <2>2, <2>3, <2>4, <2>5
  <2> QED
    BY <2>6 DEF Paid
<1>11. Decided(task)
  BY DEF NotesInv
<1> QED
  BY <1>2, <1>8, <1>10, <1>11, NotesParts

\* Two copies of an inbound message make one row.
LEMMA NotesInboundOK == ASSUME NotesInv, NEW c \in Copies, Notes!Inbound(c) PROVE NotesInv'
<1>1. UNCHANGED <<task, mails, inbox, skipped, raised, accidents, again, textSent, reports>>
  BY DEF Notes!Inbound
<1>2. inbound \in [copy : [Copies -> {"new", "looked", "done"}], rows : Nat]
  BY NotesTyped
<1> DEFINE s == IF inbound.rows > 0 THEN "done" ELSE "looked"
<1>3. CASE inbound' = [inbound EXCEPT !.copy[c] = s]
  <2> DEFINE f == [inbound.copy EXCEPT ![c] = s]
             n == [inbound EXCEPT !.copy = f]
  <2>0. inbound' = n
    BY <1>3
  <2>1. s \in {"looked", "done"} /\ (s = "done" => inbound.rows > 0)
    OBVIOUS
  <2> HIDE DEF s
  <2>2. /\ f \in [Copies -> {"new", "looked", "done"}] /\ f[c] = s
        /\ \A d \in Copies \ {c} : f[d] = inbound.copy[d]
    BY <1>2, <2>1
  <2> HIDE DEF f
  <2>3. /\ n \in [copy : [Copies -> {"new", "looked", "done"}], rows : Nat]
        /\ n.copy = f /\ n.rows = inbound.rows
    BY <1>2, <2>2
  <2> HIDE DEF n
  <2>4. inbound'.rows \in {0, 1} /\ \A d \in Copies : inbound'.copy[d] = "done" => inbound'.rows = 1
    BY <2>0, <2>1, <2>2, <2>3 DEF NotesInv
  <2>5. Notes!TypeOK'
    BY <1>1, <2>0, <2>3, NotesTyped DEF Notes!TypeOK
  <2> QED
    BY <1>1, <2>4, <2>5 DEF NotesInv, Decided, Paid, Claim, Claimed, Senders, Sent, Holds, Sends
<1>4. CASE inbound' = Notes!InsertInbound(c)
  <2>1. /\ inbound' \in [copy : [Copies -> {"new", "looked", "done"}], rows : Nat]
        /\ inbound'.rows = 1
    BY <1>2, <1>4 DEF Notes!InsertInbound, NotesInv
  <2>2. Notes!TypeOK'
    BY <1>1, <2>1, NotesTyped DEF Notes!TypeOK
  <2> QED
    BY <1>1, <2>1, <2>2 DEF NotesInv, Decided, Paid, Claim, Claimed, Senders, Sent, Holds, Sends
<1> QED
  BY <1>3, <1>4 DEF Notes!Inbound, Notes!LookInbound

LEMMA NotesInitOK == Notes!Init => NotesInv
<1> SUFFICES ASSUME Notes!Init PROVE NotesInv
  OBVIOUS
<1>1. /\ task = [w \in Workers |-> None] /\ mails = <<>> /\ skipped = {} /\ textSent = FALSE /\ reports = {}
      /\ inbox = [m \in Notes!Mails |-> 0] /\ raised = [m \in Notes!Mails |-> 0]
      /\ accidents = [m \in Notes!Mails |-> 0] /\ again = [m \in Notes!Mails |-> 0]
      /\ inbound = [copy |-> [c \in Copies |-> "new"], rows |-> 0]
  BY DEF Notes!Init, Notes!Zero
<1>2. mails \in Seq(Notes!Row)
  BY <1>1
<1>3. inbound \in [copy : [Copies -> {"new", "looked", "done"}], rows : Nat]
  BY <1>1
<1>4. Notes!TypeOK
  BY <1>1, <1>2, <1>3 DEF Notes!TypeOK
<1>5. \A m \in Notes!Mails : Paid(task, mails, textSent, inbox, accidents, again, m)
  <2> TAKE m \in Notes!Mails
  <2>1. Senders(task, m) = {}
    BY <1>1 DEF Senders, Sends
  <2>2. Cardinality(Senders(task, m)) = 0
    BY <2>1, FS_EmptySet
  <2>3. inbox[m] = 0 /\ accidents[m] = 0 /\ again[m] = 0 /\ Claim(task, mails, textSent, m) \in {0, 1}
    BY <1>1 DEF Claim
  <2> QED
    BY <2>2, <2>3 DEF Paid
<1> QED
  BY <1>1, <1>4, <1>5 DEF NotesInv, Decided

LEMMA NotesStepOK == NotesInv /\ [Notes!Next]_(Notes!noteVars) => NotesInv'
<1> SUFFICES ASSUME NotesInv, [Notes!Next]_(Notes!noteVars) PROVE NotesInv'
  OBVIOUS
<1>1. CASE UNCHANGED Notes!noteVars
  BY <1>1 DEF Notes!noteVars, NotesInv, Notes!TypeOK, Decided, Paid, Claim, Claimed, Senders, Sent, Holds, Sends
<1> QED
  BY <1>1, EmitOK, ResendRewardOK, ResendFailedOK, CheckSentOK, SendOK, LogSendOK, NotesCrashOK, NotesReportOK,
     NotesInboundOK DEF Notes!Next

\* What is paid for came once, but for accidents and those who asked.
LEMMA PaidIsOnce == NotesInv => Notes!NothingComesTwice
<1> SUFFICES ASSUME NotesInv PROVE Notes!NothingComesTwice
  OBVIOUS
<1>1. \A m \in Notes!Mails : inbox[m] <= 1 + accidents[m] + again[m]
  <2> TAKE m \in Notes!Mails
  <2>1. IsFiniteSet(Senders(task, m))
    <3>1. Senders(task, m) \subseteq Workers /\ IsFiniteSet(Workers)
      BY WorkersAssumption DEF Senders
    <3> QED
      BY <3>1, FS_Subset
  <2>2. Cardinality(Senders(task, m)) \in Nat
    BY <2>1, FS_CardinalityType
  <2>3. inbox[m] + Cardinality(Senders(task, m)) <= accidents[m] + again[m] + Claim(task, mails, textSent, m)
    BY DEF NotesInv, Paid
  <2>4. Claim(task, mails, textSent, m) \in {0, 1}
    BY DEF Claim
  <2>5. inbox[m] \in Nat /\ accidents[m] \in Nat /\ again[m] \in Nat
    BY NotesTyped
  <2> QED
    BY <2>2, <2>3, <2>4, <2>5
<1> QED
  BY <1>1 DEF NotesInv, Notes!NothingComesTwice

-----------------------------------------------------------------------------
\* However often a chat message is delivered, the workflow takes at most one turn for it; a
\* mail comes once, but for every crash, lost answer or overlap, and once for everybody who
\* asked for it again; an inbound message makes one row.
THEOREM NothingIsDoubled == Spec => []NothingComesTwice
<1> DEFINE Inv == (focus = "turns" => TurnsInv) /\ (focus = "notes" => NotesInv)
<1>1. Init => Inv
  BY TurnsInitOK, NotesInitOK DEF Init
<1>2. Inv /\ [Next]_vars => Inv'
  <2> SUFFICES ASSUME Inv, [Next]_vars PROVE Inv'
    OBVIOUS
  <2>1. focus' = focus
    BY DEF Next, vars, WorkflowStep, TurnsStep, PhoneStep, VoiceStep, NotesStep, InboxStep
  <2>2. focus = "turns" => [Turns!Next]_(Turns!turnVars)
    BY DEF Next, vars, turnVars, Turns!turnVars, WorkflowStep, TurnsStep, PhoneStep, VoiceStep, NotesStep,
           InboxStep
  <2>3. focus = "notes" => [Notes!Next]_(Notes!noteVars)
    BY DEF Next, vars, noteVars, Notes!noteVars, WorkflowStep, TurnsStep, PhoneStep, VoiceStep, NotesStep,
           InboxStep
  <2> QED
    BY <2>1, <2>2, <2>3, TurnsStepOK, NotesStepOK
<1>3. Inv => NothingComesTwice
  BY PaidIsOnce DEF NothingComesTwice, TurnsInv, Turns!OneTurnPerMessage, NotesInv
<1> QED
  BY <1>1, <1>2, <1>3, PTL DEF Spec

-----------------------------------------------------------------------------

\* The kinds of task and what each holds.
LEMMA ClerkFields ==
    ASSUME NEW t \in Inbox!Task
    PROVE  /\ t # None
           /\ t.op \in {"send", "write", "archive", "restore", "delete"}
           /\ (Brings(t) => t.id \in Messages /\ t.status \in {"received", "queued", "FAILED"})
           /\ (t.op = "send" => t.status \in {"queued", "FAILED"})
           /\ (t.op = "write" => t.at \in Inbox!Time)
           /\ (Asks(t) => t.row \in Inbox!Row \union {None} /\ t.at \in {0} \union Inbox!Time)
           /\ Brings(t) = ~Asks(t)
<1>1. t # None
  BY NoneAssumption
<1>2. CASE t \in [op : {"send"}, id : Messages, status : {"queued", "FAILED"}]
  BY <1>1, <1>2 DEF Brings, Asks
<1>3. CASE t \in [op : {"write"}, id : Messages, at : Inbox!Time, status : {"received", "queued", "FAILED"}]
  BY <1>1, <1>3 DEF Brings, Asks
<1>4. CASE t \in [op : {"archive", "restore", "delete"}, row : Inbox!Row \union {None},
                 at : {0} \union Inbox!Time]
  BY <1>1, <1>4 DEF Brings, Asks
<1> QED
  BY <1>2, <1>3, <1>4 DEF Inbox!Task

LEMMA InboxTyped ==
    ASSUME InboxInv
    PROVE  /\ clock \in Nat /\ clock <= MaxTime /\ clock \in 0..MaxTime
           /\ log \in [Messages -> Inbox!Message \union {None}]
           /\ stored \in Inbox!Row \union {None} /\ clerk \in [Workers -> Inbox!Task \union {None}]
           /\ pings \subseteq Messages \X {"sent", "delivered"}
           /\ thread \subseteq Messages /\ archived \in BOOLEAN /\ crossed \in BOOLEAN
           /\ spoilt \subseteq Messages
           /\ \A w \in Workers : clerk[w] # None => clerk[w] \in Inbox!Task
  BY TimeAssumption DEF InboxInv, Inbox!TypeOK

LEMMA RowFields ==
    ASSUME NEW r \in Inbox!Row \union {None}
    PROVE  /\ Deleted(r) \in Nat /\ Hidden(r) \in Nat
           /\ (r # None => r.deleted_at = Deleted(r) /\ r.archived_at = Hidden(r) /\ r \in Inbox!Row)
  BY NoneAssumption, TimeAssumption DEF Deleted, Hidden, Inbox!Row, Inbox!Time

LEMMA MessageFields ==
    ASSUME NEW x \in Inbox!Message
    PROVE  /\ x # None /\ x.at \in Inbox!Time /\ x.at \in Nat /\ x.at > 0
           /\ x.status \in {"received", "FAILED", "queued", "sent", "delivered"}
  BY NoneAssumption DEF Inbox!Message, Inbox!Status, Inbox!Time

\* A row that is put together field by field is a row.
LEMMA RowMade ==
    ASSUME NEW there \in Inbox!Row, NEW from \in Inbox!Row, NEW to \in Inbox!Row, NEW f,
           f = [c \in DOMAIN there |-> IF to[c] = from[c] THEN there[c] ELSE to[c]]
    PROVE  /\ f \in Inbox!Row
           /\ f.archived_at = IF to.archived_at = from.archived_at THEN there.archived_at ELSE to.archived_at
           /\ f.deleted_at = IF to.deleted_at = from.deleted_at THEN there.deleted_at ELSE to.deleted_at
<1>1. DOMAIN there = {"archived_at", "deleted_at"}
  BY DEF Inbox!Row
<1>2. /\ there.archived_at \in {0} \union Inbox!Time /\ there.deleted_at \in {0} \union Inbox!Time
      /\ to.archived_at \in {0} \union Inbox!Time /\ to.deleted_at \in {0} \union Inbox!Time
  BY DEF Inbox!Row
<1>3. /\ f.archived_at = (IF to.archived_at = from.archived_at THEN there.archived_at ELSE to.archived_at)
      /\ f.deleted_at = (IF to.deleted_at = from.deleted_at THEN there.deleted_at ELSE to.deleted_at)
  BY <1>1
<1>4. f = [archived_at |-> f.archived_at, deleted_at |-> f.deleted_at]
  BY <1>1
<1>5. f.archived_at \in {0} \union Inbox!Time /\ f.deleted_at \in {0} \union Inbox!Time
  BY <1>2, <1>3
<1> QED
  BY <1>3, <1>4, <1>5 DEF Inbox!Row

LEMMA InboxParts ==
    ASSUME Inbox!TypeOK', PastRow(stored', clock'), PastTasks(clerk', clock'), WrittenOnce(clerk', log'),
           TakenIsReported(clerk', pings', spoilt'), LoggedIsReported(log', pings', spoilt'),
           Inbox!InboxIsExact'
    PROVE  InboxInv'
  BY DEF InboxInv, PastRow, Deleted, Hidden, PastTasks, Asks, WrittenOnce, Brings, TakenIsReported, ToldOf,
         LoggedIsReported

LEMMA TimePasses ==
    ASSUME InboxInv, NEW now \in Nat, clock <= now PROVE PastRow(stored, now) /\ PastTasks(clerk, now)
<1>1. \A r \in Inbox!Row \union {None} : PastRow(r, clock) => PastRow(r, now)
  BY RowFields, InboxTyped DEF PastRow
<1>2. \A w \in Workers : Asks(clerk[w]) => clerk[w].row \in Inbox!Row \union {None} /\ clerk[w].at \in Nat
  BY InboxTyped, ClerkFields, TimeAssumption DEF Asks, Inbox!Time
<1>3. PastTasks(clerk, now)
  BY <1>1, <1>2, InboxTyped DEF InboxInv, PastTasks
<1> QED
  BY <1>1, <1>3, InboxTyped DEF InboxInv

\* A worker that brings no message, or goes on with the one it brought.
LEMMA WrittenOnceKeeps ==
    ASSUME NEW T, NEW U, NEW w \in Workers, \A v \in Workers \ {w} : U[v] = T[v], NEW L, WrittenOnce(T, L),
           Brings(U[w]) => Brings(T[w]) /\ U[w].id = T[w].id
    PROVE  WrittenOnce(U, L)
  BY DEF WrittenOnce
LEMMA TakenKeeps ==
    ASSUME NEW T, NEW U, NEW w \in Workers, \A v \in Workers \ {w} : U[v] = T[v], NEW P, NEW S,
           TakenIsReported(T, P, S),
           Brings(U[w]) => Brings(T[w]) /\ U[w].id = T[w].id /\ U[w].status = T[w].status
    PROVE  TakenIsReported(U, P, S)
  BY DEF TakenIsReported

\* A step of one worker that leaves the log, the row and the reports alone and brings no
\* message of its own.
LEMMA ClerkStep ==
    ASSUME InboxInv, NEW w \in Workers, NEW t \in Inbox!Task \union {None},
           clerk' = [clerk EXCEPT ![w] = t], clock' \in 0..MaxTime, clock <= clock',
           UNCHANGED <<log, stored, pings, thread, archived, crossed, spoilt>>,
           Brings(t) => Brings(clerk[w]) /\ t.id = clerk[w].id /\ t.status = clerk[w].status,
           Asks(t) => PastRow(t.row, clock') /\ t.at <= clock' /\ (t.at # 0 => t.at > Deleted(t.row))
    PROVE  InboxInv'
<1>1. /\ clerk' \in [Workers -> Inbox!Task \union {None}] /\ clerk'[w] = t
      /\ \A v \in Workers \ {w} : clerk'[v] = clerk[v]
  BY InboxTyped
<1>2. Inbox!TypeOK'
  BY <1>1 DEF InboxInv, Inbox!TypeOK
<1>3. clock' \in Nat
  BY TimeAssumption
<1>4. PastRow(stored, clock') /\ PastTasks(clerk, clock')
  BY <1>3, TimePasses
<1>5. PastTasks(clerk', clock')
  BY <1>1, <1>4 DEF PastTasks
<1>6. WrittenOnce(clerk', log)
  BY <1>1, WrittenOnceKeeps DEF InboxInv
<1>7. TakenIsReported(clerk', pings, spoilt)
  BY <1>1, TakenKeeps DEF InboxInv
<1>8. Inbox!InboxIsExact'
  BY DEF InboxInv, Inbox!InboxIsExact, Inbox!Shown, Inbox!Archived
<1> QED
  BY <1>2, <1>4, <1>5, <1>6, <1>7, <1>8, InboxParts DEF InboxInv

LEMMA DieOK == ASSUME InboxInv, NEW w \in Workers, Inbox!Die(w) PROVE InboxInv'
<1>1. /\ clerk' = [clerk EXCEPT ![w] = None]
      /\ UNCHANGED <<clock, log, stored, pings, thread, archived, crossed, spoilt>>
  BY DEF Inbox!Die, Inbox!Done, Inbox!wanted
<1>2. ~Brings(None) /\ ~Asks(None) /\ clock' \in 0..MaxTime /\ clock <= clock'
  BY <1>1, InboxTyped DEF Brings, Asks
<1> QED
  BY <1>1, <1>2, ClerkStep

LEMMA AskOK ==
    ASSUME InboxInv, NEW w \in Workers, NEW op \in {"archive", "restore", "delete"}, Inbox!Ask(w, op)
    PROVE  InboxInv'
<1> DEFINE t == [op |-> op, row |-> stored, at |-> 0]
<1>1. /\ clerk' = [clerk EXCEPT ![w] = t]
      /\ UNCHANGED <<clock, log, stored, pings, thread, archived, crossed, spoilt>>
  BY DEF Inbox!Ask, Inbox!Begin, Inbox!wanted
<1>2. t \in Inbox!Task /\ t.op = op /\ t.row = stored /\ t.at = 0
  BY InboxTyped DEF Inbox!Task
<1> HIDE DEF t
<1>3. PastRow(t.row, clock')
  BY <1>1, <1>2 DEF InboxInv
<1>4. ~Brings(t) /\ clock' \in 0..MaxTime /\ clock <= clock' /\ t.at <= clock'
  BY <1>1, <1>2, InboxTyped DEF Brings
<1> QED
  BY <1>1, <1>2, <1>3, <1>4, ClerkStep

\* The time is taken after the row was loaded, so it is later than every time in it.
LEMMA NowOK == ASSUME InboxInv, NEW w \in Workers, Inbox!Now(w) PROVE InboxInv'
<1> DEFINE o == clerk[w]
           t == [o EXCEPT !.at = clock']
<1>1. o \in Inbox!Task /\ Asks(o) /\ o.op \in {"archive", "restore", "delete"}
  BY InboxTyped DEF Inbox!Now, Asks
<1>2. clock < MaxTime /\ clock' = clock + 1
  BY DEF Inbox!Now, Inbox!Tick
<1>3. /\ clerk' = [clerk EXCEPT ![w] = t]
      /\ UNCHANGED <<log, stored, pings, thread, archived, crossed, spoilt>>
  BY DEF Inbox!Now, Inbox!wanted
<1>4. o.row \in Inbox!Row \union {None} /\ PastRow(o.row, clock)
  BY <1>1, ClerkFields DEF InboxInv, PastTasks
<1>5. clock' \in Inbox!Time /\ clock' \in 0..MaxTime /\ clock <= clock'
  BY <1>2, InboxTyped, TimeAssumption DEF Inbox!Time
<1>6. o \in [op : {"archive", "restore", "delete"}, row : Inbox!Row \union {None}, at : {0} \union Inbox!Time]
  BY <1>1 DEF Inbox!Task
<1>7. t \in Inbox!Task /\ t.row = o.row /\ t.at = clock' /\ t.op = o.op
  BY <1>5, <1>6 DEF Inbox!Task
<1> HIDE DEF t, o
<1>8. Deleted(t.row) < clock' /\ Hidden(t.row) < clock'
  BY <1>2, <1>4, <1>7, RowFields, InboxTyped DEF PastRow
<1>9. PastRow(t.row, clock') /\ t.at <= clock' /\ t.at > Deleted(t.row)
  BY <1>2, <1>4, <1>7, <1>8, RowFields, InboxTyped DEF PastRow
<1>10. ~Brings(t)
  BY <1>1, <1>7 DEF Brings
<1> QED
  BY <1>3, <1>5, <1>7, <1>9, <1>10, ClerkStep

LEMMA StampOK == ASSUME InboxInv, NEW w \in Workers, Inbox!Stamp(w) PROVE InboxInv'
<1> DEFINE o == clerk[w]
           t == [op |-> "write", id |-> o.id, at |-> clock', status |-> o.status]
<1>1. o \in Inbox!Task /\ o.op = "send" /\ Brings(o)
  BY InboxTyped DEF Inbox!Stamp, Brings
<1>2. clock < MaxTime /\ clock' = clock + 1
  BY DEF Inbox!Stamp, Inbox!Tick
<1>3. /\ clerk' = [clerk EXCEPT ![w] = t]
      /\ UNCHANGED <<log, stored, pings, thread, archived, crossed, spoilt>>
  BY DEF Inbox!Stamp, Inbox!wanted
<1>4. clock' \in Inbox!Time /\ clock' \in 0..MaxTime /\ clock <= clock'
  BY <1>2, InboxTyped, TimeAssumption DEF Inbox!Time
<1>5. o.id \in Messages /\ o.status \in {"received", "queued", "FAILED"}
  BY <1>1, ClerkFields
<1>6. t \in Inbox!Task /\ t.op = "write" /\ t.id = o.id /\ t.status = o.status
  BY <1>4, <1>5 DEF Inbox!Task
<1> HIDE DEF t
<1>7. ~Asks(t)
  BY <1>6 DEF Asks
<1> QED
  BY <1>1, <1>3, <1>4, <1>6, <1>7, ClerkStep

\* Nobody else is bringing a new message, and nothing was reported of it.
LEMMA NewMessage ==
    ASSUME InboxInv, NEW m \in Messages, Inbox!New(m)
    PROVE  /\ log[m] = None /\ ToldOf(pings, m) = {}
           /\ \A w \in Workers : Brings(clerk[w]) => clerk[w].id # m
  BY DEF Inbox!New, Inbox!Underway, ToldOf, Brings

LEMMA ReceiveOK == ASSUME InboxInv, NEW w \in Workers, NEW m \in Messages, Inbox!Receive(w, m) PROVE InboxInv'
<1> DEFINE t == [op |-> "write", id |-> m, at |-> clock', status |-> "received"]
<1>1. clock < MaxTime /\ clock' = clock + 1 /\ Inbox!New(m)
  BY DEF Inbox!Receive, Inbox!Tick
<1>2. /\ clerk' = [clerk EXCEPT ![w] = t]
      /\ UNCHANGED <<log, stored, pings, thread, archived, crossed, spoilt>>
  BY DEF Inbox!Receive, Inbox!Begin, Inbox!wanted
<1>3. clock' \in Inbox!Time /\ clock' \in 0..MaxTime /\ clock <= clock' /\ clock' \in Nat
  BY <1>1, InboxTyped, TimeAssumption DEF Inbox!Time
<1>4. t \in Inbox!Task /\ t.op = "write" /\ t.id = m /\ t.status = "received"
  BY <1>3 DEF Inbox!Task
<1> HIDE DEF t
<1>5. /\ clerk' \in [Workers -> Inbox!Task \union {None}] /\ clerk'[w] = t
      /\ \A v \in Workers \ {w} : clerk'[v] = clerk[v]
  BY <1>2, <1>4, InboxTyped
<1>6. Inbox!TypeOK'
  BY <1>2, <1>3, <1>5 DEF InboxInv, Inbox!TypeOK
<1>7. PastRow(stored, clock') /\ PastTasks(clerk, clock')
  BY <1>3, TimePasses
<1>8. PastTasks(clerk', clock')
  BY <1>4, <1>5, <1>7 DEF PastTasks, Asks
<1>9. WrittenOnce(clerk', log)
  BY <1>1, <1>4, <1>5, NewMessage DEF InboxInv, WrittenOnce
<1>10. TakenIsReported(clerk', pings, spoilt)
  BY <1>1, <1>4, <1>5, NewMessage DEF InboxInv, TakenIsReported
<1>11. Inbox!InboxIsExact'
  BY <1>2 DEF InboxInv, Inbox!InboxIsExact, Inbox!Shown, Inbox!Archived
<1> QED
  BY <1>2, <1>6, <1>7, <1>8, <1>9, <1>10, <1>11, InboxParts DEF InboxInv

\* The reports that a taken message will get are about that message only.
LEMMA InboxSendOK ==
    ASSUME InboxInv, NEW w \in Workers, NEW m \in Messages, NEW got \in BOOLEAN, Inbox!Send(w, m, got)
    PROVE  InboxInv'
<1> DEFINE t == [op |-> "send", id |-> m, status |-> IF got THEN "queued" ELSE "FAILED"]
           P == IF got THEN pings \union {<<m, "sent">>, <<m, "delivered">>} ELSE pings
<1>1. /\ clerk' = [clerk EXCEPT ![w] = t] /\ pings' = P /\ Inbox!New(m)
      /\ UNCHANGED <<clock, log, stored, thread, archived, crossed, spoilt>>
  BY DEF Inbox!Send, Inbox!Begin, Inbox!wanted
<1>2. /\ t \in Inbox!Task /\ t.op = "send" /\ t.id = m
      /\ (got => t.status = "queued") /\ (~got => t.status = "FAILED")
  BY DEF Inbox!Task
<1>3. /\ P \subseteq Messages \X {"sent", "delivered"} /\ pings \subseteq P
      /\ \A k \in Messages \ {m} : ToldOf(P, k) = ToldOf(pings, k)
      /\ (got => <<m, "delivered">> \in P) /\ (~got => P = pings)
  BY InboxTyped DEF ToldOf
<1> HIDE DEF t, P
<1>4. /\ clerk' \in [Workers -> Inbox!Task \union {None}] /\ clerk'[w] = t
      /\ \A v \in Workers \ {w} : clerk'[v] = clerk[v]
  BY <1>1, <1>2, InboxTyped
<1>5. Inbox!TypeOK'
  BY <1>1, <1>3, <1>4 DEF InboxInv, Inbox!TypeOK
<1>6. PastTasks(clerk', clock)
  BY <1>2, <1>4 DEF InboxInv, PastTasks, Asks
<1>7. WrittenOnce(clerk', log)
  BY <1>1, <1>2, <1>4, NewMessage DEF InboxInv, WrittenOnce
<1>8. TakenIsReported(clerk', P, spoilt)
  <2>1. \A v \in Workers \ {w} : Brings(clerk[v]) => clerk[v].id \in Messages \ {m}
    BY <1>1, NewMessage, InboxTyped, ClerkFields DEF Brings
  <2>2. \A v \in Workers \ {w} : Brings(clerk'[v]) =>
            IF clerk'[v].status = "queued" THEN clerk'[v].id \in spoilt \/ <<clerk'[v].id, "delivered">> \in P
            ELSE ToldOf(P, clerk'[v].id) = {}
    BY <1>3, <1>4, <2>1 DEF InboxInv, TakenIsReported
  <2>3. Brings(t) => IF t.status = "queued" THEN t.id \in spoilt \/ <<t.id, "delivered">> \in P
                     ELSE ToldOf(P, t.id) = {}
    BY <1>1, <1>2, <1>3, NewMessage
  <2> QED
    BY <1>4, <2>2, <2>3 DEF TakenIsReported
<1>9. LoggedIsReported(log, P, spoilt)
  BY <1>1, <1>3, NewMessage DEF InboxInv, LoggedIsReported
<1>10. Inbox!InboxIsExact'
  BY <1>1 DEF InboxInv, Inbox!InboxIsExact, Inbox!Shown, Inbox!Archived
<1> QED
  BY <1>1, <1>5, <1>6, <1>7, <1>8, <1>9, <1>10, InboxParts DEF InboxInv

\* The message gets its row: it is shown, or the thread was deleted after it was stamped.
LEMMA WriteOK == ASSUME InboxInv, NEW w \in Workers, Inbox!Write(w) PROVE InboxInv'
<1> DEFINE t == clerk[w]
           m == t.id
           x == [at |-> t.at, status |-> t.status]
           L == [log EXCEPT ![m] = x]
<1>1. t \in Inbox!Task /\ t.op = "write" /\ Brings(t) /\ m \in Messages /\ t.at \in Inbox!Time
      /\ t.status \in {"received", "queued", "FAILED"}
  BY InboxTyped, ClerkFields DEF Inbox!Write, Brings
<1>2. /\ log' = L /\ thread' = thread \union {m} /\ clerk' = [clerk EXCEPT ![w] = None]
      /\ crossed' = (crossed \/ (stored # None /\ t.at <= stored.deleted_at))
      /\ UNCHANGED <<clock, stored, pings, archived, spoilt>>
  BY DEF Inbox!Write, Inbox!Done
<1>3. x \in Inbox!Message /\ x.at = t.at /\ x.status = t.status
  BY <1>1 DEF Inbox!Message, Inbox!Status
<1>4. TakenIsReported(clerk, pings, spoilt) /\ WrittenOnce(clerk, log)
  BY DEF InboxInv
<1>5. IF t.status = "queued" THEN m \in spoilt \/ <<m, "delivered">> \in pings ELSE ToldOf(pings, m) = {}
  BY <1>1, <1>4 DEF TakenIsReported
<1>6. \A v \in Workers \ {w} : Brings(clerk[v]) => clerk[v].id # m
  BY <1>1, <1>4 DEF WrittenOnce
<1> HIDE DEF t, m, x
<1>7. /\ L \in [Messages -> Inbox!Message \union {None}] /\ L[m] = x
      /\ \A k \in Messages \ {m} : L[k] = log[k]
  BY <1>1, <1>3, InboxTyped
<1>8. /\ clerk' \in [Workers -> Inbox!Task \union {None}] /\ clerk'[w] = None
      /\ \A v \in Workers \ {w} : clerk'[v] = clerk[v]
  BY <1>2, InboxTyped
<1> HIDE DEF L
<1>9. thread' \subseteq Messages /\ crossed' \in BOOLEAN
  BY <1>1, <1>2, InboxTyped
<1>10. Inbox!TypeOK'
  BY <1>2, <1>7, <1>8, <1>9 DEF InboxInv, Inbox!TypeOK
<1>11. PastTasks(clerk', clock)
  BY <1>8 DEF InboxInv, PastTasks, Asks
<1>12. WrittenOnce(clerk', L)
  <2>1. \A v \in Workers : Brings(clerk'[v]) => clerk'[v].id \in Messages \ {m} /\ Brings(clerk[v])
    BY <1>6, <1>8, InboxTyped, ClerkFields DEF Brings
  <2>2. \A v \in Workers : Brings(clerk'[v]) => L[clerk'[v].id] = None
    BY <1>4, <1>7, <1>8, <2>1 DEF WrittenOnce, Brings
  <2> QED
    BY <1>4, <1>8, <2>1, <2>2 DEF WrittenOnce, Brings
<1>13. TakenIsReported(clerk', pings, spoilt)
  BY <1>4, <1>8 DEF TakenIsReported, Brings
<1>14. LoggedIsReported(L, pings, spoilt)
  BY <1>1, <1>3, <1>5, <1>7 DEF InboxInv, LoggedIsReported
<1>15. Inbox!InboxIsExact'
  <2>1. SUFFICES ASSUME ~crossed'
                 PROVE  {k \in Messages : Inbox!Shown(k)}' = thread' /\ Inbox!Archived' = archived'
    BY DEF Inbox!InboxIsExact
  <2>2. ~crossed /\ (stored = None \/ ~(t.at <= stored.deleted_at))
    BY <1>2, <2>1
  <2>3. {k \in Messages : Inbox!Shown(k)} = thread /\ Inbox!Archived = archived
    BY <2>2 DEF InboxInv, Inbox!InboxIsExact
  <2> PICK id \in Messages : id = m
    BY <1>1
  <2>4. \A k \in Messages \ {id} : Inbox!Shown(k)' <=> Inbox!Shown(k)
    BY <1>2, <1>7 DEF Inbox!Shown
  <2>5. Inbox!Shown(id)'
    <3>1. x # None /\ x.at \in Nat /\ (stored # None => stored.deleted_at \in Nat)
      BY <1>3, MessageFields, RowFields, InboxTyped
    <3>2. stored # None => x.at > stored.deleted_at
      BY <1>3, <2>2, <3>1
    <3>3. log'[id] = x /\ stored' = stored
      BY <1>2, <1>7
    <3>4. log'[id] # None /\ (stored' = None \/ log'[id].at > stored'.deleted_at)
      BY <3>1, <3>2, <3>3
    <3> QED
      BY <3>4 DEF Inbox!Shown
  <2>6. {k \in Messages : Inbox!Shown(k)'} = thread \union {id}
    <3>1. \A k \in Messages : k \in thread <=> Inbox!Shown(k)
      BY <2>3
    <3>2. \A k \in Messages : k \in thread \union {id} <=> Inbox!Shown(k)'
      BY <2>4, <2>5, <3>1
    <3> QED
      BY <1>1, <3>2, InboxTyped
  <2> QED
    BY <1>2, <2>3, <2>6 DEF Inbox!Archived
<1> QED
  BY <1>2, <1>10, <1>11, <1>12, <1>13, <1>14, <1>15, InboxParts DEF InboxInv

\* A report that comes before the row, or after the message was delivered, spoils it; any
\* other takes the message on.
LEMMA InboxReportOK ==
    ASSUME InboxInv, NEW m \in Messages, NEW status \in {"sent", "delivered"}, Inbox!Report(m, status)
    PROVE  InboxInv'
<1> DEFINE P == pings \ {<<m, status>>}
<1>1. <<m, status>> \in pings /\ pings' = P
      /\ UNCHANGED <<clock, stored, clerk, thread, archived, crossed>>
  BY DEF Inbox!Report, Inbox!wanted
<1>2. /\ P \subseteq pings /\ P \subseteq Messages \X {"sent", "delivered"}
      /\ \A k \in Messages : k # m \/ status # "delivered" =>
             (<<k, "delivered">> \in pings => <<k, "delivered">> \in P)
      /\ \A k : ToldOf(P, k) \subseteq ToldOf(pings, k)
      /\ ToldOf(pings, m) # {}
  BY <1>1, InboxTyped DEF ToldOf
<1> HIDE DEF P
<1>3. PastRow(stored, clock) /\ PastTasks(clerk, clock) /\ WrittenOnce(clerk, log)
      /\ TakenIsReported(clerk, pings, spoilt) /\ LoggedIsReported(log, pings, spoilt)
  BY DEF InboxInv
<1>4. CASE log[m] = None /\ spoilt' = spoilt \union {m} /\ UNCHANGED log
  <2>1. Inbox!TypeOK'
    BY <1>1, <1>2, <1>4 DEF InboxInv, Inbox!TypeOK
  <2>2. TakenIsReported(clerk, P, spoilt')
    <3>1. \A w \in Workers : Brings(clerk[w]) => clerk[w].id \in Messages
      BY InboxTyped, ClerkFields DEF Brings
    <3> QED
      BY <1>2, <1>3, <1>4, <3>1 DEF TakenIsReported
  <2>3. LoggedIsReported(log, P, spoilt')
    BY <1>2, <1>3, <1>4 DEF LoggedIsReported
  <2>4. Inbox!InboxIsExact'
    BY <1>1, <1>4 DEF InboxInv, Inbox!InboxIsExact, Inbox!Shown, Inbox!Archived
  <2> QED
    BY <1>1, <1>3, <1>4, <2>1, <2>2, <2>3, <2>4, InboxParts
<1>5. CASE /\ log[m] # None
           /\ log' = [log EXCEPT ![m].status = status]
           /\ spoilt' = IF log[m].status = "delivered" THEN spoilt \union {m} ELSE spoilt
  <2> DEFINE x == [log[m] EXCEPT !.status = status]
             L == [log EXCEPT ![m] = x]
  <2>1. log[m] \in Inbox!Message
    BY <1>5, InboxTyped
  <2>2. x \in Inbox!Message /\ x.at = log[m].at /\ x.status = status
    BY <2>1 DEF Inbox!Message, Inbox!Status
  <2>3. log' = L
    BY <1>5
  <2> HIDE DEF x
  <2>4. /\ L \in [Messages -> Inbox!Message \union {None}] /\ L[m] = x
        /\ \A k \in Messages \ {m} : L[k] = log[k]
    BY <2>2, InboxTyped
  <2> HIDE DEF L
  <2>5. spoilt' \subseteq Messages /\ spoilt \subseteq spoilt'
    BY <1>5, InboxTyped
  <2>6. Inbox!TypeOK'
    BY <1>1, <1>2, <2>3, <2>4, <2>5 DEF InboxInv, Inbox!TypeOK
  <2>7. \A w \in Workers : Brings(clerk[w]) => clerk[w].id \in Messages \ {m}
    BY <1>3, <1>5, InboxTyped, ClerkFields DEF Brings, WrittenOnce
  <2>8. WrittenOnce(clerk, L)
    BY <1>3, <2>4, <2>7 DEF WrittenOnce
  <2>9. TakenIsReported(clerk, P, spoilt')
    <3>1. \A w \in Workers : Brings(clerk[w]) =>
              IF clerk[w].status = "queued"
              THEN clerk[w].id \in spoilt' \/ <<clerk[w].id, "delivered">> \in P
              ELSE ToldOf(P, clerk[w].id) = {}
      BY <1>2, <1>3, <2>5, <2>7 DEF TakenIsReported
    <3> QED
      BY <3>1 DEF TakenIsReported
  <2>10. LoggedIsReported(L, P, spoilt')
    <3>1. \A k \in Messages \ {m} : L[k] # None =>
              /\ (L[k].status \in {"queued", "sent"} => k \in spoilt' \/ <<k, "delivered">> \in P)
              /\ (L[k].status \in {"received", "FAILED"} => ToldOf(P, k) = {})
      BY <1>2, <1>3, <2>4, <2>5 DEF LoggedIsReported
    <3>2. log[m].status \in {"queued", "sent", "delivered"}
      BY <1>2, <1>3, <1>5, <2>1, MessageFields DEF LoggedIsReported
    <3>3. x.status = "sent" => m \in spoilt' \/ <<m, "delivered">> \in P
      <4>1. CASE log[m].status = "delivered"
        BY <1>5, <4>1
      <4>2. CASE log[m].status \in {"queued", "sent"}
        <5>1. m \in spoilt \/ <<m, "delivered">> \in pings
          BY <1>3, <1>5, <4>2 DEF LoggedIsReported
        <5> QED
          BY <1>2, <2>2, <2>5, <5>1
      <4> QED
        BY <3>2, <4>1, <4>2
    <3>4. x.status \in {"sent", "delivered"}
      BY <2>2
    <3> QED
      BY <2>4, <3>1, <3>3, <3>4 DEF LoggedIsReported
  <2>11. Inbox!InboxIsExact'
    <3>1. \A k \in Messages : L[k] # None <=> log[k] # None
      BY <1>5, <2>2, <2>4, MessageFields
    <3>2. \A k \in Messages : log[k] # None => L[k].at = log[k].at
      BY <2>2, <2>4
    <3>3. \A k \in Messages : Inbox!Shown(k)' <=> Inbox!Shown(k)
      BY <1>1, <2>3, <3>1, <3>2 DEF Inbox!Shown
    <3> QED
      BY <1>1, <3>3 DEF InboxInv, Inbox!InboxIsExact, Inbox!Archived
  <2> QED
    BY <1>1, <1>3, <2>3, <2>6, <2>8, <2>9, <2>10, <2>11, InboxParts
<1> QED
  BY <1>4, <1>5 DEF Inbox!Report, Inbox!Overwrites

\* The row that a request loaded, or starts from.
RowOf(r) == IF r = None THEN Inbox!NoRow ELSE r

LEMMA RowOfFields ==
    ASSUME NEW r \in Inbox!Row \union {None}
    PROVE  RowOf(r) \in Inbox!Row /\ RowOf(r).deleted_at = Deleted(r) /\ RowOf(r).archived_at = Hidden(r)
<1>1. /\ Inbox!NoRow \in Inbox!Row /\ Inbox!NoRow.deleted_at = 0 /\ Inbox!NoRow.archived_at = 0
  BY DEF Inbox!NoRow, Inbox!Row
<1> QED
  BY <1>1, RowFields DEF RowOf, Deleted, Hidden

\* What a request makes of the row it loaded.
LEMMA ChangedFields ==
    ASSUME NEW t \in Inbox!Task, t.op \in {"archive", "restore", "delete"}, t.at \in Inbox!Time,
           t.row \in Inbox!Row \union {None}
    PROVE  LET c == Inbox!Changed(t) IN
           /\ c \in Inbox!Row
           /\ t.op = "archive" => c.archived_at = t.at /\ c.deleted_at = Deleted(t.row)
           /\ t.op = "restore" => c.archived_at = 0 /\ c.deleted_at = Deleted(t.row)
           /\ t.op = "delete" => c.archived_at = 0 /\ c.deleted_at = t.at
<1> DEFINE o == RowOf(t.row)
<1>1. o \in Inbox!Row /\ o.deleted_at = Deleted(t.row)
  BY RowOfFields
<1>2. Inbox!Loaded(t) = o
  BY DEF Inbox!Loaded, RowOf
<1> HIDE DEF o
<1>3. CASE t.op = "archive"
  <2>1. Inbox!Changed(t) = [o EXCEPT !.archived_at = t.at]
    BY <1>2, <1>3 DEF Inbox!Changed
  <2>2. [o EXCEPT !.archived_at = t.at] \in Inbox!Row
    BY <1>1 DEF Inbox!Row
  <2> QED
    BY <1>1, <1>3, <2>1, <2>2 DEF Inbox!Row
<1>4. CASE t.op = "restore"
  <2>1. Inbox!Changed(t) = [o EXCEPT !.archived_at = 0]
    BY <1>2, <1>4 DEF Inbox!Changed
  <2>2. [o EXCEPT !.archived_at = 0] \in Inbox!Row
    BY <1>1 DEF Inbox!Row
  <2> QED
    BY <1>1, <1>4, <2>1, <2>2 DEF Inbox!Row
<1>5. CASE t.op = "delete"
  <2>1. Inbox!Changed(t) = [archived_at |-> 0, deleted_at |-> t.at]
    BY <1>5 DEF Inbox!Changed
  <2> QED
    BY <1>5, <2>1 DEF Inbox!Row
<1> QED
  BY <1>3, <1>4, <1>5

\* The row is written field by field. If nobody wrote it since it was loaded, it is what the
\* request made of it, and the thread is in the place where the staff asked for it.
LEMMA SettleOK == ASSUME InboxInv, NEW w \in Workers, Inbox!Settle(w) PROVE InboxInv'
<1> PICK t \in Inbox!Task : t = clerk[w]
  BY InboxTyped DEF Inbox!Settle
<1> DEFINE there == RowOf(stored)
           from == Inbox!Loaded(t)
           to == Inbox!Changed(t)
<1>1. /\ t.op \in {"archive", "restore", "delete"} /\ t.at # 0 /\ Asks(t)
      /\ t.row \in Inbox!Row \union {None} /\ t.at \in Inbox!Time /\ t.at \in Nat
  BY ClerkFields DEF Inbox!Settle, Asks, Inbox!Time
<1>2. PastRow(t.row, clock) /\ t.at <= clock /\ t.at > Deleted(t.row)
  BY <1>1 DEF InboxInv, PastTasks
<1>3. clerk' = [clerk EXCEPT ![w] = None] /\ UNCHANGED <<clock, log, pings, spoilt>>
  BY DEF Inbox!Settle, Inbox!Done
<1>4. CASE UNCHANGED <<stored, thread, archived, crossed>>
  <2>1. ~Brings(None) /\ ~Asks(None) /\ clock' \in 0..MaxTime /\ clock <= clock'
    BY <1>3, InboxTyped DEF Brings, Asks
  <2> QED
    BY <1>3, <1>4, <2>1, ClerkStep
<1>5. CASE /\ stored' = [c \in DOMAIN there |-> IF to[c] = from[c] THEN there[c] ELSE to[c]]
           /\ archived' = (t.op = "archive")
           /\ thread' = IF t.op = "delete" THEN {m \in thread : log[m].at > t.at} ELSE thread
           /\ crossed' = (crossed \/ t.row # stored)
  <2>1. there \in Inbox!Row /\ there.deleted_at = Deleted(stored) /\ there.archived_at = Hidden(stored)
    BY InboxTyped, RowOfFields
  <2>2. from \in Inbox!Row /\ from = RowOf(t.row) /\ from.deleted_at = Deleted(t.row)
        /\ from.archived_at = Hidden(t.row)
    <3>1. from = RowOf(t.row)
      BY DEF Inbox!Loaded, RowOf
    <3> HIDE DEF from
    <3> QED
      BY <1>1, <3>1, RowOfFields
  <2>3. /\ to \in Inbox!Row
        /\ t.op = "archive" => to.archived_at = t.at /\ to.deleted_at = Deleted(t.row)
        /\ t.op = "restore" => to.archived_at = 0 /\ to.deleted_at = Deleted(t.row)
        /\ t.op = "delete" => to.archived_at = 0 /\ to.deleted_at = t.at
    BY <1>1, ChangedFields
  <2> HIDE DEF there, from, to
  <2>4. /\ stored' \in Inbox!Row
        /\ stored'.archived_at =
               IF to.archived_at = from.archived_at THEN there.archived_at ELSE to.archived_at
        /\ stored'.deleted_at =
               IF to.deleted_at = from.deleted_at THEN there.deleted_at ELSE to.deleted_at
    BY <1>5, <2>1, <2>2, <2>3, RowMade
  <2>5. /\ clerk' \in [Workers -> Inbox!Task \union {None}] /\ clerk'[w] = None
        /\ \A v \in Workers \ {w} : clerk'[v] = clerk[v]
    BY <1>3, InboxTyped
  <2>6. Inbox!TypeOK'
    <3>1. thread' \subseteq Messages /\ archived' \in BOOLEAN /\ crossed' \in BOOLEAN
      BY <1>5, InboxTyped
    <3> QED
      BY <1>3, <2>4, <2>5, <3>1 DEF InboxInv, Inbox!TypeOK
  <2>7. PastRow(stored', clock)
    <3>1. /\ Deleted(stored) <= clock /\ Hidden(stored) <= clock
          /\ Deleted(t.row) <= clock /\ Hidden(t.row) <= clock /\ 0 <= clock
      BY <1>2, InboxTyped DEF InboxInv, PastRow
    <3>2. to.archived_at <= clock /\ to.deleted_at <= clock
      BY <1>1, <1>2, <2>3, <3>1
    <3>3. stored'.archived_at <= clock /\ stored'.deleted_at <= clock
      BY <2>1, <2>4, <3>1, <3>2
    <3>4. stored' # None /\ Deleted(stored') = stored'.deleted_at /\ Hidden(stored') = stored'.archived_at
      BY <2>4, NoneAssumption DEF Deleted, Hidden
    <3> QED
      BY <3>3, <3>4 DEF PastRow
  <2>8. PastTasks(clerk', clock)
    BY <2>5 DEF InboxInv, PastTasks, Asks
  <2>9. WrittenOnce(clerk', log) /\ TakenIsReported(clerk', pings, spoilt)
    BY <2>5 DEF InboxInv, WrittenOnce, TakenIsReported, Brings
  <2>10. Inbox!InboxIsExact'
    <3>1. SUFFICES ASSUME ~crossed'
                   PROVE  {k \in Messages : Inbox!Shown(k)}' = thread' /\ Inbox!Archived' = archived'
      BY DEF Inbox!InboxIsExact
    <3>2. ~crossed /\ t.row = stored
      BY <1>5, <3>1
    <3>3. {k \in Messages : Inbox!Shown(k)} = thread /\ Inbox!Archived = archived
      BY <3>2 DEF InboxInv, Inbox!InboxIsExact
    <3>4. there = from
      BY <2>2, <3>2 DEF there
    <3>5. stored'.archived_at = to.archived_at /\ stored'.deleted_at = to.deleted_at /\ stored' # None
      BY <2>4, <3>4, NoneAssumption
    <3>6. Inbox!Archived' = archived'
      <4>1. Deleted(t.row) \in Nat
        BY <1>1, RowFields
      <4>2. (to.archived_at > to.deleted_at) = (t.op = "archive")
        BY <1>1, <1>2, <2>3, <4>1
      <4> QED
        BY <1>5, <3>5, <4>2 DEF Inbox!Archived
    <3>7. \A k \in Messages : Inbox!Shown(k)' <=> log[k] # None /\ log[k].at > to.deleted_at
      BY <1>3, <3>5 DEF Inbox!Shown
    <3>8. \A k \in Messages : k \in thread <=> log[k] # None /\ log[k].at > Deleted(t.row)
      <4>1. \A k \in Messages : k \in thread <=> Inbox!Shown(k)
        BY <3>3
      <4>2. \A k \in Messages : log[k] # None => log[k].at \in Nat /\ log[k].at > 0
        BY InboxTyped, MessageFields
      <4>3. \A k \in Messages : Inbox!Shown(k) <=> log[k] # None /\ log[k].at > Deleted(stored)
        BY <4>2 DEF Inbox!Shown, Deleted
      <4> QED
        BY <3>2, <4>1, <4>3
    <3>9. \A k \in Messages : k \in thread' <=> Inbox!Shown(k)'
      <4>1. CASE t.op = "delete"
        <5>1. \A k \in Messages : log[k] # None => log[k].at \in Nat
          BY InboxTyped, MessageFields
        <5>2. Deleted(t.row) \in Nat
          BY <1>1, RowFields
        <5>3. \A k \in Messages : log[k] # None /\ log[k].at > t.at => log[k].at > Deleted(t.row)
          BY <1>1, <1>2, <5>1, <5>2
        <5> QED
          BY <1>5, <2>3, <3>7, <3>8, <4>1, <5>3
      <4>2. CASE t.op \in {"archive", "restore"}
        BY <1>5, <2>3, <3>7, <3>8, <4>2
      <4> QED
        BY <1>1, <4>1, <4>2
    <3>10. {k \in Messages : Inbox!Shown(k)'} = thread'
      <4>1. thread' \subseteq Messages
        BY <1>5, InboxTyped
      <4> QED
        BY <3>9, <4>1
    <3> QED
      BY <3>6, <3>10
  <2> QED
    BY <1>3, <2>6, <2>7, <2>8, <2>9, <2>10, InboxParts DEF InboxInv
<1>6. \/ UNCHANGED <<stored, thread, archived, crossed>>
      \/ /\ stored' = [c \in DOMAIN there |-> IF to[c] = from[c] THEN there[c] ELSE to[c]]
         /\ archived' = (t.op = "archive")
         /\ thread' = IF t.op = "delete" THEN {m \in thread : log[m].at > t.at} ELSE thread
         /\ crossed' = (crossed \/ t.row # stored)
  BY DEF Inbox!Settle, RowOf, Inbox!wanted
<1> QED
  BY <1>4, <1>5, <1>6

LEMMA InboxInitOK == Inbox!Init => InboxInv
<1> SUFFICES ASSUME Inbox!Init PROVE InboxInv
  OBVIOUS
<1>1. /\ clock = 0 /\ log = [m \in Messages |-> None] /\ stored = None /\ clerk = [w \in Workers |-> None]
      /\ pings = {} /\ thread = {} /\ archived = FALSE /\ crossed = FALSE /\ spoilt = {}
  BY DEF Inbox!Init
<1>2. Inbox!TypeOK
  <2>1. clock \in 0..MaxTime
    BY <1>1, TimeAssumption
  <2>2. log \in [Messages -> Inbox!Message \union {None}] /\ clerk \in [Workers -> Inbox!Task \union {None}]
    BY <1>1
  <2> QED
    BY <1>1, <2>1, <2>2 DEF Inbox!TypeOK
<1>3. PastRow(stored, clock) /\ PastTasks(clerk, clock)
  BY <1>1 DEF PastRow, Deleted, Hidden, PastTasks, Asks
<1>4. /\ WrittenOnce(clerk, log)
      /\ TakenIsReported(clerk, pings, spoilt) /\ LoggedIsReported(log, pings, spoilt)
  BY <1>1 DEF WrittenOnce, TakenIsReported, LoggedIsReported, Brings
<1>5. Inbox!InboxIsExact
  BY <1>1 DEF Inbox!InboxIsExact, Inbox!Shown, Inbox!Archived
<1> QED
  BY <1>2, <1>3, <1>4, <1>5 DEF InboxInv

LEMMA InboxStepOK == InboxInv /\ [Inbox!Next]_(Inbox!inboxVars) => InboxInv'
<1> SUFFICES ASSUME InboxInv, [Inbox!Next]_(Inbox!inboxVars) PROVE InboxInv'
  OBVIOUS
<1>1. CASE UNCHANGED Inbox!inboxVars
  BY <1>1 DEF Inbox!inboxVars, InboxInv, Inbox!TypeOK, PastRow, Deleted, Hidden, PastTasks, Asks, WrittenOnce,
              Brings, TakenIsReported, ToldOf, LoggedIsReported, Inbox!InboxIsExact, Inbox!Shown,
              Inbox!Archived
<1> QED
  BY <1>1, ReceiveOK, InboxSendOK, AskOK, StampOK, WriteOK, NowOK, SettleOK, DieOK, InboxReportOK
     DEF Inbox!Next

\* A message that does not say it was delivered was spoilt, or waits for that report.
LEMMA InboxHolds == InboxInv => Inbox!TypeOK /\ Inbox!InboxIsExact /\ Inbox!DeliveryIsTold
<1> SUFFICES ASSUME InboxInv PROVE Inbox!DeliveryIsTold
  BY DEF InboxInv
<1> SUFFICES ASSUME NEW m \in Messages, log[m] # None, m \notin spoilt,
                    log[m].status \notin {"received", "FAILED", "delivered"}
             PROVE  \E r \in pings : r[1] = m
  BY DEF Inbox!DeliveryIsTold
<1>1. log[m].status \in {"queued", "sent"}
  BY InboxTyped, MessageFields
<1>2. <<m, "delivered">> \in pings
  BY <1>1 DEF InboxInv, LoggedIsReported
<1> QED
  BY <1>2

-----------------------------------------------------------------------------
\* The inbox shows the messages since the last deletion, all of them and no other, where the
\* staff last put the thread, unless their requests overlapped; and a message the provider
\* took says so when its reports are in, unless they came out of order.
THEOREM InboxStaysExact == Spec => []InboxIsExact
<1> DEFINE Inv == focus = "inbox" => InboxInv
<1>1. Init => Inv
  BY InboxInitOK DEF Init
<1>2. Inv /\ [Next]_vars => Inv'
  <2> SUFFICES ASSUME Inv, [Next]_vars, focus' = "inbox" PROVE InboxInv'
    OBVIOUS
  <2> focus = "inbox" /\ [Inbox!Next]_(Inbox!inboxVars)
    BY DEF Next, vars, inboxVars, Inbox!inboxVars, WorkflowStep, TurnsStep, PhoneStep, VoiceStep, NotesStep,
           InboxStep
  <2> QED
    BY InboxStepOK
<1>3. Inv => InboxIsExact
  BY InboxHolds DEF InboxIsExact
<1> QED
  BY <1>1, <1>2, <1>3, PTL DEF Spec

-----------------------------------------------------------------------------

(* The assistant. Of the deliveries of a call's event the row lets one start a controller; a
   call that has a request finds it, so nothing that is being booked makes a second one. *)
Speaks(h) == h \in {"logged", "spawned"}
Asked(Q) == {t \in ToolCalls : Q[t] # None}

OneSpeaks(H) == \A c, d \in Deliveries : Speaks(H[c]) /\ Speaks(H[d]) => c = d
Running(H, n) == /\ n \in {0, 1}
                 /\ (n = 1 <=> \E d \in Deliveries : H[d] = "spawned")
OneIsAsked(Q, O) == /\ \A s, t \in Asked(Q) : s = t
                    /\ \A t \in Asked(Q) : <<Q[t].service, Q[t].slot>> \in O
AnswerIsTrue(x, Q, X) ==
    x # None /\ x.kind = "booked" => /\ x.request \in Asked(Q) /\ x.slot = Q[x.request].slot
                                     /\ (x.link => x.request \in X)
JobIsTrue(j, Q, O) ==
    j # None => IF j.found = None THEN Asked(Q) = {} /\ <<j.service, j.slot>> \in O ELSE j.found \in Asked(Q)

VoiceInv == /\ Voice!TypeOK
            /\ OneSpeaks(hook) /\ Running(hook, running)
            /\ \A d \in Deliveries : Speaks(hook[d]) => row
            /\ OneIsAsked(requests, offered)
            /\ \A t \in ToolCalls : AnswerIsTrue(answers[t], requests, texted)
            /\ JobIsTrue(busy, requests, offered)

HookPhases == {"new", "looked", "duplicate", "rejected", "accepted", "failed", "logged", "spawned", "dead"}

LEMMA VoiceTyped ==
    ASSUME VoiceInv
    PROVE  /\ hook \in [Deliveries -> HookPhases]
           /\ accepted \in BOOLEAN /\ row \in BOOLEAN /\ running \in {0, 1}
           /\ shop \in [terms : BOOLEAN, deposits : SUBSET Services]
           /\ offered \subseteq Services \X Slots /\ listed \subseteq Appts
           /\ busy \in Voice!Job \union {None} /\ answers \in [ToolCalls -> Voice!Answer \union {None}]
           /\ requests \in [ToolCalls -> Voice!Request \union {None}] /\ texted \subseteq ToolCalls
           /\ taken \subseteq Slots /\ booked \in [Appts -> Voice!Appointment]
  BY DEF VoiceInv, Voice!TypeOK, HookPhases, Running

\* What a step has to leave.
LEMMA VoiceParts ==
    ASSUME Voice!TypeOK', OneSpeaks(hook'), Running(hook', running'),
           \A d \in Deliveries : Speaks(hook'[d]) => row',
           OneIsAsked(requests', offered'),
           \A t \in ToolCalls : AnswerIsTrue(answers'[t], requests', texted'),
           JobIsTrue(busy', requests', offered')
    PROVE  VoiceInv'
  BY DEF VoiceInv, OneSpeaks, Running, Speaks, OneIsAsked, AnswerIsTrue, JobIsTrue, Asked

\* The webhook's steps, which touch no booking.
LEMMA HookStep ==
    ASSUME VoiceInv, NEW d \in Deliveries, NEW x \in HookPhases, hook' = [hook EXCEPT ![d] = x],
           accepted' \in BOOLEAN, row' \in BOOLEAN, row => row',
           UNCHANGED <<shop, offered, listed, answers, requests, texted, taken, booked>>,
           busy' \in {busy, None}, Speaks(x) => row',
           Speaks(x) => \A c \in Deliveries \ {d} : ~Speaks(hook[c]),
           running' \in {0, 1},
           running' = 1 <=> \E c \in Deliveries : (IF c = d THEN x ELSE hook[c]) = "spawned"
    PROVE  VoiceInv'
<1> DEFINE H == [hook EXCEPT ![d] = x]
<1>1. H \in [Deliveries -> HookPhases] /\ H[d] = x /\ \A c \in Deliveries \ {d} : H[c] = hook[c]
  BY VoiceTyped
<1>2. hook' = H
  OBVIOUS
<1> HIDE DEF H
<1>3. Voice!TypeOK'
  <2>1. busy' \in Voice!Job \union {None} /\ running' \in Nat
    BY VoiceTyped
  <2> QED
    BY <1>1, <1>2, <2>1, VoiceTyped DEF Voice!TypeOK, HookPhases
<1>4. OneSpeaks(H)
  BY <1>1 DEF VoiceInv, OneSpeaks
<1>5. Running(H, running')
  BY <1>1 DEF Running
<1>6. \A c \in Deliveries : Speaks(H[c]) => row'
  BY <1>1 DEF VoiceInv
<1>7. JobIsTrue(busy', requests, offered)
  BY DEF VoiceInv, JobIsTrue
<1> QED
  BY <1>2, <1>3, <1>4, <1>5, <1>6, <1>7, VoiceParts DEF VoiceInv

LEMMA HookQuiet ==
    ASSUME VoiceInv, NEW d \in Deliveries, hook[d] # "spawned", NEW x, x # "spawned"
    PROVE  running = 1 <=> \E c \in Deliveries : (IF c = d THEN x ELSE hook[c]) = "spawned"
  BY DEF VoiceInv, Running

LEMMA LookUpOK == ASSUME VoiceInv, NEW d \in Deliveries, Voice!LookUp(d) PROVE VoiceInv'
<1> DEFINE x == IF row THEN "duplicate" ELSE "looked"
<1>1. /\ hook' = [hook EXCEPT ![d] = x] /\ hook[d] = "new"
      /\ UNCHANGED <<accepted, row, running, shop, offered, listed, busy, answers, requests, texted, taken,
                     booked>>
  BY DEF Voice!LookUp
<1>2. x \in HookPhases /\ ~Speaks(x) /\ x # "spawned"
  BY DEF HookPhases, Speaks
<1> HIDE DEF x
<1>3. running = 1 <=> \E c \in Deliveries : (IF c = d THEN x ELSE hook[c]) = "spawned"
  BY <1>1, <1>2, HookQuiet
<1> QED
  BY <1>1, <1>2, <1>3, VoiceTyped, HookStep

LEMMA AcceptOK ==
    ASSUME VoiceInv, NEW d \in Deliveries, NEW refused \in BOOLEAN, Voice!Accept(d, refused) PROVE VoiceInv'
<1> DEFINE x == IF refused THEN "rejected" ELSE "accepted"
<1>1. /\ hook' = [hook EXCEPT ![d] = x] /\ hook[d] = "looked" /\ accepted' = TRUE
      /\ UNCHANGED <<row, running, shop, offered, listed, busy, answers, requests, texted, taken, booked>>
  BY DEF Voice!Accept
<1>2. x \in HookPhases /\ ~Speaks(x) /\ x # "spawned"
  BY DEF HookPhases, Speaks
<1> HIDE DEF x
<1>3. running = 1 <=> \E c \in Deliveries : (IF c = d THEN x ELSE hook[c]) = "spawned"
  BY <1>1, <1>2, HookQuiet
<1> QED
  BY <1>1, <1>2, <1>3, VoiceTyped, HookStep

\* The unique row lets one delivery through.
LEMMA LogOK == ASSUME VoiceInv, NEW d \in Deliveries, Voice!Log(d) PROVE VoiceInv'
<1> DEFINE x == IF row THEN "failed" ELSE "logged"
<1>1. /\ hook' = [hook EXCEPT ![d] = x] /\ hook[d] = "accepted" /\ row' = TRUE
      /\ UNCHANGED <<accepted, running, shop, offered, listed, busy, answers, requests, texted, taken,
                     booked>>
  BY DEF Voice!Log, Voice!LogCall
<1>2. x \in HookPhases /\ x # "spawned" /\ (Speaks(x) => ~row)
  BY DEF HookPhases, Speaks
<1> HIDE DEF x
<1>3. Speaks(x) => \A c \in Deliveries \ {d} : ~Speaks(hook[c])
  BY <1>2 DEF VoiceInv
<1>4. running = 1 <=> \E c \in Deliveries : (IF c = d THEN x ELSE hook[c]) = "spawned"
  BY <1>1, <1>2, HookQuiet
<1> QED
  BY <1>1, <1>2, <1>3, <1>4, VoiceTyped, HookStep

LEMMA SpawnOK == ASSUME VoiceInv, NEW d \in Deliveries, Voice!Spawn(d) PROVE VoiceInv'
<1>1. /\ hook' = [hook EXCEPT ![d] = "spawned"] /\ hook[d] = "logged" /\ running' = running + 1
      /\ UNCHANGED <<accepted, row, shop, offered, listed, busy, answers, requests, texted, taken, booked>>
  BY DEF Voice!Spawn
<1>2. "spawned" \in HookPhases /\ Speaks("spawned") /\ Speaks(hook[d]) /\ row
  BY <1>1 DEF HookPhases, Speaks, VoiceInv
<1>3. \A c \in Deliveries \ {d} : ~Speaks(hook[c])
  BY <1>2 DEF VoiceInv, OneSpeaks
<1>4. running = 0
  BY <1>1, <1>3, VoiceTyped DEF VoiceInv, Running, Speaks
<1>5. running' = 1 <=> \E c \in Deliveries : (IF c = d THEN "spawned" ELSE hook[c]) = "spawned"
  BY <1>1, <1>4
<1>6. accepted' \in BOOLEAN /\ row' \in BOOLEAN /\ (row => row') /\ busy' \in {busy, None}
      /\ running' \in {0, 1}
  BY <1>1, <1>4, VoiceTyped
<1>7. row'
  BY <1>1, <1>2
<1> QED
  BY <1>1, <1>2, <1>3, <1>5, <1>6, <1>7, HookStep

LEMMA VoiceCrashOK == ASSUME VoiceInv, NEW d \in Deliveries, Voice!Crash(d) PROVE VoiceInv'
<1>1. /\ hook' = [hook EXCEPT ![d] = "dead"]
      /\ running' = (IF hook[d] = "spawned" THEN running - 1 ELSE running)
      /\ busy' = (IF hook[d] = "spawned" THEN None ELSE busy)
      /\ UNCHANGED <<accepted, row, shop, offered, listed, answers, requests, texted, taken, booked>>
  BY DEF Voice!Crash
<1>2. "dead" \in HookPhases /\ ~Speaks("dead")
  BY DEF HookPhases, Speaks
<1>3. CASE hook[d] = "spawned"
  <2>1. \A c \in Deliveries \ {d} : hook[c] # "spawned"
    BY <1>3 DEF VoiceInv, OneSpeaks, Speaks
  <2>2. running = 1 /\ running' = 0
    BY <1>1, <1>3, VoiceTyped DEF VoiceInv, Running
  <2>3. running' = 1 <=> \E c \in Deliveries : (IF c = d THEN "dead" ELSE hook[c]) = "spawned"
    BY <2>1, <2>2
  <2>4. accepted' \in BOOLEAN /\ row' \in BOOLEAN /\ (row => row') /\ busy' \in {busy, None}
        /\ running' \in {0, 1}
    BY <1>1, <2>2, VoiceTyped
  <2> QED
    BY <1>1, <1>2, <2>3, <2>4, HookStep
<1>4. CASE hook[d] # "spawned"
  <2>1. running = 1 <=> \E c \in Deliveries : (IF c = d THEN "dead" ELSE hook[c]) = "spawned"
    BY <1>4, HookQuiet
  <2> QED
    BY <1>1, <1>2, <1>4, <2>1, VoiceTyped, HookStep
<1> QED
  BY <1>3, <1>4

\* The steps of the call itself, which leave the webhook alone.
LEMMA CallStep ==
    ASSUME VoiceInv, UNCHANGED <<hook, accepted, row, running, shop>>,
           offered' \subseteq Services \X Slots, listed' \subseteq Appts, busy' \in Voice!Job \union {None},
           answers' \in [ToolCalls -> Voice!Answer \union {None}],
           requests' \in [ToolCalls -> Voice!Request \union {None}], texted' \subseteq ToolCalls,
           taken' \subseteq Slots, booked' \in [Appts -> Voice!Appointment],
           OneIsAsked(requests', offered'),
           \A t \in ToolCalls : AnswerIsTrue(answers'[t], requests', texted'),
           JobIsTrue(busy', requests', offered')
    PROVE  VoiceInv'
<1>1. Voice!TypeOK'
  BY DEF VoiceInv, Voice!TypeOK
<1>2. OneSpeaks(hook) /\ Running(hook, running) /\ \A d \in Deliveries : Speaks(hook[d]) => row
  BY DEF VoiceInv
<1> QED
  BY <1>1, <1>2, VoiceParts

LEMMA CheckSlotsOK == ASSUME VoiceInv, NEW v \in Services, Voice!CheckSlots(v) PROVE VoiceInv'
<1> DEFINE O == offered \union {<<v, s>> : s \in {x \in Slots : Voice!Free(x)}}
<1>1. /\ offered' = O
      /\ UNCHANGED <<hook, accepted, row, running, shop, listed, busy, answers, requests, texted, taken,
                     booked>>
  BY DEF Voice!CheckSlots
<1>2. O \subseteq Services \X Slots /\ offered \subseteq O
  BY VoiceTyped
<1> HIDE DEF O
<1>3. OneIsAsked(requests, O) /\ JobIsTrue(busy, requests, O)
  BY <1>2 DEF VoiceInv, OneIsAsked, JobIsTrue
<1>4. \A t \in ToolCalls : AnswerIsTrue(answers[t], requests, texted)
  BY DEF VoiceInv
<1> QED
  BY <1>1, <1>2, <1>3, <1>4, VoiceTyped, CallStep

\* What a call has asked for already is what any of its tools finds.
LEMMA EarlierIs ==
    ASSUME NEW t \in ToolCalls
    PROVE  /\ Voice!Earlier(t) = Asked(requests) /\ Voice!Booked = Asked(requests)
           /\ (Asked(requests) = {} => Voice!Named(t) = None)
           /\ (Asked(requests) # {} => Voice!Named(t) \in Asked(requests))
<1>1. Voice!Booked = Asked(requests)
  BY DEF Voice!Booked, Asked
<1>2. Voice!Earlier(t) = Asked(requests)
  BY <1>1 DEF Voice!Earlier, Voice!SameRequest
<1> QED
  BY <1>1, <1>2 DEF Voice!Named

LEMMA AskBookingOK ==
    ASSUME VoiceInv, NEW t \in ToolCalls, NEW v \in Services, NEW x \in Slots, Voice!AskBooking(t, v, x)
    PROVE  VoiceInv'
<1>1. /\ busy = None
      /\ UNCHANGED <<hook, accepted, row, running, shop, offered, listed, requests, texted, taken, booked>>
  BY DEF Voice!AskBooking, Voice!Idle
<1>2. OneIsAsked(requests, offered) /\ \A u \in ToolCalls : AnswerIsTrue(answers[u], requests, texted)
  BY DEF VoiceInv
<1>3. CASE /\ Voice!ProvedSlot(v, x) \/ Voice!Earlier(t) # {}
           /\ busy' = [tool |-> t, service |-> v, slot |-> x, found |-> Voice!Named(t)]
           /\ UNCHANGED answers
  <2> DEFINE n == Voice!Named(t)
             j == [tool |-> t, service |-> v, slot |-> x, found |-> n]
  <2>1. /\ n \in ToolCalls \union {None}
        /\ IF n = None THEN Asked(requests) = {} ELSE n \in Asked(requests)
    BY EarlierIs, NoneAssumption DEF Asked
  <2>2. n = None => <<v, x>> \in offered
    BY <1>3, <2>1, EarlierIs DEF Voice!ProvedSlot
  <2>3. busy' = j
    BY <1>3
  <2> HIDE DEF n
  <2>4. j \in Voice!Job /\ j.found = n /\ j.service = v /\ j.slot = x
    BY <2>1 DEF Voice!Job
  <2> HIDE DEF j
  <2>5. JobIsTrue(j, requests, offered)
    BY <2>1, <2>2, <2>4 DEF JobIsTrue
  <2> QED
    BY <1>1, <1>2, <1>3, <2>3, <2>4, <2>5, VoiceTyped, CallStep
<1>4. CASE answers' = [answers EXCEPT ![t] = [kind |-> "refused"]] /\ UNCHANGED busy
  <2> DEFINE a == [kind |-> "refused"]
             A == [answers EXCEPT ![t] = a]
  <2>1. a \in Voice!Answer /\ a.kind = "refused"
    BY DEF Voice!Answer
  <2> HIDE DEF a
  <2>2. /\ A \in [ToolCalls -> Voice!Answer \union {None}] /\ A[t] = a
        /\ \A u \in ToolCalls \ {t} : A[u] = answers[u]
    BY <2>1, VoiceTyped
  <2>3. answers' = A
    BY <1>4 DEF a
  <2> HIDE DEF A
  <2>4. \A u \in ToolCalls : AnswerIsTrue(A[u], requests, texted)
    BY <1>2, <2>1, <2>2 DEF AnswerIsTrue
  <2>5. JobIsTrue(busy, requests, offered)
    BY <1>1 DEF JobIsTrue
  <2> QED
    BY <1>1, <1>2, <1>4, <2>2, <2>3, <2>4, <2>5, VoiceTyped, CallStep
<1> QED
  BY <1>3, <1>4 DEF Voice!AskBooking, Voice!Answered

\* What is being booked is answered truly.
LEMMA AnswerOK ==
    ASSUME VoiceInv, busy # None, NEW a \in Voice!Answer,
           NEW Q \in [ToolCalls -> Voice!Request \union {None}],
           NEW X \in SUBSET ToolCalls, texted \subseteq X, \A t \in Asked(requests) : Q[t] = requests[t],
           OneIsAsked(Q, offered), AnswerIsTrue(a, Q, X),
           answers' = [answers EXCEPT ![busy.tool] = a], requests' = Q, texted' = X, busy' = None,
           UNCHANGED <<hook, accepted, row, running, shop, offered, listed, taken, booked>>
    PROVE  VoiceInv'
<1> DEFINE A == [answers EXCEPT ![busy.tool] = a]
<1>1. busy.tool \in ToolCalls
  BY VoiceTyped DEF Voice!Job
<1>2. /\ A \in [ToolCalls -> Voice!Answer \union {None}] /\ A[busy.tool] = a
      /\ \A u \in ToolCalls \ {busy.tool} : A[u] = answers[u]
  BY <1>1, VoiceTyped
<1>3. answers' = A
  OBVIOUS
<1> HIDE DEF A
<1>4. \A u \in ToolCalls : AnswerIsTrue(A[u], Q, X)
  <2>1. \A t \in Asked(requests) : t \in Asked(Q)
    BY DEF Asked
  <2>2. \A u \in ToolCalls : AnswerIsTrue(answers[u], Q, X)
    BY <2>1 DEF VoiceInv, AnswerIsTrue
  <2> QED
    BY <1>2, <2>2
<1>5. JobIsTrue(None, Q, offered)
  BY DEF JobIsTrue
<1> QED
  BY <1>2, <1>3, <1>4, <1>5, VoiceTyped, CallStep

\* The request that the lookups found is there, and none is made while another is.
LEMMA FinishBookingOK == ASSUME VoiceInv, Voice!FinishBooking PROVE VoiceInv'
<1>1. busy' = None /\ UNCHANGED <<hook, accepted, row, running, shop, offered, listed, taken, booked>>
  BY DEF Voice!FinishBooking
<1>2. OneIsAsked(requests, offered) /\ texted \subseteq ToolCalls /\ texted \in SUBSET ToolCalls
      /\ requests \in [ToolCalls -> Voice!Request \union {None}]
  BY VoiceTyped DEF VoiceInv
<1>3. CASE Voice!NameEarlier
  <2> DEFINE a == [kind |-> "booked", slot |-> requests[busy.found].slot, request |-> busy.found,
                   link |-> FALSE]
  <2>1. /\ busy # None /\ busy.found # None /\ UNCHANGED <<requests, texted>>
        /\ answers' = [answers EXCEPT ![busy.tool] = a]
    BY <1>3 DEF Voice!NameEarlier, Voice!Answered, Voice!Says
  <2>2. busy.found \in Asked(requests) /\ busy.found \in ToolCalls
    BY <2>1 DEF VoiceInv, JobIsTrue, Asked
  <2>3. requests[busy.found] \in Voice!Request
    BY <2>2, VoiceTyped DEF Asked
  <2>4. a \in Voice!Answer /\ a.kind = "booked" /\ a.request = busy.found
        /\ a.slot = requests[busy.found].slot /\ a.link = FALSE
    BY <2>2, <2>3 DEF Voice!Answer, Voice!Request
  <2> HIDE DEF a
  <2>5. AnswerIsTrue(a, requests, texted)
    BY <2>2, <2>4 DEF AnswerIsTrue
  <2> QED
    BY <1>1, <1>2, <2>1, <2>4, <2>5, AnswerOK
<1>4. ASSUME NEW fails \in BOOLEAN, NEW sent \in BOOLEAN, Voice!InsertRequest(fails, sent) PROVE VoiceInv'
  <2> DEFINE status == Voice!HoldStatus(busy.service)
             new == [service |-> busy.service, slot |-> busy.slot, status |-> status]
  <2>1. busy # None /\ busy.found = None
    BY <1>4 DEF Voice!InsertRequest
  <2>2. /\ busy \in Voice!Job /\ busy.tool \in ToolCalls /\ busy.service \in Services /\ busy.slot \in Slots
        /\ Asked(requests) = {} /\ <<busy.service, busy.slot>> \in offered
    BY <2>1, VoiceTyped DEF Voice!Job, VoiceInv, JobIsTrue
  <2>3. Voice!Earlier(busy.tool) = {}
    BY <2>2, EarlierIs
  <2>4. ASSUME NEW kind \in {"refused", "failed"}, answers' = [answers EXCEPT ![busy.tool] = [kind |-> kind]],
               UNCHANGED <<requests, texted>>
        PROVE  VoiceInv'
    <3> DEFINE a == [kind |-> kind]
    <3>1. a \in Voice!Answer /\ a.kind # "booked"
      BY DEF Voice!Answer
    <3>2. answers' = [answers EXCEPT ![busy.tool] = a]
      BY <2>4
    <3> HIDE DEF a
    <3>3. AnswerIsTrue(a, requests, texted)
      BY <3>1 DEF AnswerIsTrue
    <3> QED
      BY <1>1, <1>2, <2>1, <2>4, <3>1, <3>2, <3>3, AnswerOK
  <2>5. CASE /\ requests' = [requests EXCEPT ![busy.tool] = new]
             /\ texted' = IF sent THEN texted \union {busy.tool} ELSE texted
             /\ Voice!Answered(busy.tool, Voice!Says(busy.tool, sent))
    <3> DEFINE Q == [requests EXCEPT ![busy.tool] = new]
               X == IF sent THEN texted \union {busy.tool} ELSE texted
               a == [kind |-> "booked", slot |-> busy.slot, request |-> busy.tool, link |-> sent]
    <3>1. status \in {"PENDING", "AWAITING_TERMS", "AWAITING_PAYMENT"}
      BY DEF Voice!HoldStatus
    <3> HIDE DEF status
    <3>2. new \in Voice!Request /\ new.slot = busy.slot /\ new.service = busy.service
      BY <2>2, <3>1 DEF Voice!Request
    <3> HIDE DEF new
    <3>3. /\ Q \in [ToolCalls -> Voice!Request \union {None}] /\ Q[busy.tool] = new
          /\ \A t \in ToolCalls \ {busy.tool} : Q[t] = requests[t]
      BY <1>2, <2>2, <3>2
    <3>4. X \in SUBSET ToolCalls /\ texted \subseteq X /\ (sent => busy.tool \in X)
      BY <1>2, <2>2
    <3>5. requests' = Q /\ texted' = X /\ answers' = [answers EXCEPT ![busy.tool] = a]
      <4>1. requests' = Q
        BY <2>5
      <4>2. requests'[busy.tool].slot = busy.slot
        BY <3>2, <3>3, <4>1
      <4>3. answers' = [answers EXCEPT ![busy.tool] = a]
        BY <2>5, <4>2 DEF Voice!Answered, Voice!Says
      <4> QED
        BY <2>5, <4>1, <4>3
    <3>6. a \in Voice!Answer /\ a.request = busy.tool /\ a.slot = busy.slot /\ a.link = sent
      BY <2>2 DEF Voice!Answer
    <3> HIDE DEF Q, X, a
    <3>7. Asked(Q) = {busy.tool}
      BY <2>2, <3>2, <3>3, NoneAssumption DEF Asked
    <3>8. OneIsAsked(Q, offered)
      BY <2>2, <3>2, <3>3, <3>7 DEF OneIsAsked
    <3>9. AnswerIsTrue(a, Q, X)
      BY <3>2, <3>3, <3>4, <3>6, <3>7 DEF AnswerIsTrue
    <3> QED
      BY <1>1, <2>1, <2>2, <3>3, <3>4, <3>5, <3>6, <3>8, <3>9, AnswerOK
  <2> QED
    BY <1>4, <2>3, <2>4, <2>5 DEF Voice!InsertRequest, Voice!Answered
<1> QED
  BY <1>3, <1>4 DEF Voice!FinishBooking

\* The diary's steps, which touch no request.
LEMMA DiaryStep ==
    ASSUME VoiceInv,
           UNCHANGED <<hook, accepted, row, running, shop, offered, busy, answers, requests, texted>>,
           listed' \subseteq Appts, taken' \subseteq Slots, booked' \in [Appts -> Voice!Appointment]
    PROVE  VoiceInv'
<1>1. /\ OneIsAsked(requests, offered) /\ JobIsTrue(busy, requests, offered)
      /\ \A t \in ToolCalls : AnswerIsTrue(answers[t], requests, texted)
  BY DEF VoiceInv
<1> QED
  BY <1>1, VoiceTyped, CallStep

\* What the assistant changes is the caller's, and goes where nobody is.
Callers == \A a \in Appts : booked'[a] # booked[a] /\ booked'[a].status # "COMPLETED" =>
             /\ a \in listed /\ booked[a].mine
             /\ booked'[a].slot # booked[a].slot =>
                  \A b \in Appts \ {a} : booked[b].status # "CANCELLED" => booked[b].slot # booked'[a].slot

LEMMA DiaryOK ==
    ASSUME VoiceInv,
           \/ Voice!ListMine \/ Voice!Others
           \/ \E a \in Appts : Voice!CancelByVoice(a) \/ \E x \in Slots : Voice!MoveByVoice(a, x)
    PROVE  VoiceInv' /\ Callers
<1>1. CASE Voice!ListMine
  <2>1. /\ listed' \subseteq Appts
        /\ UNCHANGED <<hook, accepted, row, running, shop, offered, busy, answers, requests, texted,
                       taken, booked>>
    BY <1>1, VoiceTyped DEF Voice!ListMine
  <2> QED
    BY <2>1, VoiceTyped, DiaryStep DEF Callers
<1>2. CASE Voice!Others
  <2>1. UNCHANGED <<hook, accepted, row, running, shop, offered, listed, busy, answers, requests, texted>>
    BY <1>2 DEF Voice!Others
  <2>2. CASE taken' \subseteq Slots /\ UNCHANGED booked
    BY <2>1, <2>2, VoiceTyped, DiaryStep DEF Callers
  <2>3. ASSUME NEW a \in Appts, booked' = [booked EXCEPT ![a].status = "COMPLETED"], UNCHANGED taken
        PROVE  VoiceInv' /\ Callers
    <3>1. booked' \in [Appts -> Voice!Appointment]
      BY <2>3, VoiceTyped DEF Voice!Appointment
    <3>2. Callers
      BY <2>3, VoiceTyped DEF Callers, Voice!Appointment
    <3> QED
      BY <2>1, <2>3, <3>1, <3>2, VoiceTyped, DiaryStep
  <2> QED
    BY <1>2, <2>2, <2>3, VoiceTyped DEF Voice!Others
<1>3. ASSUME NEW a \in Appts, Voice!CancelByVoice(a) PROVE VoiceInv' /\ Callers
  <2>1. /\ UNCHANGED <<hook, accepted, row, running, shop, offered, listed, busy, answers, requests, texted,
                       taken>>
        /\ booked' = [booked EXCEPT ![a].status = "CANCELLED"] /\ a \in listed /\ booked[a].mine
    BY <1>3 DEF Voice!CancelByVoice, Voice!MayChange, Voice!Own
  <2>2. booked' \in [Appts -> Voice!Appointment]
    BY <2>1, VoiceTyped DEF Voice!Appointment
  <2>3. Callers
    BY <2>1, VoiceTyped DEF Callers, Voice!Appointment
  <2> QED
    BY <2>1, <2>2, <2>3, VoiceTyped, DiaryStep
<1>4. ASSUME NEW a \in Appts, NEW x \in Slots, Voice!MoveByVoice(a, x) PROVE VoiceInv' /\ Callers
  <2>1. /\ UNCHANGED <<hook, accepted, row, running, shop, offered, listed, busy, answers, requests, texted,
                       taken>>
        /\ booked' = [booked EXCEPT ![a].slot = x] /\ a \in listed /\ booked[a].mine
        /\ Voice!Free(x) \/ x = booked[a].slot
    BY <1>4 DEF Voice!MoveByVoice, Voice!MayChange, Voice!Own
  <2>2. booked' \in [Appts -> Voice!Appointment]
    BY <2>1, VoiceTyped DEF Voice!Appointment
  <2>3. /\ booked'[a].slot = x
        /\ \A b \in Appts \ {a} : booked'[b] = booked[b]
    BY <2>1, VoiceTyped DEF Voice!Appointment
  <2>4. Voice!Free(x) => \A b \in Appts : booked[b].status # "CANCELLED" => booked[b].slot # x
    BY DEF Voice!Free
  <2>5. Callers
    BY <2>1, <2>3, <2>4 DEF Callers
  <2> QED
    BY <2>1, <2>2, <2>5, VoiceTyped, DiaryStep
<1> QED
  BY <1>1, <1>2, <1>3, <1>4

LEMMA VoiceStepOK == VoiceInv /\ [Voice!Next]_(Voice!voiceVars) => VoiceInv' /\ Callers
<1> SUFFICES ASSUME VoiceInv, [Voice!Next]_(Voice!voiceVars) PROVE VoiceInv' /\ Callers
  OBVIOUS
<1>1. CASE UNCHANGED Voice!voiceVars
  <2>1. VoiceInv'
    BY <1>1 DEF Voice!voiceVars, VoiceInv, Voice!TypeOK, OneSpeaks, Running, Speaks, OneIsAsked, AnswerIsTrue,
                JobIsTrue, Asked
  <2> QED
    BY <1>1, <2>1 DEF Voice!voiceVars, Callers
<1>2. CASE \/ \E d \in Deliveries : \/ Voice!LookUp(d) \/ Voice!Log(d) \/ Voice!Spawn(d) \/ Voice!Crash(d)
                                    \/ \E refused \in BOOLEAN : Voice!Accept(d, refused)
           \/ \E s \in Services : Voice!CheckSlots(s)
           \/ \E t \in ToolCalls, s \in Services, x \in Slots : Voice!AskBooking(t, s, x)
           \/ Voice!FinishBooking
  <2>1. VoiceInv'
    BY <1>2, LookUpOK, LogOK, SpawnOK, VoiceCrashOK, AcceptOK, CheckSlotsOK, AskBookingOK, FinishBookingOK
  <2>2. booked' = booked
    BY <1>2 DEF Voice!LookUp, Voice!Log, Voice!Spawn, Voice!Crash, Voice!Accept, Voice!CheckSlots,
                Voice!AskBooking, Voice!FinishBooking
  <2> QED
    BY <2>1, <2>2 DEF Callers
<1> QED
  BY <1>1, <1>2, DiaryOK DEF Voice!Next

LEMMA VoiceInitOK == Voice!Init => VoiceInv
<1> SUFFICES ASSUME Voice!Init PROVE VoiceInv
  OBVIOUS
<1>1. /\ hook = [d \in Deliveries |-> "new"] /\ accepted = FALSE /\ row = FALSE
      /\ running = 0 /\ offered = {} /\ listed = {} /\ busy = None
      /\ shop \in [terms : BOOLEAN, deposits : SUBSET Services]
      /\ answers = [t \in ToolCalls |-> None] /\ requests = [t \in ToolCalls |-> None]
      /\ texted = {} /\ taken = {}
  BY DEF Voice!Init
<1>2. booked \in [Appts -> Voice!Appointment]
  BY DEF Voice!Init, Voice!Appointment
<1>3. Voice!TypeOK
  BY <1>1, <1>2 DEF Voice!TypeOK
<1>4. OneSpeaks(hook) /\ Running(hook, running) /\ \A d \in Deliveries : Speaks(hook[d]) => row
  BY <1>1 DEF OneSpeaks, Running, Speaks
<1>5. /\ OneIsAsked(requests, offered) /\ JobIsTrue(busy, requests, offered)
      /\ \A t \in ToolCalls : AnswerIsTrue(answers[t], requests, texted)
  BY <1>1 DEF OneIsAsked, JobIsTrue, AnswerIsTrue, Asked
<1> QED
  BY <1>3, <1>4, <1>5 DEF VoiceInv

LEMMA VoiceCardinality == ASSUME NEW S PROVE Voice!Cardinality(S) = Cardinality(S)
  BY DEF Voice!Cardinality, Cardinality

LEMMA VoiceHolds == VoiceInv => Voice!TypeOK /\ Voice!OneOfEach
<1> SUFFICES ASSUME VoiceInv PROVE Voice!OneOfEach
  BY DEF VoiceInv
<1>1. Voice!Booked = Asked(requests)
  BY DEF Voice!Booked, Asked
<1>2. Voice!Cardinality(Asked(requests)) <= 1
  <2>1. CASE Asked(requests) = {}
    <3>1. Cardinality(Asked(requests)) = 0
      BY <2>1, FS_EmptySet
    <3> QED
      BY <3>1, VoiceCardinality
  <2>2. CASE Asked(requests) # {}
    <3>1. PICK t \in Asked(requests) : Asked(requests) = {t}
      BY <2>2 DEF VoiceInv, OneIsAsked
    <3>2. Cardinality(Asked(requests)) = 1
      BY <3>1, FS_Singleton
    <3> QED
      BY <3>2, VoiceCardinality
  <2> QED
    BY <2>1, <2>2
<1>3. Voice!OneController
  BY VoiceTyped DEF Voice!OneController
<1>4. Voice!OneTrueBooking
  BY <1>1, <1>2 DEF VoiceInv, Voice!OneTrueBooking, OneIsAsked, AnswerIsTrue
<1> QED
  BY <1>3, <1>4 DEF Voice!OneOfEach

-----------------------------------------------------------------------------
\* However often its event is delivered a call has one controller, and however often the model
\* asks it makes one booking, for a time that was offered, and is told the truth about it; and
\* what the assistant changes is the caller's own, and goes where nobody is.
THEOREM AssistantStaysExact == Spec => AssistantIsExact
<1> DEFINE Inv == focus = "voice" => VoiceInv
           Step == [Callers]_(Voice!voiceVars)
<1>1. Init => Inv
  BY VoiceInitOK DEF Init
<1>2. Inv /\ [Next]_vars => Inv' /\ Step
  <2> SUFFICES ASSUME Inv, [Next]_vars PROVE Inv' /\ Step
    OBVIOUS
  <2>1. CASE focus = "voice"
    <3>1. focus' = focus /\ [Voice!Next]_(Voice!voiceVars)
      BY <2>1 DEF Next, vars, voiceVars, Voice!voiceVars, WorkflowStep, TurnsStep, PhoneStep, VoiceStep,
                  NotesStep, InboxStep
    <3> QED
      BY <2>1, <3>1, VoiceStepOK
  <2>2. CASE focus # "voice"
    <3>1. focus' = focus /\ UNCHANGED Voice!voiceVars
      BY <2>2 DEF Next, vars, voiceVars, Voice!voiceVars, WorkflowStep, TurnsStep, PhoneStep, VoiceStep,
                  NotesStep, InboxStep
    <3> QED
      BY <2>2, <3>1
  <2> QED
    BY <2>1, <2>2
<1>3. Inv => (focus = "voice" => Voice!TypeOK /\ Voice!OneOfEach)
  BY VoiceHolds
<1>4. Step => [\A a \in Appts : booked'[a] # booked[a] /\ booked'[a].status # "COMPLETED" =>
                  a \in listed /\ booked[a].mine /\ (booked'[a].slot # booked[a].slot
                      => \A b \in Appts \ {a} : booked[b].status # "CANCELLED"
                                                  => booked[b].slot # booked'[a].slot)]_(Voice!voiceVars)
  BY DEF Callers
<1> QED
  BY <1>1, <1>2, <1>3, <1>4, PTL DEF Spec, AssistantIsExact, Voice!ChangesAreTheCallers

-----------------------------------------------------------------------------
(* The phone. Whom a call may ring is a list without repetitions, which is gone through once. *)

\* The phone counts as everybody does.
LEMMA PhoneCounts == ASSUME NEW S PROVE Phone!Cardinality(S) = Cardinality(S)
  BY DEF Phone!Cardinality, Cardinality

\* How many of a set come up to one of its numbers.
Upto(S, i) == {j \in S : j <= i}
Rank(S, i) == Cardinality(Upto(S, i))

\* Ranks are numbers between one and the size of the set, and grow.
LEMMA RanksGrow ==
    ASSUME NEW S \in SUBSET Nat, IsFiniteSet(S), NEW i \in S
    PROVE  /\ Rank(S, i) \in 1..Cardinality(S) /\ Cardinality(S) \in Nat
           /\ \A k \in S : i < k => Rank(S, i) < Rank(S, k)
<1>1. /\ \A k \in S : Upto(S, k) \subseteq S /\ k \in Upto(S, k)
      /\ i \in Nat /\ \A k \in S : k \in Nat
  BY DEF Upto
<1>2. \A k \in S : IsFiniteSet(Upto(S, k)) /\ Rank(S, k) \in Nat /\ Rank(S, k) <= Cardinality(S)
  BY <1>1, FS_Subset, FS_CardinalityType DEF Rank
<1>3. Cardinality(S) \in Nat
  BY FS_CardinalityType
<1>4. Rank(S, i) # 0
  BY <1>1, <1>2, FS_EmptySet DEF Rank
<1>5. ASSUME NEW k \in S, i < k PROVE Rank(S, i) < Rank(S, k)
  <2>1. Upto(S, i) \subseteq Upto(S, k) /\ k \notin Upto(S, i)
    <3>1. k \in Nat /\ \A j \in S : j \in Nat /\ (j <= i => j <= k)
      BY <1>1, <1>5
    <3>2. Upto(S, i) \subseteq Upto(S, k)
      BY <3>1 DEF Upto
    <3>3. ~(k <= i)
      BY <1>1, <1>5
    <3> QED
      BY <3>2, <3>3 DEF Upto
  <2>2. Upto(S, i) # Upto(S, k)
    BY <1>1, <2>1
  <2>3. Rank(S, i) <= Rank(S, k) /\ Rank(S, i) # Rank(S, k)
    BY <1>2, <2>1, <2>2, FS_Subset DEF Rank
  <2> QED
    BY <1>2, <2>3
<1> QED
  BY <1>2, <1>3, <1>4, <1>5

\* Every rank is somebody's.
LEMMA RanksAreTaken ==
    ASSUME NEW S \in SUBSET Nat, IsFiniteSet(S), NEW n \in 1..Cardinality(S)
    PROVE  \E i \in S : Rank(S, i) = n
<1> DEFINE Late == {i \in S : Rank(S, i) >= n}
<1>1. Cardinality(S) \in Nat /\ n \in Nat /\ n >= 1 /\ n <= Cardinality(S)
  BY FS_CardinalityType
<1>2. \A i \in S : Rank(S, i) \in Nat /\ i \in Nat
  <2> TAKE i \in S
  <2>1. Rank(S, i) \in 1..Cardinality(S)
    BY RanksGrow
  <2> QED
    BY <1>1, <2>1
<1>3. S # {}
  BY <1>1, FS_EmptySet
<1>4. PICK top \in S : \A u \in S : u <= top
  BY <1>3, GreatestOfFinite
<1>5. Upto(S, top) = S
  BY <1>4 DEF Upto
<1>6. top \in Late
  BY <1>1, <1>5 DEF Rank
<1>7. PICK i \in Late : \A k \in Late : i <= k
  BY <1>6, LeastExists
<1> DEFINE Before == Upto(S, i) \ {i}
<1>8. i \in S /\ i \in Nat /\ Rank(S, i) >= n /\ i \in Upto(S, i) /\ Upto(S, i) \subseteq S
  BY <1>2, <1>7 DEF Upto
<1>9. IsFiniteSet(Upto(S, i)) /\ IsFiniteSet(Before) /\ Cardinality(Before) = Rank(S, i) - 1
  BY <1>8, FS_Subset, FS_RemoveElement DEF Rank
<1>10. Rank(S, i) - 1 < n
  <2>1. CASE Before = {}
    <3>1. Rank(S, i) - 1 = 0
      BY <1>9, <2>1, FS_EmptySet
    <3> QED
      BY <1>1, <3>1
  <2>2. CASE Before # {}
    <3>1. Before \in SUBSET Nat /\ Before \subseteq S
      BY <1>2, <1>8
    <3>2. PICK m \in Before : \A u \in Before : u <= m
      BY <1>9, <2>2, <3>1, GreatestOfFinite
    <3>3. m \in S /\ m \in Nat /\ m < i
      BY <1>2, <1>8, <3>1, <3>2 DEF Upto
    <3>4. Upto(S, m) = Before
      <4>1. ASSUME NEW j \in S, j <= m PROVE j \in Before
        BY <1>2, <1>8, <3>3, <4>1 DEF Upto
      <4> QED
        BY <3>1, <3>2, <4>1 DEF Upto
    <3>5. m \notin Late
      BY <1>7, <1>8, <3>3
    <3>6. Rank(S, m) = Rank(S, i) - 1
      BY <1>9, <3>4 DEF Rank
    <3> QED
      BY <1>1, <1>2, <3>3, <3>5, <3>6
  <2> QED
    BY <2>1, <2>2
<1> QED
  BY <1>1, <1>2, <1>8, <1>10

\* The n-th of a set is its own, each rank has one, and nobody is left out.
LEMMA NthIs ==
    ASSUME NEW S \in SUBSET Nat, IsFiniteSet(S)
    PROVE  /\ Cardinality(S) \in Nat
           /\ \A n \in 1..Cardinality(S) : Phone!Nth(S, n) \in S /\ Rank(S, Phone!Nth(S, n)) = n
           /\ \A i \in S : Rank(S, i) \in 1..Cardinality(S) /\ Phone!Nth(S, Rank(S, i)) = i
<1>1. Cardinality(S) \in Nat
  BY FS_CardinalityType
<1>2. \A n : Phone!Nth(S, n) = CHOOSE i \in S : Rank(S, i) = n
  BY PhoneCounts DEF Phone!Nth, Rank, Upto
<1>3. \A n \in 1..Cardinality(S) : Phone!Nth(S, n) \in S /\ Rank(S, Phone!Nth(S, n)) = n
  BY <1>2, RanksAreTaken
<1>4. ASSUME NEW i \in S PROVE Rank(S, i) \in 1..Cardinality(S) /\ Phone!Nth(S, Rank(S, i)) = i
  <2>1. Rank(S, i) \in 1..Cardinality(S)
    BY RanksGrow
  <2> DEFINE k == Phone!Nth(S, Rank(S, i))
  <2>2. k \in S /\ Rank(S, k) = Rank(S, i)
    BY <1>3, <2>1
  <2>3. Rank(S, i) \in Nat /\ Rank(S, k) \in Nat /\ i \in Nat /\ k \in Nat
    <3>1. \A n \in 1..Cardinality(S) : n \in Nat
      BY <1>1
    <3>2. i \in Nat /\ k \in Nat
      BY <2>2
    <3> QED
      BY <2>1, <2>2, <3>1, <3>2
  <2>4. ~(i < k) /\ ~(k < i)
    BY <2>2, <2>3, RanksGrow
  <2> QED
    BY <2>1, <2>3, <2>4
<1> QED
  BY <1>1, <1>3, <1>4

LEMMA Limits == /\ MaxAttempts \in Nat /\ 1 <= MaxAttempts /\ MaxRepeats \in Nat /\ MaxHuman \in Nat
                /\ MaxReconnects \in Nat /\ MaxEdits \in Nat
  BY PhoneAssumption

LEMMA CallTyped ==
    ASSUME NEW t \in Phone!Call
    PROVE  /\ t.index \in Nat /\ t.index <= MaxHuman /\ t.tried \subseteq {"AI", "HUMAN"}
           /\ t.to \in Dests \union {None} /\ t.target \in Dests \union {None}
  BY Limits DEF Phone!Call

\* Everybody whom a call with this menu target may ring.
MayRing(t) == {d \in Phone!ToSet(Phone!Candidates(t)) : d \notin cfg.looping}

\* The list that is rung: of who may be rung, no longer than the cap, nobody twice, and with
\* everybody when it is shorter.
IsChain(c, D) == /\ c \in Seq(Dests) /\ Len(c) \in Nat /\ DOMAIN c = 1..Len(c) /\ Len(c) <= MaxHuman
                 /\ \A i \in 1..Len(c) : c[i] \in D /\ c[i] \in Dests
                 /\ \A i, k \in 1..Len(c) : c[i] = c[k] => i = k
                 /\ Len(c) < MaxHuman => \A d \in D : \E i \in 1..Len(c) : c[i] = d

LEMMA ChainIs ==
    ASSUME cfg.people \in Seq(Dests), NEW t \in Dests \union {None}
    PROVE  IsChain(Phone!Chain(t), MayRing(t))
<1> DEFINE all == Phone!Candidates(t)
           kept == Phone!Kept(all)
           many == Cardinality(kept)
           cap == IF many < MaxHuman THEN many ELSE MaxHuman
           c == Phone!Chain(t)
<1>1. all \in Seq(Dests) /\ Len(all) \in Nat /\ DOMAIN all = 1..Len(all)
  <2>1. PICK first \in Seq(Dests) : first = IF t = None THEN <<>> ELSE <<t>>
    <3>1. <<>> \in Seq(Dests) /\ (t # None => <<t>> \in Seq(Dests))
      OBVIOUS
    <3>2. CASE t = None
      BY <3>1, <3>2
    <3>3. CASE t # None
      BY <3>1, <3>3
    <3> QED
      BY <3>2, <3>3
  <2>2. all = first \o cfg.people
    BY <2>1 DEF Phone!Candidates
  <2> HIDE DEF all
  <2>3. all \in Seq(Dests)
    BY <2>2
  <2> QED
    BY <2>3
<1>2. \A i \in DOMAIN all : all[i] \in Dests /\ i \in Nat /\ i >= 1
  BY <1>1
<1>3. /\ kept \subseteq DOMAIN all /\ kept \in SUBSET Nat
      /\ \A i \in kept : all[i] \notin cfg.looping /\ \A j \in 1..(i - 1) : all[j] # all[i]
  BY <1>1 DEF Phone!Kept
<1>4. IsFiniteSet(kept)
  <2>1. IsFiniteSet(1..Len(all)) /\ kept \subseteq 1..Len(all)
    BY <1>1, <1>3, FS_Interval
  <2> QED
    BY <2>1, FS_Subset
<1>5. /\ many \in Nat /\ cap \in Nat /\ cap <= many /\ cap <= MaxHuman /\ MaxHuman \in Nat
      /\ (cap < MaxHuman => cap = many)
  BY <1>4, FS_CardinalityType, Limits
<1>6. /\ \A n \in 1..many : Phone!Nth(kept, n) \in kept /\ Rank(kept, Phone!Nth(kept, n)) = n
      /\ \A i \in kept : Rank(kept, i) \in 1..many /\ Phone!Nth(kept, Rank(kept, i)) = i
  BY <1>3, <1>4, NthIs
<1>7. c = [n \in 1..cap |-> all[Phone!Nth(kept, n)]]
  BY PhoneCounts DEF Phone!Chain
<1>8. \A n \in 1..cap : n \in 1..many
  BY <1>5
<1>9. \A n \in 1..cap : c[n] = all[Phone!Nth(kept, n)] /\ Phone!Nth(kept, n) \in kept
  BY <1>6, <1>7, <1>8
<1>10. \A n \in 1..cap : c[n] \in Dests
  BY <1>2, <1>3, <1>9
<1>11. c \in Seq(Dests) /\ Len(c) = cap /\ DOMAIN c = 1..cap
  <2> HIDE DEF cap, c
  <2>1. DOMAIN c = 1..cap
    BY <1>7
  <2>2. c \in [1..cap -> Dests]
    BY <1>7, <1>10
  <2> QED
    BY <1>5, <2>1, <2>2
<1>12. \A i \in kept : all[i] \in MayRing(t)
  BY <1>3 DEF MayRing, Phone!ToSet
<1>13. ASSUME NEW i \in 1..cap, NEW k \in 1..cap, c[i] = c[k] PROVE i = k
  <2> DEFINE p == Phone!Nth(kept, i)
             q == Phone!Nth(kept, k)
  <2>1. p \in kept /\ q \in kept /\ all[p] = all[q] /\ Rank(kept, p) = i /\ Rank(kept, q) = k
    BY <1>6, <1>8, <1>9, <1>13
  <2> HIDE DEF p, q, kept
  <2>2. p \in Nat /\ q \in Nat /\ p >= 1 /\ q >= 1
    BY <1>2, <1>3, <2>1
  <2>3. p \notin 1..(q - 1) /\ q \notin 1..(p - 1)
    BY <1>3, <2>1
  <2>4. p = q
    BY <2>2, <2>3
  <2> QED
    BY <2>1, <2>4
<1>14. ASSUME cap < MaxHuman, NEW d \in MayRing(t) PROVE \E i \in 1..cap : c[i] = d
  <2>1. PICK j \in DOMAIN all : all[j] = d /\ d \notin cfg.looping
    BY DEF MayRing, Phone!ToSet
  <2> DEFINE named == {i \in DOMAIN all : all[i] = d}
  <2>2. named \in SUBSET Nat /\ j \in named
    BY <1>1, <2>1
  <2>3. PICK i \in named : \A u \in named : i <= u
    BY <2>2, LeastExists
  <2>4. i \in DOMAIN all /\ all[i] = d
    OBVIOUS
  <2>5. \A u \in 1..(i - 1) : all[u] # all[i]
    <3> SUFFICES ASSUME NEW u \in 1..(i - 1), all[u] = d PROVE FALSE
      BY <2>4
    <3>1. i \in Nat /\ u \in Nat /\ u < i /\ u \in DOMAIN all
      BY <1>1, <2>4
    <3>2. u \in named
      BY <3>1
    <3> QED
      BY <2>3, <3>1, <3>2
  <2>6. i \in kept
    BY <2>1, <2>4, <2>5 DEF Phone!Kept
  <2>7. Rank(kept, i) \in 1..cap
    BY <1>5, <1>6, <1>14, <2>6
  <2>8. c[Rank(kept, i)] = d
    BY <1>6, <1>9, <2>4, <2>6, <2>7
  <2> QED
    BY <2>7, <2>8
<1>15. \A i \in 1..cap : c[i] \in MayRing(t)
  BY <1>9, <1>12
<1> HIDE DEF cap, c
<1> QED
  BY <1>5, <1>10, <1>11, <1>13, <1>14, <1>15 DEF IsChain, c

\* Whoever may be rung without a menu target may be rung with it.
LEMMA TargetAdds ==
    ASSUME cfg.people \in Seq(Dests), NEW t \in Dests \union {None} PROVE MayRing(None) \subseteq MayRing(t)
<1>1. Phone!Candidates(None) = cfg.people
  BY DEF Phone!Candidates
<1>2. CASE t = None
  BY <1>2
<1>3. CASE t # None
  <2> DEFINE all == <<t>> \o cfg.people
  <2>1. Phone!Candidates(t) = all
    BY <1>3 DEF Phone!Candidates
  <2>2. \A i \in DOMAIN cfg.people : i + 1 \in DOMAIN all /\ all[i + 1] = cfg.people[i]
    BY <1>3
  <2>3. Phone!ToSet(cfg.people) \subseteq Phone!ToSet(all)
    BY <2>2 DEF Phone!ToSet
  <2> QED
    BY <1>1, <2>1, <2>3 DEF MayRing
<1> QED
  BY <1>2, <1>3

\* When a whole list was rung, so was everybody who may be, or the cap is reached.
RungOut == Phone!ToSet(Phone!Chain(None)) \subseteq rung \/ Cardinality(rung) = MaxHuman

LEMMA WholeListRungOut ==
    ASSUME cfg.people \in Seq(Dests), NEW t \in Dests \union {None},
           rung = {Phone!Chain(t)[k] : k \in 1..Len(Phone!Chain(t))}
    PROVE  RungOut
<1> DEFINE c == Phone!Chain(t)
<1>1. IsChain(c, MayRing(t)) /\ IsChain(Phone!Chain(None), MayRing(None))
  BY ChainIs
<1>2. MayRing(None) \subseteq MayRing(t)
  BY TargetAdds
<1> HIDE DEF c
<1>3. CASE Len(c) < MaxHuman
  <2>1. Phone!ToSet(Phone!Chain(None)) \subseteq MayRing(None)
    BY <1>1 DEF IsChain, Phone!ToSet
  <2>2. MayRing(t) \subseteq rung
    BY <1>1, <1>3 DEF IsChain, c
  <2> QED
    BY <1>2, <2>1, <2>2 DEF RungOut
<1>4. CASE ~(Len(c) < MaxHuman)
  <2>1. Len(c) = MaxHuman /\ MaxHuman \in Nat
    <3>1. Len(c) \in Nat /\ Len(c) <= MaxHuman
      BY <1>1 DEF IsChain
    <3> QED
      BY <1>4, <3>1, Limits
  <2>2. rung = {c[k] : k \in 1..Len(c)}
    BY DEF c
  <2> DEFINE f == [k \in 1..Len(c) |-> c[k]]
  <2>3. f \in Bijection(1..Len(c), rung)
    <3>1. f \in [1..Len(c) -> rung]
      BY <2>2
    <3>2. \A i, k \in 1..Len(c) : f[i] = f[k] => i = k
      BY <1>1 DEF IsChain
    <3>3. \A d \in rung : \E k \in 1..Len(c) : f[k] = d
      BY <2>2
    <3> HIDE DEF f
    <3>4. f \in Injection(1..Len(c), rung)
      BY <3>1, <3>2 DEF Injection, IsInjective
    <3>5. f \in Surjection(1..Len(c), rung)
      BY <3>1, <3>3 DEF Surjection
    <3> QED
      BY <3>4, <3>5 DEF Bijection
  <2>4. ExistsBijection(1..Len(c), rung)
    BY <2>3 DEF ExistsBijection
  <2>5. IsFiniteSet(1..Len(c)) /\ Cardinality(1..Len(c)) = Len(c)
    BY <2>1, FS_Interval
  <2>6. Cardinality(rung) = Len(c)
    BY <2>4, <2>5, FS_Bijection
  <2> QED
    BY <2>1, <2>6 DEF RungOut
<1> QED
  BY <1>3, <1>4

\* When nobody may be rung, whoever was asked for, everybody has been.
LEMMA NobodyRungOut ==
    ASSUME cfg.people \in Seq(Dests), NEW t \in Dests \union {None}, Phone!Chain(t) = <<>>
    PROVE  Phone!Chain(None) = <<>> /\ RungOut
<1>1. IsChain(Phone!Chain(t), MayRing(t)) /\ IsChain(Phone!Chain(None), MayRing(None))
  BY ChainIs
<1>2. MayRing(None) \subseteq MayRing(t)
  BY TargetAdds
<1>3. Len(Phone!Chain(t)) = 0 /\ Len(Phone!Chain(None)) \in Nat
  BY <1>1 DEF IsChain
<1>4. Len(Phone!Chain(None)) = 0
  <2> SUFFICES ASSUME Len(Phone!Chain(None)) > 0 PROVE FALSE
    BY <1>3
  <2>1. 0 < MaxHuman /\ 1 \in 1..Len(Phone!Chain(None))
    BY <1>1, <1>3, Limits DEF IsChain
  <2>2. Phone!Chain(None)[1] \in MayRing(t)
    BY <1>1, <1>2, <2>1 DEF IsChain
  <2>3. \E i \in 1..Len(Phone!Chain(t)) : TRUE
    BY <1>1, <1>3, <2>1, <2>2 DEF IsChain
  <2> QED
    BY <1>3, <2>3
<1>5. Phone!Chain(None) = <<>>
  BY <1>1, <1>4 DEF IsChain
<1> QED
  BY <1>5 DEF RungOut, Phone!ToSet

-----------------------------------------------------------------------------
\* Who rings now has the row of their place, which no report of an earlier place touches.
Placed(c, R, P) ==
    c.do = "ring" => /\ "HUMAN" \in c.tried /\ c.index < MaxHuman
                     /\ R[c.index].ringing /\ R[c.index].to = c.to
                     /\ \A j \in 0..(MaxHuman - 1) : j > c.index => R[j].to = None
                     /\ \A r \in P : r.index < c.index

\* Before anybody is rung nothing is recorded.
Untried(R, P, G) == (\A j \in 0..(MaxHuman - 1) : R[j].to = None) /\ P = {} /\ G = {}
Unused(c, R, P, G) == c.do \notin {"ring", "over"} /\ "HUMAN" \notin c.tried => Untried(R, P, G)

\* Who rings now is on the list, and those before them have been rung.
Listed(c, G) ==
    c.do = "ring" => \A t \in Dests \union {None} : t = c.target =>
        /\ c.index + 1 <= Len(Phone!Chain(t))
        /\ c.to = Phone!Chain(t)[c.index + 1]
        /\ G = {Phone!Chain(t)[k] : k \in 1..c.index + 1}

\* After the people only the assistant is left.
PeopleDone(c) == c.do = "ai" /\ "HUMAN" \in c.tried => RungOut

OneLogged(c, b) == /\ b.logged <= 1 /\ (b.logged = 1 => b.open)
                   /\ (c.end = "promised" => b.open)

PhoneInv == /\ Phone!TypeOK
            /\ echo # "entered" /\ OneLogged(call, callback)
            /\ Placed(call, rows, past) /\ Unused(call, rows, past, rung)
            /\ (call.do \in {"new", "gather", "relay"} => "HUMAN" \notin call.tried)
            /\ (edits = 0 => Listed(call, rung) /\ PeopleDone(call))

\* What EveryoneIsTriedOnce asks of a step.
RungRight ==
    edits' = 0 /\ call' # call =>
        /\ call.do # "relay" /\ call'.do = "over" /\ call'.end \in {"promised", "sorry"} => RungOut
        /\ call'.do = "ring" => call'.to \notin rung

LEMMA PhoneInitOK == Phone!Init => PhoneInv
<1> SUFFICES ASSUME Phone!Init PROVE PhoneInv
  OBVIOUS
<1>1. Phone!NewCall \in Phone!Call /\ Phone!NoLeg \in Phone!Leg
  BY Limits DEF Phone!NewCall, Phone!Call, Phone!NoLeg, Phone!Leg
<1>2. cfg \in Phone!Settings
  BY PhoneAssumption DEF Phone!Init, Phone!Settings
<1>3. rows \in [0..(MaxHuman - 1) -> Phone!Row] /\ \A j \in 0..(MaxHuman - 1) : rows[j].to = None
  BY DEF Phone!Init, Phone!Row, Phone!NoRow
<1>4. Phone!TypeOK
  BY <1>1, <1>2, <1>3, Limits DEF Phone!Init, Phone!TypeOK
<1>5. call.do = "new" /\ call.tried = {} /\ call.end = "none"
  BY DEF Phone!Init, Phone!NewCall
<1> QED
  BY <1>3, <1>4, <1>5 DEF Phone!Init, PhoneInv, OneLogged, Placed, Unused, Untried, Listed, PeopleDone

\* Ringing the next of a list.
LEMMA RingIs ==
    ASSUME Phone!TypeOK, NEW tried \in SUBSET {"AI", "HUMAN"}, NEW u \in Dests \union {None}, NEW i \in Nat,
           i < Len(Phone!Chain(u)), NEW t, t = Phone!Ring(tried, u, i)
    PROVE  /\ t \in Phone!Call /\ t.do = "ring" /\ t.tried = tried \union {"HUMAN"} /\ t.target = u
           /\ t.index = i /\ t.to = Phone!Chain(u)[i + 1] /\ t.to \in Dests /\ i < MaxHuman /\ t.end = "none"
<1>1. cfg.people \in Seq(Dests)
  BY DEF Phone!TypeOK, Phone!Settings
<1>2. IsChain(Phone!Chain(u), MayRing(u))
  BY <1>1, ChainIs
<1>3. MaxHuman \in Nat /\ MaxAttempts \in Nat \ {0} /\ MaxRepeats \in Nat
  BY Limits
<1>4. i < MaxHuman /\ Phone!Chain(u)[i + 1] \in Dests
  BY <1>2, <1>3 DEF IsChain
<1>5. t = [do |-> "ring", attempt |-> 1, repeat |-> 0, tried |-> tried \union {"HUMAN"}, index |-> i,
           target |-> u, to |-> Phone!Chain(u)[i + 1], end |-> "none"]
  BY DEF Phone!Ring, Phone!NewCall
<1> QED
  BY <1>3, <1>4, <1>5 DEF Phone!Call

\* The assistant, and an end.
LEMMA DialIs ==
    ASSUME NEW tried \in SUBSET {"AI", "HUMAN"}, NEW t, t = Phone!DialAi(tried)
    PROVE  t \in Phone!Call /\ t.do = "ai" /\ t.tried = tried \union {"AI"} /\ t.end = "none"
<1>1. t = [do |-> "ai", attempt |-> 1, repeat |-> 0, tried |-> tried \union {"AI"}, index |-> 0,
           target |-> None, to |-> None, end |-> "none"]
  BY DEF Phone!DialAi, Phone!NewCall
<1>2. 1 \in 1..MaxAttempts /\ 0 \in 0..MaxRepeats /\ 0 \in 0..MaxHuman
  BY Limits
<1> QED
  BY <1>1, <1>2 DEF Phone!Call

LEMMA OverIs ==
    ASSUME NEW end \in {"served", "answered", "promised", "sorry", "unconfigured", "gone"},
           NEW t, t = Phone!Over(end)
    PROVE  t \in Phone!Call /\ t.do = "over" /\ t.end = end /\ t.tried = {}
<1>1. t = [do |-> "over", attempt |-> 1, repeat |-> 0, tried |-> {}, index |-> 0,
           target |-> None, to |-> None, end |-> end]
  BY DEF Phone!Over, Phone!NewCall
<1>2. 1 \in 1..MaxAttempts /\ 0 \in 0..MaxRepeats /\ 0 \in 0..MaxHuman
  BY Limits
<1> QED
  BY <1>1, <1>2 DEF Phone!Call

\* The menu, and the relay.
LEMMA GatherIs ==
    ASSUME NEW a \in 1..MaxAttempts, NEW n \in 0..MaxRepeats, NEW t, t = Phone!Gather(a, n)
    PROVE  t \in Phone!Call /\ t.do = "gather" /\ t.tried = {} /\ t.end = "none"
<1>1. t = [do |-> "gather", attempt |-> a, repeat |-> n, tried |-> {}, index |-> 0,
           target |-> None, to |-> None, end |-> "none"]
  BY DEF Phone!Gather, Phone!NewCall
<1>2. 1 \in 1..MaxAttempts /\ 0 \in 0..MaxRepeats /\ 0 \in 0..MaxHuman
  BY Limits
<1> QED
  BY <1>1, <1>2 DEF Phone!Call

LEMMA RelayShape ==
    ASSUME NEW t, t = [do |-> "relay", attempt |-> 1, repeat |-> 0, tried |-> {}, index |-> 0,
                       target |-> None, to |-> None, end |-> "none"]
    PROVE  t \in Phone!Call /\ t.do = "relay" /\ t.tried = {} /\ t.end = "none"
<1>1. 1 \in 1..MaxAttempts /\ 0 \in 0..MaxRepeats /\ 0 \in 0..MaxHuman
  BY Limits
<1> QED
  BY <1>1 DEF Phone!Call

LEMMA RelayIs ==
    ASSUME NEW t, t = [Phone!NewCall EXCEPT !.do = "relay"]
    PROVE  t \in Phone!Call /\ t.do = "relay" /\ t.tried = {} /\ t.end = "none"
<1>1. t = [do |-> "relay", attempt |-> 1, repeat |-> 0, tried |-> {}, index |-> 0,
           target |-> None, to |-> None, end |-> "none"]
  BY DEF Phone!NewCall
<1> QED
  BY <1>1, RelayShape

\* What an answer needs to keep the invariant; B are the rows it writes upon.
Fits(t, B, P) ==
    /\ t.do # "new" /\ (t.do \in {"gather", "relay"} => "HUMAN" \notin t.tried)
    /\ t.do = "ring" => /\ "HUMAN" \in t.tried /\ t.index < MaxHuman /\ t.to \in Dests
                        /\ \A j \in 0..(MaxHuman - 1) : j >= t.index => B[j].to = None
                        /\ \A r \in P : r.index < t.index
    /\ t.do \notin {"ring", "over"} /\ "HUMAN" \notin t.tried => Untried(B, P, rung)
    /\ edits = 0 => PeopleDone(t) /\ Listed(t, rung \union {t.to})

LEMMA ChainStays ==
    ASSUME UNCHANGED cfg PROVE \A t : Phone!Chain(t)' = Phone!Chain(t)
  BY DEF Phone!Chain, Phone!Candidates, Phone!Kept, Phone!Nth

LEMMA AnswerKeeps ==
    ASSUME PhoneInv, NEW t \in Phone!Call, NEW B \in [0..(MaxHuman - 1) -> Phone!Row],
           NEW P \in SUBSET Phone!Call, Phone!Answer(t), rows' = Phone!RecordAttempt(B, t), past' = P,
           UNCHANGED <<cfg, caller, echo, edits>>, Fits(t, B, P)
    PROVE  PhoneInv'
<1>1. /\ call' = t /\ callback' = Phone!LogCallback(t)
      /\ rung' = IF t.do = "ring" THEN rung \union {t.to} ELSE rung
      /\ leg' = IF t.do = "ai" THEN Phone!NoLeg ELSE leg
  BY DEF Phone!Answer
<1>2. rows' = IF t.do = "ring" THEN [B EXCEPT ![t.index] = [to |-> t.to, ringing |-> TRUE]] ELSE B
  <2>1. t.do = "ring" => t.index \in 0..(MaxHuman - 1) /\ B[t.index].to = None
    BY Limits, CallTyped DEF Fits
  <2> QED
    BY <2>1 DEF Phone!RecordAttempt
<1>3. t.to \in Dests \union {None} /\ t.index \in Nat /\ MaxHuman \in Nat
  BY Limits, CallTyped
<1>4. rows' \in [0..(MaxHuman - 1) -> Phone!Row]
  <2>1. [to |-> t.to, ringing |-> TRUE] \in Phone!Row
    BY <1>3 DEF Phone!Row
  <2> QED
    BY <1>2, <2>1
<1>5. callback' \in [open : BOOLEAN, logged : Nat] /\ OneLogged(t, callback')
  <2>1. callback \in [open : BOOLEAN, logged : Nat] /\ OneLogged(call, callback)
    BY DEF PhoneInv, Phone!TypeOK
  <2>2. CASE t.end = "promised" /\ ~callback.open
    <3>1. callback' = [open |-> TRUE, logged |-> callback.logged + 1] /\ callback.logged = 0
      BY <1>1, <2>1, <2>2 DEF Phone!LogCallback, OneLogged
    <3> QED
      BY <2>1, <3>1 DEF OneLogged
  <2>3. CASE ~(t.end = "promised" /\ ~callback.open)
    <3>1. callback' = callback
      BY <1>1, <2>3 DEF Phone!LogCallback
    <3> QED
      BY <2>1, <2>3, <3>1 DEF OneLogged
  <2> QED
    BY <2>2, <2>3
<1>6. Phone!TypeOK'
  <2>1. leg' \in Phone!Leg
    BY <1>1, Limits DEF PhoneInv, Phone!TypeOK, Phone!NoLeg, Phone!Leg
  <2>2. rung' \subseteq Dests
    <3>1. t.do = "ring" => t.to \in Dests
      BY DEF Fits
    <3> QED
      BY <1>1, <3>1 DEF PhoneInv, Phone!TypeOK
  <2> QED
    BY <1>1, <1>4, <1>5, <2>1, <2>2 DEF PhoneInv, Phone!TypeOK
<1>7. Placed(t, rows', P)
  <2> SUFFICES ASSUME t.do = "ring" PROVE Placed(t, rows', P)
    BY DEF Placed
  <2>1. rows' = [B EXCEPT ![t.index] = [to |-> t.to, ringing |-> TRUE]] /\ t.index \in 0..(MaxHuman - 1)
    BY <1>2, <1>3 DEF Fits
  <2>2. \A j \in 0..(MaxHuman - 1) : j > t.index => rows'[j].to = None
    BY <1>3, <2>1 DEF Fits
  <2> QED
    BY <2>1, <2>2 DEF Fits, Placed
<1>8. Unused(t, rows', P, rung')
  <2> SUFFICES ASSUME t.do \notin {"ring", "over"}, "HUMAN" \notin t.tried PROVE Untried(rows', P, rung')
    BY DEF Unused
  <2> QED
    BY <1>1, <1>2 DEF Fits
<1>9. edits' = 0 => Listed(t, rung)' /\ PeopleDone(t)'
  <2> SUFFICES ASSUME edits = 0 PROVE Listed(t, rung)' /\ PeopleDone(t)'
    OBVIOUS
  <2>1. Listed(t, rung \union {t.to}) /\ PeopleDone(t)
    BY DEF Fits
  <2>2. \A u : Phone!Chain(u)' = Phone!Chain(u)
    BY ChainStays
  <2> QED
    BY <1>1, <2>1, <2>2 DEF Listed, PeopleDone, RungOut
<1> QED
  BY <1>1, <1>5, <1>6, <1>7, <1>8, <1>9 DEF PhoneInv, Fits

\* An answer before anybody was rung: the first of a list, or nobody, because there is none.
Fresh(t) ==
    /\ t \in Phone!Call
    /\ \/ t.do \in {"gather", "ai", "relay"} /\ "HUMAN" \notin t.tried
       \/ \E tried \in SUBSET {"AI", "HUMAN"}, u \in Dests \union {None} :
              0 < Len(Phone!Chain(u)) /\ t = Phone!Ring(tried, u, 0)
       \/ t.do = "over" /\ (t.end \in {"promised", "sorry"} => RungOut)

LEMMA FreshKeeps ==
    ASSUME PhoneInv, NEW t, Fresh(t), Untried(rows, past, rung), Phone!Answer(t),
           rows' = Phone!RecordAttempt(rows, t), UNCHANGED <<cfg, caller, past, echo, edits>>
    PROVE  PhoneInv' /\ RungRight
<1>1. t \in Phone!Call /\ call' = t /\ Phone!TypeOK
  BY DEF Fresh, Phone!Answer, PhoneInv
<1>2. rows \in [0..(MaxHuman - 1) -> Phone!Row] /\ past \in SUBSET Phone!Call
  BY <1>1 DEF Phone!TypeOK
<1>3. CASE t.do \in {"gather", "ai", "relay"} /\ "HUMAN" \notin t.tried
  <2>1. Fits(t, rows, past)
    BY <1>3 DEF Fits, PeopleDone, Listed
  <2>2. PhoneInv'
    BY <1>1, <1>2, <2>1, AnswerKeeps
  <2> QED
    BY <1>1, <1>3, <2>2 DEF RungRight
<1>4. ASSUME NEW tried \in SUBSET {"AI", "HUMAN"}, NEW u \in Dests \union {None},
             0 < Len(Phone!Chain(u)), t = Phone!Ring(tried, u, 0)
      PROVE  PhoneInv' /\ RungRight
  <2>1. /\ t.do = "ring" /\ t.tried = tried \union {"HUMAN"} /\ t.target = u /\ t.index = 0
        /\ t.to = Phone!Chain(u)[0 + 1] /\ t.to \in Dests /\ 0 < MaxHuman
    <3>1. /\ t.do = "ring" /\ t.tried = tried \union {"HUMAN"} /\ t.target = u /\ t.index = 0
          /\ t.to = Phone!Chain(u)[0 + 1] /\ t.to \in Dests /\ 0 < MaxHuman
      <4>1. t = [do |-> "ring", attempt |-> 1, repeat |-> 0, tried |-> tried \union {"HUMAN"}, index |-> 0,
                 target |-> u, to |-> Phone!Chain(u)[0 + 1], end |-> "none"]
        BY <1>4 DEF Phone!Ring, Phone!NewCall
      <4>2. IsChain(Phone!Chain(u), MayRing(u))
        BY <1>1, ChainIs DEF Phone!TypeOK, Phone!Settings
      <4>3. Phone!Chain(u)[0 + 1] \in Dests /\ 0 < MaxHuman
        BY <1>4, <4>2, Limits DEF IsChain
      <4> QED
        BY <4>1, <4>3
    <3> QED
      BY <3>1
  <2>2. Len(Phone!Chain(u)) \in Nat
    BY <1>1, ChainIs DEF IsChain, Phone!TypeOK, Phone!Settings
  <2>3. Listed(t, rung \union {t.to})
    <3>1. {Phone!Chain(u)[k] : k \in 1..0 + 1} = {Phone!Chain(u)[1]}
      OBVIOUS
    <3>2. rung \union {t.to} = {Phone!Chain(u)[1]}
      BY <2>1 DEF Untried
    <3> QED
      BY <1>4, <2>1, <2>2, <3>1, <3>2 DEF Listed
  <2>4. Fits(t, rows, past)
    BY <2>1, <2>3 DEF Fits, PeopleDone, Untried
  <2>5. PhoneInv'
    BY <1>1, <1>2, <2>4, AnswerKeeps
  <2> QED
    BY <1>1, <2>1, <2>5 DEF RungRight, Untried
<1>5. CASE t.do = "over" /\ (t.end \in {"promised", "sorry"} => RungOut)
  <2>1. Fits(t, rows, past)
    BY <1>5 DEF Fits, PeopleDone, Listed
  <2>2. PhoneInv'
    BY <1>1, <1>2, <2>1, AnswerKeeps
  <2> QED
    BY <1>1, <1>5, <2>2 DEF RungRight
<1> QED
  BY <1>3, <1>4, <1>5 DEF Fresh

\* The first of a list.
LEMMA RingIsFresh ==
    ASSUME Phone!TypeOK, NEW tried \in SUBSET {"AI", "HUMAN"}, NEW u \in Dests \union {None},
           Phone!Chain(u) # <<>>
    PROVE  Fresh(Phone!Ring(tried, u, 0))
<1>1. IsChain(Phone!Chain(u), MayRing(u))
  BY ChainIs DEF Phone!TypeOK, Phone!Settings
<1>2. 0 < Len(Phone!Chain(u))
  BY <1>1 DEF IsChain
<1>3. PICK i \in Nat : i = 0
  OBVIOUS
<1>4. Phone!Ring(tried, u, 0) = Phone!Ring(tried, u, i) /\ i < Len(Phone!Chain(u))
  BY <1>2, <1>3
<1>5. Phone!Ring(tried, u, i) \in Phone!Call
  BY <1>4, RingIs
<1> QED
  BY <1>2, <1>4, <1>5 DEF Fresh

\* A fallback before anybody was rung, of what is left.
LEMMA FallbackIsFresh ==
    ASSUME PhoneInv, NEW tried \in SUBSET {"AI"}, NEW exclude,
           "HUMAN" \in exclude => Phone!Chain(None) = <<>>
    PROVE  Fresh(Phone!Fallback(tried, exclude))
<1> DEFINE t == Phone!Fallback(tried, exclude)
           usable(a) == a \notin Phone!Excluded(tried, exclude) /\ Phone!Runnable(a, None)
<1>1. /\ cfg.people \in Seq(Dests) /\ cfg.fallback \in {"AI", "HUMAN"} /\ Phone!TypeOK
      /\ caller \in BOOLEAN
  BY DEF PhoneInv, Phone!TypeOK, Phone!Settings
<1>2. IsChain(Phone!Chain(None), MayRing(None))
  BY <1>1, ChainIs
<1>3. \/ cfg.fallback = "AI" /\ t = Phone!DialAi(tried)
      \/ usable("HUMAN") /\ t = Phone!Ring(tried, None, 0)
      \/ ~usable("HUMAN") /\ t = Phone!Close
  BY <1>1 DEF Phone!Fallback, Phone!Run
<1>4. CASE t = Phone!DialAi(tried)
  <2>1. t \in Phone!Call /\ t.do = "ai" /\ t.tried = tried \union {"AI"}
    BY <1>4, DialIs
  <2> QED
    BY <2>1 DEF Fresh
<1>5. CASE usable("HUMAN") /\ t = Phone!Ring(tried, None, 0)
  <2>1. Phone!Chain(None) # <<>>
    BY <1>5 DEF Phone!Runnable
  <2>2. Fresh(Phone!Ring(tried, None, 0))
    BY <1>1, <2>1, RingIsFresh
  <2> QED
    BY <1>5, <2>2
<1>6. CASE ~usable("HUMAN") /\ t = Phone!Close
  <2>1. Phone!Chain(None) = <<>>
    BY <1>6 DEF Phone!Runnable, Phone!Excluded
  <2>2. RungOut
    BY <1>1, <2>1, NobodyRungOut
  <2>3. t \in Phone!Call /\ t.do = "over"
    <3>1. t = Phone!Over("promised") \/ t = Phone!Over("sorry")
      BY <1>6 DEF Phone!Close
    <3> QED
      BY <3>1, OverIs
  <2> QED
    BY <2>2, <2>3 DEF Fresh
<1> HIDE DEF t, usable
<1> QED
  BY <1>3, <1>4, <1>5, <1>6 DEF t

-----------------------------------------------------------------------------

\* The first call of the hook: the menu, the relay, or a person.
LEMMA IncomingKeeps == ASSUME PhoneInv, Phone!Incoming PROVE PhoneInv' /\ RungRight
<1> DEFINE gather == Phone!Gather(1, 0)
           relay == [Phone!NewCall EXCEPT !.do = "relay"]
           t == IF cfg.menu = "on" THEN gather
                ELSE IF cfg.relay THEN relay
                ELSE IF Phone!Chain(None) # <<>> THEN Phone!Ring({}, None, 0) ELSE Phone!Over("unconfigured")
<1>1. /\ Phone!Answer(t) /\ rows' = Phone!RecordAttempt(rows, t) /\ call.do = "new"
      /\ UNCHANGED <<cfg, caller, past, echo, edits>>
  BY DEF Phone!Incoming
<1>2. Untried(rows, past, rung)
  BY <1>1 DEF PhoneInv, Unused
<1>4. Fresh(gather)
  BY GatherIs, Limits DEF Fresh
<1>5. Fresh(relay)
  BY RelayIs DEF Fresh
<1>6. ASSUME Phone!Chain(None) # <<>> PROVE Fresh(Phone!Ring({}, None, 0))
  BY <1>6, RingIsFresh DEF PhoneInv
<1>7. Fresh(Phone!Over("unconfigured"))
  BY OverIs DEF Fresh
<1>8. Fresh(t)
  BY <1>4, <1>5, <1>6, <1>7
<1> HIDE DEF t
<1> QED
  BY <1>1, <1>2, <1>8, FreshKeeps

\* A key of the menu, a wrong key, or nothing.
LEMMA PressKeeps ==
    ASSUME PhoneInv, NEW key \in {"AI", "HUMAN", "REPEAT", "invalid"}, Phone!Press(key)
    PROVE  PhoneInv' /\ RungRight
<1> DEFINE target == IF key = "HUMAN" THEN cfg.target ELSE None
           t == CASE cfg.menu = "none" -> Phone!Fallback({}, {})
                  [] cfg.menu # "none" /\ key = "invalid" ->
                         IF call.attempt < MaxAttempts THEN Phone!Gather(call.attempt + 1, call.repeat)
                         ELSE Phone!Fallback({}, {})
                  [] cfg.menu # "none" /\ key = "REPEAT" ->
                         IF call.repeat < MaxRepeats THEN Phone!Gather(call.attempt, call.repeat + 1)
                         ELSE Phone!Fallback({}, {})
                  [] OTHER -> IF Phone!Runnable(key, target) THEN Phone!Run(key, {}, target)
                              ELSE Phone!Fallback({}, {key})
<1>1. /\ Phone!Answer(t) /\ rows' = Phone!RecordAttempt(rows, t) /\ call.do = "gather"
      /\ UNCHANGED <<cfg, caller, past, echo, edits>>
  BY DEF Phone!Press
<1>2. Untried(rows, past, rung)
  BY <1>1 DEF PhoneInv, Unused
<1>3. /\ Phone!TypeOK /\ call.attempt \in 1..MaxAttempts /\ call.repeat \in 0..MaxRepeats
      /\ cfg.people \in Seq(Dests) /\ target \in Dests \union {None}
  BY DEF PhoneInv, Phone!TypeOK, Phone!Call, Phone!Settings
<1>4. Fresh(Phone!Fallback({}, {}))
  BY FallbackIsFresh
<1>5. ASSUME call.attempt < MaxAttempts PROVE Fresh(Phone!Gather(call.attempt + 1, call.repeat))
  <2>1. call.attempt + 1 \in 1..MaxAttempts
    BY <1>3, <1>5, Limits
  <2> QED
    BY <1>3, <2>1, GatherIs DEF Fresh
<1>6. ASSUME call.repeat < MaxRepeats PROVE Fresh(Phone!Gather(call.attempt, call.repeat + 1))
  <2>1. call.repeat + 1 \in 0..MaxRepeats
    BY <1>3, <1>6, Limits
  <2> QED
    BY <1>3, <2>1, GatherIs DEF Fresh
<1>7. ASSUME key \in {"AI", "HUMAN"}, Phone!Runnable(key, target) PROVE Fresh(Phone!Run(key, {}, target))
  <2>1. CASE key = "AI"
    <3>1. Phone!Run(key, {}, target) = Phone!DialAi({})
      BY <2>1 DEF Phone!Run
    <3>2. Fresh(Phone!DialAi({}))
      BY DialIs DEF Fresh
    <3> QED
      BY <3>1, <3>2
  <2>2. CASE key = "HUMAN"
    <3>1. Phone!Run(key, {}, target) = Phone!Ring({}, target, 0) /\ Phone!Chain(target) # <<>>
      BY <1>7, <2>2 DEF Phone!Run, Phone!Runnable
    <3> HIDE DEF target
    <3>2. Fresh(Phone!Ring({}, target, 0))
      BY <1>3, <3>1, RingIsFresh
    <3> QED
      BY <3>1, <3>2
  <2> QED
    BY <1>7, <2>1, <2>2
<1>8. ASSUME key \in {"AI", "HUMAN"}, ~Phone!Runnable(key, target) PROVE Fresh(Phone!Fallback({}, {key}))
  <2>1. key = "HUMAN" => Phone!Chain(target) = <<>>
    BY <1>8 DEF Phone!Runnable
  <2> HIDE DEF target
  <2>2. key = "HUMAN" => Phone!Chain(None) = <<>>
    BY <1>3, <2>1, NobodyRungOut
  <2> QED
    BY <2>2, FallbackIsFresh
<1>9. Fresh(t)
  <2> HIDE DEF target
  <2>1. CASE cfg.menu = "none"
    BY <1>4, <2>1
  <2>2. CASE cfg.menu # "none" /\ key = "invalid"
    BY <1>4, <1>5, <2>2
  <2>3. CASE cfg.menu # "none" /\ key = "REPEAT"
    BY <1>4, <1>6, <2>3
  <2>4. CASE cfg.menu # "none" /\ key \in {"AI", "HUMAN"}
    BY <1>7, <1>8, <2>4
  <2> QED
    BY <2>1, <2>2, <2>3, <2>4
<1> HIDE DEF t
<1> QED
  BY <1>1, <1>2, <1>9, FreshKeeps

\* A step of the assistant's leg touches nothing else.
LEMMA LegKeeps ==
    ASSUME PhoneInv, leg' \in Phone!Leg, UNCHANGED <<cfg, caller, call, rows, rung, callback, past, echo, edits>>
    PROVE  PhoneInv' /\ RungRight
<1>1. Phone!TypeOK'
  BY DEF PhoneInv, Phone!TypeOK
<1>2. \A t : Phone!Chain(t)' = Phone!Chain(t)
  BY ChainStays
<1>3. Listed(call, rung)' = Listed(call, rung) /\ PeopleDone(call)' = PeopleDone(call)
  BY <1>2 DEF Listed, PeopleDone, RungOut
<1> QED
  BY <1>1, <1>3 DEF PhoneInv, RungRight, OneLogged, Placed, Unused, Untried

LEMMA LegTyped == ASSUME PhoneInv PROVE leg \in Phone!Leg
  BY DEF PhoneInv, Phone!TypeOK

LEMMA AcceptKeeps == ASSUME PhoneInv, Phone!AcceptLeg PROVE PhoneInv' /\ RungRight
<1>1. leg' \in Phone!Leg
  BY LegTyped DEF Phone!AcceptLeg, Phone!Leg
<1> QED
  BY <1>1, LegKeeps DEF Phone!AcceptLeg

LEMMA ConnectKeeps == ASSUME PhoneInv, Phone!Connect PROVE PhoneInv' /\ RungRight
<1>1. leg' \in Phone!Leg
  <2>1. leg \in Phone!Leg /\ 0 \in 0..MaxReconnects
    BY LegTyped, Limits
  <2>2. leg' = [row |-> leg.row, failures |-> 0, control |-> "up", ending |-> leg.ending]
    BY <2>1 DEF Phone!Connect, Phone!Leg
  <2> QED
    BY <2>1, <2>2 DEF Phone!Leg
<1> QED
  BY <1>1, LegKeeps DEF Phone!Connect

LEMMA LoseKeeps == ASSUME PhoneInv, Phone!LoseConnection PROVE PhoneInv' /\ RungRight
<1>1. leg \in Phone!Leg /\ leg.failures \in 0..MaxReconnects
  BY LegTyped DEF Phone!Leg
<1>2. leg' \in Phone!Leg
  <2>1. CASE leg.failures < MaxReconnects
    <3>1. leg.failures + 1 \in 0..MaxReconnects
      BY <1>1, <2>1, Limits
    <3> QED
      BY <1>1, <2>1, <3>1 DEF Phone!LoseConnection, Phone!Leg
  <2>2. CASE ~(leg.failures < MaxReconnects)
    BY <1>1, <2>2 DEF Phone!LoseConnection, Phone!Leg
  <2> QED
    BY <2>1, <2>2
<1> QED
  BY <1>2, LegKeeps DEF Phone!LoseConnection

LEMMA EndingKeeps ==
    ASSUME PhoneInv, NEW why \in {"handoff", "goodbye"}, Phone!EndingTool(why) PROVE PhoneInv' /\ RungRight
<1>1. leg' \in Phone!Leg
  BY LegTyped DEF Phone!EndingTool, Phone!Leg
<1> QED
  BY <1>1, LegKeeps DEF Phone!EndingTool

LEMMA ResponseKeeps == ASSUME PhoneInv, Phone!ResponseDone PROVE PhoneInv' /\ RungRight
<1>1. leg' \in Phone!Leg
  BY LegTyped DEF Phone!ResponseDone, Phone!Leg
<1> QED
  BY <1>1, LegKeeps DEF Phone!ResponseDone

\* After the people a fallback is the assistant or the end.
LEMMA AfterPeople ==
    ASSUME Phone!TypeOK, NEW tried \in SUBSET {"AI", "HUMAN"}, "HUMAN" \in tried,
           NEW t, t = Phone!Fallback(tried, {})
    PROVE  t \in Phone!Call /\ t.do \in {"ai", "over"} /\ (t.do = "ai" => "HUMAN" \in t.tried)
<1>1. cfg.fallback \in {"AI", "HUMAN"} /\ "HUMAN" \in Phone!Excluded(tried, {})
  BY DEF Phone!TypeOK, Phone!Settings, Phone!Excluded
<1>2. t = Phone!DialAi(tried) \/ t = Phone!Close
  BY <1>1 DEF Phone!Fallback, Phone!Run
<1>3. CASE t = Phone!DialAi(tried)
  BY <1>3, DialIs
<1>4. CASE t = Phone!Close
  <2>1. t = Phone!Over("promised") \/ t = Phone!Over("sorry")
    BY <1>4 DEF Phone!Close
  <2> QED
    BY <2>1, OverIs
<1> QED
  BY <1>2, <1>3, <1>4

\* The assistant's leg is over: it was served, or what is left is tried.
LEMMA AiCompleteKeeps ==
    ASSUME PhoneInv, NEW connected \in BOOLEAN, Phone!AiComplete(connected) PROVE PhoneInv' /\ RungRight
<1> DEFINE t == IF leg.row = "accepted" /\ connected THEN Phone!Over("served")
                ELSE Phone!Fallback(call.tried, {})
<1>1. /\ Phone!Answer(t) /\ rows' = Phone!RecordAttempt(rows, t) /\ call.do = "ai"
      /\ UNCHANGED <<cfg, caller, past, echo, edits>>
  BY DEF Phone!AiComplete
<1>2. /\ Phone!TypeOK /\ call \in Phone!Call /\ call.tried \in SUBSET {"AI", "HUMAN"}
      /\ cfg.people \in Seq(Dests)
  BY CallTyped DEF PhoneInv, Phone!TypeOK, Phone!Settings
<1>3. CASE "HUMAN" \notin call.tried
  <2>1. Untried(rows, past, rung)
    BY <1>1, <1>3 DEF PhoneInv, Unused
  <2>2. call.tried \in SUBSET {"AI"}
    BY <1>2, <1>3
  <2>3. Fresh(Phone!Over("served"))
    BY OverIs DEF Fresh
  <2>4. Fresh(Phone!Fallback(call.tried, {}))
    BY <2>2, FallbackIsFresh
  <2>5. Fresh(t)
    BY <2>3, <2>4
  <2> HIDE DEF t
  <2> QED
    BY <1>1, <2>1, <2>5, FreshKeeps
<1>4. CASE "HUMAN" \in call.tried
  <2>1. rows \in [0..(MaxHuman - 1) -> Phone!Row] /\ past \in SUBSET Phone!Call /\ past' = past
    BY <1>1, <1>2 DEF Phone!TypeOK
  <2>2. edits = 0 => RungOut
    BY <1>1, <1>4 DEF PhoneInv, PeopleDone
  <2>3. /\ t \in Phone!Call /\ t.do \in {"ai", "over"} /\ (t.do = "ai" => "HUMAN" \in t.tried)
    <3>1. CASE leg.row = "accepted" /\ connected
      BY <3>1, OverIs
    <3>2. CASE ~(leg.row = "accepted" /\ connected)
      BY <1>2, <1>4, <3>2, AfterPeople
    <3> QED
      BY <3>1, <3>2
  <2> HIDE DEF t
  <2>4. Fits(t, rows, past)
    BY <2>2, <2>3 DEF Fits, PeopleDone, Listed
  <2>5. PhoneInv'
    BY <1>1, <2>1, <2>3, <2>4, AnswerKeeps
  <2>6. call' = t
    BY <1>1 DEF Phone!Answer
  <2> QED
    BY <1>1, <2>2, <2>3, <2>5, <2>6 DEF RungRight
<1> QED
  BY <1>3, <1>4

\* Somebody answered, or the next of the list is rung, or it is at its end.
LEMMA TransferKeeps ==
    ASSUME PhoneInv, NEW answered \in BOOLEAN, Phone!TransferComplete(answered) PROVE PhoneInv' /\ RungRight
<1> DEFINE t == IF answered THEN Phone!Over("answered") ELSE Phone!NextPerson(call)
           B == Phone!Finish(call.index)
           P == past \union {call}
<1>1. /\ Phone!Answer(t) /\ rows' = Phone!RecordAttempt(B, t) /\ past' = P /\ call.do = "ring"
      /\ UNCHANGED <<cfg, caller, echo, edits>>
  BY DEF Phone!TransferComplete
<1>2. /\ Phone!TypeOK /\ call \in Phone!Call /\ call.tried \in SUBSET {"AI", "HUMAN"} /\ call.index \in Nat
      /\ call.target \in Dests \union {None}
      /\ rows \in [0..(MaxHuman - 1) -> Phone!Row] /\ cfg.people \in Seq(Dests)
  BY CallTyped DEF PhoneInv, Phone!TypeOK, Phone!Settings
<1>3. /\ "HUMAN" \in call.tried /\ call.index \in 0..(MaxHuman - 1)
      /\ \A j \in 0..(MaxHuman - 1) : j > call.index => rows[j].to = None
      /\ \A r \in past : r.index < call.index
  BY <1>1, <1>2, Limits DEF PhoneInv, Placed
<1>4. /\ B \in [0..(MaxHuman - 1) -> Phone!Row] /\ P \in SUBSET Phone!Call
      /\ \A j \in 0..(MaxHuman - 1) : B[j].to = rows[j].to
  <2>1. rows[call.index] \in Phone!Row
    BY <1>2, <1>3
  <2>2. [rows[call.index] EXCEPT !.ringing = FALSE] \in Phone!Row
    BY <2>1 DEF Phone!Row
  <2>3. [rows[call.index] EXCEPT !.ringing = FALSE].to = rows[call.index].to
    BY <2>1 DEF Phone!Row
  <2>4. B = [rows EXCEPT ![call.index] = [rows[call.index] EXCEPT !.ringing = FALSE]]
    BY DEF Phone!Finish
  <2>5. P \in SUBSET Phone!Call
    BY <1>2 DEF Phone!TypeOK
  <2> HIDE DEF B, P
  <2> QED
    BY <1>2, <1>3, <2>2, <2>3, <2>4, <2>5
<1>5. PICK u \in Dests \union {None} : u = call.target
  BY <1>2
<1>6. IsChain(Phone!Chain(u), MayRing(u))
  BY <1>2, ChainIs
<1>7. edits = 0 => /\ call.index + 1 <= Len(Phone!Chain(u))
                   /\ rung = {Phone!Chain(u)[k] : k \in 1..call.index + 1}
  BY <1>1, <1>5 DEF PhoneInv, Listed
<1>8. CASE answered
  <2>1. t \in Phone!Call /\ t.do = "over" /\ t.end = "answered"
    BY <1>8, OverIs
  <2> HIDE DEF t, B, P
  <2>2. Fits(t, B, P)
    BY <2>1 DEF Fits, PeopleDone, Listed
  <2>3. PhoneInv'
    BY <1>1, <1>4, <2>1, <2>2, AnswerKeeps
  <2> QED
    BY <1>1, <2>1, <2>3 DEF Phone!Answer, RungRight
<1>9. CASE ~answered /\ call.index + 1 < Len(Phone!Chain(u))
  <2> DEFINE c == Phone!Chain(u)
             i == call.index + 1
  <2>1. t = Phone!Ring(call.tried, u, i)
    BY <1>5, <1>9 DEF Phone!NextPerson
  <2>2. t = [do |-> "ring", attempt |-> 1, repeat |-> 0, tried |-> call.tried \union {"HUMAN"}, index |-> i,
             target |-> u, to |-> c[i + 1], end |-> "none"]
    BY <2>1 DEF Phone!Ring, Phone!NewCall
  <2>3. i \in Nat /\ i + 1 \in 1..Len(c) /\ i < MaxHuman /\ c[i + 1] \in Dests
    BY <1>2, <1>6, <1>9, Limits DEF IsChain
  <2>4. t \in Phone!Call
    <3>1. call.tried \union {"HUMAN"} \in SUBSET {"AI", "HUMAN"}
      BY <1>2
    <3>2. i \in 0..MaxHuman /\ 1 \in 1..MaxAttempts /\ 0 \in 0..MaxRepeats
      BY <2>3, Limits
    <3>3. u \in Dests \union {None} /\ c[i + 1] \in Dests \union {None}
      BY <2>3
    <3> HIDE DEF t, i, c
    <3> QED
      BY <2>2, <3>1, <3>2, <3>3 DEF Phone!Call
  <2>5. /\ t.do = "ring" /\ "HUMAN" \in t.tried /\ t.index = i /\ t.target = u /\ t.to = c[i + 1]
    BY <2>2
  <2>6. edits = 0 => Listed(t, rung \union {t.to})
    <3> SUFFICES ASSUME edits = 0 PROVE Listed(t, rung \union {t.to})
      OBVIOUS
    <3>1. rung \union {c[i + 1]} = {c[k] : k \in 1..i + 1}
      <4>1. rung = {c[k] : k \in 1..i}
        BY <1>7
      <4>2. 1..i + 1 = (1..i) \union {i + 1}
        BY <2>3
      <4> HIDE DEF c, i
      <4> QED
        BY <4>1, <4>2
    <3>2. i + 1 <= Len(c)
      BY <2>3
    <3> HIDE DEF i, t
    <3> SUFFICES ASSUME NEW v \in Dests \union {None}, v = t.target
                 PROVE  /\ t.index + 1 <= Len(Phone!Chain(v))
                        /\ t.to = Phone!Chain(v)[t.index + 1]
                        /\ rung \union {t.to} = {Phone!Chain(v)[k] : k \in 1..t.index + 1}
      BY DEF Listed
    <3>3. v = u
      BY <2>5
    <3>4. t.index = i /\ t.to = c[i + 1] /\ Phone!Chain(v) = c
      BY <2>5, <3>3
    <3> HIDE DEF c
    <3>5. t.index + 1 = i + 1
      BY <3>4
    <3>6. rung \union {t.to} = {c[k] : k \in 1..i + 1}
      BY <3>1, <3>4
    <3> QED
      BY <3>2, <3>4, <3>5, <3>6
  <2>7. edits = 0 => t.to \notin rung
    <3> SUFFICES ASSUME edits = 0, NEW k \in 1..i, c[k] = c[i + 1] PROVE FALSE
      BY <1>7, <2>5
    <3>1. k \in 1..Len(c) /\ k # i + 1
      BY <1>6, <2>3 DEF IsChain
    <3> QED
      BY <1>6, <2>3, <3>1 DEF IsChain
  <2>8. \A j \in 0..(MaxHuman - 1) : j >= i => B[j].to = None
    <3> TAKE j \in 0..(MaxHuman - 1)
    <3>1. j >= i => j > call.index
      BY <1>2, Limits
    <3> HIDE DEF B
    <3> QED
      BY <1>3, <1>4, <3>1
  <2>9. \A r \in P : r.index < i
    <3> SUFFICES ASSUME NEW r \in P PROVE r.index < i
      OBVIOUS
    <3>1. r \in Phone!Call /\ r.index \in Nat
      BY <1>4, CallTyped
    <3>2. r = call \/ r.index < call.index
      BY <1>3
    <3> QED
      BY <1>2, <3>1, <3>2
  <2> HIDE DEF t, B, P, i
  <2>10. Fits(t, B, P)
    BY <2>3, <2>5, <2>6, <2>8, <2>9 DEF Fits, PeopleDone
  <2>11. PhoneInv'
    BY <1>1, <1>4, <2>4, <2>10, AnswerKeeps
  <2> QED
    BY <1>1, <2>5, <2>7, <2>11 DEF Phone!Answer, RungRight
<1>10. CASE ~answered /\ ~(call.index + 1 < Len(Phone!Chain(u)))
  <2>1. t = Phone!Fallback(call.tried, {})
    BY <1>5, <1>10 DEF Phone!NextPerson
  <2>2. t \in Phone!Call /\ t.do \in {"ai", "over"} /\ (t.do = "ai" => "HUMAN" \in t.tried)
    BY <1>2, <1>3, <2>1, AfterPeople
  <2>3. edits = 0 => RungOut
    <3> SUFFICES ASSUME edits = 0 PROVE RungOut
      OBVIOUS
    <3>1. call.index + 1 = Len(Phone!Chain(u))
      BY <1>2, <1>6, <1>7, <1>10 DEF IsChain
    <3>2. rung = {Phone!Chain(u)[k] : k \in 1..Len(Phone!Chain(u))}
      BY <1>7, <3>1
    <3> QED
      BY <1>2, <3>2, WholeListRungOut
  <2> HIDE DEF t, B, P
  <2>4. Fits(t, B, P)
    BY <2>2, <2>3 DEF Fits, PeopleDone, Listed
  <2>5. PhoneInv'
    BY <1>1, <1>4, <2>2, <2>4, AnswerKeeps
  <2> QED
    BY <1>1, <2>2, <2>3, <2>5 DEF Phone!Answer, RungRight
<1> QED
  BY <1>8, <1>9, <1>10

-----------------------------------------------------------------------------

\* A report of a place closes the row of that place.
LEMMA FinishIs ==
    ASSUME rows \in [0..(MaxHuman - 1) -> Phone!Row], NEW n \in Nat
    PROVE  /\ Phone!Finish(n) \in [0..(MaxHuman - 1) -> Phone!Row]
           /\ \A j \in 0..(MaxHuman - 1) : /\ Phone!Finish(n)[j].to = rows[j].to
                                           /\ j # n => Phone!Finish(n)[j] = rows[j]
<1> DEFINE closed == [rows[n] EXCEPT !.ringing = FALSE]
<1>1. Phone!Finish(n) = [rows EXCEPT ![n] = closed]
  BY DEF Phone!Finish
<1>2. n \in 0..(MaxHuman - 1) => closed \in Phone!Row /\ closed.to = rows[n].to
  <2> SUFFICES ASSUME n \in 0..(MaxHuman - 1) PROVE closed \in Phone!Row /\ closed.to = rows[n].to
    OBVIOUS
  <2>1. rows[n] \in Phone!Row
    OBVIOUS
  <2> QED
    BY <2>1 DEF Phone!Row
<1> HIDE DEF closed
<1> QED
  BY <1>1, <1>2

LEMMA ReportKeeps == ASSUME PhoneInv, NEW r \in past, Phone!ReportAgain(r) PROVE PhoneInv' /\ RungRight
<1>1. /\ callback' = Phone!LogCallback(Phone!NextPerson(r)) /\ rows' = Phone!Finish(r.index)
      /\ UNCHANGED <<cfg, caller, call, leg, rung, past, echo, edits>>
  BY DEF Phone!ReportAgain
<1>2. r.index \in Nat /\ rows \in [0..(MaxHuman - 1) -> Phone!Row]
  <2>1. past \subseteq Phone!Call /\ rows \in [0..(MaxHuman - 1) -> Phone!Row]
    BY DEF PhoneInv, Phone!TypeOK
  <2> QED
    BY <2>1, CallTyped
<1>3. /\ rows' \in [0..(MaxHuman - 1) -> Phone!Row]
      /\ \A j \in 0..(MaxHuman - 1) : rows'[j].to = rows[j].to /\ (j # r.index => rows'[j] = rows[j])
  BY <1>1, <1>2, FinishIs
<1>4. callback' \in [open : BOOLEAN, logged : Nat] /\ OneLogged(call, callback')
  <2> DEFINE t == Phone!NextPerson(r)
  <2>1. callback \in [open : BOOLEAN, logged : Nat] /\ OneLogged(call, callback)
    BY DEF PhoneInv, Phone!TypeOK
  <2>2. \/ callback' = [open |-> TRUE, logged |-> callback.logged + 1] /\ ~callback.open
        \/ callback' = callback
    BY <1>1 DEF Phone!LogCallback
  <2>3. CASE callback' = [open |-> TRUE, logged |-> callback.logged + 1] /\ ~callback.open
    <3>1. callback.logged = 0
      BY <2>1, <2>3 DEF OneLogged
    <3> QED
      BY <2>3, <3>1 DEF OneLogged
  <2>4. CASE callback' = callback
    BY <2>1, <2>4
  <2> QED
    BY <2>2, <2>3, <2>4
<1>5. Phone!TypeOK'
  BY <1>1, <1>3, <1>4 DEF PhoneInv, Phone!TypeOK
<1>6. Placed(call, rows', past)
  <2> SUFFICES ASSUME call.do = "ring" PROVE Placed(call, rows', past)
    BY DEF Placed
  <2>1. Placed(call, rows, past) /\ call.index \in Nat
    BY CallTyped DEF PhoneInv, Phone!TypeOK
  <2>2. r.index < call.index /\ call.index \in 0..(MaxHuman - 1)
    BY <2>1, Limits DEF Placed
  <2>3. rows'[call.index] = rows[call.index]
    BY <1>2, <1>3, <2>1, <2>2
  <2> QED
    BY <1>3, <2>1, <2>3 DEF Placed
<1>7. Unused(call, rows', past, rung)
  BY <1>3 DEF PhoneInv, Unused, Untried
<1>8. \A t : Phone!Chain(t)' = Phone!Chain(t)
  BY <1>1, ChainStays
<1>9. Listed(call, rung)' = Listed(call, rung) /\ PeopleDone(call)' = PeopleDone(call)
  BY <1>1, <1>8 DEF Listed, PeopleDone, RungOut
<1> QED
  BY <1>1, <1>4, <1>5, <1>6, <1>7, <1>9 DEF PhoneInv, RungRight

LEMMA RelayKeeps == ASSUME PhoneInv, Phone!RelayEnds PROVE PhoneInv' /\ RungRight
<1> DEFINE t == Phone!Close
<1>1. Phone!Answer(t) /\ UNCHANGED <<cfg, caller, rows, past, echo, edits>> /\ call.do = "relay"
  BY DEF Phone!RelayEnds
<1>2. t \in Phone!Call /\ t.do = "over"
  <2>1. t = Phone!Over("promised") \/ t = Phone!Over("sorry")
    BY DEF Phone!Close
  <2> QED
    BY <2>1, OverIs
<1>3. rows \in [0..(MaxHuman - 1) -> Phone!Row] /\ past \in SUBSET Phone!Call
  BY DEF PhoneInv, Phone!TypeOK
<1> HIDE DEF t
<1>4. rows' = Phone!RecordAttempt(rows, t) /\ past' = past
  BY <1>1, <1>2 DEF Phone!RecordAttempt
<1>5. Fits(t, rows, past)
  BY <1>2 DEF Fits, PeopleDone, Listed
<1>6. PhoneInv'
  BY <1>1, <1>2, <1>3, <1>4, <1>5, AnswerKeeps
<1> QED
  BY <1>1, <1>2, <1>6 DEF Phone!Answer, RungRight

LEMMA HangUpKeeps == ASSUME PhoneInv, Phone!HangUp PROVE PhoneInv' /\ RungRight
<1> DEFINE t == Phone!Over("gone")
<1>1. /\ call' = t /\ rows' = [i \in DOMAIN rows |-> [rows[i] EXCEPT !.ringing = FALSE]]
      /\ UNCHANGED <<cfg, caller, leg, rung, callback, past, echo, edits>>
  BY DEF Phone!HangUp
<1>2. t \in Phone!Call /\ t.do = "over" /\ t.end = "gone" /\ t.tried = {}
  BY OverIs
<1> HIDE DEF t
<1>3. rows' \in [0..(MaxHuman - 1) -> Phone!Row]
  <2>1. rows \in [0..(MaxHuman - 1) -> Phone!Row]
    BY DEF PhoneInv, Phone!TypeOK
  <2>2. \A i \in 0..(MaxHuman - 1) : [rows[i] EXCEPT !.ringing = FALSE] \in Phone!Row
    BY <2>1 DEF Phone!Row
  <2> QED
    BY <1>1, <2>1, <2>2
<1>4. Phone!TypeOK'
  BY <1>1, <1>2, <1>3 DEF PhoneInv, Phone!TypeOK
<1> QED
  BY <1>1, <1>2, <1>4 DEF PhoneInv, OneLogged, Placed, Unused, Listed, PeopleDone, RungRight

LEMMA ForwardKeeps ==
    ASSUME PhoneInv, NEW shown \in {"caller", "line"}, Phone!Forward(shown) PROVE PhoneInv' /\ RungRight
<1>1. /\ call.do = "ring" /\ UNCHANGED <<cfg, caller, call, leg, rows, rung, callback, past, edits>>
      /\ echo' = IF \E i \in DOMAIN rows : rows[i].ringing /\ (shown = "caller" \/ rows[i].to = call.to)
                 THEN "rejected" ELSE "entered"
  BY DEF Phone!Forward
<1>2. call.index \in DOMAIN rows /\ rows[call.index].ringing /\ rows[call.index].to = call.to
  <2>1. DOMAIN rows = 0..(MaxHuman - 1) /\ call.index \in Nat
    BY CallTyped DEF PhoneInv, Phone!TypeOK
  <2> QED
    BY <1>1, <2>1, Limits DEF PhoneInv, Placed
<1>3. echo' = "rejected"
  BY <1>1, <1>2
<1>4. Phone!TypeOK'
  BY <1>1, <1>3 DEF PhoneInv, Phone!TypeOK
<1>5. \A t : Phone!Chain(t)' = Phone!Chain(t)
  BY <1>1, ChainStays
<1>6. Listed(call, rung)' = Listed(call, rung) /\ PeopleDone(call)' = PeopleDone(call)
  BY <1>1, <1>5 DEF Listed, PeopleDone, RungOut
<1> QED
  BY <1>1, <1>3, <1>4, <1>6 DEF PhoneInv, RungRight, OneLogged, Placed, Unused, Untried

LEMMA EditSettingsKeeps == ASSUME PhoneInv, Phone!Edit PROVE PhoneInv' /\ RungRight
<1>1. /\ edits < MaxEdits /\ edits' = edits + 1
      /\ UNCHANGED <<caller, call, leg, rows, rung, callback, past, echo>>
  BY DEF Phone!Edit
<1>2. cfg \in Phone!Settings /\ edits \in 0..MaxEdits
  BY DEF PhoneInv, Phone!TypeOK
<1>3. cfg' \in Phone!Settings
  <2>1. CASE cfg' = [cfg EXCEPT !.menu = "none"]
    BY <1>2, <2>1 DEF Phone!Settings
  <2>2. ASSUME NEW people \in People, cfg' = [cfg EXCEPT !.people = people] PROVE cfg' \in Phone!Settings
    <3>1. people \in Seq(Dests)
      BY PhoneAssumption
    <3> QED
      BY <1>2, <2>2, <3>1 DEF Phone!Settings
  <2>3. ASSUME NEW d \in Dests, cfg' = [cfg EXCEPT !.looping = @ \union {d}] PROVE cfg' \in Phone!Settings
    BY <1>2, <2>3 DEF Phone!Settings
  <2> QED
    BY <2>1, <2>2, <2>3 DEF Phone!Edit
<1>4. edits' \in 0..MaxEdits /\ edits' # 0
  BY <1>1, <1>2, Limits
<1>5. Phone!TypeOK'
  BY <1>1, <1>3, <1>4 DEF PhoneInv, Phone!TypeOK
<1> QED
  BY <1>1, <1>4, <1>5 DEF PhoneInv, RungRight, OneLogged, Placed, Unused, Untried

LEMMA PhoneStepOK == PhoneInv /\ [Phone!Next]_(Phone!callVars) => PhoneInv' /\ RungRight
<1> SUFFICES ASSUME PhoneInv, [Phone!Next]_(Phone!callVars) PROVE PhoneInv' /\ RungRight
  OBVIOUS
<1>1. CASE UNCHANGED Phone!callVars
  <2>1. leg' \in Phone!Leg
    BY <1>1, LegTyped DEF Phone!callVars
  <2> QED
    BY <1>1, <2>1, LegKeeps DEF Phone!callVars
<1>2. CASE Phone!Next
  BY <1>2, IncomingKeeps, PressKeeps, LegKeeps, AcceptKeeps, ConnectKeeps, LoseKeeps, EndingKeeps,
     ResponseKeeps, AiCompleteKeeps, TransferKeeps, ReportKeeps, RelayKeeps, HangUpKeeps, ForwardKeeps,
     EditSettingsKeeps DEF Phone!Next
<1> QED
  BY <1>1, <1>2

\* A call rings everybody who may be rung, once each and up to the cap, before it is given up,
\* is never taken round by a phone that forwards it, and leaves one callback at most - for any
\* list of people, any cap and any number of repeated reports.
THEOREM CallsStayAnswered == Spec => CallsAreAnswered
<1> DEFINE Inv == focus = "phone" => PhoneInv
           Step == [RungRight]_(Phone!callVars)
<1>1. Init => Inv
  BY PhoneInitOK DEF Init
<1>2. Inv /\ [Next]_vars => Inv' /\ Step
  <2> SUFFICES ASSUME Inv, [Next]_vars PROVE Inv' /\ Step
    OBVIOUS
  <2>1. CASE focus = "phone"
    <3>1. focus' = focus /\ [Phone!Next]_(Phone!callVars)
      BY <2>1 DEF Next, vars, phoneVars, Phone!callVars, WorkflowStep, TurnsStep, PhoneStep, VoiceStep,
                  NotesStep, InboxStep
    <3> QED
      BY <2>1, <3>1, PhoneStepOK
  <2>2. CASE focus # "phone"
    <3>1. focus' = focus /\ UNCHANGED Phone!callVars
      BY <2>2 DEF Next, vars, phoneVars, Phone!callVars, WorkflowStep, TurnsStep, PhoneStep, VoiceStep,
                  NotesStep, InboxStep
    <3> QED
      BY <2>2, <3>1
  <2> QED
    BY <2>1, <2>2
<1>3. Inv => (focus = "phone" => Phone!TypeOK /\ Phone!CallsStayStraight)
  BY DEF PhoneInv, OneLogged, Phone!CallsStayStraight, Phone!LoopsAreBroken, Phone!OneCallbackPerCall
<1>4. Step => [edits' = 0 /\ call' # call =>
                  /\ (call.do # "relay" /\ call'.do = "over" /\ call'.end \in {"promised", "sorry"}
                          => Phone!ToSet(Phone!Chain(None)) \subseteq rung \/ Phone!Cardinality(rung) = MaxHuman)
                  /\ (call'.do = "ring" => call'.to \notin rung)]_(Phone!callVars)
  BY PhoneCounts DEF RungRight, RungOut
<1> QED
  BY <1>1, <1>2, <1>3, <1>4, PTL DEF Spec, CallsAreAnswered, Phone!EveryoneIsTriedOnce

-----------------------------------------------------------------------------
(* The chat. Whatever a message makes of the conversation, the question that is asked next
   has what its answer needs, and a confirmation is about what the slots say. *)

Held == "AWAITING_RESUME"
Named == {"AWAITING_NAME", "AWAITING_DATE"} \union Workflow!PostDateSteps

\* What a question's answer needs is in the slots.
Ready(step, s) ==
    /\ (step \in Named => s.type # None)
    /\ (step \in Workflow!PostDateSteps => s.day # None)
    /\ (step \in Workflow!PostDateSteps \ {"AWAITING_TIME"} => s.time # None)
    /\ (step \in {"AWAITING_RESCHEDULE_TIME", "AWAITING_RESCHEDULE_CONFIRMATION"} => s.newDay # None)
    /\ (step = "AWAITING_RESCHEDULE_CONFIRMATION" => s.newTime # None)

\* What a confirmation asks about is what the slots say.
Matches(step, s, q) ==
    /\ (step = "AWAITING_BOOKING_CONFIRMATION" => q = Workflow!Booking(s))
    /\ (step = "AWAITING_CANCEL_CONFIRMATION" => q = [kind |-> "cancel", target |-> s.target])
    /\ (step = "AWAITING_RESCHEDULE_CONFIRMATION" => q = Workflow!Move(s))
    /\ (step = "AWAITING_NAME_CORRECTION_CONFIRM" => q = [kind |-> "rename"])

Sound(s) == s \in Workflow!Context /\ s.resume # Held

WorkflowInv == /\ Workflow!TypeOK /\ Sound(chat.slots)
               /\ Ready(IF chat.step = Held THEN chat.slots.resume ELSE chat.step, chat.slots)
               /\ (pending = Workflow!Nothing => Matches(chat.step, chat.slots, asked))

\* A reply that keeps it.
GoodReply(r) ==
    /\ r.end \in {"open", "complete", "human", "act"}
    /\ r.step \in Workflow!Steps /\ Sound(r.slots) /\ r.what \in Workflow!Acts
    /\ (r.end = "open" => /\ Ready(IF r.step = Held THEN r.slots.resume ELSE r.step, r.slots)
                          /\ Matches(r.step, r.slots, r.what))
    /\ (r.end = "act" => r.what = asked /\ r.what.kind # "nothing")

AllGood(R) == \A r \in R : GoodReply(r)

Confirmations == {"AWAITING_BOOKING_CONFIRMATION", "AWAITING_CANCEL_CONFIRMATION",
                  "AWAITING_RESCHEDULE_CONFIRMATION", "AWAITING_NAME_CORRECTION_CONFIRM"}

LEMMA NoneIsNoStep ==
    /\ None \notin Workflow!PostDateSteps /\ None \notin Named /\ None \notin Confirmations /\ None # Held
    /\ None \notin {"AWAITING_RESCHEDULE_TIME", "AWAITING_RESCHEDULE_CONFIRMATION"}
  BY NoneAssumption DEF Workflow!BookingSteps, Workflow!OtherSteps, Workflow!PostDateSteps,
     Workflow!VehicleSteps, Workflow!ChoiceSteps, Named, Confirmations, Held

LEMMA EmptyIsSound == Sound(Workflow!Empty) /\ Ready(None, Workflow!Empty)
<1>1. None \in Workflow!Steps
  BY DEF Workflow!Steps
<1>2. MaxRounds \in Nat /\ MaxUnresolved \in Nat
  BY TalkAssumption
<1>3. Workflow!Empty \in Workflow!Context
  BY <1>1, <1>2 DEF Workflow!Empty, Workflow!Context
<1>4. Workflow!Empty.resume = None
  BY DEF Workflow!Empty
<1> QED
  BY <1>3, <1>4, NoneIsNoStep DEF Sound, Ready

\* A question that is no confirmation.
LEMMA AskIs ==
    ASSUME NEW step \in Workflow!Steps, step \notin Confirmations, step # Held,
           NEW s, Sound(s), Ready(step, s), NEW r, r = Workflow!Ask(step, s)
    PROVE  GoodReply(r)
<1>1. r = [end |-> "open", step |-> step, slots |-> s, what |-> Workflow!Nothing]
  BY DEF Workflow!Ask
<1>2. Workflow!Nothing \in Workflow!Acts
  BY DEF Workflow!Nothing, Workflow!Acts
<1>3. Matches(step, s, Workflow!Nothing)
  BY DEF Matches, Confirmations
<1> QED
  BY <1>1, <1>2, <1>3 DEF GoodReply

\* A confirmation.
LEMMA ConfirmIs ==
    ASSUME NEW step \in Workflow!Steps, step # Held, NEW s, Sound(s), Ready(step, s),
           NEW q \in Workflow!Acts, Matches(step, s, q), NEW r, r = Workflow!Confirm(step, s, q)
    PROVE  GoodReply(r)
<1>1. r = [end |-> "open", step |-> step, slots |-> s, what |-> q]
  BY DEF Workflow!Confirm, Workflow!Ask
<1> QED
  BY <1>1 DEF GoodReply

\* The ends of a flow, and the act that was asked about.
LEMMA EndIs ==
    ASSUME NEW end \in {"open", "complete", "human", "act"}, NEW q \in Workflow!Acts,
           end = "act" => q = asked /\ q.kind # "nothing",
           NEW r, r = [end |-> end, step |-> None, slots |-> Workflow!Empty, what |-> q]
    PROVE  GoodReply(r)
<1>1. Matches(None, Workflow!Empty, q)
  BY NoneIsNoStep DEF Matches, Confirmations
<1>2. None \in Workflow!Steps /\ None # Held
  BY NoneIsNoStep DEF Workflow!Steps
<1> QED
  BY <1>1, <1>2, EmptyIsSound DEF GoodReply

\* Acts are carried out as they are named.
LEMMA DoIs == ASSUME NEW q \in Workflow!Acts, q = asked, q.kind # "nothing" PROVE GoodReply(Workflow!Do(q))
<1>1. PICK a : a = [Workflow!Ask(None, Workflow!Empty) EXCEPT !.end = "act"]
  OBVIOUS
<1>2. a = [end |-> "act", step |-> None, slots |-> Workflow!Empty, what |-> Workflow!Nothing]
  BY <1>1 DEF Workflow!Ask
<1>3. PICK b : b = [a EXCEPT !.what = q]
  OBVIOUS
<1>4. b = [end |-> "act", step |-> None, slots |-> Workflow!Empty, what |-> q]
  BY <1>2, <1>3
<1>5. Workflow!Do(q) = b
  BY <1>1, <1>3 DEF Workflow!Do
<1> QED
  BY <1>4, <1>5, EndIs

LEMMA EndsAre == GoodReply(Workflow!Complete) /\ GoodReply(Workflow!Human) /\ AllGood(Workflow!ResetFlow)
<1>1. Workflow!Nothing \in Workflow!Acts
  BY DEF Workflow!Nothing, Workflow!Acts
<1>2. GoodReply(Workflow!Complete)
  BY <1>1, EndIs DEF Workflow!Complete, Workflow!Ask
<1>3. GoodReply(Workflow!Human)
  BY <1>1, EndIs DEF Workflow!Human, Workflow!Ask
<1>4. GoodReply(Workflow!Ask(None, Workflow!Empty))
  BY <1>1, EndIs DEF Workflow!Ask
<1> QED
  BY <1>2, <1>3, <1>4 DEF AllGood, Workflow!ResetFlow

-----------------------------------------------------------------------------
(* The slots, and what is put into them *)

Filled(type, day, time, target, newDay, newTime, name, resume, rounds, unresolved) ==
    [type |-> type, day |-> day, time |-> time, target |-> target, newDay |-> newDay,
     newTime |-> newTime, name |-> name, resume |-> resume, rounds |-> rounds, unresolved |-> unresolved]

Fitting(type, day, time, target, newDay, newTime, name, resume, rounds, unresolved) ==
    /\ type \in Types \union {None} /\ day \in Days \union {None} /\ time \in Times \union {None}
    /\ target \in Appts \union {None} /\ newDay \in Days \union {None}
    /\ newTime \in Times \union {None} /\ name \in BOOLEAN /\ resume \in Workflow!Steps /\ resume # Held
    /\ rounds \in 0..MaxRounds /\ unresolved \in 0..MaxUnresolved

LEMMA FilledIs ==
    ASSUME NEW ty, NEW d, NEW ti, NEW a, NEW nd, NEW nt, NEW n, NEW p, NEW k, NEW u,
           Fitting(ty, d, ti, a, nd, nt, n, p, k, u)
    PROVE  LET t == Filled(ty, d, ti, a, nd, nt, n, p, k, u)
           IN /\ Sound(t) /\ t.type = ty /\ t.day = d /\ t.time = ti /\ t.target = a
              /\ t.newDay = nd /\ t.newTime = nt /\ t.name = n /\ t.resume = p
<1> DEFINE t == Filled(ty, d, ti, a, nd, nt, n, p, k, u)
<1>1. t \in Workflow!Context
  BY DEF Filled, Fitting, Workflow!Context
<1>2. /\ t.type = ty /\ t.day = d /\ t.time = ti /\ t.target = a
      /\ t.newDay = nd /\ t.newTime = nt /\ t.name = n /\ t.resume = p
  BY DEF Filled
<1> QED
  BY <1>1, <1>2 DEF Sound, Fitting

LEMMA SlotsAre ==
    ASSUME NEW s, Sound(s)
    PROVE  s = Filled(s.type, s.day, s.time, s.target, s.newDay, s.newTime, s.name, s.resume,
                      s.rounds, s.unresolved)
  BY DEF Sound, Workflow!Context, Filled

LEMMA SlotTypes ==
    ASSUME NEW s, Sound(s)
    PROVE  Fitting(s.type, s.day, s.time, s.target, s.newDay, s.newTime, s.name, s.resume,
                s.rounds, s.unresolved)
  BY DEF Sound, Workflow!Context, Fitting

\* The day is put down.
OnDay(s, d) == [s EXCEPT !.day = d]
LEMMA OnDayIs ==
    ASSUME NEW s, Sound(s), NEW d \in Days \union {None}
    PROVE  LET t == OnDay(s, d)
           IN /\ Sound(t) /\ t.type = s.type /\ t.day = d /\ t.time = s.time
              /\ t.target = s.target /\ t.newDay = s.newDay /\ t.newTime = s.newTime /\ t.name = s.name /\ t.resume = s.resume
<1>1. OnDay(s, d) = Filled(s.type, d, s.time, s.target, s.newDay, s.newTime, s.name, s.resume, s.rounds, s.unresolved)
  BY SlotsAre DEF OnDay, Filled
<1>2. Fitting(s.type, d, s.time, s.target, s.newDay, s.newTime, s.name, s.resume, s.rounds, s.unresolved)
  BY SlotTypes, TalkAssumption DEF Fitting
<1> QED
  BY <1>1, <1>2, FilledIs

\* The day and the time are given up.
Undated(s) == [s EXCEPT !.day = None, !.time = None]
LEMMA UndatedIs ==
    ASSUME NEW s, Sound(s)
    PROVE  LET t == Undated(s)
           IN /\ Sound(t) /\ t.type = s.type /\ t.day = None /\ t.time = None
              /\ t.target = s.target /\ t.newDay = s.newDay /\ t.newTime = s.newTime /\ t.name = s.name /\ t.resume = s.resume
<1>1. Undated(s) = Filled(s.type, None, None, s.target, s.newDay, s.newTime, s.name, s.resume, s.rounds, s.unresolved)
  <2>1. PICK u : u = [s EXCEPT !.day = None]
    OBVIOUS
  <2>2. u = Filled(s.type, None, s.time, s.target, s.newDay, s.newTime, s.name, s.resume, s.rounds, s.unresolved)
    BY <2>1, SlotsAre DEF Filled
  <2>3. PICK v : v = [u EXCEPT !.time = None]
    OBVIOUS
  <2>4. v = Filled(s.type, None, None, s.target, s.newDay, s.newTime, s.name, s.resume, s.rounds, s.unresolved)
    BY <2>3, <2>2 DEF Filled
  <2> QED
    BY <2>1, <2>2, <2>3, <2>4 DEF Undated
<1>2. Fitting(s.type, None, None, s.target, s.newDay, s.newTime, s.name, s.resume, s.rounds, s.unresolved)
  BY SlotTypes, TalkAssumption DEF Fitting
<1> QED
  BY <1>1, <1>2, FilledIs

\* The type is put down, and the rounds of asking start over.
Typed(s, ty) == [s EXCEPT !.type = ty, !.rounds = 0]
LEMMA TypedIs ==
    ASSUME NEW s, Sound(s), NEW ty \in Types
    PROVE  LET t == Typed(s, ty)
           IN /\ Sound(t) /\ t.type = ty /\ t.day = s.day /\ t.time = s.time
              /\ t.target = s.target /\ t.newDay = s.newDay /\ t.newTime = s.newTime /\ t.name = s.name /\ t.resume = s.resume
<1>1. Typed(s, ty) = Filled(ty, s.day, s.time, s.target, s.newDay, s.newTime, s.name, s.resume, 0, s.unresolved)
  <2>1. PICK u : u = [s EXCEPT !.type = ty]
    OBVIOUS
  <2>2. u = Filled(ty, s.day, s.time, s.target, s.newDay, s.newTime, s.name, s.resume, s.rounds, s.unresolved)
    BY <2>1, SlotsAre DEF Filled
  <2>3. PICK v : v = [u EXCEPT !.rounds = 0]
    OBVIOUS
  <2>4. v = Filled(ty, s.day, s.time, s.target, s.newDay, s.newTime, s.name, s.resume, 0, s.unresolved)
    BY <2>3, <2>2 DEF Filled
  <2> QED
    BY <2>1, <2>2, <2>3, <2>4 DEF Typed
<1>2. Fitting(ty, s.day, s.time, s.target, s.newDay, s.newTime, s.name, s.resume, 0, s.unresolved)
  BY SlotTypes, TalkAssumption DEF Fitting
<1> QED
  BY <1>1, <1>2, FilledIs

\* A round of asking more.
AskedOnce(s) == [s EXCEPT !.rounds = @ + 1]
LEMMA AskedOnceIs ==
    ASSUME NEW s, Sound(s), s.rounds < MaxRounds
    PROVE  LET t == AskedOnce(s)
           IN /\ Sound(t) /\ t.type = s.type /\ t.day = s.day /\ t.time = s.time
              /\ t.target = s.target /\ t.newDay = s.newDay /\ t.newTime = s.newTime /\ t.name = s.name /\ t.resume = s.resume
<1>1. AskedOnce(s) = Filled(s.type, s.day, s.time, s.target, s.newDay, s.newTime, s.name, s.resume, s.rounds + 1, s.unresolved)
  BY SlotsAre DEF AskedOnce, Filled
<1>2. Fitting(s.type, s.day, s.time, s.target, s.newDay, s.newTime, s.name, s.resume, s.rounds + 1, s.unresolved)
  BY SlotTypes, TalkAssumption DEF Fitting
<1> QED
  BY <1>1, <1>2, FilledIs

\* The time is put down, or given up.
AtTime(s, ti) == [s EXCEPT !.time = ti]
LEMMA AtTimeIs ==
    ASSUME NEW s, Sound(s), NEW ti \in Times \union {None}
    PROVE  LET t == AtTime(s, ti)
           IN /\ Sound(t) /\ t.type = s.type /\ t.day = s.day /\ t.time = ti
              /\ t.target = s.target /\ t.newDay = s.newDay /\ t.newTime = s.newTime /\ t.name = s.name /\ t.resume = s.resume
<1>1. AtTime(s, ti) = Filled(s.type, s.day, ti, s.target, s.newDay, s.newTime, s.name, s.resume, s.rounds, s.unresolved)
  BY SlotsAre DEF AtTime, Filled
<1>2. Fitting(s.type, s.day, ti, s.target, s.newDay, s.newTime, s.name, s.resume, s.rounds, s.unresolved)
  BY SlotTypes, TalkAssumption DEF Fitting
<1> QED
  BY <1>1, <1>2, FilledIs

\* Another type, on the same day.
Retyped(s, ty) == [s EXCEPT !.type = ty, !.time = None]
LEMMA RetypedIs ==
    ASSUME NEW s, Sound(s), NEW ty \in Types
    PROVE  LET t == Retyped(s, ty)
           IN /\ Sound(t) /\ t.type = ty /\ t.day = s.day /\ t.time = None
              /\ t.target = s.target /\ t.newDay = s.newDay /\ t.newTime = s.newTime /\ t.name = s.name /\ t.resume = s.resume
<1>1. Retyped(s, ty) = Filled(ty, s.day, None, s.target, s.newDay, s.newTime, s.name, s.resume, s.rounds, s.unresolved)
  <2>1. PICK u : u = [s EXCEPT !.type = ty]
    OBVIOUS
  <2>2. u = Filled(ty, s.day, s.time, s.target, s.newDay, s.newTime, s.name, s.resume, s.rounds, s.unresolved)
    BY <2>1, SlotsAre DEF Filled
  <2>3. PICK v : v = [u EXCEPT !.time = None]
    OBVIOUS
  <2>4. v = Filled(ty, s.day, None, s.target, s.newDay, s.newTime, s.name, s.resume, s.rounds, s.unresolved)
    BY <2>3, <2>2 DEF Filled
  <2> QED
    BY <2>1, <2>2, <2>3, <2>4 DEF Retyped
<1>2. Fitting(ty, s.day, None, s.target, s.newDay, s.newTime, s.name, s.resume, s.rounds, s.unresolved)
  BY SlotTypes, TalkAssumption DEF Fitting
<1> QED
  BY <1>1, <1>2, FilledIs

\* Another type, and no day.
Renewed(s, ty) == [s EXCEPT !.type = ty, !.day = None, !.time = None]
LEMMA RenewedIs ==
    ASSUME NEW s, Sound(s), NEW ty \in Types
    PROVE  LET t == Renewed(s, ty)
           IN /\ Sound(t) /\ t.type = ty /\ t.day = None /\ t.time = None
              /\ t.target = s.target /\ t.newDay = s.newDay /\ t.newTime = s.newTime /\ t.name = s.name /\ t.resume = s.resume
<1>1. Renewed(s, ty) = Filled(ty, None, None, s.target, s.newDay, s.newTime, s.name, s.resume, s.rounds, s.unresolved)
  <2>1. PICK u : u = [s EXCEPT !.type = ty]
    OBVIOUS
  <2>2. u = Filled(ty, s.day, s.time, s.target, s.newDay, s.newTime, s.name, s.resume, s.rounds, s.unresolved)
    BY <2>1, SlotsAre DEF Filled
  <2>3. PICK v : v = [u EXCEPT !.day = None]
    OBVIOUS
  <2>4. v = Filled(ty, None, s.time, s.target, s.newDay, s.newTime, s.name, s.resume, s.rounds, s.unresolved)
    BY <2>3, <2>2 DEF Filled
  <2>5. PICK w : w = [v EXCEPT !.time = None]
    OBVIOUS
  <2>6. w = Filled(ty, None, None, s.target, s.newDay, s.newTime, s.name, s.resume, s.rounds, s.unresolved)
    BY <2>5, <2>4 DEF Filled
  <2> QED
    BY <2>1, <2>2, <2>3, <2>4, <2>5, <2>6 DEF Renewed
<1>2. Fitting(ty, None, None, s.target, s.newDay, s.newTime, s.name, s.resume, s.rounds, s.unresolved)
  BY SlotTypes, TalkAssumption DEF Fitting
<1> QED
  BY <1>1, <1>2, FilledIs

\* The appointment that is meant.
Aimed(s, a) == [s EXCEPT !.target = a]
LEMMA AimedIs ==
    ASSUME NEW s, Sound(s), NEW a \in Appts
    PROVE  LET t == Aimed(s, a)
           IN /\ Sound(t) /\ t.type = s.type /\ t.day = s.day /\ t.time = s.time
              /\ t.target = a /\ t.newDay = s.newDay /\ t.newTime = s.newTime /\ t.name = s.name /\ t.resume = s.resume
<1>1. Aimed(s, a) = Filled(s.type, s.day, s.time, a, s.newDay, s.newTime, s.name, s.resume, s.rounds, s.unresolved)
  BY SlotsAre DEF Aimed, Filled
<1>2. Fitting(s.type, s.day, s.time, a, s.newDay, s.newTime, s.name, s.resume, s.rounds, s.unresolved)
  BY SlotTypes, TalkAssumption DEF Fitting
<1> QED
  BY <1>1, <1>2, FilledIs

\* The appointment that is meant, and where it goes.
AimedOn(s, a, d) == [s EXCEPT !.target = a, !.newDay = d]
LEMMA AimedOnIs ==
    ASSUME NEW s, Sound(s), NEW a \in Appts, NEW d \in Days
    PROVE  LET t == AimedOn(s, a, d)
           IN /\ Sound(t) /\ t.type = s.type /\ t.day = s.day /\ t.time = s.time
              /\ t.target = a /\ t.newDay = d /\ t.newTime = s.newTime /\ t.name = s.name /\ t.resume = s.resume
<1>1. AimedOn(s, a, d) = Filled(s.type, s.day, s.time, a, d, s.newTime, s.name, s.resume, s.rounds, s.unresolved)
  <2>1. PICK u : u = [s EXCEPT !.target = a]
    OBVIOUS
  <2>2. u = Filled(s.type, s.day, s.time, a, s.newDay, s.newTime, s.name, s.resume, s.rounds, s.unresolved)
    BY <2>1, SlotsAre DEF Filled
  <2>3. PICK v : v = [u EXCEPT !.newDay = d]
    OBVIOUS
  <2>4. v = Filled(s.type, s.day, s.time, a, d, s.newTime, s.name, s.resume, s.rounds, s.unresolved)
    BY <2>3, <2>2 DEF Filled
  <2> QED
    BY <2>1, <2>2, <2>3, <2>4 DEF AimedOn
<1>2. Fitting(s.type, s.day, s.time, a, d, s.newTime, s.name, s.resume, s.rounds, s.unresolved)
  BY SlotTypes, TalkAssumption DEF Fitting
<1> QED
  BY <1>1, <1>2, FilledIs

\* The time it moves to.
MovedTo(s, ti) == [s EXCEPT !.newTime = ti]
LEMMA MovedToIs ==
    ASSUME NEW s, Sound(s), NEW ti \in Times
    PROVE  LET t == MovedTo(s, ti)
           IN /\ Sound(t) /\ t.type = s.type /\ t.day = s.day /\ t.time = s.time
              /\ t.target = s.target /\ t.newDay = s.newDay /\ t.newTime = ti /\ t.name = s.name /\ t.resume = s.resume
<1>1. MovedTo(s, ti) = Filled(s.type, s.day, s.time, s.target, s.newDay, ti, s.name, s.resume, s.rounds, s.unresolved)
  BY SlotsAre DEF MovedTo, Filled
<1>2. Fitting(s.type, s.day, s.time, s.target, s.newDay, ti, s.name, s.resume, s.rounds, s.unresolved)
  BY SlotTypes, TalkAssumption DEF Fitting
<1> QED
  BY <1>1, <1>2, FilledIs

\* A name was given.
Renaming(s) == [s EXCEPT !.name = TRUE]
LEMMA RenamingIs ==
    ASSUME NEW s, Sound(s)
    PROVE  LET t == Renaming(s)
           IN /\ Sound(t) /\ t.type = s.type /\ t.day = s.day /\ t.time = s.time
              /\ t.target = s.target /\ t.newDay = s.newDay /\ t.newTime = s.newTime /\ t.name = TRUE /\ t.resume = s.resume
<1>1. PICK y \in BOOLEAN : y = TRUE
  OBVIOUS
<1>2. PICK t : t = Renaming(s)
  OBVIOUS
<1>3. t = [s EXCEPT !.name = y]
  BY <1>1, <1>2 DEF Renaming
<1>4. t = Filled(s.type, s.day, s.time, s.target, s.newDay, s.newTime, y, s.resume, s.rounds, s.unresolved)
  BY <1>3, SlotsAre DEF Filled
<1>5. Fitting(s.type, s.day, s.time, s.target, s.newDay, s.newTime, y, s.resume, s.rounds, s.unresolved)
  BY SlotTypes, TalkAssumption DEF Fitting
<1>6. /\ Sound(t) /\ t.type = s.type /\ t.day = s.day /\ t.time = s.time
      /\ t.target = s.target /\ t.newDay = s.newDay /\ t.newTime = s.newTime /\ t.name = y /\ t.resume = s.resume
  BY <1>4, <1>5, FilledIs
<1> QED
  BY <1>1, <1>2, <1>6

\* The question that is held.
Paused(s, p) == [s EXCEPT !.resume = p]
LEMMA PausedIs ==
    ASSUME NEW s, Sound(s), NEW p \in Workflow!Steps, p # Held
    PROVE  LET t == Paused(s, p)
           IN /\ Sound(t) /\ t.type = s.type /\ t.day = s.day /\ t.time = s.time
              /\ t.target = s.target /\ t.newDay = s.newDay /\ t.newTime = s.newTime /\ t.name = s.name /\ t.resume = p
<1>1. Paused(s, p) = Filled(s.type, s.day, s.time, s.target, s.newDay, s.newTime, s.name, p, s.rounds, s.unresolved)
  BY SlotsAre DEF Paused, Filled
<1>2. Fitting(s.type, s.day, s.time, s.target, s.newDay, s.newTime, s.name, p, s.rounds, s.unresolved)
  BY SlotTypes, TalkAssumption DEF Fitting
<1> QED
  BY <1>1, <1>2, FilledIs

\* A text more that was not understood.
Puzzled(s) == [s EXCEPT !.unresolved = @ + 1]
LEMMA PuzzledIs ==
    ASSUME NEW s, Sound(s), s.unresolved + 1 < MaxUnresolved
    PROVE  LET t == Puzzled(s)
           IN /\ Sound(t) /\ t.type = s.type /\ t.day = s.day /\ t.time = s.time
              /\ t.target = s.target /\ t.newDay = s.newDay /\ t.newTime = s.newTime /\ t.name = s.name /\ t.resume = s.resume
<1>1. Puzzled(s) = Filled(s.type, s.day, s.time, s.target, s.newDay, s.newTime, s.name, s.resume, s.rounds, s.unresolved + 1)
  BY SlotsAre DEF Puzzled, Filled
<1>2. Fitting(s.type, s.day, s.time, s.target, s.newDay, s.newTime, s.name, s.resume, s.rounds, s.unresolved + 1)
  BY SlotTypes, TalkAssumption DEF Fitting
<1> QED
  BY <1>1, <1>2, FilledIs

-----------------------------------------------------------------------------
(* What the texts are, and what the questions need *)

Said == [intent : Workflow!Intents, yes : BOOLEAN, no : BOOLEAN, day : Days \union {None},
         time : Times \union {None}, type : Types \union {None}, pick : BOOLEAN, cue : BOOLEAN,
         other : BOOLEAN]

Parsed(i, y, n, d, ti, ty, p, c, o) ==
    [intent |-> i, yes |-> y, no |-> n, day |-> d, time |-> ti, type |-> ty, pick |-> p, cue |-> c, other |-> o]

\* Texts by what is found in them.
Wanting(i, t, d) == [Workflow!Plain EXCEPT !.intent = i, !.type = t, !.day = d]
Answering(y, n) == [Workflow!Plain EXCEPT !.yes = y, !.no = n]
Dating(d, c) == [Workflow!Plain EXCEPT !.day = d, !.cue = c]
Choosing(t, c) == [Workflow!Plain EXCEPT !.type = t, !.cue = c]

LEMMA TextsAreSaid == \A m \in Workflow!Texts : m \in Said
<1>1. PICK yes \in BOOLEAN, no \in BOOLEAN : yes = TRUE /\ no = FALSE
  OBVIOUS
<1>2. PICK p : p = Workflow!Plain
  OBVIOUS
<1>3. p = Parsed("UNKNOWN", no, no, None, None, None, no, no, no)
  BY <1>1, <1>2 DEF Parsed, Workflow!Plain
<1>4. p \in Said
  BY <1>3 DEF Parsed, Said, Workflow!Intents
<1>5. ASSUME NEW i \in Workflow!Intents PROVE [p EXCEPT !.intent = i] \in Said
  BY <1>4 DEF Said
<1>6. ASSUME NEW i \in Workflow!Intents, NEW ty \in Types \union {None}, NEW d \in Days \union {None}
      PROVE  [p EXCEPT !.intent = i, !.type = ty, !.day = d] \in Said
  <2>1. PICK u : u = [p EXCEPT !.intent = i]
    OBVIOUS
  <2>2. PICK v : v = [u EXCEPT !.type = ty]
    OBVIOUS
  <2>3. PICK w : w = [v EXCEPT !.day = d]
    OBVIOUS
  <2>4. u \in Said
    BY <1>5, <2>1
  <2>5. v \in Said
    BY <2>2, <2>4 DEF Said
  <2>6. w \in Said
    BY <2>3, <2>5 DEF Said
  <2> QED
    BY <2>1, <2>2, <2>3, <2>6
<1>7. ASSUME NEW y \in BOOLEAN, NEW n \in BOOLEAN PROVE [p EXCEPT !.yes = y, !.no = n] \in Said
  <2>1. PICK u : u = [p EXCEPT !.yes = y]
    OBVIOUS
  <2>2. PICK v : v = [u EXCEPT !.no = n]
    OBVIOUS
  <2>3. u \in Said
    BY <1>4, <2>1 DEF Said
  <2>4. v \in Said
    BY <2>2, <2>3 DEF Said
  <2> QED
    BY <2>1, <2>2, <2>4
<1>8. ASSUME NEW d \in Days, NEW c \in BOOLEAN PROVE [p EXCEPT !.day = d, !.cue = c] \in Said
  <2>1. PICK u : u = [p EXCEPT !.day = d]
    OBVIOUS
  <2>2. PICK v : v = [u EXCEPT !.cue = c]
    OBVIOUS
  <2>3. u \in Said
    BY <1>4, <2>1 DEF Said
  <2>4. v \in Said
    BY <2>2, <2>3 DEF Said
  <2> QED
    BY <2>1, <2>2, <2>4
<1>9. ASSUME NEW ty \in Types, NEW c \in BOOLEAN PROVE [p EXCEPT !.type = ty, !.cue = c] \in Said
  <2>1. PICK u : u = [p EXCEPT !.type = ty]
    OBVIOUS
  <2>2. PICK v : v = [u EXCEPT !.cue = c]
    OBVIOUS
  <2>3. u \in Said
    BY <1>4, <2>1 DEF Said
  <2>4. v \in Said
    BY <2>2, <2>3 DEF Said
  <2> QED
    BY <2>1, <2>2, <2>4
<1>10. ASSUME NEW ti \in Times PROVE [p EXCEPT !.time = ti] \in Said
  BY <1>4 DEF Said
<1>11. [p EXCEPT !.pick = TRUE] \in Said
  <2>1. [p EXCEPT !.pick = yes] \in Said
    BY <1>4 DEF Said
  <2> QED
    BY <1>1, <2>1
<1>12. [p EXCEPT !.other = TRUE] \in Said
  <2>1. [p EXCEPT !.other = yes] \in Said
    BY <1>4 DEF Said
  <2> QED
    BY <1>1, <2>1
<1>13. {"CREATE_BOOKING", "RESCHEDULE_APPOINTMENT"} \subseteq Workflow!Intents
  BY DEF Workflow!Intents
<1> DEFINE Wishes == {[Workflow!Plain EXCEPT !.intent = i] : i \in Workflow!Intents \ {"UNKNOWN"}}
           Wants == {[Workflow!Plain EXCEPT !.intent = i, !.type = t, !.day = d] :
                        i \in {"CREATE_BOOKING", "RESCHEDULE_APPOINTMENT"},
                        t \in Types \union {None}, d \in Days \union {None}}
           Answers == {[Workflow!Plain EXCEPT !.yes = y, !.no = n] : y, n \in BOOLEAN}
           Dates == {[Workflow!Plain EXCEPT !.day = d, !.cue = c] : d \in Days, c \in BOOLEAN}
           Kinds == {[Workflow!Plain EXCEPT !.type = t, !.cue = c] : t \in Types, c \in BOOLEAN}
           Hours == {[Workflow!Plain EXCEPT !.time = t] : t \in Times}
           Others == {[Workflow!Plain EXCEPT !.pick = TRUE], [Workflow!Plain EXCEPT !.other = TRUE]}
<1>14. Workflow!Texts = Wishes \union Wants \union Answers \union Dates \union Kinds \union Hours \union Others
  BY DEF Workflow!Texts
<1>15. \A m \in Wishes : m \in Said
  BY <1>2, <1>5
<1>16. \A m \in Hours : m \in Said
  BY <1>2, <1>10
<1>17. \A m \in Others : m \in Said
  BY <1>2, <1>11, <1>12
<1>18. Wants = {Wanting(i, t, d) : i \in {"CREATE_BOOKING", "RESCHEDULE_APPOINTMENT"}, t \in Types \union {None}, d \in Days \union {None}}
  BY DEF Wanting
<1>19. Answers = {Answering(y, n) : y \in BOOLEAN, n \in BOOLEAN}
  BY DEF Answering
<1>20. Dates = {Dating(d, c) : d \in Days, c \in BOOLEAN}
  BY DEF Dating
<1>21. Kinds = {Choosing(t, c) : t \in Types, c \in BOOLEAN}
  BY DEF Choosing
<1> HIDE DEF Wishes, Wants, Answers, Dates, Kinds, Hours, Others
<1>22. ASSUME NEW m \in Wants PROVE m \in Said
  <2>1. PICK i \in {"CREATE_BOOKING", "RESCHEDULE_APPOINTMENT"}, t \in Types \union {None}, d \in Days \union {None} : m = Wanting(i, t, d)
    BY <1>22, <1>18
  <2> QED
    BY <1>2, <1>6, <1>13, <2>1 DEF Wanting
<1>23. ASSUME NEW m \in Answers PROVE m \in Said
  <2>1. PICK y \in BOOLEAN, n \in BOOLEAN : m = Answering(y, n)
    BY <1>23, <1>19
  <2> QED
    BY <1>2, <1>7, <2>1 DEF Answering
<1>24. ASSUME NEW m \in Dates PROVE m \in Said
  <2>1. PICK d \in Days, c \in BOOLEAN : m = Dating(d, c)
    BY <1>24, <1>20
  <2> QED
    BY <1>2, <1>8, <2>1 DEF Dating
<1>25. ASSUME NEW m \in Kinds PROVE m \in Said
  <2>1. PICK t \in Types, c \in BOOLEAN : m = Choosing(t, c)
    BY <1>25, <1>21
  <2> QED
    BY <1>2, <1>9, <2>1 DEF Choosing
<1> QED
  BY <1>14, <1>15, <1>16, <1>17, <1>22, <1>23, <1>24, <1>25

LEMMA PlainIsSaid == Workflow!Plain.yes = FALSE /\ Workflow!Plain.pick = FALSE
  BY DEF Workflow!Plain

\* Questions that are neither a confirmation nor what holds another question.
Questions == Workflow!Steps \ (Confirmations \union {Held})

LEMMA QuestionsAre ==
    /\ {None, "AWAITING_TYPE", "AWAITING_TYPE_CHOICE", "AWAITING_NAME", "AWAITING_DATE", "AWAITING_TIME",
        "AWAITING_VEHICLE_CHOICE", "AWAITING_VEHICLE_CONFIRM", "AWAITING_VEHICLE_REG",
        "AWAITING_CANCEL_CHOICE", "AWAITING_RESCHEDULE_CHOICE", "AWAITING_RESCHEDULE_DATE",
        "AWAITING_RESCHEDULE_TIME", "AWAITING_NAME_CORRECTION", "AWAITING_VEHICLE_REG_FOR_MOT",
        "AWAITING_CALLBACK_REASON"} \subseteq Questions
    /\ Confirmations \subseteq Workflow!Steps /\ Held \in Workflow!Steps /\ Held \notin Confirmations
<1>1. None \notin Confirmations /\ None # Held
  BY NoneIsNoStep
<1> QED
  BY <1>1 DEF Questions, Confirmations, Held, Workflow!Steps, Workflow!BookingSteps, Workflow!OtherSteps,
     Workflow!ChoiceSteps

Free == {None, Held, "AWAITING_TYPE", "AWAITING_TYPE_CHOICE", "AWAITING_CANCEL_CHOICE", "AWAITING_RESCHEDULE_CHOICE",
         "AWAITING_CANCEL_CONFIRMATION", "AWAITING_RESCHEDULE_DATE", "AWAITING_NAME_CORRECTION",
         "AWAITING_NAME_CORRECTION_CONFIRM", "AWAITING_VEHICLE_REG_FOR_MOT", "AWAITING_CALLBACK_REASON"}

LEMMA FreeIsReady == \A s : \A step \in Free : Ready(step, s)
<1>1. ASSUME NEW step \in Free PROVE /\ step \notin Named /\ step \notin Workflow!PostDateSteps
                                     /\ step \notin {"AWAITING_RESCHEDULE_TIME", "AWAITING_RESCHEDULE_CONFIRMATION"}
  <2>1. CASE step = None
    BY <2>1, NoneIsNoStep
  <2>2. CASE step # None
    BY <1>1, <2>2 DEF Free, Held, Named, Workflow!PostDateSteps, Workflow!VehicleSteps
  <2> QED
    BY <2>1, <2>2
<1> QED
  BY <1>1 DEF Ready

LEMMA TypedIsReady == \A s : s.type # None => Ready("AWAITING_NAME", s) /\ Ready("AWAITING_DATE", s)
  BY DEF Ready, Workflow!PostDateSteps, Workflow!VehicleSteps

LEMMA DatedIsReady == \A s : s.type # None /\ s.day # None => Ready("AWAITING_TIME", s)
  BY DEF Ready, Workflow!PostDateSteps, Workflow!VehicleSteps

LEMMA TimedIsReady == \A s : s.type # None /\ s.day # None /\ s.time # None
                          => \A step \in Workflow!VehicleSteps \union {"AWAITING_BOOKING_CONFIRMATION"} : Ready(step, s)
  BY DEF Ready, Workflow!VehicleSteps

LEMMA MovedIsReady == \A s : /\ (s.newDay # None => Ready("AWAITING_RESCHEDULE_TIME", s))
                             /\ (s.newDay # None /\ s.newTime # None => Ready("AWAITING_RESCHEDULE_CONFIRMATION", s))
  BY DEF Ready, Named, Workflow!PostDateSteps, Workflow!VehicleSteps

\* ... and what a question that is ready has.
LEMMA ReadyHas ==
    \A s : \A step :
        /\ (Ready(step, s) /\ step \in Named => s.type # None)
        /\ (Ready(step, s) /\ step \in Workflow!PostDateSteps => s.type # None /\ s.day # None)
        /\ (Ready(step, s) /\ step \in Workflow!VehicleSteps \union {"AWAITING_BOOKING_CONFIRMATION"} => s.time # None)
        /\ (Ready(step, s) /\ step \in {"AWAITING_RESCHEDULE_TIME", "AWAITING_RESCHEDULE_CONFIRMATION"} => s.newDay # None)
        /\ (Ready(step, s) /\ step = "AWAITING_RESCHEDULE_CONFIRMATION" => s.newTime # None)
  BY DEF Ready, Named, Workflow!PostDateSteps, Workflow!VehicleSteps

LEMMA StaysReady ==
    ASSUME NEW s, NEW t, t.type = s.type, t.day = s.day, t.time = s.time, t.newDay = s.newDay, t.newTime = s.newTime,
           NEW step, Ready(step, s)
    PROVE  Ready(step, t)
  BY DEF Ready

\* A question that is ready.
LEMMA AskedRight == ASSUME NEW step \in Questions, NEW s, Sound(s), Ready(step, s) PROVE GoodReply(Workflow!Ask(step, s))
  BY AskIs DEF Questions

-----------------------------------------------------------------------------
(* The replies, operator by operator: each asks what it can *)

LEMMA OneIsAll == ASSUME NEW r, GoodReply(r) PROVE AllGood({r})
  BY DEF AllGood

LEMMA BothAreAll == ASSUME NEW R, NEW S, AllGood(R), AllGood(S) PROVE AllGood(R \union S)
  BY DEF AllGood

LEMMA NoneIsAll == AllGood({})
  BY DEF AllGood

LEMMA OfferTimesIs ==
    ASSUME NEW s, Sound(s), s.type # None, NEW d \in Days, d # None
    PROVE  AllGood(Workflow!OfferTimes(d, s))
<1>1. PICK t : t = OnDay(s, d)
  OBVIOUS
<1>2. Workflow!OfferTimes(d, s) = {Workflow!Ask("AWAITING_TIME", t), Workflow!Ask("AWAITING_DATE", s), Workflow!Human}
  BY <1>1, Zenon DEF Workflow!OfferTimes, OnDay
<1>3. Sound(t) /\ t.type = s.type /\ t.day = d
  BY <1>1, OnDayIs
<1>4. GoodReply(Workflow!Ask("AWAITING_TIME", t))
  BY <1>3, DatedIsReady, QuestionsAre, AskedRight
<1>5. GoodReply(Workflow!Ask("AWAITING_DATE", s))
  BY TypedIsReady, QuestionsAre, AskedRight
<1> QED
  BY <1>2, <1>4, <1>5, EndsAre DEF AllGood

LEMMA RestartDateIs == ASSUME NEW s, Sound(s), s.type # None PROVE AllGood(Workflow!RestartDate(s))
<1>1. PICK t : t = Undated(s)
  OBVIOUS
<1>2. Workflow!RestartDate(s) = {Workflow!Ask("AWAITING_DATE", t)}
  BY <1>1, Zenon DEF Workflow!RestartDate, Undated
<1>3. Sound(t) /\ t.type = s.type
  BY <1>1, UndatedIs
<1> QED
  BY <1>2, <1>3, TypedIsReady, QuestionsAre, AskedRight DEF AllGood

\* A question for which nothing is needed.
LEMMA FreelyAsked == ASSUME NEW step \in Free \ (Confirmations \union {Held}), NEW s, Sound(s)
                     PROVE  GoodReply(Workflow!Ask(step, s))
<1>1. step \in Questions
  BY QuestionsAre DEF Free, Confirmations
<1> QED
  BY <1>1, FreeIsReady, AskedRight

LEMMA FreeQuestions ==
    {None, "AWAITING_TYPE", "AWAITING_TYPE_CHOICE", "AWAITING_CANCEL_CHOICE", "AWAITING_RESCHEDULE_CHOICE",
     "AWAITING_RESCHEDULE_DATE", "AWAITING_NAME_CORRECTION", "AWAITING_VEHICLE_REG_FOR_MOT",
     "AWAITING_CALLBACK_REASON"} \subseteq Free \ (Confirmations \union {Held})
  BY NoneIsNoStep DEF Free, Confirmations, Held

LEMMA ListTypesIs == ASSUME NEW s, Sound(s) PROVE AllGood(Workflow!ListTypes(s))
  BY FreeQuestions, FreelyAsked DEF AllGood, Workflow!ListTypes

LEMMA AfterTypeResolvedIs ==
    ASSUME NEW s, Sound(s), NEW ty \in Types, ty # None, NEW d \in Days \union {None}
    PROVE  AllGood(Workflow!AfterTypeResolved(ty, d, s))
<1>1. PICK t : t = Typed(s, ty)
  OBVIOUS
<1>2. PICK u : u = OnDay(t, d)
  OBVIOUS
<1>3. Sound(t) /\ t.type # None
  BY <1>1, TypedIs
<1>4. Sound(u) /\ u.type # None
  BY <1>2, <1>3, OnDayIs
<1>5. Workflow!AfterTypeResolved(ty, d, s) =
          IF ~known THEN {Workflow!Ask("AWAITING_NAME", IF d = None THEN t ELSE u)}
          ELSE IF d # None THEN Workflow!OfferTimes(d, t) ELSE {Workflow!Ask("AWAITING_DATE", t)}
  BY <1>1, <1>2, Zenon DEF Workflow!AfterTypeResolved, Typed, OnDay
<1>6. GoodReply(Workflow!Ask("AWAITING_NAME", t)) /\ GoodReply(Workflow!Ask("AWAITING_DATE", t))
  BY <1>3, TypedIsReady, QuestionsAre, AskedRight
<1>7. GoodReply(Workflow!Ask("AWAITING_NAME", u))
  BY <1>4, TypedIsReady, QuestionsAre, AskedRight
<1>8. d # None => AllGood(Workflow!OfferTimes(d, t))
  BY <1>3, OfferTimesIs
<1> QED
  BY <1>5, <1>6, <1>7, <1>8, OneIsAll

LEMMA AskWhichTypeIs ==
    ASSUME NEW s, Sound(s), NEW step \in {"AWAITING_TYPE", "AWAITING_TYPE_CHOICE"}
    PROVE  AllGood(Workflow!AskWhichType(step, s))
<1>1. CASE s.rounds >= MaxRounds
  BY <1>1, EndsAre, OneIsAll DEF Workflow!AskWhichType
<1>2. CASE ~(s.rounds >= MaxRounds)
  <2>1. PICK t : t = AskedOnce(s)
    OBVIOUS
  <2>2. Workflow!AskWhichType(step, s) = {Workflow!Ask(step, t)}
    BY <1>2, <2>1, Zenon DEF Workflow!AskWhichType, AskedOnce
  <2>3. s.rounds \in Nat /\ MaxRounds \in Nat
    BY TalkAssumption DEF Sound, Workflow!Context
  <2>4. Sound(t)
    BY <1>2, <2>1, <2>3, AskedOnceIs
  <2> QED
    BY <2>2, <2>4, FreeQuestions, FreelyAsked, OneIsAll
<1> QED
  BY <1>1, <1>2

LEMMA StartBookingIs ==
    ASSUME NEW s, Sound(s), NEW m \in Said
    PROVE  AllGood(Workflow!StartBooking(s, m))
<1>1. CASE m.type # None
  <2>1. m.type \in Types /\ m.day \in Days \union {None}
    BY <1>1 DEF Said
  <2> QED
    BY <1>1, <2>1, AfterTypeResolvedIs DEF Workflow!StartBooking
<1>2. CASE m.type = None
  <2>1. AllGood(Workflow!AskWhichType("AWAITING_TYPE", s))
    BY AskWhichTypeIs
  <2>2. AllGood({Workflow!Ask("AWAITING_TYPE_CHOICE", s), Workflow!Human})
    BY EndsAre, FreeQuestions, FreelyAsked DEF AllGood
  <2> QED
    BY <1>2, <2>1, <2>2, BothAreAll DEF Workflow!StartBooking
<1> QED
  BY <1>1, <1>2

LEMMA AfterTimeResolvedIs ==
    ASSUME NEW s, Sound(s), s.type # None, s.day # None, s.time # None
    PROVE  AllGood(Workflow!AfterTimeResolved(s))
<1>1. \A step \in Workflow!VehicleSteps : GoodReply(Workflow!Ask(step, s))
  BY TimedIsReady, QuestionsAre, AskedRight DEF Workflow!VehicleSteps
<1> QED
  BY <1>1, OneIsAll DEF Workflow!AfterTimeResolved, Workflow!VehicleSteps

LEMMA BookingIs ==
    ASSUME NEW s, Sound(s), s.type # None, s.day # None, s.time # None
    PROVE  Workflow!Booking(s) \in Workflow!Acts /\ Workflow!Booking(s).kind # "nothing"
<1>1. s.type \in Types /\ s.day \in Days /\ s.time \in Times
  BY DEF Sound, Workflow!Context
<1> QED
  BY <1>1 DEF Workflow!Booking, Workflow!Acts

LEMMA BookingConfirmed ==
    ASSUME NEW s, Sound(s), s.type # None, s.day # None, s.time # None
    PROVE  GoodReply(Workflow!Confirm("AWAITING_BOOKING_CONFIRMATION", s, Workflow!Booking(s)))
<1>1. Matches("AWAITING_BOOKING_CONFIRMATION", s, Workflow!Booking(s))
  BY DEF Matches
<1>2. "AWAITING_BOOKING_CONFIRMATION" # Held /\ "AWAITING_BOOKING_CONFIRMATION" \in Workflow!Steps
  BY QuestionsAre DEF Held, Confirmations
<1>3. Ready("AWAITING_BOOKING_CONFIRMATION", s)
  BY TimedIsReady
<1> QED
  BY <1>1, <1>2, <1>3, BookingIs, ConfirmIs

LEMMA ToConfirmationIs ==
    ASSUME NEW s, Sound(s), s.type # None, s.day # None, s.time # None
    PROVE  AllGood(Workflow!ToConfirmation(s))
  BY BookingConfirmed, OneIsAll DEF Workflow!ToConfirmation

\* A day that is known is one of the days.
LEMMA DayIs == ASSUME NEW s, Sound(s), s.day # None PROVE s.day \in Days
  BY DEF Sound, Workflow!Context

LEMMA StepBackIs ==
    ASSUME NEW s, Sound(s), NEW step \in Workflow!BookingSteps, Ready(step, s)
    PROVE  AllGood(Workflow!StepBack(step, s))
<1>1. CASE step \in {"AWAITING_NAME", "AWAITING_DATE", "AWAITING_TYPE_CHOICE", "AWAITING_TYPE"}
  BY <1>1, ListTypesIs DEF Workflow!StepBack, Workflow!VehicleSteps
<1>2. CASE step = "AWAITING_TIME"
  <2>1. s.type # None
    BY <1>2, ReadyHas DEF Named, Workflow!PostDateSteps
  <2> QED
    BY <1>2, <2>1, RestartDateIs DEF Workflow!StepBack, Workflow!VehicleSteps
<1>3. CASE step \in Workflow!VehicleSteps
  <2>1. s.type # None /\ s.day # None
    BY <1>3, ReadyHas DEF Named, Workflow!PostDateSteps
  <2>2. PICK t : t = AtTime(s, None)
    OBVIOUS
  <2>3. Sound(t) /\ t.type # None
    BY <2>1, <2>2, AtTimeIs
  <2>4. AllGood(Workflow!OfferTimes(s.day, t))
    BY <2>1, <2>3, DayIs, OfferTimesIs
  <2>5. Workflow!StepBack(step, s) = Workflow!OfferTimes(s.day, t)
    BY <1>3, <2>1, <2>2 DEF Workflow!StepBack, AtTime, Workflow!VehicleSteps
  <2> QED
    BY <2>4, <2>5
<1>4. CASE step = "AWAITING_BOOKING_CONFIRMATION"
  <2>1. s.type # None /\ s.day # None /\ s.time # None
    BY <1>4, ReadyHas DEF Named, Workflow!PostDateSteps
  <2> QED
    BY <1>4, <2>1, AfterTimeResolvedIs DEF Workflow!StepBack, Workflow!VehicleSteps
<1> QED
  BY <1>1, <1>2, <1>3, <1>4 DEF Workflow!BookingSteps, Workflow!VehicleSteps

LEMMA ApplyTypeChangeIs ==
    ASSUME NEW s, Sound(s), NEW ty \in Types, ty # None
    PROVE  AllGood(Workflow!ApplyTypeChange(ty, s))
<1>1. PICK t : t = Retyped(s, ty)
  OBVIOUS
<1>2. PICK u : u = Renewed(s, ty)
  OBVIOUS
<1>3. Sound(t) /\ t.type # None /\ Sound(u) /\ u.type # None
  BY <1>1, <1>2, RetypedIs, RenewedIs
<1>4. Workflow!ApplyTypeChange(ty, s) = IF s.day # None THEN Workflow!OfferTimes(s.day, t)
                                        ELSE {Workflow!Ask("AWAITING_DATE", u)}
  BY <1>1, <1>2, Zenon DEF Workflow!ApplyTypeChange, Retyped, Renewed
<1>5. s.day # None => AllGood(Workflow!OfferTimes(s.day, t))
  BY <1>3, DayIs, OfferTimesIs
<1>6. GoodReply(Workflow!Ask("AWAITING_DATE", u))
  BY <1>3, TypedIsReady, QuestionsAre, AskedRight
<1> QED
  BY <1>4, <1>5, <1>6, OneIsAll

LEMMA MaybeCorrectIs ==
    ASSUME NEW s, Sound(s), NEW m \in Said, NEW step, step \in Workflow!PostDateSteps => s.type # None
    PROVE  AllGood(Workflow!MaybeCorrect(step, s, m))
<1>1. m.type \in Types \union {None} /\ m.day \in Days \union {None}
  BY DEF Said
<1>2. PICK t : t = AtTime(s, None)
  OBVIOUS
<1>3. Sound(t) /\ t.type = s.type
  BY <1>2, AtTimeIs
<1>4. Workflow!MaybeCorrect(step, s, m) =
          IF s.type # None /\ m.type \notin {None, s.type} /\ m.cue THEN Workflow!ApplyTypeChange(m.type, s)
          ELSE IF step \in Workflow!PostDateSteps /\ m.day # None THEN Workflow!OfferTimes(m.day, t)
          ELSE IF step \in Workflow!PostDateSteps /\ m.other THEN Workflow!RestartDate(s)
          ELSE {}
  BY <1>2, Zenon DEF Workflow!MaybeCorrect, AtTime
<1>5. m.type \notin {None, s.type} => AllGood(Workflow!ApplyTypeChange(m.type, s))
  BY <1>1, ApplyTypeChangeIs
<1>6. step \in Workflow!PostDateSteps /\ m.day # None => AllGood(Workflow!OfferTimes(m.day, t))
  BY <1>1, <1>3, OfferTimesIs
<1>7. step \in Workflow!PostDateSteps => AllGood(Workflow!RestartDate(s))
  BY RestartDateIs
<1> QED
  BY <1>4, <1>5, <1>6, <1>7, NoneIsAll, Zenon


-----------------------------------------------------------------------------
(* The answers *)

LEMMA AnswerTypeIs == ASSUME NEW s, Sound(s), NEW m \in Said PROVE AllGood(Workflow!AnswerType(s, m))
<1>1. m.type # None => m.type \in Types
  BY DEF Said
<1> QED
  BY <1>1, AfterTypeResolvedIs, AskWhichTypeIs DEF Workflow!AnswerType

LEMMA AnswerNameIs ==
    ASSUME NEW s, Sound(s), s.type # None, NEW m \in Said
    PROVE  AllGood(Workflow!AnswerName(s, m))
<1>1. PICK t : t = OnDay(s, None)
  OBVIOUS
<1>2. Sound(t) /\ t.type # None
  BY <1>1, OnDayIs
<1>3. Workflow!AnswerName(s, m) = IF ~m.pick THEN {Workflow!Ask("AWAITING_NAME", s)}
                                  ELSE IF s.day # None THEN Workflow!OfferTimes(s.day, t)
                                  ELSE {Workflow!Ask("AWAITING_DATE", s)}
  BY <1>1, Zenon DEF Workflow!AnswerName, OnDay
<1>4. GoodReply(Workflow!Ask("AWAITING_NAME", s)) /\ GoodReply(Workflow!Ask("AWAITING_DATE", s))
  BY TypedIsReady, QuestionsAre, AskedRight
<1>5. s.day # None => AllGood(Workflow!OfferTimes(s.day, t))
  BY <1>2, DayIs, OfferTimesIs
<1> QED
  BY <1>3, <1>4, <1>5, OneIsAll

LEMMA AnswerDateIs ==
    ASSUME NEW s, Sound(s), s.type # None, NEW m \in Said
    PROVE  AllGood(Workflow!AnswerDate(s, m))
<1>1. AllGood({Workflow!Ask("AWAITING_DATE", s)})
  BY TypedIsReady, QuestionsAre, AskedRight, OneIsAll
<1>2. AllGood(IF m.day = None THEN {} ELSE Workflow!OfferTimes(m.day, s))
  BY NoneIsAll, OfferTimesIs DEF Said
<1> QED
  BY <1>1, <1>2, BothAreAll DEF Workflow!AnswerDate

LEMMA AnswerTimeIs ==
    ASSUME NEW s, Sound(s), s.type # None, s.day # None, NEW m \in Said
    PROVE  AllGood(Workflow!AnswerTime(s, m))
<1>1. AllGood(Workflow!OfferTimes(s.day, s))
  BY DayIs, OfferTimesIs
<1>2. AllGood({Workflow!Ask("AWAITING_TIME", s)})
  BY DatedIsReady, QuestionsAre, AskedRight, OneIsAll
<1>3. PICK t : t = AtTime(s, m.time)
  OBVIOUS
<1>4. m.time # None => m.time \in Times
  BY DEF Said
<1>5. m.time # None => Sound(t) /\ t.type # None /\ t.day # None /\ t.time # None
  BY <1>3, <1>4, AtTimeIs
<1>6. m.time # None => AllGood(Workflow!AfterTimeResolved(t))
  BY <1>5, AfterTimeResolvedIs
<1>7. Workflow!AnswerTime(s, m) = Workflow!OfferTimes(s.day, s) \union
                                  (IF m.time = None THEN {Workflow!Ask("AWAITING_TIME", s)}
                                   ELSE Workflow!AfterTimeResolved(t))
  BY <1>3, Zenon DEF Workflow!AnswerTime, AtTime
<1>8. AllGood(IF m.time = None THEN {Workflow!Ask("AWAITING_TIME", s)} ELSE Workflow!AfterTimeResolved(t))
  BY <1>2, <1>6
<1> QED
  BY <1>1, <1>7, <1>8, BothAreAll

LEMMA AnswerVehicleIs ==
    ASSUME NEW s, Sound(s), s.type # None, s.day # None, s.time # None, NEW m \in Said,
           NEW step \in Workflow!VehicleSteps
    PROVE  AllGood(Workflow!AnswerVehicle(step, s, m))
<1>1. \A q \in Workflow!VehicleSteps : AllGood({Workflow!Ask(q, s)})
  BY TimedIsReady, QuestionsAre, AskedRight, OneIsAll DEF Workflow!VehicleSteps
<1>2. AllGood({Workflow!Ask(IF m.no THEN "AWAITING_VEHICLE_REG" ELSE step, s)})
  BY <1>1 DEF Workflow!VehicleSteps
<1>3. AllGood({Workflow!Ask(step, s)}) /\ AllGood(Workflow!ToConfirmation(s)) /\ AllGood({Workflow!Human})
  BY <1>1, ToConfirmationIs, EndsAre, OneIsAll
<1> QED
  BY <1>2, <1>3 DEF Workflow!AnswerVehicle

\* Only a yes carries out what was asked about.
LEMMA AnswerBookingIs ==
    ASSUME NEW s, Sound(s), s.type # None, s.day # None, s.time # None, NEW m \in Said,
           m.yes => asked = Workflow!Booking(s)
    PROVE  AllGood(Workflow!AnswerBooking(s, m))
<1>1. CASE m.yes
  <2>1. AllGood({Workflow!Do(Workflow!Booking(s))})
    BY <1>1, BookingIs, DoIs, OneIsAll
  <2>2. AllGood(Workflow!OfferTimes(s.day, s))
    BY DayIs, OfferTimesIs
  <2> QED
    BY <1>1, <2>1, <2>2, BothAreAll DEF Workflow!AnswerBooking
<1>2. CASE ~m.yes
  BY <1>2, EndsAre, BookingConfirmed, OneIsAll DEF Workflow!AnswerBooking
<1> QED
  BY <1>1, <1>2

LEMMA CancelQuestionIs ==
    ASSUME NEW s, Sound(s), NEW a \in Appts
    PROVE  GoodReply(Workflow!CancelQuestion(a, s))
<1>1. PICK t : t = Aimed(s, a)
  OBVIOUS
<1>2. PICK q : q = [kind |-> "cancel", target |-> a]
  OBVIOUS
<1>3. Workflow!CancelQuestion(a, s) = Workflow!Confirm("AWAITING_CANCEL_CONFIRMATION", t, q)
  BY <1>1, <1>2, Zenon DEF Workflow!CancelQuestion, Aimed
<1>4. Sound(t) /\ t.target = a
  BY <1>1, AimedIs
<1>5. q \in Workflow!Acts
  BY <1>2 DEF Workflow!Acts
<1>6. Matches("AWAITING_CANCEL_CONFIRMATION", t, q)
  BY <1>2, <1>4 DEF Matches
<1>7. "AWAITING_CANCEL_CONFIRMATION" \in Workflow!Steps /\ "AWAITING_CANCEL_CONFIRMATION" # Held
  BY QuestionsAre DEF Confirmations, Held
<1>8. Ready("AWAITING_CANCEL_CONFIRMATION", t)
  BY FreeIsReady DEF Free
<1> QED
  BY <1>3, <1>4, <1>5, <1>6, <1>7, <1>8, ConfirmIs

LEMMA OfferRescheduleIs ==
    ASSUME NEW s, Sound(s), NEW a \in Appts, NEW d \in Days, d # None
    PROVE  AllGood(Workflow!OfferReschedule(a, d, s))
<1>1. PICK t : t = Aimed(s, a)
  OBVIOUS
<1>2. PICK u : u = AimedOn(s, a, d)
  OBVIOUS
<1>3. Workflow!OfferReschedule(a, d, s) = {Workflow!Ask("AWAITING_RESCHEDULE_DATE", t),
                                           Workflow!Ask("AWAITING_RESCHEDULE_TIME", u)}
  BY <1>1, <1>2, Zenon DEF Workflow!OfferReschedule, Aimed, AimedOn
<1>4. Sound(t) /\ Sound(u) /\ u.newDay # None
  BY <1>1, <1>2, AimedIs, AimedOnIs
<1>5. GoodReply(Workflow!Ask("AWAITING_RESCHEDULE_DATE", t))
  BY <1>4, FreeQuestions, FreelyAsked
<1>6. GoodReply(Workflow!Ask("AWAITING_RESCHEDULE_TIME", u))
  BY <1>4, MovedIsReady, QuestionsAre, AskedRight
<1> QED
  BY <1>3, <1>5, <1>6 DEF AllGood

LEMMA UpcomingAre == Workflow!Upcoming \subseteq Appts
  BY DEF Workflow!Upcoming

LEMMA CancelQuestionsAre ==
    ASSUME NEW s, Sound(s)
    PROVE  AllGood({Workflow!CancelQuestion(a, s) : a \in Workflow!Upcoming})
  BY UpcomingAre, CancelQuestionIs DEF AllGood

LEMMA StartCancelIs == ASSUME NEW s, Sound(s) PROVE AllGood(Workflow!StartCancel(s))
<1>1. AllGood({Workflow!Ask("AWAITING_CANCEL_CHOICE", s)})
  BY FreeQuestions, FreelyAsked, OneIsAll
<1>2. AllGood({Workflow!Human}) /\ AllGood({Workflow!Complete})
  BY EndsAre, OneIsAll
<1>3. PICK A : A = {Workflow!CancelQuestion(a, s) : a \in Workflow!Upcoming}
  OBVIOUS
<1>4. AllGood(A)
  BY <1>3, CancelQuestionsAre
<1>5. \/ Workflow!StartCancel(s) = {Workflow!Human} \/ Workflow!StartCancel(s) = {Workflow!Complete}
      \/ Workflow!StartCancel(s) = A \/ Workflow!StartCancel(s) = {Workflow!Ask("AWAITING_CANCEL_CHOICE", s)}
  BY <1>3, Zenon DEF Workflow!StartCancel
<1> QED
  BY <1>1, <1>2, <1>4, <1>5

\* The day a move is asked for, of the appointment that is meant.
LEMMA AskedWhen ==
    ASSUME NEW s, Sound(s), NEW a \in Appts
    PROVE  GoodReply(Workflow!Ask("AWAITING_RESCHEDULE_DATE", [s EXCEPT !.target = a]))
<1>1. PICK t : t = Aimed(s, a)
  OBVIOUS
<1>2. GoodReply(Workflow!Ask("AWAITING_RESCHEDULE_DATE", t))
  BY <1>1, AimedIs, FreeQuestions, FreelyAsked
<1> QED
  BY <1>1, <1>2, Zenon DEF Aimed

LEMMA StartRescheduleIs ==
    ASSUME NEW s, Sound(s), NEW m \in Said
    PROVE  AllGood(Workflow!StartReschedule(s, m))
<1>1. AllGood({Workflow!Ask("AWAITING_RESCHEDULE_CHOICE", s)})
  BY FreeQuestions, FreelyAsked, OneIsAll
<1>2. AllGood({Workflow!Human}) /\ AllGood({Workflow!Complete})
  BY EndsAre, OneIsAll
<1>3. PICK A : A = UNION {IF m.day # None THEN Workflow!OfferReschedule(a, m.day, s)
                          ELSE {Workflow!Ask("AWAITING_RESCHEDULE_DATE", [s EXCEPT !.target = a])} : a \in Workflow!Upcoming}
  OBVIOUS
<1>4. AllGood(A)
  <2>1. SUFFICES ASSUME NEW r \in A PROVE GoodReply(r)
    BY DEF AllGood
  <2>2. PICK a \in Workflow!Upcoming : r \in IF m.day # None THEN Workflow!OfferReschedule(a, m.day, s)
                          ELSE {Workflow!Ask("AWAITING_RESCHEDULE_DATE", [s EXCEPT !.target = a])}
    BY <1>3, <2>1, Zenon
  <2>3. a \in Appts
    BY UpcomingAre
  <2>4. CASE m.day # None
    <3>1. m.day \in Days
      BY <2>4 DEF Said
    <3>2. AllGood(Workflow!OfferReschedule(a, m.day, s))
      BY <2>3, <2>4, <3>1, OfferRescheduleIs
    <3> QED
      BY <2>2, <2>4, <3>2, Zenon DEF AllGood
  <2>5. CASE m.day = None
    <3>1. GoodReply(Workflow!Ask("AWAITING_RESCHEDULE_DATE", [s EXCEPT !.target = a]))
      BY <2>3, AskedWhen
    <3> QED
      BY <2>2, <2>5, <3>1, Zenon
  <2> QED
    BY <2>4, <2>5
<1>5. \/ Workflow!StartReschedule(s, m) = {Workflow!Human} \/ Workflow!StartReschedule(s, m) = {Workflow!Complete}
      \/ Workflow!StartReschedule(s, m) = A
      \/ Workflow!StartReschedule(s, m) = {Workflow!Ask("AWAITING_RESCHEDULE_CHOICE", s)}
  BY <1>3, Zenon DEF Workflow!StartReschedule
<1> QED
  BY <1>1, <1>2, <1>4, <1>5

LEMMA AnswerChoiceIs ==
    ASSUME NEW s, Sound(s), NEW m \in Said, NEW step \in Workflow!ChoiceSteps
    PROVE  AllGood(Workflow!AnswerChoice(step, s, m))
<1>1. AllGood({Workflow!Ask(step, s)})
  BY FreeQuestions, FreelyAsked, OneIsAll DEF Workflow!ChoiceSteps
<1>2. PICK A : A = {Workflow!CancelQuestion(a, s) : a \in Workflow!Upcoming}
  OBVIOUS
<1>3. PICK B : B = {Workflow!Ask("AWAITING_RESCHEDULE_DATE", [s EXCEPT !.target = a]) : a \in Workflow!Upcoming}
  OBVIOUS
<1>4. AllGood(A)
  BY <1>2, CancelQuestionsAre
<1>5. AllGood(B)
  <2>1. SUFFICES ASSUME NEW r \in B PROVE GoodReply(r)
    BY DEF AllGood
  <2>2. PICK a \in Workflow!Upcoming : r = Workflow!Ask("AWAITING_RESCHEDULE_DATE", [s EXCEPT !.target = a])
    BY <1>3, <2>1, Zenon
  <2>3. GoodReply(Workflow!Ask("AWAITING_RESCHEDULE_DATE", [s EXCEPT !.target = a]))
    BY UpcomingAre, AskedWhen
  <2> QED
    BY <2>2, <2>3, Zenon
<1>6. PICK C : C = IF ~m.pick THEN {} ELSE IF step = "AWAITING_CANCEL_CHOICE" THEN A ELSE B
  OBVIOUS
<1>7. AllGood(C)
  BY <1>4, <1>5, <1>6, NoneIsAll
<1>8. Workflow!AnswerChoice(step, s, m) = IF ~known THEN {Workflow!Human} ELSE {Workflow!Ask(step, s)} \union C
  BY <1>2, <1>3, <1>6, Zenon DEF Workflow!AnswerChoice
<1> QED
  BY <1>1, <1>7, <1>8, BothAreAll, EndsAre, OneIsAll

LEMMA TargetIs == ASSUME NEW s, Workflow!Target(s) # {} PROVE s.target \in Appts
  BY UpcomingAre DEF Workflow!Target

LEMMA AnswerCancelIs ==
    ASSUME NEW s, Sound(s), NEW m \in Said, m.yes => asked = [kind |-> "cancel", target |-> s.target]
    PROVE  AllGood(Workflow!AnswerCancel(s, m))
<1>1. PICK q : q = [kind |-> "cancel", target |-> s.target]
  OBVIOUS
<1>2. \/ Workflow!AnswerCancel(s, m) = {Workflow!Complete} \/ Workflow!AnswerCancel(s, m) = {Workflow!Human}
      \/ m.yes /\ Workflow!Target(s) # {} /\ Workflow!AnswerCancel(s, m) = {Workflow!Do(q)}
  BY <1>1, Zenon DEF Workflow!AnswerCancel
<1>3. AllGood({Workflow!Human}) /\ AllGood({Workflow!Complete})
  BY EndsAre, OneIsAll
<1>4. ASSUME m.yes, Workflow!Target(s) # {} PROVE AllGood({Workflow!Do(q)})
  <2>1. s.target \in Appts
    BY <1>4, TargetIs
  <2>2. q \in Workflow!Acts /\ q.kind # "nothing"
    BY <1>1, <2>1 DEF Workflow!Acts
  <2> QED
    BY <1>1, <1>4, <2>2, DoIs, OneIsAll
<1> QED
  BY <1>2, <1>3, <1>4

LEMMA MoveIs ==
    ASSUME NEW s, Sound(s), s.target \in Appts, s.newDay # None, s.newTime # None
    PROVE  Workflow!Move(s) \in Workflow!Acts /\ Workflow!Move(s).kind # "nothing"
<1>1. s.newDay \in Days /\ s.newTime \in Times
  BY DEF Sound, Workflow!Context
<1> QED
  BY <1>1 DEF Workflow!Move, Workflow!Acts

LEMMA AnswerRescheduleIs ==
    ASSUME NEW s, Sound(s), NEW m \in Said,
           NEW step \in {"AWAITING_RESCHEDULE_DATE", "AWAITING_RESCHEDULE_TIME", "AWAITING_RESCHEDULE_CONFIRMATION"},
           Ready(step, s), m.yes => Matches(step, s, asked)
    PROVE  AllGood(Workflow!AnswerReschedule(step, s, m))
<1>1. AllGood({Workflow!Human}) /\ AllGood({Workflow!Complete})
  BY EndsAre, OneIsAll
<1>2. CASE step = "AWAITING_RESCHEDULE_CONFIRMATION" /\ ~m.yes
  BY <1>1, <1>2 DEF Workflow!AnswerReschedule
<1>3. CASE ~(step = "AWAITING_RESCHEDULE_CONFIRMATION" /\ ~m.yes) /\ Workflow!Target(s) = {}
  BY <1>1, <1>3 DEF Workflow!AnswerReschedule
<1>4. CASE step = "AWAITING_RESCHEDULE_DATE" /\ Workflow!Target(s) # {}
  <2>1. AllGood({Workflow!Ask(step, s)})
    BY <1>4, FreeQuestions, FreelyAsked, OneIsAll
  <2>2. m.day # None => AllGood(Workflow!OfferReschedule(s.target, m.day, s))
    BY <1>4, TargetIs, OfferRescheduleIs DEF Said
  <2> QED
    BY <1>4, <2>1, <2>2 DEF Workflow!AnswerReschedule
<1>5. CASE step = "AWAITING_RESCHEDULE_TIME" /\ Workflow!Target(s) # {}
  <2>1. s.newDay # None
    BY <1>5, ReadyHas
  <2>2. AllGood({Workflow!Ask(step, s)})
    BY <1>5, <2>1, MovedIsReady, QuestionsAre, AskedRight, OneIsAll
  <2>3. CASE m.time = None
    BY <1>5, <2>2, <2>3 DEF Workflow!AnswerReschedule
  <2>4. CASE m.time # None
    <3>1. m.time \in Times
      BY <2>4 DEF Said
    <3>2. PICK t : t = MovedTo(s, m.time)
      OBVIOUS
    <3>3. Sound(t) /\ t.newDay # None /\ t.newTime # None /\ t.target \in Appts
      BY <1>5, <2>1, <2>4, <3>1, <3>2, MovedToIs, TargetIs
    <3>4. Matches("AWAITING_RESCHEDULE_CONFIRMATION", t, Workflow!Move(t))
      BY DEF Matches
    <3>5. "AWAITING_RESCHEDULE_CONFIRMATION" \in Workflow!Steps /\ "AWAITING_RESCHEDULE_CONFIRMATION" # Held
      BY QuestionsAre DEF Confirmations, Held
    <3>6. GoodReply(Workflow!Confirm("AWAITING_RESCHEDULE_CONFIRMATION", t, Workflow!Move(t)))
      BY <3>3, <3>4, <3>5, MovedIsReady, MoveIs, ConfirmIs
    <3>7. Workflow!AnswerReschedule(step, s, m)
              = {Workflow!Confirm("AWAITING_RESCHEDULE_CONFIRMATION", t, Workflow!Move(t))}
      BY <1>5, <2>4, <3>2 DEF Workflow!AnswerReschedule, MovedTo
    <3> QED
      BY <3>6, <3>7, OneIsAll
  <2> QED
    BY <2>3, <2>4
<1>6. CASE step = "AWAITING_RESCHEDULE_CONFIRMATION" /\ m.yes /\ Workflow!Target(s) # {}
  <2>1. s.newDay # None /\ s.newTime # None /\ s.target \in Appts
    BY <1>6, ReadyHas, TargetIs
  <2>2. asked = Workflow!Move(s)
    BY <1>6 DEF Matches
  <2>3. AllGood({Workflow!Do(Workflow!Move(s))})
    BY <2>1, <2>2, MoveIs, DoIs, OneIsAll
  <2>4. PICK A : A = IF diary[s.target].status = "COMPLETED" THEN {} ELSE {Workflow!Do(Workflow!Move(s))}
    OBVIOUS
  <2>5. AllGood(A)
    BY <2>3, <2>4, NoneIsAll
  <2>6. Workflow!AnswerReschedule(step, s, m) = {Workflow!Human} \union A
    BY <1>6, <2>4 DEF Workflow!AnswerReschedule
  <2> QED
    BY <1>1, <2>5, <2>6, BothAreAll
<1> QED
  BY <1>2, <1>3, <1>4, <1>5, <1>6

LEMMA RenameIs ==
    /\ [kind |-> "rename"] \in Workflow!Acts /\ [kind |-> "rename"].kind # "nothing"
    /\ \A s : Matches("AWAITING_NAME_CORRECTION_CONFIRM", s, [kind |-> "rename"])
    /\ "AWAITING_NAME_CORRECTION_CONFIRM" \in Workflow!Steps /\ "AWAITING_NAME_CORRECTION_CONFIRM" # Held
    /\ \A s : Ready("AWAITING_NAME_CORRECTION_CONFIRM", s)
<1>1. "AWAITING_NAME_CORRECTION_CONFIRM" \in Workflow!Steps /\ "AWAITING_NAME_CORRECTION_CONFIRM" # Held
  BY QuestionsAre DEF Confirmations, Held
<1>2. \A s : Ready("AWAITING_NAME_CORRECTION_CONFIRM", s)
  BY FreeIsReady DEF Free
<1>3. [kind |-> "rename"] \in Workflow!Acts /\ [kind |-> "rename"].kind # "nothing"
  BY DEF Workflow!Acts
<1>4. \A s : Matches("AWAITING_NAME_CORRECTION_CONFIRM", s, [kind |-> "rename"])
  BY DEF Matches
<1> QED
  BY <1>1, <1>2, <1>3, <1>4

LEMMA RenameConfirmed ==
    ASSUME NEW s, Sound(s)
    PROVE  GoodReply(Workflow!Confirm("AWAITING_NAME_CORRECTION_CONFIRM", s, [kind |-> "rename"]))
  BY RenameIs, ConfirmIs

LEMMA StartUpdateNameIs ==
    ASSUME NEW s, Sound(s), NEW m
    PROVE  AllGood(Workflow!StartUpdateName(s, m))
<1>1. PICK t : t = Renaming(s)
  OBVIOUS
<1>2. Sound(t)
  BY <1>1, RenamingIs
<1>3. AllGood({Workflow!Confirm("AWAITING_NAME_CORRECTION_CONFIRM", t, [kind |-> "rename"])})
  BY <1>2, RenameConfirmed, OneIsAll
<1>4. AllGood({Workflow!Ask("AWAITING_NAME_CORRECTION", s)}) /\ AllGood({Workflow!Human})
  BY FreeQuestions, FreelyAsked, EndsAre, OneIsAll
<1>5. \/ Workflow!StartUpdateName(s, m) = {Workflow!Human}
      \/ Workflow!StartUpdateName(s, m) = {Workflow!Confirm("AWAITING_NAME_CORRECTION_CONFIRM", t, [kind |-> "rename"])}
      \/ Workflow!StartUpdateName(s, m) = {Workflow!Ask("AWAITING_NAME_CORRECTION", s)}
  BY <1>1, Zenon DEF Workflow!StartUpdateName, Renaming
<1> QED
  BY <1>3, <1>4, <1>5

LEMMA AnswerNameChangeIs ==
    ASSUME NEW s, Sound(s), NEW m \in Said, m.yes => asked = [kind |-> "rename"]
    PROVE  AllGood(Workflow!AnswerNameChange(s, m))
<1>1. AllGood({Workflow!Human}) /\ AllGood({Workflow!Complete})
  BY EndsAre, OneIsAll
<1>2. AllGood({Workflow!Confirm("AWAITING_NAME_CORRECTION_CONFIRM", s, [kind |-> "rename"])})
  BY RenameConfirmed, OneIsAll
<1>3. m.yes => AllGood({Workflow!Do([kind |-> "rename"])})
  BY RenameIs, DoIs, OneIsAll
<1>4. AllGood(Workflow!StartUpdateName(s, Workflow!Plain))
  BY StartUpdateNameIs
<1>5. \/ Workflow!AnswerNameChange(s, m) = Workflow!StartUpdateName(s, Workflow!Plain)
      \/ Workflow!AnswerNameChange(s, m) = {Workflow!Human} \/ Workflow!AnswerNameChange(s, m) = {Workflow!Complete}
      \/ m.yes /\ Workflow!AnswerNameChange(s, m) = {Workflow!Do([kind |-> "rename"])}
      \/ Workflow!AnswerNameChange(s, m) = {Workflow!Confirm("AWAITING_NAME_CORRECTION_CONFIRM", s, [kind |-> "rename"])}
  BY Zenon DEF Workflow!AnswerNameChange
<1> QED
  BY <1>1, <1>2, <1>3, <1>4, <1>5

LEMMA MotIs ==
    ASSUME NEW s, Sound(s), NEW m
    PROVE  AllGood(Workflow!StartMotQuery(s)) /\ AllGood(Workflow!AnswerMot(s, m))
<1>1. GoodReply(Workflow!Ask("AWAITING_VEHICLE_REG_FOR_MOT", s))
  BY FreeQuestions, FreelyAsked
<1> QED
  BY <1>1, EndsAre DEF AllGood, Workflow!StartMotQuery, Workflow!AnswerMot

-----------------------------------------------------------------------------
(* The engine *)

LEMMA StepHandlerIs ==
    ASSUME NEW s, Sound(s), NEW m \in Said, NEW step \in Workflow!Steps \ {None, Held}, Ready(step, s),
           m.yes => Matches(step, s, asked), chat.step \in Workflow!PostDateSteps => s.type # None
    PROVE  AllGood(Workflow!StepHandler(step, s, m))
<1>1. PICK C : C = IF step \in Workflow!BookingSteps \ {"AWAITING_TYPE"} THEN Workflow!MaybeCorrect(chat.step, s, m) ELSE {}
  OBVIOUS
<1>2. AllGood(C)
  BY <1>1, MaybeCorrectIs, NoneIsAll
<1>3. PICK B : B = CASE step = "AWAITING_TYPE" -> Workflow!StartBooking(s, m)
              [] step = "AWAITING_TYPE_CHOICE" -> Workflow!AnswerType(s, m)
              [] step = "AWAITING_NAME" -> Workflow!AnswerName(s, m)
              [] step = "AWAITING_DATE" -> Workflow!AnswerDate(s, m)
              [] step = "AWAITING_TIME" -> Workflow!AnswerTime(s, m)
              [] step \in Workflow!VehicleSteps -> Workflow!AnswerVehicle(step, s, m)
              [] step = "AWAITING_BOOKING_CONFIRMATION" -> Workflow!AnswerBooking(s, m)
              [] step \in Workflow!ChoiceSteps -> Workflow!AnswerChoice(step, s, m)
              [] step = "AWAITING_CANCEL_CONFIRMATION" -> Workflow!AnswerCancel(s, m)
              [] step = "AWAITING_NAME_CORRECTION" -> Workflow!StartUpdateName(s, m)
              [] step = "AWAITING_NAME_CORRECTION_CONFIRM" -> Workflow!AnswerNameChange(s, m)
              [] step = "AWAITING_VEHICLE_REG_FOR_MOT" -> Workflow!AnswerMot(s, m)
              [] step = "AWAITING_CALLBACK_REASON" -> {Workflow!Complete}
              [] OTHER -> Workflow!AnswerReschedule(step, s, m)
  OBVIOUS
<1>4. Workflow!StepHandler(step, s, m) = IF C # {} THEN C ELSE B
  BY <1>1, <1>3 DEF Workflow!StepHandler
<1>5. AllGood(B)
  <2>1. CASE step \in {"AWAITING_TYPE", "AWAITING_TYPE_CHOICE"}
    BY <1>3, <2>1, StartBookingIs, AnswerTypeIs DEF Workflow!VehicleSteps, Workflow!ChoiceSteps
  <2>2. CASE step \in {"AWAITING_NAME", "AWAITING_DATE"}
    <3>1. s.type # None
      BY <2>2, ReadyHas DEF Named
    <3> QED
      BY <1>3, <2>2, <3>1, AnswerNameIs, AnswerDateIs DEF Workflow!VehicleSteps, Workflow!ChoiceSteps
  <2>3. CASE step = "AWAITING_TIME"
    <3>1. s.type # None /\ s.day # None
      BY <2>3, ReadyHas DEF Workflow!PostDateSteps
    <3> QED
      BY <1>3, <2>3, <3>1, AnswerTimeIs DEF Workflow!VehicleSteps, Workflow!ChoiceSteps
  <2>4. CASE step \in Workflow!VehicleSteps
    <3>1. s.type # None /\ s.day # None /\ s.time # None
      BY <2>4, ReadyHas DEF Workflow!PostDateSteps
    <3>2. B = Workflow!AnswerVehicle(step, s, m)
      BY <1>3, <2>4 DEF Workflow!VehicleSteps, Workflow!ChoiceSteps
    <3> QED
      BY <2>4, <3>1, <3>2, AnswerVehicleIs
  <2>5. CASE step = "AWAITING_BOOKING_CONFIRMATION"
    <3>1. s.type # None /\ s.day # None /\ s.time # None
      BY <2>5, ReadyHas DEF Workflow!PostDateSteps
    <3>2. B = Workflow!AnswerBooking(s, m)
      BY <1>3, <2>5 DEF Workflow!VehicleSteps, Workflow!ChoiceSteps
    <3>3. m.yes => asked = Workflow!Booking(s)
      BY <2>5 DEF Matches
    <3> QED
      BY <3>1, <3>2, <3>3, AnswerBookingIs
  <2>6. CASE step \in Workflow!ChoiceSteps
    <3>1. B = Workflow!AnswerChoice(step, s, m)
      BY <1>3, <2>6 DEF Workflow!VehicleSteps, Workflow!ChoiceSteps
    <3> QED
      BY <2>6, <3>1, AnswerChoiceIs
  <2>7. CASE step = "AWAITING_CANCEL_CONFIRMATION"
    <3>1. B = Workflow!AnswerCancel(s, m)
      BY <1>3, <2>7 DEF Workflow!VehicleSteps, Workflow!ChoiceSteps
    <3>2. m.yes => asked = [kind |-> "cancel", target |-> s.target]
      BY <2>7 DEF Matches
    <3> QED
      BY <3>1, <3>2, AnswerCancelIs
  <2>8. CASE step = "AWAITING_NAME_CORRECTION"
    BY <1>3, <2>8, StartUpdateNameIs DEF Workflow!VehicleSteps, Workflow!ChoiceSteps
  <2>9. CASE step = "AWAITING_NAME_CORRECTION_CONFIRM"
    <3>1. B = Workflow!AnswerNameChange(s, m)
      BY <1>3, <2>9 DEF Workflow!VehicleSteps, Workflow!ChoiceSteps
    <3>2. m.yes => asked = [kind |-> "rename"]
      BY <2>9 DEF Matches
    <3> QED
      BY <3>1, <3>2, AnswerNameChangeIs
  <2>10. CASE step \in {"AWAITING_VEHICLE_REG_FOR_MOT", "AWAITING_CALLBACK_REASON"}
    BY <1>3, <2>10, MotIs, EndsAre, OneIsAll DEF Workflow!VehicleSteps, Workflow!ChoiceSteps
  <2>11. CASE step \in {"AWAITING_RESCHEDULE_DATE", "AWAITING_RESCHEDULE_TIME", "AWAITING_RESCHEDULE_CONFIRMATION"}
    <3>1. B = Workflow!AnswerReschedule(step, s, m)
      BY <1>3, <2>11 DEF Workflow!VehicleSteps, Workflow!ChoiceSteps
    <3> QED
      BY <2>11, <3>1, AnswerRescheduleIs
  <2> QED
    BY <2>1, <2>2, <2>3, <2>4, <2>5, <2>6, <2>7, <2>8, <2>9, <2>10, <2>11
       DEF Workflow!Steps, Workflow!BookingSteps, Workflow!OtherSteps, Workflow!ChoiceSteps, Workflow!VehicleSteps, Held
<1> QED
  BY <1>2, <1>4, <1>5

LEMMA RepromptIs ==
    ASSUME NEW s, Sound(s), NEW step \in Workflow!Steps, Ready(step, s)
    PROVE  AllGood(Workflow!Reprompt(step, s))
<1>1. CASE step \in {"AWAITING_TYPE", "AWAITING_TYPE_CHOICE"}
  BY <1>1, ListTypesIs DEF Workflow!Reprompt, Workflow!VehicleSteps
<1>2. CASE step \in {"AWAITING_NAME", "AWAITING_DATE", "AWAITING_VEHICLE_REG"}
  <2>1. GoodReply(Workflow!Ask(step, s))
    BY <1>2, QuestionsAre, AskedRight
  <2>2. Workflow!Reprompt(step, s) = {Workflow!Ask(step, s)}
    BY <1>2 DEF Workflow!Reprompt, Workflow!VehicleSteps
  <2> QED
    BY <2>1, <2>2, OneIsAll
<1>3. CASE step = "AWAITING_TIME"
  <2>1. s.type # None /\ s.day # None
    BY <1>3, ReadyHas DEF Workflow!PostDateSteps
  <2>2. Workflow!Reprompt(step, s) = Workflow!OfferTimes(s.day, s)
    BY <1>3, <2>1 DEF Workflow!Reprompt, Workflow!VehicleSteps
  <2> QED
    BY <2>1, <2>2, DayIs, OfferTimesIs
<1>4. CASE step \in Workflow!VehicleSteps \ {"AWAITING_VEHICLE_REG"}
  <2>1. s.type # None /\ s.day # None /\ s.time # None
    BY <1>4, ReadyHas DEF Workflow!PostDateSteps
  <2>2. Workflow!Reprompt(step, s) = Workflow!AfterTimeResolved(s)
    BY <1>4, <2>1 DEF Workflow!Reprompt, Workflow!VehicleSteps
  <2> QED
    BY <2>1, <2>2, AfterTimeResolvedIs
<1>5. CASE step = "AWAITING_BOOKING_CONFIRMATION"
  <2>1. s.type # None /\ s.day # None /\ s.time # None
    BY <1>5, ReadyHas DEF Workflow!PostDateSteps
  <2>2. Workflow!Reprompt(step, s) = Workflow!ToConfirmation(s)
    BY <1>5, <2>1 DEF Workflow!Reprompt, Workflow!VehicleSteps
  <2> QED
    BY <2>1, <2>2, ToConfirmationIs
<1>6. CASE step \in {"AWAITING_RESCHEDULE_DATE", "AWAITING_RESCHEDULE_TIME"}
  <2>1. Workflow!Reprompt(step, s) = {Workflow!Ask("AWAITING_RESCHEDULE_DATE", s)}
    BY <1>6 DEF Workflow!Reprompt, Workflow!VehicleSteps
  <2> QED
    BY <2>1, FreeQuestions, FreelyAsked, OneIsAll
<1>7. CASE step \notin Workflow!BookingSteps \union {"AWAITING_RESCHEDULE_DATE", "AWAITING_RESCHEDULE_TIME"}
  <2>1. Workflow!Reprompt(step, s) = Workflow!ResetFlow
    BY <1>7 DEF Workflow!Reprompt, Workflow!VehicleSteps, Workflow!BookingSteps
  <2> QED
    BY <2>1, EndsAre
<1> QED
  BY <1>1, <1>2, <1>3, <1>4, <1>5, <1>6, <1>7 DEF Workflow!BookingSteps, Workflow!VehicleSteps

\* What is awaited, or held while an aside is answered.
Awaited == IF chat.step = Held THEN chat.slots.resume ELSE chat.step

LEMMA AnswerResumeIs ==
    ASSUME NEW s, Sound(s), NEW m \in Said, Ready(s.resume, s), chat.step = Held
    PROVE  AllGood(Workflow!AnswerResume(s, m))
<1>1. AllGood({Workflow!Complete})
  BY EndsAre, OneIsAll
<1>2. AllGood({Workflow!Ask(None, s)})
  BY FreeQuestions, FreelyAsked, OneIsAll
<1>3. s.resume \in Workflow!Steps /\ s.resume # Held
  BY DEF Sound, Workflow!Context
<1>4. AllGood(Workflow!Reprompt(s.resume, s))
  BY <1>3, RepromptIs
<1>5. Held \notin Workflow!PostDateSteps
  BY DEF Held, Workflow!PostDateSteps, Workflow!VehicleSteps
<1>6. ASSUME ~m.yes, s.resume # None PROVE AllGood(Workflow!StepHandler(s.resume, s, m))
  BY <1>3, <1>5, <1>6, StepHandlerIs
<1> QED
  BY <1>1, <1>2, <1>4, <1>6 DEF Workflow!AnswerResume

LEMMA AsideIs ==
    ASSUME Sound(chat.slots), Ready(Awaited, chat.slots), chat.step \in Workflow!Steps
    PROVE  AllGood(Workflow!Aside(chat.slots))
<1>1. PICK s : s = chat.slots
  OBVIOUS
<1>2. PICK t : t = IF chat.step = "AWAITING_RESUME" THEN s ELSE Paused(s, chat.step)
  OBVIOUS
<1>3. Workflow!Aside(s) = {Workflow!Ask("AWAITING_RESUME", t)}
  BY <1>2, Zenon DEF Workflow!Aside, Paused
<1>4. Sound(t) /\ Ready(t.resume, t)
  <2>1. CASE chat.step = Held
    BY <1>1, <1>2, <2>1 DEF Awaited, Held
  <2>2. CASE chat.step # Held
    <3>1. t = Paused(s, chat.step)
      BY <1>2, <2>2 DEF Held
    <3>2. Sound(t) /\ t.type = s.type /\ t.day = s.day /\ t.time = s.time /\ t.newDay = s.newDay
          /\ t.newTime = s.newTime /\ t.resume = chat.step
      BY <1>1, <2>2, <3>1, PausedIs
    <3>3. Ready(chat.step, s)
      BY <1>1, <2>2 DEF Awaited
    <3> QED
      BY <3>2, <3>3, StaysReady
  <2> QED
    BY <2>1, <2>2
<1>5. PICK r : r = Workflow!Ask("AWAITING_RESUME", t)
  OBVIOUS
<1>6. r = [end |-> "open", step |-> "AWAITING_RESUME", slots |-> t, what |-> Workflow!Nothing]
  BY <1>5 DEF Workflow!Ask
<1>7. Workflow!Nothing \in Workflow!Acts
  BY DEF Workflow!Nothing, Workflow!Acts
<1>8. Matches(Held, t, Workflow!Nothing)
  BY DEF Matches, Held
<1>9. GoodReply(r)
  BY <1>4, <1>6, <1>7, <1>8, QuestionsAre DEF GoodReply, Held
<1> QED
  BY <1>1, <1>3, <1>5, <1>9, OneIsAll

LEMMA UnresolvedIs == ASSUME NEW s, Sound(s) PROVE AllGood(Workflow!Unresolved(s))
<1>1. CASE s.unresolved + 1 >= MaxUnresolved
  BY <1>1, EndsAre, OneIsAll DEF Workflow!Unresolved
<1>2. CASE ~(s.unresolved + 1 >= MaxUnresolved)
  <2>1. s.unresolved \in Nat /\ MaxUnresolved \in Nat
    BY TalkAssumption DEF Sound, Workflow!Context
  <2>2. PICK t : t = Puzzled(s)
    OBVIOUS
  <2>3. Sound(t)
    BY <1>2, <2>1, <2>2, PuzzledIs
  <2>4. Workflow!Unresolved(s) = {Workflow!Ask(None, t)}
    BY <1>2, <2>2, Zenon DEF Workflow!Unresolved, Puzzled
  <2> QED
    BY <2>3, <2>4, FreeQuestions, FreelyAsked, OneIsAll
<1> QED
  BY <1>1, <1>2

LEMMA StartIntentIs == ASSUME NEW s, Sound(s), NEW m \in Said PROVE AllGood(Workflow!StartIntent(s, m))
<1>1. AllGood({Workflow!Human}) /\ AllGood({Workflow!Complete, Workflow!Human}) /\ AllGood(Workflow!ResetFlow)
  BY EndsAre DEF AllGood
<1>2. AllGood({Workflow!Ask("AWAITING_CALLBACK_REASON", s)})
  BY FreeQuestions, FreelyAsked, OneIsAll
<1>3. /\ AllGood(Workflow!StartBooking(s, m)) /\ AllGood(Workflow!StartCancel(s))
      /\ AllGood(Workflow!StartReschedule(s, m)) /\ AllGood(Workflow!StartUpdateName(s, m))
      /\ AllGood(Workflow!StartMotQuery(s)) /\ AllGood(Workflow!Unresolved(s))
  BY StartBookingIs, StartCancelIs, StartRescheduleIs, StartUpdateNameIs, MotIs, UnresolvedIs
<1>4. m.intent \in Workflow!Intents
  BY DEF Said
<1> QED
  BY <1>1, <1>2, <1>3, <1>4 DEF Workflow!StartIntent, Workflow!NavIntents, Workflow!Intents

LEMMA GoBackIs ==
    ASSUME Sound(chat.slots), Ready(Awaited, chat.slots)
    PROVE  AllGood(Workflow!GoBack(chat.slots))
<1>1. Held \notin Workflow!BookingSteps
  BY DEF Held, Workflow!BookingSteps
<1>2. CASE chat.step \in Workflow!BookingSteps
  <2>1. Ready(chat.step, chat.slots)
    BY <1>1, <1>2 DEF Awaited
  <2>2. AllGood(Workflow!StepBack(chat.step, chat.slots))
    BY <1>2, <2>1, StepBackIs
  <2> QED
    BY <1>1, <1>2, <2>2, EndsAre DEF Workflow!GoBack, Held
<1>3. CASE chat.step \notin Workflow!BookingSteps
  <2>1. CASE chat.step = Held
    <3>1. chat.slots.resume \in Workflow!Steps
      BY DEF Sound, Workflow!Context
    <3>2. AllGood(Workflow!Reprompt(chat.slots.resume, chat.slots))
      BY <2>1, <3>1, RepromptIs DEF Awaited
    <3> QED
      BY <1>3, <2>1, <3>2 DEF Workflow!GoBack, Held
  <2>2. CASE chat.step # Held
    BY <1>3, <2>2, EndsAre DEF Workflow!GoBack, Held
  <2> QED
    BY <2>1, <2>2
<1> QED
  BY <1>2, <1>3

LEMMA RepliesAre ==
    ASSUME WorkflowInv, pending = Workflow!Nothing, NEW m \in Said
    PROVE  AllGood(Workflow!Replies(m))
<1>1. PICK s : s = chat.slots
  OBVIOUS
<1>2. Sound(s) /\ Ready(Awaited, s) /\ Matches(chat.step, s, asked) /\ chat.step \in Workflow!Steps
  BY <1>1 DEF WorkflowInv, Awaited, Workflow!TypeOK
<1>3. AllGood(Workflow!StartIntent(s, m)) /\ AllGood(Workflow!ResetFlow) /\ AllGood({Workflow!Complete})
  BY <1>2, StartIntentIs, EndsAre, OneIsAll
<1>4. AllGood(Workflow!GoBack(s)) /\ AllGood(Workflow!Aside(s))
  BY <1>1, <1>2, GoBackIs, AsideIs
<1>5. ASSUME chat.step = Held PROVE AllGood(Workflow!AnswerResume(s, m))
  BY <1>1, <1>2, <1>5, AnswerResumeIs DEF Awaited
<1>6. ASSUME chat.step # Held, chat.step # None PROVE AllGood(Workflow!StepHandler(chat.step, s, m))
  <2>1. Ready(chat.step, s)
    BY <1>2, <1>6 DEF Awaited
  <2>2. chat.step \in Workflow!PostDateSteps => s.type # None
    BY <2>1, ReadyHas
  <2> QED
    BY <1>2, <1>6, <2>1, <2>2, StepHandlerIs
<1>7. CASE chat.step = None
  BY <1>1, <1>3, <1>7 DEF Workflow!Replies
<1>8. CASE chat.step # None
  <2>1. \/ Workflow!Replies(m) = Workflow!ResetFlow \/ Workflow!Replies(m) = {Workflow!Complete}
        \/ Workflow!Replies(m) = Workflow!GoBack(s) \/ Workflow!Replies(m) = Workflow!StartIntent(s, m)
        \/ Workflow!Replies(m) = Workflow!Aside(s)
        \/ chat.step = Held /\ Workflow!Replies(m) = Workflow!AnswerResume(s, m)
        \/ chat.step # Held /\ Workflow!Replies(m) = Workflow!StepHandler(chat.step, s, m)
    BY <1>1, <1>8 DEF Workflow!Replies, Workflow!InterruptIntents, Held
  <2> QED
    BY <1>3, <1>4, <1>5, <1>6, <1>8, <2>1
<1> QED
  BY <1>7, <1>8

-----------------------------------------------------------------------------
(* The steps *)

\* What the chat does is what its last question was about.
AsAsked == pending' # pending /\ pending' # Workflow!Nothing => pending' = asked

LEMMA IdleIs ==
    /\ Workflow!Idle \in [status : {"ACTIVE", "HUMAN_HANDOFF"}, step : Workflow!Steps,
                          intent : Workflow!Intents, slots : Workflow!Context]
    /\ Workflow!Idle.slots = Workflow!Empty /\ Workflow!Idle.step = None
    /\ [Workflow!Idle EXCEPT !.status = "HUMAN_HANDOFF"]
           \in [status : {"ACTIVE", "HUMAN_HANDOFF"}, step : Workflow!Steps,
                intent : Workflow!Intents, slots : Workflow!Context]
    /\ [Workflow!Idle EXCEPT !.status = "HUMAN_HANDOFF"].slots = Workflow!Empty
    /\ [Workflow!Idle EXCEPT !.status = "HUMAN_HANDOFF"].step = None
<1>1. Workflow!Empty \in Workflow!Context
  BY EmptyIsSound DEF Sound
<1>2. PICK e : e = Workflow!Empty
  OBVIOUS
<1>3. PICK i : i = Workflow!Idle
  OBVIOUS
<1>4. i = [status |-> "ACTIVE", step |-> None, intent |-> "UNKNOWN", slots |-> e]
  BY <1>2, <1>3 DEF Workflow!Idle
<1>5. PICK h : h = [i EXCEPT !.status = "HUMAN_HANDOFF"]
  OBVIOUS
<1>6. h = [status |-> "HUMAN_HANDOFF", step |-> None, intent |-> "UNKNOWN", slots |-> e]
  BY <1>4, <1>5
<1>7. None \in Workflow!Steps /\ "UNKNOWN" \in Workflow!Intents
  BY DEF Workflow!Steps, Workflow!Intents
<1>8. /\ i \in [status : {"ACTIVE", "HUMAN_HANDOFF"}, step : Workflow!Steps,
                intent : Workflow!Intents, slots : Workflow!Context]
      /\ i.slots = e /\ i.step = None
  BY <1>1, <1>2, <1>4, <1>7
<1>9. /\ h \in [status : {"ACTIVE", "HUMAN_HANDOFF"}, step : Workflow!Steps,
                intent : Workflow!Intents, slots : Workflow!Context]
      /\ h.slots = e /\ h.step = None
  BY <1>1, <1>2, <1>6, <1>7
<1> QED
  BY <1>2, <1>3, <1>5, <1>8, <1>9

\* A chat that starts afresh.
FreshChat(c) == /\ c \in [status : {"ACTIVE", "HUMAN_HANDOFF"}, step : Workflow!Steps,
                      intent : Workflow!Intents, slots : Workflow!Context]
            /\ c.slots = Workflow!Empty /\ c.step = None

LEMMA FreshStart ==
    ASSUME FreshChat(chat'), asked' \in Workflow!Acts, pending' \in Workflow!Acts, known' \in BOOLEAN, fleet' \in 0..2,
           diary' \in [Appts -> [status : {"BOOKED", "CANCELLED", "COMPLETED"}, day : Days, time : Times]]
    PROVE  WorkflowInv'
<1>1. Workflow!TypeOK'
  BY DEF Workflow!TypeOK, FreshChat
<1>2. Sound(chat'.slots) /\ Ready(chat'.step, chat'.slots) /\ chat'.step # Held
  BY EmptyIsSound, NoneIsNoStep DEF FreshChat
<1>3. Matches(chat'.step, chat'.slots, asked')
  BY NoneIsNoStep DEF FreshChat, Matches, Confirmations
<1>4. Sound(chat.slots)'
  BY <1>2 DEF Sound
<1>5. Ready(IF chat.step = Held THEN chat.slots.resume ELSE chat.step, chat.slots)'
  BY <1>2 DEF Ready, Held
<1> QED
  BY <1>1, <1>3, <1>4, <1>5 DEF WorkflowInv, Matches

LEMMA TurnOK ==
    ASSUME WorkflowInv, NEW m \in Workflow!Texts, Workflow!Turn(m)
    PROVE  WorkflowInv' /\ AsAsked
<1>1. m \in Said /\ pending = Workflow!Nothing
  BY TextsAreSaid DEF Workflow!Turn
<1>2. PICK r \in Workflow!Replies(m) :
           /\ asked' = IF r.end = "open" THEN r.what ELSE Workflow!Nothing
           /\ pending' = IF r.end = "act" THEN r.what ELSE Workflow!Nothing
           /\ chat' = CASE r.end = "open" -> [chat EXCEPT !.step = r.step, !.slots = r.slots,
                                                           !.intent = Workflow!IntentAfter(m)]
                        [] r.end = "complete" -> Workflow!Idle
                        [] r.end = "human" -> [Workflow!Idle EXCEPT !.status = "HUMAN_HANDOFF"]
                        [] OTHER -> chat
  BY Zenon DEF Workflow!Turn
<1>3. diary' = diary /\ known' = known /\ fleet' = fleet
  BY DEF Workflow!Turn
<1>4. GoodReply(r)
  BY <1>1, RepliesAre DEF AllGood
<1>5. Workflow!Nothing \in Workflow!Acts
  BY DEF Workflow!Nothing, Workflow!Acts
<1>6. asked' \in Workflow!Acts /\ pending' \in Workflow!Acts
  BY <1>2, <1>4, <1>5 DEF GoodReply
<1>7. AsAsked
  <2>1. r.end = "act" => r.what = asked
    BY <1>4 DEF GoodReply
  <2>2. r.end = "act" => asked' = Workflow!Nothing
    BY <1>2
  <2> QED
    BY <1>1, <1>2, <2>1 DEF AsAsked
<1>8. /\ known' \in BOOLEAN /\ fleet' \in 0..2
      /\ diary' \in [Appts -> [status : {"BOOKED", "CANCELLED", "COMPLETED"}, day : Days, time : Times]]
  BY <1>3 DEF WorkflowInv, Workflow!TypeOK
<1>9. CASE r.end \in {"complete", "human"}
  <2>1. FreshChat(chat')
    <3>1. CASE r.end = "complete"
      BY <1>2, <3>1, IdleIs DEF FreshChat
    <3>2. CASE r.end = "human"
      <4>1. PICK h : h = [Workflow!Idle EXCEPT !.status = "HUMAN_HANDOFF"]
        OBVIOUS
      <4>2. chat' = h
        BY <1>2, <3>2, <4>1
      <4> QED
        BY <4>1, <4>2, IdleIs DEF FreshChat
    <3> QED
      BY <1>9, <3>1, <3>2
  <2> QED
    BY <1>6, <1>7, <1>8, <2>1, FreshStart
<1>10. CASE r.end = "act"
  <2>1. chat' = chat /\ pending' = asked
    BY <1>2, <1>4, <1>10 DEF GoodReply
  <2>2. Workflow!TypeOK'
    BY <1>6, <1>8, <2>1 DEF WorkflowInv, Workflow!TypeOK
  <2>3. Sound(chat.slots)' /\ Ready(IF chat.step = Held THEN chat.slots.resume ELSE chat.step, chat.slots)'
    BY <2>1 DEF WorkflowInv, Sound, Ready, Held
  <2>4. pending' # Workflow!Nothing
    BY <1>2, <1>4, <1>10 DEF GoodReply, Workflow!Nothing
  <2> QED
    BY <1>7, <2>2, <2>3, <2>4 DEF WorkflowInv
<1>11. CASE r.end = "open"
  <2>1. PICK u : u = [chat EXCEPT !.step = r.step]
    OBVIOUS
  <2>2. PICK v : v = [u EXCEPT !.slots = r.slots]
    OBVIOUS
  <2>3. PICK w : w = [v EXCEPT !.intent = Workflow!IntentAfter(m)]
    OBVIOUS
  <2>4. chat' = w
    BY <1>2, <1>11, <2>1, <2>2, <2>3
  <2>5. chat \in [status : {"ACTIVE", "HUMAN_HANDOFF"}, step : Workflow!Steps, intent : Workflow!Intents,
                  slots : Workflow!Context]
    BY DEF WorkflowInv, Workflow!TypeOK
  <2>6. Workflow!IntentAfter(m) \in Workflow!Intents
    BY <1>1, <2>5 DEF Workflow!IntentAfter, Said
  <2>7. r.step \in Workflow!Steps /\ r.slots \in Workflow!Context
    BY <1>4 DEF GoodReply, Sound
  <2>8. u \in [status : {"ACTIVE", "HUMAN_HANDOFF"}, step : Workflow!Steps, intent : Workflow!Intents,
               slots : Workflow!Context] /\ u.step = r.step
    BY <2>1, <2>5, <2>7
  <2>9. v \in [status : {"ACTIVE", "HUMAN_HANDOFF"}, step : Workflow!Steps, intent : Workflow!Intents,
               slots : Workflow!Context] /\ v.step = r.step /\ v.slots = r.slots
    BY <2>2, <2>7, <2>8
  <2>10. w \in [status : {"ACTIVE", "HUMAN_HANDOFF"}, step : Workflow!Steps, intent : Workflow!Intents,
               slots : Workflow!Context] /\ w.step = r.step /\ w.slots = r.slots
    BY <2>3, <2>6, <2>9
  <2>11. Workflow!TypeOK'
    BY <1>6, <1>8, <2>4, <2>10 DEF Workflow!TypeOK
  <2>12. Sound(chat.slots)'
    BY <1>4, <2>4, <2>10 DEF GoodReply, Sound
  <2>13. Ready(IF chat.step = Held THEN chat.slots.resume ELSE chat.step, chat.slots)'
    BY <1>4, <1>11, <2>4, <2>10 DEF GoodReply, Ready, Held
  <2>14. Matches(chat.step, chat.slots, asked)'
    BY <1>2, <1>4, <1>11, <2>4, <2>10 DEF GoodReply, Matches, Workflow!Booking, Workflow!Move
  <2> QED
    BY <1>7, <2>11, <2>12, <2>13, <2>14 DEF WorkflowInv
<1> QED
  BY <1>4, <1>9, <1>10, <1>11 DEF GoodReply

LEMMA CommitActOK == ASSUME WorkflowInv, Workflow!CommitAct PROVE WorkflowInv' /\ AsAsked
<1>1. pending # Workflow!Nothing /\ pending' = Workflow!Nothing /\ chat' = Workflow!Idle /\ asked' = asked
      /\ known' = known /\ fleet' = fleet
  BY DEF Workflow!CommitAct
<1>2. FreshChat(chat')
  BY <1>1, IdleIs DEF FreshChat
<1>3. pending \in Workflow!Acts /\ asked' \in Workflow!Acts /\ known' \in BOOLEAN /\ fleet' \in 0..2
  BY <1>1 DEF WorkflowInv, Workflow!TypeOK
<1>4. pending' \in Workflow!Acts
  BY <1>1 DEF Workflow!Nothing, Workflow!Acts
<1> DEFINE Row == [status : {"BOOKED", "CANCELLED", "COMPLETED"}, day : Days, time : Times]
<1>5. diary \in [Appts -> Row]
  BY DEF WorkflowInv, Workflow!TypeOK
<1>6. CASE pending.kind = "cancel"
  <2>1. pending.target \in Appts
    BY <1>3, <1>6 DEF Workflow!Acts
  <2>2. [diary[pending.target] EXCEPT !.status = "CANCELLED"] \in Row
    BY <1>5, <2>1
  <2>3. diary' = [diary EXCEPT ![pending.target].status = "CANCELLED"]
    BY <1>6 DEF Workflow!CommitAct
  <2> QED
    BY <1>2, <1>3, <1>4, <1>5, <2>2, <2>3, <1>1, FreshStart DEF AsAsked
<1>7. CASE pending.kind = "move"
  <2>1. pending.target \in Appts /\ pending.day \in Days /\ pending.time \in Times
    BY <1>3, <1>7 DEF Workflow!Acts
  <2>2. PICK d : d = [diary EXCEPT ![pending.target].day = pending.day]
    OBVIOUS
  <2>3. [diary[pending.target] EXCEPT !.day = pending.day] \in Row
    BY <1>5, <2>1
  <2>4. d \in [Appts -> Row]
    BY <1>5, <2>2, <2>3
  <2>5. [d[pending.target] EXCEPT !.time = pending.time] \in Row
    BY <2>1, <2>4
  <2>6. diary' = [d EXCEPT ![pending.target].time = pending.time]
    BY <1>7, <2>2 DEF Workflow!CommitAct
  <2>7. diary' \in [Appts -> Row]
    BY <2>4, <2>5, <2>6
  <2> QED
    BY <1>2, <1>3, <1>4, <2>7, <1>1, FreshStart DEF AsAsked
<1>8. CASE pending.kind \notin {"cancel", "move"}
  <2>1. diary' = diary
    BY <1>8 DEF Workflow!CommitAct
  <2> QED
    BY <1>2, <1>3, <1>4, <1>5, <2>1, <1>1, FreshStart DEF AsAsked
<1> QED
  BY <1>6, <1>7, <1>8

LEMMA ThreadOK ==
    ASSUME WorkflowInv, Workflow!TakeOver \/ Workflow!ResumeAutomation \/ Workflow!Expire
    PROVE  WorkflowInv' /\ AsAsked
<1>1. pending' = pending /\ diary' = diary /\ known' = known /\ fleet' = fleet
  BY DEF Workflow!TakeOver, Workflow!ResumeAutomation, Workflow!Expire
<1>2. asked' \in Workflow!Acts
  BY DEF Workflow!TakeOver, Workflow!ResumeAutomation, Workflow!Expire, WorkflowInv, Workflow!TypeOK,
         Workflow!Nothing, Workflow!Acts
<1>3. FreshChat(chat')
  <2>1. CASE Workflow!TakeOver
    <3>1. PICK h : h = [Workflow!Idle EXCEPT !.status = "HUMAN_HANDOFF"]
      OBVIOUS
    <3>2. chat' = h
      BY <2>1, <3>1 DEF Workflow!TakeOver
    <3> QED
      BY <3>1, <3>2, IdleIs DEF FreshChat
  <2>2. CASE Workflow!ResumeAutomation \/ Workflow!Expire
    BY <2>2, IdleIs DEF FreshChat, Workflow!ResumeAutomation, Workflow!Expire
  <2> QED
    BY <2>1, <2>2
<1>4. /\ pending' \in Workflow!Acts /\ known' \in BOOLEAN /\ fleet' \in 0..2
      /\ diary' \in [Appts -> [status : {"BOOKED", "CANCELLED", "COMPLETED"}, day : Days, time : Times]]
  BY <1>1 DEF WorkflowInv, Workflow!TypeOK
<1> QED
  BY <1>1, <1>2, <1>3, <1>4, FreshStart DEF AsAsked

LEMMA RecordsOK ==
    ASSUME WorkflowInv,
           \/ Workflow!RecordCustomer
           \/ \E a \in Appts, status \in {"BOOKED", "CANCELLED", "COMPLETED"} : Workflow!StaffEdit(a, status)
    PROVE  WorkflowInv' /\ AsAsked
<1>1. chat' = chat /\ asked' = asked /\ pending' = pending
  BY DEF Workflow!RecordCustomer, Workflow!StaffEdit
<1>2. Workflow!TypeOK'
  <2>1. CASE Workflow!RecordCustomer
    BY <1>1, <2>1 DEF Workflow!RecordCustomer, WorkflowInv, Workflow!TypeOK
  <2>2. CASE \E a \in Appts, status \in {"BOOKED", "CANCELLED", "COMPLETED"} : Workflow!StaffEdit(a, status)
    <3>1. PICK a \in Appts, status \in {"BOOKED", "CANCELLED", "COMPLETED"} : Workflow!StaffEdit(a, status)
      BY <2>2
    <3>2. diary' = [diary EXCEPT ![a].status = status] /\ known' = known /\ fleet' = fleet
      BY <3>1 DEF Workflow!StaffEdit
    <3> DEFINE Row == [status : {"BOOKED", "CANCELLED", "COMPLETED"}, day : Days, time : Times]
    <3>3. diary \in [Appts -> Row]
      BY DEF WorkflowInv, Workflow!TypeOK
    <3>4. [diary[a] EXCEPT !.status = status] \in Row
      BY <3>3
    <3>5. diary' \in [Appts -> Row]
      BY <3>2, <3>3, <3>4
    <3> QED
      BY <1>1, <3>2, <3>5 DEF WorkflowInv, Workflow!TypeOK
  <2> QED
    BY <2>1, <2>2
<1>3. Sound(chat.slots)' /\ Ready(IF chat.step = Held THEN chat.slots.resume ELSE chat.step, chat.slots)'
  BY <1>1 DEF WorkflowInv, Sound, Ready, Held
<1>4. pending = Workflow!Nothing => Matches(chat.step, chat.slots, asked)'
  BY <1>1 DEF WorkflowInv, Matches, Workflow!Booking, Workflow!Move
<1> QED
  BY <1>1, <1>2, <1>3, <1>4 DEF WorkflowInv, AsAsked

LEMMA WorkflowInitOK == Workflow!Init => WorkflowInv
<1> SUFFICES ASSUME Workflow!Init PROVE WorkflowInv
  OBVIOUS
<1>1. Workflow!Nothing \in Workflow!Acts
  BY DEF Workflow!Nothing, Workflow!Acts
<1>2. chat = Workflow!Idle /\ asked = Workflow!Nothing /\ pending = Workflow!Nothing /\ known \in BOOLEAN
      /\ fleet \in 0..2
  BY DEF Workflow!Init
<1>3. diary \in [Appts -> [status : {"BOOKED", "CANCELLED", "COMPLETED"}, day : Days, time : Times]]
  BY DEF Workflow!Init
<1>4. Workflow!TypeOK
  BY <1>1, <1>2, <1>3, IdleIs DEF Workflow!TypeOK
<1>5. chat.slots = Workflow!Empty /\ chat.step = None
  BY <1>2, IdleIs
<1>6. Matches(None, Workflow!Empty, Workflow!Nothing)
  BY NoneIsNoStep DEF Matches, Confirmations
<1> QED
  BY <1>2, <1>4, <1>5, <1>6, EmptyIsSound, NoneIsNoStep DEF WorkflowInv

LEMMA WorkflowStepOK ==
    ASSUME WorkflowInv, [Workflow!Next]_(Workflow!chatVars)
    PROVE  WorkflowInv' /\ [AsAsked]_(Workflow!chatVars)
<1>1. CASE \E m \in Workflow!Texts : Workflow!Turn(m)
  BY <1>1, TurnOK
<1>2. CASE Workflow!CommitAct
  BY <1>2, CommitActOK
<1>3. CASE Workflow!TakeOver \/ Workflow!ResumeAutomation \/ Workflow!Expire
  BY <1>3, ThreadOK
<1>4. CASE \/ Workflow!RecordCustomer
           \/ \E a \in Appts, status \in {"BOOKED", "CANCELLED", "COMPLETED"} : Workflow!StaffEdit(a, status)
  BY <1>4, RecordsOK
<1>5. CASE UNCHANGED Workflow!chatVars
  <2>1. chat' = chat /\ asked' = asked /\ pending' = pending /\ diary' = diary /\ known' = known /\ fleet' = fleet
    BY <1>5 DEF Workflow!chatVars
  <2>2. WorkflowInv'
    BY <2>1 DEF WorkflowInv, Workflow!TypeOK, Sound, Ready, Matches, Held, Workflow!Booking, Workflow!Move
  <2> QED
    BY <1>5, <2>2
<1> QED
  BY <1>1, <1>2, <1>3, <1>4, <1>5 DEF Workflow!Next

\* What the question that is awaited needs is in the slots.
LEMMA SlotsAreThere == WorkflowInv => Workflow!TypeOK /\ Workflow!StepHasItsSlots
<1> SUFFICES ASSUME WorkflowInv PROVE Workflow!TypeOK /\ Workflow!StepHasItsSlots
  OBVIOUS
<1>1. chat.slots.resume # "AWAITING_RESUME"
  BY DEF WorkflowInv, Sound, Held
<1>2. PICK step : step = IF chat.step = "AWAITING_RESUME" THEN chat.slots.resume ELSE chat.step
  OBVIOUS
<1>3. Ready(step, chat.slots)
  BY <1>2 DEF WorkflowInv, Held
<1> QED
  BY <1>1, <1>2, <1>3 DEF WorkflowInv, Ready, Named, Workflow!StepHasItsSlots

\* No question is asked, held or gone back to without what its answer needs, and a yes does
\* what the last question was about - for any services, days and times, any number of
\* appointments, and whatever bounds the rounds of asking.
THEOREM TheChatKeepsItsWord == Spec => ChatKeepsItsWord
<1> DEFINE Inv == focus = "workflow" => WorkflowInv
           Step == [AsAsked]_(Workflow!chatVars)
<1>1. Init => Inv
  BY WorkflowInitOK DEF Init
<1>2. Inv /\ [Next]_vars => Inv' /\ Step
  <2> SUFFICES ASSUME Inv, [Next]_vars PROVE Inv' /\ Step
    OBVIOUS
  <2>1. CASE focus = "workflow"
    <3>1. focus' = focus /\ [Workflow!Next]_(Workflow!chatVars)
      BY <2>1 DEF Next, vars, workflowVars, Workflow!chatVars, WorkflowStep, TurnsStep, PhoneStep, VoiceStep,
                  NotesStep, InboxStep
    <3> QED
      BY <2>1, <3>1, WorkflowStepOK
  <2>2. CASE focus # "workflow"
    <3>1. focus' = focus /\ UNCHANGED Workflow!chatVars
      BY <2>2 DEF Next, vars, workflowVars, Workflow!chatVars, WorkflowStep, TurnsStep, PhoneStep, VoiceStep,
                  NotesStep, InboxStep
    <3> QED
      BY <2>2, <3>1
  <2> QED
    BY <2>1, <2>2
<1>3. Inv => (focus = "workflow" => Workflow!TypeOK /\ Workflow!StepHasItsSlots)
  BY SlotsAreThere
<1>4. Step => [pending' # pending /\ pending' # Workflow!Nothing => pending' = asked]_(Workflow!chatVars)
  BY DEF AsAsked
<1> QED
  BY <1>1, <1>2, <1>3, <1>4, PTL DEF Spec, ChatKeepsItsWord, Workflow!ActsAsAsked
=============================================================================
