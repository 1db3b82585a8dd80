-------------------------- MODULE ConversationTurns --------------------------
(* One customer's WhatsApp thread: webhook deliveries of their messages, each
   handled by a worker of its own, and the sessions the workers share. Every
   commit of handle_message is a step; the provider may deliver a message
   again, and a worker may die between two commits. *)
EXTENDS Naturals, Sequences, SequencesExt, FiniteSets

CONSTANTS Messages, Redelivered, MaxSessions

VARIABLES sessions, logged, worker, turns

turnVars == <<sessions, logged, worker, turns>>

Arrivals == (Messages \X {1}) \union (Redelivered \X {2})

\* last_external_message_id; "" when the session has processed no message yet.
ConversationSession == [status : {"ACTIVE", "EXPIRED", "COMPLETED", "HUMAN_HANDOFF"},
                        last : Messages \union {""}]

\* at: the session in hand, 0 for none; reply: what the turn makes of it.
Worker == [pc : {"idle", "load", "create", "log", "act", "finalize", "mark", "done", "raised", "dead"},
           at : 0..MaxSessions, reply : {"none", "ask", "complete", "human"}]

Init == /\ sessions = <<>> /\ logged = {}
        /\ worker = [d \in Arrivals |-> [pc |-> "idle", at |-> 0, reply |-> "none"]]
        /\ turns = [m \in Messages |-> 0]

-----------------------------------------------------------------------------
Live(i) == sessions[i].status \in {"ACTIVE", "HUMAN_HANDOFF"}

\* get_active_session: the newest that is active or handed off.
ActiveSession == LET live == {i \in 1..Len(sessions) : Live(i)}
                 IN IF live = {} THEN 0 ELSE CHOOSE i \in live : \A j \in live : j <= i

Goto(d, pc) == worker' = [worker EXCEPT ![d].pc = pc]
Attach(d, i) == worker' = [worker EXCEPT ![d].at = i,
                              ![d].pc = IF sessions[i].last = d[1] THEN "done" ELSE "log"]

\* The provider delivers the message, or delivers it again without an answer.
Deliver(d) == /\ worker[d].pc = "idle"
              /\ (d[2] = 2 => worker[<<d[1], 1>>].pc \notin {"idle", "done"})
              /\ Goto(d, "load")
              /\ UNCHANGED <<sessions, logged, turns>>

\* get_or_create_session finds its session, expires a stale one or finds none;
\* a handed-off thread is never stale. Then already_processed.
Load(d) == /\ worker[d].pc = "load"
           /\ IF ActiveSession = 0 THEN Goto(d, "create") /\ UNCHANGED sessions
              ELSE \/ Attach(d, ActiveSession) /\ UNCHANGED sessions
                   \/ /\ sessions[ActiveSession].status = "ACTIVE"
                      /\ sessions' = [sessions EXCEPT ![ActiveSession].status = "EXPIRED"]
                      /\ Goto(d, "create")
           /\ UNCHANGED <<logged, turns>>

Create(d) == /\ worker[d].pc = "create" /\ Len(sessions) < MaxSessions
             /\ sessions' = Append(sessions, [status |-> "ACTIVE", last |-> ""])
             /\ worker' = [worker EXCEPT ![d].at = Len(sessions) + 1, ![d].pc = "log"]
             /\ UNCHANGED <<logged, turns>>

\* Mutation of LogInbound: the inbound row has no unique provider id.
LogAgain(d) == /\ worker[d].pc = "log"
               /\ logged' = logged \union {d[1]}
               /\ IF sessions[worker[d].at].status = "HUMAN_HANDOFF"
                  THEN Goto(d, "mark") ELSE Goto(d, "act")
               /\ UNCHANGED <<sessions, turns>>

\* _log_turn of the inbound message, unique in its provider id; the session is
\* read again after the commit, and a handed-off one gets no reply.
LogInbound(d) == /\ worker[d].pc = "log"
                 /\ logged' = logged \union {d[1]}
                 /\ IF d[1] \in logged THEN Goto(d, "raised")
                    ELSE IF sessions[worker[d].at].status = "HUMAN_HANDOFF"
                    THEN Goto(d, "mark") ELSE Goto(d, "act")
                 /\ UNCHANGED <<sessions, turns>>

\* _dispatch: the workflow takes its turn, and acts at once if it acts.
Dispatch(d) == /\ worker[d].pc = "act"
               /\ turns' = [turns EXCEPT ![d[1]] = @ + 1]
               /\ \E reply \in {"ask", "complete", "human"} :
                      worker' = [worker EXCEPT ![d].pc = "finalize", ![d].reply = reply]
               /\ UNCHANGED <<sessions, logged>>

Finalize(d) == /\ worker[d].pc = "finalize"
               /\ sessions' = [sessions EXCEPT ![worker[d].at].status =
                                  CASE worker[d].reply = "human" -> "HUMAN_HANDOFF"
                                    [] worker[d].reply = "complete" -> "COMPLETED"
                                    [] OTHER -> @]
               /\ Goto(d, "mark")
               /\ UNCHANGED <<logged, turns>>

MarkProcessed(d) == /\ worker[d].pc = "mark"
                    /\ sessions' = [sessions EXCEPT ![worker[d].at].last = d[1]]
                    /\ Goto(d, "done")
                    /\ UNCHANGED <<logged, turns>>

Crash(d) == /\ worker[d].pc \notin {"idle", "done", "raised", "dead"}
            /\ Goto(d, "dead")
            /\ UNCHANGED <<sessions, logged, turns>>

\* Staff act on the newest session of the thread, whatever its status.
TakeOver == /\ sessions # <<>> /\ Live(Len(sessions))
            /\ sessions' = [sessions EXCEPT ![Len(sessions)].status = "HUMAN_HANDOFF"]
            /\ UNCHANGED <<logged, worker, turns>>

ResumeAutomation == /\ sessions # <<>> /\ Last(sessions).status = "HUMAN_HANDOFF"
                    /\ sessions' = [sessions EXCEPT ![Len(sessions)].status = "ACTIVE"]
                    /\ UNCHANGED <<logged, worker, turns>>

Next == \/ \E d \in Arrivals : \/ Deliver(d) \/ Load(d) \/ Create(d) \/ LogInbound(d)
                                 \/ Dispatch(d) \/ Finalize(d) \/ MarkProcessed(d) \/ Crash(d)
        \/ TakeOver \/ ResumeAutomation

Spec == Init /\ [][Next]_turnVars

-----------------------------------------------------------------------------
TypeOK == /\ sessions \in Seq(ConversationSession) /\ Len(sessions) <= MaxSessions
          /\ logged \subseteq Messages /\ worker \in [Arrivals -> Worker]

\* However often a message is delivered, to however many workers, and whichever
\* of them die, the workflow takes at most one turn for it.
OneTurnPerMessage == \A m \in Messages : turns[m] <= 1
=============================================================================
