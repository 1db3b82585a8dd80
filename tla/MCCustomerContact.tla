------------------------- MODULE MCCustomerContact -------------------------
(* What meets the customer: the chat workflow, the handling of chat messages,
   the phone call, the assistant's session, the notifications and the staff's inbox. A
   behaviour follows one of them and the others keep still. *)
EXTENDS Naturals, Sequences, FiniteSets, TLC

CONSTANTS Workers, None,
          Types, Days, Times, Appts, MaxRounds, MaxUnresolved,
          Messages, Redelivered, MaxSessions,
          Dests, People, MaxAttempts, MaxRepeats, MaxHuman, MaxReconnects, MaxEdits,
          Deliveries, ToolCalls, Services, Slots,
          Codes, Copies, MaxEvents, MaxAccidents,
          MaxTime

VARIABLES focus, chat, asked, pending, diary, known, fleet,
          sessions, logged, worker, turns,
          cfg, caller, call, leg, rows, rung, callback, past, echo, edits,
          hook, accepted, row, running, shop, offered, listed, busy, answers,
          requests, texted, taken, booked,
          task, mails, inbox, skipped, raised, accidents, again, textSent, reports, inbound,
          clock, log, stored, clerk, pings, thread, archived, crossed, spoilt

Workflow == INSTANCE ChatWorkflow
Turns == INSTANCE ConversationTurns
Phone == INSTANCE PhoneCall
Voice == INSTANCE VoiceSession WITH diary <- booked
Notes == INSTANCE Notifications WITH rows <- mails, asked <- again
Inbox == INSTANCE StaffInbox WITH row <- stored, task <- clerk, reports <- pings

\* There are finitely many workers, what is delivered again is one of the messages, and nothing
\* is no task of theirs, no message, no row and no question.
ASSUME WorkersAssumption == IsFiniteSet(Workers)
ASSUME TalkAssumption == MaxRounds \in Nat /\ MaxUnresolved \in Nat
ASSUME TurnsAssumption == Redelivered \subseteq Messages /\ MaxSessions \in Nat
\* Whom a business may have configured is a list of phones, and every limit is a number.
ASSUME PhoneAssumption == /\ People \subseteq Seq(Dests) /\ MaxAttempts \in Nat \ {0}
                          /\ MaxRepeats \in Nat /\ MaxHuman \in Nat
                          /\ MaxReconnects \in Nat /\ MaxEdits \in Nat
ASSUME TimeAssumption == MaxTime \in Nat
ASSUME NoneAssumption == /\ None \notin Notes!Task /\ None \notin Inbox!Task
                         /\ None \notin Inbox!Message /\ None \notin Inbox!Row
                         /\ None \notin Voice!Job /\ None \notin Voice!Request
                         /\ None \notin Voice!Answer /\ None \notin ToolCalls
                         /\ None \notin Workflow!BookingSteps \union Workflow!OtherSteps
                         /\ None # "AWAITING_RESUME"

workflowVars == <<chat, asked, pending, diary, known, fleet>>
turnVars == <<sessions, logged, worker, turns>>
phoneVars == <<cfg, caller, call, leg, rows, rung, callback, past, echo, edits>>
voiceVars == <<hook, accepted, row, running, shop, offered, listed, busy, answers, requests,
               texted, taken, booked>>
noteVars == <<task, mails, inbox, skipped, raised, accidents, again, textSent, reports, inbound>>
inboxVars == <<clock, log, stored, clerk, pings, thread, archived, crossed, spoilt>>
vars == <<focus, workflowVars, turnVars, phoneVars, voiceVars, noteVars, inboxVars>>

Init == /\ focus \in {"workflow", "turns", "phone", "voice", "notes", "inbox"}
        /\ Workflow!Init /\ Turns!Init /\ Phone!Init /\ Voice!Init /\ Notes!Init /\ Inbox!Init

WorkflowStep == /\ focus = "workflow" /\ Workflow!Next
                /\ UNCHANGED <<focus, turnVars, phoneVars, voiceVars, noteVars, inboxVars>>
TurnsStep == /\ focus = "turns" /\ Turns!Next
             /\ UNCHANGED <<focus, workflowVars, phoneVars, voiceVars, noteVars, inboxVars>>
PhoneStep == /\ focus = "phone" /\ Phone!Next
             /\ UNCHANGED <<focus, workflowVars, turnVars, voiceVars, noteVars, inboxVars>>
VoiceStep == /\ focus = "voice" /\ Voice!Next
             /\ UNCHANGED <<focus, workflowVars, turnVars, phoneVars, noteVars, inboxVars>>
NotesStep == /\ focus = "notes" /\ Notes!Next
             /\ UNCHANGED <<focus, workflowVars, turnVars, phoneVars, voiceVars, inboxVars>>
InboxStep == /\ focus = "inbox" /\ Inbox!Next
             /\ UNCHANGED <<focus, workflowVars, turnVars, phoneVars, voiceVars, noteVars>>

Next == WorkflowStep \/ TurnsStep \/ PhoneStep \/ VoiceStep \/ NotesStep \/ InboxStep

Spec == Init /\ [][Next]_vars

-----------------------------------------------------------------------------
\* The instance that TLC checks. The workflow treats the services, and the days, alike.
Alike == Permutations(Types) \union Permutations(Days)

\* Nobody to ring, or two people.
MCPeople == LET first == CHOOSE d \in Dests : TRUE IN
            {<<>>, <<first, CHOOSE d \in Dests \ {first} : TRUE>>}

\* What is out of focus starts, and stays, in one of its initial states only. Where there are
\* terms no service takes a deposit, and where there are none the first one may.
MCInit == LET first == CHOOSE x \in Slots : TRUE IN
    /\ focus \in {"workflow", "turns", "phone", "voice", "notes", "inbox"}
    /\ Workflow!Init /\ (IF known THEN fleet = 1 ELSE focus = "workflow")
    /\ (focus # "workflow" => \A a \in Appts : diary[a].day = CHOOSE y \in Days : TRUE)
    /\ Turns!Init
    /\ Phone!Init /\ (focus # "phone" => /\ cfg.menu = "none" /\ ~cfg.relay /\ ~cfg.ai
                                         /\ cfg.fallback = "AI" /\ cfg.people = <<>>
                                         /\ cfg.target = None /\ ~caller /\ ~callback.open)
    /\ Voice!Init /\ (shop.terms => shop.deposits = {})
    /\ (focus # "voice" => ~shop.terms /\ shop.deposits = {})
    /\ shop.deposits \in {{}, {CHOOSE v \in Services : TRUE}}
    /\ \A a \in Appts : booked[a].slot = first /\ (focus # "voice" => booked[a].mine)
    /\ Notes!Init /\ Inbox!Init

MCSpec == MCInit /\ [][Next]_vars

-----------------------------------------------------------------------------
\* Each property is about the component in focus, and includes its type invariant: the others
\* are in initial states of theirs.
\* No question of the chat is reached without what its answer needs, and what the chat does
\* is what its last question was about.
ChatKeepsItsWord == /\ [](focus = "workflow" => Workflow!TypeOK /\ Workflow!StepHasItsSlots)
                    /\ Workflow!ActsAsAsked
\* A message that is delivered again takes no second turn, and a mail or an inbound message
\* comes twice only by accident.
NothingComesTwice == /\ focus = "turns" => Turns!TypeOK /\ Turns!OneTurnPerMessage
                     /\ focus = "notes" => Notes!TypeOK /\ Notes!NothingComesTwice
\* Nobody gives a call up early, no phone rings twice, and a call never goes round and
\* leaves one callback.
CallsAreAnswered == /\ [](focus = "phone" => Phone!TypeOK /\ Phone!CallsStayStraight)
                    /\ Phone!EveryoneIsTriedOnce
\* The assistant has one controller and makes one booking per call, whatever is repeated, and
\* touches the caller's own appointments only.
AssistantIsExact == /\ [](focus = "voice" => Voice!TypeOK /\ Voice!OneOfEach)
                    /\ Voice!ChangesAreTheCallers
\* The inbox shows what the staff left in it, and tells what was delivered.
InboxIsExact == focus = "inbox" => Inbox!TypeOK /\ Inbox!InboxIsExact /\ Inbox!DeliveryIsTold
\* A finished conversation ends the call.
FinishedCallsHangUp == Phone!FinishedCallsHangUp
\* Each reward is told to its customer.
EveryRewardIsSent == Notes!EveryRewardIsSent
=============================================================================
