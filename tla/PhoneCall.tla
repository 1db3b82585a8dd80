------------------------------ MODULE PhoneCall ------------------------------
(* One inbound call to a business: its phone menu, the assistant's leg, the
   people it rings in turn, and the callback it leaves when nobody can take it.
   Every step answers one Twilio webhook; a finished transfer may be reported
   again, the owner may edit the settings meanwhile, and a person's phone may
   forward the ringing call back to the business. *)
EXTENDS Naturals, Sequences, SequencesExt, FiniteSets

\* Dests: phones of people; People: the orders in which they may be configured.
\* MaxEdits bounds the owner's edits.
CONSTANTS Dests, People, None, MaxAttempts, MaxRepeats, MaxHuman, MaxReconnects, MaxEdits

VARIABLES cfg, caller, call, leg, rows, rung, callback, past, echo, edits

callVars == <<cfg, caller, call, leg, rows, rung, callback, past, echo, edits>>

\* menu: "off" keeps its options, "none" has none. people: the configured
\* destinations in order; looping: those that ring CoMaz; target: the menu's own.
Settings == [menu : {"on", "off", "none"}, relay : BOOLEAN, ai : BOOLEAN,
             fallback : {"AI", "HUMAN"}, people : Seq(Dests),
             target : Dests \union {None}, looping : SUBSET Dests]

\* What the last TwiML has Twilio do, and what the next webhook will carry.
Call == [do : {"new", "gather", "ai", "ring", "relay", "over"}, attempt : 1..MaxAttempts,
         repeat : 0..MaxRepeats, tried : SUBSET {"AI", "HUMAN"}, index : 0..MaxHuman,
         target : Dests \union {None}, to : Dests \union {None},
         end : {"none", "served", "answered", "promised", "sorry", "unconfigured", "gone"}]

\* The assistant's leg: its row, and the control connection that runs its tools.
Leg == [row : {"none", "accepted", "handoff", "ai_failed"}, failures : 0..MaxReconnects,
        control : {"off", "up", "down"}, ending : {"none", "handoff", "goodbye"}]

NoRow == [to |-> None, ringing |-> FALSE]
Row == [to : Dests \union {None}, ringing : BOOLEAN]

NewCall == [do |-> "new", attempt |-> 1, repeat |-> 0, tried |-> {}, index |-> 0,
            target |-> None, to |-> None, end |-> "none"]
NoLeg == [row |-> "none", failures |-> 0, control |-> "off", ending |-> "none"]

\* callback: a pending request of the caller's number, and how many this call logged.
Init == /\ cfg \in {s \in [menu : {"on", "off", "none"}, relay : BOOLEAN, ai : BOOLEAN,
                            fallback : {"AI", "HUMAN"}, people : People,
                            target : Dests \union {None}, looping : {{}}] :
                       s.menu = "on" => ~s.relay}
        /\ caller \in BOOLEAN
        /\ call = NewCall /\ leg = NoLeg /\ rung = {} /\ past = {}
        /\ rows = [i \in 0..(MaxHuman - 1) |-> NoRow]
        /\ callback \in [open : BOOLEAN, logged : {0}] /\ (callback.open => caller)
        /\ echo = "none" /\ edits = 0

-----------------------------------------------------------------------------
\* human_destinations: deduplicated, re-checked when dialled, and capped. Kept are the places
\* of the list where somebody who may be dialled is named for the first time.
Candidates(target) == (IF target = None THEN <<>> ELSE <<target>>) \o cfg.people
Kept(s) == {i \in DOMAIN s : s[i] \notin cfg.looping /\ \A j \in 1..(i - 1) : s[j] # s[i]}
Nth(S, n) == CHOOSE i \in S : Cardinality({j \in S : j <= i}) = n
Chain(target) ==
    LET all == Candidates(target)
        kept == Kept(all)
        many == Cardinality(kept)
    IN [n \in 1..(IF many < MaxHuman THEN many ELSE MaxHuman) |-> all[Nth(kept, n)]]

Gather(attempt, repeat) == [NewCall EXCEPT !.do = "gather", !.attempt = attempt, !.repeat = repeat]
DialAi(tried) == [NewCall EXCEPT !.do = "ai", !.tried = tried \union {"AI"}]
Ring(tried, target, index) == [NewCall EXCEPT !.do = "ring", !.tried = tried \union {"HUMAN"},
                                              !.target = target, !.index = index,
                                              !.to = Chain(target)[index + 1]]
Over(end) == [NewCall EXCEPT !.do = "over", !.end = end]

\* close_with_callback says so only when it left one.
Close == Over(IF caller THEN "promised" ELSE "sorry")

\* Mutation of Excluded: a person is rung again although nobody answered.
OnlyNow(tried, exclude) == exclude \union (tried \ {"HUMAN"})
Excluded(tried, exclude) == exclude \union tried

Runnable(action, target) == IF action = "AI" THEN cfg.ai ELSE Chain(target) # <<>>
Run(action, tried, target) == IF action = "AI" THEN DialAi(tried) ELSE Ring(tried, target, 0)

Fallback(tried, exclude) ==
    LET usable(a) == a \notin Excluded(tried, exclude) /\ Runnable(a, None)
    IN IF usable(cfg.fallback) THEN Run(cfg.fallback, tried, None)
       ELSE IF usable("HUMAN") THEN Run("HUMAN", tried, None) ELSE Close

\* record_transfer_attempt: one row for each attempt of the call.
RecordAttempt(r, t) ==
    IF t.do = "ring" /\ r[t.index].to = None
    THEN [r EXCEPT ![t.index] = [to |-> t.to, ringing |-> TRUE]] ELSE r

\* Mutation of LogCallback: an open callback is not looked for.
AlwaysLog(t) == IF t.end = "promised" THEN [open |-> TRUE, logged |-> callback.logged + 1]
                ELSE callback
\* _recent_open_callback, _safe_callback: one that is open covers this call.
LogCallback(t) == IF t.end = "promised" /\ ~callback.open
                  THEN [open |-> TRUE, logged |-> callback.logged + 1] ELSE callback

\* The TwiML is sent: what it records is committed first.
Answer(t) == /\ call' = t /\ callback' = LogCallback(t)
             /\ rung' = IF t.do = "ring" THEN rung \union {t.to} ELSE rung
             /\ leg' = IF t.do = "ai" THEN NoLeg ELSE leg

\* incoming_call: the menu, the relay, or a person.
Incoming ==
    /\ call.do = "new"
    /\ LET t == IF cfg.menu = "on" THEN Gather(1, 0)
                ELSE IF cfg.relay THEN [NewCall EXCEPT !.do = "relay"]
                ELSE IF Chain(None) # <<>> THEN Ring({}, None, 0) ELSE Over("unconfigured")
       IN Answer(t) /\ rows' = RecordAttempt(rows, t)
    /\ UNCHANGED <<cfg, caller, past, echo, edits>>

\* ivr_menu: a key, a wrong key or nothing.
Press(key) ==
    /\ call.do = "gather"
    /\ LET t == CASE cfg.menu = "none" -> Fallback({}, {})
                  [] cfg.menu # "none" /\ key = "invalid" ->
                         IF call.attempt < MaxAttempts THEN Gather(call.attempt + 1, call.repeat)
                         ELSE Fallback({}, {})
                  [] cfg.menu # "none" /\ key = "REPEAT" ->
                         IF call.repeat < MaxRepeats THEN Gather(call.attempt, call.repeat + 1)
                         ELSE Fallback({}, {})
                  [] OTHER -> LET target == IF key = "HUMAN" THEN cfg.target ELSE None
                              IN IF Runnable(key, target) THEN Run(key, {}, target)
                                 ELSE Fallback({}, {key})
       IN Answer(t) /\ rows' = RecordAttempt(rows, t)
    /\ UNCHANGED <<cfg, caller, past, echo, edits>>

-----------------------------------------------------------------------------
\* realtime_webhook accepts the call; then run_call_controller.
AcceptLeg == /\ call.do = "ai" /\ leg.row = "none"
             /\ leg' = [leg EXCEPT !.row = "accepted", !.control = "down"]
             /\ UNCHANGED <<cfg, caller, call, rows, rung, callback, past, echo, edits>>

Connect == /\ call.do = "ai" /\ leg.control = "down"
           /\ leg' = [leg EXCEPT !.control = "up", !.failures = 0]
           /\ UNCHANGED <<cfg, caller, call, rows, rung, callback, past, echo, edits>>

\* A connection drops, or none comes up: try again, then give the caller back.
LoseConnection ==
    /\ call.do = "ai" /\ leg.control # "off"
    /\ leg' = IF leg.failures < MaxReconnects
              THEN [leg EXCEPT !.control = "down", !.failures = @ + 1]
              ELSE [leg EXCEPT !.control = "off", !.row = "ai_failed"]
    /\ UNCHANGED <<cfg, caller, call, rows, rung, callback, past, echo, edits>>

\* request_human_handoff or end_call, handled; more may follow before the end.
EndingTool(why) == /\ call.do = "ai" /\ leg.control = "up" /\ leg.ending # "handoff"
                   /\ leg' = [leg EXCEPT !.ending = why]
                   /\ UNCHANGED <<cfg, caller, call, rows, rung, callback, past, echo, edits>>

\* response.done after it: the leg is marked and hung up.
ResponseDone == /\ call.do = "ai" /\ leg.control = "up" /\ leg.ending # "none"
                /\ leg' = [leg EXCEPT !.control = "off", !.row = "handoff"]
                /\ UNCHANGED <<cfg, caller, call, rows, rung, callback, past, echo, edits>>

\* ivr_ai_complete: the leg never came up, was hung up, or closed by itself.
AiComplete(connected) ==
    /\ call.do = "ai"
    /\ (leg.row = "none" => ~connected) /\ (leg.control = "up" \/ leg.ending # "none" => connected)
    /\ LET t == IF leg.row = "accepted" /\ connected THEN Over("served")
                ELSE Fallback(call.tried, {})
       IN Answer(t) /\ rows' = RecordAttempt(rows, t)
    /\ UNCHANGED <<cfg, caller, past, echo, edits>>

-----------------------------------------------------------------------------
\* finish_transfer_attempt.
Finish(index) == [rows EXCEPT ![index].ringing = FALSE]

NextPerson(r) == IF r.index + 1 < Len(Chain(r.target))
                 THEN Ring(r.tried, r.target, r.index + 1) ELSE Fallback(r.tried, {})

\* ivr_transfer_complete: somebody answered, or the next one is rung.
TransferComplete(answered) ==
    /\ call.do = "ring"
    /\ past' = past \union {call}
    /\ LET t == IF answered THEN Over("answered") ELSE NextPerson(call)
       IN Answer(t) /\ rows' = RecordAttempt(Finish(call.index), t)
    /\ UNCHANGED <<cfg, caller, echo, edits>>

\* The same report again: it is handled, and Twilio drops the answer.
ReportAgain(r) ==
    /\ r \in past
    /\ callback' = LogCallback(NextPerson(r))
    /\ rows' = Finish(r.index)
    /\ UNCHANGED <<cfg, caller, call, leg, rung, past, echo, edits>>

\* twilio_voice_bridge: a turn that fails or needs a human ends in a callback.
RelayEnds == /\ call.do = "relay" /\ Answer(Close)
             /\ UNCHANGED <<cfg, caller, rows, past, echo, edits>>

\* The caller hangs up, also after the end; voice_status closes what rings.
HangUp == /\ call.do \notin {"new", "over"}
          /\ call' = Over("gone") /\ rows' = [i \in DOMAIN rows |-> [rows[i] EXCEPT !.ringing = FALSE]]
          /\ UNCHANGED <<cfg, caller, leg, rung, callback, past, echo, edits>>

\* The phone being rung forwards the call to the business's number; the carrier
\* shows the caller's number or the forwarding line. transfer_loop_suspected.
Forward(shown) ==
    /\ call.do = "ring" /\ echo = "none"
    /\ (shown = "caller" => caller)
    /\ echo' = IF \E i \in DOMAIN rows : rows[i].ringing /\ (shown = "caller" \/ rows[i].to = call.to)
               THEN "rejected" ELSE "entered"
    /\ UNCHANGED <<cfg, caller, call, leg, rows, rung, callback, past, edits>>

\* The owner saves other settings, a number becomes one of CoMaz's own.
Edit == /\ edits < MaxEdits /\ edits' = edits + 1
        /\ \/ cfg' = [cfg EXCEPT !.menu = "none"]
           \/ \E people \in People : cfg' = [cfg EXCEPT !.people = people]
           \/ \E d \in Dests : cfg' = [cfg EXCEPT !.looping = @ \union {d}]
        /\ UNCHANGED <<caller, call, leg, rows, rung, callback, past, echo>>

Next == \/ Incoming \/ \E key \in {"AI", "HUMAN", "REPEAT", "invalid"} : Press(key)
        \/ AcceptLeg \/ Connect \/ LoseConnection \/ ResponseDone
        \/ \E connected \in BOOLEAN : AiComplete(connected)
        \/ \E why \in {"handoff", "goodbye"} : EndingTool(why)
        \/ \E answered \in BOOLEAN : TransferComplete(answered)
        \/ \E r \in past : ReportAgain(r)
        \/ RelayEnds \/ HangUp \/ Edit
        \/ \E shown \in {"caller", "line"} : Forward(shown)

Spec == Init /\ [][Next]_callVars

-----------------------------------------------------------------------------
TypeOK == /\ cfg \in Settings /\ caller \in BOOLEAN /\ call \in Call /\ leg \in Leg
          /\ rows \in [0..(MaxHuman - 1) -> Row] /\ rung \subseteq Dests /\ past \subseteq Call
          /\ callback \in [open : BOOLEAN, logged : Nat]
          /\ echo \in {"none", "rejected", "entered"} /\ edits \in 0..MaxEdits

\* Nobody gives up early and nobody is rung in vain: a call is closed only when
\* everyone who may be rung has been, up to the cap, and no phone is rung twice
\* (settings edited during the call apart).
EveryoneIsTriedOnce ==
    [][edits' = 0 /\ call' # call =>
          /\ (call.do # "relay" /\ call'.do = "over" /\ call'.end \in {"promised", "sorry"}
                  => ToSet(Chain(None)) \subseteq rung \/ Cardinality(rung) = MaxHuman)
          /\ (call'.do = "ring" => call'.to \notin rung)]_callVars

\* A phone that forwards the ringing call back to the business is told busy:
\* the call never goes round in a loop, whatever reports are repeated.
LoopsAreBroken == echo # "entered"

\* A call leaves at most one callback, and the caller is promised one only if
\* one is open.
OneCallbackPerCall == /\ callback.logged <= 1
                      /\ (call.end = "promised" => callback.open)

\* A call ends in one place: it never goes round, and nobody is promised or
\* logged a callback twice.
CallsStayStraight == LoopsAreBroken /\ OneCallbackPerCall

\* A conversation the assistant has brought to its end is hung up.
FinishedCallsHangUp == leg.ending = "goodbye" => call.do \notin {"ring", "gather"}
=============================================================================
