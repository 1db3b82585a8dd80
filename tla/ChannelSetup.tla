----------------------------- MODULE ChannelSetup -----------------------------
(* Setting up the voice number and the WhatsApp sender of one business from
   Platform Admin: the statuses, what each action asks for first, what it writes
   when the provider accepts or refuses, and the buttons the console offers.
   An action that fails its guard changes nothing and is left out. *)
EXTENDS FiniteSets

\* Senders: the WhatsApp numbers of the business, which name their senders too.
CONSTANTS Senders, None

\* address: communication_settings.whatsapp_sender, by which inbound messages
\* find the business. sender: what Twilio last said of the sender sid.
VARIABLES subaccount, enabled, voice, openai, wa

setupVars == <<subaccount, enabled, voice, openai, wa>>

\* SUBACCOUNT_PENDING and NUMBER_PURCHASING are never committed.
VoiceStatus == {"NOT_STARTED", "SUBACCOUNT_READY", "NUMBER_ASSIGNED", "WEBHOOKS_CONFIGURED",
                "TESTING", "ONLINE", "ACTION_REQUIRED", "FAILED", "DISABLED"}
SenderStatus == {"CREATING", "PENDING_VERIFICATION", "VERIFYING", "ONLINE", "OFFLINE", "unknown"}
WhatsAppStatus == {"NOT_STARTED", "NUMBER_ENTERED", "MIGRATION_REQUIRED", "META_SIGNUP_IN_PROGRESS",
                   "WABA_RECEIVED", "TWILIO_SUBACCOUNT_READY", "SENDER_REGISTRATION_PENDING",
                   "OTP_REQUIRED", "SENDER_REGISTERING", "TESTING", "ONLINE", "ACTION_REQUIRED",
                   "FAILED", "DISABLED"}

Voice == [status : VoiceStatus, number : BOOLEAN, hooks : BOOLEAN]
WhatsApp == [status : WhatsAppStatus, number : Senders \union {None}, inUse : BOOLEAN,
             signup : BOOLEAN, waba : BOOLEAN, sid : Senders \union {None},
             sender : SenderStatus \union {None}, address : Senders \union {None}]

Init == /\ subaccount = FALSE /\ enabled = FALSE /\ openai = "NOT_STARTED"
        /\ voice = [status |-> "NOT_STARTED", number |-> FALSE, hooks |-> FALSE]
        /\ wa = [status |-> "NOT_STARTED", number |-> None, inUse |-> FALSE, signup |-> FALSE,
                 waba |-> FALSE, sid |-> None, sender |-> None, address |-> None]

-----------------------------------------------------------------------------
\* What the actions ask for.
CanAcquire == subaccount /\ ~voice.number
CanGoOnline == voice.number /\ voice.hooks
CanSignUp == wa.number # None /\ wa.status # "MIGRATION_REQUIRED"
CanRegister == wa.number # None /\ wa.waba /\ subaccount
HasSender == wa.sid # None

VoiceIs(status) == voice' = [voice EXCEPT !.status = status]
\* A repair or a test of a live, or a switched off, channel leaves its status.
Advanced(now, next) == IF now \in {"ONLINE", "DISABLED"} THEN now ELSE next

\* action_create_subaccount, action_attach_subaccount.
Subaccount(ok) ==
    /\ subaccount' = (subaccount \/ ok)
    /\ VoiceIs(IF ~ok THEN "ACTION_REQUIRED"
               ELSE IF voice.status = "NOT_STARTED" THEN "SUBACCOUNT_READY" ELSE voice.status)
    /\ wa' = IF ok /\ wa.status = "WABA_RECEIVED"
             THEN [wa EXCEPT !.status = "TWILIO_SUBACCOUNT_READY"] ELSE wa
    /\ UNCHANGED <<enabled, openai>>

\* action_buy_voice_number and action_transfer_voice_number, which configure it;
\* a transfer that fails restores the status it found.
AcquireNumber(ok) ==
    /\ CanAcquire
    /\ IF ok THEN voice' = [status |-> "WEBHOOKS_CONFIGURED", number |-> TRUE, hooks |-> TRUE]
       ELSE VoiceIs("FAILED")
    /\ UNCHANGED <<subaccount, enabled, openai, wa>>

\* action_buy_voice_number(already_owned): it is not pointed at CoMaz yet.
AdoptNumber ==
    /\ CanAcquire
    /\ voice' = [voice EXCEPT !.status = "NUMBER_ASSIGNED", !.number = TRUE]
    /\ UNCHANGED <<subaccount, enabled, openai, wa>>

ReturnNumber(ok) ==
    /\ voice.number
    /\ IF ok THEN voice' = [status |-> "SUBACCOUNT_READY", number |-> FALSE, hooks |-> FALSE]
       ELSE VoiceIs("ACTION_REQUIRED")
    /\ UNCHANGED <<subaccount, enabled, openai, wa>>

ConfigureVoice(ok) ==
    /\ voice.number
    /\ IF ok THEN voice' = [voice EXCEPT !.hooks = TRUE,
                                         !.status = Advanced(@, "WEBHOOKS_CONFIGURED")]
       ELSE VoiceIs("ACTION_REQUIRED")
    /\ UNCHANGED <<subaccount, enabled, openai, wa>>

\* Without a number the test call fails like one that Twilio refuses.
TestVoice(ok) ==
    /\ ok => voice.number
    /\ VoiceIs(IF ok THEN Advanced(voice.status, "TESTING") ELSE "ACTION_REQUIRED")
    /\ UNCHANGED <<subaccount, enabled, openai, wa>>

MarkVoiceOnline ==
    /\ CanGoOnline
    /\ VoiceIs("ONLINE") /\ enabled' = TRUE
    /\ UNCHANGED <<subaccount, openai, wa>>

EnableOpenAI(ok) ==
    /\ voice.number /\ openai # "READY"
    /\ openai' = IF ok THEN "READY" ELSE "ACTION_REQUIRED"
    /\ UNCHANGED <<subaccount, enabled, voice, wa>>

-----------------------------------------------------------------------------
\* action_set_whatsapp_number, when no other business has the number.
SetNumber(n, inUse) ==
    /\ wa' = [wa EXCEPT !.number = n, !.inUse = inUse,
                        !.status = IF inUse THEN "MIGRATION_REQUIRED" ELSE "NUMBER_ENTERED"]
    /\ UNCHANGED <<subaccount, enabled, voice, openai>>

MarkMigrationComplete ==
    /\ wa.status = "MIGRATION_REQUIRED"
    /\ wa' = [wa EXCEPT !.inUse = FALSE, !.status = "NUMBER_ENTERED"]
    /\ UNCHANGED <<subaccount, enabled, voice, openai>>

StartSignup ==
    /\ CanSignUp
    /\ wa' = [wa EXCEPT !.signup = TRUE, !.status = "META_SIGNUP_IN_PROGRESS"]
    /\ UNCHANGED <<subaccount, enabled, voice, openai>>

\* The nonce of the launch is consumed; the WABA is no other business's.
CompleteSignup ==
    /\ wa.signup
    /\ wa' = [wa EXCEPT !.signup = FALSE, !.waba = TRUE,
                        !.status = IF subaccount THEN "TWILIO_SUBACCOUNT_READY" ELSE "WABA_RECEIVED"]
    /\ UNCHANGED <<subaccount, enabled, voice, openai>>

\* state_for_sender_status: a status it does not know changes nothing.
StateOf(sender, current) ==
    CASE sender = "CREATING"             -> "SENDER_REGISTRATION_PENDING"
      [] sender = "PENDING_VERIFICATION" -> "OTP_REQUIRED"
      [] sender = "VERIFYING"            -> "SENDER_REGISTERING"
      [] sender = "ONLINE"               -> "ONLINE"
      [] sender = "OFFLINE"              -> "ACTION_REQUIRED"
      [] OTHER                           -> current

\* Mutation of Snapshot: the number on record is mirrored, not the sender's.
SnapshotOfNumber(sid, status, current) ==
    LET next == StateOf(status, current) IN
    /\ wa' = [wa EXCEPT !.sid = sid, !.sender = status, !.status = next,
                        !.address = IF next = "ONLINE" THEN wa.number ELSE @]
    /\ enabled' = (enabled \/ next = "ONLINE")

\* _apply_sender_snapshot: a live sender is mirrored, and the business enabled.
Snapshot(sid, status, current) ==
    LET next == StateOf(status, current) IN
    /\ wa' = [wa EXCEPT !.sid = sid, !.sender = status, !.status = next,
                        !.address = IF next = "ONLINE" THEN sid ELSE @]
    /\ enabled' = (enabled \/ next = "ONLINE")

WhatsAppIs(status) == wa' = [wa EXCEPT !.status = status] /\ UNCHANGED enabled

RegisterSender(ok, status) ==
    /\ CanRegister
    /\ IF ok THEN Snapshot(wa.number, status, "SENDER_REGISTRATION_PENDING")
       ELSE WhatsAppIs("FAILED")
    /\ UNCHANGED <<subaccount, voice, openai>>

\* The code is submitted, the status fetched or the webhooks written again.
AskSender(ok, status) ==
    /\ HasSender
    /\ IF ok THEN Snapshot(wa.sid, status, wa.status) ELSE WhatsAppIs("ACTION_REQUIRED")
    /\ UNCHANGED <<subaccount, voice, openai>>

TestWhatsApp ==
    /\ WhatsAppIs(Advanced(wa.status, "TESTING"))
    /\ UNCHANGED <<subaccount, voice, openai>>

-----------------------------------------------------------------------------
Disable ==
    /\ enabled' = FALSE
    /\ VoiceIs(IF voice.status = "NOT_STARTED" THEN "NOT_STARTED" ELSE "DISABLED")
    /\ wa' = [wa EXCEPT !.status = IF @ = "NOT_STARTED" THEN @ ELSE "DISABLED"]
    /\ UNCHANGED <<subaccount, openai>>

\* _resume_voice_state and _resume_whatsapp_state: the furthest step that stands.
ResumedVoice == CASE voice.number /\ voice.hooks -> "ONLINE"
                  [] voice.number /\ ~voice.hooks -> "NUMBER_ASSIGNED"
                  [] ~voice.number /\ subaccount -> "SUBACCOUNT_READY"
                  [] OTHER -> "NOT_STARTED"

\* Mutation of ResumedByRecord: the WABA is enough to register.
ResumedReady == CASE wa.waba -> "TWILIO_SUBACCOUNT_READY"
                  [] ~wa.waba /\ wa.number # None -> "NUMBER_ENTERED"
                  [] OTHER -> "NOT_STARTED"

ResumedByRecord == CASE wa.waba -> IF subaccount THEN "TWILIO_SUBACCOUNT_READY" ELSE "WABA_RECEIVED"
                     [] ~wa.waba /\ wa.number # None ->
                           IF wa.inUse THEN "MIGRATION_REQUIRED" ELSE "NUMBER_ENTERED"
                     [] OTHER -> "NOT_STARTED"

ResumedWhatsApp == StateOf(wa.sender, ResumedByRecord)

Enable ==
    /\ enabled' = TRUE
    /\ VoiceIs(IF voice.status = "DISABLED" THEN ResumedVoice ELSE voice.status)
    /\ wa' = [wa EXCEPT !.status = IF @ = "DISABLED" THEN ResumedWhatsApp ELSE @]
    /\ UNCHANGED <<subaccount, openai>>

Next == \/ AdoptNumber \/ MarkVoiceOnline \/ MarkMigrationComplete \/ StartSignup \/ CompleteSignup
        \/ TestWhatsApp \/ Disable \/ Enable
        \/ \E ok \in BOOLEAN :
              \/ Subaccount(ok) \/ ReturnNumber(ok) \/ ConfigureVoice(ok) \/ TestVoice(ok)
              \/ EnableOpenAI(ok) \/ AcquireNumber(ok)
              \/ \E status \in SenderStatus : RegisterSender(ok, status) \/ AskSender(ok, status)
        \/ \E n \in Senders, inUse \in BOOLEAN : SetNumber(n, inUse)

Spec == Init /\ [][Next]_setupVars

-----------------------------------------------------------------------------
\* _voice_actions and _whatsapp_actions: the steps that are offered.
VoiceOffers ==
    CASE ~subaccount -> {"create_subaccount"}
      [] subaccount /\ ~voice.number -> {"buy_voice_number"}
      [] OTHER -> {"configure_voice", "test_voice"}
                  \union (IF voice.hooks /\ voice.status # "ONLINE" THEN {"mark_voice_online"} ELSE {})
                  \union (IF voice.hooks /\ openai # "READY" THEN {"enable_openai_voice"} ELSE {})

WhatsAppOffers ==
    CASE wa.status \in {"NUMBER_ENTERED", "META_SIGNUP_IN_PROGRESS"} -> {"continue_meta_setup"}
      [] wa.status = "MIGRATION_REQUIRED" -> {"mark_migration_complete"}
      [] wa.status = "WABA_RECEIVED" ->
             IF subaccount THEN {"register_sender"} ELSE {"create_subaccount"}
      [] wa.status = "TWILIO_SUBACCOUNT_READY" -> {"register_sender"}
      [] wa.status = "OTP_REQUIRED" -> {"submit_otp", "check_status"}
      [] wa.status = "ONLINE" -> {"check_status", "reconfigure_whatsapp_webhooks"}
      [] wa.status \in {"SENDER_REGISTRATION_PENDING", "SENDER_REGISTERING", "TESTING",
                        "ACTION_REQUIRED", "FAILED"} -> {"check_status"}
      [] OTHER -> {"connect_whatsapp"}

Works(step) ==
    CASE step = "buy_voice_number" -> CanAcquire
      [] step \in {"configure_voice", "test_voice", "enable_openai_voice"} -> voice.number
      [] step = "mark_voice_online" -> CanGoOnline
      [] step = "continue_meta_setup" -> CanSignUp
      [] step = "register_sender" -> CanRegister
      [] step \in {"submit_otp", "check_status", "reconfigure_whatsapp_webhooks"} -> HasSender
      [] OTHER -> TRUE

TypeOK == /\ subaccount \in BOOLEAN /\ enabled \in BOOLEAN
          /\ voice \in Voice /\ wa \in WhatsApp
          /\ openai \in {"NOT_STARTED", "READY", "ACTION_REQUIRED"}

\* A channel shown as online is one that customers reach: the business is
\* enabled, its number points at CoMaz, and the sender it mirrors for inbound
\* messages is the one that Twilio reported live, whichever number was entered,
\* registered, switched off and on or given back before.
OnlineIsLive == /\ voice.status = "ONLINE" => enabled /\ voice.number /\ voice.hooks
                /\ wa.status = "ONLINE" => enabled /\ HasSender /\ wa.address = wa.sid

\* A step the console offers is one the service does not refuse, except that
\* Check status needs a sender, which a failed or a test status does not prove.
OfferedStepsWork ==
    /\ \A step \in VoiceOffers : Works(step)
    /\ wa.status \notin {"FAILED", "TESTING"} => \A step \in WhatsAppOffers : Works(step)
=============================================================================
