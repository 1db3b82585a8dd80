-------------------------- MODULE CarrierIntegration --------------------------
(* Keeping a business's own number: CoMaz's side of the carrier integration.
   Provisioning finds or creates a SIP domain, an access list, a connection
   policy and a trunk, and commits after each; it may be refused, or die, at any
   of them and be pressed again, even while an earlier press still runs. *)
EXTENDS Naturals, Sequences, FiniteSets

\* MaxEdits bounds the operator's changes of the configuration.
CONSTANTS Workers, MaxEdits, None

\* settings: capability, telephony mode, status, what is known, the SIDs recorded.
\* made: how many resources of a name Twilio has. overlap: two presses ran at once.
VARIABLES settings, made, press, overlap, edits

carrierVars == <<settings, made, press, overlap, edits>>

Capability == {"unknown", "bidirectional", "inbound", "forward"}
Order == <<"domain", "acl", "policy", "trunk">>
Resource == {Order[i] : i \in DOMAIN Order}
Fact == {"public", "human", "ips", "uri", "number"}
Idle == [at |-> 0, absent |-> FALSE, mode |-> None]

\* recommend_mode.
Recommended(capability) == CASE capability = "unknown" -> None
                             [] capability = "forward" -> "PSTN_FORWARD"
                             [] OTHER -> "SIP_BYOC"

Needs == CASE settings.capability = "bidirectional" -> {"public", "human", "ips", "uri"}
           [] settings.capability = "inbound" -> {"public", "human", "ips"}
           [] settings.capability = "forward" -> {"public", "human", "number"}
           [] OTHER -> Fact
StillRequired == Needs \ settings.known

Init == /\ settings \in [capability : Capability, mode : {None}, status : {"NOT_CONFIGURED"},
                         known : {Fact, Fact \ {"uri"}}, recorded : {{}}]
        /\ made = [r \in Resource |-> 0]
        /\ press = [w \in Workers |-> Idle]
        /\ overlap = FALSE /\ edits = 0

-----------------------------------------------------------------------------
StatusIs(status) == settings' = [settings EXCEPT !.status = status]
Ends(w) == press' = [press EXCEPT ![w] = Idle]
Onward(w) == press' = [press EXCEPT ![w].at = @ + 1, ![w].absent = FALSE]
Record(r) == settings' = [settings EXCEPT !.recorded = @ \union {r}]

\* provision: what is missing is refused before anything is created.
Provision(w) ==
    LET mode == Recommended(settings.capability) IN
    /\ press[w] = Idle
    /\ mode # None /\ settings.mode \in {None, mode} /\ StillRequired = {}
    /\ StatusIs("PROVISIONING")
    /\ press' = [press EXCEPT ![w] = [at |-> IF mode = "SIP_BYOC" THEN 1 ELSE Len(Order) + 1,
                                      absent |-> FALSE, mode |-> mode]]
    /\ overlap' = (overlap \/ \E v \in Workers : press[v] # Idle)
    /\ UNCHANGED <<made, edits>>

AtStep(w) == press[w].at \in DOMAIN Order

\* No access list without addresses, no policy without the carrier's endpoint.
Skip(w) ==
    /\ AtStep(w)
    /\ \/ Order[press[w].at] = "acl" /\ "ips" \notin settings.known
       \/ Order[press[w].at] = "policy" /\ "uri" \notin settings.known
    /\ Onward(w)
    /\ UNCHANGED <<settings, made, overlap, edits>>

\* Mutation of Find: the recorded SIDs are looked at, not Twilio's list.
FindRecorded(w) ==
    /\ AtStep(w) /\ ~press[w].absent
    /\ IF Order[press[w].at] \in settings.recorded
       THEN Onward(w) /\ UNCHANGED settings
       ELSE press' = [press EXCEPT ![w].absent = TRUE] /\ UNCHANGED settings
    /\ UNCHANGED <<made, overlap, edits>>

\* The listing of a find-or-create: a resource of the name is used again.
Find(w) ==
    /\ AtStep(w) /\ ~press[w].absent
    /\ IF made[Order[press[w].at]] > 0
       THEN Onward(w) /\ Record(Order[press[w].at])
       ELSE press' = [press EXCEPT ![w].absent = TRUE] /\ UNCHANGED settings
    /\ UNCHANGED <<made, overlap, edits>>

\* Its creation; the worker may die before it records the SID. The name of a
\* domain is unique at Twilio, the others' are not.
Create(w, survives) ==
    LET r == Order[press[w].at] IN
    /\ AtStep(w) /\ press[w].absent /\ (r = "domain" => made[r] = 0)
    /\ made' = [made EXCEPT ![r] = @ + 1]
    /\ IF survives THEN Onward(w) /\ Record(r) ELSE Ends(w) /\ UNCHANGED settings
    /\ UNCHANGED <<overlap, edits>>

\* _set_error: Twilio refuses, the business has no subaccount, or a timeout.
Refuse(w) ==
    /\ AtStep(w)
    /\ StatusIs("ERROR") /\ Ends(w)
    /\ UNCHANGED <<made, overlap, edits>>

Die(w) == press[w] # Idle /\ Ends(w) /\ UNCHANGED <<settings, made, overlap, edits>>

Finish(w) ==
    /\ press[w].at > Len(Order)
    /\ settings' = [settings EXCEPT !.mode = press[w].mode, !.status = "AWAITING_CARRIER_CONFIGURATION"]
    /\ Ends(w)
    /\ UNCHANGED <<made, overlap, edits>>

Activate ==
    /\ settings.status = "AWAITING_CARRIER_CONFIGURATION"
    /\ StillRequired = {} /\ "human" \in settings.known
    /\ StatusIs("ACTIVE")
    /\ UNCHANGED <<made, press, overlap, edits>>

\* action_set_existing_number_provider and action_set_telephony.
Configure(capability, mode, known) ==
    /\ edits < MaxEdits /\ edits' = edits + 1
    /\ settings' = [settings EXCEPT !.capability = capability, !.mode = mode, !.known = known]
    /\ UNCHANGED <<made, press, overlap>>

Next == \/ Activate
        \/ \E w \in Workers : \/ Provision(w) \/ Skip(w) \/ Find(w) \/ Refuse(w) \/ Die(w) \/ Finish(w)
                             \/ \E survives \in BOOLEAN : Create(w, survives)
        \/ \E capability \in Capability, mode \in {None, "SIP_BYOC", "PSTN_FORWARD"},
              known \in {Fact, Fact \ {"ips"}, Fact \ {"uri"}} : Configure(capability, mode, known)

Spec == Init /\ [][Next]_carrierVars

-----------------------------------------------------------------------------
TypeOK == /\ settings \in [capability : Capability, mode : {None, "SIP_BYOC", "PSTN_FORWARD"},
                           status : {"NOT_CONFIGURED", "PROVISIONING", "ERROR", "ACTIVE",
                                     "AWAITING_CARRIER_CONFIGURATION"},
                           known : SUBSET Fact, recorded : SUBSET Resource]
          /\ made \in [Resource -> Nat] /\ overlap \in BOOLEAN /\ edits \in 0..MaxEdits
          /\ press \in [Workers -> [at : 0..Len(Order) + 1, absent : BOOLEAN,
                                    mode : {None, "SIP_BYOC", "PSTN_FORWARD"}]]

\* Pressed again after a refusal or a crash at any step, provisioning takes what
\* is there: a business gets a second resource of a kind only if two presses
\* overlapped, and a recorded one always exists.
DuplicatesNeedOverlap ==
    \A r \in Resource : /\ made[r] > 1 => overlap
                        /\ r \in settings.recorded => made[r] > 0
=============================================================================
