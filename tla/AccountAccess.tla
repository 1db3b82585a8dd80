----------------------------- MODULE AccountAccess -----------------------------
(* Who gets into the account of one employee, and with what: passwords set by
   e-mailed links, the sessions that a login opens, support impersonation, and
   the suspension of the business. Requests run side by side; what ends a
   session is read from the database whenever a token is used. *)
EXTENDS Naturals, Sequences

\* MaxTime bounds the seconds, MaxEnds the resets and deactivations, MaxLinks the links.
CONSTANTS Workers, MaxTime, MaxEnds, MaxLinks, None

\* staff: since is tokens_valid_from (0: never set), epoch how often sessions were ended, chosen
\* whether the employee ever set a password. links: the reset tokens, oldest
\* first. session: any one of the tokens in circulation. uses: of each link and
\* of the handoff code. overlap: two requests for links or codes ran at once.
VARIABLES now, tenant, staff, links, grant, session, request, uses, overlap

accessVars == <<now, tenant, staff, links, grant, session, request, uses, overlap>>

\* "void" and "used" both have a used_at; what voids a lapsed link shows nothing.
LinkState == {"live", "lapsed", "used", "void"}
Token == [iat : 0..MaxTime, epoch : 0..MaxEnds, impersonating : BOOLEAN, spans : BOOLEAN]
Idle == [op |-> "none", arg |-> {}, at |-> 0, epoch |-> 0]
Ending == {"reset", "deactivate"}
Signing == {"login", "exchange"}
Single == {"issue", "reset", "exchange"}
Request == [op : {"login", "refresh", "issue", "reset", "exchange", "deactivate", "none"},
            arg : SUBSET (1..MaxLinks), at : 0..MaxTime, epoch : 0..MaxEnds]

\* provision_tenant issues the first link with the account.
Init == /\ now = 1 /\ tenant = "ACTIVE"
        /\ staff = [active |-> TRUE, since |-> 0, epoch |-> 0, chosen |-> FALSE]
        /\ links = <<"live">> /\ uses = [i \in 0..MaxLinks |-> 0]
        /\ grant = [state |-> "none", code |-> "none"]
        /\ session = None
        /\ request = [w \in Workers |-> Idle]
        /\ overlap = FALSE

-----------------------------------------------------------------------------
Open == tenant = "ACTIVE"
Exists == tenant # "DELETED"

\* Mutation of Fresh: tokens_valid_from is forgotten.
FreshAlways(iat) == TRUE

Fresh(iat) == iat >= staff.since

\* _token_revoked: impersonation outlives a suspension, nothing else does.
Usable(s) == /\ Exists /\ staff.active /\ Fresh(s.iat)
             /\ IF s.impersonating THEN grant.state = "open" ELSE Open

Live == {i \in DOMAIN links : links[i] = "live"}
Outstanding == {i \in DOMAIN links : links[i] \in {"live", "lapsed"}}
\* The rows that a link being issued has written and not committed.
Locked == UNION {request[w].arg : w \in {v \in Workers : request[v].op = "issue"}}
Counted(S) == [i \in 0..MaxLinks |-> IF i \in S THEN uses[i] + 1 ELSE uses[i]]
Voided(S) == [i \in DOMAIN links |-> IF i \in S THEN "void" ELSE links[i]]

Free(w) == request[w] = Idle /\ Exists
Becomes(w, op, arg) ==
    /\ request' = [request EXCEPT ![w] = [op |-> op, arg |-> arg,
                                          at |-> IF op \in Ending THEN now ELSE 0,
                                          epoch |-> IF op \in Signing THEN staff.epoch ELSE 0]]
    /\ overlap' = (overlap \/ (op \in Single /\ \E v \in Workers : request[v].op \in Single))
Ends(w) == request' = [request EXCEPT ![w] = Idle]

\* A token is signed; it may be the session that is watched.
Mint(w, impersonating) ==
    LET spans == \/ request[w].epoch # staff.epoch
                 \/ \E v \in Workers : request[v].op \in Ending
    IN session' \in {session, [iat |-> now, epoch |-> request[w].epoch,
                               impersonating |-> impersonating, spans |-> spans]}

-----------------------------------------------------------------------------
\* Login: the password is right and the employee active, and then, when the
\* password was checked, the business is not suspended.
Login(w) ==
    /\ Free(w) /\ staff.active /\ staff.chosen
    /\ Becomes(w, "login", {})
    /\ UNCHANGED <<now, tenant, staff, links, grant, session, uses>>

LogIn(w) ==
    /\ request[w].op = "login" /\ Open
    /\ Mint(w, FALSE) /\ Ends(w)
    /\ UNCHANGED <<now, tenant, staff, links, grant, uses, overlap>>

\* Refresh: the refresh token, of the same age as the session, is not revoked.
Refresh(w) ==
    /\ Free(w) /\ session # None /\ Usable(session) /\ ~session.impersonating
    /\ request' = [request EXCEPT ![w] = [op |-> "refresh", arg |-> {}, at |-> session.iat,
                                          epoch |-> session.epoch]]
    /\ UNCHANGED <<now, tenant, staff, links, grant, session, uses, overlap>>

Refreshed(w) ==
    /\ request[w].op = "refresh"
    /\ LET spans == \/ request[w].at = staff.since \/ request[w].epoch # staff.epoch
                    \/ \E v \in Workers : request[v].op \in Ending
       IN session' \in {session, [iat |-> now, epoch |-> request[w].epoch,
                                  impersonating |-> FALSE, spans |-> spans]}
    /\ Ends(w)
    /\ UNCHANGED <<now, tenant, staff, links, grant, uses, overlap>>

-----------------------------------------------------------------------------
\* issue_reset_token, for a forgotten password or an invite: the outstanding
\* links are voided, and the new one is there when the request commits.
IssueLink(w) ==
    /\ Free(w) /\ staff.active /\ Len(links) < MaxLinks
    /\ Outstanding \intersect Locked = {}
    /\ Becomes(w, "issue", Outstanding)
    /\ UNCHANGED <<now, tenant, staff, links, grant, session, uses>>

SendLink(w) ==
    /\ request[w].op = "issue" /\ Len(links) < MaxLinks
    /\ links' = Append(Voided(request[w].arg), "live")
    /\ Ends(w)
    /\ UNCHANGED <<now, tenant, staff, grant, session, uses, overlap>>

Lapse(i) ==
    /\ i \in Live \ Locked
    /\ links' = [links EXCEPT ![i] = "lapsed"]
    /\ UNCHANGED <<now, tenant, staff, grant, session, request, uses, overlap>>

\* find_valid_token, before the new password is hashed.
OpenLink(w, i) ==
    /\ Free(w) /\ i \in Live
    /\ Becomes(w, "reset", {i})
    /\ UNCHANGED <<now, tenant, staff, links, grant, session, uses>>

\* Mutation of SetPassword: the link itself is not marked as used.
SetPasswordAgain(w) ==
    /\ request[w].op = "reset" /\ staff.epoch < MaxEnds
    /\ (Outstanding \union request[w].arg) \intersect Locked = {}
    /\ staff' = [staff EXCEPT !.since = request[w].at, !.epoch = @ + 1, !.chosen = TRUE]
    /\ links' = Voided(Outstanding \ request[w].arg)
    /\ uses' = Counted(request[w].arg)
    /\ Ends(w)
    /\ UNCHANGED <<now, tenant, grant, session, overlap>>

\* consume_token_and_set_password, which does not look at the link again.
SetPassword(w) ==
    /\ request[w].op = "reset" /\ staff.epoch < MaxEnds
    /\ (Outstanding \union request[w].arg) \intersect Locked = {}
    /\ staff' = [staff EXCEPT !.since = request[w].at, !.epoch = @ + 1, !.chosen = TRUE]
    /\ links' = [i \in DOMAIN links |-> IF i \in request[w].arg THEN "used" ELSE Voided(Outstanding)[i]]
    /\ uses' = Counted(request[w].arg)
    /\ Ends(w)
    /\ UNCHANGED <<now, tenant, grant, session, overlap>>

-----------------------------------------------------------------------------
\* PATCH is_active: deactivating sets tokens_valid_from, activating does not.
Deactivate(w) ==
    /\ Free(w) /\ staff.active
    /\ Becomes(w, "deactivate", {})
    /\ UNCHANGED <<now, tenant, staff, links, grant, session, uses>>

Deactivated(w) ==
    /\ request[w].op = "deactivate" /\ staff.epoch < MaxEnds
    /\ staff' = [staff EXCEPT !.active = FALSE, !.since = request[w].at, !.epoch = @ + 1]
    /\ Ends(w)
    /\ UNCHANGED <<now, tenant, links, grant, session, uses, overlap>>

Activate ==
    /\ Exists /\ ~staff.active
    /\ staff' = [staff EXCEPT !.active = TRUE]
    /\ UNCHANGED <<now, tenant, links, grant, session, request, uses, overlap>>

-----------------------------------------------------------------------------
\* start_impersonation: a session of support and a code to be exchanged for it.
Impersonate ==
    /\ Exists /\ staff.active /\ grant.state = "none"
    /\ grant' = [state |-> "open", code |-> "fresh"]
    /\ UNCHANGED <<now, tenant, staff, links, session, request, uses, overlap>>

Exchange(w) ==
    /\ Free(w) /\ grant = [state |-> "open", code |-> "fresh"] /\ staff.active
    /\ Becomes(w, "exchange", {})
    /\ UNCHANGED <<now, tenant, staff, links, grant, session, uses>>

\* exchange_handoff_code: the code is burnt, then the token signed.
Exchanged(w) ==
    /\ request[w].op = "exchange"
    /\ grant' = [grant EXCEPT !.code = IF @ = "fresh" THEN "burnt" ELSE @]
    /\ uses' = Counted({0})
    /\ Mint(w, TRUE) /\ Ends(w)
    /\ UNCHANGED <<now, tenant, staff, links, overlap>>

CodeLapses ==
    /\ grant.code = "fresh" /\ grant' = [grant EXCEPT !.code = "burnt"]
    /\ UNCHANGED <<now, tenant, staff, links, session, request, uses, overlap>>

\* The session of support is over, or revoked by an admin.
EndGrant ==
    /\ grant.state = "open" /\ grant' = [state |-> "over", code |-> "none"]
    /\ UNCHANGED <<now, tenant, staff, links, session, request, uses, overlap>>

-----------------------------------------------------------------------------
\* suspend and archive, which keep everybody out alike; reactivate and unarchive.
Close == /\ Open /\ tenant' = "CLOSED"
         /\ UNCHANGED <<now, staff, links, grant, session, request, uses, overlap>>

Reopen == /\ tenant = "CLOSED" /\ tenant' = "ACTIVE"
          /\ UNCHANGED <<now, staff, links, grant, session, request, uses, overlap>>

\* Only what is closed is deleted, with its staff and their tokens.
Delete == /\ tenant = "CLOSED" /\ tenant' = "DELETED" /\ session' = None
          /\ links' = <<>> /\ grant' = [state |-> "over", code |-> "none"]
          /\ request' = [w \in Workers |-> Idle]
          /\ UNCHANGED <<now, staff, uses, overlap>>

\* A request that fails, or whose worker dies, has written nothing.
Fail(w) ==
    /\ request[w] # Idle
    /\ Ends(w)
    /\ UNCHANGED <<now, tenant, staff, links, grant, session, uses, overlap>>

Tick == /\ now < MaxTime /\ now' = now + 1
        /\ UNCHANGED <<tenant, staff, links, grant, session, request, uses, overlap>>

Next == \/ \E w \in Workers :
              \/ Login(w) \/ LogIn(w) \/ Refresh(w) \/ Refreshed(w) \/ IssueLink(w) \/ SendLink(w)
              \/ SetPassword(w) \/ Deactivate(w) \/ Deactivated(w) \/ Exchange(w) \/ Exchanged(w)
              \/ Fail(w) \/ \E i \in 1..MaxLinks : OpenLink(w, i)
        \/ Activate \/ Impersonate \/ Tick
        \/ \E i \in 1..MaxLinks : Lapse(i)
        \/ CodeLapses \/ EndGrant \/ Close \/ Reopen \/ Delete

Spec == Init /\ [][Next]_accessVars

-----------------------------------------------------------------------------
TypeOK == /\ now \in 1..MaxTime /\ tenant \in {"ACTIVE", "CLOSED", "DELETED"} /\ overlap \in BOOLEAN
          /\ staff \in [active : BOOLEAN, since : 0..MaxTime, epoch : 0..MaxEnds,
                        chosen : BOOLEAN]
          /\ links \in Seq(LinkState) /\ uses \in [0..MaxLinks -> Nat]
          /\ grant \in [state : {"none", "open", "over"},
                        code : {"none", "fresh", "burnt"}]
          /\ session \in Token \union {None} /\ request \in [Workers -> Request]

\* Once a password was reset or an employee deactivated, no token from before
\* works again, however the account is switched and the business suspended
\* later, unless it was signed in that very second or while the change was made.
OldSessionsEnd ==
    session # None /\ Usable(session) =>
        session.epoch = staff.epoch \/ session.spans \/ session.iat = staff.since

\* owner_invite_status.
Invite == CASE Len(links) = 0 -> "none"
            [] Len(links) > 0 /\ links[Len(links)] \in {"used", "void"} -> "accepted"
            [] Len(links) > 0 /\ links[Len(links)] = "live" -> "sent"
            [] OTHER -> "expired"

\* A business is shown as having accepted its invite only if its owner chose a
\* password. Without requests that overlap a link, and a code, works once and
\* at most one link is live.
LinksWorkOnce ==
    /\ Invite = "accepted" => staff.chosen
    /\ \/ overlap
       \/ /\ \A i, j \in Live : i = j
          /\ \A i \in 0..MaxLinks : uses[i] <= 1
=============================================================================
