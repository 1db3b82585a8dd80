-------------------------- MODULE SquareConnection --------------------------
(* A business's connection to its Square merchant: authorisation, the life of the
   access tokens, the choice of a location, disconnecting, and the news that a
   merchant took its authorisation back. Writers of a row lock it; readers, the
   choice of a location and the callback's first look do not, and the ORM writes
   only the columns that differ from what a request had loaded. *)
EXTENDS Naturals, Sequences, FiniteSets

CONSTANTS Businesses, Merchants, Workers, MaxCodes, MaxTokens, MaxNews, None

\* row: the Square columns of garage_payment_settings. tokens: what Square issued, in
\* its order. news: revocations that Square has not yet delivered, each with the
\* tokens it was about. told: how many it ever sent. request: the requests under way.
\* overtaken: businesses for which a request wrote over what it did not see.
VARIABLES row, tokens, news, told, request, overtaken

squareVars == <<row, tokens, news, told, request, overtaken>>

Token == 1..MaxTokens
\* age: of the token, by its expiry in the row. A location stands for those of its
\* merchant that can take the deposit's currency.
Row == [merchant : Merchants \union {None}, token : Token \union {None},
        age : {"fresh", "due", "expired", None},
        status : {"NOT_CONNECTED", "CONNECTED", "REVOKED", "ERROR"},
        location : Merchants \union {None}]
\* live: Square accepts it. granted: its authorisation stands. of: the token it renewed.
Issued == [merchant : Merchants, live : BOOLEAN, granted : BOOLEAN, of : Token \union {None}]
Cleared == [merchant |-> None, token |-> None, age |-> None, status |-> "NOT_CONNECTED", location |-> None]

Idle == [op |-> "none"]
\* seen: the row as the callback loaded it, Idle when it loaded none.
Connecting == [op : {"connect"}, business : Businesses, token : Token, seen : Row \union {Idle}]
Calling == [op : {"call"}, business : Businesses, token : Token]
Choosing == [op : {"choose"}, business : Businesses, merchant : Merchants]

Init == /\ row = [b \in Businesses |-> Cleared]
        /\ tokens = <<>> /\ news = {} /\ told = 0
        /\ request = [w \in Workers |-> Idle]
        /\ overtaken = {}

-----------------------------------------------------------------------------
Connected(b) == row[b].status = "CONNECTED"

\* square_account_ready; an expired token counts, for it can be renewed.
Ready(b) == /\ Connected(b) /\ row[b].merchant # None
            /\ row[b].location # None /\ row[b].token # None

\* settings_for_merchant.
OwnersOf(m) == {b \in Businesses : row[b].merchant = m}

Begin(w, r) == request' = [request EXCEPT ![w] = r]
Answer(w) == request' = [request EXCEPT ![w] = Idle]

\* Requests that will write columns of b without having seen a change made now.
Overtaking(w, b) == \E v \in Workers \ {w} :
    request[v].op \in {"connect", "choose"} /\ request[v].business = b
Overtake(w, b) == overtaken' = IF Overtaking(w, b) THEN overtaken \union {b} ELSE overtaken

Issue(m, t) == /\ Len(tokens) < MaxTokens
               /\ tokens' = Append(tokens, [merchant |-> m, live |-> TRUE, granted |-> TRUE, of |-> t])

-----------------------------------------------------------------------------
\* Square's redirect back: the code is exchanged; a merchant of another business is
\* refused, and the token for it dropped. A row that already names the merchant
\* stays in the session as loaded.
Exchange(w, b, m) ==
    /\ request[w] = Idle /\ OwnersOf(m) \subseteq {b}
    /\ Cardinality({t \in DOMAIN tokens : tokens[t].of = None}) < MaxCodes
    /\ Issue(m, None)
    /\ Begin(w, [op |-> "connect", business |-> b, token |-> Len(tokens) + 1,
                 seen |-> IF OwnersOf(m) = {b} THEN row[b] ELSE Idle])
    /\ UNCHANGED <<row, news, told, overtaken>>

\* Mutation of Store: the location chosen before stays, whosever it is.
StoreAnyLocation(w) ==
    /\ request[w].op = "connect"
    /\ LET b == request[w].business
           m == tokens[request[w].token].merchant IN
       /\ OwnersOf(m) \subseteq {b}
       /\ row' = [row EXCEPT ![b] = [merchant |-> m, token |-> request[w].token, age |-> "fresh",
                                     status |-> "CONNECTED",
                                     location |-> IF @.location = None THEN m ELSE @.location]]
       /\ Overtake(w, b)
    /\ Answer(w)
    /\ UNCHANGED <<tokens, news, told>>

\* The row is locked, the tokens stored, a location that is still the merchant's kept or
\* the only one chosen, and all committed, if no other business's row names the merchant.
Store(w) ==
    /\ request[w].op = "connect"
    /\ LET b == request[w].business
           m == tokens[request[w].token].merchant
           seen == IF request[w].seen = Idle THEN row[b] ELSE request[w].seen IN
       /\ IF OwnersOf(m) \subseteq {b}
          THEN \E loc \in IF seen.location = m THEN {m} ELSE {m, None} :
                  row' = [row EXCEPT ![b] =
                     [merchant |-> IF seen.merchant = m THEN @.merchant ELSE m,
                      token    |-> request[w].token, age |-> "fresh",
                      status   |-> IF seen.status = "CONNECTED" THEN @.status ELSE "CONNECTED",
                      location |-> IF seen.location = loc THEN @.location ELSE loc]]
          ELSE row' = row
       /\ Overtake(w, b)
    /\ Answer(w)
    /\ UNCHANGED <<tokens, news, told>>

\* Square cannot be reached for the token, or the worker dies.
Abandon(w) == /\ request[w] # Idle /\ Answer(w)
              /\ UNCHANGED <<row, tokens, news, told, overtaken>>

-----------------------------------------------------------------------------
\* _refresh of a locked row: a new token, an authorisation found revoked, or no
\* answer, which does no harm while the old token is valid.
Refresh(b) ==
    LET t == row[b].token IN
    \/ /\ tokens[t].granted /\ Issue(tokens[t].merchant, t)
       /\ row' = [row EXCEPT ![b].token = Len(tokens) + 1, ![b].age = "fresh"]
    \/ /\ ~tokens[t].granted
       /\ row' = [row EXCEPT ![b].status = "REVOKED"]
       /\ UNCHANGED tokens
    \/ /\ row' = IF row[b].age = "expired" THEN [row EXCEPT ![b].status = "ERROR"] ELSE row
       /\ UNCHANGED tokens

Usable(b) == Connected(b) /\ row[b].token # None /\ row[b].merchant # None

\* access_token_for_merchant without a lock, for a charge, the settings page or a sweep.
Call(w, b) ==
    /\ request[w] = Idle /\ Usable(b) /\ row[b].age = "fresh"
    /\ Begin(w, [op |-> "call", business |-> b, token |-> row[b].token])
    /\ UNCHANGED <<row, tokens, news, told, overtaken>>

\* With a token near its end the row is locked, and the token renewed if still so.
Renew(w, b) ==
    /\ request[w] = Idle /\ Usable(b) /\ row[b].age # "fresh"
    /\ Refresh(b)
    /\ UNCHANGED <<news, told, request, overtaken>>

\* Square takes the call.
Accepted(w) ==
    /\ request[w].op = "call" /\ tokens[request[w].token].live
    /\ Answer(w)
    /\ UNCHANGED <<row, tokens, news, told, overtaken>>

\* Mutation of Refused: what others did meanwhile is not looked at.
RefusedAgain(w) ==
    /\ request[w].op = "call" /\ ~tokens[request[w].token].live
    /\ LET b == request[w].business IN
       IF Usable(b) THEN Refresh(b) ELSE UNCHANGED <<row, tokens>>
    /\ Answer(w)
    /\ UNCHANGED <<news, told, overtaken>>

\* Answered 401, it locks the row and has the token renewed, unless another did.
Refused(w) ==
    /\ request[w].op = "call" /\ ~tokens[request[w].token].live
    /\ LET b == request[w].business IN
       IF Usable(b) /\ (row[b].age # "fresh" \/ row[b].token = request[w].token)
       THEN Refresh(b) ELSE UNCHANGED <<row, tokens>>
    /\ Answer(w)
    /\ UNCHANGED <<news, told, overtaken>>

-----------------------------------------------------------------------------
\* set_location asks Square for the merchant's locations,
ChooseLocation(w, b) ==
    /\ request[w] = Idle /\ Usable(b)
    /\ row[b].age = "fresh" /\ tokens[row[b].token].live
    /\ Begin(w, [op |-> "choose", business |-> b, merchant |-> row[b].merchant])
    /\ UNCHANGED <<row, tokens, news, told, overtaken>>

\* and writes the one chosen into the row without having locked it.
LocationChosen(w) ==
    /\ request[w].op = "choose"
    /\ row' = [row EXCEPT ![request[w].business].location = request[w].merchant]
    /\ Overtake(w, request[w].business)
    /\ Answer(w)
    /\ UNCHANGED <<tokens, news, told>>

\* The merchant's tokens are worth nothing from now on, and the business is told.
Withdraw(m) ==
    /\ told < MaxNews
    /\ tokens' = [t \in DOMAIN tokens |->
                     IF tokens[t].merchant = m THEN [tokens[t] EXCEPT !.live = FALSE, !.granted = FALSE]
                     ELSE tokens[t]]
    /\ news' = news \union {[merchant |-> m, upto |-> Len(tokens)]}
    /\ told' = told + 1
    /\ overtaken' = overtaken \union {request[w].business : w \in {v \in Workers :
                       request[v].op = "connect" /\ tokens[request[v].token].merchant = m}}

\* The merchant takes its authorisation back at Square.
Revoke(m) ==
    /\ \E t \in DOMAIN tokens : tokens[t].merchant = m /\ tokens[t].granted
    /\ Withdraw(m)
    /\ UNCHANGED <<row, request>>

\* The owner disconnects: revoked at Square if that answers, cleared in any case.
Disconnect(b) ==
    /\ row[b].merchant # None
    /\ \/ Withdraw(row[b].merchant)
       \/ /\ overtaken' = IF Overtaking(None, b) THEN overtaken \union {b} ELSE overtaken
          /\ UNCHANGED <<tokens, news, told>>
    /\ row' = [row EXCEPT ![b] = Cleared]
    /\ UNCHANGED request

\* mark_revoked: whatever the row of the merchant holds by now is dropped.
Revoked(e) ==
    /\ e \in news /\ news' = news \ {e}
    /\ row' = [b \in Businesses |->
                  IF b \in OwnersOf(e.merchant)
                  THEN [row[b] EXCEPT !.token = None, !.age = None, !.status = "REVOKED"] ELSE row[b]]
    /\ overtaken' = overtaken \union {b \in OwnersOf(e.merchant) : Overtaking(None, b)}
    /\ UNCHANGED <<tokens, told, request>>

\* Tokens age, and Square may end one early while the authorisation stands.
Age(b) ==
    /\ row[b].age \in {"fresh", "due"}
    /\ row' = [row EXCEPT ![b].age = IF @ = "fresh" THEN "due" ELSE "expired"]
    /\ tokens' = [tokens EXCEPT ![row[b].token].live = @ /\ row[b].age = "fresh"]
    /\ UNCHANGED <<news, told, request, overtaken>>

EndEarly(b) ==
    /\ row[b].token # None /\ tokens[row[b].token].live
    /\ tokens' = [tokens EXCEPT ![row[b].token].live = FALSE]
    /\ UNCHANGED <<row, news, told, request, overtaken>>

Next == \/ \E w \in Workers, b \in Businesses :
              \/ Call(w, b) \/ Renew(w, b) \/ ChooseLocation(w, b)
              \/ \E m \in Merchants : Exchange(w, b, m)
        \/ \E w \in Workers : Store(w) \/ Abandon(w) \/ Accepted(w) \/ Refused(w) \/ LocationChosen(w)
        \/ \E b \in Businesses : Disconnect(b) \/ Age(b) \/ EndEarly(b)
        \/ \E m \in Merchants : Revoke(m)
        \/ \E e \in news : Revoked(e)

Spec == Init /\ [][Next]_squareVars

-----------------------------------------------------------------------------
TypeOK == /\ row \in [Businesses -> Row] /\ tokens \in Seq(Issued) /\ Len(tokens) <= MaxTokens
          /\ news \subseteq [merchant : Merchants, upto : Token]
          /\ told \in 0..MaxNews /\ overtaken \subseteq Businesses
          /\ request \in [Workers -> {Idle} \union Connecting \union Calling \union Choosing]

\* No merchant belongs to two businesses, and a business shown as ready to take
\* deposits has a token and a location of the very merchant it names; if that
\* merchant has withdrawn, the news of it is still to be delivered. Excepted is a
\* business for which a request wrote over a change it had not seen.
ReadyConnectionsWork ==
    /\ \A a, b \in Businesses : row[a].merchant = row[b].merchant => a = b \/ row[a].merchant = None
    /\ \A b \in Businesses \ overtaken : Ready(b) =>
          /\ tokens[row[b].token].merchant = row[b].merchant
          /\ row[b].location = row[b].merchant
          /\ \/ tokens[row[b].token].granted
             \/ \E e \in news : e.merchant = row[b].merchant /\ e.upto >= row[b].token

\* However many callers find a token old or refused at once, none that is good is
\* renewed, and a connection is given up only for a reason: its owner disconnects, the
\* merchant withdrew (perhaps before it connected anew), or its token ran out.
TokensAreKept ==
    [][/\ \A t \in DOMAIN tokens' \ DOMAIN tokens, b \in Businesses :
             tokens'[t].of = row[b].token => row[b].token = None \/ row[b].age # "fresh"
                                             \/ ~tokens[row[b].token].live
       /\ \A b \in Businesses : Connected(b) /\ row'[b].status \in {"REVOKED", "ERROR"} =>
             \/ row[b].token = None \/ ~tokens[row[b].token].granted
             \/ row[b].age = "expired"
             \/ \E e \in news \ news' : e.merchant = row[b].merchant]_squareVars
=============================================================================
