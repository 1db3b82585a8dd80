---------------------------- MODULE TenantSetup ----------------------------
(* How businesses and the accounts of their people come to be: onboarding from
   the registration form, the command line and Platform Admin, and the edits of
   owners to their staff. Each request reads what it checks, and writes it in a
   transaction that others may overtake; the addresses of accounts are unique
   in the database. *)
EXTENDS Naturals, Sequences, FiniteSets

\* Emails names the accounts, and the specs of businesses by their owners.
CONSTANTS Emails, Workers, MaxBusinesses, None

\* businesses: the spec that each was made from. accounts: in their order of creation.
\* moved: addresses that an owner gave up. overtaken: businesses two of whose
\* employees were edited at once.
VARIABLES businesses, accounts, request, moved, overtaken

tenantVars == <<businesses, accounts, request, moved, overtaken>>

Business == 1..MaxBusinesses
Account == [email : Emails, business : Business, owner : BOOLEAN, active : BOOLEAN]
\* What a PATCH carries of an employee; None for a field it leaves out.
Change == [owner : BOOLEAN \union {None}, active : BOOLEAN \union {None}, email : Emails \union {None}]

Idle == [op |-> "none"]
\* The form, the script and the console onboard alike.
Onboarding == [op : {"onboard", "preview"}, email : Emails, inserted : BOOLEAN]
Hiring == [op : {"hire"}, email : Emails, inserted : BOOLEAN, business : Business, owner : BOOLEAN]
Editing == [op : {"edit"}, who : 1..Cardinality(Emails), change : Change]

Init == /\ businesses = <<>> /\ accounts = <<>>
        /\ request = [w \in Workers |-> Idle]
        /\ moved = {} /\ overtaken = {}

-----------------------------------------------------------------------------
Taken(e) == \E p \in DOMAIN accounts : accounts[p].email = e

\* The rows of other transactions that the unique index makes one wait for.
Inserting(w, e) == \E v \in Workers \ {w} : request[v].op \in {"onboard", "preview", "hire"}
                                            /\ request[v].inserted /\ request[v].email = e

\* Mutation of ActiveOwners: whether the owners are active is not asked.
AllOwners(b) == {p \in DOMAIN accounts : accounts[p].business = b /\ accounts[p].owner}

\* _active_owner_count.
ActiveOwners(b) ==
    {p \in DOMAIN accounts : accounts[p].business = b /\ accounts[p].owner /\ accounts[p].active}

Answer(w) == request' = [request EXCEPT ![w] = Idle]

-----------------------------------------------------------------------------
\* An onboarding finds no account of the owner: for the script one is a business
\* already onboarded, for the form and the console a refusal, and the preview
\* takes another address for its draft.
Onboard(w, op, e) ==
    /\ request[w] = Idle /\ ~Taken(e)
    /\ request' = [request EXCEPT ![w] = [op |-> op, email |-> e, inserted |-> FALSE]]
    /\ UNCHANGED <<businesses, accounts, moved, overtaken>>

\* An owner adds a login for somebody.
Hire(w, b, e, owner) ==
    /\ request[w] = Idle /\ ActiveOwners(b) # {} /\ ~Taken(e)
    /\ request' = [request EXCEPT ![w] = [op |-> "hire", email |-> e, inserted |-> FALSE,
                                          business |-> b, owner |-> owner]]
    /\ UNCHANGED <<businesses, accounts, moved, overtaken>>

\* Mutation of Insert: the address is not unique in the database.
InsertAnyway(w) ==
    /\ request[w] \in Onboarding \union Hiring /\ ~request[w].inserted
    /\ request' = [request EXCEPT ![w].inserted = TRUE]
    /\ UNCHANGED <<businesses, accounts, moved, overtaken>>

\* The account is flushed; with an account of that address an IntegrityError
\* rolls everything back.
Insert(w) ==
    /\ request[w] \in Onboarding \union Hiring /\ ~request[w].inserted
    /\ ~Inserting(w, request[w].email)
    /\ IF Taken(request[w].email) THEN Answer(w) ELSE request' = [request EXCEPT ![w].inserted = TRUE]
    /\ UNCHANGED <<businesses, accounts, moved, overtaken>>

\* Services, hours, settings and the imported diary were accepted: all is committed.
Found(w) ==
    /\ request[w] \in Onboarding /\ request[w].inserted /\ request[w].op = "onboard"
    /\ Len(businesses) < MaxBusinesses
    /\ businesses' = Append(businesses, request[w].email)
    /\ accounts' = Append(accounts, [email |-> request[w].email, business |-> Len(businesses) + 1,
                                     owner |-> TRUE, active |-> TRUE])
    /\ Answer(w)
    /\ UNCHANGED <<moved, overtaken>>

Hired(w) ==
    /\ request[w] \in Hiring /\ request[w].inserted
    /\ accounts' = Append(accounts, [email |-> request[w].email, business |-> request[w].business,
                                     owner |-> request[w].owner, active |-> TRUE])
    /\ Answer(w)
    /\ UNCHANGED <<businesses, moved, overtaken>>

\* A preview, a row that cannot be imported, or a dead worker: all is rolled back.
RollBack(w) ==
    /\ request[w] # Idle
    /\ Answer(w)
    /\ UNCHANGED <<businesses, accounts, moved, overtaken>>

-----------------------------------------------------------------------------
\* PATCH: neither the role nor the activity of the last active owner is taken
\* away; the role is changed first.
KeepsAnOwner(p, change) ==
    LET a == accounts[p]
        others == ActiveOwners(a.business) \ {p}
        owner == IF change.owner = None THEN a.owner ELSE change.owner
    IN /\ (a.owner /\ ~owner /\ a.active) => others # {}
       /\ (change.active = FALSE /\ a.active /\ owner) => others # {}

\* Only what differs from the row that was read is written.
Differing(a, change) == [change EXCEPT !.owner = IF @ = a.owner THEN None ELSE @,
                                       !.active = IF @ = a.active THEN None ELSE @,
                                       !.email = IF @ = a.email THEN None ELSE @]

Edit(w, p, change) ==
    LET a == accounts[p]
    IN /\ request[w] = Idle /\ ActiveOwners(a.business) # {}
       /\ KeepsAnOwner(p, change)
       /\ change.email \in {None, a.email} \/ ~Taken(change.email)
       /\ request' = [request EXCEPT ![w] = [op |-> "edit", who |-> p, change |-> Differing(a, change)]]
       /\ overtaken' = overtaken \union {b \in {a.business} : \E v \in Workers :
              request[v].op = "edit" /\ accounts[request[v].who].business = b}
       /\ UNCHANGED <<businesses, accounts, moved>>

\* A role that is gone, or there, already, and an address that was taken
\* meanwhile are errors, and nothing is written.
Save(w) ==
    /\ request[w].op = "edit"
    /\ LET a == accounts[request[w].who]
           change == request[w].change
           moves == change.email # None
           saved(field) == IF change[field] = None THEN a[field] ELSE change[field]
       IN /\ moves => ~Inserting(w, change.email)
          /\ IF change.owner = a.owner \/ (moves /\ Taken(change.email)) THEN UNCHANGED <<accounts, moved>>
             ELSE /\ accounts' = [accounts EXCEPT ![request[w].who] =
                        [a EXCEPT !.owner = saved("owner"), !.active = saved("active"),
                                  !.email = saved("email")]]
                  /\ moved' = IF moves THEN moved \union {a.email} ELSE moved
    /\ Answer(w)
    /\ UNCHANGED <<businesses, overtaken>>

Next == \E w \in Workers :
            \/ \E e \in Emails, op \in {"onboard", "preview"} : Onboard(w, op, e)
            \/ \E b \in DOMAIN businesses, e \in Emails, owner \in BOOLEAN : Hire(w, b, e, owner)
            \/ Insert(w) \/ Found(w) \/ Hired(w) \/ RollBack(w) \/ Save(w)
            \/ \E p \in DOMAIN accounts, change \in Change : Edit(w, p, change)

Spec == Init /\ [][Next]_tenantVars

-----------------------------------------------------------------------------
TypeOK == /\ businesses \in Seq(Emails) /\ Len(businesses) <= MaxBusinesses
          /\ accounts \in Seq(Account) /\ moved \subseteq Emails /\ overtaken \subseteq Business
          /\ request \in [Workers -> {Idle} \union Onboarding \union Hiring \union Editing]

\* A spec that is sent again, from the form, the script or the console, or by
\* several of them at once, makes no second business, unless the owner's address
\* was changed in between, by which the first is recognised.
OneBusinessPerSpec ==
    \A e \in Emails \ moved : Cardinality({b \in DOMAIN businesses : businesses[b] = e}) <= 1

\* Whatever owners change of each other and of themselves, each business keeps
\* an owner who can sign in; only two edits at once can take the last one away.
OwnersRemain == \A b \in DOMAIN businesses \ overtaken : ActiveOwners(b) # {}
=============================================================================
