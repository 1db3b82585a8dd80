-------------------------- MODULE ServiceSettings ---------------------------
(* How one service is priced and whether it takes a deposit. The owner changes any of it
   with partial requests: each is merged into the row as it was loaded, the result is
   checked, and only what differs from the loaded row is written, without a lock.
   Platform Admin corrects the price of the same row, and checks nothing. *)
EXTENDS Naturals

CONSTANTS Workers, MaxAmount, None

\* row: GarageAppointmentType; 0 for an amount that is not set; the value of a deposit is
\* an amount, or the percentage it stands for. task: requests under way, with the columns
\* they write, and whether another request has changed the row since it was loaded. loose:
\* the last change was such a late one, or Platform Admin's.
VARIABLES row, task, loose

settingVars == <<row, task, loose>>

Amount == 0..MaxAmount
Kinds == {"FIXED", "PERCENTAGE"}
Service == [required : BOOLEAN, kind : Kinds \union {"none"}, value : Amount, price : Amount]

\* validate_deposit_config.
Valid(s) == s.required => /\ s.kind # "none" /\ s.value > 0
                          /\ s.kind = "PERCENTAGE" => s.price > 0
                          /\ s.kind = "FIXED" => s.price = 0 \/ s.value <= s.price

\* Off means off: no kind or value of a deposit is kept without one.
Off(s) == IF s.required THEN s ELSE [s EXCEPT !.kind = "none", !.value = 0]

\* AppointmentTypeList.post
Init == /\ row \in {Off(s) : s \in {t \in Service : Valid(t)}}
        /\ task = [w \in Workers |-> None] /\ loose = FALSE

-----------------------------------------------------------------------------
Patch == [price : Amount] \union [value : Amount] \union [kind : Kinds] \union [required : BOOLEAN]
         \union [required : {TRUE}, kind : Kinds, value : Amount] \union [value : Amount, price : Amount]

\* The partial request on top of the loaded row, and the columns that it changes.
Merged(patch) == Off([c \in DOMAIN row |-> IF c \in DOMAIN patch THEN patch[c] ELSE row[c]])
Changes(new) == [c \in {c \in DOMAIN row : new[c] # row[c]} |-> new[c]]

\* Mutation of Checked: a request for another price alone is not checked.
CheckedDeposit(patch) == DOMAIN patch = {"price"} \/ Valid(Merged(patch))

Checked(patch) == Valid(Merged(patch))

\* AppointmentTypeResource.patch loads, merges and checks,
Edit(w, patch) ==
    /\ task[w] = None
    /\ Checked(patch) /\ Merged(patch) # row
    /\ task' = [task EXCEPT ![w] = [writes |-> Changes(Merged(patch)), late |-> FALSE, admin |-> FALSE]]
    /\ UNCHANGED <<row, loose>>

\* update_service does not,
Correct(w, price) ==
    /\ task[w] = None /\ price # row.price
    /\ task' = [task EXCEPT ![w] = [writes |-> [price |-> price], late |-> FALSE, admin |-> TRUE]]
    /\ UNCHANGED <<row, loose>>

\* and each commits.
Commit(w) ==
    /\ task[w] # None
    /\ LET t == task[w] IN
       /\ row' = [c \in DOMAIN row |-> IF c \in DOMAIN t.writes THEN t.writes[c] ELSE row[c]]
       /\ loose' = (t.late \/ t.admin)
       /\ task' = [v \in Workers |-> IF v = w THEN None
                                     ELSE IF task[v] = None \/ row' = row THEN task[v]
                                     ELSE [task[v] EXCEPT !.late = TRUE]]

\* The worker dies before the commit.
Die(w) == task[w] # None /\ task' = [task EXCEPT ![w] = None] /\ UNCHANGED <<row, loose>>

Next == \E w \in Workers : \/ \E patch \in Patch : Edit(w, patch)
                           \/ \E price \in Amount : Correct(w, price)
                           \/ Commit(w) \/ Die(w)

Spec == Init /\ [][Next]_settingVars

-----------------------------------------------------------------------------
\* payments/service.py takes it for granted that a service which asks for a deposit has
\* one that can be worked out: it does, through any sequence of partial requests, unless
\* the last of them overlapped another or was Platform Admin's.
DepositIsChargeable == loose \/ Valid(row)
=============================================================================
