------------------------- MODULE NumberProvisioning -------------------------
(* Phone numbers of the businesses at Twilio. Each business has a subaccount;
   numbers are bought into it, moved to it from the parent account and moved
   back. A press of a button in the console is one job of a worker: it reads
   the business, waits for the row it is about to write, asks Twilio, and commits.
   It may be refused, or die, after any of these. What the console shows of it
   is ChannelSetup's. *)
EXTENDS Naturals, FiniteSets

CONSTANTS Garages, Numbers, Subaccounts, Workers, None

\* account: where Twilio has a number. trunks: the SIP trunks of a subaccount.
\* biz: the committed row of a business. lock: who holds its row.
\* slips: numbers that were recorded while another business was between its
\* check and its move, and subaccounts that a second create replaced.
VARIABLES account, trunks, biz, lock, job, slips

numberVars == <<account, trunks, biz, lock, job, slips>>

Business == [sub : Subaccounts \union {None}, number : Numbers \union {None}, openai : BOOLEAN]
Acquiring == {"buy", "adopt", "transfer"}
\* These flush their status first, which locks the row until they commit.
Locking == Acquiring \union {"openai"}
Idle == [op |-> "none", garage |-> None, sub |-> None, number |-> None, phase |-> "idle"]
Job == [op : Locking \union {"return", "create"}, garage : Garages,
        sub : Subaccounts \union {None}, number : Numbers \union {None},
        phase : {"asked", "locked", "checked", "listed", "done"}] \union {Idle}

\* Some numbers are for sale, the others are CoMaz's already.
Init == /\ account \in [Numbers -> {"market", "parent"}]
        /\ trunks = [s \in Subaccounts |-> 0]
        /\ biz = [g \in Garages |-> [sub |-> None, number |-> None, openai |-> FALSE]]
        /\ lock = [g \in Garages |-> None]
        /\ job = [w \in Workers |-> Idle]
        /\ slips = {}

InUse == {biz[g].sub : g \in Garages} \union {job[w].sub : w \in Workers}
Unlocked(w) == [g \in Garages |-> IF lock[g] = w THEN None ELSE lock[g]]
Goes(w, phase) == job' = [job EXCEPT ![w].phase = phase]
Ends(w) == job' = [job EXCEPT ![w] = Idle] /\ lock' = Unlocked(w)
\* The row is free to be written by w.
Writable(w) == lock[job[w].garage] \in {None, w}

\* claimed_by_other_garage: the others' committed numbers.
ClaimedByOther(g, n) == \E h \in Garages \ {g} : biz[h].number = n

-----------------------------------------------------------------------------
\* The guards of an action, which read the row before it is locked.
Start(w, op, g, n) ==
    /\ job[w] = Idle
    /\ \A v \in Workers : job[v].garage = g => job[v].op = op /\ job[v].number = n
    /\ CASE op \in Acquiring -> biz[g].sub # None /\ biz[g].number = None /\ n # None
         [] op = "return"    -> biz[g].number # None /\ n = biz[g].number
         [] op = "openai"    -> biz[g].number # None /\ ~biz[g].openai /\ n = biz[g].number
         [] op = "create"    -> biz[g].sub = None /\ n = None
    /\ job' = [job EXCEPT ![w] = [op |-> op, garage |-> g, sub |-> biz[g].sub, number |-> n,
                                  phase |-> "asked"]]
    /\ UNCHANGED <<account, trunks, biz, lock, slips>>

\* The flush of NUMBER_PURCHASING, or TRUNK_CREATING.
Lock(w) ==
    /\ job[w].op \in Locking /\ job[w].phase = "asked" /\ lock[job[w].garage] = None
    /\ lock' = [lock EXCEPT ![job[w].garage] = w]
    /\ Goes(w, "locked")
    /\ UNCHANGED <<account, trunks, biz, slips>>

\* buy_number: what an earlier attempt bought is taken, anything else is bought.
Buy(w) ==
    LET n == job[w].number IN
    /\ job[w].op = "buy" /\ job[w].phase = "locked"
    /\ account[n] \in {"market", job[w].sub}
    /\ account' = [account EXCEPT ![n] = job[w].sub]
    /\ Goes(w, "done")
    /\ UNCHANGED <<trunks, biz, lock, slips>>

\* assign_existing_number: looked up in the business's own subaccount.
Adopt(w) ==
    /\ job[w].op = "adopt" /\ job[w].phase = "locked"
    /\ account[job[w].number] = job[w].sub
    /\ Goes(w, "done")
    /\ UNCHANGED <<account, trunks, biz, lock, slips>>

\* Mutation of Check: a number is moved whoever has recorded it.
CheckParentOnly(w) ==
    /\ job[w].op = "transfer" /\ job[w].phase = "locked"
    /\ account[job[w].number] = "parent"
    /\ Goes(w, "checked")
    /\ UNCHANGED <<account, trunks, biz, lock, slips>>

\* transfer_from_parent: it is the parent's, and no other business has it.
Check(w) ==
    /\ job[w].op = "transfer" /\ job[w].phase = "locked"
    /\ account[job[w].number] = "parent" /\ ~ClaimedByOther(job[w].garage, job[w].number)
    /\ Goes(w, "checked")
    /\ UNCHANGED <<account, trunks, biz, lock, slips>>

\* The move itself; Twilio moves only what the parent still owns.
Move(w) ==
    LET n == job[w].number IN
    /\ job[w].phase = "checked" /\ account[n] = "parent"
    /\ account' = [account EXCEPT ![n] = job[w].sub]
    /\ Goes(w, "done")
    /\ UNCHANGED <<trunks, biz, lock, slips>>

\* return_to_parent: moved now, or found back with the parent.
GiveBack(w) ==
    LET n == job[w].number IN
    /\ job[w].op = "return" /\ job[w].phase = "asked"
    /\ account[n] \in {job[w].sub, "parent"}
    /\ account' = [account EXCEPT ![n] = "parent"]
    /\ Goes(w, "done")
    /\ UNCHANGED <<trunks, biz, lock, slips>>

\* create_subaccount at Twilio, which always makes a new one.
CreateSubaccount(w, s) ==
    /\ job[w].op = "create" /\ job[w].phase = "asked" /\ s \notin InUse
    /\ \A n \in Numbers : account[n] # s
    /\ job' = [job EXCEPT ![w].sub = s, ![w].phase = "done"]
    /\ UNCHANGED <<account, trunks, biz, lock, slips>>

\* get_or_create_tenant_trunk: an existing trunk is used again.
ListTrunks(w) ==
    /\ job[w].op = "openai" /\ job[w].phase = "locked"
    /\ Goes(w, IF trunks[job[w].sub] = 0 THEN "listed" ELSE "done")
    /\ UNCHANGED <<account, trunks, biz, lock, slips>>

CreateTrunk(w) ==
    /\ job[w].phase = "listed" /\ trunks[job[w].sub] < 2
    /\ trunks' = [trunks EXCEPT ![job[w].sub] = @ + 1]
    /\ Goes(w, "done")
    /\ UNCHANGED <<account, biz, lock, slips>>

BeingMoved == {job[w].number : w \in {v \in Workers : job[v].phase = "checked"}}

\* Numbers and subaccounts are unique: the commit of a second business fails.
Commit(w) ==
    LET g == job[w].garage IN
    /\ job[w].phase = "done" /\ Writable(w)
    /\ job[w].op \in Acquiring => ~ClaimedByOther(g, job[w].number)
    /\ job[w].op = "create" => \A h \in Garages \ {g} : biz[h].sub # job[w].sub
    /\ biz' = CASE job[w].op \in Acquiring -> [biz EXCEPT ![g].number = job[w].number]
                [] job[w].op = "return" -> [biz EXCEPT ![g].number = None]
                [] job[w].op = "create" -> [biz EXCEPT ![g].sub = job[w].sub]
                [] job[w].op = "openai" -> [biz EXCEPT ![g].openai = TRUE]
    /\ slips' = slips \union CASE job[w].op \in Acquiring -> BeingMoved \intersect {job[w].number}
                               [] job[w].op = "create" -> {biz[g].sub} \ {None}
                               [] OTHER -> {}
    /\ Ends(w)
    /\ UNCHANGED <<account, trunks>>

\* Twilio refuses, the commit fails or the worker dies: what Twilio did stays.
Stop(w) ==
    /\ job[w] # Idle
    /\ Ends(w)
    /\ UNCHANGED <<account, trunks, biz, slips>>

\* adopt_subaccount: one that nobody claims, and none over another.
AttachSubaccount(g, s) ==
    /\ biz[g].sub = None /\ \A w \in Workers : job[w].garage # g
    /\ \A h \in Garages : biz[h].sub # s
    /\ biz' = [biz EXCEPT ![g].sub = s]
    /\ UNCHANGED <<account, trunks, lock, job, slips>>

Next == \/ \E w \in Workers : \/ Lock(w) \/ Buy(w) \/ Adopt(w) \/ Check(w) \/ Move(w) \/ GiveBack(w)
                             \/ ListTrunks(w) \/ CreateTrunk(w) \/ Commit(w) \/ Stop(w)
                             \/ \E s \in Subaccounts : CreateSubaccount(w, s)
                             \/ \E op \in Locking \union {"return", "create"}, g \in Garages,
                                   n \in Numbers \union {None} : Start(w, op, g, n)
        \/ \E g \in Garages, s \in Subaccounts : AttachSubaccount(g, s)

Spec == Init /\ [][Next]_numberVars

-----------------------------------------------------------------------------
TypeOK == /\ account \in [Numbers -> {"market", "parent"} \union Subaccounts]
          /\ trunks \in [Subaccounts -> 0..2]
          /\ biz \in [Garages -> Business] /\ lock \in [Garages -> Workers \union {None}]
          /\ job \in [Workers -> Job] /\ slips \subseteq Numbers \union Subaccounts

\* A call is answered for the business that records its number, so a recorded
\* number is never in the subaccount of another business, whatever was pressed
\* twice, refused or cut short: only the two windows of slips can bring it
\* there. However often it is retried, a business gets one trunk.
NumbersStayApart ==
    /\ \A g, h \in Garages :
           /\ g # h /\ biz[g].number # None
           /\ account[biz[g].number] = biz[h].sub
           => {biz[g].number, biz[h].sub} \cap slips # {}
    /\ \A s \in Subaccounts : trunks[s] <= 1
=============================================================================
