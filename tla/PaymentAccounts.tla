--------------------------- MODULE PaymentAccounts ---------------------------
(* The Stripe account of a business, and its choice of a payment provider. The
   account is created at Stripe before its id is stored, its capabilities are known
   from what Stripe last said, and Platform Admin replaces one that the platform's
   key no longer reaches. Only the replacement and the choice lock the row. *)
EXTENDS Naturals, FiniteSets

CONSTANTS Workers, MaxAccounts, None

\* provider, account, charges: the row, charges for the capability flags. stripe: the
\* accounts there and what they can do. heard: those that
\* Stripe has said can take payments. history: those detached, kept for audit.
\* deposit: the checkout under way, with the provider and account it was begun with.
\* lost: accounts whose id a dead worker or an overlapping creation lost. stale: a
\* Stripe answer, or a look for checkouts, that the row had moved on from was acted on.
VARIABLES provider, account, charges, stripe, heard, history, deposit, task, lost, stale

accountVars == <<provider, account, charges, stripe, heard, history, deposit, task, lost, stale>>

Account == 1..MaxAccounts
Idle == [op |-> "none"]
\* make: create_connected_account; seen: its new account, None before. ask: Stripe was
\* asked about an account and said what charges says. swap: no checkout was seen.
Task == [op : {"make"}, seen : Account \union {None}]
        \union [op : {"ask"}, seen : Account, charges : BOOLEAN]
        \union [op : {"swap"}, to : {"stripe", "square"}]

Init == /\ provider = "stripe" /\ account = None /\ charges = FALSE
        /\ stripe = <<>> /\ heard = {} /\ history = {}
        /\ deposit = Idle
        /\ task = [w \in Workers |-> Idle]
        /\ lost = {} /\ stale = FALSE

Begin(w, t) == task' = [task EXCEPT ![w] = t]
Done(w) == task' = [task EXCEPT ![w] = Idle]
Reachable(a) == stripe[a] # "unreachable"

-----------------------------------------------------------------------------
\* create_connected_account finds none stored,
Make(w) ==
    /\ task[w] = Idle /\ account = None
    /\ Begin(w, [op |-> "make", seen |-> None])
    /\ UNCHANGED <<heard, provider, account, charges, stripe, history, deposit, lost, stale>>

\* has Stripe create one,
Create(w) ==
    /\ task[w].op = "make" /\ task[w].seen = None
    /\ Cardinality(DOMAIN stripe) < MaxAccounts
    /\ LET a == Cardinality(DOMAIN stripe) + 1 IN
       /\ stripe' = [c \in DOMAIN stripe \union {a} |-> IF c = a THEN "incomplete" ELSE stripe[c]]
       /\ Begin(w, [op |-> "make", seen |-> a])
    /\ UNCHANGED <<heard, provider, account, charges, history, deposit, lost, stale>>

\* and stores its id, over one that another request has stored meanwhile.
Created(w) ==
    /\ task[w].op = "make" /\ task[w].seen # None
    /\ account' = task[w].seen
    /\ lost' = IF account = None THEN lost ELSE lost \union {account}
    /\ Done(w)
    /\ UNCHANGED <<heard, provider, charges, stripe, history, deposit, stale>>

\* The worker dies, or Stripe does not answer.
Die(w) ==
    /\ task[w] # Idle /\ Done(w)
    /\ lost' = IF task[w].op = "make" /\ task[w].seen # None THEN lost \union {task[w].seen} ELSE lost
    /\ UNCHANGED <<heard, provider, account, charges, stripe, history, deposit, stale>>

-----------------------------------------------------------------------------
\* The owner completes the onboarding or Stripe restricts the account, and the
\* platform's key may lose it for good.
StripeDecides(a, state) ==
    /\ Reachable(a) /\ stripe[a] # state
    /\ stripe' = [stripe EXCEPT ![a] = state]
    /\ UNCHANGED <<heard, provider, account, charges, history, deposit, task, lost, stale>>

\* refresh_connect_status, and account.updated: Stripe said what the account can do.
Ask(w) ==
    /\ task[w] = Idle /\ account # None /\ Reachable(account)
    /\ Begin(w, [op |-> "ask", seen |-> account, charges |-> stripe[account] = "charges"])
    /\ UNCHANGED <<heard, provider, account, charges, stripe, history, deposit, lost, stale>>

\* What it said is written, by then perhaps of another account, or out of date.
Answered(w) ==
    /\ task[w].op = "ask"
    /\ charges' = task[w].charges
    /\ stale' = (stale \/ account # task[w].seen)
    /\ Done(w)
    /\ heard' = (IF task[w].charges THEN heard \union {task[w].seen} ELSE heard)
    /\ UNCHANGED <<provider, account, stripe, history, deposit, lost>>

\* An event is for the row that names its account, if there is one.
Notified(w) ==
    /\ task[w].op = "ask"
    /\ charges' = IF account = task[w].seen THEN task[w].charges ELSE charges
    /\ Done(w)
    /\ heard' = (IF task[w].charges THEN heard \union {task[w].seen} ELSE heard)
    /\ UNCHANGED <<provider, account, stripe, history, deposit, lost, stale>>

\* _handle_account_access_error: a call for the account is answered 403.
AccessError ==
    /\ account # None /\ ~Reachable(account)
    /\ charges' = FALSE
    /\ UNCHANGED <<heard, provider, account, stripe, history, deposit, task, lost, stale>>

\* Mutation of Reconnect: the old account's capabilities stay in the row.
ReconnectKeeping(w) ==
    /\ task[w] = Idle /\ account # None /\ ~Reachable(account)
    /\ history' = history \union {account}
    /\ account' = None
    /\ Begin(w, [op |-> "make", seen |-> None])
    /\ UNCHANGED <<heard, provider, charges, stripe, deposit, lost, stale>>

\* reconnect_stripe_account: under the lock Stripe confirms that the account cannot be
\* reached; it is detached and committed, and a new one made like any other.
Reconnect(w) ==
    /\ task[w] = Idle /\ account # None /\ ~Reachable(account)
    /\ history' = history \union {account}
    /\ account' = None /\ charges' = FALSE
    /\ Begin(w, [op |-> "make", seen |-> None])
    /\ UNCHANGED <<heard, provider, stripe, deposit, lost, stale>>

-----------------------------------------------------------------------------
\* A deposit is begun if the business can take one, and remembers with whom.
Checkout ==
    /\ deposit = Idle /\ provider = "stripe" => account # None /\ charges
    /\ deposit' = [op |-> "pay", provider |-> provider,
                   account |-> IF provider = "stripe" THEN account ELSE None]
    /\ stale' = (stale \/ \E w \in Workers : task[w].op = "swap")
    /\ UNCHANGED <<heard, provider, account, charges, stripe, history, task, lost>>

Settle == /\ deposit # Idle /\ deposit' = Idle
          /\ UNCHANGED <<heard, provider, account, charges, stripe, history, task, lost, stale>>

\* Mutation of Swap: nobody looks for customers who are paying.
SwapAnyway(w, p) ==
    /\ task[w] = Idle /\ p # provider
    /\ Begin(w, [op |-> "swap", to |-> p])
    /\ UNCHANGED <<heard, provider, account, charges, stripe, history, deposit, lost, stale>>

\* set_garage_provider: refused while a customer is paying,
Swap(w, p) ==
    /\ task[w] = Idle /\ p # provider /\ deposit = Idle
    /\ Begin(w, [op |-> "swap", to |-> p])
    /\ UNCHANGED <<heard, provider, account, charges, stripe, history, deposit, lost, stale>>

\* else it is written, without another look.
Swapped(w) ==
    /\ task[w].op = "swap"
    /\ provider' = task[w].to
    /\ Done(w)
    /\ UNCHANGED <<heard, account, charges, stripe, history, deposit, lost, stale>>

Next == \/ \E w \in Workers :
              \/ Make(w) \/ Create(w) \/ Created(w) \/ Die(w)
              \/ Ask(w) \/ Answered(w) \/ Notified(w) \/ Reconnect(w) \/ Swapped(w)
              \/ \E p \in {"stripe", "square"} : Swap(w, p)
        \/ \E a \in DOMAIN stripe : \E state \in {"charges", "incomplete", "unreachable"} :
              StripeDecides(a, state)
        \/ AccessError \/ Checkout \/ Settle

Spec == Init /\ [][Next]_accountVars

-----------------------------------------------------------------------------
TypeOK == /\ provider \in {"stripe", "square"} /\ account \in Account \union {None}
          /\ charges \in BOOLEAN /\ DOMAIN stripe \subseteq Account /\ heard \subseteq Account
          /\ history \subseteq Account /\ lost \subseteq Account /\ stale \in BOOLEAN
          /\ task \in [Workers -> {Idle} \union Task]

\* Every account that was ever made for the business is its own, on record, or about
\* to be stored, unless a worker died with its id or two requests made one at once; and
\* a business said to take card payments has an account that Stripe said so of, and a
\* customer who is paying does so with the provider the business uses, unless the row
\* had moved on when an answer of Stripe was written or a customer began to pay.
AccountsAreKept ==
    /\ \A a \in DOMAIN stripe :
          \/ a = account \/ a \in history \union lost
          \/ \E w \in Workers : task[w].op = "make" /\ task[w].seen = a
    /\ stale \/ lost # {} \/ (charges => account \in heard)
    /\ stale \/ deposit = Idle \/ deposit.provider = provider
=============================================================================
