-------------------------- MODULE PublicSubmission --------------------------
(* The public booking page's two submissions, a plain booking and the start of a deposit,
   and the retries that a lost answer or a double click makes of them. A retry is told by
   the attempt id that the browser made up, or, from a browser that sends none, by asking
   for exactly the same thing. The lookup and the insertion share the garage's lock; what
   the service is and whether it takes a deposit were read before it. *)
EXTENDS Naturals, Sequences

CONSTANTS Attempts, Choices, Details, Workers, MaxRequests, Capacity, None

\* requests: the web requests of a business, oldest first; choice: service, add-ons, time
\* and discount code, details: everything else the customer filled in; CLOSED stands for
\* REJECTED and for EXPIRED. deposit: whether
\* the service takes one. task: submissions under way. answer: the answer just given, the
\* submission it is for and the request it is about; broken: it is an error instead, for
\* that request has the same unique attempt id.
VARIABLES requests, deposit, task, answer

submissionVars == <<requests, deposit, task, answer>>

Idle == [flow |-> "none"]
Submission == [flow : {"plain", "deposit"}, attempt : Attempts \union {None},
               choice : Choices, details : Details]
Status == {"AWAITING_PAYMENT", "PENDING", "APPROVED", "CLOSED"}
Holding == {"AWAITING_PAYMENT", "PENDING", "APPROVED"}

Init == /\ requests = <<>> /\ deposit \in BOOLEAN
        /\ task = [w \in Workers |-> Idle]
        /\ answer = None

Room(choice) == Len(SelectSeq(requests, LAMBDA r : r.choice = choice /\ r.status \in Holding)) < Capacity
Done(w) == task' = [task EXCEPT ![w] = Idle]

\* The checks before the lock: the form's flow must be the one the service takes.
Submit(w, t) ==
    /\ task[w] = Idle
    /\ t.flow = "deposit" <=> deposit
    /\ task' = [task EXCEPT ![w] = t]
    /\ answer' = None
    /\ UNCHANGED <<requests, deposit>>

-----------------------------------------------------------------------------
\* Mutation of Prior: only requests that still hold their slot are looked up.
PriorHolding(t) == {i \in DOMAIN requests :
                      /\ t.attempt # None /\ requests[i].attempt = t.attempt
                      /\ requests[i].status \in Holding}

\* The request that this attempt made, whatever has become of it.
Prior(t) == {i \in DOMAIN requests : t.attempt # None /\ requests[i].attempt = t.attempt}

\* Mutation of Same: the attempt id alone tells a retry.
SameAttempt(r, t) == TRUE

\* selection_signature and its company: a retry asks for what its attempt asked for.
Same(r, t) == r.choice = t.choice

\* _matching_active_plain_request: the latest request that waits for review and equals
\* what a browser without attempt ids submits.
Matching(t) == {i \in DOMAIN requests :
                  /\ t.attempt = None
                  /\ requests[i].status = "PENDING"
                  /\ Same(requests[i], t) /\ requests[i].details = t.details}

Answer(i, t) == answer' = [request |-> i, to |-> t, broken |-> FALSE] /\ UNCHANGED requests
Refuse == answer' = None /\ UNCHANGED requests
\* A request with an attempt id that is taken breaks on the unique index instead.
Insert(t, status) ==
    LET taken == {i \in DOMAIN requests : t.attempt # None /\ requests[i].attempt = t.attempt} IN
    IF taken # {}
    THEN /\ \E i \in taken : answer' = [request |-> i, to |-> t, broken |-> TRUE]
         /\ UNCHANGED requests
    ELSE /\ Len(requests) < MaxRequests
         /\ requests' = Append(requests, [flow |-> t.flow, attempt |-> t.attempt, choice |-> t.choice,
                                          details |-> t.details, status |-> status])
         /\ answer' = [request |-> Len(requests) + 1, to |-> t, broken |-> FALSE]

\* BookingRequestSubmit, with the lock.
Plain(w) ==
    /\ task[w].flow = "plain"
    /\ LET t == task[w] IN
       CASE Prior(t) # {} -> \E i \in Prior(t) :
                IF Same(requests[i], t) /\ requests[i].status # "AWAITING_PAYMENT"
                THEN Answer(i, t) ELSE Refuse
         [] Prior(t) = {} /\ Matching(t) # {} ->
                Answer(CHOOSE i \in Matching(t) : \A j \in Matching(t) : j <= i, t)
         [] OTHER -> IF Room(t.choice) THEN Insert(t, "PENDING") ELSE Refuse
    /\ Done(w) /\ UNCHANGED deposit

\* DepositIntentCreate, with the lock: a checkout under way is resumed. The provider may
\* refuse to open one, which rolls everything back.
Deposit(w) ==
    /\ task[w].flow = "deposit"
    /\ LET t == task[w]
           open == {i \in Prior(t) : requests[i].status = "AWAITING_PAYMENT"} IN
       IF open # {}
       THEN \E i \in open : IF Same(requests[i], t) THEN Answer(i, t) \/ Refuse ELSE Refuse
       ELSE \/ IF Room(t.choice) THEN Insert(t, "AWAITING_PAYMENT") ELSE Refuse
            \/ Refuse
    /\ Done(w) /\ UNCHANGED deposit

\* The worker dies before its commit.
Die(w) == task[w] # Idle /\ Done(w) /\ answer' = None /\ UNCHANGED <<requests, deposit>>

-----------------------------------------------------------------------------
\* What becomes of a request: paid, given up (DepositAttemptAbandon) or swept, reviewed.
Becomes(i, from, to) ==
    /\ i \in DOMAIN requests /\ requests[i].status = from
    /\ requests' = [requests EXCEPT ![i].status = to]
    /\ answer' = None
    /\ UNCHANGED <<deposit, task>>

Moves == {<<"AWAITING_PAYMENT", "PENDING">>, <<"AWAITING_PAYMENT", "CLOSED">>,
          <<"PENDING", "APPROVED">>, <<"PENDING", "CLOSED">>}

\* The owner changes whether the service takes a deposit.
Reconfigure == deposit' = ~deposit /\ answer' = None /\ UNCHANGED <<requests, task>>

Next == \/ \E w \in Workers : \/ \E t \in Submission : Submit(w, t)
                              \/ Plain(w) \/ Deposit(w) \/ Die(w)
        \/ \E i \in 1..MaxRequests, m \in Moves : Becomes(i, m[1], m[2])
        \/ Reconfigure

Spec == Init /\ [][Next]_submissionVars

-----------------------------------------------------------------------------
\* However often a submission is repeated, on however many workers at once, it books
\* once: no attempt id has two requests, a plain booking asked for without one does not wait
\* for review twice, and only the retry of a deposit that is no longer waiting
\* for its payment breaks on the attempt id instead of being answered.
RetriesBookOnce ==
    /\ \A i, j \in DOMAIN requests :
         (i # j /\ requests[i].attempt = requests[j].attempt) =>
             /\ requests[i].attempt = None
             /\ ~ /\ {requests[i].status, requests[j].status} = {"PENDING"}
                  /\ {requests[i].flow, requests[j].flow} = {"plain"}
                  /\ requests[i].choice = requests[j].choice
                  /\ requests[i].details = requests[j].details
    /\ (answer # None /\ answer.broken) =>
          /\ answer.to.flow = "deposit"
          /\ requests[answer.request].status # "AWAITING_PAYMENT"

\* Nobody is told of a booking for something that they did not ask for.
AnswersFit ==
    (answer # None /\ ~answer.broken) => LET r == requests[answer.request] IN
        /\ r.choice = answer.to.choice
        /\ IF answer.to.attempt = None THEN r.details = answer.to.details
           ELSE r.attempt = answer.to.attempt
=============================================================================
