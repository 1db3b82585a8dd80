------------------------ MODULE OnlineBooking_proofs ------------------------
(* Booking online, for every value of the constants: deposits that can be charged, retries,
   agreements, the vehicle questions and the calendar. Each component in focus keeps an
   inductive invariant of its own. *)
EXTENDS MCOnlineBooking, OrderLemmas, SequenceTheorems, TLAPS

-----------------------------------------------------------------------------
\* What the service's row becomes when writes are committed to it.
Patched(writes) == [c \in DOMAIN row |-> IF c \in DOMAIN writes THEN writes[c] ELSE row[c]]

\* A request that was checked, and that nobody has overtaken, still leads to what was checked.
CheckedStands ==
    \A w \in Workers : change[w] # None /\ ~change[w].late /\ ~change[w].admin
                           => Service!Valid(Patched(change[w].writes))

\* A request under way is a record of what it writes and how it came about.
Request(t) == t = [writes |-> t.writes, late |-> t.late, admin |-> t.admin]

ServiceInv == /\ DOMAIN change = Workers
              /\ \A w \in Workers : change[w] # None => Request(change[w])
              /\ Service!DepositIsChargeable
              /\ CheckedStands

\* Turning the deposit off leaves a service that asks for none.
LEMMA OffIsValid == ASSUME NEW s, s.required \in BOOLEAN, Service!Valid(s) PROVE Service!Valid(Service!Off(s))
  BY DEF Service!Off, Service!Valid

\* Writing the columns that differ from the row gives the merged row.
LEMMA ChangesMakeIt ==
    ASSUME NEW new, DOMAIN new = DOMAIN row, new = [c \in DOMAIN new |-> new[c]]
    PROVE  Patched(Service!Changes(new)) = new
  BY DEF Patched, Service!Changes

\* The merged row has the columns of the row.
LEMMA MergedIsRow ==
    ASSUME NEW patch
    PROVE  /\ DOMAIN Service!Merged(patch) = DOMAIN row
           /\ Service!Merged(patch) = [c \in DOMAIN Service!Merged(patch) |-> Service!Merged(patch)[c]]
  BY DEF Service!Merged, Service!Off

LEMMA ServiceInitOK == Service!Init => ServiceInv
<1> SUFFICES ASSUME Service!Init PROVE ServiceInv
  OBVIOUS
<1>1. PICK s \in Service!Service : Service!Valid(s) /\ row = Service!Off(s)
  BY DEF Service!Init
<1>2. Service!Valid(row)
  BY <1>1, OffIsValid DEF Service!Service
<1> QED
  BY <1>2 DEF Service!Init, ServiceInv, Service!DepositIsChargeable, CheckedStands

\* A request starts with what it was checked for.
LEMMA EditKeeps ==
    ASSUME ServiceInv, NEW w \in Workers, NEW patch, Service!Edit(w, patch) PROVE ServiceInv'
<1> DEFINE new == Service!Merged(patch)
           t == [writes |-> Service!Changes(new), late |-> FALSE, admin |-> FALSE]
<1>1. /\ row' = row /\ loose' = loose /\ change' = [change EXCEPT ![w] = t]
      /\ Service!Valid(new) /\ DOMAIN change = Workers
  BY DEF Service!Edit, Service!Checked, ServiceInv
<1>2. Patched(t.writes) = new
  <2>1. t.writes = Service!Changes(new)
    OBVIOUS
  <2> QED
    BY <2>1, MergedIsRow, ChangesMakeIt
<1>3. CheckedStands'
  <2> SUFFICES ASSUME NEW v \in Workers, change'[v] # None, ~change'[v].late, ~change'[v].admin
               PROVE  Service!Valid(Patched(change'[v].writes))
    BY <1>1 DEF CheckedStands, Patched, Service!Valid
  <2>1. CASE v = w
    <3>1. change'[v] = t
      BY <1>1, <2>1
    <3> QED
      BY <3>1, <1>1, <1>2
  <2>2. CASE v # w
    <3>1. change'[v] = change[v]
      BY <1>1, <2>2
    <3> QED
      BY <3>1 DEF ServiceInv, CheckedStands
  <2> QED
    BY <2>1, <2>2
<1>4. \A v \in Workers : change'[v] # None => Request(change'[v])
  BY <1>1 DEF ServiceInv, Request
<1> QED
  BY <1>1, <1>3, <1>4 DEF ServiceInv, Service!DepositIsChargeable, Service!Valid
\* A correction is nobody's checked request.
LEMMA CorrectKeeps == ASSUME ServiceInv, NEW w \in Workers, NEW p, Service!Correct(w, p) PROVE ServiceInv'
<1> DEFINE t == [writes |-> [price |-> p], late |-> FALSE, admin |-> TRUE]
<1>1. /\ row' = row /\ loose' = loose /\ change' = [change EXCEPT ![w] = t] /\ DOMAIN change = Workers
  BY DEF Service!Correct, ServiceInv
<1>2. CheckedStands'
  <2> SUFFICES ASSUME NEW v \in Workers, change'[v] # None, ~change'[v].late, ~change'[v].admin
               PROVE  Service!Valid(Patched(change'[v].writes))
    BY <1>1 DEF CheckedStands, Patched, Service!Valid
  <2>1. v # w
    <3> SUFFICES ASSUME v = w PROVE FALSE
      OBVIOUS
    <3>1. change'[v] = t
      BY <1>1
    <3> QED
      BY <3>1
  <2>2. change'[v] = change[v]
    BY <1>1, <2>1
  <2> QED
    BY <2>2 DEF ServiceInv, CheckedStands
<1>3. \A v \in Workers : change'[v] # None => Request(change'[v])
  BY <1>1 DEF ServiceInv, Request
<1> QED
  BY <1>1, <1>2, <1>3 DEF ServiceInv, Service!DepositIsChargeable, Service!Valid

\* Whoever commits makes the others late, unless the row stays what it was.
LEMMA CommitKeeps == ASSUME ServiceInv, NEW w \in Workers, Service!Commit(w) PROVE ServiceInv'
<1>1. /\ change[w] # None /\ row' = Patched(change[w].writes) /\ loose' = (change[w].late \/ change[w].admin)
      /\ change' = [v \in Workers |-> IF v = w THEN None
                                    ELSE IF change[v] = None \/ row' = row THEN change[v]
                                    ELSE [change[v] EXCEPT !.late = TRUE]]
  BY DEF Service!Commit, Patched
<1>2. Service!DepositIsChargeable'
  BY <1>1 DEF ServiceInv, CheckedStands, Service!DepositIsChargeable, Service!Valid
<1>3. ASSUME NEW v \in Workers, change'[v] # None
      PROVE  Request(change'[v]) /\ (~change'[v].late => row' = row /\ change'[v] = change[v])
  <2>1. Request(change[v])
    BY <1>1, <1>3 DEF ServiceInv
  <2>2. CASE row' = row
    BY <1>1, <1>3, <2>1, <2>2
  <2>3. CASE row' # row
    <3>1. change'[v] = [change[v] EXCEPT !.late = TRUE]
      BY <1>1, <1>3, <2>3
    <3>2. change'[v] = [writes |-> change[v].writes, late |-> TRUE, admin |-> change[v].admin]
      BY <2>1, <3>1 DEF Request
    <3> QED
      BY <3>2 DEF Request
  <2> QED
    BY <2>2, <2>3
<1>4. CheckedStands'
  BY <1>3 DEF ServiceInv, CheckedStands, Patched, Service!Valid
<1> QED
  BY <1>1, <1>2, <1>3, <1>4 DEF ServiceInv

LEMMA ServiceDieKeeps == ASSUME ServiceInv, NEW w \in Workers, Service!Die(w) PROVE ServiceInv'
  BY DEF Service!Die, ServiceInv, Service!DepositIsChargeable, CheckedStands, Patched, Service!Valid

LEMMA ServiceStutterKeeps == ASSUME ServiceInv, UNCHANGED Service!settingVars PROVE ServiceInv'
  BY DEF Service!settingVars, ServiceInv, Service!DepositIsChargeable, CheckedStands, Patched, Service!Valid

LEMMA ServiceStepOK == ServiceInv /\ [Service!Next]_Service!settingVars => ServiceInv'
  BY EditKeeps, CorrectKeeps, CommitKeeps, ServiceDieKeeps, ServiceStutterKeeps DEF Service!Next

\* A service that asks for a deposit has one that can be worked out, for any number of
\* requests that overlap, unless the last change came late or was Platform Admin's.
THEOREM DepositStaysChargeable == Spec => []DepositIsChargeable
<1> DEFINE Inv == focus = "service" => ServiceInv
<1>1. Init => Inv
  BY ServiceInitOK DEF Init
<1>2. Inv /\ [Next]_vars => Inv'
  <2> SUFFICES ASSUME Inv, [Next]_vars, focus' = "service" PROVE ServiceInv'
    OBVIOUS
  <2> focus = "service" /\ [Service!Next]_(Service!settingVars)
    BY DEF Next, vars, catalogueVars, serviceVars, Service!settingVars, CalendarStep, ServiceStep,
           PricingStep, FormStep, TermsStep, SubmissionStep
  <2> QED
    BY ServiceStepOK
<1>3. Inv => DepositIsChargeable
  BY DEF ServiceInv, DepositIsChargeable
<1> QED
  BY <1>1, <1>2, <1>3, PTL DEF Spec

-----------------------------------------------------------------------------
\* A web request of the business, as it is stored.
WebRequest == [flow : {"plain", "deposit"}, attempt : Attempts \union {None}, choice : Choices,
               details : Details, status : Submission!Status]
Answered == [request : Nat, to : Submission!Submission, broken : BOOLEAN]

\* Requests that are told apart by nothing: the retry of one would have made the other.
Doubled(p, q) == /\ p.attempt = q.attempt
                 /\ \/ p.attempt # None
                    \/ /\ p.status = "PENDING" /\ q.status = "PENDING"
                       /\ p.flow = "plain" /\ q.flow = "plain"
                       /\ p.choice = q.choice /\ p.details = q.details

\* Only a deposit waits for a payment: what a plain booking was asked for never becomes
\* PENDING a second time.
SubmissionInv ==
    /\ requests \in Seq(WebRequest)
    /\ attempt \in [Workers -> {Submission!Idle} \union Submission!Submission]
    /\ \A i \in DOMAIN requests : requests[i].flow = "plain" => requests[i].status # "AWAITING_PAYMENT"
    /\ \A i, j \in DOMAIN requests : i # j => ~Doubled(requests[i], requests[j])
    /\ answer # None => /\ answer \in Answered /\ answer.request \in DOMAIN requests
                        /\ answer.broken =>
                              /\ answer.to.flow = "deposit"
                              /\ requests[answer.request].status # "AWAITING_PAYMENT"
    /\ Submission!AnswersFit

LEMMA RetriesFollow == SubmissionInv => Submission!RetriesBookOnce /\ Submission!AnswersFit
<1> SUFFICES ASSUME SubmissionInv PROVE Submission!RetriesBookOnce
  BY DEF SubmissionInv
<1>1. ASSUME NEW i \in DOMAIN requests, NEW j \in DOMAIN requests, i # j,
             requests[i].attempt = requests[j].attempt
      PROVE  /\ requests[i].attempt = None
             /\ ~ /\ {requests[i].status, requests[j].status} = {"PENDING"}
                  /\ {requests[i].flow, requests[j].flow} = {"plain"}
                  /\ requests[i].choice = requests[j].choice
                  /\ requests[i].details = requests[j].details
  <2>1. ~Doubled(requests[i], requests[j])
    BY <1>1 DEF SubmissionInv
  <2>2. \A x, y, z : {x, y} = {z} => x = z /\ y = z
    OBVIOUS
  <2> QED
    BY <1>1, <2>1, <2>2 DEF Doubled
<1> QED
  BY <1>1 DEF SubmissionInv, Submission!RetriesBookOnce

LEMMA SubmissionInitOK == Submission!Init => SubmissionInv
  BY EmptySeq DEF Submission!Init, SubmissionInv, Submission!AnswersFit

\* Nothing is written, and what is answered, if anything, fits.
LEMMA SubmissionQuiet ==
    ASSUME SubmissionInv, UNCHANGED requests, answer' = None,
           attempt' \in [Workers -> {Submission!Idle} \union Submission!Submission]
    PROVE  SubmissionInv'
  BY DEF SubmissionInv, Submission!AnswersFit, Answered

LEMMA SubmitKeeps ==
    ASSUME SubmissionInv, NEW w \in Workers, NEW t \in Submission!Submission, Submission!Submit(w, t)
    PROVE  SubmissionInv'
<1>1. attempt' \in [Workers -> {Submission!Idle} \union Submission!Submission]
  BY DEF Submission!Submit, SubmissionInv
<1> QED
  BY <1>1, SubmissionQuiet DEF Submission!Submit

LEMMA DieKeepsRetries ==
    ASSUME SubmissionInv, NEW w \in Workers, Submission!Die(w) PROVE SubmissionInv'
<1>1. attempt' \in [Workers -> {Submission!Idle} \union Submission!Submission]
  BY DEF Submission!Die, Submission!Done, SubmissionInv
<1> QED
  BY <1>1, SubmissionQuiet DEF Submission!Die

LEMMA ReconfigureKeeps == ASSUME SubmissionInv, Submission!Reconfigure PROVE SubmissionInv'
  BY SubmissionQuiet DEF Submission!Reconfigure, SubmissionInv

\* A deposit becomes PENDING; what is doubled stays told apart by its flow.
LEMMA BecomesKeeps ==
    ASSUME SubmissionInv, NEW i, NEW m \in Submission!Moves, Submission!Becomes(i, m[1], m[2])
    PROVE  SubmissionInv'
<1> DEFINE r == requests[i]
           new == [r EXCEPT !.status = m[2]]
<1>1. /\ m[1] \in {"AWAITING_PAYMENT", "PENDING"} /\ m[2] \in {"PENDING", "CLOSED", "APPROVED"}
      /\ m[2] = "PENDING" => m[1] = "AWAITING_PAYMENT"
  BY DEF Submission!Moves
<1>2. /\ i \in DOMAIN requests /\ r.status = m[1] /\ requests' = [requests EXCEPT ![i] = new]
      /\ answer' = None /\ attempt' = attempt
  BY DEF Submission!Becomes
<1>3. i \in 1..Len(requests) /\ requests \in Seq(WebRequest) /\ r \in WebRequest
  BY <1>2, ElementOfSeq, LenProperties DEF SubmissionInv
<1>4. /\ new \in WebRequest /\ new.status = m[2]
      /\ new.flow = r.flow /\ new.attempt = r.attempt /\ new.choice = r.choice /\ new.details = r.details
  BY <1>1, <1>3 DEF WebRequest, Submission!Status
<1> HIDE DEF new
<1>5. /\ requests' \in Seq(WebRequest) /\ DOMAIN requests' = DOMAIN requests
      /\ \A j \in DOMAIN requests : requests'[j] = IF j = i THEN new ELSE requests[j]
  BY <1>2, <1>3, <1>4, ExceptSeq, LenProperties
<1>6. \A j \in DOMAIN requests' : requests'[j].flow = "plain" => requests'[j].status # "AWAITING_PAYMENT"
  BY <1>1, <1>4, <1>5 DEF SubmissionInv
<1>7. ASSUME NEW j \in DOMAIN requests, NEW k \in DOMAIN requests, j # k
      PROVE  ~Doubled(requests'[j], requests'[k])
  <2>1. ~Doubled(requests[j], requests[k])
    BY <1>7 DEF SubmissionInv
  <2>2. new.status = "PENDING" => r.flow # "plain"
    BY <1>1, <1>2, <1>4 DEF SubmissionInv
  <2>3. CASE j # i /\ k # i
    BY <2>1, <2>3, <1>5
  <2>4. CASE j = i
    BY <2>1, <2>2, <2>4, <1>4, <1>5, <1>7 DEF Doubled
  <2>5. CASE k = i
    BY <2>1, <2>2, <2>5, <1>4, <1>5, <1>7 DEF Doubled
  <2> QED
    BY <2>3, <2>4, <2>5
<1> QED
  BY <1>2, <1>5, <1>6, <1>7 DEF SubmissionInv, Submission!AnswersFit
\* A request is stored that no other one doubles, and its own customer is told so.
LEMMA StoredKeeps ==
    ASSUME SubmissionInv, NEW t \in Submission!Submission,
           NEW status \in {"PENDING", "AWAITING_PAYMENT"},
           status = "AWAITING_PAYMENT" <=> t.flow = "deposit",
           Submission!Matching(t) = {} \/ status # "PENDING",
           Submission!Insert(t, status),
           \A i \in Submission!Prior(t) : t.flow = "deposit" /\ requests[i].status # "AWAITING_PAYMENT",
           attempt' \in [Workers -> {Submission!Idle} \union Submission!Submission]
    PROVE  SubmissionInv'
<1>0. Submission!Prior(t) = {i \in DOMAIN requests : t.attempt # None /\ requests[i].attempt = t.attempt}
  BY DEF Submission!Prior
<1>s. requests \in Seq(WebRequest) /\ DOMAIN requests = 1..Len(requests) /\ Len(requests) \in Nat
  BY LenProperties DEF SubmissionInv
<1>1. CASE Submission!Prior(t) # {}
  <2>1. PICK i \in Submission!Prior(t) : answer' = [request |-> i, to |-> t, broken |-> TRUE]
    BY <1>0, <1>1 DEF Submission!Insert
  <2>2. requests' = requests
    BY <1>0, <1>1 DEF Submission!Insert
  <2>3. answer' \in Answered /\ answer'.request \in DOMAIN requests
    BY <1>0, <1>s, <2>1 DEF Answered
  <2> QED
    BY <1>0, <2>1, <2>2, <2>3 DEF SubmissionInv, Submission!AnswersFit
<1>2. CASE Submission!Prior(t) = {}
  <2> DEFINE new == [flow |-> t.flow, attempt |-> t.attempt, choice |-> t.choice,
                     details |-> t.details, status |-> status]
             n == Len(requests) + 1
  <2>1. /\ requests' = Append(requests, new)
        /\ answer' = [request |-> n, to |-> t, broken |-> FALSE]
    BY <1>0, <1>2 DEF Submission!Insert
  <2>2. new \in WebRequest
    BY DEF WebRequest, Submission!Submission, Submission!Status
  <2>3. /\ new.flow = t.flow /\ new.attempt = t.attempt /\ new.choice = t.choice
        /\ new.details = t.details /\ new.status = status
    OBVIOUS
  <2> HIDE DEF new
  <2>4. /\ requests' \in Seq(WebRequest) /\ DOMAIN requests' = 1..n
        /\ \A j \in DOMAIN requests : requests'[j] = requests[j]
        /\ requests'[n] = new
    BY <1>s, <2>1, <2>2, AppendProperties, LenProperties
  <2>5. \A j \in DOMAIN requests' : j = n \/ j \in DOMAIN requests
    BY <1>s, <2>4
  <2>6. \A j \in DOMAIN requests : ~Doubled(requests[j], new) /\ ~Doubled(new, requests[j])
    <3> TAKE j \in DOMAIN requests
    <3>1. CASE t.attempt # None
      BY <1>0, <1>2, <2>3, <3>1 DEF Doubled
    <3>2. CASE t.attempt = None /\ status # "PENDING"
      BY <2>3, <3>2 DEF Doubled
    <3>3. CASE t.attempt = None /\ status = "PENDING"
      <4>1. j \notin Submission!Matching(t)
        BY <3>3
      <4> QED
        BY <2>3, <3>3, <4>1 DEF Submission!Matching, Submission!Same, Doubled
    <3> QED
      BY <3>1, <3>2, <3>3
  <2>7. \A j, k \in DOMAIN requests' : j # k => ~Doubled(requests'[j], requests'[k])
    BY <2>4, <2>5, <2>6 DEF SubmissionInv
  <2>8. \A j \in DOMAIN requests' : requests'[j].flow = "plain" => requests'[j].status # "AWAITING_PAYMENT"
    BY <2>3, <2>4, <2>5 DEF SubmissionInv, Submission!Submission
  <2>9. answer' \in Answered /\ answer'.request \in DOMAIN requests'
    BY <1>s, <2>1, <2>4 DEF Answered
  <2>10. Submission!AnswersFit'
    BY <2>1, <2>3, <2>4 DEF Submission!AnswersFit
  <2> QED
    BY <2>1, <2>4, <2>7, <2>8, <2>9, <2>10 DEF SubmissionInv
<1> QED
  BY <1>1, <1>2

\* A request that is there already is named to who asks for it.
LEMMA NamedKeeps ==
    ASSUME SubmissionInv, NEW t \in Submission!Submission, NEW i \in DOMAIN requests,
           Submission!Answer(i, t), requests[i].choice = t.choice,
           IF t.attempt = None THEN requests[i].details = t.details ELSE requests[i].attempt = t.attempt,
           attempt' \in [Workers -> {Submission!Idle} \union Submission!Submission]
    PROVE  SubmissionInv'
<1>1. answer' \in Answered /\ answer'.request \in DOMAIN requests'
  BY LenProperties DEF SubmissionInv, Submission!Answer, Answered
<1> QED
  BY <1>1 DEF SubmissionInv, Submission!Answer, Submission!AnswersFit

LEMMA RefuseKeeps ==
    ASSUME SubmissionInv, Submission!Refuse,
           attempt' \in [Workers -> {Submission!Idle} \union Submission!Submission]
    PROVE  SubmissionInv'
  BY SubmissionQuiet DEF Submission!Refuse

LEMMA PlainKeeps == ASSUME SubmissionInv, NEW w \in Workers, Submission!Plain(w) PROVE SubmissionInv'
<1> DEFINE t == attempt[w]
<1>1. t \in Submission!Submission /\ t.flow = "plain"
  BY DEF SubmissionInv, Submission!Plain, Submission!Idle
<1>2. attempt' \in [Workers -> {Submission!Idle} \union Submission!Submission]
  BY DEF SubmissionInv, Submission!Plain, Submission!Done
<1>3. CASE Submission!Prior(t) # {}
  <2>1. PICK i \in Submission!Prior(t) :
            IF Submission!Same(requests[i], t) /\ requests[i].status # "AWAITING_PAYMENT"
            THEN Submission!Answer(i, t) ELSE Submission!Refuse
    BY <1>3 DEF Submission!Plain
  <2> QED
    BY <1>1, <1>2, <2>1, NamedKeeps, RefuseKeeps DEF Submission!Prior, Submission!Same
<1>4. CASE Submission!Prior(t) = {} /\ Submission!Matching(t) # {}
  <2> DEFINE i == CHOOSE i \in Submission!Matching(t) : \A j \in Submission!Matching(t) : j <= i
  <2>1. Submission!Answer(i, t)
    BY <1>4 DEF Submission!Plain
  <2>2. Submission!Matching(t) \subseteq 0..Len(requests) /\ Len(requests) \in Nat
    BY LenProperties DEF SubmissionInv, Submission!Matching
  <2>3. i \in Submission!Matching(t)
    BY <1>4, <2>2, GreatestBelow
  <2> HIDE DEF i
  <2> QED
    BY <1>1, <1>2, <2>1, <2>3, NamedKeeps DEF Submission!Matching, Submission!Same
<1>5. CASE Submission!Prior(t) = {} /\ Submission!Matching(t) = {}
  <2>1. Submission!Insert(t, "PENDING") \/ Submission!Refuse
    BY <1>5 DEF Submission!Plain
  <2> QED
    BY <1>1, <1>2, <1>5, <2>1, StoredKeeps, RefuseKeeps
<1> QED
  BY <1>3, <1>4, <1>5

LEMMA DepositKeeps == ASSUME SubmissionInv, NEW w \in Workers, Submission!Deposit(w) PROVE SubmissionInv'
<1> DEFINE t == attempt[w]
           open == {i \in Submission!Prior(t) : requests[i].status = "AWAITING_PAYMENT"}
<1>1. t \in Submission!Submission /\ t.flow = "deposit"
  BY DEF SubmissionInv, Submission!Deposit, Submission!Idle
<1>2. attempt' \in [Workers -> {Submission!Idle} \union Submission!Submission]
  BY DEF SubmissionInv, Submission!Deposit, Submission!Done
<1>3. CASE open # {}
  <2>1. PICK i \in open : \/ Submission!Same(requests[i], t) /\ Submission!Answer(i, t)
                          \/ Submission!Refuse
    BY <1>3 DEF Submission!Deposit
  <2> QED
    BY <1>1, <1>2, <2>1, NamedKeeps, RefuseKeeps DEF Submission!Prior, Submission!Same
<1>4. CASE open = {}
  <2>1. Submission!Insert(t, "AWAITING_PAYMENT") \/ Submission!Refuse
    BY <1>4 DEF Submission!Deposit
  <2>2. \A i \in Submission!Prior(t) : requests[i].status # "AWAITING_PAYMENT"
    BY <1>4
  <2> QED
    BY <1>1, <1>2, <2>1, <2>2, StoredKeeps, RefuseKeeps
<1> QED
  BY <1>3, <1>4

LEMMA SubmissionStepOK == SubmissionInv /\ [Submission!Next]_(Submission!submissionVars) => SubmissionInv'
<1> SUFFICES ASSUME SubmissionInv, [Submission!Next]_(Submission!submissionVars) PROVE SubmissionInv'
  OBVIOUS
<1>1. CASE UNCHANGED Submission!submissionVars
  BY <1>1 DEF Submission!submissionVars, SubmissionInv, Submission!AnswersFit
<1>2. CASE Submission!Next
  BY <1>2, SubmitKeeps, PlainKeeps, DepositKeeps, DieKeepsRetries, BecomesKeeps, ReconfigureKeeps
     DEF Submission!Next
<1> QED
  BY <1>1, <1>2

\* However often a submission is repeated, on any number of workers, it books once and is
\* answered with its own booking.
THEOREM RetriesStaySafe == Spec => []RetriesAreSafe
<1> DEFINE Inv == focus = "submission" => SubmissionInv
<1>1. Init => Inv
  BY SubmissionInitOK DEF Init
<1>2. Inv /\ [Next]_vars => Inv'
  <2> SUFFICES ASSUME Inv, [Next]_vars, focus' = "submission" PROVE SubmissionInv'
    OBVIOUS
  <2> focus = "submission" /\ [Submission!Next]_(Submission!submissionVars)
    BY DEF Next, vars, customerVars, submissionVars, Submission!submissionVars, CalendarStep, ServiceStep,
           PricingStep, FormStep, TermsStep, SubmissionStep
  <2> QED
    BY SubmissionStepOK
<1>3. Inv => RetriesAreSafe
  BY RetriesFollow DEF RetriesAreSafe
<1> QED
  BY <1>1, <1>2, <1>3, PTL DEF Spec

-----------------------------------------------------------------------------
\* A garage row that has terms has the words of the version it names; what a page shows has
\* a version only with its words.
Worded(garage, texts) == Terms!HasTerms(garage) => /\ garage.version <= Len(texts)
                                                   /\ texts[garage.version] = garage.text
Shows(garage, texts) == Worded(garage, texts) /\ (garage.version # 0 => Terms!HasTerms(garage))

\* As long as no save crossed another, every copy of the terms that may still be agreed to
\* has the words of its version.
WordsStand ==
    /\ Worded(terms, bodies)
    /\ page # None => Shows(page, bodies)
    /\ \A w \in Workers : tap[w].op = "accept" => Shows(tap[w].page, bodies)
    /\ booking.version # 0 => booking.version <= Len(bodies) /\ bodies[booking.version] = agreed

\* As long as no decision overtook another, a booking that waits for its customer has led to
\* nothing yet, and afterwards to one thing.
DecidedOnce ==
    /\ appointments = (IF booking.status = "APPROVED" THEN 1 ELSE 0)
    /\ received + holds <= 1
    /\ booking.status = "AWAITING_TERMS" => received = 0 /\ holds = 0

TermsInv == /\ Terms!TypeOK
            /\ \A w \in Workers : tap[w].op = "approve" => tap[w].row.status = "PENDING"
            /\ crossed \/ WordsStand
            /\ overtaken \/ DecidedOnce

LEMMA TermsFollow == TermsInv => Terms!TypeOK /\ Terms!AgreedToWhatWasShown /\ Terms!LinkIsUsedOnce
  BY DEF TermsInv, Terms!TypeOK, WordsStand, DecidedOnce, Worded, Terms!AgreedToWhatWasShown,
         Terms!LinkIsUsedOnce

LEMMA TermsInitOK == Terms!Init => TermsInv
<1> SUFFICES ASSUME Terms!Init PROVE TermsInv
  OBVIOUS
<1>1. PICK text \in Wordings : bodies = <<text>> /\ terms = [text |-> text, version |-> 1]
  BY DEF Terms!Init
<1>2. Terms!TypeOK
  <2>1. bodies \in Seq(Wordings) /\ Len(bodies) <= MaxVersions
    BY <1>1, VersionsAssumption
  <2>2. terms \in Terms!Terms /\ booking \in Terms!Booking
    BY <1>1, VersionsAssumption
       DEF Terms!Init, Terms!Terms, Terms!Text, Terms!Version, Terms!Booking, Terms!Status
  <2>3. tap \in [Workers -> Terms!Task \union {Terms!Idle}]
    BY DEF Terms!Init
  <2>4. /\ {lapsed, deposit, auto, crossed, overtaken} \subseteq BOOLEAN
        /\ page = None /\ agreed \in Terms!Text /\ appointments = 0 /\ received = 0 /\ holds = 0
    BY DEF Terms!Init, Terms!Text
  <2> QED
    BY <2>1, <2>2, <2>3, <2>4 DEF Terms!TypeOK
<1>3. WordsStand /\ DecidedOnce
  BY <1>1 DEF Terms!Init, WordsStand, DecidedOnce, Worded, Terms!Idle
<1> QED
  BY <1>2, <1>3 DEF Terms!Init, TermsInv, Terms!Idle

\* What UPDATE leaves in a row of terms, and in one of a booking.
LEMMA WrittenTerms ==
    ASSUME NEW r \in Terms!Terms, NEW loaded \in Terms!Terms, NEW new \in Terms!Terms
    PROVE  /\ Terms!Written(r, loaded, new) \in Terms!Terms
           /\ r = loaded => Terms!Written(r, loaded, new) = new
  BY DEF Terms!Written, Terms!Terms

LEMMA WrittenBooking ==
    ASSUME NEW r \in Terms!Booking, NEW loaded \in Terms!Booking, NEW new \in Terms!Booking
    PROVE  LET b == Terms!Written(r, loaded, new) IN
           /\ b \in Terms!Booking
           /\ b.status = (IF new.status = loaded.status THEN r.status ELSE new.status)
           /\ b.version = (IF new.version = loaded.version THEN r.version ELSE new.version)
           /\ r = loaded => b = new
           /\ new = loaded => b = r
  BY DEF Terms!Written, Terms!Booking

LEMMA OpenSaveKeeps ==
    ASSUME TermsInv, NEW w \in Workers, NEW text \in Terms!Text, Terms!OpenSave(w, text) PROVE TermsInv'
<1> DEFINE t == [op |-> "save", row |-> terms, text |-> text]
<1>1. t \in Terms!Task
  BY DEF TermsInv, Terms!TypeOK, Terms!Task
<1>2. tap' = [tap EXCEPT ![w] = t] /\ t.op = "save"
  BY DEF Terms!OpenSave, Terms!Begin
<1> HIDE DEF t
<1>3. UNCHANGED <<bodies, terms, crossed, booking, lapsed, deposit, auto, page, agreed, appointments,
                  received, holds, overtaken>>
  BY DEF Terms!OpenSave, Terms!wording, Terms!setting, Terms!outcome
<1>4. Terms!TypeOK'
  BY <1>1, <1>2, <1>3 DEF TermsInv, Terms!TypeOK
<1>5. \A v \in Workers : tap'[v] = IF v = w THEN t ELSE tap[v]
  BY <1>2 DEF TermsInv, Terms!TypeOK
<1>6. crossed' \/ WordsStand'
  BY <1>2, <1>3, <1>5 DEF TermsInv, WordsStand, Worded, Shows, Terms!HasTerms
<1>7. overtaken' \/ DecidedOnce'
  BY <1>3 DEF TermsInv, DecidedOnce
<1> QED
  BY <1>2, <1>4, <1>5, <1>6, <1>7 DEF TermsInv

LEMMA SaveKeeps == ASSUME TermsInv, NEW w \in Workers, Terms!Save(w) PROVE TermsInv'
<1> DEFINE t == tap[w]
           new == IF t.text = None THEN [t.row EXCEPT !.text = None]
                  ELSE [text |-> t.text, version |-> Len(Terms!Numbered(t.text))]
<1>1. t.op = "save" /\ t \in Terms!Task /\ t.row \in Terms!Terms /\ t.text \in Wordings \union {None}
  BY DEF TermsInv, Terms!TypeOK, Terms!Save, Terms!Task, Terms!Idle, Terms!Text
<1>2. /\ IF t.text = None THEN UNCHANGED bodies
         ELSE bodies' = Terms!Numbered(t.text) /\ Len(bodies') <= MaxVersions
      /\ terms' = Terms!Written(terms, t.row, new)
      /\ crossed' = (crossed \/ t.row # terms)
      /\ tap' = [tap EXCEPT ![w] = Terms!Idle]
      /\ UNCHANGED <<booking, lapsed, deposit, auto, page, agreed, appointments, received, holds, overtaken>>
  BY DEF Terms!Save, Terms!Done, Terms!setting, Terms!outcome
<1>3. /\ bodies \in Seq(Wordings) /\ Len(bodies) \in Nat /\ Len(bodies) <= MaxVersions
      /\ terms \in Terms!Terms
  BY LenProperties DEF TermsInv, Terms!TypeOK
<1>4. /\ bodies' \in Seq(Wordings) /\ Len(bodies') <= MaxVersions /\ Len(bodies) <= Len(bodies')
      /\ \A i \in 1..Len(bodies) : bodies'[i] = bodies[i]
      /\ t.text # None => Len(bodies') \in 1..MaxVersions /\ bodies'[Len(bodies')] = t.text
  <2>1. CASE t.text = None
    BY <1>2, <1>3, <2>1
  <2>2. CASE t.text # None /\ bodies # <<>> /\ Terms!Last(bodies) = t.text
    <3>1. bodies' = bodies /\ Len(bodies) \in Nat \ {0}
      BY <1>2, <1>3, <2>2, EmptySeq DEF Terms!Numbered
    <3> QED
      BY <1>3, <2>2, <3>1, VersionsAssumption DEF Terms!Last
  <2>3. CASE t.text # None /\ ~(bodies # <<>> /\ Terms!Last(bodies) = t.text)
    <3>1. bodies' = Append(bodies, t.text) /\ t.text \in Wordings /\ Len(bodies') <= MaxVersions
      BY <1>1, <1>2, <2>3 DEF Terms!Numbered
    <3> QED
      BY <1>3, <3>1, AppendProperties, VersionsAssumption
  <2> QED
    BY <2>1, <2>2, <2>3
<1>5. new \in Terms!Terms
  <2>1. CASE t.text = None
    BY <1>1, <2>1 DEF Terms!Terms, Terms!Text
  <2>2. CASE t.text # None
    BY <1>1, <1>2, <1>4, <2>2 DEF Terms!Terms, Terms!Text, Terms!Version
  <2> QED
    BY <2>1, <2>2
<1>6. terms' \in Terms!Terms /\ (t.row = terms => terms' = new)
  BY <1>1, <1>2, <1>3, <1>5, WrittenTerms
<1>7. Terms!TypeOK'
  BY <1>2, <1>4, <1>6 DEF TermsInv, Terms!TypeOK
<1>8. \A v \in Workers : tap'[v] = IF v = w THEN Terms!Idle ELSE tap[v]
  BY <1>2 DEF TermsInv, Terms!TypeOK
<1>9. ASSUME ~crossed' PROVE WordsStand'
  <2>1. ~crossed /\ t.row = terms /\ terms' = new /\ WordsStand
    BY <1>2, <1>6, <1>9 DEF TermsInv
  <2>2. Worded(terms', bodies')
    BY <1>2, <1>3, <1>4, <2>1 DEF Worded, Terms!HasTerms, Terms!Terms
  <2>3. ASSUME NEW g \in Terms!Terms, Shows(g, bodies) PROVE Shows(g, bodies')
    BY <1>3, <1>4, <2>3 DEF Shows, Worded, Terms!HasTerms, Terms!Terms, Terms!Version
  <2>4. page # None => Shows(page, bodies')
    <3>1. page # None => page \in Terms!Terms
      BY DEF TermsInv, Terms!TypeOK
    <3> QED
      BY <2>1, <2>3, <3>1 DEF WordsStand
  <2>5. ASSUME NEW v \in Workers, tap'[v].op = "accept" PROVE Shows(tap'[v].page, bodies')
    <3>1. tap'[v] = tap[v]
      BY <1>8, <2>5 DEF Terms!Idle
    <3>2. tap[v].page \in Terms!Terms /\ Shows(tap[v].page, bodies)
      BY <2>1, <2>5, <3>1 DEF TermsInv, Terms!TypeOK, WordsStand, Terms!Task, Terms!Idle
    <3> QED
      BY <2>3, <3>1, <3>2
  <2>6. booking.version # 0 => booking.version <= Len(bodies') /\ bodies'[booking.version] = agreed
    <3>1. booking.version \in {0} \union 1..MaxVersions
      BY DEF TermsInv, Terms!TypeOK, Terms!Booking, Terms!Version
    <3> QED
      BY <1>3, <1>4, <2>1, <3>1 DEF WordsStand
  <2> QED
    BY <1>2, <2>2, <2>4, <2>5, <2>6 DEF WordsStand
<1>10. overtaken' \/ DecidedOnce'
  BY <1>2 DEF TermsInv, DecidedOnce
<1> QED
  BY <1>7, <1>8, <1>9, <1>10 DEF TermsInv, Terms!Idle

\* One worker's task changes, and nothing that the other parts of the invariant speak of.
LEMMA TapKeeps ==
    ASSUME TermsInv, NEW w \in Workers, NEW t \in Terms!Task \union {Terms!Idle},
           tap' = [tap EXCEPT ![w] = t],
           t.op = "approve" => t.row.status = "PENDING",
           (t.op = "accept" /\ ~crossed) => Shows(t.page, bodies),
           UNCHANGED <<bodies, terms, crossed, booking, lapsed, deposit, auto, page, agreed, appointments,
                       received, holds, overtaken>>
    PROVE  TermsInv'
<1>1. Terms!TypeOK'
  BY DEF TermsInv, Terms!TypeOK
<1>2. \A v \in Workers : tap'[v] = IF v = w THEN t ELSE tap[v]
  BY DEF TermsInv, Terms!TypeOK
<1>3. crossed' \/ WordsStand'
  BY <1>2 DEF TermsInv, WordsStand
<1>4. overtaken' \/ DecidedOnce'
  BY DEF TermsInv, DecidedOnce
<1> QED
  BY <1>1, <1>2, <1>3, <1>4 DEF TermsInv

LEMMA TapPageKeeps == ASSUME TermsInv, NEW w \in Workers, Terms!Tap(w) PROVE TermsInv'
<1> DEFINE t == [op |-> "accept", row |-> booking, terms |-> terms, page |-> page]
<1>1. t \in Terms!Task /\ t.op = "accept" /\ t.page = page
  BY DEF TermsInv, Terms!TypeOK, Terms!Task, Terms!Tap
<1>2. ~crossed => Shows(page, bodies)
  BY DEF TermsInv, WordsStand, Terms!Tap
<1>3. tap' = [tap EXCEPT ![w] = t]
  BY DEF Terms!Tap, Terms!Begin
<1> HIDE DEF t
<1> QED
  BY <1>1, <1>2, <1>3, TapKeeps DEF Terms!Tap, Terms!wording, Terms!setting, Terms!outcome

LEMMA ChooseKeeps == ASSUME TermsInv, NEW w \in Workers, Terms!Choose(w) PROVE TermsInv'
<1> DEFINE t == [op |-> "approve", row |-> booking]
<1>1. t \in Terms!Task /\ t.op = "approve" /\ t.row = booking /\ Terms!Idle.op = "none"
  BY DEF TermsInv, Terms!TypeOK, Terms!Task, Terms!Idle
<1>2. \/ tap' = [tap EXCEPT ![w] = t] /\ booking.status = "PENDING"
      \/ tap' = [tap EXCEPT ![w] = Terms!Idle]
  BY DEF Terms!Choose, Terms!Begin, Terms!Done
<1> HIDE DEF t
<1> QED
  BY <1>1, <1>2, TapKeeps DEF Terms!Choose, Terms!wording, Terms!setting, Terms!outcome

LEMMA TermsDieKeeps == ASSUME TermsInv, NEW w \in Workers, Terms!Die(w) PROVE TermsInv'
<1>1. Terms!Idle.op = "none"
  BY DEF Terms!Idle
<1> QED
  BY <1>1, TapKeeps DEF Terms!Die, Terms!Done, Terms!wording, Terms!setting, Terms!outcome

LEMMA OpenPageKeeps == ASSUME TermsInv, Terms!OpenPage PROVE TermsInv'
<1> DEFINE blank == [text |-> None, version |-> 0]
<1>1. blank \in Terms!Terms /\ Shows(blank, bodies)
  BY DEF Terms!Terms, Terms!Text, Shows, Worded, Terms!HasTerms
<1>2. page' = IF Terms!HasTerms(terms) THEN terms ELSE blank
  BY DEF Terms!OpenPage
<1> HIDE DEF blank
<1>3. Terms!TypeOK'
  BY <1>1, <1>2 DEF TermsInv, Terms!TypeOK, Terms!OpenPage, Terms!wording, Terms!setting, Terms!outcome
<1>4. crossed' \/ WordsStand'
  BY <1>1, <1>2 DEF TermsInv, WordsStand, Shows, Terms!OpenPage, Terms!wording
<1> QED
  BY <1>3, <1>4 DEF TermsInv, DecidedOnce, Terms!OpenPage, Terms!outcome, Terms!wording, Terms!setting

\* The booking is decided without its version.
LEMMA DecisionKeeps ==
    ASSUME TermsInv, NEW status \in Terms!Status \ {"AWAITING_TERMS"},
           booking' = [booking EXCEPT !.status = status],
           appointments' \in Nat, overtaken' \in BOOLEAN, overtaken => overtaken',
           overtaken' \/ ~DecidedOnce \/ appointments' = (IF status = "APPROVED" THEN 1 ELSE 0),
           tap' \in [Workers -> Terms!Task \union {Terms!Idle}],
           \A v \in Workers : tap'[v] \in {tap[v], Terms!Idle},
           UNCHANGED <<bodies, terms, crossed, lapsed, deposit, auto, page, agreed, received, holds>>
    PROVE  TermsInv'
<1>1. booking' \in Terms!Booking /\ booking'.status = status /\ booking'.version = booking.version
  BY DEF TermsInv, Terms!TypeOK, Terms!Booking
<1>2. Terms!TypeOK'
  BY <1>1 DEF TermsInv, Terms!TypeOK
<1>3. \A v \in Workers : tap'[v].op \in {"approve", "accept"} => tap'[v] = tap[v]
  BY DEF Terms!Idle
<1>4. crossed' \/ WordsStand'
  BY <1>1, <1>3 DEF TermsInv, WordsStand
<1>5. overtaken' \/ DecidedOnce'
  BY <1>1 DEF TermsInv, DecidedOnce
<1> QED
  BY <1>2, <1>3, <1>4, <1>5 DEF TermsInv

LEMMA SweepKeeps == ASSUME TermsInv, Terms!Sweep PROVE TermsInv'
<1>1. ~DecidedOnce \/ appointments = 0
  BY DEF DecidedOnce, Terms!Sweep, Terms!Expires
<1>2. UNCHANGED <<bodies, terms, crossed, lapsed, deposit, auto, page, agreed, received, holds, tap,
                  appointments, overtaken>>
  BY DEF Terms!Sweep, Terms!wording, Terms!setting, Terms!outcome
<1>3. /\ tap \in [Workers -> Terms!Task \union {Terms!Idle}] /\ overtaken \in BOOLEAN
      /\ appointments \in Nat /\ "EXPIRED" \in Terms!Status \ {"AWAITING_TERMS"}
  BY DEF TermsInv, Terms!TypeOK, Terms!Status
<1> QED
  BY <1>1, <1>2, <1>3, DecisionKeeps DEF Terms!Sweep

LEMMA ReviewKeeps ==
    ASSUME TermsInv, NEW verdict \in {"APPROVED", "REJECTED"}, Terms!Review(verdict) PROVE TermsInv'
<1>1. ~DecidedOnce \/ appointments = 0
  BY DEF DecidedOnce, Terms!Review
<1>2. UNCHANGED <<bodies, terms, crossed, lapsed, deposit, auto, page, agreed, received, holds, tap, overtaken>>
  BY DEF Terms!Review, Terms!wording, Terms!setting
<1>3. /\ appointments' = appointments + (IF verdict = "APPROVED" THEN 1 ELSE 0)
      /\ booking' = [booking EXCEPT !.status = verdict]
      /\ appointments \in Nat
  BY DEF Terms!Review, TermsInv, Terms!TypeOK
<1>4. /\ tap \in [Workers -> Terms!Task \union {Terms!Idle}] /\ overtaken \in BOOLEAN
      /\ verdict \in Terms!Status \ {"AWAITING_TERMS"}
  BY DEF TermsInv, Terms!TypeOK, Terms!Status
<1> QED
  BY <1>1, <1>2, <1>3, <1>4, DecisionKeeps

LEMMA ApproveKeeps == ASSUME TermsInv, NEW w \in Workers, Terms!Approve(w) PROVE TermsInv'
<1>0. UNCHANGED <<bodies, terms, crossed, lapsed, deposit, auto, page, agreed, received, holds>>
  BY DEF Terms!Approve, Terms!wording, Terms!setting
<1>1. /\ tap' = [tap EXCEPT ![w] = Terms!Idle] /\ tap[w].row.status = "PENDING"
      /\ tap \in [Workers -> Terms!Task \union {Terms!Idle}] /\ appointments \in Nat /\ overtaken \in BOOLEAN
  BY DEF Terms!Approve, Terms!Done, TermsInv, Terms!TypeOK
<1>2. /\ tap' \in [Workers -> Terms!Task \union {Terms!Idle}]
      /\ \A v \in Workers : tap'[v] \in {tap[v], Terms!Idle}
  BY <1>1
<1>3. ~DecidedOnce \/ tap[w].row # booking \/ appointments = 0
  BY <1>1 DEF DecidedOnce
<1>4. CASE lapsed
  <2>1. /\ booking' = [booking EXCEPT !.status = "EXPIRED"] /\ appointments' = appointments
        /\ overtaken' = (overtaken \/ tap[w].row # booking)
    BY <1>4 DEF Terms!Approve
  <2> QED
    BY <1>0, <1>1, <1>2, <1>3, <2>1, DecisionKeeps DEF Terms!Status
<1>5. CASE ~lapsed /\ appointments < Bays
  <2>1. /\ booking' = [booking EXCEPT !.status = "APPROVED"] /\ appointments' = appointments + 1
        /\ overtaken' = (overtaken \/ tap[w].row # booking)
    BY <1>5 DEF Terms!Approve
  <2>2. "APPROVED" \in Terms!Status \ {"AWAITING_TERMS"}
    BY DEF Terms!Status
  <2>3. appointments' \in Nat /\ (appointments = 0 => appointments' = 1)
    BY <1>1, <2>1
  <2>4. /\ overtaken' \in BOOLEAN
        /\ overtaken => overtaken'
        /\ overtaken' \/ ~DecidedOnce \/ appointments' = 1
    BY <1>1, <1>3, <2>1, <2>3
  <2> QED
    BY <1>0, <1>2, <2>1, <2>2, <2>3, <2>4, DecisionKeeps
<1>6. CASE ~lapsed /\ ~(appointments < Bays)
  <2>1. UNCHANGED <<booking, overtaken, appointments>>
    BY <1>6 DEF Terms!Approve
  <2>2. Terms!Idle.op = "none"
    BY DEF Terms!Idle
  <2> QED
    BY <1>0, <1>1, <2>1, <2>2, TapKeeps
<1> QED
  BY <1>4, <1>5, <1>6

LEMMA AcceptKeeps == ASSUME TermsInv, NEW w \in Workers, Terms!Accept(w) PROVE TermsInv'
<1> DEFINE t == tap[w]
           state == Terms!State(t.row)
           going == state = "AWAITING_ACCEPTANCE" /\ Terms!Agreed(t.terms, t.page)
           new == CASE going -> [status |-> IF deposit THEN "AWAITING_PAYMENT" ELSE "PENDING",
                                 version |-> Terms!Stamp(t.terms)]
                    [] state = "EXPIRED" -> [t.row EXCEPT !.status = "EXPIRED"]
                    [] OTHER -> t.row
           then == IF going /\ ~deposit THEN [op |-> "accepted"] ELSE Terms!Idle
<1>1. /\ t.op = "accept" /\ t.row \in Terms!Booking /\ t.terms \in Terms!Terms /\ t.page \in Terms!Terms
      /\ ~crossed => Shows(t.page, bodies)
  BY DEF TermsInv, Terms!TypeOK, Terms!Accept, Terms!Task, Terms!Idle, WordsStand
<1>2. /\ booking' = Terms!Written(booking, t.row, new)
      /\ overtaken' = (overtaken \/ (new # t.row /\ t.row # booking))
      /\ tap' = [tap EXCEPT ![w] = then]
      /\ UNCHANGED <<bodies, terms, crossed, lapsed, deposit, auto, page, appointments>>
  BY DEF Terms!Accept, Terms!Done, Terms!Begin, Terms!wording, Terms!setting
<1>3. going => /\ agreed' = (IF Terms!HasTerms(t.terms) THEN t.page.text ELSE agreed)
               /\ holds' = (IF deposit THEN holds + 1 ELSE holds)
               /\ received' = (IF deposit THEN received ELSE received + 1)
  BY DEF Terms!Accept
<1>4. ~going => UNCHANGED <<agreed, holds, received>>
  BY DEF Terms!Accept
<1>5. state = "AWAITING_ACCEPTANCE" =>
          t.row.version = 0 /\ t.row.status = "AWAITING_TERMS"
  BY <1>1 DEF Terms!State, Terms!Booking
<1>6. state = "EXPIRED" => t.row.status \in {"AWAITING_TERMS", "EXPIRED"}
  BY <1>1 DEF Terms!State, Terms!Booking
<1>7. going => /\ new.status = (IF deposit THEN "AWAITING_PAYMENT" ELSE "PENDING")
               /\ new.version = Terms!Stamp(t.terms)
               /\ new \in Terms!Booking
  BY <1>1 DEF Terms!Booking, Terms!Status, Terms!Stamp, Terms!Terms, Terms!Version
<1>8. ~going => /\ new \in Terms!Booking /\ new.version = t.row.version
                /\ \/ new = t.row
                   \/ /\ new.status = "EXPIRED"
                      /\ t.row.status = "AWAITING_TERMS"
  <2>1. CASE ~going /\ state = "EXPIRED"
    <3>1. new = [t.row EXCEPT !.status = "EXPIRED"]
      BY <2>1
    <3>2. t.row = [status |-> t.row.status, version |-> t.row.version]
      BY <1>1 DEF Terms!Booking
    <3>3. new = [status |-> "EXPIRED", version |-> t.row.version]
      BY <3>1, <3>2
    <3>4. t.row.version \in {0} \union Terms!Version
      BY <1>1 DEF Terms!Booking
    <3> HIDE DEF new
    <3> QED
      BY <1>6, <2>1, <3>2, <3>3, <3>4 DEF Terms!Booking, Terms!Status
  <2>2. CASE ~going /\ state # "EXPIRED"
    <3>1. new = t.row
      BY <2>2
    <3> HIDE DEF new
    <3> QED
      BY <1>1, <3>1
  <2> QED
    BY <2>1, <2>2
<1> HIDE DEF new
<1>9. booking \in Terms!Booking /\ new \in Terms!Booking
  BY <1>7, <1>8 DEF TermsInv, Terms!TypeOK
<1>10. /\ booking' \in Terms!Booking
       /\ booking'.status = (IF new.status = t.row.status THEN booking.status ELSE new.status)
       /\ booking'.version = (IF new.version = t.row.version THEN booking.version ELSE new.version)
       /\ t.row = booking => booking' = new
       /\ new = t.row => booking' = booking
  BY <1>1, <1>2, <1>9, WrittenBooking
<1>11. then \in Terms!Task \union {Terms!Idle} /\ then.op \in {"accepted", "none"}
  BY DEF Terms!Task, Terms!Idle
<1> HIDE DEF then
<1>12. \A v \in Workers : tap'[v] = IF v = w THEN then ELSE tap[v]
  BY <1>2 DEF TermsInv, Terms!TypeOK
<1>13. Terms!TypeOK'
  <2>1. agreed' \in Terms!Text /\ holds' \in Nat /\ received' \in Nat
    BY <1>1, <1>3, <1>4 DEF TermsInv, Terms!TypeOK, Terms!Terms
  <2>2. overtaken' \in BOOLEAN
    BY <1>2 DEF TermsInv, Terms!TypeOK
  <2>3. tap' \in [Workers -> Terms!Task \union {Terms!Idle}]
    BY <1>2, <1>11 DEF TermsInv, Terms!TypeOK
  <2> QED
    BY <1>2, <1>10, <2>1, <2>2, <2>3 DEF TermsInv, Terms!TypeOK
<1>14. ASSUME ~crossed PROVE WordsStand'
  <2>1. WordsStand
    BY <1>14 DEF TermsInv
  <2>2. booking'.version # 0 => booking'.version <= Len(bodies) /\ bodies[booking'.version] = agreed'
    <3>1. CASE going /\ Terms!Stamp(t.terms) # 0
      <4>1. Terms!HasTerms(t.terms) /\ booking'.version = t.terms.version /\ t.terms.version # 0
        BY <1>5, <1>7, <1>10, <3>1 DEF Terms!Stamp
      <4>2. t.page.version = t.terms.version /\ agreed' = t.page.text
        BY <1>3, <3>1, <4>1 DEF Terms!Agreed
      <4> QED
        BY <1>1, <1>14, <4>1, <4>2 DEF Shows, Worded
    <3>2. CASE going /\ Terms!Stamp(t.terms) = 0
      <4>1. booking'.version = booking.version
        BY <1>5, <1>7, <1>10, <3>2
      <4>2. agreed' = agreed
        BY <1>3, <3>2 DEF Terms!Stamp, Terms!HasTerms
      <4> QED
        BY <2>1, <4>1, <4>2 DEF WordsStand
    <3>3. CASE ~going
      BY <1>4, <1>8, <1>10, <2>1, <3>3 DEF WordsStand
    <3> QED
      BY <3>1, <3>2, <3>3
  <2>3. \A v \in Workers : tap'[v].op = "accept" => Shows(tap'[v].page, bodies)
    BY <1>11, <1>12, <2>1 DEF WordsStand
  <2> QED
    BY <1>2, <2>1, <2>2, <2>3 DEF WordsStand
<1>15. ASSUME ~overtaken' PROVE DecidedOnce'
  <2>1. DecidedOnce /\ (new = t.row \/ t.row = booking)
    BY <1>2, <1>15 DEF TermsInv
  <2>2. CASE going
    <3>1. new # t.row
      BY <1>5, <1>7, <2>2
    <3>2. booking.status = "AWAITING_TERMS" /\ booking' = new
      BY <1>5, <1>10, <2>1, <2>2, <3>1
    <3>3. received = 0 /\ holds = 0 /\ appointments = 0
      BY <2>1, <3>2 DEF DecidedOnce
    <3> QED
      BY <1>2, <1>3, <1>7, <2>2, <3>2, <3>3 DEF DecidedOnce
  <2>3. CASE ~going /\ new = t.row
    BY <1>2, <1>4, <1>10, <2>1, <2>3 DEF DecidedOnce
  <2>4. CASE ~going /\ new # t.row
    <3>1. booking' = new /\ new.status = "EXPIRED" /\ booking.status = "AWAITING_TERMS"
      BY <1>8, <1>10, <2>1, <2>4
    <3> QED
      BY <1>2, <1>4, <2>1, <2>4, <3>1 DEF DecidedOnce
  <2> QED
    BY <2>2, <2>3, <2>4
<1>16. \A v \in Workers : tap'[v].op = "approve" => tap'[v].row.status = "PENDING"
  BY <1>11, <1>12 DEF TermsInv
<1> QED
  BY <1>2, <1>13, <1>14, <1>15, <1>16 DEF TermsInv

LEMMA LapseKeeps == ASSUME TermsInv, Terms!Lapse PROVE TermsInv'
<1>1. UNCHANGED <<bodies, terms, crossed, booking, deposit, auto, page, agreed, appointments, received,
                  holds, tap, overtaken>> /\ lapsed' = TRUE
  BY DEF Terms!Lapse, Terms!wording, Terms!setting, Terms!outcome
<1>2. Terms!TypeOK'
  BY <1>1 DEF TermsInv, Terms!TypeOK
<1> QED
  BY <1>1, <1>2 DEF TermsInv, WordsStand, DecidedOnce

LEMMA TermsStepOK == TermsInv /\ [Terms!Next]_(Terms!termsVars) => TermsInv'
<1> SUFFICES ASSUME TermsInv, [Terms!Next]_(Terms!termsVars) PROVE TermsInv'
  OBVIOUS
<1>1. CASE UNCHANGED Terms!termsVars
  <2>1. Terms!TypeOK'
    BY <1>1 DEF Terms!termsVars, TermsInv, Terms!TypeOK
  <2> QED
    BY <1>1, <2>1 DEF Terms!termsVars, TermsInv, WordsStand, DecidedOnce
<1>2. CASE Terms!Next
  BY <1>2, OpenPageKeeps, SweepKeeps, LapseKeeps, ReviewKeeps, OpenSaveKeeps, SaveKeeps, TapPageKeeps,
     AcceptKeeps, ChooseKeeps, ApproveKeeps, TermsDieKeeps DEF Terms!Next
<1> QED
  BY <1>1, <1>2

\* An agreement names the words that its customer's page showed, unless two owners saved at
\* once, and a link decides on its booking once, unless a decision overtook another.
THEOREM AgreementsKeepStanding == Spec => []AgreementsStand
<1> DEFINE Inv == focus = "terms" => TermsInv
<1>1. Init => Inv
  BY TermsInitOK DEF Init
<1>2. Inv /\ [Next]_vars => Inv'
  <2> SUFFICES ASSUME Inv, [Next]_vars, focus' = "terms" PROVE TermsInv'
    OBVIOUS
  <2> focus = "terms" /\ [Terms!Next]_(Terms!termsVars)
    BY DEF Next, vars, customerVars, termsVars, Terms!termsVars, CalendarStep, ServiceStep,
           PricingStep, FormStep, TermsStep, SubmissionStep
  <2> QED
    BY TermsStepOK
<1>3. Inv => AgreementsStand
  BY TermsFollow DEF AgreementsStand
<1> QED
  BY <1>1, <1>2, <1>3, PTL DEF Spec

-----------------------------------------------------------------------------
\* Every field belongs to a step that is there, and a save of the switch asks for vehicle keys.
FormInv == /\ steps \in [Steps -> BOOLEAN \union {None}] /\ IsFiniteSet(fields)
           /\ \A f \in fields : /\ f.key \in Form!Keys \union {"question"}
                                /\ f.step \in Steps /\ steps[f.step] \in BOOLEAN
           /\ switch # None => switch.wanted \subseteq Form!Keys
           /\ Form!SwitchIsExact

LEMMA FormInitOK == Form!Init => FormInv
  BY FS_EmptySet DEF Form!Init, FormInv, Form!SwitchIsExact

\* Any edit of the form, and any failed save, shows no result of a save.
LEMMA EditFormKeeps ==
    ASSUME FormInv, done' = None, switch' = None \/ switch' = switch,
           steps' \in [Steps -> BOOLEAN \union {None}], IsFiniteSet(fields'),
           \A f \in fields' : /\ f.key \in Form!Keys \union {"question"}
                              /\ f.step \in Steps /\ steps'[f.step] \in BOOLEAN
    PROVE  FormInv'
  BY DEF FormInv, Form!SwitchIsExact

LEMMA NewFieldIs ==
    ASSUME NEW key, NEW s
    PROVE  Form!NewField(key, s).key = key /\ Form!NewField(key, s).step = s
  BY DEF Form!NewField

LEMMA AddStepKeeps == ASSUME FormInv, NEW s \in Steps, Form!AddStep(s) PROVE FormInv'
  BY EditFormKeeps DEF Form!AddStep, Form!Edits, FormInv

LEMMA PatchStepKeeps == ASSUME FormInv, NEW s \in Steps, Form!PatchStep(s) PROVE FormInv'
<1>1. /\ steps[s] \in BOOLEAN /\ steps' = [steps EXCEPT ![s] = ~steps[s]]
      /\ fields' = fields /\ done' = None /\ switch' = switch
  BY DEF Form!PatchStep, Form!There, Form!Edits, FormInv
<1>2. (~steps[s]) \in BOOLEAN
  OBVIOUS
<1>3. /\ steps' \in [Steps -> BOOLEAN \union {None}]
      /\ \A f \in fields : steps'[f.step] \in BOOLEAN
  BY <1>1, <1>2 DEF FormInv
<1> QED
  BY <1>1, <1>3, EditFormKeeps DEF FormInv

LEMMA DeleteStepKeeps == ASSUME FormInv, NEW s \in Steps, Form!DeleteStep(s) PROVE FormInv'
<1>1. IsFiniteSet(fields')
  BY FS_Subset DEF Form!DeleteStep, FormInv
<1> QED
  BY <1>1, EditFormKeeps DEF Form!DeleteStep, Form!Edits, FormInv

LEMMA AddFieldKeeps ==
    ASSUME FormInv, NEW s \in Steps, NEW key \in Form!Keys \union {"question"}, Form!AddField(key, s)
    PROVE  FormInv'
<1>1. /\ fields' = fields \union {Form!NewField(key, s)} /\ steps[s] \in BOOLEAN
      /\ steps' = steps /\ done' = None /\ switch' = switch
  BY DEF Form!AddField, Form!There, Form!Edits, FormInv
<1>2. IsFiniteSet(fields')
  BY <1>1, FS_AddElement DEF FormInv
<1> QED
  BY <1>1, <1>2, NewFieldIs, EditFormKeeps DEF FormInv

LEMMA DeleteFieldKeeps == ASSUME FormInv, NEW f \in fields, Form!DeleteField(f) PROVE FormInv'
<1>1. IsFiniteSet(fields')
  BY FS_Subset DEF Form!DeleteField, FormInv
<1> QED
  BY <1>1, EditFormKeeps DEF Form!DeleteField, Form!Edits, FormInv

LEMMA PresetKeeps == ASSUME FormInv, NEW s \in Steps, Form!Preset(s) PROVE FormInv'
<1> DEFINE one == Form!NewField("registration", s)
           two == Form!NewField("question", s)
<1>1. fields' = {one, two} /\ steps' = [steps EXCEPT ![s] = TRUE] /\ done' = None /\ switch' = switch
  BY DEF Form!Preset, Form!Edits
<1>2. one.key = "registration" /\ one.step = s /\ two.key = "question" /\ two.step = s
  BY NewFieldIs
<1> HIDE DEF one, two
<1>3. IsFiniteSet({one} \union {two})
  BY FS_Singleton, FS_AddElement
<1>4. IsFiniteSet(fields')
  <2>1. fields' = {one} \union {two}
    BY <1>1
  <2> QED
    BY <1>3, <2>1
<1> QED
  BY <1>1, <1>2, <1>4, EditFormKeeps DEF FormInv, Form!Keys

LEMMA SwitchKeeps ==
    ASSUME FormInv, NEW wanted \in SUBSET Form!Keys, Form!Switch(wanted) PROVE FormInv'
  BY DEF FormInv, Form!SwitchIsExact, Form!Switch

\* The form counts with the library's Cardinality.
LEMMA FormCardinality == ASSUME NEW S PROVE Form!Cardinality(S) = Cardinality(S)
  BY DEF Form!Cardinality, Cardinality

LEMMA OnlyOne ==
    ASSUME NEW S, IsFiniteSet(S), Cardinality(S) <= 1, NEW x \in S, NEW y \in S
    PROVE  x = y
<1>1. SUFFICES ASSUME x # y PROVE FALSE
  OBVIOUS
<1>2. {x} \subseteq S /\ {x} # S
  BY <1>1
<1>3. Cardinality({x}) < Cardinality(S) /\ Cardinality({x}) = 1 /\ Cardinality(S) \in Nat
  BY <1>2, FS_Subset, FS_Singleton, FS_CardinalityType
<1>4. S # S
  BY <1>3
<1> QED
  BY <1>4

\* A save of the switch, at the moment it commits.
LEMMA FormSaveKeeps ==
    ASSUME FormInv, switch # None, NEW first \in SUBSET switch.view.fields, NEW home \in Steps,
           Form!Save(first, home)
    PROVE  FormInv'
<1> DEFINE wanted == switch.wanted
           had == {f.key : f \in first}
           off == {f \in first : f.key \notin wanted}
           new == {Form!NewField(k, home) : k \in wanted \ had}
           left == (fields \ off) \union new
           gone == Form!Emptied({f.step : f \in off}, left)
           woken == {f.step : f \in first \ off}
                      \union (IF new # {} /\ home \notin Form!There THEN {home} ELSE {})
<1>1. CASE ~ (first \subseteq fields)
  <2>1. done' = None /\ steps' = steps /\ fields' = fields /\ switch' = None
    BY <1>1 DEF Form!Save
  <2> QED
    BY <2>1, EditFormKeeps DEF FormInv
<1>2. CASE first \subseteq fields
  <2>1. /\ fields' = {f \in left : f.step \notin gone}
        /\ steps' = [s \in Steps |-> CASE s \in gone -> None
                                       [] s \in woken \ gone -> TRUE
                                       [] OTHER -> steps[s]]
    BY <1>2 DEF Form!Save
  <2>2. /\ done' = [view |-> switch.view, wanted |-> wanted, current |-> switch.view = Form!form]
        /\ switch' = None
        /\ had = {k \in Form!Keys : Form!Bound(switch.view, k) # {}}
        /\ IF first = {} THEN wanted # {} => home \notin Form!There ELSE \E f \in first : f.step = home
    BY <1>2 DEF Form!Save
  <2>3. wanted \subseteq Form!Keys /\ first \subseteq fields
    BY <1>2 DEF FormInv
  <2>4. /\ \A f \in new : f.key \in wanted \ had /\ f.step = home
        /\ \A k \in wanted \ had : \E f \in new : f.key = k
    BY NewFieldIs
  <2>5. /\ \A f \in off : f \in first /\ f.key \notin wanted
        /\ \A f \in first : f \in off \/ f.key \in wanted
        /\ \A f : f \in left <=> (f \in fields /\ f \notin off) \/ f \in new
        /\ \A f \in left : f.step \notin gone
        /\ gone \subseteq {f.step : f \in off}
        /\ \A f \in first : f \notin off => f.step \in woken
        /\ woken \subseteq {f.step : f \in first} \union {home}
        /\ new # {} => home \in woken \/ home \in Form!There
        /\ \A f \in first : f.key \in had
        /\ \A k \in had : \E f \in first : f.key = k
        /\ new # {} => wanted # {}
        /\ \A s \in woken : s \in {f.step : f \in first} \/ new # {}
    BY DEF Form!Emptied
  <2>6. IsFiniteSet(fields')
    <3> DEFINE one == Form!NewField("registration", home)
               two == Form!NewField("make", home)
    <3>1. new \subseteq {one} \union {two}
      BY <2>3 DEF Form!Keys
    <3>2. IsFiniteSet({one} \union {two})
      BY FS_Singleton, FS_AddElement
    <3>3. IsFiniteSet(new)
      BY <3>1, <3>2, FS_Subset
    <3>4. IsFiniteSet(left)
      BY <3>3, FS_Union, FS_Subset DEF FormInv
    <3> QED
      BY <2>1, <3>4, FS_Subset
  <2> HIDE DEF new, off, left, gone, woken, had, wanted
  <2>7. fields' = left
    BY <2>1, <2>5
  <2>8. \A s \in Steps : steps'[s] = IF s \in gone THEN None ELSE IF s \in woken THEN TRUE ELSE steps[s]
    BY <2>1
  <2>9. steps' \in [Steps -> BOOLEAN \union {None}]
    BY <2>1 DEF FormInv
  <2>10. \A f \in left : /\ f.key \in Form!Keys \union {"question"}
                         /\ f.step \in Steps /\ f.step \notin gone
    BY <2>3, <2>4, <2>5 DEF FormInv
  <2>11. home \in Form!There => steps[home] \in BOOLEAN
    BY DEF Form!There, FormInv
  <2>12. \A f \in left : f.step \notin woken => steps[f.step] \in BOOLEAN
    BY <2>4, <2>5, <2>11 DEF FormInv
  <2>13. \A f \in left : steps'[f.step] \in BOOLEAN
    BY <2>8, <2>10, <2>12
  <2>14. Form!SwitchIsExact'
    <3> SUFFICES ASSUME switch.view = Form!form, Form!Plain(switch.view)
                 PROVE  /\ Form!Asked(Form!form)' = wanted
                        /\ Form!Bound(Form!form, "question")' = Form!Bound(switch.view, "question")
                        /\ Form!Asked(switch.view) = wanted => Form!form' = switch.view
      BY <2>2 DEF Form!SwitchIsExact, Form!Asked, Form!Bound, Form!form
    <3>1. switch.view = [steps |-> steps, fields |-> fields]
      BY DEF Form!form
    <3>2. switch.view.fields = fields /\ switch.view.steps = steps
      BY <3>1
    <3>3. \A k \in Form!Keys : \A f \in fields : f.key = k => steps[f.step]
      BY <3>2 DEF Form!Plain, Form!Bound
    <3>4. \A f, g \in fields : f.key \in Form!Keys /\ f.key = g.key => f = g
      <4> SUFFICES ASSUME NEW f \in fields, NEW g \in fields, f.key \in Form!Keys, f.key = g.key
                   PROVE  f = g
        OBVIOUS
      <4> DEFINE same == {h \in fields : h.key = f.key}
      <4>1. IsFiniteSet(same)
        BY FS_Subset DEF FormInv
      <4>2. Cardinality(same) <= 1
        <5>1. Cardinality(Form!Bound(switch.view, f.key)) <= 1
          BY FormCardinality DEF Form!Plain
        <5>2. Form!Bound(switch.view, f.key) = same
          BY <3>2 DEF Form!Bound
        <5> QED
          BY <5>1, <5>2
      <4>3. f \in same /\ g \in same
        OBVIOUS
      <4> HIDE DEF same
      <4> QED
        BY <4>1, <4>2, <4>3, OnlyOne
    <3>5. \A f \in fields : f.key \in Form!Keys <=> f \in first
      <4>1. \A f \in fields : f.key \in Form!Keys => f.key \in had
        BY <2>2, <3>2 DEF Form!Bound
      <4>2. had \subseteq Form!Keys
        BY <2>2
      <4> QED
        BY <4>1, <4>2, <2>3, <2>5, <3>4
    <3>6. \A f \in first : steps[f.step] = TRUE
      BY <3>3, <3>5, <2>3 DEF FormInv
    <3>7. \A f \in left : f.key \in Form!Keys => steps'[f.step] = TRUE
      <4>1. \A f \in fields : f.key \in Form!Keys => steps[f.step] = TRUE
        BY <3>3 DEF FormInv
      <4>2. new # {} => home \in woken \/ steps[home] = TRUE
        <5>1. ASSUME new # {}, first = {} PROVE home \in woken
          BY <2>2, <2>5, <5>1
        <5>2. ASSUME first # {} PROVE steps[home] = TRUE
          BY <2>2, <3>6, <5>2
        <5> QED
          BY <5>1, <5>2
      <4> QED
        <5> SUFFICES ASSUME NEW f \in left, f.key \in Form!Keys PROVE steps'[f.step] = TRUE
          OBVIOUS
        <5>1. f.step \in Steps /\ f.step \notin gone
          BY <2>10
        <5>2. f.step \in woken \/ steps[f.step] = TRUE
          BY <2>4, <2>5, <4>1, <4>2
        <5> QED
          BY <5>1, <5>2, <2>8
    <3>8. \A k \in Form!Keys : (\E f \in left : f.key = k) <=> k \in wanted
      <4>1. \A f \in left : f.key \in Form!Keys => f.key \in wanted
        BY <2>4, <2>5, <3>5
      <4>2. \A k \in wanted : \E f \in left : f.key = k
        BY <2>3, <2>4, <2>5
      <4> QED
        BY <4>1, <4>2
    <3>9. Form!Asked(Form!form)' = wanted
      <4>1. Form!Asked(Form!form)' = {k \in Form!Keys : \E f \in left : f.key = k /\ steps'[f.step]}
        BY <2>7 DEF Form!Asked, Form!Bound, Form!form, Form!Keys
      <4> QED
        BY <4>1, <3>7, <3>8, <2>3
    <3>10. Form!Bound(Form!form, "question")' = Form!Bound(switch.view, "question")
      <4>1. \A f : f \in left /\ f.key = "question" <=> f \in fields /\ f.key = "question"
        BY <2>3, <2>4, <2>5, <3>5 DEF Form!Keys
      <4> QED
        BY <4>1, <2>7, <3>2 DEF Form!Bound, Form!form
    <3>11. ASSUME Form!Asked(switch.view) = wanted PROVE Form!form' = switch.view
      <4>1. wanted = {k \in Form!Keys : \E f \in fields : f.key = k}
        BY <3>2, <3>3, <3>11 DEF Form!Asked, Form!Bound
      <4>2. wanted = had
        BY <4>1, <2>2, <3>2 DEF Form!Bound
      <4>3. new = {} /\ off = {}
        BY <4>2, <2>4, <2>5
      <4>4. left = fields /\ gone = {}
        BY <4>3, <2>5
      <4>5. \A s \in Steps : s \in woken => steps[s] = TRUE
        BY <2>5, <3>6, <4>3
      <4>6. steps' = steps
        <5>1. \A s \in Steps : steps'[s] = steps[s]
          BY <2>8, <4>4, <4>5
        <5> QED
          BY <5>1, <2>9 DEF FormInv
      <4> QED
        BY <4>4, <4>6, <2>7, <3>1 DEF Form!form
    <3> QED
      BY <3>9, <3>10, <3>11
  <2> QED
    BY <2>2, <2>6, <2>7, <2>9, <2>10, <2>13, <2>14 DEF FormInv
<1> QED
  BY <1>1, <1>2

LEMMA FormStepOK == FormInv /\ [Form!Next]_(Form!formVars) => FormInv'
<1> SUFFICES ASSUME FormInv, [Form!Next]_(Form!formVars) PROVE FormInv'
  OBVIOUS
<1>1. ASSUME NEW s \in Steps, Form!AddStep(s) PROVE FormInv'
  BY <1>1, AddStepKeeps
<1>2. ASSUME NEW s \in Steps, Form!PatchStep(s) PROVE FormInv'
  BY <1>2, PatchStepKeeps
<1>3. ASSUME NEW s \in Steps, Form!DeleteStep(s) PROVE FormInv'
  BY <1>3, DeleteStepKeeps
<1>4. ASSUME NEW s \in Steps, Form!Preset(s) PROVE FormInv'
  BY <1>4, PresetKeeps
<1>5. ASSUME NEW s \in Steps, NEW key \in Form!Keys \union {"question"}, Form!AddField(key, s)
      PROVE  FormInv'
  BY <1>5, AddFieldKeeps
<1>6. ASSUME NEW f \in fields, Form!DeleteField(f) PROVE FormInv'
  BY <1>6, DeleteFieldKeeps
<1>7. ASSUME NEW wanted \in SUBSET Form!Keys, Form!Switch(wanted) PROVE FormInv'
  BY <1>7, SwitchKeeps
<1>8. ASSUME switch # None, NEW first \in SUBSET switch.view.fields, NEW home \in Steps,
             Form!Save(first, home)
      PROVE  FormInv'
  BY <1>8, FormSaveKeeps
<1>9. CASE UNCHANGED Form!formVars
  BY <1>9 DEF Form!formVars, FormInv, Form!SwitchIsExact, Form!Asked, Form!Bound, Form!form
<1> QED
  BY <1>1, <1>2, <1>3, <1>4, <1>5, <1>6, <1>7, <1>8, <1>9 DEF Form!Next

\* SwitchIsExact: switching the vehicle questions leaves exactly those that were wanted, for
\* any number of steps and fields (BookingForm's model of update_vehicle_details).
THEOREM SwitchStaysExact == Spec => []SwitchIsExact
<1> DEFINE Inv == focus = "form" => FormInv
<1>1. Init => Inv
  BY FormInitOK DEF Init
<1>2. Inv /\ [Next]_vars => Inv'
  <2> SUFFICES ASSUME Inv, [Next]_vars, focus' = "form" PROVE FormInv'
    OBVIOUS
  <2> focus = "form" /\ [Form!Next]_(Form!formVars)
    BY DEF Next, vars, customerVars, formVars, Form!formVars, CalendarStep, ServiceStep,
           PricingStep, FormStep, TermsStep, SubmissionStep
  <2> QED
    BY FormStepOK
<1>3. Inv => SwitchIsExact
  BY DEF SwitchIsExact, FormInv
<1> QED
  BY <1>1, <1>2, <1>3, PTL DEF Spec

-----------------------------------------------------------------------------
\* The calendar's rows keep their types; whose bookings hold their time is any function.
CalendarInv == /\ now \in Nat
               /\ hours \in [opens : Nat, closes : Nat, closed : BOOLEAN]
               /\ exceptions \in [Calendar!Days -> {None} \union [opens : Nat, closes : Nat, closed : BOOLEAN]]
               /\ settings \in [interval : Nat \ {0}, lead : Nat, capacity : Nat]
               /\ withheld \in {None} \union [from : Nat, until : Nat, bays : Nat]

LEMMA CalendarInitOK == Calendar!Init => CalendarInv
  BY CalendarAssumption DEF Calendar!Init, CalendarInv

LEMMA CalendarStepOK == CalendarInv /\ [Calendar!Next]_(Calendar!calendarVars) => CalendarInv'
<1> SUFFICES ASSUME CalendarInv, [Calendar!Next]_(Calendar!calendarVars) PROVE CalendarInv'
  OBVIOUS
<1>1. CASE UNCHANGED Calendar!calendarVars
  BY <1>1 DEF CalendarInv, Calendar!calendarVars
<1>2. ASSUME NEW c \in Customers,
             \/ Calendar!Release(c)
             \/ \E d \in Calendar!Days, t \in 0..Length, l \in Jobs : Calendar!Book(c, d, t, l)
      PROVE  CalendarInv'
  BY <1>2 DEF CalendarInv, Calendar!Release, Calendar!Book
<1>3. ASSUME NEW h \in OpenHours, Calendar!EditHours(h) PROVE CalendarInv'
  BY <1>3, CalendarAssumption DEF CalendarInv, Calendar!EditHours
<1>4. ASSUME NEW d \in SpecialDays, Calendar!DropException(d) PROVE CalendarInv'
  BY <1>4 DEF CalendarInv, Calendar!DropException
<1>5. ASSUME NEW d \in SpecialDays, NEW h \in SpecialHours, Calendar!AddException(d, h) PROVE CalendarInv'
  BY <1>5, CalendarAssumption DEF CalendarInv, Calendar!AddException
<1>6. ASSUME NEW s \in Settings, Calendar!EditSettings(s) PROVE CalendarInv'
  BY <1>6, CalendarAssumption DEF CalendarInv, Calendar!EditSettings
<1>7. ASSUME NEW w \in Calendar!Windows, Calendar!EditWindow(w) PROVE CalendarInv'
  <2>1. Calendar!Windows \subseteq {None} \union [from : Nat, until : Nat, bays : Nat]
    BY CalendarAssumption DEF Calendar!Windows
  <2> QED
    BY <1>7, <2>1 DEF CalendarInv, Calendar!EditWindow
<1>8. CASE Calendar!Tick
  BY <1>8 DEF CalendarInv, Calendar!Tick
<1> QED
  BY <1>1, <1>2, <1>3, <1>4, <1>5, <1>6, <1>7, <1>8 DEF Calendar!Next

\* The calendar counts as everybody does.
LEMMA CalendarCounts == ASSUME NEW S PROVE Calendar!Cardinality(S) = Cardinality(S)
  BY DEF Calendar!Cardinality, Cardinality

\* The greatest of a few numbers is one of them, and none is greater.
LEMMA GreatestOfThem ==
    ASSUME NEW S \in SUBSET Nat, S # {}, IsFiniteSet(S)
    PROVE  Calendar!Max(S) \in S /\ \A n \in S : n <= Calendar!Max(S)
<1>1. \E m \in S : \A n \in S : m >= n
  BY GreatestOfFinite
<1> QED
  BY <1>1 DEF Calendar!Max

\* What a day remains is a number.
LEMMA RemainingIsNumber ==
    ASSUME CalendarInv, NEW d \in Nat, NEW t \in Nat, NEW l \in Nat \ {0}
    PROVE  Calendar!Remaining(d, t, l) \in Nat
<1> DEFINE busy == {Calendar!Cardinality(Calendar!Holding(u)) :
                        u \in Calendar!Instant(d, t)..Calendar!Instant(d, t) + l - 1}
<1>1. Calendar!Instant(d, t) \in Nat
  BY CalendarAssumption DEF Calendar!Instant
<1>2. \A u : Calendar!Cardinality(Calendar!Holding(u)) \in 0..Cardinality(Customers)
  <2> TAKE u
  <2>1. Calendar!Holding(u) \subseteq Customers
    BY DEF Calendar!Holding
  <2> QED
    BY <2>1, FS_Subset, FS_CardinalityType, CalendarAssumption, CalendarCounts
<1>3. Cardinality(Customers) \in Nat
  BY FS_CardinalityType, CalendarAssumption
<1>4. busy \in SUBSET (0..Cardinality(Customers))
  BY <1>2
<1>5. Calendar!Cardinality(Calendar!Holding(Calendar!Instant(d, t))) \in busy
  BY <1>1
<1>6. \E m \in busy : \A n \in busy : n <= m
  BY <1>3, <1>4, <1>5, GreatestBelow
<1>7. Calendar!Max(busy) \in Nat
  <2>1. \A n \in busy : n \in Nat
    BY <1>3, <1>4
  <2>2. \E m \in busy : \A n \in busy : m >= n
    BY <1>6, <2>1
  <2> QED
    BY <2>1, <2>2 DEF Calendar!Max
<1>8. Calendar!Used(d, t, l) \in Nat
  BY <1>7 DEF Calendar!Used
<1>9. Calendar!Reserved(t, l) \in Nat
  BY DEF Calendar!Reserved, CalendarInv
<1> QED
  BY <1>8, <1>9 DEF Calendar!Remaining, CalendarInv

\* What a day's times are, when the business is open on it.
DayRules == [opens : Nat, closes : Nat, closed : BOOLEAN]

LEMMA HoursHaveTypes ==
    ASSUME CalendarInv, NEW d \in Calendar!Days PROVE Calendar!DayHours(d) \in DayRules
  BY DEF CalendarInv, Calendar!DayHours, DayRules

\* A time that is offered is on the grid and would be accepted, but for one of this instant.
LEMMA OfferedIsAccepted ==
    ASSUME CalendarInv, NEW d \in Calendar!Days, Calendar!Today <= d, d <= Calendar!WindowEnd,
           NEW l \in Jobs, ~Calendar!DayHours(d).closed
    PROVE  {t \in Calendar!Free(d, l) : Calendar!Instant(d, t) > now}
               = {t \in {u \in 0..Length : Calendar!Validate(d, u, l) = "accepted"} :
                      (t - Calendar!DayHours(d).opens) % settings.interval = 0}
<1> DEFINE h == Calendar!DayHours(d)
           on(t) == (t - h.opens) % settings.interval = 0
<1>1. /\ h \in DayRules /\ d \in Nat /\ l \in Nat \ {0} /\ Calendar!Today \in Nat /\ Calendar!WindowEnd \in Nat
      /\ Length \in Nat /\ now \in Nat /\ settings.lead \in Nat
  BY HoursHaveTypes, CalendarAssumption
     DEF Calendar!Days, CalendarInv, Calendar!Today, Calendar!WindowEnd
<1>2. ASSUME NEW t \in 0..Length PROVE Calendar!Remaining(d, t, l) \in Nat /\ Calendar!Instant(d, t) \in Nat
  <2>1. t \in Nat /\ d * Length \in Nat
    BY <1>1
  <2>2. Calendar!Remaining(d, t, l) \in Nat
    BY <1>1, <2>1, RemainingIsNumber
  <2> QED
    BY <1>1, <2>1, <2>2 DEF Calendar!Instant
<1>3. \A t : Calendar!Validate(d, t, l) =
          IF t < h.opens \/ t + l > h.closes THEN "outside_hours"
          ELSE IF Calendar!Instant(d, t) <= now THEN "past"
          ELSE IF Calendar!Instant(d, t) < now + settings.lead THEN "too_soon"
          ELSE IF Calendar!Remaining(d, t, l) = 0 THEN "full" ELSE "accepted"
  BY <1>1 DEF Calendar!Validate
<1>4. \A t : t \in Calendar!Free(d, l) <=>
                /\ t \in h.opens..Length /\ on(t) /\ t + l <= h.closes
                /\ Calendar!Instant(d, t) >= now + settings.lead /\ Calendar!Remaining(d, t, l) > 0
  BY DEF Calendar!Free, Calendar!Slots, Calendar!Fits
<1>5. ASSUME NEW t \in 0..Length
      PROVE  t \in Calendar!Free(d, l) /\ Calendar!Instant(d, t) > now
                 <=> Calendar!Validate(d, t, l) = "accepted" /\ on(t)
  <2> DEFINE i == Calendar!Instant(d, t)
             r == Calendar!Remaining(d, t, l)
             o == (t - h.opens) % settings.interval
  <2>1. i \in Nat /\ r \in Nat /\ h.opens \in Nat /\ h.closes \in Nat
    BY <1>1, <1>2 DEF DayRules
  <2>2. Calendar!Validate(d, t, l) = "accepted" <=>
            ~(t < h.opens) /\ ~(t + l > h.closes) /\ ~(i <= now) /\ ~(i < now + settings.lead) /\ r # 0
    BY <1>3
  <2>3. t \in Calendar!Free(d, l) <=> t \in h.opens..Length /\ o = 0 /\ t + l <= h.closes
                                      /\ i >= now + settings.lead /\ r > 0
    BY <1>4
  <2>4. on(t) <=> o = 0
    OBVIOUS
  <2>5. (t \in Calendar!Free(d, l) /\ i > now) <=> (Calendar!Validate(d, t, l) = "accepted" /\ o = 0)
    <3> HIDE DEF i, r, h, o
    <3> QED
      BY <1>1, <2>1, <2>2, <2>3
  <2> QED
    BY <2>4, <2>5
<1>6. \A t : t \in Calendar!Free(d, l) => t \in 0..Length
  BY <1>1, <1>4 DEF DayRules
<1> QED
  BY <1>5, <1>6

\* How many times a day shows decides whether it is bookable, and which it is.
LEMMA LevelCounts ==
    ASSUME CalendarInv, NEW d \in Calendar!Days, Calendar!Today <= d, ~Calendar!DayHours(d).closed, NEW l
    PROVE  /\ Calendar!Level(d, l) \notin {"past", "closed"}
           /\ Calendar!Level(d, l) \in {"limited", "available"} <=> Calendar!Free(d, l) # {}
           /\ Calendar!Level(d, l) = "available" => Cardinality(Calendar!Free(d, l)) > 1
<1> DEFINE open == Cardinality(Calendar!Free(d, l))
           shown == Cardinality(Calendar!Slots(d, l))
           few == Calendar!Max({1, shown \div 3})
<1>1. Calendar!DayHours(d).opens \in Nat /\ Length \in Nat /\ d \in Nat /\ Calendar!Today \in Nat
  <2>1. Calendar!DayHours(d) \in DayRules
    BY HoursHaveTypes
  <2>2. d \in Nat /\ Length \in Nat /\ Calendar!Today \in Nat
    BY CalendarAssumption DEF Calendar!Days, Calendar!Today, CalendarInv
  <2> QED
    BY <2>1, <2>2 DEF DayRules
<1>2. IsFiniteSet(Calendar!DayHours(d).opens..Length)
  BY <1>1, FS_Interval
<1>3. IsFiniteSet(Calendar!Slots(d, l)) /\ IsFiniteSet(Calendar!Free(d, l))
  <2>1. Calendar!Slots(d, l) \subseteq Calendar!DayHours(d).opens..Length
    BY DEF Calendar!Slots
  <2>2. Calendar!Free(d, l) \subseteq Calendar!Slots(d, l)
    BY DEF Calendar!Free
  <2> QED
    BY <1>2, <2>1, <2>2, FS_Subset
<1>4. open \in Nat /\ shown \in Nat /\ (open = 0 <=> Calendar!Free(d, l) = {})
  BY <1>3, FS_CardinalityType, FS_EmptySet
<1>5. few >= 1 /\ few \in Nat
  <2> DEFINE third == shown \div 3
  <2>1. third \in Nat
    BY <1>4
  <2> HIDE DEF third
  <2>2. \E m \in {1, third} : \A n \in {1, third} : m >= n
    <3>1. CASE third >= 1
      BY <2>1, <3>1
    <3>2. CASE ~(third >= 1)
      BY <2>1, <3>2
    <3> QED
      BY <3>1, <3>2
  <2>3. Calendar!Max({1, third}) \in {1, third} /\ Calendar!Max({1, third}) >= 1
    BY <2>2 DEF Calendar!Max
  <2> QED
    BY <2>1, <2>3 DEF third
<1>6. Calendar!Level(d, l) =
          IF open = 0 THEN "full"
          ELSE IF Calendar!Limited(d, l) # {} \/ open <= few THEN "limited" ELSE "available"
  BY <1>1, CalendarCounts DEF Calendar!Level, Calendar!SummaryLength
<1> HIDE DEF open, few
<1>7. Calendar!Level(d, l) = "available" => open > 1
  BY <1>4, <1>5, <1>6
<1> QED
  BY <1>4, <1>6, <1>7 DEF open

\* The calendar is honest whatever the hours, the exceptions, the settings and the bookings.
LEMMA CalendarFollows == CalendarInv => Calendar!CalendarIsHonest
<1> SUFFICES ASSUME CalendarInv, NEW d \in (Calendar!Today..Calendar!WindowEnd) \cap Calendar!Days, NEW l \in Jobs
             PROVE  LET accepted == {t \in 0..Length : Calendar!Validate(d, t, l) = "accepted"}
                        later == {t \in Calendar!Offered(d, l) : Calendar!Instant(d, t) > now} IN
                    /\ later = {t \in accepted : (t - Calendar!DayHours(d).opens) % settings.interval = 0}
                    /\ Calendar!Instant(d, 0) > now =>
                           /\ (d \in Calendar!NextDays(d, l)) = (later # {})
                           /\ Calendar!Level(d, l) \in {"limited", "available"} <=> later # {}
                           /\ Calendar!Level(d, l) = "available" => Calendar!Cardinality(accepted) > 1
  BY DEF Calendar!CalendarIsHonest
<1> DEFINE accepted == {t \in 0..Length : Calendar!Validate(d, t, l) = "accepted"}
           later == {t \in Calendar!Offered(d, l) : Calendar!Instant(d, t) > now}
           onGrid == {t \in accepted : (t - Calendar!DayHours(d).opens) % settings.interval = 0}
<1>1. /\ d \in Calendar!Days /\ d \in Nat /\ Calendar!Today \in Nat /\ Calendar!WindowEnd \in Nat
      /\ Calendar!Today <= d /\ d <= Calendar!WindowEnd /\ l \in Nat \ {0} /\ Length \in Nat /\ now \in Nat
  BY CalendarAssumption DEF Calendar!Days, Calendar!Today, Calendar!WindowEnd, CalendarInv
<1>2. CASE Calendar!DayHours(d).closed
  <2>1. \A t : Calendar!Validate(d, t, l) = "closed"
    BY <1>1, <1>2 DEF Calendar!Validate
  <2>2. Calendar!Level(d, l) = "closed"
    BY <1>1, <1>2 DEF Calendar!Level
  <2>3. accepted = {} /\ later = {} /\ Calendar!Offered(d, l) = {}
    BY <2>1, <2>2 DEF Calendar!Offered
  <2>4. d \notin Calendar!NextDays(d, l)
    BY <2>3 DEF Calendar!NextDays
  <2> QED
    BY <2>2, <2>3, <2>4
<1>3. CASE ~Calendar!DayHours(d).closed
  <2>1. /\ Calendar!Level(d, l) \notin {"past", "closed"}
        /\ Calendar!Level(d, l) \in {"limited", "available"} <=> Calendar!Free(d, l) # {}
        /\ Calendar!Level(d, l) = "available" => Cardinality(Calendar!Free(d, l)) > 1
    BY <1>1, <1>3, LevelCounts
  <2>2. Calendar!Offered(d, l) = Calendar!Free(d, l)
    BY <2>1 DEF Calendar!Offered
  <2>3. later = onGrid
    BY <1>1, <1>3, <2>2, OfferedIsAccepted
  <2>4. ASSUME Calendar!Instant(d, 0) > now PROVE later = Calendar!Free(d, l)
    <3> SUFFICES ASSUME NEW t \in Calendar!Free(d, l) PROVE Calendar!Instant(d, t) > now
      BY <2>2
    <3>1. t \in Calendar!DayHours(d).opens..Length /\ Calendar!DayHours(d).opens \in Nat
      BY <1>1, HoursHaveTypes DEF Calendar!Free, Calendar!Slots, DayRules
    <3>2. t \in Nat /\ d * Length \in Nat
      BY <1>1, <3>1
    <3> QED
      BY <1>1, <2>4, <3>2 DEF Calendar!Instant
  <2>5. ASSUME Calendar!Instant(d, 0) > now
        PROVE  /\ d \in Calendar!NextDays(d, l) <=> later # {}
               /\ Calendar!Level(d, l) \in {"limited", "available"} <=> later # {}
               /\ Calendar!Level(d, l) = "available" => Calendar!Cardinality(accepted) > 1
    <3>1. later = Calendar!Free(d, l)
      BY <2>4, <2>5
    <3>2. d \in Calendar!NextDays(d, l) <=> later # {}
      BY <1>1, <2>2, <3>1 DEF Calendar!NextDays
    <3>3. IsFiniteSet(accepted) /\ Calendar!Free(d, l) \subseteq accepted
      <4>1. IsFiniteSet(0..Length) /\ accepted \subseteq 0..Length
        BY <1>1, FS_Interval
      <4> QED
        BY <2>3, <3>1, <4>1, FS_Subset
    <3>4. /\ Cardinality(Calendar!Free(d, l)) <= Cardinality(accepted)
          /\ Cardinality(Calendar!Free(d, l)) \in Nat /\ Cardinality(accepted) \in Nat
      BY <3>3, FS_Subset, FS_CardinalityType
    <3>5. Calendar!Cardinality(accepted) = Cardinality(accepted)
      BY CalendarCounts
    <3>6. Calendar!Level(d, l) = "available" => Calendar!Cardinality(accepted) > 1
      <4> HIDE DEF accepted
      <4> QED
        BY <2>1, <3>4, <3>5
    <3> QED
      BY <2>1, <3>1, <3>2, <3>6
  <2> QED
    BY <2>3, <2>5
<1> QED
  BY <1>2, <1>3

\* What the calendar offers is what a booking is allowed, and a day is shown as what it has
\* room for, for any hours, exceptions, settings and number of customers and days.
THEOREM CalendarStaysHonest == Spec => []CalendarIsHonest
<1> DEFINE Inv == focus = "calendar" => CalendarInv
<1>1. Init => Inv
  BY CalendarInitOK DEF Init
<1>2. Inv /\ [Next]_vars => Inv'
  <2> SUFFICES ASSUME Inv, [Next]_vars, focus' = "calendar" PROVE CalendarInv'
    OBVIOUS
  <2> focus = "calendar" /\ [Calendar!Next]_(Calendar!calendarVars)
    BY DEF Next, vars, catalogueVars, calendarVars, Calendar!calendarVars, CalendarStep, ServiceStep,
           PricingStep, FormStep, TermsStep, SubmissionStep
  <2> QED
    BY CalendarStepOK
<1>3. Inv => CalendarIsHonest
  BY CalendarFollows DEF CalendarIsHonest
<1> QED
  BY <1>1, <1>2, <1>3, PTL DEF Spec

-----------------------------------------------------------------------------
(* What a booking costs. A sum over the add-ons is a fold of the library: it is known by the
   recursion it solves. *)
\* A sum stays among numbers that are closed under adding what is summed.
LEMMA SumStaysIn ==
    ASSUME NEW S, IsFiniteSet(S), NEW f \in [S -> Int], NEW D \in SUBSET Int, 0 \in D,
           \A x \in S, d \in D : f[x] + d \in D
    PROVE  Pricing!FoldFunction(+, 0, f) \in D
<1> DEFINE Sums(i) == i = [s \in SUBSET S |-> IF s = {} THEN 0
                             ELSE f[CHOOSE x \in s : TRUE] + i[s \ {CHOOSE x \in s : TRUE}]]
<1>1. PICK pick : pick = [s \in SUBSET S |-> CHOOSE x \in s : TRUE]
  OBVIOUS
<1>2. PICK step : step = [p \in S \X D |-> f[p[1]] + p[2]]
  OBVIOUS
<1>3. Picks(pick, S)
  BY <1>1 DEF Picks
<1>4. step \in [S \X D -> D] /\ \A x \in S, d \in D : step[<<x, d>>] = f[x] + d
  BY <1>2
<1>5. PICK g \in [SUBSET S -> D] : Solves(g, S, 0, step, pick)
  BY <1>3, <1>4, RecursionExists
<1>6. \A s \in SUBSET S : g[s] = IF s = {} THEN 0 ELSE f[pick[s]] + g[s \ {pick[s]}]
  BY <1>3, <1>4, <1>5 DEF Picks, Solves
<1>7. g = [s \in SUBSET S |-> g[s]]
  OBVIOUS
<1>8. Sums(g)
  <2>1. \A s \in SUBSET S : pick[s] = CHOOSE x \in s : TRUE
    BY <1>1
  <2> QED
    BY <1>6, <1>7, <2>1
<1>9. PICK i : Sums(i) /\ i = (CHOOSE j : Sums(j))
  BY <1>8
<1>10. \A s \in SUBSET S : i[s] = IF s = {} THEN 0 ELSE f[pick[s]] + i[s \ {pick[s]}]
  <2>1. \A s \in SUBSET S : pick[s] = CHOOSE x \in s : TRUE
    BY <1>1
  <2>2. \A s \in SUBSET S : i[s] = IF s = {} THEN 0
                             ELSE f[CHOOSE x \in s : TRUE] + i[s \ {CHOOSE x \in s : TRUE}]
    <3> DEFINE F == [s \in SUBSET S |-> IF s = {} THEN 0
                             ELSE f[CHOOSE x \in s : TRUE] + i[s \ {CHOOSE x \in s : TRUE}]]
    <3>1. i = F
      BY <1>9
    <3>2. \A s \in SUBSET S : F[s] = IF s = {} THEN 0
                             ELSE f[CHOOSE x \in s : TRUE] + i[s \ {CHOOSE x \in s : TRUE}]
      OBVIOUS
    <3> HIDE DEF F
    <3> QED
      BY <3>1, <3>2
  <2> QED
    BY <2>1, <2>2
<1>11. PICK both : both = [p \in S \X ({i[s] : s \in SUBSET S} \union D) |-> f[p[1]] + p[2]]
  OBVIOUS
<1>12. Solves(i, S, 0, both, pick) /\ Solves(g, S, 0, both, pick)
  <2>1. ASSUME NEW h, \A s \in SUBSET S : h[s] \in {i[t] : t \in SUBSET S} \union D,
               \A s \in SUBSET S : h[s] = IF s = {} THEN 0 ELSE f[pick[s]] + h[s \ {pick[s]}]
        PROVE  Solves(h, S, 0, both, pick)
    <3>1. ASSUME NEW s \in SUBSET S, s # {}
          PROVE  both[<<pick[s], h[s \ {pick[s]}]>>] = f[pick[s]] + h[s \ {pick[s]}]
      BY <1>3, <1>11, <2>1, <3>1 DEF Picks
    <3> QED
      BY <2>1, <3>1 DEF Solves
  <2> QED
    BY <1>5, <1>6, <1>10, <2>1
<1>13. i[S] = g[S]
  BY <1>3, <1>12, RecursionUnique
<1>14. DOMAIN f = S
  OBVIOUS
<1>15. Pricing!FoldFunction(+, 0, f) = (CHOOSE j : Sums(j))[S]
  BY <1>14 DEF Pricing!FoldFunction, Pricing!FoldFunctionOnSet, Pricing!MapThenFoldSet
<1> HIDE DEF Sums
<1> QED
  BY <1>5, <1>9, <1>13, <1>15

LEMMA Catalogue == /\ IsFiniteSet(AddOns) /\ MaxQuantity \in Nat /\ Deltas \subseteq Int /\ NoPrice \notin Int
                   /\ None \notin Pricing!Row
  BY PricingAssumption

\* What add-ons add to a price is a number, and nothing adds nothing.
Priced(rows) == rows \in [AddOns -> {None} \union Pricing!Row]
LEMMA ExtraIsNumber ==
    ASSUME NEW rows, Priced(rows)
    PROVE  Pricing!Extra(rows) \in Int
<1> DEFINE f == [a \in AddOns |-> IF rows[a] = None THEN 0 ELSE rows[a].quantity * rows[a].delta]
<1>1. ASSUME NEW a \in AddOns, rows[a] # None
      PROVE  rows[a].quantity * rows[a].delta \in Int
  <2>1. rows[a] \in Pricing!Row
    BY <1>1 DEF Priced
  <2>2. rows[a].quantity \in 1..MaxQuantity /\ rows[a].delta \in Deltas
    BY <2>1 DEF Pricing!Row
  <2>3. rows[a].quantity \in Int /\ rows[a].delta \in Int
    <3>1. 1..MaxQuantity \subseteq Int /\ Deltas \subseteq Int
      BY Catalogue
    <3> QED
      BY <2>2, <3>1
  <2>4. \A x, y \in Int : x * y \in Int
    OBVIOUS
  <2> QED
    BY <2>3, <2>4
<1>2. f \in [AddOns -> Int]
  BY <1>1
<1>3. PICK D : D = Int
  OBVIOUS
<1>4. Pricing!FoldFunction(+, 0, f) \in Int
  <2> HIDE DEF f
  <2>1. D \in SUBSET Int /\ 0 \in D /\ \A a \in AddOns, d \in D : f[a] + d \in D
    BY <1>2, <1>3
  <2>2. Pricing!FoldFunction(+, 0, f) \in D
    BY <1>2, <2>1, SumStaysIn, Catalogue
  <2> QED
    BY <1>3, <2>2
<1> QED
  BY <1>4 DEF Pricing!Extra

LEMMA NothingExtra == Priced(Pricing!NoRows) /\ Pricing!Extra(Pricing!NoRows) = 0
<1> DEFINE f == [a \in AddOns |-> IF Pricing!NoRows[a] = None THEN 0
                                  ELSE Pricing!NoRows[a].quantity * Pricing!NoRows[a].delta]
<1>1. f \in [AddOns -> Int] /\ \A a \in AddOns : f[a] = 0
  BY DEF Pricing!NoRows
<1>2. Pricing!FoldFunction(+, 0, f) \in {0}
  <2> HIDE DEF f
  <2>1. {0} \in SUBSET Int /\ \A a \in AddOns, d \in {0} : f[a] + d \in {0}
    BY <1>1
  <2> QED
    BY <1>1, <2>1, SumStaysIn, Catalogue
<1> QED
  BY <1>2 DEF Pricing!Extra, Pricing!NoRows, Priced

-----------------------------------------------------------------------------
(* What a booking costs. *)
Booking == [rows : [AddOns -> {None} \union Pricing!Row], price : Int \union {NoPrice},
            before : Int \union {NoPrice}, discount : Pricing!Discounts,
            approved : BOOLEAN, other : BOOLEAN]
\* The stored prices are those of a service at this price with the add-ons and the discount.
Costs(b, of) == /\ b \in Booking /\ of \in Int \union {NoPrice}
                /\ b.price = Pricing!Reduced(Pricing!Total(of, b.rows), b.discount)
                /\ b.before = Pricing!Before(Pricing!Total(of, b.rows), b.discount)
                /\ ~b.approved /\ of = NoPrice => b.discount = "none"
\* A row that can be sent again is of an add-on that there is.
Offered(b, o) == \A a \in AddOns : b.rows[a] # None /\ b.rows[a].linked => o[a] # None

PricingInv == /\ offer \in [AddOns -> {None} \union Pricing!AddOn]
              /\ price \in Nat \union {NoPrice}
              /\ booked # None => Costs(booked, base) /\ Offered(booked, offer)

LEMMA PricesAre ==
    ASSUME NEW rows, Priced(rows), NEW of \in Int \union {NoPrice}, NEW d \in Pricing!Discounts,
           NEW total, total = Pricing!Total(of, rows)
    PROVE  /\ total \in Int \union {NoPrice} /\ (total = NoPrice <=> of = NoPrice)
           /\ Pricing!Reduced(total, d) \in Int \union {NoPrice}
           /\ Pricing!Reduced(total, d) = NoPrice <=> of = NoPrice
           /\ Pricing!Before(total, d) \in Int \union {NoPrice}
<1>1. Pricing!Extra(rows) \in Int /\ NoPrice \notin Int
  BY ExtraIsNumber, Catalogue
<1>2. CASE of = NoPrice
  BY <1>2 DEF Pricing!Total, Pricing!Reduced, Pricing!Before
<1>3. CASE of \in Int
  <2>1. total \in Int /\ total # NoPrice /\ of # NoPrice
    BY <1>1, <1>3 DEF Pricing!Total
  <2>2. Pricing!Reduced(total, d) \in Int
    BY <2>1 DEF Pricing!Reduced
  <2> QED
    BY <1>1, <2>1, <2>2 DEF Pricing!Before
<1> QED
  BY <1>2, <1>3

\* A booking made of a price, rows and a discount costs just that.
LEMMA CostsOf ==
    ASSUME NEW rows, Priced(rows), NEW of \in Int \union {NoPrice}, NEW d \in Pricing!Discounts,
           NEW approved \in BOOLEAN, NEW other \in BOOLEAN,
           ~approved /\ of = NoPrice => d = "none",
           NEW b, b = [rows |-> rows, price |-> Pricing!Reduced(Pricing!Total(of, rows), d),
                       before |-> Pricing!Before(Pricing!Total(of, rows), d), discount |-> d,
                       approved |-> approved, other |-> other]
    PROVE  Costs(b, of)
<1>1. PICK total : total = Pricing!Total(of, rows)
  OBVIOUS
<1>2. /\ Pricing!Reduced(total, d) \in Int \union {NoPrice}
      /\ Pricing!Before(total, d) \in Int \union {NoPrice}
  BY <1>1, PricesAre
<1>3. b.rows = rows /\ b.discount = d /\ b.approved = approved
  OBVIOUS
<1> QED
  BY <1>1, <1>2, <1>3 DEF Costs, Booking, Priced

\* What the edits of a booking read off it: the price of its service, and the total.
LEMMA CostsRead ==
    ASSUME NEW b, NEW of, Costs(b, of)
    PROVE  /\ Priced(b.rows) /\ of \in Int \union {NoPrice} /\ b.discount \in Pricing!Discounts
           /\ Pricing!BookedBase(b) = of
           /\ Pricing!PreDiscount(b) = Pricing!Total(of, b.rows)
           /\ b.price = NoPrice <=> of = NoPrice
<1>1. PICK total : total = Pricing!Total(of, b.rows)
  OBVIOUS
<1>2. Priced(b.rows) /\ of \in Int \union {NoPrice} /\ b.discount \in Pricing!Discounts
  BY DEF Costs, Booking, Priced
<1>3. /\ total \in Int \union {NoPrice} /\ (total = NoPrice <=> of = NoPrice)
      /\ Pricing!Reduced(total, b.discount) = NoPrice <=> of = NoPrice
  BY <1>1, <1>2, PricesAre
<1>4. /\ b.price = Pricing!Reduced(total, b.discount)
      /\ b.before = Pricing!Before(total, b.discount)
  BY <1>1 DEF Costs
<1>5. Pricing!Extra(b.rows) \in Int /\ NoPrice \notin Int
  BY <1>2, ExtraIsNumber, Catalogue
<1>6. Pricing!PreDiscount(b) = total
  BY <1>3, <1>4 DEF Pricing!PreDiscount, Pricing!Before, Pricing!Reduced
<1>7. Pricing!BookedBase(b) = IF total = NoPrice THEN NoPrice ELSE total - Pricing!Extra(b.rows)
  BY <1>4 DEF Pricing!BookedBase, Pricing!Before, Pricing!Reduced
<1>8. Pricing!BookedBase(b) = of
  BY <1>1, <1>2, <1>3, <1>5, <1>7 DEF Pricing!Total
<1> QED
  BY <1>1, <1>2, <1>3, <1>4, <1>6, <1>8

LEMMA PricingInitOK == Pricing!Init => PricingInv
<1> SUFFICES ASSUME Pricing!Init PROVE PricingInv
  OBVIOUS
<1>1. PICK d \in Deltas : d = CHOOSE x \in Deltas : TRUE
  BY PricingAssumption
<1>2. MaxQuantity \in 1..MaxQuantity
  BY PricingAssumption
<1>3. [active |-> TRUE, most |-> MaxQuantity, exclusive |-> FALSE, delta |-> d] \in Pricing!AddOn
  BY <1>2 DEF Pricing!AddOn
<1>4. price \in Nat \union {NoPrice} /\ booked = None
  BY PricingAssumption DEF Pricing!Init
<1> QED
  BY <1>1, <1>3, <1>4 DEF Pricing!Init, PricingInv

\* The rows planned for a selection that was accepted are rows of add-ons that there are.
LEMMA PlannedRows ==
    ASSUME PricingInv, NEW sel \in Pricing!Selection, NEW had, Pricing!Resolves(sel, had),
           NEW rows, Priced(rows), NEW new, new = Pricing!Planned(sel, rows)
    PROVE  /\ Priced(new)
           /\ \A a \in AddOns : new[a] # None => offer[a] # None
<1>1. ASSUME NEW a \in AddOns, sel[a] # 0
      PROVE  /\ offer[a] \in Pricing!AddOn /\ offer[a] # None /\ sel[a] \in 1..MaxQuantity
             /\ new[a] \in Pricing!Row
  <2>1. sel[a] \in 1..MaxQuantity /\ a \in Pricing!Chosen(sel)
    BY <1>1, Catalogue DEF Pricing!Selection, Pricing!Chosen
  <2>2. offer[a] # None /\ offer[a] \in Pricing!AddOn
    BY <2>1 DEF Pricing!Resolves, PricingInv
  <2>3. CASE Pricing!Applied(rows)[a] > 0
    <3>1. rows[a] # None /\ rows[a] \in Pricing!Row
      BY <2>3 DEF Pricing!Applied, Priced
    <3>2. new[a] = [rows[a] EXCEPT !.quantity = sel[a]]
      BY <1>1, <2>3 DEF Pricing!Planned
    <3> QED
      BY <2>1, <2>2, <3>1, <3>2 DEF Pricing!Row
  <2>4. CASE ~(Pricing!Applied(rows)[a] > 0)
    <3>1. new[a] = [quantity |-> sel[a], delta |-> offer[a].delta, linked |-> TRUE]
      BY <1>1, <2>4 DEF Pricing!Planned
    <3> QED
      BY <2>1, <2>2, <3>1 DEF Pricing!Row, Pricing!AddOn
  <2> QED
    BY <2>1, <2>2, <2>3, <2>4
<1>2. \A a \in AddOns : sel[a] = 0 => new[a] = None
  BY DEF Pricing!Planned
<1>3. new = [a \in AddOns |-> new[a]]
  BY DEF Pricing!Planned
<1> QED
  BY <1>1, <1>2, <1>3 DEF Priced

LEMMA BookKeeps ==
    ASSUME PricingInv, NEW sel \in Pricing!Selection, NEW d \in Pricing!Discounts,
           NEW approved \in BOOLEAN, Pricing!Book(sel, d, approved)
    PROVE  PricingInv'
<1>1. PICK rows : rows = Pricing!Planned(sel, Pricing!NoRows)
  OBVIOUS
<1>2. Priced(rows) /\ \A a \in AddOns : rows[a] # None => offer[a] # None
  BY <1>1, PlannedRows, NothingExtra DEF Pricing!Book
<1>3. /\ booked' = [rows |-> rows, price |-> Pricing!Reduced(Pricing!Total(price, rows), d),
                     before |-> Pricing!Before(Pricing!Total(price, rows), d), discount |-> d,
                     approved |-> approved, other |-> FALSE]
      /\ Pricing!Total(price, rows) = NoPrice => d = "none"
      /\ base' = price /\ UNCHANGED <<price, offer>>
  BY <1>1 DEF Pricing!Book
<1>4. price \in Int \union {NoPrice} /\ (price = NoPrice => d = "none")
  BY <1>3 DEF PricingInv, Pricing!Total
<1>5. Costs(booked', base')
  BY <1>2, <1>3, <1>4, CostsOf
<1>6. Offered(booked', offer')
  BY <1>2, <1>3 DEF Offered
<1> QED
  BY <1>3, <1>5, <1>6 DEF PricingInv

LEMMA ApprovePriceKeeps ==
    ASSUME PricingInv, Pricing!Approve
    PROVE  PricingInv'
<1>1. /\ booked # None /\ ~booked.approved /\ UNCHANGED <<price, offer>>
      /\ Costs(booked, base) /\ Offered(booked, offer) /\ booked \in Booking
  BY DEF PricingInv, Pricing!Approve, Costs
<1>2. /\ Priced(booked.rows) /\ base \in Int \union {NoPrice} /\ booked.discount \in Pricing!Discounts
      /\ booked.price = NoPrice <=> base = NoPrice
  BY <1>1, CostsRead
<1>3. CASE booked.price = NoPrice /\ price # NoPrice
  <2>1. booked.discount = "none" /\ price \in Int /\ NoPrice \notin Int
    BY <1>1, <1>2, <1>3, Catalogue DEF Costs, PricingInv
  <2> DEFINE extra == Pricing!Extra(booked.rows)
  <2>0. extra \in Int
    BY <1>2, ExtraIsNumber
  <2>2. booked' = [booked EXCEPT !.approved = TRUE, !.price = price] /\ base' = price - extra
    BY <1>3 DEF Pricing!Approve
  <2>3. Pricing!Total(base', booked.rows) = price
    BY <2>0, <2>1, <2>2 DEF Pricing!Total
  <2>4. booked' = [rows |-> booked.rows, price |-> price, before |-> booked.before,
                   discount |-> "none", approved |-> TRUE, other |-> booked.other]
    BY <1>1, <2>1, <2>2 DEF Booking
  <2>5. booked.before = NoPrice
    BY <1>1, <2>1 DEF Costs, Pricing!Before
  <2>6. /\ Pricing!Reduced(price, "none") = price /\ Pricing!Before(price, "none") = NoPrice
        /\ base' \in Int \union {NoPrice} /\ booked.other \in BOOLEAN /\ "none" \in Pricing!Discounts
    BY <1>1, <2>0, <2>1, <2>2 DEF Pricing!Reduced, Pricing!Before, Booking, Pricing!Discounts
  <2>7. Costs(booked', base')
    BY <1>2, <2>3, <2>4, <2>5, <2>6, CostsOf
  <2>8. Offered(booked', offer')
    BY <1>1, <2>4 DEF Offered
  <2> QED
    BY <1>1, <2>7, <2>8 DEF PricingInv
<1>4. CASE ~(booked.price = NoPrice /\ price # NoPrice)
  <2>1. booked' = [booked EXCEPT !.approved = TRUE] /\ base' = base
    BY <1>1, <1>4 DEF Pricing!Approve, Booking
  <2>2. /\ booked' \in Booking /\ booked'.rows = booked.rows /\ booked'.price = booked.price
        /\ booked'.before = booked.before /\ booked'.discount = booked.discount /\ booked'.approved = TRUE
    BY <1>1, <2>1 DEF Booking
  <2>3. Costs(booked', base')
    BY <1>1, <2>1, <2>2 DEF Costs
  <2>4. Offered(booked', offer')
    BY <1>1, <2>2 DEF Offered
  <2> QED
    BY <1>1, <2>3, <2>4 DEF PricingInv
<1> QED
  BY <1>3, <1>4

LEMMA ApproveAsOtherKeeps ==
    ASSUME PricingInv, Pricing!ApproveAsOther
    PROVE  PricingInv'
<1>1. /\ booked # None /\ UNCHANGED <<price, offer>>
      /\ Costs(booked, base) /\ Offered(booked, offer) /\ booked \in Booking
  BY DEF PricingInv, Pricing!ApproveAsOther, Costs
<1>2. PICK of : of = IF \/ booked.rows # Pricing!NoRows \/ booked.discount # "none"
                        \/ booked.price = NoPrice
                     THEN OtherPrice ELSE booked.price
  OBVIOUS
<1>3. /\ of \in Int \union {NoPrice} /\ booked.discount \in Pricing!Discounts
  BY <1>1, <1>2, PricingAssumption DEF Booking
<1>4. /\ booked' = [rows |-> Pricing!NoRows, price |-> Pricing!Reduced(of, booked.discount),
                     before |-> Pricing!Before(of, booked.discount), discount |-> booked.discount,
                     approved |-> TRUE, other |-> TRUE]
      /\ base' = of
  BY <1>2 DEF Pricing!ApproveAsOther
<1>5. Pricing!Total(of, Pricing!NoRows) = of
  BY <1>3, NothingExtra DEF Pricing!Total
<1>6. Costs(booked', base')
  <2>1. PICK d \in Pricing!Discounts : d = booked.discount
    BY <1>3
  <2>2. booked' = [rows |-> Pricing!NoRows, price |-> Pricing!Reduced(Pricing!Total(of, Pricing!NoRows), d),
                   before |-> Pricing!Before(Pricing!Total(of, Pricing!NoRows), d), discount |-> d,
                   approved |-> TRUE, other |-> TRUE]
    BY <1>4, <1>5, <2>1
  <2>3. Costs(booked', of)
    BY <1>3, <2>2, NothingExtra, CostsOf
  <2> QED
    BY <1>4, <2>3
<1>7. Offered(booked', offer')
  BY <1>4 DEF Offered, Pricing!NoRows
<1> QED
  BY <1>1, <1>6, <1>7 DEF PricingInv

LEMMA PatchAddOnsKeeps ==
    ASSUME PricingInv, NEW sel \in Pricing!Selection, Pricing!PatchAddOns(sel)
    PROVE  PricingInv'
<1>1. /\ booked # None /\ booked.approved /\ UNCHANGED <<price, offer, base>>
      /\ Costs(booked, base) /\ Offered(booked, offer) /\ booked \in Booking
  BY DEF PricingInv, Pricing!PatchAddOns, Costs
<1>2. /\ Priced(booked.rows) /\ base \in Int \union {NoPrice} /\ booked.discount \in Pricing!Discounts
      /\ Pricing!BookedBase(booked) = base
  BY <1>1, CostsRead
<1>3. PICK rows : rows = Pricing!Planned(sel, booked.rows)
  OBVIOUS
<1>4. Priced(rows) /\ \A a \in AddOns : rows[a] # None => offer[a] # None
  BY <1>2, <1>3, PlannedRows DEF Pricing!PatchAddOns
<1>5. PICK d \in Pricing!Discounts : d = booked.discount
  BY <1>2
<1>6. booked' = [booked EXCEPT !.rows = rows, !.price = Pricing!Reduced(Pricing!Total(base, rows), d),
                               !.before = Pricing!Before(Pricing!Total(base, rows), d)]
  BY <1>2, <1>3, <1>5 DEF Pricing!PatchAddOns
<1>7. PICK other \in BOOLEAN : other = booked.other
  BY <1>1 DEF Booking
<1>8. booked' = [rows |-> rows, price |-> Pricing!Reduced(Pricing!Total(base, rows), d),
                 before |-> Pricing!Before(Pricing!Total(base, rows), d), discount |-> d,
                 approved |-> TRUE, other |-> other]
  BY <1>1, <1>5, <1>6, <1>7 DEF Booking
<1>9. Costs(booked', base)
  BY <1>2, <1>4, <1>8, CostsOf
<1>10. Offered(booked', offer)
  BY <1>4, <1>8 DEF Offered
<1> QED
  BY <1>1, <1>9, <1>10 DEF PricingInv

LEMMA PatchCodeKeeps ==
    ASSUME PricingInv, NEW d \in Pricing!Discounts, Pricing!PatchCode(d)
    PROVE  PricingInv'
<1>1. /\ booked # None /\ booked.approved /\ UNCHANGED <<price, offer, base>>
      /\ Costs(booked, base) /\ Offered(booked, offer) /\ booked \in Booking
  BY DEF PricingInv, Pricing!PatchCode, Costs
<1>2. /\ Priced(booked.rows) /\ base \in Int \union {NoPrice}
      /\ Pricing!PreDiscount(booked) = Pricing!Total(base, booked.rows)
  BY <1>1, CostsRead
<1>3. PICK rows : rows = booked.rows
  OBVIOUS
<1>4. booked' = [booked EXCEPT !.discount = d, !.price = Pricing!Reduced(Pricing!Total(base, rows), d),
                               !.before = Pricing!Before(Pricing!Total(base, rows), d)]
  BY <1>2, <1>3 DEF Pricing!PatchCode
<1>5. PICK other \in BOOLEAN : other = booked.other
  BY <1>1 DEF Booking
<1>6. booked' = [rows |-> rows, price |-> Pricing!Reduced(Pricing!Total(base, rows), d),
                 before |-> Pricing!Before(Pricing!Total(base, rows), d), discount |-> d,
                 approved |-> TRUE, other |-> other]
  BY <1>1, <1>3, <1>4, <1>5 DEF Booking
<1>7. Costs(booked', base)
  BY <1>2, <1>3, <1>6, CostsOf
<1>8. Offered(booked', offer)
  BY <1>1, <1>3, <1>6 DEF Offered
<1> QED
  BY <1>1, <1>7, <1>8 DEF PricingInv

LEMMA PatchServiceKeeps ==
    ASSUME PricingInv, Pricing!PatchService
    PROVE  PricingInv'
<1>1. /\ booked # None /\ booked.approved /\ UNCHANGED <<price, offer>> /\ base' = OtherPrice
      /\ Costs(booked, base) /\ booked \in Booking
  BY DEF PricingInv, Pricing!PatchService, Costs
<1>2. PICK d \in Pricing!Discounts : d = booked.discount
  BY <1>1 DEF Booking
<1>3. OtherPrice \in Int \union {NoPrice}
  BY PricingAssumption
<1>4. Pricing!Total(OtherPrice, Pricing!NoRows) = OtherPrice
  BY <1>3, NothingExtra DEF Pricing!Total
<1>5. booked' = [rows |-> Pricing!NoRows,
                 price |-> Pricing!Reduced(Pricing!Total(OtherPrice, Pricing!NoRows), d),
                 before |-> Pricing!Before(Pricing!Total(OtherPrice, Pricing!NoRows), d), discount |-> d,
                 approved |-> TRUE, other |-> TRUE]
  BY <1>1, <1>2, <1>4 DEF Booking, Pricing!PatchService
<1>6. Costs(booked', OtherPrice)
  BY <1>3, <1>5, NothingExtra, CostsOf
<1>7. Offered(booked', offer')
  BY <1>5 DEF Offered, Pricing!NoRows
<1> QED
  BY <1>1, <1>6, <1>7 DEF PricingInv

LEMMA EditAddOnKeeps ==
    ASSUME PricingInv, NEW a \in AddOns, NEW new \in Pricing!AddOn, Pricing!EditAddOn(a, new)
    PROVE  PricingInv'
<1>1. /\ offer' = [offer EXCEPT ![a] = new] /\ UNCHANGED <<price, booked, base>>
  BY DEF Pricing!EditAddOn
<1>2. new # None
  BY PricingAssumption
<1>3. /\ offer' \in [AddOns -> {None} \union Pricing!AddOn]
      /\ \A c \in AddOns : offer[c] # None => offer'[c] # None
  BY <1>1, <1>2 DEF PricingInv
<1>4. booked # None => Offered(booked, offer')
  BY <1>3 DEF PricingInv, Offered
<1> QED
  BY <1>1, <1>3, <1>4 DEF PricingInv

\* A deleted add-on leaves the rows their numbers, and so the booking its price.
LEMMA DeleteAddOnKeeps ==
    ASSUME PricingInv, NEW a \in AddOns, Pricing!DeleteAddOn(a)
    PROVE  PricingInv'
<1>1. /\ offer' = [offer EXCEPT ![a] = None] /\ UNCHANGED <<price, base>>
      /\ offer' \in [AddOns -> {None} \union Pricing!AddOn]
      /\ \A c \in AddOns \ {a} : offer'[c] = offer[c]
  BY DEF Pricing!DeleteAddOn, PricingInv
<1>2. CASE booked = None \/ booked.rows[a] = None
  <2>1. booked' = booked
    BY <1>2 DEF Pricing!DeleteAddOn
  <2>2. booked # None => Offered(booked, offer')
    BY <1>1, <1>2 DEF PricingInv, Offered
  <2> QED
    BY <1>1, <2>1, <2>2 DEF PricingInv
<1>3. CASE booked # None /\ booked.rows[a] # None
  <2>1. Costs(booked, base) /\ Offered(booked, offer) /\ booked \in Booking
    BY <1>3 DEF PricingInv, Costs
  <2>2. PICK rows : rows = [booked.rows EXCEPT ![a].linked = FALSE]
    OBVIOUS
  <2>3. booked.rows[a] \in Pricing!Row /\ booked.rows \in [AddOns -> {None} \union Pricing!Row]
    BY <1>3, <2>1 DEF Booking
  <2>4. PICK r : r = [booked.rows[a] EXCEPT !.linked = FALSE]
    OBVIOUS
  <2>5. /\ r \in Pricing!Row /\ r.quantity = booked.rows[a].quantity /\ r.delta = booked.rows[a].delta
        /\ r.linked = FALSE /\ r # None
    <3>1. r = [quantity |-> booked.rows[a].quantity, delta |-> booked.rows[a].delta, linked |-> FALSE]
      BY <2>3, <2>4 DEF Pricing!Row
    <3>2. booked.rows[a].quantity \in 1..MaxQuantity /\ booked.rows[a].delta \in Deltas
      BY <2>3 DEF Pricing!Row
    <3>3. r \in Pricing!Row
      BY <3>1, <3>2 DEF Pricing!Row
    <3> QED
      BY <3>1, <3>3, Catalogue
  <2>6. rows = [booked.rows EXCEPT ![a] = r]
    BY <2>2, <2>4
  <2>7. /\ Priced(rows) /\ rows[a] = r /\ \A c \in AddOns \ {a} : rows[c] = booked.rows[c]
    BY <2>3, <2>5, <2>6 DEF Priced
  <2>8. \A c \in AddOns : /\ rows[c] = None <=> booked.rows[c] = None
                          /\ rows[c].quantity = booked.rows[c].quantity /\ rows[c].delta = booked.rows[c].delta
    BY <1>3, <2>5, <2>7
  <2>9. Pricing!Extra(rows) = Pricing!Extra(booked.rows)
    <3>1. [c \in AddOns |-> IF rows[c] = None THEN 0 ELSE rows[c].quantity * rows[c].delta]
            = [c \in AddOns |-> IF booked.rows[c] = None THEN 0
                               ELSE booked.rows[c].quantity * booked.rows[c].delta]
      BY <2>8
    <3> QED
      BY <3>1 DEF Pricing!Extra
  <2>10. booked' = [booked EXCEPT !.rows = rows]
    BY <1>3, <2>2 DEF Pricing!DeleteAddOn
  <2>11. /\ booked' \in Booking /\ booked'.rows = rows /\ booked'.price = booked.price
         /\ booked'.before = booked.before /\ booked'.discount = booked.discount
         /\ booked'.approved = booked.approved
    BY <2>1, <2>7, <2>10 DEF Booking, Priced
  <2>12. Costs(booked', base)
    BY <2>1, <2>9, <2>11 DEF Costs, Pricing!Total
  <2>13. Offered(booked', offer')
    BY <1>1, <2>1, <2>5, <2>7, <2>11 DEF Offered
  <2> QED
    BY <1>1, <2>12, <2>13 DEF PricingInv
<1> QED
  BY <1>2, <1>3

LEMMA PricingStepOK == PricingInv /\ [Pricing!Next]_(Pricing!pricingVars) => PricingInv'
<1> SUFFICES ASSUME PricingInv, [Pricing!Next]_(Pricing!pricingVars) PROVE PricingInv'
  OBVIOUS
<1>1. CASE UNCHANGED Pricing!pricingVars
  BY <1>1 DEF PricingInv, Pricing!pricingVars
<1>2. ASSUME NEW p \in Prices, Pricing!EditPrice(p) PROVE PricingInv'
  <2>1. p \in Nat \union {NoPrice}
    BY PricingAssumption
  <2> QED
    BY <1>2, <2>1 DEF PricingInv, Pricing!EditPrice
<1> QED
  BY <1>1, <1>2, BookKeeps, PatchAddOnsKeeps, ApprovePriceKeeps, ApproveAsOtherKeeps, PatchServiceKeeps,
     PatchCodeKeeps, EditAddOnKeeps, DeleteAddOnKeeps DEF Pricing!Next

\* A booking that can be sent again in full is accepted, and planned as it is.
LEMMA ResavingChangesNothing ==
    ASSUME PricingInv, booked # None,
           \A a \in AddOns : booked.rows[a] # None => booked.rows[a].linked
    PROVE  /\ Pricing!Resolves(Pricing!Applied(booked.rows), Pricing!Applied(booked.rows))
           /\ Pricing!Planned(Pricing!Applied(booked.rows), booked.rows) = booked.rows
<1>1. PICK rows \in [AddOns -> {None} \union Pricing!Row] : rows = booked.rows
  BY DEF PricingInv, Costs, Booking
<1>2. PICK kept : kept = Pricing!Applied(rows)
  OBVIOUS
<1>3. \A a \in AddOns : kept[a] = IF rows[a] # None /\ rows[a].linked THEN rows[a].quantity ELSE 0
  BY <1>2 DEF Pricing!Applied
<1>4. ASSUME NEW a \in AddOns, rows[a] # None
      PROVE  /\ rows[a] \in Pricing!Row /\ kept[a] = rows[a].quantity /\ kept[a] \in 1..MaxQuantity
             /\ offer[a] \in Pricing!AddOn /\ offer[a] # None
  <2>1. rows[a] \in Pricing!Row /\ rows[a].linked
    BY <1>1, <1>4
  <2>2. kept[a] = rows[a].quantity /\ rows[a].quantity \in 1..MaxQuantity
    BY <1>3, <1>4, <2>1 DEF Pricing!Row
  <2>3. offer[a] # None
    BY <1>1, <1>4, <2>1 DEF PricingInv, Offered
  <2>4. offer[a] \in Pricing!AddOn
    BY <2>3 DEF PricingInv
  <2> QED
    BY <2>1, <2>2, <2>3, <2>4
<1>5. \A a \in AddOns : rows[a] = None => kept[a] = 0
  BY <1>3
<1>6. \A a \in Pricing!Chosen(kept) : a \in AddOns /\ rows[a] # None
  BY <1>5 DEF Pricing!Chosen
<1>7. ASSUME NEW a \in Pricing!Chosen(kept)
      PROVE  offer[a] # None /\ kept[a] > 0 /\ kept[a] <= Pricing!Limit(a, kept)
  <2>1. rows[a] # None /\ a \in AddOns
    BY <1>6, <1>7
  <2>2. kept[a] \in 1..MaxQuantity /\ offer[a] \in Pricing!AddOn /\ offer[a] # None
    BY <1>4, <2>1
  <2>3. offer[a].most \in 1..MaxQuantity
    BY <2>2 DEF Pricing!AddOn
  <2>4. kept[a] \in Nat /\ offer[a].most \in Nat /\ kept[a] > 0
    BY <2>2, <2>3, Catalogue
  <2> QED
    BY <2>2, <2>4 DEF Pricing!Limit
<1>8. Pricing!Resolves(kept, kept)
  BY <1>7 DEF Pricing!Resolves
<1>9. ASSUME NEW a \in AddOns PROVE Pricing!Planned(kept, rows)[a] = rows[a]
  <2>1. CASE rows[a] = None
    BY <1>5, <2>1 DEF Pricing!Planned
  <2>2. CASE rows[a] # None
    <3>1. /\ rows[a] \in Pricing!Row /\ kept[a] = rows[a].quantity /\ kept[a] # 0 /\ kept[a] > 0
      BY <1>4, <2>2, Catalogue
    <3>2. Pricing!Planned(kept, rows)[a] = [rows[a] EXCEPT !.quantity = kept[a]]
      BY <1>2, <3>1 DEF Pricing!Planned
    <3> QED
      BY <3>1, <3>2 DEF Pricing!Row
  <2> QED
    BY <2>1, <2>2
<1>10. Pricing!Planned(kept, rows) = rows
  <2>1. Pricing!Planned(kept, rows) = [a \in AddOns |-> Pricing!Planned(kept, rows)[a]]
    BY DEF Pricing!Planned
  <2> QED
    BY <1>9, <2>1
<1> QED
  BY <1>1, <1>2, <1>8, <1>10

LEMMA PricingHolds == PricingInv => Pricing!PriceAddsUp /\ Pricing!ResavingIsHarmless
<1> SUFFICES ASSUME PricingInv, booked # None PROVE Pricing!PriceAddsUp /\ Pricing!ResavingIsHarmless
  BY DEF Pricing!PriceAddsUp, Pricing!ResavingIsHarmless
<1>1. Costs(booked, base)
  BY DEF PricingInv
<1>2. /\ Pricing!BookedBase(booked) = base /\ (booked.price = NoPrice <=> base = NoPrice)
  BY <1>1, CostsRead
<1>3. Pricing!PriceAddsUp
  BY <1>1, <1>2 DEF Pricing!PriceAddsUp, Costs
<1> QED
  BY <1>2, <1>3, ResavingChangesNothing DEF Pricing!ResavingIsHarmless

\* BookingsKeepTheirPrice: through every edit a booking costs what its parts did when they
\* were chosen, and saving it again changes nothing, for any add-ons, prices and edits
\* (BookingPricing's model of app/appointments/add_ons/service.py and the handlers that copy
\* or recompute a price).
THEOREM PricesAreKept == Spec => []BookingsKeepTheirPrice
<1> DEFINE Inv == focus = "pricing" => PricingInv
<1>1. Init => Inv
  BY PricingInitOK DEF Init
<1>2. Inv /\ [Next]_vars => Inv'
  <2> SUFFICES ASSUME Inv, [Next]_vars, focus' = "pricing" PROVE PricingInv'
    OBVIOUS
  <2> focus = "pricing" /\ [Pricing!Next]_(Pricing!pricingVars)
    BY DEF Next, vars, catalogueVars, pricingVars, Pricing!pricingVars, CalendarStep, ServiceStep,
           PricingStep, FormStep, TermsStep, SubmissionStep
  <2> QED
    BY PricingStepOK
<1>3. Inv => BookingsKeepTheirPrice
  BY PricingHolds DEF BookingsKeepTheirPrice
<1> QED
  BY <1>1, <1>2, <1>3, PTL DEF Spec
=============================================================================
