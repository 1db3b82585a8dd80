\* One two-phase checkout with a retry after a declined or lost charge; a success
\* may be reported under two ids, and workers die.
CONSTANTS
    r1 = r1
    r2 = r2
    Requests <- OneRequest
    MaxAttempts = 2
    Capacity = 1
    TwoPhase = TRUE
    EventCopies = 2
    Crashes = TRUE
SPECIFICATION Spec
CHECK_DEADLOCK FALSE
INVARIANTS PaidBeforeReview RefundedAtMostOnce
PROPERTIES KeepsPromise  SubmissionIsExclusive
