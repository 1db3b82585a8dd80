\* Two checkouts compete for the last bay, up to the first refund.
CONSTANTS
    r1 = r1
    r2 = r2
    Requests <- TwoRequests
    MaxAttempts = 1
    Capacity = 1
    TwoPhase = FALSE
    EventCopies = 1
    Crashes = FALSE
SPECIFICATION Spec
CONSTRAINT BeforeRefunds
CHECK_DEADLOCK FALSE
PROPERTIES OverbookedOnlyByRecovery
SYMMETRY RequestSymmetry
