\* Recovery reopens an approved request.
CONSTANTS
    r1 = r1
    r2 = r2
    Requests <- OneRequest
    MaxAttempts = 1
    Capacity = 2
    TwoPhase = FALSE
    EventCopies = 1
    Crashes = FALSE
SPECIFICATION Spec
CHECK_DEADLOCK FALSE
INVARIANTS OneAppointmentPerRequest
