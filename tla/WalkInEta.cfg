SPECIFICATION Spec
CONSTANTS
    Inputs <- MCInputs
    OverrunGrace = 1
    NoStart = NoStart
    MaxTime = 5
    MaxRows = 2
    MaxQueue = 3
    MaxMinutes = 2
    MaxCapacity = 2
INVARIANTS EstimatesHold EarliestPossible
CHECK_DEADLOCK FALSE
