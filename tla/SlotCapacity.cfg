SPECIFICATION Spec
CONSTANTS
    Bookings = {b1, b2, b3}
    Employees = {m1, m2}
    NoEmployee = NoEmployee
    Windows <- MCWindows
    MaxCapacity = 2
    Opens = 0
    Closes = 3
    Horizon = 3
    MaxMinutes = 2
CONSTRAINT OneUnusual
SYMMETRY Symmetry
INVARIANTS PeakIsBusiest
PROPERTIES OverbookedOnlyByFact RequestsLeaveReservedBays 
