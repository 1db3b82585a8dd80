SPECIFICATION Spec
CONSTANTS
    Entries = {e1, e2, e3, e4}
    Phones = {p1}
    NoPhone = NoPhone
    LastDay = 2
SYMMETRY Symmetry
CONSTRAINTS ThreeOrAllWaiting SettingsFirst
INVARIANTS LineIsSound ServedMeansAppointment
PROPERTIES KeepsTurns OnlyStaffCallOutOfTurn FreedBaysAreOffered
