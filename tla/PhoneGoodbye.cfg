\* A conversation the assistant ended is not rung through to a person.
CONSTANTS
    None = None
    Workers = {w1, w2}
    Types = {t1, t2}
    Days = {y1, y2}
    Times = {x1}
    Appts = {a1}
    MaxRounds = 1
    MaxUnresolved = 1
    Messages = {m1, m2}
    Redelivered = {m1}
    MaxSessions = 2
    Dests = {d1, d2, e1}
    People <- MCPeople
    MaxAttempts = 2
    MaxRepeats = 1
    MaxHuman = 2
    MaxReconnects = 1
    MaxEdits = 1
    Deliveries = {e1, e2}
    ToolCalls = {f1, f2}
    Services = {v1, v2}
    Slots = {x1, x2}
    Codes = {k1, k2}
    Copies = {p1, p2}
    MaxEvents = 2
    MaxAccidents = 1
    MaxTime = 3
SPECIFICATION MCSpec
CHECK_DEADLOCK FALSE
INVARIANTS FinishedCallsHangUp
