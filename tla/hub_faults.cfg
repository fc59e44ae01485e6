SPECIFICATION Spec
CONSTANTS
    a = a
    b = b
    r1 = r1
    r2 = r2
    None = None
    Req = {r1}
    Task = {a, b}
    Settings <- JustOn
    DefaultSettings <- Off
    TwelveHours = 3
    OneHour = 1
    Edits = {}
    Faults = {"rejected", "unacknowledged", "unreadable"}
    SlowHandlers = TRUE
    MaxFaults = 2
    MaxEvictions = 1
    MaxSessions = 3
    MaxTime = 2
    Horizon = 2
INVARIANTS
    OpenIsRecoverable
    NoOverlap
PROPERTIES
    EndedIsFinal
CHECK_DEADLOCK FALSE
