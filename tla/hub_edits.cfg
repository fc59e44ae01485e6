SPECIFICATION Spec
CONSTANTS
    a = a
    b = b
    r1 = r1
    r2 = r2
    None = None
    Req = {r1}
    Task = {a}
    Settings <- OnOff
    DefaultSettings <- Off
    TwelveHours = 3
    OneHour = 1
    Edits = {"settings", "profile", "tombstone", "group", "archive", "undo"}
    Faults = {"rejected", "unnotified"}
    SlowHandlers = TRUE
    MaxFaults = 1
    MaxEvictions = 1
    MaxSessions = 2
    MaxTime = 1
    Horizon = 3
INVARIANTS
    AtRestAgree
CHECK_DEADLOCK FALSE
