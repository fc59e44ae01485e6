SPECIFICATION Spec
CONSTANTS
    a = a
    b = b
    r1 = r1
    r2 = r2
    None = None
    Req = {r1, r2}
    Task = {a, b}
    Settings <- JustOff
    DefaultSettings <- Off
    TwelveHours = 3
    OneHour = 1
    Edits = {}
    Faults = {"rejected", "unacknowledged", "unreadable"}
    SlowHandlers = TRUE
    MaxFaults = 1
    MaxEvictions = 1
    MaxSessions = 3
    MaxTime = 1
    Horizon = 1
SYMMETRY Interchangeable
INVARIANTS
    MirrorIsOpen
    RunningIsRecorded
PROPERTIES
    ImplementsSingleTimer
CHECK_DEADLOCK FALSE
