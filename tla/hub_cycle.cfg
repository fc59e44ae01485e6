SPECIFICATION FairSpec
CONSTANTS
    a = a
    b = b
    r1 = r1
    r2 = r2
    None = None
    Req = {r1}
    Task = {a, b}
    Settings <- Cycling
    DefaultSettings <- Off
    TwelveHours = 3
    OneHour = 1
    Edits = {}
    Faults = {}
    SlowHandlers = FALSE
    MaxFaults = 0
    MaxEvictions = 1
    MaxSessions = 2
    MaxTime = 5
    Horizon = 3
INVARIANTS
    FocusIsTracked
    PomoIsDurable
    BreakNeverTracks
    DeadlinesAreArmed
PROPERTIES
    BreakEnds
CHECK_DEADLOCK FALSE
