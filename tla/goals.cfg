SPECIFICATION Spec
CONSTANTS
    g1 = g1
    g2 = g2
    c1 = c1
    c2 = c2
    p1 = p1
    p2 = p2
    s1 = s1
    s2 = s2
    ann = ann
    ben = ben
    t1 = t1
    t2 = t2
    k1 = k1
    k2 = k2
    None = None
    Goal = {g1, g2}
    Task = {c1, c2}
    Project = {p1, p2}
    Home = p1
    Session = {s1, s2}
    User = {ann, ben}
    Me = ann
    Zone <- Zones
    Day <- Days
    DayStarts <- Table
    PerMinute = 2
    DayLength = 2
    DaysInWeek = 2
    DaysInMonth = 3
    Slack = 2
    MaxWindows = 4
    Forever = 99
    Tolerance = 1
    Horizon = 5
    Thread = {t1, t2}
    Check = {k1, k2}
    Scenes <- AllScenes
SYMMETRY Alike
INVARIANTS
    AllTimeIsCounted
    ReportsAgree
    DevicesFollow
    ReportedOnce
    StreaksAreRuns
PROPERTIES
    ElapsedIsSettled
CHECK_DEADLOCK FALSE
