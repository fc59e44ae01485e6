SPECIFICATION Spec
CONSTANTS
    s1 = s1
    s2 = s2
    s3 = s3
    a = a
    b = b
    x = x
    t1 = t1
    t2 = t2
    None = None
    Session = {s1, s2, s3}
    Task = {a, b}
    Subtask = {x}
    TaskOf <- OneSubtask
    Mine = {a}
    Thread = {t1, t2}
    Tolerance = 1
    Horizon = 1
    ActMax = 4
    Kinds = {"create", "patch", "delete", "restore", "export", "import", "start", "stop", "switch"}
SYMMETRY Alike
INVARIANTS
    GuardedAreDisjoint
    TimerOverlapIsLater
PROPERTIES
    RunningIsSpared
CHECK_DEADLOCK FALSE
