SPECIFICATION Spec
CONSTANTS
    ann = ann
    ben = ben
    p1 = p1
    p2 = p2
    c1 = c1
    c2 = c2
    s1 = s1
    t1 = t1
    t2 = t2
    n1 = n1
    n2 = n2
    None = None
    User = {ann, ben}
    Project = {p1, p2}
    Task = {c1, c2}
    Name = {n1, n2}
    Owner = ann
    First = {p1}
    FirstTasks = {c1, c2}
    Subtask = {s1}
    FirstSubs = {s1}
    Editor = {ann, ben}
    Manager = {ann, ben}
    Thread = {t1, t2}
    Scenes <- AllScenes
    MayDie = TRUE
SYMMETRY Alike
INVARIANTS
    CheckedEdgesAreLegal
    DevicesFollow
    NoTaskOutlivesProject
CHECK_DEADLOCK FALSE
