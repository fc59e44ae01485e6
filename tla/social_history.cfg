SPECIFICATION Spec
CONSTANTS
    ann = ann
    ben = ben
    cat = cat
    g1 = g1
    g2 = g2
    p1 = p1
    p2 = p2
    c1 = c1
    c2 = c2
    m1 = m1
    t1 = t1
    t2 = t2
    None = None
    User = {ann, ben, cat}
    Thread = {t1, t2}
    Scenes <- AllScenes
    MayDie = TRUE
    FriendsMax = 1
    PendingMax = 1
    Group = {g1, g2}
    Project = {p1, p2}
    Task = {c1, c2}
    Message = {m1}
    Home = g1
    Founder = ann
    Second = ben
    Shared = p1
    Todo = c1
    Perm = {"invite_members", "remove_members", "manage_projects", "edit_tasks", "moderate_messages"}
    Grants <- AllOrNone
    GroupsMax = 1
    MembersMax = 2
    LinksMax = 1
    Uses <- OnceOrMore
SYMMETRY Alike
PROPERTY TimeOutlivesGroup
CHECK_DEADLOCK FALSE
