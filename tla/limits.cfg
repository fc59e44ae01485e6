SPECIFICATION Spec
CONSTANTS
    ip1 = ip1
    ip2 = ip2
    ip3 = ip3
    ann = ann
    ben = ben
    t1 = t1
    t2 = t2
    None = None
    Ip = {ip1, ip2, ip3}
    Name = {ann}
    Thread = {t1, t2}
    Limit <- Limits
    Window <- Windows
    Slack = 1
    Scenes <- AllScenes
INVARIANTS
    BudgetHolds
    NoneRefusedEarly
    LockoutTakesMany
CHECK_DEADLOCK FALSE
