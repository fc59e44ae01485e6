SPECIFICATION Spec
CONSTANTS
    b1 = b1
    b2 = b2
    t1 = t1
    t2 = t2
    None = None
    Clear = Clear
    Browser = {b1}
    Thread = {t1, t2}
    ActMax = 5
    SessionMax = 2
    TokenMax = 3
    PasswordMax = 2
    MailMax = 1
    MaxPerSession = 1
    MaxPerUser = 1
    Routes = {"use", "logout", "endSession", "endOthers", "password", "deleteMe", "login", "confirm", "ws"}
    Admin = {"deactivate", "activate", "reset"}
    MayLose = TRUE
    MayExpire = TRUE
SYMMETRY Alike
INVARIANTS
    CookieFollows
    CutOffHolds
    SocketsFollow
PROPERTIES
    RevokedStaysDead
CHECK_DEADLOCK FALSE
