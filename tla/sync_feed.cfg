SPECIFICATION FairSpec
CONSTANTS
    phone = phone
    laptop = laptop
    server = server
    a = a
    b = b
    p1 = p1
    p2 = p2
    None = None
    Device = {laptop}
    Key = {a, b}
    Rowless = {b}
    Writers = {laptop, server}
    Connected = {}
    Slot = {p1}
    PageSize = 1
    MaxDrain = 1
    MaxEvents = 2
    MaxLost = 1
    MaxFrames = 1
INVARIANTS
    CursorInLog
    FallbackMissesNothing
    FallbackIsPrefix
PROPERTIES
    FallbackConverges
