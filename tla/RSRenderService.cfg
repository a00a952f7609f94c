SPECIFICATION FairSpec
CONSTANTS
    c1 = c1
    c2 = c2
    a = a
    b = b
    s1 = s1
    Phys = {}
    Mipi = {}
    INVALID_SCREEN_ID = INVALID_SCREEN_ID
    Surfaces = {s1}
    NoSurface = NoSurface
    Mirrored = {INVALID_SCREEN_ID}
    Callbacks = {c1, c2}
    MaxVirtual = 2
    MaxEvents = 0
    MaxFree = 0
    Clients = {a, b}
    NoConn = NoConn
    SurfaceOf <- MCSurfaceOf
    Operations = {"create", "surface", "remove", "callback", "noCallback", "node", "vsync", "commit"}
    MaxCalls = 2
    MaxInputs = 6
INVARIANTS TypeOK OwnScreens NothingLeft
PROPERTIES HeldKept DeadClientGone
CHECK_DEADLOCK FALSE
