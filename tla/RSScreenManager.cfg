SPECIFICATION ScreenSpec
CONSTANTS
    p1 = p1
    p2 = p2
    Phys = {p1, p2}
    Mipi = {p1}
    INVALID_SCREEN_ID = INVALID_SCREEN_ID
    Surfaces = {s1}
    NoSurface = NoSurface
    Mirrored = {0}
    Callbacks = {c1}
    MaxVirtual = 2
    MaxEvents = 2
    MaxFree = 2
INVARIANTS ScreenTypeOK ToldOfScreens DefaultScreen
CHECK_DEADLOCK FALSE
