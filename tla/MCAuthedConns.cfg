SPECIFICATION AuthedFairSpec
CONSTANTS
    Conns = {c1, c2}
    Modes = {m, n}
    UserMode = m
    None = None
    BindMayFail = TRUE
INVARIANTS Inv AllReleased ModeRestored
PROPERTIES WallpaperIsShared PrintingIsShared
CHECK_DEADLOCK FALSE
