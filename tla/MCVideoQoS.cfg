SPECIFICATION QoSFairSpec
CONSTANTS
    Viewers = {1, 2}
    None = None
    Delays <- OneBadNetwork
    Limits = {2}
    AutoLimits = {3}
    Qualities = {"best"}
    FPS = 6
    INIT_FPS = 3
    MinFps <- SmallMinFps
    MIN_SAMPLES = 1
    WINDOW_SAMPLES = 2
    MaxOptions = 1
INVARIANT QoSInv
PROPERTIES LimitObserved Recovers
CHECK_DEADLOCK FALSE
