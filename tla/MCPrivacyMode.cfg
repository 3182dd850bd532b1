SPECIFICATION FairSpec
CONSTANTS
    Conns = {c1, c2}
    Ipc = Ipc
    None = None
    Outputs = {o1, o2}
    Devices = {d1}
    MaxStarts = 2
INVARIANTS Inv ScreenRestored OnIsDark
PROPERTY CrashRestored
CHECK_DEADLOCK FALSE
