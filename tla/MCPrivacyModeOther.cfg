SPECIFICATION Spec
CONSTANTS
    Conns = {c1, c2}
    Ipc = Ipc
    None = None
    Outputs = {o1, o2}
    Devices = {d1}
    MaxStarts = 2
INVARIANT MineUntilIEnd
CHECK_DEADLOCK FALSE
