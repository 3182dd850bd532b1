SPECIFICATION Spec
CONSTANTS
    Displays = {d1}
    Conns = {c1, c2}
    AckConns = {}
    MaxLag = 1
    MaxNotified = 1
SYMMETRY Symmetry
INVARIANTS EncoderInv RefreshNotLost
CHECK_DEADLOCK FALSE
