SPECIFICATION FairSpec
CONSTANTS
    Displays = {d1}
    Conns = {c1}
    AckConns = {c1}
    MaxLag = 2
    MaxNotified = 2
PROPERTY Decodes
CHECK_DEADLOCK FALSE
