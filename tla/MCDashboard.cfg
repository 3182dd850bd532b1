SPECIFICATION FairSpec
CONSTANTS
    Conns = {c1, c2}
    Thread = Thread
    Accounts = {a, b}
    Files = {a}
    Tokens = {b}
    None = None
    MaxInvites = 2
    MaxQueue = 1
INVARIANT Inv
PROPERTIES RequestAnswered UnlinkedGoesOffline
CHECK_DEADLOCK FALSE
