SPECIFICATION FairSpec
CONSTANTS
    MaxQueue = 4
INVARIANTS StreamInv PasswordLoginIsClean
PROPERTY ForwardingStarts
CHECK_DEADLOCK FALSE
