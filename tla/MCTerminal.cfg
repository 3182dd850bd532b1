SPECIFICATION FairSpec
CONSTANTS
    c1 = c1
    c2 = c2
    Conns = {c1, c2}
    Cleaner = Cleaner
    None = None
    Capacity = 1
    Echoes = TRUE
    Reads = TRUE
    Scenarios <- MCScenarios
INVARIANTS Inv OutputBeforeClosed
PROPERTIES CallsEnd ShellReaped
CHECK_DEADLOCK FALSE
