SPECIFICATION FairSpec
CONSTANTS
    Conns = {c1, c2}
    Services = {camera0}
    NeedSnapshot = {camera0}
    Monitors = {}
    Cameras = {camera0}
    PrimaryMonitor = {}
    PrimaryCamera = {camera0}
    InitServices = {}
    MayBail = {camera0}
    NoConn = NoConn
    MaxVer = 2
INVARIANTS ServiceInv RemovedIsGone SubscribeTakesEffect
PROPERTIES NeverOlder NewIsPromoted DropEnds
CHECK_DEADLOCK FALSE
