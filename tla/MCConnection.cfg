SPECIFICATION FairSpec
CONSTANTS
    Kinds = {"camera", "forward"}
    Perms = {"keyboard", "audio"}
    OptionMessages <- MCDisableKeyboard
    PeerInputs = {"options", "voice", "auth_2fa", "invite", "switch_sides"}
    MaxQueue = 1
INVARIANTS SubscriptionsFollow CallInv
PROPERTIES EndIsShown CloseEnds
CHECK_DEADLOCK FALSE
