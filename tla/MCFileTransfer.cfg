SPECIFICATION FTFairSpec
CONSTANTS
    Scenarios <- MCScenarios
    None = None
INVARIANTS Inv DoneIsWhole KeptAsItWas NothingLeft
PROPERTY JobEnds
CHECK_DEADLOCK FALSE
