SPECIFICATION FairSpec
CONSTANTS
    None = None
    Jobs = {j1}
    Pages = {p1}
    Threshold = 2
    MaxTokens = 2
    MaxVersion = 2
    MaxFaults = 2
INVARIANTS TypeOK TokenIsSafe
CHECK_DEADLOCK FALSE
PROPERTIES DegradedIsNotForever
