SPECIFICATION Spec
CONSTANTS
    None = None
    Jobs = {j1}
    Pages = {p1}
    Threshold = 2
    MaxTokens = 2
    MaxVersion = 2
    MaxFaults = 2
PROPERTIES OnlyASignInEndsReauthorization
CHECK_DEADLOCK FALSE
