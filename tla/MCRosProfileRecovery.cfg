SPECIFICATION FairSpec
CONSTANTS
    None = None
    MaxRuns = 2
    RetryLimit = 0
    MaxFaults = 1
INVARIANTS TypeOK CyclesKeptApart JudgedOnce
PROPERTIES EveryProfileSettles
CHECK_DEADLOCK FALSE
