SPECIFICATION FairCacheSpec
CONSTANTS
    Absent = Absent
    g1 = g1
    g2 = g2
    Builders = {b1, b2}
    Generations = {g1, g2}
    Instants = {1, 2}
    Refreshes <- MCRefreshes
    MaxCacheFaults = 2
INVARIANTS CacheTypeOK CacheIsSound
PROPERTIES KeepsThePin EveryBuildEnds
