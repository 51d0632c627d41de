\* One item that can hold twice what there is room for; the disk fills up or not.
SPECIFICATION FairSpec
CONSTANTS
    Threads = {t1, t2}
    Names = {n1}
    Nobody = Nobody  Clean = Clean  Io = Io
    CacheMaxSize = 1
    CacheMinFreeSpace = TRUE
    CachePollInterval = TRUE
    RootAtStart = TRUE
    MaxSize = 2
    MaxKicks = 2
    MaxFlips = 1
INVARIANTS TypeOK KickFindsRoom SleepersHaveReason ResetIsRemembered
PROPERTIES KickReturns MeetsQuota
