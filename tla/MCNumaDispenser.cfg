SPECIFICATION FairSpec
CONSTANTS
    Threads = {t1, t2, t3}
    OBJECTS = 3
    TOT_NUMA_NODES = 3
    Nothing = Nothing
    Layouts <- ConsecutiveLayouts
INVARIANT TypeOK
PROPERTIES HandsOutEveryObjectOnce SearchEnds
