SPECIFICATION FatSpec
CONSTANTS
    Volumes <- MCVolumes
    PerCluster = 2
    Batch = 2
    MaxFiles = 2
    MaxCrashes = 1
INVARIANTS
    CrashConsistent
    NoStaleBytes
    ClustersAccounted
CHECK_DEADLOCK FALSE
