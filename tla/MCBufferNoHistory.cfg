\* History disabled: no dynamic pools, GC ignored, flush upon reconnection.
SPECIFICATION FairSpec
CONSTANTS
    CfgStaticBacklog = 3
    DynBacklog = 1
    DynIncrements = 2
    History = FALSE
    CfgGC = TRUE
    GCLevel = 1
    MallocMayFail = TRUE
    WithReset = TRUE
    NULL = NULL
    MaxCommits = 5
    MaxFlushes = 1
    MaxGCRuns = 2
PROPERTIES
    EveryFrameLeaves
