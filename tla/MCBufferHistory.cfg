\* Two dynamic pools of two frames, garbage collector, malloc() may fail; StaticBacklog = 1 is
\* raised to 2 by cfgFix().
SPECIFICATION Spec
CONSTANTS
    CfgStaticBacklog = 1
    DynBacklog = 2
    DynIncrements = 2
    History = TRUE
    CfgGC = TRUE
    GCLevel = 1
    MallocMayFail = TRUE
    WithReset = FALSE
    NULL = NULL
    MaxCommits = 5
    MaxFlushes = 1
    MaxGCRuns = 2
INVARIANTS
    NoLeakNoDangling
    SingleOwner
    AbortsOnlyIfMisconfigured
    NoLostWakeup
PROPERTIES
    LossIsAccounted
    ImplementsFrameQueue
