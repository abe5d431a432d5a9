\* All graphs of three components, all kinds, waiting and slow threads.
SPECIFICATION FairSpec
CONSTANTS
    RELAY = RELAY
    NET = NET
    BUF = BUF
    Components <- MCComponents
    Systems <- MCSystems
    MaxStarts = 2
INVARIANTS
    DependencyOrder
    CycleIsReal
    DependenciesConstructed
    StopStopsEverything
    RestartRestores
    AssertionsHold
PROPERTIES
    StartsAfterDependencies
    StopsBeforeDependencies
    CallsReturn
