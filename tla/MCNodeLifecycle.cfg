\* One start, one cleanup, every failure; two requests and two side effects.
SPECIFICATION FairSpec
CONSTANT MaxWork = 2
INVARIANTS ReleasedIsIdle DrainIsAlone CleanupLeavesNothing OpenMeansServing LifecycleInv
PROPERTIES CleanupEnds FatalEndsService
CHECK_DEADLOCK FALSE
