SPECIFICATION Spec
CONSTANTS
    t1 = t1
    t2 = t2
    t3 = t3
    Null = Null
    Threads <- MCThreads
    NumCores = 2
    LowestPriority = 1
    HighestCoreMigrationAllowedPriority = 1
    PinnedMayYield = FALSE
    PreemptPriority <- MCPreempt
    CoreMaskArgs <- MCMasks
    Pinnable = {t1}
    LockHolders = {t2}
INVARIANTS
    SchedulerInv
    DecisionIsRight
    NoNeedlessIdling
    SkippedYieldsAreIdle
CONSTRAINT OneSteady
