SPECIFICATION LiveSwitchSpec
CONSTANTS
    t1 = t1
    t2 = t2
    t3 = t3
    Null = Null
    Host = Host
    Free = Free
    Threads <- MCTwoThreads
    NumCores = 2
    LowestPriority = 0
    HighestCoreMigrationAllowedPriority = 0
    PinnedMayYield = FALSE
    PreemptPriority <- MCPreempt
    CoreMaskArgs = {}
    Pinnable = {}
    LockHolders = {}
    Exiting = {t1}
    Pausable = {t1}
CHECK_DEADLOCK FALSE
INVARIANTS
    SwitchInv
    ContextLoadedOnce
    ExitNeverReturns
    StaleCoreIsTold
    LeftThreadIsUnloaded
PROPERTY
    TerminationFinishes
    DecisionIsCarriedOut
