SPECIFICATION LockSpec
CONSTANTS
    t1 = t1
    t2 = t2
    t3 = t3
    sThread = sThread
    sSystem = sSystem
    NoThread = NoThread
    NoKey = NoKey
    Threads <- MCThreads
    KernelKeys <- MCTwoLocks
    UserKeys = {}
    Priorities <- MCPriorities
    SuspendTypes <- MCOneType
    Terminable = {}
    TerminatingThreadPriority = 1
SYMMETRY Symmetry
INVARIANTS
    LockInv
    SleepersAreOwed
    SuspendedHasNoKernelWaiters
    PriorityInheritance
PROPERTY
    LockIsMutex
