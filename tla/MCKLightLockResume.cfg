SPECIFICATION LockSpec
CONSTANTS
    t1 = t1
    t2 = t2
    t3 = t3
    sThread = sThread
    sSystem = sSystem
    NoThread = NoThread
    NoKey = NoKey
    Threads <- MCThreads
    KernelKeys <- MCOneLock
    UserKeys = {}
    Priorities <- MCPriorities
    SuspendTypes <- MCTwoTypes
    Terminable = {}
    TerminatingThreadPriority = 1
INVARIANTS
    SuspendedHasNoKernelWaiters
