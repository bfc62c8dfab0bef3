SPECIFICATION LiveLockSpec
CONSTANTS
    t1 = t1
    t2 = t2
    t3 = t3
    sThread = sThread
    sSystem = sSystem
    NoThread = NoThread
    NoKey = NoKey
    Threads <- MCThreads
    KernelKeys <- MCOneLock
    UserKeys = {}
    Priorities = {1}
    SuspendTypes <- MCOneType
    Terminable = {t1}
    TerminatingThreadPriority = 1
INVARIANTS
    KernelWaitersCounted
PROPERTY
    ContendedLockIsHandedOver
