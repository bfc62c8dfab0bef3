SPECIFICATION LiveCvSpec
CONSTANTS
    t1 = t1
    t2 = t2
    t3 = t3
    c1 = c1
    NoThread = NoThread
    NoKey = NoKey
    Threads <- MCThreads
    KernelKeys = {}
    UserKeys <- MCTwoMutexes
    CvKeys = {}
    Priorities = {1}
    Terminable = {t1}
    TerminatingThreadPriority = 1
CHECK_DEADLOCK FALSE
INVARIANTS
    TerminatedOwesNothing
PROPERTY
    GuestMutexIsMutex
    QueuedThreadsAreServed
