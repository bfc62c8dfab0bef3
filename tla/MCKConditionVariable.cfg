SPECIFICATION CvSpec
CONSTANTS
    t1 = t1
    t2 = t2
    t3 = t3
    c1 = c1
    NoThread = NoThread
    NoKey = NoKey
    Threads <- MCThreads
    KernelKeys = {}
    UserKeys <- MCOneMutex
    CvKeys <- MCCvKeys
    Priorities <- MCPriorities
    Terminable <- MCThreads
    TerminatingThreadPriority = 1
SYMMETRY Symmetry
CHECK_DEADLOCK FALSE
INVARIANTS
    CvInv
    SleepersAreOwed
    FlagAnnouncesWaiters
