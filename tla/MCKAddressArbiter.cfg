SPECIFICATION Spec
CONSTANTS
    t1 = t1
    t2 = t2
    t3 = t3
    a1 = a1
    a2 = a2
    NoAddr = NoAddr
    Threads <- MCThreads
    EqualAddrs <- MCEqual
    LessAddrs <- MCLess
    MaxValue = 1
    MaxCount = 2
    Priorities = {1, 2}
SYMMETRY Symmetry
INVARIANTS
    ArbiterInv
    NoMissedWakeup
    ModifyTellsWaiters
    WakesMostUrgent
