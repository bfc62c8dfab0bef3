SPECIFICATION LiveSpec
CONSTANTS
    t1 = t1
    t2 = t2
    t3 = t3
    Host = Host
    NoThread = NoThread
    Threads <- MCThreads
    MaxTime = 5
    LastTick = 3
    DefaultTimeIncrement = 1
INVARIANTS
    TimerInv
    FirstDeadlineIsArmed
PROPERTY
    NeverEarly
    TimedWaitsEnd
