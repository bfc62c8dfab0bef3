SPECIFICATION ClockSpec
CONSTANTS
    Timing = Timing
    Devices = {}
    Nobody = Nobody
    Cores <- MCCores
    Compilers = {0, 1}
    RunnableMasks <- MCMasks
    Deadlines = {1}
    LastHostTick = 1
    Modulus = 8
CHECK_DEADLOCK FALSE
INVARIANTS
    ClockInv
    FollowsLeastAdvanced
    SleepEndsWithCompilation
    PauseIsHeard
