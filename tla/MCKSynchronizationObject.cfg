SPECIFICATION Spec
CONSTANTS
    t1 = t1
    t2 = t2
    t3 = t3
    o1 = o1
    o2 = o2
    NoObject = NoObject
    NoNode = NoNode
    Threads <- MCThreads
    Objects <- MCObjects
    MaxObjects = 2
SYMMETRY Symmetry
INVARIANTS
    SyncInv
    SignaledObjectHasNoSleepers
    IndexNamesObject
    CancelIsNotLost
