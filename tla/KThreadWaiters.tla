--------------------------- MODULE KThreadWaiters ---------------------------
(***************************************************************************)
(* The lock-waiter graph of Kernel::KThread and its priority inheritance   *)
(* (src/nxemu-os/core/hle/kernel/k_thread.cpp).                            *)
(*                                                                         *)
(* A thread that blocks on a lock becomes a waiter in the lock information *)
(* (LockWithPriorityInheritanceInfo) that the lock's owner keeps for that  *)
(* address key.  An owner runs at the priority of its most urgent waiter   *)
(* (the smaller number is the more urgent priority), and a change of       *)
(* priority travels along the chain of owners: KThread::RestorePriority.   *)
(*                                                                         *)
(* Everything here runs with the scheduler lock held.  The loop of         *)
(* RestorePriority is nevertheless modelled one iteration at a time: the   *)
(* variable restoring is the loop's thread, every operation that takes the *)
(* scheduler lock waits until it is NoThread, and code that does not take  *)
(* that lock (the compare-and-swaps of KLightLock) may run in between.     *)
(*                                                                         *)
(* The red-black tree of a lock's waiters is the sequence of its in-order  *)
(* traversal.  A lock information exists exactly while it has waiters.     *)
(* One thread at a time owns a key: a KLightLock guarantees it, a guest    *)
(* that follows the mutex-word protocol does too.                          *)
(***************************************************************************)
EXTENDS Integers, Sequences, SequencesExt, PriorityTrees

CONSTANTS
    Threads,        \* KThread objects
    KernelKeys,     \* addresses of KLightLock tags (is_kernel_address_key)
    UserKeys,       \* addresses of guest mutex words
    Priorities,     \* Svc::HighestThreadPriority .. Svc::LowestThreadPriority
    NoThread,       \* a null KThread pointer
    NoKey           \* a null LockWithPriorityInheritanceInfo pointer

Keys == KernelKeys \cup UserKeys

ASSUME ThreadsAssumption == IsFiniteSet(Threads)
ASSUME NoThreadAssumption == NoThread \notin Threads
ASSUME NoKeyAssumption == NoKey \notin Keys
ASSUME KeysDisjoint == KernelKeys \cap UserKeys = {}
ASSUME PrioritiesAssumption == Priorities \subseteq Int

VARIABLES
    live,             \* threads that are initialized and not finalized
    basePriority,     \* m_base_priority
    priority,         \* m_priority
    waitingLock,      \* the key of m_waiting_lock_info, or NoKey
    lockOwner,        \* m_owner of the key's lock information, or NoThread
    tree,             \* m_tree of the key's lock information, in order
    numKernelWaiters, \* m_num_kernel_waiters
    restoring         \* the thread of RestorePriority's current iteration

prioVars == <<live, basePriority, priority>>
graphVars == <<waitingLock, lockOwner, tree, numKernelWaiters>>
waiterVars == <<live, basePriority, priority, waitingLock, lockOwner, tree,
                numKernelWaiters, restoring>>

-----------------------------------------------------------------------------
(* The waiters' trees (the operators of PriorityTrees).                    *)

GetHighestPriorityWaiter(k) == tree[k][1]

GetLockOwner(t) ==
    IF waitingLock[t] = NoKey THEN NoThread ELSE lockOwner[waitingLock[t]]

Waiters(t) == { w \in Threads : GetLockOwner(w) = t }

\* Mutant: a hand-over moves one waiter instead of all of them.
OneKernelWaiter(k, n) == IF k \in KernelKeys THEN 1 ELSE 0

\* What n waiters for key k add to m_num_kernel_waiters.
KernelWaiterCount(k, n) == IF k \in KernelKeys THEN n ELSE 0

-----------------------------------------------------------------------------
Init ==
    /\ live = Threads
    /\ basePriority \in [Threads -> Priorities]
    /\ priority = basePriority
    /\ waitingLock = [t \in Threads |-> NoKey]
    /\ lockOwner = [k \in Keys |-> NoThread]
    /\ tree = [k \in Keys |-> <<>>]
    /\ numKernelWaiters = [t \in Threads |-> 0]
    /\ restoring = NoThread

\* Thread t becomes a waiter for key k on its owner o: AddWaiterImpl, and the
\* RestorePriority that AddWaiter starts when t is the more urgent of the two.
AddWaiter(o, t, k) ==
    /\ restoring = NoThread
    /\ {o, t} \subseteq live
    /\ waitingLock[t] = NoKey
    /\ lockOwner[k] \in {o, NoThread}
    /\ numKernelWaiters' =
         [numKernelWaiters EXCEPT ![o] = @ + KernelWaiterCount(k, 1)]
    /\ lockOwner' = [lockOwner EXCEPT ![k] = o]
    /\ \E s \in TreeInsert(tree[k], t, priority) : tree' = [tree EXCEPT ![k] = s]
    /\ waitingLock' = [waitingLock EXCEPT ![t] = k]
    /\ restoring' = IF priority[t] < priority[o] THEN o ELSE NoThread
    /\ UNCHANGED prioVars

\* Mutant: an owner keeps what it has inherited.
KeepsBoost(o, t) == FALSE

\* May the priority of o come from its waiter t, so that it has to be restored?
MayInheritFrom(o, t) == priority[o] = priority[t] /\ priority[o] < basePriority[o]

\* Thread t stops waiting without getting the lock (a cancelled or timed out
\* wait): RemoveWaiterImpl, and the RestorePriority of RemoveWaiter.
RemoveWaiter(t) ==
    LET k == waitingLock[t]
        o == GetLockOwner(t)
    IN  /\ restoring = NoThread
        /\ k # NoKey
        /\ numKernelWaiters' =
             [numKernelWaiters EXCEPT ![o] = @ - KernelWaiterCount(k, 1)]
        /\ \E s \in TreeErase(tree[k], t) :
             /\ tree' = [tree EXCEPT ![k] = s]
             /\ lockOwner' = [lockOwner EXCEPT ![k] = IF s = <<>> THEN NoThread ELSE o]
        /\ waitingLock' = [waitingLock EXCEPT ![t] = NoKey]
        /\ restoring' = IF MayInheritFrom(o, t) THEN o ELSE NoThread
        /\ UNCHANGED prioVars

\* The owner o releases key k: its first waiter becomes the owner and takes
\* over the lock information with the waiters that are left.
RemoveWaiterByKey(o, k) ==
    LET next == GetHighestPriorityWaiter(k)
        rest == Tail(tree[k])
    IN  /\ restoring = NoThread
        /\ o \in Threads
        /\ lockOwner[k] = o
        /\ waitingLock[o] = NoKey
        /\ numKernelWaiters' =
             [numKernelWaiters EXCEPT
                ![o] = @ - KernelWaiterCount(k, Len(tree[k])),
                ![next] = @ + KernelWaiterCount(k, Len(rest))]
        /\ tree' = [tree EXCEPT ![k] = rest]
        /\ waitingLock' = [waitingLock EXCEPT ![next] = NoKey]
        /\ lockOwner' = [lockOwner EXCEPT ![k] = IF rest = <<>> THEN NoThread ELSE next]
        /\ restoring' = IF MayInheritFrom(o, next) THEN o ELSE NoThread
        /\ UNCHANGED prioVars

SetBasePriority(t, value) ==
    /\ restoring = NoThread
    /\ t \in live
    /\ basePriority' = [basePriority EXCEPT ![t] = value]
    /\ restoring' = t
    /\ UNCHANGED <<live, priority, graphVars>>

IncreaseBasePriority(t, value) ==
    /\ basePriority[t] > value
    /\ SetBasePriority(t, value)

\* What RestorePriority lets t inherit: the first waiter of each held lock.
Inheritable(t) ==
    {basePriority[t]} \cup
    { priority[GetHighestPriorityWaiter(k)] : k \in { k \in Keys : lockOwner[k] = t } }

\* One iteration of RestorePriority's loop.  A thread whose priority changes
\* while it waits is taken out of its owner's tree and put back in.
RestorePriority ==
    LET t == restoring
        k == waitingLock[t]
    IN  /\ restoring # NoThread
        /\ \E p \in Inheritable(t) :
             /\ \A q \in Inheritable(t) : p <= q
             /\ \/ /\ p = priority[t]
                   /\ restoring' = NoThread
                   /\ UNCHANGED <<priority, tree>>
                \/ /\ p # priority[t]
                   /\ restoring' = GetLockOwner(t)
                   /\ priority' = [priority EXCEPT ![t] = p]
                   /\ \/ k = NoKey /\ UNCHANGED tree
                      \/ /\ k # NoKey
                         /\ \E s1 \in TreeErase(tree[k], t) :
                            \E s2 \in TreeInsert(s1, t, priority') :
                               tree' = [tree EXCEPT ![k] = s2]
        /\ UNCHANGED <<live, basePriority, waitingLock, lockOwner, numKernelWaiters>>

\* A thread object is destroyed.  It waits for nothing and holds no contended
\* kernel lock (both asserted); whoever waits for a user lock of it is let go.
Finalize(t) ==
    /\ restoring = NoThread
    /\ t \in live
    /\ waitingLock[t] = NoKey
    /\ \A k \in KernelKeys : lockOwner[k] # t
    /\ live' = live \ {t}
    /\ waitingLock' = [w \in Threads |-> IF GetLockOwner(w) = t THEN NoKey
                                                                ELSE waitingLock[w]]
    /\ tree' = [k \in Keys |-> IF lockOwner[k] = t THEN <<>> ELSE tree[k]]
    /\ lockOwner' = [k \in Keys |-> IF lockOwner[k] = t THEN NoThread ELSE lockOwner[k]]
    /\ UNCHANGED <<basePriority, priority, numKernelWaiters, restoring>>

\* KThread::Initialize on a free thread object.
Initialize(t, prio) ==
    /\ restoring = NoThread
    /\ t \in Threads \ live
    /\ live' = live \cup {t}
    /\ basePriority' = [basePriority EXCEPT ![t] = prio]
    /\ priority' = [priority EXCEPT ![t] = prio]
    /\ numKernelWaiters' = [numKernelWaiters EXCEPT ![t] = 0]
    /\ UNCHANGED <<waitingLock, lockOwner, tree, restoring>>

Next ==
    \/ \E o, t \in Threads, k \in Keys : AddWaiter(o, t, k)
    \/ \E t \in Threads : RemoveWaiter(t)
    \/ \E o \in Threads, k \in Keys : RemoveWaiterByKey(o, k)
    \/ \E t \in Threads, p \in Priorities : SetBasePriority(t, p)
    \/ \E t \in Threads, p \in Priorities : IncreaseBasePriority(t, p)
    \/ RestorePriority
    \/ \E t \in Threads : Finalize(t)
    \/ \E t \in Threads, p \in Priorities : Initialize(t, p)

Spec == Init /\ [][Next]_waiterVars

-----------------------------------------------------------------------------
(* Type correctness of the waiter graph.                                   *)
TypeOK ==
    /\ live \in SUBSET Threads
    /\ basePriority \in [Threads -> Priorities]
    /\ priority \in [Threads -> Priorities]
    /\ waitingLock \in [Threads -> Keys \cup {NoKey}]
    /\ lockOwner \in [Keys -> Threads \cup {NoThread}]
    /\ tree \in [Keys -> Seq(Threads)]
    /\ numKernelWaiters \in [Threads -> Int]
    /\ restoring \in Threads \cup {NoThread}

\* A thread is in the tree of exactly the lock it waits for, once, and a lock
\* has an owner exactly while its tree is not empty.
TreeMatchesWaits ==
    /\ \A k \in Keys, t \in Threads : In(t, tree[k]) <=> waitingLock[t] = k
    /\ \A k \in Keys : Distinct(tree[k])
    /\ \A k \in Keys : lockOwner[k] = NoThread <=> tree[k] = <<>>

\* Every tree is in priority order, so that its first thread is the one
\* GetHighestPriorityWaiter promises, although waiters' priorities change while
\* they wait.
TreeSorted == \A k \in Keys : Sorted(tree[k], priority)

\* Threads that wait and threads that are waited for exist: no waiter or owner
\* is a destroyed thread.
OnlyLiveWait ==
    /\ \A t \in Threads : waitingLock[t] # NoKey => t \in live
    /\ \A k \in Keys : lockOwner[k] \in live \cup {NoThread}

\* t runs at the most urgent of its own priority and those of its waiters.
InheritsPriority(t) ==
    /\ priority[t] <= basePriority[t]
    /\ \A w \in Waiters(t) : priority[t] <= priority[w]
    /\ priority[t] = basePriority[t] \/ \E w \in Waiters(t) : priority[w] = priority[t]

\* Priority inheritance: whenever the scheduler lock is free, every thread runs
\* at the most urgent of its base priority and the priorities of all threads
\* waiting for any lock it owns: neither a missed boost (priority inversion)
\* nor a boost that outlives the wait, although AddWaiter, RemoveWaiter and
\* RemoveWaiterByKey only restore priorities when a comparison tells them to.
PriorityInheritance ==
    restoring = NoThread => \A t \in live : InheritsPriority(t)

\* The inductive invariant: during RestorePriority only the loop's current
\* thread may be at the wrong priority.
WaiterInv ==
    /\ TypeOK
    /\ TreeMatchesWaits
    /\ TreeSorted
    /\ OnlyLiveWait
    /\ \A t \in live \ {restoring} : InheritsPriority(t)

\* m_num_kernel_waiters, which decides whether a thread may be suspended, is the
\* number of waiters for kernel locks the thread owns.
KernelWaitersCounted ==
    \A t \in live : numKernelWaiters[t] =
        Cardinality({ w \in Waiters(t) : waitingLock[w] \in KernelKeys })

=============================================================================
