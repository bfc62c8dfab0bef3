----------------------------- MODULE KLightLock -----------------------------
(***************************************************************************)
(* Kernel::KLightLock (src/nxemu-os/core/hle/kernel/k_light_lock.cpp), the *)
(* kernel's own mutex, on top of the waiter graph of KThreadWaiters and of *)
(* the suspension and termination of KThread.                              *)
(*                                                                         *)
(* The lock is one atomic word, the tag: the owner and a bit that says     *)
(* there may be waiters.  The fast paths of Lock and Unlock are single     *)
(* compare-and-swaps that run without the scheduler lock; the slow paths   *)
(* run under it.  Each compare-and-swap, the test-and-enqueue of           *)
(* LockSlowPath, the hand-over of UnlockSlowPath and its final store to    *)
(* the tag are steps of their own, so that the compare-and-swaps of other  *)
(* threads fall between them.                                              *)
(*                                                                         *)
(* A thread that is marked suspended stops at its next scheduling point,   *)
(* so it may still take steps, but nothing makes it take them: fairness is *)
(* only assumed of threads that the scheduler may run.                     *)
(***************************************************************************)
EXTENDS KThreadWaiters

CONSTANTS
    SuspendTypes,               \* SuspendType values in use
    Terminable,                 \* threads that RequestTerminate may be called on
    TerminatingThreadPriority

ASSUME TerminableAssumption == Terminable \subseteq Threads
ASSUME TerminatingPriorityAssumption == TerminatingThreadPriority \in Priorities
ASSUME OrderedLocks == KernelKeys \subseteq Nat  \* kernel code nests in one order

VARIABLES
    tag,          \* m_tag of each lock: owner and waiters bit
    pc,           \* where each thread is in Lock or Unlock
    arg,          \* the lock of that call
    seen,         \* the owner that Lock's compare-and-swap found
    next,         \* the tag value UnlockSlowPath is going to store
    held,         \* locks whose Lock returned and whose Unlock has not begun
    state,        \* ThreadState without its suspend flags
    requested,    \* m_suspend_request_flags
    allowed,      \* m_suspend_allowed_flags
    suspended,    \* the suspend flags in m_thread_state
    terminationRequested,
    slowOwner,    \* the thread inside UnlockSlowPath's scheduler lock
    terminating   \* the thread RequestTerminate works on, scheduler lock held

lockVars == <<tag, pc, arg, seen, next, held>>
suspendVars == <<requested, allowed, suspended>>
ctlVars == <<state, terminationRequested, slowOwner, terminating>>
vars == <<waiterVars, lockVars, suspendVars, ctlVars>>

Free == [owner |-> NoThread, waiters |-> FALSE]
Tags == [owner : Threads \cup {NoThread}, waiters : BOOLEAN]

LockInit ==
    /\ Init
    /\ tag = [k \in KernelKeys |-> Free]
    /\ pc = [t \in Threads |-> "run"]
    /\ arg = [t \in Threads |-> NoKey]
    /\ seen = [t \in Threads |-> NoThread]
    /\ next = [t \in Threads |-> Free]
    /\ held = [t \in Threads |-> {}]
    /\ state = [t \in Threads |-> "Runnable"]
    /\ requested = [t \in Threads |-> {}]
    /\ allowed = [t \in Threads |-> SuspendTypes]
    /\ suspended = [t \in Threads |-> {}]
    /\ terminationRequested = [t \in Threads |-> FALSE]
    /\ slowOwner = NoThread
    /\ terminating = NoThread

\* Nobody else is inside the scheduler lock.
SchedulerFree == restoring = NoThread /\ slowOwner = NoThread /\ terminating = NoThread

-----------------------------------------------------------------------------
(* KLightLock *)

\* Lock's compare-and-swap: take a free lock, or set the waiters bit.
CompareExchange(t, k) ==
    /\ \/ /\ tag[k] = Free
          /\ tag' = [tag EXCEPT ![k].owner = t]
          /\ arg' = [arg EXCEPT ![t] = NoKey]
          /\ held' = [held EXCEPT ![t] = @ \cup {k}]
          /\ pc' = [pc EXCEPT ![t] = "run"]
          /\ UNCHANGED seen
       \/ /\ tag[k] # Free
          /\ tag' = [tag EXCEPT ![k].waiters = TRUE]
          /\ arg' = [arg EXCEPT ![t] = k]
          /\ seen' = [seen EXCEPT ![t] = tag[k].owner]
          /\ pc' = [pc EXCEPT ![t] = "lockSlow"]
          /\ UNCHANGED held
    /\ UNCHANGED <<waiterVars, suspendVars, ctlVars, next>>

Lock(t, k) ==
    /\ pc[t] = "run"
    /\ \A h \in held[t] : h < k
    /\ CompareExchange(t, k)

RetryLock(t) == pc[t] = "retry" /\ CompareExchange(t, arg[t])

\* Mutant: a suspended owner stays suspended.
StaySuspended(t, count) == suspended

ContinueIfHasKernelWaiters(t, count) ==
    IF allowed[t] \cap requested[t] # {} /\ count[t] > 0
    THEN [suspended EXCEPT ![t] = {}] ELSE suspended

\* The lock is still the owner's that Lock saw, and has the waiters bit.
TagUnchanged(k, owner) == tag[k] = [owner |-> owner, waiters |-> TRUE]

LockSlowPath(t) ==
    LET k == arg[t]
        owner == seen[t]
    IN  /\ pc[t] = "lockSlow"
        /\ SchedulerFree
        /\ \/ /\ ~TagUnchanged(k, owner)
              /\ pc' = [pc EXCEPT ![t] = "retry"]
              /\ UNCHANGED <<waiterVars, state, suspended>>
           \/ /\ TagUnchanged(k, owner)
              /\ AddWaiter(owner, t, k)
              /\ state' = [state EXCEPT ![t] = "Waiting"]
              /\ suspended' = ContinueIfHasKernelWaiters(owner, numKernelWaiters')
              /\ pc' = [pc EXCEPT ![t] = "wait"]
        /\ seen' = [seen EXCEPT ![t] = NoThread]
        /\ UNCHANGED <<tag, arg, next, held, requested, allowed,
                       terminationRequested, slowOwner, terminating>>

\* The wait is over, however it ended: LockSlowPath returns true.
LockWaitEnds(t) ==
    /\ pc[t] = "wait"
    /\ state[t] = "Runnable"
    /\ SchedulerFree
    /\ held' = [held EXCEPT ![t] = @ \cup {arg[t]}]
    /\ pc' = [pc EXCEPT ![t] = "run"]
    /\ arg' = [arg EXCEPT ![t] = NoKey]
    /\ UNCHANGED <<waiterVars, suspendVars, ctlVars, tag, seen, next>>

\* Mutant: the waiters bit is ignored.
OwnedFast(t, k) == tag[k].owner = t

\* The tag is exactly the owner's pointer.
Uncontended(t, k) == tag[k] = [owner |-> t, waiters |-> FALSE]

\* Unlock's compare-and-swap: free the lock unless the waiters bit is set.
Unlock(t, k) ==
    /\ pc[t] = "run"
    /\ k \in held[t]
    /\ held' = [held EXCEPT ![t] = @ \ {k}]
    /\ \/ /\ Uncontended(t, k)
          /\ tag' = [tag EXCEPT ![k] = Free]
          /\ UNCHANGED <<pc, arg>>
       \/ /\ ~Uncontended(t, k)
          /\ pc' = [pc EXCEPT ![t] = "unlockSlow"]
          /\ arg' = [arg EXCEPT ![t] = k]
          /\ UNCHANGED tag
    /\ UNCHANGED <<waiterVars, suspendVars, ctlVars, seen, next>>

\* Mutant: has_waiters is lost.
NextTagNoWaiters(k) == [owner |-> GetHighestPriorityWaiter(k), waiters |-> FALSE]

\* The tag of a contended lock's next owner.
NextTag(k) == [owner |-> GetHighestPriorityWaiter(k), waiters |-> Len(tree[k]) > 1]

\* UnlockSlowPath takes the scheduler lock and removes the next owner.
UnlockSlowPath(t) ==
    LET k == arg[t]
    IN  /\ pc[t] = "unlockSlow"
        /\ SchedulerFree
        /\ slowOwner' = t
        /\ pc' = [pc EXCEPT ![t] = "handover"]
        /\ \/ /\ lockOwner[k] = t
              /\ RemoveWaiterByKey(t, k)
              /\ next' = [next EXCEPT ![t] = NextTag(k)]
           \/ /\ lockOwner[k] # t
              /\ next' = [next EXCEPT ![t] = Free]
              /\ UNCHANGED waiterVars
        /\ UNCHANGED <<suspendVars, tag, arg, seen, held, state,
                       terminationRequested, terminating>>

\* Mutant: the lock is freed although it has been passed on.
FreedTag(t) == Free

\* What UnlockSlowPath stores in the end.
StoredTag(t) == next[t]

\* ... wakes it, suspends the caller if that was put off, and stores the tag.
Handover(t) ==
    LET k == arg[t]
        n == next[t].owner
        woken == IF n = NoThread THEN suspended
                 ELSE ContinueIfHasKernelWaiters(n, numKernelWaiters)
    IN  /\ slowOwner = t
        /\ restoring = NoThread
        /\ state' = [u \in Threads |-> IF u = n /\ state[u] = "Waiting"
                                       THEN "Runnable" ELSE state[u]]
        /\ suspended' =
             IF allowed[t] \cap requested[t] # {} /\ numKernelWaiters[t] = 0
             THEN [woken EXCEPT ![t] = allowed[t] \cap requested[t]] ELSE woken
        /\ tag' = [tag EXCEPT ![k] = StoredTag(t)]
        /\ next' = [next EXCEPT ![t] = Free]
        /\ pc' = [pc EXCEPT ![t] = "run"]
        /\ arg' = [arg EXCEPT ![t] = NoKey]
        /\ slowOwner' = NoThread
        /\ UNCHANGED <<waiterVars, seen, held, requested, allowed,
                       terminationRequested, terminating>>

-----------------------------------------------------------------------------
(* KThread: suspension, priorities, termination *)

UpdateState(t) == suspended' = [suspended EXCEPT ![t] = allowed'[t] \cap requested'[t]]

\* Mutant: waiters do not put a suspension off.
SuspendAnyway(t) == UpdateState(t)

TrySuspend(t) == IF numKernelWaiters[t] > 0 THEN UNCHANGED suspended ELSE UpdateState(t)

RequestSuspend(t, type) ==
    /\ SchedulerFree
    /\ requested' = [requested EXCEPT ![t] = @ \cup {type}]
    /\ UNCHANGED allowed
    /\ TrySuspend(t)
    /\ UNCHANGED <<waiterVars, lockVars, ctlVars>>

Resume(t, type) ==
    /\ SchedulerFree
    /\ requested' = [requested EXCEPT ![t] = @ \ {type}]
    /\ UNCHANGED allowed
    /\ UpdateState(t)
    /\ UNCHANGED <<waiterVars, lockVars, ctlVars>>

\* svcSetThreadPriority
ChangeBasePriority(t, value) ==
    /\ SchedulerFree
    /\ SetBasePriority(t, value)
    /\ UNCHANGED <<lockVars, suspendVars, ctlVars>>

Restore ==
    /\ RestorePriority
    /\ UNCHANGED <<lockVars, suspendVars, ctlVars>>

\* The first call of RequestTerminate, up to IncreaseBasePriority.
RequestTerminate(t) ==
    /\ SchedulerFree
    /\ t \in Terminable
    /\ ~terminationRequested[t]
    /\ terminationRequested' = [terminationRequested EXCEPT ![t] = TRUE]
    /\ UNCHANGED requested
    /\ IF allowed[t] \cap requested[t] # {}
       THEN allowed' = [allowed EXCEPT ![t] = {}] /\ UpdateState(t)
       ELSE UNCHANGED <<allowed, suspended>>
    /\ IF basePriority[t] > TerminatingThreadPriority
       THEN IncreaseBasePriority(t, TerminatingThreadPriority)
       ELSE UNCHANGED waiterVars
    /\ terminating' = t
    /\ UNCHANGED <<lockVars, state, slowOwner>>

\* ... and from there: a waiting thread's wait is cancelled.
CancelWait(t) ==
    /\ terminating = t
    /\ restoring = NoThread
    /\ terminating' = NoThread
    /\ \/ /\ state[t] = "Waiting"
          /\ RemoveWaiter(t)
          /\ state' = [state EXCEPT ![t] = "Runnable"]
       \/ /\ state[t] # "Waiting"
          /\ UNCHANGED <<waiterVars, state>>
    /\ UNCHANGED <<lockVars, suspendVars, terminationRequested, slowOwner>>

LockStep(t) ==
    \/ RetryLock(t)
    \/ LockSlowPath(t)
    \/ LockWaitEnds(t)
    \/ \E k \in KernelKeys : Unlock(t, k)
    \/ UnlockSlowPath(t)

LockNext ==
    \/ \E t \in Threads, k \in KernelKeys : Lock(t, k)
    \/ \E t \in Threads : LockStep(t) \/ Handover(t)
    \/ Restore
    \/ \E t \in Threads, type \in SuspendTypes : RequestSuspend(t, type)
    \/ \E t \in Threads, type \in SuspendTypes : Resume(t, type)
    \/ \E t \in Threads, p \in Priorities : ChangeBasePriority(t, p)
    \/ \E t \in Threads : RequestTerminate(t) \/ CancelWait(t)

LockSpec == LockInit /\ [][LockNext]_vars

Schedulable(t) == state[t] = "Runnable" /\ suspended[t] = {}

\* A thread the scheduler may run does run, and a section under the scheduler
\* lock ends.  Nobody need ever resume a suspended thread.
LockFairness ==
    /\ \A t \in Threads : WF_vars(Schedulable(t) /\ LockStep(t))
    /\ \A t \in Threads : WF_vars(Handover(t)) /\ WF_vars(CancelWait(t))
    /\ WF_vars(Restore)

\* Priorities are changed and threads suspended and resumed finitely often: the
\* scheduler lock is a plain mutex, and an unending stream of such calls could
\* keep a thread from ever getting it.
RequestsEnd ==
    <>[][\A t \in Threads :
            /\ \A type \in SuspendTypes : ~RequestSuspend(t, type) /\ ~Resume(t, type)
            /\ \A p \in Priorities : ~ChangeBasePriority(t, p)]_vars

LiveLockSpec == LockSpec /\ LockFairness /\ RequestsEnd

-----------------------------------------------------------------------------
LockTypeOK ==
    /\ TypeOK
    /\ tag \in [KernelKeys -> Tags]
    /\ pc \in [Threads -> {"run", "retry", "lockSlow", "wait", "unlockSlow", "handover"}]
    /\ arg \in [Threads -> KernelKeys \cup {NoKey}]
    /\ seen \in [Threads -> Threads \cup {NoThread}]
    /\ next \in [Threads -> Tags]
    /\ held \in [Threads -> SUBSET KernelKeys]
    /\ state \in [Threads -> {"Runnable", "Waiting"}]
    /\ requested \in [Threads -> SUBSET SuspendTypes]
    /\ allowed \in [Threads -> SUBSET SuspendTypes]
    /\ suspended \in [Threads -> SUBSET SuspendTypes]
    /\ terminationRequested \in [Threads -> BOOLEAN]
    /\ slowOwner \in Threads \cup {NoThread}
    /\ terminating \in Threads \cup {NoThread}

\* IsLockedByCurrentThread holds of every thread whose Lock has returned, as
\* the page table asserts throughout; it implies mutual exclusion.
LockedByHolder ==
    \A t \in Threads : \A k \in held[t] : tag[k].owner = t

\* The locks implement the abstract mutex: the holders are the threads whose Lock
\* has returned and whose Unlock has not been called.
AbstractLocks == INSTANCE Mutex
    WITH Locks <- KernelKeys, holders <- [k \in KernelKeys |-> { t \in Threads : k \in held[t] }]
LockIsMutex == AbstractLocks!Spec

\* No lost wake-up: a thread that sleeps for a lock is in the tree of the owner
\* that the tag names, and the tag's waiters bit is set, so that this owner's
\* Unlock takes the slow path; or that owner is just handing the lock over.
SleepersAreOwed ==
    \A t \in Threads : pc[t] = "wait" /\ state[t] = "Waiting" =>
        LET k == arg[t]
        IN  \/ waitingLock[t] = k /\ tag[k] = [owner |-> lockOwner[k], waiters |-> TRUE]
            \/ \E u \in Threads :
                 /\ slowOwner = u
                 /\ arg[u] = k
                 /\ \/ next[u].owner = t
                    \/ /\ waitingLock[t] = k
                       /\ next[u] = [owner |-> lockOwner[k], waiters |-> TRUE]

\* The inductive invariant behind the two, where no thread is terminated.  The
\* tag as the queue of waiters sees it is the one a hand-over will store.
HandingOver(k) == slowOwner # NoThread /\ arg[slowOwner] = k
EffectiveTag(k) == IF HandingOver(k) THEN next[slowOwner] ELSE tag[k]

TagsWellFormed ==
    /\ \A k \in KernelKeys : tag[k].owner = NoThread => tag[k] = Free
    /\ \A t \in Threads : next[t].owner = NoThread => next[t] = Free

CallsHaveLocks == \A t \in Threads : pc[t] # "run" => arg[t] \in KernelKeys

UnlockingOwns ==
    /\ \A t \in Threads : pc[t] \in {"unlockSlow", "handover"} =>
         arg[t] \notin held[t] /\ tag[arg[t]] = [owner |-> t, waiters |-> TRUE]
    /\ \A t \in Threads : pc[t] = "handover" <=> slowOwner = t

WokenOwns ==
    \A t \in Threads : pc[t] = "wait" /\ state[t] = "Runnable" => tag[arg[t]].owner = t

NextOwnerSleeps ==
    \A u, n \in Threads : slowOwner = u /\ next[u].owner = n =>
        pc[n] = "wait" /\ state[n] = "Waiting" /\ arg[n] = arg[u] /\ waitingLock[n] = NoKey

SleepersQueued ==
    /\ \A t \in Threads : waitingLock[t] # NoKey =>
         pc[t] = "wait" /\ state[t] = "Waiting" /\ arg[t] = waitingLock[t]
    /\ \A t \in Threads : state[t] = "Waiting" =>
         /\ pc[t] = "wait"
         /\ waitingLock[t] = arg[t] \/ (HandingOver(arg[t]) /\ next[slowOwner].owner = t)

QueueMatchesTag ==
    \A k \in KernelKeys : lockOwner[k] # NoThread =>
        EffectiveTag(k) = [owner |-> lockOwner[k], waiters |-> TRUE]

LockInv ==
    /\ LockTypeOK
    /\ WaiterInv
    /\ LockedByHolder
    /\ TagsWellFormed
    /\ CallsHaveLocks
    /\ UnlockingOwns
    /\ WokenOwns
    /\ NextOwnerSleeps
    /\ SleepersQueued
    /\ QueueMatchesTag
    /\ terminating = NoThread

\* A thread that others wait for in the kernel is not kept from running by a
\* suspension (TrySuspend, ContinueIfHasKernelWaiters).
SuspendedHasNoKernelWaiters ==
    SchedulerFree => \A t \in Threads : suspended[t] # {} => numKernelWaiters[t] = 0

\* The inductive invariant behind it, where no thread is terminated and only one
\* kind of suspension is in use: a suspension that is asked for is undone as soon as
\* its thread gets a waiter, for the next owner of a lock when it is woken.
SuspensionInv ==
    /\ \A t \in Threads : suspended[t] \subseteq allowed[t] \cap requested[t]
    /\ \A t \in Threads : suspended[t] # {} =>
         numKernelWaiters[t] = 0 \/ (slowOwner # NoThread /\ next[slowOwner].owner = t)

\* Whoever owns a contended lock hands it over in the end, even when it is asked
\* to suspend and nobody resumes it; the end of a thread that waits for the lock
\* makes the kernel lose track of the owner (LockedByHolder) and is exempt.
ContendedLockIsHandedOver ==
    \A k \in KernelKeys, o \in Threads :
        lockOwner[k] = o ~> lockOwner[k] # o \/ \E t \in Threads : terminationRequested[t]

=============================================================================
