-------------------------- MODULE KLightLock_proofs --------------------------
(***************************************************************************)
(* Proofs about KLightLock where no thread is asked to terminate: mutual   *)
(* exclusion and no lost wake-up, for every number of threads and locks.   *)
(***************************************************************************)
EXTENDS KLightLock, KThreadWaiters_proofs

\* The waiter graph is as it was.
LEMMA SameGraph ==
    ASSUME WaiterInv, UNCHANGED waiterVars
    PROVE  WaiterInv'
BY WaiterInvNext

\* u owns lock k: it holds it, is releasing it, or has been handed it.
Claims(u, k) ==
    \/ k \in held[u]
    \/ arg[u] = k /\ pc[u] \in {"unlockSlow", "handover"}
    \/ arg[u] = k /\ pc[u] = "wait" /\ state[u] = "Runnable"

\* The tag of a lock names the thread that owns it.
LEMMA ClaimantIsOwner ==
    ASSUME LockInv, NEW u \in Threads, NEW k \in KernelKeys, Claims(u, k)
    PROVE  tag[k].owner = u
<1>1. CASE k \in held[u]
  BY <1>1 DEF LockInv, LockedByHolder
<1>2. CASE arg[u] = k /\ pc[u] \in {"unlockSlow", "handover"}
  <2>1. tag[k] = [owner |-> u, waiters |-> TRUE]
    BY <1>2 DEF LockInv, UnlockingOwns
  <2>2. QED BY <2>1
<1>3. CASE arg[u] = k /\ pc[u] = "wait" /\ state[u] = "Runnable"
  BY <1>3 DEF LockInv, WokenOwns
<1>4. QED BY <1>1, <1>2, <1>3 DEF Claims

\* A free lock is nobody's, and nobody queues for it.
LEMMA FreeLockIsUnused ==
    ASSUME LockInv, NEW k \in KernelKeys, tag[k] = Free
    PROVE  /\ \A u \in Threads : ~Claims(u, k)
           /\ ~HandingOver(k)
           /\ lockOwner[k] = NoThread
<1>1. tag[k].owner = NoThread /\ tag[k].waiters = FALSE
  BY DEF Free
<1>2. \A u \in Threads : ~Claims(u, k)
  BY <1>1, ClaimantIsOwner, NoThreadAssumption
<1>3. ~HandingOver(k)
  <2>1. slowOwner # NoThread => slowOwner \in Threads /\ pc[slowOwner] = "handover"
    BY DEF LockInv, LockTypeOK, UnlockingOwns
  <2>2. QED BY <1>2, <2>1 DEF HandingOver, Claims
<1>4. lockOwner[k] = NoThread
  <2> SUFFICES ASSUME lockOwner[k] # NoThread PROVE FALSE
    OBVIOUS
  <2>1. tag[k] = [owner |-> lockOwner[k], waiters |-> TRUE]
    BY <1>3 DEF LockInv, QueueMatchesTag, EffectiveTag
  <2>2. QED BY <1>1, <2>1
<1>5. QED BY <1>2, <1>3, <1>4

-----------------------------------------------------------------------------
(* The compare-and-swap of Lock *)

\* It takes a free lock.
LEMMA TakesLock ==
    ASSUME LockInv, NEW t \in Threads, NEW k \in KernelKeys,
           pc[t] \in {"run", "retry"}, CompareExchange(t, k), tag[k] = Free
    PROVE  LockInv'
<1>1. /\ tag' = [tag EXCEPT ![k].owner = t]
      /\ arg' = [arg EXCEPT ![t] = NoKey]
      /\ held' = [held EXCEPT ![t] = @ \cup {k}]
      /\ pc' = [pc EXCEPT ![t] = "run"]
      /\ UNCHANGED <<waiterVars, suspendVars, ctlVars, next, seen>>
  BY DEF CompareExchange
<1> USE DEF LockInv
<1>2. /\ UNCHANGED <<waitingLock, lockOwner, state, slowOwner, terminating>>
      /\ UNCHANGED <<requested, allowed, suspended, terminationRequested, next, seen>>
  BY <1>1 DEF waiterVars, suspendVars, ctlVars
<1>3. /\ tag \in [KernelKeys -> Tags]
      /\ pc \in [Threads -> {"run", "retry", "lockSlow", "wait", "unlockSlow", "handover"}]
      /\ arg \in [Threads -> KernelKeys \cup {NoKey}] /\ held \in [Threads -> SUBSET KernelKeys]
  BY DEF LockTypeOK
<1>4. /\ tag'[k] = [owner |-> t, waiters |-> FALSE]
      /\ \A j \in KernelKeys : j # k => tag'[j] = tag[j]
      /\ pc'[t] = "run" /\ arg'[t] = NoKey /\ held'[t] = held[t] \cup {k}
      /\ \A u \in Threads : u # t => pc'[u] = pc[u] /\ arg'[u] = arg[u] /\ held'[u] = held[u]
  <2>1. tag'[k] = [owner |-> t, waiters |-> tag[k].waiters]
    BY <1>1, <1>3 DEF Tags
  <2>2. tag[k].waiters = FALSE
    BY DEF Free
  <2>3. \A j \in KernelKeys : j # k => tag'[j] = tag[j]
    BY <1>1, <1>3
  <2>4. QED BY <1>1, <1>3, <2>1, <2>2, <2>3
<1>5. \A u \in Threads : ~Claims(u, k)
  BY FreeLockIsUnused
<1>6. ~HandingOver(k) /\ lockOwner[k] = NoThread
  BY FreeLockIsUnused
<1>7. slowOwner # t /\ (slowOwner # NoThread => slowOwner \in Threads)
  BY DEF UnlockingOwns, LockTypeOK
<1>8. WaiterInv'
  BY <1>1, SameGraph
<1>9. LockTypeOK'
  <2>1. tag' \in [KernelKeys -> Tags]
    BY <1>1, <1>3, <1>4 DEF Tags
  <2>2. /\ pc' \in [Threads -> {"run", "retry", "lockSlow", "wait", "unlockSlow", "handover"}]
        /\ arg' \in [Threads -> KernelKeys \cup {NoKey}]
        /\ held' \in [Threads -> SUBSET KernelKeys]
    BY <1>1, <1>3
  <2>3. TypeOK'
    BY <1>8 DEF WaiterInv
  <2>4. QED BY <1>2, <2>1, <2>2, <2>3 DEF LockTypeOK
<1>10. LockedByHolder'
  BY <1>3, <1>4, <1>5 DEF LockedByHolder, Claims
<1>11. TagsWellFormed'
  BY <1>2, <1>4, NoThreadAssumption DEF TagsWellFormed
<1>12. CallsHaveLocks' /\ WokenOwns'
  BY <1>2, <1>3, <1>4, <1>5 DEF CallsHaveLocks, WokenOwns, Claims
<1>13. UnlockingOwns'
  BY <1>2, <1>3, <1>4, <1>5 DEF UnlockingOwns, Claims, CallsHaveLocks
<1>14. NextOwnerSleeps'
  BY <1>2, <1>3, <1>4, <1>7 DEF NextOwnerSleeps
<1>15. HandingOver(k)' = HandingOver(k) /\ \A j : HandingOver(j)' = HandingOver(j)
  BY <1>2, <1>4, <1>7 DEF HandingOver
<1>16. SleepersQueued'
  BY <1>2, <1>3, <1>4, <1>15 DEF SleepersQueued
<1>17. QueueMatchesTag'
  BY <1>2, <1>4, <1>6, <1>15 DEF QueueMatchesTag, EffectiveTag
<1>18. QED
  BY <1>2, <1>8, <1>9, <1>10, <1>11, <1>12, <1>13, <1>14, <1>16, <1>17

\* It finds the lock taken and sets the waiters bit.
LEMMA SetsWaiters ==
    ASSUME LockInv, NEW t \in Threads, NEW k \in KernelKeys,
           pc[t] \in {"run", "retry"}, CompareExchange(t, k), tag[k] # Free
    PROVE  LockInv'
<1>1. /\ tag' = [tag EXCEPT ![k].waiters = TRUE]
      /\ arg' = [arg EXCEPT ![t] = k]
      /\ seen' = [seen EXCEPT ![t] = tag[k].owner]
      /\ pc' = [pc EXCEPT ![t] = "lockSlow"]
      /\ UNCHANGED <<waiterVars, suspendVars, ctlVars, next, held>>
  BY DEF CompareExchange
<1> USE DEF LockInv
<1>2. /\ UNCHANGED <<waitingLock, lockOwner, state, slowOwner, terminating>>
      /\ UNCHANGED <<requested, allowed, suspended, terminationRequested, next, held>>
  BY <1>1 DEF waiterVars, suspendVars, ctlVars
<1>3. /\ tag \in [KernelKeys -> Tags]
      /\ pc \in [Threads -> {"run", "retry", "lockSlow", "wait", "unlockSlow", "handover"}]
      /\ arg \in [Threads -> KernelKeys \cup {NoKey}] /\ held \in [Threads -> SUBSET KernelKeys]
      /\ seen \in [Threads -> Threads \cup {NoThread}]
  BY DEF LockTypeOK
<1>4. /\ tag'[k] = [owner |-> tag[k].owner, waiters |-> TRUE]
      /\ \A j \in KernelKeys : j # k => tag'[j] = tag[j]
      /\ \A j \in KernelKeys : tag'[j].owner = tag[j].owner
      /\ pc'[t] = "lockSlow" /\ arg'[t] = k
      /\ \A u \in Threads : u # t => pc'[u] = pc[u] /\ arg'[u] = arg[u]
  BY <1>1, <1>3 DEF Tags
<1>5. tag[k].owner # NoThread /\ tag[k].owner \in Threads
  BY <1>3 DEF TagsWellFormed, Tags
<1>7. slowOwner # t /\ (slowOwner # NoThread => slowOwner \in Threads)
  BY DEF UnlockingOwns, LockTypeOK
<1>8. WaiterInv'
  BY <1>1, SameGraph
<1>9. LockTypeOK'
  <2>1. tag' \in [KernelKeys -> Tags]
    <3>1. tag'[k] \in Tags
      BY <1>4, <1>5 DEF Tags
    <3>2. \A j \in KernelKeys : j # k => tag'[j] \in Tags
      BY <1>3, <1>4
    <3>3. QED BY <1>1, <1>3, <3>1, <3>2
  <2>2. /\ pc' \in [Threads -> {"run", "retry", "lockSlow", "wait", "unlockSlow", "handover"}]
        /\ arg' \in [Threads -> KernelKeys \cup {NoKey}]
        /\ seen' \in [Threads -> Threads \cup {NoThread}]
    BY <1>1, <1>3, <1>5
  <2>3. TypeOK'
    BY <1>8 DEF WaiterInv
  <2>4. QED BY <1>2, <2>1, <2>2, <2>3 DEF LockTypeOK
<1>10. LockedByHolder'
  BY <1>2, <1>3, <1>4 DEF LockedByHolder
<1>11. TagsWellFormed'
  BY <1>2, <1>4, <1>5 DEF TagsWellFormed
<1>12. CallsHaveLocks' /\ WokenOwns'
  BY <1>2, <1>3, <1>4 DEF CallsHaveLocks, WokenOwns
<1>13. UnlockingOwns'
  BY <1>2, <1>3, <1>4 DEF UnlockingOwns, CallsHaveLocks
<1>14. NextOwnerSleeps'
  BY <1>2, <1>3, <1>4, <1>7 DEF NextOwnerSleeps
<1>15. \A j : HandingOver(j)' = HandingOver(j)
  BY <1>2, <1>4, <1>7 DEF HandingOver
<1>16. SleepersQueued'
  BY <1>2, <1>3, <1>4, <1>15 DEF SleepersQueued
<1>17. QueueMatchesTag'
  BY <1>2, <1>4, <1>15 DEF QueueMatchesTag, EffectiveTag
<1>18. QED
  BY <1>2, <1>8, <1>9, <1>10, <1>11, <1>12, <1>13, <1>14, <1>16, <1>17

-----------------------------------------------------------------------------
(* The slow path of Lock *)

\* The tag has changed since the compare-and-swap: Lock tries again.
LEMMA Retries ==
    ASSUME LockInv, NEW t \in Threads, LockSlowPath(t), ~TagUnchanged(arg[t], seen[t])
    PROVE  LockInv'
<1>1. /\ pc[t] = "lockSlow" /\ pc' = [pc EXCEPT ![t] = "retry"]
      /\ seen' = [seen EXCEPT ![t] = NoThread]
      /\ UNCHANGED <<waiterVars, tag, arg, next, held, suspendVars, ctlVars>>
  BY DEF LockSlowPath, suspendVars, ctlVars
<1> USE DEF LockInv
<1>2. UNCHANGED <<waitingLock, lockOwner, state, slowOwner, terminating, requested,
                  allowed, suspended, terminationRequested>>
  BY <1>1 DEF waiterVars, suspendVars, ctlVars
<1>3. /\ pc \in [Threads -> {"run", "retry", "lockSlow", "wait", "unlockSlow", "handover"}]
      /\ seen \in [Threads -> Threads \cup {NoThread}]
  BY DEF LockTypeOK
<1>4. pc'[t] = "retry" /\ \A u \in Threads : u # t => pc'[u] = pc[u]
  BY <1>1, <1>3
<1>5. WaiterInv'
  BY <1>1, SameGraph
<1>6. LockTypeOK'
  <2>1. TypeOK'
    BY <1>5 DEF WaiterInv
  <2>2. /\ pc' \in [Threads -> {"run", "retry", "lockSlow", "wait", "unlockSlow", "handover"}]
        /\ seen' \in [Threads -> Threads \cup {NoThread}]
    BY <1>1, <1>3
  <2>3. QED BY <1>1, <1>2, <2>1, <2>2 DEF LockTypeOK
<1>7. LockedByHolder' /\ TagsWellFormed'
  BY <1>1 DEF LockedByHolder, TagsWellFormed
<1>8. CallsHaveLocks' /\ WokenOwns'
  BY <1>1, <1>2, <1>4 DEF CallsHaveLocks, WokenOwns
<1>9. UnlockingOwns' /\ NextOwnerSleeps'
  BY <1>1, <1>2, <1>4 DEF UnlockingOwns, NextOwnerSleeps
<1>10. \A j : HandingOver(j)' = HandingOver(j) /\ EffectiveTag(j)' = EffectiveTag(j)
  BY <1>1, <1>2 DEF HandingOver, EffectiveTag
<1>11. SleepersQueued' /\ QueueMatchesTag'
  BY <1>1, <1>2, <1>4, <1>10 DEF SleepersQueued, QueueMatchesTag
<1>12. QED
  BY <1>2, <1>5, <1>6, <1>7, <1>8, <1>9, <1>11

\* The thread queues up for the owner that the tag still names, and sleeps.
LEMMA Queues ==
    ASSUME LockInv, NEW t \in Threads, LockSlowPath(t), TagUnchanged(arg[t], seen[t])
    PROVE  LockInv'
<1> DEFINE k == arg[t]
           o == seen[t]
<1> USE DEF LockInv
<1>1. /\ pc[t] = "lockSlow" /\ slowOwner = NoThread
      /\ tag[k] = [owner |-> o, waiters |-> TRUE]
      /\ AddWaiter(o, t, k)
      /\ state' = [state EXCEPT ![t] = "Waiting"]
      /\ suspended' = ContinueIfHasKernelWaiters(o, numKernelWaiters')
      /\ pc' = [pc EXCEPT ![t] = "wait"]
      /\ seen' = [seen EXCEPT ![t] = NoThread]
      /\ UNCHANGED <<tag, arg, next, held, requested, allowed, terminationRequested,
                     slowOwner, terminating>>
  BY DEF LockSlowPath, TagUnchanged, SchedulerFree
<1>2. /\ pc \in [Threads -> {"run", "retry", "lockSlow", "wait", "unlockSlow", "handover"}]
      /\ seen \in [Threads -> Threads \cup {NoThread}]
      /\ state \in [Threads -> {"Runnable", "Waiting"}]
      /\ suspended \in [Threads -> SUBSET SuspendTypes]
  BY DEF LockTypeOK
<1>3. k \in KernelKeys /\ k \in Keys
  BY <1>1 DEF CallsHaveLocks, Keys
<1>4. o \in Threads
  <2>1. tag[k].owner = o /\ tag[k].waiters = TRUE
    BY <1>1
  <2>2. Free.waiters = FALSE
    BY DEF Free
  <2>3. o # NoThread
    BY <1>3, <2>1, <2>2 DEF TagsWellFormed
  <2>4. QED BY <1>2, <2>3
<1>5. WaiterInv'
  BY <1>1, <1>3, <1>4, AddWaiterInv
<1>6. /\ waitingLock'[t] = k
      /\ \A u \in Threads : u # t => waitingLock'[u] = waitingLock[u]
      /\ lockOwner'[k] = o
      /\ \A j \in KernelKeys : j # k => lockOwner'[j] = lockOwner[j]
  <2>1. /\ waitingLock \in [Threads -> Keys \cup {NoKey}]
        /\ lockOwner \in [Keys -> Threads \cup {NoThread}]
    BY DEF LockTypeOK, TypeOK
  <2>2. /\ waitingLock' = [waitingLock EXCEPT ![t] = k]
        /\ lockOwner' = [lockOwner EXCEPT ![k] = o]
    BY <1>1 DEF AddWaiter
  <2>3. QED BY <1>3, <2>1, <2>2 DEF Keys
<1>7. /\ pc'[t] = "wait" /\ state'[t] = "Waiting"
      /\ \A u \in Threads : u # t => pc'[u] = pc[u] /\ state'[u] = state[u]
  BY <1>1, <1>2
<1>8. LockTypeOK'
  <2>1. TypeOK'
    BY <1>5 DEF WaiterInv
  <2>2. /\ pc' \in [Threads -> {"run", "retry", "lockSlow", "wait", "unlockSlow", "handover"}]
        /\ seen' \in [Threads -> Threads \cup {NoThread}]
        /\ state' \in [Threads -> {"Runnable", "Waiting"}]
    BY <1>1, <1>2
  <2>3. suspended' \in [Threads -> SUBSET SuspendTypes]
    BY <1>1, <1>2, <1>4 DEF ContinueIfHasKernelWaiters
  <2>4. QED BY <1>1, <2>1, <2>2, <2>3 DEF LockTypeOK
<1>9. LockedByHolder' /\ TagsWellFormed'
  BY <1>1 DEF LockedByHolder, TagsWellFormed
<1>10. CallsHaveLocks' /\ WokenOwns'
  BY <1>1, <1>3, <1>7 DEF CallsHaveLocks, WokenOwns
<1>11. UnlockingOwns' /\ NextOwnerSleeps'
  BY <1>1, <1>7, NoThreadAssumption DEF UnlockingOwns, NextOwnerSleeps
<1>12. \A j : ~HandingOver(j) /\ ~HandingOver(j)'
  BY <1>1 DEF HandingOver
<1>13. SleepersQueued'
  BY <1>1, <1>6, <1>7, <1>12 DEF SleepersQueued
<1>14. QueueMatchesTag'
  BY <1>1, <1>6, <1>12 DEF QueueMatchesTag, EffectiveTag
<1>15. QED
  BY <1>1, <1>5, <1>8, <1>9, <1>10, <1>11, <1>13, <1>14

\* The owner has passed the lock on: Lock returns.
LEMMA WaitEnds ==
    ASSUME LockInv, NEW t \in Threads, LockWaitEnds(t)
    PROVE  LockInv'
<1> DEFINE k == arg[t]
<1> USE DEF LockInv
<1>1. /\ pc[t] = "wait" /\ state[t] = "Runnable" /\ slowOwner = NoThread
      /\ held' = [held EXCEPT ![t] = @ \cup {k}]
      /\ pc' = [pc EXCEPT ![t] = "run"]
      /\ arg' = [arg EXCEPT ![t] = NoKey]
      /\ UNCHANGED <<waiterVars, suspendVars, ctlVars, tag, seen, next>>
  BY DEF LockWaitEnds, SchedulerFree
<1>2. UNCHANGED <<waitingLock, lockOwner, state, slowOwner, terminating, requested,
                  allowed, suspended, terminationRequested>>
  BY <1>1 DEF waiterVars, suspendVars, ctlVars
<1>3. /\ pc \in [Threads -> {"run", "retry", "lockSlow", "wait", "unlockSlow", "handover"}]
      /\ arg \in [Threads -> KernelKeys \cup {NoKey}]
      /\ held \in [Threads -> SUBSET KernelKeys]
  BY DEF LockTypeOK
<1>4. /\ pc'[t] = "run" /\ held'[t] = held[t] \cup {k}
      /\ \A u \in Threads : u # t => pc'[u] = pc[u] /\ arg'[u] = arg[u] /\ held'[u] = held[u]
  BY <1>1, <1>3
<1>5. k \in KernelKeys /\ tag[k].owner = t
  BY <1>1 DEF CallsHaveLocks, WokenOwns
<1>6. WaiterInv'
  BY <1>1, SameGraph
<1>7. LockTypeOK'
  <2>1. TypeOK'
    BY <1>6 DEF WaiterInv
  <2>2. /\ pc' \in [Threads -> {"run", "retry", "lockSlow", "wait", "unlockSlow", "handover"}]
        /\ arg' \in [Threads -> KernelKeys \cup {NoKey}]
        /\ held' \in [Threads -> SUBSET KernelKeys]
    BY <1>1, <1>3, <1>5
  <2>3. QED BY <1>1, <1>2, <2>1, <2>2 DEF LockTypeOK
<1>8. LockedByHolder' /\ TagsWellFormed'
  BY <1>1, <1>4, <1>5 DEF LockedByHolder, TagsWellFormed
<1>9. CallsHaveLocks' /\ WokenOwns'
  BY <1>1, <1>2, <1>4 DEF CallsHaveLocks, WokenOwns
<1>10. UnlockingOwns' /\ NextOwnerSleeps'
  BY <1>1, <1>2, <1>4, NoThreadAssumption DEF UnlockingOwns, NextOwnerSleeps
<1>11. \A j : ~HandingOver(j) /\ ~HandingOver(j)'
  BY <1>1, <1>2 DEF HandingOver
<1>12. SleepersQueued'
  BY <1>1, <1>2, <1>4, <1>11 DEF SleepersQueued
<1>13. QueueMatchesTag'
  BY <1>1, <1>2, <1>11 DEF QueueMatchesTag, EffectiveTag
<1>14. QED
  BY <1>2, <1>6, <1>7, <1>8, <1>9, <1>10, <1>12, <1>13

-----------------------------------------------------------------------------
(* Unlock *)

\* Nobody queues for the lock: the compare-and-swap frees it.
LEMMA UnlocksFast ==
    ASSUME LockInv, NEW t \in Threads, NEW k \in KernelKeys, Unlock(t, k), Uncontended(t, k)
    PROVE  LockInv'
<1> USE DEF LockInv
<1>1. /\ pc[t] = "run" /\ k \in held[t]
      /\ tag[k] = [owner |-> t, waiters |-> FALSE]
      /\ held' = [held EXCEPT ![t] = @ \ {k}]
      /\ tag' = [tag EXCEPT ![k] = Free]
      /\ UNCHANGED <<waiterVars, suspendVars, ctlVars, pc, arg, seen, next>>
  BY DEF Unlock, Uncontended
<1>2. UNCHANGED <<waitingLock, lockOwner, state, slowOwner, terminating, requested,
                  allowed, suspended, terminationRequested>>
  BY <1>1 DEF waiterVars, suspendVars, ctlVars
<1>3. tag \in [KernelKeys -> Tags] /\ held \in [Threads -> SUBSET KernelKeys]
  BY DEF LockTypeOK
<1>4. /\ tag'[k] = Free /\ \A j \in KernelKeys : j # k => tag'[j] = tag[j]
      /\ held'[t] = held[t] \ {k}
      /\ \A u \in Threads : u # t => held'[u] = held[u]
  BY <1>1, <1>3
<1>5. \A u \in Threads : u # t => ~Claims(u, k)
  <2>1. tag[k].owner = t
    BY <1>1
  <2>2. QED BY <2>1, ClaimantIsOwner
<1>6. ~HandingOver(k)
  <2>1. slowOwner # NoThread => slowOwner \in Threads /\ pc[slowOwner] = "handover"
    BY DEF LockTypeOK, UnlockingOwns
  <2>2. QED BY <1>1, <1>5, <2>1 DEF HandingOver, Claims
<1>7. lockOwner[k] = NoThread
  <2>1. tag[k].waiters = FALSE
    BY <1>1
  <2>2. k \in KernelKeys
    BY <1>1, <1>3
  <2>3. lockOwner[k] # NoThread => tag[k] = [owner |-> lockOwner[k], waiters |-> TRUE]
    BY <1>6, <2>2 DEF QueueMatchesTag, EffectiveTag
  <2>4. lockOwner[k] # NoThread => tag[k].waiters = TRUE
    BY <2>3
  <2>5. QED BY <2>1, <2>4
<1>8. WaiterInv'
  BY <1>1, SameGraph
<1>9. LockTypeOK'
  <2>1. TypeOK'
    BY <1>8 DEF WaiterInv
  <2>2. tag' \in [KernelKeys -> Tags]
    BY <1>1, <1>3 DEF Tags, Free
  <2>3. held' \in [Threads -> SUBSET KernelKeys]
    BY <1>1, <1>3
  <2>4. QED BY <1>1, <1>2, <2>1, <2>2, <2>3 DEF LockTypeOK
<1>10. LockedByHolder'
  BY <1>3, <1>4, <1>5 DEF LockedByHolder, Claims
<1>11. TagsWellFormed'
  BY <1>1, <1>4 DEF TagsWellFormed
<1>12. CallsHaveLocks' /\ NextOwnerSleeps'
  BY <1>1, <1>2 DEF CallsHaveLocks, NextOwnerSleeps
<1>13. WokenOwns'
  BY <1>1, <1>2, <1>4, <1>5 DEF WokenOwns, CallsHaveLocks, Claims
<1>14. UnlockingOwns'
  BY <1>1, <1>2, <1>4, <1>5 DEF UnlockingOwns, CallsHaveLocks, Claims
<1>15. \A j : HandingOver(j)' = HandingOver(j)
  BY <1>1, <1>2 DEF HandingOver
<1>16. SleepersQueued'
  BY <1>1, <1>2, <1>15 DEF SleepersQueued
<1>17. QueueMatchesTag'
  BY <1>1, <1>2, <1>4, <1>7, <1>15 DEF QueueMatchesTag, EffectiveTag
<1>18. QED
  BY <1>2, <1>8, <1>9, <1>10, <1>11, <1>12, <1>13, <1>14, <1>16, <1>17

\* The waiters bit is set: Unlock goes on in its slow path, still the owner.
LEMMA UnlocksSlowly ==
    ASSUME LockInv, NEW t \in Threads, NEW k \in KernelKeys, Unlock(t, k), ~Uncontended(t, k)
    PROVE  LockInv'
<1> USE DEF LockInv
<1>1. /\ pc[t] = "run" /\ k \in held[t]
      /\ tag[k] # [owner |-> t, waiters |-> FALSE]
      /\ held' = [held EXCEPT ![t] = @ \ {k}]
      /\ pc' = [pc EXCEPT ![t] = "unlockSlow"]
      /\ arg' = [arg EXCEPT ![t] = k]
      /\ UNCHANGED <<waiterVars, suspendVars, ctlVars, tag, seen, next>>
  BY DEF Unlock, Uncontended
<1>2. UNCHANGED <<waitingLock, lockOwner, state, slowOwner, terminating, requested,
                  allowed, suspended, terminationRequested>>
  BY <1>1 DEF waiterVars, suspendVars, ctlVars
<1>3. /\ pc \in [Threads -> {"run", "retry", "lockSlow", "wait", "unlockSlow", "handover"}]
      /\ arg \in [Threads -> KernelKeys \cup {NoKey}]
      /\ held \in [Threads -> SUBSET KernelKeys] /\ tag \in [KernelKeys -> Tags]
  BY DEF LockTypeOK
<1>4. /\ pc'[t] = "unlockSlow" /\ arg'[t] = k /\ held'[t] = held[t] \ {k}
      /\ \A u \in Threads : u # t => pc'[u] = pc[u] /\ arg'[u] = arg[u] /\ held'[u] = held[u]
  BY <1>1, <1>3
<1>5. tag[k] = [owner |-> t, waiters |-> TRUE]
  <2>1. tag[k].owner = t
    BY <1>1 DEF LockedByHolder
  <2>2. tag[k] = [owner |-> tag[k].owner, waiters |-> tag[k].waiters]
        /\ tag[k].waiters \in BOOLEAN
    BY <1>3 DEF Tags
  <2>3. QED BY <1>1, <2>1, <2>2
<1>6. slowOwner # t
  BY <1>1 DEF UnlockingOwns
<1>7. WaiterInv'
  BY <1>1, SameGraph
<1>8. LockTypeOK'
  <2>1. TypeOK'
    BY <1>7 DEF WaiterInv
  <2>2. /\ pc' \in [Threads -> {"run", "retry", "lockSlow", "wait", "unlockSlow", "handover"}]
        /\ arg' \in [Threads -> KernelKeys \cup {NoKey}]
        /\ held' \in [Threads -> SUBSET KernelKeys]
    BY <1>1, <1>3
  <2>3. QED BY <1>1, <1>2, <2>1, <2>2 DEF LockTypeOK
<1>9. LockedByHolder' /\ TagsWellFormed'
  BY <1>1, <1>3, <1>4 DEF LockedByHolder, TagsWellFormed
<1>10. CallsHaveLocks' /\ WokenOwns'
  BY <1>1, <1>2, <1>4 DEF CallsHaveLocks, WokenOwns
<1>11. UnlockingOwns'
  BY <1>1, <1>2, <1>4, <1>5, ZenonT(60) DEF UnlockingOwns
<1>12. NextOwnerSleeps'
  BY <1>1, <1>2, <1>4, <1>6 DEF NextOwnerSleeps
<1>13. \A j : HandingOver(j)' = HandingOver(j)
  <2>1. slowOwner # NoThread => slowOwner \in Threads
    BY DEF LockTypeOK
  <2>2. QED BY <1>2, <1>4, <1>6, <2>1 DEF HandingOver
<1>14. SleepersQueued'
  BY <1>1, <1>2, <1>4, <1>13 DEF SleepersQueued
<1>15. QueueMatchesTag'
  BY <1>1, <1>2, <1>13 DEF QueueMatchesTag, EffectiveTag
<1>16. QED
  BY <1>2, <1>7, <1>8, <1>9, <1>10, <1>11, <1>12, <1>14, <1>15

-----------------------------------------------------------------------------
(* UnlockSlowPath *)

\* Nobody queues for the lock after all: it is going to be freed.
LEMMA FindsNoWaiter ==
    ASSUME LockInv, NEW t \in Threads, UnlockSlowPath(t), lockOwner[arg[t]] # t
    PROVE  LockInv'
<1> DEFINE k == arg[t]
<1> USE DEF LockInv
<1>1. /\ pc[t] = "unlockSlow" /\ slowOwner = NoThread /\ slowOwner' = t
      /\ pc' = [pc EXCEPT ![t] = "handover"]
      /\ next' = [next EXCEPT ![t] = Free]
      /\ UNCHANGED <<waiterVars, suspendVars, tag, arg, seen, held, state,
                     terminationRequested, terminating>>
  BY DEF UnlockSlowPath, SchedulerFree, RemoveWaiterByKey
<1>2. UNCHANGED <<waitingLock, lockOwner, requested, allowed, suspended>>
  BY <1>1 DEF waiterVars, suspendVars
<1>3. /\ pc \in [Threads -> {"run", "retry", "lockSlow", "wait", "unlockSlow", "handover"}]
      /\ next \in [Threads -> Tags]
  BY DEF LockTypeOK
<1>4. /\ pc'[t] = "handover" /\ next'[t] = Free
      /\ \A u \in Threads : u # t => pc'[u] = pc[u] /\ next'[u] = next[u]
  BY <1>1, <1>3
<1>5. Free.owner = NoThread
  BY DEF Free
<1>6. k \in KernelKeys /\ tag[k] = [owner |-> t, waiters |-> TRUE]
  BY <1>1 DEF CallsHaveLocks, UnlockingOwns
<1>7. \A j : ~HandingOver(j) /\ (HandingOver(j)' => j = k)
  BY <1>1 DEF HandingOver
<1>8. lockOwner[k] = NoThread
  <2>1. lockOwner[k] # NoThread => tag[k] = [owner |-> lockOwner[k], waiters |-> TRUE]
    BY <1>6, <1>7 DEF QueueMatchesTag, EffectiveTag
  <2>2. lockOwner[k] # NoThread => tag[k].owner = lockOwner[k]
    BY <2>1
  <2>3. tag[k].owner = t
    BY <1>6
  <2>4. QED BY <2>2, <2>3
<1>9. WaiterInv'
  BY <1>1, SameGraph
<1>10. LockTypeOK'
  <2>1. TypeOK'
    BY <1>9 DEF WaiterInv
  <2>2. pc' \in [Threads -> {"run", "retry", "lockSlow", "wait", "unlockSlow", "handover"}]
    BY <1>1, <1>3
  <2>3. next' \in [Threads -> Tags]
    BY <1>1, <1>3 DEF Tags, Free
  <2>4. QED BY <1>1, <1>2, <2>1, <2>2, <2>3 DEF LockTypeOK
<1>11. LockedByHolder' /\ TagsWellFormed'
  BY <1>1, <1>4 DEF LockedByHolder, TagsWellFormed
<1>12. CallsHaveLocks' /\ WokenOwns'
  BY <1>1, <1>4, <1>6 DEF CallsHaveLocks, WokenOwns
<1>13. UnlockingOwns'
  BY <1>1, <1>4, NoThreadAssumption DEF UnlockingOwns
<1>14. NextOwnerSleeps'
  BY <1>1, <1>4, <1>5, NoThreadAssumption DEF NextOwnerSleeps
<1>15. SleepersQueued'
  BY <1>1, <1>2, <1>4, <1>7 DEF SleepersQueued
<1>16. QueueMatchesTag'
  BY <1>1, <1>2, <1>7, <1>8 DEF QueueMatchesTag, EffectiveTag
<1>17. QED
  BY <1>1, <1>9, <1>10, <1>11, <1>12, <1>13, <1>14, <1>15, <1>16

\* The most urgent waiter is taken out of the queue: it will be the owner.
LEMMA PicksNextOwner ==
    ASSUME LockInv, NEW t \in Threads, UnlockSlowPath(t), lockOwner[arg[t]] = t
    PROVE  LockInv'
<1> DEFINE k == arg[t]
           n == tree[k][1]
           rest == Tail(tree[k])
<1> USE DEF LockInv
<1>1. /\ pc[t] = "unlockSlow" /\ slowOwner = NoThread /\ slowOwner' = t
      /\ pc' = [pc EXCEPT ![t] = "handover"]
      /\ RemoveWaiterByKey(t, k)
      /\ next' = [next EXCEPT ![t] = NextTag(k)]
      /\ UNCHANGED <<suspendVars, tag, arg, seen, held, state,
                     terminationRequested, terminating>>
  BY DEF UnlockSlowPath, SchedulerFree
<1>2. UNCHANGED <<requested, allowed, suspended>>
  BY <1>1 DEF suspendVars
<1>3. /\ pc \in [Threads -> {"run", "retry", "lockSlow", "wait", "unlockSlow", "handover"}]
      /\ next \in [Threads -> Tags]
  BY DEF LockTypeOK
<1>4. k \in KernelKeys /\ k \in Keys /\ tag[k] = [owner |-> t, waiters |-> TRUE]
  BY <1>1 DEF CallsHaveLocks, UnlockingOwns, Keys
<1>5. tree[k] \in Seq(Threads) /\ tree[k] # <<>> /\ Distinct(tree[k])
  BY <1>4, NoThreadAssumption DEF LockTypeOK, TypeOK, WaiterInv, TreeMatchesWaits
<1>6. n \in Threads /\ waitingLock[n] = k /\ Len(rest) = Len(tree[k]) - 1
  BY <1>4, <1>5, TreeTail DEF WaiterInv, TreeMatchesWaits
<1>7. pc[n] = "wait" /\ state[n] = "Waiting" /\ arg[n] = k /\ n # t
  BY <1>1, <1>4, <1>6, NoKeyAssumption DEF SleepersQueued
<1>8. next'[t].owner = n /\ next'[t].waiters = (Len(tree[k]) > 1) /\ next'[t] \in Tags
      /\ next'[t] = [owner |-> n, waiters |-> Len(tree[k]) > 1]
      /\ \A u \in Threads : u # t => next'[u] = next[u]
  <2>1. NextTag(k) = [owner |-> n, waiters |-> Len(tree[k]) > 1]
    BY DEF NextTag, GetHighestPriorityWaiter
  <2>2. next'[t] = NextTag(k) /\ \A u \in Threads : u # t => next'[u] = next[u]
    BY <1>1, <1>3
  <2>3. (Len(tree[k]) > 1) \in BOOLEAN
    OBVIOUS
  <2>4. QED BY <1>6, <2>1, <2>2, <2>3 DEF Tags
<1>9. /\ pc'[t] = "handover"
      /\ \A u \in Threads : u # t => pc'[u] = pc[u]
  BY <1>1, <1>3
<1>10. /\ waitingLock'[n] = NoKey
       /\ \A u \in Threads : u # n => waitingLock'[u] = waitingLock[u]
       /\ lockOwner'[k] = IF rest = <<>> THEN NoThread ELSE n
       /\ \A j \in KernelKeys : j # k => lockOwner'[j] = lockOwner[j]
  <2>1. /\ waitingLock' = [waitingLock EXCEPT ![n] = NoKey]
        /\ lockOwner' = [lockOwner EXCEPT ![k] = IF rest = <<>> THEN NoThread ELSE n]
    BY <1>1 DEF RemoveWaiterByKey, GetHighestPriorityWaiter
  <2>2. /\ waitingLock \in [Threads -> Keys \cup {NoKey}]
        /\ lockOwner \in [Keys -> Threads \cup {NoThread}]
    BY DEF LockTypeOK, TypeOK
  <2>3. QED BY <1>4, <1>6, <2>1, <2>2 DEF Keys
<1>11. \A j : ~HandingOver(j) /\ (HandingOver(j)' <=> j = k)
  BY <1>1, NoThreadAssumption DEF HandingOver
<1>12. WaiterInv'
  BY <1>1, <1>4, RemoveWaiterByKeyInv
<1>13. LockTypeOK'
  <2>1. TypeOK'
    BY <1>12 DEF WaiterInv
  <2>2. pc' \in [Threads -> {"run", "retry", "lockSlow", "wait", "unlockSlow", "handover"}]
    BY <1>1, <1>3
  <2>3. next' \in [Threads -> Tags]
    BY <1>1, <1>3, <1>8
  <2>4. QED BY <1>1, <1>2, <2>1, <2>2, <2>3 DEF LockTypeOK
<1>14. LockedByHolder' /\ TagsWellFormed'
  BY <1>1, <1>6, <1>8, NoThreadAssumption DEF LockedByHolder, TagsWellFormed
<1>15. CallsHaveLocks' /\ WokenOwns'
  BY <1>1, <1>4, <1>9 DEF CallsHaveLocks, WokenOwns
<1>16. UnlockingOwns'
  BY <1>1, <1>9, NoThreadAssumption DEF UnlockingOwns
<1>17. NextOwnerSleeps'
  BY <1>1, <1>7, <1>8, <1>9, <1>10 DEF NextOwnerSleeps
<1>18. SleepersQueued'
  <2>1. ASSUME NEW u \in Threads, waitingLock'[u] # NoKey
        PROVE  pc'[u] = "wait" /\ state'[u] = "Waiting" /\ arg'[u] = waitingLock'[u]
    BY <1>1, <1>9, <1>10, <2>1 DEF SleepersQueued
  <2>2. ASSUME NEW u \in Threads, state'[u] = "Waiting"
        PROVE  /\ pc'[u] = "wait"
               /\ waitingLock'[u] = arg'[u]
                  \/ (HandingOver(arg[u])' /\ next'[slowOwner'].owner = u)
    <3>1. CASE u = n
      BY <1>1, <1>7, <1>8, <1>9, <1>11, <3>1
    <3>2. CASE u # n
      BY <1>1, <1>9, <1>10, <1>11, <2>2, <3>2 DEF SleepersQueued
    <3>3. QED BY <3>1, <3>2
  <2>3. QED BY <2>1, <2>2 DEF SleepersQueued
<1>19. QueueMatchesTag'
  <2>1. ASSUME lockOwner'[k] # NoThread
        PROVE  EffectiveTag(k)' = [owner |-> lockOwner'[k], waiters |-> TRUE]
    <3>1. rest # <<>> /\ lockOwner'[k] = n
      BY <1>10, <2>1
    <3>2. (Len(tree[k]) > 1) = TRUE
      BY <1>5, <3>1
    <3>3. EffectiveTag(k)' = next'[t]
      BY <1>1, <1>11 DEF EffectiveTag
    <3>4. QED BY <1>8, <3>1, <3>2, <3>3
  <2>2. ASSUME NEW j \in KernelKeys, j # k, lockOwner'[j] # NoThread
        PROVE  EffectiveTag(j)' = [owner |-> lockOwner'[j], waiters |-> TRUE]
    BY <1>1, <1>10, <1>11, <2>2 DEF QueueMatchesTag, EffectiveTag
  <2>3. ASSUME NEW j \in KernelKeys, lockOwner'[j] # NoThread
        PROVE  EffectiveTag(j)' = [owner |-> lockOwner'[j], waiters |-> TRUE]
    <3>1. CASE j = k
      BY <1>1, <2>1, <2>3, <3>1 DEF EffectiveTag, HandingOver
    <3>2. CASE j # k
      BY <2>2, <2>3, <3>2
    <3>3. QED BY <3>1, <3>2
  <2>4. QED BY <2>3 DEF QueueMatchesTag
<1>20. QED
  BY <1>1, <1>12, <1>13, <1>14, <1>15, <1>16, <1>17, <1>18, <1>19

\* The next owner is woken and the tag stored.
LEMMA HandsOver ==
    ASSUME LockInv, NEW t \in Threads, Handover(t)
    PROVE  LockInv'
<1> DEFINE k == arg[t]
           n == next[t].owner
<1> USE DEF LockInv
<1>1. /\ slowOwner = t /\ slowOwner' = NoThread
      /\ state' = [u \in Threads |-> IF u = n /\ state[u] = "Waiting"
                                     THEN "Runnable" ELSE state[u]]
      /\ tag' = [tag EXCEPT ![k] = next[t]]
      /\ next' = [next EXCEPT ![t] = Free]
      /\ pc' = [pc EXCEPT ![t] = "run"]
      /\ arg' = [arg EXCEPT ![t] = NoKey]
      /\ UNCHANGED <<waiterVars, seen, held, requested, allowed,
                     terminationRequested, terminating>>
  BY DEF Handover, StoredTag
<1>2. UNCHANGED <<waitingLock, lockOwner>>
  BY <1>1 DEF waiterVars
<1>3. /\ pc \in [Threads -> {"run", "retry", "lockSlow", "wait", "unlockSlow", "handover"}]
      /\ arg \in [Threads -> KernelKeys \cup {NoKey}]
      /\ next \in [Threads -> Tags] /\ tag \in [KernelKeys -> Tags]
      /\ state \in [Threads -> {"Runnable", "Waiting"}]
  BY DEF LockTypeOK
<1>4. pc[t] = "handover" /\ k \in KernelKeys /\ k \notin held[t]
  BY <1>1 DEF UnlockingOwns, CallsHaveLocks
<1>5. \A u \in Threads : u # t => ~Claims(u, k)
  <2>1. tag[k] = [owner |-> t, waiters |-> TRUE]
    BY <1>4 DEF UnlockingOwns
  <2>2. tag[k].owner = t
    BY <2>1
  <2>3. QED BY <1>4, <2>2, ClaimantIsOwner
<1>6. n \in Threads => pc[n] = "wait" /\ state[n] = "Waiting" /\ arg[n] = k
                       /\ waitingLock[n] = NoKey /\ n # t
  BY <1>1, <1>4 DEF NextOwnerSleeps
<1>7. /\ tag'[k] = next[t] /\ \A j \in KernelKeys : j # k => tag'[j] = tag[j]
      /\ pc'[t] = "run" /\ next'[t] = Free
      /\ \A u \in Threads : u # t => pc'[u] = pc[u] /\ arg'[u] = arg[u] /\ next'[u] = next[u]
  BY <1>1, <1>3, <1>4
<1>8. \A u \in Threads : state'[u] = IF u = n THEN "Runnable" ELSE state[u]
  BY <1>1, <1>3
<1>9. \A j : (HandingOver(j) <=> j = k) /\ ~HandingOver(j)'
  BY <1>1, NoThreadAssumption DEF HandingOver
<1>10. WaiterInv'
  BY <1>1, SameGraph
<1>11. LockTypeOK'
  <2>1. TypeOK'
    BY <1>10 DEF WaiterInv
  <2>2. /\ pc' \in [Threads -> {"run", "retry", "lockSlow", "wait", "unlockSlow", "handover"}]
        /\ arg' \in [Threads -> KernelKeys \cup {NoKey}]
        /\ tag' \in [KernelKeys -> Tags]
        /\ state' \in [Threads -> {"Runnable", "Waiting"}]
    BY <1>1, <1>3
  <2>3. next' \in [Threads -> Tags]
    BY <1>1, <1>3 DEF Tags, Free
  <2>4. suspended' \in [Threads -> SUBSET SuspendTypes]
    <3> DEFINE woken == IF n = NoThread THEN suspended
                        ELSE ContinueIfHasKernelWaiters(n, numKernelWaiters)
    <3>1. suspended' = IF allowed[t] \cap requested[t] # {} /\ numKernelWaiters[t] = 0
                       THEN [woken EXCEPT ![t] = allowed[t] \cap requested[t]] ELSE woken
      BY DEF Handover
    <3>2. woken \in [Threads -> SUBSET SuspendTypes]
      BY DEF LockTypeOK, ContinueIfHasKernelWaiters
    <3>3. allowed[t] \cap requested[t] \in SUBSET SuspendTypes
      BY DEF LockTypeOK
    <3>4. QED BY <3>1, <3>2, <3>3
  <2>5. QED BY <1>1, <2>1, <2>2, <2>3, <2>4 DEF LockTypeOK
<1>12. LockedByHolder'
  BY <1>1, <1>3, <1>4, <1>5, <1>7 DEF LockedByHolder, Claims, LockTypeOK
<1>13. TagsWellFormed'
  BY <1>7 DEF TagsWellFormed
<1>14. CallsHaveLocks'
  BY <1>7 DEF CallsHaveLocks
<1>15. UnlockingOwns'
  BY <1>1, <1>5, <1>7, NoThreadAssumption DEF UnlockingOwns, CallsHaveLocks, Claims
<1>16. WokenOwns'
  <2> SUFFICES ASSUME NEW u \in Threads, pc'[u] = "wait", state'[u] = "Runnable"
               PROVE  tag'[arg'[u]].owner = u
    BY DEF WokenOwns
  <2>1. u # t /\ pc[u] = "wait" /\ arg'[u] = arg[u]
    BY <1>7
  <2>2. CASE u = n
    BY <1>6, <1>7, <2>1, <2>2
  <2>3. CASE u # n
    <3>1. state[u] = "Runnable"
      BY <1>8, <2>3
    <3>2. arg[u] # k /\ arg[u] \in KernelKeys
      BY <1>5, <2>1, <3>1 DEF Claims, CallsHaveLocks
    <3>3. QED BY <1>7, <2>1, <3>1, <3>2 DEF WokenOwns
  <2>4. QED BY <2>2, <2>3
<1>17. NextOwnerSleeps'
  BY <1>1, NoThreadAssumption DEF NextOwnerSleeps
<1>18. SleepersQueued'
  BY <1>1, <1>2, <1>4, <1>6, <1>7, <1>8, <1>9 DEF SleepersQueued
<1>19. QueueMatchesTag'
  BY <1>1, <1>2, <1>7, <1>9 DEF QueueMatchesTag, EffectiveTag
<1>20. QED
  BY <1>1, <1>10, <1>11, <1>12, <1>13, <1>14, <1>15, <1>16, <1>17, <1>18, <1>19

-----------------------------------------------------------------------------
(* KThread *)

\* A change of priorities or of suspensions is none of the locks' business.
LEMMA Elsewhere ==
    ASSUME LockInv, WaiterInv', UNCHANGED <<lockVars, ctlVars, waitingLock, lockOwner>>,
           requested' \in [Threads -> SUBSET SuspendTypes],
           allowed' \in [Threads -> SUBSET SuspendTypes],
           suspended' \in [Threads -> SUBSET SuspendTypes]
    PROVE  LockInv'
<1> USE DEF LockInv
<1>1. UNCHANGED <<tag, pc, arg, seen, next, held, state, terminationRequested, slowOwner,
                  terminating, waitingLock, lockOwner>>
  BY DEF lockVars, ctlVars
<1>2. LockTypeOK'
  BY <1>1 DEF LockTypeOK, WaiterInv
<1>3. LockedByHolder' /\ TagsWellFormed' /\ CallsHaveLocks'
  BY <1>1 DEF LockedByHolder, TagsWellFormed, CallsHaveLocks
<1>4. UnlockingOwns' /\ WokenOwns' /\ NextOwnerSleeps'
  BY <1>1 DEF UnlockingOwns, WokenOwns, NextOwnerSleeps
<1>5. \A j : HandingOver(j)' = HandingOver(j) /\ EffectiveTag(j)' = EffectiveTag(j)
  BY <1>1 DEF HandingOver, EffectiveTag
<1>6. SleepersQueued' /\ QueueMatchesTag'
  BY <1>1, <1>5 DEF SleepersQueued, QueueMatchesTag
<1>7. QED
  BY <1>1, <1>2, <1>3, <1>4, <1>6

\* RequestSuspend and Resume.
LEMMA SuspensionChanges ==
    ASSUME LockInv, NEW t \in Threads, NEW type \in SuspendTypes,
           RequestSuspend(t, type) \/ Resume(t, type)
    PROVE  LockInv'
<1>1. UNCHANGED <<waiterVars, lockVars, ctlVars, allowed>>
  BY DEF RequestSuspend, Resume
<1>2. /\ requested \in [Threads -> SUBSET SuspendTypes]
      /\ allowed \in [Threads -> SUBSET SuspendTypes]
      /\ suspended \in [Threads -> SUBSET SuspendTypes]
  BY DEF LockInv, LockTypeOK
<1>3. requested' \in [Threads -> SUBSET SuspendTypes]
  BY <1>2 DEF RequestSuspend, Resume
<1>4. suspended' \in [Threads -> SUBSET SuspendTypes]
  <2>1. allowed'[t] \cap requested'[t] \in SUBSET SuspendTypes
    BY <1>1, <1>2, <1>3
  <2>2. suspended' = suspended
        \/ suspended' = [suspended EXCEPT ![t] = allowed'[t] \cap requested'[t]]
    BY DEF RequestSuspend, Resume, TrySuspend, UpdateState
  <2>3. QED BY <1>2, <2>1, <2>2
<1>5. WaiterInv'
  BY <1>1, SameGraph DEF LockInv
<1>6. UNCHANGED <<waitingLock, lockOwner>>
  BY <1>1 DEF waiterVars
<1>7. QED
  BY <1>1, <1>2, <1>3, <1>4, <1>5, <1>6, Elsewhere

\* svcSetThreadPriority and the iterations of RestorePriority.
LEMMA PriorityChanges ==
    ASSUME LockInv,
           Restore \/ \E t \in Threads, p \in Priorities : ChangeBasePriority(t, p)
    PROVE  LockInv'
<1>1. UNCHANGED <<lockVars, suspendVars, ctlVars, waitingLock, lockOwner>>
  BY DEF Restore, ChangeBasePriority, SetBasePriority, RestorePriority, graphVars
<1>2. WaiterInv'
  BY RestorePriorityInv, SetBasePriorityInv DEF LockInv, Restore, ChangeBasePriority
<1>3. UNCHANGED <<requested, allowed, suspended>>
  BY <1>1 DEF suspendVars
<1>4. QED
  BY <1>1, <1>2, <1>3, Elsewhere DEF LockInv, LockTypeOK

-----------------------------------------------------------------------------
(* The theorems *)

\* All locks are free.
LEMMA LockInvInit == LockInit => LockInv
<1> SUFFICES ASSUME LockInit PROVE LockInv
  OBVIOUS
<1> USE DEF LockInit
<1>1. WaiterInv
  BY WaiterInvInit
<1>2. /\ \A t \in Threads : waitingLock[t] = NoKey /\ pc[t] = "run" /\ state[t] = "Runnable"
                            /\ held[t] = {} /\ next[t] = Free
      /\ \A k \in Keys : lockOwner[k] = NoThread
      /\ \A k \in KernelKeys : tag[k] = Free
      /\ slowOwner = NoThread /\ terminating = NoThread
  BY DEF Init
<1>3. Free \in Tags /\ Free.owner = NoThread
  BY DEF Tags, Free
<1>4. LockTypeOK
  BY <1>1, <1>3 DEF LockTypeOK, WaiterInv
<1>5. LockedByHolder /\ TagsWellFormed /\ CallsHaveLocks
  BY <1>2 DEF LockedByHolder, TagsWellFormed, CallsHaveLocks
<1>6. UnlockingOwns /\ WokenOwns /\ NextOwnerSleeps
  BY <1>2, NoThreadAssumption DEF UnlockingOwns, WokenOwns, NextOwnerSleeps
<1>7. SleepersQueued
  BY <1>2 DEF SleepersQueued
<1>8. QueueMatchesTag
  BY <1>2 DEF QueueMatchesTag, Keys
<1>9. QED
  BY <1>1, <1>2, <1>4, <1>5, <1>6, <1>7, <1>8 DEF LockInv

\* Every step but those of RequestTerminate.
LEMMA LockInvNext ==
    ASSUME Terminable = {}, LockInv, [LockNext]_vars
    PROVE  LockInv'
<1>1. ASSUME NEW t \in Threads, NEW k \in KernelKeys, Lock(t, k)
      PROVE  LockInv'
  <2>1. pc[t] \in {"run", "retry"} /\ CompareExchange(t, k)
    BY <1>1 DEF Lock
  <2>2. QED BY <2>1, TakesLock, SetsWaiters
<1>2. ASSUME NEW t \in Threads, RetryLock(t)
      PROVE  LockInv'
  <2>1. pc[t] \in {"run", "retry"} /\ CompareExchange(t, arg[t])
    BY <1>2 DEF RetryLock
  <2>2. arg[t] \in KernelKeys
    BY <1>2 DEF RetryLock, LockInv, CallsHaveLocks
  <2>3. QED BY <2>1, <2>2, TakesLock, SetsWaiters
<1>3. ASSUME NEW t \in Threads, LockSlowPath(t)
      PROVE  LockInv'
  BY <1>3, Retries, Queues
<1>4. ASSUME NEW t \in Threads, LockWaitEnds(t)
      PROVE  LockInv'
  BY <1>4, WaitEnds
<1>5. ASSUME NEW t \in Threads, NEW k \in KernelKeys, Unlock(t, k)
      PROVE  LockInv'
  BY <1>5, UnlocksFast, UnlocksSlowly
<1>6. ASSUME NEW t \in Threads, UnlockSlowPath(t)
      PROVE  LockInv'
  BY <1>6, FindsNoWaiter, PicksNextOwner
<1>7. ASSUME NEW t \in Threads, Handover(t)
      PROVE  LockInv'
  BY <1>7, HandsOver
<1>8. ASSUME Restore PROVE LockInv'
  BY <1>8, PriorityChanges
<1>9. ASSUME NEW t \in Threads, NEW p \in Priorities, ChangeBasePriority(t, p)
      PROVE  LockInv'
  BY <1>9, PriorityChanges
<1>10. ASSUME NEW t \in Threads, NEW type \in SuspendTypes,
              RequestSuspend(t, type) \/ Resume(t, type)
       PROVE  LockInv'
  BY <1>10, SuspensionChanges
<1>11. ASSUME NEW t \in Threads, RequestTerminate(t) \/ CancelWait(t)
       PROVE  FALSE
  BY <1>11, NoThreadAssumption DEF RequestTerminate, CancelWait, LockInv
<1>12. CASE UNCHANGED vars
  <2>1. UNCHANGED <<waiterVars, lockVars, suspendVars, ctlVars>>
    BY <1>12 DEF vars
  <2>2. UNCHANGED <<waitingLock, lockOwner, requested, allowed, suspended>>
    BY <2>1 DEF waiterVars, suspendVars
  <2>3. WaiterInv'
    BY <2>1, SameGraph DEF LockInv
  <2>4. QED BY <2>1, <2>2, <2>3, Elsewhere DEF LockInv, LockTypeOK
<1>13. QED
  BY <1>1, <1>2, <1>3, <1>4, <1>5, <1>6, <1>7, <1>8, <1>9, <1>10, <1>11, <1>12
     DEF LockNext, LockStep

\* Where no thread is terminated, the tag, the queue and the places of the
\* threads in Lock and Unlock agree in every reachable state, for every number
\* of threads and locks.
THEOREM LockInvariant ==
    ASSUME Terminable = {}
    PROVE  LockSpec => []LockInv
<1>1. LockInv /\ [LockNext]_vars => LockInv'
  BY LockInvNext
<1>2. QED
  BY <1>1, LockInvInit, PTL DEF LockSpec

\* No lost wake-up: whoever sleeps for a lock is in the queue of the owner the
\* tag names, which has the waiters bit set, or is just being handed the lock.
THEOREM NoLostWakeup ==
    ASSUME Terminable = {}
    PROVE  LockSpec => []SleepersAreOwed
<1>1. ASSUME LockInv PROVE SleepersAreOwed
  <2> USE <1>1 DEF LockInv
  <2> SUFFICES ASSUME NEW t \in Threads, pc[t] = "wait", state[t] = "Waiting"
               PROVE  \/ /\ waitingLock[t] = arg[t]
                         /\ tag[arg[t]] = [owner |-> lockOwner[arg[t]], waiters |-> TRUE]
                      \/ \E u \in Threads :
                           /\ slowOwner = u
                           /\ arg[u] = arg[t]
                           /\ \/ next[u].owner = t
                              \/ /\ waitingLock[t] = arg[t]
                                 /\ next[u] = [owner |-> lockOwner[arg[t]], waiters |-> TRUE]
    BY DEF SleepersAreOwed
  <2> DEFINE k == arg[t]
  <2>1. k \in KernelKeys /\ k \in Keys
    BY DEF CallsHaveLocks, Keys
  <2>2. slowOwner # NoThread => slowOwner \in Threads
    BY DEF LockTypeOK
  <2>3. CASE HandingOver(k) /\ next[slowOwner].owner = t
    BY <2>2, <2>3 DEF HandingOver
  <2>4. CASE waitingLock[t] = k
    <3>1. In(t, tree[k])
      BY <2>1, <2>4 DEF WaiterInv, TreeMatchesWaits
    <3>2. tree[k] # <<>>
      BY <3>1 DEF In
    <3>3. EffectiveTag(k) = [owner |-> lockOwner[k], waiters |-> TRUE]
      BY <2>1, <3>2 DEF WaiterInv, TreeMatchesWaits, QueueMatchesTag
    <3>4. CASE HandingOver(k)
      BY <2>2, <2>4, <3>3, <3>4 DEF HandingOver, EffectiveTag
    <3>5. CASE ~HandingOver(k)
      BY <2>4, <3>3, <3>5 DEF EffectiveTag
    <3>6. QED BY <3>4, <3>5
  <2>5. QED BY <2>3, <2>4 DEF SleepersQueued
<1>2. QED
  BY <1>1, LockInvariant, PTL

-----------------------------------------------------------------------------
(* The locks implement Mutex *)

\* The threads inside lock k's critical section.
Holders(k) == { t \in Threads : k \in held[t] }

\* A lock has at most one holder.
LEMMA OneHolder ==
    ASSUME LockInv, NEW k \in KernelKeys, NEW t \in Threads, Claims(t, k)
    PROVE  Holders(k) \subseteq {t}
<1>1. \A u \in Threads : k \in held[u] => u = t
  BY ClaimantIsOwner DEF Claims
<1>2. QED BY <1>1 DEF Holders

\* A thread that enters a critical section finds it empty, one that leaves it
\* was alone there, and no other step changes who is inside.
LEMMA HoldersStep ==
    ASSUME LockInv, [LockNext]_vars
    PROVE  \/ \E t \in Threads, k \in KernelKeys :
                Holders(k) = {} /\ held' = [held EXCEPT ![t] = @ \cup {k}]
           \/ \E t \in Threads, k \in KernelKeys :
                Holders(k) = {t} /\ held' = [held EXCEPT ![t] = @ \ {k}]
           \/ held' = held
<1>1. ASSUME NEW t \in Threads, NEW k \in KernelKeys, CompareExchange(t, k)
      PROVE  \/ Holders(k) = {} /\ held' = [held EXCEPT ![t] = @ \cup {k}]
             \/ held' = held
  <2>1. CASE tag[k] = Free
    <3>1. Holders(k) = {}
      BY <2>1, FreeLockIsUnused DEF Claims, Holders
    <3>2. QED BY <1>1, <2>1, <3>1 DEF CompareExchange
  <2>2. CASE tag[k] # Free
    BY <1>1, <2>2 DEF CompareExchange
  <2>3. QED BY <2>1, <2>2
<1>2. ASSUME NEW t \in Threads, LockWaitEnds(t)
      PROVE  \/ /\ arg[t] \in KernelKeys /\ Holders(arg[t]) = {}
                /\ held' = [held EXCEPT ![t] = @ \cup {arg[t]}]
             \/ held' = held
  <2>1. arg[t] \in KernelKeys /\ Claims(t, arg[t])
    BY <1>2 DEF LockWaitEnds, Claims, LockInv, CallsHaveLocks
  <2>2. held' = [held EXCEPT ![t] = @ \cup {arg[t]}]
    BY <1>2 DEF LockWaitEnds
  <2>3. CASE arg[t] \in held[t]
    <3>1. held[t] \cup {arg[t]} = held[t] /\ held \in [Threads -> SUBSET KernelKeys]
      BY <2>3 DEF LockInv, LockTypeOK
    <3>2. QED BY <2>2, <3>1
  <2>4. CASE arg[t] \notin held[t]
    <3>1. Holders(arg[t]) \subseteq {t} /\ t \notin Holders(arg[t])
      BY <2>1, <2>4, OneHolder DEF Holders
    <3>2. QED BY <2>1, <2>2, <3>1
  <2>5. QED BY <2>3, <2>4
<1>3. ASSUME NEW t \in Threads, NEW k \in KernelKeys, Unlock(t, k)
      PROVE  Holders(k) = {t} /\ held' = [held EXCEPT ![t] = @ \ {k}]
  <2>1. k \in held[t]
    BY <1>3 DEF Unlock
  <2>2. Holders(k) \subseteq {t} /\ t \in Holders(k)
    BY <2>1, OneHolder DEF Claims, Holders
  <2>3. QED BY <1>3, <2>2 DEF Unlock
<1>4. ASSUME NEW t \in Threads, RetryLock(t)
      PROVE  arg[t] \in KernelKeys /\ CompareExchange(t, arg[t])
  BY <1>4 DEF RetryLock, LockInv, CallsHaveLocks
<1>5. ASSUME NEW t \in Threads, NEW k \in KernelKeys, Lock(t, k)
      PROVE  CompareExchange(t, k)
  BY <1>5 DEF Lock
<1>6. ASSUME NEW t \in Threads,
             LockSlowPath(t) \/ UnlockSlowPath(t) \/ Handover(t) \/ CancelWait(t)
      PROVE  held' = held
  BY <1>6 DEF LockSlowPath, UnlockSlowPath, Handover, CancelWait, lockVars
<1>7. ASSUME Restore PROVE held' = held
  BY <1>7 DEF Restore, lockVars
<1>8. ASSUME NEW t \in Threads, NEW p \in Priorities, ChangeBasePriority(t, p)
      PROVE  held' = held
  BY <1>8 DEF ChangeBasePriority, lockVars
<1>9. ASSUME NEW t \in Threads, NEW type \in SuspendTypes,
             RequestSuspend(t, type) \/ Resume(t, type)
      PROVE  held' = held
  BY <1>9 DEF RequestSuspend, Resume, lockVars
<1>10. ASSUME NEW t \in Threads, RequestTerminate(t) PROVE held' = held
  BY <1>10 DEF RequestTerminate, lockVars
<1>11. CASE UNCHANGED vars
  BY <1>11 DEF vars, lockVars
<1>12. QED
  BY <1>1, <1>2, <1>3, <1>4, <1>5, <1>6, <1>7, <1>8, <1>9, <1>10, <1>11
     DEF LockNext, LockStep

\* What is inside the other locks stays inside.
LEMMA HoldersAfter ==
    ASSUME NEW t \in Threads, NEW k \in KernelKeys, NEW s \in SUBSET KernelKeys,
           held \in [Threads -> SUBSET KernelKeys], held' = [held EXCEPT ![t] = s],
           \A j \in KernelKeys \ {k} : j \in s <=> j \in held[t]
    PROVE  /\ \A j \in KernelKeys \ {k} : Holders(j)' = Holders(j)
           /\ Holders(k)' = (Holders(k) \ {t}) \cup (IF k \in s THEN {t} ELSE {})
BY DEF Holders

\* The locks behave as mutexes for every number of threads and locks where no
\* thread is terminated: one holder at a time, who alone gives a lock up.
THEOREM LocksAreMutexes ==
    ASSUME Terminable = {}
    PROVE  LockSpec => LockIsMutex
<1> DEFINE bar == [k \in KernelKeys |-> { t \in Threads : k \in held[t] }]
<1>1. ASSUME LockInit PROVE AbstractLocks!Init
  BY <1>1 DEF LockInit, AbstractLocks!Init
<1>2. ASSUME LockInv, [LockNext]_vars PROVE [AbstractLocks!Next]_bar
  <2>1. held \in [Threads -> SUBSET KernelKeys]
    BY <1>2 DEF LockInv, LockTypeOK
  <2>2. \A k \in KernelKeys : bar[k] = Holders(k) /\ bar'[k] = Holders(k)'
    BY DEF Holders
  <2>3. ASSUME NEW t \in Threads, NEW k \in KernelKeys, Holders(k) = {},
               held' = [held EXCEPT ![t] = @ \cup {k}]
        PROVE  AbstractLocks!Acquire(t, k)
    <3>1. /\ \A j \in KernelKeys \ {k} : Holders(j)' = Holders(j)
          /\ Holders(k)' = {t}
      <4> DEFINE s == held[t] \cup {k}
      <4>1. /\ s \in SUBSET KernelKeys /\ held' = [held EXCEPT ![t] = s]
            /\ \A j \in KernelKeys \ {k} : j \in s <=> j \in held[t]
            /\ k \in s
        BY <2>1, <2>3
      <4> HIDE DEF s
      <4>2. QED BY <2>1, <2>3, <4>1, HoldersAfter, ZenonT(60)
    <3>2. bar' = [bar EXCEPT ![k] = {t}]
      BY <2>2, <3>1
    <3>3. bar[k] = {}
      BY <2>2, <2>3
    <3>4. QED BY <3>2, <3>3 DEF AbstractLocks!Acquire
  <2>4. ASSUME NEW t \in Threads, NEW k \in KernelKeys, Holders(k) = {t},
               held' = [held EXCEPT ![t] = @ \ {k}]
        PROVE  AbstractLocks!Release(t, k)
    <3>1. /\ \A j \in KernelKeys \ {k} : Holders(j)' = Holders(j)
          /\ Holders(k)' = {}
      <4> DEFINE s == held[t] \ {k}
      <4>1. /\ s \in SUBSET KernelKeys /\ held' = [held EXCEPT ![t] = s]
            /\ \A j \in KernelKeys \ {k} : j \in s <=> j \in held[t]
            /\ k \notin s
        BY <2>1, <2>4
      <4> HIDE DEF s
      <4>2. QED BY <2>1, <2>4, <4>1, HoldersAfter, ZenonT(60)
    <3>2. bar' = [bar EXCEPT ![k] = {}]
      BY <2>2, <3>1, ZenonT(60)
    <3>3. bar[k] = {t}
      BY <2>2, <2>4
    <3>4. QED BY <3>2, <3>3 DEF AbstractLocks!Release
  <2>5. CASE held' = held
    BY <2>5
  <2>6. QED BY <1>2, <2>3, <2>4, <2>5, HoldersStep DEF AbstractLocks!Next
<1>3. QED
  BY <1>1, <1>2, LockInvariant, PTL DEF LockSpec, LockIsMutex, AbstractLocks!Spec

-----------------------------------------------------------------------------
(* The locks use the waiter graph as KThreadWaiters says *)

\* Whoever is inside Lock or Unlock has a lock there.
CallInv ==
    /\ live = Threads
    /\ pc \in [Threads -> {"run", "retry", "lockSlow", "wait", "unlockSlow", "handover"}]
    /\ arg \in [Threads -> KernelKeys \cup {NoKey}]
    /\ CallsHaveLocks

\* Only a call changes it: the compare-and-swap enters one, with its lock.
LEMMA CallInvNext ==
    ASSUME CallInv, [LockNext]_vars
    PROVE  CallInv'
<1>1. live' = live
  BY DEF LockNext, LockStep, Lock, RetryLock, CompareExchange, LockSlowPath, AddWaiter,
         LockWaitEnds, Unlock, UnlockSlowPath, RemoveWaiterByKey, Handover, Restore,
         RestorePriority, RequestSuspend, Resume, ChangeBasePriority, SetBasePriority,
         RequestTerminate, IncreaseBasePriority, CancelWait, RemoveWaiter, prioVars,
         waiterVars, vars
<1> USE DEF CallInv, CallsHaveLocks
<1>2. ASSUME NEW t \in Threads, NEW k \in KernelKeys, CompareExchange(t, k)
      PROVE  CallInv'
  BY <1>1, <1>2 DEF CompareExchange
<1>3. ASSUME NEW t \in Threads, NEW k \in KernelKeys, Lock(t, k) PROVE CallInv'
  BY <1>2, <1>3 DEF Lock
<1>4. ASSUME NEW t \in Threads, RetryLock(t) PROVE CallInv'
  <2>1. arg[t] \in KernelKeys /\ CompareExchange(t, arg[t])
    BY <1>4 DEF RetryLock
  <2>2. QED BY <1>2, <2>1
<1>5. ASSUME NEW t \in Threads, LockSlowPath(t) PROVE CallInv'
  BY <1>1, <1>5 DEF LockSlowPath
<1>6. ASSUME NEW t \in Threads, LockWaitEnds(t) PROVE CallInv'
  BY <1>1, <1>6 DEF LockWaitEnds
<1>7. ASSUME NEW t \in Threads, NEW k \in KernelKeys, Unlock(t, k) PROVE CallInv'
  BY <1>1, <1>7 DEF Unlock
<1>8. ASSUME NEW t \in Threads, UnlockSlowPath(t) PROVE CallInv'
  BY <1>1, <1>8 DEF UnlockSlowPath
<1>9. ASSUME NEW t \in Threads, Handover(t) PROVE CallInv'
  BY <1>1, <1>9 DEF Handover
<1>10. CASE UNCHANGED <<pc, arg>>
  BY <1>1, <1>10
<1>11. QED
  BY <1>3, <1>4, <1>5, <1>6, <1>7, <1>8, <1>9, <1>10
     DEF LockNext, LockStep, Restore, RequestSuspend, Resume, ChangeBasePriority,
         RequestTerminate, CancelWait, lockVars, vars

\* A step of the locks is an operation on the waiter graph, or leaves it alone.
LEMMA LockStepOnGraph ==
    ASSUME CallInv, [LockNext]_vars
    PROVE  [Next]_waiterVars
<1> USE DEF CallInv
<1>1. ASSUME NEW t \in Threads, LockSlowPath(t) PROVE [Next]_waiterVars
  <2>1. arg[t] \in Keys
    BY <1>1 DEF LockSlowPath, CallsHaveLocks, Keys
  <2>2. CASE AddWaiter(seen[t], t, arg[t])
    BY <2>1, <2>2 DEF AddWaiter, Next
  <2>3. QED BY <1>1, <2>2 DEF LockSlowPath
<1>2. ASSUME NEW t \in Threads, UnlockSlowPath(t) PROVE [Next]_waiterVars
  <2>1. arg[t] \in Keys
    BY <1>2 DEF UnlockSlowPath, CallsHaveLocks, Keys
  <2>2. QED BY <1>2, <2>1 DEF UnlockSlowPath, Next
<1>3. ASSUME Restore PROVE [Next]_waiterVars
  BY <1>3 DEF Restore, Next
<1>4. ASSUME NEW t \in Threads, NEW p \in Priorities, ChangeBasePriority(t, p)
      PROVE  [Next]_waiterVars
  BY <1>4 DEF ChangeBasePriority, Next
<1>5. ASSUME NEW t \in Threads, RequestTerminate(t) PROVE [Next]_waiterVars
  BY <1>5, TerminatingPriorityAssumption DEF RequestTerminate, Next
<1>6. ASSUME NEW t \in Threads, CancelWait(t) PROVE [Next]_waiterVars
  BY <1>6 DEF CancelWait, Next
<1>7. ASSUME \/ \E t \in Threads : RetryLock(t) \/ LockWaitEnds(t) \/ Handover(t)
             \/ \E t \in Threads, k \in KernelKeys : Lock(t, k) \/ Unlock(t, k)
             \/ \E t \in Threads, type \in SuspendTypes :
                  RequestSuspend(t, type) \/ Resume(t, type)
             \/ UNCHANGED vars
      PROVE  UNCHANGED waiterVars
  BY <1>7 DEF RetryLock, Lock, CompareExchange, LockWaitEnds, Handover, Unlock,
              RequestSuspend, Resume, vars
<1>8. QED
  BY <1>1, <1>2, <1>3, <1>4, <1>5, <1>6, <1>7 DEF LockNext, LockStep

\* Whatever the threads do with the locks, with suspensions and with terminations,
\* it is a behaviour of the waiter graph: all that KThreadWaiters promises of its
\* operations, the priorities and the counts, holds of the locks.
THEOREM LocksUseWaiterGraph == LockSpec => Spec
<1>1. LockInit => Init /\ CallInv
  BY NoKeyAssumption DEF LockInit, Init, CallInv, CallsHaveLocks
<1>2. CallInv /\ [LockNext]_vars => CallInv' /\ [Next]_waiterVars
  BY CallInvNext, LockStepOnGraph
<1>3. QED
  BY <1>1, <1>2, PTL DEF LockSpec, Spec

\* The count that decides whether a thread may be suspended is right at all times,
\* also while a terminated thread's wait is cancelled.
THEOREM LockWaitersAreCounted == LockSpec => []KernelWaitersCounted
BY LocksUseWaiterGraph, CountsAreRight

\* Priorities are inherited through the locks at all times.
THEOREM LockOwnersInherit == LockSpec => []PriorityInheritance
BY LocksUseWaiterGraph, PriorityIsInherited

-----------------------------------------------------------------------------
(* Suspended threads keep nobody waiting *)

\* The kernel waiters of a thread, for the two counts that matter.
LEMMA OwnersHaveWaiters ==
    ASSUME WaiterInv, KernelWaitersCounted, NEW t \in live
    PROVE  /\ numKernelWaiters[t] \in Nat
           /\ \A k \in KernelKeys : lockOwner[k] = t => numKernelWaiters[t] # 0
<1> DEFINE waiters == KernelWaiters(waitingLock, lockOwner, t)
<1>1. numKernelWaiters[t] = Cardinality(waiters)
  <2>1. \A w \in Threads : w \in waiters <=>
            w \in Waiters(t) /\ waitingLock[w] \in KernelKeys
    BY NoKeyAssumption, NoThreadAssumption
       DEF KernelWaiters, Waiters, GetLockOwner, WaiterInv, TypeOK, Keys
  <2>2. { w \in Waiters(t) : waitingLock[w] \in KernelKeys } = waiters
    BY <2>1 DEF Waiters, KernelWaiters
  <2>3. QED BY <2>2 DEF KernelWaitersCounted
<1>2. IsFiniteSet(waiters) /\ Cardinality(waiters) \in Nat
  BY KernelWaitersAreFinite
<1>3. ASSUME NEW k \in KernelKeys, lockOwner[k] = t PROVE waiters # {}
  <2>1. k \in Keys /\ t \in Threads
    BY DEF Keys, WaiterInv, TypeOK
  <2>2. tree[k] \in Seq(Threads) /\ tree[k] # <<>>
    BY <1>3, <2>1, NoThreadAssumption DEF WaiterInv, TypeOK, TreeMatchesWaits
  <2>3. tree[k][1] \in Threads /\ In(tree[k][1], tree[k])
    BY <2>2 DEF In
  <2>4. waitingLock[tree[k][1]] = k
    BY <2>1, <2>3 DEF WaiterInv, TreeMatchesWaits
  <2>5. tree[k][1] \in waiters
    BY <1>3, <2>3, <2>4 DEF KernelWaiters
  <2>6. QED BY <2>5
<1> HIDE DEF waiters
<1>4. waiters # {} => Cardinality(waiters) # 0
  BY <1>2, FS_EmptySet
<1>5. QED BY <1>1, <1>2, <1>3, <1>4

\* Steps that change neither the counts, nor what is asked for, nor who is suspended,
\* nor the hand-over under way.
LEMMA SuspensionElsewhere ==
    ASSUME SuspensionInv, UNCHANGED <<suspendVars, numKernelWaiters, slowOwner, next>>
    PROVE  SuspensionInv'
BY DEF SuspensionInv, suspendVars

\* A waiter queues up: an owner that is suspended goes on.
LEMMA SuspensionLockSlowPath ==
    ASSUME LockInv, KernelWaitersCounted, live = Threads, SuspensionInv,
           NEW t \in Threads, LockSlowPath(t)
    PROVE  SuspensionInv'
<1>1. UNCHANGED <<requested, allowed, slowOwner, next>> /\ slowOwner = NoThread
  BY DEF LockSlowPath, SchedulerFree
<1>2. CASE UNCHANGED <<waiterVars, suspended>>
  BY <1>1, <1>2, SuspensionElsewhere DEF waiterVars, suspendVars
<1>3. CASE /\ AddWaiter(seen[t], t, arg[t])
           /\ suspended' = ContinueIfHasKernelWaiters(seen[t], numKernelWaiters')
  <2> DEFINE o == seen[t]
             n == KernelWaiterCount(arg[t], 1)
  <2>1. o \in Threads /\ n \in Nat /\ numKernelWaiters' = [numKernelWaiters EXCEPT ![o] = @ + n]
    BY <1>3 DEF AddWaiter, KernelWaiterCount
  <2>2. \A u \in Threads : numKernelWaiters[u] \in Nat
    BY OwnersHaveWaiters DEF LockInv
  <2>3. /\ numKernelWaiters'[o] = numKernelWaiters[o] + n
        /\ \A u \in Threads : u # o => numKernelWaiters'[u] = numKernelWaiters[u]
    BY <2>1 DEF LockInv, WaiterInv, TypeOK
  <2> HIDE DEF n
  <2>4. /\ \A u \in Threads : suspended'[u] = suspended[u] \/ suspended'[u] = {}
        /\ allowed[o] \cap requested[o] # {} /\ numKernelWaiters'[o] > 0 => suspended'[o] = {}
    BY <1>3, <2>1 DEF ContinueIfHasKernelWaiters, LockInv, LockTypeOK
  <2>5. ASSUME NEW u \in Threads, suspended'[u] # {} PROVE numKernelWaiters'[u] = 0
    <3>1. /\ suspended'[u] = suspended[u] /\ suspended[u] # {} /\ numKernelWaiters[u] = 0
          /\ allowed[u] \cap requested[u] # {}
      BY <1>1, <2>4, <2>5 DEF SuspensionInv
    <3>2. CASE u = o
      BY <2>1, <2>2, <2>3, <2>4, <2>5, <3>1, <3>2
    <3>3. CASE u # o
      BY <2>3, <3>1, <3>3
    <3>4. QED BY <3>2, <3>3
  <2>6. \A u \in Threads : suspended'[u] \subseteq allowed'[u] \cap requested'[u]
    BY <1>1, <2>4 DEF SuspensionInv
  <2>7. QED BY <2>5, <2>6 DEF SuspensionInv
<1>4. QED BY <1>2, <1>3 DEF LockSlowPath

\* The counts move from the old owner, which had a waiter and so is not suspended, to
\* the new one, which Handover is going to see to.
LEMMA SuspensionUnlockSlowPath ==
    ASSUME LockInv, KernelWaitersCounted, live = Threads, SuspensionInv,
           NEW t \in Threads, UnlockSlowPath(t)
    PROVE  SuspensionInv'
<1>1. /\ UNCHANGED <<requested, allowed, suspended>> /\ slowOwner = NoThread /\ slowOwner' = t
      /\ t # NoThread /\ pc[t] = "unlockSlow"
  BY NoThreadAssumption DEF UnlockSlowPath, SchedulerFree, suspendVars
<1>2. \A u \in Threads : suspended[u] # {} => numKernelWaiters[u] = 0
  BY <1>1 DEF SuspensionInv
<1>3. CASE UNCHANGED numKernelWaiters
  BY <1>1, <1>2, <1>3 DEF SuspensionInv
<1>4. CASE /\ lockOwner[arg[t]] = t /\ RemoveWaiterByKey(t, arg[t])
           /\ next' = [next EXCEPT ![t] = NextTag(arg[t])]
  <2> DEFINE n == GetHighestPriorityWaiter(arg[t])
  <2>1. next'[t].owner = n
    <3>1. next' [t] = NextTag(arg[t])
      BY <1>4 DEF LockInv, LockTypeOK
    <3>2. QED BY <3>1 DEF NextTag
  <2>2. arg[t] \in KernelKeys
    BY <1>1 DEF LockInv, CallsHaveLocks
  <2>3. suspended[t] = {}
    BY <1>2, <1>4, <2>2, OwnersHaveWaiters DEF LockInv
  <2> HIDE DEF n
  <2>4. \A u \in Threads : u # t /\ u # n => numKernelWaiters'[u] = numKernelWaiters[u]
    BY <1>4 DEF RemoveWaiterByKey, LockInv, WaiterInv, TypeOK, n
  <2>5. ASSUME NEW u \in Threads, suspended'[u] # {}
        PROVE  numKernelWaiters'[u] = 0 \/ (slowOwner' # NoThread /\ next'[slowOwner'].owner = u)
    BY <1>1, <1>2, <2>1, <2>3, <2>4, <2>5
  <2>6. QED BY <1>1, <2>5 DEF SuspensionInv
<1>5. QED BY <1>3, <1>4 DEF UnlockSlowPath, waiterVars

\* The next owner goes on if it has waiters; the old one is suspended now, if that was
\* put off and it has none.
LEMMA SuspensionHandover ==
    ASSUME LockInv, KernelWaitersCounted, live = Threads, SuspensionInv,
           NEW t \in Threads, Handover(t)
    PROVE  SuspensionInv'
<1> DEFINE n == next[t].owner
           woken == IF n = NoThread THEN suspended
                    ELSE ContinueIfHasKernelWaiters(n, numKernelWaiters)
<1>1. /\ slowOwner = t /\ UNCHANGED <<requested, allowed, numKernelWaiters>>
      /\ suspended' = IF allowed[t] \cap requested[t] # {} /\ numKernelWaiters[t] = 0
                      THEN [woken EXCEPT ![t] = allowed[t] \cap requested[t]] ELSE woken
  BY DEF Handover, waiterVars
<1>2. \A u \in Threads : numKernelWaiters[u] \in Nat
  BY OwnersHaveWaiters DEF LockInv
<1>3. suspended \in [Threads -> SUBSET SuspendTypes] /\ n \in Threads \cup {NoThread}
  BY DEF LockInv, LockTypeOK, Tags
<1>4. /\ woken \in [Threads -> SUBSET SuspendTypes]
      /\ \A u \in Threads : woken[u] = suspended[u] \/ woken[u] = {}
      /\ n \in Threads /\ allowed[n] \cap requested[n] # {} /\ numKernelWaiters[n] > 0
           => woken[n] = {}
  BY <1>3, NoThreadAssumption DEF ContinueIfHasKernelWaiters
<1> HIDE DEF woken
<1>5. \A u \in Threads : \/ suspended'[u] = woken[u]
                         \/ /\ suspended'[u] = allowed[u] \cap requested[u]
                            /\ numKernelWaiters[u] = 0
  BY <1>1, <1>4
<1>6. ASSUME NEW u \in Threads, woken[u] # {} PROVE numKernelWaiters[u] = 0
  <2>1. /\ suspended[u] # {} /\ allowed[u] \cap requested[u] # {}
        /\ numKernelWaiters[u] = 0 \/ n = u
    BY <1>1, <1>4, <1>6 DEF SuspensionInv
  <2>2. QED BY <1>2, <1>4, <1>6, <2>1
<1>7. \A u \in Threads : suspended'[u] \subseteq allowed'[u] \cap requested'[u]
  BY <1>1, <1>4, <1>5 DEF SuspensionInv
<1>8. \A u \in Threads : suspended'[u] # {} => numKernelWaiters'[u] = 0
  BY <1>1, <1>5, <1>6
<1>9. QED BY <1>7, <1>8 DEF SuspensionInv

\* RequestSuspend looks at the count; after Resume nothing is asked for any more.
LEMMA SuspensionRequests ==
    ASSUME \A x, y \in SuspendTypes : x = y,
           LockInv, KernelWaitersCounted, live = Threads, SuspensionInv,
           NEW t \in Threads, NEW type \in SuspendTypes,
           RequestSuspend(t, type) \/ Resume(t, type)
    PROVE  SuspensionInv'
<1>1. /\ UNCHANGED <<allowed, numKernelWaiters, slowOwner, next>> /\ slowOwner = NoThread
      /\ requested' \in [Threads -> SUBSET SuspendTypes]
      /\ \A u \in Threads : u # t => requested'[u] = requested[u]
  BY DEF RequestSuspend, Resume, SchedulerFree, waiterVars, lockVars, ctlVars, LockInv,
         LockTypeOK
<1>2. /\ suspended \in [Threads -> SUBSET SuspendTypes]
      /\ requested \in [Threads -> SUBSET SuspendTypes]
      /\ \A u \in Threads : numKernelWaiters[u] \in Nat
      /\ \A u \in Threads : suspended[u] # {} => numKernelWaiters[u] = 0
  BY <1>1, OwnersHaveWaiters DEF LockInv, LockTypeOK, SuspensionInv
<1>3. CASE RequestSuspend(t, type)
  <2>1. requested'[t] = requested[t] \cup {type}
    BY <1>2, <1>3 DEF RequestSuspend
  <2>2. CASE suspended' = suspended
    BY <1>1, <2>1, <2>2 DEF SuspensionInv
  <2>3. CASE UpdateState(t) /\ ~(numKernelWaiters[t] > 0)
    <3>1. suspended'[t] = allowed'[t] \cap requested'[t] /\ numKernelWaiters'[t] = 0
      BY <1>1, <1>2, <2>3 DEF UpdateState
    <3>2. \A u \in Threads : u # t => suspended'[u] = suspended[u]
      BY <1>2, <2>3 DEF UpdateState
    <3>3. QED BY <1>1, <3>1, <3>2 DEF SuspensionInv
  <2>4. QED BY <1>3, <2>2, <2>3 DEF RequestSuspend, TrySuspend
<1>4. CASE Resume(t, type)
  <2>1. requested'[t] = {}
    <3>1. requested'[t] = requested[t] \ {type}
      BY <1>2, <1>4 DEF Resume
    <3>2. \A x \in requested[t] : x = type
      BY <1>2
    <3>3. QED BY <3>1, <3>2
  <2>2. suspended'[t] = {} /\ \A u \in Threads : u # t => suspended'[u] = suspended[u]
    BY <1>2, <1>4, <2>1 DEF Resume, UpdateState
  <2>3. QED BY <1>1, <2>2 DEF SuspensionInv
<1>5. QED BY <1>3, <1>4

\* Every step but those of RequestTerminate.
LEMMA SuspensionInvNext ==
    ASSUME Terminable = {}, \A x, y \in SuspendTypes : x = y,
           LockInv, KernelWaitersCounted, live = Threads, SuspensionInv, [LockNext]_vars
    PROVE  SuspensionInv'
<1>1. ASSUME \/ \E t \in Threads : RetryLock(t) \/ LockWaitEnds(t)
             \/ \E t \in Threads, k \in KernelKeys : Lock(t, k) \/ Unlock(t, k)
             \/ \E t \in Threads, p \in Priorities : ChangeBasePriority(t, p)
             \/ Restore
             \/ UNCHANGED vars
      PROVE  UNCHANGED <<suspendVars, numKernelWaiters, slowOwner, next>>
  BY <1>1 DEF RetryLock, Lock, CompareExchange, LockWaitEnds, Unlock, ChangeBasePriority,
              SetBasePriority, Restore, RestorePriority, graphVars, waiterVars, ctlVars,
              lockVars, suspendVars, vars
<1>2. ASSUME NEW t \in Threads, RequestTerminate(t) \/ CancelWait(t)
      PROVE  FALSE
  BY <1>2, NoThreadAssumption DEF RequestTerminate, CancelWait, LockInv
<1>3. QED
  BY <1>1, <1>2, SuspensionElsewhere, SuspensionLockSlowPath, SuspensionUnlockSlowPath,
     SuspensionHandover, SuspensionRequests DEF LockNext, LockStep

\* A thread that others wait for in the kernel is never kept from running by a
\* suspension, for every number of threads and locks, where no thread is terminated
\* and one kind of suspension is in use; with a second kind Resume breaks it.
THEOREM SuspensionWaitsForWaiters ==
    ASSUME Terminable = {}, \A x, y \in SuspendTypes : x = y
    PROVE  LockSpec => []SuspendedHasNoKernelWaiters
<1>1. LockInit => CallInv /\ SuspensionInv
  BY NoKeyAssumption, NoThreadAssumption
     DEF LockInit, Init, CallInv, CallsHaveLocks, SuspensionInv
<1>2. CallInv /\ [LockNext]_vars => CallInv'
  BY CallInvNext
<1>3. CallInv /\ LockInv /\ KernelWaitersCounted /\ SuspensionInv /\ [LockNext]_vars
      => SuspensionInv'
  BY SuspensionInvNext DEF CallInv
<1>4. SuspensionInv => SuspendedHasNoKernelWaiters
  BY DEF SuspensionInv, SuspendedHasNoKernelWaiters, SchedulerFree
<1>5. QED
  BY <1>1, <1>2, <1>3, <1>4, LockInvariant, LockWaitersAreCounted, PTL DEF LockSpec

=============================================================================
