------------------------ MODULE KThreadWaiters_proofs ------------------------
(***************************************************************************)
(* Proofs about KThreadWaiters.                                            *)
(***************************************************************************)
EXTENDS KThreadWaiters, OrderLemmas

\* Priorities can be compared.
LEMMA PrioritiesAreNumbers ==
    ASSUME NEW prio \in [Threads -> Priorities]
    PROVE  \A x \in Threads : prio[x] \in Int
BY PrioritiesAssumption

\* What the type invariant says of the waiters.
LEMMA WaitersAre ==
    ASSUME TypeOK, NEW t \in Threads, NEW w
    PROVE  w \in Waiters(t) <=>
             w \in Threads /\ waitingLock[w] # NoKey /\ lockOwner[waitingLock[w]] = t
BY NoThreadAssumption DEF Waiters, GetLockOwner, TypeOK

\* The initial states satisfy the inductive invariant.
LEMMA WaiterInvInit == Init => WaiterInv
<1> SUFFICES ASSUME Init PROVE WaiterInv
  OBVIOUS
<1>1. TypeOK
  BY DEF Init, TypeOK
<1>2. \A k \in Keys : tree[k] = <<>>
  BY DEF Init
<1>3. Len(<<>>) = 0
  OBVIOUS
<1>4. \A x : ~In(x, <<>>)
  BY <1>3 DEF In
<1>5. Distinct(<<>>) /\ Sorted(<<>>, priority)
  BY <1>3 DEF Distinct, Sorted
<1>6. TreeMatchesWaits
  BY <1>2, <1>4, <1>5, NoKeyAssumption DEF Init, TreeMatchesWaits
<1>7. TreeSorted /\ OnlyLiveWait
  BY <1>2, <1>5 DEF Init, TreeSorted, OnlyLiveWait
<1>8. \A t \in Threads : InheritsPriority(t)
  <2> TAKE t \in Threads
  <2>1. Waiters(t) = {}
    BY NoThreadAssumption DEF Init, Waiters, GetLockOwner
  <2>2. priority[t] = basePriority[t] /\ priority[t] \in Int
    BY PrioritiesAssumption DEF Init
  <2>3. QED BY <2>1, <2>2 DEF InheritsPriority
<1>9. QED BY <1>1, <1>6, <1>7, <1>8 DEF WaiterInv, TypeOK

\* A step that leaves the graph, the priorities and live alone.
LEMMA InheritsUnchanged ==
    ASSUME NEW t \in Threads, InheritsPriority(t),
           UNCHANGED <<priority, basePriority>>, Waiters(t)' = Waiters(t)
    PROVE  InheritsPriority(t)'
BY DEF InheritsPriority

\* AddWaiter keeps the graph consistent: only the owner may now be at the wrong
\* priority, and exactly when RestorePriority is started for it.
LEMMA AddWaiterInv ==
    ASSUME WaiterInv, NEW o \in Threads, NEW t \in Threads, NEW k \in Keys,
           AddWaiter(o, t, k)
    PROVE  WaiterInv'
<1> USE DEF WaiterInv
<1>1. PICK s \in TreeInsert(tree[k], t, priority) : tree' = [tree EXCEPT ![k] = s]
  BY DEF AddWaiter
<1>2. /\ tree[k] \in Seq(Threads) /\ priority \in [Threads -> Priorities]
      /\ ~In(t, tree[k]) /\ Distinct(tree[k]) /\ Sorted(tree[k], priority)
  BY NoKeyAssumption DEF AddWaiter, TypeOK, TreeMatchesWaits, TreeSorted
<1>3. /\ s \in Seq(Threads) /\ Len(s) = Len(tree[k]) + 1
      /\ \A x : In(x, s) <=> x = t \/ In(x, tree[k])
      /\ Distinct(s) /\ Sorted(s, priority)
  <2>1. \A x \in Threads : priority[x] \in Int
    BY <1>2, PrioritiesAreNumbers
  <2>2. QED BY <1>1, <1>2, <2>1, TreeInsertKeeps
<1>4. s # <<>>
  BY <1>2, <1>3
<1>5. TypeOK'
  BY <1>1, <1>3 DEF AddWaiter, TypeOK, prioVars, KernelWaiterCount
<1>6. TreeMatchesWaits'
  <2>1. \A k2 \in Keys, t2 \in Threads :
           In(t2, tree'[k2]) <=> waitingLock'[t2] = k2
    BY <1>1, <1>3, NoKeyAssumption DEF AddWaiter, TypeOK, TreeMatchesWaits
  <2>2. \A k2 \in Keys : Distinct(tree'[k2])
    BY <1>1, <1>3 DEF TypeOK, TreeMatchesWaits
  <2>3. \A k2 \in Keys : lockOwner'[k2] = NoThread <=> tree'[k2] = <<>>
    BY <1>1, <1>4, NoThreadAssumption DEF AddWaiter, TypeOK, TreeMatchesWaits
  <2>4. QED BY <2>1, <2>2, <2>3 DEF TreeMatchesWaits
<1>7. TreeSorted'
  BY <1>1, <1>3 DEF AddWaiter, prioVars, TypeOK, TreeSorted
<1>8. OnlyLiveWait'
  BY DEF AddWaiter, prioVars, TypeOK, OnlyLiveWait
<1>9. \A x \in live' \ {restoring'} : InheritsPriority(x)'
  <2> SUFFICES ASSUME NEW x \in live', x # restoring' PROVE InheritsPriority(x)'
    OBVIOUS
  <2>1. x \in Threads /\ InheritsPriority(x)
    BY NoThreadAssumption DEF AddWaiter, prioVars, TypeOK
  <2>2. UNCHANGED <<priority, basePriority>>
    BY DEF AddWaiter, prioVars
  <2>3. \A w : w \in Waiters(x)' <=> w \in Waiters(x) \/ (w = t /\ x = o)
    <3>1. \A w : w \in Waiters(x) <=>
             w \in Threads /\ waitingLock[w] # NoKey /\ lockOwner[waitingLock[w]] = x
      BY <2>1, WaitersAre
    <3>2. \A w : w \in Waiters(x)' <=>
             w \in Threads /\ waitingLock'[w] # NoKey /\ lockOwner'[waitingLock'[w]] = x
      BY <1>5, <2>1, NoThreadAssumption DEF Waiters, GetLockOwner, TypeOK
    <3>3. lockOwner[k] = NoThread => \A w \in Threads : waitingLock[w] # k
      <4>1. \A w : ~In(w, <<>>)
        BY DEF In
      <4>2. QED BY <4>1 DEF TreeMatchesWaits
    <3>4. QED
      BY <2>1, <3>1, <3>2, <3>3, NoKeyAssumption DEF AddWaiter, TypeOK
  <2>4. CASE x # o
    <3>1. Waiters(x)' = Waiters(x)
      BY <2>3, <2>4
    <3>2. QED BY <2>1, <2>2, <3>1, InheritsUnchanged
  <2>5. CASE x = o
    <3> priority[o] \in Int /\ priority[t] \in Int
      BY PrioritiesAssumption DEF TypeOK
    <3> restoring' = IF priority[t] < priority[o] THEN o ELSE NoThread
      BY DEF AddWaiter
    <3>1. priority[o] <= priority[t]
      BY <2>5
    <3>2. QED BY <2>1, <2>2, <2>3, <2>5, <3>1 DEF InheritsPriority
  <2>6. QED BY <2>4, <2>5
<1>10. QED BY <1>5, <1>6, <1>7, <1>8, <1>9

\* RemoveWaiter keeps the graph consistent: when it starts no RestorePriority, the
\* owner's priority does not come from the waiter that left, or is its own.
LEMMA RemoveWaiterInv ==
    ASSUME WaiterInv, NEW t \in Threads, RemoveWaiter(t)
    PROVE  WaiterInv'
<1> USE DEF WaiterInv
<1> DEFINE k == waitingLock[t]
           o == lockOwner[k]
<1>1. k \in Keys /\ k # NoKey /\ restoring = NoThread
  BY DEF RemoveWaiter, MayInheritFrom, TypeOK
<1>2. PICK s \in TreeErase(tree[k], t) :
         /\ tree' = [tree EXCEPT ![k] = s]
         /\ lockOwner' = [lockOwner EXCEPT ![k] = IF s = <<>> THEN NoThread ELSE o]
  BY <1>1 DEF RemoveWaiter, MayInheritFrom, GetLockOwner
<1>3. /\ waitingLock' = [waitingLock EXCEPT ![t] = NoKey]
      /\ restoring' = IF priority[o] = priority[t] /\ priority[o] < basePriority[o]
                      THEN o ELSE NoThread
      /\ numKernelWaiters' =
             [numKernelWaiters EXCEPT ![o] = @ - KernelWaiterCount(k, 1)]
      /\ UNCHANGED prioVars
  BY <1>1 DEF RemoveWaiter, MayInheritFrom, GetLockOwner
<1>4. In(t, tree[k]) /\ tree[k] \in Seq(Threads) /\ Distinct(tree[k])
      /\ Sorted(tree[k], priority)
  BY <1>1 DEF TypeOK, TreeMatchesWaits, TreeSorted
<1>5. /\ s \in Seq(Threads) /\ Len(s) = Len(tree[k]) - 1
      /\ \A x : In(x, s) <=> x # t /\ In(x, tree[k])
      /\ Distinct(s)
      /\ Sorted(s, priority)
  BY <1>2, <1>4, TreeEraseKeeps
<1>6. tree[k] # <<>> /\ o \in Threads /\ o \in live
  <2>1. tree[k] # <<>>
    BY <1>4 DEF In
  <2>2. QED BY <1>1, <2>1 DEF TypeOK, TreeMatchesWaits, OnlyLiveWait
<1> HIDE DEF k, o
<1>7. TypeOK'
  BY <1>1, <1>2, <1>3, <1>5, <1>6 DEF TypeOK, prioVars, KernelWaiterCount
<1>8. TreeMatchesWaits'
  <2>1. \A k2 \in Keys, t2 \in Threads :
           In(t2, tree'[k2]) <=> waitingLock'[t2] = k2
    BY <1>1, <1>2, <1>3, <1>5, NoKeyAssumption DEF TypeOK, TreeMatchesWaits, k
  <2>2. \A k2 \in Keys : Distinct(tree'[k2])
    BY <1>2, <1>5 DEF TypeOK, TreeMatchesWaits
  <2>3. \A k2 \in Keys : lockOwner'[k2] = NoThread <=> tree'[k2] = <<>>
    BY <1>1, <1>2, <1>6, NoThreadAssumption DEF TypeOK, TreeMatchesWaits
  <2>4. QED BY <2>1, <2>2, <2>3 DEF TreeMatchesWaits
<1>9. TreeSorted'
  BY <1>2, <1>3, <1>5 DEF prioVars, TypeOK, TreeSorted
<1>10. OnlyLiveWait'
  BY <1>2, <1>3, <1>6 DEF prioVars, TypeOK, OnlyLiveWait
<1>11. \A x \in live' \ {restoring'} : InheritsPriority(x)'
  <2> SUFFICES ASSUME NEW x \in live', x # restoring' PROVE InheritsPriority(x)'
    OBVIOUS
  <2>1. x \in Threads /\ InheritsPriority(x)
    BY <1>1, <1>3, NoThreadAssumption DEF prioVars, TypeOK
  <2>2. UNCHANGED <<priority, basePriority>>
    BY <1>3 DEF prioVars
  <2>3. \A w : w \in Waiters(x)' <=> w \in Waiters(x) /\ w # t
    <3>1. \A w : w \in Waiters(x) <=>
             w \in Threads /\ waitingLock[w] # NoKey /\ lockOwner[waitingLock[w]] = x
      BY <2>1, WaitersAre
    <3>2. \A w : w \in Waiters(x)' <=>
             w \in Threads /\ waitingLock'[w] # NoKey /\ lockOwner'[waitingLock'[w]] = x
      BY <1>7, <2>1, NoThreadAssumption DEF Waiters, GetLockOwner, TypeOK
    <3>3. s = <<>> => \A w \in Threads : w # t => waitingLock[w] # k
      <4>1. \A w : ~In(w, <<>>)
        BY DEF In
      <4>2. QED BY <1>1, <1>5, <4>1 DEF TreeMatchesWaits
    <3>4. lockOwner'[k] = IF s = <<>> THEN NoThread ELSE lockOwner[k]
      BY <1>1, <1>2 DEF TypeOK, o
    <3>5. \A w \in Threads : waitingLock[w] # NoKey => waitingLock[w] \in Keys
      BY DEF TypeOK
    <3>6. QED
      BY <1>1, <1>2, <1>3, <2>1, <3>1, <3>2, <3>3, <3>4, <3>5, NoKeyAssumption
      DEF TypeOK
  <2>4. t \in Waiters(o)
    BY <1>1, <1>6, WaitersAre DEF k, o
  <2>5. x # o => t \notin Waiters(x)
    BY <1>1, <2>1, WaitersAre DEF k, o
  <2>6. CASE x # o
    BY <2>1, <2>2, <2>3, <2>5, <2>6, InheritsUnchanged
  <2>7. CASE x = o
    <3>1. priority[o] # priority[t] \/ ~(priority[o] < basePriority[o])
      BY <1>3, <2>7
    <3>2. priority[o] \in Int /\ basePriority[o] \in Int
      BY <1>6, PrioritiesAssumption DEF TypeOK
    <3>3. priority[o] = basePriority[o] \/ \E w \in Waiters(o) : w # t /\ priority[w] = priority[o]
      BY <2>1, <2>7, <3>1, <3>2 DEF InheritsPriority
    <3>4. QED BY <2>1, <2>2, <2>3, <2>7, <3>3 DEF InheritsPriority
  <2>8. QED BY <2>6, <2>7
<1>12. QED BY <1>7, <1>8, <1>9, <1>10, <1>11

\* RemoveWaiterByKey keeps the graph consistent: the next owner inherits nothing it
\* does not have already, being the most urgent waiter, and the old owner is
\* restored whenever it may have inherited from it.
LEMMA RemoveWaiterByKeyInv ==
    ASSUME WaiterInv, NEW o \in Threads, NEW k \in Keys, RemoveWaiterByKey(o, k)
    PROVE  WaiterInv'
<1> USE DEF WaiterInv
<1> DEFINE n == tree[k][1]
           s == Tail(tree[k])
<1>1. /\ restoring = NoThread /\ lockOwner[k] = o /\ waitingLock[o] = NoKey
      /\ tree' = [tree EXCEPT ![k] = s]
      /\ waitingLock' = [waitingLock EXCEPT ![n] = NoKey]
      /\ lockOwner' = [lockOwner EXCEPT ![k] = IF s = <<>> THEN NoThread ELSE n]
      /\ restoring' = IF priority[o] = priority[n] /\ priority[o] < basePriority[o]
                      THEN o ELSE NoThread
      /\ UNCHANGED prioVars
  BY DEF RemoveWaiterByKey, MayInheritFrom, GetHighestPriorityWaiter
<1>2. tree[k] \in Seq(Threads) /\ tree[k] # <<>> /\ Distinct(tree[k])
      /\ Sorted(tree[k], priority)
  BY <1>1, NoThreadAssumption DEF TypeOK, TreeMatchesWaits, TreeSorted
<1>3. /\ s \in Seq(Threads) /\ Len(s) = Len(tree[k]) - 1
      /\ n \in Threads /\ In(n, tree[k])
      /\ \A x : In(x, s) <=> x # n /\ In(x, tree[k])
      /\ Distinct(s) /\ Sorted(s, priority)
  BY <1>2, TreeTail
<1>4. \A x : In(x, tree[k]) => priority[n] <= priority[x]
  <2>1. \A x \in Threads : priority[x] \in Int
    BY PrioritiesAreNumbers DEF TypeOK
  <2>2. QED BY <1>2, <2>1, FrontIsLeast
<1>5. waitingLock[n] = k /\ n # o /\ n \in live /\ k # NoKey
  BY <1>1, <1>3, NoKeyAssumption DEF TreeMatchesWaits, OnlyLiveWait
<1>6. numKernelWaiters' \in [Threads -> Int]
  <2>1. Len(tree[k]) \in Nat /\ Len(s) \in Nat
    BY <1>2, <1>3
  <2>2. \A m \in Nat : KernelWaiterCount(k, m) \in Int
    BY DEF KernelWaiterCount
  <2>3. KernelWaiterCount(k, Len(tree[k])) \in Int /\ KernelWaiterCount(k, Len(s)) \in Int
    BY <2>1, <2>2
  <2>4. numKernelWaiters' =
           [numKernelWaiters EXCEPT ![o] = @ - KernelWaiterCount(k, Len(tree[k])),
                                    ![n] = @ + KernelWaiterCount(k, Len(s))]
    BY DEF RemoveWaiterByKey, MayInheritFrom, GetHighestPriorityWaiter
  <2> HIDE DEF n, s
  <2>5. QED
    BY <1>3, <2>3, <2>4 DEF TypeOK
<1> HIDE DEF n, s
<1>7. TypeOK'
  BY <1>1, <1>3, <1>6 DEF TypeOK, prioVars
<1>8. TreeMatchesWaits'
  <2>1. \A k2 \in Keys, t2 \in Threads :
           In(t2, tree'[k2]) <=> waitingLock'[t2] = k2
    BY <1>1, <1>3, <1>5, NoKeyAssumption DEF TypeOK, TreeMatchesWaits
  <2>2. \A k2 \in Keys : Distinct(tree'[k2])
    BY <1>1, <1>3 DEF TypeOK, TreeMatchesWaits
  <2>3. \A k2 \in Keys : lockOwner'[k2] = NoThread <=> tree'[k2] = <<>>
    BY <1>1, <1>3, NoThreadAssumption DEF TypeOK, TreeMatchesWaits
  <2>4. QED BY <2>1, <2>2, <2>3 DEF TreeMatchesWaits
<1>9. TreeSorted'
  BY <1>1, <1>3 DEF prioVars, TypeOK, TreeSorted
<1>10. OnlyLiveWait'
  BY <1>1, <1>5 DEF prioVars, TypeOK, OnlyLiveWait
<1>11. \A x \in live' \ {restoring'} : InheritsPriority(x)'
  <2> SUFFICES ASSUME NEW x \in live', x # restoring' PROVE InheritsPriority(x)'
    OBVIOUS
  <2>1. x \in Threads /\ InheritsPriority(x)
    BY <1>1, NoThreadAssumption DEF prioVars, TypeOK
  <2>2. UNCHANGED <<priority, basePriority>>
    BY <1>1 DEF prioVars
  <2>3. \A w : w \in Waiters(x) <=>
           w \in Threads /\ waitingLock[w] # NoKey /\ lockOwner[waitingLock[w]] = x
    BY <2>1, WaitersAre
  <2>4. \A w : w \in Waiters(x)' <=>
           w \in Threads /\ waitingLock'[w] # NoKey /\ lockOwner'[waitingLock'[w]] = x
    BY <1>7, <2>1, NoThreadAssumption DEF Waiters, GetLockOwner, TypeOK
  <2>5. s = <<>> => \A w \in Threads : w # n => waitingLock[w] # k
    <3>1. \A w : ~In(w, <<>>)
      BY DEF In
    <3>2. QED BY <1>3, <3>1 DEF TreeMatchesWaits
  <2>6. lockOwner'[k] = IF s = <<>> THEN NoThread ELSE n
    BY <1>1 DEF TypeOK
  <2>7. \A w \in Threads : waitingLock[w] # NoKey => waitingLock[w] \in Keys
    BY DEF TypeOK
  <2>8. \A w \in Threads : w # n => waitingLock'[w] = waitingLock[w]
    BY <1>1 DEF TypeOK
  <2>9. waitingLock'[n] = NoKey
    BY <1>1, <1>3 DEF TypeOK
  <2>10. \A k2 \in Keys : k2 # k => lockOwner'[k2] = lockOwner[k2]
    BY <1>1 DEF TypeOK
  <2>11. CASE x # o /\ x # n
    <3>1. Waiters(x)' = Waiters(x)
      <4>1. ASSUME NEW w \in Threads PROVE w \in Waiters(x)' <=> w \in Waiters(x)
        <5>1. CASE w = n
          BY <1>1, <1>5, <2>3, <2>4, <2>9, <2>11, <5>1
        <5>2. CASE w # n /\ waitingLock[w] = k
          BY <1>1, <2>1, <2>3, <2>4, <2>6, <2>8, <2>11, <5>2, NoThreadAssumption
        <5>3. CASE w # n /\ waitingLock[w] # k
          BY <2>3, <2>4, <2>7, <2>8, <2>10, <5>3
        <5>4. QED BY <5>1, <5>2, <5>3
      <4>2. QED BY <2>3, <2>4, <4>1
    <3>2. QED BY <2>1, <2>2, <3>1, InheritsUnchanged
  <2>12. CASE x = n
    <3>1. \A w : w \in Waiters(x)' => w \in Waiters(x) \/ In(w, tree[k])
      <4> SUFFICES ASSUME NEW w \in Waiters(x)' PROVE w \in Waiters(x) \/ In(w, tree[k])
        OBVIOUS
      <4>1. w \in Threads /\ waitingLock'[w] # NoKey /\ lockOwner'[waitingLock'[w]] = n
        BY <2>4, <2>12
      <4>2. w # n /\ waitingLock[w] = waitingLock'[w]
        BY <2>8, <2>9, <4>1
      <4>3. CASE waitingLock[w] = k
        BY <4>1, <4>3 DEF TreeMatchesWaits
      <4>4. CASE waitingLock[w] # k
        BY <2>3, <2>7, <2>10, <2>12, <4>1, <4>2, <4>4
      <4>5. QED BY <4>3, <4>4
    <3>2. Waiters(x) \subseteq Waiters(x)'
      <4> SUFFICES ASSUME NEW w \in Waiters(x) PROVE w \in Waiters(x)'
        OBVIOUS
      <4>1. w \in Threads /\ waitingLock[w] # NoKey /\ lockOwner[waitingLock[w]] = n
        BY <2>3, <2>12
      <4>2. waitingLock[w] # k /\ w # n
        BY <1>1, <1>5, <4>1
      <4>3. QED BY <2>4, <2>7, <2>8, <2>10, <2>12, <4>1, <4>2
    <3>3. /\ priority[n] <= basePriority[n]
          /\ \A w \in Waiters(x) : priority[n] <= priority[w]
          /\ priority[n] = basePriority[n] \/ \E w \in Waiters(x) : priority[w] = priority[n]
      BY <2>1, <2>12 DEF InheritsPriority
    <3>4. \A w \in Waiters(x)' : priority[n] <= priority[w]
      BY <1>4, <3>1, <3>3
    <3>5. QED BY <2>2, <2>12, <3>2, <3>3, <3>4 DEF InheritsPriority
  <2>13. CASE x = o
    <3>1. \A w : w \in Waiters(x)' <=> w \in Waiters(x) /\ ~In(w, tree[k])
      BY <1>1, <1>5, <2>1, <2>3, <2>4, <2>5, <2>6, <2>7, <2>8, <2>9, <2>10, <2>13,
         NoThreadAssumption DEF TreeMatchesWaits
    <3>2. n \in Waiters(x)
      BY <1>1, <1>3, <1>5, <2>3, <2>13
    <3>3. /\ priority[o] \in Int /\ basePriority[o] \in Int
          /\ \A w \in Threads : priority[w] \in Int
      BY PrioritiesAssumption DEF TypeOK
    <3>4. priority[o] # priority[n] \/ priority[o] = basePriority[o]
      BY <1>1, <2>1, <2>13, <3>3 DEF InheritsPriority
    <3>5. priority[o] # priority[n] => \A w \in Waiters(x) :
              In(w, tree[k]) => priority[w] # priority[o]
      BY <1>3, <1>4, <2>1, <2>3, <2>13, <3>2, <3>3 DEF InheritsPriority
    <3>6. QED BY <2>1, <2>2, <2>13, <3>1, <3>4, <3>5 DEF InheritsPriority
  <2>14. QED BY <2>11, <2>12, <2>13
<1>12. QED BY <1>7, <1>8, <1>9, <1>10, <1>11

\* SetBasePriority leaves at most the thread it restores at the wrong priority.
LEMMA SetBasePriorityInv ==
    ASSUME WaiterInv, NEW t \in Threads, NEW p \in Priorities, SetBasePriority(t, p)
    PROVE  WaiterInv'
<1> USE DEF WaiterInv, SetBasePriority, graphVars
<1>1. TypeOK'
  BY DEF TypeOK
<1>2. TreeMatchesWaits' /\ TreeSorted' /\ OnlyLiveWait'
  BY DEF TreeMatchesWaits, TreeSorted, OnlyLiveWait
<1>3. ASSUME NEW x \in live' \ {restoring'} PROVE InheritsPriority(x)'
  <2>1. InheritsPriority(x) /\ x \in Threads
    BY <1>3, NoThreadAssumption DEF TypeOK
  <2>2. basePriority'[x] = basePriority[x] /\ priority' = priority
    BY <1>3 DEF TypeOK
  <2>3. Waiters(x)' = Waiters(x)
    BY DEF Waiters, GetLockOwner
  <2>4. QED BY <2>1, <2>2, <2>3 DEF InheritsPriority
<1>4. QED BY <1>1, <1>2, <1>3

\* A thread object that Initialize brings to life has no waiters and runs at its
\* base priority.
LEMMA InitializeInv ==
    ASSUME WaiterInv, NEW t \in Threads, NEW p \in Priorities, Initialize(t, p)
    PROVE  WaiterInv'
<1> USE DEF WaiterInv
<1>0. /\ t \notin live /\ live' = live \cup {t} /\ restoring' = restoring
      /\ restoring = NoThread
      /\ basePriority' = [basePriority EXCEPT ![t] = p]
      /\ priority' = [priority EXCEPT ![t] = p]
      /\ UNCHANGED <<waitingLock, lockOwner, tree>>
  BY DEF Initialize
<1>1. TypeOK'
  BY DEF Initialize, TypeOK
<1>2. TreeMatchesWaits' /\ OnlyLiveWait'
  BY <1>0 DEF TreeMatchesWaits, OnlyLiveWait
<1>3. waitingLock[t] = NoKey
  BY <1>0 DEF OnlyLiveWait
<1>4. TreeSorted'
  <2> SUFFICES ASSUME NEW k \in Keys PROVE Sorted(tree[k], priority')
    BY <1>0 DEF TreeSorted
  <2>1. \A x \in Threads : In(x, tree[k]) => priority'[x] = priority[x]
    BY <1>0, <1>3, NoKeyAssumption DEF TypeOK, TreeMatchesWaits
  <2>2. tree[k] \in Seq(Threads) /\ Sorted(tree[k], priority)
    BY DEF TypeOK, TreeSorted
  <2>3. \A x : In(x, tree[k]) => x \in Threads
    BY <2>2 DEF In
  <2>4. QED BY <2>1, <2>2, <2>3, SortedCongruence
<1>5. ASSUME NEW x \in live' \ {restoring'} PROVE InheritsPriority(x)'
  <2>1. x \in Threads
    BY <1>0, <1>5 DEF TypeOK
  <2>2. Waiters(x)' = Waiters(x)
    BY <1>0 DEF Waiters, GetLockOwner
  <2>3. \A w \in Waiters(x) : w \in Threads /\ priority'[w] = priority[w]
    BY <1>0, <1>3, <2>1, WaitersAre DEF TypeOK
  <2>4. CASE x = t
    <3>1. Waiters(t) = {}
      BY <1>0, <2>1, NoThreadAssumption, WaitersAre DEF OnlyLiveWait, TypeOK
    <3>2. priority'[t] = p /\ basePriority'[t] = p /\ p \in Int
      BY <1>0, PrioritiesAssumption DEF TypeOK
    <3>3. QED BY <2>2, <2>4, <3>1, <3>2 DEF InheritsPriority
  <2>5. CASE x # t
    <3>1. InheritsPriority(x) /\ priority'[x] = priority[x] /\ basePriority'[x] = basePriority[x]
      BY <1>0, <1>5, <2>1, <2>5 DEF TypeOK
    <3>2. QED BY <2>2, <2>3, <3>1 DEF InheritsPriority
  <2>6. QED BY <2>4, <2>5
<1>6. QED BY <1>1, <1>2, <1>4, <1>5

\* Finalize releases the waiters of the dying thread and disturbs no other owner.
LEMMA FinalizeInv ==
    ASSUME WaiterInv, NEW t \in Threads, Finalize(t)
    PROVE  WaiterInv'
<1> USE DEF WaiterInv
<1>0. /\ t \in live /\ waitingLock[t] = NoKey /\ live' = live \ {t}
      /\ restoring = NoThread /\ restoring' = NoThread
      /\ waitingLock' = [w \in Threads |-> IF GetLockOwner(w) = t THEN NoKey
                                                                  ELSE waitingLock[w]]
      /\ tree' = [k \in Keys |-> IF lockOwner[k] = t THEN <<>> ELSE tree[k]]
      /\ lockOwner' = [k \in Keys |-> IF lockOwner[k] = t THEN NoThread ELSE lockOwner[k]]
      /\ UNCHANGED <<basePriority, priority, numKernelWaiters>>
  BY DEF Finalize
<1>1. \A w \in Threads : GetLockOwner(w) = t <=>
         waitingLock[w] # NoKey /\ lockOwner[waitingLock[w]] = t
  BY NoThreadAssumption DEF GetLockOwner
<1>2. \A x : ~In(x, <<>>)
  BY DEF In
<1>3. Distinct(<<>>) /\ Sorted(<<>>, priority) /\ <<>> \in Seq(Threads)
  BY DEF Distinct, Sorted
<1>4. TypeOK'
  BY <1>0, <1>3 DEF TypeOK
<1>5. TreeMatchesWaits'
  <2>1. ASSUME NEW k2 \in Keys, NEW t2 \in Threads
        PROVE  In(t2, tree'[k2]) <=> waitingLock'[t2] = k2
    BY <1>0, <1>1, <1>2, NoKeyAssumption DEF TreeMatchesWaits
  <2>2. \A k2 \in Keys : Distinct(tree'[k2])
    BY <1>0, <1>3 DEF TreeMatchesWaits
  <2>3. \A k2 \in Keys : lockOwner'[k2] = NoThread <=> tree'[k2] = <<>>
    BY <1>0 DEF TreeMatchesWaits
  <2>4. QED BY <2>1, <2>2, <2>3 DEF TreeMatchesWaits
<1>6. TreeSorted'
  BY <1>0, <1>3 DEF TreeSorted
<1>7. OnlyLiveWait'
  BY <1>0 DEF OnlyLiveWait
<1>8. ASSUME NEW x \in live' \ {restoring'} PROVE InheritsPriority(x)'
  <2>1. x \in Threads /\ x # t /\ InheritsPriority(x)
    BY <1>0, <1>8 DEF TypeOK
  <2>2. \A w : w \in Waiters(x) <=>
           w \in Threads /\ waitingLock[w] # NoKey /\ lockOwner[waitingLock[w]] = x
    BY <2>1, WaitersAre
  <2>3. \A w : w \in Waiters(x)' <=>
           w \in Threads /\ waitingLock'[w] # NoKey /\ lockOwner'[waitingLock'[w]] = x
    BY <1>4, <2>1, NoThreadAssumption DEF Waiters, GetLockOwner, TypeOK
  <2>4. Waiters(x)' = Waiters(x)
    <3>1. ASSUME NEW w \in Threads
          PROVE  w \in Waiters(x)' <=> w \in Waiters(x)
      <4>1. waitingLock[w] # NoKey => waitingLock[w] \in Keys
        BY DEF TypeOK
      <4>2. CASE GetLockOwner(w) = t
        <5>1. waitingLock'[w] = NoKey
          BY <1>0, <4>2
        <5>2. QED BY <1>1, <2>1, <2>2, <2>3, <4>2, <5>1
      <4>3. CASE GetLockOwner(w) # t
        <5>1. waitingLock'[w] = waitingLock[w]
          BY <1>0, <4>3
        <5>2. waitingLock[w] # NoKey =>
                 lockOwner'[waitingLock[w]] = lockOwner[waitingLock[w]]
          BY <1>0, <1>1, <4>1, <4>3
        <5>3. QED BY <2>2, <2>3, <5>1, <5>2
      <4>4. QED BY <4>2, <4>3
    <3>2. QED BY <2>2, <2>3, <3>1
  <2>5. QED BY <1>0, <2>1, <2>4, InheritsUnchanged
<1>9. QED BY <1>4, <1>5, <1>6, <1>7, <1>8

\* The least inheritable priority is the one InheritsPriority asks for: looking
\* at the first waiter of each lock is enough because the trees are sorted.
LEMMA LeastInheritable ==
    ASSUME TypeOK, TreeMatchesWaits, TreeSorted, NEW t \in Threads,
           NEW p \in Inheritable(t), \A q \in Inheritable(t) : p <= q
    PROVE  /\ p \in Priorities
           /\ p <= basePriority[t]
           /\ \A w \in Waiters(t) : p <= priority[w]
           /\ p = basePriority[t] \/ \E w \in Waiters(t) : priority[w] = p
<1>1. \A k \in Keys : lockOwner[k] = t =>
         /\ tree[k] \in Seq(Threads) /\ tree[k] # <<>> /\ Distinct(tree[k])
         /\ tree[k][1] \in Threads /\ In(tree[k][1], tree[k])
  BY NoThreadAssumption, TreeTail DEF TypeOK, TreeMatchesWaits
<1>2. \A k \in Keys : lockOwner[k] = t => tree[k][1] \in Waiters(t)
  BY <1>1, WaitersAre, NoKeyAssumption DEF TreeMatchesWaits
<1>3. p = basePriority[t] \/ \E w \in Waiters(t) : priority[w] = p
  BY <1>2 DEF Inheritable, GetHighestPriorityWaiter
<1>4. p \in Priorities
  BY <1>3, WaitersAre DEF TypeOK
<1>5. p <= basePriority[t]
  BY DEF Inheritable
<1>6. ASSUME NEW w \in Waiters(t) PROVE p <= priority[w]
  <2>1. PICK k \in Keys : waitingLock[w] = k /\ lockOwner[k] = t
    BY <1>6, WaitersAre DEF TypeOK
  <2>2. w \in Threads /\ In(w, tree[k])
    BY <1>6, <2>1, WaitersAre DEF TreeMatchesWaits
  <2>3. priority[tree[k][1]] <= priority[w]
    <3>1. \A x \in Threads : priority[x] \in Int
      BY <1>1, PrioritiesAreNumbers DEF TypeOK
    <3>2. tree[k] \in Seq(Threads) /\ Sorted(tree[k], priority)
      BY <1>1, <2>1 DEF TypeOK, TreeSorted
    <3>3. QED BY <2>2, <3>1, <3>2, FrontIsLeast
  <2>4. p <= priority[tree[k][1]]
    BY <2>1 DEF Inheritable, GetHighestPriorityWaiter
  <2>5. p \in Int /\ priority[tree[k][1]] \in Int /\ priority[w] \in Int
    BY <1>1, <1>4, <2>1, <2>2, PrioritiesAssumption DEF TypeOK
  <2>6. QED BY <2>3, <2>4, <2>5
<1>7. QED BY <1>3, <1>4, <1>5, <1>6

\* One iteration of RestorePriority repairs its thread and leaves at most the owner
\* of the lock this thread waits for to be repaired next.
LEMMA RestorePriorityInv ==
    ASSUME WaiterInv, RestorePriority
    PROVE  WaiterInv'
<1> USE DEF WaiterInv
<1>1. PICK t \in Threads : t = restoring
  BY DEF RestorePriority, TypeOK
<1>2. PICK p \in Inheritable(t) :
         /\ \A q \in Inheritable(t) : p <= q
         /\ \/ /\ p = priority[t]
               /\ restoring' = NoThread
               /\ UNCHANGED <<priority, tree>>
            \/ /\ p # priority[t]
               /\ restoring' = GetLockOwner(t)
               /\ priority' = [priority EXCEPT ![t] = p]
               /\ \/ waitingLock[t] = NoKey /\ UNCHANGED tree
                  \/ /\ waitingLock[t] # NoKey
                     /\ \E s1 \in TreeErase(tree[waitingLock[t]], t) :
                        \E s2 \in TreeInsert(s1, t, priority') :
                           tree' = [tree EXCEPT ![waitingLock[t]] = s2]
  BY <1>1 DEF RestorePriority
<1>3. UNCHANGED <<live, basePriority, waitingLock, lockOwner, numKernelWaiters>>
  BY DEF RestorePriority
<1>4. /\ p \in Priorities
      /\ p <= basePriority[t]
      /\ \A w \in Waiters(t) : p <= priority[w]
      /\ p = basePriority[t] \/ \E w \in Waiters(t) : priority[w] = p
  BY <1>2, LeastInheritable
<1>5. \A x : Waiters(x)' = Waiters(x)
  BY <1>3 DEF Waiters, GetLockOwner
<1>6. OnlyLiveWait'
  BY <1>3 DEF OnlyLiveWait
<1>7. CASE p = priority[t]
  <2>1. restoring' = NoThread /\ UNCHANGED <<priority, tree>>
    BY <1>2, <1>7
  <2>2. TypeOK' /\ TreeMatchesWaits' /\ TreeSorted'
    BY <1>3, <2>1 DEF TypeOK, TreeMatchesWaits, TreeSorted
  <2>3. ASSUME NEW x \in live' \ {restoring'} PROVE InheritsPriority(x)'
    <3>1. x \in Threads /\ InheritsPriority(x)
      BY <1>1, <1>3, <1>4, <1>7, <2>3 DEF TypeOK, InheritsPriority
    <3>2. QED BY <1>3, <1>5, <2>1, <3>1, InheritsUnchanged
  <2>4. QED BY <1>6, <2>2, <2>3
<1>8. CASE p # priority[t]
  <2>1. restoring' = GetLockOwner(t) /\ priority' = [priority EXCEPT ![t] = p]
    BY <1>2, <1>8
  <2>2. priority' \in [Threads -> Priorities] /\ GetLockOwner(t) \in Threads \cup {NoThread}
    BY <1>4, <2>1, NoKeyAssumption DEF TypeOK, GetLockOwner
  <2>3. \A x \in Threads : x # t => priority'[x] = priority[x]
    BY <2>1 DEF TypeOK
  <2>4. ASSUME NEW k \in Keys, k # waitingLock[t] PROVE Sorted(tree[k], priority')
    <3>1. tree[k] \in Seq(Threads) /\ Sorted(tree[k], priority)
      BY DEF TypeOK, TreeSorted
    <3>2. \A x : In(x, tree[k]) => x \in Threads /\ x # t
      BY <2>4, <3>1 DEF In, TreeMatchesWaits
    <3>3. QED BY <2>3, <3>1, <3>2, SortedCongruence
  <2>5. TypeOK' /\ TreeMatchesWaits' /\ TreeSorted'
    <3>1. CASE waitingLock[t] = NoKey
      <4>1. UNCHANGED tree
        BY <1>2, <1>8, <3>1
      <4>2. TypeOK'
        BY <1>3, <2>1, <2>2, <4>1 DEF TypeOK
      <4>3. TreeMatchesWaits'
        BY <1>3, <4>1 DEF TreeMatchesWaits
      <4>4. TreeSorted'
        BY <2>4, <3>1, <4>1, NoKeyAssumption DEF TreeSorted
      <4>5. QED BY <4>2, <4>3, <4>4
    <3>2. CASE waitingLock[t] # NoKey
      <4>1. PICK k \in Keys : k = waitingLock[t]
        BY <3>2 DEF TypeOK
      <4>a. PICK s1 \in TreeErase(tree[k], t) :
               \E s2 \in TreeInsert(s1, t, priority') : tree' = [tree EXCEPT ![k] = s2]
        BY <1>2, <1>8, <3>2, <4>1
      <4>2. PICK s2 \in TreeInsert(s1, t, priority') : tree' = [tree EXCEPT ![k] = s2]
        BY <4>a
      <4>3. tree[k] \in Seq(Threads) /\ Distinct(tree[k]) /\ Sorted(tree[k], priority)
            /\ In(t, tree[k])
        BY <4>1 DEF TypeOK, TreeMatchesWaits, TreeSorted
      <4>4. /\ s1 \in Seq(Threads) /\ Len(s1) = Len(tree[k]) - 1
            /\ \A x : In(x, s1) <=> x # t /\ In(x, tree[k])
            /\ Distinct(s1) /\ Sorted(s1, priority)
        BY <4>a, <4>3, TreeEraseKeeps
      <4>5. Sorted(s1, priority')
        <5>1. \A x : In(x, s1) => x \in Threads
          BY <4>4 DEF In
        <5>2. QED BY <2>3, <4>4, <5>1, SortedCongruence
      <4>6. /\ s2 \in Seq(Threads) /\ Len(s2) = Len(s1) + 1
            /\ \A x : In(x, s2) <=> x = t \/ In(x, s1)
            /\ Distinct(s2) /\ Sorted(s2, priority')
        <5>1. \A x \in Threads : priority'[x] \in Int
          BY <2>2, PrioritiesAreNumbers
        <5>2. QED BY <2>2, <4>2, <4>4, <4>5, <5>1, TreeInsertKeeps
      <4>7. s2 # <<>> /\ \A x : In(x, s2) <=> In(x, tree[k])
        BY <4>3, <4>4, <4>6
      <4>8. tree[k] # <<>>
        BY <4>3 DEF In
      <4>9. TypeOK'
        BY <1>3, <2>1, <2>2, <4>2, <4>6 DEF TypeOK
      <4>10. TreeMatchesWaits'
        BY <1>3, <4>2, <4>6, <4>7, <4>8 DEF TypeOK, TreeMatchesWaits
      <4>11. TreeSorted'
        BY <2>4, <4>1, <4>2, <4>6 DEF TypeOK, TreeSorted
      <4>12. QED BY <4>9, <4>10, <4>11
    <3>3. QED BY <3>1, <3>2
  <2>6. ASSUME NEW x \in live' \ {restoring'} PROVE InheritsPriority(x)'
    <3>1. x \in Threads /\ basePriority' = basePriority /\ Waiters(x)' = Waiters(x)
      BY <1>3, <1>5 DEF TypeOK
    <3>2. t \notin Waiters(x)
      BY <2>1, <2>6 DEF Waiters
    <3>3. \A w \in Waiters(x) : priority'[w] = priority[w]
      BY <2>3, <3>2 DEF Waiters
    <3>4. CASE x = t
      <4>1. priority'[t] = p
        BY <2>1 DEF TypeOK
      <4>2. QED BY <1>4, <3>1, <3>3, <3>4, <4>1 DEF InheritsPriority
    <3>5. CASE x # t
      <4>1. InheritsPriority(x) /\ priority'[x] = priority[x]
        BY <1>1, <1>3, <2>3, <3>1, <3>5, <2>6
      <4>2. QED BY <3>1, <3>3, <4>1 DEF InheritsPriority
    <3>6. QED BY <3>4, <3>5
  <2>7. QED BY <1>6, <2>5, <2>6
<1>9. QED BY <1>7, <1>8

\* Every step of the waiter graph preserves the inductive invariant.
LEMMA WaiterInvNext == WaiterInv /\ [Next]_waiterVars => WaiterInv'
<1> SUFFICES ASSUME WaiterInv, [Next]_waiterVars PROVE WaiterInv'
  OBVIOUS
<1>1. ASSUME NEW o \in Threads, NEW t \in Threads, NEW k \in Keys, AddWaiter(o, t, k)
      PROVE  WaiterInv'
  BY <1>1, AddWaiterInv
<1>2. ASSUME NEW t \in Threads, RemoveWaiter(t) PROVE WaiterInv'
  BY <1>2, RemoveWaiterInv
<1>3. ASSUME NEW o \in Threads, NEW k \in Keys, RemoveWaiterByKey(o, k) PROVE WaiterInv'
  BY <1>3, RemoveWaiterByKeyInv
<1>4. ASSUME NEW t \in Threads, NEW p \in Priorities,
             SetBasePriority(t, p) \/ IncreaseBasePriority(t, p)
      PROVE  WaiterInv'
  BY <1>4, SetBasePriorityInv DEF IncreaseBasePriority
<1>5. ASSUME RestorePriority PROVE WaiterInv'
  BY <1>5, RestorePriorityInv
<1>6. ASSUME NEW t \in Threads, Finalize(t) PROVE WaiterInv'
  BY <1>6, FinalizeInv
<1>7. ASSUME NEW t \in Threads, NEW p \in Priorities, Initialize(t, p) PROVE WaiterInv'
  BY <1>7, InitializeInv
<1>8. ASSUME UNCHANGED waiterVars PROVE WaiterInv'
  BY <1>8 DEF waiterVars, WaiterInv, TypeOK, TreeMatchesWaits, TreeSorted,
     OnlyLiveWait, InheritsPriority, Waiters, GetLockOwner
<1>9. QED
  BY <1>1, <1>2, <1>3, <1>4, <1>5, <1>6, <1>7, <1>8 DEF Next

\* KThread's lock information stays consistent: the inductive invariant holds
\* throughout, for any number of threads, locks and priorities.
THEOREM WaiterInvariant == Spec => []WaiterInv
<1>1. QED
  BY WaiterInvInit, WaiterInvNext, PTL DEF Spec

\* Priority inheritance for every number of threads, locks and priorities: with
\* the scheduler lock free, each thread runs at the most urgent of its base
\* priority and its waiters' priorities.
THEOREM PriorityIsInherited == Spec => []PriorityInheritance
<1>1. WaiterInv => PriorityInheritance
  BY NoThreadAssumption DEF WaiterInv, PriorityInheritance, TypeOK
<1>2. QED
  BY <1>1, WaiterInvariant, PTL

-----------------------------------------------------------------------------
(* The counts of kernel waiters *)

\* The threads that m_num_kernel_waiters of t counts, where wait tells what threads
\* wait for, and owner who the locks' owners are.
KernelWaiters(wait, owner, t) ==
    { w \in Threads : wait[w] \in KernelKeys /\ owner[wait[w]] = t }

\* They can be counted.
LEMMA KernelWaitersAreFinite ==
    ASSUME NEW wait, NEW owner, NEW t
    PROVE  /\ IsFiniteSet(KernelWaiters(wait, owner, t))
           /\ Cardinality(KernelWaiters(wait, owner, t)) \in Nat
BY ThreadsAssumption, FS_Subset, FS_CardinalityType DEF KernelWaiters

\* The property, lock by lock, before and after a step.
LEMMA WaitersCounted ==
    ASSUME TypeOK, TypeOK'
    PROVE  /\ KernelWaitersCounted <=> \A t \in live :
                numKernelWaiters[t] = Cardinality(KernelWaiters(waitingLock, lockOwner, t))
           /\ KernelWaitersCounted' <=> \A t \in live' :
                numKernelWaiters'[t] = Cardinality(KernelWaiters(waitingLock', lockOwner', t))
<1>1. NoKey \notin KernelKeys
  BY NoKeyAssumption DEF Keys
<1>2. \A t \in live : { w \in Waiters(t) : waitingLock[w] \in KernelKeys } =
                      KernelWaiters(waitingLock, lockOwner, t)
  BY <1>1, NoThreadAssumption DEF Waiters, GetLockOwner, KernelWaiters, TypeOK
<1>3. \A t \in live' : { w \in Waiters(t)' : waitingLock'[w] \in KernelKeys } =
                       KernelWaiters(waitingLock', lockOwner', t)
  BY <1>1, NoThreadAssumption DEF Waiters, GetLockOwner, KernelWaiters, TypeOK
<1>4. QED BY <1>2, <1>3 DEF KernelWaitersCounted

\* A new waiter is counted where its lock is a kernel lock.
LEMMA AddWaiterCounts ==
    ASSUME WaiterInv, WaiterInv', KernelWaitersCounted, NEW o \in Threads, NEW t \in Threads,
           NEW k \in Keys, AddWaiter(o, t, k)
    PROVE  KernelWaitersCounted'
<1> SUFFICES ASSUME NEW x \in live'
             PROVE  numKernelWaiters'[x] = Cardinality(KernelWaiters(waitingLock', lockOwner', x))
  BY WaitersCounted DEF WaiterInv
<1> DEFINE before == KernelWaiters(waitingLock, lockOwner, x)
           after == KernelWaiters(waitingLock', lockOwner', x)
<1>1. /\ x \in live /\ x \in Threads /\ waitingLock[t] = NoKey
      /\ lockOwner[k] \in {o, NoThread}
      /\ numKernelWaiters' = [numKernelWaiters EXCEPT ![o] = @ + KernelWaiterCount(k, 1)]
      /\ lockOwner' = [lockOwner EXCEPT ![k] = o]
      /\ waitingLock' = [waitingLock EXCEPT ![t] = k]
  BY DEF AddWaiter, prioVars, WaiterInv, TypeOK
<1>2. numKernelWaiters[x] = Cardinality(before)
  BY <1>1, WaitersCounted DEF WaiterInv
<1>3. /\ waitingLock \in [Threads -> Keys \cup {NoKey}]
      /\ lockOwner \in [Keys -> Threads \cup {NoThread}]
      /\ numKernelWaiters \in [Threads -> Int]
      /\ KernelKeys \subseteq Keys /\ NoKey \notin KernelKeys
  BY NoKeyAssumption DEF WaiterInv, TypeOK, Keys
<1>4. \A w \in Threads : waitingLock[w] = k => lockOwner[k] = o
  <2>1. \A w \in Threads : waitingLock[w] = k => tree[k] # <<>>
    BY DEF WaiterInv, TreeMatchesWaits, In
  <2>2. QED BY <1>1, <2>1 DEF WaiterInv, TreeMatchesWaits
<1>5. \A w \in Threads : w \in after <=> w \in before \/ (w = t /\ x = o /\ k \in KernelKeys)
  BY <1>1, <1>3, <1>4, NoThreadAssumption DEF KernelWaiters
<1>6. t \notin before /\ before \subseteq Threads /\ after \subseteq Threads
  BY <1>1, <1>3 DEF KernelWaiters
<1>7. IsFiniteSet(before) /\ Cardinality(before) \in Nat
  BY KernelWaitersAreFinite
<1> HIDE DEF before, after
<1>8. CASE x = o /\ k \in KernelKeys
  <2>1. after = before \cup {t}
    BY <1>5, <1>6, <1>8
  <2>2. Cardinality(after) = Cardinality(before) + 1
    BY <1>6, <1>7, <2>1, FS_AddElement
  <2>3. QED BY <1>1, <1>2, <1>3, <1>8, <2>2 DEF KernelWaiterCount, after
<1>9. CASE ~(x = o /\ k \in KernelKeys)
  <2>1. after = before
    BY <1>5, <1>6, <1>9
  <2>2. numKernelWaiters'[x] = numKernelWaiters[x]
    BY <1>1, <1>3, <1>9 DEF KernelWaiterCount
  <2>3. QED BY <1>2, <2>1, <2>2 DEF after
<1>10. QED BY <1>8, <1>9

\* A waiter that gives up is not counted any more.
LEMMA RemoveWaiterCounts ==
    ASSUME WaiterInv, WaiterInv', KernelWaitersCounted, NEW t \in Threads, RemoveWaiter(t)
    PROVE  KernelWaitersCounted'
<1> SUFFICES ASSUME NEW x \in live'
             PROVE  numKernelWaiters'[x] = Cardinality(KernelWaiters(waitingLock', lockOwner', x))
  BY WaitersCounted DEF WaiterInv
<1> DEFINE before == KernelWaiters(waitingLock, lockOwner, x)
           after == KernelWaiters(waitingLock', lockOwner', x)
           k == waitingLock[t]
           o == lockOwner[k]
<1>1. /\ x \in live /\ x \in Threads /\ k # NoKey
      /\ numKernelWaiters' = [numKernelWaiters EXCEPT ![o] = @ - KernelWaiterCount(k, 1)]
      /\ waitingLock' = [waitingLock EXCEPT ![t] = NoKey]
  BY DEF RemoveWaiter, GetLockOwner, prioVars, WaiterInv, TypeOK
<1>2. numKernelWaiters[x] = Cardinality(before)
  BY <1>1, WaitersCounted DEF WaiterInv
<1>3. /\ waitingLock \in [Threads -> Keys \cup {NoKey}]
      /\ lockOwner \in [Keys -> Threads \cup {NoThread}]
      /\ numKernelWaiters \in [Threads -> Int]
      /\ KernelKeys \subseteq Keys /\ NoKey \notin KernelKeys
  BY NoKeyAssumption DEF WaiterInv, TypeOK, Keys
<1>4. \A w \in Threads : waitingLock'[w] \in KernelKeys =>
          lockOwner'[waitingLock'[w]] = lockOwner[waitingLock'[w]]
  <2>1. PICK s \in TreeErase(tree[k], t) :
            lockOwner' = [lockOwner EXCEPT ![k] = IF s = <<>> THEN NoThread ELSE o]
    BY <1>1 DEF RemoveWaiter, GetLockOwner
  <2>2. \A w \in Threads : waitingLock'[w] = k => lockOwner'[k] # NoThread
    <3>1. \A w \in Threads : waitingLock'[w] = k => tree'[k] # <<>>
      BY <1>1, <1>3 DEF WaiterInv, TreeMatchesWaits, In
    <3>2. QED BY <1>1, <1>3, <3>1 DEF WaiterInv, TreeMatchesWaits
  <2>3. QED BY <1>1, <1>3, <2>1, <2>2
<1>5. \A w \in Threads : w \in after <=> w \in before /\ w # t
  BY <1>1, <1>3, <1>4 DEF KernelWaiters
<1>6. /\ t \in before <=> x = o /\ k \in KernelKeys
      /\ before \subseteq Threads /\ after \subseteq Threads
  BY <1>1, <1>3 DEF KernelWaiters
<1>7. IsFiniteSet(before) /\ Cardinality(before) \in Nat
  BY KernelWaitersAreFinite
<1> HIDE DEF before, after, k, o
<1>8. after = before \ {t}
  BY <1>5, <1>6
<1>9. CASE x = o /\ k \in KernelKeys
  <2>1. Cardinality(after) = Cardinality(before) - 1
    BY <1>6, <1>7, <1>8, <1>9, FS_RemoveElement
  <2>2. QED BY <1>1, <1>2, <1>3, <1>9, <2>1 DEF KernelWaiterCount, after
<1>10. CASE ~(x = o /\ k \in KernelKeys)
  <2>1. after = before
    BY <1>6, <1>8, <1>10
  <2>2. numKernelWaiters'[x] = numKernelWaiters[x]
    BY <1>1, <1>3, <1>10 DEF KernelWaiterCount
  <2>3. QED BY <1>2, <2>1, <2>2 DEF after
<1>11. QED BY <1>9, <1>10

\* A hand-over counts all of a lock's waiters out at the old owner, and those that are
\* left in at the new one.
LEMMA RemoveWaiterByKeyCounts ==
    ASSUME WaiterInv, WaiterInv', KernelWaitersCounted, NEW o \in Threads, NEW k \in Keys,
           RemoveWaiterByKey(o, k)
    PROVE  KernelWaitersCounted'
<1> SUFFICES ASSUME NEW x \in live'
             PROVE  numKernelWaiters'[x] = Cardinality(KernelWaiters(waitingLock', lockOwner', x))
  BY WaitersCounted DEF WaiterInv
<1> DEFINE before == KernelWaiters(waitingLock, lockOwner, x)
           after == KernelWaiters(waitingLock', lockOwner', x)
           queue == { w \in Threads : waitingLock[w] = k }
           n == tree[k][1]
           len == Len(tree[k])
<1>1. /\ x \in live /\ x \in Threads /\ waitingLock[o] = NoKey /\ lockOwner[k] = o
      /\ waitingLock' = [waitingLock EXCEPT ![n] = NoKey]
      /\ lockOwner' = [lockOwner EXCEPT ![k] = IF Tail(tree[k]) = <<>> THEN NoThread ELSE n]
  BY DEF RemoveWaiterByKey, GetHighestPriorityWaiter, prioVars, WaiterInv, TypeOK
<1>2. numKernelWaiters[x] = Cardinality(before)
  BY <1>1, WaitersCounted DEF WaiterInv
<1>3. /\ waitingLock \in [Threads -> Keys \cup {NoKey}]
      /\ lockOwner \in [Keys -> Threads \cup {NoThread}]
      /\ numKernelWaiters \in [Threads -> Int]
      /\ KernelKeys \subseteq Keys /\ NoKey \notin KernelKeys /\ NoKey # k
  BY NoKeyAssumption DEF WaiterInv, TypeOK, Keys
<1>4. /\ tree[k] \in Seq(Threads) /\ Distinct(tree[k]) /\ tree[k] # <<>>
      /\ \A w \in Threads : In(w, tree[k]) <=> waitingLock[w] = k
  BY <1>1, NoThreadAssumption DEF WaiterInv, TypeOK, TreeMatchesWaits
<1>5. n \in Threads /\ waitingLock[n] = k /\ n # o /\ len \in Nat /\ Len(Tail(tree[k])) = len - 1
  <2>1. n \in Threads /\ In(n, tree[k]) /\ Len(Tail(tree[k])) = len - 1
    BY <1>4, TreeTail
  <2>2. QED BY <1>1, <1>3, <1>4, <2>1
<1>6. Cardinality(queue) = len
  <2>1. \A w : w \in queue <=> In(w, tree[k])
    BY <1>4 DEF In
  <2>2. QED BY <1>4, <2>1, ElementsCounted
<1>7. /\ numKernelWaiters'[o] = numKernelWaiters[o] - KernelWaiterCount(k, len)
      /\ numKernelWaiters'[n] = numKernelWaiters[n] + KernelWaiterCount(k, len - 1)
      /\ \A u \in Threads : u # o /\ u # n => numKernelWaiters'[u] = numKernelWaiters[u]
  <2>1. numKernelWaiters' =
           [numKernelWaiters EXCEPT ![o] = @ - KernelWaiterCount(k, len),
                                    ![n] = @ + KernelWaiterCount(k, Len(Tail(tree[k])))]
    BY DEF RemoveWaiterByKey, GetHighestPriorityWaiter
  <2> HIDE DEF n, len
  <2>2. QED BY <1>3, <1>5, <2>1
<1>8. Tail(tree[k]) = <<>> => \A w \in queue : w = n
  <2>1. \A w : In(w, Tail(tree[k])) <=> w # n /\ In(w, tree[k])
    BY <1>4, TreeTail
  <2>2. Tail(tree[k]) = <<>> => \A w : ~In(w, Tail(tree[k]))
    BY DEF In
  <2>3. \A w \in queue : In(w, tree[k])
    BY <1>4
  <2> HIDE DEF n, queue
  <2>4. QED BY <2>1, <2>2, <2>3
<1> DEFINE counted == IF k \in KernelKeys THEN queue ELSE {}
<1>9. /\ IsFiniteSet(before) /\ Cardinality(before) \in Nat
      /\ IsFiniteSet(counted) /\ IsFiniteSet(counted \ {n})
      /\ Cardinality(counted) = KernelWaiterCount(k, len)
      /\ Cardinality(counted \ {n}) = KernelWaiterCount(k, len - 1)
  <2>1. IsFiniteSet(counted)
    BY ThreadsAssumption, FS_Subset, FS_EmptySet
  <2>2. Cardinality(counted) = KernelWaiterCount(k, len)
    BY <1>6, FS_EmptySet DEF KernelWaiterCount
  <2>3. k \in KernelKeys => n \in counted
    BY <1>5
  <2> HIDE DEF n, len, queue
  <2>4. IsFiniteSet(counted \ {n}) /\ Cardinality(counted \ {n}) = KernelWaiterCount(k, len - 1)
    <3>1. CASE k \in KernelKeys
      BY <2>1, <2>2, <2>3, <3>1, FS_RemoveElement DEF KernelWaiterCount
    <3>2. CASE k \notin KernelKeys
      <4>1. counted \ {n} = {}
        BY <3>2
      <4>2. QED BY <3>2, <4>1, FS_EmptySet DEF KernelWaiterCount
    <3>3. QED BY <3>1, <3>2
  <2>5. QED BY <2>1, <2>2, <2>4, KernelWaitersAreFinite
<1>10. \A w \in Threads : w \in counted <=> waitingLock[w] = k /\ k \in KernelKeys
  OBVIOUS
<1>11. \A w \in Threads : w \in after <=>
          \/ w \in before /\ w \notin counted
          \/ x = n /\ w \in counted /\ w # n
  <2>1. /\ \A w \in Threads : w # n => waitingLock'[w] = waitingLock[w]
        /\ waitingLock'[n] = NoKey
        /\ \A j \in Keys : j # k => lockOwner'[j] = lockOwner[j]
        /\ \A w \in Threads : w # n /\ waitingLock[w] = k => lockOwner'[k] = n
    BY <1>1, <1>3, <1>5, <1>8
  <2> HIDE DEF n, counted, queue
  <2>2. ASSUME NEW w \in Threads
        PROVE  w \in after <=> \/ w \in before /\ w \notin counted
                               \/ x = n /\ w \in counted /\ w # n
    <3>1. CASE w = n
      BY <1>3, <1>5, <1>10, <2>1, <3>1 DEF KernelWaiters
    <3>2. CASE w # n /\ waitingLock[w] = k
      BY <1>1, <1>3, <1>5, <1>10, <2>1, <3>2 DEF KernelWaiters
    <3>3. CASE w # n /\ waitingLock[w] # k
      BY <1>3, <1>10, <2>1, <3>3 DEF KernelWaiters
    <3>4. QED BY <3>1, <3>2, <3>3
  <2>3. QED BY <2>2
<1>12. before \subseteq Threads /\ after \subseteq Threads /\ counted \subseteq Threads
  BY DEF KernelWaiters
<1>13. IF x = o THEN counted \subseteq before ELSE counted \cap before = {}
  BY <1>1, <1>3 DEF KernelWaiters
<1> HIDE DEF before, after, counted, n, len, queue
<1>14. CASE x = o
  <2>1. after = before \ counted /\ before \cap counted = counted
    BY <1>5, <1>11, <1>12, <1>13, <1>14
  <2>2. Cardinality(after) = Cardinality(before) - Cardinality(counted)
    <3>1. Cardinality(before \ counted) = Cardinality(before) - Cardinality(before \cap counted)
      BY <1>9, FS_Difference
    <3>2. QED BY <2>1, <3>1
  <2>3. QED BY <1>2, <1>7, <1>9, <1>14, <2>2 DEF after
<1>15. CASE x = n
  <2>1. after = before \cup (counted \ {n}) /\ before \cap (counted \ {n}) = {}
    BY <1>5, <1>11, <1>12, <1>13, <1>15
  <2>2. Cardinality(before \cap (counted \ {n})) = 0
    BY <2>1, FS_EmptySet
  <2>3. Cardinality(after) = Cardinality(before) + Cardinality(counted \ {n})
                             - Cardinality(before \cap (counted \ {n}))
    BY <1>9, <2>1, FS_Union
  <2>4. KernelWaiterCount(k, len - 1) \in Int
    BY <1>5 DEF KernelWaiterCount
  <2>5. QED BY <1>2, <1>7, <1>9, <1>15, <2>2, <2>3, <2>4 DEF after
<1>16. CASE x # o /\ x # n
  <2>1. after = before
    BY <1>11, <1>12, <1>13, <1>16
  <2>2. QED BY <1>1, <1>2, <1>7, <1>16, <2>1 DEF after
<1>17. QED BY <1>14, <1>15, <1>16

\* No other step changes who waits for whom, but for Finalize, which lets go of the
\* waiters of the dying thread only, and Initialize, of a thread nobody waits for.
LEMMA KernelWaitersCountedNext ==
    ASSUME WaiterInv, WaiterInv', KernelWaitersCounted, [Next]_waiterVars
    PROVE  KernelWaitersCounted'
<1>1. /\ waitingLock \in [Threads -> Keys \cup {NoKey}]
      /\ lockOwner \in [Keys -> Threads \cup {NoThread}] /\ live \subseteq Threads
      /\ KernelKeys \subseteq Keys /\ NoKey \notin KernelKeys
  BY NoKeyAssumption DEF WaiterInv, TypeOK, Keys
<1>2. CASE UNCHANGED <<live, waitingLock, lockOwner, numKernelWaiters>>
  BY <1>2, WaitersCounted DEF WaiterInv
<1>3. ASSUME NEW t \in Threads, Finalize(t) PROVE KernelWaitersCounted'
  <2> SUFFICES ASSUME NEW x \in live'
               PROVE  numKernelWaiters'[x] = Cardinality(KernelWaiters(waitingLock', lockOwner', x))
    BY WaitersCounted DEF WaiterInv
  <2>1. /\ x \in live /\ x # t /\ numKernelWaiters' = numKernelWaiters
        /\ waitingLock' = [w \in Threads |-> IF GetLockOwner(w) = t THEN NoKey
                                                                    ELSE waitingLock[w]]
        /\ lockOwner' = [k \in Keys |-> IF lockOwner[k] = t THEN NoThread ELSE lockOwner[k]]
    BY <1>3 DEF Finalize
  <2>2. KernelWaiters(waitingLock', lockOwner', x) = KernelWaiters(waitingLock, lockOwner, x)
    BY <1>1, <2>1, NoThreadAssumption DEF KernelWaiters, GetLockOwner
  <2>3. QED BY <2>1, <2>2, WaitersCounted DEF WaiterInv
<1>4. ASSUME NEW t \in Threads, NEW p \in Priorities, Initialize(t, p) PROVE KernelWaitersCounted'
  <2> SUFFICES ASSUME NEW x \in live'
               PROVE  numKernelWaiters'[x] = Cardinality(KernelWaiters(waitingLock', lockOwner', x))
    BY WaitersCounted DEF WaiterInv
  <2>1. /\ t \notin live /\ live' = live \cup {t} /\ UNCHANGED <<waitingLock, lockOwner>>
        /\ numKernelWaiters' = [numKernelWaiters EXCEPT ![t] = 0]
    BY <1>4 DEF Initialize
  <2>2. CASE x = t
    <3>1. KernelWaiters(waitingLock', lockOwner', x) = {}
      BY <1>1, <2>1, <2>2, NoThreadAssumption DEF KernelWaiters, WaiterInv, OnlyLiveWait
    <3>2. numKernelWaiters'[x] = 0
      BY <1>1, <2>1, <2>2 DEF WaiterInv, TypeOK
    <3>3. QED BY <3>1, <3>2, FS_EmptySet
  <2>3. CASE x # t
    BY <2>1, <2>3, WaitersCounted DEF WaiterInv, TypeOK
  <2>4. QED BY <2>2, <2>3
<1>5. QED
  BY <1>2, <1>3, <1>4, AddWaiterCounts, RemoveWaiterCounts, RemoveWaiterByKeyCounts
     DEF Next, SetBasePriority, IncreaseBasePriority, RestorePriority, graphVars, waiterVars

\* m_num_kernel_waiters is the number of threads that wait for a kernel lock of a
\* thread, for any number of threads and locks.
THEOREM CountsAreRight == Spec => []KernelWaitersCounted
<1>1. Init => KernelWaitersCounted
  <2> SUFFICES ASSUME Init, NEW t \in live
               PROVE  numKernelWaiters[t] =
                        Cardinality({ w \in Waiters(t) : waitingLock[w] \in KernelKeys })
    BY DEF KernelWaitersCounted
  <2>1. { w \in Waiters(t) : waitingLock[w] \in KernelKeys } = {}
    BY NoKeyAssumption, NoThreadAssumption DEF Init, Keys, Waiters, GetLockOwner
  <2>2. numKernelWaiters[t] = 0
    BY DEF Init
  <2>3. QED BY <2>1, <2>2, FS_EmptySet
<1>2. QED
  BY <1>1, WaiterInvariant, KernelWaitersCountedNext, PTL DEF Spec

=============================================================================
