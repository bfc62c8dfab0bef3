--------------------- MODULE KSynchronizationObject_proofs ---------------------
(***************************************************************************)
(* Proofs about KSynchronizationObject: the lists of waiting nodes, the    *)
(* walk of NotifyAvailable over a list that changes under its feet, and    *)
(* the results of Wait, for every number of threads and objects.           *)
(***************************************************************************)
EXTENDS KSynchronizationObject, OrderLemmas

\* The result of a wait is set when the thread is woken, and gone when it has
\* returned; a running thread waits for nothing.
SleepersHaveNoResult ==
    \A t \in Threads :
        /\ pc[t] = "run" => result[t] = "None" /\ ~waiting[t]
        /\ pc[t] = "sync" /\ waiting[t] => result[t] = "None"

\* Node i of t was linked into the list of the object that is notified.
IsOfNotifying(n, t) ==
    n[1] = t /\ n[2] \in DOMAIN objects[t] /\ objects[t][n[2]] = notifying

\* Where the walk goes on when it has left the nodes that are not linked any more.
RestOfWalk == IF list[notifying] = <<>> THEN NoNode ELSE list[notifying][1]

\* The pointers in the unlinked nodes of the cursor's thread lead from the cursor
\* to the nodes that are still linked.
LeadsToRest(k, path) ==
    /\ path[1] = cursor
    /\ \A i \in 1 .. k : IsOfNotifying(path[i], cursor[1])
    /\ \A i \in 1 .. (k - 1) : path[i + 1] = staleNext[path[i]]
    /\ staleNext[path[k]] = RestOfWalk

\* What NotifyAvailable relies on: its cursor is the first linked node, or an
\* unlinked one from which the stale pointers lead to the first linked node.
WalkReachesRest ==
    notifying # NoObject =>
        /\ cursor \in Nodes
        /\ signaled[notifying]
        /\ pc[cursor[1]] = "sync"
        /\ IsOfNotifying(cursor, cursor[1])
        /\ In(cursor, list[notifying]) => cursor = list[notifying][1]
        /\ ~In(cursor, list[notifying]) =>
              \E k \in Nat \ {0} : \E path \in [1 .. k -> Nodes] : LeadsToRest(k, path)

\* The inductive invariant.
SyncIInv ==
    /\ TypeOK
    /\ NodesOfSleepersAreLinked
    /\ SleepersHaveNoResult
    /\ CancelIsNotLost
    /\ SignaledObjectHasNoSleepers
    /\ IndexNamesObject
    /\ WalkReachesRest

\* The nodes of the threads other than t.
NodesOfOthers(t) == (Threads \ {t}) \X (1 .. MaxObjects)

-----------------------------------------------------------------------------
(* Lists and indices *)

LEMMA NodeIsPair ==
    ASSUME NEW n \in Nodes
    PROVE  n[1] \in Threads /\ n[2] \in 1 .. MaxObjects /\ n = <<n[1], n[2]>>
    BY DEF Nodes

LEMMA ObjectListType ==
    ASSUME NEW os \in ObjectLists
    PROVE  /\ DOMAIN os \subseteq 1 .. MaxObjects
           /\ \A i \in DOMAIN os : os[i] \in Objects
           /\ \E n \in 0 .. MaxObjects : DOMAIN os = 1 .. n
    BY MaxObjectsAssumption DEF ObjectLists

LEMMA NoObjectsIsList == <<>> \in ObjectLists
<1>1. <<>> \in [1 .. 0 -> Objects] /\ 0 \in 0 .. MaxObjects
    BY MaxObjectsAssumption
<1>2. QED BY <1>1 DEF ObjectLists

\* The first of some indices is one of them, and none is less.
LEMMA FirstIndexIsFirst ==
    ASSUME NEW S \in SUBSET (1 .. MaxObjects), S # {}
    PROVE  FirstIndex(S) \in S /\ \A j \in S : FirstIndex(S) <= j
<1>1. S \in SUBSET Nat
    BY MaxObjectsAssumption
<1>2. QED BY <1>1, LeastExists DEF FirstIndex

\* UnlinkNodes takes out the nodes of one thread and no others, and brings an
\* empty list no node.
LEMMA UnlinkedLists ==
    ASSUME list \in [Objects -> Seq(Nodes)], NEW t \in Threads, UnlinkNodes(t)
    PROVE  /\ list' \in [Objects -> Seq(Nodes)]
           /\ \A o \in Objects : list'[o] = Keep(list[o], NodesOfOthers(t))
           /\ \A o \in Objects, n \in Nodes : In(n, list'[o]) <=> In(n, list[o]) /\ n[1] # t
           /\ \A o \in Objects : Distinct(list[o]) => Distinct(list'[o])
           /\ \A o \in Objects : list[o] = <<>> => list'[o] = <<>>
<1>1. \A o \in Objects : list[o] \in Seq(Nodes)
    OBVIOUS
<1>2. list' = [o \in Objects |-> Keep(list[o], NodesOfOthers(t))]
    BY DEF UnlinkNodes, NodesOfOthers
<1>3. \A o \in Objects : list'[o] = Keep(list[o], NodesOfOthers(t)) /\ list'[o] \in Seq(Nodes)
    BY <1>1, <1>2, KeepElements
<1>4. list' \in [Objects -> Seq(Nodes)]
    BY <1>2, <1>3
<1>5. \A n \in Nodes : n \in NodesOfOthers(t) <=> n[1] # t
    BY NodeIsPair DEF NodesOfOthers
<1>6. ASSUME NEW o \in Objects, NEW n \in Nodes
      PROVE  In(n, list'[o]) <=> In(n, list[o]) /\ n[1] # t
    BY <1>1, <1>3, <1>5, KeepElements
<1>7. \A o \in Objects : Distinct(list[o]) => Distinct(list'[o])
    BY <1>1, <1>3, KeepElements
<1>8. \A o \in Objects : list[o] = <<>> => list'[o] = <<>>
  <2>1. ASSUME NEW o \in Objects, list[o] = <<>> PROVE Keep(list[o], NodesOfOthers(t)) = <<>>
    <3>1. \A i \in 1 .. Len(list[o]) : list[o][i] \notin NodesOfOthers(t)
      BY <2>1
    <3>2. QED BY <1>1, <3>1, KeepElements
  <2>2. QED BY <1>3, <2>1
<1>9. QED
    BY <1>3, <1>4, <1>6, <1>7, <1>8

\* LinkNodes adds the nodes of t that name the object, and no others.
LEMMA LinkedLists ==
    ASSUME list \in [Objects -> Seq(Nodes)], NEW t \in Threads, NEW os \in ObjectLists,
           LinkNodes(t, os),
           \A o \in Objects : Distinct(list[o]),
           \A o \in Objects, n \in Nodes : In(n, list[o]) => n[1] # t
    PROVE  /\ list' \in [Objects -> Seq(Nodes)]
           /\ \A o \in Objects, n \in Nodes :
                 In(n, list'[o]) <=>
                    In(n, list[o]) \/ (n[1] = t /\ n[2] \in DOMAIN os /\ os[n[2]] = o)
           /\ \A o \in Objects : Distinct(list'[o])
           /\ \A o \in Objects : (\A i \in DOMAIN os : os[i] # o) => list'[o] = list[o]
<1> DEFINE own == [i \in DOMAIN os |-> <<t, i>>]
           K(o) == {t} \X {i \in DOMAIN os : os[i] = o}
<1>1. PICK m \in 0 .. MaxObjects : DOMAIN os = 1 .. m
    BY ObjectListType
<1>2. own \in Seq(Nodes) /\ Len(own) = m /\ \A i \in 1 .. m : own[i] = <<t, i>>
  <2>1. \A i \in 1 .. m : <<t, i>> \in Nodes
    BY <1>1, MaxObjectsAssumption DEF Nodes
  <2>2. QED BY <1>1, <2>1, MaxObjectsAssumption
<1>3. Distinct(own)
    BY <1>2 DEF Distinct
<1>4. \A n \in Nodes : In(n, own) <=> n[1] = t /\ n[2] \in DOMAIN os
    BY <1>1, <1>2, NodeIsPair DEF In
<1> HIDE DEF own
<1>5. \A o \in Objects : list'[o] = list[o] \o Keep(own, K(o))
    BY DEF LinkNodes, own
<1>6. ASSUME NEW o \in Objects
      PROVE  /\ Keep(own, K(o)) \in Seq(Nodes) /\ Distinct(Keep(own, K(o)))
             /\ \A n \in Nodes : In(n, Keep(own, K(o))) <=>
                   n[1] = t /\ n[2] \in DOMAIN os /\ os[n[2]] = o
             /\ (\A i \in DOMAIN os : os[i] # o) => Keep(own, K(o)) = <<>>
  <2>1. \A n \in Nodes : n \in K(o) <=> n[1] = t /\ n[2] \in DOMAIN os /\ os[n[2]] = o
    BY NodeIsPair
  <2>2. (\A i \in DOMAIN os : os[i] # o) => \A i \in 1 .. Len(own) : own[i] \notin K(o)
    OBVIOUS
  <2> HIDE DEF K
  <2>3. QED BY <1>2, <1>3, <1>4, <2>1, <2>2, KeepElements
<1> HIDE DEF K
<1>7. ASSUME NEW o \in Objects
      PROVE  /\ list'[o] \in Seq(Nodes)
             /\ \A n \in Nodes : In(n, list'[o]) <=>
                   In(n, list[o]) \/ (n[1] = t /\ n[2] \in DOMAIN os /\ os[n[2]] = o)
             /\ Distinct(list'[o])
             /\ (\A i \in DOMAIN os : os[i] # o) => list'[o] = list[o]
  <2> DEFINE a == list[o]
             b == Keep(own, K(o))
  <2>1. a \in Seq(Nodes) /\ b \in Seq(Nodes) /\ list'[o] = a \o b
    BY <1>5, <1>6
  <2>2. Distinct(a) /\ Distinct(b) /\ \A n \in Nodes : ~(In(n, a) /\ In(n, b))
    BY <1>6
  <2>3. (\A i \in DOMAIN os : os[i] # o) => b = <<>>
    BY <1>6
  <2>4. \A n \in Nodes : In(n, b) <=> n[1] = t /\ n[2] \in DOMAIN os /\ os[n[2]] = o
    BY <1>6
  <2> HIDE DEF a, b
  <2>5. /\ a \o b \in Seq(Nodes) /\ Len(a \o b) = Len(a) + Len(b)
        /\ Len(a) \in Nat /\ Len(b) \in Nat
        /\ \A i \in 1 .. Len(a) : (a \o b)[i] = a[i]
        /\ \A i \in 1 .. Len(b) : (a \o b)[Len(a) + i] = b[i]
    BY <2>1
  <2>6. \A i \in 1 .. Len(a \o b) :
           i \in 1 .. Len(a) \/ (i - Len(a) \in 1 .. Len(b) /\ i = Len(a) + (i - Len(a)))
    BY <2>5
  <2>7. \A n : In(n, a \o b) <=> In(n, a) \/ In(n, b)
    <3>1. ASSUME NEW n, In(n, a \o b) PROVE In(n, a) \/ In(n, b)
      BY <2>5, <2>6, <3>1 DEF In
    <3>2. ASSUME NEW n, In(n, a) PROVE In(n, a \o b)
      BY <2>5, <3>2 DEF In
    <3>3. ASSUME NEW n, In(n, b) PROVE In(n, a \o b)
      <4>1. PICK i \in 1 .. Len(b) : b[i] = n
        BY <3>3 DEF In
      <4>2. Len(a) + i \in 1 .. Len(a \o b)
        BY <2>5
      <4>3. QED BY <2>5, <4>1, <4>2 DEF In
    <3>4. QED BY <3>1, <3>2, <3>3
  <2>8. Distinct(a \o b)
    <3>1. SUFFICES ASSUME NEW i \in 1 .. Len(a \o b), NEW j \in 1 .. Len(a \o b),
                          (a \o b)[i] = (a \o b)[j]
                   PROVE  i = j
      BY DEF Distinct
    <3>2. (a \o b)[i] \in Nodes
      BY <2>5
    <3>3. CASE i \in 1 .. Len(a) /\ j \in 1 .. Len(a)
      BY <2>2, <2>5, <3>1, <3>3 DEF Distinct
    <3>4. CASE i \notin 1 .. Len(a) /\ j \notin 1 .. Len(a)
      <4> DEFINE p == i - Len(a)
                 q == j - Len(a)
      <4>1. /\ p \in 1 .. Len(b) /\ i = Len(a) + p /\ q \in 1 .. Len(b) /\ j = Len(a) + q
        BY <2>6, <3>4
      <4> HIDE DEF p, q
      <4>2. b[p] = b[q]
        BY <2>5, <3>1, <4>1
      <4>3. p = q
        BY <2>2, <4>1, <4>2 DEF Distinct
      <4>4. QED BY <4>1, <4>3
    <3>5. CASE i \in 1 .. Len(a) /\ j \notin 1 .. Len(a)
      <4>1. In((a \o b)[i], a) /\ In((a \o b)[i], b)
        BY <2>5, <2>6, <3>1, <3>5 DEF In
      <4>2. QED BY <2>2, <3>2, <4>1
    <3>6. CASE i \notin 1 .. Len(a) /\ j \in 1 .. Len(a)
      <4>1. In((a \o b)[i], a) /\ In((a \o b)[i], b)
        BY <2>5, <2>6, <3>1, <3>6 DEF In
      <4>2. QED BY <2>2, <3>2, <4>1
    <3>7. QED BY <3>3, <3>4, <3>5, <3>6
  <2>9. b = <<>> => a \o b = a
    BY <2>1
  <2>10. QED BY <2>1, <2>3, <2>4, <2>5, <2>7, <2>8, <2>9 DEF a
<1>8. list' = [o \in Objects |-> list'[o]]
    BY DEF LinkNodes
<1>9. list' \in [Objects -> Seq(Nodes)]
    BY <1>7, <1>8
<1>10. QED BY <1>7, <1>9

-----------------------------------------------------------------------------
(* Threads that begin and end their waits *)

\* A thread that wakes leaves no node behind.
LEMMA WokenLeavesLists ==
    ASSUME TypeOK, NodesOfSleepersAreLinked, NEW t \in Threads, UnlinkNodes(t),
           waiting' = [waiting EXCEPT ![t] = FALSE], pc' = pc, objects' = objects
    PROVE  NodesOfSleepersAreLinked'
<1>1. list \in [Objects -> Seq(Nodes)] /\ waiting \in [Threads -> BOOLEAN]
    BY DEF TypeOK
<1>2. /\ \A o \in Objects, n \in Nodes : In(n, list'[o]) <=> In(n, list[o]) /\ n[1] # t
      /\ \A o \in Objects : Distinct(list'[o])
    BY <1>1, UnlinkedLists DEF NodesOfSleepersAreLinked
<1>3. \A u \in Threads : waiting'[u] <=> waiting[u] /\ u # t
    BY <1>1
<1>4. QED
    BY <1>2, <1>3, NodeIsPair DEF NodesOfSleepersAreLinked

\* CancelWait of a waiting thread keeps everything but the result.
LEMMA CancelWaitKeeps ==
    ASSUME SyncIInv, NEW t \in Threads, waiting[t], NEW why, CancelWait(t, why),
           pc' = pc, objects' = objects
    PROVE  /\ list' \in [Objects -> Seq(Nodes)]
           /\ NodesOfSleepersAreLinked'
           /\ \A o \in Objects : list[o] = <<>> => list'[o] = <<>>
           /\ waiting' = [waiting EXCEPT ![t] = FALSE]
           /\ result' = [result EXCEPT ![t] = why]
           /\ cancellable' = [cancellable EXCEPT ![t] = FALSE]
<1>1. /\ TypeOK /\ NodesOfSleepersAreLinked
      /\ waiting' = [waiting EXCEPT ![t] = FALSE]
      /\ result' = [result EXCEPT ![t] = why]
    BY DEF SyncIInv, CancelWait
<1>2. CASE pc[t] = "sync"
  <2>1. UnlinkNodes(t) /\ cancellable' = [cancellable EXCEPT ![t] = FALSE]
    BY <1>2 DEF CancelWait
  <2>2. QED BY <1>1, <2>1, WokenLeavesLists, UnlinkedLists DEF TypeOK
<1>3. CASE pc[t] # "sync"
  <2>1. list' = list /\ cancellable' = cancellable
    BY <1>3 DEF CancelWait
  <2>2. cancellable[t] = FALSE /\ cancellable \in [Threads -> BOOLEAN]
    BY <1>3 DEF SyncIInv, TypeOK, CancelIsNotLost
  <2>3. cancellable' = [cancellable EXCEPT ![t] = FALSE]
    BY <2>1, <2>2
  <2>4. \A u \in Threads : (waiting'[u] /\ pc'[u] = "sync") <=> (waiting[u] /\ pc[u] = "sync")
    BY <1>1, <1>3 DEF TypeOK
  <2>5. NodesOfSleepersAreLinked'
    BY <1>1, <2>1, <2>4, NodeIsPair DEF NodesOfSleepersAreLinked
  <2>6. QED BY <1>1, <2>1, <2>3, <2>5 DEF TypeOK
<1>4. QED BY <1>2, <1>3

\* The wait is cancelled by its timer, by svcCancelSynchronization or by a
\* request to terminate.
LEMMA CancelledWaitKeepsInvariant ==
    ASSUME SyncIInv, NEW t \in Threads, waiting[t],
           NEW why \in {"TimedOut", "Cancelled", "TerminationRequested"},
           CancelWait(t, why), SchedulerFree,
           UNCHANGED <<signaled, loopVars, pc, objects, syncedIndex>>,
           \/ UNCHANGED <<waitCancelled, terminationRequested>>
           \/ waitCancelled' = [waitCancelled EXCEPT ![t] = FALSE]
              /\ UNCHANGED terminationRequested
           \/ terminationRequested' = [terminationRequested EXCEPT ![t] = TRUE]
              /\ UNCHANGED waitCancelled
    PROVE  SyncIInv'
<1>1. /\ list' \in [Objects -> Seq(Nodes)]
      /\ NodesOfSleepersAreLinked'
      /\ \A o \in Objects : list[o] = <<>> => list'[o] = <<>>
      /\ waiting' = [waiting EXCEPT ![t] = FALSE]
      /\ result' = [result EXCEPT ![t] = why]
      /\ cancellable' = [cancellable EXCEPT ![t] = FALSE]
    BY CancelWaitKeeps
<1>2. TypeOK'
  <2>1. staleNext' = staleNext
    BY DEF CancelWait
  <2>2. QED BY <1>1, <2>1 DEF SyncIInv, TypeOK, loopVars
<1>3. SleepersHaveNoResult'
    BY <1>1 DEF SyncIInv, TypeOK, SleepersHaveNoResult
<1>4. CancelIsNotLost'
    BY <1>1 DEF SyncIInv, TypeOK, CancelIsNotLost
<1>5. SignaledObjectHasNoSleepers'
    BY <1>1 DEF SyncIInv, SignaledObjectHasNoSleepers, loopVars
<1>6. IndexNamesObject'
    BY <1>1 DEF SyncIInv, TypeOK, IndexNamesObject
<1>7. WalkReachesRest'
    BY DEF WalkReachesRest, SchedulerFree, loopVars
<1>8. QED BY <1>1, <1>2, <1>3, <1>4, <1>5, <1>6, <1>7 DEF SyncIInv

LEMMA OnTimerKeepsInvariant ==
    ASSUME SyncIInv, NEW t \in Threads, OnTimer(t) PROVE SyncIInv'
    BY CancelledWaitKeepsInvariant DEF OnTimer

LEMMA WaitCancelKeepsInvariant ==
    ASSUME SyncIInv, NEW t \in Threads, WaitCancel(t) PROVE SyncIInv'
<1>1. CASE waiting[t] /\ cancellable[t]
    BY <1>1, CancelledWaitKeepsInvariant DEF WaitCancel
<1>2. CASE ~(waiting[t] /\ cancellable[t])
  <2>1. /\ waitCancelled' = [waitCancelled EXCEPT ![t] = TRUE]
        /\ UNCHANGED <<signaled, list, staleNext, pc, waiting, objects, syncedIndex, result,
                       cancellable, terminationRequested, notifying, cursor>>
        /\ SchedulerFree
    BY <1>2 DEF WaitCancel, loopVars, listVars
  <2>2. TypeOK'
    BY <2>1 DEF SyncIInv, TypeOK
  <2>3. CancelIsNotLost'
    BY <1>2, <2>1 DEF SyncIInv, TypeOK, CancelIsNotLost
  <2>4. NodesOfSleepersAreLinked' /\ SleepersHaveNoResult'
    BY <2>1 DEF SyncIInv, NodesOfSleepersAreLinked, SleepersHaveNoResult
  <2>5. SignaledObjectHasNoSleepers' /\ IndexNamesObject' /\ WalkReachesRest'
    BY <2>1 DEF SyncIInv, SignaledObjectHasNoSleepers, IndexNamesObject, WalkReachesRest,
                SchedulerFree
  <2>6. QED BY <2>2, <2>3, <2>4, <2>5 DEF SyncIInv
<1>3. QED BY <1>1, <1>2

LEMMA RequestTerminateKeepsInvariant ==
    ASSUME SyncIInv, NEW t \in Threads, RequestTerminate(t) PROVE SyncIInv'
<1>1. CASE waiting[t]
    BY <1>1, CancelledWaitKeepsInvariant DEF RequestTerminate
<1>2. CASE ~waiting[t]
  <2>1. /\ terminationRequested' = [terminationRequested EXCEPT ![t] = TRUE]
        /\ UNCHANGED <<signaled, list, staleNext, pc, waiting, objects, syncedIndex, result,
                       cancellable, waitCancelled, notifying, cursor>>
        /\ SchedulerFree
    BY <1>2 DEF RequestTerminate, loopVars, listVars
  <2>2. TypeOK'
    BY <2>1 DEF SyncIInv, TypeOK
  <2>3. CancelIsNotLost'
    BY <1>2, <2>1 DEF SyncIInv, TypeOK, CancelIsNotLost
  <2>4. NodesOfSleepersAreLinked' /\ SleepersHaveNoResult'
    BY <2>1 DEF SyncIInv, NodesOfSleepersAreLinked, SleepersHaveNoResult
  <2>5. SignaledObjectHasNoSleepers' /\ IndexNamesObject' /\ WalkReachesRest'
    BY <2>1 DEF SyncIInv, SignaledObjectHasNoSleepers, IndexNamesObject, WalkReachesRest,
                SchedulerFree
  <2>6. QED BY <2>2, <2>3, <2>4, <2>5 DEF SyncIInv
<1>3. QED BY <1>1, <1>2

\* Wait that returns at once links nothing; its index is that of the first
\* signalled object.
LEMMA ReturnAtOnceKeepsInvariant ==
    ASSUME SyncIInv, NEW t \in Threads, NEW os \in ObjectLists, pc[t] = "run",
           NEW r \in {"Success", "TimedOut", "Cancelled", "TerminationRequested"},
           NEW index \in 0 .. MaxObjects, ReturnAtOnce(t, os, r, index), SchedulerFree,
           r = "Success" => /\ index \in DOMAIN os
                            /\ \A j \in 1 .. index - 1 : os[j] # os[index],
           UNCHANGED waitCancelled \/ waitCancelled' = [waitCancelled EXCEPT ![t] = FALSE],
           UNCHANGED <<signaled, terminationRequested, loopVars>>
    PROVE  SyncIInv'
<1>1. /\ pc' = [pc EXCEPT ![t] = "sync"]
      /\ objects' = [objects EXCEPT ![t] = os]
      /\ result' = [result EXCEPT ![t] = r]
      /\ syncedIndex' = [syncedIndex EXCEPT ![t] = index]
      /\ UNCHANGED <<list, staleNext, waiting, cancellable, signaled, terminationRequested,
                     notifying, cursor>>
    BY DEF ReturnAtOnce, listVars, loopVars
<1>2. ~waiting[t]
    BY DEF SyncIInv, SleepersHaveNoResult
<1>3. TypeOK'
    BY <1>1 DEF SyncIInv, TypeOK
<1>4. \A u \in Threads : u # t => pc'[u] = pc[u] /\ objects'[u] = objects[u]
    BY <1>1 DEF SyncIInv, TypeOK
<1>5. NodesOfSleepersAreLinked'
    BY <1>1, <1>2, <1>4, NodeIsPair DEF SyncIInv, NodesOfSleepersAreLinked
<1>6. SleepersHaveNoResult'
    BY <1>1, <1>2 DEF SyncIInv, TypeOK, SleepersHaveNoResult
<1>7. CancelIsNotLost'
    BY <1>1, <1>2 DEF SyncIInv, TypeOK, CancelIsNotLost
<1>8. SignaledObjectHasNoSleepers' /\ WalkReachesRest'
    BY <1>1 DEF SyncIInv, SignaledObjectHasNoSleepers, WalkReachesRest, SchedulerFree
<1>9. IndexNamesObject'
  <2>1. SUFFICES ASSUME NEW u \in Threads, pc'[u] = "sync", result'[u] = "Success"
                 PROVE  /\ syncedIndex'[u] \in DOMAIN objects'[u]
                        /\ \A j \in 1 .. syncedIndex'[u] - 1 :
                              objects'[u][j] # objects'[u][syncedIndex'[u]]
    BY DEF IndexNamesObject
  <2>2. CASE u = t
    <3>1. r = "Success" /\ syncedIndex'[u] = index /\ objects'[u] = os
      BY <1>1, <2>1, <2>2 DEF SyncIInv, TypeOK
    <3>2. QED BY <3>1
  <2>3. CASE u # t
    <3>1. /\ pc[u] = "sync" /\ result[u] = "Success"
          /\ syncedIndex'[u] = syncedIndex[u] /\ objects'[u] = objects[u]
      BY <1>1, <2>1, <2>3 DEF SyncIInv, TypeOK
    <3>2. QED BY <3>1 DEF SyncIInv, IndexNamesObject
  <2>4. QED BY <2>2, <2>3
<1>10. QED BY <1>3, <1>5, <1>6, <1>7, <1>8, <1>9 DEF SyncIInv

\* Wait that goes to sleep links the thread's nodes, into lists of objects that
\* are not signalled.
LEMMA GoToSleepKeepsInvariant ==
    ASSUME SyncIInv, NEW t \in Threads, NEW os \in ObjectLists, pc[t] = "run",
           ~terminationRequested[t], ~waitCancelled[t],
           \A i \in DOMAIN os : ~signaled[os[i]],
           LinkNodes(t, os),
           cancellable' = [cancellable EXCEPT ![t] = TRUE],
           syncedIndex' = [syncedIndex EXCEPT ![t] = 0],
           objects' = [objects EXCEPT ![t] = os],
           waiting' = [waiting EXCEPT ![t] = TRUE],
           pc' = [pc EXCEPT ![t] = "sync"],
           UNCHANGED <<staleNext, result, waitCancelled, signaled, terminationRequested,
                       notifying, cursor>>,
           SchedulerFree
    PROVE  SyncIInv'
<1>1. list \in [Objects -> Seq(Nodes)] /\ ~waiting[t] /\ result[t] = "None"
    BY DEF SyncIInv, TypeOK, SleepersHaveNoResult
<1>2. /\ \A o \in Objects : Distinct(list[o])
      /\ \A o \in Objects, n \in Nodes : In(n, list[o]) => n[1] # t
    BY <1>1 DEF SyncIInv, NodesOfSleepersAreLinked
<1>3. /\ list' \in [Objects -> Seq(Nodes)]
      /\ \A o \in Objects, n \in Nodes :
            In(n, list'[o]) <=>
               In(n, list[o]) \/ (n[1] = t /\ n[2] \in DOMAIN os /\ os[n[2]] = o)
      /\ \A o \in Objects : Distinct(list'[o])
      /\ \A o \in Objects : (\A i \in DOMAIN os : os[i] # o) => list'[o] = list[o]
    BY <1>1, <1>2, LinkedLists
<1>4. TypeOK'
    BY <1>3, MaxObjectsAssumption DEF SyncIInv, TypeOK
<1>5. /\ pc'[t] = "sync" /\ waiting'[t] /\ objects'[t] = os
      /\ \A u \in Threads : u # t =>
            pc'[u] = pc[u] /\ waiting'[u] = waiting[u] /\ objects'[u] = objects[u]
    BY DEF SyncIInv, TypeOK
<1>6. NodesOfSleepersAreLinked'
  <2>1. ASSUME NEW o \in Objects, NEW n \in Nodes
        PROVE  In(n, list'[o]) <=> /\ waiting'[n[1]] /\ pc'[n[1]] = "sync"
                                   /\ n[2] \in DOMAIN objects'[n[1]]
                                   /\ objects'[n[1]][n[2]] = o
    <3>1. n[1] \in Threads
      BY NodeIsPair
    <3>2. CASE n[1] = t
      BY <1>2, <1>3, <1>5, <3>2
    <3>3. CASE n[1] # t
      BY <1>3, <1>5, <3>1, <3>3 DEF SyncIInv, NodesOfSleepersAreLinked
    <3>4. QED BY <3>2, <3>3
  <2>2. QED BY <1>3, <2>1 DEF NodesOfSleepersAreLinked
<1>7. SleepersHaveNoResult'
    BY <1>1, <1>5 DEF SyncIInv, SleepersHaveNoResult
<1>8. CancelIsNotLost'
    BY <1>5 DEF SyncIInv, TypeOK, CancelIsNotLost
<1>9. SignaledObjectHasNoSleepers'
  <2>1. SUFFICES ASSUME NEW o \in Objects, signaled[o], notifying # o
                 PROVE  list'[o] = <<>>
    BY DEF SignaledObjectHasNoSleepers
  <2>2. \A i \in DOMAIN os : os[i] # o
    BY <2>1
  <2>3. QED BY <1>3, <2>1, <2>2 DEF SyncIInv, SignaledObjectHasNoSleepers
<1>10. IndexNamesObject'
    BY <1>1, <1>5 DEF SyncIInv, TypeOK, IndexNamesObject
<1>11. WalkReachesRest'
    BY DEF WalkReachesRest, SchedulerFree
<1>12. QED BY <1>4, <1>6, <1>7, <1>8, <1>9, <1>10, <1>11 DEF SyncIInv

LEMMA WaitKeepsInvariant ==
    ASSUME SyncIInv, NEW t \in Threads, NEW os \in ObjectLists, NEW poll \in BOOLEAN,
           Wait(t, os, poll)
    PROVE  SyncIInv'
<1> DEFINE ready == {i \in DOMAIN os : signaled[os[i]]}
<1>1. /\ SchedulerFree /\ pc[t] = "run"
      /\ UNCHANGED <<signaled, terminationRequested, loopVars>>
      /\ UNCHANGED <<signaled, terminationRequested, notifying, cursor>>
    BY DEF Wait, loopVars
<1>2. 0 \in 0 .. MaxObjects
    BY MaxObjectsAssumption
<1>3. CASE ReturnAtOnce(t, os, "TerminationRequested", 0) /\ UNCHANGED waitCancelled
    BY <1>1, <1>2, <1>3, ReturnAtOnceKeepsInvariant
<1>4. CASE ready # {} /\ ReturnAtOnce(t, os, "Success", FirstIndex(ready)) /\ UNCHANGED waitCancelled
  <2>1. DOMAIN os \subseteq 1 .. MaxObjects /\ \E n \in 0 .. MaxObjects : DOMAIN os = 1 .. n
    BY ObjectListType
  <2>2. FirstIndex(ready) \in ready /\ \A j \in ready : FirstIndex(ready) <= j
    BY <1>4, <2>1, FirstIndexIsFirst
  <2> DEFINE first == FirstIndex(ready)
  <2>3. first \in DOMAIN os /\ signaled[os[first]] /\ \A j \in DOMAIN os : signaled[os[j]] => first <= j
    BY <2>2
  <2> HIDE DEF first
  <2>4. first \in 1 .. MaxObjects /\ \A j \in 1 .. first - 1 : j \in DOMAIN os
    BY <2>1, <2>3, MaxObjectsAssumption
  <2>5. \A j \in 1 .. first - 1 : os[j] # os[first]
    BY <2>3, <2>4, MaxObjectsAssumption
  <2>6. first \in 0 .. MaxObjects
    BY <2>4
  <2>7. ReturnAtOnce(t, os, "Success", first)
    BY <1>4 DEF first
  <2>8. QED BY <1>1, <1>4, <2>3, <2>5, <2>6, <2>7, ReturnAtOnceKeepsInvariant
<1>5. CASE ReturnAtOnce(t, os, "TimedOut", 0) /\ UNCHANGED waitCancelled
    BY <1>1, <1>2, <1>5, ReturnAtOnceKeepsInvariant
<1>6. CASE ReturnAtOnce(t, os, "Cancelled", 0) /\ waitCancelled' = [waitCancelled EXCEPT ![t] = FALSE]
    BY <1>1, <1>2, <1>6, ReturnAtOnceKeepsInvariant
<1>7. CASE /\ ~IsTerminationRequested(t) /\ ready = {} /\ ~IsWaitCancelled(t)
           /\ LinkNodes(t, os)
           /\ cancellable' = [cancellable EXCEPT ![t] = TRUE]
           /\ syncedIndex' = [syncedIndex EXCEPT ![t] = 0]
           /\ objects' = [objects EXCEPT ![t] = os]
           /\ waiting' = [waiting EXCEPT ![t] = TRUE]
           /\ pc' = [pc EXCEPT ![t] = "sync"]
           /\ UNCHANGED <<staleNext, result, waitCancelled>>
  <2>1. /\ ~terminationRequested[t] /\ ~waitCancelled[t]
        /\ \A i \in DOMAIN os : ~signaled[os[i]]
    BY <1>7 DEF IsTerminationRequested, IsWaitCancelled
  <2>2. QED BY <1>1, <1>7, <2>1, GoToSleepKeepsInvariant
<1>8. QED BY <1>3, <1>4, <1>5, <1>6, <1>7 DEF Wait

LEMMA WaitReturnsKeepsInvariant ==
    ASSUME SyncIInv, NEW t \in Threads, WaitReturns(t) PROVE SyncIInv'
<1>1. /\ SchedulerFree /\ ~waiting[t]
      /\ pc' = [pc EXCEPT ![t] = "run"]
      /\ objects' = [objects EXCEPT ![t] = <<>>]
      /\ syncedIndex' = [syncedIndex EXCEPT ![t] = 0]
      /\ result' = [result EXCEPT ![t] = "None"]
      /\ UNCHANGED <<signaled, list, staleNext, notifying, cursor, waiting, cancellable,
                     waitCancelled, terminationRequested>>
    BY DEF WaitReturns, listVars, loopVars
<1>2. TypeOK'
    BY <1>1, NoObjectsIsList, MaxObjectsAssumption DEF SyncIInv, TypeOK
<1>3. \A u \in Threads : u # t => pc'[u] = pc[u] /\ objects'[u] = objects[u]
    BY <1>1 DEF SyncIInv, TypeOK
<1>4. NodesOfSleepersAreLinked'
    BY <1>1, <1>3, NodeIsPair DEF SyncIInv, NodesOfSleepersAreLinked
<1>5. SleepersHaveNoResult' /\ CancelIsNotLost'
    BY <1>1 DEF SyncIInv, TypeOK, SleepersHaveNoResult, CancelIsNotLost
<1>6. SignaledObjectHasNoSleepers' /\ WalkReachesRest'
    BY <1>1 DEF SyncIInv, SignaledObjectHasNoSleepers, WalkReachesRest, SchedulerFree
<1>7. IndexNamesObject'
    BY <1>1 DEF SyncIInv, TypeOK, IndexNamesObject
<1>8. QED BY <1>2, <1>4, <1>5, <1>6, <1>7 DEF SyncIInv

LEMMA OtherWaitKeepsInvariant ==
    ASSUME SyncIInv, NEW t \in Threads, OtherWait(t) PROVE SyncIInv'
<1>1. /\ SchedulerFree /\ pc[t] = "run" /\ ~terminationRequested[t]
      /\ waiting' = [waiting EXCEPT ![t] = TRUE]
      /\ pc' = [pc EXCEPT ![t] = "other"]
      /\ UNCHANGED <<signaled, list, staleNext, notifying, cursor, objects, syncedIndex,
                     result, cancellable, waitCancelled, terminationRequested>>
    BY DEF OtherWait, listVars, loopVars
<1>2. TypeOK'
    BY <1>1 DEF SyncIInv, TypeOK
<1>3. \A u \in Threads : (waiting'[u] /\ pc'[u] = "sync") <=> (waiting[u] /\ pc[u] = "sync")
    BY <1>1 DEF SyncIInv, TypeOK
<1>4. NodesOfSleepersAreLinked'
    BY <1>1, <1>3, NodeIsPair DEF SyncIInv, NodesOfSleepersAreLinked
<1>5. SleepersHaveNoResult' /\ CancelIsNotLost'
    BY <1>1, <1>3 DEF SyncIInv, TypeOK, SleepersHaveNoResult, CancelIsNotLost
<1>6. SignaledObjectHasNoSleepers' /\ WalkReachesRest'
    BY <1>1 DEF SyncIInv, SignaledObjectHasNoSleepers, WalkReachesRest, SchedulerFree
<1>7. IndexNamesObject'
    BY <1>1 DEF SyncIInv, TypeOK, IndexNamesObject
<1>8. QED BY <1>2, <1>4, <1>5, <1>6, <1>7 DEF SyncIInv

-----------------------------------------------------------------------------
(* Signals *)

\* A linked node is one of a thread asleep in Wait for that object.
LEMMA LinkedNode ==
    ASSUME TypeOK, NodesOfSleepersAreLinked, NEW o \in Objects, NEW i \in 1 .. Len(list[o])
    PROVE  LET n == list[o][i]
           IN  /\ n \in Nodes /\ In(n, list[o])
               /\ waiting[n[1]] /\ pc[n[1]] = "sync"
               /\ n[2] \in DOMAIN objects[n[1]] /\ objects[n[1]][n[2]] = o
<1>1. list[o] \in Seq(Nodes)
    BY DEF TypeOK
<1>2. list[o][i] \in Nodes
    BY <1>1
<1>3. In(list[o][i], list[o])
    BY DEF In
<1>4. QED BY <1>2, <1>3 DEF NodesOfSleepersAreLinked

LEMMA SignalKeepsInvariant ==
    ASSUME SyncIInv, NEW o \in Objects, Signal(o) PROVE SyncIInv'
<1>1. /\ notifying = NoObject
      /\ signaled' = [signaled EXCEPT ![o] = TRUE]
      /\ UNCHANGED <<list, staleNext, pc, waiting, objects, syncedIndex, result, cancellable,
                     waitCancelled, terminationRequested>>
    BY DEF Signal, SchedulerFree, listVars, threadVars
<1>2. /\ NodesOfSleepersAreLinked' /\ SleepersHaveNoResult' /\ CancelIsNotLost'
      /\ IndexNamesObject'
    BY <1>1 DEF SyncIInv, NodesOfSleepersAreLinked, SleepersHaveNoResult, CancelIsNotLost,
                IndexNamesObject
<1>3. signaled'[o] /\ \A x \in Objects : x # o => signaled'[x] = signaled[x]
    BY <1>1 DEF SyncIInv, TypeOK
<1>4. CASE list[o] = <<>> /\ UNCHANGED loopVars
  <2>1. TypeOK'
    BY <1>1, <1>4 DEF SyncIInv, TypeOK, loopVars
  <2>2. SignaledObjectHasNoSleepers'
    BY <1>1, <1>3, <1>4, NullAssumption DEF SyncIInv, SignaledObjectHasNoSleepers, loopVars
  <2>3. WalkReachesRest'
    BY <1>1, <1>4 DEF WalkReachesRest, loopVars
  <2>4. QED BY <1>2, <2>1, <2>2, <2>3 DEF SyncIInv
<1>5. CASE list[o] # <<>> /\ notifying' = o /\ cursor' = Head(list[o])
  <2>1. list[o] \in Seq(Nodes)
    BY DEF SyncIInv, TypeOK
  <2>2. 1 \in 1 .. Len(list[o]) /\ cursor' = list[o][1]
    BY <1>5, <2>1
  <2>3. /\ cursor' \in Nodes /\ In(cursor', list[o])
        /\ pc[cursor'[1]] = "sync"
        /\ cursor'[2] \in DOMAIN objects[cursor'[1]] /\ objects[cursor'[1]][cursor'[2]] = o
    BY <2>2, LinkedNode DEF SyncIInv
  <2>4. TypeOK'
    BY <1>1, <1>5, <2>3 DEF SyncIInv, TypeOK
  <2>5. SignaledObjectHasNoSleepers'
    BY <1>1, <1>3, <1>5, NullAssumption DEF SyncIInv, SignaledObjectHasNoSleepers
  <2>6. WalkReachesRest'
    BY <1>1, <1>3, <1>5, <2>2, <2>3 DEF WalkReachesRest, IsOfNotifying
  <2>7. QED BY <1>2, <2>4, <2>5, <2>6 DEF SyncIInv
<1>6. QED BY <1>4, <1>5 DEF Signal

LEMMA ResetKeepsInvariant ==
    ASSUME SyncIInv, NEW o \in Objects, Reset(o) PROVE SyncIInv'
<1>1. /\ notifying = NoObject
      /\ signaled' = [signaled EXCEPT ![o] = FALSE]
      /\ UNCHANGED <<list, staleNext, pc, waiting, objects, syncedIndex, result, cancellable,
                     waitCancelled, terminationRequested, notifying, cursor>>
    BY DEF Reset, SchedulerFree, listVars, threadVars, loopVars
<1>2. TypeOK' /\ SignaledObjectHasNoSleepers' /\ WalkReachesRest'
    BY <1>1 DEF SyncIInv, TypeOK, SignaledObjectHasNoSleepers, WalkReachesRest
<1>3. /\ NodesOfSleepersAreLinked' /\ SleepersHaveNoResult' /\ CancelIsNotLost'
      /\ IndexNamesObject'
    BY <1>1 DEF SyncIInv, NodesOfSleepersAreLinked, SleepersHaveNoResult, CancelIsNotLost,
                IndexNamesObject
<1>4. QED BY <1>2, <1>3 DEF SyncIInv

\* NotifyAvailable has stepped from the cursor to next: it goes on there, or ends
\* and then nobody sleeps on the object any more.
LEMMA WalkGoesOn ==
    ASSUME SyncIInv, notifying \in Objects, notifying' \in {notifying, NoObject},
           signaled' = signaled,
           \A o \in Objects : list[o] = <<>> => list'[o] = <<>>,
           notifying' = NoObject => list'[notifying] = <<>>
    PROVE  SignaledObjectHasNoSleepers'
<1>1. SUFFICES ASSUME NEW o \in Objects, signaled[o], notifying' # o PROVE list'[o] = <<>>
    BY DEF SignaledObjectHasNoSleepers
<1>2. CASE o = notifying
    BY <1>1, <1>2, NullAssumption
<1>3. CASE o # notifying
    BY <1>1, <1>3 DEF SyncIInv, SignaledObjectHasNoSleepers
<1>4. QED BY <1>2, <1>3

\* The cursor stands on a node of a thread that has been woken by an earlier node.
LEMMA SkipWokenThread ==
    ASSUME SyncIInv, NotifyAvailable, ~waiting[cursor[1]]
    PROVE  SyncIInv'
<1> DEFINE t == cursor[1]
           s == list[notifying]
<1>1. /\ notifying \in Objects /\ cursor \in Nodes /\ signaled[notifying]
      /\ pc[t] = "sync" /\ IsOfNotifying(cursor, t)
    BY DEF SyncIInv, TypeOK, WalkReachesRest, NotifyAvailable
<1>2. /\ UNCHANGED <<signaled, pc, objects, waitCancelled, terminationRequested, list,
                     syncedIndex, cancellable, result, waiting>>
      /\ cursor' = NextOf(cursor, s, staleNext)
      /\ \/ cursor' # NoNode /\ staleNext' = staleNext /\ notifying' = notifying
         \/ cursor' = NoNode /\ notifying' = NoObject /\ staleNext' = [n \in Nodes |-> NoNode]
    BY DEF NotifyAvailable
<1>3. \A n \in Nodes : n[1] = t => ~In(n, s)
    BY <1>1 DEF SyncIInv, NodesOfSleepersAreLinked
<1>4. cursor' = staleNext[cursor]
    BY <1>1, <1>2, <1>3 DEF NextOf
<1>5. PICK k \in Nat \ {0} : \E path \in [1 .. k -> Nodes] : LeadsToRest(k, path)
    BY <1>1, <1>3, NullAssumption DEF SyncIInv, WalkReachesRest
<1>6. PICK path \in [1 .. k -> Nodes] : LeadsToRest(k, path)
    BY <1>5
<1>7. s \in Seq(Nodes)
    BY <1>1 DEF SyncIInv, TypeOK
<1>8. cursor' \in Nodes \cup {NoNode}
    BY <1>1, <1>4 DEF SyncIInv, TypeOK
<1>9. TypeOK'
    BY <1>1, <1>2, <1>8 DEF SyncIInv, TypeOK
<1>10. /\ NodesOfSleepersAreLinked' /\ SleepersHaveNoResult' /\ CancelIsNotLost'
       /\ IndexNamesObject'
    BY <1>2 DEF SyncIInv, NodesOfSleepersAreLinked, SleepersHaveNoResult, CancelIsNotLost,
                IndexNamesObject
<1>11. CASE k = 1
  <2>1. cursor' = RestOfWalk
    BY <1>4, <1>6, <1>11 DEF LeadsToRest
  <2>2. CASE s = <<>>
    <3>1. cursor' = NoNode /\ notifying' = NoObject
      BY <1>2, <2>1, <2>2 DEF RestOfWalk
    <3>2. SignaledObjectHasNoSleepers'
      BY <1>1, <1>2, <2>2, <3>1, WalkGoesOn
    <3>3. WalkReachesRest'
      BY <3>1 DEF WalkReachesRest
    <3>4. QED BY <1>9, <1>10, <3>2, <3>3 DEF SyncIInv
  <2>3. CASE s # <<>>
    <3>1. 1 \in 1 .. Len(s) /\ cursor' = s[1]
      BY <1>7, <2>1, <2>3 DEF RestOfWalk
    <3>2. /\ cursor' \in Nodes
          /\ pc[cursor'[1]] = "sync"
          /\ cursor'[2] \in DOMAIN objects[cursor'[1]]
          /\ objects[cursor'[1]][cursor'[2]] = notifying
          /\ In(cursor', s)
      BY <1>1, <3>1, LinkedNode DEF SyncIInv
    <3>3. notifying' = notifying
      BY <1>2, <3>2, NullAssumption
    <3>4. SignaledObjectHasNoSleepers'
      BY <1>1, <1>2, <3>3, WalkGoesOn, NullAssumption
    <3>5. WalkReachesRest'
      BY <1>1, <1>2, <3>1, <3>2, <3>3 DEF WalkReachesRest, IsOfNotifying
    <3>6. QED BY <1>9, <1>10, <3>4, <3>5 DEF SyncIInv
  <2>4. QED BY <2>2, <2>3
<1>12. CASE k # 1
  <2>1. 1 \in 1 .. (k - 1) /\ 1 + 1 \in 1 .. k
    BY <1>12
  <2>2. cursor' = path[1 + 1] /\ cursor' \in Nodes /\ IsOfNotifying(cursor', t)
    BY <1>4, <1>6, <2>1 DEF LeadsToRest
  <2>3. notifying' = notifying /\ staleNext' = staleNext
    BY <1>2, <2>2, NullAssumption
  <2>4. cursor'[1] = t /\ ~In(cursor', s)
    BY <1>3, <2>2 DEF IsOfNotifying
  <2> DEFINE rest == [i \in 1 .. (k - 1) |-> path[i + 1]]
  <2>5. k - 1 \in Nat \ {0} /\ rest \in [1 .. (k - 1) -> Nodes]
    BY <1>12
  <2>6. LeadsToRest(k - 1, rest)'
    <3>1. rest[1] = cursor'
      BY <2>1, <2>2
    <3>2. \A i \in 1 .. (k - 1) : rest[i] = path[i + 1] /\ i + 1 \in 1 .. k
      OBVIOUS
    <3>3. \A i \in 1 .. (k - 1) : IsOfNotifying(rest[i], t)
      BY <1>6, <3>2 DEF LeadsToRest
    <3>4. \A i \in 1 .. (k - 1 - 1) : rest[i + 1] = staleNext[rest[i]]
      <4>1. SUFFICES ASSUME NEW i \in 1 .. (k - 1 - 1) PROVE rest[i + 1] = staleNext[rest[i]]
        OBVIOUS
      <4>2. /\ i \in 1 .. (k - 1) /\ i + 1 \in 1 .. (k - 1)
            /\ rest[i] = path[i + 1] /\ rest[i + 1] = path[(i + 1) + 1]
        OBVIOUS
      <4>3. QED BY <1>6, <4>2 DEF LeadsToRest
    <3>5. staleNext[rest[k - 1]] = RestOfWalk
      BY <1>6, <1>12 DEF LeadsToRest
    <3>6. rest' = rest /\ RestOfWalk' = RestOfWalk
      BY <1>2, <2>3 DEF RestOfWalk
    <3> HIDE DEF rest
    <3>7. \A i \in 1 .. (k - 1) : IsOfNotifying(rest[i], t)'
      BY <1>2, <2>3, <2>4, <3>3, <3>6 DEF IsOfNotifying
    <3>8. QED BY <2>3, <2>4, <3>1, <3>4, <3>5, <3>6, <3>7 DEF LeadsToRest, IsOfNotifying
  <2>7. \E j \in Nat \ {0} : \E q \in [1 .. j -> Nodes] : LeadsToRest(j, q)'
    BY <2>5, <2>6
  <2>8. WalkReachesRest'
    BY <1>1, <1>2, <2>2, <2>3, <2>4, <2>7 DEF WalkReachesRest, IsOfNotifying
  <2>9. SignaledObjectHasNoSleepers'
    BY <1>1, <1>2, <2>3, WalkGoesOn, NullAssumption
  <2>10. QED BY <1>9, <1>10, <2>8, <2>9 DEF SyncIInv
<1>13. QED BY <1>11, <1>12

\* A list without repetition goes on behind its node i at node i + 1.
LEMMA NextInListAt ==
    ASSUME NEW s \in Seq(Nodes), Distinct(s), NEW i \in 1 .. Len(s)
    PROVE  NextInList(s[i], s) = IF i = Len(s) THEN NoNode ELSE s[i + 1]
<1>1. CASE i = Len(s)
  <2>1. \A j \in 1 .. Len(s) - 1 : s[j] # s[i]
    BY <1>1 DEF Distinct
  <2>2. QED BY <1>1, <2>1 DEF NextInList
<1>2. CASE i # Len(s)
  <2>1. i \in 1 .. Len(s) - 1
    BY <1>2
  <2>2. \A j \in 1 .. Len(s) - 1 : s[j] = s[i] => j = i
    BY DEF Distinct
  <2> DEFINE j == CHOOSE j \in 1 .. Len(s) - 1 : s[j] = s[i]
  <2>3. j \in 1 .. Len(s) - 1 /\ s[j] = s[i]
    BY <2>1
  <2>4. j = i
    BY <2>2, <2>3
  <2>5. NextInList(s[i], s) = s[1 + j]
    BY <2>1 DEF NextInList
  <2> HIDE DEF j
  <2>6. QED BY <1>2, <2>4, <2>5
<1>3. QED BY <1>1, <1>2

\* In a list with a node of t at its head there is a first node that is not of t,
\* or all nodes are: it is the head of the list without t.
LEMMA ListWithoutThread ==
    ASSUME NEW s \in Seq(Nodes), s # <<>>, NEW t \in Threads, s[1][1] = t
    PROVE  \E p \in 2 .. Len(s) + 1 :
              /\ \A i \in 1 .. p - 1 : s[i][1] = t
              /\ Keep(s, NodesOfOthers(t)) = <<>> <=> p = Len(s) + 1
              /\ p # Len(s) + 1 => Keep(s, NodesOfOthers(t))[1] = s[p] /\ s[p][1] # t
<1> DEFINE others == {i \in 1 .. Len(s) : s[i][1] # t}
<1>1. Len(s) \in Nat \ {0} /\ \A i \in 1 .. Len(s) : s[i] \in Nodes
    OBVIOUS
<1>2. \A i \in 1 .. Len(s) : s[i] \in NodesOfOthers(t) <=> s[i][1] # t
    BY <1>1, NodeIsPair DEF NodesOfOthers
<1>3. CASE others = {}
  <2>1. Keep(s, NodesOfOthers(t)) = <<>>
    BY <1>2, <1>3, KeepElements
  <2>2. Len(s) + 1 \in 2 .. Len(s) + 1 /\ \A i \in 1 .. (Len(s) + 1) - 1 : s[i][1] = t
    BY <1>1, <1>3
  <2>3. QED BY <2>1, <2>2
<1>4. CASE others # {}
  <2>1. others \in SUBSET Nat
    OBVIOUS
  <2>2. PICK p \in others : \A i \in others : p <= i
    BY <1>4, <2>1, LeastExists, Zenon
  <2>3. p \in 1 .. Len(s) /\ s[p][1] # t /\ \A i \in 1 .. p - 1 : s[i][1] = t
    BY <1>1, <2>2
  <2>4. p \in 2 .. Len(s)
    BY <2>3
  <2>5. Keep(s, NodesOfOthers(t)) # <<>> /\ Keep(s, NodesOfOthers(t))[1] = s[p]
    BY <1>2, <2>3, KeepElements
  <2>6. p \in 2 .. Len(s) + 1 /\ p # Len(s) + 1
    BY <1>1, <2>4
  <2>7. QED BY <2>3, <2>5, <2>6
<1>5. QED BY <1>3, <1>4

\* The cursor stands on the first node of a sleeping thread, which is woken and
\* unlinks all its nodes.
LEMMA WakeThreadOfCursor ==
    ASSUME SyncIInv, NotifyAvailable, waiting[cursor[1]]
    PROVE  SyncIInv'
<1> DEFINE t == cursor[1]
           o == notifying
           s == list[o]
           stale == LeavePointers(t)
           synced == {i \in DOMAIN objects[t] : objects[t][i] = o}
<1>1. /\ o \in Objects /\ o # NoObject /\ cursor \in Nodes /\ signaled[o]
      /\ pc[t] = "sync" /\ IsOfNotifying(cursor, t) /\ t \in Threads
    BY NodeIsPair DEF SyncIInv, TypeOK, WalkReachesRest, NotifyAvailable
<1>2. /\ UnlinkNodes(t)
      /\ syncedIndex' = [syncedIndex EXCEPT ![t] = FirstIndex(synced)]
      /\ cancellable' = [cancellable EXCEPT ![t] = FALSE]
      /\ result' = [result EXCEPT ![t] = "Success"]
      /\ waiting' = [waiting EXCEPT ![t] = FALSE]
      /\ cursor' = NextOf(cursor, list'[o], stale)
      /\ \/ cursor' # NoNode /\ staleNext' = stale /\ notifying' = notifying
         \/ cursor' = NoNode /\ notifying' = NoObject /\ staleNext' = [n \in Nodes |-> NoNode]
      /\ UNCHANGED <<signaled, pc, objects, waitCancelled, terminationRequested>>
    BY DEF NotifyAvailable
<1>3. /\ TypeOK /\ NodesOfSleepersAreLinked
      /\ list \in [Objects -> Seq(Nodes)] /\ objects[t] \in ObjectLists
      /\ s \in Seq(Nodes) /\ Distinct(s)
    BY <1>1 DEF SyncIInv, TypeOK, NodesOfSleepersAreLinked
<1>4. /\ list' \in [Objects -> Seq(Nodes)]
      /\ \A x \in Objects : list'[x] = Keep(list[x], NodesOfOthers(t))
      /\ \A x \in Objects, n \in Nodes : In(n, list'[x]) <=> In(n, list[x]) /\ n[1] # t
      /\ \A x \in Objects : list[x] = <<>> => list'[x] = <<>>
    BY <1>1, <1>2, <1>3, UnlinkedLists
<1>5. NodesOfSleepersAreLinked'
    BY <1>1, <1>2, <1>3, WokenLeavesLists
\* The walk.
<1>6. In(cursor, s) /\ cursor = s[1]
    BY <1>1, <1>3 DEF NodesOfSleepersAreLinked, IsOfNotifying, SyncIInv, WalkReachesRest
<1>7. s # <<>> /\ Len(s) \in Nat \ {0}
    BY <1>3, <1>6 DEF In
<1>second. Len(s) # 1 => 2 \in 1 .. Len(s)
  <2>1. \A n \in Nat \ {0} : n # 1 => 2 \in 1 .. n
    OBVIOUS
  <2>2. Len(s) \in Nat \ {0}
    BY <1>7
  <2> HIDE DEF s
  <2>3. QED BY <2>1, <2>2, Zenon
<1>8. PICK p \in 2 .. Len(s) + 1 :
         /\ \A i \in 1 .. p - 1 : s[i][1] = t
         /\ list'[o] = <<>> <=> p = Len(s) + 1
         /\ p # Len(s) + 1 => list'[o][1] = s[p] /\ s[p][1] # t
  <2>1. s[1][1] = t
    BY <1>6
  <2>2. \E p \in 2 .. Len(s) + 1 :
           /\ \A i \in 1 .. p - 1 : s[i][1] = t
           /\ Keep(s, NodesOfOthers(t)) = <<>> <=> p = Len(s) + 1
           /\ p # Len(s) + 1 => Keep(s, NodesOfOthers(t))[1] = s[p] /\ s[p][1] # t
    <3> HIDE DEF s, t
    <3>1. QED BY <1>1, <1>3, <1>7, <2>1, ListWithoutThread
  <2>3. list'[o] = Keep(s, NodesOfOthers(t))
    BY <1>1, <1>4
  <2>4. QED BY <2>2, <2>3
<1>9. \A i \in 1 .. Len(s) : /\ s[i] \in Nodes /\ In(s[i], s)
                             /\ waiting[s[i][1]] /\ pc[s[i][1]] = "sync"
                             /\ s[i][2] \in DOMAIN objects[s[i][1]]
                             /\ objects[s[i][1]][s[i][2]] = o
    BY <1>1, <1>3, LinkedNode
<1>10. \A i \in 1 .. p - 1 : stale[s[i]] = IF i = Len(s) THEN NoNode ELSE s[i + 1]
  <2>1. SUFFICES ASSUME NEW i \in 1 .. p - 1
                 PROVE  stale[s[i]] = IF i = Len(s) THEN NoNode ELSE s[i + 1]
    OBVIOUS
  <2>2. i \in 1 .. Len(s) /\ s[i][1] = t
    BY <1>7, <1>8
  <2>3. stale[s[i]] = NextInList(s[i], s)
    BY <1>9, <2>2 DEF LeavePointers
  <2>4. QED BY <1>3, <2>2, <2>3, NextInListAt
<1> HIDE DEF s, stale
<1>11. cursor' = IF Len(s) = 1 THEN NoNode ELSE s[2]
  <2>1. ~In(cursor, list'[o])
    BY <1>1, <1>4
  <2>2. cursor' = stale[cursor]
    BY <1>2, <2>1 DEF NextOf
  <2>3. stale[s[1]] = IF 1 = Len(s) THEN NoNode ELSE s[1 + 1]
    <3>1. 1 \in 1 .. p - 1
      BY <1>7
    <3>2. QED BY <1>10, <3>1
  <2>4. QED BY <1>6, <2>2, <2>3
<1>12. stale \in [Nodes -> Nodes \cup {NoNode}]
  <2>1. ASSUME NEW n \in Nodes, NEW x \in Objects PROVE NextInList(n, list[x]) \in Nodes \cup {NoNode}
    <3>1. list[x] \in Seq(Nodes)
      BY <1>3
    <3>2. CASE \E i \in 1 .. Len(list[x]) - 1 : list[x][i] = n
      <4> DEFINE j == CHOOSE i \in 1 .. Len(list[x]) - 1 : list[x][i] = n
      <4>1. j \in 1 .. Len(list[x]) - 1
        BY <3>2
      <4>2. NextInList(n, list[x]) = list[x][1 + j]
        BY <3>2 DEF NextInList
      <4> HIDE DEF j
      <4>3. QED BY <3>1, <4>1, <4>2
    <3>3. CASE ~ \E i \in 1 .. Len(list[x]) - 1 : list[x][i] = n
      BY <3>3 DEF NextInList
    <3>4. QED BY <3>2, <3>3
  <2>2. \A i \in DOMAIN objects[t] : objects[t][i] \in Objects
    BY <1>3, ObjectListType
  <2>3. staleNext \in [Nodes -> Nodes \cup {NoNode}]
    BY <1>3 DEF TypeOK
  <2>4. QED BY <2>1, <2>2, <2>3 DEF LeavePointers, stale
\* The thread.
<1>13. synced \in SUBSET (1 .. MaxObjects) /\ synced # {}
    BY <1>1, <1>3, ObjectListType DEF IsOfNotifying
<1>14. FirstIndex(synced) \in synced /\ \A j \in synced : FirstIndex(synced) <= j
    BY <1>13, FirstIndexIsFirst
<1>15. SleepersHaveNoResult' /\ CancelIsNotLost'
    BY <1>1, <1>2 DEF SyncIInv, TypeOK, SleepersHaveNoResult, CancelIsNotLost
<1>16. IndexNamesObject'
  <2>1. SUFFICES ASSUME NEW u \in Threads, pc[u] = "sync", result'[u] = "Success"
                 PROVE  /\ syncedIndex'[u] \in DOMAIN objects[u]
                        /\ \A j \in 1 .. syncedIndex'[u] - 1 :
                              objects[u][j] # objects[u][syncedIndex'[u]]
    BY <1>2 DEF IndexNamesObject
  <2>2. CASE u = t
    <3> DEFINE first == FirstIndex(synced)
    <3>1. syncedIndex'[u] = first
      BY <1>2, <2>2 DEF SyncIInv, TypeOK
    <3>2. /\ first \in DOMAIN objects[t] /\ objects[t][first] = o /\ first \in 1 .. MaxObjects
          /\ \A j \in DOMAIN objects[t] : objects[t][j] = o => first <= j
      BY <1>13, <1>14
    <3>3. PICK n \in 0 .. MaxObjects : DOMAIN objects[t] = 1 .. n
      BY <1>3, ObjectListType
    <3> HIDE DEF first, synced
    <3>4. \A j \in 1 .. first - 1 : j \in DOMAIN objects[t] /\ ~(first <= j)
      BY <3>2, <3>3, MaxObjectsAssumption
    <3>5. QED BY <2>2, <3>1, <3>2, <3>4
  <2>3. CASE u # t
    <3>1. result[u] = "Success" /\ syncedIndex'[u] = syncedIndex[u]
      BY <1>2, <2>1, <2>3 DEF SyncIInv, TypeOK
    <3>2. QED BY <2>1, <3>1 DEF SyncIInv, IndexNamesObject
  <2>4. QED BY <2>2, <2>3
<1>17. TypeOK'
  <2>index. FirstIndex(synced) \in 1 .. MaxObjects
    BY <1>13, <1>14
  <2>1. FirstIndex(synced) \in 0 .. MaxObjects
    BY <2>index, MaxObjectsAssumption
  <2> HIDE DEF synced
  <2>2. cursor' \in Nodes \cup {NoNode}
    <3>1. Len(s) # 1 => s[2] \in Nodes
      BY <1>9, <1>second
    <3>2. QED BY <1>11, <3>1
  <2>3. staleNext' \in [Nodes -> Nodes \cup {NoNode}]
    BY <1>2, <1>12
  <2>4. /\ syncedIndex' \in [Threads -> 0 .. MaxObjects]
        /\ cancellable' \in [Threads -> BOOLEAN] /\ waiting' \in [Threads -> BOOLEAN]
        /\ result' \in [Threads -> {"None", "Success", "TimedOut", "Cancelled",
                                    "TerminationRequested"}]
    BY <1>2, <1>3, <2>1 DEF TypeOK
  <2>5. notifying' \in Objects \cup {NoObject}
    BY <1>1, <1>2
  <2>6. QED BY <1>2, <1>3, <1>4, <2>2, <2>3, <2>4, <2>5 DEF TypeOK
<1>18. CASE Len(s) = 1
  <2>1. cursor' = NoNode /\ notifying' = NoObject
    BY <1>2, <1>11, <1>18
  <2>2. list'[o] = <<>>
    BY <1>8, <1>18
  <2>3. SignaledObjectHasNoSleepers'
    BY <1>1, <1>2, <1>4, <2>1, <2>2, WalkGoesOn
  <2>4. WalkReachesRest'
    BY <2>1 DEF WalkReachesRest
  <2>5. QED BY <1>5, <1>15, <1>16, <1>17, <2>3, <2>4 DEF SyncIInv
<1>19. CASE Len(s) # 1
  <2>1. 2 \in 1 .. Len(s) /\ cursor' = s[2] /\ cursor' \in Nodes
    <3>1. s[2] \in Nodes
      BY <1>9, <1>19, <1>second
    <3>2. QED BY <1>11, <1>19, <1>second, <3>1
  <2>2. notifying' = o /\ staleNext' = stale
    BY <1>2, <2>1, NullAssumption
  <2>3. SignaledObjectHasNoSleepers'
    BY <1>1, <1>2, <1>4, <2>2, WalkGoesOn
  <2>4. pc'[cursor'[1]] = "sync" /\ IsOfNotifying(cursor, cursor[1])' /\ signaled'[o]
    BY <1>1, <1>2, <1>9, <2>1, <2>2 DEF IsOfNotifying
  <2>5. CASE p = 2
    <3>1. cursor' = list'[o][1] /\ s[2][1] # t
      BY <1>8, <1>19, <2>1, <2>5
    <3>2. In(cursor', list'[o])
      <4>1. In(cursor', list[o])
        BY <1>9, <2>1 DEF s
      <4>2. QED BY <1>1, <1>4, <2>1, <3>1, <4>1
    <3>3. WalkReachesRest'
      BY <2>1, <2>2, <2>4, <3>1, <3>2 DEF WalkReachesRest
    <3>4. QED BY <1>5, <1>15, <1>16, <1>17, <2>3, <3>3 DEF SyncIInv
  <2>6. CASE p # 2
    <3> DEFINE k == p - 2
    <3>1. k \in Nat \ {0} /\ k + 1 = p - 1 /\ p - 1 \in 1 .. Len(s)
      BY <1>7, <2>6
    <3>shift. \A i \in 1 .. k : i + 1 \in 1 .. p - 1 /\ i + 1 \in 1 .. Len(s) /\ s[i + 1] \in Nodes
      BY <1>7, <1>9, <2>6
    <3>3. PICK path \in [1 .. k -> Nodes] : \A i \in 1 .. k : path[i] = s[i + 1]
      <4>1. [i \in 1 .. k |-> s[i + 1]] \in [1 .. k -> Nodes]
        BY <3>shift
      <4>2. QED BY <4>1
    <3>2. \A i \in 1 .. k : i + 1 \in 1 .. p - 1 /\ i + 1 \in 1 .. Len(s) /\ path[i] = s[i + 1]
      BY <3>shift, <3>3
    <3> HIDE DEF k
    <3>4. cursor'[1] = t /\ ~In(cursor', list'[o])
      <4>1. 2 \in 1 .. p - 1
        BY <2>6
      <4>2. QED BY <1>1, <1>4, <1>8, <2>1, <4>1
    <3>5. path[1] = cursor'
      BY <2>1, <3>1, <3>2
    <3>6. \A i \in 1 .. k : IsOfNotifying(path[i], t)
      BY <1>8, <1>9, <3>2 DEF IsOfNotifying
    <3>7. \A i \in 1 .. k - 1 : path[i + 1] = stale[path[i]]
      <4>1. SUFFICES ASSUME NEW i \in 1 .. k - 1 PROVE path[i + 1] = stale[path[i]]
        OBVIOUS
      <4>2. i \in 1 .. k /\ i + 1 \in 1 .. k
        BY <3>1
      <4>3. /\ path[i] = s[i + 1] /\ i + 1 \in 1 .. p - 1
            /\ path[i + 1] = s[(i + 1) + 1] /\ (i + 1) + 1 \in 1 .. Len(s)
        BY <3>2, <4>2
      <4>4. i + 1 # Len(s)
        BY <1>7, <4>3
      <4>5. QED BY <1>10, <4>3, <4>4
    <3>8. stale[path[k]] = IF list'[o] = <<>> THEN NoNode ELSE list'[o][1]
      <4>1. path[k] = s[p - 1]
        BY <3>1, <3>2
      <4>2. stale[s[p - 1]] = IF p - 1 = Len(s) THEN NoNode ELSE s[(p - 1) + 1]
        BY <1>10, <3>1
      <4>3. (p - 1) + 1 = p
        OBVIOUS
      <4>4. QED BY <1>7, <1>8, <4>1, <4>2, <4>3
    <3>9. \A i \in 1 .. k : IsOfNotifying(path[i], t)'
      BY <1>2, <2>2, <3>4, <3>6 DEF IsOfNotifying
    <3>10. \E j \in Nat \ {0} : \E q \in [1 .. j -> Nodes] : LeadsToRest(j, q)'
      <4>1. LeadsToRest(k, path)'
        BY <2>2, <3>4, <3>5, <3>7, <3>8, <3>9 DEF LeadsToRest, RestOfWalk, IsOfNotifying
      <4>2. QED BY <3>1, <3>3, <4>1
    <3>11. WalkReachesRest'
      BY <2>1, <2>2, <2>4, <3>4, <3>10 DEF WalkReachesRest
    <3>12. QED BY <1>5, <1>15, <1>16, <1>17, <2>3, <3>11 DEF SyncIInv
  <2>7. QED BY <2>5, <2>6
<1>20. QED BY <1>18, <1>19

-----------------------------------------------------------------------------
(* The theorems *)

LEMMA SyncInitEstablishes == Init => SyncIInv
<1> SUFFICES ASSUME Init PROVE SyncIInv
    OBVIOUS
<1>1. TypeOK
    BY NoObjectsIsList, MaxObjectsAssumption DEF Init, TypeOK
<1>2. NodesOfSleepersAreLinked
    BY NodeIsPair DEF Init, NodesOfSleepersAreLinked, In, Distinct
<1>3. SleepersHaveNoResult /\ CancelIsNotLost /\ IndexNamesObject
    BY DEF Init, SleepersHaveNoResult, CancelIsNotLost, IndexNamesObject
<1>4. SignaledObjectHasNoSleepers /\ WalkReachesRest
    BY DEF Init, SignaledObjectHasNoSleepers, WalkReachesRest
<1>5. QED BY <1>1, <1>2, <1>3, <1>4 DEF SyncIInv

LEMMA SyncNextKeepsInvariant == SyncIInv /\ [Next]_vars => SyncIInv'
<1> SUFFICES ASSUME SyncIInv, [Next]_vars PROVE SyncIInv'
    OBVIOUS
<1>1. ASSUME NEW t \in Threads, NEW os \in ObjectLists, NEW poll \in BOOLEAN, Wait(t, os, poll)
      PROVE  SyncIInv'
    BY <1>1, WaitKeepsInvariant
<1>2. ASSUME NEW t \in Threads, WaitReturns(t) \/ OtherWait(t) PROVE SyncIInv'
    BY <1>2, WaitReturnsKeepsInvariant, OtherWaitKeepsInvariant
<1>3. ASSUME NEW t \in Threads, OnTimer(t) \/ WaitCancel(t) \/ RequestTerminate(t)
      PROVE  SyncIInv'
    BY <1>3, OnTimerKeepsInvariant, WaitCancelKeepsInvariant, RequestTerminateKeepsInvariant
<1>4. ASSUME NEW o \in Objects, Signal(o) \/ Reset(o) PROVE SyncIInv'
    BY <1>4, SignalKeepsInvariant, ResetKeepsInvariant
<1>5. CASE NotifyAvailable
    BY <1>5, SkipWokenThread, WakeThreadOfCursor
<1>6. CASE UNCHANGED vars
  <2>1. UNCHANGED <<signaled, list, staleNext, pc, waiting, objects, syncedIndex, result,
                    cancellable, waitCancelled, terminationRequested, notifying, cursor>>
    BY <1>6 DEF vars, listVars, threadVars, loopVars
  <2>2. TypeOK' /\ NodesOfSleepersAreLinked' /\ SleepersHaveNoResult' /\ CancelIsNotLost'
    BY <2>1 DEF SyncIInv, TypeOK, NodesOfSleepersAreLinked, SleepersHaveNoResult, CancelIsNotLost
  <2>3. SignaledObjectHasNoSleepers' /\ IndexNamesObject'
    BY <2>1 DEF SyncIInv, SignaledObjectHasNoSleepers, IndexNamesObject
  <2>4. WalkReachesRest'
    BY <2>1 DEF SyncIInv, WalkReachesRest, IsOfNotifying, LeadsToRest, RestOfWalk
  <2>5. QED BY <2>2, <2>3, <2>4 DEF SyncIInv
<1>7. QED BY <1>1, <1>2, <1>3, <1>4, <1>5, <1>6 DEF Next

\* The lists hold exactly the nodes of the threads asleep in Wait, each once and
\* under its object, and NotifyAvailable stands on a node whose thread is still
\* in Wait: UnlinkNode, which has no end test, finds its node.
THEOREM SyncInvHolds == Spec => []SyncInv
<1>1. SyncIInv => SyncInv
    BY DEF SyncIInv, SyncInv, CursorIsAlive, WalkReachesRest
<1>2. QED
    BY <1>1, SyncInitEstablishes, SyncNextKeepsInvariant, PTL DEF Spec

\* No missed signal: when NotifyAvailable is through, nobody sleeps on the object
\* it was called for, although every thread it wakes unlinks nodes before and
\* behind the one it stands on.
THEOREM NobodySleepsOnSignal == Spec => []SignaledObjectHasNoSleepers
<1>1. SyncIInv => SignaledObjectHasNoSleepers
    BY DEF SyncIInv
<1>2. QED
    BY <1>1, SyncInitEstablishes, SyncNextKeepsInvariant, PTL DEF Spec

\* A Wait that succeeds returns the first index of a signalled object, also when
\* it names the object twice.
THEOREM IndexHolds == Spec => []IndexNamesObject
<1>1. SyncIInv => IndexNamesObject
    BY DEF SyncIInv
<1>2. QED
    BY <1>1, SyncInitEstablishes, SyncNextKeepsInvariant, PTL DEF Spec

\* Neither svcCancelSynchronization nor a request to terminate is lost between
\* the check of the flag in Wait and the sleep.
THEOREM CancelHolds == Spec => []CancelIsNotLost
<1>1. SyncIInv => CancelIsNotLost
    BY DEF SyncIInv
<1>2. QED
    BY <1>1, SyncInitEstablishes, SyncNextKeepsInvariant, PTL DEF Spec

===============================================================================
