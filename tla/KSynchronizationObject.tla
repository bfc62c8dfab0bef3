----------------------- MODULE KSynchronizationObject -----------------------
(***************************************************************************)
(* Waiting for several kernel objects at once:                             *)
(* Kernel::KSynchronizationObject (k_synchronization_object.h and .cpp     *)
(* under src/nxemu-os/core/hle/kernel) with KReadableEvent as the object,  *)
(* svcCancelSynchronization (KThread::WaitCancel), timeouts and            *)
(* termination.                                                            *)
(*                                                                         *)
(* A waiting thread links one node, on its own stack, into the list of     *)
(* every object it waits for, twice if it names an object twice.           *)
(* NotifyAvailable walks the list of a signalled object while the threads  *)
(* it notifies unlink all their nodes, the one it stands on included, and  *)
(* goes on through the pointer left in the unlinked node: list is what the *)
(* head pointer reaches, staleNext what unlinked nodes still point to.     *)
(*                                                                         *)
(* Everything runs under the scheduler lock; the loop is modelled one      *)
(* iteration at a time (variables notifying and cursor).                   *)
(***************************************************************************)
EXTENDS Lists

CONSTANTS
    Threads,
    Objects,
    MaxObjects,     \* bound on the objects of one call (ArgumentHandleCountMax)
    NoObject,
    NoNode          \* a null ThreadListNode pointer

ASSUME MaxObjectsAssumption == MaxObjects \in Nat

\* Node i of thread t.
Nodes == Threads \X (1 .. MaxObjects)

ASSUME NullAssumption == NoObject \notin Objects /\ NoNode \notin Nodes

ObjectLists == UNION { [1 .. n -> Objects] : n \in 0 .. MaxObjects }

VARIABLES
    signaled,       \* m_is_signaled
    list,           \* nodes from m_thread_list_head on
    staleNext,      \* next pointer of nodes unlinked in the current NotifyAvailable
    pc,             \* "run", "sync" (in Wait) or "other" (in some other wait)
    waiting,        \* is the thread in state Waiting
    objects,        \* the objects of the thread's Wait
    syncedIndex,    \* m_synced_index, counted from 1; 0 for none
    result,         \* m_wait_result
    cancellable,    \* m_cancellable
    waitCancelled,  \* m_wait_cancelled
    terminationRequested,
    notifying,      \* the object whose NotifyAvailable is running
    cursor          \* its cur_node

listVars == <<list, staleNext>>
threadVars == <<pc, waiting, objects, syncedIndex, result, cancellable, waitCancelled,
                terminationRequested>>
loopVars == <<notifying, cursor>>
vars == <<signaled, listVars, threadVars, loopVars>>

Init ==
    /\ signaled = [o \in Objects |-> FALSE]
    /\ list = [o \in Objects |-> <<>>]
    /\ staleNext = [n \in Nodes |-> NoNode]
    /\ pc = [t \in Threads |-> "run"]
    /\ waiting = [t \in Threads |-> FALSE]
    /\ objects = [t \in Threads |-> <<>>]
    /\ syncedIndex = [t \in Threads |-> 0]
    /\ result = [t \in Threads |-> "None"]
    /\ cancellable = [t \in Threads |-> FALSE]
    /\ waitCancelled = [t \in Threads |-> FALSE]
    /\ terminationRequested = [t \in Threads |-> FALSE]
    /\ notifying = NoObject
    /\ cursor = NoNode

SchedulerFree == notifying = NoObject

-----------------------------------------------------------------------------
(* Node lists *)

NextInList(n, s) ==
    IF \E i \in 1 .. Len(s) - 1 : s[i] = n
    THEN s[1 + CHOOSE i \in 1 .. Len(s) - 1 : s[i] = n] ELSE NoNode

\* Mutant: an unlinked node is taken for the end of the list.
NextWhileIn(n, s, stale) == IF In(n, s) THEN NextInList(n, s) ELSE NoNode

\* cur_node->next, whether or not the node is still in the list s.
NextOf(n, s, stale) == IF In(n, s) THEN NextInList(n, s) ELSE stale[n]

\* Wait's LinkNode calls: the nodes of t at the end of each object's list.
LinkNodes(t, os) ==
    list' = [o \in Objects |->
        list[o] \o Keep([i \in DOMAIN os |-> <<t, i>>], {t} \X {i \in DOMAIN os : os[i] = o})]

\* Mutant: only the first node is unlinked.
UnlinkFirstNode(t) == list' = [o \in Objects |-> Keep(list[o], Nodes \ {<<t, 1>>})]

\* The UnlinkNode calls for the nodes of t.
UnlinkNodes(t) == list' = [o \in Objects |-> Keep(list[o], (Threads \ {t}) \X (1 .. MaxObjects))]

\* They are unlinked in order: each keeps its next pointer as it was when the
\* nodes before it were gone and those behind it were still there.
LeavePointers(t) ==
    LET os == objects[t]
    IN  [n \in Nodes |-> IF n[1] = t /\ n[2] \in DOMAIN os
                         THEN NextInList(n, list[os[n[2]]]) ELSE staleNext[n]]

-----------------------------------------------------------------------------
(* Wait *)

\* Wait returns r without sleeping.
ReturnAtOnce(t, os, r, index) ==
    /\ pc' = [pc EXCEPT ![t] = "sync"]
    /\ objects' = [objects EXCEPT ![t] = os]
    /\ result' = [result EXCEPT ![t] = r]
    /\ syncedIndex' = [syncedIndex EXCEPT ![t] = index]
    /\ UNCHANGED <<listVars, waiting, cancellable>>

\* Mutant: the last index wins.
LastIndex(indices) == CHOOSE i \in indices : \A j \in indices : i >= j

FirstIndex(indices) == CHOOSE i \in indices : \A j \in indices : i <= j

\* Mutant: Wait does not look at the flag.
NoPendingCancel(t) == FALSE

IsWaitCancelled(t) == waitCancelled[t]
IsTerminationRequested(t) == terminationRequested[t]

\* KSynchronizationObject::Wait, from its entry until it returns or sleeps.  The
\* thread is to terminate; an object is signalled; the timeout is zero; a cancel
\* is pending; or the thread has to sleep.
Wait(t, os, poll) ==
    LET ready == { i \in DOMAIN os : signaled[os[i]] }
    IN  /\ SchedulerFree
        /\ pc[t] = "run"
        /\ \/ /\ IsTerminationRequested(t)
              /\ ReturnAtOnce(t, os, "TerminationRequested", 0)
              /\ UNCHANGED waitCancelled
           \/ /\ ~IsTerminationRequested(t) /\ ready # {}
              /\ ReturnAtOnce(t, os, "Success", FirstIndex(ready))
              /\ UNCHANGED waitCancelled
           \/ /\ ~IsTerminationRequested(t) /\ ready = {} /\ poll
              /\ ReturnAtOnce(t, os, "TimedOut", 0)
              /\ UNCHANGED waitCancelled
           \/ /\ ~IsTerminationRequested(t) /\ ready = {} /\ ~poll /\ IsWaitCancelled(t)
              /\ waitCancelled' = [waitCancelled EXCEPT ![t] = FALSE]
              /\ ReturnAtOnce(t, os, "Cancelled", 0)
           \/ /\ ~IsTerminationRequested(t) /\ ready = {} /\ ~poll /\ ~IsWaitCancelled(t)
              /\ LinkNodes(t, os)
              /\ cancellable' = [cancellable EXCEPT ![t] = TRUE]
              /\ syncedIndex' = [syncedIndex EXCEPT ![t] = 0]
              /\ objects' = [objects EXCEPT ![t] = os]
              /\ waiting' = [waiting EXCEPT ![t] = TRUE]
              /\ pc' = [pc EXCEPT ![t] = "sync"]
              /\ UNCHANGED <<staleNext, result, waitCancelled>>
        /\ UNCHANGED <<signaled, terminationRequested, loopVars>>

\* The thread returns from Wait, or from its other wait.
WaitReturns(t) ==
    /\ SchedulerFree
    /\ pc[t] # "run"
    /\ ~waiting[t]
    /\ pc' = [pc EXCEPT ![t] = "run"]
    /\ objects' = [objects EXCEPT ![t] = <<>>]
    /\ syncedIndex' = [syncedIndex EXCEPT ![t] = 0]
    /\ result' = [result EXCEPT ![t] = "None"]
    /\ UNCHANGED <<signaled, listVars, loopVars, waiting, cancellable, waitCancelled,
                   terminationRequested>>

\* A wait that is not cancellable, such as KThread::Sleep.
OtherWait(t) ==
    /\ SchedulerFree
    /\ pc[t] = "run"
    /\ ~terminationRequested[t]
    /\ waiting' = [waiting EXCEPT ![t] = TRUE]
    /\ pc' = [pc EXCEPT ![t] = "other"]
    /\ UNCHANGED <<signaled, listVars, loopVars, objects, syncedIndex, result,
                   cancellable, waitCancelled, terminationRequested>>

\* CancelWait of a thread's queue.
CancelWait(t, why) ==
    /\ waiting' = [waiting EXCEPT ![t] = FALSE]
    /\ result' = [result EXCEPT ![t] = why]
    /\ IF pc[t] = "sync"
       THEN UnlinkNodes(t) /\ cancellable' = [cancellable EXCEPT ![t] = FALSE]
       ELSE UNCHANGED <<list, cancellable>>
    /\ UNCHANGED staleNext

OnTimer(t) ==
    /\ SchedulerFree
    /\ waiting[t]
    /\ CancelWait(t, "TimedOut")
    /\ UNCHANGED <<signaled, loopVars, pc, objects, syncedIndex, waitCancelled,
                   terminationRequested>>

\* svcCancelSynchronization
WaitCancel(t) ==
    /\ SchedulerFree
    /\ IF waiting[t] /\ cancellable[t]
       THEN /\ waitCancelled' = [waitCancelled EXCEPT ![t] = FALSE]
            /\ CancelWait(t, "Cancelled")
       ELSE /\ waitCancelled' = [waitCancelled EXCEPT ![t] = TRUE]
            /\ UNCHANGED <<listVars, waiting, result, cancellable>>
    /\ UNCHANGED <<signaled, loopVars, pc, objects, syncedIndex, terminationRequested>>

RequestTerminate(t) ==
    /\ SchedulerFree
    /\ ~terminationRequested[t]
    /\ terminationRequested' = [terminationRequested EXCEPT ![t] = TRUE]
    /\ IF waiting[t] THEN CancelWait(t, "TerminationRequested")
                     ELSE UNCHANGED <<listVars, waiting, result, cancellable>>
    /\ UNCHANGED <<signaled, loopVars, pc, objects, syncedIndex, waitCancelled>>

-----------------------------------------------------------------------------
(* Signalling *)

\* KReadableEvent::Signal, which starts NotifyAvailable's loop.
Signal(o) ==
    /\ SchedulerFree
    /\ ~signaled[o]
    /\ signaled' = [signaled EXCEPT ![o] = TRUE]
    /\ \/ /\ list[o] # <<>>
          /\ notifying' = o
          /\ cursor' = Head(list[o])
       \/ list[o] = <<>> /\ UNCHANGED loopVars
    /\ UNCHANGED <<listVars, threadVars>>

\* One iteration: KThread::NotifyAvailable of the node's thread, then its next.
NotifyAvailable ==
    LET t == cursor[1]
        os == objects[t]
        synced == { i \in DOMAIN os : os[i] = notifying }
        stale == IF waiting[t] THEN LeavePointers(t) ELSE staleNext
    IN  /\ notifying # NoObject
        /\ IF waiting[t]
           THEN /\ UnlinkNodes(t)
                /\ syncedIndex' = [syncedIndex EXCEPT ![t] = FirstIndex(synced)]
                /\ cancellable' = [cancellable EXCEPT ![t] = FALSE]
                /\ result' = [result EXCEPT ![t] = "Success"]
                /\ waiting' = [waiting EXCEPT ![t] = FALSE]
           ELSE UNCHANGED <<list, syncedIndex, cancellable, result, waiting>>
        /\ cursor' = NextOf(cursor, list'[notifying], stale)
        /\ \/ cursor' # NoNode /\ staleNext' = stale /\ UNCHANGED notifying
           \/ /\ cursor' = NoNode
              /\ notifying' = NoObject
              /\ staleNext' = [n \in Nodes |-> NoNode]
        /\ UNCHANGED <<signaled, pc, objects, waitCancelled, terminationRequested>>

\* KReadableEvent::Reset, and Clear.
Reset(o) ==
    /\ SchedulerFree
    /\ signaled[o]
    /\ signaled' = [signaled EXCEPT ![o] = FALSE]
    /\ UNCHANGED <<listVars, threadVars, loopVars>>

Next ==
    \/ \E t \in Threads, os \in ObjectLists, poll \in BOOLEAN : Wait(t, os, poll)
    \/ \E t \in Threads : WaitReturns(t) \/ OtherWait(t)
    \/ \E t \in Threads : OnTimer(t) \/ WaitCancel(t) \/ RequestTerminate(t)
    \/ \E o \in Objects : Signal(o) \/ Reset(o)
    \/ NotifyAvailable

Spec == Init /\ [][Next]_vars

-----------------------------------------------------------------------------
TypeOK ==
    /\ signaled \in [Objects -> BOOLEAN]
    /\ list \in [Objects -> Seq(Nodes)]
    /\ staleNext \in [Nodes -> Nodes \cup {NoNode}]
    /\ pc \in [Threads -> {"run", "sync", "other"}]
    /\ waiting \in [Threads -> BOOLEAN]
    /\ objects \in [Threads -> ObjectLists]
    /\ syncedIndex \in [Threads -> 0 .. MaxObjects]
    /\ result \in [Threads -> {"None", "Success", "TimedOut", "Cancelled",
                               "TerminationRequested"}]
    /\ cancellable \in [Threads -> BOOLEAN]
    /\ waitCancelled \in [Threads -> BOOLEAN]
    /\ terminationRequested \in [Threads -> BOOLEAN]
    /\ notifying \in Objects \cup {NoObject}
    /\ cursor \in Nodes \cup {NoNode}

\* No missed signal: nobody sleeps on a signalled object once NotifyAvailable is
\* through, although the list changes under its feet.
SignaledObjectHasNoSleepers ==
    \A o \in Objects : signaled[o] /\ notifying # o => list[o] = <<>>

\* Exactly the nodes of sleeping threads are linked, each once and in the list of
\* its object: UnlinkNode, which searches without an end test, always finds its
\* node, and no list holds a node of a stack frame that is gone.
NodesOfSleepersAreLinked ==
    /\ \A o \in Objects : \A n \in Nodes :
         In(n, list[o]) <=>
            /\ waiting[n[1]] /\ pc[n[1]] = "sync"
            /\ n[2] \in DOMAIN objects[n[1]] /\ objects[n[1]][n[2]] = o
    /\ \A o \in Objects : Distinct(list[o])

\* NotifyAvailable stands on a node of a thread that has not returned from Wait.
CursorIsAlive ==
    notifying # NoObject => cursor \in Nodes /\ pc[cursor[1]] = "sync"

\* Type invariant, with the soundness of the lists and of the walk over them.
SyncInv == TypeOK /\ NodesOfSleepersAreLinked /\ CursorIsAlive

\* A successful Wait returns the first index of an object it was given.
IndexNamesObject ==
    \A t \in Threads : pc[t] = "sync" /\ result[t] = "Success" =>
        LET i == syncedIndex[t]
        IN  /\ i \in DOMAIN objects[t]
            /\ \A j \in 1 .. i - 1 : objects[t][j] # objects[t][i]

\* Neither a cancellation nor a termination request is lost: no thread sleeps in
\* Wait while a cancel is pending for it, only threads asleep in Wait are
\* cancellable, and a thread that is to terminate sleeps no more.
CancelIsNotLost ==
    \A t \in Threads :
        /\ cancellable[t] <=> waiting[t] /\ pc[t] = "sync"
        /\ cancellable[t] => ~waitCancelled[t]
        /\ terminationRequested[t] => ~waiting[t]

=============================================================================
