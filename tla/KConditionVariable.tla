------------------------- MODULE KConditionVariable -------------------------
(***************************************************************************)
(* Guest mutexes and condition variables: Kernel::KConditionVariable       *)
(* (src/nxemu-os/core/hle/kernel/k_condition_variable.cpp) on top of the   *)
(* waiter graph of KThreadWaiters, with the timeout, the termination and   *)
(* the exit of threads that use them.                                      *)
(*                                                                         *)
(* A guest mutex is a word of guest memory: the handle of its owner and    *)
(* the wait mask.  Guests take and release it with a compare-and-swap and  *)
(* call the kernel only when that fails (GuestLock, GuestRecheck and       *)
(* GuestUnlock: the user-mode library, which is not in this repository).   *)
(* The kernel reads and writes the word under the scheduler lock, which    *)
(* guest compare-and-swaps do not take: each access of the kernel to guest *)
(* memory is a step of its own, and the variable section is the thread     *)
(* whose call holds the scheduler lock between two of them.                *)
(*                                                                         *)
(* Threads have valid handles throughout, and guest memory is accessible.  *)
(***************************************************************************)
EXTENDS KThreadWaiters

CONSTANTS
    CvKeys,                     \* addresses of condition variables
    Terminable,                 \* threads that may exit or be terminated
    TerminatingThreadPriority

ASSUME TerminableAssumption == Terminable \subseteq Threads
ASSUME TerminatingPriorityAssumption == TerminatingThreadPriority \in Priorities
ASSUME CvKeysAssumption == NoKey \notin CvKeys
ASSUME OrderedMutexes == UserKeys \subseteq Nat  \* guests nest in one order

VARIABLES
    word,         \* the mutex word: owner handle and wait mask
    cvWord,       \* the has-waiter flag at a condition variable's key
    cvTree,       \* m_tree, one priority-ordered queue per key
    waitingCv,    \* m_condvar_key, or NoKey outside the tree
    pc,           \* where each thread is
    held,         \* mutexes the guest code of a thread believes it holds
    arg,          \* the mutex of the call, m_address_key in a wait
    cvArg,        \* the condition variable of the call
    seen,         \* the owner handle a guest or the kernel read from the word
    state,        \* ThreadState
    timer,        \* does a timer task run for the wait
    result,       \* m_wait_result
    terminationRequested,
    section,      \* the thread whose call holds the scheduler lock
    next,         \* next_value of the call in the section
    target        \* target_thread of Signal, or the thread being terminated

callVars == <<pc, held, arg, cvArg, seen>>
memVars == <<word, cvWord>>
cvVars == <<cvTree, waitingCv>>
threadVars == <<state, timer, result, terminationRequested>>
sectionVars == <<section, next, target>>
vars == <<waiterVars, callVars, memVars, cvVars, threadVars, sectionVars>>

Free == [owner |-> NoThread, waiters |-> FALSE]
Owned(t) == [owner |-> t, waiters |-> FALSE]
Contended(t) == [owner |-> t, waiters |-> TRUE]
Words == [owner : Threads \cup {NoThread}, waiters : BOOLEAN]

CvInit ==
    /\ Init
    /\ word = [m \in UserKeys |-> Free]
    /\ cvWord = [c \in CvKeys |-> 0]
    /\ cvTree = [c \in CvKeys |-> <<>>]
    /\ waitingCv = [t \in Threads |-> NoKey]
    /\ pc = [t \in Threads |-> "run"]
    /\ held = [t \in Threads |-> {}]
    /\ arg = [t \in Threads |-> NoKey]
    /\ cvArg = [t \in Threads |-> NoKey]
    /\ seen = [t \in Threads |-> NoThread]
    /\ state = [t \in Threads |-> "Runnable"]
    /\ timer = [t \in Threads |-> FALSE]
    /\ result = [t \in Threads |-> "Success"]
    /\ terminationRequested = [t \in Threads |-> FALSE]
    /\ section = NoThread
    /\ next = Free
    /\ target = NoThread

SchedulerFree == restoring = NoThread /\ section = NoThread /\ target = NoThread

\* The call of t goes on inside its section, after any RestorePriority.
InSection(t, label) == section = t /\ pc[t] = label /\ restoring = NoThread

Goto(t, label) == pc' = [pc EXCEPT ![t] = label]

\* The call of t goes back to the guest's lock loop.
Recheck(t) == Goto(t, "recheck") /\ seen' = [seen EXCEPT ![t] = NoThread]

\* The call of t is over, its locals are gone.
Leave(t, label) ==
    /\ Goto(t, label)
    /\ arg' = [arg EXCEPT ![t] = NoKey]
    /\ cvArg' = [cvArg EXCEPT ![t] = NoKey]
    /\ seen' = [seen EXCEPT ![t] = NoThread]

-----------------------------------------------------------------------------
(* The guest's mutex library. *)

\* Take a free mutex, or set the wait mask and remember the owner.
CompareExchange(t, m) ==
    \/ /\ word[m] = Free
       /\ word' = [word EXCEPT ![m] = Owned(t)]
       /\ held' = [held EXCEPT ![t] = @ \cup {m}]
       /\ Leave(t, "run")
    \/ /\ word[m] # Free
       /\ word' = [word EXCEPT ![m].waiters = TRUE]
       /\ arg' = [arg EXCEPT ![t] = m]
       /\ seen' = [seen EXCEPT ![t] = word[m].owner]
       /\ Goto(t, "arbitrate")
       /\ UNCHANGED <<held, cvArg>>

GuestLock(t, m) ==
    /\ pc[t] = "run"
    /\ \A h \in held[t] : h < m
    /\ CompareExchange(t, m)
    /\ UNCHANGED <<waiterVars, cvVars, threadVars, sectionVars, cvWord>>

\* After ArbitrateLock the guest looks at the word again: it owns the mutex, or
\* it tries once more.
GuestRecheck(t) ==
    LET m == arg[t]
    IN  /\ pc[t] = "recheck"
        /\ \/ /\ word[m].owner = t
              /\ held' = [held EXCEPT ![t] = @ \cup {m}]
              /\ Leave(t, "run")
              /\ UNCHANGED word
           \/ /\ word[m].owner # t
              /\ CompareExchange(t, m)
        /\ UNCHANGED <<waiterVars, cvVars, threadVars, sectionVars, cvWord>>

GuestUnlock(t, m) ==
    /\ pc[t] = "run"
    /\ m \in held[t]
    /\ held' = [held EXCEPT ![t] = @ \ {m}]
    /\ \/ /\ word[m] = Owned(t)
          /\ word' = [word EXCEPT ![m] = Free]
          /\ UNCHANGED <<pc, arg>>
       \/ /\ word[m] # Owned(t)
          /\ arg' = [arg EXCEPT ![t] = m]
          /\ Goto(t, "unlock")
          /\ UNCHANGED word
    /\ UNCHANGED <<waiterVars, cvVars, threadVars, sectionVars, cvWord, cvArg, seen>>

-----------------------------------------------------------------------------
(* Parts of the kernel calls. *)

\* Mutant: has_waiters is lost.
NextValueNoWaiters(m) == Owned(GetHighestPriorityWaiter(m))

\* The word for the next owner of a contended mutex.
NextValue(m) == [owner |-> GetHighestPriorityWaiter(m), waiters |-> Len(tree[m]) > 1]

\* RemoveUserWaiterByKey and the value for the word that follows from it.
RemoveUserWaiterByKey(t, m) ==
    \/ /\ lockOwner[m] = t
       /\ RemoveWaiterByKey(t, m)
       /\ next' = NextValue(m)
    \/ /\ lockOwner[m] # t
       /\ restoring = NoThread
       /\ next' = Free
       /\ UNCHANGED waiterVars

\* Mutant: only timed waits are ended.
EndTimedWait(n) ==
    LET woken == { u \in {n} \cap Threads : state[u] = "Waiting" /\ timer[u] }
    IN  /\ state' = [u \in Threads |-> IF u \in woken THEN "Runnable" ELSE state[u]]
        /\ timer' = [u \in Threads |-> IF u \in woken THEN FALSE ELSE timer[u]]
        /\ result' = [u \in Threads |-> IF u \in woken THEN "Success" ELSE result[u]]

\* KThread::EndWait of thread n (nobody when n is NoThread).
EndWait(n) ==
    LET woken == { u \in {n} \cap Threads : state[u] = "Waiting" }
    IN  /\ state' = [u \in Threads |-> IF u \in woken THEN "Runnable" ELSE state[u]]
        /\ timer' = [u \in Threads |-> IF u \in woken THEN FALSE ELSE timer[u]]
        /\ result' = [u \in Threads |-> IF u \in woken THEN "Success" ELSE result[u]]

\* Mutant: terminated owners are waited for like others.
NeverTerminated(t) == FALSE

IsTerminated(t) == state[t] = "Terminated"

BeginWait(t, timed) ==
    /\ state' = [state EXCEPT ![t] = "Waiting"]
    /\ timer' = [timer EXCEPT ![t] = timed]
    /\ UNCHANGED result

-----------------------------------------------------------------------------
(* Mutexes *)

\* ArbitrateLock: WaitForAddress up to the test of the word.
WaitForAddress(t) ==
    /\ pc[t] = "arbitrate"
    /\ SchedulerFree
    /\ IF ~terminationRequested[t] /\ word[arg[t]] = Contended(seen[t])
       THEN Goto(t, "attach") /\ section' = t /\ UNCHANGED seen
       ELSE Recheck(t) /\ UNCHANGED section
    /\ UNCHANGED <<waiterVars, memVars, cvVars, threadVars, held, arg, cvArg, next, target>>

\* ... and from there: wait for the owner, or take over what a terminated thread
\* has left locked.
WaitForAddressAttach(t) ==
    LET m == arg[t]
        owner == seen[t]
    IN  /\ InSection(t, "attach")
        /\ section' = NoThread
        /\ \/ /\ IsTerminated(owner)
              /\ word' = [word EXCEPT ![m] = Owned(t)]
              /\ Recheck(t)
              /\ UNCHANGED <<waiterVars, state, timer, result>>
           \/ /\ ~IsTerminated(owner)
              /\ AddWaiter(owner, t, m)
              /\ BeginWait(t, FALSE)
              /\ Goto(t, "waitLock")
              /\ seen' = [seen EXCEPT ![t] = NoThread]
              /\ UNCHANGED word
        /\ UNCHANGED <<cvVars, cvWord, held, arg, cvArg, terminationRequested, next, target>>

\* ArbitrateUnlock.
SignalToAddress(t) ==
    /\ pc[t] = "unlock"
    /\ SchedulerFree
    /\ RemoveUserWaiterByKey(t, arg[t])
    /\ section' = t
    /\ Goto(t, "handover")
    /\ UNCHANGED <<memVars, cvVars, threadVars, held, arg, cvArg, seen, target>>

SignalToAddressWrite(t) ==
    /\ InSection(t, "handover")
    /\ word' = [word EXCEPT ![arg[t]] = next]
    /\ EndWait(next.owner)
    /\ section' = NoThread
    /\ next' = Free
    /\ Leave(t, "run")
    /\ UNCHANGED <<waiterVars, cvVars, cvWord, held, terminationRequested, target>>

-----------------------------------------------------------------------------
(* Condition variables *)

\* WaitProcessWideKeyAtomic: Wait releases the mutex (a thread that is to
\* terminate returns at once and exits) ...
Wait(t, m, c) ==
    /\ pc[t] = "run"
    /\ m \in held[t]
    /\ SchedulerFree
    /\ ~terminationRequested[t]
    /\ RemoveUserWaiterByKey(t, m)
    /\ EndWait(next'.owner)
    /\ arg' = [arg EXCEPT ![t] = m]
    /\ cvArg' = [cvArg EXCEPT ![t] = c]
    /\ held' = [held EXCEPT ![t] = @ \ {m}]
    /\ section' = t
    /\ Goto(t, "enqueue")
    /\ UNCHANGED <<memVars, cvVars, seen, terminationRequested, target>>

\* ... writes the flag and the word (one step: no guest step here reads the flag)
\* and, unless the timeout is zero, waits, with a timer or for ever.
WaitEnqueue(t) ==
    LET c == cvArg[t]
    IN  /\ InSection(t, "enqueue")
        /\ cvWord' = [cvWord EXCEPT ![c] = 1]
        /\ word' = [word EXCEPT ![arg[t]] = next]
        /\ \/ /\ Goto(t, "recheck")
              /\ UNCHANGED <<cvVars, state, timer, result>>
           \/ /\ \E timed \in BOOLEAN : BeginWait(t, timed)
              /\ \E s \in TreeInsert(cvTree[c], t, priority) :
                   cvTree' = [cvTree EXCEPT ![c] = s]
              /\ waitingCv' = [waitingCv EXCEPT ![t] = c]
              /\ Goto(t, "waitCv")
        /\ section' = NoThread
        /\ next' = Free
        /\ UNCHANGED <<waiterVars, held, arg, cvArg, seen, terminationRequested, target>>

\* SignalProcessWideKey, for one waiter or (a count that is not positive) all.
Signal(t, c, label) ==
    /\ pc[t] = "run"
    /\ SchedulerFree
    /\ label \in {"signalOne", "signalAll"}
    /\ section' = t
    /\ cvArg' = [cvArg EXCEPT ![t] = c]
    /\ Goto(t, label)
    /\ UNCHANGED <<waiterVars, memVars, cvVars, threadVars, held, arg, seen, next, target>>

\* UpdateLockAtomic: the new value of a word for the signalled thread w.
UpdateLockAtomic(old, w) == IF old = Free THEN Owned(w) ELSE Contended(old.owner)

\* The loop of Signal takes its next thread; SignalImpl's UpdateLockAtomic.
SignalTake(t) ==
    LET c == cvArg[t]
        w == Head(cvTree[c])
        m == arg[w]
    IN  /\ InSection(t, "signalOne") \/ InSection(t, "signalAll")
        /\ target = NoThread
        /\ cvTree[c] # <<>>
        /\ cvTree' = [cvTree EXCEPT ![c] = Tail(@)]
        /\ waitingCv' = [waitingCv EXCEPT ![w] = NoKey]
        /\ target' = w
        /\ next' = word[m]
        /\ word' = [word EXCEPT ![m] = UpdateLockAtomic(@, w)]
        /\ UNCHANGED <<waiterVars, cvWord, threadVars, callVars, section>>

\* The rest of SignalImpl: the thread has the mutex, or waits for its owner, or
\* takes over from a terminated thread.
SignalImpl(t) ==
    LET w == target
        m == arg[w]
        owner == next.owner
    IN  /\ InSection(t, "signalOne") \/ InSection(t, "signalAll")
        /\ target # NoThread
        /\ target' = NoThread
        /\ next' = Free
        /\ \/ /\ owner = NoThread
              /\ EndWait(w)
              /\ UNCHANGED <<waiterVars, word>>
           \/ /\ owner # NoThread
              /\ IsTerminated(owner)
              /\ word' = [word EXCEPT ![m] = Owned(w)]
              /\ EndWait(w)
              /\ UNCHANGED waiterVars
           \/ /\ owner # NoThread
              /\ ~IsTerminated(owner)
              /\ AddWaiter(owner, w, m)
              /\ UNCHANGED <<word, state, timer, result>>
        /\ Goto(t, IF pc[t] = "signalOne" THEN "signalEnd" ELSE "signalAll")
        /\ UNCHANGED <<cvVars, cvWord, held, arg, cvArg, seen, terminationRequested, section>>

\* Mutant: every Signal clears the flag.
AlwaysClear(c) == 0

FlagAfterSignal(c) == IF cvTree[c] = <<>> THEN 0 ELSE cvWord[c]

\* The loop is over: clear the flag when nobody is left.
SignalEnd(t) ==
    LET c == cvArg[t]
    IN  /\ \/ InSection(t, "signalEnd")
           \/ /\ InSection(t, "signalOne") \/ InSection(t, "signalAll")
              /\ target = NoThread
              /\ cvTree[c] = <<>>
        /\ cvWord' = [cvWord EXCEPT ![c] = FlagAfterSignal(c)]
        /\ section' = NoThread
        /\ Leave(t, "run")
        /\ UNCHANGED <<waiterVars, word, cvVars, threadVars, held, next, target>>

-----------------------------------------------------------------------------
(* The end of a wait, timeouts, termination *)

\* The thread returns to its guest code.  A successful Wait has the mutex; after
\* a timeout the guest locks it again.
WaitEnds(t) ==
    /\ pc[t] \in {"waitLock", "waitCv"}
    /\ state[t] = "Runnable"
    /\ SchedulerFree
    /\ IF pc[t] = "waitCv" /\ result[t] = "Success"
       THEN Leave(t, "run") /\ held' = [held EXCEPT ![t] = @ \cup {arg[t]}]
       ELSE Goto(t, "recheck") /\ UNCHANGED <<held, arg, cvArg, seen>>
    /\ result' = [result EXCEPT ![t] = "Success"]
    /\ UNCHANGED <<waiterVars, memVars, cvVars, sectionVars, state, timer,
                   terminationRequested>>

\* CancelWait of the two thread queues: the waiting thread t leaves the waiters of
\* the mutex' owner and the condition variable's tree, whichever it is in.
CancelWait(t, why) ==
    LET c == waitingCv[t]
    IN  /\ \/ waitingLock[t] # NoKey /\ RemoveWaiter(t)
           \/ waitingLock[t] = NoKey /\ UNCHANGED waiterVars
        /\ \/ /\ c # NoKey
              /\ \E s \in TreeErase(cvTree[c], t) : cvTree' = [cvTree EXCEPT ![c] = s]
              /\ waitingCv' = [waitingCv EXCEPT ![t] = NoKey]
           \/ c = NoKey /\ UNCHANGED cvVars
        /\ state' = [state EXCEPT ![t] = "Runnable"]
        /\ timer' = [timer EXCEPT ![t] = FALSE]
        /\ result' = [result EXCEPT ![t] = why]

OnTimer(t) ==
    /\ SchedulerFree
    /\ timer[t]
    /\ state[t] = "Waiting"
    /\ CancelWait(t, "TimedOut")
    /\ UNCHANGED <<memVars, callVars, sectionVars, terminationRequested>>

\* The first call of RequestTerminate, up to IncreaseBasePriority.
RequestTerminate(t) ==
    /\ SchedulerFree
    /\ t \in Terminable
    /\ ~terminationRequested[t]
    /\ state[t] # "Terminated"
    /\ terminationRequested' = [terminationRequested EXCEPT ![t] = TRUE]
    /\ target' = t
    /\ IF basePriority[t] > TerminatingThreadPriority
       THEN IncreaseBasePriority(t, TerminatingThreadPriority)
       ELSE UNCHANGED waiterVars
    /\ UNCHANGED <<memVars, cvVars, callVars, state, timer, result, section, next>>

\* ... and from there: the wait is cancelled.
TerminateCancelsWait ==
    LET t == target
    IN  /\ section = NoThread
        /\ target # NoThread
        /\ restoring = NoThread
        /\ target' = NoThread
        /\ \/ state[t] = "Waiting" /\ CancelWait(t, "TerminationRequested")
           \/ state[t] # "Waiting" /\ UNCHANGED <<waiterVars, cvVars, state, timer, result>>
        /\ UNCHANGED <<memVars, callVars, terminationRequested, section, next>>

\* A thread exits, of its own accord or, wherever its guest code is, because it
\* was asked to.
Exit(t) ==
    /\ \/ pc[t] = "run"
       \/ pc[t] \in {"arbitrate", "recheck", "unlock"} /\ terminationRequested[t]
    /\ t \in Terminable
    /\ SchedulerFree
    /\ section' = t
    /\ Leave(t, "exit")
    /\ UNCHANGED <<waiterVars, memVars, cvVars, threadVars, held, next, target>>

\* Mutant: one lock is released at most, then none is found.
FindOneUserLock(t) == { m \in UserKeys : lockOwner[m] = t /\ arg[t] = NoKey }

\* FindHeldUserLockKey: the locks it may return.
FindHeldUserLockKey(t) == { m \in UserKeys : lockOwner[m] = t }

\* One round of ReleaseAbandonedUserLocks' loop: its next owner ...
ReleaseAbandonedUserLocks(t, m) ==
    /\ InSection(t, "exit")
    /\ m \in FindHeldUserLockKey(t)
    /\ RemoveUserWaiterByKey(t, m)
    /\ arg' = [arg EXCEPT ![t] = m]
    /\ Goto(t, "exitHandover")
    /\ UNCHANGED <<memVars, cvVars, threadVars, held, cvArg, seen, section, target>>

\* ... gets the mutex.
AbandonedLockWrite(t) ==
    /\ InSection(t, "exitHandover")
    /\ word' = [word EXCEPT ![arg[t]] = next]
    /\ EndWait(next.owner)
    /\ next' = Free
    /\ Goto(t, "exit")
    /\ UNCHANGED <<waiterVars, cvVars, cvWord, held, arg, cvArg, seen,
                   terminationRequested, section, target>>

StartTermination(t) ==
    /\ InSection(t, "exit")
    /\ FindHeldUserLockKey(t) = {}
    /\ state' = [state EXCEPT ![t] = "Terminated"]
    /\ section' = NoThread
    /\ Leave(t, "exited")
    /\ held' = [held EXCEPT ![t] = {}]
    /\ UNCHANGED <<waiterVars, memVars, cvVars, timer, result, terminationRequested,
                   next, target>>

\* svcSetThreadPriority
ChangeBasePriority(t, value) ==
    /\ SchedulerFree
    /\ state[t] # "Terminated"
    /\ SetBasePriority(t, value)
    /\ UNCHANGED <<memVars, cvVars, callVars, threadVars, sectionVars>>

\* BeforeUpdatePriority and AfterUpdatePriority.
MoveInCvTree(t, c) ==
    \E s1 \in TreeErase(cvTree[c], t) :
    \E s2 \in TreeInsert(s1, t, priority') : cvTree' = [cvTree EXCEPT ![c] = s2]

\* One iteration of RestorePriority, which also moves a thread whose priority
\* changes to its new place in a condition variable's tree.
Restore ==
    LET c == waitingCv[restoring]
    IN  /\ RestorePriority
        /\ IF c = NoKey \/ priority'[restoring] = priority[restoring]
           THEN UNCHANGED cvTree
           ELSE MoveInCvTree(restoring, c)
        /\ UNCHANGED <<memVars, waitingCv, callVars, threadVars, sectionVars>>

-----------------------------------------------------------------------------
GuestStep(t) ==
    \/ GuestRecheck(t)
    \/ \E m \in UserKeys : GuestLock(t, m) \/ GuestUnlock(t, m)

\* Calls that enter the scheduler lock.
KernelEntry(t) ==
    \/ WaitForAddress(t) \/ SignalToAddress(t) \/ WaitEnds(t)
    \/ \E m \in UserKeys, c \in CvKeys : Wait(t, m, c)
    \/ \E c \in CvKeys, label \in {"signalOne", "signalAll"} : Signal(t, c, label)
    \/ Exit(t)

\* Steps of a call that is inside.
SectionStep(t) ==
    \/ WaitForAddressAttach(t) \/ SignalToAddressWrite(t) \/ WaitEnqueue(t)
    \/ SignalTake(t) \/ SignalImpl(t) \/ SignalEnd(t)
    \/ \E m \in UserKeys : ReleaseAbandonedUserLocks(t, m)
    \/ AbandonedLockWrite(t) \/ StartTermination(t)

CvNext ==
    \/ \E t \in Threads : GuestStep(t) \/ KernelEntry(t) \/ SectionStep(t)
    \/ \E t \in Threads : OnTimer(t) \/ RequestTerminate(t)
    \/ TerminateCancelsWait
    \/ Restore
    \/ \E t \in Threads, p \in Priorities : ChangeBasePriority(t, p)

CvSpec == CvInit /\ [][CvNext]_vars

\* Sections under the scheduler lock end, threads that may run get to run and
\* get the scheduler lock in the end, a guest leaves its critical sections, and
\* a thread that was asked to terminate does not linger in guest code.
CvFairness ==
    /\ WF_vars(Restore \/ TerminateCancelsWait)
    /\ \A t \in Threads :
         /\ SF_vars(\/ SectionStep(t) \/ GuestRecheck(t) \/ WaitForAddress(t)
                    \/ SignalToAddress(t) \/ WaitEnds(t)
                    \/ terminationRequested[t] /\ Exit(t))
         /\ SF_vars(\E m \in UserKeys : GuestUnlock(t, m))

LiveCvSpec == CvSpec /\ CvFairness

-----------------------------------------------------------------------------
\* A call with these labels is inside the scheduler lock.
SectionPlaces == {"attach", "handover", "enqueue", "signalOne", "signalAll",
                  "signalEnd", "exit", "exitHandover"}
Places == SectionPlaces \cup {"run", "recheck", "arbitrate", "waitLock", "waitCv",
                             "unlock", "exited"}

CvTypeOK ==
    /\ TypeOK
    /\ word \in [UserKeys -> Words]
    /\ cvWord \in [CvKeys -> {0, 1}]
    /\ cvTree \in [CvKeys -> Seq(Threads)]
    /\ waitingCv \in [Threads -> CvKeys \cup {NoKey}]
    /\ pc \in [Threads -> Places]
    /\ held \in [Threads -> SUBSET UserKeys]
    /\ arg \in [Threads -> UserKeys \cup {NoKey}]
    /\ cvArg \in [Threads -> CvKeys \cup {NoKey}]
    /\ seen \in [Threads -> Threads \cup {NoThread}]
    /\ state \in [Threads -> {"Runnable", "Waiting", "Terminated"}]
    /\ timer \in [Threads -> BOOLEAN]
    /\ result \in [Threads -> {"Success", "TimedOut", "TerminationRequested"}]
    /\ terminationRequested \in [Threads -> BOOLEAN]
    /\ section \in Threads \cup {NoThread}
    /\ next \in Words
    /\ target \in Threads \cup {NoThread}

\* Thread t runs guest code or is in a call of it.
InGuest(t) == pc[t] \notin {"exit", "exitHandover", "exited"}

\* A guest that was told it has the mutex (by its own compare-and-swap, by the
\* recheck after ArbitrateLock or by a successful Wait) is the owner that the
\* word names, whoever times out, exits or is terminated meanwhile; no two
\* threads hold a mutex.
HolderOwnsMutex ==
    \A t \in Threads : InGuest(t) => \A m \in held[t] : word[m].owner = t

\* The mutexes implement the abstract one; an exiting thread abandons its own.
AbstractMutexes == INSTANCE Mutex
    WITH Locks <- UserKeys, holders <- [m \in UserKeys |-> { t \in Threads : m \in held[t] }]
GuestMutexIsMutex == AbstractMutexes!Spec

\* The word that the call in the section is going to store.
HandingOver(m) ==
    /\ section # NoThread
    /\ pc[section] \in {"handover", "exitHandover", "enqueue"}
    /\ arg[section] = m
EffectiveWord(m) == IF HandingOver(m) THEN next ELSE word[m]

\* Whenever threads queue for a mutex, the word names the thread they queue on
\* and has the wait mask, so that this thread's unlock enters the kernel.
QueueMatchesWord ==
    \A m \in UserKeys : lockOwner[m] # NoThread =>
        EffectiveWord(m) = Contended(lockOwner[m])

\* No lost wake-up: a thread asleep in WaitForAddress or Wait is in the condition
\* variable's tree, queues for its mutex, or is just being signalled or made
\* the owner.
SleepersAreOwed ==
    \A t \in Threads : state[t] = "Waiting" =>
        \/ pc[t] = "waitCv" /\ waitingCv[t] = cvArg[t]
        \/ pc[t] \in {"waitLock", "waitCv"} /\ waitingLock[t] = arg[t]
        \/ pc[t] = "waitCv" /\ target = t /\ section # NoThread
        \/ HandingOver(arg[t]) /\ next.owner = t

\* A guest may skip SignalProcessWideKey while the flag at the condition
\* variable is zero: whoever waits is announced by the flag, although every
\* Signal may clear it and timeouts never do.
FlagAnnouncesWaiters == \A c \in CvKeys : cvTree[c] # <<>> => cvWord[c] = 1

\* A thread is linked into one tree at most, a condition variable's or a lock's:
\* both use m_condvar_arbiter_tree_node.
NodeInOneTree ==
    /\ \A t \in Threads : waitingCv[t] # NoKey => waitingLock[t] = NoKey
    /\ \A t \in Threads, c \in CvKeys : In(t, cvTree[c]) <=> waitingCv[t] = c
    /\ \A c \in CvKeys : Distinct(cvTree[c])

\* Signal wakes the most urgent thread first, although priorities change while
\* threads wait.
CvTreeSorted == \A c \in CvKeys : Sorted(cvTree[c], priority)

\* Nobody ever queues on a terminated thread, which could not hand the mutex on.
TerminatedOwesNothing ==
    \A m \in UserKeys : lockOwner[m] # NoThread => state[lockOwner[m]] # "Terminated"

\* One call at a time is inside the scheduler lock; a thread is being signalled
\* only by a Signal.
OneSection ==
    /\ \A t \in Threads : pc[t] \in SectionPlaces <=> section = t
    /\ target # NoThread /\ section # NoThread => pc[section] \in {"signalOne", "signalAll"}

\* The wait mask is set only in a word that names an owner.
WordsWellFormed ==
    /\ \A m \in UserKeys : word[m].owner = NoThread => word[m] = Free
    /\ next.owner = NoThread => next = Free

\* A call has its arguments, and its mutex is one that its guest does not hold.
CallsHaveArguments ==
    \A t \in Threads :
        /\ pc[t] \in {"recheck", "arbitrate", "attach", "waitLock", "waitCv", "unlock",
                      "handover", "enqueue", "exitHandover"} => arg[t] \in UserKeys
        /\ pc[t] \in {"enqueue", "waitCv", "signalOne", "signalAll", "signalEnd"} =>
              cvArg[t] \in CvKeys
        /\ pc[t] \in {"arbitrate", "attach"} => seen[t] \in Threads
        /\ InGuest(t) => arg[t] \notin held[t]

\* Only a thread asleep in one of the two calls is linked into a tree, and only
\* into that of the key it gave.
OnlySleepersAreLinked ==
    \A t \in Threads :
        /\ state[t] = "Terminated" <=> pc[t] = "exited"
        /\ state[t] = "Waiting" => pc[t] \in {"waitLock", "waitCv"}
        /\ waitingLock[t] # NoKey => waitingLock[t] = arg[t] /\ state[t] = "Waiting"
        /\ waitingCv[t] # NoKey =>
              waitingCv[t] = cvArg[t] /\ state[t] = "Waiting" /\ pc[t] = "waitCv"

\* The word names a thread until the call in which it gives the mutex up has
\* stored the next owner, and WaitForAddress attaches to the owner it has read.
ReleasingOwns ==
    \A t \in Threads :
        /\ pc[t] \in {"unlock", "handover", "enqueue", "exitHandover"} =>
              word[arg[t]].owner = t
        /\ pc[t] = "attach" => word[arg[t]] = Contended(seen[t])

\* The next owner has left the queue.  It sleeps until the word is its own, but
\* Wait wakes it before it stores the word.
NextOwnerWaits ==
    \A m \in UserKeys : HandingOver(m) =>
        IF next.owner = NoThread THEN pc[section] # "exitHandover"
        ELSE /\ pc[next.owner] \in {"waitLock", "waitCv"} /\ arg[next.owner] = m
             /\ waitingLock[next.owner] = NoKey /\ waitingCv[next.owner] = NoKey
             /\ IF pc[section] = "enqueue"
                THEN state[next.owner] = "Runnable" /\ result[next.owner] = "Success"
                ELSE state[next.owner] = "Waiting"

\* Between UpdateLockAtomic and the rest of SignalImpl the signalled thread is in
\* no tree; the word is its own, or says that it waits for the owner found there.
SignalledGetsMutex ==
    target # NoThread /\ section # NoThread =>
        /\ pc[target] = "waitCv" /\ state[target] = "Waiting"
        /\ waitingLock[target] = NoKey /\ waitingCv[target] = NoKey
        /\ IF next = Free THEN word[arg[target]].owner = target
                          ELSE word[arg[target]] = Contended(next.owner)

\* A Wait that succeeds returns without a look at the word, which is about to name
\* its thread before anybody else can see that it does not.
WokenOwns ==
    \A t \in Threads : pc[t] = "waitCv" /\ state[t] = "Runnable" /\ result[t] = "Success" =>
        EffectiveWord(arg[t]).owner = t

\* Mutex m belongs to thread t, or to a thread that is still in its wait for m.
OwnedOrPassedOn(t, m) ==
    \/ word[m].owner = t
    \/ \E n \in Threads :
         word[m].owner = n /\ pc[n] \in {"waitLock", "waitCv"} /\ arg[n] = m

\* What an exiting thread held is its own still, or belongs to a thread that cannot
\* return from its wait before the exit is through.
LeavingHolds ==
    \A t \in Threads : ~InGuest(t) =>
        \A m \in held[t] : pc[t] # "exited" /\ OwnedOrPassedOn(t, m)

\* Type invariant, with what the calls rely on: the guests' holders, the mutex
\* words, the waiter graph, the condition variables' trees and the calls in
\* progress agree.  It is inductive.
CvInv ==
    /\ CvTypeOK
    /\ WaiterInv
    /\ HolderOwnsMutex
    /\ QueueMatchesWord
    /\ NodeInOneTree
    /\ CvTreeSorted
    /\ TerminatedOwesNothing
    /\ OneSection
    /\ WordsWellFormed
    /\ CallsHaveArguments
    /\ OnlySleepersAreLinked
    /\ ReleasingOwns
    /\ NextOwnerWaits
    /\ SignalledGetsMutex
    /\ WokenOwns
    /\ LeavingHolds

\* A thread that queues for the innermost mutex gets it or stops waiting, even
\* when owners exit without unlocking it (among threads of one priority: a queue
\* of more urgent threads may be served for ever).  An owner of an outer mutex
\* may try for an inner one in vain, as ArbitrateLock lets newcomers win.
QueuedThreadsAreServed ==
    \A t \in Threads, m \in {k \in UserKeys : \A n \in UserKeys : n <= k} :
        waitingLock[t] = m ~> waitingLock[t] # m

=============================================================================
