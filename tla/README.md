# A TLA+ model of the NXEmu kernel's scheduling, waiting and waking

NXEmu emulates a console: guest CPU threads run in a recompiler, and the
console's kernel, its services, its GPU and its timers are re-implemented in C++.
The part with its own hard logic is the re-implemented kernel under
`src/nxemu-os/core/hle/kernel`: several guest cores run in host threads, each
guest thread is a host fiber, and kernel objects are shared by all of them.
This project models how kernel threads *are scheduled, wait and are woken*: the
scheduler's decision and how the cores carry it out, light locks, guest mutexes
and condition variables, address arbiters, synchronization objects, timed
waits, the guest's clock, and the priority inheritance, suspension and
termination that cut across them.

All paths below are relative to the repository's `src/nxemu-os/core` unless
they start with `src/`.

## 1. Inventory

| Component | State it keeps | Operations | Hard behaviour | What makes it correct |
|---|---|---|---|---|
| Lock waiters, priority inheritance (`hle/kernel/k_thread.{h,cpp}`) | per thread: base and inherited priority, lock infos held, lock info waited for, number of kernel waiters; per lock info: owner, red-black tree of waiters | `AddWaiter`, `RemoveWaiter`, `RemoveWaiterByKey`, `SetBasePriority`, `IncreaseBasePriority`, `RestorePriority`, `Initialize`, `Finalize` | trees keyed by priorities that change while threads are linked; priority restored only when comparisons ask for it | trees agree with waits, stay sorted; priorities are inherited exactly; counts are right |
| Kernel light locks (`k_light_lock.cpp`) | one atomic tag: owner and waiters bit | `Lock`, `LockSlowPath`, `Unlock`, `UnlockSlowPath`, `IsLockedByCurrentThread` | lock-free fast paths race with slow paths under the scheduler lock; cancelled waits | mutual exclusion, no lost wake-up, hand-over |
| Thread life cycle (`k_thread.cpp`) | thread state, suspend request/allowed flags, termination flag, wait queue and result | `RequestSuspend`, `Resume`, `TrySuspend`, `UpdateState`, `WaitCancel`, `RequestTerminate`, `Exit`, `StartTermination`, `FinishTermination` | requests arrive at any point of a wait | an owner of a contended kernel lock runs; terminating threads do not sleep and leave nobody waiting |
| Guest mutexes, condition variables (`k_condition_variable.cpp`) | mutex word and has-waiter flag in guest memory, tree of condition-variable waiters | `WaitForAddress`, `SignalToAddress`, `Wait`, `Signal`, `ReleaseAbandonedUserLocks`, two `CancelWait`s | guests change the word without any kernel lock; owners exit; one tree node serves two trees | mutual exclusion, no lost wake-up, nobody queues on a dead owner |
| Address arbiter (`k_address_arbiter.cpp`) | tree of waiters by address and priority | `Signal`, `SignalAndIncrementIfEqual`, `SignalAndModifyByWaitingCountIfEqual`, `WaitIfLessThan`, `WaitIfEqual`, `CancelWait` | guest stores between any two calls; signed arithmetic; counting loops | no missed wake-up; the word tells the guest what happened |
| Synchronization objects, events (`k_synchronization_object.{h,cpp}`, `k_readable_event.cpp`) | signal flags, intrusive lists of nodes that live on waiters' stacks | `Wait`, `NotifyAvailable`, `Signal`, `Reset`, `Clear`, `CancelWait` | a list is walked while it is taken apart | no missed signal, no dangling node, right index, no lost cancel |
| Wait queues (`k_thread_queue.cpp`) | the timer of a wait | `EndWait`, `CancelWait`, `NotifyAvailable` | every wait can end in four ways | a wait's timer task ends with it |
| Hardware timer (`k_hardware_timer*.h`, `.cpp`, `k_timer_task.h`, `k_scoped_scheduler_lock_and_sleep.h`) | tree of tasks, next task, wake-up time | `RegisterAbsoluteTask`, `CancelTask`, `DoTask`, `EnableInterrupt`, `DisableInterrupt` | callbacks of the host timing thread race with registration | the first deadline is always armed; no wait ends early, every one ends |
| Core timing thread (`core_timing.cpp`) | event queue, notification, pause flags | `ScheduleEvent`, `UnscheduleEvent`, `Advance`, `ThreadLoop`, pausing, looping events | sleeps and notifications race | the host never oversleeps an event |
| Scheduler (`k_scheduler.cpp`, `k_priority_queue.h`, `k_scheduler_lock.h`) | behind the scheduler lock: scheduled and suggested queue of every core, the thread decided for it, pinned threads; outside it: current thread, `needs_scheduling` and the threads' context guards | `UpdateHighestPriorityThreads`, `OnThreadStateChanged`, `RotateScheduledQueue`, `YieldTo*`, `SetCoreMask`, `Pin`, `Unpin`, `RescheduleCores`, `ScheduleImpl` | a thread moves between the queues of all cores; a decision changes while a core carries out the last one | queues hold what they should; no core idles needlessly; a context is loaded once; no decision is missed |
| Physical cores and interrupts (`physical_core.cpp`, `cpu_manager.cpp`, `k_interrupt_manager.cpp`) | interrupted flag, the running CPU | `RunThread`, `EnterContext`, `ExitContext`, `Interrupt`, `Idle`, `HandleInterrupt` | an interrupt arrives between two looks at the flag | a core with a stale decision is halted |
| Shared CPU clock (`shared_cpu_clock.h`) | a slot per core, masks of active, runnable and compiling cores, pace, published time, sequence number | `Now`, `Begin`, `End`, `SetCompiling`, `Pause`, `SetRunnableMask`, `IsCompilationBlocking` | readers without a lock; the clock stands still while a core compiles | the guest's time is monotonic and not ahead of the least advanced core; sleepers are told when it moves again |
| Light condition variables, resource limits, exit worker (`k_light_condition_variable.cpp`, `k_resource_limit.cpp`, `k_worker_task_manager.cpp`) | wait list; current/limit/hint values; task list | wait/broadcast; reserve with timeout, release; add/execute task | a reservation that times out while released | no over-reservation, waiters retried |
| Sessions and ports (`k_session.cpp`, `k_server_session.cpp`, `k_client_port.cpp`, ...) | request lists, current request, session counts, open flags | connect, accept, send, receive, reply, close | either end closes at any point | each request gets one answer |
| Processes, handle tables (`k_process.cpp`, `k_handle_table.cpp`) | process state, threads, handles, reference counts | run, suspend, exit, terminate | exit with live threads | state machine order, references balance |
| Memory (`k_page_table_base.cpp`, `k_memory_block_manager.cpp`, ...) | block lists, page groups, heaps | map, unmap, set permission | large sequential algorithms under light locks | - |
| Supervisor calls (`svc/`) | none | argument checks | - | - |
| HLE services (`hle/service/`) | per-service | IPC commands | mostly data conversion | - |
| GPU (`src/yuzu_video_core`) | command queue, syncpoints, fences, caches | submit, flush, wait | GPU thread against CPU threads | syncpoint waiters woken |
| CPU recompilers (`src/nxemu-cpu`), loaders (`src/nxemu-loader`), front end (`src/nxemu`) | - | - | - | - |

How they interact. Everything that changes who waits for what runs under the
one *scheduler lock* (`KScopedSchedulerLock`). Four things do not take it, and
that is where the interleavings come from: the compare-and-swaps of light
locks, the guests' accesses to their own memory, the queue of the core timing
thread, and the flags a thread reads before it takes the lock. A fifth starts
where the lock is released: the decision is published word by word, and the
cores act on it without the lock. A blocking call
puts the thread into some tree or list, calls `BeginWait` with a queue object,
and (in the destructor of `KScopedSchedulerLockAndSleep`) registers a timer
task. The wait ends through `EndWait` or `NotifyAvailable` (success) or through
`CancelWait` (timer, `WaitCancel`, `RequestTerminate`), whose overrides take the
thread out of the trees and lists again. Light-lock and guest-mutex waiters go
through `AddWaiter`/`RemoveWaiterByKey` and so change priorities of other
threads, who may be linked in a condition variable's or an arbiter's tree
themselves.

## 2. Modules and how they follow the code

```
PriorityTrees   the trees sorted by a key that threads are linked in
Lists           removing elements from a list
KThreadWaiters  <-- KLightLock          (EXTENDS; light locks, suspension)
                <-- KConditionVariable  (EXTENDS; guest mutexes, condvars, exit)
Mutex           <-- refined by KLightLock and by KConditionVariable
KHardwareTimer          timed waits and the timing thread
KSynchronizationObject  WaitSynchronization and events (Lists)
KAddressArbiter         WaitForAddress and SignalToAddress
KScheduler      <-- ContextSwitch       (EXTENDS; the cores and the switch; Lists)
SharedCpuClock          the guest's clock, compilation and pausing
MC*                     constants for TLC, one module per component

OrderLemmas             lemmas about PriorityTrees, Lists and finite orders
  <-- KThreadWaiters_proofs             (theorems about the waiter graph)
        <-- KLightLock_proofs, KConditionVariable_proofs
  <-- KAddressArbiter_proofs, KSynchronizationObject_proofs
  <-- Timing_proofs                     (KHardwareTimer, SharedCpuClock)
  <-- Scheduling_proofs                 (KScheduler, ContextSwitch)
```

General conventions. A step is what happens atomically to everybody who might
look: one compare-and-swap, one access of the kernel to guest memory, or one
stretch of a scheduler-lock section between two of these. Where a section has
several steps a variable (`section`, `slowOwner`, `terminating`, `restoring`)
names who is inside, and every step that needs the scheduler lock waits for it.
Red-black trees are the sequences of their in-order traversal (`PriorityTrees`,
used by the waiters' trees, the timer's and the arbiter's); equal priorities
keep arrival order, because `Compare` never returns 0. Smaller numbers are more
urgent priorities, as in the code. Left out everywhere: logging, debugging
members, results that change nothing, invalid handles and inaccessible memory.

**KThreadWaiters** (`k_thread.cpp` 338-392, 740-768, 958-1180; `k_thread.h`
862-946). `waitingLock` is the key of `m_waiting_lock_info`; a lock info is
identified by its key, with `lockOwner` its `m_owner` and `tree` its `m_tree`,
and exists exactly while it has waiters (`RemoveWaiterImpl` and
`RemoveWaiterByKey` free it otherwise). One action per operation;
`RestorePriority` is one iteration of its loop with `restoring` the loop's
thread. `AddWaiter` requires that no other thread has waiters for the key
(`lockOwner[k] \in {o, NoThread}`): that is the callers' obligation, which
`LockInv` (`QueueMatchesTag`) and `CvInv` (`QueueMatchesWord`) show they keep.
Waits may form cycles here, as guests can make them do; the loop then still
ends up with every thread but its current one right. `Finalize` frees whoever
waits for a user lock of the dying thread; with callers of `WaitForAddress`,
which hold a reference to the owner, this cannot happen, with threads that a
`Signal` moved to the owner it can.

**KLightLock**. `tag` is `m_tag`. `Lock`/`RetryLock` are the compare-and-swap
of the fast path (take the lock or set the waiters bit), `LockSlowPath` the
test and enqueue under the scheduler lock, `LockWaitEnds` the return from it,
`Unlock` the release compare-and-swap, `UnlockSlowPath` and `Handover` the two
parts of the slow release around `RestorePriority`. `held` (a thread's view) is
what a caller of `Lock` may believe. Suspension (`RequestSuspend`, `Resume`,
`TrySuspend`, `UpdateState`, `ContinueIfHasKernelWaiters`) and termination
(`RequestTerminate`, `CancelWait`) are those of `KThread`. `OrderedLocks`:
nested locks are taken in one order; otherwise kernel code would deadlock by
itself.

**KConditionVariable**. `word` is the guest's mutex word (owner handle and wait
mask), `cvWord` the has-waiter flag, `cvTree` the tree. The guest's mutex
library (`GuestLock`, `GuestRecheck`, `GuestUnlock`) is not in this repository;
it is modelled from what `WaitForAddress` and `SignalToAddress` expect of the
word, and marked external. Each kernel call is split at its accesses to guest
memory; the two adjacent writes of `Wait` (flag, then word) are one step,
because no modelled guest step reads the flag. `Exit` includes
`ReleaseAbandonedUserLocks`, one lock per round, and `StartTermination`.

**KAddressArbiter**. A call is one step: it makes one (atomic) access to guest
memory, and a guest store between that access and the end of the call commutes
with the rest of the call, which does not look at the word again. Words wrap
like 32-bit ones with a smaller range (`Wrap`). A guest that stores to a word
signals it afterwards (`GuestStore`, external). `passedOver` and `wrapped` are
history variables: sleepers that a signal with a count left asleep, and
counters decremented below their range.

**KSynchronizationObject**. A node `<<t, i>>` is element i of the array on t's
stack. `list[o]` is what the head pointer reaches; `staleNext` is the pointer
left in nodes that `NotifyAvailable` has unlinked while standing on one of
them. `Wait` is the call up to its return or its sleep (`ReturnAtOnce` keeps
the returned result and index in `result` and `syncedIndex` until
`WaitReturns`). `OtherWait` is any wait that is not cancellable.

**KHardwareTimer**. `tasks`, `nextTask`, `wakeupTime` are the timer's members,
`queue`, `notified` and `hostPc` the timing thread's. `EnableInterrupt` has
three steps, as the event is unscheduled, scheduled and announced one after the
other while the timing thread may run in between. `Add` is two's-complement
addition on the signed range that ends at `MaxTime`.

**KScheduler**. `ctx` is all that the scheduler lock protects, as one record:
`scheduled` and `suggested` are the queues of `KPriorityQueue` by core and
priority, `highest` the decision, `pinned` the pinned thread of each core, and
per thread its state, priority, active core, mask (`m_physical_affinity_mask`),
ideal core, and the mask it gets back after a pinning (`virtual`). An operation
is a function from record to record and every action is one operation *with
the release of the lock*, which recomputes the decision
(`UpdateHighestPriorityThreads`), migrations included. Abstractions: multi core
mode; one process; no dummy threads; `VirtualToPhysicalCoreMap` is the
identity, as it is for cores 0 to 3; "Waiting" stands for waiting and for
suspended, which the scheduler treats alike; the last-scheduled ticks that
`RotateScheduledQueue` and the yields compare are compared nondeterministically;
of the yield and scheduled counts only their equality is kept (`fresh`). The
passes over the cores in `UpdateHighestPriorityThreadsImpl` are functions by
recursion over the core number; a walk along a queue that stops at the first
fitting thread is the first member of a set (`NotTop`, `Replaceable`,
`FirstSuggested`).
`PinnedMayYield` says whether a pinned thread may call `YieldToAnyThread`; see
the observations below.

**ContextSwitch** takes the operations apart at every access to a word that
several host threads share. `LockAndUpdate` is the section up to the decision;
`Publish` stores it (thread, then flag, per core); `SendInterrupt` is
`RescheduleCores`, one core at a time; `Retry`, `LoadHighest`, `Unload`,
`TryLock`, `Spin`, `SwitchThread` and `CheckNeeds` are the loop of
`ScheduleImplFiber`. A core's idle thread is `Null`. Around it: the loops of
`CpuManager`, the window in which a core enters guest code, exits with the spin
of `FinishTermination`, and `SetActivity` with its wait until no core has the
thread. Only steps nobody else can observe are joined, and the comments say
which. The operations used are a wake-up, a wait, a yield, an exit and a pause;
the switch does not depend on which operation made the decision.

**SharedCpuClock**. `clock` is the record of slots, masks and bases; writers
hold the mutex and make the sequence number odd (`odd`), readers keep whether
it still is what they sampled (`unchanged`), which is what a comparison of
sequence numbers tells them. Every reader takes three steps (sample, compute,
publish), a writer three (sample, open, store). `Forget` replaces values that
are stored again before anybody reads them, so that equal situations are equal
states. `started` is a history variable: what readers had already found when a
slot was started. The branch of `ThreadLoop` modelled is the one for hosts
other than Windows. `SetCpuRunnableMask` and the compilations are the calls
made while the synchronization of CPU and services is enabled.

**Mutex** is the abstract specification: at most one holder, who alone
releases; a thread that ends abandons all it holds.

## 3. Runs

Every passing run is exhaustive for its bounds. Three threads are the least
with which an owner, a sleeping waiter and a third party (a second waiter, a
newcomer with a compare-and-swap, a canceller) meet; the interesting races here
involve no more. Two priorities distinguish "more urgent" from "as urgent";
chains of inheritance use three.

| Run | Bounds | Distinct states | What it shows |
|---|---|---|---|
| `light_lock` | 3 threads, 2 nested locks, 2 priorities, 1 suspend type, nobody terminated | 227,324 | `LockInv` (which contains `WaiterInv` and `LockedByHolder`), `PriorityInheritance`, `SleepersAreOwed`, `SuspendedHasNoKernelWaiters`, and `LockIsMutex` (refinement of Mutex) |
| `light_lock_live` | 3 threads, 1 lock, 1 priority, t1 may be terminated | 61,232 | `ContendedLockIsHandedOver`; `KernelWaitersCounted` survives the cancelled wait of finding 1 |
| `light_lock_terminate` | 3 threads, 1 lock, 2 priorities, t1 may be terminated | violation | finding 1 |
| `light_lock_resume` | 3 threads, 1 lock, 2 suspend types | violation | finding 2 |
| `condition_variable` | 3 threads, 1 mutex, 1 condvar, 2 priorities, all may exit or be terminated | 1,069,496 | `CvInv`, `SleepersAreOwed`, `FlagAnnouncesWaiters`; `CvInv` is inductive and contains `WaiterInv`, `HolderOwnsMutex`, `CvTreeSorted`, `TerminatedOwesNothing` and where every call is (`OneSection`, `WordsWellFormed`, `ReleasingOwns`, `NextOwnerWaits`, `SignalledGetsMutex`, `WokenOwns`, `LeavingHolds`) |
| `two_mutexes` | 3 threads, 2 nested mutexes, no condvar, 1 priority, t1 may be terminated | 51,842 | `TerminatedOwesNothing` with several abandoned locks; `GuestMutexIsMutex`; `QueuedThreadsAreServed` |
| `timer` | 3 threads, clock 0..3, range up to 5, increment 1 | 116,405 | `TimerInv` (which contains `NextTaskIsFirst`, `TaskBelongsToWait`, `HostWillWake`, `DeadlineSaturates`), `FirstDeadlineIsArmed`, `NeverEarly`, `TimedWaitsEnd` |
| `synchronization` | 3 threads, 2 objects, up to 2 per call, repetitions allowed | 620,797 | `SyncInv` (which contains `CursorIsAlive`), `SignaledObjectHasNoSleepers`, `IndexNamesObject`, `CancelIsNotLost` |
| `address_arbiter` | 3 threads, a word for each kind of wait, values -2..1, counts 0..2, 2 priorities | 166,000 | `ArbiterInv`, `NoMissedWakeup`, `ModifyTellsWaiters`, `WakesMostUrgent` |
| `scheduler` | 3 threads, 2 cores, 2 priorities, t1 may be pinned, t2 may hold a kernel lock, t3 keeps its priority (`OneSteady`) | 147,293 | `SchedulerInv`, `DecisionIsRight`, `NoNeedlessIdling`, `SkippedYieldsAreIdle` |
| `context_switch` | 2 threads, 2 cores and a host thread, 1 priority, t1 may exit and be paused | 438,321 | `SwitchInv`, `ContextLoadedOnce`, `ExitNeverReturns`, `StaleCoreIsTold`, `LeftThreadIsUnloaded`, `TerminationFinishes`, `DecisionIsCarriedOut` |
| `shared_cpu_clock` | 2 cores that compile, timing thread, 1 deadline, host clock 0..1, arithmetic modulo 8 | 1,708,879 | `ClockInv`, `FollowsLeastAdvanced`, `SleepEndsWithCompilation`, `PauseIsHeard` |

Bounds by name: `LastTick` stops the clock (in the timer run three distinct
deadlines fit below it; in the clock run the one tick reaches the deadline,
before, during or after a compilation and any reader's sample, `Modulus` more than twice as large so that an underflow shows as a
large time); `MaxTime` stands for the largest 64-bit time and is close enough
for deadlines to saturate; `MaxObjects` limits the objects of one call (an
object named twice needs two); `MaxValue` makes words wrap within a few
operations; `MaxCount` is smaller than the number of sleepers, so that signals
leave some asleep. `Priorities = {1}` in the liveness runs is deliberate: with
two, a stream of urgent threads may be served for ever, which the code allows.
`Pinnable`, `LockHolders`, `Exiting`, `Pausable` and `Terminable` name the
threads that do the thing at all; one is enough for each,
because the others then take every role opposite to it. `NumCores = 2` gives a
migration a source and a destination; three threads on them leave one queued.
`RunnableMasks` is one mask of one core, so that a core can take part in the
clock with and without being runnable.

Deadlock is checked except in `condition_variable` and `two_mutexes`, where all
threads may have exited, in `context_switch`, where every thread may have
exited or wait, and in `shared_cpu_clock`, where the emulation ends and the
host's clock stops. `light_lock_live` and `light_lock_terminate` do not follow
the code beyond the point where finding 1 leads to two lock infos for one key;
`AddWaiter` is disabled there. The waiter graph under *arbitrary* callers,
cycles of waits included, has no run of its own: it is what the proofs of
section 4 are about, and the runs of the two kinds of lock check it with the
callers there are.

Each property has a mutant: a definition of the model changed the way a
plausible slip in the code would change it (a dropped test, a lost waiters bit,
a missing tree update), under which the run fails. They are the operators
commented `Mutant:` and are listed in `PROJECT.json`.

### Fairness

Safety properties need none. `LockFairness`: a thread the scheduler may run
(`Runnable` and not suspended) takes its next step, and a section under the
scheduler lock ends; both hold of host threads that run fibers. A *suspended*
thread gets no fairness and need never be resumed, so
`ContendedLockIsHandedOver` says that suspension never strands a lock.
`RequestsEnd` says that outsiders stop changing priorities and suspending: the
scheduler lock is a plain mutex without a queue, and endless traffic could
starve a thread. Runs in which a thread was asked to terminate are exempt from
`ContendedLockIsHandedOver`: by finding 1 a cancelled waiter may return as if it
owned the lock. `CvFairness` is strong for steps that compete for the
scheduler lock with others (a weakly fair thread could miss every opening of
it), and assumes that a guest eventually leaves its critical section and that a
thread asked to terminate exits. `QueuedThreadsAreServed` is about the innermost
mutex, whose owner waits for no other. `SwitchFairness`: a core outside guest
code takes its next step, a halted CPU leaves guest code (that is what `Halt`
does), a system call returns, a release goes on and the exit worker runs; guest
code is assumed neither to return nor to call. The shared clock is checked for
safety only.
In `KHardwareTimer` the clock ticks, the
timing thread runs, and its callback gets the scheduler lock although others
take it again and again (`SF` on `DoTask`).

### Findings

1. **A cancelled light-lock wait returns as the owner** (`light_lock_terminate`).
   `RequestTerminate` cancels any wait of a waiting thread; for a thread in
   `KLightLock::LockSlowPath` the queue's `CancelWait` removes it from the
   owner's waiters and makes it runnable, and `LockSlowPath` then returns true
   without testing the wait result or the tag, so `Lock` returns while another
   thread owns the lock. Callers assert the opposite
   (`ASSERT(this->IsLockedByCurrentThread())`, `k_page_table_base.cpp:738`).
   Termination is the only way such a wait can be cancelled; it has no timer
   and is not cancellable.
2. **Resume applies a suspension that was put off** (`light_lock_resume`).
   `TrySuspend` refuses while the thread has kernel waiters and asserts there
   are none, but `Resume` of one suspend type calls `UpdateState` directly,
   which applies every other requested type. With one type in use the invariant
   holds (`light_lock`); with two it does not.

### Observations

What the source shows and no run contradicts, because the runs keep away from
it or state what does hold:

- A thread that has disabled its preemption is pinned. If it calls
  `svc::SleepThread` with the argument that yields to any core,
  `YieldToAnyThread` gives it core -1 although it stays pinned, and the queue
  asserts a valid core (`k_priority_queue.h`:239). The pinned thread's
  permissions that would refuse the call are a TODO (`k_thread.cpp`:500).
  `PinnedMayYield = FALSE` keeps guests from doing so.
- `SetCoreMask` with an ideal core of -1 shifts by -1 (`k_thread.cpp`:630).
- `UpdateHighestPriorityThreadsImpl` stops looking for work for an idle core at
  the first suggested thread whose core's top thread is too urgent to be moved;
  a later suggested thread that could be moved is not found, and a core whose
  pinned thread waits may stay empty. `NoNeedlessIdling` states what is true.
- Idle cores are filled once, in ascending order. The search for one ends at a
  thread queued behind an urgent one that runs; that urgent thread may then itself
  be given to an idle core with a higher number, and those queued behind it are not
  offered to the lower core again. With three or more cores the lower one may so
  stay idle; the third case of `NothingToTake` admits this.
- The writers of the shared clock sample the time before they make the sequence
  odd. A reader may publish a later time in between, so that the clock is
  briefly ahead of a core that has just begun (`shared_cpu_clock.h`:16: "Events
  follow the least advanced participating CPU"). `FollowsLeastAdvanced`
  therefore allows what readers had found when the slot was started (`started`).

## 4. Proofs

All theorems are proved with TLAPS for any number of threads, cores, locks,
words and times, under the assumptions named in the modules. Each invariant was
first checked by TLC; most had to be strengthened to become inductive, and what
was added says how the code works.

| Component | Theorems | What they state |
|---|---|---|
| `KThreadWaiters` | `WaiterInvariant`, `PriorityIsInherited`, `CountsAreRight` | trees, waits and owners agree; exact priority inheritance; exact counts of kernel waiters |
| `KLightLock` | `LockInvariant`, `NoLostWakeup`, `LocksAreMutexes`, `SuspensionWaitsForWaiters`, `LocksUseWaiterGraph`, `LockWaitersAreCounted`, `LockOwnersInherit` | mutual exclusion and no lost wake-up; refinement of `Mutex`; owners with waiters are not suspended; refinement of the waiter graph |
| `KConditionVariable` | `CvInvariant`, `GuestMutexesExclude`, `NoWaiterIsForgotten`, `WaitersAreAnnounced`, `NobodyWaitsForTheDead`, `GuestMutexOwnersInherit` | guest mutexes refine `Mutex`; no lost wake-up; the flag; nobody queues on a dead owner |
| `KHardwareTimer` | `TimerInvariant`, `TimerInvHolds`, `FirstDeadlineStaysArmed`, `TimerIsNeverEarly` | the tree of tasks; an event covers the first deadline; no wait ends early |
| `KAddressArbiter` | `ArbiterInvariant`, `ArbiterInvHolds`, `NoWakeupIsMissed`, `ModifyTellsTheTruth`, `MostUrgentFirst` | no missed wake-up; what the stored word tells; who is woken |
| `SharedCpuClock` | `ClockInvariant`, `ClockInvHolds`, `ClockFollowsLeastAdvanced`, `CompilationEndsSleep`, `PausesAreHeard` | the clock and its readers; both handshakes of the timing thread |
| `KSynchronizationObject` | `SyncInvHolds`, `NobodySleepsOnSignal`, `IndexHolds`, `CancelHolds` | the cursor of `NotifyAvailable` and the linked nodes; no sleeper on a signalled object; what a wait returns; cancellations |
| `KScheduler` | `SchedulerInvHolds`, `DecisionHolds`, `NoNeedlessIdlingHolds`, `SkippedYieldsHold` | the queues; the decision; idle cores are filled; the yield counts |
| `ContextSwitch` | `ContextLoadedOnceHolds`, `SwitchInvHolds`, `ExitNeverReturnsHolds`, `StaleCoreIsToldHolds`, `LeftThreadIsUnloadedHolds` | no two cores execute one thread; the context guards; no lost rescheduling; exits and pauses take the thread off its core |

`OrderLemmas` holds what the proofs share: insertion into and removal from a
sorted tree, position by position; the first element; minima of finite sets; a
duplicate-free sequence is as long as the set of its elements is large.
`RecursionUpTo` says that a function defined by recursion on `0 .. n` exists,
and `InductionUpTo`, from the least element of a set of numbers, what holds of
it: with these two, `KeepOrder` states what `Keep` of `Lists` (a loop that
filters a list) leaves and in which order, for lists of any length, and the
scheduler's passes over the cores are proved for any number of cores.

### The waiter graph

`PriorityInheritance` alone is not inductive: `RestorePriority` looks only at
the *first* waiter of each lock, so the proof needs sorted trees; sorted trees
need that a changed thread is re-inserted where it is linked, so the trees must
agree with `waitingLock`; and during the loop the property fails for exactly
one thread, which is what the exception for `restoring` in `WaiterInv` states.
The argument per operation: `AddWaiter` can only make the owner too slow, and
starts the loop exactly then; `RemoveWaiter` and `RemoveWaiterByKey` start it
when the owner's priority may have come from the thread that left, and otherwise
the owner's priority is justified by its base or by somebody else; the new owner
inherits from waiters no more urgent than itself; an iteration repairs its
thread (`LeastInheritable`) and passes the exception on to the owner of the lock
that thread waits for.

The counts (`KernelWaitersCounted`) are a statement about the size of a set.
`KernelWaiters` names that set as a function of the waits and owners; one lemma
per operation says how it changes, and the theorems on cardinalities do the
rest. A hand-over moves a whole tree at once: the length of the tree is the
number of its threads (`ElementsCounted`), which go from the old owner's set to
the new one's, less the new owner itself. Finite `Threads` is needed here only.

### Light locks

`LockInvariant`, `NoLostWakeup`, `LocksAreMutexes` and
`SuspensionWaitsForWaiters` assume `Terminable = {}` (finding 1 is what happens
otherwise). `LockedByHolder` alone is not inductive. A slow unlock first removes
the next owner from the queue and stores the tag only after `RestorePriority`,
while compare-and-swaps go on: so `LockInv` says of each moment what the tag is
(`UnlockingOwns`), what it is about to be (`EffectiveTag`), that the latter is
what the queue expects (`QueueMatchesTag`), and that the thread taken out of
the queue sleeps until the tag is its own (`NextOwnerSleeps`, `WokenOwns`). The
argument rests on one lemma, `ClaimantIsOwner`: whoever holds a lock, is
releasing it or has been woken for it is named by its tag, so a free lock is
nobody's and two threads never claim one.

`LocksUseWaiterGraph` shows that every step of this module, terminations
included, is an operation of the waiter graph or leaves it alone: its
priorities and counts are right also where finding 1 strikes.

`SuspensionWaitsForWaiters` further assumes one suspend type (finding 2 is what
happens with two). `SuspensionInv` adds that whoever is suspended has been asked
to be (or `ContinueIfHasKernelWaiters`, which looks at the requests, would not
undo it), and exempts the next owner of a lock between `UnlockSlowPath`, which
gives it the remaining waiters, and `Handover`, which lets it go on. That the
old owner is not suspended when its waiters leave follows from the counts.

### Guest mutexes and condition variables

`CvInv` plays the role of `LockInv`, with more actors: the guest's own
compare-and-swaps, timeouts, `Signal`, exits that release one abandoned mutex
per round, and terminations, all of them allowed at every moment. `WordsWellFormed`
and `HolderOwnsMutex` tie the word to the guests' belief, `EffectiveWord` and
`QueueMatchesWord` to the queue while a hand-over is between its removal of the
next owner and its store; `NextOwnerWaits`, `SignalledGetsMutex` and `WokenOwns`
say where the thread is that gets the mutex next, `LeavingHolds` what an exiting
thread still owns. A thread that acts without being the owner cannot disturb
the rest (`OnlyOwnerDepends`), which is how each branch of each operation is
reduced to the few conjuncts it touches.

`NoWaiterIsForgotten` adds that a sleeper is somewhere it can be woken from: a
condition variable's tree, a mutex's queue, or the hands of a `Signal` or a
release in progress; every step either leaves a sleeper's place alone or moves
it to the next one. The exits assume nothing of who is terminated when; the
assumptions are those of the graph, `OrderedMutexes` and `CvKeysAssumption`.

### Timers, arbiter, clock

`TimerIInv` has three parts: who is inside the scheduler lock and at which step
of `EnableInterrupt` (`SectionInv`); the tree of tasks against the threads'
deadlines and the cached next task (`TreeInv`); the event queue and the timing
thread (`ArmInv`). `FirstDeadlineStaysArmed` holds because a deadline that
becomes the first one is armed before the lock is released, and because an
event popped for an earlier wake-up time still runs `DoTask`, which arms the
next. `TimesAssumption` bounds the clock below the largest time, as 64-bit
nanoseconds do; the saturation of `GetTimeoutDeadlineNs` is proved, not assumed.

`ArbiterIInv` adds to the queues that each sleeper's condition still holds of
its word unless somebody owes it a signal (`WaitIsRight`), with the history of
threads that a count left asleep. `ModifyTellsTheTruth` is about the loop that
looks ahead in the queue for at most `count` threads and decides between three
values, for every length of the queue. Words wrap by `Wrap`, whose range is a
lemma.

`ClockIInv` has the control of all operations (`ControlInv`: a sleeper is told,
a joiner awaited, a writer alone) and the times (`TimeInv`): no value that a
reader may still publish, and none published, is ahead of a participating
core's slot. A reader's sample may be stale; the invariant says the sequence
check then refuses it. `NobodyIsNoWriter` and `ReadersDiffer` say that the names
used for the writer and the readers are distinct.

### Synchronization objects

`NotifyAvailable` stands on a node while it wakes that node's thread, which
unlinks all nodes of the thread, the one it stands on included, and then
follows the pointer the unlinked node still has. Where the thread named the
object twice in a row, that pointer leads to another unlinked node.
`WalkReachesRest` is the invariant of this walk: the cursor is the first linked
node, or the stale pointers lead from it, through unlinked nodes of the same
thread only, to the first linked node or the end. `SkipWokenThread` shortens that path by
one node; `WakeThreadOfCursor` builds it anew when a thread is woken, from where
each node of that thread was in the list (`ListWithoutThread`, `KeepOrder`).
`NodesOfSleepersAreLinked` and `SleepersHaveNoResult` say that the walk does not
meet a thread that was woken by somebody else, so that a timeout, a
cancellation and a signal never give one wait two results.

### The scheduler

The state behind the lock is one record, an operation a function of it, so the
argument is about functions. From the bottom up:

1. *Queues* (`Queued`): pushing, removing and moving a thread in
   `KPriorityQueue` keeps each queue duplicate-free and exact; a change of
   state, priority, core or mask moves it from where it was to where it belongs.
2. *Operations* (`Moves`): every operation keeps that, decides nothing itself,
   and *asks for a decision whenever something the decision depends on is
   different*. The last part is what makes skipping the recomputation sound
   (`SameQueuedSettled`), and `SkippedYieldsHold` rests on it: a yield may be
   skipped only while the process' count says that nothing has moved.
3. *The pass over the cores* (`Decided`): after it every core has its own front,
   or its pinned thread.
4. *Filling idle cores* (`Filling`): the cores filled so far have a thread, or
   there is `NothingToTake` for them. The difficulty is that a core filled later
   changes what an earlier one could have had: `NothingToTakeStays` shows that a
   migration to a later core creates nothing to take for a core already given up,
   other than what the third case of `NothingToTake` admits (see the
   observations).
5. `Settled` is then inductive: queues, masks, decision and idle cores, whenever
   the lock is free.

The theorems assume `~PinnedMayYield`: with it the code gives a pinned thread
core -1 (see the observations), and the queues are wrong from then on.

### The context switch

`ContextLoadedOnce` needs nothing of the scheduler. `SwitchIInv` adds types
(`SwitchTypes`), that a thread loaded or being loaded by a core has its guard
locked (`LoadedIsGuarded`), and that a core that is about to check the decision
has the thread it locked as its current one (`CheckedIsCurrent`). `ctx` may
change in any way, and the hand-over of the guard in `Unload`, `TryLock` and
`CheckNeeds` is enough. A core that gives a guard back was the one that held it,
because `ContextLoadedOnce` holds before the step; that is why the two are
proved together.

The other four theorems are about what becomes of a decision, and rest on one
inductive invariant, `CarriedInv`, which contains `Settled` of the state behind
the lock, and so all that is proved of the scheduler:

- *From the decision to its publication.* `UpdateHighestPriorityThreads` stores
  a core's decision only when it differs, and possibly several times (a core
  that was empty and is filled). `Follows` says that the log of its stores takes
  each core from its former decision to the new one; `PublicationIs` that the
  actor makes two writes of each, the thread and then the flag. `Published`
  states what this leaves true between any two writes: what a core can read is
  the decision, or the last write of it is still to come.
- *From the publication to the core.* `CoreOk` follows each core through its
  labels: one that heads for, or stays with, another thread than its decision
  has its flag set or will have it (`Told`), and one with its flag set is
  interrupted, will be (`Informed`), or is on its way into the loop of
  `ScheduleImplFiber`. `StaleCoreIsTold` is what this says of a core in guest code.
- *Threads that leave.* `ThreadOk` says that no core heads undisturbed for a
  terminated or paused thread and no store of it is outstanding (`Withdrawn`),
  unless its own core is still publishing (`Leaving`); so after the caller of
  `SetActivity` or the exit worker has looked at a core it need not look again
  (`LeftThreadIsUnloaded`), and the core of an exiting thread switches away
  before it goes on (`ExitNeverReturns`).

Every operation that takes the lock is shown to be an `Operation` (a decision
that makes at most the calling thread leave), most steps of a core an `OwnStep`
(nothing changes that is not the core's own), and the invariant is proved once for
each of these two kinds; `Publish`, `SendInterrupt` and the waits of the host
thread have proofs of their own. Nobody is pinned in this module (`NobodyPinned`), so
no assumption about pinned threads is needed.

### Assumptions

The assumptions on the constants are named in the modules that declare them,
and TLC evaluates them in every run that extends the modules: null values are
not threads, keys, objects or addresses; the sets of keys are disjoint;
priorities are integers; times and values have the bounds their types have;
`OrderedLocks` and `OrderedMutexes` give nested locks the order in which they are
taken; the threads that may exit or be paused are threads (`CallersAreThreads`);
`CoresExist` and `PrioritiesExist` say that there is a core, and how cores and
priorities are numbered. Four theorems of the light locks assume that nobody is
terminated, one of them that there is one suspend type, and those of
`KScheduler` that no pinned thread yields to any thread; each of these is a
hypothesis of the theorem and explained above.

### Model-checked only

Every invariant and action property that a passing run checks is stated by a
theorem. What stays with TLC:

- Liveness and everything under fairness is out of the prover's reach:
  `ContendedLockIsHandedOver`, `QueuedThreadsAreServed`, `TimedWaitsEnd`,
  `TerminationFinishes`, `DecisionIsCarriedOut`.

The hypotheses `Terminable = {}` and `~PinnedMayYield` are those of the runs that
check the same properties. Where a thread that waits for a light lock is
terminated only the waiter graph's part is proved (`LocksUseWaiterGraph`,
`LockWaitersAreCounted`, `LockOwnersInherit`); finding 1 says why the rest does
not hold.

## 5. Not modelled

Threads with valid handles and accessible memory are assumed. In the modules of
waits any runnable thread may run at any time, which over-approximates the
scheduler; in the modules of the scheduler a wait is any transition to
"Waiting". Of the thread: DPCs other than termination, debugging, and threads
that wait for a pinned thread to be unpinned. Of the scheduler: single core
mode, dummy threads, several processes, CPU time accounting. Of core timing:
looping events, expired event types, and `DisableCpuHleSynchronization`, which
gives the shared clock up. Of the physical cores: debugger stops, aborts, the
copying of contexts. Memory management, services, GPU, recompilers, loaders and
the front end are outside: data conversion, code generation and input/output
for the most part; `PROJECT.json` gives the reason for each.

## 6. Plan

Done: waiter graph with proofs, light locks, guest mutexes and condition
variables, timers, synchronization objects, address arbiter, the scheduler and
its context switch, the shared clock. Next, in order of importance:

1. **KServerSession / KClientPort**: request lists, current request, closing of
   either end in every state. Properties: each request is answered once,
   session counts return to zero.
2. **KLightConditionVariable and KResourceLimit** on top of KLightLock, with
   the abstract `Mutex` in place of the lock; reservations with timeouts.
3. **CoreTiming** by itself: several event types, looping events, expired
   types.
4. **KProcess** state machine and termination of all threads; later, the GPU's
   syncpoint manager and command thread.

Proofs to add: for each of these modules its inductive invariant; for the switch,
a composition with the waits of the other modules, where the operation that makes
a thread wait is a call of theirs.
