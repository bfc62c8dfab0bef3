----------------------------- MODULE KScheduler -----------------------------
(***************************************************************************)
(* The scheduling decision of the kernel: which thread each core should    *)
(* run.  The state is what the scheduler lock protects: the attributes of  *)
(* the threads, the scheduled and the suggested queue of every core        *)
(* (k_priority_queue.h) and the decision itself, highest.  Every action is *)
(* one operation performed under the lock, its release included, which     *)
(* recomputes the decision (k_scheduler_lock.h, k_scheduler.cpp).          *)
(*                                                                         *)
(* The operations are functions of one record, so that ContextSwitch can   *)
(* use the same ones and publish their result step by step.                *)
(***************************************************************************)
EXTENDS Lists, FiniteSets

CONSTANTS
    Threads,
    Null,             \* no thread (nullptr)
    NumCores,         \* Hardware::NUM_CPU_CORES
    LowestPriority,   \* priorities are 0 .. LowestPriority, 0 is the most urgent
    HighestCoreMigrationAllowedPriority,
    PreemptPriority,  \* the priority PreemptThreads rotates on each core
    PinnedMayYield,   \* a guest yields to any thread while it is pinned
    CoreMaskArgs,     \* the arguments <<ideal core, mask>> of SetCoreMask
    Pinnable,         \* the threads that disable their preemption
    LockHolders       \* the threads others wait for on kernel locks

ASSUME NullIsNoThread == Null \notin Threads
ASSUME CoresExist == NumCores \in Nat \ {0}
ASSUME PrioritiesExist ==
    /\ LowestPriority \in Nat
    /\ HighestCoreMigrationAllowedPriority \in 0 .. LowestPriority
    /\ PreemptPriority \in [0 .. NumCores - 1 -> 0 .. LowestPriority]

\* What svc SetThreadCoreMask lets through: an ideal core of the mask, any or
\* the one the thread has.
ASSUME CoreMasksAreValid ==
    \A arg \in CoreMaskArgs :
        /\ arg[2] \in (SUBSET (0 .. NumCores - 1)) \ {{}}
        /\ arg[1] \in arg[2] \cup {-1, -3}

VARIABLE
    ctx   \* the state behind the scheduler lock

Cores == 0 .. NumCores - 1
NoCore == -1
NoUpdate == -3        \* Svc::IdealCoreNoUpdate
Priorities == 0 .. LowestPriority
States == {"Initialized", "Runnable", "Waiting", "Terminated"}

-----------------------------------------------------------------------------
(* KPriorityQueue *)

\* The queues with t at the back, or at the front, of the queue of priority p of
\* the cores cs, or without it there.
Appended(queues, cs, p, t) ==
    [c \in Cores |-> [q \in Priorities |->
        IF c \in cs /\ q = p THEN Append(queues[c][q], t) ELSE queues[c][q]]]

Prepended(queues, cs, p, t) ==
    [c \in Cores |-> [q \in Priorities |->
        IF c \in cs /\ q = p THEN <<t>> \o queues[c][q] ELSE queues[c][q]]]

Removed(queues, cs, p, t) ==
    [c \in Cores |-> [q \in Priorities |->
        IF c \in cs /\ q = p THEN Keep(queues[c][q], Threads \ {t}) ELSE queues[c][q]]]

\* The cores a thread is suggested to: those it may run on but is not active on.
SuggestedCores(s, t) == s.mask[t] \ {s.core[t]}

PushBack(s, p, t) ==
    [s EXCEPT !.scheduled = Appended(@, {s.core[t]}, p, t),
              !.suggested = Appended(@, SuggestedCores(s, t), p, t)]

PushFront(s, p, t) ==
    [s EXCEPT !.scheduled = Prepended(@, {s.core[t]}, p, t),
              !.suggested = Appended(@, SuggestedCores(s, t), p, t)]

\* Mutant: the thread stays suggested to the other cores.
RemoveScheduled(s, p, t) == [s EXCEPT !.scheduled = Removed(@, {s.core[t]}, p, t)]

RemoveThread(s, p, t) ==
    [s EXCEPT !.scheduled = Removed(@, {s.core[t]}, p, t),
              !.suggested = Removed(@, SuggestedCores(s, t), p, t)]

\* The first thread of one core's queues, the most urgent first.
FrontOf(queue) ==
    LET ps == {p \in Priorities : queue[p] # <<>>}
    IN  IF ps = {} THEN Null ELSE Head(queue[CHOOSE p \in ps : \A q \in ps : p <= q])

ScheduledFront(s, c) == IF c = NoCore THEN Null ELSE FrontOf(s.scheduled[c])

\* GetScheduledNext: the thread behind t on core c.
ScheduledNext(s, c, t) ==
    LET own == s.scheduled[c][s.prio[t]]
        i == CHOOSE i \in 1 .. Len(own) : own[i] = t
    IN  FrontOf([p \in Priorities |->
            IF p < s.prio[t] THEN <<>>
            ELSE IF p = s.prio[t] THEN SubSeq(own, i + 1, Len(own)) ELSE s.scheduled[c][p]])

\* GetSuggestedFront and GetSuggestedNext: the first thread of the set that is
\* suggested to core c.
FirstSuggested(s, c, set) ==
    FrontOf([p \in Priorities |-> Keep(s.suggested[c][p], set)])

\* MoveToScheduledBack.
MoveToBack(s, t) ==
    LET home == {s.core[t]}
        p == s.prio[t]
    IN  [s EXCEPT !.scheduled = Appended(Removed(@, home, p, t), home, p, t)]

\* SetActiveCore followed by ChangeCore, for a runnable thread.
Migrate(s, t, c, toFront) ==
    LET home == {s.core[t]}
        p == s.prio[t]
        left == Removed(s.scheduled, home, p, t)
    IN  IF s.core[t] = c THEN s
        ELSE [s EXCEPT
                !.core[t] = c,
                !.scheduled = IF toFront THEN Prepended(left, {c}, p, t)
                                         ELSE Appended(left, {c}, p, t),
                !.suggested = Appended(Removed(@, {c}, p, t), home, p, t)]

-----------------------------------------------------------------------------
(* Bookkeeping shared by the operations *)

\* IncrementScheduledCount: no thread's yield count equals the process' count
\* any more.  fresh is the set of threads for which they are equal.
IncrementScheduledCount(s) == [s EXCEPT !.fresh = {}]

SetSchedulerUpdateNeeded(s) == [s EXCEPT !.update = TRUE]

\* Mutant: a change of the queues forgets the scheduled count.
UncountedRescheduled(s) == SetSchedulerUpdateNeeded(s)

\* Every change of a queue that is not a yield does both.
Rescheduled(s) == SetSchedulerUpdateNeeded(IncrementScheduledCount(s))

SetYieldScheduleCount(s, t) == [s EXCEPT !.fresh = @ \cup {t}]

OnThreadStateChanged(s, t, old) ==
    IF old = "Runnable" /\ s.state[t] # old THEN Rescheduled(RemoveThread(s, s.prio[t], t))
    ELSE IF s.state[t] = "Runnable" /\ s.state[t] # old
         THEN Rescheduled(PushBack(s, s.prio[t], t)) ELSE s

SetState(s, t, new) ==
    OnThreadStateChanged([s EXCEPT !.state[t] = new], t, s.state[t])

\* running: t is the thread that makes the call.
OnThreadPriorityChanged(s, t, old, running) ==
    IF s.state[t] # "Runnable" THEN s
    ELSE LET out == RemoveThread(s, old, t)
         IN  Rescheduled(IF running THEN PushFront(out, s.prio[t], t)
                                    ELSE PushBack(out, s.prio[t], t))

\* ChangeAffinityMask removes t from the queues of the old mask only.
OnThreadAffinityMaskChanged(s, t, oldMask, oldCore) ==
    IF s.state[t] # "Runnable" THEN s
    ELSE LET p == s.prio[t]
             scheduled == Removed(s.scheduled, oldMask \cap {oldCore}, p, t)
             suggested == Removed(s.suggested, oldMask \ {oldCore}, p, t)
         IN  Rescheduled([s EXCEPT
                !.scheduled = Appended(scheduled, s.mask[t] \cap {s.core[t]}, p, t),
                !.suggested = Appended(suggested, SuggestedCores(s, t), p, t)])

-----------------------------------------------------------------------------
(* UpdateHighestPriorityThreads *)

\* UpdateHighestPriorityThread: store the decision of core c.  stores is the
\* log of these stores, which ContextSwitch publishes one by one.
StoreHighest(s, c, t) ==
    LET stored == [s EXCEPT !.highest[c] = t, !.stores = Append(@, <<c, t>>)]
    IN  IF s.highest[c] = t THEN s
        ELSE IF s.highest[c] = Null THEN stored ELSE IncrementScheduledCount(stored)

\* The thread a core should run before any migration: the front of its queue,
\* unless the process has another thread pinned there and the front holds no
\* kernel lock somebody waits for.
OwnTop(s, c) ==
    LET top == ScheduledFront(s, c)
        pinned == s.pinned[c]
    IN  IF top = Null \/ pinned \in {Null, top} \/ top \in s.kernelWaiters THEN top
        ELSE IF s.state[pinned] = "Runnable" THEN pinned ELSE Null

\* top_threads of the core a thread is active on.  While the decision is
\* recomputed top_threads and the stored decision are the same.
TopOn(s, c) == IF c = NoCore THEN Null ELSE s.highest[c]

\* The suggested thread may leave its core: that core's top thread is not too
\* urgent.
MayMigrate(s, top) == top = Null \/ s.prio[top] >= HighestCoreMigrationAllowedPriority

\* The threads that are not the top of their core, and the tops of the cores
\* that have another thread to run.
NotTop(s) == {t \in Threads : TopOn(s, s.core[t]) # t}
Replaceable(s) == {t \in Threads \ NotTop(s) : ScheduledNext(s, s.core[t], t) # Null}

\* Mutant: an idle core only takes threads that no core runs.
FillFromWaiting(s, c) ==
    LET t == FirstSuggested(s, c, NotTop(s))
    IN  IF t # Null /\ MayMigrate(s, TopOn(s, s.core[t]))
        THEN StoreHighest(Migrate(s, t, c, FALSE), c, t) ELSE s

\* Fill the idle core c: with the first suggested thread that is not the top of
\* its core, or else with the top of a core that has another thread to run.
FillIdleCore(s, c) ==
    LET t == FirstSuggested(s, c, NotTop(s))
        u == FirstSuggested(s, c, Replaceable(s))
        freed == StoreHighest(s, s.core[u], ScheduledNext(s, s.core[u], u))
    IN  IF t # Null
        THEN IF MayMigrate(s, TopOn(s, s.core[t]))
             THEN StoreHighest(Migrate(s, t, c, FALSE), c, t) ELSE s
        ELSE IF u = Null THEN s ELSE StoreHighest(Migrate(freed, u, c, FALSE), c, u)

\* The first loop of UpdateHighestPriorityThreadsImpl: every core's own top.
OwnTopStored(s, c) == StoreHighest(s, c, OwnTop(s, c))
OwnTops(s) ==
    LET upTo[n \in 0 .. NumCores] ==
            IF n = 0 THEN s ELSE OwnTopStored(upTo[n - 1], n - 1)
    IN  upTo[NumCores]

\* The second loop: each core that has nothing queued is filled in turn.
FilledIfIdle(s, c, idle) == IF c \in idle THEN FillIdleCore(s, c) ELSE s
IdleCoresFilled(s, idle) ==
    LET upTo[n \in 0 .. NumCores] ==
            IF n = 0 THEN s ELSE FilledIfIdle(upTo[n - 1], n - 1, idle)
    IN  upTo[NumCores]

UpdateHighestPriorityThreads(s) ==
    IF s.update
    THEN IdleCoresFilled(OwnTops([s EXCEPT !.update = FALSE]),
                         {c \in Cores : ScheduledFront(s, c) = Null})
    ELSE s

-----------------------------------------------------------------------------
(* Yields and preemption.  later is the set of threads whose last scheduled *)
(* tick is later than that of the thread next in the queue: ticks are       *)
(* abstracted to the outcome of their comparison.                           *)

\* The threads that are not at the front of their core.
NotFront(s) == {t \in Threads : ScheduledFront(s, s.core[t]) # t}

YieldWithoutCoreMigration(s, t) ==
    LET moved == IncrementScheduledCount(MoveToBack(s, t))
        next == Head(moved.scheduled[s.core[t]][s.prio[t]])
    IN  IF t \in s.fresh \/ s.state[t] # "Runnable" THEN s
        ELSE IF next # t THEN SetSchedulerUpdateNeeded(moved)
        ELSE SetYieldScheduleCount(moved, t)

\* The search ends without a migration at the first thread that is not running
\* and is less urgent than t, or as urgent but scheduled later than next.
YieldWithCoreMigration(s, t, later) ==
    LET c == s.core[t]
        moved == IncrementScheduledCount(MoveToBack(s, t))
        next == Head(moved.scheduled[c][s.prio[t]])
        stop == {u \in NotTop(s) : \/ s.prio[u] > s.prio[t]
                                   \/ s.prio[u] = s.prio[t] /\ next # t /\ u \in later}
        movable == {u \in NotTop(s) : MayMigrate(s, TopOn(s, s.core[u]))}
        found == FirstSuggested(moved, c, stop \cup movable)
        recheck == FirstSuggested(moved, c, NotTop(s)) \notin stop \cup {Null}
    IN  IF t \in s.fresh \/ s.state[t] # "Runnable" THEN s
        ELSE IF found \notin stop \cup {Null} THEN Rescheduled(Migrate(moved, found, c, TRUE))
        ELSE IF next # t THEN SetSchedulerUpdateNeeded(moved)
        ELSE IF recheck THEN moved
        ELSE SetYieldScheduleCount(moved, t)

YieldToAnyThread(s, t) ==
    LET c == s.core[t]
        moved == IncrementScheduledCount(Migrate(s, t, NoCore, FALSE))
        u == FirstSuggested(moved, c, NotFront(moved))
        filled == IF u # Null /\ MayMigrate(moved, ScheduledFront(moved, moved.core[u]))
                  THEN Migrate(moved, u, c, FALSE) ELSE moved
    IN  IF t \in s.fresh \/ s.state[t] # "Runnable" THEN s
        ELSE IF ScheduledFront(moved, c) # Null THEN SetSchedulerUpdateNeeded(moved)
        ELSE IF u # t THEN SetSchedulerUpdateNeeded(filled)
        ELSE SetYieldScheduleCount(filled, t)

\* The first part of RotateScheduledQueue: the next thread of priority p, or one
\* of that priority suggested to the core that has not run for longer.
RotateSamePriority(s, c, p, later) ==
    LET First(queue) == IF queue = <<>> THEN Null ELSE Head(queue)
        top == First(s.scheduled[c][p])
        rotated == IF top = Null THEN s ELSE MoveToBack(s, top)
        next == First(rotated.scheduled[c][p])
        counted == IF next # top THEN IncrementScheduledCount(rotated) ELSE rotated
        stop == {u \in NotFront(counted) : next # top /\ u \in later}
        movable == {u \in NotFront(counted) :
                       MayMigrate(counted, ScheduledFront(counted, counted.core[u]))}
        found == First(Keep(counted.suggested[c][p], stop \cup movable))
    IN  IF found \in stop \cup {Null} THEN counted
        ELSE IncrementScheduledCount(Migrate(counted, found, c, TRUE))

\* The second part: a more urgent thread for a core whose best thread is no more
\* urgent than p.  The calling thread is the timer's host thread, never the best
\* thread of a core (multi core mode).
TakeMoreUrgent(s, c, p) ==
    LET best == ScheduledFront(s, c)
        found == FirstSuggested(s, c,
                    {u \in NotFront(s) : /\ s.prio[u] < s.prio[best]
                                         /\ MayMigrate(s, ScheduledFront(s, s.core[u]))})
    IN  IF best = Null THEN s
        ELSE IF s.prio[best] < p \/ found = Null THEN s
        ELSE IncrementScheduledCount(Migrate(s, found, c, TRUE))

RotateScheduledQueue(s, c, later) ==
    LET p == PreemptPriority[c]
    IN  SetSchedulerUpdateNeeded(TakeMoreUrgent(RotateSamePriority(s, c, p, later), c, p))

PreemptThreads(s, later) ==
    LET upTo[n \in 0 .. NumCores] ==
            IF n = 0 THEN s
            ELSE RotateScheduledQueue(upTo[n - 1], n - 1, {t \in Threads : <<n - 1, t>> \in later})
    IN  upTo[NumCores]

-----------------------------------------------------------------------------
(* Operations on one thread *)

\* Mutant: a thread without an ideal core keeps its core.
KeepCore(s, t) == IF s.ideal[t] # NoCore THEN s.ideal[t] ELSE s.core[t]

\* The core of a thread that may no longer run where it is active: its ideal
\* core, or the last core of its mask.
FallbackCore(s, t) ==
    IF s.ideal[t] # NoCore THEN s.ideal[t]
    ELSE CHOOSE c \in s.mask[t] : \A d \in s.mask[t] : d <= c

\* Give t the affinity m, moving it off a core it may not use any more.
ChangeMask(s, t, m) ==
    LET masked == [s EXCEPT !.mask[t] = m]
        stays == s.core[t] = NoCore \/ s.core[t] \in m
        placed == IF stays THEN masked
                  ELSE [masked EXCEPT !.core[t] = FallbackCore(masked, t)]
    IN  IF m = s.mask[t] THEN s
        ELSE OnThreadAffinityMaskChanged(placed, t, s.mask[t], s.core[t])

\* The thread is pinned to a core.
IsPinned(s, t) == \E c \in Cores : s.pinned[c] = t

\* SetCoreMask refuses to keep an ideal core outside the new mask.  While t is
\* pinned only the mask it gets back later changes.
SetCoreMask(s, t, id, m) ==
    LET new == [s EXCEPT !.ideal[t] = IF id = NoUpdate THEN @ ELSE id, !.virtual[t] = m]
    IN  IF id = NoUpdate /\ s.ideal[t] \notin m THEN s
        ELSE IF IsPinned(s, t) THEN new ELSE ChangeMask(new, t, m)

\* KProcess::PinCurrentThread: the thread running on c may use no other core.
PinThread(s, t, c) ==
    LET bound == [s EXCEPT !.pinned[c] = t, !.core[t] = c, !.mask[t] = {c}]
    IN  SetSchedulerUpdateNeeded(
            IF s.core[t] # c \/ s.mask[t] # {c}
            THEN OnThreadAffinityMaskChanged(bound, t, s.mask[t], s.core[t]) ELSE bound)

\* KProcess::UnpinCurrentThread: t gets its own mask back.
UnpinThread(s, t, c) ==
    SetSchedulerUpdateNeeded(ChangeMask([s EXCEPT !.pinned[c] = Null], t, s.virtual[t]))

SetPriority(s, t, p, running) ==
    IF p = s.prio[t] THEN s
    ELSE OnThreadPriorityChanged([s EXCEPT !.prio[t] = p], t, s.prio[t], running)

-----------------------------------------------------------------------------
(* The specification *)

\* KThread::Initialize: a thread starts bound to one core, with no yield count.
InitialContext(core, prio) ==
    [state |-> [t \in Threads |-> "Initialized"],
     prio |-> prio,
     core |-> core,
     ideal |-> core,
     mask |-> [t \in Threads |-> {core[t]}],
     virtual |-> [t \in Threads |-> {core[t]}],
     scheduled |-> [c \in Cores |-> [p \in Priorities |-> <<>>]],
     suggested |-> [c \in Cores |-> [p \in Priorities |-> <<>>]],
     highest |-> [c \in Cores |-> Null],
     pinned |-> [c \in Cores |-> Null],
     kernelWaiters |-> {},
     fresh |-> {},
     update |-> FALSE,
     stores |-> <<>>]

\* Created on the ideal core of the process (IdealCoreUseProcessValue).
Init == ctx = InitialContext([t \in Threads |-> 0], [t \in Threads |-> LowestPriority])

\* The lock is released with state s: the decision is recomputed.
Unlock(s) == ctx' = [UpdateHighestPriorityThreads(s) EXCEPT !.stores = <<>>]

\* The thread running on core c.
Running(t, c) == ctx.highest[c] = t

\* Run, EndWait, Resume and the other ways a thread becomes runnable.
WakeUp(t) ==
    /\ ctx.state[t] \in {"Initialized", "Waiting"}
    /\ Unlock(SetState(ctx, t, "Runnable"))

\* BeginWait by the thread itself, or a suspension by another one.
Block(t) ==
    /\ ctx.state[t] = "Runnable"
    /\ Unlock(SetState(ctx, t, "Waiting"))

\* KThread::Exit: StartTermination unpins the thread, then takes it off the queues.
Exit(t, c) ==
    /\ Running(t, c)
    /\ LET s == IF ctx.pinned[c] = t THEN UnpinThread(ctx, t, c) ELSE ctx
       IN  Unlock(SetState(s, t, "Terminated"))

ChangePriority(t, p) ==
    /\ ctx.state[t] # "Terminated"
    /\ \E running \in {FALSE, \E c \in Cores : Running(t, c)} :
           Unlock(SetPriority(ctx, t, p, running))

ChangeCoreMask(t, id, m) ==
    /\ ctx.state[t] # "Terminated"
    /\ Unlock(SetCoreMask(ctx, t, id, m))

\* The threads whose last scheduled tick a search on core c looks at.
Comparable(c, p) ==
    {t \in Threads : ctx.state[t] = "Runnable" /\ c \in ctx.mask[t] /\ ctx.prio[t] = p}

YieldWithout(t, c) == Running(t, c) /\ Unlock(YieldWithoutCoreMigration(ctx, t))

YieldWith(t, c) ==
    /\ Running(t, c)
    /\ \E later \in SUBSET Comparable(c, ctx.prio[t]) :
           Unlock(YieldWithCoreMigration(ctx, t, later))

YieldToAny(t, c) ==
    /\ Running(t, c)
    /\ ctx.pinned[c] = t => PinnedMayYield
    /\ Unlock(YieldToAnyThread(ctx, t))

Preempt ==
    \E later \in SUBSET { s \in Cores \X Threads :
                           s[2] \in Comparable(s[1], PreemptPriority[s[1]]) } :
        Unlock(PreemptThreads(ctx, later))

\* HandleInterrupt with a thread that disabled its preemption.
Pin(t, c) ==
    /\ t \in Pinnable
    /\ Running(t, c)
    /\ ctx.pinned[c] = Null
    /\ Unlock(PinThread(ctx, t, c))

\* SynchronizePreemptionState.
Unpin(t, c) ==
    /\ Running(t, c)
    /\ ctx.pinned[c] = t
    /\ Unlock(UnpinThread(ctx, t, c))

\* AddWaiterImpl and RemoveWaiterImpl for a kernel lock t holds.
KernelWaiters(t) ==
    /\ t \in LockHolders
    /\ ctx.state[t] # "Terminated"
    /\ Unlock([ctx EXCEPT !.kernelWaiters = (@ \cup {t}) \ (@ \cap {t}), !.update = TRUE])

Next ==
    \/ Preempt
    \/ \E t \in Threads :
          \/ WakeUp(t)
          \/ Block(t)
          \/ KernelWaiters(t)
          \/ \E p \in Priorities : ChangePriority(t, p)
          \/ \E arg \in CoreMaskArgs : ChangeCoreMask(t, arg[1], arg[2])
          \/ \E c \in Cores :
                \/ Exit(t, c)
                \/ YieldWithout(t, c)
                \/ YieldWith(t, c)
                \/ YieldToAny(t, c)
                \/ Pin(t, c)
                \/ Unpin(t, c)

Spec == Init /\ [][Next]_ctx

-----------------------------------------------------------------------------
(* Properties *)

\* The queue has every thread of the set once, and no other.
Queues(queue, set) ==
    queue \in Seq(set) /\ Distinct(queue) /\ \A t \in set : In(t, queue)

ScheduledAt(s, c, p) ==
    {t \in Threads : s.state[t] = "Runnable" /\ s.prio[t] = p /\ s.core[t] = c}
SuggestedAt(s, c, p) ==
    {t \in Threads : s.state[t] = "Runnable" /\ s.prio[t] = p /\ c \in SuggestedCores(s, t)}

\* Type invariant, with the one relation every queue operation relies on: the
\* queues hold exactly the runnable threads, once each, at their priority, on
\* the core they are active on (scheduled) and on the other cores of their mask
\* (suggested).  A thread has one link per core (GetPriorityQueueEntry), so an
\* entry left behind by a change of mask, core or priority corrupts a list.
SchedulerInv ==
    /\ ctx.state \in [Threads -> States]
    /\ ctx.core \in [Threads -> Cores \cup {NoCore}]
    /\ ctx.mask \in [Threads -> (SUBSET Cores) \ {{}}]
    /\ ctx.highest \in [Cores -> Threads \cup {Null}]
    /\ \A c \in Cores, p \in Priorities :
          /\ Queues(ctx.scheduled[c][p], ScheduledAt(ctx, c, p))
          /\ Queues(ctx.suggested[c][p], SuggestedAt(ctx, c, p))

\* The decision names, for every core, a runnable thread that is active on that
\* core and whose mask allows it: no thread is chosen for two cores, none is
\* chosen after its mask, its state or its core changed.  It is the most urgent
\* thread of the core's queue, except for the sake of a pinned thread
\* (UpdateHighestPriorityThreadsImpl).
DecisionIsRight ==
    \A c \in Cores :
        /\ LET t == ctx.highest[c] IN
              t # Null => ctx.state[t] = "Runnable" /\ ctx.core[t] = c /\ c \in ctx.mask[t]
        /\ \A t \in Threads :
              (ctx.state[t] = "Runnable" /\ ctx.core[t] = c /\ ctx.pinned[c] = Null)
                 => ctx.highest[c] # Null /\ ctx.prio[ctx.highest[c]] <= ctx.prio[t]

\* Nothing is queued on core c but its decision.
Alone(s, c) ==
    \A t \in Threads : s.state[t] = "Runnable" /\ s.core[t] = c => t = s.highest[c]

\* Why core c was not filled: every runnable thread that may use it is what
\* another core runs, with nothing else queued there; or one of them is queued
\* behind a thread too urgent to be disturbed, which ends the search of
\* UpdateHighestPriorityThreadsImpl; or that thread has since been given to an
\* idle core whose turn came later.
NothingToTake(s, c) ==
    LET able == {t \in Threads : s.state[t] = "Runnable" /\ c \in s.mask[t]}
        Top(t) == TopOn(s, s.core[t])
    IN  \/ \A t \in able : Top(t) = t /\ Alone(s, s.core[t])
        \/ \E t \in able : Top(t) # t /\ ~MayMigrate(s, Top(t))
        \/ \E d \in Cores : d > c /\ ~MayMigrate(s, s.highest[d]) /\ Alone(s, d)

\* "Idle cores are bad": a core without a pinned thread has nothing queued only
\* when there is nothing it could have been given.
NoNeedlessIdling ==
    \A c \in Cores : ScheduledFront(ctx, c) = Null /\ ctx.pinned[c] = Null
                        => NothingToTake(ctx, c)

\* A yield is skipped (the thread's yield count is the process' count) only
\* while no other thread of its priority is queued on its core: the count
\* misses no change that would give the yield something to do.
SkippedYieldsAreIdle ==
    \A t \in ctx.fresh : ctx.state[t] = "Runnable" =>
        ctx.core[t] \in Cores /\ ctx.scheduled[ctx.core[t]][ctx.prio[t]] = <<t>>
=============================================================================
