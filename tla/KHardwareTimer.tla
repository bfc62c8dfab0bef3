--------------------------- MODULE KHardwareTimer ---------------------------
(***************************************************************************)
(* Timed waits: Kernel::KHardwareTimer (k_hardware_timer.h, .cpp and       *)
(* k_hardware_timer_base.h under src/nxemu-os/core/hle/kernel) and the     *)
(* host timing thread of Core::Timing::CoreTiming                          *)
(* (src/nxemu-os/core/core_timing.cpp) that drives it.                     *)
(*                                                                         *)
(* A thread that waits with a deadline is a task in the timer's tree.  The *)
(* timer keeps one event in CoreTiming's queue, at m_wakeup_time; the      *)
(* timing thread sleeps until the first event of its queue or until it is  *)
(* notified, pops the event and calls DoTask, which ends the waits whose   *)
(* deadlines have passed and arms the timer for the next one.              *)
(*                                                                         *)
(* Registering, cancelling and DoTask run under the scheduler lock (the    *)
(* variable section); the timing thread looks at its queue under a lock of *)
(* its own, so that it runs between the steps of EnableInterrupt and may   *)
(* have popped an event whose callback still waits for the scheduler lock. *)
(***************************************************************************)
EXTENDS Integers, Sequences, SequencesExt, FiniteSetsExt, PriorityTrees

CONSTANTS
    Threads,
    Host,           \* the timing thread
    NoThread,       \* a null KTimerTask pointer, or a free scheduler lock
    MaxTime,        \* numeric_limits<s64>::max(): also "no interrupt"
    LastTick,       \* the clock stops here: a bound for TLC
    DefaultTimeIncrement

ASSUME ThreadsAssumption == NoThread \notin Threads /\ Host \notin Threads \cup {NoThread}
ASSUME TimesAssumption == /\ MaxTime \in Nat /\ LastTick \in 1 .. (MaxTime - 1)
                          /\ DefaultTimeIncrement \in 0 .. MaxTime

VARIABLES
    now,            \* CoreTiming::GetGlobalTimeNs
    deadline,       \* absolute timeout of each thread's call, 0 outside one
    waiting,        \* threads in state Waiting
    taskTime,       \* m_time of the thread's task, 0 outside the tree
    tasks,          \* m_task_tree in order
    nextTask,       \* m_next_task
    wakeupTime,     \* m_wakeup_time
    queue,          \* times of the timer's events in CoreTiming's event_queue
    notified,       \* CoreTiming's event is set
    hostPc,         \* where the timing thread is
    sleepUntil,     \* the time it sleeps to, MaxTime when its queue was empty
    section,        \* who holds the scheduler lock
    arming,         \* how far EnableInterrupt is
    curTime         \* DoInterruptTaskImpl's cur_time

taskVars == <<deadline, waiting, taskTime, tasks, nextTask>>
hostVars == <<hostPc, sleepUntil>>
armVars == <<wakeupTime, queue, notified, arming>>
vars == <<now, taskVars, hostVars, armVars, section, curTime>>

Init ==
    /\ now = 0
    /\ deadline = [t \in Threads |-> 0]
    /\ waiting = {}
    /\ taskTime = [t \in Threads |-> 0]
    /\ tasks = <<>>
    /\ nextTask = NoThread
    /\ wakeupTime = MaxTime
    /\ queue = {}
    /\ notified = FALSE
    /\ hostPc = "advance"
    /\ sleepUntil = MaxTime
    /\ section = NoThread
    /\ arming = "no"
    /\ curTime = 0

\* Two's-complement addition of non-negative s64 values.
Add(a, b) == IF a + b > MaxTime THEN a + b - 2 * (MaxTime + 1) ELSE a + b

GetTimeoutDeadlineNs(timeout) ==
    IF timeout > MaxTime - DefaultTimeIncrement THEN MaxTime
    ELSE LET offset == Add(timeout, DefaultTimeIncrement)
         IN  IF now > MaxTime - offset THEN MaxTime ELSE Add(now, offset)

-----------------------------------------------------------------------------
(* The task tree, in order of time *)

\* Mutant: a removed first task leaves no next one.
NoSuccessor(i) == NoThread

\* The task behind position i.
Successor(i) == IF i < Len(tasks) THEN tasks[i + 1] ELSE NoThread

\* RemoveTaskFromTree: the task behind t becomes the next one if t was it.
RemoveTaskFromTree(t) ==
    \E i \in 1 .. Len(tasks) :
        /\ tasks[i] = t
        /\ tasks' = RemoveAt(tasks, i)
        /\ taskTime' = [taskTime EXCEPT ![t] = 0]
        /\ nextTask' = IF nextTask = t THEN Successor(i) ELSE nextTask

CancelTask(t) == IF taskTime[t] > 0 THEN RemoveTaskFromTree(t)
                                    ELSE UNCHANGED <<tasks, taskTime, nextTask>>

-----------------------------------------------------------------------------
(* EnableInterrupt: DisableInterrupt takes the event out of the queue, then  *)
(* the new one is scheduled, then the timing thread is notified.             *)

EnableInterrupt(time) ==
    /\ queue' = {}
    /\ wakeupTime' = time
    /\ arming' = "schedule"
    /\ UNCHANGED notified

ScheduleEvent ==
    /\ arming = "schedule"
    /\ queue' = queue \cup {wakeupTime}
    /\ arming' = "notify"
    /\ UNCHANGED <<now, taskVars, hostVars, section, curTime, wakeupTime, notified>>

\* Mutant: the timing thread is not notified.
EndQuietly ==
    /\ arming = "notify"
    /\ arming' = "no"
    /\ section' = NoThread
    /\ hostPc' = IF section = Host THEN "advance" ELSE hostPc
    /\ UNCHANGED <<now, taskVars, sleepUntil, curTime, wakeupTime, queue, notified>>

\* ... which ends the section, and the callback if this was the timing thread.
NotifyEvent ==
    /\ arming = "notify"
    /\ notified' = TRUE
    /\ arming' = "no"
    /\ section' = NoThread
    /\ hostPc' = IF section = Host THEN "advance" ELSE hostPc
    /\ UNCHANGED <<now, taskVars, sleepUntil, curTime, wakeupTime, queue>>

-----------------------------------------------------------------------------
(* Threads *)

\* A call with a timeout reads the clock before it takes the scheduler lock.
CallWithTimeout(t, timeout) ==
    /\ t \notin waiting
    /\ deadline[t] = 0
    /\ section # t
    /\ deadline' = [deadline EXCEPT ![t] = GetTimeoutDeadlineNs(timeout)]
    /\ UNCHANGED <<now, waiting, taskTime, tasks, nextTask, armVars, hostVars,
                   section, curTime>>

\* The call finds nothing to wait for (CancelSleep).
CancelSleep(t) ==
    /\ section = NoThread
    /\ deadline[t] > 0 /\ t \notin waiting
    /\ deadline' = [deadline EXCEPT ![t] = 0]
    /\ UNCHANGED <<now, waiting, taskTime, tasks, nextTask, armVars, hostVars,
                   section, curTime>>

\* Mutant: an armed timer is not armed again.
OnlyWhenDisarmed(time) == wakeupTime = MaxTime

\* Does a new first task have to move the interrupt?
NeedsInterrupt(time) == time <= wakeupTime

\* BeginWait and, in the destructor of KScopedSchedulerLockAndSleep,
\* RegisterAbsoluteTask.
RegisterAbsoluteTask(t) ==
    LET time == deadline[t]
        first == nextTask # NoThread => taskTime[nextTask] > time
    IN  /\ section = NoThread
        /\ time > 0 /\ t \notin waiting
        /\ waiting' = waiting \cup {t}
        /\ taskTime' = [taskTime EXCEPT ![t] = time]
        /\ tasks' \in TreeInsert(tasks, t, taskTime')
        /\ nextTask' = IF first THEN t ELSE nextTask
        /\ IF first /\ NeedsInterrupt(time)
           THEN EnableInterrupt(time) /\ section' = t
           ELSE UNCHANGED <<armVars, section>>
        /\ UNCHANGED <<now, deadline, hostVars, curTime>>

\* Another thread ends t's wait: KThreadQueue::EndWait, or CancelWait with
\* cancel_timer_task, and the timer's CancelTask.
EndWait(t) ==
    /\ section = NoThread
    /\ t \in waiting
    /\ waiting' = waiting \ {t}
    /\ deadline' = [deadline EXCEPT ![t] = 0]
    /\ CancelTask(t)
    /\ UNCHANGED <<now, armVars, hostVars, section, curTime>>

-----------------------------------------------------------------------------
(* The timing thread *)

\* Advance pops a due event; else ThreadLoop goes to sleep.
Advance ==
    /\ hostPc = "advance"
    /\ \/ /\ \E e \in queue : e <= now
          /\ queue' = queue \ {Min(queue)}
          /\ hostPc' = "callback"
          /\ UNCHANGED sleepUntil
       \/ /\ \A e \in queue : e > now
          /\ sleepUntil' = IF queue = {} THEN MaxTime ELSE Min(queue)
          /\ hostPc' = "sleep"
          /\ UNCHANGED queue
    /\ UNCHANGED <<now, taskVars, section, curTime, wakeupTime, notified, arming>>

\* ThreadLoop wakes: it was notified, or the time has come (it may then have
\* skipped the wait and left a notification pending).
WakeUp ==
    /\ hostPc = "sleep"
    /\ \/ notified /\ notified' = FALSE
       \/ now >= sleepUntil /\ UNCHANGED notified
    /\ hostPc' = "advance"
    /\ sleepUntil' = MaxTime
    /\ UNCHANGED <<now, taskVars, section, curTime, wakeupTime, queue, arming>>

\* DoTask, once it has the scheduler lock.
DoTask ==
    /\ hostPc = "callback"
    /\ section = NoThread
    /\ \/ /\ wakeupTime = MaxTime     \* !GetInterruptEnabled()
          /\ hostPc' = "advance"
          /\ UNCHANGED <<section, curTime, wakeupTime>>
       \/ /\ wakeupTime # MaxTime
          /\ hostPc' = "tasks"
          /\ section' = Host
          /\ curTime' = now
          /\ wakeupTime' = MaxTime
    /\ UNCHANGED <<now, taskVars, sleepUntil, queue, notified, arming>>

\* Mutant: one tick early.
DueSoon(t) == taskTime[t] <= curTime + 1

Due(t) == taskTime[t] <= curTime

\* One iteration of DoInterruptTaskImpl, and what DoTask makes of its result.
DoInterruptTask ==
    LET t == nextTask
    IN  /\ hostPc = "tasks"
        /\ arming = "no"
        /\ \/ /\ t = NoThread
              /\ hostPc' = "advance"
              /\ section' = NoThread
              /\ curTime' = 0
              /\ UNCHANGED <<taskVars, armVars>>
           \/ /\ t # NoThread
              /\ ~Due(t)
              /\ EnableInterrupt(taskTime[t])
              /\ curTime' = 0
              /\ UNCHANGED <<taskVars, hostPc, section>>
           \/ /\ t # NoThread
              /\ Due(t)
              /\ RemoveTaskFromTree(t)
              /\ waiting' = waiting \ {t}         \* OnTimer
              /\ deadline' = [deadline EXCEPT ![t] = IF t \in waiting THEN 0 ELSE @]
              /\ UNCHANGED <<armVars, hostPc, section, curTime>>
        /\ UNCHANGED <<now, sleepUntil>>

Tick ==
    /\ now < LastTick
    /\ now' = now + 1
    /\ UNCHANGED <<taskVars, hostVars, armVars, section, curTime>>

HostStep == Advance \/ WakeUp \/ DoTask \/ DoInterruptTask

Next ==
    \/ \E t \in Threads, timeout \in 1 .. MaxTime : CallWithTimeout(t, timeout)
    \/ \E t \in Threads : CancelSleep(t) \/ RegisterAbsoluteTask(t) \/ EndWait(t)
    \/ ScheduleEvent \/ NotifyEvent
    \/ HostStep
    \/ Tick

Spec == Init /\ [][Next]_vars

\* The clock advances, the timing thread runs, gets the scheduler lock in the
\* end although others take it, and EnableInterrupt is finished.
Fairness ==
    /\ WF_vars(Tick)
    /\ WF_vars(Advance \/ WakeUp \/ DoInterruptTask)
    /\ SF_vars(DoTask)
    /\ WF_vars(ScheduleEvent \/ NotifyEvent)

LiveSpec == Spec /\ Fairness

-----------------------------------------------------------------------------
TypeOK ==
    /\ now \in 0 .. LastTick
    /\ deadline \in [Threads -> 0 .. MaxTime]
    /\ waiting \in SUBSET Threads
    /\ taskTime \in [Threads -> 0 .. MaxTime]
    /\ tasks \in Seq(Threads)
    /\ nextTask \in Threads \cup {NoThread}
    /\ wakeupTime \in 1 .. MaxTime
    /\ queue \in SUBSET (1 .. MaxTime)
    /\ notified \in BOOLEAN
    /\ hostPc \in {"advance", "callback", "tasks", "sleep"}
    /\ sleepUntil \in 1 .. MaxTime
    /\ section \in Threads \cup {Host, NoThread}
    /\ arming \in {"no", "schedule", "notify"}
    /\ curTime \in 0 .. LastTick

\* m_next_task, which RegisterAbsoluteTask and RemoveTaskFromTree update apart
\* from the tree, is the tree's first task, and the tree is in order of time.
NextTaskIsFirst ==
    /\ nextTask = IF tasks = <<>> THEN NoThread ELSE tasks[1]
    /\ Sorted(tasks, taskTime)

\* A thread has a task exactly while it is in a timed wait, at that wait's
\* deadline: no task is left behind that could end a later wait of the thread.
TaskBelongsToWait ==
    /\ Distinct(tasks)
    /\ \A t \in Threads :
        /\ t \in waiting <=> In(t, tasks)
        /\ taskTime[t] = IF t \in waiting THEN deadline[t] ELSE 0

\* Whenever the scheduler lock is free, the first deadline is covered: an event
\* at or before it is in the queue, or has been popped for a DoTask that will
\* not be ignored.  (A saturated deadline of MaxTime is never reached.)
FirstDeadlineIsArmed ==
    section = NoThread /\ tasks # <<>> /\ taskTime[tasks[1]] < MaxTime =>
        /\ wakeupTime <= taskTime[tasks[1]]
        /\ wakeupTime \in queue \/ hostPc = "callback"

\* The timing thread never oversleeps an event in its queue.
HostWillWake ==
    hostPc = "sleep" /\ arming = "no" =>
        \A e \in queue : notified \/ sleepUntil <= e

\* The deadline is the saturated sum of clock, timeout and increment, whatever
\* the 64-bit additions on the way do.
DeadlineSaturates ==
    \A timeout \in 1 .. MaxTime :
        GetTimeoutDeadlineNs(timeout) = Min({MaxTime, now + timeout + DefaultTimeIncrement})

\* Type invariant, with what the timer's operations keep: the task tree and the
\* cache of its first task, the tasks of exactly the timed waits at their
\* deadlines, and a timing thread that does not oversleep.
TimerInv ==
    /\ TypeOK
    /\ NextTaskIsFirst
    /\ TaskBelongsToWait
    /\ HostWillWake
    /\ DeadlineSaturates

\* A wait is timed out only when its deadline has passed.
NeverEarly ==
    [][\A t \in waiting \ waiting' : section = Host => deadline[t] <= now]_vars

\* A wait whose deadline the clock reaches ends.
TimedWaitsEnd ==
    \A t \in Threads : t \in waiting /\ deadline[t] <= LastTick ~> t \notin waiting

=============================================================================
