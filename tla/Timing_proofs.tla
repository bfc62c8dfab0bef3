---------------------------- MODULE Timing_proofs ----------------------------
(***************************************************************************)
(* Proofs about time: about the timed waits of KHardwareTimer, for every   *)
(* number of threads and every range of times, and about the guest's clock *)
(* of SharedCpuClock, for every number of cores and of readers.  The two   *)
(* share no state; they are proved together because they rest on the same  *)
(* lemmas about least numbers.                                             *)
(***************************************************************************)
EXTENDS KHardwareTimer, SharedCpuClock, OrderLemmas

-----------------------------------------------------------------------------
(* Timed waits *)

\* Who may be at which step: the scheduler lock is the timing thread's exactly
\* during its loop over the tasks, and is held while the interrupt is armed.
SectionInv ==
    /\ section = Host <=> hostPc = "tasks"
    /\ section \in Threads => arming # "no"
    /\ arming # "no" => section # NoThread

\* Every timed wait has a deadline.
WaitsHaveDeadlines == \A t \in waiting : deadline[t] > 0

\* While the interrupt is armed, it is armed for the first task.
ArmedForFirst ==
    arming # "no" => tasks # <<>> /\ wakeupTime = taskTime[tasks[1]]

\* The first deadline is not before the wake-up time, but while the timing
\* thread, which has reset it, looks at the tasks.
WakeupBeforeFirst ==
    section # Host /\ tasks # <<>> /\ taskTime[tasks[1]] < MaxTime =>
        wakeupTime <= taskTime[tasks[1]]

\* A wake-up time is that of an event in the queue, or a DoTask is to come.
WakeupIsQueued ==
    arming # "schedule" /\ wakeupTime < MaxTime =>
        wakeupTime \in queue \/ hostPc = "callback"

\* The time that DoTask has read has been reached.
ReadTimePassed == curTime <= now

\* The inductive invariant.
TreeInv ==
    /\ NextTaskIsFirst
    /\ TaskBelongsToWait
    /\ WaitsHaveDeadlines

ArmInv ==
    /\ ArmedForFirst
    /\ WakeupBeforeFirst
    /\ WakeupIsQueued
    /\ HostWillWake
    /\ ReadTimePassed

TimerIInv == TypeOK /\ SectionInv /\ TreeInv /\ ArmInv

-----------------------------------------------------------------------------
\* What the numbers are.
LEMMA TimesAreNumbers ==
    ASSUME TypeOK
    PROVE  /\ MaxTime \in Nat /\ LastTick \in Nat /\ LastTick < MaxTime
           /\ DefaultTimeIncrement \in 0 .. MaxTime
           /\ now \in Nat /\ now <= LastTick /\ curTime \in Nat
           /\ Host \notin Threads /\ NoThread \notin Threads /\ Host # NoThread
           /\ \A t \in Threads : taskTime[t] \in Int /\ deadline[t] \in Int
           /\ \A e \in queue : e \in Nat
           /\ wakeupTime \in Nat /\ sleepUntil \in Nat
BY TimesAssumption, ThreadsAssumption DEF TypeOK

\* GetTimeoutDeadlineNs saturates instead of overflowing.
LEMMA DeadlineIs ==
    ASSUME TypeOK, NEW timeout \in 1 .. MaxTime
    PROVE  /\ GetTimeoutDeadlineNs(timeout) \in 1 .. MaxTime
           /\ GetTimeoutDeadlineNs(timeout) =
                IF now + timeout + DefaultTimeIncrement <= MaxTime
                THEN now + timeout + DefaultTimeIncrement ELSE MaxTime
<1>1. /\ MaxTime \in Nat /\ DefaultTimeIncrement \in 0 .. MaxTime /\ now \in Nat
      /\ now <= MaxTime /\ timeout \in 1 .. MaxTime
  BY TimesAreNumbers
<1>2. CASE timeout > MaxTime - DefaultTimeIncrement
  BY <1>1, <1>2 DEF GetTimeoutDeadlineNs
<1>3. CASE ~(timeout > MaxTime - DefaultTimeIncrement)
  <2> DEFINE offset == timeout + DefaultTimeIncrement
  <2>1. Add(timeout, DefaultTimeIncrement) = offset /\ offset \in 1 .. MaxTime
    BY <1>1, <1>3 DEF Add
  <2>2. GetTimeoutDeadlineNs(timeout) =
          IF now > MaxTime - offset THEN MaxTime ELSE Add(now, offset)
    BY <1>3, <2>1, Zenon DEF GetTimeoutDeadlineNs
  <2>3. now + timeout + DefaultTimeIncrement = now + offset
    BY <1>1
  <2> HIDE DEF offset
  <2>4. CASE now > MaxTime - offset
    BY <1>1, <2>1, <2>2, <2>3, <2>4
  <2>5. CASE ~(now > MaxTime - offset)
    <3>1. Add(now, offset) = now + offset
      BY <1>1, <2>1, <2>5 DEF Add
    <3>2. QED BY <1>1, <2>1, <2>2, <2>3, <2>5, <3>1
  <2>6. QED BY <2>4, <2>5
<1>4. QED BY <1>2, <1>3

\* The sum is the saturated one, at every reading of the clock.
LEMMA DeadlineIsSaturated == TypeOK => DeadlineSaturates
<1> SUFFICES ASSUME TypeOK, NEW timeout \in 1 .. MaxTime
             PROVE  GetTimeoutDeadlineNs(timeout) =
                      Min({MaxTime, now + timeout + DefaultTimeIncrement})
  BY DEF DeadlineSaturates
<1> DEFINE sum == now + timeout + DefaultTimeIncrement
<1>1. MaxTime \in Nat /\ sum \in Nat
  BY TimesAreNumbers
<1>2. GetTimeoutDeadlineNs(timeout) = IF sum <= MaxTime THEN sum ELSE MaxTime
  BY DeadlineIs, Zenon
<1> HIDE DEF sum
<1>3. {MaxTime, sum} \in SUBSET Nat /\ {MaxTime, sum} # {}
  BY <1>1
<1>4. /\ Min({MaxTime, sum}) \in {MaxTime, sum}
      /\ \A y \in {MaxTime, sum} : Min({MaxTime, sum}) <= y
  BY <1>3, MinOfNaturals, Zenon
<1>5. Min({MaxTime, sum}) = IF sum <= MaxTime THEN sum ELSE MaxTime
  BY <1>1, <1>4
<1>6. QED BY <1>2, <1>5 DEF sum

\* The first task of the tree.
LEMMA FirstTask ==
    ASSUME TypeOK, TreeInv
    PROVE  /\ tasks = <<>> <=> nextTask = NoThread
           /\ tasks # <<>> =>
                /\ tasks[1] = nextTask /\ nextTask \in waiting /\ In(nextTask, tasks)
                /\ taskTime[nextTask] = deadline[nextTask] /\ taskTime[nextTask] \in 1 .. MaxTime
                /\ Len(tasks) \in Nat \ {0}
<1> USE DEF TreeInv
<1>1. nextTask = IF tasks = <<>> THEN NoThread ELSE tasks[1]
  BY DEF NextTaskIsFirst
<1>2. ASSUME tasks # <<>>
      PROVE  Len(tasks) \in Nat \ {0} /\ tasks[1] \in Threads /\ In(tasks[1], tasks)
  <2>1. Len(tasks) \in Nat \ {0} /\ 1 \in 1 .. Len(tasks)
    BY <1>2 DEF TypeOK
  <2>2. QED BY <2>1 DEF In, TypeOK
<1>3. tasks = <<>> <=> nextTask = NoThread
  BY <1>1, <1>2, ThreadsAssumption
<1>4. ASSUME tasks # <<>>
      PROVE  /\ nextTask \in waiting
             /\ taskTime[nextTask] = deadline[nextTask] /\ taskTime[nextTask] \in 1 .. MaxTime
  <2>1. nextTask \in Threads /\ In(nextTask, tasks)
    BY <1>1, <1>2, <1>4
  <2>2. nextTask \in waiting /\ taskTime[nextTask] = deadline[nextTask]
    BY <2>1 DEF TaskBelongsToWait
  <2>3. taskTime[nextTask] \in 0 .. MaxTime /\ deadline[nextTask] > 0
    BY <2>1, <2>2 DEF TypeOK, WaitsHaveDeadlines
  <2>4. QED BY <2>2, <2>3, TimesAssumption
<1>5. QED BY <1>1, <1>2, <1>3, <1>4

-----------------------------------------------------------------------------
(* The task tree *)

\* RemoveTaskFromTree for the wait of t, with the end of that wait.
LEMMA RemoveTaskKeeps ==
    ASSUME TypeOK, TreeInv, NEW t \in waiting, RemoveTaskFromTree(t),
           waiting' = waiting \ {t}, deadline' = [deadline EXCEPT ![t] = 0]
    PROVE  /\ tasks' \in Seq(Threads) /\ taskTime' \in [Threads -> 0 .. MaxTime]
           /\ nextTask' \in Threads \cup {NoThread}
           /\ TreeInv'
           /\ tasks # <<>>
           /\ tasks' # <<>> => taskTime[tasks[1]] <= taskTime'[tasks'[1]]
<1> USE DEF TreeInv
<1>1. PICK i \in 1 .. Len(tasks) :
         /\ tasks[i] = t
         /\ tasks' = RemoveAt(tasks, i)
         /\ taskTime' = [taskTime EXCEPT ![t] = 0]
         /\ nextTask' = IF nextTask = t THEN Successor(i) ELSE nextTask
  BY DEF RemoveTaskFromTree
<1>2. /\ tasks \in Seq(Threads) /\ Distinct(tasks) /\ Sorted(tasks, taskTime)
      /\ Len(tasks) \in Nat /\ t \in Threads
      /\ taskTime \in [Threads -> 0 .. MaxTime] /\ MaxTime \in Nat
  BY TimesAssumption DEF TypeOK, TaskBelongsToWait, NextTaskIsFirst
<1>3. tasks' \in TreeErase(tasks, t)
  BY <1>1 DEF TreeErase
<1>4. /\ tasks' \in Seq(Threads) /\ Len(tasks') = Len(tasks) - 1
      /\ \A x : In(x, tasks') <=> x # t /\ In(x, tasks)
      /\ Distinct(tasks')
      /\ \A key : Sorted(tasks, key) => Sorted(tasks', key)
  BY <1>2, <1>3, TreeEraseKeeps
<1>5. \A j \in 1 .. (Len(tasks) - 1) :
         tasks'[j] = IF j < i THEN tasks[j] ELSE tasks[j + 1]
  BY <1>1, <1>2, RemoveAtPositions
<1>6. taskTime' \in [Threads -> 0 .. MaxTime]
      /\ \A x \in Threads : x # t => taskTime'[x] = taskTime[x]
  BY <1>1, <1>2
<1>7. Sorted(tasks', taskTime')
  <2>1. \A x : In(x, tasks') => taskTime[x] = taskTime'[x]
    <3>1. \A x : In(x, tasks') => x \in Threads
      BY <1>4 DEF In
    <3>2. QED BY <1>4, <1>6, <3>1
  <2>2. QED BY <1>2, <1>4, <2>1, SortedCongruence
<1>8. TaskBelongsToWait'
  <2>1. \A x \in Threads : x \in waiting' <=> In(x, tasks')
    BY <1>4 DEF TaskBelongsToWait
  <2>2. \A x \in Threads : taskTime'[x] = IF x \in waiting' THEN deadline'[x] ELSE 0
    BY <1>1, <1>2 DEF TaskBelongsToWait, TypeOK
  <2>3. QED BY <1>4, <2>1, <2>2 DEF TaskBelongsToWait
<1>9. tasks # <<>> /\ Len(tasks) >= 1
  BY <1>2
<1>10. nextTask = tasks[1]
  BY <1>9 DEF NextTaskIsFirst
<1>11. nextTask' = IF tasks' = <<>> THEN NoThread ELSE tasks'[1]
  <2>1. tasks' = <<>> <=> Len(tasks) = 1
    <3>1. tasks' \in Seq(Threads) /\ Len(tasks') = Len(tasks) - 1
      BY <1>4
    <3>2. Len(tasks) \in Nat
      BY <1>2
    <3>3. tasks' = <<>> <=> Len(tasks') = 0
      BY ONLY <3>1, EmptySeq, SMTT(30)
    <3>4. QED BY ONLY <3>1, <3>2, <3>3
  <2>2. CASE i = 1
    <3>1. nextTask' = Successor(1)
      BY <1>1, <1>10, <2>2
    <3>2. CASE Len(tasks) = 1
      BY <2>1, <3>1, <3>2 DEF Successor
    <3>3. CASE Len(tasks) # 1
      <4>1. 1 < Len(tasks) /\ 1 \in 1 .. (Len(tasks) - 1) /\ ~(1 < i)
        <5>1. Len(tasks) \in Nat /\ Len(tasks) >= 1 /\ Len(tasks) # 1
          BY <1>2, <1>9, <3>3
        <5> DEFINE n == Len(tasks)
        <5> HIDE DEF n
        <5>a. n \in Nat /\ n >= 1 /\ n # 1
          BY <5>1 DEF n
        <5>b. 1 < n /\ 1 \in 1 .. (n - 1)
          BY <5>a
        <5>2. 1 < Len(tasks) /\ 1 \in 1 .. (Len(tasks) - 1)
          BY <5>b DEF n
        <5>3. QED BY <2>2, <5>2
      <4>2. tasks'[1] = tasks[1 + 1]
        BY <1>5, <4>1
      <4>3. QED BY <2>1, <3>1, <3>3, <4>1, <4>2 DEF Successor
    <3>4. QED BY <3>2, <3>3
  <2>3. CASE i # 1
    <3>1. 1 \in 1 .. Len(tasks) /\ 1 \in 1 .. (Len(tasks) - 1) /\ 1 < i /\ Len(tasks) # 1
      BY <1>1, <1>2, <1>9, <2>3
    <3>2. tasks[1] # t
      BY <1>1, <1>2, <2>3, <3>1 DEF Distinct
    <3>3. tasks'[1] = tasks[1]
      BY <1>5, <3>1
    <3>4. QED BY <1>1, <1>10, <2>1, <3>1, <3>2, <3>3
  <2>4. QED BY <2>2, <2>3
<1>12. ASSUME tasks' # <<>>
       PROVE  tasks'[1] \in Threads /\ taskTime[tasks[1]] <= taskTime'[tasks'[1]]
  <2>1. Len(tasks') # 0 /\ 1 \in 1 .. Len(tasks')
    BY <1>2, <1>4, <1>12
  <2>2. tasks'[1] \in Threads /\ In(tasks'[1], tasks')
    BY <1>4, <2>1 DEF In
  <2>3. In(tasks'[1], tasks) /\ tasks'[1] # t
    BY <1>4, <2>2
  <2>4. \A x \in Threads : taskTime[x] \in Int
    BY <1>2
  <2>5. taskTime[tasks[1]] <= taskTime[tasks'[1]]
    BY <1>2, <2>3, <2>4, FrontIsLeast
  <2>6. QED BY <1>6, <2>2, <2>3, <2>5
<1>13. nextTask' \in Threads \cup {NoThread}
  BY <1>11, <1>12
<1>14. WaitsHaveDeadlines'
  BY DEF WaitsHaveDeadlines, TypeOK
<1>15. QED
  BY <1>4, <1>6, <1>7, <1>8, <1>9, <1>11, <1>12, <1>13, <1>14 DEF NextTaskIsFirst

\* RegisterAbsoluteTask puts the wait of t in the tree; it becomes the first task
\* exactly when it is due before all others.
LEMMA RegisterTaskKeeps ==
    ASSUME TypeOK, TreeInv, NEW t \in Threads, RegisterAbsoluteTask(t)
    PROVE  /\ tasks' \in Seq(Threads) /\ taskTime' \in [Threads -> 0 .. MaxTime]
           /\ TreeInv' /\ tasks' # <<>>
           /\ nextTask' \in {t, nextTask}
           /\ nextTask' = t => taskTime'[tasks'[1]] = deadline[t]
           /\ nextTask' # t => tasks # <<>> /\ tasks'[1] = tasks[1]
                                /\ taskTime'[tasks[1]] = taskTime[tasks[1]]
<1> USE DEF TreeInv
<1> DEFINE time == deadline[t]
<1>1. /\ time > 0 /\ t \notin waiting /\ waiting' = waiting \cup {t}
      /\ taskTime' = [taskTime EXCEPT ![t] = time]
      /\ tasks' \in TreeInsert(tasks, t, taskTime')
      /\ deadline' = deadline
      /\ nextTask' = IF nextTask # NoThread => taskTime[nextTask] > time THEN t ELSE nextTask
  BY DEF RegisterAbsoluteTask
<1>2. /\ tasks \in Seq(Threads) /\ Distinct(tasks) /\ Sorted(tasks, taskTime)
      /\ ~In(t, tasks) /\ Len(tasks) \in Nat
      /\ taskTime \in [Threads -> 0 .. MaxTime] /\ time \in 0 .. MaxTime /\ MaxTime \in Nat
  BY <1>1, TimesAssumption DEF TypeOK, TaskBelongsToWait, NextTaskIsFirst
<1> HIDE DEF time
<1>3. /\ taskTime' \in [Threads -> 0 .. MaxTime] /\ taskTime'[t] = time
      /\ \A x \in Threads : x # t => taskTime'[x] = taskTime[x]
      /\ \A x \in Threads : taskTime'[x] \in Int /\ taskTime[x] \in Int
  BY <1>1, <1>2
<1>4. \A x : In(x, tasks) => x \in Threads /\ x # t
  BY <1>2 DEF In
<1>5. Sorted(tasks, taskTime')
  BY <1>2, <1>3, <1>4, SortedCongruence
<1>6. /\ tasks' \in Seq(Threads) /\ Len(tasks') = Len(tasks) + 1
      /\ \A x : In(x, tasks') <=> x = t \/ In(x, tasks)
      /\ Distinct(tasks') /\ Sorted(tasks', taskTime')
  BY <1>1, <1>2, <1>3, <1>5, TreeInsertKeeps, ZenonT(60)
<1>7. tasks' # <<>> /\ 1 \in 1 .. Len(tasks') /\ In(tasks'[1], tasks')
  <2>1. Len(tasks') >= 1
    BY <1>2, <1>6
  <2>2. QED BY <2>1 DEF In
<1>8. TaskBelongsToWait'
  <2>1. \A x \in Threads : x \in waiting' <=> In(x, tasks')
    BY <1>1, <1>6 DEF TaskBelongsToWait
  <2>2. \A x \in Threads : taskTime'[x] = IF x \in waiting' THEN deadline'[x] ELSE 0
    BY <1>1, <1>3 DEF TaskBelongsToWait, time
  <2>3. QED BY <1>6, <2>1, <2>2 DEF TaskBelongsToWait
<1>9. WaitsHaveDeadlines'
  BY <1>1 DEF WaitsHaveDeadlines, time
<1>10. PICK i \in 1 .. (Len(tasks) + 1) :
          IsInsertPosition(tasks, i, taskTime'[t], taskTime') /\ tasks' = InsertAt(tasks, i, t)
  BY <1>1 DEF TreeInsert
<1>11. tasks'[1] = IF 1 < i THEN tasks[1] ELSE t
  <2>1. \A j \in 1 .. (Len(tasks) + 1) :
           tasks'[j] = IF j < i THEN tasks[j] ELSE IF j = i THEN t ELSE tasks[j - 1]
    <3>1. \A j \in 1 .. (Len(tasks) + 1) : InsertAt(tasks, i, t)[j] =
             IF j < i THEN tasks[j] ELSE IF j = i THEN t ELSE tasks[j - 1]
      <4>1. tasks \in Seq(Threads) /\ i \in 1 .. (Len(tasks) + 1) /\ t \in Threads
        BY <1>2, <1>10
      <4>2. QED BY ONLY <4>1, InsertAtPositions, SMTT(30)
    <3>2. QED BY <1>10, <3>1, Zenon
  <2>2. 1 \in 1 .. (Len(tasks) + 1) /\ (~(1 < i) => 1 = i)
    BY <1>2
  <2>3. QED BY <2>1, <2>2
<1>12. nextTask = IF tasks = <<>> THEN NoThread ELSE tasks[1]
  BY DEF NextTaskIsFirst
<1>13. CASE i = 1
  <2>1. tasks'[1] = t
    BY <1>11, <1>13
  <2>2. nextTask # NoThread => taskTime[nextTask] > time
    <3>1. SUFFICES ASSUME tasks # <<>> PROVE taskTime[tasks[1]] > time
      BY <1>12
    <3>2. 1 \in 1 .. Len(tasks) /\ tasks[1] \in Threads /\ In(tasks[1], tasks)
      <4>1. Len(tasks) # 0 /\ 1 \in 1 .. Len(tasks)
        BY <1>2, <3>1
      <4>2. QED BY <1>2, <4>1 DEF In
    <3>3. taskTime'[tasks[1]] > time
      BY <1>3, <1>10, <1>13, <3>2 DEF IsInsertPosition
    <3>4. QED BY <1>3, <1>4, <3>2, <3>3
  <2>3. nextTask' = t
    BY <1>1, <2>2
  <2>4. QED
    BY <1>3, <1>6, <1>7, <1>8, <1>9, <2>1, <2>3 DEF NextTaskIsFirst, time
<1>14. CASE i # 1
  <2>1. 1 < i /\ tasks'[1] = tasks[1] /\ 1 \in 1 .. (i - 1) /\ 1 \in 1 .. Len(tasks)
        /\ tasks # <<>>
    BY <1>2, <1>11, <1>14
  <2>2. tasks[1] \in Threads /\ In(tasks[1], tasks) /\ tasks[1] # t
    BY <1>2, <1>4, <2>1 DEF In
  <2>3. taskTime'[tasks[1]] <= time /\ taskTime'[tasks[1]] = taskTime[tasks[1]]
    BY <1>3, <1>10, <2>1, <2>2 DEF IsInsertPosition
  <2>4. nextTask = tasks[1] /\ nextTask # NoThread
    BY <1>12, <2>1, <2>2, ThreadsAssumption
  <2>5. ~(taskTime[nextTask] > time)
    BY <1>2, <1>3, <2>2, <2>3, <2>4
  <2>6. nextTask' = nextTask
    BY <1>1, <2>4, <2>5
  <2>7. QED
    BY <1>3, <1>6, <1>7, <1>8, <1>9, <2>1, <2>2, <2>3, <2>4, <2>6 DEF NextTaskIsFirst
<1>15. QED BY <1>13, <1>14

-----------------------------------------------------------------------------
(* The invariant *)

\* No task is registered yet.
LEMMA TimerIInvInit == Init => TimerIInv
<1> SUFFICES ASSUME Init PROVE TimerIInv
  OBVIOUS
<1>1. TypeOK
  <2>1. MaxTime \in 1 .. MaxTime /\ 0 \in 0 .. MaxTime /\ 0 \in 0 .. LastTick
    BY TimesAssumption
  <2>2. <<>> \in Seq(Threads)
    OBVIOUS
  <2>3. QED BY <2>1, <2>2 DEF Init, TypeOK
<1>2. SectionInv
  BY ThreadsAssumption DEF Init, SectionInv
<1>3. Len(<<>>) = 0 /\ tasks = <<>>
  BY DEF Init
<1>4. TreeInv
  BY <1>3 DEF Init, TreeInv, NextTaskIsFirst, TaskBelongsToWait, WaitsHaveDeadlines,
              Sorted, Distinct, In
<1>5. ArmInv
  BY TimesAssumption DEF Init, ArmInv, ArmedForFirst, WakeupBeforeFirst, WakeupIsQueued,
                         HostWillWake, ReadTimePassed
<1>6. QED BY <1>1, <1>2, <1>4, <1>5 DEF TimerIInv

\* A call that has not begun to wait, or does not, has no task.
LEMMA CallKeeps ==
    ASSUME TimerIInv, NEW t \in Threads, NEW timeout \in 1 .. MaxTime,
           CallWithTimeout(t, timeout) \/ CancelSleep(t)
    PROVE  TimerIInv'
<1> USE DEF TimerIInv
<1>1. /\ t \notin waiting
      /\ UNCHANGED <<now, waiting, taskTime, tasks, nextTask, armVars, hostVars,
                     section, curTime>>
      /\ \E d \in 0 .. MaxTime : deadline' = [deadline EXCEPT ![t] = d]
  <2>1. GetTimeoutDeadlineNs(timeout) \in 0 .. MaxTime /\ 0 \in 0 .. MaxTime
    BY DeadlineIs, TimesAssumption
  <2>2. QED BY <2>1 DEF CallWithTimeout, CancelSleep
<1>2. TypeOK'
  BY <1>1 DEF TypeOK, armVars, hostVars
<1>3. SectionInv'
  BY <1>1 DEF SectionInv, armVars, hostVars
<1>4. TreeInv'
  BY <1>1 DEF TypeOK, TreeInv, NextTaskIsFirst, TaskBelongsToWait, WaitsHaveDeadlines
<1>5. ArmInv'
  BY <1>1 DEF ArmInv, ArmedForFirst, WakeupBeforeFirst, WakeupIsQueued, HostWillWake,
              ReadTimePassed, armVars, hostVars
<1>6. QED BY <1>2, <1>3, <1>4, <1>5

\* A wait begins; the interrupt is armed if it is the first one to end and the
\* wake-up time is not before its deadline already.
LEMMA RegisterKeeps ==
    ASSUME TimerIInv, NEW t \in Threads, RegisterAbsoluteTask(t)
    PROVE  TimerIInv'
<1> USE DEF TimerIInv
<1> DEFINE time == deadline[t]
           first == nextTask # NoThread => taskTime[nextTask] > time
<1>1. /\ section = NoThread /\ arming = "no" /\ hostPc # "tasks"
      /\ time \in 1 .. MaxTime
      /\ UNCHANGED <<now, deadline, hostVars, curTime>>
      /\ waiting' = waiting \cup {t}
      /\ nextTask' = IF first THEN t ELSE nextTask
  BY ThreadsAssumption, TimesAssumption DEF RegisterAbsoluteTask, SectionInv, TypeOK
<1>2. \/ /\ first /\ time <= wakeupTime /\ section' = t
         /\ queue' = {} /\ wakeupTime' = time /\ arming' = "schedule" /\ notified' = notified
      \/ /\ ~(first /\ time <= wakeupTime)
         /\ UNCHANGED <<armVars, section>>
  BY DEF RegisterAbsoluteTask, NeedsInterrupt, EnableInterrupt
<1>3. /\ tasks' \in Seq(Threads) /\ taskTime' \in [Threads -> 0 .. MaxTime]
      /\ TreeInv' /\ tasks' # <<>>
      /\ nextTask' \in {t, nextTask}
      /\ nextTask' = t => taskTime'[tasks'[1]] = time
      /\ nextTask' # t => tasks # <<>> /\ tasks'[1] = tasks[1]
                           /\ taskTime'[tasks[1]] = taskTime[tasks[1]]
  BY RegisterTaskKeeps
<1>4. ~first => nextTask' # t
  <2>1. SUFFICES ASSUME ~first PROVE nextTask # t
    BY <1>1
  <2>2. nextTask # NoThread /\ ~(taskTime[nextTask] > time)
    BY <2>1
  <2>3. nextTask \in waiting
    BY <2>2, FirstTask
  <2>4. QED BY <2>3 DEF RegisterAbsoluteTask
<1>5. /\ wakeupTime \in Nat /\ MaxTime \in Nat /\ time \in Nat
      /\ first => nextTask' = t
  BY <1>1, TimesAreNumbers
<1> HIDE DEF time, first
<1>6. TypeOK'
  BY <1>1, <1>2, <1>3 DEF TypeOK, armVars, hostVars
<1>7. SectionInv'
  BY <1>1, <1>2, ThreadsAssumption DEF SectionInv, armVars, hostVars
<1>8. ArmedForFirst'
  BY <1>1, <1>2, <1>3, <1>5 DEF ArmedForFirst, armVars
<1>9. WakeupBeforeFirst'
  <2>1. CASE first /\ time <= wakeupTime
    BY <1>2, <1>3, <1>5, <2>1 DEF WakeupBeforeFirst
  <2>2. CASE first /\ ~(time <= wakeupTime)
    BY <1>2, <1>3, <1>5, <2>2 DEF WakeupBeforeFirst, armVars
  <2>3. CASE ~first
    <3>1. UNCHANGED <<armVars, section>> /\ nextTask' # t
      BY <1>2, <1>4, <2>3
    <3>2. QED BY <1>3, <3>1 DEF WakeupBeforeFirst, ArmInv, armVars
  <2>4. QED BY <2>1, <2>2, <2>3
<1>10. WakeupIsQueued' /\ HostWillWake' /\ ReadTimePassed'
  BY <1>1, <1>2 DEF ArmInv, WakeupIsQueued, HostWillWake, ReadTimePassed, armVars, hostVars
<1>11. QED BY <1>3, <1>6, <1>7, <1>8, <1>9, <1>10 DEF ArmInv

\* Another thread ends a wait: the interrupt stays where it is, at or before the
\* new first deadline.
LEMMA EndWaitKeeps ==
    ASSUME TimerIInv, NEW t \in Threads, EndWait(t)
    PROVE  TimerIInv'
<1> USE DEF TimerIInv
<1>1. /\ section = NoThread /\ arming = "no" /\ t \in waiting
      /\ waiting' = waiting \ {t} /\ deadline' = [deadline EXCEPT ![t] = 0]
      /\ UNCHANGED <<now, armVars, hostVars, section, curTime>>
  BY DEF EndWait, SectionInv, TypeOK
<1>2. RemoveTaskFromTree(t)
  <2>1. taskTime[t] > 0
    BY <1>1 DEF TreeInv, TaskBelongsToWait, WaitsHaveDeadlines
  <2>2. QED BY <2>1 DEF EndWait, CancelTask
<1>3. /\ tasks' \in Seq(Threads) /\ taskTime' \in [Threads -> 0 .. MaxTime]
      /\ nextTask' \in Threads \cup {NoThread}
      /\ TreeInv'
      /\ tasks # <<>>
      /\ tasks' # <<>> => taskTime[tasks[1]] <= taskTime'[tasks'[1]]
  BY <1>1, <1>2, RemoveTaskKeeps
<1>4. 0 \in 0 .. MaxTime
  BY TimesAssumption
<1>5. TypeOK'
  BY <1>1, <1>3, <1>4 DEF TypeOK, armVars, hostVars
<1>6. SectionInv'
  BY <1>1 DEF SectionInv, armVars, hostVars
<1>7. WakeupBeforeFirst'
  <2>1. SUFFICES ASSUME tasks' # <<>>, taskTime'[tasks'[1]] < MaxTime
                 PROVE  wakeupTime <= taskTime'[tasks'[1]]
    BY <1>1 DEF WakeupBeforeFirst, armVars
  <2>2. taskTime[tasks[1]] \in Int /\ taskTime'[tasks'[1]] \in Int
        /\ wakeupTime \in Int /\ MaxTime \in Int
    <3>2. tasks'[1] \in Threads /\ tasks[1] \in Threads
      BY <1>3, <2>1, FrontExists DEF TypeOK
    <3>3. QED BY <1>3, <3>2, TimesAssumption DEF TypeOK
  <2>3. section # Host
    BY <1>1, ThreadsAssumption
  <2>4. QED BY <1>3, <2>1, <2>2, <2>3 DEF ArmInv, WakeupBeforeFirst
<1>8. ArmedForFirst' /\ WakeupIsQueued' /\ HostWillWake' /\ ReadTimePassed'
  BY <1>1 DEF ArmInv, ArmedForFirst, WakeupIsQueued, HostWillWake, ReadTimePassed,
              armVars, hostVars
<1>9. QED BY <1>3, <1>5, <1>6, <1>7, <1>8 DEF ArmInv

\* The two later steps of EnableInterrupt, and the end of the section.
LEMMA ArmingKeeps ==
    ASSUME TimerIInv, ScheduleEvent \/ NotifyEvent
    PROVE  TimerIInv'
<1> USE DEF TimerIInv
<1>1. UNCHANGED <<now, deadline, waiting, taskTime, tasks, nextTask, sleepUntil, curTime,
                  wakeupTime>>
  BY DEF ScheduleEvent, NotifyEvent, taskVars, hostVars
<1>2. TreeInv'
  BY <1>1 DEF TreeInv, NextTaskIsFirst, TaskBelongsToWait, WaitsHaveDeadlines
<1>3. /\ arming # "no" /\ tasks # <<>> /\ wakeupTime = taskTime[tasks[1]]
      /\ wakeupTime \in Nat
  BY TimesAreNumbers DEF ScheduleEvent, NotifyEvent, ArmInv, ArmedForFirst
<1>4. CASE ScheduleEvent
  <2>1. /\ arming = "schedule" /\ queue' = queue \cup {wakeupTime} /\ arming' = "notify"
        /\ UNCHANGED <<hostPc, section, notified>>
    BY <1>4 DEF ScheduleEvent, hostVars
  <2>2. TypeOK'
    BY <1>1, <2>1 DEF TypeOK
  <2>3. SectionInv'
    BY <2>1 DEF SectionInv
  <2>4. ArmInv'
    BY <1>1, <1>3, <2>1
    DEF ArmInv, ArmedForFirst, WakeupBeforeFirst, WakeupIsQueued, HostWillWake, ReadTimePassed
  <2>5. QED BY <1>2, <2>2, <2>3, <2>4
<1>5. CASE NotifyEvent
  <2>1. /\ arming = "notify" /\ notified' = TRUE /\ arming' = "no" /\ section' = NoThread
        /\ hostPc' = IF section = Host THEN "advance" ELSE hostPc
        /\ queue' = queue
    BY <1>5 DEF NotifyEvent
  <2>2. TypeOK'
    BY <1>1, <2>1 DEF TypeOK
  <2>3. SectionInv'
    BY <2>1, ThreadsAssumption DEF SectionInv
  <2>4. WakeupIsQueued'
    <3>1. wakeupTime < MaxTime => wakeupTime \in queue \/ hostPc = "callback"
      BY <2>1 DEF ArmInv, WakeupIsQueued
    <3>2. hostPc = "callback" => hostPc' = "callback"
      BY <2>1 DEF SectionInv
    <3>3. QED BY <1>1, <2>1, <3>1, <3>2 DEF WakeupIsQueued
  <2>5. ArmInv'
    BY <1>1, <1>3, <2>1, <2>4
    DEF ArmInv, ArmedForFirst, WakeupBeforeFirst, HostWillWake, ReadTimePassed
  <2>6. QED BY <1>2, <2>2, <2>3, <2>5
<1>6. QED BY <1>4, <1>5

\* The timing thread pops an event, goes to sleep or wakes up.
LEMMA LoopKeeps ==
    ASSUME TimerIInv, Advance \/ WakeUp
    PROVE  TimerIInv'
<1> USE DEF TimerIInv
<1>1. UNCHANGED <<now, deadline, waiting, taskTime, tasks, nextTask, section, curTime,
                  wakeupTime, arming>>
  BY DEF Advance, WakeUp, taskVars
<1>2. TreeInv'
  BY <1>1 DEF TreeInv, NextTaskIsFirst, TaskBelongsToWait, WaitsHaveDeadlines
<1>3. ArmedForFirst' /\ WakeupBeforeFirst' /\ ReadTimePassed'
  BY <1>1 DEF ArmInv, ArmedForFirst, WakeupBeforeFirst, ReadTimePassed
<1>4. MaxTime \in 1 .. MaxTime /\ queue \in SUBSET (1 .. MaxTime) /\ queue \in SUBSET Nat
  BY TimesAssumption DEF TypeOK
<1>5. CASE Advance /\ hostPc' = "callback"
  <2>1. /\ hostPc = "advance" /\ queue' \in SUBSET queue
        /\ UNCHANGED <<sleepUntil, notified>>
    BY <1>5 DEF Advance
  <2>2. TypeOK'
    BY <1>1, <1>5, <2>1 DEF TypeOK
  <2>3. SectionInv'
    BY <1>1, <1>5, <2>1 DEF SectionInv
  <2>4. WakeupIsQueued' /\ HostWillWake'
    BY <1>5 DEF WakeupIsQueued, HostWillWake
  <2>5. QED BY <1>2, <1>3, <2>2, <2>3, <2>4 DEF ArmInv
<1>6. CASE Advance /\ hostPc' # "callback"
  <2>1. /\ hostPc = "advance" /\ hostPc' = "sleep"
        /\ sleepUntil' = IF queue = {} THEN MaxTime ELSE Min(queue)
        /\ UNCHANGED <<queue, notified>>
    BY <1>6 DEF Advance
  <2>2. queue # {} => Min(queue) \in queue /\ \A e \in queue : Min(queue) <= e
    BY <1>4, MinOfNaturals
  <2>3. sleepUntil' \in 1 .. MaxTime /\ \A e \in queue : sleepUntil' <= e
    BY <1>4, <2>1, <2>2
  <2>4. TypeOK'
    BY <1>1, <2>1, <2>3 DEF TypeOK
  <2>5. SectionInv'
    BY <1>1, <2>1 DEF SectionInv
  <2>6. WakeupIsQueued' /\ HostWillWake'
    BY <1>1, <2>1, <2>3 DEF ArmInv, WakeupIsQueued, HostWillWake
  <2>7. QED BY <1>2, <1>3, <2>4, <2>5, <2>6 DEF ArmInv
<1>7. CASE WakeUp
  <2>1. /\ hostPc = "sleep" /\ hostPc' = "advance" /\ sleepUntil' = MaxTime
        /\ queue' = queue /\ notified' \in BOOLEAN
    BY <1>7 DEF WakeUp, TypeOK
  <2>2. TypeOK'
    BY <1>1, <1>4, <2>1 DEF TypeOK
  <2>3. SectionInv'
    BY <1>1, <2>1 DEF SectionInv
  <2>4. WakeupIsQueued' /\ HostWillWake'
    BY <1>1, <2>1 DEF ArmInv, WakeupIsQueued, HostWillWake
  <2>5. QED BY <1>2, <1>3, <2>2, <2>3, <2>4 DEF ArmInv
<1>8. QED BY <1>5, <1>6, <1>7

\* DoTask reads the clock and resets the wake-up time, or is ignored because it
\* has been reset before.
LEMMA DoTaskKeeps ==
    ASSUME TimerIInv, DoTask
    PROVE  TimerIInv'
<1> USE DEF TimerIInv
<1>1. /\ hostPc = "callback" /\ section = NoThread /\ arming = "no"
      /\ UNCHANGED <<now, deadline, waiting, taskTime, tasks, nextTask, sleepUntil, queue,
                     notified, arming>>
  BY DEF DoTask, taskVars, SectionInv, TypeOK
<1>2. \/ /\ wakeupTime = MaxTime /\ hostPc' = "advance"
         /\ UNCHANGED <<section, curTime, wakeupTime>>
      \/ /\ hostPc' = "tasks" /\ section' = Host /\ curTime' = now /\ wakeupTime' = MaxTime
  BY DEF DoTask
<1>3. TreeInv'
  BY <1>1 DEF TreeInv, NextTaskIsFirst, TaskBelongsToWait, WaitsHaveDeadlines
<1>4. MaxTime \in 1 .. MaxTime /\ MaxTime \in Nat /\ now \in Nat
  BY TimesAssumption DEF TypeOK
<1>5. TypeOK'
  BY <1>1, <1>2, <1>4 DEF TypeOK
<1>6. SectionInv'
  BY <1>1, <1>2, ThreadsAssumption DEF SectionInv
<1>7. ArmInv'
  BY <1>1, <1>2, <1>4, ThreadsAssumption
  DEF ArmInv, ArmedForFirst, WakeupBeforeFirst, WakeupIsQueued, HostWillWake, ReadTimePassed
<1>8. QED BY <1>3, <1>5, <1>6, <1>7

\* One iteration of the loop over the tasks ends the first wait if it is due,
\* arms the interrupt for it if it is not, and ends the loop if there is none.
LEMMA DoInterruptTaskKeeps ==
    ASSUME TimerIInv, DoInterruptTask
    PROVE  TimerIInv'
<1> USE DEF TimerIInv
<1>1. /\ hostPc = "tasks" /\ section = Host /\ arming = "no"
      /\ UNCHANGED <<now, sleepUntil>>
  BY DEF DoInterruptTask, SectionInv
<1>2. 0 \in 0 .. LastTick /\ 0 <= now /\ now \in Nat /\ 0 \in 0 .. MaxTime
  BY TimesAssumption DEF TypeOK
<1>3. CASE nextTask = NoThread
  <2>1. /\ hostPc' = "advance" /\ section' = NoThread /\ curTime' = 0
        /\ UNCHANGED <<taskVars, armVars>>
    BY <1>3 DEF DoInterruptTask
  <2>2. tasks = <<>>
    BY <1>3, FirstTask
  <2>3. TypeOK'
    BY <1>1, <1>2, <2>1 DEF TypeOK, taskVars, armVars
  <2>4. SectionInv'
    BY <1>1, <2>1, ThreadsAssumption DEF SectionInv, armVars
  <2>5. TreeInv'
    BY <2>1 DEF TreeInv, NextTaskIsFirst, TaskBelongsToWait, WaitsHaveDeadlines, taskVars
  <2>6. ArmInv'
    BY <1>1, <1>2, <2>1, <2>2
    DEF ArmInv, ArmedForFirst, WakeupBeforeFirst, WakeupIsQueued, HostWillWake,
        ReadTimePassed, taskVars, armVars
  <2>7. QED BY <2>3, <2>4, <2>5, <2>6
<1>4. CASE nextTask # NoThread /\ ~Due(nextTask)
  <2>1. /\ queue' = {} /\ wakeupTime' = taskTime[nextTask] /\ arming' = "schedule"
        /\ curTime' = 0 /\ UNCHANGED <<taskVars, hostPc, section, notified>>
    BY <1>4 DEF DoInterruptTask, EnableInterrupt
  <2>2. tasks # <<>> /\ tasks[1] = nextTask /\ taskTime[nextTask] \in 1 .. MaxTime
    BY <1>4, FirstTask
  <2>3. TypeOK'
    BY <1>1, <1>2, <2>1, <2>2 DEF TypeOK, taskVars
  <2>4. SectionInv'
    BY <1>1, <2>1, ThreadsAssumption DEF SectionInv
  <2>5. TreeInv'
    BY <2>1 DEF TreeInv, NextTaskIsFirst, TaskBelongsToWait, WaitsHaveDeadlines, taskVars
  <2>6. ArmInv'
    BY <1>1, <1>2, <2>1, <2>2
    DEF ArmInv, ArmedForFirst, WakeupBeforeFirst, WakeupIsQueued, HostWillWake,
        ReadTimePassed, taskVars
  <2>7. QED BY <2>3, <2>4, <2>5, <2>6
<1>5. CASE nextTask # NoThread /\ Due(nextTask)
  <2>1. nextTask \in waiting
    BY <1>5, FirstTask
  <2>2. /\ RemoveTaskFromTree(nextTask)
        /\ waiting' = waiting \ {nextTask}
        /\ deadline' = [deadline EXCEPT ![nextTask] = 0]
        /\ UNCHANGED <<armVars, hostPc, section, curTime>>
    BY <1>5, <2>1 DEF DoInterruptTask
  <2>3. /\ tasks' \in Seq(Threads) /\ taskTime' \in [Threads -> 0 .. MaxTime]
        /\ nextTask' \in Threads \cup {NoThread}
        /\ TreeInv'
    BY <2>1, <2>2, RemoveTaskKeeps
  <2>4. TypeOK'
    BY <1>1, <1>2, <2>1, <2>2, <2>3 DEF TypeOK, armVars
  <2>5. SectionInv'
    BY <1>1, <2>2 DEF SectionInv, armVars
  <2>6. ArmInv'
    BY <1>1, <2>2
    DEF ArmInv, ArmedForFirst, WakeupBeforeFirst, WakeupIsQueued, HostWillWake,
        ReadTimePassed, armVars
  <2>7. QED BY <2>3, <2>4, <2>5, <2>6
<1>6. QED BY <1>3, <1>4, <1>5

\* The clock advances.
LEMMA TickKeeps ==
    ASSUME TimerIInv, Tick
    PROVE  TimerIInv'
<1> USE DEF TimerIInv
<1>1. /\ now' = now + 1 /\ now < LastTick
      /\ UNCHANGED <<taskVars, hostVars, armVars, section, curTime>>
  BY DEF Tick
<1>2. now \in Nat /\ curTime \in Nat /\ LastTick \in Nat
  BY TimesAreNumbers
<1>3. TypeOK'
  BY <1>1, <1>2 DEF TypeOK, taskVars, hostVars, armVars
<1>4. SectionInv'
  BY <1>1 DEF SectionInv, hostVars, armVars
<1>5. TreeInv'
  BY <1>1 DEF TreeInv, NextTaskIsFirst, TaskBelongsToWait, WaitsHaveDeadlines, taskVars
<1>6. ArmInv'
  BY <1>1, <1>2
  DEF ArmInv, ArmedForFirst, WakeupBeforeFirst, WakeupIsQueued, HostWillWake,
      ReadTimePassed, taskVars, hostVars, armVars
<1>7. QED BY <1>3, <1>4, <1>5, <1>6

\* Every step keeps the invariant.
LEMMA TimerIInvNext == TimerIInv /\ [Next]_vars => TimerIInv'
<1> SUFFICES ASSUME TimerIInv, [Next]_vars PROVE TimerIInv'
  OBVIOUS
<1>1. ASSUME NEW t \in Threads, NEW timeout \in 1 .. MaxTime, CallWithTimeout(t, timeout)
      PROVE  TimerIInv'
  BY <1>1, CallKeeps
<1>2. ASSUME NEW t \in Threads, CancelSleep(t) PROVE TimerIInv'
  <2>1. MaxTime \in 1 .. MaxTime
    BY TimesAssumption
  <2>2. QED BY <1>2, <2>1, CallKeeps
<1>3. ASSUME NEW t \in Threads, RegisterAbsoluteTask(t) PROVE TimerIInv'
  BY <1>3, RegisterKeeps
<1>4. ASSUME NEW t \in Threads, EndWait(t) PROVE TimerIInv'
  BY <1>4, EndWaitKeeps
<1>5. CASE ScheduleEvent \/ NotifyEvent
  BY <1>5, ArmingKeeps
<1>6. CASE HostStep
  BY <1>6, LoopKeeps, DoTaskKeeps, DoInterruptTaskKeeps DEF HostStep
<1>7. CASE Tick
  BY <1>7, TickKeeps
<1>8. CASE UNCHANGED vars
  BY <1>8 DEF TimerIInv, TypeOK, SectionInv, TreeInv, NextTaskIsFirst, TaskBelongsToWait,
              WaitsHaveDeadlines, ArmInv, ArmedForFirst, WakeupBeforeFirst, WakeupIsQueued,
              HostWillWake, ReadTimePassed, vars, taskVars, hostVars, armVars
<1>9. QED BY <1>1, <1>2, <1>3, <1>4, <1>5, <1>6, <1>7, <1>8 DEF Next

-----------------------------------------------------------------------------
(* The theorems *)

\* The inductive invariant of the timed waits.
THEOREM TimerInvariant == Spec => []TimerIInv
<1>1. Init => TimerIInv
  BY TimerIInvInit
<1>2. TimerIInv /\ [Next]_vars => TimerIInv'
  BY TimerIInvNext
<1>3. QED BY <1>1, <1>2, PTL DEF Spec

\* The task tree and m_next_task belong to exactly the timed waits, the timing
\* thread does not oversleep, and deadlines saturate.
THEOREM TimerInvHolds == Spec => []TimerInv
<1>1. TimerIInv => TimerInv
  BY DeadlineIsSaturated DEF TimerIInv, TreeInv, ArmInv, TimerInv
<1>2. QED BY <1>1, TimerInvariant, PTL

\* Whenever the scheduler lock is free the timer is armed for the first deadline,
\* whatever steps of the timing thread and of EnableInterrupt come between.
THEOREM FirstDeadlineStaysArmed == Spec => []FirstDeadlineIsArmed
<1>1. TimerIInv => FirstDeadlineIsArmed
  <2> SUFFICES ASSUME TimerIInv, section = NoThread, tasks # <<>>,
                      taskTime[tasks[1]] < MaxTime
               PROVE  /\ wakeupTime <= taskTime[tasks[1]]
                      /\ wakeupTime \in queue \/ hostPc = "callback"
    BY DEF FirstDeadlineIsArmed
  <2>1. section # Host /\ arming = "no"
    BY ThreadsAssumption DEF TimerIInv, SectionInv, TypeOK
  <2>2. wakeupTime <= taskTime[tasks[1]]
    BY <2>1 DEF TimerIInv, ArmInv, WakeupBeforeFirst
  <2>3. wakeupTime < MaxTime
    <3>1. tasks[1] \in Threads
      BY FrontExists DEF TimerIInv, TypeOK
    <3>2. taskTime[tasks[1]] \in Int /\ wakeupTime \in Int /\ MaxTime \in Int
      BY <3>1, TimesAssumption DEF TimerIInv, TypeOK
    <3>3. QED BY <2>2, <3>2
  <2>4. QED BY <2>1, <2>2, <2>3 DEF TimerIInv, ArmInv, WakeupIsQueued
<1>2. QED BY <1>1, TimerInvariant, PTL

\* The timing thread ends no wait before its deadline.
THEOREM TimerIsNeverEarly == Spec => NeverEarly
<1> DEFINE Step == \A t \in waiting \ waiting' : section = Host => deadline[t] <= now
<1>1. TimerIInv /\ [Next]_vars => [Step]_vars
  <2> SUFFICES ASSUME TimerIInv, [Next]_vars, NEW t \in waiting \ waiting', section = Host
               PROVE  deadline[t] <= now
    OBVIOUS
  <2>1. section # NoThread /\ hostPc = "tasks"
    BY ThreadsAssumption DEF TimerIInv, SectionInv
  <2>2. DoInterruptTask
    BY <2>1
    DEF Next, HostStep, CallWithTimeout, CancelSleep, RegisterAbsoluteTask, EndWait,
        ScheduleEvent, NotifyEvent, Advance, WakeUp, DoTask, Tick, vars, taskVars
  <2>3. nextTask # NoThread /\ Due(nextTask) /\ t = nextTask
    BY <2>2 DEF DoInterruptTask, taskVars
  <2>4. taskTime[t] = deadline[t] /\ taskTime[t] <= curTime
    BY <2>3 DEF TimerIInv, TreeInv, TaskBelongsToWait, TypeOK, Due
  <2>5. curTime <= now /\ curTime \in Int /\ now \in Int /\ deadline[t] \in Int
    BY TimesAreNumbers DEF TimerIInv, ArmInv, ReadTimePassed, TypeOK
  <2>6. QED BY <2>4, <2>5
<1>2. QED BY <1>1, TimerInvariant, PTL DEF Spec, NeverEarly


-----------------------------------------------------------------------------
(* The shared clock *)

Times == 0 .. LastHostTick

\* What the slots can hold.
Clocks == [base : [Cores -> Times], anchor : [Cores -> Times],
           compiling : SUBSET Cores, active : SUBSET Cores,
           running : SUBSET Cores, runnable : SUBSET Cores,
           idleBase : Times, idleAnchor : Times, paceBase : Times, paceAnchor : Times,
           paused : BOOLEAN]

CoreOps == {"begin", "end", "compile", "compiled"}
SampledOps == {"pause", "runnable"}

FrontPcs == {"idle", "clock", "pause", "resume", "wake", "spin", "shut", "join", "gone"}

\* Type invariant, with the times the clock's readers and writers can hold.
TypeInv ==
    /\ host \in Times
    /\ clock \in Clocks
    /\ published \in 0 .. host
    /\ writer # Nobody =>
          IF writer.op = "runnable" THEN writer \in Writers(RunnableMasks)
                                    ELSE writer \in Writers(BOOLEAN)
    /\ odd \in BOOLEAN
    /\ sample \in [Readers -> 0 .. host]
    /\ unchanged \in SUBSET Readers
    /\ candidate \in [Readers -> 0 .. host]
    /\ rpc = [r \in Readers |-> rpc[r]]
    /\ cpc = [c \in Cores |-> cpc[c]]
    /\ tpc \in {"outer", "check", "pauseWait", "advance", "measure", "ask", "blocked", "wait",
                "clear", "timed", "done"}
    /\ {event, waitingForCompilation, paused, pausedSet, pauseEvent, shuttingDown} \subseteq BOOLEAN
    /\ fpc \in FrontPcs
    /\ started \in [Cores -> Nat]

-----------------------------------------------------------------------------
(* The control: writers, compilations, pauses *)

\* Where a core is while it writes.
CoreBefore(op) ==
    CASE op = "begin" -> "out"
      [] op = "end" -> "guest"
      [] op = "compile" -> "guest"
      [] op = "compiled" -> "compiling"

\* sequence is odd only while somebody writes, and the writer stands where its
\* operation began.
WriterInPlace ==
    /\ writer = Nobody => ~odd
    /\ writer # Nobody =>
          IF writer.op \in CoreOps
          THEN writer.core \in Cores /\ cpc[writer.core] = CoreBefore(writer.op)
          ELSE /\ writer.core = Nobody
               /\ writer.op = "pause" => fpc = "clock"

\* A core whose slot is frozen compiles, and has not yet looked for the timing
\* thread.
FrozenCoresCompile == \A c \in clock.compiling : cpc[c] = "compiling"

\* A core in the guest takes part.
GuestCoresRun ==
    \A c \in Cores : cpc[c] \in {"guest", "compiling", "notify"} => c \in clock.running

\* The thread that resets the core timing has set paused, and shuttingDown
\* before it wakes the timing thread.
ShutDownInOrder ==
    /\ fpc \in {"idle", "clock", "pause", "resume", "spin", "shut"} => ~shuttingDown
    /\ fpc \in {"join", "gone"} => shuttingDown
    /\ Resetting => paused

\* While SyncPause spins, a notification the timing thread has used up has taken
\* it on its way to the test of paused.
SpinIsHeard ==
    fpc = "spin" /\ pausedSet # paused =>
        /\ event \/ tpc \in {"clear", "check"}
        /\ pauseEvent \/ tpc \in {"outer", "check"}

\* The same while Reset joins the thread, which ends at the outer loop.
JoinIsHeard ==
    fpc = "join" =>
        /\ event \/ tpc \in {"clear", "check", "pauseWait", "outer", "done"}
        /\ pauseEvent \/ tpc \in {"outer", "done"}

ControlInv ==
    /\ WriterInPlace
    /\ FrozenCoresCompile
    /\ GuestCoresRun
    /\ SleepEndsWithCompilation
    /\ ShutDownInOrder
    /\ SpinIsHeard
    /\ JoinIsHeard

-----------------------------------------------------------------------------
(* The times *)

\* The time of core c in slots k at host time h.
SlotAt(k, c, h) == IF k.paused THEN k.base[c] ELSE SlotTime(k, c, h)

\* The slots are not ahead of the host: no subtraction wraps.
Sound(k, h) ==
    /\ k \in Clocks
    /\ k.running \subseteq k.active
    /\ k.active = k.running \cup k.runnable
    /\ \A c \in Cores : k.base[c] <= h /\ k.anchor[c] <= h
    /\ k.paceBase <= h /\ k.paceAnchor <= h
    /\ ~k.paused => /\ k.paceBase <= k.paceAnchor
                    /\ \A c \in k.active \ k.compiling : k.base[c] <= k.anchor[c]

\* No anchor is later than h.
AnchoredBefore(k, h) ==
    /\ k.paceAnchor <= h
    /\ \A c \in k.active \ k.compiling : k.anchor[c] <= h

\* What a writer has sampled is not in the future, nor, for the operations that
\* store the host time they have sampled, before what the slots hold.
WriterSampled ==
    writer # Nobody =>
        /\ writer.now <= host /\ writer.host <= host
        /\ writer.op \in SampledOps =>
              /\ writer.now <= writer.host
              /\ \A c \in Cores : clock.base[c] <= writer.host /\ clock.anchor[c] <= writer.host
              /\ clock.paceBase <= writer.host /\ clock.paceAnchor <= writer.host

\* A reader whose sample of sequence still holds has sampled the host's clock
\* after all that is stored.
SamplesFollow ==
    /\ odd => unchanged = {}
    /\ \A r \in unchanged : ~clock.paused /\ AnchoredBefore(clock, sample[r])

\* What a reader has computed may be published at any later time.
CandidatesFollow ==
    \A r \in Readers, c \in clock.active : candidate[r] <= Larger(started[c], TimeOf(c))

TimeInv ==
    /\ Sound(clock, host)
    /\ WriterSampled
    /\ SamplesFollow
    /\ CandidatesFollow
    /\ FollowsLeastAdvanced

ClockIInv == TypeInv /\ ControlInv /\ TimeInv

-----------------------------------------------------------------------------
(* Arithmetic on the slots *)

\* Unsigned subtraction is exact where it does not wrap.
LEMMA SinceIsExact ==
    ASSUME NEW a \in Times, NEW b \in Times, b <= a
    PROVE  Since(a, b) = a - b /\ a - b \in Times
<1>1. LastHostTick \in Nat /\ Modulus \in Nat /\ a - b \in 0 .. (Modulus - 1)
    BY TimesFit DEF Times
<1>2. QED
    BY <1>1 DEF Since, Times

\* A slot's time lies between its base and the host's.
LEMMA SlotAtBounds ==
    ASSUME NEW k, NEW h \in Times, NEW s \in Times, s <= h, NEW c \in k.active,
           Sound(k, h), ~k.paused, AnchoredBefore(k, s)
    PROVE  /\ SlotTime(k, c, s) \in Times /\ SlotTime(k, c, s) <= h
           /\ k.base[c] <= SlotTime(k, c, s)
           /\ \A g \in Times : s <= g => SlotTime(k, c, s) <= SlotTime(k, c, g)
<1>1. /\ c \in Cores /\ k.base[c] \in Times /\ k.anchor[c] \in Times
      /\ k.base[c] <= h
    BY DEF Sound, Clocks
<1>2. CASE c \in k.compiling
    BY <1>1, <1>2, TimesFit DEF SlotTime, Times
<1>3. CASE c \notin k.compiling
  <2>1. k.anchor[c] <= s /\ k.base[c] <= k.anchor[c]
      BY <1>3 DEF Sound, AnchoredBefore
  <2>2. SlotTime(k, c, s) = k.base[c] + (s - k.anchor[c])
      BY <1>1, <1>3, <2>1, SinceIsExact DEF SlotTime
  <2>3. \A g \in Times : s <= g => SlotTime(k, c, g) = k.base[c] + (g - k.anchor[c])
      BY <1>1, <1>3, <2>1, SinceIsExact, TimesFit DEF SlotTime, Times
  <2>4. QED
      BY <1>1, <2>1, <2>2, <2>3, TimesFit DEF Times
<1>4. QED
    BY <1>2, <1>3

\* What a reader computes is not ahead of the host, nor of a participant.
LEMMA ClockTimeBounds ==
    ASSUME NEW k, NEW h \in Times, NEW s \in Times, s <= h,
           Sound(k, h), ~k.paused, AnchoredBefore(k, s)
    PROVE  /\ ClockTime(k, s) \in Times /\ ClockTime(k, s) <= s
           /\ \A c \in k.active : ClockTime(k, s) <= SlotTime(k, c, s)
<1> DEFINE pace == k.paceBase + Since(s, k.paceAnchor)
           others == IF k.active = {} THEN {k.idleBase + Since(s, k.idleAnchor)}
                     ELSE {SlotTime(k, c, s) : c \in k.active}
<1>1. pace \in Nat /\ pace <= s
  <2>1. k.paceBase \in Times /\ k.paceAnchor \in Times /\ k.paceBase <= k.paceAnchor
        /\ k.paceAnchor <= s
      BY DEF Sound, Clocks, AnchoredBefore
  <2>2. QED
      BY <2>1, SinceIsExact, TimesFit DEF Times
<1>2. others \in SUBSET Nat
  <2>1. k.idleBase + Since(s, k.idleAnchor) \in Nat
    <3>1. Modulus \in Nat /\ Modulus > 0 /\ s \in Int
        BY TimesFit DEF Times
    <3>2. k.idleBase \in Nat /\ k.idleAnchor \in Int
        BY DEF Sound, Clocks, Times
    <3>3. Since(s, k.idleAnchor) \in Nat
        BY <3>1, <3>2 DEF Since
    <3>4. QED
        BY <3>2, <3>3
  <2>2. \A c \in k.active : SlotTime(k, c, s) \in Nat
      BY SlotAtBounds, TimesFit DEF Times
  <2>3. QED
      BY <2>1, <2>2
<1>3. {pace} \cup others \in SUBSET Nat /\ {pace} \cup others # {}
    BY <1>1, <1>2
<1>4. /\ Min({pace} \cup others) \in {pace} \cup others
      /\ \A y \in {pace} \cup others : Min({pace} \cup others) <= y
    BY <1>3, MinOfNaturals
<1>5. ClockTime(k, s) = Min({pace} \cup others)
    BY DEF ClockTime
<1> HIDE DEF pace
<1>6. ClockTime(k, s) \in Nat /\ ClockTime(k, s) <= pace
    BY <1>3, <1>4, <1>5
<1>7. \A c \in k.active : SlotTime(k, c, s) \in others
    OBVIOUS
<1> HIDE DEF others
<1>8. ClockTime(k, s) <= s
    BY <1>1, <1>6, TimesFit DEF Times
<1>9. \A c \in k.active : ClockTime(k, s) <= SlotTime(k, c, s)
    BY <1>4, <1>5, <1>7
<1>10. QED
    BY <1>6, <1>8, <1>9, TimesFit DEF Times

-----------------------------------------------------------------------------
(* What writers store *)

\* The slot of core c is as it was, for a core that took part already.
Kept(k, k2, c) ==
    /\ k2.base[c] = k.base[c] /\ k2.anchor[c] = k.anchor[c]
    /\ c \in k2.active => c \in k.active
    /\ c \in k2.compiling <=> c \in k.compiling

\* It starts again, no earlier than it was if the core took part already.
Restarted(k, k2, c, h) ==
    /\ k2.base[c] <= k2.anchor[c] /\ k2.anchor[c] <= h
    /\ c \in k.active => SlotAt(k, c, h) <= k2.base[c]

\* The fields of slots.
LEMMA ClockFields ==
    ASSUME NEW k \in Clocks
    PROVE  /\ k.base \in [Cores -> Times] /\ k.anchor \in [Cores -> Times]
           /\ k.active \subseteq Cores /\ k.compiling \subseteq Cores
           /\ k.running \subseteq Cores /\ k.runnable \subseteq Cores
           /\ k.paceBase \in Times /\ k.paceAnchor \in Times
           /\ k.idleBase \in Times /\ k.idleAnchor \in Times
           /\ k.paused \in BOOLEAN
    BY DEF Clocks

\* The time of a participant now.
LEMMA SlotAtNow ==
    ASSUME NEW k, NEW h \in Times, Sound(k, h), NEW c \in k.active
    PROVE  /\ SlotAt(k, c, h) \in Times /\ SlotAt(k, c, h) <= h
           /\ k.base[c] <= SlotAt(k, c, h)
<1>0. k \in Clocks
    BY DEF Sound
<1>1. AnchoredBefore(k, h) /\ h <= h
    BY <1>0, ClockFields, TimesFit DEF Sound, AnchoredBefore, Times
<1>2. c \in Cores /\ k.base[c] \in Times /\ k.base[c] <= h
    BY <1>0, ClockFields DEF Sound
<1>3. CASE k.paused
    BY <1>2, <1>3 DEF SlotAt, Times
<1>4. CASE ~k.paused
  <2>1. /\ SlotTime(k, c, h) \in Times /\ SlotTime(k, c, h) <= h
        /\ k.base[c] <= SlotTime(k, c, h)
      BY <1>1, <1>4, SlotAtBounds
  <2>2. QED
      BY <1>4, <2>1 DEF SlotAt
<1>5. QED
    BY <1>3, <1>4

\* Stores that keep or restart every slot leave sound slots, none of them earlier.
LEMMA SlotsGoForward ==
    ASSUME NEW k, NEW k2, NEW h \in Times, Sound(k, h), k2 \in Clocks,
           k2.running \subseteq k2.active, k2.active = k2.running \cup k2.runnable,
           k2.paused = k.paused,
           k2.paceBase = k.paceBase, k2.paceAnchor = k.paceAnchor,
           \A c \in Cores : Kept(k, k2, c) \/ Restarted(k, k2, c, h)
    PROVE  /\ Sound(k2, h)
           /\ \A c \in k.active \cap k2.active : SlotAt(k, c, h) <= SlotAt(k2, c, h)
<1>0. /\ k \in Clocks
      /\ k2.active \subseteq Cores
      /\ \A c \in Cores : /\ k.base[c] \in Times /\ k.anchor[c] \in Times
                          /\ k2.base[c] \in Times /\ k2.anchor[c] \in Times
    BY ClockFields DEF Sound
<1>1. \A c \in Cores : k2.base[c] <= h /\ k2.anchor[c] <= h
    BY <1>0 DEF Sound, Kept, Restarted, Times
<1>2. Sound(k2, h)
  <2>1. ~k2.paused => \A c \in k2.active \ k2.compiling : k2.base[c] <= k2.anchor[c]
      BY <1>0 DEF Sound, Kept, Restarted
  <2>2. QED
      BY <1>1, <2>1 DEF Sound
<1>3. ASSUME NEW c \in k.active \cap k2.active
      PROVE  SlotAt(k, c, h) <= SlotAt(k2, c, h)
  <2>1. c \in Cores
      BY <1>0
  <2>2. SlotAt(k, c, h) \in Times /\ SlotAt(k2, c, h) \in Times /\ k2.base[c] <= SlotAt(k2, c, h)
      BY <1>2, SlotAtNow
  <2>3. CASE Kept(k, k2, c)
    <3>1. SlotAt(k2, c, h) = SlotAt(k, c, h)
        BY <2>3 DEF Kept, SlotAt, SlotTime
    <3>2. QED
        BY <3>1, <2>2 DEF Times
  <2>4. CASE Restarted(k, k2, c, h)
      BY <1>0, <2>1, <2>2, <2>4 DEF Times, Restarted
  <2>5. QED
      BY <2>1, <2>3, <2>4
<1>4. QED
    BY <1>2, <1>3

\* The fields of slots of which one has moved on.
LEMMA AccumulateStores ==
    ASSUME NEW k, NEW h \in Times, Sound(k, h), NEW c \in k.active
    PROVE  /\ Accumulate(k, c, h) \in Clocks
           /\ Accumulate(k, c, h).base[c] = SlotAt(k, c, h)
           /\ Accumulate(k, c, h).anchor[c] = h
           /\ \A d \in Cores \ {c} : /\ Accumulate(k, c, h).base[d] = k.base[d]
                                     /\ Accumulate(k, c, h).anchor[d] = k.anchor[d]
           /\ Accumulate(k, c, h).compiling = k.compiling
           /\ Accumulate(k, c, h).active = k.active
           /\ Accumulate(k, c, h).running = k.running
           /\ Accumulate(k, c, h).runnable = k.runnable
           /\ Accumulate(k, c, h).paceBase = k.paceBase
           /\ Accumulate(k, c, h).paceAnchor = k.paceAnchor
           /\ Accumulate(k, c, h).paused = k.paused
<1> DEFINE a == Accumulate(k, c, h)
           b == [k EXCEPT !.base = [k.base EXCEPT ![c] = SlotAt(k, c, h)],
                          !.anchor = [k.anchor EXCEPT ![c] = h]]
<1>1. c \in Cores /\ k \in Clocks
    BY ClockFields DEF Sound
<1>2. SlotAt(k, c, h) \in Times
    BY SlotAtNow
<1>3. a = b
    BY <1>1 DEF Accumulate, SlotAt, Clocks
<1>4. /\ b \in Clocks
      /\ b.base = [k.base EXCEPT ![c] = SlotAt(k, c, h)]
      /\ b.anchor = [k.anchor EXCEPT ![c] = h]
      /\ b.compiling = k.compiling /\ b.active = k.active
      /\ b.running = k.running /\ b.runnable = k.runnable
      /\ b.paceBase = k.paceBase /\ b.paceAnchor = k.paceAnchor
      /\ b.paused = k.paused
    BY <1>1, <1>2 DEF Clocks
<1>5. QED
    BY <1>1, <1>3, <1>4, ClockFields

\* A core that enters the guest restarts its slot.
LEMMA BeginIsSound ==
    ASSUME NEW k, NEW h \in Times, Sound(k, h), NEW c \in Cores, NEW at \in Times, at <= h
    PROVE  /\ Sound(Begin(k, c, at, h), h)
           /\ c \in Begin(k, c, at, h).running
           /\ \A d \in k.active : SlotAt(k, d, h) <= SlotAt(Begin(k, c, at, h), d, h)
<1> DEFINE own == IF c \notin k.active THEN at ELSE Accumulate(k, c, h).base[c]
           k2 == Begin(k, c, at, h)
<1>0. k \in Clocks
    BY DEF Sound
<1>1. own \in Times /\ own <= h /\ (c \in k.active => own = SlotAt(k, c, h))
  <2>1. CASE c \notin k.active
      BY <2>1
  <2>2. CASE c \in k.active
    <3>1. own = SlotAt(k, c, h)
        BY <2>2, AccumulateStores
    <3>2. QED
        BY <2>2, <3>1, SlotAtNow
  <2>3. QED
      BY <2>1, <2>2
<1>2. k2 = [k EXCEPT !.base[c] = Larger(at, own), !.anchor[c] = h, !.compiling = @ \ {c},
                     !.running = @ \cup {c}, !.active = @ \cup {c}]
    BY DEF Begin
<1> HIDE DEF own, k2
<1>3. Larger(at, own) \in Times /\ Larger(at, own) <= h /\ own <= Larger(at, own)
    BY <1>1, TimesFit DEF Larger, Times
<1>4. /\ k2 \in Clocks
      /\ k2.base = [k.base EXCEPT ![c] = Larger(at, own)]
      /\ k2.anchor = [k.anchor EXCEPT ![c] = h]
      /\ k2.compiling = k.compiling \ {c}
      /\ k2.running = k.running \cup {c}
      /\ k2.active = k.active \cup {c}
      /\ k2.runnable = k.runnable
      /\ k2.paused = k.paused /\ k2.paceBase = k.paceBase /\ k2.paceAnchor = k.paceAnchor
    BY <1>0, <1>2, <1>3 DEF Clocks
<1>5. \A d \in Cores \ {c} : Kept(k, k2, d)
    BY <1>0, <1>4, ClockFields DEF Kept
<1>6. k2.base[c] = Larger(at, own) /\ k2.anchor[c] = h
    BY <1>0, <1>4, ClockFields
<1>7. Restarted(k, k2, c, h)
    BY <1>1, <1>3, <1>6 DEF Restarted, Times
<1>8. k2.running \subseteq k2.active /\ k2.active = k2.running \cup k2.runnable
    BY <1>4 DEF Sound
<1>9. /\ Sound(k2, h)
      /\ \A d \in k.active \cap k2.active : SlotAt(k, d, h) <= SlotAt(k2, d, h)
    BY <1>4, <1>5, <1>7, <1>8, SlotsGoForward
<1>10. QED
    BY <1>4, <1>9 DEF k2

\* A core that leaves the guest settles its slot.
LEMMA EndIsSound ==
    ASSUME NEW k, NEW h \in Times, Sound(k, h), NEW c \in k.active, NEW at \in Times
    PROVE  /\ Sound(End(k, c, at, h), h)
           /\ End(k, c, at, h).running = k.running \ {c}
           /\ End(k, c, at, h).compiling = k.compiling
           /\ \A d \in k.active \cap End(k, c, at, h).active :
                 SlotAt(k, d, h) <= SlotAt(End(k, c, at, h), d, h)
<1> DEFINE k2 == End(k, c, at, h)
           a == Accumulate(k, c, h)
<1>0. k \in Clocks /\ c \in Cores
    BY ClockFields DEF Sound
<1>1. SlotAt(k, c, h) \in Times /\ SlotAt(k, c, h) <= h
    BY SlotAtNow
<1>2. k2 = [[a EXCEPT !.running = k.running \ {c},
                      !.active = (k.running \ {c}) \cup k.runnable]
               EXCEPT !.idleBase = at, !.idleAnchor = h]
    BY DEF End, SetIdle
<1>3. /\ a \in Clocks
      /\ a.base[c] = SlotAt(k, c, h) /\ a.anchor[c] = h
      /\ \A d \in Cores \ {c} : a.base[d] = k.base[d] /\ a.anchor[d] = k.anchor[d]
      /\ a.compiling = k.compiling /\ a.active = k.active
      /\ a.running = k.running /\ a.runnable = k.runnable
      /\ a.paceBase = k.paceBase /\ a.paceAnchor = k.paceAnchor
      /\ a.paused = k.paused
    BY AccumulateStores
<1> HIDE DEF k2, a
<1>4. /\ k2 \in Clocks
      /\ k2.base = a.base /\ k2.anchor = a.anchor
      /\ k2.compiling = k.compiling
      /\ k2.running = k.running \ {c}
      /\ k2.active = (k.running \ {c}) \cup k.runnable
      /\ k2.runnable = k.runnable
      /\ k2.paused = k.paused /\ k2.paceBase = k.paceBase /\ k2.paceAnchor = k.paceAnchor
    BY <1>0, <1>1, <1>2, <1>3 DEF Clocks
<1>5. \A d \in Cores \ {c} : Kept(k, k2, d)
    BY <1>3, <1>4 DEF Kept, Sound
<1>6. k2.base[c] = SlotAt(k, c, h) /\ k2.anchor[c] = h
    BY <1>3, <1>4
<1>7. Restarted(k, k2, c, h)
    BY <1>1, <1>6 DEF Restarted, Times
<1>8. k2.running \subseteq k2.active /\ k2.active = k2.running \cup k2.runnable
    BY <1>4 DEF Sound
<1>9. /\ Sound(k2, h)
      /\ \A d \in k.active \cap k2.active : SlotAt(k, d, h) <= SlotAt(k2, d, h)
    BY <1>4, <1>5, <1>7, <1>8, SlotsGoForward
<1>10. QED
    BY <1>4, <1>9 DEF k2

\* A core freezes its slot, or lets it run again, where it is.
LEMMA CompileIsSound ==
    ASSUME NEW k, NEW h \in Times, Sound(k, h), NEW c \in k.active, NEW on \in BOOLEAN
    PROVE  /\ Sound(Compile(k, c, on, h), h)
           /\ Compile(k, c, on, h).running = k.running
           /\ Compile(k, c, on, h).active = k.active
           /\ on => Compile(k, c, on, h).compiling = k.compiling \cup {c}
           /\ ~on => Compile(k, c, on, h).compiling = k.compiling \ {c}
           /\ \A d \in k.active : SlotAt(k, d, h) <= SlotAt(Compile(k, c, on, h), d, h)
<1> DEFINE k2 == Compile(k, c, on, h)
           a == Accumulate(k, c, h)
<1>0. k \in Clocks /\ c \in Cores
    BY ClockFields DEF Sound
<1>1. SlotAt(k, c, h) \in Times /\ SlotAt(k, c, h) <= h
    BY SlotAtNow
<1>2. k2 = [a EXCEPT !.compiling = IF on THEN a.compiling \cup {c} ELSE a.compiling \ {c}]
    BY DEF Compile
<1>3. /\ a \in Clocks
      /\ a.base[c] = SlotAt(k, c, h) /\ a.anchor[c] = h
      /\ \A d \in Cores \ {c} : a.base[d] = k.base[d] /\ a.anchor[d] = k.anchor[d]
      /\ a.compiling = k.compiling /\ a.active = k.active
      /\ a.running = k.running /\ a.runnable = k.runnable
      /\ a.paceBase = k.paceBase /\ a.paceAnchor = k.paceAnchor
      /\ a.paused = k.paused
    BY AccumulateStores
<1> HIDE DEF k2, a
<1>4. /\ k2 \in Clocks
      /\ k2.base = a.base /\ k2.anchor = a.anchor
      /\ k2.compiling = IF on THEN k.compiling \cup {c} ELSE k.compiling \ {c}
      /\ k2.running = k.running
      /\ k2.active = k.active
      /\ k2.runnable = k.runnable
      /\ k2.paused = k.paused /\ k2.paceBase = k.paceBase /\ k2.paceAnchor = k.paceAnchor
    BY <1>0, <1>1, <1>2, <1>3 DEF Clocks
<1>5. \A d \in Cores \ {c} : Kept(k, k2, d)
    BY <1>3, <1>4 DEF Kept
<1>6. k2.base[c] = SlotAt(k, c, h) /\ k2.anchor[c] = h
    BY <1>3, <1>4
<1>7. Restarted(k, k2, c, h)
    BY <1>1, <1>6 DEF Restarted, Times
<1>9. /\ Sound(k2, h)
      /\ \A d \in k.active \cap k2.active : SlotAt(k, d, h) <= SlotAt(k2, d, h)
    BY <1>4, <1>5, <1>7, SlotsGoForward DEF Sound
<1>10. QED
    BY <1>4, <1>9 DEF k2

\* Cores that become runnable start at the time the scheduler has sampled.
LEMMA SetRunnableMaskIsSound ==
    ASSUME NEW k, NEW h \in Times, Sound(k, h), NEW mask \in SUBSET Cores,
           NEW g \in Times, g <= h, NEW at \in Times, at <= g
    PROVE  /\ Sound(SetRunnableMask(k, mask, at, g), h)
           /\ SetRunnableMask(k, mask, at, g).running = k.running
           /\ SetRunnableMask(k, mask, at, g).compiling \subseteq k.compiling
           /\ \A d \in k.active \cap SetRunnableMask(k, mask, at, g).active :
                 SlotAt(k, d, h) <= SlotAt(SetRunnableMask(k, mask, at, g), d, h)
<1> DEFINE k2 == SetRunnableMask(k, mask, at, g)
           new == mask \ k.active
<1>0. k \in Clocks
    BY DEF Sound
<1>4. /\ k2 \in Clocks
      /\ k2.base = [c \in Cores |-> IF c \in new THEN at ELSE k.base[c]]
      /\ k2.anchor = [c \in Cores |-> IF c \in new THEN g ELSE k.anchor[c]]
      /\ k2.compiling = k.compiling \ new
      /\ k2.running = k.running
      /\ k2.active = mask \cup k.running
      /\ k2.runnable = mask
      /\ k2.paused = k.paused /\ k2.paceBase = k.paceBase /\ k2.paceAnchor = k.paceAnchor
    BY <1>0, ClockFields DEF SetRunnableMask, SetIdle, Clocks
<1> HIDE DEF k2
<1>5. \A d \in Cores \ new : Kept(k, k2, d)
    BY <1>0, <1>4, ClockFields DEF Kept, Sound
<1>6. \A d \in new : k2.base[d] = at /\ k2.anchor[d] = g
    BY <1>0, <1>4, ClockFields
<1>7. \A d \in new : Restarted(k, k2, d, h)
    BY <1>6 DEF Restarted, Times
<1>8. k2.running \subseteq k2.active /\ k2.active = k2.running \cup k2.runnable
    BY <1>4 DEF Sound
<1>9. /\ Sound(k2, h)
      /\ \A d \in k.active \cap k2.active : SlotAt(k, d, h) <= SlotAt(k2, d, h)
    BY <1>4, <1>5, <1>7, <1>8, SlotsGoForward
<1>10. QED
    BY <1>4, <1>9 DEF k2

\* A pause or its end restarts every slot at the time it has sampled.
LEMMA PauseIsSound ==
    ASSUME NEW k, NEW h \in Times, Sound(k, h), NEW stop \in BOOLEAN,
           NEW g \in Times, g <= h, NEW at \in Times, at <= g,
           \A c \in Cores : k.base[c] <= g /\ k.anchor[c] <= g, k.paceBase <= g, k.paceAnchor <= g
    PROVE  /\ Sound(Pause(k, stop, at, g), h)
           /\ Pause(k, stop, at, g).running = k.running
           /\ Pause(k, stop, at, g).compiling = k.compiling
           /\ Pause(k, stop, at, g).active = k.active
<1> DEFINE k2 == Pause(k, stop, at, g)
           Frozen(c) == IF c \in k.active THEN Accumulate(k, c, g).base[c] ELSE k.base[c]
<1>0. k \in Clocks /\ Sound(k, g)
    BY DEF Sound
<1>1. \A c \in Cores : Frozen(c) \in Times /\ Frozen(c) <= g
  <2> SUFFICES ASSUME NEW c \in Cores
               PROVE  Frozen(c) \in Times /\ Frozen(c) <= g
      OBVIOUS
  <2>1. CASE c \notin k.active
      BY <1>0, <2>1, ClockFields DEF Sound
  <2>2. CASE c \in k.active
    <3>1. Frozen(c) = SlotAt(k, c, g)
        BY <1>0, <2>2, AccumulateStores
    <3>2. QED
        BY <1>0, <2>2, <3>1, SlotAtNow
  <2>3. QED
      BY <2>1, <2>2
<1>2. k2 = SetIdle([k EXCEPT !.base = [c \in Cores |-> Larger(at, Frozen(c))],
                             !.anchor = [c \in Cores |-> g],
                             !.paceBase = at, !.paceAnchor = g,
                             !.paused = stop], at, g)
    BY DEF Pause
<1> HIDE DEF Frozen, k2
<1>3. \A c \in Cores : Larger(at, Frozen(c)) \in Times /\ Larger(at, Frozen(c)) <= g
    BY <1>1, TimesFit DEF Larger, Times
<1>4. /\ k2 \in Clocks
      /\ k2.base = [c \in Cores |-> Larger(at, Frozen(c))]
      /\ k2.anchor = [c \in Cores |-> g]
      /\ k2.compiling = k.compiling
      /\ k2.running = k.running
      /\ k2.active = k.active
      /\ k2.runnable = k.runnable
      /\ k2.paceBase = at /\ k2.paceAnchor = g
    BY <1>0, <1>2, <1>3 DEF SetIdle, Clocks
<1>5. \A c \in Cores : k2.base[c] <= g /\ k2.anchor[c] = g
    BY <1>3, <1>4
<1>6. \A c \in Cores : k2.base[c] <= h /\ k2.anchor[c] <= h
    BY <1>4, <1>5, ClockFields DEF Times
<1>7. Sound(k2, h)
    BY <1>0, <1>4, <1>5, <1>6, ClockFields DEF Sound, Times
<1>8. QED
    BY <1>4, <1>7 DEF k2

\* What Forget drops is not read.
LEMMA ForgetIsSound ==
    ASSUME NEW k, NEW h \in Times, Sound(k, h)
    PROVE  /\ Sound(Forget(k), h)
           /\ Forget(k).running = k.running
           /\ Forget(k).compiling = k.compiling
           /\ Forget(k).active = k.active
           /\ \A c \in k.active : SlotAt(Forget(k), c, h) = SlotAt(k, c, h)
<1> DEFINE k2 == Forget(k)
           Stands(c) == k.paused \/ c \in k.compiling \/ c \notin k.active
<1>0. k \in Clocks /\ 0 \in Times
    BY TimesFit DEF Sound, Times
<1>1. /\ k2 \in Clocks
      /\ k2.base = [c \in Cores |-> IF c \in k.active THEN k.base[c] ELSE 0]
      /\ k2.anchor = [c \in Cores |-> IF Stands(c) THEN 0 ELSE k.anchor[c]]
      /\ k2.compiling = k.compiling
      /\ k2.running = k.running
      /\ k2.active = k.active
      /\ k2.runnable = k.runnable
      /\ k2.paused = k.paused
      /\ k2.paceBase = k.paceBase
      /\ k2.paceAnchor = IF k.paused THEN 0 ELSE k.paceAnchor
    BY <1>0, ClockFields DEF Forget, Clocks
<1> HIDE DEF k2
<1>2. \A c \in Cores : k2.base[c] \in {k.base[c], 0} /\ k2.anchor[c] \in {k.anchor[c], 0}
    BY <1>1
<1>3. \A c \in Cores : k2.base[c] <= h /\ k2.anchor[c] <= h
    BY <1>0, <1>2, ClockFields DEF Sound, Times
<1>4. \A c \in k.active : k2.base[c] = k.base[c]
    BY <1>0, <1>1, ClockFields
<1>5. ~k.paused => \A c \in k.active \ k.compiling : k2.anchor[c] = k.anchor[c]
    BY <1>0, <1>1, ClockFields
<1>6. Sound(k2, h)
  <2>1. ~k2.paused => \A c \in k2.active \ k2.compiling : k2.base[c] <= k2.anchor[c]
      BY <1>0, <1>1, <1>4, <1>5 DEF Sound
  <2>2. k2.paceBase <= h /\ k2.paceAnchor <= h
      BY <1>0, <1>1, ClockFields DEF Sound, Times
  <2>3. QED
      BY <1>1, <1>3, <2>1, <2>2 DEF Sound
<1>7. \A c \in k.active : SlotAt(k2, c, h) = SlotAt(k, c, h)
    BY <1>1, <1>4, <1>5 DEF SlotAt, SlotTime
<1>8. QED
    BY <1>1, <1>6, <1>7 DEF k2

-----------------------------------------------------------------------------
(* The inductive invariant *)

\* The times hold initially: nobody takes part and nothing has been computed.
LEMMA InitHolds == ClockInit => ClockIInv
<1> SUFFICES ASSUME ClockInit
             PROVE  ClockIInv
    OBVIOUS
<1>1. 0 \in Times
    BY TimesFit DEF Times
<1>2. clock \in Clocks /\ clock.active = {} /\ clock.compiling = {} /\ clock.running = {}
      /\ clock.runnable = {} /\ clock.paceBase = 0 /\ clock.paceAnchor = 0 /\ clock.paused = TRUE
      /\ \A c \in Cores : clock.base[c] = 0 /\ clock.anchor[c] = 0
    BY <1>1 DEF ClockInit, Clocks
<1>3. TypeInv
  <2>1. host = 0 /\ published = 0 /\ 0 \in 0 .. host
      BY DEF ClockInit
  <2>2. sample \in [Readers -> 0 .. host] /\ candidate \in [Readers -> 0 .. host]
      BY <2>1 DEF ClockInit
  <2>3. QED
      BY <1>1, <1>2, <2>1, <2>2 DEF ClockInit, TypeInv, FrontPcs
<1>4. ControlInv
    BY <1>2 DEF ClockInit, ControlInv, WriterInPlace, FrozenCoresCompile, GuestCoresRun,
                SleepEndsWithCompilation, ShutDownInOrder, SpinIsHeard, JoinIsHeard, Resetting
<1>5. TimeInv
    BY <1>2 DEF ClockInit, TimeInv, Sound, WriterSampled, SamplesFollow, CandidatesFollow,
                FollowsLeastAdvanced
<1>6. QED
    BY <1>3, <1>4, <1>5 DEF ClockIInv

\* What the times are made of.
timeVars == <<host, published, clock, writer, odd, sample, unchanged, candidate, started>>

\* Steps that neither write nor read the clock leave the times alone.
LEMMA TimeUntouched ==
    ASSUME TimeInv, UNCHANGED timeVars
    PROVE  TimeInv'
<1>1. /\ host' = host /\ published' = published /\ clock' = clock /\ writer' = writer
      /\ odd' = odd /\ sample' = sample /\ unchanged' = unchanged
      /\ candidate' = candidate /\ started' = started
    BY DEF timeVars
<1>2. \A c : TimeOf(c)' = TimeOf(c)
    BY <1>1 DEF TimeOf, SlotTime
<1>3. QED
    BY <1>1, <1>2 DEF TimeInv, Sound, WriterSampled, SamplesFollow, AnchoredBefore,
                      CandidatesFollow, FollowsLeastAdvanced

\* The timing thread and the thread that pauses look at no slot but through the
\* reader's calls, which are steps of their own.
LEMMA TimingStepKeepsInvariant ==
    ASSUME ClockIInv, TimingStep
    PROVE  ClockIInv'
<1>0. TypeInv /\ ControlInv /\ TimeInv
    BY DEF ClockIInv
<1>1. UNCHANGED timeVars /\ UNCHANGED <<cpc, fpc, paused, shuttingDown>>
    BY DEF TimingStep, OuterLoop, CheckPaused, WaitPaused, AdvanceEvents, MeasureWait,
           AskForCompilation, WaitBlocked, ClearWaiting, WaitTimed, Consumed, timeVars,
           clockVars, readerVars, pauseVars
<1>2. TimeInv'
    BY <1>0, <1>1, TimeUntouched
<1>3. WriterInPlace' /\ FrozenCoresCompile' /\ GuestCoresRun' /\ ShutDownInOrder'
    BY <1>0, <1>1 DEF ControlInv, timeVars, WriterInPlace, FrozenCoresCompile, GuestCoresRun,
                      ShutDownInOrder, Resetting
<1>4. ASSUME OuterLoop \/ CheckPaused \/ WaitPaused \/ WaitBlocked \/ ClearWaiting \/ WaitTimed
      PROVE  TypeInv' /\ SleepEndsWithCompilation' /\ SpinIsHeard' /\ JoinIsHeard'
  <2> USE <1>0, <1>1 DEF TypeInv, ControlInv, SleepEndsWithCompilation, SpinIsHeard, JoinIsHeard,
          ShutDownInOrder, Resetting, timeVars, TimingGoes, readerVars, pauseVars
  <2>1. CASE OuterLoop
      BY <2>1 DEF OuterLoop
  <2>2. CASE CheckPaused
      BY <2>2 DEF CheckPaused
  <2>3. CASE WaitPaused
      BY <2>3 DEF WaitPaused
  <2>4. CASE WaitBlocked
      BY <2>4 DEF WaitBlocked
  <2>5. CASE ClearWaiting
      BY <2>5 DEF ClearWaiting
  <2>6. CASE WaitTimed
      BY <2>6 DEF WaitTimed
  <2>7. QED
      BY <1>4, <2>1, <2>2, <2>3, <2>4, <2>5, <2>6
<1>5. ASSUME AdvanceEvents \/ MeasureWait
      PROVE  TypeInv' /\ SleepEndsWithCompilation' /\ SpinIsHeard' /\ JoinIsHeard'
  <2> USE <1>0, <1>1 DEF TypeInv, ControlInv, SleepEndsWithCompilation, SpinIsHeard, JoinIsHeard,
          timeVars, TimingGoes, Consumed, pauseVars
  <2>1. CASE AdvanceEvents
      BY <2>1 DEF AdvanceEvents
  <2>2. CASE MeasureWait
      BY <2>2 DEF MeasureWait
  <2>3. QED
      BY <1>5, <2>1, <2>2
<1>6. ASSUME AskForCompilation
      PROVE  TypeInv' /\ SleepEndsWithCompilation' /\ SpinIsHeard' /\ JoinIsHeard'
  <2>1. waitingForCompilation' = CompilationBlocks(next) /\ tpc = "ask" /\ event' = event
        /\ tpc' = (IF waitingForCompilation' THEN "blocked" ELSE "timed")
        /\ UNCHANGED pauseVars /\ rpc' = rpc
      BY <1>6 DEF AskForCompilation, TimingGoes, readerVars
  <2>2. waitingForCompilation' => \E c \in clock.active \cap clock.compiling : TRUE
      BY <2>1 DEF CompilationBlocks
  <2>3. clock.active \subseteq Cores
      BY <1>0, ClockFields DEF TypeInv
  <2>4. SleepEndsWithCompilation'
      BY <1>0, <1>1, <2>1, <2>2, <2>3 DEF ControlInv, FrozenCoresCompile, SleepEndsWithCompilation
  <2>5. TypeInv'
      BY <1>0, <1>1, <2>1 DEF TypeInv, timeVars, pauseVars, CompilationBlocks
  <2>6. SpinIsHeard' /\ JoinIsHeard'
      BY <1>0, <1>1, <2>1 DEF TypeInv, ControlInv, SpinIsHeard, JoinIsHeard, pauseVars
  <2>7. QED
      BY <2>4, <2>5, <2>6
<1>7. QED
    BY <1>2, <1>3, <1>4, <1>5, <1>6 DEF ClockIInv, ControlInv, TimingStep

\* The thread that pauses sets both events after paused: what the timing thread
\* then uses up takes it to the test of paused.
LEMMA FrontStepKeepsInvariant ==
    ASSUME ClockIInv, SetPaused \/ Reset \/ ShutDown \/ WakeTiming \/ FrontReturns
    PROVE  ClockIInv'
<1>0. TypeInv /\ ControlInv /\ TimeInv
    BY DEF ClockIInv
<1>1. UNCHANGED timeVars /\ UNCHANGED <<cpc, rpc, tpc, waitingForCompilation, pausedSet>>
      /\ fpc # "clock" /\ (event' = event \/ event' = TRUE)
    BY DEF SetPaused, Reset, ShutDown, WakeTiming, FrontReturns, timeVars, clockVars, readerVars,
           timingVars
<1>2. TimeInv'
    BY <1>0, <1>1, TimeUntouched
<1>3. WriterInPlace' /\ FrozenCoresCompile' /\ GuestCoresRun' /\ SleepEndsWithCompilation'
    BY <1>0, <1>1 DEF ControlInv, timeVars, WriterInPlace, FrozenCoresCompile, GuestCoresRun,
                      SleepEndsWithCompilation
<1>4. TypeInv' /\ ShutDownInOrder' /\ SpinIsHeard' /\ JoinIsHeard'
  <2> USE <1>0, <1>1 DEF TypeInv, ControlInv, ShutDownInOrder, SpinIsHeard, JoinIsHeard,
          Resetting, timeVars, FrontPcs
  <2>1. CASE SetPaused
      BY <2>1 DEF SetPaused
  <2>2. CASE Reset
      BY <2>2 DEF Reset
  <2>3. CASE ShutDown
      BY <2>3 DEF ShutDown
  <2>4. CASE WakeTiming
      BY <2>4 DEF WakeTiming
  <2>5. CASE FrontReturns
      BY <2>5 DEF FrontReturns
  <2>6. QED
      BY <2>1, <2>2, <2>3, <2>4, <2>5
<1>5. QED
    BY <1>2, <1>3, <1>4 DEF ClockIInv, ControlInv

\* A new event only wakes the timing thread.
LEMMA ScheduleEventKeepsInvariant ==
    ASSUME ClockIInv, NEW d \in Deadlines, ScheduleDeadline(d)
    PROVE  ClockIInv'
<1>0. TypeInv /\ ControlInv /\ TimeInv
    BY DEF ClockIInv
<1>1. UNCHANGED timeVars /\ UNCHANGED <<cpc, rpc, tpc, waitingForCompilation,
                                        pauseVars>> /\ event' = TRUE
    BY DEF ScheduleDeadline, timeVars, clockVars, readerVars
<1>2. TimeInv'
    BY <1>0, <1>1, TimeUntouched
<1>3. ControlInv'
    BY <1>0, <1>1 DEF ControlInv, timeVars, pauseVars, WriterInPlace, FrozenCoresCompile,
              GuestCoresRun, SleepEndsWithCompilation, ShutDownInOrder, Resetting, SpinIsHeard,
              JoinIsHeard
<1>4. TypeInv'
    BY <1>0, <1>1 DEF TypeInv, timeVars, pauseVars
<1>5. QED
    BY <1>2, <1>3, <1>4 DEF ClockIInv

\* A core that has compiled wakes the timing thread, unless the slot of another
\* core, which then still compiles, holds it up.
LEMMA NotifyCompiledKeepsInvariant ==
    ASSUME ClockIInv, NEW c \in Cores, NotifyCompiled(c)
    PROVE  ClockIInv'
<1>0. TypeInv /\ ControlInv /\ TimeInv
    BY DEF ClockIInv
<1>1. /\ UNCHANGED timeVars /\ UNCHANGED <<rpc, tpc, pauseVars>>
      /\ cpc[c] = "notify" /\ cpc' = [cpc EXCEPT ![c] = "guest"]
      /\ cpc'[c] = "guest" /\ \A d \in Cores \ {c} : cpc'[d] = cpc[d]
      /\ waitingForCompilation' = (waitingForCompilation /\ ~CanProceed(c))
      /\ event' = (event \/ CanProceed(c))
    BY <1>0 DEF NotifyCompiled, timeVars, clockVars, readerVars, TypeInv
<1>2. TimeInv'
    BY <1>0, <1>1, TimeUntouched
<1>3. WriterInPlace' /\ FrozenCoresCompile' /\ GuestCoresRun'
  <2>1. clock.compiling \subseteq Cores
      BY <1>0, ClockFields DEF TypeInv
  <2>2. FrozenCoresCompile' /\ GuestCoresRun'
      BY <1>0, <1>1, <2>1 DEF ControlInv, timeVars, FrozenCoresCompile, GuestCoresRun
  <2>3. WriterInPlace'
      BY <1>0, <1>1 DEF ControlInv, timeVars, pauseVars, WriterInPlace, CoreOps, CoreBefore
  <2>4. QED
      BY <2>2, <2>3
<1>4. SleepEndsWithCompilation'
  <2> SUFFICES ASSUME tpc' = "blocked", ~event'
               PROVE  waitingForCompilation' /\ \E d \in Cores : cpc'[d] \in {"compiling", "notify"}
      BY DEF SleepEndsWithCompilation
  <2>1. tpc = "blocked" /\ ~event /\ ~CanProceed(c)
      BY <1>1
  <2>2. waitingForCompilation /\ waitingForCompilation'
      BY <1>0, <1>1, <2>1 DEF ControlInv, SleepEndsWithCompilation
  <2>3. PICK d \in clock.active \cap clock.compiling : TRUE
      BY <2>1, <2>2 DEF CanProceed, CompilationBlocks
  <2>4. d \in Cores /\ cpc[d] = "compiling"
      BY <1>0, <2>3, ClockFields DEF TypeInv, ControlInv, FrozenCoresCompile
  <2>5. QED
      BY <1>1, <2>2, <2>4
<1>5. ShutDownInOrder' /\ SpinIsHeard' /\ JoinIsHeard'
    BY <1>0, <1>1 DEF ControlInv, ShutDownInOrder, Resetting, SpinIsHeard, JoinIsHeard, pauseVars
<1>6. TypeInv'
    BY <1>0, <1>1 DEF TypeInv, timeVars, pauseVars, CanProceed, CompilationBlocks
<1>7. QED
    BY <1>2, <1>3, <1>4, <1>5, <1>6 DEF ClockIInv, ControlInv

-----------------------------------------------------------------------------
(* The steps that read the clock *)

\* What somebody reads now is not ahead of a participant.
LEMMA ReadNow ==
    ASSUME TypeInv, TimeInv, ~clock.paused, NEW s \in 0 .. host, AnchoredBefore(clock, s)
    PROVE  /\ ClockTime(clock, s) \in 0 .. host
           /\ \A c \in clock.active : ClockTime(clock, s) <= TimeOf(c)
<1>0. host \in Times /\ s \in Times /\ s <= host /\ Sound(clock, host)
    BY TimesFit DEF TypeInv, TimeInv, Times
<1>1. ClockTime(clock, s) \in Times /\ ClockTime(clock, s) <= s
      /\ \A c \in clock.active : ClockTime(clock, s) <= SlotTime(clock, c, s)
    BY <1>0, ClockTimeBounds
<1>2. \A c \in clock.active : /\ SlotTime(clock, c, s) \in Times
                              /\ SlotTime(clock, c, s) <= SlotTime(clock, c, host)
                              /\ SlotTime(clock, c, host) \in Times
  <2>1. AnchoredBefore(clock, host) /\ host <= host
      BY <1>0, ClockFields, TimesFit DEF AnchoredBefore, Sound, Times
  <2>2. QED
      BY <1>0, <2>1, SlotAtBounds
<1>3. QED
    BY <1>0, <1>1, <1>2, TimesFit DEF TimeOf, Times

\* Raising published to a time that is not ahead of a participant keeps the times.
LEMMA RaisePublished ==
    ASSUME TypeInv, TimeInv, NEW t \in 0 .. host,
           \A c \in clock.active : t <= Larger(started[c], TimeOf(c))
    PROVE  /\ Larger(published, t) \in 0 .. host
           /\ \A c \in clock.active : Larger(published, t) <= Larger(started[c], TimeOf(c))
    BY DEF TypeInv, TimeInv, FollowsLeastAdvanced, Larger

\* The times of the participants are times.
LEMMA TimeOfIsTime ==
    ASSUME TypeInv, TimeInv, NEW c \in clock.active
    PROVE  /\ c \in Cores /\ TimeOf(c) \in Nat /\ started[c] \in Nat
           /\ TimeOf(c) = SlotAt(clock, c, host)
<1>1. c \in Cores /\ started[c] \in Nat
    BY ClockFields DEF TypeInv
<1>2. TimeOf(c) = SlotAt(clock, c, host)
    BY DEF TimeOf, SlotAt
<1>3. QED
    BY <1>1, <1>2, SlotAtNow DEF TypeInv, TimeInv, Times

\* A writer samples the clock: the time it keeps is one it has just published.
LEMMA SampleOfWriter ==
    ASSUME TypeInv, TimeInv
    PROVE  /\ WriterNow \in 0 .. host
           /\ \A c \in clock.active : WriterNow <= Larger(started[c], TimeOf(c))
<1>1. CASE clock.paused
    BY <1>1 DEF WriterNow, TypeInv, TimeInv, FollowsLeastAdvanced
<1>2. CASE ~clock.paused
  <2>1. host \in 0 .. host /\ AnchoredBefore(clock, host)
      BY ClockFields, TimesFit DEF TypeInv, TimeInv, Sound, AnchoredBefore, Times
  <2>2. /\ ClockTime(clock, host) \in 0 .. host
        /\ \A c \in clock.active : ClockTime(clock, host) <= TimeOf(c)
      BY <1>2, <2>1, ReadNow
  <2>3. \A c \in clock.active : ClockTime(clock, host) <= Larger(started[c], TimeOf(c))
      BY <2>2, TimeOfIsTime DEF Larger
  <2>4. QED
      BY <1>2, <2>2, <2>3, RaisePublished DEF WriterNow
<1>3. QED
    BY <1>1, <1>2

\* An operation that samples the clock starts.
LEMMA StartWriteKeepsTimes ==
    ASSUME ClockIInv, NEW op \in CoreOps \cup SampledOps, NEW c \in Cores \cup {Nobody}, NEW arg,
           IF op = "runnable" THEN arg \in RunnableMasks ELSE arg \in BOOLEAN,
           StartWrite(op, c, arg), fpc' \in FrontPcs, shuttingDown' = shuttingDown,
           UNCHANGED <<paused, pausedSet, pauseEvent>>
    PROVE  /\ TypeInv' /\ TimeInv'
           /\ writer' # Nobody /\ writer'.op = op /\ writer'.core = c
<1>0. TypeInv /\ TimeInv
    BY DEF ClockIInv
<1>1. /\ UNCHANGED <<host, clock, odd, sample, unchanged, candidate, rpc, cpc, tpc,
                     waitingForCompilation,
                     event, started>>
      /\ published' = WriterNow /\ writer' = NewWriter(op, c, arg, WriterNow) /\ writer = Nobody
    BY DEF StartWrite, readerVars, timingVars
<1>2. /\ WriterNow \in 0 .. host
      /\ \A d \in clock.active : WriterNow <= Larger(started[d], TimeOf(d))
    BY <1>0, SampleOfWriter
<1>3. \E h \in {host, 0} : /\ writer' = [op |-> op, core |-> c, arg |-> arg, now |-> WriterNow, host |-> h]
                           /\ op \in SampledOps => h = host
    BY <1>1 DEF NewWriter, SampledOps
<1>4. WriterNow \in Times /\ host \in Times /\ 0 \in Times
    BY <1>0, <1>2, TimesFit DEF TypeInv, Times
<1>5. writer' \in Writers(IF op = "runnable" THEN RunnableMasks ELSE BOOLEAN)
    BY <1>3, <1>4 DEF Writers, CoreOps, SampledOps, Times
<1>6. writer' # Nobody
    BY <1>5, NobodyIsNoWriter
<1>7. /\ writer'.op = op /\ writer'.core = c /\ writer'.now = WriterNow
      /\ writer'.host \in {host, 0} /\ (op \in SampledOps => writer'.host = host)
    BY <1>3
<1>8. \A d : TimeOf(d)' = TimeOf(d)
    BY <1>1 DEF TimeOf, SlotTime
<1>9. WriterSampled'
    BY <1>0, <1>1, <1>2, <1>4, <1>6, <1>7, TimesFit
    DEF WriterSampled, TimeInv, Sound, Times
<1>10. TimeInv'
    BY <1>0, <1>1, <1>2, <1>8, <1>9
    DEF TimeInv, Sound, SamplesFollow, AnchoredBefore, CandidatesFollow, FollowsLeastAdvanced
<1>11. TypeInv'
    BY <1>0, <1>1, <1>2, <1>5, <1>7 DEF TypeInv
<1>12. QED
    BY <1>6, <1>7, <1>10, <1>11

\* A core enters or leaves the guest, the scheduler sets the mask, a pause starts.
LEMMA WriteStartsKeepInvariant ==
    ASSUME ClockIInv,
           \/ \E c \in Cores : BeginCpuRun(c) \/ EndCpuRun(c)
           \/ \E mask \in RunnableMasks : SetCpuRunnableMask(mask)
           \/ \E stop \in BOOLEAN : SyncPause(stop)
    PROVE  ClockIInv'
<1>0. TypeInv /\ ControlInv
    BY DEF ClockIInv
<1>1. ASSUME NEW op \in CoreOps \cup SampledOps, NEW c \in Cores \cup {Nobody}, NEW arg,
             IF op = "runnable" THEN arg \in RunnableMasks ELSE arg \in BOOLEAN,
             StartWrite(op, c, arg),
             fpc' = (IF op = "pause" THEN "clock" ELSE fpc), op = "pause" => fpc = "idle",
             UNCHANGED <<paused, pausedSet, pauseEvent, shuttingDown>>,
             IF op \in CoreOps THEN c \in Cores /\ cpc[c] = CoreBefore(op) ELSE c = Nobody
      PROVE  ClockIInv'
  <2>1. fpc' \in FrontPcs
      BY <1>0, <1>1 DEF TypeInv, FrontPcs
  <2>2. TypeInv' /\ TimeInv' /\ writer' # Nobody /\ writer'.op = op /\ writer'.core = c
      BY <1>1, <2>1, StartWriteKeepsTimes
  <2>3. UNCHANGED <<clock, odd, cpc, tpc, waitingForCompilation,
                    event>> /\ writer = Nobody /\ ~Resetting
      BY <1>1 DEF StartWrite, timingVars
  <2>4. WriterInPlace'
      BY <1>0, <1>1, <2>2, <2>3 DEF WriterInPlace, ControlInv, CoreBefore, CoreOps, SampledOps
  <2>5. FrozenCoresCompile' /\ GuestCoresRun' /\ SleepEndsWithCompilation'
      BY <1>0, <2>3 DEF ControlInv, FrozenCoresCompile, GuestCoresRun, SleepEndsWithCompilation
  <2>6. ShutDownInOrder' /\ SpinIsHeard' /\ JoinIsHeard'
      BY <1>0, <1>1, <2>3 DEF ControlInv, ShutDownInOrder, Resetting, SpinIsHeard, JoinIsHeard
  <2>7. QED
      BY <2>2, <2>4, <2>5, <2>6 DEF ClockIInv, ControlInv
<1>2. ASSUME NEW c \in Cores, BeginCpuRun(c)
      PROVE  ClockIInv'
    BY <1>1, <1>2 DEF BeginCpuRun, CoreBefore, CoreOps, pauseVars
<1>3. ASSUME NEW c \in Cores, EndCpuRun(c)
      PROVE  ClockIInv'
    BY <1>1, <1>3 DEF EndCpuRun, CoreBefore, CoreOps, pauseVars
<1>4. ASSUME NEW mask \in RunnableMasks, SetCpuRunnableMask(mask)
      PROVE  ClockIInv'
    BY <1>1, <1>4 DEF SetCpuRunnableMask, CoreOps, SampledOps, pauseVars
<1>5. ASSUME NEW stop \in BOOLEAN, SyncPause(stop)
      PROVE  ClockIInv'
    BY <1>1, <1>5 DEF SyncPause, CoreOps, SampledOps
<1>6. QED
    BY <1>2, <1>3, <1>4, <1>5

\* A compilation starts or ends: sequence is odd at once.
LEMMA StartCompileKeepsInvariant ==
    ASSUME ClockIInv, NEW c \in Cores, StartsCompiling(c) \/ StopsCompiling(c)
    PROVE  ClockIInv'
<1>0. TypeInv /\ ControlInv /\ TimeInv
    BY DEF ClockIInv
<1>1. PICK op \in {"compile", "compiled"} : StartCompile(op, c) /\ cpc[c] = CoreBefore(op)
    BY DEF StartsCompiling, StopsCompiling, CoreBefore
<1>2. /\ UNCHANGED <<host, published, clock, sample, candidate, rpc, cpc, tpc,
                     waitingForCompilation, event,
                     pauseVars, started>>
      /\ odd' = TRUE /\ unchanged' = {} /\ writer = Nobody
      /\ writer' = [op |-> op, core |-> c, arg |-> FALSE, now |-> 0, host |-> 0]
    BY <1>1 DEF StartCompile, timingVars, NewWriter
<1>3. host \in Times /\ 0 \in Times
    BY <1>0, TimesFit DEF TypeInv, Times
<1>4. writer' \in Writers(BOOLEAN) /\ writer'.op = op /\ writer'.core = c
      /\ writer'.now = 0 /\ writer'.host = 0
    BY <1>2, <1>3 DEF Writers, Times
<1>5. writer' # Nobody
    BY <1>4, NobodyIsNoWriter
<1>6. \A d : TimeOf(d)' = TimeOf(d)
    BY <1>2 DEF TimeOf, SlotTime
<1>7. TimeInv'
    BY <1>0, <1>2, <1>3, <1>4, <1>6
    DEF TimeInv, Sound, WriterSampled, SamplesFollow, CandidatesFollow, FollowsLeastAdvanced,
        SampledOps, Times
<1>8. TypeInv'
    BY <1>0, <1>2, <1>4 DEF TypeInv, pauseVars
<1>9. ControlInv'
    BY <1>0, <1>1, <1>2, <1>4, <1>5
    DEF ControlInv, WriterInPlace, FrozenCoresCompile, GuestCoresRun, SleepEndsWithCompilation,
        ShutDownInOrder, Resetting, SpinIsHeard, JoinIsHeard, CoreOps, pauseVars
<1>10. QED
    BY <1>7, <1>8, <1>9 DEF ClockIInv

\* sequence becomes odd: no sample of it is current any more.
LEMMA OpenWriteKeepsInvariant ==
    ASSUME ClockIInv, OpenWrite
    PROVE  ClockIInv'
<1>0. TypeInv /\ ControlInv /\ TimeInv
    BY DEF ClockIInv
<1>1. /\ UNCHANGED <<host, published, clock, sample, candidate, rpc, cpc, tpc,
                     waitingForCompilation, event,
                     pauseVars, started>>
      /\ odd' = TRUE /\ unchanged' = {} /\ writer # Nobody
    BY DEF OpenWrite, timingVars
<1>2. PICK h \in writer.host .. host :
            writer' = IF writer.op \in SampledOps THEN [writer EXCEPT !.host = h] ELSE writer
    BY DEF OpenWrite, SampledOps
<1> DEFINE args == IF writer.op = "runnable" THEN RunnableMasks ELSE BOOLEAN
<1>3. writer \in Writers(args)
    BY <1>0, <1>1 DEF TypeInv
<1> HIDE DEF args
<1>4. writer.host \in Times /\ writer.now \in Times /\ host \in Times
    BY <1>0, <1>3 DEF Writers, Times, TypeInv
<1>5. h \in Times /\ h <= host /\ writer.host <= h
    BY <1>4, TimesFit DEF Times
<1>6. /\ writer' \in Writers(args)
      /\ writer'.op = writer.op /\ writer'.core = writer.core /\ writer'.now = writer.now
      /\ writer'.host \in {h, writer.host}
  <2>1. CASE writer.op \in SampledOps
    <3>1. writer' = [writer EXCEPT !.host = h]
        BY <1>2, <2>1
    <3>2. QED
        BY <1>3, <1>5, <3>1 DEF Writers, Times
  <2>2. CASE writer.op \notin SampledOps
      BY <1>2, <1>3, <2>2
  <2>3. QED
      BY <2>1, <2>2
<1>7. writer' # Nobody
    BY <1>6, NobodyIsNoWriter DEF args
<1>8. \A d : TimeOf(d)' = TimeOf(d)
    BY <1>1 DEF TimeOf, SlotTime
<1>9. WriterSampled'
  <2>1. /\ \A c \in Cores : clock.base[c] \in Times /\ clock.anchor[c] \in Times
        /\ clock.paceBase \in Times /\ clock.paceAnchor \in Times
      BY <1>0, ClockFields DEF TypeInv
  <2>2. writer'.now <= host /\ writer'.host <= host
      BY <1>0, <1>1, <1>5, <1>6 DEF TimeInv, WriterSampled
  <2>3. ASSUME writer.op \in SampledOps
        PROVE  /\ writer.now <= writer'.host
               /\ \A c \in Cores : clock.base[c] <= writer'.host /\ clock.anchor[c] <= writer'.host
               /\ clock.paceBase <= writer'.host /\ clock.paceAnchor <= writer'.host
      BY <1>0, <1>1, <1>4, <1>5, <1>6, <2>1, <2>3, TimesFit DEF TimeInv, WriterSampled, Times
  <2>4. QED
      BY <1>1, <1>6, <2>2, <2>3 DEF WriterSampled
<1>10. TimeInv'
    BY <1>0, <1>1, <1>8, <1>9
    DEF TimeInv, Sound, SamplesFollow, CandidatesFollow, FollowsLeastAdvanced
<1>11. TypeInv'
    BY <1>0, <1>1, <1>6 DEF TypeInv, pauseVars, args
<1>12. ControlInv'
    BY <1>0, <1>1, <1>6, <1>7
    DEF ControlInv, WriterInPlace, FrozenCoresCompile, GuestCoresRun, SleepEndsWithCompilation,
        ShutDownInOrder, Resetting, SpinIsHeard, JoinIsHeard, pauseVars
<1>13. QED
    BY <1>10, <1>11, <1>12 DEF ClockIInv

\* Time passes: every participant that does not stand advances with the host.
LEMMA TickKeepsInvariant ==
    ASSUME ClockIInv, HostTick
    PROVE  ClockIInv'
<1>0. TypeInv /\ ControlInv /\ TimeInv
    BY DEF ClockIInv
<1>1. /\ UNCHANGED <<published, clock, writer, odd, sample, unchanged, candidate, rpc, cpc, tpc,
                     waitingForCompilation, event, pauseVars, started>>
      /\ host' = host + 1 /\ host < LastHostTick
    BY DEF HostTick, clockVars, readerVars, timingVars
<1>2. host \in Times /\ host' \in Times /\ host <= host'
    BY <1>0, <1>1, TimesFit DEF TypeInv, Times
<1>3. Sound(clock, host')
    BY <1>0, <1>2, ClockFields DEF TimeInv, Sound, Times
<1>4. \A c \in clock.active : TimeOf(c) <= TimeOf(c)' /\ TimeOf(c)' \in Nat
  <2> SUFFICES ASSUME NEW c \in clock.active
               PROVE  TimeOf(c) <= TimeOf(c)' /\ TimeOf(c)' \in Nat
      OBVIOUS
  <2>1. TimeOf(c)' = SlotAt(clock, c, host') /\ TimeOf(c) = SlotAt(clock, c, host)
      BY <1>1 DEF TimeOf, SlotAt, SlotTime
  <2>2. SlotAt(clock, c, host') \in Nat /\ SlotAt(clock, c, host) \in Nat
      BY <1>0, <1>2, <1>3, SlotAtNow DEF TimeInv, Times
  <2>3. AnchoredBefore(clock, host) /\ host <= host
      BY <1>0, <1>2, ClockFields, TimesFit DEF TimeInv, Sound, AnchoredBefore, Times
  <2>4. SlotAt(clock, c, host) <= SlotAt(clock, c, host')
    <3>1. CASE clock.paused
        BY <2>2, <3>1 DEF SlotAt
    <3>2. CASE ~clock.paused
        BY <1>0, <1>2, <2>3, <3>2, SlotAtBounds DEF SlotAt, TimeInv
    <3>3. QED
        BY <3>1, <3>2
  <2>5. QED
      BY <2>1, <2>2, <2>4
<1>5. \A c \in clock.active, t \in Nat :
            t <= Larger(started[c], TimeOf(c)) => t <= Larger(started[c], TimeOf(c)')
    BY <1>0, <1>4, TimeOfIsTime DEF Larger
<1>6. CandidatesFollow' /\ FollowsLeastAdvanced'
  <2>1. published \in Nat /\ \A r \in Readers : candidate[r] \in Nat
      BY <1>0 DEF TypeInv
  <2>2. QED
      BY <1>0, <1>1, <1>5, <2>1 DEF TimeInv, CandidatesFollow, FollowsLeastAdvanced
<1>7. WriterSampled'
  <2>1. writer # Nobody => writer.now \in Times /\ writer.host \in Times
      BY <1>0 DEF TypeInv, Writers, Times
  <2>2. QED
      BY <1>0, <1>1, <1>2, <2>1 DEF TimeInv, WriterSampled, Times
<1>8. TimeInv'
    BY <1>0, <1>1, <1>3, <1>6, <1>7 DEF TimeInv, SamplesFollow
<1>9. ControlInv'
    BY <1>0, <1>1 DEF ControlInv, pauseVars, WriterInPlace, FrozenCoresCompile,
              GuestCoresRun, SleepEndsWithCompilation, ShutDownInOrder, Resetting, SpinIsHeard,
              JoinIsHeard
<1>10. TypeInv'
    BY <1>0, <1>1, <1>2, TimesFit DEF TypeInv, pauseVars, Times
<1>11. QED
    BY <1>8, <1>9, <1>10 DEF ClockIInv

\* Steps of a reader leave the control alone, but for the timing thread's rpc.
LEMMA ReaderLeavesControl ==
    ASSUME ControlInv,
           UNCHANGED <<writer, odd, clock, cpc, tpc, waitingForCompilation, event, fpc, paused,
                       pausedSet,
                       pauseEvent, shuttingDown>>
    PROVE  ControlInv'
    BY DEF ControlInv, WriterInPlace, FrozenCoresCompile, GuestCoresRun, SleepEndsWithCompilation,
           ShutDownInOrder, Resetting, SpinIsHeard, JoinIsHeard

\* A reader samples, computes or publishes: what it computes from a sample of
\* sequence that still holds is not ahead of a participant.
LEMMA ReaderStepKeepsInvariant ==
    ASSUME ClockIInv, NEW r \in Readers, ReaderStep(r)
    PROVE  ClockIInv'
<1>0. TypeInv /\ ControlInv /\ TimeInv
    BY DEF ClockIInv
<1>1. /\ UNCHANGED <<host, clock, writer, odd, cpc, tpc, waitingForCompilation, event,
                     pauseVars, started>>
    BY DEF ReaderStep, ReadVersion, ReadSlots, PublishTime, clockVars, timingVars
<1>2. ControlInv'
    BY <1>0, <1>1, ReaderLeavesControl DEF pauseVars
<1>3. \A d : TimeOf(d)' = TimeOf(d)
    BY <1>1 DEF TimeOf, SlotTime
<1>4. Sound(clock, host)' /\ WriterSampled'
    BY <1>0, <1>1 DEF TimeInv, Sound, WriterSampled
<1>5. 0 \in 0 .. host /\ host \in Times
    BY <1>0, TimesFit DEF TypeInv, Times
<1>6. \A c \in clock.active : Larger(started[c], TimeOf(c)) \in Nat
    BY <1>0, TimeOfIsTime DEF Larger
<1>7. ASSUME NEW v, Return(r, v), published' \in 0 .. host,
             \A c \in clock.active : published' <= Larger(started[c], TimeOf(c))
      PROVE  ClockIInv'
  <2>1. /\ sample' = [sample EXCEPT ![r] = 0]
        /\ candidate' = [candidate EXCEPT ![r] = 0]
        /\ unchanged' = unchanged \ {r}
        /\ rpc' = [q \in Readers |-> rpc'[q]]
      BY <1>0, <1>7 DEF Return, TypeInv
  <2>2. sample' \in [Readers -> 0 .. host] /\ candidate' \in [Readers -> 0 .. host]
      BY <1>0, <1>5, <2>1 DEF TypeInv
  <2>3. TypeInv'
      BY <1>0, <1>1, <1>7, <2>1, <2>2 DEF TypeInv, pauseVars
  <2>4. CandidatesFollow'
      BY <1>0, <1>1, <1>3, <1>6, <2>1 DEF CandidatesFollow, TimeInv, TypeInv
  <2>5. SamplesFollow'
      BY <1>0, <1>1, <2>1 DEF SamplesFollow, AnchoredBefore, TimeInv, TypeInv
  <2>6. FollowsLeastAdvanced'
      BY <1>1, <1>3, <1>7 DEF FollowsLeastAdvanced
  <2>7. QED
      BY <1>2, <1>4, <2>3, <2>4, <2>5, <2>6 DEF ClockIInv, TimeInv
<1>8. /\ published \in 0 .. host
      /\ \A c \in clock.active : published <= Larger(started[c], TimeOf(c))
    BY <1>0 DEF TypeInv, TimeInv, FollowsLeastAdvanced
<1>9. CASE ReadVersion(r)
  <2>1. published' = published
      BY <1>9 DEF ReadVersion
  <2>2. CASE Return(r, published)
      BY <1>7, <1>8, <2>1, <2>2
  <2>3. ASSUME ~odd, ~clock.paused,
               sample' = [sample EXCEPT ![r] = host], unchanged' = unchanged \cup {r},
               rpc' = [rpc EXCEPT ![r] = "snapshot"], candidate' = candidate
        PROVE  ClockIInv'
    <3>1. host \in 0 .. host
        BY <1>5 DEF Times
    <3>2. TypeInv'
        BY <1>0, <1>1, <2>1, <2>3, <3>1 DEF TypeInv, pauseVars
    <3>3. AnchoredBefore(clock, host)
        BY <1>0, ClockFields DEF TimeInv, Sound, AnchoredBefore
    <3>4. SamplesFollow'
      <4>1. sample'[r] = host /\ \A q \in Readers \ {r} : sample'[q] = sample[q]
          BY <1>0, <2>3 DEF TypeInv
      <4>2. \A q \in unchanged' : ~clock.paused /\ AnchoredBefore(clock, sample'[q])
          BY <1>0, <2>3, <3>3, <4>1 DEF TypeInv, TimeInv, SamplesFollow
      <4>3. QED
          BY <1>1, <2>3, <4>2 DEF SamplesFollow, AnchoredBefore
    <3>5. CandidatesFollow' /\ FollowsLeastAdvanced'
        BY <1>0, <1>1, <1>3, <2>1, <2>3 DEF TimeInv, CandidatesFollow, FollowsLeastAdvanced
    <3>6. QED
        BY <1>2, <1>4, <3>2, <3>4, <3>5 DEF ClockIInv, TimeInv
  <2>4. QED
      BY <1>9, <2>2, <2>3 DEF ReadVersion
<1>10. CASE ReadSlots(r)
  <2>1. published' = published
      BY <1>10 DEF ReadSlots
  <2>2. CASE Return(r, published)
      BY <1>7, <1>8, <2>1, <2>2
  <2>3. ASSUME r \in unchanged,
               candidate' = [candidate EXCEPT ![r] = ClockTime(clock, sample[r])],
               rpc' = [rpc EXCEPT ![r] = "publish"], sample' = sample, unchanged' = unchanged
        PROVE  ClockIInv'
    <3>1. ~clock.paused /\ AnchoredBefore(clock, sample[r]) /\ sample[r] \in 0 .. host
        BY <1>0, <2>3 DEF TypeInv, TimeInv, SamplesFollow
    <3>2. /\ ClockTime(clock, sample[r]) \in 0 .. host
          /\ \A c \in clock.active : ClockTime(clock, sample[r]) <= TimeOf(c)
        BY <1>0, <3>1, ReadNow
    <3>3. \A c \in clock.active : ClockTime(clock, sample[r]) <= Larger(started[c], TimeOf(c))
        BY <1>0, <3>2, TimeOfIsTime DEF Larger
    <3>4. TypeInv'
        BY <1>0, <1>1, <2>1, <2>3, <3>2 DEF TypeInv, pauseVars
    <3>5. SamplesFollow'
        BY <1>0, <1>1, <2>3 DEF TimeInv, SamplesFollow, AnchoredBefore
    <3>6. CandidatesFollow'
      <4>1. /\ candidate'[r] = ClockTime(clock, sample[r])
            /\ \A q \in Readers \ {r} : candidate'[q] = candidate[q]
          BY <1>0, <2>3 DEF TypeInv
      <4>2. QED
          BY <1>0, <1>1, <1>3, <3>3, <4>1 DEF TimeInv, CandidatesFollow
    <3>7. FollowsLeastAdvanced'
        BY <1>0, <1>1, <1>3, <2>1 DEF TimeInv, FollowsLeastAdvanced
    <3>8. QED
        BY <1>2, <1>4, <3>4, <3>5, <3>6, <3>7 DEF ClockIInv, TimeInv
  <2>4. QED
      BY <1>10, <2>2, <2>3 DEF ReadSlots, SequenceUnchanged
<1>11. CASE PublishTime(r)
  <2>1. published' = Larger(published, candidate[r]) /\ Return(r, published')
      BY <1>11 DEF PublishTime, RaisedTo
  <2>2. candidate[r] \in 0 .. host
        /\ \A c \in clock.active : candidate[r] <= Larger(started[c], TimeOf(c))
      BY <1>0 DEF TypeInv, TimeInv, CandidatesFollow
  <2>3. /\ published' \in 0 .. host
        /\ \A c \in clock.active : published' <= Larger(started[c], TimeOf(c))
      BY <1>0, <2>1, <2>2, RaisePublished
  <2>4. QED
      BY <1>7, <2>1, <2>3
<1>12. QED
    BY <1>9, <1>10, <1>11 DEF ReaderStep

-----------------------------------------------------------------------------
(* The end of a write *)

\* Slots k are sound, only a pause sets a participant back, and only the writer's
\* core starts or stops to compile or to run.
SoundStore(k) ==
    /\ Sound(k, host)
    /\ writer.op # "pause" =>
          \A c \in clock.active \cap k.active : SlotAt(clock, c, host) <= SlotAt(k, c, host)
    /\ \A c \in k.compiling : c \in clock.compiling \/ (writer.op = "compile" /\ c = writer.core)
    /\ writer.op = "compiled" => writer.core \notin k.compiling
    /\ \A c \in clock.running : c \in k.running \/ (writer.op = "end" /\ c = writer.core)
    /\ writer.op = "begin" => writer.core \in k.running

\* So are those every writer stores.
LEMMA StoredIsSound ==
    ASSUME TypeInv, ControlInv, TimeInv, writer # Nobody
    PROVE  SoundStore(Stored(clock, writer))
<1> DEFINE k == Stored(clock, writer)
<1>1. host \in Times /\ Sound(clock, host) /\ clock \in Clocks
    BY DEF TypeInv, TimeInv
<1>2. /\ writer.op \in CoreOps \cup SampledOps
      /\ writer.now \in Times /\ writer.host \in Times
      /\ writer.now <= host /\ writer.host <= host
      /\ writer.op # "runnable" => writer.arg \in BOOLEAN
      /\ writer.op = "runnable" => writer.arg \in RunnableMasks
    BY DEF TypeInv, TimeInv, WriterSampled, Writers, CoreOps, SampledOps, Times
<1>3. writer.op \in CoreOps => writer.core \in Cores /\ cpc[writer.core] = CoreBefore(writer.op)
    BY DEF ControlInv, WriterInPlace
<1>4. writer.op \in {"end", "compile", "compiled"} => writer.core \in clock.active
    BY <1>1, <1>3 DEF CoreOps, CoreBefore, ControlInv, GuestCoresRun, Sound
<1> HIDE DEF k
<1>5. ASSUME writer.op = "begin"
      PROVE  SoundStore(k)
  <2>1. k = Begin(clock, writer.core, writer.now, host)
      BY <1>5 DEF k, Stored
  <2>2. writer.core \in Cores
      BY <1>3, <1>5 DEF CoreOps
  <2>3. /\ Sound(k, host) /\ writer.core \in k.running
        /\ \A d \in clock.active : SlotAt(clock, d, host) <= SlotAt(k, d, host)
      BY <1>1, <1>2, <2>1, <2>2, BeginIsSound
  <2>4. k.compiling = clock.compiling \ {writer.core} /\ k.running = clock.running \cup {writer.core}
      BY <1>1, <2>1 DEF Begin, Clocks
  <2>5. QED
      BY <1>5, <2>3, <2>4 DEF SoundStore
<1>6. ASSUME writer.op = "end"
      PROVE  SoundStore(k)
  <2>1. k = End(clock, writer.core, writer.now, host)
      BY <1>6 DEF k, Stored
  <2>2. /\ Sound(k, host) /\ k.running = clock.running \ {writer.core}
        /\ k.compiling = clock.compiling
        /\ \A d \in clock.active \cap k.active : SlotAt(clock, d, host) <= SlotAt(k, d, host)
      BY <1>1, <1>2, <1>4, <1>6, <2>1, EndIsSound
  <2>3. QED
      BY <1>6, <2>2 DEF SoundStore
<1>7. ASSUME writer.op = "compile"
      PROVE  SoundStore(k)
  <2>1. k = Compile(clock, writer.core, TRUE, host)
      BY <1>7 DEF k, Stored
  <2>2. writer.core \in clock.active
      BY <1>4, <1>7
  <2>3. Sound(k, host) /\ k.running = clock.running /\ k.active = clock.active
      BY <1>1, <2>1, <2>2, CompileIsSound
  <2>4. k.compiling = clock.compiling \cup {writer.core}
      BY <1>1, <2>1, <2>2, AccumulateStores DEF Compile, Clocks
  <2>5. \A d \in clock.active : SlotAt(clock, d, host) <= SlotAt(k, d, host)
      BY <1>1, <2>1, <2>2, CompileIsSound
  <2>6. QED
      BY <1>7, <2>3, <2>4, <2>5 DEF SoundStore
<1>8. ASSUME writer.op = "compiled"
      PROVE  SoundStore(k)
  <2>0. PICK on \in BOOLEAN : on = FALSE
      OBVIOUS
  <2>1. k = Compile(clock, writer.core, on, host)
      BY <1>8, <2>0 DEF k, Stored
  <2>2. /\ Sound(k, host) /\ k.running = clock.running /\ k.active = clock.active
        /\ k.compiling = clock.compiling \ {writer.core}
        /\ \A d \in clock.active : SlotAt(clock, d, host) <= SlotAt(k, d, host)
    <3>1. writer.core \in clock.active /\ on \in BOOLEAN /\ ~on
        BY <1>4, <1>8, <2>0
    <3>2. QED
        BY <1>1, <2>1, <3>1, CompileIsSound
  <2>3. QED
      BY <1>8, <2>2 DEF SoundStore
<1>9. ASSUME writer.op = "pause"
      PROVE  SoundStore(k)
  <2>1. k = Pause(clock, writer.arg, writer.now, writer.host)
      BY <1>9 DEF k, Stored
  <2>2. /\ writer.now <= writer.host
        /\ \A c \in Cores : clock.base[c] <= writer.host /\ clock.anchor[c] <= writer.host
        /\ clock.paceBase <= writer.host /\ clock.paceAnchor <= writer.host
      BY <1>9 DEF TimeInv, WriterSampled, SampledOps
  <2>3. QED
    <3>1. /\ Sound(k, host) /\ k.running = clock.running /\ k.compiling = clock.compiling
        BY <1>1, <1>2, <1>9, <2>1, <2>2, PauseIsSound
    <3>2. QED
        BY <1>9, <3>1 DEF SoundStore
<1>10. ASSUME writer.op = "runnable"
      PROVE  SoundStore(k)
  <2>1. k = SetRunnableMask(clock, writer.arg, writer.now, writer.host)
      BY <1>10 DEF k, Stored
  <2>2. /\ writer.now \in Times /\ writer.host \in Times /\ writer.host <= host
        /\ writer.now <= writer.host /\ writer.arg \in SUBSET Cores
      BY <1>2, <1>10, MasksAreCores DEF TimeInv, WriterSampled, SampledOps
  <2>3. /\ Sound(k, host) /\ k.running = clock.running /\ k.compiling \subseteq clock.compiling
        /\ \A d \in clock.active \cap k.active : SlotAt(clock, d, host) <= SlotAt(k, d, host)
    <3> DEFINE new(mask) == SetRunnableMask(clock, mask, writer.now, writer.host)
    <3>1. \A mask \in SUBSET Cores :
             /\ Sound(new(mask), host)
             /\ new(mask).running = clock.running
             /\ new(mask).compiling \subseteq clock.compiling
             /\ \A d \in clock.active \cap new(mask).active :
                   SlotAt(clock, d, host) <= SlotAt(new(mask), d, host)
        BY <1>1, <2>2, SetRunnableMaskIsSound
    <3>2. k = new(writer.arg)
        BY <2>1
    <3> HIDE DEF new
    <3>3. QED
        BY <2>2, <3>1, <3>2
  <2>4. QED
      BY <1>10, <2>3 DEF SoundStore
<1>11. QED
    BY <1>2, <1>5, <1>6, <1>7, <1>8, <1>9, <1>10 DEF CoreOps, SampledOps, k

\* The stores: slots that start again remember what readers have found.
LEMMA CloseWriteKeepsInvariant ==
    ASSUME ClockIInv, CloseWrite
    PROVE  ClockIInv'
<1> DEFINE k == Stored(clock, writer)
           found == {published} \cup {candidate[r] : r \in Readers}
<1>0. TypeInv /\ ControlInv /\ TimeInv
    BY DEF ClockIInv
<1>1. /\ UNCHANGED <<host, published, sample, unchanged, candidate, rpc, tpc,
                     waitingForCompilation, event,
                     paused, pausedSet, pauseEvent, shuttingDown>>
      /\ odd /\ odd' = FALSE /\ clock' = Forget(k) /\ writer' = Nobody
      /\ started' = [c \in Cores |-> IF c \notin clock'.active THEN 0
                                     ELSE IF writer.op = "pause" \/ c \notin clock.active
                                     THEN Max(found) ELSE started[c]]
      /\ cpc' = IF writer.core \in Cores THEN [cpc EXCEPT ![writer.core] = CoreAfter(writer.op)]
                ELSE cpc
      /\ fpc' = IF writer.op # "pause" THEN fpc
                ELSE IF writer.arg THEN "pause" ELSE "resume"
    BY DEF CloseWrite, readerVars, timingVars
<1>2. writer # Nobody
    BY <1>0, <1>1 DEF ControlInv, WriterInPlace
<1>3. SoundStore(k)
    BY <1>0, <1>2, StoredIsSound
<1> HIDE DEF k
<1>4. host \in Times
    BY <1>0 DEF TypeInv
<1>5. /\ Sound(clock', host)
      /\ clock'.running = k.running /\ clock'.compiling = k.compiling /\ clock'.active = k.active
      /\ \A c \in k.active : SlotAt(clock', c, host) = SlotAt(k, c, host)
    BY <1>1, <1>3, <1>4, ForgetIsSound DEF SoundStore
<1>6. Max(found) \in 0 .. host /\ \A t \in found : t <= Max(found)
  <2>1. found \in SUBSET (0 .. host) /\ found # {} /\ host \in Nat
      BY <1>0, <1>4 DEF TypeInv, Times
  <2>2. QED
      BY <2>1, MaxOfNaturals, Zenon
<1>7. \A t \in found : t \in Nat
    BY <1>0 DEF TypeInv
<1>8. clock' \in Clocks /\ clock'.active \subseteq Cores
    BY <1>5, ClockFields DEF Sound
<1>9. \A c \in clock'.active : /\ started'[c] \in Nat
                               /\ TimeOf(c)' \in Nat
                               /\ TimeOf(c)' = SlotAt(clock', c, host)
  <2>1. \A c \in Cores : started'[c] \in Nat
      BY <1>0, <1>1, <1>6 DEF TypeInv
  <2>2. \A c : TimeOf(c)' = SlotAt(clock', c, host)
      BY <1>1 DEF TimeOf, SlotAt, SlotTime
  <2>3. QED
      BY <1>4, <1>5, <1>8, <2>1, <2>2, SlotAtNow DEF Times
<1>10. \A c \in clock'.active, t \in found : t <= Larger(started'[c], TimeOf(c)')
  <2> SUFFICES ASSUME NEW c \in clock'.active, NEW t \in found
               PROVE  t <= Larger(started'[c], TimeOf(c)')
      OBVIOUS
  <2>1. c \in Cores /\ t \in Nat
      BY <1>7, <1>8
  <2>2. CASE writer.op = "pause" \/ c \notin clock.active
    <3>1. started'[c] = Max(found)
        BY <1>1, <2>1, <2>2
    <3>2. t <= started'[c] /\ started'[c] \in Nat
        BY <1>6, <3>1
    <3> HIDE DEF found
    <3>3. QED
        BY <1>9, <2>1, <3>2 DEF Larger
  <2>3. CASE writer.op # "pause" /\ c \in clock.active
    <3>1. started'[c] = started[c]
        BY <1>1, <2>1, <2>3
    <3>2. SlotAt(clock, c, host) <= SlotAt(clock', c, host)
        BY <1>3, <1>5, <2>3 DEF SoundStore
    <3>3. /\ TimeOf(c) = SlotAt(clock, c, host) /\ TimeOf(c) \in Nat /\ started[c] \in Nat
        BY <1>0, <2>3, TimeOfIsTime
    <3>4. t <= Larger(started[c], TimeOf(c))
        BY <1>0, <2>3 DEF TimeInv, FollowsLeastAdvanced, CandidatesFollow
    <3> HIDE DEF found
    <3>5. QED
        BY <1>9, <2>1, <3>1, <3>2, <3>3, <3>4 DEF Larger
  <2>4. QED
      BY <2>2, <2>3
<1>11. CandidatesFollow' /\ FollowsLeastAdvanced'
    BY <1>1, <1>10 DEF CandidatesFollow, FollowsLeastAdvanced
<1>12. SamplesFollow'
    BY <1>0, <1>1 DEF TimeInv, SamplesFollow
<1>13. TimeInv'
    BY <1>1, <1>5, <1>11, <1>12 DEF TimeInv, WriterSampled, Sound
<1>14. TypeInv'
  <2>1. started' \in [Cores -> Nat]
      BY <1>0, <1>1, <1>6 DEF TypeInv
  <2>2. cpc' = [c \in Cores |-> cpc'[c]] /\ fpc' \in FrontPcs
      BY <1>0, <1>1 DEF TypeInv, FrontPcs
  <2>3. QED
      BY <1>0, <1>1, <1>8, <2>1, <2>2 DEF TypeInv
<1>15. ASSUME NEW c \in Cores
       PROVE  /\ cpc'[c] = cpc[c] \/ (c = writer.core /\ writer.op \in CoreOps)
              /\ c = writer.core => cpc'[c] = CoreAfter(writer.op) /\ writer.op \in CoreOps
  <2>1. c = writer.core => writer.op \in CoreOps
      BY <1>0, <1>2, NobodyIsNoWriter DEF ControlInv, WriterInPlace
  <2>2. QED
      BY <1>0, <1>1, <2>1 DEF TypeInv
<1>16. k.compiling \subseteq Cores /\ clock.running \subseteq Cores /\ k.running \subseteq Cores
    BY <1>0, <1>3, ClockFields DEF TypeInv, SoundStore, Sound
<1>17. FrozenCoresCompile'
  <2> SUFFICES ASSUME NEW c \in k.compiling
               PROVE  cpc'[c] = "compiling"
      BY <1>5 DEF FrozenCoresCompile
  <2>1. c \in Cores
      BY <1>16
  <2>2. CASE writer.op = "compile" /\ c = writer.core
      BY <1>15, <2>1, <2>2 DEF CoreAfter
  <2>3. CASE c \in clock.compiling /\ ~(writer.op = "compile" /\ c = writer.core)
    <3>1. cpc[c] = "compiling"
        BY <1>0, <2>3 DEF ControlInv, FrozenCoresCompile
    <3>2. writer.op # "compiled" \/ c # writer.core
        BY <1>3 DEF SoundStore
    <3>3. c # writer.core
        BY <1>0, <1>2, <2>1, <2>3, <3>1, <3>2, NobodyIsNoWriter
        DEF ControlInv, WriterInPlace, CoreOps, CoreBefore
    <3>4. QED
        BY <1>15, <2>1, <3>1, <3>3
  <2>4. QED
      BY <1>3, <2>2, <2>3 DEF SoundStore
<1>18. GuestCoresRun'
  <2> SUFFICES ASSUME NEW c \in Cores, cpc'[c] \in {"guest", "compiling", "notify"}
               PROVE  c \in k.running
      BY <1>5 DEF GuestCoresRun
  <2>1. CASE c = writer.core
    <3>1. writer.op \in CoreOps /\ writer.op # "end"
        BY <1>15, <2>1 DEF CoreAfter
    <3>2. CASE writer.op = "begin"
        BY <1>3, <2>1, <3>2 DEF SoundStore
    <3>3. CASE writer.op # "begin"
      <4>1. cpc[c] \in {"guest", "compiling"}
          BY <1>0, <1>2, <2>1, <3>1, <3>3 DEF ControlInv, WriterInPlace, CoreOps, CoreBefore
      <4>2. QED
          BY <1>0, <1>3, <3>1, <4>1 DEF ControlInv, GuestCoresRun, SoundStore
    <3>4. QED
        BY <3>2, <3>3
  <2>2. CASE c # writer.core
      BY <1>0, <1>3, <1>15, <2>2 DEF ControlInv, GuestCoresRun, SoundStore
  <2>3. QED
      BY <2>1, <2>2
<1>19. SleepEndsWithCompilation'
  <2>1. \A c \in Cores : cpc[c] \in {"compiling", "notify"} => cpc'[c] \in {"compiling", "notify"}
      BY <1>0, <1>2, <1>15 DEF ControlInv, WriterInPlace, CoreOps, CoreBefore, CoreAfter
  <2>2. QED
      BY <1>0, <1>1, <2>1 DEF ControlInv, SleepEndsWithCompilation
<1>20. WriterInPlace'
    BY <1>1 DEF WriterInPlace
<1>21. ShutDownInOrder' /\ SpinIsHeard' /\ JoinIsHeard'
  <2>1. CASE writer.op = "pause"
    <3>1. fpc = "clock" /\ fpc' \in {"pause", "resume"}
        BY <1>0, <1>1, <1>2, <2>1 DEF ControlInv, WriterInPlace, CoreOps
    <3>2. QED
        BY <1>0, <1>1, <3>1 DEF ControlInv, ShutDownInOrder, Resetting, SpinIsHeard, JoinIsHeard
  <2>2. CASE writer.op # "pause"
    <3>1. fpc' = fpc
        BY <1>1, <2>2
    <3>2. QED
        BY <1>0, <1>1, <3>1 DEF ControlInv, ShutDownInOrder, Resetting, SpinIsHeard, JoinIsHeard
  <2>3. QED
      BY <2>1, <2>2
<1>22. QED
    BY <1>13, <1>14, <1>17, <1>18, <1>19, <1>20, <1>21 DEF ClockIInv, ControlInv

-----------------------------------------------------------------------------
(* The theorems *)

\* The inductive invariant is kept by every step.
LEMMA NextKeepsInvariant == ClockIInv /\ [ClockNext]_allVars => ClockIInv'
<1> SUFFICES ASSUME ClockIInv, [ClockNext]_allVars
             PROVE  ClockIInv'
    OBVIOUS
<1>1. CASE UNCHANGED allVars
  <2>1. TimeInv'
      BY <1>1, TimeUntouched DEF ClockIInv, allVars, clockVars, readerVars, timeVars
  <2>2. ControlInv'
      BY <1>1, ReaderLeavesControl
      DEF ClockIInv, allVars, clockVars, readerVars, timingVars, pauseVars
  <2>3. TypeInv'
      BY <1>1 DEF ClockIInv, TypeInv, allVars, clockVars, readerVars, timingVars, pauseVars
  <2>4. QED
      BY <2>1, <2>2, <2>3 DEF ClockIInv
<1>2. CASE ClockNext
    BY <1>2, WriteStartsKeepInvariant, StartCompileKeepsInvariant, NotifyCompiledKeepsInvariant,
       OpenWriteKeepsInvariant, CloseWriteKeepsInvariant, ReaderStepKeepsInvariant,
       TimingStepKeepsInvariant, ScheduleEventKeepsInvariant, FrontStepKeepsInvariant,
       TickKeepsInvariant
    DEF ClockNext
<1>3. QED
    BY <1>1, <1>2

\* The inductive invariant holds: writers, readers, slots and the threads that
\* wait for one another agree at every step.
THEOREM ClockInvariant == ClockSpec => []ClockIInv
<1>1. QED
    BY InitHolds, NextKeepsInvariant, PTL DEF ClockSpec

\* The clock stays within the host's time, sequence is odd only under a writer,
\* and the cores that take part are those that run or are runnable.
THEOREM ClockInvHolds == ClockSpec => []ClockInv
<1>1. ClockIInv => ClockInv
  <2> SUFFICES ASSUME ClockIInv
               PROVE  ClockInv
      OBVIOUS
  <2>1. published \in 0 .. LastHostTick
      BY TimesFit DEF ClockIInv, TypeInv, Times
  <2>2. \A c \in Cores : clock.base[c] \in 0 .. host /\ clock.anchor[c] \in 0 .. host
      BY ClockFields DEF ClockIInv, TimeInv, Sound, Times, TypeInv
  <2>3. QED
      BY <2>1, <2>2 DEF ClockInv, ClockIInv, TypeInv, ControlInv, WriterInPlace, TimeInv, Sound
<1>2. QED
    BY <1>1, ClockInvariant, PTL

\* "Events follow the least advanced participating CPU": what readers publish is
\* never ahead of a core that takes part (Now, Begin, End, Pause, SetRunnableMask).
THEOREM ClockFollowsLeastAdvanced == ClockSpec => []FollowsLeastAdvanced
<1>1. ClockIInv => FollowsLeastAdvanced
    BY DEF ClockIInv, TimeInv
<1>2. QED
    BY <1>1, ClockInvariant, PTL

\* A timing thread that sleeps for a compilation is told of its end
\* (NotifyCompiled against AskForCompilation).
THEOREM CompilationEndsSleep == ClockSpec => []SleepEndsWithCompilation
<1>1. ClockIInv => SleepEndsWithCompilation
    BY DEF ClockIInv, ControlInv
<1>2. QED
    BY <1>1, ClockInvariant, PTL

\* Neither SyncPause nor Reset waits for a timing thread that sleeps on unaware.
THEOREM PausesAreHeard == ClockSpec => []PauseIsHeard
<1>1. ClockIInv => PauseIsHeard
    BY DEF ClockIInv, ControlInv, SpinIsHeard, JoinIsHeard, PauseIsHeard
<1>2. QED
    BY <1>1, ClockInvariant, PTL
=============================================================================
