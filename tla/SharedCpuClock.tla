--------------------------- MODULE SharedCpuClock ---------------------------
(***************************************************************************)
(* The guest's clock in multi core mode, Core::Timing::SharedCpuClock      *)
(* (src/nxemu-os/core/shared_cpu_clock.h), and the timing thread of        *)
(* CoreTiming (core_timing.cpp) that waits for deadlines on it.            *)
(*                                                                         *)
(* Writers (cores that enter and leave guest code or compile, the          *)
(* scheduler, a pause) take the mutex writers and make sequence odd while  *)
(* they store.  Readers take no lock: they sample sequence and the host's  *)
(* clock, compute the time from the slots, look at sequence again and      *)
(* raise published to what they found.  A core that compiles freezes the   *)
(* clock, so that the timing thread sleeps until the compilation ends.     *)
(*                                                                         *)
(* sequence is abstracted to its parity (odd) and, for every reader, to    *)
(* whether it has changed since it was sampled (unchanged).                *)
(***************************************************************************)
EXTENDS Integers, FiniteSetsExt

CONSTANTS
    Cores,
    Compilers,      \* the cores that meet code they have not compiled
    Timing,         \* the timing thread
    Devices,        \* other threads that read the clock
    Nobody,         \* no writer
    RunnableMasks,  \* the arguments of SetRunnableMask
    Deadlines,      \* the times events are scheduled for
    LastHostTick,   \* the host's clock stops here: a bound for TLC
    Modulus         \* of unsigned arithmetic, 2^64 in the code

ASSUME ReadersDiffer == Timing \notin Devices
ASSUME MasksAreCores == RunnableMasks \subseteq SUBSET Cores
ASSUME TimesFit == LastHostTick \in Nat /\ Modulus \in Nat /\ Modulus > 2 * LastHostTick
                   /\ Deadlines \subseteq 1 .. LastHostTick

Readers == {Timing} \cup Devices

\* What a writer keeps until it stores it.
Writers(args) == [op : {"begin", "end", "compile", "compiled", "pause", "runnable"},
                  core : Cores \cup {Nobody}, arg : args,
                  now : 0 .. LastHostTick, host : 0 .. LastHostTick]

ASSUME NobodyIsNoWriter == /\ Nobody \notin Cores
                           /\ Nobody \notin Writers(BOOLEAN)
                           /\ Nobody \notin Writers(RunnableMasks)

VARIABLES
    host,        \* HostNow()
    clock,       \* the slots, masks and bases the writers store
    published,
    writer,      \* what the owner of writers does, Nobody when it is free
    odd,         \* sequence is odd
    sample,      \* the host time each reader has sampled
    unchanged,   \* the readers whose sample of sequence is still its value
    candidate,   \* the time each reader has computed
    rpc,         \* where each reader is in Now
    value,       \* what Now has returned to the timing thread
    cpc,         \* where each core is
    tpc,         \* where the timing thread is
    next,        \* next_time
    events,      \* times of the events scheduled
    event,       \* the event that wakes the timing thread is set
    waitingForCompilation, \* waiting_for_compilation
    waitingFor,  \* compilation_wait_deadline
    fpc,         \* where the thread that pauses or shuts down is
    paused,      \* CoreTiming::paused
    pausedSet,   \* paused_set
    pauseEvent,  \* pause_event is set
    shuttingDown,
    started      \* what readers had found when each participant's slot was
                 \* started: when the core became one, or at a pause

clockVars == <<clock, writer, odd>>
readerVars == <<sample, unchanged, candidate, rpc, value>>
timingVars == <<tpc, next, events, waitingForCompilation, waitingFor>>
pauseVars == <<fpc, paused, pausedSet, pauseEvent, shuttingDown>>
allVars == <<host, published, clockVars, readerVars, cpc, timingVars, event, pauseVars, started>>

-----------------------------------------------------------------------------
(* Arithmetic on the stored times *)

\* Unsigned subtraction.
Since(a, b) == (a - b) % Modulus

\* The time of core c at host time h.
SlotTime(k, c, h) == k.base[c] + (IF c \in k.compiling THEN 0 ELSE Since(h, k.anchor[c]))

\* The time Now computes: that of the least advanced participant, or idle time,
\* and never faster than the host.
ClockTime(k, h) ==
    Min({k.paceBase + Since(h, k.paceAnchor)} \cup
        IF k.active = {} THEN {k.idleBase + Since(h, k.idleAnchor)}
        ELSE {SlotTime(k, c, h) : c \in k.active})

Larger(a, b) == IF a < b THEN b ELSE a

Accumulate(k, c, h) ==
    [k EXCEPT !.base[c] = IF k.paused THEN @ ELSE SlotTime(k, c, h), !.anchor[c] = h]

SetIdle(k, now, h) == [k EXCEPT !.idleBase = now, !.idleAnchor = h]

-----------------------------------------------------------------------------
(* What each writer stores, given the time now it has sampled *)

Begin(k, c, now, h) ==
    LET own == IF c \notin k.active THEN now ELSE Accumulate(k, c, h).base[c]
    IN  [k EXCEPT !.base[c] = Larger(now, own), !.anchor[c] = h, !.compiling = @ \ {c},
                  !.running = @ \cup {c}, !.active = @ \cup {c}]

\* Mutant: a core that leaves the guest stops taking part.
EndAndLeave(k, c, now, h) ==
    LET runs == k.running \ {c}
    IN  SetIdle([Accumulate(k, c, h) EXCEPT !.running = runs, !.active = @ \ {c}], now, h)

End(k, c, now, h) ==
    LET runs == k.running \ {c}
    IN  SetIdle([Accumulate(k, c, h) EXCEPT !.running = runs,
                                            !.active = runs \cup k.runnable], now, h)

Pause(k, stop, now, h) ==
    LET Frozen(c) == IF c \in k.active THEN Accumulate(k, c, h).base[c] ELSE k.base[c]
    IN  SetIdle([k EXCEPT !.base = [c \in Cores |-> Larger(now, Frozen(c))],
                          !.anchor = [c \in Cores |-> h],
                          !.paceBase = now, !.paceAnchor = h,
                          !.paused = stop], now, h)

SetRunnableMask(k, mask, now, h) ==
    LET new == mask \ k.active
    IN  SetIdle([k EXCEPT !.base = [c \in Cores |-> IF c \in new THEN now ELSE @[c]],
                          !.anchor = [c \in Cores |-> IF c \in new THEN h ELSE @[c]],
                          !.compiling = @ \ new,
                          !.runnable = mask,
                          !.active = mask \cup k.running], now, h)

Compile(k, c, on, h) ==
    [Accumulate(k, c, h) EXCEPT !.compiling = IF on THEN @ \cup {c} ELSE @ \ {c}]

\* What is stored again before it is read is forgotten: the slots of cores that
\* do not take part, anchors of frozen slots, and the idle time while a core does.
Forget(k) ==
    LET Stands(c) == k.paused \/ c \in k.compiling \/ c \notin k.active
    IN  [k EXCEPT !.base = [c \in Cores |-> IF c \in k.active THEN @[c] ELSE 0],
                  !.anchor = [c \in Cores |-> IF Stands(c) THEN 0 ELSE @[c]],
                  !.idleBase = IF k.active = {} THEN @ ELSE 0,
                  !.idleAnchor = IF k.active = {} /\ ~k.paused THEN @ ELSE 0,
                  !.paceAnchor = IF k.paused THEN 0 ELSE @]

\* The operation a writer performs.
Stored(k, w) ==
    CASE w.op = "begin" -> Begin(k, w.core, w.now, host)
      [] w.op = "end" -> End(k, w.core, w.now, host)
      [] w.op = "compile" -> Compile(k, w.core, TRUE, host)
      [] w.op = "compiled" -> Compile(k, w.core, FALSE, host)
      [] w.op = "pause" -> Pause(k, w.arg, w.now, w.host)
      [] w.op = "runnable" -> SetRunnableMask(k, w.arg, w.now, w.host)


-----------------------------------------------------------------------------
(* Writers *)

NewWriter(op, c, arg, now) ==
    [op |-> op, core |-> c, arg |-> arg, now |-> now,
     host |-> IF op \in {"pause", "runnable"} THEN host ELSE 0]

\* Nobody else writes: Now has no reason to give up.
WriterNow == IF clock.paused THEN published ELSE Larger(published, ClockTime(clock, host))

\* The cores and services are gone by the time the core timing is reset.
Resetting == shuttingDown \/ fpc = "shut"

\* Take the mutex and sample the clock.
StartWrite(op, c, arg) ==
    /\ writer = Nobody
    /\ ~Resetting
    /\ published' = WriterNow
    /\ writer' = NewWriter(op, c, arg, WriterNow)
    /\ UNCHANGED <<host, clock, odd, readerVars, cpc, timingVars, event, started>>

\* Compile takes no sample.
StartCompile(op, c) ==
    /\ writer = Nobody
    /\ writer' = NewWriter(op, c, FALSE, 0)
    /\ odd' = TRUE
    /\ unchanged' = {}
    /\ UNCHANGED <<host, published, clock, sample, candidate, rpc, value, cpc, timingVars, event,
                   pauseVars, started>>

BeginCpuRun(c) == cpc[c] = "out" /\ StartWrite("begin", c, FALSE) /\ UNCHANGED pauseVars
EndCpuRun(c) == cpc[c] = "guest" /\ StartWrite("end", c, FALSE) /\ UNCHANGED pauseVars
StartsCompiling(c) == c \in Compilers /\ cpc[c] = "guest" /\ StartCompile("compile", c)
StopsCompiling(c) == cpc[c] = "compiling" /\ StartCompile("compiled", c)

\* The scheduler, at the end of an update.
SetCpuRunnableMask(mask) ==
    /\ mask # clock.runnable
    /\ StartWrite("runnable", Nobody, mask)
    /\ UNCHANGED pauseVars

\* sequence becomes odd; a writer that samples the host's clock before it does so
\* may have done it at any time since it began.
OpenWrite ==
    /\ writer # Nobody /\ ~odd
    /\ odd' = TRUE
    /\ \E h \in writer.host .. host :
          writer' = IF writer.op \in {"pause", "runnable"} THEN [writer EXCEPT !.host = h]
                    ELSE writer
    /\ unchanged' = {}
    /\ UNCHANGED <<host, published, clock, sample, candidate, rpc, value, cpc, timingVars,
                   event, pauseVars, started>>

\* Where the writer goes on.
CoreAfter(op) ==
    CASE op = "begin" -> "guest"
      [] op = "end" -> "out"
      [] op = "compile" -> "compiling"
      [] op = "compiled" -> "notify"

\* The stores, and sequence is even again.
CloseWrite ==
    /\ odd
    /\ odd' = FALSE
    /\ clock' = Forget(Stored(clock, writer))
    /\ writer' = Nobody
    /\ started' = [c \in Cores |-> IF c \notin clock'.active THEN 0
                                  ELSE IF writer.op = "pause" \/ c \notin clock.active
                                  THEN Max({published} \cup {candidate[r] : r \in Readers})
                                  ELSE started[c]]
    /\ cpc' = IF writer.core \in Cores THEN [cpc EXCEPT ![writer.core] = CoreAfter(writer.op)]
              ELSE cpc
    /\ fpc' = IF writer.op # "pause" THEN fpc
              ELSE IF writer.arg THEN "pause" ELSE "resume"
    /\ UNCHANGED <<host, published, readerVars, timingVars, event, paused, pausedSet,
                   pauseEvent, shuttingDown>>

-----------------------------------------------------------------------------
(* Now *)

Return(r, v) ==
    /\ rpc' = [rpc EXCEPT ![r] = IF r = Timing THEN "done" ELSE "idle"]
    /\ value' = IF r = Timing THEN v ELSE value
    /\ sample' = [sample EXCEPT ![r] = 0]
    /\ candidate' = [candidate EXCEPT ![r] = 0]
    /\ unchanged' = unchanged \ {r}

ReadVersion(r) ==
    /\ rpc[r] = "idle"
    /\ r = Timing => tpc \in {"advance", "measure"}
    /\ \/ /\ odd \/ clock.paused
          /\ Return(r, published)
       \/ /\ ~odd /\ ~clock.paused
          /\ sample' = [sample EXCEPT ![r] = host]
          /\ unchanged' = unchanged \cup {r}
          /\ rpc' = [rpc EXCEPT ![r] = "snapshot"]
          /\ UNCHANGED <<candidate, value>>
    /\ UNCHANGED <<host, published, clockVars, cpc, timingVars, event, pauseVars, started>>

\* Mutant: sequence is not looked at again.
TrustSnapshot(r) == TRUE

SequenceUnchanged(r) == r \in unchanged

ReadSlots(r) ==
    /\ rpc[r] = "snapshot"
    /\ \/ /\ ~SequenceUnchanged(r)
          /\ Return(r, published)
       \/ /\ SequenceUnchanged(r)
          /\ candidate' = [candidate EXCEPT ![r] = ClockTime(clock, sample[r])]
          /\ rpc' = [rpc EXCEPT ![r] = "publish"]
          /\ UNCHANGED <<sample, unchanged, value>>
    /\ UNCHANGED <<host, published, clockVars, cpc, timingVars, event, pauseVars, started>>

RaisedTo(t) == Larger(published, t)

PublishTime(r) ==
    /\ rpc[r] = "publish"
    /\ published' = RaisedTo(candidate[r])
    /\ Return(r, published')
    /\ UNCHANGED <<host, clockVars, cpc, timingVars, event, pauseVars, started>>

-----------------------------------------------------------------------------
(* The timing thread: ThreadLoop and Advance *)

TimingGoes(l) == tpc' = l

OuterLoop ==
    /\ tpc = "outer"
    /\ TimingGoes(IF shuttingDown THEN "done" ELSE "check")
    /\ UNCHANGED <<host, published, clockVars, readerVars, cpc, next, events,
                   waitingForCompilation,
                   waitingFor, event, pauseVars, started>>

CheckPaused ==
    /\ tpc = "check"
    /\ TimingGoes(IF paused THEN "pauseWait" ELSE "advance")
    /\ pausedSet' = paused
    /\ UNCHANGED <<host, published, clockVars, readerVars, cpc, next, events,
                   waitingForCompilation,
                   waitingFor, event, fpc, paused, pauseEvent, shuttingDown, started>>

WaitPaused ==
    /\ tpc = "pauseWait"
    /\ pauseEvent
    /\ pauseEvent' = FALSE
    /\ TimingGoes("outer")
    /\ UNCHANGED <<host, published, clockVars, readerVars, cpc, next, events,
                   waitingForCompilation,
                   waitingFor, event, fpc, paused, pausedSet, shuttingDown, started>>

\* The value of Now is used up.
Consumed == /\ rpc[Timing] = "done"
            /\ rpc' = [rpc EXCEPT ![Timing] = "idle"]
            /\ value' = 0
            /\ UNCHANGED <<sample, unchanged, candidate>>

\* Advance: the first event is due, or the time of the first is returned.
AdvanceEvents ==
    /\ tpc = "advance"
    /\ Consumed
    /\ \/ /\ \E d \in events : d <= value
          /\ events' = events \ {Min(events)}
          /\ UNCHANGED <<tpc, next>>
       \/ /\ \A d \in events : d > value
          /\ next' = IF events = {} THEN 0 ELSE Min(events)
          /\ TimingGoes(IF events = {} THEN "wait" ELSE "measure")
          /\ UNCHANGED events
    /\ UNCHANGED <<host, published, clockVars, cpc, waitingForCompilation, waitingFor, event,
                   pauseVars,
                   started>>

\* wait_time > 0.
MeasureWait ==
    /\ tpc = "measure"
    /\ Consumed
    /\ TimingGoes(IF next > value THEN "ask" ELSE "check")
    /\ next' = IF next > value THEN next ELSE 0
    /\ UNCHANGED <<host, published, clockVars, cpc, events, waitingForCompilation, waitingFor,
                   event,
                   pauseVars, started>>

CompilationBlocks(d) ==
    ~odd /\ \E c \in clock.active \cap clock.compiling : clock.base[c] < d

\* Under compilation_wait_guard.
AskForCompilation ==
    /\ tpc = "ask"
    /\ waitingForCompilation' = CompilationBlocks(next)
    /\ waitingFor' = IF waitingForCompilation' THEN next ELSE 0
    /\ TimingGoes(IF waitingForCompilation' THEN "blocked" ELSE "timed")
    /\ next' = 0
    /\ UNCHANGED <<host, published, clockVars, readerVars, cpc, events, event, pauseVars,
                   started>>

\* event.Wait() with no timeout.
WaitBlocked ==
    /\ tpc \in {"blocked", "wait"}
    /\ event
    /\ event' = FALSE
    /\ TimingGoes(IF tpc = "blocked" THEN "clear" ELSE "check")
    /\ UNCHANGED <<host, published, clockVars, readerVars, cpc, next, events,
                   waitingForCompilation,
                   waitingFor, pauseVars, started>>

ClearWaiting ==
    /\ tpc = "clear"
    /\ waitingForCompilation' = FALSE
    /\ waitingFor' = 0
    /\ TimingGoes("check")
    /\ UNCHANGED <<host, published, clockVars, readerVars, cpc, next, events, event, pauseVars,
                   started>>

\* event.WaitFor: the event or the timeout, which the host's clock reaches.
WaitTimed ==
    /\ tpc = "timed"
    /\ event' = FALSE
    /\ TimingGoes("check")
    /\ UNCHANGED <<host, published, clockVars, readerVars, cpc, next, events,
                   waitingForCompilation,
                   waitingFor, pauseVars, started>>

-----------------------------------------------------------------------------
(* The others *)

\* Mutant: the timing thread is told only of the deadlines it waits for.
NotifyReached(c) ==
    waitingForCompilation /\ published >= waitingFor

\* The timing thread sleeps for a compilation that no longer holds it up.
CanProceed(c) == waitingForCompilation /\ ~CompilationBlocks(waitingFor)

\* The rest of CpuCompilation, under compilation_wait_guard.
NotifyCompiled(c) ==
    /\ cpc[c] = "notify"
    /\ cpc' = [cpc EXCEPT ![c] = "guest"]
    /\ waitingForCompilation' = (waitingForCompilation /\ ~CanProceed(c))
    /\ waitingFor' = IF waitingForCompilation' THEN waitingFor ELSE 0
    /\ event' = (event \/ CanProceed(c))
    /\ UNCHANGED <<host, published, clockVars, readerVars, tpc, next, events, pauseVars,
                   started>>

\* Put an event into the queue and notify.  Advance holds basic_lock, which this
\* takes, except when it calls back.
ScheduleDeadline(d) ==
    /\ ~Resetting
    /\ tpc = "advance" => rpc[Timing] = "idle"
    /\ d \notin events
    /\ events' = events \cup {d}
    /\ event' = TRUE
    /\ UNCHANGED <<host, published, clockVars, readerVars, cpc, tpc, next,
                   waitingForCompilation,
                   waitingFor, pauseVars, started>>

\* SyncPause, whose first step pauses the clock.
SyncPause(stop) ==
    /\ fpc = "idle"
    /\ ~(stop = paused /\ pausedSet = paused)
    /\ StartWrite("pause", Nobody, stop)
    /\ fpc' = "clock"
    /\ UNCHANGED <<paused, pausedSet, pauseEvent, shuttingDown>>

SetPaused ==
    /\ fpc \in {"pause", "resume"}
    /\ paused' = (fpc = "pause")
    /\ fpc' = "wake"
    /\ UNCHANGED <<host, published, clockVars, readerVars, cpc, timingVars, event,
                   pausedSet, pauseEvent, shuttingDown, started>>

\* Reset of the core timing, when the emulation ends.
Reset ==
    /\ fpc = "idle"
    /\ \A c \in Cores : cpc[c] = "out"
    /\ writer = Nobody
    /\ paused' = TRUE
    /\ fpc' = "shut"
    /\ UNCHANGED <<host, published, clockVars, readerVars, cpc, timingVars, event,
                   pausedSet, pauseEvent, shuttingDown, started>>

ShutDown ==
    /\ fpc = "shut"
    /\ shuttingDown' = TRUE
    /\ fpc' = "wake"
    /\ UNCHANGED <<host, published, clockVars, readerVars, cpc, timingVars, event, paused,
                   pausedSet, pauseEvent, started>>

\* Mutant: only a thread that has paused already is woken.
WakePaused ==
    /\ fpc = "wake"
    /\ pauseEvent' = TRUE
    /\ fpc' = IF shuttingDown THEN "join" ELSE "spin"
    /\ UNCHANGED <<host, published, clockVars, readerVars, cpc, timingVars, event, paused,
                   pausedSet, shuttingDown, started>>

\* pause_event and the event are set; a thread that waits for one does not wait
\* for the other.
WakeTiming ==
    /\ fpc = "wake"
    /\ pauseEvent' = TRUE
    /\ event' = TRUE
    /\ fpc' = IF shuttingDown THEN "join" ELSE "spin"
    /\ UNCHANGED <<host, published, clockVars, readerVars, cpc, timingVars, paused, pausedSet,
                   shuttingDown, started>>

\* SyncPause spins until the timing thread has paused; Reset joins it.
FrontReturns ==
    /\ \/ fpc = "spin" /\ pausedSet = paused /\ fpc' = "idle"
       \/ fpc = "join" /\ tpc = "done" /\ fpc' = "gone"
    /\ UNCHANGED <<host, published, clockVars, readerVars, cpc, timingVars, event, paused,
                   pausedSet, pauseEvent, shuttingDown, started>>

HostTick ==
    /\ host < LastHostTick
    /\ ~Resetting
    /\ host' = host + 1
    /\ UNCHANGED <<published, clockVars, readerVars, cpc, timingVars, event, pauseVars,
                   started>>

-----------------------------------------------------------------------------
(* The specification *)

ClockInit ==
    /\ host = 0
    /\ clock = [base |-> [c \in Cores |-> 0], anchor |-> [c \in Cores |-> 0],
                compiling |-> {}, active |-> {}, running |-> {}, runnable |-> {},
                idleBase |-> 0, idleAnchor |-> 0, paceBase |-> 0, paceAnchor |-> 0,
                paused |-> TRUE]
    /\ published = 0
    /\ writer = Nobody
    /\ odd = FALSE
    /\ sample = [r \in Readers |-> 0]
    /\ unchanged = {}
    /\ candidate = [r \in Readers |-> 0]
    /\ rpc = [r \in Readers |-> "idle"]
    /\ value = 0
    /\ cpc = [c \in Cores |-> "out"]
    /\ tpc = "outer"
    /\ next = 0
    /\ events = {}
    /\ event = TRUE
    /\ waitingForCompilation = FALSE
    /\ waitingFor = 0
    /\ fpc = "idle"
    /\ paused = TRUE
    /\ pausedSet = FALSE
    /\ pauseEvent = TRUE
    /\ shuttingDown = FALSE
    /\ started = [c \in Cores |-> 0]

TimingStep ==
    \/ OuterLoop \/ CheckPaused \/ WaitPaused \/ AdvanceEvents \/ MeasureWait
    \/ AskForCompilation \/ WaitBlocked \/ ClearWaiting \/ WaitTimed

ReaderStep(r) == ReadVersion(r) \/ ReadSlots(r) \/ PublishTime(r)

ClockNext ==
    \/ \E c \in Cores : BeginCpuRun(c) \/ EndCpuRun(c) \/ StartsCompiling(c)
                        \/ StopsCompiling(c) \/ NotifyCompiled(c)
    \/ \E mask \in RunnableMasks : SetCpuRunnableMask(mask)
    \/ OpenWrite \/ CloseWrite
    \/ \E r \in Readers : ReaderStep(r)
    \/ TimingStep
    \/ \E d \in Deadlines : ScheduleDeadline(d)
    \/ \E v \in BOOLEAN : SyncPause(v)
    \/ SetPaused \/ Reset \/ ShutDown \/ WakeTiming \/ FrontReturns
    \/ HostTick

ClockSpec == ClockInit /\ [][ClockNext]_allVars

-----------------------------------------------------------------------------
(* Properties *)

\* The time of core c: it stands while the clock is paused.
TimeOf(c) == IF clock.paused THEN clock.base[c] ELSE SlotTime(clock, c, host)

ClockInv ==
    /\ published \in 0 .. LastHostTick
    /\ writer = Nobody => ~odd
    /\ clock.running \subseteq clock.active
    /\ clock.active = clock.running \cup clock.runnable
    /\ \A c \in Cores : clock.base[c] \in 0 .. host /\ clock.anchor[c] \in 0 .. host
    /\ tpc \in {"outer", "check", "pauseWait", "advance", "measure", "ask", "blocked", "wait",
                "clear", "timed", "done"}

\* "Events follow the least advanced participating CPU": the clock is never
\* ahead of a participant, except for what readers had found when the core's slot
\* was started.
FollowsLeastAdvanced ==
    \A c \in clock.active : published <= Larger(started[c], TimeOf(c))

\* No wake-up is missed: a timing thread that sleeps without a timeout for a
\* compilation is notified, or a core is still compiling or about to notify it.
SleepEndsWithCompilation ==
    tpc = "blocked" /\ ~event =>
        waitingForCompilation /\ \E c \in Cores : cpc[c] \in {"compiling", "notify"}

\* SyncPause spins for, and Reset joins, a thread that has something to do: it
\* does not sleep for an event, a compilation or the end of a pause.
PauseIsHeard ==
    \/ fpc = "spin" /\ pausedSet # paused
    \/ fpc = "join" /\ tpc # "done"
    => /\ tpc \in {"wait", "blocked"} => event
       /\ tpc = "pauseWait" => pauseEvent
=============================================================================
