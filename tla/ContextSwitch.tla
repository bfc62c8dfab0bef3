--------------------------- MODULE ContextSwitch ----------------------------
(***************************************************************************)
(* How the cores carry out the decisions of KScheduler (multi core mode).  *)
(* A thread that releases the scheduler lock publishes the decision of     *)
(* each core (highest, needs), releases the lock and interrupts the other  *)
(* cores; a core that finds needs set saves its thread, takes the context  *)
(* guard of the next one and starts over when the decision changed under   *)
(* it.  Every access to a word that several host threads share is a step   *)
(* of its own (k_scheduler.cpp, k_scheduler_lock.h, physical_core.cpp,     *)
(* cpu_manager.cpp, k_thread.cpp).                                         *)
(*                                                                         *)
(* The variable ctx of KScheduler is what the lock protects.  Null as a    *)
(* current thread is the core's own idle thread, whose guard nobody else   *)
(* takes.                                                                  *)
(***************************************************************************)
EXTENDS KScheduler

CONSTANTS
    Host,      \* a host thread that runs on no core: a timer, a service
    Free,      \* nobody owns the scheduler lock
    Exiting,   \* the threads that exit
    Pausable   \* the threads SetActivity is called for

ASSUME ActorsDiffer == {Host, Free} \cap Cores = {} /\ Host # Free
ASSUME CallersAreThreads == Exiting \subseteq Threads /\ Pausable \subseteq Threads

Actors == Cores \cup {Host}

VARIABLES
    highest,      \* m_state.highest_priority_thread of each core
    needs,        \* m_state.needs_scheduling of each core
    current,      \* m_current_thread of each core's scheduler
    guard,        \* the threads whose m_context_guard is locked
    target,       \* highest_priority_thread, the local of ScheduleImplFiber
    pc,           \* where each core and the host thread are
    lock,         \* the owner of the scheduler lock
    writes,       \* what its owner has yet to publish
    mask,         \* cores_needing_scheduling of each actor, less those interrupted
    interrupted,  \* m_is_interrupted of each physical core
    halted,       \* SignalInterrupt reached the CPU of the core
    subject,      \* the thread the host thread pauses, or Null
    paused,       \* the threads whose pausing SetActivity has returned
    closing       \* FinishTermination: the next core to look at, NoCore before Exit

schedulerVars == <<highest, needs, lock, writes>>
switchVars == <<current, guard, target>>
coreVars == <<interrupted, halted>>
threadVars == <<subject, paused, closing>>
vars == <<ctx, schedulerVars, switchVars, coreVars, threadVars, pc, mask>>

Closed == NumCores + 1
GoTo(a, l) == pc' = [pc EXCEPT ![a] = l]

-----------------------------------------------------------------------------
(* The scheduler lock *)

\* Mutant: needs_scheduling is left to the interrupt handler.
HighestOnly(stores) == [i \in 1 .. Len(stores) |-> [core |-> stores[i][1], highest |-> {stores[i][2]}]]

\* UpdateHighestPriorityThread: two stores per core, the thread before the flag.
Publication(stores) ==
    [i \in 1 .. 2 * Len(stores) |->
        LET s == stores[(i + 1) \div 2]
        IN  [core |-> s[1], highest |-> IF i % 2 = 1 THEN {s[2]} ELSE {}]]

\* The lock is taken, s is the state the operation leaves and the release
\* begins: the decision is made at once and then published.
LockAndUpdate(a, s) ==
    LET updated == UpdateHighestPriorityThreads(s)
    IN  /\ lock = Free
        /\ lock' = a
        /\ ctx' = [updated EXCEPT !.stores = <<>>]
        /\ writes' = Publication(updated.stores)
        /\ mask' = [mask EXCEPT ![a] = {st[1] : st \in {updated.stores[i] : i \in 1 .. Len(updated.stores)}} \ {a}]
        /\ GoTo(a, "publish")

Publish(a) ==
    /\ pc[a] = "publish" /\ writes # <<>>
    /\ LET w == Head(writes)
       IN  IF w.highest # {}
           THEN highest' = [highest EXCEPT ![w.core] = CHOOSE t \in w.highest : TRUE]
                /\ UNCHANGED needs
           ELSE needs' = [needs EXCEPT ![w.core] = TRUE] /\ UNCHANGED highest
    /\ writes' = Tail(writes)
    /\ UNCHANGED <<ctx, lock, switchVars, coreVars, threadVars, pc, mask>>

\* Where an actor goes on when it has interrupted the cores.
AfterInterrupts(a) ==
    CASE a # Host -> "enable"
      [] a = Host /\ subject # Null -> "verify"
      [] OTHER -> "idle"

ReleaseLock(a) ==
    /\ pc[a] = "publish" /\ writes = <<>>
    /\ lock' = Free
    /\ GoTo(a, IF mask[a] = {} THEN AfterInterrupts(a) ELSE "interrupt")
    /\ UNCHANGED <<ctx, highest, needs, writes, switchVars, coreVars, threadVars, mask>>

\* Mutant: a core that is not in guest code is not interrupted.
InterruptGuest(c) ==
    /\ interrupted' = [interrupted EXCEPT ![c] = @ \/ pc[c] = "guest"]
    /\ halted' = [halted EXCEPT ![c] = @ \/ pc[c] = "guest"]

\* PhysicalCore::Interrupt, under the guard of core c: a running CPU is halted.
InterruptCore(c) ==
    /\ interrupted' = [interrupted EXCEPT ![c] = TRUE]
    /\ halted' = [halted EXCEPT ![c] = @ \/ pc[c] = "guest"]

\* RescheduleCores, the lowest core first.
SendInterrupt(a) ==
    /\ pc[a] = "interrupt"
    /\ LET c == CHOOSE c \in mask[a] : \A d \in mask[a] : c <= d
       IN  /\ InterruptCore(c)
           /\ mask' = [mask EXCEPT ![a] = @ \ {c}]
           /\ GoTo(a, IF mask[a] = {c} THEN AfterInterrupts(a) ELSE "interrupt")
    /\ UNCHANGED <<ctx, schedulerVars, switchVars, threadVars>>

-----------------------------------------------------------------------------
(* Operations under the lock *)

Woken(t) == ctx.state[t] \in {"Initialized", "Waiting"}
IsRunnable(t) == ctx.state[t] = "Runnable"

WakeThread(a, t) ==
    /\ Woken(t)
    /\ LockAndUpdate(a, SetState(ctx, t, "Runnable"))
    /\ paused' = paused \ {t}
    /\ UNCHANGED <<subject, closing>>

\* A supervisor call of the thread on core c: it wakes a thread, waits, yields
\* or exits.
SystemCall(c) ==
    /\ pc[c] = "svc"
    /\ LET t == current[c] IN
       \/ \E u \in Threads : WakeThread(c, u)
       \/ /\ IsRunnable(t)
          /\ \/ LockAndUpdate(c, SetState(ctx, t, "Waiting"))
             \/ LockAndUpdate(c, YieldToAnyThread(ctx, t))
          /\ UNCHANGED threadVars
       \/ /\ t \in Exiting
          /\ LockAndUpdate(c, SetState(ctx, t, "Terminated"))
          /\ closing' = [closing EXCEPT ![t] = 0]
          /\ paused' = paused \ {t}
          /\ UNCHANGED subject
    /\ UNCHANGED <<highest, needs, switchVars, coreVars>>

\* A call that changes nothing the scheduler looks at.
ReturnFromCall(c) ==
    /\ pc[c] = "svc"
    /\ GoTo(c, "loop")
    /\ UNCHANGED <<ctx, schedulerVars, switchVars, coreVars, threadVars, mask>>

\* A timer or a service wakes a thread.
HostWakes ==
    /\ pc[Host] = "idle"
    /\ \E t \in Threads : WakeThread(Host, t)
    /\ UNCHANGED <<highest, needs, switchVars, coreVars>>

\* SetActivity(Paused): the suspension, then the wait until no core has the
\* thread as its current one, each look under the lock.
HostPauses ==
    /\ pc[Host] = "idle"
    /\ \E t \in Pausable :
          /\ IsRunnable(t)
          /\ LockAndUpdate(Host, SetState(ctx, t, "Waiting"))
          /\ subject' = t
    /\ UNCHANGED <<highest, needs, switchVars, coreVars, paused, closing>>

\* Mutant: the cores are not looked at.
NoLook(t) == TRUE

IsNotCurrent(t) == \A c \in Cores : current[c] # t

\* The thread may have been woken or terminated since: then nothing is promised.
Verify ==
    /\ pc[Host] = "verify" /\ lock = Free
    /\ IsNotCurrent(subject) \/ ctx.state[subject] = "Terminated"
    /\ paused' = IF ctx.state[subject] = "Waiting" THEN paused \cup {subject} ELSE paused
    /\ subject' = Null
    /\ GoTo(Host, "idle")
    /\ UNCHANGED <<ctx, schedulerVars, switchVars, coreVars, closing, mask>>

\* FinishTermination looks at one core after the other and closes the thread.
FinishTermination(t) ==
    /\ closing[t] \in 0 .. NumCores
    /\ IF closing[t] = NumCores THEN lock = Free ELSE current[closing[t]] # t
    /\ closing' = [closing EXCEPT ![t] = @ + 1]
    /\ UNCHANGED <<ctx, schedulerVars, switchVars, coreVars, subject, paused, pc, mask>>

-----------------------------------------------------------------------------
(* A core outside the switch *)

\* MultiCoreRunGuestThread and MultiCoreRunIdleThread: an interrupt is handled,
\* otherwise the thread goes on or the idle core sleeps.
Loop(c) ==
    /\ pc[c] = "loop"
    /\ interrupted[c] \/ current[c] # Null
    /\ GoTo(c, IF interrupted[c] THEN "handle" ELSE "enter")
    /\ UNCHANGED <<ctx, schedulerVars, switchVars, coreVars, threadVars, mask>>

\* EnterContext, under the guard Interrupt takes.
EnterContext(c) ==
    /\ pc[c] = "enter"
    /\ GoTo(c, IF interrupted[c] THEN "loop" ELSE "guest")
    /\ UNCHANGED <<ctx, schedulerVars, switchVars, coreVars, threadVars, mask>>

\* ExitContext: a halted CPU returns; guest code returns when it likes.
LeaveGuest(c) ==
    /\ pc[c] = "guest"
    /\ \/ halted[c] /\ GoTo(c, "loop")
       \/ GoTo(c, "svc")
    /\ halted' = [halted EXCEPT ![c] = FALSE]
    /\ UNCHANGED <<ctx, schedulerVars, switchVars, interrupted, threadVars, mask>>

\* KInterruptManager::HandleInterrupt: acknowledge, then ask for a schedule.
HandleInterrupt(c) ==
    /\ pc[c] = "handle"
    /\ interrupted' = [interrupted EXCEPT ![c] = FALSE]
    /\ GoTo(c, "request")
    /\ UNCHANGED <<ctx, schedulerVars, switchVars, halted, threadVars, mask>>

\* The flag it sets is cleared by ScheduleImpl right after, unseen by others.
RequestScheduleOnInterrupt(c) ==
    /\ pc[c] = "request"
    /\ needs' = [needs EXCEPT ![c] = FALSE]
    /\ GoTo(c, "load")
    /\ UNCHANGED <<ctx, highest, lock, writes, switchVars, coreVars, threadVars, mask>>

\* RescheduleCurrentCore, at the end of every operation under the lock.  Only
\* the core itself clears its flag, so that seeing it and clearing it
\* (ScheduleImpl) are one step, here and in Spin.
RescheduleCurrentCore(c) ==
    /\ pc[c] = "enable"
    /\ needs' = [needs EXCEPT ![c] = FALSE]
    /\ GoTo(c, IF needs[c] THEN "load" ELSE "loop")
    /\ UNCHANGED <<ctx, highest, lock, writes, switchVars, coreVars, threadVars, mask>>

-----------------------------------------------------------------------------
(* The switch: ScheduleImpl and ScheduleImplFiber *)

\* retry: the flag is cleared before the thread is loaded.
Retry(c) ==
    /\ pc[c] = "retry"
    /\ needs' = [needs EXCEPT ![c] = FALSE]
    /\ GoTo(c, "reload")
    /\ UNCHANGED <<ctx, highest, lock, writes, switchVars, coreVars, threadVars, mask>>

\* The idle thread is never the highest priority thread: an idle core goes
\* through the switch even when it stays idle.
LoadHighest(c) ==
    /\ pc[c] \in {"load", "reload"}
    /\ IF pc[c] = "load" /\ highest[c] # Null /\ highest[c] = current[c]
       THEN GoTo(c, "loop") /\ UNCHANGED target
       ELSE /\ target' = [target EXCEPT ![c] = highest[c]]
            /\ GoTo(c, IF pc[c] = "load" THEN "unload" ELSE "trylock")
    /\ UNCHANGED <<ctx, schedulerVars, current, guard, coreVars, threadVars, mask>>

\* Unload: the guard of a terminated thread stays locked for good.
Unload(c) ==
    /\ pc[c] = "unload"
    /\ guard' = IF current[c] # Null /\ ctx.state[current[c]] = "Terminated"
                THEN guard ELSE guard \ {current[c]}
    /\ GoTo(c, "trylock")
    /\ UNCHANGED <<ctx, schedulerVars, current, target, coreVars, threadVars, mask>>

\* Mutant: the guard is taken whoever holds it.
LockAnyway(c) ==
    /\ pc[c] = "trylock"
    /\ guard' = guard \cup ({target[c]} \ {Null})
    /\ GoTo(c, "switch")
    /\ UNCHANGED <<ctx, schedulerVars, current, target, coreVars, threadVars, mask>>

TryLock(c) ==
    /\ pc[c] = "trylock"
    /\ IF target[c] \in guard
       THEN GoTo(c, "spin") /\ UNCHANGED guard
       ELSE GoTo(c, "switch") /\ guard' = guard \cup ({target[c]} \ {Null})
    /\ UNCHANGED <<ctx, schedulerVars, current, target, coreVars, threadVars, mask>>

\* Mutant: the spin does not look for a newer decision.
SpinOn(c) ==
    /\ pc[c] = "spin"
    /\ GoTo(c, "trylock")
    /\ UNCHANGED <<ctx, schedulerVars, switchVars, coreVars, threadVars, mask>>

\* While another core holds the guard: another decision is a reason to retry.
Spin(c) ==
    /\ pc[c] = "spin"
    /\ needs' = [needs EXCEPT ![c] = FALSE]
    /\ GoTo(c, IF needs[c] THEN "reload" ELSE "trylock")
    /\ UNCHANGED <<ctx, highest, lock, writes, switchVars, coreVars, threadVars, mask>>

SwitchThread(c) ==
    /\ pc[c] = "switch"
    /\ current' = [current EXCEPT ![c] = target[c]]
    /\ GoTo(c, "check")
    /\ UNCHANGED <<ctx, schedulerVars, guard, target, coreVars, threadVars, mask>>

\* Mutant: a switch that must be retried keeps the guard.
KeepGuard(c) ==
    /\ pc[c] = "check"
    /\ GoTo(c, IF needs[c] THEN "retry" ELSE "loop")
    /\ target' = [target EXCEPT ![c] = Null]
    /\ UNCHANGED <<ctx, schedulerVars, current, guard, coreVars, threadVars, mask>>

\* The switch is complete unless a newer decision was announced.
CheckNeeds(c) ==
    /\ pc[c] = "check"
    /\ IF needs[c]
       THEN GoTo(c, "retry") /\ guard' = guard \ {target[c]}
       ELSE GoTo(c, "loop") /\ UNCHANGED guard
    /\ target' = [target EXCEPT ![c] = Null]
    /\ UNCHANGED <<ctx, schedulerVars, current, coreVars, threadVars, mask>>

-----------------------------------------------------------------------------
(* The specification *)

\* The cores start with a kernel thread and an empty queue; the guest threads
\* exist, may use every core and have not been started.
SwitchInit ==
    /\ ctx = [InitialContext([t \in Threads |-> 0], [t \in Threads |-> LowestPriority])
                EXCEPT !.mask = [t \in Threads |-> Cores],
                       !.virtual = [t \in Threads |-> Cores]]
    /\ highest = [c \in Cores |-> Null]
    /\ needs = [c \in Cores |-> TRUE]
    /\ current = [c \in Cores |-> Null]
    /\ guard = {}
    /\ target = [c \in Cores |-> Null]
    /\ pc = [a \in Actors |-> IF a = Host THEN "idle" ELSE "enable"]
    /\ lock = Free
    /\ writes = <<>>
    /\ mask = [a \in Actors |-> {}]
    /\ interrupted = [c \in Cores |-> FALSE]
    /\ halted = [c \in Cores |-> FALSE]
    /\ subject = Null
    /\ paused = {}
    /\ closing = [t \in Threads |-> NoCore]

\* What a core does by itself once it is neither in guest code nor in a call.
CoreStep(c) ==
    \/ Loop(c) \/ EnterContext(c) \/ HandleInterrupt(c) \/ RequestScheduleOnInterrupt(c)
    \/ RescheduleCurrentCore(c) \/ Retry(c) \/ LoadHighest(c) \/ Unload(c)
    \/ TryLock(c) \/ Spin(c) \/ SwitchThread(c) \/ CheckNeeds(c)

\* The release of the lock by any actor.
ReleaseStep(a) == Publish(a) \/ ReleaseLock(a) \/ SendInterrupt(a)

SwitchNext ==
    \/ \E c \in Cores : CoreStep(c) \/ LeaveGuest(c) \/ SystemCall(c) \/ ReturnFromCall(c)
    \/ \E a \in Actors : ReleaseStep(a)
    \/ HostWakes \/ HostPauses \/ Verify
    \/ \E t \in Threads : FinishTermination(t)

SwitchSpec == SwitchInit /\ [][SwitchNext]_vars

\* Every host thread runs, a halted CPU returns and so does a system call.
\* Nothing is assumed of guest code or of the operations under the lock.
SwitchFairness ==
    /\ \A c \in Cores : WF_vars(CoreStep(c)) /\ WF_vars(halted[c] /\ LeaveGuest(c))
                        /\ WF_vars(ReturnFromCall(c))
    /\ \A a \in Actors : WF_vars(ReleaseStep(a))
    /\ \A t \in Threads : WF_vars(closing[t] < NumCores /\ FinishTermination(t))

LiveSwitchSpec == SwitchSpec /\ SwitchFairness

-----------------------------------------------------------------------------
(* Properties *)

\* The core executes for its current thread, whose context is loaded.
Switching == {"trylock", "spin", "retry", "reload", "switch", "check"}
Loaded(c, t) == pc[c] \notin Switching /\ current[c] = t
Locking(c, t) == pc[c] \in {"switch", "check"} /\ target[c] = t

\* Type invariant, with the meaning of the context guard: it is locked exactly
\* while one core has the thread loaded or is loading it, and for good once
\* the thread has terminated and left its core.
SwitchInv ==
    /\ current \in [Cores -> Threads \cup {Null}]
    /\ target \in [Cores -> Threads \cup {Null}]
    /\ guard \subseteq Threads
    /\ lock \in Actors \cup {Free}
    /\ \A t \in Threads :
          t \in guard <=> \/ \E c \in Cores : Loaded(c, t) \/ Locking(c, t)
                          \/ ctx.state[t] = "Terminated"

\* No two cores have the same thread loaded, whatever the decisions that moved
\* it from one core to the other while its old core still ran it.
ContextLoadedOnce ==
    \A c, d \in Cores : \A t \in Threads :
        (Loaded(c, t) \/ Locking(c, t)) /\ (Loaded(d, t) \/ Locking(d, t)) => c = d

\* KThread::Exit never returns ("KThread::Exit() would return" is unreachable):
\* the release of the lock always switches away from the terminated thread.
ExitNeverReturns ==
    \A c \in Cores : current[c] # Null /\ ctx.state[current[c]] = "Terminated"
        => pc[c] \notin {"loop", "enter", "guest", "svc", "handle"}

\* Somebody is about to tell core c: a store or an interrupt is outstanding.
Announced(c) ==
    \/ \E i \in 1 .. Len(writes) : writes[i].core = c
    \/ \E a \in Actors : pc[a] \in {"publish", "interrupt"} /\ c \in mask[a]

\* A core that runs or sleeps with a thread other than the one decided for it
\* has been interrupted or is about to be; in guest code its CPU is halted.
\* Otherwise the decision would wait for the next system call of the guest.
StaleCoreIsTold ==
    \A c \in Cores : pc[c] \in {"loop", "enter", "guest"} =>
        /\ current[c] # ctx.highest[c] => interrupted[c] \/ Announced(c)
        /\ interrupted[c] /\ pc[c] = "guest" => halted[c]

\* Who waits until no core runs a thread may rely on it.  Once SetActivity has
\* returned, the paused thread is loaded on no core: GetThreadContext3 reads a
\* context that nobody changes any more.  A thread that FinishTermination has
\* closed, and that may be freed, is no core's current thread.
LeftThreadIsUnloaded ==
    \A t \in Threads, c \in Cores :
        /\ t \in paused => ~Loaded(c, t)
        /\ closing[t] = Closed => current[c] # t

\* The spin of FinishTermination ends: every core lets go of an exited thread.
\* closing only grows, so that a thread that is again and again not in the spin
\* has left it for good.
TerminationFinishes == \A t \in Exiting : []<>(closing[t] \notin 0 .. NumCores - 1)

\* A decision that is not changed any more is carried out: the core runs the
\* thread decided for it, or goes back to its idle thread.
DecisionIsCarriedOut ==
    \A c \in Cores : <>[][ctx.highest[c]' = ctx.highest[c]]_vars
                        => <>[]Loaded(c, ctx.highest[c])
=============================================================================
