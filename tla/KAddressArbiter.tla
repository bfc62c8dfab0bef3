-------------------------- MODULE KAddressArbiter --------------------------
(***************************************************************************)
(* Kernel::KAddressArbiter (src/nxemu-os/core/hle/kernel/                  *)
(* k_address_arbiter.cpp): threads that sleep until a word of guest memory *)
(* changes, and the calls that change it and wake them.                    *)
(*                                                                         *)
(* Every call runs under the scheduler lock and accesses guest memory once *)
(* (the exclusive-monitor loops are one atomic access), so a call is one   *)
(* step; the guests' own stores do not take the lock and fall between any  *)
(* two calls.  Calls that only return an error change nothing and are left *)
(* out.  Words are signed and wrap (Wrap), as the 32-bit ones do.          *)
(*                                                                         *)
(* Guests use a word for one purpose, and a guest that stores to one       *)
(* signals it afterwards: GuestStore, which is not in this repository.     *)
(***************************************************************************)
EXTENDS Integers, Sequences, SequencesExt, FiniteSetsExt, PriorityTrees

CONSTANTS
    Threads,
    EqualAddrs,     \* words that guests wait for with WaitIfEqual
    LessAddrs,      \* counters that guests wait for with WaitIfLessThan
    NoAddr,
    MaxValue,       \* the largest value of a word (numeric_limits<s32>::max())
    MaxCount,       \* bound on the count of a signal; 0 stands for "all"
    Priorities

Addrs == EqualAddrs \cup LessAddrs
Values == -(MaxValue + 1) .. MaxValue

ASSUME AddrsAssumption == NoAddr \notin Addrs /\ EqualAddrs \cap LessAddrs = {}
ASSUME BoundsAssumption == MaxValue \in Nat /\ MaxCount \in Nat /\ Priorities \subseteq Int

VARIABLES
    value,          \* the words in guest memory
    tree,           \* m_tree, one priority-ordered queue per address
    waitingAddr,    \* m_condvar_key while m_condvar_tree is set, or NoAddr
    priority,       \* m_priority
    waiting,        \* threads in state Waiting
    wanted,         \* the value argument of a sleeping thread's wait, else 0
    terminationRequested,
    stored,         \* the address a guest has stored to and not yet signalled
    passedOver,     \* sleepers that a signal with a count has left asleep
    wrapped         \* addresses whose counter was decremented below the range

threadVars == <<priority, waiting, wanted, terminationRequested, stored>>
ghostVars == <<passedOver, wrapped>>
vars == <<value, tree, waitingAddr, threadVars, ghostVars>>

Init ==
    /\ value = [a \in Addrs |-> 0]
    /\ tree = [a \in Addrs |-> <<>>]
    /\ waitingAddr = [t \in Threads |-> NoAddr]
    /\ priority \in [Threads -> Priorities]
    /\ waiting = {}
    /\ wanted = [t \in Threads |-> 0]
    /\ terminationRequested = {}
    /\ stored = [t \in Threads |-> NoAddr]
    /\ passedOver = {}
    /\ wrapped = {}

\* Two's complement.
Wrap(x) == ((x + MaxValue + 1) % (2 * (MaxValue + 1))) - (MaxValue + 1)

\* Thread t runs guest code and may make a call.
Running(t) == t \notin waiting /\ stored[t] = NoAddr

-----------------------------------------------------------------------------
(* Guests *)

\* A guest writes a word and will signal it.
GuestStore(t, a, v) ==
    /\ Running(t)
    /\ v # value[a]
    /\ value' = [value EXCEPT ![a] = v]
    /\ stored' = [stored EXCEPT ![t] = a]
    /\ UNCHANGED <<tree, waitingAddr, priority, waiting, wanted, terminationRequested,
                   ghostVars>>

-----------------------------------------------------------------------------
(* Signalling *)

\* How many threads the loop of a signal wakes.
NumToWake(a, count) == IF count <= 0 THEN Len(tree[a]) ELSE Min({count, Len(tree[a])})

\* The loop: EndWait, ClearAddressArbiter and erase for the first threads at a.
WakeWaiters(a, count) ==
    LET n == NumToWake(a, count)
        woken == { tree[a][i] : i \in 1 .. n }
    IN  /\ tree' = [tree EXCEPT ![a] = SubSeq(@, n + 1, Len(@))]
        /\ waitingAddr' = [t \in Threads |-> IF t \in woken THEN NoAddr ELSE waitingAddr[t]]
        /\ waiting' = waiting \ woken
        /\ wanted' = [t \in Threads |-> IF t \in woken THEN 0 ELSE wanted[t]]
        /\ UNCHANGED <<priority, terminationRequested>>

\* The threads that the primed queue at a still holds.
StillAsleep(a) == { tree'[a][i] : i \in 1 .. Len(tree'[a]) }

\* Signal, as a call of its own or as the one a guest owes for its store.
Signal(t, a, count) ==
    /\ t \notin waiting
    /\ stored[t] \in {NoAddr, a}
    /\ stored[t] = a => count = 0
    /\ WakeWaiters(a, count)
    /\ stored' = [stored EXCEPT ![t] = NoAddr]
    /\ passedOver' = (passedOver \cap waiting') \cup StillAsleep(a)
    /\ UNCHANGED <<value, wrapped>>

UpdateIfEqual(a, v, newValue) ==
    /\ value[a] = v
    /\ value' = [value EXCEPT ![a] = newValue]

SignalAndIncrementIfEqual(t, a, v, count) ==
    /\ Running(t)
    /\ UpdateIfEqual(a, v, Wrap(v + 1))
    /\ WakeWaiters(a, count)
    /\ passedOver' = (passedOver \cap waiting') \cup StillAsleep(a)
    /\ UNCHANGED <<stored, wrapped>>

\* Mutant: the thread the loop starts from is counted, too.
CountAll(a, count) == Min({Len(tree[a]), count + 1})

\* tmp_num_waiters: the loop counts the waiters behind the first one and stops
\* one past count.
CountOthers(a, count) == Min({Len(tree[a]) - 1, count + 1})

ModifiedValue(a, v, count) ==
    IF tree[a] = <<>> THEN Wrap(v + 1)
    ELSE IF count <= 0 THEN Wrap(v - 2)
    ELSE IF CountOthers(a, count) < count THEN Wrap(v - 1)
    ELSE v

SignalAndModifyByWaitingCountIfEqual(t, a, v, count) ==
    /\ Running(t)
    /\ UpdateIfEqual(a, v, ModifiedValue(a, v, count))
    /\ WakeWaiters(a, count)
    /\ passedOver' = passedOver \cap waiting'
    /\ UNCHANGED <<stored, wrapped>>

-----------------------------------------------------------------------------
(* Waiting *)

\* The thread sleeps at a.  (One that sleeps for ever is one whose timer never
\* comes.)
Sleep(t, a, v) ==
    /\ \E s \in TreeInsert(tree[a], t, priority) : tree' = [tree EXCEPT ![a] = s]
    /\ waitingAddr' = [waitingAddr EXCEPT ![t] = a]
    /\ waiting' = waiting \cup {t}
    /\ wanted' = [wanted EXCEPT ![t] = v]
    /\ UNCHANGED <<priority, terminationRequested, stored>>

CanSleep(t) == Running(t) /\ t \notin terminationRequested

\* Mutant: the word is not tested.
NoTest(a, v) == TRUE

IsEqual(a, v) == value[a] = v

WaitIfEqual(t, a, v) ==
    /\ CanSleep(t)
    /\ IsEqual(a, v)
    /\ Sleep(t, a, v)
    /\ UNCHANGED <<value, ghostVars>>

DecrementIfLessThan(a, v) ==
    /\ value[a] < v
    /\ value' = [value EXCEPT ![a] = Wrap(@ - 1)]
    /\ wrapped' = IF value'[a] > value[a] THEN wrapped \cup {a} ELSE wrapped

\* WaitIfLessThan; with decrement, the word is decremented even when the timeout
\* turns out to be zero.
WaitIfLessThan(t, a, v, decrement) ==
    /\ CanSleep(t)
    /\ \/ decrement /\ DecrementIfLessThan(a, v)
       \/ ~decrement /\ value[a] < v /\ UNCHANGED <<value, wrapped>>
    /\ \/ Sleep(t, a, v)
       \/ UNCHANGED <<tree, waitingAddr, threadVars>>
    /\ UNCHANGED passedOver

-----------------------------------------------------------------------------
(* The end of a wait other than by a signal, and priorities *)

\* Mutant: the thread stays in the tree.
StayInTree(t) == UNCHANGED <<tree, waitingAddr>>

LeaveTree(t) ==
    /\ \E s \in TreeErase(tree[waitingAddr[t]], t) :
         tree' = [tree EXCEPT ![waitingAddr[t]] = s]
    /\ waitingAddr' = [waitingAddr EXCEPT ![t] = NoAddr]

CancelWait(t) ==
    /\ LeaveTree(t)
    /\ waiting' = waiting \ {t}
    /\ wanted' = [wanted EXCEPT ![t] = 0]
    /\ passedOver' = passedOver \ {t}
    /\ UNCHANGED <<value, priority, stored, wrapped>>

OnTimer(t) ==
    /\ t \in waiting
    /\ CancelWait(t)
    /\ UNCHANGED terminationRequested

RequestTerminate(t) ==
    /\ t \notin terminationRequested
    /\ terminationRequested' = terminationRequested \cup {t}
    /\ \/ t \in waiting /\ CancelWait(t)
       \/ /\ t \notin waiting
          /\ UNCHANGED <<value, tree, waitingAddr, priority, waiting, wanted, stored,
                         ghostVars>>

\* Mutant: the thread keeps its place.
KeepPlace(t, a) == UNCHANGED tree

\* BeforeUpdatePriority and AfterUpdatePriority.
MoveInTree(t, a) ==
    \E s1 \in TreeErase(tree[a], t) :
    \E s2 \in TreeInsert(s1, t, priority') : tree' = [tree EXCEPT ![a] = s2]

\* RestorePriority changes the priority of a thread, asleep or not.
ChangePriority(t, p) ==
    /\ p # priority[t]
    /\ priority' = [priority EXCEPT ![t] = p]
    /\ IF waitingAddr[t] = NoAddr THEN UNCHANGED tree ELSE MoveInTree(t, waitingAddr[t])
    /\ UNCHANGED <<value, waitingAddr, waiting, wanted, terminationRequested, stored,
                   ghostVars>>

Next ==
    \/ \E t \in Threads, a \in Addrs, v \in Values : GuestStore(t, a, v)
    \/ \E t \in Threads, a \in Addrs, count \in 0 .. MaxCount : Signal(t, a, count)
    \/ \E t \in Threads, a \in Addrs, v \in Values, count \in 0 .. MaxCount :
         \/ SignalAndIncrementIfEqual(t, a, v, count)
         \/ SignalAndModifyByWaitingCountIfEqual(t, a, v, count)
    \/ \E t \in Threads, a \in EqualAddrs, v \in Values : WaitIfEqual(t, a, v)
    \/ \E t \in Threads, a \in LessAddrs, v \in Values, decrement \in BOOLEAN :
         WaitIfLessThan(t, a, v, decrement)
    \/ \E t \in Threads : OnTimer(t) \/ RequestTerminate(t)
    \/ \E t \in Threads, p \in Priorities : ChangePriority(t, p)

Spec == Init /\ [][Next]_vars

-----------------------------------------------------------------------------
TypeOK ==
    /\ value \in [Addrs -> Values]
    /\ tree \in [Addrs -> Seq(Threads)]
    /\ waitingAddr \in [Threads -> Addrs \cup {NoAddr}]
    /\ priority \in [Threads -> Priorities]
    /\ waiting \in SUBSET Threads
    /\ wanted \in [Threads -> Values]
    /\ terminationRequested \in SUBSET Threads
    /\ stored \in [Threads -> Addrs \cup {NoAddr}]
    /\ passedOver \in SUBSET waiting
    /\ wrapped \in SUBSET Addrs

\* The tree holds exactly the sleeping threads, each once and at its address, so
\* that a thread whose wait was cancelled is never signalled again.
ArbiterInv ==
    /\ TypeOK
    /\ \A t \in Threads : t \in waiting <=> waitingAddr[t] # NoAddr
    /\ \A a \in Addrs, t \in Threads : In(t, tree[a]) <=> waitingAddr[t] = a
    /\ \A a \in Addrs : Distinct(tree[a])

\* No missed wake-up: while a thread sleeps, the condition it waits for holds of
\* the word, unless whoever changed the word has yet to signal it, or a signal
\* with a count has woken others instead (or the counter ran off its range).
NoMissedWakeup ==
    \A t \in waiting \ passedOver :
        LET a == waitingAddr[t]
        IN  \/ \E u \in Threads : stored[u] = a
            \/ a \in EqualAddrs /\ value[a] = wanted[t]
            \/ a \in LessAddrs /\ (value[a] < wanted[t] \/ a \in wrapped)

\* What SignalAndModifyByWaitingCountIfEqual leaves in the word tells how its
\* signal ends: one more with nobody to wake, one less when it wakes everybody,
\* the same when it leaves a thread asleep.
ModifyTellsWaiters ==
    \A a \in Addrs, v \in Values, count \in 1 .. MaxCount :
        ModifiedValue(a, v, count) =
            IF tree[a] = <<>> THEN Wrap(v + 1)
            ELSE IF NumToWake(a, count) = Len(tree[a]) THEN Wrap(v - 1) ELSE v

\* The threads that a signal wakes first are at least as urgent as those it
\* leaves asleep at the address, although priorities change while they sleep.
WakesMostUrgent ==
    \A a \in Addrs, count \in 1 .. MaxCount :
        \A i \in 1 .. NumToWake(a, count), j \in NumToWake(a, count) + 1 .. Len(tree[a]) :
            priority[tree[a][i]] <= priority[tree[a][j]]

=============================================================================
