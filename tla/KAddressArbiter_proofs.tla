----------------------- MODULE KAddressArbiter_proofs -----------------------
(***************************************************************************)
(* Proofs about KAddressArbiter, for every number of threads and words and *)
(* every range of values, counts and priorities.                           *)
(***************************************************************************)
EXTENDS KAddressArbiter, OrderLemmas

\* Every queue is in order of priority.
TreesSorted == \A a \in Addrs : Sorted(tree[a], priority)

\* The sleepers' queues and keys agree (the parts of ArbiterInv but TypeOK).
TreesMatch ==
    /\ \A t \in Threads : t \in waiting <=> waitingAddr[t] # NoAddr
    /\ \A a \in Addrs, t \in Threads : In(t, tree[a]) <=> waitingAddr[t] = a
    /\ \A a \in Addrs : Distinct(tree[a])

\* What makes a sleeper's wait right: the condition for which it sleeps, or a
\* store to its word that is still to be signalled.
WaitIsRight(t) ==
    LET a == waitingAddr[t]
    IN  \/ \E u \in Threads : stored[u] = a
        \/ a \in EqualAddrs /\ value[a] = wanted[t]
        \/ a \in LessAddrs /\ (value[a] < wanted[t] \/ a \in wrapped)

\* The inductive invariant.
ArbiterIInv ==
    /\ TypeOK
    /\ TreesMatch
    /\ TreesSorted
    /\ \A t \in waiting \ passedOver : WaitIsRight(t)

-----------------------------------------------------------------------------
\* Two's complement stays in range.
LEMMA WrapInRange == ASSUME NEW x \in Int PROVE Wrap(x) \in Values
<1> DEFINE m == 2 * (MaxValue + 1)
           y == x + MaxValue + 1
<1>1. m \in Nat \ {0} /\ y \in Int /\ m = MaxValue + 1 + (MaxValue + 1) /\ MaxValue \in Nat
  BY BoundsAssumption
<1>2. Wrap(x) = (y % m) - (MaxValue + 1)
  BY DEF Wrap
<1> HIDE DEF m, y
<1>3. y % m \in 0 .. (m - 1)
  BY <1>1
<1> DEFINE z == y % m
<1>4. z \in 0 .. (m - 1) /\ Wrap(x) = z - (MaxValue + 1)
  BY <1>2, <1>3
<1> HIDE DEF z
<1>5. QED BY <1>1, <1>4 DEF Values

\* Priorities and values can be compared.
LEMMA Numbers ==
    ASSUME TypeOK
    PROVE  /\ \A p \in Priorities : p \in Int
           /\ \A t \in Threads : priority[t] \in Int /\ wanted[t] \in Int
           /\ \A a \in Addrs : value[a] \in Int
           /\ \A v \in Values : v \in Int
           /\ MaxValue \in Nat /\ MaxCount \in Nat /\ 0 \in Values
<1>1. (\A v \in Values : v \in Int) /\ 0 \in Values
  BY BoundsAssumption DEF Values
<1>2. QED BY <1>1, BoundsAssumption DEF TypeOK

\* How many threads a signal wakes.
LEMMA NumToWakeIs ==
    ASSUME TypeOK, NEW a \in Addrs, NEW count \in Nat
    PROVE  /\ Len(tree[a]) \in Nat
           /\ NumToWake(a, count) =
                IF count > 0 /\ count <= Len(tree[a]) THEN count ELSE Len(tree[a])
           /\ NumToWake(a, count) \in 0 .. Len(tree[a])
<1> DEFINE n == Len(tree[a])
<1>1. n \in Nat
  BY DEF TypeOK
<1> HIDE DEF n
<1>2. {count, n} \in SUBSET Nat /\ {count, n} # {}
  BY <1>1
<1>3. Min({count, n}) \in {count, n} /\ \A y \in {count, n} : Min({count, n}) <= y
  BY <1>2, MinOfNaturals, Zenon
<1>4. Min({count, n}) = IF count <= n THEN count ELSE n
  BY <1>1, <1>3
<1>5. NumToWake(a, count) = IF count <= 0 THEN n ELSE Min({count, n})
  BY DEF NumToWake, n
<1>6. QED BY <1>1, <1>4, <1>5 DEF n

\* What SignalAndModifyByWaitingCountIfEqual stores, by the number of sleepers.
LEMMA ModifiedValueIs ==
    ASSUME TypeOK, NEW a \in Addrs, NEW count \in Nat, NEW v
    PROVE  ModifiedValue(a, v, count) =
             IF tree[a] = <<>> THEN Wrap(v + 1)
             ELSE IF count <= 0 THEN Wrap(v - 2)
             ELSE IF Len(tree[a]) <= count THEN Wrap(v - 1)
             ELSE v
<1>1. CASE tree[a] = <<>> \/ count <= 0
  BY <1>1 DEF ModifiedValue
<1>2. CASE tree[a] # <<>> /\ ~(count <= 0)
  <2> DEFINE n == Len(tree[a])
  <2>1. n \in Nat \ {0}
    BY <1>2 DEF TypeOK
  <2>2. CountOthers(a, count) = Min({n - 1, count + 1})
    BY DEF CountOthers
  <2> HIDE DEF n
  <2>3. {n - 1, count + 1} \in SUBSET Nat /\ {n - 1, count + 1} # {}
    BY <2>1
  <2>4. /\ Min({n - 1, count + 1}) \in {n - 1, count + 1}
        /\ \A y \in {n - 1, count + 1} : Min({n - 1, count + 1}) <= y
    BY <2>3, MinOfNaturals, Zenon
  <2>5. CountOthers(a, count) < count <=> n <= count
    BY <2>1, <2>2, <2>4
  <2>6. QED BY <1>2, <2>5 DEF ModifiedValue, n
<1>3. QED BY <1>1, <1>2

\* The loop of a signal removes the threads it wakes from the queue and from the
\* set of sleepers, and leaves the others asleep and in order.
LEMMA WakeWaitersKeeps ==
    ASSUME TypeOK, TreesMatch, TreesSorted, NEW a \in Addrs, NEW count \in Nat, WakeWaiters(a, count)
    PROVE  /\ tree' \in [Addrs -> Seq(Threads)]
           /\ waitingAddr' \in [Threads -> Addrs \cup {NoAddr}]
           /\ wanted' \in [Threads -> Values]
           /\ waiting' \in SUBSET waiting
           /\ TreesMatch' /\ TreesSorted'
           /\ \A t \in waiting' : waitingAddr'[t] = waitingAddr[t] /\ wanted'[t] = wanted[t]
           /\ StillAsleep(a) \in SUBSET waiting'
           /\ \A t \in waiting' : waitingAddr'[t] = a => t \in StillAsleep(a)
           /\ count <= 0 \/ Len(tree[a]) <= count => StillAsleep(a) = {}
<1> USE DEF TreesMatch
<1> DEFINE n == NumToWake(a, count)
           woken == { tree[a][i] : i \in 1 .. n }
           r == SubSeq(tree[a], n + 1, Len(tree[a]))
<1>1. /\ tree' = [tree EXCEPT ![a] = r]
      /\ waitingAddr' = [t \in Threads |-> IF t \in woken THEN NoAddr ELSE waitingAddr[t]]
      /\ waiting' = waiting \ woken
      /\ wanted' = [t \in Threads |-> IF t \in woken THEN 0 ELSE wanted[t]]
      /\ priority' = priority
  BY DEF WakeWaiters
<1>2. /\ n \in 0 .. Len(tree[a]) /\ Len(tree[a]) \in Nat
      /\ count <= 0 \/ Len(tree[a]) <= count => n = Len(tree[a])
  BY NumToWakeIs
<1>3. tree[a] \in Seq(Threads) /\ Distinct(tree[a]) /\ Sorted(tree[a], priority)
  BY DEF TypeOK, TreesSorted
<1>4. /\ r \in Seq(Threads) /\ Len(r) = Len(tree[a]) - n
      /\ \A x : In(x, r) <=> In(x, tree[a]) /\ x \notin { tree[a][i] : i \in 1 .. n }
      /\ Distinct(r)
      /\ \A key : Sorted(tree[a], key) => Sorted(r, key)
  BY <1>2, <1>3, TreeWithoutFront
<1>5. \A x : In(x, r) <=> In(x, tree[a]) /\ x \notin woken
  BY <1>4
<1>6. \A t \in woken : t \in Threads /\ waitingAddr[t] = a
  <2> SUFFICES ASSUME NEW i \in 1 .. n
               PROVE  tree[a][i] \in Threads /\ waitingAddr[tree[a][i]] = a
    OBVIOUS
  <2>1. i \in 1 .. Len(tree[a])
    BY <1>2
  <2>2. tree[a][i] \in Threads /\ In(tree[a][i], tree[a])
    BY <1>3, <2>1 DEF In
  <2>3. QED BY <2>2
<1> HIDE DEF n, woken, r
<1>7. tree'[a] = r
  BY <1>1 DEF TypeOK
<1>8. \A x : x \in StillAsleep(a) <=> In(x, r)
  <2>1. \A x : x \in StillAsleep(a) <=> \E i \in 1 .. Len(tree'[a]) : tree'[a][i] = x
    BY DEF StillAsleep
  <2>2. QED BY <1>7, <2>1, Zenon DEF In
<1>9. /\ tree' \in [Addrs -> Seq(Threads)]
      /\ waitingAddr' \in [Threads -> Addrs \cup {NoAddr}]
      /\ wanted' \in [Threads -> Values]
      /\ waiting' \in SUBSET waiting
  BY <1>1, <1>4, Numbers DEF TypeOK
<1>10. TreesMatch'
  <2>1. \A t \in Threads : t \in waiting' <=> waitingAddr'[t] # NoAddr
    BY <1>1
  <2>2. \A b \in Addrs, t \in Threads : In(t, tree'[b]) <=> waitingAddr'[t] = b
    <3> SUFFICES ASSUME NEW b \in Addrs, NEW t \in Threads
                 PROVE  In(t, tree'[b]) <=> waitingAddr'[t] = b
      OBVIOUS
    <3>1. In(t, tree[b]) <=> waitingAddr[t] = b
      OBVIOUS
    <3>2. waitingAddr'[t] = IF t \in woken THEN NoAddr ELSE waitingAddr[t]
      BY <1>1
    <3>3. CASE b = a
      <4>1. tree'[b] = r
        BY <1>1, <3>3 DEF TypeOK
      <4>2. QED BY <1>5, <3>1, <3>2, <3>3, <4>1, AddrsAssumption
    <3>4. CASE b # a
      <4>1. tree'[b] = tree[b]
        BY <1>1, <3>4 DEF TypeOK
      <4>2. QED BY <1>6, <3>1, <3>2, <3>4, <4>1, AddrsAssumption
    <3>5. QED BY <3>3, <3>4
  <2>3. \A b \in Addrs : Distinct(tree'[b])
    BY <1>1, <1>4 DEF TypeOK
  <2>4. QED BY <2>1, <2>2, <2>3 DEF TreesMatch
<1>11. TreesSorted'
  BY <1>1, <1>3, <1>4 DEF TypeOK, TreesSorted
<1>12. \A t \in waiting' : waitingAddr'[t] = waitingAddr[t] /\ wanted'[t] = wanted[t]
  BY <1>1 DEF TypeOK
<1>14. \A t \in Threads : t \in StillAsleep(a) <=> waitingAddr'[t] = a
  BY <1>8, <1>10, <1>7 DEF TreesMatch
<1>15. StillAsleep(a) \in SUBSET waiting'
  <2>1. \A x \in StillAsleep(a) : x \in Threads
    BY <1>4, <1>8 DEF In
  <2>2. QED BY <1>10, <1>14, <2>1, AddrsAssumption DEF TreesMatch
<1>16. count <= 0 \/ Len(tree[a]) <= count => StillAsleep(a) = {}
  <2> SUFFICES ASSUME count <= 0 \/ Len(tree[a]) <= count PROVE StillAsleep(a) = {}
    OBVIOUS
  <2>1. Len(r) = 0
    BY <1>2, <1>4
  <2>2. QED BY <1>8, <2>1 DEF In
<1>17. QED
  BY <1>9, <1>10, <1>11, <1>12, <1>14, <1>15, <1>16 DEF TypeOK

-----------------------------------------------------------------------------
(* The invariant *)

\* The initial states satisfy the inductive invariant.
LEMMA ArbiterIInvInit == Init => ArbiterIInv
<1> SUFFICES ASSUME Init PROVE ArbiterIInv
  OBVIOUS
<1>1. Len(<<>>) = 0 /\ <<>> \in Seq(Threads)
  OBVIOUS
<1>2. 0 \in Values
  BY BoundsAssumption DEF Values
<1>3. TypeOK
  BY <1>1, <1>2 DEF Init, TypeOK
<1>4. TreesMatch
  BY <1>1, AddrsAssumption DEF Init, TreesMatch, In, Distinct
<1>5. TreesSorted
  BY <1>1 DEF Init, TreesSorted, Sorted
<1>6. \A t \in waiting \ passedOver : WaitIsRight(t)
  BY DEF Init
<1>7. QED BY <1>3, <1>4, <1>5, <1>6 DEF ArbiterIInv

\* A guest's store makes the waits at its word right: it will be signalled.
LEMMA GuestStoreKeeps ==
    ASSUME ArbiterIInv, NEW t \in Threads, NEW a \in Addrs, NEW v \in Values,
           GuestStore(t, a, v)
    PROVE  ArbiterIInv'
<1>0. /\ TypeOK /\ TreesMatch /\ TreesSorted
      /\ \A s \in waiting \ passedOver : WaitIsRight(s)
  BY DEF ArbiterIInv
<1>1. /\ stored[t] = NoAddr
      /\ value' = [value EXCEPT ![a] = v] /\ stored' = [stored EXCEPT ![t] = a]
      /\ UNCHANGED <<tree, waitingAddr, priority, waiting, wanted, terminationRequested,
                     passedOver, wrapped>>
  BY DEF GuestStore, Running, ghostVars
<1>2. TypeOK'
  BY <1>0, <1>1 DEF TypeOK
<1>3. TreesMatch' /\ TreesSorted'
  BY <1>0, <1>1 DEF TreesMatch, TreesSorted
<1>4. ASSUME NEW s \in waiting' \ passedOver' PROVE WaitIsRight(s)'
  <2>1. /\ waitingAddr'[s] = waitingAddr[s] /\ wanted'[s] = wanted[s] /\ wrapped' = wrapped
        /\ waitingAddr[s] \in Addrs /\ waitingAddr[s] # NoAddr /\ WaitIsRight(s)
    BY <1>0, <1>1, <1>4 DEF TypeOK, TreesMatch
  <2>2. CASE waitingAddr[s] = a
    <3>1. stored'[t] = a
      BY <1>0, <1>1 DEF TypeOK
    <3>2. QED BY <2>1, <2>2, <3>1 DEF WaitIsRight
  <2>3. CASE waitingAddr[s] # a
    <3>1. value'[waitingAddr[s]] = value[waitingAddr[s]]
      BY <1>0, <1>1, <2>1, <2>3 DEF TypeOK
    <3>2. \A u \in Threads : stored[u] = waitingAddr[s] => stored'[u] = waitingAddr[s]
      BY <1>0, <1>1, <2>1 DEF TypeOK
    <3>3. QED BY <2>1, <3>1, <3>2 DEF WaitIsRight
  <2>4. QED BY <2>2, <2>3
<1>5. QED BY <1>2, <1>3, <1>4 DEF ArbiterIInv

\* A signal: the threads it leaves asleep at its word are passed over.
LEMMA SignalKeeps ==
    ASSUME ArbiterIInv, NEW t \in Threads, NEW a \in Addrs, NEW count \in 0 .. MaxCount,
           Signal(t, a, count)
    PROVE  ArbiterIInv'
<1>0. /\ TypeOK /\ TreesMatch /\ TreesSorted /\ count \in Nat
      /\ \A s \in waiting \ passedOver : WaitIsRight(s)
  BY BoundsAssumption DEF ArbiterIInv
<1>1. /\ stored[t] \in {NoAddr, a} /\ WakeWaiters(a, count)
      /\ stored' = [stored EXCEPT ![t] = NoAddr]
      /\ passedOver' = (passedOver \cap waiting') \cup StillAsleep(a)
      /\ UNCHANGED <<value, wrapped, priority, terminationRequested>>
  BY DEF Signal, WakeWaiters
<1>2. /\ tree' \in [Addrs -> Seq(Threads)]
      /\ waitingAddr' \in [Threads -> Addrs \cup {NoAddr}]
      /\ wanted' \in [Threads -> Values]
      /\ waiting' \in SUBSET waiting
      /\ TreesMatch' /\ TreesSorted'
      /\ \A s \in waiting' : waitingAddr'[s] = waitingAddr[s] /\ wanted'[s] = wanted[s]
      /\ StillAsleep(a) \in SUBSET waiting'
      /\ \A s \in waiting' : waitingAddr'[s] = a => s \in StillAsleep(a)
  BY <1>0, <1>1, WakeWaitersKeeps
<1>3. TypeOK'
  BY <1>0, <1>1, <1>2 DEF TypeOK
<1>4. ASSUME NEW s \in waiting' \ passedOver' PROVE WaitIsRight(s)'
  <2>1. /\ waitingAddr'[s] = waitingAddr[s] /\ wanted'[s] = wanted[s]
        /\ waitingAddr[s] # a /\ waitingAddr[s] # NoAddr /\ s \in waiting \ passedOver
    BY <1>0, <1>1, <1>2, <1>4 DEF TreesMatch, TypeOK
  <2>2. \A u \in Threads : stored[u] = waitingAddr[s] => stored'[u] = waitingAddr[s]
    BY <1>0, <1>1, <2>1 DEF TypeOK
  <2>3. QED BY <1>0, <1>1, <2>1, <2>2 DEF WaitIsRight
<1>5. QED BY <1>2, <1>3, <1>4 DEF ArbiterIInv

\* The signals that change the word: the sleepers they leave at it are passed
\* over, or the word does not change.
LEMMA SignalAndUpdateKeeps ==
    ASSUME ArbiterIInv, NEW t \in Threads, NEW a \in Addrs, NEW v \in Values,
           NEW count \in 0 .. MaxCount,
           \/ SignalAndIncrementIfEqual(t, a, v, count)
           \/ SignalAndModifyByWaitingCountIfEqual(t, a, v, count)
    PROVE  ArbiterIInv'
<1>0. /\ TypeOK /\ TreesMatch /\ TreesSorted /\ count \in Nat /\ v \in Int
      /\ \A s \in waiting \ passedOver : WaitIsRight(s)
  BY BoundsAssumption, Numbers DEF ArbiterIInv
<1>1. PICK w \in Values :
         /\ value[a] = v /\ value' = [value EXCEPT ![a] = w] /\ WakeWaiters(a, count)
         /\ \/ passedOver' = (passedOver \cap waiting') \cup StillAsleep(a)
            \/ /\ passedOver' = passedOver \cap waiting'
               /\ w = v \/ count <= 0 \/ Len(tree[a]) <= count
         /\ UNCHANGED <<stored, wrapped, priority, terminationRequested>>
  <2>1. CASE SignalAndIncrementIfEqual(t, a, v, count)
    <3>1. Wrap(v + 1) \in Values
      BY <1>0, WrapInRange
    <3>2. QED BY <2>1, <3>1 DEF SignalAndIncrementIfEqual, UpdateIfEqual, WakeWaiters
  <2>2. CASE SignalAndModifyByWaitingCountIfEqual(t, a, v, count)
    <3> DEFINE w == ModifiedValue(a, v, count)
    <3>1. w = IF tree[a] = <<>> THEN Wrap(v + 1)
              ELSE IF count <= 0 THEN Wrap(v - 2)
              ELSE IF Len(tree[a]) <= count THEN Wrap(v - 1)
              ELSE v
      BY <1>0, ModifiedValueIs
    <3>2. Wrap(v + 1) \in Values /\ Wrap(v - 2) \in Values /\ Wrap(v - 1) \in Values
      BY <1>0, WrapInRange
    <3>3. w \in Values
      BY <3>1, <3>2
    <3>4. tree[a] = <<>> => Len(tree[a]) <= count
      BY <1>0
    <3>5. w = v \/ count <= 0 \/ Len(tree[a]) <= count
      BY <3>1, <3>4
    <3>6. /\ value[a] = v /\ value' = [value EXCEPT ![a] = w] /\ WakeWaiters(a, count)
          /\ passedOver' = passedOver \cap waiting'
          /\ UNCHANGED <<stored, wrapped, priority, terminationRequested>>
      BY <2>2 DEF SignalAndModifyByWaitingCountIfEqual, UpdateIfEqual, WakeWaiters
    <3> HIDE DEF w
    <3>7. QED BY <3>3, <3>5, <3>6
  <2>3. QED BY <2>1, <2>2
<1>2. /\ tree' \in [Addrs -> Seq(Threads)]
      /\ waitingAddr' \in [Threads -> Addrs \cup {NoAddr}]
      /\ wanted' \in [Threads -> Values]
      /\ waiting' \in SUBSET waiting
      /\ TreesMatch' /\ TreesSorted'
      /\ \A s \in waiting' : waitingAddr'[s] = waitingAddr[s] /\ wanted'[s] = wanted[s]
      /\ StillAsleep(a) \in SUBSET waiting'
      /\ \A s \in waiting' : waitingAddr'[s] = a => s \in StillAsleep(a)
      /\ count <= 0 \/ Len(tree[a]) <= count => StillAsleep(a) = {}
  BY <1>0, <1>1, WakeWaitersKeeps
<1>3. TypeOK'
  BY <1>0, <1>1, <1>2 DEF TypeOK
<1>4. ASSUME NEW s \in waiting' \ passedOver' PROVE WaitIsRight(s)'
  <2>1. /\ waitingAddr'[s] = waitingAddr[s] /\ wanted'[s] = wanted[s]
        /\ waitingAddr[s] \in Addrs /\ s \in waiting \ passedOver
    BY <1>0, <1>1, <1>2, <1>4 DEF TreesMatch, TypeOK
  <2>2. value'[waitingAddr[s]] = value[waitingAddr[s]]
    <3>1. CASE waitingAddr[s] # a
      BY <1>0, <1>1, <2>1, <3>1 DEF TypeOK
    <3>2. CASE waitingAddr[s] = a
      <4>1. w = v
        BY <1>1, <1>2, <1>4, <2>1, <3>2
      <4>2. QED BY <1>0, <1>1, <3>2, <4>1 DEF TypeOK
    <3>3. QED BY <3>1, <3>2
  <2>3. QED BY <1>0, <1>1, <2>1, <2>2 DEF WaitIsRight
<1>5. QED BY <1>2, <1>3, <1>4 DEF ArbiterIInv

\* A thread that goes to sleep gets its place in the queue of its word.
LEMMA SleepKeeps ==
    ASSUME TypeOK, TreesMatch, TreesSorted, NEW t \in Threads, NEW a \in Addrs,
           NEW v \in Values, t \notin waiting, Sleep(t, a, v)
    PROVE  /\ tree' \in [Addrs -> Seq(Threads)]
           /\ waitingAddr' \in [Threads -> Addrs \cup {NoAddr}]
           /\ wanted' \in [Threads -> Values]
           /\ TreesMatch' /\ TreesSorted'
<1> USE DEF TreesMatch
<1>1. PICK s \in TreeInsert(tree[a], t, priority) : tree' = [tree EXCEPT ![a] = s]
  BY DEF Sleep
<1>2. /\ waitingAddr' = [waitingAddr EXCEPT ![t] = a] /\ waiting' = waiting \cup {t}
      /\ wanted' = [wanted EXCEPT ![t] = v] /\ priority' = priority
  BY DEF Sleep
<1>3. /\ tree[a] \in Seq(Threads) /\ Distinct(tree[a]) /\ Sorted(tree[a], priority)
      /\ ~In(t, tree[a]) /\ \A x \in Threads : priority[x] \in Int
  BY Numbers, AddrsAssumption DEF TypeOK, TreesSorted
<1>4. /\ s \in Seq(Threads) /\ Len(s) = Len(tree[a]) + 1
      /\ \A x : In(x, s) <=> x = t \/ In(x, tree[a])
      /\ Distinct(s) /\ Sorted(s, priority)
  BY <1>1, <1>3, TreeInsertKeeps
<1>5. \A u \in Threads : u \in waiting' <=> waitingAddr'[u] # NoAddr
  BY <1>2, AddrsAssumption DEF TypeOK
<1>6. \A b \in Addrs, u \in Threads : In(u, tree'[b]) <=> waitingAddr'[u] = b
  BY <1>1, <1>2, <1>4, AddrsAssumption DEF TypeOK
<1>7. \A b \in Addrs : Distinct(tree'[b])
  BY <1>1, <1>4 DEF TypeOK
<1>8. TreesSorted'
  BY <1>1, <1>2, <1>4 DEF TypeOK, TreesSorted
<1>9. QED BY <1>1, <1>2, <1>4, <1>5, <1>6, <1>7, <1>8 DEF TypeOK

\* WaitIfEqual: a thread that sleeps has found the value it waits for to change.
LEMMA WaitIfEqualKeeps ==
    ASSUME ArbiterIInv, NEW t \in Threads, NEW a \in EqualAddrs, NEW v \in Values,
           WaitIfEqual(t, a, v)
    PROVE  ArbiterIInv'
<1> USE DEF ArbiterIInv
<1>1. /\ t \notin waiting /\ value[a] = v /\ Sleep(t, a, v) /\ a \in Addrs
      /\ UNCHANGED <<value, passedOver, wrapped, priority, terminationRequested, stored>>
      /\ waitingAddr' = [waitingAddr EXCEPT ![t] = a] /\ waiting' = waiting \cup {t}
      /\ wanted' = [wanted EXCEPT ![t] = v]
  BY DEF WaitIfEqual, CanSleep, Running, IsEqual, Sleep, ghostVars, Addrs
<1>2. /\ tree' \in [Addrs -> Seq(Threads)]
      /\ waitingAddr' \in [Threads -> Addrs \cup {NoAddr}]
      /\ wanted' \in [Threads -> Values]
      /\ TreesMatch' /\ TreesSorted'
  BY <1>1, SleepKeeps
<1>3. TypeOK'
  BY <1>1, <1>2 DEF TypeOK
<1>4. ASSUME NEW s \in waiting' \ passedOver' PROVE WaitIsRight(s)'
  <2>1. CASE s = t
    BY <1>1, <2>1 DEF TypeOK, WaitIsRight
  <2>2. CASE s # t
    <3>1. WaitIsRight(s) /\ waitingAddr'[s] = waitingAddr[s] /\ wanted'[s] = wanted[s]
      BY <1>1, <1>4, <2>2 DEF TypeOK
    <3>2. QED BY <1>1, <3>1 DEF WaitIsRight
  <2>3. QED BY <2>1, <2>2
<1>5. QED BY <1>2, <1>3, <1>4

\* WaitIfLessThan: the decremented counter stays below what the others wait for,
\* unless it leaves the range of its type.
LEMMA WaitIfLessThanKeeps ==
    ASSUME ArbiterIInv, NEW t \in Threads, NEW a \in LessAddrs, NEW v \in Values,
           NEW decrement \in BOOLEAN, WaitIfLessThan(t, a, v, decrement)
    PROVE  ArbiterIInv'
<1> USE DEF ArbiterIInv
<1>0. a \in Addrs /\ a \notin EqualAddrs
  BY AddrsAssumption DEF Addrs
<1>1. /\ t \notin waiting /\ value[a] < v
      /\ UNCHANGED <<passedOver, priority, terminationRequested, stored>>
  BY DEF WaitIfLessThan, DecrementIfLessThan, CanSleep, Running, Sleep, threadVars
<1>2. PICK w \in Values :
         /\ value' = [value EXCEPT ![a] = w]
         /\ wrapped' = IF w > value[a] THEN wrapped \cup {a} ELSE wrapped
  <2>1. CASE decrement /\ DecrementIfLessThan(a, v)
    <3>1. Wrap(value[a] - 1) \in Values
      BY <1>0, WrapInRange, Numbers
    <3>2. /\ value' = [value EXCEPT ![a] = Wrap(value[a] - 1)]
          /\ wrapped' = IF value'[a] > value[a] THEN wrapped \cup {a} ELSE wrapped
      BY <2>1 DEF DecrementIfLessThan
    <3>3. value'[a] = Wrap(value[a] - 1)
      BY <1>0, <3>2 DEF TypeOK
    <3>4. QED BY <3>1, <3>2, <3>3
  <2>2. CASE UNCHANGED <<value, wrapped>>
    <3>1. value[a] \in Values /\ value' = [value EXCEPT ![a] = value[a]]
          /\ ~(value[a] > value[a])
      BY <1>0, <2>2, Numbers DEF TypeOK
    <3>2. QED BY <2>2, <3>1
  <2>3. QED BY <2>1, <2>2 DEF WaitIfLessThan
<1>3. /\ value' \in [Addrs -> Values] /\ wrapped' \in SUBSET Addrs /\ wrapped \in SUBSET wrapped'
      /\ value'[a] <= value[a] \/ a \in wrapped'
      /\ \A b \in Addrs : b # a => value'[b] = value[b]
  <2>1. w \in Int /\ value[a] \in Int /\ value'[a] = w
    BY <1>0, <1>2, Numbers DEF TypeOK
  <2>2. QED BY <1>0, <1>2, <2>1 DEF TypeOK
<1>4. ASSUME NEW s \in waiting \ passedOver, waitingAddr'[s] = waitingAddr[s],
             wanted'[s] = wanted[s]
      PROVE  WaitIsRight(s)'
  <2>1. WaitIsRight(s) /\ waitingAddr[s] \in Addrs /\ s \in Threads
    BY <1>4 DEF TypeOK, TreesMatch
  <2>2. CASE waitingAddr[s] # a
    <3>1. value'[waitingAddr[s]] = value[waitingAddr[s]]
      BY <1>3, <2>1, <2>2
    <3>2. QED BY <1>1, <1>3, <1>4, <2>1, <3>1 DEF WaitIsRight
  <2>3. CASE waitingAddr[s] = a
    <3>1. /\ value[a] \in Int /\ value'[a] \in Int /\ wanted[s] \in Int
      BY <1>0, <1>3, <2>1, Numbers DEF TypeOK
    <3>2. value[a] < wanted[s] => value'[a] < wanted[s] \/ a \in wrapped'
      BY <1>3, <3>1
    <3>3. QED BY <1>0, <1>1, <1>3, <1>4, <2>1, <2>3, <3>2 DEF WaitIsRight
  <2>4. QED BY <2>2, <2>3
<1>5. CASE Sleep(t, a, v)
  <2>1. /\ waitingAddr' = [waitingAddr EXCEPT ![t] = a] /\ waiting' = waiting \cup {t}
        /\ wanted' = [wanted EXCEPT ![t] = v]
    BY <1>5 DEF Sleep
  <2>2. /\ tree' \in [Addrs -> Seq(Threads)]
        /\ waitingAddr' \in [Threads -> Addrs \cup {NoAddr}]
        /\ wanted' \in [Threads -> Values]
        /\ TreesMatch' /\ TreesSorted'
    BY <1>0, <1>1, <1>5, SleepKeeps
  <2>3. TypeOK'
    BY <1>1, <1>3, <2>1, <2>2 DEF TypeOK
  <2>4. ASSUME NEW s \in waiting' \ passedOver' PROVE WaitIsRight(s)'
    <3>1. CASE s = t
      <4>1. waitingAddr'[s] = a /\ wanted'[s] = v
        BY <2>1, <3>1 DEF TypeOK
      <4>2. value[a] \in Int /\ value'[a] \in Int /\ v \in Int
        BY <1>0, <1>3, Numbers
      <4>3. value'[a] < v \/ a \in wrapped'
        BY <1>1, <1>3, <4>2
      <4>4. QED BY <4>1, <4>3 DEF WaitIsRight
    <3>2. CASE s # t
      <4>1. s \in waiting \ passedOver /\ waitingAddr'[s] = waitingAddr[s]
            /\ wanted'[s] = wanted[s]
        BY <1>1, <2>1, <2>4, <3>2 DEF TypeOK
      <4>2. QED BY <1>4, <4>1
    <3>3. QED BY <3>1, <3>2
  <2>5. QED BY <2>2, <2>3, <2>4
<1>6. CASE UNCHANGED <<tree, waitingAddr, threadVars>>
  <2>1. TypeOK' /\ TreesMatch' /\ TreesSorted'
    BY <1>1, <1>3, <1>6 DEF TypeOK, TreesMatch, TreesSorted, threadVars
  <2>2. QED BY <1>1, <1>4, <1>6, <2>1 DEF threadVars
<1>7. QED BY <1>5, <1>6 DEF WaitIfLessThan

\* A cancelled wait leaves its queue for good.
LEMMA CancelWaitKeeps ==
    ASSUME ArbiterIInv, NEW t \in waiting, CancelWait(t),
           terminationRequested' \in SUBSET Threads
    PROVE  ArbiterIInv'
<1> USE DEF ArbiterIInv
<1> DEFINE a == waitingAddr[t]
<1>1. t \in Threads /\ a \in Addrs
  BY DEF TypeOK, TreesMatch
<1>2. PICK s \in TreeErase(tree[a], t) : tree' = [tree EXCEPT ![a] = s]
  BY DEF CancelWait, LeaveTree
<1>3. /\ waitingAddr' = [waitingAddr EXCEPT ![t] = NoAddr] /\ waiting' = waiting \ {t}
      /\ wanted' = [wanted EXCEPT ![t] = 0] /\ passedOver' = passedOver \ {t}
      /\ UNCHANGED <<value, priority, stored, wrapped>>
  BY DEF CancelWait, LeaveTree
<1>4. tree[a] \in Seq(Threads) /\ Distinct(tree[a]) /\ Sorted(tree[a], priority)
  BY <1>1 DEF TypeOK, TreesMatch, TreesSorted
<1>5. /\ s \in Seq(Threads) /\ Len(s) = Len(tree[a]) - 1
      /\ \A x : In(x, s) <=> x # t /\ In(x, tree[a])
      /\ Distinct(s) /\ Sorted(s, priority)
  BY <1>1, <1>2, <1>4, TreeEraseKeeps
<1> HIDE DEF a
<1>6. TypeOK'
  BY <1>1, <1>2, <1>3, <1>5, Numbers DEF TypeOK
<1>7. TreesMatch'
  <2>1. \A u \in Threads : u \in waiting' <=> waitingAddr'[u] # NoAddr
    BY <1>3 DEF TypeOK, TreesMatch
  <2>2. \A b \in Addrs, u \in Threads : In(u, tree'[b]) <=> waitingAddr'[u] = b
    BY <1>1, <1>2, <1>3, <1>5, AddrsAssumption DEF TypeOK, TreesMatch, a
  <2>3. \A b \in Addrs : Distinct(tree'[b])
    BY <1>1, <1>2, <1>5 DEF TypeOK, TreesMatch
  <2>4. QED BY <2>1, <2>2, <2>3 DEF TreesMatch
<1>8. TreesSorted'
  BY <1>1, <1>2, <1>3, <1>5 DEF TypeOK, TreesSorted
<1>9. ASSUME NEW x \in waiting' \ passedOver' PROVE WaitIsRight(x)'
  <2>1. WaitIsRight(x) /\ waitingAddr'[x] = waitingAddr[x] /\ wanted'[x] = wanted[x]
    BY <1>3, <1>9 DEF TypeOK
  <2>2. QED BY <1>3, <2>1 DEF WaitIsRight
<1>10. QED BY <1>6, <1>7, <1>8, <1>9

\* A change of priority moves a sleeper in its queue.
LEMMA ChangePriorityKeeps ==
    ASSUME ArbiterIInv, NEW t \in Threads, NEW p \in Priorities, ChangePriority(t, p)
    PROVE  ArbiterIInv'
<1> USE DEF ArbiterIInv
<1>1. /\ priority' = [priority EXCEPT ![t] = p]
      /\ UNCHANGED <<value, waitingAddr, waiting, wanted, terminationRequested, stored,
                     passedOver, wrapped>>
  BY DEF ChangePriority, ghostVars
<1>2. priority' \in [Threads -> Priorities] /\ (\A x \in Threads : priority'[x] \in Int)
      /\ \A x \in Threads : x # t => priority'[x] = priority[x]
  BY <1>1, Numbers DEF TypeOK
<1>3. \A x \in waiting' \ passedOver' : WaitIsRight(x)'
  BY <1>1 DEF WaitIsRight
<1>4. CASE waitingAddr[t] = NoAddr
  <2>1. tree' = tree
    BY <1>4 DEF ChangePriority
  <2>2. TypeOK' /\ TreesMatch'
    BY <1>1, <1>2, <2>1 DEF TypeOK, TreesMatch
  <2>3. ASSUME NEW b \in Addrs PROVE Sorted(tree[b], priority')
    <3>1. \A x : In(x, tree[b]) => x \in Threads
      BY <2>3 DEF In, TypeOK
    <3>2. ~In(t, tree[b])
      BY <1>4, AddrsAssumption DEF TreesMatch
    <3>3. \A x : In(x, tree[b]) => priority[x] = priority'[x]
      BY <1>2, <3>1, <3>2
    <3>4. tree[b] \in Seq(Threads) /\ Sorted(tree[b], priority)
      BY DEF TypeOK, TreesSorted
    <3>5. QED BY <3>3, <3>4, SortedCongruence
  <2>4. QED BY <1>3, <2>1, <2>2, <2>3 DEF TreesSorted
<1>5. CASE waitingAddr[t] # NoAddr
  <2> DEFINE a == waitingAddr[t]
  <2>1. a \in Addrs
    BY <1>5 DEF TypeOK
  <2>2. PICK s1 \in TreeErase(tree[a], t) :
           \E s2 \in TreeInsert(s1, t, priority') : tree' = [tree EXCEPT ![a] = s2]
    BY <1>5 DEF ChangePriority, MoveInTree
  <2>3. PICK s2 \in TreeInsert(s1, t, priority') : tree' = [tree EXCEPT ![a] = s2]
    BY <2>2
  <2>4. /\ tree[a] \in Seq(Threads) /\ Distinct(tree[a]) /\ Sorted(tree[a], priority)
        /\ In(t, tree[a])
    BY <2>1 DEF TypeOK, TreesMatch, TreesSorted
  <2>5. /\ s1 \in Seq(Threads) /\ Len(s1) = Len(tree[a]) - 1
        /\ \A x : In(x, s1) <=> x # t /\ In(x, tree[a])
        /\ Distinct(s1) /\ Sorted(s1, priority)
    BY <2>2, <2>4, TreeEraseKeeps
  <2>6. Sorted(s1, priority')
    <3>1. \A x : In(x, s1) => x \in Threads
      BY <2>5 DEF In
    <3>2. \A x : In(x, s1) => priority[x] = priority'[x]
      BY <1>2, <2>5, <3>1
    <3>3. QED BY <2>5, <3>2, SortedCongruence
  <2>7. /\ s2 \in Seq(Threads) /\ Len(s2) = Len(s1) + 1
        /\ \A x : In(x, s2) <=> x = t \/ In(x, s1)
        /\ Distinct(s2) /\ Sorted(s2, priority')
    BY <1>2, <2>3, <2>5, <2>6, TreeInsertKeeps
  <2>8. \A x : In(x, s2) <=> In(x, tree[a])
    BY <2>4, <2>5, <2>7
  <2> HIDE DEF a
  <2>9. TypeOK'
    BY <1>1, <1>2, <2>1, <2>3, <2>7 DEF TypeOK
  <2>10. TreesMatch'
    BY <1>1, <2>1, <2>3, <2>7, <2>8 DEF TypeOK, TreesMatch
  <2>11. ASSUME NEW b \in Addrs PROVE Sorted(tree'[b], priority')
    <3>1. CASE b = a
      BY <2>1, <2>3, <2>7, <3>1 DEF TypeOK
    <3>2. CASE b # a
      <4>1. tree'[b] = tree[b] /\ tree[b] \in Seq(Threads) /\ Sorted(tree[b], priority)
        BY <2>1, <2>3, <3>2 DEF TypeOK, TreesSorted
      <4>2. \A x : In(x, tree[b]) => x \in Threads
        BY <4>1 DEF In
      <4>3. ~In(t, tree[b])
        BY <3>2 DEF TreesMatch, a
      <4>4. \A x : In(x, tree[b]) => priority[x] = priority'[x]
        BY <1>2, <4>2, <4>3
      <4>5. QED BY <4>1, <4>4, SortedCongruence
    <3>3. QED BY <3>1, <3>2
  <2>12. QED BY <1>3, <2>9, <2>10, <2>11 DEF TreesSorted
<1>6. QED BY <1>4, <1>5

\* Every step keeps the invariant.
LEMMA ArbiterIInvNext == ArbiterIInv /\ [Next]_vars => ArbiterIInv'
<1> SUFFICES ASSUME ArbiterIInv, [Next]_vars PROVE ArbiterIInv'
  OBVIOUS
<1>1. ASSUME NEW t \in Threads, NEW a \in Addrs, NEW v \in Values, GuestStore(t, a, v)
      PROVE  ArbiterIInv'
  BY <1>1, GuestStoreKeeps
<1>2. ASSUME NEW t \in Threads, NEW a \in Addrs, NEW count \in 0 .. MaxCount,
             Signal(t, a, count)
      PROVE  ArbiterIInv'
  BY <1>2, SignalKeeps
<1>3. ASSUME NEW t \in Threads, NEW a \in Addrs, NEW v \in Values, NEW count \in 0 .. MaxCount,
             \/ SignalAndIncrementIfEqual(t, a, v, count)
             \/ SignalAndModifyByWaitingCountIfEqual(t, a, v, count)
      PROVE  ArbiterIInv'
  BY <1>3, SignalAndUpdateKeeps
<1>4. ASSUME NEW t \in Threads, NEW a \in EqualAddrs, NEW v \in Values, WaitIfEqual(t, a, v)
      PROVE  ArbiterIInv'
  BY <1>4, WaitIfEqualKeeps
<1>5. ASSUME NEW t \in Threads, NEW a \in LessAddrs, NEW v \in Values,
             NEW decrement \in BOOLEAN, WaitIfLessThan(t, a, v, decrement)
      PROVE  ArbiterIInv'
  BY <1>5, WaitIfLessThanKeeps
<1>6. ASSUME NEW t \in Threads, OnTimer(t) PROVE ArbiterIInv'
  <2>1. terminationRequested' \in SUBSET Threads
    BY <1>6 DEF OnTimer, ArbiterIInv, TypeOK
  <2>2. QED BY <1>6, <2>1, CancelWaitKeeps DEF OnTimer
<1>7. ASSUME NEW t \in Threads, RequestTerminate(t) PROVE ArbiterIInv'
  <2>1. terminationRequested' \in SUBSET Threads
    BY <1>7 DEF RequestTerminate, ArbiterIInv, TypeOK
  <2>2. CASE t \in waiting /\ CancelWait(t)
    BY <2>1, <2>2, CancelWaitKeeps
  <2>3. CASE UNCHANGED <<value, tree, waitingAddr, priority, waiting, wanted, stored, ghostVars>>
    BY <2>1, <2>3 DEF ArbiterIInv, TypeOK, TreesMatch, TreesSorted, WaitIsRight, ghostVars
  <2>4. QED BY <1>7, <2>2, <2>3 DEF RequestTerminate
<1>8. ASSUME NEW t \in Threads, NEW p \in Priorities, ChangePriority(t, p)
      PROVE  ArbiterIInv'
  BY <1>8, ChangePriorityKeeps
<1>9. CASE UNCHANGED vars
  BY <1>9 DEF ArbiterIInv, TypeOK, TreesMatch, TreesSorted, WaitIsRight, vars, threadVars,
              ghostVars
<1>10. QED BY <1>1, <1>2, <1>3, <1>4, <1>5, <1>6, <1>7, <1>8, <1>9 DEF Next

-----------------------------------------------------------------------------
(* The theorems *)

\* The inductive invariant of the address arbiter.
THEOREM ArbiterInvariant == Spec => []ArbiterIInv
<1>1. Init => ArbiterIInv
  BY ArbiterIInvInit
<1>2. ArbiterIInv /\ [Next]_vars => ArbiterIInv'
  BY ArbiterIInvNext
<1>3. QED BY <1>1, <1>2, PTL DEF Spec

\* The queues hold exactly the sleepers, each once and at its word.
THEOREM ArbiterInvHolds == Spec => []ArbiterInv
<1>1. ArbiterIInv => ArbiterInv
  BY DEF ArbiterIInv, ArbiterInv, TreesMatch
<1>2. QED BY <1>1, ArbiterInvariant, PTL

\* No thread sleeps for a change of its word that has happened and been signalled.
THEOREM NoWakeupIsMissed == Spec => []NoMissedWakeup
<1>1. ArbiterIInv => NoMissedWakeup
  BY DEF ArbiterIInv, NoMissedWakeup, WaitIsRight
<1>2. QED BY <1>1, ArbiterInvariant, PTL

\* SignalAndModifyByWaitingCountIfEqual tells the guest whether threads are left,
\* although its loop counts the waiters apart from the loop that wakes them.
THEOREM ModifyTellsTheTruth == Spec => []ModifyTellsWaiters
<1>1. ArbiterIInv => ModifyTellsWaiters
  <2> SUFFICES ASSUME ArbiterIInv, NEW a \in Addrs, NEW v \in Values,
                      NEW count \in 1 .. MaxCount
               PROVE  ModifiedValue(a, v, count) =
                        IF tree[a] = <<>> THEN Wrap(v + 1)
                        ELSE IF NumToWake(a, count) = Len(tree[a]) THEN Wrap(v - 1) ELSE v
    BY DEF ModifyTellsWaiters
  <2>1. TypeOK /\ count \in Nat /\ count > 0
    BY BoundsAssumption DEF ArbiterIInv
  <2>2. ModifiedValue(a, v, count) =
          IF tree[a] = <<>> THEN Wrap(v + 1)
          ELSE IF Len(tree[a]) <= count THEN Wrap(v - 1)
          ELSE v
    BY <2>1, ModifiedValueIs
  <2>3. NumToWake(a, count) = Len(tree[a]) <=> Len(tree[a]) <= count
    BY <2>1, NumToWakeIs
  <2>4. QED BY <2>2, <2>3
<1>2. QED BY <1>1, ArbiterInvariant, PTL

\* A signal wakes the most urgent sleepers of its word, whatever changes of
\* priority there have been since they went to sleep.
THEOREM MostUrgentFirst == Spec => []WakesMostUrgent
<1>1. ArbiterIInv => WakesMostUrgent
  <2> SUFFICES ASSUME ArbiterIInv, NEW a \in Addrs, NEW count \in 1 .. MaxCount,
                      NEW i \in 1 .. NumToWake(a, count),
                      NEW j \in NumToWake(a, count) + 1 .. Len(tree[a])
               PROVE  priority[tree[a][i]] <= priority[tree[a][j]]
    BY DEF WakesMostUrgent
  <2>1. TypeOK /\ count \in Nat
    BY BoundsAssumption DEF ArbiterIInv
  <2>2. NumToWake(a, count) \in 0 .. Len(tree[a]) /\ Len(tree[a]) \in Nat
    BY <2>1, NumToWakeIs
  <2>3. i \in 1 .. Len(tree[a]) /\ j \in 1 .. Len(tree[a]) /\ i < j
    BY <2>2
  <2>4. Sorted(tree[a], priority)
    BY DEF ArbiterIInv, TreesSorted
  <2>5. QED BY <2>3, <2>4 DEF Sorted
<1>2. QED BY <1>1, ArbiterInvariant, PTL

=============================================================================
