--------------------------- MODULE Scheduling_proofs ---------------------------
(***************************************************************************)
(* Proofs about KScheduler and ContextSwitch, for every number of threads, *)
(* cores and priorities.                                                   *)
(*                                                                         *)
(* The first part is about the operations of KScheduler, functions of the  *)
(* record behind the scheduler lock: what each of them leaves true of the  *)
(* queues, and what UpdateHighestPriorityThreads decides.  The second      *)
(* draws the theorems about KScheduler from it, the third those about the  *)
(* cores that carry the decisions out.                                     *)
(***************************************************************************)
EXTENDS ContextSwitch, OrderLemmas

-----------------------------------------------------------------------------
(* Queues *)

CoreIds == Cores \cup {NoCore}
Decisions == Threads \cup {Null}
QueueSets == [Cores -> [Priorities -> Seq(Threads)]]

LEMMA ConstantsMakeSense ==
    /\ NumCores \in Nat /\ NumCores >= 1
    /\ LowestPriority \in Nat
    /\ HighestCoreMigrationAllowedPriority \in Priorities
    /\ PreemptPriority \in [Cores -> Priorities]
    /\ \A c \in Cores : c \in Nat /\ c < NumCores
    /\ \A p \in Priorities : p \in Nat
    /\ NoCore \notin Cores
    /\ Null \notin Threads
BY CoresExist, PrioritiesExist, NullIsNoThread DEF Cores, Priorities, NoCore

\* A thread that is not in a queue is put at its back.
LEMMA QueuesAppend ==
    ASSUME NEW S, NEW q, Queues(q, S), NEW t, t \notin S
    PROVE  Queues(Append(q, t), S \cup {t})
<1> DEFINE r == Append(q, t)
<1>1. q \in Seq(S) /\ Len(q) \in Nat
    BY DEF Queues
<1>2. r \in Seq(S \cup {t})
  <2>1. q \in Seq(S \cup {t})
    BY <1>1
  <2>2. QED BY <2>1
<1>3. /\ Len(r) = Len(q) + 1 /\ r[Len(r)] = t
      /\ \A i \in 1 .. Len(q) : r[i] = q[i] /\ q[i] \in S
    BY <1>1
<1> HIDE DEF r
<1>4. Distinct(r)
  <2> SUFFICES ASSUME NEW i \in 1 .. Len(r), NEW j \in 1 .. Len(r), r[i] = r[j]
               PROVE  i = j
    BY DEF Distinct
  <2>1. CASE i = Len(r) /\ j = Len(r)
    BY <2>1
  <2>2. CASE i \in 1 .. Len(q) /\ j \in 1 .. Len(q)
    BY <1>3, <2>2 DEF Queues, Distinct
  <2>3. CASE i = Len(r) /\ j \in 1 .. Len(q)
    BY <1>3, <2>3
  <2>4. CASE j = Len(r) /\ i \in 1 .. Len(q)
    BY <1>3, <2>4
  <2>5. QED BY <1>1, <1>3, <2>1, <2>2, <2>3, <2>4
<1>5. \A u \in S \cup {t} : In(u, r)
  <2> SUFFICES ASSUME NEW u \in S \cup {t} PROVE \E i \in 1 .. Len(r) : r[i] = u
    BY DEF In
  <2>1. CASE u = t
    BY <1>1, <1>3, <2>1
  <2>2. CASE u \in S
    <3>1. PICK i \in 1 .. Len(q) : q[i] = u
      BY <2>2 DEF Queues, In
    <3>2. QED BY <1>1, <1>3, <3>1
  <2>3. QED BY <2>1, <2>2
<1>6. QED
    BY <1>2, <1>4, <1>5 DEF Queues, r

\* Or at its front.
LEMMA QueuesPrepend ==
    ASSUME NEW S, NEW q, Queues(q, S), NEW t, t \notin S
    PROVE  Queues(<<t>> \o q, S \cup {t})
<1> DEFINE r == <<t>> \o q
<1>1. q \in Seq(S) /\ Len(q) \in Nat
    BY DEF Queues
<1>2. r \in Seq(S \cup {t})
  <2>1. q \in Seq(S \cup {t}) /\ <<t>> \in Seq(S \cup {t})
    BY <1>1
  <2>2. QED BY <2>1
<1>3. /\ Len(r) = Len(q) + 1 /\ r[1] = t
      /\ \A i \in 2 .. Len(r) : r[i] = q[i - 1] /\ q[i - 1] \in S /\ i - 1 \in 1 .. Len(q)
    BY <1>1
<1> HIDE DEF r
<1>4. Distinct(r)
  <2> SUFFICES ASSUME NEW i \in 1 .. Len(r), NEW j \in 1 .. Len(r), r[i] = r[j]
               PROVE  i = j
    BY DEF Distinct
  <2>1. CASE i = 1 /\ j = 1
    BY <2>1
  <2>2. CASE i \in 2 .. Len(r) /\ j \in 2 .. Len(r)
    <3>1. i - 1 = j - 1
      BY <1>3, <2>2 DEF Queues, Distinct
    <3>2. QED BY <2>2, <3>1
  <2>3. CASE i = 1 /\ j \in 2 .. Len(r)
    BY <1>3, <2>3
  <2>4. CASE j = 1 /\ i \in 2 .. Len(r)
    BY <1>3, <2>4
  <2>5. QED BY <1>1, <1>3, <2>1, <2>2, <2>3, <2>4
<1>5. \A u \in S \cup {t} : In(u, r)
  <2> SUFFICES ASSUME NEW u \in S \cup {t} PROVE \E i \in 1 .. Len(r) : r[i] = u
    BY DEF In
  <2>1. CASE u = t
    BY <1>1, <1>3, <2>1
  <2>2. CASE u \in S
    <3>1. PICK i \in 1 .. Len(q) : q[i] = u
      BY <2>2 DEF Queues, In
    <3>2. i + 1 \in 2 .. Len(r) /\ (i + 1) - 1 = i
      BY <1>1, <1>3
    <3>3. r[i + 1] = u
      BY <1>3, <3>1, <3>2
    <3>4. QED BY <3>2, <3>3
  <2>3. QED BY <2>1, <2>2
<1>6. QED
    BY <1>2, <1>4, <1>5 DEF Queues, r

\* A thread is taken out of a queue, if it is there.
LEMMA QueuesRemove ==
    ASSUME NEW S \in SUBSET Threads, NEW q, Queues(q, S), NEW t
    PROVE  Queues(Keep(q, Threads \ {t}), S \ {t})
<1> DEFINE r == Keep(q, Threads \ {t})
<1>1. q \in Seq(S)
    BY DEF Queues
<1>2. /\ r \in Seq(S)
      /\ \A x : In(x, r) <=> In(x, q) /\ x \in Threads \ {t}
      /\ Distinct(r)
    BY <1>1, KeepElements DEF Queues
<1> HIDE DEF r
<1>3. \A i \in 1 .. Len(r) : r[i] \in S \ {t}
  <2> TAKE i \in 1 .. Len(r)
  <2>1. In(r[i], r) /\ r[i] \in S
    BY <1>2 DEF In
  <2>2. QED BY <1>2, <2>1
<1>4. r \in Seq(S \ {t})
    BY <1>2, <1>3
<1>5. \A u \in S \ {t} : In(u, r)
    BY <1>2 DEF Queues
<1>6. QED
    BY <1>2, <1>4, <1>5 DEF Queues, r

\* Which threads a queue has.
LEMMA QueuesHave ==
    ASSUME NEW S, NEW q, Queues(q, S)
    PROVE  /\ q \in Seq(S)
           /\ \A t : In(t, q) <=> t \in S
           /\ q = <<>> <=> S = {}
           /\ q # <<>> => q[1] \in S /\ Head(q) = q[1] /\ Len(q) >= 1
<1>1. q \in Seq(S) /\ Len(q) \in Nat
    BY DEF Queues
<1>2. \A t : In(t, q) <=> t \in S
    BY <1>1 DEF Queues, In
<1>3. q # <<>> => q[1] \in S /\ Head(q) = q[1] /\ Len(q) >= 1
    BY <1>1
<1>4. q = <<>> => S = {}
    BY <1>2 DEF In
<1>5. QED
    BY <1>1, <1>2, <1>3, <1>4

\* The first thread of a core's queues has priority p.
FirstAt(queue, p) == queue[p] # <<>> /\ \A q \in Priorities : q < p => queue[q] = <<>>

LEMMA FrontOfQueues ==
    ASSUME NEW queue \in [Priorities -> Seq(Threads)]
    PROVE  \/ /\ FrontOf(queue) = Null
              /\ \A p \in Priorities : queue[p] = <<>>
           \/ /\ FrontOf(queue) \in Threads
              /\ \E p \in Priorities : FirstAt(queue, p) /\ FrontOf(queue) = queue[p][1]
<1> DEFINE ps == {p \in Priorities : queue[p] # <<>>}
<1>1. CASE ps = {}
    BY <1>1 DEF FrontOf
<1>2. CASE ps # {}
  <2>1. ps \in SUBSET Nat
    BY ConstantsMakeSense
  <2>2. \E p \in ps : \A q \in ps : p <= q
    BY <1>2, <2>1, LeastExists, Zenon
  <2>3. PICK p : p = CHOOSE x \in ps : \A q \in ps : x <= q
    OBVIOUS
  <2>4. p \in ps /\ \A q \in ps : p <= q
    BY <2>2, <2>3
  <2>5. FrontOf(queue) = Head(queue[p])
    BY <1>2, <2>3 DEF FrontOf
  <2>6. queue[p] \in Seq(Threads) /\ queue[p] # <<>> /\ p \in Priorities
    BY <2>4
  <2>7. Head(queue[p]) = queue[p][1] /\ queue[p][1] \in Threads
    BY <2>6
  <2>8. \A q \in Priorities : q < p => queue[q] = <<>>
    BY <2>4, ConstantsMakeSense
  <2>9. QED
    BY <2>5, <2>6, <2>7, <2>8 DEF FirstAt
<1>3. QED
    BY <1>1, <1>2

-----------------------------------------------------------------------------
(* The record behind the lock *)

Masks == (SUBSET Cores) \ {{}}

\* What a record must be for the operations to make sense.
Contexts ==
    [state : [Threads -> States], prio : [Threads -> Priorities],
     core : [Threads -> CoreIds], ideal : [Threads -> CoreIds],
     mask : [Threads -> Masks], virtual : [Threads -> Masks],
     scheduled : QueueSets, suggested : QueueSets,
     highest : [Cores -> Decisions], pinned : [Cores -> Decisions],
     kernelWaiters : SUBSET Threads, fresh : SUBSET Threads, update : BOOLEAN,
     stores : Seq(Cores \X Decisions)]

\* The queues hold what they should (SchedulerInv).
Queued(s) ==
    \A c \in Cores, p \in Priorities :
        /\ Queues(s.scheduled[c][p], ScheduledAt(s, c, p))
        /\ Queues(s.suggested[c][p], SuggestedAt(s, c, p))

\* A thread is active on a core of its mask, or on none.
Placed(s) == \A t \in Threads : s.core[t] \in s.mask[t] \cup {NoCore}

\* r differs from s in nothing but the queues and the cores of the threads.
SameButPlaces(s, r) ==
    /\ r.state = s.state /\ r.prio = s.prio /\ r.ideal = s.ideal
    /\ r.mask = s.mask /\ r.virtual = s.virtual
    /\ r.highest = s.highest /\ r.pinned = s.pinned /\ r.kernelWaiters = s.kernelWaiters
    /\ r.fresh = s.fresh /\ r.update = s.update /\ r.stores = s.stores

\* r differs from s in nothing but the queues.
SameButQueues(s, r) == SameButPlaces(s, r) /\ r.core = s.core

-----------------------------------------------------------------------------
(* The first thread of a core *)

\* t is runnable and active on core c.
Active(s, t, c) == s.state[t] = "Runnable" /\ s.core[t] = c

\* t is suggested to core c.
Suggested(s, t, c) == s.state[t] = "Runnable" /\ c \in s.mask[t] /\ s.core[t] # c

LEMMA FrontOfIs ==
    ASSUME NEW queue \in [Priorities -> Seq(Threads)], NEW p \in Priorities,
           FirstAt(queue, p)
    PROVE  FrontOf(queue) = queue[p][1]
<1>1. PICK q \in Priorities : FirstAt(queue, q) /\ FrontOf(queue) = queue[q][1]
    BY FrontOfQueues DEF FirstAt
<1>2. q \in Nat /\ p \in Nat
    BY ConstantsMakeSense
<1>3. q = p
    BY <1>1, <1>2 DEF FirstAt
<1>4. QED BY <1>1, <1>3

\* Who is behind the first thread does not matter.
LEMMA FrontOfKept ==
    ASSUME NEW queue \in [Priorities -> Seq(Threads)], NEW t,
           NEW kept \in [Priorities -> Seq(Threads)],
           \A p \in Priorities :
              kept[p] \in {queue[p], Keep(queue[p], Threads \ {t})},
           FrontOf(queue) \in Threads, FrontOf(queue) # t
    PROVE  FrontOf(kept) = FrontOf(queue)
<1>1. PICK p \in Priorities :
        /\ queue[p] # <<>> /\ FrontOf(queue) = queue[p][1]
        /\ \A r \in Priorities : r < p => queue[r] = <<>>
    BY FrontOfQueues, ConstantsMakeSense DEF FirstAt
<1>2. kept[p] # <<>> /\ kept[p][1] = queue[p][1]
  <2>1. queue[p] \in Seq(Threads) /\ 1 \in 1 .. Len(queue[p])
    BY <1>1
  <2>2. queue[p][1] \in Threads \ {t}
    BY <1>1
  <2>3. \A j \in 1 .. (1 - 1) : queue[p][j] \notin Threads \ {t}
    OBVIOUS
  <2>4. Keep(queue[p], Threads \ {t}) # <<>> /\ Keep(queue[p], Threads \ {t})[1] = queue[p][1]
    BY <2>1, <2>2, <2>3, KeepElements
  <2>5. QED BY <1>1, <2>4
<1>3. \A r \in Priorities : r < p => kept[r] = <<>>
  <2> SUFFICES ASSUME NEW r \in Priorities, r < p PROVE kept[r] = <<>>
    OBVIOUS
  <2>1. queue[r] = <<>> /\ queue[r] \in Seq(Threads)
    BY <1>1
  <2>2. \A i \in 1 .. Len(queue[r]) : queue[r][i] \notin Threads \ {t}
    BY <2>1
  <2>3. Keep(queue[r], Threads \ {t}) = <<>>
    BY <2>1, <2>2, KeepElements
  <2>4. QED BY <2>1, <2>3
<1>4. QED
    BY <1>1, <1>2, <1>3, FrontOfIs DEF FirstAt

\* What a core's queues say about the threads.
LEMMA WhoIsQueued ==
    ASSUME NEW s \in Contexts, Queued(s), NEW c \in Cores
    PROVE  /\ s.scheduled[c] \in [Priorities -> Seq(Threads)]
           /\ s.suggested[c] \in [Priorities -> Seq(Threads)]
           /\ \A t : \A p \in Priorities :
                 /\ In(t, s.scheduled[c][p]) <=> t \in Threads /\ Active(s, t, c) /\ s.prio[t] = p
                 /\ In(t, s.suggested[c][p]) <=> t \in Threads /\ Suggested(s, t, c) /\ s.prio[t] = p
           /\ \A p \in Priorities : Distinct(s.scheduled[c][p])
           /\ s.prio \in [Threads -> Priorities]
<1>1. s.scheduled \in QueueSets /\ s.suggested \in QueueSets /\ s.prio \in [Threads -> Priorities]
    BY DEF Contexts
<1>2. \A p \in Priorities : /\ Queues(s.scheduled[c][p], ScheduledAt(s, c, p))
                            /\ Queues(s.suggested[c][p], SuggestedAt(s, c, p))
    BY DEF Queued
<1>3. \A p \in Priorities : Distinct(s.scheduled[c][p])
    BY <1>2 DEF Queues
<1>4. \A t : \A p \in Priorities :
         /\ In(t, s.scheduled[c][p]) <=> t \in ScheduledAt(s, c, p)
         /\ In(t, s.suggested[c][p]) <=> t \in SuggestedAt(s, c, p)
    BY <1>2, QueuesHave
<1>5. QED
    BY <1>1, <1>3, <1>4 DEF QueueSets, ScheduledAt, SuggestedAt, Active, Suggested, SuggestedCores

\* The first thread of a core is the most urgent of those active there.
LEMMA ScheduledFrontIs ==
    ASSUME NEW s \in Contexts, Queued(s), NEW c \in Cores
    PROVE  \/ /\ ScheduledFront(s, c) = Null
              /\ \A t \in Threads : ~Active(s, t, c)
           \/ /\ ScheduledFront(s, c) \in Threads
              /\ Active(s, ScheduledFront(s, c), c)
              /\ \A t \in Threads : Active(s, t, c) => s.prio[ScheduledFront(s, c)] <= s.prio[t]
<1> DEFINE queue == s.scheduled[c]
           x == ScheduledFront(s, c)
<1>1. /\ queue \in [Priorities -> Seq(Threads)]
      /\ \A t : \A p \in Priorities :
            In(t, queue[p]) <=> t \in Threads /\ Active(s, t, c) /\ s.prio[t] = p
      /\ s.prio \in [Threads -> Priorities]
    BY WhoIsQueued
<1>2. x = FrontOf(queue)
    BY ConstantsMakeSense DEF ScheduledFront
<1> HIDE DEF x, queue
<1>3. \A t \in Threads : Active(s, t, c) => queue[s.prio[t]] # <<>>
    BY <1>1 DEF In
<1>4. CASE x = Null /\ \A p \in Priorities : queue[p] = <<>>
    BY <1>1, <1>3, <1>4 DEF x
<1>5. CASE /\ x \in Threads
           /\ \E p \in Priorities :
                 /\ queue[p] # <<>> /\ x = queue[p][1]
                 /\ \A q \in Priorities : q < p => queue[q] = <<>>
  <2>1. PICK p \in Priorities :
                 /\ queue[p] # <<>> /\ x = queue[p][1]
                 /\ \A q \in Priorities : q < p => queue[q] = <<>>
    BY <1>5
  <2>2. 1 \in 1 .. Len(queue[p])
    BY <1>1, <2>1
  <2>3. In(x, queue[p])
    BY <2>1, <2>2 DEF In
  <2>4. Active(s, x, c) /\ s.prio[x] = p
    BY <1>1, <2>3
  <2>5. \A t \in Threads : Active(s, t, c) => p <= s.prio[t]
    BY <1>1, <1>3, <2>1, ConstantsMakeSense
  <2>6. QED BY <1>5, <2>4, <2>5 DEF x
<1>6. QED
    BY <1>1, <1>2, <1>4, <1>5, FrontOfQueues DEF FirstAt

\* A thread that is suggested to a core is found if it is in the set looked for.
LEMMA FirstSuggestedIs ==
    ASSUME NEW s \in Contexts, Queued(s), NEW c \in Cores, NEW K
    PROVE  \/ /\ FirstSuggested(s, c, K) = Null
              /\ \A t \in Threads : ~(Suggested(s, t, c) /\ t \in K)
           \/ /\ FirstSuggested(s, c, K) \in Threads
              /\ FirstSuggested(s, c, K) \in K
              /\ Suggested(s, FirstSuggested(s, c, K), c)
<1> DEFINE queue == [p \in Priorities |-> Keep(s.suggested[c][p], K)]
           x == FirstSuggested(s, c, K)
<1>1. /\ s.suggested[c] \in [Priorities -> Seq(Threads)]
      /\ \A t : \A p \in Priorities :
            In(t, s.suggested[c][p]) <=> t \in Threads /\ Suggested(s, t, c) /\ s.prio[t] = p
      /\ s.prio \in [Threads -> Priorities]
    BY WhoIsQueued
<1>2. x = FrontOf(queue)
    BY DEF FirstSuggested
<1>3. \A p \in Priorities :
         /\ Keep(s.suggested[c][p], K) \in Seq(Threads)
         /\ \A t : In(t, Keep(s.suggested[c][p], K)) <=> In(t, s.suggested[c][p]) /\ t \in K
    BY <1>1, KeepElements
<1>4. queue \in [Priorities -> Seq(Threads)]
    BY <1>3
<1>5. \A t : \A p \in Priorities :
         In(t, queue[p]) <=> t \in Threads /\ Suggested(s, t, c) /\ s.prio[t] = p /\ t \in K
    BY <1>1, <1>3
<1> HIDE DEF x, queue
<1>6. CASE x = Null /\ \A p \in Priorities : queue[p] = <<>>
  <2>1. \A t \in Threads : ~(Suggested(s, t, c) /\ t \in K)
    <3> SUFFICES ASSUME NEW t \in Threads, Suggested(s, t, c), t \in K PROVE FALSE
      OBVIOUS
    <3>1. s.prio[t] \in Priorities /\ In(t, queue[s.prio[t]])
      BY <1>1, <1>5
    <3>2. QED BY <1>6, <3>1 DEF In
  <2>2. QED BY <1>6, <2>1 DEF x
<1>7. CASE /\ x \in Threads
           /\ \E p \in Priorities :
                 /\ queue[p] # <<>> /\ x = queue[p][1]
                 /\ \A q \in Priorities : q < p => queue[q] = <<>>
  <2>1. PICK p \in Priorities : queue[p] # <<>> /\ x = queue[p][1]
    BY <1>7
  <2>2. 1 \in 1 .. Len(queue[p])
    BY <1>4, <2>1
  <2>3. In(x, queue[p])
    BY <2>1, <2>2 DEF In
  <2>4. QED BY <1>5, <1>7, <2>3 DEF x
<1>8. QED
    BY <1>2, <1>4, <1>6, <1>7, FrontOfQueues DEF FirstAt

LEMMA TailOfList ==
    ASSUME NEW S, NEW q \in Seq(S), q # <<>>
    PROVE  LET r == SubSeq(q, 2, Len(q))
           IN  /\ r \in Seq(S)
               /\ Len(q) = 1 => r = <<>>
               /\ Len(q) # 1 => r # <<>> /\ r[1] = q[2] /\ 2 \in 1 .. Len(q)
<1>1. Len(q) \in Nat /\ Len(q) >= 1
    OBVIOUS
<1>2. PICK r : r = SubSeq(q, 2, Len(q))
    OBVIOUS
<1>3. r \in Seq(S) /\ Len(r) = Len(q) - 1
  <2>1. SubSeq(q, 2, Len(q)) \in Seq(S)
    OBVIOUS
  <2>2. Len(SubSeq(q, 2, Len(q))) = Len(q) - 1
    BY <1>1
  <2>3. QED BY <1>2, <2>1, <2>2
<1>4. Len(q) > 1 => r[1] = q[2]
  <2>1. \A j \in 1 .. (Len(q) - 1) : SubSeq(q, 2, Len(q))[j] = q[2 + j - 1]
    OBVIOUS
  <2>2. Len(q) > 1 => 1 \in 1 .. (Len(q) - 1)
    BY <1>1
  <2>3. QED BY <1>2, <2>1, <2>2
<1>5. Len(r) = 0 => r = <<>>
    BY <1>3
<1>6. Len(r) # 0 => r # <<>>
    BY <1>3
<1>7. QED
    BY <1>1, <1>2, <1>3, <1>4, <1>5, <1>6

\* What is behind the first thread, and what is left without the thread x.
Behind(queue, p) ==
    [q \in Priorities |-> IF q < p THEN <<>>
                          ELSE IF q = p THEN SubSeq(queue[p], 2, Len(queue[p])) ELSE queue[q]]
Without(queue, p, x) ==
    [q \in Priorities |-> IF q = p THEN Keep(queue[p], Threads \ {x}) ELSE queue[q]]

\* The thread behind the first one is the first once that is gone.
LEMMA BehindFront ==
    ASSUME NEW queue \in [Priorities -> Seq(Threads)], NEW p \in Priorities,
           FirstAt(queue, p), Distinct(queue[p]),
           \A q \in Priorities : In(queue[p][1], queue[q]) => q = p
    PROVE  LET y == FrontOf(Behind(queue, p))
           IN  \/ y = Null /\ Len(queue[p]) = 1 /\ \A q \in Priorities : q # p => queue[q] = <<>>
               \/ /\ y \in Threads \ {queue[p][1]}
                  /\ \E q \in Priorities : In(y, queue[q])
                  /\ FrontOf(Without(queue, p, queue[p][1])) = y
<1>1. PICK own, x, behind, kept, y :
          own = queue[p] /\ x = own[1] /\ behind = Behind(queue, p)
          /\ kept = Without(queue, p, x) /\ y = FrontOf(behind)
    OBVIOUS
<1>2. own \in Seq(Threads) /\ own # <<>> /\ Distinct(own)
    BY <1>1 DEF FirstAt
<1>3. Len(own) \in Nat /\ 1 \in 1 .. Len(own) /\ x \in Threads
    BY <1>1, <1>2
<1>4. /\ SubSeq(own, 2, Len(own)) \in Seq(Threads)
      /\ Len(own) = 1 => SubSeq(own, 2, Len(own)) = <<>>
      /\ Len(own) # 1 => /\ SubSeq(own, 2, Len(own)) # <<>>
                         /\ SubSeq(own, 2, Len(own))[1] = own[2] /\ 2 \in 1 .. Len(own)
    BY <1>2, TailOfList
<1>5. Len(own) # 1 => own[2] \in Threads \ {x}
    BY <1>1, <1>2, <1>3, <1>4 DEF Distinct
<1>6. p \in Nat /\ \A q \in Priorities : q \in Nat
    BY ConstantsMakeSense
<1>7. /\ behind \in [Priorities -> Seq(Threads)]
      /\ \A q \in Priorities : q < p => behind[q] = <<>>
      /\ behind[p] = SubSeq(own, 2, Len(own))
      /\ \A q \in Priorities : q > p => behind[q] = queue[q]
    BY <1>1, <1>4, <1>6 DEF Behind
<1>8. Keep(own, Threads \ {x}) \in Seq(Threads)
    BY <1>2, KeepElements
<1>9. /\ kept \in [Priorities -> Seq(Threads)]
      /\ kept[p] = Keep(own, Threads \ {x})
      /\ \A q \in Priorities : q # p => kept[q] = queue[q]
      /\ \A q \in Priorities : q < p => kept[q] = <<>>
    BY <1>1, <1>6, <1>8 DEF Without, FirstAt
<1>10. CASE y = Null /\ \A q \in Priorities : behind[q] = <<>>
  <2>1. Len(own) = 1
    BY <1>4, <1>7, <1>10
  <2>2. \A q \in Priorities : q # p => queue[q] = <<>>
    BY <1>6, <1>7, <1>10 DEF FirstAt
  <2>3. QED BY <1>1, <1>10, <2>1, <2>2
<1>11. CASE y \in Threads /\ \E q \in Priorities : FirstAt(behind, q) /\ y = behind[q][1]
  <2>1. PICK q \in Priorities : FirstAt(behind, q) /\ y = behind[q][1]
    BY <1>11
  <2>2. behind[q] # <<>> /\ \A r \in Priorities : r < q => behind[r] = <<>>
    BY <2>1 DEF FirstAt
  <2>3. q = p \/ q > p
    BY <1>6, <1>7, <2>2
  <2>4. CASE q = p
    <3>1. Len(own) # 1 /\ y = own[2]
      BY <1>4, <1>7, <2>1, <2>2, <2>4
    <3>2. In(y, queue[p])
      BY <1>1, <1>4, <3>1 DEF In
    <3>3. \A j \in 1 .. (2 - 1) : own[j] \notin Threads \ {x}
      BY <1>1
    <3>4. Keep(own, Threads \ {x}) # <<>> /\ Keep(own, Threads \ {x})[1] = own[2]
      <4>1. 2 \in 1 .. Len(own) /\ own[2] \in Threads \ {x}
        BY <1>4, <1>5, <3>1
      <4>2. PICK K : K = Threads \ {x}
        OBVIOUS
      <4>3. own[2] \in K /\ (\A j \in 1 .. (2 - 1) : own[j] \notin K)
        BY <3>3, <4>1, <4>2
      <4>4. \A i \in 1 .. Len(own) :
               own[i] \in K /\ (\A j \in 1 .. (i - 1) : own[j] \notin K)
                  => Keep(own, K) # <<>> /\ Keep(own, K)[1] = own[i]
        BY <1>2, KeepElements
      <4>5. Keep(own, K) # <<>> /\ Keep(own, K)[1] = own[2]
        BY <4>1, <4>3, <4>4
      <4>6. QED BY <4>2, <4>5
    <3>5. FrontOf(kept) = y
      BY <1>9, <3>1, <3>4, FrontOfIs DEF FirstAt
    <3>6. QED BY <1>1, <1>5, <3>1, <3>2, <3>5
  <2>5. CASE q > p
    <3>1. Len(own) = 1
      BY <1>4, <1>6, <1>7, <2>2, <2>5
    <3>2. y = queue[q][1] /\ queue[q] # <<>> /\ queue[q] = behind[q] /\ q # p
      BY <1>6, <1>7, <2>1, <2>2, <2>5
    <3>3. 1 \in 1 .. Len(queue[q])
      BY <3>2
    <3>4. In(y, queue[q])
      BY <3>2, <3>3 DEF In
    <3>5. \A j \in 1 .. Len(own) : own[j] \notin Threads \ {x}
      BY <1>1, <3>1
    <3>6. Keep(own, Threads \ {x}) = <<>>
      BY <1>2, <3>5, KeepElements
    <3>7. kept[q] = queue[q]
      BY <1>9, <3>2
    <3>8. \A r \in Priorities : r < q => kept[r] = <<>>
      <4>1. \A r \in Priorities : r > p /\ r < q => kept[r] = <<>>
        BY <1>6, <1>7, <1>9, <2>2
      <4>2. \A r \in Priorities : r = p => kept[r] = <<>>
        BY <1>9, <3>6
      <4>3. QED BY <1>6, <1>9, <4>1, <4>2
    <3>9. FrontOf(kept) = y
      BY <1>9, <3>2, <3>7, <3>8, FrontOfIs DEF FirstAt
    <3>10. y # x
      <4>1. ~In(x, queue[q])
        BY <1>1, <3>2
      <4>2. QED BY <3>4, <4>1
    <3>11. QED BY <1>1, <1>11, <3>4, <3>9, <3>10
  <2>6. QED BY <2>3, <2>4, <2>5
<1>12. QED
  <2>1. \/ y = Null /\ \A q \in Priorities : behind[q] = <<>>
        \/ /\ y \in Threads
           /\ \E q \in Priorities : FirstAt(behind, q) /\ y = behind[q][1]
    <3>1. behind \in [Priorities -> Seq(Threads)]
      BY <1>7
    <3>2. \/ FrontOf(behind) = Null /\ \A q \in Priorities : behind[q] = <<>>
          \/ /\ FrontOf(behind) \in Threads
             /\ \E q \in Priorities : FirstAt(behind, q) /\ FrontOf(behind) = behind[q][1]
      BY <3>1, FrontOfQueues
    <3>3. QED BY <1>1, <3>2
  <2>2. QED BY <1>10, <1>11, <2>1

LEMMA ScheduledNextIs ==
    ASSUME NEW s \in Contexts, Queued(s), NEW c \in Cores, NEW x \in Threads,
           ScheduledFront(s, c) = x
    PROVE  \/ /\ ScheduledNext(s, c, x) = Null
              /\ \A t \in Threads : Active(s, t, c) => t = x
           \/ /\ ScheduledNext(s, c, x) \in Threads \ {x}
              /\ Active(s, ScheduledNext(s, c, x), c)
              /\ FrontOf(Without(s.scheduled[c], s.prio[x], x)) = ScheduledNext(s, c, x)
<1>1. PICK queue, y, p : queue = s.scheduled[c] /\ y = ScheduledNext(s, c, x) /\ p = s.prio[x]
    OBVIOUS
<1>2. /\ queue \in [Priorities -> Seq(Threads)]
      /\ \A t : \A q \in Priorities :
            In(t, queue[q]) <=> t \in Threads /\ Active(s, t, c) /\ s.prio[t] = q
      /\ \A q \in Priorities : Distinct(queue[q])
      /\ s.prio \in [Threads -> Priorities]
    BY <1>1, WhoIsQueued
<1>3. x = FrontOf(queue)
    BY <1>1, ConstantsMakeSense DEF ScheduledFront
<1>4. FirstAt(queue, p) /\ x = queue[p][1] /\ p \in Priorities
  <2>1. PICK q \in Priorities : FirstAt(queue, q) /\ x = queue[q][1]
    <3>1. FrontOf(queue) # Null
      BY <1>3, ConstantsMakeSense
    <3>2. \E q \in Priorities : FirstAt(queue, q) /\ FrontOf(queue) = queue[q][1]
      BY <1>2, <3>1, FrontOfQueues
    <3>3. QED BY <1>3, <3>2
  <2>2. queue[q] \in Seq(Threads) /\ queue[q] # <<>>
    BY <1>2, <2>1 DEF FirstAt
  <2>3. 1 \in 1 .. Len(queue[q])
    BY <2>2
  <2>4. In(x, queue[q])
    BY <2>1, <2>3 DEF In
  <2>5. QED BY <1>1, <1>2, <2>1, <2>4
<1>5. \A q \in Priorities : In(queue[p][1], queue[q]) => q = p
  <2>1. \A q \in Priorities : In(x, queue[q]) => q = p
    BY <1>1, <1>2
  <2>2. QED BY <1>4, <2>1
<1>6. queue[p] \in Seq(Threads) /\ queue[p] # <<>> /\ Distinct(queue[p])
    BY <1>2, <1>4 DEF FirstAt
<1>7. y = FrontOf(Behind(queue, p))
  <2>1. PICK k : k = CHOOSE i \in 1 .. Len(queue[p]) : queue[p][i] = x
    OBVIOUS
  <2>2. 1 \in 1 .. Len(queue[p]) /\ \A j \in 1 .. Len(queue[p]) : queue[p][j] = x => j = 1
    BY <1>4, <1>6 DEF Distinct
  <2>3. k = 1
    BY <1>4, <2>1, <2>2
  <2>4. k + 1 = 2
    BY <2>3
  <2>5. y = FrontOf([q \in Priorities |->
                       IF q < p THEN <<>>
                       ELSE IF q = p THEN SubSeq(queue[p], k + 1, Len(queue[p])) ELSE queue[q]])
    BY <1>1, <2>1 DEF ScheduledNext
  <2>6. QED BY <2>4, <2>5 DEF Behind
<1>8. CASE y = Null /\ Len(queue[p]) = 1 /\ \A q \in Priorities : q # p => queue[q] = <<>>
  <2>1. ASSUME NEW t \in Threads, Active(s, t, c) PROVE t = x
    <3>1. s.prio[t] \in Priorities /\ In(t, queue[s.prio[t]])
      BY <1>2, <2>1
    <3>2. PICK j \in 1 .. Len(queue[s.prio[t]]) : queue[s.prio[t]][j] = t
      BY <3>1 DEF In
    <3>3. s.prio[t] = p
      BY <1>8, <3>1, <3>2
    <3>4. QED BY <1>4, <1>8, <3>2, <3>3
  <2>2. QED BY <1>1, <1>8, <2>1
<1>9. CASE /\ y \in Threads \ {x}
           /\ \E q \in Priorities : In(y, queue[q])
           /\ FrontOf(Without(queue, p, x)) = y
    BY <1>1, <1>2, <1>9
<1>10. QED
    BY <1>2, <1>4, <1>5, <1>6, <1>7, <1>8, <1>9, BehindFront

-----------------------------------------------------------------------------
(* Threads enter and leave the queues *)

LEMMA TablesTyped ==
    ASSUME NEW Q \in QueueSets, NEW cs, NEW p \in Priorities, NEW t \in Threads
    PROVE  /\ Removed(Q, cs, p, t) \in QueueSets
           /\ Appended(Q, cs, p, t) \in QueueSets
           /\ Prepended(Q, cs, p, t) \in QueueSets
<1>1. \A c \in Cores, q \in Priorities :
         /\ Q[c][q] \in Seq(Threads)
         /\ Keep(Q[c][q], Threads \ {t}) \in Seq(Threads)
         /\ Append(Q[c][q], t) \in Seq(Threads)
         /\ <<t>> \o Q[c][q] \in Seq(Threads)
  <2> TAKE c \in Cores, q \in Priorities
  <2>1. Q[c][q] \in Seq(Threads)
    BY DEF QueueSets
  <2>2. Keep(Q[c][q], Threads \ {t}) \in Seq(Threads)
    BY <2>1, KeepElements
  <2>3. <<t>> \in Seq(Threads)
    OBVIOUS
  <2>4. <<t>> \o Q[c][q] \in Seq(Threads)
    BY <2>1, <2>3
  <2>5. QED BY <2>1, <2>2, <2>4
<1>2. Removed(Q, cs, p, t) \in QueueSets
    BY <1>1 DEF Removed, QueueSets
<1>3. Appended(Q, cs, p, t) \in QueueSets
    BY <1>1 DEF Appended, QueueSets
<1>4. Prepended(Q, cs, p, t) \in QueueSets
    BY <1>1 DEF Prepended, QueueSets
<1>5. QED BY <1>2, <1>3, <1>4

\* One queue of a table, after an operation on the table.
LEMMA EntryRemoved ==
    ASSUME NEW Q, NEW cs, NEW p \in Priorities, NEW t \in Threads,
           NEW c \in Cores, NEW q \in Priorities,
           NEW S \in SUBSET Threads, Queues(Q[c][q], S)
    PROVE  /\ c \in cs /\ q = p => Queues(Removed(Q, cs, p, t)[c][q], S \ {t})
           /\ ~(c \in cs /\ q = p) => Queues(Removed(Q, cs, p, t)[c][q], S)
<1>1. Removed(Q, cs, p, t)[c][q] =
         IF c \in cs /\ q = p THEN Keep(Q[c][q], Threads \ {t}) ELSE Q[c][q]
    BY DEF Removed
<1>2. Queues(Keep(Q[c][q], Threads \ {t}), S \ {t})
    BY QueuesRemove
<1>3. QED BY <1>1, <1>2

\* The queues A and B hold what the threads of s ask for; or all but t.
Held(A, B, s) ==
    \A c \in Cores, p \in Priorities :
        Queues(A[c][p], ScheduledAt(s, c, p)) /\ Queues(B[c][p], SuggestedAt(s, c, p))
HeldBut(A, B, s, t) ==
    \A c \in Cores, p \in Priorities :
        /\ Queues(A[c][p], ScheduledAt(s, c, p) \ {t})
        /\ Queues(B[c][p], SuggestedAt(s, c, p) \ {t})

\* A runnable thread leaves the queues it is in.
LEMMA Unqueued ==
    ASSUME NEW s \in Contexts, Queued(s), NEW t \in Threads, s.state[t] = "Runnable",
           NEW home, \A c \in Cores : c \in home <=> c = s.core[t],
           NEW away, \A c \in Cores : c \in away <=> c \in SuggestedCores(s, t)
    PROVE  LET A == Removed(s.scheduled, home, s.prio[t], t)
               B == Removed(s.suggested, away, s.prio[t], t)
           IN  A \in QueueSets /\ B \in QueueSets /\ HeldBut(A, B, s, t)
<1>1. s.scheduled \in QueueSets /\ s.suggested \in QueueSets /\ s.prio[t] \in Priorities
    BY DEF Contexts
<1>2. PICK p, A, B : /\ p = s.prio[t]
                     /\ A = Removed(s.scheduled, home, p, t)
                     /\ B = Removed(s.suggested, away, p, t)
    OBVIOUS
<1>3. A \in QueueSets /\ B \in QueueSets /\ p \in Priorities
    BY <1>1, <1>2, TablesTyped
<1>4. ASSUME NEW c \in Cores, NEW q \in Priorities
      PROVE  /\ Queues(A[c][q], ScheduledAt(s, c, q) \ {t})
             /\ Queues(B[c][q], SuggestedAt(s, c, q) \ {t})
  <2>1. /\ Queues(s.scheduled[c][q], ScheduledAt(s, c, q))
        /\ Queues(s.suggested[c][q], SuggestedAt(s, c, q))
    BY DEF Queued
  <2>2. /\ ScheduledAt(s, c, q) \in SUBSET Threads
        /\ SuggestedAt(s, c, q) \in SUBSET Threads
    BY DEF ScheduledAt, SuggestedAt
  <2>3. /\ c \in home /\ q = p => Queues(A[c][q], ScheduledAt(s, c, q) \ {t})
        /\ ~(c \in home /\ q = p) => Queues(A[c][q], ScheduledAt(s, c, q))
    <3>1. PICK Q, S : Q = s.scheduled /\ S = ScheduledAt(s, c, q)
      OBVIOUS
    <3>2. S \in SUBSET Threads /\ Queues(Q[c][q], S)
      BY <2>1, <2>2, <3>1
    <3>3. /\ c \in home /\ q = p => Queues(Removed(Q, home, p, t)[c][q], S \ {t})
          /\ ~(c \in home /\ q = p) => Queues(Removed(Q, home, p, t)[c][q], S)
      BY <1>3, <3>2, EntryRemoved
    <3>4. QED BY <1>2, <3>1, <3>3
  <2>4. /\ c \in away /\ q = p => Queues(B[c][q], SuggestedAt(s, c, q) \ {t})
        /\ ~(c \in away /\ q = p) => Queues(B[c][q], SuggestedAt(s, c, q))
    <3>1. PICK Q, S : Q = s.suggested /\ S = SuggestedAt(s, c, q)
      OBVIOUS
    <3>2. S \in SUBSET Threads /\ Queues(Q[c][q], S)
      BY <2>1, <2>2, <3>1
    <3>3. /\ c \in away /\ q = p => Queues(Removed(Q, away, p, t)[c][q], S \ {t})
          /\ ~(c \in away /\ q = p) => Queues(Removed(Q, away, p, t)[c][q], S)
      BY <1>3, <3>2, EntryRemoved
    <3>4. QED BY <1>2, <3>1, <3>3
  <2>5. ~(c \in home /\ q = p) => ScheduledAt(s, c, q) = ScheduledAt(s, c, q) \ {t}
    BY <1>2 DEF ScheduledAt
  <2>6. ~(c \in away /\ q = p) => SuggestedAt(s, c, q) = SuggestedAt(s, c, q) \ {t}
    BY <1>2 DEF SuggestedAt
  <2>7. QED BY <2>3, <2>4, <2>5, <2>6
<1>5. HeldBut(A, B, s, t)
    BY <1>4 DEF HeldBut
<1>6. QED BY <1>2, <1>3, <1>5

\* r agrees with s on the threads that are not t.
AgreeBut(s, r, t) ==
    \A u \in Threads \ {t} :
        r.state[u] = s.state[u] /\ r.prio[u] = s.prio[u] /\ r.core[u] = s.core[u] /\ r.mask[u] = s.mask[u]

LEMMA OthersHeld ==
    ASSUME NEW s, NEW r, NEW t, AgreeBut(s, r, t), NEW A, NEW B, HeldBut(A, B, s, t)
    PROVE  HeldBut(A, B, r, t)
<1>1. ASSUME NEW c \in Cores, NEW p \in Priorities
      PROVE  /\ ScheduledAt(r, c, p) \ {t} = ScheduledAt(s, c, p) \ {t}
             /\ SuggestedAt(r, c, p) \ {t} = SuggestedAt(s, c, p) \ {t}
    BY DEF AgreeBut, ScheduledAt, SuggestedAt, SuggestedCores
<1>2. QED BY <1>1 DEF HeldBut

\* A thread that is not runnable is in no queue.
LEMMA LeftOut ==
    ASSUME NEW s, NEW t, s.state[t] # "Runnable", NEW A, NEW B
    PROVE  HeldBut(A, B, s, t) <=> Held(A, B, s)
<1>1. ASSUME NEW c \in Cores, NEW p \in Priorities
      PROVE  /\ ScheduledAt(s, c, p) \ {t} = ScheduledAt(s, c, p)
             /\ SuggestedAt(s, c, p) \ {t} = SuggestedAt(s, c, p)
    BY DEF ScheduledAt, SuggestedAt
<1>2. QED BY <1>1 DEF HeldBut, Held

\* A runnable thread enters the queues it belongs to.
LEMMA Enqueued ==
    ASSUME NEW s, s.core \in [Threads -> CoreIds],
           NEW t \in Threads, s.state[t] = "Runnable", s.prio[t] \in Priorities,
           NEW A \in QueueSets, NEW B \in QueueSets, HeldBut(A, B, s, t),
           NEW home, \A c \in Cores : c \in home <=> c = s.core[t],
           NEW away, \A c \in Cores : c \in away <=> c \in SuggestedCores(s, t)
    PROVE  LET X == Appended(A, home, s.prio[t], t)
               Y == Prepended(A, home, s.prio[t], t)
               Z == Appended(B, away, s.prio[t], t)
           IN  /\ X \in QueueSets /\ Y \in QueueSets /\ Z \in QueueSets
               /\ Held(X, Z, s) /\ Held(Y, Z, s)
<1>1. PICK p, X, Y, Z :
         /\ p = s.prio[t]
         /\ X = Appended(A, home, p, t) /\ Y = Prepended(A, home, p, t) /\ Z = Appended(B, away, p, t)
    OBVIOUS
<1>2. p \in Priorities
    BY <1>1
<1>3. X \in QueueSets /\ Y \in QueueSets /\ Z \in QueueSets
    BY <1>1, <1>2, TablesTyped
<1>4. ASSUME NEW c \in Cores, NEW q \in Priorities
      PROVE  /\ Queues(X[c][q], ScheduledAt(s, c, q)) /\ Queues(Y[c][q], ScheduledAt(s, c, q))
             /\ Queues(Z[c][q], SuggestedAt(s, c, q))
  <2>1. PICK S, T : S = ScheduledAt(s, c, q) \ {t} /\ T = SuggestedAt(s, c, q) \ {t}
    OBVIOUS
  <2>2. S \in SUBSET Threads /\ T \in SUBSET Threads /\ t \notin S /\ t \notin T
    BY <2>1 DEF ScheduledAt, SuggestedAt
  <2>3. Queues(A[c][q], S) /\ Queues(B[c][q], T)
    BY <2>1 DEF HeldBut
  <2>4. PICK a, b : a = A[c][q] /\ b = B[c][q]
    OBVIOUS
  <2>5. /\ Queues(Append(a, t), S \cup {t}) /\ Queues(<<t>> \o a, S \cup {t})
        /\ Queues(Append(b, t), T \cup {t})
    BY <2>2, <2>3, <2>4, QueuesAppend, QueuesPrepend
  <2>6. /\ X[c][q] = IF c \in home /\ q = p THEN Append(a, t) ELSE a
        /\ Y[c][q] = IF c \in home /\ q = p THEN <<t>> \o a ELSE a
        /\ Z[c][q] = IF c \in away /\ q = p THEN Append(b, t) ELSE b
    BY <1>1, <2>4 DEF Appended, Prepended
  <2>7. ScheduledAt(s, c, q) = IF c \in home /\ q = p THEN S \cup {t} ELSE S
    BY <1>1, <2>1 DEF ScheduledAt
  <2>8. SuggestedAt(s, c, q) = IF c \in away /\ q = p THEN T \cup {t} ELSE T
    BY <1>1, <2>1 DEF SuggestedAt
  <2>9. QED BY <2>3, <2>4, <2>5, <2>6, <2>7, <2>8
<1>5. Held(X, Z, s) /\ Held(Y, Z, s)
    BY <1>4 DEF Held
<1>6. QED BY <1>1, <1>3, <1>5

-----------------------------------------------------------------------------
(* What the operations on the queues leave true *)

LEMMA MoveToBackKeeps ==
    ASSUME NEW s \in Contexts, Queued(s), NEW t \in Threads, s.state[t] = "Runnable"
    PROVE  MoveToBack(s, t) \in Contexts /\ Queued(MoveToBack(s, t))
           /\ SameButQueues(s, MoveToBack(s, t))
<1>1. PICK home, away, p, A, B, X, Z :
         /\ home = s.core[t] /\ away = SuggestedCores(s, t) /\ p = s.prio[t]
         /\ A = Removed(s.scheduled, {home}, p, t) /\ B = Removed(s.suggested, away, p, t)
         /\ X = Appended(A, {home}, p, t) /\ Z = Appended(B, away, p, t)
    OBVIOUS
<1>2. /\ s.core \in [Threads -> CoreIds] /\ p \in Priorities
      /\ s.scheduled \in QueueSets /\ s.suggested \in QueueSets
    BY <1>1 DEF Contexts
<1>3. A \in QueueSets /\ B \in QueueSets /\ HeldBut(A, B, s, t)
    BY <1>1, Unqueued
<1>4. X \in QueueSets /\ Held(X, Z, s)
    BY <1>1, <1>2, <1>3, Enqueued
<1>5. Held(X, s.suggested, s)
    BY <1>4 DEF Held, Queued
<1>6. PICK r : r = MoveToBack(s, t)
    OBVIOUS
<1>7. r = [s EXCEPT !.scheduled = X]
    BY <1>1, <1>6 DEF MoveToBack
<1>8. r \in Contexts /\ SameButQueues(s, r) /\ r.scheduled = X /\ r.suggested = s.suggested
    BY <1>4, <1>7 DEF Contexts, SameButQueues, SameButPlaces
<1>9. Queued(r)
  <2>1. \A c \in Cores, q \in Priorities :
           ScheduledAt(r, c, q) = ScheduledAt(s, c, q) /\ SuggestedAt(r, c, q) = SuggestedAt(s, c, q)
    BY <1>8 DEF SameButQueues, SameButPlaces, ScheduledAt, SuggestedAt, SuggestedCores
  <2>2. QED BY <1>5, <1>8, <2>1 DEF Held, Queued
<1>10. QED BY <1>6, <1>8, <1>9

\* The queues of the suggestions after a thread has moved to core c.
LEMMA SuggestionsMoved ==
    ASSUME NEW s \in Contexts, Queued(s), NEW t \in Threads, s.state[t] = "Runnable",
           NEW c \in CoreIds \ {s.core[t]}, s.core[t] \in s.mask[t] \cup {NoCore},
           NEW r, r.state = s.state, r.prio = s.prio, r.mask = s.mask,
           r.core = [s.core EXCEPT ![t] = c],
           NEW x \in Cores, NEW q \in Priorities
    PROVE  Queues(Appended(Removed(s.suggested, {c}, s.prio[t], t), {s.core[t]}, s.prio[t], t)[x][q],
                  SuggestedAt(r, x, q))
<1>1. PICK home, p, A, X, b :
         /\ home = s.core[t] /\ p = s.prio[t]
         /\ A = Removed(s.suggested, {c}, p, t) /\ X = Appended(A, {home}, p, t) /\ b = s.suggested[x][q]
    OBVIOUS
<1>2. PICK S : S = SuggestedAt(s, x, q)
    OBVIOUS
<1>3. S \in SUBSET Threads /\ Queues(b, S)
    BY <1>1, <1>2 DEF Queued, SuggestedAt
<1>4. A[x][q] = IF x = c /\ q = p THEN Keep(b, Threads \ {t}) ELSE b
    BY <1>1 DEF Removed
<1>5. X[x][q] = IF x = home /\ q = p THEN Append(A[x][q], t) ELSE A[x][q]
    BY <1>1 DEF Appended
<1>6. s.core[t] \in CoreIds /\ s.mask[t] \in SUBSET Cores /\ s.core \in [Threads -> CoreIds]
    BY DEF Contexts, Masks
<1>7. \A u \in Threads : r.core[u] = IF u = t THEN c ELSE s.core[u]
    BY <1>6
<1>8. CASE x = c /\ q = p
  <2>1. Queues(Keep(b, Threads \ {t}), S \ {t})
    BY <1>3, QueuesRemove
  <2>2. X[x][q] = Keep(b, Threads \ {t})
    BY <1>1, <1>4, <1>5, <1>8
  <2>3. SuggestedAt(r, x, q) = S \ {t}
    BY <1>2, <1>7, <1>8 DEF SuggestedAt, SuggestedCores
  <2>4. QED BY <1>1, <2>1, <2>2, <2>3
<1>9. CASE x = home /\ q = p
  <2>1. t \notin S
    BY <1>1, <1>2, <1>9 DEF SuggestedAt, SuggestedCores
  <2>2. Queues(Append(b, t), S \cup {t})
    BY <1>3, <2>1, QueuesAppend
  <2>3. X[x][q] = Append(b, t)
    BY <1>1, <1>4, <1>5, <1>9
  <2>4. x \in s.mask[t]
    BY <1>1, <1>9, ConstantsMakeSense
  <2>5. SuggestedAt(r, x, q) = S \cup {t}
    BY <1>1, <1>2, <1>7, <1>9, <2>4 DEF SuggestedAt, SuggestedCores
  <2>6. QED BY <1>1, <2>2, <2>3, <2>5
<1>10. CASE q # p \/ x \notin {c, home}
  <2>1. X[x][q] = b
    BY <1>4, <1>5, <1>10
  <2>2. SuggestedAt(r, x, q) = S
    BY <1>1, <1>2, <1>7, <1>10 DEF SuggestedAt, SuggestedCores
  <2>3. QED BY <1>1, <1>3, <2>1, <2>2
<1>11. QED BY <1>8, <1>9, <1>10

LEMMA MigrateKeeps ==
    ASSUME NEW s \in Contexts, Queued(s), NEW t \in Threads, s.state[t] = "Runnable",
           NEW c \in CoreIds, c \in s.mask[t] \cup {NoCore},
           s.core[t] \in s.mask[t] \cup {NoCore}, NEW toFront \in BOOLEAN
    PROVE  LET r == Migrate(s, t, c, toFront)
           IN  /\ r \in Contexts /\ Queued(r) /\ SameButPlaces(s, r)
               /\ r.core = [s.core EXCEPT ![t] = c]
<1>1. PICK r : r = Migrate(s, t, c, toFront)
    OBVIOUS
<1>2. CASE s.core[t] = c
  <2>1. r = s
    BY <1>1, <1>2 DEF Migrate
  <2>2. s.core = [s.core EXCEPT ![t] = c]
    BY <1>2 DEF Contexts
  <2>3. QED BY <1>1, <1>2, <2>1, <2>2 DEF SameButPlaces
<1>3. CASE s.core[t] # c
  <2>1. PICK home, p, A, X, Y, Z :
           /\ home = s.core[t] /\ p = s.prio[t]
           /\ A = Removed(s.scheduled, {home}, p, t)
           /\ X = Appended(A, {c}, p, t) /\ Y = Prepended(A, {c}, p, t)
           /\ Z = Appended(Removed(s.suggested, {c}, p, t), {home}, p, t)
    OBVIOUS
  <2>2. /\ s.core \in [Threads -> CoreIds] /\ p \in Priorities
        /\ s.scheduled \in QueueSets /\ s.suggested \in QueueSets
    BY <2>1 DEF Contexts
  <2>3. PICK away, B : away = SuggestedCores(s, t) /\ B = Removed(s.suggested, away, p, t)
    OBVIOUS
  <2>4. A \in QueueSets /\ B \in QueueSets /\ HeldBut(A, B, s, t)
    BY <2>1, <2>3, Unqueued
  <2>5. PICK N : N = IF toFront THEN Y ELSE X
    OBVIOUS
  <2>6. Z \in QueueSets /\ X \in QueueSets /\ Y \in QueueSets /\ N \in QueueSets
    <3>1. Removed(s.suggested, {c}, p, t) \in QueueSets
      BY <2>2, TablesTyped
    <3>2. QED BY <2>1, <2>2, <2>4, <2>5, <3>1, TablesTyped
  <2>7. r = [s EXCEPT !.core[t] = c, !.scheduled = N, !.suggested = Z]
    BY <1>1, <1>3, <2>1, <2>5 DEF Migrate
  <2>8. /\ r \in Contexts /\ SameButPlaces(s, r)
        /\ r.core = [s.core EXCEPT ![t] = c] /\ r.scheduled = N /\ r.suggested = Z
    BY <2>6, <2>7 DEF Contexts, SameButPlaces
  <2>9. AgreeBut(s, r, t) /\ r.core[t] = c
    BY <2>2, <2>8 DEF AgreeBut, SameButPlaces
  <2>10. HeldBut(A, B, r, t)
    BY <2>4, <2>9, OthersHeld
  <2>11. r.core \in [Threads -> CoreIds] /\ r.state[t] = "Runnable" /\ r.prio[t] = p
    BY <2>1, <2>8 DEF Contexts, SameButPlaces
  <2>12. PICK after, W : after = SuggestedCores(r, t) /\ W = Appended(B, after, p, t)
    OBVIOUS
  <2>13. Held(X, W, r) /\ Held(Y, W, r)
    BY <2>1, <2>2, <2>4, <2>9, <2>10, <2>11, <2>12, Enqueued
  <2>14. \A x \in Cores, q \in Priorities : Queues(N[x][q], ScheduledAt(r, x, q))
    BY <2>5, <2>13 DEF Held
  <2>15. \A x \in Cores, q \in Priorities : Queues(Z[x][q], SuggestedAt(r, x, q))
    <3> TAKE x \in Cores, q \in Priorities
    <3>1. c \in CoreIds \ {s.core[t]} /\ r.state = s.state /\ r.prio = s.prio /\ r.mask = s.mask
      BY <1>3, <2>8 DEF SameButPlaces
    <3>2. QED BY <2>1, <2>8, <3>1, SuggestionsMoved
  <2>16. Queued(r)
    BY <2>8, <2>14, <2>15 DEF Queued
  <2>17. QED BY <1>1, <2>8, <2>16
<1>4. QED BY <1>2, <1>3

\* The queues of the cores that the thread does not go to.
LEMMA MigrateLeaves ==
    ASSUME NEW s \in Contexts, NEW t \in Threads, NEW c \in CoreIds, s.core[t] # c,
           NEW toFront \in BOOLEAN, NEW r, r = Migrate(s, t, c, toFront),
           NEW d \in Cores, d # c
    PROVE  /\ d = s.core[t] => r.scheduled[d] = Without(s.scheduled[d], s.prio[t], t)
           /\ d # s.core[t] => r.scheduled[d] = s.scheduled[d]
<1>1. PICK home, p, A, X, Y, Z, N :
         /\ home = s.core[t] /\ p = s.prio[t]
         /\ A = Removed(s.scheduled, {home}, p, t)
         /\ X = Appended(A, {c}, p, t) /\ Y = Prepended(A, {c}, p, t)
         /\ Z = Appended(Removed(s.suggested, {c}, p, t), {home}, p, t)
         /\ N = IF toFront THEN Y ELSE X
    OBVIOUS
<1>2. r = [s EXCEPT !.core[t] = c, !.scheduled = N, !.suggested = Z]
    BY <1>1 DEF Migrate
<1>3. r.scheduled = N /\ s.scheduled \in QueueSets /\ p \in Priorities
    BY <1>1, <1>2 DEF Contexts
<1>4. A \in QueueSets
    BY <1>1, <1>3, TablesTyped
<1>5. X[d] = A[d] /\ Y[d] = A[d]
    BY <1>1, <1>4 DEF Appended, Prepended, QueueSets
<1>6. /\ d = home => A[d] = Without(s.scheduled[d], p, t)
      /\ d # home => A[d] = s.scheduled[d]
    BY <1>1, <1>3 DEF Removed, Without, QueueSets
<1>7. QED BY <1>1, <1>3, <1>5, <1>6


\* No yield is skipped that has something to do (SkippedYieldsAreIdle).
Counted(s) ==
    \A t \in s.fresh : s.state[t] = "Runnable" =>
        /\ s.core[t] \in Cores
        /\ \A u \in Threads : Active(s, u, s.core[t]) /\ s.prio[u] = s.prio[t] => u = t

\* r differs from s in nothing but the queues, the count of the yields and the
\* request to recompute the decision.
SameButQueuing(s, r) ==
    /\ r.state = s.state /\ r.prio = s.prio /\ r.ideal = s.ideal /\ r.core = s.core
    /\ r.mask = s.mask /\ r.virtual = s.virtual
    /\ r.highest = s.highest /\ r.pinned = s.pinned /\ r.kernelWaiters = s.kernelWaiters
    /\ r.stores = s.stores

\* s is the state before an operation on t, m the state with its attributes
\* changed and r the one with its queues adjusted.
Requeued(s, m, r, t) ==
    /\ r \in Contexts /\ Queued(r) /\ SameButQueuing(m, r)
    /\ \/ r = m /\ s.state[t] # "Runnable" /\ m.state[t] # "Runnable"
       \/ r.update /\ r.fresh = {}

LEMMA QueuedFrom ==
    ASSUME NEW m, NEW r, SameButQueuing(m, r), Held(r.scheduled, r.suggested, m)
    PROVE  Queued(r)
<1>1. \A c \in Cores, q \in Priorities :
         ScheduledAt(r, c, q) = ScheduledAt(m, c, q) /\ SuggestedAt(r, c, q) = SuggestedAt(m, c, q)
    BY DEF SameButQueuing, ScheduledAt, SuggestedAt, SuggestedCores
<1>2. QED BY <1>1 DEF Held, Queued

LEMMA AffinityKeeps ==
    ASSUME NEW s \in Contexts, Queued(s), Placed(s), NEW t \in Threads,
           NEW m \in Contexts, Placed(m), AgreeBut(s, m, t),
           m.scheduled = s.scheduled, m.suggested = s.suggested,
           m.state[t] = s.state[t], m.prio[t] = s.prio[t]
    PROVE  Requeued(s, m, OnThreadAffinityMaskChanged(m, t, s.mask[t], s.core[t]), t)
<1>1. PICK r : r = OnThreadAffinityMaskChanged(m, t, s.mask[t], s.core[t])
    OBVIOUS
<1>2. CASE m.state[t] # "Runnable"
  <2>1. r = m
    BY <1>1, <1>2 DEF OnThreadAffinityMaskChanged
  <2>2. Held(s.scheduled, s.suggested, s)
    BY DEF Held, Queued
  <2>3. HeldBut(s.scheduled, s.suggested, s, t)
    BY <1>2, <2>2, LeftOut
  <2>4. HeldBut(s.scheduled, s.suggested, m, t)
    BY <2>3, OthersHeld
  <2>5. Held(m.scheduled, m.suggested, m)
    BY <1>2, <2>4, LeftOut
  <2>6. Queued(m)
    BY <2>5 DEF Held, Queued
  <2>7. QED BY <1>1, <1>2, <2>1, <2>6 DEF Requeued, SameButQueuing
<1>3. CASE m.state[t] = "Runnable"
  <2>1. PICK p, gone, lost, A, B :
           /\ p = s.prio[t] /\ gone = s.mask[t] \cap {s.core[t]} /\ lost = s.mask[t] \ {s.core[t]}
           /\ A = Removed(s.scheduled, gone, p, t) /\ B = Removed(s.suggested, lost, p, t)
    OBVIOUS
  <2>2. /\ \A c \in Cores : c \in gone <=> c = s.core[t]
        /\ \A c \in Cores : c \in lost <=> c \in SuggestedCores(s, t)
    BY <2>1, ConstantsMakeSense DEF Placed, SuggestedCores
  <2>3. A \in QueueSets /\ B \in QueueSets /\ HeldBut(A, B, s, t)
    BY <1>3, <2>1, <2>2, Unqueued
  <2>4. HeldBut(A, B, m, t)
    BY <2>3, OthersHeld
  <2>5. PICK home, away, X, Z :
           /\ home = m.mask[t] \cap {m.core[t]} /\ away = SuggestedCores(m, t)
           /\ X = Appended(A, home, p, t) /\ Z = Appended(B, away, p, t)
    OBVIOUS
  <2>6. /\ \A c \in Cores : c \in home <=> c = m.core[t]
        /\ \A c \in Cores : c \in away <=> c \in SuggestedCores(m, t)
    BY <2>5, ConstantsMakeSense DEF Placed
  <2>7. m.core \in [Threads -> CoreIds] /\ m.prio[t] \in Priorities /\ m.prio[t] = p
    BY <2>1 DEF Contexts
  <2>8. X \in QueueSets /\ Z \in QueueSets /\ Held(X, Z, m)
    BY <1>3, <2>3, <2>4, <2>5, <2>6, <2>7, Enqueued
  <2>9. r = Rescheduled([m EXCEPT !.scheduled = X, !.suggested = Z])
    BY <1>1, <1>3, <2>1, <2>5, <2>7 DEF OnThreadAffinityMaskChanged
  <2>10. /\ r \in Contexts /\ SameButQueuing(m, r)
         /\ r.scheduled = X /\ r.suggested = Z /\ r.update /\ r.fresh = {}
    BY <2>8, <2>9 DEF Rescheduled, SetSchedulerUpdateNeeded,
        IncrementScheduledCount, Contexts, SameButQueuing
  <2>11. Queued(r)
    BY <2>8, <2>10, QueuedFrom
  <2>12. QED BY <1>1, <2>10, <2>11 DEF Requeued
<1>4. QED BY <1>2, <1>3

LEMMA SetStateKeeps ==
    ASSUME NEW s \in Contexts, Queued(s), NEW t \in Threads, NEW new \in States
    PROVE  LET m == [s EXCEPT !.state[t] = new]
           IN  /\ m \in Contexts
               /\ \/ SetState(s, t, new) = s /\ s.state[t] = "Runnable" /\ new = "Runnable"
                  \/ Requeued(s, m, SetState(s, t, new), t)
<1>1. PICK m, r : m = [s EXCEPT !.state[t] = new] /\ r = SetState(s, t, new)
    OBVIOUS
<1>2. /\ m \in Contexts /\ AgreeBut(s, m, t) /\ m.state[t] = new
      /\ m.scheduled = s.scheduled /\ m.suggested = s.suggested
      /\ m.prio = s.prio /\ m.core = s.core /\ m.mask = s.mask
    BY <1>1 DEF Contexts, AgreeBut
<1>3. r = OnThreadStateChanged(m, t, s.state[t])
    BY <1>1 DEF SetState
<1>4. PICK p, home, away : p = s.prio[t] /\ home = s.core[t] /\ away = SuggestedCores(s, t)
    OBVIOUS
<1>5. m.core \in [Threads -> CoreIds] /\ p \in Priorities /\ away = SuggestedCores(m, t)
    BY <1>2, <1>4 DEF Contexts, SuggestedCores
<1>6. CASE s.state[t] = "Runnable" /\ new # "Runnable"
  <2>1. PICK A, B : A = Removed(s.scheduled, {home}, p, t) /\ B = Removed(s.suggested, away, p, t)
    OBVIOUS
  <2>2. A \in QueueSets /\ B \in QueueSets /\ HeldBut(A, B, s, t)
    BY <1>4, <1>6, <2>1, Unqueued
  <2>3. HeldBut(A, B, m, t)
    BY <1>2, <2>2, OthersHeld
  <2>4. Held(A, B, m)
    BY <1>2, <1>6, <2>3, LeftOut
  <2>5. r = Rescheduled([m EXCEPT !.scheduled = A, !.suggested = B])
    BY <1>2, <1>3, <1>4, <1>5, <1>6, <2>1 DEF OnThreadStateChanged, RemoveThread
  <2>6. /\ r \in Contexts /\ SameButQueuing(m, r)
        /\ r.scheduled = A /\ r.suggested = B /\ r.update /\ r.fresh = {}
    BY <1>2, <2>2, <2>5 DEF Rescheduled, SetSchedulerUpdateNeeded,
        IncrementScheduledCount, Contexts, SameButQueuing
  <2>7. Queued(r)
    BY <2>4, <2>6, QueuedFrom
  <2>8. QED BY <1>1, <1>2, <2>6, <2>7 DEF Requeued
<1>7. CASE s.state[t] # "Runnable" /\ new = "Runnable"
  <2>1. PICK A, B, S, G : /\ S = s.scheduled /\ G = s.suggested
                          /\ A = Appended(S, {home}, p, t) /\ B = Appended(G, away, p, t)
    OBVIOUS
  <2>2. Held(s.scheduled, s.suggested, s)
    BY DEF Held, Queued
  <2>3. HeldBut(s.scheduled, s.suggested, s, t)
    BY <1>7, <2>2, LeftOut
  <2>4. HeldBut(S, G, m, t)
    BY <1>2, <2>1, <2>3, OthersHeld
  <2>5. S \in QueueSets /\ G \in QueueSets
    BY <2>1 DEF Contexts
  <2>6. m.state[t] = "Runnable" /\ m.prio[t] = p /\ m.core[t] = home
    BY <1>2, <1>4, <1>7
  <2>7. A \in QueueSets /\ B \in QueueSets /\ Held(A, B, m)
    <3>1. /\ \A c \in Cores : c \in {home} <=> c = m.core[t]
          /\ \A c \in Cores : c \in away <=> c \in SuggestedCores(m, t)
      BY <1>5, <2>6
    <3>2. m.prio[t] \in Priorities
      BY <1>5, <2>6
    <3>3. /\ Appended(S, {home}, m.prio[t], t) \in QueueSets
          /\ Appended(G, away, m.prio[t], t) \in QueueSets
          /\ Held(Appended(S, {home}, m.prio[t], t), Appended(G, away, m.prio[t], t), m)
      BY <1>5, <2>4, <2>5, <2>6, <3>1, <3>2, Enqueued
    <3>4. QED BY <2>1, <2>6, <3>3
  <2>8. r = Rescheduled([m EXCEPT !.scheduled = A, !.suggested = B])
    BY <1>2, <1>3, <1>4, <1>5, <1>7, <2>1 DEF OnThreadStateChanged, PushBack
  <2>9. /\ r \in Contexts /\ SameButQueuing(m, r)
        /\ r.scheduled = A /\ r.suggested = B /\ r.update /\ r.fresh = {}
    BY <1>2, <2>7, <2>8 DEF Rescheduled, SetSchedulerUpdateNeeded,
        IncrementScheduledCount, Contexts, SameButQueuing
  <2>10. Queued(r)
    BY <2>7, <2>9, QueuedFrom
  <2>11. QED BY <1>1, <1>2, <2>9, <2>10 DEF Requeued
<1>8. CASE s.state[t] = "Runnable" /\ new = "Runnable"
  <2>1. m = s
    BY <1>1, <1>8 DEF Contexts
  <2>2. r = s
    BY <1>3, <1>8, <2>1 DEF OnThreadStateChanged
  <2>3. QED BY <1>1, <1>2, <1>8, <2>2
<1>9. CASE s.state[t] # "Runnable" /\ new # "Runnable"
  <2>1. r = m
    BY <1>2, <1>3, <1>9 DEF OnThreadStateChanged
  <2>2. HeldBut(s.scheduled, s.suggested, s, t)
    BY <1>9, LeftOut DEF Held, Queued
  <2>3. HeldBut(s.scheduled, s.suggested, m, t)
    BY <1>2, <2>2, OthersHeld
  <2>4. Held(m.scheduled, m.suggested, m)
    BY <1>2, <1>9, <2>3, LeftOut
  <2>5. Queued(m)
    BY <2>4 DEF Held, Queued
  <2>6. QED BY <1>1, <1>2, <1>9, <2>1, <2>5 DEF Requeued, SameButQueuing
<1>10. QED BY <1>6, <1>7, <1>8, <1>9

LEMMA SetPriorityKeeps ==
    ASSUME NEW s \in Contexts, Queued(s), NEW t \in Threads, NEW new \in Priorities,
           NEW running \in BOOLEAN
    PROVE  LET m == [s EXCEPT !.prio[t] = new]
           IN  /\ m \in Contexts
               /\ \/ SetPriority(s, t, new, running) = s /\ new = s.prio[t]
                  \/ Requeued(s, m, SetPriority(s, t, new, running), t)
<1>1. PICK m, r : m = [s EXCEPT !.prio[t] = new] /\ r = SetPriority(s, t, new, running)
    OBVIOUS
<1>2. /\ m \in Contexts /\ AgreeBut(s, m, t) /\ m.prio[t] = new
      /\ m.scheduled = s.scheduled /\ m.suggested = s.suggested
      /\ m.state = s.state /\ m.core = s.core /\ m.mask = s.mask
    BY <1>1 DEF Contexts, AgreeBut
<1>3. CASE new = s.prio[t]
  <2>1. r = s
    BY <1>1, <1>3 DEF SetPriority
  <2>2. QED BY <1>1, <1>2, <1>3, <2>1
<1>4. ASSUME new # s.prio[t] PROVE Requeued(s, m, r, t)
  <2>1. r = OnThreadPriorityChanged(m, t, s.prio[t], running)
    BY <1>1, <1>4 DEF SetPriority
  <2>2. CASE s.state[t] # "Runnable"
    <3>1. r = m
      BY <1>2, <2>1, <2>2 DEF OnThreadPriorityChanged
    <3>2. HeldBut(s.scheduled, s.suggested, s, t)
      BY <2>2, LeftOut DEF Held, Queued
    <3>3. HeldBut(s.scheduled, s.suggested, m, t)
      BY <1>2, <3>2, OthersHeld
    <3>4. Held(m.scheduled, m.suggested, m)
      BY <1>2, <2>2, <3>3, LeftOut
    <3>5. Queued(m)
      BY <3>4 DEF Held, Queued
    <3>6. QED BY <1>2, <2>2, <3>1, <3>5 DEF Requeued, SameButQueuing
  <2>3. CASE s.state[t] = "Runnable"
    <3>1. PICK p, home, away, A, B, X, Y, Z, N :
             /\ p = s.prio[t] /\ home = s.core[t] /\ away = SuggestedCores(s, t)
             /\ A = Removed(s.scheduled, {home}, p, t) /\ B = Removed(s.suggested, away, p, t)
             /\ X = Appended(A, {home}, new, t) /\ Y = Prepended(A, {home}, new, t)
             /\ Z = Appended(B, away, new, t) /\ N = IF running THEN Y ELSE X
      OBVIOUS
    <3>2. A \in QueueSets /\ B \in QueueSets /\ HeldBut(A, B, s, t)
      BY <2>3, <3>1, Unqueued
    <3>3. HeldBut(A, B, m, t)
      BY <1>2, <3>2, OthersHeld
    <3>4. /\ m.core \in [Threads -> CoreIds] /\ away = SuggestedCores(m, t) /\ m.core[t] = home
          /\ m.state[t] = "Runnable" /\ m.prio[t] \in Priorities
      BY <1>2, <2>3, <3>1 DEF Contexts, SuggestedCores
    <3>5. /\ X \in QueueSets /\ Y \in QueueSets /\ Z \in QueueSets
          /\ Held(X, Z, m) /\ Held(Y, Z, m)
      <4>1. /\ \A c \in Cores : c \in {home} <=> c = m.core[t]
            /\ \A c \in Cores : c \in away <=> c \in SuggestedCores(m, t)
        BY <3>4
      <4>2. /\ Appended(A, {home}, m.prio[t], t) \in QueueSets
            /\ Prepended(A, {home}, m.prio[t], t) \in QueueSets
            /\ Appended(B, away, m.prio[t], t) \in QueueSets
            /\ Held(Appended(A, {home}, m.prio[t], t), Appended(B, away, m.prio[t], t), m)
            /\ Held(Prepended(A, {home}, m.prio[t], t), Appended(B, away, m.prio[t], t), m)
        BY <3>2, <3>3, <3>4, <4>1, Enqueued
      <4>3. QED BY <1>2, <3>1, <4>2
    <3>6. N \in QueueSets /\ Held(N, Z, m)
      BY <3>1, <3>5
    <3>7. r = Rescheduled([m EXCEPT !.scheduled = N, !.suggested = Z])
      <4>1. PICK out : out = RemoveThread(m, p, t)
        OBVIOUS
      <4>2. /\ out = [m EXCEPT !.scheduled = A, !.suggested = B]
        BY <1>2, <3>1, <3>4, <4>1 DEF RemoveThread
      <4>3. /\ out.scheduled = A /\ out.suggested = B /\ out.core = m.core /\ out.prio = m.prio
            /\ SuggestedCores(out, t) = away
        BY <1>2, <3>4, <4>2 DEF Contexts, SuggestedCores
      <4>4. /\ PushFront(out, new, t) = [out EXCEPT !.scheduled = Y, !.suggested = Z]
            /\ PushBack(out, new, t) = [out EXCEPT !.scheduled = X, !.suggested = Z]
        BY <3>1, <3>4, <4>3 DEF PushFront, PushBack
      <4>5. /\ [out EXCEPT !.scheduled = Y, !.suggested = Z] = [m EXCEPT !.scheduled = Y, !.suggested = Z]
            /\ [out EXCEPT !.scheduled = X, !.suggested = Z] = [m EXCEPT !.scheduled = X, !.suggested = Z]
        BY <1>2, <4>2 DEF Contexts
      <4>6. r = Rescheduled(IF running THEN PushFront(out, new, t) ELSE PushBack(out, new, t))
        BY <1>2, <2>1, <2>3, <3>1, <4>1 DEF OnThreadPriorityChanged
      <4>7. QED BY <3>1, <4>4, <4>5, <4>6
    <3>8. /\ r \in Contexts /\ SameButQueuing(m, r)
          /\ r.scheduled = N /\ r.suggested = Z /\ r.update /\ r.fresh = {}
      BY <1>2, <3>5, <3>6, <3>7 DEF Rescheduled, SetSchedulerUpdateNeeded,
        IncrementScheduledCount, Contexts, SameButQueuing
    <3>9. Queued(r)
      BY <3>6, <3>8, QueuedFrom
    <3>10. QED BY <3>8, <3>9 DEF Requeued
  <2>4. QED BY <2>2, <2>3
<1>5. QED BY <1>1, <1>2, <1>3, <1>4

-----------------------------------------------------------------------------
(* What is true of the state between two operations *)

\* What the operations need, but for the affinities.
Sound(s) == s \in Contexts /\ Queued(s) /\ Placed(s) /\ Counted(s)

\* A pinned thread may use no other core; the others have their own mask.
Bound(s) ==
    /\ \A t \in Threads : s.ideal[t] \in s.virtual[t] \cup {NoCore}
    /\ \A c \in Cores : s.pinned[c] # Null =>
          s.core[s.pinned[c]] = c /\ s.mask[s.pinned[c]] = {c}
    /\ \A t \in Threads : ~IsPinned(s, t) => s.mask[t] = s.virtual[t]

Ready(s) == Sound(s) /\ Bound(s)

\* Nothing the decision depends on is different.
SameQueued(s, r) ==
    /\ r.pinned = s.pinned
    /\ \A t \in Threads :
          /\ r.state[t] = "Runnable" <=> s.state[t] = "Runnable"
          /\ s.state[t] = "Runnable" =>
                r.prio[t] = s.prio[t] /\ r.core[t] = s.core[t] /\ r.mask[t] = s.mask[t]

\* An operation leads from s to r: it decides nothing, and asks for a decision
\* when what the decision depends on is different.
Moves(s, r) ==
    /\ Sound(r) /\ r.highest = s.highest /\ r.stores = s.stores
    /\ s.update => r.update
    /\ r.update \/ SameQueued(s, r)

LEMMA MovesCompose ==
    ASSUME NEW s, NEW q, NEW r, Moves(s, q), Moves(q, r)
    PROVE  Moves(s, r)
BY DEF Moves, SameQueued

LEMMA MovesNowhere ==
    ASSUME NEW s, Sound(s)
    PROVE  Moves(s, s)
BY DEF Moves, SameQueued

LEMMA RequeuedMoves ==
    ASSUME NEW s, Sound(s), NEW t \in Threads, NEW m \in Contexts, Placed(m), AgreeBut(s, m, t),
           m.highest = s.highest, m.fresh = s.fresh, m.update = s.update,
           m.stores = s.stores, NEW r, Requeued(s, m, r, t)
    PROVE  Sound(r) /\ r.highest = s.highest /\ r.stores = s.stores /\ (m.pinned = s.pinned => Moves(s, r))
<1>1. r \in Contexts /\ Queued(r) /\ SameButQueuing(m, r)
    BY DEF Requeued
<1>2. Placed(r) /\ r.stores = s.stores /\ r.highest = s.highest
    BY <1>1 DEF SameButQueuing, Placed, Sound
<1>3. CASE r = m /\ s.state[t] # "Runnable" /\ m.state[t] # "Runnable"
  <2>1. \A u \in Threads : \A c : Active(m, u, c) <=> Active(s, u, c)
    BY <1>3 DEF AgreeBut, Active
  <2>2. \A u \in Threads : m.state[u] = "Runnable" => u # t /\ s.state[u] = "Runnable"
                            /\ m.core[u] = s.core[u] /\ m.prio[u] = s.prio[u]
    BY <1>3 DEF AgreeBut
  <2>3. s.fresh \subseteq Threads
    BY DEF Sound, Contexts
  <2>4. Counted(m)
    BY <2>1, <2>2, <2>3 DEF Sound, Counted, Active
  <2>5. m.pinned = s.pinned => SameQueued(s, m)
    BY <1>3 DEF AgreeBut, SameQueued
  <2>6. QED BY <1>1, <1>2, <1>3, <2>4, <2>5 DEF Moves, Sound
<1>4. CASE r.update /\ r.fresh = {}
  <2>1. Counted(r)
    BY <1>4 DEF Counted
  <2>2. QED BY <1>1, <1>2, <1>4, <2>1 DEF Moves, Sound
<1>5. QED BY <1>3, <1>4 DEF Requeued

LEMMA BoundFrom ==
    ASSUME NEW s, Bound(s), NEW r, r.ideal = s.ideal, r.virtual = s.virtual, r.core = s.core,
           r.mask = s.mask, r.pinned = s.pinned
    PROVE  Bound(r)
BY DEF Bound, IsPinned

LEMMA SetStateMoves ==
    ASSUME NEW s, Ready(s), NEW t \in Threads, NEW new \in States
    PROVE  LET r == SetState(s, t, new)
           IN  /\ Moves(s, r) /\ Ready(r)
               /\ r.state = [s.state EXCEPT ![t] = new]
               /\ r.prio = s.prio /\ r.core = s.core /\ r.mask = s.mask /\ r.pinned = s.pinned
               /\ new # s.state[t] /\ "Runnable" \in {new, s.state[t]} => r.update
<1>1. PICK m, r : m = [s EXCEPT !.state[t] = new] /\ r = SetState(s, t, new)
    OBVIOUS
<1>2. Sound(s) /\ Bound(s) /\ s \in Contexts /\ Queued(s) /\ Placed(s)
    BY DEF Ready, Sound
<1>3. /\ m \in Contexts /\ AgreeBut(s, m, t)
      /\ m.state = [s.state EXCEPT ![t] = new] /\ m.state[t] = new
      /\ m.prio = s.prio /\ m.core = s.core /\ m.mask = s.mask /\ m.ideal = s.ideal
      /\ m.virtual = s.virtual /\ m.pinned = s.pinned /\ m.highest = s.highest
      /\ m.fresh = s.fresh /\ m.update = s.update /\ m.stores = s.stores
    BY <1>1, <1>2 DEF Contexts, AgreeBut
<1>4. Placed(m) /\ Bound(m)
    BY <1>2, <1>3, BoundFrom DEF Placed
<1>5. CASE r = s /\ s.state[t] = "Runnable" /\ new = "Runnable"
  <2>1. Moves(s, s)
    BY <1>2, MovesNowhere
  <2>2. s.state = [s.state EXCEPT ![t] = new]
    BY <1>2, <1>5 DEF Contexts
  <2>3. QED BY <1>1, <1>5, <2>1, <2>2
<1>6. CASE Requeued(s, m, r, t)
  <2>1. Moves(s, r)
    BY <1>2, <1>3, <1>4, <1>6, RequeuedMoves
  <2>2. SameButQueuing(m, r)
    BY <1>6 DEF Requeued
  <2>3. Bound(r)
    BY <1>4, <2>2, BoundFrom DEF SameButQueuing
  <2>4. Ready(r)
    BY <2>1, <2>3 DEF Ready, Moves
  <2>5. new # s.state[t] /\ "Runnable" \in {new, s.state[t]} => r.update
    BY <1>3, <1>6 DEF Requeued
  <2>6. QED BY <1>1, <1>3, <2>1, <2>2, <2>4, <2>5 DEF SameButQueuing
<1>7. QED BY <1>1, <1>2, <1>5, <1>6, SetStateKeeps

LEMMA SetPriorityMoves ==
    ASSUME NEW s, Ready(s), NEW t \in Threads, NEW new \in Priorities, NEW running \in BOOLEAN
    PROVE  LET r == SetPriority(s, t, new, running)
           IN  /\ Moves(s, r) /\ Ready(r)
               /\ r.state = s.state /\ r.core = s.core /\ r.mask = s.mask /\ r.pinned = s.pinned
<1>1. PICK m, r : m = [s EXCEPT !.prio[t] = new] /\ r = SetPriority(s, t, new, running)
    OBVIOUS
<1>2. Sound(s) /\ Bound(s) /\ s \in Contexts /\ Queued(s) /\ Placed(s)
    BY DEF Ready, Sound
<1>3. /\ m \in Contexts /\ AgreeBut(s, m, t)
      /\ m.state = s.state /\ m.core = s.core /\ m.mask = s.mask /\ m.ideal = s.ideal
      /\ m.virtual = s.virtual /\ m.pinned = s.pinned /\ m.highest = s.highest
      /\ m.fresh = s.fresh /\ m.update = s.update /\ m.stores = s.stores
    BY <1>1, <1>2 DEF Contexts, AgreeBut
<1>4. Placed(m) /\ Bound(m)
    BY <1>2, <1>3, BoundFrom DEF Placed
<1>5. CASE r = s
  <2>1. Moves(s, s)
    BY <1>2, MovesNowhere
  <2>2. QED BY <1>1, <1>5, <2>1
<1>6. CASE Requeued(s, m, r, t)
  <2>1. Moves(s, r)
    BY <1>2, <1>3, <1>4, <1>6, RequeuedMoves
  <2>2. SameButQueuing(m, r)
    BY <1>6 DEF Requeued
  <2>3. Bound(r)
    BY <1>4, <2>2, BoundFrom DEF SameButQueuing
  <2>4. Ready(r)
    BY <2>1, <2>3 DEF Ready, Moves
  <2>5. QED BY <1>1, <1>3, <2>1, <2>2, <2>4 DEF SameButQueuing
<1>7. QED BY <1>1, <1>2, <1>5, <1>6, SetPriorityKeeps

\* A thread has a core to fall back to.
LEMMA FallbackCoreIs ==
    ASSUME NEW s \in Contexts, NEW t \in Threads, s.ideal[t] \in s.mask[t] \cup {NoCore}
    PROVE  FallbackCore(s, t) \in s.mask[t]
<1>1. s.mask[t] \in SUBSET Cores /\ s.mask[t] # {}
    BY DEF Contexts, Masks
<1>2. CASE s.ideal[t] # NoCore
    BY <1>2 DEF FallbackCore
<1>3. CASE s.ideal[t] = NoCore
  <2>1. PICK S : S = s.mask[t]
    OBVIOUS
  <2>2. NumCores - 1 \in Nat /\ S \in SUBSET (0 .. NumCores - 1) /\ S # {}
    BY <1>1, <2>1, ConstantsMakeSense DEF Cores
  <2>3. Max(S) \in S /\ \A d \in S : d <= Max(S)
    BY <2>2, MaxOfNaturals
  <2>4. \E c \in S : \A d \in S : d <= c
    BY <2>3
  <2>5. (CHOOSE c \in S : \A d \in S : d <= c) \in S
    BY <2>4
  <2>6. QED BY <1>3, <2>1, <2>5 DEF FallbackCore
<1>4. QED BY <1>2, <1>3

LEMMA ChangeMaskMoves ==
    ASSUME NEW s, Sound(s), NEW t \in Threads, NEW new \in Masks, s.ideal[t] \in new \cup {NoCore}
    PROVE  LET r == ChangeMask(s, t, new)
           IN  /\ Moves(s, r)
               /\ r.mask = [s.mask EXCEPT ![t] = new]
               /\ \A u \in Threads \ {t} : r.core[u] = s.core[u]
               /\ \A u \in Threads : s.core[u] \in Cores => r.core[u] \in Cores
               /\ r.ideal = s.ideal /\ r.virtual = s.virtual /\ r.pinned = s.pinned
               /\ r.state = s.state /\ r.prio = s.prio
<1>1. PICK masked, m, r :
         /\ masked = [s EXCEPT !.mask[t] = new]
         /\ m = IF s.core[t] = NoCore \/ s.core[t] \in new THEN masked
                ELSE [masked EXCEPT !.core[t] = FallbackCore(masked, t)]
         /\ r = ChangeMask(s, t, new)
    OBVIOUS
<1>2. s \in Contexts /\ Queued(s) /\ Placed(s)
    BY DEF Sound
<1>3. CASE new = s.mask[t]
  <2>1. r = s
    BY <1>1, <1>3 DEF ChangeMask
  <2>2. s.mask = [s.mask EXCEPT ![t] = new]
    BY <1>2, <1>3 DEF Contexts
  <2>3. Moves(s, s)
    BY MovesNowhere
  <2>4. QED BY <1>1, <2>1, <2>2, <2>3
<1>4. CASE new # s.mask[t]
  <2>1. /\ masked \in Contexts /\ masked.mask[t] = new /\ masked.ideal = s.ideal
    BY <1>1, <1>2 DEF Contexts
  <2>2. FallbackCore(masked, t) \in new /\ FallbackCore(masked, t) \in CoreIds
    <3>1. FallbackCore(masked, t) \in new
      BY <2>1, FallbackCoreIs
    <3>2. QED BY <3>1 DEF Masks, CoreIds
  <2>3. PICK c : c = IF s.core[t] = NoCore \/ s.core[t] \in new THEN s.core[t]
                     ELSE FallbackCore(masked, t)
    OBVIOUS
  <2>4. c \in CoreIds /\ c \in new \cup {NoCore} /\ (s.core[t] \in Cores => c \in Cores)
    BY <1>2, <2>2, <2>3, ConstantsMakeSense DEF Contexts, Masks, CoreIds
  <2>5. m = [s EXCEPT !.mask[t] = new, !.core[t] = c]
    BY <1>1, <1>2, <2>3 DEF Contexts
  <2>6. /\ m \in Contexts /\ AgreeBut(s, m, t)
        /\ m.mask = [s.mask EXCEPT ![t] = new] /\ m.core = [s.core EXCEPT ![t] = c]
        /\ m.scheduled = s.scheduled /\ m.suggested = s.suggested
        /\ m.state = s.state /\ m.prio = s.prio /\ m.ideal = s.ideal
        /\ m.virtual = s.virtual /\ m.pinned = s.pinned /\ m.highest = s.highest
        /\ m.fresh = s.fresh /\ m.update = s.update /\ m.stores = s.stores
    BY <1>2, <2>4, <2>5 DEF Contexts, AgreeBut
  <2>7. /\ s.core \in [Threads -> CoreIds] /\ s.mask \in [Threads -> Masks]
    BY <1>2 DEF Contexts
  <2>8. Placed(m)
    BY <1>2, <2>4, <2>6, <2>7 DEF Placed
  <2>9. r = OnThreadAffinityMaskChanged(m, t, s.mask[t], s.core[t])
    BY <1>1, <1>4 DEF ChangeMask
  <2>10. Requeued(s, m, r, t)
    BY <1>2, <2>6, <2>8, <2>9, AffinityKeeps
  <2>11. Moves(s, r)
    BY <2>6, <2>8, <2>10, RequeuedMoves
  <2>12. SameButQueuing(m, r)
    BY <2>10 DEF Requeued
  <2>13. QED BY <1>1, <2>4, <2>6, <2>7, <2>11, <2>12 DEF SameButQueuing
<1>5. QED BY <1>3, <1>4

LEMMA SetCoreMaskMoves ==
    ASSUME NEW s, Ready(s), NEW t \in Threads, NEW arg \in CoreMaskArgs
    PROVE  LET r == SetCoreMask(s, t, arg[1], arg[2])
           IN  /\ Moves(s, r) /\ Ready(r)
               /\ r.state = s.state /\ r.prio = s.prio /\ r.pinned = s.pinned
               /\ \A u \in Threads : s.core[u] \in Cores => r.core[u] \in Cores
<1>1. PICK id, m, new, r :
         /\ id = arg[1] /\ m = arg[2]
         /\ new = [s EXCEPT !.ideal[t] = IF id = NoUpdate THEN @ ELSE id, !.virtual[t] = m]
         /\ r = SetCoreMask(s, t, id, m)
    OBVIOUS
<1>2. m \in Masks /\ id \in m \cup {NoCore, NoUpdate}
    BY <1>1, CoreMasksAreValid DEF Masks, Cores, NoCore, NoUpdate
<1>3. Sound(s) /\ Bound(s) /\ s \in Contexts
    BY DEF Ready, Sound
<1>4. CASE id = NoUpdate /\ s.ideal[t] \notin m
  <2>1. r = s
    BY <1>1, <1>4 DEF SetCoreMask
  <2>2. QED BY <1>1, <1>3, <2>1, MovesNowhere
<1>5. CASE ~(id = NoUpdate /\ s.ideal[t] \notin m)
  <2>1. PICK i : i = IF id = NoUpdate THEN s.ideal[t] ELSE id
    OBVIOUS
  <2>2. i \in m \cup {NoCore} /\ i \in CoreIds
    BY <1>2, <1>5, <2>1 DEF Masks, CoreIds
  <2>3. new = [s EXCEPT !.ideal[t] = i, !.virtual[t] = m]
    BY <1>1, <1>3, <2>1 DEF Contexts
  <2>4. /\ new \in Contexts
        /\ new.ideal = [s.ideal EXCEPT ![t] = i] /\ new.virtual = [s.virtual EXCEPT ![t] = m]
        /\ new.mask = s.mask /\ new.core = s.core
        /\ new.scheduled = s.scheduled /\ new.suggested = s.suggested
        /\ new.state = s.state /\ new.prio = s.prio
        /\ new.pinned = s.pinned /\ new.highest = s.highest
        /\ new.fresh = s.fresh /\ new.update = s.update /\ new.stores = s.stores
    BY <1>2, <1>3, <2>2, <2>3 DEF Contexts
  <2>5. /\ s.ideal \in [Threads -> CoreIds] /\ s.virtual \in [Threads -> Masks]
        /\ s.mask \in [Threads -> Masks]
    BY <1>3 DEF Contexts
  <2>6. new.ideal[t] \in m \cup {NoCore} /\ new.virtual[t] = m
    BY <2>2, <2>4, <2>5
  <2>7. Sound(new) /\ Moves(s, new)
    <3>1. Queued(new)
      <4>1. \A c \in Cores, q \in Priorities :
               /\ ScheduledAt(new, c, q) = ScheduledAt(s, c, q)
               /\ SuggestedAt(new, c, q) = SuggestedAt(s, c, q)
        BY <2>4 DEF ScheduledAt, SuggestedAt, SuggestedCores
      <4>2. QED BY <1>3, <2>4, <4>1 DEF Sound, Queued
    <3>2. Placed(new) /\ Counted(new)
      BY <1>3, <2>4 DEF Sound, Placed, Counted, Active
    <3>3. SameQueued(s, new)
      BY <2>4 DEF SameQueued
    <3>4. QED BY <1>3, <2>4, <3>1, <3>2, <3>3 DEF Sound, Moves
  <2>8. /\ \A u \in Threads : new.ideal[u] \in new.virtual[u] \cup {NoCore}
        /\ \A u \in Threads \ {t} : new.virtual[u] = s.virtual[u]
        /\ \A u \in Threads : IsPinned(new, u) <=> IsPinned(s, u)
    BY <1>3, <2>4, <2>5, <2>6 DEF Bound, IsPinned
  <2>9. CASE IsPinned(s, t)
    <3>1. r = new
      BY <1>1, <1>5, <2>9 DEF SetCoreMask
    <3>2. Bound(new)
      BY <1>3, <2>4, <2>8, <2>9 DEF Bound
    <3>3. QED BY <1>1, <2>4, <2>7, <3>1, <3>2 DEF Ready
  <2>10. CASE ~IsPinned(s, t)
    <3>1. r = ChangeMask(new, t, m)
      BY <1>1, <1>5, <2>10 DEF SetCoreMask
    <3>2. /\ Moves(new, r)
          /\ r.mask = [new.mask EXCEPT ![t] = m]
          /\ \A u \in Threads \ {t} : r.core[u] = new.core[u]
          /\ \A u \in Threads : new.core[u] \in Cores => r.core[u] \in Cores
          /\ r.ideal = new.ideal /\ r.virtual = new.virtual /\ r.pinned = new.pinned
          /\ r.state = new.state /\ r.prio = new.prio
      BY <1>2, <2>6, <2>7, <3>1, ChangeMaskMoves
    <3>3. r.mask[t] = m /\ \A u \in Threads \ {t} : r.mask[u] = s.mask[u]
      BY <2>4, <2>5, <3>2
    <3>4. \A u \in Threads : IsPinned(r, u) <=> IsPinned(s, u)
      BY <2>4, <3>2 DEF IsPinned
    <3>5. \A c \in Cores : s.pinned[c] # Null => s.pinned[c] \in Threads \ {t}
      BY <1>3, <2>10 DEF Contexts, Decisions, IsPinned
    <3>6. Bound(r)
      <4>1. \A u \in Threads : ~IsPinned(r, u) => r.mask[u] = r.virtual[u]
        BY <1>3, <2>6, <2>8, <3>2, <3>3, <3>4 DEF Bound
      <4>2. \A c \in Cores : r.pinned[c] # Null =>
               r.core[r.pinned[c]] = c /\ r.mask[r.pinned[c]] = {c}
        BY <1>3, <2>4, <3>2, <3>3, <3>5 DEF Bound
      <4>3. QED BY <2>8, <3>2, <4>1, <4>2 DEF Bound
    <3>7. Moves(s, r)
      BY <2>7, <3>2, MovesCompose
    <3>8. QED BY <1>1, <2>4, <3>2, <3>6, <3>7 DEF Ready, Moves
  <2>11. QED BY <2>9, <2>10
<1>6. QED BY <1>4, <1>5

\* The request to recompute the decision.
LEMMA UpdateRequested ==
    ASSUME NEW s \in Contexts
    PROVE  LET r == SetSchedulerUpdateNeeded(s)
           IN  /\ r \in Contexts /\ r.update /\ SameButQueuing(s, r) /\ r.fresh = s.fresh
               /\ r.scheduled = s.scheduled /\ r.suggested = s.suggested
BY DEF SetSchedulerUpdateNeeded, Contexts, SameButQueuing

LEMMA RequestMoves ==
    ASSUME NEW s, NEW q, Sound(q), q.highest = s.highest, q.stores = s.stores
    PROVE  LET r == SetSchedulerUpdateNeeded(q)
           IN  Moves(s, r) /\ r.update /\ (Bound(q) => Ready(r)) /\ SameButQueuing(q, r)
<1>1. PICK r : r = SetSchedulerUpdateNeeded(q)
    OBVIOUS
<1>2. q \in Contexts
    BY DEF Sound
<1>3. /\ r \in Contexts /\ r.update /\ SameButQueuing(q, r) /\ r.fresh = q.fresh
      /\ r.scheduled = q.scheduled /\ r.suggested = q.suggested
    BY <1>1, <1>2, UpdateRequested
<1>4. Held(r.scheduled, r.suggested, q)
    BY <1>3 DEF Sound, Queued, Held
<1>5. Queued(r)
    BY <1>3, <1>4, QueuedFrom
<1>6. Placed(r) /\ Counted(r)
    BY <1>3 DEF SameButQueuing, Sound, Placed, Counted, Active
<1>7. Moves(s, r)
    BY <1>3, <1>5, <1>6 DEF Moves, Sound, SameButQueuing
<1>8. Bound(q) => Bound(r)
    BY <1>3, BoundFrom DEF SameButQueuing
<1>9. QED BY <1>1, <1>3, <1>7, <1>8 DEF Ready, Moves

LEMMA PinThreadMoves ==
    ASSUME NEW s, Ready(s), NEW t \in Threads, NEW c \in Cores, s.core[t] = c, s.pinned[c] = Null
    PROVE  LET r == PinThread(s, t, c)
           IN  /\ Moves(s, r) /\ Ready(r) /\ r.update
               /\ r.state = s.state /\ r.prio = s.prio /\ r.core = s.core
               /\ r.pinned = [s.pinned EXCEPT ![c] = t]
<1>1. PICK m, q, r :
         /\ m = [s EXCEPT !.pinned[c] = t, !.core[t] = c, !.mask[t] = {c}]
         /\ q = IF s.core[t] # c \/ s.mask[t] # {c}
                THEN OnThreadAffinityMaskChanged(m, t, s.mask[t], s.core[t]) ELSE m
         /\ r = PinThread(s, t, c)
    OBVIOUS
<1>2. Sound(s) /\ Bound(s) /\ s \in Contexts /\ Queued(s) /\ Placed(s) /\ Counted(s)
    BY DEF Ready, Sound
<1>3. {c} \in Masks /\ c \in CoreIds /\ t \in Decisions /\ t # Null
    BY ConstantsMakeSense DEF Masks, CoreIds, Decisions
<1>4. /\ s.pinned \in [Cores -> Decisions] /\ s.mask \in [Threads -> Masks]
      /\ s.core = [s.core EXCEPT ![t] = c]
    BY <1>2 DEF Contexts
<1>5. /\ m \in Contexts /\ m.core = s.core
      /\ m.mask = [s.mask EXCEPT ![t] = {c}] /\ m.pinned = [s.pinned EXCEPT ![c] = t]
      /\ m.scheduled = s.scheduled /\ m.suggested = s.suggested
      /\ m.state = s.state /\ m.prio = s.prio /\ m.ideal = s.ideal
      /\ m.virtual = s.virtual /\ m.highest = s.highest
      /\ m.fresh = s.fresh /\ m.update = s.update /\ m.stores = s.stores
    BY <1>1, <1>2, <1>3, <1>4 DEF Contexts
<1>6. /\ AgreeBut(s, m, t)
      /\ m.mask[t] = {c} /\ \A u \in Threads \ {t} : m.mask[u] = s.mask[u]
      /\ m.pinned[c] = t /\ \A d \in Cores \ {c} : m.pinned[d] = s.pinned[d]
    BY <1>4, <1>5 DEF AgreeBut
<1>7. Placed(m)
    BY <1>2, <1>5, <1>6 DEF Placed
<1>8. Bound(m)
  <2>1. \A d \in Cores \ {c} : s.pinned[d] # Null => s.pinned[d] \in Threads \ {t}
    BY <1>2, <1>4 DEF Bound, Decisions
  <2>2. \A d \in Cores : m.pinned[d] # Null =>
           m.core[m.pinned[d]] = d /\ m.mask[m.pinned[d]] = {d}
    BY <1>2, <1>5, <1>6, <2>1 DEF Bound
  <2>3. \A u \in Threads : ~IsPinned(m, u) => u # t /\ ~IsPinned(s, u)
    BY <1>3, <1>6, ConstantsMakeSense DEF IsPinned
  <2>4. \A u \in Threads : ~IsPinned(m, u) => m.mask[u] = m.virtual[u]
    BY <1>2, <1>5, <1>6, <2>3 DEF Bound
  <2>5. QED BY <1>2, <1>5, <2>2, <2>4 DEF Bound
<1>9. Sound(q) /\ q.highest = s.highest /\ q.stores = s.stores /\ SameButQueuing(m, q)
  <2>1. CASE s.mask[t] # {c}
    <3>1. Requeued(s, m, q, t)
      <4>1. q = OnThreadAffinityMaskChanged(m, t, s.mask[t], s.core[t])
        BY <1>1, <2>1
      <4>2. m.state[t] = s.state[t] /\ m.prio[t] = s.prio[t]
        BY <1>5
      <4>3. QED BY <1>2, <1>5, <1>6, <1>7, <4>1, <4>2, AffinityKeeps
    <3>2. Sound(q) /\ q.highest = s.highest /\ q.stores = s.stores
      BY <1>2, <1>5, <1>6, <1>7, <3>1, RequeuedMoves
    <3>3. QED BY <3>1, <3>2 DEF Requeued
  <2>2. CASE s.mask[t] = {c}
    <3>1. q = m /\ m.mask = s.mask
      BY <1>1, <1>4, <1>5, <2>2
    <3>2. \A d \in Cores, p \in Priorities :
             ScheduledAt(m, d, p) = ScheduledAt(s, d, p) /\ SuggestedAt(m, d, p) = SuggestedAt(s, d, p)
      BY <1>5, <3>1 DEF ScheduledAt, SuggestedAt, SuggestedCores
    <3>3. Queued(m)
      BY <1>2, <1>5, <3>2 DEF Queued
    <3>4. Counted(m)
      BY <1>2, <1>5 DEF Counted, Active
    <3>5. QED BY <1>2, <1>5, <1>7, <3>1, <3>3, <3>4 DEF Sound, SameButQueuing
  <2>3. QED BY <2>1, <2>2
<1>10. Bound(q)
    BY <1>8, <1>9, BoundFrom DEF SameButQueuing
<1>11. r = SetSchedulerUpdateNeeded(q)
    BY <1>1 DEF PinThread
<1>12. Moves(s, r) /\ Ready(r) /\ r.update /\ SameButQueuing(q, r)
    BY <1>9, <1>10, <1>11, RequestMoves
<1>13. QED BY <1>1, <1>5, <1>9, <1>12 DEF SameButQueuing

LEMMA UnpinThreadMoves ==
    ASSUME NEW s, Ready(s), NEW t \in Threads, NEW c \in Cores, s.pinned[c] = t
    PROVE  LET r == UnpinThread(s, t, c)
           IN  /\ Moves(s, r) /\ Ready(r) /\ r.update
               /\ r.state = s.state /\ r.prio = s.prio
               /\ r.pinned = [s.pinned EXCEPT ![c] = Null]
               /\ \A u \in Threads \ {t} : r.core[u] = s.core[u]
               /\ \A u \in Threads : s.core[u] \in Cores => r.core[u] \in Cores
<1>1. PICK m, v, q, r :
         /\ m = [s EXCEPT !.pinned[c] = Null] /\ v = s.virtual[t]
         /\ q = ChangeMask(m, t, v) /\ r = UnpinThread(s, t, c)
    OBVIOUS
<1>2. Sound(s) /\ Bound(s) /\ s \in Contexts
    BY DEF Ready, Sound
<1>3. v \in Masks /\ s.pinned \in [Cores -> Decisions] /\ s.mask \in [Threads -> Masks]
    BY <1>1, <1>2 DEF Contexts
<1>4. /\ m \in Contexts
      /\ m.core = s.core /\ m.mask = s.mask /\ m.pinned = [s.pinned EXCEPT ![c] = Null]
      /\ m.scheduled = s.scheduled /\ m.suggested = s.suggested
      /\ m.state = s.state /\ m.prio = s.prio /\ m.ideal = s.ideal
      /\ m.virtual = s.virtual /\ m.highest = s.highest
      /\ m.fresh = s.fresh /\ m.update = s.update /\ m.stores = s.stores
    BY <1>1, <1>2 DEF Contexts, Decisions
<1>5. Sound(m)
  <2>1. \A d \in Cores, p \in Priorities :
           ScheduledAt(m, d, p) = ScheduledAt(s, d, p) /\ SuggestedAt(m, d, p) = SuggestedAt(s, d, p)
    BY <1>4 DEF ScheduledAt, SuggestedAt, SuggestedCores
  <2>2. Queued(m)
    BY <1>2, <1>4, <2>1 DEF Sound, Queued
  <2>3. Counted(m) /\ Placed(m)
    BY <1>2, <1>4 DEF Sound, Counted, Active, Placed
  <2>4. QED BY <1>2, <1>4, <2>2, <2>3 DEF Sound
<1>6. m.ideal[t] \in v \cup {NoCore}
    BY <1>1, <1>2, <1>4 DEF Bound
<1>7. /\ Moves(m, q)
      /\ q.mask = [m.mask EXCEPT ![t] = v]
      /\ \A u \in Threads \ {t} : q.core[u] = m.core[u]
      /\ \A u \in Threads : m.core[u] \in Cores => q.core[u] \in Cores
      /\ q.ideal = m.ideal /\ q.virtual = m.virtual /\ q.pinned = m.pinned
      /\ q.state = m.state /\ q.prio = m.prio
  <2>1. q = ChangeMask(m, t, v)
    BY <1>1
  <2>2. QED BY <1>3, <1>5, <1>6, <2>1, ChangeMaskMoves
<1>8. Sound(q) /\ q.highest = s.highest /\ q.stores = s.stores
    BY <1>4, <1>7 DEF Moves
<1>9. Bound(q)
  <2>1. q.mask[t] = v /\ \A u \in Threads \ {t} : q.mask[u] = s.mask[u]
    BY <1>3, <1>4, <1>7
  <2>2. q.pinned[c] = Null /\ \A d \in Cores \ {c} : q.pinned[d] = s.pinned[d]
    BY <1>3, <1>4, <1>7
  <2>3. \A d \in Cores \ {c} : s.pinned[d] # Null => s.pinned[d] \in Threads \ {t}
  <3>1. t # Null
    BY ConstantsMakeSense
  <3>2. s.core[t] = c
    BY <1>2, <3>1 DEF Bound
  <3>3. QED BY <1>2, <1>3, <3>2 DEF Bound, Decisions
  <2>4. \A d \in Cores : q.pinned[d] # Null =>
           q.core[q.pinned[d]] = d /\ q.mask[q.pinned[d]] = {d}
    BY <1>2, <1>4, <1>7, <2>1, <2>2, <2>3 DEF Bound
  <2>5. \A u \in Threads \ {t} : ~IsPinned(q, u) => ~IsPinned(s, u)
    BY <2>2 DEF IsPinned
  <2>6. \A u \in Threads : ~IsPinned(q, u) => q.mask[u] = q.virtual[u]
    BY <1>1, <1>2, <1>4, <1>7, <2>1, <2>5 DEF Bound
  <2>7. QED BY <1>2, <1>4, <1>7, <2>4, <2>6 DEF Bound
<1>10. r = SetSchedulerUpdateNeeded(q)
    BY <1>1 DEF UnpinThread
<1>11. Moves(s, r) /\ Ready(r) /\ r.update /\ SameButQueuing(q, r)
    BY <1>8, <1>9, <1>10, RequestMoves
<1>12. QED BY <1>1, <1>4, <1>7, <1>11 DEF SameButQueuing

LEMMA KernelWaitersMove ==
    ASSUME NEW s, Ready(s), NEW waiters \in SUBSET Threads
    PROVE  LET r == [s EXCEPT !.kernelWaiters = waiters, !.update = TRUE]
           IN  /\ Moves(s, r) /\ Ready(r)
               /\ r.state = s.state /\ r.prio = s.prio /\ r.core = s.core /\ r.pinned = s.pinned
<1>1. PICK r : r = [s EXCEPT !.kernelWaiters = waiters, !.update = TRUE]
    OBVIOUS
<1>2. Sound(s) /\ Bound(s) /\ s \in Contexts
    BY DEF Ready, Sound
<1>3. /\ r \in Contexts /\ r.update
      /\ r.core = s.core /\ r.mask = s.mask /\ r.pinned = s.pinned
      /\ r.scheduled = s.scheduled /\ r.suggested = s.suggested
      /\ r.state = s.state /\ r.prio = s.prio /\ r.ideal = s.ideal
      /\ r.virtual = s.virtual /\ r.highest = s.highest
      /\ r.fresh = s.fresh /\ r.stores = s.stores
    BY <1>1, <1>2 DEF Contexts
<1>4. \A d \in Cores, p \in Priorities :
         ScheduledAt(r, d, p) = ScheduledAt(s, d, p) /\ SuggestedAt(r, d, p) = SuggestedAt(s, d, p)
    BY <1>3 DEF ScheduledAt, SuggestedAt, SuggestedCores
<1>5. Queued(r)
    BY <1>2, <1>3, <1>4 DEF Sound, Queued
<1>6. Counted(r) /\ Placed(r)
    BY <1>2, <1>3 DEF Sound, Counted, Active, Placed
<1>7. Bound(r)
    BY <1>2, <1>3, BoundFrom
<1>8. Sound(r)
    BY <1>2, <1>3, <1>5, <1>6 DEF Sound
<1>9. QED BY <1>1, <1>3, <1>7, <1>8 DEF Moves, Ready

-----------------------------------------------------------------------------
(* Yields and preemption *)

\* What is true of the state even while the count of the yields is not.
Kept(s) == s \in Contexts /\ Queued(s) /\ Placed(s) /\ Bound(s)

LEMMA ReadyIsKept ==
    ASSUME NEW s
    PROVE  Ready(s) <=> Kept(s) /\ Counted(s)
BY DEF Ready, Sound, Kept

LEMMA CountingKeeps ==
    ASSUME NEW s, Kept(s), NEW r, r = IncrementScheduledCount(s)
    PROVE  /\ Ready(r) /\ SameButQueuing(s, r) /\ r.update = s.update /\ r.fresh = {}
           /\ r.scheduled = s.scheduled /\ r.suggested = s.suggested
<1>1. s \in Contexts
    BY DEF Kept
<1>2. /\ r \in Contexts /\ SameButQueuing(s, r) /\ r.update = s.update /\ r.fresh = {}
      /\ r.scheduled = s.scheduled /\ r.suggested = s.suggested
    BY <1>1 DEF IncrementScheduledCount, Contexts, SameButQueuing
<1>3. Held(r.scheduled, r.suggested, s)
    BY <1>2 DEF Kept, Queued, Held
<1>4. Queued(r)
    BY <1>2, <1>3, QueuedFrom
<1>5. Placed(r) /\ Counted(r)
    BY <1>2 DEF Kept, SameButQueuing, Placed, Counted
<1>6. Bound(r)
    BY <1>2, BoundFrom DEF Kept, SameButQueuing
<1>7. QED BY <1>2, <1>4, <1>5, <1>6 DEF Ready, Sound

LEMMA MoveToBackKept ==
    ASSUME NEW s, Kept(s), NEW t \in Threads, s.state[t] = "Runnable",
           NEW r, r = MoveToBack(s, t)
    PROVE  Kept(r) /\ SameButQueues(s, r)
<1>1. s \in Contexts /\ Queued(s)
    BY DEF Kept
<1>2. r \in Contexts /\ Queued(r) /\ SameButQueues(s, r)
    BY <1>1, MoveToBackKeeps
<1>3. Placed(r)
    BY <1>2 DEF Kept, SameButQueues, SameButPlaces, Placed
<1>4. Bound(r)
    BY <1>2, BoundFrom DEF Kept, SameButQueues, SameButPlaces
<1>5. QED BY <1>2, <1>3, <1>4 DEF Kept

\* Only a thread that is not pinned is suggested to a core.
LEMMA SuggestedNotPinned ==
    ASSUME NEW s, Bound(s), NEW t \in Threads, NEW c \in Cores, Suggested(s, t, c)
    PROVE  ~IsPinned(s, t)
BY ConstantsMakeSense DEF Bound, Suggested, IsPinned

LEMMA MigrateKept ==
    ASSUME NEW s, Kept(s), NEW t \in Threads, s.state[t] = "Runnable", ~IsPinned(s, t),
           NEW c \in CoreIds, c \in s.mask[t] \cup {NoCore}, NEW toFront \in BOOLEAN,
           NEW r, r = Migrate(s, t, c, toFront)
    PROVE  Kept(r) /\ SameButPlaces(s, r) /\ r.core = [s.core EXCEPT ![t] = c]
<1>1. s \in Contexts /\ Queued(s) /\ s.core[t] \in s.mask[t] \cup {NoCore}
    BY DEF Kept, Placed
<1>2. r \in Contexts /\ Queued(r) /\ SameButPlaces(s, r) /\ r.core = [s.core EXCEPT ![t] = c]
    BY <1>1, MigrateKeeps
<1>3. s.core \in [Threads -> CoreIds]
    BY <1>1 DEF Contexts
<1>4. r.core[t] = c /\ \A u \in Threads \ {t} : r.core[u] = s.core[u]
    BY <1>2, <1>3
<1>5. Placed(r)
    BY <1>2, <1>4 DEF Kept, SameButPlaces, Placed
<1>6. Bound(r)
  <2>1. \A d \in Cores : s.pinned[d] # Null => s.pinned[d] \in Threads \ {t}
    BY <1>1 DEF IsPinned, Contexts, Decisions
  <2>2. \A u \in Threads : IsPinned(r, u) <=> IsPinned(s, u)
    BY <1>2 DEF SameButPlaces, IsPinned
  <2>3. Bound(s) /\ r.pinned = s.pinned /\ r.mask = s.mask /\ r.virtual = s.virtual /\ r.ideal = s.ideal
    BY <1>2 DEF Kept, SameButPlaces
  <2>4. \A d \in Cores : r.pinned[d] # Null =>
           r.core[r.pinned[d]] = d /\ r.mask[r.pinned[d]] = {d}
    BY <1>4, <2>1, <2>3 DEF Bound
  <2>5. \A u \in Threads : ~IsPinned(r, u) => r.mask[u] = r.virtual[u]
    BY <2>2, <2>3 DEF Bound
  <2>6. QED BY <2>3, <2>4, <2>5 DEF Bound
<1>7. QED BY <1>2, <1>5, <1>6 DEF Kept

\* The thread has the last place in its queue, so that it is the next one only
\* when it is alone there.
LEMMA AloneInQueue ==
    ASSUME NEW s, Kept(s), NEW t \in Threads, NEW c \in Cores, Active(s, t, c),
           Head(MoveToBack(s, t).scheduled[c][s.prio[t]]) = t
    PROVE  \A u \in Threads : Active(s, u, c) /\ s.prio[u] = s.prio[t] => u = t
<1>1. PICK p, own, rest : /\ p = s.prio[t] /\ own = s.scheduled[c][p]
                          /\ rest = Keep(own, Threads \ {t})
    OBVIOUS
<1>2. s \in Contexts /\ Queued(s) /\ s.core[t] = c
    BY DEF Kept, Active
<1>3. p \in Priorities /\ own \in Seq(Threads)
    BY <1>1, <1>2, WhoIsQueued
<1>4. MoveToBack(s, t).scheduled[c][p] = Append(rest, t)
  <2>1. MoveToBack(s, t).scheduled = Appended(Removed(s.scheduled, {c}, p, t), {c}, p, t)
    BY <1>1, <1>2 DEF MoveToBack, Contexts
  <2>2. Removed(s.scheduled, {c}, p, t)[c][p] = rest
    BY <1>1, <1>3 DEF Removed
  <2>3. QED BY <1>3, <2>1, <2>2 DEF Appended
<1>5. rest \in Seq(Threads) /\ \A x : In(x, rest) <=> In(x, own) /\ x \in Threads \ {t}
    BY <1>1, <1>3, KeepElements
<1>6. rest = <<>>
  <2> SUFFICES ASSUME rest # <<>> PROVE FALSE
    OBVIOUS
  <2>1. Head(Append(rest, t)) = rest[1] /\ 1 \in 1 .. Len(rest)
    BY <1>5
  <2>2. In(rest[1], rest)
    BY <2>1 DEF In
  <2>3. rest[1] # t
    BY <1>5, <2>2
  <2>4. QED BY <1>1, <1>4, <2>1, <2>3
<1>7. ASSUME NEW u \in Threads, Active(s, u, c), s.prio[u] = s.prio[t] PROVE u = t
  <2>1. In(u, own)
    BY <1>1, <1>2, <1>3, <1>7, WhoIsQueued
  <2>2. ~In(u, rest)
    BY <1>6 DEF In
  <2>3. QED BY <1>5, <2>1, <2>2
<1>8. QED BY <1>7

\* Two states that differ in the queues and the count of the yields only.
LEMMA SameIsSameQueued ==
    ASSUME NEW s, NEW r, SameButQueuing(s, r)
    PROVE  SameQueued(s, r)
BY DEF SameButQueuing, SameQueued

\* The first step of a yield.
LEMMA MovedReady ==
    ASSUME NEW s, Ready(s), NEW t \in Threads, s.state[t] = "Runnable",
           NEW r, r = IncrementScheduledCount(MoveToBack(s, t))
    PROVE  /\ Ready(r) /\ SameButQueuing(s, r) /\ r.update = s.update /\ r.fresh = {}
           /\ r.scheduled = MoveToBack(s, t).scheduled
<1>1. PICK q : q = MoveToBack(s, t)
    OBVIOUS
<1>2. Kept(s)
    BY ReadyIsKept
<1>3. Kept(q) /\ SameButQueues(s, q)
    BY <1>1, <1>2, MoveToBackKept
<1>4. /\ Ready(r) /\ SameButQueuing(q, r) /\ r.update = q.update /\ r.fresh = {}
      /\ r.scheduled = q.scheduled
    BY <1>1, <1>3, CountingKeeps
<1>5. QED BY <1>1, <1>3, <1>4 DEF SameButQueues, SameButPlaces, SameButQueuing

\* A yield with nothing to do is counted.
LEMMA CountedYield ==
    ASSUME NEW s, Ready(s), s.fresh = {}, NEW t \in Threads, NEW c \in Cores, Active(s, t, c),
           \A u \in Threads : Active(s, u, c) /\ s.prio[u] = s.prio[t] => u = t,
           NEW r, r = SetYieldScheduleCount(s, t)
    PROVE  Ready(r) /\ SameButQueuing(s, r) /\ r.update = s.update
<1>1. s \in Contexts
    BY DEF Ready, Sound
<1>2. /\ r \in Contexts /\ SameButQueuing(s, r) /\ r.update = s.update /\ r.fresh = {t}
      /\ r.scheduled = s.scheduled /\ r.suggested = s.suggested
    BY <1>1 DEF SetYieldScheduleCount, Contexts, SameButQueuing
<1>3. Held(r.scheduled, r.suggested, s)
    BY <1>2 DEF Ready, Sound, Queued, Held
<1>4. Queued(r)
    BY <1>2, <1>3, QueuedFrom
<1>5. Placed(r)
    BY <1>2 DEF Ready, Sound, SameButQueuing, Placed
<1>6. Counted(r)
    BY <1>2 DEF SameButQueuing, Counted, Active
<1>7. Bound(r)
    BY <1>2, BoundFrom DEF Ready, SameButQueuing
<1>8. QED BY <1>2, <1>4, <1>5, <1>6, <1>7 DEF Ready, Sound

\* A thread gives way to another one: nothing else depends on it.
Yields(s, r) ==
    /\ Moves(s, r) /\ Ready(r)
    /\ r.state = s.state /\ r.prio = s.prio /\ r.mask = s.mask /\ r.pinned = s.pinned

LEMMA YieldsNowhere ==
    ASSUME NEW s, Ready(s)
    PROVE  Yields(s, s)
BY MovesNowhere DEF Yields, Ready

LEMMA YieldsCounted ==
    ASSUME NEW s, NEW r, Ready(r), SameButQueuing(s, r), r.update = s.update
    PROVE  Yields(s, r)
BY SameIsSameQueued DEF Yields, Moves, Ready, SameButQueuing

LEMMA YieldsRequested ==
    ASSUME NEW s, NEW q, Ready(q), q.highest = s.highest, q.stores = s.stores, q.state = s.state, q.prio = s.prio,
           q.mask = s.mask, q.pinned = s.pinned, NEW r, r = SetSchedulerUpdateNeeded(q)
    PROVE  Yields(s, r) /\ r.update /\ r.core = q.core
<1>1. Sound(q) /\ Bound(q)
    BY DEF Ready
<1>2. Moves(s, r) /\ r.update /\ Ready(r) /\ SameButQueuing(q, r)
    BY <1>1, RequestMoves
<1>3. QED BY <1>2 DEF Yields, SameButQueuing

LEMMA YieldWithoutMoves ==
    ASSUME NEW s, Ready(s), NEW t \in Threads, NEW c \in Cores, s.core[t] = c
    PROVE  LET r == YieldWithoutCoreMigration(s, t)
           IN  Yields(s, r) /\ r.core = s.core
<1>1. PICK moved, next, r :
         /\ moved = IncrementScheduledCount(MoveToBack(s, t))
         /\ next = Head(moved.scheduled[s.core[t]][s.prio[t]])
         /\ r = YieldWithoutCoreMigration(s, t)
    OBVIOUS
<1>2. CASE t \in s.fresh \/ s.state[t] # "Runnable"
  <2>1. r = s
    BY <1>1, <1>2 DEF YieldWithoutCoreMigration
  <2>2. QED BY <1>1, <2>1, YieldsNowhere
<1>3. CASE ~(t \in s.fresh \/ s.state[t] # "Runnable")
  <2>1. /\ Ready(moved) /\ SameButQueuing(s, moved) /\ moved.update = s.update /\ moved.fresh = {}
        /\ moved.scheduled = MoveToBack(s, t).scheduled
    BY <1>1, <1>3, MovedReady
  <2>2. CASE next # t
    <3>1. r = SetSchedulerUpdateNeeded(moved)
      BY <1>1, <1>3, <2>2 DEF YieldWithoutCoreMigration
    <3>2. QED BY <1>1, <2>1, <3>1, YieldsRequested DEF SameButQueuing
  <2>3. CASE next = t
    <3>1. r = SetYieldScheduleCount(moved, t)
      BY <1>1, <1>3, <2>3 DEF YieldWithoutCoreMigration
    <3>2. Kept(s) /\ Active(s, t, c) /\ Head(MoveToBack(s, t).scheduled[c][s.prio[t]]) = t
      BY <1>1, <1>3, <2>1, <2>3, ReadyIsKept DEF Active
    <3>3. \A u \in Threads : Active(s, u, c) /\ s.prio[u] = s.prio[t] => u = t
      BY <3>2, AloneInQueue
    <3>4. /\ Active(moved, t, c)
          /\ \A u \in Threads : Active(moved, u, c) /\ moved.prio[u] = moved.prio[t] => u = t
      BY <2>1, <3>2, <3>3 DEF SameButQueuing, Active
    <3>5. Ready(r) /\ SameButQueuing(moved, r) /\ r.update = moved.update
      BY <2>1, <3>1, <3>4, CountedYield
    <3>6. SameButQueuing(s, r) /\ r.update = s.update
      BY <2>1, <3>5 DEF SameButQueuing
    <3>7. QED BY <1>1, <3>5, <3>6, YieldsCounted DEF SameButQueuing
  <2>4. QED BY <2>2, <2>3
<1>4. QED BY <1>2, <1>3

\* A thread suggested to core c comes to it.
LEMMA SuggestedComes ==
    ASSUME NEW s, Kept(s), NEW c \in Cores, NEW u \in Threads, Suggested(s, u, c),
           NEW toFront \in BOOLEAN, NEW r, r = IncrementScheduledCount(Migrate(s, u, c, toFront))
    PROVE  /\ Ready(r) /\ r.fresh = {} /\ r.highest = s.highest /\ r.update = s.update
           /\ r.stores = s.stores /\ r.state = s.state /\ r.prio = s.prio /\ r.mask = s.mask /\ r.pinned = s.pinned
           /\ r.core = [s.core EXCEPT ![u] = c]
<1>1. PICK q : q = Migrate(s, u, c, toFront)
    OBVIOUS
<1>2. s.state[u] = "Runnable" /\ c \in CoreIds /\ c \in s.mask[u] \cup {NoCore}
    BY DEF Suggested, CoreIds
<1>3. ~IsPinned(s, u)
    BY SuggestedNotPinned DEF Kept
<1>4. Kept(q) /\ SameButPlaces(s, q) /\ q.core = [s.core EXCEPT ![u] = c]
    BY <1>1, <1>2, <1>3, MigrateKept
<1>5. Ready(r) /\ SameButQueuing(q, r) /\ r.update = q.update /\ r.fresh = {}
    BY <1>1, <1>4, CountingKeeps
<1>6. QED BY <1>4, <1>5 DEF SameButPlaces, SameButQueuing

LEMMA YieldWithMoves ==
    ASSUME NEW s, Ready(s), NEW t \in Threads, NEW c \in Cores, s.core[t] = c, NEW later
    PROVE  LET r == YieldWithCoreMigration(s, t, later)
           IN  /\ Yields(s, r)
               /\ \A u \in Threads : s.core[u] \in Cores => r.core[u] \in Cores
<1>1. PICK moved, next, stop, movable, found, recheck, r :
         /\ moved = IncrementScheduledCount(MoveToBack(s, t))
         /\ next = Head(moved.scheduled[s.core[t]][s.prio[t]])
         /\ stop = {u \in NotTop(s) : \/ s.prio[u] > s.prio[t]
                                      \/ s.prio[u] = s.prio[t] /\ next # t /\ u \in later}
         /\ movable = {u \in NotTop(s) : MayMigrate(s, TopOn(s, s.core[u]))}
         /\ found = FirstSuggested(moved, s.core[t], stop \cup movable)
         /\ recheck = (FirstSuggested(moved, s.core[t], NotTop(s)) \notin stop \cup {Null})
         /\ r = YieldWithCoreMigration(s, t, later)
    OBVIOUS
<1>2. CASE t \in s.fresh \/ s.state[t] # "Runnable"
  <2>1. r = s
    BY <1>1, <1>2 DEF YieldWithCoreMigration
  <2>2. QED BY <1>1, <2>1, YieldsNowhere
<1>3. CASE ~(t \in s.fresh \/ s.state[t] # "Runnable")
  <2>1. /\ Ready(moved) /\ SameButQueuing(s, moved) /\ moved.update = s.update /\ moved.fresh = {}
        /\ moved.scheduled = MoveToBack(s, t).scheduled
    BY <1>1, <1>3, MovedReady
  <2>2. r = IF found \notin stop \cup {Null} THEN Rescheduled(Migrate(moved, found, c, TRUE))
            ELSE IF next # t THEN SetSchedulerUpdateNeeded(moved)
            ELSE IF recheck THEN moved
            ELSE SetYieldScheduleCount(moved, t)
    BY <1>1, <1>3 DEF YieldWithCoreMigration
  <2>3. moved \in Contexts /\ Queued(moved) /\ Kept(moved)
    BY <2>1, ReadyIsKept DEF Kept
  <2>4. CASE found \notin stop \cup {Null}
    <3>1. found \in Threads /\ Suggested(moved, found, c)
      BY <1>1, <2>3, <2>4, FirstSuggestedIs
    <3>2. PICK q : q = IncrementScheduledCount(Migrate(moved, found, c, TRUE))
      OBVIOUS
    <3>3. /\ Ready(q) /\ q.highest = moved.highest /\ q.stores = moved.stores
          /\ q.state = moved.state /\ q.prio = moved.prio /\ q.mask = moved.mask
          /\ q.pinned = moved.pinned /\ q.core = [moved.core EXCEPT ![found] = c]
      <4>1. PICK front \in BOOLEAN : front = TRUE
        OBVIOUS
      <4>2. q = IncrementScheduledCount(Migrate(moved, found, c, front))
        BY <3>2, <4>1
      <4>3. QED BY <2>3, <3>1, <4>2, SuggestedComes
    <3>4. r = SetSchedulerUpdateNeeded(q)
      BY <2>2, <2>4, <3>2 DEF Rescheduled
    <3>5. Yields(s, r) /\ r.core = q.core
      BY <2>1, <3>3, <3>4, YieldsRequested DEF SameButQueuing
    <3>6. s.core \in [Threads -> CoreIds] /\ moved.core = s.core
      BY <2>1, <2>3 DEF SameButQueuing, Contexts
    <3>7. \A u \in Threads : s.core[u] \in Cores => r.core[u] \in Cores
      BY <3>3, <3>5, <3>6
    <3>8. QED BY <1>1, <3>5, <3>7
  <2>5. CASE found \in stop \cup {Null} /\ next # t
    <3>1. r = SetSchedulerUpdateNeeded(moved)
      BY <2>2, <2>5
    <3>2. QED BY <1>1, <2>1, <3>1, YieldsRequested DEF SameButQueuing
  <2>6. CASE found \in stop \cup {Null} /\ next = t /\ recheck
    <3>1. r = moved
      BY <2>2, <2>6
    <3>2. QED BY <1>1, <2>1, <3>1, YieldsCounted DEF SameButQueuing
  <2>7. CASE found \in stop \cup {Null} /\ next = t /\ ~recheck
    <3>1. r = SetYieldScheduleCount(moved, t)
      BY <2>2, <2>7
    <3>2. Kept(s) /\ Active(s, t, c) /\ Head(MoveToBack(s, t).scheduled[c][s.prio[t]]) = t
      BY <1>1, <1>3, <2>1, <2>7, ReadyIsKept DEF Active
    <3>3. \A u \in Threads : Active(s, u, c) /\ s.prio[u] = s.prio[t] => u = t
      BY <3>2, AloneInQueue
    <3>4. /\ Active(moved, t, c)
          /\ \A u \in Threads : Active(moved, u, c) /\ moved.prio[u] = moved.prio[t] => u = t
      BY <2>1, <3>2, <3>3 DEF SameButQueuing, Active
    <3>5. Ready(r) /\ SameButQueuing(moved, r) /\ r.update = moved.update
      BY <2>1, <3>1, <3>4, CountedYield
    <3>6. SameButQueuing(s, r) /\ r.update = s.update
      BY <2>1, <3>5 DEF SameButQueuing
    <3>7. QED BY <1>1, <3>5, <3>6, YieldsCounted DEF SameButQueuing
  <2>8. QED BY <2>4, <2>5, <2>6, <2>7
<1>4. QED BY <1>2, <1>3

\* A thread of the set that is active on a core stays active on one.
StayOnCores(s, r, set) == \A t \in set : s.core[t] \in Cores => r.core[t] \in Cores

LEMMA YieldToAnyMoves ==
    ASSUME NEW s, Ready(s), NEW t \in Threads, NEW c \in Cores, s.core[t] = c, ~IsPinned(s, t)
    PROVE  LET r == YieldToAnyThread(s, t)
           IN  Yields(s, r) /\ StayOnCores(s, r, Threads \ {t})
<1>1. PICK gone, moved, u, filled, r :
         /\ gone = Migrate(s, t, NoCore, FALSE)
         /\ moved = IncrementScheduledCount(gone)
         /\ u = FirstSuggested(moved, c, NotFront(moved))
         /\ filled = IF u # Null /\ MayMigrate(moved, ScheduledFront(moved, moved.core[u]))
                     THEN Migrate(moved, u, c, FALSE) ELSE moved
         /\ r = YieldToAnyThread(s, t)
    OBVIOUS
<1>2. CASE t \in s.fresh \/ s.state[t] # "Runnable"
  <2>1. r = s
    BY <1>1, <1>2 DEF YieldToAnyThread
  <2>2. QED BY <1>1, <2>1, YieldsNowhere DEF StayOnCores
<1>3. CASE ~(t \in s.fresh \/ s.state[t] # "Runnable")
  <2>1. r = IF ScheduledFront(moved, c) # Null THEN SetSchedulerUpdateNeeded(moved)
            ELSE IF u # t THEN SetSchedulerUpdateNeeded(filled)
            ELSE SetYieldScheduleCount(filled, t)
    BY <1>1, <1>3 DEF YieldToAnyThread
  <2>2. Kept(s) /\ NoCore \in CoreIds /\ s.state[t] = "Runnable" /\ s.core \in [Threads -> CoreIds]
    BY <1>3, ReadyIsKept DEF CoreIds, Kept, Contexts
  <2>3. Kept(gone) /\ SameButPlaces(s, gone) /\ gone.core = [s.core EXCEPT ![t] = NoCore]
    <3>1. PICK front \in BOOLEAN : front = FALSE
      OBVIOUS
    <3>2. gone = Migrate(s, t, NoCore, front) /\ NoCore \in s.mask[t] \cup {NoCore}
      BY <1>1, <3>1
    <3>3. QED BY <2>2, <3>2, MigrateKept
  <2>4. Ready(moved) /\ SameButQueuing(gone, moved) /\ moved.update = gone.update /\ moved.fresh = {}
    BY <1>1, <2>3, CountingKeeps
  <2>5. /\ moved.highest = s.highest /\ moved.stores = s.stores /\ moved.state = s.state /\ moved.prio = s.prio
        /\ moved.mask = s.mask /\ moved.pinned = s.pinned /\ moved.update = s.update
        /\ moved.core = [s.core EXCEPT ![t] = NoCore]
    BY <2>3, <2>4 DEF SameButPlaces, SameButQueuing
  <2>6. moved \in Contexts /\ Queued(moved) /\ Kept(moved)
    BY <2>4, ReadyIsKept DEF Kept
  <2>7. CASE ScheduledFront(moved, c) # Null
    <3>1. r = SetSchedulerUpdateNeeded(moved)
      BY <2>1, <2>7
    <3>2. Yields(s, r) /\ r.core = moved.core
      BY <2>4, <2>5, <3>1, YieldsRequested
    <3>3. StayOnCores(s, r, Threads \ {t})
      BY <2>2, <2>5, <3>2 DEF StayOnCores
    <3>4. QED BY <1>1, <3>2, <3>3
  <2>8. CASE ScheduledFront(moved, c) = Null
    <3>1. c \in s.mask[t]
      BY <2>2, ConstantsMakeSense DEF Kept, Placed
    <3>2. moved.core[t] = NoCore /\ Suggested(moved, t, c)
      BY <2>2, <2>5, <3>1, ConstantsMakeSense DEF Suggested
    <3>3. t \in NotFront(moved)
      BY <3>2, ConstantsMakeSense DEF NotFront, ScheduledFront
    <3>4. u \in Threads /\ Suggested(moved, u, c)
      BY <1>1, <2>6, <3>2, <3>3, FirstSuggestedIs, ConstantsMakeSense
    <3>5. filled = moved \/ filled = Migrate(moved, u, c, FALSE)
      BY <1>1
    <3>6. /\ Ready(filled) /\ filled.fresh = {}
          /\ filled.highest = s.highest /\ filled.stores = s.stores /\ filled.state = s.state /\ filled.prio = s.prio
          /\ filled.mask = s.mask /\ filled.pinned = s.pinned /\ filled.update = s.update
          /\ filled # moved => filled.core = [moved.core EXCEPT ![u] = c]
      <4>1. CASE filled = moved
        BY <2>4, <2>5, <4>1
      <4>2. CASE filled = Migrate(moved, u, c, FALSE)
        <5>1. moved.state[u] = "Runnable" /\ c \in CoreIds /\ c \in moved.mask[u] \cup {NoCore}
          BY <3>4 DEF Suggested, CoreIds
        <5>2. ~IsPinned(moved, u)
          BY <2>6, <3>4, SuggestedNotPinned DEF Kept
        <5>3. /\ Kept(filled) /\ SameButPlaces(moved, filled)
              /\ filled.core = [moved.core EXCEPT ![u] = c]
          <6>1. PICK front \in BOOLEAN : front = FALSE
            OBVIOUS
          <6>2. filled = Migrate(moved, u, c, front)
            BY <4>2, <6>1
          <6>3. QED BY <2>6, <3>4, <5>1, <5>2, <6>2, MigrateKept
        <5>4. filled.fresh = {} /\ Counted(filled)
          BY <2>4, <5>3 DEF SameButPlaces, Counted
        <5>5. Ready(filled)
          BY <5>3, <5>4, ReadyIsKept
        <5>6. QED BY <2>5, <5>3, <5>4, <5>5 DEF SameButPlaces
      <4>3. QED BY <3>5, <4>1, <4>2
    <3>7. CASE u # t
      <4>1. r = SetSchedulerUpdateNeeded(filled)
        BY <2>1, <2>8, <3>7
      <4>2. Yields(s, r) /\ r.core = filled.core
        BY <3>6, <4>1, YieldsRequested
      <4>3. StayOnCores(s, r, Threads \ {t})
        BY <2>2, <2>5, <3>6, <4>2 DEF StayOnCores
      <4>4. QED BY <1>1, <4>2, <4>3
    <3>8. CASE u = t
      <4>1. r = SetYieldScheduleCount(filled, t)
        BY <2>1, <2>8, <3>8
      <4>2. filled = Migrate(moved, u, c, FALSE)
        BY <1>1, <3>2, <3>4, <3>8, ConstantsMakeSense DEF MayMigrate, ScheduledFront
      <4>3. filled.core = s.core
        <5>1. filled.core = [moved.core EXCEPT ![t] = c]
          <6>1. moved.state[u] = "Runnable" /\ c \in CoreIds /\ c \in moved.mask[u] \cup {NoCore}
            BY <3>4 DEF Suggested, CoreIds
          <6>2. ~IsPinned(moved, u)
            BY <2>6, <3>4, SuggestedNotPinned DEF Kept
          <6>3. PICK front \in BOOLEAN : front = FALSE
            OBVIOUS
          <6>4. filled = Migrate(moved, u, c, front)
            BY <4>2, <6>3
          <6>5. QED BY <2>6, <3>4, <3>8, <6>1, <6>2, <6>4, MigrateKept
        <5>2. QED BY <2>2, <2>5, <5>1
      <4>4. \A x \in Threads : ~Active(moved, x, c)
        BY <2>6, <2>8, ScheduledFrontIs, ConstantsMakeSense
      <4>5. /\ Active(filled, t, c)
            /\ \A x \in Threads : Active(filled, x, c) /\ filled.prio[x] = filled.prio[t] => x = t
        BY <2>2, <2>5, <3>6, <4>3, <4>4 DEF Active
      <4>6. Ready(r) /\ SameButQueuing(filled, r) /\ r.update = filled.update
        BY <3>6, <4>1, <4>5, CountedYield
      <4>7. SameQueued(s, r)
        BY <3>6, <4>3, <4>6 DEF SameQueued, SameButQueuing
      <4>8. Yields(s, r)
        BY <3>6, <4>6, <4>7 DEF Yields, Moves, Ready, SameButQueuing
      <4>9. StayOnCores(s, r, Threads \ {t})
        BY <4>3, <4>6 DEF StayOnCores, SameButQueuing
      <4>10. QED BY <1>1, <4>8, <4>9
    <3>9. QED BY <3>7, <3>8
  <2>9. QED BY <2>7, <2>8
<1>4. QED BY <1>2, <1>3

\* Threads change places, and nothing else that the decision depends on.
Shuffled(s, r) ==
    /\ Ready(r) /\ r.highest = s.highest /\ r.stores = s.stores
    /\ r.state = s.state /\ r.prio = s.prio /\ r.mask = s.mask /\ r.pinned = s.pinned
    /\ \A u \in Threads : s.core[u] \in Cores => r.core[u] \in Cores

LEMMA SuggestedShuffles ==
    ASSUME NEW s, Ready(s), NEW c \in Cores, NEW u \in Threads, Suggested(s, u, c)
    PROVE  Shuffled(s, IncrementScheduledCount(Migrate(s, u, c, TRUE)))
<1>1. Kept(s) /\ s.core \in [Threads -> CoreIds]
    BY ReadyIsKept DEF Kept, Contexts
<1>2. PICK front \in BOOLEAN : front = TRUE
    OBVIOUS
<1>3. PICK r : r = IncrementScheduledCount(Migrate(s, u, c, front))
    OBVIOUS
<1>4. /\ Ready(r) /\ r.highest = s.highest /\ r.stores = s.stores
      /\ r.state = s.state /\ r.prio = s.prio /\ r.mask = s.mask /\ r.pinned = s.pinned
      /\ r.core = [s.core EXCEPT ![u] = c]
    BY <1>1, <1>3, SuggestedComes
<1>5. \A x \in Threads : s.core[x] \in Cores => r.core[x] \in Cores
    BY <1>1, <1>4
<1>6. QED BY <1>2, <1>3, <1>4, <1>5 DEF Shuffled

LEMMA RotateSamePriorityShuffles ==
    ASSUME NEW s, Ready(s), NEW c \in Cores, NEW p \in Priorities, NEW later
    PROVE  Shuffled(s, RotateSamePriority(s, c, p, later))
<1> DEFINE First(queue) == IF queue = <<>> THEN Null ELSE Head(queue)
<1>1. PICK top, rotated, next, counted, stop, movable, found, r :
         /\ top = First(s.scheduled[c][p])
         /\ rotated = IF top = Null THEN s ELSE MoveToBack(s, top)
         /\ next = First(rotated.scheduled[c][p])
         /\ counted = IF next # top THEN IncrementScheduledCount(rotated) ELSE rotated
         /\ stop = {u \in NotFront(counted) : next # top /\ u \in later}
         /\ movable = {u \in NotFront(counted) :
                          MayMigrate(counted, ScheduledFront(counted, counted.core[u]))}
         /\ found = First(Keep(counted.suggested[c][p], stop \cup movable))
         /\ r = RotateSamePriority(s, c, p, later)
    OBVIOUS
<1>2. r = IF found \in stop \cup {Null} THEN counted
          ELSE IncrementScheduledCount(Migrate(counted, found, c, TRUE))
    BY <1>1 DEF RotateSamePriority
<1>3. Kept(s) /\ s \in Contexts /\ Queued(s) /\ Counted(s)
    BY ReadyIsKept DEF Kept
<1>4. /\ Kept(rotated) /\ Counted(rotated) /\ SameButQueuing(s, rotated)
  <2>1. CASE top = Null
    BY <1>1, <1>3, <2>1 DEF SameButQueuing
  <2>2. CASE top # Null
    <3>1. Queues(s.scheduled[c][p], ScheduledAt(s, c, p))
      BY <1>3 DEF Queued
    <3>2. top \in ScheduledAt(s, c, p)
      <4>1. PICK queue, S : queue = s.scheduled[c][p] /\ S = ScheduledAt(s, c, p)
        OBVIOUS
      <4>2. Queues(queue, S) /\ queue # <<>> /\ top = Head(queue)
        BY <1>1, <2>2, <3>1, <4>1
      <4>3. QED BY <4>1, <4>2, QueuesHave
    <3>3. top \in Threads /\ s.state[top] = "Runnable" /\ rotated = MoveToBack(s, top)
      BY <1>1, <2>2, <3>2 DEF ScheduledAt
    <3>4. Kept(rotated) /\ SameButQueues(s, rotated)
      BY <1>3, <3>3, MoveToBackKept
    <3>5. Counted(rotated)
      BY <1>3, <3>4 DEF SameButQueues, SameButPlaces, Counted, Active
    <3>6. QED BY <3>4, <3>5 DEF SameButQueues, SameButPlaces, SameButQueuing
  <2>3. QED BY <2>1, <2>2
<1>5. Ready(counted) /\ SameButQueuing(s, counted)
  <2>1. CASE next # top
    <3>1. Ready(counted) /\ SameButQueuing(rotated, counted)
      BY <1>1, <1>4, <2>1, CountingKeeps
    <3>2. QED BY <1>4, <3>1 DEF SameButQueuing
  <2>2. CASE next = top
    BY <1>1, <1>4, <2>2, ReadyIsKept
  <2>3. QED BY <2>1, <2>2
<1>6. Shuffled(s, counted)
    BY <1>5 DEF Shuffled, SameButQueuing
<1>7. CASE found \in stop \cup {Null}
    BY <1>1, <1>2, <1>6, <1>7
<1>8. CASE found \notin stop \cup {Null}
  <2>1. PICK K, queue : K = stop \cup movable /\ queue = counted.suggested[c][p]
    OBVIOUS
  <2>2. counted \in Contexts /\ Queued(counted)
    BY <1>5 DEF Ready, Sound
  <2>3. queue \in Seq(Threads)
    BY <2>1, <2>2, WhoIsQueued
  <2>4. Keep(queue, K) \in Seq(Threads) /\ \A x : In(x, Keep(queue, K)) <=> In(x, queue) /\ x \in K
    BY <2>3, KeepElements
  <2>5. Keep(queue, K) # <<>> /\ found = Head(Keep(queue, K))
    BY <1>1, <1>8, <2>1
  <2>6. found = Keep(queue, K)[1] /\ 1 \in 1 .. Len(Keep(queue, K))
    BY <2>4, <2>5
  <2>7. In(found, queue)
    BY <2>4, <2>6 DEF In
  <2>8. found \in Threads /\ Suggested(counted, found, c)
    BY <2>1, <2>2, <2>7, WhoIsQueued
  <2>9. r = IncrementScheduledCount(Migrate(counted, found, c, TRUE))
    BY <1>2, <1>8
  <2>10. Shuffled(counted, r)
    BY <1>5, <2>8, <2>9, SuggestedShuffles
  <2>11. QED BY <1>1, <1>6, <2>10 DEF Shuffled
<1>9. QED BY <1>7, <1>8

LEMMA TakeMoreUrgentShuffles ==
    ASSUME NEW s, Ready(s), NEW c \in Cores, NEW p
    PROVE  Shuffled(s, TakeMoreUrgent(s, c, p))
<1>1. PICK best, K, found, r :
         /\ best = ScheduledFront(s, c)
         /\ K = {u \in NotFront(s) : /\ s.prio[u] < s.prio[best]
                                     /\ MayMigrate(s, ScheduledFront(s, s.core[u]))}
         /\ found = FirstSuggested(s, c, K)
         /\ r = TakeMoreUrgent(s, c, p)
    OBVIOUS
<1>2. r = IF best = Null THEN s
          ELSE IF s.prio[best] < p \/ found = Null THEN s
          ELSE IncrementScheduledCount(Migrate(s, found, c, TRUE))
    BY <1>1 DEF TakeMoreUrgent
<1>3. Shuffled(s, s)
    BY DEF Shuffled
<1>4. CASE r = s
    BY <1>1, <1>3, <1>4
<1>5. CASE r # s
  <2>1. found # Null /\ r = IncrementScheduledCount(Migrate(s, found, c, TRUE))
    BY <1>2, <1>5
  <2>2. s \in Contexts /\ Queued(s)
    BY DEF Ready, Sound
  <2>3. found \in Threads /\ Suggested(s, found, c)
    BY <1>1, <2>1, <2>2, FirstSuggestedIs
  <2>4. QED BY <1>1, <2>1, <2>3, SuggestedShuffles
<1>6. QED BY <1>4, <1>5

LEMMA RotateShuffles ==
    ASSUME NEW s, Ready(s), NEW c \in Cores, NEW later
    PROVE  /\ Shuffled(s, RotateScheduledQueue(s, c, later))
           /\ RotateScheduledQueue(s, c, later).update
<1>1. PICK p, a, b, r :
         /\ p = PreemptPriority[c] /\ a = RotateSamePriority(s, c, p, later)
         /\ b = TakeMoreUrgent(a, c, p) /\ r = RotateScheduledQueue(s, c, later)
    OBVIOUS
<1>2. p \in Priorities
    BY <1>1, ConstantsMakeSense
<1>3. Shuffled(s, a)
    BY <1>1, <1>2, RotateSamePriorityShuffles
<1>4. Shuffled(a, b)
    BY <1>1, <1>3, TakeMoreUrgentShuffles DEF Shuffled
<1>5. r = SetSchedulerUpdateNeeded(b)
    BY <1>1 DEF RotateScheduledQueue
<1>6. Sound(b) /\ Bound(b)
    BY <1>4 DEF Shuffled, Ready
<1>7. r.update /\ Ready(r) /\ SameButQueuing(b, r)
    BY <1>5, <1>6, RequestMoves
<1>8. QED BY <1>1, <1>3, <1>4, <1>7 DEF Shuffled, SameButQueuing

LEMMA PreemptMoves ==
    ASSUME NEW s, Ready(s), NEW later
    PROVE  LET r == PreemptThreads(s, later)
           IN  Yields(s, r) /\ r.update /\ \A u \in Threads : s.core[u] \in Cores => r.core[u] \in Cores
<1> DEFINE n == NumCores
           Late(i) == {t \in Threads : <<i - 1, t>> \in later}
           V == {r \in Contexts : Shuffled(s, r)}
           step == [i \in 1 .. n |-> [v \in V |-> RotateScheduledQueue(v, i - 1, Late(i))]]
           upTo == CHOOSE f : f = [i \in 0 .. n |->
                      IF i = 0 THEN s
                      ELSE RotateScheduledQueue(f[i - 1], i - 1, Late(i))]
<1>1. n \in Nat /\ n >= 1 /\ \A i \in 1 .. n : i - 1 \in Cores /\ i - 1 \in 0 .. n
    BY ConstantsMakeSense DEF Cores
<1>2. s \in V
  <2>1. s \in Contexts
    BY DEF Ready, Sound
  <2>2. QED BY <2>1 DEF Shuffled
<1>3. ASSUME NEW v \in V, NEW i \in 1 .. n
      PROVE  RotateScheduledQueue(v, i - 1, Late(i)) \in V /\ RotateScheduledQueue(v, i - 1, Late(i)).update
  <2>1. Shuffled(s, v) /\ Ready(v)
    BY DEF Shuffled
  <2>2. PICK r, l : l = Late(i) /\ r = RotateScheduledQueue(v, i - 1, l)
    OBVIOUS
  <2>3. Shuffled(v, r) /\ r.update
    BY <1>1, <2>1, <2>2, RotateShuffles
  <2>4. Shuffled(s, r) /\ r \in Contexts
    BY <2>1, <2>3 DEF Shuffled, Ready, Sound
  <2>5. QED BY <2>2, <2>3, <2>4
<1>4. step \in [1 .. n -> [V -> V]]
    BY <1>3
<1>5. \E f \in [0 .. n -> V] : Computes(f, n, s, step)
  <2> HIDE DEF step, n, V
  <2>1. n \in Nat
    BY <1>1
  <2> HIDE DEF upTo
  <2>2. QED BY <1>2, <1>4, <2>1, RecursionUpTo
<1>6. PICK f \in [0 .. n -> V] : f[0] = s /\ \A i \in 1 .. n : f[i] = step[i][f[i - 1]]
    BY <1>5 DEF Computes
<1>7. ASSUME NEW i \in 1 .. n PROVE f[i] = RotateScheduledQueue(f[i - 1], i - 1, Late(i))
  <2>1. f[i - 1] \in V
    BY <1>1
  <2>2. step[i][f[i - 1]] = RotateScheduledQueue(f[i - 1], i - 1, Late(i))
    BY <2>1
  <2>3. QED BY <1>6, <2>2
<1> HIDE DEF n, V, step
<1>8. f = [i \in 0 .. n |->
             IF i = 0 THEN s ELSE RotateScheduledQueue(f[i - 1], i - 1, Late(i))]
  <2>1. \A i \in 0 .. n : i # 0 => i \in 1 .. n
    BY <1>1
  <2>2. QED BY <1>6, <1>7, <2>1
<1>9. upTo = [i \in 0 .. n |->
             IF i = 0 THEN s ELSE RotateScheduledQueue(upTo[i - 1], i - 1, Late(i))]
    BY <1>8
<1>10. PreemptThreads(s, later) = upTo[n]
    BY DEF PreemptThreads, n
<1> HIDE DEF upTo
<1> DEFINE P == {i \in 0 .. n : upTo[i] \in V /\ (i # 0 => upTo[i].update)}
<1>11. 0 \in P
    BY <1>1, <1>2, <1>9
<1>12. ASSUME NEW i \in 0 .. (n - 1), i \in P PROVE i + 1 \in P
  <2>1. i + 1 \in 1 .. n /\ (i + 1) - 1 = i /\ i + 1 \in 0 .. n
    BY <1>1
  <2>2. upTo[i + 1] = RotateScheduledQueue(upTo[(i + 1) - 1], (i + 1) - 1, Late(i + 1))
    <3>1. PICK j : j = i + 1
      OBVIOUS
    <3>2. j \in 0 .. n /\ j # 0
      BY <1>1, <2>1, <3>1
    <3>3. upTo[j] = RotateScheduledQueue(upTo[j - 1], j - 1, Late(j))
      BY <1>9, <3>2
    <3>4. QED BY <3>1, <3>3
  <2>3. upTo[(i + 1) - 1] \in V
    BY <1>12, <2>1
  <2>4. upTo[i + 1] \in V /\ upTo[i + 1].update
    BY <1>3, <2>1, <2>2, <2>3
  <2>5. QED BY <2>1, <2>4
<1>13. n \in P
  <2> HIDE DEF P
  <2>1. \A i \in 0 .. n : i \in P
    BY <1>1, <1>11, <1>12, InductionUpTo
  <2>2. QED BY <1>1, <2>1
<1>14. PICK r : r = upTo[n]
    OBVIOUS
<1>15. r \in V /\ r.update
    BY <1>1, <1>13, <1>14
<1>16. Shuffled(s, r)
    BY <1>15 DEF V
<1>17. Yields(s, r)
    BY <1>15, <1>16 DEF Shuffled, Yields, Moves, Ready
<1>18. QED BY <1>10, <1>14, <1>15, <1>16, <1>17 DEF Shuffled

-----------------------------------------------------------------------------
(* The decision: every core's own top *)

\* r differs from s in nothing but the decision and what comes of storing it.
SameButDecision(s, r) ==
    /\ r \in Contexts /\ r.fresh \in {s.fresh, {}}
    /\ r.state = s.state /\ r.prio = s.prio /\ r.ideal = s.ideal /\ r.core = s.core
    /\ r.mask = s.mask /\ r.virtual = s.virtual
    /\ r.scheduled = s.scheduled /\ r.suggested = s.suggested
    /\ r.pinned = s.pinned /\ r.kernelWaiters = s.kernelWaiters /\ r.update = s.update

LEMMA StoreHighestIs ==
    ASSUME NEW s \in Contexts, NEW c \in Cores, NEW t \in Decisions,
           NEW r, r = StoreHighest(s, c, t)
    PROVE  /\ SameButDecision(s, r)
           /\ r.highest = [s.highest EXCEPT ![c] = t]
           /\ s.highest[c] = t => r.stores = s.stores
           /\ s.highest[c] # t => r.stores = Append(s.stores, <<c, t>>)
<1>1. PICK h, w, stored :
         /\ h = [s.highest EXCEPT ![c] = t] /\ w = Append(s.stores, <<c, t>>)
         /\ stored = [s EXCEPT !.highest = h, !.stores = w]
    OBVIOUS
<1>2. s.stores \in Seq(Cores \X Decisions) /\ s.highest \in [Cores -> Decisions] /\ s.fresh \in SUBSET Threads
    BY DEF Contexts
<1>3. w \in Seq(Cores \X Decisions) /\ h \in [Cores -> Decisions]
  <2>1. <<c, t>> \in Cores \X Decisions
    OBVIOUS
  <2>2. QED BY <1>1, <1>2, <2>1
<1>4. SameButDecision(s, stored) /\ stored.highest = h /\ stored.stores = w
    BY <1>1, <1>3 DEF Contexts, SameButDecision
<1>5. CASE s.highest[c] = t
  <2>1. r = s
    BY <1>5 DEF StoreHighest
  <2>2. h = s.highest
    BY <1>1, <1>2, <1>5
  <2>3. QED BY <1>1, <1>5, <2>1, <2>2 DEF SameButDecision
<1>6. CASE s.highest[c] # t
  <2>1. r = IF s.highest[c] = Null THEN stored ELSE IncrementScheduledCount(stored)
    BY <1>1, <1>6 DEF StoreHighest
  <2>2. PICK q : q = IncrementScheduledCount(stored)
    OBVIOUS
  <2>3. SameButDecision(s, q) /\ q.highest = h /\ q.stores = w
    BY <1>4, <2>2 DEF Contexts, SameButDecision, IncrementScheduledCount
  <2>4. QED BY <1>1, <1>4, <1>6, <2>1, <2>2, <2>3
<1>7. QED BY <1>5, <1>6

\* The log w of the stores leads from the decision h to the decision e: the last
\* store of a core, if there is one, is its decision.
LogLeads(w, h, e) ==
    \A c \in Cores :
        \/ /\ e[c] = h[c]
           /\ \A i \in 1 .. Len(w) : w[i][1] # c
        \/ \E i \in 1 .. Len(w) :
              /\ w[i] = <<c, e[c]>>
              /\ \A j \in i + 1 .. Len(w) : w[j][1] # c

\* And every thread stored may run.
LogRuns(w, s) ==
    \A i \in 1 .. Len(w) : w[i][2] # Null =>
        s.state[w[i][2]] = "Runnable" /\ s.core[w[i][2]] \in Cores

Logged(h, s) == LogLeads(s.stores, h, s.highest) /\ LogRuns(s.stores, s)

\* r comes from s by storing decisions and bringing threads to cores.
Follows(s, r) ==
    /\ r.state = s.state /\ StayOnCores(s, r, Threads)
    /\ \A h : Logged(h, s) => Logged(h, r)

LEMMA FollowsCompose ==
    ASSUME NEW s, NEW q, NEW r, Follows(s, q), Follows(q, r)
    PROVE  Follows(s, r)
BY DEF Follows, StayOnCores

LEMMA SameLogFollows ==
    ASSUME NEW s \in Contexts, NEW r, r.state = s.state, StayOnCores(s, r, Threads),
           r.highest = s.highest, r.stores = s.stores
    PROVE  Follows(s, r)
<1>1. s.stores \in Seq(Cores \X Decisions)
    BY DEF Contexts
<1>2. \A i \in 1 .. Len(s.stores) : s.stores[i][2] \in Decisions
    BY <1>1
<1>3. ASSUME NEW h, Logged(h, s) PROVE Logged(h, r)
  <2>1. ASSUME NEW i \in 1 .. Len(s.stores), s.stores[i][2] # Null
        PROVE  r.state[s.stores[i][2]] = "Runnable" /\ r.core[s.stores[i][2]] \in Cores
    <3>1. PICK t : t = s.stores[i][2]
      OBVIOUS
    <3>2. t \in Threads /\ s.state[t] = "Runnable" /\ s.core[t] \in Cores
      BY <1>2, <1>3, <2>1, <3>1 DEF Logged, LogRuns, Decisions
    <3>3. QED BY <3>1, <3>2 DEF StayOnCores
  <2>2. LogRuns(s.stores, r)
    BY <2>1 DEF LogRuns
  <2>3. QED BY <1>3, <2>2 DEF Logged
<1>4. QED BY <1>3 DEF Follows

\* Storing the decision of a core logs it.
LEMMA StoreFollows ==
    ASSUME NEW s \in Contexts, NEW c \in Cores, NEW t \in Decisions,
           t # Null => s.state[t] = "Runnable" /\ s.core[t] \in Cores,
           NEW r, r = StoreHighest(s, c, t)
    PROVE  Follows(s, r)
<1>1. /\ r.highest = [s.highest EXCEPT ![c] = t]
      /\ r.state = s.state /\ r.core = s.core
      /\ s.highest[c] = t => r.stores = s.stores
      /\ s.highest[c] # t => r.stores = Append(s.stores, <<c, t>>)
    BY StoreHighestIs DEF SameButDecision
<1>2. s.highest \in [Cores -> Decisions] /\ s.stores \in Seq(Cores \X Decisions)
    BY DEF Contexts
<1>3. StayOnCores(s, r, Threads)
    BY <1>1 DEF StayOnCores
<1>4. CASE s.highest[c] = t
  <2>1. r.highest = s.highest
    BY <1>1, <1>2, <1>4
  <2>2. QED BY <1>1, <1>3, <1>4, <2>1, SameLogFollows
<1>5. CASE s.highest[c] # t
  <2>1. PICK w, v, n : w = s.stores /\ v = r.stores /\ n = Len(w)
    OBVIOUS
  <2>2. n \in Nat /\ Len(v) = n + 1 /\ v[n + 1] = <<c, t>>
        /\ \A i \in 1 .. n : v[i] = w[i] /\ v[i][2] \in Decisions
    BY <1>1, <1>2, <1>5, <2>1
  <2>3. /\ r.highest[c] = t
        /\ \A d \in Cores \ {c} : r.highest[d] = s.highest[d]
    BY <1>1, <1>2
  <2>4. ASSUME NEW h, Logged(h, s) PROVE Logged(h, r)
    <3>1. ASSUME NEW d \in Cores \ {c}
          PROVE  \/ /\ r.highest[d] = h[d]
                    /\ \A i \in 1 .. Len(v) : v[i][1] # d
                 \/ \E i \in 1 .. Len(v) :
                       /\ v[i] = <<d, r.highest[d]>>
                       /\ \A j \in i + 1 .. Len(v) : v[j][1] # d
      <4>1. CASE s.highest[d] = h[d] /\ \A i \in 1 .. n : w[i][1] # d
        BY <2>2, <2>3, <4>1
      <4>2. CASE \E i \in 1 .. n : /\ w[i] = <<d, s.highest[d]>>
                                   /\ \A j \in i + 1 .. n : w[j][1] # d
        <5>1. PICK i \in 1 .. n : /\ w[i] = <<d, s.highest[d]>>
                                  /\ \A j \in i + 1 .. n : w[j][1] # d
          BY <4>2
        <5>2. i \in 1 .. Len(v) /\ v[i] = <<d, r.highest[d]>>
          BY <2>2, <2>3, <5>1
        <5>3. \A j \in i + 1 .. Len(v) : v[j][1] # d
          BY <2>2, <5>1
        <5>4. QED BY <5>2, <5>3
      <4>3. QED BY <2>1, <2>4, <4>1, <4>2 DEF Logged, LogLeads
    <3>2. \E i \in 1 .. Len(v) : /\ v[i] = <<c, r.highest[c]>>
                                 /\ \A j \in i + 1 .. Len(v) : v[j][1] # c
      BY <2>2, <2>3
    <3>3. \A i \in 1 .. Len(v) : v[i][2] # Null =>
             r.state[v[i][2]] = "Runnable" /\ r.core[v[i][2]] \in Cores
      <4>1. LogRuns(w, s)
        BY <2>1, <2>4 DEF Logged
      <4>2. \A i \in 1 .. n : v[i][2] # Null =>
               s.state[v[i][2]] = "Runnable" /\ s.core[v[i][2]] \in Cores
        BY <2>1, <2>2, <4>1 DEF LogRuns
      <4>3. v[n + 1][2] = t
        BY <2>2
      <4>4. \A i \in 1 .. Len(v) : i \in 1 .. n \/ i = n + 1
        BY <2>2
      <4>5. QED BY <1>1, <4>2, <4>3, <4>4
    <3>4. ASSUME NEW d \in Cores
          PROVE  \/ /\ r.highest[d] = h[d]
                    /\ \A i \in 1 .. Len(v) : v[i][1] # d
                 \/ \E i \in 1 .. Len(v) :
                       /\ v[i] = <<d, r.highest[d]>>
                       /\ \A j \in i + 1 .. Len(v) : v[j][1] # d
      <4>1. CASE d = c
        BY <3>2, <4>1
      <4>2. CASE d # c
        BY <3>1, <4>2
      <4>3. QED BY <4>1, <4>2
    <3>5. v = r.stores
      BY <2>1
    <3>6. LogLeads(v, h, r.highest) /\ LogRuns(v, r)
      BY ONLY <3>3, <3>4 DEF LogLeads, LogRuns
    <3>7. QED BY <3>5, <3>6 DEF Logged
  <2>5. QED BY <1>1, <1>3, <2>4 DEF Follows
<1>6. QED BY <1>4, <1>5

\* Nothing but the decision depends on it.
LEMMA DecisionKeeps ==
    ASSUME NEW s, NEW r, SameButDecision(s, r)
    PROVE  /\ Ready(s) => Ready(r)
           /\ \A t \in Threads : \A c : Active(r, t, c) <=> Active(s, t, c)
           /\ \A c \in Cores : ScheduledFront(r, c) = ScheduledFront(s, c)
           /\ \A c \in Cores : OwnTop(r, c) = OwnTop(s, c)
<1>1. \A c \in Cores, q \in Priorities :
         ScheduledAt(r, c, q) = ScheduledAt(s, c, q) /\ SuggestedAt(r, c, q) = SuggestedAt(s, c, q)
    BY DEF SameButDecision, ScheduledAt, SuggestedAt, SuggestedCores
<1>2. ASSUME Ready(s) PROVE Ready(r)
  <2>1. Queued(r)
    BY <1>1, <1>2 DEF SameButDecision, Ready, Sound, Queued
  <2>2. Placed(r) /\ Counted(r)
    BY <1>2 DEF SameButDecision, Ready, Sound, Placed, Counted, Active
  <2>3. Bound(r)
    BY <1>2, BoundFrom DEF SameButDecision, Ready
  <2>4. QED BY <2>1, <2>2, <2>3 DEF SameButDecision, Ready, Sound
<1>3. \A c \in Cores : ScheduledFront(r, c) = ScheduledFront(s, c)
    BY DEF SameButDecision, ScheduledFront
<1>4. \A c \in Cores : OwnTop(r, c) = OwnTop(s, c)
    BY <1>3 DEF SameButDecision, OwnTop
<1>5. QED BY <1>2, <1>3, <1>4 DEF SameButDecision, Active

LEMMA OwnTopIs ==
    ASSUME NEW s, Ready(s), NEW c \in Cores, NEW top, top = OwnTop(s, c)
    PROVE  /\ top \in Decisions
           /\ top # Null => Active(s, top, c)
           /\ top \in {Null, s.pinned[c], ScheduledFront(s, c)}
           /\ s.pinned[c] = Null => top = ScheduledFront(s, c)
           /\ ScheduledFront(s, c) = Null => top = Null
<1>1. s \in Contexts /\ Queued(s) /\ Bound(s)
    BY DEF Ready, Sound
<1>2. s.pinned[c] \in Decisions
    BY <1>1 DEF Contexts
<1>3. /\ ScheduledFront(s, c) \in Decisions
      /\ ScheduledFront(s, c) # Null => Active(s, ScheduledFront(s, c), c)
    BY <1>1, ScheduledFrontIs DEF Decisions
<1>4. s.pinned[c] # Null => s.core[s.pinned[c]] = c
    BY <1>1 DEF Bound
<1>5. QED BY <1>2, <1>3, <1>4 DEF OwnTop, Active, Decisions

\* The decision names threads that are active on their core: the most urgent
\* one, but for the sake of a pinned thread.
Decided(s) ==
    \A c \in Cores :
        /\ s.highest[c] # Null => Active(s, s.highest[c], c)
        /\ s.highest[c] \in {Null, s.pinned[c], ScheduledFront(s, c)}
        /\ s.pinned[c] = Null => s.highest[c] = ScheduledFront(s, c)

LEMMA OwnTopsDecide ==
    ASSUME NEW s, Ready(s)
    PROVE  LET r == OwnTops(s)
           IN  /\ SameButDecision(s, r) /\ Follows(s, r)
               /\ \A c \in Cores : r.highest[c] = OwnTop(s, c)
<1> DEFINE n == NumCores
           V == {v \in Contexts : SameButDecision(s, v) /\ Follows(s, v)}
           step == [i \in 1 .. n |-> [v \in V |-> OwnTopStored(v, i - 1)]]
           upTo == CHOOSE f : f = [i \in 0 .. n |->
                      IF i = 0 THEN s ELSE OwnTopStored(f[i - 1], i - 1)]
<1>1. n \in Nat /\ n >= 1 /\ \A i \in 1 .. n : i - 1 \in Cores /\ i - 1 \in 0 .. n
    BY ConstantsMakeSense DEF Cores
<1>2. s \in V
    BY DEF Ready, Sound, SameButDecision, Follows, StayOnCores
<1>3. ASSUME NEW v \in V, NEW c \in Cores
      PROVE  /\ OwnTopStored(v, c) \in V
             /\ OwnTopStored(v, c).highest = [v.highest EXCEPT ![c] = OwnTop(s, c)]
  <2>1. SameButDecision(s, v) /\ OwnTop(v, c) = OwnTop(s, c)
    BY DecisionKeeps
  <2>2. PICK top : top = OwnTop(s, c)
    OBVIOUS
  <2>3. /\ top \in Decisions /\ v \in Contexts
        /\ top # Null => v.state[top] = "Runnable" /\ v.core[top] \in Cores
    BY <2>1, <2>2, OwnTopIs DEF SameButDecision, Active
  <2> HIDE DEF V, step, upTo
  <2>r. PICK r : r = StoreHighest(v, c, top)
    OBVIOUS
  <2>4. SameButDecision(v, r) /\ r.highest = [v.highest EXCEPT ![c] = top]
    BY <2>3, <2>r, StoreHighestIs
  <2>5. SameButDecision(s, r)
    BY <2>1, <2>4 DEF SameButDecision
  <2>6. r = OwnTopStored(v, c)
    BY <2>1, <2>2, <2>r DEF OwnTopStored
  <2>7. Follows(s, v)
    BY DEF V
  <2>8. Follows(s, r)
    BY <2>3, <2>7, <2>r, StoreFollows, FollowsCompose
  <2>9. QED BY <2>2, <2>4, <2>5, <2>6, <2>8 DEF V, SameButDecision
<1>4. step \in [1 .. n -> [V -> V]]
    BY <1>1, <1>3
<1>5. \E f \in [0 .. n -> V] : Computes(f, n, s, step)
  <2> HIDE DEF step, n, V
  <2>1. n \in Nat
    BY <1>1
  <2> HIDE DEF upTo
  <2>2. QED BY <1>2, <1>4, <2>1, RecursionUpTo
<1>6. PICK f \in [0 .. n -> V] : f[0] = s /\ \A i \in 1 .. n : f[i] = step[i][f[i - 1]]
    BY <1>5 DEF Computes
<1>7. ASSUME NEW i \in 1 .. n PROVE f[i] = OwnTopStored(f[i - 1], i - 1)
  <2>1. f[i - 1] \in V
    BY <1>1
  <2>2. step[i][f[i - 1]] = OwnTopStored(f[i - 1], i - 1)
    BY <2>1
  <2>3. QED BY <1>6, <2>2
<1> HIDE DEF n, V, step
<1>8. f = [i \in 0 .. n |-> IF i = 0 THEN s ELSE OwnTopStored(f[i - 1], i - 1)]
  <2>1. \A i \in 0 .. n : i # 0 => i \in 1 .. n
    BY <1>1
  <2>2. QED BY <1>6, <1>7, <2>1
<1>9. upTo = [i \in 0 .. n |-> IF i = 0 THEN s ELSE OwnTopStored(upTo[i - 1], i - 1)]
    BY <1>8
<1>10. OwnTops(s) = upTo[n]
    BY DEF OwnTops, n
<1> HIDE DEF upTo
<1> DEFINE P == {i \in 0 .. n : upTo[i] \in V
                               /\ \A c \in Cores : c < i => upTo[i].highest[c] = OwnTop(s, c)}
<1>11. 0 \in P
  <2>1. upTo[0] = s
    BY <1>1, <1>9
  <2>2. \A c \in Cores : ~(c < 0)
    BY ConstantsMakeSense
  <2>3. QED BY <1>1, <1>2, <2>1, <2>2
<1>12. ASSUME NEW i \in 0 .. (n - 1), i \in P PROVE i + 1 \in P
  <2>1. PICK j : j = i + 1
    OBVIOUS
  <2>2. j \in 1 .. n /\ j \in 0 .. n /\ j # 0 /\ j - 1 = i /\ i \in Cores
    BY <1>1, <2>1 DEF Cores, n
  <2>3. upTo[j] = OwnTopStored(upTo[i], i)
    BY <1>9, <2>2
  <2>4. PICK v, r : v = upTo[i] /\ r = upTo[j]
    OBVIOUS
  <2>5. v \in V /\ \A c \in Cores : c < i => v.highest[c] = OwnTop(s, c)
    BY <1>12, <2>4
  <2>6. r \in V /\ r.highest = [v.highest EXCEPT ![i] = OwnTop(s, i)]
    BY <1>3, <2>2, <2>3, <2>4, <2>5
  <2>7. v.highest \in [Cores -> Decisions]
    BY <2>5 DEF V, Contexts
  <2>8. ASSUME NEW c \in Cores, c < j PROVE r.highest[c] = OwnTop(s, c)
    <3>1. c = i \/ c < i
      BY <2>1, <2>8, ConstantsMakeSense
    <3>2. QED BY <2>2, <2>5, <2>6, <2>7, <3>1
  <2>9. QED BY <2>1, <2>2, <2>4, <2>6, <2>8
<1>13. n \in P
  <2> HIDE DEF P
  <2>1. \A i \in 0 .. n : i \in P
    BY <1>1, <1>11, <1>12, InductionUpTo
  <2>2. QED BY <1>1, <2>1
<1>14. PICK r : r = upTo[n]
    OBVIOUS
<1>15. r \in V /\ \A c \in Cores : r.highest[c] = OwnTop(s, c)
    BY <1>13, <1>14, ConstantsMakeSense DEF n
<1>16. SameButDecision(s, r) /\ Follows(s, r)
    BY <1>15 DEF V
<1>17. QED BY <1>10, <1>14, <1>15, <1>16

LEMMA OwnTopsDecided ==
    ASSUME NEW s, Ready(s), NEW r, r = OwnTops(s)
    PROVE  /\ SameButDecision(s, r) /\ Ready(r) /\ Decided(r) /\ Follows(s, r)
           /\ \A c \in Cores : ScheduledFront(r, c) = Null => r.highest[c] = Null
<1>1. /\ SameButDecision(s, r) /\ Follows(s, r)
      /\ \A c \in Cores : r.highest[c] = OwnTop(s, c)
    BY OwnTopsDecide
<1>2. /\ Ready(r)
      /\ \A t \in Threads : \A c : Active(r, t, c) <=> Active(s, t, c)
      /\ \A c \in Cores : ScheduledFront(r, c) = ScheduledFront(s, c)
    BY <1>1, DecisionKeeps
<1>3. ASSUME NEW c \in Cores
      PROVE  /\ r.highest[c] \in Decisions
             /\ r.highest[c] # Null => Active(s, r.highest[c], c)
             /\ r.highest[c] \in {Null, s.pinned[c], ScheduledFront(s, c)}
             /\ s.pinned[c] = Null => r.highest[c] = ScheduledFront(s, c)
             /\ ScheduledFront(s, c) = Null => r.highest[c] = Null
  <2>1. PICK top : top = OwnTop(s, c)
    OBVIOUS
  <2>2. QED BY <1>1, <2>1, OwnTopIs
<1>4. r.pinned = s.pinned
    BY <1>1 DEF SameButDecision
<1>5. Decided(r)
    BY <1>2, <1>3, <1>4 DEF Decided, Decisions
<1>6. QED BY <1>1, <1>2, <1>3, <1>5

-----------------------------------------------------------------------------
(* The decision: idle cores are filled *)

\* A thread leaves its core for one that has none: the cores keep their first
\* threads, and the core it was the first of goes on with the next one.
LEMMA MigrateBrings ==
    ASSUME NEW s, Ready(s), NEW c \in Cores, \A t \in Threads : ~Active(s, t, c),
           NEW x \in Threads, Suggested(s, x, c), NEW front \in BOOLEAN,
           NEW q, q = Migrate(s, x, c, front)
    PROVE  /\ Ready(q) /\ SameButPlaces(s, q) /\ q.core = [s.core EXCEPT ![x] = c]
           /\ \A d \in Cores \ {c} :
                 /\ ScheduledFront(s, d) = x => ScheduledFront(q, d) = ScheduledNext(s, d, x)
                 /\ ScheduledFront(s, d) # x => ScheduledFront(q, d) = ScheduledFront(s, d)
<1>1. Kept(s) /\ Counted(s) /\ s \in Contexts /\ Queued(s) /\ Placed(s) /\ Bound(s)
    BY ReadyIsKept DEF Kept
<1>2. /\ s.state[x] = "Runnable" /\ c \in CoreIds /\ c \in s.mask[x] \cup {NoCore}
      /\ s.core[x] \in s.mask[x] \cup {NoCore} /\ s.core[x] # c
    BY <1>1 DEF Suggested, CoreIds, Placed
<1>3. ~IsPinned(s, x)
    BY <1>1, SuggestedNotPinned
<1>5. PICK m : m = Migrate(s, x, c, front)
    OBVIOUS
<1>6. m = q
    BY <1>5
<1>7. Kept(m) /\ SameButPlaces(s, m) /\ m.core = [s.core EXCEPT ![x] = c]
    BY <1>1, <1>2, <1>3, <1>5, MigrateKept
<1>8. \A d \in Cores \ {c} :
         /\ d = s.core[x] => m.scheduled[d] = Without(s.scheduled[d], s.prio[x], x)
         /\ d # s.core[x] => m.scheduled[d] = s.scheduled[d]
    BY <1>1, <1>2, <1>5, MigrateLeaves
<1>9. s.core \in [Threads -> CoreIds] /\ s.fresh \in SUBSET Threads
    BY <1>1 DEF Contexts
<1>10. m.core[x] = c /\ \A u \in Threads \ {x} : m.core[u] = s.core[u] /\ s.core[u] \in CoreIds
    BY <1>7, <1>9
<1>11. Counted(m)
  <2> SUFFICES ASSUME NEW t \in m.fresh, m.state[t] = "Runnable"
               PROVE  /\ m.core[t] \in Cores
                      /\ \A u \in Threads : Active(m, u, m.core[t]) /\ m.prio[u] = m.prio[t] => u = t
    BY DEF Counted
  <2>1. /\ t \in s.fresh /\ s.state[t] = "Runnable" /\ m.state = s.state /\ m.prio = s.prio
        /\ t \in Threads
    BY <1>7, <1>9 DEF SameButPlaces
  <2>2. /\ s.core[t] \in Cores
        /\ \A u \in Threads : Active(s, u, s.core[t]) /\ s.prio[u] = s.prio[t] => u = t
    BY <1>1, <2>1 DEF Counted
  <2>3. CASE t = x
    <3>1. \A u \in Threads : Active(m, u, c) => u = x
      BY <1>10, <2>1 DEF Active
    <3>2. QED BY <1>10, <2>3, <3>1
  <2>4. CASE t # x
    <3>1. m.core[t] = s.core[t] /\ s.core[t] # c
      BY <1>10, <2>1, <2>4 DEF Active
    <3>2. \A u \in Threads : Active(m, u, m.core[t]) => Active(s, u, s.core[t])
      BY <1>10, <2>1, <3>1 DEF Active
    <3>3. QED BY <2>1, <2>2, <3>1, <3>2
  <2>5. QED BY <2>3, <2>4
<1>12. Ready(m)
    BY <1>7, <1>11, ReadyIsKept
<1>13. ASSUME NEW d \in Cores \ {c}
       PROVE  /\ ScheduledFront(s, d) = x => ScheduledFront(m, d) = ScheduledNext(s, d, x)
              /\ ScheduledFront(s, d) # x => ScheduledFront(m, d) = ScheduledFront(s, d)
  <2>1. PICK queue, p : queue = s.scheduled[d] /\ p = s.prio[x]
    OBVIOUS
  <2>2. ScheduledFront(s, d) = FrontOf(queue) /\ ScheduledFront(m, d) = FrontOf(m.scheduled[d])
    BY <2>1, ConstantsMakeSense DEF ScheduledFront
  <2>3. CASE d # s.core[x]
    <3>1. ScheduledFront(m, d) = ScheduledFront(s, d)
      BY <1>8, <2>1, <2>2, <2>3
    <3>2. ScheduledFront(s, d) # x
      BY <1>1, <2>3, ScheduledFrontIs, ConstantsMakeSense DEF Active
    <3>3. QED BY <3>1, <3>2
  <2>4. CASE d = s.core[x]
    <3>1. m.scheduled[d] = Without(queue, p, x)
      BY <1>8, <2>1, <2>4
    <3>2. Active(s, x, d)
      BY <1>2, <2>4 DEF Active
    <3>3. CASE ScheduledFront(s, d) = x
      <4>1. \/ /\ ScheduledNext(s, d, x) = Null
               /\ \A t \in Threads : Active(s, t, d) => t = x
            \/ FrontOf(Without(s.scheduled[d], s.prio[x], x)) = ScheduledNext(s, d, x)
        BY <1>1, <3>3, ScheduledNextIs
      <4>2. CASE FrontOf(Without(s.scheduled[d], s.prio[x], x)) = ScheduledNext(s, d, x)
        BY <2>1, <2>2, <3>1, <3>3, <4>2
      <4>3. CASE /\ ScheduledNext(s, d, x) = Null
                 /\ \A t \in Threads : Active(s, t, d) => t = x
        <5>1. \A t \in Threads : ~Active(m, t, d)
          BY <1>7, <1>10, <4>3 DEF Active, SameButPlaces
        <5>2. m \in Contexts /\ Queued(m)
          BY <1>7 DEF Kept
        <5>3. ScheduledFront(m, d) = Null
          BY <5>1, <5>2, ScheduledFrontIs
        <5>4. QED BY <3>3, <4>3, <5>3
      <4>4. QED BY <4>1, <4>2, <4>3
    <3>4. CASE ScheduledFront(s, d) # x
      <4>1. queue \in [Priorities -> Seq(Threads)] /\ p \in Priorities
        BY <1>1, <2>1, WhoIsQueued
      <4>2. FrontOf(queue) \in Threads /\ FrontOf(queue) # x
        BY <1>1, <2>2, <3>2, <3>4, ScheduledFrontIs
      <4>3. PICK kept : kept = Without(queue, p, x)
        OBVIOUS
      <4>4. /\ kept \in [Priorities -> Seq(Threads)]
            /\ \A q0 \in Priorities : kept[q0] \in {queue[q0], Keep(queue[q0], Threads \ {x})}
        <5>1. Keep(queue[p], Threads \ {x}) \in Seq(Threads)
          <6>1. queue[p] \in Seq(Threads)
            BY <4>1
          <6>2. QED BY <6>1, KeepElements
        <5>2. QED BY <4>1, <4>3, <5>1 DEF Without
      <4>5. FrontOf(kept) = FrontOf(queue)
        BY <4>1, <4>2, <4>4, FrontOfKept
      <4>6. QED BY <2>2, <3>1, <3>4, <4>3, <4>5
    <3>5. QED BY <3>3, <3>4
  <2>5. QED BY <2>3, <2>4
<1>14. QED BY <1>6, <1>7, <1>12, <1>13

\* r is s with the thread x brought to core c to run there.
Brought(s, r, x, c) ==
    /\ Ready(r) /\ Follows(s, r)
    /\ r.state = s.state /\ r.prio = s.prio /\ r.mask = s.mask /\ r.pinned = s.pinned
    /\ r.update = s.update
    /\ r.core = [s.core EXCEPT ![x] = c] /\ r.highest[c] = x
    /\ \A d \in Cores \ {c} :
          /\ s.highest[d] = x => /\ r.highest[d] # Null /\ r.highest[d] = ScheduledFront(r, d)
                                 /\ ScheduledFront(s, d) = x
          /\ s.highest[d] # x => r.highest[d] = s.highest[d]
    /\ \A d \in Cores \ {c} :
          ScheduledFront(s, d) # x => ScheduledFront(r, d) = ScheduledFront(s, d)

\* Bringing a thread to a core and deciding for it.
LEMMA BringingFollows ==
    ASSUME NEW s \in Contexts, NEW c \in Cores, NEW x \in Threads, s.state[x] = "Runnable",
           NEW q \in Contexts, SameButPlaces(s, q), q.core = [s.core EXCEPT ![x] = c],
           NEW r, r = StoreHighest(q, c, x)
    PROVE  Follows(s, r)
<1>1. s.core \in [Threads -> CoreIds]
    BY DEF Contexts
<1>2. q.core[x] = c /\ StayOnCores(s, q, Threads)
    BY <1>1 DEF StayOnCores
<1>3. q.state = s.state /\ q.highest = s.highest /\ q.stores = s.stores
    BY DEF SameButPlaces
<1>4. Follows(s, q)
    BY <1>2, <1>3, SameLogFollows
<1>5. x \in Decisions /\ q.state[x] = "Runnable" /\ q.core[x] \in Cores
    BY <1>2, <1>3 DEF Decisions
<1>6. Follows(q, r)
    BY <1>5, StoreFollows
<1>7. QED BY <1>4, <1>6, FollowsCompose

\* A thread that no core runs comes to the idle core.
LEMMA WaitingIsBrought ==
    ASSUME NEW s, Ready(s), Decided(s), NEW c \in Cores, \A t \in Threads : ~Active(s, t, c),
           NEW x \in Threads, Suggested(s, x, c), TopOn(s, s.core[x]) # x,
           NEW front \in BOOLEAN, NEW r, r = StoreHighest(Migrate(s, x, c, front), c, x)
    PROVE  Brought(s, r, x, c)
<1>1. PICK q : q = Migrate(s, x, c, front)
    OBVIOUS
<1>2. /\ Ready(q) /\ SameButPlaces(s, q) /\ q.core = [s.core EXCEPT ![x] = c]
      /\ \A d \in Cores \ {c} :
            /\ ScheduledFront(s, d) = x => ScheduledFront(q, d) = ScheduledNext(s, d, x)
            /\ ScheduledFront(s, d) # x => ScheduledFront(q, d) = ScheduledFront(s, d)
    BY <1>1, MigrateBrings
<1>3. q \in Contexts /\ x \in Decisions /\ r = StoreHighest(q, c, x)
    BY <1>1, <1>2 DEF Ready, Sound, Decisions
<1>4. SameButDecision(q, r) /\ r.highest = [q.highest EXCEPT ![c] = x]
    BY <1>3, StoreHighestIs
<1>5. Ready(r) /\ \A d \in Cores : ScheduledFront(r, d) = ScheduledFront(q, d)
    BY <1>2, <1>4, DecisionKeeps
<1>6. q.highest = s.highest /\ q.highest \in [Cores -> Decisions]
    BY <1>2, <1>3 DEF SameButPlaces, Contexts
<1>7. r.highest[c] = x /\ \A d \in Cores \ {c} : r.highest[d] = s.highest[d]
    BY <1>4, <1>6
<1>8. \A d \in Cores : s.highest[d] # x
  <2> SUFFICES ASSUME NEW d \in Cores, s.highest[d] = x PROVE FALSE
    OBVIOUS
  <2>1. s.core[x] = d
    BY ConstantsMakeSense DEF Decided, Active
  <2>2. QED BY <2>1, ConstantsMakeSense DEF TopOn
<1>9. Follows(s, r)
  <2>1. s \in Contexts /\ s.state[x] = "Runnable"
    BY DEF Ready, Sound, Suggested
  <2>2. QED BY <1>2, <1>3, <2>1, BringingFollows
<1>10. QED BY <1>2, <1>4, <1>5, <1>7, <1>8, <1>9 DEF Brought, SameButPlaces, SameButDecision

\* Or the thread that another core runs, which goes on with its next one.
LEMMA TopIsBrought ==
    ASSUME NEW s, Ready(s), Decided(s), NEW c \in Cores, \A t \in Threads : ~Active(s, t, c),
           NEW x \in Threads, Suggested(s, x, c), TopOn(s, s.core[x]) = x,
           ScheduledNext(s, s.core[x], x) # Null,
           NEW freed, freed = StoreHighest(s, s.core[x], ScheduledNext(s, s.core[x], x)),
           NEW front \in BOOLEAN, NEW r, r = StoreHighest(Migrate(freed, x, c, front), c, x)
    PROVE  Brought(s, r, x, c)
<1>1. PICK b, y : b = s.core[x] /\ y = ScheduledNext(s, b, x)
    OBVIOUS
<1>2. s \in Contexts /\ Queued(s) /\ Bound(s)
    BY DEF Ready, Sound
<1>3. b \in Cores \ {c} /\ s.highest[b] = x
  <2>1. s.core[x] \in CoreIds
    BY <1>2 DEF Contexts
  <2>2. b # NoCore
    BY <1>1, ConstantsMakeSense DEF TopOn
  <2>3. QED BY <1>1, <2>1, <2>2 DEF CoreIds, TopOn, Suggested
<1>4. ScheduledFront(s, b) = x
  <2>1. ~IsPinned(s, x)
    BY <1>2, SuggestedNotPinned
  <2>2. QED BY <1>3, <2>1, ConstantsMakeSense DEF Decided, IsPinned
<1>5. y \in Threads \ {x} /\ y \in Decisions
    BY <1>1, <1>2, <1>3, <1>4, ScheduledNextIs DEF Decisions
<1>6. SameButDecision(s, freed) /\ freed.highest = [s.highest EXCEPT ![b] = y]
  <2>1. freed = StoreHighest(s, b, y)
    BY <1>1
  <2>2. QED BY <1>2, <1>3, <1>5, <2>1, StoreHighestIs
<1>7. /\ Ready(freed) /\ \A t \in Threads : ~Active(freed, t, c)
      /\ \A d \in Cores : ScheduledFront(freed, d) = ScheduledFront(s, d)
    BY <1>6, DecisionKeeps
<1>8. Suggested(freed, x, c) /\ ScheduledNext(freed, b, x) = y
  <2>1. freed.scheduled = s.scheduled /\ freed.prio = s.prio /\ freed.state = s.state
        /\ freed.mask = s.mask /\ freed.core = s.core
    BY <1>6 DEF SameButDecision
  <2>2. ScheduledNext(freed, b, x) = ScheduledNext(s, b, x)
    BY ONLY <2>1 DEF ScheduledNext
  <2>3. Suggested(freed, x, c)
    BY <2>1 DEF Suggested
  <2>4. QED BY <1>1, <2>2, <2>3
<1>9. PICK q : q = Migrate(freed, x, c, front)
    OBVIOUS
<1>10. /\ Ready(q) /\ SameButPlaces(freed, q) /\ q.core = [freed.core EXCEPT ![x] = c]
       /\ \A d \in Cores \ {c} :
             /\ ScheduledFront(freed, d) = x => ScheduledFront(q, d) = ScheduledNext(freed, d, x)
             /\ ScheduledFront(freed, d) # x => ScheduledFront(q, d) = ScheduledFront(freed, d)
    BY <1>7, <1>8, <1>9, MigrateBrings
<1>11. q \in Contexts /\ x \in Decisions /\ r = StoreHighest(q, c, x)
    BY <1>9, <1>10 DEF Ready, Sound, Decisions
<1>12. SameButDecision(q, r) /\ r.highest = [q.highest EXCEPT ![c] = x]
    BY <1>11, StoreHighestIs
<1>13. Ready(r) /\ \A d \in Cores : ScheduledFront(r, d) = ScheduledFront(q, d)
    BY <1>10, <1>12, DecisionKeeps
<1>14. /\ q.highest = [s.highest EXCEPT ![b] = y]
       /\ s.highest \in [Cores -> Decisions] /\ q.highest \in [Cores -> Decisions]
    BY <1>2, <1>6, <1>10, <1>11 DEF SameButPlaces, Contexts
<1>15. /\ r.highest[c] = x /\ r.highest[b] = y
       /\ \A d \in Cores \ {b, c} : r.highest[d] = s.highest[d]
    BY <1>3, <1>12, <1>14
<1>16. \A d \in Cores \ {b} : s.highest[d] # x
    BY <1>1, ConstantsMakeSense DEF Decided, Active
<1>17. ScheduledFront(r, b) = y
    BY <1>3, <1>4, <1>7, <1>8, <1>10, <1>13
<1>18. \A d \in Cores \ {c} :
          ScheduledFront(s, d) # x => ScheduledFront(r, d) = ScheduledFront(s, d)
    BY <1>7, <1>10, <1>13
<1>19. \A d \in Cores \ {c} :
          /\ s.highest[d] = x => /\ r.highest[d] # Null /\ r.highest[d] = ScheduledFront(r, d)
                                 /\ ScheduledFront(s, d) = x
          /\ s.highest[d] # x => r.highest[d] = s.highest[d]
    BY <1>3, <1>4, <1>5, <1>15, <1>16, <1>17, ConstantsMakeSense
<1>20. Follows(s, r)
  <2>1. Active(s, y, b)
    BY <1>1, <1>2, <1>3, <1>4, <1>5, ScheduledNextIs, ConstantsMakeSense
  <2>2. s.state[y] = "Runnable" /\ s.core[y] \in Cores
    BY <1>3, <2>1 DEF Active
  <2>3. Follows(s, freed)
    <3>1. freed = StoreHighest(s, b, y)
      BY <1>1
    <3>2. QED BY <1>2, <1>3, <1>5, <2>2, <3>1, StoreFollows
  <2>4. freed \in Contexts /\ freed.state[x] = "Runnable"
    BY <1>7, <1>8 DEF Ready, Sound, Suggested
  <2>5. Follows(freed, r)
    BY <1>10, <1>11, <2>4, BringingFollows
  <2>6. QED BY <2>3, <2>5, FollowsCompose
<1>21. QED BY <1>6, <1>10, <1>12, <1>13, <1>15, <1>18, <1>19, <1>20
           DEF Brought, SameButPlaces, SameButDecision

\* FillIdleCore brings a thread to the core, or there is none to bring.
LEMMA FillIdleCoreIs ==
    ASSUME NEW s, Ready(s), Decided(s), NEW c \in Cores, \A t \in Threads : ~Active(s, t, c),
           NEW r, r = FillIdleCore(s, c)
    PROVE  \/ /\ r = s
              /\ \/ \A t \in Threads : Suggested(s, t, c) =>
                       /\ TopOn(s, s.core[t]) = t
                       /\ \A x \in Threads : Active(s, x, s.core[t]) => x = t
                 \/ \E t \in Threads : /\ Suggested(s, t, c) /\ TopOn(s, s.core[t]) # t
                                       /\ ~MayMigrate(s, TopOn(s, s.core[t]))
           \/ \E x \in Threads :
                 /\ Suggested(s, x, c) /\ Brought(s, r, x, c)
                 /\ TopOn(s, s.core[x]) # x => MayMigrate(s, TopOn(s, s.core[x]))
<1>1. PICK t, u, N, R : /\ N = NotTop(s) /\ R = Replaceable(s)
                        /\ t = FirstSuggested(s, c, N) /\ u = FirstSuggested(s, c, R)
    OBVIOUS
<1>2. PICK freed : freed = StoreHighest(s, s.core[u], ScheduledNext(s, s.core[u], u))
    OBVIOUS
<1>f. PICK front \in BOOLEAN : front = FALSE
    OBVIOUS
<1>3. r = IF t # Null
          THEN IF MayMigrate(s, TopOn(s, s.core[t]))
               THEN StoreHighest(Migrate(s, t, c, front), c, t) ELSE s
          ELSE IF u = Null THEN s ELSE StoreHighest(Migrate(freed, u, c, front), c, u)
    BY <1>1, <1>2, <1>f DEF FillIdleCore
<1>4. s \in Contexts /\ Queued(s) /\ Bound(s)
    BY DEF Ready, Sound
<1>5. \/ t = Null /\ \A x \in Threads : ~(Suggested(s, x, c) /\ x \in N)
      \/ t \in Threads /\ t \in N /\ Suggested(s, t, c)
    BY <1>1, <1>4, FirstSuggestedIs
<1>6. \/ u = Null /\ \A x \in Threads : ~(Suggested(s, x, c) /\ x \in R)
      \/ u \in Threads /\ u \in R /\ Suggested(s, u, c)
    BY <1>1, <1>4, FirstSuggestedIs
<1>7. CASE t # Null
  <2>1. t \in Threads /\ Suggested(s, t, c) /\ TopOn(s, s.core[t]) # t
    BY <1>1, <1>5, <1>7 DEF NotTop
  <2>2. CASE MayMigrate(s, TopOn(s, s.core[t]))
    <3>1. r = StoreHighest(Migrate(s, t, c, front), c, t)
      BY <1>3, <1>7, <2>2
    <3>2. Brought(s, r, t, c)
      BY <2>1, <3>1, WaitingIsBrought
    <3>3. QED BY <2>1, <2>2, <3>2
  <2>3. CASE ~MayMigrate(s, TopOn(s, s.core[t]))
    BY <1>3, <1>7, <2>1, <2>3
  <2>4. QED BY <2>2, <2>3
<1>8. CASE t = Null /\ u # Null
  <2>1. u \in Threads /\ Suggested(s, u, c) /\ TopOn(s, s.core[u]) = u
        /\ ScheduledNext(s, s.core[u], u) # Null
    BY <1>1, <1>6, <1>8 DEF NotTop, Replaceable
  <2>2. r = StoreHighest(Migrate(freed, u, c, front), c, u)
    BY <1>3, <1>8
  <2>3. Brought(s, r, u, c)
    BY <1>2, <2>1, <2>2, TopIsBrought
  <2>4. QED BY <2>1, <2>3
<1>9. CASE t = Null /\ u = Null
  <2>1. r = s
    BY <1>3, <1>9
  <2>2. ASSUME NEW x \in Threads, Suggested(s, x, c)
        PROVE  /\ TopOn(s, s.core[x]) = x
               /\ \A y \in Threads : Active(s, y, s.core[x]) => y = x
    <3>1. x \notin N /\ x \notin R
      BY <1>5, <1>6, <1>9, <2>2, ConstantsMakeSense
    <3>2. TopOn(s, s.core[x]) = x
      BY <1>1, <3>1 DEF NotTop
    <3>3. ScheduledNext(s, s.core[x], x) = Null
      BY <1>1, <3>1 DEF Replaceable
    <3>4. PICK b : b = s.core[x]
      OBVIOUS
    <3>5. b \in Cores /\ s.highest[b] = x
      <4>1. b \in CoreIds
        BY <1>4, <3>4 DEF Contexts
      <4>2. QED BY <3>2, <3>4, <4>1, ConstantsMakeSense DEF TopOn, CoreIds
    <3>6. ~IsPinned(s, x)
      BY <1>4, <2>2, SuggestedNotPinned
    <3>7. ScheduledFront(s, b) = x
      BY <3>5, <3>6, ConstantsMakeSense DEF Decided, IsPinned
    <3>8. \A y \in Threads : Active(s, y, b) => y = x
      BY <1>4, <3>3, <3>4, <3>5, <3>7, ScheduledNextIs, ConstantsMakeSense
    <3>9. QED BY <3>2, <3>4, <3>8
  <2>3. QED BY <2>1, <2>2
<1>10. QED BY <1>7, <1>8, <1>9

\* The decision stays one after a thread is brought to an idle core.
LEMMA BroughtIsDecided ==
    ASSUME NEW s, Ready(s), Decided(s), NEW c \in Cores, \A t \in Threads : ~Active(s, t, c),
           NEW x \in Threads, Suggested(s, x, c), NEW r, Brought(s, r, x, c)
    PROVE  /\ Decided(r) /\ ScheduledFront(r, c) = x
           /\ \A d \in Cores : s.pinned[d] = Null /\ ScheduledFront(s, d) # Null
                                  => ScheduledFront(r, d) # Null
           /\ \A t \in Threads : Active(r, t, c) <=> t = x
           /\ \A t \in Threads \ {x} : \A d : Active(r, t, d) <=> Active(s, t, d)
           /\ \A d \in Cores : s.highest[d] = x =>
                 \E y \in Threads \ {x} : Active(s, y, d)
<1>1. s \in Contexts /\ r \in Contexts /\ Queued(r)
    BY DEF Brought, Ready, Sound
<1>2. s.core \in [Threads -> CoreIds] /\ r.highest \in [Cores -> Decisions]
    BY <1>1 DEF Contexts
<1>3. r.core[x] = c /\ \A t \in Threads \ {x} : r.core[t] = s.core[t]
    BY <1>2 DEF Brought
<1>4. /\ r.state = s.state /\ r.pinned = s.pinned /\ s.state[x] = "Runnable" /\ s.core[x] # c
      /\ r.highest[c] = x
    BY DEF Brought, Suggested
<1>5. /\ \A t \in Threads : Active(r, t, c) <=> t = x
      /\ \A t \in Threads \ {x} : \A d : Active(r, t, d) <=> Active(s, t, d)
    BY <1>3, <1>4 DEF Active
<1>6. ScheduledFront(r, c) = x
    BY <1>1, <1>5, ScheduledFrontIs
<1>7. ASSUME NEW d \in Cores, s.highest[d] = x
      PROVE  /\ d # c /\ ScheduledFront(s, d) = x
             /\ r.highest[d] # Null /\ r.highest[d] = ScheduledFront(r, d)
             /\ r.highest[d] \in Threads \ {x} /\ Active(r, r.highest[d], d)
  <2>1. d # c
    BY <1>7, ConstantsMakeSense DEF Decided
  <2>2. ScheduledFront(s, d) = x /\ r.highest[d] # Null /\ r.highest[d] = ScheduledFront(r, d)
    BY <1>7, <2>1 DEF Brought
  <2>3. Active(r, r.highest[d], d) /\ r.highest[d] \in Threads
    BY <1>1, <2>2, ScheduledFrontIs
  <2>4. r.highest[d] # x
    BY <1>3, <2>1, <2>3 DEF Active
  <2>5. QED BY <2>1, <2>2, <2>3, <2>4
<1>8. ASSUME NEW d \in Cores \ {c}, s.highest[d] # x
      PROVE  /\ r.highest[d] = s.highest[d]
             /\ r.highest[d] # Null => Active(r, r.highest[d], d)
             /\ r.highest[d] \in {Null, r.pinned[d], ScheduledFront(r, d)}
             /\ r.pinned[d] = Null =>
                   r.highest[d] = ScheduledFront(r, d) /\ ScheduledFront(r, d) = ScheduledFront(s, d)
  <2>1. r.highest[d] = s.highest[d] /\ r.highest[d] \in Decisions
    BY <1>2, <1>8 DEF Brought
  <2>2. /\ s.highest[d] # Null => Active(s, s.highest[d], d)
        /\ s.highest[d] \in {Null, s.pinned[d], ScheduledFront(s, d)}
        /\ s.pinned[d] = Null => s.highest[d] = ScheduledFront(s, d)
    BY DEF Decided
  <2>3. ScheduledFront(s, d) # x => ScheduledFront(r, d) = ScheduledFront(s, d)
    BY DEF Brought
  <2>4. r.highest[d] # Null => Active(r, r.highest[d], d)
    BY <1>5, <1>8, <2>1, <2>2 DEF Decisions
  <2>5. QED BY <1>4, <1>8, <2>1, <2>2, <2>3, <2>4
<1>9. Decided(r)
  <2> SUFFICES ASSUME NEW d \in Cores
               PROVE  /\ r.highest[d] # Null => Active(r, r.highest[d], d)
                      /\ r.highest[d] \in {Null, r.pinned[d], ScheduledFront(r, d)}
                      /\ r.pinned[d] = Null => r.highest[d] = ScheduledFront(r, d)
    BY DEF Decided
  <2>1. CASE d = c
    BY <1>4, <1>5, <1>6, <2>1
  <2>2. CASE d # c /\ s.highest[d] = x
    BY <1>7, <2>2
  <2>3. CASE d # c /\ s.highest[d] # x
    BY <1>8, <2>3
  <2>4. QED BY <2>1, <2>2, <2>3
<1>10. ASSUME NEW d \in Cores, s.pinned[d] = Null, ScheduledFront(s, d) # Null
       PROVE  ScheduledFront(r, d) # Null
  <2>1. CASE d = c
    BY <1>6, <2>1, ConstantsMakeSense
  <2>2. CASE d # c /\ s.highest[d] = x
    BY <1>7, <2>2
  <2>3. CASE d # c /\ s.highest[d] # x
    BY <1>4, <1>8, <1>10, <2>3
  <2>4. QED BY <2>1, <2>2, <2>3
<1>11. \A d \in Cores : s.highest[d] = x => \E y \in Threads \ {x} : Active(s, y, d)
    BY <1>5, <1>7
<1>12. QED BY <1>5, <1>6, <1>9, <1>10, <1>11

\* A core that could not be filled still cannot when a later one is.
LEMMA NothingToTakeStays ==
    ASSUME NEW s, Ready(s), Decided(s), NEW c \in Cores, \A t \in Threads : ~Active(s, t, c),
           s.highest[c] = Null,
           NEW x \in Threads, Suggested(s, x, c), NEW r, Brought(s, r, x, c),
           TopOn(s, s.core[x]) # x => MayMigrate(s, TopOn(s, s.core[x])),
           NEW k \in Cores, k < c, NothingToTake(s, k)
    PROVE  NothingToTake(r, k)
<1>1. /\ \A t \in Threads : Active(r, t, c) <=> t = x
      /\ \A t \in Threads \ {x} : \A d : Active(r, t, d) <=> Active(s, t, d)
      /\ \A d \in Cores : s.highest[d] = x => \E y \in Threads \ {x} : Active(s, y, d)
    BY BroughtIsDecided
<1>2. /\ r.state = s.state /\ r.prio = s.prio /\ r.mask = s.mask /\ r.highest[c] = x
      /\ \A d \in Cores \ {c} : s.highest[d] # x => r.highest[d] = s.highest[d]
    BY DEF Brought
<1>3. s.core \in [Threads -> CoreIds] /\ s.state[x] = "Runnable"
    BY DEF Ready, Sound, Contexts, Suggested
<1>4. \A t \in Threads \ {x} : r.core[t] = s.core[t]
    BY <1>3 DEF Brought
<1>5. \A h : MayMigrate(r, h) <=> MayMigrate(s, h)
    BY <1>2 DEF MayMigrate
<1>6. \A t \in Threads : TopOn(s, s.core[t]) # Null =>
         s.core[t] \in Cores /\ TopOn(s, s.core[t]) = s.highest[s.core[t]]
    BY <1>3 DEF TopOn, CoreIds
<1>7. \A d \in Cores : TopOn(s, d) = s.highest[d] /\ TopOn(r, d) = r.highest[d]
    BY ConstantsMakeSense DEF TopOn
<1> DEFINE able == {t \in Threads : s.state[t] = "Runnable" /\ k \in s.mask[t]}
<1>8. CASE \A t \in able : TopOn(s, s.core[t]) = t /\ Alone(s, s.core[t])
  <2>1. x \notin able
    <3> SUFFICES ASSUME x \in able PROVE FALSE
      OBVIOUS
    <3>1. s.core[x] \in Cores /\ s.highest[s.core[x]] = x /\ Alone(s, s.core[x])
      BY <1>6, <1>8, ConstantsMakeSense
    <3>2. PICK y \in Threads \ {x} : Active(s, y, s.core[x])
      BY <1>1, <3>1
    <3>3. QED BY <3>1, <3>2 DEF Alone, Active
  <2>2. ASSUME NEW t \in able PROVE TopOn(r, r.core[t]) = t /\ Alone(r, r.core[t])
    <3>1. PICK e : e = s.core[t]
      OBVIOUS
    <3>2. t \in Threads \ {x} /\ TopOn(s, e) = t /\ Alone(s, e) /\ s.state[t] = "Runnable"
      BY <1>8, <2>1, <3>1
    <3>3. e \in Cores /\ s.highest[e] = t /\ r.core[t] = e
      BY <1>4, <1>6, <3>1, <3>2, ConstantsMakeSense
    <3>4. e # c
      BY <3>2, <3>3, ConstantsMakeSense
    <3>5. r.highest[e] = t
      BY <1>2, <3>2, <3>3, <3>4
    <3>6. \A u \in Threads : Active(r, u, e) => u = t
      <4> SUFFICES ASSUME NEW u \in Threads, Active(r, u, e) PROVE u = t
        OBVIOUS
      <4>1. u # x
        BY <1>1, <3>4 DEF Active
      <4>2. Active(s, u, e)
        BY <1>1, <4>1
      <4>3. QED BY <3>2, <3>3, <4>2 DEF Alone, Active
    <3>7. QED BY <1>7, <3>3, <3>5, <3>6 DEF Alone, Active
  <2>3. QED BY <1>2, <2>2 DEF NothingToTake
<1>9. CASE \E t \in able : TopOn(s, s.core[t]) # t /\ ~MayMigrate(s, TopOn(s, s.core[t]))
  <2>1. PICK t \in able : TopOn(s, s.core[t]) # t /\ ~MayMigrate(s, TopOn(s, s.core[t]))
    BY <1>9
  <2>2. PICK e, h : e = s.core[t] /\ h = TopOn(s, e)
    OBVIOUS
  <2>3. t \in Threads /\ h # t /\ ~MayMigrate(s, h)
    BY <2>1, <2>2
  <2>4. h # Null /\ e \in Cores /\ h = s.highest[e]
    BY <1>6, <2>2, <2>3 DEF MayMigrate
  <2>5. t # x /\ e # c
    BY <2>1, <2>4
  <2>6. CASE h # x
    <3>1. r.highest[e] = h /\ r.core[t] = e
      BY <1>2, <1>4, <2>2, <2>3, <2>4, <2>5, <2>6
    <3>2. t \in Threads /\ r.state[t] = "Runnable" /\ k \in r.mask[t]
      BY <1>2
    <3>3. TopOn(r, r.core[t]) # t /\ ~MayMigrate(r, TopOn(r, r.core[t]))
      BY <1>5, <1>7, <2>3, <2>4, <3>1
    <3>4. QED BY <3>2, <3>3 DEF NothingToTake
  <2>7. CASE h = x
    <3>1. Alone(r, c)
      BY <1>1, <1>2 DEF Alone, Active
    <3>2. c > k /\ ~MayMigrate(r, r.highest[c])
      BY <1>2, <1>5, <2>3, <2>7, ConstantsMakeSense
    <3>3. QED BY <3>1, <3>2 DEF NothingToTake
  <2>8. QED BY <2>6, <2>7
<1>10. CASE \E d \in Cores : d > k /\ ~MayMigrate(s, s.highest[d]) /\ Alone(s, d)
  <2>1. PICK d \in Cores : d > k /\ ~MayMigrate(s, s.highest[d]) /\ Alone(s, d)
    BY <1>10
  <2>2. s.highest[d] # Null /\ d # c
    BY <2>1 DEF MayMigrate
  <2>3. s.highest[d] # x
    <3> SUFFICES ASSUME s.highest[d] = x PROVE FALSE
      OBVIOUS
    <3>1. PICK y \in Threads \ {x} : Active(s, y, d)
      BY <1>1
    <3>2. QED BY <2>1, <3>1 DEF Alone, Active
  <2>4. r.highest[d] = s.highest[d]
    BY <1>2, <2>2, <2>3
  <2>5. \A u \in Threads : Active(r, u, d) => u = s.highest[d]
    <3> SUFFICES ASSUME NEW u \in Threads, Active(r, u, d) PROVE u = s.highest[d]
      OBVIOUS
    <3>1. u # x
      BY <1>1, <2>2 DEF Active
    <3>2. Active(s, u, d)
      BY <1>1, <3>1
    <3>3. QED BY <2>1, <3>2 DEF Alone, Active
  <2>6. Alone(r, d)
    BY <2>4, <2>5 DEF Alone, Active
  <2>7. QED BY <1>5, <2>1, <2>4, <2>6 DEF NothingToTake
<1>11. QED BY <1>8, <1>9, <1>10 DEF NothingToTake

\* r is the decision b with the cores of the set idle filled up to core n.
Filling(b, idle, r, n) ==
    /\ Ready(r) /\ Decided(r) /\ Follows(b, r)
    /\ r.state = b.state /\ r.prio = b.prio /\ r.mask = b.mask /\ r.pinned = b.pinned
    /\ r.update = b.update
    /\ \A c \in Cores \ idle : b.pinned[c] = Null => ScheduledFront(r, c) # Null
    /\ \A c \in idle : c >= n => r.highest[c] = Null /\ \A t \in Threads : ~Active(r, t, c)
    /\ \A c \in idle : c < n /\ b.pinned[c] = Null /\ ScheduledFront(r, c) = Null
                          => NothingToTake(r, c)

LEMMA FillingStep ==
    ASSUME NEW b, NEW idle \in SUBSET Cores, NEW n \in Cores, NEW s, Filling(b, idle, s, n),
           NEW r, r = FilledIfIdle(s, n, idle)
    PROVE  Filling(b, idle, r, n + 1)
<1>1. \A c \in Cores : (c >= n + 1 => c >= n /\ c # n) /\ (c < n + 1 <=> c < n \/ c = n)
    BY ConstantsMakeSense
<1>2. CASE n \notin idle
  <2>1. r = s
    BY <1>2 DEF FilledIfIdle
  <2>2. QED BY <1>1, <1>2, <2>1 DEF Filling
<1>3. CASE n \in idle
  <2>1. r = FillIdleCore(s, n)
    BY <1>3 DEF FilledIfIdle
  <2>2. /\ Ready(s) /\ Decided(s) /\ s.highest[n] = Null
        /\ \A t \in Threads : ~Active(s, t, n)
    BY <1>3, ConstantsMakeSense DEF Filling
  <2>3. CASE /\ r = s
             /\ \/ \A t \in Threads : Suggested(s, t, n) =>
                       /\ TopOn(s, s.core[t]) = t
                       /\ \A x \in Threads : Active(s, x, s.core[t]) => x = t
                \/ \E t \in Threads : /\ Suggested(s, t, n) /\ TopOn(s, s.core[t]) # t
                                      /\ ~MayMigrate(s, TopOn(s, s.core[t]))
    <3>1. \A t \in Threads : s.state[t] = "Runnable" /\ n \in s.mask[t] => Suggested(s, t, n)
      BY <2>2 DEF Suggested, Active
    <3>2. CASE \A t \in Threads : Suggested(s, t, n) =>
                  /\ TopOn(s, s.core[t]) = t
                  /\ \A x \in Threads : Active(s, x, s.core[t]) => x = t
      <4>1. ASSUME NEW t \in Threads, s.state[t] = "Runnable", n \in s.mask[t]
            PROVE  TopOn(s, s.core[t]) = t /\ Alone(s, s.core[t])
        <5>1. TopOn(s, s.core[t]) = t /\ \A x \in Threads : Active(s, x, s.core[t]) => x = t
          BY <3>1, <3>2, <4>1
        <5>2. s.highest[s.core[t]] = t
          BY <5>1, ConstantsMakeSense DEF TopOn
        <5>3. QED BY <5>1, <5>2 DEF Alone, Active
      <4>2. NothingToTake(s, n)
        BY <4>1 DEF NothingToTake
      <4>3. QED BY <1>1, <2>3, <4>2 DEF Filling
    <3>3. CASE \E t \in Threads : /\ Suggested(s, t, n) /\ TopOn(s, s.core[t]) # t
                                  /\ ~MayMigrate(s, TopOn(s, s.core[t]))
      <4>1. NothingToTake(s, n)
        BY <3>3 DEF Suggested, NothingToTake
      <4>2. QED BY <1>1, <2>3, <4>1 DEF Filling
    <3>4. QED BY <2>3, <3>2, <3>3
  <2>4. CASE \E x \in Threads :
                 /\ Suggested(s, x, n) /\ Brought(s, r, x, n)
                 /\ TopOn(s, s.core[x]) # x => MayMigrate(s, TopOn(s, s.core[x]))
    <3>1. PICK x \in Threads :
                 /\ Suggested(s, x, n) /\ Brought(s, r, x, n)
                 /\ TopOn(s, s.core[x]) # x => MayMigrate(s, TopOn(s, s.core[x]))
      BY <2>4
    <3>2. /\ Decided(r) /\ ScheduledFront(r, n) = x
          /\ \A d \in Cores : s.pinned[d] = Null /\ ScheduledFront(s, d) # Null
                                 => ScheduledFront(r, d) # Null
          /\ \A t \in Threads : Active(r, t, n) <=> t = x
          /\ \A t \in Threads \ {x} : \A d : Active(r, t, d) <=> Active(s, t, d)
          /\ \A d \in Cores : s.highest[d] = x => \E y \in Threads \ {x} : Active(s, y, d)
      BY <2>2, <3>1, BroughtIsDecided
    <3>3. /\ Ready(r) /\ r.update = s.update
          /\ r.state = s.state /\ r.prio = s.prio /\ r.mask = s.mask /\ r.pinned = s.pinned
          /\ \A d \in Cores \ {n} : s.highest[d] # x => r.highest[d] = s.highest[d]
      BY <3>1 DEF Brought
    <3>4. ASSUME NEW c \in idle, c >= n + 1
          PROVE  r.highest[c] = Null /\ \A t \in Threads : ~Active(r, t, c)
      <4>1. c \in Cores /\ c >= n /\ c # n
        BY <1>1, <3>4
      <4>2. s.highest[c] = Null /\ \A t \in Threads : ~Active(s, t, c)
        BY <4>1 DEF Filling
      <4>3. \A t \in Threads : ~Active(r, t, c)
        <5>1. ~Active(r, x, c)
          BY <3>2, <4>1 DEF Active
        <5>2. QED BY <3>2, <4>2, <5>1
      <4>4. QED BY <3>3, <4>1, <4>2, <4>3, ConstantsMakeSense
    <3>5. ASSUME NEW c \in idle, c < n + 1, b.pinned[c] = Null, ScheduledFront(r, c) = Null
          PROVE  NothingToTake(r, c)
      <4>1. c \in Cores /\ c < n
        BY <1>1, <3>2, <3>5, ConstantsMakeSense
      <4>2. s.pinned[c] = Null
        BY <3>5 DEF Filling
      <4>3. ScheduledFront(s, c) = Null
        BY <3>2, <3>5, <4>1, <4>2
      <4>4. NothingToTake(s, c)
        BY <3>5, <4>1, <4>3 DEF Filling
      <4>5. QED BY <2>2, <3>1, <4>1, <4>4, NothingToTakeStays
    <3>6. \A c \in Cores \ idle : b.pinned[c] = Null => ScheduledFront(r, c) # Null
      BY <3>2 DEF Filling
    <3>7. Follows(b, r)
      <4>1. Follows(b, s) /\ Follows(s, r)
        BY <3>1 DEF Filling, Brought
      <4>2. QED BY <4>1, FollowsCompose
    <3>8. QED BY <3>2, <3>3, <3>4, <3>5, <3>6, <3>7 DEF Filling
  <2>5. QED BY <2>1, <2>2, <2>3, <2>4, FillIdleCoreIs
<1>4. QED BY <1>2, <1>3

LEMMA IdleCoresAreFilled ==
    ASSUME NEW b, NEW idle \in SUBSET Cores, Filling(b, idle, b, 0)
    PROVE  Filling(b, idle, IdleCoresFilled(b, idle), NumCores)
<1> DEFINE n == NumCores
           V == Contexts
           step == [i \in 1 .. n |-> [v \in V |->
                      IF Filling(b, idle, v, i - 1) THEN FilledIfIdle(v, i - 1, idle) ELSE v]]
           upTo == CHOOSE f : f = [i \in 0 .. n |->
                      IF i = 0 THEN b ELSE FilledIfIdle(f[i - 1], i - 1, idle)]
<1>1. n \in Nat /\ n >= 1 /\ \A i \in 1 .. n : i - 1 \in Cores /\ i - 1 \in 0 .. n /\ (i - 1) + 1 = i
    BY ConstantsMakeSense DEF Cores
<1>2. b \in V
    BY DEF Filling, Ready, Sound
<1>3. ASSUME NEW v \in V, NEW i \in 1 .. n, Filling(b, idle, v, i - 1)
      PROVE  Filling(b, idle, FilledIfIdle(v, i - 1, idle), i) /\ FilledIfIdle(v, i - 1, idle) \in V
  <2>1. PICK c, r : c = i - 1 /\ r = FilledIfIdle(v, c, idle)
    OBVIOUS
  <2>2. c \in Cores /\ c + 1 = i
    BY <1>1, <2>1
  <2>3. Filling(b, idle, r, c + 1)
    BY <1>3, <2>1, <2>2, FillingStep
  <2>4. r \in V
    BY <2>3 DEF Filling, Ready, Sound
  <2>5. QED BY <2>1, <2>2, <2>3, <2>4
<1>4. step \in [1 .. n -> [V -> V]]
    BY <1>3
<1>5. \E f \in [0 .. n -> V] : Computes(f, n, b, step)
  <2> HIDE DEF step, n, V
  <2>1. n \in Nat
    BY <1>1
  <2> HIDE DEF upTo
  <2>2. QED BY <1>2, <1>4, <2>1, RecursionUpTo
<1>6. PICK f \in [0 .. n -> V] : f[0] = b /\ \A i \in 1 .. n : f[i] = step[i][f[i - 1]]
    BY <1>5 DEF Computes
<1> DEFINE P == {i \in 0 .. n : Filling(b, idle, f[i], i)}
<1>7. 0 \in P
    BY <1>1, <1>6
<1>8. ASSUME NEW i \in 1 .. n, Filling(b, idle, f[i - 1], i - 1)
      PROVE  f[i] = FilledIfIdle(f[i - 1], i - 1, idle) /\ Filling(b, idle, f[i], i)
  <2>1. f[i - 1] \in V
    BY <1>1
  <2>2. step[i][f[i - 1]] = FilledIfIdle(f[i - 1], i - 1, idle)
    BY <1>8, <2>1
  <2>3. f[i] = FilledIfIdle(f[i - 1], i - 1, idle)
    BY <1>6, <2>2
  <2>4. QED BY <1>3, <1>8, <2>1, <2>3
<1>9. ASSUME NEW i \in 0 .. (n - 1), i \in P PROVE i + 1 \in P
  <2>1. PICK j : j = i + 1
    OBVIOUS
  <2>2. j \in 1 .. n /\ j - 1 = i /\ j \in 0 .. n
    BY <1>1, <2>1
  <2>3. Filling(b, idle, f[j - 1], j - 1)
    BY <1>9, <2>2
  <2>4. Filling(b, idle, f[j], j)
    BY <1>8, <2>2, <2>3
  <2>5. QED BY <2>1, <2>2, <2>4
<1>10. \A i \in 0 .. n : i \in P
  <2> HIDE DEF P
  <2>1. QED BY <1>1, <1>7, <1>9, InductionUpTo
<1>11. \A i \in 1 .. n : f[i] = FilledIfIdle(f[i - 1], i - 1, idle)
  <2> TAKE i \in 1 .. n
  <2>1. i - 1 \in P
    BY <1>1, <1>10
  <2>2. QED BY <1>8, <2>1
<1> HIDE DEF n, V, step, P
<1>12. f = [i \in 0 .. n |-> IF i = 0 THEN b ELSE FilledIfIdle(f[i - 1], i - 1, idle)]
  <2>1. \A i \in 0 .. n : i # 0 => i \in 1 .. n
    BY <1>1
  <2>2. QED BY <1>6, <1>11, <2>1
<1>13. upTo = [i \in 0 .. n |-> IF i = 0 THEN b ELSE FilledIfIdle(upTo[i - 1], i - 1, idle)]
    BY <1>12
<1>14. IdleCoresFilled(b, idle) = upTo[n]
    BY DEF IdleCoresFilled, n
<1> HIDE DEF upTo
<1> DEFINE Q == {i \in 0 .. n : upTo[i] = f[i]}
<1>15. 0 \in Q
    BY <1>1, <1>6, <1>13
<1>16. ASSUME NEW i \in 0 .. (n - 1), i \in Q PROVE i + 1 \in Q
  <2>1. PICK j : j = i + 1
    OBVIOUS
  <2>2. j \in 1 .. n /\ j - 1 = i /\ j \in 0 .. n /\ j # 0
    BY <1>1, <2>1
  <2>3. upTo[j] = FilledIfIdle(upTo[j - 1], j - 1, idle)
    BY <1>13, <2>2
  <2>4. upTo[j] = f[j]
    BY <1>11, <1>16, <2>2, <2>3
  <2>5. QED BY <2>1, <2>2, <2>4
<1>17. \A i \in 0 .. n : i \in Q
  <2> HIDE DEF Q
  <2>1. QED BY <1>1, <1>15, <1>16, InductionUpTo
<1>18. n \in P /\ n \in Q
    BY <1>1, <1>10, <1>17
<1>19. Filling(b, idle, f[n], n) /\ upTo[n] = f[n]
    BY <1>18 DEF P
<1>20. QED BY <1>14, <1>19 DEF n

\* UpdateHighestPriorityThreads decides, and leaves no core idle that could be
\* given something to run.
LEMMA UpdateDecides ==
    ASSUME NEW s, Ready(s), s.update, NEW r, r = UpdateHighestPriorityThreads(s)
    PROVE  /\ Ready(r) /\ Decided(r) /\ Follows(s, r) /\ r.update = FALSE
           /\ r.state = s.state /\ r.prio = s.prio /\ r.mask = s.mask /\ r.pinned = s.pinned
           /\ \A c \in Cores : ScheduledFront(r, c) = Null /\ r.pinned[c] = Null
                                  => NothingToTake(r, c)
<1>1. PICK m, b, idle :
         /\ m = [s EXCEPT !.update = FALSE] /\ b = OwnTops(m)
         /\ idle = {c \in Cores : ScheduledFront(s, c) = Null}
    OBVIOUS
<1>2. r = IdleCoresFilled(b, idle)
    BY <1>1 DEF UpdateHighestPriorityThreads
<1>3. s \in Contexts /\ Queued(s) /\ Placed(s) /\ Counted(s) /\ Bound(s)
    BY DEF Ready, Sound
<1>4. /\ m \in Contexts /\ SameButQueuing(s, m) /\ m.update = FALSE
      /\ m.fresh = s.fresh /\ m.scheduled = s.scheduled /\ m.suggested = s.suggested
    BY <1>1, <1>3 DEF Contexts, SameButQueuing
<1>5. Held(m.scheduled, m.suggested, s)
    BY <1>3, <1>4 DEF Queued, Held
<1>6. Queued(m)
    BY <1>4, <1>5, QueuedFrom
<1>7. Placed(m) /\ Counted(m)
    BY <1>3, <1>4 DEF SameButQueuing, Placed, Counted, Active
<1>8. Bound(m)
    BY <1>3, <1>4, BoundFrom DEF SameButQueuing
<1>9. Ready(m)
    BY <1>4, <1>6, <1>7, <1>8 DEF Ready, Sound
<1>10. /\ SameButDecision(m, b) /\ Ready(b) /\ Decided(b) /\ Follows(m, b)
       /\ \A c \in Cores : ScheduledFront(b, c) = Null => b.highest[c] = Null
    BY <1>1, <1>9, OwnTopsDecided
<1>11. \A c \in Cores : ScheduledFront(b, c) = ScheduledFront(s, c)
    BY <1>4, <1>10 DEF SameButDecision, ScheduledFront
<1>12. b \in Contexts /\ Queued(b)
    BY <1>10 DEF Ready, Sound
<1>13. ASSUME NEW c \in idle
       PROVE  b.highest[c] = Null /\ \A t \in Threads : ~Active(b, t, c)
  <2>1. c \in Cores /\ ScheduledFront(b, c) = Null
    BY <1>1, <1>11
  <2>2. QED BY <1>10, <1>12, <2>1, ScheduledFrontIs, ConstantsMakeSense
<1>14. \A c \in Cores \ idle : ScheduledFront(b, c) # Null
    BY <1>1, <1>11
<1>15. idle \in SUBSET Cores /\ \A c \in idle : ~(c < 0)
    BY <1>1, ConstantsMakeSense
<1>16. Filling(b, idle, b, 0)
  <2>1. Follows(b, b)
    BY DEF Follows, StayOnCores
  <2>2. QED BY <1>10, <1>13, <1>14, <1>15, <2>1 DEF Filling
<1>17. Filling(b, idle, r, NumCores)
    BY <1>2, <1>15, <1>16, IdleCoresAreFilled
<1>18. ASSUME NEW c \in Cores, ScheduledFront(r, c) = Null, r.pinned[c] = Null
       PROVE  NothingToTake(r, c)
  <2>1. b.pinned[c] = Null /\ c < NumCores
    BY <1>17, <1>18, ConstantsMakeSense DEF Filling
  <2>2. c \in idle
    BY <1>17, <1>18, <2>1 DEF Filling
  <2>3. QED BY <1>17, <1>18, <2>1, <2>2 DEF Filling
<1>19. /\ b.state = s.state /\ b.prio = s.prio /\ b.mask = s.mask /\ b.pinned = s.pinned
       /\ b.update = FALSE
    BY <1>4, <1>10 DEF SameButDecision, SameButQueuing
<1>20. Follows(s, r)
  <2>1. StayOnCores(s, m, Threads) /\ m.state = s.state /\ m.highest = s.highest /\ m.stores = s.stores
    BY <1>4 DEF SameButQueuing, StayOnCores
  <2>2. Follows(s, m)
    BY <1>3, <2>1, SameLogFollows
  <2>3. Follows(b, r)
    BY <1>17 DEF Filling
  <2>4. QED BY <1>10, <2>2, <2>3, FollowsCompose
<1>21. QED BY <1>17, <1>18, <1>19, <1>20 DEF Filling

-----------------------------------------------------------------------------
(* The invariant *)

\* What DecisionIsRight says of a state.
Chosen(s) ==
    \A c \in Cores :
        /\ s.highest[c] # Null => Active(s, s.highest[c], c)
        /\ s.pinned[c] = Null =>
              \A t \in Threads : Active(s, t, c) =>
                  s.highest[c] # Null /\ s.prio[s.highest[c]] <= s.prio[t]

\* And what NoNeedlessIdling does.
NotNeedlesslyIdle(s) ==
    \A c \in Cores : (\A t \in Threads : ~Active(s, t, c)) /\ s.pinned[c] = Null
                        => NothingToTake(s, c)

\* The inductive invariant of the state behind the lock, while it is free.
Settled(s) == Ready(s) /\ Chosen(s) /\ NotNeedlesslyIdle(s)

\* Nothing the decision depends on is different, so that it is as good as it was.
LEMMA SameQueuedSettled ==
    ASSUME NEW s, Settled(s), NEW r, Ready(r), SameQueued(s, r), r.highest = s.highest
    PROVE  Settled(r)
<1>1. s.highest \in [Cores -> Decisions] /\ s.core \in [Threads -> CoreIds]
    BY DEF Settled, Ready, Sound, Contexts
<1>2. \A t \in Threads : \A c : Active(r, t, c) <=> Active(s, t, c)
    BY DEF SameQueued, Active
<1>3. \A c \in Cores : s.highest[c] # Null =>
          /\ s.highest[c] \in Threads /\ s.state[s.highest[c]] = "Runnable"
          /\ r.prio[s.highest[c]] = s.prio[s.highest[c]]
    BY <1>1 DEF Settled, Chosen, Active, Decisions, SameQueued
<1>4. Chosen(r)
  <2>1. ASSUME NEW c \in Cores, r.highest[c] # Null
        PROVE  Active(r, r.highest[c], c)
    BY <1>2, <1>3, <2>1 DEF Settled, Chosen
  <2>2. ASSUME NEW c \in Cores, r.pinned[c] = Null, NEW t \in Threads, Active(r, t, c)
        PROVE  r.highest[c] # Null /\ r.prio[r.highest[c]] <= r.prio[t]
    <3>1. s.pinned[c] = Null /\ Active(s, t, c) /\ r.prio[t] = s.prio[t]
      BY <1>2, <2>2 DEF SameQueued, Active
    <3>2. s.highest[c] # Null /\ s.prio[s.highest[c]] <= s.prio[t]
      BY <3>1 DEF Settled, Chosen
    <3>3. QED BY <1>3, <3>1, <3>2
  <2>3. QED BY <2>1, <2>2 DEF Chosen
<1>5. ASSUME NEW c \in Cores, \A t \in Threads : ~Active(r, t, c), r.pinned[c] = Null
      PROVE  NothingToTake(r, c)
  <2>1. NothingToTake(s, c)
    BY <1>2, <1>5 DEF Settled, NotNeedlesslyIdle, SameQueued
  <2>2. \A d \in Cores : MayMigrate(r, r.highest[d]) <=> MayMigrate(s, s.highest[d])
    BY <1>3 DEF MayMigrate
  <2>3. \A d \in CoreIds : Alone(r, d) <=> Alone(s, d)
    BY <1>2 DEF Alone, Active
  <2>4. ASSUME NEW t \in Threads, r.state[t] = "Runnable"
        PROVE  /\ s.state[t] = "Runnable" /\ r.mask[t] = s.mask[t]
               /\ TopOn(r, r.core[t]) = TopOn(s, s.core[t])
               /\ MayMigrate(r, TopOn(r, r.core[t])) <=> MayMigrate(s, TopOn(s, s.core[t]))
               /\ Alone(r, r.core[t]) <=> Alone(s, s.core[t])
    <3>1. /\ s.state[t] = "Runnable" /\ r.mask[t] = s.mask[t] /\ r.core[t] = s.core[t]
          /\ s.core[t] \in CoreIds
      BY <1>1, <2>4 DEF SameQueued
    <3>2. TopOn(r, r.core[t]) = TopOn(s, s.core[t])
      BY <3>1 DEF TopOn
    <3>3. MayMigrate(r, TopOn(r, r.core[t])) <=> MayMigrate(s, TopOn(s, s.core[t]))
      BY <2>2, <3>1, <3>2 DEF TopOn, MayMigrate, CoreIds
    <3>4. QED BY <2>3, <3>1, <3>2, <3>3
  <2>5. \A t \in Threads : s.state[t] = "Runnable" => r.state[t] = "Runnable"
    BY DEF SameQueued
  <2>6. CASE \A t \in Threads : s.state[t] = "Runnable" /\ c \in s.mask[t] =>
                 TopOn(s, s.core[t]) = t /\ Alone(s, s.core[t])
    <3>1. \A t \in Threads : r.state[t] = "Runnable" /\ c \in r.mask[t] =>
                 TopOn(r, r.core[t]) = t /\ Alone(r, r.core[t])
      BY <2>4, <2>6
    <3>2. QED BY <3>1 DEF NothingToTake
  <2>7. CASE \E t \in Threads : /\ s.state[t] = "Runnable" /\ c \in s.mask[t]
                                /\ TopOn(s, s.core[t]) # t /\ ~MayMigrate(s, TopOn(s, s.core[t]))
    <3>1. \E t \in Threads : /\ r.state[t] = "Runnable" /\ c \in r.mask[t]
                             /\ TopOn(r, r.core[t]) # t /\ ~MayMigrate(r, TopOn(r, r.core[t]))
      BY <2>4, <2>5, <2>7
    <3>2. QED BY <3>1 DEF NothingToTake
  <2>8. CASE \E d \in Cores : d > c /\ ~MayMigrate(s, s.highest[d]) /\ Alone(s, d)
    <3>1. \E d \in Cores : d > c /\ ~MayMigrate(r, r.highest[d]) /\ Alone(r, d)
      BY <2>2, <2>3, <2>8 DEF CoreIds
    <3>2. QED BY <3>1 DEF NothingToTake
  <2>9. QED BY <2>1, <2>6, <2>7, <2>8 DEF NothingToTake
<1>6. NotNeedlesslyIdle(r)
    BY <1>5 DEF NotNeedlesslyIdle
<1>7. QED BY <1>4, <1>6 DEF Settled

\* The decision of UpdateHighestPriorityThreads.
LEMMA UpdateSettles ==
    ASSUME NEW s, Ready(s), s.update, NEW r, r = UpdateHighestPriorityThreads(s)
    PROVE  Settled(r)
<1>1. /\ Ready(r) /\ Decided(r)
      /\ \A c \in Cores : ScheduledFront(r, c) = Null /\ r.pinned[c] = Null => NothingToTake(r, c)
    BY UpdateDecides
<1>2. r \in Contexts /\ Queued(r)
    BY <1>1 DEF Ready, Sound
<1>3. Chosen(r)
  <2>1. ASSUME NEW c \in Cores, r.pinned[c] = Null, NEW t \in Threads, Active(r, t, c)
        PROVE  r.highest[c] # Null /\ r.prio[r.highest[c]] <= r.prio[t]
    <3>1. r.highest[c] = ScheduledFront(r, c)
      BY <1>1, <2>1 DEF Decided
    <3>2. QED BY <1>2, <2>1, <3>1, ScheduledFrontIs, ConstantsMakeSense
  <2>2. QED BY <1>1, <2>1 DEF Chosen, Decided
<1>4. NotNeedlesslyIdle(r)
    BY <1>1, <1>2, ScheduledFrontIs DEF NotNeedlesslyIdle
<1>5. QED BY <1>1, <1>3, <1>4 DEF Settled

LEMMA UpdateFollows ==
    ASSUME NEW s, Ready(s), NEW r, r = UpdateHighestPriorityThreads(s)
    PROVE  Follows(s, r) /\ r.pinned = s.pinned
<1>1. CASE s.update
    BY <1>1, UpdateDecides
<1>2. CASE ~s.update
  <2>1. r = s
    BY <1>2 DEF UpdateHighestPriorityThreads
  <2>2. QED BY <2>1 DEF Follows, StayOnCores
<1>3. QED BY <1>1, <1>2

\* An operation under the lock, and the decision with which the lock is released.
LEMMA Unlocked ==
    ASSUME NEW s, Settled(s), NEW q, Moves(s, q), Ready(q),
           NEW r, r = UpdateHighestPriorityThreads(q)
    PROVE  Settled(r)
<1>1. CASE q.update
    BY <1>1, UpdateSettles
<1>2. CASE ~q.update
  <2>1. r = q
    BY <1>2 DEF UpdateHighestPriorityThreads
  <2>2. SameQueued(s, q) /\ q.highest = s.highest
    BY <1>2 DEF Moves
  <2>3. QED BY <2>1, <2>2, SameQueuedSettled
<1>3. QED BY <1>1, <1>2

\* The log of the stores is no part of it.
LEMMA WithoutLog ==
    ASSUME NEW s, Settled(s), NEW r, r = [s EXCEPT !.stores = <<>>]
    PROVE  Settled(r) /\ r.stores = <<>>
<1>1. s \in Contexts
    BY DEF Settled, Ready, Sound
<1>2. SameButDecision(s, r) /\ r.highest = s.highest /\ r.stores = <<>>
  <2>1. <<>> \in Seq(Cores \X Decisions)
    OBVIOUS
  <2>2. r \in Contexts /\ r.stores = <<>>
    BY <1>1, <2>1 DEF Contexts
  <2>3. QED BY <1>1, <2>2 DEF SameButDecision, Contexts
<1>3. Ready(r)
    BY <1>2, DecisionKeeps DEF Settled
<1>4. SameQueued(s, r)
    BY <1>2 DEF SameButDecision, SameQueued
<1>5. QED BY <1>2, <1>3, <1>4, SameQueuedSettled

\* The inductive invariant of KScheduler: with the log emptied whenever the lock
\* is free.
SettledInv == Settled(ctx) /\ ctx.stores = <<>>

LEMMA UnlockSettles ==
    ASSUME Settled(ctx), NEW q, Moves(ctx, q), Ready(q), Unlock(q)
    PROVE  SettledInv'
<1>1. PICK r : r = UpdateHighestPriorityThreads(q)
    OBVIOUS
<1>2. ctx' = [r EXCEPT !.stores = <<>>]
    BY <1>1 DEF Unlock
<1>3. Settled(r)
    BY <1>1, Unlocked
<1>4. Settled(ctx') /\ ctx'.stores = <<>>
    BY <1>2, <1>3, WithoutLog
<1>5. QED BY <1>4 DEF SettledInv

\* The thread a core runs is active there.
LEMMA RunningIsActive ==
    ASSUME Settled(ctx), NEW t \in Threads, NEW c \in Cores, Running(t, c)
    PROVE  Active(ctx, t, c) /\ ctx.core[t] = c
BY ConstantsMakeSense DEF Settled, Chosen, Running, Active

\* Before any thread is started: nothing is queued and nothing decided.
Unstarted(s) ==
    /\ s.state = [t \in Threads |-> "Initialized"]
    /\ s.core \in [Threads -> Cores] /\ s.prio \in [Threads -> Priorities]
    /\ s.mask \in [Threads -> Masks] /\ s.virtual = s.mask /\ s.ideal = s.core
    /\ \A t \in Threads : s.core[t] \in s.mask[t]
    /\ s.scheduled = [c \in Cores |-> [p \in Priorities |-> <<>>]]
    /\ s.suggested = s.scheduled
    /\ s.highest = [c \in Cores |-> Null] /\ s.pinned = s.highest
    /\ s.kernelWaiters = {} /\ s.fresh = {} /\ s.update = FALSE /\ s.stores = <<>>

LEMMA CreatedIsUnstarted ==
    ASSUME NEW core \in [Threads -> Cores], NEW prio \in [Threads -> Priorities],
           NEW m \in [Threads -> Masks], \A t \in Threads : core[t] \in m[t],
           NEW s, s = InitialContext(core, prio), NEW r, r = [s EXCEPT !.mask = m, !.virtual = m]
    PROVE  /\ s \in Contexts /\ Unstarted(s)
           /\ r \in Contexts /\ Unstarted(r)
<1>1. [t \in Threads |-> {core[t]}] \in [Threads -> Masks]
    BY DEF Masks
<1>2. Unstarted(s) /\ Unstarted(r)
    BY <1>1 DEF InitialContext, Unstarted
<1>3. core \in [Threads -> CoreIds]
    BY DEF CoreIds
<1>4. [c \in Cores |-> [p \in Priorities |-> <<>>]] \in QueueSets
    BY DEF QueueSets
<1>5. [c \in Cores |-> Null] \in [Cores -> Decisions]
    BY DEF Decisions
<1>6. <<>> \in Seq(Cores \X Decisions) /\ [t \in Threads |-> "Initialized"] \in [Threads -> States]
    BY DEF States
<1>7. s \in Contexts
    BY <1>1, <1>3, <1>4, <1>5, <1>6 DEF InitialContext, Contexts
<1>8. r \in Contexts
    BY <1>7 DEF Contexts
<1>9. QED BY <1>2, <1>7, <1>8

LEMMA UnstartedIsSettled ==
    ASSUME NEW s \in Contexts, Unstarted(s)
    PROVE  Settled(s) /\ s.stores = <<>>
<1>1. /\ s.state = [t \in Threads |-> "Initialized"]
      /\ s.core \in [Threads -> Cores] /\ \A t \in Threads : s.core[t] \in s.mask[t]
      /\ s.virtual = s.mask /\ s.ideal = s.core
      /\ s.scheduled = [c \in Cores |-> [p \in Priorities |-> <<>>]]
      /\ s.suggested = s.scheduled
      /\ s.highest = [c \in Cores |-> Null] /\ s.pinned = s.highest
      /\ s.fresh = {} /\ s.stores = <<>>
    BY DEF Unstarted
<1>2. s \in Contexts
    OBVIOUS
<1>3. \A t \in Threads : s.state[t] # "Runnable"
    BY <1>1
<1>4. Queued(s)
  <2> SUFFICES ASSUME NEW c \in Cores, NEW p \in Priorities
               PROVE  /\ Queues(s.scheduled[c][p], ScheduledAt(s, c, p))
                      /\ Queues(s.suggested[c][p], SuggestedAt(s, c, p))
    BY DEF Queued
  <2>1. ScheduledAt(s, c, p) = {} /\ SuggestedAt(s, c, p) = {}
    BY <1>3 DEF ScheduledAt, SuggestedAt
  <2>2. s.scheduled[c][p] = <<>> /\ s.suggested[c][p] = <<>>
    BY <1>1
  <2>3. Queues(<<>>, {})
    BY DEF Queues, Distinct
  <2>4. QED BY <2>1, <2>2, <2>3
<1>5. Placed(s) /\ Counted(s)
    BY <1>1 DEF Placed, Counted
<1>6. Bound(s)
    BY <1>1 DEF Bound
<1>7. Chosen(s)
    BY <1>1, <1>3 DEF Chosen, Active
<1>8. NotNeedlesslyIdle(s)
    BY <1>3 DEF NotNeedlesslyIdle, NothingToTake
<1>9. QED BY <1>1, <1>2, <1>4, <1>5, <1>6, <1>7, <1>8 DEF Settled, Ready, Sound

\* A thread that runs is pinned only where it runs.
LEMMA NotPinnedElsewhere ==
    ASSUME NEW s, Ready(s), NEW t \in Threads, NEW c \in Cores, s.core[t] = c, s.pinned[c] # t
    PROVE  ~IsPinned(s, t)
BY ConstantsMakeSense DEF Ready, Bound, IsPinned

LEMMA ExitMoves ==
    ASSUME NEW s, Ready(s), NEW t \in Threads, NEW c \in Cores,
           NEW q, q = IF s.pinned[c] = t THEN UnpinThread(s, t, c) ELSE s,
           NEW r, r = SetState(q, t, "Terminated")
    PROVE  Moves(s, r) /\ Ready(r)
<1>1. Moves(s, q) /\ Ready(q)
  <2>1. CASE s.pinned[c] = t
    BY <2>1, UnpinThreadMoves
  <2>2. CASE s.pinned[c] # t
    BY <2>2, MovesNowhere DEF Ready
  <2>3. QED BY <2>1, <2>2
<1>2. "Terminated" \in States
    BY DEF States
<1>3. Moves(q, r) /\ Ready(r)
    BY <1>1, <1>2, SetStateMoves
<1>4. QED BY <1>1, <1>3, MovesCompose

LEMMA StepSettles ==
    ASSUME SettledInv, Next, ~PinnedMayYield
    PROVE  SettledInv'
<1>1. Settled(ctx) /\ Ready(ctx)
    BY DEF SettledInv, Settled
<1>2. CASE Preempt
  <2>1. PICK later : Unlock(PreemptThreads(ctx, later))
    BY <1>2 DEF Preempt
  <2>2. QED BY <1>1, <2>1, PreemptMoves, UnlockSettles DEF Yields
<1>3. ASSUME NEW t \in Threads, WakeUp(t)
      PROVE  SettledInv'
  <2>1. PICK new : new = "Runnable"
    OBVIOUS
  <2>2. new \in States /\ Unlock(SetState(ctx, t, new))
    BY <1>3, <2>1 DEF WakeUp, States
  <2>3. QED BY <1>1, <2>2, SetStateMoves, UnlockSettles
<1>4. ASSUME NEW t \in Threads, Block(t)
      PROVE  SettledInv'
  <2>1. PICK new : new = "Waiting"
    OBVIOUS
  <2>2. new \in States /\ Unlock(SetState(ctx, t, new))
    BY <1>4, <2>1 DEF Block, States
  <2>3. QED BY <1>1, <2>2, SetStateMoves, UnlockSettles
<1>5. ASSUME NEW t \in Threads, KernelWaiters(t)
      PROVE  SettledInv'
  <2>1. PICK waiters : waiters = (ctx.kernelWaiters \cup {t}) \ (ctx.kernelWaiters \cap {t})
    OBVIOUS
  <2>2. waiters \in SUBSET Threads
    BY <1>1, <2>1 DEF Ready, Sound, Contexts
  <2>3. PICK q : q = [ctx EXCEPT !.kernelWaiters = waiters, !.update = TRUE]
    OBVIOUS
  <2>4. Unlock(q)
    BY <1>1, <1>5, <2>1, <2>3 DEF KernelWaiters, Ready, Sound, Contexts
  <2>5. Moves(ctx, q) /\ Ready(q)
    BY <1>1, <2>2, <2>3, KernelWaitersMove
  <2>6. QED BY <1>1, <2>4, <2>5, UnlockSettles
<1>6. ASSUME NEW t \in Threads, NEW p \in Priorities, ChangePriority(t, p)
      PROVE  SettledInv'
  <2>1. PICK running \in BOOLEAN : Unlock(SetPriority(ctx, t, p, running))
    BY <1>6 DEF ChangePriority
  <2>2. QED BY <1>1, <2>1, SetPriorityMoves, UnlockSettles
<1>7. ASSUME NEW t \in Threads, NEW arg \in CoreMaskArgs, ChangeCoreMask(t, arg[1], arg[2])
      PROVE  SettledInv'
  <2>1. Unlock(SetCoreMask(ctx, t, arg[1], arg[2]))
    BY <1>7 DEF ChangeCoreMask
  <2>2. QED BY <1>1, <2>1, SetCoreMaskMoves, UnlockSettles
<1>8. ASSUME NEW t \in Threads, NEW c \in Cores, Exit(t, c)
      PROVE  SettledInv'
  <2>1. PICK q, r : /\ q = IF ctx.pinned[c] = t THEN UnpinThread(ctx, t, c) ELSE ctx
                    /\ r = SetState(q, t, "Terminated")
    OBVIOUS
  <2>2. Unlock(r)
    BY <1>8, <2>1 DEF Exit
  <2>3. QED BY <1>1, <2>1, <2>2, ExitMoves, UnlockSettles
<1>9. ASSUME NEW t \in Threads, NEW c \in Cores, YieldWithout(t, c)
      PROVE  SettledInv'
  <2>1. ctx.core[t] = c /\ Unlock(YieldWithoutCoreMigration(ctx, t))
    BY <1>1, <1>9, RunningIsActive DEF YieldWithout
  <2>2. QED BY <1>1, <2>1, YieldWithoutMoves, UnlockSettles DEF Yields
<1>10. ASSUME NEW t \in Threads, NEW c \in Cores, YieldWith(t, c)
       PROVE  SettledInv'
  <2>1. ctx.core[t] = c
    BY <1>1, <1>10, RunningIsActive DEF YieldWith
  <2>2. PICK later : Unlock(YieldWithCoreMigration(ctx, t, later))
    BY <1>10 DEF YieldWith
  <2>3. QED BY <1>1, <2>1, <2>2, YieldWithMoves, UnlockSettles DEF Yields
<1>11. ASSUME NEW t \in Threads, NEW c \in Cores, YieldToAny(t, c)
       PROVE  SettledInv'
  <2>1. ctx.core[t] = c /\ ctx.pinned[c] # t /\ Unlock(YieldToAnyThread(ctx, t))
    BY <1>1, <1>11, RunningIsActive DEF YieldToAny
  <2>2. ~IsPinned(ctx, t)
    BY <1>1, <2>1, NotPinnedElsewhere
  <2>3. QED BY <1>1, <2>1, <2>2, YieldToAnyMoves, UnlockSettles DEF Yields
<1>12. ASSUME NEW t \in Threads, NEW c \in Cores, Pin(t, c)
       PROVE  SettledInv'
  <2>1. ctx.core[t] = c /\ ctx.pinned[c] = Null /\ Unlock(PinThread(ctx, t, c))
    BY <1>1, <1>12, RunningIsActive DEF Pin
  <2>2. QED BY <1>1, <2>1, PinThreadMoves, UnlockSettles
<1>13. ASSUME NEW t \in Threads, NEW c \in Cores, Unpin(t, c)
       PROVE  SettledInv'
  <2>1. ctx.pinned[c] = t /\ Unlock(UnpinThread(ctx, t, c))
    BY <1>13 DEF Unpin
  <2>2. QED BY <1>1, <2>1, UnpinThreadMoves, UnlockSettles
<1>14. QED
    BY <1>2, <1>3, <1>4, <1>5, <1>6, <1>7, <1>8, <1>9, <1>10, <1>11, <1>12, <1>13 DEF Next

\* The inductive invariant holds: it is what every operation that takes the lock
\* finds, and leaves, when no pinned thread yields to any thread.
LEMMA SettledHolds ==
    ASSUME ~PinnedMayYield
    PROVE  Spec => []SettledInv
<1>1. Init => SettledInv
  <2> SUFFICES ASSUME Init PROVE SettledInv
    OBVIOUS
  <2>1. 0 \in Cores /\ LowestPriority \in Priorities
    BY CoresExist, PrioritiesExist DEF Cores, Priorities
  <2>2. PICK core \in [Threads -> Cores], prio \in [Threads -> Priorities] :
           core = [t \in Threads |-> 0] /\ prio = [t \in Threads |-> LowestPriority]
    BY <2>1
  <2>3. PICK m : m = [t \in Threads |-> {core[t]}]
    OBVIOUS
  <2>4. m \in [Threads -> Masks] /\ \A t \in Threads : core[t] \in m[t]
    BY <2>3 DEF Masks
  <2>5. PICK s, r : s = InitialContext(core, prio) /\ r = [s EXCEPT !.mask = m, !.virtual = m]
    OBVIOUS
  <2>6. s \in Contexts /\ Unstarted(s)
    BY <2>4, <2>5, CreatedIsUnstarted
  <2>7. Settled(s) /\ s.stores = <<>>
    BY <2>6, UnstartedIsSettled
  <2>8. ctx = s
    BY <2>2, <2>5 DEF Init
  <2>9. QED BY <2>7, <2>8 DEF SettledInv
<1>2. SettledInv /\ [Next]_ctx => SettledInv'
  <2>1. ASSUME SettledInv, Next PROVE SettledInv'
    BY <2>1, StepSettles
  <2>2. ASSUME SettledInv, ctx' = ctx PROVE SettledInv'
    BY <2>2 DEF SettledInv
  <2>3. QED BY <2>1, <2>2
<1>3. QED BY <1>1, <1>2, PTL DEF Spec

\* A queue that has one thread.
LEMMA QueueOfOne ==
    ASSUME NEW t, NEW q, Queues(q, {t})
    PROVE  q = <<t>>
<1>1. q \in Seq({t}) /\ Len(q) \in Nat /\ Distinct(q)
    BY DEF Queues
<1>2. \E i \in 1 .. Len(q) : q[i] = t
    BY DEF Queues, In
<1>3. \A i \in 1 .. Len(q) : q[i] = t
    BY <1>1
<1>4. PICK n \in Nat : n = Len(q)
    BY <1>1
<1>5. n >= 1
    BY <1>2, <1>4
<1>6. ~(n >= 2)
  <2> SUFFICES ASSUME n >= 2 PROVE FALSE
    OBVIOUS
  <2>1. 1 \in 1 .. Len(q) /\ 2 \in 1 .. Len(q) /\ q[1] = q[2]
    BY <1>3, <1>4
  <2>2. QED BY <1>1, <2>1 DEF Distinct
<1>7. n = 1
    BY <1>5, <1>6
<1>8. PICK r : r = <<t>>
    OBVIOUS
<1>9. r \in Seq({t}) /\ Len(r) = 1 /\ r[1] = t
    BY <1>8
<1>10. q \in Seq({t}) /\ Len(q) = Len(r) /\ \A i \in 1 .. Len(q) : q[i] = r[i]
    BY <1>1, <1>3, <1>4, <1>7, <1>9
<1>11. q = r
    BY ONLY <1>9, <1>10, SeqEqual
<1>12. QED BY <1>8, <1>11

\* The queues of KPriorityQueue hold the runnable threads, once each and where
\* they belong, whatever an operation changes of a thread: its state, priority,
\* core or mask (OnThreadStateChanged and its kin, ChangeAffinityMask).
THEOREM SchedulerInvHolds ==
    ASSUME ~PinnedMayYield
    PROVE  Spec => []SchedulerInv
<1>1. SettledInv => SchedulerInv
  <2> SUFFICES ASSUME SettledInv PROVE SchedulerInv
    OBVIOUS
  <2>1. ctx \in Contexts /\ Queued(ctx)
    BY DEF SettledInv, Settled, Ready, Sound
  <2>2. QED BY <2>1 DEF SchedulerInv, Queued, Contexts, Masks, CoreIds, Decisions
<1>2. QED BY <1>1, SettledHolds, PTL

\* The decision of UpdateHighestPriorityThreads names a runnable thread that is
\* active on its core, the most urgent there but for a pinned one, and no
\* operation leaves it standing that makes it wrong.
THEOREM DecisionHolds ==
    ASSUME ~PinnedMayYield
    PROVE  Spec => []DecisionIsRight
<1>1. SettledInv => DecisionIsRight
  <2> SUFFICES ASSUME SettledInv PROVE DecisionIsRight
    OBVIOUS
  <2>1. /\ ctx \in Contexts /\ Placed(ctx) /\ Chosen(ctx)
    BY DEF SettledInv, Settled, Ready, Sound
  <2>2. ctx.highest \in [Cores -> Decisions]
    BY <2>1 DEF Contexts
  <2>3. ASSUME NEW c \in Cores, ctx.highest[c] # Null
        PROVE  /\ ctx.state[ctx.highest[c]] = "Runnable" /\ ctx.core[ctx.highest[c]] = c
               /\ c \in ctx.mask[ctx.highest[c]]
    <3>1. ctx.highest[c] \in Threads /\ Active(ctx, ctx.highest[c], c)
      BY <2>1, <2>2, <2>3 DEF Chosen, Decisions
    <3>2. QED BY <2>1, <2>3, <3>1, ConstantsMakeSense DEF Active, Placed
  <2>4. QED BY <2>1, <2>3 DEF DecisionIsRight, Chosen, Active
<1>2. QED BY <1>1, SettledHolds, PTL

\* No core stays idle that UpdateHighestPriorityThreadsImpl could have given a
\* thread, for any number of cores filled one after the other.
THEOREM NoNeedlessIdlingHolds ==
    ASSUME ~PinnedMayYield
    PROVE  Spec => []NoNeedlessIdling
<1>1. SettledInv => NoNeedlessIdling
  <2> SUFFICES ASSUME SettledInv PROVE NoNeedlessIdling
    OBVIOUS
  <2>1. /\ ctx \in Contexts /\ Queued(ctx) /\ NotNeedlesslyIdle(ctx)
    BY DEF SettledInv, Settled, Ready, Sound
  <2>2. ASSUME NEW c \in Cores, ScheduledFront(ctx, c) = Null
        PROVE  \A t \in Threads : ~Active(ctx, t, c)
    BY <2>1, <2>2, ScheduledFrontIs, ConstantsMakeSense
  <2>3. QED BY <2>1, <2>2 DEF NoNeedlessIdling, NotNeedlesslyIdle
<1>2. QED BY <1>1, SettledHolds, PTL

\* A thread whose yields are skipped (its yield count is the process' count) is
\* alone at its priority on its core: IncrementScheduledCount misses no change
\* that would give its yield something to do.
THEOREM SkippedYieldsHold ==
    ASSUME ~PinnedMayYield
    PROVE  Spec => []SkippedYieldsAreIdle
<1>1. SettledInv => SkippedYieldsAreIdle
  <2> SUFFICES ASSUME SettledInv, NEW t \in ctx.fresh, ctx.state[t] = "Runnable"
               PROVE  /\ ctx.core[t] \in Cores
                      /\ ctx.scheduled[ctx.core[t]][ctx.prio[t]] = <<t>>
    BY DEF SkippedYieldsAreIdle
  <2>1. /\ ctx \in Contexts /\ Queued(ctx) /\ Counted(ctx)
    BY DEF SettledInv, Settled, Ready, Sound
  <2>2. t \in Threads /\ ctx.prio[t] \in Priorities
    BY <2>1 DEF Contexts
  <2>3. /\ ctx.core[t] \in Cores
        /\ \A u \in Threads : Active(ctx, u, ctx.core[t]) /\ ctx.prio[u] = ctx.prio[t] => u = t
    BY <2>1 DEF Counted
  <2>4. ScheduledAt(ctx, ctx.core[t], ctx.prio[t]) = {t}
    BY <2>2, <2>3 DEF ScheduledAt, Active
  <2>5. Queues(ctx.scheduled[ctx.core[t]][ctx.prio[t]], {t})
    BY <2>1, <2>2, <2>3, <2>4 DEF Queued
  <2>6. QED BY <2>3, <2>5, QueueOfOne
<1>2. QED BY <1>1, SettledHolds, PTL

-----------------------------------------------------------------------------
(* The cores that carry the decisions out.  For ContextLoadedOnce nothing   *)
(* is assumed of the decisions: what the scheduler decides may change       *)
(* between any two steps, and the context guards alone keep a thread from   *)
(* being loaded twice.                                                      *)

\* The core has the context of t, or has its guard and is loading it.
HasContext(c, t) == Loaded(c, t) \/ Locking(c, t)

\* What the switch reads and writes are functions of the cores.
SwitchTypes ==
    /\ pc = [a \in Actors |-> pc[a]]
    /\ current = [c \in Cores |-> current[c]]
    /\ target = [c \in Cores |-> target[c]]

\* The guard of every thread some core has is locked.
LoadedIsGuarded == \A c \in Cores, t \in Threads : HasContext(c, t) => t \in guard

\* Between SwitchThread and its check the core's thread is the one it locked.
CheckedIsCurrent == \A c \in Cores : pc[c] = "check" => current[c] = target[c]

\* The inductive invariant: one core at most has a thread, and others can see
\* it from the guard.
SwitchIInv == SwitchTypes /\ LoadedIsGuarded /\ CheckedIsCurrent /\ ContextLoadedOnce

\* The host thread is no core.
LEMMA CoresAreActors == Cores \subseteq Actors /\ Host \in Actors /\ Host \notin Cores
    BY ActorsDiffer DEF Actors

\* A step of one actor outside the switch that leaves the guards alone
\* preserves the invariant.
LEMMA OutsideSwitch ==
    ASSUME SwitchIInv, NEW a \in Actors, NEW l,
           GoTo(a, l), UNCHANGED switchVars,
           pc[a] \notin Switching, l \notin Switching
    PROVE  SwitchIInv'
<1>1. /\ current' = current /\ guard' = guard /\ target' = target
      /\ pc' = [pc EXCEPT ![a] = l]
      /\ pc'[a] = l /\ \A b \in Actors : b # a => pc'[b] = pc[b]
    BY DEF SwitchIInv, SwitchTypes, GoTo, switchVars
<1>2. \A c \in Cores : pc'[c] \in Switching <=> pc[c] \in Switching
    BY <1>1, CoresAreActors
<1>3. \A c \in Cores : pc'[c] \in Switching => pc'[c] = pc[c]
    BY <1>1, CoresAreActors
<1>4. \A c \in Cores, t \in Threads : HasContext(c, t)' <=> HasContext(c, t)
    BY <1>1, <1>2, <1>3 DEF HasContext, Loaded, Locking, Switching
<1>5. SwitchTypes'
    BY <1>1 DEF SwitchIInv, SwitchTypes
<1>6. LoadedIsGuarded' /\ ContextLoadedOnce'
    BY <1>1, <1>4 DEF SwitchIInv, LoadedIsGuarded, ContextLoadedOnce, HasContext
<1>7. CheckedIsCurrent'
    BY <1>1, <1>3 DEF SwitchIInv, CheckedIsCurrent, Switching
<1>8. QED
    BY <1>5, <1>6, <1>7 DEF SwitchIInv

\* A step inside the switch of a core that neither has nor takes a guard.
LEMMA WithoutContext ==
    ASSUME SwitchIInv, NEW c \in Cores, NEW l \in {"trylock", "spin", "retry", "reload"},
           GoTo(c, l), guard' = guard, current' = current,
           target' = target \/ \E t : target' = [target EXCEPT ![c] = t]
    PROVE  SwitchIInv'
<1>1. /\ pc'[c] = l
      /\ \A d \in Cores : d # c => pc'[d] = pc[d] /\ target'[d] = target[d]
    BY CoresAreActors DEF SwitchIInv, SwitchTypes, GoTo
<1>2. SwitchTypes'
    BY CoresAreActors DEF SwitchIInv, SwitchTypes, GoTo
<1>3. \A t \in Threads : ~HasContext(c, t)'
    BY <1>1 DEF HasContext, Loaded, Locking, Switching
<1>4. \A d \in Cores, t \in Threads : HasContext(d, t)' => HasContext(d, t)
    BY <1>1, <1>3 DEF HasContext, Loaded, Locking, Switching
<1>5. LoadedIsGuarded' /\ ContextLoadedOnce'
    BY <1>4 DEF SwitchIInv, LoadedIsGuarded, ContextLoadedOnce, HasContext
<1>6. CheckedIsCurrent'
    BY <1>1 DEF SwitchIInv, CheckedIsCurrent
<1>7. QED
    BY <1>2, <1>5, <1>6 DEF SwitchIInv

-----------------------------------------------------------------------------
(* The steps that take or give up a guard *)

\* Unload frees the guard of the thread only this core has.
LEMMA UnloadKeepsInvariant ==
    ASSUME SwitchIInv, NEW c \in Cores, Unload(c)
    PROVE  SwitchIInv'
<1>1. /\ current' = current /\ target' = target
      /\ pc[c] = "unload" /\ pc'[c] = "trylock"
      /\ \A d \in Cores : d # c => pc'[d] = pc[d]
      /\ guard \ {current[c]} \subseteq guard'
    BY CoresAreActors DEF Unload, GoTo, SwitchIInv, SwitchTypes
<1>2. SwitchTypes'
    BY <1>1, CoresAreActors DEF Unload, GoTo, SwitchIInv, SwitchTypes
<1>3. \A t \in Threads : ~HasContext(c, t)'
    BY <1>1 DEF HasContext, Loaded, Locking, Switching
<1>4. \A d \in Cores, t \in Threads : HasContext(d, t)' => HasContext(d, t) /\ d # c
    BY <1>1, <1>3 DEF HasContext, Loaded, Locking, Switching
<1>5. ContextLoadedOnce'
    BY <1>4 DEF SwitchIInv, ContextLoadedOnce, HasContext
<1>6. LoadedIsGuarded'
  <2> SUFFICES ASSUME NEW d \in Cores, NEW t \in Threads, HasContext(d, t)'
               PROVE  t \in guard'
      BY DEF LoadedIsGuarded
  <2>1. t \in guard /\ HasContext(d, t) /\ d # c
      BY <1>4 DEF SwitchIInv, LoadedIsGuarded
  <2>2. HasContext(c, current[c])
      BY <1>1 DEF HasContext, Loaded, Switching
  <2>3. t # current[c]
      BY <2>1, <2>2 DEF SwitchIInv, ContextLoadedOnce, HasContext
  <2>4. QED
      BY <1>1, <2>1, <2>3
<1>7. CheckedIsCurrent'
    BY <1>1 DEF SwitchIInv, CheckedIsCurrent
<1>8. QED
    BY <1>2, <1>5, <1>6, <1>7 DEF SwitchIInv

\* TryLock takes a guard nobody holds: no core has that thread.
LEMMA TryLockKeepsInvariant ==
    ASSUME SwitchIInv, NEW c \in Cores, TryLock(c)
    PROVE  SwitchIInv'
<1>1. CASE target[c] \in guard
    BY <1>1, WithoutContext DEF TryLock, switchVars
<1>2. CASE target[c] \notin guard
  <2>1. /\ current' = current /\ target' = target
        /\ pc[c] = "trylock" /\ pc'[c] = "switch"
        /\ \A d \in Cores : d # c => pc'[d] = pc[d]
        /\ guard' = guard \cup ({target[c]} \ {Null})
      BY <1>2, CoresAreActors DEF TryLock, GoTo, SwitchIInv, SwitchTypes
  <2>2. SwitchTypes'
      BY <1>2, <2>1, CoresAreActors DEF TryLock, GoTo, SwitchIInv, SwitchTypes
  <2>3. \A t \in Threads : HasContext(c, t)' <=> target[c] = t
      BY <2>1 DEF HasContext, Loaded, Locking, Switching
  <2>4. \A d \in Cores, t \in Threads : d # c => (HasContext(d, t)' <=> HasContext(d, t))
      BY <2>1 DEF HasContext, Loaded, Locking, Switching
  <2>5. \A d \in Cores : HasContext(d, target[c]) => target[c] \notin Threads
      BY <1>2 DEF SwitchIInv, LoadedIsGuarded
  <2>6. ContextLoadedOnce'
      BY <2>3, <2>4, <2>5 DEF SwitchIInv, ContextLoadedOnce, HasContext
  <2>7. LoadedIsGuarded'
      BY <2>1, <2>3, <2>4, NullIsNoThread DEF SwitchIInv, LoadedIsGuarded
  <2>8. CheckedIsCurrent'
      BY <2>1 DEF SwitchIInv, CheckedIsCurrent
  <2>9. QED
      BY <2>2, <2>6, <2>7, <2>8 DEF SwitchIInv
<1>3. QED
    BY <1>1, <1>2

\* SwitchThread makes the thread whose guard the core has its current one.
LEMMA SwitchThreadKeepsInvariant ==
    ASSUME SwitchIInv, NEW c \in Cores, SwitchThread(c)
    PROVE  SwitchIInv'
<1>1. /\ guard' = guard /\ target' = target
      /\ pc[c] = "switch" /\ pc'[c] = "check" /\ current'[c] = target[c]
      /\ \A d \in Cores : d # c => pc'[d] = pc[d] /\ current'[d] = current[d]
    BY CoresAreActors DEF SwitchThread, GoTo, SwitchIInv, SwitchTypes
<1>2. SwitchTypes'
    BY <1>1, CoresAreActors DEF SwitchThread, GoTo, SwitchIInv, SwitchTypes
<1>3. \A d \in Cores, t \in Threads : HasContext(d, t)' <=> HasContext(d, t)
    BY <1>1 DEF HasContext, Loaded, Locking, Switching
<1>4. LoadedIsGuarded' /\ ContextLoadedOnce'
    BY <1>1, <1>3 DEF SwitchIInv, LoadedIsGuarded, ContextLoadedOnce, HasContext
<1>5. CheckedIsCurrent'
    BY <1>1 DEF SwitchIInv, CheckedIsCurrent
<1>6. QED
    BY <1>2, <1>4, <1>5 DEF SwitchIInv

\* CheckNeeds keeps the guard with the thread or gives up both.
LEMMA CheckNeedsKeepsInvariant ==
    ASSUME SwitchIInv, NEW c \in Cores, CheckNeeds(c)
    PROVE  SwitchIInv'
<1>1. /\ current' = current /\ pc[c] = "check" /\ current[c] = target[c]
      /\ \A d \in Cores : d # c => pc'[d] = pc[d] /\ target'[d] = target[d]
      /\ guard \ {target[c]} \subseteq guard'
      /\ \/ pc'[c] = "retry"
         \/ pc'[c] = "loop" /\ guard' = guard
    BY CoresAreActors DEF CheckNeeds, GoTo, SwitchIInv, SwitchTypes, CheckedIsCurrent
<1>2. SwitchTypes'
    BY <1>1, CoresAreActors DEF CheckNeeds, GoTo, SwitchIInv, SwitchTypes
<1>3. \A t \in Threads : HasContext(c, t) <=> target[c] = t
    BY <1>1 DEF HasContext, Loaded, Locking, Switching
<1>4. \A t \in Threads : HasContext(c, t)' => pc'[c] = "loop" /\ HasContext(c, t)
    BY <1>1, <1>3 DEF HasContext, Loaded, Locking, Switching
<1>5. \A d \in Cores, t \in Threads : d # c => (HasContext(d, t)' <=> HasContext(d, t))
    BY <1>1 DEF HasContext, Loaded, Locking, Switching
<1>6. ContextLoadedOnce'
    BY <1>4, <1>5 DEF SwitchIInv, ContextLoadedOnce, HasContext
<1>7. LoadedIsGuarded'
  <2> SUFFICES ASSUME NEW d \in Cores, NEW t \in Threads, HasContext(d, t)'
               PROVE  t \in guard'
      BY DEF LoadedIsGuarded
  <2>1. HasContext(d, t) /\ t \in guard
      BY <1>4, <1>5 DEF SwitchIInv, LoadedIsGuarded
  <2>2. CASE d = c
      BY <1>1, <1>4, <2>1, <2>2
  <2>3. CASE d # c
    <3>1. t # target[c]
        BY <1>3, <2>1, <2>3 DEF SwitchIInv, ContextLoadedOnce, HasContext
    <3>2. QED
        BY <1>1, <2>1, <3>1
  <2>4. QED
      BY <2>2, <2>3
<1>8. CheckedIsCurrent'
    BY <1>1 DEF SwitchIInv, CheckedIsCurrent
<1>9. QED
    BY <1>2, <1>6, <1>7, <1>8 DEF SwitchIInv

-----------------------------------------------------------------------------
(* All steps *)

\* No core has run a thread yet.
LEMMA SwitchInitEstablishes == SwitchInit => SwitchIInv
<1> SUFFICES ASSUME SwitchInit PROVE SwitchIInv
    OBVIOUS
<1>1. SwitchTypes
    BY DEF SwitchInit, SwitchTypes
<1>2. \A c \in Cores : pc[c] = "enable" /\ current[c] = Null
    BY CoresAreActors DEF SwitchInit
<1>3. \A c \in Cores, t \in Threads : ~HasContext(c, t)
    BY <1>2, NullIsNoThread DEF HasContext, Loaded, Locking, Switching
<1>4. LoadedIsGuarded /\ ContextLoadedOnce
    BY <1>3 DEF LoadedIsGuarded, ContextLoadedOnce, HasContext
<1>5. CheckedIsCurrent
    BY <1>2 DEF CheckedIsCurrent
<1>6. QED
    BY <1>1, <1>4, <1>5 DEF SwitchIInv

\* A step that moves nobody and touches no guard.
LEMMA NobodyMoves ==
    ASSUME SwitchIInv, UNCHANGED <<switchVars, pc>>
    PROVE  SwitchIInv'
BY DEF SwitchIInv, SwitchTypes, LoadedIsGuarded, CheckedIsCurrent, ContextLoadedOnce,
       HasContext, Loaded, Locking, switchVars

\* LoadHighest decides nothing about guards: the core keeps its thread until it
\* is unloaded, or has none since its last attempt.
LEMMA LoadHighestKeepsInvariant ==
    ASSUME SwitchIInv, NEW c \in Cores, LoadHighest(c)
    PROVE  SwitchIInv'
<1> USE CoresAreActors
<1>1. CASE pc[c] = "reload"
  <2>1. GoTo(c, "trylock") /\ \E t : target' = [target EXCEPT ![c] = t]
      BY <1>1 DEF LoadHighest
  <2>2. guard' = guard /\ current' = current
      BY DEF LoadHighest
  <2>3. QED
      BY <2>1, <2>2, WithoutContext
<1>2. CASE pc[c] = "load" /\ highest[c] # Null /\ highest[c] = current[c]
    BY <1>2, OutsideSwitch DEF LoadHighest, Switching, switchVars
<1>3. CASE pc[c] = "load" /\ ~(highest[c] # Null /\ highest[c] = current[c])
  <2>1. /\ GoTo(c, "unload") /\ guard' = guard /\ current' = current
        /\ target' = [target EXCEPT ![c] = highest[c]]
      BY <1>3 DEF LoadHighest
  <2>2. /\ pc'[c] = "unload"
        /\ \A d \in Cores : d # c => pc'[d] = pc[d] /\ target'[d] = target[d]
      BY <2>1 DEF GoTo, SwitchIInv, SwitchTypes
  <2>3. SwitchTypes'
      BY <2>1 DEF GoTo, SwitchIInv, SwitchTypes
  <2>4. \A d \in Cores, t \in Threads : HasContext(d, t)' <=> HasContext(d, t)
      BY <1>3, <2>1, <2>2 DEF HasContext, Loaded, Locking, Switching
  <2>5. LoadedIsGuarded' /\ ContextLoadedOnce'
      BY <2>1, <2>4 DEF SwitchIInv, LoadedIsGuarded, ContextLoadedOnce, HasContext
  <2>6. CheckedIsCurrent'
      BY <2>1, <2>2 DEF SwitchIInv, CheckedIsCurrent
  <2>7. QED
      BY <2>3, <2>5, <2>6 DEF SwitchIInv
<1>4. QED
    BY <1>1, <1>2, <1>3 DEF LoadHighest

\* What a core does by itself.
LEMMA CoreStepKeepsInvariant ==
    ASSUME SwitchIInv, NEW c \in Cores, CoreStep(c)
    PROVE  SwitchIInv'
<1> USE CoresAreActors
<1>1. CASE Loop(c)
  <2>1. CASE interrupted[c]
      BY <1>1, <2>1, OutsideSwitch DEF Loop, Switching
  <2>2. CASE ~interrupted[c]
      BY <1>1, <2>2, OutsideSwitch DEF Loop, Switching
  <2>3. QED
      BY <2>1, <2>2
<1>2. CASE EnterContext(c)
  <2>1. CASE interrupted[c]
      BY <1>2, <2>1, OutsideSwitch DEF EnterContext, Switching
  <2>2. CASE ~interrupted[c]
      BY <1>2, <2>2, OutsideSwitch DEF EnterContext, Switching
  <2>3. QED
      BY <2>1, <2>2
<1>3. CASE HandleInterrupt(c)
    BY <1>3, OutsideSwitch DEF HandleInterrupt, Switching
<1>4. CASE RequestScheduleOnInterrupt(c)
    BY <1>4, OutsideSwitch DEF RequestScheduleOnInterrupt, Switching
<1>5. CASE RescheduleCurrentCore(c)
  <2>1. CASE needs[c]
      BY <1>5, <2>1, OutsideSwitch DEF RescheduleCurrentCore, Switching
  <2>2. CASE ~needs[c]
      BY <1>5, <2>2, OutsideSwitch DEF RescheduleCurrentCore, Switching
  <2>3. QED
      BY <2>1, <2>2
<1>6. CASE Retry(c)
    BY <1>6, WithoutContext DEF Retry, switchVars
<1>7. CASE LoadHighest(c)
    BY <1>7, LoadHighestKeepsInvariant
<1>8. CASE Unload(c)
    BY <1>8, UnloadKeepsInvariant
<1>9. CASE TryLock(c)
    BY <1>9, TryLockKeepsInvariant
<1>10. CASE Spin(c)
  <2>1. CASE needs[c]
      BY <1>10, <2>1, WithoutContext DEF Spin, switchVars
  <2>2. CASE ~needs[c]
      BY <1>10, <2>2, WithoutContext DEF Spin, switchVars
  <2>3. QED
      BY <2>1, <2>2
<1>11. CASE SwitchThread(c)
    BY <1>11, SwitchThreadKeepsInvariant
<1>12. CASE CheckNeeds(c)
    BY <1>12, CheckNeedsKeepsInvariant
<1>13. QED
    BY <1>1, <1>2, <1>3, <1>4, <1>5, <1>6, <1>7, <1>8, <1>9, <1>10, <1>11, <1>12 DEF CoreStep

\* The release of the scheduler lock.
LEMMA ReleaseStepKeepsInvariant ==
    ASSUME SwitchIInv, NEW a \in Actors, ReleaseStep(a)
    PROVE  SwitchIInv'
<1>1. AfterInterrupts(a) \notin Switching
    BY DEF AfterInterrupts, Switching
<1>2. CASE Publish(a)
    BY <1>2, NobodyMoves DEF Publish
<1>3. CASE ReleaseLock(a)
  <2>1. CASE mask[a] = {}
      BY <1>1, <1>3, <2>1, OutsideSwitch DEF ReleaseLock, Switching
  <2>2. CASE mask[a] # {}
      BY <1>3, <2>2, OutsideSwitch DEF ReleaseLock, Switching
  <2>3. QED
      BY <2>1, <2>2
<1>4. CASE SendInterrupt(a)
  <2> DEFINE c == CHOOSE c \in mask[a] : \A d \in mask[a] : c <= d
             l == IF mask[a] = {c} THEN AfterInterrupts(a) ELSE "interrupt"
  <2>1. pc[a] = "interrupt" /\ GoTo(a, l) /\ UNCHANGED switchVars
      BY <1>4 DEF SendInterrupt
  <2>2. l \notin Switching
      BY <1>1 DEF Switching
  <2> HIDE DEF l
  <2>3. QED
      BY <2>1, <2>2, OutsideSwitch DEF Switching
<1>5. QED
    BY <1>2, <1>3, <1>4 DEF ReleaseStep

\* Every operation under the lock leaves its actor at the release.
LEMMA LockStepKeepsInvariant ==
    ASSUME SwitchIInv, NEW a \in Actors, NEW s, LockAndUpdate(a, s),
           pc[a] \notin Switching, UNCHANGED switchVars
    PROVE  SwitchIInv'
<1>1. GoTo(a, "publish")
    BY DEF LockAndUpdate
<1>2. QED
    BY <1>1, OutsideSwitch DEF Switching

\* Every step of a core, a guest or another CPU keeps the invariant.
LEMMA SwitchNextKeepsInvariant == SwitchIInv /\ [SwitchNext]_vars => SwitchIInv'
<1> SUFFICES ASSUME SwitchIInv, [SwitchNext]_vars PROVE SwitchIInv'
    OBVIOUS
<1> USE CoresAreActors
<1>1. CASE \E c \in Cores : CoreStep(c)
    BY <1>1, CoreStepKeepsInvariant
<1>2. ASSUME NEW c \in Cores, LeaveGuest(c) PROVE SwitchIInv'
  <2>1. pc[c] \notin Switching /\ UNCHANGED switchVars
      BY <1>2 DEF LeaveGuest, Switching
  <2>2. GoTo(c, "loop") \/ GoTo(c, "svc")
      BY <1>2 DEF LeaveGuest
  <2>3. QED
      BY <2>1, <2>2, OutsideSwitch DEF Switching
<1>3. ASSUME NEW c \in Cores, SystemCall(c) PROVE SwitchIInv'
  <2>1. pc[c] \notin Switching /\ UNCHANGED switchVars
      BY <1>3 DEF SystemCall, Switching
  <2>2. \E s : LockAndUpdate(c, s)
      BY <1>3 DEF SystemCall, WakeThread
  <2>3. QED
      BY <2>1, <2>2, LockStepKeepsInvariant
<1>4. ASSUME NEW c \in Cores, ReturnFromCall(c) PROVE SwitchIInv'
    BY <1>4, OutsideSwitch DEF ReturnFromCall, Switching
<1>5. CASE \E a \in Actors : ReleaseStep(a)
    BY <1>5, ReleaseStepKeepsInvariant
<1>6. CASE HostWakes
  <2>1. pc[Host] \notin Switching /\ UNCHANGED switchVars
      BY <1>6 DEF HostWakes, Switching
  <2>2. \E s : LockAndUpdate(Host, s)
      BY <1>6 DEF HostWakes, WakeThread
  <2>3. QED
      BY <2>1, <2>2, LockStepKeepsInvariant
<1>7. CASE HostPauses
  <2>1. pc[Host] \notin Switching /\ UNCHANGED switchVars
      BY <1>7 DEF HostPauses, Switching
  <2>2. \E s : LockAndUpdate(Host, s)
      BY <1>7 DEF HostPauses
  <2>3. QED
      BY <2>1, <2>2, LockStepKeepsInvariant
<1>8. CASE Verify
    BY <1>8, OutsideSwitch DEF Verify, Switching
<1>9. CASE \E t \in Threads : FinishTermination(t)
    BY <1>9, NobodyMoves DEF FinishTermination
<1>10. CASE UNCHANGED vars
    BY <1>10, NobodyMoves DEF vars
<1>11. QED
    BY <1>1, <1>2, <1>3, <1>4, <1>5, <1>6, <1>7, <1>8, <1>9, <1>10 DEF SwitchNext

\* No two cores ever have the same thread loaded: the hand-over of a context
\* guard in Unload, TryLock and CheckNeeds is enough, whatever the decisions.
THEOREM ContextLoadedOnceHolds == SwitchSpec => []ContextLoadedOnce
<1>1. SwitchIInv => ContextLoadedOnce
    BY DEF SwitchIInv
<1>2. QED
    BY <1>1, SwitchInitEstablishes, SwitchNextKeepsInvariant, PTL DEF SwitchSpec

-----------------------------------------------------------------------------
(* What the cores do about the decisions.  From here on the decisions are  *)
(* those of the first part: the state behind the lock is settled.          *)

\* A core carries out the thread it has loaded, or stays with its own one.
Heading == {"unload", "trylock", "spin", "switch", "check"}
Staying == {"enable", "loop", "handle", "request", "enter", "guest", "svc", "publish", "interrupt"}
CoreLabels == Heading \cup Staying \cup {"load", "reload", "retry"}

\* Where it executes for its current thread and nobody has it switch.
GuestSide == {"loop", "handle", "request", "enter", "guest", "svc"}

\* Where an actor has the lock, or is telling the other cores what it decided.
Releasing == {"publish", "interrupt"}

Writes == [core : Cores, highest : {{}} \cup {{t} : t \in Decisions}]

SwitchFunctions ==
    /\ highest \in [Cores -> Decisions] /\ needs \in [Cores -> BOOLEAN]
    /\ current \in [Cores -> Decisions] /\ target \in [Cores -> Decisions]
    /\ guard \in SUBSET Threads /\ mask \in [Actors -> SUBSET Cores]
    /\ interrupted \in [Cores -> BOOLEAN] /\ halted \in [Cores -> BOOLEAN]
    /\ subject \in Decisions /\ paused \in SUBSET Threads /\ closing \in [Threads -> Int]
    /\ writes \in Seq(Writes)

\* The actor that publishes has the lock, and nothing is published without it.
ReleaseInv ==
    /\ pc[Host] \in {"idle", "publish", "interrupt", "verify"}
    /\ lock \in Actors \cup {Free}
    /\ \A a \in Actors : lock = a <=> pc[a] = "publish"
    /\ lock = Free => writes = <<>>
    /\ \A a \in Actors : pc[a] = "interrupt" => mask[a] # {}
    /\ pc[Host] = "verify" => subject # Null

\* The decision of core c is published, or the last store of it yet to come is.
Published(c) ==
    \/ /\ highest[c] = ctx.highest[c]
       /\ \A i \in 1 .. Len(writes) : writes[i].core = c => writes[i].highest = {}
    \/ \E i \in 1 .. Len(writes) :
          /\ writes[i].core = c /\ writes[i].highest = {ctx.highest[c]}
          /\ \A j \in i + 1 .. Len(writes) : writes[j].core = c => writes[j].highest = {}

\* The core of a store will be interrupted, and the flag follows the thread.
WriteOk(i) ==
    /\ writes[i].core = lock \/ (lock \in Actors /\ writes[i].core \in mask[lock])
    /\ writes[i].highest # {} => /\ i + 1 \in 1 .. Len(writes)
                                 /\ writes[i + 1].core = writes[i].core
                                 /\ writes[i + 1].highest = {}

WritesInv == /\ \A i \in 1 .. Len(writes) : WriteOk(i)
             /\ \A c \in Cores : Published(c)

\* The core finds its flag set before it stays with what it has, or will.
Told(c) == needs[c] \/ \E i \in 1 .. Len(writes) : writes[i].core = c /\ writes[i].highest = {}

\* An actor is about to interrupt core c.
Informed(c) == \E a \in Actors : pc[a] \in Releasing /\ c \in mask[a]

\* The thread has left the queues for good, or for as long as it is nobody's.
Gone(t) == ctx.state[t] = "Terminated" \/ ctx.core[t] = NoCore

\* A core that does not head for, or stay with, its decision is told of it; one
\* that is told is interrupted or releases the lock; one whose thread is gone
\* will not go on with it.
CoreOk(c) ==
    /\ pc[c] \in CoreLabels
    /\ pc[c] \in {"enter", "guest", "svc"} => current[c] # Null
    /\ pc[c] \in Heading => target[c] = ctx.highest[c] \/ Told(c)
    /\ pc[c] \in Staying => current[c] = ctx.highest[c] \/ Told(c)
    /\ pc[c] \notin Releasing \cup {"enable", "request"} /\ needs[c]
          => interrupted[c] \/ Informed(c)
    /\ interrupted[c] /\ pc[c] = "guest" => halted[c]
    /\ current[c] # Null /\ Gone(current[c]) =>
          /\ pc[c] \notin GuestSide
          /\ pc[c] \in {"interrupt", "enable"} => needs[c]

\* A core that heads for t has its flag set.
Diverted(c, t) == pc[c] \in Heading /\ target[c] = t => needs[c]

\* No core will load t.
Withdrawn(t) ==
    /\ \A c \in Cores : highest[c] # t /\ Diverted(c, t)
    /\ \A i \in 1 .. Len(writes) : t \notin writes[i].highest

\* The core of t is in the operation that made it leave.
Leaving(t) == \E c \in Cores : pc[c] = "publish" /\ current[c] = t

\* The guard of a thread says who has it; a thread that is gone or paused will
\* not be loaded any more; one that FinishTermination looks for is not current
\* on the cores behind it.
ThreadOk(t) ==
    /\ t \in guard => (\E c \in Cores : HasContext(c, t)) \/ ctx.state[t] = "Terminated"
    /\ ctx.state[t] = "Terminated" => t \in guard /\ \A c \in Cores : ~Locking(c, t)
    /\ Gone(t) \/ t \in paused => Withdrawn(t) \/ Leaving(t)
    /\ t \in paused => ctx.state[t] = "Waiting" /\ \A c \in Cores : ~Loaded(c, t)
    /\ closing[t] >= 0 => /\ ctx.state[t] = "Terminated"
                          /\ \A c \in Cores : c < closing[t] => current[c] # t

CoresInv == \A c \in Cores : CoreOk(c)
ThreadsInv == \A t \in Threads : ThreadOk(t)
NobodyPinned == \A c \in Cores : ctx.pinned[c] = Null

\* The inductive invariant.
CarriedInv ==
    /\ SettledInv /\ NobodyPinned
    /\ SwitchIInv /\ SwitchFunctions
    /\ ReleaseInv /\ WritesInv
    /\ CoresInv /\ ThreadsInv

-----------------------------------------------------------------------------
(* Steps a core takes by itself *)

\* Core c goes from one place to another and changes nothing that is not its own.
OwnStep(c) ==
    /\ UNCHANGED <<ctx, highest, lock, writes, mask, threadVars>>
    /\ pc'[Host] = pc[Host]
    /\ \A d \in Cores \ {c} :
          /\ pc'[d] = pc[d] /\ needs'[d] = needs[d]
          /\ current'[d] = current[d] /\ target'[d] = target[d]
          /\ interrupted'[d] = interrupted[d] /\ halted'[d] = halted[d]
    /\ pc[c] \notin Releasing /\ pc'[c] \notin Releasing

LEMMA OwnStepIs ==
    ASSUME SwitchFunctions, SwitchTypes, NEW c \in Cores,
           CoreStep(c) \/ LeaveGuest(c) \/ ReturnFromCall(c)
    PROVE  OwnStep(c) /\ SwitchFunctions'
<1> USE CoresAreActors
<1>1. CASE Loop(c)
    BY <1>1 DEF Loop, GoTo, OwnStep, Releasing, SwitchFunctions, SwitchTypes, schedulerVars, switchVars,
           coreVars, threadVars
<1>2. CASE EnterContext(c)
    BY <1>2 DEF EnterContext, GoTo, OwnStep, Releasing, SwitchFunctions, SwitchTypes, schedulerVars,
           switchVars, coreVars, threadVars
<1>3. CASE HandleInterrupt(c)
    BY <1>3 DEF HandleInterrupt, GoTo, OwnStep, Releasing, SwitchFunctions, SwitchTypes, schedulerVars,
           switchVars, coreVars, threadVars
<1>4. CASE RequestScheduleOnInterrupt(c)
    BY <1>4 DEF RequestScheduleOnInterrupt, GoTo, OwnStep, Releasing, SwitchFunctions, SwitchTypes,
           schedulerVars, switchVars, coreVars, threadVars
<1>5. CASE RescheduleCurrentCore(c)
    BY <1>5 DEF RescheduleCurrentCore, GoTo, OwnStep, Releasing, SwitchFunctions, SwitchTypes,
           schedulerVars, switchVars, coreVars, threadVars
<1>6. CASE Retry(c)
    BY <1>6 DEF Retry, GoTo, OwnStep, Releasing, SwitchFunctions, SwitchTypes, schedulerVars, switchVars,
           coreVars, threadVars
<1>7. CASE LoadHighest(c)
  <2>1. PICK l \in {"loop", "unload", "trylock"} : GoTo(c, l)
    BY <1>7 DEF LoadHighest
  <2>2. pc[c] \in {"load", "reload"} /\ target' \in {target, [target EXCEPT ![c] = highest[c]]}
    BY <1>7 DEF LoadHighest
  <2>3. target' \in [Cores -> Decisions] /\ \A d \in Cores \ {c} : target'[d] = target[d]
    BY <2>2 DEF SwitchFunctions
  <2>4. UNCHANGED <<ctx, schedulerVars, current, guard, coreVars, threadVars, mask>>
    BY <1>7 DEF LoadHighest
  <2>5. QED
    BY <2>1, <2>2, <2>3, <2>4 DEF GoTo, OwnStep, Releasing, SwitchFunctions, SwitchTypes,
           schedulerVars, coreVars, threadVars
<1>8. CASE Unload(c)
    BY <1>8 DEF Unload, GoTo, OwnStep, Releasing, SwitchFunctions, SwitchTypes, schedulerVars, switchVars,
           coreVars, threadVars
<1>9. CASE TryLock(c)
    BY <1>9 DEF TryLock, GoTo, OwnStep, Releasing, SwitchFunctions, SwitchTypes, schedulerVars, switchVars,
           coreVars, threadVars, Decisions
<1>10. CASE Spin(c)
    BY <1>10 DEF Spin, GoTo, OwnStep, Releasing, SwitchFunctions, SwitchTypes, schedulerVars, switchVars,
           coreVars, threadVars
<1>11. CASE SwitchThread(c)
    BY <1>11 DEF SwitchThread, GoTo, OwnStep, Releasing, SwitchFunctions, SwitchTypes, schedulerVars,
           switchVars, coreVars, threadVars
<1>12. CASE CheckNeeds(c)
    BY <1>12 DEF CheckNeeds, GoTo, OwnStep, Releasing, SwitchFunctions, SwitchTypes, schedulerVars,
           switchVars, coreVars, threadVars, Decisions
<1>13. CASE LeaveGuest(c)
    BY <1>13 DEF LeaveGuest, GoTo, OwnStep, Releasing, SwitchFunctions, SwitchTypes, schedulerVars,
           switchVars, coreVars, threadVars
<1>14. CASE ReturnFromCall(c)
    BY <1>14 DEF ReturnFromCall, GoTo, OwnStep, Releasing, SwitchFunctions, SwitchTypes, schedulerVars,
           switchVars, coreVars, threadVars
<1>15. QED
    BY <1>1, <1>2, <1>3, <1>4, <1>5, <1>6, <1>7, <1>8, <1>9, <1>10, <1>11, <1>12, <1>13, <1>14
    DEF CoreStep

\* Nothing that others rely on changes.
LEMMA OwnStepKeepsOthers ==
    ASSUME CarriedInv, NEW c \in Cores, OwnStep(c)
    PROVE  /\ SettledInv' /\ NobodyPinned' /\ ReleaseInv' /\ WritesInv'
           /\ \A d \in Cores \ {c} : CoreOk(d)'
           /\ \A d \in Cores : Informed(d)' <=> Informed(d)
           /\ \A t \in Threads : /\ Gone(t)' <=> Gone(t)
                                 /\ Leaving(t)' <=> Leaving(t)
<1> USE CoresAreActors
<1>1. /\ ctx' = ctx /\ highest' = highest /\ lock' = lock /\ writes' = writes /\ mask' = mask
      /\ subject' = subject /\ paused' = paused /\ closing' = closing
      /\ pc'[Host] = pc[Host]
      /\ \A d \in Cores \ {c} : pc'[d] = pc[d]
      /\ pc[c] \notin {"publish", "interrupt"} /\ pc'[c] \notin {"publish", "interrupt"}
    BY DEF OwnStep, threadVars, Releasing
<1>2. \A a \in Actors : /\ pc'[a] = "publish" <=> pc[a] = "publish"
                        /\ pc'[a] = "interrupt" <=> pc[a] = "interrupt"
    BY <1>1 DEF Actors
<1>3. SettledInv' /\ NobodyPinned'
    BY <1>1 DEF CarriedInv, SettledInv, NobodyPinned
<1>4. ReleaseInv'
    BY <1>1, <1>2 DEF CarriedInv, ReleaseInv
<1>5. WritesInv'
  <2>1. \A i \in 1 .. Len(writes) : WriteOk(i)' <=> WriteOk(i)
    BY <1>1 DEF WriteOk
  <2>2. \A d \in Cores : Published(d)' <=> Published(d)
    BY <1>1 DEF Published
  <2>3. QED BY <1>1, <2>1, <2>2 DEF CarriedInv, WritesInv
<1>6. \A d \in Cores : Informed(d)' <=> Informed(d)
    BY <1>1, <1>2 DEF Informed, Releasing
<1>7. \A t \in Threads : Gone(t)' <=> Gone(t)
    BY <1>1 DEF Gone
<1>8. \A t \in Threads : Leaving(t)' <=> Leaving(t)
    BY <1>1 DEF Leaving, OwnStep
<1>9. ASSUME NEW d \in Cores \ {c} PROVE CoreOk(d)'
  <2>1. /\ pc'[d] = pc[d] /\ needs'[d] = needs[d]
        /\ current'[d] = current[d] /\ target'[d] = target[d]
        /\ interrupted'[d] = interrupted[d] /\ halted'[d] = halted[d]
    BY DEF OwnStep
  <2>2. CoreOk(d)
    BY DEF CarriedInv, CoresInv
  <2>3. Told(d)' <=> Told(d)
    BY <1>1, <2>1 DEF Told
  <2>4. current[d] # Null => (Gone(current[d])' <=> Gone(current[d]))
    BY <1>1, <2>1 DEF Gone
  <2>5. QED BY <1>1, <1>6, <2>1, <2>2, <2>3, <2>4 DEF CoreOk
<1>10. QED BY <1>3, <1>4, <1>5, <1>6, <1>7, <1>8, <1>9

\* The core's view of its decision is the decision, or the flag will be set.
LEMMA HighestOrTold ==
    ASSUME CarriedInv, NEW c \in Cores
    PROVE  highest[c] = ctx.highest[c] \/ Told(c)
<1>1. Published(c) /\ \A i \in 1 .. Len(writes) : WriteOk(i)
    BY DEF CarriedInv, WritesInv
<1>2. CASE \E i \in 1 .. Len(writes) : writes[i].core = c /\ writes[i].highest = {ctx.highest[c]}
  <2>1. PICK i \in 1 .. Len(writes) : writes[i].core = c /\ writes[i].highest = {ctx.highest[c]}
    BY <1>2
  <2>2. i + 1 \in 1 .. Len(writes) /\ writes[i + 1].core = c /\ writes[i + 1].highest = {}
    BY <1>1, <2>1 DEF WriteOk
  <2>3. QED BY <2>2 DEF Told
<1>3. QED BY <1>1, <1>2 DEF Published

\* A thread that is gone or paused is withdrawn once its core has left the
\* operation.
LEMMA WithdrawnUnlessLeaving ==
    ASSUME CarriedInv, NEW c \in Cores, NEW t \in Threads, HasContext(c, t), pc[c] # "publish",
           Gone(t) \/ t \in paused
    PROVE  Withdrawn(t)
<1>1. Withdrawn(t) \/ Leaving(t)
    BY DEF CarriedInv, ThreadsInv, ThreadOk
<1>2. ~Leaving(t)
  <2> SUFFICES ASSUME NEW d \in Cores, pc[d] = "publish", current[d] = t PROVE FALSE
    BY DEF Leaving
  <2>1. HasContext(d, t)
    BY DEF HasContext, Loaded, Switching
  <2>2. d = c
    BY <2>1 DEF CarriedInv, SwitchIInv, ContextLoadedOnce, HasContext
  <2>3. QED BY <2>2
<1>3. QED BY <1>1, <1>2

LEMMA OwnStepKeepsCore ==
    ASSUME CarriedInv, NEW c \in Cores,
           CoreStep(c) \/ LeaveGuest(c) \/ ReturnFromCall(c)
    PROVE  CoreOk(c)'
<1> USE CoresAreActors
<1>1. SwitchFunctions /\ SwitchTypes /\ CoreOk(c)
    BY DEF CarriedInv, CoresInv, SwitchIInv
<1>2. OwnStep(c)
    BY <1>1, OwnStepIs
<1>3. ctx' = ctx /\ writes' = writes /\ (Informed(c)' <=> Informed(c))
    BY <1>2, OwnStepKeepsOthers DEF OwnStep
<1>4. needs'[c] = needs[c] => (Told(c)' <=> Told(c))
    BY <1>3 DEF Told
<1>5. \A t : Gone(t)' <=> Gone(t)
    BY <1>3 DEF Gone
<1>6. CASE Loop(c)
    BY <1>1, <1>3, <1>4, <1>5, <1>6
    DEF Loop, GoTo, CoreOk, CoreLabels, Staying, Heading, GuestSide, Releasing, SwitchFunctions, SwitchTypes,
        schedulerVars, switchVars, coreVars
<1>7. CASE EnterContext(c)
    BY <1>1, <1>3, <1>4, <1>5, <1>7
    DEF EnterContext, GoTo, CoreOk, CoreLabels, Staying, Heading, GuestSide, Releasing, SwitchFunctions,
        SwitchTypes, schedulerVars, switchVars, coreVars
<1>8. CASE HandleInterrupt(c)
    BY <1>1, <1>3, <1>4, <1>5, <1>8
    DEF HandleInterrupt, GoTo, CoreOk, CoreLabels, Staying, Heading, GuestSide, Releasing, SwitchFunctions,
        SwitchTypes, schedulerVars, switchVars, coreVars
<1>9. CASE RequestScheduleOnInterrupt(c)
    BY <1>1, <1>3, <1>4, <1>5, <1>9
    DEF RequestScheduleOnInterrupt, GoTo, CoreOk, CoreLabels, Staying, Heading, GuestSide, Releasing,
        SwitchFunctions, SwitchTypes, schedulerVars, switchVars, coreVars
<1>10. CASE RescheduleCurrentCore(c)
    BY <1>1, <1>3, <1>4, <1>5, <1>10
    DEF RescheduleCurrentCore, GoTo, CoreOk, CoreLabels, Staying, Heading, GuestSide, Releasing,
        SwitchFunctions, SwitchTypes, schedulerVars, switchVars, coreVars
<1>11. CASE Retry(c)
    BY <1>1, <1>3, <1>4, <1>5, <1>11
    DEF Retry, GoTo, CoreOk, CoreLabels, Staying, Heading, GuestSide, Releasing, SwitchFunctions,
        SwitchTypes, schedulerVars, switchVars, coreVars
<1>12. CASE LoadHighest(c)
  <2>1. highest[c] = ctx.highest[c] \/ Told(c)
    BY HighestOrTold
  <2>2. /\ needs'[c] = needs[c] /\ interrupted'[c] = interrupted[c] /\ halted'[c] = halted[c]
        /\ current'[c] = current[c] /\ pc[c] \in {"load", "reload"}
    BY <1>12 DEF LoadHighest, schedulerVars, coreVars
  <2>3. CASE pc[c] = "load" /\ highest[c] # Null /\ highest[c] = current[c]
    <3>1. pc'[c] = "loop"
      BY <1>1, <1>12, <2>3 DEF LoadHighest, GoTo, SwitchTypes
    <3>2. ~Gone(current[c])
      <4> SUFFICES ASSUME Gone(current[c]) PROVE FALSE
        OBVIOUS
      <4>1. current[c] \in Threads /\ HasContext(c, current[c])
        BY <1>1, <2>3 DEF SwitchFunctions, Decisions, HasContext, Loaded, Switching
      <4>2. Withdrawn(current[c])
        BY <2>3, <4>1, WithdrawnUnlessLeaving
      <4>3. QED BY <2>3, <4>2 DEF Withdrawn
    <3>3. QED BY <1>1, <1>3, <1>4, <1>5, <2>1, <2>2, <2>3, <3>1, <3>2
              DEF CoreOk, CoreLabels, Staying, Heading, GuestSide, Releasing
  <2>4. CASE ~(pc[c] = "load" /\ highest[c] # Null /\ highest[c] = current[c])
    <3>1. pc'[c] \in {"unload", "trylock"} /\ target'[c] = highest[c]
      BY <1>1, <1>12, <2>4 DEF LoadHighest, GoTo, SwitchTypes, SwitchFunctions
    <3>2. QED BY <1>1, <1>3, <1>4, <1>5, <2>1, <2>2, <3>1
              DEF CoreOk, CoreLabels, Staying, Heading, GuestSide, Releasing
  <2>5. QED BY <2>3, <2>4
<1>13. CASE Unload(c)
    BY <1>1, <1>3, <1>4, <1>5, <1>13
    DEF Unload, GoTo, CoreOk, CoreLabels, Staying, Heading, GuestSide, Releasing, SwitchFunctions,
        SwitchTypes, schedulerVars, coreVars
<1>14. CASE TryLock(c)
    BY <1>1, <1>3, <1>4, <1>5, <1>14
    DEF TryLock, GoTo, CoreOk, CoreLabels, Staying, Heading, GuestSide, Releasing, SwitchFunctions,
        SwitchTypes, schedulerVars, coreVars
<1>15. CASE Spin(c)
    BY <1>1, <1>3, <1>4, <1>5, <1>15
    DEF Spin, GoTo, CoreOk, CoreLabels, Staying, Heading, GuestSide, Releasing, SwitchFunctions,
        SwitchTypes, schedulerVars, switchVars, coreVars
<1>16. CASE SwitchThread(c)
    BY <1>1, <1>3, <1>4, <1>5, <1>16
    DEF SwitchThread, GoTo, CoreOk, CoreLabels, Staying, Heading, GuestSide, Releasing, SwitchFunctions,
        SwitchTypes, schedulerVars, coreVars
<1>17. CASE CheckNeeds(c)
  <2>1. pc[c] = "check" /\ current[c] = target[c]
    BY <1>17 DEF CheckNeeds, CarriedInv, SwitchIInv, CheckedIsCurrent
  <2>2. current[c] # Null /\ Gone(current[c]) => needs[c]
    <3> SUFFICES ASSUME current[c] # Null, Gone(current[c]) PROVE needs[c]
      OBVIOUS
    <3>1. current[c] \in Threads /\ HasContext(c, current[c])
      BY <1>1, <2>1 DEF SwitchFunctions, Decisions, HasContext, Locking
    <3>2. Withdrawn(current[c])
      BY <2>1, <3>1, WithdrawnUnlessLeaving
    <3>3. QED BY <2>1, <3>2 DEF Withdrawn, Diverted, Heading
  <2>3. QED
    BY <1>1, <1>3, <1>4, <1>5, <1>17, <2>1, <2>2
    DEF CheckNeeds, GoTo, CoreOk, CoreLabels, Staying, Heading, GuestSide, Releasing, SwitchFunctions,
        SwitchTypes, schedulerVars, coreVars
<1>18. CASE LeaveGuest(c)
    BY <1>1, <1>3, <1>4, <1>5, <1>18
    DEF LeaveGuest, GoTo, CoreOk, CoreLabels, Staying, Heading, GuestSide, Releasing, SwitchFunctions,
        SwitchTypes, schedulerVars, switchVars, coreVars
<1>19. CASE ReturnFromCall(c)
    BY <1>1, <1>3, <1>4, <1>5, <1>19
    DEF ReturnFromCall, GoTo, CoreOk, CoreLabels, Staying, Heading, GuestSide, Releasing, SwitchFunctions,
        SwitchTypes, schedulerVars, switchVars, coreVars
<1>20. QED
    BY <1>6, <1>7, <1>8, <1>9, <1>10, <1>11, <1>12, <1>13, <1>14, <1>15, <1>16, <1>17, <1>18, <1>19
    DEF CoreStep

\* What a step of core c must do so that what is known of t stays true.
LEMMA OwnStepKeepsThread ==
    ASSUME CarriedInv, NEW c \in Cores, OwnStep(c), NEW t \in Threads,
           Withdrawn(t) => Diverted(c, t)',
           t \in paused => ~Loaded(c, t)',
           ctx.state[t] = "Terminated" /\ current[c] # t => current'[c] # t,
           t \in guard' => \/ \E d \in Cores \ {c} : HasContext(d, t)
                           \/ HasContext(c, t)' \/ ctx.state[t] = "Terminated",
           ctx.state[t] = "Terminated" => t \in guard' /\ ~Locking(c, t)'
    PROVE  ThreadOk(t)'
<1>1. /\ ctx' = ctx /\ highest' = highest /\ writes' = writes
      /\ paused' = paused /\ closing' = closing
      /\ \A d \in Cores \ {c} : /\ pc'[d] = pc[d] /\ needs'[d] = needs[d]
                                /\ current'[d] = current[d] /\ target'[d] = target[d]
    BY DEF OwnStep, threadVars
<1>2. \A d \in Cores \ {c} : /\ HasContext(d, t)' <=> HasContext(d, t)
                             /\ Loaded(d, t)' <=> Loaded(d, t)
                             /\ Locking(d, t)' <=> Locking(d, t)
                             /\ Diverted(d, t)' <=> Diverted(d, t)
    BY <1>1 DEF HasContext, Loaded, Locking, Diverted
<1>3. ThreadOk(t) /\ (Gone(t)' <=> Gone(t)) /\ (Leaving(t)' <=> Leaving(t))
    BY OwnStepKeepsOthers DEF CarriedInv, ThreadsInv
<1>4. Withdrawn(t) => Withdrawn(t)'
    BY <1>1, <1>2 DEF Withdrawn
<1>5. t \in guard' => (\E d \in Cores : HasContext(d, t)') \/ ctx.state[t] = "Terminated"
    BY <1>2
<1>6. ctx.state[t] = "Terminated" => t \in guard' /\ \A d \in Cores : ~Locking(d, t)'
    BY <1>2, <1>3 DEF ThreadOk
<1>7. t \in paused => ctx.state[t] = "Waiting" /\ \A d \in Cores : ~Loaded(d, t)'
    BY <1>2, <1>3 DEF ThreadOk
<1>8. closing[t] >= 0 => /\ ctx.state[t] = "Terminated"
                         /\ \A d \in Cores : d < closing[t] => current'[d] # t
    BY <1>1, <1>3 DEF ThreadOk
<1>9. Gone(t)' \/ t \in paused' => Withdrawn(t)' \/ Leaving(t)'
    BY <1>1, <1>3, <1>4 DEF ThreadOk
<1>10. QED
    BY <1>1, <1>5, <1>6, <1>7, <1>8, <1>9 DEF ThreadOk

\* Outside the switch nothing changes for any thread.
LEMMA OutsideKeepsThread ==
    ASSUME CarriedInv, NEW c \in Cores, OwnStep(c), NEW t \in Threads,
           UNCHANGED switchVars,
           pc[c] \notin Switching, pc'[c] \notin Switching \cup {"unload"}
    PROVE  ThreadOk(t)'
<1>1. current' = current /\ guard' = guard /\ target' = target
    BY DEF switchVars
<1>2. ThreadOk(t)
    BY DEF CarriedInv, ThreadsInv
<1>3. (Loaded(c, t)' <=> Loaded(c, t)) /\ ~Locking(c, t) /\ ~Locking(c, t)' /\ Diverted(c, t)'
    BY <1>1 DEF Loaded, Locking, Diverted, Switching, Heading
<1>4. HasContext(c, t)' <=> HasContext(c, t)
    BY <1>3 DEF HasContext
<1>5. t \in guard' => \/ \E d \in Cores \ {c} : HasContext(d, t)
                      \/ HasContext(c, t)' \/ ctx.state[t] = "Terminated"
    BY <1>1, <1>2, <1>4 DEF ThreadOk
<1>6. QED BY <1>1, <1>2, <1>3, <1>5, OwnStepKeepsThread DEF ThreadOk

\* Nor does a step inside it by which the core neither takes nor gives a guard.
LEMMA InsideKeepsThread ==
    ASSUME CarriedInv, NEW c \in Cores, OwnStep(c), NEW t \in Threads,
           guard' = guard, current' = current, Withdrawn(t) => Diverted(c, t)',
           pc[c] \in {"retry", "reload", "trylock", "spin"},
           pc'[c] \in {"reload", "trylock", "spin"}
    PROVE  ThreadOk(t)'
<1>1. ThreadOk(t)
    BY DEF CarriedInv, ThreadsInv
<1>2. ~Loaded(c, t)' /\ ~Locking(c, t)' /\ ~HasContext(c, t)
    BY DEF Loaded, Locking, Switching, HasContext
<1>3. t \in guard' => \/ \E d \in Cores \ {c} : HasContext(d, t)
                      \/ HasContext(c, t)' \/ ctx.state[t] = "Terminated"
    BY <1>1, <1>2 DEF ThreadOk
<1>4. QED BY <1>1, <1>2, <1>3, OwnStepKeepsThread DEF ThreadOk

LEMMA LoadHighestKeepsThread ==
    ASSUME CarriedInv, NEW c \in Cores, OwnStep(c), NEW t \in Threads, LoadHighest(c)
    PROVE  ThreadOk(t)'
<1> USE CoresAreActors
<1>1. SwitchFunctions /\ SwitchTypes /\ guard' = guard /\ current' = current
    BY DEF CarriedInv, SwitchIInv, LoadHighest
<1>2. CASE pc[c] = "load" /\ highest[c] # Null /\ highest[c] = current[c]
  <2>1. pc'[c] = "loop" /\ UNCHANGED switchVars
    BY <1>1, <1>2 DEF LoadHighest, GoTo, SwitchTypes, switchVars
  <2>2. QED BY <1>2, <2>1, OutsideKeepsThread DEF Switching
<1>3. CASE pc[c] = "load" /\ ~(highest[c] # Null /\ highest[c] = current[c])
  <2>1. pc'[c] = "unload" /\ target'[c] = highest[c]
    BY <1>1, <1>3 DEF LoadHighest, GoTo, SwitchTypes, SwitchFunctions
  <2>2. ThreadOk(t)
    BY DEF CarriedInv, ThreadsInv
  <2>3. (Loaded(c, t)' <=> Loaded(c, t)) /\ ~Locking(c, t) /\ ~Locking(c, t)'
    BY <1>1, <1>3, <2>1 DEF Loaded, Locking, Switching
  <2>4. HasContext(c, t)' <=> HasContext(c, t)
    BY <2>3 DEF HasContext
  <2>5. Withdrawn(t) => Diverted(c, t)'
    BY <2>1 DEF Withdrawn, Diverted
  <2>6. t \in guard' => \/ \E d \in Cores \ {c} : HasContext(d, t)
                        \/ HasContext(c, t)' \/ ctx.state[t] = "Terminated"
    BY <1>1, <2>2, <2>4 DEF ThreadOk
  <2>7. QED BY <1>1, <2>2, <2>3, <2>5, <2>6, OwnStepKeepsThread DEF ThreadOk
<1>4. CASE pc[c] = "reload"
  <2>1. pc'[c] = "trylock" /\ target'[c] = highest[c]
    BY <1>1, <1>4 DEF LoadHighest, GoTo, SwitchTypes, SwitchFunctions
  <2>2. Withdrawn(t) => Diverted(c, t)'
    BY <2>1 DEF Withdrawn, Diverted
  <2>3. QED BY <1>1, <1>4, <2>1, <2>2, InsideKeepsThread
<1>5. QED BY <1>2, <1>3, <1>4 DEF LoadHighest

\* The core gives up the guard of the thread only it has.
LEMMA UnloadKeepsThread ==
    ASSUME CarriedInv, NEW c \in Cores, OwnStep(c), NEW t \in Threads, Unload(c)
    PROVE  ThreadOk(t)'
<1> USE CoresAreActors
<1>1. SwitchTypes /\ ThreadOk(t)
    BY DEF CarriedInv, SwitchIInv, ThreadsInv
<1>2. /\ pc[c] = "unload" /\ pc'[c] = "trylock" /\ needs' = needs
      /\ current' = current /\ target' = target
    BY <1>1 DEF Unload, GoTo, SwitchTypes, schedulerVars
<1>3. /\ t \in guard' => t \in guard
      /\ t \in guard /\ (t # current[c] \/ ctx.state[t] = "Terminated") => t \in guard'
      /\ t \in guard' /\ t = current[c] => ctx.state[t] = "Terminated"
    BY NullIsNoThread DEF Unload
<1>4. ~Loaded(c, t)' /\ ~Locking(c, t)' /\ (HasContext(c, t) => current[c] = t)
    BY <1>2 DEF Loaded, Locking, Switching, HasContext
<1>5. Withdrawn(t) => Diverted(c, t)'
    BY <1>2 DEF Withdrawn, Diverted, Heading
<1>6. t \in guard' => \/ \E d \in Cores \ {c} : HasContext(d, t)
                      \/ HasContext(c, t)' \/ ctx.state[t] = "Terminated"
    BY <1>1, <1>3, <1>4 DEF ThreadOk
<1>7. QED BY <1>1, <1>2, <1>3, <1>4, <1>5, <1>6, OwnStepKeepsThread DEF ThreadOk

\* It takes a guard that is free: not that of a terminated thread.
LEMMA TryLockKeepsThread ==
    ASSUME CarriedInv, NEW c \in Cores, OwnStep(c), NEW t \in Threads, TryLock(c)
    PROVE  ThreadOk(t)'
<1> USE CoresAreActors
<1>1. SwitchTypes /\ ThreadOk(t)
    BY DEF CarriedInv, SwitchIInv, ThreadsInv
<1>2. pc[c] = "trylock" /\ needs' = needs /\ current' = current /\ target' = target
    BY DEF TryLock, schedulerVars
<1>3. Withdrawn(t) => Diverted(c, t)'
    BY <1>2 DEF Withdrawn, Diverted, Heading
<1>4. CASE target[c] \in guard
  <2>1. pc'[c] = "spin" /\ guard' = guard
    BY <1>1, <1>4 DEF TryLock, GoTo, SwitchTypes
  <2>2. QED BY <1>2, <1>3, <2>1, InsideKeepsThread
<1>5. CASE target[c] \notin guard
  <2>1. pc'[c] = "switch" /\ guard' = guard \cup ({target[c]} \ {Null})
    BY <1>1, <1>5 DEF TryLock, GoTo, SwitchTypes
  <2>2. ~Loaded(c, t)' /\ (Locking(c, t)' <=> target[c] = t) /\ ~HasContext(c, t)
    BY <1>2, <2>1 DEF Loaded, Locking, Switching, HasContext
  <2>3. ctx.state[t] = "Terminated" => t \in guard' /\ ~Locking(c, t)'
    BY <1>1, <1>5, <2>1, <2>2 DEF ThreadOk
  <2>4. t \in guard' => \/ \E d \in Cores \ {c} : HasContext(d, t)
                        \/ HasContext(c, t)' \/ ctx.state[t] = "Terminated"
    BY <1>1, <2>1, <2>2 DEF ThreadOk, HasContext
  <2>5. QED BY <1>2, <1>3, <2>2, <2>3, <2>4, OwnStepKeepsThread
<1>6. QED BY <1>4, <1>5

\* The thread it makes its current one is the one it has locked.
LEMMA SwitchThreadKeepsThread ==
    ASSUME CarriedInv, NEW c \in Cores, OwnStep(c), NEW t \in Threads, SwitchThread(c)
    PROVE  ThreadOk(t)'
<1> USE CoresAreActors
<1>1. SwitchTypes /\ ThreadOk(t)
    BY DEF CarriedInv, SwitchIInv, ThreadsInv
<1>2. /\ pc[c] = "switch" /\ pc'[c] = "check" /\ needs' = needs
      /\ guard' = guard /\ target' = target /\ current'[c] = target[c]
    BY <1>1 DEF SwitchThread, GoTo, SwitchTypes, schedulerVars
<1>3. Withdrawn(t) => Diverted(c, t)'
    BY <1>2 DEF Withdrawn, Diverted, Heading
<1>4. ~Loaded(c, t)' /\ (Locking(c, t)' <=> Locking(c, t)) /\ (Locking(c, t) <=> target[c] = t) /\ ~Loaded(c, t)
    BY <1>2 DEF Loaded, Locking, Switching
<1>5. t \in guard' => \/ \E d \in Cores \ {c} : HasContext(d, t)
                      \/ HasContext(c, t)' \/ ctx.state[t] = "Terminated"
    BY <1>1, <1>2, <1>4 DEF ThreadOk, HasContext
<1>6. QED BY <1>1, <1>2, <1>3, <1>4, <1>5, OwnStepKeepsThread DEF ThreadOk

\* It starts over with the guard given up, or goes on with a thread that nobody
\* has withdrawn.
LEMMA CheckNeedsKeepsThread ==
    ASSUME CarriedInv, NEW c \in Cores, OwnStep(c), NEW t \in Threads, CheckNeeds(c)
    PROVE  ThreadOk(t)'
<1> USE CoresAreActors
<1>1. SwitchTypes /\ ThreadOk(t)
    BY DEF CarriedInv, SwitchIInv, ThreadsInv
<1>2. pc[c] = "check" /\ current' = current /\ current[c] = target[c]
    BY DEF CheckNeeds, CarriedInv, SwitchIInv, CheckedIsCurrent
<1>3. (HasContext(c, t) <=> target[c] = t) /\ (Locking(c, t) <=> target[c] = t)
    BY <1>2 DEF Loaded, Locking, Switching, HasContext
<1>4. CASE needs[c]
  <2>1. pc'[c] = "retry" /\ guard' = guard \ {target[c]}
    BY <1>1, <1>4 DEF CheckNeeds, GoTo, SwitchTypes
  <2>2. ~Loaded(c, t)' /\ ~Locking(c, t)' /\ Diverted(c, t)'
    BY <2>1 DEF Loaded, Locking, Switching, Diverted, Heading
  <2>3. ctx.state[t] = "Terminated" => t \in guard' /\ ~Locking(c, t)'
    BY <1>1, <1>3, <2>1, <2>2 DEF ThreadOk
  <2>4. t \in guard' => \/ \E d \in Cores \ {c} : HasContext(d, t)
                        \/ HasContext(c, t)' \/ ctx.state[t] = "Terminated"
    BY <1>1, <1>3, <2>1 DEF ThreadOk
  <2>5. QED BY <1>2, <2>2, <2>3, <2>4, OwnStepKeepsThread
<1>5. CASE ~needs[c]
  <2>1. pc'[c] = "loop" /\ guard' = guard
    BY <1>1, <1>5 DEF CheckNeeds, GoTo, SwitchTypes
  <2>2. (Loaded(c, t)' <=> current[c] = t) /\ ~Locking(c, t)' /\ Diverted(c, t)'
    BY <1>2, <2>1 DEF Loaded, Locking, Switching, Diverted, Heading
  <2>3. t \in paused => ~Loaded(c, t)'
    <3> SUFFICES ASSUME t \in paused, current[c] = t PROVE FALSE
      BY <2>2
    <3>1. Withdrawn(t)
      BY <1>2, <1>3, WithdrawnUnlessLeaving
    <3>2. QED BY <1>2, <1>5, <3>1 DEF Withdrawn, Diverted, Heading
  <2>4. t \in guard' => \/ \E d \in Cores \ {c} : HasContext(d, t)
                        \/ HasContext(c, t)' \/ ctx.state[t] = "Terminated"
    BY <1>1, <1>2, <1>3, <2>1, <2>2 DEF ThreadOk, HasContext
  <2>5. QED BY <1>1, <1>2, <2>1, <2>2, <2>3, <2>4, OwnStepKeepsThread DEF ThreadOk
<1>6. QED BY <1>4, <1>5

LEMMA OwnStepKeepsThreads ==
    ASSUME CarriedInv, NEW c \in Cores,
           CoreStep(c) \/ LeaveGuest(c) \/ ReturnFromCall(c)
    PROVE  ThreadsInv'
<1> USE CoresAreActors
<1> SUFFICES ASSUME NEW t \in Threads PROVE ThreadOk(t)'
    BY DEF ThreadsInv
<1>1. SwitchFunctions /\ SwitchTypes
    BY DEF CarriedInv, SwitchIInv
<1>2. OwnStep(c)
    BY <1>1, OwnStepIs
<1>3. CASE Loop(c)
    BY <1>1, <1>2, <1>3, OutsideKeepsThread DEF Loop, GoTo, SwitchTypes, Switching
<1>4. CASE EnterContext(c)
    BY <1>1, <1>2, <1>4, OutsideKeepsThread DEF EnterContext, GoTo, SwitchTypes, Switching
<1>5. CASE HandleInterrupt(c)
    BY <1>1, <1>2, <1>5, OutsideKeepsThread DEF HandleInterrupt, GoTo, SwitchTypes, Switching
<1>6. CASE RequestScheduleOnInterrupt(c)
    BY <1>1, <1>2, <1>6, OutsideKeepsThread DEF RequestScheduleOnInterrupt, GoTo, SwitchTypes, Switching
<1>7. CASE RescheduleCurrentCore(c)
    BY <1>1, <1>2, <1>7, OutsideKeepsThread DEF RescheduleCurrentCore, GoTo, SwitchTypes, Switching
<1>8. CASE LeaveGuest(c)
    BY <1>1, <1>2, <1>8, OutsideKeepsThread DEF LeaveGuest, GoTo, SwitchTypes, Switching
<1>9. CASE ReturnFromCall(c)
    BY <1>1, <1>2, <1>9, OutsideKeepsThread DEF ReturnFromCall, GoTo, SwitchTypes, Switching
<1>10. CASE Retry(c)
  <2>1. /\ pc[c] = "retry" /\ pc'[c] = "reload" /\ guard' = guard /\ current' = current
        /\ Diverted(c, t)'
    BY <1>1, <1>10 DEF Retry, GoTo, SwitchTypes, switchVars, Diverted, Heading
  <2>2. QED BY <1>2, <2>1, InsideKeepsThread
<1>11. CASE Spin(c)
  <2>1. /\ pc[c] = "spin" /\ guard' = guard /\ current' = current /\ target' = target
        /\ pc'[c] = IF needs[c] THEN "reload" ELSE "trylock"
        /\ needs'[c] = FALSE
    BY <1>1, <1>11 DEF Spin, GoTo, SwitchTypes, switchVars, SwitchFunctions
  <2>2. Withdrawn(t) => Diverted(c, t)'
    BY <2>1 DEF Withdrawn, Diverted, Heading
  <2>3. QED BY <1>2, <2>1, <2>2, InsideKeepsThread
<1>12. QED
    BY <1>2, <1>3, <1>4, <1>5, <1>6, <1>7, <1>8, <1>9, <1>10, <1>11, LoadHighestKeepsThread,
       UnloadKeepsThread, TryLockKeepsThread, SwitchThreadKeepsThread, CheckNeedsKeepsThread
    DEF CoreStep

\* What a core does by itself, between its calls.
LEMMA OwnStepKeeps ==
    ASSUME CarriedInv, NEW c \in Cores,
           CoreStep(c) \/ LeaveGuest(c) \/ ReturnFromCall(c)
    PROVE  CarriedInv'
<1>1. OwnStep(c) /\ SwitchFunctions'
    BY OwnStepIs DEF CarriedInv, SwitchIInv
<1>2. SwitchIInv'
    BY SwitchNextKeepsInvariant DEF CarriedInv, SwitchNext
<1>3. CoresInv'
    BY <1>1, OwnStepKeepsOthers, OwnStepKeepsCore DEF CoresInv
<1>4. QED
    BY <1>1, <1>2, <1>3, OwnStepKeepsOthers, OwnStepKeepsThreads DEF CarriedInv

-----------------------------------------------------------------------------
(* Operations under the lock *)

\* Two writes for every store: the thread and then the flag.
TwoPerStore(w, v) ==
    /\ v \in Seq(Writes) /\ Len(v) = 2 * Len(w)
    /\ \A k \in 1 .. Len(w) : /\ v[2 * k - 1] = [core |-> w[k][1], highest |-> {w[k][2]}]
                              /\ v[2 * k] = [core |-> w[k][1], highest |-> {}]
    /\ \A i \in 1 .. Len(v) : \E k \in 1 .. Len(w) : i = 2 * k - 1 \/ i = 2 * k

\* The last store of core c, if there is one, takes its decision from x to y.
StoresLead(w, c, x, y) ==
    \/ y = x /\ \A i \in 1 .. Len(w) : w[i][1] # c
    \/ \E i \in 1 .. Len(w) : /\ w[i] = <<c, y>>
                              /\ \A j \in i + 1 .. Len(w) : w[j][1] # c

\* So do the writes, and set the flag of the core.
WritesLead(v, c, x, y) ==
    /\ \/ y = x /\ \A i \in 1 .. Len(v) : v[i].core = c => v[i].highest = {}
       \/ \E i \in 1 .. Len(v) : /\ v[i].core = c /\ v[i].highest = {y}
                                 /\ \A j \in i + 1 .. Len(v) : v[j].core = c => v[j].highest = {}
    /\ y # x => \E i \in 1 .. Len(v) : v[i].core = c /\ v[i].highest = {}

LEMMA PublicationIs ==
    ASSUME NEW w \in Seq(Cores \X Decisions)
    PROVE  TwoPerStore(w, Publication(w))
<1>0. PICK v : v = Publication(w)
    OBVIOUS
<1>1. PICK n \in Nat : n = Len(w)
    OBVIOUS
<1>2. \A k \in 1 .. n : w[k] = <<w[k][1], w[k][2]>> /\ w[k][1] \in Cores /\ w[k][2] \in Decisions
    BY <1>1
<1>3. v = [i \in 1 .. 2 * n |->
              [core |-> w[(i + 1) \div 2][1],
               highest |-> IF i % 2 = 1 THEN {w[(i + 1) \div 2][2]} ELSE {}]]
    BY <1>0, <1>1 DEF Publication
<1>4. \A k \in 1 .. n : /\ 2 * k - 1 \in 1 .. 2 * n /\ 2 * k \in 1 .. 2 * n
                        /\ ((2 * k - 1) + 1) \div 2 = k /\ (2 * k + 1) \div 2 = k
                        /\ (2 * k - 1) % 2 = 1 /\ (2 * k) % 2 = 0
    BY <1>1
<1>5. ASSUME NEW k \in 1 .. n
      PROVE  /\ v[2 * k - 1] = [core |-> w[k][1], highest |-> {w[k][2]}]
             /\ v[2 * k] = [core |-> w[k][1], highest |-> {}]
  <2>1. PICK i, j : i = 2 * k - 1 /\ j = 2 * k
    OBVIOUS
  <2>2. /\ i \in 1 .. 2 * n /\ (i + 1) \div 2 = k /\ i % 2 = 1
        /\ j \in 1 .. 2 * n /\ (j + 1) \div 2 = k /\ j % 2 # 1
    BY <1>4, <2>1
  <2>3. /\ v[i] = [core |-> w[(i + 1) \div 2][1],
                   highest |-> IF i % 2 = 1 THEN {w[(i + 1) \div 2][2]} ELSE {}]
        /\ v[j] = [core |-> w[(j + 1) \div 2][1],
                   highest |-> IF j % 2 = 1 THEN {w[(j + 1) \div 2][2]} ELSE {}]
    BY <1>3, <2>2, Zenon
  <2>4. v[i] = [core |-> w[k][1], highest |-> {w[k][2]}] /\ v[j] = [core |-> w[k][1], highest |-> {}]
    BY ONLY <2>2, <2>3, Zenon
  <2>5. QED BY <2>1, <2>4
<1>6. ASSUME NEW i \in 1 .. 2 * n PROVE \E k \in 1 .. n : i = 2 * k - 1 \/ i = 2 * k
  <2>1. PICK k : k = (i + 1) \div 2
    OBVIOUS
  <2>2. k \in 1 .. n /\ (i = 2 * k - 1 \/ i = 2 * k)
    BY <1>1, <2>1
  <2>3. QED BY <2>2
<1>7. ASSUME NEW i \in 1 .. 2 * n PROVE v[i] \in Writes
  <2>1. PICK k \in 1 .. n : i = 2 * k - 1 \/ i = 2 * k
    BY <1>6
  <2>2. v[i] \in {[core |-> w[k][1], highest |-> {w[k][2]}], [core |-> w[k][1], highest |-> {}]}
    BY <1>5, <2>1
  <2>3. QED BY <1>2, <2>2 DEF Writes
<1>8. v \in Seq(Writes) /\ Len(v) = 2 * n
  <2>1. 2 * n \in Nat /\ v = [i \in 1 .. 2 * n |-> v[i]]
    BY <1>1, <1>3
  <2>2. QED BY <1>7, <2>1
<1>9. TwoPerStore(w, v)
    BY <1>1, <1>5, <1>6, <1>8 DEF TwoPerStore
<1>10. QED BY <1>0, <1>9

LEMMA PublicationLeads ==
    ASSUME NEW w \in Seq(Cores \X Decisions), NEW v, TwoPerStore(w, v), NEW c \in Cores,
           NEW x, NEW y, StoresLead(w, c, x, y)
    PROVE  WritesLead(v, c, x, y)
<1>1. PICK n \in Nat : n = Len(w)
    OBVIOUS
<1>2. /\ Len(v) = 2 * n
      /\ \A k \in 1 .. n : /\ v[2 * k - 1] = [core |-> w[k][1], highest |-> {w[k][2]}]
                           /\ v[2 * k] = [core |-> w[k][1], highest |-> {}]
      /\ \A i \in 1 .. Len(v) : \E k \in 1 .. n : i = 2 * k - 1 \/ i = 2 * k
    BY <1>1 DEF TwoPerStore
<1>3. ASSUME NEW j \in 1 .. Len(v), NEW k \in 1 .. n, j = 2 * k - 1 \/ j = 2 * k, w[k][1] # c
      PROVE  v[j].core # c
  <2>1. v[j] \in {[core |-> w[k][1], highest |-> {w[k][2]}], [core |-> w[k][1], highest |-> {}]}
    BY <1>2, <1>3
  <2>2. QED BY <1>3, <2>1
<1>4. CASE y = x /\ \A i \in 1 .. n : w[i][1] # c
  <2>1. \A i \in 1 .. Len(v) : v[i].core # c
    BY <1>2, <1>3, <1>4
  <2>2. QED BY <1>4, <2>1 DEF WritesLead
<1>5. CASE \E i \in 1 .. n : w[i] = <<c, y>> /\ \A j \in i + 1 .. n : w[j][1] # c
  <2>1. PICK m \in 1 .. n : w[m] = <<c, y>> /\ \A j \in m + 1 .. n : w[j][1] # c
    BY <1>5
  <2>2. w[m][1] = c /\ w[m][2] = y
    BY <2>1
  <2>3. PICK i, k : i = 2 * m - 1 /\ k = 2 * m
    OBVIOUS
  <2>4. i \in 1 .. Len(v) /\ k \in 1 .. Len(v) /\ k = i + 1
    BY <1>1, <1>2, <2>3
  <2>5. v[i].core = c /\ v[i].highest = {y} /\ v[k].core = c /\ v[k].highest = {}
    <3>1. v[2 * m - 1] = [core |-> c, highest |-> {y}] /\ v[2 * m] = [core |-> c, highest |-> {}]
      BY <1>2, <2>2
    <3>2. QED BY <2>3, <3>1
  <2>6. ASSUME NEW j \in i + 1 .. Len(v), v[j].core = c PROVE v[j].highest = {}
    <3>1. j \in 1 .. Len(v)
      BY <1>1, <1>2, <2>4
    <3>2. PICK l \in 1 .. n : j = 2 * l - 1 \/ j = 2 * l
      BY <1>2, <3>1
    <3>3. CASE j = k
      BY <2>5, <3>3
    <3>4. CASE j # k
      <4>1. l \in m + 1 .. n
        BY <1>1, <2>3, <2>4, <3>2, <3>4
      <4>2. QED BY <1>3, <2>1, <2>6, <3>1, <3>2, <4>1
    <3>5. QED BY <3>3, <3>4
  <2>7. QED BY <2>4, <2>5, <2>6 DEF WritesLead
<1>6. QED BY <1>1, <1>4, <1>5 DEF StoresLead

\* Actor a takes the lock for an operation that leaves q: what the operations
\* have in common.  Only the thread that calls can be gone after it.
Operation(a, q) ==
    /\ LockAndUpdate(a, q) /\ pc[a] = IF a = Host THEN "idle" ELSE "svc"
    /\ UNCHANGED <<highest, needs, switchVars, coreVars>> /\ (a # Host => subject' = subject)
    /\ subject' \in Decisions /\ paused' \in SUBSET Threads /\ closing' \in [Threads -> Int]
    /\ Moves(ctx, q) /\ Ready(q) /\ q.pinned = ctx.pinned
    /\ \A t \in Threads :
          /\ q.state[t] = "Terminated" => ctx.state[t] = "Terminated" \/ (a \in Cores /\ current[a] = t)
          /\ q.core[t] = NoCore => ctx.core[t] = NoCore \/ (a \in Cores /\ current[a] = t)
          /\ ctx.state[t] = "Terminated" => q.state[t] = "Terminated"
          /\ t \in paused' => t \in paused /\ q.state[t] = "Waiting"
          /\ closing'[t] >= 0 => \/ closing'[t] = closing[t]
                                 \/ closing'[t] = 0 /\ q.state[t] = "Terminated"

\* While nobody has the lock, everything is published.
LEMMA FreeIsPublished ==
    ASSUME CarriedInv, lock = Free
    PROVE  /\ writes = <<>> /\ \A a \in Actors : pc[a] # "publish"
           /\ \A c \in Cores : highest[c] = ctx.highest[c]
           /\ \A c \in Cores : Told(c) <=> needs[c]
           /\ \A t \in Threads : ~Leaving(t)
<1>1. Free \notin Actors
    BY ActorsDiffer DEF Actors
<1>2. writes = <<>> /\ \A a \in Actors : pc[a] # "publish"
    BY <1>1 DEF CarriedInv, ReleaseInv
<1>3. \A c \in Cores : highest[c] = ctx.highest[c]
    BY <1>2 DEF CarriedInv, WritesInv, Published
<1>4. \A c \in Cores : Told(c) <=> needs[c]
    BY <1>2 DEF Told
<1>5. \A t \in Threads : ~Leaving(t)
    BY <1>2, CoresAreActors DEF Leaving
<1>6. QED BY <1>2, <1>3, <1>4, <1>5

\* The decision is made, and its log is about to be published.
LEMMA OperationDecides ==
    ASSUME CarriedInv, NEW a \in Actors, NEW q, Operation(a, q)
    PROVE  /\ SettledInv' /\ NobodyPinned' /\ WritesInv'
           /\ ctx'.state = q.state /\ StayOnCores(q, ctx', Threads)
           /\ lock' = a /\ pc' = [pc EXCEPT ![a] = "publish"]
           /\ writes' \in Seq(Writes) /\ mask' \in [Actors -> SUBSET Cores]
           /\ \A b \in Actors \ {a} : mask'[b] = mask[b]
           /\ \A i \in 1 .. Len(writes') : \A t \in Threads : t \in writes'[i].highest =>
                 ctx'.state[t] = "Runnable" /\ ctx'.core[t] \in Cores
           /\ \A c \in Cores : ctx'.highest[c] = ctx.highest[c] \/ Told(c)'
<1> USE CoresAreActors
<1>1. /\ LockAndUpdate(a, q) /\ highest' = highest /\ needs' = needs
      /\ Moves(ctx, q) /\ Ready(q) /\ q.pinned = ctx.pinned
    BY DEF Operation
<1>2. PICK u, w : u = UpdateHighestPriorityThreads(q) /\ w = u.stores
    OBVIOUS
<1>3. /\ lock = Free /\ lock' = a /\ pc' = [pc EXCEPT ![a] = "publish"]
      /\ ctx' = [u EXCEPT !.stores = <<>>] /\ writes' = Publication(w)
      /\ mask' = [mask EXCEPT ![a] = {st[1] : st \in {w[i] : i \in 1 .. Len(w)}} \ {a}]
    BY <1>1, <1>2 DEF LockAndUpdate, GoTo
<1>4. Settled(ctx) /\ ctx.stores = <<>> /\ \A c \in Cores : highest[c] = ctx.highest[c]
    BY <1>3, FreeIsPublished DEF CarriedInv, SettledInv
<1>5. SettledInv'
    BY <1>1, <1>2, <1>3, <1>4, UnlockSettles DEF Unlock
<1>6. Follows(q, u) /\ u.pinned = q.pinned /\ Settled(u)
    BY <1>1, <1>2, <1>4, UpdateFollows, Unlocked
<1>7. u \in Contexts
    BY <1>6 DEF Settled, Ready, Sound
<1>8. /\ ctx'.state = u.state /\ ctx'.core = u.core /\ ctx'.highest = u.highest
      /\ ctx'.pinned = u.pinned /\ w \in Seq(Cores \X Decisions) /\ u.highest \in [Cores -> Decisions]
    BY <1>2, <1>3, <1>7 DEF Contexts
<1>9. NobodyPinned'
    BY <1>1, <1>6, <1>8 DEF CarriedInv, NobodyPinned
<1>10. LogLeads(w, ctx.highest, u.highest) /\ LogRuns(w, u)
  <2>1. q.stores = <<>> /\ q.highest = ctx.highest
    BY <1>1, <1>4 DEF Moves
  <2>2. Logged(ctx.highest, q)
    BY <2>1 DEF Logged, LogLeads, LogRuns
  <2>3. QED BY <1>2, <1>6, <2>2 DEF Follows, Logged
<1>11. PICK v : v = writes' /\ v = Publication(w)
    BY <1>3
<1>12. /\ v \in Seq(Writes) /\ Len(v) = 2 * Len(w)
       /\ \A k \in 1 .. Len(w) : /\ v[2 * k - 1] = [core |-> w[k][1], highest |-> {w[k][2]}]
                                 /\ v[2 * k] = [core |-> w[k][1], highest |-> {}]
       /\ \A i \in 1 .. Len(v) : \E k \in 1 .. Len(w) : i = 2 * k - 1 \/ i = 2 * k
       /\ TwoPerStore(w, v)
  <2>1. TwoPerStore(w, v)
    BY <1>8, <1>11, PublicationIs
  <2>2. QED BY <2>1 DEF TwoPerStore
<1>13. ASSUME NEW i \in 1 .. Len(v), NEW t \in Threads, t \in v[i].highest
       PROVE  ctx'.state[t] = "Runnable" /\ ctx'.core[t] \in Cores
  <2>1. PICK k \in 1 .. Len(w) : i = 2 * k - 1 \/ i = 2 * k
    BY <1>12
  <2>2. v[i] \in {[core |-> w[k][1], highest |-> {w[k][2]}], [core |-> w[k][1], highest |-> {}]}
    BY <1>12, <2>1
  <2>3. w[k][2] = t
    BY <1>13, <2>2
  <2>4. QED BY <1>8, <1>10, <2>3, NullIsNoThread DEF LogRuns
<1>14. \A c \in Cores : StoresLead(w, c, ctx.highest[c], u.highest[c])
    BY <1>10 DEF LogLeads, StoresLead
<1>15. ASSUME NEW c \in Cores
       PROVE  /\ Published(c)'
              /\ ctx'.highest[c] = ctx.highest[c] \/ Told(c)'
  <2>1. PICK x, y : x = ctx.highest[c] /\ y = u.highest[c]
    OBVIOUS
  <2>2. WritesLead(v, c, x, y)
    BY <1>8, <1>12, <1>14, <2>1, PublicationLeads
  <2>3. highest'[c] = x /\ ctx'.highest[c] = y
    BY <1>1, <1>4, <1>8, <2>1
  <2>4. Published(c)'
    BY <1>11, <2>2, <2>3 DEF Published, WritesLead
  <2>5. ctx'.highest[c] = ctx.highest[c] \/ Told(c)'
    BY <1>11, <2>1, <2>2, <2>3 DEF Told, WritesLead
  <2>6. QED BY <2>4, <2>5
<1>16. /\ mask' \in [Actors -> SUBSET Cores] /\ \A b \in Actors \ {a} : mask'[b] = mask[b]
       /\ mask'[a] = {st[1] : st \in {w[i] : i \in 1 .. Len(w)}} \ {a}
  <2>1. {st[1] : st \in {w[i] : i \in 1 .. Len(w)}} \ {a} \subseteq Cores
    BY <1>8
  <2>2. mask \in [Actors -> SUBSET Cores]
    BY DEF CarriedInv, SwitchFunctions
  <2>3. QED BY <1>3, <2>1, <2>2
<1>17. ASSUME NEW i \in 1 .. Len(v) PROVE WriteOk(i)'
  <2>1. PICK k \in 1 .. Len(w) : i = 2 * k - 1 \/ i = 2 * k
    BY <1>12
  <2>2. v[2 * k - 1] = [core |-> w[k][1], highest |-> {w[k][2]}] /\ v[2 * k] = [core |-> w[k][1], highest |-> {}]
    BY <1>12
  <2>3. v[i].core = w[k][1]
    BY <2>1, <2>2
  <2>4. w[k][1] = a \/ w[k][1] \in mask'[a]
    BY <1>16
  <2>5. v[i].core = lock' \/ (lock' \in Actors /\ v[i].core \in mask'[lock'])
    BY <1>3, <2>3, <2>4
  <2>6. v[i].highest # {} => i + 1 \in 1 .. Len(v) /\ v[i + 1].core = v[i].core /\ v[i + 1].highest = {}
    <3>1. SUFFICES ASSUME i = 2 * k - 1
                   PROVE  i + 1 \in 1 .. Len(v) /\ v[i + 1].core = v[i].core /\ v[i + 1].highest = {}
      BY <2>1, <2>2
    <3>2. PICK j : j = i + 1 /\ j = 2 * k
      BY <3>1
    <3>3. j \in 1 .. Len(v) /\ v[j].core = w[k][1] /\ v[j].highest = {}
      BY <1>8, <1>12, <2>2, <3>2
    <3>4. QED BY <2>3, <3>2, <3>3
  <2>7. QED BY <1>11, <2>5, <2>6 DEF WriteOk
<1>18. WritesInv'
    BY <1>11, <1>15, <1>17 DEF WritesInv
<1>19. ctx'.state = q.state /\ StayOnCores(q, ctx', Threads)
    BY <1>6, <1>8 DEF Follows, StayOnCores
<1>20. QED BY <1>3, <1>5, <1>9, <1>11, <1>12, <1>13, <1>15, <1>16, <1>18, <1>19

\* What was known of the lock, the cores and the threads stays true: nobody else
\* is in the release, and a thread that is stored may run.
LEMMA OperationKeepsRelease ==
    ASSUME CarriedInv, NEW a \in Actors, NEW q, Operation(a, q)
    PROVE  ReleaseInv' /\ SwitchFunctions'
<1> USE CoresAreActors
<1>1. /\ lock' = a /\ pc' = [pc EXCEPT ![a] = "publish"]
      /\ writes' \in Seq(Writes) /\ mask' \in [Actors -> SUBSET Cores]
      /\ \A b \in Actors \ {a} : mask'[b] = mask[b]
    BY OperationDecides
<1>2. lock = Free /\ \A b \in Actors : pc[b] # "publish"
    BY FreeIsPublished DEF Operation, LockAndUpdate
<1>3. pc = [b \in Actors |-> pc[b]] /\ ReleaseInv /\ SwitchFunctions
    BY DEF CarriedInv, SwitchIInv, SwitchTypes
<1>4. pc'[a] = "publish" /\ \A b \in Actors \ {a} : pc'[b] = pc[b]
    BY <1>1, <1>3
<1>5. pc'[Host] = "verify" => subject' # Null
    BY <1>3, <1>4 DEF Operation, ReleaseInv
<1>6. lock' # Free
    BY <1>1, ActorsDiffer DEF Actors
<1>7. ReleaseInv'
    BY <1>1, <1>2, <1>3, <1>4, <1>5, <1>6 DEF ReleaseInv
<1>8. SwitchFunctions'
    BY <1>1, <1>3 DEF Operation, SwitchFunctions, switchVars, coreVars
<1>9. QED BY <1>7, <1>8

LEMMA OperationKeepsCores ==
    ASSUME CarriedInv, NEW a \in Actors, NEW q, Operation(a, q)
    PROVE  CoresInv'
<1> USE CoresAreActors
<1>1. /\ lock' = a /\ pc' = [pc EXCEPT ![a] = "publish"]
      /\ \A b \in Actors \ {a} : mask'[b] = mask[b]
      /\ ctx'.state = q.state /\ StayOnCores(q, ctx', Threads)
      /\ \A c \in Cores : ctx'.highest[c] = ctx.highest[c] \/ Told(c)'
    BY OperationDecides
<1>2. /\ \A b \in Actors : pc[b] # "publish"
      /\ \A c \in Cores : Told(c) <=> needs[c]
    BY FreeIsPublished DEF Operation, LockAndUpdate
<1>3. pc = [b \in Actors |-> pc[b]] /\ SwitchFunctions /\ ContextLoadedOnce
    BY DEF CarriedInv, SwitchIInv, SwitchTypes
<1>4. pc'[a] = "publish" /\ \A b \in Actors \ {a} : pc'[b] = pc[b]
    BY <1>1, <1>3
<1>5. /\ needs' = needs /\ current' = current /\ target' = target
      /\ interrupted' = interrupted /\ halted' = halted
      /\ pc[a] = IF a = Host THEN "idle" ELSE "svc"
    BY DEF Operation, switchVars, coreVars
<1>6. \A t \in Threads : Gone(t)' => Gone(t) \/ (a \in Cores /\ current[a] = t)
  <2> SUFFICES ASSUME NEW t \in Threads, Gone(t)'
               PROVE  Gone(t) \/ (a \in Cores /\ current[a] = t)
    OBVIOUS
  <2>1. q.core \in [Threads -> CoreIds]
    BY DEF Operation, Ready, Sound, Contexts
  <2>2. ctx'.core[t] = NoCore => q.core[t] = NoCore
    BY <1>1, <2>1, ConstantsMakeSense DEF StayOnCores, CoreIds
  <2>3. q.state[t] = "Terminated" \/ q.core[t] = NoCore
    BY <1>1, <2>2 DEF Gone
  <2>4. QED BY <2>3 DEF Operation, Gone
<1>7. \A c \in Cores : Informed(c) => Informed(c)'
  <2> SUFFICES ASSUME NEW c \in Cores, NEW b \in Actors, pc[b] \in Releasing, c \in mask[b]
               PROVE  Informed(c)'
    BY DEF Informed
  <2>1. b # a
    BY <1>5 DEF Releasing
  <2>2. QED BY <1>1, <1>4, <2>1 DEF Informed
<1> SUFFICES ASSUME NEW c \in Cores PROVE CoreOk(c)'
    BY DEF CoresInv
<1>8. CoreOk(c)
    BY DEF CarriedInv, CoresInv
<1>9. needs[c] => Told(c)'
    BY <1>5 DEF Told
<1>10. \A x : x = ctx.highest[c] \/ Told(c) => x = ctx'.highest[c] \/ Told(c)'
    BY <1>1, <1>2, <1>9
<1>11. CASE c = a
  <2>1. pc[c] = "svc" /\ pc'[c] = "publish"
    BY <1>4, <1>5, <1>11
  <2>2. current[c] = ctx.highest[c] \/ Told(c)
    BY <1>8, <2>1 DEF CoreOk, Staying
  <2>3. QED
    BY <1>5, <1>10, <2>1, <2>2 DEF CoreOk, CoreLabels, Heading, Staying, Releasing, GuestSide
<1>12. CASE c # a
  <2>1. pc'[c] = pc[c]
    BY <1>4, <1>12
  <2>2. PICK x : x = current[c] /\ current'[c] = x
    BY <1>5
  <2>3. ASSUME x # Null, Gone(x)', pc[c] \in GuestSide \cup {"interrupt", "enable"}
        PROVE  Gone(x)
    <3>1. x \in Threads
      BY <1>3, <2>2, <2>3 DEF SwitchFunctions, Decisions
    <3>2. CASE a \in Cores /\ current[a] = x
      <4>1. Loaded(a, x) /\ Loaded(c, x)
        BY <1>5, <2>2, <2>3, <3>2 DEF Loaded, Switching, GuestSide
      <4>2. QED BY <1>3, <1>12, <3>1, <3>2, <4>1 DEF ContextLoadedOnce
    <3>3. QED BY <1>6, <2>3, <3>1, <3>2
  <2>4. x # Null /\ Gone(x)' =>
          /\ pc[c] \notin GuestSide
          /\ pc[c] \in {"interrupt", "enable"} => needs[c]
    BY <1>8, <2>2, <2>3 DEF CoreOk
  <2>5. Gone(current[c])' <=> Gone(x)'
    BY <2>2 DEF Gone
  <2>6. pc[c] \notin Releasing \cup {"enable", "request"} /\ needs'[c] => interrupted'[c] \/ Informed(c)'
    BY <1>5, <1>7, <1>8 DEF CoreOk
  <2>7. QED BY <1>5, <1>8, <1>10, <2>1, <2>2, <2>4, <2>5, <2>6 DEF CoreOk
<1>13. QED BY <1>11, <1>12

LEMMA OperationKeepsThreads ==
    ASSUME CarriedInv, NEW a \in Actors, NEW q, Operation(a, q)
    PROVE  ThreadsInv'
<1> USE CoresAreActors
<1>1. /\ pc' = [pc EXCEPT ![a] = "publish"]
      /\ ctx'.state = q.state /\ StayOnCores(q, ctx', Threads)
      /\ \A i \in 1 .. Len(writes') : \A t \in Threads : t \in writes'[i].highest =>
            ctx'.state[t] = "Runnable" /\ ctx'.core[t] \in Cores
    BY OperationDecides
<1>2. \A t \in Threads : ~Leaving(t)
    BY FreeIsPublished DEF Operation, LockAndUpdate
<1>3. pc = [b \in Actors |-> pc[b]] /\ SwitchFunctions /\ ContextLoadedOnce /\ LoadedIsGuarded
    BY DEF CarriedInv, SwitchIInv, SwitchTypes
<1>4. pc'[a] = "publish" /\ \A b \in Actors \ {a} : pc'[b] = pc[b]
    BY <1>1, <1>3
<1>5. /\ highest' = highest /\ needs' = needs
      /\ current' = current /\ target' = target /\ guard' = guard
      /\ pc[a] = IF a = Host THEN "idle" ELSE "svc"
    BY DEF Operation, switchVars
<1> SUFFICES ASSUME NEW t \in Threads PROVE ThreadOk(t)'
    BY DEF ThreadsInv
<1>6. ThreadOk(t)
    BY DEF CarriedInv, ThreadsInv
<1>7. /\ ctx'.state[t] = "Terminated" => ctx.state[t] = "Terminated" \/ (a \in Cores /\ current[a] = t)
      /\ q.core[t] = NoCore => ctx.core[t] = NoCore \/ (a \in Cores /\ current[a] = t)
      /\ ctx.state[t] = "Terminated" => ctx'.state[t] = "Terminated"
      /\ t \in paused' => t \in paused /\ ctx'.state[t] = "Waiting"
      /\ closing'[t] >= 0 => \/ closing'[t] = closing[t]
                             \/ closing'[t] = 0 /\ ctx'.state[t] = "Terminated"
    BY <1>1 DEF Operation
<1>8. q.core \in [Threads -> CoreIds]
    BY DEF Operation, Ready, Sound, Contexts
<1>9. Gone(t)' => Gone(t) \/ (a \in Cores /\ current[a] = t)
    BY <1>1, <1>7, <1>8, ConstantsMakeSense DEF Gone, StayOnCores, CoreIds
<1>10. \A c \in Cores : /\ HasContext(c, t)' <=> HasContext(c, t)
                        /\ Loaded(c, t)' <=> Loaded(c, t)
                        /\ Locking(c, t)' <=> Locking(c, t)
                        /\ Diverted(c, t)' <=> Diverted(c, t)
  <2> TAKE c \in Cores
  <2>1. CASE c = a
    <3>1. pc[c] = "svc" /\ pc'[c] = "publish"
      BY <1>4, <1>5, <2>1
    <3>2. QED BY <1>5, <3>1 DEF HasContext, Loaded, Locking, Diverted, Switching, Heading
  <2>2. CASE c # a
    <3>1. pc'[c] = pc[c]
      BY <1>4, <2>2
    <3>2. QED BY <1>5, <3>1 DEF HasContext, Loaded, Locking, Diverted
  <2>3. QED BY <2>1, <2>2
<1>11. t \in guard' => (\E c \in Cores : HasContext(c, t)') \/ ctx'.state[t] = "Terminated"
    BY <1>5, <1>6, <1>7, <1>10 DEF ThreadOk
<1>12. ctx'.state[t] = "Terminated" => t \in guard' /\ \A c \in Cores : ~Locking(c, t)'
  <2>1. CASE ctx.state[t] = "Terminated"
    BY <1>5, <1>6, <1>10, <2>1 DEF ThreadOk
  <2>2. CASE ctx.state[t] # "Terminated" /\ ctx'.state[t] = "Terminated" /\ a \in Cores /\ current[a] = t
    <3>1. Loaded(a, t) /\ ~Locking(a, t)
      BY <1>5, <2>2 DEF Loaded, Locking, Switching
    <3>2. t \in guard /\ \A c \in Cores : ~Locking(c, t)
      BY <1>3, <2>2, <3>1 DEF LoadedIsGuarded, ContextLoadedOnce, HasContext
    <3>3. QED BY <1>5, <1>10, <3>2
  <2>3. QED BY <1>7, <2>1, <2>2
<1>13. Gone(t)' \/ t \in paused' => Withdrawn(t)' \/ Leaving(t)'
  <2> SUFFICES ASSUME Gone(t)' \/ t \in paused', ~Leaving(t)' PROVE Withdrawn(t)'
    OBVIOUS
  <2>1. ~(a \in Cores /\ current[a] = t)
    BY <1>4, <1>5 DEF Leaving
  <2>2. Withdrawn(t)
    BY <1>2, <1>6, <1>7, <1>9, <2>1 DEF ThreadOk
  <2>3. ~(ctx'.state[t] = "Runnable" /\ ctx'.core[t] \in Cores)
    BY <1>7, ConstantsMakeSense DEF Gone
  <2>4. \A i \in 1 .. Len(writes') : t \notin writes'[i].highest
    BY <1>1, <2>3
  <2>5. QED BY <1>5, <1>10, <2>2, <2>4 DEF Withdrawn
<1>14. t \in paused' => ctx'.state[t] = "Waiting" /\ \A c \in Cores : ~Loaded(c, t)'
    BY <1>6, <1>7, <1>10 DEF ThreadOk
<1>15. closing'[t] >= 0 => /\ ctx'.state[t] = "Terminated"
                           /\ \A c \in Cores : c < closing'[t] => current'[c] # t
    BY <1>5, <1>6, <1>7, ConstantsMakeSense DEF ThreadOk
<1>16. QED BY <1>11, <1>12, <1>13, <1>14, <1>15 DEF ThreadOk

\* What an operation that changes the state of one thread has to keep.
LEMMA StateOperation ==
    ASSUME CarriedInv, NEW a \in Actors, NEW t \in Threads, NEW new \in States,
           LockAndUpdate(a, SetState(ctx, t, new)), pc[a] = IF a = Host THEN "idle" ELSE "svc",
           UNCHANGED <<highest, needs, switchVars, coreVars>>, a # Host => subject' = subject,
           subject' \in Decisions,
           ctx.state[t] # "Terminated", new = "Terminated" => a \in Cores /\ current[a] = t,
           paused' \in SUBSET paused, t \in paused' => new = "Waiting",
           \/ closing' = closing
           \/ closing' = [closing EXCEPT ![t] = 0] /\ new = "Terminated"
    PROVE  \E q : Operation(a, q)
<1>1. PICK q : q = SetState(ctx, t, new)
    OBVIOUS
<1>2. SwitchFunctions /\ Settled(ctx)
    BY DEF CarriedInv, SettledInv
<1>3. /\ Moves(ctx, q) /\ Ready(q) /\ q.pinned = ctx.pinned /\ q.core = ctx.core
      /\ q.state = [ctx.state EXCEPT ![t] = new]
    BY <1>1, <1>2, SetStateMoves DEF Settled
<1>4. ctx.state \in [Threads -> States]
    BY <1>2 DEF Settled, Ready, Sound, Contexts
<1>5. paused' \in SUBSET Threads /\ closing' \in [Threads -> Int]
    BY <1>2 DEF SwitchFunctions
<1>6. ASSUME NEW u \in Threads
      PROVE  /\ q.state[u] = "Terminated" => ctx.state[u] = "Terminated" \/ (a \in Cores /\ current[a] = u)
             /\ q.core[u] = NoCore => ctx.core[u] = NoCore \/ (a \in Cores /\ current[a] = u)
             /\ ctx.state[u] = "Terminated" => q.state[u] = "Terminated"
             /\ u \in paused' => u \in paused /\ q.state[u] = "Waiting"
             /\ closing'[u] >= 0 => \/ closing'[u] = closing[u]
                                    \/ closing'[u] = 0 /\ q.state[u] = "Terminated"
  <2>1. u \in paused => ctx.state[u] = "Waiting"
    BY DEF CarriedInv, ThreadsInv, ThreadOk
  <2>2. closing \in [Threads -> Int]
    BY <1>2 DEF SwitchFunctions
  <2>3. CASE u = t
    BY <1>3, <1>4, <2>1, <2>2, <2>3
  <2>4. CASE u # t
    BY <1>3, <1>4, <2>1, <2>2, <2>4
  <2>5. QED BY <2>3, <2>4
<1>7. Operation(a, q)
    BY <1>1, <1>3, <1>5, <1>6 DEF Operation
<1>8. QED BY <1>7

\* The thread of a call is one that is active on a core and runs on.
LEMMA CallerRuns ==
    ASSUME CarriedInv, NEW c \in Cores, pc[c] = "svc"
    PROVE  /\ current[c] \in Threads /\ ctx.state[current[c]] # "Terminated"
           /\ ctx.core[current[c]] \in Cores
<1>1. CoreOk(c) /\ current \in [Cores -> Decisions]
    BY DEF CarriedInv, CoresInv, SwitchFunctions
<1>2. current[c] \in Threads /\ ~Gone(current[c])
    BY <1>1 DEF CoreOk, GuestSide, Decisions
<1>3. ctx.core \in [Threads -> CoreIds]
    BY DEF CarriedInv, SettledInv, Settled, Ready, Sound, Contexts
<1>4. QED BY <1>2, <1>3 DEF Gone, CoreIds

LEMMA WakeIsOperation ==
    ASSUME CarriedInv, NEW a \in Actors, NEW t \in Threads, WakeThread(a, t),
           pc[a] = IF a = Host THEN "idle" ELSE "svc",
           UNCHANGED <<highest, needs, switchVars, coreVars>>
    PROVE  \E q : Operation(a, q)
<1>1. "Runnable" \in States /\ subject \in Decisions
    BY DEF States, CarriedInv, SwitchFunctions
<1>2. /\ LockAndUpdate(a, SetState(ctx, t, "Runnable")) /\ ctx.state[t] # "Terminated"
      /\ paused' = paused \ {t} /\ subject' = subject /\ closing' = closing
    BY DEF WakeThread, Woken
<1>3. paused' \in SUBSET paused /\ t \notin paused'
    BY <1>2
<1>4. QED BY <1>1, <1>2, <1>3, StateOperation

LEMMA YieldIsOperation ==
    ASSUME CarriedInv, NEW c \in Cores, pc[c] = "svc",
           LockAndUpdate(c, YieldToAnyThread(ctx, current[c])),
           UNCHANGED <<highest, needs, switchVars, coreVars, threadVars>>
    PROVE  \E q : Operation(c, q)
<1>1. PICK t, q : t = current[c] /\ q = YieldToAnyThread(ctx, t)
    OBVIOUS
<1>2. /\ t \in Threads /\ ctx.core[t] \in Cores /\ ctx.state[t] # "Terminated"
      /\ Ready(ctx) /\ SwitchFunctions
    BY <1>1, CallerRuns DEF CarriedInv, SettledInv, Settled
<1>3. ~IsPinned(ctx, t)
    BY <1>2, ConstantsMakeSense DEF CarriedInv, NobodyPinned, IsPinned
<1>4. Yields(ctx, q) /\ StayOnCores(ctx, q, Threads \ {t})
    BY <1>1, <1>2, <1>3, YieldToAnyMoves
<1>5. ctx.core \in [Threads -> CoreIds]
    BY <1>2 DEF Ready, Sound, Contexts
<1>6. \A u \in Threads : q.core[u] = NoCore => ctx.core[u] = NoCore \/ u = t
    BY <1>4, <1>5, ConstantsMakeSense DEF StayOnCores, CoreIds
<1>7. \A u \in Threads : u \in paused => ctx.state[u] = "Waiting"
    BY DEF CarriedInv, ThreadsInv, ThreadOk
<1>8. Moves(ctx, q) /\ Ready(q) /\ q.pinned = ctx.pinned /\ q.state = ctx.state
    BY <1>4 DEF Yields
<1>9. LockAndUpdate(c, q) /\ subject' = subject /\ paused' = paused /\ closing' = closing
    BY <1>1 DEF threadVars
<1>10. Operation(c, q)
    BY <1>1, <1>2, <1>6, <1>7, <1>8, <1>9, CoresAreActors DEF Operation, SwitchFunctions
<1>11. QED BY <1>10

LEMMA CallIsOperation ==
    ASSUME CarriedInv, NEW c \in Cores, SystemCall(c)
    PROVE  \E q : Operation(c, q)
<1> USE CoresAreActors
<1>1. PICK t : t = current[c]
    OBVIOUS
<1>2. /\ pc[c] = "svc" /\ c # Host /\ pc[c] = IF c = Host THEN "idle" ELSE "svc"
      /\ UNCHANGED <<highest, needs, switchVars, coreVars>>
    BY DEF SystemCall
<1>3. t \in Threads /\ ctx.state[t] # "Terminated" /\ subject \in Decisions
    BY <1>1, <1>2, CallerRuns DEF CarriedInv, SwitchFunctions
<1>4. "Waiting" \in States /\ "Terminated" \in States /\ "Terminated" # "Waiting"
    BY DEF States
<1>5. CASE \E u \in Threads : WakeThread(c, u)
    BY <1>2, <1>5, WakeIsOperation
<1>6. CASE LockAndUpdate(c, SetState(ctx, t, "Waiting")) /\ UNCHANGED threadVars
  <2>1. subject' = subject /\ paused' = paused /\ closing' = closing
    BY <1>6 DEF threadVars
  <2>2. QED BY <1>2, <1>3, <1>4, <1>6, <2>1, StateOperation
<1>7. CASE LockAndUpdate(c, YieldToAnyThread(ctx, t)) /\ UNCHANGED threadVars
    BY <1>1, <1>2, <1>7, YieldIsOperation
<1>8. CASE /\ LockAndUpdate(c, SetState(ctx, t, "Terminated"))
           /\ closing' = [closing EXCEPT ![t] = 0] /\ paused' = paused \ {t} /\ subject' = subject
  <2>1. paused' \in SUBSET paused /\ t \notin paused'
    BY <1>8
  <2>2. QED BY <1>1, <1>2, <1>3, <1>4, <1>8, <2>1, StateOperation
<1>9. QED BY <1>1, <1>5, <1>6, <1>7, <1>8 DEF SystemCall

LEMMA HostIsOperation ==
    ASSUME CarriedInv, HostWakes \/ HostPauses
    PROVE  \E q : Operation(Host, q)
<1> USE CoresAreActors
<1>1. pc[Host] = "idle" /\ UNCHANGED <<highest, needs, switchVars, coreVars>>
    BY DEF HostWakes, HostPauses
<1>2. CASE HostWakes
    BY <1>1, <1>2, WakeIsOperation DEF HostWakes
<1>3. CASE HostPauses
  <2>1. PICK t \in Pausable : /\ IsRunnable(t) /\ LockAndUpdate(Host, SetState(ctx, t, "Waiting"))
                              /\ subject' = t /\ paused' = paused /\ closing' = closing
    BY <1>3 DEF HostPauses
  <2>2. t \in Threads /\ ctx.state[t] # "Terminated" /\ subject' \in Decisions /\ "Waiting" \in States
    BY <2>1, CallersAreThreads DEF IsRunnable, Decisions, States
  <2>3. "Waiting" # "Terminated"
    OBVIOUS
  <2>4. QED BY <1>1, <2>1, <2>2, <2>3, StateOperation
<1>4. QED BY <1>2, <1>3

LEMMA OperationKeeps ==
    ASSUME CarriedInv, NEW a \in Actors, NEW q, Operation(a, q)
    PROVE  CarriedInv'
<1>1. LockAndUpdate(a, q) /\ UNCHANGED switchVars /\ pc[a] \notin Switching
    BY DEF Operation, Switching
<1>2. SwitchIInv'
    BY <1>1, LockStepKeepsInvariant DEF CarriedInv
<1>3. QED
    BY <1>2, OperationDecides, OperationKeepsRelease, OperationKeepsCores, OperationKeepsThreads
    DEF CarriedInv

-----------------------------------------------------------------------------
(* The release of the lock *)

\* What a step of another actor must leave of core d.
LEMMA OthersKeepCore ==
    ASSUME NEW d \in Cores, CoreOk(d), ctx' = ctx,
           pc'[d] = pc[d], current'[d] = current[d], target'[d] = target[d],
           Told(d) => Told(d)', needs[d] => needs'[d],
           pc[d] \notin Releasing \cup {"enable", "request"} /\ needs'[d] => interrupted'[d] \/ Informed(d)',
           interrupted'[d] /\ pc[d] = "guest" => halted'[d]
    PROVE  CoreOk(d)'
<1>1. PICK x : x = current[d] /\ current'[d] = x
    OBVIOUS
<1>2. Gone(x)' <=> Gone(x)
    BY DEF Gone
<1>3. QED BY <1>1, <1>2 DEF CoreOk

\* And of a thread: nobody moves in the switch.
LEMMA OthersKeepThread ==
    ASSUME NEW t \in Threads, ThreadOk(t), ctx' = ctx, UNCHANGED <<switchVars, paused, closing>>,
           \A c \in Cores : \/ pc'[c] = pc[c]
                            \/ {pc[c], pc'[c]} \cap (Switching \cup {"unload"}) = {},
           (Gone(t) \/ t \in paused) /\ (Withdrawn(t) \/ Leaving(t)) => Withdrawn(t)' \/ Leaving(t)'
    PROVE  ThreadOk(t)'
<1>1. current' = current /\ target' = target /\ guard' = guard /\ paused' = paused /\ closing' = closing
    BY DEF switchVars
<1>2. \A c \in Cores : /\ HasContext(c, t)' <=> HasContext(c, t)
                       /\ Loaded(c, t)' <=> Loaded(c, t)
                       /\ Locking(c, t)' <=> Locking(c, t)
    BY <1>1 DEF HasContext, Loaded, Locking, Switching
<1>3. Gone(t)' <=> Gone(t)
    BY DEF Gone
<1>4. QED BY <1>1, <1>2, <1>3 DEF ThreadOk

\* Once everything is published, a thread that is active nowhere is withdrawn.
LEMMA InactiveIsWithdrawn ==
    ASSUME CarriedInv, writes = <<>>, NEW t \in Threads, Gone(t) \/ ctx.state[t] # "Runnable"
    PROVE  Withdrawn(t)
<1>1. \A c \in Cores : ctx.highest[c] # t
    BY NullIsNoThread, ConstantsMakeSense DEF CarriedInv, SettledInv, Settled, Chosen, Active, Gone
<1>2. \A c \in Cores : highest[c] = ctx.highest[c] /\ (Told(c) <=> needs[c])
    BY DEF CarriedInv, WritesInv, Published, Told
<1>3. \A c \in Cores : Diverted(c, t)
    BY <1>1, <1>2 DEF CarriedInv, CoresInv, CoreOk, Diverted
<1>4. QED BY <1>1, <1>2, <1>3 DEF Withdrawn

LEMMA PublishKeeps ==
    ASSUME CarriedInv, NEW a \in Actors, Publish(a)
    PROVE  CarriedInv'
<1> USE CoresAreActors
<1>1. PICK v, r, w : v = writes /\ r = writes' /\ w = Head(v)
    OBVIOUS
<1>2. /\ pc[a] = "publish" /\ v # <<>> /\ r = Tail(v)
      /\ ctx' = ctx /\ lock' = lock /\ pc' = pc /\ mask' = mask
      /\ UNCHANGED <<switchVars, coreVars, threadVars>>
    BY <1>1 DEF Publish
<1>3. SwitchFunctions /\ ReleaseInv /\ WritesInv
    BY DEF CarriedInv
<1>4. v \in Seq(Writes)
    BY <1>1, <1>3 DEF SwitchFunctions
<1>5. /\ Len(v) \in Nat /\ Len(v) >= 1 /\ r \in Seq(Writes) /\ Len(r) = Len(v) - 1
      /\ w = v[1] /\ w \in Writes /\ \A i \in 1 .. Len(r) : r[i] = v[i + 1]
    BY <1>1, <1>2, <1>4
<1>6. lock = a /\ a # Free
    BY <1>2, <1>3, ActorsDiffer DEF ReleaseInv, Actors
<1>7. w.core \in Cores /\ (w.highest = {} \/ \E t \in Decisions : w.highest = {t})
    BY <1>5 DEF Writes
<1>8. /\ highest' \in [Cores -> Decisions] /\ needs' \in [Cores -> BOOLEAN]
      /\ \A c \in Cores : needs[c] => needs'[c]
      /\ \A c \in Cores : needs'[c] => needs[c] \/ c = w.core
      /\ w.highest = {} => highest' = highest /\ needs'[w.core]
      /\ w.highest # {} => /\ w.highest = {highest'[w.core]}
                           /\ \A c \in Cores \ {w.core} : highest'[c] = highest[c]
  <2>1. highest \in [Cores -> Decisions] /\ needs \in [Cores -> BOOLEAN]
    BY <1>3 DEF SwitchFunctions
  <2>2. CASE w.highest = {}
    <3>1. needs' = [needs EXCEPT ![w.core] = TRUE] /\ highest' = highest
      BY <1>1, <2>2 DEF Publish
    <3>2. QED BY <1>7, <2>1, <2>2, <3>1
  <2>3. CASE w.highest # {}
    <3>1. PICK t \in Decisions : w.highest = {t}
      BY <1>7, <2>3
    <3>2. (CHOOSE x \in w.highest : TRUE) = t
      BY <3>1
    <3>3. highest' = [highest EXCEPT ![w.core] = t] /\ needs' = needs
      BY <1>1, <2>3, <3>2 DEF Publish
    <3>4. QED BY <1>7, <2>1, <2>3, <3>1, <3>3
  <2>4. QED BY <2>2, <2>3
<1>9. SettledInv' /\ NobodyPinned'
    BY <1>2 DEF CarriedInv, SettledInv, NobodyPinned
<1>10. SwitchIInv'
    BY <1>2, NobodyMoves DEF CarriedInv
<1>11. SwitchFunctions'
    BY <1>1, <1>2, <1>3, <1>5, <1>8 DEF SwitchFunctions, switchVars, coreVars, threadVars
<1>12. ReleaseInv'
    BY <1>2, <1>3, <1>6 DEF ReleaseInv, threadVars
<1>13. ASSUME NEW i \in 1 .. Len(r) PROVE WriteOk(i)'
  <2>1. PICK j : j = i + 1
    OBVIOUS
  <2>2. j \in 1 .. Len(v) /\ r[i] = v[j]
    BY <1>5, <2>1
  <2>3. WriteOk(j)
    BY <1>1, <1>3, <2>2 DEF WritesInv
  <2>4. v[j].highest # {} => i + 1 \in 1 .. Len(r) /\ r[i + 1] = v[j + 1]
    BY <1>1, <1>5, <2>1, <2>3 DEF WriteOk
  <2>5. QED BY <1>1, <1>2, <2>2, <2>3, <2>4 DEF WriteOk
<1>14. ASSUME NEW c \in Cores PROVE Published(c)'
  <2>1. Published(c)
    BY <1>3 DEF WritesInv
  <2>2. CASE /\ highest[c] = ctx.highest[c]
             /\ \A i \in 1 .. Len(v) : v[i].core = c => v[i].highest = {}
    <3>1. \A i \in 1 .. Len(r) : r[i].core = c => r[i].highest = {}
      BY <1>5, <2>2
    <3>2. highest'[c] = ctx.highest[c]
      BY <1>5, <1>8, <2>2
    <3>3. QED BY <1>1, <1>2, <3>1, <3>2 DEF Published
  <2>3. CASE \E i \in 1 .. Len(v) :
                /\ v[i].core = c /\ v[i].highest = {ctx.highest[c]}
                /\ \A j \in i + 1 .. Len(v) : v[j].core = c => v[j].highest = {}
    <3>1. PICK i \in 1 .. Len(v) :
                /\ v[i].core = c /\ v[i].highest = {ctx.highest[c]}
                /\ \A j \in i + 1 .. Len(v) : v[j].core = c => v[j].highest = {}
      BY <2>3
    <3>2. CASE i = 1
      <4>1. highest'[c] = ctx.highest[c]
        <5>1. w.core = c /\ w.highest = {ctx.highest[c]}
          BY <1>5, <3>1, <3>2
        <5>2. ctx.highest[c] \in w.highest /\ w.highest = {highest'[c]}
          BY <1>8, <5>1
        <5>3. QED BY <5>2
      <4>2. \A j \in 1 .. Len(r) : r[j].core = c => r[j].highest = {}
        BY <1>5, <3>1, <3>2
      <4>3. QED BY <1>1, <1>2, <4>1, <4>2 DEF Published
    <3>3. CASE i # 1
      <4>1. PICK k : k = i - 1
        OBVIOUS
      <4>2. k \in 1 .. Len(r) /\ r[k] = v[i]
        BY <1>5, <3>1, <3>3, <4>1
      <4>3. \A j \in k + 1 .. Len(r) : r[j].core = c => r[j].highest = {}
        BY <1>5, <3>1, <4>1, <4>2
      <4>4. ctx'.highest[c] = ctx.highest[c] /\ writes' = r
        BY <1>1, <1>2
      <4>5. r[k].core = c /\ r[k].highest = {ctx'.highest[c]}
        BY <3>1, <4>2, <4>4
      <4>6. QED BY <4>2, <4>3, <4>4, <4>5 DEF Published
    <3>4. QED BY <3>2, <3>3
  <2>4. QED BY <1>1, <2>1, <2>2, <2>3 DEF Published
<1>15. WritesInv'
    BY <1>1, <1>13, <1>14 DEF WritesInv
<1>16. ASSUME NEW d \in Cores PROVE CoreOk(d)'
  <2>1. CoreOk(d)
    BY DEF CarriedInv, CoresInv
  <2>2. Told(d) => Told(d)'
    <3>1. CASE needs[d]
      BY <1>8, <3>1 DEF Told
    <3>2. CASE \E i \in 1 .. Len(v) : v[i].core = d /\ v[i].highest = {}
      <4>1. PICK i \in 1 .. Len(v) : v[i].core = d /\ v[i].highest = {}
        BY <3>2
      <4>2. CASE i = 1
        BY <1>5, <1>8, <4>1, <4>2 DEF Told
      <4>3. CASE i # 1
        <5>1. PICK k : k = i - 1
          OBVIOUS
        <5>2. k \in 1 .. Len(r) /\ r[k] = v[i]
          BY <1>5, <4>1, <4>3, <5>1
        <5>3. QED BY <1>1, <4>1, <5>2 DEF Told
      <4>4. QED BY <4>2, <4>3
    <3>3. QED BY <1>1, <3>1, <3>2 DEF Told
  <2>3. Informed(d)' <=> Informed(d)
    BY <1>2 DEF Informed
  <2>4. d = w.core => d = a \/ Informed(d)
    <3>1. WriteOk(1)
      BY <1>1, <1>3, <1>5 DEF WritesInv
    <3>2. QED BY <1>1, <1>2, <1>5, <1>6, <3>1 DEF WriteOk, Informed, Releasing
  <2>5. pc[d] \notin Releasing \cup {"enable", "request"} /\ needs'[d] => interrupted'[d] \/ Informed(d)'
    BY <1>2, <1>8, <2>1, <2>3, <2>4 DEF CoreOk, Releasing, coreVars
  <2>6. QED
    BY <1>2, <1>8, <2>1, <2>2, <2>5, OthersKeepCore DEF switchVars, coreVars, CoreOk
<1>17. ASSUME NEW t \in Threads PROVE ThreadOk(t)'
  <2>1. ThreadOk(t)
    BY DEF CarriedInv, ThreadsInv
  <2>2. Leaving(t)' <=> Leaving(t)
    BY <1>2 DEF Leaving, switchVars
  <2>3. Withdrawn(t) => Withdrawn(t)'
    <3> SUFFICES ASSUME Withdrawn(t) PROVE Withdrawn(t)'
      OBVIOUS
    <3>1. \A i \in 1 .. Len(r) : t \notin r[i].highest
      BY <1>1, <1>5 DEF Withdrawn
    <3>2. \A c \in Cores : highest'[c] # t
      BY <1>1, <1>5, <1>8 DEF Withdrawn
    <3>3. \A c \in Cores : Diverted(c, t)'
      BY <1>2, <1>8 DEF Withdrawn, Diverted, switchVars
    <3>4. QED BY <1>1, <3>1, <3>2, <3>3 DEF Withdrawn
  <2>4. QED BY <1>2, <2>1, <2>2, <2>3, OthersKeepThread DEF threadVars
<1>18. QED
    BY <1>9, <1>10, <1>11, <1>12, <1>15, <1>16, <1>17 DEF CarriedInv, CoresInv, ThreadsInv

\* Where an actor goes on.
LEMMA AfterInterruptsIs ==
    ASSUME NEW a \in Actors
    PROVE  /\ a # Host => a \in Cores /\ AfterInterrupts(a) = "enable"
           /\ AfterInterrupts(Host) \in {"verify", "idle"}
           /\ AfterInterrupts(Host) = "verify" => subject # Null
BY DEF AfterInterrupts, Actors

\* A core whose decision is published and that is gone from it has its flag set.
LEMMA GoneIsTold ==
    ASSUME CarriedInv, writes = <<>>, NEW c \in Cores, pc[c] \in Staying,
           current[c] # Null, Gone(current[c])
    PROVE  needs[c]
<1>1. CoreOk(c) /\ (Told(c) <=> needs[c])
    BY DEF CarriedInv, CoresInv, Told
<1>2. current[c] # ctx.highest[c]
    BY ConstantsMakeSense DEF CarriedInv, SettledInv, Settled, Chosen, Active, Gone
<1>3. QED BY <1>1, <1>2 DEF CoreOk

LEMMA ReleaseLockKeeps ==
    ASSUME CarriedInv, NEW a \in Actors, ReleaseLock(a)
    PROVE  CarriedInv'
<1> USE CoresAreActors
<1>1. PICK l : l = IF mask[a] = {} THEN AfterInterrupts(a) ELSE "interrupt"
    OBVIOUS
<1>2. /\ pc[a] = "publish" /\ writes = <<>> /\ lock' = Free /\ pc' = [pc EXCEPT ![a] = l]
      /\ ctx' = ctx /\ highest' = highest /\ needs' = needs /\ writes' = writes /\ mask' = mask
      /\ UNCHANGED <<switchVars, coreVars, threadVars>>
    BY <1>1 DEF ReleaseLock, GoTo
<1>3. SwitchFunctions /\ ReleaseInv /\ WritesInv /\ pc = [b \in Actors |-> pc[b]]
    BY DEF CarriedInv, SwitchIInv, SwitchTypes
<1>4. pc'[a] = l /\ \A b \in Actors \ {a} : pc'[b] = pc[b] /\ pc[b] # "publish"
    BY <1>2, <1>3 DEF ReleaseInv
<1>5. /\ a # Host => a \in Cores /\ l \in {"interrupt", "enable"}
      /\ a = Host => l \in {"interrupt", "verify", "idle"}
      /\ l = "verify" => subject # Null
      /\ l = "interrupt" <=> mask[a] # {}
    BY <1>1, AfterInterruptsIs
<1>6. SwitchIInv'
    BY <1>2, <1>5, OutsideSwitch DEF CarriedInv, GoTo, Switching
<1>7. SettledInv' /\ NobodyPinned' /\ SwitchFunctions'
    BY <1>2, <1>3 DEF CarriedInv, SettledInv, NobodyPinned, SwitchFunctions, switchVars, coreVars, threadVars
<1>8. ReleaseInv'
    BY <1>2, <1>3, <1>4, <1>5, ActorsDiffer DEF ReleaseInv, threadVars, Actors
<1>9. WritesInv'
  <2>1. \A c \in Cores : Published(c)' <=> Published(c)
    BY <1>2 DEF Published
  <2>2. QED BY <1>2, <1>3, <2>1 DEF WritesInv
<1>10. \A d \in Cores : Informed(d) => Informed(d)'
  <2> SUFFICES ASSUME NEW d \in Cores, NEW b \in Actors, pc[b] \in Releasing, d \in mask[b]
               PROVE  Informed(d)'
    BY DEF Informed
  <2>1. pc'[b] \in Releasing
    BY <1>4, <1>5 DEF Releasing
  <2>2. QED BY <1>2, <2>1 DEF Informed
<1>11. ASSUME NEW d \in Cores PROVE CoreOk(d)'
  <2>1. CoreOk(d)
    BY DEF CarriedInv, CoresInv
  <2>2. Told(d)' <=> Told(d)
    BY <1>2 DEF Told
  <2>3. current' = current /\ target' = target /\ interrupted' = interrupted /\ halted' = halted
    BY <1>2 DEF switchVars, coreVars
  <2>4. CASE d # a
    <3>1. pc'[d] = pc[d]
      BY <1>4, <2>4
    <3>2. pc[d] \notin Releasing \cup {"enable", "request"} /\ needs'[d] => interrupted'[d] \/ Informed(d)'
      BY <1>2, <1>10, <2>1, <2>3 DEF CoreOk
    <3>3. interrupted'[d] /\ pc[d] = "guest" => halted'[d]
      BY <2>1, <2>3 DEF CoreOk
    <3>4. QED BY <1>2, <2>1, <2>2, <2>3, <3>1, <3>2, <3>3, OthersKeepCore
  <2>5. CASE d = a
    <3>1. pc[d] = "publish" /\ pc'[d] \in {"interrupt", "enable"}
      BY <1>2, <1>4, <1>5, <2>5
    <3>2. current[d] = ctx.highest[d] \/ Told(d)
      BY <2>1, <3>1 DEF CoreOk, Staying
    <3>3. PICK x : x = current[d] /\ current'[d] = x
      BY <2>3
    <3>4. x # Null /\ Gone(x)' => needs'[d]
      BY <1>2, <3>1, <3>3, GoneIsTold DEF Gone, Staying
    <3>5. QED
      BY <1>2, <2>2, <3>1, <3>2, <3>3, <3>4
      DEF CoreOk, CoreLabels, Heading, Staying, Releasing, GuestSide
  <2>6. QED BY <2>4, <2>5
<1>12. ASSUME NEW t \in Threads PROVE ThreadOk(t)'
  <2>1. ThreadOk(t)
    BY DEF CarriedInv, ThreadsInv
  <2>2. \A c \in Cores : \/ pc'[c] = pc[c]
                         \/ {pc[c], pc'[c]} \cap (Switching \cup {"unload"}) = {}
    BY <1>2, <1>4, <1>5 DEF Switching
  <2>3. Gone(t) \/ t \in paused => Withdrawn(t)'
    <3> SUFFICES ASSUME Gone(t) \/ t \in paused PROVE Withdrawn(t)'
      OBVIOUS
    <3>1. Withdrawn(t)
      BY <1>2, <2>1, InactiveIsWithdrawn DEF ThreadOk
    <3>2. \A c \in Cores : Diverted(c, t)'
      BY <1>2, <1>4, <1>5, <3>1 DEF Withdrawn, Diverted, Heading, switchVars
    <3>3. QED BY <1>2, <3>1, <3>2 DEF Withdrawn
  <2>4. QED BY <1>2, <2>1, <2>2, <2>3, OthersKeepThread DEF threadVars
<1>13. QED
    BY <1>6, <1>7, <1>8, <1>9, <1>11, <1>12 DEF CarriedInv, CoresInv, ThreadsInv

LEMMA SendInterruptKeeps ==
    ASSUME CarriedInv, NEW a \in Actors, SendInterrupt(a)
    PROVE  CarriedInv'
<1> USE CoresAreActors
<1>1. SwitchFunctions /\ ReleaseInv /\ WritesInv /\ pc = [b \in Actors |-> pc[b]]
    BY DEF CarriedInv, SwitchIInv, SwitchTypes
<1>2. PICK c, l : /\ c = CHOOSE x \in mask[a] : \A d \in mask[a] : x <= d
                  /\ l = IF mask[a] = {c} THEN AfterInterrupts(a) ELSE "interrupt"
    OBVIOUS
<1>3. /\ pc[a] = "interrupt" /\ pc' = [pc EXCEPT ![a] = l] /\ InterruptCore(c)
      /\ mask' = [mask EXCEPT ![a] = mask[a] \ {c}]
      /\ ctx' = ctx /\ UNCHANGED <<schedulerVars, switchVars, threadVars>>
    BY <1>2 DEF SendInterrupt, GoTo
<1>4. c \in mask[a] /\ c \in Cores
  <2>1. mask[a] # {} /\ mask[a] \subseteq Cores
    BY <1>1, <1>3 DEF ReleaseInv, SwitchFunctions
  <2>2. mask[a] \in SUBSET Nat
    BY <2>1, ConstantsMakeSense
  <2>3. \E x \in mask[a] : \A d \in mask[a] : x <= d
    BY <2>1, <2>2, LeastExists, Zenon
  <2>4. QED BY <1>2, <2>1, <2>3
<1>5. pc'[a] = l /\ \A b \in Actors \ {a} : pc'[b] = pc[b] /\ mask'[b] = mask[b]
    BY <1>1, <1>3 DEF SwitchFunctions
<1>6. mask'[a] = mask[a] \ {c} /\ mask' \in [Actors -> SUBSET Cores]
    BY <1>1, <1>3 DEF SwitchFunctions
<1>7. /\ a # Host => a \in Cores /\ l \in {"interrupt", "enable"}
      /\ a = Host => l \in {"interrupt", "verify", "idle"}
      /\ l = "verify" => subject # Null
      /\ l = "interrupt" <=> mask'[a] # {}
    BY <1>2, <1>4, <1>6, AfterInterruptsIs
<1>8. /\ interrupted' = [interrupted EXCEPT ![c] = TRUE]
      /\ halted' = [halted EXCEPT ![c] = halted[c] \/ pc[c] = "guest"]
      /\ interrupted \in [Cores -> BOOLEAN] /\ halted \in [Cores -> BOOLEAN]
    BY <1>1, <1>3 DEF InterruptCore, SwitchFunctions
<1>9. highest' = highest /\ needs' = needs /\ lock' = lock /\ writes' = writes
    BY <1>3 DEF schedulerVars
<1>10. SwitchIInv'
    BY <1>3, <1>7, OutsideSwitch DEF CarriedInv, GoTo, Switching
<1>11. SettledInv' /\ NobodyPinned'
    BY <1>3 DEF CarriedInv, SettledInv, NobodyPinned
<1>12. SwitchFunctions'
  <2>1. interrupted' \in [Cores -> BOOLEAN] /\ halted' \in [Cores -> BOOLEAN]
    BY <1>4, <1>8
  <2>2. QED
    BY <1>1, <1>3, <1>6, <1>9, <2>1 DEF SwitchFunctions, switchVars, threadVars
<1>13. ReleaseInv'
  <2>1. \A b \in Actors : pc'[b] = "publish" <=> pc[b] = "publish"
    BY <1>3, <1>5, <1>7
  <2>2. QED
    BY <1>1, <1>3, <1>5, <1>7, <1>9, <2>1 DEF ReleaseInv, threadVars
<1>14. WritesInv'
  <2>1. lock \in Actors => mask'[lock] = mask[lock]
    BY <1>1, <1>3, <1>5 DEF ReleaseInv
  <2>2. \A i \in 1 .. Len(writes) : WriteOk(i)' <=> WriteOk(i)
    BY <1>9, <2>1 DEF WriteOk
  <2>3. \A d \in Cores : Published(d)' <=> Published(d)
    BY <1>3, <1>9 DEF Published
  <2>4. QED BY <1>1, <1>9, <2>2, <2>3 DEF WritesInv
<1>15. \A d \in Cores \ {c} : Informed(d) => Informed(d)'
  <2> SUFFICES ASSUME NEW d \in Cores \ {c}, NEW b \in Actors, pc[b] \in Releasing, d \in mask[b]
               PROVE  Informed(d)'
    BY DEF Informed
  <2>1. d \in mask'[b] /\ pc'[b] \in Releasing
    BY <1>5, <1>6, <1>7 DEF Releasing
  <2>2. QED BY <2>1 DEF Informed
<1>16. ASSUME NEW d \in Cores PROVE CoreOk(d)'
  <2>1. CoreOk(d)
    BY DEF CarriedInv, CoresInv
  <2>2. (Told(d)' <=> Told(d)) /\ current' = current /\ target' = target
    BY <1>3, <1>9 DEF Told, switchVars
  <2>3. interrupted'[d] /\ pc[d] = "guest" => halted'[d]
    BY <1>4, <1>8, <2>1 DEF CoreOk
  <2>4. pc[d] \notin Releasing \cup {"enable", "request"} /\ needs'[d] => interrupted'[d] \/ Informed(d)'
    BY <1>4, <1>8, <1>9, <1>15, <2>1 DEF CoreOk
  <2>5. CASE d # a
    <3>1. pc'[d] = pc[d]
      BY <1>5, <2>5
    <3>2. QED BY <1>3, <1>9, <2>1, <2>2, <2>3, <2>4, <3>1, OthersKeepCore
  <2>6. CASE d = a
    <3>1. pc[d] = "interrupt" /\ pc'[d] \in {"interrupt", "enable"}
      BY <1>3, <1>5, <1>7, <2>6
    <3>2. PICK x : x = current[d] /\ current'[d] = x
      BY <2>2
    <3>3. Gone(x)' <=> Gone(x)
      BY <1>3 DEF Gone
    <3>4. QED
      BY <1>3, <1>9, <2>1, <2>2, <3>1, <3>2, <3>3
      DEF CoreOk, CoreLabels, Heading, Staying, Releasing, GuestSide
  <2>7. QED BY <2>5, <2>6
<1>17. ASSUME NEW t \in Threads PROVE ThreadOk(t)'
  <2>1. ThreadOk(t)
    BY DEF CarriedInv, ThreadsInv
  <2>2. \A d \in Cores : \/ pc'[d] = pc[d]
                         \/ {pc[d], pc'[d]} \cap (Switching \cup {"unload"}) = {}
    BY <1>3, <1>5, <1>7 DEF Switching
  <2>3. Leaving(t) => Leaving(t)'
    BY <1>3, <1>5 DEF Leaving, switchVars
  <2>4. \A d \in Cores : Diverted(d, t) => Diverted(d, t)'
    BY <1>3, <1>5, <1>7, <1>9 DEF Diverted, Heading, switchVars
  <2>5. Withdrawn(t) => Withdrawn(t)'
    BY <1>9, <2>4 DEF Withdrawn
  <2>6. QED BY <1>3, <2>1, <2>2, <2>3, <2>5, OthersKeepThread DEF threadVars
<1>18. QED
    BY <1>10, <1>11, <1>12, <1>13, <1>14, <1>16, <1>17 DEF CarriedInv, CoresInv, ThreadsInv

-----------------------------------------------------------------------------
(* Those who wait until a thread has left its core *)

\* What the host thread and FinishTermination leave alone.
LEMMA WaitersKeepCores ==
    ASSUME CarriedInv, UNCHANGED <<ctx, schedulerVars, switchVars, coreVars, mask>>,
           \A c \in Cores : pc'[c] = pc[c],
           pc'[Host] = pc[Host] \/ {pc[Host], pc'[Host]} \cap Releasing = {}
    PROVE  SettledInv' /\ NobodyPinned' /\ WritesInv' /\ CoresInv'
<1> USE CoresAreActors
<1>1. /\ ctx' = ctx /\ highest' = highest /\ needs' = needs /\ lock' = lock /\ writes' = writes
      /\ current' = current /\ target' = target /\ interrupted' = interrupted /\ halted' = halted
      /\ mask' = mask
    BY DEF schedulerVars, switchVars, coreVars
<1>2. SettledInv' /\ NobodyPinned'
    BY <1>1 DEF CarriedInv, SettledInv, NobodyPinned
<1>3. WritesInv'
  <2>1. \A i \in 1 .. Len(writes) : WriteOk(i)' <=> WriteOk(i)
    BY <1>1 DEF WriteOk
  <2>2. \A d \in Cores : Published(d)' <=> Published(d)
    BY <1>1 DEF Published
  <2>3. QED BY <1>1, <2>1, <2>2 DEF CarriedInv, WritesInv
<1>4. ASSUME NEW d \in Cores PROVE CoreOk(d)'
  <2>1. CoreOk(d)
    BY DEF CarriedInv, CoresInv
  <2>2. (Told(d)' <=> Told(d)) /\ (Informed(d)' <=> Informed(d))
    <3>1. \A a \in Actors : pc'[a] \in Releasing <=> pc[a] \in Releasing
      BY DEF Actors
    <3>2. QED BY <1>1, <3>1 DEF Told, Informed
  <2>3. pc[d] \notin Releasing \cup {"enable", "request"} /\ needs'[d] => interrupted'[d] \/ Informed(d)'
    BY <1>1, <2>1, <2>2 DEF CoreOk
  <2>4. interrupted'[d] /\ pc[d] = "guest" => halted'[d]
    BY <1>1, <2>1 DEF CoreOk
  <2>5. QED BY <1>1, <2>1, <2>2, <2>3, <2>4, OthersKeepCore
<1>5. QED BY <1>2, <1>3, <1>4 DEF CoresInv

LEMMA WaitersKeepThread ==
    ASSUME UNCHANGED <<ctx, schedulerVars, switchVars>>, \A c \in Cores : pc'[c] = pc[c],
           NEW u \in Threads
    PROVE  /\ \A c \in Cores : /\ HasContext(c, u)' <=> HasContext(c, u)
                               /\ Loaded(c, u)' <=> Loaded(c, u)
                               /\ Locking(c, u)' <=> Locking(c, u)
           /\ (Gone(u)' <=> Gone(u)) /\ (Leaving(u)' <=> Leaving(u))
           /\ Withdrawn(u)' <=> Withdrawn(u)
<1>1. /\ ctx' = ctx /\ highest' = highest /\ needs' = needs /\ writes' = writes
      /\ current' = current /\ target' = target
    BY DEF schedulerVars, switchVars
<1>2. \A c \in Cores : /\ HasContext(c, u)' <=> HasContext(c, u)
                       /\ Loaded(c, u)' <=> Loaded(c, u)
                       /\ Locking(c, u)' <=> Locking(c, u)
                       /\ Diverted(c, u)' <=> Diverted(c, u)
    BY <1>1 DEF HasContext, Loaded, Locking, Diverted
<1>3. (Gone(u)' <=> Gone(u)) /\ (Leaving(u)' <=> Leaving(u))
    BY <1>1 DEF Gone, Leaving
<1>4. Withdrawn(u)' <=> Withdrawn(u)
    BY <1>1, <1>2 DEF Withdrawn
<1>5. QED BY <1>2, <1>3, <1>4

\* SetActivity returns: the lock is free, so that everything is published, and
\* no core has the thread.
LEMMA VerifyKeeps ==
    ASSUME CarriedInv, Verify
    PROVE  CarriedInv'
<1> USE CoresAreActors
<1>1. SwitchFunctions /\ ReleaseInv /\ pc = [b \in Actors |-> pc[b]]
    BY DEF CarriedInv, SwitchIInv, SwitchTypes
<1>2. PICK t : t = subject
    OBVIOUS
<1>3. /\ pc[Host] = "verify" /\ lock = Free /\ pc' = [pc EXCEPT ![Host] = "idle"]
      /\ IsNotCurrent(t) \/ ctx.state[t] = "Terminated"
      /\ paused' = IF ctx.state[t] = "Waiting" THEN paused \cup {t} ELSE paused
      /\ subject' = Null
      /\ ctx' = ctx /\ closing' = closing
      /\ UNCHANGED <<ctx, schedulerVars, switchVars, coreVars, mask>>
    BY <1>2 DEF Verify, GoTo
<1>4. t \in Threads /\ writes = <<>>
    BY <1>1, <1>2, <1>3 DEF ReleaseInv, SwitchFunctions, Decisions
<1>5. pc'[Host] = "idle" /\ \A b \in Actors \ {Host} : pc'[b] = pc[b]
    BY <1>1, <1>3
<1>6. SettledInv' /\ NobodyPinned' /\ WritesInv' /\ CoresInv'
    BY <1>3, <1>5, WaitersKeepCores DEF Releasing
<1>7. SwitchIInv'
    BY <1>3, OutsideSwitch DEF CarriedInv, GoTo, Switching
<1>8. SwitchFunctions'
    BY <1>1, <1>3, <1>4 DEF SwitchFunctions, schedulerVars, switchVars, coreVars, Decisions
<1>9. ReleaseInv'
    BY <1>1, <1>3, <1>5 DEF ReleaseInv, schedulerVars
<1>10. ASSUME NEW u \in Threads PROVE ThreadOk(u)'
  <2>1. ThreadOk(u)
    BY DEF CarriedInv, ThreadsInv
  <2>2. /\ current' = current /\ guard' = guard
        /\ \A c \in Cores : pc'[c] = pc[c]
    BY <1>3, <1>5 DEF switchVars
  <2>3. /\ \A c \in Cores : /\ HasContext(c, u)' <=> HasContext(c, u)
                            /\ Loaded(c, u)' <=> Loaded(c, u)
                            /\ Locking(c, u)' <=> Locking(c, u)
        /\ (Gone(u)' <=> Gone(u)) /\ (Leaving(u)' <=> Leaving(u))
        /\ Withdrawn(u)' <=> Withdrawn(u)
    BY <1>3, <2>2, WaitersKeepThread
  <2>4. u \in paused' => u \in paused \/ (u = t /\ ctx.state[t] = "Waiting" /\ IsNotCurrent(t))
    BY <1>3
  <2>5. u = t /\ ctx.state[t] = "Waiting" => Withdrawn(u)
    BY <1>4, InactiveIsWithdrawn
  <2>6. IsNotCurrent(t) => \A c \in Cores : ~Loaded(c, t)
    BY DEF IsNotCurrent, Loaded
  <2>7. QED BY <1>3, <2>1, <2>2, <2>3, <2>4, <2>5, <2>6 DEF ThreadOk
<1>11. QED
    BY <1>6, <1>7, <1>8, <1>9, <1>10 DEF CarriedInv, ThreadsInv

LEMMA FinishTerminationKeeps ==
    ASSUME CarriedInv, NEW t \in Threads, FinishTermination(t)
    PROVE  CarriedInv'
<1> USE CoresAreActors
<1>1. SwitchFunctions /\ ReleaseInv
    BY DEF CarriedInv
<1>2. /\ closing[t] \in 0 .. NumCores
      /\ closing' = [closing EXCEPT ![t] = closing[t] + 1]
      /\ closing[t] = NumCores \/ current[closing[t]] # t
      /\ ctx' = ctx /\ pc' = pc /\ subject' = subject /\ paused' = paused
      /\ UNCHANGED <<ctx, schedulerVars, switchVars, coreVars, mask>>
    BY DEF FinishTermination
<1>3. SettledInv' /\ NobodyPinned' /\ WritesInv' /\ CoresInv'
    BY <1>2, WaitersKeepCores
<1>4. SwitchIInv'
    BY <1>2, NobodyMoves DEF CarriedInv
<1>5. SwitchFunctions'
    BY <1>1, <1>2 DEF SwitchFunctions, schedulerVars, switchVars, coreVars
<1>6. ReleaseInv'
    BY <1>1, <1>2 DEF ReleaseInv, schedulerVars
<1>7. ASSUME NEW u \in Threads PROVE ThreadOk(u)'
  <2>1. ThreadOk(u)
    BY DEF CarriedInv, ThreadsInv
  <2>2. current' = current /\ guard' = guard /\ \A c \in Cores : pc'[c] = pc[c]
    BY <1>2 DEF switchVars
  <2>3. /\ \A c \in Cores : /\ HasContext(c, u)' <=> HasContext(c, u)
                            /\ Loaded(c, u)' <=> Loaded(c, u)
                            /\ Locking(c, u)' <=> Locking(c, u)
        /\ (Gone(u)' <=> Gone(u)) /\ (Leaving(u)' <=> Leaving(u))
        /\ Withdrawn(u)' <=> Withdrawn(u)
    BY <1>2, <2>2, WaitersKeepThread
  <2>4. closing'[u] >= 0 => /\ ctx.state[u] = "Terminated"
                            /\ \A c \in Cores : c < closing'[u] => current[c] # u
    <3>1. CASE u # t
      BY <1>1, <1>2, <2>1, <3>1 DEF ThreadOk, SwitchFunctions
    <3>2. CASE u = t
      <4>1. closing'[u] = closing[t] + 1 /\ closing[t] >= 0
        BY <1>1, <1>2, <3>2 DEF SwitchFunctions
      <4>2. \A c \in Cores : c < closing'[u] => c < closing[t] \/ c = closing[t]
        BY <1>2, <4>1, ConstantsMakeSense
      <4>3. \A c \in Cores : c # NumCores
        BY ConstantsMakeSense
      <4>4. QED BY <1>2, <2>1, <3>2, <4>1, <4>2, <4>3 DEF ThreadOk
    <3>3. QED BY <3>1, <3>2
  <2>5. QED BY <1>2, <2>1, <2>2, <2>3, <2>4 DEF ThreadOk
<1>8. QED
    BY <1>3, <1>4, <1>5, <1>6, <1>7 DEF CarriedInv, ThreadsInv

-----------------------------------------------------------------------------
(* The theorems *)

\* Nothing has been started, and every core is about to look.
LEMMA SwitchInitCarries == SwitchInit => CarriedInv
<1> SUFFICES ASSUME SwitchInit PROVE CarriedInv
    OBVIOUS
<1> USE CoresAreActors
<1>1. PICK core, prio, m, s :
         /\ core = [t \in Threads |-> 0] /\ prio = [t \in Threads |-> LowestPriority]
         /\ m = [t \in Threads |-> Cores]
         /\ s = InitialContext(core, prio)
    OBVIOUS
<1>2. /\ core \in [Threads -> Cores] /\ prio \in [Threads -> Priorities]
      /\ m \in [Threads -> Masks] /\ \A t \in Threads : core[t] \in m[t]
    BY <1>1, ConstantsMakeSense DEF Cores, Priorities, Masks
<1>3. ctx = [s EXCEPT !.mask = m, !.virtual = m]
    BY <1>1 DEF SwitchInit
<1>4. ctx \in Contexts /\ Unstarted(ctx)
    BY <1>1, <1>2, <1>3, CreatedIsUnstarted
<1>5. SettledInv
    BY <1>4, UnstartedIsSettled DEF SettledInv
<1>6. /\ ctx.state = [t \in Threads |-> "Initialized"] /\ ctx.core \in [Threads -> Cores]
      /\ ctx.highest = [c \in Cores |-> Null] /\ ctx.pinned = ctx.highest
    BY <1>4 DEF Unstarted
<1>7. /\ highest = [c \in Cores |-> Null] /\ needs = [c \in Cores |-> TRUE]
      /\ current = [c \in Cores |-> Null] /\ guard = {} /\ target = [c \in Cores |-> Null]
      /\ pc = [a \in Actors |-> IF a = Host THEN "idle" ELSE "enable"]
      /\ lock = Free /\ writes = <<>> /\ mask = [a \in Actors |-> {}]
      /\ interrupted = [c \in Cores |-> FALSE] /\ halted = [c \in Cores |-> FALSE]
      /\ subject = Null /\ paused = {} /\ closing = [t \in Threads |-> NoCore]
    BY DEF SwitchInit
<1>8. NobodyPinned /\ SwitchIInv
    BY <1>6, SwitchInitEstablishes DEF NobodyPinned
<1>9. SwitchFunctions
    BY <1>7 DEF SwitchFunctions, Decisions, NoCore
<1>10. ReleaseInv
    BY <1>7, ActorsDiffer DEF ReleaseInv, Actors
<1>11. WritesInv
    BY <1>6, <1>7 DEF WritesInv, Published
<1>12. CoresInv
    BY <1>6, <1>7 DEF CoresInv, CoreOk, Told, CoreLabels, Heading, Staying, Releasing
<1>13. ThreadsInv
  <2> SUFFICES ASSUME NEW t \in Threads PROVE ThreadOk(t)
    BY DEF ThreadsInv
  <2>1. ctx.state[t] = "Initialized" /\ ctx.core[t] # NoCore
    BY <1>6, ConstantsMakeSense
  <2>2. t \notin guard /\ t \notin paused /\ ~(closing[t] >= 0)
    BY <1>7 DEF NoCore
  <2>3. QED BY <2>1, <2>2 DEF ThreadOk, Gone
<1>14. QED BY <1>5, <1>8, <1>9, <1>10, <1>11, <1>12, <1>13 DEF CarriedInv

\* Every step keeps the invariant.
LEMMA SwitchNextCarries == CarriedInv /\ [SwitchNext]_vars => CarriedInv'
<1> SUFFICES ASSUME CarriedInv, [SwitchNext]_vars PROVE CarriedInv'
    OBVIOUS
<1> USE CoresAreActors
<1>1. ASSUME NEW c \in Cores, CoreStep(c) \/ LeaveGuest(c) \/ ReturnFromCall(c) PROVE CarriedInv'
    BY <1>1, OwnStepKeeps
<1>2. ASSUME NEW c \in Cores, SystemCall(c) PROVE CarriedInv'
    BY <1>2, CallIsOperation, OperationKeeps
<1>3. ASSUME NEW a \in Actors, ReleaseStep(a) PROVE CarriedInv'
    BY <1>3, PublishKeeps, ReleaseLockKeeps, SendInterruptKeeps DEF ReleaseStep
<1>4. CASE HostWakes \/ HostPauses
    BY <1>4, HostIsOperation, OperationKeeps
<1>5. CASE Verify
    BY <1>5, VerifyKeeps
<1>6. ASSUME NEW t \in Threads, FinishTermination(t) PROVE CarriedInv'
    BY <1>6, FinishTerminationKeeps
<1>7. CASE UNCHANGED vars
  <2>1. /\ UNCHANGED <<ctx, schedulerVars, switchVars, coreVars, mask>> /\ pc' = pc
        /\ subject' = subject /\ paused' = paused /\ closing' = closing
    BY <1>7 DEF vars, threadVars
  <2>2. SettledInv' /\ NobodyPinned' /\ WritesInv' /\ CoresInv'
    BY <2>1, WaitersKeepCores
  <2>3. SwitchFunctions' /\ ReleaseInv'
    BY <2>1 DEF CarriedInv, SwitchFunctions, ReleaseInv, schedulerVars, switchVars, coreVars
  <2>4. SwitchIInv'
    BY <1>7, SwitchNextKeepsInvariant DEF CarriedInv
  <2>5. ASSUME NEW t \in Threads PROVE ThreadOk(t)'
    <3>1. ThreadOk(t)
      BY DEF CarriedInv, ThreadsInv
    <3>2. (Withdrawn(t)' <=> Withdrawn(t)) /\ (Leaving(t)' <=> Leaving(t))
      BY <2>1, WaitersKeepThread
    <3>3. QED BY <2>1, <3>1, <3>2, OthersKeepThread
  <2>6. QED BY <2>2, <2>3, <2>4, <2>5 DEF CarriedInv, ThreadsInv
<1>8. QED
    BY <1>1, <1>2, <1>3, <1>4, <1>5, <1>6, <1>7 DEF SwitchNext

LEMMA CarriedHolds == SwitchSpec => []CarriedInv
BY SwitchInitCarries, SwitchNextCarries, PTL DEF SwitchSpec

\* The context guard of a thread is locked exactly while one core has the thread
\* loaded or is loading it, and for good once the thread has terminated: Unload,
\* TryLock and CheckNeeds neither lose a guard nor leave one locked.
THEOREM SwitchInvHolds == SwitchSpec => []SwitchInv
<1>1. CarriedInv => SwitchInv
  <2> SUFFICES ASSUME CarriedInv PROVE SwitchInv
    OBVIOUS
  <2>1. /\ current \in [Cores -> Threads \cup {Null}] /\ target \in [Cores -> Threads \cup {Null}]
        /\ guard \subseteq Threads /\ lock \in Actors \cup {Free}
    BY DEF CarriedInv, SwitchFunctions, ReleaseInv, Decisions
  <2>2. \A t \in Threads :
           t \in guard <=> (\E c \in Cores : HasContext(c, t)) \/ ctx.state[t] = "Terminated"
    BY DEF CarriedInv, ThreadsInv, ThreadOk, SwitchIInv, LoadedIsGuarded
  <2>3. QED BY <2>1, <2>2 DEF SwitchInv, HasContext
<1>2. QED BY <1>1, CarriedHolds, PTL

\* KThread::Exit does not return: the core that released the lock for a thread
\* that exits switches away from it before it goes on, whatever else is decided
\* for the core in the meantime.
THEOREM ExitNeverReturnsHolds == SwitchSpec => []ExitNeverReturns
<1>1. CarriedInv => ExitNeverReturns
    BY DEF CarriedInv, CoresInv, CoreOk, Gone, GuestSide, ExitNeverReturns
<1>2. QED BY <1>1, CarriedHolds, PTL

\* RescheduleCores forgets nobody: a core that runs or sleeps with another thread
\* than the one decided for it is interrupted, or the actor that decided has yet
\* to publish the decision or to interrupt it.
THEOREM StaleCoreIsToldHolds == SwitchSpec => []StaleCoreIsTold
<1>1. CarriedInv => StaleCoreIsTold
  <2> SUFFICES ASSUME CarriedInv, NEW c \in Cores, pc[c] \in {"loop", "enter", "guest"}
               PROVE  /\ current[c] # ctx.highest[c] => interrupted[c] \/ Announced(c)
                      /\ interrupted[c] /\ pc[c] = "guest" => halted[c]
    BY DEF StaleCoreIsTold
  <2>1. CoreOk(c)
    BY DEF CarriedInv, CoresInv
  <2>2. ASSUME current[c] # ctx.highest[c] PROVE interrupted[c] \/ Announced(c)
    <3>1. Told(c)
      BY <2>1, <2>2 DEF CoreOk, Staying
    <3>2. needs[c] => interrupted[c] \/ Informed(c)
      BY <2>1 DEF CoreOk, Releasing
    <3>3. QED BY <3>1, <3>2 DEF Told, Announced, Informed, Releasing
  <2>3. QED BY <2>1, <2>2 DEF CoreOk
<1>2. QED BY <1>1, CarriedHolds, PTL

\* SetActivity and FinishTermination wait for long enough: once they have looked
\* at the cores, no core comes to load the paused thread, or to have the
\* terminated one as its current thread, from a decision that is out of date.
THEOREM LeftThreadIsUnloadedHolds == SwitchSpec => []LeftThreadIsUnloaded
<1>1. CarriedInv => LeftThreadIsUnloaded
  <2> SUFFICES ASSUME CarriedInv, NEW t \in Threads, NEW c \in Cores
               PROVE  /\ t \in paused => ~Loaded(c, t)
                      /\ closing[t] = Closed => current[c] # t
    BY DEF LeftThreadIsUnloaded
  <2>1. ThreadOk(t)
    BY DEF CarriedInv, ThreadsInv
  <2>2. closing[t] = Closed => closing[t] >= 0 /\ c < closing[t]
    BY ConstantsMakeSense DEF Closed
  <2>3. QED BY <2>1, <2>2 DEF ThreadOk
<1>2. QED BY <1>1, CarriedHolds, PTL
=============================================================================
